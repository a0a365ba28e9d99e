---------------------------- MODULE ReaderProofs ----------------------------
(***************************************************************************)
(* Proofs about Reader, for every set of buffers, every width of the       *)
(* location counters and terminated and unterminated buffers alike; and    *)
(* about its locations in the line index (Diagnosis).                      *)
(*                                                                         *)
(* Then what it builds: each character of an atom ends up in exactly one   *)
(* token, and in terminated buffers each node has exactly one owner, who   *)
(* holds its nodes in the order of the text; and there every step is one   *)
(* of SExpr's, or none.                                                    *)
(***************************************************************************)
EXTENDS Diagnosis, LineIndexProofs, ReaderForest, SequenceTheorems

(***************************************************************************)
(* The inductive invariant.                                                *)
(***************************************************************************)

\* Where control is, as far as the stack depends on it.
InList == pc \in {"list", "close", "eof"} \/ (pc = "skip" /\ ret \in {"close", "eof"})

Control ==
  /\ InList => stack # <<>>
  /\ pc = "skip" => ret \in {"readExpr", "readList", "close", "eof", "readSymbol"}

\* A position is never further than one byte behind the buffer, and never
\* behind it when the buffer is terminated.
Position ==
  /\ currentPos = currentChar + 1
  /\ pc # "done" => currentChar <= Len(buf) + 1
  /\ pc # "done" /\ after = "nul" => currentChar <= Len(buf)

\* What each function knows of the characters ahead when it is entered.
Ahead ==
  LET c     == currentChar + 1
      at(f) == pc = f \/ (pc = "skip" /\ ret = f)
  IN /\ pc = "readExpr" => Mem(c) \notin Space
     /\ at("readList") => c <= Len(buf) /\ Mem(c) = "("
     /\ at("readSymbol") => c <= Len(buf) /\ Mem(c) \notin Space
     /\ pc = "readNumber" => Mem(c) = "digit"
     /\ pc = "close" => Mem(c) = ")"
     /\ pc = "skip" /\ ret = "close" =>
          \E i \in c .. Len(buf) + 1 :
             Mem(i) = ")" /\ \A j \in c .. i - 1 : Mem(j) \in Space

\* The flag that carries a newline from one call of advanceByOne to the next.
Geometry ==
  /\ readEOL = (currentChar > 0 /\ Mem(currentChar) = "newline")
  /\ LocationExact

IInv ==
  /\ TypeOK
  /\ Control
  /\ Position
  /\ Ahead
  /\ Geometry
  /\ StackMirrorsNesting

(***************************************************************************)
(* Facts about numbers.                                                    *)
(***************************************************************************)

\* Division with remainder, and its uniqueness.
LEMMA DivMod ==
  ASSUME NEW m \in Nat \ {0}, NEW a \in Int
  PROVE  /\ a \div m \in Int
         /\ a = m * (a \div m) + (a % m)
         /\ a % m \in 0 .. m - 1
  OBVIOUS

LEMMA ModUnique ==
  ASSUME NEW m \in Nat \ {0}, NEW q \in Int, NEW r \in 0 .. m - 1, NEW a \in Int,
         a = m * q + r
  PROVE  a % m = r
  OBVIOUS

(***************************************************************************)
(* A counter of m values that wraps counts modulo m.                       *)
(***************************************************************************)
LEMMA WrappingCounter ==
  ASSUME NEW m \in Nat \ {0}, NEW a \in Int
  PROVE  (a + 1) % m = IF (a % m) + 1 = m THEN 0 ELSE (a % m) + 1
<1> DEFINE q == a \div m
           r == a % m
<1>1. q \in Int /\ a = m * q + r /\ r \in 0 .. m - 1
  BY DivMod
<1> HIDE DEF q, r
<1>2. CASE r + 1 = m
  <2>1. a + 1 = m * (q + 1) + 0
    BY <1>1, <1>2
  <2>2. (a + 1) % m = 0
    BY <2>1, <1>1, ModUnique
  <2> QED BY <2>2, <1>2 DEF r
<1>3. CASE r + 1 # m
  <2>1. a + 1 = m * q + (r + 1) /\ r + 1 \in 0 .. m - 1
    BY <1>1, <1>3
  <2>2. (a + 1) % m = r + 1
    BY <2>1, <1>1, ModUnique
  <2> QED BY <2>2, <1>3 DEF r
<1> QED BY <1>2, <1>3

(***************************************************************************)
(* Looking at the buffer.                                                  *)
(***************************************************************************)

\* Only characters are ever seen, and behind the byte after the buffer (at
\* that byte already, when the buffer is terminated) only terminators.
LEMMA MemFacts ==
  ASSUME TypeOK, NEW i \in Nat \ {0}
  PROVE  /\ Mem(i) \in Char
         /\ i > Len(buf) + 1 => Mem(i) = "nul"
         /\ i > Len(buf) /\ after = "nul" => Mem(i) = "nul"
<1>1. buf \in Seq(Char) /\ after \in Char
  BY BuffersAssumption, ForeignAssumption DEF TypeOK
<1>2. CASE i <= Len(buf)
  <2>1. Mem(i) = buf[i]
    BY <1>2 DEF Mem
  <2>2. buf[i] \in Char
    BY <1>1, <1>2
  <2> QED BY <1>1, <1>2, <2>1, <2>2
<1>3. CASE i > Len(buf)
  <2>1. Mem(i) = after \/ Mem(i) = "nul"
    BY <1>1, <1>3 DEF Mem
  <2>2. i > Len(buf) + 1 => Mem(i) = "nul"
    BY <1>1 DEF Mem
  <2> QED BY <1>1, <1>3, <2>1, <2>2 DEF Char
<1> QED BY <1>1, <1>2, <1>3

\* nextChar(true) stops: at the first character that is not a space.
LEMMA NextNonSpace ==
  ASSUME TypeOK, currentChar <= Len(buf) + 1
  PROVE  /\ nextNonSpace \in currentChar + 1 .. Len(buf) + 2
         /\ Mem(nextNonSpace) \notin Space
         /\ \A j \in currentChar + 1 .. nextNonSpace - 1 : Mem(j) \in Space
<1> DEFINE n == Len(buf) + 2
           T == {i \in currentChar + 1 .. n : Mem(i) \notin Space}
<1>1. n \in Nat /\ currentChar \in Nat
  BY BuffersAssumption DEF TypeOK
<1>2. n \in T
  <2>1. Mem(n) = "nul"
    BY <1>1, MemFacts, BuffersAssumption DEF TypeOK
  <2> QED BY <1>1, <2>1 DEF Space
<1>3. T \in SUBSET (0 .. n) /\ T # {}
  BY <1>1, <1>2
<1>4. PICK i \in T : \A y \in T : i <= y
  <2> HIDE DEF T, n
  <2> QED BY <1>1, <1>3, LeastElement
<1>5. /\ i \in currentChar + 1 .. Len(buf) + 2
      /\ Mem(i) \notin Space
      /\ \A j \in currentChar + 1 .. i - 1 : Mem(j) \in Space
  BY <1>1, <1>4
<1> HIDE DEF T, n
<1> QED BY <1>5 DEF nextNonSpace

LEMMA InputFixed ==
  ASSUME [Next]_vars
  PROVE  buf' = buf /\ after' = after /\ \A i : Mem(i)' = Mem(i)
<1>1. buf' = buf /\ after' = after
  BY DEF Next, Step, Terminated, vars, input, skipSpace, read, readExpr, readList,
         listLoop, closeList, eofInList, badSymbol, startNumber, startSymbol,
         symbolLoop, readNumber, numberLoop, fails, returnAtom
<1> QED BY <1>1 DEF Mem

(***************************************************************************)
(* Moving in the buffer.                                                   *)
(***************************************************************************)

LEMMA NoLocationType == NoLocation \in Loc
BY LocModAssumption DEF NoLocation, Loc

LEMMA NextLocationType ==
  ASSUME TypeOK
  PROVE  nextLocation \in Loc
<1>1. \A n \in 0 .. LocMod - 1 : Inc(n) \in 0 .. LocMod - 1
  BY LocModAssumption DEF Inc
<1>2. 1 \in 0 .. LocMod - 1
  BY LocModAssumption
<1> QED BY <1>1, <1>2 DEF nextLocation, TypeOK, Loc

\* Every step of the reader either stays where it is or is one advanceByOne().
LEMMA Moves ==
  ASSUME Step
  PROVE  advanceByOne \/ UNCHANGED position
BY DEF Step, skipSpace, read, readExpr, readList, listLoop, closeList, eofInList,
       badSymbol, startNumber, startSymbol, symbolLoop, readNumber, numberLoop,
       returnAtom

LEMMA PositionType ==
  ASSUME TypeOK, advanceByOne \/ UNCHANGED position
  PROVE  /\ currentChar' \in Nat /\ currentPos' \in Nat
         /\ loc' \in Loc /\ readEOL' \in BOOLEAN
<1>1. CASE advanceByOne
  <2>1. currentChar' \in Nat /\ currentPos' \in Nat /\ loc' \in Loc
    BY <1>1, NextLocationType DEF TypeOK, advanceByOne
  <2>2. readEOL' \in BOOLEAN
    BY <1>1 DEF advanceByOne
  <2> QED BY <2>1, <2>2
<1>2. CASE UNCHANGED position
  BY <1>2 DEF TypeOK, position
<1> QED BY <1>1, <1>2

(***************************************************************************)
(* Types.                                                                  *)
(***************************************************************************)

LEMMA NodeType ==
  ASSUME TypeOK, NEW kind \in {"Symbol", "Number", "List"}, NEW from \in Loc, NEW to \in Loc
  PROVE  node(kind, from, to) \in Node
BY DEF node, Node, TypeOK

LEMMA NodeUpdate ==
  ASSUME NEW r \in Node
  PROVE  /\ \A e \in Seq(Nat) : [r EXCEPT !.elems = e] \in Node
         /\ \A to \in Loc : [r EXCEPT !.end = to] \in Node
<1>1. ASSUME NEW e \in Seq(Nat) PROVE [r EXCEPT !.elems = e] \in Node
  BY DEF Node
<1>2. ASSUME NEW to \in Loc PROVE [r EXCEPT !.end = to] \in Node
  BY DEF Node
<1> QED BY <1>1, <1>2

LEMMA ReturnExprType ==
  ASSUME TypeOK, NEW nodes \in Seq(Node), NEW open \in Seq(1 .. Len(nodes)),
         NEW n \in Nat, returnExpr(nodes, open, n)
  PROVE  /\ heap' \in Seq(Node) /\ stack' = open /\ stack' \in Seq(1 .. Len(heap'))
         /\ ast' \in Seq(Nat)
         /\ pc' \in {"read", "list"} /\ (pc' = "list" => stack' # <<>>)
<1>1. CASE open = <<>>
  <2>1. heap' = nodes /\ ast' = Append(ast, n) /\ stack' = open /\ pc' = "read"
    BY <1>1 DEF returnExpr
  <2>2. ast' \in Seq(Nat)
    BY <2>1 DEF TypeOK
  <2> QED BY <2>1, <2>2
<1>2. CASE open # <<>>
  <2> DEFINE k == open[Len(open)]
  <2>1. /\ heap' = [nodes EXCEPT ![k].elems = Append(@, n)]
        /\ stack' = open /\ ast' = ast /\ pc' = "list"
    BY <1>2 DEF returnExpr
  <2>2. k \in 1 .. Len(nodes)
    BY <1>2
  <2> HIDE DEF k
  <2>3. nodes[k] \in Node
    BY <2>2
  <2>4. [nodes[k] EXCEPT !.elems = Append(@, n)] \in Node
    <3>1. Append(nodes[k].elems, n) \in Seq(Nat)
      BY <2>3 DEF Node
    <3> QED BY <2>3, <3>1, NodeUpdate
  <2>5. heap' = [nodes EXCEPT ![k] = [nodes[k] EXCEPT !.elems = Append(@, n)]]
    BY <2>1, <2>2
  <2>6. heap' \in Seq(Node) /\ Len(heap') = Len(nodes)
    BY <2>2, <2>4, <2>5
  <2>7. ast' \in Seq(Nat)
    BY <2>1 DEF TypeOK
  <2> QED BY <1>2, <2>1, <2>6, <2>7
<1> QED BY <1>1, <1>2

Word == [text : Seq(Nat), start : Loc, neg : BOOLEAN, float : BOOLEAN]

\* TypeOK without the input and the position, with Control.
LocalsOK ==
  /\ pc \in PC /\ ret \in PC
  /\ word \in Word
  /\ result \in [status : {"pending", "ok"} \cup ErrorType, start : Loc, end : Loc]
  /\ Control

TreeOK ==
  heap \in Seq(Node) /\ stack \in Seq(1 .. Len(heap)) /\ ast \in Seq(Nat)

LEMMA NoWordType == NoWord \in Word
BY NoLocationType DEF NoWord, Word

\* Where readSymbol() and readNumber() put the character they look at.
LEMMA WordGrows ==
  ASSUME TypeOK
  PROVE  /\ word \in Word /\ nextChar(1) \in Nat
         /\ Append(word.text, nextChar(1)) \in Seq(Nat)
         /\ <<nextChar(1)>> \in Seq(Nat)
<1>1. word \in Word /\ word.text \in Seq(Nat) /\ nextChar(1) \in Nat
  BY DEF TypeOK, Word, nextChar
<1> QED BY <1>1

LEMMA WordUpdate ==
  ASSUME NEW w \in Word
  PROVE  /\ w.text \in Seq(Nat) /\ w.start \in Loc /\ w.float \in BOOLEAN
         /\ \A t \in Seq(Nat) : [w EXCEPT !.text = t] \in Word
         /\ \A t \in Seq(Nat), b \in BOOLEAN :
              /\ [w EXCEPT !.text = t, !.float = b] \in Word
              /\ [w EXCEPT !.neg = b, !.text = t] \in Word
         /\ \A t \in Seq(Nat), from \in Loc : [w EXCEPT !.text = t, !.start = from] \in Word
<1>1. w.text \in Seq(Nat) /\ w.start \in Loc /\ w.float \in BOOLEAN
  BY DEF Word
<1>2. ASSUME NEW t \in Seq(Nat) PROVE [w EXCEPT !.text = t] \in Word
  BY DEF Word
<1>3. ASSUME NEW t \in Seq(Nat), NEW b \in BOOLEAN
      PROVE  [w EXCEPT !.text = t, !.float = b] \in Word
  BY DEF Word
<1>4. ASSUME NEW t \in Seq(Nat), NEW b \in BOOLEAN
      PROVE  [w EXCEPT !.neg = b, !.text = t] \in Word
  BY DEF Word
<1>5. ASSUME NEW t \in Seq(Nat), NEW from \in Loc
      PROVE  [w EXCEPT !.text = t, !.start = from] \in Word
  BY DEF Word
<1> QED BY <1>1, <1>2, <1>3, <1>4, <1>5

LEMMA FailsType ==
  ASSUME TypeOK, NEW error \in ErrorType, NEW from \in Loc, NEW to \in Loc,
         fails(error, from, to)
  PROVE  LocalsOK' /\ TreeOK'
<1>1. pc' = "done" /\ ret' = ret /\ word' = word /\ heap' = heap /\ stack' = stack /\ ast' = ast
  BY DEF fails, returns, tree
<1>2. result' \in [status : {"pending", "ok"} \cup ErrorType, start : Loc, end : Loc]
  BY DEF fails, returns
<1> QED BY <1>1, <1>2 DEF LocalsOK, TreeOK, Control, InList, TypeOK, Word, PC

LEMMA ReturnAtomType ==
  ASSUME TypeOK, Control, NEW kind \in {"Symbol", "Number"}, NEW from \in Loc,
         returnAtom(kind, from)
  PROVE  LocalsOK' /\ TreeOK'
<1> DEFINE nodes == Append(heap, node(kind, from, loc))
<1>1. nodes \in Seq(Node) /\ Len(nodes) = Len(heap) + 1
  BY NodeType DEF TypeOK
<1>2. stack \in Seq(1 .. Len(nodes))
  BY <1>1 DEF TypeOK
<1>3. Len(heap) + 1 \in Nat /\ returnExpr(nodes, stack, Len(heap) + 1)
  BY DEF returnAtom, TypeOK
<1> HIDE DEF nodes
<1>4. /\ TreeOK' /\ pc' \in {"read", "list"} /\ (pc' = "list" => stack' # <<>>)
  BY <1>1, <1>2, <1>3, ReturnExprType DEF TreeOK
<1>5. word' = NoWord /\ ret' = ret /\ result' = result
  BY DEF returnAtom
<1> QED BY <1>4, <1>5, NoWordType DEF LocalsOK, Control, InList, TypeOK, Word, PC

LEMMA StepType ==
  ASSUME TypeOK, Control, Step
  PROVE  LocalsOK' /\ TreeOK'
<1> USE DEF PC
<1>1. CASE skipSpace
  BY <1>1 DEF skipSpace, LocalsOK, TreeOK, Control, InList, TypeOK, Word, tree
<1>2. CASE read
  <2>1. CASE returns("ok", NoLocation, NoLocation) /\ UNCHANGED ret
    BY <1>2, <2>1, NoLocationType
       DEF read, returns, LocalsOK, TreeOK, Control, InList, TypeOK, Word, tree
  <2>2. CASE skipThen("readExpr") /\ UNCHANGED result
    BY <1>2, <2>2 DEF read, skipThen, LocalsOK, TreeOK, Control, InList, TypeOK, Word, tree
  <2> QED BY <1>2, <2>1, <2>2 DEF read
<1>3. CASE readExpr
  <2>1. CASE ~isEndOfBuffer(nextNonSpace)
    <3>1. /\ pc' = "skip" /\ ret' \in {"readList", "readSymbol"}
          /\ word' = word /\ tree' = tree /\ result' = result
      BY <1>3, <2>1 DEF readExpr, skipThen
    <3> QED BY <3>1 DEF LocalsOK, TreeOK, Control, InList, TypeOK, Word, tree
  <2>2. CASE isEndOfBuffer(nextNonSpace) /\ stack = <<>>
    <3>1. returns("ok", NoLocation, NoLocation) /\ ret' = ret /\ word' = word /\ tree' = tree
      BY <1>3, <2>2 DEF readExpr
    <3> QED BY <3>1, NoLocationType
            DEF returns, LocalsOK, TreeOK, Control, InList, TypeOK, Word, tree
  <2>3. CASE isEndOfBuffer(nextNonSpace) /\ stack # <<>>
    <3>1. /\ returnExpr(heap, stack, EmptyNode) /\ EmptyNode \in Nat
          /\ ret' = ret /\ result' = result /\ word' = word
      BY <1>3, <2>3 DEF readExpr, EmptyNode
    <3>2. TreeOK' /\ pc' \in {"read", "list"} /\ (pc' = "list" => stack' # <<>>)
      BY <3>1, ReturnExprType DEF TreeOK, TypeOK
    <3> QED BY <3>1, <3>2 DEF LocalsOK, Control, InList, TypeOK, Word
  <2> QED BY <2>1, <2>2, <2>3
<1>4. CASE readList
  <2>1. heap' \in Seq(Node) /\ Len(heap') = Len(heap) + 1
    BY <1>4, NodeType DEF readList, TypeOK
  <2>2. stack' \in Seq(1 .. Len(heap')) /\ stack' # <<>>
    <3>1. stack' = Append(stack, Len(heap) + 1)
      BY <1>4 DEF readList
    <3>2. stack \in Seq(1 .. Len(heap')) /\ Len(heap) + 1 \in 1 .. Len(heap')
      BY <2>1 DEF TypeOK
    <3> QED BY <3>1, <3>2
  <2> QED BY <1>4, <2>1, <2>2 DEF readList, LocalsOK, TreeOK, Control, InList, TypeOK, Word
<1>5. CASE listLoop
  <2>1. stack # <<>>
    BY <1>5 DEF listLoop, Control, InList
  <2>2. pc' = "skip" /\ ret' \in {"eof", "close", "readExpr"}
    BY <1>5 DEF listLoop, skipThen
  <2> QED BY <1>5, <2>1, <2>2 DEF listLoop, LocalsOK, TreeOK, Control, InList, TypeOK, Word, tree
<1>6. CASE closeList
  <2> DEFINE list == stack[Len(stack)]
             nodes == [heap EXCEPT ![list].end = nextLocation]
             open == SubSeq(stack, 1, Len(stack) - 1)
  <2>1. stack # <<>>
    BY <1>6 DEF closeList, Control, InList
  <2>2. list \in 1 .. Len(heap)
    BY <2>1 DEF TypeOK
  <2>3. nodes \in Seq(Node) /\ Len(nodes) = Len(heap)
    <3>1. heap[list] \in Node
      BY <2>2 DEF TypeOK
    <3>2. [heap[list] EXCEPT !.end = nextLocation] \in Node
      BY <3>1, NodeUpdate, NextLocationType
    <3>3. nodes = [heap EXCEPT ![list] = [heap[list] EXCEPT !.end = nextLocation]]
      OBVIOUS
    <3> HIDE DEF nodes, list
    <3> QED BY <2>2, <3>2, <3>3 DEF TypeOK
  <2>4. open \in Seq(1 .. Len(nodes))
    BY <2>1, <2>3 DEF TypeOK
  <2>5. returnExpr(nodes, open, list) /\ ret' = ret /\ word' = word /\ result' = result
    BY <1>6 DEF closeList
  <2> HIDE DEF nodes, open, list
  <2>6. TreeOK' /\ pc' \in {"read", "list"} /\ (pc' = "list" => stack' # <<>>)
    BY <2>2, <2>3, <2>4, <2>5, ReturnExprType DEF TreeOK
  <2> QED BY <2>5, <2>6 DEF LocalsOK, Control, InList, TypeOK, Word
<1>7. CASE eofInList
  <2>1. stack # <<>>
    BY <1>7 DEF eofInList, Control, InList
  <2>2. heap[stack[Len(stack)]].start \in Loc
    <3>1. stack[Len(stack)] \in 1 .. Len(heap)
      BY <2>1 DEF TypeOK
    <3>2. heap[stack[Len(stack)]] \in Node
      BY <3>1 DEF TypeOK
    <3> QED BY <3>2 DEF Node
  <2> QED BY <1>7, <2>2, NextLocationType, FailsType DEF eofInList, ErrorType
<1>8. CASE badSymbol
  BY <1>8, NextLocationType, FailsType DEF badSymbol, ErrorType
<1>9. CASE startNumber
  <2> DEFINE c == nextChar(1)
             negative == Mem(c) = "minus" /\ Mem(nextChar(2)) = "digit"
             t == IF negative THEN <<c>> ELSE <<>>
  <2>1. word' = [NoWord EXCEPT !.neg = negative, !.text = t]
    BY <1>9 DEF startNumber
  <2>2. t \in Seq(Nat) /\ negative \in BOOLEAN
    BY WordGrows
  <2> HIDE DEF t, negative
  <2>3. word' \in Word
    BY <2>1, <2>2, NoWordType, WordUpdate
  <2>4. pc' = "readNumber" /\ ret' = ret /\ tree' = tree /\ result' = result
    BY <1>9 DEF startNumber
  <2> QED BY <2>3, <2>4 DEF LocalsOK, TreeOK, Control, InList, TypeOK, tree
<1>10. CASE startSymbol
  <2>1. word' = [NoWord EXCEPT !.text = <<nextChar(1)>>] 
    BY <1>10 DEF startSymbol
  <2>2. word' \in Word
    BY <2>1, WordGrows, NoWordType, WordUpdate
  <2>3. pc' = "symbol" /\ ret' = ret /\ tree' = tree /\ result' = result
    BY <1>10 DEF startSymbol
  <2> QED BY <2>2, <2>3 DEF LocalsOK, TreeOK, Control, InList, TypeOK, tree
<1>11. CASE symbolLoop
  <2>1. CASE returnAtom("Symbol", NoLocation)
    BY <2>1, ReturnAtomType, NoLocationType
  <2>2. CASE ~returnAtom("Symbol", NoLocation)
    <3>1. /\ word' = [word EXCEPT !.text = Append(@, nextChar(1))]
          /\ pc' = pc /\ ret' = ret /\ tree' = tree /\ result' = result
      BY <1>11, <2>2 DEF symbolLoop
    <3>2. word' \in Word
      BY <3>1, WordGrows, WordUpdate
    <3>3. pc = "symbol"
      BY <1>11 DEF symbolLoop
    <3> QED BY <3>1, <3>2, <3>3 DEF LocalsOK, TreeOK, Control, InList, TypeOK, tree
  <2> QED BY <2>1, <2>2
<1>12. CASE readNumber
  <2>1. CASE Mem(nextChar(1)) = "digit"
    <3>1. /\ word' = [word EXCEPT !.text = Append(@, nextChar(1)), !.start = nextLocation]
          /\ pc' = "number" /\ ret' = ret /\ tree' = tree /\ result' = result
      BY <1>12, <2>1 DEF readNumber
    <3>2. word' \in Word
      BY <3>1, WordGrows, NextLocationType, WordUpdate
    <3> QED BY <3>1, <3>2 DEF LocalsOK, TreeOK, Control, InList, TypeOK, tree
  <2>2. CASE Mem(nextChar(1)) # "digit"
    BY <1>12, <2>2, NextLocationType, FailsType DEF readNumber, ErrorType
  <2> QED BY <2>1, <2>2
<1>13. CASE numberLoop
  <2>1. loc \in Loc /\ word.start \in Loc
    BY DEF TypeOK
  <2>2. CASE returnAtom("Number", word.start)
    BY <2>1, <2>2, ReturnAtomType
  <2>3. CASE fails("TwoFloatPoints", loc, loc)
    BY <2>1, <2>3, FailsType DEF ErrorType
  <2>4. CASE fails("InvalidDigitForNumber", nextLocation, word.start)
    BY <2>1, <2>4, FailsType, NextLocationType DEF ErrorType
  <2>5. CASE /\ word' = [word EXCEPT !.text = Append(@, nextChar(1)),
                                     !.float = @ \/ Mem(nextChar(1)) = "dot"]
             /\ UNCHANGED <<input, pc, ret, tree, result>>
    <3>1. (word.float \/ Mem(nextChar(1)) = "dot") \in BOOLEAN
      OBVIOUS
    <3>2. word \in Word /\ Append(word.text, nextChar(1)) \in Seq(Nat)
      BY WordGrows
    <3>3. word' \in Word
      BY <2>5, <3>1, <3>2, WordUpdate
    <3>4. pc = "number" /\ pc' = pc /\ ret' = ret /\ tree' = tree /\ result' = result
      BY <1>13, <2>5 DEF numberLoop
    <3> QED BY <3>3, <3>4 DEF LocalsOK, TreeOK, Control, InList, TypeOK, tree
  <2> QED BY <1>13, <2>2, <2>3, <2>4, <2>5 DEF numberLoop
<1> QED BY <1>1, <1>2, <1>3, <1>4, <1>5, <1>6, <1>7, <1>8, <1>9, <1>10, <1>11, <1>12, <1>13
        DEF Step

(***************************************************************************)
(* Positions.                                                              *)
(***************************************************************************)

\* A character that is no terminator is in the buffer or right behind it.
LEMMA InReach ==
  ASSUME TypeOK, NEW i \in Nat \ {0}, Mem(i) # "nul"
  PROVE  i <= Len(buf) + 1 /\ (after = "nul" => i <= Len(buf))
BY MemFacts, BuffersAssumption DEF TypeOK

LEMMA StepPosition ==
  ASSUME TypeOK, Control, Position, Ahead, Step
  PROVE  Position' /\ Ahead'
<1> DEFINE c == currentChar + 1
<1>1. buf' = buf /\ after' = after /\ \A i : Mem(i)' = Mem(i)
  BY InputFixed DEF Next
<1>2. /\ c \in Nat \ {0} /\ nextChar(1) = c /\ currentChar \in Nat /\ Len(buf) \in Nat
      /\ currentPos = c
  BY BuffersAssumption DEF TypeOK, nextChar, Position
<1>3. Mem(c) \in Char /\ (Mem(c) # "nul" => c <= Len(buf) + 1 /\ (after = "nul" => c <= Len(buf)))
  BY <1>2, MemFacts, InReach
<1>4. advanceByOne => currentChar' = c /\ currentPos' = c + 1
  BY <1>2 DEF advanceByOne
<1>5. UNCHANGED position => currentChar' = currentChar /\ currentPos' = currentPos
  BY DEF position
<1>6. ASSUME pc # "done"
      PROVE  /\ nextNonSpace \in c .. Len(buf) + 2 /\ Mem(nextNonSpace) \notin Space
             /\ \A j \in c .. nextNonSpace - 1 : Mem(j) \in Space
             /\ Mem(nextNonSpace) # "nul" => nextNonSpace <= Len(buf) + 1
             /\ ~isEndOfBuffer(nextNonSpace) => Mem(nextNonSpace) # "nul" /\ c <= Len(buf)
  <2>1. /\ nextNonSpace \in c .. Len(buf) + 2 /\ Mem(nextNonSpace) \notin Space
        /\ \A j \in c .. nextNonSpace - 1 : Mem(j) \in Space
    BY <1>6, NextNonSpace DEF Position
  <2>2. nextNonSpace \in Nat \ {0}
    BY <1>2, <2>1
  <2> QED BY <1>2, <2>1, <2>2, InReach DEF isEndOfBuffer
<1> HIDE DEF c
<1>7. CASE pc' = "done"
  <2>1. advanceByOne \/ UNCHANGED position
    BY Moves
  <2> QED BY <1>2, <1>4, <1>5, <1>7, <2>1 DEF Position, Ahead
<1>8. CASE skipSpace /\ Mem(c) \in Space
  <2>1. pc = "skip" /\ pc' = "skip" /\ ret' = ret /\ currentChar' = c /\ currentPos' = c + 1
    BY <1>2, <1>4, <1>8 DEF skipSpace
  <2>2. Position'
    BY <1>1, <1>2, <1>3, <1>8, <2>1 DEF Position, Space
  <2>3. Mem(c) # "(" /\ Mem(c) # ")" /\ Mem(c) # "digit"
    BY <1>8 DEF Space
  <2>4. ret # "readList" /\ ret # "readSymbol"
    BY <1>2, <1>8, <2>1, <2>3 DEF Ahead, c
  <2>5. ASSUME ret = "close"
        PROVE  \E i \in c + 1 .. Len(buf) + 1 :
                 Mem(i) = ")" /\ \A j \in c + 1 .. i - 1 : Mem(j) \in Space
    <3>1. PICK i \in c .. Len(buf) + 1 :
             Mem(i) = ")" /\ \A j \in c .. i - 1 : Mem(j) \in Space
      BY <2>1, <2>5 DEF Ahead, c
    <3>2. i \in c + 1 .. Len(buf) + 1
      BY <1>2, <2>3, <3>1
    <3> QED BY <1>2, <3>1, <3>2
  <2> QED BY <1>1, <2>1, <2>2, <2>4, <2>5 DEF Ahead
<1>9. CASE skipSpace /\ Mem(c) \notin Space
  <2>1. /\ pc = "skip" /\ pc' = ret /\ ret' = ret
        /\ currentChar' = currentChar /\ currentPos' = currentPos
    BY <1>2, <1>5, <1>9 DEF skipSpace
  <2>2. Position'
    BY <1>1, <2>1 DEF Position
  <2>3. ret = "close" => Mem(c) = ")"
    BY <1>2, <1>9, <2>1 DEF Ahead, c
  <2>4. ret \in {"readExpr", "readList", "close", "eof", "readSymbol"}
    BY <2>1 DEF Control
  <2> QED BY <1>1, <1>9, <2>1, <2>2, <2>3, <2>4 DEF Ahead, c
<1>10. CASE pc' # "done" /\ read
  <2>1. pc = "read" /\ pc' = "skip" /\ ret' = "readExpr" /\ currentChar' = currentChar /\ currentPos' = currentPos
    BY <1>5, <1>10 DEF read, returns, skipThen
  <2> QED BY <1>1, <2>1 DEF Position, Ahead
<1>11. CASE pc' # "done" /\ readExpr
  <2>1. pc = "readExpr" /\ currentChar' = currentChar /\ currentPos' = currentPos /\ Mem(c) \notin Space
    BY <1>5, <1>11 DEF readExpr, Ahead, c
  <2>2. Position'
    BY <1>1, <1>11, <2>1 DEF Position
  <2>3. CASE isEndOfBuffer(nextNonSpace)
    <3>1. pc' \in {"read", "list"}
      BY <1>11, <2>3 DEF readExpr, returns, returnExpr
    <3> QED BY <2>2, <3>1 DEF Ahead
  <2>4. CASE ~isEndOfBuffer(nextNonSpace)
    <3>1. nextNonSpace = c
      BY <1>2, <1>6, <2>1
    <3>2. pc' = "skip" /\ ret' = IF Mem(c) = "(" THEN "readList" ELSE "readSymbol"
      BY <1>11, <2>4, <3>1 DEF readExpr, skipThen
    <3>3. c <= Len(buf)
      BY <1>6, <2>1, <2>4
    <3> QED BY <1>1, <2>1, <2>2, <3>2, <3>3 DEF Ahead, c
  <2> QED BY <2>3, <2>4
<1>12. CASE readList
  <2>1. pc' = "list" /\ currentChar' = c /\ currentPos' = c + 1 /\ c <= Len(buf)
    BY <1>4, <1>12 DEF readList, Ahead, c
  <2> QED BY <1>1, <1>2, <2>1 DEF Position, Ahead
<1>13. CASE listLoop
  <2>1. /\ pc = "list" /\ pc' = "skip" /\ ret' \in {"eof", "close", "readExpr"}
        /\ currentChar' = currentChar /\ currentPos' = currentPos
        /\ ret' = "close" => Mem(nextNonSpace) = ")"
    BY <1>5, <1>13 DEF listLoop, skipThen
  <2>2. Position'
    BY <1>1, <2>1 DEF Position
  <2>3. ret' = "close" => nextNonSpace \in c .. Len(buf) + 1
    BY <1>2, <1>6, <2>1
  <2> QED BY <1>1, <1>6, <2>1, <2>2, <2>3 DEF Ahead, c
<1>14. CASE closeList
  <2>1. pc' \in {"read", "list"} /\ currentChar' = c /\ currentPos' = c + 1 /\ Mem(c) = ")"
    BY <1>4, <1>14 DEF closeList, returnExpr, Ahead, c
  <2> QED BY <1>1, <1>2, <1>3, <2>1 DEF Position, Ahead
<1>15. CASE eofInList \/ badSymbol
  BY <1>7, <1>15 DEF eofInList, badSymbol, fails, returns
<1>16. CASE startNumber
  <2>1. pc = "readSymbol" /\ pc' = "readNumber" /\ c <= Len(buf)
    BY <1>16 DEF startNumber, Ahead, c
  <2>2. CASE Mem(c) = "minus" /\ Mem(c + 1) = "digit"
    <3>1. currentChar' = c /\ currentPos' = c + 1
      BY <1>2, <1>4, <1>16, <2>2 DEF startNumber, nextChar, c
    <3> QED BY <1>1, <1>2, <2>1, <2>2, <3>1 DEF Position, Ahead
  <2>3. CASE ~(Mem(c) = "minus" /\ Mem(c + 1) = "digit")
    <3>1. currentChar' = currentChar /\ currentPos' = currentPos /\ Mem(c) = "digit"
      BY <1>2, <1>5, <1>16, <2>3 DEF startNumber, nextChar, c
    <3> QED BY <1>1, <1>2, <2>1, <3>1 DEF Position, Ahead, c
  <2> QED BY <2>2, <2>3
<1>17. CASE startSymbol
  <2>1. pc' = "symbol" /\ currentChar' = c /\ currentPos' = c + 1 /\ c <= Len(buf)
    BY <1>4, <1>17 DEF startSymbol, Ahead, c
  <2> QED BY <1>1, <1>2, <2>1 DEF Position, Ahead
<1>18. CASE symbolLoop
  <2>1. CASE returnAtom("Symbol", NoLocation)
    <3>1. pc' \in {"read", "list"} /\ currentChar' = currentChar /\ currentPos' = currentPos /\ pc = "symbol"
      BY <1>5, <1>18, <2>1 DEF returnAtom, returnExpr, symbolLoop
    <3> QED BY <1>1, <3>1 DEF Position, Ahead
  <2>2. CASE ~returnAtom("Symbol", NoLocation)
    <3>1. pc' = "symbol" /\ currentChar' = c /\ currentPos' = c + 1 /\ c <= Len(buf)
      BY <1>2, <1>4, <1>18, <2>2 DEF symbolLoop, isEndOfBuffer
    <3> QED BY <1>1, <1>2, <3>1 DEF Position, Ahead
  <2> QED BY <2>1, <2>2
<1>19. CASE pc' # "done" /\ readNumber
  <2>1. pc' = "number" /\ currentChar' = c /\ currentPos' = c + 1 /\ Mem(c) = "digit"
    BY <1>2, <1>4, <1>19 DEF readNumber, fails, returns
  <2> QED BY <1>1, <1>2, <1>3, <2>1 DEF Position, Ahead
<1>20. CASE pc' # "done" /\ numberLoop
  <2>1. CASE Mem(c) \in {"digit", "dot"}
    <3>1. pc' = "number" /\ currentChar' = c /\ currentPos' = c + 1
      BY <1>2, <1>4, <1>20, <2>1 DEF numberLoop, fails, returns
    <3> QED BY <1>1, <1>2, <1>3, <2>1, <3>1 DEF Position, Ahead
  <2>2. CASE Mem(c) \notin {"digit", "dot"}
    <3>1. pc' \in {"read", "list"} /\ currentChar' = currentChar /\ currentPos' = currentPos /\ pc = "number"
      BY <1>2, <1>5, <1>20, <2>2 DEF numberLoop, fails, returns, returnAtom, returnExpr
    <3> QED BY <1>1, <3>1 DEF Position, Ahead
  <2> QED BY <2>1, <2>2
<1> QED BY <1>7, <1>8, <1>9, <1>10, <1>11, <1>12, <1>13, <1>14, <1>15, <1>16, <1>17, <1>18, <1>19, <1>20
        DEF Step

(***************************************************************************)
(* Locations.                                                              *)
(***************************************************************************)

LEMMA IncIsModular ==
  ASSUME NEW a \in Int
  PROVE  Inc(a % LocMod) = (a + 1) % LocMod
BY LocModAssumption, WrappingCounter DEF Inc

LEMMA AdvanceGeometry ==
  ASSUME TypeOK, Geometry, advanceByOne, buf' = buf, after' = after
  PROVE  Geometry'
<1> DEFINE n == currentChar
           before == {i \in 1 .. n - 1 : Mem(i) = "newline"}
           past == {i \in 1 .. n : Mem(i) = "newline"}
<1>1. n \in Nat /\ n' = n + 1 /\ loc' = nextLocation /\ readEOL' = (Mem(n + 1) = "newline")
  BY DEF TypeOK, advanceByOne
<1>2. \A i : Mem(i)' = Mem(i)
  BY DEF Mem
<1>3. before' = past
  BY <1>1, <1>2
<1>4. IsFiniteSet(before) /\ Cardinality(before) \in Nat
  <2>1. IsFiniteSet(1 .. n - 1)
    BY <1>1, FS_Interval
  <2>2. before \subseteq 1 .. n - 1
    OBVIOUS
  <2> HIDE DEF before
  <2> QED BY <2>1, <2>2, FS_Subset, FS_CardinalityType
<1>5. /\ readEOL = (n > 0 /\ Mem(n) = "newline")
      /\ loc.line = (1 + Cardinality(before)) % LocMod
      /\ \/ before = {} /\ loc.col = (n + 1) % LocMod
         \/ \E last \in before : /\ \A i \in before : i <= last
                                 /\ loc.col = (n - last) % LocMod
  BY DEF Geometry, LocationExact
<1>6. CASE readEOL
  <2>0. n > 0 /\ Mem(n) = "newline"
    BY <1>6 DEF Geometry
  <2>1. n > 0 /\ n \in past /\ \A i \in past : i <= n
    BY <1>1, <2>0
  <2>2. past = before \cup {n} /\ n \notin before
    BY <1>1, <2>1
  <2>3. Cardinality(past) = Cardinality(before) + 1
    <3> HIDE DEF before, past
    <3> QED BY <1>4, <2>2, FS_AddElement
  <2>4. loc'.line = Inc(loc.line) /\ loc'.col = 1
    BY <1>1, <1>6 DEF nextLocation
  <2>5. loc'.line = (1 + Cardinality(past)) % LocMod
    <3>1. Inc((1 + Cardinality(before)) % LocMod) = (1 + Cardinality(before) + 1) % LocMod
      BY <1>4, IncIsModular
    <3> HIDE DEF before, past
    <3> QED BY <1>4, <1>5, <2>3, <2>4, <3>1
  <2>6. loc'.col = (n + 1 - n) % LocMod
    <3>1. 1 % LocMod = 1
      BY LocModAssumption, ModUnique
    <3> QED BY <1>1, <2>4, <3>1
  <2>7. LocationExact'
    <3>1. LocationExact' =
            /\ loc'.line = (1 + Cardinality(past)) % LocMod
            /\ \/ past = {} /\ loc'.col = (n + 1 + 1) % LocMod
               \/ \E last \in past : /\ \A i \in past : i <= last
                                     /\ loc'.col = (n + 1 - last) % LocMod
      BY <1>1, <1>3 DEF LocationExact
    <3> HIDE DEF past
    <3> QED BY <2>1, <2>5, <2>6, <3>1
  <2> QED BY <1>1, <1>2, <2>7 DEF Geometry
<1>7. CASE ~readEOL
  <2>0. ~(n > 0 /\ Mem(n) = "newline")
    BY <1>7 DEF Geometry
  <2>1. past = before
    <3>1. \A i \in Int : i \in 1 .. n /\ Mem(i) = "newline" => i \in 1 .. n - 1
      BY <1>1, <2>0
    <3>2. 1 .. n - 1 \subseteq 1 .. n /\ 1 .. n \subseteq Int
      BY <1>1
    <3> QED BY <3>1, <3>2
  <2>2. loc'.line = loc.line /\ loc'.col = Inc(loc.col)
    BY <1>1, <1>7 DEF nextLocation, TypeOK, Loc
  <2>3. \/ past = {} /\ loc'.col = (n + 1 + 1) % LocMod
        \/ \E last \in past : /\ \A i \in past : i <= last
                              /\ loc'.col = (n + 1 - last) % LocMod
    <3>1. CASE before = {} /\ loc.col = (n + 1) % LocMod
      BY <1>1, <2>1, <2>2, <3>1, IncIsModular
    <3>2. CASE \E last \in before : /\ \A i \in before : i <= last
                                   /\ loc.col = (n - last) % LocMod
      <4>1. PICK last \in before : /\ \A i \in before : i <= last
                                   /\ loc.col = (n - last) % LocMod
        BY <3>2
      <4>2. Inc((n - last) % LocMod) = (n - last + 1) % LocMod /\ n - last + 1 = n + 1 - last
        BY <1>1, <4>1, IncIsModular
      <4> QED BY <2>1, <2>2, <4>1, <4>2
    <3> QED BY <1>5, <3>1, <3>2
  <2>4. LocationExact' =
          /\ loc'.line = (1 + Cardinality(past)) % LocMod
          /\ \/ past = {} /\ loc'.col = (n + 1 + 1) % LocMod
             \/ \E last \in past : /\ \A i \in past : i <= last
                                   /\ loc'.col = (n + 1 - last) % LocMod
    BY <1>1, <1>3 DEF LocationExact
  <2>5. LocationExact'
    <3> HIDE DEF past, before
    <3> QED BY <1>5, <2>1, <2>2, <2>3, <2>4
  <2> QED BY <1>1, <1>2, <2>5 DEF Geometry
<1> QED BY <1>5, <1>6, <1>7

LEMMA StepGeometry ==
  ASSUME TypeOK, Geometry, Step
  PROVE  Geometry'
<1>1. buf' = buf /\ after' = after
  BY InputFixed DEF Next
<1>2. CASE advanceByOne
  BY <1>1, <1>2, AdvanceGeometry
<1>3. CASE UNCHANGED position
  <2>1. \A i : Mem(i)' = Mem(i)
    BY <1>1 DEF Mem
  <2>2. currentChar' = currentChar /\ loc' = loc /\ readEOL' = readEOL
    BY <1>3 DEF position
  <2> QED BY <2>1, <2>2 DEF Geometry, LocationExact
<1> QED BY <1>2, <1>3, Moves

(***************************************************************************)
(* Nesting.                                                                *)
(***************************************************************************)

\* What one step of advanceByOne() adds to the consumed characters of a class.
LEMMA ConsumedStep ==
  ASSUME TypeOK, NEW S, buf' = buf, after' = after, currentChar' = currentChar + 1
  PROVE  /\ Cardinality(Consumed(S)) \in Nat
         /\ Cardinality(Consumed(S))' =
              IF Mem(currentChar + 1) \in S THEN Cardinality(Consumed(S)) + 1
                                            ELSE Cardinality(Consumed(S))
<1> DEFINE c == currentChar + 1
           C == Consumed(S)
<1>1. currentChar \in Nat /\ \A i : Mem(i)' = Mem(i)
  BY DEF TypeOK, Mem
<1>2. IsFiniteSet(C) /\ Cardinality(C) \in Nat
  <2>1. IsFiniteSet(1 .. currentChar) /\ C \subseteq 1 .. currentChar
    BY <1>1, FS_Interval DEF Consumed
  <2> HIDE DEF C
  <2> QED BY <2>1, FS_Subset, FS_CardinalityType
<1>3. C' = {i \in 1 .. c : Mem(i) \in S}
  BY <1>1 DEF Consumed
<1>4. C' = IF Mem(c) \in S THEN C \cup {c} ELSE C
  BY <1>1, <1>3 DEF Consumed
<1>5. c \notin C
  BY <1>1 DEF Consumed
<1>6. Cardinality(C)' = Cardinality(C')
  OBVIOUS
<1> HIDE DEF C, c
<1>7. Cardinality(C') = IF Mem(c) \in S THEN Cardinality(C) + 1 ELSE Cardinality(C)
  BY <1>2, <1>4, <1>5, FS_AddElement
<1> QED BY <1>2, <1>6, <1>7 DEF C, c

LEMMA ConsumedSame ==
  ASSUME NEW S, buf' = buf, after' = after, currentChar' = currentChar
  PROVE  Cardinality(Consumed(S))' = Cardinality(Consumed(S))
BY DEF Consumed, Mem

(***************************************************************************)
(* The stack changes only with a parenthesis: readList() consumes "(" and  *)
(* closeList ")"; whatever else is consumed is no parenthesis.             *)
(***************************************************************************)
LEMMA StepNesting ==
  ASSUME TypeOK, Control, Ahead, StackMirrorsNesting, Step
  PROVE  StackMirrorsNesting'
<1> DEFINE c == currentChar + 1
           opened == Cardinality(Consumed({"("}))
           closed == Cardinality(Consumed({")"}))
<1>1. buf' = buf /\ after' = after
  BY InputFixed DEF Next
<1>2. nextChar(1) = c /\ Len(stack) \in Nat
  BY DEF nextChar, TypeOK
<1>3. advanceByOne =>
        /\ opened \in Nat /\ closed \in Nat
        /\ opened' = IF Mem(c) \in {"("} THEN opened + 1 ELSE opened
        /\ closed' = IF Mem(c) \in {")"} THEN closed + 1 ELSE closed
  BY <1>1, ConsumedStep DEF advanceByOne
<1>4. UNCHANGED position => opened' = opened /\ closed' = closed
  BY <1>1, ConsumedSame DEF position
<1>5. pc # "done" => opened = Len(stack) + closed
  BY DEF StackMirrorsNesting
<1>6. (opened' = Len(stack') + closed') => StackMirrorsNesting'
  BY DEF StackMirrorsNesting
<1> HIDE DEF c, opened, closed
<1>7. ASSUME pc # "done", stack' = stack, UNCHANGED position
      PROVE  StackMirrorsNesting'
  BY <1>4, <1>5, <1>6, <1>7
<1>8. ASSUME pc # "done", stack' = stack, advanceByOne, Mem(c) \notin {"(", ")"}
      PROVE  StackMirrorsNesting'
  BY <1>3, <1>5, <1>6, <1>8
<1>9. CASE pc' = "done"
  BY <1>9 DEF StackMirrorsNesting
<1>10. CASE skipSpace
  <2>1. CASE Mem(c) \in Space
    BY <1>2, <1>8, <1>10, <2>1 DEF skipSpace, tree, Space
  <2>2. CASE Mem(c) \notin Space
    BY <1>2, <1>7, <1>10, <2>2 DEF skipSpace, tree
  <2> QED BY <2>1, <2>2
<1>11. CASE read \/ listLoop
  BY <1>7, <1>11 DEF read, listLoop, tree
<1>12. CASE readExpr
  <2>1. pc # "done" /\ UNCHANGED position
    BY <1>12 DEF readExpr
  <2>2. stack' = stack
    BY <1>12 DEF readExpr, returnExpr, tree
  <2> QED BY <1>7, <2>1, <2>2
<1>13. CASE readList
  <2>1. advanceByOne /\ Mem(c) = "(" /\ pc # "done"
    BY <1>13 DEF readList, Ahead, c
  <2>2. Len(stack') = Len(stack) + 1
    BY <1>13 DEF readList, TypeOK
  <2> QED BY <1>2, <1>3, <1>5, <1>6, <2>1, <2>2
<1>14. CASE closeList
  <2>1. advanceByOne /\ Mem(c) = ")" /\ pc # "done" /\ stack # <<>>
    BY <1>14 DEF closeList, Ahead, Control, InList, c
  <2>2. stack' = SubSeq(stack, 1, Len(stack) - 1)
    BY <1>14 DEF closeList, returnExpr
  <2>3. Len(stack') = Len(stack) - 1
    <3> DEFINE S == 1 .. Len(heap)
    <3>1. stack \in Seq(S)
      BY DEF TypeOK
    <3> HIDE DEF S
    <3>2. Len(stack) \in Nat \ {0}
      BY <2>1, <3>1
    <3>3. Len(SubSeq(stack, 1, Len(stack) - 1)) = Len(stack) - 1
      BY <3>1, <3>2
    <3> QED BY <2>2, <3>3
  <2> QED BY <1>2, <1>3, <1>5, <1>6, <2>1, <2>3
<1>15. CASE eofInList \/ badSymbol
  BY <1>9, <1>15 DEF eofInList, badSymbol, fails, returns
<1>16. CASE startNumber
  <2>1. pc # "done" /\ stack' = stack
    BY <1>16 DEF startNumber, tree
  <2>2. UNCHANGED position \/ (advanceByOne /\ Mem(c) = "minus")
    BY <1>2, <1>16 DEF startNumber
  <2> QED BY <1>7, <1>8, <2>1, <2>2
<1>17. CASE startSymbol
  BY <1>2, <1>8, <1>17 DEF startSymbol, tree, isValidForIdentifier, Identifier
<1>18. CASE symbolLoop
  <2>1. CASE returnAtom("Symbol", NoLocation)
    BY <1>7, <1>18, <2>1 DEF symbolLoop, returnAtom, returnExpr
  <2>2. CASE ~returnAtom("Symbol", NoLocation)
    BY <1>2, <1>8, <1>18, <2>2 DEF symbolLoop, tree, isValidForIdentifier, Identifier
  <2> QED BY <2>1, <2>2
<1>19. CASE pc' # "done" /\ readNumber
  <2>1. pc # "done" /\ advanceByOne /\ Mem(c) = "digit" /\ stack' = stack
    BY <1>2, <1>19 DEF readNumber, fails, returns, tree
  <2> QED BY <1>8, <2>1
<1>20. CASE pc' # "done" /\ numberLoop
  <2>1. CASE Mem(c) \in {"digit", "dot"}
    <3>1. pc # "done" /\ advanceByOne /\ stack' = stack
      BY <1>2, <1>20, <2>1 DEF numberLoop, fails, returns, tree
    <3> QED BY <1>8, <2>1, <3>1
  <2>2. CASE Mem(c) \notin {"digit", "dot"}
    <3>1. pc # "done" /\ UNCHANGED position /\ stack' = stack
      BY <1>2, <1>20, <2>2 DEF numberLoop, fails, returns, returnAtom, returnExpr
    <3> QED BY <1>7, <3>1
  <2> QED BY <2>1, <2>2
<1> QED BY <1>9, <1>10, <1>11, <1>12, <1>13, <1>14, <1>15, <1>16, <1>17, <1>18, <1>19, <1>20
        DEF Step

(***************************************************************************)
(* The invariant.                                                          *)
(***************************************************************************)

LEMMA InitInv ==
  ASSUME Init
  PROVE  IInv
<1>1. TypeOK
  <2>1. [line |-> 1, col |-> 1] \in Loc /\ NoLocation \in Loc
    BY LocModAssumption DEF Loc, NoLocation
  <2>2. NoWord \in Word /\ Pending \in [status : {"pending", "ok"} \cup ErrorType, start : Loc, end : Loc]
    BY <2>1, NoWordType DEF Pending
  <2>3. word \in Word /\ result \in [status : {"pending", "ok"} \cup ErrorType, start : Loc, end : Loc]
    BY <2>2 DEF Init
  <2>4. heap \in Seq(Node) /\ stack \in Seq(1 .. Len(heap)) /\ ast \in Seq(Nat)
    BY DEF Init
  <2>5. loc \in Loc /\ readEOL \in BOOLEAN /\ buf \in Buffers /\ after \in Foreign
    BY <2>1 DEF Init
  <2>6. currentChar \in Nat /\ currentPos \in Nat /\ pc \in PC /\ ret \in PC
    BY DEF Init, PC
  <2> QED BY <2>3, <2>4, <2>5, <2>6 DEF TypeOK, Word
<1>2. Control /\ Ahead
  BY DEF Init, Control, InList, Ahead
<1>3. Position
  BY BuffersAssumption DEF Init, Position
<1>4. Geometry
  <2> DEFINE before == {i \in 1 .. currentChar - 1 : Mem(i) = "newline"}
  <2>0. currentChar = 0 /\ loc.line = 1 /\ loc.col = 1 /\ readEOL = FALSE
    BY DEF Init
  <2>1. before = {}
    <3>1. 1 .. currentChar - 1 = {}
      BY <2>0
    <3> QED BY <3>1
  <2>2. Cardinality({}) = 0
    BY FS_EmptySet
  <2>3. 1 % LocMod = 1
    BY LocModAssumption, ModUnique
  <2>4. LocationExact
    <3>1. LocationExact =
            /\ loc.line = (1 + Cardinality(before)) % LocMod
            /\ \/ before = {} /\ loc.col = (currentChar + 1) % LocMod
               \/ \E last \in before : /\ \A i \in before : i <= last
                                     /\ loc.col = (currentChar - last) % LocMod
      BY DEF LocationExact
    <3> HIDE DEF before
    <3> QED BY <2>0, <2>1, <2>2, <2>3, <3>1
  <2>5. readEOL = (currentChar > 0 /\ Mem(currentChar) = "newline")
    <3>1. ~(currentChar > 0) /\ readEOL = FALSE
      BY <2>0
    <3> QED BY <3>1
  <2> QED BY <2>4, <2>5 DEF Geometry
<1>5. StackMirrorsNesting
  <2>1. Consumed({"("}) = {} /\ Consumed({")"}) = {}
    <3>1. 1 .. currentChar = {}
      BY DEF Init
    <3> QED BY <3>1 DEF Consumed
  <2>2. stack = <<>>
    BY DEF Init
  <2>3. Cardinality({}) = 0
    BY FS_EmptySet
  <2>4. Len(stack) = 0
    BY <2>2
  <2>5. Cardinality(Consumed({"("})) = 0 /\ Cardinality(Consumed({")"})) = 0
    BY <2>1, <2>3
  <2> QED BY <2>4, <2>5 DEF StackMirrorsNesting
<1> QED BY <1>1, <1>2, <1>3, <1>4, <1>5 DEF IInv

LEMMA NextInv ==
  ASSUME IInv, [Next]_vars
  PROVE  IInv'
<1>1. CASE Step
  <2>1. LocalsOK' /\ TreeOK'
    BY <1>1, StepType DEF IInv
  <2>2. buf' \in Buffers /\ after' \in Foreign
    BY InputFixed DEF IInv, TypeOK
  <2>3. currentChar' \in Nat /\ currentPos' \in Nat /\ loc' \in Loc /\ readEOL' \in BOOLEAN
    BY <1>1, Moves, PositionType DEF IInv
  <2>4. TypeOK' /\ Control'
    BY <2>1, <2>2, <2>3 DEF LocalsOK, TreeOK, Word, TypeOK
  <2> QED BY <1>1, <2>4, StepPosition, StepGeometry, StepNesting DEF IInv
<1>2. CASE UNCHANGED vars
  <2>1. \A i : Mem(i)' = Mem(i)
    BY <1>2 DEF vars, input, Mem
  <2>2. UNCHANGED <<buf, after, currentChar, currentPos, loc, readEOL, pc, ret, word,
                    heap, stack, ast, result>>
    BY <1>2 DEF vars, input, position, tree
  <2>3. TypeOK' /\ Control' /\ Position'
    BY <2>2 DEF IInv, TypeOK, Control, InList, Position
  <2>4. Ahead'
    BY <2>1, <2>2 DEF IInv, Ahead
  <2>5. Geometry'
    BY <2>1, <2>2 DEF IInv, Geometry, LocationExact
  <2>6. StackMirrorsNesting'
    BY <2>2, ConsumedSame DEF IInv, StackMirrorsNesting
  <2> QED BY <2>3, <2>4, <2>5, <2>6 DEF IInv
<1> QED BY <1>1, <1>2 DEF Next, Terminated

\* The inductive invariant holds throughout every read.
THEOREM Invariance == Spec => []IInv
BY InitInv, NextInv, PTL DEF Spec

(***************************************************************************)
(* What follows from it.                                                   *)
(***************************************************************************)

\* Type correctness: the line and column counters never leave their width,
\* and a pending readList() always has its node, whatever is read.
THEOREM TypeCorrect == Spec => []TypeOK
<1>1. IInv => TypeOK
  BY DEF IInv
<1> QED BY <1>1, Invariance, PTL

\* The location that advanceByOne() maintains with one flag is the line and
\* the column of the text consumed, modulo the width of the counters.
THEOREM LocationCorrect == Spec => []LocationExact
<1>1. IInv => LocationExact
  BY DEF IInv, Geometry
<1> QED BY <1>1, Invariance, PTL

\* The assertion of readList() and the expectations of its closing branch
\* and of readNumber() hold whenever control gets there.
THEOREM DispatchCorrect == Spec => []DispatchAgrees
<1>1. IInv => DispatchAgrees
  BY DEF IInv, Ahead, DispatchAgrees, nextChar
<1> QED BY <1>1, Invariance, PTL

\* The recursion depth is the number of parentheses open in the text read.
THEOREM NestingCorrect == Spec => []StackMirrorsNesting
<1>1. IInv => StackMirrorsNesting
  BY DEF IInv
<1> QED BY <1>1, Invariance, PTL

\* A terminated buffer, of whatever contents and length, is never looked at
\* or advanced over behind its terminator.
THEOREM BoundsCorrect == Spec => []StaysInBuffer
<1>1. ASSUME IInv PROVE StaysInBuffer
  <2> SUFFICES ASSUME after = "nul", NEW i \in Dereferenced
               PROVE  i <= Len(buf) + 1
    BY DEF StaysInBuffer
  <2> DEFINE c == currentChar + 1
  <2>1. TypeOK /\ Len(buf) \in Nat /\ currentChar \in Nat
    BY <1>1, BuffersAssumption DEF IInv, TypeOK
  <2>2. nextChar(1) = c
    BY DEF nextChar
  <2>3. pc # "done"
    BY DEF Dereferenced
  <2>4. c <= Len(buf) + 1
    BY <1>1, <2>1, <2>3 DEF IInv, Position
  <2>5. CASE pc \in {"read", "readExpr", "list"}
    <3>1. i \in c .. nextNonSpace
      BY <2>2, <2>5 DEF Dereferenced
    <3>2. /\ nextNonSpace \in c .. Len(buf) + 2
          /\ \A j \in c .. nextNonSpace - 1 : Mem(j) \in Space
      BY <2>1, <2>4, NextNonSpace
    <3>3. Mem(Len(buf) + 1) = "nul"
      BY <2>1, MemFacts
    <3>4. ~(Len(buf) + 1 \in c .. nextNonSpace - 1)
      BY <3>2, <3>3 DEF Space
    <3> QED BY <2>1, <2>4, <3>1, <3>2, <3>4
  <2>6. CASE pc = "readSymbol" /\ Mem(c) = "minus"
    <3>1. i \in {c, c + 1}
      BY <2>2, <2>6 DEF Dereferenced
    <3>2. c <= Len(buf)
      BY <1>1, <2>6 DEF IInv, Ahead
    <3> QED BY <2>1, <3>1, <3>2
  <2>7. CASE pc \notin {"read", "readExpr", "list"} /\ ~(pc = "readSymbol" /\ Mem(c) = "minus")
    <3>1. i = c
      BY <2>2, <2>3, <2>7 DEF Dereferenced
    <3> QED BY <2>4, <3>1
  <2> QED BY <2>5, <2>6, <2>7
<1> QED BY <1>1, Invariance, PTL

(***************************************************************************)
(* The locations in the line index.                                        *)
(***************************************************************************)

\* A line that is asked for by the newlines before a character starts right
\* behind the last of them.
LEMMA LineBehindNewline ==
  ASSUME NEW text, Len(text) \in Nat, NEW n \in 1 .. Len(text),
         NEW last \in Newlines(text, n - 1), \A i \in Newlines(text, n - 1) : i <= last,
         NEW p, StartsLine(text, Count(text, n - 1) + 1, p)
  PROVE  p = last
<1> DEFINE lineNo == Count(text, n - 1) + 1
<1>1. last \in 1 .. n - 1 /\ text[last] = "newline" /\ n - 1 \in Nat
  BY DEF Newlines
<1>2. Newlines(text, last) = Newlines(text, n - 1)
  BY <1>1 DEF Newlines
<1>3. Count(text, last) = Count(text, n - 1) /\ Count(text, last) \in Nat
  BY <1>1, <1>2, CountType DEF Count
<1>4. \A q : q \in Line(text, lineNo) <=> q \in 0 .. Len(text) /\ Count(text, q) = lineNo - 1
  BY DEF Line, Count, Newlines
<1>5. last \in Line(text, lineNo)
  BY <1>1, <1>3, <1>4
<1>6. p \in Line(text, lineNo) /\ p <= last
  BY <1>5 DEF StartsLine
<1>7. p \in 0 .. Len(text) /\ Count(text, p) = Count(text, last)
  BY <1>3, <1>4, <1>6
<1>8. ASSUME p < last PROVE FALSE
  <2>1. p \in 0 .. last - 1 /\ last - 1 \in Nat /\ last \in Nat \ {0}
    BY <1>1, <1>7, <1>8
  <2>2. Count(text, p) <= Count(text, last - 1) /\ Count(text, last - 1) \in Nat
    BY <2>1, CountGrows, CountType
  <2>3. Count(text, last) = Count(text, last - 1) + 1
    BY <1>1, <2>1, CountStep
  <2> QED BY <1>7, <2>2, <2>3
<1> QED BY <1>1, <1>6, <1>7, <1>8

\* A location can be turned back into the character it was taken at: the
\* reader's counting and the source manager's search agree, on every text,
\* for every width of the counters and of the offsets.
THEOREM LocationsLead == Spec => []LocationFindsCharacter
<1>1. ASSUME TypeOK, LocationExact PROVE LocationFindsCharacter
  <2> DEFINE n      == currentChar
             before == {i \in 1 .. n - 1 : Mem(i) = "newline"}
             lineAt == lineStart(offsets, loc.line)
             shift  == IF before = {} THEN 2 ELSE 1
             Near(m) == n - m \in before /\ \A k \in 1 .. m - 1 : n - k \notin before
             column == IF before = {} THEN n ELSE CHOOSE m \in 1 .. n : Near(m)
             lineNo == Cardinality(before) + 1
  <2> SUFFICES ASSUME n \in 1 .. Len(buf), lineNo < LocMod, column + shift - 1 < LocMod
               PROVE  StartsLine(buf, lineNo, lineAt) /\ lineAt + loc.col - shift = n - 1
    BY DEF LocationFindsCharacter
  <2>1. Len(buf) \in Nat /\ fits(buf, Len(Widths)) /\ LocMod \in Nat
    BY <1>1, BuffersAssumption, DiagnosisAssumption, LocModAssumption DEF TypeOK
  <2>2. before = Newlines(buf, n - 1) /\ n - 1 \in Nat
    BY <2>1 DEF Newlines, Mem
  <2>3. Cardinality(before) = Count(buf, n - 1) /\ Count(buf, n - 1) \in Nat
    BY <2>2, CountType DEF Count
  <2>4. /\ loc.line = (1 + Cardinality(before)) % LocMod
        /\ \/ before = {} /\ loc.col = (n + 1) % LocMod
           \/ \E last \in before : (\A i \in before : i <= last) /\ loc.col = (n - last) % LocMod
    BY <1>1 DEF LocationExact
  <2>5. \A i \in before : i \in 1 .. n - 1
    OBVIOUS
  <2> HIDE DEF before
  <2>6. loc.line = lineNo /\ lineNo \in Nat \ {0}
    BY <2>1, <2>3, <2>4
  <2>7. StartsLine(buf, lineNo, lineAt)
    BY <2>1, <2>6, LineIndexFindsLines DEF offsets
  <2>8. CASE before = {}
    <3>1. lineNo = 1
      BY <2>8, FS_EmptySet
    <3>2. lineAt = 0
      BY <2>6, <3>1 DEF lineStart
    <3>3. loc.col = n + 1
      BY <2>1, <2>4, <2>8
    <3> QED BY <2>1, <2>7, <2>8, <3>2, <3>3
  <2>9. CASE before # {}
    <3>1. PICK last \in before : (\A i \in before : i <= last) /\ loc.col = (n - last) % LocMod
      BY <2>4, <2>9
    <3>2. last \in 1 .. n - 1
      BY <2>5
    <3>3. Near(n - last) /\ n - last \in 1 .. n
      BY <2>1, <2>5, <3>1, <3>2
    <3>4. \A m \in 1 .. n : Near(m) => m = n - last
      <4> SUFFICES ASSUME NEW m \in 1 .. n, Near(m) PROVE m = n - last
        OBVIOUS
      <4>1. n - m <= last
        BY <3>1
      <4>2. CASE n - last < m
        <5>1. n - last \in 1 .. m - 1
          BY <2>1, <3>2, <4>2
        <5>2. n - (n - last) = last
          BY <2>1, <3>2
        <5> QED BY <3>1, <5>1, <5>2
      <4> QED BY <2>1, <3>2, <4>1, <4>2
    <3> DEFINE chosen == CHOOSE m \in 1 .. n : Near(m)
    <3>5. chosen = n - last
      <4> HIDE DEF Near
      <4> QED BY <3>3, <3>4
    <3>6. column = n - last /\ shift = 1
      BY <2>9, <3>5
    <3> HIDE DEF column
    <3>7. loc.col = n - last
      BY <2>1, <3>1, <3>2, <3>6
    <3>8. StartsLine(buf, Count(buf, n - 1) + 1, lineAt)
      BY <2>3, <2>7
    <3>9. lineAt = last
      <4> HIDE DEF lineAt
      <4> QED BY <2>1, <2>2, <3>1, <3>8, LineBehindNewline
    <3> QED BY <2>1, <2>7, <3>2, <3>6, <3>7, <3>9
  <2> QED BY <2>8, <2>9
<1> QED BY <1>1, TypeCorrect, LocationCorrect, PTL

(***************************************************************************)
(* Tokens.  The finished ones are taken with their nodes' indices, since   *)
(* two nodes with one text would be a character read twice.                *)
(***************************************************************************)

Finished == {<<n, heap[n].text>> : n \in {m \in DOMAIN heap : heap[m].kind # "List"}}

Chars(t) == {t[k] : k \in DOMAIN t}

\* Between two atoms the locals are clear.
Clear == pc \notin {"symbol", "number", "readNumber", "done"} => word = NoWord

\* No token runs ahead of the reader...
Behind ==
  /\ \A i \in Chars(word.text) : i <= currentChar
  /\ \A a \in Finished : \A i \in Chars(a[2]) : i <= currentChar

\* ...no two share a character...
Apart ==
  /\ \A a, b \in Finished : a # b => Chars(a[2]) \cap Chars(b[2]) = {}
  /\ \A a \in Finished : Chars(a[2]) \cap Chars(word.text) = {}

\* ...and every character of an atom is in one.
Covered ==
  \A i \in Consumed(Identifier) :
    i \in Chars(word.text) \/ \E a \in Finished : i \in Chars(a[2])

Words == Clear /\ (pc # "done" => Behind /\ Apart /\ Covered)

LEMMA CharsAppend ==
  ASSUME NEW t \in Seq(Nat), NEW c \in Nat
  PROVE  Chars(Append(t, c)) = Chars(t) \cup {c}
<1>1. /\ DOMAIN t = 1 .. Len(t) /\ Len(t) \in Nat
      /\ DOMAIN Append(t, c) = 1 .. Len(t) + 1
      /\ \A k \in 1 .. Len(t) : Append(t, c)[k] = t[k]
      /\ Append(t, c)[Len(t) + 1] = c
  OBVIOUS
<1>2. ASSUME NEW x \in Chars(Append(t, c)) PROVE x \in Chars(t) \cup {c}
  BY <1>1 DEF Chars
<1>3. ASSUME NEW x \in Chars(t) PROVE x \in Chars(Append(t, c))
  <2>1. PICK k \in DOMAIN t : x = t[k]
    BY DEF Chars
  <2>2. k \in DOMAIN Append(t, c) /\ Append(t, c)[k] = x
    BY <1>1, <2>1
  <2> QED BY <2>2 DEF Chars
<1>4. c \in Chars(Append(t, c))
  <2>1. Len(t) + 1 \in DOMAIN Append(t, c) /\ Append(t, c)[Len(t) + 1] = c
    BY <1>1
  <2> QED BY <2>1 DEF Chars
<1> QED BY <1>2, <1>3, <1>4

LEMMA CharsEmpty == Chars(<<>>) = {}
BY DEF Chars

\* A return of readExpr() leaves the texts and kinds of all nodes alone.
LEMMA ReturnExprTexts ==
  ASSUME NEW nodes \in Seq(Node), NEW open \in Seq(1 .. Len(nodes)), NEW n,
         returnExpr(nodes, open, n)
  PROVE  /\ DOMAIN heap' = DOMAIN nodes
         /\ \A m \in DOMAIN nodes : heap'[m].text = nodes[m].text /\ heap'[m].kind = nodes[m].kind
<1>1. CASE open = <<>>
  BY <1>1 DEF returnExpr
<1>2. CASE open # <<>>
  <2> DEFINE k == open[Len(open)]
  <2>1. heap' = [nodes EXCEPT ![k].elems = Append(@, n)]
    BY <1>2 DEF returnExpr
  <2>2. ASSUME NEW m \in DOMAIN nodes
        PROVE  heap'[m].text = nodes[m].text /\ heap'[m].kind = nodes[m].kind
    <3>1. nodes[m] \in Node
      OBVIOUS
    <3> HIDE DEF k
    <3>2. CASE m = k
      <4>1. heap'[m] = [nodes[m] EXCEPT !.elems = Append(@, n)]
        BY <2>1, <3>2
      <4> QED BY <3>1, <4>1 DEF Node
    <3>3. CASE m # k
      BY <2>1, <3>3
    <3> QED BY <3>2, <3>3
  <2>3. DOMAIN heap' = DOMAIN nodes
    BY <2>1
  <2> QED BY <2>2, <2>3
<1> QED BY <1>1, <1>2

\* The three ways in which a step can bear on tokens: not at all, ...
Quiet ==
  /\ Finished' = Finished /\ word'.text = word.text
  /\ \/ currentChar' = currentChar
     \/ currentChar' = currentChar + 1 /\ Mem(currentChar + 1) \notin Identifier

\* ...by a character for the token being read, ...
Grows ==
  /\ Finished' = Finished
  /\ word'.text = Append(word.text, currentChar + 1)
  /\ currentChar' = currentChar + 1

\* ...or by finishing it.
Finishes ==
  /\ Finished' = Finished \cup {<<Len(heap) + 1, word.text>>}
  /\ word' = NoWord
  /\ currentChar' = currentChar

LEMMA SameFinished ==
  ASSUME DOMAIN heap' = DOMAIN heap,
         \A m \in DOMAIN heap : heap'[m].text = heap[m].text /\ heap'[m].kind = heap[m].kind
  PROVE  Finished' = Finished
BY DEF Finished

LEMMA ReturnAtomFinishes ==
  ASSUME TypeOK, NEW kind \in {"Symbol", "Number"}, NEW from \in Loc, returnAtom(kind, from)
  PROVE  Finishes /\ pc' \in {"read", "list"}
<1> DEFINE new == node(kind, from, loc)
           nodes == Append(heap, new)
           l == Len(heap) + 1
<1>1. /\ nodes \in Seq(Node) /\ Len(nodes) = l /\ DOMAIN nodes = 1 .. l
      /\ \A m \in 1 .. Len(heap) : nodes[m] = heap[m]
      /\ nodes[l] = new /\ DOMAIN heap = 1 .. Len(heap) /\ Len(heap) \in Nat
  BY NodeType DEF TypeOK
<1>2. stack \in Seq(1 .. Len(nodes))
  BY <1>1 DEF TypeOK
<1>3. new.text = word.text /\ new.kind = kind
  BY DEF node
<1>4. returnExpr(nodes, stack, l)
  BY DEF returnAtom
<1> HIDE DEF nodes, new
<1>5. /\ DOMAIN heap' = DOMAIN nodes
      /\ \A m \in DOMAIN nodes : heap'[m].text = nodes[m].text /\ heap'[m].kind = nodes[m].kind
  BY <1>1, <1>2, <1>4, ReturnExprTexts
<1>6. DOMAIN heap' = DOMAIN heap \cup {l} /\ l \notin DOMAIN heap
  BY <1>1, <1>5
<1>7. /\ \A m \in DOMAIN heap : heap'[m].text = heap[m].text /\ heap'[m].kind = heap[m].kind
      /\ heap'[l].text = word.text /\ heap'[l].kind # "List"
  BY <1>1, <1>3, <1>5
<1> HIDE DEF l
<1>8. Finished' = Finished \cup {<<l, word.text>>}
  BY <1>6, <1>7 DEF Finished
<1>9. pc' \in {"read", "list"}
  BY <1>4 DEF returnExpr
<1> QED BY <1>8, <1>9 DEF Finishes, returnAtom, position, l

\* Every step bears on tokens in one of these ways.
LEMMA WordStep ==
  ASSUME IInv, Clear, Step, pc' # "done"
  PROVE  Clear' /\ pc # "done" /\ (Quiet \/ Grows \/ Finishes)
<1> DEFINE c == currentChar + 1
<1>1. /\ TypeOK /\ Control /\ Ahead /\ nextChar(1) = c /\ c \in Nat
      /\ word \in Word /\ NoWord.text = <<>>
  BY DEF IInv, TypeOK, Word, nextChar, NoWord
<1>2. advanceByOne => currentChar' = c
  BY DEF advanceByOne
<1>3. UNCHANGED position => currentChar' = currentChar
  BY DEF position
<1>4. ASSUME UNCHANGED heap PROVE Finished' = Finished
  BY <1>4 DEF Finished
<1>5. UNCHANGED tree => UNCHANGED heap
  BY DEF tree
<1>6. Mem(c) \in Space \cup {"(", ")"} => Mem(c) \notin Identifier
  BY DEF Space, Identifier
<1>7. CASE skipSpace
  <2>1. /\ pc = "skip" /\ word' = word /\ UNCHANGED tree
        /\ currentChar' = currentChar \/ (currentChar' = c /\ Mem(c) \in Space)
        /\ pc' \in {"skip", "readExpr", "readList", "close", "eof", "readSymbol"}
    BY <1>1, <1>2, <1>3, <1>7 DEF skipSpace, Control
  <2> QED BY <1>4, <1>5, <1>6, <2>1 DEF Quiet, Clear
<1>8. CASE read \/ listLoop
  <2>1. /\ pc \in {"read", "list"} /\ pc' = "skip" /\ word' = word /\ UNCHANGED tree
        /\ currentChar' = currentChar
    BY <1>3, <1>8 DEF read, listLoop, skipThen, returns
  <2> QED BY <1>4, <1>5, <2>1 DEF Quiet, Clear
<1>9. CASE readExpr
  <2>1. pc = "readExpr" /\ word' = word /\ currentChar' = currentChar
    BY <1>3, <1>9 DEF readExpr
  <2>2. CASE ~isEndOfBuffer(nextNonSpace)
    <3>1. pc' = "skip" /\ UNCHANGED tree
      BY <1>9, <2>2 DEF readExpr, skipThen
    <3> QED BY <1>4, <1>5, <2>1, <3>1 DEF Quiet, Clear
  <2>3. CASE isEndOfBuffer(nextNonSpace) /\ stack # <<>>
    <3>1. returnExpr(heap, stack, EmptyNode)
      BY <1>9, <2>3 DEF readExpr
    <3>2. pc' \in {"read", "list"}
      BY <3>1 DEF returnExpr
    <3>3. Finished' = Finished
      BY <1>1, <3>1, ReturnExprTexts, SameFinished DEF TypeOK
    <3> QED BY <2>1, <3>2, <3>3 DEF Quiet, Clear
  <2>4. CASE isEndOfBuffer(nextNonSpace) /\ stack = <<>>
    BY <1>9, <2>4 DEF readExpr, returns
  <2> QED BY <2>2, <2>3, <2>4
<1>10. CASE readList
  <2>1. /\ pc = "readList" /\ pc' = "list" /\ word' = word /\ currentChar' = c /\ Mem(c) = "("
        /\ heap' = Append(heap, node("List", loc, loc))
    BY <1>1, <1>2, <1>10 DEF readList, Ahead
  <2>2. heap \in Seq(Node) /\ node("List", loc, loc).kind = "List"
    BY <1>1 DEF TypeOK, node
  <2>3. /\ DOMAIN heap' = DOMAIN heap \cup {Len(heap) + 1} /\ heap'[Len(heap) + 1].kind = "List"
        /\ \A m \in DOMAIN heap : heap'[m] = heap[m]
    <3> HIDE DEF node
    <3>1. node("List", loc, loc) \in Node
      BY <1>1, NodeType DEF TypeOK
    <3> QED BY <2>1, <2>2, <3>1
  <2>4. Finished' = Finished
    BY <2>3 DEF Finished
  <2> QED BY <1>6, <2>1, <2>4 DEF Quiet, Clear
<1>11. CASE closeList
  <2> DEFINE list == stack[Len(stack)]
             nodes == [heap EXCEPT ![list].end = nextLocation]
             open == SubSeq(stack, 1, Len(stack) - 1)
  <2>1. /\ pc = "close" /\ word' = word /\ currentChar' = c /\ Mem(c) = ")"
        /\ returnExpr(nodes, open, list)
    BY <1>1, <1>2, <1>11 DEF closeList, Ahead
  <2>2. stack # <<>> /\ stack \in Seq(1 .. Len(heap)) /\ heap \in Seq(Node)
    BY <1>1, <2>1 DEF Control, InList, TypeOK
  <2>3. list \in 1 .. Len(heap) /\ open \in Seq(1 .. Len(heap))
    BY <2>2
  <2>4. heap[list] \in Node
    BY <2>2, <2>3
  <2>5. /\ [heap[list] EXCEPT !.end = nextLocation] \in Node
        /\ [heap[list] EXCEPT !.end = nextLocation].text = heap[list].text
        /\ [heap[list] EXCEPT !.end = nextLocation].kind = heap[list].kind
    BY <1>1, <2>4, NodeUpdate, NextLocationType DEF Node
  <2>6. nodes = [heap EXCEPT ![list] = [heap[list] EXCEPT !.end = nextLocation]]
    OBVIOUS
  <2> HIDE DEF nodes, open, list
  <2>7. /\ nodes \in Seq(Node) /\ Len(nodes) = Len(heap) /\ DOMAIN nodes = DOMAIN heap
        /\ \A m \in DOMAIN heap : nodes[m].text = heap[m].text /\ nodes[m].kind = heap[m].kind
    BY <2>2, <2>3, <2>5, <2>6
  <2>8. Finished' = Finished
    BY <2>1, <2>3, <2>7, ReturnExprTexts, SameFinished
  <2>9. pc' \in {"read", "list"}
    BY <2>1 DEF returnExpr
  <2> QED BY <1>6, <2>1, <2>8, <2>9 DEF Quiet, Clear
<1>12. CASE eofInList \/ badSymbol
  BY <1>12 DEF eofInList, badSymbol, fails, returns
<1>13. CASE startNumber
  <2>1. /\ pc = "readSymbol" /\ pc' = "readNumber" /\ UNCHANGED tree /\ word.text = <<>>
    BY <1>1, <1>13 DEF startNumber, Clear
  <2>2. CASE Mem(c) = "minus" /\ Mem(nextChar(2)) = "digit"
    <3>1. word'.text = <<c>> /\ currentChar' = c
      BY <1>1, <1>2, <1>13, <2>2 DEF startNumber, NoWord
    <3>2. Append(word.text, c) = <<c>>
      BY <1>1, <2>1
    <3> QED BY <1>4, <1>5, <2>1, <3>1, <3>2 DEF Grows, Clear
  <2>3. CASE ~(Mem(c) = "minus" /\ Mem(nextChar(2)) = "digit")
    <3>1. word'.text = <<>> /\ currentChar' = currentChar
      BY <1>1, <1>3, <1>13, <2>3 DEF startNumber, NoWord
    <3> QED BY <1>4, <1>5, <2>1, <3>1 DEF Quiet, Clear
  <2> QED BY <2>2, <2>3
<1>14. CASE startSymbol
  <2>1. /\ pc = "readSymbol" /\ pc' = "symbol" /\ UNCHANGED tree /\ word.text = <<>>
        /\ word'.text = <<c>> /\ currentChar' = c
    BY <1>1, <1>2, <1>14 DEF startSymbol, Clear, NoWord
  <2>2. Append(word.text, c) = <<c>>
    BY <1>1, <2>1
  <2> QED BY <1>4, <1>5, <2>1, <2>2 DEF Grows, Clear
<1>15. CASE symbolLoop
  <2>1. pc = "symbol"
    BY <1>15 DEF symbolLoop
  <2>2. CASE returnAtom("Symbol", NoLocation)
    BY <1>1, <2>1, <2>2, ReturnAtomFinishes, NoLocationType DEF Clear, Finishes
  <2>3. CASE ~returnAtom("Symbol", NoLocation)
    BY <1>1, <1>2, <1>4, <1>5, <1>15, <2>1, <2>3 DEF symbolLoop, Grows, Clear, Word
  <2> QED BY <2>2, <2>3
<1>16. CASE readNumber
  <2>1. Mem(c) = "digit"
    BY <1>1, <1>16 DEF readNumber, fails, returns
  <2> QED BY <1>1, <1>2, <1>4, <1>5, <1>16, <2>1 DEF readNumber, Grows, Clear, Word
<1>17. CASE numberLoop
  <2>1. pc = "number" /\ word.start \in Loc
    BY <1>1, <1>17 DEF numberLoop, Word
  <2>2. CASE returnAtom("Number", word.start)
    BY <1>1, <2>1, <2>2, ReturnAtomFinishes DEF Clear, Finishes
  <2>3. CASE ~returnAtom("Number", word.start)
    <3>1. /\ advanceByOne /\ UNCHANGED <<pc, tree>>
          /\ word' = [word EXCEPT !.text = Append(@, c), !.float = @ \/ Mem(c) = "dot"]
      BY <1>1, <1>17, <2>3 DEF numberLoop, fails, returns
    <3>2. word'.text = Append(word.text, c)
      BY <1>1, <3>1 DEF Word
    <3> QED BY <1>2, <1>4, <1>5, <2>1, <3>1, <3>2 DEF Grows, Clear
  <2> QED BY <2>2, <2>3
<1> QED BY <1>7, <1>8, <1>9, <1>10, <1>11, <1>12, <1>13, <1>14, <1>15, <1>16, <1>17 DEF Step

\* The consumed characters of a class after a step.
LEMMA ConsumedGrows ==
  ASSUME TypeOK, NEW S, buf' = buf, after' = after,
         currentChar' \in {currentChar, currentChar + 1}, NEW i \in Consumed(S)'
  PROVE  i \in Consumed(S) \/ (i = currentChar + 1 /\ currentChar' = i /\ Mem(i) \in S)
<1>1. i \in 1 .. currentChar' /\ Mem(i)' = Mem(i) /\ Mem(i) \in S /\ currentChar \in Nat
  BY DEF Consumed, Mem, TypeOK
<1>2. i \in 1 .. currentChar \/ (i = currentChar + 1 /\ currentChar' = i)
  BY <1>1
<1> QED BY <1>1, <1>2 DEF Consumed

LEMMA StepWords ==
  ASSUME IInv, Words, Step
  PROVE  Words'
<1> DEFINE c == currentChar + 1
<1>1. CASE pc' = "done"
  BY <1>1 DEF Words, Clear
<1>2. CASE pc' # "done"
  <2>1. Clear' /\ pc # "done" /\ (Quiet \/ Grows \/ Finishes)
    BY <1>2, WordStep DEF Words
  <2>2. Behind /\ Apart /\ Covered /\ TypeOK
    BY <2>1 DEF Words, IInv
  <2>3. word.text \in Seq(Nat) /\ currentChar \in Nat /\ c \in Nat
    BY <2>2 DEF TypeOK
  <2>4. \A a \in Finished : a[2] \in Seq(Nat)
    <3> SUFFICES ASSUME NEW n \in DOMAIN heap PROVE heap[n].text \in Seq(Nat)
      BY DEF Finished
    <3>1. heap[n] \in Node
      BY <2>2 DEF TypeOK
    <3> QED BY <3>1 DEF Node
  <2>5. buf' = buf /\ after' = after
    BY InputFixed DEF Next
  <2>6. \A t : \A i \in Chars(t) : \E k \in DOMAIN t : i = t[k]
    BY DEF Chars
  <2>7. \A t \in Seq(Nat) : \A i \in Chars(t) : i \in Nat
    BY DEF Chars
  <2>8. \A t : Chars(t)' = Chars(t)
    BY DEF Chars
  <2>9. Chars(word.text)' = Chars(word'.text)
    BY DEF Chars
  <2>10. CASE Quiet
    <3>1. /\ Finished' = Finished /\ word'.text = word.text
          /\ currentChar' = currentChar \/ (currentChar' = c /\ Mem(c) \notin Identifier)
      BY <2>10 DEF Quiet
    <3>2. Chars(word.text)' = Chars(word.text)
      BY <2>9, <3>1
    <3>3. Behind'
      <4>1. \A i \in Nat : i <= currentChar => i <= currentChar'
        BY <2>3, <3>1
      <4> QED BY <2>2, <2>3, <2>4, <2>7, <3>1, <3>2, <4>1 DEF Behind
    <3>4. Apart'
      BY <2>2, <3>1, <3>2 DEF Apart
    <3>5. Covered'
      <4> SUFFICES ASSUME NEW i \in Consumed(Identifier)'
                   PROVE  i \in Chars(word.text) \/ \E a \in Finished : i \in Chars(a[2])
        BY <3>1, <3>2 DEF Covered
      <4>1. currentChar' \in {currentChar, currentChar + 1}
        BY <3>1
      <4>2. i \in Consumed(Identifier)
           \/ (i = c /\ currentChar' = i /\ Mem(i) \in Identifier)
        BY <2>2, <2>5, <4>1, ConsumedGrows
      <4>3. i \in Consumed(Identifier)
        BY <2>3, <3>1, <4>2
      <4> QED BY <2>2, <4>3 DEF Covered
    <3> QED BY <2>1, <3>3, <3>4, <3>5 DEF Words
  <2>11. CASE Grows
    <3>1. Finished' = Finished /\ word'.text = Append(word.text, c) /\ currentChar' = c
      BY <2>11 DEF Grows
    <3>2. Chars(word.text)' = Chars(word.text) \cup {c}
      BY <2>3, <2>9, <3>1, CharsAppend
    <3>3. Behind'
      <4>1. \A i \in Nat : i <= currentChar => i <= c
        BY <2>3
      <4>2. c <= c
        BY <2>3
      <4> HIDE DEF c
      <4> QED BY <2>2, <2>3, <2>4, <2>7, <3>1, <3>2, <4>1, <4>2 DEF Behind
    <3>4. Apart'
      <4>1. \A a \in Finished : c \notin Chars(a[2])
        <5>1. ~(c <= currentChar)
          BY <2>3
        <5> HIDE DEF c
        <5> QED BY <2>2, <5>1 DEF Behind
      <4> HIDE DEF c
      <4> QED BY <2>2, <3>1, <3>2, <4>1 DEF Apart
    <3>5. Covered'
      <4> SUFFICES ASSUME NEW i \in Consumed(Identifier)'
                   PROVE  i \in Chars(word.text)' \/ \E a \in Finished : i \in Chars(a[2])
        BY <3>1 DEF Covered
      <4>1. i \in Consumed(Identifier) \/ i = c
        BY <2>2, <2>5, <3>1, ConsumedGrows
      <4> QED BY <2>2, <3>2, <4>1 DEF Covered
    <3> QED BY <2>1, <3>3, <3>4, <3>5 DEF Words
  <2>12. CASE Finishes
    <3> DEFINE new == <<Len(heap) + 1, word.text>>
    <3>1. /\ Finished' = Finished \cup {new} /\ word' = NoWord /\ currentChar' = currentChar
          /\ new[2] = word.text
      BY <2>12 DEF Finishes
    <3>2. Chars(word.text)' = {}
      BY <2>9, <3>1, CharsEmpty DEF NoWord
    <3> HIDE DEF new
    <3>3. Behind'
      BY <2>2, <3>1, <3>2 DEF Behind
    <3>4. Apart'
      BY <2>2, <3>1, <3>2 DEF Apart
    <3>5. Covered'
      <4> SUFFICES ASSUME NEW i \in Consumed(Identifier)'
                   PROVE  \E a \in Finished' : i \in Chars(a[2])
        BY DEF Covered
      <4>1. currentChar' \in {currentChar, currentChar + 1}
        BY <3>1
      <4>2. i \in Consumed(Identifier)
           \/ (i = c /\ currentChar' = i /\ Mem(i) \in Identifier)
        BY <2>2, <2>5, <4>1, ConsumedGrows
      <4>3. i \in Consumed(Identifier)
        BY <2>3, <3>1, <4>2
      <4> QED BY <2>2, <3>1, <4>3 DEF Covered
    <3> QED BY <2>1, <3>3, <3>4, <3>5 DEF Words
  <2> QED BY <2>1, <2>10, <2>11, <2>12
<1> QED BY <1>1, <1>2

LEMMA WordsInvariant == Spec => []Words
<1>1. ASSUME Init PROVE Words
  <2>1. /\ word = NoWord /\ Finished = {} /\ Chars(word.text) = {}
    <3>1. heap = <<>> /\ word = NoWord
      BY <1>1 DEF Init
    <3>2. DOMAIN heap = {} /\ word.text = <<>>
      BY <3>1 DEF NoWord
    <3> QED BY <3>1, <3>2, CharsEmpty DEF Finished
  <2>2. Consumed(Identifier) = {}
    <3>1. currentChar = 0
      BY <1>1 DEF Init
    <3>2. \A i \in 1 .. 0 : FALSE
      OBVIOUS
    <3> QED BY <3>1, <3>2 DEF Consumed
  <2> QED BY <2>1, <2>2 DEF Words, Clear, Behind, Apart, Covered
<1>2. ASSUME IInv, Words, [Next]_vars PROVE Words'
  <2>1. CASE UNCHANGED vars
    <3>1. UNCHANGED <<buf, after, currentChar, pc, word, heap>>
      BY <2>1 DEF vars, input, position, tree
    <3>2. Finished' = Finished
      BY <3>1 DEF Finished
    <3>3. Consumed(Identifier)' = Consumed(Identifier)
      BY <3>1 DEF Consumed, Mem
    <3>4. Chars(word.text)' = Chars(word.text)
      BY <3>1 DEF Chars
    <3>5. Clear'
      BY <1>2, <3>1 DEF Words, Clear
    <3>6. Behind' = Behind
      BY <3>1, <3>2, <3>4 DEF Behind
    <3>7. Apart' = Apart
      BY <3>1, <3>2, <3>4 DEF Apart
    <3>8. Covered' = Covered
      BY <3>2, <3>3, <3>4 DEF Covered
    <3> QED BY <1>2, <3>1, <3>5, <3>6, <3>7, <3>8 DEF Words
  <2> QED BY <1>2, <2>1, StepWords DEF Next, Terminated
<1> QED BY <1>1, <1>2, Invariance, PTL DEF Spec

\* Whatever follows the buffer, a consumed character of an atom is in exactly
\* one token: readSymbol() and readNumber() lose none where two atoms touch.
THEOREM TokensCorrect == Spec => []TokensComplete
<1>1. ASSUME IInv, Words PROVE TokensComplete
  <2> SUFFICES ASSUME pc # "done", NEW i \in Consumed(Identifier)
               PROVE  Cardinality({t \in Tokens \cup {word.text} :
                                     \E k \in DOMAIN t : t[k] = i}) = 1
    BY DEF TokensComplete
  <2> DEFINE S == {t \in Tokens \cup {word.text} : \E k \in DOMAIN t : t[k] = i}
  <2>1. Behind /\ Apart /\ Covered
    BY <1>1 DEF Words
  <2>2. Tokens = {a[2] : a \in Finished}
    <3> DEFINE A == {m \in DOMAIN heap : heap[m].kind # "List"}
    <3>1. Tokens = {heap[n].text : n \in A} /\ Finished = {<<n, heap[n].text>> : n \in A}
      BY DEF Tokens, Finished
    <3> HIDE DEF A
    <3>2. ASSUME NEW t \in Tokens PROVE \E a \in Finished : t = a[2]
      <4>1. PICK n \in A : t = heap[n].text
        BY <3>1
      <4>2. <<n, heap[n].text>> \in Finished
        BY <3>1
      <4> QED BY <4>1, <4>2
    <3>3. ASSUME NEW a \in Finished PROVE a[2] \in Tokens
      BY <3>1
    <3> QED BY <3>2, <3>3
  <2>3. S = {t \in Tokens \cup {word.text} : i \in Chars(t)}
    BY DEF Chars
  <2> HIDE DEF S
  <2>4. PICK t \in Tokens \cup {word.text} : i \in Chars(t)
    BY <2>1, <2>2 DEF Covered
  <2>5. ASSUME NEW u \in S PROVE u = t
    <3>1. u \in Tokens \cup {word.text} /\ i \in Chars(u)
      BY <2>3
    <3>2. CASE u \in Tokens /\ t \in Tokens
      <4>1. PICK a, b \in Finished : a[2] = u /\ b[2] = t
        BY <2>2, <3>2
      <4> QED BY <2>1, <2>4, <3>1, <4>1 DEF Apart
    <3>3. CASE u \in Tokens /\ t = word.text
      <4>1. PICK a \in Finished : a[2] = u
        BY <2>2, <3>3
      <4> QED BY <2>1, <2>4, <3>1, <3>3, <4>1 DEF Apart
    <3>4. CASE u = word.text /\ t \in Tokens
      <4>1. PICK a \in Finished : a[2] = t
        BY <2>2, <3>4
      <4> QED BY <2>1, <2>4, <3>1, <3>4, <4>1 DEF Apart
    <3> QED BY <2>4, <3>1, <3>2, <3>3, <3>4
  <2>6. S = {t}
    BY <2>3, <2>4, <2>5
  <2>7. Cardinality(S) = 1
    BY <2>6, FS_Singleton
  <2> QED BY <2>7 DEF S
<1> QED BY <1>1, Invariance, WordsInvariant, PTL

(***************************************************************************)
(* Ownership.  A node can be held by the AST, by the pending readList()    *)
(* calls or by a list; Owners numbers the first two 0 and -1.              *)
(***************************************************************************)

Holders == {-1, 0} \cup DOMAIN heap

slots(m) == IF m = 0 THEN ast ELSE IF m = -1 THEN stack ELSE heap[m].elems

Place(m, k, n) == m \in Holders /\ k \in DOMAIN slots(m) /\ slots(m)[k] = n

\* Only nodes are held, in terminated buffers: no null pointer.
Referred == \A m \in Holders : slots(m) \in Seq(DOMAIN heap)

Single ==
  \A n \in DOMAIN heap :
    \E m, k : Place(m, k, n) /\ \A h, j : Place(h, j, n) => h = m /\ j = k

Sorted == \A m \in Holders : Increasing(slots(m))

\* What is delivered to the AST or to a pending list, while lists are pending
\* above it, is older than these: they can be delivered behind it.
Nested ==
  \A k \in DOMAIN stack :
    /\ \A j \in DOMAIN ast : ast[j] < stack[k]
    /\ \A h \in DOMAIN stack : h < k =>
         \A j \in DOMAIN heap[stack[h]].elems : heap[stack[h]].elems[j] < stack[k]

Tree == Referred /\ Single /\ Sorted /\ Nested

LEMMA IncreasingAppend ==
  ASSUME NEW s \in Seq(Nat), NEW n \in Nat, Increasing(s), \A i \in DOMAIN s : s[i] < n
  PROVE  Increasing(Append(s, n))
BY DEF Increasing

LEMMA AppendFacts ==
  ASSUME NEW s \in Seq(Nat), NEW n \in Nat
  PROVE  /\ DOMAIN Append(s, n) = DOMAIN s \cup {Len(s) + 1}
         /\ \A k \in DOMAIN s : Append(s, n)[k] = s[k]
         /\ Append(s, n)[Len(s) + 1] = n
         /\ Len(s) + 1 \notin DOMAIN s
OBVIOUS

\* Where returnExpr() puts the node.
LEMMA ReturnExprSlots ==
  ASSUME NEW nodes \in Seq(Node), NEW open \in Seq(1 .. Len(nodes)), NEW n,
         returnExpr(nodes, open, n)
  PROVE  LET to == IF open = <<>> THEN 0 ELSE open[Len(open)]
         IN /\ stack' = open /\ DOMAIN heap' = DOMAIN nodes
            /\ ast' = IF to = 0 THEN Append(ast, n) ELSE ast
            /\ \A m \in DOMAIN nodes :
                 heap'[m].elems = IF m = to THEN Append(nodes[m].elems, n)
                                  ELSE nodes[m].elems
<1> DEFINE to == IF open = <<>> THEN 0 ELSE open[Len(open)]
<1>1. CASE open = <<>>
  <2>1. \A m \in DOMAIN nodes : m # 0
    OBVIOUS
  <2> QED BY <1>1, <2>1 DEF returnExpr
<1>2. CASE open # <<>>
  <2>1. to \in 1 .. Len(nodes) /\ to # 0
    BY <1>2
  <2>2. heap' = [nodes EXCEPT ![to].elems = Append(@, n)] /\ stack' = open /\ ast' = ast
    BY <1>2 DEF returnExpr
  <2>3. ASSUME NEW m \in DOMAIN nodes
        PROVE  heap'[m].elems = IF m = to THEN Append(nodes[m].elems, n) ELSE nodes[m].elems
    <3>1. nodes[m] \in Node
      OBVIOUS
    <3> HIDE DEF to
    <3>2. CASE m = to
      <4>1. heap'[m] = [nodes[m] EXCEPT !.elems = Append(@, n)]
        BY <2>2, <3>2
      <4> QED BY <3>1, <3>2, <4>1 DEF Node
    <3>3. CASE m # to
      BY <2>2, <3>3
    <3> QED BY <3>2, <3>3
  <2>4. DOMAIN heap' = DOMAIN nodes
    BY <2>2
  <2> HIDE DEF to
  <2>5. stack' = open /\ DOMAIN heap' = DOMAIN nodes
        /\ ast' = (IF to = 0 THEN Append(ast, n) ELSE ast)
    BY <2>1, <2>2, <2>4
  <2> QED BY <2>3, <2>5 DEF to
<1> QED BY <1>1, <1>2

\* A step that delivers node n to "to", the innermost of the lists that stay
\* pending or the AST: an atom is new, a list was the innermost before.
NewAtom(n, open) ==
  /\ DOMAIN heap' = DOMAIN heap \cup {n} /\ n = Len(heap) + 1
  /\ heap'[n].elems = <<>> /\ open = stack

Closed(n, open) ==
  /\ DOMAIN heap' = DOMAIN heap /\ stack # <<>> /\ n = stack[Len(stack)]
  /\ Len(open) = Len(stack) - 1 /\ \A k \in DOMAIN open : open[k] = stack[k]

Delivery(to, n, open) ==
  /\ open \in Seq(1 .. Len(heap)) /\ stack' = open
  /\ to = IF open = <<>> THEN 0 ELSE open[Len(open)]
  /\ ast' = IF to = 0 THEN Append(ast, n) ELSE ast
  /\ \A m \in DOMAIN heap :
       heap'[m].elems = IF m = to THEN Append(heap[m].elems, n) ELSE heap[m].elems
  /\ NewAtom(n, open) \/ Closed(n, open)

LEMMA TreeFacts ==
  ASSUME TypeOK, Tree
  PROVE  /\ Len(heap) \in Nat /\ DOMAIN heap = 1 .. Len(heap) /\ Len(stack) \in Nat
         /\ \A m \in DOMAIN heap : m \in Nat /\ m # 0 /\ m # -1
         /\ stack \in Seq(DOMAIN heap) /\ ast \in Seq(DOMAIN heap)
         /\ DOMAIN stack = 1 .. Len(stack) /\ \A k \in DOMAIN stack : stack[k] \in DOMAIN heap
         /\ slots(-1) = stack /\ slots(0) = ast
         /\ \A m \in DOMAIN heap : slots(m) = heap[m].elems
         /\ \A m \in {0} \cup DOMAIN heap : slots(m) \in Seq(Nat) /\ slots(m) \in Seq(DOMAIN heap)
<1>1. heap \in Seq(Node) /\ stack \in Seq(1 .. Len(heap))
  BY DEF TypeOK
<1>2. Len(heap) \in Nat /\ DOMAIN heap = 1 .. Len(heap)
  BY <1>1
<1>3. Len(stack) \in Nat /\ DOMAIN stack = 1 .. Len(stack) /\ stack \in Seq(DOMAIN heap)
  BY <1>1, <1>2
<1>4. \A k \in DOMAIN stack : stack[k] \in DOMAIN heap
  BY <1>3
<1>5. \A m \in DOMAIN heap : m \in Nat /\ m # 0 /\ m # -1
  BY <1>2
<1>6. slots(-1) = stack /\ slots(0) = ast /\ \A m \in DOMAIN heap : slots(m) = heap[m].elems
  BY <1>5 DEF slots
<1>7. \A m \in {0} \cup DOMAIN heap : slots(m) \in Seq(DOMAIN heap)
  BY DEF Tree, Referred, Holders
<1>8. \A t \in Seq(DOMAIN heap) : t \in Seq(Nat)
  BY <1>5
<1>9. ast \in Seq(DOMAIN heap)
  BY <1>6, <1>7
<1> QED BY <1>2, <1>3, <1>4, <1>5, <1>6, <1>7, <1>8, <1>9

LEMMA DeliveryFacts ==
  ASSUME TypeOK, Tree, NEW to, NEW n, NEW open, Delivery(to, n, open)
  PROVE  /\ n \in Nat /\ n # 0 /\ n # -1 /\ DOMAIN heap' = DOMAIN heap \cup {n}
         /\ to \in {0} \cup DOMAIN heap /\ to # n
         /\ \A k \in DOMAIN slots(to) : slots(to)[k] < n
         /\ \A k \in DOMAIN open : k \in DOMAIN stack /\ open[k] = stack[k]
<1>1. /\ open \in Seq(1 .. Len(heap)) /\ to = (IF open = <<>> THEN 0 ELSE open[Len(open)])
  BY DEF Delivery
<1>2. open # <<>> => Len(open) \in DOMAIN open /\ to = open[Len(open)] /\ to \in 1 .. Len(heap)
  BY <1>1
<1>3. to \in {0} \cup DOMAIN heap
  BY <1>1, <1>2, TreeFacts
<1>4. Len(open) \in Nat /\ DOMAIN open = 1 .. Len(open)
  BY <1>1
<1>5. CASE NewAtom(n, open)
  <2>1. n = Len(heap) + 1 /\ n \in Nat /\ n # 0 /\ n # -1 /\ DOMAIN heap' = DOMAIN heap \cup {n}
    BY <1>5, TreeFacts DEF NewAtom
  <2>2. \A m \in DOMAIN heap : m < n
    BY <2>1, TreeFacts
  <2>3. ASSUME NEW k \in DOMAIN slots(to) PROVE slots(to)[k] < n
    <3>1. slots(to) \in Seq(DOMAIN heap)
      BY <1>3, TreeFacts
    <3>2. slots(to)[k] \in DOMAIN heap
      BY <3>1
    <3> QED BY <2>2, <3>2
  <2>4. to # n
    BY <1>3, <2>1, <2>2
  <2> QED BY <1>3, <1>5, <2>1, <2>3, <2>4 DEF NewAtom
<1>6. CASE Closed(n, open)
  <2>1. /\ stack # <<>> /\ n = stack[Len(stack)] /\ Len(open) = Len(stack) - 1
        /\ \A k \in DOMAIN open : open[k] = stack[k]
        /\ DOMAIN heap' = DOMAIN heap
    BY <1>6 DEF Closed
  <2>2. Len(stack) \in DOMAIN stack
    BY <2>1, TreeFacts
  <2>3. n \in DOMAIN heap
    BY <2>1, <2>2, TreeFacts
  <2>4. \A k \in DOMAIN open : k \in DOMAIN stack /\ k < Len(stack)
    BY <1>4, <2>1, TreeFacts
  <2>5. ASSUME NEW k \in DOMAIN slots(to) PROVE slots(to)[k] < n
    <3>1. CASE open = <<>>
      <4>1. slots(to) = ast
        BY <1>1, <3>1, TreeFacts
      <4> QED BY <2>1, <2>2, <4>1 DEF Tree, Nested
    <3>2. CASE open # <<>>
      <4>1. /\ Len(open) \in DOMAIN stack /\ Len(open) < Len(stack) /\ to = stack[Len(open)]
        BY <1>2, <2>1, <2>4, <3>2
      <4>2. slots(to) = heap[to].elems
        BY <1>2, <3>2, TreeFacts
      <4> QED BY <2>1, <2>2, <4>1, <4>2 DEF Tree, Nested
    <3> QED BY <3>1, <3>2
  <2>6. to # n
    <3>1. CASE open = <<>>
      BY <1>1, <2>3, <3>1, TreeFacts
    <3>2. CASE open # <<>>
      <4>1. /\ Len(open) \in DOMAIN stack /\ Len(open) < Len(stack) /\ to = stack[Len(open)]
        BY <1>2, <2>1, <2>4, <3>2
      <4>2. Increasing(stack)
        BY TreeFacts DEF Tree, Sorted, Holders
      <4>3. to < n
        BY <2>1, <2>2, <4>1, <4>2 DEF Increasing
      <4> QED BY <1>2, <2>3, <3>2, <4>3, TreeFacts
    <3> QED BY <3>1, <3>2
  <2> QED BY <1>3, <2>1, <2>3, <2>4, <2>5, <2>6, TreeFacts
<1> QED BY <1>5, <1>6 DEF Delivery

\* The slots after a delivery.
LEMMA DeliverySlots ==
  ASSUME TypeOK, Tree, NEW to, NEW n, NEW open, Delivery(to, n, open)
  PROVE  /\ Holders' = Holders \cup {n} /\ slots(-1)' = open
         /\ slots(to)' = Append(slots(to), n)
         /\ \A m \in {0} \cup DOMAIN heap : m # to => slots(m)' = slots(m)
         /\ n \notin DOMAIN heap => slots(n)' = <<>>
<1>1. /\ n # 0 /\ n # -1 /\ DOMAIN heap' = DOMAIN heap \cup {n}
      /\ to \in {0} \cup DOMAIN heap
  BY DeliveryFacts
<1>2. /\ slots(0)' = ast' /\ slots(-1)' = stack'
      /\ \A m : m # 0 /\ m # -1 => slots(m)' = heap'[m].elems
  BY DEF slots
<1>3. /\ stack' = open /\ ast' = (IF to = 0 THEN Append(ast, n) ELSE ast)
      /\ \A m \in DOMAIN heap :
           heap'[m].elems = IF m = to THEN Append(heap[m].elems, n) ELSE heap[m].elems
  BY DEF Delivery
<1>4. \A m \in DOMAIN heap : m # 0 /\ m # -1 /\ slots(m) = heap[m].elems /\ slots(0) = ast
  BY TreeFacts
<1>5. slots(to)' = Append(slots(to), n)
  <2>1. CASE to = 0
    BY <1>2, <1>3, <2>1, TreeFacts
  <2>2. CASE to # 0
    BY <1>1, <1>2, <1>3, <1>4, <2>2
  <2> QED BY <2>1, <2>2
<1>6. ASSUME NEW m \in {0} \cup DOMAIN heap, m # to PROVE slots(m)' = slots(m)
  <2>1. CASE m = 0
    BY <1>2, <1>3, <1>6, <2>1, TreeFacts
  <2>2. CASE m # 0
    BY <1>2, <1>3, <1>4, <1>6, <2>2
  <2> QED BY <2>1, <2>2
<1>7. n \notin DOMAIN heap => slots(n)' = <<>>
  <2>1. n \notin DOMAIN heap => heap'[n].elems = <<>>
    BY <1>1 DEF Delivery, NewAtom, Closed
  <2> QED BY <1>1, <1>2, <2>1
<1>8. Holders' = Holders \cup {n}
  BY <1>1 DEF Holders
<1> QED BY <1>2, <1>3, <1>5, <1>6, <1>7, <1>8

LEMMA DeliveryTree ==
  ASSUME TypeOK, Tree, NEW to, NEW n, NEW open, Delivery(to, n, open)
  PROVE  Tree'
<1> DEFINE D == DOMAIN heap
           last == Len(slots(to)) + 1
<1>1. /\ n \in Nat /\ n # 0 /\ n # -1 /\ DOMAIN heap' = D \cup {n}
      /\ to \in {0} \cup D /\ to # n /\ to # -1
      /\ \A k \in DOMAIN slots(to) : slots(to)[k] < n
      /\ \A k \in DOMAIN open : k \in DOMAIN stack /\ open[k] = stack[k]
  <2>1. /\ n \in Nat /\ n # 0 /\ n # -1 /\ DOMAIN heap' = D \cup {n}
        /\ to \in {0} \cup D /\ to # n
        /\ \A k \in DOMAIN slots(to) : slots(to)[k] < n
        /\ \A k \in DOMAIN open : k \in DOMAIN stack /\ open[k] = stack[k]
    BY DeliveryFacts
  <2>2. to # -1
    <3>1. \A m \in D : m # -1
      BY TreeFacts
    <3> QED BY <2>1, <3>1
  <2> QED BY <2>1, <2>2
<1>2. /\ Holders' = Holders \cup {n} /\ slots(-1)' = open /\ stack' = open
      /\ slots(to)' = Append(slots(to), n)
      /\ \A m \in {0} \cup D : m # to => slots(m)' = slots(m)
      /\ n \notin D => slots(n)' = <<>>
  BY DeliverySlots DEF Delivery
<1>3. slots(to) \in Seq(Nat) /\ slots(to) \in Seq(D)
  BY <1>1, TreeFacts
<1>4. /\ DOMAIN slots(to)' = DOMAIN slots(to) \cup {last} /\ last \notin DOMAIN slots(to)
      /\ slots(to)'[last] = n
      /\ \A k \in DOMAIN slots(to) : slots(to)'[k] = slots(to)[k]
  BY <1>1, <1>2, <1>3, AppendFacts
<1>5. Holders = {-1, 0} \cup D /\ Referred /\ Single /\ Sorted /\ Nested
  BY DEF Holders, Tree
<1>6. open \in Seq(D) /\ (to = IF open = <<>> THEN 0 ELSE open[Len(open)])
  BY TreeFacts DEF Delivery
<1> HIDE DEF D, last
<1>7. Referred'
  <2>1. \A s \in Seq(D) : s \in Seq(D \cup {n})
    OBVIOUS
  <2>2. Append(slots(to), n) \in Seq(D \cup {n})
    BY <1>3, <2>1
  <2>3. ASSUME NEW m \in Holders' PROVE slots(m)' \in Seq(D \cup {n})
    <3>1. CASE m = -1
      BY <1>2, <1>6, <2>1, <3>1
    <3>2. CASE m \in {0} \cup D /\ m # to
      BY <1>2, <1>5, <2>1, <3>2 DEF Referred, D
    <3>3. CASE m = to
      BY <1>2, <2>2, <3>3
    <3>4. CASE m = n /\ n \notin D
      BY <1>2, <3>4
    <3> QED BY <1>2, <1>5, <2>3, <3>1, <3>2, <3>3, <3>4
  <2> QED BY <1>1, <2>3 DEF Referred
<1>8. Sorted'
  <2>1. ASSUME NEW m \in Holders' PROVE Increasing(slots(m)')
    <3>1. CASE m = -1
      <4>1. Increasing(stack)
        BY <1>5, TreeFacts DEF Sorted
      <4> QED BY <1>1, <1>2, <3>1, <4>1 DEF Increasing
    <3>2. CASE m \in {0} \cup D /\ m # to
      BY <1>2, <1>5, <3>2 DEF Sorted
    <3>3. CASE m = to
      BY <1>1, <1>2, <1>3, <1>5, <3>3, IncreasingAppend DEF Sorted
    <3>4. CASE m = n /\ n \notin D
      BY <1>2, <3>4 DEF Increasing
    <3> QED BY <1>2, <1>5, <2>1, <3>1, <3>2, <3>3, <3>4
  <2> QED BY <2>1 DEF Sorted, Increasing
<1>9. Nested'
  <2> SUFFICES ASSUME NEW k \in DOMAIN open
               PROVE  /\ \A j \in DOMAIN ast' : ast'[j] < open[k]
                      /\ \A h \in DOMAIN open : h < k =>
                           \A j \in DOMAIN heap'[open[h]].elems : heap'[open[h]].elems[j] < open[k]
    BY <1>2 DEF Nested
  <2>1. k \in DOMAIN stack /\ open[k] = stack[k]
    BY <1>1
  <2>2. to # 0 /\ to = open[Len(open)] /\ Len(open) \in DOMAIN open
    <3>1. open # <<>> /\ Len(open) \in DOMAIN open
      BY <1>6
    <3>2. open[Len(open)] \in D
      BY <1>6, <3>1
    <3> QED BY <1>6, <3>1, <3>2, TreeFacts DEF D
  <2>3. ast' = ast
    BY <2>2 DEF Delivery
  <2>4. \A j \in DOMAIN ast' : ast'[j] < open[k]
    BY <1>5, <2>1, <2>3 DEF Nested
  <2>5. ASSUME NEW h \in DOMAIN open, h < k
        PROVE  \A j \in DOMAIN heap'[open[h]].elems : heap'[open[h]].elems[j] < open[k]
    <3>1. h \in DOMAIN stack /\ open[h] = stack[h] /\ stack[h] \in D
      BY <1>1, TreeFacts DEF D
    <3>2. h < Len(open)
      BY <1>6, <2>5
    <3>3. Len(open) \in DOMAIN stack /\ to = stack[Len(open)]
      BY <1>1, <2>2
    <3>4. Increasing(stack)
      BY <1>5, TreeFacts DEF Sorted
    <3>5. stack[h] < stack[Len(open)]
      BY <3>1, <3>2, <3>3, <3>4 DEF Increasing
    <3>6. stack[h] # to
      BY <1>1, <3>1, <3>3, <3>5, TreeFacts DEF D
    <3>7. heap'[open[h]].elems = heap[stack[h]].elems
      BY <3>1, <3>6 DEF Delivery, D
    <3> QED BY <1>5, <2>1, <2>5, <3>1, <3>7 DEF Nested
  <2> QED BY <2>4, <2>5
<1>10. Single'
  <2>1. \A m, k, p : Place(m, k, p)' <=> m \in Holders' /\ k \in DOMAIN slots(m)' /\ slots(m)'[k] = p
    BY DEF Place
  <2>2. ASSUME NEW m, NEW k, NEW p, m # -1
        PROVE  Place(m, k, p)' <=> Place(m, k, p) \/ (m = to /\ k = last /\ p = n)
    <3>1. CASE m \in {0} \cup D /\ m # to
      BY <1>2, <1>5, <2>1, <3>1 DEF Place
    <3>2. CASE m = to
      BY <1>1, <1>2, <1>4, <1>5, <2>1, <3>2 DEF Place
    <3>3. CASE m = n /\ n \notin D
      <4>1. ~Place(m, k, p)
        BY <1>1, <1>5, <3>3 DEF Place
      <4>2. ~Place(m, k, p)'
        BY <1>2, <2>1, <3>3
      <4> QED BY <1>1, <3>3, <4>1, <4>2
    <3>4. CASE m \notin Holders'
      BY <1>1, <1>2, <1>5, <2>1, <3>4 DEF Place
    <3> QED BY <1>2, <1>5, <2>2, <3>1, <3>2, <3>3, <3>4
  <2>3. ASSUME NEW k, NEW p
        PROVE  Place(-1, k, p)' <=> k \in DOMAIN open /\ stack[k] = p
    BY <1>1, <1>2, <1>5, <2>1
  <2>4. ASSUME NEW k, NEW p
        PROVE  Place(-1, k, p) <=> k \in DOMAIN stack /\ stack[k] = p
    BY <1>5, TreeFacts DEF Place
  <2>5. CASE NewAtom(n, open)
    <3>1. open = stack /\ n \notin D
      BY <2>5, TreeFacts DEF NewAtom, D
    <3>2. \A m, k : ~Place(m, k, n)
      <4>1. ASSUME NEW m, NEW k, Place(m, k, n) PROVE FALSE
        <5>1. m \in Holders /\ k \in DOMAIN slots(m) /\ slots(m)[k] = n
          BY <4>1 DEF Place
        <5>2. slots(m) \in Seq(D)
          BY <1>5, <5>1 DEF Referred, D
        <5>3. slots(m)[k] \in D
          BY <5>1, <5>2
        <5> QED BY <3>1, <5>1, <5>3
      <4> QED BY <4>1
    <3>3. \A m, k, p : Place(m, k, p)' <=> Place(m, k, p) \/ (m = to /\ k = last /\ p = n)
      <4>1. \A k, p : Place(-1, k, p)' <=> Place(-1, k, p)
        BY <2>3, <2>4, <3>1
      <4> QED BY <1>1, <2>2, <4>1
    <3>4. ASSUME NEW p \in DOMAIN heap'
          PROVE  \E m, k : Place(m, k, p)' /\ \A h, j : Place(h, j, p)' => h = m /\ j = k
      <4>1. CASE p = n
        BY <3>2, <3>3, <4>1
      <4>2. CASE p # n
        <5>1. p \in DOMAIN heap
          BY <1>1, <4>2 DEF D
        <5>2. PICK m, k : Place(m, k, p) /\ \A h, j : Place(h, j, p) => h = m /\ j = k
          BY <1>5, <5>1 DEF Single
        <5> QED BY <3>3, <4>2, <5>2
      <4> QED BY <4>1, <4>2
    <3> QED BY <3>4 DEF Single
  <2>6. CASE Closed(n, open)
    <3> DEFINE top == Len(stack)
    <3>1. /\ top \in DOMAIN stack /\ n = stack[top] /\ n \in D
          /\ \A k : k \in DOMAIN open <=> k \in DOMAIN stack /\ k # top
      <4>1. stack # <<>> /\ n = stack[Len(stack)] /\ Len(open) = Len(stack) - 1
        BY <2>6 DEF Closed
      <4>2. top \in DOMAIN stack /\ n \in D
        BY <4>1, TreeFacts DEF D
      <4>3. DOMAIN open = 1 .. Len(open)
        BY <1>6
      <4> QED BY <4>1, <4>2, <4>3, TreeFacts
    <3> HIDE DEF top
    <3>2. Place(-1, top, n)
      BY <2>4, <3>1
    <3>3. \A m, k : Place(m, k, n) => m = -1 /\ k = top
      BY <1>5, <3>1, <3>2 DEF Single, D
    <3>4. \A m, k, p : Place(m, k, p)' <=>
            (Place(m, k, p) /\ p # n) \/ (m = to /\ k = last /\ p = n)
      <4>1. \A k, p : Place(-1, k, p)' <=> Place(-1, k, p) /\ k # top
        BY <2>3, <2>4, <3>1
      <4>2. \A k, p : Place(-1, k, p) => (k # top <=> p # n)
        BY <2>4, <3>1, <3>3
      <4> QED BY <1>1, <2>2, <3>3, <4>1, <4>2
    <3>5. ASSUME NEW p \in DOMAIN heap'
          PROVE  \E m, k : Place(m, k, p)' /\ \A h, j : Place(h, j, p)' => h = m /\ j = k
      <4>1. CASE p = n
        BY <3>4, <4>1
      <4>2. CASE p # n
        <5>1. p \in DOMAIN heap
          BY <1>1, <4>2 DEF D
        <5>2. PICK m, k : Place(m, k, p) /\ \A h, j : Place(h, j, p) => h = m /\ j = k
          BY <1>5, <5>1 DEF Single
        <5> QED BY <3>4, <4>2, <5>2
      <4> QED BY <4>1, <4>2
    <3> QED BY <3>5 DEF Single
  <2> QED BY <2>5, <2>6 DEF Delivery
<1> QED BY <1>7, <1>8, <1>9, <1>10 DEF Tree

\* readList() takes a new node in hand.
LEMMA OpeningTree ==
  ASSUME TypeOK, Tree, NEW n, n = Len(heap) + 1,
         DOMAIN heap' = DOMAIN heap \cup {n}, heap'[n].elems = <<>>,
         \A m \in DOMAIN heap : heap'[m] = heap[m],
         stack' = Append(stack, n), ast' = ast
  PROVE  Tree'
<1> DEFINE D == DOMAIN heap
           last == Len(stack) + 1
<1>1. /\ n \in Nat /\ n # 0 /\ n # -1 /\ n \notin D /\ \A m \in D : m < n /\ m \in Nat
      /\ stack \in Seq(D) /\ ast \in Seq(D) /\ \A m \in D : m # 0 /\ m # -1
      /\ Len(stack) \in Nat /\ DOMAIN stack = 1 .. Len(stack)
  BY TreeFacts
<1>2. /\ Holders = {-1, 0} \cup D /\ Holders' = Holders \cup {n}
      /\ Referred /\ Single /\ Sorted /\ Nested
  BY DEF Holders, Tree
<1>3. /\ slots(-1) = stack /\ slots(-1)' = Append(stack, n) /\ slots(0)' = slots(0)
      /\ slots(n)' = <<>> /\ \A m \in D : slots(m)' = slots(m)
  BY <1>1 DEF slots
<1>4. stack \in Seq(Nat)
  BY <1>1
<1>5. /\ DOMAIN Append(stack, n) = DOMAIN stack \cup {last} /\ last \notin DOMAIN stack
      /\ Append(stack, n)[last] = n
      /\ \A k \in DOMAIN stack : Append(stack, n)[k] = stack[k]
  BY <1>1, <1>4, AppendFacts
<1>6. \A k \in DOMAIN stack : stack[k] \in D
  BY <1>1
<1> HIDE DEF D, last
<1>7. Referred'
  <2>1. \A s \in Seq(D) : s \in Seq(D \cup {n})
    OBVIOUS
  <2>2. Append(stack, n) \in Seq(D \cup {n})
    BY <1>1, <2>1
  <2>3. ASSUME NEW m \in Holders' PROVE slots(m)' \in Seq(D \cup {n})
    <3>1. CASE m = -1
      BY <1>3, <2>2, <3>1
    <3>2. CASE m = n
      <4>1. slots(m)' = <<>>
        BY <1>3, <3>2
      <4>2. <<>> \in Seq(D \cup {n})
        OBVIOUS
      <4> QED BY <4>1, <4>2
    <3>3. CASE m \in {0} \cup D
      BY <1>2, <1>3, <2>1, <3>3 DEF Referred, D
    <3> QED BY <1>2, <2>3, <3>1, <3>2, <3>3
  <2> QED BY <2>3 DEF Referred, D
<1>8. Sorted'
  <2>1. ASSUME NEW m \in Holders' PROVE Increasing(slots(m)')
    <3>1. CASE m = -1
      <4>1. Increasing(stack) /\ \A k \in DOMAIN stack : stack[k] < n
        BY <1>1, <1>2, <1>3, <1>6 DEF Sorted
      <4> QED BY <1>1, <1>3, <1>4, <3>1, <4>1, IncreasingAppend
    <3>2. CASE m = n
      BY <1>3, <3>2 DEF Increasing
    <3>3. CASE m \in {0} \cup D
      BY <1>2, <1>3, <3>3 DEF Sorted
    <3> QED BY <1>2, <2>1, <3>1, <3>2, <3>3
  <2> QED BY <2>1 DEF Sorted, Increasing
<1>9. Nested'
  <2>1. \A j \in DOMAIN ast : ast[j] \in D
    BY <1>1
  <2>2. \A m \in D : \A j \in DOMAIN heap[m].elems : heap[m].elems[j] \in D
    <3> SUFFICES ASSUME NEW m \in D PROVE heap[m].elems \in Seq(D)
      OBVIOUS
    <3> QED BY TreeFacts DEF D
  <2>3. \A k \in DOMAIN stack : stack'[k] = stack[k] /\ heap'[stack[k]] = heap[stack[k]]
    BY <1>5, <1>6 DEF D
  <2>4. DOMAIN stack' = DOMAIN stack \cup {last} /\ stack'[last] = n
    BY <1>5
  <2>5. \A h \in DOMAIN stack : h < last /\ ~(last < h)
    BY <1>1 DEF last
  <2>6. ~(last < last)
    BY <1>1 DEF last
  <2>7. ASSUME NEW k \in DOMAIN stack'
        PROVE  /\ \A j \in DOMAIN ast' : ast'[j] < stack'[k]
               /\ \A h \in DOMAIN stack' : h < k =>
                    \A j \in DOMAIN heap'[stack'[h]].elems : heap'[stack'[h]].elems[j] < stack'[k]
    <3>1. CASE k \in DOMAIN stack
      BY <1>2, <2>3, <2>4, <2>5, <3>1 DEF Nested
    <3>2. CASE k = last
      BY <1>1, <1>6, <2>1, <2>2, <2>3, <2>4, <2>6, <3>2
    <3> QED BY <2>4, <3>1, <3>2
  <2> QED BY <2>7 DEF Nested
<1>10. Single'
  <2>1. \A m, k, p : Place(m, k, p)' <=> m \in Holders' /\ k \in DOMAIN slots(m)' /\ slots(m)'[k] = p
    BY DEF Place
  <2>2. ASSUME NEW m, NEW k, NEW p
        PROVE  Place(m, k, p)' <=> Place(m, k, p) \/ (m = -1 /\ k = last /\ p = n)
    <3>1. CASE m = -1
      BY <1>2, <1>3, <1>5, <2>1, <3>1 DEF Place
    <3>2. CASE m = n
      BY <1>1, <1>2, <1>3, <2>1, <3>2 DEF Place
    <3>3. CASE m \in {0} \cup D
      BY <1>1, <1>2, <1>3, <2>1, <3>3 DEF Place
    <3>4. CASE m \notin Holders'
      BY <1>2, <2>1, <3>4 DEF Place
    <3> QED BY <1>2, <3>1, <3>2, <3>3, <3>4
  <2>3. \A m, k : ~Place(m, k, n)
    <3>1. ASSUME NEW m, NEW k, Place(m, k, n) PROVE FALSE
      <4>1. m \in Holders /\ k \in DOMAIN slots(m) /\ slots(m)[k] = n
        BY <3>1 DEF Place
      <4>2. slots(m) \in Seq(D)
        BY <1>2, <4>1 DEF Referred, D
      <4>3. slots(m)[k] \in D
        BY <4>1, <4>2
      <4> QED BY <1>1, <4>1, <4>3
    <3> QED BY <3>1
  <2>4. ASSUME NEW p \in DOMAIN heap'
        PROVE  \E m, k : Place(m, k, p)' /\ \A h, j : Place(h, j, p)' => h = m /\ j = k
    <3>1. CASE p = n
      BY <2>2, <2>3, <3>1
    <3>2. CASE p # n
      <4>1. p \in DOMAIN heap
        BY <3>2
      <4>2. PICK m, k : Place(m, k, p) /\ \A h, j : Place(h, j, p) => h = m /\ j = k
        BY <1>2, <4>1 DEF Single
      <4> QED BY <2>2, <3>2, <4>2
    <3> QED BY <3>1, <3>2
  <2> QED BY <2>4 DEF Single
<1> QED BY <1>7, <1>8, <1>9, <1>10 DEF Tree

LEMMA TreeStays ==
  ASSUME Tree, UNCHANGED tree
  PROVE  Tree'
<1>1. UNCHANGED <<heap, stack, ast>>
  BY DEF tree
<1>2. Holders' = Holders /\ \A m : slots(m)' = slots(m)
  BY <1>1 DEF Holders, slots
<1>3. \A m, k, n : Place(m, k, n)' <=> Place(m, k, n)
  BY <1>2 DEF Place
<1>4. Referred' /\ Sorted'
  BY <1>1, <1>2 DEF Tree, Referred, Sorted, Increasing
<1>5. Single'
  BY <1>1, <1>3 DEF Tree, Single
<1>6. Nested'
  BY <1>1 DEF Tree, Nested
<1> QED BY <1>4, <1>5, <1>6 DEF Tree

\* readExpr() is only called with an expression ahead: in a terminated buffer
\* it never comes to return the null pointer.
ExprAhead ==
  after = "nul" /\ (pc = "readExpr" \/ (pc = "skip" /\ ret = "readExpr")) =>
    \E i \in currentChar + 1 .. Len(buf) :
      /\ Mem(i) \notin Space /\ Mem(i) # "nul"
      /\ \A j \in currentChar + 1 .. i - 1 : Mem(j) \in Space

LEMMA StepExprAhead ==
  ASSUME IInv, ExprAhead, Step
  PROVE  ExprAhead'
<1> DEFINE c == currentChar + 1
<1>1. buf' = buf /\ after' = after /\ \A i : Mem(i)' = Mem(i)
  BY InputFixed DEF Next
<1>2. TypeOK /\ Control /\ Position /\ c \in Nat \ {0} /\ currentChar \in Nat /\ Len(buf) \in Nat
      /\ nextChar(1) = c
  BY BuffersAssumption DEF IInv, TypeOK, nextChar
<1> SUFFICES ASSUME after = "nul", pc' = "readExpr" \/ (pc' = "skip" /\ ret' = "readExpr")
             PROVE  \E i \in currentChar' + 1 .. Len(buf) :
                      /\ Mem(i) \notin Space /\ Mem(i) # "nul"
                      /\ \A j \in currentChar' + 1 .. i - 1 : Mem(j) \in Space
  BY <1>1 DEF ExprAhead
<1>3. CASE skipSpace
  <2>1. pc = "skip" /\ ret' = ret /\ (pc' = "skip" \/ pc' = ret)
    BY <1>3 DEF skipSpace
  <2>2. ret = "readExpr"
    BY <1>2, <2>1 DEF Control
  <2>3. PICK i \in c .. Len(buf) :
          /\ Mem(i) \notin Space /\ Mem(i) # "nul"
          /\ \A j \in c .. i - 1 : Mem(j) \in Space
    BY <2>1, <2>2 DEF ExprAhead
  <2>4. CASE Mem(c) \in Space
    <3>1. currentChar' = c
      BY <1>2, <1>3, <2>4 DEF skipSpace, advanceByOne
    <3>2. i # c
      BY <2>3, <2>4
    <3>3. i \in c + 1 .. Len(buf)
      BY <1>2, <2>3, <3>2
    <3>4. \A j \in c + 1 .. i - 1 : j \in c .. i - 1
      BY <1>2
    <3> HIDE DEF c
    <3> QED BY <2>3, <3>1, <3>3, <3>4
  <2>5. CASE Mem(c) \notin Space
    <3>1. currentChar' = currentChar
      BY <1>2, <1>3, <2>5 DEF skipSpace, position
    <3> QED BY <2>3, <3>1
  <2> QED BY <2>4, <2>5
<1>4. CASE read \/ listLoop
  <2>1. pc # "done" /\ currentChar' = currentChar /\ ~isEndOfBuffer(nextNonSpace)
    BY <1>4 DEF read, listLoop, returns, skipThen, position
  <2>2. /\ nextNonSpace \in c .. Len(buf) + 2 /\ Mem(nextNonSpace) \notin Space
        /\ \A j \in c .. nextNonSpace - 1 : Mem(j) \in Space
    BY <1>2, <2>1, NextNonSpace DEF Position
  <2>3. Mem(nextNonSpace) # "nul"
    BY <2>1 DEF isEndOfBuffer
  <2>4. nextNonSpace \in Nat \ {0}
    BY <1>2, <2>2
  <2>5. nextNonSpace <= Len(buf)
    BY <1>2, <2>3, <2>4, InReach
  <2>6. nextNonSpace \in c .. Len(buf)
    BY <1>2, <2>2, <2>4, <2>5
  <2> QED BY <2>1, <2>2, <2>3, <2>6
<1>5. CASE ~(skipSpace \/ read \/ listLoop)
  BY <1>5 DEF Step, readExpr, readList, closeList, eofInList, badSymbol, startNumber,
              startSymbol, symbolLoop, readNumber, numberLoop, returnAtom, returnExpr,
              fails, returns, skipThen
<1> QED BY <1>3, <1>4, <1>5

LEMMA ReturnAtomTree ==
  ASSUME TypeOK, Tree, NEW kind \in {"Symbol", "Number"}, NEW from \in Loc,
         returnAtom(kind, from)
  PROVE  Tree'
<1> DEFINE new == node(kind, from, loc)
           nodes == Append(heap, new)
           n == Len(heap) + 1
           to == IF stack = <<>> THEN 0 ELSE stack[Len(stack)]
<1>1. /\ nodes \in Seq(Node) /\ Len(nodes) = n /\ DOMAIN nodes = 1 .. n
      /\ \A m \in 1 .. Len(heap) : nodes[m] = heap[m]
      /\ nodes[n] = new /\ DOMAIN heap = 1 .. Len(heap) /\ Len(heap) \in Nat
  BY NodeType DEF TypeOK
<1>2. stack \in Seq(1 .. Len(nodes)) /\ stack \in Seq(1 .. Len(heap))
  BY <1>1 DEF TypeOK
<1>3. new.elems = <<>> /\ returnExpr(nodes, stack, n)
  BY DEF node, returnAtom
<1> HIDE DEF nodes, new
<1>4. /\ stack' = stack /\ DOMAIN heap' = DOMAIN nodes
      /\ ast' = IF to = 0 THEN Append(ast, n) ELSE ast
      /\ \A m \in DOMAIN nodes :
           heap'[m].elems = IF m = to THEN Append(nodes[m].elems, n) ELSE nodes[m].elems
  BY <1>1, <1>2, <1>3, ReturnExprSlots
<1>5. to \in 0 .. Len(heap)
  BY <1>1, <1>2
<1> HIDE DEF to
<1>6. n # to /\ n \in DOMAIN nodes /\ DOMAIN nodes = DOMAIN heap \cup {n}
  BY <1>1, <1>5
<1>7. heap'[n].elems = <<>>
  BY <1>1, <1>3, <1>4, <1>6
<1>8. \A m \in DOMAIN heap :
        heap'[m].elems = IF m = to THEN Append(heap[m].elems, n) ELSE heap[m].elems
  BY <1>1, <1>4, <1>6
<1>9. NewAtom(n, stack)
  BY <1>4, <1>6, <1>7 DEF NewAtom
<1>10. Delivery(to, n, stack)
  <2>1. to = IF stack = <<>> THEN 0 ELSE stack[Len(stack)]
    BY DEF to
  <2> HIDE DEF n
  <2> QED BY <1>2, <1>4, <1>8, <1>9, <2>1 DEF Delivery
<1> QED BY <1>10, DeliveryTree

LEMMA StepTree ==
  ASSUME IInv, after = "nul", ExprAhead, Tree, Step
  PROVE  Tree'
<1> DEFINE c == currentChar + 1
<1>1. TypeOK /\ Control /\ Position /\ currentChar \in Nat /\ Len(buf) \in Nat
  BY BuffersAssumption DEF IInv, TypeOK
<1>2. CASE UNCHANGED tree
  BY <1>2, TreeStays
<1>3. CASE readExpr /\ ~UNCHANGED tree
  <2>1. pc = "readExpr" /\ Mem(c) \notin Space
    BY <1>3 DEF readExpr, IInv, Ahead
  <2>2. PICK i \in c .. Len(buf) :
          /\ Mem(i) \notin Space /\ Mem(i) # "nul"
          /\ \A j \in c .. i - 1 : Mem(j) \in Space
    BY <2>1 DEF ExprAhead
  <2>3. i = c
    BY <1>1, <2>1, <2>2
  <2>4. nextNonSpace \in c .. Len(buf) + 2 /\ \A j \in c .. nextNonSpace - 1 : Mem(j) \in Space
    BY <1>1, <2>1, NextNonSpace DEF Position
  <2>5. nextNonSpace = c
    BY <1>1, <2>1, <2>4
  <2>6. ~isEndOfBuffer(nextNonSpace)
    BY <1>1, <2>2, <2>3, <2>5 DEF isEndOfBuffer, Position
  <2> QED BY <1>3, <2>6 DEF readExpr
<1>4. CASE readList
  <2> DEFINE new == node("List", loc, loc)
             n == Len(heap) + 1
  <2>1. /\ heap' = Append(heap, new) /\ stack' = Append(stack, n) /\ ast' = ast
        /\ new \in Node /\ new.elems = <<>> /\ heap \in Seq(Node)
    BY <1>1, <1>4, NodeType DEF readList, TypeOK, node
  <2> HIDE DEF new
  <2>2. /\ DOMAIN heap' = DOMAIN heap \cup {n} /\ heap'[n] = new
        /\ \A m \in DOMAIN heap : heap'[m] = heap[m]
    BY <2>1
  <2> QED BY <1>1, <2>1, <2>2, OpeningTree
<1>5. CASE closeList
  <2> DEFINE n == stack[Len(stack)]
             nodes == [heap EXCEPT ![n].end = nextLocation]
             open == SubSeq(stack, 1, Len(stack) - 1)
             to == IF open = <<>> THEN 0 ELSE open[Len(open)]
  <2>1. pc = "close" /\ returnExpr(nodes, open, n)
    BY <1>5 DEF closeList
  <2>2. stack # <<>> /\ stack \in Seq(1 .. Len(heap)) /\ heap \in Seq(Node)
    BY <1>1, <2>1 DEF Control, InList, TypeOK
  <2>3. /\ n \in 1 .. Len(heap) /\ open \in Seq(1 .. Len(heap)) /\ Len(open) = Len(stack) - 1
        /\ \A k \in DOMAIN open : open[k] = stack[k]
    <3>1. Len(stack) \in Nat \ {0} /\ DOMAIN stack = 1 .. Len(stack)
      BY <2>2
    <3>2. open \in Seq(1 .. Len(heap)) /\ Len(open) = Len(stack) - 1
      BY <2>2, <3>1
    <3>3. \A k \in 1 .. Len(stack) - 1 : open[k] = stack[k]
      BY <2>2, <3>1
    <3>4. DOMAIN open = 1 .. Len(stack) - 1
      BY <3>2
    <3>5. n \in 1 .. Len(heap)
      BY <2>2, <3>1
    <3> HIDE DEF open, n
    <3> QED BY <3>2, <3>3, <3>4, <3>5
  <2>4. heap[n] \in Node
    BY <2>2, <2>3
  <2>5. /\ [heap[n] EXCEPT !.end = nextLocation] \in Node
        /\ [heap[n] EXCEPT !.end = nextLocation].elems = heap[n].elems
    BY <1>1, <2>4, NodeUpdate, NextLocationType DEF Node
  <2>6. nodes = [heap EXCEPT ![n] = [heap[n] EXCEPT !.end = nextLocation]]
    OBVIOUS
  <2>7. n = stack[Len(stack)]
    OBVIOUS
  <2> HIDE DEF nodes, open, n
  <2>8. /\ nodes \in Seq(Node) /\ Len(nodes) = Len(heap) /\ DOMAIN nodes = DOMAIN heap
        /\ \A m \in DOMAIN heap : nodes[m].elems = heap[m].elems
    BY <2>2, <2>3, <2>5, <2>6
  <2>9. /\ stack' = open /\ DOMAIN heap' = DOMAIN nodes
        /\ ast' = IF to = 0 THEN Append(ast, n) ELSE ast
        /\ \A m \in DOMAIN nodes :
             heap'[m].elems = IF m = to THEN Append(nodes[m].elems, n) ELSE nodes[m].elems
    BY <2>1, <2>3, <2>8, ReturnExprSlots
  <2>10. Closed(n, open)
    BY <2>2, <2>3, <2>7, <2>8, <2>9 DEF Closed
  <2>11. Delivery(to, n, open)
    BY <2>3, <2>8, <2>9, <2>10 DEF Delivery
  <2> QED BY <1>1, <2>11, DeliveryTree
<1>6. CASE symbolLoop /\ ~UNCHANGED tree
  <2>1. returnAtom("Symbol", NoLocation)
    BY <1>6 DEF symbolLoop, tree
  <2> QED BY <1>1, <2>1, ReturnAtomTree, NoLocationType
<1>7. CASE numberLoop /\ ~UNCHANGED tree
  <2>1. returnAtom("Number", word.start) /\ word.start \in Loc
    BY <1>1, <1>7 DEF numberLoop, tree, fails, TypeOK
  <2> QED BY <1>1, <2>1, ReturnAtomTree
<1>8. CASE skipSpace \/ read \/ listLoop \/ eofInList \/ badSymbol \/ startNumber
           \/ startSymbol \/ readNumber
  <2>1. UNCHANGED tree
    BY <1>8 DEF skipSpace, read, listLoop, eofInList, badSymbol, startNumber, startSymbol,
                readNumber, fails
  <2> QED BY <2>1, TreeStays
<1> QED BY <1>2, <1>3, <1>4, <1>5, <1>6, <1>7, <1>8 DEF Step

LEMMA TreeInvariant ==
  ASSUME Foreign = {"nul"}
  PROVE  Spec => [](ExprAhead /\ Tree)
<1>1. ASSUME Init PROVE ExprAhead /\ Tree
  <2>1. heap = <<>> /\ stack = <<>> /\ ast = <<>> /\ pc = "read"
    BY <1>1 DEF Init
  <2>2. DOMAIN heap = {} /\ \A k \in DOMAIN stack : FALSE
    BY <2>1
  <2>3. Holders = {-1, 0} /\ \A m \in Holders : slots(m) = <<>>
    BY <2>1, <2>2 DEF Holders, slots
  <2>4. <<>> \in Seq(DOMAIN heap) /\ Increasing(<<>>)
    BY DEF Increasing
  <2>5. Referred /\ Sorted
    BY <2>3, <2>4 DEF Referred, Sorted
  <2>6. Single /\ Nested
    BY <2>2 DEF Single, Nested
  <2> QED BY <2>1, <2>5, <2>6 DEF Tree, ExprAhead
<1>2. ASSUME IInv, ExprAhead, Tree, [Next]_vars PROVE ExprAhead' /\ Tree'
  <2>1. CASE Step
    <3>1. after = "nul"
      BY <1>2 DEF IInv, TypeOK
    <3> QED BY <1>2, <2>1, <3>1, StepExprAhead, StepTree
  <2>2. CASE UNCHANGED vars
    <3>1. UNCHANGED <<buf, after, currentChar, pc, ret, tree>>
      BY <2>2 DEF vars, input, position
    <3>2. \A i : Mem(i)' = Mem(i)
      BY <3>1 DEF Mem
    <3>3. ExprAhead'
      BY <1>2, <3>1, <3>2 DEF ExprAhead
    <3> QED BY <1>2, <3>1, <3>3, TreeStays
  <2> QED BY <1>2, <2>1, <2>2 DEF Next, Terminated
<1> QED BY <1>1, <1>2, Invariance, PTL DEF Spec

\* In terminated buffers every node is owned exactly once, and the AST and
\* every list hold their nodes in the order of the text.
THEOREM OwnershipCorrect ==
  ASSUME Foreign = {"nul"}
  PROVE  Spec => []OwnedOnceInOrder
<1>1. ASSUME TypeOK, Tree PROVE OwnedOnceInOrder
  <2>1. /\ slots(-1) = stack /\ slots(0) = ast
        /\ \A m \in DOMAIN heap : slots(m) = heap[m].elems /\ m # 0 /\ m # -1
    BY <1>1, TreeFacts
  <2>2. Single /\ Sorted
    BY <1>1 DEF Tree
  <2>3. ASSUME NEW n \in DOMAIN heap PROVE Cardinality(Owners(n)) = 1
    <3> DEFINE A == {<<0, k>> : k \in {k \in DOMAIN ast : ast[k] = n}}
               S == {<<-1, k>> : k \in {k \in DOMAIN stack : stack[k] = n}}
               L(m) == {<<m, k>> : k \in {k \in DOMAIN heap[m].elems : heap[m].elems[k] = n}}
    <3>1. Owners(n) = A \cup S \cup UNION {L(m) : m \in DOMAIN heap}
      BY DEF Owners
    <3>2. \A o : o \in A <=> \E k : o = <<0, k>> /\ Place(0, k, n)
      BY <2>1 DEF Place, Holders
    <3>3. \A o : o \in S <=> \E k : o = <<-1, k>> /\ Place(-1, k, n)
      BY <2>1 DEF Place, Holders
    <3>4. \A m \in DOMAIN heap : \A o : o \in L(m) <=> \E k : o = <<m, k>> /\ Place(m, k, n)
      BY <2>1 DEF Place, Holders
    <3>5. PICK m, k : Place(m, k, n) /\ \A h, j : Place(h, j, n) => h = m /\ j = k
      BY <2>2 DEF Single
    <3>6. m \in {-1, 0} \cup DOMAIN heap
      BY <3>5 DEF Place, Holders
    <3> HIDE DEF A, S, L
    <3>7. <<m, k>> \in Owners(n)
      BY <3>1, <3>2, <3>3, <3>4, <3>5, <3>6
    <3>8. ASSUME NEW o \in Owners(n) PROVE o = <<m, k>>
      BY <3>1, <3>2, <3>3, <3>4, <3>5
    <3>9. Owners(n) = {<<m, k>>}
      BY <3>7, <3>8
    <3> QED BY <3>9, FS_Singleton
  <2>4. Increasing(ast) /\ \A n \in DOMAIN heap : Increasing(heap[n].elems)
    BY <2>1, <2>2 DEF Sorted, Holders
  <2> QED BY <2>3, <2>4 DEF OwnedOnceInOrder
<1> QED BY <1>1, TypeCorrect, TreeInvariant, PTL

\* From a terminated text to its AST nothing gets lost, doubled or out of
\* order, however long the text and however deep its lists.
THEOREM NothingIsLost ==
  ASSUME Foreign = {"nul"}
  PROVE  Spec => []NothingLost
<1>1. TokensComplete /\ OwnedOnceInOrder => NothingLost
  BY DEF NothingLost
<1> QED BY <1>1, TokensCorrect, OwnershipCorrect, PTL

(***************************************************************************)
(* The text as SExpr sees it.                                              *)
(***************************************************************************)

LEMMA IsMem ==
  ASSUME TypeOK, after = "nul", NEW i \in Nat \ {0}
  PROVE  /\ \A S : Promise!Is(i, S) <=> Mem(i) # "nul" /\ Mem(i) \in S
         /\ Promise!AtEnd(i) <=> Mem(i) = "nul"
         /\ Mem(i) # "nul" => i <= Len(buf)
<1>1. CASE i <= Len(buf)
  <2>1. Mem(i) = buf[i]
    BY <1>1 DEF Mem
  <2> QED BY <1>1, <2>1 DEF Promise!Is, Promise!AtEnd
<1>2. CASE ~(i <= Len(buf))
  <2>1. Mem(i) = "nul"
    BY <1>2 DEF Mem
  <2> QED BY <1>2, <2>1 DEF Promise!Is, Promise!AtEnd
<1> QED BY <1>1, <1>2

\* A maximal run is found.
LEMMA RunEndIs ==
  ASSUME TypeOK, after = "nul", NEW S, NEW i \in Nat \ {0}, NEW j \in i - 1 .. Len(buf),
         \A k \in i .. j : Mem(k) # "nul" /\ Mem(k) \in S,
         Mem(j + 1) = "nul" \/ Mem(j + 1) \notin S
  PROVE  Promise!RunEnd(i, S) = j
<1> DEFINE Ends(h) == (\A k \in i .. h : Promise!Is(k, S)) /\ ~Promise!Is(h + 1, S)
<1>1. Len(buf) \in Nat /\ j \in Int /\ j >= i - 1 /\ j <= Len(buf)
  BY BuffersAssumption DEF TypeOK
<1>2. \A k \in i .. j : k \in Nat \ {0} /\ j + 1 \in Nat \ {0}
  OBVIOUS
<1>3. Ends(j)
  <2>1. \A k \in i .. j : Promise!Is(k, S)
    BY <1>2, IsMem
  <2>2. j + 1 \in Nat \ {0}
    BY <1>1
  <2> QED BY <2>1, <2>2, IsMem
<1>4. ASSUME NEW h \in i - 1 .. Len(buf), Ends(h) PROVE h = j
  <2>1. h < j => h + 1 \in i .. j
    BY <1>1
  <2>2. j < h => j + 1 \in i .. h
    BY <1>1
  <2>3. h \in Int
    BY <1>1
  <2> QED BY <1>1, <1>3, <1>4, <2>1, <2>2, <2>3
<1>5. Promise!RunEnd(i, S) = CHOOSE h \in i - 1 .. Len(buf) : Ends(h)
  BY DEF Promise!RunEnd
<1> HIDE DEF Ends
<1> QED BY <1>3, <1>4, <1>5

\* nextChar(true), from anywhere.
NextFrom(p) ==
  CHOOSE i \in p + 1 .. Len(buf) + 2 :
    Mem(i) \notin Space /\ \A j \in p + 1 .. i - 1 : Mem(j) \in Space

LEMMA NextFromFacts ==
  ASSUME TypeOK, after = "nul", NEW p \in Nat, p <= Len(buf)
  PROVE  /\ NextFrom(p) \in p + 1 .. Len(buf) + 1
         /\ Mem(NextFrom(p)) \notin Space
         /\ \A j \in p + 1 .. NextFrom(p) - 1 : Mem(j) \in Space
<1> DEFINE n == Len(buf) + 1
           T == {i \in p + 1 .. n : Mem(i) \notin Space}
           Is(i) == Mem(i) \notin Space /\ \A j \in p + 1 .. i - 1 : Mem(j) \in Space
<1>1. n \in Nat \ {0} /\ p + 1 <= n /\ Len(buf) \in Nat
  BY BuffersAssumption DEF TypeOK
<1>2. n \in T
  <2>1. Mem(n) = "nul"
    BY <1>1, MemFacts
  <2> QED BY <1>1, <2>1 DEF Space
<1>3. T \in SUBSET Nat /\ T # {}
  BY <1>1, <1>2
<1>4. PICK i \in T : \A y \in T : i <= y
  <2> HIDE DEF T
  <2> QED BY <1>3, LeastElement
<1>5. i \in p + 1 .. n /\ Is(i)
  BY <1>1, <1>4
<1>6. i \in p + 1 .. Len(buf) + 2
  BY <1>1, <1>5
<1>7. ASSUME NEW h \in p + 1 .. Len(buf) + 2, Is(h) PROVE h = i
  BY <1>1, <1>5, <1>7
<1>8. NextFrom(p) = CHOOSE h \in p + 1 .. Len(buf) + 2 : Is(h)
  BY DEF NextFrom
<1> HIDE DEF Is
<1>9. NextFrom(p) = i
  BY <1>5, <1>6, <1>7, <1>8
<1> QED BY <1>5, <1>9 DEF Is

LEMMA NextFromSteps ==
  ASSUME TypeOK, after = "nul", NEW p \in Nat, p <= Len(buf)
  PROVE  /\ Mem(p + 1) \in Space => p + 1 <= Len(buf) /\ NextFrom(p + 1) = NextFrom(p)
         /\ Mem(p + 1) \notin Space => NextFrom(p) = p + 1
<1> DEFINE m == NextFrom(p)
<1>1. /\ m \in p + 1 .. Len(buf) + 1 /\ Mem(m) \notin Space /\ Len(buf) \in Nat
      /\ \A j \in p + 1 .. m - 1 : Mem(j) \in Space
  BY NextFromFacts, BuffersAssumption DEF TypeOK
<1>2. ASSUME Mem(p + 1) \notin Space PROVE m = p + 1
  BY <1>1, <1>2
<1>3. ASSUME Mem(p + 1) \in Space PROVE p + 1 <= Len(buf) /\ NextFrom(p + 1) = m
  <2> DEFINE l == NextFrom(p + 1)
  <2>1. Mem(p + 1) # "nul"
    BY <1>3 DEF Space
  <2>2. p + 1 <= Len(buf)
    BY <2>1, IsMem
  <2>3. p + 1 \in Nat
    OBVIOUS
  <2>4. /\ l \in p + 2 .. Len(buf) + 1 /\ Mem(l) \notin Space
        /\ \A j \in p + 2 .. l - 1 : Mem(j) \in Space
    <3> HIDE DEF m
    <3> DEFINE q == p + 1
    <3>1. q \in Nat /\ q <= Len(buf) /\ l = NextFrom(q)
      BY <2>2
    <3>2. q + 1 = p + 2
      OBVIOUS
    <3> HIDE DEF q, l
    <3> QED BY <3>1, <3>2, NextFromFacts
  <2>5. m # p + 1
    BY <1>1, <1>3
  <2> HIDE DEF m, l
  <2>6. m \in Int /\ l \in Int
    BY <1>1, <2>4
  <2>7. ~(l < m)
    <3>1. l < m => l \in p + 1 .. m - 1
      BY <1>1, <2>4
    <3> QED BY <1>1, <2>4, <3>1
  <2>8. ~(m < l)
    <3>1. m < l => m \in p + 2 .. l - 1
      BY <1>1, <2>4, <2>5
    <3> QED BY <1>1, <2>4, <3>1
  <2> QED BY <2>2, <2>6, <2>7, <2>8 DEF l
<1> QED BY <1>2, <1>3

\* The spaces behind a place are those that SExpr takes with it.
LEMMA PastIs ==
  ASSUME TypeOK, after = "nul", NEW p \in Nat, p <= Len(buf)
  PROVE  Promise!past(p) = NextFrom(p) - 1
<1> DEFINE j == NextFrom(p) - 1
<1>1. /\ NextFrom(p) \in p + 1 .. Len(buf) + 1 /\ Mem(NextFrom(p)) \notin Space /\ Len(buf) \in Nat
      /\ \A k \in p + 1 .. NextFrom(p) - 1 : Mem(k) \in Space
  BY NextFromFacts, BuffersAssumption DEF TypeOK
<1>2. j \in p .. Len(buf) /\ j + 1 = NextFrom(p)
  BY <1>1
<1>3. \A k \in p + 1 .. j : Mem(k) # "nul" /\ Mem(k) \in Space
  BY <1>1 DEF Space
<1>4. p + 1 \in Nat \ {0} /\ j \in (p + 1) - 1 .. Len(buf)
  BY <1>2
<1> HIDE DEF j
<1>5. Promise!RunEnd(p + 1, Space) = j
  <2> DEFINE q == p + 1
  <2>1. q \in Nat \ {0} /\ j \in q - 1 .. Len(buf) /\ \A k \in q .. j : Mem(k) # "nul" /\ Mem(k) \in Space
    BY <1>3, <1>4
  <2>2. Mem(j + 1) \notin Space
    BY <1>1, <1>2
  <2> HIDE DEF q
  <2>3. Promise!RunEnd(q, Space) = j
    BY <2>1, <2>2, RunEndIs
  <2> QED BY <2>3 DEF q
<1> QED BY <1>5 DEF Promise!past, j

\* What a look-ahead finds, before and after a step.
LEMMA LookAhead ==
  ASSUME TypeOK, after = "nul", Position, pc # "done", [Next]_vars
  PROVE  /\ nextNonSpace = NextFrom(currentChar)
         /\ nextNonSpace' = NextFrom(currentChar')
         /\ currentChar \in Nat /\ currentChar <= Len(buf)
         /\ \A i \in Nat \ {0} : isEndOfBuffer(i) /\ i > currentChar => Mem(i) = "nul"
         /\ \A i : Mem(i) = "nul" => isEndOfBuffer(i)
<1>1. buf' = buf /\ after' = after /\ \A i : Mem(i)' = Mem(i)
  BY InputFixed
<1>2. currentChar \in Nat /\ currentChar <= Len(buf) /\ currentPos = currentChar + 1 /\ Len(buf) \in Nat
  BY BuffersAssumption DEF TypeOK, Position
<1>3. ASSUME NEW i \in Nat \ {0}, isEndOfBuffer(i), i > currentChar PROVE Mem(i) = "nul"
  BY <1>2, <1>3, MemFacts DEF isEndOfBuffer
<1> QED BY <1>1, <1>2, <1>3 DEF NextFrom, nextNonSpace, isEndOfBuffer

(***************************************************************************)
(* What is ahead when a function is called, and on the way to it over the  *)
(* spaces.                                                                 *)
(***************************************************************************)
Upcoming ==
  LET at(f) == pc = f \/ (pc = "skip" /\ ret = f)
      next  == Mem(nextNonSpace)
  IN pc # "done" =>
     /\ at("readExpr") => next # "nul" /\ (stack # <<>> => next # ")")
     /\ at("readList") => next = "("
     /\ at("readSymbol") => next \notin {"nul", "("} /\ (stack # <<>> => next # ")")
     /\ at("close") => next = ")"
     /\ at("eof") => next = "nul"
     /\ pc = "read" => stack = <<>>
     /\ pc \in {"readExpr", "readList", "readSymbol", "close", "eof"} =>
          nextNonSpace = currentChar + 1

LEMMA StepUpcoming ==
  ASSUME IInv, after = "nul", Upcoming, Step
  PROVE  Upcoming'
<1> DEFINE c == currentChar + 1
<1>1. CASE pc' = "done"
  BY <1>1 DEF Upcoming
<1>2. CASE pc' # "done"
  <2>1. pc # "done"
    BY DEF Step, skipSpace, read, readExpr, readList, listLoop, closeList, eofInList, badSymbol,
           startNumber, startSymbol, symbolLoop, readNumber, numberLoop
  <2>2. TypeOK /\ Position /\ Control /\ [Next]_vars /\ nextChar(1) = c
    BY DEF IInv, Next, nextChar
  <2>3. /\ nextNonSpace = NextFrom(currentChar)
        /\ nextNonSpace' = NextFrom(currentChar')
        /\ currentChar \in Nat /\ currentChar <= Len(buf)
        /\ \A i \in Nat \ {0} : isEndOfBuffer(i) /\ i > currentChar => Mem(i) = "nul"
        /\ \A i : Mem(i) = "nul" => isEndOfBuffer(i)
    BY <2>1, <2>2, LookAhead
  <2>4. nextNonSpace \in Nat \ {0} /\ nextNonSpace > currentChar /\ Mem(nextNonSpace)' = Mem(nextNonSpace')
    <3>1. NextFrom(currentChar) \in c .. Len(buf) + 1
      BY <2>2, <2>3, NextFromFacts
    <3>2. \A i : Mem(i)' = Mem(i)
      BY <2>2, InputFixed
    <3>3. Mem(nextNonSpace)' = Mem(nextNonSpace')
      BY <2>2, InputFixed DEF Mem
    <3> QED BY <2>3, <3>1, <3>3
  <2>5. isEndOfBuffer(nextNonSpace) <=> Mem(nextNonSpace) = "nul"
    BY <2>3, <2>4
  <2>6. currentChar' = currentChar => nextNonSpace' = nextNonSpace
    BY <2>3
  <2>7. CASE skipSpace
    <3>1. pc = "skip" /\ UNCHANGED <<ret, stack>>
      BY <2>7 DEF skipSpace, tree
    <3>2. CASE Mem(c) \in Space
      <4>1. currentChar' = c /\ pc' = pc
        BY <2>2, <2>7, <3>2 DEF skipSpace, advanceByOne
      <4>2. nextNonSpace' = nextNonSpace
        BY <2>2, <2>3, <3>2, <4>1, NextFromSteps
      <4> QED BY <2>4, <3>1, <4>1, <4>2 DEF Upcoming
    <3>3. CASE Mem(c) \notin Space
      <4>1. currentChar' = currentChar /\ pc' = ret
        BY <2>2, <2>7, <3>3 DEF skipSpace, position
      <4>2. nextNonSpace = c /\ nextNonSpace' = nextNonSpace
        BY <2>2, <2>3, <3>3, <4>1, NextFromSteps
      <4>3. ret \in {"readExpr", "readList", "close", "eof", "readSymbol"}
        BY <2>2, <3>1 DEF Control
      <4> QED BY <2>4, <3>1, <4>1, <4>2, <4>3 DEF Upcoming
    <3> QED BY <3>2, <3>3
  <2>8. CASE read \/ readExpr \/ listLoop
    <3>1. currentChar' = currentChar /\ nextNonSpace' = nextNonSpace
      BY <2>6, <2>8 DEF read, readExpr, listLoop, position
    <3>2. /\ pc = "read" => stack = <<>>
          /\ pc = "readExpr" => ~isEndOfBuffer(nextNonSpace)
          /\ pc = "readExpr" /\ stack # <<>> => Mem(nextNonSpace) # ")"
      BY <2>1, <2>5 DEF Upcoming
    <3>3. /\ pc' = "skip" /\ stack' = stack
          /\ \/ /\ ret' = "readExpr" /\ ~isEndOfBuffer(nextNonSpace)
                /\ stack # <<>> => Mem(nextNonSpace) # ")"
             \/ ret' = "readList" /\ Mem(nextNonSpace) = "("
             \/ /\ ret' = "readSymbol" /\ ~isEndOfBuffer(nextNonSpace) /\ Mem(nextNonSpace) # "("
                /\ stack # <<>> => Mem(nextNonSpace) # ")"
             \/ ret' = "close" /\ Mem(nextNonSpace) = ")"
             \/ ret' = "eof" /\ isEndOfBuffer(nextNonSpace)
      <4>1. CASE read
        BY <1>2, <3>2, <4>1 DEF read, returns, skipThen, tree
      <4>2. CASE readExpr
        BY <3>2, <4>2 DEF readExpr, skipThen, tree
      <4>3. CASE listLoop
        BY <4>3 DEF listLoop, skipThen, tree
      <4> QED BY <2>8, <4>1, <4>2, <4>3
    <3> QED BY <2>4, <2>5, <3>1, <3>3 DEF Upcoming
  <2>9. ASSUME NEW nodes, NEW open, NEW n, returnExpr(nodes, open, n) PROVE Upcoming'
    BY <2>9 DEF returnExpr, Upcoming
  <2>10. CASE closeList \/ symbolLoop \/ numberLoop
    <3>1. (\E nodes, open, n : returnExpr(nodes, open, n)) \/ pc' \in {"symbol", "number"}
      <4>1. CASE closeList
        BY <4>1 DEF closeList
      <4>2. CASE symbolLoop
        BY <4>2 DEF symbolLoop, returnAtom
      <4>3. CASE numberLoop
        BY <1>2, <4>3 DEF numberLoop, returnAtom, fails, returns
      <4> QED BY <2>10, <4>1, <4>2, <4>3
    <3> QED BY <2>9, <3>1 DEF Upcoming
  <2>11. CASE readList \/ eofInList \/ badSymbol \/ startNumber \/ startSymbol \/ readNumber
    <3>1. pc' \in {"list", "readNumber", "symbol", "number"}
      BY <1>2, <2>11 DEF readList, eofInList, badSymbol, startNumber, startSymbol, readNumber,
                         fails, returns
    <3> QED BY <3>1 DEF Upcoming
  <2> QED BY <2>7, <2>8, <2>10, <2>11 DEF Step
<1> QED BY <1>1, <1>2

(***************************************************************************)
(* What the token being read is, up to a place n.                          *)
(***************************************************************************)
Run(t, n) == t # <<>> /\ t[1] \in 1 .. n /\ t[Len(t)] = n

SymbolRun(t, n) ==
  /\ Run(t, n)
  /\ \A i \in t[1] .. n : Mem(i) \in Identifier
  /\ Mem(t[1]) # "digit" /\ (Mem(t[1]) = "minus" => Mem(t[1] + 1) # "digit")

\* Where the digits of a number begin.
Digits(w) == IF w.neg THEN w.text[1] + 1 ELSE w.text[1]

NumberRun(w, n) ==
  /\ Run(w.text, n)
  /\ w.neg => Mem(w.text[1]) = "minus"
  /\ Digits(w) \in 1 .. n /\ Mem(Digits(w)) = "digit"
  /\ \A i \in Digits(w) .. n : Mem(i) \in {"digit", "dot"}
  /\ w.float <=> \E i \in Digits(w) .. n : Mem(i) = "dot"
  /\ \A i, j \in Digits(w) .. n : Mem(i) = "dot" /\ Mem(j) = "dot" => i = j

Scan ==
  /\ pc = "symbol" => SymbolRun(word.text, currentChar)
  /\ pc = "number" => NumberRun(word, currentChar)
  /\ pc = "readNumber" =>
       /\ word.float = FALSE
       /\ IF word.neg THEN word.text = <<currentChar>> /\ Mem(currentChar) = "minus"
                           /\ currentChar >= 1
                      ELSE word.text = <<>>

LEMMA RunGrows ==
  ASSUME NEW t \in Seq(Nat), NEW n \in Nat, Run(t, n) \/ t = <<>>
  PROVE  /\ Run(Append(t, n + 1), n + 1)
         /\ Append(t, n + 1)[1] = IF t = <<>> THEN n + 1 ELSE t[1]
<1> DEFINE u == Append(t, n + 1)
<1>1. /\ Len(u) = Len(t) + 1 /\ Len(t) \in Nat /\ u \in Seq(Nat) /\ u[Len(t) + 1] = n + 1
      /\ \A k \in 1 .. Len(t) : u[k] = t[k]
  OBVIOUS
<1>2. t # <<>> <=> Len(t) # 0
  OBVIOUS
<1>3. u # <<>>
  OBVIOUS
<1> HIDE DEF u
<1>4. t # <<>> => 1 \in 1 .. Len(t)
  BY <1>1, <1>2
<1>5. u[1] = IF t = <<>> THEN n + 1 ELSE t[1]
  BY <1>1, <1>2, <1>4
<1>6. u[1] \in 1 .. n + 1
  BY <1>5 DEF Run
<1> QED BY <1>1, <1>3, <1>5, <1>6 DEF Run

LEMMA StepScan ==
  ASSUME IInv, Scan, Step
  PROVE  Scan'
<1> DEFINE c == currentChar + 1
<1>1. /\ word \in Word /\ word.text \in Seq(Nat) /\ currentChar \in Nat /\ nextChar(1) = c
      /\ word.float \in BOOLEAN
  BY DEF IInv, TypeOK, Word, nextChar
<1>2. \A i : Mem(i)' = Mem(i)
  BY InputFixed DEF Next
<1>3. SymbolRun(word'.text, currentChar') => SymbolRun(word.text, currentChar)'
  BY <1>2 DEF SymbolRun, Run
<1>4. NumberRun(word', currentChar') => NumberRun(word, currentChar)'
  BY <1>2 DEF NumberRun, Run, Digits
<1>5. CASE skipSpace \/ read \/ readExpr \/ readList \/ listLoop \/ closeList \/ eofInList \/ badSymbol
  <2>1. pc' \notin {"symbol", "number", "readNumber"}
    <3>1. CASE skipSpace
      BY <3>1 DEF skipSpace, IInv, Control
    <3>2. CASE ~skipSpace
      BY <1>5, <3>2 DEF read, readExpr, readList, listLoop, closeList, eofInList, badSymbol,
           returns, skipThen, fails, returnExpr
    <3> QED BY <3>1, <3>2
  <2> QED BY <2>1 DEF Scan
<1>6. CASE startNumber
  <2>1. pc' = "readNumber" /\ NoWord.float = FALSE
    BY <1>6 DEF startNumber, NoWord
  <2>2. CASE Mem(c) = "minus" /\ Mem(nextChar(2)) = "digit"
    <3>1. word'.text = <<c>> /\ word'.neg = TRUE /\ word'.float = FALSE /\ currentChar' = c
      BY <1>1, <1>6, <2>2 DEF startNumber, NoWord, advanceByOne
    <3>2. Mem(currentChar)' = Mem(c)
      BY <1>2, <3>1 DEF Mem
    <3> QED BY <1>1, <2>1, <2>2, <3>1, <3>2 DEF Scan
  <2>3. CASE ~(Mem(c) = "minus" /\ Mem(nextChar(2)) = "digit")
    <3>1. word'.text = <<>> /\ word'.neg = FALSE /\ word'.float = FALSE
      BY <1>1, <1>6, <2>3 DEF startNumber, NoWord
    <3> QED BY <2>1, <3>1 DEF Scan
  <2> QED BY <2>2, <2>3
<1>7. CASE startSymbol
  <2>1. /\ pc' = "symbol" /\ word'.text = <<c>> /\ currentChar' = c
        /\ Mem(c) \in Identifier /\ Mem(c) # "digit" /\ ~(Mem(c) = "minus" /\ Mem(c + 1) = "digit")
    <3>1. nextChar(2) = c + 1
      BY <1>1 DEF nextChar
    <3> QED BY <1>1, <1>7, <3>1 DEF startSymbol, NoWord, advanceByOne, isValidForIdentifier
  <2>2. <<c>> # <<>> /\ <<c>>[1] = c /\ Len(<<c>>) = 1 /\ c \in 1 .. c
    BY <1>1
  <2>3. \A i \in c .. c : i = c
    BY <1>1
  <2> HIDE DEF c
  <2>4. SymbolRun(<<c>>, c)
    BY <2>1, <2>2, <2>3 DEF SymbolRun, Run
  <2> QED BY <1>3, <2>1, <2>4 DEF Scan
<1>8. CASE symbolLoop
  <2>1. pc = "symbol" /\ SymbolRun(word.text, currentChar)
    BY <1>8 DEF symbolLoop, Scan
  <2>2. CASE returnAtom("Symbol", NoLocation)
    BY <2>2 DEF returnAtom, returnExpr, Scan
  <2>3. CASE ~returnAtom("Symbol", NoLocation)
    <3>1. /\ pc' = "symbol" /\ currentChar' = c /\ Mem(c) \in Identifier
          /\ word' = [word EXCEPT !.text = Append(@, c)]
      BY <1>1, <1>8, <2>1, <2>3 DEF symbolLoop, advanceByOne, isValidForIdentifier
    <3>2. word'.text = Append(word.text, c)
      BY <1>1, <3>1 DEF Word
    <3>3. Run(word'.text, c) /\ word'.text[1] = word.text[1]
      BY <1>1, <2>1, <3>2, RunGrows DEF SymbolRun, Run
    <3>4. word.text[1] \in 1 .. currentChar
      BY <2>1 DEF SymbolRun, Run
    <3>5. \A i \in word.text[1] .. c : i \in word.text[1] .. currentChar \/ i = c
      BY <1>1, <3>4
    <3> HIDE DEF c
    <3>6. SymbolRun(word'.text, c)
      BY <2>1, <3>1, <3>3, <3>5 DEF SymbolRun
    <3> QED BY <1>3, <3>1, <3>6 DEF Scan
  <2> QED BY <2>2, <2>3
<1>9. CASE readNumber
  <2>1. pc = "readNumber" /\ Mem(c) = "digit" /\ currentChar' = c
    BY <1>1, <1>9 DEF readNumber, IInv, Ahead, advanceByOne
  <2>2. /\ pc' = "number" /\ word'.text = Append(word.text, c) /\ word'.neg = word.neg
        /\ word'.float = word.float
    BY <1>1, <1>9, <2>1 DEF readNumber, Word
  <2>3. /\ word.float = FALSE
        /\ word.neg => word.text = <<currentChar>> /\ Mem(currentChar) = "minus" /\ currentChar >= 1
        /\ ~word.neg => word.text = <<>>
    BY <2>1 DEF Scan
  <2>4. Run(word.text, currentChar) \/ word.text = <<>>
    <3>1. <<currentChar>> # <<>> /\ <<currentChar>>[1] = currentChar /\ Len(<<currentChar>>) = 1
      BY <1>1
    <3> QED BY <1>1, <2>3, <3>1 DEF Run
  <2>5. /\ Run(word'.text, c)
        /\ word'.text[1] = IF word.text = <<>> THEN c ELSE word.text[1]
    BY <1>1, <2>2, <2>4, RunGrows
  <2>6. Digits(word') = c /\ (word.neg => word'.text[1] = currentChar)
    <3>1. CASE word.neg
      <4>1. word.text = <<currentChar>>
        BY <2>3, <3>1
      <4>2. <<currentChar>> # <<>> /\ <<currentChar>>[1] = currentChar
        BY <1>1
      <4>3. word'.text[1] = currentChar
        BY <2>5, <4>1, <4>2
      <4> QED BY <2>2, <3>1, <4>3 DEF Digits
    <3>2. CASE ~word.neg
      BY <2>2, <2>3, <2>5, <3>2 DEF Digits
    <3> QED BY <3>1, <3>2
  <2>7. \A i \in c .. c : i = c /\ c \in 1 .. c /\ c \in c .. c
    BY <1>1
  <2>8. c \in 1 .. c
    BY <1>1
  <2> HIDE DEF c
  <2>9. NumberRun(word', c)
    BY <2>1, <2>2, <2>3, <2>5, <2>6, <2>7, <2>8 DEF NumberRun
  <2> QED BY <1>4, <2>1, <2>2, <2>9 DEF Scan
<1>10. CASE numberLoop
  <2>1. pc = "number" /\ NumberRun(word, currentChar)
    BY <1>10 DEF numberLoop, Scan
  <2>2. CASE pc' # "number"
    <3>1. pc' \in {"done", "read", "list"}
      BY <1>10, <2>1, <2>2 DEF numberLoop, fails, returns, returnAtom, returnExpr
    <3> QED BY <3>1 DEF Scan
  <2>3. CASE pc' = "number"
    <3>1. /\ currentChar' = c
          /\ Mem(c) = "digit" \/ (Mem(c) = "dot" /\ ~word.float)
          /\ word' = [word EXCEPT !.text = Append(@, c), !.float = @ \/ Mem(c) = "dot"]
      BY <1>1, <1>10, <2>3 DEF numberLoop, fails, returns, returnAtom, returnExpr, advanceByOne
    <3>2. /\ word'.text = Append(word.text, c) /\ word'.neg = word.neg
          /\ word'.float = (word.float \/ Mem(c) = "dot")
      BY <1>1, <3>1 DEF Word
    <3>3. Run(word'.text, c) /\ word'.text[1] = word.text[1]
      BY <1>1, <2>1, <3>2, RunGrows DEF NumberRun, Run
    <3>4. Digits(word') = Digits(word)
      BY <3>2, <3>3 DEF Digits
    <3>5. Digits(word) \in 1 .. currentChar /\ Digits(word) \in 1 .. c
      <4>1. Digits(word) \in 1 .. currentChar
        BY <2>1 DEF NumberRun
      <4> QED BY <1>1, <4>1
    <3>6. /\ \A i \in Digits(word) .. c : i \in Digits(word) .. currentChar \/ i = c
          /\ c \in Digits(word) .. c
          /\ \A i \in Digits(word) .. currentChar : i \in Digits(word) .. c
      BY <1>1, <3>5
    <3> HIDE DEF c
    <3>7. \A i \in Digits(word) .. c : Mem(i) \in {"digit", "dot"}
      BY <2>1, <3>1, <3>6 DEF NumberRun
    <3>8. word'.float <=> \E i \in Digits(word) .. c : Mem(i) = "dot"
      BY <2>1, <3>2, <3>6 DEF NumberRun
    <3>9. \A i, j \in Digits(word) .. c : Mem(i) = "dot" /\ Mem(j) = "dot" => i = j
      BY <2>1, <3>1, <3>6 DEF NumberRun
    <3>10. NumberRun(word', c)
      BY <2>1, <3>2, <3>3, <3>4, <3>5, <3>7, <3>8, <3>9 DEF NumberRun
    <3> QED BY <1>4, <2>3, <3>1, <3>10 DEF Scan
  <2> QED BY <2>2, <2>3
<1> QED BY <1>5, <1>6, <1>7, <1>8, <1>9, <1>10 DEF Step

\* read() has no result before it returns.
Waiting == pc # "done" => result.status = "pending"

Guided == Upcoming /\ Scan /\ Waiting

LEMMA GuidedInvariant ==
  ASSUME Foreign = {"nul"}
  PROVE  Spec => []Guided
<1>1. ASSUME Init PROVE Guided
  BY <1>1 DEF Init, Guided, Upcoming, Scan, Waiting, Pending
<1>2. ASSUME IInv, Guided, [Next]_vars PROVE Guided'
  <2>1. after = "nul" /\ Upcoming /\ Scan /\ Waiting /\ TypeOK /\ Position
    BY <1>2 DEF IInv, TypeOK, Guided
  <2>2. CASE Step
    <3>1. pc # "done"
      BY <2>2 DEF Step, skipSpace, read, readExpr, readList, listLoop, closeList, eofInList, badSymbol,
             startNumber, startSymbol, symbolLoop, readNumber, numberLoop
    <3>2. pc' = "done" \/ result' = result
      <4>1. CASE numberLoop
        BY <4>1 DEF numberLoop, fails, returns, returnAtom
      <4>2. CASE readExpr
        BY <4>2 DEF readExpr, returns
      <4>3. CASE ~numberLoop /\ ~readExpr
        BY <2>2, <4>3 DEF Step, skipSpace, read, readList, listLoop, closeList, eofInList,
               badSymbol, startNumber, startSymbol, symbolLoop, readNumber, fails, returns, returnAtom
      <4> QED BY <4>1, <4>2, <4>3
    <3>3. Waiting'
      BY <2>1, <3>1, <3>2 DEF Waiting
    <3> QED BY <1>2, <2>1, <2>2, <3>3, StepUpcoming, StepScan DEF Guided
  <2>3. CASE UNCHANGED vars
    <3>1. UNCHANGED <<buf, after, currentChar, pc, ret, stack, word, result>>
      BY <2>3 DEF vars, input, position, tree
    <3>2. Waiting'
      BY <2>1, <3>1 DEF Waiting
    <3>3. \A i : Mem(i)' = Mem(i)
      BY <3>1 DEF Mem
    <3>4. Scan'
      <4>1. SymbolRun(word.text, currentChar)' <=> SymbolRun(word.text, currentChar)
        BY <3>1, <3>3 DEF SymbolRun, Run
      <4>2. NumberRun(word, currentChar)' <=> NumberRun(word, currentChar)
        BY <3>1, <3>3 DEF NumberRun, Run, Digits
      <4>3. Mem(currentChar)' = Mem(currentChar)
        BY <3>1 DEF Mem
      <4> QED BY <2>1, <3>1, <4>1, <4>2, <4>3 DEF Scan
    <3>5. Upcoming'
      <4>1. CASE pc = "done"
        BY <3>1, <4>1 DEF Upcoming
      <4>2. CASE pc # "done"
        <5>1. nextNonSpace' = nextNonSpace
          BY <1>2, <2>1, <3>1, <4>2, LookAhead
        <5>2. Mem(nextNonSpace)' = Mem(nextNonSpace)
          BY <3>1, <5>1 DEF Mem
        <5> QED BY <2>1, <3>1, <5>1, <5>2 DEF Upcoming
      <4> QED BY <4>1, <4>2
    <3> QED BY <3>2, <3>4, <3>5 DEF Guided
  <2> QED BY <1>2, <2>2, <2>3 DEF Next, Terminated
<1> QED BY <1>1, <1>2, Invariance, PTL DEF Spec

(***************************************************************************)
(* Who has a node, in terms of its place.                                  *)
(***************************************************************************)
Keeper(m, k) == IF m # -1 THEN m ELSE IF k = 1 THEN 0 ELSE stack[k - 1]

Parents ==
  \A n \in DOMAIN heap : \A m, k : Place(m, k, n) => ownerOf(n) = Keeper(m, k)

LEMMA ParentsHold ==
  ASSUME TypeOK, Tree
  PROVE  Parents
<1> SUFFICES ASSUME NEW n \in DOMAIN heap, NEW m, NEW k, Place(m, k, n)
             PROVE  ownerOf(n) = Keeper(m, k)
  BY DEF Parents
<1> DEFINE lists == {h \in DOMAIN heap : \E j \in DOMAIN heap[h].elems : heap[h].elems[j] = n}
           place == {j \in DOMAIN stack : stack[j] = n}
<1>1. \A h, j : Place(h, j, n) => h = m /\ j = k
  BY DEF Tree, Single
<1>2. /\ \A h \in DOMAIN heap : h # 0 /\ h # -1 /\ slots(h) = heap[h].elems
      /\ slots(-1) = stack /\ slots(0) = ast
      /\ DOMAIN stack = 1 .. Len(stack) /\ Len(stack) \in Nat
  BY TreeFacts
<1>3. m \in {-1, 0} \cup DOMAIN heap
  BY DEF Place, Holders
<1>4. \A h \in lists : h = m
  BY <1>1, <1>2 DEF Place, Holders
<1>5. \A j \in place : m = -1 /\ j = k
  BY <1>1, <1>2 DEF Place, Holders
<1>6. ownerOf(n) = IF lists # {} THEN CHOOSE h \in lists : TRUE
                   ELSE IF place = {} \/ place = {1} THEN 0
                   ELSE stack[(CHOOSE j \in place : TRUE) - 1]
  BY DEF ownerOf
<1>7. CASE m \in DOMAIN heap
  <2>1. m \in lists
    BY <1>2, <1>7 DEF Place
  <2> HIDE DEF lists
  <2>2. (CHOOSE h \in lists : TRUE) = m
    BY <1>4, <2>1
  <2> QED BY <1>2, <1>6, <1>7, <2>1, <2>2 DEF Keeper
<1>8. CASE m = 0
  <2>1. lists = {}
    BY <1>2, <1>4, <1>8
  <2>2. place = {}
    BY <1>5, <1>8
  <2> HIDE DEF lists, place
  <2> QED BY <1>6, <1>8, <2>1, <2>2 DEF Keeper
<1>9. CASE m = -1
  <2>1. lists = {}
    BY <1>2, <1>4, <1>9
  <2>2. place = {k}
    BY <1>2, <1>5, <1>9 DEF Place
  <2> HIDE DEF lists, place
  <2>3. (CHOOSE j \in place : TRUE) = k /\ place # {}
    BY <2>2
  <2>4. place = {1} <=> k = 1
    BY <2>2
  <2> QED BY <1>6, <1>9, <2>1, <2>3, <2>4 DEF Keeper
<1> QED BY <1>3, <1>7, <1>8, <1>9

\* A delivery changes no node's parent.
LEMMA DeliveryKeeps ==
  ASSUME TypeOK, Tree, Parents, Parents', NEW to, NEW n, NEW open, Delivery(to, n, open)
  PROVE  /\ \A p \in DOMAIN heap : ownerOf(p)' = ownerOf(p)
         /\ NewAtom(n, open) => ownerOf(n)' = to
<1> DEFINE last == Len(slots(to)) + 1
<1>1. /\ n \in Nat /\ n # 0 /\ n # -1 /\ DOMAIN heap' = DOMAIN heap \cup {n}
      /\ to \in {0} \cup DOMAIN heap /\ to # n
      /\ \A k \in DOMAIN open : k \in DOMAIN stack /\ open[k] = stack[k]
      /\ to = (IF open = <<>> THEN 0 ELSE open[Len(open)]) /\ stack' = open
      /\ NewAtom(n, open) \/ Closed(n, open)
  <2>1. /\ to = (IF open = <<>> THEN 0 ELSE open[Len(open)]) /\ stack' = open
        /\ NewAtom(n, open) \/ Closed(n, open)
    BY DEF Delivery
  <2>2. /\ n \in Nat /\ n # 0 /\ n # -1 /\ DOMAIN heap' = DOMAIN heap \cup {n}
        /\ to \in {0} \cup DOMAIN heap /\ to # n
        /\ \A k \in DOMAIN open : k \in DOMAIN stack /\ open[k] = stack[k]
    BY DeliveryFacts
  <2> QED BY <2>1, <2>2
<1>2. /\ Holders' = Holders \cup {n} /\ slots(-1)' = open
      /\ slots(to)' = Append(slots(to), n)
      /\ \A m \in {0} \cup DOMAIN heap : m # to => slots(m)' = slots(m)
  BY DeliverySlots
<1>3. slots(to) \in Seq(Nat) /\ \A m \in {0} \cup DOMAIN heap : m # -1
  BY <1>1, TreeFacts
<1>4. /\ DOMAIN slots(to)' = DOMAIN slots(to) \cup {last} /\ slots(to)'[last] = n
      /\ \A k \in DOMAIN slots(to) : slots(to)'[k] = slots(to)[k]
  <2> DEFINE s == slots(to)
  <2>1. s \in Seq(Nat) /\ n \in Nat /\ last = Len(s) + 1 /\ slots(to)' = Append(s, n)
    BY <1>1, <1>2, <1>3
  <2> HIDE DEF last, s
  <2>2. /\ DOMAIN Append(s, n) = DOMAIN s \cup {last} /\ Append(s, n)[last] = n
        /\ \A k \in DOMAIN s : Append(s, n)[k] = s[k]
    BY <2>1, AppendFacts
  <2> QED BY <2>1, <2>2, Zenon DEF s
<1> HIDE DEF last
<1>5. \A m, k, p : Place(m, k, p)' <=> m \in Holders' /\ k \in DOMAIN slots(m)' /\ slots(m)'[k] = p
  BY DEF Place
<1>6. \A m, k, p : Keeper(m, k)' = IF m # -1 THEN m ELSE IF k = 1 THEN 0 ELSE open[k - 1]
  BY <1>1 DEF Keeper
<1>7. \A p \in DOMAIN heap' : \A m, k : Place(m, k, p)' => ownerOf(p)' = Keeper(m, k)'
  BY DEF Parents
<1>8. Holders = {-1, 0} \cup DOMAIN heap /\ slots(-1) = stack
  BY TreeFacts DEF Holders
<1>9. ownerOf(n)' = to
  <2>1. PICK k : k = last
    OBVIOUS
  <2>2. Place(to, k, n)'
    <3>1. to \in Holders' /\ k \in DOMAIN slots(to)' /\ slots(to)'[k] = n
      BY <1>1, <1>2, <1>4, <1>8, <2>1
    <3> QED BY <1>5, <3>1, Zenon
  <2>3. n \in DOMAIN heap'
    BY <1>1
  <2>4. ownerOf(n)' = Keeper(to, k)'
    BY <1>7, <2>2, <2>3
  <2> QED BY <1>1, <1>3, <1>6, <2>4
<1>10. Len(stack) \in Nat /\ DOMAIN stack = 1 .. Len(stack) /\ open \in Seq(1 .. Len(heap))
       /\ Len(open) \in Nat /\ DOMAIN open = 1 .. Len(open)
  <2>1. open \in Seq(1 .. Len(heap))
    BY DEF Delivery
  <2> QED BY <2>1, TreeFacts
<1>11. ASSUME NEW p \in DOMAIN heap, ~(p = n /\ Closed(n, open)) PROVE ownerOf(p)' = ownerOf(p)
  <2>1. PICK m, k : Place(m, k, p)
    BY DEF Tree, Single
  <2>2. ownerOf(p) = Keeper(m, k) /\ m \in Holders /\ k \in DOMAIN slots(m) /\ slots(m)[k] = p
    BY <2>1 DEF Parents, Place
  <2>3. CASE m # -1
    <3>1. Place(m, k, p)'
      BY <1>2, <1>4, <1>5, <1>8, <2>2, <2>3
    <3>2. ownerOf(p)' = m
      BY <1>1, <1>6, <1>7, <2>3, <3>1
    <3> QED BY <2>2, <2>3, <3>2 DEF Keeper
  <2>4. CASE m = -1
    <3>1. k \in DOMAIN stack /\ stack[k] = p
      BY <1>8, <2>2, <2>4
    <3>2. k \in DOMAIN open
      <4>1. CASE NewAtom(n, open)
        BY <3>1, <4>1 DEF NewAtom
      <4>2. CASE Closed(n, open)
        <5>1. n = stack[Len(stack)] /\ Len(open) = Len(stack) - 1
          BY <4>2 DEF Closed
        <5>2. k # Len(stack)
          BY <1>11, <3>1, <4>2, <5>1
        <5> QED BY <1>10, <3>1, <5>1, <5>2
      <4> QED BY <1>1, <4>1, <4>2
    <3>3. open[k] = stack[k] /\ (k # 1 => open[k - 1] = stack[k - 1])
      <4>1. k # 1 => k - 1 \in DOMAIN open
        BY <1>10, <3>2
      <4> QED BY <1>1, <3>2, <4>1
    <3>4. Place(-1, k, p)'
      BY <1>2, <1>5, <1>8, <3>1, <3>2, <3>3
    <3>5. ownerOf(p)' = Keeper(-1, k)'
      BY <1>1, <1>7, <3>4
    <3> QED BY <1>6, <2>2, <2>4, <3>3, <3>5 DEF Keeper
  <2> QED BY <2>3, <2>4
<1>12. ASSUME Closed(n, open) PROVE n \in DOMAIN heap /\ ownerOf(n) = to
  <2>1. /\ stack # <<>> /\ n = stack[Len(stack)] /\ Len(open) = Len(stack) - 1
    BY <1>12 DEF Closed
  <2>2. Len(stack) \in DOMAIN stack /\ n \in DOMAIN heap
    <3>1. Len(stack) \in DOMAIN stack
      BY <1>10, <2>1, TreeFacts
    <3> QED BY <2>1, <3>1, TreeFacts
  <2>3. Place(-1, Len(stack), n)
    BY <1>8, <2>1, <2>2 DEF Place
  <2>4. ownerOf(n) = IF Len(stack) = 1 THEN 0 ELSE stack[Len(stack) - 1]
    BY <2>2, <2>3 DEF Parents, Keeper
  <2>5. open = <<>> <=> Len(open) = 0
    BY <1>10
  <2>6. open # <<>> => Len(open) \in DOMAIN open /\ to = open[Len(open)]
    BY <1>1, <1>10, <2>5
  <2> QED BY <1>1, <1>10, <2>1, <2>2, <2>4, <2>5, <2>6
<1> QED BY <1>9, <1>11, <1>12

LEMMA OpeningKeeps ==
  ASSUME TypeOK, Tree, Parents, Parents', NEW n, n = Len(heap) + 1,
         DOMAIN heap' = DOMAIN heap \cup {n}, heap'[n].elems = <<>>,
         \A m \in DOMAIN heap : heap'[m] = heap[m],
         stack' = Append(stack, n), ast' = ast
  PROVE  /\ \A p \in DOMAIN heap : ownerOf(p)' = ownerOf(p)
         /\ ownerOf(n)' = IF stack = <<>> THEN 0 ELSE stack[Len(stack)]
<1> DEFINE last == Len(stack) + 1
<1>1. /\ n \in Nat /\ n # 0 /\ n # -1 /\ stack \in Seq(Nat)
      /\ \A m \in DOMAIN heap : m # 0 /\ m # -1
      /\ Len(stack) \in Nat /\ DOMAIN stack = 1 .. Len(stack)
  <2>1. stack \in Seq(DOMAIN heap) /\ \A m \in DOMAIN heap : m \in Nat
    BY TreeFacts
  <2>2. stack \in Seq(Nat)
    BY <2>1
  <2> QED BY <2>2, TreeFacts
<1>2. Holders = {-1, 0} \cup DOMAIN heap /\ Holders' = Holders \cup {n}
  BY DEF Holders
<1>3. /\ slots(-1) = stack /\ slots(-1)' = Append(stack, n) /\ slots(0)' = slots(0)
      /\ \A m \in DOMAIN heap : slots(m)' = slots(m)
  BY <1>1 DEF slots
<1>4. /\ DOMAIN Append(stack, n) = DOMAIN stack \cup {last} /\ Append(stack, n)[last] = n
      /\ \A k \in DOMAIN stack : Append(stack, n)[k] = stack[k]
  BY <1>1, AppendFacts
<1>5. \A m, k, p : Place(m, k, p)' <=> m \in Holders' /\ k \in DOMAIN slots(m)' /\ slots(m)'[k] = p
  BY DEF Place
<1>6. \A m, k : Keeper(m, k)' = IF m # -1 THEN m ELSE IF k = 1 THEN 0 ELSE Append(stack, n)[k - 1]
  BY DEF Keeper
<1>7. \A p \in DOMAIN heap' : \A m, k : Place(m, k, p)' => ownerOf(p)' = Keeper(m, k)'
  BY DEF Parents
<1>8. ASSUME NEW p \in DOMAIN heap PROVE ownerOf(p)' = ownerOf(p)
  <2>1. PICK m, k : Place(m, k, p)
    BY DEF Tree, Single
  <2>2. ownerOf(p) = Keeper(m, k) /\ m \in Holders /\ k \in DOMAIN slots(m) /\ slots(m)[k] = p
    BY <2>1 DEF Parents, Place
  <2>3. k \in DOMAIN slots(m)' /\ slots(m)'[k] = p
    <3>1. CASE m = -1
      BY <1>3, <1>4, <2>2, <3>1
    <3>2. CASE m # -1
      BY <1>2, <1>3, <2>2, <3>2
    <3> QED BY <3>1, <3>2
  <2>4. ownerOf(p)' = Keeper(m, k)'
    BY <1>2, <1>5, <1>7, <2>2, <2>3
  <2>5. Keeper(m, k)' = Keeper(m, k)
    <3>1. m = -1 /\ k # 1 => k - 1 \in DOMAIN stack
      BY <1>1, <1>3, <2>2
    <3> QED BY <1>4, <1>6, <3>1 DEF Keeper
  <2> QED BY <2>2, <2>4, <2>5
<1>9. ownerOf(n)' = IF stack = <<>> THEN 0 ELSE stack[Len(stack)]
  <2>1. PICK k : k = last
    OBVIOUS
  <2>2. Place(-1, k, n)'
    <3>1. -1 \in Holders' /\ k \in DOMAIN slots(-1)' /\ slots(-1)'[k] = n
      BY <1>2, <1>3, <1>4, <2>1
    <3> QED BY <1>5, <3>1, Zenon
  <2>3. ownerOf(n)' = Keeper(-1, k)'
    BY <1>7, <2>2
  <2>4. stack = <<>> <=> k = 1
    BY <1>1, <2>1
  <2>5. stack # <<>> => Append(stack, n)[k - 1] = stack[Len(stack)]
    <3>1. stack # <<>> => Len(stack) \in DOMAIN stack /\ k - 1 = Len(stack)
      BY <1>1, <2>1, <2>4
    <3> QED BY <1>4, <3>1
  <2>6. Keeper(-1, k)' = IF k = 1 THEN 0 ELSE Append(stack, n)[k - 1]
    BY <1>6
  <2> QED BY <2>3, <2>4, <2>5, <2>6
<1> QED BY <1>8, <1>9

(***************************************************************************)
(* The forest.                                                             *)
(***************************************************************************)
LEMMA SeqOf ==
  ASSUME NEW N \in Nat, NEW f, f = [n \in 1 .. N |-> f[n]], NEW T, \A n \in 1 .. N : f[n] \in T
  PROVE  f \in Seq(T) /\ Len(f) = N
OBVIOUS

LEMMA AppendIs ==
  ASSUME NEW T, NEW f \in Seq(T), NEW g \in Seq(T), Len(g) = Len(f) + 1,
         \A i \in 1 .. Len(f) : g[i] = f[i]
  PROVE  g = Append(f, g[Len(g)])
<1> DEFINE h == Append(f, g[Len(g)])
<1>1. Len(f) \in Nat /\ g[Len(g)] \in T
  OBVIOUS
<1>2. h \in Seq(T) /\ Len(h) = Len(g) /\ h[Len(f) + 1] = g[Len(g)]
      /\ \A i \in 1 .. Len(f) : h[i] = f[i]
  BY <1>1
<1> HIDE DEF h
<1>3. \A i \in 1 .. Len(g) : g[i] = h[i]
  BY <1>1, <1>2
<1>4. g = h
  BY <1>2, <1>3, SeqEqual
<1> QED BY <1>4 DEF h

LEMMA ForestStays ==
  ASSUME DOMAIN heap' = DOMAIN heap,
         \A p \in DOMAIN heap : /\ heap'[p].text = heap[p].text /\ heap'[p].kind = heap[p].kind
                                /\ ownerOf(p)' = ownerOf(p)
  PROVE  forest' = forest
<1>1. \A p \in DOMAIN heap : entry(heap'[p], ownerOf(p)') = entry(heap[p], ownerOf(p))
  BY DEF entry
<1>2. forest' = [p \in DOMAIN heap' |-> entry(heap'[p], ownerOf(p)')]
  BY DEF forest, entry
<1> QED BY <1>1, <1>2 DEF forest

LEMMA ForestGrows ==
  ASSUME TypeOK, NEW n, n = Len(heap) + 1, DOMAIN heap' = DOMAIN heap \cup {n},
         \A p \in DOMAIN heap : /\ heap'[p].text = heap[p].text /\ heap'[p].kind = heap[p].kind
                                /\ ownerOf(p)' = ownerOf(p)
  PROVE  /\ forest' = Append(forest, entry(heap'[n], ownerOf(n)'))
         /\ Len(forest') = n
<1>1. Len(heap) \in Nat /\ DOMAIN heap = 1 .. Len(heap) /\ n \in Nat /\ DOMAIN heap' = 1 .. n
  BY DEF TypeOK
<1> DEFINE f == forest
           g == forest'
           T == {f[p] : p \in 1 .. Len(heap)} \cup {g[p] : p \in 1 .. n}
<1>2. f = [p \in 1 .. Len(heap) |-> entry(heap[p], ownerOf(p))]
  BY <1>1 DEF forest
<1>3. g = [p \in 1 .. n |-> entry(heap'[p], ownerOf(p)')]
  BY <1>1 DEF forest, entry
<1>4. \A p \in 1 .. Len(heap) : g[p] = f[p]
  <2>1. \A p \in 1 .. Len(heap) : entry(heap'[p], ownerOf(p)') = entry(heap[p], ownerOf(p))
    BY <1>1 DEF entry
  <2> QED BY <1>1, <1>2, <1>3, <2>1
<1>5. g[n] = entry(heap'[n], ownerOf(n)')
  BY <1>1, <1>3
<1>6. f \in Seq(T) /\ Len(f) = Len(heap)
  <2>1. f = [p \in 1 .. Len(heap) |-> f[p]] /\ \A p \in 1 .. Len(heap) : f[p] \in T
    BY <1>2
  <2> HIDE DEF f, T
  <2> QED BY <1>1, <2>1, SeqOf
<1>7. g \in Seq(T) /\ Len(g) = n
  <2>1. g = [p \in 1 .. n |-> g[p]] /\ \A p \in 1 .. n : g[p] \in T
    BY <1>3
  <2> HIDE DEF g, T
  <2> QED BY <1>1, <2>1, SeqOf
<1> HIDE DEF f, g, T
<1>8. g = Append(f, g[n])
  BY <1>1, <1>4, <1>6, <1>7, AppendIs
<1> QED BY <1>5, <1>7, <1>8 DEF f, g

(***************************************************************************)
(* What holds in every state, and what the mapping makes of it.            *)
(***************************************************************************)
Known == IInv /\ Words /\ Guided /\ Tree /\ Parents

\* Nothing fails before the end.
LEMMA Mapped ==
  ASSUME Known, pc # "done" \/ result.status = "ok"
  PROVE  textRead = consumed /\ treeBuilt = forest /\ listsOpen = stack
<1>1. ~failed
  BY DEF Known, Guided, Waiting, failed, ErrorType
<1> QED BY <1>1 DEF textRead, treeBuilt, listsOpen

LEMMA MappedNext ==
  ASSUME Known', pc' # "done" \/ result'.status = "ok"
  PROVE  textRead' = consumed' /\ treeBuilt' = forest' /\ listsOpen' = stack'
<1>1. ~failed'
  BY DEF Known, Guided, Waiting, failed, ErrorType
<1> QED BY <1>1 DEF textRead, treeBuilt, listsOpen

\* How much is text already read, from any function.
LEMMA ConsumedIs ==
  ASSUME Known, after = "nul", pc # "done", [Next]_vars
  PROVE  /\ pc \notin {"symbol", "number", "readNumber"} => consumed = NextFrom(currentChar) - 1
         /\ pc \in {"symbol", "number"} => consumed = word.text[1] - 1
         /\ pc = "readNumber" =>
              consumed = IF word.neg THEN currentChar - 1 ELSE NextFrom(currentChar) - 1
         /\ pc' \notin {"symbol", "number", "readNumber"} =>
              consumed' = NextFrom(currentChar') - 1
<1>1. nextNonSpace = NextFrom(currentChar) /\ nextNonSpace' = NextFrom(currentChar')
  BY LookAhead DEF Known, IInv
<1>2. pc \in {"symbol", "number"} => word.text # <<>>
  BY DEF Known, Guided, Scan, SymbolRun, NumberRun, Run
<1>3. currentChar \in Nat /\ <<currentChar>> # <<>> /\ <<currentChar>>[1] = currentChar
  BY DEF Known, IInv, TypeOK
<1>4. pc = "readNumber" => IF word.neg THEN word.text = <<currentChar>> ELSE word.text = <<>>
  BY DEF Known, Guided, Scan
<1>5. pc = "readNumber" =>
        consumed = IF word.neg THEN currentChar - 1 ELSE NextFrom(currentChar) - 1
  BY <1>1, <1>3, <1>4 DEF consumed
<1> QED BY <1>1, <1>2, <1>5 DEF consumed

LEMMA Stutters ==
  ASSUME Known, Known', pc # "done", pc' # "done", buf' = buf, UNCHANGED tree,
         consumed' = consumed
  PROVE  UNCHANGED Promise!vars
<1>1. textRead' = textRead
  BY Mapped, MappedNext
<1>2. UNCHANGED <<heap, stack, ast>>
  BY DEF tree
<1>3. ASSUME NEW p PROVE ownerOf(p)' = ownerOf(p)
  BY <1>2 DEF ownerOf
<1>4. forest' = forest
  BY <1>2, <1>3, ForestStays
<1>5. treeBuilt' = treeBuilt /\ listsOpen' = listsOpen
  BY <1>2, <1>4, Mapped, MappedNext
<1>6. result'.status = result.status
  BY DEF Known, Guided, Waiting
<1> QED BY <1>1, <1>5, <1>6 DEF Promise!vars

(***************************************************************************)
(* Step by step: those that SExpr does not see.                            *)
(***************************************************************************)
LEMMA StepIsAlive ==
  ASSUME Step
  PROVE  pc # "done"
BY DEF Step, skipSpace, read, readExpr, readList, listLoop, closeList, eofInList, badSymbol,
       startNumber, startSymbol, symbolLoop, readNumber, numberLoop

LEMMA WalkStutters ==
  ASSUME Known, Known', after = "nul", skipSpace \/ read \/ readExpr \/ listLoop, pc' # "done"
  PROVE  UNCHANGED Promise!vars
<1> DEFINE c == currentChar + 1
<1>1. Step /\ pc # "done" /\ TypeOK /\ Position /\ Control /\ Upcoming /\ nextChar(1) = c
  BY StepIsAlive DEF Step, Known, IInv, Guided, nextChar
<1>2. buf' = buf /\ [Next]_vars
  BY <1>1, InputFixed DEF Next
<1>3. nextNonSpace = NextFrom(currentChar) /\ currentChar \in Nat /\ currentChar <= Len(buf)
  BY <1>1, <1>2, LookAhead
<1>4. pc \notin {"symbol", "number", "readNumber"}
  BY DEF skipSpace, read, readExpr, listLoop
<1>5. UNCHANGED tree /\ pc' \notin {"symbol", "number", "readNumber"}
  <2>1. CASE skipSpace
    BY <1>1, <2>1 DEF skipSpace, Control
  <2>2. CASE read \/ listLoop
    BY <2>2 DEF read, listLoop, skipThen, returns
  <2>3. CASE readExpr
    <3>1. ~isEndOfBuffer(nextNonSpace)
      <4>1. Mem(nextNonSpace) # "nul" /\ pc = "readExpr" /\ nextNonSpace = currentChar + 1
        BY <1>1, <2>3 DEF readExpr, Upcoming
      <4> QED BY <1>1, <1>2, <1>3, <4>1, LookAhead
    <3> QED BY <2>3, <3>1 DEF readExpr, skipThen
  <2> QED BY <2>1, <2>2, <2>3
<1>6. NextFrom(currentChar') = NextFrom(currentChar)
  <2>1. CASE skipSpace /\ Mem(c) \in Space
    <3>1. currentChar' = c
      BY <1>1, <2>1 DEF skipSpace, advanceByOne
    <3> QED BY <1>1, <1>3, <2>1, <3>1, NextFromSteps
  <2>2. CASE ~(skipSpace /\ Mem(c) \in Space)
    <3>1. currentChar' = currentChar
      BY <1>1, <2>2 DEF skipSpace, read, readExpr, listLoop, position
    <3> QED BY <3>1
  <2> QED BY <2>1, <2>2
<1>7. consumed' = consumed
  BY <1>1, <1>2, <1>4, <1>5, <1>6, ConsumedIs
<1> QED BY <1>1, <1>2, <1>5, <1>7, Stutters

\* A token under way is not read yet.
LEMMA TokenStutters ==
  ASSUME Known, Known', after = "nul", Step, pc' \in {"symbol", "number", "readNumber"}
  PROVE  UNCHANGED Promise!vars
<1> DEFINE c == currentChar + 1
<1>1. /\ pc # "done" /\ TypeOK /\ Position /\ Control /\ Upcoming /\ Scan /\ nextChar(1) = c
      /\ Scan' /\ word \in Word
  BY StepIsAlive DEF Known, IInv, Guided, nextChar, TypeOK, Word
<1>2. buf' = buf /\ [Next]_vars
  BY InputFixed DEF Next
<1>3. nextNonSpace = NextFrom(currentChar) /\ currentChar \in Nat /\ currentChar <= Len(buf)
      /\ nextNonSpace' = NextFrom(currentChar')
  BY <1>1, <1>2, LookAhead
<1>4. CASE startNumber \/ startSymbol
  <2>1. pc = "readSymbol" /\ nextNonSpace = c /\ UNCHANGED tree
    BY <1>1, <1>4 DEF startNumber, startSymbol, Upcoming
  <2>2. consumed = currentChar
    BY <1>1, <1>2, <1>3, <2>1, ConsumedIs
  <2>3. \/ word'.text = <<c>>
        \/ word'.text = <<>> /\ currentChar' = currentChar /\ startNumber
    BY <1>1, <1>4 DEF startNumber, startSymbol, NoWord, position
  <2>4. <<c>> # <<>> /\ <<c>>[1] = c
    BY <1>3
  <2>5. consumed' = currentChar
    <3>1. CASE word'.text = <<c>>
      <4>1. word'.text # <<>> /\ word'.text[1] = c
        BY <2>4, <3>1
      <4>2. consumed' = c - 1
        BY <4>1 DEF consumed
      <4> QED BY <1>3, <4>2
    <3>2. CASE word'.text = <<>> /\ currentChar' = currentChar
      <4>1. consumed' = nextNonSpace' - 1 /\ nextNonSpace' = c
        BY <1>3, <2>1, <3>2 DEF consumed
      <4> QED BY <1>3, <4>1
    <3> QED BY <2>3, <3>1, <3>2
  <2> QED BY <1>1, <1>2, <2>1, <2>2, <2>5, Stutters
<1>5. CASE symbolLoop \/ numberLoop
  <2>1. UNCHANGED tree /\ word'.text = Append(word.text, c) /\ pc \in {"symbol", "number"}
    <3>1. CASE symbolLoop
      BY <1>1, <3>1 DEF symbolLoop, returnAtom, returnExpr, Word
    <3>2. CASE numberLoop
      BY <1>1, <3>2 DEF numberLoop, returnAtom, returnExpr, fails, returns, Word
    <3> QED BY <1>5, <3>1, <3>2
  <2>2. word.text # <<>> /\ word.text \in Seq(Nat) /\ Run(word.text, currentChar)
    BY <1>1, <2>1 DEF Scan, SymbolRun, NumberRun, Run, Word
  <2>3. word'.text # <<>> /\ word'.text[1] = word.text[1]
    BY <1>3, <2>1, <2>2, RunGrows DEF Run
  <2>4. consumed' = consumed
    BY <2>1, <2>2, <2>3 DEF consumed
  <2> QED BY <1>1, <1>2, <2>1, <2>4, Stutters
<1>6. CASE readNumber
  <2>1. /\ Mem(c) = "digit" /\ UNCHANGED tree /\ word'.text = Append(word.text, c)
        /\ pc = "readNumber"
    BY <1>1, <1>6 DEF readNumber, fails, returns, Word
  <2>2. NextFrom(currentChar) = c
    BY <1>1, <1>3, <2>1, NextFromSteps DEF Space
  <2>3. word.text \in Seq(Nat) /\ IF word.neg THEN word.text = <<currentChar>> ELSE word.text = <<>>
    BY <1>1, <2>1 DEF Scan, Word
  <2>4. Run(word.text, currentChar) \/ word.text = <<>>
    <3>1. /\ <<currentChar>> # <<>> /\ <<currentChar>>[1] = currentChar /\ Len(<<currentChar>>) = 1
      BY <1>3
    <3>2. word.neg => currentChar \in 1 .. currentChar
      BY <1>1, <1>3, <2>1 DEF Scan
    <3> QED BY <2>3, <3>1, <3>2 DEF Run
  <2>5. /\ Run(word'.text, c)
        /\ word'.text[1] = IF word.text = <<>> THEN c ELSE word.text[1]
    BY <1>3, <2>1, <2>3, <2>4, RunGrows
  <2>6. consumed' = word'.text[1] - 1
    BY <2>5 DEF consumed, Run
  <2>7. consumed = IF word.text = <<>> THEN c - 1 ELSE word.text[1] - 1
    BY <1>3, <2>1, <2>2 DEF consumed
  <2>8. consumed' = consumed
    BY <2>5, <2>6, <2>7
  <2> QED BY <1>1, <1>2, <2>1, <2>8, Stutters
<1>7. CASE ~(startNumber \/ startSymbol \/ symbolLoop \/ numberLoop \/ readNumber)
  BY <1>1, <1>7 DEF Step, skipSpace, read, readExpr, readList, listLoop, closeList, eofInList,
                    badSymbol, fails, returns, skipThen, returnExpr, Control
<1> QED BY <1>4, <1>5, <1>6, <1>7

(***************************************************************************)
(* Step by step: those that SExpr sees.                                    *)
(***************************************************************************)

\* What the reader looks at is what SExpr reads next.
LEMMA AtTheNext ==
  ASSUME Known, after = "nul", Step, pc \in {"read", "readList", "close", "eof", "readSymbol"}
  PROVE  /\ Promise!start = nextNonSpace /\ nextNonSpace \in Nat \ {0}
         /\ pc # "read" => nextNonSpace = currentChar + 1
         /\ nextNonSpace = NextFrom(currentChar)
         /\ currentChar \in Nat /\ currentChar <= Len(buf)
         /\ listsOpen = stack /\ treeBuilt = forest /\ result.status = "pending"
<1>1. pc # "done" /\ [Next]_vars /\ TypeOK /\ Position /\ Upcoming /\ Waiting
  BY StepIsAlive DEF Known, IInv, Guided, Next
<1>2. nextNonSpace = NextFrom(currentChar) /\ currentChar \in Nat /\ currentChar <= Len(buf)
  BY <1>1, LookAhead
<1>3. NextFrom(currentChar) \in currentChar + 1 .. Len(buf) + 1
  BY <1>1, <1>2, NextFromFacts
<1>4. consumed = NextFrom(currentChar) - 1
  BY <1>1, ConsumedIs
<1>5. Promise!start = nextNonSpace
  BY <1>1, <1>2, <1>3, <1>4, Mapped DEF Promise!start
<1> QED BY <1>1, <1>2, <1>3, <1>5, Mapped DEF Upcoming, Waiting

LEMMA FinishStep ==
  ASSUME Known, Known', after = "nul", read \/ readExpr, pc' = "done"
  PROVE  Promise!Finish
<1>1. Step /\ [Next]_vars /\ pc # "done" /\ TypeOK /\ Upcoming /\ Position
  BY StepIsAlive DEF Step, Next, Known, IInv, Guided
<1>2. CASE readExpr
  <2>1. pc = "readExpr" /\ isEndOfBuffer(nextNonSpace)
    BY <1>2 DEF readExpr, skipThen
  <2>2. Mem(nextNonSpace) # "nul" /\ nextNonSpace = currentChar + 1 /\ currentChar \in Nat
    BY <1>1, <2>1 DEF Upcoming, TypeOK
  <2> QED BY <1>1, <2>1, <2>2, LookAhead
<1>3. CASE read
  <2>1. /\ pc = "read" /\ stack = <<>> /\ result'.status = "ok"
        /\ UNCHANGED <<currentChar, buf, tree>>
        /\ Len(buf) = 0 \/ isEndOfBuffer(nextNonSpace)
    BY <1>1, <1>3 DEF read, returns, skipThen, position, input, Upcoming
  <2>2. /\ Promise!start = nextNonSpace /\ nextNonSpace \in Nat \ {0}
        /\ nextNonSpace = NextFrom(currentChar)
        /\ currentChar \in Nat /\ currentChar <= Len(buf)
        /\ listsOpen = stack /\ treeBuilt = forest /\ result.status = "pending"
    BY <1>1, <2>1, AtTheNext
  <2>3. Mem(nextNonSpace) = "nul"
    <3>1. CASE Len(buf) = 0
      BY <1>1, <2>2, <3>1, IsMem
    <3>2. CASE isEndOfBuffer(nextNonSpace)
      <4>1. nextNonSpace > currentChar
        BY <1>1, <2>2, NextFromFacts
      <4> QED BY <1>1, <2>2, <3>2, <4>1, LookAhead
    <3> QED BY <2>1, <3>1, <3>2
  <2>4. Promise!AtEnd(Promise!start)
    BY <1>1, <2>2, <2>3, IsMem
  <2>5. textRead' = consumed' /\ treeBuilt' = forest' /\ listsOpen' = stack' /\ textRead = consumed
    BY <1>1, <2>1, Mapped, MappedNext
  <2>6. consumed' = consumed
    <3>1. consumed' = NextFrom(currentChar') - 1 /\ consumed = NextFrom(currentChar) - 1
      BY <1>1, <2>1, ConsumedIs
    <3> QED BY <2>1, <3>1
  <2>7. forest' = forest
    <3>1. UNCHANGED <<heap, stack, ast>>
      BY <2>1 DEF tree
    <3>2. ASSUME NEW p PROVE ownerOf(p)' = ownerOf(p)
      BY <3>1 DEF ownerOf
    <3> QED BY <3>1, <3>2, ForestStays
  <2>8. stack' = stack
    BY <2>1 DEF tree
  <2> QED BY <2>1, <2>2, <2>4, <2>5, <2>6, <2>7, <2>8 DEF Promise!Finish
<1> QED BY <1>2, <1>3

LEMMA OpenStep ==
  ASSUME Known, Known', after = "nul", readList
  PROVE  Promise!Open
<1> DEFINE c == currentChar + 1
           n == Len(heap) + 1
           new == node("List", loc, loc)
<1>1. /\ Step /\ [Next]_vars /\ pc = "readList" /\ pc' = "list"
      /\ TypeOK /\ Upcoming /\ Position /\ Tree /\ Parents /\ Parents' /\ Clear
  BY DEF Step, Next, Known, IInv, Guided, Words, readList
<1>2. /\ Promise!start = c /\ nextNonSpace = c
      /\ currentChar \in Nat /\ currentChar <= Len(buf)
      /\ listsOpen = stack /\ treeBuilt = forest /\ result.status = "pending"
  BY <1>1, AtTheNext
<1>3. Mem(c) = "(" /\ c \in Nat \ {0}
  BY <1>1, <1>2 DEF Upcoming
<1>4. Promise!Is(c, {"("}) /\ c <= Len(buf)
  BY <1>1, <1>3, IsMem
<1>5. /\ heap' = Append(heap, new) /\ stack' = Append(stack, n) /\ ast' = ast
      /\ new \in Node /\ new.elems = <<>> /\ new.text = <<>> /\ new.kind = "List"
      /\ heap \in Seq(Node) /\ currentChar' = c /\ buf' = buf /\ result' = result
  <2>1. word.text = <<>> /\ nextChar(1) = c
    BY <1>1 DEF Clear, NoWord, nextChar
  <2>2. new \in Node
    BY <1>1, NodeType DEF TypeOK
  <2>3. heap \in Seq(Node)
    BY <1>1 DEF TypeOK
  <2>4. new.elems = <<>> /\ new.text = <<>> /\ new.kind = "List"
    BY <2>1 DEF node
  <2> HIDE DEF new
  <2>5. heap' = Append(heap, new) /\ stack' = Append(stack, n) /\ ast' = ast
        /\ currentChar' = c /\ buf' = buf /\ result' = result
    BY DEF readList, advanceByOne, input, new
  <2> QED BY <2>2, <2>3, <2>4, <2>5
<1> HIDE DEF new
<1>6. /\ DOMAIN heap' = DOMAIN heap \cup {n} /\ heap'[n] = new
      /\ \A m \in DOMAIN heap : heap'[m] = heap[m]
  BY <1>5
<1>7. PICK k : k = n
  OBVIOUS
<1>8. /\ k = Len(heap) + 1 /\ DOMAIN heap' = DOMAIN heap \cup {k} /\ heap'[k] = new
      /\ heap'[k].elems = <<>> /\ stack' = Append(stack, k)
  BY <1>5, <1>6, <1>7
<1>9. /\ \A p \in DOMAIN heap : ownerOf(p)' = ownerOf(p)
      /\ ownerOf(k)' = IF stack = <<>> THEN 0 ELSE stack[Len(stack)]
  BY <1>1, <1>5, <1>6, <1>8, OpeningKeeps
<1>10. forest' = Append(forest, entry(heap'[k], ownerOf(k)')) /\ Len(forest') = k
  BY <1>1, <1>6, <1>8, <1>9, ForestGrows
<1>11. entry(heap'[k], ownerOf(k)')
         = [kind |-> "List", from |-> 0, to |-> 0, parent |-> Promise!parent]
  <2>1. ownerOf(k)' = Promise!parent
    BY <1>2, <1>9 DEF Promise!parent
  <2> QED BY <1>5, <1>8, <2>1 DEF entry
<1>12. textRead' = consumed' /\ treeBuilt' = forest' /\ listsOpen' = stack'
  BY <1>1, MappedNext
<1>13. consumed' = Promise!past(c)
  <2>1. consumed' = NextFrom(c) - 1
    <3>1. pc # "done" /\ pc' \notin {"symbol", "number", "readNumber"}
      BY <1>1
    <3>2. consumed' = NextFrom(currentChar') - 1
      BY <1>1, <3>1, ConsumedIs
    <3> QED BY <1>5, <3>2
  <2> HIDE DEF c
  <2>2. Promise!past(c) = NextFrom(c) - 1
    BY <1>1, <1>3, <1>4, PastIs
  <2> QED BY <2>1, <2>2
<1> HIDE DEF c, n
<1> QED BY <1>2, <1>4, <1>5, <1>8, <1>10, <1>11, <1>12, <1>13 DEF Promise!Open

LEMMA CloseStep ==
  ASSUME Known, Known', after = "nul", closeList
  PROVE  Promise!Close
<1> DEFINE c == currentChar + 1
           n == stack[Len(stack)]
           nodes == [heap EXCEPT ![n].end = nextLocation]
           open == SubSeq(stack, 1, Len(stack) - 1)
           to == IF open = <<>> THEN 0 ELSE open[Len(open)]
<1>1. /\ Step /\ [Next]_vars /\ pc = "close"
      /\ TypeOK /\ Upcoming /\ Position /\ Control /\ Tree /\ Parents /\ Parents'
  BY DEF Step, Next, Known, IInv, Guided, closeList
<1>2. /\ Promise!start = c /\ nextNonSpace = c
      /\ currentChar \in Nat /\ currentChar <= Len(buf)
      /\ listsOpen = stack /\ treeBuilt = forest /\ result.status = "pending"
  BY <1>1, AtTheNext
<1>3. Mem(c) = ")" /\ c \in Nat \ {0}
  BY <1>1, <1>2 DEF Upcoming
<1>4. Promise!Is(c, {")"}) /\ c <= Len(buf)
  BY <1>1, <1>3, IsMem
<1>5. /\ returnExpr(nodes, open, n) /\ currentChar' = c /\ buf' = buf /\ result' = result
  BY DEF closeList, advanceByOne, input
<1>6. stack # <<>> /\ stack \in Seq(1 .. Len(heap)) /\ heap \in Seq(Node)
  BY <1>1 DEF Control, InList, TypeOK
<1>7. /\ n \in 1 .. Len(heap) /\ open \in Seq(1 .. Len(heap)) /\ Len(open) = Len(stack) - 1
      /\ \A k \in DOMAIN open : open[k] = stack[k]
  <2>1. Len(stack) \in Nat \ {0} /\ DOMAIN stack = 1 .. Len(stack)
    BY <1>6
  <2>2. open \in Seq(1 .. Len(heap)) /\ Len(open) = Len(stack) - 1
    BY <1>6, <2>1
  <2>3. \A k \in 1 .. Len(stack) - 1 : open[k] = stack[k]
    BY <1>6, <2>1
  <2>4. DOMAIN open = 1 .. Len(stack) - 1
    BY <2>2
  <2>5. n \in 1 .. Len(heap)
    BY <1>6, <2>1
  <2> HIDE DEF open, n
  <2> QED BY <2>2, <2>3, <2>4, <2>5
<1>8. heap[n] \in Node
  BY <1>6, <1>7
<1>9. /\ [heap[n] EXCEPT !.end = nextLocation] \in Node
      /\ [heap[n] EXCEPT !.end = nextLocation].elems = heap[n].elems
      /\ [heap[n] EXCEPT !.end = nextLocation].text = heap[n].text
      /\ [heap[n] EXCEPT !.end = nextLocation].kind = heap[n].kind
  BY <1>1, <1>8, NodeUpdate, NextLocationType DEF Node
<1>10. nodes = [heap EXCEPT ![n] = [heap[n] EXCEPT !.end = nextLocation]]
  OBVIOUS
<1>11. n = stack[Len(stack)] /\ open = SubSeq(stack, 1, Len(stack) - 1)
  OBVIOUS
<1> HIDE DEF nodes, open, n
<1>12. /\ nodes \in Seq(Node) /\ Len(nodes) = Len(heap) /\ DOMAIN nodes = DOMAIN heap
       /\ \A m \in DOMAIN heap : /\ nodes[m].elems = heap[m].elems
                                 /\ nodes[m].text = heap[m].text /\ nodes[m].kind = heap[m].kind
  BY <1>6, <1>7, <1>9, <1>10
<1>13. /\ stack' = open /\ DOMAIN heap' = DOMAIN nodes
       /\ ast' = IF to = 0 THEN Append(ast, n) ELSE ast
       /\ \A m \in DOMAIN nodes :
            heap'[m].elems = IF m = to THEN Append(nodes[m].elems, n) ELSE nodes[m].elems
  BY <1>5, <1>7, <1>12, ReturnExprSlots
<1>14. Closed(n, open)
  BY <1>6, <1>7, <1>11, <1>12, <1>13 DEF Closed
<1>15. PICK h, o, m : h = to /\ o = open /\ m = n
  OBVIOUS
<1>16. Delivery(h, m, o)
  BY <1>7, <1>12, <1>13, <1>14, <1>15 DEF Delivery
<1>17. \A p \in DOMAIN heap : ownerOf(p)' = ownerOf(p)
  BY <1>1, <1>16, DeliveryKeeps
<1>18. /\ DOMAIN heap' = DOMAIN heap
       /\ \A p \in DOMAIN heap : heap'[p].text = heap[p].text /\ heap'[p].kind = heap[p].kind
  <2>1. /\ DOMAIN heap' = DOMAIN nodes
        /\ \A p \in DOMAIN nodes : heap'[p].text = nodes[p].text /\ heap'[p].kind = nodes[p].kind
    BY <1>5, <1>7, <1>12, ReturnExprTexts
  <2> QED BY <1>12, <2>1
<1>19. forest' = forest
  BY <1>17, <1>18, ForestStays
<1>20. pc' \in {"read", "list"}
  BY <1>5 DEF returnExpr
<1>21. textRead' = consumed' /\ treeBuilt' = forest' /\ listsOpen' = stack'
  BY <1>20, MappedNext
<1>22. consumed' = Promise!past(c)
  <2>1. consumed' = NextFrom(c) - 1
    <3>1. pc # "done" /\ pc' \notin {"symbol", "number", "readNumber"}
      BY <1>1, <1>20
    <3>2. consumed' = NextFrom(currentChar') - 1
      BY <1>1, <3>1, ConsumedIs
    <3> QED BY <1>5, <3>2
  <2> HIDE DEF c
  <2>2. Promise!past(c) = NextFrom(c) - 1
    BY <1>1, <1>3, <1>4, PastIs
  <2> QED BY <2>1, <2>2
<1> HIDE DEF c
<1> QED BY <1>2, <1>4, <1>5, <1>6, <1>11, <1>13, <1>19, <1>21, <1>22 DEF Promise!Close

\* The token under way is what SExpr reads next.
LEMMA AtTheToken ==
  ASSUME Known, after = "nul", Step, pc \in {"symbol", "number"}
  PROVE  /\ Run(word.text, currentChar) /\ Promise!start = word.text[1]
         /\ word.text[1] \in 1 .. currentChar
         /\ currentChar \in Nat \ {0} /\ currentChar <= Len(buf) /\ Len(buf) \in Nat
         /\ listsOpen = stack /\ treeBuilt = forest /\ result.status = "pending"
<1>1. pc # "done" /\ [Next]_vars /\ TypeOK /\ Position /\ Scan /\ Waiting
  BY StepIsAlive DEF Known, IInv, Guided, Next
<1>2. currentChar \in Nat /\ currentChar <= Len(buf) /\ Len(buf) \in Nat
  BY <1>1, LookAhead, BuffersAssumption DEF TypeOK
<1>3. Run(word.text, currentChar)
  BY <1>1 DEF Scan, SymbolRun, NumberRun
<1>4. word.text[1] \in 1 .. currentChar
  BY <1>3 DEF Run
<1>5. consumed = word.text[1] - 1
  BY <1>1, ConsumedIs
<1>6. Promise!start = word.text[1]
  BY <1>1, <1>4, <1>5, Mapped DEF Promise!start
<1> QED BY <1>1, <1>2, <1>3, <1>4, <1>6, Mapped DEF Waiting

LEMMA AtomRead ==
  ASSUME Known, Known', after = "nul", Step, pc \in {"symbol", "number"},
         NEW kind \in {"Symbol", "Number"}, NEW first \in Loc, returnAtom(kind, first)
  PROVE  /\ treeBuilt' = Append(treeBuilt, [kind |-> kind, from |-> Promise!start, to |-> currentChar,
                                            parent |-> Promise!parent])
         /\ textRead' = Promise!past(currentChar) /\ listsOpen' = listsOpen
         /\ result'.status = result.status /\ buf' = buf
<1> DEFINE new == node(kind, first, loc)
           nodes == Append(heap, new)
           n == Len(heap) + 1
           to == IF stack = <<>> THEN 0 ELSE stack[Len(stack)]
<1>1. /\ pc # "done" /\ [Next]_vars /\ TypeOK /\ Tree /\ Parents /\ Parents'
  BY StepIsAlive DEF Known, IInv, Next
<1>2. /\ nodes \in Seq(Node) /\ Len(nodes) = n /\ DOMAIN nodes = 1 .. n
      /\ \A m \in 1 .. Len(heap) : nodes[m] = heap[m]
      /\ nodes[n] = new /\ DOMAIN heap = 1 .. Len(heap) /\ Len(heap) \in Nat
  BY <1>1, NodeType DEF TypeOK
<1>3. stack \in Seq(1 .. Len(nodes)) /\ stack \in Seq(1 .. Len(heap))
  BY <1>1, <1>2 DEF TypeOK
<1>4. /\ new.elems = <<>> /\ new.text = word.text /\ new.kind = kind
      /\ returnExpr(nodes, stack, n) /\ currentChar' = currentChar /\ buf' = buf
      /\ result' = result
  BY DEF node, returnAtom, position, input
<1> HIDE DEF nodes, new
<1>5. /\ stack' = stack /\ DOMAIN heap' = DOMAIN nodes
      /\ ast' = IF to = 0 THEN Append(ast, n) ELSE ast
      /\ \A m \in DOMAIN nodes :
           heap'[m].elems = IF m = to THEN Append(nodes[m].elems, n) ELSE nodes[m].elems
  BY <1>2, <1>3, <1>4, ReturnExprSlots
<1>6. to \in 0 .. Len(heap)
  BY <1>2, <1>3
<1>7. to = IF stack = <<>> THEN 0 ELSE stack[Len(stack)]
  OBVIOUS
<1> HIDE DEF to
<1>8. n # to /\ n \in DOMAIN nodes /\ DOMAIN nodes = DOMAIN heap \cup {n}
  BY <1>2, <1>6
<1>9. heap'[n].elems = <<>>
  BY <1>2, <1>4, <1>5, <1>8
<1>10. \A m \in DOMAIN heap :
         heap'[m].elems = IF m = to THEN Append(heap[m].elems, n) ELSE heap[m].elems
  BY <1>2, <1>5, <1>8
<1>11. NewAtom(n, stack)
  BY <1>5, <1>8, <1>9 DEF NewAtom
<1>12. /\ DOMAIN heap' = DOMAIN nodes
       /\ \A m \in DOMAIN nodes : heap'[m].text = nodes[m].text /\ heap'[m].kind = nodes[m].kind
  BY <1>2, <1>3, <1>4, ReturnExprTexts
<1>13. /\ \A m \in DOMAIN heap : heap'[m].text = heap[m].text /\ heap'[m].kind = heap[m].kind
       /\ heap'[n].text = word.text /\ heap'[n].kind = kind
  BY <1>2, <1>4, <1>8, <1>12
<1>14. PICK h, o, m : h = to /\ o = stack /\ m = n
  OBVIOUS
<1>15. Delivery(h, m, o) /\ NewAtom(m, o)
  <2> HIDE DEF n
  <2> QED BY <1>3, <1>5, <1>7, <1>10, <1>11, <1>14 DEF Delivery
<1>16. (\A p \in DOMAIN heap : ownerOf(p)' = ownerOf(p)) /\ ownerOf(m)' = h
  BY <1>1, <1>15, DeliveryKeeps
<1>17. m = Len(heap) + 1 /\ DOMAIN heap' = DOMAIN heap \cup {m}
  BY <1>5, <1>8, <1>14
<1>18. forest' = Append(forest, entry(heap'[m], ownerOf(m)'))
  BY <1>1, <1>13, <1>16, <1>17, ForestGrows
<1>19. /\ Run(word.text, currentChar) /\ Promise!start = word.text[1]
       /\ currentChar \in Nat \ {0} /\ currentChar <= Len(buf)
       /\ listsOpen = stack /\ treeBuilt = forest /\ result.status = "pending"
  BY AtTheToken
<1>20. entry(heap'[m], ownerOf(m)')
         = [kind |-> kind, from |-> Promise!start, to |-> currentChar, parent |-> Promise!parent]
  <2>1. ownerOf(m)' = Promise!parent
    BY <1>7, <1>14, <1>16, <1>19 DEF Promise!parent
  <2> HIDE DEF n
  <2>2. heap'[m].text = word.text /\ heap'[m].kind = kind
    BY <1>13, <1>14
  <2> QED BY <1>19, <2>1, <2>2 DEF entry, Run
<1>21. pc' \in {"read", "list"}
  BY <1>4 DEF returnExpr
<1>22. textRead' = consumed' /\ treeBuilt' = forest' /\ listsOpen' = stack'
  BY <1>21, MappedNext
<1>23. consumed' = Promise!past(currentChar)
  <2>1. pc # "done" /\ pc' \notin {"symbol", "number", "readNumber"}
    BY <1>1, <1>21
  <2>2. consumed' = NextFrom(currentChar') - 1
    BY <1>1, <2>1, ConsumedIs
  <2>3. Promise!past(currentChar) = NextFrom(currentChar) - 1
    BY <1>1, <1>19, PastIs
  <2> QED BY <1>4, <2>2, <2>3
<1> QED BY <1>4, <1>5, <1>18, <1>19, <1>20, <1>22, <1>23

LEMMA SymbolStep ==
  ASSUME Known, Known', after = "nul", symbolLoop, pc' # "symbol"
  PROVE  Promise!Atom
<1> DEFINE c == currentChar + 1
           s == word.text[1]
<1>1. /\ Step /\ [Next]_vars /\ pc = "symbol" /\ TypeOK /\ Position /\ Scan /\ nextChar(1) = c
  BY DEF Step, Next, Known, IInv, Guided, symbolLoop, nextChar
<1>2. /\ Promise!start = s /\ s \in 1 .. currentChar
      /\ currentChar \in Nat \ {0} /\ currentChar <= Len(buf) /\ Len(buf) \in Nat
      /\ result.status = "pending"
  BY <1>1, AtTheToken
<1>3. returnAtom("Symbol", NoLocation) /\ (isEndOfBuffer(c) \/ Mem(c) \notin Identifier)
  BY <1>1 DEF symbolLoop, isValidForIdentifier
<1>4. Mem(c) = "nul" \/ Mem(c) \notin Identifier
  <2>1. c \in Nat \ {0} /\ c > currentChar
    BY <1>2
  <2> HIDE DEF c
  <2> QED BY <1>1, <1>3, <2>1, LookAhead
<1>5. SymbolRun(word.text, currentChar)
  BY <1>1 DEF Scan
<1>6. \A i \in s .. currentChar : Mem(i) # "nul" /\ Mem(i) \in Identifier
  BY <1>5 DEF SymbolRun, Identifier
<1>7. s \in Nat \ {0} /\ s + 1 \in Nat \ {0} /\ currentChar \in s - 1 .. Len(buf)
      /\ s \in s .. currentChar
  BY <1>2
<1>8. Mem(s) # "digit" /\ ~(Mem(s) = "minus" /\ Mem(s + 1) = "digit")
  BY <1>5 DEF SymbolRun
<1> HIDE DEF s
<1>9. Promise!RunEnd(s, Identifier) = currentChar
  BY <1>1, <1>4, <1>6, <1>7, RunEndIs
<1>10. ~Promise!Numeric
  BY <1>1, <1>2, <1>7, <1>8, IsMem DEF Promise!Numeric, Promise!Negative
<1>11. Promise!Is(s, Identifier)
  BY <1>1, <1>6, <1>7, IsMem
<1>12. Promise!tokenEnd = currentChar
  BY <1>2, <1>9, <1>10 DEF Promise!tokenEnd
<1>13. /\ treeBuilt' = Append(treeBuilt, [kind |-> "Symbol", from |-> Promise!start, to |-> currentChar,
                                          parent |-> Promise!parent])
       /\ textRead' = Promise!past(currentChar) /\ listsOpen' = listsOpen
       /\ result'.status = result.status /\ buf' = buf
  BY <1>1, <1>3, AtomRead, NoLocationType
<1> QED BY <1>2, <1>10, <1>11, <1>12, <1>13 DEF Promise!Atom

\* A number as SExpr sees it, its sign included.
LEMMA NumberAhead ==
  ASSUME Known, after = "nul", Step, pc = "number"
  PROVE  /\ Promise!Numeric /\ (Promise!Negative <=> word.neg)
         /\ Promise!Is(Promise!start, Identifier)
         /\ Promise!numberEnd = Promise!RunEnd(Digits(word), {"digit", "dot"})
         /\ Digits(word) \in Nat \ {0} /\ Digits(word) <= currentChar
         /\ Promise!start \in Nat \ {0} /\ Promise!start <= Digits(word)
         /\ \A i \in Promise!start .. currentChar :
              Mem(i) = "dot" => i \in Digits(word) .. currentChar
         /\ NumberRun(word, currentChar)
<1> DEFINE s == word.text[1]
           d == Digits(word)
<1>1. TypeOK /\ NumberRun(word, currentChar) /\ word.neg \in BOOLEAN
  BY DEF Known, IInv, Guided, Scan, TypeOK
<1>2. /\ Promise!start = s /\ s \in 1 .. currentChar
      /\ currentChar \in Nat \ {0} /\ currentChar <= Len(buf) /\ Len(buf) \in Nat
  BY AtTheToken
<1>3. /\ word.neg => Mem(s) = "minus" /\ d = s + 1
      /\ ~word.neg => d = s
      /\ Mem(d) = "digit" /\ d \in 1 .. currentChar
  BY <1>1 DEF NumberRun, Digits
<1>4. s \in Nat \ {0} /\ d \in Nat \ {0} /\ d <= currentChar /\ s <= d /\ s + 1 \in Nat \ {0}
  BY <1>2, <1>3
<1>5. ASSUME NEW i \in s .. currentChar, Mem(i) = "dot" PROVE i \in d .. currentChar
  BY <1>2, <1>3, <1>4, <1>5
<1> HIDE DEF s, d
<1>6. /\ \A S : Promise!Is(s, S) <=> Mem(s) # "nul" /\ Mem(s) \in S
      /\ \A S : Promise!Is(s + 1, S) <=> Mem(s + 1) # "nul" /\ Mem(s + 1) \in S
  BY <1>1, <1>4, IsMem
<1>7. Promise!Negative <=> word.neg
  BY <1>1, <1>2, <1>3, <1>6 DEF Promise!Negative
<1>8. Promise!Numeric /\ Promise!Is(s, Identifier)
  BY <1>1, <1>2, <1>3, <1>6, <1>7 DEF Promise!Numeric, Identifier
<1>9. Promise!numberEnd = Promise!RunEnd(d, {"digit", "dot"})
  BY <1>1, <1>2, <1>3, <1>7 DEF Promise!numberEnd
<1> QED BY <1>1, <1>2, <1>4, <1>5, <1>7, <1>8, <1>9 DEF d

\* The dots of the token are those of the text.
LEMMA DotsAre ==
  ASSUME TypeOK, Promise!start \in Nat \ {0}, Promise!numberEnd \in 0 .. Len(buf)
  PROVE  Promise!Dots = {i \in Promise!start .. Promise!numberEnd : Mem(i) = "dot"}
<1>1. \A i \in Promise!start .. Promise!numberEnd : Mem(i) = buf[i]
  <2>1. \A i \in Promise!start .. Promise!numberEnd : i <= Len(buf)
    BY BuffersAssumption DEF TypeOK
  <2> QED BY <2>1 DEF Mem
<1> QED BY <1>1 DEF Promise!Dots

\* The number ends here, and has one dot at the most.
LEMMA NumberEnds ==
  ASSUME Known, after = "nul", Step, pc = "number", Mem(currentChar + 1) \notin {"digit", "dot"}
  PROVE  Promise!numberEnd = currentChar /\ ~Promise!TwoDots
<1> DEFINE s == Promise!start
           d == Digits(word)
<1>1. /\ d \in Nat \ {0} /\ d <= currentChar /\ s \in Nat \ {0} /\ s <= d
      /\ Promise!numberEnd = Promise!RunEnd(d, {"digit", "dot"})
      /\ \A i \in s .. currentChar : Mem(i) = "dot" => i \in d .. currentChar
      /\ NumberRun(word, currentChar)
  BY NumberAhead
<1>2. TypeOK /\ currentChar \in Nat \ {0} /\ currentChar <= Len(buf) /\ Len(buf) \in Nat
  BY AtTheToken DEF Known, IInv
<1>3. \A i \in d .. currentChar : Mem(i) # "nul" /\ Mem(i) \in {"digit", "dot"}
  BY <1>1 DEF NumberRun
<1>4. currentChar \in d - 1 .. Len(buf)
  BY <1>1, <1>2
<1> HIDE DEF d, s
<1>5. Promise!RunEnd(d, {"digit", "dot"}) = currentChar
  BY <1>1, <1>2, <1>3, <1>4, RunEndIs
<1>6. Promise!numberEnd \in 0 .. Len(buf)
  BY <1>1, <1>2, <1>5
<1>7. Promise!Dots = {i \in s .. currentChar : Mem(i) = "dot"}
  BY <1>1, <1>2, <1>5, <1>6, DotsAre DEF s
<1>8. \A i, j \in d .. currentChar : Mem(i) = "dot" /\ Mem(j) = "dot" => i = j
  BY <1>1 DEF NumberRun, d
<1>9. ~Promise!TwoDots
  BY <1>1, <1>7, <1>8 DEF Promise!TwoDots
<1> QED BY <1>1, <1>5, <1>9

\* The number has a second dot ahead.
LEMMA SecondDot ==
  ASSUME Known, after = "nul", Step, pc = "number", word.float, Mem(currentChar + 1) = "dot"
  PROVE  Promise!TwoDots
<1> DEFINE s == Promise!start
           d == Digits(word)
           c == currentChar + 1
           N == Len(buf) + 1
           S == {"digit", "dot"}
           T == {i \in d .. N : Mem(i) = "nul" \/ Mem(i) \notin S}
<1>1. /\ d \in Nat \ {0} /\ d <= currentChar /\ s \in Nat \ {0} /\ s <= d
      /\ Promise!numberEnd = Promise!RunEnd(d, S)
      /\ NumberRun(word, currentChar)
  BY NumberAhead
<1>2. TypeOK /\ currentChar \in Nat \ {0} /\ currentChar <= Len(buf) /\ Len(buf) \in Nat
  BY AtTheToken DEF Known, IInv
<1>3. c \in Nat \ {0} /\ N \in Nat \ {0} /\ d <= N
  BY <1>1, <1>2
<1>4. Mem(N) = "nul"
  BY <1>2, MemFacts
<1>5. T \in SUBSET Nat /\ T # {}
  <2>1. N \in T
    BY <1>1, <1>3, <1>4
  <2>2. \A i \in T : i \in Nat
    BY <1>1, <1>3
  <2> QED BY <2>1, <2>2
<1>6. PICK e \in T : \A y \in T : e <= y
  <2> HIDE DEF T
  <2> QED BY <1>5, LeastElement
<1>7. e \in d .. N /\ (Mem(e) = "nul" \/ Mem(e) \notin S)
  BY <1>6
<1>8. \A k \in d .. e - 1 : Mem(k) # "nul" /\ Mem(k) \in S
  <2> SUFFICES ASSUME NEW k \in d .. e - 1 PROVE k \notin T /\ k \in d .. N
    OBVIOUS
  <2>1. k \in d .. N /\ ~(e <= k)
    BY <1>1, <1>3, <1>7
  <2> HIDE DEF T
  <2> QED BY <1>6, <2>1
<1>9. \A k \in d .. c : Mem(k) # "nul" /\ Mem(k) \in S
  <2>1. \A k \in d .. c : k \in d .. currentChar \/ k = c
    BY <1>1, <1>2
  <2> QED BY <1>1, <2>1 DEF NumberRun
<1>10. e > c /\ e - 1 \in d - 1 .. Len(buf)
  <2>1. e \notin d .. c
    BY <1>7, <1>9
  <2> HIDE DEF T, S
  <2> QED BY <1>1, <1>2, <1>3, <1>7, <2>1
<1>11. PICK j : j = e - 1
  OBVIOUS
<1>12. j \in d - 1 .. Len(buf) /\ j + 1 = e /\ c <= j /\ j \in 0 .. Len(buf)
  <2> HIDE DEF S
  <2> QED BY <1>1, <1>2, <1>7, <1>10, <1>11
<1> HIDE DEF T, d, S, s, N
<1>13. Promise!numberEnd = j
  <2>1. Promise!RunEnd(d, S) = j
    BY <1>1, <1>2, <1>7, <1>8, <1>11, <1>12, RunEndIs
  <2> QED BY <1>1, <2>1
<1>14. Promise!Dots = {i \in s .. j : Mem(i) = "dot"}
  BY <1>1, <1>2, <1>12, <1>13, DotsAre DEF s
<1>15. PICK i \in d .. currentChar : Mem(i) = "dot"
  BY <1>1 DEF NumberRun, d
<1>16. i \in s .. j /\ c \in s .. j /\ i # c
  BY <1>1, <1>2, <1>12
<1> QED BY <1>14, <1>15, <1>16 DEF Promise!TwoDots

LEMMA FailMaps ==
  ASSUME NEW error \in ErrorType, NEW from, NEW to, returns(error, from, to), buf' = buf
  PROVE  Promise!Fail(error)
<1>1. result'.status = error
  BY DEF returns
<1>2. failed'
  BY <1>1 DEF failed
<1>3. textRead' = 0 /\ treeBuilt' = <<>> /\ listsOpen' = <<>>
  BY <1>2 DEF textRead, treeBuilt, listsOpen
<1> QED BY <1>1, <1>3 DEF Promise!Fail

LEMMA NumberStep ==
  ASSUME Known, Known', after = "nul", numberLoop, pc' # "number"
  PROVE  Promise!Atom \/ Promise!Reject
<1> DEFINE c == currentChar + 1
<1>1. /\ Step /\ pc = "number" /\ TypeOK /\ nextChar(1) = c /\ word.float \in BOOLEAN
      /\ word.start \in Loc
  BY DEF Step, Known, IInv, numberLoop, nextChar, TypeOK
<1>2. /\ currentChar \in Nat \ {0} /\ currentChar <= Len(buf) /\ Len(buf) \in Nat
      /\ result.status = "pending" /\ c \in Nat \ {0}
  <2>1. /\ currentChar \in Nat \ {0} /\ currentChar <= Len(buf) /\ Len(buf) \in Nat
        /\ result.status = "pending"
    BY <1>1, AtTheToken
  <2> QED BY <2>1
<1>3. /\ Promise!Numeric /\ Promise!Is(Promise!start, Identifier)
  BY <1>1, NumberAhead
<1>4. CASE Mem(c) = "dot" /\ word.float
  <2>1. returns("TwoFloatPoints", loc, loc) /\ buf' = buf
    BY <1>1, <1>4 DEF numberLoop, fails, input
  <2>2. Promise!TwoDots
    BY <1>1, <1>4, SecondDot
  <2>3. Promise!Fail("TwoFloatPoints")
    BY <2>1, FailMaps DEF ErrorType
  <2> QED BY <1>2, <1>3, <2>2, <2>3 DEF Promise!Reject
<1>5. CASE Mem(c) \notin {"digit", "dot"}
  <2>1. Promise!numberEnd = currentChar /\ ~Promise!TwoDots
    BY <1>1, <1>5, NumberEnds
  <2> HIDE DEF c
  <2>2. \A S : Promise!Is(c, S) <=> Mem(c) # "nul" /\ Mem(c) \in S
    BY <1>1, <1>2, IsMem
  <2>3. Promise!Is(Promise!numberEnd + 1, {"alpha"}) <=> Mem(c) = "alpha"
    BY <2>1, <2>2 DEF c
  <2>4. CASE Mem(c) = "alpha"
    <3>1. returns("InvalidDigitForNumber", nextLocation, word.start) /\ buf' = buf
      BY <1>1, <2>4 DEF numberLoop, fails, input, c
    <3>2. Promise!Fail("InvalidDigitForNumber")
      BY <3>1, FailMaps DEF ErrorType
    <3> QED BY <1>2, <1>3, <2>1, <2>3, <2>4, <3>2 DEF Promise!Reject
  <2>5. CASE Mem(c) # "alpha"
    <3>1. returnAtom("Number", word.start)
      BY <1>1, <1>5, <2>5 DEF numberLoop, c
    <3>2. /\ treeBuilt' = Append(treeBuilt, [kind |-> "Number", from |-> Promise!start, to |-> currentChar,
                                             parent |-> Promise!parent])
          /\ textRead' = Promise!past(currentChar) /\ listsOpen' = listsOpen
          /\ result'.status = result.status /\ buf' = buf
      BY <1>1, <3>1, AtomRead
    <3>3. Promise!tokenEnd = currentChar
      BY <1>3, <2>1 DEF Promise!tokenEnd
    <3> QED BY <1>2, <1>3, <2>1, <2>3, <2>5, <3>2, <3>3 DEF Promise!Atom
  <2> QED BY <2>4, <2>5
<1>6. CASE Mem(c) = "digit" \/ (Mem(c) = "dot" /\ ~word.float)
  BY <1>1, <1>6 DEF numberLoop
<1> QED BY <1>1, <1>4, <1>5, <1>6

LEMMA RejectStep ==
  ASSUME Known, Known', after = "nul", eofInList \/ badSymbol
  PROVE  Promise!Reject
<1> DEFINE c == currentChar + 1
<1>1. /\ Step /\ [Next]_vars /\ pc \in {"eof", "readSymbol"} /\ TypeOK /\ nextChar(1) = c
      /\ Control /\ Position /\ Upcoming /\ pc # "done"
  BY StepIsAlive DEF Step, Next, Known, IInv, Guided, eofInList, badSymbol, nextChar
<1>2. /\ Promise!start = c /\ nextNonSpace = c /\ c \in Nat \ {0} /\ c > currentChar
      /\ listsOpen = stack /\ result.status = "pending"
  <2>1. /\ Promise!start = nextNonSpace /\ nextNonSpace = c /\ currentChar \in Nat
        /\ listsOpen = stack /\ result.status = "pending"
    BY <1>1, AtTheNext
  <2> QED BY <2>1
<1> HIDE DEF c
<1>3. /\ \A S : Promise!Is(c, S) <=> Mem(c) # "nul" /\ Mem(c) \in S
      /\ Promise!AtEnd(c) <=> Mem(c) = "nul"
  BY <1>1, <1>2, IsMem
<1>4. CASE eofInList
  <2>1. pc = "eof" /\ returns("EOFWhileScaningAList", heap[stack[Len(stack)]].start, nextLocation)
        /\ buf' = buf
    BY <1>4 DEF eofInList, fails, input
  <2>2. Mem(c) = "nul" /\ stack # <<>>
    BY <1>1, <1>2, <2>1 DEF Upcoming, Control, InList
  <2>3. Promise!Fail("EOFWhileScaningAList")
    BY <2>1, FailMaps DEF ErrorType
  <2> QED BY <1>2, <1>3, <2>2, <2>3 DEF Promise!Reject
<1>5. CASE badSymbol
  <2>1. /\ pc = "readSymbol" /\ (Mem(c) \notin Identifier \/ isEndOfBuffer(c)) /\ buf' = buf
        /\ returns(IF Mem(c) = ")" THEN "ExtraParen" ELSE "InvalidCharacterForSymbol",
                   nextLocation, nextLocation)
    BY <1>1, <1>5 DEF badSymbol, fails, input, isValidForIdentifier
  <2>2. Mem(c) \notin {"nul", "("} /\ (stack # <<>> => Mem(c) # ")")
    BY <1>1, <1>2, <2>1 DEF Upcoming
  <2>3. Mem(c) \notin Identifier
    BY <1>1, <1>2, <2>1, <2>2, LookAhead
  <2>4. CASE Mem(c) = ")"
    <3>1. Promise!Fail("ExtraParen")
      BY <2>1, <2>4, FailMaps DEF ErrorType
    <3>2. listsOpen = <<>>
      BY <1>2, <2>2, <2>4
    <3> QED BY <1>2, <1>3, <2>2, <2>4, <3>1, <3>2 DEF Promise!Reject
  <2>5. CASE Mem(c) # ")"
    <3>1. Promise!Fail("InvalidCharacterForSymbol")
      BY <2>1, <2>5, FailMaps DEF ErrorType
    <3>2. ~Promise!AtEnd(c) /\ ~Promise!Is(c, Identifier \cup {"(", ")"})
      BY <1>3, <2>2, <2>3, <2>5
    <3> QED BY <1>2, <3>1, <3>2 DEF Promise!Reject
  <2> QED BY <2>4, <2>5
<1> QED BY <1>4, <1>5

(***************************************************************************)
(* The refinement.                                                         *)
(***************************************************************************)
LEMMA StepMaps ==
  ASSUME Known, Known', after = "nul", Step
  PROVE  [Promise!Next]_(Promise!vars)
<1>1. CASE pc' \in {"symbol", "number", "readNumber"}
  BY <1>1, TokenStutters
<1>2. CASE pc' \notin {"symbol", "number", "readNumber"}
  <2>1. CASE (skipSpace \/ read \/ readExpr \/ listLoop) /\ pc' # "done"
    BY <2>1, WalkStutters
  <2>2. CASE (read \/ readExpr) /\ pc' = "done"
    BY <2>2, FinishStep DEF Promise!Next
  <2>3. CASE (skipSpace \/ listLoop) /\ pc' = "done"
    BY <2>3 DEF skipSpace, listLoop, skipThen, Known, IInv, Control
  <2>4. CASE readList
    BY <2>4, OpenStep DEF Promise!Next
  <2>5. CASE closeList
    BY <2>5, CloseStep DEF Promise!Next
  <2>6. CASE eofInList \/ badSymbol
    BY <2>6, RejectStep DEF Promise!Next
  <2>7. CASE symbolLoop
    BY <1>2, <2>7, SymbolStep DEF Promise!Next
  <2>8. CASE numberLoop
    BY <1>2, <2>8, NumberStep DEF Promise!Next
  <2>9. CASE startNumber \/ startSymbol
    BY <1>2, <2>9 DEF startNumber, startSymbol
  <2>10. CASE readNumber
    <3>1. Mem(nextChar(1)) = "digit"
      BY <2>10 DEF readNumber, Known, IInv, Ahead, nextChar
    <3> QED BY <1>2, <2>10, <3>1 DEF readNumber
  <2> QED BY <2>1, <2>2, <2>3, <2>4, <2>5, <2>6, <2>7, <2>8, <2>9, <2>10 DEF Step
<1> QED BY <1>1, <1>2

LEMMA InitMaps ==
  ASSUME Init, TypeOK, after = "nul"
  PROVE  Promise!Init
<1>1. /\ buf \in Buffers /\ currentChar = 0 /\ pc = "read" /\ word = NoWord
      /\ heap = <<>> /\ stack = <<>> /\ result = Pending
  BY DEF Init
<1>2. ~failed /\ result.status = "pending"
  BY <1>1 DEF failed, Pending, ErrorType
<1>3. forest = <<>>
  <2>1. DOMAIN heap = 1 .. 0
    BY <1>1
  <2>2. forest = [p \in 1 .. 0 |-> forest[p]] /\ \A p \in 1 .. 0 : forest[p] \in {}
    BY <2>1 DEF forest
  <2>3. forest \in Seq({}) /\ Len(forest) = 0
    BY <2>2, SeqOf
  <2> QED BY <2>3, EmptySeq
<1>4. consumed = NextFrom(0) - 1
  BY <1>1 DEF consumed, NextFrom, nextNonSpace
<1>5. Promise!past(0) = NextFrom(0) - 1
  <2>1. Len(buf) \in Nat
    BY BuffersAssumption DEF TypeOK
  <2>2. 0 <= Len(buf)
    BY <2>1
  <2> QED BY <2>2, PastIs
<1> QED BY <1>1, <1>2, <1>3, <1>4, <1>5 DEF Promise!Init, textRead, treeBuilt, listsOpen

\* On terminated buffers, of any length and with lists of any depth, each
\* step of the reader is a token read whole, the end of the read, or nothing:
\* the recursive descent builds the forest that SExpr promises, or gives the
\* error it promises.
THEOREM ReaderKeepsPromise ==
  ASSUME Foreign = {"nul"}
  PROVE  Spec => Promise!SafeSpec
<1>1. ASSUME Init, TypeOK PROVE Promise!Init
  <2>1. after = "nul"
    BY <1>1 DEF TypeOK
  <2> QED BY <1>1, <2>1, InitMaps
<1>2. ASSUME Known, Known', [Next]_vars PROVE [Promise!Next]_(Promise!vars)
  <2>1. after = "nul"
    BY <1>2 DEF Known, IInv, TypeOK
  <2>2. CASE Step
    BY <1>2, <2>1, <2>2, StepMaps
  <2>3. CASE UNCHANGED vars
    <3>1. UNCHANGED <<buf, after, currentChar, currentPos, pc, word, heap, stack, result>>
      BY <2>3 DEF vars, input, position, tree
    <3>2. failed' = failed
      BY <3>1 DEF failed
    <3>3. nextNonSpace' = nextNonSpace
      BY <3>1 DEF nextNonSpace, Mem
    <3>4. consumed' = consumed
      BY <3>1, <3>3 DEF consumed
    <3>5. ASSUME NEW p PROVE ownerOf(p)' = ownerOf(p)
      BY <3>1 DEF ownerOf
    <3>6. forest' = forest
      BY <3>1, <3>5, ForestStays
    <3> QED BY <3>1, <3>2, <3>4, <3>6 DEF Promise!vars, textRead, treeBuilt, listsOpen
  <2> QED BY <1>2, <2>2, <2>3 DEF Next, Terminated
<1>3. IInv /\ Words /\ Guided /\ Tree => Known
  BY ParentsHold DEF Known, IInv
<1>4. Spec => [](IInv /\ Words /\ Guided /\ Tree)
  BY Invariance, WordsInvariant, GuidedInvariant, TreeInvariant, PTL
<1>5. Spec => []Known
  BY <1>3, <1>4, PTL
<1>6. Spec => []TypeOK
  BY TypeCorrect
<1> QED BY <1>1, <1>2, <1>5, <1>6, PTL DEF Spec, Promise!SafeSpec
=============================================================================
