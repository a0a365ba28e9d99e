------------------------------- MODULE Reader -------------------------------
(***************************************************************************)
(* serene::Reader (serene/src/reader.h, reader.cpp): the recursive-descent *)
(* reader that turns one source buffer into an AST or one error.           *)
(*                                                                         *)
(* The C++ call stack is made explicit: pc says which function (or loop    *)
(* body) runs next, ret where advance(true) returns to, and stack holds    *)
(* the lists whose readList() call has not returned.  One action is one    *)
(* call-free stretch of one function; a loop is one action per iteration.  *)
(*                                                                         *)
(* A character is its class: the classes are the finest partition that the *)
(* reader's tests (isspace, isdigit, isalpha, isValidForIdentifier and the *)
(* literal comparisons) can tell apart.  A pointer into the buffer is an   *)
(* offset, 1 being the buffer's first byte.                                *)
(***************************************************************************)
EXTENDS Integers, Sequences, FiniteSets

CONSTANTS
  Buffers,  \* the buffers handed to the reader, sequences of characters
  Foreign,  \* what the byte after the buffer may hold ("nul": terminated)
  LocMod    \* 2^w, w the width of Location::line and Location::col

Space      == {"space", "newline"}              \* isspace
Identifier == {"digit", "alpha", "dot", "minus", "sign"}
Char       == Space \cup Identifier \cup {"(", ")", "other", "nul"}

ASSUME BuffersAssumption == Buffers \subseteq Seq(Char)
ASSUME ForeignAssumption == Foreign \subseteq Char
ASSUME LocModAssumption  == LocMod \in Nat \ {0, 1}

VARIABLES
  buf,          \* Reader::buf, the text to read
  after,        \* the byte that follows it in memory
  currentChar,  \* Reader::currentChar, 0 standing for buf.begin() - 1
  currentPos,   \* Reader::currentPos
  loc,          \* Reader::currentLocation
  readEOL,      \* Reader::readEOL
  pc, ret,      \* the function that runs, and the one advance(true) resumes
  word,         \* the locals of readNumber and readSymbol
  heap,         \* the nodes allocated so far; a node pointer is its index
  stack,        \* the lists of the pending readList() calls, outermost first
  ast,          \* Reader::ast
  result        \* what read() returned

position == <<currentChar, currentPos, loc, readEOL>>
tree     == <<heap, stack, ast>>
input    == <<buf, after>>
vars     == <<input, position, pc, ret, word, tree, result>>

Loc        == [line : 0 .. LocMod - 1, col : 0 .. LocMod - 1]
NoLocation == [line |-> 0, col |-> 0]            \* Location's default members
NoWord     == [text |-> <<>>, start |-> NoLocation, neg |-> FALSE, float |-> FALSE]
EmptyNode  == 0                                  \* the null node pointer
Pending    == [status |-> "pending", start |-> NoLocation, end |-> NoLocation]

\* "ExtraParen" is InvalidCharacterForSymbol with the message for a ')'.
ErrorType == {"InvalidDigitForNumber", "TwoFloatPoints",
              "InvalidCharacterForSymbol", "ExtraParen", "EOFWhileScaningAList"}

(***************************************************************************)
(* Looking at the buffer.                                                  *)
(***************************************************************************)

\* The byte at an offset.  Only one byte after the buffer is arbitrary; the
\* next one ends every scan.
Mem(i) ==
  IF i <= Len(buf) THEN buf[i] ELSE IF i = Len(buf) + 1 THEN after ELSE "nul"

\* nextChar(false, count) and nextChar(true): the pointers they return.
nextChar(count) == currentChar + count

nextNonSpace ==
  CHOOSE i \in currentChar + 1 .. Len(buf) + 2 :
    /\ Mem(i) \notin Space
    /\ \A j \in currentChar + 1 .. i - 1 : Mem(j) \in Space

\* "nul" stands for '\0' and for the byte 0xFF, which compares equal to EOF.
isEndOfBuffer(c) == Mem(c) = "nul" \/ currentPos > Len(buf)

isValidForIdentifier(char) == char \in Identifier

(***************************************************************************)
(* Moving in the buffer.                                                   *)
(***************************************************************************)

Inc_NoWrap(n) == n + 1

\* ++ on an unsigned short.
Inc(n) == IF n + 1 = LocMod THEN 0 ELSE n + 1

\* The location advanceByOne leaves: a line starts at the character after \n.
nextLocation ==
  IF readEOL
  THEN [line |-> Inc(loc.line), col |-> 1]
  ELSE [loc EXCEPT !.col = Inc(@)]

advanceByOne_EolOnNewline ==
  /\ currentChar' = currentChar + 1
  /\ currentPos' = currentPos + 1
  /\ loc' = IF Mem(currentChar + 1) = "newline"
            THEN [line |-> Inc(loc.line), col |-> 1]
            ELSE [loc EXCEPT !.col = Inc(@)]
  /\ readEOL' = (Mem(currentChar + 1) = "newline")

advanceByOne ==
  /\ currentChar' = currentChar + 1
  /\ currentPos' = currentPos + 1
  /\ loc' = nextLocation
  /\ readEOL' = (Mem(currentChar + 1) = "newline")

\* advance(true), entered from a function that goes on at next.
skipThen(next) == pc' = "skip" /\ ret' = next

skipSpace_StopsAtNewline ==
  /\ pc = "skip"
  /\ IF Mem(nextChar(1)) = "space"
     THEN advanceByOne /\ UNCHANGED pc
     ELSE pc' = ret /\ UNCHANGED position
  /\ UNCHANGED <<input, ret, word, tree, result>>

\* The loop of advance(true).
skipSpace ==
  /\ pc = "skip"
  /\ IF Mem(nextChar(1)) \in Space
     THEN advanceByOne /\ UNCHANGED pc
     ELSE pc' = ret /\ UNCHANGED position
  /\ UNCHANGED <<input, ret, word, tree, result>>

(***************************************************************************)
(* Returning from read(), readExpr() and below.                            *)
(***************************************************************************)

\* read() returns; errors carry the range the code puts in them.
returns(status, start, end) ==
  /\ pc' = "done"
  /\ result' = [status |-> status, start |-> start, end |-> end]

\* An error travels through every pending readList() up to read()'s caller.
fails(error, start, end) ==
  returns(error, start, end) /\ UNCHANGED <<input, ret, word, tree>>

node(kind, start, end) ==
  [kind |-> kind, text |-> word.text, elems |-> <<>>, start |-> start, end |-> end,
   neg |-> word.neg, float |-> word.float]

\* readExpr() returned n with the lists open pending: the innermost of them
\* appends it, or read() pushes it on its AST.
returnExpr(nodes, open, n) ==
  IF open = <<>>
  THEN /\ heap' = nodes
       /\ ast' = Append(ast, n)
       /\ stack' = open
       /\ pc' = "read"
  ELSE /\ heap' = [nodes EXCEPT ![open[Len(open)]].elems = Append(@, n)]
       /\ stack' = open
       /\ pc' = "list"
       /\ UNCHANGED ast

\* A finished atom is allocated and returned.
returnAtom(kind, start) ==
  /\ returnExpr(Append(heap, node(kind, start, loc)), stack, Len(heap) + 1)
  /\ word' = NoWord
  /\ UNCHANGED <<input, position, ret, result>>

(***************************************************************************)
(* read() and readExpr().                                                  *)
(***************************************************************************)

\* One iteration of read()'s loop, whose counter the code never advances.
read ==
  /\ pc = "read"
  /\ IF Len(buf) = 0 \/ isEndOfBuffer(nextNonSpace)
     THEN returns("ok", NoLocation, NoLocation) /\ UNCHANGED ret
     ELSE skipThen("readExpr") /\ UNCHANGED result
  /\ UNCHANGED <<input, position, word, tree>>

readExpr ==
  /\ pc = "readExpr"
  /\ CASE ~isEndOfBuffer(nextNonSpace) ->
            /\ skipThen(IF Mem(nextNonSpace) = "(" THEN "readList" ELSE "readSymbol")
            /\ UNCHANGED <<tree, result>>
       [] isEndOfBuffer(nextNonSpace) /\ stack = <<>> ->
            returns("ok", NoLocation, NoLocation) /\ UNCHANGED <<ret, tree>>
       [] OTHER ->
            returnExpr(heap, stack, EmptyNode) /\ UNCHANGED <<ret, result>>
  /\ UNCHANGED <<input, position, word>>

(***************************************************************************)
(* readList().                                                             *)
(***************************************************************************)

\* Up to the loop: the list's location is taken before '(' is consumed.
readList ==
  /\ pc = "readList"
  /\ heap' = Append(heap, node("List", loc, loc))
  /\ stack' = Append(stack, Len(heap) + 1)
  /\ advanceByOne
  /\ pc' = "list"
  /\ UNCHANGED <<input, ret, word, ast, result>>

\* One look at the loop's head.
listLoop_EofCloses ==
  /\ pc = "list"
  /\ skipThen(IF Mem(nextNonSpace) = ")" \/ isEndOfBuffer(nextNonSpace)
              THEN "close" ELSE "readExpr")
  /\ UNCHANGED <<input, position, word, tree, result>>

listLoop_WaitsAtEof ==
  /\ pc = "list"
  /\ skipThen(IF isEndOfBuffer(nextNonSpace) THEN "list"
              ELSE IF Mem(nextNonSpace) = ")" THEN "close" ELSE "readExpr")
  /\ UNCHANGED <<input, position, word, tree, result>>

listLoop ==
  /\ pc = "list"
  /\ skipThen(IF isEndOfBuffer(nextNonSpace) THEN "eof"
              ELSE IF Mem(nextNonSpace) = ")" THEN "close" ELSE "readExpr")
  /\ UNCHANGED <<input, position, word, tree, result>>

\* The ')' branch, and readList()'s return.
closeList_KeepsFrame ==
  LET list == stack[Len(stack)]
  IN /\ pc = "close"
     /\ advanceByOne
     /\ returnExpr([heap EXCEPT ![list].end = nextLocation], stack, list)
     /\ UNCHANGED <<input, ret, word, result>>

closeList ==
  LET list == stack[Len(stack)]
  IN /\ pc = "close"
     /\ advanceByOne
     /\ returnExpr([heap EXCEPT ![list].end = nextLocation],
                   SubSeq(stack, 1, Len(stack) - 1), list)
     /\ UNCHANGED <<input, ret, word, result>>

eofInList ==
  /\ pc = "eof"
  /\ advanceByOne
  /\ fails("EOFWhileScaningAList", heap[stack[Len(stack)]].start, nextLocation)

(***************************************************************************)
(* readSymbol() and readNumber().                                          *)
(***************************************************************************)

\* The error branch: anything that cannot start an atom.
badSymbol ==
  LET c == nextChar(1)
  IN /\ pc = "readSymbol"
     /\ ~isValidForIdentifier(Mem(c)) \/ isEndOfBuffer(c)
     /\ advanceByOne
     /\ fails(IF Mem(c) = ")" THEN "ExtraParen" ELSE "InvalidCharacterForSymbol",
              nextLocation, nextLocation)

\* A sign before a digit is swallowed and remembered.
startNumber ==
  LET c        == nextChar(1)
      negative == Mem(c) = "minus" /\ Mem(nextChar(2)) = "digit"
  IN /\ pc = "readSymbol"
     /\ ~isEndOfBuffer(c)
     /\ negative \/ Mem(c) = "digit"
     /\ IF negative THEN advanceByOne ELSE UNCHANGED position
     /\ word' = [NoWord EXCEPT !.neg = negative,
                               !.text = IF negative THEN <<c>> ELSE <<>>]
     /\ pc' = "readNumber"
     /\ UNCHANGED <<input, ret, tree, result>>

startSymbol ==
  LET c == nextChar(1)
  IN /\ pc = "readSymbol"
     /\ isValidForIdentifier(Mem(c)) /\ ~isEndOfBuffer(c)
     /\ Mem(c) # "digit"
     /\ ~(Mem(c) = "minus" /\ Mem(nextChar(2)) = "digit")
     /\ advanceByOne
     /\ word' = [NoWord EXCEPT !.text = <<c>>]
     /\ pc' = "symbol"
     /\ UNCHANGED <<input, ret, tree, result>>

symbolLoop_DropsLast ==
  LET c == nextChar(1)
  IN /\ pc = "symbol"
     /\ IF ~isEndOfBuffer(c) /\ isValidForIdentifier(Mem(c))
        THEN /\ advanceByOne
             /\ word' = [word EXCEPT !.text =
                           IF Mem(c + 1) \in Identifier THEN Append(@, c) ELSE @]
             /\ UNCHANGED <<input, pc, ret, tree, result>>
        ELSE returnAtom("Symbol", NoLocation)

\* The default-constructed range is given an end only.
symbolLoop ==
  LET c == nextChar(1)
  IN /\ pc = "symbol"
     /\ IF ~isEndOfBuffer(c) /\ isValidForIdentifier(Mem(c))
        THEN /\ advanceByOne
             /\ word' = [word EXCEPT !.text = Append(@, c)]
             /\ UNCHANGED <<input, pc, ret, tree, result>>
        ELSE returnAtom("Symbol", NoLocation)

\* Up to readNumber()'s loop.
readNumber ==
  LET c == nextChar(1)
  IN /\ pc = "readNumber"
     /\ advanceByOne
     /\ IF Mem(c) = "digit"
        THEN /\ word' = [word EXCEPT !.text = Append(@, c), !.start = nextLocation]
             /\ pc' = "number"
             /\ UNCHANGED <<input, ret, tree, result>>
        ELSE fails("InvalidDigitForNumber", nextLocation, nextLocation)

numberLoop_KeepsFloatFlag ==
  LET c == nextChar(1)
  IN /\ pc = "number"
     /\ IF Mem(c) \in {"digit", "dot"}
        THEN /\ advanceByOne
             /\ word' = [word EXCEPT !.text = Append(@, c)]
             /\ UNCHANGED <<input, pc, ret, tree, result>>
        ELSE returnAtom("Number", word.start)

\* The loop tests the character class alone, never the end of the buffer.
numberLoop ==
  LET c == nextChar(1)
  IN /\ pc = "number"
     /\ CASE Mem(c) = "dot" /\ word.float ->
               fails("TwoFloatPoints", loc, loc) /\ UNCHANGED position
          [] Mem(c) = "digit" \/ (Mem(c) = "dot" /\ ~word.float) ->
               /\ advanceByOne
               /\ word' = [word EXCEPT !.text = Append(@, c),
                                       !.float = @ \/ Mem(c) = "dot"]
               /\ UNCHANGED <<input, pc, ret, tree, result>>
          [] Mem(c) = "alpha" ->
               advanceByOne /\ fails("InvalidDigitForNumber", nextLocation, word.start)
          [] OTHER -> returnAtom("Number", word.start)

(***************************************************************************)
(* The specification.                                                      *)
(***************************************************************************)

\* The constructor.
Init ==
  /\ buf \in Buffers
  /\ after \in Foreign
  /\ currentChar = 0
  /\ currentPos = 1
  /\ loc = [line |-> 1, col |-> 1]
  /\ readEOL = FALSE
  /\ pc = "read"
  /\ ret = "read"
  /\ word = NoWord
  /\ heap = <<>>
  /\ stack = <<>>
  /\ ast = <<>>
  /\ result = Pending

Terminated == pc = "done" /\ UNCHANGED vars

Step ==
  \/ skipSpace \/ read \/ readExpr
  \/ readList \/ listLoop \/ closeList \/ eofInList
  \/ badSymbol \/ startNumber \/ startSymbol \/ symbolLoop
  \/ readNumber \/ numberLoop

Next == Step \/ Terminated

Spec == Init /\ [][Next]_vars

\* The reader runs on its caller's thread and never waits.
FairSpec == Spec /\ WF_vars(Step)

(***************************************************************************)
(* Properties.                                                             *)
(***************************************************************************)

Node == [kind : {"Symbol", "Number", "List"}, text : Seq(Nat), elems : Seq(Nat),
         start : Loc, end : Loc, neg : BOOLEAN, float : BOOLEAN]

PC == {"read", "skip", "readExpr", "readList", "list", "close", "eof",
       "readSymbol", "symbol", "readNumber", "number", "done"}

\* The types of the reader's fields and locals.  A line or a column stays
\* below 2^w (Location::line and Location::col are unsigned shorts), and a
\* pending list is a node that exists.
TypeOK ==
  /\ buf \in Buffers /\ after \in Foreign
  /\ currentChar \in Nat /\ currentPos \in Nat
  /\ loc \in Loc /\ readEOL \in BOOLEAN
  /\ pc \in PC /\ ret \in PC
  /\ word \in [text : Seq(Nat), start : Loc, neg : BOOLEAN, float : BOOLEAN]
  /\ heap \in Seq(Node) /\ stack \in Seq(1 .. Len(heap)) /\ ast \in Seq(Nat)
  /\ result \in [status : {"pending", "ok"} \cup ErrorType, start : Loc, end : Loc]

Consumed(S) == {i \in 1 .. currentChar : Mem(i) \in S}

\* The tracked location is the geometry of the text already read, modulo the
\* width of the counters: the line is one more than the newlines before the
\* current character, the column the distance from the last of them (and on
\* the first line one more than the character's place in it).  The code
\* never counts: it keeps one flag, readEOL, across calls.
LocationExact ==
  LET before == {i \in 1 .. currentChar - 1 : Mem(i) = "newline"}
  IN /\ loc.line = (1 + Cardinality(before)) % LocMod
     /\ \/ before = {} /\ loc.col = (currentChar + 1) % LocMod
        \/ \E last \in before : /\ \A i \in before : i <= last
                                /\ loc.col = (currentChar - last) % LocMod

\* The offsets the next step dereferences.
Dereferenced ==
  LET c == nextChar(1)
  IN CASE pc \in {"read", "readExpr", "list"} -> c .. nextNonSpace
       [] pc = "readSymbol" /\ Mem(c) = "minus" -> {c, c + 1}
       [] pc = "done" -> {}
       [] OTHER -> {c}

\* In a terminated buffer no look-ahead and no advance ever touches a byte
\* behind the terminator, although the whitespace loops, readNumber's loop
\* and the two-character look-ahead for a sign test no bound.
StaysInBuffer ==
  after = "nul" => \A i \in Dereferenced : i <= Len(buf) + 1

\* reader.cpp:326 asserts that readList() is entered at a parenthesis; the
\* closing branch and readNumber() count on the same of their character.
DispatchAgrees ==
  /\ pc = "readList"   => Mem(nextChar(1)) = "("
  /\ pc = "close"      => Mem(nextChar(1)) = ")"
  /\ pc = "readNumber" => Mem(nextChar(1)) = "digit"

\* The C++ recursion is as deep as the parentheses that are open in the text
\* read so far: no list is forgotten on the stack or closed twice.
StackMirrorsNesting ==
  pc # "done" =>
    Cardinality(Consumed({"("})) = Len(stack) + Cardinality(Consumed({")"}))

Tokens == {heap[n].text : n \in {m \in DOMAIN heap : heap[m].kind # "List"}}

\* Until read() returns, every consumed character of an atom is in exactly
\* one token, the finished ones and the one being read: none is lost where
\* two atoms touch, and none is counted twice.
TokensComplete ==
  pc # "done" =>
    \A i \in Consumed(Identifier) :
      Cardinality({t \in Tokens \cup {word.text} : \E k \in DOMAIN t : t[k] = i}) = 1

Owners(n) ==
  {<<0, k>> : k \in {k \in DOMAIN ast : ast[k] = n}}
    \cup {<<-1, k>> : k \in {k \in DOMAIN stack : stack[k] = n}}
    \cup UNION {{<<m, k>> : k \in {k \in DOMAIN heap[m].elems : heap[m].elems[k] = n}} :
                 m \in DOMAIN heap}

Increasing(s) == \A i, j \in DOMAIN s : i < j => s[i] < s[j]

\* Nodes are unique_ptrs: each is owned once, by the AST, by one list or by
\* the readList() call that builds it; and the children of a list, like the
\* AST, are in the order in which the text names them.
OwnedOnceInOrder ==
  /\ \A n \in DOMAIN heap : Cardinality(Owners(n)) = 1
  /\ Increasing(ast)
  /\ \A n \in DOMAIN heap : Increasing(heap[n].elems)

\* From the text to the AST nothing gets lost, doubled or out of order.
NothingLost == TokensComplete /\ OwnedOnceInOrder

\* A read of any buffer returns.  read()'s loop counter never moves, so it
\* is each round's progress in the text that ends the loop.
Termination == <>(pc = "done")

\* What reader.h says of currentPos: it finds the end of a buffer that is
\* not terminated, so no node holds a character that is not the buffer's.
NodesWithinBuffer ==
  \A n \in DOMAIN heap : \A k \in DOMAIN heap[n].text : heap[n].text[k] <= Len(buf)
=============================================================================
