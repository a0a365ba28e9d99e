------------------------------- MODULE SExpr --------------------------------
(***************************************************************************)
(* What serene::Reader promises, without its control flow: a text is a     *)
(* sequence of tokens, each read whole in one step, and the tokens build a *)
(* forest.  A token is described by what it is (a maximal run of certain   *)
(* characters), not by how it is scanned.                                  *)
(*                                                                         *)
(* The forest is listed in the order of the text, each node naming the     *)
(* list it belongs to (0: none).                                           *)
(***************************************************************************)
EXTENDS Integers, Sequences

CONSTANTS Texts, Space, Identifier

VARIABLES
  text,     \* the text to read; "nul" ends it early
  at,       \* how much of it has been turned into tokens and spaces
  nodes,    \* the forest
  open,     \* the lists still open, outermost first
  verdict   \* "pending", "ok", or the error that ended the read

vars == <<text, at, nodes, open, verdict>>

Is(i, S) == i <= Len(text) /\ text[i] # "nul" /\ text[i] \in S

AtEnd(i) == ~(i <= Len(text) /\ text[i] # "nul")

\* Where the maximal run of characters of S that starts at i ends.
RunEnd(i, S) ==
  CHOOSE j \in i - 1 .. Len(text) : (\A k \in i .. j : Is(k, S)) /\ ~Is(j + 1, S)

\* A token takes the spaces behind it with it, so the next one starts here.
start == at + 1
past(i) == RunEnd(i + 1, Space)

Negative == Is(start, {"minus"}) /\ Is(start + 1, {"digit"})
Numeric  == Is(start, {"digit"}) \/ Negative

\* A number is a run of digits and dots after its sign...
numberEnd == RunEnd(IF Negative THEN start + 1 ELSE start, {"digit", "dot"})
Dots      == {i \in start .. numberEnd : text[i] = "dot"}
TwoDots   == \E i, j \in Dots : i # j

\* ...and a symbol any other run of identifier characters.
tokenEnd == IF Numeric THEN numberEnd ELSE RunEnd(start, Identifier)

parent == IF open = <<>> THEN 0 ELSE open[Len(open)]

Init ==
  /\ text \in Texts
  /\ at = past(0)
  /\ nodes = <<>>
  /\ open = <<>>
  /\ verdict = "pending"

Atom ==
  /\ verdict = "pending"
  /\ Is(start, Identifier)
  /\ Numeric => ~TwoDots /\ ~Is(numberEnd + 1, {"alpha"})
  /\ nodes' = Append(nodes, [kind |-> IF Numeric THEN "Number" ELSE "Symbol",
                             from |-> start, to |-> tokenEnd, parent |-> parent])
  /\ at' = past(tokenEnd)
  /\ UNCHANGED <<text, open, verdict>>

Open ==
  /\ verdict = "pending"
  /\ Is(start, {"("})
  /\ nodes' = Append(nodes, [kind |-> "List", from |-> 0, to |-> 0, parent |-> parent])
  /\ open' = Append(open, Len(nodes'))
  /\ at' = past(start)
  /\ UNCHANGED <<text, verdict>>

Close ==
  /\ verdict = "pending"
  /\ Is(start, {")"}) /\ open # <<>>
  /\ open' = SubSeq(open, 1, Len(open) - 1)
  /\ at' = past(start)
  /\ UNCHANGED <<text, nodes, verdict>>

Finish ==
  /\ verdict = "pending"
  /\ AtEnd(start) /\ open = <<>>
  /\ verdict' = "ok"
  /\ UNCHANGED <<text, at, nodes, open>>

\* An error delivers nothing: what was built is thrown away.
Fail(error) ==
  /\ verdict' = error
  /\ at' = 0 /\ nodes' = <<>> /\ open' = <<>>
  /\ UNCHANGED text

Reject ==
  /\ verdict = "pending"
  /\ \/ AtEnd(start) /\ open # <<>> /\ Fail("EOFWhileScaningAList")
     \/ Is(start, {")"}) /\ open = <<>> /\ Fail("ExtraParen")
     \/ /\ ~AtEnd(start) /\ ~Is(start, Identifier \cup {"(", ")"})
        /\ Fail("InvalidCharacterForSymbol")
     \/ Numeric /\ TwoDots /\ Fail("TwoFloatPoints")
     \/ /\ Numeric /\ ~TwoDots /\ Is(numberEnd + 1, {"alpha"})
        /\ Fail("InvalidDigitForNumber")

Next == Atom \/ Open \/ Close \/ Finish \/ Reject

\* What never goes wrong, and that it comes to an end.
SafeSpec == Init /\ [][Next]_vars
Spec     == SafeSpec /\ WF_vars(Next)
=============================================================================
