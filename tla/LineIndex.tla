----------------------------- MODULE LineIndex ------------------------------
(***************************************************************************)
(* SourceMgr::SrcBuffer's index from line numbers to the text              *)
(* (serene/src/source_mgr.cpp): the offsets of the newlines, in a vector   *)
(* whose element type is the narrowest one the size of the text allows.    *)
(*                                                                         *)
(* An offset counts from 0 (bufStart), as in the code; text[n + 1] is the  *)
(* character at offset n.                                                  *)
(***************************************************************************)
EXTENDS Integers, Sequences, FiniteSets

CONSTANT Widths  \* 2^w of the element types, narrowest first (uint8_t, ...)

ASSUME WidthsAssumption ==
  /\ Widths \in Seq(Nat \ {0}) /\ Widths # <<>>
  /\ \A j, k \in DOMAIN Widths : j < k => Widths[j] < Widths[k]

Null == -1

fits_OffByTwo(text, k) == Len(text) <= Widths[k] + 1

\* sz <= std::numeric_limits<T>::max().
fits(text, k) == Len(text) <= Widths[k] - 1

\* The T that getPointerForLineNumber and ~SrcBuffer select; the last one is
\* taken without a test.
elementType(text) ==
  Widths[CHOOSE k \in DOMAIN Widths : /\ fits(text, k) \/ k = Len(Widths)
                                      /\ \A j \in 1 .. k - 1 : ~fits(text, j)]

\* The vector GetOrCreateOffsetCache<T> fills, static_cast<T> included.
newlineOffsets(text, T) ==
  LET found[n \in 0 .. Len(text)] ==
        IF n = 0 THEN <<>>
        ELSE IF text[n] = "newline" THEN Append(found[n - 1], (n - 1) % T)
        ELSE found[n - 1]
  IN found[Len(text)]

lineStart_NoStep(offsets, lineNo) ==
  CASE lineNo <= 1            -> 0
    [] lineNo - 1 > Len(offsets) -> Null
    [] OTHER                  -> offsets[lineNo - 1]

\* getPointerForLineNumberSpecialized, given the offsets.
lineStart(offsets, lineNo) ==
  CASE lineNo <= 1            -> 0
    [] lineNo - 1 > Len(offsets) -> Null
    [] OTHER                  -> offsets[lineNo - 1] + 1

(***************************************************************************)
(* What a line is, whatever the index: the offsets with as many newlines   *)
(* before them.                                                            *)
(***************************************************************************)
Line(text, lineNo) ==
  {p \in 0 .. Len(text) :
     Cardinality({q \in 1 .. p : text[q] = "newline"}) = lineNo - 1}

StartsLine(text, lineNo, p) ==
  IF Line(text, lineNo) = {}
  THEN p = Null
  ELSE p \in Line(text, lineNo) /\ \A q \in Line(text, lineNo) : p <= q
=============================================================================
