----------------------------- MODULE Diagnosis ------------------------------
(***************************************************************************)
(* The reader's locations and the source manager's line index together:    *)
(* what source_mgr.h promises is that a Location can later be turned back  *)
(* into a pointer to the text it was taken from.  One side counts          *)
(* newlines as they go by, the other searches for them afterwards.         *)
(***************************************************************************)
EXTENDS Reader, LineIndex

\* size_t holds the size of every buffer, and so does the widest element type.
ASSUME DiagnosisAssumption == \A b \in Buffers : fits(b, Len(Widths))

\* The buffer's line index, as SourceMgr builds it.
offsets == newlineOffsets(buf, elementType(buf))

\* While line and column fit their unsigned shorts, the line that the reader
\* is on, looked up in the buffer, starts right behind the last newline
\* before the current character, and the column leads from there to the
\* character: as the second one on the first line, as the first one on the
\* others, for a line starts there with column 1.
LocationFindsCharacter ==
  LET before == {i \in 1 .. currentChar - 1 : Mem(i) = "newline"}
      lineAt == lineStart(offsets, loc.line)
      shift  == IF before = {} THEN 2 ELSE 1
      column == IF before = {} THEN currentChar ELSE
                  CHOOSE n \in 1 .. currentChar : currentChar - n \in before
                                /\ \A k \in 1 .. n - 1 : currentChar - k \notin before
  IN /\ currentChar \in 1 .. Len(buf)
     /\ Cardinality(before) + 1 < LocMod /\ column + shift - 1 < LocMod
     => /\ StartsLine(buf, Cardinality(before) + 1, lineAt)
        /\ lineAt + loc.col - shift = currentChar - 1
=============================================================================
