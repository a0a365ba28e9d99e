--------------------------- MODULE LineCharacters ---------------------------
(***************************************************************************)
(* The refinement mapping from Linenoise to LineEditor: the characters that*)
(* the bytes are, and which of the history's texts is being edited.        *)
(***************************************************************************)
EXTENDS Linenoise

Letter   == <<"x">>
Space    == <<"space">>
LineFeed == <<"lf">>
Wide     == <<"e1", "e2">>
Mark     == <<"m1", "m2">>

Characters == {Letter, Space, LineFeed, Wide, Mark}

\* A key that is no command is one character (unicodeReadUTF8Char).
SingleCharacters == \A k \in Keyboards : k.chars \subseteq Characters

\* The characters that a text of whole ones consists of, byte by byte.
characters(s) ==
  LET upTo[p \in 0 .. Len(s)] ==
        IF p = 0 THEN <<>>
        ELSE IF s[p] \in Continuation THEN upTo[p - 1]
        ELSE Append(upTo[p - 1], SubSeq(s, p, p - 1 + unicodeUTF8CharLen(s, p - 1)))
  IN upTo[Len(s)]

\* The text being edited is in buf, its entry is stale until the user leaves it.
entry(i) == IF pc = "edit" /\ i = slot THEN buf ELSE history[i]

textsKept      == [i \in DOMAIN history |-> characters(entry(i))]
placeShown     == IF pc = "edit" THEN slot ELSE 0
cursorAt       == Len(characters(SubSeq(buf, 1, pos)))
textDelivered  == characters(line)

Promise == INSTANCE LineEditor WITH
  Glyphs <- Characters,
  Marks  <- {Mark},
  Blank  <- Space,
  Limits <- Lengths \cup {DefaultMaxLen},
  texts  <- textsKept,
  shown  <- placeShown,
  cursor <- cursorAt,
  limit  <- history_max_len,
  given  <- textDelivered

\* The byte arithmetic on one buffer and the copies into and out of the
\* history implement the line editor: every key does to the characters what
\* LineEditor says, and a text that is left and shown again is unchanged.
ImplementsLineEditor == Promise!Spec
=============================================================================
