----------------------------- MODULE LineEditor -----------------------------
(***************************************************************************)
(* What the line editor promises its user, in whole characters: a history  *)
(* of texts, one of them shown while a line is edited, and a cursor between*)
(* two of its characters.  A text that the user leaves and comes back to   *)
(* is the text that he left.                                               *)
(***************************************************************************)
EXTENDS Naturals, Sequences, FiniteSetsExt

CONSTANTS
  Glyphs,  \* the characters
  Marks,   \* those that combine with the character before them
  Blank,   \* what separates words
  Limits   \* what the length of the history may be limited to

VARIABLES
  texts,   \* the history, oldest first; the last is the line being written
  shown,   \* the place of the shown text, 0 outside of a session
  cursor,  \* how many of its characters are before the cursor
  limit,   \* how many texts are kept
  given    \* what the last session delivered

vars == <<texts, shown, cursor, limit, given>>

line == texts[shown]

\* A character with its marks starts at the cursor position c.
Starts(s, c) == c = 0 \/ c = Len(s) \/ s[c + 1] \notin Marks

remembered(s) ==
  IF texts # <<>> /\ texts[Len(texts)] = s THEN texts
  ELSE LET all == Append(texts, s)
       IN IF Len(all) > limit THEN Tail(all) ELSE all

(***************************************************************************)
(* Between sessions.                                                       *)
(***************************************************************************)

idle == shown = 0

Remember == idle /\ texts' = remembered(given) /\ UNCHANGED <<shown, cursor, limit, given>>

Load ==
  /\ idle
  /\ texts' \in {t \in Seq(Seq(Glyphs)) : Len(t) <= limit}
  /\ UNCHANGED <<shown, cursor, limit, given>>

\* Which of the texts stay when the limit falls is not promised here.
Limit ==
  /\ idle
  /\ limit' \in Limits
  /\ \/ Len(texts) <= limit' /\ UNCHANGED texts
     \/ /\ Len(texts) > limit'
        /\ \E i \in 0 .. Len(texts) - limit' : texts' = SubSeq(texts, i + 1, i + limit')
  /\ UNCHANGED <<shown, cursor, given>>

Begin ==
  /\ idle
  /\ texts' = remembered(<<>>)
  /\ shown' = Len(texts')
  /\ cursor' = 0
  /\ given' = <<>>
  /\ UNCHANGED limit

\* A session that could not begin, or a line that nobody edited.
Plain == idle /\ given' \in Seq(Glyphs) /\ UNCHANGED <<texts, shown, cursor, limit>>

(***************************************************************************)
(* Within a session.                                                       *)
(***************************************************************************)

becomes(s, c) ==
  /\ shown # 0
  /\ texts' = [texts EXCEPT ![shown] = s]
  /\ cursor' = c
  /\ UNCHANGED <<shown, limit, given>>

Type == \E g \in Glyphs :
  becomes(SubSeq(line, 1, cursor) \o <<g>> \o SubSeq(line, cursor + 1, Len(line)), cursor + 1)

\* The text without what is between two cursor positions.
Cut(from, to) == becomes(SubSeq(line, 1, from) \o SubSeq(line, to + 1, Len(line)), from)

next == Min({c \in cursor + 1 .. Len(line) : Starts(line, c)})

\* Marks before the first character of a line cannot be reached from behind.
previousExists == \E c \in 1 .. cursor : line[c] \notin Marks
previous       == Max({c \in 0 .. cursor - 1 : line[c + 1] \notin Marks})

Left      == shown # 0 /\ previousExists /\ becomes(line, previous)
Right     == shown # 0 /\ cursor < Len(line) /\ becomes(line, next)
Home      == shown # 0 /\ becomes(line, 0)
End       == shown # 0 /\ becomes(line, Len(line))
Delete    == shown # 0 /\ cursor < Len(line) /\ Cut(cursor, next)
Backspace == shown # 0 /\ previousExists /\ Cut(previous, cursor)
KillLine  == shown # 0 /\ becomes(<<>>, 0)
KillRest  == shown # 0 /\ Cut(cursor, Len(line))

\* From the start of the word before the cursor.
KillWord ==
  /\ shown # 0
  /\ LET starts == {c \in 1 .. cursor - 1 : line[c] = Blank /\ line[c + 1] # Blank}
     IN Cut(Max(starts \cup {0}), cursor)

Swap ==
  /\ shown # 0
  /\ cursor \in 1 .. Len(line) - 1
  /\ becomes([line EXCEPT ![cursor] = line[cursor + 1], ![cursor + 1] = line[cursor]],
             IF cursor = Len(line) - 1 THEN cursor ELSE cursor + 1)

\* Another text is shown; no text changes.
Show(place) ==
  /\ shown # 0
  /\ place \in DOMAIN texts
  /\ shown' = place
  /\ cursor' = Len(texts[place])
  /\ UNCHANGED <<texts, limit, given>>

Older == Show(shown - 1)
Newer == Show(shown + 1)

\* The session ends.  It is open whether the changes to the text shown last
\* stay in the history; those to every other text do.
endsWith(kept) ==
  /\ shown # 0
  /\ DOMAIN texts' = 1 .. kept
  /\ \A i \in (1 .. kept) \ {shown} : texts'[i] = texts[i]
  /\ shown' = 0 /\ cursor' = 0
  /\ UNCHANGED limit

Accept  == endsWith(Len(texts) - 1) /\ given' = line
HangUp  == endsWith(Len(texts)) /\ given' = line
Abandon == (endsWith(Len(texts)) \/ endsWith(Len(texts) - 1)) /\ given' = <<>>

Init ==
  /\ texts = <<>> /\ shown = 0 /\ cursor = 0
  /\ limit \in Limits
  /\ given = <<>>

Next ==
  \/ Remember \/ Load \/ Limit \/ Begin \/ Plain
  \/ Type \/ Left \/ Right \/ Home \/ End
  \/ Delete \/ Backspace \/ KillLine \/ KillRest \/ KillWord \/ Swap
  \/ Older \/ Newer \/ Accept \/ HangUp \/ Abandon

Spec == Init /\ [][Next]_vars
=============================================================================
