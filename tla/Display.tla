------------------------------ MODULE Display -------------------------------
(***************************************************************************)
(* How the line editor draws (serene-repl/serene/linenoise.h): it measures *)
(* the line in columns and sends the terminal text and relative movements  *)
(* of the cursor, in the hope that both count alike.                       *)
(*                                                                         *)
(* A character is what the measuring tells apart: narrow ("a"), wide ("W"),*)
(* combining ("m"), an escape sequence ("esc", in prompts), or a byte that *)
(* is no character ("bad").  Control characters (a TAB or line feed, which *)
(* are measured as one column whatever the terminal does) and the ends of  *)
(* a session other than Enter are left out.  Positions count characters    *)
(* here.  The terminal is outside: it has unlimited rows, puts off the     *)
(* wrap behind the last column until the next character, and erases from   *)
(* the column the cursor is seen in.                                       *)
(***************************************************************************)
EXTENDS Integers, SequencesExt

CONSTANTS
  Widths,      \* widths of terminals
  Prompts,     \* prompts
  Texts,       \* lines that may be edited
  Assumed,     \* what getColumns() assumes when it cannot find out
  Rows         \* bound: rows of the terminal

Char == {"a", "W", "m", "esc", "bad"}

ASSUME DisplayAssumption ==
  /\ Widths \subseteq Nat \ {0, 1} /\ Assumed \in Nat \ {0, 1} /\ Rows \in Nat \ {0}
  /\ Prompts \subseteq Seq(Char \ {"bad"}) /\ Texts \subseteq Seq(Char \ {"esc"})
  /\ <<>> \in Texts

VARIABLES
  width,       \* the terminal's real width
  cells, row, col,   \* the terminal: what is shown, where the cursor is
  prompt, buf, pos, oldcolpos, cols, maxrows,  \* linenoiseState
  window,      \* refreshSingleLine(): the part of buf that will be drawn
  mlmode,      \* the global of this name
  anchor,      \* history: the row in which the prompt began
  measured,    \* history: did getColumns() find out
  pc           \* "start", "prompt", "edit", "scroll", "done"; "hung", "unknown"

screen  == <<cells, row, col>>
session == <<width, prompt, mlmode, cols, measured>>
line    == <<buf, pos>>
vars    == <<screen, session, line, oldcolpos, maxrows, window, anchor, pc>>

(***************************************************************************)
(* The terminal.                                                           *)
(***************************************************************************)

colwidth(c) == IF c = "W" THEN 2 ELSE IF c \in {"m", "esc"} THEN 0 ELSE 1

blankRow == [c \in 0 .. width - 1 |-> "blank"]

\* A character at the cursor; one that does not fit begins the next row.
put(t, c) ==
  LET w == colwidth(c)
      r == IF t.col + w > width THEN t.row + 1 ELSE t.row
      k == IF t.col + w > width THEN 0 ELSE t.col
  IN IF w = 0 THEN t
     ELSE [cells |-> [t.cells EXCEPT ![r][k] = c,
                                     ![r][k + w - 1] = IF w = 2 THEN "W2" ELSE c],
           row |-> r, col |-> k + w]

write(t, s) == FoldLeft(put, t, s)

larger(a, b)  == IF a > b THEN a ELSE b
smaller(a, b) == IF a < b THEN a ELSE b

up(t, n)    == [t EXCEPT !.row = larger(@ - larger(n, 0), 0)]
down(t, n)  == [t EXCEPT !.row = @ + larger(n, 0)]
right(t, n) == [t EXCEPT !.col = smaller(@ + n, width - 1)]
cr(t)       == [t EXCEPT !.col = 0]
lf(t)       == [t EXCEPT !.row = @ + 1]

\* Rows above or below the cursor keep what they show.
eraseRight(t) ==
  [t EXCEPT !.cells[t.row] =
     [c \in 0 .. width - 1 |-> IF c >= smaller(t.col, width - 1) THEN "blank" ELSE @[c]]]

\* Erases n rows, from the cursor's upwards.
eraseUp(t, n) ==
  FoldLeft(LAMBDA e, k : up(eraseRight(cr(e)), 1), t, [k \in 1 .. n - 1 |-> k])

terminal == [cells |-> cells, row |-> row, col |-> col]

shows(t) == cells' = t.cells /\ row' = t.row /\ col' = t.col

(***************************************************************************)
(* Measuring.                                                              *)
(***************************************************************************)

\* Columns of a text in one row.
unicodeColumnPos(s) == FoldLeft(LAMBDA n, c : n + colwidth(c), 0, s)

unicodeColumnPosForMultiLine_NoPadding(s, p, columns, ini_pos) ==
  unicodeColumnPos(SubSeq(s, 1, p))

\* Columns up to a position, with the column that stays empty where a wide
\* character does not fit; also before the character at the position.
unicodeColumnPosForMultiLine(s, p, columns, ini_pos) ==
  LET over(colwid, c) == larger(colwid + colwidth(c) - columns, 0)
      next(colwid, c) ==
        LET w == colwid + colwidth(c)
        IN IF w > columns THEN colwidth(c) ELSE IF w = columns THEN 0 ELSE w
      step(m, c) == [ret    |-> m.ret + over(m.colwid, c) + colwidth(c),
                     colwid |-> next(m.colwid, c)]
      at == FoldLeft(step, [ret |-> 0, colwid |-> ini_pos], SubSeq(s, 1, p))
  IN at.ret + IF p < Len(s) THEN over(at.colwid, s[p + 1]) ELSE 0

pcolwid == unicodeColumnPos(prompt)

(***************************************************************************)
(* A session begins: how wide is the terminal?                             *)
(***************************************************************************)

\* The ioctl tells, or the terminal: the cursor goes to the right margin and
\* comes back.  If the terminal stops answering there, the cursor stays there.
getColumns ==
  \/ cols' = width /\ measured' = TRUE /\ UNCHANGED col
  \/ cols' = Assumed /\ measured' = FALSE /\ col' \in {0, width - 1}

\* linenoiseEdit() up to its loop (bound: what follows when the width is not
\* known is not followed), with the prompt written where the cursor is.
begin ==
  /\ pc = "start"
  /\ pc' = "prompt"
  /\ getColumns
  /\ UNCHANGED <<cells, row, width, prompt, mlmode, line, oldcolpos, maxrows,
                 window, anchor>>

writePrompt ==
  /\ pc = "prompt"
  /\ pc' = IF measured THEN "edit" ELSE "unknown"
  /\ shows(write(terminal, prompt))
  /\ UNCHANGED <<session, line, oldcolpos, maxrows, window, anchor>>

(***************************************************************************)
(* Single line mode: refreshSingleLine(), loop by loop.                    *)
(***************************************************************************)

isBad(s) == \E i \in DOMAIN s : s[i] = "bad"

\* Between two graphemes.
boundary(s, p) == p \notin {0, Len(s)} => s[p + 1] # "m"

graphemeLen_MarksOnly(s, p) ==
  CHOOSE n \in 0 .. Len(s) - p :
    boundary(s, p + n) /\ \A k \in 0 .. n - 1 : ~boundary(s, p + k)

\* The grapheme behind a position; 0 at the end.
graphemeLen(s, p) ==
  CHOOSE n \in 0 .. Len(s) - p :
    /\ n = 0 <=> p = Len(s)
    /\ boundary(s, p + n) /\ \A k \in 1 .. n - 1 : ~boundary(s, p + k)

\* The grapheme before a position; 0 at the start.
prevGraphemeLen(s, p) ==
  CHOOSE n \in 0 .. p :
    /\ n = 0 <=> p = 0
    /\ boundary(s, p - n) /\ \A k \in 1 .. n - 1 : ~boundary(s, p - k)

drawn(from, to) == SubSeq(buf, from + 1, to)

\* The cursor is behind the row.
scrolledOut == pcolwid + unicodeColumnPos(drawn(window[1], pos)) >= cols

scrollLeft ==
  /\ pc = "scroll"
  /\ scrolledOut
  /\ window' = <<window[1] + graphemeLen(buf, window[1]), window[2]>>
  /\ UNCHANGED <<screen, session, line, oldcolpos, maxrows, anchor, pc>>

tooLong_OneMore == pcolwid + unicodeColumnPos(drawn(window[1], window[2])) > cols + 1

\* The rest does not fit into the row.
tooLong == pcolwid + unicodeColumnPos(drawn(window[1], window[2])) > cols

cutRight ==
  /\ pc = "scroll"
  /\ ~scrolledOut /\ tooLong
  /\ window' = <<window[1], window[2] - prevGraphemeLen(buf, window[2])>>
  /\ UNCHANGED <<screen, session, line, oldcolpos, maxrows, anchor, pc>>

\* A movement by 0 columns moves by one.
refreshSingleLine ==
  /\ pc = "scroll"
  /\ ~scrolledOut /\ ~tooLong
  /\ LET text == eraseRight(write(cr(terminal), prompt \o drawn(window[1], window[2])))
         n    == pcolwid + unicodeColumnPos(drawn(window[1], pos))
     IN shows(right(cr(text), larger(n, 1)))
  /\ pc' = "edit" /\ window' = <<0, 0>>
  /\ UNCHANGED <<session, line, oldcolpos, maxrows, anchor>>

(***************************************************************************)
(* Multi line mode.                                                        *)
(***************************************************************************)

\* The rows that were used are erased, the text is written, and the cursor,
\* wherever that has left it, is brought to its place.
layOut(t, s, p) ==
  LET colpos  == unicodeColumnPosForMultiLine(s, Len(s), cols, pcolwid)
      colpos2 == unicodeColumnPosForMultiLine(s, p, cols, pcolwid)
      rpos    == (pcolwid + oldcolpos + cols) \div cols
      rpos2   == (pcolwid + colpos2 + cols) \div cols
      cleared == eraseRight(cr(eraseUp(down(t, maxrows - rpos), maxrows)))
      text    == write(cleared, prompt \o s)
      atEnd   == p > 0 /\ p = Len(s) /\ (colpos2 + pcolwid) % cols = 0
      rows    == (pcolwid + colpos + cols - 1) \div cols + IF atEnd THEN 1 ELSE 0
      placed  == cr(up(IF atEnd THEN cr(lf(text)) ELSE text, rows - rpos2))
  IN [terminal |-> right(placed, (pcolwid + colpos2) % cols),
      colpos |-> colpos2, rows |-> rows]

refreshMultiLine_Forgets(laid) == UNCHANGED <<oldcolpos, maxrows>>

\* What is remembered of it for the next time.
refreshMultiLine(laid) ==
  oldcolpos' = laid.colpos /\ maxrows' = larger(maxrows, laid.rows)

(***************************************************************************)
(* What makes the line be drawn.                                           *)
(***************************************************************************)

\* The measuring loop stays forever at a byte that is no character.
refreshLine(t, s, p) ==
  /\ buf' = s /\ pos' = p
  /\ UNCHANGED session
  /\ IF isBad(s)
     THEN pc' = "hung" /\ window' = <<0, 0>> /\ UNCHANGED <<oldcolpos, maxrows>> /\ shows(t)
     ELSE IF mlmode
     THEN /\ pc' = "edit" /\ UNCHANGED window
          /\ shows(layOut(t, s, p).terminal) /\ refreshMultiLine(layOut(t, s, p))
     ELSE /\ pc' = "scroll" /\ window' = <<0, Len(s)>>
          /\ UNCHANGED <<oldcolpos, maxrows>> /\ shows(t)

\* A key has changed the line or the cursor.
edit ==
  /\ pc = "edit"
  /\ \E s \in Texts : \E p \in 0 .. Len(s) :
       boundary(s, p) /\ <<s, p>> # line /\ refreshLine(terminal, s, p)
  /\ UNCHANGED anchor

\* A character at the end of a line that fits into the row is just written.
linenoiseEditInsert(c) ==
  /\ pc = "edit"
  /\ pos = Len(buf) /\ Append(buf, c) \in Texts
  /\ ~mlmode /\ c # "bad" /\ pcolwid + unicodeColumnPos(Append(buf, c)) < cols
  /\ buf' = Append(buf, c) /\ pos' = pos + 1
  /\ shows(put(terminal, c))
  /\ UNCHANGED <<session, oldcolpos, maxrows, window, anchor, pc>>

\* Ctrl-L
linenoiseClearScreen ==
  /\ pc = "edit"
  /\ refreshLine([cells |-> [r \in 0 .. Rows |-> blankRow], row |-> 0, col |-> 0], buf, pos)
  /\ anchor' = 0

enter_WhereItIs ==
  /\ pc = "edit"
  /\ pc' = "done"
  /\ shows(lf(cr(terminal)))
  /\ UNCHANGED <<session, line, oldcolpos, maxrows, window, anchor>>

\* Enter: in the multi line mode the cursor goes to the end first.
enter ==
  /\ pc = "edit"
  /\ pc' = "done"
  /\ IF mlmode /\ pos # Len(buf)
     THEN /\ shows(lf(cr(layOut(terminal, buf, Len(buf)).terminal)))
          /\ refreshMultiLine(layOut(terminal, buf, Len(buf)))
          /\ pos' = Len(buf) /\ UNCHANGED buf
     ELSE shows(lf(cr(terminal))) /\ UNCHANGED <<line, oldcolpos, maxrows>>
  /\ UNCHANGED <<session, window, anchor>>

(***************************************************************************)
(* The specification.                                                      *)
(***************************************************************************)

Init ==
  /\ width \in Widths /\ prompt \in Prompts /\ mlmode \in BOOLEAN
  /\ cells = [r \in 0 .. Rows |-> [c \in 0 .. width - 1 |-> IF r = 0 THEN "old" ELSE "blank"]]
  /\ row = 1 /\ col = 0 /\ anchor = 1
  /\ cols = width /\ measured = TRUE
  /\ buf = <<>> /\ pos = 0 /\ oldcolpos = 0 /\ maxrows = 0 /\ window = <<0, 0>>
  /\ pc = "start"

Loops == scrollLeft \/ cutRight

Next ==
  \/ begin \/ writePrompt
  \/ edit \/ linenoiseClearScreen \/ enter
  \/ \E c \in Char : linenoiseEditInsert(c)
  \/ Loops \/ refreshSingleLine
  \/ (pc \in {"hung", "unknown", "done"} /\ UNCHANGED vars)

\* A loop never waits.
Spec == Init /\ [][Next]_vars /\ WF_vars(Loops)

(***************************************************************************)
(* Properties.                                                             *)
(***************************************************************************)

\* The types of the editor's variables and of the terminal.
TypeOK ==
  /\ buf \in Texts /\ pos \in 0 .. Len(buf) /\ cols \in Nat \ {0}
  /\ window[1] \in 0 .. Len(buf) /\ window[2] \in window[1] .. Len(buf)
  /\ oldcolpos \in Nat /\ maxrows \in Nat
  /\ row \in 0 .. Rows /\ col \in 0 .. width

\* The editor knows the width and its prompt leaves room in a row.
Fits == measured /\ pcolwid < cols

\* Where the drawing is right: a wide character does not fill a row, a line
\* takes columns, and (bound) the terminal has rows for every line.
NoneFillsARow  == \A w \in Widths : w > 2
LinesAreSeen   == \A p \in Prompts : \A s \in Texts : s # <<>> => unicodeColumnPos(p \o s) > 0
EnoughRows     == \A p \in Prompts : \A s \in Texts : Len(p) + Len(s) + 3 <= Rows

Above == \A r \in 0 .. anchor - 1 : \A c \in DOMAIN cells[r] : cells[r][c] = "old"

Fresh == [cells |-> [r \in 0 .. Rows |-> IF r < anchor THEN cells[r] ELSE blankRow],
          row |-> anchor, col |-> 0]

\* Where the next character after a text would be put.
placeOf(t, s, p) ==
  LET w == IF p < Len(s) THEN colwidth(s[p + 1]) ELSE 1
  IN IF t.col + w > width THEN <<t.row + 1, 0>> ELSE <<t.row, t.col>>

\* In the multi line mode, after any sequence of edits, the screen is as if
\* prompt and line had been written once: nothing stale of longer lines, no row
\* above touched, and the cursor where the next character goes.  The editor
\* only moves relatively, by columns that it has counted itself.
ScreenShowsLine ==
  mlmode /\ Fits /\ pc = "edit" =>
    /\ Above
    /\ cells = write(Fresh, prompt \o buf).cells
    /\ <<row, col>> = placeOf(write(Fresh, prompt \o SubSeq(buf, 1, pos)), buf, pos)

\* In the single line mode the row holds the prompt and a part of the line
\* around the cursor, which stands at its character.  (If the row is full, the
\* erasing may take the character in the last column.)
RowShowsCursor ==
  ~mlmode /\ Fits /\ pcolwid > 0 /\ pc = "edit" =>
    /\ Above /\ row = anchor /\ col < width
    /\ \A r \in anchor + 1 .. Rows : cells[r] = blankRow
    /\ \E from \in 0 .. pos : \E to \in pos .. Len(buf) :
         LET t == write(Fresh, prompt \o drawn(from, to))
         IN /\ t.row = anchor
            /\ col = unicodeColumnPos(prompt \o drawn(from, pos))
            /\ \A c \in 0 .. width - 2 : cells[anchor][c] = t.cells[anchor][c]

\* The loops that choose the part of the line to draw come to an end, so that
\* it is drawn: each drops graphemes of some length until the rest fits.
RefreshReturns == (pc = "scroll" /\ Fits) ~> ~(scrolledOut \/ tooLong)

\* After Enter the next prompt begins in an empty row below the line, also in
\* multi line mode, where the cursor is first sent to the end of the line.
\* (Ctrl-C does not send it there: its newline may end up inside the line.)
NextRowFree ==
  pc = "done" /\ Fits =>
    col = 0 /\ row > anchor /\ \A r \in row .. Rows : cells[r] = blankRow
=============================================================================
