----------------------------- MODULE Linenoise ------------------------------
(***************************************************************************)
(* The line editor of the REPL (serene-repl/serene/linenoise.h): its       *)
(* history, the editing session of one Readline(), and the terminal's mode.*)
(*                                                                         *)
(* A byte is its class: an ASCII character that is no space ("x"), a space,*)
(* a line feed ("lf": Ctrl-J, which the editor takes for a character), and *)
(* the two bytes of two-byte characters, one that stands alone (e1 e2) *)
(* and one that combines with the character before it (m1 m2; every        *)
(* character that starts with the byte m1 combines).  buf holds the bytes  *)
(* that linenoiseState::len counts.  Drawing the line, completion (nobody  *)
(* sets a callback) and zero bytes in a line are left out.                 *)
(***************************************************************************)
EXTENDS Integers, SequencesExt

CONSTANTS
  Keyboards,        \* who sits at the terminal: see Keyboard below
  MaxLine,          \* LINENOISE_MAX_LINE
  DefaultMaxLen,    \* LINENOISE_DEFAULT_HISTORY_MAX_LEN
  Lengths,          \* what SetHistoryMaxLen is called with
  Files,            \* what the history file may hold
  RestoreMayFail    \* may tcsetattr() fail when the mode is restored?

OneByte      == {"x", "space", "lf"}
Byte         == OneByte \cup {"e1", "e2", "m1", "m2"}
Continuation == {"e2", "m2"}
Lead         == {"e1", "m1"}

Key == {"enter", "ctrl_c", "ctrl_d", "ctrl_t", "ctrl_u", "ctrl_k", "ctrl_w",
        "backspace", "delete", "left", "right", "home", "end", "up", "down"}

\* A terminal or a pipe, the keys and characters it sends, and the length up
\* to which it sends characters.
Keyboard == [tty : BOOLEAN, keys : SUBSET Key, chars : SUBSET Seq(Byte), limit : Nat]

ASSUME KeyboardsAssumption == \A k \in Keyboards : k \in Keyboard
ASSUME FilesAssumption == Files \subseteq Seq(Byte)
ASSUME LengthAssumption ==
  /\ MaxLine \in Nat \ {0} /\ DefaultMaxLen \in Nat \ {0}
  /\ Lengths \subseteq Nat

VARIABLES
  history, history_max_len,   \* the globals of these names
  buf, pos, history_index,    \* linenoiseState
  line, quit,                 \* what Readline() gives its caller
  rawmode, orig_termios,      \* the globals of these names
  terminal,                   \* the mode the terminal really is in
  keyboard,
  pc                          \* "idle", "edit" or "exited"

store == <<history, history_max_len>>
edit  == <<buf, pos, history_index>>
tty   == <<rawmode, orig_termios, terminal>>
vars  == <<store, edit, line, quit, tty, keyboard, pc>>

(***************************************************************************)
(* Characters in bytes.  Positions count bytes before the cursor.          *)
(***************************************************************************)

unicodeUTF8CharLen(s, p) ==
  IF p = Len(s) THEN 0 ELSE IF s[p + 1] \in Continuation \cup Lead THEN 2 ELSE 1

\* Back to the first byte that continues no character, or before the line.
unicodePrevUTF8CharLen(s, p) ==
  p - Max({q \in 0 .. p - 1 : s[q + 1] \notin Continuation} \cup {-1})

unicodeGraphemeLen(s, p) ==
  LET marksEnd[q \in p .. Len(s) + 2] ==
        IF q < Len(s) /\ s[q + 1] = "m1" THEN marksEnd[q + 2] ELSE q
  IN marksEnd[p + unicodeUTF8CharLen(s, p)] - p

unicodePrevGraphemeLen_OneByte(s, p) == IF p = 0 THEN 0 ELSE 1

unicodePrevGraphemeLen_BeforeLine(s, p) ==
  LET back[q \in 0 .. p] ==
        LET len  == unicodePrevUTF8CharLen(s, q)
            from == q - len
        IN IF q = 0 THEN -1
           ELSE IF len = 2 /\ from >= 0 /\ s[from + 1] = "m1" THEN back[from]
           ELSE from
  IN p - back[p]

\* 0 when there are only marks before the position.
unicodePrevGraphemeLen(s, p) ==
  LET back[q \in 0 .. p] ==
        LET len  == unicodePrevUTF8CharLen(s, q)
            from == q - len
        IN IF q = 0 THEN p
           ELSE IF len = 2 /\ from >= 0 /\ s[from + 1] = "m1" THEN back[from]
           ELSE from
  IN p - back[p]

(***************************************************************************)
(* History.                                                                *)
(***************************************************************************)

added_NoLimit(h, max, s) ==
  IF max = 0 \/ (h # <<>> /\ Last(h) = s) THEN h ELSE Append(h, s)

\* AddHistory: the history it leaves.
added(h, max, s) ==
  IF max = 0 \/ (h # <<>> /\ Last(h) = s) THEN h
  ELSE Append(IF Len(h) = max THEN Tail(h) ELSE h, s)

\* The caller remembers the line it has read.
AddHistory ==
  /\ pc = "idle"
  /\ history' = added(history, history_max_len, line)
  /\ UNCHANGED <<history_max_len, edit, line, quit, tty, keyboard, pc>>

SetHistoryMaxLen(len) ==
  /\ pc = "idle"
  /\ len >= 1
  /\ history_max_len' = len
  /\ history' = SubSeq(history, 1, IF len < Len(history) THEN len ELSE Len(history))
  /\ UNCHANGED <<edit, line, quit, tty, keyboard, pc>>

\* std::getline() for one more byte: the lines that have ended, and the rest.
readByte(got, b) ==
  IF b = "lf" THEN [done |-> Append(got.done, got.rest), rest |-> <<>>]
  ELSE [done |-> got.done, rest |-> Append(got.rest, b)]

\* ... until the text ends, for which its last line need not have ended.
linesOf(text) ==
  LET read[n \in 0 .. Len(text)] ==
        IF n = 0 THEN [done |-> <<>>, rest |-> <<>>] ELSE readByte(read[n - 1], text[n])
      all == read[Len(text)]
  IN IF all.rest = <<>> THEN all.done ELSE Append(all.done, all.rest)

\* The lines of a file, one after the other; one that cannot be read is as empty.
LoadHistory(text) ==
  /\ pc = "idle"
  /\ LET lines == linesOf(text)
         after[n \in 0 .. Len(lines)] ==
           IF n = 0 THEN history ELSE added(after[n - 1], history_max_len, lines[n])
     IN history' = after[Len(lines)]
  /\ UNCHANGED <<history_max_len, edit, line, quit, tty, keyboard, pc>>

(***************************************************************************)
(* The terminal's mode.                                                    *)
(***************************************************************************)

enableRawMode_SavesRaw ==
  /\ terminal' = "raw"
  /\ orig_termios' = "raw"
  /\ rawmode' = TRUE

enableRawMode ==
  /\ orig_termios' = terminal
  /\ terminal' = "raw"
  /\ rawmode' = TRUE

\* tcgetattr() or tcsetattr() fails; the latter has replaced orig_termios.
enableRawModeFails ==
  /\ orig_termios' \in {orig_termios, terminal}
  /\ UNCHANGED <<rawmode, terminal>>

disableRawMode ==
  \/ rawmode /\ rawmode' = FALSE /\ terminal' = orig_termios /\ UNCHANGED orig_termios
  \/ (rawmode => RestoreMayFail) /\ UNCHANGED tty

\* linenoiseAtExit, when the process ends.
linenoiseAtExit ==
  /\ pc = "idle"
  /\ pc' = "exited"
  /\ disableRawMode
  /\ UNCHANGED <<store, edit, line, quit, keyboard>>

(***************************************************************************)
(* Readline(): its start and its return.                                   *)
(***************************************************************************)

\* A pipe, or a terminal that is not supported; an end of file gives "".
readPlainLine ==
  /\ pc = "idle"
  /\ ~keyboard.tty
  /\ line' \in {c \in keyboard.chars : ~Contains(c, "lf")} \cup {<<>>}
  /\ quit' = FALSE
  /\ UNCHANGED <<store, edit, tty, keyboard, pc>>

\* linenoiseRaw without a raw mode.
cannotEdit ==
  /\ pc = "idle"
  /\ keyboard.tty
  /\ enableRawModeFails
  /\ line' = <<>>
  /\ quit' = FALSE
  /\ UNCHANGED <<store, edit, keyboard, pc>>

\* linenoiseEdit up to its loop: an empty entry stands for the new line.
linenoiseEdit ==
  /\ pc = "idle"
  /\ keyboard.tty
  /\ enableRawMode
  /\ buf' = <<>> /\ pos' = 0 /\ history_index' = 0
  /\ history' = added(history, history_max_len, <<>>)
  /\ line' = <<>> /\ quit' = FALSE
  /\ pc' = "edit"
  /\ UNCHANGED <<history_max_len, keyboard>>

\* linenoiseEdit and linenoiseRaw return.
leave(quits) ==
  /\ pc' = "idle"
  /\ quit' = quits
  /\ line' = IF quits THEN <<>> ELSE buf
  /\ buf' = <<>> /\ pos' = 0 /\ history_index' = 0
  /\ disableRawMode
  /\ UNCHANGED <<history_max_len, keyboard>>

pressed(key) == pc = "edit" /\ key \in keyboard.keys

enter ==
  /\ pressed("enter")
  /\ history' = IF history = <<>> THEN history ELSE Front(history)
  /\ leave(FALSE)

\* The input ends or fails; what is there so far is the line.
inputEnds ==
  /\ pc = "edit"
  /\ leave(FALSE)
  /\ UNCHANGED history

\* Ctrl-C; also a prompt or a character that cannot be written.
interrupt ==
  /\ pressed("ctrl_c")
  /\ leave(TRUE)
  /\ UNCHANGED history

(***************************************************************************)
(* The editing keys.                                                       *)
(***************************************************************************)

edited(bytes, p) ==
  /\ buf' = bytes /\ pos' = p
  /\ UNCHANGED <<history_index, store, line, quit, tty, keyboard, pc>>

\* The line without the bytes between two positions.
cut(from, to, p) == edited(SubSeq(buf, 1, from) \o SubSeq(buf, to + 1, Len(buf)), p)

\* A full line ignores the character.  buflen is one less than the buffer.
linenoiseEditInsert(c) ==
  /\ pc = "edit"
  /\ Len(buf) <= keyboard.limit - Len(c)
  /\ Len(buf) < MaxLine - 1
  /\ edited(SubSeq(buf, 1, pos) \o c \o SubSeq(buf, pos + 1, Len(buf)), pos + Len(c))

linenoiseEditMoveLeft ==
  pressed("left") /\ pos > 0 /\ edited(buf, pos - unicodePrevGraphemeLen(buf, pos))

linenoiseEditMoveRight ==
  pressed("right") /\ pos # Len(buf) /\ edited(buf, pos + unicodeGraphemeLen(buf, pos))

linenoiseEditMoveHome == pressed("home") /\ pos # 0 /\ edited(buf, 0)

linenoiseEditMoveEnd == pressed("end") /\ pos # Len(buf) /\ edited(buf, Len(buf))

\* The Delete key, and Ctrl-D in a line that is not empty.
linenoiseEditDelete ==
  /\ pressed("delete") \/ pressed("ctrl_d")
  /\ Len(buf) > 0 /\ pos < Len(buf)
  /\ cut(pos, pos + unicodeGraphemeLen(buf, pos), pos)

\* Ctrl-D in an empty line acts as an end of file.
endOfFile ==
  /\ pressed("ctrl_d")
  /\ buf = <<>>
  /\ history' = Front(history)
  /\ leave(TRUE)

linenoiseEditBackspace ==
  /\ pressed("backspace")
  /\ pos > 0 /\ Len(buf) > 0
  /\ LET from == pos - unicodePrevGraphemeLen(buf, pos) IN cut(from, pos, from)

\* Back over spaces, then back to the next one.
linenoiseEditDeletePrevWord ==
  LET back(p, S) == Max({q \in 1 .. p : buf[q] \notin S} \cup {0})
      from       == back(back(pos, {"space"}), Byte \ {"space"})
  IN pressed("ctrl_w") /\ cut(from, pos, from)

\* Ctrl-T exchanges two bytes.
swap ==
  /\ pressed("ctrl_t")
  /\ pos > 0 /\ pos < Len(buf)
  /\ edited([buf EXCEPT ![pos] = buf[pos + 1], ![pos + 1] = buf[pos]],
            IF pos # Len(buf) - 1 THEN pos + 1 ELSE pos)

killLine == pressed("ctrl_u") /\ edited(<<>>, 0)
killRest == pressed("ctrl_k") /\ edited(SubSeq(buf, 1, pos), pos)

\* The entry that the line being edited comes from.
slot == Len(history) - history_index

linenoiseEditHistoryNext_Forgets(key, step) ==
  /\ pressed(key)
  /\ Len(history) > 1
  /\ history_index + step \in 0 .. Len(history) - 1
  /\ history_index' = history_index + step
  /\ buf' = history[slot - step]
  /\ pos' = Len(buf')
  /\ UNCHANGED <<store, line, quit, tty, keyboard, pc>>

\* The line is put into its entry, also at the ends of the history, where
\* it stays.
linenoiseEditHistoryNext(key, step) ==
  /\ pressed(key)
  /\ Len(history) > 1
  /\ history' = [history EXCEPT ![slot] = buf]
  /\ IF history_index + step \in 0 .. Len(history) - 1
     THEN /\ history_index' = history_index + step
          /\ buf' = history'[slot - step]
          /\ pos' = Len(buf')
     ELSE UNCHANGED edit
  /\ UNCHANGED <<history_max_len, line, quit, tty, keyboard, pc>>

(***************************************************************************)
(* The specification.                                                      *)
(***************************************************************************)

Init ==
  /\ keyboard \in Keyboards
  /\ history = <<>>
  /\ history_max_len = DefaultMaxLen
  /\ buf = <<>> /\ pos = 0 /\ history_index = 0
  /\ line = <<>> /\ quit = FALSE
  /\ rawmode = FALSE /\ orig_termios = "cooked" /\ terminal = "cooked"
  /\ pc = "idle"

Call ==
  \/ AddHistory
  \/ \E text \in Files : LoadHistory(text)
  \/ \E len \in Lengths : SetHistoryMaxLen(len)
  \/ readPlainLine \/ cannotEdit \/ linenoiseEdit

KeyStroke ==
  \/ \E c \in keyboard.chars : linenoiseEditInsert(c)
  \/ linenoiseEditMoveLeft \/ linenoiseEditMoveRight
  \/ linenoiseEditMoveHome \/ linenoiseEditMoveEnd
  \/ linenoiseEditDelete \/ linenoiseEditBackspace \/ linenoiseEditDeletePrevWord
  \/ swap \/ killLine \/ killRest
  \/ linenoiseEditHistoryNext("up", 1) \/ linenoiseEditHistoryNext("down", -1)
  \/ enter \/ endOfFile \/ interrupt \/ inputEnds

Next == Call \/ KeyStroke \/ linenoiseAtExit \/ (pc = "exited" /\ UNCHANGED vars)

Spec == Init /\ [][Next]_vars

(***************************************************************************)
(* Properties.                                                             *)
(***************************************************************************)

\* The types of the editor's globals and of the session's state.
TypeOK ==
  /\ history \in Seq(Seq(Byte)) /\ history_max_len \in Nat \ {0}
  /\ buf \in Seq(Byte) /\ pos \in Nat /\ history_index \in Nat
  /\ line \in Seq(Byte) /\ quit \in BOOLEAN
  /\ rawmode \in BOOLEAN
  /\ orig_termios \in {"cooked", "raw"} /\ terminal \in {"cooked", "raw"}
  /\ keyboard \in Keyboards /\ pc \in {"idle", "edit", "exited"}

\* The history never outgrows its limit, whatever adds to it, and during a
\* session the entry being edited exists: walking through the history and
\* popping the placeholder, which assume it without a test, are defined.
HistoryBounded ==
  /\ Len(history) <= history_max_len
  /\ pc = "edit" => slot \in DOMAIN history

Whole(s) == \A i \in DOMAIN s :
  /\ s[i] \in Lead => i < Len(s) /\ s[i + 1] = (IF s[i] = "e1" THEN "e2" ELSE "m2")
  /\ s[i] \in Continuation => i > 1 /\ s[i - 1] \in Lead

\* What somebody at the keyboard k may write for all texts to stay whole:
\* Ctrl-T exchanges bytes, so with it only characters of one byte.
Texts(k) ==
  {s \in Seq(Byte) : Whole(s) /\ ("ctrl_t" \in k.keys => s \in Seq(OneByte))}

WholeInput == \A k \in Keyboards :
  k.chars \subseteq Texts(k) /\ \A text \in Files : linesOf(text) \in Seq(Texts(k))

\* However the byte arithmetic of cursor, deletions and history goes, every
\* text stays a sequence of whole characters, and the cursor between two.
WholeCharacters ==
  /\ Whole(buf) /\ Whole(line)
  /\ \A i \in DOMAIN history : Whole(history[i])
  /\ pos <= Len(buf) /\ Whole(SubSeq(buf, 1, pos))

\* When no session runs and the editor believes the raw mode is off, the
\* terminal is as the user had it: linenoiseAtExit() relies on it.
TerminalRestored ==
  pc # "edit" /\ ~rawmode => terminal = "cooked"

\* What the comment of SetHistoryMaxLen() says: the latest entries stay.
LatestRetained ==
  [][\A len \in Lengths : SetHistoryMaxLen(len) /\ len < Len(history)
       => history' = SubSeq(history, Len(history) - len + 1, Len(history))]_vars
=============================================================================
