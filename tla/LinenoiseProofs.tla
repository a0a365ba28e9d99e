-------------------------- MODULE LinenoiseProofs --------------------------
(***************************************************************************)
(* The terminal is given back as it was found, whatever is typed and       *)
(* however often a session is begun or cannot begin, when restoring it     *)
(* does not fail.  The history keeps within its limit, and no key tears a  *)
(* character of several bytes apart.  In characters, the keys and the      *)
(* history do what LineEditor promises.  From session to session, the      *)
(* history file holds what the last one has left, whatever was typed and   *)
(* whatever breaks off its save.                                           *)
(***************************************************************************)
EXTENDS LineCharacters, Repl, WellFoundedInduction, TLAPS

\* The raw mode is on exactly during a session, and orig_termios then holds
\* the user's mode, although every attempt at a session writes it.
IInv ==
  /\ pc \in {"idle", "edit", "exited"}
  /\ rawmode = (pc = "edit")
  /\ terminal = IF pc = "edit" THEN "raw" ELSE "cooked"
  /\ orig_termios = "cooked"

LEMMA InitIInv == Init => IInv
  BY DEF Init, IInv

\* leave() turns the raw mode off.
LEMMA LeaveIInv ==
  ASSUME RestoreMayFail = FALSE, IInv, pc = "edit", NEW quits, leave(quits)
  PROVE  IInv'
  BY DEF IInv, leave, disableRawMode, tty

\* The calls that a session starts with, or fails to start with.
LEMMA CallIInv == ASSUME IInv, Call PROVE IInv'
<1>1. CASE AddHistory   BY <1>1 DEF AddHistory, IInv, tty
<1>2. ASSUME NEW text \in Files, LoadHistory(text) PROVE IInv'
  BY <1>2 DEF LoadHistory, IInv, tty
<1>3. ASSUME NEW len \in Lengths, SetHistoryMaxLen(len) PROVE IInv'
  BY <1>3 DEF SetHistoryMaxLen, IInv, tty
<1>4. CASE readPlainLine BY <1>4 DEF readPlainLine, IInv, tty
<1>5. CASE cannotEdit    BY <1>5 DEF cannotEdit, enableRawModeFails, IInv
<1>6. CASE linenoiseEdit BY <1>6 DEF linenoiseEdit, enableRawMode, IInv
<1> QED BY <1>1, <1>2, <1>3, <1>4, <1>5, <1>6 DEF Call

\* A key edits the line, walks through the history, or ends the session.
LEMMA KeyStrokeIInv ==
  ASSUME RestoreMayFail = FALSE, IInv, KeyStroke
  PROVE  IInv'
<1> DEFINE Same == UNCHANGED <<tty, pc>>
<1>1. Same => IInv'
  BY DEF IInv, tty
<1>2. ASSUME NEW c \in keyboard.chars, linenoiseEditInsert(c) PROVE Same
  BY <1>2 DEF linenoiseEditInsert, edited
<1>3. CASE linenoiseEditMoveLeft
  BY <1>1, <1>3 DEF linenoiseEditMoveLeft, edited
<1>4. CASE linenoiseEditMoveRight
  BY <1>1, <1>4 DEF linenoiseEditMoveRight, edited
<1>5. CASE linenoiseEditMoveHome
  BY <1>1, <1>5 DEF linenoiseEditMoveHome, edited
<1>6. CASE linenoiseEditMoveEnd
  BY <1>1, <1>6 DEF linenoiseEditMoveEnd, edited
<1>7. CASE linenoiseEditDelete
  BY <1>1, <1>7 DEF linenoiseEditDelete, cut, edited
<1>8. CASE linenoiseEditBackspace
  BY <1>1, <1>8 DEF linenoiseEditBackspace, cut, edited
<1>9. CASE linenoiseEditDeletePrevWord
  BY <1>1, <1>9 DEF linenoiseEditDeletePrevWord, cut, edited
<1>10. CASE swap
  BY <1>1, <1>10 DEF swap, edited
<1>11. CASE killLine \/ killRest
  BY <1>1, <1>11 DEF killLine, killRest, edited
<1>12. ASSUME NEW key, NEW step, linenoiseEditHistoryNext(key, step) PROVE Same
  BY <1>12 DEF linenoiseEditHistoryNext
<1>13. CASE enter
  BY <1>13, LeaveIInv DEF enter, pressed
<1>14. CASE endOfFile
  BY <1>14, LeaveIInv DEF endOfFile, pressed
<1>15. CASE interrupt
  BY <1>15, LeaveIInv DEF interrupt, pressed
<1>16. CASE inputEnds
  BY <1>16, LeaveIInv DEF inputEnds
<1> HIDE DEF Same
<1> QED
  BY <1>1, <1>2, <1>3, <1>4, <1>5, <1>6, <1>7, <1>8, <1>9, <1>10, <1>11, <1>12,
     <1>13, <1>14, <1>15, <1>16 DEF KeyStroke

LEMMA NextIInv ==
  ASSUME RestoreMayFail = FALSE, IInv, [Next]_vars
  PROVE  IInv'
<1>1. CASE Call            BY <1>1, CallIInv
<1>2. CASE KeyStroke       BY <1>2, KeyStrokeIInv
<1>3. CASE linenoiseAtExit BY <1>3 DEF linenoiseAtExit, disableRawMode, IInv, tty
<1>4. CASE UNCHANGED vars  BY <1>4 DEF vars, IInv, tty
<1> QED BY <1>1, <1>2, <1>3, <1>4 DEF Next

\* If restoring the terminal never fails, it is as the user had it whenever
\* no session runs and after the exit, for every keyboard, buffer size,
\* history and number of sessions (linenoiseRaw, enableRawMode,
\* disableRawMode, linenoiseAtExit).
THEOREM TerminalGivenBack ==
  RestoreMayFail = FALSE => (Spec => []TerminalRestored)
<1> SUFFICES ASSUME RestoreMayFail = FALSE PROVE Spec => []TerminalRestored
  OBVIOUS
<1>1. IInv /\ [Next]_vars => IInv'
  BY NextIInv
<1>2. IInv => TerminalRestored
  BY DEF IInv, TerminalRestored
<1> QED
  BY InitIInv, <1>1, <1>2, PTL DEF Spec

(***************************************************************************)
(* Texts, and positions in them.                                           *)
(***************************************************************************)

\* A position between two characters.
Boundary(s, p) == p \in 0 .. Len(s) /\ (p < Len(s) => s[p + 1] \notin Continuation)

LEMMA TextFacts ==
  ASSUME NEW k, NEW s \in Texts(k)
  PROVE  s \in Seq(Byte) /\ Len(s) \in Nat /\ DOMAIN s = 1 .. Len(s) /\ Whole(s)
BY DEF Texts

LEMMA EmptyText == ASSUME NEW k PROVE <<>> \in Texts(k)
<1>1. <<>> \in Seq(Byte) /\ <<>> \in Seq(OneByte) /\ \A i \in DOMAIN <<>> : FALSE
  OBVIOUS
<1> QED BY <1>1 DEF Texts, Whole

LEMMA EndsOfText ==
  ASSUME NEW k, NEW s \in Texts(k)
  PROVE  Boundary(s, 0) /\ Boundary(s, Len(s))
BY TextFacts DEF Boundary, Whole

LEMMA FrontOfText ==
  ASSUME NEW k, NEW s \in Texts(k), NEW p, Boundary(s, p)
  PROVE  SubSeq(s, 1, p) \in Texts(k) /\ Len(SubSeq(s, 1, p)) = p
<1> DEFINE u == SubSeq(s, 1, p)
<1>1. s \in Seq(Byte) /\ Len(s) \in Nat /\ DOMAIN s = 1 .. Len(s) /\ Whole(s) /\ p \in 0 .. Len(s)
  BY TextFacts DEF Boundary
<1>2. u \in Seq(Byte) /\ Len(u) = p /\ DOMAIN u = 1 .. p /\ \A i \in 1 .. p : u[i] = s[i]
  BY <1>1
<1>3. ("ctrl_t" \in k.keys => u \in Seq(OneByte))
  BY <1>1 DEF Texts
<1> HIDE DEF u
<1>4. Whole(u)
  <2> SUFFICES ASSUME NEW i \in 1 .. p
               PROVE  /\ u[i] \in Lead => i < p /\ u[i + 1] = (IF u[i] = "e1" THEN "e2" ELSE "m2")
                      /\ u[i] \in Continuation => i > 1 /\ u[i - 1] \in Lead
    BY <1>2 DEF Whole
  <2>1. u[i] = s[i] /\ i \in DOMAIN s
    BY <1>1, <1>2
  <2>2. ASSUME u[i] \in Lead
        PROVE  i < p /\ u[i + 1] = (IF u[i] = "e1" THEN "e2" ELSE "m2")
    <3>1. i < Len(s) /\ s[i + 1] = (IF s[i] = "e1" THEN "e2" ELSE "m2")
      BY <1>1, <2>1, <2>2 DEF Whole
    <3>2. s[i + 1] \in Continuation
      BY <3>1 DEF Continuation
    <3>3. i # p
      BY <1>1, <3>1, <3>2 DEF Boundary
    <3> QED BY <1>1, <1>2, <2>1, <3>1, <3>3
  <2>3. ASSUME u[i] \in Continuation PROVE i > 1 /\ u[i - 1] \in Lead
    <3>1. i > 1 /\ s[i - 1] \in Lead
      BY <1>1, <2>1, <2>3 DEF Whole
    <3> QED BY <1>1, <1>2, <3>1
  <2> QED BY <2>2, <2>3
<1> QED BY <1>2, <1>3, <1>4 DEF Texts, u

LEMMA RestOfText ==
  ASSUME NEW k, NEW s \in Texts(k), NEW p, Boundary(s, p)
  PROVE  /\ SubSeq(s, p + 1, Len(s)) \in Texts(k)
         /\ Len(SubSeq(s, p + 1, Len(s))) = Len(s) - p
         /\ \A i \in 1 .. Len(s) - p : SubSeq(s, p + 1, Len(s))[i] = s[p + i]
<1> DEFINE u == SubSeq(s, p + 1, Len(s))
           n == Len(s) - p
<1>1. /\ s \in Seq(Byte) /\ Len(s) \in Nat /\ DOMAIN s = 1 .. Len(s) /\ Whole(s) /\ p \in 0 .. Len(s)
      /\ n \in Nat
  BY TextFacts DEF Boundary
<1>2. u \in Seq(Byte) /\ Len(u) = n /\ DOMAIN u = 1 .. n /\ \A i \in 1 .. n : u[i] = s[p + i]
  <2>1. p + 1 \in 1 .. Len(s) + 1 /\ Len(s) - (p + 1) + 1 = n /\ \A i \in 1 .. n : s[p + i] \in Byte
    BY <1>1
  <2>2. u = [i \in 1 .. n |-> s[i + (p + 1) - 1]]
    BY <1>1, <2>1
  <2>3. \A i \in 1 .. n : i + (p + 1) - 1 = p + i
    BY <1>1
  <2>4. u = [i \in 1 .. n |-> s[p + i]]
    BY <2>2, <2>3
  <2> HIDE DEF u, n
  <2> QED BY <1>1, <2>1, <2>4
<1>3. ("ctrl_t" \in k.keys => u \in Seq(OneByte))
  BY <1>1 DEF Texts
<1> HIDE DEF u
<1>4. Whole(u)
  <2> SUFFICES ASSUME NEW i \in 1 .. n
               PROVE  /\ u[i] \in Lead => i < n /\ u[i + 1] = (IF u[i] = "e1" THEN "e2" ELSE "m2")
                      /\ u[i] \in Continuation => i > 1 /\ u[i - 1] \in Lead
    BY <1>2 DEF Whole
  <2>1. u[i] = s[p + i] /\ p + i \in DOMAIN s
    BY <1>1, <1>2
  <2>2. ASSUME u[i] \in Lead
        PROVE  i < n /\ u[i + 1] = (IF u[i] = "e1" THEN "e2" ELSE "m2")
    <3>1. p + i < Len(s) /\ s[p + i + 1] = (IF s[p + i] = "e1" THEN "e2" ELSE "m2")
      BY <1>1, <2>1, <2>2 DEF Whole
    <3>2. i + 1 \in 1 .. n /\ p + (i + 1) = p + i + 1
      BY <1>1, <3>1
    <3>3. u[i + 1] = s[p + i + 1]
      BY <1>2, <3>2
    <3> QED BY <1>1, <2>1, <3>1, <3>2, <3>3
  <2>3. ASSUME u[i] \in Continuation PROVE i > 1 /\ u[i - 1] \in Lead
    <3>1. s[p + i - 1] \in Lead
      BY <1>1, <2>1, <2>3 DEF Whole
    <3>2. i # 1
      BY <1>1, <2>1, <2>3 DEF Boundary
    <3>3. i - 1 \in 1 .. n /\ p + (i - 1) = p + i - 1
      BY <1>1, <3>2
    <3> QED BY <1>2, <3>1, <3>2, <3>3
  <2> QED BY <2>2, <2>3
<1> QED BY <1>2, <1>3, <1>4 DEF Texts, u

LEMMA JoinedText ==
  ASSUME NEW k, NEW s \in Texts(k), NEW t \in Texts(k)
  PROVE  s \o t \in Texts(k) /\ Boundary(s \o t, Len(s)) /\ Len(s \o t) = Len(s) + Len(t)
<1> DEFINE u == s \o t
           m == Len(s)
           n == Len(s) + Len(t)
<1>1. s \in Seq(Byte) /\ t \in Seq(Byte) /\ m \in Nat /\ Len(t) \in Nat /\ Whole(s) /\ Whole(t)
  BY TextFacts
<1>2. /\ u \in Seq(Byte) /\ Len(u) = n /\ DOMAIN u = 1 .. n
      /\ \A i \in 1 .. n : u[i] = IF i <= m THEN s[i] ELSE t[i - m]
  BY <1>1
<1>3. ("ctrl_t" \in k.keys => u \in Seq(OneByte))
  BY <1>1 DEF Texts
<1>4. DOMAIN s = 1 .. m /\ DOMAIN t = 1 .. Len(t) /\ n \in Nat
  BY <1>1
<1> HIDE DEF u
<1>5. ASSUME NEW i \in 1 .. m
      PROVE  /\ u[i] \in Lead => i < n /\ u[i + 1] = (IF u[i] = "e1" THEN "e2" ELSE "m2")
             /\ u[i] \in Continuation => i > 1 /\ u[i - 1] \in Lead
  <2>1. u[i] = s[i] /\ (i < m => u[i + 1] = s[i + 1]) /\ (i > 1 => u[i - 1] = s[i - 1])
    BY <1>1, <1>2, <1>4
  <2>2. /\ s[i] \in Lead => i < m /\ s[i + 1] = (IF s[i] = "e1" THEN "e2" ELSE "m2")
        /\ s[i] \in Continuation => i > 1 /\ s[i - 1] \in Lead
    BY <1>1, <1>4 DEF Whole
  <2> QED BY <1>1, <2>1, <2>2
<1>6. ASSUME NEW i \in m + 1 .. n
      PROVE  /\ u[i] \in Lead => i < n /\ u[i + 1] = (IF u[i] = "e1" THEN "e2" ELSE "m2")
             /\ u[i] \in Continuation => i > 1 /\ u[i - 1] \in Lead
  <2> DEFINE j == i - m
  <2>1. j \in 1 .. Len(t) /\ i \in 1 .. n
    BY <1>1
  <2>2. u[i] = t[j] /\ (j < Len(t) => u[i + 1] = t[j + 1]) /\ (j > 1 => u[i - 1] = t[j - 1])
    BY <1>1, <1>2, <2>1
  <2>3. /\ t[j] \in Lead => j < Len(t) /\ t[j + 1] = (IF t[j] = "e1" THEN "e2" ELSE "m2")
        /\ t[j] \in Continuation => j > 1 /\ t[j - 1] \in Lead
    BY <1>1, <1>4, <2>1 DEF Whole
  <2> QED BY <1>1, <2>1, <2>2, <2>3
<1>7. Whole(u)
  <2>1. \A i \in 1 .. n : i \in 1 .. m \/ i \in m + 1 .. n
    BY <1>1
  <2> QED BY <1>2, <1>5, <1>6, <2>1 DEF Whole
<1>8. Boundary(u, m)
  <2>1. m < n => u[m + 1] = t[1] /\ 1 \in DOMAIN t
    BY <1>1, <1>2, <1>4
  <2>2. m < n => t[1] \notin Continuation
    BY <1>1, <2>1 DEF Whole
  <2> QED BY <1>1, <1>2, <2>1, <2>2 DEF Boundary
<1> QED BY <1>2, <1>3, <1>7, <1>8 DEF Texts, u

\* What cut() makes of a text between two positions.
LEMMA CutText ==
  ASSUME NEW k, NEW s \in Texts(k), NEW from, Boundary(s, from), NEW to, Boundary(s, to)
  PROVE  LET u == SubSeq(s, 1, from) \o SubSeq(s, to + 1, Len(s))
         IN u \in Texts(k) /\ Boundary(u, from)
<1>1. SubSeq(s, 1, from) \in Texts(k) /\ Len(SubSeq(s, 1, from)) = from
  BY FrontOfText
<1>2. SubSeq(s, to + 1, Len(s)) \in Texts(k)
  BY RestOfText
<1> QED BY <1>1, <1>2, JoinedText

\* What linenoiseEditInsert makes of a text.
LEMMA InsertedText ==
  ASSUME NEW k, NEW s \in Texts(k), NEW p, Boundary(s, p), NEW c \in Texts(k)
  PROVE  LET u == SubSeq(s, 1, p) \o c \o SubSeq(s, p + 1, Len(s))
         IN u \in Texts(k) /\ Boundary(u, p + Len(c))
<1> DEFINE front == SubSeq(s, 1, p)
           rest == SubSeq(s, p + 1, Len(s))
<1>1. front \in Texts(k) /\ Len(front) = p
  BY FrontOfText
<1>2. rest \in Texts(k)
  BY RestOfText
<1> HIDE DEF front, rest
<1>3. front \o c \in Texts(k) /\ Len(front \o c) = p + Len(c)
  BY <1>1, JoinedText
<1>4. (front \o c) \o rest \in Texts(k) /\ Boundary((front \o c) \o rest, p + Len(c))
  <2> DEFINE fc == front \o c
  <2>1. fc \in Texts(k) /\ Len(fc) = p + Len(c)
    BY <1>3
  <2> HIDE DEF fc
  <2>2. fc \o rest \in Texts(k) /\ Boundary(fc \o rest, Len(fc))
    BY <1>2, <2>1, JoinedText
  <2> QED BY <2>1, <2>2 DEF fc
<1> QED BY <1>4 DEF front, rest

(***************************************************************************)
(* Numbers: least and greatest ones.                                       *)
(***************************************************************************)

LEMMA LeastElement ==
  ASSUME NEW T \in SUBSET Nat, T # {}
  PROVE  \E x \in T : \A y \in T : x <= y
<1> DEFINE Less == {ss \in Nat \X Nat : ss[1] < ss[2]}
<1>1. IsWellFoundedOn(Less, Nat)
  BY NatLessThanWellFounded, Zenon DEF OpToRel
<1>2. PICK x \in T : \A y \in T : ~ (<<y, x>> \in Less)
  <2> HIDE DEF Less
  <2> QED BY <1>1, WFMin
<1>3. ASSUME NEW y \in T, y < x PROVE FALSE
  <2>1. <<y, x>> \in Less
    BY <1>3
  <2> QED BY <1>2, <2>1
<1> QED BY <1>3

LEMMA UpTo ==
  ASSUME NEW N \in Nat, NEW S, 0 \in S, \A n \in 1 .. N : n - 1 \in S => n \in S
  PROVE  \A n \in 0 .. N : n \in S
<1> DEFINE T == {n \in 0 .. N : n \notin S}
<1> SUFFICES ASSUME T # {} PROVE FALSE
  OBVIOUS
<1>1. PICK n \in T : \A m \in T : n <= m
  <2>1. T \in SUBSET Nat
    OBVIOUS
  <2> HIDE DEF T
  <2> QED BY <2>1, LeastElement
<1>2. n \in 1 .. N /\ n - 1 \in 0 .. N /\ n - 1 \notin T
  BY <1>1
<1> QED BY <1>1, <1>2

LEMMA MaxIs ==
  ASSUME NEW n \in Nat, NEW S \in SUBSET (-1 .. n), S # {}
  PROVE  Max(S) \in S /\ \A y \in S : y <= Max(S)
<1> DEFINE T == {n - x : x \in S}
<1>1. PICK t \in T : \A u \in T : t <= u
  <2>1. T \in SUBSET Nat /\ T # {}
    <3>1. \A x \in S : n - x \in Nat
      <4> SUFFICES ASSUME NEW x \in S PROVE n - x \in Nat
        OBVIOUS
      <4>1. x \in Int /\ x <= n
        OBVIOUS
      <4> QED BY <4>1
    <3> QED BY <3>1
  <2> HIDE DEF T
  <2> QED BY <2>1, LeastElement
<1>2. PICK x \in S : t = n - x
  BY <1>1
<1>3. \A y \in S : x >= y
  BY <1>1, <1>2
<1> QED BY <1>2, <1>3 DEF Max

(***************************************************************************)
(* Characters before a position.                                           *)
(***************************************************************************)

\* Where the character before q starts, -1 for "before the line".
CharStart(s, q) == q - unicodePrevUTF8CharLen(s, q)

LEMMA CharStartRange ==
  ASSUME NEW s, NEW q \in Nat \ {0}
  PROVE  CharStart(s, q) \in -1 .. q - 1
<1> DEFINE Starts == {r \in 0 .. q - 1 : s[r + 1] \notin Continuation} \cup {-1}
<1>1. Starts \in SUBSET (-1 .. q) /\ Starts # {}
  OBVIOUS
<1>2. \A r \in Starts : r \in -1 .. q - 1
  OBVIOUS
<1>3. unicodePrevUTF8CharLen(s, q) = q - Max(Starts)
  BY DEF unicodePrevUTF8CharLen
<1> HIDE DEF Starts
<1>4. Max(Starts) \in -1 .. q - 1
  BY <1>1, <1>2, MaxIs
<1> QED BY <1>3, <1>4 DEF CharStart

LEMMA CharStartIsBoundary ==
  ASSUME NEW k, NEW s \in Texts(k), NEW q, Boundary(s, q), q # 0
  PROVE  CharStart(s, q) \in 0 .. q - 1 /\ Boundary(s, CharStart(s, q))
<1> DEFINE Starts == {r \in 0 .. q - 1 : s[r + 1] \notin Continuation} \cup {-1}
<1>1. Len(s) \in Nat /\ DOMAIN s = 1 .. Len(s) /\ Whole(s) /\ q \in 1 .. Len(s)
  BY TextFacts DEF Boundary
<1>2. Starts \in SUBSET (-1 .. q) /\ Starts # {}
  BY <1>1
<1>3. \E r \in Starts : r >= 0
  <2>1. CASE s[q] \notin Continuation
    <3>1. q - 1 \in Starts
      BY <1>1, <2>1
    <3> QED BY <1>1, <3>1
  <2>2. CASE s[q] \in Continuation
    <3>1. q > 1 /\ s[q - 1] \in Lead
      BY <1>1, <2>2 DEF Whole
    <3>2. q - 2 \in 0 .. q - 1 /\ (q - 2) + 1 = q - 1
      BY <1>1, <3>1
    <3>3. q - 2 \in Starts
      BY <3>1, <3>2 DEF Lead, Continuation
    <3> QED BY <3>2, <3>3
  <2> QED BY <2>1, <2>2
<1>4. \A r \in Starts : r \in Int /\ (r >= 0 => r \in 0 .. q - 1 /\ s[r + 1] \notin Continuation)
  BY <1>1
<1>5. unicodePrevUTF8CharLen(s, q) = q - Max(Starts)
  BY DEF unicodePrevUTF8CharLen
<1> HIDE DEF Starts
<1>6. Max(Starts) \in Starts /\ \A r \in Starts : r <= Max(Starts)
  <2>1. q \in Nat
    BY <1>1
  <2> QED BY <1>2, <2>1, MaxIs
<1>7. Max(Starts) \in 0 .. q - 1 /\ s[Max(Starts) + 1] \notin Continuation
  <2>1. Max(Starts) \in Int
    BY <1>4, <1>6
  <2>2. Max(Starts) >= 0
    BY <1>3, <1>4, <1>6, <2>1
  <2> QED BY <1>4, <1>6, <2>2
<1>8. CharStart(s, q) = Max(Starts)
  BY <1>1, <1>5, <1>7 DEF CharStart
<1> QED BY <1>1, <1>7, <1>8 DEF Boundary

(***************************************************************************)
(* unicodePrevGraphemeLen's recursion, up to position n.                   *)
(***************************************************************************)
OverMark(s, q) ==
  /\ unicodePrevUTF8CharLen(s, q) = 2
  /\ CharStart(s, q) >= 0
  /\ s[CharStart(s, q) + 1] = "m1"

Backs(s, p, n, f) ==
  f = [q \in 0 .. n |->
         IF q = 0 THEN p ELSE IF OverMark(s, q) THEN f[CharStart(s, q)] ELSE CharStart(s, q)]

LEMMA BackEnds ==
  ASSUME NEW s, NEW p \in Nat
  PROVE  \E f : Backs(s, p, p, f)
<1> DEFINE S == {n \in 0 .. p : \E f : Backs(s, p, n, f)}
<1>1. 0 \in S
  <2>1. Backs(s, p, 0, [q \in 0 .. 0 |-> p])
    BY DEF Backs
  <2> QED BY <2>1
<1>2. ASSUME NEW n \in 1 .. p, n - 1 \in S PROVE n \in S
  <2>1. PICK f : Backs(s, p, n - 1, f)
    BY <1>2
  <2> DEFINE last == IF OverMark(s, n) THEN f[CharStart(s, n)] ELSE CharStart(s, n)
             g == [q \in 0 .. n |-> IF q = n THEN last ELSE f[q]]
  <2>2. \A q \in 1 .. n : OverMark(s, q) => CharStart(s, q) \in 0 .. q - 1
    <3> SUFFICES ASSUME NEW q \in 1 .. n, OverMark(s, q) PROVE CharStart(s, q) \in 0 .. q - 1
      OBVIOUS
    <3>1. q \in Nat \ {0}
      OBVIOUS
    <3>2. CharStart(s, q) \in -1 .. q - 1
      BY <3>1, CharStartRange
    <3> QED BY <3>2 DEF OverMark
  <2>3. g[0] = p
    BY <2>1 DEF Backs
  <2>4. ASSUME NEW q \in 1 .. n - 1
        PROVE  g[q] = IF OverMark(s, q) THEN g[CharStart(s, q)] ELSE CharStart(s, q)
    <3>1. g[q] = f[q] /\ q \in 0 .. n - 1 /\ q # 0 /\ q \in 1 .. n
      BY <2>4
    <3>2. OverMark(s, q) => g[CharStart(s, q)] = f[CharStart(s, q)]
      BY <2>2, <3>1
    <3> HIDE DEF g
    <3> QED BY <2>1, <3>1, <3>2 DEF Backs
  <2>5. g[n] = IF OverMark(s, n) THEN g[CharStart(s, n)] ELSE CharStart(s, n)
    BY <2>2
  <2>6. g = [q \in 0 .. n |-> g[q]]
    OBVIOUS
  <2> HIDE DEF g
  <2>7. \A q \in 0 .. n : g[q] = IF q = 0 THEN p
                                 ELSE IF OverMark(s, q) THEN g[CharStart(s, q)] ELSE CharStart(s, q)
    BY <2>3, <2>4, <2>5
  <2>8. Backs(s, p, n, g)
    BY <2>6, <2>7 DEF Backs
  <2> QED BY <2>8
<1> HIDE DEF S
<1>3. p \in S
  BY <1>1, <1>2, UpTo
<1> QED BY <1>3 DEF S

\* Going back by a character and its marks stays between characters.
LEMMA PrevGrapheme ==
  ASSUME NEW k, NEW s \in Texts(k), NEW p, Boundary(s, p)
  PROVE  Boundary(s, p - unicodePrevGraphemeLen(s, p))
<1> DEFINE back == CHOOSE f : Backs(s, p, p, f)
<1>1. Len(s) \in Nat /\ p \in 0 .. Len(s) /\ p \in Nat
  BY TextFacts DEF Boundary
<1>2. Backs(s, p, p, back)
  BY <1>1, BackEnds, Zenon
<1>3. unicodePrevGraphemeLen(s, p) = p - back[p]
  BY DEF unicodePrevGraphemeLen, Backs, OverMark, CharStart
<1> HIDE DEF back
<1> DEFINE T == {q \in 0 .. p : Boundary(s, q) /\ ~ Boundary(s, back[q])}
<1>4. T = {}
  <2> SUFFICES ASSUME T # {} PROVE FALSE
    OBVIOUS
  <2>1. PICK q \in T : \A r \in T : q <= r
    <3>1. T \in SUBSET Nat
      BY <1>1
    <3> HIDE DEF T
    <3> QED BY <3>1, LeastElement
  <2>2. q \in 0 .. p /\ Boundary(s, q) /\ ~ Boundary(s, back[q])
    BY <2>1
  <2>3. back[q] = IF q = 0 THEN p
                  ELSE IF OverMark(s, q) THEN back[CharStart(s, q)] ELSE CharStart(s, q)
    BY <1>2, <2>2 DEF Backs
  <2>4. q # 0
    BY <2>2, <2>3
  <2>5. CharStart(s, q) \in 0 .. q - 1 /\ Boundary(s, CharStart(s, q))
    BY <2>2, <2>4, CharStartIsBoundary
  <2>6. OverMark(s, q)
    BY <2>2, <2>3, <2>4, <2>5
  <2>7. CharStart(s, q) \in T
    BY <1>1, <2>2, <2>3, <2>4, <2>5, <2>6
  <2> QED BY <1>1, <2>1, <2>2, <2>5, <2>7
<1>5. Boundary(s, back[p])
  BY <1>1, <1>4
<1>6. p - (p - back[p]) = back[p]
  BY <1>1, <1>5 DEF Boundary
<1> QED BY <1>3, <1>5, <1>6

(***************************************************************************)
(* Characters behind a position.                                           *)
(***************************************************************************)

LEMMA NextChar ==
  ASSUME NEW k, NEW s \in Texts(k), NEW p, Boundary(s, p)
  PROVE  Boundary(s, p + unicodeUTF8CharLen(s, p)) /\ p + unicodeUTF8CharLen(s, p) >= p
<1>1. Len(s) \in Nat /\ DOMAIN s = 1 .. Len(s) /\ Whole(s) /\ p \in 0 .. Len(s)
  BY TextFacts DEF Boundary
<1>2. Len(s) \in Int /\ p \in Int /\ p <= Len(s)
  BY <1>1
<1>3. CASE p = Len(s)
  <2>1. unicodeUTF8CharLen(s, p) = 0
    BY <1>3 DEF unicodeUTF8CharLen
  <2> QED BY <1>1, <2>1 DEF Boundary
<1>4. CASE p < Len(s) /\ s[p + 1] \in Lead
  <2>1. p + 1 < Len(s) /\ s[(p + 1) + 1] = (IF s[p + 1] = "e1" THEN "e2" ELSE "m2")
    BY <1>1, <1>4 DEF Whole
  <2>2. s[p + 2] \notin Lead
    BY <1>1, <2>1 DEF Lead
  <2>3. p + 2 < Len(s) => s[p + 3] \notin Continuation
    <3>1. p + 2 < Len(s) => p + 3 \in DOMAIN s /\ (p + 3) - 1 = p + 2
      BY <1>1
    <3> QED BY <2>2, <3>1, <1>1 DEF Whole
  <2>4. unicodeUTF8CharLen(s, p) = 2
    <3>1. p # Len(s)
      BY <1>4, <1>2
    <3> QED BY <1>4, <3>1 DEF unicodeUTF8CharLen
  <2>5. p + 2 \in 0 .. Len(s) /\ p + 2 >= p /\ (p + 2) + 1 = p + 3
    BY <1>1, <2>1
  <2>6. Boundary(s, p + 2)
    BY <2>3, <2>5 DEF Boundary
  <2> QED BY <2>4, <2>5, <2>6
<1>5. CASE p < Len(s) /\ s[p + 1] \notin Lead
  <2>1. s[p + 1] \notin Continuation
    BY <1>5 DEF Boundary
  <2>2. p + 1 < Len(s) => s[p + 2] \notin Continuation
    <3>1. p + 1 < Len(s) => p + 2 \in DOMAIN s /\ (p + 2) - 1 = p + 1
      BY <1>1
    <3> QED BY <1>5, <3>1, <1>1 DEF Whole
  <2>3. p + 1 \in 0 .. Len(s) /\ p + 1 >= p /\ (p + 1) + 1 = p + 2
    BY <1>1, <1>5
  <2>4. unicodeUTF8CharLen(s, p) = 1
    <3>1. p # Len(s)
      BY <1>5, <1>2
    <3> QED BY <1>5, <2>1, <3>1 DEF unicodeUTF8CharLen
  <2>5. Boundary(s, p + 1)
    BY <2>2, <2>3 DEF Boundary
  <2> QED BY <2>3, <2>4, <2>5
<1>6. p = Len(s) \/ p < Len(s)
  BY <1>2
<1> QED BY <1>3, <1>4, <1>5, <1>6

\* unicodeGraphemeLen's recursion, over the last n positions of its domain.
Forths(s, n, f) ==
  f = [q \in (Len(s) + 2) - n .. Len(s) + 2 |->
         IF q < Len(s) /\ s[q + 1] = "m1" THEN f[q + 2] ELSE q]

LEMMA ForthEnds ==
  ASSUME NEW s, Len(s) \in Nat, NEW N \in Nat
  PROVE  \E f : Forths(s, N, f)
<1> DEFINE z == Len(s) + 2
           S == {n \in 0 .. N : \E f : Forths(s, n, f)}
<1>1. 0 \in S
  <2>1. Forths(s, 0, [q \in z - 0 .. z |-> q])
    BY DEF Forths
  <2> QED BY <2>1
<1>2. ASSUME NEW n \in 1 .. N, n - 1 \in S PROVE n \in S
  <2>1. PICK f : Forths(s, n - 1, f)
    BY <1>2
  <2> DEFINE lo == z - n
             first == IF lo < Len(s) /\ s[lo + 1] = "m1" THEN f[lo + 2] ELSE lo
             g == [q \in lo .. z |-> IF q = lo THEN first ELSE f[q]]
  <2>2. z - (n - 1) = lo + 1 /\ lo \in Int /\ lo <= z /\ z \in Int
    BY <1>2
  <2> HIDE DEF z, lo
  <2>3. ASSUME NEW q \in lo + 1 .. z
        PROVE  g[q] = IF q < Len(s) /\ s[q + 1] = "m1" THEN g[q + 2] ELSE q
    <3>1. g[q] = f[q] /\ q \in lo .. z /\ q # lo
      BY <2>2, <2>3
    <3>2. q < Len(s) => q + 2 \in lo .. z /\ q + 2 # lo
      BY <2>2, <2>3 DEF z
    <3>3. q < Len(s) => g[q + 2] = f[q + 2]
      BY <3>2
    <3> HIDE DEF g
    <3>4. f[q] = IF q < Len(s) /\ s[q + 1] = "m1" THEN f[q + 2] ELSE q
      <4>1. f = [r \in lo + 1 .. z |-> IF r < Len(s) /\ s[r + 1] = "m1" THEN f[r + 2] ELSE r]
        BY <2>1, <2>2 DEF Forths, z
      <4> QED BY <2>3, <4>1
    <3> QED BY <3>1, <3>3, <3>4
  <2>4. g[lo] = IF lo < Len(s) /\ s[lo + 1] = "m1" THEN g[lo + 2] ELSE lo
    <3>1. lo < Len(s) => lo + 2 \in lo .. z /\ lo + 2 # lo
      BY <2>2 DEF z
    <3> QED BY <2>2, <3>1
  <2>5. g = [q \in lo .. z |-> g[q]]
    OBVIOUS
  <2> HIDE DEF g
  <2>6. \A q \in lo .. z : g[q] = IF q < Len(s) /\ s[q + 1] = "m1" THEN g[q + 2] ELSE q
    BY <2>2, <2>3, <2>4
  <2>7. g = [q \in lo .. z |-> IF q < Len(s) /\ s[q + 1] = "m1" THEN g[q + 2] ELSE q]
    BY <2>5, <2>6
  <2>8. Forths(s, n, g)
    BY <2>7 DEF Forths, lo, z
  <2> QED BY <2>8
<1> HIDE DEF S
<1>3. N \in S
  BY <1>1, <1>2, UpTo
<1> QED BY <1>3 DEF S

\* Going forth by a character and its marks stays between characters.
LEMMA NextGrapheme ==
  ASSUME NEW k, NEW s \in Texts(k), NEW p, Boundary(s, p)
  PROVE  Boundary(s, p + unicodeGraphemeLen(s, p))
<1> DEFINE z == Len(s) + 2
           N == z - p
           start == p + unicodeUTF8CharLen(s, p)
           marksEnd == CHOOSE f : Forths(s, N, f)
<1>1. Len(s) \in Nat /\ DOMAIN s = 1 .. Len(s) /\ Whole(s) /\ p \in 0 .. Len(s) /\ N \in Nat
  BY TextFacts DEF Boundary
<1>2. Forths(s, N, marksEnd)
  BY <1>1, ForthEnds, Zenon
<1>3. z - N = p
  BY <1>1
<1>4. unicodeGraphemeLen(s, p) = marksEnd[start] - p
  BY <1>3 DEF unicodeGraphemeLen, Forths
<1> HIDE DEF marksEnd
<1>5. \A q \in p .. z : marksEnd[q] = IF q < Len(s) /\ s[q + 1] = "m1" THEN marksEnd[q + 2] ELSE q
  <2>1. marksEnd = [q \in p .. z |-> IF q < Len(s) /\ s[q + 1] = "m1" THEN marksEnd[q + 2] ELSE q]
    BY <1>2, <1>3 DEF Forths
  <2> QED BY <2>1
<1> DEFINE T == {n \in 0 .. N : Boundary(s, z - n) /\ ~ Boundary(s, marksEnd[z - n])}
<1>6. T = {}
  <2> SUFFICES ASSUME T # {} PROVE FALSE
    OBVIOUS
  <2>1. PICK n \in T : \A m \in T : n <= m
    <3>1. T \in SUBSET Nat
      BY <1>1
    <3> HIDE DEF T
    <3> QED BY <3>1, LeastElement
  <2> DEFINE q == z - n
  <2>2. n \in 0 .. N /\ Boundary(s, q) /\ ~ Boundary(s, marksEnd[q])
    BY <2>1
  <2>3. q \in p .. z
    BY <1>1, <2>2
  <2>4. marksEnd[q] = IF q < Len(s) /\ s[q + 1] = "m1" THEN marksEnd[q + 2] ELSE q
    BY <1>5, <2>3
  <2>5. q < Len(s) /\ s[q + 1] = "m1" /\ marksEnd[q] = marksEnd[q + 2]
    BY <2>2, <2>4
  <2>6. Boundary(s, q + 2)
    <3>1. unicodeUTF8CharLen(s, q) = 2
      BY <1>1, <2>3, <2>5 DEF unicodeUTF8CharLen, Lead
    <3> HIDE DEF q
    <3> QED BY <2>2, <3>1, NextChar
  <2>7. z - (n - 2) = q + 2 /\ n - 2 \in 0 .. N
    BY <1>1, <2>2, <2>5
  <2>8. n - 2 \in T
    BY <2>2, <2>5, <2>6, <2>7
  <2>9. n \in Int
    BY <1>1, <2>2
  <2> HIDE DEF T
  <2> QED BY <2>1, <2>8, <2>9
<1>7. Boundary(s, start) /\ start >= p
  BY NextChar
<1>8. start \in 0 .. Len(s)
  BY <1>7 DEF Boundary
<1>9. z - start \in 0 .. N /\ z - (z - start) = start
  <2> HIDE DEF start
  <2> QED BY <1>1, <1>7, <1>8
<1>10. Boundary(s, marksEnd[start])
  <2> HIDE DEF start
  <2>1. z - start \notin T
    BY <1>6
  <2> HIDE DEF z, N
  <2> QED BY <1>7, <1>9, <2>1
<1>11. p + (marksEnd[start] - p) = marksEnd[start]
  BY <1>1, <1>10 DEF Boundary
<1> QED BY <1>4, <1>10, <1>11

\* Where Ctrl-W deletes from: behind a space, or the start of the line.
LEMMA WordStart ==
  ASSUME NEW s, NEW p \in Nat, NEW C
  PROVE  LET b == Max({q \in 1 .. p : s[q] \notin C} \cup {0})
         IN /\ b \in 0 .. p
            /\ b # 0 => s[b] \notin C
<1> DEFINE S == {q \in 1 .. p : s[q] \notin C} \cup {0}
<1>1. S \in SUBSET (-1 .. p) /\ S # {} /\ \A b \in S : b \in 0 .. p /\ (b # 0 => s[b] \notin C)
  OBVIOUS
<1> HIDE DEF S
<1>2. Max(S) \in S
  BY <1>1, MaxIs
<1>3. Max(S) \in 0 .. p /\ (Max(S) # 0 => s[Max(S)] \notin C)
  BY <1>1, <1>2
<1> QED BY <1>3 DEF S

LEMMA BehindSpace ==
  ASSUME NEW k, NEW s \in Texts(k), NEW b \in 0 .. Len(s), b # 0 => s[b] \notin Byte \ {"space"}
  PROVE  Boundary(s, b)
<1>1. Len(s) \in Nat /\ s \in Seq(Byte) /\ DOMAIN s = 1 .. Len(s) /\ Whole(s)
  BY TextFacts
<1>2. CASE b = 0
  BY <1>2, EndsOfText
<1>3. CASE b # 0
  <2>1. s[b] = "space"
    BY <1>1, <1>3
  <2>2. b < Len(s) => s[b + 1] \notin Continuation
    <3>1. b < Len(s) => b + 1 \in DOMAIN s /\ (b + 1) - 1 = b
      BY <1>1
    <3> QED BY <1>1, <2>1, <3>1 DEF Whole, Lead
  <2> QED BY <2>2 DEF Boundary
<1> QED BY <1>2, <1>3

(***************************************************************************)
(* The history.                                                            *)
(***************************************************************************)

LEMMA AddedKeeps ==
  ASSUME NEW T, NEW h \in Seq(T), NEW max \in Nat \ {0}, Len(h) <= max, NEW s \in T
  PROVE  /\ added(h, max, s) \in Seq(T)
         /\ Len(added(h, max, s)) \in 1 .. max
<1>1. CASE h # <<>> /\ Last(h) = s
  <2>1. added(h, max, s) = h /\ Len(h) >= 1
    BY <1>1 DEF added
  <2> QED BY <2>1
<1>2. CASE ~ (h # <<>> /\ Last(h) = s)
  <2> DEFINE kept == IF Len(h) = max THEN Tail(h) ELSE h
  <2>1. added(h, max, s) = Append(kept, s)
    BY <1>2 DEF added
  <2>2. kept \in Seq(T) /\ Len(kept) < max
    <3>1. CASE Len(h) = max
      <4>1. h # <<>>
        BY <3>1
      <4>2. Tail(h) \in Seq(T) /\ Len(Tail(h)) = Len(h) - 1
        BY <4>1
      <4> QED BY <3>1, <4>2
    <3>2. CASE Len(h) # max
      BY <3>2
    <3> QED BY <3>1, <3>2
  <2> HIDE DEF kept
  <2>3. Append(kept, s) \in Seq(T) /\ Len(Append(kept, s)) = Len(kept) + 1 /\ Len(kept) \in Nat
    BY <2>2
  <2> QED BY <2>1, <2>2, <2>3
<1> QED BY <1>1, <1>2

\* LoadHistory's lines, added one after the other.
Loads(h, max, lines, n, f) ==
  f = [i \in 0 .. n |-> IF i = 0 THEN h ELSE added(f[i - 1], max, lines[i])]

LEMMA LoadEnds ==
  ASSUME NEW h, NEW max, NEW lines, NEW N \in Nat
  PROVE  \E f : Loads(h, max, lines, N, f)
<1> DEFINE S == {n \in 0 .. N : \E f : Loads(h, max, lines, n, f)}
<1>1. 0 \in S
  <2>1. Loads(h, max, lines, 0, [i \in 0 .. 0 |-> h])
    BY DEF Loads
  <2> QED BY <2>1
<1>2. ASSUME NEW n \in 1 .. N, n - 1 \in S PROVE n \in S
  <2>1. PICK f : Loads(h, max, lines, n - 1, f)
    BY <1>2
  <2> DEFINE last == added(f[n - 1], max, lines[n])
             g == [i \in 0 .. n |-> IF i = n THEN last ELSE f[i]]
  <2>2. g[0] = h
    BY <2>1 DEF Loads
  <2>3. ASSUME NEW i \in 1 .. n - 1 PROVE g[i] = added(g[i - 1], max, lines[i])
    <3>1. g[i] = f[i] /\ i \in 0 .. n - 1 /\ i # 0 /\ g[i - 1] = f[i - 1]
      BY <2>3
    <3> HIDE DEF g
    <3> QED BY <2>1, <3>1 DEF Loads
  <2>4. g[n] = added(g[n - 1], max, lines[n])
    <3>1. g[n - 1] = f[n - 1] /\ g[n] = last
      OBVIOUS
    <3> HIDE DEF g
    <3> QED BY <3>1
  <2>5. g = [i \in 0 .. n |-> g[i]]
    OBVIOUS
  <2> HIDE DEF g
  <2>6. \A i \in 0 .. n : g[i] = IF i = 0 THEN h ELSE added(g[i - 1], max, lines[i])
    BY <2>2, <2>3, <2>4
  <2>7. Loads(h, max, lines, n, g)
    BY <2>5, <2>6 DEF Loads
  <2> QED BY <2>7
<1> HIDE DEF S
<1>3. N \in S
  BY <1>1, <1>2, UpTo
<1> QED BY <1>3 DEF S

LEMMA LoadedKeeps ==
  ASSUME NEW T, NEW h \in Seq(T), NEW max \in Nat \ {0}, Len(h) <= max, NEW lines \in Seq(T),
         NEW f, Loads(h, max, lines, Len(lines), f)
  PROVE  f[Len(lines)] \in Seq(T) /\ Len(f[Len(lines)]) <= max
<1> DEFINE N == Len(lines)
           S == {n \in 0 .. N : f[n] \in Seq(T) /\ Len(f[n]) <= max}
<1>1. \A n \in 0 .. N : f[n] = IF n = 0 THEN h ELSE added(f[n - 1], max, lines[n])
  BY DEF Loads
<1>2. N \in Nat /\ \A n \in 1 .. N : lines[n] \in T
  OBVIOUS
<1> HIDE DEF N
<1>3. 0 \in S
  BY <1>1, <1>2
<1>4. ASSUME NEW n \in 1 .. N, n - 1 \in S PROVE n \in S
  <2>1. f[n - 1] \in Seq(T) /\ Len(f[n - 1]) <= max /\ lines[n] \in T
    BY <1>2, <1>4
  <2>2. f[n] = added(f[n - 1], max, lines[n])
    BY <1>1, <1>2
  <2>3. f[n] \in Seq(T) /\ Len(f[n]) \in 1 .. max
    BY <2>1, <2>2, AddedKeeps
  <2>4. Len(f[n]) <= max
    BY <2>3
  <2> QED BY <1>2, <2>3, <2>4
<1> HIDE DEF S
<1>5. N \in S
  <2>1. \A n \in 1 .. N : n - 1 \in S => n \in S
    BY <1>4
  <2>2. \A n \in 0 .. N : n \in S
    BY <1>2, <1>3, <2>1, UpTo, Zenon
  <2>3. N \in 0 .. N
    BY <1>2
  <2> QED BY <2>2, <2>3
<1> QED BY <1>5 DEF S, N

(***************************************************************************)
(* What holds of the session and the history as long as the input is       *)
(* whole: the texts stay whole, and the entry being edited exists.         *)
(***************************************************************************)
Session ==
  /\ keyboard \in Keyboards /\ pc \in {"idle", "edit", "exited"}
  /\ history \in Seq(Texts(keyboard))
  /\ history_max_len \in Nat \ {0} /\ Len(history) <= history_max_len
  /\ buf \in Texts(keyboard) /\ Boundary(buf, pos)
  /\ history_index \in Nat /\ (pc = "edit" => history_index < Len(history))
  /\ line \in Texts(keyboard) /\ quit \in BOOLEAN

\* The terminal's mode, whatever happens to it.
Modes ==
  /\ rawmode \in BOOLEAN
  /\ orig_termios \in {"cooked", "raw"} /\ terminal \in {"cooked", "raw"}

LEMMA NextModes == ASSUME Modes, [Next]_vars PROVE Modes'
<1> DEFINE Same == UNCHANGED tty
<1>1. Same => Modes'
  BY DEF Modes, tty
<1>2. disableRawMode => Modes'
  BY <1>1 DEF disableRawMode, Modes
<1>3. enableRawMode \/ enableRawModeFails => Modes'
  BY DEF enableRawMode, enableRawModeFails, Modes
<1>4. ASSUME NEW quits, leave(quits) PROVE Modes'
  BY <1>2, <1>4 DEF leave
<1>5. ASSUME NEW b, NEW p, edited(b, p) PROVE Same
  BY <1>5 DEF edited
<1> HIDE DEF Same
<1>6. CASE Call
  <2>1. AddHistory \/ readPlainLine => Same
    BY DEF AddHistory, readPlainLine, Same
  <2>2. ASSUME NEW text, LoadHistory(text) PROVE Same
    BY <2>2 DEF LoadHistory, Same
  <2>3. ASSUME NEW len, SetHistoryMaxLen(len) PROVE Same
    BY <2>3 DEF SetHistoryMaxLen, Same
  <2>4. cannotEdit \/ linenoiseEdit => enableRawMode \/ enableRawModeFails
    BY DEF cannotEdit, linenoiseEdit
  <2> QED BY <1>1, <1>3, <1>6, <2>1, <2>2, <2>3, <2>4 DEF Call
<1>7. CASE KeyStroke
  <2>1. ASSUME NEW c, linenoiseEditInsert(c) PROVE Same
    BY <1>5, <2>1 DEF linenoiseEditInsert
  <2>2. linenoiseEditMoveLeft \/ linenoiseEditMoveRight => Same
    BY <1>5 DEF linenoiseEditMoveLeft, linenoiseEditMoveRight
  <2>3. linenoiseEditMoveHome \/ linenoiseEditMoveEnd => Same
    BY <1>5 DEF linenoiseEditMoveHome, linenoiseEditMoveEnd
  <2>4. linenoiseEditDelete \/ linenoiseEditBackspace \/ linenoiseEditDeletePrevWord => Same
    BY <1>5 DEF linenoiseEditDelete, linenoiseEditBackspace, linenoiseEditDeletePrevWord, cut
  <2>5. swap \/ killLine \/ killRest => Same
    BY <1>5 DEF swap, killLine, killRest
  <2>6. ASSUME NEW key, NEW step, linenoiseEditHistoryNext(key, step) PROVE Same
    BY <2>6 DEF linenoiseEditHistoryNext, Same
  <2>7. enter \/ endOfFile \/ interrupt \/ inputEnds => Modes'
    BY <1>4 DEF enter, endOfFile, interrupt, inputEnds
  <2> QED BY <1>1, <1>7, <2>1, <2>2, <2>3, <2>4, <2>5, <2>6, <2>7 DEF KeyStroke
<1>8. CASE linenoiseAtExit
  BY <1>2, <1>8 DEF linenoiseAtExit
<1>9. CASE UNCHANGED vars
  BY <1>1, <1>9 DEF vars, Same
<1> QED BY <1>6, <1>7, <1>8, <1>9 DEF Next

\* A key changes the line and the cursor only.
LEMMA EditedSession ==
  ASSUME Session, buf' \in Texts(keyboard), Boundary(buf', pos'),
         UNCHANGED <<history_index, store, line, quit, tty, keyboard, pc>>
  PROVE  Session'
<1>1. Texts(keyboard)' = Texts(keyboard)
  BY DEF Texts
<1>2. Boundary(buf, pos)'
  BY DEF Boundary
<1> QED BY <1>1, <1>2 DEF Session, store

\* The session ends with the line, or without it.
LEMMA LeaveSession ==
  ASSUME Session, NEW quits \in BOOLEAN, leave(quits),
         history' \in Seq(Texts(keyboard)), Len(history') <= Len(history)
  PROVE  Session'
<1>1. Texts(keyboard)' = Texts(keyboard)
  BY DEF Texts, leave
<1>2. Boundary(buf, pos)'
  <2>1. buf' = <<>> /\ pos' = 0
    BY DEF leave
  <2> QED BY <2>1 DEF Boundary
<1>3. <<>> \in Texts(keyboard)
  BY EmptyText
<1>4. line' \in Texts(keyboard)
  BY <1>3 DEF Session, leave
<1>5. Len(history') <= history_max_len'
  <2>1. Len(history') \in Nat /\ Len(history) \in Nat
    BY DEF Session
  <2> QED BY <2>1 DEF Session, leave
<1> QED BY <1>1, <1>2, <1>3, <1>4, <1>5 DEF Session, leave

\* The lines of a file are added to the history.
LEMMA LoadSession ==
  ASSUME Session, NEW text, linesOf(text) \in Seq(Texts(keyboard)), LoadHistory(text)
  PROVE  Session'
<1> DEFINE T     == Texts(keyboard)
           lines == linesOf(text)
           after == CHOOSE f : Loads(history, history_max_len, lines, Len(lines), f)
<1>1. Texts(keyboard)' = T
  BY DEF Texts, LoadHistory
<1>2. lines \in Seq(T) /\ Len(lines) \in Nat
  OBVIOUS
<1>3. history \in Seq(T) /\ history_max_len \in Nat \ {0} /\ Len(history) <= history_max_len
  BY DEF Session
<1>4. Boundary(buf, pos)'
  BY DEF Session, LoadHistory, edit, Boundary
<1> HIDE DEF T
<1>5. Loads(history, history_max_len, lines, Len(lines), after)
  BY <1>2, LoadEnds, Zenon
<1>6. history' = after[Len(lines)]
  BY DEF LoadHistory, Loads
<1> HIDE DEF after, lines
<1>7. history' \in Seq(T) /\ Len(history') <= history_max_len
  BY <1>2, <1>3, <1>5, <1>6, LoadedKeeps
<1> QED BY <1>1, <1>4, <1>7 DEF Session, LoadHistory, edit, T

\* The calls between sessions, and the start of one.
LEMMA CallSession == ASSUME WholeInput, Session, Call PROVE Session'
<1> DEFINE T == Texts(keyboard)
<1>1. keyboard' = keyboard
  BY DEF Call, AddHistory, LoadHistory, SetHistoryMaxLen, readPlainLine, cannotEdit, linenoiseEdit
<1>2. Texts(keyboard)' = T
  BY <1>1 DEF Texts
<1>3. /\ history \in Seq(T) /\ history_max_len \in Nat \ {0} /\ Len(history) <= history_max_len
      /\ line \in T /\ keyboard \in Keyboards
  BY DEF Session
<1>4. <<>> \in T /\ keyboard.chars \subseteq T /\ \A text \in Files : linesOf(text) \in Seq(T)
  BY <1>3, EmptyText DEF WholeInput
<1>5. UNCHANGED <<buf, pos>> => Boundary(buf, pos)'
  BY DEF Session, Boundary
<1> HIDE DEF T
<1>6. CASE AddHistory
  <2>1. added(history, history_max_len, line) \in Seq(T) /\ Len(added(history, history_max_len, line)) \in 1 .. history_max_len
    BY <1>3, AddedKeeps
  <2>2. history' \in Seq(T) /\ Len(history') <= history_max_len
    BY <1>3, <1>6, <2>1 DEF AddHistory
  <2> QED BY <1>2, <1>5, <1>6, <2>2 DEF Session, AddHistory, edit, T
<1>7. ASSUME NEW text \in Files, LoadHistory(text) PROVE Session'
  BY <1>4, <1>7, LoadSession DEF T
<1>8. ASSUME NEW len \in Lengths, SetHistoryMaxLen(len) PROVE Session'
  <2> DEFINE kept == IF len < Len(history) THEN len ELSE Len(history)
  <2>1. len \in Nat \ {0} /\ Len(history) \in Nat
    BY <1>3, <1>8, LengthAssumption DEF SetHistoryMaxLen
  <2>2. kept \in 0 .. Len(history) /\ kept <= len
    BY <2>1
  <2>3. history' = SubSeq(history, 1, kept)
    BY <1>8 DEF SetHistoryMaxLen
  <2> HIDE DEF kept
  <2>4. history' \in Seq(T) /\ Len(history') = kept
    BY <1>3, <2>2, <2>3
  <2>5. Len(history') <= len
    BY <2>2, <2>4
  <2> QED BY <1>2, <1>5, <1>8, <2>1, <2>4, <2>5 DEF Session, SetHistoryMaxLen, edit, T
<1>9. CASE readPlainLine
  <2>1. line' \in T
    BY <1>4, <1>9 DEF readPlainLine
  <2> QED BY <1>2, <1>5, <1>9, <2>1 DEF Session, readPlainLine, edit, store, T
<1>10. CASE cannotEdit
  BY <1>2, <1>4, <1>5, <1>10 DEF Session, cannotEdit, edit, store, T
<1>11. CASE linenoiseEdit
  <2>1. added(history, history_max_len, <<>>) \in Seq(T) /\ Len(added(history, history_max_len, <<>>)) \in 1 .. history_max_len
    BY <1>3, <1>4, AddedKeeps
  <2>2. history' \in Seq(T) /\ Len(history') <= history_max_len /\ 0 < Len(history')
    BY <1>3, <1>11, <2>1 DEF linenoiseEdit
  <2>3. Boundary(buf, pos)'
    <3>1. buf' = <<>> /\ pos' = 0
      BY <1>11 DEF linenoiseEdit
    <3> QED BY <3>1 DEF Boundary
  <2> QED BY <1>2, <1>4, <1>11, <2>2, <2>3 DEF Session, linenoiseEdit, T
<1> QED BY <1>6, <1>7, <1>8, <1>9, <1>10, <1>11 DEF Call

\* Ctrl-T where every character is one byte.
LEMMA SwappedText ==
  ASSUME NEW k, "ctrl_t" \in k.keys, NEW s \in Texts(k), NEW p \in 1 .. Len(s) - 1
  PROVE  LET u == [s EXCEPT ![p] = s[p + 1], ![p + 1] = s[p]]
         IN u \in Texts(k) /\ \A q \in 0 .. Len(s) : Boundary(u, q)
<1> DEFINE u == [s EXCEPT ![p] = s[p + 1], ![p + 1] = s[p]]
           ASCII == OneByte
<1>1. s \in Seq(ASCII) /\ Len(s) \in Nat /\ DOMAIN s = 1 .. Len(s)
  BY TextFacts DEF Texts
<1>2. s[p] \in ASCII /\ s[p + 1] \in ASCII
  BY <1>1
<1>3. u \in Seq(ASCII) /\ Len(u) = Len(s) /\ DOMAIN u = 1 .. Len(s)
  BY <1>1, <1>2
<1> HIDE DEF u
<1>4. \A i \in 1 .. Len(s) : u[i] \in Byte /\ u[i] \notin Lead /\ u[i] \notin Continuation
  <2>1. \A i \in 1 .. Len(s) : u[i] \in ASCII
    BY <1>3
  <2> QED BY <2>1 DEF Byte, OneByte, Lead, Continuation
<1>5. u \in Seq(Byte) /\ Whole(u)
  <2>1. u \in Seq(Byte)
    BY <1>3 DEF Byte, OneByte
  <2> QED BY <1>3, <1>4, <2>1 DEF Whole
<1>6. ASSUME NEW q \in 0 .. Len(s) PROVE Boundary(u, q)
  <2>1. q < Len(s) => q + 1 \in 1 .. Len(s)
    BY <1>1
  <2> QED BY <1>3, <1>4, <2>1 DEF Boundary
<1> QED BY <1>3, <1>5, <1>6 DEF Texts, u

\* The keys that move the cursor or edit the line.
LEMMA EditSession ==
  ASSUME WholeInput, Session, pc = "edit",
         \/ \E c \in keyboard.chars : linenoiseEditInsert(c)
         \/ linenoiseEditMoveLeft \/ linenoiseEditMoveRight
         \/ linenoiseEditMoveHome \/ linenoiseEditMoveEnd
         \/ linenoiseEditDelete \/ linenoiseEditBackspace \/ linenoiseEditDeletePrevWord
         \/ swap \/ killLine \/ killRest
  PROVE  Session'
<1> DEFINE Same == UNCHANGED <<history_index, store, line, quit, tty, keyboard, pc>>
           To(u, p) == buf' = u /\ pos' = p
           T == Texts(keyboard)
<1>1. buf \in T /\ Boundary(buf, pos) /\ keyboard.chars \subseteq T /\ pos \in 0 .. Len(buf) /\ Len(buf) \in Nat
  BY TextFacts DEF Session, WholeInput, Boundary
<1>2. ASSUME Same, buf' \in T, Boundary(buf', pos') PROVE Session'
  BY <1>2, EditedSession
<1>3. ASSUME NEW from, Boundary(buf, from), NEW to, Boundary(buf, to), cut(from, to, from)
      PROVE  Session'
  <2> DEFINE u == SubSeq(buf, 1, from) \o SubSeq(buf, to + 1, Len(buf))
  <2>1. u \in T /\ Boundary(u, from)
    BY <1>1, <1>3, CutText
  <2>2. buf' = u /\ pos' = from /\ Same
    BY <1>3 DEF cut, edited
  <2> HIDE DEF u, Same, T
  <2> QED BY <1>2, <2>1, <2>2, Zenon
<1>4. ASSUME NEW c \in keyboard.chars, linenoiseEditInsert(c) PROVE Session'
  <2> DEFINE u == SubSeq(buf, 1, pos) \o c \o SubSeq(buf, pos + 1, Len(buf))
  <2>1. u \in T /\ Boundary(u, pos + Len(c))
    <3>1. c \in T
      BY <1>1
    <3> QED BY <1>1, <3>1, InsertedText
  <2>2. buf' = u /\ pos' = pos + Len(c) /\ Same
    BY <1>4 DEF linenoiseEditInsert, edited
  <2> HIDE DEF u, Same, T
  <2> QED BY <1>2, <2>1, <2>2, Zenon
<1>5. ASSUME NEW p, Boundary(buf, p), edited(buf, p) PROVE Session'
  <2>1. buf' = buf /\ pos' = p /\ Same
    BY <1>5 DEF edited
  <2> HIDE DEF Same, T
  <2> QED BY <1>1, <1>2, <1>5, <2>1, Zenon
<1>6. CASE linenoiseEditMoveLeft
  BY <1>1, <1>5, <1>6, PrevGrapheme DEF linenoiseEditMoveLeft
<1>7. CASE linenoiseEditMoveRight
  BY <1>1, <1>5, <1>7, NextGrapheme DEF linenoiseEditMoveRight
<1>8. CASE linenoiseEditMoveHome \/ linenoiseEditMoveEnd
  BY <1>1, <1>5, <1>8, EndsOfText DEF linenoiseEditMoveHome, linenoiseEditMoveEnd
<1>9. CASE linenoiseEditDelete
  BY <1>1, <1>3, <1>9, NextGrapheme DEF linenoiseEditDelete
<1>10. CASE linenoiseEditBackspace
  BY <1>1, <1>3, <1>10, PrevGrapheme DEF linenoiseEditBackspace
<1>11. CASE linenoiseEditDeletePrevWord
  <2> DEFINE back(p, S) == Max({q \in 1 .. p : buf[q] \notin S} \cup {0})
             word == back(pos, {"space"})
             from == back(word, Byte \ {"space"})
  <2>1. pos \in Nat
    BY <1>1
  <2>2. word \in 0 .. pos
    BY <2>1, WordStart
  <2> HIDE DEF word
  <2>3. word \in Nat
    BY <2>1, <2>2
  <2>4. from \in 0 .. word /\ (from # 0 => buf[from] \notin Byte \ {"space"})
    BY <2>3, WordStart
  <2>5. cut(from, pos, from)
    BY <1>11 DEF linenoiseEditDeletePrevWord, word
  <2> HIDE DEF from
  <2>6. from \in 0 .. Len(buf)
    BY <1>1, <2>2, <2>4
  <2>7. Boundary(buf, from)
    BY <1>1, <2>4, <2>6, BehindSpace
  <2> QED BY <1>1, <1>3, <2>5, <2>7
<1>12. CASE swap
  <2> DEFINE u == [buf EXCEPT ![pos] = buf[pos + 1], ![pos + 1] = buf[pos]]
             p == IF pos # Len(buf) - 1 THEN pos + 1 ELSE pos
  <2>1. "ctrl_t" \in keyboard.keys /\ pos \in 1 .. Len(buf) - 1 /\ p \in 0 .. Len(buf)
    BY <1>1, <1>12 DEF swap, pressed
  <2>2. buf' = u /\ pos' = p /\ Same
    BY <1>12 DEF swap, edited
  <2> HIDE DEF p
  <2>3. u \in T /\ Boundary(u, p)
    BY <1>1, <2>1, SwappedText
  <2> HIDE DEF u, Same, T
  <2> QED BY <1>2, <2>2, <2>3, Zenon
<1>13. CASE killLine
  <2>1. buf' = <<>> /\ pos' = 0 /\ Same
    BY <1>13 DEF killLine, edited
  <2>2. <<>> \in T /\ Boundary(<<>>, 0)
    BY EmptyText DEF Boundary
  <2> HIDE DEF Same, T
  <2> QED BY <1>2, <2>1, <2>2, Zenon
<1>14. CASE killRest
  <2> DEFINE u == SubSeq(buf, 1, pos)
  <2>1. u \in T /\ Len(u) = pos
    BY <1>1, FrontOfText
  <2>2. buf' = u /\ pos' = pos /\ Same
    BY <1>14 DEF killRest, edited
  <2> HIDE DEF u
  <2>3. Boundary(u, pos)
    BY <2>1, EndsOfText
  <2> HIDE DEF Same, T
  <2> QED BY <1>2, <2>1, <2>2, <2>3, Zenon
<1> QED
  BY <1>4, <1>6, <1>7, <1>8, <1>9, <1>10, <1>11, <1>12, <1>13, <1>14

\* Walking through the history.
LEMMA WalkSession ==
  ASSUME Session, NEW key, NEW step \in Int, linenoiseEditHistoryNext(key, step)
  PROVE  Session'
<1> DEFINE T == Texts(keyboard)
           h == [history EXCEPT ![slot] = buf]
<1>1. /\ history \in Seq(T) /\ Len(history) \in Nat /\ buf \in T /\ Boundary(buf, pos)
      /\ history_index \in Nat /\ pc = "edit" /\ history_index < Len(history)
      /\ history_max_len \in Nat \ {0} /\ Len(history) <= history_max_len
  BY DEF Session, linenoiseEditHistoryNext, pressed
<1>2. history' = h /\ UNCHANGED <<history_max_len, line, quit, tty, keyboard, pc>>
  BY DEF linenoiseEditHistoryNext
<1>3. Texts(keyboard)' = T
  BY <1>2 DEF Texts
<1> HIDE DEF T
<1>4. h \in Seq(T) /\ Len(h) = Len(history)
  <2>1. slot \in DOMAIN history
    BY <1>1 DEF slot
  <2> QED BY <1>1, <2>1
<1> HIDE DEF h
<1>5. /\ buf' \in T /\ Boundary(buf, pos)'
      /\ history_index' \in Nat /\ history_index' < Len(history)
  <2>1. CASE history_index + step \in 0 .. Len(history) - 1
    <3>1. history_index' = history_index + step /\ buf' = history'[slot - step] /\ pos' = Len(buf')
      BY <2>1 DEF linenoiseEditHistoryNext
    <3>2. slot - step \in 1 .. Len(history)
      BY <1>1, <2>1 DEF slot
    <3>3. buf' \in T
      BY <1>2, <1>4, <3>1, <3>2
    <3>4. Boundary(buf', Len(buf'))
      BY <3>3, EndsOfText DEF T
    <3>5. Boundary(buf, pos)'
      BY <3>1, <3>4 DEF Boundary
    <3> QED BY <1>1, <2>1, <3>1, <3>3, <3>5
  <2>2. CASE history_index + step \notin 0 .. Len(history) - 1
    <3>1. UNCHANGED edit
      BY <2>2 DEF linenoiseEditHistoryNext
    <3> QED BY <1>1, <3>1 DEF edit, Boundary
  <2> QED BY <2>1, <2>2
<1>6. Len(history') <= history_max_len
  BY <1>1, <1>2, <1>4
<1> QED BY <1>1, <1>2, <1>3, <1>4, <1>5, <1>6 DEF Session, T

LEMMA KeyStrokeSession == ASSUME WholeInput, Session, KeyStroke PROVE Session'
<1> DEFINE T == Texts(keyboard)
<1>1. pc = "edit"
  BY DEF KeyStroke, linenoiseEditInsert, linenoiseEditMoveLeft, linenoiseEditMoveRight,
         linenoiseEditMoveHome, linenoiseEditMoveEnd, linenoiseEditDelete,
         linenoiseEditBackspace, linenoiseEditDeletePrevWord, swap, killLine, killRest,
         linenoiseEditHistoryNext, enter, endOfFile, interrupt, inputEnds, pressed
<1>2. history \in Seq(T) /\ Len(history) \in Nat /\ history # <<>>
  BY <1>1 DEF Session
<1>3. Front(history) \in Seq(T) /\ Len(Front(history)) <= Len(history)
  BY <1>2 DEF Front
<1>4. CASE enter
  BY <1>2, <1>3, <1>4, LeaveSession DEF enter
<1>5. CASE endOfFile
  BY <1>3, <1>5, LeaveSession DEF endOfFile
<1>6. CASE interrupt \/ inputEnds
  <2>1. history' = history /\ (leave(TRUE) \/ leave(FALSE))
    BY <1>6 DEF interrupt, inputEnds
  <2>2. history' \in Seq(T) /\ Len(history') <= Len(history)
    BY <1>2, <2>1
  <2> HIDE DEF T
  <2>3. TRUE \in BOOLEAN /\ FALSE \in BOOLEAN
    OBVIOUS
  <2> QED BY <2>1, <2>2, <2>3, LeaveSession DEF T
<1>7. CASE linenoiseEditHistoryNext("up", 1) \/ linenoiseEditHistoryNext("down", -1)
  BY <1>7, WalkSession
<1> QED BY <1>1, <1>4, <1>5, <1>6, <1>7, EditSession DEF KeyStroke

LEMMA NextSession == ASSUME WholeInput, Session, [Next]_vars PROVE Session'
<1>1. CASE Call
  BY <1>1, CallSession
<1>2. CASE KeyStroke
  BY <1>2, KeyStrokeSession
<1>3. CASE linenoiseAtExit \/ UNCHANGED vars
  <2>1. UNCHANGED <<store, edit, line, quit, keyboard>> /\ pc' \in {pc, "exited"}
    BY <1>3 DEF linenoiseAtExit, vars
  <2>2. Texts(keyboard)' = Texts(keyboard) /\ Boundary(buf, pos)'
    BY <2>1 DEF Texts, Boundary, Session, edit
  <2> QED BY <2>1, <2>2 DEF Session, store, edit
<1> QED BY <1>1, <1>2, <1>3 DEF Next

LEMMA InitSession == ASSUME WholeInput, Init PROVE Session /\ Modes
<1>1. <<>> \in Texts(keyboard) /\ <<>> \in Seq(Texts(keyboard)) /\ Len(<<>>) = 0
  BY EmptyText
<1>2. Boundary(buf, pos)
  BY DEF Init, Boundary
<1>3. /\ keyboard \in Keyboards /\ pc = "idle" /\ history = <<>> /\ history_max_len = DefaultMaxLen
      /\ buf = <<>> /\ line = <<>> /\ history_index = 0 /\ quit = FALSE
  BY DEF Init
<1>4. DefaultMaxLen \in Nat \ {0} /\ Len(history) <= history_max_len
  BY <1>1, <1>3, LengthAssumption
<1>5. Session
  BY <1>1, <1>2, <1>3, <1>4 DEF Session
<1> QED BY <1>5 DEF Init, Modes

LEMMA SessionHolds == WholeInput => (Spec => [](Session /\ Modes))
<1> SUFFICES ASSUME WholeInput PROVE Spec => [](Session /\ Modes)
  OBVIOUS
<1>1. Session /\ Modes /\ [Next]_vars => Session' /\ Modes'
  BY NextSession, NextModes
<1> QED BY InitSession, <1>1, PTL DEF Spec

\* What the session's state is, in the terms of the properties.
LEMMA SessionTyped == ASSUME Session, Modes PROVE TypeOK
<1>1. Texts(keyboard) \subseteq Seq(Byte)
  BY DEF Texts
<1>2. history \in Seq(Seq(Byte)) /\ buf \in Seq(Byte) /\ line \in Seq(Byte)
  BY <1>1 DEF Session
<1>3. pos \in Nat
  BY TextFacts DEF Session, Boundary
<1> QED BY <1>2, <1>3 DEF Session, Modes, TypeOK

LEMMA SessionBounded == ASSUME Session PROVE HistoryBounded
<1>1. history \in Seq(Texts(keyboard)) /\ Len(history) \in Nat /\ DOMAIN history = 1 .. Len(history)
  BY DEF Session
<1>2. pc = "edit" => slot \in 1 .. Len(history)
  BY <1>1 DEF Session, slot
<1> QED BY <1>1, <1>2 DEF Session, HistoryBounded

LEMMA SessionWhole == ASSUME Session PROVE WholeCharacters
<1>1. /\ history \in Seq(Texts(keyboard)) /\ buf \in Texts(keyboard) /\ line \in Texts(keyboard)
      /\ Boundary(buf, pos)
  BY DEF Session
<1>2. SubSeq(buf, 1, pos) \in Texts(keyboard)
  BY <1>1, FrontOfText
<1>3. \A i \in DOMAIN history : history[i] \in Texts(keyboard)
  BY <1>1
<1>4. pos <= Len(buf)
  BY <1>1, TextFacts DEF Boundary
<1> QED BY <1>1, <1>2, <1>3, <1>4, TextFacts DEF WholeCharacters

\* With characters that the keys keep whole, the globals and the session's
\* state have their types, the cursor is in the line, and the entry that is
\* shown is one of the history, for every line and history.
THEOREM TypesHold ==
  WholeInput =>
    (Spec => [](TypeOK /\ pos <= Len(buf) /\ (pc = "edit" => history_index < Len(history))))
<1>1. ASSUME Session, Modes
      PROVE  TypeOK /\ pos <= Len(buf) /\ (pc = "edit" => history_index < Len(history))
  <2>1. TypeOK
    BY <1>1, SessionTyped
  <2>2. pos <= Len(buf)
    BY <1>1, TextFacts DEF Session, Boundary
  <2> QED BY <1>1, <2>1, <2>2 DEF Session
<1>2. Session /\ Modes => TypeOK /\ pos <= Len(buf) /\ (pc = "edit" => history_index < Len(history))
  BY <1>1
<1> QED BY SessionHolds, <1>2, PTL

\* The history keeps within its limit, and the entry that the line is put
\* into when the user walks on is always one of it (linenoiseHistoryAdd,
\* linenoiseEditHistoryNext).
THEOREM HistoryKept == WholeInput => (Spec => []HistoryBounded)
<1>1. Session => HistoryBounded
  BY SessionBounded
<1> QED BY SessionHolds, <1>1, PTL

\* Whatever is typed, deleted and brought back from the history, no
\* character is torn apart, and the cursor stands between two, for texts of
\* every length and grapheme clusters of any number of marks.
THEOREM CharactersStayWhole == WholeInput => (Spec => []WholeCharacters)
<1>1. Session => WholeCharacters
  BY SessionWhole
<1> QED BY SessionHolds, <1>1, PTL

(***************************************************************************)
(* Sequences taken apart and put together.                                 *)
(***************************************************************************)

\* A part of a sequence.
LEMMA Piece ==
  ASSUME NEW T, NEW s \in Seq(T), NEW m \in Nat, NEW n \in Nat, m <= n, n <= Len(s)
  PROVE  /\ SubSeq(s, m + 1, n) \in Seq(T)
         /\ Len(SubSeq(s, m + 1, n)) = n - m
         /\ \A i \in 1 .. n - m : SubSeq(s, m + 1, n)[i] = s[m + i]
OBVIOUS

LEMMA Pieces ==
  ASSUME NEW T, NEW a \in Seq(T), NEW b \in Seq(T)
  PROVE  /\ SubSeq(a \o b, 1, Len(a)) = a
         /\ SubSeq(a \o b, Len(a) + 1, Len(a) + Len(b)) = b
<1>1. SubSeq(a \o b, 1, Len(a)) = a
  OBVIOUS
<1>2. SubSeq(a \o b, Len(a) + 1, Len(a) + Len(b)) = b
  OBVIOUS
<1> QED BY <1>1, <1>2

LEMMA Adjacent ==
  ASSUME NEW T, NEW s \in Seq(T), NEW p \in Nat, p <= Len(s)
  PROVE  SubSeq(s, 1, p) \o SubSeq(s, p + 1, Len(s)) = s
<1> DEFINE a == SubSeq(s, 1, p)
           b == SubSeq(s, p + 1, Len(s))
<1>1. a \in Seq(T) /\ Len(a) = p /\ \A i \in 1 .. p : a[i] = s[i]
  OBVIOUS
<1>2. b \in Seq(T) /\ Len(b) = Len(s) - p /\ \A i \in 1 .. Len(s) - p : b[i] = s[p + i]
  OBVIOUS
<1> HIDE DEF a, b
<1>3. Len(a \o b) = Len(s) /\ a \o b \in Seq(T)
  BY <1>1, <1>2
<1>4. ASSUME NEW i \in 1 .. Len(s) PROVE (a \o b)[i] = s[i]
  <2>1. i <= p => (a \o b)[i] = a[i] /\ i \in 1 .. p
    BY <1>1, <1>2
  <2>2. i > p => (a \o b)[i] = b[i - p] /\ i - p \in 1 .. Len(s) - p /\ p + (i - p) = i
    BY <1>1, <1>2
  <2>3. i <= p \/ i > p
    OBVIOUS
  <2> QED BY <1>1, <1>2, <2>1, <2>2, <2>3
<1>5. a \o b = s
  <2> DEFINE u == a \o b
  <2>1. u \in Seq(T) /\ Len(u) = Len(s) /\ \A i \in 1 .. Len(s) : u[i] = s[i]
    BY <1>3, <1>4
  <2> HIDE DEF u
  <2>2. u = s
    BY <2>1
  <2> QED BY <2>2 DEF u
<1> QED BY <1>5 DEF a, b

LEMMA EmptyPiece ==
  ASSUME NEW T, NEW a \in Seq(T)
  PROVE  a \o <<>> = a /\ <<>> \o a = a
OBVIOUS

(***************************************************************************)
(* The characters of a text.                                               *)
(***************************************************************************)

\* characters' recursion, up to position n.
Spells(s, n, f) ==
  f = [p \in 0 .. n |->
         IF p = 0 THEN <<>>
         ELSE IF s[p] \in Continuation THEN f[p - 1]
         ELSE Append(f[p - 1], SubSeq(s, p, p - 1 + unicodeUTF8CharLen(s, p - 1)))]

LEMMA SpellEnds ==
  ASSUME NEW s, NEW N \in Nat
  PROVE  \E f : Spells(s, N, f)
<1> DEFINE S == {n \in 0 .. N : \E f : Spells(s, n, f)}
           More(g, p) == IF s[p] \in Continuation THEN g
                         ELSE Append(g, SubSeq(s, p, p - 1 + unicodeUTF8CharLen(s, p - 1)))
<1>0. \A n, f : Spells(s, n, f) <=> f = [p \in 0 .. n |-> IF p = 0 THEN <<>> ELSE More(f[p - 1], p)]
  BY DEF Spells
<1> HIDE DEF More
<1>1. 0 \in S
  <2>1. Spells(s, 0, [p \in 0 .. 0 |-> <<>>])
    BY DEF Spells
  <2> QED BY <2>1
<1>2. ASSUME NEW n \in 1 .. N, n - 1 \in S PROVE n \in S
  <2>1. PICK f : Spells(s, n - 1, f)
    BY <1>2
  <2> DEFINE last == More(f[n - 1], n)
             g == [p \in 0 .. n |-> IF p = n THEN last ELSE f[p]]
  <2>2. g[0] = <<>>
    BY <1>0, <2>1
  <2>3. ASSUME NEW p \in 1 .. n - 1 PROVE g[p] = More(g[p - 1], p)
    <3>1. g[p] = f[p] /\ p \in 0 .. n - 1 /\ p # 0 /\ g[p - 1] = f[p - 1]
      BY <2>3
    <3> HIDE DEF g
    <3> QED BY <1>0, <2>1, <3>1
  <2>4. g[n] = More(g[n - 1], n)
    <3>1. g[n - 1] = f[n - 1] /\ g[n] = last
      OBVIOUS
    <3> HIDE DEF g
    <3> QED BY <3>1
  <2>5. g = [p \in 0 .. n |-> g[p]]
    OBVIOUS
  <2> HIDE DEF g
  <2>6. \A p \in 0 .. n : g[p] = IF p = 0 THEN <<>> ELSE More(g[p - 1], p)
    BY <2>2, <2>3, <2>4
  <2>7. Spells(s, n, g)
    BY <1>0, <2>5, <2>6
  <2> QED BY <2>7
<1> HIDE DEF S
<1>3. N \in S
  BY <1>1, <1>2, UpTo
<1> QED BY <1>3 DEF S

\* A character by its first byte.
Named(b) ==
  CASE b = "x" -> Letter [] b = "space" -> Space [] b = "lf" -> LineFeed
    [] b = "e1" -> Wide [] b = "m1" -> Mark

LEMMA NamedIsCharacter ==
  ASSUME NEW b \in Byte \ Continuation
  PROVE  /\ Named(b) \in Characters
         /\ Named(b) = Mark <=> b = "m1"
         /\ Named(b) = Space <=> b = "space"
<1>1. b \in OneByte \cup {"e1", "m1"}
  BY DEF Byte, OneByte, Continuation
<1>2. /\ Letter[1] = "x" /\ Space[1] = "space" /\ LineFeed[1] = "lf"
      /\ Wide[1] = "e1" /\ Mark[1] = "m1"
  BY DEF Letter, Space, LineFeed, Wide, Mark
<1>3. /\ Letter # Mark /\ Space # Mark /\ LineFeed # Mark /\ Wide # Mark
      /\ Letter # Space /\ LineFeed # Space /\ Wide # Space
  BY <1>2
<1> QED BY <1>1, <1>3 DEF Named, Characters, OneByte

LEMMA CharacterAt ==
  ASSUME NEW k, NEW s \in Texts(k), NEW p, Boundary(s, p), p < Len(s)
  PROVE  /\ SubSeq(s, p + 1, p + unicodeUTF8CharLen(s, p)) = Named(s[p + 1])
         /\ s[p + 1] \in Byte \ Continuation
         /\ unicodeUTF8CharLen(s, p) = Len(Named(s[p + 1]))
         /\ unicodeUTF8CharLen(s, p) \in 1 .. Len(s) - p
<1>0. s \in Seq(Byte)
  BY TextFacts
<1>1. Len(s) \in Nat /\ p \in 0 .. Len(s)
  BY TextFacts DEF Boundary
<1>2. p + 1 \in 1 .. Len(s) /\ p # Len(s) /\ p \in Nat /\ 1 \in 1 .. Len(s) - p
  BY <1>1
<1>3. s[p + 1] \in Byte /\ s[p + 1] \notin Continuation
  <2>1. s[p + 1] \in Byte
    BY <1>0, <1>1, <1>2
  <2> QED BY <2>1 DEF Boundary
<1> DEFINE b == s[p + 1]
           c == unicodeUTF8CharLen(s, p)
<1>4. CASE b \in OneByte
  <2>1. c = 1
    BY <1>2, <1>4 DEF unicodeUTF8CharLen, Continuation, Lead, OneByte
  <2>2. SubSeq(s, p + 1, p + 1) = <<b>>
    <3>1. p + 1 \in 1 .. Len(s) + 1 /\ p + 1 \in 0 .. Len(s)
      BY <1>1, <1>2
    <3> DEFINE w == SubSeq(s, p + 1, p + 1)
    <3>2. w \in Seq(Byte) /\ Len(w) = 1 /\ w[1] = s[p + 1]
      <4>1. p + 1 \in Nat /\ p <= p + 1 /\ p + 1 <= Len(s) /\ (p + 1) - p = 1
        BY <1>1, <1>2
      <4> HIDE DEF b, c, w
      <4>2. /\ w \in Seq(Byte) /\ Len(w) = (p + 1) - p
            /\ \A i \in 1 .. (p + 1) - p : w[i] = s[p + i]
        BY <1>0, <1>2, <4>1, Piece DEF w
      <4> QED BY <4>1, <4>2
    <3> HIDE DEF w
    <3>3. w = <<b>>
      BY <3>2
    <3> QED BY <3>3 DEF w
  <2>3. Named(b) = <<b>> /\ Len(<<b>>) = 1
    BY <1>4 DEF Named, Letter, Space, LineFeed, OneByte
  <2> QED BY <1>2, <1>3, <2>1, <2>2, <2>3
<1>5. CASE b \in {"e1", "m1"}
  <2>1. c = 2
    BY <1>2, <1>5 DEF unicodeUTF8CharLen, Continuation, Lead
  <2>2. p + 1 < Len(s) /\ s[(p + 1) + 1] = (IF b = "e1" THEN "e2" ELSE "m2")
    <3>1. DOMAIN s = 1 .. Len(s) /\ Whole(s)
      BY TextFacts
    <3> QED BY <1>2, <1>5, <3>1 DEF Whole, Lead
  <2>3. SubSeq(s, p + 1, p + 2) = <<s[p + 1], s[p + 2]>>
    <3>1. p + 2 \in 1 .. Len(s) /\ (p + 2) - (p + 1) + 1 = 2 /\ 2 + (p + 1) - 1 = p + 2 /\ 1 + (p + 1) - 1 = p + 1
      BY <1>1, <2>2
    <3> DEFINE w == SubSeq(s, p + 1, p + 2)
    <3>2. w \in Seq(Byte) /\ Len(w) = 2 /\ w[1] = s[p + 1] /\ w[2] = s[p + 2]
      <4>1. p + 2 \in Nat /\ p <= p + 2 /\ p + 2 <= Len(s) /\ (p + 2) - p = 2
        BY <1>1, <1>2, <3>1
      <4> HIDE DEF b, c, w
      <4>2. /\ w \in Seq(Byte) /\ Len(w) = (p + 2) - p
            /\ \A i \in 1 .. (p + 2) - p : w[i] = s[p + i]
        BY <1>0, <1>2, <4>1, Piece DEF w
      <4> QED BY <4>1, <4>2
    <3> HIDE DEF w
    <3>3. w = <<s[p + 1], s[p + 2]>>
      BY <3>2
    <3> QED BY <3>3 DEF w
  <2>4. (p + 1) + 1 = p + 2
    BY <1>1
  <2>5. Named(b) = <<b, IF b = "e1" THEN "e2" ELSE "m2">> /\ Len(Named(b)) = 2
    BY <1>5 DEF Named, Wide, Mark
  <2>6. 2 \in 1 .. Len(s) - p
    BY <1>1, <2>2
  <2> QED BY <1>3, <2>1, <2>2, <2>3, <2>4, <2>5, <2>6
<1>6. b \in OneByte \cup {"e1", "m1"}
  BY <1>3 DEF Byte, OneByte, Continuation
<1> QED BY <1>4, <1>5, <1>6

\* The recursion, for a text of whole characters.
Spelling(s, f) ==
  /\ f[0] = <<>>
  /\ \A p \in 1 .. Len(s) :
       f[p] = IF s[p] \in Continuation THEN f[p - 1] ELSE Append(f[p - 1], Named(s[p]))

LEMMA Spelled ==
  ASSUME NEW k, NEW s \in Texts(k)
  PROVE  \E f : Spelling(s, f) /\ characters(s) = f[Len(s)]
<1> DEFINE N == Len(s)
           f == CHOOSE g : Spells(s, N, g)
<1>1. N \in Nat /\ DOMAIN s = 1 .. N
  BY TextFacts
<1>2. Spells(s, N, f)
  BY <1>1, SpellEnds, Zenon
<1>3. characters(s) = f[N]
  BY DEF characters, Spells
<1> HIDE DEF f
<1>4. ASSUME NEW p \in 1 .. N
      PROVE  f[p] = IF s[p] \in Continuation THEN f[p - 1] ELSE Append(f[p - 1], Named(s[p]))
  <2>1. p \in 0 .. N /\ p # 0
    BY <1>1
  <2>2. f[p] = IF s[p] \in Continuation THEN f[p - 1]
               ELSE Append(f[p - 1], SubSeq(s, p, p - 1 + unicodeUTF8CharLen(s, p - 1)))
    BY <1>2, <2>1 DEF Spells
  <2>3. s[p] \notin Continuation => SubSeq(s, p, p - 1 + unicodeUTF8CharLen(s, p - 1)) = Named(s[p])
    <3>1. SUFFICES ASSUME s[p] \notin Continuation
                   PROVE  SubSeq(s, p, p - 1 + unicodeUTF8CharLen(s, p - 1)) = Named(s[p])
      OBVIOUS
    <3>2. p - 1 \in 0 .. Len(s) /\ p - 1 < Len(s) /\ (p - 1) + 1 = p
      BY <1>1
    <3>3. Boundary(s, p - 1)
      BY <3>1, <3>2 DEF Boundary
    <3>4. SubSeq(s, (p - 1) + 1, (p - 1) + unicodeUTF8CharLen(s, p - 1)) = Named(s[(p - 1) + 1])
      BY <3>2, <3>3, CharacterAt
    <3> QED BY <3>2, <3>4
  <2> QED BY <2>2, <2>3
<1>5. f[0] = <<>>
  BY <1>1, <1>2 DEF Spells
<1> QED BY <1>3, <1>4, <1>5 DEF Spelling

LEMMA SpellingType ==
  ASSUME NEW k, NEW s \in Texts(k), NEW f, Spelling(s, f)
  PROVE  \A p \in 0 .. Len(s) : f[p] \in Seq(Characters)
<1> DEFINE N == Len(s)
           S == {p \in 0 .. N : f[p] \in Seq(Characters)}
<1>1. N \in Nat /\ \A p \in 1 .. N : s[p] \in Byte
  BY TextFacts
<1>2. 0 \in S
  <2>1. f[0] = <<>> /\ <<>> \in Seq(Characters)
    BY DEF Spelling
  <2>2. f[0] \in Seq(Characters)
    BY <2>1, Zenon
  <2>3. 0 \in 0 .. N
    BY <1>1
  <2> QED BY <2>2, <2>3
<1>3. ASSUME NEW p \in 1 .. N, p - 1 \in S PROVE p \in S
  <2>1. f[p - 1] \in Seq(Characters)
    BY <1>3
  <2>2. s[p] \notin Continuation => Append(f[p - 1], Named(s[p])) \in Seq(Characters)
    <3>1. s[p] \notin Continuation => Named(s[p]) \in Characters
      BY <1>1, NamedIsCharacter
    <3> QED BY <2>1, <3>1
  <2>3. f[p] \in Seq(Characters)
    BY <2>1, <2>2 DEF Spelling
  <2> QED BY <1>1, <2>3
<1> HIDE DEF S, N
<1>4. \A p \in 0 .. N : p \in S
  BY <1>1, <1>2, <1>3, UpTo
<1> QED BY <1>4 DEF S, N

LEMMA CharactersType ==
  ASSUME NEW k, NEW s \in Texts(k)
  PROVE  characters(s) \in Seq(Characters) /\ Len(characters(s)) \in Nat
<1>1. PICK f : Spelling(s, f) /\ characters(s) = f[Len(s)]
  BY Spelled
<1>2. Len(s) \in 0 .. Len(s)
  BY TextFacts
<1>3. characters(s) \in Seq(Characters)
  BY <1>1, <1>2, SpellingType
<1> QED BY <1>3

\* Texts put together are their characters put together.
LEMMA JoinedCharacters ==
  ASSUME NEW k, NEW s \in Texts(k), NEW t \in Texts(k)
  PROVE  characters(s \o t) = characters(s) \o characters(t)
<1> DEFINE u == s \o t
           m == Len(s)
           n == Len(t)
<1>1. PICK f : Spelling(s, f) /\ characters(s) = f[m]
  BY Spelled
<1>2. PICK g : Spelling(t, g) /\ characters(t) = g[n]
  BY Spelled
<1>3. u \in Texts(k) /\ Len(u) = m + n
  BY JoinedText
<1>4. m \in Nat /\ n \in Nat /\ s \in Seq(Byte) /\ t \in Seq(Byte)
  BY TextFacts
<1>5. /\ \A p \in 1 .. m : u[p] = s[p]
      /\ \A q \in 1 .. n : u[m + q] = t[q]
  BY <1>4
<1> HIDE DEF u
<1>6. PICK h : Spelling(u, h) /\ characters(u) = h[Len(u)]
  BY <1>3, Spelled
<1> HIDE DEF m, n
<1>7. \A p \in 0 .. m : h[p] = f[p]
  <2> DEFINE S == {p \in 0 .. m : h[p] = f[p]}
  <2>1. 0 \in S
    BY <1>1, <1>4, <1>6 DEF Spelling
  <2>2. ASSUME NEW p \in 1 .. m, p - 1 \in S PROVE p \in S
    <3>1. h[p - 1] = f[p - 1] /\ u[p] = s[p] /\ p \in 1 .. Len(u)
      BY <1>3, <1>4, <1>5, <2>2
    <3>2. f[p] = IF s[p] \in Continuation THEN f[p - 1] ELSE Append(f[p - 1], Named(s[p]))
      BY <1>1 DEF Spelling, m
    <3>3. h[p] = IF u[p] \in Continuation THEN h[p - 1] ELSE Append(h[p - 1], Named(u[p]))
      BY <1>6, <3>1 DEF Spelling
    <3> QED BY <1>4, <3>1, <3>2, <3>3
  <2> HIDE DEF S
  <2>3. \A p \in 0 .. m : p \in S
    BY <1>4, <2>1, <2>2, UpTo
  <2> QED BY <2>3 DEF S
<1>8. \A q \in 0 .. n : h[m + q] = f[m] \o g[q]
  <2> DEFINE S == {q \in 0 .. n : h[m + q] = f[m] \o g[q]}
  <2>1. f[m] \in Seq(Characters)
    BY <1>1, CharactersType
  <2>2. \A q \in 0 .. n : g[q] \in Seq(Characters)
    BY <1>2, SpellingType DEF n
  <2>3. 0 \in S
    <3>1. h[m + 0] = f[m] /\ g[0] = <<>>
      BY <1>2, <1>4, <1>7 DEF Spelling
    <3>2. f[m] \o <<>> = f[m]
      BY <2>1, EmptyPiece
    <3>3. 0 \in 0 .. n
      BY <1>4
    <3> QED BY <3>1, <3>2, <3>3
  <2>4. ASSUME NEW q \in 1 .. n, q - 1 \in S PROVE q \in S
    <3>1. /\ h[m + (q - 1)] = f[m] \o g[q - 1] /\ u[m + q] = t[q]
          /\ m + q \in 1 .. Len(u) /\ (m + q) - 1 = m + (q - 1) /\ q - 1 \in 0 .. n
      <4>1. h[m + (q - 1)] = f[m] \o g[q - 1]
        BY <2>4
      <4>2. u[m + q] = t[q]
        BY <1>5
      <4>3. m + q \in 1 .. m + n /\ (m + q) - 1 = m + (q - 1) /\ q - 1 \in 0 .. n
        BY <1>4
      <4> QED BY <1>3, <4>1, <4>2, <4>3 DEF m, n
    <3>2. g[q] = IF t[q] \in Continuation THEN g[q - 1] ELSE Append(g[q - 1], Named(t[q]))
      BY <1>2 DEF Spelling, n
    <3>3. h[m + q] = IF t[q] \in Continuation THEN f[m] \o g[q - 1] ELSE Append(f[m] \o g[q - 1], Named(t[q]))
      BY <1>6, <3>1 DEF Spelling
    <3>4. t[q] \notin Continuation =>
            Append(f[m] \o g[q - 1], Named(t[q])) = f[m] \o Append(g[q - 1], Named(t[q]))
      <4>1. SUFFICES ASSUME t[q] \notin Continuation
                     PROVE  Append(f[m] \o g[q - 1], Named(t[q])) = f[m] \o Append(g[q - 1], Named(t[q]))
        OBVIOUS
      <4>2. t[q] \in Byte
        BY <1>4 DEF n
      <4>3. Named(t[q]) \in Characters
        BY <4>1, <4>2, NamedIsCharacter
      <4>4. g[q - 1] \in Seq(Characters)
        BY <2>2, <3>1
      <4> HIDE DEF S
      <4> DEFINE a == f[m]
                 b == g[q - 1]
                 x == Named(t[q])
      <4>5. a \in Seq(Characters) /\ b \in Seq(Characters) /\ x \in Characters
        BY <2>1, <4>3, <4>4
      <4> HIDE DEF a, b, x
      <4>6. Append(a \o b, x) = a \o Append(b, x)
        BY <4>5
      <4> QED BY <4>6 DEF a, b, x
    <3>5. h[m + q] = f[m] \o g[q]
      BY <3>2, <3>3, <3>4
    <3>6. q \in 0 .. n
      BY <1>4
    <3> QED BY <3>5, <3>6
  <2> HIDE DEF S
  <2>5. \A q \in 0 .. n : q \in S
    BY <1>4, <2>3, <2>4, UpTo
  <2> QED BY <2>5 DEF S
<1>9. n \in 0 .. n
  BY <1>4
<1>10. h[m + n] = f[m] \o g[n]
  BY <1>8, <1>9
<1>11. Len(u) = m + n
  BY <1>3 DEF m, n
<1>12. characters(u) = h[m + n]
  BY <1>6, <1>11
<1> QED BY <1>1, <1>2, <1>10, <1>12 DEF u, m, n

\* The empty text.
LEMMA NoCharacters == characters(<<>>) = <<>>
<1> DEFINE f == CHOOSE g : Spells(<<>>, 0, g)
<1>1. Len(<<>>) = 0
  OBVIOUS
<1>2. Spells(<<>>, 0, f)
  BY SpellEnds, Zenon
<1>3. characters(<<>>) = f[0]
  BY <1>1 DEF characters, Spells
<1> HIDE DEF f
<1>4. f[0] = <<>>
  BY <1>2 DEF Spells
<1> QED BY <1>3, <1>4

\* A text that is one character.
LEMMA OneCharacter ==
  ASSUME NEW k, NEW s \in Texts(k), s \in Characters
  PROVE  characters(s) = <<s>>
<1>1. PICK f : Spelling(s, f) /\ characters(s) = f[Len(s)]
  BY Spelled
<1>2. f[0] = <<>> /\ \A b : Append(<<>>, b) = <<b>>
  BY <1>1 DEF Spelling
<1>3. CASE s \in {Letter, Space, LineFeed}
  <2>1. Len(s) = 1 /\ s[1] \in OneByte /\ Named(s[1]) = s
    BY <1>3 DEF Letter, Space, LineFeed, Named, OneByte
  <2>2. f[1] = IF s[1] \in Continuation THEN f[1 - 1] ELSE Append(f[1 - 1], Named(s[1]))
    BY <1>1, <2>1 DEF Spelling
  <2>3. f[1] = Append(<<>>, s)
    <3>1. s[1] \notin Continuation /\ 1 - 1 = 0
      BY <2>1 DEF Continuation, OneByte
    <3>2. f[1] = Append(f[0], Named(s[1]))
      BY <2>2, <3>1
    <3> QED BY <1>2, <2>1, <3>2
  <2> QED BY <1>1, <1>2, <2>1, <2>3
<1>4. CASE s = Wide \/ s = Mark
  <2>1. Len(s) = 2 /\ s[1] \in {"e1", "m1"} /\ Named(s[1]) = s /\ s[2] \in Continuation
    BY <1>4 DEF Wide, Mark, Named, Continuation
  <2>2. f[1] = IF s[1] \in Continuation THEN f[1 - 1] ELSE Append(f[1 - 1], Named(s[1]))
    BY <1>1, <2>1 DEF Spelling
  <2>3. f[2] = IF s[2] \in Continuation THEN f[2 - 1] ELSE Append(f[2 - 1], Named(s[2]))
    BY <1>1, <2>1 DEF Spelling
  <2>4. f[1] = Append(<<>>, s)
    <3>1. s[1] \notin Continuation /\ 1 - 1 = 0
      BY <2>1 DEF Continuation
    <3>2. f[1] = Append(f[0], Named(s[1]))
      BY <2>2, <3>1
    <3> QED BY <1>2, <2>1, <3>2
  <2>5. f[2] = f[1]
    BY <2>1, <2>3
  <2> QED BY <1>1, <1>2, <2>1, <2>4, <2>5
<1> QED BY <1>3, <1>4 DEF Characters

\* A text at a position between two characters: what is before it, and what
\* is behind it.
LEMMA Split ==
  ASSUME NEW k, NEW s \in Texts(k), NEW p, Boundary(s, p)
  PROVE  LET a == SubSeq(s, 1, p)
             b == SubSeq(s, p + 1, Len(s))
         IN /\ a \in Texts(k) /\ Len(a) = p
            /\ b \in Texts(k) /\ Len(b) = Len(s) - p
            /\ s = a \o b
            /\ characters(s) = characters(a) \o characters(b)
            /\ \A i \in 1 .. Len(s) - p : b[i] = s[p + i]
<1> DEFINE a == SubSeq(s, 1, p)
           b == SubSeq(s, p + 1, Len(s))
<1>1. a \in Texts(k) /\ Len(a) = p
  BY FrontOfText
<1>2. b \in Texts(k) /\ Len(b) = Len(s) - p /\ \A i \in 1 .. Len(s) - p : b[i] = s[p + i]
  BY RestOfText
<1>3. s = a \o b
  <2>1. s \in Seq(Byte)
    BY TextFacts
  <2>2. p \in Nat /\ p <= Len(s)
    <3>1. p \in 0 .. Len(s) /\ Len(s) \in Nat
      BY TextFacts DEF Boundary
    <3> QED BY <3>1
  <2> QED BY <2>1, <2>2, Adjacent
<1> HIDE DEF a, b
<1>4. characters(a \o b) = characters(a) \o characters(b)
  BY <1>1, <1>2, JoinedCharacters
<1> QED BY <1>1, <1>2, <1>3, <1>4 DEF a, b

\* The first character of a text, and the others.
LEMMA FirstCharacter ==
  ASSUME NEW k, NEW s \in Texts(k), Len(s) > 0
  PROVE  LET n == unicodeUTF8CharLen(s, 0)
             b == SubSeq(s, n + 1, Len(s))
         IN /\ n \in 1 .. Len(s) /\ Boundary(s, n)
            /\ Named(s[1]) \in Characters
            /\ SubSeq(s, 1, n) = Named(s[1])
            /\ b \in Texts(k) /\ Len(b) = Len(s) - n /\ s = Named(s[1]) \o b
            /\ characters(s) = <<Named(s[1])>> \o characters(b)
<1> DEFINE n == unicodeUTF8CharLen(s, 0)
           c == Named(s[1])
           b == SubSeq(s, n + 1, Len(s))
<1>1. Boundary(s, 0) /\ 0 < Len(s) /\ Len(s) \in Nat
  BY EndsOfText, TextFacts
<1>2. SubSeq(s, 0 + 1, 0 + n) = Named(s[0 + 1]) /\ s[0 + 1] \in Byte \ Continuation /\ n \in 1 .. Len(s) - 0
  BY <1>1, CharacterAt
<1>3. Boundary(s, 0 + n)
  BY <1>1, NextChar
<1>4. n \in 1 .. Len(s) /\ 0 + n = n /\ 0 + 1 = 1
  BY <1>1, <1>2
<1>5. SubSeq(s, 1, n) = c /\ c \in Characters /\ Boundary(s, n)
  BY <1>2, <1>3, <1>4, NamedIsCharacter
<1>6. /\ c \in Texts(k) /\ b \in Texts(k) /\ Len(b) = Len(s) - n /\ s = c \o b
      /\ characters(s) = characters(c) \o characters(b)
  <2>1. SubSeq(s, 1, n) = c
    BY <1>5
  <2> HIDE DEF c, n
  <2>2. /\ SubSeq(s, 1, n) \in Texts(k) /\ b \in Texts(k) /\ Len(b) = Len(s) - n
        /\ s = SubSeq(s, 1, n) \o b
        /\ characters(s) = characters(SubSeq(s, 1, n)) \o characters(b)
    BY <1>5, Split
  <2> QED BY <2>1, <2>2, Zenon
<1>7. characters(c) = <<c>>
  BY <1>5, <1>6, OneCharacter
<1> QED BY <1>4, <1>5, <1>6, <1>7

\* Sequences that are equal start equally.
LEMMA FirstOfTwo ==
  ASSUME NEW x \in Characters, NEW y \in Characters,
         NEW u \in Seq(Characters), NEW v \in Seq(Characters),
         <<x>> \o u = <<y>> \o v
  PROVE  x = y /\ u = v
<1>1. <<x>> \in Seq(Characters) /\ <<y>> \in Seq(Characters) /\ Len(<<x>>) = 1 /\ Len(<<y>>) = 1
  OBVIOUS
<1>2. SubSeq(<<x>> \o u, 1, 1) = <<x>> /\ SubSeq(<<x>> \o u, 1 + 1, 1 + Len(u)) = u
  BY <1>1, Pieces
<1>3. SubSeq(<<y>> \o v, 1, 1) = <<y>> /\ SubSeq(<<y>> \o v, 1 + 1, 1 + Len(v)) = v
  BY <1>1, Pieces
<1>4. Len(u) = Len(v)
  <2>1. Len(<<x>> \o u) = 1 + Len(u) /\ Len(<<y>> \o v) = 1 + Len(v) /\ Len(u) \in Nat /\ Len(v) \in Nat
    BY <1>1
  <2> QED BY <2>1
<1>5. <<x>> = <<y>> /\ u = v
  BY <1>2, <1>3, <1>4
<1> QED BY <1>5

\* Different texts have different characters.
LEMMA SameCharacters ==
  ASSUME NEW k, NEW s \in Texts(k), NEW t \in Texts(k), characters(s) = characters(t)
  PROVE  s = t
<1> DEFINE Lengths_ == {n \in Nat : \E a, b \in Texts(k) :
                          Len(a) = n /\ characters(a) = characters(b) /\ a # b}
<1> SUFFICES ASSUME s # t PROVE FALSE
  OBVIOUS
<1>1. Lengths_ # {} /\ Lengths_ \in SUBSET Nat
  <2>1. Len(s) \in Lengths_
    BY TextFacts
  <2> QED BY <2>1
<1>2. PICK n \in Lengths_ : \A m \in Lengths_ : n <= m
  <2> HIDE DEF Lengths_
  <2> QED BY <1>1, LeastElement
<1>3. PICK a \in Texts(k), b \in Texts(k) : Len(a) = n /\ characters(a) = characters(b) /\ a # b
  BY <1>2
<1>4. /\ \A u \in Texts(k) : u \in Seq(Byte) /\ Len(u) \in Nat /\ characters(u) \in Seq(Characters)
      /\ \A u \in Texts(k) : Len(u) > 0 => Len(characters(u)) >= 1
  <2>1. \A u \in Texts(k) : u \in Seq(Byte) /\ Len(u) \in Nat /\ characters(u) \in Seq(Characters)
    BY TextFacts, CharactersType
  <2>2. ASSUME NEW u \in Texts(k), Len(u) > 0 PROVE Len(characters(u)) >= 1
    <3> DEFINE d == SubSeq(u, unicodeUTF8CharLen(u, 0) + 1, Len(u))
    <3>1. d \in Texts(k) /\ characters(u) = <<Named(u[1])>> \o characters(d) /\ Named(u[1]) \in Characters
      BY <2>2, FirstCharacter
    <3> HIDE DEF d
    <3>2. characters(d) \in Seq(Characters)
      BY <2>1, <3>1
    <3> QED BY <3>1, <3>2
  <2> QED BY <2>1, <2>2
<1>5. Len(a) > 0 /\ Len(b) > 0
  <2>1. \A u \in Texts(k) : Len(u) = 0 => u = <<>>
    BY <1>4
  <2>2. \A u \in Texts(k) : Len(u) = 0 => Len(characters(u)) = 0
    BY <2>1, NoCharacters
  <2> QED BY <1>3, <1>4, <2>1, <2>2
<1> DEFINE a1 == Named(a[1])
           b1 == Named(b[1])
           a2 == SubSeq(a, unicodeUTF8CharLen(a, 0) + 1, Len(a))
           b2 == SubSeq(b, unicodeUTF8CharLen(b, 0) + 1, Len(b))
<1>6. a2 \in Texts(k) /\ a = a1 \o a2 /\ characters(a) = <<a1>> \o characters(a2) /\ a1 \in Characters
      /\ Len(a2) < Len(a)
  <2>1. unicodeUTF8CharLen(a, 0) \in 1 .. Len(a) /\ Len(a2) = Len(a) - unicodeUTF8CharLen(a, 0)
    BY <1>5, FirstCharacter
  <2>2. Len(a2) < Len(a)
    BY <1>4, <2>1
  <2> QED BY <1>5, <2>2, FirstCharacter
<1>7. b2 \in Texts(k) /\ b = b1 \o b2 /\ characters(b) = <<b1>> \o characters(b2) /\ b1 \in Characters
  BY <1>5, FirstCharacter
<1> HIDE DEF a1, a2, b1, b2
<1>8. a1 = b1 /\ characters(a2) = characters(b2)
  <2> DEFINE u == characters(a2)
             v == characters(b2)
  <2>1. u \in Seq(Characters) /\ v \in Seq(Characters)
    BY <1>4, <1>6, <1>7
  <2>2. <<a1>> \o u = <<b1>> \o v
    BY <1>3, <1>6, <1>7
  <2> HIDE DEF u, v
  <2>3. a1 = b1 /\ u = v
    <3>1. a1 \in Characters /\ b1 \in Characters
      BY <1>6, <1>7
    <3> HIDE DEF Lengths_
    <3> QED BY <2>1, <2>2, <3>1, FirstOfTwo
  <2> QED BY <2>3 DEF u, v
<1>9. a2 # b2
  BY <1>3, <1>6, <1>7, <1>8
<1>10. Len(a2) \in Lengths_
  BY <1>4, <1>6, <1>7, <1>8, <1>9
<1>11. n \in Nat /\ Len(a2) \in Nat
  BY <1>3, <1>4, <1>6
<1> HIDE DEF Lengths_
<1> QED BY <1>2, <1>3, <1>6, <1>10, <1>11

\* The place of a position among the characters.
Cursor(s, p) == Len(characters(SubSeq(s, 1, p)))

\* The characters before and behind a position.
LEMMA CursorFacts ==
  ASSUME NEW k, NEW s \in Texts(k), NEW p, Boundary(s, p)
  PROVE  LET c == Cursor(s, p)
             cs == characters(s)
         IN /\ c \in 0 .. Len(cs)
            /\ characters(SubSeq(s, 1, p)) = SubSeq(cs, 1, c)
            /\ characters(SubSeq(s, p + 1, Len(s))) = SubSeq(cs, c + 1, Len(cs))
<1> DEFINE a == characters(SubSeq(s, 1, p))
           b == characters(SubSeq(s, p + 1, Len(s)))
<1>1. a \in Seq(Characters) /\ b \in Seq(Characters) /\ characters(s) = a \o b
  <2>1. SubSeq(s, 1, p) \in Texts(k) /\ SubSeq(s, p + 1, Len(s)) \in Texts(k) /\ characters(s) = a \o b
    BY Split
  <2> QED BY <2>1, CharactersType
<1>2. Cursor(s, p) = Len(a)
  BY DEF Cursor
<1> HIDE DEF a, b
<1>3. SubSeq(a \o b, 1, Len(a)) = a /\ SubSeq(a \o b, Len(a) + 1, Len(a) + Len(b)) = b
  BY <1>1, Pieces
<1>4. Len(a \o b) = Len(a) + Len(b) /\ Len(a) \in 0 .. Len(a \o b)
  BY <1>1
<1> QED BY <1>1, <1>2, <1>3, <1>4 DEF a, b

\* A part of a part.
LEMMA FrontOfFront ==
  ASSUME NEW k, NEW s \in Texts(k), NEW p, Boundary(s, p), NEW q, Boundary(s, q), p <= q
  PROVE  SubSeq(SubSeq(s, 1, q), 1, p) = SubSeq(s, 1, p) /\ Boundary(SubSeq(s, 1, q), p)
<1> DEFINE f == SubSeq(s, 1, q)
           g == SubSeq(f, 1, p)
           a == SubSeq(s, 1, p)
<1>1. s \in Seq(Byte) /\ Len(s) \in Nat
  BY TextFacts
<1>2. p \in 0 .. Len(s) /\ q \in 0 .. Len(s) /\ p \in 0 .. q
  <2>1. p \in 0 .. Len(s) /\ q \in 0 .. Len(s)
    BY DEF Boundary
  <2> QED BY <1>1, <2>1
<1>3. f \in Seq(Byte) /\ Len(f) = q /\ \A i \in 1 .. q : f[i] = s[i]
  BY <1>1, <1>2
<1>4. a \in Seq(Byte) /\ Len(a) = p /\ \A i \in 1 .. p : a[i] = s[i]
  BY <1>1, <1>2
<1> HIDE DEF f, a
<1>5. g \in Seq(Byte) /\ Len(g) = p /\ \A i \in 1 .. p : g[i] = f[i]
  BY <1>1, <1>2, <1>3
<1>6. \A i \in 1 .. p : i \in 1 .. q
  BY <1>1, <1>2
<1> HIDE DEF g
<1>7. g = a
  BY <1>3, <1>4, <1>5, <1>6
<1>8. Boundary(f, p)
  <2>1. p < q => p + 1 \in 1 .. q /\ p < Len(s)
    BY <1>1, <1>2
  <2>2. p < q => f[p + 1] = s[p + 1] /\ s[p + 1] \notin Continuation
    BY <1>3, <2>1 DEF Boundary
  <2> QED BY <1>2, <1>3, <2>2 DEF Boundary
<1> QED BY <1>7, <1>8 DEF f, g, a

\* The character behind a position.
LEMMA CharacterBehind ==
  ASSUME NEW k, NEW s \in Texts(k), NEW p, Boundary(s, p), p < Len(s)
  PROVE  LET c == Cursor(s, p)
             q == p + unicodeUTF8CharLen(s, p)
         IN /\ c < Len(characters(s))
            /\ characters(s)[c + 1] = Named(s[p + 1])
            /\ Boundary(s, q) /\ q > p /\ Cursor(s, q) = c + 1
<1> DEFINE n == unicodeUTF8CharLen(s, p)
           q == p + n
           c == Cursor(s, p)
           a == SubSeq(s, 1, p)
           b == SubSeq(s, p + 1, Len(s))
           x == Named(s[p + 1])
<1>1. /\ a \in Texts(k) /\ Len(a) = p /\ b \in Texts(k) /\ Len(b) = Len(s) - p /\ s = a \o b
      /\ characters(s) = characters(a) \o characters(b) /\ b[1] = s[p + 1]
  <2>1. Len(s) \in Nat /\ p \in 0 .. Len(s)
    BY TextFacts DEF Boundary
  <2>2. 1 \in 1 .. Len(s) - p
    BY <2>1
  <2>3. /\ a \in Texts(k) /\ Len(a) = p /\ b \in Texts(k) /\ Len(b) = Len(s) - p /\ s = a \o b
        /\ characters(s) = characters(a) \o characters(b)
    <3>1. a \in Texts(k) /\ Len(a) = p
      BY FrontOfText
    <3>2. b \in Texts(k) /\ Len(b) = Len(s) - p
      BY RestOfText
    <3>3. s = a \o b
      BY Split
    <3>4. characters(s) = characters(a) \o characters(b)
      BY Split
    <3> QED BY <3>1, <3>2, <3>3, <3>4
  <2>4. b[1] = s[p + 1]
    <3>1. \A i \in 1 .. Len(s) - p : b[i] = s[p + i]
      BY RestOfText
    <3> HIDE DEF b
    <3> QED BY <2>2, <3>1
  <2> QED BY <2>3, <2>4
<1>2. /\ Len(s) \in Nat /\ p \in Nat /\ n \in 1 .. Len(s) - p /\ x \in Characters
      /\ SubSeq(s, p + 1, q) = x
  <2>1. Len(s) \in Nat /\ p \in 0 .. Len(s)
    BY TextFacts DEF Boundary
  <2>2. SubSeq(s, p + 1, q) = x /\ s[p + 1] \in Byte \ Continuation /\ n \in 1 .. Len(s) - p
    BY CharacterAt
  <2>3. x \in Characters
    BY <2>2, NamedIsCharacter
  <2> QED BY <2>1, <2>2, <2>3
<1>3. Boundary(s, q) /\ q > p
  <2>1. Boundary(s, q)
    BY NextChar
  <2>2. q > p
    BY <1>2
  <2> QED BY <2>1, <2>2
<1>4. c = Len(characters(a)) /\ characters(a) \in Seq(Characters) /\ characters(b) \in Seq(Characters)
  BY <1>1, CharactersType DEF Cursor
<1>5. \E r \in Seq(Characters) : characters(b) = <<x>> \o r
  <2>1. Len(b) > 0
    BY <1>1, <1>2
  <2> DEFINE d == SubSeq(b, unicodeUTF8CharLen(b, 0) + 1, Len(b))
  <2>2. d \in Texts(k) /\ characters(b) = <<Named(b[1])>> \o characters(d)
    <3> HIDE DEF b
    <3> QED BY <1>1, <2>1, FirstCharacter
  <2> HIDE DEF d
  <2>3. characters(d) \in Seq(Characters)
    BY <2>2, CharactersType
  <2> QED BY <1>1, <2>2, <2>3
<1>6. c < Len(characters(s)) /\ characters(s)[c + 1] = x
  <2> DEFINE ca == characters(a)
             cs == characters(s)
  <2>1. PICK r \in Seq(Characters) : characters(b) = <<x>> \o r
    BY <1>5
  <2>2. cs = ca \o (<<x>> \o r) /\ ca \in Seq(Characters) /\ c = Len(ca)
    BY <1>1, <1>4, <2>1
  <2> HIDE DEF x, c, ca, cs
  <2> DEFINE xr == <<x>> \o r
  <2>3. xr \in Seq(Characters) /\ Len(xr) >= 1 /\ xr[1] = x
    BY <1>2, <2>1
  <2> HIDE DEF xr
  <2>4. Len(ca) < Len(ca \o xr) /\ (ca \o xr)[Len(ca) + 1] = x
    BY <2>2, <2>3
  <2>5. cs = ca \o xr
    BY <2>2 DEF xr
  <2> QED BY <2>2, <2>4, <2>5 DEF cs
<1>7. Cursor(s, q) = c + 1
  <2> DEFINE f == SubSeq(s, 1, q)
  <2>1. f \in Texts(k) /\ Len(f) = q
    BY <1>3, FrontOfText
  <2>2. s \in Seq(Byte)
    BY TextFacts
  <2>3. SubSeq(f, 1, p) = a /\ SubSeq(f, p + 1, Len(f)) = x
    <3>1. q \in Nat /\ p <= q /\ q <= Len(s)
      BY <1>2
    <3>2. SubSeq(f, 1, p) = a
      <4> HIDE DEF q
      <4> QED BY <1>3, <3>1, FrontOfFront DEF q
    <3> HIDE DEF q
    <3>3. SubSeq(f, p + 1, Len(f)) = SubSeq(s, p + 1, q)
      <4>1. f \in Seq(Byte) /\ \A i \in 1 .. q : f[i] = s[i]
        BY <2>2, <3>1
      <4>2. Len(f) = q
        BY <2>1
      <4> HIDE DEF f
      <4> DEFINE g == SubSeq(f, p + 1, q)
                 h == SubSeq(s, p + 1, q)
      <4>3. g \in Seq(Byte) /\ Len(g) = q - p /\ \A i \in 1 .. q - p : g[i] = f[p + i]
        BY <1>2, <2>1, <3>1, <4>1, Piece
      <4>4. h \in Seq(Byte) /\ Len(h) = q - p /\ \A i \in 1 .. q - p : h[i] = s[p + i]
        BY <1>2, <2>2, <3>1, Piece
      <4>5. \A i \in 1 .. q - p : p + i \in 1 .. q
        BY <1>2, <3>1
      <4> HIDE DEF g, h
      <4>6. g = h
        BY <4>1, <4>3, <4>4, <4>5
      <4> QED BY <4>2, <4>6 DEF g, h
    <3> QED BY <1>2, <3>2, <3>3 DEF q
  <2>4. Boundary(f, p)
    <3>1. p <= q
      BY <1>2
    <3> HIDE DEF q
    <3> QED BY <1>3, <3>1, FrontOfFront
  <2> HIDE DEF f
  <2>5. characters(f) = characters(a) \o characters(x) /\ x \in Texts(k)
    <3> DEFINE f1 == SubSeq(f, 1, p)
               f2 == SubSeq(f, p + 1, Len(f))
    <3>1. characters(f) = characters(f1) \o characters(f2) /\ f2 \in Texts(k)
      BY <2>1, <2>4, Split
    <3>2. f1 = a /\ f2 = x
      BY <2>3
    <3> HIDE DEF f1, f2, a, x
    <3> QED BY <3>1, <3>2
  <2>6. characters(x) = <<x>>
    BY <1>2, <2>5, OneCharacter
  <2>7. Cursor(s, q) = Len(characters(f))
    BY DEF Cursor, f
  <2> HIDE DEF x, a
  <2>8. Len(characters(a) \o <<x>>) = Len(characters(a)) + 1
    BY <1>2, <1>4
  <2> QED BY <1>4, <2>5, <2>6, <2>7, <2>8
<1> QED BY <1>3, <1>6, <1>7

\* The ends of a text.
LEMMA CursorEnds ==
  ASSUME NEW k, NEW s \in Texts(k)
  PROVE  Cursor(s, 0) = 0 /\ Cursor(s, Len(s)) = Len(characters(s))
<1>1. s \in Seq(Byte)
  BY TextFacts
<1>2. SubSeq(s, 1, 0) = <<>>
  BY <1>1
<1>3. SubSeq(s, 1, Len(s)) = s
  <2> DEFINE u == SubSeq(s, 1, Len(s))
  <2>1. u \in Seq(Byte) /\ Len(u) = Len(s) /\ \A i \in 1 .. Len(s) : u[i] = s[i]
    BY <1>1
  <2> HIDE DEF u
  <2>2. u = s
    BY <1>1, <2>1
  <2> QED BY <2>2 DEF u
<1>4. Len(<<>>) = 0
  OBVIOUS
<1> QED BY <1>2, <1>3, <1>4, NoCharacters DEF Cursor

\* Positions and places are in the same order.
LEMMA CursorGrows ==
  ASSUME NEW k, NEW s \in Texts(k), NEW p, Boundary(s, p), NEW q, Boundary(s, q), p < q
  PROVE  Cursor(s, p) < Cursor(s, q)
<1> DEFINE f == SubSeq(s, 1, q)
<1>1. f \in Texts(k) /\ Len(f) = q
  BY FrontOfText
<1>2. SubSeq(f, 1, p) = SubSeq(s, 1, p) /\ Boundary(f, p)
  <2>1. p <= q
    <3>1. p \in 0 .. Len(s) /\ q \in 0 .. Len(s) /\ Len(s) \in Nat
      BY TextFacts DEF Boundary
    <3> QED BY <3>1
  <2> QED BY <2>1, FrontOfFront
<1> HIDE DEF f
<1>3. Cursor(f, p) < Len(characters(f))
  BY <1>1, <1>2, CharacterBehind
<1>4. Cursor(f, p) = Cursor(s, p)
  BY <1>2 DEF Cursor
<1>5. Cursor(s, q) = Len(characters(f))
  BY DEF Cursor, f
<1> QED BY <1>3, <1>4, <1>5

\* Every place among the characters is that of a position.
LEMMA CursorReaches ==
  ASSUME NEW k, NEW s \in Texts(k), NEW n \in 0 .. Len(characters(s))
  PROVE  \E p : Boundary(s, p) /\ Cursor(s, p) = n
<1> DEFINE N == Len(characters(s))
           R == {i \in 0 .. N : \E p : Boundary(s, p) /\ Cursor(s, p) = i}
<1>1. N \in Nat
  BY CharactersType
<1>2. 0 \in R
  BY <1>1, EndsOfText, CursorEnds
<1>3. ASSUME NEW i \in 1 .. N, i - 1 \in R PROVE i \in R
  <2>1. PICK p : Boundary(s, p) /\ Cursor(s, p) = i - 1
    BY <1>3
  <2>2. p # Len(s)
    BY <1>1, <2>1, CursorEnds
  <2>3. p < Len(s)
    <3>1. p \in 0 .. Len(s) /\ Len(s) \in Nat
      BY <2>1, TextFacts DEF Boundary
    <3> QED BY <2>2, <3>1
  <2> DEFINE q == p + unicodeUTF8CharLen(s, p)
  <2>4. Boundary(s, q) /\ Cursor(s, q) = (i - 1) + 1
    BY <2>1, <2>3, CharacterBehind
  <2> HIDE DEF q
  <2>5. (i - 1) + 1 = i /\ i \in 0 .. N
    BY <1>1
  <2> HIDE DEF N
  <2> QED BY <2>4, <2>5
<1> HIDE DEF R
<1>4. n \in R
  <2> HIDE DEF N
  <2>1. \A i \in 0 .. N : i \in R
    BY <1>1, <1>2, <1>3, UpTo
  <2> QED BY <2>1 DEF N
<1> QED BY <1>4 DEF R

LEMMA BoundaryType ==
  ASSUME NEW k, NEW s \in Texts(k), NEW p, Boundary(s, p)
  PROVE  /\ p \in Nat /\ Len(s) \in Nat /\ p <= Len(s) /\ p \in 0 .. Len(s)
         /\ Cursor(s, p) \in Nat /\ Len(characters(s)) \in Nat /\ Cursor(s, p) <= Len(characters(s))
<1>1. p \in 0 .. Len(s) /\ Len(s) \in Nat
  BY TextFacts DEF Boundary
<1>2. Cursor(s, p) \in 0 .. Len(characters(s)) /\ Len(characters(s)) \in Nat
  BY CursorFacts, CharactersType
<1> QED BY <1>1, <1>2

\* The order of positions is that of their places.
LEMMA SameOrder ==
  ASSUME NEW k, NEW s \in Texts(k), NEW p, Boundary(s, p), NEW q, Boundary(s, q)
  PROVE  p < q <=> Cursor(s, p) < Cursor(s, q)
<1>1. p \in Nat /\ q \in Nat /\ Cursor(s, p) \in Nat /\ Cursor(s, q) \in Nat
  BY BoundaryType
<1>2. p < q \/ p = q \/ q < p
  BY <1>1
<1>3. p < q => Cursor(s, p) < Cursor(s, q)
  BY CursorGrows
<1>4. q < p => Cursor(s, q) < Cursor(s, p)
  BY CursorGrows
<1> QED BY <1>1, <1>2, <1>3, <1>4

\* Where a character has its bytes.
LEMMA PlaceOf ==
  ASSUME NEW k, NEW s \in Texts(k), NEW i \in 1 .. Len(characters(s))
  PROVE  \E q : /\ Boundary(s, q) /\ q < Len(s) /\ Cursor(s, q) = i - 1
                /\ characters(s)[i] = Mark <=> s[q + 1] = "m1"
                /\ characters(s)[i] = Space <=> s[q + 1] = "space"
<1>1. Len(characters(s)) \in Nat
  BY CharactersType
<1>2. i - 1 \in 0 .. Len(characters(s)) /\ i - 1 < Len(characters(s)) /\ (i - 1) + 1 = i
  BY <1>1
<1>3. PICK q : Boundary(s, q) /\ Cursor(s, q) = i - 1
  BY <1>2, CursorReaches
<1>4. q < Len(s)
  <2>1. q \in Nat /\ Len(s) \in Nat /\ q <= Len(s)
    BY <1>3, BoundaryType
  <2>2. q # Len(s)
    BY <1>1, <1>2, <1>3, CursorEnds
  <2> QED BY <2>1, <2>2
<1>5. characters(s)[i] = Named(s[q + 1])
  BY <1>2, <1>3, <1>4, CharacterBehind
<1>6. s[q + 1] \in Byte \ Continuation
  BY <1>3, <1>4, CharacterAt
<1> QED BY <1>3, <1>4, <1>5, <1>6, NamedIsCharacter

(***************************************************************************)
(* A step back.                                                            *)
(***************************************************************************)

\* No character ends between a character's start and its end.
LEMMA CharStartNext ==
  ASSUME NEW k, NEW s \in Texts(k), NEW q, Boundary(s, q), q # 0
  PROVE  LET y == CharStart(s, q)
         IN /\ y \in 0 .. q - 1 /\ Boundary(s, y)
            /\ \A r : Boundary(s, r) => r <= y \/ r >= q
            /\ OverMark(s, q) <=> s[y + 1] = "m1"
<1> DEFINE y == CharStart(s, q)
           Starts == {r \in 0 .. q - 1 : s[r + 1] \notin Continuation} \cup {-1}
<1>1. y \in 0 .. q - 1 /\ Boundary(s, y)
  BY CharStartIsBoundary
<1>2. q \in Nat /\ Len(s) \in Nat /\ q <= Len(s) /\ q \in 1 .. Len(s)
  <2>1. q \in Nat /\ Len(s) \in Nat /\ q <= Len(s)
    BY BoundaryType
  <2> QED BY <2>1
<1>3. y = Max(Starts)
  <2>1. unicodePrevUTF8CharLen(s, q) = q - Max(Starts)
    BY DEF unicodePrevUTF8CharLen
  <2>2. Starts \in SUBSET (-1 .. q) /\ Starts # {}
    BY <1>2
  <2> HIDE DEF Starts
  <2>3. Max(Starts) \in -1 .. q
    BY <1>2, <2>2, MaxIs
  <2>4. q - (q - Max(Starts)) = Max(Starts)
    BY <1>2, <2>3
  <2> QED BY <2>1, <2>4 DEF CharStart
<1>4. \A r : Boundary(s, r) => r <= y \/ r >= q
  <2> SUFFICES ASSUME NEW r, Boundary(s, r), r < q PROVE r <= y
    <3>1. \A r : Boundary(s, r) => r \in Nat
      BY DEF Boundary
    <3> QED BY <1>2, <3>1
  <2>1. r \in Nat
    BY DEF Boundary
  <2>2. r \in 0 .. q - 1 /\ r < Len(s)
    BY <1>2, <2>1
  <2>3. r \in Starts
    BY <2>2 DEF Boundary
  <2>4. Starts \in SUBSET (-1 .. q) /\ Starts # {}
    BY <1>2
  <2> HIDE DEF Starts
  <2>5. r <= Max(Starts)
    BY <1>2, <2>3, <2>4, MaxIs
  <2> QED BY <1>3, <2>5
<1>5. OverMark(s, q) => s[y + 1] = "m1"
  BY DEF OverMark
<1>6. s[y + 1] = "m1" => OverMark(s, q)
  <2> SUFFICES ASSUME s[y + 1] = "m1" PROVE OverMark(s, q)
    OBVIOUS
  <2> HIDE DEF y, Starts
  <2>1. y \in Nat /\ y < q /\ y < Len(s)
    BY <1>1, <1>2
  <2>2. unicodeUTF8CharLen(s, y) = 2
    BY <1>2, <2>1 DEF unicodeUTF8CharLen, Lead
  <2>3. Boundary(s, y + 2)
    BY <1>1, <2>2, NextChar
  <2>4. q <= y + 2
    <3>1. y + 2 <= y \/ y + 2 >= q
      BY <1>4, <2>3
    <3> QED BY <1>2, <2>1, <3>1
  <2>5. q # y + 1
    <3>1. y + 1 \in DOMAIN s /\ Whole(s)
      <4>1. y + 1 \in 1 .. Len(s)
        BY <1>2, <2>1
      <4> QED BY <4>1, TextFacts
    <3>2. y + 1 < Len(s) /\ s[(y + 1) + 1] \in Continuation
      BY <3>1 DEF Whole, Lead, Continuation
    <3>3. ~ Boundary(s, y + 1)
      BY <3>2 DEF Boundary
    <3> QED BY <3>3
  <2>6. q = y + 2
    BY <1>2, <2>1, <2>4, <2>5
  <2>7. unicodePrevUTF8CharLen(s, q) = 2
    <3>1. q - CharStart(s, q) = 2
      BY <2>1, <2>6 DEF y
    <3>2. Max({r \in 0 .. q - 1 : s[r + 1] \notin Continuation} \cup {-1}) = y
      BY <1>3 DEF Starts
    <3>3. unicodePrevUTF8CharLen(s, q) = q - y
      BY <3>2 DEF unicodePrevUTF8CharLen
    <3> QED BY <2>1, <2>6, <3>3
  <2> QED BY <1>1, <2>7 DEF OverMark, y
<1> QED BY <1>1, <1>4, <1>5, <1>6

\* A step back leads to the last character before p that is no mark, or
\* nowhere if there is none.
LEMMA StepBack ==
  ASSUME NEW k, NEW s \in Texts(k), NEW p, Boundary(s, p)
  PROVE  LET r == p - unicodePrevGraphemeLen(s, p)
         IN \/ /\ r = p
               /\ \A q : Boundary(s, q) /\ q < p => s[q + 1] = "m1"
            \/ /\ Boundary(s, r) /\ r < p /\ s[r + 1] # "m1"
               /\ \A q : Boundary(s, q) /\ r < q /\ q < p => s[q + 1] = "m1"
<1> DEFINE back == CHOOSE f : Backs(s, p, p, f)
<1>1. Len(s) \in Nat /\ p \in 0 .. Len(s) /\ p \in Nat
  BY BoundaryType
<1>2. Backs(s, p, p, back)
  BY <1>1, BackEnds, Zenon
<1>3. unicodePrevGraphemeLen(s, p) = p - back[p]
  BY DEF unicodePrevGraphemeLen, Backs, OverMark, CharStart
<1> HIDE DEF back
<1> DEFINE Right(x) ==
             \/ /\ back[x] = p
                /\ \A q : Boundary(s, q) /\ q < x => s[q + 1] = "m1"
             \/ /\ Boundary(s, back[x]) /\ back[x] < x /\ s[back[x] + 1] # "m1"
                /\ \A q : Boundary(s, q) /\ back[x] < q /\ q < x => s[q + 1] = "m1"
           Wrong == {x \in 0 .. p : Boundary(s, x) /\ ~ Right(x)}
<1>4. \A q : Boundary(s, q) => q \in Nat
  BY DEF Boundary
<1>5. Wrong = {}
  <2> SUFFICES ASSUME Wrong # {} PROVE FALSE
    OBVIOUS
  <2>1. PICK x \in Wrong : \A z \in Wrong : x <= z
    <3>1. Wrong \in SUBSET Nat
      BY <1>1
    <3> HIDE DEF Wrong
    <3> QED BY <3>1, LeastElement
  <2>2. x \in 0 .. p /\ Boundary(s, x) /\ ~ Right(x)
    BY <2>1
  <2>3. back[x] = IF x = 0 THEN p
                  ELSE IF OverMark(s, x) THEN back[CharStart(s, x)] ELSE CharStart(s, x)
    BY <1>2, <2>2 DEF Backs
  <2>4. x # 0
    BY <1>4, <2>2, <2>3
  <2> DEFINE y == CharStart(s, x)
  <2>5. /\ y \in 0 .. x - 1 /\ Boundary(s, y)
        /\ \A r : Boundary(s, r) => r <= y \/ r >= x
        /\ OverMark(s, x) <=> s[y + 1] = "m1"
    BY <2>2, <2>4, CharStartNext
  <2> HIDE DEF y, Right
  <2>6. back[x] = IF OverMark(s, x) THEN back[y] ELSE y
    BY <2>3, <2>4 DEF y
  <2>7. x \in Nat /\ y \in Nat /\ y < x
    BY <1>1, <2>2, <2>5
  <2>8. OverMark(s, x)
    <3> SUFFICES ASSUME ~ OverMark(s, x) PROVE Right(x)
      BY <2>2
    <3>1. back[x] = y /\ s[y + 1] # "m1"
      BY <2>5, <2>6
    <3>2. \A q : Boundary(s, q) /\ y < q /\ q < x => FALSE
      BY <1>4, <2>5, <2>7
    <3> QED BY <2>5, <2>7, <3>1, <3>2 DEF Right
  <2>9. back[x] = back[y] /\ s[y + 1] = "m1"
    BY <2>5, <2>6, <2>8
  <2>10. Right(y)
    <3>1. y \in 0 .. p /\ ~ (x <= y)
      BY <1>1, <2>2, <2>7
    <3>2. y \notin Wrong
      BY <2>1, <3>1
    <3> QED BY <2>5, <3>1, <3>2
  <2>11. \A q : Boundary(s, q) /\ q < x => q = y \/ q < y
    BY <1>4, <2>5, <2>7
  <2>12. Right(x)
    <3>1. CASE back[y] = p /\ \A q : Boundary(s, q) /\ q < y => s[q + 1] = "m1"
      BY <2>9, <2>11, <3>1 DEF Right
    <3>2. CASE /\ Boundary(s, back[y]) /\ back[y] < y /\ s[back[y] + 1] # "m1"
               /\ \A q : Boundary(s, q) /\ back[y] < q /\ q < y => s[q + 1] = "m1"
      <4>1. back[x] < x
        BY <1>4, <2>7, <2>9, <3>2
      <4>2. \A q : Boundary(s, q) /\ back[x] < q /\ q < x => s[q + 1] = "m1"
        BY <2>9, <2>11, <3>2
      <4> QED BY <2>9, <3>2, <4>1, <4>2 DEF Right
    <3> QED BY <2>10, <3>1, <3>2 DEF Right
  <2> QED BY <2>2, <2>12
<1>6. Right(p)
  <2>1. p \in 0 .. p
    BY <1>1
  <2> HIDE DEF Right
  <2> QED BY <1>5, <2>1
<1> DEFINE b == back[p]
<1>7. b \in Nat
  BY <1>1, <1>4, <1>6
<1>8. p - unicodePrevGraphemeLen(s, p) = b
  <2> HIDE DEF b
  <2>1. p - (p - b) = b
    BY <1>1, <1>7
  <2> QED BY <1>3, <2>1 DEF b
<1> QED BY <1>6, <1>8

(***************************************************************************)
(* A step forth.                                                           *)
(***************************************************************************)

\* A character's end is the next position between characters.
LEMMA CharEnd ==
  ASSUME NEW k, NEW s \in Texts(k), NEW p, Boundary(s, p), p < Len(s)
  PROVE  LET q == p + unicodeUTF8CharLen(s, p)
         IN /\ Boundary(s, q) /\ q > p /\ Cursor(s, q) = Cursor(s, p) + 1
            /\ \A r : Boundary(s, r) => r <= p \/ r >= q
<1> DEFINE q == p + unicodeUTF8CharLen(s, p)
<1>1. Boundary(s, q) /\ q > p /\ Cursor(s, q) = Cursor(s, p) + 1
  BY CharacterBehind
<1> HIDE DEF q
<1>2. ASSUME NEW r, Boundary(s, r), ~ (r <= p), ~ (r >= q) PROVE FALSE
  <2>1. p \in Nat /\ q \in Nat /\ r \in Nat
    BY <1>1, <1>2, BoundaryType
  <2>2. p < r /\ r < q
    BY <1>2, <2>1
  <2>3. Cursor(s, p) \in Nat /\ Cursor(s, r) \in Nat
    BY <1>2, BoundaryType
  <2>4. Cursor(s, p) < Cursor(s, r) /\ Cursor(s, r) < Cursor(s, q)
    BY <1>1, <1>2, <2>2, CursorGrows
  <2> QED BY <1>1, <2>3, <2>4
<1> QED BY <1>1, <1>2 DEF q

\* A step forth leads over a character and all marks on it.
LEMMA StepForth ==
  ASSUME NEW k, NEW s \in Texts(k), NEW p, Boundary(s, p), p < Len(s)
  PROVE  LET r == p + unicodeGraphemeLen(s, p)
         IN /\ Boundary(s, r) /\ p < r
            /\ r = Len(s) \/ s[r + 1] # "m1"
            /\ \A q : Boundary(s, q) /\ p < q /\ q < r => s[q + 1] = "m1"
<1> DEFINE z == Len(s) + 2
           N == z - p
           start == p + unicodeUTF8CharLen(s, p)
           marksEnd == CHOOSE f : Forths(s, N, f)
<1>1. Len(s) \in Nat /\ p \in 0 .. Len(s) /\ p \in Nat /\ N \in Nat
  BY BoundaryType
<1>2. Forths(s, N, marksEnd)
  BY <1>1, ForthEnds, Zenon
<1>3. z - N = p
  BY <1>1
<1>4. unicodeGraphemeLen(s, p) = marksEnd[start] - p
  BY <1>3 DEF unicodeGraphemeLen, Forths
<1> HIDE DEF marksEnd
<1>5. \A q \in p .. z : marksEnd[q] = IF q < Len(s) /\ s[q + 1] = "m1" THEN marksEnd[q + 2] ELSE q
  <2>1. marksEnd = [q \in p .. z |-> IF q < Len(s) /\ s[q + 1] = "m1" THEN marksEnd[q + 2] ELSE q]
    BY <1>2, <1>3 DEF Forths
  <2> QED BY <2>1
<1> DEFINE Right(q) ==
             LET e == marksEnd[q]
             IN /\ Boundary(s, e) /\ q <= e
                /\ e = Len(s) \/ s[e + 1] # "m1"
                /\ \A r : Boundary(s, r) /\ q <= r /\ r < e => s[r + 1] = "m1"
           T == {n \in 0 .. N : Boundary(s, z - n) /\ ~ Right(z - n)}
<1>6. \A q : Boundary(s, q) => q \in Nat /\ q <= Len(s)
  BY <1>1 DEF Boundary
<1>7. T = {}
  <2> SUFFICES ASSUME T # {} PROVE FALSE
    OBVIOUS
  <2>1. PICK n \in T : \A m \in T : n <= m
    <3>1. T \in SUBSET Nat
      BY <1>1
    <3> HIDE DEF T
    <3> QED BY <3>1, LeastElement
  <2> DEFINE q == z - n
  <2>2. n \in 0 .. N /\ Boundary(s, q) /\ ~ Right(q)
    BY <2>1
  <2>3. q \in p .. z
    BY <1>1, <2>2
  <2>4. marksEnd[q] = IF q < Len(s) /\ s[q + 1] = "m1" THEN marksEnd[q + 2] ELSE q
    BY <1>5, <2>3
  <2>5. q < Len(s) /\ s[q + 1] = "m1"
    <3> SUFFICES ASSUME ~ (q < Len(s) /\ s[q + 1] = "m1") PROVE Right(q)
      BY <2>2
    <3>1. marksEnd[q] = q
      BY <2>4
    <3>2. q \in Nat /\ q <= Len(s)
      BY <1>6, <2>2
    <3> HIDE DEF q, T
    <3>3. q = Len(s) \/ s[q + 1] # "m1"
      BY <1>1, <3>2
    <3>4. \A r : Boundary(s, r) /\ q <= r /\ r < q => FALSE
      BY <1>6, <3>2
    <3> QED BY <2>2, <3>1, <3>2, <3>3, <3>4
  <2>6. marksEnd[q] = marksEnd[q + 2]
    BY <2>4, <2>5
  <2>7. unicodeUTF8CharLen(s, q) = 2
    <3>1. q \in Nat
      BY <1>6, <2>2
    <3> HIDE DEF q, T
    <3> QED BY <1>1, <2>5, <3>1 DEF unicodeUTF8CharLen, Lead
  <2>8. /\ Boundary(s, q + 2)
        /\ \A r : Boundary(s, r) => r <= q \/ r >= q + 2
    <3> HIDE DEF q, T
    <3> QED BY <2>2, <2>5, <2>7, CharEnd
  <2>9. z - (n - 2) = q + 2 /\ n - 2 \in 0 .. N
    <3>1. q + 2 <= Len(s)
      BY <1>6, <2>8
    <3> QED BY <1>1, <2>2, <3>1
  <2>10. Right(q + 2)
    <3>1. n \in Int
      BY <1>1, <2>2
    <3>2. n - 2 \notin T
      <4> HIDE DEF T
      <4> QED BY <2>1, <3>1
    <3> HIDE DEF q, Right
    <3> QED BY <2>8, <2>9, <3>2
  <2>11. Right(q)
    <3>1. q \in Nat
      BY <1>6, <2>2
    <3> HIDE DEF q, T
    <3> DEFINE e == marksEnd[q + 2]
    <3>2. /\ Boundary(s, e) /\ q + 2 <= e
          /\ e = Len(s) \/ s[e + 1] # "m1"
          /\ \A r : Boundary(s, r) /\ q + 2 <= r /\ r < e => s[r + 1] = "m1"
      BY <2>10
    <3>3. e \in Nat
      BY <1>6, <3>2
    <3>4. marksEnd[q] = e
      BY <2>6
    <3> HIDE DEF e
    <3>5. \A r : Boundary(s, r) /\ q <= r => r = q \/ q + 2 <= r
      BY <1>6, <2>8, <3>1
    <3>6. \A r : Boundary(s, r) /\ q <= r /\ r < e => s[r + 1] = "m1"
      BY <2>5, <3>2, <3>5
    <3>7. q <= e
      BY <3>1, <3>2, <3>3
    <3> QED BY <3>2, <3>4, <3>6, <3>7
  <2> QED BY <2>2, <2>11
<1>8. /\ Boundary(s, start) /\ start > p
      /\ \A r : Boundary(s, r) => r <= p \/ r >= start
  BY CharEnd
<1>9. start \in Nat /\ start <= Len(s)
  BY <1>6, <1>8
<1>10. z - start \in 0 .. N /\ z - (z - start) = start
  <2> HIDE DEF start
  <2> QED BY <1>1, <1>8, <1>9
<1>11. Right(start)
  <2> HIDE DEF start, Right
  <2>1. z - start \notin T
    BY <1>7
  <2> HIDE DEF z, N
  <2> QED BY <1>8, <1>10, <2>1
<1> DEFINE e == marksEnd[start]
<1>12. /\ Boundary(s, e) /\ start <= e
       /\ e = Len(s) \/ s[e + 1] # "m1"
       /\ \A r : Boundary(s, r) /\ start <= r /\ r < e => s[r + 1] = "m1"
  BY <1>11
<1> HIDE DEF start, Right, T, z, N
<1>13. e \in Nat
  BY <1>6, <1>12
<1>14. p + unicodeGraphemeLen(s, p) = e
  <2> HIDE DEF e
  <2>1. p + (e - p) = e
    BY <1>1, <1>13
  <2> QED BY <1>4, <2>1 DEF e
<1> HIDE DEF e
<1>15. p < e
  BY <1>1, <1>8, <1>9, <1>12, <1>13
<1>16. \A q : Boundary(s, q) /\ p < q /\ q < e => s[q + 1] = "m1"
  <2>1. \A q : Boundary(s, q) /\ p < q => start <= q
    BY <1>1, <1>6, <1>8, <1>9
  <2> QED BY <1>12, <2>1
<1> QED BY <1>12, <1>14, <1>15, <1>16

(***************************************************************************)
(* What the keys do to the characters.                                     *)
(***************************************************************************)

\* The character behind a position, where it is one.
LEMMA CharacterHere ==
  ASSUME NEW k, NEW s \in Texts(k), NEW p, Boundary(s, p), p < Len(s)
  PROVE  /\ Cursor(s, p) + 1 \in 1 .. Len(characters(s))
         /\ characters(s)[Cursor(s, p) + 1] = Mark <=> s[p + 1] = "m1"
         /\ characters(s)[Cursor(s, p) + 1] = Space <=> s[p + 1] = "space"
<1>1. Cursor(s, p) < Len(characters(s)) /\ characters(s)[Cursor(s, p) + 1] = Named(s[p + 1])
  BY CharacterBehind
<1>2. s[p + 1] \in Byte \ Continuation
  BY CharacterAt
<1>3. Cursor(s, p) \in Nat /\ Len(characters(s)) \in Nat
  BY BoundaryType
<1>4. Cursor(s, p) + 1 \in 1 .. Len(characters(s))
  BY <1>1, <1>3
<1> QED BY <1>1, <1>2, <1>4, NamedIsCharacter

\* linenoiseEditMoveLeft and linenoiseEditBackspace stay where only marks
\* are before the cursor, and go to the last character that is none otherwise.
LEMMA PreviousCharacter ==
  ASSUME NEW k, NEW s \in Texts(k), NEW p, Boundary(s, p)
  PROVE  LET r  == p - unicodePrevGraphemeLen(s, p)
             c  == Cursor(s, p)
             d  == Cursor(s, r)
             cs == characters(s)
         IN /\ Boundary(s, r)
            /\ \/ r = p
               \/ /\ d \in 0 .. c - 1 /\ cs[d + 1] # Mark
                  /\ d + 1 \in 1 .. c
                  /\ \A i \in 0 .. c - 1 : cs[i + 1] # Mark => i <= d
<1> DEFINE r == p - unicodePrevGraphemeLen(s, p)
           c == Cursor(s, p)
           d == Cursor(s, r)
           cs == characters(s)
<1>1. Boundary(s, r)
  BY PrevGrapheme
<1>2. \/ r = p
      \/ /\ r < p /\ s[r + 1] # "m1"
         /\ \A q : Boundary(s, q) /\ r < q /\ q < p => s[q + 1] = "m1"
  BY StepBack
<1> HIDE DEF r
<1>3. /\ p \in Nat /\ r \in Nat /\ Len(s) \in Nat /\ p <= Len(s)
      /\ c \in Nat /\ d \in Nat /\ Len(cs) \in Nat /\ c <= Len(cs)
  BY <1>1, BoundaryType
<1>4. CASE /\ r < p /\ s[r + 1] # "m1"
           /\ \A q : Boundary(s, q) /\ r < q /\ q < p => s[q + 1] = "m1"
  <2>1. d < c
    BY <1>1, <1>4, CursorGrows
  <2>2. r < Len(s)
    BY <1>3, <1>4
  <2>3. cs[d + 1] # Mark
    BY <1>1, <1>4, <2>2, CharacterHere
  <2>4. ASSUME NEW i \in 0 .. c - 1, cs[i + 1] # Mark, ~ (i <= d) PROVE FALSE
    <3>1. i + 1 \in 1 .. Len(cs) /\ (i + 1) - 1 = i /\ d < i /\ i < c
      BY <1>3, <2>4
    <3>2. PICK q : Boundary(s, q) /\ Cursor(s, q) = i /\ (cs[i + 1] = Mark <=> s[q + 1] = "m1")
      BY <3>1, PlaceOf
    <3>3. r < q /\ q < p
      BY <1>1, <3>1, <3>2, SameOrder
    <3> QED BY <1>4, <2>4, <3>2, <3>3
  <2>5. d \in 0 .. c - 1 /\ d + 1 \in 1 .. c
    BY <1>3, <2>1
  <2> QED BY <1>1, <2>3, <2>4, <2>5 DEF r
<1> QED BY <1>1, <1>2, <1>4 DEF r

\* linenoiseEditMoveRight and linenoiseEditDelete go to the next character
\* that is no mark, or to the end.
LEMMA NextCharacter ==
  ASSUME NEW k, NEW s \in Texts(k), NEW p, Boundary(s, p), p < Len(s)
  PROVE  LET r  == p + unicodeGraphemeLen(s, p)
             c  == Cursor(s, p)
             d  == Cursor(s, r)
             cs == characters(s)
         IN /\ Boundary(s, r)
            /\ c < Len(cs)
            /\ d \in c + 1 .. Len(cs)
            /\ d = Len(cs) \/ cs[d + 1] # Mark
            /\ \A i \in c + 1 .. Len(cs) : i = Len(cs) \/ cs[i + 1] # Mark => d <= i
<1> DEFINE r == p + unicodeGraphemeLen(s, p)
           c == Cursor(s, p)
           d == Cursor(s, r)
           cs == characters(s)
<1>1. /\ Boundary(s, r) /\ p < r
      /\ r = Len(s) \/ s[r + 1] # "m1"
      /\ \A q : Boundary(s, q) /\ p < q /\ q < r => s[q + 1] = "m1"
  BY StepForth
<1> HIDE DEF r
<1>2. /\ p \in Nat /\ r \in Nat /\ Len(s) \in Nat /\ r <= Len(s)
      /\ c \in Nat /\ d \in Nat /\ Len(cs) \in Nat /\ d <= Len(cs)
  BY <1>1, BoundaryType
<1>3. c < d
  BY <1>1, CursorGrows
<1>4. d = Len(cs) \/ cs[d + 1] # Mark
  <2>1. CASE r = Len(s)
    BY <2>1, CursorEnds
  <2>2. CASE r # Len(s) /\ s[r + 1] # "m1"
    <3>1. r < Len(s)
      BY <1>2, <2>2
    <3> QED BY <1>1, <2>2, <3>1, CharacterHere
  <2> QED BY <1>1, <2>1, <2>2
<1>5. ASSUME NEW i \in c + 1 .. Len(cs), i = Len(cs) \/ cs[i + 1] # Mark, ~ (d <= i) PROVE FALSE
  <2>1. i + 1 \in 1 .. Len(cs) /\ (i + 1) - 1 = i /\ c < i /\ i < d /\ i # Len(cs)
    BY <1>2, <1>5
  <2>2. PICK q : Boundary(s, q) /\ Cursor(s, q) = i /\ (cs[i + 1] = Mark <=> s[q + 1] = "m1")
    BY <2>1, PlaceOf
  <2>3. p < q /\ q < r
    BY <1>1, <2>1, <2>2, SameOrder
  <2> QED BY <1>1, <1>5, <2>1, <2>2, <2>3
<1>6. d \in c + 1 .. Len(cs) /\ c < Len(cs)
  BY <1>2, <1>3
<1> QED BY <1>1, <1>4, <1>5, <1>6 DEF r

\* What linenoiseEditDeletePrevWord finds: the byte behind the last space
\* before the last byte before the cursor that is none.
LEMMA LastIn ==
  ASSUME NEW s, NEW p \in Nat, NEW C
  PROVE  LET b == Max({q \in 1 .. p : s[q] \notin C} \cup {0})
         IN \A q \in 1 .. p : q > b => s[q] \in C
<1> DEFINE S == {q \in 1 .. p : s[q] \notin C} \cup {0}
<1>1. S \in SUBSET (-1 .. p) /\ S # {} /\ \A y \in S : y \in Int
  OBVIOUS
<1>2. \A q \in 1 .. p : s[q] \notin C => q \in S
  OBVIOUS
<1> HIDE DEF S
<1>3. Max(S) \in S /\ \A y \in S : y <= Max(S)
  BY <1>1, MaxIs
<1>4. Max(S) \in Int
  BY <1>1, <1>3
<1>5. \A q \in 1 .. p : q > Max(S) => s[q] \in C
  BY <1>2, <1>3, <1>4
<1> QED BY <1>5 DEF S

\* A space is a character.
LEMMA SpaceAt ==
  ASSUME NEW k, NEW s \in Texts(k), NEW q \in 1 .. Len(s), s[q] = "space"
  PROVE  /\ Boundary(s, q) /\ Cursor(s, q) \in 1 .. Len(characters(s))
         /\ characters(s)[Cursor(s, q)] = Space
<1>1. Len(s) \in Nat
  BY TextFacts
<1>2. q - 1 \in 0 .. Len(s) /\ (q - 1) + 1 = q /\ q - 1 < Len(s)
  BY <1>1
<1>3. Boundary(s, q - 1)
  BY <1>2 DEF Boundary, Continuation
<1>4. unicodeUTF8CharLen(s, q - 1) = 1
  BY <1>2 DEF unicodeUTF8CharLen, Continuation, Lead
<1>5. Boundary(s, q) /\ Cursor(s, q) = Cursor(s, q - 1) + 1
  BY <1>2, <1>3, <1>4, CharacterBehind
<1>6. /\ Cursor(s, q - 1) + 1 \in 1 .. Len(characters(s))
      /\ characters(s)[Cursor(s, q - 1) + 1] = Space <=> s[(q - 1) + 1] = "space"
  BY <1>2, <1>3, CharacterHere
<1> QED BY <1>2, <1>5, <1>6

\* The word before the cursor starts behind the last space that a character
\* before the cursor follows that is no space.
LEMMA PreviousWord ==
  ASSUME NEW k, NEW s \in Texts(k), NEW p, Boundary(s, p)
  PROVE  LET back(x, S) == Max({q \in 1 .. x : s[q] \notin S} \cup {0})
             from == back(back(p, {"space"}), Byte \ {"space"})
             c  == Cursor(s, p)
             d  == Cursor(s, from)
             cs == characters(s)
             words == {i \in 1 .. c - 1 : cs[i] = Space /\ cs[i + 1] # Space}
         IN /\ Boundary(s, from)
            /\ d \in words \cup {0}
            /\ \A i \in words \cup {0} : i <= d
<1> DEFINE back(x, S) == Max({q \in 1 .. x : s[q] \notin S} \cup {0})
           w == back(p, {"space"})
           from == back(w, Byte \ {"space"})
           c  == Cursor(s, p)
           d  == Cursor(s, from)
           cs == characters(s)
           words == {i \in 1 .. c - 1 : cs[i] = Space /\ cs[i + 1] # Space}
<1>1. p \in Nat /\ Len(s) \in Nat /\ p <= Len(s) /\ c \in Nat /\ c <= Len(cs) /\ Len(cs) \in Nat
  BY BoundaryType
<1>2. w \in 0 .. p /\ (w # 0 => s[w] # "space")
  <2>1. w \in 0 .. p /\ (w # 0 => s[w] \notin {"space"})
    BY <1>1, WordStart
  <2> HIDE DEF w
  <2> QED BY <2>1
<1>3. \A q \in 1 .. p : q > w => s[q] = "space"
  <2>1. \A q \in 1 .. p : q > w => s[q] \in {"space"}
    BY <1>1, LastIn
  <2> HIDE DEF w
  <2> QED BY <2>1
<1> HIDE DEF w
<1>4. w \in Nat /\ w <= p
  BY <1>1, <1>2
<1>5. from \in 0 .. w /\ (from # 0 => s[from] \notin Byte \ {"space"})
  BY <1>4, WordStart
<1>6. \A q \in 1 .. w : q > from => s[q] \in Byte \ {"space"}
  BY <1>4, LastIn
<1> HIDE DEF from
<1>7. from \in Nat /\ from <= w /\ from \in 0 .. Len(s)
  BY <1>1, <1>4, <1>5
<1>8. Boundary(s, from)
  BY <1>5, <1>7, BehindSpace
<1>9. d \in Nat
  BY <1>8, BoundaryType
<1>10. d \in words \cup {0}
  <2>1. CASE from = 0
    BY <2>1, CursorEnds
  <2>2. CASE from # 0
    <3>1. s[from] = "space"
      <4>1. from \in 1 .. Len(s) /\ s \in Seq(Byte)
        BY <1>7, <2>2, TextFacts
      <4>2. s[from] \in Byte
        BY <4>1
      <4> QED BY <1>5, <2>2, <4>2
    <3>2. from # w
      BY <1>2, <2>2, <3>1
    <3>3. from < p /\ from < Len(s) /\ from + 1 \in 1 .. w /\ from + 1 > from /\ from \in 1 .. Len(s)
      BY <1>1, <1>4, <1>7, <2>2, <3>2
    <3>4. s[from + 1] # "space"
      BY <1>6, <3>3
    <3>5. cs[d + 1] # Space
      BY <1>8, <3>3, <3>4, CharacterHere
    <3>6. cs[d] = Space /\ d \in 1 .. Len(cs)
      BY <3>1, <3>3, SpaceAt
    <3>7. d < c
      BY <1>8, <3>3, CursorGrows
    <3>8. d \in 1 .. c - 1
      BY <1>1, <1>9, <3>6, <3>7
    <3> HIDE DEF d, c, cs
    <3> QED BY <3>5, <3>6, <3>8
  <2> QED BY <2>1, <2>2
<1>11. ASSUME NEW i \in words, ~ (i <= d) PROVE FALSE
  <2>1. i \in 1 .. c - 1 /\ cs[i] = Space /\ cs[i + 1] # Space
    BY <1>11
  <2>2. i \in 1 .. Len(cs) /\ i < c /\ d < i
    BY <1>1, <1>9, <1>11, <2>1
  <2>3. PICK q : Boundary(s, q) /\ q < Len(s) /\ Cursor(s, q) = i - 1 /\ (cs[i] = Space <=> s[q + 1] = "space")
    BY <2>2, PlaceOf
  <2>4. s[q + 1] = "space" /\ q \in Nat
    BY <2>1, <2>3, BoundaryType
  <2>5. unicodeUTF8CharLen(s, q) = 1
    BY <1>1, <2>3, <2>4 DEF unicodeUTF8CharLen, Continuation, Lead
  <2>6. Boundary(s, q + 1) /\ Cursor(s, q + 1) = i
    <3>1. Boundary(s, q + 1) /\ Cursor(s, q + 1) = Cursor(s, q) + 1
      BY <2>3, <2>5, CharacterBehind
    <3>2. (i - 1) + 1 = i
      BY <2>2
    <3> QED BY <2>3, <3>1, <3>2
  <2>7. from < q + 1 /\ q + 1 < p
    <3>1. d < Cursor(s, q + 1) /\ Cursor(s, q + 1) < c
      BY <2>2, <2>6
    <3> QED BY <1>8, <2>6, <3>1, SameOrder
  <2>8. q + 1 \in 1 .. p /\ (q + 1) + 1 \in 1 .. p /\ q + 1 < Len(s)
    BY <1>1, <2>4, <2>7
  <2>9. q + 1 > w
    <3> SUFFICES ASSUME ~ (q + 1 > w) PROVE FALSE
      OBVIOUS
    <3>1. q + 1 \in 1 .. w /\ q + 1 > from
      BY <1>4, <1>7, <2>4, <2>7
    <3> QED BY <1>6, <2>4, <3>1
  <2>10. s[(q + 1) + 1] = "space"
    <3>1. (q + 1) + 1 > w
      BY <1>4, <2>4, <2>9
    <3> QED BY <1>3, <2>8, <3>1
  <2>11. cs[i + 1] = Space
    BY <2>6, <2>8, <2>10, CharacterHere
  <2> QED BY <2>1, <2>11
<1>12. \A i \in words \cup {0} : i <= d
  BY <1>9, <1>11
<1> QED BY <1>8, <1>10, <1>12 DEF from, w

\* A character put in.
LEMMA TypedCharacters ==
  ASSUME NEW k, NEW s \in Texts(k), NEW p, Boundary(s, p), NEW g \in Texts(k), g \in Characters
  PROVE  LET u  == SubSeq(s, 1, p) \o g \o SubSeq(s, p + 1, Len(s))
             c  == Cursor(s, p)
             cs == characters(s)
         IN /\ characters(u) = SubSeq(cs, 1, c) \o <<g>> \o SubSeq(cs, c + 1, Len(cs))
            /\ Cursor(u, p + Len(g)) = c + 1
<1> DEFINE a == SubSeq(s, 1, p)
           b == SubSeq(s, p + 1, Len(s))
           u == a \o g \o b
           c == Cursor(s, p)
           cs == characters(s)
<1>1. a \in Texts(k) /\ Len(a) = p /\ b \in Texts(k)
  BY FrontOfText, RestOfText
<1>2. characters(a) = SubSeq(cs, 1, c) /\ characters(b) = SubSeq(cs, c + 1, Len(cs)) /\ c = Len(characters(a))
  BY CursorFacts DEF Cursor
<1> HIDE DEF a, b, c, cs
<1>3. a \o g \in Texts(k) /\ Len(a \o g) = p + Len(g)
  BY <1>1, JoinedText
<1>4. characters(a \o g) = characters(a) \o <<g>>
  BY <1>1, JoinedCharacters, OneCharacter
<1>5. characters(u) = characters(a \o g) \o characters(b)
  BY <1>1, <1>3, JoinedCharacters
<1>6. SubSeq(u, 1, p + Len(g)) = a \o g
  <2>1. a \o g \in Seq(Byte) /\ b \in Seq(Byte)
    BY <1>1, <1>3, TextFacts
  <2> DEFINE ag == a \o g
  <2> HIDE DEF ag
  <2>2. SubSeq(ag \o b, 1, Len(ag)) = ag
    BY <2>1, Pieces DEF ag
  <2> QED BY <1>3, <2>2 DEF ag
<1>7. Cursor(u, p + Len(g)) = Len(characters(a) \o <<g>>)
  BY <1>4, <1>6 DEF Cursor
<1>8. Len(characters(a) \o <<g>>) = Len(characters(a)) + 1
  <2>1. characters(a) \in Seq(Characters) /\ <<g>> \in Seq(Characters) /\ Len(<<g>>) = 1
    BY <1>1, CharactersType
  <2> QED BY <2>1
<1> QED BY <1>2, <1>4, <1>5, <1>7, <1>8 DEF u, a, b, c, cs

\* What is between two positions taken out.
LEMMA CutCharacters ==
  ASSUME NEW k, NEW s \in Texts(k), NEW from, Boundary(s, from), NEW to, Boundary(s, to)
  PROVE  LET u  == SubSeq(s, 1, from) \o SubSeq(s, to + 1, Len(s))
             cs == characters(s)
         IN /\ characters(u) = SubSeq(cs, 1, Cursor(s, from)) \o SubSeq(cs, Cursor(s, to) + 1, Len(cs))
            /\ Cursor(u, from) = Cursor(s, from)
<1> DEFINE a == SubSeq(s, 1, from)
           b == SubSeq(s, to + 1, Len(s))
           u == a \o b
           cs == characters(s)
<1>1. a \in Texts(k) /\ Len(a) = from /\ b \in Texts(k)
  BY FrontOfText, RestOfText
<1>2. /\ characters(a) = SubSeq(cs, 1, Cursor(s, from))
      /\ characters(b) = SubSeq(cs, Cursor(s, to) + 1, Len(cs))
      /\ Cursor(s, from) = Len(characters(a))
  BY CursorFacts DEF Cursor
<1> HIDE DEF a, b, cs
<1>3. characters(u) = characters(a) \o characters(b)
  BY <1>1, JoinedCharacters
<1>4. SubSeq(u, 1, from) = a
  <2>1. a \in Seq(Byte) /\ b \in Seq(Byte)
    BY <1>1, TextFacts
  <2>2. SubSeq(a \o b, 1, Len(a)) = a
    BY <2>1, Pieces
  <2> QED BY <1>1, <2>2
<1>5. Cursor(u, from) = Cursor(s, from)
  BY <1>2, <1>4 DEF Cursor
<1> QED BY <1>2, <1>3, <1>5 DEF u, a, b, cs

\* The rest of the line taken out.
LEMMA FrontCharacters ==
  ASSUME NEW k, NEW s \in Texts(k), NEW p, Boundary(s, p)
  PROVE  LET cs == characters(s)
         IN /\ characters(SubSeq(s, 1, p))
                 = SubSeq(cs, 1, Cursor(s, p)) \o SubSeq(cs, Len(cs) + 1, Len(cs))
            /\ Cursor(SubSeq(s, 1, p), p) = Cursor(s, p)
<1> DEFINE a == SubSeq(s, 1, p)
           cs == characters(s)
<1>1. a \in Texts(k) /\ Len(a) = p /\ Boundary(s, Len(s))
  BY FrontOfText, EndsOfText
<1>2. characters(a) = SubSeq(cs, 1, Cursor(s, p)) /\ Cursor(s, p) = Len(characters(a))
  BY CursorFacts DEF Cursor
<1>3. cs \in Seq(Characters) /\ Len(cs) \in Nat /\ characters(a) \in Seq(Characters)
  BY <1>1, CharactersType
<1>4. Cursor(a, p) = Cursor(s, p)
  <2> HIDE DEF a
  <2>1. Cursor(a, Len(a)) = Len(characters(a))
    BY <1>1, CursorEnds
  <2> QED BY <1>1, <1>2, <2>1
<1> HIDE DEF a, cs
<1>5. SubSeq(cs, Len(cs) + 1, Len(cs)) = <<>>
  BY <1>3
<1>6. characters(a) \o <<>> = characters(a)
  BY <1>3, EmptyPiece
<1> QED BY <1>2, <1>4, <1>5, <1>6 DEF a, cs

\* Where Ctrl-T works every byte is a character.
LEMMA BytesAreCharacters ==
  ASSUME NEW k, "ctrl_t" \in k.keys, NEW s \in Texts(k)
  PROVE  /\ Len(characters(s)) = Len(s)
         /\ \A p \in 0 .. Len(s) : Boundary(s, p) /\ Cursor(s, p) = p
         /\ \A p \in 1 .. Len(s) : characters(s)[p] = Named(s[p]) /\ s[p] \in OneByte
<1> DEFINE N == Len(s)
<1>1. N \in Nat /\ s \in Seq(OneByte) /\ DOMAIN s = 1 .. N
  BY TextFacts DEF Texts
<1>2. \A p \in 1 .. N : s[p] \in OneByte
  BY <1>1
<1>3. \A p \in 0 .. N : Boundary(s, p)
  <2> SUFFICES ASSUME NEW p \in 0 .. N PROVE Boundary(s, p)
    OBVIOUS
  <2>1. p < N => p + 1 \in 1 .. N
    BY <1>1
  <2> QED BY <1>2, <2>1 DEF Boundary, Continuation, OneByte
<1> DEFINE S == {p \in 0 .. N : Cursor(s, p) = p}
<1>4. ASSUME NEW p \in 1 .. N
      PROVE  /\ Cursor(s, p) = Cursor(s, p - 1) + 1
             /\ characters(s)[Cursor(s, p - 1) + 1] = Named(s[p])
  <2>1. p - 1 \in 0 .. N /\ p - 1 < N /\ (p - 1) + 1 = p
    BY <1>1
  <2>2. unicodeUTF8CharLen(s, p - 1) = 1
    <3>1. s[(p - 1) + 1] \notin Continuation \cup Lead
      BY <1>2, <2>1 DEF Continuation, Lead, OneByte
    <3> QED BY <2>1, <3>1 DEF unicodeUTF8CharLen
  <2> QED BY <1>3, <2>1, <2>2, CharacterBehind
<1>5. 0 \in S
  BY <1>1, CursorEnds
<1>6. ASSUME NEW p \in 1 .. N, p - 1 \in S PROVE p \in S
  <2>1. p \in 0 .. N /\ Cursor(s, p) = Cursor(s, p - 1) + 1 /\ Cursor(s, p - 1) = p - 1 /\ (p - 1) + 1 = p
    BY <1>1, <1>4, <1>6
  <2> QED BY <2>1
<1> HIDE DEF S
<1>7. \A p \in 0 .. N : p \in S
  BY <1>1, <1>5, <1>6, UpTo
<1>8. \A p \in 0 .. N : Cursor(s, p) = p
  BY <1>7 DEF S
<1>9. Len(characters(s)) = N
  <2>1. N \in 0 .. N
    BY <1>1
  <2> QED BY <1>8, <2>1, CursorEnds
<1>10. \A p \in 1 .. N : characters(s)[p] = Named(s[p])
  <2> SUFFICES ASSUME NEW p \in 1 .. N PROVE characters(s)[p] = Named(s[p])
    OBVIOUS
  <2>1. p - 1 \in 0 .. N /\ (p - 1) + 1 = p
    BY <1>1
  <2> QED BY <1>4, <1>8, <2>1
<1> QED BY <1>2, <1>3, <1>8, <1>9, <1>10

\* Two elements of a sequence exchanged.
LEMMA Exchanged ==
  ASSUME NEW T, NEW s \in Seq(T), NEW p \in 1 .. Len(s) - 1
  PROVE  LET u == [s EXCEPT ![p] = s[p + 1], ![p + 1] = s[p]]
         IN /\ u \in Seq(T) /\ Len(u) = Len(s)
            /\ u[p] = s[p + 1] /\ u[p + 1] = s[p]
            /\ \A i \in 1 .. Len(s) : i # p /\ i # p + 1 => u[i] = s[i]
OBVIOUS

\* Sequences that agree in every place are one.
LEMMA SameElements ==
  ASSUME NEW T, NEW a \in Seq(T), NEW b \in Seq(T), Len(a) = Len(b),
         \A i \in 1 .. Len(a) : a[i] = b[i]
  PROVE  a = b
OBVIOUS

\* Two characters exchanged.
LEMMA SwappedCharacters ==
  ASSUME NEW k, "ctrl_t" \in k.keys, NEW s \in Texts(k), NEW p \in 1 .. Len(s) - 1
  PROVE  LET u  == [s EXCEPT ![p] = s[p + 1], ![p + 1] = s[p]]
             cs == characters(s)
         IN /\ characters(u) = [cs EXCEPT ![p] = cs[p + 1], ![p + 1] = cs[p]]
            /\ Len(cs) = Len(s) /\ Cursor(s, p) = p
            /\ \A q \in 0 .. Len(s) : Cursor(u, q) = q
<1> DEFINE u  == [s EXCEPT ![p] = s[p + 1], ![p + 1] = s[p]]
           cs == characters(s)
           v == [cs EXCEPT ![p] = cs[p + 1], ![p + 1] = cs[p]]
           cu == characters(u)
           N == Len(s)
<1>1. N \in Nat /\ s \in Seq(Byte)
  BY TextFacts
<1>2. p \in 0 .. N /\ p \in 1 .. N /\ p + 1 \in 1 .. N
  BY <1>1
<1>3. u \in Texts(k)
  BY SwappedText
<1>4. Len(u) = N /\ u[p] = s[p + 1] /\ u[p + 1] = s[p] /\ \A i \in 1 .. N : i # p /\ i # p + 1 => u[i] = s[i]
  BY <1>1, Exchanged
<1> HIDE DEF u
<1>5. /\ Len(cs) = N
      /\ \A q \in 0 .. N : Cursor(s, q) = q
      /\ \A q \in 1 .. N : cs[q] = Named(s[q])
  BY BytesAreCharacters
<1>6. /\ Len(cu) = N
      /\ \A q \in 0 .. N : Cursor(u, q) = q
      /\ \A q \in 1 .. N : cu[q] = Named(u[q])
  BY <1>3, <1>4, BytesAreCharacters
<1>7. cs \in Seq(Characters) /\ cu \in Seq(Characters)
  BY <1>3, CharactersType
<1> HIDE DEF cs, cu, N
<1>8. p \in 1 .. Len(cs) - 1
  BY <1>5 DEF N
<1>9. v \in Seq(Characters) /\ Len(v) = N /\ v[p] = cs[p + 1] /\ v[p + 1] = cs[p]
      /\ \A i \in 1 .. N : i # p /\ i # p + 1 => v[i] = cs[i]
  BY <1>5, <1>7, <1>8, Exchanged
<1> HIDE DEF v
<1>10. \A i \in 1 .. N : cu[i] = v[i]
  <2> SUFFICES ASSUME NEW i \in 1 .. N PROVE cu[i] = v[i]
    OBVIOUS
  <2>1. CASE i = p
    BY <1>2, <1>4, <1>5, <1>6, <1>9, <2>1
  <2>2. CASE i = p + 1
    BY <1>2, <1>4, <1>5, <1>6, <1>9, <2>2
  <2>3. CASE i # p /\ i # p + 1
    BY <1>4, <1>5, <1>6, <1>9, <2>3
  <2> QED BY <2>1, <2>2, <2>3
<1>11. cu = v
  BY <1>6, <1>7, <1>9, <1>10, SameElements
<1> QED BY <1>2, <1>5, <1>6, <1>11 DEF u, v, cs, cu, N

(***************************************************************************)
(* The mapped state.                                                       *)
(***************************************************************************)

\* The characters of the texts of a history.
Mapped(h) == [i \in DOMAIN h |-> characters(h[i])]

LEMMA MappedType ==
  ASSUME NEW k, NEW h \in Seq(Texts(k))
  PROVE  /\ Mapped(h) \in Seq(Seq(Characters))
         /\ Len(Mapped(h)) = Len(h) /\ DOMAIN Mapped(h) = 1 .. Len(h) /\ Len(h) \in Nat
         /\ \A i \in 1 .. Len(h) : Mapped(h)[i] = characters(h[i])
<1>1. Len(h) \in Nat /\ DOMAIN h = 1 .. Len(h) /\ \A i \in 1 .. Len(h) : h[i] \in Texts(k)
  OBVIOUS
<1>2. \A i \in 1 .. Len(h) : characters(h[i]) \in Seq(Characters)
  BY <1>1, CharactersType
<1>3. Mapped(h) = [i \in 1 .. Len(h) |-> characters(h[i])]
  BY <1>1 DEF Mapped
<1>4. Mapped(h) \in Seq(Seq(Characters)) /\ Len(Mapped(h)) = Len(h)
  BY <1>1, <1>2, <1>3
<1> QED BY <1>1, <1>3, <1>4

\* During a session: the text being edited in its place.
LEMMA EditMapped ==
  ASSUME Session, pc = "edit"
  PROVE  /\ slot \in 1 .. Len(history) /\ placeShown = slot /\ placeShown # 0
         /\ textsKept = [Mapped(history) EXCEPT ![slot] = characters(buf)]
         /\ textsKept \in Seq(Seq(Characters)) /\ Len(textsKept) = Len(history)
         /\ DOMAIN textsKept = 1 .. Len(history)
         /\ Promise!line = characters(buf)
         /\ cursorAt = Cursor(buf, pos)
         /\ Len(history) \in Nat
<1>1. /\ history \in Seq(Texts(keyboard)) /\ buf \in Texts(keyboard)
      /\ history_index \in Nat /\ history_index < Len(history)
  BY DEF Session
<1>2. Len(history) \in Nat /\ DOMAIN history = 1 .. Len(history)
  BY <1>1
<1>3. slot \in 1 .. Len(history)
  BY <1>1, <1>2 DEF slot
<1>4. placeShown = slot /\ placeShown # 0
  BY <1>3 DEF placeShown
<1>5. textsKept = [Mapped(history) EXCEPT ![slot] = characters(buf)]
  <2>1. Mapped(history) = [i \in DOMAIN history |-> characters(history[i])]
    BY DEF Mapped
  <2>2. textsKept = [i \in DOMAIN history |-> IF i = slot THEN characters(buf) ELSE characters(history[i])]
    BY DEF textsKept, entry
  <2> QED BY <2>1, <2>2
<1>6. /\ Mapped(history) \in Seq(Seq(Characters)) /\ Len(Mapped(history)) = Len(history)
      /\ characters(buf) \in Seq(Characters)
  BY <1>1, MappedType, CharactersType
<1>7. /\ textsKept \in Seq(Seq(Characters)) /\ Len(textsKept) = Len(history)
      /\ textsKept[slot] = characters(buf) /\ DOMAIN textsKept = 1 .. Len(history)
  BY <1>2, <1>3, <1>5, <1>6
<1>8. Promise!line = characters(buf)
  BY <1>4, <1>7 DEF Promise!line
<1>9. cursorAt = Cursor(buf, pos)
  BY DEF cursorAt, Cursor
<1> QED BY <1>2, <1>3, <1>4, <1>5, <1>7, <1>8, <1>9

\* Between sessions: the history.
LEMMA IdleMapped ==
  ASSUME pc # "edit"
  PROVE  textsKept = Mapped(history) /\ placeShown = 0 /\ Promise!idle
<1>1. textsKept = Mapped(history)
  BY DEF textsKept, entry, Mapped
<1> QED BY <1>1 DEF placeShown, Promise!idle

\* A key that edits the line or moves the cursor.
LEMMA BecomesStep ==
  ASSUME Session, pc = "edit", NEW u, NEW p, edited(u, p)
  PROVE  Promise!becomes(characters(u), Cursor(u, p))
<1>1. /\ slot \in 1 .. Len(history) /\ placeShown = slot /\ placeShown # 0
      /\ textsKept = [Mapped(history) EXCEPT ![slot] = characters(buf)]
  BY EditMapped
<1>2. /\ buf' = u /\ pos' = p /\ history' = history /\ history_max_len' = history_max_len
      /\ history_index' = history_index /\ line' = line /\ pc' = pc
  BY DEF edited, store
<1>3. slot' = slot /\ placeShown' = placeShown
  BY <1>2 DEF slot, placeShown
<1>4. textsKept' = [Mapped(history) EXCEPT ![slot] = characters(u)]
  <2>1. Mapped(history) = [i \in DOMAIN history |-> characters(history[i])]
    BY DEF Mapped
  <2>2. textsKept' = [i \in DOMAIN history |-> IF i = slot THEN characters(u) ELSE characters(history[i])]
    BY <1>2, <1>3 DEF textsKept, entry
  <2> QED BY <2>1, <2>2
<1>5. textsKept' = [textsKept EXCEPT ![placeShown] = characters(u)]
  <2> DEFINE m == Mapped(history)
             v == characters(buf)
             w == characters(u)
             i == slot
  <2>1. [m EXCEPT ![i] = w] = [[m EXCEPT ![i] = v] EXCEPT ![i] = w]
    <3> HIDE DEF m, v, w, i
    <3> QED OBVIOUS
  <2> QED BY <1>1, <1>4, <2>1
<1>6. cursorAt' = Cursor(u, p)
  BY <1>2 DEF cursorAt, Cursor
<1>7. textDelivered' = textDelivered
  BY <1>2 DEF textDelivered
<1> QED BY <1>1, <1>2, <1>3, <1>5, <1>6, <1>7 DEF Promise!becomes

\* The largest and the smallest of a set.
LEMMA PromiseMax ==
  ASSUME NEW S \in SUBSET Int, NEW d \in S, \A y \in S : y <= d
  PROVE  Promise!Max(S) = d
<1>1. \A x \in S : x \in Int
  OBVIOUS
<1>2. d \in S /\ \A y \in S : d >= y
  BY <1>1
<1> DEFINE m == CHOOSE x \in S : \A y \in S : x >= y
<1>3. m \in S /\ \A y \in S : m >= y
  BY <1>2
<1>4. Promise!Max(S) = m
  BY DEF Promise!Max
<1> HIDE DEF m
<1>5. m = d
  BY <1>1, <1>2, <1>3
<1> QED BY <1>4, <1>5

LEMMA PromiseMin ==
  ASSUME NEW S \in SUBSET Int, NEW d \in S, \A y \in S : d <= y
  PROVE  Promise!Min(S) = d
<1>1. \A x \in S : x \in Int
  OBVIOUS
<1>2. d \in S /\ \A y \in S : d <= y
  BY <1>1
<1> DEFINE m == CHOOSE x \in S : \A y \in S : x <= y
<1>3. m \in S /\ \A y \in S : m <= y
  BY <1>2
<1>4. Promise!Min(S) = m
  BY DEF Promise!Min
<1> HIDE DEF m
<1>5. m = d
  BY <1>1, <1>2, <1>3
<1> QED BY <1>4, <1>5

(***************************************************************************)
(* The keys.                                                               *)
(***************************************************************************)

\* A character typed.
LEMMA TypeKey ==
  ASSUME WholeInput, SingleCharacters, Session, NEW g \in keyboard.chars, linenoiseEditInsert(g)
  PROVE  Promise!Type
<1> DEFINE u == SubSeq(buf, 1, pos) \o g \o SubSeq(buf, pos + 1, Len(buf))
<1>1. pc = "edit" /\ edited(u, pos + Len(g))
  BY DEF linenoiseEditInsert
<1>2. g \in Texts(keyboard) /\ g \in Characters /\ buf \in Texts(keyboard) /\ Boundary(buf, pos)
  BY DEF Session, WholeInput, SingleCharacters
<1> DEFINE cs == characters(buf)
           c == Cursor(buf, pos)
<1>3. /\ characters(u) = SubSeq(cs, 1, c) \o <<g>> \o SubSeq(cs, c + 1, Len(cs))
      /\ Cursor(u, pos + Len(g)) = c + 1
  BY <1>2, TypedCharacters
<1>4. Promise!becomes(characters(u), Cursor(u, pos + Len(g)))
  <2> HIDE DEF u
  <2> QED BY <1>1, BecomesStep
<1>5. Promise!line = cs /\ cursorAt = c
  BY <1>1, EditMapped
<1> HIDE DEF u, cs, c
<1>6. Promise!becomes(SubSeq(cs, 1, c) \o <<g>> \o SubSeq(cs, c + 1, Len(cs)), c + 1)
  BY <1>3, <1>4
<1> QED BY <1>2, <1>5, <1>6 DEF Promise!Type

\* A step that changes nothing the user sees.
LEMMA SameMapped ==
  ASSUME UNCHANGED <<history, history_max_len, edit, line>>, pc' = "edit" <=> pc = "edit"
  PROVE  UNCHANGED Promise!vars
<1>1. /\ history' = history /\ history_max_len' = history_max_len /\ buf' = buf /\ pos' = pos
      /\ history_index' = history_index /\ line' = line /\ (pc' = "edit" <=> pc = "edit")
  BY DEF edit
<1>2. slot' = slot /\ placeShown' = placeShown
  BY <1>1 DEF slot, placeShown
<1>3. textsKept' = textsKept
  BY <1>1, <1>2 DEF textsKept, entry
<1>4. cursorAt' = cursorAt /\ textDelivered' = textDelivered
  BY <1>1 DEF cursorAt, textDelivered
<1> QED BY <1>1, <1>2, <1>3, <1>4 DEF Promise!vars

\* The cursor has nowhere to go.
LEMMA StaysStep ==
  ASSUME edited(buf, pos)
  PROVE  UNCHANGED Promise!vars
<1>1. UNCHANGED <<history, history_max_len, edit, line>> /\ pc' = pc
  BY DEF edited, edit, store
<1> QED BY <1>1, SameMapped

\* The line without what is between two positions.
LEMMA CutStep ==
  ASSUME Session, pc = "edit", NEW from, Boundary(buf, from), NEW to, Boundary(buf, to),
         cut(from, to, from)
  PROVE  Promise!Cut(Cursor(buf, from), Cursor(buf, to))
<1> DEFINE u == SubSeq(buf, 1, from) \o SubSeq(buf, to + 1, Len(buf))
           cs == characters(buf)
<1>1. buf \in Texts(keyboard)
  BY DEF Session
<1>2. /\ characters(u) = SubSeq(cs, 1, Cursor(buf, from)) \o SubSeq(cs, Cursor(buf, to) + 1, Len(cs))
      /\ Cursor(u, from) = Cursor(buf, from)
  BY <1>1, CutCharacters
<1>3. edited(u, from)
  BY DEF cut
<1> HIDE DEF u
<1>4. Promise!becomes(characters(u), Cursor(u, from))
  BY <1>3, BecomesStep
<1>5. Promise!line = cs
  BY EditMapped
<1> HIDE DEF cs
<1> QED BY <1>2, <1>4, <1>5 DEF Promise!Cut

\* Left and Backspace: to the character before the cursor that is no mark.
LEMMA PreviousIs ==
  ASSUME Session, pc = "edit"
  PROVE  LET r == pos - unicodePrevGraphemeLen(buf, pos)
         IN /\ Boundary(buf, r)
            /\ \/ r = pos
               \/ Promise!previousExists /\ Promise!previous = Cursor(buf, r)
<1> DEFINE r == pos - unicodePrevGraphemeLen(buf, pos)
           c == Cursor(buf, pos)
           d == Cursor(buf, r)
           cs == characters(buf)
<1>1. buf \in Texts(keyboard) /\ Boundary(buf, pos)
  BY DEF Session
<1>2. /\ Boundary(buf, r)
      /\ \/ r = pos
         \/ /\ d \in 0 .. c - 1 /\ cs[d + 1] # Mark
            /\ d + 1 \in 1 .. c
            /\ \A i \in 0 .. c - 1 : cs[i + 1] # Mark => i <= d
  BY <1>1, PreviousCharacter
<1>3. Promise!line = cs /\ cursorAt = c
  BY EditMapped
<1> HIDE DEF r, c, d, cs
<1>4. ASSUME d \in 0 .. c - 1, cs[d + 1] # Mark, d + 1 \in 1 .. c,
             \A i \in 0 .. c - 1 : cs[i + 1] # Mark => i <= d
      PROVE  Promise!previousExists /\ Promise!previous = d
  <2>1. Promise!previousExists
    BY <1>3, <1>4 DEF Promise!previousExists
  <2> DEFINE S == {i \in 0 .. c - 1 : cs[i + 1] \notin {Mark}}
  <2>2. S \in SUBSET Int /\ d \in S /\ \A i \in S : i <= d
    BY <1>4
  <2>3. Promise!previous = Promise!Max(S)
    BY <1>3 DEF Promise!previous
  <2> HIDE DEF S
  <2> QED BY <2>1, <2>2, <2>3, PromiseMax
<1> QED BY <1>2, <1>4 DEF r, d

LEMMA LeftKey ==
  ASSUME Session, linenoiseEditMoveLeft
  PROVE  Promise!Left \/ UNCHANGED Promise!vars
<1> DEFINE r == pos - unicodePrevGraphemeLen(buf, pos)
<1>1. pc = "edit" /\ edited(buf, r)
  BY DEF linenoiseEditMoveLeft, pressed
<1>2. r = pos \/ (Promise!previousExists /\ Promise!previous = Cursor(buf, r))
  BY <1>1, PreviousIs
<1> HIDE DEF r
<1>3. CASE r = pos
  BY <1>1, <1>3, StaysStep
<1>4. CASE Promise!previousExists /\ Promise!previous = Cursor(buf, r)
  <2>1. Promise!becomes(characters(buf), Cursor(buf, r))
    BY <1>1, BecomesStep
  <2>2. Promise!line = characters(buf) /\ placeShown # 0
    BY <1>1, EditMapped
  <2> QED BY <1>4, <2>1, <2>2 DEF Promise!Left
<1> QED BY <1>2, <1>3, <1>4

LEMMA BackspaceKey ==
  ASSUME Session, linenoiseEditBackspace
  PROVE  Promise!Backspace \/ UNCHANGED Promise!vars
<1> DEFINE r == pos - unicodePrevGraphemeLen(buf, pos)
<1>1. pc = "edit" /\ cut(r, pos, r)
  BY DEF linenoiseEditBackspace, pressed
<1>2. Boundary(buf, r) /\ (r = pos \/ (Promise!previousExists /\ Promise!previous = Cursor(buf, r)))
  BY <1>1, PreviousIs
<1>3. buf \in Texts(keyboard) /\ Boundary(buf, pos)
  BY DEF Session
<1> HIDE DEF r
<1>4. CASE r = pos
  <2>1. SubSeq(buf, 1, pos) \o SubSeq(buf, pos + 1, Len(buf)) = buf
    <3>1. buf \in Seq(Byte) /\ pos \in Nat /\ pos <= Len(buf)
      BY <1>3, TextFacts, BoundaryType
    <3> QED BY <3>1, Adjacent
  <2>2. edited(buf, pos)
    BY <1>1, <1>4, <2>1 DEF cut
  <2> QED BY <2>2, StaysStep
<1>5. CASE Promise!previousExists /\ Promise!previous = Cursor(buf, r)
  <2>1. Promise!Cut(Cursor(buf, r), Cursor(buf, pos))
    BY <1>1, <1>2, <1>3, CutStep
  <2>2. cursorAt = Cursor(buf, pos) /\ placeShown # 0
    BY <1>1, EditMapped
  <2>3. Promise!Cut(Promise!previous, cursorAt)
    BY <1>5, <2>1, <2>2
  <2> QED BY <1>5, <2>2, <2>3 DEF Promise!Backspace
<1> QED BY <1>2, <1>4, <1>5

\* Right and Delete: to the next character that is no mark.
LEMMA NextIs ==
  ASSUME Session, pc = "edit", pos < Len(buf)
  PROVE  LET r == pos + unicodeGraphemeLen(buf, pos)
         IN /\ Boundary(buf, r)
            /\ cursorAt < Len(Promise!line)
            /\ Promise!next = Cursor(buf, r)
<1> DEFINE r == pos + unicodeGraphemeLen(buf, pos)
           c == Cursor(buf, pos)
           d == Cursor(buf, r)
           cs == characters(buf)
<1>1. buf \in Texts(keyboard) /\ Boundary(buf, pos)
  BY DEF Session
<1>2. /\ Boundary(buf, r)
      /\ c < Len(cs)
      /\ d \in c + 1 .. Len(cs)
      /\ d = Len(cs) \/ cs[d + 1] # Mark
      /\ \A i \in c + 1 .. Len(cs) : i = Len(cs) \/ cs[i + 1] # Mark => d <= i
  BY <1>1, NextCharacter
<1>3. Promise!line = cs /\ cursorAt = c /\ c \in Nat
  BY <1>1, EditMapped, BoundaryType
<1> HIDE DEF r, c, d, cs
<1> DEFINE S == {i \in c + 1 .. Len(cs) : Promise!Starts(cs, i)}
<1>4. \A i \in c + 1 .. Len(cs) : Promise!Starts(cs, i) <=> i = Len(cs) \/ cs[i + 1] # Mark
  <2>1. \A i \in c + 1 .. Len(cs) : i # 0
    BY <1>3
  <2> QED BY <2>1 DEF Promise!Starts
<1>5. S \in SUBSET Int /\ d \in S /\ \A i \in S : d <= i
  BY <1>2, <1>4
<1>6. Promise!next = Promise!Min(S)
  BY <1>3 DEF Promise!next
<1> HIDE DEF S
<1>7. Promise!next = d
  BY <1>5, <1>6, PromiseMin
<1> QED BY <1>2, <1>3, <1>7 DEF r, d

LEMMA RightKey ==
  ASSUME Session, linenoiseEditMoveRight
  PROVE  Promise!Right
<1> DEFINE r == pos + unicodeGraphemeLen(buf, pos)
<1>1. pc = "edit" /\ edited(buf, r) /\ pos # Len(buf)
  BY DEF linenoiseEditMoveRight, pressed
<1>2. pos < Len(buf)
  <2>1. pos \in Nat /\ Len(buf) \in Nat /\ pos <= Len(buf)
    BY BoundaryType DEF Session
  <2> QED BY <1>1, <2>1
<1>3. cursorAt < Len(Promise!line) /\ Promise!next = Cursor(buf, r)
  BY <1>1, <1>2, NextIs
<1> HIDE DEF r
<1>4. Promise!becomes(characters(buf), Cursor(buf, r))
  BY <1>1, BecomesStep
<1>5. Promise!line = characters(buf) /\ placeShown # 0
  BY <1>1, EditMapped
<1> QED BY <1>3, <1>4, <1>5 DEF Promise!Right

LEMMA DeleteKey ==
  ASSUME Session, linenoiseEditDelete
  PROVE  Promise!Delete
<1> DEFINE r == pos + unicodeGraphemeLen(buf, pos)
           u == SubSeq(buf, 1, pos) \o SubSeq(buf, r + 1, Len(buf))
<1>1. pc = "edit" /\ cut(pos, r, pos) /\ pos < Len(buf)
  BY DEF linenoiseEditDelete, pressed
<1>2. Boundary(buf, r) /\ cursorAt < Len(Promise!line) /\ Promise!next = Cursor(buf, r)
  BY <1>1, NextIs
<1>3. Boundary(buf, pos)
  BY DEF Session
<1> HIDE DEF r
<1>4. Promise!Cut(Cursor(buf, pos), Cursor(buf, r))
  BY <1>1, <1>2, <1>3, CutStep
<1>5. cursorAt = Cursor(buf, pos) /\ placeShown # 0
  BY <1>1, EditMapped
<1>6. Promise!Cut(cursorAt, Promise!next)
  BY <1>2, <1>4, <1>5
<1> QED BY <1>2, <1>5, <1>6 DEF Promise!Delete

\* Home and End.
LEMMA HomeEndKeys ==
  ASSUME Session
  PROVE  /\ linenoiseEditMoveHome => Promise!Home
         /\ linenoiseEditMoveEnd => Promise!End
<1>1. Cursor(buf, 0) = 0 /\ Cursor(buf, Len(buf)) = Len(characters(buf))
  BY CursorEnds DEF Session
<1>2. ASSUME linenoiseEditMoveHome PROVE Promise!Home
  <2>1. pc = "edit" /\ edited(buf, 0)
    BY <1>2 DEF linenoiseEditMoveHome, pressed
  <2>2. Promise!becomes(characters(buf), 0)
    BY <1>1, <2>1, BecomesStep
  <2> QED BY <2>1, <2>2, EditMapped DEF Promise!Home
<1>3. ASSUME linenoiseEditMoveEnd PROVE Promise!End
  <2>1. pc = "edit" /\ edited(buf, Len(buf))
    BY <1>3 DEF linenoiseEditMoveEnd, pressed
  <2>2. Promise!becomes(characters(buf), Cursor(buf, Len(buf)))
    BY <2>1, BecomesStep
  <2>3. Promise!becomes(characters(buf), Len(characters(buf)))
    BY <1>1, <2>2
  <2> QED BY <2>1, <2>3, EditMapped DEF Promise!End
<1> QED BY <1>2, <1>3

\* Ctrl-U and Ctrl-K.
LEMMA KillKeys ==
  ASSUME Session
  PROVE  /\ killLine => Promise!KillLine
         /\ killRest => Promise!KillRest
<1>1. buf \in Texts(keyboard) /\ Boundary(buf, pos)
  BY DEF Session
<1>2. ASSUME killLine PROVE Promise!KillLine
  <2>1. pc = "edit" /\ edited(<<>>, 0)
    BY <1>2 DEF killLine, pressed
  <2>2. Promise!becomes(characters(<<>>), Cursor(<<>>, 0))
    BY <2>1, BecomesStep
  <2>3. characters(<<>>) = <<>> /\ Cursor(<<>>, 0) = 0
    BY NoCharacters, EmptyText, CursorEnds
  <2> QED BY <2>1, <2>2, <2>3, EditMapped DEF Promise!KillLine
<1>3. ASSUME killRest PROVE Promise!KillRest
  <2> DEFINE u == SubSeq(buf, 1, pos)
             cs == characters(buf)
             c == Cursor(buf, pos)
  <2>1. pc = "edit" /\ edited(u, pos)
    BY <1>3 DEF killRest, pressed
  <2>2. characters(u) = SubSeq(cs, 1, c) \o SubSeq(cs, Len(cs) + 1, Len(cs)) /\ Cursor(u, pos) = c
    BY <1>1, FrontCharacters
  <2> HIDE DEF u
  <2>3. Promise!becomes(characters(u), Cursor(u, pos))
    BY <2>1, BecomesStep
  <2>4. Promise!line = cs /\ cursorAt = c /\ placeShown # 0
    BY <2>1, EditMapped
  <2> HIDE DEF cs, c
  <2> QED BY <2>2, <2>3, <2>4 DEF Promise!KillRest, Promise!Cut
<1> QED BY <1>2, <1>3

\* Ctrl-W.
LEMMA KillWordKey ==
  ASSUME Session, linenoiseEditDeletePrevWord
  PROVE  Promise!KillWord
<1> DEFINE back(x, S) == Max({q \in 1 .. x : buf[q] \notin S} \cup {0})
           from == back(back(pos, {"space"}), Byte \ {"space"})
           c == Cursor(buf, pos)
           d == Cursor(buf, from)
           cs == characters(buf)
           words == {i \in 1 .. c - 1 : cs[i] = Space /\ cs[i + 1] # Space}
<1>1. pc = "edit" /\ cut(from, pos, from)
  BY DEF linenoiseEditDeletePrevWord, pressed
<1>2. buf \in Texts(keyboard) /\ Boundary(buf, pos)
  BY DEF Session
<1>3. Boundary(buf, from) /\ d \in words \cup {0} /\ \A i \in words \cup {0} : i <= d
  BY <1>2, PreviousWord
<1> HIDE DEF from
<1>4. Promise!Cut(d, c)
  BY <1>1, <1>2, <1>3, CutStep
<1>5. Promise!line = cs /\ cursorAt = c /\ placeShown # 0
  BY <1>1, EditMapped
<1> HIDE DEF d, c, cs
<1>6. words \cup {0} \in SUBSET Int
  OBVIOUS
<1>7. Promise!Max(words \cup {0}) = d
  <2> DEFINE S == words \cup {0}
  <2> HIDE DEF S, words
  <2>1. S \in SUBSET Int /\ d \in S /\ \A i \in S : i <= d
    BY <1>3, <1>6 DEF S
  <2>2. Promise!Max(S) = d
    BY <2>1, PromiseMax
  <2> QED BY <2>2 DEF S
<1>8. Promise!Cut(Promise!Max(words \cup {0}), cursorAt)
  BY <1>4, <1>5, <1>7
<1> QED BY <1>5, <1>8 DEF Promise!KillWord

\* Ctrl-T.
LEMMA SwapKey ==
  ASSUME Session, swap
  PROVE  Promise!Swap
<1> DEFINE u  == [buf EXCEPT ![pos] = buf[pos + 1], ![pos + 1] = buf[pos]]
           to == IF pos # Len(buf) - 1 THEN pos + 1 ELSE pos
           cs == characters(buf)
<1>1. pc = "edit" /\ "ctrl_t" \in keyboard.keys /\ edited(u, to) /\ pos > 0 /\ pos < Len(buf)
  BY DEF swap, pressed
<1>2. buf \in Texts(keyboard) /\ pos \in Nat /\ Len(buf) \in Nat
  BY BoundaryType DEF Session
<1>3. pos \in 1 .. Len(buf) - 1
  BY <1>1, <1>2
<1>4. to \in 0 .. Len(buf)
  BY <1>2, <1>3
<1> HIDE DEF to
<1>5. /\ characters(u) = [cs EXCEPT ![pos] = cs[pos + 1], ![pos + 1] = cs[pos]]
      /\ Len(cs) = Len(buf) /\ Cursor(buf, pos) = pos
      /\ \A q \in 0 .. Len(buf) : Cursor(u, q) = q
  BY <1>1, <1>2, <1>3, SwappedCharacters
<1> HIDE DEF u
<1>6. Promise!becomes(characters(u), Cursor(u, to))
  BY <1>1, BecomesStep
<1>7. Promise!line = cs /\ cursorAt = pos /\ placeShown # 0
  BY <1>1, <1>5, EditMapped
<1>8. to = IF pos = Len(cs) - 1 THEN pos ELSE pos + 1
  BY <1>5 DEF to
<1> HIDE DEF cs
<1>9. Promise!becomes([cs EXCEPT ![pos] = cs[pos + 1], ![pos + 1] = cs[pos]],
                      IF pos = Len(cs) - 1 THEN pos ELSE pos + 1)
  BY <1>4, <1>5, <1>6, <1>8
<1>10. pos \in 1 .. Len(cs) - 1
  BY <1>3, <1>5
<1> QED BY <1>7, <1>9, <1>10 DEF Promise!Swap

(***************************************************************************)
(* The history.                                                            *)
(***************************************************************************)

\* Up and Down: another text is shown as it was left.
LEMMA WalkKeys ==
  ASSUME Session, NEW key, NEW step \in Int, linenoiseEditHistoryNext(key, step)
  PROVE  Promise!Show(placeShown - step) \/ UNCHANGED Promise!vars
<1> DEFINE T == Texts(keyboard)
           h == [history EXCEPT ![slot] = buf]
           n == Len(history)
<1>1. /\ history \in Seq(T) /\ n \in Nat /\ DOMAIN history = 1 .. n /\ buf \in T
      /\ history_index \in Nat /\ pc = "edit" /\ history_index < n
  BY DEF Session, linenoiseEditHistoryNext, pressed
<1>2. history' = h /\ history_max_len' = history_max_len /\ line' = line /\ pc' = pc
  BY DEF linenoiseEditHistoryNext
<1>3. /\ slot \in 1 .. n /\ placeShown = slot /\ placeShown # 0
      /\ textsKept = [Mapped(history) EXCEPT ![slot] = characters(buf)]
      /\ DOMAIN textsKept = 1 .. n
  BY <1>1, EditMapped
<1> HIDE DEF T
<1>4. h \in Seq(T) /\ Len(h) = n /\ DOMAIN h = 1 .. n /\ h[slot] = buf
      /\ \A i \in 1 .. n : i # slot => h[i] = history[i]
  BY <1>1, <1>3
<1>5. textsKept = [i \in 1 .. n |-> characters(h[i])]
  <2>1. textsKept = [i \in 1 .. n |-> IF i = slot THEN characters(buf) ELSE characters(history[i])]
    BY <1>1 DEF textsKept, entry
  <2> HIDE DEF h
  <2> QED BY <1>4, <2>1
<1> HIDE DEF h, n
<1>6. CASE history_index + step \in 0 .. n - 1
  <2> DEFINE to == slot - step
  <2>1. history_index' = history_index + step /\ buf' = history'[to] /\ pos' = Len(buf')
    BY <1>6 DEF linenoiseEditHistoryNext, n
  <2>2. to \in 1 .. n
    BY <1>1, <1>6 DEF slot, n
  <2>3. slot' = to
    <3>1. slot' = Len(history') - (history_index + step)
      BY <2>1 DEF slot
    <3>2. slot = n - history_index
      BY DEF slot, n
    <3> QED BY <1>1, <1>2, <1>4, <3>1, <3>2
  <2> HIDE DEF to
  <2>4. placeShown' = to
    BY <1>1, <1>2, <2>3 DEF placeShown
  <2>5. buf' = h[to] /\ h[to] \in T
    BY <1>2, <1>4, <2>1, <2>2
  <2>6. textsKept' = textsKept
    <3>1. textsKept' = [i \in DOMAIN h |-> IF i = to THEN characters(buf') ELSE characters(h[i])]
      BY <1>1, <1>2, <2>3 DEF textsKept, entry
    <3> QED BY <1>4, <1>5, <2>5, <3>1
  <2>7. cursorAt' = Len(textsKept[to])
    <3>1. cursorAt' = Cursor(buf', Len(buf'))
      BY <2>1 DEF cursorAt, Cursor
    <3>2. Cursor(h[to], Len(h[to])) = Len(characters(h[to]))
      BY <2>5, CursorEnds DEF T
    <3>3. textsKept[to] = characters(h[to])
      BY <1>5, <2>2
    <3> QED BY <2>5, <3>1, <3>2, <3>3
  <2>8. textDelivered' = textDelivered
    BY <1>2 DEF textDelivered
  <2>9. placeShown - step = to
    BY <1>3 DEF to
  <2>10. to \in DOMAIN textsKept
    BY <1>3, <2>2
  <2>11. Promise!Show(to)
    BY <1>2, <1>3, <2>4, <2>6, <2>7, <2>8, <2>10 DEF Promise!Show
  <2> QED BY <2>9, <2>11
<1>7. CASE history_index + step \notin 0 .. n - 1
  <2>1. /\ history_index' = history_index /\ buf' = buf /\ pos' = pos
    BY <1>7 DEF linenoiseEditHistoryNext, n, edit
  <2>2. slot' = slot
    <3>1. slot' = Len(history') - history_index
      BY <2>1 DEF slot
    <3>2. slot = n - history_index
      BY DEF slot, n
    <3> QED BY <1>2, <1>4, <3>1, <3>2
  <2>3. placeShown' = placeShown
    BY <1>2, <2>2 DEF placeShown
  <2>4. textsKept' = textsKept
    <3>1. textsKept' = [i \in DOMAIN h |-> IF i = slot THEN characters(buf) ELSE characters(h[i])]
      BY <1>1, <1>2, <2>1, <2>2 DEF textsKept, entry
    <3> QED BY <1>4, <1>5, <3>1
  <2>5. cursorAt' = cursorAt /\ textDelivered' = textDelivered
    BY <1>2, <2>1 DEF cursorAt, textDelivered
  <2> QED BY <1>2, <2>3, <2>4, <2>5 DEF Promise!vars
<1> QED BY <1>6, <1>7

\* What the end of a session leaves to the user.
LEMMA LeaveStep ==
  ASSUME Session, pc = "edit", NEW quits, leave(quits),
         NEW n \in Nat, n <= Len(history), history' = SubSeq(history, 1, n)
  PROVE  /\ Promise!endsWith(n)
         /\ textDelivered' = IF quits THEN <<>> ELSE Promise!line
         /\ Len(textsKept) = Len(history)
<1> DEFINE T == Texts(keyboard)
<1>1. history \in Seq(T) /\ buf \in T /\ Len(history) \in Nat
  BY DEF Session
<1>2. /\ pc' = "idle" /\ line' = (IF quits THEN <<>> ELSE buf) /\ buf' = <<>> /\ pos' = 0
      /\ history_max_len' = history_max_len
  BY DEF leave
<1>3. /\ slot \in 1 .. Len(history) /\ placeShown = slot /\ placeShown # 0
      /\ textsKept = [Mapped(history) EXCEPT ![slot] = characters(buf)]
      /\ Promise!line = characters(buf) /\ Len(textsKept) = Len(history)
  BY EditMapped
<1>4. /\ DOMAIN Mapped(history) = 1 .. Len(history)
      /\ \A i \in 1 .. Len(history) : Mapped(history)[i] = characters(history[i])
  BY <1>1, MappedType
<1> HIDE DEF T
<1>5. DOMAIN history' = 1 .. n /\ \A i \in 1 .. n : history'[i] = history[i]
  BY <1>1
<1>6. textsKept' = [i \in 1 .. n |-> characters(history[i])]
  <2>1. textsKept' = [i \in DOMAIN history' |-> characters(history'[i])]
    BY <1>2 DEF textsKept, entry
  <2> QED BY <1>5, <2>1
<1>7. \A i \in (1 .. n) \ {placeShown} : textsKept'[i] = textsKept[i]
  <2> SUFFICES ASSUME NEW i \in (1 .. n) \ {placeShown} PROVE textsKept'[i] = textsKept[i]
    OBVIOUS
  <2>1. i \in 1 .. n /\ i \in 1 .. Len(history) /\ i # slot
    BY <1>1, <1>3
  <2>2. textsKept[i] = characters(history[i])
    BY <1>3, <1>4, <2>1
  <2> QED BY <1>6, <2>1, <2>2
<1>8. placeShown' = 0 /\ cursorAt' = 0
  <2>1. placeShown' = 0
    BY <1>2 DEF placeShown
  <2>2. cursorAt' = Cursor(<<>>, 0)
    BY <1>2 DEF cursorAt, Cursor
  <2>3. Cursor(<<>>, 0) = 0
    BY EmptyText, CursorEnds
  <2> QED BY <2>1, <2>2, <2>3
<1>9. DOMAIN textsKept' = 1 .. n
  BY <1>6
<1>10. Promise!endsWith(n)
  BY <1>2, <1>3, <1>7, <1>8, <1>9 DEF Promise!endsWith
<1>11. textDelivered' = IF quits THEN <<>> ELSE Promise!line
  BY <1>2, <1>3, NoCharacters DEF textDelivered
<1> QED BY <1>3, <1>10, <1>11

\* Enter, the end of the input, Ctrl-C, and Ctrl-D in an empty line.
LEMMA EndKeys ==
  ASSUME Session, pc = "edit"
  PROVE  /\ enter => Promise!Accept
         /\ inputEnds => Promise!HangUp
         /\ endOfFile \/ interrupt => Promise!Abandon
<1> DEFINE n == Len(history)
<1>1. history \in Seq(Texts(keyboard)) /\ n \in Nat /\ n > 0 /\ history # <<>>
  BY DEF Session
<1>2. Front(history) = SubSeq(history, 1, n - 1) /\ history = SubSeq(history, 1, n)
  BY <1>1 DEF Front
<1>3. n - 1 \in Nat /\ n - 1 <= n /\ n <= n
  BY <1>1
<1> HIDE DEF n
<1>4. ASSUME enter PROVE Promise!Accept
  <2>1. leave(FALSE) /\ history' = SubSeq(history, 1, n - 1)
    BY <1>1, <1>2, <1>4 DEF enter
  <2>2. Promise!endsWith(n - 1) /\ textDelivered' = Promise!line /\ Len(textsKept) = n
    BY <1>3, <2>1, LeaveStep DEF n
  <2> QED BY <2>2 DEF Promise!Accept
<1>5. ASSUME inputEnds PROVE Promise!HangUp
  <2>1. leave(FALSE) /\ history' = SubSeq(history, 1, n)
    BY <1>2, <1>5 DEF inputEnds
  <2>2. Promise!endsWith(n) /\ textDelivered' = Promise!line /\ Len(textsKept) = n
    BY <1>1, <1>3, <2>1, LeaveStep DEF n
  <2> QED BY <2>2 DEF Promise!HangUp
<1>6. ASSUME endOfFile PROVE Promise!Abandon
  <2>1. leave(TRUE) /\ history' = SubSeq(history, 1, n - 1)
    BY <1>2, <1>6 DEF endOfFile
  <2>2. Promise!endsWith(n - 1) /\ textDelivered' = <<>> /\ Len(textsKept) = n
    BY <1>3, <2>1, LeaveStep DEF n
  <2> QED BY <2>2 DEF Promise!Abandon
<1>7. ASSUME interrupt PROVE Promise!Abandon
  <2>1. leave(TRUE) /\ history' = SubSeq(history, 1, n)
    BY <1>2, <1>7 DEF interrupt
  <2>2. Promise!endsWith(n) /\ textDelivered' = <<>> /\ Len(textsKept) = n
    BY <1>1, <1>3, <2>1, LeaveStep DEF n
  <2> QED BY <2>2 DEF Promise!Abandon
<1> QED BY <1>4, <1>5, <1>6, <1>7

LEMMA AppendedTail ==
  ASSUME NEW T, NEW h \in Seq(T), h # <<>>, NEW x \in T
  PROVE  Tail(Append(h, x)) = Append(Tail(h), x)
OBVIOUS

\* The oldest text leaves.
LEMMA MappedTail ==
  ASSUME NEW k, NEW h \in Seq(Texts(k)), h # <<>>
  PROVE  Mapped(Tail(h)) = Tail(Mapped(h))
<1> DEFINE a == Mapped(Tail(h))
           b == Tail(Mapped(h))
           n == Len(h)
<1>1. n \in Nat /\ n > 0 /\ Tail(h) \in Seq(Texts(k)) /\ Len(Tail(h)) = n - 1
  OBVIOUS
<1>2. \A i \in 1 .. n - 1 : Tail(h)[i] = h[i + 1] /\ i + 1 \in 1 .. n
  BY <1>1
<1>3. /\ a \in Seq(Seq(Characters)) /\ Len(a) = n - 1
      /\ \A i \in 1 .. n - 1 : a[i] = characters(Tail(h)[i])
  BY <1>1, MappedType
<1>4. /\ Mapped(h) \in Seq(Seq(Characters)) /\ Len(Mapped(h)) = n
      /\ \A i \in 1 .. n : Mapped(h)[i] = characters(h[i])
  BY MappedType
<1> HIDE DEF n
<1>5. Mapped(h) # <<>>
  BY <1>1, <1>4
<1>6. b \in Seq(Seq(Characters)) /\ Len(b) = n - 1 /\ \A i \in 1 .. n - 1 : b[i] = Mapped(h)[i + 1]
  BY <1>1, <1>4, <1>5
<1>7. \A i \in 1 .. n - 1 : a[i] = b[i]
  BY <1>2, <1>3, <1>4, <1>6
<1> HIDE DEF a, b
<1>8. a = b
  BY <1>3, <1>6, <1>7, SameElements
<1> QED BY <1>8 DEF a, b

\* A text comes last.
LEMMA MappedAppend ==
  ASSUME NEW k, NEW h \in Seq(Texts(k)), NEW s \in Texts(k)
  PROVE  Mapped(Append(h, s)) = Append(Mapped(h), characters(s))
<1> DEFINE a == Mapped(Append(h, s))
           b == Append(Mapped(h), characters(s))
           n == Len(h)
<1>1. n \in Nat /\ Append(h, s) \in Seq(Texts(k)) /\ Len(Append(h, s)) = n + 1
  OBVIOUS
<1>2. Append(h, s)[n + 1] = s /\ \A i \in 1 .. n : Append(h, s)[i] = h[i]
  BY <1>1
<1>3. /\ a \in Seq(Seq(Characters)) /\ Len(a) = n + 1
      /\ \A i \in 1 .. n + 1 : a[i] = characters(Append(h, s)[i])
  BY <1>1, MappedType
<1>4. /\ Mapped(h) \in Seq(Seq(Characters)) /\ Len(Mapped(h)) = n
      /\ \A i \in 1 .. n : Mapped(h)[i] = characters(h[i])
      /\ characters(s) \in Seq(Characters)
  BY MappedType, CharactersType
<1> HIDE DEF n
<1>5. /\ b \in Seq(Seq(Characters)) /\ Len(b) = n + 1 /\ b[n + 1] = characters(s)
      /\ \A i \in 1 .. n : b[i] = Mapped(h)[i]
  BY <1>1, <1>4
<1>6. \A i \in 1 .. n + 1 : i \in 1 .. n \/ i = n + 1
  BY <1>1
<1> HIDE DEF a, b
<1>7. \A i \in 1 .. n + 1 : a[i] = b[i]
  <2> SUFFICES ASSUME NEW i \in 1 .. n + 1 PROVE a[i] = b[i]
    OBVIOUS
  <2>1. CASE i \in 1 .. n
    BY <1>2, <1>3, <1>4, <1>5, <2>1
  <2>2. CASE i = n + 1
    BY <1>2, <1>3, <1>5, <2>2
  <2> QED BY <1>6, <2>1, <2>2
<1>8. a = b
  BY <1>3, <1>5, <1>7, SameElements
<1> QED BY <1>8 DEF a, b

\* linenoiseHistoryAdd on characters: what LineEditor!remembered says.
Remembered(h, max, s) ==
  IF h # <<>> /\ h[Len(h)] = s THEN h
  ELSE LET all == Append(h, s) IN IF Len(all) > max THEN Tail(all) ELSE all

LEMMA MappedAdded ==
  ASSUME NEW k, NEW h \in Seq(Texts(k)), NEW max \in Nat \ {0}, Len(h) <= max, NEW s \in Texts(k)
  PROVE  Mapped(added(h, max, s)) = Remembered(Mapped(h), max, characters(s))
<1> DEFINE m == Mapped(h)
           c == characters(s)
           n == Len(h)
<1>1. /\ n \in Nat
      /\ m \in Seq(Seq(Characters)) /\ Len(m) = n
      /\ \A i \in 1 .. n : m[i] = characters(h[i])
      /\ c \in Seq(Characters)
  BY MappedType, CharactersType
<1>2. h # <<>> <=> n # 0
  OBVIOUS
<1>3. m # <<>> <=> n # 0
  <2> HIDE DEF m, n
  <2> QED BY <1>1
<1>4. n # 0 => h[n] \in Texts(k) /\ n \in 1 .. n
  OBVIOUS
<1>5. n # 0 => (Last(h) = s <=> m[n] = c)
  <2> SUFFICES ASSUME n # 0 PROVE Last(h) = s <=> m[n] = c
    OBVIOUS
  <2>1. Last(h) = h[n] /\ m[n] = characters(h[n])
    BY <1>1, <1>4 DEF Last
  <2> HIDE DEF m, n
  <2>2. characters(h[n]) = c => h[n] = s
    BY <1>4, SameCharacters
  <2> QED BY <2>1, <2>2
<1>6. CASE n # 0 /\ Last(h) = s
  <2>1. added(h, max, s) = h
    BY <1>2, <1>6 DEF added
  <2>2. Remembered(m, max, c) = m
    <3> HIDE DEF m, c, n
    <3> QED BY <1>1, <1>3, <1>5, <1>6 DEF Remembered
  <2> QED BY <2>1, <2>2
<1>7. CASE ~ (n # 0 /\ Last(h) = s)
  <2>1. added(h, max, s) = Append(IF n = max THEN Tail(h) ELSE h, s)
    BY <1>2, <1>7 DEF added
  <2>2. Remembered(m, max, c) = IF Len(Append(m, c)) > max THEN Tail(Append(m, c)) ELSE Append(m, c)
    <3> HIDE DEF m, c, n
    <3> QED BY <1>1, <1>3, <1>5, <1>7 DEF Remembered
  <2>3. Len(Append(m, c)) = n + 1
    <3> HIDE DEF m, c, n
    <3> QED BY <1>1
  <2>4. Len(Append(m, c)) > max <=> n = max
    <3> HIDE DEF m, c, n
    <3>1. n <= max
      BY DEF n
    <3> QED BY <1>1, <2>3, <3>1
  <2>5. CASE n = max
    <3>1. h # <<>> /\ m # <<>> /\ Tail(h) \in Seq(Texts(k))
      BY <1>2, <1>3, <2>5
    <3>2. Mapped(Append(Tail(h), s)) = Append(Mapped(Tail(h)), c)
      BY <3>1, MappedAppend
    <3>3. Mapped(Tail(h)) = Tail(m)
      BY <3>1, MappedTail
    <3>4. Tail(Append(m, c)) = Append(Tail(m), c)
      <4> HIDE DEF m, c, n
      <4> QED BY <1>1, <3>1, AppendedTail
    <3> HIDE DEF m, c, n
    <3>5. Mapped(added(h, max, s)) = Remembered(m, max, c)
      BY <2>1, <2>2, <2>4, <2>5, <3>2, <3>3, <3>4
    <3> QED BY <3>5 DEF m, c
  <2>6. CASE n # max
    <3>1. Mapped(Append(h, s)) = Append(m, c)
      BY MappedAppend
    <3> HIDE DEF m, c, n
    <3>2. Mapped(added(h, max, s)) = Remembered(m, max, c)
      BY <2>1, <2>2, <2>4, <2>6, <3>1
    <3> QED BY <3>2 DEF m, c
  <2> HIDE DEF m, c, n
  <2> QED BY <2>5, <2>6
<1> QED BY <1>6, <1>7

\* The entry added is the last.
LEMMA AddedLast ==
  ASSUME NEW T, NEW h \in Seq(T), NEW max \in Nat \ {0}, Len(h) <= max, NEW s \in T
  PROVE  added(h, max, s)[Len(added(h, max, s))] = s
<1>1. CASE h # <<>> /\ Last(h) = s
  BY <1>1 DEF added, Last
<1>2. CASE ~ (h # <<>> /\ Last(h) = s)
  <2> DEFINE kept == IF Len(h) = max THEN Tail(h) ELSE h
  <2>1. added(h, max, s) = Append(kept, s)
    BY <1>2 DEF added
  <2>2. kept \in Seq(T)
    <3>1. CASE Len(h) = max
      <4>1. h # <<>>
        BY <3>1
      <4> QED BY <3>1, <4>1
    <3>2. CASE Len(h) # max
      BY <3>2
    <3> QED BY <3>1, <3>2
  <2> HIDE DEF kept
  <2>3. Append(kept, s)[Len(Append(kept, s))] = s
    BY <2>2
  <2> QED BY <2>1, <2>3
<1> QED BY <1>1, <1>2

\* The latest texts leave.
LEMMA MappedFront ==
  ASSUME NEW k, NEW h \in Seq(Texts(k)), NEW n \in Nat, n <= Len(h)
  PROVE  Mapped(SubSeq(h, 1, n)) = SubSeq(Mapped(h), 1, n)
<1> DEFINE g == SubSeq(h, 1, n)
           a == Mapped(g)
           m == Mapped(h)
           b == SubSeq(m, 1, n)
<1>1. g \in Seq(Texts(k)) /\ Len(g) = n /\ \A i \in 1 .. n : g[i] = h[i]
  OBVIOUS
<1>2. /\ m \in Seq(Seq(Characters)) /\ Len(m) = Len(h) /\ Len(h) \in Nat
      /\ \A i \in 1 .. Len(h) : m[i] = characters(h[i])
  BY MappedType
<1> HIDE DEF g, m
<1>3. a \in Seq(Seq(Characters)) /\ Len(a) = n /\ \A i \in 1 .. n : a[i] = characters(g[i])
  BY <1>1, MappedType
<1>4. b \in Seq(Seq(Characters)) /\ Len(b) = n /\ \A i \in 1 .. n : b[i] = m[i]
  BY <1>2
<1>5. \A i \in 1 .. n : i \in 1 .. Len(h)
  BY <1>2
<1>6. \A i \in 1 .. n : a[i] = b[i]
  BY <1>1, <1>2, <1>3, <1>4, <1>5
<1> HIDE DEF a, b
<1>7. a = b
  BY <1>3, <1>4, <1>6, SameElements
<1> QED BY <1>7 DEF a, b, g, m

\* The calls between sessions.
LEMMA CallKeepsPromise ==
  ASSUME WholeInput, Session, Call
  PROVE  [Promise!Next]_(Promise!vars)
<1> DEFINE T == Texts(keyboard)
           max == history_max_len
           m == Mapped(history)
<1>1. pc = "idle"
  BY DEF Call, AddHistory, LoadHistory, SetHistoryMaxLen, readPlainLine, cannotEdit, linenoiseEdit
<1>2. textsKept = m /\ placeShown = 0 /\ Promise!idle
  BY <1>1, IdleMapped
<1>3. /\ history \in Seq(T) /\ Len(history) \in Nat /\ max \in Nat \ {0} /\ Len(history) <= max
      /\ line \in T /\ <<>> \in T
  BY EmptyText DEF Session
<1>4. /\ history' \in Seq(Texts(keyboard')) /\ Len(history') <= history_max_len'
      /\ line' \in Texts(keyboard')
  BY CallSession DEF Session, Texts
<1>5. ASSUME pc' = "idle" PROVE textsKept' = Mapped(history') /\ placeShown' = 0
  BY <1>5 DEF textsKept, entry, Mapped, placeShown
<1>6. ASSUME UNCHANGED edit PROVE cursorAt' = cursorAt
  BY <1>6 DEF edit, cursorAt
<1>7. ASSUME line' = line PROVE textDelivered' = textDelivered
  BY <1>7 DEF textDelivered
<1>8. \A h, s : Remembered(m, max, s) = Promise!remembered(s)
  BY <1>2 DEF Remembered, Promise!remembered
<1> HIDE DEF T, m
<1>9. CASE AddHistory
  <2>1. /\ history' = added(history, max, line) /\ max' = max /\ line' = line /\ pc' = "idle"
        /\ UNCHANGED edit
    BY <1>9 DEF AddHistory
  <2>2. Mapped(added(history, max, line)) = Remembered(m, max, textDelivered)
    BY <1>3, MappedAdded DEF m, T, textDelivered
  <2>3. textsKept' = Promise!remembered(textDelivered)
    BY <1>5, <1>8, <2>1, <2>2
  <2>4. Promise!Remember
    BY <1>2, <1>5, <1>6, <1>7, <2>1, <2>3 DEF Promise!Remember
  <2> QED BY <2>4 DEF Promise!Next
<1>10. ASSUME NEW text \in Files, LoadHistory(text) PROVE Promise!Next
  <2>1. max' = max /\ line' = line /\ pc' = "idle" /\ UNCHANGED edit
    BY <1>10 DEF LoadHistory
  <2>2. Mapped(history') \in Seq(Seq(Characters)) /\ Len(Mapped(history')) = Len(history')
    BY <1>4, MappedType
  <2>3. Promise!Load
    BY <1>2, <1>4, <1>5, <1>6, <1>7, <2>1, <2>2 DEF Promise!Load
  <2> QED BY <2>3 DEF Promise!Next
<1>11. ASSUME NEW len \in Lengths, SetHistoryMaxLen(len) PROVE Promise!Next
  <2> DEFINE kept == IF len < Len(history) THEN len ELSE Len(history)
  <2>1. /\ max' = len /\ line' = line /\ pc' = "idle" /\ UNCHANGED edit
        /\ history' = SubSeq(history, 1, kept)
    BY <1>1, <1>11 DEF SetHistoryMaxLen
  <2>2. len \in Nat /\ len >= 1 /\ kept \in Nat /\ kept <= Len(history)
    BY <1>3, <1>11, LengthAssumption DEF SetHistoryMaxLen
  <2> HIDE DEF kept
  <2>3. Mapped(history') = SubSeq(m, 1, kept)
    BY <1>3, <2>1, <2>2, MappedFront DEF m, T
  <2>4. m \in Seq(Seq(Characters)) /\ Len(m) = Len(history)
    BY <1>3, MappedType DEF m, T
  <2>5. Promise!Limit
    <3>1. len \in Lengths \cup {DefaultMaxLen}
      OBVIOUS
    <3>2. CASE len < Len(history)
      <4>1. kept = len /\ Len(m) > len
        BY <2>4, <3>2 DEF kept
      <4>2. 0 \in 0 .. Len(m) - len /\ textsKept' = SubSeq(m, 0 + 1, 0 + len)
        <5>1. 0 + len = len /\ 0 + 1 = 1 /\ 0 \in 0 .. Len(m) - len
          BY <1>3, <2>2, <2>4, <4>1
        <5> QED BY <1>5, <2>1, <2>3, <4>1, <5>1
      <4>3. \E i \in 0 .. Len(textsKept) - max' : textsKept' = SubSeq(textsKept, i + 1, i + max')
        BY <1>2, <2>1, <4>2
      <4>4. Len(textsKept) > max'
        BY <1>2, <2>1, <4>1
      <4> QED BY <1>2, <1>5, <1>6, <1>7, <2>1, <3>1, <4>3, <4>4 DEF Promise!Limit
    <3>3. CASE ~ (len < Len(history))
      <4>1. kept = Len(m) /\ Len(m) <= len
        BY <1>3, <2>2, <2>4, <3>3 DEF kept
      <4>2. SubSeq(m, 1, Len(m)) = m
        BY <2>4
      <4>3. textsKept' = textsKept /\ Len(textsKept) <= max'
        BY <1>2, <1>5, <2>1, <2>3, <4>1, <4>2
      <4> QED BY <1>2, <1>5, <1>6, <1>7, <2>1, <3>1, <4>3 DEF Promise!Limit
    <3> QED BY <3>2, <3>3
  <2> QED BY <2>5 DEF Promise!Next
<1>12. CASE readPlainLine \/ cannotEdit
  <2>1. history' = history /\ max' = max /\ pc' = "idle" /\ UNCHANGED edit
    BY <1>12 DEF readPlainLine, cannotEdit, store
  <2>2. textDelivered' \in Seq(Characters)
    <3>1. characters(line') \in Seq(Characters)
      BY <1>4, CharactersType
    <3> QED BY <3>1 DEF textDelivered
  <2>3. textsKept' = textsKept
    BY <1>2, <1>5, <2>1 DEF m
  <2>4. Promise!Plain
    BY <1>2, <1>5, <1>6, <2>1, <2>2, <2>3 DEF Promise!Plain
  <2> QED BY <2>4 DEF Promise!Next
<1>13. CASE linenoiseEdit
  <2> DEFINE h == added(history, max, <<>>)
  <2>1. /\ buf' = <<>> /\ pos' = 0 /\ history_index' = 0 /\ line' = <<>> /\ pc' = "edit"
        /\ history' = h /\ max' = max
    BY <1>13 DEF linenoiseEdit
  <2>2. h \in Seq(T) /\ Len(h) \in 1 .. max /\ h[Len(h)] = <<>>
    BY <1>3, AddedKeeps, AddedLast
  <2>3. Mapped(h) = Remembered(m, max, <<>>)
    BY <1>3, MappedAdded, NoCharacters DEF m, T
  <2> HIDE DEF h
  <2>4. slot' = Len(h) /\ placeShown' = Len(h)
    <3>1. slot' = Len(h) - 0
      BY <2>1 DEF slot
    <3>2. slot' = Len(h)
      BY <2>2, <3>1
    <3> QED BY <2>1, <3>2 DEF placeShown
  <2>5. textsKept' = Mapped(h)
    <3>1. textsKept' = [i \in DOMAIN h |-> IF i = Len(h) THEN characters(<<>>) ELSE characters(h[i])]
      BY <2>1, <2>4 DEF textsKept, entry
    <3>2. Mapped(h) = [i \in DOMAIN h |-> characters(h[i])]
      BY DEF Mapped
    <3> QED BY <2>2, <3>1, <3>2
  <2>6. Len(textsKept') = Len(h)
    BY <2>2, <2>5, MappedType DEF T
  <2>7. cursorAt' = 0
    <3>1. cursorAt' = Cursor(<<>>, 0)
      BY <2>1 DEF cursorAt, Cursor
    <3> QED BY <3>1, EmptyText, CursorEnds
  <2>8. textDelivered' = <<>>
    BY <2>1, NoCharacters DEF textDelivered
  <2>9. textsKept' = Promise!remembered(<<>>)
    BY <1>8, <2>3, <2>5
  <2>10. Promise!Begin
    BY <1>2, <2>1, <2>4, <2>6, <2>7, <2>8, <2>9 DEF Promise!Begin
  <2> QED BY <2>10 DEF Promise!Next
<1> QED BY <1>9, <1>10, <1>11, <1>12, <1>13 DEF Call

\* The keys of a session.
LEMMA KeyKeepsPromise ==
  ASSUME WholeInput, SingleCharacters, Session, KeyStroke
  PROVE  [Promise!Next]_(Promise!vars)
<1>1. pc = "edit"
  BY DEF KeyStroke, linenoiseEditInsert, linenoiseEditMoveLeft, linenoiseEditMoveRight,
         linenoiseEditMoveHome, linenoiseEditMoveEnd, linenoiseEditDelete,
         linenoiseEditBackspace, linenoiseEditDeletePrevWord, swap, killLine, killRest,
         linenoiseEditHistoryNext, enter, endOfFile, interrupt, inputEnds, pressed
<1>2. ASSUME NEW g \in keyboard.chars, linenoiseEditInsert(g) PROVE Promise!Next
  BY <1>2, TypeKey DEF Promise!Next
<1>3. CASE linenoiseEditMoveLeft \/ linenoiseEditMoveRight \/ linenoiseEditMoveHome \/ linenoiseEditMoveEnd
  BY <1>3, LeftKey, RightKey, HomeEndKeys DEF Promise!Next
<1>4. CASE linenoiseEditDelete \/ linenoiseEditBackspace \/ linenoiseEditDeletePrevWord
  BY <1>4, DeleteKey, BackspaceKey, KillWordKey DEF Promise!Next
<1>5. CASE swap \/ killLine \/ killRest
  BY <1>5, SwapKey, KillKeys DEF Promise!Next
<1>6. CASE linenoiseEditHistoryNext("up", 1)
  <2>1. Promise!Show(placeShown - 1) \/ UNCHANGED Promise!vars
    BY <1>6, WalkKeys
  <2> QED BY <2>1 DEF Promise!Next, Promise!Older
<1>7. CASE linenoiseEditHistoryNext("down", -1)
  <2>1. Promise!Show(placeShown - (-1)) \/ UNCHANGED Promise!vars
    BY <1>7, WalkKeys
  <2>2. placeShown \in Int
    BY <1>1, EditMapped
  <2>3. placeShown - (-1) = placeShown + 1
    BY <2>2
  <2> QED BY <2>1, <2>3 DEF Promise!Next, Promise!Newer
<1>8. CASE enter \/ endOfFile \/ interrupt \/ inputEnds
  BY <1>1, <1>8, EndKeys DEF Promise!Next
<1> QED BY <1>2, <1>3, <1>4, <1>5, <1>6, <1>7, <1>8 DEF KeyStroke

\* Every step is one of LineEditor or changes nothing it speaks of.
LEMMA StepKeepsPromise ==
  ASSUME WholeInput, SingleCharacters, Session, [Next]_vars
  PROVE  [Promise!Next]_(Promise!vars)
<1>1. CASE Call
  BY <1>1, CallKeepsPromise
<1>2. CASE KeyStroke
  BY <1>2, KeyKeepsPromise
<1>3. CASE linenoiseAtExit \/ UNCHANGED vars
  <2>1. UNCHANGED <<history, history_max_len, edit, line>> /\ (pc' = "edit" <=> pc = "edit")
    BY <1>3 DEF linenoiseAtExit, vars, store
  <2> QED BY <2>1, SameMapped
<1> QED BY <1>1, <1>2, <1>3 DEF Next

\* The start is one of LineEditor.
LEMMA InitKeepsPromise == Init => Promise!Init
<1> SUFFICES ASSUME Init PROVE Promise!Init
  OBVIOUS
<1>1. history = <<>> /\ history_max_len = DefaultMaxLen /\ buf = <<>> /\ pos = 0 /\ line = <<>> /\ pc = "idle"
  BY DEF Init
<1>2. textsKept = <<>>
  <2>1. DOMAIN <<>> = {}
    OBVIOUS
  <2>2. textsKept = [i \in {} |-> characters(entry(i))]
    BY <1>1, <2>1 DEF textsKept
  <2>3. \A f : f = [i \in DOMAIN f |-> f[i]] /\ DOMAIN f = {} => f = [i \in {} |-> characters(entry(i))]
    OBVIOUS
  <2> QED BY <2>1, <2>2, <2>3
<1>3. placeShown = 0
  BY <1>1 DEF placeShown
<1>4. cursorAt = 0 /\ textDelivered = <<>>
  <2>1. cursorAt = Cursor(<<>>, 0)
    BY <1>1 DEF cursorAt, Cursor
  <2> QED BY <1>1, <2>1, EmptyText, CursorEnds, NoCharacters DEF textDelivered
<1> QED BY <1>1, <1>2, <1>3, <1>4 DEF Promise!Init

\* The line editor keeps what LineEditor promises for every keyboard, buffer
\* and history: as long as what is typed and loaded is whole, the byte
\* arithmetic of every key does to the characters of the line what the key
\* is for, and the copies between the line and the history lose no text.
THEOREM LineEditorKeepsPromise ==
  WholeInput /\ SingleCharacters => (Spec => ImplementsLineEditor)
<1> SUFFICES ASSUME WholeInput, SingleCharacters PROVE Spec => ImplementsLineEditor
  OBVIOUS
<1>1. Session /\ Modes /\ [Next]_vars => [Promise!Next]_(Promise!vars)
  BY StepKeepsPromise
<1> QED BY InitKeepsPromise, <1>1, SessionHolds, PTL DEF Spec, ImplementsLineEditor, Promise!Spec

(***************************************************************************)
(* The lines of a text: SaveHistory() writes entries, and what getline     *)
(* makes of them are these entries again, in pieces if line feeds are in   *)
(* them, whatever follows.                                                 *)
(***************************************************************************)

Begun == [done |-> <<>>, rest |-> <<>>]

\* linesOf's recursion, up to position n.
Reads(text, n, f) ==
  f = [i \in 0 .. n |-> IF i = 0 THEN Begun ELSE readByte(f[i - 1], text[i])]

LEMMA ReadEnds == ASSUME NEW text, NEW N \in Nat PROVE \E f : Reads(text, N, f)
<1> DEFINE S == {n \in 0 .. N : \E f : Reads(text, n, f)}
<1>1. 0 \in S
  <2>1. Reads(text, 0, [i \in 0 .. 0 |-> Begun])
    BY DEF Reads
  <2> QED BY <2>1
<1>2. ASSUME NEW n \in 1 .. N, n - 1 \in S PROVE n \in S
  <2>1. PICK f : Reads(text, n - 1, f)
    BY <1>2
  <2> DEFINE last == readByte(f[n - 1], text[n])
             g == [i \in 0 .. n |-> IF i = n THEN last ELSE f[i]]
  <2>2. g[0] = Begun
    BY <2>1 DEF Reads
  <2>3. ASSUME NEW i \in 1 .. n - 1 PROVE g[i] = readByte(g[i - 1], text[i])
    <3>1. g[i] = f[i] /\ i \in 0 .. n - 1 /\ i # 0 /\ g[i - 1] = f[i - 1]
      BY <2>3
    <3> HIDE DEF g
    <3> QED BY <2>1, <3>1 DEF Reads
  <2>4. g[n] = readByte(g[n - 1], text[n])
    <3>1. g[n - 1] = f[n - 1] /\ g[n] = last
      OBVIOUS
    <3> HIDE DEF g
    <3> QED BY <3>1
  <2>5. g = [i \in 0 .. n |-> g[i]]
    OBVIOUS
  <2> HIDE DEF g
  <2>6. \A i \in 0 .. n : g[i] = IF i = 0 THEN Begun ELSE readByte(g[i - 1], text[i])
    BY <2>2, <2>3, <2>4
  <2>7. Reads(text, n, g)
    BY <2>5, <2>6 DEF Reads
  <2> QED BY <2>7
<1> HIDE DEF S
<1>3. N \in S
  BY <1>1, <1>2, UpTo
<1> QED BY <1>3 DEF S

\* How far a text is read at its end.
Got(text) == (CHOOSE f : Reads(text, Len(text), f))[Len(text)]

LEMMA LinesGot ==
  ASSUME NEW text
  PROVE  linesOf(text) = IF Got(text).rest = <<>> THEN Got(text).done
                         ELSE Append(Got(text).done, Got(text).rest)
BY DEF linesOf, Got, Reads, Begun

LEMMA GotNothing == Got(<<>>) = Begun
<1> DEFINE f == CHOOSE g : Reads(<<>>, 0, g)
<1>1. Reads(<<>>, 0, f)
  BY ReadEnds, Zenon
<1>2. Got(<<>>) = f[0]
  BY DEF Got
<1> HIDE DEF f
<1> QED BY <1>1, <1>2 DEF Reads

\* One byte more.
LEMMA GotByte ==
  ASSUME NEW U, NEW t \in Seq(U), NEW b \in U
  PROVE  Got(Append(t, b)) = readByte(Got(t), b)
<1> DEFINE N == Len(t)
           u == Append(t, b)
           f == CHOOSE g : Reads(t, Len(t), g)
           h == CHOOSE g : Reads(u, Len(u), g)
<1>1. N \in Nat /\ Len(u) = N + 1 /\ u[N + 1] = b /\ \A i \in 1 .. N : u[i] = t[i]
  OBVIOUS
<1>2. Reads(t, Len(t), f) /\ Reads(u, Len(u), h)
  <2>1. Len(t) \in Nat /\ Len(u) \in Nat
    OBVIOUS
  <2> HIDE DEF u
  <2> QED BY <2>1, ReadEnds, Zenon
<1>3. Got(t) = f[N] /\ Got(u) = h[N + 1]
  BY <1>1 DEF Got
<1> HIDE DEF f, h, u, N
<1>4. \A i \in 0 .. N : f[i] = IF i = 0 THEN Begun ELSE readByte(f[i - 1], t[i])
  BY <1>2 DEF Reads, N
<1>5. \A i \in 0 .. N + 1 : h[i] = IF i = 0 THEN Begun ELSE readByte(h[i - 1], u[i])
  BY <1>1, <1>2 DEF Reads
<1> DEFINE S == {n \in 0 .. N : h[n] = f[n]}
<1>6. 0 \in S
  BY <1>1, <1>4, <1>5
<1>7. ASSUME NEW n \in 1 .. N, n - 1 \in S PROVE n \in S
  <2>1. n \in 0 .. N /\ n \in 0 .. N + 1 /\ n # 0 /\ h[n - 1] = f[n - 1] /\ u[n] = t[n]
    BY <1>1, <1>7
  <2> QED BY <1>4, <1>5, <2>1
<1> HIDE DEF S
<1>8. \A n \in 0 .. N : n \in S
  BY <1>1, <1>6, <1>7, UpTo
<1>9. h[N] = f[N]
  BY <1>1, <1>8 DEF S
<1>10. N + 1 \in 0 .. N + 1 /\ N + 1 # 0 /\ (N + 1) - 1 = N
  BY <1>1
<1>11. h[N + 1] = readByte(f[N], b)
  BY <1>1, <1>5, <1>9, <1>10
<1> QED BY <1>3, <1>11 DEF u

\* A beginning of a sequence and one element more.
LEMMA LongerFront ==
  ASSUME NEW U, NEW s \in Seq(U), NEW n \in 1 .. Len(s)
  PROVE  /\ SubSeq(s, 1, n - 1) \in Seq(U) /\ Len(SubSeq(s, 1, n - 1)) = n - 1 /\ s[n] \in U
         /\ SubSeq(s, 1, n) = Append(SubSeq(s, 1, n - 1), s[n])
<1>1. Len(s) \in Nat /\ n \in Nat /\ n - 1 \in 0 .. Len(s) /\ \A i \in 1 .. Len(s) : s[i] \in U
  OBVIOUS
<1> DEFINE a == SubSeq(s, 1, n - 1)
           b == SubSeq(s, 1, n)
<1>2. a \in Seq(U) /\ Len(a) = n - 1 /\ \A i \in 1 .. n - 1 : a[i] = s[i]
  BY <1>1
<1>3. b \in Seq(U) /\ Len(b) = n /\ \A i \in 1 .. n : b[i] = s[i]
  BY <1>1
<1>4. s[n] \in U
  BY <1>1
<1> HIDE DEF a, b
<1>5. Append(a, s[n]) = b
  <2> DEFINE c == s[n]
             u == Append(a, c)
  <2>1. c \in U /\ c = b[n]
    BY <1>1, <1>3, <1>4
  <2> HIDE DEF c
  <2>2. u \in Seq(U) /\ Len(u) = n /\ u[n] = c /\ \A i \in 1 .. n - 1 : u[i] = a[i]
    BY <1>1, <1>2, <2>1
  <2> HIDE DEF u
  <2>3. \A i \in 1 .. n : u[i] = b[i]
    BY <1>1, <1>2, <1>3, <2>1, <2>2
  <2>4. u = b
    BY <1>3, <2>2, <2>3
  <2> QED BY <2>4 DEF u, c
<1> QED BY <1>2, <1>4, <1>5 DEF a, b

LEMMA EmptyFront ==
  ASSUME NEW U, NEW s \in Seq(U)
  PROVE  SubSeq(s, 1, 0) = <<>> /\ SubSeq(s, 1, Len(s)) = s /\ Len(s) \in Nat
OBVIOUS

\* The kinds of what is read.
LEMMA GotType ==
  ASSUME NEW U, NEW t \in Seq(U)
  PROVE  Got(t) \in [done : Seq(Seq(U)), rest : Seq(U)] /\ linesOf(t) \in Seq(Seq(U))
<1> DEFINE R == [done : Seq(Seq(U)), rest : Seq(U)]
           S == {n \in 0 .. Len(t) : Got(SubSeq(t, 1, n)) \in R}
<1>1. 0 \in S
  <2>1. <<>> \in Seq(U) /\ <<>> \in Seq(Seq(U))
    OBVIOUS
  <2>2. Begun \in R
    BY <2>1 DEF Begun
  <2>3. SubSeq(t, 1, 0) = <<>> /\ 0 \in 0 .. Len(t)
    BY EmptyFront
  <2>4. Got(SubSeq(t, 1, 0)) \in R
    BY <2>2, <2>3, GotNothing
  <2> HIDE DEF R
  <2> QED BY <2>3, <2>4
<1>2. ASSUME NEW n \in 1 .. Len(t), n - 1 \in S PROVE n \in S
  <2> DEFINE a == SubSeq(t, 1, n - 1)
             b == t[n]
  <2>0. a \in Seq(U) /\ b \in U /\ SubSeq(t, 1, n) = Append(a, b) /\ n \in 0 .. Len(t)
    BY LongerFront
  <2>2. Got(a) \in R
    BY <1>2
  <2> HIDE DEF a, b
  <2>1. Got(SubSeq(t, 1, n)) = readByte(Got(a), b)
    BY <2>0, GotByte
  <2>3. readByte(Got(a), b) \in R
    BY <2>0, <2>2 DEF readByte
  <2> HIDE DEF R
  <2> QED BY <2>0, <2>1, <2>3
<1> HIDE DEF S
<1>3. Len(t) \in S
  <2> DEFINE N == Len(t)
  <2>1. N \in Nat
    BY EmptyFront
  <2>2. \A n \in 1 .. N : n - 1 \in S => n \in S
    BY <1>2
  <2> HIDE DEF N
  <2>3. \A n \in 0 .. N : n \in S
    BY <1>1, <2>1, <2>2, UpTo
  <2> QED BY <2>1, <2>3 DEF N
<1>4. Got(t) \in R
  BY <1>3, EmptyFront DEF S
<1>5. linesOf(t) \in Seq(Seq(U))
  <2> DEFINE g == Got(t)
  <2>1. linesOf(t) = IF g.rest = <<>> THEN g.done ELSE Append(g.done, g.rest)
    BY LinesGot
  <2>2. g.done \in Seq(Seq(U)) /\ g.rest \in Seq(U)
    BY <1>4
  <2> HIDE DEF g
  <2> QED BY <2>1, <2>2
<1> QED BY <1>4, <1>5

\* Between two texts of which the first ends with a line.
LEMMA GotBoth ==
  ASSUME NEW U, NEW a \in Seq(U), NEW b \in Seq(U), Got(a).rest = <<>>
  PROVE  Got(a \o b) = [done |-> Got(a).done \o Got(b).done, rest |-> Got(b).rest]
<1> DEFINE Both(c) == [done |-> Got(a).done \o Got(c).done, rest |-> Got(c).rest]
           S == {n \in 0 .. Len(b) : Got(a \o SubSeq(b, 1, n)) = Both(SubSeq(b, 1, n))}
           R == [done : Seq(Seq(U)), rest : Seq(U)]
<1>1. 0 \in S
  <2>1. SubSeq(b, 1, 0) = <<>> /\ a \o <<>> = a /\ Got(<<>>) = Begun
    BY EmptyFront, EmptyPiece, GotNothing
  <2>2. Got(a) \in R
    BY GotType
  <2>3. Got(a).done \o <<>> = Got(a).done
    BY <2>2
  <2>4. Both(<<>>) = Got(a)
    BY <2>1, <2>2, <2>3 DEF Begun
  <2> HIDE DEF Both
  <2>5. 0 \in 0 .. Len(b) /\ Got(a \o SubSeq(b, 1, 0)) = Both(SubSeq(b, 1, 0))
    <3>1. 0 \in 0 .. Len(b)
      BY EmptyFront
    <3> QED BY <2>1, <2>4, <3>1
  <2> QED BY <2>5
<1>2. ASSUME NEW n \in 1 .. Len(b), n - 1 \in S PROVE n \in S
  <2> DEFINE c == SubSeq(b, 1, n - 1)
             x == b[n]
  <2>1. SubSeq(b, 1, n) = Append(c, x) /\ c \in Seq(U) /\ x \in U
    BY LongerFront
  <2>2. Got(a \o c) = Both(c)
    BY <1>2
  <2> HIDE DEF c, x
  <2>3. a \o Append(c, x) = Append(a \o c, x) /\ a \o c \in Seq(U)
    BY <2>1
  <2>4. Got(a \o Append(c, x)) = readByte(Both(c), x) /\ Got(Append(c, x)) = readByte(Got(c), x)
    BY <2>1, <2>2, <2>3, GotByte
  <2>5. Got(a) \in R /\ Got(c) \in R
    BY <2>1, GotType
  <2> DEFINE d == Got(a).done
             e == Got(c).done
             r == Got(c).rest
  <2>6. d \in Seq(Seq(U)) /\ e \in Seq(Seq(U)) /\ r \in Seq(U)
    BY <2>5
  <2>7. readByte(Both(c), x) = Both(Append(c, x))
    <3>1. CASE x = "lf"
      <4>1. readByte(Both(c), x) = [done |-> Append(d \o e, r), rest |-> <<>>]
        BY <3>1 DEF readByte
      <4>2. Both(Append(c, x)) = [done |-> d \o Append(e, r), rest |-> <<>>]
        BY <2>4, <3>1 DEF readByte
      <4> HIDE DEF d, e, r, Both
      <4>3. Append(d \o e, r) = d \o Append(e, r)
        OBVIOUS
      <4> QED BY <4>1, <4>2, <4>3
    <3>2. CASE x # "lf"
      BY <2>4, <3>2 DEF readByte
    <3> QED BY <3>1, <3>2
  <2> HIDE DEF Both
  <2>8. Got(a \o SubSeq(b, 1, n)) = Both(SubSeq(b, 1, n))
    BY <2>1, <2>4, <2>7
  <2> QED BY <2>8
<1> HIDE DEF S
<1>3. Len(b) \in S
  <2> DEFINE N == Len(b)
  <2>1. N \in Nat
    BY EmptyFront
  <2>2. \A n \in 1 .. N : n - 1 \in S => n \in S
    BY <1>2
  <2> HIDE DEF N
  <2>3. \A n \in 0 .. N : n \in S
    BY <1>1, <2>1, <2>2, UpTo
  <2> QED BY <2>1, <2>3 DEF N
<1> QED BY <1>3, EmptyFront DEF S

LEMMA LinesOfBoth ==
  ASSUME NEW U, NEW a \in Seq(U), NEW b \in Seq(U), Got(a).rest = <<>>
  PROVE  linesOf(a \o b) = Got(a).done \o linesOf(b)
<1> DEFINE d == Got(a).done
           e == Got(b).done
           r == Got(b).rest
<1>1. Got(a \o b) = [done |-> d \o e, rest |-> r]
  BY GotBoth
<1>2. d \in Seq(Seq(U)) /\ e \in Seq(Seq(U)) /\ r \in Seq(U)
  BY GotType
<1>3. linesOf(a \o b) = IF r = <<>> THEN d \o e ELSE Append(d \o e, r)
  <2> DEFINE g == Got(a \o b)
  <2> HIDE DEF d, e, r
  <2>1. g.done = d \o e /\ g.rest = r
    BY <1>1
  <2>2. linesOf(a \o b) = IF g.rest = <<>> THEN g.done ELSE Append(g.done, g.rest)
    BY LinesGot
  <2> HIDE DEF g, d, e, r
  <2> QED BY <2>1, <2>2
<1>4. linesOf(b) = IF r = <<>> THEN e ELSE Append(e, r)
  BY LinesGot
<1> HIDE DEF d, e, r
<1>5. Append(d \o e, r) = d \o Append(e, r)
  OBVIOUS
<1> QED BY <1>3, <1>4, <1>5 DEF d

\* A line that has ended.
LEMMA GotLine ==
  ASSUME NEW e \in Seq(Byte)
  PROVE  /\ Append(e, "lf") \in Seq(Byte)
         /\ Got(Append(e, "lf")) = [done |-> pieces(e), rest |-> <<>>]
<1>1. "lf" \in Byte
  BY DEF Byte, OneByte
<1>2. Append(e, "lf") \in Seq(Byte)
  BY <1>1
<1>3. Got(Append(e, "lf")) = [done |-> Append(Got(e).done, Got(e).rest), rest |-> <<>>]
  BY <1>1, GotByte DEF readByte
<1>4. CASE Contains(e, "lf")
  BY <1>2, <1>3, <1>4, LinesGot DEF pieces
<1>5. CASE ~Contains(e, "lf")
  <2> DEFINE S == {n \in 0 .. Len(e) : Got(SubSeq(e, 1, n)) = [done |-> <<>>, rest |-> SubSeq(e, 1, n)]}
  <2>1. 0 \in S
    <3>1. SubSeq(e, 1, 0) = <<>> /\ 0 \in 0 .. Len(e)
      BY EmptyFront
    <3>2. Got(<<>>) = [done |-> <<>>, rest |-> <<>>]
      BY GotNothing DEF Begun
    <3> QED BY <3>1, <3>2
  <2>2. ASSUME NEW n \in 1 .. Len(e), n - 1 \in S PROVE n \in S
    <3>1. e[n] # "lf"
      BY <1>5 DEF Contains
    <3> DEFINE a == SubSeq(e, 1, n - 1)
               b == e[n]
    <3>3. SubSeq(e, 1, n) = Append(a, b) /\ a \in Seq(Byte) /\ b \in Byte
      BY LongerFront
    <3>4. Got(a) = [done |-> <<>>, rest |-> a]
      BY <2>2
    <3> HIDE DEF a
    <3>2. Got(Append(a, b)) = readByte(Got(a), b)
      BY <3>3, GotByte
    <3>5. readByte(Got(a), b) = [done |-> <<>>, rest |-> Append(a, b)]
      BY <3>1, <3>4 DEF readByte
    <3> HIDE DEF b
    <3>6. Got(SubSeq(e, 1, n)) = [done |-> <<>>, rest |-> SubSeq(e, 1, n)]
      BY <3>2, <3>3, <3>5
    <3> QED BY <3>6
  <2> HIDE DEF S
  <2>3. Len(e) \in S
    <3>1. Len(e) \in Nat
      OBVIOUS
    <3> QED BY <2>1, <2>2, <3>1, UpTo
  <2>4. Got(e) = [done |-> <<>>, rest |-> e]
    BY <2>3, EmptyFront DEF S
  <2> QED BY <1>2, <1>3, <1>5, <2>4 DEF pieces
<1> QED BY <1>4, <1>5

LEMMA Wider ==
  ASSUME NEW U, NEW V, U \subseteq V, NEW s \in Seq(U)
  PROVE  s \in Seq(V)
OBVIOUS

\* FlattenSeq's recursion, up to position n.
Flattens(ss, n, f) ==
  f = [i \in 1 .. n |-> IF i = 1 THEN ss[i] ELSE f[i - 1] \o ss[i]]

LEMMA FlattenEnds == ASSUME NEW ss, NEW N \in Nat PROVE \E f : Flattens(ss, N, f)
<1> DEFINE S == {n \in 0 .. N : \E f : Flattens(ss, n, f)}
<1>1. 0 \in S
  <2>1. Flattens(ss, 0, [i \in 1 .. 0 |-> <<>>])
    BY DEF Flattens
  <2> QED BY <2>1
<1>2. ASSUME NEW n \in 1 .. N, n - 1 \in S PROVE n \in S
  <2>1. PICK f : Flattens(ss, n - 1, f)
    BY <1>2
  <2> DEFINE last == IF n = 1 THEN ss[n] ELSE f[n - 1] \o ss[n]
             g == [i \in 1 .. n |-> IF i = n THEN last ELSE f[i]]
  <2>2. ASSUME NEW i \in 1 .. n - 1
        PROVE  g[i] = IF i = 1 THEN ss[i] ELSE g[i - 1] \o ss[i]
    <3>1. g[i] = f[i] /\ i \in 1 .. n - 1 /\ (i # 1 => g[i - 1] = f[i - 1])
      BY <2>2
    <3> HIDE DEF g
    <3> QED BY <2>1, <3>1 DEF Flattens
  <2>3. g[n] = IF n = 1 THEN ss[n] ELSE g[n - 1] \o ss[n]
    <3>1. (n # 1 => g[n - 1] = f[n - 1]) /\ g[n] = last
      OBVIOUS
    <3> HIDE DEF g
    <3> QED BY <3>1
  <2>4. g = [i \in 1 .. n |-> g[i]]
    OBVIOUS
  <2> HIDE DEF g
  <2>5. \A i \in 1 .. n : g[i] = IF i = 1 THEN ss[i] ELSE g[i - 1] \o ss[i]
    BY <2>2, <2>3
  <2>6. Flattens(ss, n, g)
    BY <2>4, <2>5 DEF Flattens
  <2> QED BY <2>6
<1> HIDE DEF S
<1>3. N \in S
  BY <1>1, <1>2, UpTo
<1> QED BY <1>3 DEF S

Flattened(ss) == (CHOOSE f : Flattens(ss, Len(ss), f))[Len(ss)]

LEMMA FlattenIs == ASSUME NEW ss PROVE FlattenSeq(ss) = IF Len(ss) = 0 THEN ss ELSE Flattened(ss)
BY DEF FlattenSeq, Flattened, Flattens

\* All elements of the sequences in one, for one sequence more.
LEMMA FlattenMore ==
  ASSUME NEW U, NEW ss \in Seq(Seq(U)), NEW s \in Seq(U)
  PROVE  FlattenSeq(Append(ss, s)) = FlattenSeq(ss) \o s
<1> DEFINE N == Len(ss)
           t == Append(ss, s)
           f == CHOOSE g : Flattens(ss, Len(ss), g)
           h == CHOOSE g : Flattens(t, Len(t), g)
<1>1. N \in Nat /\ Len(t) = N + 1 /\ t[N + 1] = s /\ \A i \in 1 .. N : t[i] = ss[i]
  OBVIOUS
<1>2. Flattens(ss, Len(ss), f) /\ Flattens(t, Len(t), h)
  <2>1. Len(ss) \in Nat /\ Len(t) \in Nat
    BY <1>1
  <2> HIDE DEF t
  <2> QED BY <2>1, FlattenEnds, Zenon
<1>3. Flattened(ss) = f[N] /\ Flattened(t) = h[N + 1]
  BY <1>1 DEF Flattened
<1>4. FlattenSeq(t) = Flattened(t)
  <2>1. Len(t) # 0
    BY <1>1
  <2> HIDE DEF t
  <2> QED BY <2>1, FlattenIs
<1> HIDE DEF f, h, t, N
<1>5. \A i \in 1 .. N : f[i] = IF i = 1 THEN ss[i] ELSE f[i - 1] \o ss[i]
  BY <1>2 DEF Flattens, N
<1>6. \A i \in 1 .. N + 1 : h[i] = IF i = 1 THEN t[i] ELSE h[i - 1] \o t[i]
  BY <1>1, <1>2 DEF Flattens
<1>7. CASE N = 0
  <2>1. ss = <<>> /\ FlattenSeq(ss) = <<>>
    <3>1. ss = <<>>
      BY <1>7 DEF N
    <3> QED BY <3>1, FlattenIs
  <2>2. h[1] = s
    BY <1>1, <1>6, <1>7
  <2>3. <<>> \o s = s
    BY EmptyPiece
  <2> QED BY <1>3, <1>4, <1>7, <2>1, <2>2, <2>3 DEF t
<1>8. CASE N # 0
  <2> DEFINE S == {n \in 0 .. N : n # 0 => h[n] = f[n]}
  <2>1. 0 \in S
    BY <1>1
  <2>2. ASSUME NEW n \in 1 .. N, n - 1 \in S PROVE n \in S
    <3>1. n \in 0 .. N /\ n \in 1 .. N + 1 /\ t[n] = ss[n] /\ (n # 1 => h[n - 1] = f[n - 1])
      BY <1>1, <2>2
    <3> QED BY <1>5, <1>6, <3>1
  <2> HIDE DEF S
  <2>3. \A n \in 0 .. N : n \in S
    BY <1>1, <2>1, <2>2, UpTo
  <2>4. h[N] = f[N]
    BY <1>1, <1>8, <2>3 DEF S
  <2>5. N + 1 \in 1 .. N + 1 /\ N + 1 # 1 /\ (N + 1) - 1 = N
    BY <1>1, <1>8
  <2>6. h[N + 1] = f[N] \o s
    BY <1>1, <1>6, <2>4, <2>5
  <2>7. FlattenSeq(ss) = f[N]
    BY <1>3, <1>8, FlattenIs DEF N
  <2> QED BY <1>3, <1>4, <2>6, <2>7 DEF t
<1> QED BY <1>7, <1>8

LEMMA FlattenType ==
  ASSUME NEW U, NEW ss \in Seq(Seq(U))
  PROVE  FlattenSeq(ss) \in Seq(U)
<1> DEFINE S == {n \in 0 .. Len(ss) : FlattenSeq(SubSeq(ss, 1, n)) \in Seq(U)}
<1>0. FlattenSeq(<<>>) = <<>> /\ <<>> \in Seq(U) /\ Len(ss) \in Nat
  <2>1. Len(<<>>) = 0 /\ <<>> \in Seq(U) /\ Len(ss) \in Nat
    OBVIOUS
  <2> QED BY <2>1, FlattenIs
<1>1. 0 \in S
  <2>1. SubSeq(ss, 1, 0) = <<>>
    OBVIOUS
  <2>2. FlattenSeq(SubSeq(ss, 1, 0)) \in Seq(U)
    BY <1>0, <2>1, Zenon
  <2>3. 0 \in 0 .. Len(ss)
    BY <1>0
  <2> QED BY <2>2, <2>3
<1>2. ASSUME NEW n \in 1 .. Len(ss), n - 1 \in S PROVE n \in S
  <2> DEFINE a == SubSeq(ss, 1, n - 1)
             b == ss[n]
  <2>1. SubSeq(ss, 1, n) = Append(a, b) /\ a \in Seq(Seq(U)) /\ b \in Seq(U)
    BY LongerFront
  <2>2. FlattenSeq(a) \in Seq(U)
    BY <1>2
  <2> HIDE DEF a, b
  <2>3. FlattenSeq(Append(a, b)) = FlattenSeq(a) \o b
    BY <2>1, FlattenMore
  <2> DEFINE c == FlattenSeq(a)
  <2>4. c \o b \in Seq(U)
    <3> HIDE DEF c
    <3>1. c \in Seq(U)
      BY <2>2 DEF c
    <3> QED BY <2>1, <3>1
  <2>5. FlattenSeq(SubSeq(ss, 1, n)) \in Seq(U)
    BY <2>1, <2>3, <2>4, Zenon
  <2> QED BY <2>5
<1> HIDE DEF S
<1>3. Len(ss) \in S
  <2> DEFINE N == Len(ss)
  <2>1. N \in Nat /\ N \in 0 .. N
    OBVIOUS
  <2>2. \A n \in 1 .. N : n - 1 \in S => n \in S
    BY <1>2
  <2> HIDE DEF N
  <2>3. \A n \in 0 .. N : n \in S
    BY <1>1, <2>1, <2>2, UpTo, Zenon
  <2> QED BY <2>1, <2>3 DEF N
<1>4. SubSeq(ss, 1, Len(ss)) = ss
  OBVIOUS
<1> QED BY <1>3, <1>4 DEF S

\* What is written of a history with one entry more, and what comes back.
LEMMA OneEntryMore ==
  ASSUME NEW h \in Seq(Seq(Byte)), NEW e \in Seq(Byte)
  PROVE  /\ saved(h) \in Seq(Byte) /\ comesBack(h) \in Seq(Seq(Byte))
         /\ saved(Append(h, e)) = saved(h) \o Append(e, "lf")
         /\ comesBack(Append(h, e)) = comesBack(h) \o pieces(e)
<1> DEFINE outs(g) == [i \in DOMAIN g |-> Append(g[i], "lf")]
           backs(g) == [i \in DOMAIN g |-> pieces(g[i])]
           he == Append(h, e)
<1>1. /\ Len(h) \in Nat /\ DOMAIN h = 1 .. Len(h) /\ \A i \in 1 .. Len(h) : h[i] \in Seq(Byte)
      /\ DOMAIN he = 1 .. Len(h) + 1 /\ he[Len(h) + 1] = e /\ \A i \in 1 .. Len(h) : he[i] = h[i]
  OBVIOUS
<1>2. \A s \in Seq(Byte) : Append(s, "lf") \in Seq(Byte) /\ pieces(s) \in Seq(Seq(Byte))
  <2> SUFFICES ASSUME NEW s \in Seq(Byte)
               PROVE  Append(s, "lf") \in Seq(Byte) /\ pieces(s) \in Seq(Seq(Byte))
    OBVIOUS
  <2>1. Append(s, "lf") \in Seq(Byte)
    BY GotLine
  <2>2. <<s>> \in Seq(Seq(Byte))
    OBVIOUS
  <2>3. linesOf(Append(s, "lf")) \in Seq(Seq(Byte))
    BY <2>1, GotType
  <2> QED BY <2>1, <2>2, <2>3 DEF pieces
<1> HIDE DEF he
<1>3. outs(h) \in Seq(Seq(Byte)) /\ backs(h) \in Seq(Seq(Seq(Byte)))
  BY <1>1, <1>2
<1>4. outs(he) = Append(outs(h), Append(e, "lf")) /\ backs(he) = Append(backs(h), pieces(e))
  <2>1. Len(outs(h)) = Len(h) /\ Len(backs(h)) = Len(h)
    BY <1>1
  <2> DEFINE a == Append(outs(h), Append(e, "lf"))
             b == Append(backs(h), pieces(e))
  <2>2. a \in Seq(Seq(Byte)) /\ Len(a) = Len(h) + 1 /\ a[Len(h) + 1] = Append(e, "lf")
        /\ \A i \in 1 .. Len(h) : a[i] = Append(h[i], "lf")
    BY <1>1, <1>2, <1>3, <2>1
  <2>3. b \in Seq(Seq(Seq(Byte))) /\ Len(b) = Len(h) + 1 /\ b[Len(h) + 1] = pieces(e)
        /\ \A i \in 1 .. Len(h) : b[i] = pieces(h[i])
    BY <1>1, <1>2, <1>3, <2>1
  <2> HIDE DEF a, b
  <2>4. outs(he) = a
    <3>1. \A i \in 1 .. Len(h) + 1 : Append(he[i], "lf") = a[i]
      <4> SUFFICES ASSUME NEW i \in 1 .. Len(h) + 1 PROVE Append(he[i], "lf") = a[i]
        OBVIOUS
      <4>1. i = Len(h) + 1 \/ i \in 1 .. Len(h)
        BY <1>1
      <4> QED BY <1>1, <2>2, <4>1, Zenon
    <3>2. a = [i \in 1 .. Len(h) + 1 |-> a[i]]
      BY <2>2
    <3> QED BY <1>1, <3>1, <3>2
  <2>5. backs(he) = b
    <3>1. \A i \in 1 .. Len(h) + 1 : pieces(he[i]) = b[i]
      <4> SUFFICES ASSUME NEW i \in 1 .. Len(h) + 1 PROVE pieces(he[i]) = b[i]
        OBVIOUS
      <4>1. i = Len(h) + 1 \/ i \in 1 .. Len(h)
        BY <1>1
      <4> QED BY <1>1, <2>3, <4>1, Zenon
    <3>2. b = [i \in 1 .. Len(h) + 1 |-> b[i]]
      BY <2>3
    <3> QED BY <1>1, <3>1, <3>2
  <2> QED BY <2>4, <2>5 DEF a, b
<1>5. /\ saved(h) = FlattenSeq(outs(h)) /\ comesBack(h) = FlattenSeq(backs(h))
      /\ saved(he) = FlattenSeq(outs(he)) /\ comesBack(he) = FlattenSeq(backs(he))
  BY DEF saved, comesBack
<1> HIDE DEF outs, backs
<1>6. /\ FlattenSeq(Append(outs(h), Append(e, "lf"))) = FlattenSeq(outs(h)) \o Append(e, "lf")
      /\ FlattenSeq(outs(h)) \in Seq(Byte)
  BY <1>2, <1>3, FlattenMore, FlattenType
<1>7. /\ FlattenSeq(Append(backs(h), pieces(e))) = FlattenSeq(backs(h)) \o pieces(e)
      /\ FlattenSeq(backs(h)) \in Seq(Seq(Byte))
  BY <1>2, <1>3, FlattenMore, FlattenType
<1> QED BY <1>4, <1>5, <1>6, <1>7 DEF he

LEMMA NothingSaved == saved(<<>>) = <<>> /\ comesBack(<<>>) = <<>>
<1>1. /\ [i \in DOMAIN <<>> |-> Append(<<>>[i], "lf")] = <<>> /\ [i \in DOMAIN <<>> |-> pieces(<<>>[i])] = <<>>
      /\ Len(<<>>) = 0
  OBVIOUS
<1> QED BY <1>1, FlattenIs DEF saved, comesBack

\* What getline makes of saved entries.
LEMMA SavedComesBack ==
  ASSUME NEW h \in Seq(Seq(Byte))
  PROVE  /\ saved(h) \in Seq(Byte) /\ Got(saved(h)) = [done |-> comesBack(h), rest |-> <<>>]
         /\ (\A i \in 1 .. Len(h) : ~Contains(h[i], "lf")) => comesBack(h) = h
<1> DEFINE Good(g) == /\ saved(g) \in Seq(Byte)
                      /\ Got(saved(g)) = [done |-> comesBack(g), rest |-> <<>>]
           Plain == \A i \in 1 .. Len(h) : ~Contains(h[i], "lf")
           Same(g) == Plain => comesBack(g) = g
           S == {n \in 0 .. Len(h) : Good(SubSeq(h, 1, n)) /\ Same(SubSeq(h, 1, n))}
           N == Len(h)
<1>0. N \in Nat /\ N \in 0 .. N /\ 0 \in 0 .. N /\ SubSeq(h, 1, 0) = <<>> /\ SubSeq(h, 1, N) = h
  OBVIOUS
<1>1. 0 \in S
  <2>1. <<>> \in Seq(Byte)
    OBVIOUS
  <2>2. Good(<<>>) /\ Same(<<>>)
    BY <2>1, NothingSaved, GotNothing DEF Begun
  <2> HIDE DEF Good, Same
  <2> QED BY <1>0, <2>2
<1>2. ASSUME NEW n \in 1 .. N, n - 1 \in S PROVE n \in S
  <2> DEFINE a == SubSeq(h, 1, n - 1)
             e == h[n]
             out == Append(e, "lf")
  <2>1. SubSeq(h, 1, n) = Append(a, e) /\ a \in Seq(Seq(Byte)) /\ e \in Seq(Byte)
    BY LongerFront
  <2>2. Good(a) /\ Same(a)
    BY <1>2
  <2>3. Plain => ~Contains(e, "lf")
    OBVIOUS
  <2> HIDE DEF a, e, Plain
  <2>4. saved(Append(a, e)) = saved(a) \o out /\ comesBack(Append(a, e)) = comesBack(a) \o pieces(e)
    BY <2>1, OneEntryMore
  <2>5. out \in Seq(Byte) /\ Got(out) = [done |-> pieces(e), rest |-> <<>>]
    BY <2>1, GotLine
  <2>6. Got(saved(a) \o out) = [done |-> Got(saved(a)).done \o Got(out).done, rest |-> Got(out).rest]
    <3> DEFINE x == saved(a)
    <3>1. x \in Seq(Byte) /\ Got(x).rest = <<>>
      BY <2>2
    <3>2. out \in Seq(Byte)
      BY <2>5
    <3> HIDE DEF x, out, Good, Same
    <3>3. Got(x \o out) = [done |-> Got(x).done \o Got(out).done, rest |-> Got(out).rest]
      BY <3>1, <3>2, GotBoth, Zenon
    <3> QED BY <3>3 DEF x
  <2>7. Good(Append(a, e))
    <3>1. saved(a) \o out \in Seq(Byte)
      <4> HIDE DEF out
      <4> QED BY <2>2, <2>5
    <3> QED BY <2>2, <2>4, <2>5, <2>6, <3>1
  <2>8. Same(Append(a, e))
    <3> SUFFICES ASSUME Plain PROVE comesBack(Append(a, e)) = Append(a, e)
      OBVIOUS
    <3>1. pieces(e) = <<e>> /\ comesBack(a) = a
      BY <2>2, <2>3 DEF pieces
    <3>2. a \o <<e>> = Append(a, e)
      BY <2>1
    <3> QED BY <2>4, <3>1, <3>2
  <2> HIDE DEF Good, Same
  <2>9. Good(SubSeq(h, 1, n)) /\ Same(SubSeq(h, 1, n))
    BY <2>1, <2>7, <2>8
  <2> QED BY <2>9
<1> HIDE DEF S, Good, Same, N, Plain
<1>3. \A n \in 0 .. N : n \in S
  BY <1>0, <1>1, <1>2, UpTo, Zenon
<1>4. Good(h) /\ Same(h)
  <2>1. N \in S
    BY <1>0, <1>3
  <2>2. Good(SubSeq(h, 1, N)) /\ Same(SubSeq(h, 1, N))
    BY <2>1 DEF S
  <2> QED BY <1>0, <2>2
<1> QED BY <1>4 DEF Good, Same, Plain

\* The lines of a file that begins with saved entries.
LEMMA FileComesBack ==
  ASSUME NEW h \in Seq(Seq(Byte)), NEW torn \in Seq(Byte)
  PROVE  linesOf(saved(h) \o torn) = comesBack(h) \o linesOf(torn)
<1>1. saved(h) \in Seq(Byte) /\ Got(saved(h)) = [done |-> comesBack(h), rest |-> <<>>]
  BY SavedComesBack
<1>2. Got(saved(h)).rest = <<>> /\ Got(saved(h)).done = comesBack(h)
  BY <1>1
<1>3. linesOf(saved(h) \o torn) = Got(saved(h)).done \o linesOf(torn)
  BY <1>1, <1>2, LinesOfBoth
<1> QED BY <1>2, <1>3

\* A text is what one would save of its lines, but for the end of the last.
LEMMA LinesSaved ==
  ASSUME NEW t \in Seq(Byte)
  PROVE  t = saved(Got(t).done) \o Got(t).rest
<1> DEFINE Said(u) == u = saved(Got(u).done) \o Got(u).rest
           S == {n \in 0 .. Len(t) : Said(SubSeq(t, 1, n))}
           N == Len(t)
<1>0. N \in Nat /\ N \in 0 .. N /\ 0 \in 0 .. N /\ SubSeq(t, 1, 0) = <<>> /\ SubSeq(t, 1, N) = t
  OBVIOUS
<1>1. 0 \in S
  <2>1. <<>> \o <<>> = <<>>
    OBVIOUS
  <2>3. Got(<<>>).done = <<>> /\ Got(<<>>).rest = <<>>
    BY GotNothing DEF Begun
  <2>4. saved(Got(<<>>).done) = <<>>
    BY <2>3, NothingSaved
  <2>2. Said(<<>>)
    BY <2>1, <2>3, <2>4
  <2> HIDE DEF Said
  <2> QED BY <1>0, <2>2
<1>2. ASSUME NEW n \in 1 .. N, n - 1 \in S PROVE n \in S
  <2> DEFINE a == SubSeq(t, 1, n - 1)
             b == t[n]
             d == Got(a).done
             r == Got(a).rest
  <2>1. SubSeq(t, 1, n) = Append(a, b) /\ a \in Seq(Byte) /\ b \in Byte
    BY LongerFront
  <2>2. a = saved(d) \o r
    BY <1>2
  <2>3. Got(a) \in [done : Seq(Seq(Byte)), rest : Seq(Byte)]
    BY <2>1, GotType
  <2>4. d \in Seq(Seq(Byte)) /\ r \in Seq(Byte)
    BY <2>3
  <2> HIDE DEF a, b
  <2>5. Got(Append(a, b)) = readByte(Got(a), b)
    BY <2>1, GotByte
  <2>6. Said(Append(a, b))
    <3>1. CASE b = "lf"
      <4>1. Got(Append(a, b)).done = Append(d, r) /\ Got(Append(a, b)).rest = <<>>
        BY <2>5, <3>1 DEF readByte
      <4> HIDE DEF d, r
      <4>2. saved(Append(d, r)) = saved(d) \o Append(r, "lf") /\ saved(d) \in Seq(Byte)
        BY <2>4, OneEntryMore
      <4> DEFINE s == saved(d)
      <4>3. s \o Append(r, b) = Append(s \o r, b)
        <5> HIDE DEF s
        <5> QED OBVIOUS
      <4>4. s \o Append(r, b) \in Seq(Byte)
        <5>1. s \in Seq(Byte)
          BY <4>2
        <5> HIDE DEF s
        <5> QED BY <2>1, <2>4, <5>1
      <4> HIDE DEF s
      <4>5. (s \o Append(r, b)) \o <<>> = s \o Append(r, b)
        BY <4>4, EmptyPiece
      <4>6. saved(Append(d, r)) = s \o Append(r, b)
        BY <3>1, <4>2 DEF s
      <4>7. a = s \o r
        BY <2>2 DEF s
      <4> QED BY <4>1, <4>3, <4>5, <4>6, <4>7
    <3>2. CASE b # "lf"
      <4>1. Got(Append(a, b)).done = d /\ Got(Append(a, b)).rest = Append(r, b)
        BY <2>5, <3>2 DEF readByte
      <4> DEFINE s == saved(d)
      <4> HIDE DEF d, r, s
      <4>2. s \o Append(r, b) = Append(s \o r, b)
        OBVIOUS
      <4>3. a = s \o r
        BY <2>2 DEF s
      <4> QED BY <4>1, <4>2, <4>3 DEF s
    <3> QED BY <3>1, <3>2
  <2> HIDE DEF Said
  <2>7. Said(SubSeq(t, 1, n))
    BY <2>1, <2>6
  <2> QED BY <2>7
<1> HIDE DEF S, Said, N
<1>3. \A n \in 0 .. N : n \in S
  BY <1>0, <1>1, <1>2, UpTo, Zenon
<1>4. Said(t)
  <2>1. N \in S
    BY <1>0, <1>3
  <2>2. Said(SubSeq(t, 1, N))
    BY <2>1 DEF S
  <2> QED BY <1>0, <2>2
<1> QED BY <1>4 DEF Said

\* The pieces of a whole text are whole.
LEMMA PiecesWhole ==
  ASSUME NEW k, NEW e \in Texts(k)
  PROVE  pieces(e) \in Seq(Texts(k))
<1> DEFINE T == Texts(k)
           N == Len(e)
           Good(n) == \E m \in 0 .. n :
                        /\ Boundary(e, m)
                        /\ Got(SubSeq(e, 1, n)).rest = SubSeq(e, m + 1, n)
                        /\ Got(SubSeq(e, 1, n)).done \in Seq(T)
           S == {n \in 0 .. N : Good(n)}
<1>0. /\ e \in Seq(Byte) /\ N \in Nat /\ N \in 0 .. N /\ 0 \in 0 .. N /\ DOMAIN e = 1 .. N /\ Whole(e)
      /\ SubSeq(e, 1, 0) = <<>> /\ SubSeq(e, 1, N) = e
  BY TextFacts
<1>1. 0 \in S
  <2>1. Got(<<>>).rest = <<>> /\ Got(<<>>).done = <<>>
    BY GotNothing DEF Begun
  <2>2. <<>> \in Seq(T) /\ 0 + 1 = 1
    OBVIOUS
  <2>3. Boundary(e, 0)
    BY EndsOfText
  <2>4. Got(SubSeq(e, 1, 0)).rest = SubSeq(e, 0 + 1, 0) /\ Got(SubSeq(e, 1, 0)).done \in Seq(T)
    BY <1>0, <2>1, <2>2
  <2>5. 0 \in 0 .. 0
    OBVIOUS
  <2>6. Good(0)
    BY <2>3, <2>4, <2>5
  <2> HIDE DEF Good
  <2> QED BY <1>0, <2>6
<1>2. ASSUME NEW n \in 1 .. N, n - 1 \in S PROVE n \in S
  <2> DEFINE a == SubSeq(e, 1, n - 1)
             b == e[n]
  <2>1. SubSeq(e, 1, n) = Append(a, b) /\ a \in Seq(Byte) /\ b \in Byte /\ Len(a) = n - 1
    BY <1>0, LongerFront
  <2>2. PICK m \in 0 .. n - 1 : Boundary(e, m) /\ Got(a).rest = SubSeq(e, m + 1, n - 1) /\ Got(a).done \in Seq(T)
    BY <1>2
  <2>3. Got(SubSeq(e, 1, n)) = readByte(Got(a), b)
    BY <2>1, GotByte
  <2>4. n \in Nat /\ n - 1 \in Nat /\ m \in Nat /\ m <= n - 1 /\ n - 1 < N /\ (n - 1) + 1 = n /\ n <= N
    BY <1>0
  <2>5. CASE b = "lf"
    <3>1. Boundary(e, n - 1)
      BY <1>0, <2>4, <2>5 DEF Boundary, Continuation
    <3>2. Boundary(e, n)
      <4>1. n < N => e[n + 1] \notin Continuation
        <5> SUFFICES ASSUME n < N, e[n + 1] \in Continuation PROVE FALSE
          OBVIOUS
        <5>1. n + 1 \in DOMAIN e /\ (n + 1) - 1 = n
          BY <1>0, <2>4
        <5>2. e[n] \in Lead
          BY <1>0, <5>1 DEF Whole
        <5> QED BY <2>5, <5>2 DEF Lead
      <4> QED BY <1>0, <2>4, <4>1 DEF Boundary
    <3>3. a \in T
      BY <3>1, FrontOfText
    <3>4. Boundary(a, m)
      <4>1. \A i \in 1 .. n - 1 : a[i] = e[i]
        BY <1>0, <2>4
      <4> HIDE DEF a
      <4> QED BY <2>1, <2>2, <2>4, <4>1 DEF Boundary
    <3>5. SubSeq(a, m + 1, Len(a)) \in T
      <4> HIDE DEF a
      <4> QED BY <3>3, <3>4, RestOfText
    <3>6. SubSeq(a, m + 1, n - 1) = SubSeq(e, m + 1, n - 1)
      BY <1>0, <2>4
    <3>7. SubSeq(e, m + 1, n - 1) \in T
      BY <2>1, <3>5, <3>6
    <3> HIDE DEF a
    <3>8. Got(SubSeq(e, 1, n)).rest = <<>> /\ Got(SubSeq(e, 1, n)).done = Append(Got(a).done, Got(a).rest)
      BY <2>3, <2>5 DEF readByte
    <3>9. Got(SubSeq(e, 1, n)).done \in Seq(T)
      <4> DEFINE d == Got(a).done
                 r == Got(a).rest
      <4>1. d \in Seq(T) /\ r \in T
        BY <2>2, <3>7
      <4> HIDE DEF d, r, T
      <4>2. Append(d, r) \in Seq(T)
        BY <4>1
      <4> QED BY <3>8, <4>2 DEF d, r
    <3>10. SubSeq(e, n + 1, n) = <<>> /\ n \in 0 .. n
      BY <1>0, <2>4
    <3>11. Good(n)
      BY <3>2, <3>8, <3>9, <3>10
    <3> HIDE DEF Good
    <3> QED BY <2>4, <3>11
  <2>6. CASE b # "lf"
    <3> HIDE DEF a
    <3>1. Got(SubSeq(e, 1, n)).rest = Append(Got(a).rest, b) /\ Got(SubSeq(e, 1, n)).done = Got(a).done
      BY <2>3, <2>6 DEF readByte
    <3>2. Append(SubSeq(e, m + 1, n - 1), b) = SubSeq(e, m + 1, n)
      <4> DEFINE u == SubSeq(e, m + 1, n - 1)
                 v == SubSeq(e, m + 1, n)
                 w == Append(u, b)
      <4>1. u \in Seq(Byte) /\ Len(u) = n - 1 - m /\ \A i \in 1 .. n - 1 - m : u[i] = e[m + i]
        BY <1>0, <2>4, Piece
      <4>2. v \in Seq(Byte) /\ Len(v) = n - m /\ \A i \in 1 .. n - m : v[i] = e[m + i]
        BY <1>0, <2>4, Piece
      <4> HIDE DEF u, v
      <4>3. w \in Seq(Byte) /\ Len(w) = n - m /\ w[n - m] = b /\ \A i \in 1 .. n - 1 - m : w[i] = u[i]
        <5> HIDE DEF b
        <5> QED BY <2>1, <2>4, <4>1
      <4> HIDE DEF w
      <4>4. ASSUME NEW i \in 1 .. n - m PROVE w[i] = v[i]
        <5>1. i \in 1 .. n - 1 - m \/ (i = n - m /\ m + i = n)
          BY <2>4
        <5> QED BY <4>1, <4>2, <4>3, <5>1
      <4>5. w = v
        BY <4>2, <4>3, <4>4
      <4> QED BY <4>5 DEF u, v, w
    <3>5. m \in 0 .. n
      BY <2>4
    <3>6. Got(SubSeq(e, 1, n)).rest = SubSeq(e, m + 1, n)
      BY <2>2, <3>1, <3>2
    <3>7. Got(SubSeq(e, 1, n)).done \in Seq(T)
      <4> HIDE DEF T
      <4> QED BY <2>2, <3>1
    <3>3. m \in 0 .. n /\ Got(SubSeq(e, 1, n)).rest = SubSeq(e, m + 1, n) /\ Got(SubSeq(e, 1, n)).done \in Seq(T)
      BY <3>5, <3>6, <3>7, Zenon
    <3>4. Good(n)
      BY <2>2, <3>3
    <3> HIDE DEF Good
    <3> QED BY <2>4, <3>4
  <2> QED BY <2>5, <2>6
<1> HIDE DEF S
<1>3. \A n \in 0 .. N : n \in S
  <2> HIDE DEF N
  <2> QED BY <1>0, <1>1, <1>2, UpTo, Zenon
<1>4. Good(N)
  BY <1>0, <1>3 DEF S
<1>5. PICK m \in 0 .. N : Boundary(e, m) /\ Got(e).rest = SubSeq(e, m + 1, N) /\ Got(e).done \in Seq(T)
  BY <1>0, <1>4
<1>6. Got(e).rest \in T
  BY <1>5, RestOfText
<1>7. "lf" \in Byte
  BY DEF Byte, OneByte
<1>8. Got(Append(e, "lf")) = readByte(Got(e), "lf")
  BY <1>0, <1>7, GotByte
<1>9. Got(Append(e, "lf")).done = Append(Got(e).done, Got(e).rest)
  BY <1>8 DEF readByte
<1>10. Got(Append(e, "lf")).done = pieces(e)
  BY <1>0, GotLine
<1>11. pieces(e) \in Seq(T)
  <2> DEFINE d == Got(e).done
             r == Got(e).rest
  <2>1. d \in Seq(T) /\ r \in T
    BY <1>5, <1>6
  <2> HIDE DEF d, r, T
  <2>2. Append(d, r) \in Seq(T)
    BY <2>1
  <2> QED BY <1>9, <1>10, <2>2 DEF d, r
<1> QED BY <1>11 DEF T

\* What comes back of whole entries is whole.
LEMMA WholeComesBack ==
  ASSUME NEW k, NEW h \in Seq(Texts(k))
  PROVE  h \in Seq(Seq(Byte)) /\ comesBack(h) \in Seq(Texts(k)) /\ linesOf(saved(h)) = comesBack(h)
<1> DEFINE T == Texts(k)
<1>1. \A i \in DOMAIN h : pieces(h[i]) \in Seq(T)
  BY PiecesWhole
<1>2. [i \in DOMAIN h |-> pieces(h[i])] \in Seq(Seq(T))
  <2> HIDE DEF T
  <2>1. Len(h) \in Nat /\ DOMAIN h = 1 .. Len(h)
    OBVIOUS
  <2> QED BY <1>1, <2>1
<1>3. comesBack(h) \in Seq(T)
  BY <1>2, FlattenType DEF comesBack
<1>4. h \in Seq(Seq(Byte))
  BY Wider DEF Texts
<1>5. Got(saved(h)) = [done |-> comesBack(h), rest |-> <<>>]
  BY <1>4, SavedComesBack
<1>6. linesOf(saved(h)) = comesBack(h)
  BY <1>5, LinesGot
<1> QED BY <1>3, <1>4, <1>6

(***************************************************************************)
(* What the loop of LoadHistory() makes of the lines of a file.            *)
(***************************************************************************)

\* Of the first n lines, those that repeat no line before them.
Kept(lines, n) == {i \in 1 .. n : i = 1 \/ lines[i] # lines[i - 1]}

\* The entries of h are, in this order, the lines at the places at; and of
\* those that are to be kept only earlier ones are missing, for want of room.
Places(h, lines, n, at) ==
  /\ at \in [DOMAIN h -> Kept(lines, n)]
  /\ \A k, l \in DOMAIN h : k < l => at[k] < at[l]
  /\ \A k \in DOMAIN h : h[k] = lines[at[k]]
  /\ \A i \in Kept(lines, n) \ Range(at) : Len(h) = HistoryLength /\ i < at[1]

\* What the loop keeps: the last entry is the last line, repeated or not.
Loaded(h, lines, n) ==
  /\ Len(h) <= HistoryLength
  /\ n > 0 => h # <<>> /\ h[Len(h)] = lines[n]
  /\ \E at : Places(h, lines, n, at)

LEMMA LastIs == ASSUME NEW U, NEW h \in Seq(U) PROVE Last(h) = h[Len(h)]
BY DEF Last

\* A line that repeats the one before is dropped.
LEMMA RepeatedLine ==
  ASSUME NEW U, NEW h \in Seq(U), NEW lines \in Seq(U), NEW n \in 1 .. Len(lines),
         Loaded(h, lines, n - 1), h # <<>>, h[Len(h)] = lines[n]
  PROVE  Loaded(h, lines, n)
<1>1. PICK at : Places(h, lines, n - 1, at)
  BY DEF Loaded
<1>2. Len(h) \in Nat \ {0} /\ DOMAIN h = 1 .. Len(h)
  OBVIOUS
<1>3. n > 1
  BY <1>1, <1>2 DEF Places, Kept
<1>4. lines[n] = lines[n - 1]
  BY <1>3 DEF Loaded
<1>5. Kept(lines, n) = Kept(lines, n - 1)
  BY <1>3, <1>4 DEF Kept
<1>6. Places(h, lines, n, at)
  BY <1>1, <1>5 DEF Places
<1> QED BY <1>6 DEF Loaded

\* Another one is appended, where there is room...
LEMMA LineWithRoom ==
  ASSUME NEW U, NEW h \in Seq(U), NEW lines \in Seq(U), NEW n \in 1 .. Len(lines), NEW at,
         Places(h, lines, n - 1, at), Len(h) < HistoryLength,
         Kept(lines, n) = Kept(lines, n - 1) \cup {n}
  PROVE  \E at2 : Places(Append(h, lines[n]), lines, n, at2)
<1> DEFINE h2  == Append(h, lines[n])
           N   == Len(h)
           at2 == [k \in 1 .. N + 1 |-> IF k = N + 1 THEN n ELSE at[k]]
<1>1. N \in Nat /\ DOMAIN h = 1 .. N /\ n \in Nat
  OBVIOUS
<1>2. /\ Len(h2) = N + 1 /\ DOMAIN h2 = 1 .. N + 1 /\ h2[N + 1] = lines[n]
      /\ \A k \in 1 .. N : h2[k] = h[k]
  OBVIOUS
<1>3. /\ DOMAIN at2 = 1 .. N + 1 /\ at2[N + 1] = n /\ \A k \in 1 .. N : at2[k] = at[k]
      /\ at2 = [k \in 1 .. N + 1 |-> at2[k]]
  BY <1>1
<1> HIDE DEF h2, at2, N
<1>4. /\ DOMAIN at = 1 .. N /\ \A k \in 1 .. N : at[k] \in Kept(lines, n - 1)
      /\ \A i \in Kept(lines, n - 1) : i \in 1 .. n - 1
  BY <1>1 DEF Places, Kept
<1>5. at2 \in [DOMAIN h2 -> Kept(lines, n)]
  <2>1. ASSUME NEW k \in 1 .. N + 1 PROVE at2[k] \in Kept(lines, n)
    <3>1. CASE k = N + 1
      BY <1>3, <3>1
    <3>2. CASE k # N + 1
      <4>1. k \in 1 .. N
        BY <1>1, <3>2
      <4> QED BY <1>3, <1>4, <4>1
    <3> QED BY <3>1, <3>2
  <2> QED BY <1>2, <1>3, <2>1
<1>6. ASSUME NEW k \in 1 .. N + 1, NEW l \in 1 .. N + 1, k < l PROVE at2[k] < at2[l]
  <2>1. CASE l = N + 1
    <3>1. k \in 1 .. N
      BY <1>1, <1>6, <2>1
    <3>2. at2[k] = at[k] /\ at[k] \in 1 .. n - 1 /\ at2[l] = n
      BY <1>3, <1>4, <2>1, <3>1
    <3> QED BY <1>1, <3>2
  <2>2. CASE l # N + 1
    <3>1. k \in 1 .. N /\ l \in 1 .. N
      BY <1>1, <1>6, <2>2
    <3> QED BY <1>1, <1>3, <1>6, <3>1 DEF Places
  <2> QED BY <2>1, <2>2
<1>7. ASSUME NEW k \in 1 .. N + 1 PROVE h2[k] = lines[at2[k]]
  <2>1. CASE k = N + 1
    BY <1>2, <1>3, <2>1
  <2>2. CASE k # N + 1
    <3>1. k \in 1 .. N
      BY <1>1, <2>2
    <3>2. h[k] = lines[at[k]]
      BY <1>1, <3>1 DEF Places
    <3> QED BY <1>2, <1>3, <3>1, <3>2
  <2> QED BY <2>1, <2>2
<1>8. ASSUME NEW i \in Kept(lines, n) \ Range(at2) PROVE FALSE
  <2>1. i # n
    BY <1>1, <1>3, <1>8 DEF Range
  <2>2. i \in Kept(lines, n - 1)
    BY <1>8, <2>1
  <2>3. ASSUME NEW k \in 1 .. N PROVE i # at[k]
    <3>1. k \in 1 .. N + 1
      BY <1>1
    <3>2. at2[k] = at[k]
      BY <1>3
    <3> QED BY <1>3, <1>8, <3>1, <3>2 DEF Range
  <2>4. i \notin Range(at)
    BY <1>4, <2>3 DEF Range
  <2>5. Len(h) = HistoryLength
    BY <2>2, <2>4 DEF Places
  <2> QED BY <1>1, <2>5, ReplAssumption, LengthAssumption DEF N
<1>9. Places(h2, lines, n, at2)
  BY <1>2, <1>5, <1>6, <1>7, <1>8 DEF Places
<1> QED BY <1>9 DEF h2

\* ...and where there is none the oldest entry goes.
LEMMA LineWithoutRoom ==
  ASSUME NEW U, NEW h \in Seq(U), NEW lines \in Seq(U), NEW n \in 1 .. Len(lines), NEW at,
         Places(h, lines, n - 1, at), Len(h) = HistoryLength,
         Kept(lines, n) = Kept(lines, n - 1) \cup {n}
  PROVE  \E at2 : Places(Append(Tail(h), lines[n]), lines, n, at2)
<1> DEFINE h2  == Append(Tail(h), lines[n])
           N   == Len(h)
           at2 == [k \in 1 .. N |-> IF k = N THEN n ELSE at[k + 1]]
<1>1. N \in Nat \ {0} /\ DOMAIN h = 1 .. N /\ n \in Nat /\ N = HistoryLength
  BY ReplAssumption, LengthAssumption
<1>2. /\ Len(h2) = N /\ DOMAIN h2 = 1 .. N /\ h2[N] = lines[n]
      /\ \A k \in 1 .. N - 1 : h2[k] = h[k + 1]
  <2>1. h # <<>>
    BY <1>1
  <2>2. /\ Tail(h) \in Seq(U) /\ Len(Tail(h)) = N - 1
        /\ \A k \in 1 .. N - 1 : Tail(h)[k] = h[k + 1]
    BY <2>1
  <2> QED BY <1>1, <2>2
<1>3. /\ DOMAIN at2 = 1 .. N /\ at2[N] = n /\ \A k \in 1 .. N - 1 : at2[k] = at[k + 1]
      /\ at2 = [k \in 1 .. N |-> at2[k]]
  BY <1>1
<1> HIDE DEF h2, at2, N
<1>4. /\ DOMAIN at = 1 .. N /\ \A k \in 1 .. N : at[k] \in Kept(lines, n - 1)
      /\ \A i \in Kept(lines, n - 1) : i \in 1 .. n - 1
  BY <1>1 DEF Places, Kept
<1>5. at2 \in [DOMAIN h2 -> Kept(lines, n)]
  <2>1. ASSUME NEW k \in 1 .. N PROVE at2[k] \in Kept(lines, n)
    <3>1. CASE k = N
      BY <1>3, <3>1
    <3>2. CASE k # N
      <4>1. k \in 1 .. N - 1 /\ k + 1 \in 1 .. N
        BY <1>1, <3>2
      <4> QED BY <1>3, <1>4, <4>1
    <3> QED BY <3>1, <3>2
  <2> QED BY <1>2, <1>3, <2>1
<1>6. ASSUME NEW k \in 1 .. N, NEW l \in 1 .. N, k < l PROVE at2[k] < at2[l]
  <2>1. k \in 1 .. N - 1 /\ k + 1 \in 1 .. N
    BY <1>1, <1>6
  <2>2. CASE l = N
    <3>1. at2[k] = at[k + 1] /\ at[k + 1] \in 1 .. n - 1 /\ at2[l] = n
      BY <1>3, <1>4, <2>1, <2>2
    <3> QED BY <1>1, <3>1
  <2>3. CASE l # N
    <3>1. l \in 1 .. N - 1 /\ l + 1 \in 1 .. N /\ k + 1 < l + 1
      BY <1>1, <1>6, <2>3
    <3>2. at[k + 1] < at[l + 1]
      BY <1>1, <2>1, <3>1 DEF Places
    <3> QED BY <1>3, <2>1, <3>1, <3>2
  <2> QED BY <2>2, <2>3
<1>7. ASSUME NEW k \in 1 .. N PROVE h2[k] = lines[at2[k]]
  <2>1. CASE k = N
    BY <1>2, <1>3, <2>1
  <2>2. CASE k # N
    <3>1. k \in 1 .. N - 1 /\ k + 1 \in 1 .. N
      BY <1>1, <2>2
    <3>2. h[k + 1] = lines[at[k + 1]]
      BY <1>1, <3>1 DEF Places
    <3> QED BY <1>2, <1>3, <3>1, <3>2
  <2> QED BY <2>1, <2>2
<1>8. ASSUME NEW i \in Kept(lines, n) \ Range(at2) PROVE i < at2[1]
  <2>1. i # n
    BY <1>1, <1>3, <1>8 DEF Range
  <2>2. i \in Kept(lines, n - 1) /\ i \in 1 .. n - 1
    BY <1>4, <1>8, <2>1
  <2>3. ASSUME NEW k \in 2 .. N PROVE i # at[k]
    <3>1. k - 1 \in 1 .. N - 1 /\ k - 1 \in 1 .. N /\ (k - 1) + 1 = k
      BY <1>1
    <3>2. at2[k - 1] = at[k]
      BY <1>3, <3>1
    <3> QED BY <1>3, <1>8, <3>1, <3>2 DEF Range
  <2>4. i <= at[1]
    <3>1. CASE i \in Range(at)
      <4>1. PICK k \in 1 .. N : i = at[k]
        BY <1>4, <3>1 DEF Range
      <4>2. k = 1
        BY <1>1, <2>3, <4>1
      <4> QED BY <2>2, <4>1, <4>2
    <3>2. CASE i \notin Range(at)
      <4>1. i < at[1]
        BY <2>2, <3>2 DEF Places
      <4>2. at[1] \in Nat
        BY <1>1, <1>4
      <4> QED BY <2>2, <4>1, <4>2
    <3> QED BY <3>1, <3>2
  <2>5. CASE N = 1
    BY <1>3, <2>2, <2>5
  <2>6. CASE N # 1
    <3>1. 1 \in 1 .. N - 1 /\ 1 \in 1 .. N /\ 2 \in 1 .. N
      BY <1>1, <2>6
    <3>2. at[1] < at[2]
      BY <1>1, <3>1 DEF Places
    <3>3. at2[1] = at[2]
      <4>1. at2[1] = at[1 + 1]
        BY <1>3, <3>1, Zenon
      <4> QED BY <4>1
    <3>4. at[1] \in Nat /\ at[2] \in Nat
      BY <1>4, <3>1
    <3> QED BY <2>2, <2>4, <3>2, <3>3, <3>4
  <2> QED BY <2>5, <2>6
<1>9. Places(h2, lines, n, at2)
  BY <1>1, <1>2, <1>5, <1>6, <1>7, <1>8 DEF Places
<1> QED BY <1>9 DEF h2

LEMMA LoadLine ==
  ASSUME NEW U, NEW h \in Seq(U), NEW lines \in Seq(U), NEW n \in 1 .. Len(lines),
         Loaded(h, lines, n - 1)
  PROVE  Loaded(added(h, HistoryLength, lines[n]), lines, n)
<1>1. lines[n] \in U /\ n \in Nat /\ Len(h) \in Nat /\ HistoryLength \in Nat \ {0}
  BY ReplAssumption, LengthAssumption
<1>2. Last(h) = h[Len(h)]
  BY LastIs
<1>3. CASE h # <<>> /\ h[Len(h)] = lines[n]
  <2>1. added(h, HistoryLength, lines[n]) = h
    BY <1>2, <1>3 DEF added
  <2> QED BY <1>3, <2>1, RepeatedLine
<1>4. CASE ~(h # <<>> /\ h[Len(h)] = lines[n])
  <2> DEFINE rest == IF Len(h) = HistoryLength THEN Tail(h) ELSE h
             h2   == Append(rest, lines[n])
  <2>1. added(h, HistoryLength, lines[n]) = h2
    BY <1>1, <1>2, <1>4 DEF added
  <2>2. n = 1 \/ lines[n] # lines[n - 1]
    BY <1>1, <1>4 DEF Loaded
  <2>3. Kept(lines, n) = Kept(lines, n - 1) \cup {n}
    BY <1>1, <2>2 DEF Kept
  <2>4. PICK at : Places(h, lines, n - 1, at)
    BY DEF Loaded
  <2>5. rest \in Seq(U) /\ Len(rest) \in Nat /\ Len(rest) < HistoryLength
    <3>1. CASE Len(h) = HistoryLength
      <4>1. h # <<>>
        BY <1>1, <3>1
      <4>2. Tail(h) \in Seq(U) /\ Len(Tail(h)) = Len(h) - 1
        BY <4>1
      <4> QED BY <1>1, <3>1, <4>2
    <3>2. CASE Len(h) # HistoryLength
      BY <1>1, <3>2 DEF Loaded
    <3> QED BY <3>1, <3>2
  <2>6. \E at2 : Places(h2, lines, n, at2)
    <3>1. CASE Len(h) = HistoryLength
      BY <2>3, <2>4, <3>1, LineWithoutRoom
    <3>2. CASE Len(h) # HistoryLength
      <4>1. Len(h) < HistoryLength
        BY <1>1, <3>2 DEF Loaded
      <4> QED BY <2>3, <2>4, <3>2, <4>1, LineWithRoom
    <3> QED BY <3>1, <3>2
  <2> HIDE DEF rest
  <2>7. Len(h2) = Len(rest) + 1 /\ h2[Len(h2)] = lines[n] /\ h2 # <<>>
    <3> DEFINE s == lines[n]
    <3>1. s \in U
      BY <1>1
    <3> HIDE DEF s
    <3>2. /\ Len(Append(rest, s)) = Len(rest) + 1
          /\ Append(rest, s)[Len(rest) + 1] = s /\ Append(rest, s) # <<>>
      BY <2>5, <3>1
    <3> QED BY <3>2 DEF s
  <2> HIDE DEF h2
  <2>8. Loaded(h2, lines, n)
    BY <1>1, <2>5, <2>6, <2>7 DEF Loaded
  <2> QED BY <2>1, <2>8
<1> QED BY <1>3, <1>4

LEMMA LoadedAll ==
  ASSUME NEW U, NEW lines \in Seq(U), NEW f, Loads(<<>>, HistoryLength, lines, Len(lines), f)
  PROVE  LET h == f[Len(lines)]
         IN h \in Seq(U) /\ Loaded(h, lines, Len(lines))
<1> DEFINE N == Len(lines)
           S == {n \in 0 .. N : f[n] \in Seq(U) /\ Loaded(f[n], lines, n)}
<1>1. N \in Nat /\ \A n \in 1 .. N : lines[n] \in U
  OBVIOUS
<1>2. \A n \in 0 .. N :
        f[n] = IF n = 0 THEN <<>> ELSE added(f[n - 1], HistoryLength, lines[n])
  BY DEF Loads
<1> HIDE DEF N
<1>3. 0 \in S
  <2>1. f[0] = <<>>
    BY <1>1, <1>2
  <2>2. Places(<<>>, lines, 0, <<>>)
    BY DEF Places, Kept
  <2>3. Loaded(f[0], lines, 0)
    BY <2>1, <2>2, ReplAssumption, LengthAssumption DEF Loaded
  <2>4. f[0] \in Seq(U)
    BY <2>1
  <2> QED BY <1>1, <2>3, <2>4
<1>4. ASSUME NEW n \in 1 .. N, n - 1 \in S PROVE n \in S
  <2>1. f[n] = added(f[n - 1], HistoryLength, lines[n])
    BY <1>1, <1>2
  <2>2. f[n - 1] \in Seq(U) /\ Loaded(f[n - 1], lines, n - 1) /\ lines[n] \in U
    BY <1>1, <1>4
  <2>3. f[n] \in Seq(U)
    <3>1. Len(f[n - 1]) <= HistoryLength /\ HistoryLength \in Nat \ {0}
      BY <2>2, ReplAssumption, LengthAssumption DEF Loaded
    <3> QED BY <2>1, <2>2, <3>1, AddedKeeps
  <2>4. Loaded(f[n], lines, n)
    BY <1>4, <2>1, <2>2, LoadLine DEF N
  <2> QED BY <1>1, <2>3, <2>4
<1> HIDE DEF S
<1>5. N \in S
  <2>1. \A n \in 0 .. N : n \in S
    BY <1>1, <1>3, <1>4, UpTo
  <2> QED BY <1>1, <2>1
<1> QED BY <1>5 DEF S, N

\* A history that loads lines when it is empty holds the latest of them.
LEMMA LoadHolds ==
  ASSUME NEW U, NEW text, linesOf(text) \in Seq(U), LoadHistory(text),
         history = <<>>, history_max_len = HistoryLength
  PROVE  holdsLatest(history', linesOf(text))
<1> DEFINE lines == linesOf(text)
           after == CHOOSE f : Loads(<<>>, HistoryLength, lines, Len(lines), f)
<1>1. Len(lines) \in Nat /\ DOMAIN lines = 1 .. Len(lines) /\ lines \in Seq(U)
  OBVIOUS
<1>2. Loads(<<>>, HistoryLength, lines, Len(lines), after)
  BY <1>1, LoadEnds, Zenon
<1>3. history' = after[Len(lines)]
  BY DEF LoadHistory, Loads
<1> HIDE DEF after, lines
<1>4. Loaded(history', lines, Len(lines))
  BY <1>1, <1>2, <1>3, LoadedAll
<1>5. PICK at : Places(history', lines, Len(lines), at)
  BY <1>4 DEF Loaded
<1>6. Kept(lines, Len(lines)) = {i \in DOMAIN lines : i = 1 \/ lines[i] # lines[i - 1]}
  BY <1>1 DEF Kept
<1>7. holdsLatest(history', lines)
  BY <1>4, <1>5, <1>6 DEF Loaded, Places, holdsLatest
<1> QED BY <1>7 DEF lines

(***************************************************************************)
(* The REPL (Repl): the next session resumes from what the last one left,  *)
(* for every keyboard, every file, every limit of the history, every       *)
(* number of sessions and every way they end.                              *)
(***************************************************************************)

\* A session has nothing when it loads, and has set its limit.
Loading ==
  /\ main \in {"started", "loading"} => history = <<>>
  /\ main = "loading" => history_max_len = HistoryLength

\* The stream that saves is a new one.
Unsaved ==
  main \in {"started", "loading", "read", "editing", "returned"} => written = 0 /\ pending = <<>>

\* The first n entries that the last session left, and of the next a part.
FrontAndTorn(text, n) == \E torn \in tornOff(left, n) : text = saved(SubSeq(left, 1, n)) \o torn

\* A file begins as what the last session left does, and has all of it, unless
\* a save went wrong...
Begins ==
  \E n \in 0 .. Len(left) : (n < Len(left) => broken) /\ FrontAndTorn(file, n)

\* ...or is not at its end, where what it will try again is a part too.
Saving ==
  main = "saving" =>
    /\ usable /\ broken /\ left = history /\ written \in 0 .. Len(history)
    /\ pending = <<>> => file = saved(SubSeq(history, 1, written))
    /\ pending # <<>> =>
         \E n \in 0 .. Len(left) - 1 : \A part \in Prefixes(pending) : FrontAndTorn(file \o part, n)

Kinds == left \in Seq(Texts(keyboard)) /\ file \in Seq(Byte) /\ pending \in Seq(Byte)

RInv ==
  /\ Session /\ Modes /\ Kinds
  /\ Loading /\ Unsaved /\ (usable /\ main # "saving" => Begins) /\ Saving

\* No session loads a part of a character, which the disk or a kill has left.
TornWhole ==
  main = "loading" /\ usable /\ broken => linesOf(file) \in Seq(Texts(keyboard))

(***************************************************************************)
(* Parts of lines.                                                         *)
(***************************************************************************)

LEMMA WholeBytes == ASSUME NEW k, NEW h \in Seq(Texts(k)) PROVE h \in Seq(Seq(Byte))
BY Wider DEF Texts

\* Two beginnings of a line.
Torn(text, out) == \E p \in Prefixes(out) : \E q \in Prefixes(out) : text = p \o q

LEMMA TornIs ==
  ASSUME NEW n, n # Len(left), NEW text
  PROVE  text \in tornOff(left, n) <=> Torn(text, Append(left[n + 1], "lf"))
<1> DEFINE P == Prefixes(Append(left[n + 1], "lf"))
<1>1. tornOff(left, n) = {p \o q : p, q \in P}
  BY DEF tornOff
<1>2. text \in tornOff(left, n) <=> \E p \in P : \E q \in P : text = p \o q
  <2> HIDE DEF P
  <2> QED BY <1>1
<1> QED BY <1>2 DEF Torn

LEMMA PrefixFacts ==
  ASSUME NEW U, NEW s \in Seq(U)
  PROVE  /\ <<>> \in Prefixes(s) /\ s \in Prefixes(s)
         /\ Prefixes(s) \subseteq Seq(U) /\ Prefixes(<<>>) = {<<>>}
<1>1. SubSeq(s, 1, 0) = <<>> /\ SubSeq(s, 1, Len(s)) = s /\ Len(s) \in Nat /\ 0 \in 0 .. Len(s)
  OBVIOUS
<1>2. \A l \in 0 .. Len(s) : SubSeq(s, 1, l) \in Seq(U)
  OBVIOUS
<1>3. Prefixes(<<>>) = {<<>>}
  <2>1. Len(<<>>) = 0 /\ SubSeq(<<>>, 1, 0) = <<>> /\ 0 .. 0 = {0}
    OBVIOUS
  <2> QED BY <2>1 DEF Prefixes
<1>4. Prefixes(s) \subseteq Seq(U)
  BY <1>2 DEF Prefixes
<1>5. <<>> \in Prefixes(s) /\ s \in Prefixes(s)
  <2>1. \A l \in 0 .. Len(s) : SubSeq(s, 1, l) \in Prefixes(s)
    BY DEF Prefixes
  <2>2. 0 \in 0 .. Len(s) /\ Len(s) \in 0 .. Len(s)
    BY <1>1
  <2>3. SubSeq(s, 1, 0) \in Prefixes(s) /\ SubSeq(s, 1, Len(s)) \in Prefixes(s)
    BY <2>1, <2>2, Zenon
  <2> QED BY <1>1, <2>3, Zenon
<1> QED BY <1>3, <1>4, <1>5

\* What a stream has written of a line, and what it writes when it tries again.
LEMMA PartsOfLine ==
  ASSUME NEW out \in Seq(Byte), NEW n \in 0 .. Len(out) - 1,
         NEW again \in {out, SubSeq(out, n + 1, Len(out))}, NEW part \in Prefixes(again)
  PROVE  /\ Torn(SubSeq(out, 1, n) \o part, out)
         /\ SubSeq(out, 1, n) \in Seq(Byte) /\ part \in Seq(Byte)
         /\ again \in Seq(Byte) /\ again # <<>>
<1>1. Len(out) \in Nat /\ n \in Nat /\ n < Len(out) /\ n \in 0 .. Len(out)
  OBVIOUS
<1>2. SubSeq(out, 1, n) \in Prefixes(out) /\ SubSeq(out, 1, n) \in Seq(Byte)
  BY <1>1 DEF Prefixes
<1>3. CASE again = out
  <2>1. out # <<>>
    BY <1>1
  <2>2. part \in Prefixes(out) /\ part \in Seq(Byte)
    BY <1>3, PrefixFacts
  <2>3. Torn(SubSeq(out, 1, n) \o part, out)
    BY <1>2, <2>2 DEF Torn
  <2> QED BY <1>2, <1>3, <2>1, <2>2, <2>3
<1>4. CASE again = SubSeq(out, n + 1, Len(out))
  <2> DEFINE N == Len(out)
             a == SubSeq(out, 1, n)
  <2>1. PICK l \in 0 .. Len(again) : part = SubSeq(again, 1, l)
    BY DEF Prefixes
  <2>2. /\ again \in Seq(Byte) /\ Len(again) = N - n /\ \A i \in 1 .. N - n : again[i] = out[n + i]
    BY <1>1, <1>4, Piece
  <2>3. l \in Nat /\ l <= N - n /\ n + l <= N /\ N \in Nat
    BY <1>1, <2>1, <2>2
  <2>4. part \in Seq(Byte) /\ Len(part) = l /\ \A i \in 1 .. l : part[i] = out[n + i]
    <3>1. again \in Seq(Byte) /\ l \in 0 .. Len(again) /\ part = SubSeq(again, 1, l)
      BY <2>1, <2>2
    <3>2. part \in Seq(Byte) /\ Len(part) = l /\ \A i \in 1 .. l : part[i] = again[i]
      <4> HIDE <1>4
      <4> QED BY <3>1
    <3>3. \A i \in 1 .. l : i \in 1 .. N - n
      BY <1>1, <2>3
    <3> HIDE DEF N
    <3> QED BY <2>2, <3>2, <3>3
  <2>5. Len(a) = n /\ a \in Seq(Byte) /\ \A i \in 1 .. n : a[i] = out[i]
    BY <1>1
  <2> DEFINE b == SubSeq(out, 1, n + l)
             c == a \o part
  <2>6. b \in Seq(Byte) /\ Len(b) = n + l /\ \A i \in 1 .. n + l : b[i] = out[i]
    BY <1>1, <2>3
  <2> HIDE DEF a, b, N
  <2>7. c \in Seq(Byte) /\ Len(c) = n + l
    BY <1>1, <2>3, <2>4, <2>5
  <2>8. ASSUME NEW i \in 1 .. n + l PROVE c[i] = b[i]
    <3>1. CASE i <= n
      <4>1. i \in 1 .. n
        BY <1>1, <2>3, <3>1
      <4>2. c[i] = a[i]
        BY <2>4, <2>5, <4>1
      <4> QED BY <2>5, <2>6, <4>1, <4>2
    <3>2. CASE ~(i <= n)
      <4>1. i - n \in 1 .. l /\ i = n + (i - n) /\ i > n
        BY <1>1, <2>3, <3>2
      <4>2. c[i] = part[i - n]
        BY <1>1, <2>3, <2>4, <2>5, <3>2
      <4>3. part[i - n] = out[n + (i - n)]
        BY <2>4, <4>1
      <4> QED BY <2>6, <4>1, <4>2, <4>3
    <3> QED BY <3>1, <3>2
  <2> HIDE DEF c
  <2>9. c = b
    BY <2>6, <2>7, <2>8
  <2>10. b \in Prefixes(out)
    <3>1. n + l \in 0 .. Len(out)
      BY <1>1, <2>3 DEF N
    <3> QED BY <3>1 DEF b, Prefixes
  <2>11. c = b \o <<>> /\ <<>> \in Prefixes(out)
    BY <2>6, <2>9, EmptyPiece, PrefixFacts
  <2>12. again # <<>>
    <3>1. N - n > 0
      BY <1>1 DEF N
    <3>2. Len(again) > 0
      BY <2>2, <3>1
    <3> HIDE <1>4
    <3> QED BY <3>2
  <2>13. Torn(SubSeq(out, 1, n) \o part, out)
    BY <2>10, <2>11 DEF Torn, c, a
  <2> QED BY <1>2, <2>2, <2>4, <2>12, <2>13
<1> QED BY <1>3, <1>4

\* One entry more is in the file.
LEMMA LineSaved ==
  ASSUME NEW h \in Seq(Seq(Byte)), NEW n \in 0 .. Len(h) - 1
  PROVE  /\ h[n + 1] \in Seq(Byte)
         /\ saved(SubSeq(h, 1, n + 1)) = saved(SubSeq(h, 1, n)) \o Append(h[n + 1], "lf")
         /\ saved(SubSeq(h, 1, n)) \in Seq(Byte)
<1> DEFINE m == n + 1
<1>1. m \in 1 .. Len(h) /\ m - 1 = n
  OBVIOUS
<1> HIDE DEF m
<1>2. /\ SubSeq(h, 1, m - 1) \in Seq(Seq(Byte)) /\ h[m] \in Seq(Byte)
      /\ SubSeq(h, 1, m) = Append(SubSeq(h, 1, m - 1), h[m])
  BY <1>1, LongerFront
<1> DEFINE g == SubSeq(h, 1, m - 1)
           e == h[m]
<1>3. saved(Append(g, e)) = saved(g) \o Append(e, "lf") /\ saved(g) \in Seq(Byte)
  <2> HIDE DEF g, e
  <2>1. g \in Seq(Seq(Byte)) /\ e \in Seq(Byte)
    BY <1>2 DEF g, e
  <2> QED BY <2>1, OneEntryMore
<1>4. saved(SubSeq(h, 1, m)) = saved(SubSeq(h, 1, n)) \o Append(h[m], "lf") /\ saved(SubSeq(h, 1, n)) \in Seq(Byte)
  BY <1>1, <1>2, <1>3
<1> QED BY <1>2, <1>4 DEF m

LEMMA TornBytes ==
  ASSUME left \in Seq(Seq(Byte)), NEW n \in 0 .. Len(left), NEW torn \in tornOff(left, n)
  PROVE  torn \in Seq(Byte) /\ SubSeq(left, 1, n) \in Seq(Seq(Byte))
<1>1. Len(left) \in Nat
  OBVIOUS
<1>2. SubSeq(left, 1, n) \in Seq(Seq(Byte))
  OBVIOUS
<1>3. CASE n = Len(left)
  BY <1>2, <1>3 DEF tornOff
<1>4. CASE n # Len(left)
  <2> DEFINE out == Append(left[n + 1], "lf")
  <2>1. n + 1 \in 1 .. Len(left)
    BY <1>1, <1>4
  <2>2. left[n + 1] \in Seq(Byte) /\ "lf" \in Byte
    BY <2>1 DEF Byte, OneByte
  <2>3. out \in Seq(Byte)
    BY <2>2
  <2> HIDE DEF out
  <2>4. PICK p \in Prefixes(out) : \E q \in Prefixes(out) : torn = p \o q
    <3>1. Torn(torn, Append(left[n + 1], "lf"))
      BY <1>4, TornIs, Zenon
    <3> QED BY <3>1 DEF Torn, out
  <2>5. PICK q \in Prefixes(out) : torn = p \o q
    BY <2>4
  <2>6. p \in Seq(Byte) /\ q \in Seq(Byte)
    BY <2>3, PrefixFacts
  <2> QED BY <1>2, <2>5, <2>6
<1> QED BY <1>3, <1>4

\* Nothing need be torn.
LEMMA NothingTorn ==
  ASSUME left \in Seq(Seq(Byte)), NEW n \in 0 .. Len(left)
  PROVE  <<>> \in tornOff(left, n) /\ FrontAndTorn(saved(SubSeq(left, 1, n)), n)
<1>1. Len(left) \in Nat
  OBVIOUS
<1>2. <<>> \in tornOff(left, n)
  <2>1. CASE n = Len(left)
    BY <2>1 DEF tornOff
  <2>2. CASE n # Len(left)
    <3> DEFINE out == Append(left[n + 1], "lf")
    <3>1. n + 1 \in 1 .. Len(left)
      BY <1>1, <2>2
    <3>2. left[n + 1] \in Seq(Byte) /\ "lf" \in Byte
      BY <3>1 DEF Byte, OneByte
    <3>3. out \in Seq(Byte)
      BY <3>2
    <3> HIDE DEF out
    <3>4. <<>> \in Prefixes(out) /\ <<>> = <<>> \o <<>>
      BY <3>3, PrefixFacts
    <3>5. Torn(<<>>, out)
      BY <3>4 DEF Torn
    <3> QED BY <2>2, <3>5, TornIs DEF out
  <2> QED BY <2>1, <2>2
<1>3. SubSeq(left, 1, n) \in Seq(Seq(Byte))
  OBVIOUS
<1>4. saved(SubSeq(left, 1, n)) \in Seq(Byte)
  BY <1>3, SavedComesBack
<1>5. saved(SubSeq(left, 1, n)) = saved(SubSeq(left, 1, n)) \o <<>>
  BY <1>4, EmptyPiece
<1> QED BY <1>2, <1>5 DEF FrontAndTorn

\* A torn line, behind the entries before it.
LEMMA FrontTorn ==
  ASSUME left \in Seq(Seq(Byte)), NEW n \in 0 .. Len(left) - 1,
         NEW begun \in Seq(Byte), NEW part \in Seq(Byte),
         Torn(begun \o part, Append(left[n + 1], "lf"))
  PROVE  FrontAndTorn((saved(SubSeq(left, 1, n)) \o begun) \o part, n)
<1>1. n # Len(left)
  OBVIOUS
<1>2. begun \o part \in tornOff(left, n)
  BY <1>1, TornIs
<1> DEFINE s == saved(SubSeq(left, 1, n))
<1>3. s \in Seq(Byte)
  BY LineSaved
<1> HIDE DEF s
<1>4. (s \o begun) \o part = s \o (begun \o part)
  BY <1>3
<1> QED BY <1>2, <1>4 DEF FrontAndTorn, s

(***************************************************************************)
(* What the line editor keeps, it keeps in the REPL.                       *)
(***************************************************************************)

\* Each step of the REPL is one of the editor, or loads, or starts anew.
LEMMA EditorStep ==
  ASSUME [ReplNext]_replVars
  PROVE  \/ [Next]_vars
         \/ loadHistory
         \/ restart
<1>1. CASE setHistoryMaxLen
  BY <1>1, ReplAssumption DEF setHistoryMaxLen, Next, Call
<1>2. CASE readline
  BY <1>2 DEF readline, Next, Call
<1>3. CASE type
  BY <1>3 DEF type, Next
<1>4. CASE evaluate
  BY <1>4 DEF evaluate, editor, Next, Call
<1>5. CASE openFile \/ saveLine \/ closeFile \/ kill
  BY <1>5 DEF openFile, saveLine, closeFile, kill, editor
<1>6. CASE exit
  BY <1>6 DEF exit, Next
<1>7. CASE UNCHANGED replVars
  BY <1>7 DEF replVars, editor
<1> QED BY <1>1, <1>2, <1>3, <1>4, <1>5, <1>6, <1>7 DEF ReplNext, run

LEMMA KeyboardStays == ASSUME [Next]_vars PROVE keyboard' = keyboard
<1>1. ASSUME NEW bytes, NEW p, edited(bytes, p) PROVE keyboard' = keyboard
  BY <1>1 DEF edited
<1>2. ASSUME NEW quits, leave(quits) PROVE keyboard' = keyboard
  BY <1>2 DEF leave
<1>3. CASE Call
  BY <1>3
  DEF Call, AddHistory, LoadHistory, SetHistoryMaxLen, readPlainLine, cannotEdit, linenoiseEdit
<1>4. CASE KeyStroke
  <2>1. CASE \E c \in keyboard.chars : linenoiseEditInsert(c)
    BY <1>1, <2>1 DEF linenoiseEditInsert
  <2>2. CASE \/ linenoiseEditMoveLeft \/ linenoiseEditMoveRight
             \/ linenoiseEditMoveHome \/ linenoiseEditMoveEnd
             \/ swap \/ killLine \/ killRest
    BY <1>1, <2>2
    DEF linenoiseEditMoveLeft, linenoiseEditMoveRight, linenoiseEditMoveHome,
        linenoiseEditMoveEnd, swap, killLine, killRest
  <2>3. CASE linenoiseEditDelete \/ linenoiseEditBackspace \/ linenoiseEditDeletePrevWord
    BY <1>1, <2>3
    DEF linenoiseEditDelete, linenoiseEditBackspace, linenoiseEditDeletePrevWord, cut
  <2>4. CASE linenoiseEditHistoryNext("up", 1) \/ linenoiseEditHistoryNext("down", -1)
    BY <2>4 DEF linenoiseEditHistoryNext
  <2>5. CASE enter \/ endOfFile \/ interrupt \/ inputEnds
    BY <1>2, <2>5 DEF enter, endOfFile, interrupt, inputEnds
  <2> QED BY <1>4, <2>1, <2>2, <2>3, <2>4, <2>5 DEF KeyStroke
<1>5. CASE linenoiseAtExit \/ UNCHANGED vars
  BY <1>5 DEF linenoiseAtExit, vars
<1> QED BY <1>3, <1>4, <1>5 DEF Next

\* The globals of a new process.
LEMMA Restarted ==
  ASSUME restart
  PROVE  /\ keyboard' = keyboard /\ pc' = "idle" /\ history' = <<>>
         /\ history_max_len' = DefaultMaxLen
         /\ buf' = <<>> /\ pos' = 0 /\ line' = <<>> /\ history_index' = 0 /\ quit' = FALSE
         /\ rawmode' = FALSE /\ orig_termios' = "cooked" /\ terminal' = "cooked"
BY DEF restart

\* What a session that begins may load.
LoadsWhole == linesOf(IF usable THEN file ELSE <<>>) \in Seq(Texts(keyboard))

LEMMA SessionLoads == ASSUME RInv, TornWhole, main = "loading" PROVE LoadsWhole
<1> DEFINE T == Texts(keyboard)
<1>1. CASE ~usable
  <2>1. linesOf(<<>>) = <<>>
    BY LinesGot, GotNothing DEF Begun
  <2>2. <<>> \in Seq(T)
    OBVIOUS
  <2> QED BY <1>1, <2>1, <2>2 DEF LoadsWhole
<1>2. CASE usable /\ broken
  BY <1>2 DEF TornWhole, LoadsWhole
<1>3. CASE usable /\ ~broken
  <2>1. PICK n \in 0 .. Len(left) : (n < Len(left) => broken) /\ FrontAndTorn(file, n)
    BY <1>3 DEF RInv, Begins
  <2>2. left \in Seq(T) /\ Len(left) \in Nat
    BY DEF RInv, Kinds
  <2>3. n = Len(left) /\ SubSeq(left, 1, n) = left
    BY <1>3, <2>1, <2>2
  <2>4. tornOff(left, n) = {<<>>}
    BY <2>3 DEF tornOff
  <2>5. left \in Seq(Seq(Byte)) /\ comesBack(left) \in Seq(T) /\ linesOf(saved(left)) = comesBack(left)
    BY <2>2, WholeComesBack
  <2>6. file = saved(left) \o <<>>
    BY <2>1, <2>3, <2>4 DEF FrontAndTorn
  <2>7. saved(left) \in Seq(Byte)
    BY <2>5, SavedComesBack
  <2>8. file = saved(left)
    BY <2>6, <2>7, EmptyPiece
  <2> QED BY <1>3, <2>5, <2>8 DEF LoadsWhole
<1> QED BY <1>1, <1>2, <1>3

LEMMA NextSessions ==
  ASSUME WholeInput, RInv, TornWhole, [ReplNext]_replVars
  PROVE  Session' /\ Modes' /\ keyboard' = keyboard
<1>0. Session /\ Modes
  BY DEF RInv
<1>1. CASE [Next]_vars
  BY <1>0, <1>1, NextSession, NextModes, KeyboardStays
<1>2. CASE loadHistory
  <2> DEFINE text == IF usable THEN file ELSE <<>>
  <2>1. linesOf(text) \in Seq(Texts(keyboard))
    BY <1>2, SessionLoads DEF loadHistory, LoadsWhole
  <2>2. LoadHistory(text)
    BY <1>2 DEF loadHistory
  <2> HIDE DEF text
  <2>3. Session'
    BY <1>0, <2>1, <2>2, LoadSession
  <2>4. Modes' /\ keyboard' = keyboard
    BY <1>0, <2>2 DEF LoadHistory, Modes, tty
  <2> QED BY <2>3, <2>4
<1>3. CASE restart
  <2>1. Session'
    <3>1. <<>> \in Texts(keyboard) /\ <<>> \in Seq(Texts(keyboard)) /\ Len(<<>>) = 0
      BY EmptyText
    <3>2. Texts(keyboard)' = Texts(keyboard) /\ keyboard \in Keyboards
      BY <1>0, <1>3, Restarted DEF Session, Texts
    <3>3. Boundary(buf, pos)'
      BY <1>3, <3>1, Restarted DEF Boundary
    <3>4. DefaultMaxLen \in Nat \ {0}
      BY LengthAssumption
    <3> QED BY <1>3, <3>1, <3>2, <3>3, <3>4, Restarted DEF Session
  <2> QED BY <2>1, <1>3, Restarted DEF Modes
<1> QED BY <1>1, <1>2, <1>3, EditorStep

(***************************************************************************)
(* The invariant is inductive.                                             *)
(***************************************************************************)

LEMMA InitRInv == ASSUME WholeInput, ReplInit PROVE RInv
<1>1. Session /\ Modes
  BY InitSession DEF ReplInit
<1>2. file \in Seq(Byte)
  BY FilesAssumption DEF ReplInit
<1> DEFINE d == Got(file).done
           r == Got(file).rest
<1>3. d \in Seq(Seq(Byte)) /\ r \in Seq(Byte)
  BY <1>2, GotType
<1>4. file = saved(d) \o r
  BY <1>2, LinesSaved
<1>5. left = IF r = <<>> THEN d ELSE Append(d, r)
  BY LinesGot DEF ReplInit
<1>6. left \in Seq(Texts(keyboard))
  BY <1>1 DEF ReplInit, WholeInput, Session
<1>7. left \in Seq(Seq(Byte)) /\ Len(left) \in Nat
  BY <1>6, WholeBytes
<1> HIDE DEF d, r
<1>8. Begins
  <2>1. CASE r = <<>>
    <3>1. left = d /\ SubSeq(left, 1, Len(left)) = left /\ Len(left) \in 0 .. Len(left)
      BY <1>5, <1>7, <2>1
    <3>2. FrontAndTorn(saved(left), Len(left))
      BY <1>7, <3>1, NothingTorn
    <3>3. saved(left) = file
      <4>1. saved(d) \in Seq(Byte)
        BY <1>3, SavedComesBack
      <4> QED BY <1>4, <2>1, <3>1, <4>1, EmptyPiece
    <3> QED BY <1>7, <3>1, <3>2, <3>3 DEF Begins
  <2>2. CASE r # <<>>
    <3>1. left = Append(d, r)
      BY <1>5, <2>2
    <3> DEFINE n == Len(d)
    <3>2. /\ n \in Nat /\ Len(left) = n + 1 /\ left[n + 1] = r /\ SubSeq(left, 1, n) = d
          /\ n \in 0 .. Len(left) - 1 /\ n \in 0 .. Len(left) /\ n # Len(left)
      <4>1. /\ n \in Nat /\ Len(Append(d, r)) = n + 1 /\ Append(d, r)[n + 1] = r
            /\ SubSeq(Append(d, r), 1, n) = d
        BY <1>3
      <4> HIDE DEF n
      <4> QED BY <3>1, <4>1
    <3> HIDE DEF n
    <3>3. saved(left) = saved(d) \o Append(r, "lf") /\ saved(d) \in Seq(Byte)
      BY <1>3, <3>1, OneEntryMore
    <3>4. "lf" \in Byte
      BY DEF Byte, OneByte
    <3> DEFINE out == Append(r, "lf")
               s   == saved(d)
    <3>5. out \in Seq(Byte)
      BY <1>3, <3>4
    <3>6. r \in Prefixes(out)
      <4>1. Len(r) \in 0 .. Len(out) /\ SubSeq(out, 1, Len(r)) = r
        BY <1>3, <3>4
      <4> HIDE DEF out
      <4> QED BY <4>1 DEF Prefixes
    <3>7. Torn(r, out)
      <4>1. <<>> \in Prefixes(out) /\ r = r \o <<>>
        <5> HIDE DEF out
        <5> QED BY <1>3, <3>5, PrefixFacts, EmptyPiece
      <4> QED BY <3>6, <4>1 DEF Torn
    <3>8. r \in tornOff(left, n)
      BY <3>2, <3>7, TornIs
    <3>9. FrontAndTorn(file, n)
      BY <1>4, <3>2, <3>8 DEF FrontAndTorn
    <3>10. file # saved(left)
      <4>1. Len(s \o r) # Len(s \o out)
        <5>1. s \in Seq(Byte) /\ Len(out) = Len(r) + 1 /\ Len(r) \in Nat
          BY <1>3, <3>3
        <5> HIDE DEF s, out
        <5> QED BY <1>3, <3>5, <5>1
      <4> QED BY <1>4, <3>3, <4>1
    <3> QED BY <3>2, <3>9, <3>10 DEF Begins, ReplInit
  <2> QED BY <2>1, <2>2
<1>9. Kinds
  <2>1. pending = <<>> /\ <<>> \in Seq(Byte)
    BY DEF ReplInit
  <2> QED BY <1>2, <1>6, <2>1 DEF Kinds
<1>10. history = <<>> /\ main = "started" /\ written = 0 /\ pending = <<>>
  BY DEF ReplInit, Init
<1> QED BY <1>1, <1>8, <1>9, <1>10 DEF RInv, Loading, Unsaved, Saving

\* A step that leaves the disk alone, and the save.
LEMMA DiskStays ==
  ASSUME Begins, UNCHANGED <<file, left, broken>>
  PROVE  Begins'
<1>1. PICK n \in 0 .. Len(left) : (n < Len(left) => broken) /\ FrontAndTorn(file, n)
  BY DEF Begins
<1>2. left' = left /\ broken' = broken /\ file' = file
  OBVIOUS
<1>3. FrontAndTorn(file, n)'
  BY <1>1, <1>2 DEF FrontAndTorn
<1> QED BY <1>1, <1>2, <1>3 DEF Begins

\* The save and its end: an entry that is written, in whole, in part or not.
LEMMA SaveKeeps ==
  ASSUME RInv, saveLine, left \in Seq(Seq(Byte))
  PROVE  Kinds' /\ Saving'
<1>1. /\ main = "saving" /\ written < Len(history) /\ written' = written + 1
      /\ UNCHANGED <<main, history, keyboard, usable, left, broken>>
  BY DEF saveLine, editor, vars, store, past
<1>2. /\ usable /\ broken /\ left = history /\ written \in 0 .. Len(history)
      /\ pending = <<>> => file = saved(SubSeq(left, 1, written))
      /\ pending # <<>> =>
           \E n \in 0 .. Len(left) - 1 : \A part \in Prefixes(pending) : FrontAndTorn(file \o part, n)
      /\ left \in Seq(Texts(keyboard)) /\ file \in Seq(Byte) /\ pending \in Seq(Byte)
  BY <1>1 DEF RInv, Saving, Kinds
<1>3. Texts(keyboard)' = Texts(keyboard)
  BY <1>1 DEF Texts
<1>4. /\ Len(left) \in Nat /\ written \in Nat /\ written \in 0 .. Len(left) - 1
      /\ written' \in 0 .. Len(left) /\ written + 1 \in 1 .. Len(left)
  <2>1. Len(left) \in Nat
    OBVIOUS
  <2> QED BY <1>1, <1>2, <2>1
<1> DEFINE out == Append(left[written + 1], "lf")
           s   == saved(SubSeq(left, 1, written))
<1>5. /\ left[written + 1] \in Seq(Byte) /\ saved(SubSeq(left, 1, written + 1)) = s \o out
      /\ s \in Seq(Byte)
  BY <1>4, LineSaved
<1>6. out \in Seq(Byte)
  <2>1. "lf" \in Byte
    BY DEF Byte, OneByte
  <2> QED BY <1>5, <2>1
<1>7. entryOut = out
  BY <1>2 DEF entryOut
<1>8. CASE pending # <<>> /\ UNCHANGED <<file, pending>>
  <2>1. PICK n \in 0 .. Len(left) - 1 : \A part \in Prefixes(pending) : FrontAndTorn(file \o part, n)
    BY <1>2, <1>8
  <2>2. \A part \in Prefixes(pending') : FrontAndTorn(file \o part, n)'
    BY <1>1, <1>8, <2>1 DEF FrontAndTorn
  <2>3. Kinds'
    BY <1>1, <1>2, <1>3, <1>8 DEF Kinds
  <2>4. Saving'
    BY <1>1, <1>2, <1>4, <1>8, <2>2 DEF Saving
  <2> QED BY <2>3, <2>4
<1>9. CASE pending = <<>> /\ file' = file \o entryOut /\ UNCHANGED pending
  <2>1. file' = saved(SubSeq(left, 1, written + 1))
    BY <1>2, <1>5, <1>7, <1>9
  <2>2. file' \in Seq(Byte)
    <3> HIDE DEF out, s
    <3> QED BY <1>2, <1>6, <1>7, <1>9
  <2>3. Kinds'
    BY <1>1, <1>2, <1>3, <1>9, <2>2 DEF Kinds
  <2>4. pending' = <<>> /\ file' = saved(SubSeq(history', 1, written'))
    BY <1>1, <1>2, <1>9, <2>1
  <2>5. Saving'
    BY <1>1, <1>2, <1>4, <2>4 DEF Saving
  <2> QED BY <2>3, <2>5
<1>10. ASSUME pending = <<>>, NEW n \in 0 .. Len(entryOut) - 1,
              file' = file \o SubSeq(entryOut, 1, n),
              pending' \in {entryOut, SubSeq(entryOut, n + 1, Len(entryOut))}
       PROVE  Kinds' /\ Saving'
  <2> HIDE DEF out, s
  <2>1. n \in 0 .. Len(out) - 1 /\ pending' \in {out, SubSeq(out, n + 1, Len(out))}
    BY <1>7, <1>10
  <2>2. file = s /\ file' = s \o SubSeq(out, 1, n)
    BY <1>2, <1>7, <1>10 DEF s
  <2>3. ASSUME NEW part \in Prefixes(pending')
        PROVE  /\ Torn(SubSeq(out, 1, n) \o part, out)
               /\ SubSeq(out, 1, n) \in Seq(Byte) /\ part \in Seq(Byte)
               /\ pending' \in Seq(Byte) /\ pending' # <<>>
    BY <1>6, <2>1, PartsOfLine
  <2>4. SubSeq(out, 1, n) \in Seq(Byte) /\ pending' \in Seq(Byte) /\ pending' # <<>>
    <3>1. SubSeq(pending', 1, 0) \in Prefixes(pending')
      <4> DEFINE p == pending'
      <4>1. p \in Seq(Byte)
        <5>1. CASE p = out
          BY <1>6, <5>1
        <5>2. CASE p = SubSeq(out, n + 1, Len(out))
          <6>1. n + 1 \in 1 .. Len(out) /\ Len(out) \in Nat
            BY <1>6, <2>1
          <6> QED BY <1>6, <5>2, <6>1
        <5> QED BY <2>1, <5>1, <5>2
      <4> HIDE DEF p
      <4>2. 0 \in 0 .. Len(p)
        BY <4>1
      <4>3. SubSeq(p, 1, 0) \in Prefixes(p)
        BY <4>2 DEF Prefixes
      <4> QED BY <4>3 DEF p
    <3> QED BY <2>3, <3>1
  <2>5. file' \in Seq(Byte)
    BY <1>5, <2>2, <2>4 DEF s
  <2>6. ASSUME NEW part \in Prefixes(pending') PROVE FrontAndTorn(file' \o part, written)
    <3>1. Torn(SubSeq(out, 1, n) \o part, Append(left[written + 1], "lf"))
      BY <2>3 DEF out
    <3>2. SubSeq(out, 1, n) \in Seq(Byte) /\ part \in Seq(Byte)
      BY <2>3
    <3>3. FrontAndTorn((saved(SubSeq(left, 1, written)) \o SubSeq(out, 1, n)) \o part, written)
      BY <1>4, <3>1, <3>2, FrontTorn
    <3> QED BY <2>2, <3>3 DEF s
  <2>7. Kinds'
    BY <1>1, <1>2, <1>3, <2>4, <2>5 DEF Kinds
  <2>8. \A part \in Prefixes(pending') : \E torn \in tornOff(left, written) :
           file' \o part = saved(SubSeq(left, 1, written)) \o torn
    BY <2>6 DEF FrontAndTorn
  <2>9. Saving'
    <3>1. \E k \in 0 .. Len(left') - 1 : \A part \in Prefixes(pending') : \E torn \in tornOff(left', k) :
            file' \o part = saved(SubSeq(left', 1, k)) \o torn
      BY <1>1, <1>4, <2>8
    <3> QED BY <1>1, <1>2, <1>4, <2>4, <3>1 DEF Saving, FrontAndTorn
  <2> QED BY <2>7, <2>9
<1> QED BY <1>8, <1>9, <1>10 DEF saveLine

\* During a save the file is a beginning too, and after it.
LEMMA SavingBegins ==
  ASSUME RInv, main = "saving", left \in Seq(Seq(Byte)) PROVE Begins
<1>1. /\ broken /\ left = history /\ written \in 0 .. Len(left) /\ file \in Seq(Byte)
      /\ pending = <<>> => file = saved(SubSeq(left, 1, written))
      /\ pending # <<>> =>
           \E n \in 0 .. Len(left) - 1 : \A part \in Prefixes(pending) : FrontAndTorn(file \o part, n)
      /\ pending \in Seq(Byte)
  BY DEF RInv, Saving, Kinds
<1>2. CASE pending = <<>>
  BY <1>1, <1>2, NothingTorn DEF Begins
<1>3. CASE pending # <<>>
  <2>1. PICK n \in 0 .. Len(left) - 1 : \A part \in Prefixes(pending) : FrontAndTorn(file \o part, n)
    BY <1>1, <1>3
  <2>2. <<>> \in Prefixes(pending) /\ file \o <<>> = file
    BY <1>1, PrefixFacts, EmptyPiece
  <2>3. FrontAndTorn(file, n)
    BY <2>1, <2>2
  <2>4. n \in 0 .. Len(left)
    OBVIOUS
  <2> QED BY <1>1, <2>3, <2>4 DEF Begins
<1> QED BY <1>2, <1>3

LEMMA CloseKeeps ==
  ASSUME RInv, closeFile, left \in Seq(Seq(Byte)) PROVE Begins' /\ file' \in Seq(Byte)
<1>1. main = "saving" /\ written = Len(history) /\ broken' = (pending # <<>>) /\ left' = left
  BY DEF closeFile
<1>2. /\ left = history /\ file \in Seq(Byte) /\ pending \in Seq(Byte) /\ Len(left) \in Nat
      /\ pending = <<>> => file = saved(SubSeq(left, 1, written))
      /\ pending # <<>> =>
           \E n \in 0 .. Len(left) - 1 : \A part \in Prefixes(pending) : FrontAndTorn(file \o part, n)
  BY <1>1 DEF RInv, Saving, Kinds
<1>3. PICK part \in Prefixes(pending) : file' = file \o part
  BY DEF closeFile
<1>4. part \in Seq(Byte) /\ file' \in Seq(Byte)
  <2>1. part \in Seq(Byte)
    BY <1>2, PrefixFacts
  <2> QED BY <1>2, <1>3, <2>1
<1>5. CASE pending = <<>>
  <2>1. part = <<>> /\ file' = file
    BY <1>2, <1>3, <1>5, PrefixFacts, EmptyPiece
  <2>2. Len(left) \in 0 .. Len(left) /\ written = Len(left)
    BY <1>1, <1>2
  <2>3. FrontAndTorn(file, Len(left))
    BY <1>2, <1>5, <2>2, NothingTorn
  <2>4. FrontAndTorn(file, Len(left))'
    BY <1>1, <2>1, <2>3 DEF FrontAndTorn
  <2> QED BY <1>1, <1>2, <1>4, <2>2, <2>4 DEF Begins
<1>6. CASE pending # <<>>
  <2>1. PICK n \in 0 .. Len(left) - 1 : FrontAndTorn(file \o part, n)
    BY <1>2, <1>6
  <2>2. FrontAndTorn(file, n)'
    BY <1>1, <1>3, <2>1 DEF FrontAndTorn
  <2>3. n \in 0 .. Len(left)
    OBVIOUS
  <2> QED BY <1>1, <1>4, <1>6, <2>2, <2>3 DEF Begins
<1> QED BY <1>5, <1>6

LEMMA KillKeeps ==
  ASSUME RInv, kill, left \in Seq(Seq(Byte))
  PROVE  (usable => Begins') /\ file' \in Seq(Byte)
<1>1. UNCHANGED <<left, broken, history>>
  BY DEF kill, past, editor, vars, store
<1>2. file \in Seq(Byte)
  BY DEF RInv, Kinds
<1>3. CASE UNCHANGED file
  <2>1. usable => Begins
    BY SavingBegins DEF RInv
  <2> QED BY <1>1, <1>2, <1>3, <2>1, DiskStays
<1>4. CASE main = "saving" /\ written < Len(history) /\ pending = <<>>
           /\ file' \in {file \o part : part \in Prefixes(entryOut)}
  <2>1. /\ broken /\ left = history /\ written \in 0 .. Len(left) - 1
        /\ file = saved(SubSeq(left, 1, written)) /\ written \in 0 .. Len(left)
    <3>1. left = history /\ broken /\ written \in 0 .. Len(history) /\ file = saved(SubSeq(left, 1, written))
      BY <1>4 DEF RInv, Saving
    <3>2. Len(left) \in Nat
      OBVIOUS
    <3> QED BY <1>4, <3>1, <3>2
  <2> DEFINE out == Append(left[written + 1], "lf")
  <2>2. left[written + 1] \in Seq(Byte) /\ "lf" \in Byte /\ saved(SubSeq(left, 1, written)) \in Seq(Byte)
    BY <2>1, LineSaved DEF Byte, OneByte
  <2>3. out \in Seq(Byte)
    BY <2>2
  <2>4. entryOut = out
    BY <2>1 DEF entryOut
  <2> HIDE DEF out
  <2>5. PICK part \in Prefixes(out) : file' = file \o part
    BY <1>4, <2>4
  <2>6. part \in Seq(Byte) /\ <<>> \in Prefixes(out) /\ part \o <<>> = part
    BY <2>3, PrefixFacts, EmptyPiece
  <2>7. Torn(part, out)
    BY <2>5, <2>6 DEF Torn
  <2>8. part \in tornOff(left, written)
    <3>1. written # Len(left)
      BY <2>1
    <3> QED BY <2>7, <3>1, TornIs DEF out
  <2>9. file' = saved(SubSeq(left', 1, written)) \o part
    BY <1>1, <2>1, <2>5
  <2>10. file' \in Seq(Byte)
    BY <1>2, <2>5, <2>6
  <2>11. \E n \in 0 .. Len(left') : (n < Len(left') => broken') /\ \E torn \in tornOff(left', n) :
           file' = saved(SubSeq(left', 1, n)) \o torn
    BY <1>1, <2>1, <2>8, <2>9
  <2> QED BY <2>10, <2>11 DEF Begins, FrontAndTorn
<1> QED BY <1>3, <1>4 DEF kill

LEMMA NextRInv == ASSUME WholeInput, RInv, TornWhole, [ReplNext]_replVars PROVE RInv'
<1>1. Session' /\ Modes' /\ keyboard' = keyboard /\ Texts(keyboard)' = Texts(keyboard)
  BY NextSessions DEF Texts
<1>2. Session /\ Modes /\ Kinds /\ Loading /\ Unsaved /\ Saving /\ (usable /\ main # "saving" => Begins)
  BY DEF RInv
<1>3. left \in Seq(Seq(Byte)) /\ history \in Seq(Texts(keyboard))
  BY <1>2, WholeBytes DEF Kinds, Session
<1>4. ASSUME UNCHANGED <<file, pending, left>> PROVE Kinds'
  BY <1>1, <1>2, <1>4 DEF Kinds
<1>5. CASE setHistoryMaxLen
  <2>1. /\ main = "started" /\ main' = "loading" /\ history_max_len' = HistoryLength
        /\ UNCHANGED <<file, usable, written, pending, left, broken>>
    BY <1>5 DEF setHistoryMaxLen, SetHistoryMaxLen, disk, past
  <2>2. history' = <<>>
    <3>1. history = <<>>
      BY <1>2, <2>1 DEF Loading
    <3>2. history' = SubSeq(history, 1, IF HistoryLength < Len(history)
                                        THEN HistoryLength ELSE Len(history))
      BY <1>5 DEF setHistoryMaxLen, SetHistoryMaxLen
    <3>3. history' = SubSeq(<<>>, 1, 0)
      <4>1. Len(<<>>) = 0 /\ ~(HistoryLength < 0)
        BY ReplAssumption, LengthAssumption
      <4> QED BY <3>1, <3>2, <4>1
    <3> QED BY <3>3
  <2>3. usable => Begins'
    BY <1>2, <2>1, DiskStays
  <2> QED BY <1>1, <1>2, <1>4, <2>1, <2>2, <2>3 DEF RInv, Loading, Unsaved, Saving
<1>6. CASE loadHistory
  <2>1. main = "loading" /\ main' = "read" /\ UNCHANGED <<file, usable, written, pending, left, broken>>
    BY <1>6 DEF loadHistory, disk, past
  <2>2. usable => Begins'
    BY <1>2, <2>1, DiskStays
  <2> QED BY <1>1, <1>2, <1>4, <2>1, <2>2 DEF RInv, Loading, Unsaved, Saving
<1>7. CASE readline \/ type \/ evaluate
  <2>1. /\ main \in {"read", "editing", "returned"} /\ main' \in {"read", "editing", "returned"}
        /\ UNCHANGED <<file, usable, written, pending, left, broken>>
    BY <1>7 DEF readline, type, evaluate, disk, past
  <2>2. usable => Begins'
    BY <1>2, <2>1, DiskStays
  <2> QED BY <1>1, <1>2, <1>4, <2>1, <2>2 DEF RInv, Loading, Unsaved, Saving
<1>8. CASE openFile
  <2>1. /\ main = "returned" /\ main' = IF usable THEN "saving" ELSE "leaving"
        /\ file' = IF usable THEN <<>> ELSE file
        /\ left' = history /\ broken' = usable
        /\ UNCHANGED <<history, usable, written, pending>>
    BY <1>8 DEF openFile, editor, vars, store
  <2>2. written = 0 /\ pending = <<>>
    BY <1>2, <2>1 DEF Unsaved
  <2>3. Kinds'
    <3>1. <<>> \in Seq(Byte)
      OBVIOUS
    <3> QED BY <1>1, <1>2, <1>3, <2>1, <3>1 DEF Kinds
  <2>4. Saving'
    <3>1. SubSeq(history, 1, 0) = <<>> /\ 0 \in 0 .. Len(history)
      BY <1>3
    <3> QED BY <2>1, <2>2, <3>1, NothingSaved DEF Saving
  <2> QED BY <1>1, <2>1, <2>3, <2>4 DEF RInv, Loading, Unsaved
<1>9. CASE saveLine
  <2>1. main = "saving" /\ main' = main
    BY <1>9 DEF saveLine
  <2> QED BY <1>1, <1>3, <1>9, <2>1, SaveKeeps DEF RInv, Loading, Unsaved
<1>10. CASE closeFile
  <2>1. main' = "leaving" /\ UNCHANGED <<pending, left>>
    BY <1>10 DEF closeFile
  <2>2. Begins' /\ file' \in Seq(Byte)
    BY <1>3, <1>10, CloseKeeps
  <2>3. Kinds'
    BY <1>1, <1>2, <2>1, <2>2 DEF Kinds
  <2> QED BY <1>1, <2>1, <2>2, <2>3 DEF RInv, Loading, Unsaved, Saving
<1>11. CASE exit
  <2>1. main = "leaving" /\ main' = "ended" /\ UNCHANGED <<file, usable, pending, left, broken>>
    BY <1>11 DEF exit, disk, past
  <2>2. usable => Begins'
    BY <1>2, <2>1, DiskStays
  <2> QED BY <1>1, <1>4, <2>1, <2>2 DEF RInv, Loading, Unsaved, Saving
<1>12. CASE kill
  <2>1. main' = "killed" /\ UNCHANGED <<usable, pending, left>>
    BY <1>12 DEF kill, past
  <2>2. (usable => Begins') /\ file' \in Seq(Byte)
    BY <1>3, <1>12, KillKeeps
  <2>3. Kinds'
    BY <1>1, <1>2, <2>1, <2>2 DEF Kinds
  <2> QED BY <1>1, <2>1, <2>2, <2>3 DEF RInv, Loading, Unsaved, Saving
<1>13. CASE restart
  <2>1. /\ main \in {"ended", "killed"} /\ main' = "started"
        /\ history' = <<>> /\ written' = 0 /\ pending' = <<>>
        /\ UNCHANGED <<file, usable, left, broken>>
    BY <1>13 DEF restart, over
  <2>2. usable => Begins'
    BY <1>2, <2>1, DiskStays
  <2>3. Kinds'
    <3>1. <<>> \in Seq(Byte)
      OBVIOUS
    <3> QED BY <1>1, <1>2, <2>1, <3>1 DEF Kinds
  <2> QED BY <1>1, <2>1, <2>2, <2>3 DEF RInv, Loading, Unsaved, Saving
<1>14. CASE UNCHANGED replVars
  <2>1. UNCHANGED <<main, history, history_max_len, file, usable, written, pending, left, broken>>
    BY <1>14 DEF replVars, editor, vars, store, disk, past
  <2>2. main # "saving" /\ usable => Begins'
    BY <1>2, <2>1, DiskStays
  <2>3. Saving'
    BY <1>2, <2>1 DEF Saving, FrontAndTorn
  <2> QED BY <1>1, <1>2, <1>4, <2>1, <2>2, <2>3 DEF RInv, Loading, Unsaved
<1> QED BY <1>5, <1>6, <1>7, <1>8, <1>9, <1>10, <1>11, <1>12, <1>13, <1>14 DEF ReplNext, run

LEMMA SessionsHold == WholeInput => (ReplSpec /\ []TornWhole => []RInv)
<1> SUFFICES ASSUME WholeInput PROVE ReplSpec /\ []TornWhole => []RInv
  OBVIOUS
<1>1. RInv /\ TornWhole /\ [ReplNext]_replVars => RInv'
  BY NextRInv
<1>2. ReplInit => RInv
  BY InitRInv
<1> QED BY <1>1, <1>2, PTL DEF ReplSpec

\* At all times, between any two writes and in the middle of one, the file is
\* the entries that the last session left, up to one of them: this one is the
\* last, unless the save has not, or not well, come to its end, and then a part
\* or two of the next may follow.  (SaveHistory(), and whatever breaks it off.)
THEOREM FileBegins == WholeInput => (ReplSpec /\ []TornWhole => [](usable => Begins))
<1> SUFFICES ASSUME WholeInput PROVE ReplSpec /\ []TornWhole => [](usable => Begins)
  OBVIOUS
<1>1. ASSUME RInv PROVE usable => Begins
  <2>1. left \in Seq(Seq(Byte))
    BY <1>1, WholeBytes DEF RInv, Kinds
  <2> QED BY <1>1, <2>1, SavingBegins DEF RInv
<1>2. RInv => (usable => Begins)
  BY <1>1
<1> QED BY <1>2, SessionsHold, PTL

\* However the sessions before have ended, a session begins with the latest
\* lines of what the last one left, where an entry that holds line feeds is in
\* pieces; of a save that was broken off, with those of its first entries and a
\* part of the next.  (LoadHistory(), over the invariant.)
THEOREM SessionsResume == WholeInput => (ReplSpec /\ []TornWhole => SessionResumes)
<1> SUFFICES ASSUME WholeInput PROVE ReplSpec /\ []TornWhole => SessionResumes
  OBVIOUS
<1> DEFINE Resumes ==
      main = "loading" /\ main' = "read" /\ usable =>
        \E n \in 0 .. Len(left) :
          /\ n < Len(left) => broken
          /\ \E torn \in tornOff(left, n) :
               holdsLatest(history', comesBack(SubSeq(left, 1, n)) \o linesOf(torn))
<1>1. ASSUME RInv, [ReplNext]_replVars PROVE Resumes
  <2> SUFFICES ASSUME main = "loading", main' = "read", usable
               PROVE  \E n \in 0 .. Len(left) :
                        /\ n < Len(left) => broken
                        /\ \E torn \in tornOff(left, n) :
                             holdsLatest(history', comesBack(SubSeq(left, 1, n)) \o linesOf(torn))
    OBVIOUS
  <2>1. loadHistory
    BY <1>1
    DEF ReplNext, run, setHistoryMaxLen, readline, type, evaluate, openFile, saveLine, closeFile,
        exit, kill, restart, over, replVars
  <2>2. left \in Seq(Seq(Byte)) /\ file \in Seq(Byte)
    BY <1>1, WholeBytes DEF RInv, Kinds
  <2>3. PICK n \in 0 .. Len(left) : (n < Len(left) => broken) /\ FrontAndTorn(file, n)
    BY <1>1 DEF RInv, Begins
  <2>4. PICK torn \in tornOff(left, n) : file = saved(SubSeq(left, 1, n)) \o torn
    BY <2>3 DEF FrontAndTorn
  <2>5. torn \in Seq(Byte) /\ SubSeq(left, 1, n) \in Seq(Seq(Byte))
    BY <2>2, TornBytes
  <2>6. linesOf(file) = comesBack(SubSeq(left, 1, n)) \o linesOf(torn)
    <3> DEFINE h == SubSeq(left, 1, n)
    <3>1. h \in Seq(Seq(Byte)) /\ file = saved(h) \o torn
      BY <2>4, <2>5
    <3> HIDE DEF h
    <3>2. linesOf(file) = comesBack(h) \o linesOf(torn)
      BY <2>5, <3>1, FileComesBack
    <3> QED BY <3>2 DEF h
  <2>7. holdsLatest(history', linesOf(file))
    <3>1. linesOf(file) \in Seq(Seq(Byte))
      BY <2>2, GotType
    <3>2. LoadHistory(file) /\ history = <<>> /\ history_max_len = HistoryLength
      BY <1>1, <2>1 DEF loadHistory, RInv, Loading
    <3> QED BY <3>1, <3>2, LoadHolds
  <2> QED BY <2>3, <2>6, <2>7
<1>2. RInv /\ [ReplNext]_replVars => [Resumes]_replVars
  BY <1>1
<1>3. SessionResumes <=> [][Resumes]_replVars
  BY PTL DEF SessionResumes
<1> QED BY <1>2, <1>3, SessionsHold, PTL DEF ReplSpec

\* In every session of the REPL, the limit of the history holds and all
\* characters are whole, as long as none is torn on the disk: what the line
\* editor assumes of the files that it loads, a save that comes to its end
\* guarantees.  (main(), AddHistory(), SaveHistory() and LoadHistory() around
\* Readline().)
THEOREM SessionsKeepCharacters ==
  WholeInput => (ReplSpec /\ []TornWhole => [](TypeOK /\ HistoryBounded /\ WholeCharacters))
<1>1. ASSUME RInv PROVE TypeOK /\ HistoryBounded /\ WholeCharacters
  BY <1>1, SessionTyped, SessionBounded, SessionWhole DEF RInv
<1>2. RInv => TypeOK /\ HistoryBounded /\ WholeCharacters
  BY <1>1
<1> QED BY <1>2, SessionsHold, PTL

(***************************************************************************)
(* Where every character has one byte, no part of one can be left.         *)
(***************************************************************************)

\* With Ctrl-T among the keys, whole input has only such characters.
OneByteCharacters == \A k \in Keyboards : "ctrl_t" \in k.keys

LEMMA OneByteTexts ==
  ASSUME NEW k, "ctrl_t" \in k.keys
  PROVE  Texts(k) = Seq(OneByte)
<1>1. OneByte \subseteq Byte /\ OneByte \cap Lead = {} /\ OneByte \cap Continuation = {}
  BY DEF OneByte, Byte, Lead, Continuation
<1>2. ASSUME NEW s \in Seq(OneByte) PROVE s \in Texts(k)
  <2>1. s \in Seq(Byte)
    BY <1>1, Wider
  <2>2. \A i \in DOMAIN s : s[i] \in OneByte
    OBVIOUS
  <2>3. Whole(s)
    BY <1>1, <2>2 DEF Whole
  <2> QED BY <2>1, <2>3 DEF Texts
<1>3. Texts(k) \subseteq Seq(OneByte)
  BY DEF Texts
<1> QED BY <1>2, <1>3

LEMMA OneByteTorn == ASSUME OneByteCharacters, RInv PROVE TornWhole
<1> SUFFICES ASSUME main = "loading", usable PROVE linesOf(file) \in Seq(Texts(keyboard))
  BY DEF TornWhole
<1>1. Texts(keyboard) = Seq(OneByte)
  BY OneByteTexts DEF OneByteCharacters, RInv, Session
<1>2. left \in Seq(Texts(keyboard)) /\ left \in Seq(Seq(Byte)) /\ Len(left) \in Nat
  BY WholeBytes DEF RInv, Kinds
<1>3. PICK n \in 0 .. Len(left) : FrontAndTorn(file, n)
  BY DEF RInv, Begins
<1>4. PICK torn \in tornOff(left, n) : file = saved(SubSeq(left, 1, n)) \o torn
  BY <1>3 DEF FrontAndTorn
<1> DEFINE h == SubSeq(left, 1, n)
           T == Texts(keyboard)
<1>5. h \in Seq(T) /\ torn \in Seq(Byte)
  <2>1. torn \in Seq(Byte)
    BY <1>2, TornBytes
  <2> HIDE DEF T
  <2>2. left \in Seq(T)
    BY <1>2 DEF T
  <2> QED BY <2>1, <2>2
<1>6. torn \in Seq(OneByte)
  <2>1. CASE n = Len(left)
    BY <2>1 DEF tornOff
  <2>2. CASE n # Len(left)
    <3> DEFINE out == Append(left[n + 1], "lf")
    <3>1. left[n + 1] \in T
      BY <1>2, <2>2
    <3>2. "lf" \in OneByte
      BY DEF OneByte
    <3>3. out \in Seq(OneByte)
      BY <1>1, <3>1, <3>2
    <3> HIDE DEF out
    <3>4. Torn(torn, out)
      BY <2>2, TornIs DEF out
    <3>5. PICK p \in Prefixes(out) : \E q \in Prefixes(out) : torn = p \o q
      BY <3>4 DEF Torn
    <3>6. PICK q \in Prefixes(out) : torn = p \o q
      BY <3>5
    <3>7. p \in Seq(OneByte) /\ q \in Seq(OneByte)
      BY <3>3, PrefixFacts
    <3> QED BY <3>6, <3>7
  <2> QED BY <2>1, <2>2
<1>7. linesOf(torn) \in Seq(T)
  BY <1>1, <1>6, GotType
<1> HIDE DEF h, T
<1>8. comesBack(h) \in Seq(T) /\ h \in Seq(Seq(Byte))
  BY <1>5, WholeComesBack DEF T
<1>9. linesOf(file) = comesBack(h) \o linesOf(torn)
  BY <1>4, <1>5, <1>8, FileComesBack DEF h
<1> QED BY <1>7, <1>8, <1>9 DEF T

\* So then nothing need be assumed of the disk: sessions resume and keep their
\* characters whatever a kill or a full disk leaves of a save.
THEOREM OneByteResumes ==
  WholeInput /\ OneByteCharacters =>
    (ReplSpec => SessionResumes /\ [](HistoryBounded /\ WholeCharacters))
<1> SUFFICES ASSUME WholeInput, OneByteCharacters
             PROVE  ReplSpec => SessionResumes /\ [](HistoryBounded /\ WholeCharacters)
  OBVIOUS
<1>1. ASSUME RInv, [ReplNext]_replVars PROVE RInv'
  BY <1>1, OneByteTorn, NextRInv
<1>2. RInv /\ [ReplNext]_replVars => RInv'
  BY <1>1
<1>3. ReplInit => RInv
  BY InitRInv
<1>4. RInv => TornWhole
  BY OneByteTorn
<1> QED BY <1>2, <1>3, <1>4, SessionsResume, SessionsKeepCharacters, PTL DEF ReplSpec

\* The REPL gives the terminal back too: in each of its processes, also one
\* that is killed between two lines.  (linenoiseRaw, linenoiseAtExit, main().)
THEOREM ReplGivesBack ==
  RestoreMayFail = FALSE => (ReplSpec => []TerminalRestored)
<1> SUFFICES ASSUME RestoreMayFail = FALSE PROVE ReplSpec => []TerminalRestored
  OBVIOUS
<1>1. ASSUME IInv, [ReplNext]_replVars PROVE IInv'
  <2>1. CASE [Next]_vars
    BY <1>1, <2>1, NextIInv
  <2>2. CASE loadHistory
    BY <1>1, <2>2 DEF loadHistory, LoadHistory, IInv, tty
  <2>3. CASE restart
    BY <2>3, Restarted DEF IInv
  <2> QED BY <1>1, <2>1, <2>2, <2>3, EditorStep
<1>2. ReplInit => IInv
  BY InitIInv DEF ReplInit
<1>3. IInv => TerminalRestored
  BY DEF IInv, TerminalRestored
<1>4. IInv /\ [ReplNext]_replVars => IInv'
  BY <1>1
<1> QED BY <1>2, <1>3, <1>4, PTL DEF ReplSpec
=============================================================================
