---------------------------- MODULE DisplayProofs ----------------------------
(***************************************************************************)
(* The screen shows the line, in both modes, after any sequence of edits:  *)
(* for every prompt, every set of texts and every width of the terminal    *)
(* that a wide character does not fill.                                    *)
(*                                                                         *)
(* What the editor counts, the columns of a text in rows, is related to    *)
(* where the terminal is after the text (section "Multi line mode"); the   *)
(* erasing is shown to leave the rows from the prompt's on empty; and both *)
(* modes are shown to keep an invariant of the screen and of what the      *)
(* editor remembers of it.                                                 *)
(***************************************************************************)
EXTENDS Display, WellFoundedInduction, TLAPS

(***************************************************************************)
(* Induction: over numbers, over sequences, and over the sets that the     *)
(* folds go through.                                                       *)
(***************************************************************************)

LEMMA LeastElement ==
  ASSUME NEW T \in SUBSET Nat, T # {}
  PROVE  \E x \in T : \A y \in T : x <= y
<1> DEFINE Less == {ss \in Nat \X Nat : ss[1] < ss[2]}
<1>1. IsWellFoundedOn(Less, Nat)
  BY NatLessThanWellFounded, Zenon DEF OpToRel
<1>2. PICK x \in T : \A y \in T : ~ (<<y, x>> \in Less)
  <2> HIDE DEF Less
  <2> QED BY <1>1, WFMin
<1>3. ASSUME NEW y \in T, y < x PROVE FALSE
  <2>1. <<y, x>> \in Less
    BY <1>3
  <2> QED BY <1>2, <2>1
<1> QED BY <1>3

LEMMA UpTo ==
  ASSUME NEW N \in Nat, NEW S, 0 \in S, \A n \in 1 .. N : n - 1 \in S => n \in S
  PROVE  \A n \in 0 .. N : n \in S
<1> DEFINE T == {n \in 0 .. N : n \notin S}
<1> SUFFICES ASSUME T # {} PROVE FALSE
  OBVIOUS
<1>1. PICK n \in T : \A m \in T : n <= m
  <2>1. T \in SUBSET Nat
    OBVIOUS
  <2> HIDE DEF T
  <2> QED BY <2>1, LeastElement
<1>2. n \in 1 .. N /\ n - 1 \in 0 .. N /\ n - 1 \notin T
  BY <1>1
<1> QED BY <1>1, <1>2

\* A sequence of one element more.
LEMMA Longer ==
  ASSUME NEW A, NEW s \in Seq(A), NEW c \in A
  PROVE  /\ Append(s, c) \in Seq(A)
         /\ Len(Append(s, c)) = Len(s) + 1
         /\ Append(s, c)[Len(s) + 1] = c
         /\ \A i \in 1 .. Len(s) : Append(s, c)[i] = s[i]
OBVIOUS

LEMMA SameElements ==
  ASSUME NEW A, NEW B, NEW s \in Seq(A), NEW t \in Seq(B), Len(s) = Len(t),
         \A i \in 1 .. Len(s) : s[i] = t[i]
  PROVE  s = t
OBVIOUS

LEMMA Prefix ==
  ASSUME NEW A, NEW s \in Seq(A), NEW n \in 0 .. Len(s)
  PROVE  /\ SubSeq(s, 1, n) \in Seq(A) /\ Len(SubSeq(s, 1, n)) = n
         /\ \A i \in 1 .. n : SubSeq(s, 1, n)[i] = s[i]
OBVIOUS

LEMMA PrefixGrows ==
  ASSUME NEW A, NEW s \in Seq(A), NEW n \in 1 .. Len(s)
  PROVE  SubSeq(s, 1, n) = Append(SubSeq(s, 1, n - 1), s[n])
<1> DEFINE p == SubSeq(s, 1, n)
           q == SubSeq(s, 1, n - 1)
           c == s[n]
<1>1. n \in Nat /\ n - 1 \in 0 .. Len(s) /\ n \in 0 .. Len(s) /\ c \in A
  OBVIOUS
<1>2. p \in Seq(A) /\ Len(p) = n /\ \A i \in 1 .. n : p[i] = s[i]
  BY <1>1, Prefix
<1>3. q \in Seq(A) /\ Len(q) = n - 1 /\ \A i \in 1 .. n - 1 : q[i] = s[i]
  BY <1>1, Prefix
<1>4. p[n] = c
  BY <1>1, <1>2
<1> HIDE DEF p, q, c
<1>5. /\ Append(q, c) \in Seq(A) /\ Len(Append(q, c)) = n /\ Append(q, c)[n] = c
      /\ \A i \in 1 .. n - 1 : Append(q, c)[i] = q[i]
  <2>1. /\ Append(q, c) \in Seq(A) /\ Len(Append(q, c)) = Len(q) + 1
        /\ Append(q, c)[Len(q) + 1] = c
        /\ \A i \in 1 .. Len(q) : Append(q, c)[i] = q[i]
    BY <1>1, <1>3, Longer
  <2>2. Len(q) + 1 = n
    BY <1>1, <1>3
  <2> QED BY <1>3, <2>1, <2>2
<1>6. ASSUME NEW i \in 1 .. n PROVE p[i] = Append(q, c)[i]
  <2>1. CASE i = n
    BY <1>4, <1>5, <2>1
  <2>2. CASE i # n
    <3>1. i \in 1 .. n - 1
      BY <1>1, <2>2
    <3> QED BY <1>2, <1>3, <1>5, <3>1
  <2> QED BY <2>1, <2>2
<1>7. p = Append(q, c)
  <2>1. Len(p) = Len(Append(q, c)) /\ \A i \in 1 .. Len(p) : p[i] = Append(q, c)[i]
    BY <1>2, <1>5, <1>6
  <2> DEFINE r == Append(q, c)
  <2>2. r \in Seq(A) /\ Len(p) = Len(r) /\ \A i \in 1 .. Len(p) : p[i] = r[i]
    BY <1>5, <2>1
  <2> HIDE DEF r
  <2>3. p = r
    BY <1>2, <2>2, SameElements
  <2> QED BY <2>3 DEF r
<1> QED BY <1>7 DEF p, q, c

LEMMA WholePrefix ==
  ASSUME NEW A, NEW s \in Seq(A)
  PROVE  SubSeq(s, 1, Len(s)) = s /\ SubSeq(s, 1, 0) = <<>>
OBVIOUS

LEMMA SequenceInduction ==
  ASSUME NEW A, NEW P, <<>> \in P,
         \A s \in Seq(A) : \A c \in A : s \in P => Append(s, c) \in P
  PROVE  \A s \in Seq(A) : s \in P
<1> SUFFICES ASSUME NEW s \in Seq(A) PROVE s \in P
  OBVIOUS
<1> DEFINE N == Len(s)
           S == {n \in 0 .. N : SubSeq(s, 1, n) \in P}
<1>1. N \in Nat /\ SubSeq(s, 1, N) = s /\ SubSeq(s, 1, 0) = <<>>
  BY WholePrefix
<1>2. 0 \in S
  <2>1. SubSeq(s, 1, 0) \in P
    BY <1>1
  <2>2. 0 \in 0 .. N
    BY <1>1
  <2> QED BY <2>1, <2>2
<1>3. ASSUME NEW n \in 1 .. N, n - 1 \in S PROVE n \in S
  <2>1. SubSeq(s, 1, n) = Append(SubSeq(s, 1, n - 1), s[n])
    BY PrefixGrows
  <2>2. SubSeq(s, 1, n - 1) \in Seq(A) /\ s[n] \in A
    <3>1. n - 1 \in 0 .. N /\ s[n] \in A
      BY <1>1
    <3> QED BY <3>1, Prefix
  <2>3. SubSeq(s, 1, n - 1) \in P /\ n \in 0 .. N
    BY <1>1, <1>3
  <2> QED BY <2>1, <2>2, <2>3
<1>4. N \in S
  <2> HIDE DEF S, N
  <2>1. \A n \in 0 .. N : n \in S
    BY <1>1, <1>2, <1>3, UpTo
  <2> QED BY <1>1, <2>1
<1> QED BY <1>1, <1>4

LEMMA MaxIs ==
  ASSUME NEW n \in Nat, NEW S \in SUBSET (1 .. n), S # {}
  PROVE  Max(S) \in S /\ \A y \in S : y <= Max(S)
<1> DEFINE T == {n - x : x \in S}
<1>1. T \in SUBSET Nat /\ T # {}
  <2>1. \A x \in S : x \in 1 .. n
    OBVIOUS
  <2>2. \A x \in 1 .. n : n - x \in Nat
    OBVIOUS
  <2> QED BY <2>1, <2>2
<1>2. PICK y \in T : \A z \in T : y <= z
  <2> HIDE DEF T
  <2> QED BY <1>1, LeastElement
<1>3. PICK m \in S : y = n - m
  BY <1>2
<1>4. \A z \in S : m >= z
  <2> SUFFICES ASSUME NEW z \in S PROVE m >= z
    OBVIOUS
  <2>1. n - z \in T
    OBVIOUS
  <2>2. n - m <= n - z
    BY <1>2, <1>3, <2>1
  <2> QED BY <2>2
<1>5. Max(S) \in S /\ \A z \in S : Max(S) >= z
  BY <1>4 DEF Max
<1> QED BY <1>5

\* The recursion of a fold over the places of a sequence has a solution.
Folds(f, n, X, base, step) ==
  /\ f \in [SUBSET (1 .. n) -> X]
  /\ \A S \in SUBSET (1 .. n) :
       f[S] = IF S = {} THEN base ELSE step[<<Max(S), f[S \ {Max(S)}]>>]

LEMMA FoldEnds ==
  ASSUME NEW N \in Nat, NEW X, NEW base \in X, NEW step \in [(1 .. N) \X X -> X]
  PROVE  \E f : Folds(f, N, X, base, step)
<1> DEFINE Solves(n, f) == Folds(f, n, X, base, step)
           Good == {n \in 0 .. N : \E f : Solves(n, f)}
<1>1. 0 \in Good
  <2> DEFINE f == [S \in SUBSET (1 .. 0) |-> base]
  <2>1. f \in [SUBSET (1 .. 0) -> X] /\ 1 .. 0 = {}
    OBVIOUS
  <2>2. \A S \in SUBSET (1 .. 0) : S = {} /\ f[S] = base
    BY <2>1
  <2> HIDE DEF f
  <2>3. Solves(0, f)
    BY <2>1, <2>2 DEF Folds
  <2>4. 0 \in 0 .. N
    OBVIOUS
  <2> HIDE DEF Solves
  <2> QED BY <2>3, <2>4
<1>2. ASSUME NEW n \in 1 .. N, n - 1 \in Good PROVE n \in Good
  <2>1. PICK f : Solves(n - 1, f)
    BY <1>2
  <2>0. /\ f \in [SUBSET (1 .. n - 1) -> X]
        /\ \A S \in SUBSET (1 .. n - 1) :
             f[S] = IF S = {} THEN base ELSE step[<<Max(S), f[S \ {Max(S)}]>>]
    BY <2>1 DEF Folds
  <2> DEFINE g == [S \in SUBSET (1 .. n) |->
                     IF n \in S THEN step[<<n, f[S \ {n}]>>] ELSE f[S]]
  <2>2. ASSUME NEW S \in SUBSET (1 .. n), n \in S
        PROVE  /\ S \ {n} \in SUBSET (1 .. n - 1) /\ g[S] = step[<<n, f[S \ {n}]>>]
               /\ g[S] \in X /\ Max(S) = n /\ g[S \ {n}] = f[S \ {n}]
    <3>1. S \ {n} \in SUBSET (1 .. n - 1)
      OBVIOUS
    <3>2. f[S \ {n}] \in X
      BY <2>0, <3>1
    <3>3. g[S] = step[<<n, f[S \ {n}]>>]
      BY <2>2
    <3>4. g[S] \in X
      <4> HIDE DEF g
      <4> QED BY <3>2, <3>3
    <3>5. Max(S) = n
      <4>1. Max(S) \in S /\ \A y \in S : y <= Max(S)
        <5>1. n \in Nat /\ S # {}
          BY <2>2
        <5> QED BY <5>1, MaxIs
      <4>2. Max(S) \in 1 .. n /\ n <= Max(S)
        BY <2>2, <4>1
      <4> QED BY <4>2
    <3>6. g[S \ {n}] = f[S \ {n}]
      OBVIOUS
    <3> QED BY <3>1, <3>3, <3>4, <3>5, <3>6
  <2>3. ASSUME NEW S \in SUBSET (1 .. n), n \notin S
        PROVE  /\ S \in SUBSET (1 .. n - 1) /\ g[S] = f[S] /\ g[S] \in X
               /\ S # {} => g[S \ {Max(S)}] = f[S \ {Max(S)}]
    <3>1. S \in SUBSET (1 .. n - 1)
      BY <2>3
    <3>2. g[S] = f[S]
      BY <2>3
    <3>3. f[S] \in X
      BY <2>0, <3>1
    <3>4. ASSUME NEW R \in SUBSET S PROVE g[R] = f[R]
      BY <2>3
    <3> HIDE DEF g
    <3> QED BY <3>1, <3>2, <3>3, <3>4
  <2>4. g = [S \in SUBSET (1 .. n) |-> g[S]]
    OBVIOUS
  <2> HIDE DEF g
  <2>5. g \in [SUBSET (1 .. n) -> X]
    BY <2>2, <2>3, <2>4
  <2>6. ASSUME NEW S \in SUBSET (1 .. n)
        PROVE  g[S] = IF S = {} THEN base ELSE step[<<Max(S), g[S \ {Max(S)}]>>]
    <3>1. CASE n \in S
      BY <2>2, <3>1
    <3>2. CASE n \notin S
      <4>1. f[S] = IF S = {} THEN base ELSE step[<<Max(S), f[S \ {Max(S)}]>>]
        BY <2>0, <2>3, <3>2
      <4> QED BY <2>3, <3>2, <4>1
    <3> QED BY <3>1, <3>2
  <2>7. Solves(n, g)
    BY <2>5, <2>6 DEF Folds
  <2>8. n \in 0 .. N
    OBVIOUS
  <2> HIDE DEF Solves
  <2> QED BY <2>7, <2>8
<1>3. N \in Good
  <2> HIDE DEF Good
  <2> QED BY <1>1, <1>2, UpTo
<1> QED BY <1>3

\* The places up to one.
LEMMA Segment ==
  ASSUME NEW N \in Nat, NEW n \in 1 .. N
  PROVE  /\ 1 .. n \in SUBSET (1 .. N) /\ 1 .. n # {} /\ Max(1 .. n) = n
         /\ (1 .. n) \ {n} = 1 .. n - 1
<1>1. 1 .. n \in SUBSET (1 .. N) /\ n \in 1 .. n /\ (1 .. n) \ {n} = 1 .. n - 1
  OBVIOUS
<1>2. Max(1 .. n) \in 1 .. n /\ \A y \in 1 .. n : y <= Max(1 .. n)
  BY <1>1, MaxIs
<1> QED BY <1>1, <1>2

(***************************************************************************)
(* The terminal: what one character and what a text do to it.              *)
(***************************************************************************)

Shown == Char \cup {"W2", "blank", "old"}

Cells == [0 .. Rows -> [0 .. width - 1 -> Shown]]

Terminal == [cells : Cells, row : Nat, col : 0 .. width]

Wide == width \in Nat /\ width >= 2

LEMMA ColumnsOf == ASSUME NEW c \in Char PROVE colwidth(c) \in 0 .. 2
BY DEF colwidth

at(g, q, l) == g[q][l]

\* A cell becomes another one.
changed(g, r, k, c) == [g EXCEPT ![r][k] = c]

LEMMA CellChanged ==
  ASSUME NEW g \in Cells, NEW r, NEW k, NEW c \in Shown
  PROVE  /\ changed(g, r, k, c) \in Cells
         /\ \A q \in 0 .. Rows : q # r => changed(g, r, k, c)[q] = g[q]
         /\ \A q \in 0 .. Rows : \A l \in 0 .. width - 1 :
              at(changed(g, r, k, c), q, l) = IF q = r /\ l = k THEN c ELSE at(g, q, l)
<1> DEFINE h == [g[r] EXCEPT ![k] = c]
           G == [g EXCEPT ![r] = h]
<1>1. changed(g, r, k, c) = G
  BY DEF changed
<1>5. g \in [0 .. Rows -> [0 .. width - 1 -> Shown]]
  BY DEF Cells
<1>2. ASSUME NEW q \in 0 .. Rows
      PROVE  /\ G[q] \in [0 .. width - 1 -> Shown]
             /\ q # r => G[q] = g[q]
             /\ \A l \in 0 .. width - 1 : G[q][l] = IF q = r /\ l = k THEN c ELSE g[q][l]
  <2>1. CASE q = r
    <3>1. G[q] = [g[q] EXCEPT ![k] = c] /\ g[q] \in [0 .. width - 1 -> Shown]
      BY <1>5, <2>1
    <3> HIDE DEF G
    <3> QED BY <2>1, <3>1
  <2>2. CASE q # r
    <3>1. G[q] = g[q] /\ g[q] \in [0 .. width - 1 -> Shown]
      BY <1>5, <2>2
    <3> HIDE DEF G
    <3> QED BY <2>2, <3>1
  <2> QED BY <2>1, <2>2
<1>3. DOMAIN G = 0 .. Rows /\ G = [q \in 0 .. Rows |-> G[q]]
  BY <1>5
<1> HIDE DEF G
<1>4. G \in Cells
  BY <1>2, <1>3 DEF Cells
<1> QED BY <1>1, <1>2, <1>4 DEF at

LEMMA TwoCellsChanged ==
  ASSUME NEW g \in Cells, NEW r, NEW k, NEW c \in Shown,
         NEW k2, NEW c2 \in Shown
  PROVE  LET h == changed(changed(g, r, k, c), r, k2, c2)
         IN /\ h \in Cells
            /\ \A q \in 0 .. Rows : q # r => h[q] = g[q]
            /\ \A q \in 0 .. Rows : \A l \in 0 .. width - 1 :
                 at(h, q, l) = IF q = r /\ l = k2 THEN c2 ELSE IF q = r /\ l = k THEN c ELSE at(g, q, l)
<1> DEFINE f == changed(g, r, k, c)
           h == changed(f, r, k2, c2)
<1>1. /\ f \in Cells
      /\ \A q \in 0 .. Rows : q # r => f[q] = g[q]
      /\ \A q \in 0 .. Rows : \A l \in 0 .. width - 1 :
           at(f, q, l) = IF q = r /\ l = k THEN c ELSE at(g, q, l)
  BY CellChanged
<1> HIDE DEF f
<1>2. f \in Cells
  BY <1>1
<1>3. /\ h \in Cells
      /\ \A q \in 0 .. Rows : q # r => h[q] = f[q]
      /\ \A q \in 0 .. Rows : \A l \in 0 .. width - 1 :
           at(h, q, l) = IF q = r /\ l = k2 THEN c2 ELSE at(f, q, l)
  BY <1>2, CellChanged
<1> HIDE DEF h
<1>4. /\ h \in Cells
      /\ \A q \in 0 .. Rows : q # r => h[q] = g[q]
      /\ \A q \in 0 .. Rows : \A l \in 0 .. width - 1 :
           at(h, q, l) = IF q = r /\ l = k2 THEN c2 ELSE IF q = r /\ l = k THEN c ELSE at(g, q, l)
  BY <1>1, <1>3
<1> QED BY <1>4 DEF h, f

\* Where a character goes.
rowOf(t, c) == IF t.col + colwidth(c) > width THEN t.row + 1 ELSE t.row
colOf(t, c) == IF t.col + colwidth(c) > width THEN 0 ELSE t.col

\* Only the columns that the character takes change.
LEMMA PutShows ==
  ASSUME Wide, NEW t \in Terminal, NEW c \in Char
  PROVE  LET w == colwidth(c)
             u == put(t, c)
         IN /\ u \in Terminal
            /\ w = 0 => u = t
            /\ w # 0 => u.row = rowOf(t, c) /\ u.col = colOf(t, c) + w
            /\ \A q \in 0 .. Rows : w = 0 \/ q # rowOf(t, c) => u.cells[q] = t.cells[q]
            /\ \A q \in 0 .. Rows : \A l \in 0 .. width - 1 :
                 w # 0 /\ q = rowOf(t, c) =>
                   at(u.cells, q, l) = IF l = colOf(t, c) + w - 1
                                   THEN (IF w = 2 THEN "W2" ELSE c)
                                   ELSE IF l = colOf(t, c) THEN c ELSE at(t.cells, q, l)
<1> DEFINE w == colwidth(c)
           r == rowOf(t, c)
           k == colOf(t, c)
           last == IF w = 2 THEN "W2" ELSE c
           g == changed(t.cells, r, k, c)
           k2 == k + w - 1
           h == changed(g, r, k2, last)
<1>1. w \in 0 .. 2 /\ c \in Shown /\ last \in Shown
  BY ColumnsOf DEF Shown
<1>2. t.cells \in Cells /\ t.row \in Nat /\ t.col \in 0 .. width
  BY DEF Terminal
<1>3. CASE w = 0
  <2>1. put(t, c) = t
    BY <1>3 DEF put
  <2> QED BY <1>3, <2>1
<1>4. CASE w # 0
  <2>1. put(t, c) = [cells |-> h, row |-> r, col |-> k + w]
    BY <1>4 DEF put, rowOf, colOf, changed
  <2>2. r \in Nat /\ k + w \in 0 .. width
    BY <1>1, <1>2 DEF rowOf, colOf, Wide
  <2> HIDE DEF w, r, k, k2, last
  <2>3. last \in Shown
    BY <1>1
  <2>4. /\ h \in Cells
        /\ \A q \in 0 .. Rows : q # r => h[q] = t.cells[q]
        /\ \A q \in 0 .. Rows : \A l \in 0 .. width - 1 :
             at(h, q, l) = IF q = r /\ l = k2 THEN last ELSE IF q = r /\ l = k THEN c ELSE at(t.cells, q, l)
    BY <1>1, <1>2, <2>3, TwoCellsChanged
  <2> HIDE DEF h
  <2>5. put(t, c) \in Terminal
    BY <2>1, <2>2, <2>4 DEF Terminal
  <2>6. put(t, c).row = r /\ put(t, c).col = k + w /\ put(t, c).cells = h
    BY <2>1
  <2>7. \A q \in 0 .. Rows : q # r => h[q] = t.cells[q]
    BY <2>4
  <2>8. \A q \in 0 .. Rows : \A l \in 0 .. width - 1 :
          q = r => at(h, q, l) = IF l = k2 THEN last ELSE IF l = k THEN c ELSE at(t.cells, q, l)
    BY <2>4
  <2> QED BY <1>4, <2>5, <2>6, <2>7, <2>8 DEF w, r, k, k2, last
<1> QED BY <1>3, <1>4

\* A text is written character by character.
Writes(f, t, s) ==
  /\ f[0] = t /\ write(t, s) = f[Len(s)]
  /\ \A n \in 1 .. Len(s) : f[n] = put(f[n - 1], s[n])

LEMMA WriteIs ==
  ASSUME Wide, NEW t \in Terminal, NEW s \in Seq(Char)
  PROVE  \E f : Writes(f, t, s)
<1> DEFINE N == Len(s)
           step == [q \in (1 .. N) \X Terminal |-> put(q[2], s[q[1]])]
           Solves(g) == g = [S \in SUBSET DOMAIN s |->
                               IF S = {} THEN t ELSE put(g[S \ {Max(S)}], s[Max(S)])]
           iter == CHOOSE g : Solves(g)
           f == [n \in 0 .. N |-> iter[1 .. n]]
<1>1. N \in Nat /\ DOMAIN s = 1 .. N /\ \A n \in 1 .. N : s[n] \in Char
  OBVIOUS
<1>2. write(t, s) = iter[DOMAIN s]
  BY DEF write, FoldLeft, MapThenFoldSet
<1> HIDE DEF N
<1>3. step \in [(1 .. N) \X Terminal -> Terminal]
  <2>1. ASSUME NEW q \in (1 .. N) \X Terminal PROVE put(q[2], s[q[1]]) \in Terminal
    <3>1. q[2] \in Terminal /\ s[q[1]] \in Char
      BY <1>1
    <3> QED BY <3>1, PutShows
  <2> QED BY <2>1
<1>4. PICK g : Folds(g, N, Terminal, t, step)
  <2> HIDE DEF step
  <2> QED BY <1>1, <1>3, FoldEnds
<1>12. /\ g \in [SUBSET (1 .. N) -> Terminal]
       /\ \A S \in SUBSET (1 .. N) :
            g[S] = IF S = {} THEN t ELSE step[<<Max(S), g[S \ {Max(S)}]>>]
  BY <1>4 DEF Folds
<1>5. ASSUME NEW S \in SUBSET (1 .. N)
      PROVE  g[S] = IF S = {} THEN t ELSE put(g[S \ {Max(S)}], s[Max(S)])
  <2>1. CASE S = {}
    BY <1>12, <2>1
  <2>2. CASE S # {}
    <3>1. Max(S) \in 1 .. N
      <4>1. Max(S) \in S
        BY <1>1, <2>2, MaxIs
      <4> QED BY <4>1
    <3>2. g[S \ {Max(S)}] \in Terminal
      BY <1>12
    <3>3. step[<<Max(S), g[S \ {Max(S)}]>>] = put(g[S \ {Max(S)}], s[Max(S)])
      BY <3>1, <3>2
    <3> HIDE DEF step
    <3> QED BY <1>12, <2>2, <3>3
  <2> QED BY <2>1, <2>2
<1>6. Solves(g)
  BY <1>1, <1>12, <1>5
<1>7. Solves(iter)
  <2> HIDE DEF Solves
  <2> QED BY <1>6
<1> HIDE DEF iter
<1>8. \A S \in SUBSET (1 .. N) :
        iter[S] = IF S = {} THEN t ELSE put(iter[S \ {Max(S)}], s[Max(S)])
  BY <1>1, <1>7, Zenon
<1>9. f[0] = t
  <2>1. 1 .. 0 = {} /\ 1 .. 0 \in SUBSET (1 .. N) /\ 0 \in 0 .. N
    BY <1>1
  <2> QED BY <1>8, <2>1
<1>10. ASSUME NEW n \in 1 .. N PROVE f[n] = put(f[n - 1], s[n])
  <2>1. /\ 1 .. n \in SUBSET (1 .. N) /\ 1 .. n # {} /\ Max(1 .. n) = n
        /\ (1 .. n) \ {n} = 1 .. n - 1
    BY <1>1, Segment
  <2>2. iter[1 .. n] = put(iter[1 .. n - 1], s[n])
    BY <1>8, <2>1
  <2>3. n \in 0 .. N /\ n - 1 \in 0 .. N
    BY <1>1
  <2> QED BY <2>2, <2>3
<1>11. write(t, s) = f[N]
  BY <1>1, <1>2
<1> HIDE DEF f
<1> QED BY <1>9, <1>10, <1>11 DEF N, Writes

LEMMA WriteNothing == ASSUME Wide, NEW t \in Terminal PROVE write(t, <<>>) = t
<1>1. <<>> \in Seq(Char) /\ Len(<<>>) = 0
  OBVIOUS
<1>2. PICK f : Writes(f, t, <<>>)
  BY <1>1, WriteIs
<1> QED BY <1>1, <1>2 DEF Writes

LEMMA WriteMore ==
  ASSUME Wide, NEW t \in Terminal, NEW s \in Seq(Char), NEW c \in Char
  PROVE  write(t, Append(s, c)) = put(write(t, s), c)
<1> DEFINE r == Append(s, c)
           N == Len(s)
<1>1. r \in Seq(Char) /\ Len(r) = N + 1 /\ r[N + 1] = c /\ N \in Nat /\ \A i \in 1 .. N : r[i] = s[i]
  <2>1. Len(s) \in Nat
    OBVIOUS
  <2> QED BY <2>1, Longer
<1>2. PICK g : Writes(g, t, s)
  BY WriteIs
<1>7. /\ g[0] = t /\ write(t, s) = g[N]
      /\ \A n \in 1 .. N : g[n] = put(g[n - 1], s[n])
  BY <1>2 DEF Writes
<1> HIDE DEF r, N
<1>3. PICK f : Writes(f, t, r)
  BY <1>1, WriteIs
<1>8. /\ f[0] = t /\ write(t, r) = f[N + 1]
      /\ \A n \in 1 .. N + 1 : f[n] = put(f[n - 1], r[n])
  BY <1>1, <1>3 DEF Writes
<1>4. \A n \in 0 .. N : n \in {m \in 0 .. N : f[m] = g[m]}
  <2> DEFINE S == {m \in 0 .. N : f[m] = g[m]}
  <2>1. 0 \in S
    BY <1>1, <1>7, <1>8
  <2>2. ASSUME NEW n \in 1 .. N, n - 1 \in S PROVE n \in S
    <3>1. f[n] = put(f[n - 1], r[n]) /\ g[n] = put(g[n - 1], s[n])
      <4>1. n \in 1 .. N + 1
        BY <1>1
      <4> QED BY <1>7, <1>8, <4>1
    <3>2. r[n] = s[n] /\ f[n - 1] = g[n - 1] /\ n \in 0 .. N
      BY <1>1, <2>2
    <3> QED BY <3>1, <3>2
  <2> HIDE DEF S
  <2>3. \A n \in 0 .. N : n \in S
    BY <1>1, <2>1, <2>2, UpTo
  <2> QED BY <2>3 DEF S
<1>5. f[N] = g[N] /\ f[N + 1] = put(f[N], c)
  <2>1. N \in 0 .. N /\ N + 1 \in 1 .. N + 1 /\ (N + 1) - 1 = N
    BY <1>1
  <2>2. f[N + 1] = put(f[(N + 1) - 1], r[N + 1])
    BY <1>8, <2>1
  <2> QED BY <1>1, <1>4, <2>1, <2>2
<1>6. write(t, r) = put(write(t, s), c)
  BY <1>7, <1>8, <1>5
<1> QED BY <1>6 DEF r

(***************************************************************************)
(* What is measured: the columns of a text, of the text in rows, and the   *)
(* rows that are erased.                                                   *)
(***************************************************************************)

\* The columns of a text are the sum of those of its characters.
Sums(f, s) ==
  /\ f[0] = 0 /\ unicodeColumnPos(s) = f[Len(s)]
  /\ \A n \in 1 .. Len(s) : f[n] = f[n - 1] + colwidth(s[n])

LEMMA SumIs ==
  ASSUME NEW s \in Seq(Char)
  PROVE  \E f : Sums(f, s)
<1> DEFINE N == Len(s)
           step == [q \in (1 .. N) \X Nat |-> q[2] + colwidth(s[q[1]])]
           Solves(g) == g = [S \in SUBSET DOMAIN s |->
                               IF S = {} THEN 0 ELSE g[S \ {Max(S)}] + colwidth(s[Max(S)])]
           iter == CHOOSE g : Solves(g)
           f == [n \in 0 .. N |-> iter[1 .. n]]
<1>1. N \in Nat /\ DOMAIN s = 1 .. N /\ \A n \in 1 .. N : s[n] \in Char
  OBVIOUS
<1>2. unicodeColumnPos(s) = iter[DOMAIN s]
  BY DEF unicodeColumnPos, FoldLeft, MapThenFoldSet
<1> HIDE DEF N
<1>3. step \in [(1 .. N) \X Nat -> Nat] /\ 0 \in Nat
  <2>1. ASSUME NEW q \in (1 .. N) \X Nat PROVE q[2] + colwidth(s[q[1]]) \in Nat
    <3>1. q[2] \in Nat /\ s[q[1]] \in Char
      BY <1>1
    <3> QED BY <3>1, ColumnsOf
  <2> QED BY <2>1
<1>4. PICK g : Folds(g, N, Nat, 0, step)
  <2> HIDE DEF step
  <2> QED BY <1>1, <1>3, FoldEnds
<1>5. /\ g \in [SUBSET (1 .. N) -> Nat]
      /\ \A S \in SUBSET (1 .. N) :
           g[S] = IF S = {} THEN 0 ELSE step[<<Max(S), g[S \ {Max(S)}]>>]
  BY <1>4 DEF Folds
<1>6. ASSUME NEW S \in SUBSET (1 .. N)
      PROVE  g[S] = IF S = {} THEN 0 ELSE g[S \ {Max(S)}] + colwidth(s[Max(S)])
  <2>1. CASE S = {}
    BY <1>5, <2>1
  <2>2. CASE S # {}
    <3>1. Max(S) \in 1 .. N
      <4>1. Max(S) \in S
        BY <1>1, <2>2, MaxIs
      <4> QED BY <4>1
    <3>2. g[S \ {Max(S)}] \in Nat
      BY <1>5
    <3>3. step[<<Max(S), g[S \ {Max(S)}]>>] = g[S \ {Max(S)}] + colwidth(s[Max(S)])
      BY <3>1, <3>2
    <3> HIDE DEF step
    <3> QED BY <1>5, <2>2, <3>3
  <2> QED BY <2>1, <2>2
<1>7. Solves(g)
  BY <1>1, <1>5, <1>6
<1>8. Solves(iter)
  <2> HIDE DEF Solves
  <2> QED BY <1>7
<1> HIDE DEF iter
<1>9. \A S \in SUBSET (1 .. N) :
        iter[S] = IF S = {} THEN 0 ELSE iter[S \ {Max(S)}] + colwidth(s[Max(S)])
  BY <1>1, <1>8, Zenon
<1>10. f[0] = 0
  <2>1. 1 .. 0 = {} /\ 1 .. 0 \in SUBSET (1 .. N) /\ 0 \in 0 .. N
    BY <1>1
  <2> QED BY <1>9, <2>1
<1>11. ASSUME NEW n \in 1 .. N PROVE f[n] = f[n - 1] + colwidth(s[n])
  <2>1. /\ 1 .. n \in SUBSET (1 .. N) /\ 1 .. n # {} /\ Max(1 .. n) = n
        /\ (1 .. n) \ {n} = 1 .. n - 1
    BY <1>1, Segment
  <2>2. iter[1 .. n] = iter[1 .. n - 1] + colwidth(s[n])
    BY <1>9, <2>1
  <2>3. n \in 0 .. N /\ n - 1 \in 0 .. N
    BY <1>1
  <2> QED BY <2>2, <2>3
<1>12. unicodeColumnPos(s) = f[N]
  BY <1>1, <1>2
<1> HIDE DEF f
<1> QED BY <1>10, <1>11, <1>12 DEF N, Sums

LEMMA SumOfNothing == unicodeColumnPos(<<>>) = 0
<1>1. <<>> \in Seq(Char) /\ Len(<<>>) = 0
  OBVIOUS
<1>2. PICK f : Sums(f, <<>>)
  BY <1>1, SumIs
<1> QED BY <1>1, <1>2 DEF Sums

LEMMA SumOfMore ==
  ASSUME NEW s \in Seq(Char), NEW c \in Char
  PROVE  unicodeColumnPos(Append(s, c)) = unicodeColumnPos(s) + colwidth(c)
<1> DEFINE r == Append(s, c)
           N == Len(s)
<1>1. r \in Seq(Char) /\ Len(r) = N + 1 /\ r[N + 1] = c /\ N \in Nat /\ \A i \in 1 .. N : r[i] = s[i]
  <2>1. Len(s) \in Nat
    OBVIOUS
  <2> QED BY <2>1, Longer
<1>2. PICK g : Sums(g, s)
  BY SumIs
<1>3. /\ g[0] = 0 /\ unicodeColumnPos(s) = g[N]
      /\ \A n \in 1 .. N : g[n] = g[n - 1] + colwidth(s[n])
  BY <1>2 DEF Sums
<1> HIDE DEF r, N
<1>4. PICK f : Sums(f, r)
  BY <1>1, SumIs
<1>5. /\ f[0] = 0 /\ unicodeColumnPos(r) = f[N + 1]
      /\ \A n \in 1 .. N + 1 : f[n] = f[n - 1] + colwidth(r[n])
  BY <1>1, <1>4 DEF Sums
<1>6. \A n \in 0 .. N : n \in {m \in 0 .. N : f[m] = g[m]}
  <2> DEFINE S == {m \in 0 .. N : f[m] = g[m]}
  <2>1. 0 \in S
    BY <1>1, <1>3, <1>5
  <2>2. ASSUME NEW n \in 1 .. N, n - 1 \in S PROVE n \in S
    <3>1. f[n] = f[n - 1] + colwidth(r[n]) /\ g[n] = g[n - 1] + colwidth(s[n])
      <4>1. n \in 1 .. N + 1
        BY <1>1
      <4> QED BY <1>3, <1>5, <4>1
    <3>2. r[n] = s[n] /\ f[n - 1] = g[n - 1] /\ n \in 0 .. N
      BY <1>1, <2>2
    <3> QED BY <3>1, <3>2
  <2> HIDE DEF S
  <2>3. \A n \in 0 .. N : n \in S
    BY <1>1, <2>1, <2>2, UpTo
  <2> QED BY <2>3 DEF S
<1>7. f[N] = g[N] /\ f[N + 1] = f[N] + colwidth(c)
  <2>1. N \in 0 .. N /\ N + 1 \in 1 .. N + 1 /\ (N + 1) - 1 = N
    BY <1>1
  <2>2. f[N + 1] = f[(N + 1) - 1] + colwidth(r[N + 1])
    BY <1>5, <2>1
  <2> QED BY <1>1, <1>6, <2>1, <2>2
<1>8. unicodeColumnPos(r) = unicodeColumnPos(s) + colwidth(c)
  BY <1>3, <1>5, <1>7
<1> QED BY <1>8 DEF r

\* The measuring of rows, with what it knows: all columns so far, and those of
\* the last row.
overflow(colwid, c) == larger(colwid + colwidth(c) - cols, 0)

following(colwid, c) ==
  LET w == colwid + colwidth(c)
  IN IF w > cols THEN colwidth(c) ELSE IF w = cols THEN 0 ELSE w

counted(m, c) == [ret    |-> m.ret + overflow(m.colwid, c) + colwidth(c),
                  colwid |-> following(m.colwid, c)]

counter == [ret |-> 0, colwid |-> pcolwid]

Counter == [ret : Nat, colwid : Nat]

Counted(s) == FoldLeft(counted, counter, s)

LEMMA CountedTyped ==
  ASSUME cols \in Nat, NEW m \in Counter, NEW c \in Char
  PROVE  counted(m, c) \in Counter
<1>1. colwidth(c) \in Nat /\ m.ret \in Nat /\ m.colwid \in Nat
  BY ColumnsOf DEF Counter
<1>2. overflow(m.colwid, c) \in Nat /\ following(m.colwid, c) \in Nat
  BY <1>1 DEF overflow, following, larger
<1> QED BY <1>1, <1>2 DEF counted, Counter

LEMMA MeasuredIs ==
  ASSUME NEW s \in Seq(Char), NEW p \in 0 .. Len(s)
  PROVE  unicodeColumnPosForMultiLine(s, p, cols, pcolwid) =
           LET m == Counted(SubSeq(s, 1, p))
           IN m.ret + IF p < Len(s) THEN overflow(m.colwid, s[p + 1]) ELSE 0
BY DEF unicodeColumnPosForMultiLine, Counted, counted, counter, overflow, following

\* It counts character by character.
Counts(f, s) ==
  /\ f[0] = counter /\ Counted(s) = f[Len(s)]
  /\ \A n \in 1 .. Len(s) : f[n] = counted(f[n - 1], s[n])

LEMMA CountedIs ==
  ASSUME cols \in Nat, pcolwid \in Nat, NEW s \in Seq(Char)
  PROVE  \E f : Counts(f, s)
<1> DEFINE N == Len(s)
           step == [q \in (1 .. N) \X Counter |-> counted(q[2], s[q[1]])]
           Solves(g) == g = [S \in SUBSET DOMAIN s |->
                               IF S = {} THEN counter ELSE counted(g[S \ {Max(S)}], s[Max(S)])]
           iter == CHOOSE g : Solves(g)
           f == [n \in 0 .. N |-> iter[1 .. n]]
<1>1. N \in Nat /\ DOMAIN s = 1 .. N /\ \A n \in 1 .. N : s[n] \in Char
  OBVIOUS
<1>2. Counted(s) = iter[DOMAIN s]
  BY DEF Counted, FoldLeft, MapThenFoldSet
<1> HIDE DEF N
<1>3. step \in [(1 .. N) \X Counter -> Counter] /\ counter \in Counter
  <2>1. ASSUME NEW q \in (1 .. N) \X Counter PROVE counted(q[2], s[q[1]]) \in Counter
    <3>1. q[2] \in Counter /\ s[q[1]] \in Char
      BY <1>1
    <3> QED BY <3>1, CountedTyped
  <2> QED BY <2>1 DEF counter, Counter
<1>4. PICK g : Folds(g, N, Counter, counter, step)
  <2> HIDE DEF step
  <2> QED BY <1>1, <1>3, FoldEnds
<1>5. /\ g \in [SUBSET (1 .. N) -> Counter]
      /\ \A S \in SUBSET (1 .. N) :
           g[S] = IF S = {} THEN counter ELSE step[<<Max(S), g[S \ {Max(S)}]>>]
  BY <1>4 DEF Folds
<1>6. ASSUME NEW S \in SUBSET (1 .. N)
      PROVE  g[S] = IF S = {} THEN counter ELSE counted(g[S \ {Max(S)}], s[Max(S)])
  <2>1. CASE S = {}
    BY <1>5, <2>1
  <2>2. CASE S # {}
    <3>1. Max(S) \in 1 .. N
      <4>1. Max(S) \in S
        BY <1>1, <2>2, MaxIs
      <4> QED BY <4>1
    <3>2. g[S \ {Max(S)}] \in Counter
      BY <1>5
    <3>3. step[<<Max(S), g[S \ {Max(S)}]>>] = counted(g[S \ {Max(S)}], s[Max(S)])
      BY <3>1, <3>2
    <3> HIDE DEF step
    <3> QED BY <1>5, <2>2, <3>3
  <2> QED BY <2>1, <2>2
<1>7. Solves(g)
  BY <1>1, <1>5, <1>6
<1>8. Solves(iter)
  <2> HIDE DEF Solves
  <2> QED BY <1>7
<1> HIDE DEF iter
<1>9. \A S \in SUBSET (1 .. N) :
        iter[S] = IF S = {} THEN counter ELSE counted(iter[S \ {Max(S)}], s[Max(S)])
  BY <1>1, <1>8, Zenon
<1>10. f[0] = counter
  <2>1. 1 .. 0 = {} /\ 1 .. 0 \in SUBSET (1 .. N) /\ 0 \in 0 .. N
    BY <1>1
  <2> QED BY <1>9, <2>1
<1>11. ASSUME NEW n \in 1 .. N PROVE f[n] = counted(f[n - 1], s[n])
  <2>1. /\ 1 .. n \in SUBSET (1 .. N) /\ 1 .. n # {} /\ Max(1 .. n) = n
        /\ (1 .. n) \ {n} = 1 .. n - 1
    BY <1>1, Segment
  <2>2. iter[1 .. n] = counted(iter[1 .. n - 1], s[n])
    BY <1>9, <2>1
  <2>3. n \in 0 .. N /\ n - 1 \in 0 .. N
    BY <1>1
  <2> QED BY <2>2, <2>3
<1>12. Counted(s) = f[N]
  BY <1>1, <1>2
<1> HIDE DEF f
<1> QED BY <1>10, <1>11, <1>12 DEF N, Counts

LEMMA CountedNothing == ASSUME cols \in Nat, pcolwid \in Nat PROVE Counted(<<>>) = counter
<1>1. <<>> \in Seq(Char) /\ Len(<<>>) = 0
  OBVIOUS
<1>2. PICK f : Counts(f, <<>>)
  BY <1>1, CountedIs
<1> QED BY <1>1, <1>2 DEF Counts

LEMMA CountedMore ==
  ASSUME cols \in Nat, pcolwid \in Nat, NEW s \in Seq(Char), NEW c \in Char
  PROVE  Counted(Append(s, c)) = counted(Counted(s), c)
<1> DEFINE r == Append(s, c)
           N == Len(s)
<1>1. r \in Seq(Char) /\ Len(r) = N + 1 /\ r[N + 1] = c /\ N \in Nat /\ \A i \in 1 .. N : r[i] = s[i]
  <2>1. Len(s) \in Nat
    OBVIOUS
  <2> QED BY <2>1, Longer
<1>2. PICK g : Counts(g, s)
  BY CountedIs
<1>3. /\ g[0] = counter /\ Counted(s) = g[N]
      /\ \A n \in 1 .. N : g[n] = counted(g[n - 1], s[n])
  BY <1>2 DEF Counts
<1> HIDE DEF r, N
<1>4. PICK f : Counts(f, r)
  BY <1>1, CountedIs
<1>5. /\ f[0] = counter /\ Counted(r) = f[N + 1]
      /\ \A n \in 1 .. N + 1 : f[n] = counted(f[n - 1], r[n])
  BY <1>1, <1>4 DEF Counts
<1>6. \A n \in 0 .. N : n \in {m \in 0 .. N : f[m] = g[m]}
  <2> DEFINE S == {m \in 0 .. N : f[m] = g[m]}
  <2>1. 0 \in S
    BY <1>1, <1>3, <1>5
  <2>2. ASSUME NEW n \in 1 .. N, n - 1 \in S PROVE n \in S
    <3>1. f[n] = counted(f[n - 1], r[n]) /\ g[n] = counted(g[n - 1], s[n])
      <4>1. n \in 1 .. N + 1
        BY <1>1
      <4> QED BY <1>3, <1>5, <4>1
    <3>2. r[n] = s[n] /\ f[n - 1] = g[n - 1] /\ n \in 0 .. N
      BY <1>1, <2>2
    <3> QED BY <3>1, <3>2
  <2> HIDE DEF S
  <2>3. \A n \in 0 .. N : n \in S
    BY <1>1, <2>1, <2>2, UpTo
  <2> QED BY <2>3 DEF S
<1>7. f[N] = g[N] /\ f[N + 1] = counted(f[N], c)
  <2>1. N \in 0 .. N /\ N + 1 \in 1 .. N + 1 /\ (N + 1) - 1 = N
    BY <1>1
  <2>2. f[N + 1] = counted(f[(N + 1) - 1], r[N + 1])
    BY <1>5, <2>1
  <2> QED BY <1>1, <1>6, <2>1, <2>2
<1>8. Counted(r) = counted(Counted(s), c)
  BY <1>3, <1>5, <1>7
<1> QED BY <1>8 DEF r

LEMMA MovesTyped ==
  ASSUME Wide, Rows \in Nat, NEW t \in Terminal, NEW n \in Int
  PROVE  /\ up(t, n) \in Terminal /\ down(t, n) \in Terminal /\ cr(t) \in Terminal
         /\ lf(t) \in Terminal
         /\ n \in Nat => right(t, n) \in Terminal
<1>1. t.cells \in Cells /\ t.row \in Nat /\ t.col \in 0 .. width /\ t = [cells |-> t.cells, row |-> t.row, col |-> t.col]
  BY DEF Terminal
<1>2. larger(t.row - larger(n, 0), 0) \in Nat /\ t.row + larger(n, 0) \in Nat
  BY <1>1 DEF larger
<1>3. n \in Nat => smaller(t.col + n, width - 1) \in 0 .. width
  BY <1>1 DEF smaller, Wide
<1>4. 0 \in 0 .. width /\ t.row + 1 \in Nat
  BY <1>1 DEF Wide
<1> QED BY <1>1, <1>2, <1>3, <1>4 DEF up, down, cr, lf, right, Terminal

LEMMA RowErased ==
  ASSUME Wide, NEW t \in Terminal
  PROVE  LET u == eraseRight(t)
         IN /\ u \in Terminal /\ u.row = t.row /\ u.col = t.col
            /\ \A q \in 0 .. Rows : q # t.row => u.cells[q] = t.cells[q]
            /\ \A q \in 0 .. Rows : \A l \in 0 .. width - 1 :
                 q = t.row => at(u.cells, q, l) =
                   IF l >= smaller(t.col, width - 1) THEN "blank" ELSE at(t.cells, q, l)
<1> DEFINE g == t.cells
           r == t.row
           m == smaller(t.col, width - 1)
           line2 == [c \in 0 .. width - 1 |-> IF c >= m THEN "blank" ELSE g[r][c]]
           G == [g EXCEPT ![r] = line2]
<1>1. g \in [0 .. Rows -> [0 .. width - 1 -> Shown]] /\ r \in Nat /\ t.col \in 0 .. width
  BY DEF Terminal, Cells
<1>2. "blank" \in Shown
  BY DEF Shown
<1>3. eraseRight(t) = [t EXCEPT !.cells = G]
  BY DEF eraseRight
<1>4. eraseRight(t) = [cells |-> G, row |-> r, col |-> t.col]
  BY <1>3 DEF Terminal
<1> HIDE DEF m
<1>5. ASSUME NEW q \in 0 .. Rows, q = r
      PROVE  /\ G[q] \in [0 .. width - 1 -> Shown]
             /\ \A l \in 0 .. width - 1 :
                  at(G, q, l) = IF l >= m THEN "blank" ELSE at(g, q, l)
  <2>1. G[q] = line2 /\ g[r] \in [0 .. width - 1 -> Shown]
    BY <1>1, <1>5
  <2>2. line2 \in [0 .. width - 1 -> Shown]
    BY <1>2, <2>1
  <2>3. \A l \in 0 .. width - 1 : line2[l] = IF l >= m THEN "blank" ELSE g[r][l]
    OBVIOUS
  <2> HIDE DEF G, line2
  <2> QED BY <1>5, <2>1, <2>2, <2>3 DEF at
<1>6. ASSUME NEW q \in 0 .. Rows, q # r
      PROVE  G[q] = g[q] /\ g[q] \in [0 .. width - 1 -> Shown]
  BY <1>1, <1>6
<1>7. G = [q \in 0 .. Rows |-> G[q]]
  BY <1>1
<1> HIDE DEF G
<1>8. G \in Cells
  BY <1>5, <1>6, <1>7 DEF Cells
<1>9. eraseRight(t) \in Terminal
  BY <1>1, <1>4, <1>8 DEF Terminal
<1> QED BY <1>4, <1>5, <1>6, <1>9 DEF m

LEMMA RowCleared ==
  ASSUME Wide, Rows \in Nat, NEW t \in Terminal
  PROVE  LET u == eraseRight(cr(t))
         IN /\ u \in Terminal /\ u.row = t.row /\ u.col = 0
            /\ \A q \in 0 .. Rows : u.cells[q] = IF q = t.row THEN blankRow ELSE t.cells[q]
<1> DEFINE c == cr(t)
           u == eraseRight(c)
<1>1. c \in Terminal /\ c.row = t.row /\ c.col = 0 /\ c.cells = t.cells
  <2>1. c \in Terminal
    BY MovesTyped
  <2> QED BY <2>1 DEF cr, Terminal
<1> HIDE DEF c
<1>2. /\ u \in Terminal /\ u.row = c.row /\ u.col = c.col
      /\ \A q \in 0 .. Rows : q # c.row => u.cells[q] = c.cells[q]
      /\ \A q \in 0 .. Rows : \A l \in 0 .. width - 1 :
           q = c.row => at(u.cells, q, l) =
             IF l >= smaller(c.col, width - 1) THEN "blank" ELSE at(c.cells, q, l)
  BY <1>1, RowErased
<1> HIDE DEF u
<1>3. ASSUME NEW q \in 0 .. Rows, q = t.row PROVE u.cells[q] = blankRow
  <2>1. u.cells[q] \in [0 .. width - 1 -> Shown]
    BY <1>2 DEF Terminal, Cells
  <2>2. smaller(0, width - 1) = 0
    BY DEF smaller, Wide
  <2>3. \A l \in 0 .. width - 1 : u.cells[q][l] = "blank"
    <3> SUFFICES ASSUME NEW l \in 0 .. width - 1 PROVE at(u.cells, q, l) = "blank"
      BY DEF at
    <3>1. at(u.cells, q, l) = IF l >= smaller(c.col, width - 1) THEN "blank" ELSE at(c.cells, q, l)
      BY <1>1, <1>2, <1>3
    <3>2. l >= 0
      OBVIOUS
    <3> QED BY <1>1, <2>2, <3>1, <3>2
  <2>4. blankRow \in [0 .. width - 1 -> {"blank"}] /\ \A l \in 0 .. width - 1 : blankRow[l] = "blank"
    BY DEF blankRow
  <2> DEFINE x == u.cells[q]
             y == blankRow
  <2>5. x = [l \in 0 .. width - 1 |-> x[l]] /\ y = [l \in 0 .. width - 1 |-> y[l]]
    BY <2>1, <2>4
  <2>6. \A l \in 0 .. width - 1 : x[l] = y[l]
    BY <2>3, <2>4
  <2> HIDE DEF x, y
  <2>7. x = y
    BY <2>5, <2>6
  <2> QED BY <2>7 DEF x, y
<1> QED BY <1>1, <1>2, <1>3 DEF u, c

erasing(e, k) == up(eraseRight(cr(e)), 1)

Erasing(t, s) == FoldLeft(erasing, t, s)

LEMMA ErasingTyped ==
  ASSUME Wide, Rows \in Nat, NEW t \in Terminal, NEW k
  PROVE  LET u == erasing(t, k)
         IN /\ u \in Terminal /\ u.row = larger(t.row - 1, 0)
            /\ \A q \in 0 .. Rows : u.cells[q] = IF q = t.row THEN blankRow ELSE t.cells[q]
<1> DEFINE v == eraseRight(cr(t))
<1>1. /\ v \in Terminal /\ v.row = t.row /\ v.col = 0
      /\ \A q \in 0 .. Rows : v.cells[q] = IF q = t.row THEN blankRow ELSE t.cells[q]
  BY RowCleared
<1>2. erasing(t, k) = up(v, 1)
  BY DEF erasing
<1> HIDE DEF v
<1>3. up(v, 1) \in Terminal
  <2>1. \A n \in Int : up(v, n) \in Terminal
    BY <1>1, MovesTyped
  <2> QED BY <2>1
<1>4. up(v, 1).row = larger(v.row - 1, 0) /\ up(v, 1).cells = v.cells
  BY <1>1 DEF up, Terminal, larger
<1> QED BY <1>1, <1>2, <1>3, <1>4

\* Rows are erased one by one.
Erases(f, t, s) ==
  /\ f[0] = t /\ Erasing(t, s) = f[Len(s)]
  /\ \A n \in 1 .. Len(s) : f[n] = erasing(f[n - 1], s[n])

LEMMA ErasingIs ==
  ASSUME Wide, Rows \in Nat, NEW t \in Terminal, NEW s \in Seq(Nat)
  PROVE  \E f : Erases(f, t, s)
<1> DEFINE N == Len(s)
           step == [q \in (1 .. N) \X Terminal |-> erasing(q[2], s[q[1]])]
           Solves(g) == g = [S \in SUBSET DOMAIN s |->
                               IF S = {} THEN t ELSE erasing(g[S \ {Max(S)}], s[Max(S)])]
           iter == CHOOSE g : Solves(g)
           f == [n \in 0 .. N |-> iter[1 .. n]]
<1>1. N \in Nat /\ DOMAIN s = 1 .. N /\ \A n \in 1 .. N : s[n] \in Nat
  OBVIOUS
<1>2. Erasing(t, s) = iter[DOMAIN s]
  BY DEF Erasing, FoldLeft, MapThenFoldSet
<1> HIDE DEF N
<1>3. step \in [(1 .. N) \X Terminal -> Terminal] /\ t \in Terminal
  <2>1. ASSUME NEW q \in (1 .. N) \X Terminal PROVE erasing(q[2], s[q[1]]) \in Terminal
    <3>1. q[2] \in Terminal /\ s[q[1]] \in Nat
      BY <1>1
    <3> QED BY <3>1, ErasingTyped
  <2> QED BY <2>1
<1>4. PICK g : Folds(g, N, Terminal, t, step)
  <2> HIDE DEF step
  <2> QED BY <1>1, <1>3, FoldEnds
<1>5. /\ g \in [SUBSET (1 .. N) -> Terminal]
      /\ \A S \in SUBSET (1 .. N) :
           g[S] = IF S = {} THEN t ELSE step[<<Max(S), g[S \ {Max(S)}]>>]
  BY <1>4 DEF Folds
<1>6. ASSUME NEW S \in SUBSET (1 .. N)
      PROVE  g[S] = IF S = {} THEN t ELSE erasing(g[S \ {Max(S)}], s[Max(S)])
  <2>1. CASE S = {}
    BY <1>5, <2>1
  <2>2. CASE S # {}
    <3>1. Max(S) \in 1 .. N
      <4>1. Max(S) \in S
        BY <1>1, <2>2, MaxIs
      <4> QED BY <4>1
    <3>2. g[S \ {Max(S)}] \in Terminal
      BY <1>5
    <3>3. step[<<Max(S), g[S \ {Max(S)}]>>] = erasing(g[S \ {Max(S)}], s[Max(S)])
      BY <3>1, <3>2
    <3> HIDE DEF step
    <3> QED BY <1>5, <2>2, <3>3
  <2> QED BY <2>1, <2>2
<1>7. Solves(g)
  BY <1>1, <1>5, <1>6
<1>8. Solves(iter)
  <2> HIDE DEF Solves
  <2> QED BY <1>7
<1> HIDE DEF iter
<1>9. \A S \in SUBSET (1 .. N) :
        iter[S] = IF S = {} THEN t ELSE erasing(iter[S \ {Max(S)}], s[Max(S)])
  BY <1>1, <1>8, Zenon
<1>10. f[0] = t
  <2>1. 1 .. 0 = {} /\ 1 .. 0 \in SUBSET (1 .. N) /\ 0 \in 0 .. N
    BY <1>1
  <2> QED BY <1>9, <2>1
<1>11. ASSUME NEW n \in 1 .. N PROVE f[n] = erasing(f[n - 1], s[n])
  <2>1. /\ 1 .. n \in SUBSET (1 .. N) /\ 1 .. n # {} /\ Max(1 .. n) = n
        /\ (1 .. n) \ {n} = 1 .. n - 1
    BY <1>1, Segment
  <2>2. iter[1 .. n] = erasing(iter[1 .. n - 1], s[n])
    BY <1>9, <2>1
  <2>3. n \in 0 .. N /\ n - 1 \in 0 .. N
    BY <1>1
  <2> QED BY <2>2, <2>3
<1>12. Erasing(t, s) = f[N]
  BY <1>1, <1>2
<1> HIDE DEF f
<1> QED BY <1>10, <1>11, <1>12 DEF N, Erases

LEMMA RowsErased ==
  ASSUME Wide, Rows \in Nat, NEW t \in Terminal, NEW n \in Nat, larger(n, 1) <= t.row + 1
  PROVE  LET u == eraseUp(t, n)
         IN /\ u \in Terminal /\ u.row = t.row + 1 - larger(n, 1)
            /\ \A q \in 0 .. Rows :
                 u.cells[q] = IF q > u.row /\ q <= t.row THEN blankRow ELSE t.cells[q]
<1> DEFINE s == [k \in 1 .. n - 1 |-> k]
           N == IF n = 0 THEN 0 ELSE n - 1
<1>1. s \in Seq(Nat) /\ Len(s) = N /\ N \in Nat /\ N <= t.row
  <2>1. N \in Nat /\ 1 .. n - 1 = 1 .. N /\ N <= t.row
    BY DEF larger, Terminal
  <2>2. s = [k \in 1 .. N |-> k]
    BY <2>1
  <2> HIDE DEF N, s
  <2>3. s \in Seq(Nat) /\ Len(s) = N
    BY <2>1, <2>2
  <2> QED BY <2>1, <2>3
<1>2. eraseUp(t, n) = Erasing(t, s)
  BY DEF eraseUp, Erasing, erasing
<1> HIDE DEF s
<1>3. PICK f : Erases(f, t, s)
  BY <1>1, ErasingIs
<1>5. t.row \in Nat /\ larger(n, 1) = N + 1
  BY DEF Terminal, larger
<1> HIDE DEF N
<1>4. /\ f[0] = t /\ eraseUp(t, n) = f[N]
      /\ \A k \in 1 .. N : f[k] = erasing(f[k - 1], s[k])
  <2>1. /\ f[0] = t /\ Erasing(t, s) = f[Len(s)]
        /\ \A k \in 1 .. Len(s) : f[k] = erasing(f[k - 1], s[k])
    BY <1>3 DEF Erases
  <2> QED BY <1>1, <1>2, <2>1
<1> DEFINE S == {k \in 0 .. N :
                   /\ f[k] \in Terminal /\ f[k].row = t.row - k
                   /\ \A q \in 0 .. Rows :
                        f[k].cells[q] = IF q > t.row - k /\ q <= t.row THEN blankRow ELSE t.cells[q]}
<1>6. 0 \in S
  <2>1. \A q \in 0 .. Rows : ~ (q > t.row - 0 /\ q <= t.row)
    BY <1>5
  <2>2. 0 \in 0 .. N /\ t.row - 0 = t.row
    BY <1>1, <1>5
  <2> QED BY <1>4, <2>1, <2>2
<1>7. ASSUME NEW k \in 1 .. N, k - 1 \in S PROVE k \in S
  <2> DEFINE e == f[k - 1]
             u == erasing(e, s[k])
  <2>1. f[k] = u
    BY <1>4
  <2>2. /\ e \in Terminal /\ e.row = t.row - (k - 1)
        /\ \A q \in 0 .. Rows :
             e.cells[q] = IF q > t.row - (k - 1) /\ q <= t.row THEN blankRow ELSE t.cells[q]
    BY <1>7
  <2> HIDE DEF e
  <2>3. /\ u \in Terminal /\ u.row = larger(e.row - 1, 0)
        /\ \A q \in 0 .. Rows : u.cells[q] = IF q = e.row THEN blankRow ELSE e.cells[q]
    BY <2>2, ErasingTyped
  <2> HIDE DEF u
  <2>4. u.row = t.row - k
    BY <1>1, <1>5, <2>2, <2>3 DEF larger
  <2>5. ASSUME NEW q \in 0 .. Rows
        PROVE  u.cells[q] = IF q > t.row - k /\ q <= t.row THEN blankRow ELSE t.cells[q]
    <3>1. CASE q = e.row
      <4>1. q > t.row - k /\ q <= t.row
        BY <1>5, <2>2, <3>1
      <4> QED BY <2>3, <3>1, <4>1
    <3>2. CASE q # e.row
      <4>1. (q > t.row - k /\ q <= t.row) <=> (q > t.row - (k - 1) /\ q <= t.row)
        BY <1>5, <2>2, <3>2
      <4> QED BY <2>2, <2>3, <3>2, <4>1
    <3> QED BY <3>1, <3>2
  <2>6. k \in 0 .. N
    BY <1>1
  <2> QED BY <2>1, <2>3, <2>4, <2>5, <2>6
<1>8. N \in S
  <2> HIDE DEF S
  <2>1. \A k \in 0 .. N : k \in S
    BY <1>1, <1>6, <1>7, UpTo
  <2>2. N \in 0 .. N
    BY <1>1
  <2> QED BY <2>1, <2>2
<1>9. t.row + 1 - larger(n, 1) = t.row - N
  BY <1>1, <1>5
<1> QED BY <1>4, <1>8, <1>9

\* What layOut() does before it writes.
LEMMA Cleared ==
  ASSUME Wide, Rows \in Nat, NEW t \in Terminal, NEW k \in Int, NEW n \in Nat,
         larger(n, 1) <= t.row + larger(k, 0) + 1
  PROVE  LET u == eraseRight(cr(eraseUp(down(t, k), n)))
             last == t.row + larger(k, 0)
         IN /\ u \in Terminal /\ u.row = last + 1 - larger(n, 1) /\ u.col = 0
            /\ \A q \in 0 .. Rows :
                 u.cells[q] = IF q >= u.row /\ q <= last THEN blankRow ELSE t.cells[q]
<1> DEFINE d == down(t, k)
           e == eraseUp(d, n)
           u == eraseRight(cr(e))
           last == t.row + larger(k, 0)
<1>1. d \in Terminal /\ d.row = last /\ d.cells = t.cells
  <2>1. d \in Terminal
    BY MovesTyped
  <2> QED BY <2>1 DEF down, Terminal
<1> HIDE DEF d
<1>2. /\ e \in Terminal /\ e.row = d.row + 1 - larger(n, 1)
      /\ \A q \in 0 .. Rows :
           e.cells[q] = IF q > e.row /\ q <= d.row THEN blankRow ELSE d.cells[q]
  BY <1>1, RowsErased
<1> HIDE DEF e
<1>3. /\ u \in Terminal /\ u.row = e.row /\ u.col = 0
      /\ \A q \in 0 .. Rows : u.cells[q] = IF q = e.row THEN blankRow ELSE e.cells[q]
  BY <1>2, RowCleared
<1> HIDE DEF u
<1>4. last \in Nat /\ e.row \in Nat /\ e.row <= last
  <2>1. e.row \in Nat /\ d.row \in Nat
    BY <1>1, <1>2 DEF Terminal
  <2>2. larger(n, 1) \in Nat /\ larger(n, 1) >= 1
    BY DEF larger
  <2> QED BY <1>1, <1>2, <2>1, <2>2
<1>5. ASSUME NEW q \in 0 .. Rows
      PROVE  u.cells[q] = IF q >= u.row /\ q <= last THEN blankRow ELSE t.cells[q]
  <2> HIDE DEF last
  <2>1. CASE q = e.row
    <3>1. q >= u.row /\ q <= last
      BY <1>3, <1>4, <2>1
    <3> QED BY <1>3, <2>1, <3>1
  <2>2. CASE q # e.row
    <3>1. (q >= u.row /\ q <= last) <=> (q > e.row /\ q <= d.row)
      BY <1>1, <1>3, <1>4, <2>2
    <3> QED BY <1>1, <1>2, <1>3, <2>2, <3>1
  <2> QED BY <2>1, <2>2
<1> QED BY <1>1, <1>2, <1>3, <1>5 DEF u, e, d

(***************************************************************************)
(* Texts: what is written and measured of two texts, where a text ends, and*)
(* what it leaves alone.                                                   *)
(***************************************************************************)

LEMMA Joined ==
  ASSUME NEW A, NEW s \in Seq(A), NEW r \in Seq(A)
  PROVE  s \o r \in Seq(A) /\ Len(s \o r) = Len(s) + Len(r) /\ s \o <<>> = s
OBVIOUS

LEMMA JoinedMore ==
  ASSUME NEW A, NEW s \in Seq(A), NEW r \in Seq(A), NEW c \in A
  PROVE  s \o Append(r, c) = Append(s \o r, c)
<1> DEFINE x == s \o Append(r, c)
           y == Append(s \o r, c)
<1>1. x \in Seq(A) /\ y \in Seq(A) /\ Len(x) = Len(s) + Len(r) + 1 /\ Len(y) = Len(x)
  OBVIOUS
<1>2. ASSUME NEW i \in 1 .. Len(x) PROVE x[i] = y[i]
  BY <1>1
<1> HIDE DEF x, y
<1>3. x = y
  BY <1>1, <1>2, SameElements
<1> QED BY <1>3 DEF x, y

LEMMA SumTyped == ASSUME NEW s \in Seq(Char) PROVE unicodeColumnPos(s) \in Nat
<1> DEFINE P == {r \in Seq(Char) : unicodeColumnPos(r) \in Nat}
<1>1. <<>> \in P
  BY SumOfNothing
<1>2. ASSUME NEW r \in Seq(Char), NEW c \in Char, r \in P PROVE Append(r, c) \in P
  <2>1. unicodeColumnPos(Append(r, c)) = unicodeColumnPos(r) + colwidth(c)
    BY SumOfMore
  <2>2. colwidth(c) \in Nat /\ Append(r, c) \in Seq(Char)
    BY ColumnsOf
  <2> QED BY <1>2, <2>1, <2>2
<1>3. \A r \in Seq(Char) : r \in P
  <2> HIDE DEF P
  <2> QED BY <1>1, <1>2, SequenceInduction
<1> QED BY <1>3

LEMMA SumJoined ==
  ASSUME NEW s \in Seq(Char), NEW r \in Seq(Char)
  PROVE  unicodeColumnPos(s \o r) = unicodeColumnPos(s) + unicodeColumnPos(r)
<1> DEFINE P == {q \in Seq(Char) :
                   unicodeColumnPos(s \o q) = unicodeColumnPos(s) + unicodeColumnPos(q)}
<1>1. <<>> \in P
  <2>1. s \o <<>> = s /\ unicodeColumnPos(s) \in Nat
    BY Joined, SumTyped
  <2> QED BY <2>1, SumOfNothing
<1>2. ASSUME NEW q \in Seq(Char), NEW c \in Char, q \in P PROVE Append(q, c) \in P
  <2>1. s \o Append(q, c) = Append(s \o q, c) /\ s \o q \in Seq(Char)
    BY Joined, JoinedMore
  <2>2. unicodeColumnPos(Append(s \o q, c)) = unicodeColumnPos(s \o q) + colwidth(c)
    BY <2>1, SumOfMore
  <2>3. unicodeColumnPos(Append(q, c)) = unicodeColumnPos(q) + colwidth(c)
    BY SumOfMore
  <2>4. /\ colwidth(c) \in Nat /\ Append(q, c) \in Seq(Char)
        /\ unicodeColumnPos(s) \in Nat /\ unicodeColumnPos(q) \in Nat
    BY ColumnsOf, SumTyped
  <2>5. unicodeColumnPos(s \o q) = unicodeColumnPos(s) + unicodeColumnPos(q)
    BY <1>2
  <2>6. unicodeColumnPos(s \o Append(q, c)) = unicodeColumnPos(s) + unicodeColumnPos(Append(q, c))
    BY <2>1, <2>2, <2>3, <2>4, <2>5
  <2> QED BY <2>4, <2>6
<1>3. \A q \in Seq(Char) : q \in P
  <2> HIDE DEF P
  <2> QED BY <1>1, <1>2, SequenceInduction
<1> QED BY <1>3

LEMMA CounterTyped ==
  ASSUME cols \in Nat, pcolwid \in Nat, NEW s \in Seq(Char)
  PROVE  Counted(s) \in Counter
<1> DEFINE P == {r \in Seq(Char) : Counted(r) \in Counter}
<1>1. <<>> \in P
  BY CountedNothing DEF counter, Counter
<1>2. ASSUME NEW r \in Seq(Char), NEW c \in Char, r \in P PROVE Append(r, c) \in P
  <2>1. Counted(Append(r, c)) = counted(Counted(r), c)
    BY CountedMore
  <2>2. Append(r, c) \in Seq(Char)
    OBVIOUS
  <2> QED BY <1>2, <2>1, <2>2, CountedTyped
<1>3. \A r \in Seq(Char) : r \in P
  <2> HIDE DEF P
  <2> QED BY <1>1, <1>2, SequenceInduction
<1> QED BY <1>3

LEMMA WriteTyped ==
  ASSUME Wide, NEW t \in Terminal, NEW s \in Seq(Char)
  PROVE  write(t, s) \in Terminal
<1> DEFINE P == {r \in Seq(Char) : write(t, r) \in Terminal}
<1>1. <<>> \in P
  BY WriteNothing
<1>2. ASSUME NEW r \in Seq(Char), NEW c \in Char, r \in P PROVE Append(r, c) \in P
  <2>1. write(t, Append(r, c)) = put(write(t, r), c)
    BY WriteMore
  <2>2. Append(r, c) \in Seq(Char)
    OBVIOUS
  <2> QED BY <1>2, <2>1, <2>2, PutShows
<1>3. \A r \in Seq(Char) : r \in P
  <2> HIDE DEF P
  <2> QED BY <1>1, <1>2, SequenceInduction
<1> QED BY <1>3

LEMMA WriteJoined ==
  ASSUME Wide, NEW t \in Terminal, NEW s \in Seq(Char), NEW r \in Seq(Char)
  PROVE  write(t, s \o r) = write(write(t, s), r)
<1> DEFINE P == {q \in Seq(Char) : write(t, s \o q) = write(write(t, s), q)}
<1>0. write(t, s) \in Terminal
  BY WriteTyped
<1>1. <<>> \in P
  <2>1. s \o <<>> = s
    BY Joined
  <2> QED BY <1>0, <2>1, WriteNothing
<1>2. ASSUME NEW q \in Seq(Char), NEW c \in Char, q \in P PROVE Append(q, c) \in P
  <2>1. s \o Append(q, c) = Append(s \o q, c) /\ s \o q \in Seq(Char)
    BY Joined, JoinedMore
  <2>2. write(t, Append(s \o q, c)) = put(write(t, s \o q), c)
    BY <2>1, WriteMore
  <2>3. write(write(t, s), Append(q, c)) = put(write(write(t, s), q), c)
    BY <1>0, WriteMore
  <2>4. Append(q, c) \in Seq(Char)
    OBVIOUS
  <2>5. write(t, s \o Append(q, c)) = write(write(t, s), Append(q, c))
    BY <1>2, <2>1, <2>2, <2>3
  <2> QED BY <2>4, <2>5
<1>3. \A q \in Seq(Char) : q \in P
  <2> HIDE DEF P
  <2> QED BY <1>1, <1>2, SequenceInduction
<1> QED BY <1>3

\* Text goes down, by at most a row for a character, and changes no row above
\* it or below.
LEMMA WriteGoesDown ==
  ASSUME Wide, NEW t \in Terminal, NEW s \in Seq(Char)
  PROVE  LET u == write(t, s)
         IN /\ t.row <= u.row /\ u.row <= t.row + Len(s)
            /\ \A q \in 0 .. Rows : q < t.row \/ q > u.row => u.cells[q] = t.cells[q]
<1> DEFINE Good(r) ==
             /\ t.row <= write(t, r).row /\ write(t, r).row <= t.row + Len(r)
             /\ \A q \in 0 .. Rows :
                  q < t.row \/ q > write(t, r).row => write(t, r).cells[q] = t.cells[q]
           P == {r \in Seq(Char) : Good(r)}
<1>0. t.row \in Nat
  BY DEF Terminal
<1>1. <<>> \in P
  BY <1>0, WriteNothing
<1>2. ASSUME NEW r \in Seq(Char), NEW c \in Char, r \in P PROVE Append(r, c) \in P
  <2> DEFINE v == write(t, r)
             u == put(v, c)
  <2>1. write(t, Append(r, c)) = u
    BY WriteMore
  <2>2. v \in Terminal /\ Append(r, c) \in Seq(Char) /\ Len(Append(r, c)) = Len(r) + 1 /\ Len(r) \in Nat
    BY WriteTyped
  <2>3. /\ t.row <= v.row /\ v.row <= t.row + Len(r)
        /\ \A q \in 0 .. Rows : q < t.row \/ q > v.row => v.cells[q] = t.cells[q]
    BY <1>2
  <2> HIDE DEF v
  <2>4. /\ u \in Terminal
        /\ colwidth(c) = 0 => u = v
        /\ colwidth(c) # 0 => u.row = rowOf(v, c)
        /\ \A q \in 0 .. Rows : q # rowOf(v, c) => u.cells[q] = v.cells[q]
    BY <2>2, PutShows
  <2> HIDE DEF u
  <2>5. v.row \in Nat /\ rowOf(v, c) \in v.row .. v.row + 1
    BY <2>2 DEF Terminal, rowOf
  <2>6. v.row <= u.row /\ u.row <= v.row + 1 /\ u.row \in Nat
    BY <2>2, <2>4, <2>5 DEF Terminal
  <2>7. ASSUME NEW q \in 0 .. Rows, q < t.row \/ q > u.row PROVE u.cells[q] = t.cells[q]
    <3>1. q < t.row \/ q > v.row
      BY <1>0, <2>5, <2>6, <2>7
    <3>2. u.cells[q] = v.cells[q]
      <4>1. CASE colwidth(c) = 0
        BY <2>4, <4>1
      <4>2. CASE colwidth(c) # 0
        <5>1. q # rowOf(v, c)
          BY <1>0, <2>3, <2>4, <2>5, <2>7, <4>2
        <5> QED BY <2>4, <5>1
      <4> QED BY <4>1, <4>2
    <3> QED BY <2>3, <3>1, <3>2
  <2>8. t.row <= u.row /\ u.row <= t.row + Len(r) + 1
    BY <1>0, <2>2, <2>3, <2>5, <2>6
  <2> QED BY <1>0, <2>1, <2>2, <2>7, <2>8
<1>3. \A r \in Seq(Char) : r \in P
  <2> HIDE DEF P
  <2> QED BY <1>1, <1>2, SequenceInduction
<1> QED BY <1>3

\* A text that fits into the row stays there and takes its columns; terminals
\* that agree to the left of the cursor still do.
LEMMA OneRow ==
  ASSUME Wide, NEW t \in Terminal, NEW v \in Terminal, t.row = v.row, t.col = v.col,
         t.row \in 0 .. Rows,
         \A l \in 0 .. width - 1 : l < t.col => at(t.cells, t.row, l) = at(v.cells, t.row, l),
         NEW s \in Seq(Char), t.col + unicodeColumnPos(s) <= width
  PROVE  LET u == write(t, s)
             end == t.col + unicodeColumnPos(s)
         IN /\ u.row = t.row /\ u.col = end
            /\ write(v, s).row = t.row /\ write(v, s).col = end
            /\ \A l \in 0 .. width - 1 : l >= end => at(u.cells, t.row, l) = at(t.cells, t.row, l)
            /\ \A l \in 0 .. width - 1 :
                 l < end => at(u.cells, t.row, l) = at(write(v, s).cells, t.row, l)
<1> DEFINE end(r) == t.col + unicodeColumnPos(r)
           Good(r) ==
             /\ write(t, r).row = t.row /\ write(t, r).col = end(r)
             /\ write(v, r).row = t.row /\ write(v, r).col = end(r)
             /\ \A l \in 0 .. width - 1 :
                  l >= end(r) => at(write(t, r).cells, t.row, l) = at(t.cells, t.row, l)
             /\ \A l \in 0 .. width - 1 :
                  l < end(r) => at(write(t, r).cells, t.row, l) = at(write(v, r).cells, t.row, l)
           P == {r \in Seq(Char) : end(r) <= width => Good(r)}
<1>0. t.row \in Nat /\ t.col \in Nat /\ width \in Nat
  BY DEF Terminal, Wide
<1>1. <<>> \in P
  <2>1. end(<<>>) = t.col
    BY <1>0, SumOfNothing
  <2>2. write(t, <<>>) = t /\ write(v, <<>>) = v
    BY WriteNothing
  <2> QED BY <2>1, <2>2
<1>2. ASSUME NEW r \in Seq(Char), NEW c \in Char, r \in P PROVE Append(r, c) \in P
  <2> DEFINE x == write(t, r)
             y == write(v, r)
             w == colwidth(c)
             e == end(r)
             d == end(Append(r, c))
  <2>1. write(t, Append(r, c)) = put(x, c) /\ write(v, Append(r, c)) = put(y, c)
    BY WriteMore
  <2>2. x \in Terminal /\ y \in Terminal /\ Append(r, c) \in Seq(Char)
    BY WriteTyped
  <2>3. w \in 0 .. 2 /\ e \in Nat /\ d = e + w
    <3>1. unicodeColumnPos(Append(r, c)) = unicodeColumnPos(r) + colwidth(c)
      BY SumOfMore
    <3>2. unicodeColumnPos(r) \in Nat /\ w \in 0 .. 2
      BY SumTyped, ColumnsOf
    <3> QED BY <1>0, <3>1, <3>2
  <2>4. ASSUME d <= width PROVE Good(Append(r, c))
    <3>1. /\ x.row = t.row /\ x.col = e /\ y.row = t.row /\ y.col = e
          /\ \A l \in 0 .. width - 1 : l >= e => at(x.cells, t.row, l) = at(t.cells, t.row, l)
          /\ \A l \in 0 .. width - 1 : l < e => at(x.cells, t.row, l) = at(y.cells, t.row, l)
      <4>1. e <= width
        BY <1>0, <2>3, <2>4
      <4> QED BY <1>2, <4>1
    <3> HIDE DEF x, y, e, d
    <3>2. rowOf(x, c) = t.row /\ colOf(x, c) = e /\ rowOf(y, c) = t.row /\ colOf(y, c) = e
      BY <1>0, <2>3, <2>4, <3>1 DEF rowOf, colOf
    <3>3. CASE w = 0
      <4>1. put(x, c) = x /\ put(y, c) = y
        BY <2>2, <3>3, PutShows
      <4>2. d = e
        BY <2>3, <3>3
      <4> QED BY <2>1, <3>1, <4>1, <4>2 DEF d
    <3>4. CASE w # 0
      <4> DEFINE p == put(x, c)
                 q == put(y, c)
      <4>1. /\ p.row = t.row /\ p.col = e + w
            /\ \A l \in 0 .. width - 1 :
                 at(p.cells, t.row, l) = IF l = e + w - 1 THEN (IF w = 2 THEN "W2" ELSE c)
                                         ELSE IF l = e THEN c ELSE at(x.cells, t.row, l)
        BY <2>2, <3>2, <3>4, PutShows
      <4>2. /\ q.row = t.row /\ q.col = e + w
            /\ \A l \in 0 .. width - 1 :
                 at(q.cells, t.row, l) = IF l = e + w - 1 THEN (IF w = 2 THEN "W2" ELSE c)
                                         ELSE IF l = e THEN c ELSE at(y.cells, t.row, l)
        BY <2>2, <3>2, <3>4, PutShows
      <4> HIDE DEF p, q
      <4>3. \A l \in 0 .. width - 1 : l >= d => at(p.cells, t.row, l) = at(t.cells, t.row, l)
        <5> SUFFICES ASSUME NEW l \in 0 .. width - 1, l >= d
                     PROVE  at(p.cells, t.row, l) = at(t.cells, t.row, l)
          OBVIOUS
        <5>1. l # e + w - 1 /\ l # e /\ l >= e
          BY <1>0, <2>3, <3>4
        <5>2. at(p.cells, t.row, l) = at(x.cells, t.row, l)
          BY <4>1, <5>1
        <5> QED BY <3>1, <5>1, <5>2
      <4>4. \A l \in 0 .. width - 1 : l < d => at(p.cells, t.row, l) = at(q.cells, t.row, l)
        <5> SUFFICES ASSUME NEW l \in 0 .. width - 1, l < d
                     PROVE  at(p.cells, t.row, l) = at(q.cells, t.row, l)
          OBVIOUS
        <5>1. CASE l = e + w - 1 \/ l = e
          BY <4>1, <4>2, <5>1
        <5>2. CASE ~ (l = e + w - 1 \/ l = e)
          <6>1. l < e
            BY <1>0, <2>3, <5>2
          <6>2. at(x.cells, t.row, l) = at(y.cells, t.row, l)
            BY <3>1, <6>1
          <6> QED BY <4>1, <4>2, <5>2, <6>2
        <5> QED BY <5>1, <5>2
      <4> QED BY <2>1, <2>3, <4>1, <4>2, <4>3, <4>4 DEF p, q, d
    <3> QED BY <3>3, <3>4
  <2> QED BY <2>2, <2>4
<1>3. \A r \in Seq(Char) : r \in P
  <2> HIDE DEF P
  <2> QED BY <1>1, <1>2, SequenceInduction
<1> QED BY <1>3

(***************************************************************************)
(* Multi line mode: what is counted is where the terminal is.              *)
(***************************************************************************)

LEMMA Multiples ==
  ASSUME NEW w \in Nat, NEW q \in Nat
  PROVE  q * w \in Nat /\ (q + 1) * w = q * w + w
OBVIOUS

LEMMA Divided ==
  ASSUME NEW w \in Nat \ {0}, NEW q \in Nat, NEW r \in 0 .. w - 1, NEW x \in Nat, x = q * w + r
  PROVE  x \div w = q /\ x % w = r
OBVIOUS

\* The editor knows the terminal, and its prompt leaves room in a row.
Known ==
  /\ width \in Nat /\ width >= 2 /\ cols = width /\ Rows \in Nat
  /\ prompt \in Seq(Char) /\ pcolwid \in 0 .. width - 1

Roomy == width > 2

\* The terminal before anything is written, with the prompt's row.
Clean(a) ==
  [cells |-> [r \in 0 .. Rows |-> IF r < a THEN [c \in 0 .. width - 1 |-> "old"] ELSE blankRow],
   row |-> a, col |-> 0]

LEMMA CleanTyped ==
  ASSUME Known, NEW a \in Nat
  PROVE  /\ Clean(a) \in Terminal /\ Wide /\ Clean(a).row = a /\ Clean(a).col = 0
         /\ \A q \in 0 .. Rows : q >= a => Clean(a).cells[q] = blankRow
         /\ \A q \in 0 .. Rows : q < a => Clean(a).cells[q] = [c \in 0 .. width - 1 |-> "old"]
<1>1. "old" \in Shown /\ "blank" \in Shown
  BY DEF Shown
<1> DEFINE o == [c \in 0 .. width - 1 |-> "old"]
           g == [r \in 0 .. Rows |-> IF r < a THEN o ELSE blankRow]
<1>2. o \in [0 .. width - 1 -> Shown] /\ blankRow \in [0 .. width - 1 -> Shown]
  BY <1>1 DEF blankRow
<1> HIDE DEF o
<1>3. g \in Cells
  BY <1>2 DEF Cells
<1>4. \A q \in 0 .. Rows : (q >= a => g[q] = blankRow) /\ (q < a => g[q] = o)
  OBVIOUS
<1>5. Clean(a) = [cells |-> g, row |-> a, col |-> 0]
  BY DEF Clean, o
<1> HIDE DEF g
<1>6. 0 \in 0 .. width
  BY DEF Known
<1>7. Clean(a) \in Terminal
  BY <1>3, <1>5, <1>6 DEF Terminal
<1> QED BY <1>4, <1>5, <1>7 DEF Known, Wide, o

\* The prompt is in one row.
LEMMA PromptWritten ==
  ASSUME Known, NEW a \in 0 .. Rows
  PROVE  LET t == write(Clean(a), prompt)
         IN t \in Terminal /\ t.row = a /\ t.col = pcolwid
<1> DEFINE v == Clean(a)
<1>1. /\ v \in Terminal /\ Wide /\ v.row = a /\ v.col = 0 /\ a \in Nat /\ prompt \in Seq(Char)
      /\ unicodeColumnPos(prompt) = pcolwid
  <2>1. a \in Nat
    BY DEF Known
  <2> QED BY <2>1, CleanTyped DEF Known, pcolwid
<1> HIDE DEF v
<1>2. v.col + unicodeColumnPos(prompt) <= width /\ v.col + unicodeColumnPos(prompt) = pcolwid
  BY <1>1 DEF Known
<1>3. write(v, prompt).row = v.row /\ write(v, prompt).col = v.col + unicodeColumnPos(prompt)
  BY <1>1, <1>2, OneRow
<1>4. write(v, prompt) \in Terminal
  BY <1>1, WriteTyped
<1> QED BY <1>1, <1>2, <1>3, <1>4 DEF v

\* The cursor stands as many columns from where the prompt begins as are
\* counted.
InStep(t, m, a, s) ==
  /\ t.row >= a
  /\ (t.row - a) * width + t.col = pcolwid + m.ret
  /\ m.colwid \in 0 .. width - 1
  /\ t.col = m.colwid \/ (t.col = width /\ m.colwid = 0)
  /\ t.col = 0 => t.row = a /\ pcolwid + unicodeColumnPos(s) = 0

\* One character more.
LEMMA StepInStep ==
  ASSUME Known, Roomy, NEW t \in Terminal, NEW m \in Counter, NEW a \in Nat,
         NEW s \in Seq(Char), NEW c \in Char, InStep(t, m, a, s)
  PROVE  InStep(put(t, c), counted(m, c), a, Append(s, c))
<1> DEFINE w == colwidth(c)
           u == put(t, c)
           n == counted(m, c)
           q == t.row - a
           W == width
<1>1. /\ t.row \in Nat /\ t.col \in 0 .. W /\ m.ret \in Nat /\ w \in 0 .. 2 /\ q \in Nat
      /\ W \in Nat /\ W > 2 /\ cols = W /\ pcolwid \in 0 .. W - 1 /\ t.row >= a
  BY ColumnsOf DEF Terminal, Counter, Known, Roomy, InStep
<1>2. /\ q * W + t.col = pcolwid + m.ret
      /\ m.colwid \in 0 .. W - 1
      /\ t.col = m.colwid \/ (t.col = W /\ m.colwid = 0)
      /\ t.col = 0 => t.row = a /\ pcolwid + unicodeColumnPos(s) = 0
  BY DEF InStep
<1>3. n.ret = m.ret + overflow(m.colwid, c) + w /\ n.colwid = following(m.colwid, c)
  BY DEF counted
<1>4. /\ u \in Terminal
      /\ w = 0 => u = t
      /\ w # 0 => u.row = rowOf(t, c) /\ u.col = colOf(t, c) + w
  <2>1. Wide
    BY DEF Known, Wide
  <2> QED BY <2>1, PutShows
<1>5. unicodeColumnPos(Append(s, c)) = unicodeColumnPos(s) + w /\ unicodeColumnPos(s) \in Nat
  BY SumOfMore, SumTyped
<1>6. q * W \in Nat /\ (q + 1) * W = q * W + W
  BY <1>1, Multiples
<1> HIDE DEF n, u, w
<1>7. CASE w = 0
  <2>1. overflow(m.colwid, c) = 0 /\ following(m.colwid, c) = m.colwid
    BY <1>1, <1>2, <1>7 DEF overflow, following, larger, w
  <2>2. u = t /\ n.ret = m.ret /\ n.colwid = m.colwid
    BY <1>1, <1>3, <1>4, <1>7, <2>1
  <2>3. unicodeColumnPos(Append(s, c)) = unicodeColumnPos(s)
    BY <1>5, <1>7
  <2>4. InStep(u, n, a, Append(s, c))
    BY <1>2, <2>2, <2>3 DEF InStep
  <2> QED BY <2>4 DEF u, n
<1>8. CASE w # 0
  <2>1. CASE t.col + w > W
    <3>1. u.row = t.row + 1 /\ u.col = w /\ u.row - a = q + 1 /\ u.row >= a
      BY <1>1, <1>4, <1>8, <2>1 DEF rowOf, colOf, w
    <3>2. /\ overflow(m.colwid, c) = W - t.col /\ following(m.colwid, c) = w
      <4>1. CASE t.col = m.colwid
        BY <1>1, <1>2, <2>1, <4>1 DEF overflow, following, larger, w
      <4>2. CASE t.col = W /\ m.colwid = 0
        BY <1>1, <1>2, <1>8, <2>1, <4>2 DEF overflow, following, larger, w
      <4> QED BY <1>2, <4>1, <4>2
    <3>3. (u.row - a) * W + u.col = pcolwid + n.ret
      <4>1. (u.row - a) * W = q * W + W
        BY <1>6, <3>1
      <4> DEFINE X == q * W
                 Y == (u.row - a) * W
      <4>2. X \in Nat /\ X + t.col = pcolwid + m.ret /\ Y = X + W
        BY <1>2, <1>6, <4>1
      <4> HIDE DEF X, Y
      <4>3. n.ret = m.ret + (W - t.col) + w
        BY <1>3, <3>2
      <4>4. u.col = w /\ Y = X + W /\ X + t.col = pcolwid + m.ret
        BY <3>1, <4>2
      <4>5. /\ X \in Nat /\ t.col \in Nat /\ pcolwid \in Nat /\ m.ret \in Nat /\ W \in Nat /\ w \in Nat
        BY <1>1, <4>2
      <4> HIDE DEF W, q
      <4>6. Y + u.col = pcolwid + n.ret
        <5>1. X = pcolwid + m.ret - t.col
          BY <4>4, <4>5
        <5>2. Y + u.col = X + W + w
          BY <4>4
        <5>3. X + W + w = pcolwid + (m.ret + (W - t.col) + w)
          BY <4>5, <5>1
        <5> QED BY <4>3, <5>2, <5>3
      <4> QED BY <4>6 DEF Y
    <3>4. n.colwid = w /\ w \in 1 .. W - 1
      BY <1>1, <1>3, <1>8, <3>2
    <3> QED BY <3>1, <3>3, <3>4 DEF InStep, u, n
  <2>2. CASE ~ (t.col + w > W)
    <3>1. u.row = t.row /\ u.col = t.col + w /\ t.col = m.colwid
      BY <1>1, <1>2, <1>4, <1>8, <2>2 DEF rowOf, colOf, w
    <3>2. overflow(m.colwid, c) = 0 /\ following(m.colwid, c) = IF t.col + w = W THEN 0 ELSE t.col + w
      BY <1>1, <1>2, <2>2, <3>1 DEF overflow, following, larger, w
    <3>3. (u.row - a) * W + u.col = pcolwid + n.ret
      <4>1. (u.row - a) * W = q * W
        BY <3>1
      <4> DEFINE X == q * W
                 Y == (u.row - a) * W
      <4>2. X \in Nat /\ X + t.col = pcolwid + m.ret /\ Y = X
        BY <1>2, <1>6, <4>1
      <4> HIDE DEF X, Y
      <4>3. n.ret = m.ret + 0 + w
        BY <1>3, <3>2
      <4>4. u.col = t.col + w /\ Y = X /\ X + t.col = pcolwid + m.ret
        BY <3>1, <4>2
      <4>5. /\ X \in Nat /\ t.col \in Nat /\ pcolwid \in Nat /\ m.ret \in Nat /\ W \in Nat /\ w \in Nat
        BY <1>1, <4>2
      <4> HIDE DEF W, q
      <4>6. Y + u.col = pcolwid + n.ret
        <5>1. X = pcolwid + m.ret - t.col
          BY <4>4, <4>5
        <5>2. Y + u.col = X + (t.col + w)
          BY <4>4
        <5>3. X + (t.col + w) = pcolwid + (m.ret + 0 + w)
          BY <4>5, <5>1
        <5> QED BY <4>3, <5>2, <5>3
      <4> QED BY <4>6 DEF Y
    <3>4. n.colwid \in 0 .. W - 1 /\ u.col # 0 /\ (u.col = n.colwid \/ (u.col = W /\ n.colwid = 0))
      <4>1. t.col + w \in 1 .. W
        BY <1>1, <1>8, <2>2
      <4>2. n.colwid = IF t.col + w = W THEN 0 ELSE t.col + w
        BY <1>3, <3>2
      <4> QED BY <1>1, <3>1, <4>1, <4>2
    <3> QED BY <3>1, <3>3, <3>4 DEF InStep, u, n
  <2> QED BY <2>1, <2>2
<1> QED BY <1>7, <1>8

LEMMA AlwaysInStep ==
  ASSUME Known, Roomy, NEW a \in 0 .. Rows, NEW s \in Seq(Char)
  PROVE  LET t == write(Clean(a), prompt \o s)
         IN /\ t \in Terminal /\ t.row >= a /\ Counted(s) \in Counter
            /\ InStep(t, Counted(s), a, s)
<1> DEFINE v == Clean(a)
           T(r) == write(v, prompt \o r)
           P == {r \in Seq(Char) : InStep(T(r), Counted(r), a, r)}
<1>1. /\ v \in Terminal /\ Wide /\ v.row = a /\ a \in Nat /\ prompt \in Seq(Char)
      /\ cols \in Nat /\ pcolwid \in Nat
  <2>1. a \in Nat
    BY DEF Known
  <2> QED BY <2>1, CleanTyped DEF Known
<1>2. ASSUME NEW r \in Seq(Char)
      PROVE  T(r) \in Terminal /\ T(r).row >= a /\ Counted(r) \in Counter
  <2> HIDE DEF v
  <2>1. prompt \o r \in Seq(Char)
    BY <1>1, Joined
  <2>2. write(v, prompt \o r) \in Terminal /\ v.row <= write(v, prompt \o r).row
    BY <1>1, <2>1, WriteTyped, WriteGoesDown
  <2>3. write(v, prompt \o r).row \in Nat
    BY <2>2 DEF Terminal
  <2> QED BY <1>1, <2>2, <2>3, CounterTyped
<1>3. <<>> \in P
  <2>1. T(<<>>) = write(v, prompt)
    BY <1>1, Joined
  <2>2. write(v, prompt).row = a /\ write(v, prompt).col = pcolwid
    BY PromptWritten
  <2>3. Counted(<<>>) = [ret |-> 0, colwid |-> pcolwid]
    BY <1>1, CountedNothing DEF counter
  <2>4. unicodeColumnPos(<<>>) = 0
    BY SumOfNothing
  <2>5. (a - a) * width = 0 /\ pcolwid \in 0 .. width - 1
    BY <1>1 DEF Known
  <2> HIDE DEF v, T
  <2>6. InStep(T(<<>>), Counted(<<>>), a, <<>>)
    BY <1>1, <2>1, <2>2, <2>3, <2>4, <2>5 DEF InStep
  <2> QED BY <2>6
<1>4. ASSUME NEW r \in Seq(Char), NEW c \in Char, r \in P PROVE Append(r, c) \in P
  <2>1. T(Append(r, c)) = put(T(r), c)
    <3> HIDE DEF v
    <3>1. prompt \o Append(r, c) = Append(prompt \o r, c) /\ prompt \o r \in Seq(Char)
      BY <1>1, Joined, JoinedMore
    <3> QED BY <1>1, <3>1, WriteMore
  <2>2. Counted(Append(r, c)) = counted(Counted(r), c)
    BY <1>1, CountedMore
  <2>3. T(r) \in Terminal /\ T(r).row >= a /\ Counted(r) \in Counter /\ InStep(T(r), Counted(r), a, r)
    BY <1>2, <1>4
  <2> HIDE DEF T
  <2>4. InStep(put(T(r), c), counted(Counted(r), c), a, Append(r, c))
    BY <1>1, <2>3, StepInStep
  <2>5. Append(r, c) \in Seq(Char)
    OBVIOUS
  <2> QED BY <2>1, <2>2, <2>4, <2>5
<1>5. \A r \in Seq(Char) : r \in P
  <2> HIDE DEF P
  <2> QED BY <1>3, <1>4, SequenceInduction
<1>6. InStep(T(s), Counted(s), a, s)
  BY <1>5
<1> QED BY <1>2, <1>6

LEMMA Remainder ==
  ASSUME NEW w \in Nat \ {0}, NEW x \in Nat
  PROVE  x \div w \in Nat /\ x % w \in 0 .. w - 1 /\ x = (x \div w) * w + (x % w)
OBVIOUS

LEMMA OneRowMore ==
  ASSUME NEW w \in Nat \ {0}, NEW x \in Nat
  PROVE  (x + w) \div w = x \div w + 1
<1> DEFINE d == x \div w
           r == x % w
           y == x + w
<1>1. d \in Nat /\ r \in 0 .. w - 1 /\ x = d * w + r
  BY Remainder
<1> HIDE DEF d, r
<1>2. d * w \in Nat /\ (d + 1) * w = d * w + w
  BY <1>1, Multiples
<1>3. y \in Nat /\ y = (d + 1) * w + r /\ d + 1 \in Nat
  BY <1>1, <1>2
<1> HIDE DEF y
<1>4. y \div w = d + 1
  BY <1>1, <1>3, Divided
<1> QED BY <1>4 DEF y, d

\* A line as the editor holds it, and a place in it.
Editable(s, p) ==
  s \in Seq(Char \ {"esc"}) /\ p \in 0 .. Len(s) /\ boundary(s, p)

LEMMA EditableFacts ==
  ASSUME NEW s, NEW p, Editable(s, p)
  PROVE  /\ s \in Seq(Char) /\ p \in 0 .. Len(s) /\ Len(s) \in Nat /\ SubSeq(s, 1, p) \in Seq(Char)
         /\ p < Len(s) => s[p + 1] \in Char /\ (colwidth(s[p + 1]) = 0 => p = 0)
<1>1. s \in Seq(Char) /\ p \in 0 .. Len(s) /\ Len(s) \in Nat
  BY DEF Editable
<1>2. SubSeq(s, 1, p) \in Seq(Char)
  BY <1>1, Prefix
<1>3. ASSUME p < Len(s), p # 0 PROVE s[p + 1] \in Char \ {"esc", "m"}
  <2>1. p + 1 \in 1 .. Len(s)
    BY <1>1, <1>3
  <2>2. s[p + 1] \in Char \ {"esc"}
    BY <2>1 DEF Editable
  <2>3. s[p + 1] # "m"
    BY <1>1, <1>3 DEF Editable, boundary
  <2> QED BY <2>2, <2>3
<1>4. ASSUME p < Len(s), p = 0 PROVE s[p + 1] \in Char
  BY <1>1, <1>4
<1>5. \A c \in Char \ {"esc", "m"} : colwidth(c) # 0
  BY DEF colwidth
<1> QED BY <1>1, <1>2, <1>3, <1>4, <1>5

LEMMA NothingOver ==
  ASSUME Known, Roomy, NEW t \in Terminal, NEW m \in Counter, NEW a, NEW s, InStep(t, m, a, s),
         NEW c \in Char
  PROVE  /\ t.col + colwidth(c) > width => overflow(m.colwid, c) = width - t.col
         /\ ~ (t.col + colwidth(c) > width) /\ (colwidth(c) = 0 => t.col < width)
              => overflow(m.colwid, c) = 0
<1> DEFINE w == colwidth(c)
<1>1. /\ t.col \in 0 .. width /\ w \in 0 .. 2 /\ width \in Nat /\ width > 2 /\ cols = width
      /\ m.colwid \in 0 .. width - 1
      /\ t.col = m.colwid \/ (t.col = width /\ m.colwid = 0)
  BY ColumnsOf DEF Terminal, Known, Roomy, InStep
<1>2. overflow(m.colwid, c) = IF m.colwid + w - width > 0 THEN m.colwid + w - width ELSE 0
  BY <1>1 DEF overflow, larger
<1> HIDE DEF w
<1>3. CASE t.col = m.colwid
  BY <1>1, <1>2, <1>3 DEF w
<1>4. CASE t.col = width /\ m.colwid = 0
  BY <1>1, <1>2, <1>4 DEF w
<1> QED BY <1>1, <1>3, <1>4

\* What is counted up to a place tells the row and the column of the place.
LEMMA PlaceCounted ==
  ASSUME Known, Roomy, NEW a \in 0 .. Rows, NEW s, NEW p, Editable(s, p)
  PROVE  LET t     == write(Clean(a), prompt \o SubSeq(s, 1, p))
             place == placeOf(t, s, p)
             n     == unicodeColumnPosForMultiLine(s, p, cols, pcolwid)
         IN /\ n \in Nat /\ place[1] \in Nat /\ place[1] >= a /\ place[2] \in 0 .. width - 1
            /\ pcolwid + n = (place[1] - a) * width + place[2]
            /\ place = IF t.col + (IF p < Len(s) THEN colwidth(s[p + 1]) ELSE 1) > width
                       THEN <<t.row + 1, 0>> ELSE <<t.row, t.col>>
<1> DEFINE r == SubSeq(s, 1, p)
           t == write(Clean(a), prompt \o r)
           m == Counted(r)
           W == width
           w == IF p < Len(s) THEN colwidth(s[p + 1]) ELSE 1
           o == IF p < Len(s) THEN overflow(m.colwid, s[p + 1]) ELSE 0
           n == unicodeColumnPosForMultiLine(s, p, cols, pcolwid)
           place == placeOf(t, s, p)
           q == t.row - a
<1>1. /\ s \in Seq(Char) /\ p \in 0 .. Len(s) /\ Len(s) \in Nat /\ r \in Seq(Char)
      /\ p < Len(s) => s[p + 1] \in Char /\ (colwidth(s[p + 1]) = 0 => p = 0)
  BY EditableFacts
<1>2. n = m.ret + o
  BY <1>1, MeasuredIs
<1>3. place = IF t.col + w > W THEN <<t.row + 1, 0>> ELSE <<t.row, t.col>>
  BY DEF placeOf
<1> HIDE DEF r, n, place
<1>4. t \in Terminal /\ t.row >= a /\ m \in Counter /\ InStep(t, m, a, r)
  BY <1>1, AlwaysInStep
<1>5. ASSUME p < Len(s), colwidth(s[p + 1]) = 0 PROVE t.col < W
  <2>1. r = <<>>
    BY <1>1, <1>5, WholePrefix DEF r
  <2>2. prompt \o r = prompt
    BY <2>1, Joined DEF Known
  <2>3. t.col = pcolwid
    BY <2>2, PromptWritten
  <2> QED BY <2>3 DEF Known
<1> HIDE DEF t, m
<1>6. /\ t.row \in Nat /\ t.col \in 0 .. W /\ m.ret \in Nat /\ q \in Nat /\ a \in Nat /\ pcolwid \in Nat
      /\ W \in Nat /\ q * W + t.col = pcolwid + m.ret
  BY <1>4 DEF Terminal, Counter, Known, InStep
<1>7. w \in 0 .. 2
  <2>1. CASE p < Len(s)
    BY <1>1, <2>1, ColumnsOf
  <2>2. CASE ~ (p < Len(s))
    BY <2>2
  <2> QED BY <2>1, <2>2
<1>8. CASE t.col + w > W
  <2>1. o = W - t.col
    <3>1. CASE p < Len(s)
      BY <1>1, <1>4, <1>8, <3>1, NothingOver
    <3>2. CASE ~ (p < Len(s))
      BY <1>6, <1>8, <3>2
    <3> QED BY <3>1, <3>2
  <2>2. place[1] = t.row + 1 /\ place[2] = 0
    BY <1>3, <1>8
  <2> HIDE DEF o, w
  <2>3. n \in Nat /\ n = m.ret + (W - t.col)
    BY <1>2, <1>6, <2>1
  <2> DEFINE X == q * W
             Y == (place[1] - a) * W
  <2>4. X \in Nat /\ Y = X + W /\ X + t.col = pcolwid + m.ret
    <3>1. X \in Nat /\ (q + 1) * W = X + W
      BY <1>6, Multiples
    <3>2. place[1] - a = q + 1
      BY <1>6, <2>2
    <3> QED BY <1>6, <3>1, <3>2
  <2> HIDE DEF X, Y, q
  <2>5. X = pcolwid + m.ret - t.col
    BY <1>6, <2>4
  <2>6. pcolwid + n = Y + 0
    BY <1>6, <2>3, <2>4, <2>5
  <2>7. 0 \in 0 .. width - 1 /\ place[1] \in Nat /\ place[1] >= a
    BY <1>4, <1>6, <2>2 DEF Known
  <2> QED BY <1>3, <1>8, <2>2, <2>3, <2>6, <2>7 DEF Y, n, place, t, r, w
<1>9. CASE ~ (t.col + w > W)
  <2>1. o = 0
    <3>1. CASE p < Len(s)
      BY <1>1, <1>4, <1>5, <1>9, <3>1, NothingOver
    <3>2. CASE ~ (p < Len(s))
      BY <3>2
    <3> QED BY <3>1, <3>2
  <2>2. place[1] = t.row /\ place[2] = t.col
    BY <1>3, <1>9
  <2>3. t.col \in 0 .. W - 1
    <3>1. CASE w = 0
      <4>1. p < Len(s) /\ colwidth(s[p + 1]) = 0
        BY <3>1
      <4> QED BY <1>5, <1>6, <4>1
    <3>2. CASE w # 0
      <4> HIDE DEF w
      <4> QED BY <1>6, <1>7, <1>9, <3>2
    <3> QED BY <3>1, <3>2
  <2> HIDE DEF o, w
  <2>4. n \in Nat /\ n = m.ret
    BY <1>2, <1>6, <2>1
  <2>5. pcolwid + n = (place[1] - a) * W + place[2]
    BY <1>6, <2>2, <2>4
  <2> QED BY <1>3, <1>4, <1>6, <1>9, <2>2, <2>3, <2>4, <2>5 DEF n, place, t, r, w
<1> QED BY <1>8, <1>9

\* A text is its part up to a place and the rest.
LEMMA SplitAt ==
  ASSUME NEW A, NEW s \in Seq(A), NEW p \in 0 .. Len(s)
  PROVE  /\ SubSeq(s, 1, p) \in Seq(A) /\ SubSeq(s, p + 1, Len(s)) \in Seq(A)
         /\ s = SubSeq(s, 1, p) \o SubSeq(s, p + 1, Len(s))
<1> DEFINE x == SubSeq(s, 1, p)
           y == SubSeq(s, p + 1, Len(s))
           z == x \o y
<1>1. x \in Seq(A) /\ Len(x) = p /\ \A i \in 1 .. p : x[i] = s[i]
  BY Prefix
<1>2. y \in Seq(A) /\ Len(y) = Len(s) - p /\ \A i \in 1 .. Len(s) - p : y[i] = s[p + i]
  OBVIOUS
<1> HIDE DEF x, y
<1>3. z \in Seq(A) /\ Len(z) = Len(s)
  BY <1>1, <1>2
<1>4. ASSUME NEW i \in 1 .. Len(s) PROVE s[i] = z[i]
  <2>1. CASE i <= p
    BY <1>1, <1>2, <2>1
  <2>3. i <= p \/ i > p
    OBVIOUS
  <2>2. CASE i > p
    <3>1. i - p \in 1 .. Len(s) - p /\ p + (i - p) = i
      BY <2>2
    <3>2. z[i] = y[i - p]
      BY <1>1, <1>2, <2>2
    <3> QED BY <1>2, <3>1, <3>2
  <2> HIDE DEF z
  <2> QED BY <2>1, <2>2, <2>3
<1> HIDE DEF z
<1>5. s = z
  BY <1>3, <1>4, SameElements
<1> QED BY <1>1, <1>2, <1>5 DEF x, y, z

\* What is written of a line ends no higher than a part of it does.
LEMMA PartEndsAbove ==
  ASSUME Known, NEW a \in 0 .. Rows, NEW s \in Seq(Char), NEW p \in 0 .. Len(s)
  PROVE  write(Clean(a), prompt \o SubSeq(s, 1, p)).row <= write(Clean(a), prompt \o s).row
<1> DEFINE x == SubSeq(s, 1, p)
           y == SubSeq(s, p + 1, Len(s))
           v == Clean(a)
<1>1. x \in Seq(Char) /\ y \in Seq(Char) /\ s = x \o y
  BY SplitAt
<1>2. v \in Terminal /\ Wide /\ prompt \in Seq(Char)
  <2>1. a \in Nat
    BY DEF Known
  <2> QED BY <2>1, CleanTyped DEF Known
<1> HIDE DEF x, y, v
<1>3. prompt \o s = (prompt \o x) \o y /\ prompt \o x \in Seq(Char)
  BY <1>1, <1>2
<1>4. write(v, prompt \o s) = write(write(v, prompt \o x), y) /\ write(v, prompt \o x) \in Terminal
  <2> DEFINE g == prompt \o x
  <2>1. g \in Seq(Char) /\ prompt \o s = g \o y
    BY <1>3
  <2> HIDE DEF g
  <2>2. write(v, g) \in Terminal
    BY <1>2, <2>1, WriteTyped
  <2>3. write(v, g \o y) = write(write(v, g), y)
    BY <1>1, <1>2, <2>1, WriteJoined
  <2> QED BY <2>1, <2>2, <2>3 DEF g
<1> DEFINE u == write(v, prompt \o x)
<1>5. u.row <= write(u, y).row
  <2>1. u \in Terminal
    BY <1>4
  <2> HIDE DEF u
  <2> QED BY <1>1, <1>2, <2>1, WriteGoesDown
<1> QED BY <1>4, <1>5 DEF x, v

\* The next character is in the row where the cursor is placed.
LEMMA PlaceAbove ==
  ASSUME Known, NEW a \in 0 .. Rows, NEW s, NEW p, Editable(s, p), p < Len(s)
  PROVE  placeOf(write(Clean(a), prompt \o SubSeq(s, 1, p)), s, p)[1]
           <= write(Clean(a), prompt \o s).row
<1> DEFINE x == SubSeq(s, 1, p)
           c == s[p + 1]
           v == Clean(a)
           t == write(v, prompt \o x)
           place == placeOf(t, s, p)
<1>1. /\ s \in Seq(Char) /\ p \in 0 .. Len(s) /\ p + 1 \in 1 .. Len(s) /\ p + 1 \in 0 .. Len(s)
      /\ x \in Seq(Char) /\ c \in Char /\ (colwidth(c) = 0 => p = 0)
  BY EditableFacts
<1>2. v \in Terminal /\ Wide /\ prompt \in Seq(Char)
  <2>1. a \in Nat
    BY DEF Known
  <2> QED BY <2>1, CleanTyped DEF Known
<1>3. SubSeq(s, 1, p + 1) = Append(x, c)
  <2>1. (p + 1) - 1 = p
    BY <1>1
  <2>2. SubSeq(s, 1, p + 1) = Append(SubSeq(s, 1, (p + 1) - 1), s[p + 1])
    BY <1>1, PrefixGrows
  <2> QED BY <2>1, <2>2
<1>4. write(v, prompt \o SubSeq(s, 1, p + 1)).row <= write(v, prompt \o s).row
  BY <1>1, PartEndsAbove
<1>5. write(v, prompt \o x).row <= write(v, prompt \o s).row
  BY <1>1, PartEndsAbove
<1>6. place[1] = IF t.col + colwidth(c) > width THEN t.row + 1 ELSE t.row
  BY DEF placeOf
<1> HIDE DEF x, c, v, place
<1>7. prompt \o Append(x, c) = Append(prompt \o x, c) /\ prompt \o x \in Seq(Char)
  BY <1>1, <1>2, Joined, JoinedMore
<1>8. write(v, prompt \o Append(x, c)) = put(t, c) /\ t \in Terminal
  BY <1>1, <1>2, <1>7, WriteMore, WriteTyped
<1> HIDE DEF t
<1>9. CASE colwidth(c) = 0
  <2>1. t.col \in 0 .. width /\ width \in Nat
    BY <1>8 DEF Terminal, Known
  <2>2. place[1] = t.row
    BY <1>6, <1>9, <2>1
  <2> QED BY <1>5, <2>2 DEF t, place, v, x
<1>10. CASE colwidth(c) # 0
  <2>1. put(t, c).row = rowOf(t, c)
    BY <1>1, <1>2, <1>8, <1>10, PutShows
  <2>2. place[1] = put(t, c).row
    BY <1>6, <2>1 DEF rowOf
  <2> QED BY <1>3, <1>4, <1>8, <2>2 DEF t, place, v, x
<1> QED BY <1>9, <1>10

\* Up to the end: the rows that a line takes.
LEMMA RowsCounted ==
  ASSUME Known, Roomy, NEW a \in 0 .. Rows, NEW s \in Seq(Char)
  PROVE  LET t == write(Clean(a), prompt \o s)
             n == unicodeColumnPosForMultiLine(s, Len(s), cols, pcolwid)
         IN /\ n \in Nat /\ t \in Terminal /\ t.row >= a
            /\ (pcolwid + n + cols - 1) \div cols = t.row - a + IF t.col = 0 THEN 0 ELSE 1
            /\ t.col = 0 => t.row = a /\ pcolwid + unicodeColumnPos(s) = 0
<1> DEFINE t == write(Clean(a), prompt \o s)
           m == Counted(s)
           n == unicodeColumnPosForMultiLine(s, Len(s), cols, pcolwid)
           q == t.row - a
           W == width
<1>1. n = m.ret
  <2>1. Len(s) \in 0 .. Len(s) /\ SubSeq(s, 1, Len(s)) = s /\ ~ (Len(s) < Len(s))
    BY WholePrefix
  <2>2. m.ret \in Nat
    BY AlwaysInStep DEF Counter
  <2>3. ASSUME NEW p \in 0 .. Len(s), p = Len(s)
        PROVE  unicodeColumnPosForMultiLine(s, p, cols, pcolwid) = Counted(SubSeq(s, 1, p)).ret + 0
    <3>1. ~ (p < Len(s))
      BY <2>3
    <3> QED BY <3>1, MeasuredIs
  <2>4. n = Counted(SubSeq(s, 1, Len(s))).ret + 0
    BY <2>1, <2>3
  <2> DEFINE x == SubSeq(s, 1, Len(s))
  <2>5. x = s /\ n = Counted(x).ret + 0
    BY <2>1, <2>4
  <2> HIDE DEF n, x
  <2>6. Counted(x) = m
    BY <2>5
  <2> HIDE DEF m
  <2> QED BY <2>2, <2>5, <2>6
<1>2. t \in Terminal /\ t.row >= a /\ m \in Counter /\ InStep(t, m, a, s)
  BY AlwaysInStep
<1> HIDE DEF t, m, n
<1>3. /\ t.row \in Nat /\ t.col \in 0 .. W /\ m.ret \in Nat /\ q \in Nat /\ pcolwid \in Nat
      /\ W \in Nat \ {0} /\ W > 2 /\ cols = W
      /\ t.col = 0 => t.row = a /\ pcolwid + unicodeColumnPos(s) = 0
  BY <1>2 DEF Terminal, Counter, Known, Roomy, InStep
<1> DEFINE y == pcolwid + n + W - 1
           X == q * W
<1>4. X \in Nat /\ (q + 1) * W = X + W /\ X + t.col = pcolwid + m.ret
  <2>1. X + t.col = pcolwid + m.ret
    BY <1>2 DEF InStep
  <2>2. X \in Nat /\ (q + 1) * W = X + W
    <3> HIDE DEF q
    <3> QED BY <1>3, Multiples
  <2> QED BY <2>1, <2>2
<1> HIDE DEF X
<1>5. CASE t.col = 0
  <2>1. y \in Nat /\ W - 1 \in 0 .. W - 1
    BY <1>1, <1>3
  <2>2. y = X + (W - 1)
    <3>1. pcolwid \in Nat /\ m.ret \in Nat /\ W \in Nat /\ X \in Nat
      BY <1>3, <1>4
    <3>2. X + 0 = pcolwid + m.ret
      BY <1>4, <1>5
    <3>3. y = pcolwid + m.ret + W - 1
      BY <1>1
    <3> HIDE DEF y, W
    <3> QED BY <3>1, <3>2, <3>3
  <2> HIDE DEF y, q
  <2>3. y \div W = q
    BY <1>3, <2>1, <2>2, Divided DEF X
  <2> QED BY <1>1, <1>2, <1>3, <1>5, <2>3 DEF y, t, n, q
<1>6. CASE t.col # 0
  <2>1. y \in Nat /\ t.col - 1 \in 0 .. W - 1 /\ q + 1 \in Nat
    <3>1. y = pcolwid + m.ret + W - 1
      BY <1>1
    <3> HIDE DEF y, q, W
    <3>2. y \in Nat
      BY <1>3, <3>1
    <3> QED BY <1>3, <1>6, <3>2
  <2>2. y = (X + W) + (t.col - 1)
    <3>1. pcolwid \in Nat /\ m.ret \in Nat /\ W \in Nat /\ X \in Nat /\ t.col \in Nat
      BY <1>3, <1>4
    <3>2. X + t.col = pcolwid + m.ret
      BY <1>4
    <3>3. y = pcolwid + m.ret + W - 1
      BY <1>1
    <3> HIDE DEF y, W
    <3> QED BY <3>1, <3>2, <3>3
  <2> HIDE DEF y, q
  <2>3. y \div W = q + 1
    <3> DEFINE e == q + 1
    <3>1. y = e * W + (t.col - 1) /\ e \in Nat
      BY <1>4, <2>1, <2>2
    <3>3. t.col - 1 \in 0 .. W - 1 /\ y \in Nat /\ W \in Nat \ {0}
      BY <1>3, <2>1
    <3> HIDE DEF e, W
    <3>2. y \div W = e
      BY <3>1, <3>3, Divided
    <3> QED BY <3>2 DEF e
  <2> QED BY <1>1, <1>2, <1>3, <1>6, <2>3 DEF y, t, n, q
<1> QED BY <1>5, <1>6

(***************************************************************************)
(* Multi line mode: the screen after the line is laid out.                 *)
(***************************************************************************)

\* The rows above are as they were, and those below the n used ones are empty.
Canvas(t, a, n) ==
  /\ \A q \in 0 .. Rows : q < a => t.cells[q] = [c \in 0 .. width - 1 |-> "old"]
  /\ \A q \in 0 .. Rows : q >= a + larger(n, 1) => t.cells[q] = blankRow

\* The cursor is where the remembered columns say, in one of the n used rows.
Placed(t, a, colpos, n) ==
  /\ t.row = a + (pcolwid + colpos) \div width
  /\ t.row = a \/ t.row < a + n

\* What the erasing of n rows leaves behind.
Erased(t, colpos, n) ==
  eraseRight(cr(eraseUp(down(t, n - (pcolwid + colpos + cols) \div cols), n)))

\* Erasing the used rows leaves nothing.
LEMMA ErasedIsClean ==
  ASSUME Known, NEW a \in 0 .. Rows, NEW t \in Terminal, NEW n \in Nat, NEW colpos \in Nat,
         Canvas(t, a, n), Placed(t, a, colpos, n)
  PROVE  Erased(t, colpos, n) = Clean(a)
<1> DEFINE d == (pcolwid + colpos) \div width
           k == n - (pcolwid + colpos + cols) \div cols
           u == eraseRight(cr(eraseUp(down(t, k), n)))
           last == t.row + larger(k, 0)
           v == Clean(a)
<1>1. /\ pcolwid + colpos \in Nat /\ width \in Nat \ {0} /\ cols = width /\ a \in Nat /\ Rows \in Nat
      /\ t.row \in Nat
  BY DEF Known, Terminal
<1>2. d \in Nat
  <2> DEFINE x == pcolwid + colpos
  <2>1. x \in Nat
    BY <1>1
  <2> HIDE DEF x
  <2>2. x \div width \in Nat
    BY <1>1, <2>1, Remainder
  <2> QED BY <2>2 DEF x
<1>3. k = n - (d + 1)
  <2> DEFINE x == pcolwid + colpos
  <2>1. x \in Nat
    BY <1>1
  <2> HIDE DEF x
  <2>2. (x + width) \div width = x \div width + 1
    BY <1>1, <2>1, OneRowMore
  <2> QED BY <1>1, <2>2 DEF x
<1>4. t.row = a + d /\ (t.row = a \/ t.row < a + n)
  BY DEF Placed
<1> HIDE DEF k, d
<1>5. k \in Int
  BY <1>2, <1>3
<1>6. last = a + larger(n, 1) - 1 /\ larger(n, 1) \in Nat /\ larger(n, 1) >= 1
  BY <1>1, <1>2, <1>3, <1>4 DEF larger
<1>7. larger(n, 1) <= t.row + larger(k, 0) + 1
  BY <1>1, <1>6
<1>8. v \in Terminal /\ Wide /\ v.row = a /\ v.col = 0
      /\ (\A q \in 0 .. Rows : q >= a => v.cells[q] = blankRow)
      /\ (\A q \in 0 .. Rows : q < a => v.cells[q] = [c \in 0 .. width - 1 |-> "old"])
  BY <1>1, CleanTyped
<1>9. /\ u \in Terminal /\ u.row = last + 1 - larger(n, 1) /\ u.col = 0
      /\ \A q \in 0 .. Rows :
           u.cells[q] = IF q >= u.row /\ q <= last THEN blankRow ELSE t.cells[q]
  BY <1>1, <1>5, <1>7, <1>8, Cleared
<1> HIDE DEF u, v, last
<1>10. u.row = a
  BY <1>1, <1>6, <1>9
<1>11. ASSUME NEW q \in 0 .. Rows PROVE u.cells[q] = v.cells[q]
  <2>1. CASE q < a
    <3>1. ~ (q >= u.row /\ q <= last)
      BY <1>1, <1>10, <2>1
    <3>2. t.cells[q] = [c \in 0 .. width - 1 |-> "old"]
      BY <2>1 DEF Canvas
    <3> QED BY <1>8, <1>9, <2>1, <3>1, <3>2
  <2>2. CASE q >= a /\ q <= last
    BY <1>8, <1>9, <1>10, <2>2
  <2>3. CASE q > last
    <3>1. q >= a + larger(n, 1)
      BY <1>1, <1>6, <2>3
    <3>2. t.cells[q] = blankRow
      BY <3>1 DEF Canvas
    <3>3. ~ (q <= last) /\ q >= a
      BY <1>1, <1>6, <2>3
    <3> QED BY <1>8, <1>9, <3>2, <3>3
  <2> QED BY <1>1, <1>6, <2>1, <2>2, <2>3
<1>12. u = v
  <2>1. u.cells \in Cells /\ v.cells \in Cells
    BY <1>8, <1>9 DEF Terminal
  <2> DEFINE x == u.cells
             y == v.cells
  <2>2. x = [q \in 0 .. Rows |-> x[q]] /\ y = [q \in 0 .. Rows |-> y[q]]
    BY <2>1 DEF Cells
  <2>3. \A q \in 0 .. Rows : x[q] = y[q]
    BY <1>11
  <2> HIDE DEF x, y
  <2>4. x = y
    BY <2>2, <2>3
  <2>5. u = [cells |-> u.cells, row |-> u.row, col |-> u.col]
    BY <1>9 DEF Terminal
  <2>6. v = [cells |-> v.cells, row |-> v.row, col |-> v.col]
    BY <1>8 DEF Terminal
  <2>7. u.cells = v.cells
    BY <2>4 DEF x, y
  <2> QED BY <1>8, <1>9, <1>10, <2>5, <2>6, <2>7
<1> QED BY <1>12 DEF u, v, k, Erased

\* From the end of the text up to the place.
LEMMA Climbed ==
  ASSUME Wide, Rows \in Nat, NEW u \in Terminal, NEW k \in Int, NEW r \in Nat, NEW c \in 0 .. width - 1,
         larger(k, 0) = u.row - r
  PROVE  LET x == right(cr(up(u, k)), c)
         IN x \in Terminal /\ x.row = r /\ x.col = c /\ x.cells = u.cells
<1> DEFINE x == up(u, k)
           y == cr(x)
           z == right(y, c)
<1>1. u.row \in Nat /\ width \in Nat /\ width >= 2 /\ c \in Nat
  BY DEF Terminal, Wide
<1>2. x \in Terminal
  BY MovesTyped
<1>3. x.row = larger(u.row - larger(k, 0), 0) /\ x.cells = u.cells
  BY DEF up, Terminal
<1>4. x.row = r
  <2>1. u.row - larger(k, 0) = r
    BY <1>1
  <2> QED BY <1>3, <2>1 DEF larger
<1> HIDE DEF x
<1>5. y \in Terminal /\ y.row = x.row /\ y.cells = x.cells /\ y.col = 0
  <2>1. \A i \in Int : cr(x) \in Terminal
    BY <1>2, MovesTyped
  <2>2. 0 \in Int
    OBVIOUS
  <2> QED BY <1>2, <2>1, <2>2 DEF cr, Terminal
<1> HIDE DEF y
<1>6. z \in Terminal
  <2>1. c \in Int /\ c \in Nat
    BY <1>1
  <2> QED BY <1>5, <2>1, MovesTyped
<1>7. z.row = y.row /\ z.cells = y.cells /\ z.col = smaller(y.col + c, width - 1)
  BY <1>5 DEF right, Terminal
<1>8. smaller(0 + c, width - 1) = c
  BY <1>1 DEF smaller
<1> QED BY <1>3, <1>4, <1>5, <1>6, <1>7, <1>8 DEF z, y, x

\* The prompt and a line, written once; and the place of its p-th character.
Written(a, s)  == write(Clean(a), prompt \o s)
Place(a, s, p) == placeOf(Written(a, SubSeq(s, 1, p)), s, p)

\* The line takes columns.
Seen(s) == s # <<>> => pcolwid + unicodeColumnPos(s) > 0

AtEnd(a, s, p) == p > 0 /\ p = Len(s) /\ Place(a, s, p)[2] = 0

\* The place as the writing has it.
LEMMA PlaceIs ==
  ASSUME Known, Roomy, NEW a \in 0 .. Rows, NEW s, NEW p, Editable(s, p), Seen(s)
  PROVE  LET t     == Written(a, s)
             place == Place(a, s, p)
         IN /\ t \in Terminal /\ t.row >= a /\ t.col \in 0 .. width
            /\ place[1] \in Nat /\ place[1] >= a /\ place[2] \in 0 .. width - 1
            /\ t.col = 0 => t.row = a /\ s = <<>>
            /\ AtEnd(a, s, p) => place[1] = t.row + 1 /\ t.col = width
            /\ ~AtEnd(a, s, p) => place[1] <= t.row
            /\ p = Len(s) => t.row <= place[1]
<1> DEFINE t == Written(a, s)
           x == Written(a, SubSeq(s, 1, p))
           place == Place(a, s, p)
<1>1. /\ s \in Seq(Char) /\ p \in 0 .. Len(s) /\ Len(s) \in Nat
      /\ p < Len(s) => s[p + 1] \in Char /\ (colwidth(s[p + 1]) = 0 => p = 0)
  BY EditableFacts
<1>2. /\ t \in Terminal /\ t.row >= a
      /\ t.col = 0 => t.row = a /\ pcolwid + unicodeColumnPos(s) = 0
  BY <1>1, RowsCounted DEF Written
<1>3. /\ place[1] \in Nat /\ place[1] >= a /\ place[2] \in 0 .. width - 1
      /\ place = IF x.col + (IF p < Len(s) THEN colwidth(s[p + 1]) ELSE 1) > width
                 THEN <<x.row + 1, 0>> ELSE <<x.row, x.col>>
  BY PlaceCounted DEF Written, Place
<1>4. t.col \in 0 .. width /\ t.row \in Nat /\ width \in Nat /\ a \in Nat /\ pcolwid \in 0 .. width - 1
  BY <1>2 DEF Terminal, Known
<1>5. t.col = 0 => t.row = a /\ s = <<>>
  <2>1. pcolwid \in Nat /\ unicodeColumnPos(s) \in Nat
    BY <1>1, <1>4, SumTyped
  <2> QED BY <1>2, <2>1 DEF Seen
<1>6. CASE p < Len(s)
  <2>1. place[1] <= t.row
    BY <1>6, PlaceAbove DEF Written, Place
  <2>2. ~AtEnd(a, s, p) /\ p # Len(s)
    BY <1>1, <1>6 DEF AtEnd
  <2> QED BY <1>2, <1>3, <1>4, <1>5, <2>1, <2>2
<1>7. CASE p = Len(s)
  <2>1. x = t
    <3>1. SubSeq(s, 1, p) = s
      BY <1>1, <1>7, WholePrefix
    <3> QED BY <3>1
  <2>2. place = IF t.col + 1 > width THEN <<t.row + 1, 0>> ELSE <<t.row, t.col>>
    <3>1. ~ (p < Len(s))
      BY <1>1, <1>7
    <3> HIDE DEF place, x, t
    <3> QED BY <1>3, <2>1, <3>1
  <2>3. AtEnd(a, s, p) <=> p > 0 /\ place[2] = 0
    BY <1>7 DEF AtEnd
  <2>4. p = 0 => t.col = pcolwid
    <3> SUFFICES ASSUME p = 0 PROVE t.col = pcolwid
      OBVIOUS
    <3>1. s = <<>>
      BY <1>1, <1>7
    <3>2. prompt \o s = prompt
      BY <3>1, Joined DEF Known
    <3> QED BY <3>2, PromptWritten DEF Written
  <2>5. p > 0 => t.col # 0
    BY <1>1, <1>5, <1>7
  <2> HIDE DEF place, t, x
  <2>6. CASE t.col + 1 > width
    <3>1. place[1] = t.row + 1 /\ place[2] = 0 /\ t.col = width
      BY <1>4, <2>2, <2>6
    <3>2. p > 0
      BY <1>1, <1>4, <2>4, <3>1
    <3>3. AtEnd(a, s, p)
      BY <2>3, <3>1, <3>2
    <3> QED BY <1>2, <1>3, <1>4, <1>5, <3>1, <3>3 DEF t, place
  <2>7. CASE ~ (t.col + 1 > width)
    <3>1. place[1] = t.row /\ place[2] = t.col
      BY <2>2, <2>7
    <3>2. ~AtEnd(a, s, p)
      BY <1>1, <2>3, <2>5, <3>1
    <3> QED BY <1>2, <1>3, <1>4, <1>5, <3>1, <3>2 DEF t, place
  <2> QED BY <2>6, <2>7
<1> QED BY <1>1, <1>6, <1>7

\* What the drawing of a line is meant to leave behind.
LaidOut(l, a, s, p) ==
  /\ l.terminal \in Terminal
  /\ l.terminal.cells = Written(a, s).cells
  /\ <<l.terminal.row, l.terminal.col>> = Place(a, s, p)
  /\ l.terminal.row \in a .. a + Len(prompt) + Len(s) + 1
  /\ l.colpos \in Nat /\ l.rows \in 0 .. Len(prompt) + Len(s) + 2
  /\ Placed(l.terminal, a, l.colpos, l.rows)
  /\ Canvas(l.terminal, a, l.rows)
  /\ p = Len(s) => \A q \in 0 .. Rows : q > l.terminal.row => l.terminal.cells[q] = blankRow

LEMMA LayOut ==
  ASSUME Known, Roomy, NEW a \in 0 .. Rows, NEW s, NEW p, Editable(s, p), Seen(s),
         NEW t, maxrows \in Nat, oldcolpos \in Nat, Erased(t, oldcolpos, maxrows) = Clean(a)
  PROVE  LaidOut(layOut(t, s, p), a, s, p)
<1> DEFINE W == width
           v == Clean(a)
           text == Written(a, s)
           place == Place(a, s, p)
           colpos == unicodeColumnPosForMultiLine(s, Len(s), cols, pcolwid)
           colpos2 == unicodeColumnPosForMultiLine(s, p, cols, pcolwid)
           rpos2 == (pcolwid + colpos2 + cols) \div cols
           atEnd == p > 0 /\ p = Len(s) /\ (colpos2 + pcolwid) % cols = 0
           rows == (pcolwid + colpos + cols - 1) \div cols + IF atEnd THEN 1 ELSE 0
           from == IF atEnd THEN cr(lf(text)) ELSE text
           k == rows - rpos2
           c == (pcolwid + colpos2) % cols
           final == right(cr(up(from, k)), c)
           l == layOut(t, s, p)
<1>1. l = [terminal |-> final, colpos |-> colpos2, rows |-> rows]
  <2>1. eraseRight(cr(eraseUp(down(t, maxrows - (pcolwid + oldcolpos + cols) \div cols), maxrows))) = v
    BY DEF Erased
  <2> HIDE DEF v
  <2> QED BY <2>1 DEF layOut, Written, v
<1>2. /\ s \in Seq(Char) /\ p \in 0 .. Len(s) /\ Len(s) \in Nat
      /\ W \in Nat \ {0} /\ W >= 2 /\ cols = W /\ a \in Nat /\ Rows \in Nat /\ pcolwid \in Nat
      /\ prompt \in Seq(Char) /\ Len(prompt) \in Nat
  BY EditableFacts DEF Known
<1>3. /\ text \in Terminal /\ text.row >= a /\ text.col \in 0 .. W
      /\ place[1] \in Nat /\ place[1] >= a /\ place[2] \in 0 .. W - 1
      /\ text.col = 0 => text.row = a /\ s = <<>>
      /\ AtEnd(a, s, p) => place[1] = text.row + 1 /\ text.col = W
      /\ ~AtEnd(a, s, p) => place[1] <= text.row
      /\ p = Len(s) => text.row <= place[1]
  BY PlaceIs
<1>4. /\ colpos2 \in Nat /\ pcolwid + colpos2 = (place[1] - a) * W + place[2]
      /\ place = <<place[1], place[2]>>
  <2>1. colpos2 \in Nat /\ pcolwid + colpos2 = (place[1] - a) * W + place[2]
    BY PlaceCounted DEF Written, Place
  <2>2. place = <<place[1], place[2]>>
    BY DEF Place, placeOf
  <2> QED BY <2>1, <2>2
<1>5. (pcolwid + colpos + cols - 1) \div cols = text.row - a + IF text.col = 0 THEN 0 ELSE 1
  BY <1>2, RowsCounted DEF Written
<1>6. /\ v \in Terminal /\ Wide /\ v.row = a
      /\ \A q \in 0 .. Rows : q >= a => v.cells[q] = blankRow
      /\ \A q \in 0 .. Rows : q < a => v.cells[q] = [i \in 0 .. width - 1 |-> "old"]
  BY <1>2, CleanTyped
<1>7. /\ text.row <= a + Len(prompt) + Len(s)
      /\ \A q \in 0 .. Rows : q < a \/ q > text.row => text.cells[q] = v.cells[q]
  <2> HIDE DEF v
  <2>1. prompt \o s \in Seq(Char) /\ Len(prompt \o s) = Len(prompt) + Len(s)
    BY <1>2, Joined
  <2> DEFINE ps == prompt \o s
  <2>2. ps \in Seq(Char) /\ Len(ps) = Len(prompt) + Len(s)
    BY <2>1
  <2>3. text = write(v, ps)
    BY DEF Written, v
  <2> HIDE DEF ps, text
  <2>4. /\ write(v, ps).row <= v.row + Len(ps)
        /\ \A q \in 0 .. Rows : q < v.row \/ q > write(v, ps).row => write(v, ps).cells[q] = v.cells[q]
    BY <1>6, <2>2, WriteGoesDown
  <2> QED BY <1>2, <1>6, <2>2, <2>3, <2>4
<1>8. text.row \in Nat
  BY <1>3 DEF Terminal
<1> HIDE DEF W, v, text, place, colpos, colpos2, l
<1>9. /\ (pcolwid + colpos2) \div W = place[1] - a /\ c = place[2] /\ rpos2 = place[1] - a + 1
      /\ (colpos2 + pcolwid) % cols = place[2]
  <2> DEFINE y == pcolwid + colpos2
             q == place[1] - a
             r == place[2]
  <2>1. y \in Nat /\ q \in Nat /\ y = q * W + r /\ r \in 0 .. W - 1 /\ W \in Nat \ {0}
    BY <1>2, <1>3, <1>4
  <2>2. colpos2 + pcolwid = y
    BY <1>2, <1>4
  <2> HIDE DEF y, q, r
  <2>3. y \div W = q /\ y % W = r
    BY <2>1, Divided
  <2>4. (y + W) \div W = y \div W + 1
    BY <1>2, <2>1, OneRowMore
  <2> QED BY <1>2, <2>2, <2>3, <2>4 DEF y, q, r
<1>10. atEnd <=> AtEnd(a, s, p)
  BY <1>9 DEF AtEnd, place
<1> HIDE DEF rpos2, atEnd, c
<1>11. rows = text.row - a + (IF text.col = 0 THEN 0 ELSE 1) + IF atEnd THEN 1 ELSE 0
  BY <1>5
<1>12. from \in Terminal /\ from.cells = text.cells /\ k \in Int /\ larger(k, 0) = from.row - place[1]
  <2>1. CASE atEnd
    <3> DEFINE f == lf(text)
    <3>1. \A i \in Int : \A x \in Terminal : lf(x) \in Terminal /\ cr(x) \in Terminal
      BY <1>2, <1>6, MovesTyped
    <3>2. f \in Terminal /\ 0 \in Int
      BY <1>3, <3>1
    <3>3. f.row = text.row + 1 /\ f.cells = text.cells
      BY <1>3 DEF lf, Terminal
    <3> HIDE DEF f
    <3>4. cr(f) \in Terminal /\ cr(f).row = f.row /\ cr(f).cells = f.cells
      BY <3>1, <3>2 DEF cr, Terminal
    <3>5. from = cr(f)
      BY <2>1 DEF f
    <3>6. place[1] = text.row + 1 /\ text.col = W
      BY <1>3, <1>10, <2>1
    <3>7. text.col # 0
      BY <1>2, <3>6
    <3> HIDE DEF from, rows
    <3>8. k = 0
      BY <1>2, <1>8, <1>9, <1>11, <2>1, <3>6, <3>7
    <3> HIDE DEF k
    <3> QED BY <1>8, <3>3, <3>4, <3>5, <3>6, <3>8 DEF larger
  <2>2. CASE ~atEnd
    <3>1. from = text
      BY <2>2
    <3>2. place[1] <= text.row
      BY <1>3, <1>10, <2>2
    <3> HIDE DEF from, rows
    <3>3. k = text.row - place[1] - IF text.col = 0 THEN 1 ELSE 0
      <4>1. rpos2 = place[1] - a + 1 /\ a \in Nat /\ text.row \in Nat /\ place[1] \in Nat
        BY <1>2, <1>3, <1>8, <1>9
      <4>2. rows = text.row - a + IF text.col = 0 THEN 0 ELSE 1
        BY <1>8, <1>11, <2>2, <4>1
      <4>3. CASE text.col = 0
        BY <4>1, <4>2, <4>3
      <4>4. CASE text.col # 0
        BY <4>1, <4>2, <4>4
      <4> QED BY <4>3, <4>4
    <3> HIDE DEF k
    <3>4. k \in Int /\ larger(k, 0) = text.row - place[1]
      <4>1. text.col = 0 => text.row = place[1]
        BY <1>2, <1>3, <1>8, <3>2
      <4> QED BY <1>3, <1>8, <3>2, <3>3, <4>1 DEF larger
    <3> QED BY <1>3, <3>1, <3>4
  <2> QED BY <2>1, <2>2
<1>13. final \in Terminal /\ final.row = place[1] /\ final.col = place[2] /\ final.cells = text.cells
  <2> HIDE DEF from, k
  <2>1. c \in 0 .. width - 1
    BY <1>3, <1>9 DEF W
  <2>2. /\ final \in Terminal /\ final.row = place[1] /\ final.col = c /\ final.cells = from.cells
    BY <1>2, <1>3, <1>6, <1>12, <2>1, Climbed
  <2> QED BY <1>9, <1>12, <2>2
<1> HIDE DEF final, from, k
<1>14. rows \in 0 .. Len(prompt) + Len(s) + 2
  <2> HIDE DEF rows
  <2>1. /\ a \in Nat /\ text.row \in Nat /\ Len(prompt) \in Nat /\ Len(s) \in Nat
        /\ text.row >= a /\ text.row <= a + Len(prompt) + Len(s)
    BY <1>2, <1>3, <1>7, <1>8
  <2> DEFINE e == (IF text.col = 0 THEN 0 ELSE 1) + IF atEnd THEN 1 ELSE 0
  <2>2. e \in 0 .. 2
    OBVIOUS
  <2>3. rows = text.row - a + e
    BY <1>11, <2>1
  <2> HIDE DEF e
  <2> QED BY <2>1, <2>2, <2>3
<1>15. place[1] <= text.row + 1 /\ (place[1] = a \/ place[1] < a + rows) /\ text.row < a + larger(rows, 1)
  <2> HIDE DEF rows
  <2>1. CASE atEnd
    <3>1. place[1] = text.row + 1 /\ text.col = W
      BY <1>3, <1>10, <2>1
    <3>2. rows = text.row - a + 2
      BY <1>2, <1>8, <1>11, <2>1, <3>1
    <3>3. a \in Nat /\ text.row \in Nat /\ text.row >= a
      BY <1>2, <1>3, <1>8
    <3>4. larger(rows, 1) = rows
      BY <3>2, <3>3 DEF larger
    <3> QED BY <3>1, <3>2, <3>3, <3>4
  <2>2. CASE ~atEnd
    <3>1. place[1] <= text.row
      BY <1>3, <1>10, <2>2
    <3>2. rows = text.row - a + IF text.col = 0 THEN 0 ELSE 1
      BY <1>2, <1>8, <1>11, <2>2
    <3>3. a \in Nat /\ text.row \in Nat /\ text.row >= a /\ place[1] \in Nat /\ place[1] >= a
      BY <1>2, <1>3, <1>8
    <3>4. CASE text.col = 0
      <4>1. rows = 0 /\ text.row = a /\ place[1] = a
        <5>1. text.row = a
          BY <1>3, <3>4
        <5>2. rows = 0
          BY <3>2, <3>3, <3>4, <5>1
        <5> QED BY <3>1, <3>3, <5>1, <5>2
      <4> QED BY <3>3, <4>1 DEF larger
    <3>5. CASE text.col # 0
      <4>1. rows = text.row - a + 1 /\ larger(rows, 1) = rows
        BY <3>2, <3>3, <3>5 DEF larger
      <4> QED BY <3>1, <3>3, <4>1
    <3> QED BY <3>4, <3>5
  <2> QED BY <2>1, <2>2
<1> HIDE DEF rows
<1>16. Placed(final, a, colpos2, rows)
  <2>1. a + (pcolwid + colpos2) \div W = place[1]
    BY <1>2, <1>3, <1>9
  <2> QED BY <1>13, <1>15, <2>1 DEF Placed, W
<1>17. Canvas(final, a, rows)
  <2>1. ASSUME NEW q \in 0 .. Rows, q < a PROVE final.cells[q] = [i \in 0 .. width - 1 |-> "old"]
    BY <1>6, <1>7, <1>13, <2>1
  <2>2. ASSUME NEW q \in 0 .. Rows, q >= a + larger(rows, 1) PROVE final.cells[q] = blankRow
    <3>1. larger(rows, 1) \in Nat
      BY <1>14 DEF larger
    <3>2. q > text.row /\ q >= a
      BY <1>2, <1>8, <1>15, <2>2, <3>1
    <3> QED BY <1>6, <1>7, <1>13, <3>2
  <2> QED BY <2>1, <2>2 DEF Canvas
<1>18. ASSUME p = Len(s), NEW q \in 0 .. Rows, q > final.row PROVE final.cells[q] = blankRow
  <2>1. q > text.row /\ q >= a
    BY <1>2, <1>3, <1>8, <1>13, <1>18
  <2> QED BY <1>6, <1>7, <1>13, <2>1
<1>19. final.row \in a .. a + Len(prompt) + Len(s) + 1
  BY <1>2, <1>3, <1>7, <1>8, <1>13, <1>15
<1>20. <<final.row, final.col>> = place
  BY <1>4, <1>13
<1>21. l.terminal = final /\ l.colpos = colpos2 /\ l.rows = rows
  BY <1>1
<1>22. LaidOut(l, a, s, p)
  BY <1>4, <1>13, <1>14, <1>16, <1>17, <1>18, <1>19, <1>20, <1>21 DEF LaidOut, place, text
<1> QED BY <1>22 DEF l

(***************************************************************************)
(* What is written does not depend on the moment.                          *)
(***************************************************************************)

WritesOn ==
  Wide => \A t \in Terminal : write(t, <<>>) = t
                              /\ \A s \in Seq(Char) : \A c \in Char :
                                   write(t, Append(s, c)) = put(write(t, s), c)

LEMMA WritingGoesOn == WritesOn
BY WriteNothing, WriteMore DEF WritesOn

LEMMA SameWriting ==
  ASSUME Wide, width' = width
  PROVE  \A t \in Terminal : \A s \in Seq(Char) : write(t, s)' = write(t, s)
<1> SUFFICES ASSUME NEW t \in Terminal PROVE \A s \in Seq(Char) : write(t, s)' = write(t, s)
  OBVIOUS
<1>1. WritesOn'
  BY WritingGoesOn, PTL
<1>2. Wide' /\ Terminal' = Terminal
  BY DEF Wide, Terminal, Cells
<1>4. /\ write(t, <<>>)' = t
      /\ \A s \in Seq(Char) : \A c \in Char :
           write(t, Append(s, c))' = (put(write(t, s), c))'
  BY <1>1, <1>2 DEF WritesOn
<1> DEFINE P == {s \in Seq(Char) : write(t, s)' = write(t, s)}
<1>5. <<>> \in P
  BY <1>4, WriteNothing
<1>6. ASSUME NEW s \in Seq(Char), NEW c \in Char, s \in P PROVE Append(s, c) \in P
  <2>1. write(t, Append(s, c))' = (put(write(t, s), c))'
    BY <1>4
  <2>2. write(t, s) \in Terminal /\ write(t, Append(s, c)) = put(write(t, s), c)
    BY WriteTyped, WriteMore
  <2>3. (put(write(t, s), c))' = put(write(t, s), c)
    BY <1>6 DEF put
  <2> QED BY <1>6, <2>1, <2>2, <2>3
<1>7. \A s \in Seq(Char) : s \in P
  <2> HIDE DEF P
  <2> QED BY <1>5, <1>6, SequenceInduction
<1> QED BY <1>7

\* On an empty screen there is nothing to erase, and the cursor stops at the
\* top.
LEMMA NothingErased ==
  ASSUME Known, NEW n \in Nat, NEW colpos \in Nat
  PROVE  Erased(Clean(0), colpos, n) = Clean(0)
<1> DEFINE v == Clean(0)
           rpos == (pcolwid + colpos + cols) \div cols
           d == down(v, n - rpos)
           s == [k \in 1 .. n - 1 |-> k]
           N == IF n = 0 THEN 0 ELSE n - 1
           Empty(t) == \A q \in 0 .. Rows : t.cells[q] = blankRow
           e == eraseUp(d, n)
           u == eraseRight(cr(e))
<1>1. Wide /\ Rows \in Nat /\ v \in Terminal /\ v.row = 0 /\ v.col = 0 /\ Empty(v)
  <2>1. 0 \in Nat /\ Rows \in Nat /\ \A q \in 0 .. Rows : q >= 0
    BY DEF Known
  <2> QED BY <2>1, CleanTyped
<1>2. rpos \in Nat \ {0}
  <2> DEFINE x == pcolwid + colpos
  <2>1. x \in Nat /\ cols \in Nat \ {0}
    BY DEF Known
  <2> HIDE DEF x
  <2>2. (x + cols) \div cols = x \div cols + 1 /\ x \div cols \in Nat
    BY <2>1, OneRowMore, Remainder
  <2>3. rpos = (x + cols) \div cols
    BY DEF x
  <2> QED BY <2>2, <2>3
<1> HIDE DEF rpos
<1>3. d \in Terminal /\ d.row \in 0 .. N /\ Empty(d)
  <2>1. n - rpos \in Int
    BY <1>2
  <2>2. \A i \in Int : down(v, i) \in Terminal
    BY <1>1, MovesTyped
  <2>3. d.row = v.row + larger(n - rpos, 0) /\ d.cells = v.cells
    BY <1>1 DEF down, Terminal
  <2>4. d \in Terminal
    BY <2>1, <2>2
  <2> HIDE DEF d, v
  <2>5. d.row \in 0 .. N
    BY <1>1, <1>2, <2>3 DEF larger
  <2> QED BY <1>1, <2>3, <2>4, <2>5
<1> HIDE DEF d
<1>4. s \in Seq(Nat) /\ Len(s) = N /\ N \in Nat
  <2>1. N \in Nat /\ 1 .. n - 1 = 1 .. N
    OBVIOUS
  <2>2. s = [k \in 1 .. N |-> k]
    BY <2>1
  <2> HIDE DEF N, s
  <2>3. s \in Seq(Nat) /\ Len(s) = N
    BY <2>1, <2>2
  <2> QED BY <2>1, <2>3
<1>5. e = Erasing(d, s)
  BY DEF eraseUp, Erasing, erasing
<1> HIDE DEF s, N
<1>6. PICK f : Erases(f, d, s)
  BY <1>1, <1>3, <1>4, ErasingIs
<1>7. /\ f[0] = d /\ e = f[N]
      /\ \A k \in 1 .. N : f[k] = erasing(f[k - 1], s[k])
  BY <1>4, <1>5, <1>6 DEF Erases
<1> DEFINE S == {k \in 0 .. N : f[k] \in Terminal /\ f[k].row = larger(d.row - k, 0) /\ Empty(f[k])}
<1>8. 0 \in S
  <2>1. 0 \in 0 .. N /\ larger(d.row - 0, 0) = d.row
    BY <1>3, <1>4 DEF larger
  <2> HIDE DEF Empty
  <2> QED BY <1>3, <1>7, <2>1
<1>9. ASSUME NEW k \in 1 .. N, k - 1 \in S PROVE k \in S
  <2> DEFINE g == f[k - 1]
             h == erasing(g, s[k])
  <2>1. f[k] = h
    BY <1>7
  <2>2. g \in Terminal /\ g.row = larger(d.row - (k - 1), 0) /\ Empty(g)
    BY <1>9
  <2> HIDE DEF g
  <2>3. /\ h \in Terminal /\ h.row = larger(g.row - 1, 0)
        /\ \A q \in 0 .. Rows : h.cells[q] = IF q = g.row THEN blankRow ELSE g.cells[q]
    BY <1>1, <2>2, ErasingTyped
  <2> HIDE DEF h
  <2>4. h.row = larger(d.row - k, 0)
    BY <1>3, <1>4, <2>2, <2>3 DEF larger
  <2>5. Empty(h)
    BY <2>2, <2>3
  <2>6. k \in 0 .. N
    BY <1>4
  <2> HIDE DEF Empty
  <2> QED BY <2>1, <2>3, <2>4, <2>5, <2>6
<1>10. N \in S
  <2> HIDE DEF S
  <2>1. \A k \in 0 .. N : k \in S
    BY <1>4, <1>8, <1>9, UpTo
  <2>2. N \in 0 .. N
    BY <1>4
  <2> QED BY <2>1, <2>2
<1>11. e \in Terminal /\ e.row = 0 /\ Empty(e)
  <2>1. larger(d.row - N, 0) = 0
    BY <1>3, <1>4 DEF larger
  <2> HIDE DEF Empty, e
  <2> QED BY <1>7, <1>10, <2>1
<1> HIDE DEF e
<1>12. u \in Terminal /\ u.row = 0 /\ u.col = 0 /\ Empty(u)
  <2>1. /\ u \in Terminal /\ u.row = e.row /\ u.col = 0
        /\ \A q \in 0 .. Rows : u.cells[q] = IF q = e.row THEN blankRow ELSE e.cells[q]
    BY <1>1, <1>11, RowCleared
  <2> HIDE DEF u
  <2> QED BY <1>11, <2>1
<1> HIDE DEF u, v
<1>13. u = v
  <2> DEFINE x == u.cells
             y == v.cells
  <2>1. x \in Cells /\ y \in Cells
    BY <1>1, <1>12 DEF Terminal
  <2>2. x = [q \in 0 .. Rows |-> x[q]] /\ y = [q \in 0 .. Rows |-> y[q]]
    BY <2>1 DEF Cells
  <2>3. \A q \in 0 .. Rows : x[q] = y[q]
    BY <1>1, <1>12
  <2> HIDE DEF x, y
  <2>4. x = y
    BY <2>2, <2>3
  <2>5. u = [cells |-> u.cells, row |-> u.row, col |-> u.col]
    BY <1>12 DEF Terminal
  <2>6. v = [cells |-> v.cells, row |-> v.row, col |-> v.col]
    BY <1>1 DEF Terminal
  <2> QED BY <1>1, <1>12, <2>4, <2>5, <2>6 DEF x, y
<1>14. Erased(v, colpos, n) = u
  BY DEF Erased, u, e, d, rpos
<1> QED BY <1>13, <1>14 DEF v

\* More rows have been used than were.
LEMMA MoreRows ==
  ASSUME NEW t \in Terminal, NEW a \in Nat, Rows \in Nat, NEW n \in Nat, NEW m \in Nat, m >= n
  PROVE  /\ Canvas(t, a, n) => Canvas(t, a, m)
         /\ \A colpos : Placed(t, a, colpos, n) => Placed(t, a, colpos, m)
<1>1. larger(n, 1) <= larger(m, 1) /\ larger(n, 1) \in Nat /\ larger(m, 1) \in Nat
  BY DEF larger
<1>2. \A q \in 0 .. Rows : q >= a + larger(m, 1) => q >= a + larger(n, 1)
  BY <1>1
<1>3. Canvas(t, a, n) => Canvas(t, a, m)
  BY <1>2 DEF Canvas
<1>4. t.row \in Nat
  BY DEF Terminal
<1>5. t.row < a + n => t.row < a + m
  BY <1>4
<1> QED BY <1>3, <1>5 DEF Placed

\* A screen of the multi line mode: it shows line s, with the cursor at its
\* p-th character, and what is remembered is right.
Laid(a, s, p, t, colpos, n) ==
  /\ t.cells = Written(a, s).cells
  /\ <<t.row, t.col>> = Place(a, s, p)
  /\ t.row \in a .. a + Len(prompt) + Len(s) + 1
  /\ Placed(t, a, colpos, n) /\ Canvas(t, a, n)
  /\ p = Len(s) => \A q \in 0 .. Rows : q > t.row => t.cells[q] = blankRow

\* A screen of the single line mode: nothing but one row is used.
Part(s, from, to)     == SubSeq(s, from + 1, to)
PartWritten(a, s, from, to) == write(Clean(a), prompt \o Part(s, from, to))
Columns(s, from, p)   == pcolwid + unicodeColumnPos(Part(s, from, p))

OnlyRow(a, t) == t.row = a /\ \A q \in 0 .. Rows : q > a => t.cells[q] = blankRow

\* A part of the line before the cursor is left out only if the row cannot
\* hold all of it.
Needed(s, p, from) == from = 0 \/ pcolwid + unicodeColumnPos(SubSeq(s, 1, p)) >= width

\* The row shows this part of the line.
ShowsPart(a, s, p, t, from, to) ==
  /\ PartWritten(a, s, from, to).row = a
  /\ Columns(s, from, p) < width /\ t.col <= Columns(s, from, p) + 1
  /\ Needed(s, p, from)
  /\ pcolwid > 0 =>
       /\ t.col = Columns(s, from, p)
       /\ \A c \in 0 .. width - 2 :
            at(t.cells, a, c) = at(PartWritten(a, s, from, to).cells, a, c)

InRow(a, s, p, t) ==
  \E from \in 0 .. p : \E to \in p .. Len(s) : ShowsPart(a, s, p, t, from, to)

\* The rows above the prompt are as they were.
Kept(a, t) == \A q \in 0 .. Rows : q < a => t.cells[q] = [c \in 0 .. width - 1 |-> "old"]

\* Nothing of this changes with the step, as the width and the prompt stay.
Stays == width' = width /\ prompt' = prompt /\ cols' = cols

LEMMA SameScreens ==
  ASSUME Known, Stays
  PROVE  /\ Terminal' = Terminal /\ Cells' = Cells /\ blankRow' = blankRow /\ Known'
         /\ pcolwid' = pcolwid
         /\ \A a : Clean(a)' = Clean(a)
         /\ \A a \in 0 .. Rows : \A s \in Seq(Char) : Written(a, s)' = Written(a, s)
<1>1. /\ Terminal' = Terminal /\ Cells' = Cells /\ blankRow' = blankRow /\ pcolwid' = pcolwid
  BY DEF Stays, Terminal, Cells, blankRow, pcolwid
<1>2. \A a : Clean(a)' = Clean(a)
  BY <1>1 DEF Clean, Stays
<1>3. Known'
  BY <1>1 DEF Known, Stays
<1>4. ASSUME NEW a \in 0 .. Rows, NEW s \in Seq(Char) PROVE Written(a, s)' = Written(a, s)
  <2> DEFINE ps == prompt \o s
             v == Clean(a)
  <2>1. ps \in Seq(Char) /\ v \in Terminal /\ Wide
    <3>1. a \in Nat /\ prompt \in Seq(Char)
      BY DEF Known
    <3> QED BY <3>1, Joined, CleanTyped
  <2>2. \A t \in Terminal : \A r \in Seq(Char) : write(t, r)' = write(t, r)
    BY <2>1, SameWriting DEF Stays
  <2>3. PICK x \in Seq(Char) : x = ps
    BY <2>1
  <2>4. PICK u \in Terminal : u = v
    BY <2>1
  <2>5. ps' = x /\ v' = u
    BY <1>2, <2>3, <2>4 DEF Stays
  <2>6. write(u, x)' = write(u, x)
    BY <2>2
  <2>7. Written(a, s)' = write(u, x)'
    BY <2>5 DEF Written
  <2>8. Written(a, s) = write(u, x)
    BY <2>3, <2>4 DEF Written
  <2> QED BY <2>6, <2>7, <2>8
<1> QED BY <1>1, <1>2, <1>3, <1>4

LEMMA SamePlaces ==
  ASSUME Known, Stays
  PROVE  \A a \in 0 .. Rows : \A s \in Seq(Char) : \A p \in 0 .. Len(s) :
           Place(a, s, p)' = Place(a, s, p)
<1> SUFFICES ASSUME NEW a \in 0 .. Rows, NEW s \in Seq(Char), NEW p \in 0 .. Len(s)
             PROVE  Place(a, s, p)' = Place(a, s, p)
  OBVIOUS
<1> DEFINE r == SubSeq(s, 1, p)
<1>1. r \in Seq(Char)
  BY Prefix
<1> HIDE DEF r
<1>2. Written(a, r)' = Written(a, r)
  BY <1>1, SameScreens
<1>3. \A t : placeOf(t, s, p)' = placeOf(t, s, p)
  BY DEF placeOf, Stays
<1>4. PICK t : t = Written(a, r)
  OBVIOUS
<1>5. Place(a, s, p) = placeOf(t, s, p)
  BY <1>4 DEF Place, r
<1>6. Place(a, s, p)' = placeOf(t, s, p)'
  BY <1>2, <1>4 DEF Place, r
<1> QED BY <1>3, <1>5, <1>6

LEMMA SameLaid ==
  ASSUME Known, Stays, NEW a \in 0 .. Rows, NEW s \in Seq(Char), NEW p \in 0 .. Len(s),
         NEW t, NEW colpos, NEW n, Laid(a, s, p, t, colpos, n)
  PROVE  Laid(a, s, p, t, colpos, n)'
<1>1. /\ Written(a, s)' = Written(a, s) /\ Place(a, s, p)' = Place(a, s, p)
      /\ blankRow' = blankRow /\ pcolwid' = pcolwid /\ width' = width /\ prompt' = prompt
  BY SameScreens, SamePlaces DEF Stays
<1>2. Placed(t, a, colpos, n) => Placed(t, a, colpos, n)'
  BY <1>1 DEF Placed
<1>3. Canvas(t, a, n) => Canvas(t, a, n)'
  BY <1>1 DEF Canvas
<1> QED BY <1>1, <1>2, <1>3 DEF Laid

LEMMA SameRow ==
  ASSUME Known, Stays, NEW a \in 0 .. Rows, NEW t
  PROVE  /\ OnlyRow(a, t) => OnlyRow(a, t)'
         /\ Kept(a, t) => Kept(a, t)'
         /\ \A s : \A p, from : Needed(s, p, from) => Needed(s, p, from)'
         /\ \A s \in Seq(Char) : \A p : InRow(a, s, p, t) => InRow(a, s, p, t)'
<1>1. blankRow' = blankRow /\ pcolwid' = pcolwid /\ width' = width
  BY SameScreens DEF Stays
<1>2. OnlyRow(a, t) => OnlyRow(a, t)'
  BY <1>1 DEF OnlyRow
<1>3. Kept(a, t) => Kept(a, t)'
  BY <1>1 DEF Kept
<1>4. ASSUME NEW s, NEW p, NEW from, Needed(s, p, from) PROVE Needed(s, p, from)'
  BY <1>1, <1>4 DEF Needed
<1>5. ASSUME NEW s \in Seq(Char), NEW p, InRow(a, s, p, t) PROVE InRow(a, s, p, t)'
  <2>1. PICK from \in 0 .. p, to \in p .. Len(s) : ShowsPart(a, s, p, t, from, to)
    BY <1>5 DEF InRow
  <2>2. Part(s, from, to) \in Seq(Char)
    BY DEF Part
  <2>3. PartWritten(a, s, from, to)' = PartWritten(a, s, from, to)
    <3>1. PartWritten(a, s, from, to) = Written(a, Part(s, from, to))
      BY DEF PartWritten, Written
    <3>2. PartWritten(a, s, from, to)' = Written(a, Part(s, from, to))'
      BY DEF PartWritten, Written
    <3>3. PICK x \in Seq(Char) : x = Part(s, from, to)
      BY <2>2
    <3>4. Written(a, x)' = Written(a, x)
      BY SameScreens
    <3>5. Part(s, from, to)' = x
      BY <3>3 DEF Part
    <3> QED BY <3>1, <3>2, <3>3, <3>4, <3>5
  <2>4. Columns(s, from, p)' = Columns(s, from, p)
    BY <1>1 DEF Columns, Part
  <2>5. Needed(s, p, from) => Needed(s, p, from)'
    BY <1>4
  <2>6. ShowsPart(a, s, p, t, from, to)'
    BY <1>1, <2>1, <2>3, <2>4, <2>5 DEF ShowsPart, at
  <2> QED BY <2>6 DEF InRow
<1> QED BY <1>2, <1>3, <1>4, <1>5

(***************************************************************************)
(* Single line mode: parts of a line, and the graphemes at their ends.     *)
(***************************************************************************)

LEMMA PartTyped ==
  ASSUME NEW A, NEW s \in Seq(A), NEW from \in 0 .. Len(s), NEW to \in from .. Len(s)
  PROVE  /\ Part(s, from, to) \in Seq(A) /\ Len(Part(s, from, to)) = to - from
         /\ \A i \in 1 .. to - from : Part(s, from, to)[i] = s[from + i]
         /\ from = to => Part(s, from, to) = <<>>
<1> DEFINE q == Part(s, from, to)
<1>1. q \in Seq(A) /\ Len(q) = to - from /\ \A i \in 1 .. to - from : q[i] = s[from + i]
  BY DEF Part
<1> HIDE DEF q
<1>2. from = to => q = <<>>
  BY <1>1
<1> QED BY <1>1, <1>2 DEF q

\* A part is two parts.
LEMMA PartSplit ==
  ASSUME NEW A, NEW s \in Seq(A), NEW from \in 0 .. Len(s), NEW to \in from .. Len(s),
         NEW p \in from .. to
  PROVE  Part(s, from, to) = Part(s, from, p) \o Part(s, p, to)
<1> DEFINE x == Part(s, from, p)
           y == Part(s, p, to)
           z == Part(s, from, to)
<1>0. Len(s) \in Nat /\ p \in 0 .. Len(s) /\ p \in from .. Len(s) /\ to \in p .. Len(s)
  OBVIOUS
<1>1. /\ x \in Seq(A) /\ Len(x) = p - from /\ \A i \in 1 .. p - from : x[i] = s[from + i]
      /\ y \in Seq(A) /\ Len(y) = to - p /\ \A i \in 1 .. to - p : y[i] = s[p + i]
      /\ z \in Seq(A) /\ Len(z) = to - from /\ \A i \in 1 .. to - from : z[i] = s[from + i]
  BY <1>0, PartTyped
<1> HIDE DEF x, y, z
<1> DEFINE r == x \o y
<1>2. r \in Seq(A) /\ Len(r) = Len(z)
  BY <1>0, <1>1
<1>4. ASSUME NEW i \in 1 .. Len(z) PROVE z[i] = r[i]
  <2>1. CASE i <= p - from
    <3>1. i \in 1 .. p - from
      BY <1>0, <1>1, <2>1
    <3>2. r[i] = x[i]
      BY <1>1, <3>1
    <3> QED BY <1>1, <3>1, <3>2
  <2>2. CASE i > p - from
    <3> DEFINE j == i - (p - from)
    <3>1. j \in 1 .. to - p /\ p + j = from + i /\ j = i - Len(x)
      BY <1>0, <1>1, <2>2
    <3>2. r[i] = y[i - Len(x)]
      BY <1>0, <1>1, <2>2
    <3>3. y[j] = s[p + j]
      BY <1>1, <3>1
    <3> QED BY <1>1, <3>1, <3>2, <3>3
  <2> HIDE DEF r
  <2> QED BY <1>0, <1>1, <2>1, <2>2
<1> HIDE DEF r
<1>5. z = r
  BY <1>1, <1>2, <1>4, SameElements
<1> QED BY <1>5 DEF r, x, y, z

\* Longer parts take more columns.
LEMMA PartColumns ==
  ASSUME pcolwid \in Nat, NEW s \in Seq(Char), NEW from \in 0 .. Len(s), NEW to \in from .. Len(s),
         NEW p \in from .. to
  PROVE  /\ Columns(s, from, to) \in Nat /\ Columns(s, from, p) \in Nat
         /\ Columns(s, from, p) <= Columns(s, from, to)
         /\ Columns(s, p, to) \in Nat /\ Columns(s, p, to) <= Columns(s, from, to)
         /\ Columns(s, from, from) = pcolwid
<1>1. Len(s) \in Nat /\ p \in 0 .. Len(s) /\ p \in from .. Len(s) /\ to \in p .. Len(s) /\ from \in from .. Len(s)
  OBVIOUS
<1> DEFINE x == Part(s, from, p)
           y == Part(s, p, to)
<1>2. /\ x \in Seq(Char) /\ y \in Seq(Char) /\ Part(s, from, to) = x \o y /\ Part(s, from, from) = <<>>
  BY <1>1, PartTyped, PartSplit
<1> HIDE DEF x, y
<1>3. /\ unicodeColumnPos(x \o y) = unicodeColumnPos(x) + unicodeColumnPos(y)
      /\ unicodeColumnPos(x) \in Nat /\ unicodeColumnPos(y) \in Nat
  BY <1>2, SumJoined, SumTyped
<1> QED BY <1>2, <1>3, SumOfNothing DEF Columns, x, y

LEMMA WholePart ==
  ASSUME NEW A, NEW s \in Seq(A)
  PROVE  Part(s, 0, Len(s)) = s /\ \A p \in 0 .. Len(s) : Part(s, 0, p) = SubSeq(s, 1, p)
BY DEF Part

\* The grapheme at a place ends at the next boundary, not behind one.
LEMMA GraphemeLen ==
  ASSUME NEW A, NEW s \in Seq(A), NEW w \in 0 .. Len(s), NEW p \in w .. Len(s), w # p, boundary(s, p)
  PROVE  graphemeLen(s, w) \in 1 .. p - w
<1> DEFINE Ends(n) == /\ n = 0 <=> w = Len(s)
                      /\ boundary(s, w + n) /\ \A k \in 1 .. n - 1 : ~boundary(s, w + k)
           T == {n \in 1 .. Len(s) - w : boundary(s, w + n)}
<1>1. Len(s) \in Nat /\ w \in Nat /\ p \in Nat /\ w < p /\ p <= Len(s)
  OBVIOUS
<1>2. T \in SUBSET Nat /\ p - w \in T
  <2>1. p - w \in 1 .. Len(s) - w /\ w + (p - w) = p
    BY <1>1
  <2> QED BY <2>1
<1> HIDE DEF T
<1>3. PICK n \in T : \A k \in T : n <= k
  BY <1>2, LeastElement
<1>4. n \in 1 .. Len(s) - w /\ boundary(s, w + n) /\ n <= p - w
  BY <1>2, <1>3 DEF T
<1>5. ASSUME NEW k \in 1 .. n - 1 PROVE ~boundary(s, w + k)
  <2>1. k \in 1 .. Len(s) - w /\ ~ (n <= k)
    BY <1>1, <1>4
  <2> QED BY <1>3, <2>1 DEF T
<1>6. Ends(n) /\ n \in 0 .. Len(s) - w
  BY <1>1, <1>4, <1>5
<1> DEFINE m == graphemeLen(s, w)
<1>7. m \in 0 .. Len(s) - w /\ Ends(m)
  <2>1. m = CHOOSE i \in 0 .. Len(s) - w : Ends(i)
    BY DEF graphemeLen
  <2> HIDE DEF Ends, m
  <2> QED BY <1>6, <2>1
<1> HIDE DEF m
<1>8. m # 0
  BY <1>1, <1>7
<1>9. ~ (m > p - w)
  <2>1. SUFFICES ASSUME m > p - w PROVE FALSE
    OBVIOUS
  <2>2. p - w \in 1 .. m - 1 /\ w + (p - w) = p
    BY <1>1, <1>7, <2>1
  <2>3. ~boundary(s, w + (p - w))
    BY <1>7, <2>2
  <2> QED BY <2>2, <2>3
<1>10. m \in 1 .. p - w
  BY <1>1, <1>7, <1>8, <1>9
<1> QED BY <1>10 DEF m

\* The grapheme before a place begins at the boundary before.
LEMMA PrevGraphemeLen ==
  ASSUME NEW A, NEW s \in Seq(A), NEW w \in 0 .. Len(s), NEW p \in 0 .. w, w # p, boundary(s, p)
  PROVE  prevGraphemeLen(s, w) \in 1 .. w - p
<1> DEFINE Ends(n) == /\ n = 0 <=> w = 0
                      /\ boundary(s, w - n) /\ \A k \in 1 .. n - 1 : ~boundary(s, w - k)
           T == {n \in 1 .. w : boundary(s, w - n)}
<1>1. Len(s) \in Nat /\ w \in Nat /\ p \in Nat /\ w > p /\ w <= Len(s)
  OBVIOUS
<1>2. T \in SUBSET Nat /\ w - p \in T
  <2>1. w - p \in 1 .. w /\ w - (w - p) = p
    BY <1>1
  <2> QED BY <2>1
<1> HIDE DEF T
<1>3. PICK n \in T : \A k \in T : n <= k
  BY <1>2, LeastElement
<1>4. n \in 1 .. w /\ boundary(s, w - n) /\ n <= w - p
  BY <1>2, <1>3 DEF T
<1>5. ASSUME NEW k \in 1 .. n - 1 PROVE ~boundary(s, w - k)
  <2>1. k \in 1 .. w /\ ~ (n <= k)
    BY <1>1, <1>4
  <2> QED BY <1>3, <2>1 DEF T
<1>6. Ends(n) /\ n \in 0 .. w
  BY <1>1, <1>4, <1>5
<1> DEFINE m == prevGraphemeLen(s, w)
<1>7. m \in 0 .. w /\ Ends(m)
  <2>1. m = CHOOSE i \in 0 .. w : Ends(i)
    BY DEF prevGraphemeLen
  <2> HIDE DEF Ends, m
  <2> QED BY <1>6, <2>1
<1> HIDE DEF m
<1>8. m # 0
  BY <1>1, <1>7
<1>9. ~ (m > w - p)
  <2>1. SUFFICES ASSUME m > w - p PROVE FALSE
    OBVIOUS
  <2>2. w - p \in 1 .. m - 1 /\ w - (w - p) = p
    BY <1>1, <1>7, <2>1
  <2>3. ~boundary(s, w - (w - p))
    BY <1>7, <2>2
  <2> QED BY <2>2, <2>3
<1>10. m \in 1 .. w - p
  BY <1>1, <1>7, <1>8, <1>9
<1> QED BY <1>10 DEF m

(***************************************************************************)
(* Single line mode: drawing a part of the line, and writing one character.*)
(***************************************************************************)

LEMMA RowDrawn ==
  ASSUME Known, NEW a \in 0 .. Rows, NEW t \in Terminal, OnlyRow(a, t), Kept(a, t),
         NEW s \in Seq(Char), NEW p \in 0 .. Len(s), NEW from \in 0 .. p, NEW to \in p .. Len(s),
         Needed(s, p, from), Columns(s, from, p) < width, Columns(s, from, to) <= width
  PROVE  LET text == eraseRight(write(cr(t), prompt \o Part(s, from, to)))
             u == right(cr(text), larger(Columns(s, from, p), 1))
         IN u \in Terminal /\ OnlyRow(a, u) /\ Kept(a, u) /\ ShowsPart(a, s, p, u, from, to)
<1> DEFINE ps == prompt \o Part(s, from, to)
           v == Clean(a)
           b == cr(t)
           w == write(b, ps)
           e == eraseRight(w)
           n == Columns(s, from, p)
           end == Columns(s, from, to)
           u == right(cr(e), larger(n, 1))
           x == write(v, ps)
<1>1. /\ Len(s) \in Nat /\ a \in Nat /\ width \in Nat /\ width >= 2 /\ pcolwid \in Nat /\ Rows \in Nat
      /\ prompt \in Seq(Char) /\ from \in 0 .. Len(s) /\ p \in from .. to /\ to \in from .. Len(s)
  BY DEF Known
<1>2. v \in Terminal /\ Wide /\ v.row = a /\ v.col = 0
      /\ \A q \in 0 .. Rows : q >= a => v.cells[q] = blankRow
  BY <1>1, CleanTyped
<1>3. b \in Terminal /\ b.row = a /\ b.col = 0 /\ b.cells = t.cells
  <2>1. \A i \in Int : b \in Terminal
    BY <1>1, <1>2, MovesTyped
  <2>2. b.row = t.row /\ b.col = 0 /\ b.cells = t.cells
    BY DEF cr, Terminal
  <2> HIDE DEF b
  <2> QED BY <2>1, <2>2 DEF OnlyRow
<1>4. n \in Nat /\ end \in Nat
  BY <1>1, PartColumns
<1>5. ps \in Seq(Char) /\ unicodeColumnPos(ps) = end
  <2> DEFINE r == Part(s, from, to)
  <2>1. r \in Seq(Char)
    BY <1>1, PartTyped
  <2> HIDE DEF r
  <2>2. prompt \o r \in Seq(Char) /\ unicodeColumnPos(prompt \o r) = unicodeColumnPos(prompt) + unicodeColumnPos(r)
    BY <1>1, <2>1, Joined, SumJoined
  <2> QED BY <2>2 DEF r, Columns, pcolwid
<1>17. x = PartWritten(a, s, from, to)
  BY DEF PartWritten
<1> HIDE DEF ps, v, b
<1>6. b.col + unicodeColumnPos(ps) = end /\ v.col + unicodeColumnPos(ps) = end /\ end <= width
  BY <1>2, <1>3, <1>4, <1>5
<1>7. /\ w.row = a /\ w.col = end /\ x.row = a
      /\ \A l \in 0 .. width - 1 : l < end => at(w.cells, a, l) = at(x.cells, a, l)
  <2>1. \A l \in 0 .. width - 1 : l < b.col => at(b.cells, b.row, l) = at(v.cells, b.row, l)
    BY <1>1, <1>3
  <2>2. b.row \in 0 .. Rows /\ b.row = v.row /\ b.col = v.col /\ b.col + unicodeColumnPos(ps) <= width
    BY <1>2, <1>3, <1>6
  <2>3. /\ w.row = b.row /\ w.col = b.col + unicodeColumnPos(ps) /\ x.row = b.row
        /\ \A l \in 0 .. width - 1 :
             l < b.col + unicodeColumnPos(ps) => at(w.cells, b.row, l) = at(x.cells, b.row, l)
    BY <1>2, <1>3, <1>5, <2>1, <2>2, OneRow
  <2> HIDE DEF w, x
  <2> QED BY <1>3, <1>6, <2>3
<1>8. \A l \in 0 .. width - 1 : l >= end => at(x.cells, a, l) = at(v.cells, a, l)
  <2>1. \A l \in 0 .. width - 1 : l < v.col => at(v.cells, v.row, l) = at(v.cells, v.row, l)
    OBVIOUS
  <2>2. v.row \in 0 .. Rows /\ v.col + unicodeColumnPos(ps) <= width
    BY <1>2, <1>6
  <2>3. \A l \in 0 .. width - 1 :
          l >= v.col + unicodeColumnPos(ps) => at(x.cells, v.row, l) = at(v.cells, v.row, l)
    BY <1>2, <1>5, <2>1, <2>2, OneRow
  <2> HIDE DEF x
  <2> QED BY <1>2, <1>6, <2>3
<1>9. w \in Terminal /\ \A q \in 0 .. Rows : q # a => w.cells[q] = t.cells[q]
  <2>1. w \in Terminal
    BY <1>2, <1>3, <1>5, WriteTyped
  <2>2. \A q \in 0 .. Rows : q < b.row \/ q > w.row => w.cells[q] = b.cells[q]
    BY <1>2, <1>3, <1>5, WriteGoesDown
  <2> HIDE DEF w
  <2>3. \A q \in 0 .. Rows : q # a => q < a \/ q > a
    BY <1>1
  <2> QED BY <1>3, <1>7, <2>1, <2>2, <2>3
<1> HIDE DEF w, x
<1>10. /\ e \in Terminal /\ e.row = a
       /\ \A q \in 0 .. Rows : q # a => e.cells[q] = t.cells[q]
       /\ \A l \in 0 .. width - 1 :
            at(e.cells, a, l) = IF l >= smaller(end, width - 1) THEN "blank" ELSE at(w.cells, a, l)
  <2>1. /\ e \in Terminal /\ e.row = w.row
        /\ \A q \in 0 .. Rows : q # w.row => e.cells[q] = w.cells[q]
        /\ \A q \in 0 .. Rows : \A l \in 0 .. width - 1 :
             q = w.row => at(e.cells, q, l) =
               IF l >= smaller(w.col, width - 1) THEN "blank" ELSE at(w.cells, q, l)
    BY <1>2, <1>9, RowErased
  <2> HIDE DEF e
  <2> QED BY <1>7, <1>9, <2>1
<1> HIDE DEF e
<1>11. ASSUME NEW l \in 0 .. width - 2 PROVE at(e.cells, a, l) = at(x.cells, a, l)
  <2>1. l \in 0 .. width - 1 /\ l < width - 1
    BY <1>1
  <2>2. CASE l < end
    <3>1. ~ (l >= smaller(end, width - 1))
      BY <1>1, <1>4, <2>1, <2>2 DEF smaller
    <3> QED BY <1>7, <1>10, <2>1, <2>2, <3>1
  <2>3. CASE l >= end
    <3>1. l >= smaller(end, width - 1)
      BY <1>1, <1>4, <2>1, <2>3 DEF smaller
    <3>2. at(v.cells, a, l) = "blank"
      <4>1. a \in 0 .. Rows /\ a >= a
        BY <1>1
      <4>2. v.cells[a] = blankRow
        BY <1>2, <4>1
      <4> QED BY <2>1, <4>2 DEF at, blankRow
    <3>3. at(e.cells, a, l) = "blank"
      BY <1>10, <2>1, <3>1
    <3>4. at(x.cells, a, l) = at(v.cells, a, l)
      BY <1>8, <2>1, <2>3
    <3> QED BY <3>2, <3>3, <3>4
  <2>4. l < end \/ l >= end
    BY <1>4
  <2> QED BY <2>2, <2>3, <2>4
<1>12. /\ u \in Terminal /\ u.row = a /\ u.cells = e.cells /\ u.col = smaller(larger(n, 1), width - 1)
  <2> DEFINE f == cr(e)
             m == larger(n, 1)
  <2>1. m \in Nat
    BY <1>4 DEF larger
  <2>2. f \in Terminal /\ f.row = a /\ f.cells = e.cells /\ f.col = 0
    <3>1. \A i \in Int : f \in Terminal
      BY <1>1, <1>2, <1>10, MovesTyped
    <3>2. f.row = e.row /\ f.col = 0 /\ f.cells = e.cells
      BY <1>10 DEF cr, Terminal
    <3> HIDE DEF f
    <3> QED BY <1>10, <3>1, <3>2
  <2>3. u = right(f, m)
    OBVIOUS
  <2> HIDE DEF f, u, m
  <2>4. right(f, m) \in Terminal
    <3>1. m \in Int
      BY <2>1
    <3> QED BY <1>1, <1>2, <2>1, <2>2, <3>1, MovesTyped
  <2>5. right(f, m).row = f.row /\ right(f, m).cells = f.cells
        /\ right(f, m).col = smaller(f.col + m, width - 1)
    BY <2>2 DEF right, Terminal
  <2>6. f.col + m = m
    BY <2>1, <2>2
  <2> QED BY <2>1, <2>2, <2>3, <2>4, <2>5, <2>6 DEF m
<1> HIDE DEF u
<1>13. OnlyRow(a, u)
  <2>1. \A q \in 0 .. Rows : q > a => q # a
    BY <1>1
  <2> QED BY <1>10, <1>12, <2>1 DEF OnlyRow
<1>14. Kept(a, u)
  <2>1. \A q \in 0 .. Rows : q < a => q # a
    BY <1>1
  <2> QED BY <1>10, <1>12, <2>1 DEF Kept
<1>15. u.col <= n + 1 /\ (pcolwid > 0 => u.col = n)
  <2>1. n < width /\ n >= pcolwid
    <3>1. Columns(s, from, from) = pcolwid /\ from \in from .. p /\ p \in from .. Len(s)
      BY <1>1, PartColumns
    <3>2. Columns(s, from, from) <= n
      BY <1>1, <3>1, PartColumns
    <3> QED BY <3>1, <3>2
  <2> HIDE DEF n
  <2> QED BY <1>1, <1>4, <1>12, <2>1 DEF smaller, larger
<1>16. ShowsPart(a, s, p, u, from, to)
  BY <1>7, <1>11, <1>12, <1>15, <1>17 DEF ShowsPart
<1> QED BY <1>12, <1>13, <1>14, <1>16 DEF u, e, w, b, ps

LEMMA Inserted ==
  ASSUME Known, NEW a \in 0 .. Rows, NEW t \in Terminal, OnlyRow(a, t), Kept(a, t),
         NEW s \in Seq(Char), InRow(a, s, Len(s), t), NEW c \in Char,
         pcolwid + unicodeColumnPos(Append(s, c)) < width
  PROVE  LET u == put(t, c)
         IN u \in Terminal /\ OnlyRow(a, u) /\ Kept(a, u) /\ InRow(a, Append(s, c), Len(s) + 1, u)
<1> DEFINE N == Len(s)
           k == colwidth(c)
           sc == Append(s, c)
           ps == prompt \o s
           v == Clean(a)
           x == write(v, ps)
           y == put(x, c)
           u == put(t, c)
           m == pcolwid + unicodeColumnPos(s)
<1>1. /\ N \in Nat /\ a \in Nat /\ width \in Nat /\ width >= 2 /\ pcolwid \in Nat /\ Rows \in Nat
      /\ prompt \in Seq(Char) /\ v \in Terminal /\ Wide /\ v.row = a /\ v.col = 0
  <2>1. a \in Nat /\ N \in Nat
    OBVIOUS
  <2> QED BY <2>1, CleanTyped DEF Known
<1>2. sc \in Seq(Char) /\ Len(sc) = N + 1
  BY Longer
<1>3. k \in 0 .. 2
  BY ColumnsOf
<1>4. /\ unicodeColumnPos(s) \in Nat /\ m \in Nat
      /\ pcolwid + unicodeColumnPos(sc) = m + k /\ m + k < width
  <2>1. unicodeColumnPos(sc) = unicodeColumnPos(s) + k
    BY SumOfMore
  <2>2. unicodeColumnPos(s) \in Nat
    BY SumTyped
  <2> HIDE DEF k, sc
  <2>3. pcolwid + unicodeColumnPos(sc) < width
    BY DEF sc
  <2> QED BY <1>1, <1>3, <2>1, <2>2, <2>3
<1>5. PICK from \in 0 .. N, to \in N .. N : ShowsPart(a, s, N, t, from, to)
  BY DEF InRow
<1>6. from = 0 /\ to = N
  <2>1. to = N
    BY <1>1
  <2>2. SubSeq(s, 1, N) = s
    BY WholePrefix
  <2>3. from = 0 \/ m >= width
    BY <1>5, <2>2 DEF ShowsPart, Needed
  <2> HIDE DEF m, k
  <2> QED BY <1>1, <1>3, <1>4, <2>1, <2>3
<1>7. Part(s, 0, N) = s /\ Part(sc, 0, N + 1) = sc
  BY <1>2, WholePart
<1>8. /\ x.row = a /\ t.col <= m + 1
      /\ pcolwid > 0 => /\ t.col = m
                        /\ \A l \in 0 .. width - 2 : at(t.cells, a, l) = at(x.cells, a, l)
  <2>1. Columns(s, from, N) = m /\ PartWritten(a, s, from, to) = x
    BY <1>6, <1>7 DEF Columns, PartWritten
  <2> QED BY <1>5, <2>1 DEF ShowsPart
<1>9. ps \in Seq(Char) /\ unicodeColumnPos(ps) = m /\ prompt \o sc = Append(ps, c)
  <2>1. ps \in Seq(Char) /\ unicodeColumnPos(ps) = unicodeColumnPos(prompt) + unicodeColumnPos(s)
        /\ prompt \o sc = Append(ps, c)
    BY <1>1, Joined, SumJoined, JoinedMore
  <2> QED BY <2>1 DEF pcolwid
<1> HIDE DEF v, ps
<1>10. x \in Terminal /\ write(v, prompt \o sc) = y
  BY <1>1, <1>9, WriteTyped, WriteMore
<1>11. x.col = m
  <2>1. \A l \in 0 .. width - 1 : l < v.col => at(v.cells, v.row, l) = at(v.cells, v.row, l)
    OBVIOUS
  <2>2. v.row \in 0 .. Rows /\ v.col + unicodeColumnPos(ps) <= width /\ v.col + unicodeColumnPos(ps) = m
    BY <1>1, <1>3, <1>4, <1>9
  <2>3. x.col = v.col + unicodeColumnPos(ps)
    BY <1>1, <1>9, <2>1, <2>2, OneRow
  <2> HIDE DEF x, m
  <2> QED BY <2>2, <2>3
<1>12. t.row = a /\ t.col \in 0 .. width /\ x.col \in 0 .. width
  BY <1>10 DEF OnlyRow, Terminal
<1> HIDE DEF x, m
<1>13. ~ (t.col + k > width) /\ ~ (x.col + k > width)
  BY <1>1, <1>3, <1>4, <1>8, <1>11, <1>12
<1>14. rowOf(t, c) = a /\ colOf(t, c) = t.col /\ rowOf(x, c) = a /\ colOf(x, c) = m
  BY <1>8, <1>11, <1>12, <1>13 DEF rowOf, colOf
<1>15. k = 0 => u = t
  BY <1>1, PutShows
<1>16. /\ k = 0 => y = x
       /\ k # 0 => y.row = rowOf(x, c)
       /\ \A l \in 0 .. width - 1 :
            k # 0 => at(y.cells, a, l) =
              IF l = m + k - 1 THEN (IF k = 2 THEN "W2" ELSE c)
              ELSE IF l = m THEN c ELSE at(x.cells, a, l)
  <2> DEFINE f == y
  <2>1. /\ k = 0 => f = x
        /\ k # 0 => f.row = rowOf(x, c)
        /\ \A q \in 0 .. Rows : \A l \in 0 .. width - 1 :
             k # 0 /\ q = rowOf(x, c) => at(f.cells, q, l) =
               IF l = colOf(x, c) + k - 1 THEN (IF k = 2 THEN "W2" ELSE c)
               ELSE IF l = colOf(x, c) THEN c ELSE at(x.cells, q, l)
    BY <1>1, <1>10, PutShows
  <2> HIDE DEF f, k
  <2>2. /\ k = 0 => f = x
        /\ k # 0 => f.row = rowOf(x, c)
        /\ \A l \in 0 .. width - 1 :
             k # 0 => at(f.cells, a, l) =
               IF l = m + k - 1 THEN (IF k = 2 THEN "W2" ELSE c)
               ELSE IF l = m THEN c ELSE at(x.cells, a, l)
    BY <1>14, <2>1
  <2> QED BY <2>2 DEF f
<1>17. /\ u \in Terminal
       /\ k # 0 => u.row = rowOf(t, c) /\ u.col = colOf(t, c) + k
       /\ \A q \in 0 .. Rows : k = 0 \/ q # rowOf(t, c) => u.cells[q] = t.cells[q]
       /\ \A l \in 0 .. width - 1 :
            k # 0 => at(u.cells, a, l) =
              IF l = t.col + k - 1 THEN (IF k = 2 THEN "W2" ELSE c)
              ELSE IF l = t.col THEN c ELSE at(t.cells, a, l)
  <2> DEFINE f == u
  <2>1. /\ f \in Terminal
        /\ k # 0 => f.row = rowOf(t, c) /\ f.col = colOf(t, c) + k
        /\ \A q \in 0 .. Rows : k = 0 \/ q # rowOf(t, c) => f.cells[q] = t.cells[q]
        /\ \A q \in 0 .. Rows : \A l \in 0 .. width - 1 :
             k # 0 /\ q = rowOf(t, c) => at(f.cells, q, l) =
               IF l = colOf(t, c) + k - 1 THEN (IF k = 2 THEN "W2" ELSE c)
               ELSE IF l = colOf(t, c) THEN c ELSE at(t.cells, q, l)
    BY <1>1, PutShows
  <2> HIDE DEF f, k
  <2>2. \A l \in 0 .. width - 1 :
             k # 0 => at(f.cells, a, l) =
               IF l = t.col + k - 1 THEN (IF k = 2 THEN "W2" ELSE c)
               ELSE IF l = t.col THEN c ELSE at(t.cells, a, l)
    BY <1>14, <2>1
  <2> QED BY <2>1, <2>2 DEF f
<1> HIDE DEF u, y
<1>18. u.row = a /\ u.col = t.col + k
  <2>1. CASE k = 0
    BY <1>12, <1>15, <2>1
  <2>2. CASE k # 0
    BY <1>14, <1>17, <2>2
  <2> HIDE DEF k
  <2> QED BY <2>1, <2>2
<1>19. \A q \in 0 .. Rows : q # a => u.cells[q] = t.cells[q]
  BY <1>14, <1>17
<1>20. OnlyRow(a, u)
  <2>1. \A q \in 0 .. Rows : q > a => q # a
    BY <1>1
  <2> QED BY <1>18, <1>19, <2>1 DEF OnlyRow
<1>21. Kept(a, u)
  <2>1. \A q \in 0 .. Rows : q < a => q # a
    BY <1>1
  <2> QED BY <1>19, <2>1 DEF Kept
<1>22. y.row = a
  <2> HIDE DEF k
  <2>1. k = 0 \/ k # 0
    OBVIOUS
  <2> QED BY <1>8, <1>14, <1>16, <2>1
<1>23. ASSUME pcolwid > 0, NEW l \in 0 .. width - 2 PROVE at(u.cells, a, l) = at(y.cells, a, l)
  <2>1. t.col = m /\ at(t.cells, a, l) = at(x.cells, a, l)
    BY <1>8, <1>23
  <2>2. l \in 0 .. width - 1
    BY <1>1
  <2> HIDE DEF k
  <2>3. CASE k = 0
    BY <1>15, <1>16, <2>1, <2>3
  <2>4. CASE k # 0
    BY <1>16, <1>17, <2>1, <2>2, <2>4
  <2> QED BY <2>3, <2>4
<1>24. ShowsPart(a, sc, N + 1, u, 0, N + 1)
  <2>1. PartWritten(a, sc, 0, N + 1) = y /\ Columns(sc, 0, N + 1) = m + k
    BY <1>4, <1>7, <1>10 DEF PartWritten, Columns, v
  <2>2. u.col <= m + k + 1 /\ (pcolwid > 0 => u.col = m + k)
    <3> HIDE DEF k
    <3> QED BY <1>3, <1>4, <1>8, <1>12, <1>18
  <2> HIDE DEF sc, k
  <2>3. Needed(sc, N + 1, 0)
    BY DEF Needed
  <2> QED BY <1>4, <1>22, <1>23, <2>1, <2>2, <2>3 DEF ShowsPart
<1>25. InRow(a, sc, N + 1, u)
  <2>1. 0 \in 0 .. N + 1 /\ N + 1 \in N + 1 .. Len(sc)
    BY <1>1, <1>2
  <2> QED BY <1>24, <2>1 DEF InRow
<1> QED BY <1>17, <1>20, <1>21, <1>25 DEF u

(***************************************************************************)
(* The inductive invariant.                                                *)
(***************************************************************************)

\* The terminals, prompts and lines for which the drawing is right.
Suitable == NoneFillsARow /\ LinesAreSeen /\ EnoughRows

\* The editor's variables and the terminal's.
Base ==
  /\ width \in Widths /\ cols = width /\ measured /\ pcolwid < width /\ prompt \in Prompts
  /\ buf \in Texts /\ pos \in 0 .. Len(buf) /\ boundary(buf, pos)
  /\ window[1] \in 0 .. Len(buf) /\ window[2] \in window[1] .. Len(buf)
  /\ pc # "scroll" => window = <<0, 0>>
  /\ oldcolpos \in Nat /\ maxrows \in Nat /\ anchor \in {0, 1}
  /\ terminal \in Terminal /\ row <= Rows /\ Kept(anchor, terminal)

\* Before the prompt: nothing is written, nothing remembered.
AtStart ==
  pc \in {"start", "prompt"} =>
    /\ terminal = Clean(anchor) /\ buf = <<>> /\ pos = 0 /\ oldcolpos = 0 /\ maxrows = 0

\* While the user edits, and while refreshSingleLine() looks for the part.
InMultiLine ==
  mlmode /\ pc = "edit" => Laid(anchor, buf, pos, terminal, oldcolpos, maxrows)

InSingleLine == ~mlmode /\ pc \in {"edit", "scroll"} => OnlyRow(anchor, terminal)

Scrolling ==
  pc = "scroll" => ~mlmode /\ pos \in window[1] .. window[2] /\ Needed(buf, pos, window[1])

Drawn == ~mlmode /\ pc = "edit" => InRow(anchor, buf, pos, terminal)

\* After Enter.
Finished ==
  pc = "done" => col = 0 /\ row > anchor /\ \A q \in 0 .. Rows : q >= row => cells[q] = blankRow

Inner == Base /\ AtStart /\ InMultiLine /\ InSingleLine /\ Scrolling /\ Drawn /\ Finished

IInv == (pc = "start" => cols = width /\ measured) /\ (Fits => Inner)

\* What the constants and the types give.
LEMMA BaseFacts ==
  ASSUME Suitable, Base
  PROVE  /\ Known /\ Roomy /\ Wide /\ 0 \in 0 .. Rows /\ anchor \in 0 .. Rows /\ Rows \in Nat
         /\ Len(prompt) \in Nat /\ row \in Nat /\ col \in 0 .. width
         /\ \A s \in Texts : /\ s \in Seq(Char \ {"esc"}) /\ s \in Seq(Char) /\ Seen(s)
                             /\ Len(s) \in Nat /\ Len(prompt) + Len(s) + 3 <= Rows
<1>1. width \in Nat /\ width > 2 /\ Rows \in Nat
  BY DisplayAssumption DEF Suitable, NoneFillsARow, Base
<1>2. prompt \in Seq(Char) /\ Len(prompt) \in Nat
  <2>1. prompt \in Seq(Char \ {"bad"})
    BY DisplayAssumption DEF Base
  <2>2. prompt \in Seq(Char)
    BY <2>1
  <2> QED BY <2>2
<1>3. pcolwid \in Nat
  BY <1>2, SumTyped DEF pcolwid
<1>4. pcolwid < width /\ cols = width
  BY DEF Base
<1>5. Known /\ Roomy /\ Wide
  <2>1. pcolwid \in 0 .. width - 1
    BY <1>1, <1>3, <1>4
  <2> QED BY <1>1, <1>2, <1>4, <2>1 DEF Known, Roomy, Wide
<1>6. ASSUME NEW s \in Texts
      PROVE  /\ s \in Seq(Char \ {"esc"}) /\ s \in Seq(Char) /\ Seen(s)
             /\ Len(s) \in Nat /\ Len(prompt) + Len(s) + 3 <= Rows
  <2>1. s \in Seq(Char \ {"esc"})
    BY DisplayAssumption
  <2>2. s \in Seq(Char) /\ Len(s) \in Nat
    BY <2>1
  <2>3. Len(prompt) + Len(s) + 3 <= Rows
    BY DEF Suitable, EnoughRows, Base
  <2>4. s # <<>> => unicodeColumnPos(prompt \o s) > 0
    BY DEF Suitable, LinesAreSeen, Base
  <2>5. unicodeColumnPos(prompt \o s) = pcolwid + unicodeColumnPos(s)
    BY <1>2, <2>2, SumJoined DEF pcolwid
  <2> QED BY <2>1, <2>2, <2>3, <2>4, <2>5 DEF Seen
<1>7. 0 \in 0 .. Rows /\ anchor \in 0 .. Rows
  <2>1. <<>> \in Texts
    BY DisplayAssumption
  <2>2. Len(<<>>) = 0
    OBVIOUS
  <2>3. Len(prompt) + 0 + 3 <= Rows
    BY <1>6, <2>1, <2>2
  <2>4. anchor \in {0, 1}
    BY DEF Base
  <2> QED BY <1>1, <1>2, <2>3, <2>4
<1>8. row \in Nat /\ col \in 0 .. width
  <2>1. terminal.row \in Nat /\ terminal.col \in 0 .. width
    BY DEF Base, Terminal
  <2> QED BY <2>1 DEF terminal
<1> QED BY <1>1, <1>2, <1>5, <1>6, <1>7, <1>8

\* The terminal becomes another one.
LEMMA Showing ==
  ASSUME NEW t \in Terminal, shows(t)
  PROVE  terminal' = t
<1>1. t = [cells |-> t.cells, row |-> t.row, col |-> t.col]
  BY DEF Terminal
<1> QED BY <1>1 DEF shows, terminal

\* A step of the session, with what it leads to.
Leads(a, s, p, t) ==
  /\ Stays /\ measured' = measured /\ mlmode' = mlmode
  /\ anchor' = a /\ buf' = s /\ pos' = p /\ terminal' = t
  /\ a \in {0, 1} /\ s \in Texts /\ p \in 0 .. Len(s) /\ boundary(s, p)
  /\ t \in Terminal /\ t.row <= Rows /\ Kept(a, t)
  /\ oldcolpos' \in Nat /\ maxrows' \in Nat

LEMMA BaseKept ==
  ASSUME Suitable, Base, NEW a, NEW s, NEW p, NEW t, Leads(a, s, p, t),
         window'[1] \in 0 .. Len(s), window'[2] \in window'[1] .. Len(s),
         pc' # "scroll" => window' = <<0, 0>>
  PROVE  Base'
<1>1. Known /\ a \in 0 .. Rows
  <2>1. Known /\ Rows \in Nat /\ Rows >= 3 /\ a \in {0, 1}
    <3>1. Known /\ Rows \in Nat /\ Len(prompt) \in Nat /\ Len(<<>>) = 0
          /\ Len(prompt) + Len(<<>>) + 3 <= Rows
      BY BaseFacts, DisplayAssumption
    <3> QED BY <3>1 DEF Leads
  <2> QED BY <2>1
<1>2. Terminal' = Terminal /\ pcolwid' = pcolwid
  BY <1>1, SameScreens DEF Leads
<1>3. Kept(a, t)'
  BY <1>1, SameRow DEF Leads
<1>4. Kept(anchor, terminal)'
  BY <1>3 DEF Leads, Kept
<1>5. row' = t.row
  BY DEF Leads, terminal
<1>6. boundary(buf, pos)'
  BY DEF Leads, boundary
<1>7. terminal' \in Terminal'
  BY <1>2 DEF Leads
<1> QED BY <1>2, <1>4, <1>5, <1>6, <1>7 DEF Leads, Stays, Base

\* The step ends in the multi line mode, with the line laid out.
LEMMA ToMultiLine ==
  ASSUME Suitable, Base, NEW a, NEW s, NEW p, NEW t, Leads(a, s, p, t),
         pc' = "edit", mlmode, window' = <<0, 0>>,
         NEW c, NEW n, oldcolpos' = c, maxrows' = n, Laid(a, s, p, t, c, n)
  PROVE  Inner'
<1>1. Known /\ a \in 0 .. Rows /\ s \in Seq(Char)
  <2>1. anchor \in 0 .. Rows /\ Known /\ Rows \in Nat /\ Rows >= 3
    <3>1. Known /\ anchor \in 0 .. Rows /\ Rows \in Nat /\ Len(prompt) \in Nat /\ Len(<<>>) = 0
          /\ Len(prompt) + Len(<<>>) + 3 <= Rows
      BY BaseFacts, DisplayAssumption
    <3> QED BY <3>1
  <2>2. a \in {0, 1} /\ s \in Texts
    BY DEF Leads
  <2>3. s \in Seq(Char)
    BY <2>2, BaseFacts
  <2> QED BY <2>1, <2>2, <2>3
<1>2. Laid(a, s, p, t, c, n)'
  <2>1. Stays /\ p \in 0 .. Len(s)
    BY DEF Leads
  <2> QED BY <1>1, <2>1, SameLaid
<1>3. InMultiLine'
  BY <1>2 DEF InMultiLine, Leads
<1>4. Base'
  <2>1. window'[1] \in 0 .. Len(s) /\ window'[2] \in window'[1] .. Len(s)
    BY <1>1
  <2> QED BY <2>1, BaseKept
<1>5. mlmode'
  BY DEF Leads
<1> QED BY <1>3, <1>4, <1>5 DEF Inner, AtStart, InSingleLine, Scrolling, Drawn, Finished

\* It ends in the single line mode, with a part of the line drawn.
LEMMA ToSingleLine ==
  ASSUME Suitable, Base, NEW a, NEW s, NEW p, NEW t, Leads(a, s, p, t),
         pc' = "edit", ~mlmode, window' = <<0, 0>>, OnlyRow(a, t), InRow(a, s, p, t)
  PROVE  Inner'
<1>1. Known /\ a \in 0 .. Rows /\ s \in Seq(Char)
  <2>1. Known /\ Rows \in Nat /\ Rows >= 3
    <3>1. Known /\ Rows \in Nat /\ Len(prompt) \in Nat /\ Len(<<>>) = 0
          /\ Len(prompt) + Len(<<>>) + 3 <= Rows
      BY BaseFacts, DisplayAssumption
    <3> QED BY <3>1
  <2>2. a \in {0, 1} /\ s \in Texts
    BY DEF Leads
  <2>3. s \in Seq(Char)
    BY <2>2, BaseFacts
  <2> QED BY <2>1, <2>2, <2>3
<1>2. OnlyRow(a, t)' /\ InRow(a, s, p, t)'
  BY <1>1, SameRow DEF Leads
<1>3. InSingleLine' /\ Drawn'
  BY <1>2 DEF InSingleLine, Drawn, Leads
<1>4. Base'
  <2>1. window'[1] \in 0 .. Len(s) /\ window'[2] \in window'[1] .. Len(s)
    BY <1>1
  <2> QED BY <2>1, BaseKept
<1>5. ~mlmode'
  BY DEF Leads
<1> QED BY <1>3, <1>4, <1>5 DEF Inner, AtStart, InMultiLine, Scrolling, Finished

\* It ends in the loops of the single line mode, with this part chosen.
LEMMA ToLoops ==
  ASSUME Suitable, Base, NEW a, NEW s, NEW p, NEW t, Leads(a, s, p, t),
         pc' = "scroll", ~mlmode, NEW from, NEW to, window' = <<from, to>>, OnlyRow(a, t),
         from \in 0 .. p, to \in p .. Len(s), Needed(s, p, from)
  PROVE  Inner'
<1>1. Known /\ a \in 0 .. Rows /\ s \in Seq(Char) /\ Len(s) \in Nat
  <2>1. Known /\ Rows \in Nat /\ Rows >= 3
    <3>1. Known /\ Rows \in Nat /\ Len(prompt) \in Nat /\ Len(<<>>) = 0
          /\ Len(prompt) + Len(<<>>) + 3 <= Rows
      BY BaseFacts, DisplayAssumption
    <3> QED BY <3>1
  <2>2. a \in {0, 1} /\ s \in Texts
    BY DEF Leads
  <2>3. s \in Seq(Char)
    BY <2>2, BaseFacts
  <2> QED BY <2>1, <2>2, <2>3
<1>2. OnlyRow(a, t)' /\ Needed(s, p, from)'
  BY <1>1, SameRow DEF Leads
<1>3. InSingleLine'
  BY <1>2 DEF InSingleLine, Leads
<1>4. window'[1] = from /\ window'[2] = to
  OBVIOUS
<1>5. p \in 0 .. Len(s) /\ p \in from .. to /\ from \in 0 .. Len(s) /\ to \in from .. Len(s)
  <2>1. p \in 0 .. Len(s)
    BY DEF Leads
  <2> QED BY <1>1, <2>1
<1>6. Base'
  BY <1>4, <1>5, BaseKept
<1>7. ~mlmode' /\ pos' = p /\ buf' = s
  BY DEF Leads
<1>8. Needed(buf, pos, window[1])'
  BY <1>2, <1>4, <1>7 DEF Needed
<1>9. Scrolling'
  BY <1>4, <1>5, <1>7, <1>8 DEF Scrolling
<1> QED BY <1>3, <1>6, <1>7, <1>9 DEF Inner, AtStart, InMultiLine, Drawn, Finished

\* It ends the session.
LEMMA ToDone ==
  ASSUME Suitable, Base, NEW a, NEW s, NEW p, NEW t, Leads(a, s, p, t),
         pc' = "done", window' = <<0, 0>>, t.col = 0, t.row > a,
         \A q \in 0 .. Rows : q >= t.row => t.cells[q] = blankRow
  PROVE  Inner'
<1>1. Known /\ s \in Seq(Char)
  <2>1. s \in Texts
    BY DEF Leads
  <2> QED BY <2>1, BaseFacts
<1>2. blankRow' = blankRow
  BY <1>1, SameScreens DEF Leads
<1>3. cells' = t.cells /\ row' = t.row /\ col' = t.col /\ anchor' = a
  BY DEF Leads, terminal
<1>4. Finished'
  BY <1>2, <1>3 DEF Finished
<1>5. Base'
  <2>1. window'[1] \in 0 .. Len(s) /\ window'[2] \in window'[1] .. Len(s)
    BY <1>1
  <2> QED BY <2>1, BaseKept
<1> QED BY <1>4, <1>5 DEF Inner, AtStart, InMultiLine, InSingleLine, Scrolling, Drawn

\* It stays in the measuring.
LEMMA ToHung ==
  ASSUME Suitable, Base, NEW a, NEW s, NEW p, NEW t, Leads(a, s, p, t),
         pc' = "hung", window' = <<0, 0>>
  PROVE  Inner'
<1>1. s \in Seq(Char)
  <2>1. s \in Texts
    BY DEF Leads
  <2> QED BY <2>1, BaseFacts
<1>2. Base'
  <2>1. window'[1] \in 0 .. Len(s) /\ window'[2] \in window'[1] .. Len(s)
    BY <1>1
  <2> QED BY <2>1, BaseKept
<1> QED BY <1>2 DEF Inner, AtStart, InMultiLine, InSingleLine, Scrolling, Drawn, Finished

(***************************************************************************)
(* Every step preserves it.                                                *)
(***************************************************************************)

\* The session goes on: what a step leads to.
LEMMA Goes ==
  ASSUME Suitable, Base, UNCHANGED session,
         NEW a \in {0, 1}, NEW s \in Texts, NEW p \in 0 .. Len(s), NEW t \in Terminal,
         anchor' = a, buf' = s, pos' = p, shows(t), boundary(s, p), t.row <= Rows, Kept(a, t),
         oldcolpos' \in Nat, maxrows' \in Nat
  PROVE  Leads(a, s, p, t)
<1>1. terminal' = t
  BY Showing
<1>2. Stays /\ measured' = measured /\ mlmode' = mlmode
  BY DEF session, Stays
<1> QED BY <1>1, <1>2 DEF Leads

\* The prompt is written behind what was on the screen.
LEMMA PromptStep ==
  ASSUME Suitable, Inner, writePrompt, Fits
  PROVE  Inner'
<1> DEFINE a == anchor
           v == Clean(a)
           t == write(v, prompt)
<1>1. pc = "prompt" /\ pc' = "edit" /\ shows(t) /\ window = <<0, 0>> /\ Base
      /\ buf = <<>> /\ pos = 0 /\ oldcolpos = 0 /\ maxrows = 0
      /\ UNCHANGED <<session, line, oldcolpos, maxrows, window, anchor>>
  <2>1. Base /\ pc = "prompt" /\ AtStart /\ measured
    BY DEF Inner, Fits, writePrompt
  <2>2. terminal = v /\ buf = <<>> /\ pos = 0 /\ oldcolpos = 0 /\ maxrows = 0
    BY <2>1 DEF AtStart
  <2>3. window = <<0, 0>>
    BY <2>1 DEF Base
  <2> QED BY <2>1, <2>2, <2>3 DEF writePrompt
<1>2. /\ Known /\ Roomy /\ Wide /\ a \in 0 .. Rows /\ a \in {0, 1} /\ Rows \in Nat
      /\ prompt \in Seq(Char) /\ <<>> \in Texts /\ Len(prompt) \in Nat /\ Len(prompt) + 3 <= Rows
      /\ pcolwid \in 0 .. width - 1 /\ width \in Nat /\ <<>> \in Seq(Char)
  <2>1. <<>> \in Texts
    BY DisplayAssumption
  <2>2. Known /\ Roomy /\ Wide /\ a \in 0 .. Rows /\ Rows \in Nat /\ Len(prompt) \in Nat
        /\ Len(prompt) + Len(<<>>) + 3 <= Rows
    BY <1>1, <2>1, BaseFacts
  <2>3. Len(prompt) + 3 <= Rows
    BY <2>2
  <2> QED BY <1>1, <2>1, <2>2, <2>3 DEF Known, Base
<1>3. /\ v \in Terminal /\ v.row = a /\ v.col = 0
      /\ \A q \in 0 .. Rows : q >= a => v.cells[q] = blankRow
      /\ \A q \in 0 .. Rows : q < a => v.cells[q] = [c \in 0 .. width - 1 |-> "old"]
  <2>1. a \in Nat
    BY <1>2
  <2> QED BY <1>2, <2>1, CleanTyped
<1>4. t \in Terminal /\ t.row = a /\ t.col = pcolwid
  BY <1>2, PromptWritten
<1>5. \A q \in 0 .. Rows : q < a \/ q > a => t.cells[q] = v.cells[q]
  <2> HIDE DEF v
  <2>1. \A q \in 0 .. Rows : q < v.row \/ q > t.row => t.cells[q] = v.cells[q]
    BY <1>2, <1>3, WriteGoesDown
  <2> HIDE DEF t
  <2> QED BY <1>3, <1>4, <2>1
<1>11. prompt \o <<>> = prompt /\ SubSeq(<<>>, 1, 0) = <<>> /\ Len(<<>>) = 0
  BY <1>2, Joined
<1>12. Written(a, <<>>) = t
  BY <1>11 DEF Written
<1>13. PartWritten(a, <<>>, 0, 0) = t /\ Part(<<>>, 0, 0) = <<>>
  <2>1. Part(<<>>, 0, 0) = <<>>
    BY DEF Part
  <2> QED BY <1>11, <2>1 DEF PartWritten
<1> HIDE DEF v, t
<1>6. Kept(a, t)
  BY <1>3, <1>5 DEF Kept
<1>7. \A q \in 0 .. Rows : q > a => t.cells[q] = blankRow
  <2>1. \A q \in 0 .. Rows : q > a => q >= a
    BY <1>2
  <2> QED BY <1>3, <1>5, <2>1
<1>8. Leads(a, <<>>, 0, t)
  <2>1. UNCHANGED session /\ anchor' = a /\ buf' = <<>> /\ pos' = 0 /\ oldcolpos' = 0 /\ maxrows' = 0
    BY <1>1 DEF line
  <2>2. 0 \in 0 .. Len(<<>>) /\ boundary(<<>>, 0) /\ t.row <= Rows /\ 0 \in Nat
    BY <1>2, <1>4, <1>11 DEF boundary
  <2> QED BY <1>1, <1>2, <1>4, <1>6, <2>1, <2>2, Goes
<1>9. CASE mlmode
  <2>1. Place(a, <<>>, 0) = <<t.row, t.col>>
    <3>1. Place(a, <<>>, 0) = placeOf(t, <<>>, 0)
      BY <1>11, <1>12 DEF Place
    <3>2. ~ (0 < Len(<<>>)) /\ ~ (t.col + 1 > width)
      BY <1>2, <1>4, <1>11
    <3> QED BY <3>1, <3>2 DEF placeOf
  <2>2. Placed(t, a, 0, 0)
    <3>1. pcolwid + 0 = pcolwid /\ pcolwid = 0 * width + pcolwid /\ 0 \in Nat /\ width \in Nat \ {0}
      BY <1>2
    <3> DEFINE x == pcolwid
    <3>2. x \in Nat /\ x \in 0 .. width - 1 /\ x = 0 * width + x
      BY <1>2, <3>1
    <3> HIDE DEF x
    <3>3. x \div width = 0
      BY <3>1, <3>2, Divided
    <3>4. t.row = a + 0
      BY <1>2, <1>4
    <3> QED BY <1>4, <3>1, <3>3, <3>4 DEF Placed, x
  <2>3. Canvas(t, a, 0)
    <3>1. \A q \in 0 .. Rows : q >= a + larger(0, 1) => q > a
      BY <1>2 DEF larger
    <3> QED BY <1>6, <1>7, <3>1 DEF Canvas, Kept
  <2>4. t.row \in a .. a + Len(prompt) + Len(<<>>) + 1
    BY <1>2, <1>4, <1>11
  <2>5. Laid(a, <<>>, 0, t, 0, 0)
    BY <1>4, <1>7, <1>12, <2>1, <2>2, <2>3, <2>4 DEF Laid
  <2>6. oldcolpos' = 0 /\ maxrows' = 0 /\ window' = <<0, 0>>
    BY <1>1
  <2> QED BY <1>1, <1>8, <1>9, <2>5, <2>6, ToMultiLine
<1>10. CASE ~mlmode
  <2>1. OnlyRow(a, t)
    BY <1>4, <1>7 DEF OnlyRow
  <2>2. Columns(<<>>, 0, 0) = pcolwid
    BY <1>2, <1>13, SumOfNothing DEF Columns
  <2>3. ShowsPart(a, <<>>, 0, t, 0, 0)
    <3>1. pcolwid < width /\ pcolwid <= pcolwid + 1
      BY <1>2
    <3> QED BY <1>4, <1>13, <2>2, <3>1 DEF ShowsPart, Needed
  <2>4. InRow(a, <<>>, 0, t)
    <3>1. 0 \in 0 .. 0 /\ 0 \in 0 .. Len(<<>>)
      BY <1>11
    <3> QED BY <2>3, <3>1 DEF InRow
  <2>5. window' = <<0, 0>>
    BY <1>1
  <2> QED BY <1>1, <1>8, <1>10, <2>1, <2>4, <2>5, ToSingleLine
<1> QED BY <1>9, <1>10

\* The line is laid out in the multi line mode, from a terminal that is erased
\* completely.
LEMMA LaidAgain ==
  ASSUME Suitable, Base, NEW a \in {0, 1}, NEW t, Erased(t, oldcolpos, maxrows) = Clean(a),
         NEW s \in Texts, NEW p \in 0 .. Len(s), boundary(s, p)
  PROVE  LET l == layOut(t, s, p)
         IN /\ l.terminal \in Terminal /\ Kept(a, l.terminal) /\ l.colpos \in Nat
            /\ l.terminal.row < Rows /\ l.terminal.row >= a
            /\ larger(maxrows, l.rows) \in Nat
            /\ Laid(a, s, p, l.terminal, l.colpos, larger(maxrows, l.rows))
<1> DEFINE l == layOut(t, s, p)
           u == l.terminal
           m == larger(maxrows, l.rows)
<1>1. /\ Known /\ Roomy /\ Rows \in Nat /\ Len(prompt) \in Nat
      /\ s \in Seq(Char \ {"esc"}) /\ Seen(s) /\ Len(s) \in Nat /\ Len(prompt) + Len(s) + 3 <= Rows
      /\ maxrows \in Nat /\ oldcolpos \in Nat
  BY BaseFacts DEF Base
<1>2. a \in 0 .. Rows /\ Editable(s, p)
  BY <1>1 DEF Editable
<1>3. LaidOut(l, a, s, p)
  BY <1>1, <1>2, LayOut
<1> HIDE DEF l
<1>4. /\ u \in Terminal /\ u.cells = Written(a, s).cells /\ <<u.row, u.col>> = Place(a, s, p)
      /\ u.row \in a .. a + Len(prompt) + Len(s) + 1
      /\ l.colpos \in Nat /\ l.rows \in 0 .. Len(prompt) + Len(s) + 2
      /\ Placed(u, a, l.colpos, l.rows) /\ Canvas(u, a, l.rows)
      /\ p = Len(s) => \A q \in 0 .. Rows : q > u.row => u.cells[q] = blankRow
  BY <1>3 DEF LaidOut
<1>5. l.rows \in Nat /\ m \in Nat /\ m >= l.rows
  BY <1>1, <1>4 DEF larger
<1> HIDE DEF m, u
<1>6. Placed(u, a, l.colpos, m) /\ Canvas(u, a, m)
  <2>1. a \in Nat
    OBVIOUS
  <2> QED BY <1>1, <1>4, <1>5, <2>1, MoreRows
<1>7. Kept(a, u)
  BY <1>4 DEF Canvas, Kept
<1>8. u.row < Rows /\ u.row >= a
  <2>1. a <= 1 /\ a \in Nat
    OBVIOUS
  <2> QED BY <1>1, <1>4, <2>1
<1>9. Laid(a, s, p, u, l.colpos, m)
  BY <1>4, <1>6 DEF Laid
<1> QED BY <1>4, <1>5, <1>7, <1>8, <1>9 DEF l, u, m

\* refreshLine() draws the line in either mode.
LEMMA RefreshStep ==
  ASSUME Suitable, Base, pc = "edit", NEW a \in {0, 1}, anchor' = a,
         NEW t \in Terminal, t.row <= Rows, Kept(a, t),
         mlmode => Erased(t, oldcolpos, maxrows) = Clean(a),
         ~mlmode => OnlyRow(a, t),
         NEW s \in Texts, NEW p \in 0 .. Len(s), boundary(s, p), refreshLine(t, s, p)
  PROVE  Inner'
<1>1. /\ buf' = s /\ pos' = p /\ UNCHANGED session /\ Wide /\ Rows \in Nat
      /\ window = <<0, 0>> /\ oldcolpos \in Nat /\ maxrows \in Nat /\ mlmode' = mlmode
      /\ s \in Seq(Char) /\ Len(s) \in Nat
  BY BaseFacts DEF refreshLine, Base, session
<1>2. CASE isBad(s)
  <2>1. pc' = "hung" /\ window' = <<0, 0>> /\ shows(t) /\ UNCHANGED <<oldcolpos, maxrows>>
    BY <1>2 DEF refreshLine
  <2>2. Leads(a, s, p, t)
    BY <1>1, <2>1, Goes
  <2> QED BY <2>1, <2>2, ToHung
<1>3. CASE ~isBad(s) /\ mlmode
  <2> DEFINE l == layOut(t, s, p)
             u == l.terminal
             m == larger(maxrows, l.rows)
  <2>1. pc' = "edit" /\ window' = <<0, 0>> /\ shows(u) /\ oldcolpos' = l.colpos /\ maxrows' = m
    BY <1>1, <1>3 DEF refreshLine, refreshMultiLine
  <2>2. /\ u \in Terminal /\ Kept(a, u) /\ l.colpos \in Nat /\ u.row < Rows /\ u.row >= a
        /\ m \in Nat /\ Laid(a, s, p, u, l.colpos, m)
    BY <1>3, LaidAgain
  <2> HIDE DEF l, u, m
  <2>3. u.row <= Rows
    <3>1. u.row \in Nat
      BY <2>2 DEF Terminal
    <3> QED BY <1>1, <2>2, <3>1
  <2>4. Leads(a, s, p, u)
    BY <1>1, <2>1, <2>2, <2>3, Goes
  <2> QED BY <1>3, <2>1, <2>2, <2>4, ToMultiLine
<1>4. CASE ~isBad(s) /\ ~mlmode
  <2>1. pc' = "scroll" /\ window' = <<0, Len(s)>> /\ shows(t) /\ UNCHANGED <<oldcolpos, maxrows>>
    BY <1>4 DEF refreshLine
  <2>2. Leads(a, s, p, t)
    BY <1>1, <2>1, Goes
  <2>3. 0 \in 0 .. p /\ Len(s) \in p .. Len(s) /\ Needed(s, p, 0)
    BY <1>1 DEF Needed
  <2> QED BY <1>4, <2>1, <2>2, <2>3, ToLoops
<1> QED BY <1>2, <1>3, <1>4

LEMMA EditStep ==
  ASSUME Suitable, Inner, edit
  PROVE  Inner'
<1>1. pc = "edit" /\ Base /\ anchor' = anchor
  BY DEF edit, Inner
<1>2. PICK s \in Texts : \E p \in 0 .. Len(s) : boundary(s, p) /\ refreshLine(terminal, s, p)
  BY DEF edit
<1>6. PICK p \in 0 .. Len(s) : boundary(s, p) /\ refreshLine(terminal, s, p)
  BY <1>2
<1>3. terminal \in Terminal /\ terminal.row <= Rows /\ Kept(anchor, terminal) /\ anchor \in {0, 1}
      /\ Known /\ anchor \in 0 .. Rows /\ oldcolpos \in Nat /\ maxrows \in Nat
  BY <1>1, BaseFacts DEF Base, terminal
<1>4. ASSUME mlmode PROVE Erased(terminal, oldcolpos, maxrows) = Clean(anchor)
  <2>1. Canvas(terminal, anchor, maxrows) /\ Placed(terminal, anchor, oldcolpos, maxrows)
    BY <1>1, <1>4 DEF Inner, InMultiLine, Laid
  <2> QED BY <1>3, <2>1, ErasedIsClean
<1>5. ASSUME ~mlmode PROVE OnlyRow(anchor, terminal)
  BY <1>1, <1>5 DEF Inner, InSingleLine
<1> QED BY <1>1, <1>3, <1>4, <1>5, <1>6, RefreshStep

LEMMA ClearScreenStep ==
  ASSUME Suitable, Inner, linenoiseClearScreen
  PROVE  Inner'
<1> DEFINE t == Clean(0)
<1>1. pc = "edit" /\ Base /\ anchor' = 0 /\ refreshLine(t, buf, pos)
  <2>1. t = [cells |-> [r \in 0 .. Rows |-> blankRow], row |-> 0, col |-> 0]
    <3>1. \A r \in 0 .. Rows :
            (IF r < 0 THEN [c \in 0 .. width - 1 |-> "old"] ELSE blankRow) = blankRow
      OBVIOUS
    <3>2. [r \in 0 .. Rows |-> IF r < 0 THEN [c \in 0 .. width - 1 |-> "old"] ELSE blankRow]
            = [r \in 0 .. Rows |-> blankRow]
      BY <3>1
    <3> QED BY <3>2 DEF Clean
  <2> QED BY <2>1 DEF linenoiseClearScreen, Inner
<1>2. /\ Known /\ Rows \in Nat /\ oldcolpos \in Nat /\ maxrows \in Nat
      /\ buf \in Texts /\ pos \in 0 .. Len(buf) /\ boundary(buf, pos)
  BY <1>1, BaseFacts DEF Base
<1>3. t \in Terminal /\ t.row = 0 /\ \A q \in 0 .. Rows : q >= 0 => t.cells[q] = blankRow
  BY <1>2, CleanTyped
<1> HIDE DEF t
<1>4. t.row <= Rows /\ Kept(0, t) /\ OnlyRow(0, t)
  <2>1. \A q \in 0 .. Rows : q >= 0 /\ ~ (q < 0)
    OBVIOUS
  <2> QED BY <1>2, <1>3, <2>1 DEF Kept, OnlyRow
<1>5. Erased(t, oldcolpos, maxrows) = Clean(0)
  BY <1>2, NothingErased DEF t
<1> QED BY <1>1, <1>2, <1>3, <1>4, <1>5, RefreshStep

\* Facts about the line that the steps of the single line mode share.
LEMMA LineFacts ==
  ASSUME Suitable, Base
  PROVE  /\ buf \in Seq(Char) /\ Len(buf) \in Nat /\ pos \in 0 .. Len(buf) /\ buf \in Texts
         /\ boundary(buf, pos) /\ Known /\ Wide /\ anchor \in 0 .. Rows /\ anchor \in {0, 1}
         /\ Rows \in Nat /\ terminal \in Terminal /\ terminal.row = row /\ row <= Rows
         /\ Kept(anchor, terminal) /\ pcolwid \in Nat /\ cols = width /\ width \in Nat
         /\ oldcolpos \in Nat /\ maxrows \in Nat
         /\ window[1] \in 0 .. Len(buf) /\ window[2] \in window[1] .. Len(buf)
  BY BaseFacts DEF Base, terminal, Known

LEMMA InsertStep ==
  ASSUME Suitable, Inner, NEW c \in Char, linenoiseEditInsert(c)
  PROVE  Inner'
<1> DEFINE s == Append(buf, c)
           a == anchor
           t == terminal
           u == put(t, c)
<1>1. /\ pc = "edit" /\ pc' = "edit" /\ ~mlmode /\ pos = Len(buf) /\ s \in Texts /\ buf' = s
      /\ pos' = pos + 1 /\ shows(u) /\ pcolwid + unicodeColumnPos(s) < cols
      /\ UNCHANGED session /\ UNCHANGED <<oldcolpos, maxrows, window, anchor>> /\ Base
  BY DEF linenoiseEditInsert, Inner
<1>2. /\ buf \in Seq(Char) /\ Len(buf) \in Nat /\ Known /\ a \in 0 .. Rows /\ a \in {0, 1}
      /\ t \in Terminal /\ Kept(a, t) /\ cols = width /\ oldcolpos \in Nat /\ maxrows \in Nat
      /\ Rows \in Nat
  BY <1>1, LineFacts
<1>3. OnlyRow(a, t) /\ InRow(a, buf, Len(buf), t) /\ window = <<0, 0>>
  BY <1>1 DEF Inner, InSingleLine, Drawn, Base
<1>4. u \in Terminal /\ OnlyRow(a, u) /\ Kept(a, u) /\ InRow(a, s, Len(buf) + 1, u)
  <2>1. pcolwid + unicodeColumnPos(s) < width
    BY <1>1, <1>2
  <2> HIDE DEF t, a
  <2> QED BY <1>2, <1>3, <2>1, Inserted
<1>5. Len(s) = Len(buf) + 1 /\ Len(buf) + 1 \in 0 .. Len(s)
  <2>1. Len(s) = Len(buf) + 1
    BY <1>2, Longer
  <2> HIDE DEF s
  <2> QED BY <1>2, <2>1
<1>6. boundary(s, Len(buf) + 1)
  BY <1>5 DEF boundary
<1>7. u.row <= Rows
  <2>1. u.row = a
    BY <1>4 DEF OnlyRow
  <2> QED BY <1>2, <2>1
<1> HIDE DEF s, u, t, a
<1>8. Leads(a, s, Len(buf) + 1, u)
  <2>1. anchor' = a /\ pos' = Len(buf) + 1 /\ oldcolpos' \in Nat /\ maxrows' \in Nat
    BY <1>1, <1>2 DEF a
  <2> QED BY <1>1, <1>2, <1>4, <1>5, <1>6, <1>7, <2>1, Goes
<1>9. window' = <<0, 0>>
  BY <1>1, <1>3
<1> QED BY <1>1, <1>4, <1>8, <1>9, ToSingleLine

\* The loops choose a part that still holds the cursor.
LEMMA ScrollLeftStep ==
  ASSUME Suitable, Inner, scrollLeft
  PROVE  Inner'
<1> DEFINE a == anchor
           t == terminal
           w == window[1]
           n == graphemeLen(buf, w)
<1>1. /\ pc = "scroll" /\ pc' = "scroll" /\ scrolledOut /\ window' = <<w + n, window[2]>> /\ Base
      /\ UNCHANGED <<screen, session, line, oldcolpos, maxrows, anchor>>
  BY DEF scrollLeft, Inner
<1>2. /\ buf \in Seq(Char) /\ Len(buf) \in Nat /\ Known /\ a \in 0 .. Rows /\ a \in {0, 1}
      /\ t \in Terminal /\ Kept(a, t) /\ cols = width /\ oldcolpos \in Nat /\ maxrows \in Nat
      /\ Rows \in Nat /\ pos \in 0 .. Len(buf) /\ boundary(buf, pos) /\ buf \in Texts
      /\ w \in 0 .. Len(buf) /\ window[2] \in w .. Len(buf) /\ pcolwid \in Nat /\ width \in Nat
      /\ t.row <= Rows
  BY <1>1, LineFacts
<1>3. ~mlmode /\ pos \in w .. window[2] /\ OnlyRow(a, t)
  BY <1>1 DEF Inner, Scrolling, InSingleLine
<1> DEFINE out == Columns(buf, w, pos)
<1>4. out >= width
  BY <1>1, <1>2 DEF scrolledOut, drawn, Columns, Part
<1>5. out \in Nat /\ out <= Columns(buf, 0, pos) /\ Columns(buf, 0, pos) \in Nat /\ Columns(buf, w, w) = pcolwid
  <2>1. 0 \in 0 .. Len(buf) /\ pos \in 0 .. Len(buf) /\ w \in 0 .. pos
    BY <1>2, <1>3
  <2>2. pos \in w .. Len(buf) /\ w \in w .. pos
    BY <1>2, <1>3
  <2> HIDE DEF w
  <2>3. out \in Nat /\ out <= Columns(buf, 0, pos) /\ Columns(buf, 0, pos) \in Nat
    BY <1>2, <2>1, PartColumns
  <2>4. Columns(buf, w, w) = pcolwid
    BY <1>2, <2>2, PartColumns
  <2> QED BY <2>3, <2>4
<1>6. w # pos
  <2>1. pcolwid < width
    BY <1>1 DEF Base
  <2> QED BY <1>2, <1>4, <1>5, <2>1
<1>7. n \in 1 .. pos - w
  <2>1. pos \in w .. Len(buf)
    BY <1>2, <1>3
  <2> HIDE DEF w
  <2> QED BY <1>2, <1>6, <2>1, GraphemeLen
<1>8. Needed(buf, pos, w + n)
  <2>1. Columns(buf, 0, pos) = pcolwid + unicodeColumnPos(SubSeq(buf, 1, pos))
    BY <1>2, WholePart DEF Columns
  <2>2. Columns(buf, 0, pos) >= width
    BY <1>2, <1>4, <1>5
  <2> QED BY <2>1, <2>2 DEF Needed
<1> HIDE DEF n, out, w, a, t
<1>9. w + n \in 0 .. pos /\ window[2] \in pos .. Len(buf)
  BY <1>2, <1>3, <1>7
<1>10. Leads(a, buf, pos, t)
  <2>1. /\ UNCHANGED session /\ anchor' = a /\ buf' = buf /\ pos' = pos
        /\ shows(t) /\ oldcolpos' \in Nat /\ maxrows' \in Nat
    BY <1>1, <1>2 DEF a, t, line, screen, shows, terminal
  <2> QED BY <1>1, <1>2, <2>1, Goes
<1> QED BY <1>1, <1>3, <1>8, <1>9, <1>10, ToLoops

LEMMA CutRightStep ==
  ASSUME Suitable, Inner, cutRight
  PROVE  Inner'
<1> DEFINE a == anchor
           t == terminal
           w == window[1]
           x == window[2]
           n == prevGraphemeLen(buf, x)
<1>1. /\ pc = "scroll" /\ pc' = "scroll" /\ ~scrolledOut /\ tooLong /\ window' = <<w, x - n>> /\ Base
      /\ UNCHANGED <<screen, session, line, oldcolpos, maxrows, anchor>>
  BY DEF cutRight, Inner
<1>2. /\ buf \in Seq(Char) /\ Len(buf) \in Nat /\ Known /\ a \in 0 .. Rows /\ a \in {0, 1}
      /\ t \in Terminal /\ Kept(a, t) /\ cols = width /\ oldcolpos \in Nat /\ maxrows \in Nat
      /\ Rows \in Nat /\ pos \in 0 .. Len(buf) /\ boundary(buf, pos) /\ buf \in Texts
      /\ w \in 0 .. Len(buf) /\ x \in w .. Len(buf) /\ pcolwid \in Nat /\ width \in Nat
      /\ t.row <= Rows
  BY <1>1, LineFacts
<1>3. ~mlmode /\ pos \in w .. x /\ OnlyRow(a, t) /\ Needed(buf, pos, w)
  BY <1>1 DEF Inner, Scrolling, InSingleLine
<1>4. Columns(buf, w, x) > width /\ ~ (Columns(buf, w, pos) >= width)
  BY <1>1, <1>2 DEF scrolledOut, tooLong, drawn, Columns, Part
<1>5. x # pos
  <2>1. Columns(buf, w, pos) \in Nat
    <3>1. pos \in w .. Len(buf)
      BY <1>2, <1>3
    <3>2. w \in w .. pos
      BY <1>2, <1>3
    <3> HIDE DEF w
    <3> QED BY <1>2, <3>1, <3>2, PartColumns
  <2> QED BY <1>2, <1>4, <2>1
<1>6. n \in 1 .. x - pos
  <2>1. x \in 0 .. Len(buf) /\ pos \in 0 .. x
    BY <1>2, <1>3
  <2> HIDE DEF x
  <2> QED BY <1>2, <1>5, <2>1, PrevGraphemeLen
<1> HIDE DEF n, w, x, a, t
<1>7. w \in 0 .. pos /\ x - n \in pos .. Len(buf)
  BY <1>2, <1>3, <1>6
<1>8. Leads(a, buf, pos, t)
  <2>1. /\ UNCHANGED session /\ anchor' = a /\ buf' = buf /\ pos' = pos
        /\ shows(t) /\ oldcolpos' \in Nat /\ maxrows' \in Nat
    BY <1>1, <1>2 DEF a, t, line, screen, shows, terminal
  <2> QED BY <1>1, <1>2, <2>1, Goes
<1> QED BY <1>1, <1>3, <1>7, <1>8, ToLoops

\* The part is drawn.
LEMMA DrawStep ==
  ASSUME Suitable, Inner, refreshSingleLine
  PROVE  Inner'
<1> DEFINE a == anchor
           t == terminal
           w == window[1]
           x == window[2]
           n == Columns(buf, w, pos)
           u == right(cr(eraseRight(write(cr(t), prompt \o Part(buf, w, x)))), larger(n, 1))
<1>1. /\ pc = "scroll" /\ pc' = "edit" /\ ~scrolledOut /\ ~tooLong /\ shows(u) /\ window' = <<0, 0>>
      /\ UNCHANGED <<session, line, oldcolpos, maxrows, anchor>> /\ Base
  BY DEF refreshSingleLine, Inner, drawn, Columns, Part
<1>2. /\ buf \in Seq(Char) /\ Len(buf) \in Nat /\ Known /\ a \in 0 .. Rows /\ a \in {0, 1}
      /\ t \in Terminal /\ Kept(a, t) /\ cols = width /\ oldcolpos \in Nat /\ maxrows \in Nat
      /\ Rows \in Nat /\ pos \in 0 .. Len(buf) /\ boundary(buf, pos) /\ buf \in Texts
      /\ w \in 0 .. Len(buf) /\ x \in w .. Len(buf) /\ pcolwid \in Nat /\ width \in Nat
  BY <1>1, LineFacts
<1>3. ~mlmode /\ pos \in w .. x /\ OnlyRow(a, t) /\ Needed(buf, pos, w)
  BY <1>1 DEF Inner, Scrolling, InSingleLine
<1>4. ~ (Columns(buf, w, x) > width) /\ ~ (n >= width)
  BY <1>1, <1>2 DEF scrolledOut, tooLong, drawn, Columns, Part
<1> HIDE DEF w, x, a, t
<1>5. w \in 0 .. pos /\ x \in pos .. Len(buf)
  BY <1>2, <1>3
<1>6. n < width /\ Columns(buf, w, x) <= width
  <2>1. pos \in w .. x
    BY <1>3
  <2>2. n \in Nat /\ Columns(buf, w, x) \in Nat
    BY <1>2, <2>1, PartColumns
  <2> QED BY <1>2, <1>4, <2>2
<1>7. u \in Terminal /\ OnlyRow(a, u) /\ Kept(a, u) /\ ShowsPart(a, buf, pos, u, w, x)
  BY <1>2, <1>3, <1>5, <1>6, RowDrawn
<1> HIDE DEF u, n
<1>8. InRow(a, buf, pos, u)
  BY <1>5, <1>7 DEF InRow
<1>9. u.row <= Rows
  <2>1. u.row = a
    BY <1>7 DEF OnlyRow
  <2> QED BY <1>2, <2>1
<1>10. Leads(a, buf, pos, u)
  <2>1. /\ UNCHANGED session /\ anchor' = a /\ buf' = buf /\ pos' = pos
        /\ oldcolpos' \in Nat /\ maxrows' \in Nat
    BY <1>1, <1>2 DEF a, line
  <2> QED BY <1>1, <1>2, <1>7, <1>9, <2>1, Goes
<1> QED BY <1>1, <1>3, <1>7, <1>8, <1>10, ToSingleLine

\* The cursor goes to the next row.
LEMMA NextLine ==
  ASSUME Wide, Rows \in Nat, NEW t \in Terminal
  PROVE  LET u == lf(cr(t))
         IN u \in Terminal /\ u.row = t.row + 1 /\ u.col = 0 /\ u.cells = t.cells
<1> DEFINE b == cr(t)
<1>1. b \in Terminal /\ b.row = t.row /\ b.col = 0 /\ b.cells = t.cells
  <2>1. 0 \in Int
    OBVIOUS
  <2>2. b \in Terminal
    BY <2>1, MovesTyped
  <2> QED BY <2>2 DEF cr, Terminal
<1> HIDE DEF b
<1>2. lf(b) \in Terminal
  <2>1. 0 \in Int
    OBVIOUS
  <2> QED BY <1>1, <2>1, MovesTyped
<1>3. lf(b).row = b.row + 1 /\ lf(b).col = b.col /\ lf(b).cells = b.cells
  BY <1>1 DEF lf, Terminal
<1> QED BY <1>1, <1>2, <1>3 DEF b

LEMMA EnterStep ==
  ASSUME Suitable, Inner, enter
  PROVE  Inner'
<1> DEFINE a == anchor
           t == terminal
           N == Len(buf)
<1>1. pc = "edit" /\ pc' = "done" /\ UNCHANGED <<session, window, anchor>> /\ Base /\ window = <<0, 0>>
  BY DEF enter, Inner, Base
<1>2. /\ buf \in Seq(Char) /\ N \in Nat /\ Known /\ Wide /\ a \in 0 .. Rows /\ a \in {0, 1}
      /\ t \in Terminal /\ Kept(a, t) /\ cols = width /\ oldcolpos \in Nat /\ maxrows \in Nat
      /\ Rows \in Nat /\ pos \in 0 .. N /\ boundary(buf, pos) /\ buf \in Texts
      /\ N \in 0 .. N /\ boundary(buf, N)
  BY <1>1, LineFacts DEF boundary
<1> DEFINE Ready(u) == /\ u \in Terminal /\ u.row < Rows /\ u.row >= a /\ Kept(a, u)
                       /\ \A q \in 0 .. Rows : q > u.row => u.cells[q] = blankRow
<1> HIDE DEF t, a, N
<1>3. ASSUME NEW u, Ready(u), shows(lf(cr(u))), buf' = buf, pos' \in 0 .. N, boundary(buf, pos'),
             oldcolpos' \in Nat, maxrows' \in Nat
      PROVE  Inner'
  <2> DEFINE f == lf(cr(u))
  <2>1. f \in Terminal /\ f.row = u.row + 1 /\ f.col = 0 /\ f.cells = u.cells
    BY <1>2, <1>3, NextLine
  <2> HIDE DEF f
  <2>2. u.row \in Nat
    BY <1>3 DEF Terminal
  <2>3. f.row <= Rows /\ f.row > a /\ \A q \in 0 .. Rows : q >= f.row => q > u.row
    BY <1>2, <1>3, <2>1, <2>2
  <2>4. Kept(a, f)
    BY <1>3, <2>1 DEF Kept
  <2>5. PICK p \in 0 .. N : p = pos'
    BY <1>3
  <2>6. Leads(a, buf, p, f)
    <3>1. shows(f) /\ boundary(buf, p) /\ UNCHANGED session /\ anchor' = a /\ pos' = p
      BY <1>1, <1>3, <2>5 DEF f, a
    <3>2. p \in 0 .. Len(buf)
      BY DEF N
    <3> QED BY <1>1, <1>2, <1>3, <2>1, <2>3, <2>4, <3>1, <3>2, Goes
  <2>7. \A q \in 0 .. Rows : q >= f.row => f.cells[q] = blankRow
    BY <1>3, <2>1, <2>3
  <2>8. window' = <<0, 0>>
    BY <1>1
  <2> QED BY <1>1, <2>1, <2>3, <2>6, <2>7, <2>8, ToDone
<1>4. CASE mlmode /\ pos # Len(buf)
  <2> DEFINE l == layOut(t, buf, N)
             u == l.terminal
             m == larger(maxrows, l.rows)
  <2>1. shows(lf(cr(u))) /\ oldcolpos' = l.colpos /\ maxrows' = m /\ pos' = N /\ buf' = buf
    BY <1>4 DEF enter, refreshMultiLine, t, N
  <2>2. Erased(t, oldcolpos, maxrows) = Clean(a)
    <3>1. Canvas(t, a, maxrows) /\ Placed(t, a, oldcolpos, maxrows)
      BY <1>1, <1>4 DEF Inner, InMultiLine, Laid, t, a
    <3> QED BY <1>2, <3>1, ErasedIsClean
  <2>3. /\ u \in Terminal /\ Kept(a, u) /\ l.colpos \in Nat /\ u.row < Rows /\ u.row >= a
        /\ m \in Nat /\ Laid(a, buf, N, u, l.colpos, m)
    <3>1. N \in 0 .. Len(buf)
      BY <1>2 DEF N
    <3> QED BY <1>1, <1>2, <2>2, <3>1, LaidAgain
  <2> HIDE DEF l, u, m
  <2>4. \A q \in 0 .. Rows : q > u.row => u.cells[q] = blankRow
    BY <2>3 DEF Laid, N
  <2>5. Ready(u)
    BY <2>3, <2>4
  <2> HIDE DEF Ready
  <2>6. pos' \in 0 .. N /\ boundary(buf, pos')
    BY <1>2, <2>1
  <2> QED BY <1>3, <2>1, <2>3, <2>5, <2>6
<1>5. CASE ~ (mlmode /\ pos # Len(buf))
  <2>1. shows(lf(cr(t))) /\ UNCHANGED <<line, oldcolpos, maxrows>>
    BY <1>5 DEF enter, t
  <2>2. Ready(t)
    <3>1. CASE mlmode
      <4>1. /\ Laid(a, buf, pos, t, oldcolpos, maxrows) /\ pos = Len(buf)
        BY <1>1, <1>5, <3>1 DEF Inner, InMultiLine, t, a
      <4>2. \A q \in 0 .. Rows : q > t.row => t.cells[q] = blankRow
        BY <4>1 DEF Laid
      <4>3. t.row \in a .. a + Len(prompt) + Len(buf) + 1
        BY <4>1 DEF Laid
      <4>4. Len(prompt) \in Nat /\ Len(buf) \in Nat /\ Len(prompt) + Len(buf) + 3 <= Rows
        BY <1>1, <1>2, BaseFacts
      <4>5. a <= 1 /\ a \in Nat
        BY <1>2
      <4>6. t.row < Rows /\ t.row >= a
        BY <1>2, <4>3, <4>4, <4>5
      <4> QED BY <1>2, <4>2, <4>6
    <3>2. CASE ~mlmode
      <4>1. OnlyRow(a, t)
        BY <1>1, <3>2 DEF Inner, InSingleLine, t, a
      <4>2. Len(prompt) \in Nat /\ Len(buf) \in Nat /\ Len(prompt) + Len(buf) + 3 <= Rows
        BY <1>1, <1>2, BaseFacts
      <4>3. a < Rows
        BY <1>2, <4>2
      <4> QED BY <1>2, <4>1, <4>3 DEF OnlyRow
    <3> QED BY <3>1, <3>2
  <2> HIDE DEF Ready
  <2>3. buf' = buf /\ pos' = pos /\ oldcolpos' \in Nat /\ maxrows' \in Nat
    BY <1>2, <2>1 DEF line
  <2>4. pos' \in 0 .. N /\ boundary(buf, pos')
    BY <1>2, <2>3
  <2> QED BY <1>3, <2>1, <2>2, <2>3, <2>4
<1> QED BY <1>4, <1>5

\* The width is found out; then nothing has happened to the terminal.
LEMMA BeginStep ==
  ASSUME Suitable, IInv, begin, Fits'
  PROVE  Inner'
<1> DEFINE a == anchor
           v == Clean(a)
<1>1. /\ pc = "start" /\ pc' = "prompt" /\ cols = width /\ measured /\ getColumns
      /\ UNCHANGED <<cells, row, width, prompt, mlmode, line, oldcolpos, maxrows, window, anchor>>
  BY DEF begin, IInv
<1>2. cols' = width /\ measured' = TRUE /\ UNCHANGED col
  BY <1>1 DEF getColumns, Fits
<1>3. Stays /\ measured' = measured /\ mlmode' = mlmode /\ terminal' = terminal
  BY <1>1, <1>2 DEF Stays, terminal
<1>4. Fits
  <2>1. pcolwid' = pcolwid
    BY <1>1 DEF pcolwid
  <2> QED BY <1>1, <1>3, <2>1 DEF Fits, Stays
<1>5. Inner /\ Base /\ terminal = v /\ buf = <<>> /\ pos = 0 /\ oldcolpos = 0 /\ maxrows = 0
      /\ window = <<0, 0>>
  <2>1. Inner /\ Base /\ AtStart
    BY <1>4 DEF IInv, Inner
  <2> QED BY <1>1, <2>1 DEF AtStart, Base
<1>6. Leads(a, buf, pos, terminal) /\ Known
  <2>1. /\ buf \in Texts /\ pos \in 0 .. Len(buf) /\ boundary(buf, pos) /\ Known
        /\ a \in {0, 1} /\ terminal \in Terminal /\ Kept(a, terminal) /\ terminal.row <= Rows
        /\ oldcolpos \in Nat /\ maxrows \in Nat
    BY <1>5, LineFacts
  <2> QED BY <1>1, <1>3, <2>1 DEF Leads, line
<1>7. Base'
  <2>1. window' = <<0, 0>> /\ Len(buf) = 0
    BY <1>1, <1>5
  <2> QED BY <1>1, <1>5, <1>6, <2>1, BaseKept
<1>8. v' = v
  <2>1. \A x : Clean(x)' = Clean(x)
    BY <1>3, <1>6, SameScreens
  <2> QED BY <1>1, <2>1
<1>9. AtStart'
  <2>1. terminal' = Clean(anchor)'
    BY <1>3, <1>5, <1>8
  <2> QED BY <1>1, <1>5, <2>1 DEF AtStart, line
<1> QED BY <1>1, <1>7, <1>9 DEF Inner, InMultiLine, InSingleLine, Scrolling, Drawn, Finished

\* Nothing happens.
LEMMA NoStep ==
  ASSUME Suitable, Inner, UNCHANGED vars
  PROVE  Inner'
<1> DEFINE a == anchor
           t == terminal
<1>1. /\ UNCHANGED session /\ buf' = buf /\ pos' = pos /\ oldcolpos' = oldcolpos
      /\ maxrows' = maxrows /\ window' = window /\ anchor' = anchor /\ pc' = pc /\ shows(t) /\ Base
      /\ mlmode' = mlmode
  BY DEF vars, screen, line, session, shows, terminal, Inner
<1>2. /\ buf \in Seq(Char) /\ Known /\ a \in 0 .. Rows /\ a \in {0, 1} /\ Rows \in Nat
      /\ t \in Terminal /\ Kept(a, t) /\ oldcolpos \in Nat /\ maxrows \in Nat /\ t.row <= Rows
      /\ pos \in 0 .. Len(buf) /\ boundary(buf, pos) /\ buf \in Texts
      /\ window[1] \in 0 .. Len(buf) /\ window[2] \in window[1] .. Len(buf)
  BY <1>1, LineFacts
<1> HIDE DEF a, t
<1>3. Leads(a, buf, pos, t)
  BY <1>1, <1>2, Goes DEF a
<1>4. Stays /\ terminal' = t /\ t = terminal /\ a = anchor
  BY <1>3 DEF Leads, a, t
<1>5. Base'
  <2>1. pc' # "scroll" => window' = <<0, 0>>
    BY <1>1 DEF Base
  <2>2. window'[1] \in 0 .. Len(buf) /\ window'[2] \in window'[1] .. Len(buf)
    BY <1>1, <1>2
  <2> QED BY <1>1, <1>3, <2>1, <2>2, BaseKept
<1>6. AtStart'
  <2>1. \A x : Clean(x)' = Clean(x)
    BY <1>2, <1>4, SameScreens
  <2>2. Clean(anchor)' = Clean(anchor)
    BY <1>1, <2>1
  <2> QED BY <1>1, <1>4, <2>2 DEF Inner, AtStart
<1>7. InMultiLine'
  <2>1. SUFFICES ASSUME mlmode, pc = "edit" PROVE Laid(anchor, buf, pos, terminal, oldcolpos, maxrows)'
    BY <1>1 DEF InMultiLine
  <2>2. Laid(a, buf, pos, t, oldcolpos, maxrows)
    BY <1>4, <2>1 DEF Inner, InMultiLine
  <2>3. PICK s, p, x, y, b, u : s = buf /\ p = pos /\ x = oldcolpos /\ y = maxrows /\ b = a /\ u = t
    OBVIOUS
  <2>4. s \in Seq(Char) /\ p \in 0 .. Len(s) /\ b \in 0 .. Rows
    BY <1>2, <2>3
  <2>5. Laid(b, s, p, u, x, y)
    BY <2>2, <2>3
  <2>6. Laid(b, s, p, u, x, y)'
    BY <1>2, <1>4, <2>4, <2>5, SameLaid
  <2> QED BY <1>1, <1>4, <2>3, <2>6
<1>8. InSingleLine' /\ Scrolling' /\ Drawn'
  <2>1. PICK s, p, w, b, u : s = buf /\ p = pos /\ w = window[1] /\ b = a /\ u = t
    OBVIOUS
  <2>6. s \in Seq(Char) /\ b \in 0 .. Rows
    BY <1>2, <2>1
  <2>2. /\ OnlyRow(b, u) => OnlyRow(b, u)'
        /\ Needed(s, p, w) => Needed(s, p, w)'
        /\ InRow(b, s, p, u) => InRow(b, s, p, u)'
    BY <1>2, <1>4, <2>6, SameRow
  <2>3. OnlyRow(anchor, terminal) => OnlyRow(anchor, terminal)'
    BY <1>1, <1>4, <2>1, <2>2
  <2>4. InRow(anchor, buf, pos, terminal) => InRow(anchor, buf, pos, terminal)'
    BY <1>1, <1>4, <2>1, <2>2
  <2>5. Needed(buf, pos, window[1]) => Needed(buf, pos, window[1])'
    BY <1>1, <2>1, <2>2
  <2> QED BY <1>1, <2>3, <2>4, <2>5 DEF Inner, InSingleLine, Scrolling, Drawn
<1>9. Finished'
  <2>1. blankRow' = blankRow
    BY <1>2, <1>4, SameScreens
  <2>2. cells' = cells /\ row' = row /\ col' = col
    BY DEF vars, screen
  <2> QED BY <1>1, <2>1, <2>2 DEF Inner, Finished
<1> QED BY <1>5, <1>6, <1>7, <1>8, <1>9 DEF Inner

LEMMA InitHolds ==
  ASSUME Init PROVE IInv
<1> DEFINE v == Clean(1)
<1>1. /\ width \in Widths /\ prompt \in Prompts /\ row = 1 /\ col = 0 /\ anchor = 1 /\ cols = width
      /\ measured /\ buf = <<>> /\ pos = 0 /\ oldcolpos = 0 /\ maxrows = 0 /\ window = <<0, 0>>
      /\ pc = "start"
      /\ cells = [r \in 0 .. Rows |-> [c \in 0 .. width - 1 |-> IF r = 0 THEN "old" ELSE "blank"]]
  BY DEF Init
<1>2. SUFFICES ASSUME Fits PROVE Inner
  BY <1>1 DEF IInv
<1>3. cells = v.cells
  <2>1. ASSUME NEW r \in 0 .. Rows
        PROVE  [c \in 0 .. width - 1 |-> IF r = 0 THEN "old" ELSE "blank"]
                 = IF r < 1 THEN [c \in 0 .. width - 1 |-> "old"] ELSE blankRow
    <3>1. CASE r = 0
      BY <3>1
    <3>2. CASE r # 0
      <4>1. ~ (r < 1)
        BY <3>2
      <4> QED BY <3>2, <4>1 DEF blankRow
    <3> QED BY <3>1, <3>2
  <2>2. v.cells = [r \in 0 .. Rows |-> IF r < 1 THEN [c \in 0 .. width - 1 |-> "old"] ELSE blankRow]
    BY DEF Clean
  <2> HIDE DEF v
  <2> QED BY <1>1, <2>1, <2>2
<1>4. terminal = v
  <2>1. v = [cells |-> v.cells, row |-> 1, col |-> 0]
    BY DEF Clean
  <2> HIDE DEF v
  <2> QED BY <1>1, <1>3, <2>1 DEF terminal
<1>5. width \in Nat /\ width >= 2 /\ Rows \in Nat /\ Rows >= 1 /\ <<>> \in Texts
  BY <1>1, DisplayAssumption
<1>6. Known
  <2>1. prompt \in Seq(Char)
    <3>1. prompt \in Seq(Char \ {"bad"})
      BY <1>1, DisplayAssumption
    <3> QED BY <3>1
  <2>2. pcolwid \in Nat
    BY <2>1, SumTyped DEF pcolwid
  <2>3. pcolwid < width
    BY <1>1, <1>2 DEF Fits
  <2> QED BY <1>1, <1>5, <2>1, <2>2, <2>3 DEF Known
<1>7. v \in Terminal /\ \A q \in 0 .. Rows : q < 1 => v.cells[q] = [c \in 0 .. width - 1 |-> "old"]
  <2>1. 1 \in Nat
    OBVIOUS
  <2> QED BY <1>6, <2>1, CleanTyped
<1> HIDE DEF v
<1>8. Base
  <2>1. pcolwid < width
    BY <1>1, <1>2 DEF Fits
  <2>2. /\ buf \in Texts /\ pos \in 0 .. Len(buf) /\ boundary(buf, pos)
        /\ window[1] \in 0 .. Len(buf) /\ window[2] \in window[1] .. Len(buf)
    <3>1. Len(<<>>) = 0
      OBVIOUS
    <3> QED BY <1>1, <1>5, <3>1 DEF boundary
  <2>3. terminal \in Terminal /\ Kept(anchor, terminal)
    BY <1>1, <1>4, <1>7 DEF Kept
  <2> QED BY <1>1, <1>5, <2>1, <2>2, <2>3 DEF Base
<1>9. AtStart
  BY <1>1, <1>4 DEF AtStart, v
<1> QED BY <1>1, <1>8, <1>9 DEF Inner, InMultiLine, InSingleLine, Scrolling, Drawn, Finished

LEMMA NextKeeps ==
  ASSUME Suitable, IInv, [Next]_vars
  PROVE  IInv'
<1>1. CASE begin
  <2>1. pc' # "start"
    BY <1>1 DEF begin
  <2> QED BY <1>1, <2>1, BeginStep DEF IInv
<1> DEFINE Goal == UNCHANGED session /\ (pc' = "start" => pc = "start") /\ (Fits => Inner')
<1>2. CASE writePrompt
  <2>1. UNCHANGED session /\ pc' # "start"
    BY <1>2 DEF writePrompt
  <2>2. Fits => Inner'
    BY <1>2, PromptStep DEF IInv
  <2>3. Goal
    BY <2>1, <2>2
  <2> QED BY <2>3 DEF IInv, Fits, session, pcolwid
<1>3. CASE edit
  <2>1. UNCHANGED session /\ pc' # "start"
    BY <1>3 DEF edit, refreshLine
  <2>2. Fits => Inner'
    BY <1>3, EditStep DEF IInv
  <2> QED BY <2>1, <2>2 DEF IInv, Fits, session, pcolwid
<1>4. CASE linenoiseClearScreen
  <2>1. UNCHANGED session /\ pc' # "start"
    BY <1>4 DEF linenoiseClearScreen, refreshLine
  <2>2. Fits => Inner'
    BY <1>4, ClearScreenStep DEF IInv
  <2> QED BY <2>1, <2>2 DEF IInv, Fits, session, pcolwid
<1>5. CASE enter
  <2>1. UNCHANGED session /\ pc' # "start"
    BY <1>5 DEF enter
  <2>2. Fits => Inner'
    BY <1>5, EnterStep DEF IInv
  <2> QED BY <2>1, <2>2 DEF IInv, Fits, session, pcolwid
<1>6. CASE \E c \in Char : linenoiseEditInsert(c)
  <2>0. PICK c \in Char : linenoiseEditInsert(c)
    BY <1>6
  <2>1. UNCHANGED session /\ pc' # "start"
    BY <2>0 DEF linenoiseEditInsert
  <2>2. Fits => Inner'
    BY <2>0, InsertStep DEF IInv
  <2> QED BY <2>1, <2>2 DEF IInv, Fits, session, pcolwid
<1>7. CASE scrollLeft
  <2>1. UNCHANGED session /\ pc' # "start"
    BY <1>7 DEF scrollLeft
  <2>2. Fits => Inner'
    BY <1>7, ScrollLeftStep DEF IInv
  <2> QED BY <2>1, <2>2 DEF IInv, Fits, session, pcolwid
<1>8. CASE cutRight
  <2>1. UNCHANGED session /\ pc' # "start"
    BY <1>8 DEF cutRight
  <2>2. Fits => Inner'
    BY <1>8, CutRightStep DEF IInv
  <2> QED BY <2>1, <2>2 DEF IInv, Fits, session, pcolwid
<1>9. CASE refreshSingleLine
  <2>1. UNCHANGED session /\ pc' # "start"
    BY <1>9 DEF refreshSingleLine
  <2>2. Fits => Inner'
    BY <1>9, DrawStep DEF IInv
  <2> QED BY <2>1, <2>2 DEF IInv, Fits, session, pcolwid
<1>10. CASE UNCHANGED vars
  <2>1. UNCHANGED session /\ pc' = pc
    BY <1>10 DEF vars
  <2>2. Fits => Inner'
    BY <1>10, NoStep DEF IInv
  <2>3. (pc = "start" => cols = width /\ measured)'
    BY <2>1 DEF IInv, session
  <2> QED BY <2>1, <2>2, <2>3 DEF IInv, Fits, session, pcolwid
<1> QED BY <1>1, <1>2, <1>3, <1>4, <1>5, <1>6, <1>7, <1>8, <1>9, <1>10 DEF Next, Loops

\* Whatever is typed, on a terminal of any width above two and for every prompt
\* and text, what the editor remembers is where the terminal's cursor is, and
\* the screen shows what was written.  (linenoiseEdit(), the refreshes and the
\* insertions that do without one, over all steps of a session.)
THEOREM Drawing ==
  ASSUME NoneFillsARow, LinesAreSeen, EnoughRows
  PROVE  Spec => []IInv
<1>1. Suitable
  BY DEF Suitable
<1>2. IInv /\ [Next]_vars => IInv'
  BY <1>1, NextKeeps
<1>3. Init => IInv
  BY InitHolds
<1> QED BY <1>2, <1>3, PTL DEF Spec

\* The terminal before the line is drawn is the one with nothing in and below
\* the prompt's row.
LEMMA FreshIsClean ==
  ASSUME Suitable, Base
  PROVE  Fresh = Clean(anchor) /\ Above
<1>1. cells \in Cells /\ Kept(anchor, terminal) /\ anchor \in 0 .. Rows /\ Rows \in Nat
  <2>1. terminal \in Terminal /\ terminal.cells = cells
    BY DEF Base, terminal
  <2> QED BY <2>1, BaseFacts DEF Base, Terminal
<1>2. \A q \in 0 .. Rows : q < anchor => cells[q] = [c \in 0 .. width - 1 |-> "old"]
  BY <1>1 DEF Kept, terminal
<1>3. Fresh = Clean(anchor)
  <2> DEFINE f == [r \in 0 .. Rows |-> IF r < anchor THEN cells[r] ELSE blankRow]
             g == [r \in 0 .. Rows |-> IF r < anchor THEN [c \in 0 .. width - 1 |-> "old"] ELSE blankRow]
  <2>1. f = g
    BY <1>2
  <2>2. Fresh = [cells |-> f, row |-> anchor, col |-> 0]
    BY DEF Fresh
  <2>3. Clean(anchor) = [cells |-> g, row |-> anchor, col |-> 0]
    BY DEF Clean
  <2> QED BY <2>1, <2>2, <2>3
<1>4. Above
  <2>1. \A r \in 0 .. anchor - 1 : r \in 0 .. Rows /\ r < anchor
    BY <1>1
  <2>2. \A r \in 0 .. anchor - 1 : cells[r] = [c \in 0 .. width - 1 |-> "old"]
    BY <1>2, <2>1
  <2>3. ASSUME NEW r \in 0 .. anchor - 1, NEW c \in DOMAIN cells[r] PROVE cells[r][c] = "old"
    <3>1. cells[r] = [i \in 0 .. width - 1 |-> "old"]
      BY <2>2
    <3>2. c \in 0 .. width - 1
      BY <3>1
    <3> QED BY <3>1, <3>2
  <2> QED BY <2>3 DEF Above
<1> QED BY <1>3, <1>4

LEMMA InnerShowsLine == ASSUME Suitable, IInv PROVE ScreenShowsLine
<1> SUFFICES ASSUME mlmode, Fits, pc = "edit"
             PROVE  /\ Above
                    /\ cells = write(Fresh, prompt \o buf).cells
                    /\ <<row, col>> = placeOf(write(Fresh, prompt \o SubSeq(buf, 1, pos)), buf, pos)
  BY DEF ScreenShowsLine
<1>1. Base /\ Laid(anchor, buf, pos, terminal, oldcolpos, maxrows)
  BY DEF IInv, Inner, InMultiLine
<1>2. Fresh = Clean(anchor) /\ Above
  BY <1>1, FreshIsClean
<1>3. terminal.cells = Written(anchor, buf).cells /\ <<terminal.row, terminal.col>> = Place(anchor, buf, pos)
  BY <1>1 DEF Laid
<1>4. terminal.cells = cells /\ terminal.row = row /\ terminal.col = col
  BY DEF terminal
<1>5. cells = write(Fresh, prompt \o buf).cells
  BY <1>2, <1>3, <1>4 DEF Written
<1>6. <<row, col>> = placeOf(write(Fresh, prompt \o SubSeq(buf, 1, pos)), buf, pos)
  BY <1>2, <1>3, <1>4 DEF Written, Place
<1> QED BY <1>2, <1>5, <1>6

LEMMA InnerShowsCursor == ASSUME Suitable, IInv PROVE RowShowsCursor
<1> SUFFICES ASSUME ~mlmode, Fits, pcolwid > 0, pc = "edit"
             PROVE  /\ Above /\ row = anchor /\ col < width
                    /\ \A r \in anchor + 1 .. Rows : cells[r] = blankRow
                    /\ \E from \in 0 .. pos : \E to \in pos .. Len(buf) :
                         LET t == write(Fresh, prompt \o drawn(from, to))
                         IN /\ t.row = anchor
                            /\ col = unicodeColumnPos(prompt \o drawn(from, pos))
                            /\ \A c \in 0 .. width - 2 : cells[anchor][c] = t.cells[anchor][c]
  BY DEF RowShowsCursor
<1>1. Base /\ OnlyRow(anchor, terminal) /\ InRow(anchor, buf, pos, terminal)
  BY DEF IInv, Inner, InSingleLine, Drawn
<1>2. Fresh = Clean(anchor) /\ Above
  BY <1>1, FreshIsClean
<1>3. /\ buf \in Seq(Char) /\ Len(buf) \in Nat /\ pos \in 0 .. Len(buf) /\ Known
      /\ anchor \in 0 .. Rows /\ Rows \in Nat
  BY <1>1, LineFacts
<1>4. terminal.cells = cells /\ terminal.row = row /\ terminal.col = col
  BY DEF terminal
<1>5. PICK from \in 0 .. pos, to \in pos .. Len(buf) : ShowsPart(anchor, buf, pos, terminal, from, to)
  <2>1. \E from \in 0 .. pos : \E to \in pos .. Len(buf) : ShowsPart(anchor, buf, pos, terminal, from, to)
    BY <1>1 DEF InRow
  <2> QED BY <2>1
<1> DEFINE t == write(Fresh, prompt \o drawn(from, to))
<1>6. t = PartWritten(anchor, buf, from, to)
  BY <1>2 DEF PartWritten, Part, drawn
<1>7. /\ t.row = anchor /\ Columns(buf, from, pos) < width /\ col = Columns(buf, from, pos)
      /\ \A c \in 0 .. width - 2 : cells[anchor][c] = t.cells[anchor][c]
  BY <1>4, <1>5, <1>6 DEF ShowsPart, at
<1> HIDE DEF t
<1>8. Columns(buf, from, pos) = unicodeColumnPos(prompt \o drawn(from, pos))
  <2> DEFINE r == Part(buf, from, pos)
  <2>1. r \in Seq(Char) /\ prompt \in Seq(Char)
    <3>1. from \in 0 .. Len(buf) /\ pos \in from .. Len(buf)
      BY <1>3
    <3> QED BY <1>3, <3>1, PartTyped DEF Known
  <2>2. r = drawn(from, pos)
    BY DEF Part, drawn
  <2> HIDE DEF r
  <2>3. unicodeColumnPos(prompt \o r) = unicodeColumnPos(prompt) + unicodeColumnPos(r)
    BY <2>1, SumJoined
  <2> QED BY <2>2, <2>3 DEF Columns, pcolwid, r
<1>9. row = anchor /\ \A r \in anchor + 1 .. Rows : cells[r] = blankRow
  <2>1. \A r \in anchor + 1 .. Rows : r \in 0 .. Rows /\ r > anchor
    BY <1>3
  <2> QED BY <1>1, <1>4, <2>1 DEF OnlyRow
<1> QED BY <1>2, <1>7, <1>8, <1>9 DEF t

LEMMA InnerLeavesRow == ASSUME Suitable, IInv PROVE NextRowFree
<1> SUFFICES ASSUME pc = "done", Fits
             PROVE  col = 0 /\ row > anchor /\ \A r \in row .. Rows : cells[r] = blankRow
  BY DEF NextRowFree
<1>1. Base /\ col = 0 /\ row > anchor /\ \A q \in 0 .. Rows : q >= row => cells[q] = blankRow
  BY DEF IInv, Inner, Finished
<1>2. row \in Nat /\ Rows \in Nat
  BY <1>1, BaseFacts
<1>3. \A r \in row .. Rows : r \in 0 .. Rows /\ r >= row
  BY <1>2
<1> QED BY <1>1, <1>3

LEMMA InnerTyped == ASSUME Suitable, IInv PROVE Fits => TypeOK
<1> SUFFICES ASSUME Fits PROVE TypeOK
  OBVIOUS
<1>1. Base
  BY DEF IInv, Inner
<1>2. /\ row \in Nat /\ col \in 0 .. width /\ Rows \in Nat /\ Known
  BY <1>1, BaseFacts
<1>3. cols \in Nat \ {0} /\ row \in 0 .. Rows
  BY <1>1, <1>2 DEF Known, Base
<1> QED BY <1>1, <1>2, <1>3 DEF Base, TypeOK

(***************************************************************************)
(* The theorems.                                                           *)
(***************************************************************************)

\* The editor's state and the terminal's cursor keep their types: the window
\* that refreshSingleLine() draws is a part of the line, and the cursor is in
\* the terminal.
THEOREM Typed ==
  ASSUME NoneFillsARow, LinesAreSeen, EnoughRows
  PROVE  Spec => [](Fits => TypeOK)
<1>1. IInv => (Fits => TypeOK)
  BY InnerTyped DEF Suitable
<1> QED BY <1>1, Drawing, PTL

\* Multi line mode: what refreshMultiLine() erases, writes and counts leaves the
\* prompt and the line as if they had been written once, and the cursor at its
\* character, after any sequence of edits.
THEOREM ScreensShowLines ==
  ASSUME NoneFillsARow, LinesAreSeen, EnoughRows
  PROVE  Spec => []ScreenShowsLine
<1>1. IInv => ScreenShowsLine
  BY InnerShowsLine DEF Suitable
<1> QED BY <1>1, Drawing, PTL

\* Single line mode: refreshSingleLine() and the insertion that writes one
\* character leave a part of the line in the row, with the cursor at its
\* character.
THEOREM RowsShowCursors ==
  ASSUME NoneFillsARow, LinesAreSeen, EnoughRows
  PROVE  Spec => []RowShowsCursor
<1>1. IInv => RowShowsCursor
  BY InnerShowsCursor DEF Suitable
<1> QED BY <1>1, Drawing, PTL

\* When Enter ends a session, in either mode, the output goes on in an empty
\* row below the whole line, wherever in the line the cursor was.
THEOREM NextRowsAreFree ==
  ASSUME NoneFillsARow, LinesAreSeen, EnoughRows
  PROVE  Spec => []NextRowFree
<1>1. IInv => NextRowFree
  BY InnerLeavesRow DEF Suitable
<1> QED BY <1>1, Drawing, PTL
==============================================================================
