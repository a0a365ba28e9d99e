-------------------------- MODULE LineIndexProofs ---------------------------
(***************************************************************************)
(* The line index finds the lines: for every text, every line number and   *)
(* every choice of the element types whose widest one holds the size of    *)
(* the text, as size_t and uint64_t do.                                    *)
(***************************************************************************)
EXTENDS LineIndex, FiniteSetTheorems, WellFoundedInduction, TLAPS

(***************************************************************************)
(* Induction up to a number, from the least one that is left out.          *)
(***************************************************************************)
LEMMA LeastElement ==
  ASSUME NEW T \in SUBSET Nat, T # {}
  PROVE  \E x \in T : \A y \in T : x <= y
<1> DEFINE Less == {ss \in Nat \X Nat : ss[1] < ss[2]}
<1>1. IsWellFoundedOn(Less, Nat)
  BY NatLessThanWellFounded, Zenon DEF OpToRel
<1>2. PICK x \in T : \A y \in T : ~ (<<y, x>> \in Less)
  <2> HIDE DEF Less
  <2> QED BY <1>1, WFMin
<1>3. ASSUME NEW y \in T, y < x PROVE FALSE
  <2>1. <<y, x>> \in Less
    BY <1>3
  <2> QED BY <1>2, <2>1
<1> QED BY <1>3

LEMMA UpTo ==
  ASSUME NEW N \in Nat, NEW S, 0 \in S, \A n \in 1 .. N : n - 1 \in S => n \in S
  PROVE  \A n \in 0 .. N : n \in S
<1> DEFINE T == {n \in 0 .. N : n \notin S}
<1> SUFFICES ASSUME T # {} PROVE FALSE
  OBVIOUS
<1>1. PICK n \in T : \A m \in T : n <= m
  <2>1. T \in SUBSET Nat
    OBVIOUS
  <2> HIDE DEF T
  <2> QED BY <2>1, LeastElement
<1>2. n \in 1 .. N /\ n - 1 \in 0 .. N /\ n - 1 \notin T
  BY <1>1
<1> QED BY <1>1, <1>2

(***************************************************************************)
(* The element type: the first that fits, or the last.                     *)
(***************************************************************************)
LEMMA ElementTypeHolds ==
  ASSUME NEW text, Len(text) \in Nat, fits(text, Len(Widths))
  PROVE  elementType(text) \in Nat /\ Len(text) < elementType(text)
<1> DEFINE N == Len(Widths)
           T == {k \in 1 .. N : fits(text, k) \/ k = N}
           Selects(k) == (fits(text, k) \/ k = N) /\ \A j \in 1 .. k - 1 : ~ fits(text, j)
<1>1. N \in Nat /\ N > 0 /\ DOMAIN Widths = 1 .. N /\ \A k \in 1 .. N : Widths[k] \in Nat
  BY WidthsAssumption
<1>2. PICK k \in T : \A j \in T : k <= j
  <2>1. T \in SUBSET Nat /\ N \in T
    BY <1>1
  <2> HIDE DEF T
  <2> QED BY <2>1, LeastElement
<1> HIDE DEF N
<1>3. k \in 1 .. N /\ Selects(k)
  BY <1>1, <1>2
<1> DEFINE chosen == CHOOSE j \in DOMAIN Widths : Selects(j)
<1>4. chosen \in 1 .. N /\ Selects(chosen)
  <2> HIDE DEF Selects
  <2> QED BY <1>1, <1>3
<1>5. elementType(text) = Widths[chosen]
  BY DEF elementType, N
<1> HIDE DEF chosen
<1>6. fits(text, chosen)
  BY <1>4 DEF N
<1> QED BY <1>1, <1>4, <1>5, <1>6 DEF fits

(***************************************************************************)
(* Counting newlines.                                                      *)
(***************************************************************************)
Newlines(text, p) == {q \in 1 .. p : text[q] = "newline"}

Count(text, p) == Cardinality(Newlines(text, p))

LEMMA CountType ==
  ASSUME NEW text, NEW p \in Nat
  PROVE  IsFiniteSet(Newlines(text, p)) /\ Count(text, p) \in Nat
<1>1. IsFiniteSet(1 .. p)
  BY FS_Interval
<1>2. Newlines(text, p) \in SUBSET (1 .. p)
  BY DEF Newlines
<1>3. IsFiniteSet(Newlines(text, p))
  BY <1>1, <1>2, FS_Subset
<1> QED BY <1>3, FS_CardinalityType DEF Count

LEMMA CountNone == ASSUME NEW text PROVE Count(text, 0) = 0
<1>1. Newlines(text, 0) = {}
  BY DEF Newlines
<1> QED BY <1>1, FS_EmptySet DEF Count

LEMMA CountStep ==
  ASSUME NEW text, NEW p \in Nat \ {0}
  PROVE  Count(text, p) = IF text[p] = "newline" THEN Count(text, p - 1) + 1 ELSE Count(text, p - 1)
<1>1. Newlines(text, p) = IF text[p] = "newline" THEN Newlines(text, p - 1) \cup {p}
                          ELSE Newlines(text, p - 1)
  BY DEF Newlines
<1>2. p - 1 \in Nat /\ p \notin Newlines(text, p - 1)
  BY DEF Newlines
<1>3. IsFiniteSet(Newlines(text, p - 1))
  BY <1>2, CountType
<1> QED BY <1>1, <1>2, <1>3, FS_AddElement DEF Count

LEMMA CountGrows ==
  ASSUME NEW text, NEW q \in Nat, NEW p \in 0 .. q
  PROVE  Count(text, p) <= Count(text, q)
<1>1. Newlines(text, p) \in SUBSET Newlines(text, q)
  BY DEF Newlines
<1>2. IsFiniteSet(Newlines(text, q))
  BY CountType
<1> QED BY <1>1, <1>2, FS_Subset DEF Count

(***************************************************************************)
(* What GetOrCreateOffsetCache's loop has found after n characters.        *)
(***************************************************************************)
Finds(text, T, n, f) ==
  f = [m \in 0 .. n |->
         IF m = 0 THEN <<>>
         ELSE IF text[m] = "newline" THEN Append(f[m - 1], (m - 1) % T)
         ELSE f[m - 1]]

Indexed(text, n, o) ==
  /\ o \in Seq(Nat)
  /\ Len(o) = Count(text, n)
  /\ \A k \in 1 .. Len(o) :
       o[k] + 1 \in 1 .. n /\ text[o[k] + 1] = "newline" /\ Count(text, o[k] + 1) = k

LEMMA LoopEnds ==
  ASSUME NEW text, NEW T, NEW N \in Nat
  PROVE  \E f : Finds(text, T, N, f)
<1> DEFINE S == {n \in 0 .. N : \E f : Finds(text, T, n, f)}
<1>1. 0 \in S
  <2>1. Finds(text, T, 0, [m \in 0 .. 0 |-> <<>>])
    BY DEF Finds
  <2> QED BY <2>1
<1>2. ASSUME NEW n \in 1 .. N, n - 1 \in S PROVE n \in S
  <2>1. PICK f : Finds(text, T, n - 1, f)
    BY <1>2
  <2> DEFINE last == IF text[n] = "newline" THEN Append(f[n - 1], (n - 1) % T) ELSE f[n - 1]
             g == [m \in 0 .. n |-> IF m = n THEN last ELSE f[m]]
  <2>2. g[0] = f[0] /\ f[0] = <<>>
    BY <2>1 DEF Finds
  <2>3. ASSUME NEW m \in 1 .. n - 1
        PROVE  g[m] = IF text[m] = "newline" THEN Append(g[m - 1], (m - 1) % T) ELSE g[m - 1]
    <3>1. g[m] = f[m] /\ g[m - 1] = f[m - 1] /\ m \in 0 .. n - 1 /\ m # 0
      BY <2>3
    <3> HIDE DEF g
    <3> QED BY <2>1, <3>1 DEF Finds
  <2>4. g[n] = last /\ g[n - 1] = f[n - 1]
    BY <1>2
  <2>5. g = [m \in 0 .. n |-> g[m]]
    OBVIOUS
  <2> HIDE DEF g
  <2>6. \A m \in 0 .. n : g[m] = IF m = 0 THEN <<>>
                                 ELSE IF text[m] = "newline" THEN Append(g[m - 1], (m - 1) % T)
                                 ELSE g[m - 1]
    BY <2>2, <2>3, <2>4
  <2>7. Finds(text, T, n, g)
    BY <2>5, <2>6 DEF Finds
  <2> QED BY <2>7
<1> HIDE DEF S
<1>3. N \in S
  BY <1>1, <1>2, UpTo
<1> QED BY <1>3 DEF S

LEMMA LoopIndexes ==
  ASSUME NEW text, NEW N \in Nat, NEW T \in Nat, N < T, NEW f, Finds(text, T, N, f)
  PROVE  \A n \in 0 .. N : Indexed(text, n, f[n])
<1> DEFINE S == {n \in 0 .. N : Indexed(text, n, f[n])}
<1>1. 0 \in S
  <2>1. f[0] = <<>>
    BY DEF Finds
  <2>2. <<>> \in Seq(Nat) /\ Len(<<>>) = 0 /\ \A k \in 1 .. 0 : FALSE
    OBVIOUS
  <2>3. Indexed(text, 0, <<>>)
    BY <2>2, CountNone DEF Indexed
  <2> QED BY <2>1, <2>3
<1>2. ASSUME NEW n \in 1 .. N, n - 1 \in S PROVE n \in S
  <2> DEFINE o == f[n - 1]
  <2>1. f[n] = IF text[n] = "newline" THEN Append(o, (n - 1) % T) ELSE o
    <3>1. n \in 0 .. N /\ n # 0
      OBVIOUS
    <3> QED BY <3>1 DEF Finds
  <2>2. Indexed(text, n - 1, o)
    BY <1>2
  <2>3. (n - 1) % T = n - 1
    BY <1>2
  <2>4. Count(text, n) = IF text[n] = "newline" THEN Count(text, n - 1) + 1 ELSE Count(text, n - 1)
    BY CountStep
  <2> HIDE DEF o
  <2>5. CASE text[n] = "newline"
    <3>1. /\ o \in Seq(Nat) /\ Append(o, n - 1) \in Seq(Nat)
          /\ Len(Append(o, n - 1)) = Len(o) + 1
          /\ Append(o, n - 1)[Len(o) + 1] = n - 1
          /\ \A k \in 1 .. Len(o) : Append(o, n - 1)[k] = o[k]
      BY <2>2 DEF Indexed
    <3>2. Len(o) = Count(text, n - 1) /\ Count(text, n) = Len(o) + 1
      BY <2>2, <2>4, <2>5 DEF Indexed
    <3>3. ASSUME NEW k \in 1 .. Len(o) + 1
          PROVE  LET x == Append(o, n - 1)[k]
                 IN x + 1 \in 1 .. n /\ text[x + 1] = "newline" /\ Count(text, x + 1) = k
      <4>1. CASE k = Len(o) + 1
        BY <2>5, <3>1, <3>2, <4>1
      <4>2. CASE k \in 1 .. Len(o)
        BY <2>2, <3>1, <4>2 DEF Indexed
      <4> QED BY <3>1, <4>1, <4>2
    <3>4. Indexed(text, n, Append(o, n - 1))
      BY <3>1, <3>2, <3>3 DEF Indexed
    <3>5. f[n] = Append(o, n - 1)
      BY <2>1, <2>3, <2>5
    <3>6. Indexed(text, n, f[n])
      BY <3>4, <3>5, Zenon
    <3> QED BY <3>6
  <2>6. CASE text[n] # "newline"
    BY <2>1, <2>2, <2>4, <2>6 DEF Indexed
  <2> QED BY <2>5, <2>6
<1> HIDE DEF S
<1>3. \A n \in 0 .. N : n \in S
  BY <1>1, <1>2, UpTo
<1> QED BY <1>3 DEF S

LEMMA OffsetsIndexed ==
  ASSUME NEW text, Len(text) \in Nat, NEW T \in Nat, Len(text) < T
  PROVE  Indexed(text, Len(text), newlineOffsets(text, T))
<1> DEFINE found == CHOOSE f : Finds(text, T, Len(text), f)
<1>1. Finds(text, T, Len(text), found)
  BY LoopEnds, Zenon
<1>2. newlineOffsets(text, T) = found[Len(text)]
  BY DEF newlineOffsets, Finds
<1> HIDE DEF found
<1> QED BY <1>1, <1>2, LoopIndexes

(***************************************************************************)
(* getPointerForLineNumber, with a fresh index, answers for every line     *)
(* from 1 on with its first character, and with null past the last line.   *)
(***************************************************************************)
THEOREM LineIndexFindsLines ==
  ASSUME NEW text, Len(text) \in Nat, fits(text, Len(Widths)), NEW lineNo \in Nat \ {0}
  PROVE  StartsLine(text, lineNo, lineStart(newlineOffsets(text, elementType(text)), lineNo))
<1> DEFINE N == Len(text)
           o == newlineOffsets(text, elementType(text))
           p == lineStart(o, lineNo)
<1>1. Indexed(text, N, o)
  BY ElementTypeHolds, OffsetsIndexed
<1>2. \A q \in 0 .. N : q \in Line(text, lineNo) <=> Count(text, q) = lineNo - 1
  BY DEF Line, Count, Newlines
<1>3. \A q \in Line(text, lineNo) : q \in 0 .. N
  BY DEF Line
<1>4. Len(o) = Count(text, N) /\ Len(o) \in Nat /\ N \in Nat
  BY <1>1, CountType DEF Indexed
<1> SUFFICES StartsLine(text, lineNo, p)
  OBVIOUS
<1> HIDE DEF N, o
<1>5. CASE lineNo = 1
  <2>1. p = 0
    BY <1>5 DEF lineStart
  <2>2. 0 \in Line(text, lineNo)
    BY <1>2, <1>4, <1>5, CountNone
  <2> QED BY <1>3, <2>1, <2>2 DEF StartsLine
<1>6. CASE lineNo > 1 /\ lineNo - 1 > Len(o)
  <2>1. p = Null
    BY <1>6 DEF lineStart
  <2>2. ASSUME NEW q \in Line(text, lineNo) PROVE FALSE
    <3>1. q \in 0 .. N /\ Count(text, q) = lineNo - 1
      BY <1>2, <1>3
    <3>2. Count(text, q) <= Count(text, N)
      BY <1>4, <3>1, CountGrows
    <3> QED BY <1>4, <1>6, <3>1, <3>2
  <2> QED BY <2>1, <2>2 DEF StartsLine
<1>7. CASE lineNo > 1 /\ lineNo - 1 <= Len(o)
  <2> DEFINE k == lineNo - 1
             s == o[k] + 1
  <2>1. p = s
    BY <1>4, <1>7 DEF lineStart
  <2>2. k \in 1 .. Len(o)
    BY <1>4, <1>7
  <2>3. s \in 1 .. N /\ text[s] = "newline" /\ Count(text, s) = k
    BY <1>1, <2>2 DEF Indexed
  <2> HIDE DEF s
  <2>4. s \in Line(text, lineNo)
    BY <1>2, <1>4, <2>3
  <2>5. ASSUME NEW q \in Line(text, lineNo), q < s PROVE FALSE
    <3>1. q \in 0 .. N /\ Count(text, q) = k
      BY <1>2, <1>3
    <3>2. q \in 0 .. s - 1 /\ s - 1 \in Nat /\ s \in Nat \ {0}
      BY <1>4, <2>3, <2>5, <3>1
    <3>3. Count(text, q) <= Count(text, s - 1)
      BY <3>2, CountGrows
    <3>4. Count(text, s) = Count(text, s - 1) + 1 /\ Count(text, s - 1) \in Nat
      BY <2>3, <3>2, CountStep, CountType
    <3> QED BY <2>2, <2>3, <3>1, <3>3, <3>4
  <2>6. \A q \in Line(text, lineNo) : s <= q
    BY <1>3, <1>4, <2>3, <2>5
  <2> QED BY <2>1, <2>4, <2>6 DEF StartsLine
<1> QED BY <1>4, <1>5, <1>6, <1>7
=============================================================================
