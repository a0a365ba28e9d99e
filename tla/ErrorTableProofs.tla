-------------------------- MODULE ErrorTableProofs --------------------------
(***************************************************************************)
(* The two loops of the error table's generator agree, for every list.     *)
(***************************************************************************)
EXTENDS ErrorTable, TLAPS

InputOK ==
  /\ records \in [Names -> [isError : BOOLEAN, desc : BOOLEAN, help : BOOLEAN]]
  /\ errorsIndex \in Seq(Names)

\* The enumerators of the list's first b records: all Errors and only Errors,
\* in order; the k-th is the (k - 1)st record as long as all are Errors.
Enumerates(b) ==
  /\ Len(enum) <= b
  /\ \A k \in 1 .. Len(enum) :
       /\ enum[k] \in k - 1 .. b - 1
       /\ isError(enum[k])
       /\ enum[k] = k - 1 <=> onlyErrorsTo(k - 1)
  /\ \A j, k \in 1 .. Len(enum) : j < k => enum[j] < enum[k]
  /\ \A p \in 0 .. b - 1 : isError(p) => \E k \in 1 .. Len(enum) : enum[k] = p
  /\ Len(enum) = b => \A p \in 0 .. b - 1 : isError(p)
  /\ \A m \in 0 .. b : (\A p \in 0 .. m - 1 : isError(p)) => m <= Len(enum)

\* The table holds the variants of the enumerators that come before record b.
Follows(b) ==
  /\ Len(table) <= Len(enum)
  /\ \A k \in 1 .. Len(table) :
       enum[k] < b /\ table[k].id = enum[k] /\ table[k].name = errorsIndex[enum[k] + 1]
  /\ \A k \in Len(table) + 1 .. Len(enum) : b <= enum[k]

IInv ==
  /\ InputOK /\ TypeOK
  /\ pc = "start" => i = 0 /\ enum = <<>> /\ table = <<>>
  /\ pc = "enum"  => Enumerates(i) /\ table = <<>>
  /\ pc = "table" => Enumerates(Len(errorsIndex)) /\ Follows(i) /\ size = Len(errorsIndex)
  /\ pc = "end" /\ found =>
       Enumerates(Len(errorsIndex)) /\ Follows(Len(errorsIndex)) /\ size = Len(errorsIndex)

LEMMA InitIInv == Init => IInv
<1> SUFFICES ASSUME Init PROVE IInv
  OBVIOUS
<1>1. PICK n \in 0 .. MaxIndex : errorsIndex \in [1 .. n -> Names]
  BY DEF Init
<1>2. errorsIndex \in Seq(Names)
  BY <1>1, ErrorTableAssumption
<1> QED
  BY <1>2 DEF Init, IInv, InputOK, TypeOK

LEMMA StartIInv == ASSUME IInv, start PROVE IInv'
<1>1. ASSUME pc' = "enum" PROVE Enumerates(i)'
  BY <1>1 DEF start, IInv, TypeOK, Enumerates, input
<1>2. InputOK' /\ TypeOK'
  BY DEF start, IInv, InputOK, TypeOK, input
<1> QED
  BY <1>1, <1>2 DEF start, IInv, input

\* The record at the counter, an Error or not, is added to what is enumerated.
LEMMA EnumIInv == ASSUME IInv, createErrorClass PROVE IInv'
<1> USE DEF createErrorClass, input
<1>1. InputOK /\ TypeOK /\ Enumerates(i) /\ table = <<>>
  BY DEF IInv
<1>2. i' = i + 1 /\ i \in Nat /\ i < Len(errorsIndex) /\ Len(errorsIndex) \in Nat
  BY <1>1 DEF TypeOK, InputOK
<1>3. \A p : isError(p)' = isError(p)
  BY DEF isError
<1>4. InputOK' /\ TypeOK'
  BY <1>1, <1>2 DEF InputOK, TypeOK
<1>5. CASE ~isError(i)
  <2>1. enum' = enum
    BY <1>5
  <2>2. Len(enum) # i + 1
    BY <1>1, <1>2 DEF Enumerates, TypeOK
  <2>3. \A k \in 1 .. Len(enum) : onlyErrorsTo(k - 1)' = onlyErrorsTo(k - 1)
    BY <1>3 DEF onlyErrorsTo
  <2>4. \A p \in 0 .. i : isError(p) => \E k \in 1 .. Len(enum) : enum[k] = p
    BY <1>1, <1>2, <1>5 DEF Enumerates
  <2>5. \A m \in 0 .. i + 1 : (\A p \in 0 .. m - 1 : isError(p)) => m <= Len(enum)
    BY <1>1, <1>2, <1>5 DEF Enumerates
  <2>6. Enumerates(i)'
    BY <1>1, <1>2, <1>3, <2>1, <2>2, <2>3, <2>4, <2>5 DEF Enumerates, TypeOK
  <2> QED
    BY <1>1, <1>2, <1>4, <2>6 DEF IInv
<1>6. CASE isError(i)
  <2> DEFINE n == Len(enum) + 1
  <2>1. enum' = Append(enum, i) /\ Len(enum) \in Nat /\ Len(enum') = n
        /\ enum'[n] = i /\ \A k \in 1 .. Len(enum) : enum'[k] = enum[k]
    BY <1>1, <1>2, <1>6 DEF TypeOK
  <2>2. n <= i + 1
    BY <1>1, <1>2, <2>1 DEF Enumerates
  <2>3. \A k \in 1 .. n : onlyErrorsTo(k - 1)' = onlyErrorsTo(k - 1)
    BY <1>3 DEF onlyErrorsTo
  <2>4. i = n - 1 <=> onlyErrorsTo(n - 1)
    <3>1. ASSUME i = n - 1 PROVE onlyErrorsTo(n - 1)
      BY <1>1, <1>2, <1>6, <2>1, <3>1 DEF Enumerates, onlyErrorsTo
    <3>2. ASSUME onlyErrorsTo(n - 1), n <= i PROVE FALSE
      <4>1. n \in 0 .. i /\ \A p \in 0 .. n - 1 : isError(p)
        BY <1>2, <2>1, <3>2 DEF onlyErrorsTo
      <4> QED
        BY <1>1, <2>1, <4>1 DEF Enumerates
    <3> QED
      BY <1>2, <2>1, <2>2, <3>1, <3>2
  <2>5. \A k \in 1 .. n :
          /\ enum'[k] \in k - 1 .. i
          /\ isError(enum'[k])
          /\ enum'[k] = k - 1 <=> onlyErrorsTo(k - 1)
    <3> SUFFICES ASSUME NEW k \in 1 .. n
                 PROVE  /\ enum'[k] \in k - 1 .. i
                        /\ isError(enum'[k])
                        /\ enum'[k] = k - 1 <=> onlyErrorsTo(k - 1)
      OBVIOUS
    <3>1. CASE k = n
      BY <1>2, <1>6, <2>1, <2>2, <2>4, <3>1
    <3>2. CASE k \in 1 .. Len(enum)
      BY <1>1, <1>2, <2>1, <3>2 DEF Enumerates
    <3> QED
      BY <2>1, <3>1, <3>2
  <2>6. \A j, k \in 1 .. n : j < k => enum'[j] < enum'[k]
    <3> SUFFICES ASSUME NEW j \in 1 .. n, NEW k \in 1 .. n, j < k
                 PROVE  enum'[j] < enum'[k]
      OBVIOUS
    <3>1. j \in 1 .. Len(enum)
      BY <2>1
    <3>2. CASE k = n
      BY <1>1, <1>2, <2>1, <3>1, <3>2 DEF Enumerates
    <3>3. CASE k \in 1 .. Len(enum)
      BY <1>1, <2>1, <3>1, <3>3 DEF Enumerates
    <3> QED
      BY <2>1, <3>2, <3>3
  <2>7. \A p \in 0 .. i : isError(p) => \E k \in 1 .. n : enum'[k] = p
    <3> SUFFICES ASSUME NEW p \in 0 .. i, isError(p) PROVE \E k \in 1 .. n : enum'[k] = p
      OBVIOUS
    <3>1. CASE p = i
      BY <2>1, <3>1
    <3>2. CASE p \in 0 .. i - 1
      <4>1. PICK k \in 1 .. Len(enum) : enum[k] = p
        BY <1>1, <3>2 DEF Enumerates
      <4> QED
        BY <2>1, <4>1
    <3> QED
      BY <1>2, <3>1, <3>2
  <2>8. n = i + 1 => \A p \in 0 .. i : isError(p)
    BY <1>1, <1>2, <1>6, <2>1 DEF Enumerates
  <2>9. \A m \in 0 .. i + 1 : (\A p \in 0 .. m - 1 : isError(p)) => m <= n
    <3> SUFFICES ASSUME NEW m \in 0 .. i + 1, \A p \in 0 .. m - 1 : isError(p)
                 PROVE  m <= n
      OBVIOUS
    <3>1. CASE m \in 0 .. i
      BY <1>1, <2>1, <3>1 DEF Enumerates
    <3>2. CASE m = i + 1
      <4>1. \A p \in 0 .. i - 1 : isError(p)
        BY <1>2, <3>2
      <4> QED
        BY <1>1, <1>2, <2>1, <3>2, <4>1 DEF Enumerates
    <3> QED
      BY <1>2, <3>1, <3>2
  <2>10. Enumerates(i)'
    BY <1>2, <1>3, <2>1, <2>2, <2>3, <2>5, <2>6, <2>7, <2>8, <2>9 DEF Enumerates
  <2> QED
    BY <1>1, <1>2, <1>4, <2>10 DEF IInv
<1> QED
  BY <1>5, <1>6

LEMMA BetweenIInv == ASSUME IInv, numberOfErrors PROVE IInv'
<1> USE DEF numberOfErrors, input
<1>1. InputOK /\ TypeOK /\ Enumerates(Len(errorsIndex)) /\ table = <<>>
  BY DEF IInv
<1>2. InputOK' /\ TypeOK'
  BY <1>1 DEF InputOK, TypeOK
<1>3. Enumerates(Len(errorsIndex))'
  BY <1>1 DEF Enumerates, isError, onlyErrorsTo
<1>4. Follows(0)'
  BY <1>1 DEF Follows, Enumerates, TypeOK, InputOK
<1> QED
  BY <1>2, <1>3, <1>4 DEF IInv

\* The record at the counter, if an Error, is that of the next enumerator.
LEMMA TableIInv == ASSUME IInv, makeVariant PROVE IInv'
<1> USE DEF makeVariant, input
<1>1. InputOK /\ TypeOK /\ Enumerates(Len(errorsIndex)) /\ Follows(i)
      /\ size = Len(errorsIndex) /\ pc = "table"
  BY DEF IInv
<1>2. i' = i + 1 /\ i \in Nat /\ i < Len(errorsIndex) /\ Len(errorsIndex) \in Nat
      /\ Len(enum) \in Nat /\ Len(table) \in Nat /\ \A k \in 1 .. Len(enum) : enum[k] \in Nat
  BY <1>1 DEF TypeOK, InputOK
<1>3. Enumerates(Len(errorsIndex))'
  BY <1>1 DEF Enumerates, isError, onlyErrorsTo
<1>4. CASE ~isError(i)
  <2>1. UNCHANGED table /\ TypeOK'
    BY <1>1, <1>2, <1>4 DEF TypeOK
  <2>2. \A k \in Len(table) + 1 .. Len(enum) : enum[k] # i
    BY <1>1, <1>2, <1>4 DEF Enumerates
  <2>3. \A k \in Len(table) + 1 .. Len(enum) : i + 1 <= enum[k]
    BY <1>1, <1>2, <2>2 DEF Follows
  <2>4. \A k \in 1 .. Len(table) : enum[k] < i + 1
    BY <1>1, <1>2 DEF Follows
  <2>5. Follows(i)'
    BY <1>1, <1>2, <2>1, <2>3, <2>4 DEF Follows
  <2> QED
    BY <1>1, <1>3, <2>1, <2>5 DEF IInv, InputOK
<1>5. CASE isError(i)
  <2> DEFINE n == Len(table) + 1
             v == variant(i, errorsIndex[i + 1])
  <2>1. v \in [id : Nat, name : Names, compiles : BOOLEAN]
        /\ v.id = i /\ v.name = errorsIndex[i + 1]
    BY <1>1, <1>2 DEF variant, InputOK
  <2>2. table' = Append(table, v) /\ Len(table') = n /\ table'[n] = v
        /\ \A k \in 1 .. Len(table) : table'[k] = table[k]
    <3>1. table' = Append(table, v)
      BY <1>5
    <3>2. table \in Seq([id : Nat, name : Names, compiles : BOOLEAN])
      BY <1>1 DEF TypeOK
    <3> HIDE DEF v
    <3> QED
      BY <2>1, <3>1, <3>2
  <2>3. TypeOK'
    <3>1. table' \in Seq([id : Nat, name : Names, compiles : BOOLEAN])
      BY <1>1, <2>1, <2>2 DEF TypeOK
    <3>2. errors' \in Nat
      BY <1>1, <1>5 DEF TypeOK
    <3> QED
      BY <1>1, <1>2, <3>1, <3>2 DEF TypeOK
  <2>4. PICK k \in 1 .. Len(enum) : enum[k] = i
    BY <1>1, <1>2, <1>5 DEF Enumerates
  <2>5. k >= n
    BY <1>1, <1>2, <2>4 DEF Follows
  <2>6. k = n
    <3>1. ASSUME n < k PROVE FALSE
      <4>1. n \in 1 .. Len(enum) /\ enum[n] < enum[k] /\ i <= enum[n]
        BY <1>1, <1>2, <2>4, <3>1 DEF Enumerates, Follows
      <4> QED
        BY <1>2, <2>4, <4>1
    <3> QED
      BY <1>2, <2>5, <3>1
  <2>7. n <= Len(enum) /\ enum[n] = i
    BY <2>4, <2>6
  <2>8. \A j \in n + 1 .. Len(enum) : i + 1 <= enum[j]
    BY <1>1, <1>2, <2>7 DEF Enumerates
  <2>9. \A j \in 1 .. n : enum[j] < i + 1 /\ table'[j].id = enum[j]
                            /\ table'[j].name = errorsIndex[enum[j] + 1]
    <3> SUFFICES ASSUME NEW j \in 1 .. n
                 PROVE  enum[j] < i + 1 /\ table'[j].id = enum[j]
                          /\ table'[j].name = errorsIndex[enum[j] + 1]
      OBVIOUS
    <3>1. CASE j = n
      BY <1>2, <2>1, <2>2, <2>7, <3>1
    <3>2. CASE j \in 1 .. Len(table)
      <4>1. enum[j] < i /\ enum[j] \in Nat
        BY <1>1, <1>2, <3>2 DEF Follows
      <4> QED
        BY <1>1, <1>2, <2>2, <3>2, <4>1 DEF Follows
    <3> QED
      BY <1>2, <3>1, <3>2
  <2>10. Follows(i)'
    BY <1>2, <2>2, <2>7, <2>8, <2>9 DEF Follows
  <2> QED
    BY <1>1, <1>3, <2>3, <2>10 DEF IInv, InputOK
<1> QED
  BY <1>4, <1>5

LEMMA FinishIInv == ASSUME IInv, finish PROVE IInv'
  BY DEF finish, input, IInv, InputOK, TypeOK, Enumerates, Follows, isError, onlyErrorsTo

LEMMA NextIInv == ASSUME IInv, [Next]_vars PROVE IInv'
<1>1. CASE UNCHANGED vars
  BY <1>1 DEF vars, IInv, InputOK, TypeOK, Enumerates, Follows, isError, onlyErrorsTo
<1> QED
  BY <1>1, StartIInv, EnumIInv, BetweenIInv, TableIInv, FinishIInv DEF Next

LEMMA Invariance == Spec => []IInv
  BY InitIInv, NextIInv, PTL DEF Spec

\* The types of the generator's state (createNSBody), for every list.
THEOREM TypeCorrect == Spec => []TypeOK
<1>1. IInv => TypeOK
  BY DEF IInv
<1> QED
  BY Invariance, <1>1, PTL

\* For every list of records the table describes the enumerators in their
\* order, and the id that a variant is made with is its enumerator's value
\* exactly as long as nothing foreign stands before it (createErrorClass,
\* createNSBody).
THEOREM LoopsAgree == Spec => []VariantsMatchEnumerators
<1>1. ASSUME IInv PROVE VariantsMatchEnumerators
  <2> SUFFICES ASSUME pc = "end", found
               PROVE  /\ Len(table) = Len(enum)
                      /\ \A k \in 1 .. Len(enum) :
                           /\ table[k].name = errorsIndex[enum[k] + 1]
                           /\ table[k].id \in k - 1 .. size - 1
                           /\ table[k].id = k - 1 <=> onlyErrorsTo(k - 1)
    BY DEF VariantsMatchEnumerators
  <2>1. Enumerates(Len(errorsIndex)) /\ Follows(Len(errorsIndex))
        /\ size = Len(errorsIndex)
    BY <1>1 DEF IInv
  <2>2. Len(enum) \in Nat /\ Len(table) \in Nat /\ Len(errorsIndex) \in Nat
    BY <1>1 DEF IInv, TypeOK, InputOK
  <2>3. Len(table) = Len(enum)
    BY <2>1, <2>2 DEF Enumerates, Follows
  <2> QED
    BY <2>1, <2>2, <2>3 DEF Enumerates, Follows
<1> QED
  BY Invariance, <1>1, PTL
=============================================================================
