----------------------------- MODULE ErrorTable -----------------------------
(***************************************************************************)
(* The generator of the error table (serene-tblgen/serene/                 *)
(* errors-backend.cpp): createNSBody() walks through the list errorsIndex  *)
(* twice, once for the enumeration of the kinds of error and once for the  *)
(* table of their descriptions, and both leave out what is no Error.       *)
(*                                                                         *)
(* Of a record the generator looks at its name, its class, and whether it  *)
(* has a description and a help text.                                      *)
(***************************************************************************)
EXTENDS Integers, Sequences

CONSTANTS
  Names,      \* names of records
  MaxIndex    \* bound: length of errorsIndex

ASSUME ErrorTableAssumption == MaxIndex \in Nat

VARIABLES
  records,      \* the RecordKeeper, by name
  found,        \* is errorsIndex defined, as a list?
  errorsIndex,  \* the names of its records
  enum,         \* ErrorType: each enumerator's place in the list, from 0
  table,        \* errorVariants' initialisers
  size,         \* NUMBER_OF_ERRORS and the size of errorVariants
  errors,       \* how many errors the generator has reported
  i,            \* the counter of both loops
  pc            \* "start", "enum", "table" or "end"

vars == <<records, found, errorsIndex, enum, table, size, errors, i, pc>>
input == <<records, found, errorsIndex>>

isError(place) == records[errorsIndex[place + 1]].isError

start ==
  /\ pc = "start"
  /\ IF found THEN pc' = "enum" /\ UNCHANGED errors
              ELSE pc' = "end" /\ errors' = errors + 1
  /\ UNCHANGED <<input, enum, table, size, i>>

createErrorClass_All ==
  /\ pc = "enum" /\ i < Len(errorsIndex)
  /\ enum' = Append(enum, i)
  /\ i' = i + 1
  /\ UNCHANGED <<input, table, size, errors, pc>>

\* The first loop: an enumerator for every Error.
createErrorClass ==
  /\ pc = "enum" /\ i < Len(errorsIndex)
  /\ enum' = IF isError(i) THEN Append(enum, i) ELSE enum
  /\ i' = i + 1
  /\ UNCHANGED <<input, table, size, errors, pc>>

numberOfErrors_KeepsCounter ==
  /\ pc = "enum" /\ i = Len(errorsIndex)
  /\ size' = Len(errorsIndex)
  /\ pc' = "table"
  /\ UNCHANGED <<input, enum, table, errors, i>>

\* The size is that of the whole list.
numberOfErrors ==
  /\ pc = "enum" /\ i = Len(errorsIndex)
  /\ size' = Len(errorsIndex)
  /\ i' = 0 /\ pc' = "table"
  /\ UNCHANGED <<input, enum, table, errors>>

\* The last line of a help text is followed by a semicolon, within the
\* parentheses of make().
variant(id, name) ==
  [id |-> id, name |-> name, compiles |-> ~records[name].help]

makeVariant_FromOne ==
  /\ pc = "table" /\ i < Len(errorsIndex)
  /\ IF isError(i)
     THEN /\ table' = Append(table, variant(i + 1, errorsIndex[i + 1]))
          /\ errors' = errors + IF records[errorsIndex[i + 1]].desc THEN 0 ELSE 1
     ELSE UNCHANGED <<table, errors>>
  /\ i' = i + 1
  /\ UNCHANGED <<input, enum, size, pc>>

\* The second loop.  The id is the place in the list.
makeVariant ==
  /\ pc = "table" /\ i < Len(errorsIndex)
  /\ IF isError(i)
     THEN /\ table' = Append(table, variant(i, errorsIndex[i + 1]))
          /\ errors' = errors + IF records[errorsIndex[i + 1]].desc THEN 0 ELSE 1
     ELSE UNCHANGED <<table, errors>>
  /\ i' = i + 1
  /\ UNCHANGED <<input, enum, size, pc>>

finish ==
  /\ pc = "table" /\ i = Len(errorsIndex)
  /\ pc' = "end"
  /\ UNCHANGED <<input, enum, table, size, errors, i>>

Init ==
  /\ records \in [Names -> [isError : BOOLEAN, desc : BOOLEAN, help : BOOLEAN]]
  /\ found \in BOOLEAN
  /\ errorsIndex \in UNION {[1 .. n -> Names] : n \in 0 .. MaxIndex}
  /\ enum = <<>> /\ table = <<>> /\ size = 0 /\ errors = 0
  /\ i = 0 /\ pc = "start"

Next ==
  \/ start \/ createErrorClass \/ numberOfErrors \/ makeVariant \/ finish
  \/ (pc = "end" /\ UNCHANGED vars)

Spec == Init /\ [][Next]_vars

(***************************************************************************)
(* Properties.                                                             *)
(***************************************************************************)

\* The types of the generator's state.
TypeOK ==
  /\ enum \in Seq(Nat) /\ size \in Nat /\ errors \in Nat
  /\ table \in Seq([id : Nat, name : Names, compiles : BOOLEAN])
  /\ i \in 0 .. Len(errorsIndex)
  /\ pc \in {"start", "enum", "table", "end"}

\* No record before this place, and not the one there, is foreign.
onlyErrorsTo(place) == \A p \in 0 .. place : isError(p)

\* The two loops agree: the k-th variant describes the record of the k-th
\* enumerator, whose value is k - 1.  Its id, which is to be that value, is it
\* exactly when no record that is no Error stands before it in the list;
\* otherwise the id is larger, but stays within the table.
VariantsMatchEnumerators ==
  pc = "end" /\ found =>
    /\ Len(table) = Len(enum)
    /\ \A k \in 1 .. Len(enum) :
         /\ table[k].name = errorsIndex[enum[k] + 1]
         /\ table[k].id \in k - 1 .. size - 1
         /\ table[k].id = k - 1 <=> onlyErrorsTo(k - 1)
=============================================================================
