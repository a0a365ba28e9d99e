----------------------------- MODULE JitProofs ------------------------------
(***************************************************************************)
(* The object cache of the JIT and its table of dylibs, for all modules,   *)
(* identifiers and options.                                                *)
(***************************************************************************)
EXTENDS Jit, TLAPS

(***************************************************************************)
(* Types.                                                                  *)
(***************************************************************************)

\* The record that createEngine() builds from the options.
LEMMA EngineType ==
  ASSUME NEW o \in Options, NEW level \in 0 .. 3,
         NEW ls \in SUBSET {"gdb", "perf"}
  PROVE  [lazy |-> o.lazy, listeners |-> ls, claims |-> o.coff,
          level |-> level, cache |-> o.objectCache] \in Engines
<1> o.lazy \in BOOLEAN /\ o.coff \in BOOLEAN /\ o.objectCache \in BOOLEAN
  BY Zenon DEF Options
<1> QED
  BY Zenon DEF Engines

ObjectTypes ==
  /\ heap \in Seq(Modules) /\ freed \subseteq 1 .. Len(heap)
  /\ cachedObjects \in [Identifiers -> 0 .. Len(heap)]
  /\ linking \in Seq([module : Modules, buffer : 0 .. Len(heap)])
  /\ linked \subseteq Modules \X Modules /\ compiled \subseteq Modules

DylibTypes == jitDylibs \in [NSNames -> Seq(Nat)] /\ newest \in [NSNames -> Nat]

MakingTypes ==
  /\ pc \in {"none", "engine", "processJD", "ready", "dead"}
  /\ options \in OptionSets
  /\ engine \in Engines \cup {None}
  /\ processJD \in {"none", "created", "searching"} /\ reported \in BOOLEAN

FileTypes == outFile \in Modules \cup {None}

LEMMA NoObjectsTypes == ASSUME noObjects PROVE ObjectTypes'
  BY DEF noObjects, ObjectTypes, Identifiers

\* Every step keeps the types of what make() works on.
LEMMA MakingStep == ASSUME MakingTypes, [Next]_vars PROVE MakingTypes'
<1> DEFINE Same == UNCHANGED <<options, making>>
<1>1. ASSUME Same, pc' \in {"none", "engine", "processJD", "ready", "dead"}
      PROVE  MakingTypes'
  BY <1>1 DEF MakingTypes, making
<1>2. CASE makeJIT
  BY <1>2, Zenon DEF makeJIT, MakingTypes
<1>3. CASE noDataLayout
  BY <1>3, Zenon DEF noDataLayout, fail, MakingTypes
<1>4. CASE createEngine
  <2> options \in Options
    BY JitAssumption DEF MakingTypes
  <2> listeners \in SUBSET {"gdb", "perf"}
    BY DEF listeners
  <2> getOptimizatioLevel \in 0 .. 3
    BY DEF getOptimizatioLevel
  <2>1. engine' \in Engines
    BY <1>4, EngineType, Zenon DEF createEngine
  <2> QED
    BY <1>4, <2>1, Zenon DEF createEngine, MakingTypes
<1>5. CASE engineFails
  BY <1>1, <1>5 DEF engineFails
<1>6. CASE createCurrentProcessJD
  BY <1>6, Zenon DEF createCurrentProcessJD, MakingTypes
<1>7. CASE processJDFails
  BY <1>7, Zenon DEF processJDFails, fail, MakingTypes
<1>8. ASSUME NEW m \in Modules, compile(m) PROVE MakingTypes'
  <2> Same /\ pc' = pc
    BY <1>8, Zenon DEF compile
  <2> QED
    BY <1>1, Zenon DEF MakingTypes
<1>9. CASE link
  BY <1>9, Zenon DEF link, MakingTypes, making
<1>10. CASE dumpToObjectFile
  BY <1>10, Zenon DEF dumpToObjectFile, MakingTypes, making
<1>11. CASE dumpToObjectFileDies
  BY <1>1, <1>11 DEF dumpToObjectFileDies
<1>12. ASSUME NEW n \in NSNames, push(n) PROVE MakingTypes'
  BY <1>12, Zenon DEF push, MakingTypes, making
<1>13. CASE destroy
  BY <1>13, Zenon DEF destroy, MakingTypes
<1>14. CASE UNCHANGED vars
  BY <1>14, Zenon DEF vars, MakingTypes, making
<1> QED
  BY <1>2, <1>3, <1>4, <1>5, <1>6, <1>7, <1>8, <1>9, <1>10, <1>11, <1>12, <1>13,
     <1>14, Zenon DEF Next, Make, Use

(***************************************************************************)
(* The object cache.                                                       *)
(***************************************************************************)

\* An entry, once there, is never replaced, because a module is compiled only
\* if the cache has nothing for its identifier; so no buffer is ever freed, and
\* whoever was compiled is the one whose code the entry of its identifier has.
Caching ==
  /\ freed = {}
  /\ pc \in {"none", "engine", "processJD"} =>
       /\ linking = <<>> /\ linked = {} /\ compiled = {}
       /\ cachedObjects = [i \in Identifiers |-> 0]
  /\ pc \in {"processJD", "ready"} => engine.cache = options.objectCache
  /\ \A i \in Identifiers : cachedObjects[i] # 0 =>
       /\ options.objectCache
       /\ heap[cachedObjects[i]] \in compiled
       /\ Identifier[heap[cachedObjects[i]]] = i
  /\ options.objectCache =>
       \A m \in compiled :
         /\ cachedObjects[Identifier[m]] # 0
         /\ heap[cachedObjects[Identifier[m]]] = m

\* What is being linked refers to the entry, or to its own fresh object.
Linking ==
  \A k \in DOMAIN linking :
    LET l == linking[k]
    IN IF l.buffer = 0 THEN l.module \in compiled
       ELSE l.buffer = cachedObjects[Identifier[l.module]]

IInv == MakingTypes /\ ObjectTypes /\ Caching /\ Linking /\ ObjectMatchesModule

LEMMA IdentifierType == ASSUME NEW m \in Modules PROVE Identifier[m] \in Identifiers
  BY DEF Identifiers

\* What is being linked, element by element.
LEMMA LinkTypes ==
  ASSUME ObjectTypes
  PROVE  \A k \in DOMAIN linking :
           linking[k].module \in Modules /\ linking[k].buffer \in 0 .. Len(heap)
<1> DEFINE Link == [module : Modules, buffer : 0 .. Len(heap)]
<1>1. linking \in Seq(Link)
  BY DEF ObjectTypes
<1> HIDE DEF Link
<1>2. \A k \in DOMAIN linking : linking[k] \in Link
  BY <1>1
<1> QED BY <1>2 DEF Link

\* A module begins to be linked.
LEMMA AppendLink ==
  ASSUME ObjectTypes, NEW m \in Modules, NEW b \in 0 .. Len(heap), NEW n \in Nat,
         n >= Len(heap),
         linking' = Append(linking, [module |-> m, buffer |-> b])
  PROVE  /\ linking' \in Seq([module : Modules, buffer : 0 .. n])
         /\ \A k \in DOMAIN linking' : k # Len(linking) + 1 =>
              k \in DOMAIN linking /\ linking'[k] = linking[k]
         /\ linking'[Len(linking) + 1] = [module |-> m, buffer |-> b]
<1> DEFINE Old == [module : Modules, buffer : 0 .. Len(heap)]
           Link == [module : Modules, buffer : 0 .. n]
           new == [module |-> m, buffer |-> b]
<1>0. linking \in Seq(Old) /\ Len(heap) \in Nat
  BY DEF ObjectTypes
<1>1. Old \subseteq Link
  BY <1>0
<1>2. new \in Link
  BY <1>0
<1> HIDE DEF Link, Old, new
<1>3. linking \in Seq(Link)
  BY <1>0, <1>1
<1>4. linking' = Append(linking, new)
  BY DEF new
<1>5. linking' \in Seq(Link)
  BY <1>2, <1>3, <1>4
<1>6. \A k \in DOMAIN linking' : k # Len(linking) + 1 =>
        k \in DOMAIN linking /\ linking'[k] = linking[k]
  BY <1>2, <1>3, <1>4
<1>7. linking'[Len(linking) + 1] = new
  BY <1>2, <1>3, <1>4
<1> QED BY <1>5, <1>6, <1>7 DEF Link, new

LEMMA EmptyObjects ==
  ASSUME noObjects
  PROVE  Linking' /\ ObjectMatchesModule' /\ freed' = {} /\ linking' = <<>>
           /\ linked' = {} /\ compiled' = {}
           /\ cachedObjects' = [i \in Identifiers |-> 0]
  BY DEF noObjects, Linking, ObjectMatchesModule

\* A module that the cache knows: a buffer is lent.
LEMMA HitStep ==
  ASSUME IInv, NEW m \in Modules, compile(m), engine.cache, getObject(m) # 0
  PROVE  IInv'
<1> /\ linking' = Append(linking, [module |-> m, buffer |-> getObject(m)])
    /\ UNCHANGED <<pc, options, engine, processJD, reported, cachedObjects, heap, freed,
                   linked, compiled>>
    /\ pc = "ready"
  BY DEF compile, making, objects
<1>1. MakingTypes'
  BY MakingStep DEF IInv, Next, Use
<1>2. ObjectTypes'
  BY IdentifierType DEF IInv, ObjectTypes, getObject
<1>3. Caching'
  BY DEF IInv, Caching
<1>4. Linking'
  BY DEF IInv, Linking, getObject, ObjectTypes
<1>5. ObjectMatchesModule'
  BY DEF IInv, ObjectMatchesModule
<1> QED BY <1>1, <1>2, <1>3, <1>4, <1>5 DEF IInv

\* Compiling with a cache that has nothing for the identifier.
LEMMA MissStep ==
  ASSUME IInv, NEW m \in Modules, compile(m), engine.cache, getObject(m) = 0
  PROVE  IInv'
<1> DEFINE id == Identifier[m]
<1> /\ linking' = Append(linking, [module |-> m, buffer |-> 0])
    /\ UNCHANGED <<pc, options, engine, processJD, reported, linked>>
    /\ compiled' = compiled \cup {m}
    /\ pc = "ready"
    /\ heap' = Append(heap, m)
    /\ cachedObjects' = [cachedObjects EXCEPT ![id] = Len(heap) + 1]
    /\ freed' = freed
    /\ cachedObjects[id] = 0
  BY DEF compile, making, notifyObjectCompiled, getObject
<1>0. id \in Identifiers
  BY IdentifierType
<1>1. MakingTypes'
  BY MakingStep DEF IInv, Next, Use
<1>2. ObjectTypes'
  <2>1. heap' \in Seq(Modules) /\ Len(heap') = Len(heap) + 1 /\ Len(heap) \in Nat
    BY DEF IInv, ObjectTypes
  <2>2. linking' \in Seq([module : Modules, buffer : 0 .. Len(heap')])
    BY <2>1, AppendLink DEF IInv
  <2>3. cachedObjects' \in [Identifiers -> 0 .. Len(heap')]
    BY <1>0, <2>1 DEF IInv, ObjectTypes
  <2> QED BY <2>1, <2>2, <2>3 DEF IInv, ObjectTypes
<1>3. Caching'
  <2> USE DEF IInv, ObjectTypes, Caching
  <2>1. freed' = {}
    OBVIOUS
  <2>2. engine.cache = options.objectCache
    OBVIOUS
  <2>3. ASSUME NEW i \in Identifiers, cachedObjects'[i] # 0
        PROVE /\ options'.objectCache
              /\ heap'[cachedObjects'[i]] \in compiled'
              /\ Identifier[heap'[cachedObjects'[i]]] = i
    <3>1. CASE i = id
      BY <1>0, <2>2, <3>1
    <3>2. CASE i # id
      BY <1>0, <2>3, <3>2
    <3> QED BY <3>1, <3>2
  <2>4. ASSUME NEW c \in compiled'
        PROVE /\ cachedObjects'[Identifier[c]] # 0
              /\ heap'[cachedObjects'[Identifier[c]]] = c
    <3>1. CASE c = m
      BY <1>0, <3>1
    <3>2. CASE c # m
      <4>1. c \in compiled /\ Identifier[c] \in Identifiers
        BY <3>2, IdentifierType
      <4>2. cachedObjects[Identifier[c]] # 0 /\ heap[cachedObjects[Identifier[c]]] = c
        BY <4>1, <2>2
      <4>3. Identifier[c] # id
        BY <4>2
      <4> QED BY <1>0, <4>1, <4>2, <4>3
    <3> QED BY <3>1, <3>2
  <2> QED BY <2>1, <2>2, <2>3, <2>4
<1>4. Linking'
  <2> SUFFICES ASSUME NEW k \in DOMAIN linking'
               PROVE IF linking'[k].buffer = 0 THEN linking'[k].module \in compiled'
                     ELSE linking'[k].buffer = cachedObjects'[Identifier[linking'[k].module]]
    BY DEF Linking
  <2>0. Len(heap) \in Nat
    BY DEF IInv, ObjectTypes
  <2>1. CASE k = Len(linking) + 1
    BY <2>0, <2>1, AppendLink DEF IInv
  <2>2. CASE k # Len(linking) + 1
    <3>1. k \in DOMAIN linking /\ linking'[k] = linking[k] /\ linking[k].module \in Modules
      BY <2>0, <2>2, AppendLink, LinkTypes DEF IInv
    <3>2. Identifier[linking[k].module] \in Identifiers
      BY <3>1, IdentifierType
    <3> QED BY <1>0, <3>1, <3>2 DEF IInv, Linking, ObjectTypes
  <2> QED BY <2>1, <2>2
<1>5. ObjectMatchesModule'
  <2> SUFFICES ASSUME NEW l \in linked
               PROVE /\ Identifier[l[2]] = Identifier[l[1]] /\ l[2] \in compiled'
                     /\ l[2] = l[1] <=> l[1] \in compiled'
                     /\ ~options'.objectCache => l[2] = l[1]
    BY DEF ObjectMatchesModule
  <2>1. /\ Identifier[l[2]] = Identifier[l[1]] /\ l[2] \in compiled
        /\ l[2] = l[1] <=> l[1] \in compiled
    BY DEF IInv, ObjectMatchesModule
  <2>2. options.objectCache
    BY DEF IInv, Caching
  <2>3. Identifier[l[2]] # id
    BY <2>1, <2>2 DEF IInv, Caching
  <2> QED BY <2>1, <2>2, <2>3
<1> QED BY <1>1, <1>2, <1>3, <1>4, <1>5 DEF IInv

\* Compiling without a cache.
LEMMA PlainStep ==
  ASSUME IInv, NEW m \in Modules, compile(m), ~engine.cache
  PROVE  IInv'
<1> /\ linking' = Append(linking, [module |-> m, buffer |-> 0])
    /\ UNCHANGED <<pc, options, engine, processJD, reported, cachedObjects, heap, freed,
                   linked>>
    /\ compiled' = compiled \cup {m}
    /\ pc = "ready"
  BY DEF compile, making, objects
<1>0. ~options.objectCache
  BY DEF IInv, Caching
<1>1. MakingTypes'
  BY MakingStep DEF IInv, Next, Use
<1>2. ObjectTypes'
  <2>1. Len(heap) \in Nat
    BY DEF IInv, ObjectTypes
  <2>2. linking' \in Seq([module : Modules, buffer : 0 .. Len(heap)])
    BY <2>1, AppendLink DEF IInv
  <2> QED BY <2>2 DEF IInv, ObjectTypes
<1>3. Caching'
  BY <1>0 DEF IInv, Caching
<1>4. Linking'
  <2> SUFFICES ASSUME NEW k \in DOMAIN linking'
               PROVE IF linking'[k].buffer = 0 THEN linking'[k].module \in compiled'
                     ELSE linking'[k].buffer = cachedObjects[Identifier[linking'[k].module]]
    BY DEF Linking
  <2>0. Len(heap) \in Nat
    BY DEF IInv, ObjectTypes
  <2>1. CASE k = Len(linking) + 1
    BY <2>0, <2>1, AppendLink DEF IInv
  <2>2. CASE k # Len(linking) + 1
    BY <2>0, <2>2, AppendLink DEF IInv, Linking
  <2> QED BY <2>1, <2>2
<1>5. ObjectMatchesModule'
  BY <1>0 DEF IInv, ObjectMatchesModule
<1> QED BY <1>1, <1>2, <1>3, <1>4, <1>5 DEF IInv

\* A finished link adds the code it read.
LEMMA LinkStep == ASSUME IInv, link PROVE IInv'
<1> DEFINE n == Len(linking)
           l == linking[n]
           code == IF l.buffer = 0 THEN l.module ELSE heap[l.buffer]
<1> /\ linking # <<>>
    /\ linked' = linked \cup {<<l.module, code>>}
    /\ linking' = SubSeq(linking, 1, n - 1)
    /\ UNCHANGED <<pc, options, engine, processJD, reported, cachedObjects, heap, freed,
                   compiled>>
  BY DEF link, making, objects
<1>0. n \in DOMAIN linking /\ l.module \in Modules /\ l.buffer \in 0 .. Len(heap)
  <2>1. n \in DOMAIN linking
    BY DEF IInv, ObjectTypes
  <2> QED BY <2>1, LinkTypes DEF IInv
<1>1. MakingTypes'
  BY MakingStep DEF IInv, Next, Use
<1>2. ObjectTypes'
  <2>1. code \in Modules
    BY <1>0 DEF IInv, ObjectTypes
  <2> DEFINE Link == [module : Modules, buffer : 0 .. Len(heap)]
  <2>2. linking' \in Seq(Link)
    <3>1. linking \in Seq(Link)
      BY DEF IInv, ObjectTypes
    <3> HIDE DEF Link
    <3> QED BY <3>1
  <2> QED BY <1>0, <2>1, <2>2 DEF IInv, ObjectTypes
<1>3. Caching'
  BY DEF IInv, Caching
<1>4. Linking'
  BY DEF IInv, Linking, ObjectTypes
<1>5. ObjectMatchesModule'
  <2> SUFFICES /\ Identifier[code] = Identifier[l.module] /\ code \in compiled
               /\ code = l.module <=> l.module \in compiled
               /\ ~options.objectCache => code = l.module
    BY DEF IInv, ObjectMatchesModule
  <2>1. CASE l.buffer = 0
    BY <1>0, <2>1 DEF IInv, Linking
  <2>2. CASE l.buffer # 0
    <3>1. l.buffer = cachedObjects[Identifier[l.module]]
      BY <1>0, <2>2 DEF IInv, Linking
    <3>2. Identifier[l.module] \in Identifiers
      BY <1>0, IdentifierType
    <3> QED BY <2>2, <3>1, <3>2 DEF IInv, Caching
  <2> QED BY <2>1, <2>2
<1> QED BY <1>1, <1>2, <1>3, <1>4, <1>5 DEF IInv

\* Steps that leave the cache and the links alone.
LEMMA OtherStep ==
  ASSUME IInv, [Next]_vars, UNCHANGED <<options, objects, links>>,
         pc' \in {"processJD", "ready"} => pc' = pc \/ pc \in {"engine", "processJD"},
         pc' \in {"processJD", "ready"} => engine'.cache = options.objectCache,
         pc' \in {"none", "engine", "processJD"} => pc \in {"none", "engine", "processJD"}
  PROVE  IInv'
<1>1. MakingTypes'
  BY MakingStep DEF IInv
<1>2. ObjectTypes' /\ Linking' /\ ObjectMatchesModule'
  BY DEF IInv, ObjectTypes, Linking, ObjectMatchesModule, objects, links
<1>3. Caching'
  BY DEF IInv, Caching, objects, links
<1> QED BY <1>1, <1>2, <1>3 DEF IInv

LEMMA InitIInv == Init => IInv
<1> SUFFICES ASSUME Init PROVE IInv
  OBVIOUS
<1>1. MakingTypes
  BY Zenon DEF Init, MakingTypes
<1>2. ObjectTypes
  BY DEF Init, ObjectTypes
<1>3. Caching /\ Linking /\ ObjectMatchesModule
  BY DEF Init, Caching, Linking, ObjectMatchesModule
<1> QED BY <1>1, <1>2, <1>3 DEF IInv

LEMMA StepIInv == IInv /\ [Next]_vars => IInv'
<1> SUFFICES ASSUME IInv, [Next]_vars PROVE IInv'
  OBVIOUS
<1>1. CASE makeJIT
  <2>1. MakingTypes'
    BY MakingStep DEF IInv
  <2>2. UNCHANGED <<objects, links>> /\ pc' = "engine" /\ pc = "none"
    BY <1>1 DEF makeJIT
  <2>3. ObjectTypes' /\ Linking'
    BY <2>2 DEF IInv, ObjectTypes, Linking, objects, links
  <2>4. linked = {} /\ compiled = {} /\ \A i \in Identifiers : cachedObjects[i] = 0
    BY <2>2 DEF IInv, Caching
  <2>5. Caching' /\ ObjectMatchesModule'
    BY <2>2, <2>4 DEF IInv, Caching, ObjectMatchesModule, objects, links
  <2> QED BY <2>1, <2>3, <2>5 DEF IInv
<1>2. CASE noDataLayout
  BY <1>2, OtherStep DEF noDataLayout, fail
<1>3. CASE createEngine
  <2>1. engine'.cache = options.objectCache
    BY <1>3 DEF createEngine
  <2> QED BY <1>3, <2>1, OtherStep DEF createEngine
<1>4. CASE engineFails
  BY <1>4, OtherStep DEF engineFails
<1>5. CASE createCurrentProcessJD
  BY <1>5, OtherStep DEF createCurrentProcessJD, IInv, Caching
<1>6. CASE processJDFails
  BY <1>6, OtherStep DEF processJDFails, fail
<1>7. ASSUME NEW m \in Modules, compile(m) PROVE IInv'
  BY <1>7, HitStep, MissStep, PlainStep
<1>8. CASE link
  BY <1>8, LinkStep
<1>9. CASE dumpToObjectFile
  BY <1>9, OtherStep DEF dumpToObjectFile, making, IInv, Caching
<1>10. CASE dumpToObjectFileDies
  BY <1>10, OtherStep DEF dumpToObjectFileDies
<1>11. ASSUME NEW n \in NSNames, push(n) PROVE IInv'
  BY <1>11, OtherStep DEF push, making, IInv, Caching
<1>12. CASE destroy
  <2>1. MakingTypes'
    BY MakingStep DEF IInv
  <2>2. noObjects /\ pc' = "none"
    BY <1>12 DEF destroy
  <2>3. Caching'
    BY <2>2, EmptyObjects DEF Caching
  <2> QED BY <2>1, <2>2, <2>3, NoObjectsTypes, EmptyObjects DEF IInv
<1>13. CASE UNCHANGED vars
  BY <1>13, OtherStep DEF vars, making, IInv, Caching
<1> QED
  BY <1>1, <1>2, <1>3, <1>4, <1>5, <1>6, <1>7, <1>8, <1>9, <1>10, <1>11, <1>12, <1>13
  DEF Next, Make, Use

\* Whatever is compiled while links nest: a buffer that the cache lent is never
\* freed under the link that reads it (BorrowedAlive).
THEOREM BorrowedBuffersLive == Spec => []BorrowedAlive
<1>1. IInv => BorrowedAlive
  BY DEF IInv, Caching, BorrowedAlive
<1> QED BY <1>1, InitIInv, StepIInv, PTL DEF Spec

\* A module is linked with its own code if it was compiled, and otherwise with
\* that of a compiled module of its identifier (ObjectMatchesModule).
THEOREM ObjectsMatch == Spec => []ObjectMatchesModule
<1>1. IInv => ObjectMatchesModule
  BY DEF IInv
<1> QED BY <1>1, InitIInv, StepIInv, PTL DEF Spec

\* A dump that returns has written the code of the only identifier that was
\* compiled (DumpsTheOnlyObject).
LEMMA DumpStep ==
  ASSUME IInv, dumpToObjectFile
  PROVE  /\ outFile' \in compiled
         /\ \A m \in compiled : Identifier[m] = Identifier[outFile']
<1>1. PICK i \in cached : cached = {i} /\ outFile' = heap[cachedObjects[i]]
  BY DEF dumpToObjectFile
<1>2. i \in Identifiers /\ cachedObjects[i] # 0
  BY DEF cached
<1>3. outFile' \in compiled /\ Identifier[outFile'] = i
  BY <1>1, <1>2 DEF IInv, Caching
<1>4. ASSUME NEW m \in compiled PROVE Identifier[m] = i
  <2>1. Identifier[m] \in Identifiers /\ options.objectCache
    BY IdentifierType DEF IInv, ObjectTypes, dumpToObjectFile
  <2>2. cachedObjects[Identifier[m]] # 0
    BY <2>1 DEF IInv, Caching
  <2> QED BY <1>1, <2>1, <2>2 DEF cached
<1> QED BY <1>3, <1>4

THEOREM DumpWritesOnlyObject == Spec => DumpsTheOnlyObject
<1> DEFINE OneObject == outFile' # outFile =>
                          \/ pc' = "dead"
                          \/ /\ outFile' \in compiled
                             /\ \A m \in compiled : Identifier[m] = Identifier[outFile']
<1>1. IInv /\ [Next]_vars => OneObject
  <2> SUFFICES ASSUME IInv, Next \/ UNCHANGED vars, outFile' # outFile
               PROVE  \/ pc' = "dead"
                      \/ /\ outFile' \in compiled
                         /\ \A m \in compiled : Identifier[m] = Identifier[outFile']
    OBVIOUS
  <2>1. dumpToObjectFile \/ dumpToObjectFileDies
    BY DEF Next, Make, Use, makeJIT, noDataLayout, createEngine, engineFails,
           createCurrentProcessJD, processJDFails, compile, link, push, destroy, vars
  <2> QED BY <2>1, DumpStep DEF dumpToObjectFileDies
<1>2. IInv /\ [Next]_vars => [OneObject]_vars
  BY <1>1
<1> QED BY <1>2, InitIInv, StepIInv, PTL DEF Spec, DumpsTheOnlyObject

(***************************************************************************)
(* The table of dylibs.                                                    *)
(***************************************************************************)

\* The table is numbered without gaps.
Numbered ==
  /\ DylibTypes
  /\ \A n \in NSNames : Len(jitDylibs[n]) = newest[n]
                        /\ \A k \in DOMAIN jitDylibs[n] : jitDylibs[n][k] = k

LEMMA PushStep ==
  ASSUME Numbered, NEW n \in NSNames, push(n)
  PROVE  Numbered'
<1> DEFINE l == newest[n] + 1
<1>1. /\ jitDylibs' = [jitDylibs EXCEPT ![n] = Append(jitDylibs[n], l)]
      /\ newest' = [newest EXCEPT ![n] = l]
  BY DEF push, pushJITDylib
<1>2. jitDylibs[n] \in Seq(Nat) /\ l \in Nat /\ Len(jitDylibs[n]) = newest[n]
        /\ newest[n] \in Nat
  BY DEF Numbered, DylibTypes
<1>3. DylibTypes'
  BY <1>1, <1>2 DEF Numbered, DylibTypes
<1>4. ASSUME NEW o \in NSNames
      PROVE  Len(jitDylibs'[o]) = newest'[o]
               /\ \A k \in DOMAIN jitDylibs'[o] : jitDylibs'[o][k] = k
  <2>1. CASE o = n
    <3>1. jitDylibs'[o] = Append(jitDylibs[n], l) /\ newest'[o] = l
      BY <1>1, <2>1 DEF Numbered, DylibTypes
    <3>2. \A k \in DOMAIN jitDylibs[n] : jitDylibs[n][k] = k
      BY DEF Numbered
    <3> QED BY <1>2, <3>1, <3>2
  <2>2. CASE o # n
    BY <1>1, <2>2 DEF Numbered, DylibTypes
  <2> QED BY <2>1, <2>2
<1> QED BY <1>3, <1>4 DEF Numbered

LEMMA StepNumbered == Numbered /\ [Next]_vars => Numbered'
<1> SUFFICES ASSUME Numbered, [Next]_vars PROVE Numbered'
  OBVIOUS
<1>1. ASSUME NEW n \in NSNames, push(n) PROVE Numbered'
  BY <1>1, PushStep
<1>2. CASE destroy
  BY <1>2 DEF destroy, noDylibs, Numbered, DylibTypes
<1>3. CASE UNCHANGED dylibs
  BY <1>3 DEF dylibs, Numbered, DylibTypes
<1> QED
  BY <1>1, <1>2, <1>3 DEF Next, Make, Use, makeJIT, noDataLayout, createEngine,
     engineFails, createCurrentProcessJD, processJDFails, compile, link,
     dumpToObjectFile, dumpToObjectFileDies, vars

\* The newest dylib of a namespace is the last element of its vector, and the
\* vector has them all (NewestDylib).
THEOREM NewestDylibLast == Spec => []NewestDylib
<1>1. Init => Numbered
  BY DEF Init, Numbered, DylibTypes
<1>2. Numbered => NewestDylib
  BY DEF Numbered, DylibTypes, NewestDylib, getLatestJITDylib, getNumberOfJITDylibs
<1> QED BY <1>1, <1>2, StepNumbered, PTL DEF Spec

(***************************************************************************)
(* Types, once more, and what make() delivers.                             *)
(***************************************************************************)

LEMMA FileStep == ASSUME IInv, FileTypes, [Next]_vars PROVE FileTypes'
<1>1. CASE dumpToObjectFile
  BY <1>1, DumpStep DEF IInv, ObjectTypes, FileTypes
<1>2. CASE dumpToObjectFileDies
  BY <1>2 DEF dumpToObjectFileDies, FileTypes
<1>3. CASE UNCHANGED outFile
  BY <1>3 DEF FileTypes
<1> QED
  BY <1>1, <1>2, <1>3 DEF Next, Make, Use, makeJIT, noDataLayout, createEngine,
     engineFails, createCurrentProcessJD, processJDFails, compile, link, push,
     destroy, vars

\* The JIT's fields have their types (TypeOK).
THEOREM TypeCorrect == Spec => []TypeOK
<1> DEFINE Types == IInv /\ Numbered /\ FileTypes
<1>1. Init => Types
  BY InitIInv DEF Init, Numbered, DylibTypes, FileTypes
<1>2. Types /\ [Next]_vars => Types'
  BY StepIInv, StepNumbered, FileStep
<1>3. Types => TypeOK
  BY Zenon DEF IInv, MakingTypes, ObjectTypes, Numbered, DylibTypes, FileTypes, TypeOK
<1> QED BY <1>1, <1>2, <1>3, PTL DEF Spec

\* What the engine has when it is created, and keeps.
AsAsked ==
  /\ engine # None
  /\ engine.lazy = options.lazy /\ engine.cache = options.objectCache
  /\ "gdb" \in engine.listeners <=> options.gdb
  /\ "perf" \in engine.listeners <=> options.perf /\ options.usePerf
  /\ engine.level = IF options.compilationPhase > 7
                    THEN options.compilationPhase - 7 ELSE 0

Delivering ==
  /\ MakingTypes
  /\ pc \in {"none", "engine"} => engine = None
  /\ pc \in {"none", "engine", "processJD"} => processJD = "none"
  /\ pc \in {"processJD", "ready"} => AsAsked
  /\ pc = "ready" => processJD = "searching"
  /\ pc \in {"engine", "processJD", "ready"} => ~reported
  /\ pc = "dead" /\ reported => engine = None

LEMMA Levels ==
  ASSUME options \in Options
  PROVE  getOptimizatioLevel = IF options.compilationPhase > 7
                               THEN options.compilationPhase - 7 ELSE 0
<1>1. options.compilationPhase \in 1 .. 10
  BY DEF Options, Phases, CompilationPhase
<1>2. phase("NoOptimization") = 7 /\ phase("O1") = 8 /\ phase("O2") = 9
  <2>1. ASSUME NEW p \in 1 .. 10, NEW name, CompilationPhase[p] = name,
               \A q \in 1 .. 10 : CompilationPhase[q] = name => q = p
        PROVE  phase(name) = p
    BY <2>1 DEF phase, Phases, CompilationPhase
  <2> QED BY <2>1 DEF CompilationPhase
<1> QED BY <1>1, <1>2 DEF getOptimizatioLevel

LEMMA EngineStep == ASSUME Delivering, createEngine PROVE AsAsked'
<1>1. options \in Options /\ options' = options
  BY JitAssumption DEF Delivering, MakingTypes, createEngine
<1>2. engine' = [lazy |-> options.lazy, listeners |-> listeners,
                claims |-> options.coff, level |-> getOptimizatioLevel,
                cache |-> options.objectCache]
  BY DEF createEngine
<1>3. engine' \in Engines
  <2> listeners \in SUBSET {"gdb", "perf"}
    BY DEF listeners
  <2> getOptimizatioLevel \in 0 .. 3
    BY DEF getOptimizatioLevel
  <2> QED BY <1>1, <1>2, EngineType, Zenon
<1>4. engine' # None
  BY <1>3, JitAssumption
<1>5. /\ engine'.lazy = options.lazy /\ engine'.cache = options.objectCache
      /\ engine'.listeners = listeners /\ engine'.level = getOptimizatioLevel
  BY <1>2, Zenon
<1>6. ("gdb" \in listeners <=> options.gdb) /\ ("perf" \in listeners <=> options.perf /\ options.usePerf)
  BY DEF listeners
<1> QED BY <1>1, <1>4, <1>5, <1>6, Levels, Zenon DEF AsAsked

\* Steps that change no part of what make() delivers.
LEMMA KeepDelivering ==
  ASSUME Delivering, MakingTypes', UNCHANGED <<pc, options, making>>
  PROVE  Delivering'
<1> UNCHANGED <<pc, options, engine, processJD, reported>>
  BY DEF making
<1> QED BY DEF Delivering, AsAsked

LEMMA StepDelivering == Delivering /\ [Next]_vars => Delivering'
<1> SUFFICES ASSUME Delivering, [Next]_vars PROVE Delivering'
  OBVIOUS
<1>0. MakingTypes'
  BY MakingStep DEF Delivering
<1>1. CASE makeJIT
  BY <1>0, <1>1 DEF makeJIT, Delivering
<1>2. CASE noDataLayout
  BY <1>0, <1>2 DEF noDataLayout, fail, Delivering
<1>3. CASE createEngine
  BY <1>0, <1>3, EngineStep DEF createEngine, Delivering
<1>4. CASE engineFails
  BY <1>0, <1>4 DEF engineFails, making, Delivering
<1>5. CASE createCurrentProcessJD
  <2>1. AsAsked'
    BY <1>5 DEF createCurrentProcessJD, Delivering, AsAsked
  <2> QED BY <1>0, <1>5, <2>1 DEF createCurrentProcessJD, Delivering
<1>6. CASE processJDFails
  BY <1>0, <1>6 DEF processJDFails, fail, Delivering
<1>7. CASE destroy
  BY <1>0, <1>7 DEF destroy, Delivering
<1>8. CASE dumpToObjectFileDies
  BY <1>0, <1>8 DEF dumpToObjectFileDies, making, Delivering
<1>9. CASE UNCHANGED <<pc, options, making>>
  BY <1>0, <1>9, KeepDelivering
<1> QED
  BY <1>1, <1>2, <1>3, <1>4, <1>5, <1>6, <1>7, <1>8, <1>9 DEF Next, Make, Use,
     compile, link, dumpToObjectFile, push, vars

\* A JIT that make() returns is the one that the options ask for, as far as
\* LLVM has it, whatever failed before (DeliveredWhole).
THEOREM DeliveredAsAsked == Spec => []DeliveredWhole
<1>1. Init => Delivering
  BY InitIInv DEF Init, IInv, Delivering
<1>2. Delivering => DeliveredWhole
  BY DEF Delivering, DeliveredWhole, AsAsked, MakingTypes
<1> QED BY <1>1, <1>2, StepDelivering, PTL DEF Spec
=============================================================================
