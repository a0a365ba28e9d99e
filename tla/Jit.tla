-------------------------------- MODULE Jit ---------------------------------
(***************************************************************************)
(* serene::jit (serene/src/jit/jit.cpp, jit.h): how a JIT is made step by  *)
(* step, its object cache, which the engine calls back while it compiles,  *)
(* and its table of dylibs.  options.h gives the options.                  *)
(*                                                                         *)
(* LLVM is outside: a creation may fail, a module that is wanted is        *)
(* compiled unless the cache has an object for it, and linking a module    *)
(* may make the engine compile and link another one before it is done.     *)
(* A module's code is the module itself; an object is a buffer on the heap *)
(* with the code of a module.  Types of listeners, data layouts and the    *)
(* signatures that jit.h declares without a body are left out.             *)
(***************************************************************************)
EXTENDS Integers, Sequences

CONSTANTS
  OptionSets,   \* what a JIT is made with, see Options
  Modules,      \* llvm::Modules
  Identifier,   \* getModuleIdentifier() of a module
  NSNames,      \* names of namespaces
  None,
  MaxNested,    \* bound: links in progress at a time
  MaxDylibs     \* bound: dylibs of a namespace

CompilationPhase == <<"Parse", "Analysis", "SLIR", "MLIR", "LIR", "IR",
                      "NoOptimization", "O1", "O2", "O3">>

Phases == 1 .. Len(CompilationPhase)

\* The flags that the JIT reads; coff: the host's object files are COFF;
\* usePerf: LLVM was built with LLVM_USE_PERF.
Options == [objectCache : BOOLEAN, gdb : BOOLEAN, perf : BOOLEAN, usePerf : BOOLEAN,
            lazy : BOOLEAN, coff : BOOLEAN, compilationPhase : Phases]

\* What the engine is given; claims: it claims and overrides symbols' flags.
Engines == [lazy : BOOLEAN, listeners : SUBSET {"gdb", "perf"}, claims : BOOLEAN,
            level : 0 .. 3, cache : BOOLEAN]

Identifiers == {Identifier[m] : m \in Modules}

ASSUME JitAssumption ==
  /\ OptionSets \subseteq Options
  /\ Identifier \in [Modules -> Identifiers]
  /\ None \notin Modules /\ None \notin Engines
  /\ MaxNested \in Nat /\ MaxDylibs \in Nat

VARIABLES
  pc,             \* "none", where make() is, "ready", or "dead"
  options,        \* JIT::options of the JIT that is or was being made
  engine,         \* JIT::engine, None until it is created
  processJD,      \* *main*: "none", "created", or "searching" the process
  reported,       \* did the last make() return an error
  jitDylibs,      \* the table: per namespace the vector
  cachedObjects,  \* the cache: per identifier a buffer, 0 for no entry
  heap,           \* the buffers the cache ever made, with their code
  freed,          \* the buffers it has deleted
  linking,        \* the engine: modules being linked, with borrowed buffers
  linked,         \* the engine: modules and the code that was linked for them
  compiled,       \* history: the modules that were compiled
  newest,         \* history: per namespace the last dylib pushed, or 0
  outFile         \* the file of dumpToObjectFile(): None or a code

making  == <<engine, processJD, reported>>
objects == <<cachedObjects, heap, freed>>
links   == <<linking, linked, compiled>>
dylibs  == <<jitDylibs, newest>>
vars    == <<pc, options, making, objects, links, dylibs, outFile>>

(***************************************************************************)
(* Making a JIT.                                                           *)
(***************************************************************************)

phase(name) == CHOOSE p \in Phases : CompilationPhase[p] = name

getOptimizatioLevel_Unclamped ==
  options.compilationPhase - phase("NoOptimization")

getOptimizatioLevel ==
  LET p == options.compilationPhase
  IN IF p <= phase("NoOptimization") THEN 0
     ELSE IF p = phase("O1") THEN 1
     ELSE IF p = phase("O2") THEN 2 ELSE 3

noObjects ==
  /\ cachedObjects' = [i \in Identifiers |-> 0]
  /\ heap' = <<>> /\ freed' = {}
  /\ linking' = <<>> /\ linked' = {} /\ compiled' = {}

noDylibs ==
  /\ jitDylibs' = [n \in NSNames |-> <<>>]
  /\ newest' = [n \in NSNames |-> 0]

\* make() returns an error; the JIT it was making is deleted with the engine.
fail ==
  /\ pc' = "none"
  /\ engine' = None /\ processJD' = "none"
  /\ reported' = TRUE

\* makeJIT() and make() up to the constructor.
makeJIT ==
  /\ pc = "none"
  /\ \E o \in OptionSets : o.usePerf = options.usePerf /\ options' = o
  /\ pc' = "engine" /\ reported' = FALSE
  /\ UNCHANGED <<engine, processJD, objects, links, dylibs, outFile>>

noDataLayout ==
  /\ pc = "none"
  /\ fail
  /\ UNCHANGED <<options, objects, links, dylibs, outFile>>

listeners_Unchecked == (IF options.gdb THEN {"gdb"} ELSE {})
                         \cup (IF options.perf THEN {"perf"} ELSE {})

\* The listeners that objectLinkingLayerCreator registers: the pointers that
\* are not null.  LLVM has no perf listener if it was built without.
listeners == (IF options.gdb THEN {"gdb"} ELSE {})
               \cup (IF options.perf /\ options.usePerf THEN {"perf"} ELSE {})

\* The builder's create() with the callbacks it makes: the object layer, then
\* the compiler, which keeps a pointer to the cache.
createEngine ==
  /\ pc = "engine"
  /\ engine' = [lazy |-> options.lazy, listeners |-> listeners,
                claims |-> options.coff, level |-> getOptimizatioLevel,
                cache |-> options.objectCache]
  /\ pc' = "processJD"
  /\ UNCHANGED <<options, processJD, reported, objects, links, dylibs, outFile>>

\* No target machine, or create() fails otherwise: cantFail() aborts.
engineFails ==
  /\ pc = "engine"
  /\ pc' = "dead"
  /\ UNCHANGED <<options, making, objects, links, dylibs, outFile>>

createCurrentProcessJD_Unchecked ==
  /\ pc = "processJD"
  /\ \E has \in {"searching", "created"} : processJD' = has
  /\ pc' = "ready"
  /\ UNCHANGED <<options, engine, reported, objects, links, dylibs, outFile>>

\* It finds *main* or makes it, gives it a generator, and make() returns.
createCurrentProcessJD ==
  /\ pc = "processJD"
  /\ processJD' = IF processJD = "none" THEN "searching" ELSE processJD
  /\ pc' = "ready"
  /\ UNCHANGED <<options, engine, reported, objects, links, dylibs, outFile>>

processJDFails ==
  /\ pc = "processJD"
  /\ processJD = "none"
  /\ fail
  /\ UNCHANGED <<options, objects, links, dylibs, outFile>>

\* The JIT is deleted: first the table and the cache, then the engine.
destroy ==
  /\ pc = "ready"
  /\ linking = <<>>
  /\ pc' = "none"
  /\ engine' = None /\ processJD' = "none"
  /\ noObjects /\ noDylibs
  /\ UNCHANGED <<options, reported, outFile>>

(***************************************************************************)
(* The object cache.                                                       *)
(***************************************************************************)

notifyObjectCompiled_OneBehind(m) ==
  /\ heap' = Append(heap, m)
  /\ cachedObjects' = [cachedObjects EXCEPT ![Identifier[m]] = Len(heap)]
  /\ UNCHANGED freed

\* A copy of the object replaces the entry, whose buffer is deleted.
notifyObjectCompiled(m) ==
  LET id == Identifier[m]
  IN /\ heap' = Append(heap, m)
     /\ cachedObjects' = [cachedObjects EXCEPT ![id] = Len(heap) + 1]
     /\ freed' = freed \cup ({cachedObjects[id]} \ {0})

getObject_OnlyOwn(m) ==
  LET entry == cachedObjects[Identifier[m]]
  IN IF entry # 0 /\ heap[entry] = m THEN entry ELSE 0

\* A buffer over the entry's memory, or nullptr (0).
getObject(m) == cachedObjects[Identifier[m]]

\* The engine wants the module: LLVM's compiler asks the cache, and compiles
\* and notifies the cache if there is no object.
compile(m) ==
  LET found == IF engine.cache THEN getObject(m) ELSE 0
  IN /\ pc = "ready"
     /\ Len(linking) < MaxNested
     /\ linking' = Append(linking, [module |-> m, buffer |-> found])
     /\ IF found # 0 THEN UNCHANGED <<objects, compiled>>
        ELSE /\ compiled' = compiled \cup {m}
             /\ IF engine.cache THEN notifyObjectCompiled(m) ELSE UNCHANGED objects
     /\ UNCHANGED <<pc, options, making, linked, dylibs, outFile>>

\* The link that was begun last is done; it has read its buffer.
link ==
  /\ linking # <<>>
  /\ LET l == linking[Len(linking)]
         code == IF l.buffer = 0 THEN l.module ELSE heap[l.buffer]
     IN linked' = linked \cup {<<l.module, code>>}
  /\ linking' = SubSeq(linking, 1, Len(linking) - 1)
  /\ UNCHANGED <<pc, options, making, objects, compiled, dylibs, outFile>>

cached == {i \in Identifiers : cachedObjects[i] # 0}

dumpToObjectFile_First ==
  /\ pc = "ready" /\ options.objectCache
  /\ \E i \in cached : outFile' = heap[cachedObjects[i]]
  /\ UNCHANGED <<pc, options, making, objects, links, dylibs>>

\* Exactly one entry is in the cache and is written.
dumpToObjectFile ==
  /\ pc = "ready" /\ options.objectCache
  /\ \E i \in cached : cached = {i} /\ outFile' = heap[cachedObjects[i]]
  /\ UNCHANGED <<pc, options, making, objects, links, dylibs>>

\* Without a cache the pointer is null.  With more or fewer entries the
\* assertion fails when the file is already truncated; the one who wanted it
\* kept is gone, so it is removed.
dumpToObjectFileDies ==
  /\ pc = "ready"
  /\ ~\E i \in cached : cached = {i}
  /\ outFile' = IF options.objectCache THEN None ELSE outFile
  /\ pc' = "dead"
  /\ UNCHANGED <<options, making, objects, links, dylibs>>

(***************************************************************************)
(* The dylibs of namespaces, numbered per namespace in the order in which  *)
(* they are pushed.                                                        *)
(***************************************************************************)

getNumberOfJITDylibs(nsName) == Len(jitDylibs[nsName])

getLatestJITDylib(nsName) ==
  IF jitDylibs[nsName] = <<>> THEN 0 ELSE jitDylibs[nsName][Len(jitDylibs[nsName])]

\* The vector is copied, extended and put back.
pushJITDylib(nsName, l) ==
  jitDylibs' = [jitDylibs EXCEPT ![nsName] = Append(jitDylibs[nsName], l)]

push(nsName) ==
  LET l == newest[nsName] + 1
  IN /\ pc = "ready"
     /\ getNumberOfJITDylibs(nsName) < MaxDylibs /\ newest[nsName] < MaxDylibs
     /\ pushJITDylib(nsName, l)
     /\ newest' = [newest EXCEPT ![nsName] = l]
     /\ UNCHANGED <<pc, options, making, objects, links, outFile>>

(***************************************************************************)
(* The specification.                                                      *)
(***************************************************************************)

Init ==
  /\ pc = "none"
  /\ options \in OptionSets
  /\ engine = None /\ processJD = "none" /\ reported = FALSE
  /\ cachedObjects = [i \in Identifiers |-> 0]
  /\ heap = <<>> /\ freed = {}
  /\ linking = <<>> /\ linked = {} /\ compiled = {}
  /\ jitDylibs = [n \in NSNames |-> <<>>]
  /\ newest = [n \in NSNames |-> 0]
  /\ outFile = None

Make == makeJIT \/ noDataLayout \/ createEngine \/ engineFails
          \/ createCurrentProcessJD \/ processJDFails

Use ==
  \/ \E m \in Modules : compile(m)
  \/ link
  \/ dumpToObjectFile \/ dumpToObjectFileDies
  \/ \E n \in NSNames : push(n)
  \/ destroy

Next == Make \/ Use \/ (pc = "dead" /\ UNCHANGED vars)

Spec == Init /\ [][Next]_vars

(***************************************************************************)
(* Properties.                                                             *)
(***************************************************************************)

\* The types of the JIT's fields and of what the engine holds.
TypeOK ==
  /\ pc \in {"none", "engine", "processJD", "ready", "dead"}
  /\ options \in OptionSets
  /\ engine \in Engines \cup {None}
  /\ processJD \in {"none", "created", "searching"} /\ reported \in BOOLEAN
  /\ heap \in Seq(Modules) /\ freed \subseteq 1 .. Len(heap)
  /\ cachedObjects \in [Identifiers -> 0 .. Len(heap)]
  /\ linking \in Seq([module : Modules, buffer : 0 .. Len(heap)])
  /\ linked \subseteq Modules \X Modules /\ compiled \subseteq Modules
  /\ jitDylibs \in [NSNames -> Seq(Nat)] /\ newest \in [NSNames -> Nat]
  /\ outFile \in Modules \cup {None}

\* A JIT that make() returns is whole, whatever failed in this attempt or the
\* ones before: the engine that the options ask for, with the optimization
\* that the phase stands for and all listeners that LLVM has, and symbols of the
\* process can be found.  An attempt that failed leaves no engine.
DeliveredWhole ==
  /\ pc = "ready" =>
       /\ engine # None /\ processJD = "searching" /\ ~reported
       /\ engine.lazy = options.lazy /\ engine.cache = options.objectCache
       /\ "gdb" \in engine.listeners <=> options.gdb
       /\ "perf" \in engine.listeners <=> options.perf /\ options.usePerf
       /\ engine.level = IF options.compilationPhase > 7
                         THEN options.compilationPhase - 7 ELSE 0
  /\ reported => engine = None

\* A buffer that getObject() lent (it only refers to the cache's memory) is
\* there until the link that uses it is done, however links nest and whatever
\* is compiled meanwhile.
BorrowedAlive ==
  \A i \in DOMAIN linking : linking[i].buffer \notin freed

\* The cache goes by identifiers and never looks at the module: what is linked
\* for a module is its own code if it was compiled, and otherwise the code of
\* another module of the same identifier that was compiled before it.
ObjectMatchesModule ==
  \A l \in linked :
    /\ Identifier[l[2]] = Identifier[l[1]] /\ l[2] \in compiled
    /\ l[2] = l[1] <=> l[1] \in compiled
    /\ ~options.objectCache => l[2] = l[1]

\* The last element of a namespace's vector is always the newest dylib, and
\* none was lost (the comment at jit.h:112).
NewestDylib ==
  \A n \in NSNames : getLatestJITDylib(n) = newest[n] /\ getNumberOfJITDylibs(n) = newest[n]

\* A dump either writes the code of the only identifier that was ever compiled,
\* or it ends the process: it never writes one object of several.
DumpsTheOnlyObject ==
  [][outFile' # outFile =>
       \/ pc' = "dead"
       \/ /\ outFile' \in compiled
          /\ \A m \in compiled : Identifier[m] = Identifier[outFile']]_vars
=============================================================================
