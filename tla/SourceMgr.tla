----------------------------- MODULE SourceMgr ------------------------------
(***************************************************************************)
(* serene::SourceMgr (serene/src/source_mgr.h, source_mgr.cpp): finds the  *)
(* file of a namespace in the load paths, keeps its text in a buffer,      *)
(* indexes the buffer by the namespace's name and has it read; later it    *)
(* answers where a line of a buffer starts.                                *)
(*                                                                         *)
(* The source manager runs on one thread; the files change under it.  The  *)
(* vector of buffers is modelled with its capacity, because growing it     *)
(* moves every SrcBuffer and destroys the ones moved from, and with the    *)
(* offset caches as heap objects, because a SrcBuffer owns its cache       *)
(* through a void pointer.                                                 *)
(***************************************************************************)
EXTENDS LineIndex

CONSTANTS
  Names,       \* the namespace names asked for, sequences of characters
  Dirs,        \* directories
  PathLists,   \* the vectors of directories given to setLoadPaths
  Texts,       \* the contents a file may have, sequences of characters
  Readable,    \* those of them that serene::read() accepts
  IdMod,       \* 2^w, w the width of unsigned, the type of a buffer id
  MaxBuffers,  \* bound: how many buffers are added
  NoFile       \* there is no file, or it cannot be opened

ASSUME SourceMgrAssumption ==
  /\ PathLists \subseteq Seq(Dirs)
  /\ Texts \subseteq Seq(STRING)
  /\ \A t \in Texts : fits(t, Len(Widths))  \* size_t holds every size
  /\ Readable \subseteq Texts /\ NoFile \notin Texts
  /\ IdMod \in Nat \ {0} /\ MaxBuffers \in Nat

VARIABLES
  disk,        \* what each directory holds at each path
  loadPaths,   \* SourceMgr::loadPaths
  dirs,        \* the caller's vector, that setLoadPaths swaps with it
  buffers,     \* SourceMgr::buffers
  capacity,    \* the capacity of that vector
  caches,      \* the offset vectors on the heap
  nsTable,     \* SourceMgr::nsTable, 0 where it has no entry
  pc,          \* where readNamespace() is
  call,        \* its name, the loop counter of findFileInLoadPath, the text
  changed,     \* ghost: did the files or the paths change since the call?
  result,      \* what the last readNamespace() returned
  namespaces   \* the namespaces made so far, with the id of their buffer

files  == <<disk, loadPaths, dirs, changed>>
store  == <<buffers, capacity, caches>>
vars   == <<files, store, nsTable, pc, call, result, namespaces>>

\* convertNamespaceToPath.
convertNamespaceToPath(name) ==
  [k \in DOMAIN name |-> IF name[k] = "." THEN "/" ELSE name[k]]

Paths == {convertNamespaceToPath(name) : name \in Names}
NoCall == [name |-> <<>>, i |-> 0, text |-> <<>>]

(***************************************************************************)
(* SrcBuffer: the text, the offset cache, and (a ghost) the name the text  *)
(* was loaded for.                                                         *)
(***************************************************************************)

\* A cache is live until it is deleted; an id is its address.
Live == {c \in DOMAIN caches : caches[c].live}

deleted(addresses) ==
  [c \in DOMAIN caches |->
     IF c \in addresses THEN [caches[c] EXCEPT !.live = FALSE] ELSE caches[c]]

\* The move constructor takes every field over; this is what it leaves behind.
movedFrom_KeepsCache(b) == [b EXCEPT !.text = Null]

movedFrom(b) == [b EXCEPT !.text = Null, !.offsetCache = Null]

\* ~SrcBuffer, for a sequence of buffers: the caches it deletes.
destroyed(bs) == {bs[i].offsetCache : i \in DOMAIN bs} \ {Null}

\* The offsets a lookup in b works with.
offsetsOf(b) ==
  IF b.offsetCache = Null
  THEN newlineOffsets(b.text, elementType(b.text))
  ELSE caches[b.offsetCache].offsets

getPointerForLineNumber(b, lineNo) == lineStart(offsetsOf(b), lineNo)

(***************************************************************************)
(* readNamespace().                                                        *)
(***************************************************************************)

returns(status) ==
  /\ pc' = "idle"
  /\ result' = status
  /\ call' = NoCall

readNamespace(name) ==
  /\ pc = "idle"
  /\ Len(buffers) < MaxBuffers
  /\ pc' = "find"
  /\ call' = [NoCall EXCEPT !.name = name, !.i = 1]
  /\ changed' = FALSE
  /\ UNCHANGED <<disk, loadPaths, dirs, store, nsTable, result, namespaces>>

fileAt(i) == disk[<<loadPaths[i], convertNamespaceToPath(call.name)>>]

findFileInLoadPath_SkipsFirst ==
  /\ pc = "find"
  /\ CASE call.i >= Len(loadPaths) -> returns("NSLoadError")
       [] call.i < Len(loadPaths) /\ fileAt(call.i + 1) = NoFile ->
            call' = [call EXCEPT !.i = @ + 1] /\ UNCHANGED <<pc, result>>
       [] OTHER ->
            /\ call' = [call EXCEPT !.i = @ + 1, !.text = fileAt(call.i + 1)]
            /\ pc' = "add"
            /\ UNCHANGED result
  /\ UNCHANGED <<files, store, nsTable, namespaces>>

findFileInLoadPath_Stays ==
  /\ pc = "find"
  /\ CASE call.i > Len(loadPaths) -> returns("NSLoadError")
       [] call.i <= Len(loadPaths) /\ fileAt(call.i) = NoFile ->
            UNCHANGED <<call, pc, result>>
       [] OTHER ->
            /\ call' = [call EXCEPT !.text = fileAt(call.i)]
            /\ pc' = "add"
            /\ UNCHANGED result
  /\ UNCHANGED <<files, store, nsTable, namespaces>>

findFileInLoadPath_Untested ==
  /\ pc = "find"
  /\ IF call.i <= Len(loadPaths) /\ fileAt(call.i) = NoFile
     THEN call' = [call EXCEPT !.i = @ + 1] /\ UNCHANGED pc
     ELSE /\ call' = [call EXCEPT !.text = IF call.i > Len(loadPaths) THEN NoFile ELSE fileAt(call.i)]
          /\ pc' = "add"
  /\ UNCHANGED <<files, store, nsTable, result, namespaces>>

\* One iteration of findFileInLoadPath's loop; with no path left,
\* readNamespace() returns its error.
findFileInLoadPath ==
  /\ pc = "find"
  /\ CASE call.i > Len(loadPaths) -> returns("NSLoadError")
       [] call.i <= Len(loadPaths) /\ fileAt(call.i) = NoFile ->
            call' = [call EXCEPT !.i = @ + 1] /\ UNCHANGED <<pc, result>>
       [] OTHER ->
            /\ call' = [call EXCEPT !.text = fileAt(call.i)]
            /\ pc' = "add"
            /\ UNCHANGED result
  /\ UNCHANGED <<files, store, nsTable, namespaces>>

AddNewSourceBuffer_Replaces ==
  LET nb == [text |-> call.text, offsetCache |-> Null, name |-> call.name]
  IN /\ pc = "add"
     /\ buffers' = IF nsTable[call.name] # 0
                   THEN [buffers EXCEPT ![nsTable[call.name]].text = call.text]
                   ELSE Append(buffers, nb)
     /\ UNCHANGED <<capacity, caches>>
     /\ pc' = "index"
     /\ UNCHANGED <<files, nsTable, call, result, namespaces>>

\* push_back: a full vector moves its buffers and destroys what is left of
\* them.
AddNewSourceBuffer ==
  LET nb   == [text |-> call.text, offsetCache |-> Null, name |-> call.name]
      full == Len(buffers) = capacity
      old  == [i \in DOMAIN buffers |-> movedFrom(buffers[i])]
  IN /\ pc = "add"
     /\ buffers' = Append(buffers, nb)
     /\ capacity' = IF ~full THEN capacity ELSE IF capacity = 0 THEN 1 ELSE 2 * capacity
     /\ caches' = IF full THEN deleted(destroyed(old)) ELSE caches
     /\ pc' = "index"
     /\ UNCHANGED <<files, nsTable, call, result, namespaces>>

bufferId == Len(buffers) % IdMod

indexNamespace_KeepsFirst ==
  /\ pc = "index"
  /\ nsTable' = IF nsTable[call.name] # 0 THEN nsTable
                ELSE [nsTable EXCEPT ![call.name] = bufferId]
  /\ IF bufferId = 0
     THEN returns("NSAddToSMError")
     ELSE pc' = "read" /\ UNCHANGED <<call, result>>
  /\ UNCHANGED <<files, store, namespaces>>

\* The table is updated before the id is tested and before the text is read.
indexNamespace ==
  /\ pc = "index"
  /\ nsTable' = [nsTable EXCEPT ![call.name] = bufferId]
  /\ IF bufferId = 0
     THEN returns("NSAddToSMError")
     ELSE pc' = "read" /\ UNCHANGED <<call, result>>
  /\ UNCHANGED <<files, store, namespaces>>

\* serene::read() on the buffer that was just added, and the namespace.
\* The only body of ExpandTree() (namespace.cpp:76) always succeeds, so the
\* error branch behind its call (117-120) is left out.
read ==
  /\ pc = "read"
  /\ IF buffers[bufferId].text \in Readable
     THEN /\ namespaces' = namespaces \cup {[name |-> call.name, buffer |-> bufferId]}
          /\ returns("ok")
     ELSE /\ returns("ReadError")
          /\ UNCHANGED namespaces
  /\ UNCHANGED <<files, store, nsTable>>

(***************************************************************************)
(* The other operations, and the outside.                                  *)
(***************************************************************************)

\* A swap: the caller is left with the paths that were set before.
setLoadPaths ==
  /\ pc = "idle"
  /\ loadPaths' = dirs
  /\ dirs' = loadPaths
  /\ changed' = TRUE
  /\ UNCHANGED <<disk, store, nsTable, pc, call, result, namespaces>>

\* The caller fills its vector anew.
chooseDirs ==
  /\ pc = "idle"
  /\ dirs' \in PathLists \ {dirs}
  /\ UNCHANGED <<disk, loadPaths, changed, store, nsTable, pc, call, result, namespaces>>

\* The first lookup of a line in a buffer makes its cache.
lookup(i) ==
  LET b == buffers[i]
      T == elementType(b.text)
  IN /\ pc = "idle"
     /\ b.offsetCache = Null
     /\ caches' = Append(caches, [type |-> T, offsets |-> newlineOffsets(b.text, T),
                                  live |-> TRUE])
     /\ buffers' = [buffers EXCEPT ![i].offsetCache = Len(caches')]
     /\ UNCHANGED <<files, capacity, nsTable, pc, call, result, namespaces>>

\* A file is written or removed by someone else.
edit ==
  /\ pc # "destroyed"
  /\ \E place \in DOMAIN disk, new \in Texts \cup {NoFile} :
       new # disk[place] /\ disk' = [disk EXCEPT ![place] = new]
  /\ changed' = TRUE
  /\ UNCHANGED <<loadPaths, dirs, store, nsTable, pc, call, result, namespaces>>

\* ~SourceMgr.
destroy ==
  /\ pc = "idle"
  /\ pc' = "destroyed"
  /\ buffers' = <<>>
  /\ capacity' = 0
  /\ caches' = deleted(destroyed(buffers))
  /\ nsTable' = [name \in Names |-> 0]
  /\ UNCHANGED <<files, call, result, namespaces>>

Init ==
  /\ disk \in [Dirs \X Paths -> Texts \cup {NoFile}]
  /\ loadPaths = <<>>
  /\ dirs \in PathLists
  /\ changed = TRUE
  /\ buffers = <<>> /\ capacity = 0 /\ caches = <<>>
  /\ nsTable = [name \in Names |-> 0]
  /\ pc = "idle" /\ call = NoCall
  /\ result = "none" /\ namespaces = {}

\* What goes on inside a call, and what callers and the outside choose to do.
Inside ==
  findFileInLoadPath \/ AddNewSourceBuffer \/ indexNamespace \/ read

Outside ==
  \/ \E name \in Names : readNamespace(name)
  \/ \E i \in DOMAIN buffers : lookup(i)
  \/ setLoadPaths \/ chooseDirs \/ edit \/ destroy

Next == Inside \/ Outside

Spec == Init /\ [][Next]_vars

\* A call that was made goes on; nobody has to call or to edit.
FairSpec == Spec /\ WF_vars(Inside)

(***************************************************************************)
(* Properties.                                                             *)
(***************************************************************************)

SrcBuffer == [text : Texts, offsetCache : {Null} \cup (1 .. Len(caches)), name : Names]

\* The types of the fields and locals: what goes into the vector is a text
\* that was read, never a null pointer; capacity bounds the vector's size.
TypeOK ==
  /\ disk \in [Dirs \X Paths -> Texts \cup {NoFile}]
  /\ loadPaths \in Seq(Dirs) /\ dirs \in Seq(Dirs)
  /\ buffers \in Seq(SrcBuffer)
  /\ capacity \in Nat /\ Len(buffers) <= capacity
  /\ caches \in Seq([type : Nat, offsets : Seq(Nat), live : BOOLEAN])
  /\ nsTable \in [Names -> 0 .. MaxBuffers]
  /\ pc \in {"idle", "find", "add", "index", "read", "destroyed"}
  /\ call.name \in Names \cup {<<>>} /\ call.i \in Nat /\ call.text \in Texts \cup {<<>>}
  /\ changed \in BOOLEAN
  /\ result \in {"none", "ok", "NSLoadError", "NSAddToSMError", "ReadError"}
  /\ namespaces \subseteq [name : Names, buffer : 1 .. MaxBuffers]

\* The live offset caches are exactly the ones that buffers point to, each
\* from one buffer, so that none leaks, dangles or is deleted twice however
\* the vector moves; and each has the element type that ~SrcBuffer, which
\* selects it again from the size of the text, will delete it as.
CachesOwnedOnce ==
  /\ Live = destroyed(buffers)
  /\ \A i, j \in DOMAIN buffers :
       i # j /\ buffers[i].offsetCache # Null => buffers[i].offsetCache # buffers[j].offsetCache
  /\ \A i \in DOMAIN buffers : LET c == buffers[i].offsetCache IN
       c # Null => caches[c].type = elementType(buffers[i].text)

\* Asked for any line from 1 on, a buffer answers with its first character,
\* or null past the last line: before its cache exists, after it was filled
\* and after the buffer was moved, and for every width of the offsets.
LookupExact ==
  \A i \in DOMAIN buffers : \A lineNo \in 1 .. Len(buffers[i].text) + 2 :
    StartsLine(buffers[i].text, lineNo, getPointerForLineNumber(buffers[i], lineNo))

\* getBufferInfo(ns) calls it unreachable that a namespace has no buffer, and
\* indexes the vector without a test: a name in the table leads to the
\* newest buffer that was added under it, and a namespace that was ever made
\* has its name in the table while the manager lives.
TableLeadsToNewest ==
  /\ \A name \in Names : nsTable[name] # 0 =>
       /\ nsTable[name] <= Len(buffers) /\ buffers[nsTable[name]].name = name
       /\ \A i \in DOMAIN buffers : buffers[i].name = name =>
            i <= nsTable[name] \/ (pc = "index" /\ i = Len(buffers))
  /\ pc # "destroyed" => \A ns \in namespaces : nsTable[ns.name] # 0

\* The file taken is the one of the first load path that has one, and "not
\* found" means that none has, unless files or paths changed since the call.
FirstInLoadPath ==
  ~changed =>
    /\ pc \in {"add", "index", "read"} =>
         LET i == call.i IN /\ fileAt(i) = call.text
                            /\ \A j \in 1 .. i - 1 : fileAt(j) = NoFile
    /\ pc = "find" => \A j \in 1 .. call.i - 1 : fileAt(j) = NoFile

\* A text that was handed out (the reader's locations point into it) stays
\* where it is under its id until the manager is destroyed.
TextsStay ==
  [][pc' # "destroyed" =>
       /\ Len(buffers) <= Len(buffers')
       /\ \A i \in DOMAIN buffers : buffers'[i].text = buffers[i].text]_vars

\* Every readNamespace() returns, whatever happens to the files meanwhile.
CallsReturn == (pc = "find") ~> (pc = "idle")

\* What source_mgr.h says the table is for: whoever needs the source of a
\* namespace finds it by its name.  Of the namespaces of one name it is
\* asked of the newest only, between calls.
TableFindsSource ==
  pc = "idle" => \A ns \in namespaces :
    (\A other \in namespaces : other.name = ns.name => other.buffer <= ns.buffer)
      => nsTable[ns.name] = ns.buffer
=============================================================================
