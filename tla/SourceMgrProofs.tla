-------------------------- MODULE SourceMgrProofs --------------------------
(***************************************************************************)
(* Proofs about SourceMgr, for every set of names, directories and texts,  *)
(* every choice of the element types and any number of buffers.            *)
(***************************************************************************)
EXTENDS SourceMgr, LineIndexProofs

Buffer == [text : Texts, offsetCache : {Null} \cup Nat, name : Names]

\* A cache as a lookup makes it for some text.
Cache == [type    : {elementType(t) : t \in Texts},
          offsets : {newlineOffsets(t, elementType(t)) : t \in Texts},
          live    : BOOLEAN]

Called == pc \in {"find", "add", "index", "read"}

\* The part of the types that the arguments below need.
Shape ==
  /\ buffers \in Seq(Buffer) /\ caches \in Seq(Cache)
  /\ nsTable \in [Names -> Nat]
  /\ Called => call.name \in Names
  /\ pc \in {"add", "index", "read"} => call.text \in Texts
  /\ pc = "find" => call.i \in Nat /\ call.i >= 1
  /\ loadPaths \in Seq(Dirs) /\ dirs \in Seq(Dirs)
  /\ disk \in [Dirs \X Paths -> Texts \cup {NoFile}]
  /\ namespaces \subseteq [name : Names, buffer : Nat]

LEMMA NameHasPath ==
  ASSUME NEW name \in Names PROVE convertNamespaceToPath(name) \in Paths
BY DEF Paths

LEMMA InitShape == Init => Shape
BY SourceMgrAssumption DEF Init, Shape, Called

LEMMA ReturnsShape ==
  ASSUME NEW s, returns(s)
  PROVE  ~Called' /\ pc' \notin {"add", "index", "read"} /\ pc' # "find"
BY DEF returns, Called

\* Deleting caches leaves their places, and deleting none nothing changed.
LEMMA DeletedShape ==
  ASSUME caches \in Seq(Cache), NEW A
  PROVE  /\ deleted(A) \in Seq(Cache) /\ DOMAIN deleted(A) = DOMAIN caches
         /\ \A c \in DOMAIN caches :
              deleted(A)[c] = IF c \in A THEN [caches[c] EXCEPT !.live = FALSE] ELSE caches[c]
         /\ deleted({}) = caches
<1>1. \A c \in DOMAIN caches : caches[c] \in Cache /\ [caches[c] EXCEPT !.live = FALSE] \in Cache
  <2>1. ASSUME NEW r \in Cache PROVE [r EXCEPT !.live = FALSE] \in Cache
    <3> DEFINE A1 == {elementType(t) : t \in Texts}
               A2 == {newlineOffsets(t, elementType(t)) : t \in Texts}
    <3>1. Cache = [type : A1, offsets : A2, live : BOOLEAN]
      BY DEF Cache
    <3> HIDE DEF A1, A2
    <3> QED
      BY <2>1, <3>1
  <2>2. \A c \in DOMAIN caches : caches[c] \in Cache
    OBVIOUS
  <2> QED
    BY <2>1, <2>2
<1>2. DOMAIN caches = 1 .. Len(caches) /\ Len(caches) \in Nat
  OBVIOUS
<1>3. caches = [c \in DOMAIN caches |-> caches[c]]
  OBVIOUS
<1> HIDE DEF Cache
<1>4. ASSUME NEW S PROVE deleted(S) \in [1 .. Len(caches) -> Cache]
  BY <1>1, <1>2 DEF deleted
<1>5. \A s : s \in [1 .. Len(caches) -> Cache] => s \in Seq(Cache)
  BY <1>2
<1>6. deleted({}) = [c \in DOMAIN caches |-> caches[c]]
  BY Zenon DEF deleted
<1> QED
  BY <1>2, <1>3, <1>4, <1>5, <1>6 DEF deleted

\* A buffer is added behind the others, which keep all they have, and no cache
\* is deleted: what the move leaves in the old buffers has none.
LEMMA AddStep ==
  ASSUME Shape, AddNewSourceBuffer
  PROVE  /\ caches' = caches /\ buffers' \in Seq(Buffer)
         /\ buffers' = Append(buffers, [text |-> call.text, offsetCache |-> Null,
                                        name |-> call.name])
<1> DEFINE nb  == [text |-> call.text, offsetCache |-> Null, name |-> call.name]
           old == [i \in DOMAIN buffers |-> movedFrom(buffers[i])]
<1>1. nb \in Buffer /\ buffers \in Seq(Buffer) /\ caches \in Seq(Cache)
  BY DEF Shape, AddNewSourceBuffer, Called, Buffer
<1>2. buffers' = Append(buffers, nb)
  BY DEF AddNewSourceBuffer
<1>3. \A i \in DOMAIN buffers : old[i].offsetCache = Null
  <2>1. \A b \in Buffer : movedFrom(b).offsetCache = Null
    BY DEF movedFrom, Buffer
  <2>2. \A i \in DOMAIN buffers : buffers[i] \in Buffer
    BY <1>1
  <2> QED
    BY <2>1, <2>2
<1>4. destroyed(old) = {}
  BY <1>3 DEF destroyed
<1>5. deleted({}) = caches
  BY <1>1, DeletedShape
<1>6. caches' = caches
  BY <1>4, <1>5 DEF AddNewSourceBuffer
<1> HIDE DEF nb, old
<1>7. buffers' \in Seq(Buffer)
  BY <1>1, <1>2
<1> QED
  BY <1>2, <1>6, <1>7 DEF nb

\* The first lookup in a buffer: a new cache, which only that buffer has.
LEMMA LookupStep ==
  ASSUME Shape, NEW i \in DOMAIN buffers, lookup(i)
  PROVE  /\ buffers[i].offsetCache = Null
         /\ caches' \in Seq(Cache) /\ buffers' \in Seq(Buffer)
         /\ Len(caches') = Len(caches) + 1 /\ Len(caches) \in Nat
         /\ \A c \in 1 .. Len(caches) : caches'[c] = caches[c]
         /\ caches'[Len(caches) + 1].live
         /\ caches'[Len(caches) + 1].type = elementType(buffers[i].text)
         /\ caches'[Len(caches) + 1].offsets =
              newlineOffsets(buffers[i].text, elementType(buffers[i].text))
         /\ DOMAIN buffers' = DOMAIN buffers
         /\ buffers'[i].offsetCache = Len(caches) + 1
         /\ \A j \in DOMAIN buffers :
              /\ buffers'[j].text = buffers[j].text /\ buffers'[j].name = buffers[j].name
              /\ j # i => buffers'[j] = buffers[j]
<1> DEFINE T  == elementType(buffers[i].text)
           nc == [type |-> T, offsets |-> newlineOffsets(buffers[i].text, T), live |-> TRUE]
           nb == [buffers[i] EXCEPT !.offsetCache = Len(caches')]
<1>1. buffers \in Seq(Buffer) /\ caches \in Seq(Cache) /\ buffers[i] \in Buffer
  BY DEF Shape
<1>2. nc \in Cache
  BY <1>1 DEF Cache, Buffer
<1>3. caches' = Append(caches, nc) /\ buffers[i].offsetCache = Null
  BY DEF lookup
<1>4. buffers' = [buffers EXCEPT ![i] = nb]
  BY DEF lookup
<1>5. nc.live /\ nc.type = T /\ nc.offsets = newlineOffsets(buffers[i].text, T)
  OBVIOUS
<1> HIDE DEF nc
<1>6. /\ caches' \in Seq(Cache) /\ Len(caches') = Len(caches) + 1 /\ Len(caches) \in Nat
      /\ \A c \in 1 .. Len(caches) : caches'[c] = caches[c]
      /\ caches'[Len(caches) + 1] = nc
  BY <1>1, <1>2, <1>3
<1>7. /\ nb \in Buffer /\ nb.offsetCache = Len(caches) + 1
      /\ nb.text = buffers[i].text /\ nb.name = buffers[i].name
  BY <1>1, <1>6 DEF Buffer
<1> HIDE DEF nb, T
<1>8. buffers' \in Seq(Buffer) /\ DOMAIN buffers' = DOMAIN buffers
  BY <1>1, <1>4, <1>7
<1> QED
  BY <1>1, <1>3, <1>4, <1>5, <1>6, <1>7, <1>8 DEF T

LEMMA StepShape == ASSUME Shape, [Next]_vars PROVE Shape'
<1> USE DEF Called
<1>1. CASE findFileInLoadPath
  <2>1. CASE call.i > Len(loadPaths)
    BY <1>1, <2>1, ReturnsShape DEF findFileInLoadPath, Shape, files, store
  <2>2. CASE call.i <= Len(loadPaths) /\ fileAt(call.i) = NoFile
    <3>1. call' = [call EXCEPT !.i = @ + 1] /\ pc' = "find" /\ pc = "find"
      BY <1>1, <2>2 DEF findFileInLoadPath, Shape
    <3>2. call'.name = call.name /\ call'.i \in Nat /\ call'.i >= 1
      BY <3>1 DEF Shape
    <3> QED
      BY <1>1, <3>1, <3>2 DEF findFileInLoadPath, Shape, files, store
  <2>3. CASE call.i <= Len(loadPaths) /\ fileAt(call.i) # NoFile
    <3>1. call' = [call EXCEPT !.text = fileAt(call.i)] /\ pc' = "add" /\ pc = "find"
      BY <1>1, <2>3 DEF findFileInLoadPath, Shape
    <3>2. fileAt(call.i) \in Texts
      BY <2>3, <3>1, NameHasPath DEF fileAt, Shape
    <3>3. call'.name = call.name /\ call'.text \in Texts
      BY <3>1, <3>2 DEF Shape
    <3> QED
      BY <1>1, <3>1, <3>3 DEF findFileInLoadPath, Shape, files, store
  <2> QED
    BY <1>1, <2>1, <2>2, <2>3 DEF findFileInLoadPath, Shape
<1>2. CASE AddNewSourceBuffer
  BY <1>2, AddStep DEF AddNewSourceBuffer, Shape, files
<1>3. CASE indexNamespace
  <2>1. bufferId \in Nat
    BY SourceMgrAssumption DEF bufferId, Shape
  <2>2. nsTable' \in [Names -> Nat]
    BY <1>3, <2>1 DEF indexNamespace, Shape
  <2> QED
    BY <1>3, <2>2, ReturnsShape DEF indexNamespace, Shape, files, store
<1>4. CASE read
  <2>1. bufferId \in Nat
    BY SourceMgrAssumption DEF bufferId, Shape
  <2> QED
    BY <1>4, <2>1, ReturnsShape DEF read, Shape, files, store
<1>5. CASE \E name \in Names : readNamespace(name)
  <2>1. PICK name \in Names : readNamespace(name)
    BY <1>5
  <2>2. call'.name = name /\ call'.i = 1
    BY <2>1 DEF readNamespace, NoCall
  <2> QED
    BY <2>1, <2>2 DEF readNamespace, Shape, store
<1>6. CASE \E i \in DOMAIN buffers : lookup(i)
  BY <1>6, LookupStep DEF lookup, Shape, files
<1>7. CASE setLoadPaths
  BY <1>7 DEF setLoadPaths, Shape, store
<1>8. CASE chooseDirs
  BY <1>8, SourceMgrAssumption DEF chooseDirs, Shape, store
<1>9. CASE edit
  <2>1. disk' \in [Dirs \X Paths -> Texts \cup {NoFile}]
    BY <1>9 DEF edit, Shape
  <2> QED
    BY <1>9, <2>1 DEF edit, Shape, store
<1>10. CASE destroy
  <2>1. deleted(destroyed(buffers)) \in Seq(Cache)
    BY DeletedShape DEF Shape
  <2> QED
    BY <1>10, <2>1 DEF destroy, Shape, files
<1>11. CASE UNCHANGED vars
  BY <1>11 DEF vars, Shape, files, store
<1> QED
  BY <1>1, <1>2, <1>3, <1>4, <1>5, <1>6, <1>7, <1>8, <1>9, <1>10, <1>11
  DEF Next, Inside, Outside

\* Every behaviour has the shape.
LEMMA ShapeInvariant == Spec => []Shape
<1>1. Shape /\ [Next]_vars => Shape'
  BY StepShape
<1> QED
  BY InitShape, <1>1, PTL DEF Spec

(***************************************************************************)
(* Texts.                                                                  *)
(***************************************************************************)

\* A text that readNamespace() has added stays where it is, whatever is added,
\* looked up or edited afterwards (SourceMgr::buffers, until ~SourceMgr).
THEOREM TextsKept == Spec => TextsStay
<1> DEFINE Kept == pc' # "destroyed" =>
                     /\ Len(buffers) <= Len(buffers')
                     /\ \A i \in DOMAIN buffers : buffers'[i].text = buffers[i].text
<1>1. ASSUME Shape, [Next]_vars PROVE Kept
  <2>1. CASE AddNewSourceBuffer
    <3> DEFINE nb == [text |-> call.text, offsetCache |-> Null, name |-> call.name]
    <3>1. buffers' = Append(buffers, nb) /\ buffers \in Seq(Buffer)
      BY <1>1, <2>1, AddStep DEF Shape
    <3> HIDE DEF nb
    <3>2. Len(buffers') = Len(buffers) + 1 /\ \A i \in DOMAIN buffers : buffers'[i] = buffers[i]
      BY <3>1
    <3> QED
      BY <3>1, <3>2
  <2>2. CASE \E i \in DOMAIN buffers : lookup(i)
    <3>1. PICK i \in DOMAIN buffers : lookup(i)
      BY <2>2
    <3>2. /\ buffers' \in Seq(Buffer) /\ buffers \in Seq(Buffer)
          /\ DOMAIN buffers' = DOMAIN buffers
          /\ \A j \in DOMAIN buffers : buffers'[j].text = buffers[j].text
      BY <1>1, <3>1, LookupStep DEF Shape
    <3>3. Len(buffers') = Len(buffers) /\ Len(buffers) \in Nat
      BY <3>2
    <3> QED
      BY <3>2, <3>3
  <2>3. CASE destroy
    BY <2>3 DEF destroy
  <2>4. CASE UNCHANGED buffers
    BY <1>1, <2>4 DEF Shape
  <2> QED
    BY <1>1, <2>1, <2>2, <2>3, <2>4
    DEF Next, Inside, Outside, findFileInLoadPath, indexNamespace, read, readNamespace,
        setLoadPaths, chooseDirs, edit, vars, store
<1>2. Shape /\ [Next]_vars => [Kept]_vars
  BY <1>1
<1> QED
  BY ShapeInvariant, <1>2, PTL DEF Spec, TextsStay

(***************************************************************************)
(* The offset caches.                                                      *)
(***************************************************************************)

\* The first lookup in a buffer adds one live cache and its one owner.
LEMMA LookupKeepsCaches ==
  ASSUME Shape, CachesOwnedOnce, NEW i \in DOMAIN buffers, lookup(i)
  PROVE  CachesOwnedOnce'
<1> DEFINE n == Len(caches) + 1
<1>1. /\ buffers \in Seq(Buffer) /\ caches \in Seq(Cache) /\ n \in Nat
      /\ buffers' \in Seq(Buffer) /\ caches' \in Seq(Cache)
  BY LookupStep DEF Shape
<1>2. /\ DOMAIN caches = 1 .. n - 1 /\ DOMAIN caches' = 1 .. n /\ n # Null
  BY <1>1, LookupStep DEF Null
<1>3. Live' = Live \cup {n}
  BY <1>1, <1>2, LookupStep DEF Live
<1>4. \A j \in DOMAIN buffers : buffers[j].offsetCache # Null => buffers[j].offsetCache \in 1 .. n - 1
  BY <1>2 DEF CachesOwnedOnce, Live, destroyed
<1>5. destroyed(buffers)' = destroyed(buffers) \cup {n}
  <2>1. /\ buffers[i].offsetCache = Null /\ buffers'[i].offsetCache = n
        /\ DOMAIN buffers' = DOMAIN buffers
        /\ \A j \in DOMAIN buffers : j # i => buffers'[j] = buffers[j]
    BY LookupStep
  <2> QED
    BY <1>2, <2>1 DEF destroyed
<1>6. \A j, k \in DOMAIN buffers' :
        j # k /\ buffers'[j].offsetCache # Null => buffers'[j].offsetCache # buffers'[k].offsetCache
  BY <1>1, <1>2, <1>4, LookupStep DEF CachesOwnedOnce
<1>7. ASSUME NEW j \in DOMAIN buffers', buffers'[j].offsetCache # Null
      PROVE  caches'[buffers'[j].offsetCache].type = elementType(buffers'[j].text)
  <2>1. CASE j = i
    BY <2>1, <1>7, LookupStep
  <2>2. CASE j # i
    <3>1. j \in DOMAIN buffers /\ buffers'[j] = buffers[j]
      BY <2>2, LookupStep
    <3>2. caches'[buffers[j].offsetCache] = caches[buffers[j].offsetCache]
      BY <1>4, <1>7, <3>1, LookupStep
    <3> QED
      BY <1>7, <3>1, <3>2 DEF CachesOwnedOnce
  <2> QED
    BY <2>1, <2>2
<1> QED
  BY <1>3, <1>5, <1>6, <1>7 DEF CachesOwnedOnce

LEMMA AddKeepsCaches ==
  ASSUME Shape, CachesOwnedOnce, AddNewSourceBuffer
  PROVE  CachesOwnedOnce'
<1> DEFINE nb == [text |-> call.text, offsetCache |-> Null, name |-> call.name]
<1>1. buffers \in Seq(Buffer) /\ buffers' \in Seq(Buffer) /\ caches' = caches
  BY AddStep DEF Shape
<1>2. buffers' = Append(buffers, nb) /\ nb.offsetCache = Null
  BY AddStep
<1> HIDE DEF nb
<1>3. /\ Len(buffers) \in Nat /\ DOMAIN buffers = 1 .. Len(buffers)
      /\ DOMAIN buffers' = 1 .. Len(buffers) + 1
      /\ \A i \in DOMAIN buffers : buffers'[i] = buffers[i]
      /\ buffers'[Len(buffers) + 1].offsetCache = Null
  BY <1>1, <1>2
<1>4. destroyed(buffers)' = destroyed(buffers)
  BY <1>3 DEF destroyed
<1>5. Live' = Live
  BY <1>1 DEF Live
<1>6. \A i \in DOMAIN buffers' : buffers'[i].offsetCache # Null =>
        i \in DOMAIN buffers /\ buffers'[i] = buffers[i]
  BY <1>3
<1> QED
  BY <1>1, <1>3, <1>4, <1>5, <1>6 DEF CachesOwnedOnce

LEMMA DestroyKeepsCaches ==
  ASSUME Shape, CachesOwnedOnce, destroy
  PROVE  CachesOwnedOnce'
<1>1. buffers' = <<>> /\ caches' = deleted(destroyed(buffers))
  BY DEF destroy
<1>2. destroyed(buffers)' = {}
  BY <1>1 DEF destroyed
<1>3. Live' = {}
  <2>1. Live = destroyed(buffers) /\ caches \in Seq(Cache)
    BY DEF CachesOwnedOnce, Shape
  <2>2. DOMAIN caches' = DOMAIN caches
    BY <1>1, <2>1, DeletedShape
  <2>3. ASSUME NEW c \in DOMAIN caches PROVE ~caches'[c].live
    <3>1. CASE c \in destroyed(buffers)
      <4>1. caches'[c] = [caches[c] EXCEPT !.live = FALSE]
        BY <1>1, <2>1, <3>1, DeletedShape
      <4>2. caches[c] \in Cache
        BY <2>1
      <4> QED
        BY <4>1, <4>2 DEF Cache
    <3>2. CASE c \notin destroyed(buffers)
      <4>1. caches'[c] = caches[c]
        BY <1>1, <2>1, <3>2, DeletedShape
      <4> QED
        BY <2>1, <3>2, <4>1 DEF Live
    <3> QED
      BY <3>1, <3>2
  <2> QED
    BY <2>2, <2>3 DEF Live
<1> QED
  BY <1>1, <1>2, <1>3 DEF CachesOwnedOnce

\* Each live cache has one owner, and the type that its owner's destructor
\* will delete it as: no leak, no double deletion (SrcBuffer's void pointer).
THEOREM CachesSafe == Spec => []CachesOwnedOnce
<1>1. Init => CachesOwnedOnce
  BY DEF Init, CachesOwnedOnce, Live, destroyed
<1>2. ASSUME Shape, CachesOwnedOnce, [Next]_vars PROVE CachesOwnedOnce'
  <2>1. CASE UNCHANGED <<buffers, caches>>
    BY <1>2, <2>1 DEF CachesOwnedOnce, Live, destroyed
  <2> QED
    BY <1>2, <2>1, AddKeepsCaches, LookupKeepsCaches, DestroyKeepsCaches
    DEF Next, Inside, Outside, findFileInLoadPath, indexNamespace, read, readNamespace,
        setLoadPaths, chooseDirs, edit, vars, store
<1> QED
  BY <1>1, <1>2, ShapeInvariant, PTL DEF Spec

(***************************************************************************)
(* The table.                                                              *)
(***************************************************************************)

\* The bounds that keep an id from wrapping, and what indexNamespace() leaves
\* for read(): the name it entered.
Table ==
  /\ Len(buffers) <= MaxBuffers
  /\ pc \in {"find", "add"} => Len(buffers) < MaxBuffers
  /\ pc \in {"index", "read"} =>
       Len(buffers) > 0 /\ buffers[Len(buffers)].name = call.name
  /\ pc = "read" => nsTable[call.name] = Len(buffers)
  /\ TableLeadsToNewest

LEMMA IdIsLength ==
  ASSUME MaxBuffers < IdMod, Shape, Table
  PROVE  bufferId = Len(buffers)
<1>1. Len(buffers) \in Nat /\ MaxBuffers \in Nat /\ IdMod \in Nat
  BY SourceMgrAssumption DEF Shape
<1>2. Len(buffers) < IdMod
  BY <1>1 DEF Table
<1> QED
  BY <1>1, <1>2 DEF bufferId

LEMMA AddKeepsTable ==
  ASSUME Shape, Table, AddNewSourceBuffer
  PROVE  Table'
<1> DEFINE nb == [text |-> call.text, offsetCache |-> Null, name |-> call.name]
<1>1. /\ buffers' = Append(buffers, nb) /\ nb.name = call.name
      /\ buffers \in Seq(Buffer) /\ MaxBuffers \in Nat /\ nsTable \in [Names -> Nat]
  BY AddStep, SourceMgrAssumption DEF Shape
<1> HIDE DEF nb
<1>2. /\ Len(buffers) \in Nat /\ Len(buffers') = Len(buffers) + 1
      /\ DOMAIN buffers = 1 .. Len(buffers) /\ DOMAIN buffers' = 1 .. Len(buffers')
      /\ \A i \in DOMAIN buffers : buffers'[i] = buffers[i]
      /\ buffers'[Len(buffers')].name = call.name
  BY <1>1
<1>3. pc = "add" /\ pc' = "index" /\ UNCHANGED <<nsTable, call, namespaces>>
  BY DEF AddNewSourceBuffer
<1>4. TableLeadsToNewest'
  BY <1>1, <1>2, <1>3 DEF Table, TableLeadsToNewest
<1> QED
  BY <1>1, <1>2, <1>3, <1>4 DEF Table

LEMMA IndexKeepsTable ==
  ASSUME MaxBuffers < IdMod, Shape, Table, indexNamespace
  PROVE  Table'
<1> DEFINE n == Len(buffers)
<1>1. /\ buffers' = buffers /\ namespaces' = namespaces /\ n > 0 /\ n \in Nat
      /\ buffers[n].name = call.name /\ n \in DOMAIN buffers /\ pc = "index"
      /\ DOMAIN buffers = 1 .. n /\ call.name \in Names /\ nsTable \in [Names -> Nat]
  BY DEF indexNamespace, Shape, Table, store, Called
<1>2. nsTable' = [nsTable EXCEPT ![call.name] = n] /\ pc' = "read" /\ call' = call
  <2>1. bufferId = n /\ bufferId # 0
    BY <1>1, IdIsLength
  <2> QED
    BY <2>1 DEF indexNamespace
<1>3. nsTable'[call.name] = n /\ \A name \in Names : name # call.name => nsTable'[name] = nsTable[name]
  BY <1>1, <1>2
<1>4. ASSUME NEW name \in Names, nsTable'[name] # 0
      PROVE  /\ nsTable'[name] <= Len(buffers) /\ buffers[nsTable'[name]].name = name
             /\ \A i \in DOMAIN buffers : buffers[i].name = name => i <= nsTable'[name]
  <2>1. CASE name = call.name
    BY <1>1, <1>3, <2>1
  <2>2. CASE name # call.name
    BY <1>1, <1>3, <1>4, <2>2 DEF Table, TableLeadsToNewest
  <2> QED
    BY <2>1, <2>2
<1>5. \A ns \in namespaces : nsTable'[ns.name] # 0
  <2>1. \A ns \in namespaces : ns.name \in Names /\ nsTable[ns.name] # 0
    BY <1>1 DEF Shape, Table, TableLeadsToNewest
  <2> QED
    BY <1>1, <1>3, <2>1
<1>6. TableLeadsToNewest'
  BY <1>1, <1>2, <1>4, <1>5 DEF TableLeadsToNewest
<1> QED
  BY <1>1, <1>2, <1>3, <1>6 DEF Table

LEMMA ReadKeepsTable ==
  ASSUME MaxBuffers < IdMod, Shape, Table, read
  PROVE  Table'
<1>1. /\ UNCHANGED <<buffers, nsTable>> /\ pc = "read" /\ pc' = "idle"
      /\ nsTable[call.name] = Len(buffers) /\ Len(buffers) > 0
  BY DEF read, returns, Table, store
<1>2. \A ns \in namespaces' : nsTable[ns.name] # 0
  <2>1. namespaces' \subseteq namespaces \cup {[name |-> call.name, buffer |-> bufferId]}
    BY DEF read
  <2>2. \A ns \in namespaces : nsTable[ns.name] # 0
    BY <1>1 DEF Table, TableLeadsToNewest
  <2> QED
    BY <1>1, <2>1, <2>2 DEF Shape
<1>3. TableLeadsToNewest'
  BY <1>1, <1>2 DEF Table, TableLeadsToNewest
<1> QED
  BY <1>1, <1>3 DEF Table

LEMMA LookupKeepsTable ==
  ASSUME Shape, Table, NEW i \in DOMAIN buffers, lookup(i)
  PROVE  Table'
<1>1. /\ buffers \in Seq(Buffer) /\ buffers' \in Seq(Buffer)
      /\ DOMAIN buffers' = DOMAIN buffers
      /\ \A j \in DOMAIN buffers : buffers'[j].name = buffers[j].name
  BY LookupStep DEF Shape
<1>2. Len(buffers') = Len(buffers) /\ DOMAIN buffers = 1 .. Len(buffers) /\ Len(buffers) \in Nat
  BY <1>1
<1>3. pc = "idle" /\ UNCHANGED <<nsTable, pc, namespaces>>
  BY DEF lookup
<1>4. ASSUME NEW name \in Names, nsTable[name] # 0
      PROVE  /\ nsTable[name] <= Len(buffers') /\ buffers'[nsTable[name]].name = name
             /\ \A j \in DOMAIN buffers' : buffers'[j].name = name => j <= nsTable[name]
  <2>1. nsTable[name] \in Nat
    BY DEF Shape
  <2>2. /\ nsTable[name] <= Len(buffers) /\ buffers[nsTable[name]].name = name
        /\ \A j \in DOMAIN buffers : buffers[j].name = name => j <= nsTable[name]
    BY <1>3, <1>4 DEF Table, TableLeadsToNewest
  <2> QED
    BY <1>1, <1>2, <1>4, <2>1, <2>2
<1>5. TableLeadsToNewest'
  BY <1>3, <1>4 DEF Table, TableLeadsToNewest
<1> QED
  BY <1>2, <1>3, <1>5 DEF Table

\* If ids do not wrap, a name in the table leads to the newest text that was
\* added under it, and every namespace that was made is in the table, on which
\* getBufferInfo() relies without a test.
THEOREM TableCorrect ==
  ASSUME MaxBuffers < IdMod
  PROVE  Spec => []TableLeadsToNewest
<1>1. Init => Table
  BY SourceMgrAssumption DEF Init, Table, TableLeadsToNewest
<1>2. ASSUME Shape, Table, [Next]_vars PROVE Table'
  <2>1. CASE findFileInLoadPath
    <3>1. /\ UNCHANGED <<buffers, nsTable, namespaces>> /\ pc = "find"
          /\ pc' \in {"idle", "find", "add"}
      BY <2>1 DEF findFileInLoadPath, store, returns
    <3>2. TableLeadsToNewest'
      BY <1>2, <3>1 DEF Table, TableLeadsToNewest
    <3> QED
      BY <1>2, <3>1, <3>2 DEF Table
  <2>2. CASE \E name \in Names : readNamespace(name)
    <3>1. /\ UNCHANGED <<buffers, nsTable, namespaces>> /\ pc = "idle" /\ pc' = "find"
          /\ Len(buffers) < MaxBuffers
      BY <2>2 DEF readNamespace, store
    <3>2. TableLeadsToNewest'
      BY <1>2, <3>1 DEF Table, TableLeadsToNewest
    <3> QED
      BY <1>2, <3>1, <3>2 DEF Table
  <2>3. CASE destroy
    BY <2>3, SourceMgrAssumption DEF destroy, Table, TableLeadsToNewest
  <2>4. CASE UNCHANGED <<buffers, nsTable, namespaces, pc, call>>
    BY <1>2, <2>4 DEF Table, TableLeadsToNewest
  <2> QED
    BY <1>2, <2>1, <2>2, <2>3, <2>4, AddKeepsTable, IndexKeepsTable, ReadKeepsTable,
       LookupKeepsTable
    DEF Next, Inside, Outside, setLoadPaths, chooseDirs, edit, vars, store
<1>3. Table => TableLeadsToNewest
  BY DEF Table
<1> QED
  BY <1>1, <1>2, <1>3, ShapeInvariant, PTL DEF Spec

(***************************************************************************)
(* The search.                                                             *)
(***************************************************************************)

\* The file that is read is the one of the first load path that has one, as
\* long as neither files nor load paths change after the call.
THEOREM FirstFound == Spec => []FirstInLoadPath
<1>1. Init => FirstInLoadPath
  BY DEF Init, FirstInLoadPath
<1>2. ASSUME Shape, FirstInLoadPath, [Next]_vars PROVE FirstInLoadPath'
  <2>1. CASE findFileInLoadPath
    <3>1. UNCHANGED <<disk, loadPaths, changed>> /\ pc = "find" /\ call.i \in Nat /\ call.i >= 1
      BY <1>2, <2>1 DEF findFileInLoadPath, files, Shape
    <3>2. CASE call.i > Len(loadPaths)
      BY <2>1, <3>1, <3>2 DEF findFileInLoadPath, returns, FirstInLoadPath
    <3>3. CASE call.i <= Len(loadPaths) /\ fileAt(call.i) = NoFile
      <4>1. call' = [call EXCEPT !.i = @ + 1] /\ pc' = "find"
        BY <2>1, <3>1, <3>3 DEF findFileInLoadPath, Shape
      <4> QED
        BY <1>2, <3>1, <3>3, <4>1 DEF FirstInLoadPath, fileAt
    <3>4. CASE call.i <= Len(loadPaths) /\ fileAt(call.i) # NoFile
      <4>1. call' = [call EXCEPT !.text = fileAt(call.i)] /\ pc' = "add"
        BY <2>1, <3>1, <3>4 DEF findFileInLoadPath, Shape
      <4> QED
        BY <1>2, <3>1, <3>4, <4>1 DEF FirstInLoadPath, fileAt
    <3> QED
      BY <1>2, <3>1, <3>2, <3>3, <3>4 DEF Shape
  <2>2. CASE \E name \in Names : readNamespace(name)
    BY <2>2 DEF readNamespace, NoCall, FirstInLoadPath
  <2>3. CASE AddNewSourceBuffer
    BY <1>2, <2>3 DEF AddNewSourceBuffer, files, FirstInLoadPath, fileAt
  <2>4. CASE indexNamespace
    BY <1>2, <2>4 DEF indexNamespace, returns, files, FirstInLoadPath, fileAt
  <2>5. CASE pc' \in {"idle", "destroyed"}
    BY <2>5 DEF FirstInLoadPath
  <2>6. CASE changed'
    BY <2>6 DEF FirstInLoadPath
  <2>7. CASE UNCHANGED vars
    BY <1>2, <2>7 DEF vars, files, FirstInLoadPath, fileAt
  <2> QED
    BY <1>2, <2>1, <2>2, <2>3, <2>4, <2>5, <2>6, <2>7
    DEF Next, Inside, Outside, read, returns, lookup, setLoadPaths, chooseDirs, edit, destroy
<1> QED
  BY <1>1, <1>2, ShapeInvariant, PTL DEF Spec

(***************************************************************************)
(* The lines.                                                              *)
(***************************************************************************)

\* A buffer's cache is the index of the buffer's own text.
OwnOffsets ==
  \A i \in DOMAIN buffers : LET b == buffers[i] IN
    b.offsetCache # Null =>
      /\ b.offsetCache \in 1 .. Len(caches)
      /\ caches[b.offsetCache].offsets = newlineOffsets(b.text, elementType(b.text))

LEMMA AddKeepsOffsets ==
  ASSUME Shape, OwnOffsets, AddNewSourceBuffer
  PROVE  OwnOffsets'
<1> DEFINE nb == [text |-> call.text, offsetCache |-> Null, name |-> call.name]
<1>1. /\ buffers' = Append(buffers, nb) /\ nb.offsetCache = Null
      /\ buffers \in Seq(Buffer) /\ caches' = caches
  BY AddStep DEF Shape
<1> HIDE DEF nb
<1>2. \A i \in DOMAIN buffers' : buffers'[i].offsetCache # Null =>
        i \in DOMAIN buffers /\ buffers'[i] = buffers[i]
  BY <1>1
<1> QED
  BY <1>1, <1>2 DEF OwnOffsets

LEMMA LookupKeepsOffsets ==
  ASSUME Shape, OwnOffsets, NEW i \in DOMAIN buffers, lookup(i)
  PROVE  OwnOffsets'
<1> DEFINE n == Len(caches) + 1
           Own(b, cs) == cs[b.offsetCache].offsets = newlineOffsets(b.text, elementType(b.text))
<1>1. /\ DOMAIN buffers' = DOMAIN buffers /\ Len(caches') = n /\ Len(caches) \in Nat
      /\ \A c \in 1 .. Len(caches) : caches'[c] = caches[c]
  BY LookupStep
<1> SUFFICES ASSUME NEW j \in DOMAIN buffers, buffers'[j].offsetCache # Null
             PROVE  buffers'[j].offsetCache \in 1 .. n /\ Own(buffers'[j], caches')
  BY <1>1 DEF OwnOffsets
<1>2. CASE j = i
  <2>1. /\ buffers'[i].offsetCache = n /\ buffers'[i].text = buffers[i].text
        /\ caches'[n].offsets = newlineOffsets(buffers[i].text, elementType(buffers[i].text))
    BY LookupStep
  <2> QED
    BY <1>1, <1>2, <2>1
<1>3. CASE j # i
  <2>1. buffers'[j] = buffers[j]
    BY <1>3, LookupStep
  <2>2. buffers[j].offsetCache \in 1 .. Len(caches) /\ Own(buffers[j], caches)
    BY <2>1 DEF OwnOffsets
  <2>3. caches'[buffers[j].offsetCache] = caches[buffers[j].offsetCache]
    BY <1>1, <2>2
  <2> QED
    BY <1>1, <2>1, <2>2, <2>3
<1> QED
  BY <1>2, <1>3

LEMMA OffsetsInvariant == Spec => []OwnOffsets
<1>1. Init => OwnOffsets
  BY DEF Init, OwnOffsets
<1>2. ASSUME Shape, OwnOffsets, [Next]_vars PROVE OwnOffsets'
  <2>1. CASE UNCHANGED <<buffers, caches>>
    BY <1>2, <2>1 DEF OwnOffsets
  <2>2. CASE destroy
    BY <2>2 DEF destroy, OwnOffsets
  <2> QED
    BY <1>2, <2>1, <2>2, AddKeepsOffsets, LookupKeepsOffsets
    DEF Next, Inside, Outside, findFileInLoadPath, indexNamespace, read, readNamespace,
        setLoadPaths, chooseDirs, edit, vars, store
<1> QED
  BY <1>1, <1>2, ShapeInvariant, PTL DEF Spec

LEMMA TextFits ==
  ASSUME NEW t \in Texts
  PROVE  t \in Seq(STRING) /\ Len(t) \in Nat /\ fits(t, Len(Widths))
BY SourceMgrAssumption

\* Every buffer answers for every line with its first character, from a fresh
\* index or from its cache, whatever was added and moved since it was filled
\* (getPointerForLineNumber).
THEOREM LookupCorrect == Spec => []LookupExact
<1>1. ASSUME Shape, OwnOffsets PROVE LookupExact
  <2> SUFFICES ASSUME NEW i \in DOMAIN buffers, NEW lineNo \in 1 .. Len(buffers[i].text) + 2
               PROVE  StartsLine(buffers[i].text, lineNo,
                                 getPointerForLineNumber(buffers[i], lineNo))
    BY DEF LookupExact
  <2> DEFINE t == buffers[i].text
  <2>1. t \in Texts
    <3>1. buffers[i] \in Buffer
      BY <1>1 DEF Shape
    <3> QED
      BY <3>1 DEF Buffer
  <2>2. offsetsOf(buffers[i]) = newlineOffsets(t, elementType(t))
    BY <1>1 DEF OwnOffsets, offsetsOf
  <2>3. Len(t) \in Nat /\ fits(t, Len(Widths)) /\ lineNo \in Nat \ {0}
    BY <2>1, TextFits
  <2> HIDE DEF t
  <2>4. StartsLine(t, lineNo, lineStart(newlineOffsets(t, elementType(t)), lineNo))
    BY <2>3, LineIndexFindsLines
  <2> QED
    BY <2>2, <2>4 DEF getPointerForLineNumber, t
<1> QED
  BY <1>1, ShapeInvariant, OffsetsInvariant, PTL

(***************************************************************************)
(* The types.                                                              *)
(***************************************************************************)

Locals == [name : Names \cup {<<>>}, i : Nat, text : Texts \cup {<<>>}]

\* What the types need beyond the shape: the vector stays within its capacity
\* and the bound, and an id that reaches read() is not 0.
Counts ==
  /\ capacity \in Nat /\ Len(buffers) <= capacity /\ Len(buffers) <= MaxBuffers
  /\ pc \in {"find", "add"} => Len(buffers) < MaxBuffers
  /\ pc = "read" => bufferId # 0
  /\ nsTable \in [Names -> 0 .. MaxBuffers]
  /\ namespaces \subseteq [name : Names, buffer : 1 .. MaxBuffers]
  /\ pc \in {"idle", "find", "add", "index", "read", "destroyed"}
  /\ call \in Locals /\ changed \in BOOLEAN
  /\ result \in {"none", "ok", "NSLoadError", "NSAddToSMError", "ReadError"}

LEMMA ReturnsCounts ==
  ASSUME NEW s, returns(s)
  PROVE  call' \in Locals /\ pc' = "idle" /\ result' = s
BY DEF returns, NoCall, Locals

LEMMA IdType ==
  ASSUME Shape, Len(buffers) <= MaxBuffers
  PROVE  bufferId \in 0 .. MaxBuffers
<1>1. Len(buffers) \in Nat /\ MaxBuffers \in Nat /\ IdMod \in Nat \ {0}
  BY SourceMgrAssumption DEF Shape
<1>2. Len(buffers) % IdMod \in Nat /\ Len(buffers) % IdMod <= Len(buffers)
  BY <1>1
<1> QED
  BY <1>1, <1>2 DEF bufferId

LEMMA FindCounts == ASSUME Shape, Counts, findFileInLoadPath PROVE Counts'
<1>1. UNCHANGED <<buffers, capacity, nsTable, namespaces, changed>> /\ pc = "find"
  BY DEF findFileInLoadPath, store, files
<1>2. CASE call.i > Len(loadPaths)
  <2>1. returns("NSLoadError")
    BY <1>1, <1>2 DEF findFileInLoadPath, Shape
  <2> QED
    BY <1>1, <2>1, ReturnsCounts DEF Counts
<1>3. CASE call.i <= Len(loadPaths) /\ fileAt(call.i) = NoFile
  <2>1. call' = [call EXCEPT !.i = @ + 1] /\ pc' = "find" /\ result' = result
    BY <1>1, <1>3 DEF findFileInLoadPath, Shape
  <2>2. call' \in Locals
    BY <2>1 DEF Counts, Locals
  <2> QED
    BY <1>1, <2>1, <2>2 DEF Counts
<1>4. CASE call.i <= Len(loadPaths) /\ fileAt(call.i) # NoFile
  <2>1. call' = [call EXCEPT !.text = fileAt(call.i)] /\ pc' = "add" /\ result' = result
    BY <1>1, <1>4 DEF findFileInLoadPath, Shape
  <2>2. fileAt(call.i) \in Texts
    BY <1>1, <1>4, NameHasPath DEF fileAt, Shape, Called
  <2>3. call' \in Locals
    BY <2>1, <2>2 DEF Counts, Locals
  <2> QED
    BY <1>1, <2>1, <2>3 DEF Counts
<1> QED
  BY <1>1, <1>2, <1>3, <1>4 DEF Shape

LEMMA AddCounts == ASSUME Shape, Counts, AddNewSourceBuffer PROVE Counts'
<1>1. Len(buffers) \in Nat /\ Len(buffers') = Len(buffers) + 1 /\ MaxBuffers \in Nat
  <2> DEFINE nb == [text |-> call.text, offsetCache |-> Null, name |-> call.name]
  <2>1. buffers' = Append(buffers, nb) /\ buffers \in Seq(Buffer)
    BY AddStep DEF Shape
  <2> HIDE DEF nb
  <2> QED
    BY <2>1, SourceMgrAssumption
<1>2. /\ pc = "add" /\ pc' = "index"
      /\ UNCHANGED <<nsTable, call, result, namespaces, changed>>
      /\ capacity' = IF Len(buffers) # capacity THEN capacity
                     ELSE IF capacity = 0 THEN 1 ELSE 2 * capacity
  BY DEF AddNewSourceBuffer, files
<1>3. capacity' \in Nat /\ Len(buffers') <= capacity'
  BY <1>1, <1>2 DEF Counts
<1> QED
  BY <1>1, <1>2, <1>3 DEF Counts

LEMMA IndexCounts == ASSUME Shape, Counts, indexNamespace PROVE Counts'
<1>1. bufferId \in 0 .. MaxBuffers /\ bufferId' = bufferId
  BY IdType DEF Counts, bufferId, indexNamespace, store
<1>2. nsTable' \in [Names -> 0 .. MaxBuffers]
  BY <1>1 DEF indexNamespace, Counts
<1>3. UNCHANGED <<buffers, capacity, namespaces, changed>>
  BY DEF indexNamespace, store, files
<1>4. CASE bufferId = 0
  BY <1>2, <1>3, <1>4, ReturnsCounts DEF indexNamespace, Counts
<1>5. CASE bufferId # 0
  <2>1. pc' = "read" /\ UNCHANGED <<call, result>>
    BY <1>5 DEF indexNamespace
  <2> QED
    BY <1>1, <1>2, <1>3, <1>5, <2>1 DEF Counts
<1> QED
  BY <1>4, <1>5

LEMMA ReadCounts == ASSUME Shape, Counts, read PROVE Counts'
<1>1. bufferId \in 1 .. MaxBuffers
  BY IdType, SourceMgrAssumption DEF Counts, read
<1>2. namespaces' \subseteq namespaces \cup {[name |-> call.name, buffer |-> bufferId]}
  BY DEF read
<1>3. namespaces' \subseteq [name : Names, buffer : 1 .. MaxBuffers]
  BY <1>1, <1>2 DEF Counts, Shape, Called, read
<1>4. UNCHANGED <<buffers, capacity, nsTable, changed>> /\ (returns("ok") \/ returns("ReadError"))
  BY DEF read, store, files
<1> QED
  BY <1>3, <1>4, ReturnsCounts DEF Counts

LEMMA StepCounts == ASSUME Shape, Counts, [Next]_vars PROVE Counts'
<1>1. CASE \E name \in Names : readNamespace(name)
  <2>1. PICK name \in Names : readNamespace(name)
    BY <1>1
  <2>2. call' = [NoCall EXCEPT !.name = name, !.i = 1]
    BY <2>1 DEF readNamespace
  <2>3. call' \in Locals
    BY <2>2 DEF NoCall, Locals
  <2> QED
    BY <2>1, <2>3 DEF readNamespace, Counts, store
<1>2. CASE \E i \in DOMAIN buffers : lookup(i)
  <2>1. PICK i \in DOMAIN buffers : lookup(i)
    BY <1>2
  <2>2. UNCHANGED <<capacity, nsTable, pc, call, result, namespaces, changed>> /\ pc = "idle"
    BY <2>1 DEF lookup, files
  <2>3. buffers \in Seq(Buffer) /\ buffers' \in Seq(Buffer) /\ DOMAIN buffers' = DOMAIN buffers
    BY <2>1, LookupStep DEF Shape
  <2>4. Len(buffers') = Len(buffers)
    BY <2>3
  <2> QED
    BY <2>2, <2>4 DEF Counts
<1>3. CASE setLoadPaths
  BY <1>3 DEF setLoadPaths, Counts, store, bufferId
<1>4. CASE chooseDirs
  BY <1>4 DEF chooseDirs, Counts, store, bufferId
<1>5. CASE edit
  BY <1>5 DEF edit, Counts, store, bufferId
<1>6. CASE destroy
  <2>1. Len(buffers') = 0 /\ capacity' = 0 /\ nsTable' \in [Names -> 0 .. MaxBuffers]
    BY <1>6, SourceMgrAssumption DEF destroy
  <2> QED
    BY <1>6, <2>1, SourceMgrAssumption DEF destroy, Counts, files
<1>7. CASE UNCHANGED vars
  BY <1>7 DEF vars, Counts, store, files, bufferId
<1> QED
  BY <1>1, <1>2, <1>3, <1>4, <1>5, <1>6, <1>7, FindCounts, AddCounts, IndexCounts, ReadCounts
  DEF Next, Inside, Outside

\* The types of every field and local, the bounds of the ids included
\* (readNamespace() and the operations it calls).
THEOREM TypesHold == Spec => []TypeOK
<1>1. Init => Counts
  BY SourceMgrAssumption DEF Init, Counts, NoCall, Locals
<1>2. ASSUME Shape, OwnOffsets, Counts PROVE TypeOK
  <2>1. buffers \in Seq(SrcBuffer)
    <3>1. \A i \in DOMAIN buffers : buffers[i] \in Buffer /\ buffers[i] \in SrcBuffer
      <4>1. ASSUME NEW b \in Buffer, b.offsetCache # Null => b.offsetCache \in 1 .. Len(caches)
            PROVE  b \in SrcBuffer
        BY <4>1 DEF Buffer, SrcBuffer
      <4>2. \A i \in DOMAIN buffers : buffers[i] \in Buffer
        BY <1>2 DEF Shape
      <4> QED
        BY <1>2, <4>1, <4>2 DEF OwnOffsets
    <3>2. buffers \in [1 .. Len(buffers) -> SrcBuffer] /\ Len(buffers) \in Nat
      BY <1>2, <3>1 DEF Shape
    <3> QED
      BY <3>2
  <2>2. caches \in Seq([type : Nat, offsets : Seq(Nat), live : BOOLEAN])
    <3> DEFINE Typed == [type : Nat, offsets : Seq(Nat), live : BOOLEAN]
    <3>1. ASSUME NEW t \in Texts
          PROVE  elementType(t) \in Nat /\ newlineOffsets(t, elementType(t)) \in Seq(Nat)
      BY TextFits, ElementTypeHolds, OffsetsIndexed DEF Indexed
    <3>2. Cache \subseteq Typed
      <4> SUFFICES ASSUME NEW c \in Cache PROVE c \in Typed
        OBVIOUS
      <4>1. /\ c = [type |-> c.type, offsets |-> c.offsets, live |-> c.live]
            /\ c.type \in {elementType(t) : t \in Texts}
            /\ c.offsets \in {newlineOffsets(t, elementType(t)) : t \in Texts}
            /\ c.live \in BOOLEAN
        BY DEF Cache
      <4>2. c.type \in Nat
        BY <3>1, <4>1
      <4>3. c.offsets \in Seq(Nat)
        BY <3>1, <4>1
      <4> QED
        BY <4>1, <4>2, <4>3
    <3> HIDE DEF Typed
    <3>3. caches \in Seq(Cache)
      BY <1>2 DEF Shape
    <3>4. caches \in Seq(Typed)
      BY <3>2, <3>3
    <3> QED
      BY <3>4 DEF Typed
  <2>3. call.name \in Names \cup {<<>>} /\ call.i \in Nat /\ call.text \in Texts \cup {<<>>}
    BY <1>2 DEF Counts, Locals
  <2> QED
    BY <1>2, <2>1, <2>2, <2>3 DEF TypeOK, Shape, Counts
<1>3. Spec => []Counts
  BY <1>1, StepCounts, ShapeInvariant, PTL DEF Spec
<1> QED
  BY <1>2, <1>3, ShapeInvariant, OffsetsInvariant, PTL
=============================================================================
