-------------------------- MODULE NamespaceProofs ---------------------------
(***************************************************************************)
(* Proofs about Namespace, for every set of names and values and without   *)
(* its bounds mattering.                                                   *)
(***************************************************************************)
EXTENDS Namespace, WellFoundedInduction, TLAPS

LEMMA EmptyPairsType == emptyPairs \in [Keys -> Values \cup {Null, Unbound}]
BY DEF emptyPairs

LEMMA InsertType ==
  ASSUME TypeOK, NEW env \in DOMAIN environments, NEW key \in Keys,
         NEW value \in Values \cup {Null}, insert_symbol(env, key, value)
  PROVE  /\ environments' \in Seq(Environment) /\ environments' # <<>>
         /\ DOMAIN environments' = DOMAIN environments
         /\ \A e \in DOMAIN environments : environments'[e].parent = environments[e].parent
<1> DEFINE new == [environments[env] EXCEPT !.pairs[key] = value]
<1>1. environments[env] \in Environment /\ environments \in Seq(Environment) /\ Len(environments) > 0
  BY DEF TypeOK
<1>2. new \in Environment /\ new.parent = environments[env].parent
  BY <1>1 DEF Environment
<1>3. environments' = [environments EXCEPT ![env] = new]
  BY DEF insert_symbol
<1> HIDE DEF new
<1> QED BY <1>1, <1>2, <1>3

\* The types and the root environment; and, what the theorems below rest on:
\* since a parent is an environment that exists, scopes are a tree, and
\* lookup()'s recursion ends.
THEOREM ScopesAreATree == Spec => [](TypeOK /\ ParentsPrecede)
<1>1. Init => TypeOK /\ ParentsPrecede
  BY EmptyPairsType DEF Init, TypeOK, ParentsPrecede, Environment
<1>2. ASSUME TypeOK, ParentsPrecede, [Next]_vars
      PROVE  TypeOK' /\ ParentsPrecede'
  <2>0. environments \in Seq(Environment) /\ environments # <<>>
    BY <1>2 DEF TypeOK
  <2>1. CASE \E parent \in 0 .. Len(environments) : createEnv(parent)
    <3>1. PICK parent \in 0 .. Len(environments) : createEnv(parent)
      BY <2>1
    <3> DEFINE new == [parent |-> parent, pairs |-> emptyPairs]
    <3>2. /\ environments' = Append(environments, new)
          /\ tree' = tree /\ ast' = ast
      BY <3>1 DEF createEnv
    <3>3. new \in Environment /\ new.parent <= Len(environments)
      BY <1>2, EmptyPairsType DEF Environment, TypeOK
    <3> HIDE DEF new
    <3>4. environments' \in Seq(Environment) /\ environments' # <<>>
      BY <2>0, <3>2, <3>3
    <3>5. ParentsPrecede' /\ environments'[1].parent = 0
      <4>3. environments'[1] = environments[1]
        BY <1>2, <3>2 DEF TypeOK
      <4> SUFFICES ASSUME NEW e \in DOMAIN environments'
                   PROVE  environments'[e].parent < e
        BY <1>2, <4>3 DEF ParentsPrecede, TypeOK
      <4>1. CASE e = Len(environments) + 1
        BY <1>2, <3>2, <3>3, <4>1 DEF TypeOK, Environment
      <4>2. CASE e # Len(environments) + 1
        <5>1. e \in DOMAIN environments /\ environments'[e] = environments[e]
          BY <1>2, <3>2, <4>2 DEF TypeOK
        <5> QED BY <1>2, <5>1 DEF ParentsPrecede
      <4> QED BY <4>1, <4>2
    <3> QED BY <1>2, <3>2, <3>4, <3>5 DEF TypeOK
  <2>2. CASE \E env \in DOMAIN environments, key \in Keys, value \in Values \cup {Null} :
               insert_symbol(env, key, value)
    <3>1. PICK env \in DOMAIN environments, key \in Keys, value \in Values \cup {Null} :
               insert_symbol(env, key, value)
      BY <2>2
    <3>2. tree' = tree /\ ast' = ast
      BY <3>1 DEF insert_symbol
    <3>3. /\ environments' \in Seq(Environment) /\ environments' # <<>>
          /\ DOMAIN environments' = DOMAIN environments
          /\ \A e \in DOMAIN environments : environments'[e].parent = environments[e].parent
      BY <1>2, <3>1, InsertType
    <3>4. environments'[1].parent = 0
      <4>1. 1 \in DOMAIN environments /\ environments[1].parent = 0
        BY <1>2 DEF TypeOK
      <4> QED BY <3>3, <4>1
    <3>5. ParentsPrecede'
      BY <1>2, <3>3 DEF ParentsPrecede
    <3>6. tree' \in Seq(Nat) /\ ast' \in Seq(Nat)
      BY <1>2, <3>2 DEF TypeOK
    <3> QED BY <3>3, <3>4, <3>5, <3>6 DEF TypeOK
  <2>3. CASE ExpandTree
    <3>1. tree \o ast \in Seq(Nat) /\ <<>> \in Seq(Nat)
      BY <1>2 DEF TypeOK
    <3> QED BY <1>2, <2>3, <3>1 DEF ExpandTree, TypeOK, ParentsPrecede
  <2>4. CASE readForm
    <3>1. Append(ast, Len(tree) + Len(ast) + 1) \in Seq(Nat)
      BY <1>2 DEF TypeOK
    <3> QED BY <1>2, <2>4, <3>1 DEF readForm, TypeOK, ParentsPrecede
  <2>5. CASE UNCHANGED vars
    BY <1>2, <2>5 DEF vars, TypeOK, ParentsPrecede
  <2> QED BY <1>2, <2>1, <2>2, <2>3, <2>4, <2>5 DEF Next
<1> QED BY <1>1, <1>2, PTL DEF Spec

\* A form is never lost or doubled between the caller's vector and the tree,
\* and the order of reading is kept.
THEOREM FormsKept == Spec => []FormsHeldOnce
<1> DEFINE Types == tree \in Seq(Nat) /\ ast \in Seq(Nat)
           Inv == Types /\ FormsHeldOnce
<1>1. Init => Inv
  BY DEF Init, FormsHeldOnce
<1>2. ASSUME Inv, [Next]_vars
      PROVE  Inv'
  <2> DEFINE held == tree \o ast
  <2>1. CASE UNCHANGED <<tree, ast>>
    BY <1>2, <2>1 DEF FormsHeldOnce
  <2>2. CASE ExpandTree
    <3>1. tree' = held /\ ast' = <<>>
      BY <2>2 DEF ExpandTree
    <3>2. held \in Seq(Nat) /\ Len(held) = Len(tree) + Len(ast)
      BY <1>2
    <3> HIDE DEF held
    <3>3. held \o <<>> = held /\ Len(<<>>) = 0
      BY <3>2
    <3>4. \A k \in 1 .. Len(held) : held[k] = k
      BY <1>2, <3>2 DEF FormsHeldOnce, held
    <3> QED BY <3>1, <3>2, <3>3, <3>4 DEF FormsHeldOnce
  <2>3. CASE readForm
    <3> DEFINE n == Len(tree) + Len(ast)
    <3>1. tree' = tree /\ ast' = Append(ast, n + 1) /\ ast' \in Seq(Nat) /\ n \in Nat
      BY <1>2, <2>3 DEF readForm
    <3>2. (tree \o ast)' = Append(held, n + 1) /\ Len(ast') = Len(ast) + 1
      BY <1>2, <3>1
    <3>3. \A k \in 1 .. n : held[k] = k
      BY <1>2 DEF FormsHeldOnce
    <3>4. held \in Seq(Nat) /\ Len(held) = n
      BY <1>2
    <3>5. \A k \in 1 .. n + 1 : Append(held, n + 1)[k] = k
      <4> HIDE DEF held, n
      <4> QED BY <3>1, <3>3, <3>4
    <3>6. FormsHeldOnce'
      <4>1. Len(tree') + Len(ast') = n + 1
        BY <1>2, <3>1, <3>2
      <4>2. FormsHeldOnce' = \A k \in 1 .. Len(tree') + Len(ast') : (tree \o ast)'[k] = k
        BY DEF FormsHeldOnce
      <4> HIDE DEF held, n
      <4> QED BY <3>2, <3>5, <4>1, <4>2
    <3> QED BY <1>2, <3>1, <3>6
  <2> QED BY <1>2, <2>1, <2>2, <2>3
          DEF Next, vars, createEnv, insert_symbol
<1> QED BY <1>1, <1>2, PTL DEF Spec

\* A non-empty set of naturals has a least element.
LEMMA LeastElement ==
  ASSUME NEW T \in SUBSET Nat, T # {}
  PROVE  \E x \in T : \A y \in T : x <= y
<1> DEFINE Less == {ss \in Nat \X Nat : ss[1] < ss[2]}
<1>1. IsWellFoundedOn(Less, Nat)
  BY NatLessThanWellFounded, Zenon DEF OpToRel
<1>2. PICK x \in T : \A y \in T : ~ (<<y, x>> \in Less)
  <2> HIDE DEF Less
  <2> QED BY <1>1, WFMin
<1>3. ASSUME NEW y \in T, y < x PROVE FALSE
  <2>1. <<y, x>> \in Less
    BY <1>3
  <2> QED BY <1>2, <2>1
<1> QED BY <1>3

(***************************************************************************)
(* lookup() and Chain(), with the environments as an argument: the facts   *)
(* below then hold of the environments before and after a step.            *)
(***************************************************************************)

Lookup(envs, env, key) ==
  LET find[e \in 0 .. Len(envs)] ==
        IF e = 0 THEN Unbound
        ELSE IF envs[e].pairs[key] \in {Null, Unbound}
             THEN find[envs[e].parent]
             ELSE envs[e].pairs[key]
  IN find[env]

Encloses(envs, env, S) ==
  env \in S /\ (\A s \in S : envs[s].parent \in S \cup {0})

Scopes(envs, env) ==
  {a \in DOMAIN envs : \A S \in SUBSET DOMAIN envs : Encloses(envs, env, S) => a \in S}

\* Environments as a namespace has them: a tree of scopes.
Tree(envs) ==
  /\ envs \in Seq(Environment)
  /\ \A e \in DOMAIN envs : envs[e].parent < e

LEMMA TreeFacts ==
  ASSUME NEW envs, Tree(envs)
  PROVE  /\ Len(envs) \in Nat /\ DOMAIN envs = 1 .. Len(envs)
         /\ \A e \in DOMAIN envs : envs[e].parent \in Nat /\ envs[e].parent < e
<1>1. Len(envs) \in Nat /\ DOMAIN envs = 1 .. Len(envs) /\ \A e \in 1 .. Len(envs) : envs[e] \in Environment
  BY DEF Tree
<1>2. \A x \in Environment : x.parent \in Nat
  BY DEF Environment
<1>3. \A e \in DOMAIN envs : envs[e].parent < e
  BY DEF Tree
<1> QED BY <1>1, <1>2, <1>3

LEMMA LookupIs == \A env, key : lookup(env, key) = Lookup(environments, env, key)
BY DEF lookup, Lookup

LEMMA LookupIsAfter == \A env, key : lookup(env, key)' = Lookup(environments', env, key)
BY DEF lookup, Lookup

LEMMA ChainIs == \A env : Chain(env) = Scopes(environments, env)
BY DEF Chain, Scopes, Encloses

\* What lookup() computes up to an environment, as a function.
Finds(envs, key, n, f) ==
  f = [e \in 0 .. n |->
         IF e = 0 THEN Unbound
         ELSE IF envs[e].pairs[key] \in {Null, Unbound}
              THEN f[envs[e].parent]
              ELSE envs[e].pairs[key]]

(***************************************************************************)
(* The recursion of lookup() defines a function, for a parent comes before *)
(* its children: there is no least environment up to which it would not.   *)
(***************************************************************************)
LEMMA LookupEnds ==
  ASSUME NEW envs, Tree(envs), NEW key
  PROVE  \E f : Finds(envs, key, Len(envs), f)
<1> DEFINE N == Len(envs)
           T == {n \in 0 .. N : ~ \E f : Finds(envs, key, n, f)}
<1>1. N \in Nat /\ DOMAIN envs = 1 .. N /\ \A e \in 1 .. N : envs[e].parent \in 0 .. e - 1
  BY TreeFacts
<1> SUFFICES ASSUME T # {} PROVE FALSE
  BY <1>1
<1>2. PICK n \in T : \A m \in T : n <= m
  <2>1. T \in SUBSET Nat
    BY <1>1
  <2> HIDE DEF T
  <2> QED BY <2>1, LeastElement
<1>3. n # 0
  <2>1. Finds(envs, key, 0, [e \in 0 .. 0 |-> Unbound])
    BY DEF Finds
  <2> QED BY <2>1
<1>4. PICK f : Finds(envs, key, n - 1, f)
  BY <1>1, <1>2, <1>3
<1> HIDE DEF N
<1>5. n \in 1 .. N
  BY <1>1, <1>3
<1> DEFINE own(e) == envs[e].pairs[key]
           g == [e \in 0 .. n |-> IF e # n THEN f[e]
                                  ELSE IF own(n) \in {Null, Unbound} THEN f[envs[n].parent] ELSE own(n)]
<1>6. \A e \in 0 .. n : g[e] = IF e = 0 THEN Unbound
                               ELSE IF own(e) \in {Null, Unbound} THEN g[envs[e].parent] ELSE own(e)
  <2> TAKE e \in 0 .. n
  <2> HIDE DEF own
  <2>1. CASE e = 0
    BY <2>1, <1>4, <1>5, <1>1 DEF Finds
  <2>2. CASE e \in 1 .. n - 1
    <3>1. /\ envs[e].parent \in 0 .. n /\ envs[e].parent # n /\ e # n
          /\ g[envs[e].parent] = f[envs[e].parent] /\ g[e] = f[e]
      BY <2>2, <1>1, <1>5
    <3> HIDE DEF g
    <3> QED BY <2>2, <3>1, <1>4, <1>5, <1>1 DEF Finds, own
  <2>3. CASE e = n
    <3>1. envs[n].parent \in 0 .. n /\ envs[n].parent # n /\ g[envs[n].parent] = f[envs[n].parent]
      BY <1>1, <1>5
    <3> QED BY <2>3, <3>1, <1>5
  <2> QED BY <2>1, <2>2, <2>3, <1>1, <1>5
<1>7. g = [e \in 0 .. n |-> g[e]]
  OBVIOUS
<1> HIDE DEF g
<1>8. Finds(envs, key, n, g)
  BY <1>6, <1>7 DEF Finds
<1> QED BY <1>8

\* lookup() step by step: an environment answers for itself when it has a
\* value that converts to true, and as its parent does otherwise.
LEMMA LookupStep ==
  ASSUME NEW envs, Tree(envs), NEW key
  PROVE  /\ Lookup(envs, 0, key) = Unbound
         /\ \A e \in DOMAIN envs :
              Lookup(envs, e, key) =
                IF envs[e].pairs[key] \in {Null, Unbound}
                THEN Lookup(envs, envs[e].parent, key)
                ELSE envs[e].pairs[key]
<1> DEFINE find == CHOOSE f : Finds(envs, key, Len(envs), f)
<1>1. Finds(envs, key, Len(envs), find)
  BY LookupEnds, Zenon
<1>2. \A e : Lookup(envs, e, key) = find[e]
  BY DEF Lookup, Finds
<1> HIDE DEF find
<1>3. /\ Len(envs) \in Nat /\ DOMAIN envs = 1 .. Len(envs)
      /\ \A e \in DOMAIN envs : envs[e].parent \in Nat /\ envs[e].parent < e
  BY TreeFacts
<1>4. 0 \in 0 .. Len(envs)
  BY <1>3
<1>5. find[0] = Unbound
  BY <1>1, <1>4 DEF Finds
<1>6. ASSUME NEW e \in DOMAIN envs
      PROVE  find[e] = IF envs[e].pairs[key] \in {Null, Unbound}
                       THEN find[envs[e].parent] ELSE envs[e].pairs[key]
  BY <1>1, <1>3 DEF Finds
<1> QED BY <1>2, <1>5, <1>6

(***************************************************************************)
(* The scopes of an environment: itself and those of its parent, none of   *)
(* them younger.                                                           *)
(***************************************************************************)
LEMMA ScopesClosed ==
  ASSUME NEW envs, Tree(envs), NEW env \in DOMAIN envs
  PROVE  Encloses(envs, env, Scopes(envs, env))
<1>1. env \in Scopes(envs, env)
  BY DEF Scopes, Encloses
<1>2. ASSUME NEW s \in Scopes(envs, env), envs[s].parent # 0
      PROVE  envs[s].parent \in Scopes(envs, env)
  <2>1. envs[s].parent \in DOMAIN envs
    BY <1>2, TreeFacts DEF Scopes
  <2>2. ASSUME NEW S \in SUBSET DOMAIN envs, Encloses(envs, env, S)
        PROVE  envs[s].parent \in S
    BY <1>2, <2>2 DEF Scopes, Encloses
  <2> QED BY <2>1, <2>2 DEF Scopes
<1> QED BY <1>1, <1>2 DEF Encloses

LEMMA ScopesStep ==
  ASSUME NEW envs, Tree(envs), NEW env \in DOMAIN envs
  PROVE  Scopes(envs, env) =
           {env} \cup IF envs[env].parent = 0 THEN {} ELSE Scopes(envs, envs[env].parent)
<1> DEFINE p == envs[env].parent
           Outer == IF p = 0 THEN {} ELSE Scopes(envs, p)
           All == {env} \cup Outer
<1>1. p = 0 \/ p \in DOMAIN envs
  BY TreeFacts
<1>2. All \in SUBSET DOMAIN envs
  BY DEF Scopes
<1>3. Encloses(envs, env, All)
  BY <1>1, ScopesClosed DEF Encloses
<1>4. Scopes(envs, env) \subseteq All
  BY <1>2, <1>3 DEF Scopes
<1>5. ASSUME NEW a \in All, NEW S \in SUBSET DOMAIN envs, Encloses(envs, env, S)
      PROVE  a \in S
  <2>1. p # 0 => Encloses(envs, p, S)
    BY <1>1, <1>5 DEF Encloses
  <2> QED BY <1>5, <2>1 DEF Encloses, Scopes
<1>6. All \subseteq Scopes(envs, env)
  BY <1>2, <1>5 DEF Scopes
<1> QED BY <1>4, <1>6

LEMMA ScopesAreOlder ==
  ASSUME NEW envs, Tree(envs), NEW env \in DOMAIN envs
  PROVE  \A a \in Scopes(envs, env) : a \in DOMAIN envs /\ a <= env
<1> DEFINE S == {s \in DOMAIN envs : s <= env}
<1>1. Encloses(envs, env, S)
  <2>1. env \in S
    BY TreeFacts
  <2>2. ASSUME NEW s \in S, envs[s].parent # 0 PROVE envs[s].parent \in S
    BY <2>2, TreeFacts
  <2> QED BY <2>1, <2>2 DEF Encloses
<1> QED BY <1>1 DEF Scopes

(***************************************************************************)
(* There is no first environment for which lookup() finds anything but the *)
(* innermost binding of its scopes.                                        *)
(***************************************************************************)
Bindings(envs, env, key) == {a \in Scopes(envs, env) : envs[a].pairs[key] \in Values}

Innermost(envs, env, key) ==
  IF Bindings(envs, env, key) = {} THEN Lookup(envs, env, key) = Unbound
  ELSE \E a \in Bindings(envs, env, key) :
         /\ \A b \in Bindings(envs, env, key) : b <= a
         /\ Lookup(envs, env, key) = envs[a].pairs[key]

LEMMA LookupFindsInnermost ==
  ASSUME NEW envs, Tree(envs), NEW key \in Keys
  PROVE  \A env \in DOMAIN envs : Innermost(envs, env, key)
<1> DEFINE N == Len(envs)
           T == {n \in 0 .. N : n # 0 /\ ~ Innermost(envs, n, key)}
<1>1. N \in Nat /\ DOMAIN envs = 1 .. N
  BY TreeFacts
<1> SUFFICES ASSUME T # {} PROVE FALSE
  BY <1>1
<1>2. PICK env \in T : \A m \in T : env <= m
  <2>1. T \in SUBSET Nat
    BY <1>1
  <2> HIDE DEF T
  <2> QED BY <2>1, LeastElement
<1> DEFINE p == envs[env].parent
           own == envs[env].pairs[key]
<1>3. env \in DOMAIN envs /\ p \in Nat /\ p < env /\ (p # 0 => p \in DOMAIN envs)
  BY <1>1, <1>2, TreeFacts
<1>4. own \in Values \cup {Null, Unbound}
  <2>1. envs[env] \in Environment
    BY <1>1, <1>3 DEF Tree
  <2> QED BY <2>1 DEF Environment
<1>5. p # 0 => Innermost(envs, p, key)
  BY <1>1, <1>2, <1>3
<1>6. Scopes(envs, env) = {env} \cup IF p = 0 THEN {} ELSE Scopes(envs, p)
  BY <1>3, ScopesStep
<1>7. \A a \in Scopes(envs, env) : a \in DOMAIN envs /\ a <= env
  BY <1>3, ScopesAreOlder
<1>8. /\ Lookup(envs, 0, key) = Unbound
      /\ Lookup(envs, env, key) = IF own \in {Null, Unbound} THEN Lookup(envs, p, key) ELSE own
  BY <1>3, LookupStep
<1> HIDE DEF p
<1>9. CASE own \in Values
  <2>1. own \notin {Null, Unbound}
    BY <1>9, NamespaceAssumption
  <2>2. env \in Bindings(envs, env, key) /\ \A b \in Bindings(envs, env, key) : b <= env
    BY <1>6, <1>7, <1>9 DEF Bindings
  <2>3. Lookup(envs, env, key) = own
    BY <1>8, <2>1
  <2> QED BY <1>2, <2>2, <2>3 DEF Innermost
<1>10. CASE own \notin Values
  <2>1. Lookup(envs, env, key) = Lookup(envs, p, key)
    BY <1>4, <1>8, <1>10
  <2>2. Bindings(envs, env, key) = IF p = 0 THEN {} ELSE Bindings(envs, p, key)
    BY <1>6, <1>10 DEF Bindings
  <2>3. Innermost(envs, env, key)
    <3>1. CASE p = 0
      BY <3>1, <2>1, <2>2, <1>8 DEF Innermost
    <3>2. CASE p # 0
      <4>1. Bindings(envs, env, key) = Bindings(envs, p, key)
        BY <3>2, <2>2
      <4> QED BY <3>2, <4>1, <2>1, <1>5 DEF Innermost
    <3> QED BY <3>1, <3>2
  <2> QED BY <1>2, <2>3
<1> QED BY <1>9, <1>10

\* A lookup finds the innermost binding in scope, in every reachable
\* namespace of any number of environments.
THEOREM LookupIsLexical == Spec => []InnermostWins
<1>1. TypeOK /\ ParentsPrecede => InnermostWins
  <2> SUFFICES ASSUME TypeOK, ParentsPrecede, NEW env \in DOMAIN environments, NEW key \in Keys
               PROVE  Innermost(environments, env, key)
    BY LookupIs, ChainIs DEF InnermostWins, Innermost, Bindings
  <2>1. Tree(environments)
    BY DEF TypeOK, ParentsPrecede, Tree
  <2> QED BY <2>1, LookupFindsInnermost
<1> QED BY <1>1, ScopesAreATree, PTL

(***************************************************************************)
(* A step that binds a name in one environment leaves every lookup of      *)
(* another name, or from where that environment is no scope, as it was.    *)
(***************************************************************************)
DifferOnlyAt(env, k, old, new) ==
  /\ DOMAIN new = DOMAIN old
  /\ \A e \in DOMAIN old : new[e].parent = old[e].parent
  /\ \A e \in DOMAIN old : e # env => new[e].pairs[k] = old[e].pairs[k]

LEMMA LookupUndisturbed ==
  ASSUME NEW old, Tree(old), NEW new, Tree(new),
         NEW env \in DOMAIN old, NEW k, DifferOnlyAt(env, k, old, new)
  PROVE  \A e \in DOMAIN old :
           env \notin Scopes(old, e) \/ new[env].pairs[k] = old[env].pairs[k]
             => Lookup(new, e, k) = Lookup(old, e, k)
<1> DEFINE N == Len(old)
           Kept(e) == env \notin Scopes(old, e) \/ new[env].pairs[k] = old[env].pairs[k]
           T == {n \in 0 .. N : n # 0 /\ Kept(n) /\ Lookup(new, n, k) # Lookup(old, n, k)}
<1>1. N \in Nat /\ DOMAIN old = 1 .. N
  BY TreeFacts
<1> SUFFICES ASSUME T # {} PROVE FALSE
  BY <1>1
<1>2. PICK e \in T : \A m \in T : e <= m
  <2>1. T \in SUBSET Nat
    BY <1>1
  <2> HIDE DEF T
  <2> QED BY <2>1, LeastElement
<1> DEFINE p == old[e].parent
<1>3. e \in DOMAIN old /\ p \in Nat /\ p < e /\ (p # 0 => p \in DOMAIN old)
  BY <1>1, <1>2, TreeFacts
<1>4. Scopes(old, e) = {e} \cup IF p = 0 THEN {} ELSE Scopes(old, p)
  BY <1>3, ScopesStep
<1>5. Kept(e)
  BY <1>2
<1>6. new[e].pairs[k] = old[e].pairs[k] /\ (p # 0 => Kept(p))
  BY <1>3, <1>4, <1>5 DEF DifferOnlyAt
<1>7. Lookup(new, p, k) = Lookup(old, p, k)
  <2>1. CASE p = 0
    BY <2>1, LookupStep
  <2>2. CASE p # 0
    BY <1>1, <1>2, <1>3, <1>6, <2>2
  <2> QED BY <2>1, <2>2
<1>8. /\ Lookup(old, e, k) = IF old[e].pairs[k] \in {Null, Unbound} THEN Lookup(old, p, k) ELSE old[e].pairs[k]
      /\ Lookup(new, e, k) = IF new[e].pairs[k] \in {Null, Unbound} THEN Lookup(new, p, k) ELSE new[e].pairs[k]
  <2>1. e \in DOMAIN new /\ new[e].parent = p
    BY <1>3 DEF DifferOnlyAt
  <2> HIDE DEF p
  <2>2. Lookup(new, e, k) = IF new[e].pairs[k] \in {Null, Unbound} THEN Lookup(new, p, k) ELSE new[e].pairs[k]
    BY <2>1, LookupStep
  <2> QED BY <1>3, <2>2, LookupStep DEF p
<1>9. Lookup(new, e, k) = Lookup(old, e, k)
  BY <1>6, <1>7, <1>8
<1> QED BY <1>2, <1>9

\* A binding answers where it is made, at once, and changes no lookup of
\* another name or from outside its scope.
THEOREM BindingsAreLexical == Spec => ShadowingIsLocal
<1> DEFINE Local ==
      \A env \in DOMAIN environments, key \in Keys, value \in Values :
        insert_symbol(env, key, value) =>
          /\ lookup(env, key)' = value
          /\ \A e \in DOMAIN environments, k \in Keys :
               env \notin Chain(e) \/ k # key => lookup(e, k)' = lookup(e, k)
<1>1. ASSUME TypeOK, ParentsPrecede
      PROVE  Local
  <2> SUFFICES ASSUME NEW env \in DOMAIN environments, NEW key \in Keys, NEW value \in Values,
                      insert_symbol(env, key, value)
               PROVE  /\ lookup(env, key)' = value
                      /\ \A e \in DOMAIN environments, k \in Keys :
                           env \notin Chain(e) \/ k # key => lookup(e, k)' = lookup(e, k)
    OBVIOUS
  <2> DEFINE old == environments
             new == environments'
  <2>1. Tree(old)
    BY <1>1 DEF TypeOK, ParentsPrecede, Tree
  <2>2. /\ new \in Seq(Environment) /\ DOMAIN new = DOMAIN old
        /\ \A e \in DOMAIN old : new[e].parent = old[e].parent
    BY <1>1, InsertType
  <2>3. Tree(new)
    BY <2>1, <2>2 DEF Tree
  <2>4. /\ \A e \in DOMAIN old : e # env => new[e] = old[e]
        /\ new[env] = [old[env] EXCEPT !.pairs[key] = value]
    BY <2>1 DEF insert_symbol
  <2>5. old[env] \in Environment
    BY <2>1 DEF Tree
  <2>6. new[env].pairs = [old[env].pairs EXCEPT ![key] = value]
    BY <2>4, <2>5 DEF Environment
  <2>7. new[env].pairs[key] = value /\ \A k \in Keys : k # key => new[env].pairs[k] = old[env].pairs[k]
    BY <2>5, <2>6 DEF Environment
  <2> HIDE DEF old, new
  <2>8. Lookup(new, env, key) = value
    <3>1. value \notin {Null, Unbound}
      BY NamespaceAssumption
    <3> QED BY <2>2, <2>3, <2>7, <3>1, LookupStep DEF old
  <2>9. ASSUME NEW e \in DOMAIN old, NEW k \in Keys, env \notin Scopes(old, e) \/ k # key
        PROVE  Lookup(new, e, k) = Lookup(old, e, k)
    <3>1. env \in DOMAIN old /\ DifferOnlyAt(env, k, old, new)
      BY <2>2, <2>4 DEF old, DifferOnlyAt
    <3>2. k # key => new[env].pairs[k] = old[env].pairs[k]
      BY <2>7
    <3>3. \A d \in DOMAIN old : env \notin Scopes(old, d) \/ new[env].pairs[k] = old[env].pairs[k]
                                 => Lookup(new, d, k) = Lookup(old, d, k)
      BY <2>1, <2>2, <2>3, <3>1, LookupUndisturbed
    <3> QED BY <2>9, <3>2, <3>3
  <2> QED BY <2>8, <2>9, LookupIs, LookupIsAfter, ChainIs DEF old, new
<1>2. ASSUME [](TypeOK /\ ParentsPrecede) PROVE [][Local]_vars
  BY <1>1, <1>2, PTL
<1> QED BY <1>2, ScopesAreATree, PTL DEF ShadowingIsLocal
=============================================================================
