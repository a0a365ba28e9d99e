----------------------------- MODULE Namespace ------------------------------
(***************************************************************************)
(* serene::Namespace and serene::ast::Namespace (serene/src/namespace.cpp, *)
(* ast/ast.cpp) with the Environment template (environment.h): the scopes  *)
(* of a namespace and the forms that were read into it.                    *)
(*                                                                         *)
(* A namespace owns its environments through unique_ptrs and only ever     *)
(* adds to them, so a SemanticEnv pointer is the environment's place in    *)
(* the vector, and 0 the null pointer.                                     *)
(***************************************************************************)
EXTENDS Integers, Sequences

CONSTANTS
  Keys,     \* names
  Values,   \* values of type V that convert to true
  Null,     \* the value of type V that does not (nullptr, EmptyNode)
  Unbound,  \* there is no value under a key
  MaxEnvs,  \* bound: how many environments are made
  MaxNodes  \* bound: how many forms are read

ASSUME NamespaceAssumption ==
  /\ Null \notin Values /\ Unbound \notin Values /\ Null # Unbound
  /\ MaxEnvs \in Nat \ {0} /\ MaxNodes \in Nat

VARIABLES
  environments,  \* Namespace::environments, each with parent and pairs
  tree,          \* Namespace::tree, forms numbered in the order they are read
  ast            \* the vector a caller fills and hands to ExpandTree()

vars == <<environments, tree, ast>>

emptyPairs == [key \in Keys |-> Unbound]

(***************************************************************************)
(* Environment.                                                            *)
(***************************************************************************)

lookup_ParentFirst(env, key) ==
  LET find[e \in 0 .. Len(environments)] ==
        IF e = 0 THEN Unbound
        ELSE IF find[environments[e].parent] # Unbound
             THEN find[environments[e].parent]
             ELSE environments[e].pairs[key]
  IN find[env]

\* A value that converts to false is taken for a missing one.
lookup(env, key) ==
  LET find[e \in 0 .. Len(environments)] ==
        IF e = 0 THEN Unbound
        ELSE IF environments[e].pairs[key] \in {Null, Unbound}
             THEN find[environments[e].parent]
             ELSE environments[e].pairs[key]
  IN find[env]

insert_symbol_InParent(env, key, value) ==
  LET p == environments[env].parent
      owner == IF p # 0 /\ environments[p].pairs[key] # Unbound THEN p ELSE env
  IN /\ environments' = [environments EXCEPT ![owner].pairs[key] = value]
     /\ UNCHANGED <<tree, ast>>

insert_symbol(env, key, value) ==
  /\ environments' = [environments EXCEPT ![env].pairs[key] = value]
  /\ UNCHANGED <<tree, ast>>

(***************************************************************************)
(* Namespace.                                                              *)
(***************************************************************************)

createEnv(parent) ==
  /\ Len(environments) < MaxEnvs
  /\ environments' = Append(environments, [parent |-> parent, pairs |-> emptyPairs])
  /\ UNCHANGED <<tree, ast>>

ExpandTree_KeepsAst ==
  /\ ast # <<>>
  /\ tree' = tree \o ast
  /\ UNCHANGED <<environments, ast>>

\* Whatever the target phase is, the forms are moved and the vector cleared.
ExpandTree ==
  /\ ast # <<>>
  /\ tree' = tree \o ast
  /\ ast' = <<>>
  /\ UNCHANGED environments

\* The caller: reads one more form.
readForm ==
  /\ Len(tree) + Len(ast) < MaxNodes
  /\ ast' = Append(ast, Len(tree) + Len(ast) + 1)
  /\ UNCHANGED <<environments, tree>>

Init_NoRoot ==
  /\ environments = <<>>
  /\ tree = <<>>
  /\ ast = <<>>

\* The constructor creates the root environment, on which getRootEnv() relies.
Init ==
  /\ environments = <<[parent |-> 0, pairs |-> emptyPairs]>>
  /\ tree = <<>>
  /\ ast = <<>>

Next ==
  \/ \E parent \in 0 .. Len(environments) : createEnv(parent)
  \/ \E env \in DOMAIN environments, key \in Keys, value \in Values \cup {Null} :
       insert_symbol(env, key, value)
  \/ ExpandTree
  \/ readForm

Spec == Init /\ [][Next]_vars

(***************************************************************************)
(* Properties.                                                             *)
(***************************************************************************)

Environment == [parent : Nat, pairs : [Keys -> Values \cup {Null, Unbound}]]

\* A parent is a pointer to an environment that exists and is never set
\* again: so an environment's parent was made before it, scopes are a tree,
\* and the recursion of lookup() ends.
ParentsPrecede == \A e \in DOMAIN environments : environments[e].parent < e

\* The types; and a namespace has a root environment, which nothing encloses.
TypeOK ==
  /\ environments \in Seq(Environment)
  /\ environments # <<>> /\ environments[1].parent = 0
  /\ tree \in Seq(Nat) /\ ast \in Seq(Nat)

\* The environments from env outwards: what every set holds that contains
\* env and the parents of its members.
Chain(env) ==
  {a \in DOMAIN environments :
     \A S \in SUBSET DOMAIN environments :
       env \in S /\ (\A s \in S : environments[s].parent \in S \cup {0}) => a \in S}

\* A lookup finds the innermost binding, and none that is out of scope.
InnermostWins ==
  \A env \in DOMAIN environments, key \in Keys :
    LET binders == {a \in Chain(env) : environments[a].pairs[key] \in Values}
    IN IF binders = {} THEN lookup(env, key) = Unbound
       ELSE \E a \in binders : /\ \A b \in binders : b <= a
                               /\ lookup(env, key) = environments[a].pairs[key]

\* A new binding is seen at once where it is made (a repeated one replaces
\* the old), and never from a scope that does not enclose: the bindings of
\* parents and siblings and of other names answer as before.
ShadowingIsLocal ==
  [][\A env \in DOMAIN environments, key \in Keys, value \in Values :
       insert_symbol(env, key, value) =>
         /\ lookup(env, key)' = value
         /\ \A e \in DOMAIN environments, k \in Keys :
              env \notin Chain(e) \/ k # key => lookup(e, k)' = lookup(e, k)]_vars

\* However reads and ExpandTree() calls alternate, every form is held once,
\* by the caller's vector or by the tree, in the order of reading.
FormsHeldOnce ==
  \A k \in 1 .. Len(tree) + Len(ast) : (tree \o ast)[k] = k
=============================================================================
