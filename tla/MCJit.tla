------------------------------- MODULE MCJit --------------------------------
(***************************************************************************)
(* Jit with two modules of one identifier beside a third.                  *)
(***************************************************************************)
EXTENDS Jit, TLC

CONSTANTS m1, m2, m3, i1, i2

MCModules    == {m1, m2, m3}
MCIdentifier == m1 :> i1 @@ m2 :> i1 @@ m3 :> i2

\* Every phase once with some of the flags; the cache on and off, and LLVM built
\* with perf and without.
MCOptionSets ==
  {o \in Options :
     /\ o.gdb <=> o.compilationPhase % 2 = 0
     /\ o.perf <=> o.compilationPhase % 3 = 0
     /\ o.lazy <=> o.compilationPhase % 4 < 2
     /\ o.coff <=> o.compilationPhase = 8}
=============================================================================
