---------------------------- MODULE MCSourceMgr -----------------------------
(***************************************************************************)
(* SourceMgr with two names of one file, two directories and two texts.    *)
(*                                                                         *)
(***************************************************************************)
EXTENDS SourceMgr

\* "a.b" and "a/b" are two namespaces whose paths are the same.
MCNames == {<<"a", ".", "b">>, <<"a", "/", "b">>}

MCPathLists == {<<"d1", "d2">>, <<"d2">>}

\* The element types hold offsets below 2, 4 and 8.
MCWidths == <<2, 4, 8>>

\* The largest text of the second type, and one whose last newline needs the
\* third.
ThreeBytes == <<"char", "newline", "newline">>
FiveBytes  == <<"newline", "char", "char", "char", "newline">>

MCTexts == {ThreeBytes, FiveBytes}

MCReadable == {FiveBytes}
=============================================================================
