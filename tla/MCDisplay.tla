----------------------------- MODULE MCDisplay ------------------------------
(***************************************************************************)
(* Display on narrow terminals, with all short lines of narrow and wide    *)
(* characters and some with combining ones or a byte that is none.         *)
(***************************************************************************)
EXTENDS Display

MCPrompts == {<<>>, <<"a">>, <<"a", "esc">>, <<"esc">>, <<"W">>, <<"a", "a", "a", "a">>}

MCTexts ==
  LET C == {"a", "W"}
  IN {<<>>} \cup {<<x>> : x \in C} \cup {<<x, y>> : x \in C, y \in C}
       \cup {<<x, y, z>> : x \in C, y \in C, z \in C}
       \cup {<<"a", "m">>, <<"W", "m", "a">>, <<"a", "W", "m">>, <<"a", "W", "m", "W">>,
             <<"a", "a", "a", "a">>, <<"W", "a", "W", "a">>, <<"a", "a", "a", "a", "a">>,
             <<"m", "a">>, <<"bad", "a">>}

\* The hypotheses of the theorems about Display hold of these constants.
ASSUME MCAssumption == NoneFillsARow /\ LinesAreSeen /\ EnoughRows
=============================================================================
