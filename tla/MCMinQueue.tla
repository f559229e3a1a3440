----------------------------- MODULE MCMinQueue -----------------------------
(***************************************************************************)
(* MinQueue for TLC: numbers compared by halves, so that they tie in pairs.*)
(***************************************************************************)
EXTENDS MinQueue

ByHalf(a, b) == a \div 2 > b \div 2

=============================================================================
