----------------------------- MODULE MCLoadMain -----------------------------
(* Model-checking instance of LoadMain.                                     *)
EXTENDS LoadMain

MCThreadArgs == {0, 2, 3}
MCConnArgs == {0, 2, 5}
=============================================================================
