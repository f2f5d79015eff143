----------------------------- MODULE MCReshaper -----------------------------
(* Reshaper with values for TLC.                                            *)
EXTENDS Reshaper

MCShapes == {<<3, -1>>, <<1, 1>>}
MCOneShape == {<<1, 0>>}
=============================================================================
