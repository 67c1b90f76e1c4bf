------------------------------ MODULE MCIfshow ------------------------------
(***************************************************************************)
(* Small instances of Ifshow for TLC.                                      *)
(***************************************************************************)
EXTENDS IfshowInv, MCKernel

BothBuses  == {Aliased, Plain}
TheAliased == {Aliased}
=============================================================================
