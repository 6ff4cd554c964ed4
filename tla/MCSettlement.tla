---------------------------- MODULE MCSettlement ----------------------------
(***************************************************************************)
(* TLC instances of Settlement.                                            *)
(***************************************************************************)
EXTENDS Settlement

CONSTANTS e1, e2, d1

TwoInvoices == 1 .. 2
=============================================================================
