---------------------------- MODULE MCOfferState ----------------------------
(* Instances of OfferState for TLC.                                          *)
EXTENDS OfferState, TLC

CONSTANTS p1, p2, c1, c2
=============================================================================
