---------------------------- MODULE MCSeqlockRing -----------------------------
(* Model values and bounds of the seqlock ring's run are in seqlock.cfg. *)
EXTENDS SeqlockRing
===============================================================================
