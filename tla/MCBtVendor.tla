----------------------------- MODULE MCBtVendor -----------------------------
(* Three descriptors for TLC: one that is open, one that is stale and one  *)
(* that is fresh.                                                          *)
EXTENDS BtVendor

SomeFds == {3, 4, 5}
=============================================================================
