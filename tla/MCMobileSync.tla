---------------------------- MODULE MCMobileSync ----------------------------
(* Two sales, the second on credit, and one New Sale page beside the loop.  *)
EXTENDS MobileSync

CONSTANTS pg1
=============================================================================
