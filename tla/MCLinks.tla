------------------------------ MODULE MCLinks ------------------------------
(* Links for TLC.                                                          *)
EXTENDS Links
============================================================================
