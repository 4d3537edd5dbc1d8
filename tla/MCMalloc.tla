------------------------------ MODULE MCMalloc ------------------------------
(* An instance of Malloc for TLC: pages of eight units, two pages to a page  *)
(* table, kernel data that starts within table 1.                            *)
EXTENDS Malloc
=============================================================================
