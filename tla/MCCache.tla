------------------------------ MODULE MCCache ------------------------------
(* An instance of Cache for TLC: a device of a few blocks and a pool that    *)
(* is smaller than the device.                                               *)
EXTENDS Cache
=============================================================================
