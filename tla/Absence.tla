------------------------------ MODULE Absence ------------------------------
(* The value of what is not there, shared by modules that run together.    *)
CONSTANT None
=============================================================================
