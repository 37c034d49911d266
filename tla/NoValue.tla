------------------------------ MODULE NoValue ------------------------------
(* The absence of a value: NULL in a column, None in the code. *)
CONSTANT None
=============================================================================
