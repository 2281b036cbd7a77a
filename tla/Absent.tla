--------------------------------- MODULE Absent ---------------------------------
(***************************************************************************)
(* The value of a column, field or reply that holds nothing.               *)
(***************************************************************************)
CONSTANT None
=============================================================================
