------------------------------- MODULE MCLists -------------------------------
(***************************************************************************)
(* Lists of the elements 1, 2, ...: deques and arrays of two and of four   *)
(* slots, and linked lists of up to four nodes in any order.               *)
(***************************************************************************)
EXTENDS Lists
=============================================================================
