------------------------------- MODULE Absent -------------------------------
(* The absent value that the modules of the terminal programs and of the    *)
(* services share.                                                          *)

CONSTANT None
=============================================================================
