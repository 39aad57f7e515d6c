------------------------------- MODULE Absent -------------------------------
(* The absent value of every module, SQL's NULL and Rust's None; input that is *)
(* there but empty, and input that does not parse.                             *)
CONSTANTS NULL, BLANK, GARBAGE
=============================================================================
