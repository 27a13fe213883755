------------------------------ MODULE MCLocalMcp ------------------------------
(* Three connections of a computer at a time, two calls, two versions of   *)
(* its tools.                                                              *)
EXTENDS LocalMcp
=============================================================================
