------------------------ MODULE MCGraphicsRequests ------------------------
(***************************************************************************)
(* Two graphics requests of one account with a limit of one image a day,   *)
(* over one midnight, with any other holder contending for the slot.       *)
(***************************************************************************)
EXTENDS GraphicsRequests

CONSTANTS drawing, redrawing
=============================================================================
