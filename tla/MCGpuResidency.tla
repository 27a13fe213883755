--------------------------- MODULE MCGpuResidency ---------------------------
(***************************************************************************)
(* Three text models: the shipped default, the safety fallback and a       *)
(* specialist, besides OCR.  The runs differ in which units may fail and   *)
(* in what else may go wrong.                                              *)
(***************************************************************************)
EXTENDS GpuResidency

CONSTANTS shipped, fallback, special, ocr
=============================================================================
