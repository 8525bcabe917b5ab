------------------------------ MODULE MCBitmap ------------------------------
(* Bitmap on a volume of two blocks.                                       *)
EXTENDS Bitmap
=============================================================================
