----------------------------- MODULE MCImageList -----------------------------
(* Small instances of ImageList for TLC; see the configurations. *)
EXTENDS ImageList
=============================================================================
