----------------------------- MODULE MCPhotoBoard -----------------------------
(* Small instances of PhotoBoard for TLC; see the configurations. *)
EXTENDS PhotoBoard
=============================================================================
