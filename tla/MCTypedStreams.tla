--------------------------- MODULE MCTypedStreams ---------------------------
(***************************************************************************)
(* Model of TypedStreams, with windows of one byte or two, that run empty  *)
(* and full, and one or two frames per direction, so that frames of both   *)
(* ends cross.                                                             *)
(***************************************************************************)
EXTENDS TypedStreams
============================================================================
