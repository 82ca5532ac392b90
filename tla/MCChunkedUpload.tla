--------------------------- MODULE MCChunkedUpload ---------------------------
(***************************************************************************)
(* Chunks of two names against limits that two files of three bytes break. *)
(***************************************************************************)
EXTENDS ChunkedUpload
==============================================================================
