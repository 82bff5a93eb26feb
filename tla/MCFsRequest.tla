---------------------------- MODULE MCFsRequest ----------------------------
(***************************************************************************)
(* Small instances of FsRequest.                                           *)
(***************************************************************************)
EXTENDS FsRequest
=============================================================================
