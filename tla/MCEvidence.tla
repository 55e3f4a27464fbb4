------------------------------- MODULE MCEvidence -------------------------------
(* Two builds, one document that may be missing. *)
EXTENDS Evidence

MCDocs == {"07-AUDIT"}
=================================================================================
