---------------------------- MODULE MCEvidenceStore ----------------------------
(***************************************************************************)
(* One page whose URL has two spellings, and a spelling that does not       *)
(* canonicalize.                                                            *)
(***************************************************************************)
EXTENDS EvidenceStore

Spellings == {"page", "PAGE", "broken"}
Canonicalize ==
  [u \in Spellings |-> IF u = "broken" THEN Invalid ELSE "page"]
=============================================================================
