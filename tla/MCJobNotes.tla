----------------------------- MODULE MCJobNotes -----------------------------
(* JobNotes on small instances; the sets are model values of the cfg.      *)
EXTENDS JobNotes
=============================================================================
