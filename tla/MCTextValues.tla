----------------------------- MODULE MCTextValues -----------------------------
(* All strings of at most MaxTyped characters against limits below that. *)
EXTENDS TextValues
==============================================================================
