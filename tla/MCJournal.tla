----------------------------- MODULE MCJournal -----------------------------
(* Few entries in small segments.                                          *)
EXTENDS Journal
=============================================================================
