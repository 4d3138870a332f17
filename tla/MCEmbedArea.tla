----------------------------- MODULE MCEmbedArea -----------------------------
(* The session with an embedding area, for TLC. *)
EXTENDS MCHostSession, EmbedArea

=============================================================================
