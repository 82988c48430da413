--------------------------- MODULE MCEmbedderEngine ---------------------------
(* The Linux embedding with one plugin thread.                              *)
EXTENDS EmbedderEngine
=============================================================================
