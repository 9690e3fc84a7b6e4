--------------------------- MODULE MCConfigWatch ---------------------------
(* ConfigWatch with a main file that includes two others, one of them twice. *)
EXTENDS ConfigWatch

CONSTANTS main, colors, keys

MCIncludes == <<colors, keys, colors>>
=============================================================================
