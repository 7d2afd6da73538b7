---------------------------- MODULE MCJobStream -----------------------------
(* A job of two layers: two records in one contour with tool 1, then one with tool 2. *)
EXTENDS JobStream

MCLayerTool == <<1, 2>>
MCLayerLen == <<2, 1>>
MCTools == <<1, 2>>
=============================================================================
