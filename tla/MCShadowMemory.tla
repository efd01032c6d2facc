--------------------------- MODULE MCShadowMemory ---------------------------
(* Instance of ShadowMemory for TLC: three pages of two bytes. *)
EXTENDS ShadowMemory

CONSTANTS e, w
=============================================================================
