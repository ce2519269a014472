----------------------------- MODULE MCControl -----------------------------
(* One publisher, a few commands, two days: Control on small instances.    *)
EXTENDS Control
=============================================================================
