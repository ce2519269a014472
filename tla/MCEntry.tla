------------------------------ MODULE MCEntry ------------------------------
(* One intent, bought up to twice: Entry on a small instance.              *)
EXTENDS Entry
=============================================================================
