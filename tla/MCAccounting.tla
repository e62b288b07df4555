------------------------------- MODULE MCAccounting -------------------------------
(* Two orders from their placement on, four messages and two crashes. *)
EXTENDS OrderPipeline
================================================================================
