------------------------------ MODULE MCFlagStorage ------------------------------
(* Two flags with two variants, for TLC. *)
EXTENDS FlagStorage

MCDefault == [f \in Flags |-> "off"]
================================================================================
