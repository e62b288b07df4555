----------------------------- MODULE MCCartConnection -----------------------------
(* Two requests, two outages, multiplexers to spare. *)
EXTENDS CartConnection
================================================================================
