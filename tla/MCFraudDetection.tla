----------------------------- MODULE MCFraudDetection -----------------------------
(* Four records, batches of up to three, of which two may be slow. *)
EXTENDS FraudDetection
================================================================================
