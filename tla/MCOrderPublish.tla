------------------------------ MODULE MCOrderPublish ------------------------------
(* Three handlers that share a producer with room for one message each way. *)
EXTENDS PublishProperties
================================================================================
