------------------------------ MODULE MCInbound ------------------------------
(* One sender's messages from the webhook to the batch, for TLC. *)
EXTENDS Inbound
=============================================================================
