-------------------------- MODULE MCRabbitPublish --------------------------
(* An instance of RabbitPublish for TLC: everything that can happen.       *)
EXTENDS RabbitPublish

AllFaults == {"broker", "stop"}
=============================================================================
