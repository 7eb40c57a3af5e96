-------------------------- MODULE MCChatDelivery --------------------------
(* Instances of ChatDelivery for TLC *)
EXTENDS ChatDelivery
=============================================================================
