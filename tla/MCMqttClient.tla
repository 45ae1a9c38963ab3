---------------------------- MODULE MCMqttClient ----------------------------
(* MqttClient with every library call that may fail. *)
EXTENDS MqttClient

EveryCall == Calls
=============================================================================
