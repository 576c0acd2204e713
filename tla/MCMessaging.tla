------------------------------ MODULE MCMessaging ------------------------------
(* Values of Messaging's constants for TLC.                                *)
EXTENDS MCIntegrations, Messaging

CONSTANT publisher
===============================================================================
