------------------------------ MODULE MCInbox ------------------------------
(* One approval task of alice, who may hand it to bob; a few parkings.     *)
EXTENDS Inbox, TLC
=============================================================================
