------------------------------ MODULE MCReceiver ------------------------------
(* Constants of Receiver for model checking: the dialogue of setup() with  *)
(* one of its four queries, and answers shortened to what tells them apart.  *)
EXTENDS Receiver

MCDialogue  == <<"+++", "ATSW=6432", "ATSW?", "ATO">>
MCOk        == <<"O", "K">>
MCOkCommand == <<"O", "K", "C">>
MCOkData    == <<"O", "K", "D">>
MCValue     == <<"v", "v">>
===============================================================================
