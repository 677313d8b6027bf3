------------------------------ MODULE MCSession ------------------------------
(* One dialog that asks for the password, one that does not.               *)
EXTENDS Session

MCAsking == {"password"}
MCOtherDialogs == {"rules"}
=============================================================================
