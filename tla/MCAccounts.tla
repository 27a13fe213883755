------------------------------ MODULE MCAccounts ------------------------------
(* Two accounts, two requests at a time, two projects in the sandbox.      *)
EXTENDS Accounts
=============================================================================
