----------------------------- MODULE MCAccounts -----------------------------
(* A small instance of Accounts: two guilds share the account.              *)
EXTENDS Accounts

CONSTANTS g1, g2, h1, h2
=============================================================================
