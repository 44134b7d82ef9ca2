------------------------------ MODULE MCAccounts -------------------------------
(***************************************************************************)
(* Instances of Accounts for TLC.                                          *)
(***************************************************************************)
EXTENDS Accounts

\* A login with a password and one by QR code, in any order, with one each of a
\* logout, a deletion, a dead cookie, an expired session, a failure and a crash; IDS
\* comes to refuse the password, and may accept it again.
HoldLimit == [kind \in Kinds |-> IF kind = "turn" THEN 2 ELSE 1]

===============================================================================
