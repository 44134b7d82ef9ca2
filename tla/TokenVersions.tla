----------------------------- MODULE TokenVersions -----------------------------
(***************************************************************************)
(* What the versions of an account's tokens promise (README.md:81, a token *)
(* carries the version it was made under, and counts as long as the        *)
(* account has that version): an account has one version at a time, and a  *)
(* version that has been given up, by a logout or with the account, is     *)
(* never in force again.  Versions are numbered in the order they are made.*)
(***************************************************************************)
EXTENDS Naturals

NoVersion == 0

VARIABLES
    current,    \* the version in force, or NoVersion when there is no account
    made        \* how many versions have been made

vars == <<current, made>>

Init == current = NoVersion /\ made = 0

\* An account is registered, or logged out of everywhere.
Renew ==
    /\ made' = made + 1
    /\ current' = made'

\* The account goes, and its version with it.
Retire ==
    /\ current' = NoVersion
    /\ UNCHANGED made

Next == Renew \/ Retire

Spec == Init /\ [][Next]_vars

===============================================================================
