------------------------------- MODULE MCIcsFeed -------------------------------
(***************************************************************************)
(* Small instances of IcsFeed: a client that asks for both of two          *)
(* platforms, with a refresh and a homework each.                          *)
(***************************************************************************)
EXTENDS IcsFeed, TLC

CONSTANTS p1, p2, h1, h2, r1, r2, s1, c1

Homeworks == (h1 :> p1) @@ (h2 :> p2)
Targets == (r1 :> p1) @@ (r2 :> p2)
Urls == c1 :> s1
Filters == c1 :> {p1, p2}

Up(limit) == [kind \in Kinds |-> IF kind \in DOMAIN limit THEN limit[kind] ELSE 0]

\* One of everything that may make the forced 304 wrong, and a deletion.
FeedLimit == Up([bind |-> 1, unbind |-> 1, mark |-> 1, loss |-> 1, delete |-> 1])

\* Refreshes and polls only.
QuietLimit == Up([bind |-> 0])

===============================================================================
