------------------------------ MODULE MCMeetSync ------------------------------
(***************************************************************************)
(* Small instances of MeetSync.  Each run takes one of the limits below:   *)
(* how often each kind of spontaneous event may happen, 0 when not named.  *)
(***************************************************************************)
EXTENDS MeetSync, TLC

CONSTANTS u1, u2, h1, h2

OneOwner == [h \in {h1, h2} |-> u1]
OneHomework == [h \in {h1} |-> u1]
TwoOwners == (h1 :> u1) @@ (h2 :> u2)

\* The two users may change places, each with the homework, and so may the keys: under
\* TwoOwners nothing tells them apart.
Symmetry == {(u1 :> u2) @@ (u2 :> u1) @@ (h1 :> h2) @@ (h2 :> h1)} \cup Permutations(Keys)

Up(limit) == [kind \in Kinds |-> IF kind \in DOMAIN limit THEN limit[kind] ELSE 0]

\* Bindings that live through a lost answer, an event edited or deleted in Meet, a
\* revoked key, two users in the job's one session.
MirrorLimit == Up([bind |-> 2, click |-> 1, meet |-> 1, fault |-> 1,
                   revoke |-> 1, remove |-> 1])

\* Binding again around a running job, after an unbinding or the deletion of the
\* account, with a lost or short answer.
RebindLimit == Up([bind |-> 2, unbind |-> 1, click |-> 1, fault |-> 1])

\* Unbinding and binding again around a running job, without any failure.
RaceLimit == Up([bind |-> 2, unbind |-> 1, click |-> 1])

\* Everything that may keep the job from finishing its work.
LiveLimit == Up([bind |-> 1, find |-> 1, click |-> 1, meet |-> 1, fault |-> 1,
                 revoke |-> 1, crash |-> 1])

\* The shortest histories that contradict what the code says of itself.
FindLimit == Up([bind |-> 1, find |-> 1])

===============================================================================
