------------------------------- MODULE MCQQPush --------------------------------
(***************************************************************************)
(* A small instance of QQPush: how often each kind of spontaneous event    *)
(* may happen.                                                             *)
(***************************************************************************)
EXTENDS QQPush

CONSTANTS c1, realtime

RealtimeUser == [chan |-> c1, setting |-> realtime]

Up(limit) == [kind \in Kinds |-> IF kind \in DOMAIN limit THEN limit[kind] ELSE 0]

\* A configuration, a change of the homeworks, a failure of the robot, a restart, a
\* deletion of the account.
PushLimit == [kind \in Kinds |-> 1]

\* A new homework, between two refreshes.
RefreshLimit == Up([change |-> 1])

===============================================================================
