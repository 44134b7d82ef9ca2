-------------------------- MODULE MCHomeworkRefresh ---------------------------
(***************************************************************************)
(* Small instances of HomeworkRefresh: how often each kind of spontaneous  *)
(* event may happen in a run, 0 when not named.                            *)
(***************************************************************************)
EXTENDS HomeworkRefresh

Up(limit) == [kind \in Kinds |-> IF kind \in DOMAIN limit THEN limit[kind] ELSE 0]

\* One request at a time; two timeouts, failures or crashes, in any combination.
CareLimit == Up([request |-> 2, change |-> 1, fault |-> 2, lock |-> 1])

\* A binding and an unbinding.
UnbindLimit == Up([request |-> 2])

===============================================================================
