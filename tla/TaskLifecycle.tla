---------------------------- MODULE TaskLifecycle ----------------------------
(***************************************************************************)
(* What the task manager promises, without dispatcher, workers or          *)
(* channels: a task is recorded once, it ends at most once, and a browser  *)
(* is told an ending only of a task of its own user and only after the     *)
(* store says the same ("Manager persists, then republishes").             *)
(***************************************************************************)
CONSTANTS Tasks, UserIDs, Clients, ClientUser

VARIABLES
    status,     \* what GET /tasks/:id answers
    owner,      \* the user a recorded task belongs to
    told        \* the ending each client was told of each task

Endings == {"completed", "failed"}

Init ==
    /\ status = [t \in Tasks |-> "absent"]
    /\ owner \in [Tasks -> UserIDs]
    /\ told = [c \in Clients |-> [t \in Tasks |-> "none"]]

Record(t) ==
    /\ status[t] = "absent"
    /\ status' = [status EXCEPT ![t] = "pending"]
    /\ \E u \in UserIDs : owner' = [owner EXCEPT ![t] = u]
    /\ UNCHANGED told

End(t, s) ==
    /\ status[t] = "pending"
    /\ status' = [status EXCEPT ![t] = s]
    /\ UNCHANGED <<owner, told>>

Tell(c, t) ==
    /\ status[t] \in Endings
    /\ owner[t] = ClientUser[c]
    /\ told[c][t] = "none"
    /\ told' = [told EXCEPT ![c][t] = status[t]]
    /\ UNCHANGED <<status, owner>>

Next ==
    \/ \E t \in Tasks : Record(t)
    \/ \E t \in Tasks, s \in Endings : End(t, s)
    \/ \E c \in Clients, t \in Tasks : Tell(c, t)

vars == <<status, owner, told>>

Spec == Init /\ [][Next]_vars
=============================================================================
