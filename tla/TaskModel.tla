------------------------------ MODULE TaskModel ------------------------------
(***************************************************************************)
(* The data every pattern shares (shared/models/task.go) and the order in  *)
(* which one execution of a task emits its events.  A task id is a uuid,   *)
(* so a member of Tasks is used for at most one submission.  Task names,   *)
(* timestamps and stage names carry no behaviour: a stage is its index,    *)
(* and a timestamp is kept only as "set" or "not set".                     *)
(***************************************************************************)
EXTENDS Integers, Sequences, FiniteSets

CONSTANTS
    Tasks,      \* the uuids models.NewTask may generate
    Users,      \* the user ids found in a header or a cookie
    NoUser      \* the empty user id: neither header nor cookie is present

ASSUME UserAssumption == NoUser \notin Users

UserIDs == Users \cup {NoUser}

-----------------------------------------------------------------------------
(* Statuses.  "absent" stands for "no such key in the store".              *)

TaskStatus == {"pending", "running", "completed", "failed"}
Terminal == {"completed", "failed"}

(* len(stageNames). *)
MaxStages == 8

(* The number of stages of models.NewTask(name, n): n clamped to [1, 8].   *)
NewTaskStages(n) == IF n < 1 THEN 1 ELSE IF n > MaxStages THEN MaxStages ELSE n

(* The number of stages SubmitTask asks for: a missing or non-positive     *)
(* stage_count becomes 3 before NewTask clamps it.                         *)
SubmitStages(n) == NewTaskStages(IF n < 1 THEN 3 ELSE n)

-----------------------------------------------------------------------------
(* models.TaskEvent.  stage and progress are meaningful only in a progress *)
(* event, status only in a task_status event.                              *)
Event ==
    [type : {"progress", "task_status"}, task : Tasks, user : UserIDs,
     stage : 0..MaxStages, progress : 0..100, status : TaskStatus \cup {"none"}]

(* The zero event: what a goroutine holds when it has received nothing.    *)
NoEvent == [type |-> "none"]

(* Workers do not know the user: runEventLoop fills the field in.          *)
StatusEvent(t, s) ==
    [type |-> "task_status", task |-> t, user |-> NoUser,
     stage |-> 0, progress |-> 0, status |-> s]

ProgressEvent(t, i, p) ==
    [type |-> "progress", task |-> t, user |-> NoUser,
     stage |-> i, progress |-> p, status |-> "none"]

IsTerminal(ev) == ev.type = "task_status" /\ ev.status \in Terminal

(* Progress reported when k of n stages are done (integer division).       *)
Progress(k, n) == (k * 100) \div n

(* The position of an event in the emission order of one execution of a    *)
(* task of n stages: running, then the start and the end of every stage,   *)
(* then the terminal status.  An end of stage i and the start of stage     *)
(* i + 1 report the same percentage and differ in the stage.               *)
Rank(ev, n) ==
    IF ev.type = "task_status"
    THEN IF ev.status \in Terminal THEN 2 * n + 2 ELSE 1
    ELSE IF ev.progress = Progress(ev.stage, n)
         THEN 2 * ev.stage + 2
         ELSE 2 * ev.stage + 3
=============================================================================
