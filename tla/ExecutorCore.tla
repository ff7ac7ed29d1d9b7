---------------------------- MODULE ExecutorCore ----------------------------
(***************************************************************************)
(* shared/executor/executor.go: the steps of Executor.Run.  A member of    *)
(* Runs is one goroutine that may execute a task: a pool worker that calls *)
(* Run synchronously, or one "go exec.Run" of a worker process.  Run       *)
(* reaches the outside through consumer.Emit alone; the pattern's module   *)
(* conjoins what its consumer does with EmitEvent(r), and Run ignores the  *)
(* error Emit returns.                                                     *)
(***************************************************************************)
EXTENDS TaskModel

CONSTANTS Runs      \* the goroutines that execute tasks

VARIABLES run       \* [r \in Runs |-> program counter, task, stageIdx, total]

(* Where Run is about to call Emit, in the order of the code. *)
EmitPc == {"running", "start", "end", "completed", "failed"}
BusyPc == EmitPc \cup {"sleep"}

RunState == [pc : BusyPc, task : Tasks, stage : 0..MaxStages, total : 1..MaxStages]
Idle == [pc |-> "idle"]
Exited == [pc |-> "exit"]

Busy(r) == run[r].pc \in BusyPc

ExecTypeOK ==
    /\ run \in [Runs -> RunState \cup {Idle, Exited}]
    /\ \A r \in Runs : run[r].pc \in {"start", "sleep", "end"}
                          => run[r].stage < run[r].total

ExecInit == run = [r \in Runs |-> Idle]

(* exec.Run(ctx, task, consumer) is entered with a task of n stages.       *)
RunStart(r, t, n) ==
    /\ run[r].pc = "idle"
    /\ run' = [run EXCEPT ![r] = [pc |-> "running", task |-> t, stage |-> 0, total |-> n]]

(* The event Run passes to Emit.                                           *)
EmitEvent(r) ==
    LET t == run[r].task
        i == run[r].stage
        n == run[r].total
    IN  CASE run[r].pc = "start"  -> ProgressEvent(t, i, Progress(i, n))
          [] run[r].pc = "end"    -> ProgressEvent(t, i, Progress(i + 1, n))
          [] OTHER                -> StatusEvent(t, run[r].pc)

(* Mutant of AfterEmit: the stage index does not advance.                  *)
AfterEmitStuck(s) ==
    CASE s.pc = "running" -> [s EXCEPT !.pc = "start"]
      [] s.pc = "start"   -> [s EXCEPT !.pc = "sleep"]
      [] s.pc = "end"     -> [s EXCEPT !.pc = IF s.stage < s.total THEN "start" ELSE "completed"]
      [] OTHER            -> Idle

(* Mutant of AfterEmit: no return after the failed status of a cancelled   *)
(* stage.                                                                  *)
AfterEmitNoReturn(s) ==
    CASE s.pc = "running" -> [s EXCEPT !.pc = "start"]
      [] s.pc = "start"   -> [s EXCEPT !.pc = "sleep"]
      [] s.pc = "failed"  -> [s EXCEPT !.pc = "end"]
      [] s.pc = "end"     -> [s EXCEPT !.stage = s.stage + 1,
                                 !.pc = IF s.stage + 1 < s.total THEN "start" ELSE "completed"]
      [] OTHER            -> Idle

(* Where Run continues once that Emit has returned.                        *)
AfterEmit(s) ==
    CASE s.pc = "running" -> [s EXCEPT !.pc = IF s.stage < s.total THEN "start" ELSE "completed"]
      [] s.pc = "start"   -> [s EXCEPT !.pc = "sleep"]
      [] s.pc = "end"     -> [s EXCEPT !.stage = s.stage + 1,
                                 !.pc = IF s.stage + 1 < s.total THEN "start" ELSE "completed"]
      [] OTHER            -> Idle

EmitDone(r) ==
    /\ run[r].pc \in EmitPc
    /\ run' = [run EXCEPT ![r] = AfterEmit(run[r])]

(* The select of a stage: the timer, or the context.  When both are ready  *)
(* Go chooses either, so the timer may win over a cancelled context.       *)
StageSleep(r) ==
    /\ run[r].pc = "sleep"
    /\ run' = [run EXCEPT ![r].pc = "end"]

StageCancelled(r) ==
    /\ run[r].pc = "sleep"
    /\ run' = [run EXCEPT ![r].pc = "failed"]

(* The goroutine's own loop ends: consumer.Receive returned an error.      *)
RunExit(r) ==
    /\ run[r].pc = "idle"
    /\ run' = [run EXCEPT ![r] = Exited]
=============================================================================
