------------------------------- MODULE EvalRuns -------------------------------
(****************************************************************************)
(* The scoring runs of one evaluation set: API requests that start and      *)
(* cancel them, the job queue, worker processes that score case after case  *)
(* with a heartbeat, crash and restart, and the recovery of stale runs that *)
(* a worker performs when it starts.  Every session.execute below is a      *)
(* statement of its own under READ COMMITTED; no row is locked between two. *)
(* The queue (procrastinate) is external: a job is fetched by one worker,   *)
(* retried when it raises, and not fetched again when its worker dies.      *)
(****************************************************************************)
EXTENDS Naturals, FiniteSets

CONSTANTS Run,          \* requests to start a run; a run is named by its request
          Cases,        \* number of enabled cases of the set
          Worker,       \* worker processes
          NoWorker,
          Retries       \* how often the queue retries a job that raised

ASSUME EvalRunsAssumption ==
    /\ Cases \in Nat \ {0}
    /\ Retries \in Nat
    /\ NoWorker \notin Worker

VARIABLES
    runs,       \* run -> its eval_runs row: status, and whether heartbeat_at is past the TTL
    start,      \* run -> where the request that starts it is
    cancelling, \* runs a cancel request has found running and not yet updated
    job,        \* run -> its eval.run job, and the times it was retried
    task,       \* run -> the job's execution: its step, its worker, the case it is at
    up,         \* the worker processes alive
    results,    \* run -> case -> rows of eval_run_cases
    late        \* history: results stored after the run had stopped running
vars == <<runs, start, cancelling, job, task, up, results, late>>

Case == 1..Cases
Ended == {"completed", "failed", "cancelled"}
NoTask == [pc |-> "none", worker |-> NoWorker, at |-> 1]

Init ==
    /\ runs = [r \in Run |-> [status |-> "none", stale |-> FALSE]]
    /\ start = [r \in Run |-> "unsent"]
    /\ cancelling = {}
    /\ job = [r \in Run |-> [status |-> "none", tries |-> 0]]
    /\ task = [r \in Run |-> NoTask]
    /\ up = Worker
    /\ results = [r \in Run |-> [c \in Case |-> 0]]
    /\ late = [r \in Run |-> 0]

Running(r) == runs[r].status = "running"
Mark(r, status) == runs' = [runs EXCEPT ![r].status = status]

-------------------------------------------------------------------------------
(****************************************************************************)
(* The API: start_run, then enqueue outside its transaction; cancel_run.    *)
(****************************************************************************)
CheckBusy(r) ==
    /\ start[r] = "unsent"
    /\ start' = [start EXCEPT ![r] = IF \E x \in Run : Running(x) THEN "over" ELSE "free"]
    /\ UNCHANGED <<runs, cancelling, job, task, up, results, late>>

InsertRun(r) ==
    /\ start[r] = "free"
    /\ runs' = [runs EXCEPT ![r] = [status |-> "running", stale |-> FALSE]]
    /\ start' = [start EXCEPT ![r] = "committed"]
    /\ UNCHANGED <<cancelling, job, task, up, results, late>>

Enqueue(r) ==
    /\ start[r] = "committed"
    /\ job' = [job EXCEPT ![r].status = "todo"]
    /\ start' = [start EXCEPT ![r] = "over"]
    /\ UNCHANGED <<runs, cancelling, task, up, results, late>>

\* The request dies, or the queue refuses the job.
StartFails(r) ==
    /\ start[r] \in {"free", "committed"}
    /\ start' = [start EXCEPT ![r] = "over"]
    /\ UNCHANGED <<runs, cancelling, job, task, up, results, late>>

CancelRead(r) ==
    /\ Running(r) /\ r \notin cancelling
    /\ cancelling' = cancelling \cup {r}
    /\ UNCHANGED <<runs, start, job, task, up, results, late>>

\* The UPDATE does not look at the status again.
CancelWrite(r) ==
    /\ r \in cancelling
    /\ Mark(r, "cancelled")
    /\ cancelling' = cancelling \ {r}
    /\ UNCHANGED <<start, job, task, up, results, late>>

-------------------------------------------------------------------------------
(****************************************************************************)
(* run_eval_task in a worker.                                               *)
(****************************************************************************)
Fetch(w, r) ==
    /\ w \in up /\ job[r].status = "todo"
    /\ job' = [job EXCEPT ![r].status = "doing"]
    /\ task' = [task EXCEPT ![r] = [pc |-> "check", worker |-> w, at |-> 1]]
    /\ UNCHANGED <<runs, start, cancelling, up, results, late>>

Return(r) ==
    /\ task' = [task EXCEPT ![r] = NoTask]
    /\ job' = [job EXCEPT ![r].status = "done"]

\* Mutant: the status is looked at before the first case only.
CheckFirst(r) ==
    /\ task[r].pc = "check"
    /\ IF Running(r) \/ task[r].at > 1
       THEN task' = [task EXCEPT ![r].pc = "beat"] /\ UNCHANGED job
       ELSE Return(r)
    /\ UNCHANGED <<runs, start, cancelling, up, results, late>>

\* _is_running, before each case.
Check(r) ==
    /\ task[r].pc = "check"
    /\ IF Running(r)
       THEN task' = [task EXCEPT ![r].pc = "beat"] /\ UNCHANGED job
       ELSE Return(r)
    /\ UNCHANGED <<runs, start, cancelling, up, results, late>>

Beat(r) ==
    /\ task[r].pc = "beat"
    /\ runs' = [runs EXCEPT ![r].stale = FALSE]
    /\ task' = [task EXCEPT ![r].pc = "score"]
    /\ UNCHANGED <<start, cancelling, job, up, results, late>>

\* Mutant: the last case is forgotten.
AfterAllButLast(c) == IF c + 1 >= Cases THEN "finish" ELSE "check"

AfterCase(c) == IF c = Cases THEN "finish" ELSE "check"

\* The case is evaluated and its result inserted.
Score(r) ==
    LET c == task[r].at
    IN  /\ task[r].pc = "score"
        /\ results' = [results EXCEPT ![r][c] = @ + 1]
        /\ late' = IF Running(r) THEN late ELSE [late EXCEPT ![r] = @ + 1]
        /\ task' = [task EXCEPT ![r].pc = AfterCase(c), ![r].at = IF c = Cases THEN c ELSE c + 1]
        /\ UNCHANGED <<runs, start, cancelling, job, up>>

\* _finish_run does not look at the status it overwrites.
Finish(r) ==
    /\ task[r].pc = "finish"
    /\ Mark(r, "completed")
    /\ Return(r)
    /\ UNCHANGED <<start, cancelling, up, results, late>>

\* Whatever the task does may raise.
Raise(r) ==
    /\ task[r].pc \in {"check", "beat", "score", "finish"}
    /\ task' = [task EXCEPT ![r].pc = "failing"]
    /\ UNCHANGED <<runs, start, cancelling, job, up, results, late>>

FinishFailed(r) ==
    /\ task[r].pc = "failing"
    /\ Mark(r, "failed")
    /\ Return(r)
    /\ UNCHANGED <<start, cancelling, up, results, late>>

\* The second _finish_run raises too and the exception leaves the job: the queue
\* runs it again from the first case, or gives it up.
JobRaises(r) ==
    /\ task[r].pc = "failing"
    /\ task' = [task EXCEPT ![r] = NoTask]
    /\ job' = [job EXCEPT ![r] = IF @.tries < Retries
                                 THEN [status |-> "todo", tries |-> @.tries + 1]
                                 ELSE [@ EXCEPT !.status = "done"]]
    /\ UNCHANGED <<runs, start, cancelling, up, results, late>>

-------------------------------------------------------------------------------
(****************************************************************************)
(* Worker processes and time.                                               *)
(****************************************************************************)
\* Mutant: the queue hands the jobs of a dead worker to the next one.
CrashRequeues(w) ==
    /\ w \in up
    /\ up' = up \ {w}
    /\ task' = [r \in Run |-> IF task[r].worker = w THEN NoTask ELSE task[r]]
    /\ job' = [r \in Run |-> IF task[r].worker = w THEN [job[r] EXCEPT !.status = "todo"] ELSE job[r]]
    /\ UNCHANGED <<runs, start, cancelling, results, late>>

\* The process dies, or is told to stop: its tasks vanish, their jobs stay as
\* they are.
Crash(w) ==
    /\ w \in up
    /\ up' = up \ {w}
    /\ task' = [r \in Run |-> IF task[r].worker = w THEN NoTask ELSE task[r]]
    /\ UNCHANGED <<runs, start, cancelling, job, results, late>>

\* Mutant: only runs whose job has been fetched are recovered.
RecoverFetched ==
    runs' = [r \in Run |-> IF Running(r) /\ runs[r].stale /\ job[r].status = "doing"
                           THEN [runs[r] EXCEPT !.status = "failed"] ELSE runs[r]]

\* recover_stale_runs: one guarded UPDATE.
Recover ==
    runs' = [r \in Run |-> IF Running(r) /\ runs[r].stale
                           THEN [runs[r] EXCEPT !.status = "failed"] ELSE runs[r]]

StartWorker(w) ==
    /\ w \notin up
    /\ up' = up \cup {w}
    /\ Recover
    /\ UNCHANGED <<start, cancelling, job, task, results, late>>

\* A recovery that fails does not keep the worker from starting.
StartUnrecovered(w) ==
    /\ w \notin up
    /\ up' = up \cup {w}
    /\ UNCHANGED <<runs, start, cancelling, job, task, results, late>>

\* heartbeat_at falls behind the TTL: the run has no task, or its case takes long.
TimePasses(r) ==
    /\ Running(r) /\ ~runs[r].stale
    /\ runs' = [runs EXCEPT ![r].stale = TRUE]
    /\ UNCHANGED <<start, cancelling, job, task, up, results, late>>

TaskStep(r) ==
    \/ Check(r) \/ Beat(r) \/ Score(r) \/ Finish(r)
    \/ Raise(r) \/ FinishFailed(r) \/ JobRaises(r)

Next ==
    \/ \E r \in Run :
        \/ CheckBusy(r) \/ InsertRun(r) \/ Enqueue(r) \/ StartFails(r)
        \/ CancelRead(r) \/ CancelWrite(r)
        \/ \E w \in Worker : Fetch(w, r)
        \/ TaskStep(r)
        \/ TimePasses(r)
    \/ \E w \in Worker : Crash(w) \/ StartWorker(w) \/ StartUnrecovered(w)

\* Tasks go on and time passes.  Nothing obliges a worker to stop; one that is
\* started again and again does not fail to recover for ever.
Fairness ==
    /\ \A r \in Run : WF_vars(TaskStep(r)) /\ WF_vars(TimePasses(r))
    /\ \A w \in Worker : SF_vars(StartWorker(w))

Spec == Init /\ [][Next]_vars /\ Fairness

-------------------------------------------------------------------------------
(****************************************************************************)
(* Properties.                                                              *)
(****************************************************************************)
\* Rows, requests, jobs and tasks have the shapes the code gives them.
TypeOK ==
    /\ runs \in [Run -> [status : Ended \cup {"none", "running"}, stale : BOOLEAN]]
    /\ start \in [Run -> {"unsent", "free", "committed", "over"}]
    /\ cancelling \subseteq Run
    /\ job \in [Run -> [status : {"none", "todo", "doing", "done"}, tries : 0..Retries]]
    /\ task \in [Run -> [pc : {"none", "check", "beat", "score", "finish", "failing"},
                         worker : Worker \cup {NoWorker}, at : Case]]
    /\ up \subseteq Worker
    /\ results \in [Run -> [Case -> Nat]]
    /\ late \in [Run -> Nat]

\* Once a run has been cancelled, or recovered as interrupted, its task stores
\* the result it is computing and then stops: never a second one, whatever
\* crashes, retries and races there are ("checked before every case", D4 of
\* run_eval_task and cancel_run).
StopsPromptly == \A r \in Run : late[r] <= 1

\* A run reported as completed has a result for every case of the set, even if
\* it was retried half way or cancelled or recovered in the meantime.
CompletedIsComplete ==
    \A r \in Run : runs[r].status = "completed" => \A c \in Case : results[r][c] >= 1

\* A case is scored twice only by a retry of the queue, once per retry: crashes,
\* restarts and recoveries never score anything again (eval_run_cases has no
\* uniqueness constraint to fall back on).
RepeatsNeedRetries ==
    \A r \in Run, c \in Case : results[r][c] <= 1 + job[r].tries

\* As long as some worker process is stopped and started again from time to
\* time, no run stays running for ever, wherever its request, its job or its
\* worker was lost (recover_stale_runs is the only way out for those).
RestartsRecover ==
    (\E w \in Worker : []<>(w \notin up)) =>
        \A r \in Run : Running(r) ~> ~Running(r)
==============================================================================
