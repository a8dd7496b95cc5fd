------------------------------ MODULE WipeJobs ------------------------------
(***************************************************************************)
(* tools/gui/server.py: the jobs of a station.  A wipe or a restore is a   *)
(* job with a thread of its own, which runs a command and files what it    *)
(* says; at most one job of a kind runs, and the wipes of the namespaces   *)
(* of one NVMe drive take turns.  People start and stop jobs from several  *)
(* pages at once, and the process restarts while its commands run on.      *)
(*                                                                         *)
(* What a command does to a drive is in EraseEngine, the files behind a    *)
(* record in StationQueue.  jobs[n] is the n-th job started; its thread is *)
(*   "asked"     registered, and waiting for its turn if it has a queue    *)
(*   "turn"      about to launch its command                               *)
(*   "reading"   reading what the command prints                           *)
(*   "over"      done with the command, or stopped before there was one    *)
(*   "released"  out of its queue, and filing the record                   *)
(*   "done"      no longer running                                         *)
(*   "lost"      gone with the process                                     *)
(***************************************************************************)
EXTENDS Naturals, Sequences, Functions

CONSTANTS Kinds,        \* the kinds of jobs: the wipe of each disk, and "install"
          Controllers,  \* the NVMe drives
          On,           \* the drive whose namespace a wipe is of ...
          Alone,        \* ... or that it is none
          Plans,        \* what people ask for: the kinds of jobs, in that order
          MaxJobs,      \* bound on the jobs asked for
          MaxStops,     \* bound on the requests to stop one
          MaxRestarts   \* bound on the restarts

ASSUME JobsAssumption ==
  /\ Alone \notin Controllers /\ On \in [Kinds -> Controllers \cup {Alone}]
  /\ "install" \in Kinds /\ On["install"] = Alone
  /\ \A plan \in Plans : plan \in Seq(Kinds) /\ Len(plan) <= MaxJobs
  /\ MaxJobs \in Nat /\ MaxStops \in Nat /\ MaxRestarts \in Nat

VARIABLES wanted,   \* what will still be asked for
          jobs,     \* every job started, and its command
          latest,   \* JOBS: the last job of each kind, or 0
          queue,    \* DRIVE_QUEUES
          ask,      \* a request to stop a job, and what it has read
          stops, restarts

jobVars == <<wanted, jobs, latest, queue, ask, stops, restarts>>

NoAsk == [job |-> 0, proc |-> FALSE]

\* queue_key.
Key(n) == On[jobs[n].kind]

Queued(n) == Key(n) # Alone

JobRuns(n) == jobs[n].step \notin {"done", "lost"}

Busy(kind) == latest[kind] # 0 /\ JobRuns(latest[kind])

\* PROCS has the command of a job until its thread is done.
HasProc(n) == jobs[n].command # "none" /\ JobRuns(n)

Enters(n, step) == jobs' = [jobs EXCEPT ![n].step = step]

\* q, in which n is, without it.
Without(q, n) == [i \in 1..(Len(q) - 1) |-> IF \A j \in 1..i : q[j] # n THEN q[i] ELSE q[i + 1]]

-----------------------------------------------------------------------------
(* start_job *)

NewJob(kind) ==
  LET c == On[kind] IN
  /\ jobs' = Append(jobs, [kind |-> kind, step |-> "asked", waiting |-> c # Alone /\ queue[c] # <<>>,
                           cancelled |-> FALSE, command |-> "none", says |-> "nothing",
                           untouched |-> FALSE, filed |-> FALSE])
  /\ latest' = [latest EXCEPT ![kind] = Len(jobs) + 1]
  /\ queue' = IF c = Alone THEN queue ELSE [queue EXCEPT ![c] = Append(@, Len(jobs) + 1)]

\* Refused if one of its kind runs; else registered and queued under one lock.
Start(kind) ==
  /\ wanted # <<>> /\ kind = Head(wanted) /\ wanted' = Tail(wanted)
  /\ IF Busy(kind) THEN UNCHANGED <<jobs, latest, queue>> ELSE NewJob(kind)
  /\ UNCHANGED <<ask, stops, restarts>>

\* Mutant: the head of the queue at the start is not waited for.
TurnOf_Any(n) == TRUE

TurnOf(n) == Queued(n) => queue[Key(n)][1] = n \/ jobs[n].cancelled

\* wait_turn: a job that was stopped meanwhile ends without a command.
TakeTurn(n) ==
  /\ jobs[n].step = "asked" /\ TurnOf(n)
  /\ IF jobs[n].cancelled
     THEN jobs' = [jobs EXCEPT ![n].waiting = FALSE, ![n].step = "over", ![n].says = "refused"]
     ELSE jobs' = [jobs EXCEPT ![n].waiting = FALSE, ![n].step = "turn"]
  /\ UNCHANGED <<wanted, latest, queue, ask, stops, restarts>>

\* Popen and PROCS, or no process could be made.
Launch(n) ==
  /\ jobs[n].step = "turn"
  /\ \/ jobs' = [jobs EXCEPT ![n].step = "reading", ![n].command = "runs"]
     \/ Enters(n, "over")
  /\ UNCHANGED <<wanted, latest, queue, ask, stops, restarts>>

\* The command ends, by itself or killed.  It has a session of its own.
CommandEnds(n) ==
  /\ jobs[n].command = "runs"
  /\ jobs' = [jobs EXCEPT ![n].command = "ended"]
  /\ UNCHANGED <<wanted, latest, queue, ask, stops, restarts>>

\* It printed a result ("made": wiped, failed or installed), a refusal, or neither.
ReadOutput(n) ==
  /\ jobs[n].step = "reading" /\ jobs[n].command = "ended"
  /\ \E says \in {"made", "refused", "nothing"} : jobs' = [jobs EXCEPT ![n].step = "over", ![n].says = says]
  /\ UNCHANGED <<wanted, latest, queue, ask, stops, restarts>>

\* release, before the record is filed: the next job may begin.
Release(n) ==
  /\ jobs[n].step = "over"
  /\ Enters(n, "released")
  /\ queue' = IF Queued(n) THEN [queue EXCEPT ![Key(n)] = Without(@, n)] ELSE queue
  /\ UNCHANGED <<wanted, latest, ask, stops, restarts>>

\* A wipe without a result is filed as failed; a refused one is not filed.
ToFile(n) == jobs[n].says = "made" \/ (jobs[n].says = "nothing" /\ jobs[n].kind # "install")

\* on_done, and the end of the thread.
FileRecord(n) ==
  /\ jobs[n].step = "released"
  /\ jobs' = [jobs EXCEPT ![n].step = "done", ![n].filed = ToFile(n)]
  /\ UNCHANGED <<wanted, latest, queue, ask, stops, restarts>>

-----------------------------------------------------------------------------
(* cancel_job: reads JOBS and PROCS, and takes the queue's lock afterwards *)

\* With no job of the kind running the answer is given at once.
Look(kind) ==
  /\ ask = NoAsk /\ Busy(kind)
  /\ stops < MaxStops /\ stops' = stops + 1
  /\ ask' = [job |-> latest[kind], proc |-> HasProc(latest[kind])]
  /\ UNCHANGED <<wanted, jobs, latest, queue, restarts>>

\* "Decided under the queue's lock, the same one wait_turn clears waiting under."
StopsWaiting == JobRuns(ask.job) /\ jobs[ask.job].waiting /\ ~ask.proc

\* Stopped before it started; or the command is sent a signal; or nothing is running.
Stop ==
  /\ ask # NoAsk
  /\ jobs' = IF StopsWaiting THEN [jobs EXCEPT ![ask.job].cancelled = TRUE, ![ask.job].untouched = TRUE]
             ELSE IF JobRuns(ask.job) /\ ask.proc THEN [jobs EXCEPT ![ask.job].cancelled = TRUE]
             ELSE jobs
  /\ ask' = NoAsk
  /\ UNCHANGED <<wanted, latest, queue, stops, restarts>>

\* The process restarts: the jobs are forgotten, their commands go on.
RestartJobs ==
  /\ restarts < MaxRestarts /\ restarts' = restarts + 1
  /\ jobs' = [n \in DOMAIN jobs |-> IF JobRuns(n) THEN [jobs[n] EXCEPT !.step = "lost"] ELSE jobs[n]]
  /\ latest' = [k \in Kinds |-> 0] /\ queue' = [c \in Controllers |-> <<>>] /\ ask' = NoAsk
  /\ UNCHANGED <<wanted, stops>>

-----------------------------------------------------------------------------
JobsInit ==
  /\ wanted \in Plans /\ jobs = <<>> /\ latest = [k \in Kinds |-> 0] /\ queue = [c \in Controllers |-> <<>>]
  /\ ask = NoAsk /\ stops = 0 /\ restarts = 0

Thread(n) == TakeTurn(n) \/ Launch(n) \/ ReadOutput(n) \/ Release(n) \/ FileRecord(n)

JobsNext ==
  \/ \E k \in Kinds : Start(k) \/ Look(k)
  \/ \E n \in DOMAIN jobs : Thread(n) \/ CommandEnds(n)
  \/ Stop \/ RestartJobs

JobsSpec == JobsInit /\ [][JobsNext]_jobVars

-----------------------------------------------------------------------------
(* Properties *)

Launched(n) == jobs[n].command # "none"

\* "Never at the same time": on one drive erases run one after the other and in the
\* order they were asked for, and of one disk there is one erase at a time, unless
\* the process lost sight of the first at a restart; what was "stopped before it
\* started", whatever the answer was drawn from, never touches the drive; and nobody
\* waits behind a job that is over, of which an erase that may have written is filed.
TurnsAreTaken ==
  /\ \A m, n \in DOMAIN jobs :
       m < n /\ jobs[m].step # "lost" /\ Launched(n) =>
         \/ Key(m) # Key(n) \/ (~Queued(m) /\ jobs[m].kind # jobs[n].kind)
         \/ jobs[m].step \in {"released", "done"} /\ jobs[m].command # "runs"
  /\ \A n \in DOMAIN jobs :
       /\ jobs[n].untouched => ~Launched(n) /\ ~jobs[n].filed
       /\ Queued(n) /\ n \in Range(queue[Key(n)]) => jobs[n].step \notin {"released", "done", "lost"}
       /\ jobs[n].step = "done" /\ Launched(n) /\ jobs[n].says # "refused" =>
            jobs[n].filed \/ jobs[n].kind = "install"
=============================================================================
