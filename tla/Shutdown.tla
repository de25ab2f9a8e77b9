------------------------------ MODULE Shutdown ------------------------------
(***************************************************************************)
(* The background tasks Fusion starts when it latches Spoofed (the         *)
(* forensic dump and the two read-backs, src/src/fusion.rs), and the way   *)
(* the process ends (src/src/bin/flyingsquirrel.rs, src/src/runtime.rs):   *)
(* the supervisor's select notices a signal or the end of a task, main     *)
(* waits for Fusion, drains the background tasks for a bounded time, stops *)
(* the producers, gives the task that logs events a bounded time to empty  *)
(* its channel, and exits at once with an error or returns, in which case  *)
(* the runtime is dropped.                                                 *)
(*                                                                         *)
(* What a read-back looks at is in RtbReadback and SeverReadback; here a   *)
(* read-back is a task that ends within its window.  The write of the dump *)
(* (dump_to_disk, src/src/forensic.rs) is a sequence of file operations,   *)
(* each of which may fail, or take for ever.  The file library runs them   *)
(* on threads of its own: one that has begun goes on when the task that    *)
(* awaits it is aborted, and dropping the runtime waits for it.            *)
(*                                                                         *)
(* Events are counted.  Time is an integer number of ticks, and a dump is  *)
(* named after the tick of its latch.                                      *)
(***************************************************************************)
EXTENDS Integers, FiniteSets

CONSTANTS
  RtbWindow,    \* RTB_VERIFY_WINDOW
  SeverWindow,  \* SEVER_VERIFY_WINDOW
  DrainTimeout, \* the timeout main gives drain_pending_bg
  FlushTimeout, \* the timeout main gives the action task
  None,
  MaxLatches,   \* bound of the model: transitions into Spoofed
  MaxTime       \* bound of the model: the drain begins no later than this

ASSUME ShutdownAssumption ==
  /\ RtbWindow \in Nat
  /\ SeverWindow \in Nat
  /\ DrainTimeout \in Nat \ {0}
  /\ FlushTimeout \in Nat \ {0}
  /\ None \notin Nat
  /\ MaxLatches \in Nat
  /\ MaxTime \in Nat

VARIABLES
  clock,
  phase,      \* where main is
  exit_reason, \* why: "orderly", "task_died", or None before
  handles,    \* each joinable task: alive or ended
  deadline,   \* end of the drain or of the flush
  latched,    \* the detector is Spoofed
  responding, \* on_gps is between the dump and the spawn of the read-backs
  latches,    \* number of transitions into Spoofed
  dump_fired, \* the one-shot claim on the forensic dump
  tasks,      \* pending_bg
  files,      \* the dump directory
  bus,        \* number of events the action task has not logged
  pool,       \* file operations still running whose task was aborted
  \* history, not part of the code
  written,    \* latches whose dump was reported as written
  aborted,    \* background tasks the drain gave up on
  cut         \* the action task was stopped, or died, before its channel closed

detector == <<latched, responding, latches>>
dump == <<dump_fired, files, written>>
main == <<phase, exit_reason, deadline>>
vars == <<clock, main, handles, detector, dump, tasks, bus, pool, aborted,
           cut>>

\* The listener and the watchdog are watched and stopped alike: one producer
\* stands for both.
Joinable == {"fusion", "action", "producer"}

Init ==
  /\ clock = 0
  /\ phase = "select"
  /\ exit_reason = None
  /\ handles = [h \in Joinable |-> "alive"]
  /\ deadline = None
  /\ latched = FALSE
  /\ responding = FALSE
  /\ latches = 0
  /\ dump_fired = FALSE
  /\ tasks = {}
  /\ bus = 0
  /\ pool = {}
  /\ files = {}
  /\ written = {}
  /\ aborted = {}
  /\ cut = FALSE

Finished(h) == handles[h] # "alive"

\* A broadcast event: it waits for the action task.
Emit == bus' = bus + 1

(***************************************************************************)
(* Time, and the tasks.                                                    *)
(***************************************************************************)
Window(task) == IF task.kind = "rtb" THEN RtbWindow ELSE SeverWindow

\* A read-back ends at its deadline at the latest, and a bounded wait of main
\* ends when its time is up.
Tick ==
  /\ deadline = None => clock < MaxTime
  /\ \A task \in tasks : task.kind # "dump" => clock < task.since + Window(task)
  /\ deadline # None => clock < deadline
  /\ clock' = clock + 1
  /\ UNCHANGED <<main, handles, detector, dump, tasks, bus, pool, aborted, cut>>

\* try_claim_dump, one compare-exchange: won if nobody holds the claim.
TryClaimDump(won) ==
  /\ won = ~dump_fired
  /\ dump_fired' = TRUE

\* maybe_trigger_forensic_dump and the transition into Spoofed: a lost claim
\* is reported instead.
Latch ==
  LET task == [kind |-> "dump", latch |-> latches + 1, since |-> clock,
               stage |-> "open"]
  IN  /\ handles["fusion"] = "alive"
      /\ ~latched
      /\ latches < MaxLatches
      /\ latched' = TRUE
      /\ responding' = TRUE
      /\ latches' = latches + 1
      /\ \E won \in BOOLEAN :
           /\ TryClaimDump(won)
           /\ IF won
              THEN tasks' = tasks \cup {task} /\ UNCHANGED bus
              ELSE Emit /\ UNCHANGED tasks
      /\ UNCHANGED <<clock, main, handles, files, written, pool, aborted, cut>>

\* The commands are sent; the two read-backs are spawned whatever became of
\* them.
Respond ==
  /\ handles["fusion"] = "alive"
  /\ responding
  /\ responding' = FALSE
  /\ tasks' = tasks \cup [kind : {"sever", "rtb"}, latch : {latches},
                          since : {clock}, stage : {"poll"}]
  /\ UNCHANGED <<clock, main, handles, latched, latches, dump, bus, pool,
                 aborted, cut>>

OperatorReset ==
  /\ handles["fusion"] = "alive"
  /\ ~responding
  /\ latched' = FALSE
  /\ UNCHANGED <<clock, main, handles, responding, latches, dump, tasks, bus,
                 pool, aborted, cut>>

(***************************************************************************)
(* dump_to_disk.  The temporary file is created anew, filled, synced and   *)
(* renamed, and the directory is synced; the result is then reported.  The *)
(* content of a file is "part" until it is synced, and then "whole", or    *)
(* "short" if a write failed.  Its entry in the directory is "volatile"    *)
(* until the directory is synced, and then "durable", or "warned" if that  *)
(* sync failed and the failure was logged.                                 *)
(***************************************************************************)
Tmp(task, content) ==
  [name |-> task.since, tmp |-> TRUE, latch |-> task.latch,
   content |-> content, entry |-> "volatile"]
TmpOf(task) == {f \in files : f.tmp /\ f.name = task.since}
FinalOf(task) == {f \in files : ~f.tmp /\ f.name = task.since}

Filled(task, content) ==
  files' = (files \ TmpOf(task)) \cup {Tmp(task, content)}

\* A left-over temporary file of that name makes create_new fail.
OpenTmp(task) ==
  /\ task.stage = "open"
  /\ TmpOf(task) = {}
  /\ Filled(task, "part")

\* write_all returns when the last piece is handed to the library, which
\* writes it behind the caller's back; flush, which would wait, is not called.
WriteAll(task) == task.stage = "write" /\ Filled(task, "part")

\* sync_all waits for that piece, keeps the error it may end with for a later
\* write, and reports the result of the sync alone.
SyncAll(task) ==
  /\ task.stage = "sync"
  /\ \E content \in {"whole", "short"} : Filled(task, content)

\* rename replaces a file of the final name.
Rename(task) ==
  /\ task.stage = "rename"
  /\ files' = (files \ (TmpOf(task) \cup FinalOf(task)))
                 \cup {[f EXCEPT !.tmp = FALSE] : f \in TmpOf(task)}

\* The sync of the directory, best effort: a failure is logged, and no error.
SyncDir(task) ==
  /\ task.stage = "dirsync"
  /\ \E entry \in {"durable", "warned"} :
       files' = (files \ FinalOf(task))
                  \cup {[f EXCEPT !.entry = entry] : f \in FinalOf(task)}

FileOp(task) ==
  OpenTmp(task) \/ WriteAll(task) \/ SyncAll(task) \/ Rename(task) \/ SyncDir(task)

\* Mutant: the file is renamed without having been made durable.
StageAfterNoSync(stage) ==
  CASE stage = "open" -> "write"
    [] stage = "write" -> "rename"
    [] stage = "rename" -> "dirsync"
    [] stage = "dirsync" -> "report"

StageAfter(stage) ==
  CASE stage = "open" -> "write"
    [] stage = "write" -> "sync"
    [] stage = "sync" -> "rename"
    [] stage = "rename" -> "dirsync"
    [] stage = "dirsync" -> "report"

DumpStep(task) ==
  /\ task \in tasks
  /\ FileOp(task)
  /\ tasks' = (tasks \ {task})
                 \cup {[task EXCEPT !.stage = StageAfter(task.stage)]}
  /\ UNCHANGED <<clock, main, handles, detector, dump_fired, written, bus, pool,
                 aborted, cut>>

\* The dump is reported, and the claim stays.
DumpWritten(task) ==
  /\ task.stage = "report"
  /\ written' = written \cup {task.latch}
  /\ Emit
  /\ UNCHANGED <<dump_fired, files>>

\* The operations whose failure fails the dump.
Fallible == {"open", "write", "sync", "rename"}

\* A failed write or rename removes the temporary file, a failed sync does not.
FilesAfterFailure(task) ==
  IF task.stage \in {"write", "rename"} THEN files \ TmpOf(task) ELSE files

\* Mutant: a failed write keeps the claim.
DumpFailedKeepsClaim(task) ==
  /\ task.stage \in Fallible
  /\ files' = FilesAfterFailure(task)
  /\ Emit
  /\ UNCHANGED <<dump_fired, written>>

\* An operation fails: the claim is released so that a later latch may retry.
DumpFailed(task) ==
  /\ task.stage \in Fallible
  /\ files' = FilesAfterFailure(task)
  /\ dump_fired' = FALSE
  /\ Emit
  /\ UNCHANGED written

\* A read-back reports its verdict; a confirmed sever is not reported.
ReadbackEnds(task) ==
  /\ task.stage = "poll"
  /\ \/ Emit
     \/ task.kind = "sever" /\ UNCHANGED bus
  /\ UNCHANGED dump

TaskEnds(task) ==
  /\ task \in tasks
  /\ tasks' = tasks \ {task}
  /\ DumpWritten(task) \/ DumpFailed(task) \/ ReadbackEnds(task)
  /\ UNCHANGED <<clock, main, handles, detector, pool, aborted, cut>>

\* The action task logs the next event.
LogEvent ==
  /\ ~Finished("action")
  /\ bus > 0
  /\ bus' = bus - 1
  /\ UNCHANGED <<clock, main, handles, detector, dump, tasks, pool, aborted,
                 cut>>

\* A task panics.
Dies(h) ==
  /\ handles[h] = "alive"
  /\ phase = "select"
  /\ handles' = [handles EXCEPT ![h] = "ended"]
  /\ cut' = (cut \/ h = "action")
  /\ UNCHANGED <<clock, main, detector, dump, tasks, bus, pool, aborted>>

(***************************************************************************)
(* The supervisor's select: a signal, the duration limit or the end of an  *)
(* ingest task, which its source and its result make an orderly exit or a  *)
(* failure, or the end of another task, which is a failure.  Any ready arm *)
(* may win.                                                                *)
(***************************************************************************)
Stop(reason) ==
  /\ phase = "select"
  /\ phase' = "fusion"
  /\ exit_reason' = reason
  /\ UNCHANGED <<clock, handles, deadline, detector, dump, tasks, bus, pool,
                 aborted, cut>>

StopRequested == \E reason \in {"orderly", "task_died"} : Stop(reason)

TaskDied(h) == Finished(h) /\ Stop("task_died")
-----------------------------------------------------------------------------
(***************************************************************************)
(* The shutdown sequence of main.  Before each of its awaits of a handle   *)
(* stands that handle's is_finished().                                     *)
(***************************************************************************)

\* The ingest tasks are aborted, so the loop of Fusion ends once it has
\* handled what is queued.
FusionEnds ==
  /\ phase \in {"fusion", "await"}
  /\ handles["fusion"] = "alive"
  /\ ~responding
  /\ handles' = [handles EXCEPT !["fusion"] = "ended"]
  /\ UNCHANGED <<clock, main, detector, dump, tasks, bus, pool, aborted, cut>>

BeginDrain ==
  /\ phase' = "drain"
  /\ deadline' = clock + DrainTimeout

CheckFusion ==
  /\ phase = "fusion"
  /\ IF Finished("fusion") THEN BeginDrain
     ELSE phase' = "await" /\ UNCHANGED deadline
  /\ UNCHANGED <<clock, exit_reason, handles, detector, dump, tasks, bus, pool,
                 aborted, cut>>

AwaitFusion ==
  /\ phase = "await"
  /\ Finished("fusion")
  /\ BeginDrain
  /\ UNCHANGED <<clock, exit_reason, handles, detector, dump, tasks, bus, pool,
                 aborted, cut>>

\* A producer that is still running is aborted and awaited, main drops its own
\* sender, so that none is left, and awaits the action task.
StopProducers ==
  /\ phase' = "flush"
  /\ deadline' = clock + FlushTimeout
  /\ handles' = [handles EXCEPT !["producer"] = "ended"]

\* Mutant: the drain has no timeout.
DrainedUnbounded ==
  /\ phase = "drain"
  /\ tasks = {}
  /\ aborted' = tasks
  /\ StopProducers
  /\ UNCHANGED <<clock, exit_reason, detector, dump, tasks, bus, pool, cut>>

\* drain_pending_bg returns: every task was joined, or the time is up and the
\* rest is aborted.  A dump that is aborted between two file operations leaves
\* none behind, one that awaits an operation leaves that one running.
Drained ==
  /\ phase = "drain"
  /\ tasks = {} \/ clock >= deadline
  /\ aborted' = tasks
  /\ tasks' = {}
  /\ pool' \in SUBSET {task \in tasks : task.stage \in Fallible \cup {"dirsync"}}
  /\ StopProducers
  /\ UNCHANGED <<clock, exit_reason, detector, dump, bus, cut>>

\* Mutant: the action task is stopped before the drain.
ActionEndsBeforeDrain ==
  /\ phase = "drain"
  /\ handles["action"] = "alive"
  /\ handles' = [handles EXCEPT !["action"] = "ended"]
  /\ UNCHANGED <<clock, main, detector, dump, tasks, bus, pool, aborted, cut>>

\* The channel is closed and empty, so the action task ends.
ActionEnds ==
  /\ phase = "flush"
  /\ handles["action"] = "alive"
  /\ bus = 0
  /\ handles' = [handles EXCEPT !["action"] = "ended"]
  /\ UNCHANGED <<clock, main, detector, dump, tasks, bus, pool, aborted, cut>>

\* The write of a line of the log, which each event waits for.
LogWrite == [kind |-> "log", latch |-> 0, since |-> 0, stage |-> "append"]

\* main is done when the action task has ended, or aborts it at the timeout,
\* in the middle of a line perhaps.  After a failure it calls process::exit,
\* which waits for nothing, and otherwise it returns.
Exit ==
  /\ phase = "flush"
  /\ Finished("action") \/ clock >= deadline
  /\ phase' = IF exit_reason = "task_died" THEN "exited" ELSE "returned"
  /\ cut' = (cut \/ ~Finished("action"))
  /\ \/ UNCHANGED pool
     \/ /\ ~Finished("action") /\ bus > 0
        /\ pool' = pool \cup {LogWrite}
  /\ UNCHANGED <<clock, exit_reason, handles, deadline, detector, dump, tasks, bus,
                 aborted>>

\* main has returned and its runtime is dropped, which waits for the threads of
\* the file library; then the process is gone.
RuntimeDropped ==
  /\ phase = "returned"
  /\ pool = {}
  /\ phase' = "exited"
  /\ UNCHANGED <<clock, exit_reason, handles, deadline, detector, dump, tasks, bus,
                 pool, aborted, cut>>

\* A file operation that nobody awaits any more succeeds or fails, if the
\* process lives that long.
PoolStep(op) ==
  /\ phase # "exited"
  /\ FileOp(op) \/ UNCHANGED files
  /\ pool' = pool \ {op}
  /\ UNCHANGED <<clock, main, handles, detector, dump_fired, written, tasks, bus,
                 aborted, cut>>

Main == CheckFusion \/ AwaitFusion \/ Drained \/ Exit \/ RuntimeDropped

FusionTask == Latch \/ Respond \/ OperatorReset \/ FusionEnds

Next ==
  \/ Tick
  \/ FusionTask
  \/ \E task \in tasks : DumpStep(task) \/ TaskEnds(task)
  \/ LogEvent
  \/ ActionEnds
  \/ \E h \in Joinable : Dies(h) \/ TaskDied(h)
  \/ StopRequested
  \/ \E op \in pool : PoolStep(op)
  \/ Main

\* Time passes, main and Fusion run when they can, and a read-back returns at
\* its deadline.  Nothing is assumed of the disk: neither of the write of the
\* dump or of the log nor of an operation left behind.
Fairness ==
  /\ WF_vars(Tick)
  /\ WF_vars(Main)
  /\ WF_vars(Respond)
  /\ WF_vars(FusionEnds)
  /\ WF_vars(\E task \in tasks : task.kind # "dump" /\ TaskEnds(task))

Spec == Init /\ [][Next]_vars /\ Fairness
-----------------------------------------------------------------------------
(***************************************************************************)
(* Properties.                                                             *)
(***************************************************************************)
\* The claim on the dump is held by exactly one dump, being written, on disk
\* or aborted at shutdown, and never by more: two latches around an operator
\* reset do not write two dumps, and a failed write leaves the claim free
\* (fusion.rs:510-530 and 581-585).
OneDumpPerProcess ==
  LET dumps == {task \in tasks \cup aborted : task.kind = "dump"}
  IN  Cardinality(dumps) + Cardinality(written) = IF dump_fired THEN 1 ELSE 0

\* Whenever the process is cut short, by a crash, by a power failure or by the
\* drain's timeout, an operation left behind included, a file with the name of a
\* dump was synced before it got the name, and a dump reported as written is
\* still there, in a directory that was synced or of which the log says that its
\* sync failed: no retry in the same second replaces it (forensic.rs:366-417).
DumpsIntact ==
  LET dumps == {f \in files : ~f.tmp}
  IN  /\ \A f \in dumps : f.content # "part"
      /\ \A l \in written : \E f \in dumps : f.latch = l /\ f.entry # "volatile"

\* The event of every background task that ended is in the log when main is
\* done, unless the action task itself died or its flush ran out of time: the
\* logger outlives the drain (bin/flyingsquirrel.rs:739-747).
EventTrailComplete ==
  phase \in {"returned", "exited"} /\ ~cut => bus = 0

\* A stop always ends the process, also when the disk hangs under the dump and
\* when the log stalls, with one exception: main is always done, but after an
\* orderly stop the runtime waits for ever for a file operation that hangs.
StopEnds ==
  phase = "fusion" ~>
    \/ phase = "exited"
    \/ [](phase = "returned" /\ exit_reason = "orderly" /\ pool # {})
=============================================================================
