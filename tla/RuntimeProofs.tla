---------------------------- MODULE RuntimeProofs ----------------------------
(***************************************************************************)
(* Proofs about Shutdown, for any number of latches, any windows and       *)
(* timeouts, and every way in which a file operation, a task or the log    *)
(* may fail or hang; and about OperatorView, for any number of heartbeats, *)
(* modes, transitions and failed writes, any capacity of the channel and   *)
(* any staleness threshold.                                                *)
(***************************************************************************)
EXTENDS Shutdown, OperatorView, FiniteSetTheorems, SequenceTheorems, TLAPS

(***************************************************************************)
(* Shutdown: the inductive invariant.                                      *)
(***************************************************************************)
DumpStages == {"open", "write", "sync", "rename", "dirsync", "report"}

Tasks ==
  [kind : {"dump"}, latch : Nat, since : Nat, stage : DumpStages]
    \cup [kind : {"sever", "rtb"}, latch : Nat, since : Nat, stage : {"poll"}]

Files ==
  [name : Nat, tmp : BOOLEAN, latch : Nat, content : {"part", "short", "whole"},
   entry : {"volatile", "durable", "warned"}]

\* main no longer waits for a background task, or is done.
Flushing == {"flush", "returned", "exited"}

Phases == {"select", "fusion", "await", "drain"} \cup Flushing

ShutdownTypeOK ==
  /\ clock \in Nat
  /\ phase \in Phases
  /\ handles \in [Joinable -> {"alive", "ended"}]
  /\ latches \in Nat
  /\ tasks \subseteq Tasks
  /\ aborted \subseteq Tasks
  /\ files \subseteq Files

\* The drain begins when Fusion has ended, and after it no task is left and
\* none can be started; what an aborted task, or the log, leaves behind is left
\* behind after it.
DrainInOrder ==
  /\ phase \in {"drain"} \cup Flushing => handles["fusion"] # "alive"
  /\ phase \in Flushing => tasks = {}
  /\ phase \notin Flushing => aborted = {} /\ pool = {}
  /\ pool \subseteq aborted \cup {LogWrite}

Dumps == {task \in tasks \cup aborted : task.kind = "dump"}

\* A free claim means that there is no dump, a claim that is held means that
\* there is one, which is either under way, or given up, or written.
ClaimAccounted ==
  /\ ~dump_fired => Dumps = {} /\ written = {}
  /\ dump_fired =>
       \/ written = {} /\ \E task \in Dumps : Dumps = {task}
       \/ Dumps = {} /\ \E l \in written : written = {l}

\* What is renamed is the one temporary file of the dump, and it was synced;
\* what is reported is there, in a directory whose sync is over.  The operation
\* that an aborted dump leaves behind finds the files as the dump would have.
Settled(f) == ~f.tmp /\ f.entry # "volatile"

FilesFollowStages ==
  /\ \A f \in files : ~f.tmp => f.content # "part"
  /\ \A task \in tasks \cup pool : task.kind = "dump" =>
       /\ task.stage = "rename" =>
            \E content \in {"short", "whole"} : TmpOf(task) = {Tmp(task, content)}
       /\ task.stage = "dirsync" =>
            \E f \in FinalOf(task) : f.latch = task.latch
       /\ task.stage = "report" =>
            \E f \in files : Settled(f) /\ f.latch = task.latch
  /\ \A l \in written : \E f \in files : Settled(f) /\ f.latch = l

\* Unless it died or was stopped, the action task ends with an empty channel
\* that nobody can send to any more, and main leaves after it.
LogOutlivesDrain ==
  /\ Finished("action") /\ ~cut => phase \in Flushing /\ bus = 0
  /\ phase \in {"returned", "exited"} /\ ~cut => Finished("action")

\* A read-back is within its window, the drain's deadline is a full timeout
\* after the start of every task it waits for, and so the read-backs it gave up
\* are those whose window is not shorter than its timeout.
InWindow(task, t) ==
  task.since <= t /\ (task.kind # "dump" => t <= task.since + Window(task))
LongWindow(task) == task.kind # "dump" => Window(task) >= DrainTimeout

ReadbacksInTime ==
  /\ \A task \in tasks : InWindow(task, clock)
  /\ phase = "drain" =>
       /\ deadline \in Nat
       /\ \A task \in tasks : task.since + DrainTimeout <= deadline
  /\ \A task \in aborted : LongWindow(task)

ShutdownInv ==
  /\ ShutdownTypeOK
  /\ DrainInOrder
  /\ ClaimAccounted
  /\ FilesFollowStages
  /\ LogOutlivesDrain
  /\ ReadbacksInTime

\* A stop never cuts off a read-back whose window is shorter than the drain:
\* the sever's verdict, with 3 s against 7 s, is always reached
\* (mav/controller.rs:60-65, bin/flyingsquirrel.rs:749-756).
SeverOutlivesStop ==
  SeverWindow < DrainTimeout => \A task \in aborted : task.kind # "sever"

(***************************************************************************)
(* Shutdown: what a step may touch.                                        *)
(***************************************************************************)
\* Only these steps touch a dump, a task or a file.
LEMMA DumpFrame ==
  ASSUME [Next]_vars
  PROVE  \/ Latch
         \/ Respond
         \/ \E task \in tasks : DumpStep(task)
         \/ \E task \in tasks : TaskEnds(task)
         \/ \E op \in pool : PoolStep(op)
         \/ Drained
         \/ /\ UNCHANGED <<dump_fired, files, written, tasks, aborted>>
            /\ pool' \subseteq pool \cup {LogWrite}
<1> USE DEF dump, detector
<1> DEFINE Idle == /\ UNCHANGED <<dump_fired, files, written, tasks, aborted>>
                   /\ pool' \subseteq pool \cup {LogWrite}
<1>1. CASE Tick \/ LogEvent \/ ActionEnds \/ StopRequested
  BY <1>1 DEF Tick, LogEvent, ActionEnds, StopRequested, Stop
<1>2. CASE FusionTask
  BY <1>2 DEF FusionTask, OperatorReset, FusionEnds
<1>3. ASSUME NEW h \in Joinable, Dies(h) \/ TaskDied(h)
      PROVE  Idle
  BY <1>3 DEF Dies, TaskDied, Stop
<1>4. CASE CheckFusion \/ AwaitFusion \/ Exit \/ RuntimeDropped
  BY <1>4 DEF CheckFusion, AwaitFusion, Exit, RuntimeDropped
<1>5. CASE UNCHANGED vars
  BY <1>5 DEF vars
<1> QED BY <1>1, <1>2, <1>3, <1>4, <1>5 DEF Next, Main

\* A task record with another stage.
LEMMA StageStep ==
  ASSUME NEW task \in Tasks, task.stage \in DumpStages \ {"report"}
  PROVE  /\ task.kind = "dump"
         /\ LET next == [task EXCEPT !.stage = StageAfter(task.stage)]
            IN  /\ next \in Tasks
                /\ next.kind = "dump"
                /\ next.latch = task.latch
                /\ next.since = task.since
                /\ next.stage = StageAfter(task.stage)
<1>1. task \in [kind : {"dump"}, latch : Nat, since : Nat, stage : DumpStages]
  BY DEF Tasks, DumpStages
<1>2. StageAfter(task.stage) \in DumpStages
  BY DEF StageAfter, DumpStages
<1> QED BY <1>1, <1>2 DEF Tasks

\* The operations of a dump, with the stage each is taken in.
LEMMA FileOpStage ==
  ASSUME NEW task, FileOp(task)
  PROVE  task.stage \in DumpStages \ {"report"}
BY DEF FileOp, OpenTmp, WriteAll, SyncAll, Rename, SyncDir, DumpStages

LEMMA DumpStepStage ==
  ASSUME NEW task, DumpStep(task)
  PROVE  task.stage \in DumpStages \ {"report"}
BY FileOpStage DEF DumpStep

\* An operation left behind that touches a file is one of an aborted dump.
LEMMA LeftBehind ==
  ASSUME ShutdownTypeOK, DrainInOrder, NEW op \in pool, FileOp(op)
  PROVE  op \in Tasks /\ op \in aborted /\ op.kind = "dump"
<1>1. op.stage \in DumpStages
  BY FileOpStage
<1>2. op \in aborted /\ op \in Tasks
  BY <1>1 DEF DrainInOrder, ShutdownTypeOK, LogWrite, DumpStages
<1> QED BY <1>2, FileOpStage, StageStep

\* An operation keeps the types of the files.
LEMMA FileOpTypes ==
  ASSUME files \subseteq Files, NEW task \in Tasks, FileOp(task)
  PROVE  files' \subseteq Files
<1>1. task.latch \in Nat /\ task.since \in Nat
  BY DEF Tasks
<1>2. \A content \in {"part", "short", "whole"} : Tmp(task, content) \in Files
  BY <1>1 DEF Tmp, Files
<1>3. ASSUME NEW f \in Files, NEW entry \in {"durable", "warned"}
      PROVE  [f EXCEPT !.tmp = FALSE] \in Files /\ [f EXCEPT !.entry = entry] \in Files
  BY DEF Files
<1>4. TmpOf(task) \subseteq files /\ FinalOf(task) \subseteq files
  BY DEF TmpOf, FinalOf
<1>5. CASE OpenTmp(task) \/ WriteAll(task) \/ SyncAll(task)
  <2>1. \E content \in {"part", "short", "whole"} : Filled(task, content)
    BY <1>5 DEF OpenTmp, WriteAll, SyncAll
  <2> QED BY <1>2, <2>1 DEF Filled
<1>6. CASE Rename(task)
  BY <1>3, <1>4, <1>6 DEF Rename
<1>7. CASE SyncDir(task)
  BY <1>3, <1>4, <1>7 DEF SyncDir
<1> QED BY <1>5, <1>6, <1>7 DEF FileOp

(***************************************************************************)
(* Shutdown: types and phases.                                             *)
(***************************************************************************)
\* Every step keeps the types.
LEMMA TypeStep ==
  ASSUME ShutdownTypeOK, DrainInOrder, [Next]_vars
  PROVE  ShutdownTypeOK'
<1> USE DEF ShutdownTypeOK
<1>1. /\ clock' \in Nat
      /\ phase' \in Phases
      /\ handles' \in [Joinable -> {"alive", "ended"}]
      /\ latches' \in Nat
  <2> USE DEF Phases, Flushing, detector, main
  <2>1. CASE Tick \/ LogEvent \/ ActionEnds \/ StopRequested
    BY <2>1 DEF Tick, LogEvent, ActionEnds, StopRequested, Stop
  <2>2. CASE FusionTask
    BY <2>2 DEF FusionTask, Latch, Respond, OperatorReset, FusionEnds
  <2>3. ASSUME NEW task \in tasks, DumpStep(task) \/ TaskEnds(task)
        PROVE  UNCHANGED <<clock, phase, handles, latches>>
    BY <2>3 DEF DumpStep, TaskEnds
  <2>7. ASSUME NEW op \in pool, PoolStep(op)
        PROVE  UNCHANGED <<clock, phase, handles, latches>>
    BY <2>7 DEF PoolStep
  <2>4. ASSUME NEW h \in Joinable, Dies(h) \/ TaskDied(h)
        PROVE  /\ phase' \in Phases
               /\ handles' \in [Joinable -> {"alive", "ended"}]
               /\ UNCHANGED <<clock, latches>>
    BY <2>4 DEF Dies, TaskDied, Stop
  <2>5. CASE Main
    BY <2>5 DEF Main, CheckFusion, AwaitFusion, BeginDrain, Drained,
       StopProducers, Exit, RuntimeDropped
  <2>6. CASE UNCHANGED vars
    BY <2>6 DEF vars
  <2> QED BY <2>1, <2>2, <2>3, <2>4, <2>5, <2>6, <2>7 DEF Next
<1>2. tasks' \subseteq Tasks /\ aborted' \subseteq Tasks /\ files' \subseteq Files
  <2>1. CASE Latch
    <3> DEFINE new == [kind |-> "dump", latch |-> latches + 1, since |-> clock,
                       stage |-> "open"]
    <3>1. new \in Tasks
      BY DEF Tasks, DumpStages
    <3>2. tasks' \in {tasks, tasks \cup {new}} /\ UNCHANGED <<files, aborted>>
      BY <2>1 DEF Latch
    <3> HIDE DEF new
    <3> QED BY <3>1, <3>2
  <2>2. CASE Respond
    <3> DEFINE new == [kind : {"sever", "rtb"}, latch : {latches},
                       since : {clock}, stage : {"poll"}]
    <3>1. new \subseteq Tasks
      BY DEF Tasks
    <3>2. tasks' = tasks \cup new /\ UNCHANGED <<files, aborted>>
      BY <2>2 DEF Respond, dump
    <3> HIDE DEF new
    <3> QED BY <3>1, <3>2
  <2>3. ASSUME NEW task \in tasks, DumpStep(task)
        PROVE  tasks' \subseteq Tasks /\ aborted' \subseteq Tasks /\ files' \subseteq Files
    <3> DEFINE next == [task EXCEPT !.stage = StageAfter(task.stage)]
    <3>1. task.stage \in DumpStages \ {"report"} /\ task \in Tasks
      BY <2>3, DumpStepStage
    <3>2. next \in Tasks
      BY <3>1, StageStep
    <3>3. tasks' = (tasks \ {task}) \cup {next}
      BY <2>3 DEF DumpStep
    <3> HIDE DEF next
    <3>4. tasks' \subseteq Tasks /\ aborted' = aborted
      BY <2>3, <3>2, <3>3 DEF DumpStep
    <3> QED BY <2>3, <3>1, <3>4, FileOpTypes DEF DumpStep
  <2>4. ASSUME NEW task \in tasks, TaskEnds(task)
        PROVE  tasks' \subseteq Tasks /\ aborted' \subseteq Tasks /\ files' \subseteq Files
    BY <2>4 DEF TaskEnds, DumpWritten, DumpFailed, FilesAfterFailure,
       ReadbackEnds, dump
  <2>5. CASE Drained
    BY <2>5 DEF Drained, dump
  <2>7. ASSUME NEW op \in pool, PoolStep(op)
        PROVE  tasks' \subseteq Tasks /\ aborted' \subseteq Tasks /\ files' \subseteq Files
    <3>1. UNCHANGED <<tasks, aborted>> /\ (FileOp(op) \/ files' = files)
      BY <2>7 DEF PoolStep
    <3> QED BY <3>1, LeftBehind, FileOpTypes
  <2>6. CASE UNCHANGED <<dump_fired, files, written, tasks, aborted>>
    BY <2>6
  <2> QED BY <2>1, <2>2, <2>3, <2>4, <2>5, <2>6, <2>7, DumpFrame
<1> QED BY <1>1, <1>2

\* Every step keeps the order of the shutdown.
LEMMA DrainStep ==
  ASSUME ShutdownTypeOK, DrainInOrder, [Next]_vars
  PROVE  DrainInOrder'
<1> USE DEF DrainInOrder, Flushing, detector, dump, main
<1>0. handles \in [Joinable -> {"alive", "ended"}]
  BY DEF ShutdownTypeOK
<1>1. CASE Tick \/ LogEvent \/ StopRequested
  BY <1>1 DEF Tick, LogEvent, StopRequested, Stop
<1>2. CASE ActionEnds
  BY <1>0, <1>2 DEF ActionEnds
<1>3. CASE Latch \/ Respond \/ OperatorReset
  BY <1>3 DEF Latch, Respond, OperatorReset
<1>4. CASE FusionEnds
  BY <1>4 DEF FusionEnds
<1>5. ASSUME NEW task \in tasks, DumpStep(task) \/ TaskEnds(task)
      PROVE  DrainInOrder'
  BY <1>5 DEF DumpStep, TaskEnds
<1>6. ASSUME NEW h \in Joinable, Dies(h) \/ TaskDied(h)
      PROVE  DrainInOrder'
  BY <1>6 DEF Dies, TaskDied, Stop
<1>7. CASE CheckFusion
  BY <1>0, <1>7 DEF CheckFusion, BeginDrain, Finished
<1>8. CASE AwaitFusion
  BY <1>0, <1>8 DEF AwaitFusion, BeginDrain, Finished
<1>9. CASE Drained
  <2>1. /\ phase = "drain" /\ phase' = "flush"
        /\ tasks' = {} /\ aborted' = tasks /\ pool' \subseteq tasks
        /\ handles' = [handles EXCEPT !["producer"] = "ended"]
    BY <1>9 DEF Drained, StopProducers
  <2> QED BY <1>0, <2>1 DEF Joinable
<1>10. CASE Exit \/ RuntimeDropped
  BY <1>10 DEF Exit, RuntimeDropped
<1>11. ASSUME NEW op \in pool, PoolStep(op)
       PROVE  DrainInOrder'
  BY <1>11 DEF PoolStep
<1>12. CASE UNCHANGED vars
  BY <1>12 DEF vars
<1> QED
  BY <1>1, <1>2, <1>3, <1>4, <1>5, <1>6, <1>7, <1>8, <1>9, <1>10, <1>11, <1>12
  DEF Next, FusionTask, Main

(***************************************************************************)
(* Shutdown: the claim on the dump.                                        *)
(***************************************************************************)
\* A dump that has not ended is the only one, and nothing is written yet.
LEMMA OnlyDump ==
  ASSUME DrainInOrder, ClaimAccounted, NEW task \in tasks, task.kind = "dump"
  PROVE  /\ aborted = {}
         /\ pool = {}
         /\ dump_fired
         /\ written = {}
         /\ Dumps = {task}
         /\ \A other \in tasks : other.kind = "dump" => other = task
<1>1. aborted = {} /\ pool = {}
  BY DEF DrainInOrder
<1>2. task \in Dumps
  BY DEF Dumps
<1>3. dump_fired /\ written = {} /\ Dumps = {task}
  BY <1>2 DEF ClaimAccounted
<1> QED BY <1>1, <1>3 DEF Dumps

\* Every step keeps the account of the claim.
LEMMA ClaimStep ==
  ASSUME ShutdownTypeOK, DrainInOrder, ClaimAccounted, [Next]_vars
  PROVE  ClaimAccounted'
<1>1. CASE Latch
  <2> DEFINE new == [kind |-> "dump", latch |-> latches + 1, since |-> clock,
                     stage |-> "open"]
  <2>1. /\ handles["fusion"] = "alive"
        /\ dump_fired' = TRUE
        /\ UNCHANGED <<written, aborted>>
        /\ \/ dump_fired /\ tasks' = tasks
           \/ ~dump_fired /\ tasks' = tasks \cup {new}
    BY <1>1 DEF Latch, TryClaimDump
  <2>2. new.kind = "dump"
    OBVIOUS
  <2> HIDE DEF new
  <2>3. CASE dump_fired /\ tasks' = tasks
    BY <2>1, <2>3 DEF ClaimAccounted, Dumps
  <2>4. CASE ~dump_fired /\ tasks' = tasks \cup {new}
    <3>1. Dumps = {} /\ written = {}
      BY <2>4 DEF ClaimAccounted
    <3>2. Dumps' = {new}
      BY <2>1, <2>2, <2>4, <3>1 DEF Dumps
    <3> QED BY <2>1, <3>1, <3>2 DEF ClaimAccounted
  <2> QED BY <2>1, <2>3, <2>4
<1>2. CASE Respond
  <2> DEFINE new == [kind : {"sever", "rtb"}, latch : {latches},
                     since : {clock}, stage : {"poll"}]
  <2>1. tasks' = tasks \cup new /\ UNCHANGED <<dump_fired, written, aborted>>
    BY <1>2 DEF Respond, dump
  <2>2. \A task \in new : task.kind # "dump"
    OBVIOUS
  <2> HIDE DEF new
  <2>3. Dumps' = Dumps
    BY <2>1, <2>2 DEF Dumps
  <2> QED BY <2>1, <2>3 DEF ClaimAccounted
<1>3. ASSUME NEW task \in tasks, DumpStep(task)
      PROVE  ClaimAccounted'
  <2> DEFINE next == [task EXCEPT !.stage = StageAfter(task.stage)]
  <2>1. task.kind = "dump" /\ next.kind = "dump"
    BY <1>3, DumpStepStage, StageStep DEF ShutdownTypeOK
  <2>2. /\ tasks' = (tasks \ {task}) \cup {next}
        /\ UNCHANGED <<dump_fired, written, aborted>>
    BY <1>3 DEF DumpStep
  <2> HIDE DEF next
  <2>3. aborted = {} /\ dump_fired /\ written = {} /\ Dumps = {task}
    BY <2>1, OnlyDump
  <2>4. Dumps' = {next}
    BY <2>1, <2>2, <2>3 DEF Dumps
  <2> QED BY <2>2, <2>3, <2>4 DEF ClaimAccounted
<1>4. ASSUME NEW task \in tasks, TaskEnds(task)
      PROVE  ClaimAccounted'
  <2>1. tasks' = tasks \ {task} /\ aborted' = aborted
    BY <1>4 DEF TaskEnds
  <2>2. aborted = {} /\ task \in Tasks
    BY DEF DrainInOrder, ShutdownTypeOK
  <2>3. CASE task.kind = "dump"
    <3>1. dump_fired /\ written = {} /\ Dumps = {task}
      BY <2>3, OnlyDump
    <3>2. Dumps' = {}
      BY <2>1, <2>2, <3>1 DEF Dumps
    <3>3. task.stage # "poll"
      BY <2>2, <2>3 DEF Tasks, DumpStages
    <3>4. CASE DumpWritten(task)
      BY <3>1, <3>2, <3>4 DEF DumpWritten, ClaimAccounted
    <3>5. CASE DumpFailed(task)
      BY <3>1, <3>2, <3>5 DEF DumpFailed, ClaimAccounted
    <3> QED BY <1>4, <3>3, <3>4, <3>5 DEF TaskEnds, ReadbackEnds
  <2>4. CASE task.kind # "dump"
    <3>1. task.stage = "poll"
      BY <2>2, <2>4 DEF Tasks
    <3>2. UNCHANGED <<dump_fired, written>>
      BY <1>4, <3>1 DEF TaskEnds, DumpWritten, DumpFailed, Fallible, ReadbackEnds, dump
    <3>3. Dumps' = Dumps
      BY <2>1, <2>4 DEF Dumps
    <3> QED BY <3>2, <3>3 DEF ClaimAccounted
  <2> QED BY <2>3, <2>4
<1>5. CASE Drained
  <2>1. aborted = {} /\ aborted' = tasks /\ tasks' = {}
        /\ UNCHANGED <<dump_fired, written>>
    BY <1>5 DEF Drained, DrainInOrder, Flushing, dump
  <2>2. Dumps' = Dumps
    BY <2>1 DEF Dumps
  <2> QED BY <2>1, <2>2 DEF ClaimAccounted
<1>6. CASE UNCHANGED <<dump_fired, written, tasks, aborted>>
  BY <1>6 DEF ClaimAccounted, Dumps
<1>7. ASSUME NEW op \in pool, PoolStep(op)
      PROVE  ClaimAccounted'
  BY <1>6, <1>7 DEF PoolStep
<1> QED BY <1>1, <1>2, <1>3, <1>4, <1>5, <1>6, <1>7, DumpFrame

(***************************************************************************)
(* Shutdown: the files.                                                    *)
(***************************************************************************)
\* Every step keeps the files in line with the stages of the dumps.
LEMMA FilesStep ==
  ASSUME ShutdownTypeOK, DrainInOrder, ClaimAccounted, FilesFollowStages,
         [Next]_vars
  PROVE  FilesFollowStages'
<1> USE DEF Settled
<1>1. CASE Latch
  <2> DEFINE new == [kind |-> "dump", latch |-> latches + 1, since |-> clock,
                     stage |-> "open"]
  <2>1. /\ tasks' \subseteq tasks \cup {new}
        /\ UNCHANGED <<files, written, pool>>
    BY <1>1 DEF Latch
  <2>2. new.stage = "open"
    OBVIOUS
  <2> HIDE DEF new
  <2> QED BY <2>1, <2>2 DEF FilesFollowStages, TmpOf, FinalOf, Tmp
<1>2. CASE Respond
  <2> DEFINE new == [kind : {"sever", "rtb"}, latch : {latches},
                     since : {clock}, stage : {"poll"}]
  <2>1. tasks' = tasks \cup new /\ UNCHANGED <<files, written, pool>>
    BY <1>2 DEF Respond, dump
  <2>2. \A task \in new : task.kind # "dump"
    OBVIOUS
  <2> HIDE DEF new
  <2> QED BY <2>1, <2>2 DEF FilesFollowStages, TmpOf, FinalOf, Tmp
<1>3. ASSUME NEW task \in tasks, DumpStep(task)
      PROVE  FilesFollowStages'
  <2> DEFINE next == [task EXCEPT !.stage = StageAfter(task.stage)]
  <2>1. /\ task.kind = "dump"
        /\ next.latch = task.latch
        /\ next.since = task.since
        /\ next.stage = StageAfter(task.stage)
    BY <1>3, DumpStepStage, StageStep DEF ShutdownTypeOK
  <2>2. /\ tasks' = (tasks \ {task}) \cup {next}
        /\ written' = written
        /\ pool' = pool
        /\ FileOp(task)
    BY <1>3 DEF DumpStep
  <2> HIDE DEF next
  <2>3. /\ written = {} /\ pool = {}
        /\ \A other \in tasks : other.kind = "dump" => other = task
    BY <2>1, OnlyDump
  <2>4. /\ \A other \in tasks' \cup pool' : other.kind = "dump" => other = next
        /\ written' = {}
    BY <2>2, <2>3
  <2>5. /\ \A c : Tmp(next, c) = Tmp(task, c)
        /\ TmpOf(next)' = {f \in files' : f.tmp /\ f.name = task.since}
        /\ FinalOf(next)' = {f \in files' : ~f.tmp /\ f.name = task.since}
    BY <2>1 DEF Tmp, TmpOf, FinalOf
  <2>6. CASE OpenTmp(task) \/ WriteAll(task)
    <3>1. next.stage \notin {"rename", "dirsync", "report"}
      BY <2>1, <2>6 DEF OpenTmp, WriteAll, StageAfter
    <3>2. \A f \in files' : ~f.tmp => f \in files
      BY <2>6 DEF OpenTmp, WriteAll, Filled, Tmp
    <3> QED BY <2>4, <3>1, <3>2 DEF FilesFollowStages
  <2>7. CASE SyncAll(task)
    <3>1. next.stage = "rename"
      BY <2>1, <2>7 DEF SyncAll, StageAfter
    <3>2. PICK content \in {"short", "whole"} : Filled(task, content)
      BY <2>7 DEF SyncAll
    <3>3. /\ Tmp(task, content).tmp
          /\ Tmp(task, content).name = task.since
          /\ files' = (files \ TmpOf(task)) \cup {Tmp(task, content)}
      BY <3>2 DEF Filled, Tmp
    <3>4. TmpOf(next)' = {Tmp(task, content)}
      BY <2>5, <3>3 DEF TmpOf
    <3>5. \A f \in files' : ~f.tmp => f \in files
      BY <3>3
    <3>6. TmpOf(next)' = {Tmp(next, content)}
      BY <2>5, <3>4
    <3> QED BY <2>4, <3>1, <3>5, <3>6 DEF FilesFollowStages, Tmp
  <2>8. CASE Rename(task)
    <3>1. next.stage = "dirsync"
      BY <2>1, <2>8 DEF Rename, StageAfter
    <3>2. PICK content \in {"short", "whole"} : TmpOf(task) = {Tmp(task, content)}
      BY <2>1, <2>8 DEF Rename, FilesFollowStages
    <3> DEFINE final == [Tmp(task, content) EXCEPT !.tmp = FALSE]
    <3>3. /\ ~final.tmp /\ final.content = content /\ final.latch = next.latch
          /\ final.name = task.since
      BY <2>1 DEF Tmp
    <3>4. final \in files' /\ files' \subseteq files \cup {final}
      BY <2>8, <3>2 DEF Rename
    <3> HIDE DEF final
    <3>5. final \in FinalOf(next)'
      BY <2>5, <3>3, <3>4
    <3> QED BY <2>4, <3>1, <3>3, <3>4, <3>5 DEF FilesFollowStages
  <2>9. CASE SyncDir(task)
    <3>1. next.stage = "report"
      BY <2>1, <2>9 DEF SyncDir, StageAfter
    <3>2. PICK entry \in {"durable", "warned"} :
            files' = (files \ FinalOf(task))
                       \cup {[f EXCEPT !.entry = entry] : f \in FinalOf(task)}
      BY <2>9 DEF SyncDir
    <3> DEFINE Synced(f) == [f EXCEPT !.entry = entry]
    <3>3. files' = (files \ FinalOf(task)) \cup {Synced(f) : f \in FinalOf(task)}
      BY <3>2
    <3>4. ASSUME NEW f \in FinalOf(task)
          PROVE  /\ f \in files /\ ~f.tmp
                 /\ ~Synced(f).tmp /\ Synced(f).content = f.content
                 /\ Synced(f).latch = f.latch /\ Synced(f).entry # "volatile"
      BY DEF FinalOf, ShutdownTypeOK, Files
    <3> HIDE DEF Synced
    <3>5. \A f \in files' : ~f.tmp => f.content # "part"
      BY <3>3, <3>4 DEF FilesFollowStages
    <3>6. PICK f \in FinalOf(task) : f.latch = task.latch
      BY <2>1, <2>9 DEF SyncDir, FilesFollowStages
    <3>7. \E g \in files' : Settled(g) /\ g.latch = next.latch
      BY <2>1, <3>3, <3>4, <3>6
    <3> QED BY <2>4, <3>1, <3>5, <3>7 DEF FilesFollowStages
  <2> QED BY <2>2, <2>6, <2>7, <2>8, <2>9 DEF FileOp
<1>4. ASSUME NEW task \in tasks, TaskEnds(task)
      PROVE  FilesFollowStages'
  <2>1. tasks' = tasks \ {task} /\ task \in Tasks /\ pool' = pool
    BY <1>4 DEF TaskEnds, ShutdownTypeOK
  <2>2. CASE DumpWritten(task)
    <3>1. task.stage = "report" /\ task.kind = "dump"
      BY <2>1, <2>2 DEF DumpWritten, Tasks
    <3>2. files' = files /\ written' = written \cup {task.latch}
      BY <2>2 DEF DumpWritten
    <3> QED BY <2>1, <3>1, <3>2 DEF FilesFollowStages, TmpOf, FinalOf, Tmp
  <2>3. CASE DumpFailed(task)
    <3>1. task.kind = "dump"
      BY <2>1, <2>3 DEF DumpFailed, Fallible, Tasks
    <3>2. \A other \in tasks' \cup pool' : other.kind # "dump"
      BY <2>1, <3>1, OnlyDump
    <3>3. /\ written = {} /\ written' = written
          /\ files' \subseteq files
      BY <2>3, <3>1, OnlyDump DEF DumpFailed, FilesAfterFailure
    <3> QED BY <3>2, <3>3 DEF FilesFollowStages
  <2>4. CASE ReadbackEnds(task)
    BY <2>1, <2>4 DEF ReadbackEnds, dump, FilesFollowStages, TmpOf, FinalOf, Tmp
  <2> QED BY <1>4, <2>2, <2>3, <2>4 DEF TaskEnds
\* What an aborted dump leaves behind is the only operation on a dump there is,
\* and no dump was reported.
<1>5. ASSUME NEW op \in pool, PoolStep(op)
      PROVE  FilesFollowStages'
  <2>1. /\ pool' = pool \ {op} /\ tasks' = tasks /\ written' = written
        /\ FileOp(op) \/ files' = files
    BY <1>5 DEF PoolStep
  <2>2. CASE files' = files
    BY <2>1, <2>2 DEF FilesFollowStages, TmpOf, FinalOf, Tmp
  <2>3. CASE FileOp(op)
    <3>1. op \in Tasks /\ op \in Dumps /\ tasks = {}
      BY <2>3, LeftBehind DEF Dumps, DrainInOrder
    <3>2. written = {} /\ Dumps = {op}
      BY <3>1 DEF ClaimAccounted
    <3>3. \A other \in pool : other.kind = "dump" => other = op
      BY <3>2 DEF DrainInOrder, LogWrite, Dumps
    <3>4. \A other \in tasks' \cup pool' : other.kind # "dump"
      BY <2>1, <3>1, <3>3
    <3>5. \A f \in files' : ~f.tmp => f.content # "part"
      <4>1. CASE OpenTmp(op) \/ WriteAll(op) \/ SyncAll(op)
        BY <4>1 DEF OpenTmp, WriteAll, SyncAll, Filled, Tmp, FilesFollowStages
      <4>2. CASE Rename(op)
        <5>1. PICK content \in {"short", "whole"} : TmpOf(op) = {Tmp(op, content)}
          BY <2>3, <4>2, LeftBehind DEF Rename, FilesFollowStages
        <5>2. [Tmp(op, content) EXCEPT !.tmp = FALSE].content = content
          BY DEF Tmp
        <5> QED BY <4>2, <5>1, <5>2 DEF Rename, FilesFollowStages
      <4>3. CASE SyncDir(op)
        <5>1. PICK entry \in {"durable", "warned"} :
                files' = (files \ FinalOf(op))
                           \cup {[f EXCEPT !.entry = entry] : f \in FinalOf(op)}
          BY <4>3 DEF SyncDir
        <5> DEFINE Synced(f) == [f EXCEPT !.entry = entry]
        <5>2. files' = (files \ FinalOf(op)) \cup {Synced(f) : f \in FinalOf(op)}
          BY <5>1
        <5>3. ASSUME NEW f \in FinalOf(op)
              PROVE  f \in files /\ ~f.tmp /\ Synced(f).content = f.content
          BY DEF FinalOf, ShutdownTypeOK, Files
        <5> HIDE DEF Synced
        <5> QED BY <5>2, <5>3 DEF FilesFollowStages
      <4> QED BY <2>3, <4>1, <4>2, <4>3 DEF FileOp
    <3> QED BY <2>1, <3>2, <3>4, <3>5 DEF FilesFollowStages
  <2> QED BY <2>1, <2>2, <2>3
<1>6. CASE Drained
  <2>1. tasks' = {} /\ pool' \subseteq tasks /\ UNCHANGED <<files, written>>
    BY <1>6 DEF Drained, dump
  <2> QED BY <2>1 DEF FilesFollowStages, TmpOf, FinalOf, Tmp
<1>7. CASE /\ UNCHANGED <<dump_fired, files, written, tasks, aborted>>
           /\ pool' \subseteq pool \cup {LogWrite}
  BY <1>7 DEF FilesFollowStages, TmpOf, FinalOf, Tmp, LogWrite
<1> QED BY <1>1, <1>2, <1>3, <1>4, <1>5, <1>6, <1>7, DumpFrame

(***************************************************************************)
(* Shutdown: the log.                                                      *)
(***************************************************************************)
\* Every step keeps the order in which the action task and main end.  Whoever
\* can send is gone when the channel closes: DrainInOrder is what rules an
\* event out then.
LEMMA LogStep ==
  ASSUME ShutdownTypeOK, DrainInOrder, LogOutlivesDrain, [Next]_vars
  PROVE  LogOutlivesDrain'
<1> USE DEF LogOutlivesDrain, Flushing, Finished, detector, dump, main
<1>0. handles \in [Joinable -> {"alive", "ended"}]
  BY DEF ShutdownTypeOK
<1>1. CASE Tick \/ LogEvent
  BY <1>1 DEF Tick, LogEvent
<1>2. CASE ActionEnds
  BY <1>2 DEF ActionEnds
<1>3. CASE Latch \/ Respond \/ OperatorReset
  <2>1. handles["fusion"] = "alive" /\ UNCHANGED <<phase, handles, cut>>
    BY <1>3 DEF Latch, Respond, OperatorReset
  <2> QED BY <2>1 DEF DrainInOrder
<1>4. CASE FusionEnds
  <2>1. phase \in {"fusion", "await"} /\ UNCHANGED <<phase, bus, cut>>
        /\ handles' = [handles EXCEPT !["fusion"] = "ended"]
    BY <1>4 DEF FusionEnds
  <2> QED BY <1>0, <2>1 DEF Joinable
<1>5. ASSUME NEW task \in tasks, DumpStep(task) \/ TaskEnds(task)
      PROVE  LogOutlivesDrain'
  <2>1. UNCHANGED <<phase, handles, cut>>
    BY <1>5 DEF DumpStep, TaskEnds
  <2>2. phase \notin Flushing
    BY DEF DrainInOrder
  <2> QED BY <2>1, <2>2
<1>6. ASSUME NEW h \in Joinable, Dies(h)
      PROVE  LogOutlivesDrain'
  <2>1. /\ phase = "select" /\ phase' = phase
        /\ handles' = [handles EXCEPT ![h] = "ended"]
        /\ cut' = (cut \/ h = "action")
    BY <1>6 DEF Dies
  <2>2. h = "action" \/ handles'["action"] = handles["action"]
    BY <1>0, <2>1 DEF Joinable
  <2> QED BY <2>1, <2>2
<1>7. ASSUME NEW h \in Joinable, TaskDied(h)
      PROVE  LogOutlivesDrain'
  <2>1. /\ phase = "select" /\ phase' = "fusion"
        /\ UNCHANGED <<handles, bus, cut>>
    BY <1>7 DEF TaskDied, Stop
  <2> QED BY <2>1
<1>8. CASE StopRequested \/ CheckFusion
  <2>1. phase \in {"select", "fusion"} /\ phase' \notin Flushing
        /\ UNCHANGED <<handles, cut>>
    BY <1>8 DEF StopRequested, Stop, CheckFusion, BeginDrain
  <2> QED BY <2>1
<1>9. CASE AwaitFusion
  <2>1. phase = "await" /\ phase' = "drain" /\ UNCHANGED <<handles, bus, cut>>
    BY <1>9 DEF AwaitFusion, BeginDrain
  <2> QED BY <2>1
<1>10. CASE Drained
  <2>1. phase = "drain" /\ phase' = "flush" /\ UNCHANGED <<bus, cut>>
        /\ handles' = [handles EXCEPT !["producer"] = "ended"]
    BY <1>10 DEF Drained, StopProducers
  <2> QED BY <1>0, <2>1 DEF Joinable
<1>11. CASE Exit
  <2>1. phase = "flush" /\ phase' \in Flushing /\ UNCHANGED <<handles, bus>>
        /\ cut' = (cut \/ ~Finished("action"))
    BY <1>11 DEF Exit
  <2> QED BY <2>1
<1>12. CASE RuntimeDropped
  BY <1>12 DEF RuntimeDropped
<1>13. ASSUME NEW op \in pool, PoolStep(op)
       PROVE  LogOutlivesDrain'
  BY <1>13 DEF PoolStep
<1>14. CASE UNCHANGED vars
  BY <1>14 DEF vars
<1> QED
  BY <1>1, <1>2, <1>3, <1>4, <1>5, <1>6, <1>7, <1>8, <1>9, <1>10, <1>11, <1>12,
     <1>13, <1>14
  DEF Next, FusionTask, Main

(***************************************************************************)
(* Shutdown: the windows.                                                  *)
(***************************************************************************)
\* The windows and the starts of the tasks are numbers.
LEMMA WindowTypes ==
  ASSUME NEW task \in Tasks
  PROVE  task.since \in Nat /\ Window(task) \in Nat
BY ShutdownAssumption DEF Tasks, Window

\* Every step keeps the read-backs within their windows.
LEMMA WindowStep ==
  ASSUME ShutdownTypeOK, DrainInOrder, ReadbacksInTime, [Next]_vars
  PROVE  ReadbacksInTime'
<1> USE DEF main
<1>0. /\ clock \in Nat /\ tasks \subseteq Tasks /\ DrainTimeout \in Nat
      /\ \A task \in tasks : task.since \in Nat /\ Window(task) \in Nat
  BY WindowTypes, ShutdownAssumption DEF ShutdownTypeOK
<1>1. CASE Tick
  <2>1. /\ clock' = clock + 1 /\ UNCHANGED <<phase, deadline, tasks, aborted>>
        /\ \A task \in tasks : task.kind # "dump" => clock < task.since + Window(task)
    BY <1>1 DEF Tick
  <2>2. \A task \in tasks : InWindow(task, clock')
    <3> TAKE task \in tasks
    <3>1. task.since \in Nat /\ Window(task) \in Nat /\ task.since <= clock
      BY <1>0 DEF ReadbacksInTime, InWindow
    <3> DEFINE e == task.since + Window(task)
    <3>2. e \in Nat /\ (task.kind # "dump" => clock < e)
      BY <2>1, <3>1
    <3> HIDE DEF e
    <3>3. task.since <= clock + 1 /\ (task.kind # "dump" => clock + 1 <= e)
      BY <1>0, <3>1, <3>2
    <3> QED BY <2>1, <3>3 DEF InWindow, e
  <2> QED BY <2>1, <2>2 DEF ReadbacksInTime
\* Only Fusion starts tasks, at the present time, and not during the drain.
<1>2. CASE Latch \/ Respond
  <2>1. /\ UNCHANGED <<clock, phase, deadline, aborted>>
        /\ phase # "drain"
        /\ \A task \in tasks' \ tasks : task.since = clock /\ task \in Tasks
    <3> DEFINE dumps == [kind |-> "dump", latch |-> latches + 1, since |-> clock,
                         stage |-> "open"]
               polls == [kind : {"sever", "rtb"}, latch : {latches},
                         since : {clock}, stage : {"poll"}]
    <3>1. dumps \in Tasks /\ dumps.since = clock
          /\ \A task \in polls : task \in Tasks /\ task.since = clock
      BY <1>0 DEF Tasks, DumpStages, ShutdownTypeOK
    <3>2. /\ UNCHANGED <<clock, phase, deadline, aborted>>
          /\ handles["fusion"] = "alive"
          /\ tasks' \in {tasks, tasks \cup {dumps}, tasks \cup polls}
      BY <1>2 DEF Latch, Respond
    <3> HIDE DEF dumps, polls
    <3> QED BY <3>1, <3>2 DEF DrainInOrder
  <2>2. \A task \in tasks' \ tasks : InWindow(task, clock)
    BY <1>0, <2>1, WindowTypes DEF InWindow
  <2> QED BY <2>1, <2>2 DEF ReadbacksInTime
<1>3. ASSUME NEW task \in tasks, DumpStep(task)
      PROVE  ReadbacksInTime'
  <2> DEFINE next == [task EXCEPT !.stage = StageAfter(task.stage)]
  <2>1. next.kind = "dump" /\ next.since = task.since
    BY <1>0, <1>3, DumpStepStage, StageStep
  <2>2. tasks' = (tasks \ {task}) \cup {next}
        /\ UNCHANGED <<clock, phase, deadline, aborted>>
    BY <1>3 DEF DumpStep
  <2> HIDE DEF next
  <2>3. InWindow(next, clock)
    BY <2>1 DEF ReadbacksInTime, InWindow
  <2> QED BY <2>1, <2>2, <2>3 DEF ReadbacksInTime
<1>4. ASSUME NEW task \in tasks, TaskEnds(task)
      PROVE  ReadbacksInTime'
  <2>1. tasks' \subseteq tasks /\ UNCHANGED <<clock, phase, deadline, aborted>>
    BY <1>4 DEF TaskEnds
  <2> QED BY <2>1 DEF ReadbacksInTime
<1>5. ASSUME BeginDrain, UNCHANGED <<clock, tasks, aborted>>
      PROVE  ReadbacksInTime'
  <2>1. phase' = "drain" /\ deadline' = clock + DrainTimeout
    BY <1>5 DEF BeginDrain
  <2>2. \A task \in tasks : task.since + DrainTimeout <= deadline'
    BY <1>0, <2>1 DEF ReadbacksInTime, InWindow
  <2>3. deadline' \in Nat
    BY <1>0, <2>1
  <2> QED BY <1>5, <2>1, <2>2, <2>3 DEF ReadbacksInTime
<1>6. CASE CheckFusion \/ AwaitFusion
  <2>1. /\ UNCHANGED <<clock, tasks, aborted>>
        /\ BeginDrain \/ phase' = "await"
    BY <1>6 DEF CheckFusion, AwaitFusion
  <2> QED BY <1>5, <2>1 DEF ReadbacksInTime
<1>7. CASE Drained
  <2>1. /\ phase = "drain" /\ tasks' = {} /\ aborted' = tasks
        /\ phase' # "drain"
        /\ tasks = {} \/ clock >= deadline
    BY <1>7 DEF Drained, StopProducers
  <2>2. ASSUME NEW task \in tasks
        PROVE  LongWindow(task)
    <3> DEFINE a == task.since
               w == Window(task)
    <3>1. /\ a \in Nat /\ w \in Nat /\ deadline \in Nat /\ clock >= deadline
          /\ a + DrainTimeout <= deadline
          /\ task.kind # "dump" => clock <= a + w
      BY <1>0, <2>1 DEF ReadbacksInTime, InWindow
    <3> HIDE DEF a, w
    <3>2. task.kind # "dump" => w >= DrainTimeout
      BY <1>0, <3>1
    <3> QED BY <3>2 DEF LongWindow, w
  <2> QED BY <2>1, <2>2 DEF ReadbacksInTime
<1>8. CASE \/ LogEvent \/ ActionEnds \/ StopRequested \/ OperatorReset \/ FusionEnds
           \/ Exit \/ RuntimeDropped \/ (\E op \in pool : PoolStep(op))
           \/ (\E h \in Joinable : Dies(h) \/ TaskDied(h)) \/ UNCHANGED vars
  <2>1. /\ UNCHANGED <<clock, deadline, tasks, aborted>>
        /\ phase' = phase \/ phase' # "drain"
    BY <1>8 DEF LogEvent, ActionEnds, StopRequested, OperatorReset, FusionEnds, Exit,
       RuntimeDropped, PoolStep, Dies, TaskDied, Stop, vars
  <2> QED BY <2>1 DEF ReadbacksInTime
<1> QED
  BY <1>1, <1>2, <1>3, <1>4, <1>6, <1>7, <1>8 DEF Next, FusionTask, Main

(***************************************************************************)
(* Shutdown: the theorems.                                                 *)
(***************************************************************************)
\* The inductive invariant holds in every reachable state.
THEOREM ShutdownInvariant == Spec => []ShutdownInv
<1>1. Init => ShutdownInv
  <2> SUFFICES ASSUME Init
               PROVE  ShutdownInv
    OBVIOUS
  <2> USE DEF Init
  <2>1. ShutdownTypeOK
    BY DEF ShutdownTypeOK, Phases, Joinable
  <2>2. DrainInOrder
    BY DEF DrainInOrder, Flushing
  <2>3. ClaimAccounted
    BY DEF ClaimAccounted, Dumps
  <2>4. FilesFollowStages
    BY DEF FilesFollowStages
  <2>5. LogOutlivesDrain
    BY DEF LogOutlivesDrain, Finished, Joinable
  <2>6. ReadbacksInTime
    BY DEF ReadbacksInTime
  <2> QED BY <2>1, <2>2, <2>3, <2>4, <2>5, <2>6 DEF ShutdownInv
<1>2. ShutdownInv /\ [Next]_vars => ShutdownInv'
  BY TypeStep, DrainStep, ClaimStep, FilesStep, LogStep, WindowStep DEF ShutdownInv
<1> QED BY <1>1, <1>2, PTL DEF Spec

\* However often the detector latches again after a reset, and whichever writes
\* fail, the claim is held by exactly one dump (fusion.rs, try_claim_dump).
THEOREM OneDump == Spec => []OneDumpPerProcess
<1>1. ShutdownInv => OneDumpPerProcess
  <2> SUFFICES ASSUME ClaimAccounted
               PROVE  Cardinality(Dumps) + Cardinality(written)
                        = IF dump_fired THEN 1 ELSE 0
    BY DEF ShutdownInv, OneDumpPerProcess, Dumps
  <2>1. Cardinality({}) = 0 /\ \A x : Cardinality({x}) = 1
    BY FS_EmptySet, FS_Singleton
  <2>2. CASE ~dump_fired
    BY <2>1, <2>2 DEF ClaimAccounted
  <2>3. CASE dump_fired
    <3>1. CASE written = {} /\ \E task \in Dumps : Dumps = {task}
      BY <2>1, <2>3, <3>1
    <3>2. CASE Dumps = {} /\ \E l \in written : written = {l}
      <4>1. PICK l : written = {l}
        BY <3>2
      <4>2. Cardinality(Dumps) = 0 /\ Cardinality(written) = 1
        BY <2>1, <3>2, <4>1
      <4> QED BY <2>3, <4>2
    <3> QED BY <2>3, <3>1, <3>2 DEF ClaimAccounted
  <2> QED BY <2>2, <2>3
<1> QED BY <1>1, ShutdownInvariant, PTL

\* Whichever file operations fail, are left behind or come too late, a file with
\* the name of a dump was synced before it got the name, and a dump reported as
\* written is there, in a directory that was synced or whose failed sync is in
\* the log (forensic.rs, dump_to_disk).
THEOREM DumpsAreIntact == Spec => []DumpsIntact
<1>1. ShutdownInv => DumpsIntact
  BY DEF ShutdownInv, FilesFollowStages, Settled, DumpsIntact
<1> QED BY <1>1, ShutdownInvariant, PTL

\* Unless it died or ran out of time, the action task has logged every event
\* when main is done (bin/flyingsquirrel.rs, the order of the shutdown).
THEOREM EventTrail == Spec => []EventTrailComplete
<1>1. ShutdownInv => EventTrailComplete
  BY DEF ShutdownInv, LogOutlivesDrain, EventTrailComplete
<1> QED BY <1>1, ShutdownInvariant, PTL

\* However a stop races with a latch, the drain gives up no sever read-back, for
\* every window shorter than its timeout (mav/controller.rs:60-65).
THEOREM SeverIsJoined == Spec => []SeverOutlivesStop
<1>1. ShutdownInv => SeverOutlivesStop
  <2> SUFFICES ASSUME ReadbacksInTime, SeverWindow < DrainTimeout, NEW task \in aborted,
                      task.kind = "sever"
               PROVE  FALSE
    BY DEF ShutdownInv, SeverOutlivesStop
  <2>1. SeverWindow >= DrainTimeout
    BY DEF ReadbacksInTime, LongWindow, Window
  <2> QED BY <2>1, ShutdownAssumption
<1> QED BY <1>1, ShutdownInvariant, PTL

(***************************************************************************)
(* OperatorView: the inductive invariant.                                  *)
(***************************************************************************)
Pieces == Events \cup {LineEnd, Torn}

Snapshots == [link : {"Up", "Down", Nothing}, mode : Modes \cup {Nothing},
              spoofed : Nat, parse_errors : Nat]

ViewTypeOK ==
  /\ now \in Nat
  /\ last_heartbeat \in Nat
  /\ mode \in Modes
  /\ mode_changed_at \in Nat
  /\ recording \in [at : Nat, changed : BOOLEAN] \cup {Nothing}
  /\ watchdog \in [pc : {"idle", "change", "first", "mode"}, seen : BOOLEAN,
                   up : BOOLEAN, mode_change : Nat]
  /\ events \in Seq(Events)
  /\ logging \in Events \cup {Nothing}
  /\ file \in Seq(Pieces)
  /\ snap \in Snapshots
  /\ alarms \in Nat
  /\ lagged \in BOOLEAN
  /\ unwritten \in Nat
  /\ unended \in Nat

\* The alarms in a sequence of events or of pieces.
AlarmsIn(s) == {i \in 1 .. Len(s) : IsAlarm(s[i])}

\* While no loss shows, an alarm is counted, or in the log, or in the channel.
AlarmCount ==
  \/ lagged
  \/ unwritten > 0
  \/ snap.parse_errors > 0
  \/ alarms = snap.spoofed + Cardinality(AlarmsIn(file))
                           + Cardinality(AlarmsIn(events))

\* Of the pieces in S, the last one in a sequence is in G.
EndsWith(s, S, G) ==
  \E i \in 1 .. Len(s) : /\ s[i] \in G
                         /\ \A j \in i + 1 .. Len(s) : s[j] \notin S

Without(s, S) == \A i \in 1 .. Len(s) : s[i] \notin S

\* The last of the pieces in S on its way to the display is in G, or there is
\* none and the display shows what it should.
Said(S, G, channelled, logged, shown) ==
  \/ EndsWith(channelled, S, G)
  \/ /\ Without(channelled, S)
     /\ \/ EndsWith(logged, S, G)
        \/ Without(logged, S) /\ shown

LinkEvents == {e \in Events : e.kind \in {"LinkRestored", "LinkDown"}}
ModeEvents == {e \in Events : e.kind = "PilotModeChange"}

\* The events that make the display show the link as up or down, or a mode.
LinkSays(up) ==
  {e \in LinkEvents : e.kind = IF up THEN "LinkRestored" ELSE "LinkDown"}
ModeSays(m) == {e \in ModeEvents : e.mode = m}

LinkSaid(up) ==
  Said(LinkEvents, LinkSays(up), events, file,
       snap.link = IF up THEN "Up" ELSE "Down")
ModeSaid(m) ==
  Said(ModeEvents, ModeSays(m), events, file,
       snap.mode = m \/ (snap.mode = Nothing /\ first_mode = m))
NoModeSaid == Said(ModeEvents, {}, events, file, snap.mode = Nothing)

\* No two events share a line, and none is left on one that is not being
\* written.
WholeLines(logged, writing) ==
  /\ \A i \in 1 .. Len(logged) : logged[i] # Torn
  /\ \A i \in 1 .. Len(logged) - 1 :
       logged[i] = LineEnd \/ logged[i + 1] = LineEnd
  /\ ~writing /\ logged # <<>> => logged[Len(logged)] = LineEnd

LogShape == Undisturbed => WholeLines(file, logging # Nothing)

\* A change of mode is stamped later than every stamp the watchdog has seen.
StampsGrow ==
  /\ mode_changed_at <= last_heartbeat
  /\ recording # Nothing =>
       recording.at = last_heartbeat /\ mode_changed_at < recording.at
  /\ watchdog.mode_change <= mode_changed_at

\* Until the first report the watchdog is idle or has seen the link up.
FirstReport ==
  /\ watchdog.pc = "first" => ~watchdog.seen
  /\ ~watchdog.seen => /\ watchdog.pc # "mode"
                       /\ watchdog.pc # "idle" => watchdog.up
  /\ ~watchdog.seen /\ Undisturbed => NoModeSaid

\* The link the watchdog knows of is the one the operator is told of.
LinkTold == watchdog.seen /\ Undisturbed => LinkSaid(watchdog.up)

\* So is the mode, unless a change of it is about to be stamped, or to be seen
\* by the next poll, or to be sent by this one.
ModeStands ==
  /\ watchdog.pc # "mode"
  /\ mode_changed_at <= watchdog.mode_change
  /\ recording = Nothing \/ ~recording.changed
ModeTold == watchdog.seen /\ Undisturbed /\ ModeStands => ModeSaid(mode)

ViewInv ==
  /\ ViewTypeOK
  /\ AlarmCount
  /\ LogShape
  /\ StampsGrow
  /\ FirstReport
  /\ LinkTold
  /\ ModeTold

\* What the properties LinkShown and ModeShown say of the end holds whenever
\* nothing is on its way: once the log is read and the channel empty, the
\* display shows the link as the watchdog last found it (mav/mod.rs:404-421)
LinkSettled ==
  watchdog.seen /\ Undisturbed /\ events = <<>> /\ file = <<>> =>
    snap.link = IF watchdog.up THEN "Up" ELSE "Down"

\* and the autopilot's mode, none if it has not changed since the link came up,
\* unless a change is still to be stamped or polled (mav/mod.rs:428-432).
ModeSettled ==
  watchdog.seen /\ Undisturbed /\ events = <<>> /\ file = <<>> /\ ModeStands =>
    \/ snap.mode = mode
    \/ snap.mode = Nothing /\ first_mode = mode

(***************************************************************************)
(* OperatorView: sequences.                                                *)
(***************************************************************************)
\* The positions are finitely many.
LEMMA AlarmsFinite ==
  ASSUME NEW s, Len(s) \in Nat
  PROVE  IsFiniteSet(AlarmsIn(s)) /\ Cardinality(AlarmsIn(s)) \in Nat
<1>1. IsFiniteSet(1 .. Len(s))
  BY FS_Interval
<1>2. AlarmsIn(s) \in SUBSET (1 .. Len(s))
  BY DEF AlarmsIn
<1> QED BY <1>1, <1>2, FS_Subset, FS_CardinalityType

\* What is appended counts if it is an alarm.
LEMMA AlarmsAppend ==
  ASSUME NEW S, NEW s \in Seq(S), NEW x \in S
  PROVE  Cardinality(AlarmsIn(Append(s, x))) =
           Cardinality(AlarmsIn(s)) + (IF IsAlarm(x) THEN 1 ELSE 0)
<1> DEFINE n == Len(s) + 1
<1>1. Len(s) \in Nat
  OBVIOUS
<1>2. AlarmsIn(Append(s, x)) =
        IF IsAlarm(x) THEN AlarmsIn(s) \cup {n} ELSE AlarmsIn(s)
  BY DEF AlarmsIn
<1>3. n \notin AlarmsIn(s)
  BY <1>1 DEF AlarmsIn
<1> HIDE DEF n
<1>4. /\ IsFiniteSet(AlarmsIn(s)) /\ Cardinality(AlarmsIn(s)) \in Nat
      /\ Cardinality(AlarmsIn(s) \cup {n}) = Cardinality(AlarmsIn(s)) + 1
  BY <1>1, <1>3, AlarmsFinite, FS_AddElement
<1>5. CASE IsAlarm(x)
  BY <1>2, <1>4, <1>5
<1>6. CASE ~IsAlarm(x)
  BY <1>2, <1>4, <1>6
<1> QED BY <1>5, <1>6

\* What is taken off counted if it was an alarm: the others move up by one.
LEMMA AlarmsTail ==
  ASSUME NEW S, NEW s \in Seq(S), s # <<>>
  PROVE  Cardinality(AlarmsIn(s)) =
           Cardinality(AlarmsIn(Tail(s))) + (IF IsAlarm(Head(s)) THEN 1 ELSE 0)
<1> DEFINE rest == AlarmsIn(s) \ {1}
           f == [i \in AlarmsIn(Tail(s)) |-> i + 1]
<1>1. Len(s) \in Nat \ {0} /\ Len(Tail(s)) = Len(s) - 1
      /\ \A i \in 1 .. Len(s) - 1 : Tail(s)[i] = s[i + 1]
  OBVIOUS
<1>2. f \in [AlarmsIn(Tail(s)) -> rest]
  BY <1>1 DEF AlarmsIn
<1>3. \A i, j \in AlarmsIn(Tail(s)) : f[i] = f[j] => i = j
  BY <1>1 DEF AlarmsIn
<1>4. \A k \in rest : \E i \in AlarmsIn(Tail(s)) : f[i] = k
  <2> TAKE k \in rest
  <2>1. k - 1 \in AlarmsIn(Tail(s)) /\ f[k - 1] = k
    BY <1>1 DEF AlarmsIn
  <2> QED BY <2>1
<1>5. ExistsBijection(AlarmsIn(Tail(s)), rest)
  <2> HIDE DEF f, rest
  <2> QED BY <1>2, <1>3, <1>4
      DEF ExistsBijection, Bijection, Injection, Surjection, IsInjective
<1>6. Cardinality(rest) = Cardinality(AlarmsIn(Tail(s)))
  BY <1>1, <1>5, AlarmsFinite, FS_Bijection
<1>7. Cardinality(rest) = IF 1 \in AlarmsIn(s) THEN Cardinality(AlarmsIn(s)) - 1
                          ELSE Cardinality(AlarmsIn(s))
  BY <1>1, AlarmsFinite, FS_RemoveElement
<1>8. 1 \in AlarmsIn(s) <=> IsAlarm(Head(s))
  BY <1>1 DEF AlarmsIn
<1>9. Cardinality(AlarmsIn(s)) \in Nat /\ Cardinality(AlarmsIn(Tail(s))) \in Nat
  BY <1>1, AlarmsFinite
<1> QED BY <1>6, <1>7, <1>8, <1>9

\* Every set of naturals has a least element.
LEMMA Least ==
  ASSUME NEW T, T \subseteq Nat, T # {}
  PROVE  \E m \in T : \A k \in T : m <= k
<1> DEFINE R == OpToRel(<, Nat)
<1>1. IsWellFoundedOn(R, Nat)
  BY NatLessThanWellFounded
<1>2. PICK m \in T : \A k \in T : ~(<<k, m>> \in R)
  <2> HIDE DEF R
  <2> QED BY <1>1, WFMin
<1>3. \A k \in T : ~(k < m)
  BY <1>2 DEF OpToRel
<1> QED BY <1>3

\* Where a line ends.
LEMMA FirstEnd ==
  ASSUME file \in Seq(Pieces)
  PROVE  /\ NextEnd \in 0 .. Len(file)
         /\ NextEnd = 0 => \A i \in 1 .. Len(file) : file[i] # LineEnd
         /\ NextEnd # 0 => /\ file[NextEnd] = LineEnd
                           /\ \A i \in 1 .. NextEnd - 1 : file[i] # LineEnd
<1> DEFINE I == {i \in 1 .. Len(file) : file[i] = LineEnd}
<1>1. NextEnd = IF I # {} THEN Min(I) ELSE 0
  BY DEF NextEnd, SelectInSeq
<1>2. I \subseteq Nat /\ Len(file) \in Nat
  OBVIOUS
<1>3. CASE I # {}
  <2> HIDE DEF I
  <2>1. PICK m \in I : \A k \in I : m <= k
    BY <1>2, <1>3, Least
  <2>2. Min(I) \in I /\ \A k \in I : Min(I) <= k
    BY <2>1 DEF Min
  <2>3. NextEnd \in I /\ \A k \in I : NextEnd <= k
    BY <1>1, <1>3, <2>2
  <2> QED BY <1>2, <2>3 DEF I
<1>4. CASE I = {}
  BY <1>1, <1>2, <1>4
<1> QED BY <1>3, <1>4

\* The first two of a sequence taken off.
LEMMA Tails ==
  ASSUME NEW S, NEW s \in Seq(S), s # <<>>
  PROVE  /\ Len(s) \in Nat \ {0} /\ Tail(s) \in Seq(S) /\ s[1] \in S
         /\ Head(s) = s[1]
         /\ Len(Tail(s)) = Len(s) - 1
         /\ \A i \in 1 .. Len(s) - 1 : Tail(s)[i] = s[i + 1]
         /\ Len(s) = 1 => Tail(s) = <<>>
         /\ Len(s) >= 2 =>
              Tail(s) # <<>> /\ SubSeq(s, 3, Len(s)) = Tail(Tail(s))
<1>1. Len(s) \in Nat \ {0} /\ Tail(s) \in Seq(S) /\ Len(Tail(s)) = Len(s) - 1
      /\ Head(s) = s[1] /\ s[1] \in S
      /\ \A i \in 1 .. Len(s) - 1 : Tail(s)[i] = s[i + 1]
  BY EmptySeq, HeadTailProperties
<1> DEFINE t == Tail(s)
<1> HIDE DEF t
<1>0. t \in Seq(S) /\ Len(t) = Len(s) - 1 /\ Len(<<>>) = 0
      /\ (t # <<>> => Len(t) \in Nat \ {0})
  BY <1>1, EmptySeq DEF t
<1>2. Len(s) = 1 => Tail(s) = <<>>
  BY <1>0 DEF t
<1>3. Len(s) >= 2 => Tail(s) # <<>>
  <2>1. Len(s) >= 2 => Len(t) # 0
    BY <1>0, <1>1
  <2> QED BY <1>0, <2>1 DEF t
<1>4. ASSUME Len(s) >= 2 PROVE SubSeq(s, 3, Len(s)) = Tail(Tail(s))
  <2>1. Tail(s) = SubSeq(s, 2, Len(s))
    BY TailIsSubSeq
  <2>2. 2 \in 1 .. Len(s) /\ Len(s) \in 2 .. Len(s)
    BY <1>1, <1>4
  <2> QED BY <2>1, <2>2, HeadTailOfSubSeq
<1> QED BY <1>1, <1>2, <1>3, <1>4

\* What the dashboard makes of a line: it applies the one whole event on it, or
\* passes over an empty line, or counts a parse error.
LEMMA LineRead ==
  ASSUME ViewTypeOK, ReadLine
  PROVE  /\ file # <<>> /\ file' \in Seq(Pieces)
         /\ \/ /\ file[1] = LineEnd /\ file' = Tail(file)
               /\ snap' = snap
            \/ /\ file[1] \in Events
               /\ snap' = Applied(file[1])
               /\ \/ Len(file) = 1 /\ file' = <<>> /\ Tail(file) = <<>>
                  \/ Len(file) >= 2 /\ file[2] = LineEnd /\ file' = Tail(Tail(file))
            \/ /\ snap' = Unparsed
               /\ \/ \E i \in 1 .. Len(file) : file[i] = Torn
                  \/ Len(file) >= 2 /\ file[1] # LineEnd /\ file[2] # LineEnd
<1>1. /\ file \in Seq(Pieces) /\ file # <<>> /\ Len(file) \in Nat \ {0}
      /\ file' = Unread
      /\ snap' = IF Line = <<>> THEN snap
                 ELSE IF Parses THEN Applied(Line[1]) ELSE Unparsed
  BY DEF ViewTypeOK, ReadLine
<1>2. \A i \in 1 .. Len(file) : file[i] \in Pieces
  BY <1>1
<1>3. /\ NextEnd \in 0 .. Len(file)
      /\ NextEnd = 0 => \A i \in 1 .. Len(file) : file[i] # LineEnd
      /\ NextEnd # 0 => /\ file[NextEnd] = LineEnd
                        /\ \A i \in 1 .. NextEnd - 1 : file[i] # LineEnd
  BY <1>1, FirstEnd
<1>4. LineEnd # Torn
  BY DEF LineEnd, Torn
<1>5. CASE NextEnd = 0
  <2>1. Line = file /\ file' = <<>>
    BY <1>1, <1>5 DEF Line, Unread
  <2>2. file[1] # LineEnd /\ (Len(file) >= 2 => file[2] # LineEnd)
    BY <1>1, <1>3, <1>5
  <2>3. <<>> \in Seq(Pieces)
    OBVIOUS
  <2>4. CASE Parses
    <3>1. Len(file) = 1 /\ file[1] # Torn
      BY <2>1, <2>4 DEF Parses
    <3>2. Tail(file) = <<>>
      BY <1>1, <3>1, Tails
    <3>3. file[1] \in Events
      BY <1>2, <2>2, <3>1 DEF Pieces
    <3> QED BY <1>1, <2>1, <2>3, <2>4, <3>1, <3>2, <3>3
  <2>5. CASE ~Parses
    <3>1. Len(file) # 1 \/ file[1] = Torn
      BY <2>1, <2>5 DEF Parses
    <3>2. \/ \E i \in 1 .. Len(file) : file[i] = Torn
          \/ Len(file) >= 2 /\ file[1] # LineEnd /\ file[2] # LineEnd
      <4>1. 1 \in 1 .. Len(file) /\ (Len(file) # 1 => Len(file) >= 2)
        <5>1. \A n \in Nat \ {0} : 1 \in 1 .. n /\ (n # 1 => n >= 2)
          OBVIOUS
        <5> QED BY <1>1, <5>1
      <4> QED BY <2>2, <3>1, <4>1
    <3>3. snap' = Unparsed
      BY <1>1, <2>1, <2>5
    <3> QED BY <1>1, <2>1, <2>3, <3>2, <3>3
  <2> QED BY <2>4, <2>5
<1>6. CASE NextEnd = 1
  <2>1. Line = <<>> /\ file' = Tail(file)
    BY <1>1, <1>6 DEF Line, Unread
  <2>2. file[1] = LineEnd /\ Tail(file) \in Seq(Pieces)
    BY <1>1, <1>3, <1>6
  <2> QED BY <1>1, <2>1, <2>2
<1>7. CASE NextEnd >= 2
  <2> DEFINE k == NextEnd
  <2>1. k \in 2 .. Len(file)
    BY <1>1, <1>3, <1>7
  <2>2. /\ Line = SubSeq(file, 1, k - 1)
        /\ file' = SubSeq(file, k + 1, Len(file))
    BY <1>1, <2>1 DEF Line, Unread
  <2>3. file[k] = LineEnd /\ \A i \in 1 .. k - 1 : file[i] # LineEnd
    BY <1>3, <2>1
  <2> HIDE DEF k
  <2>0. k - 1 = 1 <=> k = 2
    BY <2>1
  <2>4. /\ Len(Line) = k - 1 /\ Line # <<>>
        /\ Line[1] = file[1] /\ file' \in Seq(Pieces)
    BY <1>1, <2>1, <2>2
  <2>5. CASE Parses
    <3>1. k = 2 /\ file[1] # Torn
      BY <2>0, <2>4, <2>5 DEF Parses
    <3>2. SubSeq(file, 3, Len(file)) = Tail(Tail(file))
      BY <1>1, <2>1, Tails
    <3>3. file[1] \in Events
      BY <1>2, <2>1, <2>3, <3>1 DEF Pieces
    <3> QED BY <1>1, <2>1, <2>2, <2>3, <2>4, <2>5, <3>1, <3>2, <3>3
  <2>6. CASE ~Parses
    <3>1. k - 1 # 1 \/ file[1] = Torn
      BY <2>4, <2>6 DEF Parses
    <3>2. k # 2 => file[1] # LineEnd /\ file[2] # LineEnd
      BY <2>1, <2>3
    <3> QED BY <1>1, <2>1, <2>4, <2>6, <3>1, <3>2
  <2> QED BY <2>5, <2>6
<1> QED BY <1>3, <1>5, <1>6, <1>7

\* Appending a piece: it is the last of its kind, or it is of another kind.
LEMMA LastAppend ==
  ASSUME NEW T, NEW s \in Seq(T), NEW x \in T, NEW S, NEW G \in SUBSET S
  PROVE  /\ x \in G => EndsWith(Append(s, x), S, G)
         /\ x \notin S /\ EndsWith(s, S, G) => EndsWith(Append(s, x), S, G)
         /\ x \notin S /\ Without(s, S) => Without(Append(s, x), S)
<1> DEFINE t == Append(s, x)
           n == Len(s)
<1>1. n \in Nat /\ Len(t) = n + 1 /\ t[n + 1] = x
      /\ \A i \in 1 .. n : t[i] = s[i]
  OBVIOUS
<1> HIDE DEF t
<1>2. ASSUME x \in G PROVE EndsWith(t, S, G)
  <2>1. n + 1 \in 1 .. Len(t) /\ \A j \in n + 1 + 1 .. Len(t) : FALSE
    BY <1>1
  <2> QED BY <1>1, <1>2, <2>1 DEF EndsWith
<1>3. ASSUME x \notin S, EndsWith(s, S, G) PROVE EndsWith(t, S, G)
  <2>1. PICK i \in 1 .. n : s[i] \in G /\ \A j \in i + 1 .. n : s[j] \notin S
    BY <1>3 DEF EndsWith
  <2>2. i \in 1 .. Len(t) /\ t[i] \in G
    BY <1>1, <2>1
  <2>3. ASSUME NEW j \in i + 1 .. Len(t) PROVE t[j] \notin S
    <3>1. j = n + 1 \/ (j \in i + 1 .. n /\ j \in 1 .. n)
      BY <1>1, <2>1, <2>3
    <3> QED BY <1>1, <1>3, <2>1, <3>1
  <2> QED BY <2>2, <2>3 DEF EndsWith
<1>4. ASSUME x \notin S, Without(s, S) PROVE Without(t, S)
  BY <1>1, <1>4 DEF Without
<1> QED BY <1>2, <1>3, <1>4 DEF t

\* Taking the first piece off: the last of its kind is still there, or was it.
LEMMA LastTail ==
  ASSUME NEW T, NEW s \in Seq(T), s # <<>>, NEW S, NEW G \in SUBSET S
  PROVE  /\ EndsWith(s, S, G) => \/ EndsWith(Tail(s), S, G)
                                 \/ Head(s) \in G /\ Without(Tail(s), S)
         /\ Without(s, S) => Head(s) \notin S /\ Without(Tail(s), S)
<1> DEFINE t == Tail(s)
           n == Len(s)
<1>1. n \in Nat \ {0} /\ Len(t) = n - 1 /\ Head(s) = s[1]
      /\ \A i \in 1 .. n - 1 : t[i] = s[i + 1]
  BY Tails
<1> HIDE DEF t, n
<1>2. ASSUME EndsWith(s, S, G)
      PROVE  EndsWith(t, S, G) \/ (Head(s) \in G /\ Without(t, S))
  <2>1. PICK i \in 1 .. n : s[i] \in G /\ \A j \in i + 1 .. n : s[j] \notin S
    BY <1>2 DEF EndsWith, n
  <2>2. CASE i = 1
    <3>1. \A j \in 1 .. n - 1 : j + 1 \in i + 1 .. n
      BY <1>1, <2>2
    <3> QED BY <1>1, <2>1, <2>2, <3>1 DEF Without
  <2>3. CASE i # 1
    <3>1. i - 1 \in 1 .. n - 1 /\ (i - 1) + 1 = i
      BY <1>1, <2>3
    <3>2. \A j \in (i - 1) + 1 .. n - 1 : j \in 1 .. n - 1 /\ j + 1 \in i + 1 .. n
      BY <1>1, <3>1
    <3> QED BY <1>1, <2>1, <3>1, <3>2 DEF EndsWith
  <2> QED BY <2>2, <2>3
<1>3. ASSUME Without(s, S) PROVE Head(s) \notin S /\ Without(t, S)
  <2>1. 1 \in 1 .. n /\ \A i \in 1 .. n - 1 : i + 1 \in 1 .. n
    BY <1>1
  <2> QED BY <1>1, <1>3, <2>1 DEF Without, n
<1> QED BY <1>2, <1>3 DEF t

\* What was said stays said: when more is sent,
LEMMA SaidSent ==
  ASSUME NEW es \in Seq(Events), NEW x \in Events, NEW fs \in Seq(Pieces),
         NEW S \in SUBSET Events, NEW G \in SUBSET S, NEW b
  PROVE  /\ x \in G => Said(S, G, Append(es, x), fs, b)
         /\ x \notin S /\ Said(S, G, es, fs, b) => Said(S, G, Append(es, x), fs, b)
BY LastAppend DEF Said

\* when an event goes from the channel to the log,
LEMMA SaidWritten ==
  ASSUME NEW es \in Seq(Events), es # <<>>, NEW fs \in Seq(Pieces),
         NEW S \in SUBSET Events, NEW G \in SUBSET S, NEW b,
         Said(S, G, es, fs, b)
  PROVE  Said(S, G, Tail(es), Append(fs, Head(es)), b)
<1> DEFINE x == Head(es)
           t == Tail(es)
           u == Append(fs, x)
<1>1. x \in Events /\ x \in Pieces
  BY Tails DEF Pieces
<1>2. /\ EndsWith(es, S, G) => EndsWith(t, S, G) \/ (x \in G /\ Without(t, S))
      /\ Without(es, S) => x \notin S /\ Without(t, S)
  BY LastTail
<1>3. /\ x \in G => EndsWith(u, S, G)
      /\ x \notin S /\ EndsWith(fs, S, G) => EndsWith(u, S, G)
      /\ x \notin S /\ Without(fs, S) => Without(u, S)
  BY <1>1, LastAppend
<1> HIDE DEF x, t, u
<1>4. Said(S, G, t, u, b)
  BY <1>2, <1>3 DEF Said
<1> QED BY <1>4 DEF x, t, u

\* when a line is ended,
LEMMA SaidEnded ==
  ASSUME NEW es \in Seq(Events), NEW fs \in Seq(Pieces), NEW x \in Pieces,
         NEW S \in SUBSET Events, NEW G \in SUBSET S, NEW b, x \notin S,
         Said(S, G, es, fs, b)
  PROVE  Said(S, G, es, Append(fs, x), b)
BY LastAppend DEF Said

\* and when the dashboard reads it and shows it.
LEMMA SaidRead ==
  ASSUME NEW es \in Seq(Events), NEW fs \in Seq(Pieces), fs # <<>>,
         NEW S \in SUBSET Events, NEW G \in SUBSET S, NEW b, NEW c,
         Head(fs) \in G => c, Head(fs) \notin S /\ b => c,
         Said(S, G, es, fs, b)
  PROVE  Said(S, G, es, Tail(fs), c)
<1> DEFINE x == Head(fs)
           t == Tail(fs)
<1>1. /\ EndsWith(fs, S, G) => EndsWith(t, S, G) \/ (x \in G /\ Without(t, S))
      /\ Without(fs, S) => x \notin S /\ Without(t, S)
  BY LastTail
<1> HIDE DEF x, t
<1>2. x \in G => c
  BY DEF x
<1>3. x \notin S /\ b => c
  BY DEF x
<1>4. Said(S, G, es, t, c)
  BY <1>1, <1>2, <1>3 DEF Said
<1> QED BY <1>4 DEF t

(***************************************************************************)
(* OperatorView: the steps.                                                *)
(***************************************************************************)
\* What the events say.
LEMMA EventTypes ==
  ASSUME ViewTypeOK
  PROVE  /\ \A up \in BOOLEAN : /\ LinkEvent(up) \in LinkSays(up)
                                /\ LinkEvent(up) \in Events \ ModeEvents
                                /\ ~IsAlarm(LinkEvent(up))
         /\ ModeEvent \in ModeSays(mode)
         /\ ModeEvent \in Events \ LinkEvents
         /\ ~IsAlarm(ModeEvent)
         /\ \A s \in States : /\ TransitionEvent(s) \in Events
                              /\ TransitionEvent(s) \notin LinkEvents
                              /\ TransitionEvent(s) \notin ModeEvents
                              /\ IsAlarm(TransitionEvent(s)) <=> s = "Spoofed"
         /\ LineEnd \notin Events /\ Torn \notin Events
         /\ ~IsAlarm(LineEnd) /\ ~IsAlarm(Torn)
<1> USE DEF Events, EventKinds, LinkEvents, ModeEvents, LinkSays, ModeSays, IsAlarm
<1>1. ASSUME NEW up \in BOOLEAN
      PROVE  /\ LinkEvent(up) \in LinkSays(up)
             /\ LinkEvent(up) \in Events \ ModeEvents
             /\ ~IsAlarm(LinkEvent(up))
  BY DEF LinkEvent
<1>2. /\ ModeEvent \in ModeSays(mode)
      /\ ModeEvent \in Events \ LinkEvents
      /\ ~IsAlarm(ModeEvent)
  BY DEF ModeEvent, ViewTypeOK
<1>3. ASSUME NEW s \in States
      PROVE  /\ TransitionEvent(s) \in Events
             /\ TransitionEvent(s) \notin LinkEvents
             /\ TransitionEvent(s) \notin ModeEvents
             /\ IsAlarm(TransitionEvent(s)) <=> s = "Spoofed"
  BY DEF TransitionEvent
<1>4. /\ LineEnd \notin Events /\ Torn \notin Events
      /\ ~IsAlarm(LineEnd) /\ ~IsAlarm(Torn)
  BY DEF LineEnd, Torn
<1> HIDE DEF Events, LinkEvents, ModeEvents, LinkSays, ModeSays, IsAlarm
<1> QED BY <1>1, <1>2, <1>3, <1>4

\* The channel takes an event in, or overwrites one and says so.
LEMMA Sent ==
  ASSUME ViewTypeOK, NEW x \in Events, Send(x)
  PROVE  /\ events' \in Seq(Events)
         /\ lagged' \in BOOLEAN
         /\ ~lagged' => ~lagged /\ events' = Append(events, x)
<1>1. events \in Seq(Events) /\ Len(events) \in Nat /\ lagged \in BOOLEAN
  BY DEF ViewTypeOK
<1>2. CASE Len(events) < BusCap
  <2>1. events' = Append(events, x) /\ lagged' = lagged
    BY <1>2 DEF Send
  <2> QED BY <1>1, <2>1, AppendProperties
<1>3. CASE ~(Len(events) < BusCap)
  <2>1. events' = Append(Tail(events), x) /\ lagged' = TRUE
    BY <1>3 DEF Send
  <2>2. events # <<>>
    BY <1>1, <1>3, ViewAssumption
  <2>3. Tail(events) \in Seq(Events)
    BY <1>1, <2>2, Tails
  <2> QED BY <2>1, <2>3, AppendProperties
<1> QED BY <1>2, <1>3

\* What a poll or a transition does to the channel.
LEMMA Channelled ==
  ASSUME ViewTypeOK, Watchdog \/ \E s \in States : Transition(s)
  PROVE  \/ UNCHANGED channel
         \/ \E x \in Events : Send(x)
BY EventTypes
DEF Watchdog, Poll, PollChange, PollFirst, PollMode, Transition, HeartbeatFresh

\* The dashboard's snapshot stays one.
LEMMA SnapUnparsed ==
  ASSUME ViewTypeOK
  PROVE  Unparsed \in Snapshots /\ Unparsed.parse_errors > 0
<1> DEFINE n == snap.parse_errors + 1
<1>1. snap \in Snapshots /\ n \in Nat /\ n > 0
  BY DEF ViewTypeOK, Snapshots
<1>2. Unparsed = [snap EXCEPT !.parse_errors = n]
  BY DEF Unparsed
<1> HIDE DEF n
<1> QED BY <1>1, <1>2 DEF Snapshots

\* An event changes what it speaks of.
LEMMA SnapApplied ==
  ASSUME ViewTypeOK, NEW e \in Events
  PROVE  /\ Applied(e) \in Snapshots
         /\ \A up \in BOOLEAN : e \in LinkSays(up) =>
              Applied(e).link = IF up THEN "Up" ELSE "Down"
         /\ e \notin LinkEvents => Applied(e).link = snap.link
         /\ \A m \in Modes : e \in ModeSays(m) => Applied(e).mode = m
         /\ e \notin ModeEvents => Applied(e).mode = snap.mode
         /\ Applied(e).spoofed = IF IsAlarm(e) THEN snap.spoofed + 1
                                 ELSE snap.spoofed
         /\ Applied(e).parse_errors = snap.parse_errors
<1> DEFINE l == CASE e.kind = "LinkRestored" -> "Up"
                  [] e.kind = "LinkDown" -> "Down"
                  [] OTHER -> snap.link
           m == IF e.kind = "PilotModeChange" THEN e.mode ELSE snap.mode
           n == IF IsAlarm(e) THEN snap.spoofed + 1 ELSE snap.spoofed
<1>1. snap \in Snapshots /\ snap.link \in {"Up", "Down", Nothing}
      /\ snap.mode \in Modes \cup {Nothing} /\ snap.spoofed \in Nat
  BY DEF ViewTypeOK, Snapshots
<1>2. Applied(e) = [snap EXCEPT !.link = l, !.mode = m, !.spoofed = n]
  BY DEF Applied
<1>3. /\ l \in {"Up", "Down", Nothing}
      /\ \A up \in BOOLEAN : e \in LinkSays(up) => l = IF up THEN "Up" ELSE "Down"
      /\ e \notin LinkEvents => l = snap.link
  BY <1>1 DEF LinkSays, LinkEvents
<1>4. /\ m \in Modes \cup {Nothing}
      /\ \A k \in Modes : e \in ModeSays(k) => m = k
      /\ e \notin ModeEvents => m = snap.mode
  BY <1>1 DEF ModeSays, ModeEvents, Events
<1>5. n \in Nat
  BY <1>1
<1> HIDE DEF l, m
<1>6. /\ Applied(e) \in Snapshots
      /\ Applied(e).link = l /\ Applied(e).mode = m /\ Applied(e).spoofed = n
      /\ Applied(e).parse_errors = snap.parse_errors
  <2> HIDE DEF n
  <2> QED BY <1>1, <1>2, <1>3, <1>4, <1>5 DEF Snapshots
<1> QED BY <1>3, <1>4, <1>6

\* Every step keeps the types.
LEMMA ViewTypeStep == ViewTypeOK /\ [ViewNext]_viewVars => ViewTypeOK'
<1> SUFFICES ASSUME ViewTypeOK, [ViewNext]_viewVars
             PROVE  ViewTypeOK'
  OBVIOUS
<1> USE DEF ViewTypeOK
<1>1. CASE ViewTick
  BY <1>1 DEF ViewTick, monitor, detected, channel, log
<1>2. ASSUME NEW m \in Modes, HeartbeatMode(m)
      PROVE  ViewTypeOK'
  BY <1>2 DEF HeartbeatMode, detected, channel, log
<1>3. CASE HeartbeatChange
  <2>1. recording \in [at : Nat, changed : BOOLEAN]
    BY <1>3 DEF HeartbeatChange
  <2> QED BY <1>3, <2>1 DEF HeartbeatChange, detected, channel, log
<1>4. CASE Watchdog
  <2>1. events' \in Seq(Events) /\ lagged' \in BOOLEAN
    BY <1>4, Channelled, Sent DEF channel
  <2>2. watchdog' \in [pc : {"idle", "change", "first", "mode"}, seen : BOOLEAN,
                       up : BOOLEAN, mode_change : Nat]
    <3>1. HeartbeatFresh \in BOOLEAN
      BY DEF HeartbeatFresh
    <3>2. CASE Poll
      <4> HIDE DEF ViewTypeOK
      <4> DEFINE up == HeartbeatFresh
                 next == IF watchdog.seen \/ up THEN "change" ELSE "idle"
      <4>1. watchdog' = [watchdog EXCEPT !.pc = next, !.up = up]
        BY <3>2 DEF Poll
      <4>2. up \in BOOLEAN /\ next \in {"idle", "change", "first", "mode"}
        BY <3>1
      <4> HIDE DEF up, next
      <4> QED BY <4>1, <4>2 DEF ViewTypeOK
    <3>3. CASE PollChange
      BY <3>3 DEF PollChange
    <3>4. CASE PollFirst
      BY <3>4 DEF PollFirst
    <3>5. CASE PollMode
      BY <3>5 DEF PollMode
    <3> QED BY <1>4, <3>2, <3>3, <3>4, <3>5 DEF Watchdog
  <2>3. UNCHANGED <<now, last_heartbeat, mode, mode_changed_at, recording, logging,
                    file, snap, alarms, unwritten, unended>>
    BY <1>4 DEF Watchdog, Poll, PollChange, PollFirst, PollMode, monitor, detected,
       log
  <2> QED BY <2>1, <2>2, <2>3
<1>5. ASSUME NEW s \in States, Transition(s)
      PROVE  ViewTypeOK'
  <2>1. events' \in Seq(Events) /\ lagged' \in BOOLEAN
    BY <1>5, Channelled, Sent DEF channel
  <2> QED BY <1>5, <2>1 DEF Transition, monitor, log
<1>6. CASE Logger
  <2>1. ASSUME TakeEvent PROVE events' \in Seq(Events) /\ Head(events) \in Events
    BY <2>1, Tails DEF TakeEvent
  <2>2. LineEnd \in Pieces /\ Torn \in Pieces /\ Events \subseteq Pieces
    BY DEF Pieces
  <2>3. CASE WriteLine
    <3>1. file' \in Seq(Pieces)
      BY <2>1, <2>2, <2>3, AppendProperties DEF WriteLine
    <3> QED BY <2>1, <2>3, <3>1 DEF WriteLine, monitor, detected
  <2>4. CASE WriteLineFails
    <3>1. file' \in Seq(Pieces)
      BY <2>2, <2>4, AppendProperties DEF WriteLineFails
    <3> QED BY <2>1, <2>4, <3>1 DEF WriteLineFails, monitor, detected
  <2>5. CASE WriteEnd
    <3>1. file' \in Seq(Pieces)
      BY <2>2, <2>5, AppendProperties DEF WriteEnd
    <3> QED BY <2>5, <3>1 DEF WriteEnd, monitor, detected, channel
  <2>6. CASE WriteEndFails
    BY <2>6 DEF WriteEndFails, monitor, detected, channel
  <2> QED BY <1>6, <2>3, <2>4, <2>5, <2>6 DEF Logger
<1>7. CASE ReadLine
  <2>1. file' \in Seq(Pieces)
    BY <1>7, LineRead
  <2>2. snap' \in Snapshots
    BY <1>7, LineRead, SnapUnparsed, SnapApplied
  <2> QED BY <1>7, <2>1, <2>2 DEF ReadLine, monitor, detected, channel
<1>8. CASE UNCHANGED viewVars
  BY <1>8 DEF viewVars, monitor, detected, channel, log
<1> QED BY <1>1, <1>2, <1>3, <1>4, <1>5, <1>6, <1>7, <1>8 DEF ViewNext

\* The steps that touch neither the channel nor the log nor the display.
LEMMA QuietStep ==
  ASSUME \/ ViewTick \/ (\E m \in Modes : HeartbeatMode(m)) \/ HeartbeatChange
         \/ UNCHANGED viewVars
  PROVE  /\ UNCHANGED <<events, lagged, logging, file, unwritten, unended, snap>>
         /\ UNCHANGED <<alarms, watchdog, first_mode>>
BY DEF ViewTick, HeartbeatMode, HeartbeatChange, viewVars, channel, log, detected

\* Every step keeps count of the alarms.
LEMMA AlarmStep ==
  ViewTypeOK /\ AlarmCount /\ [ViewNext]_viewVars => AlarmCount'
<1> SUFFICES ASSUME ViewTypeOK, AlarmCount, [ViewNext]_viewVars
             PROVE  AlarmCount'
  OBVIOUS
<1> DEFINE inFile == Cardinality(AlarmsIn(file))
           inBus == Cardinality(AlarmsIn(events))
<1>0. /\ events \in Seq(Events) /\ file \in Seq(Pieces)
      /\ alarms \in Nat /\ snap.spoofed \in Nat /\ snap.parse_errors \in Nat
      /\ unwritten \in Nat /\ lagged \in BOOLEAN
      /\ inFile \in Nat /\ inBus \in Nat
  BY AlarmsFinite DEF ViewTypeOK, Snapshots
<1>1. ASSUME NEW x \in Events, Send(x), UNCHANGED <<file, snap, unwritten>>,
             alarms' = IF IsAlarm(x) THEN alarms + 1 ELSE alarms
      PROVE  AlarmCount'
  <2> SUFFICES ASSUME ~lagged' PROVE AlarmCount'
    BY DEF AlarmCount
  <2>1. ~lagged /\ events' = Append(events, x)
    BY <1>1, Sent
  <2>2. Cardinality(AlarmsIn(events')) = inBus + (IF IsAlarm(x) THEN 1 ELSE 0)
    BY <1>0, <2>1, AlarmsAppend
  <2>3. ASSUME alarms = snap.spoofed + inFile + inBus
        PROVE  alarms' = snap.spoofed + inFile + Cardinality(AlarmsIn(events'))
    BY <1>0, <1>1, <2>2, <2>3
  <2> QED BY <1>1, <2>1, <2>3 DEF AlarmCount
<1>2. CASE Watchdog
  <2>1. UNCHANGED <<file, snap, unwritten, alarms>>
    BY <1>2 DEF Watchdog, Poll, PollChange, PollFirst, PollMode, detected, log
  <2>2. \/ UNCHANGED <<events, lagged>>
        \/ \E x \in Events : ~IsAlarm(x) /\ Send(x)
    BY <1>2, EventTypes
    DEF Watchdog, Poll, PollChange, PollFirst, PollMode, HeartbeatFresh, channel
  <2>3. CASE UNCHANGED <<events, lagged>>
    BY <2>1, <2>3 DEF AlarmCount
  <2> QED BY <1>1, <2>1, <2>2, <2>3
<1>3. ASSUME NEW s \in States, Transition(s)
      PROVE  AlarmCount'
  BY <1>1, <1>3, EventTypes DEF Transition, log
<1>4. CASE WriteLine
  <2>1. events # <<>> /\ events' = Tail(events) /\ file' = Append(file, Head(events))
        /\ UNCHANGED <<snap, alarms, lagged, unwritten>>
    BY <1>4 DEF WriteLine, TakeEvent, detected
  <2>2. Head(events) \in Pieces
    BY <1>0, <2>1, Tails DEF Pieces
  <2>3. Cardinality(AlarmsIn(file')) =
          inFile + (IF IsAlarm(Head(events)) THEN 1 ELSE 0)
    BY <1>0, <2>1, <2>2, AlarmsAppend
  <2>4. inBus = Cardinality(AlarmsIn(events'))
                  + (IF IsAlarm(Head(events)) THEN 1 ELSE 0)
    BY <1>0, <2>1, AlarmsTail
  <2>5. Cardinality(AlarmsIn(events')) \in Nat
    BY <1>0, <2>1, Tails, AlarmsFinite
  <2>6. ASSUME alarms = snap.spoofed + inFile + inBus
        PROVE  alarms = snap.spoofed + Cardinality(AlarmsIn(file'))
                                     + Cardinality(AlarmsIn(events'))
    <3>1. CASE IsAlarm(Head(events))
      <4>1. Cardinality(AlarmsIn(file')) = inFile + 1
        BY <2>3, <3>1
      <4>2. inBus = Cardinality(AlarmsIn(events')) + 1
        BY <2>4, <3>1
      <4> DEFINE sp == snap.spoofed
                 b == Cardinality(AlarmsIn(events'))
      <4>3. alarms \in Nat /\ sp \in Nat /\ inFile \in Nat /\ b \in Nat
            /\ alarms = sp + inFile + (b + 1)
        BY <1>0, <2>5, <2>6, <4>2
      <4> HIDE DEF inFile, inBus, b, sp
      <4>4. alarms = sp + (inFile + 1) + b
        BY <4>3
      <4> QED BY <4>1, <4>4 DEF sp, b
    <3>2. CASE ~IsAlarm(Head(events))
      BY <1>0, <2>3, <2>4, <2>5, <2>6, <3>2
    <3> QED BY <3>1, <3>2
  <2> QED BY <2>1, <2>6 DEF AlarmCount
<1>5. CASE WriteLineFails
  BY <1>0, <1>5 DEF WriteLineFails, AlarmCount
<1>6. CASE WriteEnd
  <2>1. file' = Append(file, LineEnd)
        /\ UNCHANGED <<events, snap, alarms, lagged, unwritten>>
    BY <1>6 DEF WriteEnd, channel, detected
  <2>2. LineEnd \in Pieces
    BY DEF Pieces
  <2>3. Cardinality(AlarmsIn(file')) = inFile + 0
    BY <1>0, <2>1, <2>2, AlarmsAppend, EventTypes
  <2> QED BY <1>0, <2>1, <2>3 DEF AlarmCount
<1>7. CASE WriteEndFails
  BY <1>7 DEF WriteEndFails, channel, detected, AlarmCount
<1>8. CASE ReadLine
  <2>1. UNCHANGED <<events, lagged, alarms, unwritten>>
    BY <1>8 DEF ReadLine, channel, detected
  <2>2. CASE snap' = Unparsed
    BY <2>2, SnapUnparsed DEF AlarmCount
  <2>3. CASE file # <<>> /\ file[1] = LineEnd /\ file' = Tail(file) /\ snap' = snap
    <3>1. inFile = Cardinality(AlarmsIn(file')) + 0
      BY <1>0, <2>3, AlarmsTail, Tails, EventTypes
    <3>2. Cardinality(AlarmsIn(file')) \in Nat
      BY <1>0, <2>3, Tails, AlarmsFinite
    <3> QED BY <1>0, <2>1, <2>3, <3>1, <3>2 DEF AlarmCount
  <2>4. CASE /\ file # <<>> /\ file[1] \in Events
             /\ snap' = Applied(file[1])
             /\ \/ Len(file) = 1 /\ file' = <<>> /\ Tail(file) = <<>>
                \/ Len(file) >= 2 /\ file[2] = LineEnd /\ file' = Tail(Tail(file))
    <3> DEFINE rest == Tail(file)
               e == file[1]
    <3>1. rest \in Seq(Pieces) /\ Head(file) = e /\ Len(rest) \in Nat
          /\ (Len(file) >= 2 => rest # <<>> /\ Head(rest) = file[2])
      <4>1. /\ rest \in Seq(Pieces) /\ Head(file) = e /\ Len(rest) \in Nat
            /\ Len(file) >= 2 => rest # <<>> /\ rest[1] = file[2]
        BY <1>0, <2>4, Tails
      <4> QED BY <4>1, Tails
    <3>2. inFile = Cardinality(AlarmsIn(rest)) + (IF IsAlarm(e) THEN 1 ELSE 0)
      BY <1>0, <2>4, <3>1, AlarmsTail
    <3>3. Cardinality(AlarmsIn(rest)) \in Nat
      BY <3>1, AlarmsFinite
    <3>4. Cardinality(AlarmsIn(file')) = Cardinality(AlarmsIn(rest))
      <4>1. CASE Len(file) >= 2 /\ file[2] = LineEnd /\ file' = Tail(rest)
        <5>1. Cardinality(AlarmsIn(rest)) = Cardinality(AlarmsIn(Tail(rest))) + 0
          BY <3>1, <4>1, AlarmsTail, EventTypes
        <5>2. Cardinality(AlarmsIn(Tail(rest))) \in Nat
          BY <3>1, <4>1, Tails, AlarmsFinite
        <5> QED BY <4>1, <5>1, <5>2
      <4> QED BY <2>4, <4>1
    <3> HIDE DEF rest
    <3>5. /\ snap'.spoofed = IF IsAlarm(e) THEN snap.spoofed + 1 ELSE snap.spoofed
          /\ snap'.parse_errors = snap.parse_errors
      BY <2>4, SnapApplied
    <3> HIDE DEF e
    <3>6. ASSUME alarms = snap.spoofed + inFile + inBus
          PROVE  alarms = snap'.spoofed + Cardinality(AlarmsIn(file')) + inBus
      <4>1. CASE IsAlarm(e)
        <5>1. inFile = Cardinality(AlarmsIn(file')) + 1
          BY <3>2, <3>4, <4>1
        <5>2. snap'.spoofed = snap.spoofed + 1
          BY <3>5, <4>1
        <5> DEFINE sp == snap.spoofed
                   b == Cardinality(AlarmsIn(file'))
        <5>3. alarms \in Nat /\ sp \in Nat /\ inBus \in Nat /\ b \in Nat
              /\ alarms = sp + (b + 1) + inBus
          BY <1>0, <3>3, <3>4, <3>6, <5>1
        <5> HIDE DEF inFile, inBus, b, sp
        <5>4. alarms = (sp + 1) + b + inBus
          BY <5>3
        <5> QED BY <5>2, <5>4 DEF sp, b
      <4>2. CASE ~IsAlarm(e)
        BY <1>0, <3>2, <3>3, <3>4, <3>5, <3>6, <4>2
      <4> QED BY <4>1, <4>2
    <3> QED BY <2>1, <3>5, <3>6 DEF AlarmCount
  <2> QED BY <1>8, <2>2, <2>3, <2>4, LineRead
<1>9. CASE \/ ViewTick \/ (\E m \in Modes : HeartbeatMode(m)) \/ HeartbeatChange
           \/ UNCHANGED viewVars
  BY <1>9, QuietStep DEF AlarmCount
<1> QED BY <1>2, <1>3, <1>4, <1>5, <1>6, <1>7, <1>8, <1>9 DEF ViewNext, Logger

\* The log keeps its shape when a line is begun, or ended, or read.
LEMMA LinesWritten ==
  ASSUME NEW fs \in Seq(Pieces), NEW x \in Events, WholeLines(fs, FALSE)
  PROVE  WholeLines(Append(fs, x), TRUE)
<1> DEFINE n == Len(fs)
           t == Append(fs, x)
<1>1. n \in Nat /\ Len(t) = n + 1 /\ t[n + 1] = x
      /\ (\A i \in 1 .. n : t[i] = fs[i]) /\ (n # 0 => fs # <<>>)
  OBVIOUS
<1>2. x # Torn
  BY DEF Events, EventKinds, Torn
<1> HIDE DEF t, n
<1>3. n # 0 => t[n] = LineEnd
  <2>1. n # 0 => n \in 1 .. n /\ fs[n] = LineEnd
    BY <1>1 DEF WholeLines, n
  <2> QED BY <1>1, <2>1
<1>4. \A i \in 1 .. Len(t) : t[i] # Torn
  <2>1. \A i \in 1 .. Len(t) : i \in 1 .. n \/ i = n + 1
    BY <1>1
  <2> QED BY <1>1, <1>2, <2>1 DEF WholeLines, n
<1>5. ASSUME NEW i \in 1 .. Len(t) - 1
      PROVE  t[i] = LineEnd \/ t[i + 1] = LineEnd
  <2>1. (i = n /\ n # 0) \/ (i \in 1 .. n - 1 /\ i \in 1 .. n /\ i + 1 \in 1 .. n)
    BY <1>1
  <2> QED BY <1>1, <1>3, <2>1 DEF WholeLines, n
<1>6. WholeLines(t, TRUE)
  BY <1>4, <1>5 DEF WholeLines
<1> QED BY <1>6 DEF t

LEMMA LinesEnded ==
  ASSUME NEW fs \in Seq(Pieces), NEW w \in BOOLEAN, WholeLines(fs, w)
  PROVE  WholeLines(Append(fs, LineEnd), FALSE)
<1> DEFINE n == Len(fs)
           t == Append(fs, LineEnd)
<1>0. LineEnd # Torn
  BY DEF LineEnd, Torn
<1>1. n \in Nat /\ Len(t) = n + 1 /\ t[n + 1] = LineEnd
      /\ \A i \in 1 .. n : t[i] = fs[i]
  OBVIOUS
<1> HIDE DEF t, n
<1>2. \A i \in 1 .. Len(t) : t[i] # Torn
  <2>1. \A i \in 1 .. Len(t) : i \in 1 .. n \/ i = n + 1
    BY <1>1
  <2> QED BY <1>0, <1>1, <2>1 DEF WholeLines, n
<1>3. ASSUME NEW i \in 1 .. Len(t) - 1
      PROVE  t[i] = LineEnd \/ t[i + 1] = LineEnd
  <2>1. i = n \/ (i \in 1 .. n - 1 /\ i \in 1 .. n /\ i + 1 \in 1 .. n)
    BY <1>1
  <2> QED BY <1>1, <2>1 DEF WholeLines, n
<1>4. WholeLines(t, FALSE)
  BY <1>1, <1>2, <1>3 DEF WholeLines
<1> QED BY <1>4 DEF t

LEMMA LinesRead ==
  ASSUME NEW fs \in Seq(Pieces), fs # <<>>, NEW w \in BOOLEAN, WholeLines(fs, w)
  PROVE  WholeLines(Tail(fs), w)
<1> DEFINE n == Len(fs)
           t == Tail(fs)
<1>1. n \in Nat \ {0} /\ Len(t) = n - 1 /\ (n = 1 => t = <<>>)
      /\ \A i \in 1 .. n - 1 : t[i] = fs[i + 1]
  BY Tails
<1> HIDE DEF t, n
<1>2. \A i \in 1 .. Len(t) : t[i] # Torn
  <2>1. \A i \in 1 .. Len(t) : i \in 1 .. n - 1 /\ i + 1 \in 1 .. n
    BY <1>1
  <2> QED BY <1>1, <2>1 DEF WholeLines, n
<1>3. ASSUME NEW i \in 1 .. Len(t) - 1
      PROVE  t[i] = LineEnd \/ t[i + 1] = LineEnd
  <2>1. i \in 1 .. n - 1 /\ i + 1 \in 1 .. n - 1
    BY <1>1
  <2> QED BY <1>1, <2>1 DEF WholeLines, n
<1>4. ~w /\ t # <<>> => t[Len(t)] = LineEnd
  <2>1. t # <<>> => n - 1 \in 1 .. n - 1 /\ (n - 1) + 1 = n
    BY <1>1
  <2> QED BY <1>1, <2>1 DEF WholeLines, n
<1>5. WholeLines(t, w)
  BY <1>2, <1>3, <1>4 DEF WholeLines
<1> QED BY <1>5 DEF t

\* Every step keeps the shape of the log.
LEMMA ShapeStep ==
  ViewTypeOK /\ LogShape /\ [ViewNext]_viewVars => LogShape'
<1> SUFFICES ASSUME ViewTypeOK, LogShape, [ViewNext]_viewVars
             PROVE  LogShape'
  OBVIOUS
<1>0. /\ events \in Seq(Events) /\ file \in Seq(Pieces)
      /\ unwritten \in Nat /\ unended \in Nat /\ lagged \in BOOLEAN
  BY DEF ViewTypeOK
<1>1. CASE Watchdog \/ \E s \in States : Transition(s)
  <2>1. UNCHANGED <<file, logging, unwritten, unended>>
    BY <1>1 DEF Watchdog, Poll, PollChange, PollFirst, PollMode, Transition, log
  <2>2. ~lagged' => ~lagged
    BY <1>1, Channelled, Sent DEF channel
  <2> QED BY <2>1, <2>2 DEF LogShape, Undisturbed
<1>2. CASE WriteLine
  <2>1. /\ logging = Nothing /\ events # <<>> /\ logging' = Head(events)
        /\ file' = Append(file, Head(events))
        /\ UNCHANGED <<lagged, unwritten, unended>>
    BY <1>2 DEF WriteLine, TakeEvent
  <2>2. Head(events) \in Events
    BY <1>0, <2>1, Tails
  <2>3. Head(events) # Nothing
    BY <2>2, ViewAssumption
  <2>4. ASSUME WholeLines(file, FALSE) PROVE WholeLines(file', TRUE)
    BY <1>0, <2>1, <2>2, <2>4, LinesWritten
  <2> QED BY <2>1, <2>3, <2>4 DEF LogShape, Undisturbed
<1>3. CASE WriteLineFails
  BY <1>0, <1>3 DEF WriteLineFails, LogShape, Undisturbed
<1>4. CASE WriteEnd
  <2>1. /\ logging' = Nothing /\ file' = Append(file, LineEnd)
        /\ UNCHANGED <<lagged, unwritten, unended>>
    BY <1>4 DEF WriteEnd, channel
  <2>2. ASSUME WholeLines(file, logging # Nothing) PROVE WholeLines(file', FALSE)
    BY <1>0, <2>1, <2>2, LinesEnded
  <2> QED BY <2>1, <2>2 DEF LogShape, Undisturbed
<1>5. CASE WriteEndFails
  BY <1>0, <1>5 DEF WriteEndFails, LogShape, Undisturbed
<1>6. CASE ReadLine
  <2>1. UNCHANGED <<logging, lagged, unwritten, unended>>
    BY <1>6 DEF ReadLine, channel
  <2> DEFINE w == logging # Nothing
  <2> HIDE DEF w
  <2>2. ASSUME WholeLines(file, w) PROVE WholeLines(file', w)
    <3>1. w \in BOOLEAN /\ file # <<>>
      BY <1>6 DEF w, ReadLine
    <3>2. WholeLines(Tail(file), w) /\ Tail(file) \in Seq(Pieces)
      BY <1>0, <2>2, <3>1, LinesRead, Tails
    <3>3. Len(file) >= 2 => WholeLines(Tail(Tail(file)), w)
      BY <1>0, <3>1, <3>2, LinesRead, Tails
    <3>4. ~(\E i \in 1 .. Len(file) : file[i] = Torn)
      BY <2>2 DEF WholeLines
    <3>5. Len(file) >= 2 => file[1] = LineEnd \/ file[2] = LineEnd
      <4>1. Len(file) \in Nat
        BY <1>0
      <4>2. Len(file) >= 2 => 1 \in 1 .. Len(file) - 1
        BY <4>1
      <4> QED BY <2>2, <4>2 DEF WholeLines
    <3> QED BY <1>6, <3>2, <3>3, <3>4, <3>5, LineRead
  <2> QED BY <2>1, <2>2 DEF LogShape, Undisturbed, w
<1>7. CASE \/ ViewTick \/ (\E m \in Modes : HeartbeatMode(m)) \/ HeartbeatChange
           \/ UNCHANGED viewVars
  BY <1>7, QuietStep DEF LogShape, Undisturbed
<1> QED BY <1>1, <1>2, <1>3, <1>4, <1>5, <1>6, <1>7 DEF ViewNext, Logger

\* Every step keeps the stamps in order.
LEMMA StampsStep ==
  ViewTypeOK /\ StampsGrow /\ [ViewNext]_viewVars => StampsGrow'
<1> SUFFICES ASSUME ViewTypeOK, StampsGrow, [ViewNext]_viewVars
             PROVE  StampsGrow'
  OBVIOUS
<1>0. /\ now \in Nat /\ last_heartbeat \in Nat /\ mode_changed_at \in Nat
      /\ watchdog.mode_change \in Nat
      /\ watchdog \in [pc : {"idle", "change", "first", "mode"}, seen : BOOLEAN,
                       up : BOOLEAN, mode_change : Nat]
  BY DEF ViewTypeOK
<1>1. ASSUME NEW m \in Modes, HeartbeatMode(m)
      PROVE  StampsGrow'
  <2>1. /\ last_heartbeat' = now /\ now > last_heartbeat
        /\ recording'.at = now
        /\ UNCHANGED <<mode_changed_at, watchdog>>
    BY <1>0, <1>1, ViewAssumption DEF HeartbeatMode
  <2> QED BY <1>0, <2>1 DEF StampsGrow
<1>2. CASE HeartbeatChange
  <2>1. recording \in [at : Nat, changed : BOOLEAN]
    BY <1>2 DEF HeartbeatChange, ViewTypeOK
  <2> QED BY <1>0, <1>2, <2>1 DEF HeartbeatChange, StampsGrow
<1>3. CASE Poll
  <2>1. watchdog'.mode_change = watchdog.mode_change
        /\ UNCHANGED <<last_heartbeat, mode_changed_at, recording>>
    BY <1>0, <1>3 DEF Poll, monitor
  <2> QED BY <2>1 DEF StampsGrow
<1>4. CASE PollChange
  <2>1. watchdog'.mode_change \in {watchdog.mode_change, mode_changed_at}
        /\ UNCHANGED <<last_heartbeat, mode_changed_at, recording>>
    BY <1>0, <1>4 DEF PollChange, monitor
  <2> QED BY <1>0, <2>1 DEF StampsGrow
<1>5. CASE PollFirst \/ PollMode
  <2>1. watchdog'.mode_change = watchdog.mode_change
        /\ UNCHANGED <<last_heartbeat, mode_changed_at, recording>>
    BY <1>0, <1>5 DEF PollFirst, PollMode, monitor
  <2> QED BY <2>1 DEF StampsGrow
<1>6. CASE \/ ViewTick \/ (\E s \in States : Transition(s)) \/ Logger \/ ReadLine
           \/ UNCHANGED viewVars
  BY <1>6 DEF ViewTick, Transition, Logger, WriteLine, WriteLineFails, WriteEnd,
     WriteEndFails, ReadLine, viewVars, monitor, StampsGrow
<1> QED BY <1>1, <1>2, <1>3, <1>4, <1>5, <1>6 DEF ViewNext, Watchdog

\* What was said stays said: when it is written to the log without a failure,
LEMMA LoggerCarries ==
  ASSUME ViewTypeOK, Logger, Undisturbed',
         NEW S \in SUBSET Events, NEW G \in SUBSET S, NEW b,
         Undisturbed => Said(S, G, events, file, b)
  PROVE  Said(S, G, events', file', b)
<1>0. /\ events \in Seq(Events) /\ file \in Seq(Pieces)
      /\ unwritten \in Nat /\ unended \in Nat
  BY DEF ViewTypeOK
<1>1. CASE WriteLine
  <2>1. /\ events # <<>> /\ events' = Tail(events)
        /\ file' = Append(file, Head(events)) /\ Undisturbed
    BY <1>1 DEF WriteLine, TakeEvent, Undisturbed
  <2> QED BY <1>0, <2>1, SaidWritten
<1>2. CASE WriteEnd
  <2>1. /\ events' = events /\ file' = Append(file, LineEnd) /\ Undisturbed
    BY <1>2 DEF WriteEnd, channel, Undisturbed
  <2>2. LineEnd \in Pieces /\ LineEnd \notin S
    BY EventTypes DEF Pieces
  <2> QED BY <1>0, <2>1, <2>2, SaidEnded
<1>3. CASE WriteLineFails \/ WriteEndFails
  BY <1>0, <1>3 DEF WriteLineFails, WriteEndFails, Undisturbed
<1> QED BY <1>1, <1>2, <1>3 DEF Logger

\* and when the dashboard reads it, if it shows what it reads.
LEMMA ReaderCarries ==
  ASSUME ViewTypeOK, LogShape, ReadLine, Undisturbed',
         NEW S \in SUBSET Events, NEW G \in SUBSET S,
         NEW b \in BOOLEAN, NEW c \in BOOLEAN,
         snap' = snap /\ b => c,
         \A e \in Events : snap' = Applied(e) =>
            /\ e \in G => c
            /\ e \notin S /\ b => c,
         Undisturbed => Said(S, G, events, file, b)
  PROVE  Said(S, G, events', file', c)
<1>0. /\ events \in Seq(Events) /\ file \in Seq(Pieces) /\ file # <<>>
      /\ events' = events /\ Undisturbed
  BY DEF ViewTypeOK, ReadLine, channel, Undisturbed
<1>1. /\ Tail(file) \in Seq(Pieces) /\ Head(file) = file[1]
      /\ Len(file) \in Nat
      /\ Len(file) >= 2 => Tail(file) # <<>> /\ Tail(file)[1] = file[2]
  BY <1>0, Tails
<1>2. LineEnd \notin S
  BY EventTypes
<1>3. CASE file[1] = LineEnd /\ file' = Tail(file) /\ snap' = snap
  <2>1. /\ Head(file) \in G => c
        /\ Head(file) \notin S /\ b => c
    BY <1>1, <1>2, <1>3
  <2> QED BY <1>0, <1>3, <2>1, SaidRead
<1>4. CASE /\ file[1] \in Events
           /\ snap' = Applied(file[1])
           /\ \/ Len(file) = 1 /\ file' = <<>> /\ Tail(file) = <<>>
              \/ Len(file) >= 2 /\ file[2] = LineEnd /\ file' = Tail(Tail(file))
  <2>1. /\ Head(file) \in G => c
        /\ Head(file) \notin S /\ b => c
    BY <1>1, <1>4
  <2>2. Said(S, G, events, Tail(file), c)
    BY <1>0, <2>1, SaidRead
  <2>3. CASE Len(file) >= 2 /\ file[2] = LineEnd /\ file' = Tail(Tail(file))
    <3> DEFINE t == Tail(file)
    <3>1. t \in Seq(Pieces) /\ t # <<>> /\ t[1] = LineEnd
      BY <1>1, <2>3
    <3>2. Head(t) = LineEnd
      BY <3>1, Tails
    <3>3. /\ Head(t) \in G => c
          /\ Head(t) \notin S /\ c => c
      BY <1>2, <3>2
    <3> HIDE DEF t
    <3>4. Said(S, G, events, Tail(t), c)
      BY <1>0, <2>2, <3>1, <3>3, SaidRead DEF t
    <3> QED BY <1>0, <2>3, <3>4 DEF t
  <2> QED BY <1>0, <1>4, <2>2, <2>3
<1>5. ~(\E i \in 1 .. Len(file) : file[i] = Torn)
      /\ ~(Len(file) >= 2 /\ file[1] # LineEnd /\ file[2] # LineEnd)
  <2>1. Len(file) >= 2 => 1 \in 1 .. Len(file) - 1
    BY <1>1
  <2> QED BY <1>0, <2>1 DEF LogShape, WholeLines
<1> QED BY <1>3, <1>4, <1>5, LineRead

\* and when something else is sent; what is sent now is said.
LEMMA SenderCarries ==
  ASSUME ViewTypeOK, NEW x \in Events, Send(x), Undisturbed',
         UNCHANGED <<file, unwritten, unended>>,
         NEW S \in SUBSET Events, NEW G \in SUBSET S, NEW b
  PROVE  /\ Undisturbed
         /\ x \in G => Said(S, G, events', file', b)
         /\ x \notin S /\ Said(S, G, events, file, b) => Said(S, G, events', file', b)
<1>1. Undisturbed /\ events' = Append(events, x)
  BY Sent DEF Undisturbed
<1>2. events \in Seq(Events) /\ file \in Seq(Pieces)
  BY DEF ViewTypeOK
<1> QED BY <1>1, <1>2, SaidSent

\* The links and the modes are events.
LEMMA Speakers ==
  /\ LinkEvents \in SUBSET Events /\ ModeEvents \in SUBSET Events
  /\ \A up \in BOOLEAN : LinkSays(up) \in SUBSET LinkEvents
  /\ \A m \in Modes : ModeSays(m) \in SUBSET ModeEvents
BY DEF LinkEvents, ModeEvents, LinkSays, ModeSays

\* Every step keeps what the operator is told of the link.
LEMMA LinkStep ==
  ViewTypeOK /\ LogShape /\ FirstReport /\ LinkTold /\ [ViewNext]_viewVars
    => LinkTold'
<1> SUFFICES ASSUME ViewTypeOK, LogShape, FirstReport, LinkTold,
                    [ViewNext]_viewVars, watchdog'.seen, Undisturbed'
             PROVE  LinkSaid(watchdog.up)'
  BY DEF LinkTold
<1> DEFINE L == LinkEvents
           Y(up) == LinkSays(up)
           Shows(up, link) == link = IF up THEN "Up" ELSE "Down"
           u == watchdog'.up
<1>0. /\ L \in SUBSET Events /\ (\A up \in BOOLEAN : Y(up) \in SUBSET L)
      /\ watchdog \in [pc : {"idle", "change", "first", "mode"}, seen : BOOLEAN,
                       up : BOOLEAN, mode_change : Nat]
      /\ watchdog.up \in BOOLEAN
  BY Speakers DEF ViewTypeOK
<1>1. LinkSaid(watchdog.up) =>
        Said(L, Y(watchdog.up), events, file, Shows(watchdog.up, snap.link))
  BY DEF LinkSaid
<1>2. Said(L, Y(u), events', file', Shows(u, snap'.link)) => LinkSaid(watchdog.up)'
  BY DEF LinkSaid
<1>3. \A up \in BOOLEAN : \A link : Shows(up, link) \in BOOLEAN
  OBVIOUS
<1>4. \A up \in BOOLEAN, e \in Events :
        /\ e \in Y(up) => Shows(up, Applied(e).link)
        /\ e \notin L /\ Shows(up, snap.link) => Shows(up, Applied(e).link)
  BY SnapApplied
<1> HIDE DEF L, Y, Shows, u
<1> SUFFICES Said(L, Y(u), events', file', Shows(u, snap'.link))
  BY <1>2
<1>5. ASSUME watchdog.seen, u = watchdog.up, Undisturbed
      PROVE  u \in BOOLEAN /\ Said(L, Y(u), events, file, Shows(u, snap.link))
  BY <1>0, <1>1, <1>5 DEF LinkTold
\* An event that says how the link is, or one that says nothing of it.
<1>6. ASSUME NEW x \in Events, Send(x), u \in BOOLEAN,
             UNCHANGED <<file, unwritten, unended, snap>>,
             x \in Y(u) \/ (x \notin L /\ watchdog.seen /\ u = watchdog.up)
      PROVE  Said(L, Y(u), events', file', Shows(u, snap'.link))
  <2>1. Y(u) \in SUBSET L /\ snap'.link = snap.link
    BY <1>0, <1>6
  <2> DEFINE b == Shows(u, snap.link)
  <2> HIDE DEF b
  <2>2. /\ Undisturbed
        /\ x \in Y(u) => Said(L, Y(u), events', file', b)
        /\ x \notin L /\ Said(L, Y(u), events, file, b)
             => Said(L, Y(u), events', file', b)
    BY <1>0, <1>6, <2>1, SenderCarries
  <2> QED BY <1>5, <1>6, <2>1, <2>2 DEF b
<1>7. ASSUME watchdog.seen, u = watchdog.up,
             UNCHANGED <<events, lagged, file, unwritten, unended, snap>>
      PROVE  Said(L, Y(u), events', file', Shows(u, snap'.link))
  <2>1. Undisturbed
    BY <1>7 DEF Undisturbed
  <2> QED BY <1>5, <1>7, <2>1
<1>8. CASE Watchdog
  <2>1. UNCHANGED <<file, unwritten, unended, snap>>
    BY <1>8 DEF Watchdog, Poll, PollChange, PollFirst, PollMode, log
  <2>2. CASE Poll
    <3> DEFINE up == HeartbeatFresh
    <3>1. up \in BOOLEAN
      BY DEF HeartbeatFresh
    <3>2. u = up /\ watchdog.seen
          /\ IF up # watchdog.up THEN Send(LinkEvent(up)) ELSE UNCHANGED channel
      BY <1>0, <2>2 DEF Poll, u
    <3> HIDE DEF up
    <3>3. CASE up # watchdog.up
      <4>1. LinkEvent(up) \in Events /\ LinkEvent(up) \in Y(up)
        BY <3>1, EventTypes DEF Y
      <4> QED BY <1>6, <2>1, <3>1, <3>2, <3>3, <4>1
    <3> QED BY <1>7, <2>1, <3>2, <3>3 DEF channel
  <2>3. CASE PollChange
    BY <1>0, <1>7, <2>1, <2>3 DEF PollChange, channel, u
  <2>4. CASE PollFirst
    <3>1. u = TRUE /\ Send(LinkEvent(TRUE))
      BY <1>0, <2>4 DEF PollFirst, FirstReport, u
    <3>2. LinkEvent(TRUE) \in Events /\ LinkEvent(TRUE) \in Y(TRUE)
      BY EventTypes DEF Y
    <3> QED BY <1>6, <2>1, <3>1, <3>2
  <2>5. CASE PollMode
    <3>1. u = watchdog.up /\ watchdog.seen /\ Send(ModeEvent)
      BY <1>0, <2>5 DEF PollMode, u
    <3>2. ModeEvent \in Events /\ ModeEvent \notin L
      BY EventTypes DEF L
    <3> QED BY <1>0, <1>6, <2>1, <3>1, <3>2
  <2> QED BY <1>8, <2>2, <2>3, <2>4, <2>5 DEF Watchdog
<1>9. ASSUME NEW s \in States, Transition(s)
      PROVE  Said(L, Y(u), events', file', Shows(u, snap'.link))
  <2>1. /\ u = watchdog.up /\ watchdog.seen /\ Send(TransitionEvent(s))
        /\ UNCHANGED <<file, unwritten, unended, snap>>
    BY <1>9 DEF Transition, log, u
  <2>2. TransitionEvent(s) \in Events /\ TransitionEvent(s) \notin L
    BY EventTypes DEF L
  <2> QED BY <1>0, <1>6, <2>1, <2>2
<1>10. CASE Logger
  <2>1. u = watchdog.up /\ watchdog.seen /\ snap' = snap
    BY <1>10 DEF Logger, WriteLine, WriteLineFails, WriteEnd, WriteEndFails, u
  <2> DEFINE b == Shows(u, snap.link)
  <2> HIDE DEF b
  <2>2. Undisturbed => Said(L, Y(u), events, file, b)
    BY <1>5, <2>1 DEF b
  <2>3. Y(u) \in SUBSET L
    BY <1>0, <2>1
  <2>4. Said(L, Y(u), events', file', b)
    BY <1>0, <1>10, <2>2, <2>3, LoggerCarries
  <2> QED BY <2>1, <2>4 DEF b
<1>11. CASE ReadLine
  <2>1. u = watchdog.up /\ watchdog.seen /\ u \in BOOLEAN
    BY <1>0, <1>11 DEF ReadLine, u
  <2> DEFINE b == Shows(u, snap.link)
             c == Shows(u, snap'.link)
  <2>2. Undisturbed => Said(L, Y(u), events, file, b)
    BY <1>5, <2>1
  <2>3. Y(u) \in SUBSET L /\ b \in BOOLEAN /\ c \in BOOLEAN
    BY <1>0, <1>3, <2>1
  <2>4. snap' = snap /\ b => c
    OBVIOUS
  <2>5. \A e \in Events : snap' = Applied(e) =>
          /\ e \in Y(u) => c
          /\ e \notin L /\ b => c
    BY <1>4, <2>1
  <2> HIDE DEF b, c
  <2>6. Said(L, Y(u), events', file', c)
    BY <1>0, <1>11, <2>2, <2>3, <2>4, <2>5, ReaderCarries
  <2> QED BY <2>6 DEF c
<1>12. CASE \/ ViewTick \/ (\E m \in Modes : HeartbeatMode(m)) \/ HeartbeatChange
            \/ UNCHANGED viewVars
  BY <1>7, <1>12, QuietStep DEF u
<1> QED BY <1>8, <1>9, <1>10, <1>11, <1>12 DEF ViewNext

\* Every step keeps what holds until the first report.
LEMMA FirstStep ==
  ViewTypeOK /\ LogShape /\ FirstReport /\ [ViewNext]_viewVars => FirstReport'
<1> SUFFICES ASSUME ViewTypeOK, LogShape, FirstReport, [ViewNext]_viewVars
             PROVE  FirstReport'
  OBVIOUS
<1> DEFINE K == ModeEvents
           Order(w) == /\ w.pc = "first" => ~w.seen
                       /\ ~w.seen => /\ w.pc # "mode"
                                     /\ w.pc # "idle" => w.up
<1>0. /\ K \in SUBSET Events /\ {} \in SUBSET K
      /\ watchdog \in [pc : {"idle", "change", "first", "mode"}, seen : BOOLEAN,
                       up : BOOLEAN, mode_change : Nat]
  BY Speakers DEF ViewTypeOK
<1>1. /\ Order(watchdog)
      /\ ~watchdog.seen /\ Undisturbed =>
           Said(K, {}, events, file, snap.mode = Nothing)
  BY DEF FirstReport, NoModeSaid
<1>2. /\ Order(watchdog')
      /\ ~watchdog'.seen /\ Undisturbed' =>
           Said(K, {}, events', file', snap'.mode = Nothing)
      => FirstReport'
  BY DEF FirstReport, NoModeSaid
<1>3. \A e \in Events : e \notin K => Applied(e).mode = snap.mode
  BY SnapApplied
<1> HIDE DEF K
<1>4. ASSUME Order(watchdog'), ~watchdog'.seen => ~watchdog.seen,
             ~watchdog'.seen => UNCHANGED <<events, lagged>>,
             UNCHANGED <<file, unwritten, unended, snap>>
      PROVE  FirstReport'
  BY <1>1, <1>2, <1>4 DEF Undisturbed
<1>5. CASE Watchdog
  <2>1. UNCHANGED <<file, unwritten, unended, snap>>
    BY <1>5 DEF Watchdog, Poll, PollChange, PollFirst, PollMode, log
  <2>2. CASE Poll
    <3>1. HeartbeatFresh \in BOOLEAN
      BY DEF HeartbeatFresh
    <3>2. /\ watchdog'.seen = watchdog.seen /\ watchdog'.up = HeartbeatFresh
          /\ watchdog'.pc = IF watchdog.seen \/ HeartbeatFresh THEN "change"
                            ELSE "idle"
          /\ ~watchdog.seen => UNCHANGED channel
      BY <1>0, <2>2 DEF Poll
    <3> QED BY <1>4, <2>1, <3>1, <3>2 DEF channel
  <2>3. CASE PollChange
    <3>1. /\ watchdog'.seen = watchdog.seen /\ watchdog'.up = watchdog.up
          /\ watchdog.pc = "change"
          /\ watchdog'.pc \in IF watchdog.seen THEN {"idle", "mode"} ELSE {"first"}
          /\ UNCHANGED channel
      BY <1>0, <2>3 DEF PollChange
    <3> QED BY <1>1, <1>4, <2>1, <3>1 DEF channel
  <2>4. CASE PollFirst
    <3>1. watchdog'.seen = TRUE /\ watchdog'.pc = "idle"
      BY <1>0, <2>4 DEF PollFirst
    <3> QED BY <1>4, <2>1, <3>1
  <2>5. CASE PollMode
    <3>1. watchdog'.seen = TRUE /\ watchdog'.pc = "idle"
      BY <1>0, <1>1, <2>5 DEF PollMode
    <3> QED BY <1>4, <2>1, <3>1
  <2> QED BY <1>5, <2>2, <2>3, <2>4, <2>5 DEF Watchdog
<1>6. ASSUME watchdog' = watchdog,
             ASSUME ~watchdog.seen, Undisturbed'
             PROVE  Said(K, {}, events', file', snap'.mode = Nothing)
      PROVE  FirstReport'
  <2>1. ~watchdog'.seen /\ Undisturbed' =>
          Said(K, {}, events', file', snap'.mode = Nothing)
    BY <1>6
  <2> QED BY <1>1, <1>2, <1>6, <2>1
<1>7. ASSUME NEW s \in States, Transition(s)
      PROVE  FirstReport'
  <2>1. /\ watchdog' = watchdog /\ Send(TransitionEvent(s))
        /\ UNCHANGED <<file, unwritten, unended, snap>>
    BY <1>7 DEF Transition, log
  <2>2. TransitionEvent(s) \in Events /\ TransitionEvent(s) \notin K
    BY EventTypes DEF K
  <2>3. ASSUME ~watchdog.seen, Undisturbed'
        PROVE  Said(K, {}, events', file', snap'.mode = Nothing)
    <3> DEFINE b == snap.mode = Nothing
    <3> HIDE DEF b
    <3>1. /\ Undisturbed
          /\ Said(K, {}, events, file, b) => Said(K, {}, events', file', b)
      BY <1>0, <2>1, <2>2, <2>3, SenderCarries
    <3> QED BY <1>1, <2>1, <2>3, <3>1 DEF b
  <2> QED BY <1>6, <2>1, <2>3
<1>8. CASE Logger
  <2>1. watchdog' = watchdog /\ snap' = snap
    BY <1>8 DEF Logger, WriteLine, WriteLineFails, WriteEnd, WriteEndFails
  <2>2. ASSUME ~watchdog.seen, Undisturbed'
        PROVE  Said(K, {}, events', file', snap'.mode = Nothing)
    <3> DEFINE b == snap.mode = Nothing
    <3> HIDE DEF b
    <3>1. Undisturbed => Said(K, {}, events, file, b)
      BY <1>1, <2>2 DEF b
    <3>2. Said(K, {}, events', file', b)
      BY <1>0, <1>8, <2>2, <3>1, LoggerCarries
    <3> QED BY <2>1, <3>2 DEF b
  <2> QED BY <1>6, <2>1, <2>2
<1>9. CASE ReadLine
  <2>1. watchdog' = watchdog
    BY <1>9 DEF ReadLine
  <2>2. ASSUME ~watchdog.seen, Undisturbed'
        PROVE  Said(K, {}, events', file', snap'.mode = Nothing)
    <3> DEFINE b == snap.mode = Nothing
               c == snap'.mode = Nothing
    <3>1. Undisturbed => Said(K, {}, events, file, b)
      BY <1>1, <2>2
    <3>2. b \in BOOLEAN /\ c \in BOOLEAN /\ (snap' = snap /\ b => c)
      OBVIOUS
    <3>3. \A e \in Events : snap' = Applied(e) =>
            /\ e \in {} => c
            /\ e \notin K /\ b => c
      BY <1>3
    <3> HIDE DEF b, c
    <3>4. Said(K, {}, events', file', c)
      BY <1>0, <1>9, <2>2, <3>1, <3>2, <3>3, ReaderCarries
    <3> QED BY <3>4 DEF c
  <2> QED BY <1>6, <2>1, <2>2
<1>10. CASE \/ ViewTick \/ (\E m \in Modes : HeartbeatMode(m)) \/ HeartbeatChange
            \/ UNCHANGED viewVars
  BY <1>1, <1>4, <1>10, QuietStep
<1> QED BY <1>5, <1>7, <1>8, <1>9, <1>10 DEF ViewNext

\* Every step keeps what the operator is told of the mode.
LEMMA ModeStep ==
  /\ ViewTypeOK /\ LogShape /\ StampsGrow /\ FirstReport /\ ModeTold
  /\ [ViewNext]_viewVars
  => ModeTold'
<1> SUFFICES ASSUME ViewTypeOK, LogShape, StampsGrow, FirstReport, ModeTold,
                    [ViewNext]_viewVars, watchdog'.seen, Undisturbed', ModeStands'
             PROVE  ModeSaid(mode)'
  BY DEF ModeTold
<1> DEFINE K == ModeEvents
           Y(m) == ModeSays(m)
           Shows(m, shown, first) == shown = m \/ (shown = Nothing /\ first = m)
           n == mode'
<1>0. /\ K \in SUBSET Events /\ (\A m \in Modes : Y(m) \in SUBSET K)
      /\ watchdog \in [pc : {"idle", "change", "first", "mode"}, seen : BOOLEAN,
                       up : BOOLEAN, mode_change : Nat]
      /\ mode \in Modes
  BY Speakers DEF ViewTypeOK
<1>1. ModeSaid(mode) =>
        Said(K, Y(mode), events, file, Shows(mode, snap.mode, first_mode))
  BY DEF ModeSaid
<1>2. Said(K, Y(n), events', file', Shows(n, snap'.mode, first_mode'))
        => ModeSaid(mode)'
  BY DEF ModeSaid
<1>3. \A m \in Modes : \A shown, first : Shows(m, shown, first) \in BOOLEAN
  OBVIOUS
<1>4. \A m \in Modes, e \in Events : \A first :
        /\ e \in Y(m) => Shows(m, Applied(e).mode, first)
        /\ e \notin K /\ Shows(m, snap.mode, first)
             => Shows(m, Applied(e).mode, first)
  BY SnapApplied
<1> HIDE DEF K, Y, n
<1> SUFFICES Said(K, Y(n), events', file', Shows(n, snap'.mode, first_mode'))
  BY <1>2
<1>5. ASSUME watchdog.seen, n = mode, Undisturbed, ModeStands
      PROVE  Said(K, Y(n), events, file, Shows(n, snap.mode, first_mode))
  BY <1>1, <1>5 DEF ModeTold
\* An event that says the mode, or one that says nothing of it.
<1>6. ASSUME NEW x \in Events, Send(x), n = mode,
             UNCHANGED <<file, unwritten, unended, snap>>,
             \/ x \in Y(n)
             \/ /\ x \notin K
                /\ Undisturbed => Said(K, Y(n), events, file,
                                       Shows(n, snap.mode, first_mode'))
      PROVE  Said(K, Y(n), events', file', Shows(n, snap'.mode, first_mode'))
  <2>1. Y(n) \in SUBSET K /\ snap'.mode = snap.mode
    BY <1>0, <1>6
  <2> DEFINE b == Shows(n, snap.mode, first_mode')
  <2> HIDE DEF b, Shows
  <2>2. /\ Undisturbed
        /\ x \in Y(n) => Said(K, Y(n), events', file', b)
        /\ x \notin K /\ Said(K, Y(n), events, file, b)
             => Said(K, Y(n), events', file', b)
    BY <1>0, <1>6, <2>1, SenderCarries
  <2> QED BY <1>6, <2>1, <2>2 DEF b
<1>7. ASSUME watchdog.seen, n = mode, ModeStands,
             UNCHANGED <<events, lagged, file, unwritten, unended, snap, first_mode>>
      PROVE  Said(K, Y(n), events', file', Shows(n, snap'.mode, first_mode'))
  <2>1. Undisturbed
    BY <1>7 DEF Undisturbed
  <2> HIDE DEF Shows
  <2> QED BY <1>5, <1>7, <2>1
<1> HIDE DEF Shows
<1>8. CASE Watchdog
  <2>1. UNCHANGED <<file, unwritten, unended, snap, mode, mode_changed_at, recording>>
        /\ n = mode
    BY <1>8 DEF Watchdog, Poll, PollChange, PollFirst, PollMode, log, monitor, n
  <2>2. CASE Poll
    <3>1. /\ HeartbeatFresh \in BOOLEAN
          /\ watchdog.pc = "idle" /\ watchdog'.mode_change = watchdog.mode_change
          /\ watchdog.seen /\ UNCHANGED first_mode
          /\ UNCHANGED channel \/ Send(LinkEvent(HeartbeatFresh))
      BY <1>0, <2>2 DEF Poll, HeartbeatFresh
    <3>2. ModeStands
      BY <2>1, <3>1 DEF ModeStands
    <3>3. LinkEvent(HeartbeatFresh) \in Events /\ LinkEvent(HeartbeatFresh) \notin K
      BY <3>1, EventTypes DEF K
    <3> QED BY <1>5, <1>6, <1>7, <2>1, <3>1, <3>2, <3>3 DEF channel
  <2>3. CASE PollChange
    <3>1. /\ watchdog.pc = "change" /\ watchdog.seen
          /\ mode_changed_at <= watchdog.mode_change
          /\ UNCHANGED <<channel, first_mode>>
      BY <1>0, <2>3 DEF PollChange, ModeStands
    <3>2. ModeStands
      BY <2>1, <3>1 DEF ModeStands
    <3> QED BY <1>7, <2>1, <3>1, <3>2 DEF channel
  <2>4. CASE PollFirst
    <3>1. /\ first_mode' = n /\ Send(LinkEvent(TRUE)) /\ ~watchdog.seen
      BY <1>0, <2>1, <2>4 DEF PollFirst, FirstReport
    <3>2. LinkEvent(TRUE) \in Events /\ LinkEvent(TRUE) \notin K
      BY EventTypes DEF K
    <3>3. ASSUME Undisturbed
          PROVE  Said(K, Y(n), events, file, Shows(n, snap.mode, first_mode'))
      <4>1. Said(K, {}, events, file, snap.mode = Nothing)
        BY <3>1, <3>3 DEF FirstReport, NoModeSaid, K
      <4>2. Without(events, K) /\ Without(file, K) /\ snap.mode = Nothing
        BY <4>1 DEF Said, EndsWith
      <4> QED BY <3>1, <4>2 DEF Said, Shows
    <3> QED BY <1>6, <2>1, <3>1, <3>2, <3>3
  <2>5. CASE PollMode
    <3>1. ModeEvent \in Events /\ ModeEvent \in Y(n) /\ Send(ModeEvent)
      BY <2>1, <2>5, EventTypes DEF PollMode, Y
    <3> QED BY <1>6, <2>1, <3>1
  <2> QED BY <1>8, <2>2, <2>3, <2>4, <2>5 DEF Watchdog
<1>9. ASSUME NEW s \in States, Transition(s)
      PROVE  Said(K, Y(n), events', file', Shows(n, snap'.mode, first_mode'))
  <2>1. /\ UNCHANGED <<watchdog, mode, mode_changed_at, recording, first_mode>>
        /\ n = mode /\ watchdog.seen /\ Send(TransitionEvent(s))
        /\ UNCHANGED <<file, unwritten, unended, snap>>
    BY <1>9 DEF Transition, log, monitor, n
  <2>2. ModeStands
    BY <2>1 DEF ModeStands
  <2>3. TransitionEvent(s) \in Events /\ TransitionEvent(s) \notin K
    BY EventTypes DEF K
  <2> QED BY <1>5, <1>6, <2>1, <2>2, <2>3
<1>10. CASE Logger
  <2>1. /\ UNCHANGED <<watchdog, mode, mode_changed_at, recording, first_mode, snap>>
        /\ n = mode /\ watchdog.seen
    BY <1>10 DEF Logger, WriteLine, WriteLineFails, WriteEnd, WriteEndFails,
       monitor, n
  <2>2. ModeStands
    BY <2>1 DEF ModeStands
  <2> DEFINE b == Shows(n, snap.mode, first_mode)
  <2> HIDE DEF b
  <2>3. Undisturbed => Said(K, Y(n), events, file, b)
    BY <1>5, <2>1, <2>2 DEF b
  <2>4. Y(n) \in SUBSET K
    BY <1>0, <2>1
  <2>5. Said(K, Y(n), events', file', b)
    BY <1>0, <1>10, <2>3, <2>4, LoggerCarries
  <2> QED BY <2>1, <2>5 DEF b
<1>11. CASE ReadLine
  <2>1. /\ UNCHANGED <<watchdog, mode, mode_changed_at, recording, first_mode>>
        /\ n = mode /\ watchdog.seen /\ n \in Modes
    BY <1>0, <1>11 DEF ReadLine, monitor, n
  <2>2. ModeStands
    BY <2>1 DEF ModeStands
  <2> DEFINE b == Shows(n, snap.mode, first_mode)
             c == Shows(n, snap'.mode, first_mode')
  <2>3. Undisturbed => Said(K, Y(n), events, file, b)
    BY <1>5, <2>1, <2>2
  <2>4. Y(n) \in SUBSET K /\ b \in BOOLEAN /\ c \in BOOLEAN
    BY <1>0, <1>3, <2>1
  <2>5. snap' = snap /\ b => c
    BY <2>1
  <2>6. \A e \in Events : snap' = Applied(e) =>
          /\ e \in Y(n) => c
          /\ e \notin K /\ b => c
    BY <1>4, <2>1
  <2> HIDE DEF b, c
  <2>7. Said(K, Y(n), events', file', c)
    BY <1>0, <1>11, <2>3, <2>4, <2>5, <2>6, ReaderCarries
  <2> QED BY <2>7 DEF c
<1>12. ASSUME NEW m \in Modes, HeartbeatMode(m)
       PROVE  Said(K, Y(n), events', file', Shows(n, snap'.mode, first_mode'))
  <2>1. /\ recording = Nothing /\ recording' = [at |-> now, changed |-> m # mode]
        /\ n = m /\ UNCHANGED <<watchdog, mode_changed_at>>
    BY <1>12 DEF HeartbeatMode, n
  <2>2. now \in Nat /\ (m # mode) \in BOOLEAN
    BY DEF ViewTypeOK
  <2>3. recording' # Nothing
    <3>1. recording' \in [at : Nat, changed : BOOLEAN]
      BY <2>1, <2>2
    <3> QED BY <3>1, ViewAssumption
  <2>4. n = mode /\ ModeStands
    BY <2>1, <2>3 DEF ModeStands
  <2> QED BY <1>7, <1>12, <2>1, <2>4, QuietStep
<1>13. CASE HeartbeatChange
  <2>1. /\ recording # Nothing /\ recording \in [at : Nat, changed : BOOLEAN]
        /\ n = mode /\ watchdog' = watchdog
        /\ mode_changed_at' = IF recording.changed THEN recording.at
                              ELSE mode_changed_at
    BY <1>13 DEF HeartbeatChange, ViewTypeOK, n
  <2>2. ~recording.changed
    <3> DEFINE a == recording.at
               mc == watchdog.mode_change
    <3>1. /\ a \in Nat /\ mode_changed_at \in Nat /\ mc \in Nat
          /\ mode_changed_at < a /\ mc <= mode_changed_at
      BY <1>0, <2>1 DEF ViewTypeOK, StampsGrow
    <3>2. recording.changed => a <= mc
      BY <2>1 DEF ModeStands
    <3> HIDE DEF a, mc
    <3>3. ~(a <= mc)
      BY <3>1
    <3> QED BY <3>2, <3>3
  <2>3. ModeStands
    BY <2>1, <2>2 DEF ModeStands
  <2> QED BY <1>7, <1>13, <2>1, <2>3, QuietStep
<1>14. CASE ViewTick \/ UNCHANGED viewVars
  <2>1. /\ UNCHANGED <<watchdog, mode, mode_changed_at, recording>> /\ n = mode
    BY <1>14 DEF ViewTick, viewVars, monitor, n
  <2>2. ModeStands
    BY <2>1 DEF ModeStands
  <2> QED BY <1>7, <1>14, <2>1, <2>2, QuietStep
<1> QED BY <1>8, <1>9, <1>10, <1>11, <1>12, <1>13, <1>14 DEF ViewNext

(***************************************************************************)
(* OperatorView: the theorems.                                             *)
(***************************************************************************)
\* The invariant holds, whatever the autopilot sends, wherever a poll falls
\* between the listener's stores and whichever writes to the log fail.
THEOREM ViewInvariant == ViewSpec => []ViewInv
<1>1. ViewInit => ViewInv
  <2> SUFFICES ASSUME ViewInit PROVE ViewInv
    OBVIOUS
  <2>1. ViewTypeOK
    <3>1. snap \in Snapshots
      BY DEF ViewInit, Snapshots
    <3>2. watchdog \in [pc : {"idle", "change", "first", "mode"}, seen : BOOLEAN,
                       up : BOOLEAN, mode_change : Nat]
      BY DEF ViewInit
    <3>3. Mode0 \in Modes
      BY ViewAssumption
    <3>4. /\ now \in Nat /\ last_heartbeat \in Nat /\ mode \in Modes
          /\ mode_changed_at \in Nat /\ alarms \in Nat /\ unwritten \in Nat
          /\ unended \in Nat /\ lagged \in BOOLEAN
          /\ recording = Nothing /\ logging = Nothing
      BY <3>3 DEF ViewInit
    <3>5. events \in Seq(Events) /\ file \in Seq(Pieces)
      BY DEF ViewInit
    <3> QED BY <3>1, <3>2, <3>4, <3>5 DEF ViewTypeOK
  <2>2. events = <<>> /\ file = <<>> /\ Len(<<>>) = 0
    BY DEF ViewInit
  <2>3. AlarmsIn(events) = {} /\ AlarmsIn(file) = {}
    BY <2>2 DEF AlarmsIn
  <2>4. AlarmCount
    <3>1. /\ Cardinality(AlarmsIn(events)) = 0 /\ Cardinality(AlarmsIn(file)) = 0
          /\ alarms = 0 /\ snap.spoofed = 0
      BY <2>3, FS_EmptySet DEF ViewInit
    <3> QED BY <3>1 DEF AlarmCount
  <2>5. WholeLines(<<>>, logging # Nothing)
    BY DEF WholeLines
  <2>6. LogShape
    BY <2>2, <2>5 DEF LogShape
  <2>7. StampsGrow
    BY DEF StampsGrow, ViewInit
  <2>8. FirstReport
    <3>1. Said(ModeEvents, {}, <<>>, <<>>, snap.mode = Nothing)
      BY DEF Said, Without, ViewInit
    <3> QED BY <2>2, <3>1 DEF FirstReport, NoModeSaid, ViewInit
  <2>9. LinkTold /\ ModeTold
    BY DEF LinkTold, ModeTold, ViewInit
  <2> QED BY <2>1, <2>4, <2>6, <2>7, <2>8, <2>9 DEF ViewInv
<1>2. ViewInv /\ [ViewNext]_viewVars => ViewInv'
  BY ViewTypeStep, AlarmStep, ShapeStep, StampsStep, FirstStep, LinkStep, ModeStep
  DEF ViewInv
<1> QED BY <1>1, <1>2, PTL DEF ViewSpec

\* No alarm is lost without a trace (runtime.rs:177-181, watch/src/main.rs:157-166).
THEOREM AlarmsNotLost == ViewSpec => []AlarmsAccountedFor
<1>1. ViewInv => AlarmsAccountedFor
  <2> SUFFICES ASSUME ViewInv, events = <<>>, file = <<>>, snap.spoofed < alarms
               PROVE  snap.parse_errors > 0 \/ unwritten > 0 \/ lagged
    BY DEF AlarmsAccountedFor
  <2>1. Cardinality(AlarmsIn(<<>>)) = 0
    <3>1. AlarmsIn(<<>>) = {}
      BY DEF AlarmsIn
    <3> QED BY <3>1, FS_EmptySet
  <2>2. alarms \in Nat /\ snap.spoofed \in Nat
    BY DEF ViewInv, ViewTypeOK, Snapshots
  <2> QED BY <2>1, <2>2 DEF ViewInv, AlarmCount
<1> QED BY <1>1, ViewInvariant, PTL

\* Once nothing is on its way, the display shows the link as the watchdog last
\* found it (mav/mod.rs:404-421): the safety half of LinkShown.
THEOREM LinkIsSettled == ViewSpec => []LinkSettled
<1>1. ViewInv => LinkSettled
  <2> SUFFICES ASSUME ViewInv, watchdog.seen, Undisturbed, events = <<>>,
                      file = <<>>
               PROVE  snap.link = IF watchdog.up THEN "Up" ELSE "Down"
    BY DEF LinkSettled
  <2>1. LinkSaid(watchdog.up)
    BY DEF ViewInv, LinkTold
  <2> QED BY <2>1 DEF LinkSaid, Said, EndsWith
<1> QED BY <1>1, ViewInvariant, PTL

\* Once nothing is on its way, the display shows the autopilot's mode
\* (mav/mod.rs:428-432): the safety half of ModeShown.
THEOREM ModeIsSettled == ViewSpec => []ModeSettled
<1>1. ViewInv => ModeSettled
  <2> SUFFICES ASSUME ViewInv, watchdog.seen, Undisturbed, events = <<>>,
                      file = <<>>, ModeStands
               PROVE  snap.mode = mode \/ (snap.mode = Nothing /\ first_mode = mode)
    BY DEF ModeSettled
  <2>1. ModeSaid(mode)
    BY DEF ViewInv, ModeTold
  <2> QED BY <2>1 DEF ModeSaid, Said, EndsWith
<1> QED BY <1>1, ViewInvariant, PTL
=============================================================================
