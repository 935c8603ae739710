------------------------------ MODULE Sandbox ------------------------------
(***************************************************************************)
(* One conversion attempt in the sandbox                                   *)
(* (internal/corpus/conversion/sandbox): the supervisor runs a container   *)
(* that converts and a second one that validates, watches each, tears it   *)
(* down, accounts its CPU, pins the outputs and seals a receipt.  The      *)
(* container runs on its own: its tasks burn CPU, fork, write and die at   *)
(* any time.  The context may end at any time, and then the runtime        *)
(* package calls the teardown from a goroutine of its own, in a race with  *)
(* the supervisor's call.                                                  *)
(***************************************************************************)
EXTENDS Integers, FiniteSets

CONSTANTS
  Budget,          \* Limits.CPUTime, over both phases
  MaxBurn,         \* CPU a phase may burn (bound)
  MaxWrites,       \* writes of the output file (bound)
  CallerDeadline,  \* the caller's context has a deadline of its own
  SlowTeardown,    \* TeardownTime may pass before the teardown ends
  MaxFaults        \* runtime calls, samples and checks that fail (bound)

BudgetAssumption == Budget \in Nat \ {0} /\ MaxBurn \in Nat /\ MaxWrites \in Nat /\ MaxFaults \in Nat

VARIABLES
  attempt,  \* the supervisor: pc, phase, terminal cause, exit status, CPU of the first phase
  context,  \* the processing context
  client,   \* the runtime's client process, cmd
  box,      \* per phase: the container and its tasks, parent cgroup and CPU counter
  reply,    \* what the child wrote to stdout
  td,       \* the teardown of the current phase
  canceller,
  disk, hashed, \* the output file, and the content whose hash the validation child reported
  receipt, scratch, retentions, failures

vars == <<attempt, context, client, box, reply, td, canceller, disk, hashed, receipt, scratch, retentions, failures>>

Phases == {"execute", "validate"}
Tasks == {"leader", "writer"}
Unknown == {"container", "parent", "accounting"}

NoBox == [state |-> "none", tasks |-> {}, parent |-> FALSE, nested |-> FALSE, cpu |-> 0]
NoTeardown == [holder |-> "none", step |-> "idle", bound |-> TRUE, previous |-> "none", sampled |-> 0,
               lost |-> FALSE, retried |-> FALSE, finalized |-> FALSE, failed |-> FALSE]

Init ==
  /\ attempt = [pc |-> "start", phase |-> "execute", terminal |-> "none", exit |-> "none", used |-> 0, ready |-> FALSE]
  /\ context = "live" /\ client = "none" /\ reply = "none" /\ canceller = "idle"
  /\ box = [p \in Phases |-> NoBox]
  /\ td = NoTeardown
  /\ disk = 0 /\ hashed = 0
  /\ receipt = "none" /\ scratch = FALSE /\ retentions = {} /\ failures = 0

Fault == failures < MaxFaults /\ failures' = failures + 1
B == box[attempt.phase]
At(pc) == attempt.pc = pc
Go(pc) == attempt' = [attempt EXCEPT !.pc = pc]
contextFailure == IF context = "cancelled" THEN "CANCELLED" ELSE "TIMEOUT"

\* Close removes the private directory; a task that still writes may make the removal fail.
Close == \E left \in {FALSE, scratch /\ (\E p \in Phases : box[p].tasks # {})} : scratch' = left
failReceipt(cause) == receipt' = cause /\ Close /\ Go("done")

-----------------------------------------------------------------------------
(* Supervisor.Run and runChild, up to the loop. *)

checkTree ==
  /\ At("start") /\ receipt = "none"
  /\ \/ context # "live" /\ failReceipt(contextFailure) /\ UNCHANGED failures
     \/ context = "live" /\ scratch' = TRUE /\ Go("prepare") /\ UNCHANGED <<receipt, failures>>
     \/ context = "live" /\ Fault /\ failReceipt("RESOURCE_LIMIT")
  /\ UNCHANGED <<context, client, box, reply, td, canceller, disk, hashed, retentions>>

cpuBudget == IF attempt.phase = "execute" THEN Budget ELSE Budget - attempt.used

prepare ==
  /\ At("prepare")
  /\ IF cpuBudget <= 0
     THEN failReceipt("RESOURCE_LIMIT") /\ UNCHANGED <<box, failures>>
     ELSE \/ /\ box' = [box EXCEPT ![attempt.phase].parent = TRUE]
             /\ Go("launch") /\ UNCHANGED <<receipt, scratch, failures>>
          \/ Fault /\ failReceipt("EXIT_FAILURE") /\ UNCHANGED box
  /\ UNCHANGED <<context, td, client, reply, canceller, disk, hashed, retentions>>

\* A launch that never started closes by removing the parent cgroup it created.
start ==
  /\ At("launch")
  /\ \/ /\ context = "live" /\ client' = "running" /\ reply' = "none" /\ canceller' = "idle"
        /\ attempt' = [attempt EXCEPT !.pc = "monitor", !.terminal = "none", !.exit = "none", !.ready = FALSE]
        /\ UNCHANGED <<box, receipt, scratch, failures>>
     \/ /\ \/ context # "live" /\ failReceipt(contextFailure) /\ UNCHANGED failures
           \/ context = "live" /\ Fault /\ failReceipt("EXIT_FAILURE")
        /\ box' = [box EXCEPT ![attempt.phase].parent = FALSE]
        /\ UNCHANGED <<client, reply, canceller>>
  /\ UNCHANGED <<context, td, disk, hashed, retentions>>

-----------------------------------------------------------------------------
(* The select loop of runChild. *)

\* A terminal cause makes the loop call the teardown and then wait for the client.
Stop(cause) == attempt' = [attempt EXCEPT !.pc = "terminate", !.terminal = cause]

Waited ==
  /\ At("monitor") /\ client = "exited" /\ Go("confirm")
  /\ UNCHANGED <<context, client, box, reply, td, canceller, disk, hashed, receipt, scratch, retentions, failures>>

ContextDone ==
  /\ At("monitor") /\ context # "live" /\ Stop(contextFailure)
  /\ UNCHANGED <<context, client, box, reply, td, canceller, disk, hashed, receipt, scratch, retentions, failures>>

StartupTimeout ==
  /\ At("monitor") /\ ~attempt.ready /\ Fault
  /\ Stop(IF context = "live" THEN "STARTUP_TIMEOUT" ELSE contextFailure)
  /\ UNCHANGED <<context, client, box, reply, td, canceller, disk, hashed, receipt, scratch, retentions>>

\* The ticker: readiness, a sample of the counters, then the sizes of the output.  A sample
\* waits for a teardown in progress, and after one it returns the final counters.
Sample == IF td.finalized THEN td.sampled ELSE IF B.cpu > td.sampled THEN B.cpu ELSE td.sampled
Tick ==
  /\ At("monitor") /\ td.holder = "none"
  /\ td' = [td EXCEPT !.sampled = Sample]
  /\ \/ /\ Sample > cpuBudget /\ Stop("RESOURCE_LIMIT") /\ UNCHANGED failures
     \/ Fault /\ \E cause \in {"EXIT_FAILURE", "RESOURCE_LIMIT"} : Stop(cause)
     \/ /\ Sample <= cpuBudget
        /\ attempt' = [attempt EXCEPT !.ready = @ \/ B.state = "running" \/ reply # "none"]
        /\ UNCHANGED failures
  /\ UNCHANGED <<context, client, box, reply, canceller, disk, hashed, receipt, scratch, retentions>>

\* After its call of the teardown the loop waits for the client, which the teardown killed.
WaitClient ==
  /\ At("client") /\ client = "exited" /\ Go("confirm")
  /\ UNCHANGED <<context, client, box, reply, td, canceller, disk, hashed, receipt, scratch, retentions, failures>>

-----------------------------------------------------------------------------
(* The container launcher's terminate, called by the loop, by the final    *)
(* confirmation and by the goroutine of the context; a mutex admits one.   *)

CallsTeardown(who) ==
  IF who = "loop" THEN attempt.pc \in {"terminate", "confirm"} ELSE canceller = "calling"

\* What the caller does when the teardown has answered.
Answered(who, failed) ==
  IF who = "context" THEN canceller' = "done" /\ UNCHANGED <<attempt, receipt, scratch>>
  ELSE /\ UNCHANGED canceller
       /\ IF attempt.pc = "terminate"
          THEN /\ attempt' = [attempt EXCEPT !.pc = "client", !.terminal = IF failed THEN "EXIT_FAILURE" ELSE @]
               /\ UNCHANGED <<receipt, scratch>>
          ELSE IF failed THEN failReceipt("EXIT_FAILURE")
               ELSE Go("decide") /\ UNCHANGED <<receipt, scratch>>

watchCtx ==
  /\ canceller = "idle" /\ client = "running" /\ context # "live" /\ canceller' = "calling"
  /\ UNCHANGED <<attempt, context, client, box, reply, td, disk, hashed, receipt, scratch, retentions, failures>>

\* teardownAllowance: the bound starts now, but it never passes the caller's own deadline.
teardownAllowance == context # "caller"

TdBegin(who) ==
  /\ td.holder = "none" /\ CallsTeardown(who)
  /\ IF td.finalized
     THEN Answered(who, td.failed) /\ UNCHANGED td
     ELSE /\ td' = [td EXCEPT !.holder = who, !.step = "kill", !.bound = teardownAllowance, !.sampled = Sample]
          /\ UNCHANGED <<attempt, receipt, scratch, canceller>>
  /\ UNCHANGED <<context, client, box, reply, disk, hashed, retentions, failures>>

\* The teardown leaves the client process alone.
MFinish(failed, reasons) ==
  /\ td' = [td EXCEPT !.holder = "none", !.step = "idle", !.finalized = TRUE, !.failed = failed]
  /\ retentions' = IF reasons = {} THEN retentions ELSE retentions \cup {<<attempt.phase, reasons>>}
  /\ Answered(td.holder, failed) /\ UNCHANGED client

\* Every way out finalizes, kills the client, releases the mutex and answers the caller.
Finish(failed, reasons) ==
  /\ td' = [td EXCEPT !.holder = "none", !.step = "idle", !.finalized = TRUE, !.failed = failed]
  /\ client' = "exited"
  /\ retentions' = IF reasons = {} THEN retentions ELSE retentions \cup {<<attempt.phase, reasons>>}
  /\ Answered(td.holder, failed)

Continue == UNCHANGED <<attempt, client, receipt, scratch, retentions, canceller>>
Unsampled == IF td.lost THEN {"accounting"} ELSE {}
TdAt(step) == td.holder # "none" /\ td.step = step

\* Past the bound the kill is not sent; otherwise it takes effect, finds no container or fails.
TdKill ==
  /\ TdAt("kill")
  /\ \/ /\ td.bound /\ B.state \in {"created", "running"}
        /\ box' = [box EXCEPT ![attempt.phase].state = "exited"] /\ UNCHANGED failures
     \/ Fault /\ UNCHANGED box
     \/ (~td.bound \/ B.state \notin {"created", "running"}) /\ UNCHANGED <<box, failures>>
  /\ td' = [td EXCEPT !.step = "wait"]
  /\ Continue /\ UNCHANGED <<context, reply, disk, hashed>>

\* The exit of the container is taken for the exit of its tasks.
MTdWait ==
  /\ TdAt("wait")
  /\ \/ /\ td.bound /\ B.state = "exited"
        /\ td' = [td EXCEPT !.step = "rm", !.sampled = Sample] /\ Continue /\ UNCHANGED failures
     \/ /\ (~td.bound \/ B.state = "none") /\ UNCHANGED failures
        /\ Finish(TRUE, Unknown)
  /\ UNCHANGED <<context, box, reply, disk, hashed>>

\* wait, not inspect, confirms the exit; it fails at once when there is no such container.
TdWait ==
  /\ TdAt("wait")
  /\ \/ /\ td.bound /\ B.state = "exited"
        /\ td' = [td EXCEPT !.step = "snapshot"] /\ Continue /\ UNCHANGED failures
     \/ /\ (~td.bound \/ B.state = "none") /\ UNCHANGED failures
        /\ Finish(TRUE, Unknown)
     \/ Fault /\ Finish(TRUE, Unknown)
  /\ UNCHANGED <<context, box, reply, disk, hashed>>

\* Two equal empty snapshots in a row, then the final sample.
TdSnapshot ==
  /\ TdAt("snapshot")
  /\ LET dirs == IF B.nested THEN "nested" ELSE "parent" IN
     \/ /\ td.bound /\ B.tasks = {} /\ td.previous = dirs
        /\ \/ td' = [td EXCEPT !.step = "rm", !.sampled = Sample] /\ UNCHANGED failures
           \/ Fault /\ td' = [td EXCEPT !.step = "rm", !.lost = TRUE]
        /\ Continue
     \/ /\ td.bound /\ (B.tasks # {} \/ td.previous # dirs)
        /\ td' = [td EXCEPT !.previous = IF B.tasks = {} THEN dirs ELSE "none"]
        /\ Continue /\ UNCHANGED failures
     \/ ~td.bound /\ Finish(TRUE, Unknown) /\ UNCHANGED failures
     \/ Fault /\ Finish(TRUE, Unknown)
  /\ UNCHANGED <<context, box, reply, disk, hashed>>

\* rm is retried until the bound; a retried removal still fails the attempt.
TdRemove ==
  /\ TdAt("rm")
  /\ \/ /\ td.bound
        /\ \/ /\ box' = [box EXCEPT ![attempt.phase].state = "removed"] /\ UNCHANGED failures
              /\ td' = [td EXCEPT !.step = "parent"]
           \/ Fault /\ td' = [td EXCEPT !.retried = TRUE] /\ UNCHANGED box
        /\ Continue
     \/ /\ ~td.bound /\ UNCHANGED <<box, failures>>
        /\ Finish(TRUE, {"container", "parent"} \cup Unsampled)
  /\ UNCHANGED <<context, reply, disk, hashed>>

\* The owned cgroups, deepest first.  A removal that crosses the bound is still a removal.
TdParent ==
  /\ TdAt("parent")
  /\ \/ /\ td.bound
        /\ \/ /\ \E crossed \in (IF SlowTeardown THEN BOOLEAN ELSE {FALSE}) :
                   Finish(td.lost \/ td.retried \/ crossed, IF crossed THEN {"accounting"} ELSE Unsampled)
              /\ box' = [box EXCEPT ![attempt.phase].parent = FALSE, ![attempt.phase].nested = FALSE]
              /\ UNCHANGED failures
           \/ Fault /\ Finish(TRUE, {"parent"} \cup Unsampled) /\ UNCHANGED box
     \/ ~td.bound /\ Finish(TRUE, {"parent"} \cup Unsampled) /\ UNCHANGED <<box, failures>>
  /\ UNCHANGED <<context, reply, disk, hashed>>

TdStep == TdKill \/ TdWait \/ TdSnapshot \/ TdRemove \/ TdParent

-----------------------------------------------------------------------------
(* The decision of runChild, and the pinning and sealing of Run. *)

\* The order of the checks: the context, the loop's cause, the CPU, the exit, the reply.
Verdict ==
  IF context # "live" THEN contextFailure
  ELSE IF attempt.terminal # "none" THEN attempt.terminal
  ELSE IF td.sampled > cpuBudget THEN "RESOURCE_LIMIT"
  ELSE IF attempt.exit = "failed" \/ reply \in {"none", "garbage"} THEN "EXIT_FAILURE"
  ELSE IF reply = "failure" THEN "UNSAFE_PACKAGE"
  ELSE "none"

decide ==
  /\ At("decide")
  /\ \/ /\ IF Verdict # "none" THEN failReceipt(Verdict) /\ UNCHANGED td
           ELSE /\ attempt' = IF attempt.phase = "execute"
                              THEN [attempt EXCEPT !.pc = "prepare", !.phase = "validate", !.used = td.sampled]
                              ELSE [attempt EXCEPT !.pc = "pin"]
                /\ td' = IF attempt.phase = "execute" THEN NoTeardown ELSE td \* of the next launch
                /\ UNCHANGED <<receipt, scratch>>
        /\ UNCHANGED failures
     \/ Verdict = "none" /\ Fault /\ failReceipt("RESOURCE_LIMIT") /\ UNCHANGED td  \* sizes, files
  /\ UNCHANGED <<context, client, box, reply, canceller, disk, hashed, retentions>>

\* Each output is opened beneath the root, pinned by its inode and hashed again.
pin ==
  /\ At("pin")
  /\ \/ context # "live" /\ failReceipt(contextFailure) /\ UNCHANGED failures
     \/ context = "live" /\ disk # hashed /\ failReceipt("UNSAFE_PACKAGE") /\ UNCHANGED failures
     \/ context = "live" /\ disk = hashed /\ Go("seal") /\ UNCHANGED <<receipt, scratch, failures>>
     \/ context = "live" /\ Fault /\ failReceipt("UNSAFE_PACKAGE")
  /\ UNCHANGED <<context, client, box, reply, td, canceller, disk, hashed, retentions>>

seal ==
  /\ At("seal")
  /\ IF context # "live" THEN failReceipt(contextFailure)
     ELSE receipt' = "complete" /\ Go("done") /\ UNCHANGED scratch
  /\ UNCHANGED <<context, client, box, reply, td, canceller, disk, hashed, retentions, failures>>

-----------------------------------------------------------------------------
(* The runtime, the child and the clock: external. *)

\* The client creates the container and starts its leader, unless it was killed in between.
Create ==
  /\ client = "running" /\ B.state \in {"none", "created"} /\ attempt.pc # "done"
  /\ box' = [box EXCEPT ![attempt.phase].state = IF B.state = "none" THEN "created" ELSE "running",
                        ![attempt.phase].tasks = IF B.state = "none" THEN {} ELSE {"leader"},
                        ![attempt.phase].nested = TRUE]
  /\ UNCHANGED <<attempt, context, client, reply, td, canceller, disk, hashed, receipt, scratch, retentions, failures>>

Burn(p) ==
  /\ box[p].tasks # {} /\ box[p].cpu < MaxBurn /\ box' = [box EXCEPT ![p].cpu = @ + 1]
  /\ UNCHANGED <<attempt, context, client, reply, td, canceller, disk, hashed, receipt, scratch, retentions, failures>>

Fork ==
  /\ box["execute"].state = "running" /\ "leader" \in box["execute"].tasks
  /\ box' = [box EXCEPT !["execute"].tasks = @ \cup {"writer"}]
  /\ UNCHANGED <<attempt, context, client, reply, td, canceller, disk, hashed, receipt, scratch, retentions, failures>>

Write ==
  /\ box["execute"].tasks # {} /\ disk < MaxWrites /\ disk' = disk + 1
  /\ UNCHANGED <<attempt, context, client, box, reply, td, canceller, hashed, receipt, scratch, retentions, failures>>

\* ChildMain: conversion or validation, then one reply on stdout.
ChildMain ==
  /\ "leader" \in B.tasks /\ B.state = "running" /\ reply = "none" /\ attempt.pc # "done"
  /\ \/ reply' = "outputs" /\ hashed' = (IF attempt.phase = "validate" THEN disk ELSE hashed) /\ UNCHANGED failures
     \/ Fault /\ reply' \in {"failure", "garbage"} /\ UNCHANGED hashed
  /\ UNCHANGED <<attempt, context, client, box, td, canceller, disk, receipt, scratch, retentions>>

\* The leader ends, and with it the container; the kernel ends the other tasks a little later.
LeaderExits ==
  /\ "leader" \in B.tasks /\ B.state = "running" /\ attempt.pc # "done"
  /\ \/ reply # "none" /\ UNCHANGED <<attempt, failures>>
     \/ Fault /\ attempt' = [attempt EXCEPT !.exit = "failed"]
  /\ box' = [box EXCEPT ![attempt.phase].state = "exited", ![attempt.phase].tasks = @ \ {"leader"}]
  /\ UNCHANGED <<context, client, reply, td, canceller, disk, hashed, receipt, scratch, retentions>>

TaskDies(p) ==
  /\ box[p].state \in {"exited", "removed"} /\ box[p].tasks # {}
  /\ \E t \in box[p].tasks : box' = [box EXCEPT ![p].tasks = @ \ {t}]
  /\ UNCHANGED <<attempt, context, client, reply, td, canceller, disk, hashed, receipt, scratch, retentions, failures>>

ClientExits ==
  /\ client = "running" /\ B.state = "exited" /\ client' = "exited"
  /\ UNCHANGED <<attempt, context, box, reply, td, canceller, disk, hashed, receipt, scratch, retentions, failures>>

\* WallTime passes, the caller cancels, or the caller's own deadline passes.
ContextEnds(how) ==
  /\ context = "live" /\ attempt.pc # "done" /\ context' = how
  /\ how = "caller" => CallerDeadline
  /\ UNCHANGED <<attempt, client, box, reply, td, canceller, disk, hashed, receipt, scratch, retentions, failures>>

TeardownTime ==
  /\ SlowTeardown /\ td.holder # "none" /\ td.bound /\ td' = [td EXCEPT !.bound = FALSE]
  /\ UNCHANGED <<attempt, context, client, box, reply, canceller, disk, hashed, receipt, scratch, retentions, failures>>

-----------------------------------------------------------------------------
Supervise ==
  \/ checkTree \/ prepare \/ start \/ Waited \/ ContextDone \/ WaitClient \/ decide \/ pin \/ seal
  \/ TdBegin("loop") \/ TdBegin("context") \/ watchCtx \/ TdStep

Next ==
  \/ Supervise \/ StartupTimeout \/ Tick
  \/ Create \/ Fork \/ Write \/ ChildMain \/ LeaderExits \/ ClientExits
  \/ \E p \in Phases : Burn(p) \/ TaskDies(p)
  \/ \E how \in {"timeout", "cancelled", "caller"} : ContextEnds(how)
  \/ TeardownTime

Spec == Init /\ [][Next]_vars

\* The supervisor's own steps happen, WallTime and TeardownTime pass.  Nothing is assumed of
\* the runtime, the child or the caller.
FairSpec == Spec /\ WF_vars(Supervise) /\ WF_vars(ContextEnds("timeout")) /\ WF_vars(TeardownTime)

-----------------------------------------------------------------------------
\* Every variable has its shape.
TypeOK ==
  /\ attempt.pc \in {"start", "prepare", "launch", "monitor", "terminate", "client", "confirm", "decide", "pin", "seal", "done"}
  /\ context \in {"live", "timeout", "cancelled", "caller"}
  /\ client \in {"none", "running", "exited"}
  /\ \A p \in Phases : box[p].tasks \subseteq Tasks /\ box[p].cpu \in 0..MaxBurn
  /\ td.holder \in {"none", "loop", "context"} /\ td.sampled \in 0..MaxBurn
  /\ receipt = "none" <=> attempt.pc # "done"
  /\ disk \in 0..MaxWrites /\ failures \in 0..MaxFaults

\* "A successful leader cannot leave background writers alive during validation": while the
\* validation child runs, and after a receipt is sealed, no task of the conversion is left, and
\* the sealed file is the one whose hash was reported.
SealedIsQuiet ==
  /\ attempt.phase = "validate" => box["execute"].tasks = {}
  /\ receipt = "complete" => disk = hashed /\ \A p \in Phases : box[p].tasks = {}

\* Whatever an attempt leaves behind when Run returns - a task, a container, a cgroup or its
\* scratch directory - is named by one of the receipt's retentions.
Named(p, reason) == \E r \in retentions : r[1] = p /\ reason \in r[2]
LeakNamed ==
  attempt.pc = "done" =>
    /\ \A p \in Phases :
         /\ (box[p].tasks # {} \/ box[p].state \in {"created", "running", "exited"}) => Named(p, "container")
         /\ box[p].parent => Named(p, "parent")
    /\ (receipt # "complete" /\ scratch) => \E p \in Phases : Named(p, "container")

\* Both phases together stay within one CPU budget: what the containers of a sealed attempt
\* really burned, not what a sample happened to see.
BudgetHeld ==
  receipt = "complete" => box["execute"].cpu + box["validate"].cpu <= Budget

\* What an attempt does is contained: no task of the conversion is left while its output is
\* validated or sealed, both phases stay within one CPU budget, and the receipt names what
\* stays behind.
AttemptContained == TypeOK /\ SealedIsQuiet /\ LeakNamed /\ BudgetHeld

\* A teardown that answered without error took its final sample when nothing could burn any more.
FinalSampleExact ==
  td.finalized /\ ~td.failed => td.sampled = box[attempt.phase].cpu

\* Run returns whatever the runtime, the child and the caller do.
RunReturns == <>(attempt.pc = "done")

\* "Run terminates the complete process tree on any cause and waits for the leader."
TreeTerminated == attempt.pc = "done" => \A p \in Phases : box[p].tasks = {}
=============================================================================
