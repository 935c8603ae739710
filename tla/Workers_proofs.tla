---------------------------- MODULE Workers_proofs ----------------------------
(***************************************************************************)
(* Proofs about the processing side, for all constants: the conversion     *)
(* sandbox (Sandbox) and the runners of a corpus build (CorpusRun).        *)
(*                                                                         *)
(* The sandbox: the inductive invariant says what a teardown has           *)
(* established at each of its steps, and that one that answered without    *)
(* error leaves nothing that could run again: the properties follow from   *)
(* where the supervisor gets only behind such a teardown.                  *)
(*                                                                         *)
(* The runners: a fence is granted once, the transaction that writes holds *)
(* the row of the lease under its own fence, and what it read of the       *)
(* stored rows before stays true until it commits.                         *)
(***************************************************************************)
EXTENDS Sandbox, CorpusRun, FiniteSetTheorems, TLAPS

Places == {"start", "prepare", "launch", "monitor", "terminate", "client", "confirm", "decide", "pin", "seal", "done"}
Causes == {"none", "RESOURCE_LIMIT", "EXIT_FAILURE", "CANCELLED", "TIMEOUT", "STARTUP_TIMEOUT", "UNSAFE_PACKAGE"}
Attempts == [pc : Places, phase : Phases, terminal : Causes, exit : {"none", "failed"}, used : 0 .. MaxBurn, ready : BOOLEAN]
Boxes == [state : {"none", "created", "running", "exited", "removed"}, tasks : SUBSET Tasks, parent : BOOLEAN,
          nested : BOOLEAN, cpu : 0 .. MaxBurn]
Steps == {"idle", "kill", "wait", "snapshot", "rm", "parent"}
Teardowns == [holder : {"none", "loop", "context"}, step : Steps, bound : BOOLEAN, previous : {"none", "nested", "parent"},
              sampled : 0 .. MaxBurn, lost : BOOLEAN, retried : BOOLEAN, finalized : BOOLEAN, failed : BOOLEAN]

\* What the variables hold.
TypeInv ==
  /\ attempt \in Attempts
  /\ context \in {"live", "timeout", "cancelled", "caller"}
  /\ client \in {"none", "running", "exited"}
  /\ box \in [Phases -> Boxes]
  /\ reply \in {"none", "outputs", "failure", "garbage"}
  /\ td \in Teardowns
  /\ canceller \in {"idle", "calling", "done"}
  /\ disk \in 0 .. MaxWrites /\ hashed \in 0 .. MaxWrites
  /\ receipt \in Causes \cup {"complete"}
  /\ scratch \in BOOLEAN
  /\ retentions \subseteq Phases \X SUBSET Unknown
  /\ failures \in 0 .. MaxFaults

\* Nothing of the current phase was started, and its teardown was not called.
Unstarted ==
  /\ td = NoTeardown /\ client # "running" /\ canceller = "idle"
  /\ B.state = "none"

\* No container, no task and no cgroup is left of a phase, and none can come back.
Removed(p) == box[p].state = "removed" /\ ~box[p].parent

\* A teardown answered without error, and its final sample is what was burned.
CleanlyDown == td.finalized /\ ~td.failed

\* A task lives in a container that was started and not removed.
BoxInv == \A p \in Phases : box[p].state \in {"none", "created", "removed"} => box[p].tasks = {}

\* Where the supervisor is, and what it knows there.
PlaceInv ==
  /\ attempt.pc \in {"start", "prepare", "launch"} => Unstarted
  /\ attempt.pc \in {"start", "prepare"} => ~B.parent
  /\ attempt.pc \in {"decide", "pin", "seal"} => CleanlyDown
  /\ attempt.pc \in {"pin", "seal"} => attempt.phase = "validate" /\ td.sampled <= cpuBudget
  /\ attempt.pc = "seal" => disk = hashed
  /\ attempt.pc = "client" => td.finalized
  /\ attempt.pc = "done" => td.finalized \/ (Unstarted /\ ~B.parent)
  /\ receipt = "none" <=> attempt.pc # "done"

\* The first phase is down and accounted before the second begins.
PhaseInv ==
  /\ attempt.phase = "execute" => box["validate"] = NoBox
  /\ attempt.phase = "validate" =>
       Removed("execute") /\ attempt.used = box["execute"].cpu /\ attempt.used <= Budget

\* The context ends once, and only then its goroutine calls the teardown.
CancelInv == context = "live" => canceller = "idle"

\* What the teardown established so far.
TeardownInv ==
  /\ td.sampled <= B.cpu
  /\ td.holder = "none" <=> td.step = "idle"
  /\ td.holder # "none" => ~td.finalized /\ attempt.pc \in {"monitor", "terminate", "confirm"}
  /\ td.holder = "loop" => attempt.pc \in {"terminate", "confirm"}
  /\ td.holder = "context" => canceller = "calling"
  /\ td.step = "snapshot" => B.state = "exited"
  /\ td.step = "rm" => B.state = "exited" /\ B.tasks = {}
  /\ td.step = "parent" => B.state = "removed"
  /\ td.step \in {"rm", "parent"} => td.lost \/ td.sampled = B.cpu
  /\ td.finalized =>
       /\ client = "exited"
       /\ td.failed \/ (Removed(attempt.phase) /\ td.sampled = B.cpu)
       /\ B.state \in {"none", "removed"} \/ Named(attempt.phase, "container")
       /\ ~B.parent \/ Named(attempt.phase, "parent")

\* A receipt names what stays, and a complete one has nothing to name.
ReceiptInv ==
  /\ receipt = "complete" =>
       /\ CleanlyDown /\ attempt.phase = "validate" /\ disk = hashed
       /\ td.sampled <= cpuBudget
  /\ LeakNamed

IInv == TypeInv /\ BoxInv /\ PlaceInv /\ PhaseInv /\ CancelInv /\ TeardownInv /\ ReceiptInv

-----------------------------------------------------------------------------
\* Moving on changes where the supervisor is and nothing else of it.
LEMMA Goes ==
  ASSUME TypeInv, NEW where \in Places, Go(where)
  PROVE  /\ attempt' \in Attempts /\ attempt'.pc = where /\ attempt'.phase = attempt.phase
         /\ attempt'.used = attempt.used
BY DEF TypeInv, Attempts, Go

\* The supervisor is at one of its places.
LEMMA PlacesOf == ASSUME TypeInv PROVE attempt.pc \in Places /\ td.step \in Steps
BY DEF TypeInv, Attempts, Teardowns

\* Failures are counted up to the bound.
LEMMA FailuresBounded ==
  ASSUME BudgetAssumption, IInv, Fault \/ UNCHANGED failures
  PROVE  failures' \in 0 .. MaxFaults
BY DEF Fault, IInv, TypeInv, BudgetAssumption

\* The box of the current phase has the fields of a box.
LEMMA BoxTyped ==
  ASSUME TypeInv
  PROVE  /\ attempt.phase \in Phases /\ B \in Boxes
         /\ \A p \in Phases : /\ box[p].state \in {"none", "created", "running", "exited", "removed"}
                              /\ box[p].tasks \subseteq Tasks /\ box[p].parent \in BOOLEAN /\ box[p].cpu \in 0 .. MaxBurn
BY DEF TypeInv, Attempts, Boxes, B

\* Behind a teardown, or before anything was started, what is left is named.
LEMMA LeftIsNamed ==
  ASSUME IInv, td.finalized \/ (Unstarted /\ ~B.parent), NEW p \in Phases
  PROVE  /\ box[p].tasks # {} \/ box[p].state \in {"created", "running", "exited"} => Named(p, "container")
         /\ box[p].parent => Named(p, "parent")
<1>1. CASE p = attempt.phase
  BY <1>1, BoxTyped DEF IInv, BoxInv, TeardownInv, Unstarted, B, Named
<1>2. CASE p # attempt.phase
  <2>1. box[p] = NoBox \/ Removed(p)
    BY <1>2 DEF IInv, PhaseInv, TypeInv, Attempts, Phases
  <2> QED
    BY <2>1 DEF IInv, BoxInv, Removed, NoBox
<1> QED
  BY <1>1, <1>2

\* A failure ends the attempt where nothing runs, or where the teardown named what does.
LEMMA FailureKeeps ==
  ASSUME BudgetAssumption, IInv, NEW cause \in Causes \ {"none"}, failReceipt(cause),
         attempt.pc # "done", td.holder = "none", td.finalized \/ (Unstarted /\ ~B.parent),
         UNCHANGED <<context, client, box, reply, td, canceller, disk, hashed, retentions>>,
         failures' \in 0 .. MaxFaults
  PROVE  IInv'
<1>1. Go("done") /\ receipt' = cause
  BY DEF failReceipt
<1>2. /\ attempt' \in Attempts /\ attempt'.pc = "done" /\ attempt'.phase = attempt.phase
      /\ attempt'.used = attempt.used
  BY <1>1, Goes DEF IInv, Places
<1>3. scratch' \in BOOLEAN /\ (scratch' => \E p \in Phases : box[p].tasks # {})
  BY DEF failReceipt, Close, IInv, TypeInv
<1>4. TypeInv'
  BY <1>1, <1>2, <1>3 DEF IInv, TypeInv
<1>5. BoxInv' /\ CancelInv'
  BY DEF IInv, BoxInv, CancelInv
<1>6. B' = B
  BY <1>2 DEF B
<1>7. PlaceInv' /\ PhaseInv' /\ TeardownInv'
  <2>1. PlaceInv'
    BY <1>1, <1>2, <1>6 DEF PlaceInv, Unstarted, Causes
  <2>2. PhaseInv'
    BY <1>2 DEF IInv, PhaseInv, Removed
  <2>3. TeardownInv'
    BY <1>2, <1>6 DEF IInv, TeardownInv, Removed, Named
  <2> QED
    BY <2>1, <2>2, <2>3
<1>8. ReceiptInv'
  <2>1. \A p \in Phases : /\ box[p].tasks # {} \/ box[p].state \in {"created", "running", "exited"} => Named(p, "container")'
                          /\ box[p].parent => Named(p, "parent")'
    BY LeftIsNamed DEF Named
  <2> QED
    BY <1>1, <1>3, <2>1 DEF ReceiptInv, LeakNamed, Causes
<1> QED
  BY <1>4, <1>5, <1>7, <1>8 DEF IInv

\* The cause of a context that ended.
LEMMA FailureTyped == contextFailure \in Causes \ {"none"}
BY DEF contextFailure, Causes

LEMMA CheckTreeKeeps == ASSUME BudgetAssumption, IInv, checkTree PROVE IInv'
<1>1. CASE Go("prepare")
  <2>1. /\ attempt' \in Attempts /\ attempt'.pc = "prepare" /\ attempt'.phase = attempt.phase
        /\ attempt'.used = attempt.used /\ attempt.pc = "start"
        /\ UNCHANGED <<context, client, box, reply, td, canceller, disk, hashed, retentions>>
    BY <1>1, Goes DEF IInv, Places, checkTree, At
  <2>2. UNCHANGED <<receipt, failures>> /\ scratch' = TRUE
    BY <2>1 DEF checkTree, failReceipt, Go, IInv, TypeInv, Attempts, Places
  <2>3. TypeInv'
    BY <2>1, <2>2 DEF IInv, TypeInv
  <2>4. BoxInv' /\ CancelInv' /\ B' = B
    BY <2>1 DEF IInv, BoxInv, CancelInv, B
  <2>5. PlaceInv'
    BY <2>1, <2>2, <2>4 DEF IInv, PlaceInv, Unstarted
  <2>6. PhaseInv' /\ TeardownInv'
    BY <2>1, <2>4 DEF IInv, PhaseInv, TeardownInv, Removed, Named
  <2>7. ReceiptInv'
    BY <2>1, <2>2 DEF IInv, PlaceInv, ReceiptInv, LeakNamed
  <2> QED
    BY <2>3, <2>4, <2>5, <2>6, <2>7 DEF IInv
<1>2. CASE ~Go("prepare")
  <2>1. PICK cause \in Causes \ {"none"} : failReceipt(cause)
    BY <1>2, FailureTyped DEF checkTree, Causes
  <2>2. failures' \in 0 .. MaxFaults
    BY DEF checkTree, Fault, IInv, TypeInv, BudgetAssumption
  <2>3. attempt.pc = "start" /\ Unstarted /\ ~B.parent
    BY DEF checkTree, At, IInv, PlaceInv
  <2> QED
    BY <2>1, <2>2, <2>3, FailureKeeps DEF checkTree, Unstarted, NoTeardown
<1> QED
  BY <1>1, <1>2

LEMMA PrepareKeeps == ASSUME BudgetAssumption, IInv, prepare PROVE IInv'
<1>1. attempt.pc = "prepare" /\ Unstarted /\ ~B.parent
  BY DEF prepare, At, IInv, PlaceInv
<1>2. CASE Go("launch")
  <2>1. /\ attempt' \in Attempts /\ attempt'.pc = "launch" /\ attempt'.phase = attempt.phase
        /\ attempt'.used = attempt.used
    BY <1>2, Goes DEF IInv, Places
  <2>2. /\ box' = [box EXCEPT ![attempt.phase].parent = TRUE]
        /\ UNCHANGED <<context, client, reply, td, canceller, disk, hashed, retentions, receipt, scratch, failures>>
    BY <1>1, <2>1 DEF prepare, failReceipt, Go, IInv, TypeInv, Attempts, Places
  <2>3. box' \in [Phases -> Boxes]
    <3>1. [B EXCEPT !.parent = TRUE] \in Boxes /\ box' = [box EXCEPT ![attempt.phase] = [B EXCEPT !.parent = TRUE]]
      BY <2>2, BoxTyped DEF IInv, Boxes, B
    <3> QED
      BY <3>1, BoxTyped DEF IInv, TypeInv
  <2>4. /\ \A p \in Phases : /\ box'[p].state = box[p].state /\ box'[p].tasks = box[p].tasks
                             /\ box'[p].cpu = box[p].cpu
        /\ \A p \in Phases \ {attempt.phase} : box'[p] = box[p]
        /\ B'.state = B.state /\ B'.tasks = B.tasks /\ B'.cpu = B.cpu
    BY <2>1, <2>2, <2>3, BoxTyped DEF IInv, TypeInv, Boxes, B
  <2>5. TypeInv' /\ BoxInv' /\ CancelInv'
    BY <2>1, <2>2, <2>3, <2>4 DEF IInv, TypeInv, BoxInv, CancelInv
  <2>6. PlaceInv' /\ PhaseInv'
    BY <1>1, <2>1, <2>2, <2>4 DEF IInv, PlaceInv, PhaseInv, Unstarted, Removed, Phases
  <2>7. TeardownInv' /\ ReceiptInv'
    BY <1>1, <2>1, <2>2, <2>4 DEF IInv, TeardownInv, ReceiptInv, LeakNamed, PlaceInv, Unstarted, NoTeardown
  <2> QED
    BY <2>5, <2>6, <2>7 DEF IInv
<1>3. CASE ~Go("launch")
  <2>1. failures' \in 0 .. MaxFaults
    BY <1>3 DEF prepare, Fault, IInv, TypeInv, BudgetAssumption
  <2>2. PICK cause \in Causes \ {"none"} : failReceipt(cause)
    BY <1>3 DEF prepare, Causes
  <2>3. UNCHANGED <<context, client, box, reply, td, canceller, disk, hashed, retentions>>
    BY <1>3 DEF prepare
  <2> QED
    BY <1>1, <2>1, <2>2, <2>3, FailureKeeps DEF Unstarted, NoTeardown
<1> QED
  BY <1>2, <1>3

\* A launch that fails removes the parent cgroup it created, and nothing of the phase is left.
LEMMA LaunchFails ==
  ASSUME BudgetAssumption, IInv, attempt.pc = "launch", NEW cause \in Causes \ {"none"}, failReceipt(cause),
         box' = [box EXCEPT ![attempt.phase].parent = FALSE],
         UNCHANGED <<context, client, reply, td, canceller, disk, hashed, retentions>>,
         failures' \in 0 .. MaxFaults
  PROVE  IInv'
<1>1. Unstarted
  BY DEF IInv, PlaceInv
<1>2. /\ attempt' \in Attempts /\ attempt'.pc = "done" /\ attempt'.phase = attempt.phase
      /\ attempt'.used = attempt.used /\ receipt' = cause
  BY Goes DEF IInv, Places, failReceipt
<1>3. box' \in [Phases -> Boxes]
  <2>1. [B EXCEPT !.parent = FALSE] \in Boxes /\ box' = [box EXCEPT ![attempt.phase] = [B EXCEPT !.parent = FALSE]]
    BY BoxTyped DEF IInv, Boxes, B
  <2> QED
    BY <2>1, BoxTyped DEF IInv, TypeInv
<1>4. /\ \A p \in Phases : /\ box'[p].state = box[p].state /\ box'[p].tasks = box[p].tasks
                           /\ box'[p].cpu = box[p].cpu
      /\ \A p \in Phases \ {attempt.phase} : box'[p] = box[p]
      /\ B'.state = B.state /\ B'.tasks = B.tasks /\ B'.cpu = B.cpu /\ ~B'.parent
  BY <1>2, <1>3, BoxTyped DEF IInv, TypeInv, Boxes, B
<1>5. \A p \in Phases : box[p].tasks = {}
  <2>1. B.tasks = {}
    BY <1>1, BoxTyped DEF IInv, BoxInv, Unstarted, B
  <2>2. \A p \in Phases : p # attempt.phase => box[p] = NoBox \/ Removed(p)
    BY BoxTyped DEF IInv, PhaseInv, Phases
  <2> QED
    BY <2>1, <2>2 DEF IInv, BoxInv, Removed, NoBox, B
<1>6. scratch' = FALSE
  BY <1>5 DEF failReceipt, Close
<1>7. TypeInv' /\ BoxInv' /\ CancelInv'
  BY <1>2, <1>3, <1>4, <1>6 DEF IInv, TypeInv, BoxInv, CancelInv
<1>8. PlaceInv' /\ PhaseInv'
  BY <1>1, <1>2, <1>4 DEF IInv, PlaceInv, PhaseInv, Unstarted, Removed, Phases, Causes
<1>9. TeardownInv'
  BY <1>1, <1>2, <1>4 DEF IInv, TeardownInv, Unstarted, NoTeardown
<1>10. ReceiptInv'
  <2>1. \A p \in Phases : ~box'[p].parent /\ box'[p].tasks = {} /\ box'[p].state \in {"none", "removed"}
    <3>1. B'.state = "none" /\ ~B'.parent
      BY <1>1, <1>4 DEF Unstarted
    <3>2. \A p \in Phases : p # attempt.phase => box[p] = NoBox \/ Removed(p)
      BY BoxTyped DEF IInv, PhaseInv, Phases
    <3> QED
      BY <1>2, <1>4, <1>5, <3>1, <3>2 DEF Removed, NoBox, B
  <2> QED
    BY <1>2, <1>6, <2>1 DEF ReceiptInv, LeakNamed, Causes
<1> QED
  BY <1>7, <1>8, <1>9, <1>10 DEF IInv

LEMMA StartKeeps == ASSUME BudgetAssumption, IInv, start PROVE IInv'
<1>1. attempt.pc = "launch" /\ Unstarted
  BY DEF start, At, IInv, PlaceInv
<1>2. CASE client' = "running"
  <2>1. /\ context = "live" /\ reply' = "none" /\ canceller' = "idle"
        /\ attempt' = [attempt EXCEPT !.pc = "monitor", !.terminal = "none", !.exit = "none", !.ready = FALSE]
        /\ UNCHANGED <<context, box, td, disk, hashed, retentions, receipt, scratch, failures>>
    BY <1>1, <1>2 DEF start, Unstarted
  <2>2. /\ attempt' \in Attempts /\ attempt'.pc = "monitor" /\ attempt'.phase = attempt.phase
        /\ attempt'.used = attempt.used
    BY <2>1 DEF IInv, TypeInv, Attempts, Places, Causes
  <2>3. B' = B
    BY <2>1, <2>2 DEF B
  <2>4. TypeInv' /\ BoxInv' /\ CancelInv'
    BY <1>2, <2>1, <2>2 DEF IInv, TypeInv, BoxInv, CancelInv
  <2>5. PlaceInv' /\ PhaseInv'
    BY <1>1, <2>1, <2>2, <2>3 DEF IInv, PlaceInv, PhaseInv, Removed
  <2>6. TeardownInv' /\ ReceiptInv'
    BY <1>1, <2>1, <2>2, <2>3 DEF IInv, TeardownInv, ReceiptInv, LeakNamed, PlaceInv, Unstarted, NoTeardown
  <2> QED
    BY <2>4, <2>5, <2>6 DEF IInv
<1>3. CASE client' # "running"
  <2>1. failures' \in 0 .. MaxFaults
    BY <1>3 DEF start, Fault, IInv, TypeInv, BudgetAssumption
  <2>2. PICK cause \in Causes \ {"none"} : failReceipt(cause)
    BY <1>3, FailureTyped DEF start, Causes
  <2> QED
    BY <1>1, <1>3, <2>1, <2>2, LaunchFails DEF start
<1> QED
  BY <1>2, <1>3

-----------------------------------------------------------------------------
\* A sample never exceeds what was burned, and before the teardown ends it is exact.
LEMMA SampleBounds ==
  ASSUME IInv
  PROVE  /\ Sample \in 0 .. MaxBurn /\ Sample <= B.cpu
         /\ td.finalized => Sample = td.sampled
         /\ ~td.finalized => Sample = B.cpu
<1>1. B.cpu \in 0 .. MaxBurn /\ td.sampled \in 0 .. MaxBurn /\ td.sampled <= B.cpu
  BY BoxTyped DEF IInv, TypeInv, TeardownInv, Teardowns, B
<1>2. CASE td.finalized
  BY <1>1, <1>2 DEF Sample
<1>3. CASE ~td.finalized
  <2>1. Sample = B.cpu
    BY <1>1, <1>3 DEF Sample
  <2> QED
    BY <1>1, <1>3, <2>1
<1> QED
  BY <1>2, <1>3

\* The steps of the loop change where the supervisor is, why, and what was sampled.
LEMMA LoopKeeps ==
  ASSUME BudgetAssumption, IInv, attempt.pc \in {"monitor", "client"},
         attempt' \in Attempts, attempt'.pc \in {"monitor", "terminate", "confirm"},
         attempt'.phase = attempt.phase, attempt'.used = attempt.used,
         td' = td \/ (td.holder = "none" /\ td' = [td EXCEPT !.sampled = Sample]),
         UNCHANGED <<context, client, box, reply, canceller, disk, hashed, receipt, scratch, retentions>>,
         failures' \in 0 .. MaxFaults
  PROVE  IInv'
<1>1. B' = B
  BY DEF B
<1>2. /\ td' \in Teardowns /\ td'.holder = td.holder /\ td'.step = td.step /\ td'.finalized = td.finalized
      /\ td'.failed = td.failed /\ td'.lost = td.lost
      /\ td'.sampled <= B.cpu
      /\ td'.sampled = td.sampled \/ (td.holder = "none" /\ ~td.finalized)
  BY SampleBounds DEF IInv, TypeInv, Teardowns, TeardownInv
<1>3. TypeInv' /\ BoxInv' /\ CancelInv'
  BY <1>2 DEF IInv, TypeInv, BoxInv, CancelInv
<1>4. PlaceInv' /\ PhaseInv'
  BY DEF IInv, PlaceInv, PhaseInv, Removed
<1>5. TeardownInv'
  BY <1>1, <1>2 DEF IInv, TeardownInv, Removed, Named
<1>6. ReceiptInv'
  BY DEF IInv, PlaceInv, ReceiptInv, LeakNamed
<1> QED
  BY <1>3, <1>4, <1>5, <1>6 DEF IInv

\* The loop goes on, or ends with a cause.
LEMMA StopTyped ==
  ASSUME TypeInv, NEW cause \in Causes, Stop(cause)
  PROVE  /\ attempt' \in Attempts /\ attempt'.pc = "terminate" /\ attempt'.phase = attempt.phase
         /\ attempt'.used = attempt.used
BY DEF TypeInv, Attempts, Stop, Places

LEMMA WaitedKeeps == ASSUME BudgetAssumption, IInv, Waited \/ WaitClient PROVE IInv'
<1>1. attempt.pc \in {"monitor", "client"} /\ Go("confirm")
  BY DEF Waited, WaitClient, At
<1>2. UNCHANGED <<context, client, box, reply, td, canceller, disk, hashed, receipt, scratch, retentions, failures>>
  BY DEF Waited, WaitClient
<1>3. /\ attempt' \in Attempts /\ attempt'.pc = "confirm" /\ attempt'.phase = attempt.phase
      /\ attempt'.used = attempt.used
  BY <1>1, Goes DEF IInv, Places
<1>4. failures' \in 0 .. MaxFaults
  BY <1>2 DEF IInv, TypeInv
<1> QED
  BY <1>1, <1>2, <1>3, <1>4, LoopKeeps

LEMMA StoppedKeeps == ASSUME BudgetAssumption, IInv, ContextDone \/ StartupTimeout PROVE IInv'
<1>1. /\ attempt.pc = "monitor" /\ failures' \in 0 .. MaxFaults
      /\ UNCHANGED <<context, client, box, reply, td, canceller, disk, hashed, receipt, scratch, retentions>>
  BY DEF ContextDone, StartupTimeout, At, Fault, IInv, TypeInv, BudgetAssumption
<1>2. PICK cause \in Causes : Stop(cause)
  BY FailureTyped DEF ContextDone, StartupTimeout, Causes
<1> QED
  BY <1>1, <1>2, StopTyped, LoopKeeps DEF IInv

LEMMA TickKeeps == ASSUME BudgetAssumption, IInv, Tick PROVE IInv'
<1>1. /\ attempt.pc = "monitor" /\ failures' \in 0 .. MaxFaults
      /\ UNCHANGED <<context, client, box, reply, canceller, disk, hashed, receipt, scratch, retentions>>
      /\ td.holder = "none" /\ td' = [td EXCEPT !.sampled = Sample]
  BY DEF Tick, At, Fault, IInv, TypeInv, BudgetAssumption
<1>2. CASE \E cause \in Causes : Stop(cause)
  BY <1>1, <1>2, StopTyped, LoopKeeps DEF IInv
<1>3. CASE attempt' = [attempt EXCEPT !.ready = @ \/ B.state = "running" \/ reply # "none"]
  <2>1. /\ attempt' \in Attempts /\ attempt'.pc = "monitor" /\ attempt'.phase = attempt.phase
        /\ attempt'.used = attempt.used
    BY <1>1, <1>3 DEF IInv, TypeInv, Attempts
  <2> QED
    BY <1>1, <2>1, LoopKeeps
<1> QED
  BY <1>2, <1>3 DEF Tick, Causes

-----------------------------------------------------------------------------
LEMMA DecideKeeps == ASSUME BudgetAssumption, IInv, decide PROVE IInv'
<1>1. /\ attempt.pc = "decide" /\ CleanlyDown /\ td.holder = "none" /\ client = "exited"
      /\ UNCHANGED <<context, client, box, reply, canceller, disk, hashed, retentions>>
      /\ failures' \in 0 .. MaxFaults
  BY DEF decide, At, Fault, IInv, TypeInv, PlaceInv, TeardownInv, CleanlyDown, BudgetAssumption
<1>2. CASE \E cause \in Causes \ {"none"} : failReceipt(cause) /\ UNCHANGED td
  BY <1>1, <1>2, FailureKeeps DEF CleanlyDown
<1>3. CASE /\ Verdict = "none" /\ attempt.phase = "execute"
           /\ attempt' = [attempt EXCEPT !.pc = "prepare", !.phase = "validate", !.used = td.sampled]
           /\ td' = NoTeardown /\ UNCHANGED <<receipt, scratch>>
  <2>1. /\ attempt' \in Attempts /\ attempt'.pc = "prepare" /\ attempt'.phase = "validate"
        /\ attempt'.used = td.sampled
    BY <1>3 DEF IInv, TypeInv, Attempts, Teardowns, Places, Phases
  <2>2. context = "live" /\ td.sampled <= Budget
    BY <1>3, FailureTyped DEF Verdict, cpuBudget, IInv, TypeInv, Attempts, Teardowns, BudgetAssumption
  <2>3. Removed("execute") /\ td.sampled = box["execute"].cpu /\ box["validate"] = NoBox
    BY <1>1, <1>3 DEF IInv, TeardownInv, PhaseInv, CleanlyDown, B
  <2>4. B' = NoBox
    BY <1>1, <2>1, <2>3 DEF B
  <2>5. TypeInv' /\ BoxInv' /\ CancelInv'
    <3>1. NoTeardown \in Teardowns
      BY DEF NoTeardown, Teardowns, Steps, IInv, TypeInv, BudgetAssumption
    <3> QED
      BY <1>1, <1>3, <2>1, <3>1 DEF IInv, TypeInv, BoxInv, CancelInv
  <2>6. PlaceInv' /\ PhaseInv'
    BY <1>1, <1>3, <2>1, <2>2, <2>3, <2>4 DEF IInv, PlaceInv, PhaseInv, CancelInv, Unstarted, Removed, NoBox
  <2>7. TeardownInv' /\ ReceiptInv'
    BY <1>1, <1>3, <2>1, <2>4 DEF IInv, TeardownInv, ReceiptInv, LeakNamed, PlaceInv, NoTeardown, NoBox
  <2> QED
    BY <2>5, <2>6, <2>7 DEF IInv
<1>4. CASE /\ Verdict = "none" /\ attempt.phase # "execute" /\ Go("pin") /\ UNCHANGED <<td, receipt, scratch>>
  <2>1. /\ attempt' \in Attempts /\ attempt'.pc = "pin" /\ attempt'.phase = attempt.phase
        /\ attempt'.used = attempt.used /\ attempt.phase = "validate"
    BY <1>4, Goes DEF IInv, TypeInv, Attempts, Phases, Places
  <2>2. td.sampled <= cpuBudget
    BY <1>4, FailureTyped DEF Verdict, cpuBudget, IInv, TypeInv, Attempts, Teardowns, BudgetAssumption
  <2>3. B' = B
    BY <1>1, <2>1 DEF B
  <2>4. TypeInv' /\ BoxInv' /\ CancelInv'
    BY <1>1, <1>4, <2>1 DEF IInv, TypeInv, BoxInv, CancelInv
  <2>5. PlaceInv' /\ PhaseInv'
    BY <1>1, <1>4, <2>1, <2>2 DEF IInv, PlaceInv, PhaseInv, CleanlyDown, Removed, cpuBudget
  <2>6. TeardownInv' /\ ReceiptInv'
    BY <1>1, <1>4, <2>1, <2>3 DEF IInv, TeardownInv, ReceiptInv, LeakNamed, PlaceInv, Removed, Named
  <2> QED
    BY <2>4, <2>5, <2>6 DEF IInv
<1>5. Verdict \in Causes
  BY FailureTyped DEF Verdict, IInv, TypeInv, Attempts, Causes
<1> QED
  BY <1>2, <1>3, <1>4, <1>5 DEF decide, Go, Causes

LEMMA PinKeeps == ASSUME BudgetAssumption, IInv, pin PROVE IInv'
<1>1. /\ attempt.pc = "pin" /\ CleanlyDown /\ td.holder = "none"
      /\ UNCHANGED <<context, client, box, reply, td, canceller, disk, hashed, retentions>>
      /\ failures' \in 0 .. MaxFaults
  BY DEF pin, At, Fault, IInv, TypeInv, PlaceInv, TeardownInv, CleanlyDown, BudgetAssumption
<1>2. CASE \E cause \in Causes \ {"none"} : failReceipt(cause)
  BY <1>1, <1>2, FailureKeeps DEF CleanlyDown
<1>3. CASE disk = hashed /\ Go("seal") /\ UNCHANGED <<receipt, scratch, failures>>
  <2>1. /\ attempt' \in Attempts /\ attempt'.pc = "seal" /\ attempt'.phase = attempt.phase
        /\ attempt'.used = attempt.used
    BY <1>3, Goes DEF IInv, Places
  <2>2. B' = B
    BY <1>1, <2>1 DEF B
  <2>3. TypeInv' /\ BoxInv' /\ CancelInv'
    BY <1>1, <1>3, <2>1 DEF IInv, TypeInv, BoxInv, CancelInv
  <2>4. PlaceInv' /\ PhaseInv'
    BY <1>1, <1>3, <2>1 DEF IInv, PlaceInv, PhaseInv, CleanlyDown, Removed, cpuBudget
  <2>5. TeardownInv' /\ ReceiptInv'
    BY <1>1, <1>3, <2>1, <2>2 DEF IInv, TeardownInv, ReceiptInv, LeakNamed, PlaceInv, Removed, Named
  <2> QED
    BY <2>3, <2>4, <2>5 DEF IInv
<1> QED
  BY <1>2, <1>3, FailureTyped DEF pin, Causes

LEMMA SealKeeps == ASSUME BudgetAssumption, IInv, seal PROVE IInv'
<1>1. /\ attempt.pc = "seal" /\ CleanlyDown /\ td.holder = "none" /\ attempt.phase = "validate"
      /\ td.sampled <= cpuBudget /\ disk = hashed
      /\ UNCHANGED <<context, client, box, reply, td, canceller, disk, hashed, retentions, failures>>
  BY DEF seal, At, IInv, PlaceInv, TeardownInv, CleanlyDown
<1>2. CASE context # "live"
  <2>1. failReceipt(contextFailure) /\ failures' \in 0 .. MaxFaults
    BY <1>1, <1>2 DEF seal, IInv, TypeInv
  <2> QED
    BY <1>1, <2>1, FailureTyped, FailureKeeps DEF CleanlyDown
<1>3. CASE context = "live"
  <2>1. receipt' = "complete" /\ Go("done") /\ UNCHANGED scratch
    BY <1>3 DEF seal
  <2>2. /\ attempt' \in Attempts /\ attempt'.pc = "done" /\ attempt'.phase = attempt.phase
        /\ attempt'.used = attempt.used
    BY <2>1, Goes DEF IInv, Places
  <2>3. B' = B
    BY <1>1, <2>2 DEF B
  <2>4. TypeInv' /\ BoxInv' /\ CancelInv'
    BY <1>1, <2>1, <2>2 DEF IInv, TypeInv, BoxInv, CancelInv
  <2>5. PlaceInv' /\ PhaseInv'
    BY <1>1, <2>1, <2>2 DEF IInv, PlaceInv, PhaseInv, CleanlyDown, Removed
  <2>6. TeardownInv'
    BY <1>1, <2>1, <2>2, <2>3 DEF IInv, TeardownInv, Removed, Named
  <2>7. ReceiptInv'
    <3>1. \A p \in Phases : /\ box[p].tasks # {} \/ box[p].state \in {"created", "running", "exited"} => Named(p, "container")'
                            /\ box[p].parent => Named(p, "parent")'
      BY <1>1, LeftIsNamed DEF Named, CleanlyDown
    <3> QED
      BY <1>1, <2>1, <2>2, <3>1 DEF ReceiptInv, LeakNamed, CleanlyDown, cpuBudget
  <2> QED
    BY <2>4, <2>5, <2>6, <2>7 DEF IInv
<1> QED
  BY <1>2, <1>3

-----------------------------------------------------------------------------
\* An answer of the teardown: the caller goes on behind it, and every box it left is named.
LEMMA AnswerKeeps ==
  ASSUME BudgetAssumption, IInv, NEW who \in {"loop", "context"}, NEW failed \in BOOLEAN, Answered(who, failed),
         attempt.pc \in {"monitor", "terminate", "confirm"},
         who = "loop" => attempt.pc \in {"terminate", "confirm"}, who = "context" => context # "live",
         td' \in Teardowns, td'.finalized, td'.failed = failed, td'.holder = "none", td'.step = "idle",
         td'.sampled <= B.cpu, failed \/ td'.sampled = B.cpu,
         box' \in [Phases -> Boxes], \A p \in Phases \ {attempt.phase} : box'[p] = box[p],
         \A p \in Phases : /\ box'[p].state = box[p].state /\ box'[p].tasks = box[p].tasks
                           /\ box'[p].cpu = box[p].cpu,
         failed \/ (B.state = "removed" /\ ~box'[attempt.phase].parent),
         B.state \in {"none", "removed"} \/ \E r \in retentions' : r[1] = attempt.phase /\ "container" \in r[2],
         ~box'[attempt.phase].parent \/ \E r \in retentions' : r[1] = attempt.phase /\ "parent" \in r[2],
         client' = "exited", retentions \subseteq retentions', retentions' \subseteq Phases \X SUBSET Unknown,
         UNCHANGED <<context, reply, disk, hashed>>, failures' \in 0 .. MaxFaults
  PROVE  IInv'
<1>1. /\ attempt' \in Attempts /\ attempt'.phase = attempt.phase /\ attempt'.used = attempt.used
      /\ \/ attempt'.pc \in {"monitor", "terminate", "confirm", "client"} /\ UNCHANGED <<receipt, scratch>>
         \/ attempt'.pc = "decide" /\ ~failed /\ UNCHANGED <<receipt, scratch>>
         \/ attempt'.pc = "done" /\ failReceipt("EXIT_FAILURE")
      /\ canceller' \in {"idle", "calling", "done"} /\ (context = "live" => canceller' = canceller)
  <2>1. CASE who = "context"
    BY <2>1 DEF Answered, IInv, TypeInv
  <2>2. CASE who = "loop" /\ attempt.pc = "terminate"
    <3>1. attempt' = [attempt EXCEPT !.pc = "client", !.terminal = IF failed THEN "EXIT_FAILURE" ELSE @]
      BY <2>2 DEF Answered
    <3>2. /\ attempt' \in Attempts /\ attempt'.phase = attempt.phase /\ attempt'.used = attempt.used
          /\ attempt'.pc = "client"
      BY <3>1 DEF IInv, TypeInv, Attempts, Places, Causes
    <3> QED
      BY <2>2, <3>2 DEF Answered, IInv, TypeInv
  <2>3. CASE who = "loop" /\ attempt.pc # "terminate"
    <3>1. CASE failed
      BY <2>3, <3>1, Goes DEF Answered, failReceipt, IInv, TypeInv, Places
    <3>2. CASE ~failed
      BY <2>3, <3>2, Goes DEF Answered, IInv, TypeInv, Places
    <3> QED
      BY <3>1, <3>2
  <2> QED
    BY <2>1, <2>2, <2>3
<1>2. /\ B'.state = B.state /\ B'.tasks = B.tasks /\ B'.cpu = B.cpu /\ B'.parent = box'[attempt.phase].parent
      /\ B' = box'[attempt.phase] /\ attempt.phase \in Phases
  BY <1>1, BoxTyped DEF B, IInv
<1>3. attempt'.pc = "done" =>
        receipt' = "EXIT_FAILURE" /\ scratch' \in BOOLEAN /\ (scratch' => \E p \in Phases : box[p].tasks # {})
  BY <1>1 DEF failReceipt, Close, IInv, TypeInv
<1>4. receipt = "none" /\ receipt' \in Causes \cup {"complete"} /\ scratch' \in BOOLEAN
      /\ (receipt' = "none" <=> attempt'.pc # "done") /\ receipt' # "complete"
  BY <1>1, <1>3 DEF IInv, TypeInv, PlaceInv, Causes
<1>5. TypeInv'
  BY <1>1, <1>4 DEF IInv, TypeInv
<1>6. BoxInv' /\ CancelInv'
  BY <1>1 DEF IInv, BoxInv, CancelInv
<1>7. PlaceInv'
  BY <1>1, <1>4 DEF PlaceInv, CleanlyDown
<1>8. PhaseInv'
  <2>1. \A p \in Phases : Removed(p) /\ p # attempt.phase => Removed(p)'
    BY DEF Removed
  <2> QED
    BY <1>1, <2>1 DEF IInv, PhaseInv, Phases
<1>9. TeardownInv'
  BY <1>1, <1>2 DEF TeardownInv, Removed, Named
<1>10. ReceiptInv'
  <2>1. CASE attempt'.pc = "done"
    <3>1. \A p \in Phases : /\ box[p].tasks # {} \/ box[p].state \in {"created", "running", "exited"}
                                 => \E r \in retentions' : r[1] = p /\ "container" \in r[2]
                            /\ box'[p].parent => \E r \in retentions' : r[1] = p /\ "parent" \in r[2]
      <4> SUFFICES ASSUME NEW p \in Phases
                   PROVE  /\ box[p].tasks # {} \/ box[p].state \in {"created", "running", "exited"}
                               => \E r \in retentions' : r[1] = p /\ "container" \in r[2]
                          /\ box'[p].parent => \E r \in retentions' : r[1] = p /\ "parent" \in r[2]
        OBVIOUS
      <4>1. CASE p = attempt.phase
        BY <4>1 DEF IInv, BoxInv, B
      <4>2. CASE p # attempt.phase
        <5>1. box[p] = NoBox \/ Removed(p)
          BY <4>2, <1>2 DEF IInv, PhaseInv, Phases
        <5> QED
          BY <4>2, <5>1 DEF IInv, BoxInv, Removed, NoBox
      <4> QED
        BY <4>1, <4>2
    <3> QED
      BY <1>3, <1>4, <2>1, <3>1 DEF ReceiptInv, LeakNamed, Named
  <2>2. CASE attempt'.pc # "done"
    BY <1>4, <2>2 DEF ReceiptInv, LeakNamed
  <2> QED
    BY <2>1, <2>2
<1> QED
  BY <1>5, <1>6, <1>7, <1>8, <1>9, <1>10 DEF IInv

\* The end of a teardown keeps the invariant when its reasons name what it did not remove.
LEMMA FinishKeeps ==
  ASSUME BudgetAssumption, IInv, td.holder # "none", NEW failed \in BOOLEAN, NEW reasons \in SUBSET Unknown,
         Finish(failed, reasons),
         box' \in [Phases -> Boxes], \A p \in Phases \ {attempt.phase} : box'[p] = box[p],
         \A p \in Phases : /\ box'[p].state = box[p].state /\ box'[p].tasks = box[p].tasks
                           /\ box'[p].cpu = box[p].cpu,
         failed \/ (B.state = "removed" /\ ~box'[attempt.phase].parent /\ td.sampled = B.cpu),
         B.state \in {"none", "removed"} \/ "container" \in reasons,
         ~box'[attempt.phase].parent \/ "parent" \in reasons,
         UNCHANGED <<context, reply, disk, hashed>>, failures' \in 0 .. MaxFaults
  PROVE  IInv'
<1>1. /\ td.holder \in {"loop", "context"} /\ attempt.pc \in {"monitor", "terminate", "confirm"}
      /\ td.holder = "loop" => attempt.pc \in {"terminate", "confirm"}
      /\ td.holder = "context" => context # "live"
      /\ td.sampled <= B.cpu
  BY DEF IInv, TypeInv, Teardowns, TeardownInv, CancelInv
<1>2. /\ td' \in Teardowns /\ td'.finalized /\ td'.failed = failed /\ td'.holder = "none" /\ td'.step = "idle"
      /\ td'.sampled = td.sampled
  BY DEF Finish, IInv, TypeInv, Teardowns, Steps
<1>3. attempt.phase \in Phases
  BY BoxTyped DEF IInv
<1>4. retentions \subseteq retentions' /\ retentions' \subseteq Phases \X SUBSET Unknown
  BY <1>3 DEF Finish, IInv, TypeInv
<1>5. \A reason \in reasons : \E r \in retentions' : r[1] = attempt.phase /\ reason \in r[2]
  <2> SUFFICES ASSUME NEW reason \in reasons PROVE \E r \in retentions' : r[1] = attempt.phase /\ reason \in r[2]
    OBVIOUS
  <2>1. <<attempt.phase, reasons>> \in retentions'
    BY DEF Finish
  <2> QED
    BY <2>1
<1>6. client' = "exited" /\ Answered(td.holder, failed)
  BY DEF Finish
<1> QED
  BY <1>1, <1>2, <1>4, <1>5, <1>6, AnswerKeeps

\* A step inside the teardown: the caller waits, and nothing but the current box changes.
LEMMA TeardownMoves ==
  ASSUME BudgetAssumption, IInv, td.holder # "none", Continue,
         td' \in Teardowns, td'.holder = td.holder, td'.finalized = td.finalized, td'.step # "idle",
         td'.sampled <= B.cpu,
         box' \in [Phases -> Boxes], \A p \in Phases \ {attempt.phase} : box'[p] = box[p],
         box'[attempt.phase].cpu = B.cpu, box'[attempt.phase].tasks = B.tasks,
         box'[attempt.phase].state \in {"none", "created", "removed"} => B.tasks = {},
         td'.step = "snapshot" => box'[attempt.phase].state = "exited",
         td'.step = "rm" => box'[attempt.phase].state = "exited" /\ B.tasks = {},
         td'.step = "parent" => box'[attempt.phase].state = "removed",
         td'.step \in {"rm", "parent"} => td'.lost \/ td'.sampled = B.cpu,
         UNCHANGED <<context, reply, disk, hashed>>, failures' \in 0 .. MaxFaults
  PROVE  IInv'
<1>1. UNCHANGED <<attempt, client, receipt, scratch, retentions, canceller>>
  BY DEF Continue
<1>2. B' = box'[attempt.phase] /\ attempt.phase \in Phases
  BY <1>1, BoxTyped DEF B, IInv
<1>3. TypeInv'
  BY <1>1 DEF IInv, TypeInv
<1>4. BoxInv' /\ CancelInv'
  <2>1. BoxInv'
    BY DEF IInv, BoxInv
  <2>2. CancelInv'
    BY <1>1 DEF IInv, CancelInv
  <2> QED
    BY <2>1, <2>2
<1>5. attempt.pc \in {"monitor", "terminate", "confirm"} /\ ~td.finalized /\ receipt = "none"
  BY DEF IInv, TeardownInv, PlaceInv
<1>6. PlaceInv'
  BY <1>1, <1>5 DEF PlaceInv
<1>7. PhaseInv'
  <2>1. \A p \in Phases : Removed(p) /\ p # attempt.phase => Removed(p)'
    BY DEF Removed
  <2> QED
    BY <1>1, <2>1 DEF IInv, PhaseInv, Phases
<1>8. TeardownInv'
  BY <1>1, <1>2, <1>5 DEF IInv, TeardownInv
<1>9. ReceiptInv'
  BY <1>1, <1>5 DEF ReceiptInv, LeakNamed
<1> QED
  BY <1>3, <1>4, <1>6, <1>7, <1>8, <1>9 DEF IInv

LEMMA TdBeginKeeps ==
  ASSUME BudgetAssumption, IInv, NEW who \in {"loop", "context"}, TdBegin(who)
  PROVE  IInv'
<1>1. /\ td.holder = "none" /\ CallsTeardown(who)
      /\ UNCHANGED <<context, client, box, reply, disk, hashed, retentions, failures>>
  BY DEF TdBegin
<1>2. failures' \in 0 .. MaxFaults
  BY <1>1 DEF IInv, TypeInv
<1>3. CASE td.finalized /\ who = "loop"
  <2>1. Answered(who, td.failed) /\ UNCHANGED td /\ td.failed \in BOOLEAN
    BY <1>3 DEF TdBegin, IInv, TypeInv, Teardowns
  <2>2. attempt.pc \in {"terminate", "confirm"}
    BY <1>1, <1>3 DEF CallsTeardown
  <2>3. /\ td' \in Teardowns /\ td'.finalized /\ td'.failed = td.failed /\ td'.holder = "none" /\ td'.step = "idle"
        /\ td'.sampled <= B.cpu /\ (td.failed \/ td'.sampled = B.cpu) /\ client' = "exited"
        /\ td.failed \/ (B.state = "removed" /\ ~B.parent)
    BY <1>1, <1>3, <2>1 DEF IInv, TypeInv, TeardownInv, Removed, B
  <2>4. /\ B.state \in {"none", "removed"} \/ \E r \in retentions' : r[1] = attempt.phase /\ "container" \in r[2]
        /\ ~B.parent \/ \E r \in retentions' : r[1] = attempt.phase /\ "parent" \in r[2]
    BY <1>1, <1>3 DEF IInv, TeardownInv, Named
  <2>5. box' \in [Phases -> Boxes] /\ retentions \subseteq retentions' /\ retentions' \subseteq Phases \X SUBSET Unknown
    BY <1>1 DEF IInv, TypeInv
  <2>6. box' = box /\ box'[attempt.phase] = B
    BY <1>1 DEF B
  <2> QED
    BY <1>1, <1>2, <1>3, <2>1, <2>2, <2>3, <2>4, <2>5, <2>6, AnswerKeeps
<1>4. CASE td.finalized /\ who = "context"
  <2>1. /\ canceller' = "done" /\ canceller = "calling"
        /\ UNCHANGED <<attempt, context, client, box, reply, td, disk, hashed, receipt, scratch, retentions, failures>>
    BY <1>1, <1>4 DEF TdBegin, Answered, CallsTeardown
  <2>2. B' = B
    BY <2>1 DEF B
  <2>3. TypeInv' /\ BoxInv' /\ CancelInv' /\ PhaseInv'
    BY <2>1 DEF IInv, TypeInv, BoxInv, CancelInv, PhaseInv, Removed
  <2>4. PlaceInv'
    BY <2>1, <2>2 DEF IInv, PlaceInv, Unstarted, CleanlyDown, cpuBudget
  <2>5. TeardownInv' /\ ReceiptInv'
    BY <1>1, <2>1, <2>2 DEF IInv, TeardownInv, ReceiptInv, LeakNamed, Removed, Named, CleanlyDown, cpuBudget
  <2> QED
    BY <2>3, <2>4, <2>5 DEF IInv
<1>5. CASE ~td.finalized
  <2>1. /\ td' = [td EXCEPT !.holder = who, !.step = "kill", !.bound = teardownAllowance, !.sampled = Sample]
        /\ UNCHANGED <<attempt, receipt, scratch, canceller>>
    BY <1>5 DEF TdBegin
  <2>2. Sample \in 0 .. MaxBurn /\ Sample <= B.cpu /\ teardownAllowance \in BOOLEAN
    BY SampleBounds DEF teardownAllowance
  <2>3. /\ td' \in Teardowns /\ td'.holder = who /\ td'.step = "kill" /\ td'.sampled <= B.cpu /\ ~td'.finalized
    <3> HIDE DEF Sample
    <3> QED
      BY <1>5, <2>1, <2>2 DEF IInv, TypeInv, Teardowns, Steps
  <2>4. attempt.pc \in {"monitor", "terminate", "confirm"} /\ receipt = "none"
        /\ (who = "loop" => attempt.pc \in {"terminate", "confirm"})
        /\ (who = "context" => canceller = "calling")
    <3>1. CASE who = "loop"
      BY <1>1, <3>1 DEF CallsTeardown, IInv, PlaceInv
    <3>2. CASE who = "context"
      <4>1. canceller = "calling"
        BY <1>1, <3>2 DEF CallsTeardown
      <4> QED
        <5>1. attempt.pc \notin {"start", "prepare", "launch", "decide", "pin", "seal", "client", "done"}
          BY <1>5, <4>1 DEF IInv, PlaceInv, Unstarted, CleanlyDown
        <5>2. attempt.pc \in Places
          BY PlacesOf DEF IInv
        <5>3. attempt.pc \in {"monitor", "terminate", "confirm"}
          BY <5>1, <5>2 DEF Places
        <5> QED
          BY <3>2, <4>1, <5>3 DEF IInv, PlaceInv
    <3> QED
      BY <3>1, <3>2
  <2>5. B' = B
    BY <1>1, <2>1 DEF B
  <2>6. TypeInv' /\ BoxInv' /\ CancelInv' /\ PhaseInv'
    BY <1>1, <2>1, <2>3 DEF IInv, TypeInv, BoxInv, CancelInv, PhaseInv, Removed
  <2>7. PlaceInv' /\ ReceiptInv'
    BY <1>1, <2>1, <2>4 DEF PlaceInv, ReceiptInv, LeakNamed
  <2>8. TeardownInv'
    BY <2>1, <2>3, <2>4, <2>5 DEF TeardownInv
  <2> QED
    BY <2>6, <2>7, <2>8 DEF IInv
<1> QED
  BY <1>3, <1>4, <1>5

LEMMA TdKillKeeps == ASSUME BudgetAssumption, IInv, TdKill PROVE IInv'
<1>1. /\ td.holder # "none" /\ td.step = "kill" /\ Continue /\ UNCHANGED <<context, reply, disk, hashed>>
      /\ td' = [td EXCEPT !.step = "wait"] /\ failures' \in 0 .. MaxFaults
  BY DEF TdKill, TdAt, Fault, IInv, TypeInv, BudgetAssumption
<1>2. /\ td' \in Teardowns /\ td'.holder = td.holder /\ td'.finalized = td.finalized /\ td'.step = "wait"
      /\ td'.sampled <= B.cpu
  BY <1>1 DEF IInv, TypeInv, Teardowns, Steps, TeardownInv
<1>3. /\ box' \in [Phases -> Boxes] /\ \A p \in Phases \ {attempt.phase} : box'[p] = box[p]
      /\ box'[attempt.phase].cpu = B.cpu /\ box'[attempt.phase].tasks = B.tasks
      /\ box'[attempt.phase].state \in {"exited", B.state}
  <2>1. box' = box \/ box' = [box EXCEPT ![attempt.phase].state = "exited"]
    BY DEF TdKill
  <2>2. CASE box' = box
    BY <2>2 DEF IInv, TypeInv, B
  <2>3. CASE box' = [box EXCEPT ![attempt.phase].state = "exited"]
    BY <2>3 DEF IInv, TypeInv, Attempts, Boxes, B
  <2> QED
    BY <2>1, <2>2, <2>3
<1>4. box'[attempt.phase].state \in {"none", "created", "removed"} => B.tasks = {}
  BY <1>3, BoxTyped DEF IInv, BoxInv, B
<1> QED
  BY <1>1, <1>2, <1>3, <1>4, TeardownMoves

\* A step that leaves every box as it is.
LEMMA BoxesKept ==
  ASSUME IInv, box' = box
  PROVE  /\ box' \in [Phases -> Boxes] /\ \A p \in Phases \ {attempt.phase} : box'[p] = box[p]
         /\ \A p \in Phases : /\ box'[p].state = box[p].state /\ box'[p].tasks = box[p].tasks
                              /\ box'[p].cpu = box[p].cpu
         /\ box'[attempt.phase] = B
         /\ B.state \in {"none", "created", "removed"} => B.tasks = {}
BY BoxTyped DEF IInv, TypeInv, BoxInv, B

LEMMA TdWaitKeeps == ASSUME BudgetAssumption, IInv, TdWait PROVE IInv'
<1>0. failures' \in 0 .. MaxFaults
  BY FailuresBounded DEF TdWait
<1>1. /\ td.holder # "none" /\ td.step = "wait" /\ box' = box /\ UNCHANGED <<context, reply, disk, hashed>>
  BY DEF TdWait, TdAt
<1>2. CASE Finish(TRUE, Unknown)
  BY <1>0, <1>1, <1>2, BoxesKept, FinishKeeps DEF Unknown
<1>3. CASE B.state = "exited" /\ td' = [td EXCEPT !.step = "snapshot"] /\ Continue
  <2>1. /\ td' \in Teardowns /\ td'.holder = td.holder /\ td'.finalized = td.finalized /\ td'.step = "snapshot"
        /\ td'.sampled <= B.cpu
    BY <1>3 DEF IInv, TypeInv, Teardowns, Steps, TeardownInv
  <2> QED
    BY <1>0, <1>1, <1>3, <2>1, BoxesKept, TeardownMoves
<1> QED
  BY <1>2, <1>3 DEF TdWait

LEMMA TdSnapshotKeeps == ASSUME BudgetAssumption, IInv, TdSnapshot PROVE IInv'
<1>0. failures' \in 0 .. MaxFaults
  BY FailuresBounded DEF TdSnapshot
<1>1. /\ td.holder # "none" /\ td.step = "snapshot" /\ box' = box /\ UNCHANGED <<context, reply, disk, hashed>>
  BY DEF TdSnapshot, TdAt
<1>2. B.state = "exited" /\ ~td.finalized
  BY <1>1 DEF IInv, TeardownInv
<1>3. CASE Finish(TRUE, Unknown)
  BY <1>0, <1>1, <1>3, BoxesKept, FinishKeeps DEF Unknown
<1>4. CASE B.tasks = {} /\ td' = [td EXCEPT !.step = "rm", !.sampled = Sample] /\ Continue
  <2>1. Sample \in 0 .. MaxBurn /\ Sample = B.cpu /\ B.cpu \in 0 .. MaxBurn
    BY <1>2, SampleBounds, BoxTyped DEF IInv, B
  <2>2. /\ td' \in Teardowns /\ td'.holder = td.holder /\ td'.finalized = td.finalized /\ td'.step = "rm"
        /\ td'.sampled = B.cpu
    <3> HIDE DEF Sample
    <3> QED
      BY <1>4, <2>1 DEF IInv, TypeInv, Teardowns, Steps
  <2>3. td'.sampled <= B.cpu
    BY <2>1, <2>2
  <2> QED
    BY <1>0, <1>1, <1>2, <1>4, <2>2, <2>3, BoxesKept, TeardownMoves
<1>5. CASE B.tasks = {} /\ td' = [td EXCEPT !.step = "rm", !.lost = TRUE] /\ Continue
  <2>1. /\ td' \in Teardowns /\ td'.holder = td.holder /\ td'.finalized = td.finalized /\ td'.step = "rm"
        /\ td'.lost /\ td'.sampled <= B.cpu
    BY <1>5 DEF IInv, TypeInv, Teardowns, Steps, TeardownInv
  <2> QED
    BY <1>0, <1>1, <1>2, <1>5, <2>1, BoxesKept, TeardownMoves
<1>6. CASE /\ td' = [td EXCEPT !.previous = IF B.tasks = {} THEN IF B.nested THEN "nested" ELSE "parent" ELSE "none"]
           /\ Continue
  <2>1. /\ td' \in Teardowns /\ td'.holder = td.holder /\ td'.finalized = td.finalized /\ td'.step = "snapshot"
        /\ td'.sampled <= B.cpu
    BY <1>1, <1>6 DEF IInv, TypeInv, Teardowns, TeardownInv
  <2> QED
    BY <1>0, <1>1, <1>2, <1>6, <2>1, BoxesKept, TeardownMoves
<1> QED
  BY <1>3, <1>4, <1>5, <1>6 DEF TdSnapshot

LEMMA TdRemoveKeeps == ASSUME BudgetAssumption, IInv, TdRemove PROVE IInv'
<1>0. failures' \in 0 .. MaxFaults
  BY FailuresBounded DEF TdRemove
<1>1. /\ td.holder # "none" /\ td.step = "rm" /\ UNCHANGED <<context, reply, disk, hashed>>
  BY DEF TdRemove, TdAt
<1>2. /\ B.state = "exited" /\ B.tasks = {} /\ ~td.finalized /\ (td.lost \/ td.sampled = B.cpu) /\ td.sampled <= B.cpu
  BY <1>1 DEF IInv, TeardownInv
<1>3. CASE box' = box /\ Finish(TRUE, {"container", "parent"} \cup Unsampled)
  BY <1>0, <1>1, <1>3, BoxesKept, FinishKeeps DEF Unknown, Unsampled
<1>4. CASE box' = box /\ td' = [td EXCEPT !.retried = TRUE] /\ Continue
  <2>1. /\ td' \in Teardowns /\ td'.holder = td.holder /\ td'.finalized = td.finalized /\ td'.step = "rm"
        /\ td'.sampled = td.sampled /\ td'.lost = td.lost
    BY <1>1, <1>4 DEF IInv, TypeInv, Teardowns
  <2> QED
    BY <1>0, <1>1, <1>2, <1>4, <2>1, BoxesKept, TeardownMoves
<1>5. CASE /\ box' = [box EXCEPT ![attempt.phase].state = "removed"] /\ td' = [td EXCEPT !.step = "parent"]
           /\ Continue
  <2>1. /\ td' \in Teardowns /\ td'.holder = td.holder /\ td'.finalized = td.finalized /\ td'.step = "parent"
        /\ td'.sampled = td.sampled /\ td'.lost = td.lost
    BY <1>5 DEF IInv, TypeInv, Teardowns, Steps
  <2>2. /\ box' \in [Phases -> Boxes] /\ \A p \in Phases \ {attempt.phase} : box'[p] = box[p]
        /\ box'[attempt.phase].cpu = B.cpu /\ box'[attempt.phase].tasks = B.tasks
        /\ box'[attempt.phase].state = "removed"
    BY <1>5 DEF IInv, TypeInv, Attempts, Boxes, B
  <2> QED
    BY <1>0, <1>1, <1>2, <1>5, <2>1, <2>2, TeardownMoves
<1> QED
  BY <1>3, <1>4, <1>5 DEF TdRemove

LEMMA TdParentKeeps == ASSUME BudgetAssumption, IInv, TdParent PROVE IInv'
<1>0. failures' \in 0 .. MaxFaults
  BY FailuresBounded DEF TdParent
<1>1. /\ td.holder # "none" /\ td.step = "parent" /\ UNCHANGED <<context, reply, disk, hashed>>
  BY DEF TdParent, TdAt
<1>2. B.state = "removed" /\ (td.lost \/ td.sampled = B.cpu)
  BY <1>1 DEF IInv, TeardownInv
<1>3. CASE box' = box /\ Finish(TRUE, {"parent"} \cup Unsampled)
  BY <1>0, <1>1, <1>2, <1>3, BoxesKept, FinishKeeps DEF Unknown, Unsampled
<1>4. CASE /\ \E crossed \in BOOLEAN :
                Finish(td.lost \/ td.retried \/ crossed, IF crossed THEN {"accounting"} ELSE Unsampled)
           /\ box' = [box EXCEPT ![attempt.phase].parent = FALSE, ![attempt.phase].nested = FALSE]
  <2>1. PICK failed \in BOOLEAN, reasons \in SUBSET Unknown : Finish(failed, reasons) /\ (td.lost => failed)
    BY <1>4 DEF Unknown, Unsampled, IInv, TypeInv, Teardowns
  <2>2. /\ box' \in [Phases -> Boxes] /\ \A p \in Phases \ {attempt.phase} : box'[p] = box[p]
        /\ box'[attempt.phase].state = B.state /\ box'[attempt.phase].tasks = B.tasks
        /\ box'[attempt.phase].cpu = B.cpu /\ ~box'[attempt.phase].parent
    <3>1. /\ box' = [box EXCEPT ![attempt.phase] = [B EXCEPT !.parent = FALSE, !.nested = FALSE]]
          /\ box \in [Phases -> Boxes]
      BY <1>4, BoxTyped DEF IInv, TypeInv, B
    <3>2. /\ [B EXCEPT !.parent = FALSE, !.nested = FALSE] \in Boxes
          /\ [B EXCEPT !.parent = FALSE, !.nested = FALSE].state = B.state
          /\ [B EXCEPT !.parent = FALSE, !.nested = FALSE].tasks = B.tasks
          /\ [B EXCEPT !.parent = FALSE, !.nested = FALSE].cpu = B.cpu
          /\ ~[B EXCEPT !.parent = FALSE, !.nested = FALSE].parent
      BY BoxTyped DEF IInv, Boxes
    <3>3. /\ box'[attempt.phase] = [B EXCEPT !.parent = FALSE, !.nested = FALSE]
          /\ \A p \in Phases \ {attempt.phase} : box'[p] = box[p]
      BY <3>1, BoxTyped DEF IInv
    <3>4. box' \in [Phases -> Boxes]
      BY <3>1, <3>2
    <3> QED
      BY <3>2, <3>3, <3>4
  <2>3. \A p \in Phases : /\ box'[p].state = box[p].state /\ box'[p].tasks = box[p].tasks
                          /\ box'[p].cpu = box[p].cpu
    BY <2>2 DEF B
  <2>4. failed \/ (B.state = "removed" /\ ~box'[attempt.phase].parent /\ td.sampled = B.cpu)
    BY <1>2, <2>1, <2>2
  <2> QED
    BY <1>0, <1>1, <1>2, <2>1, <2>2, <2>3, <2>4, FinishKeeps
<1> QED
  BY <1>3, <1>4 DEF TdParent

-----------------------------------------------------------------------------
\* What the runtime and the child do to a box they still own keeps the invariant.
LEMMA BoxMoves ==
  ASSUME BudgetAssumption, IInv, attempt' \in Attempts,
         attempt'.pc = attempt.pc, attempt'.phase = attempt.phase, attempt'.used = attempt.used,
         attempt.pc \notin {"start", "prepare", "launch"},
         box' \in [Phases -> Boxes], \A p \in Phases \ {attempt.phase} : box'[p] = box[p],
         box'[attempt.phase].parent = B.parent, B.cpu <= box'[attempt.phase].cpu, B.state # "removed",
         box'[attempt.phase].state \in {"none", "created", "removed"} => box'[attempt.phase].tasks = {},
         td.step # "idle" => box'[attempt.phase].state = B.state \/ td.step \in {"kill", "wait"},
         td.step \notin {"rm", "parent"},
         td.finalized => B.state # "none",
         attempt.pc = "done" => /\ box'[attempt.phase].state = B.state
                                /\ B.tasks = {} => box'[attempt.phase].tasks = {},
         UNCHANGED <<context, client, td, canceller, disk, hashed, receipt, scratch, retentions>>,
         reply' \in {"none", "outputs", "failure", "garbage"}, failures' \in 0 .. MaxFaults,
         attempt.pc = "done" => td.finalized
  PROVE  IInv'
<1>1. B' = box'[attempt.phase] /\ attempt.phase \in Phases
  BY BoxTyped DEF B, IInv
<1>2. ~CleanlyDown
  BY DEF IInv, TeardownInv, CleanlyDown, Removed, B
<1>3. TypeInv'
  BY DEF IInv, TypeInv
<1>4. BoxInv' /\ CancelInv'
  <2>1. BoxInv'
    BY DEF IInv, BoxInv
  <2>2. CancelInv'
    BY DEF IInv, CancelInv
  <2> QED
    BY <2>1, <2>2
<1>5. attempt.pc \notin {"decide", "pin", "seal"}
  BY <1>2 DEF IInv, PlaceInv
<1>6. PlaceInv'
  BY <1>5 DEF IInv, PlaceInv
<1>7. PhaseInv'
  <2>1. \A p \in Phases : Removed(p) /\ p # attempt.phase => Removed(p)' /\ box'[p].cpu = box[p].cpu
    BY DEF Removed
  <2> QED
    BY <1>1, <2>1 DEF IInv, PhaseInv, Phases
<1>8. TeardownInv'
  <2>1. td.sampled <= B'.cpu
    <3>1. td.sampled \in Nat /\ B.cpu \in Nat /\ box'[attempt.phase].cpu \in Nat /\ td.sampled <= B.cpu
      BY <1>1, BoxTyped DEF IInv, TypeInv, TeardownInv, Teardowns, Boxes, B, BudgetAssumption
    <3> QED
      BY <1>1, <3>1
  <2>2. td.finalized => /\ client = "exited" /\ td.failed
                        /\ Named(attempt.phase, "container")
                        /\ ~B.parent \/ Named(attempt.phase, "parent")
    BY <1>2 DEF IInv, TeardownInv, CleanlyDown
  <2>3. td.step = "snapshot" => B'.state = "exited"
    BY <1>1 DEF IInv, TeardownInv
  <2>4. \A p \in Phases, reason \in Unknown : Named(p, reason)' <=> Named(p, reason)
    BY DEF Named
  <2>5. B'.parent = B.parent
    BY <1>1
  <2>6. td.finalized => /\ Named(attempt.phase, "container")'
                        /\ ~B'.parent \/ Named(attempt.phase, "parent")'
    BY <2>2, <2>5 DEF Named
  <2> QED
    BY <2>1, <2>2, <2>3, <2>6 DEF IInv, TeardownInv
<1>9. ReceiptInv'
  <2>1. receipt # "complete"
    BY <1>2 DEF IInv, ReceiptInv
  <2>2. CASE attempt.pc = "done"
    <3>1. \A p \in Phases : /\ box'[p].state = box[p].state /\ box'[p].parent = box[p].parent
                            /\ box[p].tasks = {} => box'[p].tasks = {}
      BY <2>2 DEF B
    <3> QED
      BY <2>1, <2>2, <3>1 DEF IInv, ReceiptInv, LeakNamed, Named
  <2>3. CASE attempt.pc # "done"
    BY <2>1, <2>3 DEF ReceiptInv, LeakNamed
  <2> QED
    BY <2>2, <2>3
<1> QED
  BY <1>3, <1>4, <1>6, <1>7, <1>8, <1>9 DEF IInv

\* A task runs only in the box of the current phase, before its teardown has removed it.
LEMMA TaskOwned ==
  ASSUME IInv, NEW p \in Phases, box[p].tasks # {}
  PROVE  /\ p = attempt.phase /\ B.state \in {"running", "exited"} /\ ~CleanlyDown
         /\ attempt.pc \notin {"start", "prepare", "launch", "decide", "pin", "seal"}
         /\ td.step \notin {"rm", "parent"}
         /\ attempt.pc = "done" => td.finalized
         /\ receipt # "complete"
<1>1. p = attempt.phase
  <2>1. p # attempt.phase => box[p] = NoBox \/ Removed(p)
    BY BoxTyped DEF IInv, PhaseInv, Phases
  <2> QED
    BY <2>1 DEF IInv, BoxInv, NoBox, Removed
<1>2. B.state \in {"running", "exited"} /\ B.tasks # {}
  BY <1>1, BoxTyped DEF IInv, BoxInv, B
<1>3. ~CleanlyDown
  BY <1>2 DEF IInv, TeardownInv, CleanlyDown, Removed, B
<1> QED
  BY <1>1, <1>2, <1>3 DEF IInv, PlaceInv, TeardownInv, ReceiptInv, Unstarted

LEMMA CreateKeeps == ASSUME BudgetAssumption, IInv, Create PROVE IInv'
<1>1. /\ client = "running" /\ B.state \in {"none", "created"} /\ attempt.pc # "done"
      /\ UNCHANGED <<attempt, context, client, reply, td, canceller, disk, hashed, receipt, scratch, retentions, failures>>
      /\ box' = [box EXCEPT ![attempt.phase].state = IF B.state = "none" THEN "created" ELSE "running",
                            ![attempt.phase].tasks = IF B.state = "none" THEN {} ELSE {"leader"},
                            ![attempt.phase].nested = TRUE]
  BY DEF Create
<1>2. /\ box' \in [Phases -> Boxes] /\ \A p \in Phases \ {attempt.phase} : box'[p] = box[p]
      /\ box'[attempt.phase].parent = B.parent /\ box'[attempt.phase].cpu = B.cpu
      /\ box'[attempt.phase].state \in {"created", "running"}
      /\ box'[attempt.phase].state = "created" => box'[attempt.phase].tasks = {}
  <2>1. /\ box' \in [Phases -> Boxes] /\ \A p \in Phases \ {attempt.phase} : box'[p] = box[p]
    BY <1>1 DEF IInv, TypeInv, Attempts, Boxes, Tasks
  <2>2. box'[attempt.phase] = [B EXCEPT !.state = IF B.state = "none" THEN "created" ELSE "running",
                                        !.tasks = IF B.state = "none" THEN {} ELSE {"leader"},
                                        !.nested = TRUE]
    BY <1>1 DEF IInv, TypeInv, Attempts, Boxes, B
  <2>3. B \in Boxes
    BY BoxTyped DEF IInv
  <2> QED
    BY <2>1, <2>2, <2>3 DEF Boxes
<1>3. ~td.finalized /\ attempt.pc \notin {"start", "prepare", "launch"} /\ td.step \notin {"rm", "parent", "snapshot"}
  BY <1>1 DEF IInv, TeardownInv, PlaceInv, Unstarted
<1>4. td.step \in {"idle", "kill", "wait"}
  BY <1>3, PlacesOf DEF IInv, Steps
<1>5. /\ attempt' \in Attempts /\ failures' \in 0 .. MaxFaults /\ reply' \in {"none", "outputs", "failure", "garbage"}
      /\ B.cpu <= box'[attempt.phase].cpu
  BY <1>1, <1>2, BoxTyped DEF IInv, TypeInv, B
<1> QED
  BY <1>1, <1>2, <1>3, <1>4, <1>5, BoxMoves

LEMMA BurnKeeps == ASSUME BudgetAssumption, IInv, NEW p \in Phases, Burn(p) PROVE IInv'
<1>1. /\ box[p].tasks # {} /\ box[p].cpu < MaxBurn /\ box' = [box EXCEPT ![p].cpu = @ + 1]
      /\ UNCHANGED <<attempt, context, client, reply, td, canceller, disk, hashed, receipt, scratch, retentions, failures>>
  BY DEF Burn
<1>2. p = attempt.phase /\ B = box[p] /\ B \in Boxes
  BY <1>1, TaskOwned, BoxTyped DEF B, IInv
<1>3. B.cpu + 1 \in 0 .. MaxBurn /\ B.cpu <= B.cpu + 1
  BY <1>1, <1>2 DEF Boxes, BudgetAssumption
<1>4. /\ box' \in [Phases -> Boxes] /\ \A q \in Phases \ {p} : box'[q] = box[q]
      /\ box'[p] = [B EXCEPT !.cpu = B.cpu + 1]
  BY <1>1, <1>2, <1>3 DEF IInv, TypeInv, Boxes
<1>5. /\ box'[p].parent = B.parent /\ box'[p].state = B.state /\ box'[p].tasks = B.tasks /\ B.cpu <= box'[p].cpu
  BY <1>2, <1>3, <1>4 DEF Boxes
<1>6. /\ attempt' \in Attempts /\ failures' \in 0 .. MaxFaults /\ reply' \in {"none", "outputs", "failure", "garbage"}
  BY <1>1 DEF IInv, TypeInv
<1> QED
  BY <1>1, <1>2, <1>4, <1>5, <1>6, TaskOwned, BoxMoves

LEMMA ForkKeeps == ASSUME BudgetAssumption, IInv, Fork PROVE IInv'
<1>1. /\ box["execute"].tasks # {} /\ box' = [box EXCEPT !["execute"].tasks = @ \cup {"writer"}]
      /\ UNCHANGED <<attempt, context, client, reply, td, canceller, disk, hashed, receipt, scratch, retentions, failures>>
  BY DEF Fork
<1>2. "execute" = attempt.phase /\ B = box["execute"] /\ B \in Boxes /\ "execute" \in Phases
  BY <1>1, TaskOwned, BoxTyped DEF B, IInv, Phases
<1>3. /\ box' \in [Phases -> Boxes] /\ \A q \in Phases \ {"execute"} : box'[q] = box[q]
      /\ box'["execute"] = [B EXCEPT !.tasks = @ \cup {"writer"}]
  BY <1>1, <1>2 DEF IInv, TypeInv, Boxes, Tasks
<1>4. /\ box'["execute"].parent = B.parent /\ box'["execute"].state = B.state /\ B.cpu <= box'["execute"].cpu
  BY <1>2, <1>3 DEF Boxes, BudgetAssumption
<1>5. /\ attempt' \in Attempts /\ failures' \in 0 .. MaxFaults /\ reply' \in {"none", "outputs", "failure", "garbage"}
  BY <1>1 DEF IInv, TypeInv
<1> QED
  BY <1>1, <1>2, <1>3, <1>4, <1>5, TaskOwned, BoxMoves

LEMMA TaskDiesKeeps == ASSUME BudgetAssumption, IInv, NEW p \in Phases, TaskDies(p) PROVE IInv'
<1>1. PICK t \in box[p].tasks : box' = [box EXCEPT ![p].tasks = @ \ {t}]
  BY DEF TaskDies
<1>2. /\ box[p].tasks # {}
      /\ UNCHANGED <<attempt, context, client, reply, td, canceller, disk, hashed, receipt, scratch, retentions, failures>>
  BY DEF TaskDies
<1>3. p = attempt.phase /\ B = box[p] /\ B \in Boxes
  BY <1>2, TaskOwned, BoxTyped DEF B, IInv
<1>4. /\ box' \in [Phases -> Boxes] /\ \A q \in Phases \ {p} : box'[q] = box[q]
      /\ box'[p] = [B EXCEPT !.tasks = @ \ {t}]
  BY <1>1, <1>3 DEF IInv, TypeInv, Boxes
<1>5. /\ box'[p].parent = B.parent /\ box'[p].state = B.state /\ B.cpu <= box'[p].cpu
  BY <1>3, <1>4 DEF Boxes, BudgetAssumption
<1>6. /\ attempt' \in Attempts /\ failures' \in 0 .. MaxFaults /\ reply' \in {"none", "outputs", "failure", "garbage"}
  BY <1>2 DEF IInv, TypeInv
<1> QED
  BY <1>2, <1>3, <1>4, <1>5, <1>6, TaskOwned, BoxMoves

LEMMA LeaderExitsKeeps == ASSUME BudgetAssumption, IInv, LeaderExits PROVE IInv'
<1>1. /\ B.tasks # {} /\ B.state = "running" /\ attempt.pc # "done"
      /\ box' = [box EXCEPT ![attempt.phase].state = "exited", ![attempt.phase].tasks = @ \ {"leader"}]
      /\ UNCHANGED <<context, client, reply, td, canceller, disk, hashed, receipt, scratch, retentions>>
      /\ UNCHANGED attempt \/ attempt' = [attempt EXCEPT !.exit = "failed"]
      /\ failures' \in 0 .. MaxFaults
  BY FailuresBounded DEF LeaderExits
<1>2. attempt.phase \in Phases /\ B = box[attempt.phase] /\ B \in Boxes
  BY BoxTyped DEF B, IInv
<1>3. /\ attempt' \in Attempts /\ attempt'.pc = attempt.pc /\ attempt'.phase = attempt.phase
      /\ attempt'.used = attempt.used
  BY <1>1 DEF IInv, TypeInv, Attempts
<1>4. /\ box' \in [Phases -> Boxes] /\ \A q \in Phases \ {attempt.phase} : box'[q] = box[q]
      /\ box'[attempt.phase] = [B EXCEPT !.state = "exited", !.tasks = @ \ {"leader"}]
  BY <1>1, <1>2 DEF IInv, TypeInv, Boxes
<1>5. /\ box'[attempt.phase].parent = B.parent /\ box'[attempt.phase].state = "exited"
      /\ B.cpu <= box'[attempt.phase].cpu
  BY <1>2, <1>4 DEF Boxes, BudgetAssumption
<1>6. reply' \in {"none", "outputs", "failure", "garbage"} /\ td.step # "snapshot"
  BY <1>1 DEF IInv, TypeInv, TeardownInv
<1>7. td.step \in {"idle", "kill", "wait"}
  BY <1>1, <1>2, <1>6, TaskOwned, PlacesOf DEF IInv, Steps
<1> QED
  BY <1>1, <1>2, <1>3, <1>4, <1>5, <1>6, <1>7, TaskOwned, BoxMoves

\* A step that touches neither the supervisor nor a box: a write, a reply, an end of the client.
LEMMA OutsideMoves ==
  ASSUME BudgetAssumption, IInv,
         UNCHANGED <<attempt, box, receipt, scratch, retentions>>,
         client' = client \/ (client = "running" /\ client' = "exited"),
         td' = td \/ (td.holder # "none" /\ td' = [td EXCEPT !.bound = FALSE]),
         context' = context \/ (context = "live" /\ context' \in {"timeout", "cancelled", "caller"}),
         canceller' = canceller \/ (canceller' = "calling" /\ context # "live" /\ client = "running"),
         disk' \in 0 .. MaxWrites, hashed' \in 0 .. MaxWrites,
         (disk' = disk /\ hashed' = hashed) \/ \E p \in Phases : box[p].tasks # {},
         reply' \in {"none", "outputs", "failure", "garbage"}, failures' \in 0 .. MaxFaults
  PROVE  IInv'
<1>1. B' = B
  BY DEF B
<1>2. /\ td' \in Teardowns /\ td'.holder = td.holder /\ td'.step = td.step /\ td'.finalized = td.finalized
      /\ td'.failed = td.failed /\ td'.lost = td.lost /\ td'.sampled = td.sampled
      /\ td = NoTeardown => td' = td
  <2>1. CASE td' = td
    BY <2>1 DEF IInv, TypeInv
  <2>2. CASE td.holder # "none" /\ td' = [td EXCEPT !.bound = FALSE]
    <3>1. td # NoTeardown
      BY <2>2 DEF NoTeardown
    <3> QED
      BY <2>2, <3>1 DEF IInv, TypeInv, Teardowns
  <2> QED
    BY <2>1, <2>2
<1>3. TypeInv'
  BY <1>2 DEF IInv, TypeInv
<1>4. BoxInv' /\ CancelInv' /\ PhaseInv'
  <2>1. BoxInv' /\ PhaseInv'
    BY DEF IInv, BoxInv, PhaseInv, Removed
  <2>2. CancelInv'
    BY DEF IInv, CancelInv
  <2> QED
    BY <2>1, <2>2
<1>5. attempt.pc = "seal" \/ receipt = "complete" => disk' = disk /\ hashed' = hashed
  BY TaskOwned
<1>6. Unstarted => Unstarted'
  BY <1>1, <1>2 DEF Unstarted
<1>7. (CleanlyDown => CleanlyDown') /\ cpuBudget' = cpuBudget
  BY <1>2 DEF CleanlyDown, cpuBudget
<1>8. PlaceInv'
  BY <1>1, <1>2, <1>5, <1>6, <1>7 DEF IInv, PlaceInv
<1>9. TeardownInv'
  <2>1. \A p \in Phases : Removed(p) => Removed(p)'
    BY DEF Removed
  <2>2. attempt.phase \in Phases /\ attempt'.phase = attempt.phase /\ attempt'.pc = attempt.pc
    BY BoxTyped DEF IInv
  <2>3. (td'.finalized => client' = "exited") /\ (td.holder = "context" => canceller' = "calling")
    BY <1>2 DEF IInv, TeardownInv
  <2> QED
    BY <1>1, <1>2, <2>1, <2>2, <2>3 DEF IInv, TeardownInv, Named
<1>10. ReceiptInv'
  BY <1>2, <1>5, <1>7 DEF IInv, ReceiptInv, LeakNamed, Named
<1> QED
  BY <1>3, <1>4, <1>8, <1>9, <1>10 DEF IInv

LEMMA OutsideKeeps ==
  ASSUME BudgetAssumption, IInv,
         watchCtx \/ Write \/ ChildMain \/ ClientExits \/ TeardownTime
           \/ \E how \in {"timeout", "cancelled", "caller"} : ContextEnds(how)
  PROVE  IInv'
<1>1. failures' \in 0 .. MaxFaults /\ UNCHANGED <<attempt, box, receipt, scratch, retentions>>
  BY FailuresBounded DEF watchCtx, Write, ChildMain, ClientExits, TeardownTime, ContextEnds
<1>2. disk \in 0 .. MaxWrites /\ hashed \in 0 .. MaxWrites /\ reply \in {"none", "outputs", "failure", "garbage"}
  BY DEF IInv, TypeInv
<1>3. CASE watchCtx \/ ClientExits \/ TeardownTime
  BY <1>1, <1>2, <1>3, OutsideMoves DEF watchCtx, ClientExits, TeardownTime
<1>4. CASE \E how \in {"timeout", "cancelled", "caller"} : ContextEnds(how)
  BY <1>1, <1>2, <1>4, OutsideMoves DEF ContextEnds
<1>5. CASE Write
  <2>1. disk' \in 0 .. MaxWrites /\ \E p \in Phases : box[p].tasks # {}
    BY <1>2, <1>5 DEF Write, Phases, BudgetAssumption
  <2> QED
    BY <1>1, <1>2, <1>5, <2>1, OutsideMoves DEF Write
<1>6. CASE ChildMain
  <2>1. (\E p \in Phases : box[p].tasks # {}) /\ hashed' \in 0 .. MaxWrites
        /\ reply' \in {"none", "outputs", "failure", "garbage"}
    BY <1>2, <1>6, BoxTyped DEF ChildMain, B, IInv
  <2> QED
    BY <1>1, <1>2, <1>6, <2>1, OutsideMoves DEF ChildMain
<1> QED
  BY <1>3, <1>4, <1>5, <1>6

-----------------------------------------------------------------------------
LEMMA InitInv == ASSUME BudgetAssumption, Init PROVE IInv
<1>1. TypeInv
  <2>1. NoBox \in Boxes /\ NoTeardown \in Teardowns
    BY DEF NoBox, NoTeardown, Boxes, Teardowns, Steps, BudgetAssumption
  <2>2. attempt \in Attempts
    BY DEF Init, Attempts, Places, Phases, Causes, BudgetAssumption
  <2>3. box \in [Phases -> Boxes] /\ td \in Teardowns
    BY <2>1 DEF Init
  <2>4. /\ disk \in 0 .. MaxWrites /\ hashed \in 0 .. MaxWrites /\ failures \in 0 .. MaxFaults
        /\ retentions \subseteq Phases \X SUBSET Unknown
    BY DEF Init, BudgetAssumption
  <2> QED
    BY <2>2, <2>3, <2>4 DEF TypeInv, Init, Causes
<1>2. attempt.pc = "start" /\ attempt.phase = "execute" /\ B = NoBox /\ \A p \in Phases : box[p] = NoBox
  BY DEF Init, B, Phases
<1>3. BoxInv /\ PhaseInv /\ CancelInv
  BY <1>2 DEF Init, BoxInv, PhaseInv, CancelInv, NoBox, Phases
<1>4. PlaceInv
  BY <1>2 DEF Init, PlaceInv, Unstarted, NoBox
<1>5. TeardownInv /\ ReceiptInv
  BY <1>2 DEF Init, TeardownInv, ReceiptInv, LeakNamed, NoTeardown, NoBox
<1> QED
  BY <1>1, <1>3, <1>4, <1>5 DEF IInv

LEMMA StutterKeeps == ASSUME IInv, UNCHANGED vars PROVE IInv'
<1>1. UNCHANGED <<attempt, context, client, box, reply, td, canceller, disk, hashed, receipt, scratch, retentions, failures>>
  BY DEF vars
<1>2. B' = B
  BY <1>1 DEF B
<1>3. TypeInv' /\ BoxInv' /\ PhaseInv' /\ CancelInv'
  BY <1>1 DEF IInv, TypeInv, BoxInv, PhaseInv, CancelInv, Removed
<1>4. PlaceInv'
  BY <1>1, <1>2 DEF IInv, PlaceInv, Unstarted, CleanlyDown, cpuBudget
<1>5. TeardownInv' /\ ReceiptInv'
  BY <1>1, <1>2 DEF IInv, TeardownInv, ReceiptInv, LeakNamed, Removed, Named, CleanlyDown, cpuBudget
<1> QED
  BY <1>3, <1>4, <1>5 DEF IInv

LEMMA NextInv == ASSUME BudgetAssumption, IInv, [Next]_vars PROVE IInv'
<1>1. CASE Supervise
  <2>1. CASE TdStep
    BY <2>1, TdKillKeeps, TdWaitKeeps, TdSnapshotKeeps, TdRemoveKeeps, TdParentKeeps DEF TdStep
  <2>2. CASE TdBegin("loop") \/ TdBegin("context")
    BY <2>2, TdBeginKeeps
  <2>3. CASE checkTree \/ prepare \/ start
    BY <2>3, CheckTreeKeeps, PrepareKeeps, StartKeeps
  <2>4. CASE Waited \/ ContextDone \/ WaitClient
    BY <2>4, WaitedKeeps, StoppedKeeps
  <2>5. CASE decide \/ pin \/ seal
    BY <2>5, DecideKeeps, PinKeeps, SealKeeps
  <2>6. CASE watchCtx
    BY <2>6, OutsideKeeps
  <2> QED
    BY <1>1, <2>1, <2>2, <2>3, <2>4, <2>5, <2>6 DEF Supervise
<1>2. CASE StartupTimeout \/ Tick
  BY <1>2, StoppedKeeps, TickKeeps
<1>3. CASE Create \/ Fork \/ LeaderExits \/ \E p \in Phases : Burn(p) \/ TaskDies(p)
  BY <1>3, CreateKeeps, ForkKeeps, LeaderExitsKeeps, BurnKeeps, TaskDiesKeeps
<1>4. CASE Write \/ ChildMain \/ ClientExits \/ TeardownTime
           \/ \E how \in {"timeout", "cancelled", "caller"} : ContextEnds(how)
  BY <1>4, OutsideKeeps
<1>5. CASE UNCHANGED vars
  BY <1>5, StutterKeeps
<1> QED
  BY <1>1, <1>2, <1>3, <1>4, <1>5 DEF Next

\* The invariant holds of every behaviour of an attempt, for every budget and every bound.
THEOREM Invariance == ASSUME BudgetAssumption PROVE Spec => []IInv
<1>1. Init => IInv
  BY InitInv
<1>2. IInv /\ [Next]_vars => IInv'
  BY NextInv
<1> QED
  BY <1>1, <1>2, PTL DEF Spec

-----------------------------------------------------------------------------
\* Where no task can run, the phase is behind a clean teardown.
LEMMA Contained == ASSUME BudgetAssumption, IInv PROVE AttemptContained
<1>1. TypeOK
  BY BoxTyped DEF IInv, TypeInv, PlaceInv, TypeOK, Attempts, Teardowns, Places
<1>2. SealedIsQuiet
  <2>1. attempt.phase = "validate" => box["execute"].tasks = {}
    BY DEF IInv, BoxInv, PhaseInv, Removed, Phases
  <2>2. receipt = "complete" => disk = hashed /\ \A p \in Phases : box[p].tasks = {}
    BY TaskOwned DEF IInv, ReceiptInv
  <2> QED
    BY <2>1, <2>2 DEF SealedIsQuiet
<1>3. LeakNamed
  BY DEF IInv, ReceiptInv
<1>4. BudgetHeld
  <2> SUFFICES ASSUME receipt = "complete"
               PROVE  box["execute"].cpu + box["validate"].cpu <= Budget
    BY DEF BudgetHeld
  <2>1. /\ attempt.phase = "validate" /\ td.sampled = box["validate"].cpu /\ td.sampled <= cpuBudget
        /\ attempt.used = box["execute"].cpu
    BY DEF IInv, ReceiptInv, TeardownInv, PhaseInv, CleanlyDown, B
  <2>2. box["execute"].cpu \in Nat /\ box["validate"].cpu \in Nat /\ Budget \in Nat
    BY BoxTyped DEF IInv, Phases, BudgetAssumption
  <2>3. cpuBudget = Budget - box["execute"].cpu
    BY <2>1 DEF cpuBudget
  <2> QED
    BY <2>1, <2>2, <2>3
<1> QED
  BY <1>1, <1>2, <1>3, <1>4 DEF AttemptContained

\* Whatever the runtime, the child and the caller do, no task of the conversion is left while
\* its output is validated or sealed, both phases burn no more than one budget, and a receipt
\* names what an attempt leaves behind (Supervisor.Run, the launcher's terminate).
THEOREM AttemptContainedHolds == ASSUME BudgetAssumption PROVE Spec => []AttemptContained
<1>1. IInv => AttemptContained
  BY Contained
<1> QED
  BY <1>1, Invariance, PTL

\* A teardown that answered without error counted every unit of CPU its phase burned, so what
\* the supervisor charges is what was used (the final sample of terminate).
THEOREM FinalSampleExactHolds == ASSUME BudgetAssumption PROVE Spec => []FinalSampleExact
<1>1. IInv => FinalSampleExact
  BY DEF IInv, TeardownInv, FinalSampleExact, B
<1> QED
  BY <1>1, Invariance, PTL

-----------------------------------------------------------------------------
(* The runners of a build.                                                 *)

\* A runner's transaction holds the lease row.
Transacting == {"locked", "insert", "outputs", "write", "commit"}
Told == {"committed", "unreleased"}
RunnerAnswers == Told \cup {"none", "refused", "identity", "deadline", "lost", "cancelled", "stale", "invalid",
                            "executor", "fence", "database", "late", "crashed"}
Payloads == Returns \cup {NoResult}
LeaseRows == [owner : {OwnerOf[r] : r \in Runners} \cup {Nobody}, fence : Nat, expires : Int, released : BOOLEAN]
ResultRows == [key : {KeyOf[r] : r \in Runners}, fence : Nat, payload : Payloads]
RunnerCalls == [pc : RunnerSteps, fence : Nat, expires : Int, deadline : Int, renewAt : Int, cancelled : BOOLEAN,
                result : Payloads, stored : Payloads, answer : RunnerAnswers]

RunTypeInv ==
  /\ dbClock \in 1 .. MaxTime
  /\ lease \in LeaseRows
  /\ locker \in Runners \cup {Nobody}
  /\ stageResults \in Seq(ResultRows)
  /\ run \in [status : {"pending", "running", "cancelling", "cancelled", "complete", "failed"}, requested : BOOLEAN]
  /\ build \in {"open", "running", "ready", "failed", "cancelled"}
  /\ runner \in [Runners -> RunnerCalls]

\* Each fence was granted once, and to one runner.
Granted == {r \in Runners : runner[r].fence # 0}
GrantInv ==
  /\ lease.fence = Cardinality(Granted)
  /\ \A r \in Runners :
       /\ runner[r].fence <= lease.fence
       /\ runner[r].pc = "idle" => runner[r].fence = 0
       /\ runner[r].pc \notin {"idle", "returned"} => runner[r].fence # 0
       /\ \A q \in Runners : runner[q].fence = runner[r].fence => runner[r].fence = 0 \/ q = r

\* Whoever locks the lease row is in its transaction, and the row has its fence.
RowLockInv ==
  \A r \in Runners : /\ runner[r].pc \in Transacting <=> locker = r
                     /\ locker = r => lease.fence = runner[r].fence

\* A key is stored once, under a fence that was granted, in the order of the fences.
StoreInv ==
  /\ \A i \in DOMAIN stageResults :
       /\ stageResults[i].fence <= lease.fence
       /\ stageResults[i].payload.shard = stageResults[i].key
       /\ stageResults[i].payload \in Returns /\ ResultValid(stageResults[i].payload)
  /\ \A i, j \in DOMAIN stageResults : stageResults[i].key = stageResults[j].key => i = j
  /\ FencedOrder

\* What a runner has read and checked is still so when it writes and when it answers.
IsStored(key, c) == \E i \in DOMAIN stageResults : stageResults[i].key = key /\ stageResults[i].payload = c
CallGood(r, x) ==
  /\ x.pc \in Transacting \cup {"apply", "answer"} =>
       x.result \in Returns /\ x.result.shard = KeyOf[r] /\ ResultValid(x.result)
  /\ x.pc \in {"insert", "outputs", "write"} => \A i \in DOMAIN stageResults : stageResults[i].key # KeyOf[r]
  /\ x.pc \in {"outputs", "write"} => x.stored = x.result
  /\ x.pc \in {"commit", "answer"} => IsStored(KeyOf[r], x.stored)
  /\ x.answer \in Told => IsStored(KeyOf[r], x.result)
  /\ x.pc \notin {"release", "returned"} => x.answer = "none"
CallInv == \A r \in Runners : CallGood(r, runner[r])

\* A request to cancel leaves a run on its way to the end.
ControlInv == run.requested => run.status \in {"cancelling", "cancelled", "failed"}

RunIInv == RunTypeInv /\ GrantInv /\ RowLockInv /\ StoreInv /\ CallInv /\ ControlInv

-----------------------------------------------------------------------------
\* A step of one runner that grants no fence and stores no row keeps what the others know.
LEMMA CallKeeps ==
  ASSUME RunIInv, NEW r \in Runners,
         runner' \in [Runners -> RunnerCalls], \A q \in Runners \ {r} : runner'[q] = runner[q],
         runner'[r].fence = runner[r].fence,
         runner'[r].pc = "idle" => runner[r].pc = "idle",
         runner'[r].pc \notin {"idle", "returned"} => runner[r].fence # 0,
         lease' \in LeaseRows, lease'.fence = lease.fence,
         locker' \in Runners \cup {Nobody}, \A q \in Runners \ {r} : locker' = q <=> locker = q,
         runner'[r].pc \in Transacting <=> locker' = r,
         locker' = r => lease.fence = runner[r].fence,
         CallGood(r, runner'[r]),
         UNCHANGED <<dbClock, stageResults, run, build>>
  PROVE  RunIInv'
<1>1. RunTypeInv'
  BY DEF RunIInv, RunTypeInv
<1>2. \A q \in Runners : runner'[q].fence = runner[q].fence
  OBVIOUS
<1>3. Granted' = Granted
  BY <1>2 DEF Granted
<1>4. GrantInv'
  <2>1. \A q \in Runners : /\ runner'[q].pc = "idle" => runner[q].pc = "idle"
                           /\ runner'[q].pc \notin {"idle", "returned"} => runner[q].fence # 0
    BY DEF RunIInv, GrantInv
  <2> QED
    BY <1>2, <1>3, <2>1 DEF RunIInv, GrantInv
<1>5. RowLockInv'
  <2> SUFFICES ASSUME NEW q \in Runners
               PROVE  /\ runner'[q].pc \in Transacting <=> locker' = q
                      /\ locker' = q => lease'.fence = runner'[q].fence
    BY DEF RowLockInv
  <2>1. CASE q = r
    BY <2>1
  <2>2. CASE q # r
    BY <2>2 DEF RunIInv, RowLockInv
  <2> QED
    BY <2>1, <2>2
<1>6. StoreInv'
  BY DEF RunIInv, StoreInv, FencedOrder, ResultValid, CountsValid
<1>7. CallInv'
  <2> SUFFICES ASSUME NEW q \in Runners PROVE CallGood(q, runner[q])'
    BY DEF CallInv
  <2>1. CallGood(q, runner'[q])
    BY DEF RunIInv, CallInv
  <2> QED
    BY <2>1 DEF CallGood, IsStored
<1>8. ControlInv'
  BY DEF RunIInv, ControlInv
<1> QED
  BY <1>1, <1>4, <1>5, <1>6, <1>7, <1>8 DEF RunIInv

\* A runner that gives up has its fence to release, and is told nothing it cannot rely on.
LEMMA GivesUp ==
  ASSUME RunIInv, NEW r \in Runners, NEW why \in RunnerAnswers, GiveUp(r, why)
  PROVE  /\ runner' \in [Runners -> RunnerCalls] /\ \A q \in Runners \ {r} : runner'[q] = runner[q]
         /\ runner'[r].fence = runner[r].fence /\ runner'[r].answer = why
         /\ runner'[r].result = runner[r].result
         /\ runner'[r].pc \in {"release", "returned"}
         /\ runner'[r].pc # "returned" => runner[r].fence # 0
<1>1. runner \in [Runners -> RunnerCalls]
  BY DEF RunIInv, RunTypeInv
<1>2. PICK pc \in {"release", "returned"} :
        /\ runner' = [runner EXCEPT ![r].pc = pc, ![r].answer = why]
        /\ pc # "returned" => runner[r].fence # 0
  BY DEF GiveUp
<1>3. runner' = [runner EXCEPT ![r] = [runner[r] EXCEPT !.pc = pc, !.answer = why]]
  BY <1>1, <1>2
<1>4. pc \in RunnerSteps
  BY DEF RunnerSteps
<1>5. [runner[r] EXCEPT !.pc = pc, !.answer = why] \in RunnerCalls
  BY <1>1, <1>4 DEF RunnerCalls
<1>6. runner' \in [Runners -> RunnerCalls]
  BY <1>1, <1>3, <1>5
<1> QED
  BY <1>1, <1>2, <1>3, <1>6 DEF RunnerCalls

\* Giving up outside the transaction, or out of it, keeps everything.
LEMMA GiveUpKeeps ==
  ASSUME RunIInv, NEW r \in Runners, NEW why \in RunnerAnswers, GiveUp(r, why),
         why \in Told => IsStored(KeyOf[r], runner[r].result),
         locker' = IF locker = r THEN Nobody ELSE locker,
         lease' \in LeaseRows, lease'.fence = lease.fence,
         UNCHANGED <<dbClock, stageResults, run, build>>
  PROVE  RunIInv'
<1>1. /\ runner' \in [Runners -> RunnerCalls] /\ \A q \in Runners \ {r} : runner'[q] = runner[q]
      /\ runner'[r].fence = runner[r].fence /\ runner'[r].answer = why
      /\ runner'[r].result = runner[r].result
      /\ runner'[r].pc \in {"release", "returned"}
      /\ runner'[r].pc # "returned" => runner[r].fence # 0
  BY GivesUp
<1>2. /\ locker' \in Runners \cup {Nobody} /\ locker' # r
      /\ \A q \in Runners \ {r} : locker' = q <=> locker = q
  BY RunAssumption DEF RunIInv, RunTypeInv
<1>3. CallGood(r, runner'[r])
  BY <1>1 DEF CallGood, Transacting
<1>4. runner'[r].pc \notin Transacting
  BY <1>1 DEF Transacting
<1> QED
  BY <1>1, <1>2, <1>3, <1>4, CallKeeps

\* Writing a record of its type touches nobody else's.
LEMMA CallWritten ==
  ASSUME RunIInv, NEW r \in Runners, NEW x \in RunnerCalls, runner' = [runner EXCEPT ![r] = x]
  PROVE  runner' \in [Runners -> RunnerCalls] /\ runner'[r] = x /\ \A q \in Runners \ {r} : runner'[q] = runner[q]
BY DEF RunIInv, RunTypeInv

\* The clocks and the ends of leases are integers.
LEMMA ClockTyped ==
  ASSUME RunIInv, NEW r \in Runners, NEW until \in Int
  PROVE  /\ Clock(r) \in Int /\ NextRenewal(r, until) \in Int
         /\ MinOf(Clock(r) + LeaseDuration, until) \in Int
         /\ MinOf(Clock(r) + MaxElapsed, Clock(r) + LeaseDuration) \in Int /\ Clock(r) + MaxElapsed \in Int
<1>1. Clock(r) \in Int
  BY RunAssumption DEF RunIInv, RunTypeInv, Clock
<1>2. PICK now \in Int : now = Clock(r)
  BY <1>1
<1>3. NextRenewal(r, until) \in Int
  BY <1>2, RunAssumption DEF NextRenewal
<1> QED
  BY <1>1, <1>3, RunAssumption DEF MinOf

\* What a runner's record says of itself.
LEMMA CallTyped ==
  ASSUME RunIInv, NEW r \in Runners
  PROVE  /\ runner[r] \in RunnerCalls /\ CallGood(r, runner[r])
         /\ runner[r].expires \in Int /\ runner[r].deadline \in Int /\ runner[r].fence \in Nat
         /\ runner[r].result \in Payloads /\ runner[r].stored \in Payloads
         /\ runner[r].pc \notin {"idle", "returned"} => runner[r].fence # 0
         /\ runner[r].pc \in Transacting <=> locker = r
         /\ locker = r => lease.fence = runner[r].fence
         /\ lease \in LeaseRows /\ locker \in Runners \cup {Nobody}
<1>1. runner[r] \in RunnerCalls
  BY DEF RunIInv, RunTypeInv
<1> QED
  BY <1>1 DEF RunIInv, RunTypeInv, CallInv, GrantInv, RowLockInv, RunnerCalls

\* A runner that moves within its own record, outside the transaction.
LEMMA CallOutsideKeeps ==
  ASSUME RunIInv, NEW r \in Runners, NEW x \in RunnerCalls, runner' = [runner EXCEPT ![r] = x],
         runner[r].pc \notin Transacting, x.pc \notin Transacting \cup {"idle"},
         x.fence = runner[r].fence, runner[r].fence # 0, CallGood(r, x),
         lease' \in LeaseRows, lease'.fence = lease.fence,
         UNCHANGED <<dbClock, locker, stageResults, run, build>>
  PROVE  RunIInv'
<1>1. runner' \in [Runners -> RunnerCalls] /\ runner'[r] = x /\ \A q \in Runners \ {r} : runner'[q] = runner[q]
  BY CallWritten
<1>2. locker # r /\ locker \in Runners \cup {Nobody}
  BY CallTyped
<1>3. CallGood(r, runner'[r])
  BY <1>1
<1> QED
  BY <1>1, <1>2, <1>3, CallKeeps

\* Giving up outside the transaction.
LEMMA OutsideGivesUp ==
  ASSUME RunIInv, NEW r \in Runners, NEW why \in RunnerAnswers, GiveUp(r, why),
         why \in Told => IsStored(KeyOf[r], runner[r].result),
         runner[r].pc \notin Transacting, lease' \in LeaseRows, lease'.fence = lease.fence,
         UNCHANGED <<dbClock, locker, stageResults, run, build>>
  PROVE  RunIInv'
<1>1. locker # r
  BY CallTyped
<1> QED
  BY <1>1, GiveUpKeeps

LEMMA BindKeeps == ASSUME RunIInv, NEW r \in Runners, Bind(r) PROVE RunIInv'
<1>1. runner[r].pc = "bind" /\ runner[r].pc \notin Transacting /\ lease \in LeaseRows /\ runner[r].fence # 0
  BY CallTyped DEF Bind, Transacting
<1>2. UNCHANGED <<dbClock, lease, locker, stageResults, run, build>>
  BY DEF Bind
<1>3. CASE GiveUp(r, "identity") \/ GiveUp(r, "deadline")
  BY <1>1, <1>2, <1>3, OutsideGivesUp DEF RunnerAnswers, Told
<1>4. CASE runner' = [runner EXCEPT ![r].pc = "executing", ![r].renewAt = NextRenewal(r, runner[r].expires)]
  <2> DEFINE x == [runner[r] EXCEPT !.pc = "executing", !.renewAt = NextRenewal(r, runner[r].expires)]
  <2>1. NextRenewal(r, runner[r].expires) \in Int
    BY CallTyped, ClockTyped
  <2>2. x \in RunnerCalls /\ x.pc = "executing" /\ x.fence = runner[r].fence /\ x.answer = runner[r].answer
    BY <2>1, CallTyped DEF RunnerCalls, RunnerSteps
  <2>3. runner' = [runner EXCEPT ![r] = x]
    BY <1>4, CallTyped DEF RunIInv, RunTypeInv
  <2>4. runner[r].answer = "none"
    BY <1>1, CallTyped DEF CallGood
  <2>5. CallGood(r, x) /\ x.pc \notin Transacting \cup {"idle"}
    BY <2>2, <2>4 DEF CallGood, Transacting, Told
  <2> HIDE DEF x
  <2> QED
    BY <1>1, <1>2, <2>2, <2>3, <2>5, CallOutsideKeeps
<1> QED
  BY <1>3, <1>4 DEF Bind

LEMMA RenewKeeps == ASSUME RunIInv, NEW r \in Runners, Renew(r) PROVE RunIInv'
<1> DEFINE until == MinOf(Clock(r) + LeaseDuration, runner[r].deadline)
           x == [runner[r] EXCEPT !.expires = until, !.renewAt = NextRenewal(r, until)]
<1>1. runner[r].pc = "executing" /\ runner[r].pc \notin Transacting /\ lease \in LeaseRows /\ runner[r].fence # 0
  BY CallTyped DEF Renew, Transacting
<1>2. UNCHANGED <<dbClock, locker, stageResults, run, build>>
  BY DEF Renew
<1>3. CASE GiveUp(r, "lost") /\ UNCHANGED lease
  BY <1>1, <1>2, <1>3, OutsideGivesUp DEF RunnerAnswers, Told
<1>4. CASE /\ RenewSchedulerLease(r, until)
           /\ runner' = [runner EXCEPT ![r].expires = until, ![r].renewAt = NextRenewal(r, until)]
  <2>1. until \in Int /\ NextRenewal(r, until) \in Int
    BY CallTyped, ClockTyped
  <2>2. lease' \in LeaseRows /\ lease'.fence = lease.fence
    BY <1>1, <1>4, <2>1 DEF RenewSchedulerLease, LeaseRows
  <2> HIDE DEF until
  <2>3. x \in RunnerCalls /\ x.pc = "executing" /\ x.fence = runner[r].fence /\ x.answer = runner[r].answer
    BY <1>1, <2>1, CallTyped DEF RunnerCalls
  <2>4. runner' = [runner EXCEPT ![r] = x]
    BY <1>4, CallTyped DEF RunIInv, RunTypeInv
  <2>5. runner[r].answer = "none"
    BY <1>1, CallTyped DEF CallGood
  <2>6. CallGood(r, x) /\ x.pc \notin Transacting \cup {"idle"}
    BY <2>3, <2>5 DEF CallGood, Transacting, Told
  <2> HIDE DEF x
  <2> QED
    BY <1>1, <1>2, <2>2, <2>3, <2>4, <2>6, CallOutsideKeeps
<1> QED
  BY <1>3, <1>4 DEF Renew

\* The executor is left, or it fails.
LEMMA LeaveKeeps ==
  ASSUME RunIInv, NEW r \in Runners, Abandon(r) \/ ExecutorFails(r) \/ LoseAnswer(r)
  PROVE  RunIInv'
<1>1. runner[r].pc \notin Transacting /\ lease \in LeaseRows
  BY CallTyped DEF Abandon, ExecutorFails, LoseAnswer, Transacting
<1>2. UNCHANGED <<dbClock, lease, locker, stageResults, run, build>>
  BY DEF Abandon, ExecutorFails, LoseAnswer
<1>3. PICK why \in {"cancelled", "deadline", "executor", "database"} : GiveUp(r, why)
  BY DEF Abandon, ExecutorFails, LoseAnswer
<1> QED
  BY <1>1, <1>2, <1>3, OutsideGivesUp DEF RunnerAnswers, Told

LEMMA AcceptKeeps == ASSUME RunIInv, NEW r \in Runners, NEW c \in Returns, Accept(r, c) PROVE RunIInv'
<1>1. runner[r].pc = "executing" /\ runner[r].pc \notin Transacting /\ lease \in LeaseRows /\ runner[r].fence # 0
  BY CallTyped DEF Accept, Transacting
<1>2. UNCHANGED <<dbClock, lease, locker, stageResults, run, build>>
  BY DEF Accept
<1>3. CASE GiveUp(r, "lost") \/ GiveUp(r, "stale") \/ GiveUp(r, "invalid")
  BY <1>1, <1>2, <1>3, OutsideGivesUp DEF RunnerAnswers, Told
<1>4. CASE c.shard = KeyOf[r] /\ ResultValid(c) /\ runner' = [runner EXCEPT ![r].pc = "apply", ![r].result = c]
  <2> DEFINE x == [runner[r] EXCEPT !.pc = "apply", !.result = c]
  <2>1. x \in RunnerCalls /\ x.pc = "apply" /\ x.fence = runner[r].fence /\ x.answer = runner[r].answer /\ x.result = c
    BY CallTyped DEF RunnerCalls, RunnerSteps, Payloads
  <2>2. runner' = [runner EXCEPT ![r] = x]
    BY <1>4, CallTyped DEF RunIInv, RunTypeInv
  <2>3. runner[r].answer = "none"
    BY <1>1, CallTyped DEF CallGood
  <2> HIDE DEF x
  <2>4. CallGood(r, x) /\ x.pc \notin Transacting \cup {"idle"}
    BY <1>4, <2>1, <2>3 DEF CallGood, Transacting, Told
  <2> QED
    BY <1>1, <1>2, <2>1, <2>2, <2>4, CallOutsideKeeps
<1> QED
  BY <1>3, <1>4 DEF Accept

\* A runner that moves within its transaction, or begins it under the current fence.
LEMMA TransactionKeeps ==
  ASSUME RunIInv, NEW r \in Runners, NEW x \in RunnerCalls, runner' = [runner EXCEPT ![r] = x],
         x.pc \in Transacting, x.fence = runner[r].fence, runner[r].fence # 0, lease.fence = runner[r].fence,
         locker \in {Nobody, r}, locker' = r, CallGood(r, x),
         UNCHANGED <<dbClock, lease, stageResults, run, build>>
  PROVE  RunIInv'
<1>1. runner' \in [Runners -> RunnerCalls] /\ runner'[r] = x /\ \A q \in Runners \ {r} : runner'[q] = runner[q]
  BY CallWritten
<1>2. \A q \in Runners \ {r} : locker' = q <=> locker = q
  BY RunAssumption
<1>3. CallGood(r, runner'[r]) /\ lease \in LeaseRows
  BY <1>1, CallTyped
<1>4. runner'[r].pc \notin {"idle", "returned"} /\ runner'[r].pc # "idle" /\ runner'[r].pc \in Transacting
  BY <1>1 DEF Transacting
<1> QED
  BY <1>1, <1>2, <1>3, <1>4, CallKeeps

LEMMA LockKeeps == ASSUME RunIInv, NEW r \in Runners, LockSchedulerFence(r) PROVE RunIInv'
<1>1. /\ runner[r].pc = "apply" /\ runner[r].pc \notin Transacting /\ lease \in LeaseRows /\ runner[r].fence # 0
      /\ locker \in {Nobody, r}
  BY CallTyped DEF LockSchedulerFence, Transacting, RowFree
<1>2. UNCHANGED <<dbClock, lease, stageResults, run, build>>
  BY DEF LockSchedulerFence
<1>3. CASE GiveUp(r, "fence") /\ UNCHANGED locker
  BY <1>1, <1>2, <1>3, OutsideGivesUp DEF RunnerAnswers, Told
<1>4. CASE FenceValid(r) /\ locker' = r /\ runner' = [runner EXCEPT ![r].pc = "locked"]
  <2> DEFINE x == [runner[r] EXCEPT !.pc = "locked"]
  <2>1. /\ x \in RunnerCalls /\ x.pc = "locked" /\ x.fence = runner[r].fence /\ x.answer = runner[r].answer
        /\ x.result = runner[r].result
    BY CallTyped DEF RunnerCalls, RunnerSteps
  <2>2. runner' = [runner EXCEPT ![r] = x]
    BY <1>4, CallTyped DEF RunIInv, RunTypeInv
  <2>3. lease.fence = runner[r].fence
    BY <1>4 DEF FenceValid, Holds
  <2>4. CallGood(r, runner[r])
    BY CallTyped
  <2> HIDE DEF x
  <2>5. CallGood(r, x) /\ x.pc \in Transacting
    BY <1>1, <2>1, <2>4 DEF CallGood, Transacting, Told
  <2> QED
    BY <1>1, <1>2, <1>4, <2>1, <2>2, <2>3, <2>5, TransactionKeeps
<1> QED
  BY <1>3, <1>4 DEF LockSchedulerFence

\* Which key is stored is decided under the lock, and holds until the commit.
LEMMA RunFindKeeps == ASSUME RunIInv, NEW r \in Runners, FindStageResult(r) PROVE RunIInv'
<1> DEFINE found == Stored(KeyOf[r])
           pc == IF found = {} THEN "insert" ELSE "commit"
           read == IF found = {} THEN NoResult ELSE stageResults[CHOOSE i \in found : TRUE].payload
           x == [runner[r] EXCEPT !.pc = pc, !.stored = read]
<1>1. /\ runner[r].pc = "locked" /\ runner[r].pc \in Transacting /\ runner[r].fence # 0
      /\ locker = r /\ lease.fence = runner[r].fence /\ CallGood(r, runner[r])
  BY CallTyped DEF FindStageResult, Transacting
<1>2. UNCHANGED <<dbClock, lease, locker, stageResults, run, build>>
  BY DEF FindStageResult
<1>3. CASE found = {}
  <2>1. pc = "insert" /\ read \in Payloads /\ \A i \in DOMAIN stageResults : stageResults[i].key # KeyOf[r]
    BY <1>3 DEF Payloads, Stored
  <2> HIDE DEF pc, read
  <2>2. /\ x \in RunnerCalls /\ x.pc = "insert" /\ x.fence = runner[r].fence /\ x.answer = runner[r].answer
        /\ x.result = runner[r].result
    BY <2>1, CallTyped DEF RunnerCalls, RunnerSteps
  <2>3. runner' = [runner EXCEPT ![r] = x]
    BY CallTyped DEF FindStageResult, RunIInv, RunTypeInv, pc, read
  <2> HIDE DEF x
  <2>4. CallGood(r, x) /\ x.pc \in Transacting
    BY <1>1, <2>1, <2>2 DEF CallGood, Transacting, Told
  <2> QED
    BY <1>1, <1>2, <2>2, <2>3, <2>4, TransactionKeeps
<1>4. CASE found # {}
  <2>1. PICK k \in found : read = stageResults[k].payload
    BY <1>4
  <2>2. pc = "commit"
    BY <1>4
  <2>3. read \in Payloads /\ IsStored(KeyOf[r], read)
    BY <2>1 DEF Stored, IsStored, RunIInv, StoreInv, Payloads
  <2> HIDE DEF pc, read
  <2>4. /\ x \in RunnerCalls /\ x.pc = "commit" /\ x.fence = runner[r].fence /\ x.answer = runner[r].answer
        /\ x.result = runner[r].result /\ x.stored = read
    BY <2>2, <2>3, CallTyped DEF RunnerCalls, RunnerSteps
  <2>5. runner' = [runner EXCEPT ![r] = x]
    BY CallTyped DEF FindStageResult, RunIInv, RunTypeInv, pc, read
  <2> HIDE DEF x
  <2>6. CallGood(r, x) /\ x.pc \in Transacting
    BY <1>1, <2>3, <2>4 DEF CallGood, Transacting, Told
  <2> QED
    BY <1>1, <1>2, <2>4, <2>5, <2>6, TransactionKeeps
<1> QED
  BY <1>3, <1>4

LEMMA InsertKeeps == ASSUME RunIInv, NEW r \in Runners, InsertStageResult(r) PROVE RunIInv'
<1>1. /\ runner[r].pc = "insert" /\ runner[r].pc \in Transacting /\ runner[r].fence # 0 /\ lease \in LeaseRows
      /\ locker = r /\ lease.fence = runner[r].fence /\ CallGood(r, runner[r])
  BY CallTyped DEF InsertStageResult, Transacting
<1>2. UNCHANGED <<dbClock, lease, stageResults, run, build>>
  BY DEF InsertStageResult
<1>3. CASE GiveUp(r, "fence") /\ locker' = Nobody
  BY <1>1, <1>2, <1>3, GiveUpKeeps DEF RunnerAnswers, Told
<1>4. CASE locker' = r /\ runner' = [runner EXCEPT ![r].pc = "outputs", ![r].stored = runner[r].result]
  <2> DEFINE x == [runner[r] EXCEPT !.pc = "outputs", !.stored = runner[r].result]
  <2>1. /\ x \in RunnerCalls /\ x.pc = "outputs" /\ x.fence = runner[r].fence /\ x.answer = runner[r].answer
        /\ x.result = runner[r].result /\ x.stored = x.result
    BY CallTyped DEF RunnerCalls, RunnerSteps
  <2>2. runner' = [runner EXCEPT ![r] = x]
    BY <1>4, CallTyped DEF RunIInv, RunTypeInv
  <2> HIDE DEF x
  <2>3. CallGood(r, x) /\ x.pc \in Transacting
    BY <1>1, <2>1 DEF CallGood, Transacting, Told
  <2> QED
    BY <1>1, <1>2, <1>4, <2>1, <2>2, <2>3, TransactionKeeps
<1> QED
  BY <1>3, <1>4 DEF InsertStageResult

LEMMA OutputsKeep == ASSUME RunIInv, NEW r \in Runners, InsertStageResultOutput(r) PROVE RunIInv'
<1> DEFINE x == [runner[r] EXCEPT !.pc = "write"]
<1>1. /\ runner[r].pc = "outputs" /\ runner[r].pc \in Transacting /\ runner[r].fence # 0
      /\ locker = r /\ lease.fence = runner[r].fence /\ CallGood(r, runner[r])
  BY CallTyped DEF InsertStageResultOutput, Transacting
<1>2. UNCHANGED <<dbClock, lease, locker, stageResults, run, build>>
  BY DEF InsertStageResultOutput
<1>3. /\ x \in RunnerCalls /\ x.pc = "write" /\ x.fence = runner[r].fence /\ x.answer = runner[r].answer
      /\ x.result = runner[r].result /\ x.stored = runner[r].stored
  BY CallTyped DEF RunnerCalls, RunnerSteps
<1>4. runner' = [runner EXCEPT ![r] = x]
  BY CallTyped DEF InsertStageResultOutput, RunIInv, RunTypeInv
<1> HIDE DEF x
<1>5. CallGood(r, x) /\ x.pc \in Transacting
  BY <1>1, <1>3 DEF CallGood, Transacting, Told
<1> QED
  BY <1>1, <1>2, <1>3, <1>4, <1>5, TransactionKeeps

\* The row a runner writes is the only one of its key, and none has a later fence.
LEMMA AppendKeeps ==
  ASSUME RunIInv, NEW r \in Runners, runner[r].pc = "write", Commit(r)
  PROVE  RunIInv'
<1> DEFINE row == [key |-> KeyOf[r], fence |-> runner[r].fence, payload |-> runner[r].stored]
           x == [runner[r] EXCEPT !.pc = "answer"]
           n == Len(stageResults)
<1>1. /\ runner[r].pc \in Transacting /\ runner[r].fence # 0 /\ locker = r /\ lease.fence = runner[r].fence
      /\ CallGood(r, runner[r]) /\ runner[r] \in RunnerCalls /\ lease \in LeaseRows
      /\ runner[r].fence \in Nat /\ runner[r].stored \in Payloads
  BY CallTyped DEF Transacting
<1>2. /\ stageResults' = Append(stageResults, row) /\ locker' = Nobody
      /\ UNCHANGED <<dbClock, lease, run, build>>
  BY <1>1 DEF Commit
<1>3. /\ stageResults \in Seq(ResultRows) /\ row \in ResultRows /\ n \in Nat
  BY <1>1 DEF RunIInv, RunTypeInv, ResultRows
<1>4. /\ runner[r].stored \in Returns /\ runner[r].stored.shard = KeyOf[r] /\ ResultValid(runner[r].stored)
      /\ \A i \in DOMAIN stageResults : stageResults[i].key # KeyOf[r]
      /\ runner[r].answer = "none" /\ runner[r].stored = runner[r].result
  BY <1>1 DEF CallGood
<1>5. /\ x \in RunnerCalls /\ x.pc = "answer" /\ x.fence = runner[r].fence /\ x.answer = runner[r].answer
      /\ x.result = runner[r].result /\ x.stored = runner[r].stored
  BY <1>1 DEF RunnerCalls, RunnerSteps
<1>6. runner' = [runner EXCEPT ![r] = x]
  BY <1>1 DEF Commit, RunIInv, RunTypeInv
<1>7. row.key = KeyOf[r] /\ row.fence = lease.fence /\ row.payload = runner[r].stored
  BY <1>1
<1> HIDE DEF x, row
<1>8. /\ stageResults' \in Seq(ResultRows) /\ DOMAIN stageResults' = 1 .. (n + 1) /\ DOMAIN stageResults = 1 .. n
      /\ \A i \in 1 .. n : stageResults'[i] = stageResults[i]
      /\ stageResults'[n + 1] = row
  BY <1>2, <1>3
<1>9. runner' \in [Runners -> RunnerCalls] /\ runner'[r] = x /\ \A q \in Runners \ {r} : runner'[q] = runner[q]
  BY <1>5, <1>6, CallWritten
<1>10. RunTypeInv'
  BY <1>2, <1>8, <1>9 DEF RunIInv, RunTypeInv
<1>11. GrantInv'
  <2>1. \A q \in Runners : runner'[q].fence = runner[q].fence
    BY <1>5, <1>9
  <2>2. Granted' = Granted
    BY <2>1 DEF Granted
  <2>3. \A q \in Runners : /\ runner'[q].pc = "idle" => runner[q].pc = "idle"
                           /\ runner'[q].pc \notin {"idle", "returned"} => runner[q].fence # 0
    BY <1>1, <1>5, <1>9 DEF RunIInv, GrantInv
  <2> QED
    BY <1>2, <2>1, <2>2, <2>3 DEF RunIInv, GrantInv
<1>12. RowLockInv'
  <2>1. \A q \in Runners \ {r} : runner[q].pc \notin Transacting
    BY <1>1 DEF RunIInv, RowLockInv
  <2>2. runner'[r].pc \notin Transacting
    BY <1>5, <1>9 DEF Transacting
  <2> QED
    BY <1>2, <1>9, <2>1, <2>2, RunAssumption DEF RowLockInv
<1>13. StoreInv'
  <2>1. \A i \in 1 .. n : /\ stageResults[i].fence <= lease.fence
                          /\ stageResults[i].payload.shard = stageResults[i].key
                          /\ stageResults[i].payload \in Returns /\ ResultValid(stageResults[i].payload)
                          /\ stageResults[i].key # KeyOf[r]
    BY <1>4, <1>8 DEF RunIInv, StoreInv
  <2>2. \A i \in DOMAIN stageResults' :
          /\ stageResults'[i].fence <= lease'.fence
          /\ stageResults'[i].payload.shard = stageResults'[i].key
          /\ stageResults'[i].payload \in Returns /\ ResultValid(stageResults'[i].payload)
    <3> SUFFICES ASSUME NEW i \in 1 .. (n + 1)
                 PROVE  /\ stageResults'[i].fence <= lease.fence
                        /\ stageResults'[i].payload.shard = stageResults'[i].key
                        /\ stageResults'[i].payload \in Returns /\ ResultValid(stageResults'[i].payload)
      BY <1>2, <1>8
    <3>1. CASE i = n + 1
      <4>1. lease.fence \in Nat /\ lease.fence <= lease.fence
        BY <1>1
      <4> QED
        BY <1>4, <1>7, <1>8, <3>1, <4>1
    <3>2. CASE i # n + 1
      <4>1. i \in 1 .. n
        BY <1>3, <3>2
      <4> QED
        BY <1>8, <2>1, <4>1
    <3> QED
      BY <3>1, <3>2
  <2>3. \A i, j \in DOMAIN stageResults' : stageResults'[i].key = stageResults'[j].key => i = j
    <3>1. \A i \in 1 .. (n + 1) : i \in 1 .. n \/ i = n + 1
      BY <1>3
    <3>2. \A i, j \in 1 .. n : stageResults[i].key = stageResults[j].key => i = j
      BY <1>8 DEF RunIInv, StoreInv
    <3> QED
      BY <1>7, <1>8, <2>1, <3>1, <3>2
  <2>4. FencedOrder'
    <3>1. \A i, j \in 1 .. n : i < j => stageResults[i].fence <= stageResults[j].fence
      BY <1>8 DEF RunIInv, StoreInv, FencedOrder
    <3>2. SUFFICES ASSUME NEW i \in 1 .. (n + 1), NEW j \in 1 .. (n + 1), i < j
                   PROVE  stageResults'[i].fence <= stageResults'[j].fence
      BY <1>8 DEF FencedOrder
    <3>3. i \in 1 .. n
      BY <1>3, <3>2
    <3>4. CASE j = n + 1
      BY <1>7, <1>8, <2>1, <3>3, <3>4
    <3>5. CASE j # n + 1
      <4>1. j \in 1 .. n
        BY <1>3, <3>5
      <4> QED
        BY <1>8, <3>1, <3>2, <3>3, <4>1
    <3> QED
      BY <3>4, <3>5
  <2> QED
    BY <2>2, <2>3, <2>4 DEF StoreInv, ResultValid, CountsValid
<1>14. CallInv'
  <2>1. \A key, c : IsStored(key, c) => IsStored(key, c)'
    BY <1>3, <1>8 DEF IsStored
  <2>2. IsStored(KeyOf[r], runner[r].stored)'
    BY <1>3, <1>5, <1>7, <1>8, <1>9 DEF IsStored
  <2> SUFFICES ASSUME NEW q \in Runners PROVE CallGood(q, runner[q])'
    BY DEF CallInv
  <2>3. CASE q = r
    BY <1>4, <1>5, <1>9, <2>2, <2>3 DEF CallGood, IsStored, Told, ResultValid, CountsValid
  <2>4. CASE q # r
    <3>1. CallGood(q, runner[q]) /\ runner[q].pc \notin Transacting /\ runner'[q] = runner[q]
      BY <1>1, <1>9, <2>4 DEF RunIInv, CallInv, RowLockInv
    <3>2. runner[q].pc \notin {"insert", "outputs", "write", "commit"}
      BY <3>1 DEF Transacting
    <3> QED
      BY <2>1, <3>1, <3>2 DEF CallGood
  <2> QED
    BY <2>3, <2>4
<1>15. ControlInv'
  BY <1>2 DEF RunIInv, ControlInv
<1> QED
  BY <1>10, <1>11, <1>12, <1>13, <1>14, <1>15 DEF RunIInv

LEMMA CommitKeeps == ASSUME RunIInv, NEW r \in Runners, Commit(r) PROVE RunIInv'
<1>1. CASE runner[r].pc = "write"
  BY <1>1, AppendKeeps
<1>2. CASE runner[r].pc = "commit"
  <2> DEFINE x == [runner[r] EXCEPT !.pc = "answer"]
  <2>1. /\ runner[r].fence # 0 /\ locker = r /\ CallGood(r, runner[r]) /\ lease \in LeaseRows
    BY <1>2, CallTyped DEF Transacting
  <2>2. locker' = Nobody /\ UNCHANGED <<dbClock, lease, stageResults, run, build>>
    BY <1>2, <2>1 DEF Commit
  <2>3. /\ x \in RunnerCalls /\ x.pc = "answer" /\ x.fence = runner[r].fence /\ x.answer = runner[r].answer
        /\ x.result = runner[r].result /\ x.stored = runner[r].stored
    BY CallTyped DEF RunnerCalls, RunnerSteps
  <2>4. runner' = [runner EXCEPT ![r] = x]
    BY CallTyped DEF Commit, RunIInv, RunTypeInv
  <2> HIDE DEF x
  <2>5. CallGood(r, x)
    BY <1>2, <2>1, <2>3 DEF CallGood, Told, Transacting
  <2>6. runner' \in [Runners -> RunnerCalls] /\ runner'[r] = x /\ \A q \in Runners \ {r} : runner'[q] = runner[q]
    BY <2>3, <2>4, CallWritten
  <2>7. /\ \A q \in Runners \ {r} : locker' = q <=> locker = q
        /\ locker' # r /\ runner'[r].pc \notin Transacting
    BY <2>1, <2>2, <2>3, <2>6, RunAssumption DEF Transacting
  <2>8. runner'[r].pc # "idle" /\ runner'[r].fence = runner[r].fence /\ CallGood(r, runner'[r])
    BY <2>3, <2>5, <2>6
  <2> QED
    BY <2>1, <2>2, <2>6, <2>7, <2>8, CallKeeps
<1> QED
  BY <1>1, <1>2 DEF Commit

LEMMA RollbackKeeps == ASSUME RunIInv, NEW r \in Runners, Rollback(r) PROVE RunIInv'
<1>1. lease \in LeaseRows
  BY CallTyped
<1> QED
  BY <1>1, GiveUpKeeps DEF Rollback, RunnerAnswers, Told

LEMMA CancelKeeps == ASSUME RunIInv, NEW r \in Runners, CancelRunner(r) PROVE RunIInv'
<1> DEFINE x == [runner[r] EXCEPT !.cancelled = TRUE]
<1>1. /\ x \in RunnerCalls /\ x.pc = runner[r].pc /\ x.fence = runner[r].fence /\ x.answer = runner[r].answer
      /\ x.result = runner[r].result /\ x.stored = runner[r].stored
  BY CallTyped DEF RunnerCalls
<1>2. runner' = [runner EXCEPT ![r] = x]
  BY CallTyped DEF CancelRunner, RunIInv, RunTypeInv
<1> HIDE DEF x
<1>3. runner' \in [Runners -> RunnerCalls] /\ runner'[r] = x /\ \A q \in Runners \ {r} : runner'[q] = runner[q]
  BY <1>1, <1>2, CallWritten
<1>4. CallGood(r, runner'[r])
  BY <1>1, <1>3, CallTyped DEF CallGood
<1>5. UNCHANGED <<dbClock, lease, locker, stageResults, run, build>>
  BY DEF CancelRunner
<1> QED
  BY <1>1, <1>3, <1>4, <1>5, CallTyped, CallKeeps

\* A runner is told "committed" of what it found stored, or stored.
LEMMA RunAnswerKeeps == ASSUME RunIInv, NEW r \in Runners, Answer(r) PROVE RunIInv'
<1>1. /\ runner[r].pc = "answer" /\ runner[r].pc \notin Transacting /\ lease \in LeaseRows
      /\ IsStored(KeyOf[r], runner[r].stored)
  BY CallTyped DEF Answer, Transacting, CallGood
<1>2. UNCHANGED <<dbClock, lease, locker, stageResults, run, build>>
  BY DEF Answer
<1>3. CASE GiveUp(r, "late") \/ GiveUp(r, "stale")
  BY <1>1, <1>2, <1>3, OutsideGivesUp DEF RunnerAnswers, Told
<1>4. CASE SameImmutablePayload(runner[r].stored, runner[r].result) /\ GiveUp(r, "committed")
  <2>1. IsStored(KeyOf[r], runner[r].result)
    BY <1>1, <1>4 DEF SameImmutablePayload
  <2> QED
    BY <1>1, <1>2, <1>4, <2>1, OutsideGivesUp DEF RunnerAnswers, Told
<1> QED
  BY <1>3, <1>4 DEF Answer

LEMMA ReleaseKeeps == ASSUME RunIInv, NEW r \in Runners, Release(r) PROVE RunIInv'
<1>1. /\ runner[r].pc = "release" /\ runner[r].pc \notin Transacting /\ lease \in LeaseRows /\ runner[r].fence # 0
      /\ CallGood(r, runner[r]) /\ runner[r] \in RunnerCalls
  BY CallTyped DEF Release, Transacting
<1>2. UNCHANGED <<dbClock, locker, stageResults, run, build>>
  BY DEF Release
<1>3. lease' \in LeaseRows /\ lease'.fence = lease.fence
  BY <1>1 DEF Release, ReleaseSchedulerLease, LeaseRows
<1>4. PICK why \in RunnerAnswers :
        /\ why \in Told => runner[r].answer \in Told
        /\ runner' = [runner EXCEPT ![r].pc = "returned", ![r].answer = why]
  <2> DEFINE why == IF Holds(r, runner[r].fence) THEN runner[r].answer ELSE
                    IF runner[r].answer = "committed" THEN "unreleased" ELSE runner[r].answer
  <2>1. runner' = [runner EXCEPT ![r].pc = "returned", ![r].answer = why]
    BY DEF Release
  <2>2. why \in RunnerAnswers /\ (why \in Told => runner[r].answer \in Told)
    BY <1>1 DEF RunnerCalls, RunnerAnswers, Told
  <2> QED
    BY <2>1, <2>2
<1> DEFINE x == [runner[r] EXCEPT !.pc = "returned", !.answer = why]
<1>5. /\ x \in RunnerCalls /\ x.pc = "returned" /\ x.fence = runner[r].fence /\ x.answer = why
      /\ x.result = runner[r].result
  BY <1>1, <1>4 DEF RunnerCalls, RunnerSteps
<1>6. runner' = [runner EXCEPT ![r] = x]
  BY <1>1, <1>4 DEF RunIInv, RunTypeInv
<1> HIDE DEF x
<1>7. CallGood(r, x) /\ x.pc \notin Transacting \cup {"idle"}
  BY <1>1, <1>4, <1>5 DEF CallGood, Transacting
<1> QED
  BY <1>1, <1>2, <1>3, <1>5, <1>6, <1>7, CallOutsideKeeps

LEMMA CrashKeeps == ASSUME RunIInv, NEW r \in Runners, Crash(r) PROVE RunIInv'
<1> DEFINE x == [runner[r] EXCEPT !.pc = "returned", !.answer = "crashed"]
<1>1. /\ x \in RunnerCalls /\ x.pc = "returned" /\ x.fence = runner[r].fence /\ x.answer = "crashed"
  BY CallTyped DEF RunnerCalls, RunnerSteps, RunnerAnswers
<1>2. runner' = [runner EXCEPT ![r] = x]
  BY CallTyped DEF Crash, RunIInv, RunTypeInv
<1> HIDE DEF x
<1>3. runner' \in [Runners -> RunnerCalls] /\ runner'[r] = x /\ \A q \in Runners \ {r} : runner'[q] = runner[q]
  BY <1>1, <1>2, CallWritten
<1>4. CallGood(r, runner'[r]) /\ runner'[r].pc \notin Transacting /\ lease \in LeaseRows
  BY <1>1, <1>3, CallTyped DEF CallGood, Transacting, Told
<1>5. /\ locker' \in Runners \cup {Nobody} /\ locker' # r
      /\ \A q \in Runners \ {r} : locker' = q <=> locker = q
      /\ UNCHANGED <<dbClock, lease, stageResults, run, build>>
  BY RunAssumption, CallTyped DEF Crash
<1> QED
  BY <1>1, <1>3, <1>4, <1>5, CallKeeps

\* The next fence is one nobody was granted.
LEMMA GrantKeeps ==
  ASSUME RunIInv, NEW r \in Runners, NEW until \in Int, runner[r].pc = "idle", RowFree(r),
         AcquireSchedulerLease(r, until),
         runner' = [runner EXCEPT ![r] = [runner[r] EXCEPT !.pc = "bind", !.fence = lease.fence + 1, !.expires = until,
                                          !.deadline = Clock(r) + MaxElapsed]],
         UNCHANGED <<dbClock, locker, stageResults, run, build>>
  PROVE  RunIInv'
<1> DEFINE next == lease.fence + 1
           x == [runner[r] EXCEPT !.pc = "bind", !.fence = next, !.expires = until, !.deadline = Clock(r) + MaxElapsed]
<1>1. /\ runner[r] \in RunnerCalls /\ CallGood(r, runner[r]) /\ lease \in LeaseRows /\ lease.fence \in Nat
      /\ runner[r].fence = 0 /\ locker # r /\ locker = Nobody
  BY CallTyped DEF LeaseRows, RunIInv, GrantInv, RowFree, Transacting
<1>2. next \in Nat /\ next > lease.fence /\ next # 0
  BY <1>1
<1>3. lease' \in LeaseRows /\ lease'.fence = next
  BY <1>1, <1>2 DEF AcquireSchedulerLease, LeaseRows
<1> HIDE DEF next
<1>4. Clock(r) + MaxElapsed \in Int
  BY ClockTyped
<1>5. /\ x \in RunnerCalls /\ x.pc = "bind" /\ x.fence = next /\ x.answer = runner[r].answer
  BY <1>1, <1>2, <1>4 DEF RunnerCalls, RunnerSteps
<1>6. runner' = [runner EXCEPT ![r] = x]
  BY DEF next
<1> HIDE DEF x
<1>7. runner' \in [Runners -> RunnerCalls] /\ runner'[r] = x /\ \A q \in Runners \ {r} : runner'[q] = runner[q]
  BY <1>5, <1>6, CallWritten
<1>8. RunTypeInv'
  BY <1>3, <1>7 DEF RunIInv, RunTypeInv
<1>9. \A q \in Runners : runner[q].fence \in Nat /\ runner[q].fence <= lease.fence
  BY CallTyped DEF RunIInv, GrantInv
<1>10. GrantInv'
  <2>1. Granted' = Granted \cup {r} /\ r \notin Granted
    BY <1>1, <1>2, <1>5, <1>7 DEF Granted
  <2>2. IsFiniteSet(Granted)
    BY RunAssumption, FS_Subset DEF Granted
  <2>3. Cardinality(Granted') = Cardinality(Granted) + 1
    BY <2>1, <2>2, FS_AddElement
  <2>4. lease'.fence = Cardinality(Granted')
    BY <1>3, <2>3 DEF RunIInv, GrantInv, next
  <2>5. \A q \in Runners : runner'[q].fence <= lease'.fence
    BY <1>1, <1>2, <1>3, <1>5, <1>7, <1>9
  <2>6. \A q \in Runners : /\ runner'[q].pc = "idle" => runner'[q].fence = 0
                           /\ runner'[q].pc \notin {"idle", "returned"} => runner'[q].fence # 0
    BY <1>2, <1>5, <1>7 DEF RunIInv, GrantInv
  <2>7. \A q \in Runners \ {r} : runner'[q].fence # next
    BY <1>1, <1>2, <1>7, <1>9
  <2>8. \A p, q \in Runners : runner'[q].fence = runner'[p].fence => runner'[p].fence = 0 \/ q = p
    <3>1. \A p, q \in Runners \ {r} : runner[q].fence = runner[p].fence => runner[p].fence = 0 \/ q = p
      BY DEF RunIInv, GrantInv
    <3> QED
      BY <1>5, <1>7, <2>7, <3>1
  <2> QED
    BY <2>4, <2>5, <2>6, <2>8 DEF GrantInv
<1>11. RowLockInv'
  <2>1. \A q \in Runners : runner[q].pc \notin Transacting
    BY <1>1, RunAssumption DEF RunIInv, RowLockInv
  <2> QED
    BY <1>1, <1>5, <1>7, <2>1, RunAssumption DEF RowLockInv, Transacting
<1>12. StoreInv'
  <2>1. \A i \in DOMAIN stageResults : stageResults[i].fence \in Nat
    <3>1. \A i \in DOMAIN stageResults : stageResults[i] \in ResultRows
      BY DEF RunIInv, RunTypeInv
    <3> QED
      BY <3>1 DEF ResultRows
  <2>2. \A i \in DOMAIN stageResults : stageResults[i].fence <= lease'.fence
    BY <1>1, <1>2, <1>3, <2>1 DEF RunIInv, StoreInv
  <2> QED
    BY <2>2 DEF RunIInv, StoreInv, FencedOrder, ResultValid, CountsValid
<1>13. CallInv'
  <2> SUFFICES ASSUME NEW q \in Runners PROVE CallGood(q, runner[q])'
    BY DEF CallInv
  <2>1. CallGood(q, runner'[q])
    <3>1. CASE q = r
      <4>1. runner[r].answer = "none"
        BY <1>1 DEF CallGood
      <4> QED
        BY <1>5, <1>7, <3>1, <4>1 DEF CallGood, Transacting, Told
    <3>2. CASE q # r
      BY <1>7, <3>2 DEF RunIInv, CallInv
    <3> QED
      BY <3>1, <3>2
  <2> QED
    BY <2>1 DEF CallGood, IsStored
<1>14. ControlInv'
  BY DEF RunIInv, ControlInv
<1> QED
  BY <1>8, <1>10, <1>11, <1>12, <1>13, <1>14 DEF RunIInv

LEMMA AcquireKeeps == ASSUME RunIInv, NEW r \in Runners, Acquire(r) PROVE RunIInv'
<1> DEFINE until == MinOf(Clock(r) + MaxElapsed, Clock(r) + LeaseDuration)
<1>1. runner[r].pc = "idle" /\ runner[r].pc \notin Transacting /\ lease \in LeaseRows /\ until \in Int
  BY CallTyped, ClockTyped DEF Acquire, Transacting
<1>2. CASE GiveUp(r, "refused") /\ UNCHANGED lease
  BY <1>1, <1>2, OutsideGivesUp DEF Acquire, RunnerAnswers, Told
<1>3. CASE /\ AcquireSchedulerLease(r, until)
           /\ runner' = [runner EXCEPT ![r] = [runner[r] EXCEPT !.pc = "bind", !.fence = lease.fence + 1,
                                               !.expires = until, !.deadline = Clock(r) + MaxElapsed]]
  <2>1. RowFree(r) /\ UNCHANGED <<dbClock, locker, stageResults, run, build>>
    BY DEF Acquire
  <2> HIDE DEF until
  <2> QED
    BY <1>1, <1>3, <2>1, GrantKeeps
<1> QED
  BY <1>2, <1>3 DEF Acquire

\* Operators move the rows of the run and the build, and time passes.
LEMMA AroundKeeps ==
  ASSUME RunIInv, UNCHANGED <<lease, locker, stageResults, runner>>, RunTypeInv', ControlInv'
  PROVE  RunIInv'
<1>1. Granted' = Granted
  BY DEF Granted
<1>2. GrantInv' /\ RowLockInv' /\ StoreInv'
  BY <1>1 DEF RunIInv, GrantInv, RowLockInv, StoreInv, FencedOrder, ResultValid, CountsValid
<1>3. CallInv'
  <2> SUFFICES ASSUME NEW q \in Runners PROVE CallGood(q, runner[q])'
    BY DEF CallInv
  <2>1. CallGood(q, runner[q])
    BY DEF RunIInv, CallInv
  <2> QED
    BY <2>1 DEF CallGood, IsStored
<1> QED
  BY <1>2, <1>3 DEF RunIInv

LEMMA ControlKeeps == ASSUME RunIInv, Control \/ DatabaseTick PROVE RunIInv'
<1>1. CASE DatabaseTick
  BY <1>1, AroundKeeps, RunAssumption DEF DatabaseTick, RunIInv, RunTypeInv, ControlInv
<1>2. CASE RequestCorpusRunCancellation
  BY <1>2, AroundKeeps DEF RequestCorpusRunCancellation, RunIInv, RunTypeInv, ControlInv
<1>3. ASSUME NEW to, SetCorpusRunStatus(to) PROVE RunIInv'
  <2>1. /\ run' \in [status : {"pending", "running", "cancelling", "cancelled", "complete", "failed"}, requested : BOOLEAN]
        /\ run'.requested = run.requested
        /\ run.status \in {"cancelling", "cancelled", "failed"} => run'.status \in {"cancelled", "failed"}
    BY <1>3 DEF SetCorpusRunStatus, RunMoves, RunIInv, RunTypeInv
  <2>2. RunTypeInv' /\ ControlInv'
    BY <1>3, <2>1 DEF SetCorpusRunStatus, RunIInv, RunTypeInv, ControlInv
  <2> QED
    BY <1>3, <2>2, AroundKeeps DEF SetCorpusRunStatus
<1>4. ASSUME NEW to, SetCorpusBuildState(to) PROVE RunIInv'
  BY <1>4, AroundKeeps DEF SetCorpusBuildState, RunIInv, RunTypeInv, ControlInv
<1> QED
  BY <1>1, <1>2, <1>3, <1>4 DEF Control

LEMMA RunInitially == RunInit => RunIInv
<1> SUFFICES ASSUME RunInit PROVE RunIInv
  OBVIOUS
<1>1. \A r \in Runners : runner[r] = Fresh
  BY DEF RunInit
<1>2. Fresh \in RunnerCalls /\ Fresh.pc = "idle" /\ Fresh.fence = 0 /\ Fresh.answer = "none"
  BY DEF Fresh, RunnerCalls, RunnerSteps, RunnerAnswers, Payloads
<1>3. RunTypeInv
  BY <1>1, <1>2, RunAssumption DEF RunInit, RunTypeInv, LeaseRows
<1>4. GrantInv
  <2>1. Granted = {}
    BY <1>1, <1>2 DEF Granted
  <2>2. Cardinality(Granted) = 0
    BY <2>1, FS_EmptySet
  <2> QED
    BY <1>1, <1>2, <2>2 DEF GrantInv, RunInit
<1>5. RowLockInv
  BY <1>1, <1>2, RunAssumption DEF RowLockInv, Transacting, RunInit
<1>6. StoreInv
  BY DEF StoreInv, FencedOrder, RunInit
<1>7. CallInv
  BY <1>1, <1>2 DEF CallInv, CallGood, Transacting, Told
<1>8. ControlInv
  BY DEF ControlInv, RunInit
<1> QED
  BY <1>3, <1>4, <1>5, <1>6, <1>7, <1>8 DEF RunIInv

LEMMA RunStepKeeps == RunIInv /\ [RunNext]_runVars => RunIInv'
<1> SUFFICES ASSUME RunIInv, [RunNext]_runVars PROVE RunIInv'
  OBVIOUS
<1>1. ASSUME NEW r \in Runners, Step(r) PROVE RunIInv'
  BY <1>1, AcquireKeeps, BindKeeps, RenewKeeps, LeaveKeeps, AcceptKeeps, LockKeeps, RunFindKeeps, InsertKeeps,
     OutputsKeep, CommitKeeps, RunAnswerKeeps, ReleaseKeeps DEF Step
<1>2. ASSUME NEW r \in Runners, ExecutorFails(r) \/ Rollback(r) \/ LoseAnswer(r) \/ CancelRunner(r) \/ Crash(r)
      PROVE  RunIInv'
  BY <1>2, LeaveKeeps, RollbackKeeps, CancelKeeps, CrashKeeps
<1>3. CASE UNCHANGED runVars
  BY <1>3, AroundKeeps DEF runVars, RunIInv, RunTypeInv, ControlInv
<1> QED
  BY <1>1, <1>2, <1>3, ControlKeeps DEF RunNext

\* The inductive invariant of the runners, with everything the others rest on.
THEOREM RunInvariance == RunSpec => []RunIInv
BY RunInitially, RunStepKeeps, PTL DEF RunSpec

\* What the runners of a build leave behind is accounted: rows in the order of the fences, each with
\* what its executor processed; whoever was told "committed" was told what is stored; and a run
\* that was asked to cancel is never complete (apply.go, direct.go, queries.sql.go).
THEOREM RunsAccountedHolds == RunSpec => []RunsAccounted
<1>1. RunIInv => RunsAccounted
  <2> SUFFICES ASSUME RunIInv PROVE RunsAccounted
    OBVIOUS
  <2>1. RunTypeOK
    <3>1. Granted \subseteq Runners /\ Cardinality(Granted) <= Cardinality(Runners) /\ Cardinality(Runners) \in Nat
      BY RunAssumption, FS_Subset, FS_CardinalityType DEF Granted
    <3>2. lease.fence \in 0 .. Cardinality(Runners)
      BY <3>1 DEF RunIInv, GrantInv, RunTypeInv, LeaseRows
    <3>3. locker # Nobody => runner[locker].pc \in {"locked", "insert", "outputs", "write", "commit"}
      BY DEF RunIInv, RunTypeInv, RowLockInv, Transacting
    <3>4. \A r \in Runners : runner[r].pc \in RunnerSteps
      BY DEF RunIInv, RunTypeInv, RunnerCalls
    <3> QED
      BY <3>2, <3>3, <3>4 DEF RunTypeOK, RunIInv, RunTypeInv, LeaseRows
  <2>2. AnsweredIsStored
    BY DEF AnsweredIsStored, RunIInv, CallInv, CallGood, IsStored, Stored, Told
  <2>3. StoredAccounts
    <3> SUFFICES ASSUME NEW i \in DOMAIN stageResults, NEW c, c = stageResults[i].payload
                 PROVE  /\ c.shard = stageResults[i].key
                        /\ c.succeeded + c.pending + c.gaps + c.rejected + c.failed = c.processed
                        /\ c.processed <= MaxItems
                        /\ c.complete => c.succeeded + c.accepted = c.expected
      BY DEF StoredAccounts
    <3>1. c \in Returns /\ ResultValid(c) /\ c.shard = stageResults[i].key
      BY DEF RunIInv, StoreInv
    <3>2. /\ c.expected \in Nat /\ c.processed \in Nat /\ c.succeeded \in Nat /\ c.pending \in Nat
          /\ c.gaps \in Nat /\ c.accepted \in Nat /\ c.rejected \in Nat /\ c.failed \in Nat
      BY <3>1, RunAssumption
    <3> QED
      BY <3>1, <3>2 DEF ResultValid, CountsValid
  <2>4. CancelledNeverCompletes
    BY DEF CancelledNeverCompletes, RunIInv, ControlInv
  <2> QED
    BY <2>1, <2>2, <2>3, <2>4 DEF RunsAccounted, RunIInv, StoreInv
<1> QED
  BY <1>1, RunInvariance, PTL

\* A runner that is late, or was cancelled, releases its own lease and no other's (direct.go, the
\* deferred release; ReleaseSchedulerLease).
THEOREM NotReleasedByOthersHolds == RunSpec => NotReleasedByOthers
<1>1. RunIInv /\ [RunNext]_runVars => [NotReleasedByOthersStep]_runVars
  <2> SUFFICES ASSUME RunIInv, [RunNext]_runVars, NEW r \in Runners,
                      lease.fence = runner[r].fence,
                      runner[r].pc \in {"executing", "apply", "locked", "insert", "outputs", "write"},
                      lease'.released, ~lease.released
               PROVE  FALSE
    BY DEF NotReleasedByOthersStep
  <2>1. lease \in LeaseRows /\ runner[r].fence # 0
    BY CallTyped
  <2>2. PICK q \in Runners : Release(q) /\ ReleaseSchedulerLease(q)
    <3>1. lease' # lease
      OBVIOUS
    <3>2. ASSUME NEW q \in Runners, Acquire(q) PROVE FALSE
      BY <3>1, <3>2 DEF Acquire, AcquireSchedulerLease
    <3>3. ASSUME NEW q \in Runners, Renew(q) PROVE FALSE
      BY <3>1, <3>3, <2>1 DEF Renew, RenewSchedulerLease, LeaseRows
    <3> QED
      BY <3>1, <3>2, <3>3 DEF RunNext, Step, Control, runVars, Bind, Abandon, Accept, LockSchedulerFence, FindStageResult,
         InsertStageResult, InsertStageResultOutput, Commit, Answer, Release, ExecutorFails, Rollback, LoseAnswer,
         CancelRunner, Crash, SetCorpusRunStatus, SetCorpusBuildState, RequestCorpusRunCancellation, DatabaseTick
  <2>3. lease.fence = runner[q].fence
    BY <2>2 DEF ReleaseSchedulerLease, Holds
  <2>4. q = r
    BY <2>1, <2>3 DEF RunIInv, GrantInv
  <2> QED
    BY <2>2, <2>4 DEF Release
<1> QED
  BY <1>1, RunInvariance, PTL DEF RunSpec, NotReleasedByOthers
=============================================================================
