------------------------------ MODULE KaggleJob ------------------------------
(***************************************************************************)
(* The life of one provider job of the batch engines: Kaggle embedding     *)
(* (pkg/rag/embed/kagglebatch), Kaggle OCR (pkg/rag/ocr/kagglebatch) and   *)
(* SageMaker (pkg/rag/embed/sagebatch).  The client uploads the input,     *)
(* waits for the dataset, starts the kernel, polls it, downloads and       *)
(* parses the output, and deletes what it created.  The provider runs on   *)
(* its own: a call may fail after it took effect, a poll may be lost, and  *)
(* the process that waits may end first.  Other runs of the same account   *)
(* create datasets and kernels at the same time.                           *)
(***************************************************************************)
EXTENDS Integers, Sequences, FiniteSets, SequencesExt

CONSTANTS
  Kind,          \* "embed", "ocr" or "sagemaker"
  Runs,          \* runs of the batch: one process starts one after the other
  N,             \* input rows of a run
  MaxPollFailures,
  Grace,         \* polls the dataset status may be unknown before the client goes on
  MaxPolls,      \* the deadline of each wait, counted in polls
  MaxFaults

RowsAssumption == N \in Nat \ {0} /\ MaxPolls \in Nat /\ Grace \in Nat

VARIABLES
  pc, dataset, kernel,   \* per run: the client, the input dataset, the kernel
  polls, missed,         \* polls of the current wait, polls that failed in a row
  rows, seen,            \* the output file and the indices that were handed on
  result, process, faults

vars == <<pc, dataset, kernel, polls, missed, rows, seen, result, process, faults>>

Terminal == {"complete", "error", "cancelled"}

Init ==
  /\ pc = [r \in Runs |-> "start"]
  /\ dataset = [r \in Runs |-> "none"]
  /\ kernel = [r \in Runs |-> "none"]
  /\ polls = [r \in Runs |-> 0]
  /\ missed = [r \in Runs |-> 0]
  /\ rows = [r \in Runs |-> <<>>]
  /\ seen = [r \in Runs |-> {}]
  /\ result = [r \in Runs |-> "none"]
  /\ process = "up"
  /\ faults = 0

Fault == faults < MaxFaults /\ faults' = faults + 1
Go(r, to) == pc' = [pc EXCEPT ![r] = to]
Up(r, at) == process = "up" /\ pc[r] = at

\* A run that fails goes to the deferred cleanup, which the upload has armed.
Fail(r, how) == result' = [result EXCEPT ![r] = how] /\ Go(r, IF Kind = "sagemaker" THEN "returned" ELSE "cleanup")

-----------------------------------------------------------------------------
(* EmbedStream and OCRStream, up to the upload. *)

\* The owner is resolved, the slugs are fresh, the inputs are staged on disk: nothing is
\* created yet, so a failure here just returns.
stageInputs(r) ==
  /\ Up(r, "start")
  /\ \/ Go(r, "upload") /\ UNCHANGED <<result, faults>>
     \/ Fault /\ result' = [result EXCEPT ![r] = "failed"] /\ Go(r, "returned")
  /\ UNCHANGED <<dataset, kernel, polls, missed, rows, seen, process>>

NewWait(r) == polls' = [polls EXCEPT ![r] = 0] /\ missed' = [missed EXCEPT ![r] = 0]

\* The create may take effect and still fail for the client, whose cleanup is not armed yet.
Create(r, next) ==
  \/ /\ dataset' = [dataset EXCEPT ![r] = "pending"]
     /\ Go(r, next) /\ UNCHANGED <<result, faults>>
  \/ /\ Fault
     /\ \E took \in BOOLEAN : dataset' = IF took THEN [dataset EXCEPT ![r] = "pending"] ELSE dataset
     /\ result' = [result EXCEPT ![r] = "failed"] /\ Go(r, "returned")

uploadInput(r) ==
  /\ Kind # "sagemaker" /\ Up(r, "upload") /\ Create(r, "dataset")
  /\ NewWait(r)
  /\ UNCHANGED <<kernel, rows, seen, process>>

\* SageMaker: the input and the script are objects in the bucket, there is nothing to wait for.
PutObject(r) ==
  /\ Kind = "sagemaker" /\ Up(r, "upload") /\ Create(r, "push")
  /\ NewWait(r)
  /\ UNCHANGED <<kernel, rows, seen, process>>

-----------------------------------------------------------------------------
(* The waits. *)

Again(r) == polls[r] < MaxPolls /\ polls' = [polls EXCEPT ![r] = @ + 1] /\ UNCHANGED <<pc, result>>
TimedOut(r) == polls[r] = MaxPolls /\ Fail(r, "failed") /\ UNCHANGED polls

\* The status call fails with "not found" for a while after the create: after the grace period
\* the client goes on, since the push checks the mount.
waitDatasetReady(r) ==
  /\ Up(r, "dataset")
  /\ \/ /\ dataset[r] = "ready" /\ Go(r, "push")
        /\ UNCHANGED <<polls, missed, result, faults>>
     \/ /\ dataset[r] = "failed" /\ Fail(r, "failed")
        /\ UNCHANGED <<polls, missed, faults>>
     \/ /\ dataset[r] = "pending" /\ missed' = [missed EXCEPT ![r] = 0] /\ UNCHANGED faults
        /\ (Again(r) \/ TimedOut(r))
     \/ /\ Fault
        /\ IF missed[r] >= Grace
           THEN Go(r, "push") /\ UNCHANGED <<polls, missed, result>>
           ELSE missed' = [missed EXCEPT ![r] = @ + 1] /\ (Again(r) \/ TimedOut(r))
  /\ UNCHANGED <<dataset, kernel, rows, seen, process>>

Start(r, valid) ==
  \/ /\ valid
     /\ kernel' = [kernel EXCEPT ![r] = "running"]
     /\ Go(r, "kernel") /\ UNCHANGED <<result, faults>>
  \/ ~valid /\ Fail(r, "failed") /\ UNCHANGED <<kernel, faults>>
  \/ /\ Fault
     /\ \E took \in BOOLEAN : kernel' = IF took THEN [kernel EXCEPT ![r] = "running"] ELSE kernel
     /\ Fail(r, "failed")

\* The push validates the mount of the input dataset.
pushKernel(r) ==
  /\ Kind # "sagemaker" /\ Up(r, "push") /\ Start(r, dataset[r] # "failed")
  /\ NewWait(r)
  /\ UNCHANGED <<dataset, rows, seen, process>>

CreateProcessingJob(r) ==
  /\ Kind = "sagemaker" /\ Up(r, "push") /\ Start(r, TRUE)
  /\ NewWait(r)
  /\ UNCHANGED <<dataset, rows, seen, process>>

Gives(r) == Fail(r, "failed") /\ UNCHANGED <<polls, missed>>

\* No budget bounds the failures.
MLostPollForever(r) ==
  missed' = [missed EXCEPT ![r] = @ + 1] /\ (Again(r) \/ TimedOut(r))
\* A lost poll is tolerated up to a budget of consecutive failures.
LostPoll(r) ==
  IF missed[r] < MaxPollFailures
  THEN missed' = [missed EXCEPT ![r] = @ + 1] /\ (Again(r) \/ TimedOut(r))
  ELSE Gives(r)

\* The status of the kernel as a poll sees it.
Polled(r) ==
  \/ kernel[r] = "complete" /\ Go(r, "output") /\ UNCHANGED <<polls, missed, result, faults>>
  \/ kernel[r] \in {"error", "cancelled"} /\ Gives(r) /\ UNCHANGED faults
  \/ /\ kernel[r] = "running" /\ missed' = [missed EXCEPT ![r] = 0] /\ UNCHANGED faults
     /\ (Again(r) \/ TimedOut(r))

waitKernel(r) ==
  /\ Kind = "embed" /\ Up(r, "kernel")
  /\ Polled(r) \/ (Fault /\ LostPoll(r))
  /\ UNCHANGED <<dataset, kernel, rows, seen, process>>

\* The OCR client and the SageMaker client give up at the first poll that fails.
ocrWaitKernel(r) ==
  /\ Kind = "ocr" /\ Up(r, "kernel")
  /\ Polled(r) \/ (Fault /\ Gives(r))
  /\ UNCHANGED <<dataset, kernel, rows, seen, process>>
waitJob(r) ==
  /\ Kind = "sagemaker" /\ Up(r, "kernel")
  /\ Polled(r) \/ (Fault /\ Gives(r))
  /\ UNCHANGED <<dataset, kernel, rows, seen, process>>

\* The output file: every index once, or a file that lost, repeated or invented a row.
Output(r) ==
  /\ Up(r, "output")
  /\ \/ UNCHANGED faults /\ rows' = [rows EXCEPT ![r] = [i \in 1..N |-> i]] /\ Go(r, "parse") /\ UNCHANGED result
     \/ /\ Fault
        /\ \/ /\ \E f \in {Tail([i \in 1..N |-> i]), Append([i \in 1..N |-> i], 1), <<N + 1>>} :
                   rows' = [rows EXCEPT ![r] = f]
              /\ Go(r, "parse") /\ UNCHANGED result
           \/ Fail(r, "failed") /\ UNCHANGED rows
  /\ UNCHANGED <<dataset, kernel, polls, missed, seen, process>>

-----------------------------------------------------------------------------
(* The parsers hand each row on as it is read. *)

\* streamParseVectors refuses an index outside the input, an index it has seen, and at the
\* end of the file an index that did not come.
streamParseVectors(r) ==
  \/ /\ rows[r] # <<>> /\ Head(rows[r]) \in (1..N) \ seen[r]
     /\ seen' = [seen EXCEPT ![r] = @ \cup {Head(rows[r])}]
     /\ rows' = [rows EXCEPT ![r] = Tail(@)] /\ UNCHANGED <<pc, result>>
  \/ /\ rows[r] # <<>> /\ Head(rows[r]) \notin (1..N) \ seen[r]
     /\ Fail(r, "failed") /\ UNCHANGED <<rows, seen>>
  \/ /\ rows[r] = <<>> /\ Fail(r, IF seen[r] = 1..N THEN "ok" ELSE "failed") /\ UNCHANGED <<rows, seen>>

\* streamParseOCR hands on whatever rows there are; the caller looks for what is missing.
streamParseOCR(r) ==
  \/ /\ rows[r] # <<>> /\ seen' = [seen EXCEPT ![r] = @ \cup {Head(rows[r])}]
     /\ rows' = [rows EXCEPT ![r] = Tail(@)] /\ UNCHANGED <<pc, result>>
  \/ rows[r] = <<>> /\ Fail(r, "ok") /\ UNCHANGED <<rows, seen>>

Parse(r) ==
  /\ Up(r, "parse")
  /\ IF Kind = "ocr" THEN streamParseOCR(r) ELSE streamParseVectors(r)
  /\ UNCHANGED <<dataset, kernel, polls, missed, process, faults>>

\* cleanup: the kernel first, then the dataset, each at best.
cleanup(r) ==
  /\ Up(r, "cleanup")
  /\ \/ kernel' = [kernel EXCEPT ![r] = "deleted"] /\ dataset' = [dataset EXCEPT ![r] = "deleted"] /\ UNCHANGED faults
     \/ Fault /\ dataset' = [dataset EXCEPT ![r] = "deleted"] /\ UNCHANGED kernel
     \/ Fault /\ kernel' = [kernel EXCEPT ![r] = "deleted"] /\ UNCHANGED dataset
  /\ Go(r, "returned")
  /\ UNCHANGED <<polls, missed, rows, seen, result, process>>
\* The context of the run is cancelled: whatever the client waits for fails.
Cancel(r) ==
  /\ process = "up" /\ pc[r] \in {"dataset", "push", "kernel", "output", "parse"}
  /\ Fault /\ Fail(r, "cancelled")
  /\ UNCHANGED <<dataset, kernel, polls, missed, rows, seen, process>>

\* The command returns at its deadline and the process ends with the clients in any state.
Exit ==
  /\ process = "up" /\ Fault
  /\ process' = "gone"
  /\ UNCHANGED <<pc, dataset, kernel, polls, missed, rows, seen, result>>

-----------------------------------------------------------------------------
(* The provider. *)

DatasetSettles(r) ==
  /\ dataset[r] = "pending"
  /\ \/ dataset' = [dataset EXCEPT ![r] = "ready"] /\ UNCHANGED faults
     \/ Fault /\ dataset' = [dataset EXCEPT ![r] = "failed"]
  /\ UNCHANGED <<pc, kernel, polls, missed, rows, seen, result, process>>

KernelEnds(r) ==
  /\ kernel[r] = "running"
  /\ \/ kernel' = [kernel EXCEPT ![r] = "complete"] /\ UNCHANGED faults
     \/ Fault /\ \E how \in {"error", "cancelled"} : kernel' = [kernel EXCEPT ![r] = how]
  /\ UNCHANGED <<pc, dataset, polls, missed, rows, seen, result, process>>

ClientStep(r) ==
  stageInputs(r) \/ uploadInput(r) \/ PutObject(r) \/ waitDatasetReady(r) \/ pushKernel(r)
  \/ CreateProcessingJob(r) \/ waitKernel(r) \/ ocrWaitKernel(r) \/ waitJob(r)
  \/ Output(r) \/ Parse(r) \/ cleanup(r)
Next ==
  \/ \E r \in Runs : ClientStep(r) \/ Cancel(r) \/ DatasetSettles(r) \/ KernelEnds(r)
  \/ Exit

Spec == Init /\ [][Next]_vars
FairSpec == Spec /\ \A r \in Runs : WF_vars(ClientStep(r))

-----------------------------------------------------------------------------
TypeOK ==
  /\ dataset \in [Runs -> {"none", "pending", "ready", "failed", "deleted"}]
  /\ kernel \in [Runs -> Terminal \cup {"none", "running", "deleted"}]
  /\ polls \in [Runs -> 0..MaxPolls] /\ \A r \in Runs : missed[r] <= MaxPollFailures \/ missed[r] <= Grace
  /\ result \in [Runs -> {"none", "ok", "failed", "cancelled"}]

(* A run that reports success handed on every input row exactly once: a provider that lost or
   repeated a row is an error, not a short result. *)
SuccessIsWhole ==
  Kind # "ocr" => \A r \in Runs : result[r] = "ok" => seen[r] = 1..N /\ kernel[r] \in {"complete", "deleted"}

(* One or two lost polls do not end a run whose kernel is still running and whose deadline has
   not come: the kernel's fate is decided by the provider. *)
LostPollsToleratedStep ==
    \A r \in Runs : pc[r] = "kernel" /\ pc'[r] = "cleanup" /\ result'[r] = "failed"
                     /\ kernel[r] \in {"running", "complete"}
                     => missed[r] = MaxPollFailures \/ polls[r] = MaxPolls
LostPollsTolerated == [][LostPollsToleratedStep]_vars

(* "Delete the dataset + kernel on every exit (success or failure)": a client that was
   cancelled (and whose deletes then worked) has left nothing at the provider. *)
Leftover(r) == dataset[r] \notin {"none", "deleted"} \/ kernel[r] \notin {"none", "deleted"}
CancelledIsCleaned == \A r \in Runs : pc[r] = "returned" /\ result[r] = "cancelled" /\ faults <= 1 => ~Leftover(r)

(* The same of a client whose run failed. *)
NothingLingers == \A r \in Runs : pc[r] = "returned" /\ result[r] = "failed" /\ faults <= 1 => ~Leftover(r)

(* "By default only the output is kept": a SageMaker run that succeeded has removed its input. *)
InputRemoved == \A r \in Runs : pc[r] = "returned" /\ result[r] = "ok" => dataset[r] = "deleted"

(* A client always returns, whatever the provider does: every wait has its deadline. *)
AlwaysReturns == \A r \in Runs : <>(pc[r] = "returned" \/ process = "gone")
=============================================================================
