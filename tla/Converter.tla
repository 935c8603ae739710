------------------------------ MODULE Converter ------------------------------
(***************************************************************************)
(* Converter.Convert: one sandbox run converts, the staged outputs are     *)
(* read and hashed, a second run with other input validates them, then     *)
(* each output and the manifest are retained and two envelopes are         *)
(* returned.  Convert may be repeated after a failure; retained objects    *)
(* are content addressed and stay.                                         *)
(*                                                                         *)
(* Outputs are the references of a manifest.  The conversion child may do  *)
(* anything a faulty program does: stage a set that is not what the        *)
(* original says, leave out a result, put the set in the wrong order or    *)
(* stage too much.  Only a set in Sound is derived from the original; the  *)
(* validating child answers a verdict for such a set only (HtmlDerivation, *)
(* DocxDerivation and BlockChains are about that).                         *)
(***************************************************************************)
EXTENDS Integers, Sequences, FiniteSets, SequencesExt

CONSTANTS Manifests,      \* what a child may stage: sequences of references
          Sound,          \* the manifests the validating child accepts
          Verdicts,       \* manifests a faulty validating child may name in its verdict
          MaxItems, OutputBytes, MaxCalls, MaxFaults

VARIABLES call,           \* the Convert call: pc, staged manifest, next index, envelopes, error
          ctx,            \* "live" or "done"
          receipts,       \* open receipts of the two runs
          inputDir,       \* the private input of the validation run exists
          read,           \* indices whose bytes were read and hashed
          verdict,        \* the verdict of the validating child: the manifest it names, <<>> if none
          retained,       \* durable objects
          history,        \* ghost: what a returned success retained and validated
          calls, faults
vars == <<call, ctx, receipts, inputDir, read, verdict, retained, history, calls, faults>>

Results == {"document.json", "quality.json"}
NoCall == [pc |-> "idle", staged |-> <<>>, next |-> 1, error |-> FALSE]
Init == /\ call = NoCall /\ ctx = "live" /\ receipts = {} /\ inputDir = FALSE /\ read = {} /\ verdict = <<>>
        /\ retained = {} /\ history = {} /\ calls = 0 /\ faults = 0

At(pc) == call.pc = pc
Go(pc) == call' = [call EXCEPT !.pc = pc]
Fault == faults < MaxFaults /\ faults' = faults + 1
\* Every error after the first run leads through the deferred Close to zero envelopes.
Failed == call' = [call EXCEPT !.pc = "close", !.error = TRUE]
Live == ctx = "live"

\* Convert's binding checks, then the conversion run.  A run that fails still gives a receipt.
Begin ==
  /\ At("idle") /\ calls < MaxCalls /\ calls' = calls + 1
  /\ call' = [NoCall EXCEPT !.pc = "run"] /\ ctx' = "live" /\ read' = {} /\ verdict' = <<>>
  /\ UNCHANGED <<receipts, inputDir, retained, history, faults>>

RunConvert ==
  /\ At("run") /\ receipts' = receipts \cup {"convert"}
  /\ \/ /\ Live /\ \E m \in Manifests : call' = [call EXCEPT !.pc = "manifest", !.staged = m]
        /\ UNCHANGED faults
     \/ ~Live /\ Failed /\ UNCHANGED faults
     \/ Live /\ Fault /\ Failed          \* a failed run, or one whose termination is unconfirmed
  /\ UNCHANGED <<ctx, inputDir, read, verdict, retained, history, calls>>

\* The manifest is canonical: not empty, within the limits, strictly ordered, with both results.
Size(m) == FoldLeft(LAMBDA n, r : n + r.size, 0, m)
checkManifest ==
  /\ At("manifest")
  /\ IF /\ call.staged # <<>> /\ Len(call.staged) <= MaxItems /\ Size(call.staged) <= OutputBytes
        /\ \A i \in 2..Len(call.staged) : call.staged[i - 1].order < call.staged[i].order
        /\ Results \subseteq {call.staged[i].path : i \in DOMAIN call.staged}
     THEN Go("read") ELSE Failed
  /\ UNCHANGED <<ctx, receipts, inputDir, read, verdict, retained, history, calls, faults>>

\* One output is opened, read whole and hashed.
ReadOutput ==
  /\ At("read") /\ UNCHANGED <<ctx, receipts, inputDir, verdict, retained, history, calls>>
  /\ \/ /\ call.next <= Len(call.staged) /\ Live
        /\ read' = read \cup {call.next} /\ call' = [call EXCEPT !.next = @ + 1] /\ UNCHANGED faults
     \/ call.next <= Len(call.staged) /\ ~Live /\ Failed /\ UNCHANGED <<read, faults>>
     \/ call.next <= Len(call.staged) /\ Fault /\ Failed /\ UNCHANGED read
     \/ call.next > Len(call.staged) /\ Go("prepare") /\ UNCHANGED <<read, faults>>

\* opaqueOriginal and the validation bundle, written to a private directory.
PrepareValidation ==
  /\ At("prepare")
  /\ \/ inputDir' = TRUE /\ Go("validate") /\ UNCHANGED faults
     \/ Fault /\ Failed /\ inputDir' = inputDir
     \/ Fault /\ inputDir' = TRUE /\ call' = [call EXCEPT !.pc = "cleanup", !.error = TRUE]
  /\ UNCHANGED <<ctx, receipts, read, verdict, retained, history, calls>>

\* validateBundle in the second child: a verdict on the exact set, or no verdict.
validateBundle(m) == IF m \in Sound THEN {m} ELSE {}

RunValidate ==
  /\ At("validate") /\ receipts' = receipts \cup {"validate"}
  /\ \/ /\ Live /\ \E v \in validateBundle(call.staged) : verdict' = v
        /\ Go("verdict") /\ UNCHANGED faults
     \/ /\ Live /\ Fault /\ \E v \in Verdicts \ {call.staged} : verdict' = v     \* about another set
        /\ Go("verdict")
     \/ /\ Live /\ validateBundle(call.staged) = {}
        /\ call' = [call EXCEPT !.pc = "cleanup", !.error = TRUE] /\ UNCHANGED <<verdict, faults>>
     \/ ~Live /\ call' = [call EXCEPT !.pc = "cleanup", !.error = TRUE] /\ UNCHANGED <<verdict, faults>>
     \/ Live /\ Fault /\ call' = [call EXCEPT !.pc = "cleanup", !.error = TRUE] /\ UNCHANGED verdict
  /\ UNCHANGED <<ctx, inputDir, read, retained, history, calls>>

\* The verdict names this request and exactly these references.
checkVerdict ==
  /\ At("verdict")
  /\ call' = [call EXCEPT !.pc = "cleanup", !.error = verdict # call.staged]
  /\ UNCHANGED <<ctx, receipts, inputDir, read, verdict, retained, history, calls, faults>>

\* The deferred calls of validateOutputs: close the receipt, remove the directory.  A failure
\* of either is an error where there was none.
CleanupValidation ==
  /\ At("cleanup") /\ UNCHANGED <<ctx, read, verdict, retained, history, calls>>
  /\ \/ /\ receipts' = receipts \ {"validate"} /\ inputDir' = FALSE /\ UNCHANGED faults
        /\ call' = [call EXCEPT !.pc = IF call.error THEN "close" ELSE "retain", !.next = 1]
     \/ /\ Fault /\ Failed /\ \E kept \in BOOLEAN : inputDir' = kept
        /\ receipts' = receipts \ {"validate"}

\* c.retain: one output, then the manifest.
Object(m, i) == IF i <= Len(m) THEN m[i].hash ELSE <<"manifest">> \o [k \in DOMAIN m |-> m[k].hash[1]]
Retain ==
  /\ At("retain") /\ UNCHANGED <<ctx, receipts, inputDir, read, verdict, calls>>
  /\ LET m == call.staged
         i == call.next IN
     \/ /\ Live /\ retained' = retained \cup {Object(m, i)} /\ UNCHANGED <<faults, history>>
        /\ call' = [call EXCEPT !.next = @ + 1, !.pc = IF i > Len(m) THEN "close" ELSE "retain"]
     \/ /\ Live /\ Fault /\ Failed /\ UNCHANGED history
        /\ \E landed \in BOOLEAN : retained' = IF landed THEN retained \cup {Object(m, i)} ELSE retained
     \/ ~Live /\ Failed /\ UNCHANGED <<retained, faults, history>>

\* The deferred Close: its failure, too, makes both envelopes zero.
Close ==
  /\ At("close") /\ receipts' = receipts \ {"convert"}
  /\ \/ /\ history' = IF call.error THEN history ELSE history \cup {call.staged}
        /\ UNCHANGED faults
     \/ Fault /\ UNCHANGED history
  /\ call' = NoCall /\ read' = {} /\ UNCHANGED <<ctx, inputDir, verdict, retained, calls>>

\* MaxElapsed passes or the caller cancels.
ContextEnds ==
  /\ Live /\ ~At("idle") /\ ctx' = "done"
  /\ UNCHANGED <<call, receipts, inputDir, read, verdict, retained, history, calls, faults>>

Step == \/ RunConvert \/ checkManifest \/ ReadOutput \/ PrepareValidation \/ RunValidate \/ checkVerdict
        \/ CleanupValidation \/ Retain \/ Close
Next == Begin \/ Step \/ ContextEnds
Spec == Init /\ [][Next]_vars

\* Convert runs to its end: the sandbox returns (Sandbox!RunReturns) and nothing else waits.
FairSpec == Spec /\ WF_vars(Step)

-----------------------------------------------------------------------------
(* Properties. *)

\* Types, and no receipt or private input outlives the call that opened it unless its removal
\* failed.
TypeOK ==
  /\ At("idle") => receipts = {}
  /\ read \subseteq DOMAIN call.staged /\ (inputDir /\ faults = 0 => call.pc \in {"validate", "verdict", "cleanup"})

\* Success envelopes mean: the set was derived from the original, and every byte of it and its
\* manifest is durable.
SuccessIsWhole == \A m \in history : m \in Sound /\ \A i \in 1..(Len(m) + 1) : Object(m, i) \in retained

\* Nothing becomes durable before the set it belongs to was read whole and validated: a failed
\* call leaves inert objects of a sound set only.
RetainedWasValidated ==
  \A o \in retained : \E m \in Sound : \E i \in 1..(Len(m) + 1) : o = Object(m, i)

\* A manifest is durable only after every object it names.
ManifestLast ==
  \A m \in Manifests : Object(m, Len(m) + 1) \in retained => \A i \in DOMAIN m : Object(m, i) \in retained

\* Every call returns.
CallReturns == call.pc = "run" ~> call.pc = "idle"
=============================================================================
