---------------------------- MODULE AtomicLedger ----------------------------
(***************************************************************************)
(* What the intake ledger promises to its callers, with no transactions,   *)
(* no row locks and no clock: results are written one at a time, each by   *)
(* the holder of the current lease tuple of its resource under the current *)
(* admission epoch, at most one per idempotency key, and an accepted       *)
(* attempt is never downgraded.  IntakeLedger is shown to implement it.    *)
(***************************************************************************)
EXTENDS Integers

CONSTANTS
    Owners,           \* lease owners
    Resources,        \* leased resources
    Attempts,         \* accepted attempts
    Rows,             \* result rows: an id with its request
    Key(_),           \* idempotency key of a request
    BuildEligible(_)  \* acceptance states a release may use

VARIABLES epoch, lease, results, projection

vars == <<epoch, lease, results, projection>>

Acceptance(r) == r.content.acceptance

\* The lease tuple a request claims to hold.
Tuple(r) == [owner |-> r.owner, fence |-> r.fence, epoch |-> r.epoch]

Init ==
    /\ epoch = 1
    /\ lease = [r \in Resources |-> [owner |-> "none", fence |-> 0, epoch |-> 0]]
    /\ results = {}
    /\ projection = [a \in Attempts |-> [state |-> "none", watermark |-> 0]]

\* A new country grant fences every holder of the old one.
Rotate ==
    /\ epoch' = epoch + 1
    /\ UNCHANGED <<lease, results, projection>>

\* A resource changes hands only with a strictly greater fence.
Allocate(r) ==
    /\ \E o \in Owners :
          lease' = [lease EXCEPT ![r] = [owner |-> o, fence |-> lease[r].fence + 1, epoch |-> epoch]]
    /\ UNCHANGED <<epoch, results, projection>>

\* One linearisation point per result: the grant is current, the key is new,
\* the id exceeds every id already projected for the attempt.
Commit(x) ==
    LET r == x.req
    IN  /\ r.epoch = epoch
        /\ lease[r.resource] = Tuple(r)
        /\ \A y \in results : Key(y.req) # Key(r) /\ y.id # x.id
        /\ results' = results \cup {x}
        /\ \/ Acceptance(r) = "none" /\ UNCHANGED projection
           \/ /\ Acceptance(r) # "none"
              /\ x.id > projection[r.attempt].watermark
              /\ BuildEligible(projection[r.attempt].state) => BuildEligible(Acceptance(r))
              /\ projection' = [projection EXCEPT
                    ![r.attempt] = [state |-> Acceptance(r), watermark |-> x.id]]
        /\ UNCHANGED <<epoch, lease>>

Next ==
    \/ Rotate
    \/ \E r \in Resources : Allocate(r)
    \/ \E x \in results' \ results : x \in Rows /\ Commit(x)

Spec == Init /\ [][Next]_vars
=============================================================================
