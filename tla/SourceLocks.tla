---------------------------- MODULE SourceLocks ----------------------------
(***************************************************************************)
(* The row locks of the source transactions.  prelockSourceAccounting      *)
(* takes every lock before the body writes: the owning lease, then the     *)
(* windows, their pages, the hosts, the document's requests, the advisory  *)
(* blob guard and the blobs, each class in byte order of the keys.  The    *)
(* pages, and through them the hosts, are only read once the windows are   *)
(* locked, because another transaction may add a page until then.          *)
(***************************************************************************)
EXTENDS Integers, Sequences, FiniteSets, Functions

CONSTANTS
    Txs,         \* transactions, each run once
    Job,         \* per transaction: the keys its payload names
    FirstPages   \* the pages that exist at the start

\* A page is <<page key, window, host>>; every other key is a number in byte order.
Pages == Nat \X Nat \X Nat
Rows == Nat \cup Pages

\* Finitely many transactions; a registered page belongs to a window of its payload.
JobAssumption ==
    /\ IsFiniteSet(Txs)
    /\ FirstPages \subseteq Pages
    /\ \A t \in Txs :
         /\ Job[t].lease \in Nat
         /\ \A S \in {Job[t].windows, Job[t].hosts, Job[t].requests, Job[t].blobs} : S \subseteq Nat
         /\ Job[t].adds \subseteq Pages /\ \A p \in Job[t].adds : p[2] \in Job[t].windows

Classes == <<"lease", "window", "page", "host", "request", "guard", "blob">>

VARIABLES
    holder,   \* per class, who holds which row
    phase,    \* the class a transaction is locking; 0 before, 8 in the body, 9 ended
    todo,     \* the rows of that class it still has to lock
    pages     \* discovery_page

lockVars == <<holder, phase, todo, pages>>

Body == 8
Ended == 9

LocksInit ==
    /\ holder = [class \in Range(Classes) |-> {}]
    /\ phase = [t \in Txs |-> 0]
    /\ todo = [t \in Txs |-> {}]
    /\ pages = FirstPages

-----------------------------------------------------------------------------
Free(class, key) == \A x \in holder[class] : x[2] # key
Held(t, class) == {x[2] : x \in {y \in holder[class] : y[1] = t}}
Released(t) == [class \in Range(Classes) |-> {x \in holder[class] : x[1] # t}]

\* Byte order of the keys; pages by page key, then by window.
Before(class, a, b) ==
    IF class = "page" THEN a[1] < b[1] \/ (a[1] = b[1] /\ a[2] < b[2]) ELSE a < b

\* The windows of the payload and of the document's requests.
WindowCandidates(t) == Job[t].windows

\* SourceLockPageCandidates under the window locks the transaction now holds.
PageCandidates(t) == {p \in pages : p[2] \in Held(t, "window")}

\* The hosts the payload names and those of the pages just locked.
HostCandidates(t) == Job[t].hosts \cup {p[3] : p \in Held(t, "page")}

\* The rows of a class that a transaction wants.
Candidates(t, class) ==
    CASE class = "lease" -> {Job[t].lease}
      [] class = "window" -> WindowCandidates(t)
      [] class = "page" -> PageCandidates(t)
      [] class = "host" -> HostCandidates(t)
      [] class = "request" -> Job[t].requests
      [] class = "guard" -> IF Job[t].blobs # {} THEN {1} ELSE {}
      [] class = "blob" -> Job[t].blobs

\* The next row of the class in key order.
InOrder(t, class, key) ==
    /\ key \in todo[t]
    /\ \A other \in todo[t] \ {key} : Before(class, key, other)

\* One FOR UPDATE statement; it waits while another transaction holds the row.
LockRow(t) ==
    /\ phase[t] \in 1..7
    /\ \E key \in todo[t] :
         /\ InOrder(t, Classes[phase[t]], key)
         /\ Free(Classes[phase[t]], key)
         /\ holder' = [holder EXCEPT ![Classes[phase[t]]] = @ \cup {<<t, key>>}]
         /\ todo' = [todo EXCEPT ![t] = @ \ {key}]
    /\ UNCHANGED <<phase, pages>>

\* Mutant: all candidates of the windows are read before the windows are locked.
MNextClassEarly(t) ==
    /\ phase[t] \in 0..7
    /\ todo[t] = {}
    /\ phase' = [phase EXCEPT ![t] = @ + 1]
    /\ todo' = [todo EXCEPT ![t] =
                  IF phase[t] = 7 THEN {}
                  ELSE IF phase[t] = 2 THEN {p \in FirstPages : p[2] \in Job[t].windows}
                  ELSE Candidates(t, Classes[phase[t] + 1])]
    /\ UNCHANGED <<holder, pages>>

\* The rows of one class are all locked: read the candidates of the next one.
NextClass(t) ==
    /\ phase[t] \in 0..7
    /\ todo[t] = {}
    /\ phase' = [phase EXCEPT ![t] = @ + 1]
    /\ todo' = [todo EXCEPT ![t] = IF phase[t] = 7 THEN {} ELSE Candidates(t, Classes[phase[t] + 1])]
    /\ UNCHANGED <<holder, pages>>

\* The body writes and commits; RegisterPage adds a page of its window.
Commit(t) ==
    /\ phase[t] = Body
    /\ pages' = pages \cup Job[t].adds
    /\ holder' = Released(t)
    /\ phase' = [phase EXCEPT ![t] = Ended]
    /\ UNCHANGED todo

\* A lost grant, a cancelled context or a database error rolls back anywhere.
RollbackLocks(t) ==
    /\ phase[t] \in 1..Body
    /\ holder' = Released(t)
    /\ phase' = [phase EXCEPT ![t] = Ended]
    /\ todo' = [todo EXCEPT ![t] = {}]
    /\ UNCHANGED pages

Step(t) == LockRow(t) \/ NextClass(t) \/ Commit(t)
LocksNext == \E t \in Txs : Step(t) \/ RollbackLocks(t)

LocksSpec == LocksInit /\ [][LocksNext]_lockVars

\* Nobody promises an error; a transaction that can run is run.
LocksFairSpec == LocksSpec /\ \A t \in Txs : WF_lockVars(Step(t))

-----------------------------------------------------------------------------
(* Properties *)

\* Type correctness, and no row is locked by two transactions.
LocksTypeOK ==
    /\ phase \in [Txs -> 0..Ended]
    /\ \A class \in Range(Classes) : \A x, y \in holder[class] :
         phase[x[1]] \in 1..Body /\ (x[2] = y[2] => x[1] = y[1])

\* When its body runs, a source transaction holds every page of the windows it
\* locked and the host of each of them, also pages that another transaction
\* added while it waited (prelockSourceAccounting reads them under the window lock).
BodyHoldsAll ==
    \A t \in Txs : phase[t] = Body =>
        \A p \in pages : p[2] \in Held(t, "window") =>
            p \in Held(t, "page") /\ p[3] \in Held(t, "host")

\* t waits for a row that u has locked.
WaitsFor(t, u) ==
    /\ phase[t] \in 1..7 /\ t # u
    /\ \E key \in todo[t] :
         /\ InOrder(t, Classes[phase[t]], key)
         /\ <<u, key>> \in holder[Classes[phase[t]]]

\* Every group of transactions has one that waits for none of the group: source,
\* document, control and conversion transactions never lock each other out, because
\* each takes the classes, and the rows of a class, in one order.
NoCircle == \A T \in (SUBSET Txs) \ {{}} : \E t \in T : \A u \in T : ~WaitsFor(t, u)

\* The locks of the source transactions are taken whole and without a circle.
LocksOrdered == LocksTypeOK /\ BodyHoldsAll /\ NoCircle

\* Source, document, control and conversion transactions on
\* the same windows, hosts and blobs all end, whatever their interleaving.
TransactionsEnd == \A t \in Txs : <>(phase[t] = Ended)

=============================================================================
