--------------------------- MODULE Serving_proofs ---------------------------
(***************************************************************************)
(* Proofs about internal/corpus/release, for all constants: the pool of    *)
(* open bundles (ReleasePool) and the durable catalogue (ReleaseCatalog).  *)
(*                                                                         *)
(* The pool: the inductive invariant says what the three fields of a       *)
(* poolEntry mean: refs is the number of leases, closing entries are       *)
(* draining and unleased, and an entry stays in the map until its bundle   *)
(* is closed.                                                              *)
(***************************************************************************)
EXTENDS ReleasePool, ReleaseCatalog, OAuthServer, FiniteSetTheorems, SequenceTheorems, TLAPS

Leasing(q) == pc[q] \in {"leased", "operating"}
Ending(p) == pc[p] \in {"retrying", "ending", "draining"}
Leases(e) == {q \in Requests : Leasing(q) /\ entry[q] = e}

\* refs counts the leases of every entry.
RefsInv == \A e \in Bundles : refs[e] = Cardinality(Leases(e))

\* A lease points to the entry of its release, which nobody closes.
LeaseInv ==
    \A q \in Requests : Leasing(q) =>
        entry[q] # 0 /\ entry[q] = entries[target[q]] /\ entry[q] \notin closing

\* Entries are distinct, numbered up to opened, and keep their release.
EntryInv ==
    /\ \A r \in Releases : entries[r] # 0 => entries[r] <= opened /\ of[entries[r]] = r
    /\ \A b \in Bundles : b <= opened /\ b \notin closed => entries[of[b]] = b
    /\ \A b \in draining : b <= opened

\* A closed bundle was being closed, and a closing entry is draining.
FlagInv == closed \subseteq closing /\ closing \subseteq draining

\* Whoever closes an entry is the only one, and its bundle is closed exactly
\* when its Bundle.Close returned nil.
CloserInv ==
    /\ \A p \in Callers : Ending(p) =>
          /\ entry[p] # 0 /\ entry[p] = entries[target[p]] /\ entry[p] \in closing
          /\ outcome[p] = "ok" <=> entry[p] \in closed
    /\ \A p \in Callers : outcome[p] # "none" => Ending(p)
    /\ \A p, s \in Callers : Ending(p) /\ Ending(s) /\ entry[p] = entry[s] => p = s

\* A request holds its release from Pin to the end of Close.
HoldInv ==
    \A q \in Requests :
        /\ pc[q] # "idle" => hold[q] # "none"
        /\ hold[q] = "live" => target[q] \notin deleted

IInv == TypeOK /\ RefsInv /\ LeaseInv /\ EntryInv /\ FlagInv /\ CloserInv /\ HoldInv

(***************************************************************************)
(* refs and the leases.                                                    *)
(***************************************************************************)

\* The leases of an entry are finitely many, at most one per request.
LEMMA LeasesFinite ==
    ASSUME NEW e
    PROVE  /\ IsFiniteSet(Leases(e)) /\ Cardinality(Leases(e)) \in Nat
           /\ Cardinality(Leases(e)) <= Cardinality(Requests)
           /\ Cardinality(Requests) \in Nat
<1>1. Leases(e) \in SUBSET Requests BY DEF Leases
<1>2. IsFiniteSet(Requests) BY PoolAssumption
<1> QED BY <1>1, <1>2, FS_Subset, FS_CardinalityType

\* A step that leases nothing and gives nothing back keeps the count.
LEMMA RefsSame ==
    ASSUME RefsInv, refs' = refs,
           \A q \in Requests : Leasing(q)' <=> Leasing(q),
           \A q \in Requests : Leasing(q) => entry'[q] = entry[q]
    PROVE  RefsInv'
<1>1. ASSUME NEW e \in Bundles PROVE Leases(e)' = Leases(e)
  BY DEF Leases
<1> QED BY <1>1 DEF RefsInv

\* One more lease and one more reference.
LEMMA RefsAdd ==
    ASSUME TypeOK, RefsInv, NEW q \in Requests, NEW e \in Bundles,
           ~Leasing(q),
           refs' = [refs EXCEPT ![e] = refs[e] + 1],
           pc' = [pc EXCEPT ![q] = "leased"], entry' = [entry EXCEPT ![q] = e]
    PROVE  RefsInv' /\ refs' \in [Bundles -> 0 .. Cardinality(Requests)]
<1>1. q \in Callers BY DEF Callers
<1>2. pc'[q] = "leased" /\ entry'[q] = e BY <1>1 DEF TypeOK
<1>3. ASSUME NEW s \in Requests, s # q PROVE pc'[s] = pc[s] /\ entry'[s] = entry[s]
  BY <1>3 DEF TypeOK, Callers
<1>4. Leases(e)' = Leases(e) \cup {q}
  BY <1>2, <1>3 DEF Leases, Leasing
<1>5. q \notin Leases(e) BY DEF Leases
<1>6. Cardinality(Leases(e)') = Cardinality(Leases(e)) + 1
  BY <1>4, <1>5, LeasesFinite, FS_AddElement
<1>7. ASSUME NEW f \in Bundles, f # e PROVE Leases(f)' = Leases(f)
  BY <1>2, <1>3, <1>7 DEF Leases, Leasing
<1>8. refs'[e] = refs[e] + 1 /\ \A f \in Bundles : f # e => refs'[f] = refs[f]
  BY DEF TypeOK
<1>9. RefsInv'
  <2> SUFFICES ASSUME NEW f \in Bundles PROVE refs'[f] = Cardinality(Leases(f)')
    BY DEF RefsInv
  <2>1. CASE f = e BY <2>1, <1>6, <1>8 DEF RefsInv
  <2>2. CASE f # e BY <2>2, <1>7, <1>8 DEF RefsInv
  <2> QED BY <2>1, <2>2
<1>10. \A f \in Bundles : Leases(f)' \in SUBSET Requests BY DEF Leases
<1>11. \A f \in Bundles : refs'[f] \in 0 .. Cardinality(Requests)
  BY <1>9, <1>10, FS_Subset, FS_CardinalityType, PoolAssumption DEF RefsInv
<1>12. refs' \in [Bundles -> 0 .. Cardinality(Requests)]
  <2>1. DOMAIN refs' = Bundles /\ refs' = [f \in Bundles |-> refs'[f]] BY DEF TypeOK
  <2> QED BY <2>1, <1>11
<1> QED BY <1>9, <1>12

\* One lease and one reference less.
LEMMA RefsRemove ==
    ASSUME TypeOK, RefsInv, NEW q \in Requests, NEW e \in Bundles,
           Leasing(q), entry[q] = e,
           refs' = Left(e), pc' = [pc EXCEPT ![q] = pc'[q]], ~Leasing(q)',
           \A s \in Requests : s # q => entry'[s] = entry[s]
    PROVE  /\ RefsInv' /\ refs' \in [Bundles -> 0 .. Cardinality(Requests)]
           /\ refs'[e] = refs[e] - 1
<1>1. ASSUME NEW s \in Requests, s # q PROVE pc'[s] = pc[s] /\ entry'[s] = entry[s]
  BY <1>1 DEF TypeOK, Callers
<1>2. Leases(e)' = Leases(e) \ {q}
  BY <1>1 DEF Leases, Leasing
<1>3. q \in Leases(e) BY DEF Leases
<1>4. Cardinality(Leases(e)') = Cardinality(Leases(e)) - 1
  BY <1>2, <1>3, LeasesFinite, FS_RemoveElement
<1>5. Cardinality(Leases(e)) > 0
  <2>1. Cardinality(Leases(e)) # 0 BY <1>3, LeasesFinite, FS_EmptySet
  <2> QED BY <2>1, LeasesFinite
<1>6. refs[e] > 0 BY <1>5 DEF RefsInv
<1>7. refs'[e] = refs[e] - 1 /\ \A f \in Bundles : f # e => refs'[f] = refs[f]
  BY <1>6 DEF TypeOK, Left
<1>8. ASSUME NEW f \in Bundles, f # e PROVE Leases(f)' = Leases(f)
  BY <1>1, <1>8 DEF Leases, Leasing
<1>9. RefsInv'
  <2> SUFFICES ASSUME NEW f \in Bundles PROVE refs'[f] = Cardinality(Leases(f)')
    BY DEF RefsInv
  <2>1. CASE f = e BY <2>1, <1>4, <1>7 DEF RefsInv
  <2>2. CASE f # e BY <2>2, <1>7, <1>8 DEF RefsInv
  <2> QED BY <2>1, <2>2
<1>10. refs' \in [Bundles -> 0 .. Cardinality(Requests)]
  BY <1>6, LeasesFinite DEF TypeOK, Left
<1> QED BY <1>7, <1>9, <1>10

\* An entry without references has no lease.
LEMMA LeaseFree ==
    ASSUME TypeOK, RefsInv, NEW e \in Bundles, refs[e] = 0
    PROVE  \A q \in Requests : Leasing(q) => entry[q] # e
<1>1. Leases(e) = {} BY LeasesFinite, FS_EmptySet DEF RefsInv
<1> QED BY <1>1 DEF Leases

(***************************************************************************)
(* One lemma per action: the step preserves IInv.                          *)
(***************************************************************************)

\* The initial state satisfies the invariant.
LEMMA InitInv == Init => IInv
<1> SUFFICES ASSUME Init PROVE IInv OBVIOUS
<1>1. (CHOOSE r \in Releases : TRUE) \in Releases BY PoolAssumption
<1>2. Cardinality(Requests) \in Nat BY LeasesFinite
<1>3. TypeOK BY <1>1, <1>2, PoolAssumption DEF Init, TypeOK, PCs, Bundles
<1>4. RefsInv
  <2>1. ASSUME NEW e \in Bundles PROVE Leases(e) = {}
    BY DEF Init, Leases, Leasing, Callers
  <2> QED BY <2>1, FS_EmptySet DEF RefsInv, Init
<1>5. EntryInv /\ FlagInv BY DEF Init, EntryInv, FlagInv, Bundles
<1>6. LeaseInv /\ CloserInv /\ HoldInv
  BY DEF Init, LeaseInv, CloserInv, HoldInv, Leasing, Ending, Callers
<1> QED BY <1>3, <1>4, <1>5, <1>6 DEF IInv

\* Pin takes the durable hold.
LEMMA PinInv ==
    ASSUME IInv, NEW q \in Requests, NEW r \in Releases, Pin(q, r)
    PROVE  IInv'
<1> USE DEF IInv
<1>0. q \in Callers BY DEF Callers
<1>1. RefsInv'
  <2>1. refs' = refs BY DEF Pin, pool
  <2>2. \A s \in Requests : (Leasing(s)' <=> Leasing(s)) /\ (Leasing(s) => entry'[s] = entry[s])
    BY <1>0 DEF Pin, pool, callers, durable, counters, Go, Leasing, TypeOK, Callers
  <2> QED BY <2>1, <2>2, RefsSame
<1>2. TypeOK'
  <2>1. /\ pc' \in [Callers -> PCs] /\ entry' \in [Callers -> 0 .. MaxBundles]
        /\ outcome' \in [Callers -> {"none", "ok", "error"}]
    BY <1>0, PoolAssumption DEF Pin, TypeOK, Go, PCs
  <2>2. /\ target' \in [Callers -> Releases] /\ hold' \in [Requests -> {"none", "live", "lost"}]
        /\ reply' \in [Requests -> {"none", "ok", "error"}]
    BY <1>0 DEF Pin, TypeOK
  <2> QED
    BY <2>1, <2>2 DEF Pin, TypeOK, pool, counters, Bundles
<1>3. LeaseInv'
  BY <1>0
     DEF Pin, LeaseInv, EntryInv, FlagInv, CloserInv, Leasing, Ending, TypeOK, Callers, pool,
         callers, durable, counters, Go
<1>4. EntryInv' /\ FlagInv'
  BY <1>0
     DEF Pin, EntryInv, FlagInv, CloserInv, Ending, TypeOK, Bundles, pool, callers, durable,
         counters, Go
<1>5. CloserInv'
  BY <1>0
     DEF Pin, CloserInv, LeaseInv, EntryInv, FlagInv, Leasing, Ending, TypeOK, pool, callers,
         durable, counters, Go
<1>6. HoldInv'
  BY <1>0
     DEF Pin, HoldInv, CloserInv, Ending, TypeOK, Callers, pool, callers, durable, counters, Go
<1> QED BY <1>1, <1>2, <1>3, <1>4, <1>5, <1>6

\* Sharing an entry that is not draining.
LEMMA AcquireSharedInv ==
    ASSUME IInv, NEW q \in Requests, AcquireShared(q)
    PROVE  IInv'
<1> USE DEF IInv
<1>0. q \in Callers BY DEF Callers
<1> DEFINE e == entries[target[q]]
<1>a. e \in Bundles BY <1>0 DEF AcquireShared, TypeOK, Bundles
<1>1. RefsInv' /\ refs' \in [Bundles -> 0 .. Cardinality(Requests)]
  BY <1>a, RefsAdd DEF AcquireShared, Go, Leasing
<1>2. TypeOK'
  BY <1>a, <1>0, <1>1, PoolAssumption
     DEF AcquireShared, TypeOK, pool, callers, durable, counters, Go, PCs, Bundles
<1>3. LeaseInv'
  BY <1>a, <1>0
     DEF AcquireShared, LeaseInv, EntryInv, FlagInv, CloserInv, Leasing, Ending, TypeOK,
         Callers, pool, callers, durable, counters, Go
<1>4. EntryInv' /\ FlagInv'
  BY <1>a, <1>0
     DEF AcquireShared, EntryInv, FlagInv, CloserInv, Ending, TypeOK, Bundles, pool, callers,
         durable, counters, Go
<1>5. CloserInv'
  BY <1>a, <1>0
     DEF AcquireShared, CloserInv, LeaseInv, EntryInv, FlagInv, Leasing, Ending, TypeOK, pool,
         callers, durable, counters, Go
<1>6. HoldInv'
  BY <1>a, <1>0
     DEF AcquireShared, HoldInv, CloserInv, Ending, TypeOK, Callers, pool, callers, durable,
         counters, Go
<1> QED BY <1>1, <1>2, <1>3, <1>4, <1>5, <1>6

\* A draining entry refuses the request.
LEMMA AcquireRefusedInv ==
    ASSUME IInv, NEW q \in Requests, AcquireRefused(q)
    PROVE  IInv'
<1> USE DEF IInv
<1>0. q \in Callers BY DEF Callers
<1>1. RefsInv'
  <2>1. refs' = refs BY DEF AcquireRefused, pool
  <2>2. \A s \in Requests : (Leasing(s)' <=> Leasing(s)) /\ (Leasing(s) => entry'[s] = entry[s])
    BY <1>0 DEF AcquireRefused, pool, callers, durable, counters, Go, Leasing, TypeOK, Callers
  <2> QED BY <2>1, <2>2, RefsSame
<1>2. TypeOK'
  <2>1. opened' \in 0 .. MaxBundles /\ entries' \in [Releases -> 0 .. MaxBundles]
    BY <1>0, <1>1, PoolAssumption
       DEF AcquireRefused, TypeOK, pool, callers, durable, counters, Go, Bundles
  <2>2. of' \in [Bundles -> Releases] /\ refs' \in [Bundles -> 0 .. Cardinality(Requests)]
    BY <1>0, <1>1, PoolAssumption
       DEF AcquireRefused, TypeOK, pool, callers, durable, counters, Go
  <2>3. draining' \subseteq Bundles /\ closing' \subseteq Bundles /\ closed' \subseteq Bundles
    BY <1>0, <1>1, PoolAssumption
       DEF AcquireRefused, TypeOK, pool, callers, durable, counters, Go
  <2>4. pc' \in [Callers -> PCs] /\ target' \in [Callers -> Releases]
    BY <1>0, <1>1, PoolAssumption
       DEF AcquireRefused, TypeOK, pool, callers, durable, counters, Go, PCs
  <2>5. entry' \in [Callers -> 0 .. MaxBundles] /\ outcome' \in [Callers -> {"none", "ok", "error"}]
    BY <1>0, <1>1, PoolAssumption
       DEF AcquireRefused, TypeOK, pool, callers, durable, counters, Go, Bundles
  <2>6. hold' \in [Requests -> {"none", "live", "lost"}] /\ reply' \in [Requests -> {"none", "ok", "error"}]
    BY <1>0, <1>1, PoolAssumption
       DEF AcquireRefused, TypeOK, pool, callers, durable, counters, Go
  <2>7. deleted' \subseteq Releases /\ failures' \in 0 .. MaxFailures /\ drains' \in 0 .. MaxDrains
    BY <1>0, <1>1, PoolAssumption
       DEF AcquireRefused, TypeOK, pool, callers, durable, counters, Go
  <2> QED BY <2>1, <2>2, <2>3, <2>4, <2>5, <2>6, <2>7 DEF TypeOK
<1>3. LeaseInv'
  BY <1>0
     DEF AcquireRefused, LeaseInv, EntryInv, FlagInv, CloserInv, Leasing, Ending, TypeOK,
         Callers, pool, callers, durable, counters, Go
<1>4. EntryInv' /\ FlagInv'
  <2>1. EntryInv'
    BY <1>0
       DEF AcquireRefused, EntryInv, FlagInv, CloserInv, Ending, TypeOK, Bundles, pool, callers,
           durable, counters, Go
  <2>2. FlagInv'
    BY <1>0
       DEF AcquireRefused, FlagInv, CloserInv, Ending, pool, callers, durable, counters, Go
  <2> QED BY <2>1, <2>2
<1>5. CloserInv'
  BY <1>0
     DEF AcquireRefused, CloserInv, LeaseInv, EntryInv, FlagInv, Leasing, Ending, TypeOK, pool,
         callers, durable, counters, Go
<1>6. HoldInv'
  BY <1>0
     DEF AcquireRefused, HoldInv, CloserInv, Ending, TypeOK, Callers, pool, callers, durable,
         counters, Go
<1> QED BY <1>1, <1>2, <1>3, <1>4, <1>5, <1>6

\* A request becomes the closer of an idle draining entry.
LEMMA AcquireRetryInv ==
    ASSUME IInv, NEW q \in Requests, AcquireRetry(q)
    PROVE  IInv'
<1> USE DEF IInv
<1>0. q \in Callers BY DEF Callers
<1> DEFINE e == entries[target[q]]
<1>a. e \in Bundles BY <1>0 DEF AcquireRetry, TypeOK, Bundles
<1>b. \A s \in Requests : Leasing(s) => entry[s] # e
  BY <1>a, LeaseFree DEF AcquireRetry
<1>c. e \in draining /\ closing' = closing \cup {e} BY DEF AcquireRetry
<1>1. RefsInv'
  <2>1. refs' = refs BY DEF AcquireRetry, pool
  <2>2. \A s \in Requests : (Leasing(s)' <=> Leasing(s)) /\ (Leasing(s) => entry'[s] = entry[s])
    BY <1>a, <1>b, <1>c, <1>0
       DEF AcquireRetry, pool, callers, durable, counters, Go, Leasing, TypeOK, Callers
  <2> QED BY <2>1, <2>2, RefsSame
<1>2. TypeOK'
  <2>1. opened' \in 0 .. MaxBundles /\ entries' \in [Releases -> 0 .. MaxBundles]
    BY <1>a, <1>b, <1>c, <1>0, <1>1, PoolAssumption
       DEF AcquireRetry, TypeOK, pool, callers, durable, counters, Go, Bundles
  <2>2. of' \in [Bundles -> Releases] /\ refs' \in [Bundles -> 0 .. Cardinality(Requests)]
    BY <1>a, <1>b, <1>c, <1>0, <1>1, PoolAssumption
       DEF AcquireRetry, TypeOK, pool, callers, durable, counters, Go
  <2>3. draining' \subseteq Bundles /\ closing' \subseteq Bundles /\ closed' \subseteq Bundles
    BY <1>a, <1>b, <1>c, <1>0, <1>1, PoolAssumption
       DEF AcquireRetry, TypeOK, pool, callers, durable, counters, Go
  <2>4. pc' \in [Callers -> PCs] /\ target' \in [Callers -> Releases]
    BY <1>a, <1>b, <1>c, <1>0, <1>1, PoolAssumption
       DEF AcquireRetry, TypeOK, pool, callers, durable, counters, Go, PCs
  <2>5. entry' \in [Callers -> 0 .. MaxBundles] /\ outcome' \in [Callers -> {"none", "ok", "error"}]
    BY <1>a, <1>b, <1>c, <1>0, <1>1, PoolAssumption
       DEF AcquireRetry, TypeOK, pool, callers, durable, counters, Go, Bundles
  <2>6. hold' \in [Requests -> {"none", "live", "lost"}] /\ reply' \in [Requests -> {"none", "ok", "error"}]
    BY <1>a, <1>b, <1>c, <1>0, <1>1, PoolAssumption
       DEF AcquireRetry, TypeOK, pool, callers, durable, counters, Go
  <2>7. deleted' \subseteq Releases /\ failures' \in 0 .. MaxFailures /\ drains' \in 0 .. MaxDrains
    BY <1>a, <1>b, <1>c, <1>0, <1>1, PoolAssumption
       DEF AcquireRetry, TypeOK, pool, callers, durable, counters, Go
  <2> QED BY <2>1, <2>2, <2>3, <2>4, <2>5, <2>6, <2>7 DEF TypeOK
<1>3. LeaseInv'
  BY <1>a, <1>b, <1>c, <1>0
     DEF AcquireRetry, LeaseInv, EntryInv, FlagInv, CloserInv, Leasing, Ending, TypeOK, Callers,
         pool, callers, durable, counters, Go
<1>4. EntryInv' /\ FlagInv'
  <2>1. EntryInv'
    BY <1>a, <1>b, <1>c, <1>0
       DEF AcquireRetry, EntryInv, FlagInv, CloserInv, Ending, TypeOK, Bundles, pool, callers,
           durable, counters, Go
  <2>2. FlagInv'
    BY <1>a, <1>b, <1>c, <1>0
       DEF AcquireRetry, FlagInv, CloserInv, Ending, pool, callers, durable, counters, Go
  <2> QED BY <2>1, <2>2
<1>5. CloserInv'
  BY <1>a, <1>b, <1>c, <1>0
     DEF AcquireRetry, CloserInv, LeaseInv, EntryInv, FlagInv, Leasing, Ending, TypeOK, pool,
         callers, durable, counters, Go
<1>6. HoldInv'
  BY <1>a, <1>b, <1>c, <1>0
     DEF AcquireRetry, HoldInv, CloserInv, Ending, TypeOK, Callers, pool, callers, durable,
         counters, Go
<1> QED BY <1>1, <1>2, <1>3, <1>4, <1>5, <1>6

\* A new bundle gets the next number.
LEMMA AcquireOpenInv ==
    ASSUME IInv, NEW q \in Requests, AcquireOpen(q)
    PROVE  IInv'
<1> USE DEF IInv
<1>0. q \in Callers BY DEF Callers
<1> DEFINE e == opened + 1
<1>a. e \in Bundles /\ ~(e <= opened) /\ opened \in Nat
  BY PoolAssumption
     DEF AcquireOpen, TypeOK, Bundles
<1>b. Leases(e) = {}
  BY <1>a DEF Leases, LeaseInv, EntryInv, TypeOK, Callers
<1>c. refs[e] = 0 BY <1>a, <1>b, FS_EmptySet DEF RefsInv
<1>d. e \notin draining /\ e \notin closing /\ e \notin closed BY <1>a DEF EntryInv, FlagInv
<1>1. RefsInv' /\ refs' \in [Bundles -> 0 .. Cardinality(Requests)]
  <2>1. refs' = [refs EXCEPT ![e] = refs[e] + 1] BY <1>c DEF AcquireOpen
  <2> QED BY <2>1, <1>a, RefsAdd DEF AcquireOpen, Go, Leasing
<1>2. TypeOK'
  <2>1. opened' \in 0 .. MaxBundles /\ entries' \in [Releases -> 0 .. MaxBundles]
    BY <1>a, <1>d, <1>0, <1>1, PoolAssumption
       DEF AcquireOpen, TypeOK, pool, callers, durable, counters, Go, Bundles
  <2>2. of' \in [Bundles -> Releases] /\ refs' \in [Bundles -> 0 .. Cardinality(Requests)]
    BY <1>a, <1>d, <1>0, <1>1, PoolAssumption
       DEF AcquireOpen, TypeOK, pool, callers, durable, counters, Go
  <2>3. draining' \subseteq Bundles /\ closing' \subseteq Bundles /\ closed' \subseteq Bundles
    BY <1>a, <1>d, <1>0, <1>1, PoolAssumption
       DEF AcquireOpen, TypeOK, pool, callers, durable, counters, Go
  <2>4. pc' \in [Callers -> PCs] /\ target' \in [Callers -> Releases]
    BY <1>a, <1>d, <1>0, <1>1, PoolAssumption
       DEF AcquireOpen, TypeOK, pool, callers, durable, counters, Go, PCs
  <2>5. entry' \in [Callers -> 0 .. MaxBundles] /\ outcome' \in [Callers -> {"none", "ok", "error"}]
    BY <1>a, <1>d, <1>0, <1>1, PoolAssumption
       DEF AcquireOpen, TypeOK, pool, callers, durable, counters, Go, Bundles
  <2>6. hold' \in [Requests -> {"none", "live", "lost"}] /\ reply' \in [Requests -> {"none", "ok", "error"}]
    BY <1>a, <1>d, <1>0, <1>1, PoolAssumption
       DEF AcquireOpen, TypeOK, pool, callers, durable, counters, Go
  <2>7. deleted' \subseteq Releases /\ failures' \in 0 .. MaxFailures /\ drains' \in 0 .. MaxDrains
    BY <1>a, <1>d, <1>0, <1>1, PoolAssumption
       DEF AcquireOpen, TypeOK, pool, callers, durable, counters, Go
  <2> QED BY <2>1, <2>2, <2>3, <2>4, <2>5, <2>6, <2>7 DEF TypeOK
<1>3. LeaseInv'
  BY <1>a, <1>d, <1>0
     DEF AcquireOpen, LeaseInv, EntryInv, FlagInv, CloserInv, Leasing, Ending, TypeOK, Callers,
         pool, callers, durable, counters, Go
<1>4. EntryInv' /\ FlagInv'
  <2>1. EntryInv'
    BY <1>a, <1>d, <1>0
       DEF AcquireOpen, EntryInv, FlagInv, CloserInv, Ending, TypeOK, Bundles, pool, callers,
           durable, counters, Go
  <2>2. FlagInv'
    BY <1>a, <1>d, <1>0
       DEF AcquireOpen, FlagInv, CloserInv, Ending, pool, callers, durable, counters, Go
  <2> QED BY <2>1, <2>2
<1>5. CloserInv'
  BY <1>a, <1>d, <1>0
     DEF AcquireOpen, CloserInv, LeaseInv, EntryInv, FlagInv, Leasing, Ending, TypeOK, pool,
         callers, durable, counters, Go
<1>6. HoldInv'
  BY <1>a, <1>d, <1>0
     DEF AcquireOpen, HoldInv, CloserInv, Ending, TypeOK, Callers, pool, callers, durable,
         counters, Go
<1> QED BY <1>1, <1>2, <1>3, <1>4, <1>5, <1>6

\* A failed open leaves no entry.
LEMMA AcquireOpenFailsInv ==
    ASSUME IInv, NEW q \in Requests, AcquireOpenFails(q)
    PROVE  IInv'
<1> USE DEF IInv
<1>0. q \in Callers BY DEF Callers
<1>1. RefsInv'
  <2>1. refs' = refs BY DEF AcquireOpenFails, pool
  <2>2. \A s \in Requests : (Leasing(s)' <=> Leasing(s)) /\ (Leasing(s) => entry'[s] = entry[s])
    BY <1>0 DEF AcquireOpenFails, pool, callers, durable, counters, Go, Leasing, TypeOK, Callers
  <2> QED BY <2>1, <2>2, RefsSame
<1>2. TypeOK'
  BY <1>0, <1>1, PoolAssumption
     DEF AcquireOpenFails, TypeOK, pool, callers, durable, counters, Go, PCs, Bundles
<1>3. LeaseInv'
  BY <1>0
     DEF AcquireOpenFails, LeaseInv, EntryInv, FlagInv, CloserInv, Leasing, Ending, TypeOK,
         Callers, pool, callers, durable, counters, Go
<1>4. EntryInv' /\ FlagInv'
  BY <1>0
     DEF AcquireOpenFails, EntryInv, FlagInv, CloserInv, Ending, TypeOK, Bundles, pool, callers,
         durable, counters, Go
<1>5. CloserInv'
  BY <1>0
     DEF AcquireOpenFails, CloserInv, LeaseInv, EntryInv, FlagInv, Leasing, Ending, TypeOK,
         pool, callers, durable, counters, Go
<1>6. HoldInv'
  BY <1>0
     DEF AcquireOpenFails, HoldInv, CloserInv, Ending, TypeOK, Callers, pool, callers, durable,
         counters, Go
<1> QED BY <1>1, <1>2, <1>3, <1>4, <1>5, <1>6

\* An operation starts.
LEMMA OperateInv ==
    ASSUME IInv, NEW q \in Requests, Operate(q)
    PROVE  IInv'
<1> USE DEF IInv
<1>0. q \in Callers BY DEF Callers
<1>1. RefsInv'
  <2>1. refs' = refs BY DEF Operate, pool
  <2>2. \A s \in Requests : (Leasing(s)' <=> Leasing(s)) /\ (Leasing(s) => entry'[s] = entry[s])
    BY <1>0 DEF Operate, pool, callers, durable, counters, Go, Leasing, TypeOK, Callers
  <2> QED BY <2>1, <2>2, RefsSame
<1>2. TypeOK'
  BY <1>0, <1>1, PoolAssumption
     DEF Operate, TypeOK, pool, callers, durable, counters, Go, PCs, Bundles
<1>3. LeaseInv'
  BY <1>0
     DEF Operate, LeaseInv, EntryInv, FlagInv, CloserInv, Leasing, Ending, TypeOK, Callers,
         pool, callers, durable, counters, Go
<1>4. EntryInv' /\ FlagInv'
  BY <1>0
     DEF Operate, EntryInv, FlagInv, CloserInv, Ending, TypeOK, Bundles, pool, callers, durable,
         counters, Go
<1>5. CloserInv'
  BY <1>0
     DEF Operate, CloserInv, LeaseInv, EntryInv, FlagInv, Leasing, Ending, TypeOK, pool,
         callers, durable, counters, Go
<1>6. HoldInv'
  BY <1>0
     DEF Operate, HoldInv, CloserInv, Ending, TypeOK, Callers, pool, callers, durable, counters,
         Go
<1> QED BY <1>1, <1>2, <1>3, <1>4, <1>5, <1>6

\* An operation returns.
LEMMA ReturnInv ==
    ASSUME IInv, NEW q \in Requests, Return(q)
    PROVE  IInv'
<1> USE DEF IInv
<1>0. q \in Callers BY DEF Callers
<1>1. RefsInv'
  <2>1. refs' = refs BY DEF Return, pool
  <2>2. \A s \in Requests : (Leasing(s)' <=> Leasing(s)) /\ (Leasing(s) => entry'[s] = entry[s])
    BY <1>0 DEF Return, pool, callers, durable, counters, Go, Leasing, TypeOK, Callers, Answer
  <2> QED BY <2>1, <2>2, RefsSame
<1>2. TypeOK'
  BY <1>0, <1>1, PoolAssumption
     DEF Return, TypeOK, pool, callers, durable, counters, Go, Answer, PCs, Bundles
<1>3. LeaseInv'
  BY <1>0
     DEF Return, LeaseInv, EntryInv, FlagInv, CloserInv, Leasing, Ending, TypeOK, Callers, pool,
         callers, durable, counters, Go, Answer
<1>4. EntryInv' /\ FlagInv'
  BY <1>0
     DEF Return, EntryInv, FlagInv, CloserInv, Ending, TypeOK, Bundles, pool, callers, durable,
         counters, Go, Answer
<1>5. CloserInv'
  BY <1>0
     DEF Return, CloserInv, LeaseInv, EntryInv, FlagInv, Leasing, Ending, TypeOK, pool, callers,
         durable, counters, Go, Answer
<1>6. HoldInv'
  BY <1>0
     DEF Return, HoldInv, CloserInv, Ending, TypeOK, Callers, pool, callers, durable, counters,
         Go, Answer
<1> QED BY <1>1, <1>2, <1>3, <1>4, <1>5, <1>6

\* The lease is given back, and the last one out of a draining entry closes it.
LEMMA CloseLeaseInv ==
    ASSUME IInv, NEW q \in Requests, CloseLease(q)
    PROVE  IInv'
<1> USE DEF IInv
<1>0. q \in Callers BY DEF Callers
<1>a. Leasing(q) /\ entry[q] \in Bundles
  BY <1>0
     DEF CloseLease, Leasing, LeaseInv, TypeOK, Bundles
<1>b. ~Leasing(q)' /\ pc' = [pc EXCEPT ![q] = pc'[q]]
      /\ \A s \in Requests : s # q => entry'[s] = entry[s]
  BY <1>0 DEF CloseLease, Go, Leasing, TypeOK, Callers
<1>1. /\ RefsInv' /\ refs' \in [Bundles -> 0 .. Cardinality(Requests)]
      /\ refs'[entry[q]] = refs[entry[q]] - 1
  BY <1>a, <1>b, RefsRemove DEF CloseLease
<1>c. ASSUME NEW e \in Bundles, e = entry[q], e \in closing'
      PROVE  \A s \in Requests : Leasing(s)' => entry'[s] # e
  <2>1. LastOut(e) BY <1>a, <1>c DEF CloseLease, LeaseInv
  <2>2. refs'[e] = 0 BY <2>1, <1>c DEF LastOut, CloseLease
  <2>3. Cardinality(Leases(e)') = 0 BY <2>2, <1>1 DEF RefsInv
  <2>4. Leases(e)' \in SUBSET Requests BY DEF Leases
  <2>5. Leases(e)' = {} BY <2>3, <2>4, FS_Subset, FS_EmptySet, PoolAssumption
  <2> QED BY <2>5 DEF Leases
<1>2. TypeOK'
  <2>1. opened' \in 0 .. MaxBundles /\ entries' \in [Releases -> 0 .. MaxBundles]
    BY <1>a, <1>1, <1>c, <1>0, <1>1, PoolAssumption
       DEF CloseLease, TypeOK, pool, callers, durable, counters, Go, HoldDuringClose, LastOut,
           Bundles
  <2>2. of' \in [Bundles -> Releases] /\ refs' \in [Bundles -> 0 .. Cardinality(Requests)]
    BY <1>a, <1>1, <1>c, <1>0, <1>1, PoolAssumption
       DEF CloseLease, TypeOK, pool, callers, durable, counters, Go, HoldDuringClose, LastOut
  <2>3. draining' \subseteq Bundles /\ closing' \subseteq Bundles /\ closed' \subseteq Bundles
    BY <1>a, <1>1, <1>c, <1>0, <1>1, PoolAssumption
       DEF CloseLease, TypeOK, pool, callers, durable, counters, Go, HoldDuringClose, LastOut
  <2>4. pc' \in [Callers -> PCs] /\ target' \in [Callers -> Releases]
    BY <1>a, <1>1, <1>c, <1>0, <1>1, PoolAssumption
       DEF CloseLease, TypeOK, pool, callers, durable, counters, Go, HoldDuringClose, LastOut,
           PCs
  <2>5. entry' \in [Callers -> 0 .. MaxBundles] /\ outcome' \in [Callers -> {"none", "ok", "error"}]
    <3>1. entry[q] \in 0 .. MaxBundles BY <1>0, PoolAssumption DEF TypeOK
    <3>2. outcome' = outcome /\ (\E e \in {0, entry[q]} : entry' = [entry EXCEPT ![q] = e])
      BY DEF CloseLease, Go, callers
    <3> QED BY <1>0, <3>1, <3>2, PoolAssumption DEF TypeOK
  <2>6. hold' \in [Requests -> {"none", "live", "lost"}] /\ reply' \in [Requests -> {"none", "ok", "error"}]
    BY <1>a, <1>1, <1>c, <1>0, <1>1, PoolAssumption
       DEF CloseLease, TypeOK, pool, callers, durable, counters, Go, HoldDuringClose, LastOut
  <2>7. deleted' \subseteq Releases /\ failures' \in 0 .. MaxFailures /\ drains' \in 0 .. MaxDrains
    BY <1>a, <1>1, <1>c, <1>0, <1>1, PoolAssumption
       DEF CloseLease, TypeOK, pool, callers, durable, counters, Go, HoldDuringClose, LastOut
  <2> QED BY <2>1, <2>2, <2>3, <2>4, <2>5, <2>6, <2>7 DEF TypeOK
<1>3. LeaseInv'
  BY <1>a, <1>1, <1>c, <1>0
     DEF CloseLease, LeaseInv, EntryInv, FlagInv, CloserInv, Leasing, Ending, TypeOK, Callers,
         pool, callers, durable, counters, Go, HoldDuringClose, LastOut
<1>4. EntryInv' /\ FlagInv'
  <2>1. EntryInv'
    BY <1>a, <1>1, <1>c, <1>0
       DEF CloseLease, EntryInv, FlagInv, CloserInv, Ending, TypeOK, Bundles, pool, callers,
           durable, counters, Go, HoldDuringClose, LastOut
  <2>2. FlagInv'
    BY <1>a, <1>1, <1>c, <1>0
       DEF CloseLease, FlagInv, CloserInv, Ending, pool, callers, durable, counters, Go,
           HoldDuringClose, LastOut
  <2> QED BY <2>1, <2>2
<1>5. CloserInv'
  BY <1>a, <1>1, <1>c, <1>0
     DEF CloseLease, CloserInv, LeaseInv, EntryInv, FlagInv, Leasing, Ending, TypeOK, pool,
         callers, durable, counters, Go, HoldDuringClose, LastOut
<1>6. HoldInv'
  BY <1>a, <1>1, <1>c, <1>0
     DEF CloseLease, HoldInv, CloserInv, Ending, TypeOK, Callers, pool, callers, durable,
         counters, Go, HoldDuringClose, LastOut
<1> QED BY <1>1, <1>2, <1>3, <1>4, <1>5, <1>6

\* The durable hold is given up last.
LEMMA CloseDurableInv ==
    ASSUME IInv, NEW q \in Requests, CloseDurable(q)
    PROVE  IInv'
<1> USE DEF IInv
<1>0. q \in Callers BY DEF Callers
<1>1. RefsInv'
  <2>1. refs' = refs BY DEF CloseDurable, pool
  <2>2. \A s \in Requests : (Leasing(s)' <=> Leasing(s)) /\ (Leasing(s) => entry'[s] = entry[s])
    BY <1>0 DEF CloseDurable, pool, callers, durable, counters, Go, Leasing, TypeOK, Callers
  <2> QED BY <2>1, <2>2, RefsSame
<1>2. TypeOK'
  <2>1. /\ pc' \in [Callers -> PCs] /\ entry' \in [Callers -> 0 .. MaxBundles]
        /\ outcome' \in [Callers -> {"none", "ok", "error"}]
    BY <1>0, PoolAssumption DEF CloseDurable, TypeOK, Go, PCs
  <2>2. /\ target' \in [Callers -> Releases] /\ hold' \in [Requests -> {"none", "live", "lost"}]
        /\ reply' \in [Requests -> {"none", "ok", "error"}]
    BY <1>0 DEF CloseDurable, TypeOK
  <2> QED
    BY <2>1, <2>2 DEF CloseDurable, TypeOK, pool, counters, Bundles
<1>3. LeaseInv'
  BY <1>0
     DEF CloseDurable, LeaseInv, EntryInv, FlagInv, CloserInv, Leasing, Ending, TypeOK, Callers,
         pool, callers, durable, counters, Go
<1>4. EntryInv' /\ FlagInv'
  BY <1>0
     DEF CloseDurable, EntryInv, FlagInv, CloserInv, Ending, TypeOK, Bundles, pool, callers,
         durable, counters, Go
<1>5. CloserInv'
  BY <1>0
     DEF CloseDurable, CloserInv, LeaseInv, EntryInv, FlagInv, Leasing, Ending, TypeOK, pool,
         callers, durable, counters, Go
<1>6. HoldInv'
  BY <1>0
     DEF CloseDurable, HoldInv, CloserInv, Ending, TypeOK, Callers, pool, callers, durable,
         counters, Go
<1> QED BY <1>1, <1>2, <1>3, <1>4, <1>5, <1>6

\* A drained entry that nobody leases gets its closer.
LEMMA DrainInv ==
    ASSUME IInv, NEW d \in Drainers, NEW r \in Releases, Drain(d, r)
    PROVE  IInv'
<1> USE DEF IInv
<1>0. d \in Callers BY DEF Callers
<1> DEFINE e == entries[r]
<1>a. e \in Bundles BY DEF Drain, TypeOK, Bundles
<1>b. Idle(e) => \A s \in Requests : Leasing(s) => entry[s] # e
  BY <1>a, LeaseFree DEF Idle
<1>1. RefsInv'
  <2>1. refs' = refs BY DEF Drain, pool
  <2>2. \A s \in Requests : (Leasing(s)' <=> Leasing(s)) /\ (Leasing(s) => entry'[s] = entry[s])
    BY <1>a, <1>b, <1>0
       DEF Drain, pool, callers, durable, counters, Go, Leasing, TypeOK, Callers, Idle
  <2> QED BY <2>1, <2>2, RefsSame
<1>2. TypeOK'
  <2>1. opened' \in 0 .. MaxBundles /\ entries' \in [Releases -> 0 .. MaxBundles]
    BY <1>a, <1>b, <1>0, <1>1, PoolAssumption
       DEF Drain, TypeOK, pool, callers, durable, counters, Go, Idle, Bundles
  <2>2. of' \in [Bundles -> Releases] /\ refs' \in [Bundles -> 0 .. Cardinality(Requests)]
    BY <1>a, <1>b, <1>0, <1>1, PoolAssumption
       DEF Drain, TypeOK, pool, callers, durable, counters, Go, Idle
  <2>3. draining' \subseteq Bundles /\ closing' \subseteq Bundles /\ closed' \subseteq Bundles
    BY <1>a, <1>b, <1>0, <1>1, PoolAssumption
       DEF Drain, TypeOK, pool, callers, durable, counters, Go, Idle
  <2>4. pc' \in [Callers -> PCs] /\ target' \in [Callers -> Releases]
    BY <1>a, <1>b, <1>0, <1>1, PoolAssumption
       DEF Drain, TypeOK, pool, callers, durable, counters, Go, Idle, PCs
  <2>5. entry' \in [Callers -> 0 .. MaxBundles] /\ outcome' \in [Callers -> {"none", "ok", "error"}]
    <3>1. e \in 0 .. MaxBundles BY <1>0, PoolAssumption DEF TypeOK
    <3>2. outcome' = outcome /\ (entry' = entry \/ entry' = [entry EXCEPT ![d] = e])
      BY DEF Drain, Go, callers
    <3> QED BY <1>0, <3>1, <3>2, PoolAssumption DEF TypeOK
  <2>6. hold' \in [Requests -> {"none", "live", "lost"}] /\ reply' \in [Requests -> {"none", "ok", "error"}]
    BY <1>a, <1>b, <1>0, <1>1, PoolAssumption
       DEF Drain, TypeOK, pool, callers, durable, counters, Go, Idle
  <2>7. deleted' \subseteq Releases /\ failures' \in 0 .. MaxFailures /\ drains' \in 0 .. MaxDrains
    BY <1>a, <1>b, <1>0, <1>1, PoolAssumption
       DEF Drain, TypeOK, pool, callers, durable, counters, Go, Idle
  <2> QED BY <2>1, <2>2, <2>3, <2>4, <2>5, <2>6, <2>7 DEF TypeOK
<1>3. LeaseInv'
  BY <1>a, <1>b, <1>0
     DEF Drain, LeaseInv, EntryInv, FlagInv, CloserInv, Leasing, Ending, TypeOK, Callers, pool,
         callers, durable, counters, Go, Idle
<1>4. EntryInv' /\ FlagInv'
  <2>1. EntryInv'
    BY <1>a, <1>b, <1>0
       DEF Drain, EntryInv, FlagInv, CloserInv, Ending, TypeOK, Bundles, pool, callers, durable,
           counters, Go, Idle
  <2>2. FlagInv'
    BY <1>a, <1>b, <1>0
       DEF Drain, FlagInv, CloserInv, Ending, pool, callers, durable, counters, Go, Idle
  <2> QED BY <2>1, <2>2
<1>5. CloserInv'
  BY <1>a, <1>b, <1>0
     DEF Drain, CloserInv, LeaseInv, EntryInv, FlagInv, Leasing, Ending, TypeOK, pool, callers,
         durable, counters, Go, Idle
<1>6. HoldInv'
  BY <1>a, <1>b, PoolAssumption, <1>0
     DEF Drain, HoldInv, CloserInv, Ending, TypeOK, Callers, pool, callers, durable, counters,
         Go, Idle
<1> QED BY <1>1, <1>2, <1>3, <1>4, <1>5, <1>6

\* Bundle.Close succeeds or fails.
LEMMA CloseBundleInv ==
    ASSUME IInv, NEW p \in Callers, CloseBundle(p)
    PROVE  IInv'
<1> USE DEF IInv
<1>0. p \in Callers OBVIOUS
<1>a. entry[p] \in Bundles /\ entry[p] \in closing /\ Ending(p) /\ entries[target[p]] = entry[p]
  BY DEF CloseBundle, Closing, CloserInv, Ending, TypeOK, Bundles
<1>1. RefsInv'
  <2>1. refs' = refs BY DEF CloseBundle, pool
  <2>2. \A s \in Requests : (Leasing(s)' <=> Leasing(s)) /\ (Leasing(s) => entry'[s] = entry[s])
    BY <1>a, <1>0
       DEF CloseBundle, pool, callers, durable, counters, Go, Leasing, TypeOK, Callers, Closing
  <2> QED BY <2>1, <2>2, RefsSame
<1>2. TypeOK'
  <2>1. opened' \in 0 .. MaxBundles /\ entries' \in [Releases -> 0 .. MaxBundles]
    BY <1>a, <1>0, <1>1, PoolAssumption
       DEF CloseBundle, TypeOK, pool, callers, durable, counters, Go, Closing, Bundles
  <2>2. of' \in [Bundles -> Releases] /\ refs' \in [Bundles -> 0 .. Cardinality(Requests)]
    BY <1>a, <1>0, <1>1, PoolAssumption
       DEF CloseBundle, TypeOK, pool, callers, durable, counters, Go, Closing
  <2>3. draining' \subseteq Bundles /\ closing' \subseteq Bundles /\ closed' \subseteq Bundles
    BY <1>a, <1>0, <1>1, PoolAssumption
       DEF CloseBundle, TypeOK, pool, callers, durable, counters, Go, Closing
  <2>4. pc' \in [Callers -> PCs] /\ target' \in [Callers -> Releases]
    BY <1>a, <1>0, <1>1, PoolAssumption
       DEF CloseBundle, TypeOK, pool, callers, durable, counters, Go, Closing, PCs
  <2>5. entry' \in [Callers -> 0 .. MaxBundles] /\ outcome' \in [Callers -> {"none", "ok", "error"}]
    BY <1>a, <1>0, <1>1, PoolAssumption
       DEF CloseBundle, TypeOK, pool, callers, durable, counters, Go, Closing, Bundles
  <2>6. hold' \in [Requests -> {"none", "live", "lost"}] /\ reply' \in [Requests -> {"none", "ok", "error"}]
    BY <1>a, <1>0, <1>1, PoolAssumption
       DEF CloseBundle, TypeOK, pool, callers, durable, counters, Go, Closing
  <2>7. deleted' \subseteq Releases /\ failures' \in 0 .. MaxFailures /\ drains' \in 0 .. MaxDrains
    BY <1>a, <1>0, <1>1, PoolAssumption
       DEF CloseBundle, TypeOK, pool, callers, durable, counters, Go, Closing
  <2> QED BY <2>1, <2>2, <2>3, <2>4, <2>5, <2>6, <2>7 DEF TypeOK
<1>3. LeaseInv'
  BY <1>a, <1>0
     DEF CloseBundle, LeaseInv, EntryInv, FlagInv, CloserInv, Leasing, Ending, TypeOK, Callers,
         pool, callers, durable, counters, Go, Closing
<1>4. EntryInv' /\ FlagInv'
  <2>1. EntryInv'
    BY <1>a, <1>0
       DEF CloseBundle, EntryInv, FlagInv, CloserInv, Ending, TypeOK, Bundles, pool, callers,
           durable, counters, Go, Closing
  <2>2. FlagInv'
    BY <1>a, <1>0
       DEF CloseBundle, FlagInv, CloserInv, Ending, pool, callers, durable, counters, Go,
           Closing
  <2> QED BY <2>1, <2>2
<1>5. CloserInv'
  BY <1>a, <1>0
     DEF CloseBundle, CloserInv, LeaseInv, EntryInv, FlagInv, Leasing, Ending, TypeOK, pool,
         callers, durable, counters, Go, Closing
<1>6. HoldInv'
  BY <1>a, <1>0
     DEF CloseBundle, HoldInv, CloserInv, Ending, TypeOK, Callers, pool, callers, durable,
         counters, Go, Closing
<1> QED BY <1>1, <1>2, <1>3, <1>4, <1>5, <1>6

\* finishClose forgets a closed entry and reopens the others to a retry.
LEMMA FinishCloseInv ==
    ASSUME IInv, NEW p \in Callers, FinishClose(p)
    PROVE  IInv'
<1> USE DEF IInv
<1>0. p \in Callers OBVIOUS
<1>a. Ending(p) /\ entry[p] \in Bundles BY DEF FinishClose, CloserInv, TypeOK, Bundles, Ending
<1>1. RefsInv'
  <2>1. refs' = refs BY DEF FinishClose
  <2>2. pc'[p] \notin {"leased", "operating"} /\ ~Leasing(p)
    BY <1>a
       DEF FinishClose, AfterClose, TypeOK, Ending, Leasing
  <2>3. \A s \in Requests : s # p => pc'[s] = pc[s] /\ entry'[s] = entry[s]
    BY
       DEF FinishClose, TypeOK, Callers
  <2> QED BY <2>1, <2>2, <2>3, RefsSame DEF Leasing
<1>2. TypeOK'
  <2>1. opened' \in 0 .. MaxBundles /\ entries' \in [Releases -> 0 .. MaxBundles]
    BY <1>a, <1>0, <1>1, PoolAssumption
       DEF FinishClose, TypeOK, pool, callers, durable, counters, Go, EntriesAfter,
           ClosingAfter, AfterClose, Bundles
  <2>2. of' \in [Bundles -> Releases] /\ refs' \in [Bundles -> 0 .. Cardinality(Requests)]
    BY <1>a, <1>0, <1>1, PoolAssumption
       DEF FinishClose, TypeOK, pool, callers, durable, counters, Go, EntriesAfter,
           ClosingAfter, AfterClose
  <2>3. draining' \subseteq Bundles /\ closing' \subseteq Bundles /\ closed' \subseteq Bundles
    BY <1>a, <1>0, <1>1, PoolAssumption
       DEF FinishClose, TypeOK, pool, callers, durable, counters, Go, EntriesAfter,
           ClosingAfter, AfterClose
  <2>4. pc' \in [Callers -> PCs] /\ target' \in [Callers -> Releases]
    BY <1>a, <1>0, <1>1, PoolAssumption
       DEF FinishClose, TypeOK, pool, callers, durable, counters, Go, EntriesAfter,
           ClosingAfter, AfterClose, PCs
  <2>5. entry' \in [Callers -> 0 .. MaxBundles] /\ outcome' \in [Callers -> {"none", "ok", "error"}]
    BY <1>a, <1>0, <1>1, PoolAssumption
       DEF FinishClose, TypeOK, pool, callers, durable, counters, Go, EntriesAfter,
           ClosingAfter, AfterClose, Bundles
  <2>6. hold' \in [Requests -> {"none", "live", "lost"}] /\ reply' \in [Requests -> {"none", "ok", "error"}]
    BY <1>a, <1>0, <1>1, PoolAssumption
       DEF FinishClose, TypeOK, pool, callers, durable, counters, Go, EntriesAfter,
           ClosingAfter, AfterClose
  <2>7. deleted' \subseteq Releases /\ failures' \in 0 .. MaxFailures /\ drains' \in 0 .. MaxDrains
    BY <1>a, <1>0, <1>1, PoolAssumption
       DEF FinishClose, TypeOK, pool, callers, durable, counters, Go, EntriesAfter,
           ClosingAfter, AfterClose
  <2> QED BY <2>1, <2>2, <2>3, <2>4, <2>5, <2>6, <2>7 DEF TypeOK
<1>3. LeaseInv'
  BY <1>a, <1>0
     DEF FinishClose, LeaseInv, EntryInv, FlagInv, CloserInv, Leasing, Ending, TypeOK, Callers,
         pool, callers, durable, counters, Go, EntriesAfter, ClosingAfter, AfterClose
<1>4. EntryInv' /\ FlagInv'
  <2>1. EntryInv'
    BY <1>a, <1>0
       DEF FinishClose, EntryInv, FlagInv, CloserInv, Ending, TypeOK, Bundles, pool, callers,
           durable, counters, Go, EntriesAfter, ClosingAfter, AfterClose
  <2>2. FlagInv'
    BY <1>a, <1>0
       DEF FinishClose, FlagInv, CloserInv, Ending, pool, callers, durable, counters, Go,
           EntriesAfter, ClosingAfter, AfterClose
  <2> QED BY <2>1, <2>2
<1>5. CloserInv'
  BY <1>a, <1>0
     DEF FinishClose, CloserInv, LeaseInv, EntryInv, FlagInv, Leasing, Ending, TypeOK, pool,
         callers, durable, counters, Go, EntriesAfter, ClosingAfter, AfterClose
<1>6. HoldInv'
  BY <1>a, <1>0
     DEF FinishClose, HoldInv, CloserInv, Ending, TypeOK, Callers, pool, callers, durable,
         counters, Go, EntriesAfter, ClosingAfter, AfterClose
<1> QED BY <1>1, <1>2, <1>3, <1>4, <1>5, <1>6

\* A lost hold cancels its lease context.
LEMMA LoseHoldInv ==
    ASSUME IInv, NEW q \in Requests, LoseHold(q)
    PROVE  IInv'
<1> USE DEF IInv
<1>0. q \in Callers BY DEF Callers
<1>1. RefsInv'
  <2>1. refs' = refs BY DEF LoseHold, pool
  <2>2. \A s \in Requests : (Leasing(s)' <=> Leasing(s)) /\ (Leasing(s) => entry'[s] = entry[s])
    BY <1>0 DEF LoseHold, pool, callers, durable, counters, Go, Leasing, TypeOK, Callers
  <2> QED BY <2>1, <2>2, RefsSame
<1>2. TypeOK'
  BY <1>0, <1>1, PoolAssumption
     DEF LoseHold, TypeOK, pool, callers, durable, counters, Go, PCs, Bundles
<1>3. LeaseInv'
  BY <1>0
     DEF LoseHold, LeaseInv, EntryInv, FlagInv, CloserInv, Leasing, Ending, TypeOK, Callers,
         pool, callers, durable, counters, Go
<1>4. EntryInv' /\ FlagInv'
  BY <1>0
     DEF LoseHold, EntryInv, FlagInv, CloserInv, Ending, TypeOK, Bundles, pool, callers,
         durable, counters, Go
<1>5. CloserInv'
  BY <1>0
     DEF LoseHold, CloserInv, LeaseInv, EntryInv, FlagInv, Leasing, Ending, TypeOK, pool,
         callers, durable, counters, Go
<1>6. HoldInv'
  BY <1>0
     DEF LoseHold, HoldInv, CloserInv, Ending, TypeOK, Callers, pool, callers, durable,
         counters, Go
<1> QED BY <1>1, <1>2, <1>3, <1>4, <1>5, <1>6

\* Retention finalizes a release without live holds.
LEMMA FinalizeInv ==
    ASSUME IInv, NEW r \in Releases, Finalize(r)
    PROVE  IInv'
<1> USE DEF IInv
<1>0. Requests \subseteq Callers BY DEF Callers
<1>1. RefsInv'
  <2>1. refs' = refs BY DEF Finalize, pool
  <2>2. \A s \in Requests : (Leasing(s)' <=> Leasing(s)) /\ (Leasing(s) => entry'[s] = entry[s])
    BY <1>0 DEF Finalize, pool, callers, durable, counters, Go, Leasing, TypeOK, Callers
  <2> QED BY <2>1, <2>2, RefsSame
<1>2. TypeOK'
  BY <1>0, <1>1, PoolAssumption
     DEF Finalize, TypeOK, pool, callers, durable, counters, Go, PCs, Bundles
<1>3. LeaseInv'
  BY <1>0
     DEF Finalize, LeaseInv, EntryInv, FlagInv, CloserInv, Leasing, Ending, TypeOK, Callers,
         pool, callers, durable, counters, Go
<1>4. EntryInv' /\ FlagInv'
  BY <1>0
     DEF Finalize, EntryInv, FlagInv, CloserInv, Ending, TypeOK, Bundles, pool, callers,
         durable, counters, Go
<1>5. CloserInv'
  BY <1>0
     DEF Finalize, CloserInv, LeaseInv, EntryInv, FlagInv, Leasing, Ending, TypeOK, pool,
         callers, durable, counters, Go
<1>6. HoldInv'
  BY <1>0
     DEF Finalize, HoldInv, CloserInv, Ending, TypeOK, Callers, pool, callers, durable,
         counters, Go
<1> QED BY <1>1, <1>2, <1>3, <1>4, <1>5, <1>6

\* A stuttering step changes nothing the invariant reads.
LEMMA StutterInv ==
    ASSUME IInv, UNCHANGED vars
    PROVE  IInv'
BY DEF IInv, vars, TypeOK, RefsInv, Leases, LeaseInv, EntryInv, FlagInv, CloserInv, HoldInv,
       Leasing, Ending

\* Every step of the pool, its callers and retention preserves the invariant.
LEMMA NextInv == IInv /\ [Next]_vars => IInv'
<1> SUFFICES ASSUME IInv, [Next]_vars PROVE IInv' OBVIOUS
<1>1. ASSUME NEW q \in Requests, NEW r \in Releases, Pin(q, r) PROVE IInv'
  BY <1>1, PinInv
<1>2. ASSUME NEW q \in Requests, Acquire(q) PROVE IInv'
  BY <1>2, AcquireSharedInv, AcquireRefusedInv, AcquireRetryInv, AcquireOpenInv,
     AcquireOpenFailsInv DEF Acquire
<1>3. ASSUME NEW q \in Requests, Request(q) PROVE IInv'
  BY <1>2, <1>3, OperateInv, ReturnInv, CloseLeaseInv, CloseDurableInv DEF Request
<1>4. ASSUME NEW q \in Requests, LoseHold(q) PROVE IInv'
  BY <1>4, LoseHoldInv
<1>5. ASSUME NEW d \in Drainers, NEW r \in Releases, Drain(d, r) PROVE IInv'
  BY <1>5, DrainInv
<1>6. ASSUME NEW p \in Callers, CloseBundle(p) \/ FinishClose(p) PROVE IInv'
  BY <1>6, CloseBundleInv, FinishCloseInv
<1>7. ASSUME NEW r \in Releases, Finalize(r) PROVE IInv'
  BY <1>7, FinalizeInv
<1>8. ASSUME UNCHANGED vars PROVE IInv'
  BY <1>8, StutterInv
<1> QED BY <1>1, <1>3, <1>4, <1>5, <1>6, <1>7, <1>8 DEF Next

(***************************************************************************)
(* The theorems.                                                           *)
(***************************************************************************)

\* The meaning of refs, draining and closing holds in every reachable state.
THEOREM Invariance == Spec => []IInv
<1> QED BY InitInv, NextInv, PTL DEF Spec

\* No entry ever counts more leases than there are requests.
THEOREM PoolTypeCorrect == Spec => []TypeOK
<1>1. IInv => TypeOK BY DEF IInv
<1> QED BY <1>1, Invariance, PTL

\* acquire, Drain, close and finishClose never close a bundle under a lease.
THEOREM LeasedOpenHolds == Spec => []LeasedOpen
<1>1. IInv => LeasedOpen
  BY DEF IInv, LeaseInv, FlagInv, Leasing, LeasedOpen
<1> QED BY <1>1, Invariance, PTL

\* Bundle.Close is called by one goroutine at a time, until it succeeds.
THEOREM OneCloserHolds == Spec => []OneCloser
<1>1. ASSUME IInv PROVE OneCloser
  <2>1. \A p \in Callers : Closing(p) => Ending(p) /\ outcome[p] # "ok" BY DEF Closing, Ending
  <2> QED BY <1>1, <2>1 DEF IInv, CloserInv, OneCloser
<1> QED BY <1>1, Invariance, PTL

\* A release is never served by two open bundles.
THEOREM OneBundleHolds == Spec => []OneBundle
<1>1. ASSUME IInv PROVE OneBundle
  <2>1. \A b \in 1 .. opened : b \in Bundles /\ b <= opened
    BY <1>1, PoolAssumption DEF IInv, TypeOK, Bundles
  <2> QED BY <1>1, <2>1 DEF IInv, EntryInv, OneBundle
<1> QED BY <1>1, Invariance, PTL

\* A request keeps its release from retention until its bundle is given back.
THEOREM RetainedWhileLeasedHolds == Spec => []RetainedWhileLeased
<1>1. ASSUME IInv PROVE RetainedWhileLeased
  <2> SUFFICES ASSUME NEW q \in Requests, pc[q] \in {"leased", "operating", "ending"},
                      hold[q] # "lost"
               PROVE  target[q] \notin deleted
    BY DEF RetainedWhileLeased
  <2>1. hold[q] = "live" BY <1>1 DEF IInv, TypeOK, HoldInv
  <2> QED BY <1>1, <2>1 DEF IInv, HoldInv
<1> QED BY <1>1, Invariance, PTL

\* The pool's books hold together: acquire, Drain, close and finishClose keep the types,
\* the single closer, the single open bundle and the retained releases.
THEOREM BundlesAccountedHolds == Spec => []BundlesAccounted
<1>1. TypeOK /\ OneCloser /\ OneBundle /\ RetainedWhileLeased => BundlesAccounted
  BY DEF BundlesAccounted
<1> QED BY <1>1, PoolTypeCorrect, OneCloserHolds, OneBundleHolds, RetainedWhileLeasedHolds, PTL

\* operationCause lets no answer from a deleted release through.
THEOREM EvidenceRetainedHolds == Spec => EvidenceRetained
<1>1. ASSUME IInv, [Next]_vars, NEW q \in Requests, reply[q] # "ok", reply'[q] = "ok"
      PROVE  target[q] \notin deleted
  <2>1. PICK s \in Requests : Return(s)
    <3>1. ASSUME NEW s \in Requests, NEW r \in Releases, Pin(s, r) PROVE FALSE
      BY <1>1, <3>1 DEF IInv, TypeOK, Pin
    <3>2. reply' # reply BY <1>1
    <3> QED BY <1>1, <3>1, <3>2
        DEF Next, Request, Acquire, AcquireShared, AcquireRefused, AcquireRetry, AcquireOpen,
            AcquireOpenFails, Operate, CloseLease, CloseDurable, Drain, CloseBundle, FinishClose,
            LoseHold, Finalize, vars
  <2>2. s = q BY <1>1, <2>1 DEF Return, IInv, TypeOK
  <2>3. hold[q] = "live" BY <1>1, <2>1, <2>2 DEF Return, Answer, IInv, TypeOK
  <2> QED BY <1>1, <2>3 DEF IInv, HoldInv
<1>2. IInv /\ [Next]_vars =>
        [\A q \in Requests : reply[q] # "ok" /\ reply'[q] = "ok" => target[q] \notin deleted]_vars
  BY <1>1
<1> QED BY <1>2, Invariance, PTL DEF Spec, EvidenceRetained

-----------------------------------------------------------------------------

(***************************************************************************)
(* The inductive invariant.  The properties are not inductive: an          *)
(* activation commits what it checked two waits ago, so the invariant says *)
(* what its row locks and the version in its request still guarantee, and  *)
(* a fence is unique because nobody was handed one above the claim's.      *)
(***************************************************************************)
Selections == [current : CorpusReleases, previous : CorpusReleases \cup {NoRelease}]

Places == {"idle", "failing", "rechecking", "validating", "checking", "readying", "selecting", "locking",
           "switching", "retiring", "reconciling", "pinning", "claiming", "finalizing"}

TypeInv ==
    /\ CatalogTypeOK
    /\ history \in Seq(Selections)
    /\ place \in [Sessions -> Places]

\* Whoever is inside a transaction holds the rows it works on, and the
\* operator that retires holds the activation row.
Holds(s) == place[s] \in {"switching", "retiring", "pinning", "claiming", "finalizing"}
LockInv ==
    /\ \A s \in Sessions, r \in CorpusReleases : Holds(s) /\ r \in subject[s] => lock[r] = s
    /\ \A o \in Operators : place[o] = "retiring" => switcher = o

CurrentAt(v) == IF v = 0 THEN NoRelease ELSE history[v].current

\* An operator that passed the selection check asks for a switch from what
\* was selected at its version; the one that retires asks for a switch from
\* what is selected, to an available release nobody claims.
Checked(o) == place[o] \in {"checking", "locking", "switching", "retiring"}
Asked(o) ==
    /\ place[o] # "idle" =>
         \E r \in CorpusReleases : subject[o] = {r} /\ Available(r) /\ request[o].version < MaxVersion
    /\ Checked(o) => /\ request[o].version <= Len(history)
                     /\ request[o].current = CurrentAt(request[o].version)
    /\ place[o] = "retiring" =>
         /\ request[o].version = Len(history)
         /\ \A r \in subject[o] : ~BlockingClaim(r) /\ Selected.current # r
OperatorInv == \A o \in Operators : Asked(o)

\* No collector was handed a fence above the claim's, the holder of the
\* claim's own fence is its owner, and a claim in hand can still grow.
FenceInv ==
    /\ \A c \in Collectors, r \in CorpusReleases :
         /\ mine[c][r] <= claim[r].fence
         /\ mine[c][r] = claim[r].fence /\ mine[c][r] > 0 => claim[r].owner = c
    /\ \A c \in Collectors : place[c] = "claiming" => \A r \in subject[c] : claim[r].fence < MaxFence

CatalogIInv ==
    TypeInv /\ LockInv /\ OperatorInv /\ FenceInv
    /\ SelectionConsistent /\ HonestActivation /\ ClaimExcludesUse /\ UniqueFence

-----------------------------------------------------------------------------
(***************************************************************************)
(* What a step of one session does to the others: nothing to where they    *)
(* are and what they work on, and nothing to the rows they hold.           *)
(***************************************************************************)
Moves(s) ==
    /\ place' \in [Sessions -> Places]
    /\ subject' \in [Sessions -> SUBSET CorpusReleases]
    /\ \A t \in Sessions \ {s} : place'[t] = place[t] /\ subject'[t] = subject[t]

LockStep(s) ==
    /\ \A r \in CorpusReleases : lock[r] \notin {None, s} => lock'[r] = lock[r]
    /\ switcher \notin {None, s} => switcher' = switcher
    /\ Holds(s)' => \A r \in subject'[s] : lock'[r] = s
    /\ place'[s] = "retiring" /\ s \in Operators => switcher' = s

\* Row locks exclude: who holds a row goes on holding it whatever others do.
LEMMA LocksKept ==
    ASSUME CatalogAssumption, TypeInv, LockInv, NEW s \in Sessions, Moves(s), LockStep(s)
    PROVE  LockInv'
<1>1. ASSUME NEW t \in Sessions, NEW r \in CorpusReleases, Holds(t)', r \in subject'[t] PROVE lock'[r] = t
  <2>1. CASE t = s
    BY <1>1, <2>1 DEF LockStep
  <2>2. CASE t # s
    <3>1. lock[r] = t
      BY <1>1, <2>2 DEF Moves, LockInv, Holds
    <3> QED
      BY <2>2, <3>1 DEF LockStep, CatalogAssumption
  <2> QED
    BY <2>1, <2>2
<1>2. ASSUME NEW o \in Operators, place'[o] = "retiring" PROVE switcher' = o
  <2>1. CASE o = s
    BY <1>2, <2>1 DEF LockStep
  <2>2. CASE o # s
    <3>1. o \in Sessions
      BY DEF Sessions
    <3>2. switcher = o
      BY <1>2, <2>2, <3>1 DEF Moves, LockInv
    <3> QED
      BY <2>2, <3>1, <3>2 DEF LockStep, CatalogAssumption
  <2> QED
    BY <2>1, <2>2
<1> QED
  BY <1>1, <1>2 DEF LockInv

\* The history only grows, and only by the operator that holds its row.
Extends(s) ==
    /\ history' \in Seq(Selections) /\ Len(history) <= Len(history')
    /\ \A v \in 1 .. Len(history) : history'[v] = history[v]
    /\ history' = history \/ switcher = s

\* A step that leaves the history alone leaves the selection alone.
LEMMA SameHistory ==
    ASSUME TypeInv, history' = history, NEW s
    PROVE  Extends(s) /\ Selected' = Selected
<1>1. Len(history) \in Nat /\ history' \in Seq(Selections)
  BY LenProperties DEF TypeInv
<1> QED
  BY <1>1 DEF Extends, Selected

\* What an operator asked for stays what it was while others work.
LEMMA OthersAsk ==
    ASSUME CatalogAssumption, TypeInv, LockInv, NEW s \in Sessions, Moves(s), Extends(s),
           \A r \in CorpusReleases : Available(r) => Available(r)',
           \A r \in CorpusReleases : BlockingClaim(r)' => BlockingClaim(r) \/ lock[r] = s,
           NEW o \in Operators, o # s, request'[o] = request[o], Asked(o)
    PROVE  Asked(o)'
<1>1. o \in Sessions /\ place'[o] = place[o] /\ subject'[o] = subject[o]
  BY DEF Sessions, Moves
<1>2. request[o].version \in Nat /\ subject[o] \in SUBSET CorpusReleases /\ Len(history) \in Nat
  BY <1>1, LenProperties DEF TypeInv, CatalogTypeOK
<1>3. ASSUME Checked(o)
      PROVE  request[o].version <= Len(history') /\ request[o].current = CurrentAt(request[o].version)'
  <2>1. request[o].version <= Len(history) /\ request[o].current = CurrentAt(request[o].version)
    BY <1>3 DEF Asked
  <2>2. request[o].version <= Len(history')
    BY <1>2, <2>1, LenProperties DEF Extends
  <2>3. CurrentAt(request[o].version)' = CurrentAt(request[o].version)
    BY <1>1, <1>2, <2>1 DEF Extends, CurrentAt
  <2> QED
    BY <2>1, <2>2, <2>3
<1>4. ASSUME place[o] = "retiring"
      PROVE  history' = history /\ \A r \in subject[o] : ~BlockingClaim(r)' /\ Selected'.current # r
  <2>1. switcher = o /\ \A r \in subject[o] : lock[r] = o
    BY <1>1, <1>2, <1>4 DEF LockInv, Holds
  <2>2. history' = history
    BY <2>1 DEF Extends
  <2>3. Selected' = Selected
    BY <2>2 DEF Selected
  <2> QED
    BY <1>2, <1>4, <2>1, <2>2, <2>3 DEF Asked
<1> QED
  BY <1>1, <1>3, <1>4 DEF Asked, Checked

\* A truthful answer stays truthful: the history keeps what it holds.
LEMMA OthersHonest ==
    ASSUME CatalogAssumption, TypeInv, HonestActivation, NEW s \in Sessions, Moves(s), Extends(s),
           NEW o \in Operators, subject'[o] = subject[o], request'[o] = request[o],
           answered'[o] \in {"applied", "reconciled"}, answered'[o] = answered[o]
    PROVE  /\ request'[o].version < Len(history')
           /\ subject'[o] = {history'[request'[o].version + 1].current}
           /\ request'[o].current = history'[request'[o].version + 1].previous
<1>1. /\ request[o].version < Len(history)
      /\ subject[o] = {history[request[o].version + 1].current}
      /\ request[o].current = history[request[o].version + 1].previous
  BY DEF HonestActivation
<1>2. request[o].version \in Nat /\ Len(history) \in Nat /\ Len(history') \in Nat
  BY LenProperties DEF TypeInv, CatalogTypeOK, Extends
<1>3. history'[request[o].version + 1] = history[request[o].version + 1] /\ request[o].version < Len(history')
  BY <1>1, <1>2 DEF Extends
<1> QED
  BY <1>1, <1>3

-----------------------------------------------------------------------------
(* Publish.                                                                *)

\* The only states a publisher writes are ones no selected release is in.
Readies ==
    /\ state' \in [CorpusReleases -> States]
    /\ \A r \in CorpusReleases :
         \/ state'[r] = state[r]
         \/ state[r] \in {"candidate", "validated"} /\ state'[r] \in {"validated", "ready", "failed"}

\* SetCorpusReleaseReadiness writes candidates and validated releases only, or nothing.
LEMMA ReadinessUpdate ==
    ASSUME TypeInv, NEW r \in CorpusReleases, NEW to \in {"validated", "ready", "failed"},
           SetCorpusReleaseReadiness(r, to)
    PROVE  Readies
BY DEF SetCorpusReleaseReadiness, CanBecome, Readies, TypeInv, CatalogTypeOK, States

\* A session that goes on with another target disturbs no other session.
LEMMA GotoMoves ==
    ASSUME TypeInv, NEW s \in Sessions, NEW where \in Places, NEW rs \in SUBSET CorpusReleases, Goto(s, where),
           subject' = [subject EXCEPT ![s] = rs]
    PROVE  Moves(s) /\ place'[s] = where /\ subject'[s] = rs
<1>1. place \in [Sessions -> Places] /\ subject \in [Sessions -> SUBSET CorpusReleases]
  BY DEF TypeInv, CatalogTypeOK
<1>2. /\ place' \in [Sessions -> Places] /\ place'[s] = where
      /\ \A t \in Sessions \ {s} : place'[t] = place[t]
  BY <1>1 DEF Goto
<1>3. /\ subject' \in [Sessions -> SUBSET CorpusReleases] /\ subject'[s] = rs
      /\ \A t \in Sessions \ {s} : subject'[t] = subject[t]
  BY <1>1
<1> QED
  BY <1>2, <1>3 DEF Moves

\* A session that goes on with the same target disturbs no other session.
LEMMA StayMoves ==
    ASSUME TypeInv, NEW s \in Sessions, NEW where \in Places, Goto(s, where), UNCHANGED subject
    PROVE  Moves(s) /\ place'[s] = where /\ subject'[s] = subject[s]
<1>1. place \in [Sessions -> Places] /\ subject \in [Sessions -> SUBSET CorpusReleases]
  BY DEF TypeInv, CatalogTypeOK
<1>2. /\ place' \in [Sessions -> Places] /\ place'[s] = where
      /\ \A t \in Sessions \ {s} : place'[t] = place[t]
  BY <1>1 DEF Goto
<1> QED
  BY <1>1, <1>2 DEF Moves

\* A call that returns leaves its session idle, with nothing to work on.
LEMMA DoneMoves ==
    ASSUME TypeInv, NEW s \in Sessions, Done(s)
    PROVE  Moves(s) /\ place'[s] = "idle" /\ subject'[s] = {}
<1>1. "idle" \in Places /\ {} \in SUBSET CorpusReleases
  BY DEF Places
<1>2. Goto(s, "idle") /\ subject' = [subject EXCEPT ![s] = {}]
  BY DEF Done
<1> QED
  BY <1>1, <1>2, GotoMoves

\* Every step of Publish: it takes no lock and writes nothing but readiness.
LEMMA PublishSteps ==
    ASSUME CatalogAssumption, TypeInv, NEW p \in Publishers, PublishNext(p)
    PROVE  /\ TypeInv' /\ Moves(p) /\ LockStep(p) /\ Readies /\ ~Holds(p)'
           /\ UNCHANGED <<history, answered, holder, pin, claim, mine, request>>
<1>0. p \in Sessions
  BY DEF Sessions
<1> DEFINE Writes == Moves(p) /\ ~Holds(p)' /\ Readies
                     /\ UNCHANGED <<history, lock, answered, holder, pin, claim, mine, request, switcher>>
<1>1. Writes
  <2>1. ASSUME NEW r \in CorpusReleases, PublishLoad(p, r) PROVE Writes
    <3>1. /\ subject' = [subject EXCEPT ![p] = {r}]
          /\ UNCHANGED <<state, history, lock, answered, holder, pin, claim, mine, request, switcher>>
      BY <2>1 DEF PublishLoad, retention, activation
    <3>2. PICK where \in {"failing", "rechecking", "validating", "checking"} : Goto(p, where)
      BY <2>1 DEF PublishLoad
    <3>3. Moves(p) /\ place'[p] = where
      <4>1. where \in Places /\ {r} \in SUBSET CorpusReleases
        BY DEF Places
      <4> QED
        BY <1>0, <3>1, <3>2, <4>1, GotoMoves
    <3> QED
      BY <3>1, <3>2, <3>3 DEF Holds, Readies, TypeInv, CatalogTypeOK
  <2>2. CASE PublishValidate(p)
    <3>1. UNCHANGED <<history, lock, answered, holder, pin, claim, mine, request, switcher>>
      BY <2>2 DEF PublishValidate, retention, activation
    <3>2. PICK r \in CorpusReleases : /\ SetCorpusReleaseReadiness(r, "validated")
                                      /\ \/ Goto(p, "checking") /\ UNCHANGED subject
                                         \/ Done(p)
      BY <1>0, <2>2 DEF PublishValidate, TypeInv, CatalogTypeOK
    <3>3. Moves(p) /\ place'[p] \in {"checking", "idle"}
      BY <1>0, <3>2, StayMoves, DoneMoves DEF Places
    <3> QED
      BY <3>1, <3>2, <3>3, ReadinessUpdate DEF Holds
  <2>3. CASE PublishCheck(p)
    <3>1. PICK where \in {"readying", "failing"} : Goto(p, where)
      BY <2>3 DEF PublishCheck
    <3>2. UNCHANGED <<state, history, lock, subject, answered, holder, pin, claim, mine, request, switcher>>
      BY <2>3 DEF PublishCheck, retention, activation
    <3>3. Moves(p) /\ place'[p] = where
      <4>1. where \in Places /\ subject' = subject
        BY <3>2 DEF Places
      <4> QED
        BY <1>0, <3>1, <4>1, StayMoves
    <3> QED
      BY <3>1, <3>2, <3>3 DEF Holds, Readies, TypeInv, CatalogTypeOK
  <2>4. CASE PublishReady(p)
    <3>1. UNCHANGED <<history, lock, answered, holder, pin, claim, mine, request, switcher>> /\ Done(p)
      BY <2>4 DEF PublishReady, retention, activation
    <3>2. PICK r \in CorpusReleases : SetCorpusReleaseReadiness(r, "ready")
      BY <1>0, <2>4 DEF PublishReady, TypeInv, CatalogTypeOK
    <3> QED
      BY <1>0, <3>1, <3>2, ReadinessUpdate, DoneMoves DEF Holds
  <2>5. CASE RecordPublicationFailure(p)
    <3>1. UNCHANGED <<history, lock, answered, holder, pin, claim, mine, request, switcher>> /\ Done(p)
      BY <2>5 DEF RecordPublicationFailure, retention, activation
    <3>2. PICK r \in CorpusReleases : SetCorpusReleaseReadiness(r, "failed")
      BY <1>0, <2>5 DEF RecordPublicationFailure, TypeInv, CatalogTypeOK
    <3> QED
      BY <1>0, <3>1, <3>2, ReadinessUpdate, DoneMoves DEF Holds
  <2>6. CASE CheckPublishedReadiness(p)
    <3>1. /\ UNCHANGED <<state, history, lock, answered, holder, pin, claim, mine, request, switcher>>
          /\ Done(p)
      BY <2>6 DEF CheckPublishedReadiness, retention, activation
    <3> QED
      BY <1>0, <3>1, DoneMoves DEF Holds, Readies, TypeInv, CatalogTypeOK
  <2> QED
    BY <2>1, <2>2, <2>3, <2>4, <2>5, <2>6 DEF PublishNext
<1>2. TypeInv'
  BY <1>1 DEF Moves, Readies, TypeInv, CatalogTypeOK, Selections
<1>3. LockStep(p)
  <2>1. p \notin Operators
    BY DEF CatalogAssumption
  <2> QED
    BY <1>1, <2>1 DEF LockStep
<1> QED
  BY <1>1, <1>2, <1>3

\* Moving a release through its readiness disturbs no selection.
LEMMA ReadiesKeeps ==
    ASSUME CatalogAssumption, TypeInv, SelectionConsistent, Readies, UNCHANGED <<history, holder>>
    PROVE  SelectionConsistent' /\ \A r \in CorpusReleases : Available(r) => Available(r)'
<1>1. \A r \in CorpusReleases : /\ state'[r] = "active" <=> state[r] = "active"
                                /\ state[r] = "retired" => state'[r] = "retired"
                                /\ Available(r) => Available(r)'
  BY DEF Readies, Available
<1>2. Selected' = Selected
  BY DEF Selected
<1> QED
  BY <1>1, <1>2 DEF SelectionConsistent

\* Publish preserves the invariant.
LEMMA PublishKeeps ==
    ASSUME CatalogAssumption, CatalogIInv, NEW p \in Publishers, PublishNext(p)
    PROVE  CatalogIInv'
<1>0. p \in Sessions /\ p \notin Operators
  BY DEF Sessions, CatalogAssumption
<1>1. /\ TypeInv' /\ Moves(p) /\ LockStep(p) /\ Readies /\ ~Holds(p)'
      /\ UNCHANGED <<history, answered, holder, pin, claim, mine, request>>
  BY PublishSteps DEF CatalogIInv
<1>2. LockInv'
  BY <1>0, <1>1, LocksKept DEF CatalogIInv
<1>3. SelectionConsistent' /\ \A r \in CorpusReleases : Available(r) => Available(r)'
  BY <1>1, ReadiesKeeps DEF CatalogIInv
<1>4. Extends(p) /\ Selected' = Selected
  BY <1>1, SameHistory DEF CatalogIInv
<1>5. OperatorInv'
  <2>1. \A r \in CorpusReleases : BlockingClaim(r)' => BlockingClaim(r)
    BY <1>1 DEF BlockingClaim
  <2>2. ASSUME NEW o \in Operators PROVE Asked(o)'
    <3>1. o # p /\ request'[o] = request[o] /\ Asked(o)
      BY <1>0, <1>1 DEF CatalogIInv, OperatorInv
    <3> QED
      BY <1>0, <1>1, <1>3, <1>4, <2>1, <3>1, OthersAsk DEF CatalogIInv
  <2> QED
    BY <2>2 DEF OperatorInv
<1>6. HonestActivation'
  <2>1. \A o \in Operators : o \in Sessions \ {p}
    BY <1>0 DEF Sessions
  <2>2. \A o \in Operators : subject'[o] = subject[o]
    BY <1>1, <2>1 DEF Moves
  <2> QED
    BY <1>1, <2>2 DEF CatalogIInv, HonestActivation
<1>7. FenceInv' /\ UniqueFence'
  <2>1. \A c \in Collectors : place'[c] = "claiming" => place[c] = "claiming" /\ subject'[c] = subject[c]
    <3>1. \A c \in Collectors : c \in Sessions
      BY DEF Sessions
    <3>2. place'[p] # "claiming"
      BY <1>1 DEF Holds
    <3> QED
      BY <1>1, <3>1, <3>2 DEF Moves
  <2> QED
    BY <1>1, <2>1 DEF CatalogIInv, FenceInv, UniqueFence
<1>8. ClaimExcludesUse'
  BY <1>1, <1>4 DEF CatalogIInv, ClaimExcludesUse, BlockingClaim, Held, HeldByKey
<1> QED
  BY <1>1, <1>2, <1>3, <1>5, <1>6, <1>7, <1>8 DEF CatalogIInv

-----------------------------------------------------------------------------
(* Activate.                                                               *)

Told(o) ==
    answered[o] \in {"applied", "reconciled"} =>
        /\ request[o].version < Len(history)
        /\ subject[o] = {history[request[o].version + 1].current}
        /\ request[o].current = history[request[o].version + 1].previous

ActivationRequests == [version : 0 .. MaxVersion, current : CorpusReleases \cup {NoRelease}]
Outcomes == {None, "applied", "reconciled", "conflict", "error"}

\* A step of an operator: its own row and answer, and nothing of another's.
OperatorStep(o) ==
    /\ Moves(o) /\ LockStep(o) /\ Asked(o)' /\ Told(o)' /\ place'[o] # "claiming"
    /\ request' \in [Operators -> ActivationRequests] /\ answered' \in [Operators -> Outcomes]
    /\ \A d \in Operators \ {o} : request'[d] = request[d] /\ answered'[d] = answered[d]
    /\ lock' \in [CorpusReleases -> Sessions \cup {None}] /\ switcher' \in Operators \cup {None}
    /\ UNCHANGED <<pin, claim, mine>>

\* The types of what an operator reads.
LEMMA OperatorTypes ==
    ASSUME CatalogAssumption, TypeInv, NEW o \in Operators
    PROVE  /\ o \in Sessions /\ place \in [Sessions -> Places] /\ subject \in [Sessions -> SUBSET CorpusReleases]
           /\ request \in [Operators -> ActivationRequests] /\ answered \in [Operators -> Outcomes]
           /\ lock \in [CorpusReleases -> Sessions \cup {None}] /\ switcher \in Operators \cup {None}
           /\ history \in Seq(Selections) /\ Len(history) \in Nat /\ MaxVersion \in Nat
           /\ request[o].version \in Nat
           /\ \A r \in CorpusReleases : r \in Nat /\ r # NoRelease
BY LenProperties DEF TypeInv, CatalogTypeOK, ActivationRequests, Outcomes, Sessions, CatalogAssumption, NoRelease

\* COMMIT and ROLLBACK give back the own rows and nobody else's.
LEMMA Unlocks ==
    ASSUME CatalogAssumption, TypeInv, NEW s \in Sessions, Unlock(s), ~Holds(s)'
    PROVE  /\ LockStep(s)
           /\ lock' \in [CorpusReleases -> Sessions \cup {None}] /\ switcher' \in Operators \cup {None}
<1>1. lock \in [CorpusReleases -> Sessions \cup {None}] /\ switcher \in Operators \cup {None}
  BY DEF TypeInv, CatalogTypeOK
<1>2. place'[s] # "retiring"
  BY DEF Holds
<1> QED
  BY <1>1, <1>2 DEF Unlock, LockStep

\* A step outside a transaction that takes no lock disturbs no lock.
LEMMA SameLocks ==
    ASSUME TypeInv, NEW s \in Sessions, UNCHANGED <<lock, switcher>>, ~Holds(s)'
    PROVE  /\ LockStep(s)
           /\ lock' \in [CorpusReleases -> Sessions \cup {None}] /\ switcher' \in Operators \cup {None}
BY DEF LockStep, Holds, TypeInv, CatalogTypeOK

\* An answer that is not truthful leaves nothing to be believed.
LEMMA Answers ==
    ASSUME CatalogAssumption, TypeInv, NEW o \in Operators,
           NEW answer \in {"applied", "reconciled", "conflict", "error"}, AnswerActivation(o, answer)
    PROVE  /\ Moves(o) /\ place'[o] = "idle" /\ answered'[o] = answer
           /\ request' \in [Operators -> ActivationRequests] /\ answered' \in [Operators -> Outcomes]
           /\ \A d \in Operators \ {o} : request'[d] = request[d] /\ answered'[d] = answered[d]
           /\ answer \in {"applied", "reconciled"} => UNCHANGED <<subject, request>>
<1>1. o \in Sessions /\ request \in [Operators -> ActivationRequests] /\ answered \in [Operators -> Outcomes]
      /\ MaxVersion \in Nat
  BY OperatorTypes
<1>2. "idle" \in Places /\ Goto(o, "idle") /\ {} \in SUBSET CorpusReleases
  BY DEF AnswerActivation, Places
<1>3. answered' \in [Operators -> Outcomes] /\ answered'[o] = answer
      /\ \A d \in Operators \ {o} : answered'[d] = answered[d]
  BY <1>1 DEF AnswerActivation, Outcomes
<1>4. CASE answer \in {"applied", "reconciled"}
  <2>1. UNCHANGED <<subject, request>>
    BY <1>4 DEF AnswerActivation
  <2> QED
    BY <1>1, <1>2, <1>3, <2>1, StayMoves
<1>5. CASE answer \notin {"applied", "reconciled"}
  <2>1. subject' = [subject EXCEPT ![o] = {}] /\ request' = [request EXCEPT ![o] = NoRequest]
    BY <1>5 DEF AnswerActivation
  <2>2. NoRequest \in ActivationRequests
    BY <1>1 DEF NoRequest, ActivationRequests
  <2>3. request' \in [Operators -> ActivationRequests] /\ \A d \in Operators \ {o} : request'[d] = request[d]
    BY <1>1, <2>1, <2>2
  <2> QED
    BY <1>1, <1>2, <1>3, <1>5, <2>1, <2>3, GotoMoves
<1> QED
  BY <1>4, <1>5

\* Activate begins with an available release and no answer.
LEMMA LoadSteps ==
    ASSUME CatalogAssumption, TypeInv, NEW o \in Operators, NEW r \in CorpusReleases,
           NEW v \in Len(Past) .. MaxVersion - 1, NEW q \in CorpusReleases \cup {NoRelease}, ActivateLoad(o, r, v, q)
    PROVE  OperatorStep(o)
<1>1. /\ o \in Sessions /\ request \in [Operators -> ActivationRequests] /\ answered \in [Operators -> Outcomes]
      /\ MaxVersion \in Nat
  BY OperatorTypes
<1>2. v \in 0 .. MaxVersion /\ v < MaxVersion
  BY DEF CatalogAssumption
<1>3. /\ subject' = [subject EXCEPT ![o] = {r}] /\ Goto(o, "selecting")
      /\ request' = [request EXCEPT ![o] = [version |-> v, current |-> q]]
      /\ answered' = [answered EXCEPT ![o] = None]
      /\ UNCHANGED <<state, history, lock, switcher, holder, pin, claim, mine>> /\ Available(r)
  BY DEF ActivateLoad, retention
<1>4. "selecting" \in Places /\ {r} \in SUBSET CorpusReleases
  BY DEF Places
<1>5. Moves(o) /\ place'[o] = "selecting" /\ subject'[o] = {r}
  BY <1>1, <1>3, <1>4, GotoMoves
<1>6. /\ request' \in [Operators -> ActivationRequests] /\ request'[o].version = v
      /\ answered' \in [Operators -> Outcomes] /\ answered'[o] = None
      /\ \A d \in Operators \ {o} : request'[d] = request[d] /\ answered'[d] = answered[d]
  <2>1. [version |-> v, current |-> q] \in ActivationRequests
    BY <1>2 DEF ActivationRequests
  <2> QED
    BY <1>1, <1>3, <2>1 DEF Outcomes
<1>7. Asked(o)' /\ Told(o)'
  <2>1. Available(r)'
    BY <1>3 DEF Available
  <2> QED
    BY <1>2, <1>5, <1>6, <2>1 DEF Asked, Checked, Told, None
<1>8. LockStep(o) /\ lock' \in [CorpusReleases -> Sessions \cup {None}] /\ switcher' \in Operators \cup {None}
  BY <1>1, <1>3, <1>5, SameLocks DEF Holds
<1> QED
  BY <1>3, <1>5, <1>6, <1>7, <1>8 DEF OperatorStep

\* The selection is what the history holds at its last version.
LEMMA SelectedEntry ==
    ASSUME TypeInv
    PROVE  /\ Selected.version = Len(history) /\ Selected.current = CurrentAt(Len(history))
           /\ Len(history) # 0 => /\ Selected.current = history[Len(history)].current
                                  /\ Selected.previous = history[Len(history)].previous
BY EmptySeq, LenProperties DEF TypeInv, Selected, CurrentAt

\* A selection that matches the request puts the switch asked for in the history.
LEMMA MatchIsTold ==
    ASSUME CatalogAssumption, TypeInv, NEW o \in Operators, NEW r \in CorpusReleases, subject[o] = {r},
           Matches(Selected, r, request[o].version, request[o].current)
    PROVE  /\ request[o].version < Len(history)
           /\ subject[o] = {history[request[o].version + 1].current}
           /\ request[o].current = history[request[o].version + 1].previous
<1>1. request[o].version \in Nat /\ Len(history) \in Nat
  BY OperatorTypes
<1>2. Len(history) = request[o].version + 1 /\ Selected.current = r /\ Selected.previous = request[o].current
  BY SelectedEntry DEF Matches
<1> QED
  BY <1>1, <1>2, SelectedEntry

\* A session in the middle of a call works on one release, which stays available.
LEMMA WorksOnOne ==
    ASSUME CatalogAssumption, TypeInv, OperatorInv, NEW o \in Operators, place[o] # "idle"
    PROVE  \E r \in CorpusReleases : subject[o] = {r} /\ Available(r) /\ request[o].version < MaxVersion
BY DEF OperatorInv, Asked

\* Activate may answer applied or reconciled when the history or the selection says so.
LEMMA AnswerSteps ==
    ASSUME CatalogAssumption, TypeInv, NEW o \in Operators,
           NEW answer \in {"applied", "reconciled", "conflict", "error"}, AnswerActivation(o, answer),
           answer \in {"applied", "reconciled"} => Told(o)' \/
              (UNCHANGED history /\ \E r \in subject[o] : subject[o] = {r} /\ r \in CorpusReleases
                   /\ Matches(Selected, r, request[o].version, request[o].current)),
           LockStep(o), lock' \in [CorpusReleases -> Sessions \cup {None}], switcher' \in Operators \cup {None},
           UNCHANGED <<pin, claim, mine>>
    PROVE  OperatorStep(o)
<1>1. /\ Moves(o) /\ place'[o] = "idle" /\ answered'[o] = answer
      /\ request' \in [Operators -> ActivationRequests] /\ answered' \in [Operators -> Outcomes]
      /\ \A d \in Operators \ {o} : request'[d] = request[d] /\ answered'[d] = answered[d]
      /\ answer \in {"applied", "reconciled"} => UNCHANGED <<subject, request>>
  BY Answers
<1>2. Told(o)'
  <2>1. CASE answer \in {"applied", "reconciled"} /\ ~Told(o)'
    <3>1. PICK r \in CorpusReleases : subject[o] = {r} /\ Matches(Selected, r, request[o].version, request[o].current)
      BY <2>1
    <3>2. UNCHANGED <<history, subject, request>>
      BY <1>1, <2>1
    <3> QED
      BY <3>1, <3>2, MatchIsTold DEF Told
  <2>2. CASE answer \notin {"applied", "reconciled"}
    BY <1>1, <2>2 DEF Told
  <2> QED
    BY <2>1, <2>2
<1>3. Asked(o)'
  BY <1>1 DEF Asked, Checked
<1> QED
  BY <1>1, <1>2, <1>3 DEF OperatorStep

\* A step of Activate that answers nothing keeps what was answered.
LEMMA GoesOn ==
    ASSUME CatalogAssumption, TypeInv, HonestActivation, NEW o \in Operators, NEW where \in Places \ {"claiming"},
           Goto(o, where), UNCHANGED <<answered, subject, request, history, pin, claim, mine>>,
           LockStep(o), lock' \in [CorpusReleases -> Sessions \cup {None}], switcher' \in Operators \cup {None},
           Asked(o)'
    PROVE  OperatorStep(o)
<1>1. o \in Sessions /\ request \in [Operators -> ActivationRequests] /\ answered \in [Operators -> Outcomes]
  BY OperatorTypes
<1>2. Moves(o) /\ place'[o] = where
  BY <1>1, StayMoves
<1>3. Told(o)'
  BY DEF HonestActivation, Told
<1> QED
  BY <1>1, <1>2, <1>3 DEF OperatorStep

\* Reading the selection: an answer, or a request that fits what is selected.
LEMMA SelectionSteps ==
    ASSUME CatalogAssumption, TypeInv, OperatorInv, HonestActivation, NEW o \in Operators, ActivateSelection(o)
    PROVE  OperatorStep(o)
<1>1. place[o] = "selecting" /\ UNCHANGED <<state, history, lock, switcher, holder, pin, claim, mine>>
  BY DEF ActivateSelection, retention
<1>2. PICK r \in CorpusReleases : subject[o] = {r} /\ Available(r) /\ request[o].version < MaxVersion
  BY <1>1, WorksOnOne
<1>3. o \in Sessions /\ Len(history) \in Nat /\ place \in [Sessions -> Places]
  BY OperatorTypes
<1>4. ASSUME NEW answer \in {"reconciled", "conflict"}, AnswerActivation(o, answer),
             answer = "reconciled" => Matches(Selected, r, request[o].version, request[o].current)
      PROVE  OperatorStep(o)
  <2>1. ~Holds(o)'
    BY <1>4, Answers DEF Holds
  <2>2. LockStep(o) /\ lock' \in [CorpusReleases -> Sessions \cup {None}] /\ switcher' \in Operators \cup {None}
    BY <1>1, <1>3, <2>1, SameLocks
  <2> QED
    BY <1>1, <1>2, <1>4, <2>2, AnswerSteps
<1>5. CASE /\ Selected.version = request[o].version /\ Selected.current = request[o].current
           /\ Goto(o, "checking") /\ UNCHANGED <<answered, subject, request>>
  <2>1. "checking" \in Places \ {"claiming"} /\ place'[o] = "checking"
    BY <1>3, <1>5 DEF Places, Goto
  <2>2. LockStep(o) /\ lock' \in [CorpusReleases -> Sessions \cup {None}] /\ switcher' \in Operators \cup {None}
    BY <1>1, <1>3, <2>1, SameLocks DEF Holds
  <2>3. Available(r)' /\ CurrentAt(request[o].version)' = CurrentAt(request[o].version)
    BY <1>1, <1>2, <1>5 DEF Available, CurrentAt
  <2>4. request[o].version = Len(history) /\ request[o].current = CurrentAt(request[o].version)
    BY <1>5, SelectedEntry
  <2>5. Asked(o)'
    BY <1>1, <1>2, <1>3, <1>5, <2>1, <2>3, <2>4 DEF Asked, Checked
  <2> QED
    BY <1>1, <1>5, <2>1, <2>2, <2>5, GoesOn
<1> QED
  BY <1>2, <1>4, <1>5 DEF ActivateSelection

\* Checking compatibility: an error, or on to the transaction.
LEMMA CheckSteps ==
    ASSUME CatalogAssumption, TypeInv, OperatorInv, HonestActivation, NEW o \in Operators, ActivateCheck(o)
    PROVE  OperatorStep(o)
<1>1. place[o] = "checking" /\ UNCHANGED <<state, history, lock, switcher, holder, pin, claim, mine>>
  BY DEF ActivateCheck, retention
<1>2. o \in Sessions /\ place \in [Sessions -> Places]
  BY OperatorTypes
<1>3. CASE Goto(o, "locking") /\ UNCHANGED <<answered, subject, request>>
  <2>1. "locking" \in Places \ {"claiming"} /\ place'[o] = "locking"
    BY <1>2, <1>3 DEF Places, Goto
  <2>2. LockStep(o) /\ lock' \in [CorpusReleases -> Sessions \cup {None}] /\ switcher' \in Operators \cup {None}
    BY <1>1, <1>2, <2>1, SameLocks DEF Holds
  <2>3. Asked(o)'
    BY <1>1, <1>3, <2>1 DEF OperatorInv, Asked, Checked, Available, CurrentAt
  <2> QED
    BY <1>1, <1>3, <2>1, <2>2, <2>3, GoesOn
<1>4. CASE AnswerActivation(o, "error")
  <2>1. ~Holds(o)'
    BY <1>4, Answers DEF Holds
  <2>2. LockStep(o) /\ lock' \in [CorpusReleases -> Sessions \cup {None}] /\ switcher' \in Operators \cup {None}
    BY <1>1, <1>2, <2>1, SameLocks
  <2> QED
    BY <1>1, <1>4, <2>2, AnswerSteps
<1> QED
  BY <1>3, <1>4 DEF ActivateCheck

\* A row lock is granted on a row nobody holds.
LEMMA Takes ==
    ASSUME CatalogAssumption, TypeInv, NEW s \in Sessions, NEW rs \in SUBSET CorpusReleases, Lock(s, rs),
           \A r \in rs : lock[r] = None, subject'[s] \subseteq rs, place'[s] # "retiring", UNCHANGED switcher
    PROVE  /\ LockStep(s)
           /\ lock' \in [CorpusReleases -> Sessions \cup {None}] /\ switcher' \in Operators \cup {None}
<1>1. lock \in [CorpusReleases -> Sessions \cup {None}] /\ switcher \in Operators \cup {None}
  BY DEF TypeInv, CatalogTypeOK
<1>2. lock' \in [CorpusReleases -> Sessions \cup {None}] /\ \A r \in rs : lock'[r] = s
  BY <1>1 DEF Lock
<1>3. \A r \in CorpusReleases : lock[r] \notin {None, s} => lock'[r] = lock[r]
  BY DEF Lock
<1> QED
  BY <1>1, <1>2, <1>3 DEF LockStep

\* The row lock of the release to activate.
LEMMA ActivationLockSteps ==
    ASSUME CatalogAssumption, TypeInv, OperatorInv, HonestActivation, NEW o \in Operators,
           LockCorpusReleaseForActivation(o)
    PROVE  OperatorStep(o)
<1>1. /\ place[o] = "locking" /\ Goto(o, "switching")
      /\ UNCHANGED <<state, history, subject, answered, request, switcher, holder, pin, claim, mine>>
  BY DEF LockCorpusReleaseForActivation, retention, activation
<1>2. PICK r \in CorpusReleases : subject[o] = {r} /\ Available(r) /\ request[o].version < MaxVersion
  BY <1>1, WorksOnOne
<1>3. o \in Sessions /\ place \in [Sessions -> Places]
  BY OperatorTypes
<1>4. "switching" \in Places \ {"claiming"} /\ place'[o] = "switching"
  BY <1>1, <1>3 DEF Places, Goto
<1>5. LockStep(o) /\ lock' \in [CorpusReleases -> Sessions \cup {None}] /\ switcher' \in Operators \cup {None}
  <2>1. lock[r] = None /\ Lock(o, {r})
    BY <1>2 DEF LockCorpusReleaseForActivation
  <2> QED
    BY <1>1, <1>2, <1>3, <1>4, <2>1, Takes
<1>6. Asked(o)'
  BY <1>1, <1>4 DEF OperatorInv, Asked, Checked, Available, CurrentAt
<1> QED
  BY <1>1, <1>4, <1>5, <1>6, GoesOn

\* Giving up or losing the connection rolls back and reads the selection again.
LEMMA RollsBack ==
    ASSUME CatalogAssumption, TypeInv, OperatorInv, HonestActivation, NEW o \in Operators, place[o] # "idle",
           Unlock(o), Goto(o, "reconciling"),
           UNCHANGED <<state, history, subject, answered, request, holder, pin, claim, mine>>
    PROVE  OperatorStep(o)
<1>1. o \in Sessions /\ place \in [Sessions -> Places]
  BY OperatorTypes
<1>2. "reconciling" \in Places \ {"claiming"} /\ place'[o] = "reconciling"
  BY <1>1 DEF Places, Goto
<1>3. LockStep(o) /\ lock' \in [CorpusReleases -> Sessions \cup {None}] /\ switcher' \in Operators \cup {None}
  BY <1>1, <1>2, Unlocks DEF Holds
<1>4. Asked(o)'
  BY <1>2 DEF OperatorInv, Asked, Checked, Available
<1> QED
  BY <1>2, <1>3, <1>4, GoesOn

\* The statement that switches: it finds the version unchanged and no claim, or gives up.
LEMMA SwitchSteps ==
    ASSUME CatalogAssumption, TypeInv, LockInv, OperatorInv, HonestActivation, NEW o \in Operators,
           ActivateCorpusRelease(o)
    PROVE  OperatorStep(o)
<1>1. /\ place[o] = "switching"
      /\ UNCHANGED <<state, history, subject, answered, request, holder, pin, claim, mine>>
  BY DEF ActivateCorpusRelease, retention
<1>2. PICK r \in CorpusReleases : subject[o] = {r} /\ Available(r) /\ request[o].version < MaxVersion
  BY <1>1, WorksOnOne
<1>3. o \in Sessions /\ place \in [Sessions -> Places] /\ lock \in [CorpusReleases -> Sessions \cup {None}]
  BY OperatorTypes
<1>4. CASE /\ Switchable(o, r) /\ switcher' = o /\ Goto(o, "retiring") /\ switcher = None
           /\ UNCHANGED lock
  <2>1. "retiring" \in Places \ {"claiming"} /\ place'[o] = "retiring"
    BY <1>3, <1>4 DEF Places, Goto
  <2>2. lock[r] = o
    BY <1>1, <1>2, <1>3 DEF LockInv, Holds
  <2>3. LockStep(o) /\ lock' \in [CorpusReleases -> Sessions \cup {None}] /\ switcher' \in Operators \cup {None}
    BY <1>1, <1>2, <1>3, <1>4, <2>2 DEF LockStep
  <2>4. Asked(o)'
    <3>1. request[o].version = Len(history) /\ ~BlockingClaim(r) /\ Selected.current # r
      BY <1>4, SelectedEntry DEF Switchable
    <3>2. Selected' = Selected /\ BlockingClaim(r)' = BlockingClaim(r)
      BY <1>1 DEF Selected, BlockingClaim
    <3> QED
      BY <1>1, <1>2, <2>1, <3>1, <3>2 DEF OperatorInv, Asked, Checked, Available, CurrentAt
  <2> QED
    BY <1>1, <1>4, <2>1, <2>3, <2>4, GoesOn
<1>5. CASE Unlock(o) /\ Goto(o, "reconciling")
  BY <1>1, <1>5, RollsBack
<1> QED
  BY <1>2, <1>4, <1>5 DEF ActivateCorpusRelease

\* A connection lost inside the transaction rolls back.
LEMMA AbortSteps ==
    ASSUME CatalogAssumption, TypeInv, OperatorInv, HonestActivation, NEW o \in Operators, ActivateAbort(o)
    PROVE  OperatorStep(o)
BY RollsBack DEF ActivateAbort, retention

\* After an unknown outcome Activate answers what the selection shows.
LEMMA ReconcileSteps ==
    ASSUME CatalogAssumption, TypeInv, OperatorInv, NEW o \in Operators, Reconcile(o)
    PROVE  OperatorStep(o)
<1>1. place[o] = "reconciling" /\ UNCHANGED <<state, history, lock, switcher, holder, pin, claim, mine>>
  BY DEF Reconcile, retention
<1>2. PICK r \in CorpusReleases : subject[o] = {r} /\ Available(r) /\ request[o].version < MaxVersion
  BY <1>1, WorksOnOne
<1>3. o \in Sessions
  BY OperatorTypes
<1>4. PICK answer \in {"reconciled", "error"} :
        /\ AnswerActivation(o, answer)
        /\ answer = "reconciled" => Matches(Selected, r, request[o].version, request[o].current)
  BY <1>2 DEF Reconcile
<1>5. ~Holds(o)'
  BY <1>4, Answers DEF Holds
<1>6. LockStep(o) /\ lock' \in [CorpusReleases -> Sessions \cup {None}] /\ switcher' \in Operators \cup {None}
  BY <1>1, <1>3, <1>5, SameLocks
<1> QED
  BY <1>1, <1>2, <1>4, <1>6, AnswerSteps

\* Every step of Activate but its commit leaves the selection alone.
LEMMA QuietSteps ==
    ASSUME CatalogAssumption, TypeInv, LockInv, OperatorInv, HonestActivation, NEW o \in Operators,
           ActivateNext(o), ~ActivateCommit(o)
    PROVE  OperatorStep(o) /\ UNCHANGED <<state, history, holder>>
<1>1. UNCHANGED <<state, history, holder>>
  BY DEF ActivateNext, ActivateLoad, ActivateSelection, ActivateCheck, LockCorpusReleaseForActivation,
         ActivateCorpusRelease, ActivateAbort, Reconcile, retention
<1> QED
  BY <1>1, LoadSteps, SelectionSteps, CheckSteps, ActivationLockSteps, SwitchSteps, AbortSteps, ReconcileSteps
  DEF ActivateNext

\* The commit switches exactly from what is selected to what was asked for.
Switched(o, r) ==
    /\ history' = Append(history, [current |-> r, previous |-> Selected.current])
    /\ state' = [q \in CorpusReleases |->
                   IF q = r THEN "active" ELSE IF q = Selected.current THEN "retired" ELSE state[q]]
    /\ holder' = [active |-> {r}, rollback |-> {Selected.current} \cap CorpusReleases]
    /\ subject[o] = {r} /\ Available(r) /\ ~BlockingClaim(r) /\ Selected.current # r
    /\ request[o].version = Len(history) /\ request[o].version < MaxVersion
    /\ request[o].current = Selected.current
    /\ switcher = o

\* What was checked when the transaction locked its rows still holds when it commits.
LEMMA CommitSwitches ==
    ASSUME CatalogAssumption, TypeInv, LockInv, OperatorInv, NEW o \in Operators, ActivateCommit(o)
    PROVE  \E r \in CorpusReleases : Switched(o, r)
<1>1. place[o] = "retiring" /\ switcher = o
  BY DEF ActivateCommit, LockInv
<1>2. PICK r \in CorpusReleases : subject[o] = {r} /\ Available(r) /\ request[o].version < MaxVersion
  BY <1>1, WorksOnOne
<1>3. /\ ~BlockingClaim(r) /\ Selected.current # r /\ request[o].version = Len(history)
      /\ request[o].current = Selected.current
  BY <1>1, <1>2, SelectedEntry DEF OperatorInv, Asked, Checked
<1>4. /\ history' = Append(history, [current |-> r, previous |-> Selected.current])
      /\ state' = [q \in CorpusReleases |->
                     IF q = r THEN "active" ELSE IF q = Selected.current THEN "retired" ELSE state[q]]
      /\ holder' = [active |-> {r}, rollback |-> {Selected.current} \cap CorpusReleases]
  BY <1>2 DEF ActivateCommit
<1> QED
  BY <1>1, <1>2, <1>3, <1>4 DEF Switched

\* The commit adds the switch at the next version.
LEMMA CommittedHistory ==
    ASSUME CatalogAssumption, TypeInv, NEW o \in Operators, NEW r \in CorpusReleases, Switched(o, r)
    PROVE  /\ Extends(o) /\ Len(history') = Len(history) + 1 /\ Len(history') <= MaxVersion
           /\ history'[Len(history) + 1] = [current |-> r, previous |-> Selected.current]
           /\ Selected'.current = r /\ Selected'.previous = Selected.current
           /\ Selected.current \in CorpusReleases \cup {NoRelease}
<1>1. Len(history) \in Nat /\ history \in Seq(Selections) /\ MaxVersion \in Nat
  BY OperatorTypes
<1>2. Selected.current \in CorpusReleases \cup {NoRelease}
  <2>1. CASE history = <<>>
    BY <2>1 DEF Selected
  <2>2. CASE history # <<>>
    <3>1. Len(history) \in 1 .. Len(history)
      BY <1>1, <2>2, EmptySeq
    <3>2. history[Len(history)] \in Selections
      BY <1>1, <3>1, ElementOfSeq
    <3> QED
      BY <2>2, <3>2 DEF Selected, Selections
  <2> QED
    BY <2>1, <2>2
<1>3. [current |-> r, previous |-> Selected.current] \in Selections
  BY <1>2 DEF Selections
<1>4. /\ history' \in Seq(Selections) /\ Len(history') = Len(history) + 1 /\ history' # <<>>
      /\ \A v \in 1 .. Len(history) : history'[v] = history[v]
      /\ history'[Len(history) + 1] = [current |-> r, previous |-> Selected.current]
  BY <1>1, <1>3, AppendProperties DEF Switched
<1>5. Selected'.current = r /\ Selected'.previous = Selected.current
  BY <1>4 DEF Selected
<1>6. Len(history') <= MaxVersion
  BY <1>1, <1>4 DEF Switched
<1> QED
  BY <1>1, <1>2, <1>4, <1>5, <1>6 DEF Extends, Switched

\* The commit leaves exactly the new release active, the old one retired, and their holds.
LEMMA CommittedSelection ==
    ASSUME CatalogAssumption, TypeInv, SelectionConsistent, NEW o \in Operators, NEW r \in CorpusReleases, Switched(o, r)
    PROVE  /\ SelectionConsistent'
           /\ state' \in [CorpusReleases -> States]
           /\ holder' \in [active : SUBSET CorpusReleases, rollback : SUBSET CorpusReleases]
           /\ \A q \in CorpusReleases : Available(q) => Available(q)'
<1>1. /\ Selected'.current = r /\ Selected'.previous = Selected.current
      /\ Selected.current \in CorpusReleases \cup {NoRelease} /\ Selected.current # r
  BY CommittedHistory DEF Switched
<1>2. \A q \in CorpusReleases : /\ state'[q] = "active" <=> q = r
                                /\ q = Selected.current => state'[q] = "retired"
  BY <1>1 DEF Switched, SelectionConsistent
<1>3. /\ state' \in [CorpusReleases -> States]
      /\ \A q \in CorpusReleases : Available(q) => Available(q)'
  BY DEF Switched, Available, States, TypeInv, CatalogTypeOK
<1>4. holder'.active = {r} /\ holder'.rollback = {Selected.current} \cap CorpusReleases
      /\ holder' \in [active : SUBSET CorpusReleases, rollback : SUBSET CorpusReleases]
  BY DEF Switched
<1> QED
  BY <1>1, <1>2, <1>3, <1>4 DEF SelectionConsistent

\* The commit answers what it did, or nothing.
LEMMA CommitSteps ==
    ASSUME CatalogAssumption, TypeInv, LockInv, OperatorInv, SelectionConsistent, HonestActivation,
           NEW o \in Operators, ActivateCommit(o), NEW r \in CorpusReleases, Switched(o, r)
    PROVE  OperatorStep(o)
<1>1. Unlock(o) /\ UNCHANGED <<pin, claim, mine>> /\ place[o] = "retiring"
  BY DEF ActivateCommit
<1>2. /\ o \in Sessions /\ place \in [Sessions -> Places] /\ Len(history) \in Nat
      /\ request \in [Operators -> ActivationRequests] /\ answered \in [Operators -> Outcomes]
  BY OperatorTypes
<1>3. /\ Len(history') = Len(history) + 1
      /\ history'[Len(history) + 1] = [current |-> r, previous |-> Selected.current]
      /\ Extends(o) /\ \A q \in CorpusReleases : Available(q) => Available(q)'
  BY CommittedHistory, CommittedSelection
<1>4. /\ request[o].version < Len(history')
      /\ subject[o] = {history'[request[o].version + 1].current}
      /\ request[o].current = history'[request[o].version + 1].previous
  BY <1>2, <1>3 DEF Switched
<1>5. CASE AnswerActivation(o, "applied")
  <2>1. UNCHANGED <<subject, request>> /\ ~Holds(o)'
    BY <1>5, Answers DEF Holds
  <2>2. LockStep(o) /\ lock' \in [CorpusReleases -> Sessions \cup {None}] /\ switcher' \in Operators \cup {None}
    BY <1>1, <1>2, <2>1, Unlocks
  <2>3. Told(o)'
    BY <1>4, <2>1 DEF Told
  <2> QED
    BY <1>1, <1>5, <2>2, <2>3, AnswerSteps
<1>6. CASE Goto(o, "reconciling") /\ UNCHANGED <<answered, subject, request>>
  <2>1. "reconciling" \in Places /\ place'[o] = "reconciling"
    BY <1>2, <1>6 DEF Places, Goto
  <2>2. LockStep(o) /\ lock' \in [CorpusReleases -> Sessions \cup {None}] /\ switcher' \in Operators \cup {None}
    BY <1>1, <1>2, <2>1, Unlocks DEF Holds
  <2>3. Moves(o)
    BY <1>2, <1>6, <2>1, StayMoves
  <2>4. Told(o)'
    BY <1>4, <1>6 DEF Told
  <2>5. Asked(o)'
    <3>1. subject'[o] = {r} /\ Available(r)' /\ request'[o].version < MaxVersion
      BY <1>3, <1>6 DEF Switched
    <3> QED
      BY <2>1, <3>1 DEF Asked, Checked
  <2> QED
    BY <1>1, <1>2, <1>6, <2>1, <2>2, <2>3, <2>4, <2>5 DEF OperatorStep
<1> QED
  BY <1>5, <1>6 DEF ActivateCommit

\* Every step of an operator, by what it does to the selection.
LEMMA ActivateSteps ==
    ASSUME CatalogAssumption, CatalogIInv, NEW o \in Operators, ActivateNext(o)
    PROVE  /\ OperatorStep(o)
           /\ \/ UNCHANGED <<state, history, holder>>
              \/ \E r \in CorpusReleases : Switched(o, r)
<1>1. CASE ActivateCommit(o)
  BY <1>1, CommitSwitches, CommitSteps DEF CatalogIInv
<1>2. CASE ~ActivateCommit(o)
  BY <1>2, QuietSteps DEF CatalogIInv
<1> QED
  BY <1>1, <1>2

\* Activate preserves the invariant.
LEMMA ActivateKeeps ==
    ASSUME CatalogAssumption, CatalogIInv, NEW o \in Operators, ActivateNext(o)
    PROVE  CatalogIInv'
<1>1. /\ OperatorStep(o) /\ o \in Sessions
      /\ UNCHANGED <<state, history, holder>> \/ \E r \in CorpusReleases : Switched(o, r)
  BY ActivateSteps DEF Sessions
<1>2. /\ Moves(o) /\ LockStep(o) /\ Asked(o)' /\ Told(o)' /\ place'[o] # "claiming"
      /\ request' \in [Operators -> ActivationRequests] /\ answered' \in [Operators -> Outcomes]
      /\ \A d \in Operators \ {o} : request'[d] = request[d] /\ answered'[d] = answered[d]
      /\ lock' \in [CorpusReleases -> Sessions \cup {None}] /\ switcher' \in Operators \cup {None}
      /\ UNCHANGED <<pin, claim, mine>>
  BY <1>1 DEF OperatorStep
<1>3. /\ Extends(o) /\ SelectionConsistent' /\ \A r \in CorpusReleases : Available(r) => Available(r)'
      /\ state' \in [CorpusReleases -> States] /\ Len(history') \in 0 .. MaxVersion
      /\ holder' \in [active : SUBSET CorpusReleases, rollback : SUBSET CorpusReleases]
  <2>1. CASE UNCHANGED <<state, history, holder>>
    <3>1. Extends(o) /\ Selected' = Selected
      BY <2>1, SameHistory DEF CatalogIInv
    <3>2. SelectionConsistent'
      BY <2>1, <3>1 DEF CatalogIInv, SelectionConsistent
    <3> QED
      BY <2>1, <3>1, <3>2 DEF CatalogIInv, TypeInv, CatalogTypeOK, Available
  <2>2. ASSUME NEW r \in CorpusReleases, Switched(o, r)
        PROVE  /\ Extends(o) /\ SelectionConsistent' /\ \A q \in CorpusReleases : Available(q) => Available(q)'
               /\ state' \in [CorpusReleases -> States] /\ Len(history') \in 0 .. MaxVersion
               /\ holder' \in [active : SUBSET CorpusReleases, rollback : SUBSET CorpusReleases]
    <3>1. /\ Extends(o) /\ Len(history') = Len(history) + 1 /\ Len(history') <= MaxVersion
      BY <2>2, CommittedHistory DEF CatalogIInv
    <3>2. Len(history) \in Nat /\ MaxVersion \in Nat
      BY OperatorTypes DEF CatalogIInv
    <3>3. /\ SelectionConsistent' /\ \A q \in CorpusReleases : Available(q) => Available(q)'
          /\ state' \in [CorpusReleases -> States]
          /\ holder' \in [active : SUBSET CorpusReleases, rollback : SUBSET CorpusReleases]
      BY <2>2, CommittedSelection DEF CatalogIInv
    <3> QED
      BY <3>1, <3>2, <3>3
  <2> QED
    BY <1>1, <2>1, <2>2
<1>4. TypeInv'
  <2>1. \A v \in 1 .. Len(history') : history'[v] \in Selections
    BY <1>3, ElementOfSeq DEF Extends
  <2> QED
    BY <1>2, <1>3, <2>1 DEF CatalogIInv, TypeInv, CatalogTypeOK, Moves, Extends, Selections, ActivationRequests, Outcomes
<1>5. LockInv'
  BY <1>1, <1>2, LocksKept DEF CatalogIInv
<1>6. \A r \in CorpusReleases : BlockingClaim(r)' => BlockingClaim(r)
  BY <1>2 DEF BlockingClaim
<1>7. OperatorInv'
  <2>1. ASSUME NEW d \in Operators PROVE Asked(d)'
    <3>1. CASE d = o
      BY <1>2, <3>1
    <3>2. CASE d # o
      <4>1. request'[d] = request[d] /\ Asked(d)
        BY <1>2, <3>2 DEF CatalogIInv, OperatorInv
      <4> QED
        BY <1>1, <1>2, <1>3, <1>6, <3>2, <4>1, OthersAsk DEF CatalogIInv
    <3> QED
      BY <3>1, <3>2
  <2> QED
    BY <2>1 DEF OperatorInv
<1>8. HonestActivation'
  <2>1. ASSUME NEW d \in Operators PROVE Told(d)'
    <3>1. CASE d = o
      BY <1>2, <3>1
    <3>2. CASE d # o
      <4>1. request'[d] = request[d] /\ answered'[d] = answered[d] /\ subject'[d] = subject[d]
        BY <1>2, <3>2 DEF Moves, Sessions
      <4> QED
        BY <1>1, <1>2, <1>3, <4>1, OthersHonest DEF CatalogIInv, Told
    <3> QED
      BY <3>1, <3>2
  <2> QED
    BY <2>1 DEF HonestActivation, Told
<1>9. FenceInv' /\ UniqueFence'
  <2>1. \A c \in Collectors : place'[c] = "claiming" => place[c] = "claiming" /\ subject'[c] = subject[c]
    <3>1. \A c \in Collectors : c \in Sessions
      BY DEF Sessions
    <3> QED
      BY <1>2, <3>1 DEF Moves
  <2> QED
    BY <1>2, <2>1 DEF CatalogIInv, FenceInv, UniqueFence
<1>10. ClaimExcludesUse'
  <2>1. CASE UNCHANGED <<state, history, holder>>
    BY <1>2, <2>1 DEF CatalogIInv, ClaimExcludesUse, BlockingClaim, Held, HeldByKey, Selected
  <2>2. ASSUME NEW r \in CorpusReleases, Switched(o, r), NEW q \in CorpusReleases, BlockingClaim(q)'
        PROVE  q \notin {Selected'.current, Selected'.previous} /\ ~Held(q)'
    <3>1. Selected'.current = r /\ Selected'.previous = Selected.current
      BY <2>2, CommittedHistory DEF CatalogIInv
    <3>2. q # r /\ q # Selected.current /\ ~Held(q)
      BY <1>6, <2>2 DEF Switched, CatalogIInv, ClaimExcludesUse
    <3>3. ~HeldByKey(q)'
      BY <1>2, <3>2 DEF Held, HeldByKey
    <3>4. q \notin holder'.active \cup holder'.rollback
      BY <2>2, <3>2 DEF Switched
    <3> QED
      BY <3>1, <3>2, <3>3, <3>4 DEF Held
  <2> QED
    BY <1>1, <2>1, <2>2 DEF ClaimExcludesUse
<1> QED
  BY <1>3, <1>4, <1>5, <1>7, <1>8, <1>9, <1>10 DEF CatalogIInv

-----------------------------------------------------------------------------
(* Holds and claims: sessions that are no operators.                       *)

\* Pins and collectors disturb no activation.
LEMMA OutsideKeeps ==
    ASSUME CatalogAssumption, CatalogIInv, NEW s \in Sessions, s \notin Operators, Moves(s), LockStep(s),
           UNCHANGED <<state, history, holder, answered, request>>,
           \A r \in CorpusReleases : BlockingClaim(r)' => BlockingClaim(r) \/ lock[r] = s
    PROVE  LockInv' /\ OperatorInv' /\ HonestActivation' /\ SelectionConsistent' /\ Selected' = Selected
<1>1. LockInv'
  BY LocksKept DEF CatalogIInv
<1>2. Extends(s) /\ Selected' = Selected /\ \A r \in CorpusReleases : Available(r) => Available(r)'
  BY SameHistory DEF CatalogIInv, Available
<1>3. OperatorInv'
  <2>1. ASSUME NEW o \in Operators PROVE Asked(o)'
    <3>1. o # s /\ request'[o] = request[o] /\ Asked(o)
      BY DEF CatalogIInv, OperatorInv
    <3> QED
      BY <1>2, <3>1, OthersAsk DEF CatalogIInv
  <2> QED
    BY <2>1 DEF OperatorInv
<1>4. HonestActivation'
  <2>1. \A o \in Operators : o \in Sessions \ {s}
    BY DEF Sessions
  <2>2. \A o \in Operators : subject'[o] = subject[o]
    BY <2>1 DEF Moves
  <2> QED
    BY <2>2 DEF CatalogIInv, HonestActivation
<1>5. SelectionConsistent'
  BY <1>2 DEF CatalogIInv, SelectionConsistent
<1> QED
  BY <1>1, <1>2, <1>3, <1>4, <1>5

\* A step that moves nobody and locks nothing keeps what is locked.
LEMMA Rests ==
    ASSUME TypeInv, LockInv, NEW s \in Sessions, s \notin Operators, UNCHANGED <<place, subject, lock, switcher>>
    PROVE  Moves(s) /\ LockStep(s)
<1>1. Moves(s)
  BY DEF Moves, TypeInv, CatalogTypeOK
<1>2. Holds(s)' => \A r \in subject'[s] : lock'[r] = s
  BY DEF LockInv, Holds, TypeInv, CatalogTypeOK
<1> QED
  BY <1>1, <1>2 DEF LockStep

PinRows == [Pins -> [release : CorpusReleases \cup {NoRelease}, life : {None, "live", "expired"}]]

\* A hold is only ever added on a release that nobody claims.
LEMMA PinSteps ==
    ASSUME CatalogAssumption, CatalogIInv, NEW k \in Pins, PinNext(k)
    PROVE  /\ Moves(k) /\ LockStep(k) /\ pin' \in PinRows
           /\ lock' \in [CorpusReleases -> Sessions \cup {None}] /\ switcher' \in Operators \cup {None}
           /\ UNCHANGED <<state, history, holder, answered, request, claim, mine>>
           /\ \A r \in CorpusReleases : Held(r)' => Held(r) \/ ~BlockingClaim(r)
           /\ place'[k] = "claiming" => place[k] = "claiming" /\ subject'[k] = subject[k]
<1>1. k \in Sessions /\ k \notin Operators
  BY DEF Sessions, CatalogAssumption
<1>2. /\ pin \in PinRows /\ lock \in [CorpusReleases -> Sessions \cup {None}] /\ switcher \in Operators \cup {None}
      /\ subject[k] \in SUBSET CorpusReleases /\ TypeInv /\ LockInv
  BY <1>1 DEF CatalogIInv, TypeInv, CatalogTypeOK, PinRows
<1> DEFINE Result == /\ Moves(k) /\ LockStep(k) /\ pin' \in PinRows
                     /\ lock' \in [CorpusReleases -> Sessions \cup {None}] /\ switcher' \in Operators \cup {None}
                     /\ UNCHANGED <<state, history, holder, answered, request, claim, mine>>
                     /\ \A r \in CorpusReleases : Held(r)' => Held(r) \/ ~BlockingClaim(r)
                     /\ place'[k] = "claiming" => place[k] = "claiming" /\ subject'[k] = subject[k]
<1>3. ASSUME NEW r \in CorpusReleases, LockCorpusReleaseForPin(k, r) PROVE Result
  <2>1. /\ Goto(k, "pinning") /\ subject' = [subject EXCEPT ![k] = {r}] /\ lock[r] = None /\ Lock(k, {r})
        /\ UNCHANGED <<state, history, answered, holder, pin, claim, mine, request, switcher>>
    BY <1>3 DEF LockCorpusReleaseForPin, retention, activation
  <2>2. "pinning" \in Places /\ {r} \in SUBSET CorpusReleases
    BY DEF Places
  <2>3. Moves(k) /\ place'[k] = "pinning" /\ subject'[k] = {r}
    BY <1>1, <1>2, <2>1, <2>2, GotoMoves
  <2>4. LockStep(k) /\ lock' \in [CorpusReleases -> Sessions \cup {None}] /\ switcher' \in Operators \cup {None}
    BY <1>1, <1>2, <2>1, <2>2, <2>3, Takes
  <2> QED
    BY <1>2, <2>1, <2>3, <2>4 DEF Held, HeldByKey
<1>4. CASE AddReleaseRetentionHold(k)
  <2>1. Unlock(k) /\ Done(k) /\ UNCHANGED <<state, history, answered, holder, claim, request, mine>>
    BY <1>4 DEF AddReleaseRetentionHold
  <2>2. Moves(k) /\ place'[k] = "idle"
    BY <1>1, <1>2, <2>1, DoneMoves
  <2>3. LockStep(k) /\ lock' \in [CorpusReleases -> Sessions \cup {None}] /\ switcher' \in Operators \cup {None}
    BY <1>1, <1>2, <2>1, <2>2, Unlocks DEF Holds
  <2>4. PICK r \in CorpusReleases : \/ UNCHANGED pin
                                    \/ ~BlockingClaim(r) /\ pin' = [pin EXCEPT ![k] = [release |-> r, life |-> "live"]]
    BY <1>2, <1>4 DEF AddReleaseRetentionHold
  <2>5. pin' \in PinRows
    BY <1>2, <2>4 DEF PinRows
  <2>6. \A q \in CorpusReleases : Held(q)' => Held(q) \/ ~BlockingClaim(q)
    <3>1. CASE UNCHANGED pin
      BY <2>1, <3>1 DEF Held, HeldByKey
    <3>2. CASE ~BlockingClaim(r) /\ pin' = [pin EXCEPT ![k] = [release |-> r, life |-> "live"]]
      <4>1. \A q \in CorpusReleases : HeldByKey(q)' => HeldByKey(q) \/ q = r
        BY <1>2, <3>2 DEF HeldByKey, PinRows
      <4> QED
        BY <2>1, <3>2, <4>1 DEF Held
    <3> QED
      BY <2>4, <3>1, <3>2
  <2> QED
    BY <2>1, <2>2, <2>3, <2>5, <2>6
<1>5. ASSUME RemoveReleaseRetentionHold(k) \/ ExpireHold(k) PROVE Result
  <2>1. UNCHANGED <<state, history, lock, place, subject, answered, holder, claim, mine, request, switcher>>
    BY <1>5 DEF RemoveReleaseRetentionHold, ExpireHold, activation
  <2>2. Moves(k) /\ LockStep(k)
    BY <1>1, <1>2, <2>1, Rests
  <2>3. \/ pin' = [pin EXCEPT ![k] = [release |-> NoRelease, life |-> None]]
        \/ pin' = [pin EXCEPT ![k].life = "expired"]
    BY <1>5 DEF RemoveReleaseRetentionHold, ExpireHold
  <2>4. pin' \in PinRows
    BY <1>2, <2>3 DEF PinRows
  <2>5. \A q \in CorpusReleases : HeldByKey(q)' => HeldByKey(q)
    BY <1>2, <2>3 DEF HeldByKey, PinRows, None
  <2> QED
    BY <1>2, <2>1, <2>2, <2>4, <2>5 DEF Held
<1> QED
  BY <1>3, <1>4, <1>5 DEF PinNext

\* Pins preserve the invariant.
LEMMA PinKeeps ==
    ASSUME CatalogAssumption, CatalogIInv, NEW k \in Pins, PinNext(k)
    PROVE  CatalogIInv'
<1>1. k \in Sessions /\ k \notin Operators
  BY DEF Sessions, CatalogAssumption
<1>2. /\ Moves(k) /\ LockStep(k) /\ pin' \in PinRows
      /\ lock' \in [CorpusReleases -> Sessions \cup {None}] /\ switcher' \in Operators \cup {None}
      /\ UNCHANGED <<state, history, holder, answered, request, claim, mine>>
      /\ \A r \in CorpusReleases : Held(r)' => Held(r) \/ ~BlockingClaim(r)
      /\ place'[k] = "claiming" => place[k] = "claiming" /\ subject'[k] = subject[k]
  BY PinSteps
<1>3. \A r \in CorpusReleases : BlockingClaim(r)' <=> BlockingClaim(r)
  BY <1>2 DEF BlockingClaim
<1>4. LockInv' /\ OperatorInv' /\ HonestActivation' /\ SelectionConsistent' /\ Selected' = Selected
  BY <1>1, <1>2, <1>3, OutsideKeeps
<1>5. TypeInv'
  BY <1>2 DEF CatalogIInv, TypeInv, CatalogTypeOK, Moves, PinRows, Selections
<1>6. FenceInv' /\ UniqueFence'
  <2>1. \A c \in Collectors : place'[c] = "claiming" => place[c] = "claiming" /\ subject'[c] = subject[c]
    <3>1. \A c \in Collectors : c \in Sessions
      BY DEF Sessions
    <3> QED
      BY <1>2, <3>1 DEF Moves
  <2> QED
    BY <1>2, <2>1 DEF CatalogIInv, FenceInv, UniqueFence
<1>7. ClaimExcludesUse'
  BY <1>2, <1>3, <1>4 DEF CatalogIInv, ClaimExcludesUse
<1> QED
  BY <1>4, <1>5, <1>6, <1>7 DEF CatalogIInv

Claims == [owner : Collectors \cup {None}, fence : 0 .. MaxFence,
           life : {None, "fresh", "aging", "expired", "released", "finalized"}]

\* A claim keeps its owner and fence, or passes to a collector under the next fence.
Kept(r) == claim'[r].owner = claim[r].owner /\ claim'[r].fence = claim[r].fence
Passes(c, r) ==
    /\ place[c] = "claiming" /\ r \in subject[c]
    /\ claim'[r].owner = c /\ claim'[r].fence = claim[r].fence + 1

\* What a step of a collector does to the claims and to the fences in hand.
ClaimStep(c) ==
    /\ claim' \in [CorpusReleases -> Claims] /\ mine' \in [Collectors -> [CorpusReleases -> 0 .. MaxFence]]
    /\ \A r \in CorpusReleases : Kept(r) \/ Passes(c, r)
    /\ \A d \in Collectors \ {c} : mine'[d] = mine[d]
    /\ \A r \in CorpusReleases : \/ mine'[c][r] \in {0, mine[c][r]}
                                 \/ claim'[r].owner = c /\ mine'[c][r] = claim'[r].fence
    /\ place'[c] = "claiming" => \A r \in subject'[c] : claim'[r].fence < MaxFence
    /\ \A r \in CorpusReleases : BlockingClaim(r)' =>
         \/ BlockingClaim(r)
         \/ lock[r] = c /\ Unprotected(r)

\* The types of what a collector reads.
LEMMA CollectorTypes ==
    ASSUME CatalogAssumption, TypeInv
    PROVE  /\ claim \in [CorpusReleases -> Claims] /\ mine \in [Collectors -> [CorpusReleases -> 0 .. MaxFence]]
           /\ \A r \in CorpusReleases : claim[r].fence \in Nat
           /\ \A c \in Collectors : c \in Sessions /\ c \notin Operators /\ c # None /\ subject[c] \in SUBSET CorpusReleases
           /\ \A c \in Collectors, r \in CorpusReleases : mine[c][r] \in Nat
           /\ MaxFence \in Nat
BY DEF TypeInv, CatalogTypeOK, Claims, Sessions, CatalogAssumption

\* A fence stays unique when a claim passes on: whoever was handed one is below the new one.
LEMMA FencesKept ==
    ASSUME CatalogAssumption, CatalogIInv, NEW c \in Collectors, Moves(c), ClaimStep(c)
    PROVE  FenceInv' /\ UniqueFence'
<1>1. /\ claim \in [CorpusReleases -> Claims] /\ mine \in [Collectors -> [CorpusReleases -> 0 .. MaxFence]]
      /\ \A r \in CorpusReleases : claim[r].fence \in Nat
      /\ \A d \in Collectors : d \in Sessions /\ subject[d] \in SUBSET CorpusReleases
      /\ \A d \in Collectors, r \in CorpusReleases : mine[d][r] \in Nat
  BY CollectorTypes DEF CatalogIInv
<1>2. \A d \in Collectors, r \in CorpusReleases : mine'[d][r] \in Nat /\ claim'[r].fence \in Nat
  BY DEF ClaimStep, Claims
<1>3. ASSUME NEW d \in Collectors, NEW r \in CorpusReleases
      PROVE  mine'[d][r] <= claim'[r].fence /\ (mine'[d][r] = claim'[r].fence /\ mine'[d][r] > 0 => claim'[r].owner = d)
  <2>1. mine[d][r] <= claim[r].fence /\ (mine[d][r] = claim[r].fence /\ mine[d][r] > 0 => claim[r].owner = d)
    BY DEF CatalogIInv, FenceInv
  <2>2. CASE mine'[d][r] = mine[d][r]
    <3>1. CASE Kept(r)
      BY <2>1, <2>2, <3>1 DEF Kept
    <3>2. CASE Passes(c, r)
      BY <1>1, <2>1, <2>2, <3>2 DEF Passes
    <3> QED
      BY <3>1, <3>2 DEF ClaimStep
  <2>3. CASE mine'[d][r] = 0
    BY <1>2, <2>3
  <2>4. CASE claim'[r].owner = d /\ mine'[d][r] = claim'[r].fence
    BY <1>2, <2>4
  <2>5. d # c => mine'[d][r] = mine[d][r]
    BY DEF ClaimStep
  <2> QED
    BY <2>2, <2>3, <2>4, <2>5 DEF ClaimStep
<1>4. ASSUME NEW d \in Collectors, place'[d] = "claiming", NEW r \in subject'[d] PROVE claim'[r].fence < MaxFence
  <2>1. CASE d = c
    BY <1>4, <2>1 DEF ClaimStep
  <2>2. CASE d # c
    <3>1. place[d] = "claiming" /\ r \in subject[d] /\ r \in CorpusReleases
      BY <1>1, <1>4, <2>2 DEF Moves
    <3>2. lock[r] = d
      BY <1>1, <3>1 DEF CatalogIInv, LockInv, Holds
    <3>3. ~Passes(c, r)
      BY <1>1, <2>2, <3>1, <3>2 DEF Passes, CatalogIInv, LockInv, Holds
    <3>4. claim'[r].fence = claim[r].fence
      BY <3>1, <3>3 DEF ClaimStep, Kept
    <3> QED
      BY <3>1, <3>4 DEF CatalogIInv, FenceInv
  <2> QED
    BY <2>1, <2>2
<1>5. ASSUME NEW r \in CorpusReleases, NEW d \in Collectors, NEW e \in Collectors, d # e, mine'[d][r] > 0,
             mine'[d][r] = mine'[e][r]
      PROVE  FALSE
  <2>1. ASSUME NEW x \in Collectors, NEW y \in Collectors, x # y, mine'[x][r] = mine'[y][r], mine'[x][r] > 0,
               claim'[r].owner = x /\ mine'[x][r] = claim'[r].fence
        PROVE  FALSE
    BY <1>3, <2>1
  <2>2. ~(claim'[r].owner = c /\ mine'[c][r] = claim'[r].fence /\ (c = d \/ c = e))
    BY <1>5, <2>1
  <2>3. mine'[d][r] = mine[d][r] /\ mine'[e][r] = mine[e][r]
    BY <1>2, <1>5, <2>2 DEF ClaimStep
  <2> QED
    BY <1>5, <2>3 DEF CatalogIInv, UniqueFence
<1> QED
  BY <1>3, <1>4, <1>5 DEF FenceInv, UniqueFence

\* A step of a collector: its place, its locks, its claims and nothing else.
CollectStep(c) ==
    /\ Moves(c) /\ LockStep(c) /\ ClaimStep(c)
    /\ lock' \in [CorpusReleases -> Sessions \cup {None}] /\ switcher' \in Operators \cup {None}
    /\ UNCHANGED <<state, history, holder, pin, answered, request>>

\* A step that leaves the claims alone.
LEMMA SameClaims ==
    ASSUME CatalogAssumption, TypeInv, NEW c \in Collectors, UNCHANGED <<claim, mine>>,
           place'[c] = "claiming" => \A r \in subject'[c] : claim[r].fence < MaxFence
    PROVE  ClaimStep(c)
<1>1. claim \in [CorpusReleases -> Claims] /\ mine \in [Collectors -> [CorpusReleases -> 0 .. MaxFence]]
  BY CollectorTypes
<1> QED
  BY <1>1 DEF ClaimStep, Kept, BlockingClaim

\* The snapshot of eligible releases.
LEMMA ListSteps ==
    ASSUME CatalogAssumption, CatalogIInv, NEW c \in Collectors, ListEligible(c)
    PROVE  CollectStep(c)
<1>1. /\ Goto(c, "locking") /\ subject' = [subject EXCEPT ![c] = {r \in CorpusReleases : Claimable(c, r)}]
      /\ UNCHANGED <<state, history, lock, answered, holder, pin, claim, mine, request, switcher>>
  BY DEF ListEligible, retention, activation
<1>2. "locking" \in Places /\ {r \in CorpusReleases : Claimable(c, r)} \in SUBSET CorpusReleases /\ TypeInv
  BY DEF Places, CatalogIInv
<1>3. c \in Sessions
  BY DEF Sessions
<1>4. Moves(c) /\ place'[c] = "locking"
  BY <1>1, <1>2, <1>3, GotoMoves
<1>5. LockStep(c) /\ lock' \in [CorpusReleases -> Sessions \cup {None}] /\ switcher' \in Operators \cup {None}
  BY <1>1, <1>2, <1>3, <1>4, SameLocks DEF Holds
<1>6. ClaimStep(c)
  BY <1>1, <1>2, <1>4, SameClaims
<1> QED
  BY <1>1, <1>4, <1>5, <1>6 DEF CollectStep

\* FOR UPDATE SKIP LOCKED on the snapshot: the rows locked are free and their fences can grow.
LEMMA EligibleLockSteps ==
    ASSUME CatalogAssumption, CatalogIInv, NEW c \in Collectors, LockEligibleReleasesForRetention(c)
    PROVE  CollectStep(c)
<1> DEFINE rows == FirstRows({r \in subject[c] : /\ lock[r] = None
                                                 /\ state[r] \in {"retired", "failed"}})
<1>1. /\ Goto(c, "claiming") /\ subject' = [subject EXCEPT ![c] = rows] /\ Lock(c, rows)
      /\ \A r \in rows : claim[r].fence < MaxFence
      /\ UNCHANGED <<state, history, answered, holder, pin, claim, mine, request, switcher>>
  BY DEF LockEligibleReleasesForRetention, retention, activation
<1>2. c \in Sessions /\ subject[c] \in SUBSET CorpusReleases /\ TypeInv /\ "claiming" \in Places
  BY CollectorTypes DEF CatalogIInv, Places
<1>3. rows \in SUBSET CorpusReleases /\ \A r \in rows : lock[r] = None
  BY <1>2 DEF FirstRows
<1> HIDE DEF rows
<1>4. Moves(c) /\ place'[c] = "claiming" /\ subject'[c] = rows
  BY <1>1, <1>2, <1>3, GotoMoves
<1>5. LockStep(c) /\ lock' \in [CorpusReleases -> Sessions \cup {None}] /\ switcher' \in Operators \cup {None}
  BY <1>1, <1>2, <1>3, <1>4, Takes
<1>6. ClaimStep(c)
  BY <1>1, <1>2, <1>4, SameClaims
<1> QED
  BY <1>1, <1>4, <1>5, <1>6 DEF CollectStep

\* The row lock of a finalization.
LEMMA FinalizeLockSteps ==
    ASSUME CatalogAssumption, CatalogIInv, NEW c \in Collectors, NEW r \in CorpusReleases,
           LockCorpusReleaseForRetentionFinalize(c, r)
    PROVE  CollectStep(c)
<1>1. /\ Goto(c, "finalizing") /\ subject' = [subject EXCEPT ![c] = {r}] /\ Lock(c, {r}) /\ lock[r] = None
      /\ UNCHANGED <<state, history, answered, holder, pin, claim, mine, request, switcher>>
  BY DEF LockCorpusReleaseForRetentionFinalize, retention, activation
<1>2. c \in Sessions /\ TypeInv /\ "finalizing" \in Places /\ {r} \in SUBSET CorpusReleases
  BY CollectorTypes DEF CatalogIInv, Places
<1>3. Moves(c) /\ place'[c] = "finalizing" /\ subject'[c] = {r}
  BY <1>1, <1>2, GotoMoves
<1>4. LockStep(c) /\ lock' \in [CorpusReleases -> Sessions \cup {None}] /\ switcher' \in Operators \cup {None}
  BY <1>1, <1>2, <1>3, Takes
<1>5. ClaimStep(c)
  BY <1>1, <1>2, <1>3, SameClaims
<1> QED
  BY <1>1, <1>3, <1>4, <1>5 DEF CollectStep

\* Claiming the locked rows, which nobody else can have put to use since.
LEMMA ClaimSteps ==
    ASSUME CatalogAssumption, CatalogIInv, NEW c \in Collectors, ClaimReleaseForRetention(c)
    PROVE  CollectStep(c)
<1> DEFINE rows == {r \in subject[c] : Claimable(c, r)}
<1>1. /\ place[c] = "claiming" /\ Unlock(c) /\ Done(c)
      /\ claim' = [r \in CorpusReleases |-> IF r \in rows THEN Claimed(c, r) ELSE claim[r]]
      /\ \/ mine' = [mine EXCEPT ![c] =
                       [r \in CorpusReleases |-> IF r \in rows THEN claim'[r].fence ELSE @[r]]]
         \/ UNCHANGED mine
      /\ UNCHANGED <<state, history, answered, holder, pin, request>>
  BY DEF ClaimReleaseForRetention
<1>2. /\ claim \in [CorpusReleases -> Claims] /\ mine \in [Collectors -> [CorpusReleases -> 0 .. MaxFence]]
      /\ c \in Sessions /\ subject[c] \in SUBSET CorpusReleases /\ MaxFence \in Nat /\ TypeInv
      /\ \A r \in CorpusReleases : claim[r].fence \in Nat
  BY CollectorTypes DEF CatalogIInv
<1>3. Moves(c) /\ place'[c] = "idle"
  BY <1>1, <1>2, DoneMoves
<1>4. LockStep(c) /\ lock' \in [CorpusReleases -> Sessions \cup {None}] /\ switcher' \in Operators \cup {None}
  BY <1>1, <1>2, <1>3, Unlocks DEF Holds
<1>5. \A r \in rows : claim[r].fence < MaxFence /\ lock[r] = c /\ Unprotected(r) /\ r \in CorpusReleases
  BY <1>1, <1>2 DEF CatalogIInv, FenceInv, LockInv, Holds, Claimable
<1>6. ASSUME NEW r \in CorpusReleases
      PROVE  /\ claim'[r] \in Claims /\ (Kept(r) \/ Passes(c, r)) /\ (r \in rows => claim'[r].owner = c)
             /\ r \notin rows => claim'[r] = claim[r]
  <2>1. CASE r \notin rows
    BY <1>1, <1>2, <2>1 DEF Kept
  <2>2. CASE r \in rows /\ LiveClaim(r) /\ claim[r].owner = c
    BY <1>1, <1>2, <2>2 DEF Kept, Claimed
  <2>3. CASE r \in rows /\ ~(LiveClaim(r) /\ claim[r].owner = c)
    <3>1. claim'[r] = [owner |-> c, fence |-> claim[r].fence + 1, life |-> "fresh"]
      BY <1>1, <2>3 DEF Claimed
    <3>2. claim[r].fence + 1 \in 0 .. MaxFence
      BY <1>2, <1>5, <2>3
    <3> QED
      BY <1>1, <2>3, <3>1, <3>2 DEF Passes, Claims
  <2> QED
    BY <2>1, <2>2, <2>3
<1>7. claim' \in [CorpusReleases -> Claims]
  BY <1>1, <1>6
<1> HIDE DEF rows
<1>8. /\ mine' \in [Collectors -> [CorpusReleases -> 0 .. MaxFence]]
      /\ \A d \in Collectors \ {c} : mine'[d] = mine[d]
      /\ \A r \in CorpusReleases : mine'[c][r] = mine[c][r] \/ (r \in rows /\ mine'[c][r] = claim'[r].fence)
  <2>1. CASE UNCHANGED mine
    BY <1>2, <2>1
  <2>2. CASE mine' = [mine EXCEPT ![c] = [r \in CorpusReleases |-> IF r \in rows THEN claim'[r].fence ELSE @[r]]]
    <3>1. \A r \in CorpusReleases : claim'[r].fence \in 0 .. MaxFence /\ mine[c][r] \in 0 .. MaxFence
      BY <1>2, <1>7 DEF Claims
    <3>2. [r \in CorpusReleases |-> IF r \in rows THEN claim'[r].fence ELSE mine[c][r]] \in [CorpusReleases -> 0 .. MaxFence]
      BY <3>1
    <3> QED
      BY <1>2, <2>2, <3>2
  <2> QED
    BY <1>1, <2>1, <2>2
<1>9. \A r \in CorpusReleases : BlockingClaim(r)' => BlockingClaim(r) \/ (lock[r] = c /\ Unprotected(r))
  BY <1>5, <1>6 DEF BlockingClaim
<1>10. ClaimStep(c)
  BY <1>3, <1>6, <1>7, <1>8, <1>9 DEF ClaimStep
<1> QED
  BY <1>1, <1>3, <1>4, <1>10 DEF CollectStep

\* What a collector does outside its transactions: renew a claim, or give a claim or a fence up.
LEMMA UpkeepSteps ==
    ASSUME CatalogAssumption, CatalogIInv, NEW c \in Collectors, NEW r \in CorpusReleases,
           RenewReleaseRetentionClaim(c, r) \/ ReleaseReleaseRetentionClaim(c, r)
    PROVE  CollectStep(c)
<1>1. /\ place[c] = "idle"
      /\ \/ UNCHANGED claim
         \/ InForce(c, r) /\ \E life \in {"fresh", "released"} : claim' = [claim EXCEPT ![r].life = life]
      /\ mine' = [mine EXCEPT ![c][r] = 0] \/ UNCHANGED mine
      /\ UNCHANGED <<state, history, lock, place, subject, answered, holder, pin, request, switcher>>
  BY DEF RenewReleaseRetentionClaim, ReleaseReleaseRetentionClaim, activation
<1>2. /\ claim \in [CorpusReleases -> Claims] /\ mine \in [Collectors -> [CorpusReleases -> 0 .. MaxFence]]
      /\ c \in Sessions /\ c \notin Operators /\ MaxFence \in Nat /\ TypeInv /\ LockInv
      /\ lock \in [CorpusReleases -> Sessions \cup {None}] /\ switcher \in Operators \cup {None}
  BY CollectorTypes DEF CatalogIInv, TypeInv, CatalogTypeOK
<1>3. Moves(c) /\ LockStep(c)
  BY <1>1, <1>2, Rests
<1>4. /\ claim' \in [CorpusReleases -> Claims] /\ \A q \in CorpusReleases : Kept(q)
      /\ \A q \in CorpusReleases : BlockingClaim(q)' => BlockingClaim(q)
  <2>1. CASE UNCHANGED claim
    BY <1>2, <2>1 DEF Kept, BlockingClaim
  <2>2. ASSUME NEW life \in {"fresh", "released"}, InForce(c, r), claim' = [claim EXCEPT ![r].life = life]
        PROVE  /\ claim' \in [CorpusReleases -> Claims] /\ \A q \in CorpusReleases : Kept(q)
               /\ \A q \in CorpusReleases : BlockingClaim(q)' => BlockingClaim(q)
    <3>1. BlockingClaim(r)
      BY <2>2 DEF InForce, LiveClaim, BlockingClaim, None
    <3>2. claim' \in [CorpusReleases -> Claims] /\ \A q \in CorpusReleases : Kept(q)
      BY <1>2, <2>2 DEF Claims, Kept
    <3>3. \A q \in CorpusReleases : q # r => claim'[q] = claim[q]
      BY <1>2, <2>2
    <3> QED
      BY <3>1, <3>2, <3>3 DEF BlockingClaim
  <2> QED
    BY <1>1, <2>1, <2>2
<1>5. /\ mine' \in [Collectors -> [CorpusReleases -> 0 .. MaxFence]]
      /\ \A d \in Collectors \ {c} : mine'[d] = mine[d]
      /\ \A q \in CorpusReleases : mine'[c][q] \in {0, mine[c][q]}
  <2>1. 0 \in 0 .. MaxFence /\ mine[c] \in [CorpusReleases -> 0 .. MaxFence]
    BY <1>2
  <2>2. CASE mine' = [mine EXCEPT ![c][r] = 0]
    <3>1. /\ mine' = [mine EXCEPT ![c] = [mine[c] EXCEPT ![r] = 0]]
          /\ [mine[c] EXCEPT ![r] = 0] \in [CorpusReleases -> 0 .. MaxFence]
      BY <1>2, <2>1, <2>2
    <3>2. /\ mine' \in [Collectors -> [CorpusReleases -> 0 .. MaxFence]]
          /\ mine'[c] = [mine[c] EXCEPT ![r] = 0] /\ \A d \in Collectors \ {c} : mine'[d] = mine[d]
      BY <1>2, <3>1
    <3> QED
      BY <2>1, <3>2
  <2>3. CASE UNCHANGED mine
    BY <1>2, <2>3
  <2> QED
    BY <1>1, <2>2, <2>3
<1>6. place'[c] # "claiming"
  BY <1>1
<1>7. ClaimStep(c)
  BY <1>4, <1>5, <1>6 DEF ClaimStep
<1> QED
  BY <1>1, <1>2, <1>3, <1>7 DEF CollectStep

\* Finalizing a claim that is still in force keeps it closed to every use.
LEMMA FinalizeSteps ==
    ASSUME CatalogAssumption, CatalogIInv, NEW c \in Collectors, FinalizeReleaseRetentionClaim(c)
    PROVE  CollectStep(c)
<1>1. /\ place[c] = "finalizing" /\ Unlock(c) /\ Done(c)
      /\ UNCHANGED <<state, history, answered, holder, pin, request>>
  BY DEF FinalizeReleaseRetentionClaim
<1>2. /\ claim \in [CorpusReleases -> Claims] /\ mine \in [Collectors -> [CorpusReleases -> 0 .. MaxFence]]
      /\ c \in Sessions /\ subject[c] \in SUBSET CorpusReleases /\ MaxFence \in Nat /\ TypeInv
  BY CollectorTypes DEF CatalogIInv
<1>3. Moves(c) /\ place'[c] = "idle"
  BY <1>1, <1>2, DoneMoves
<1>4. LockStep(c) /\ lock' \in [CorpusReleases -> Sessions \cup {None}] /\ switcher' \in Operators \cup {None}
  BY <1>1, <1>2, <1>3, Unlocks DEF Holds
<1>5. PICK r \in CorpusReleases :
        /\ UNCHANGED claim \/ (InForce(c, r) /\ claim' = [claim EXCEPT ![r].life = "finalized"])
        /\ mine' = [mine EXCEPT ![c][r] = 0]
  BY <1>2 DEF FinalizeReleaseRetentionClaim
<1>6. /\ claim' \in [CorpusReleases -> Claims] /\ \A q \in CorpusReleases : Kept(q)
      /\ \A q \in CorpusReleases : BlockingClaim(q)' => BlockingClaim(q)
  <2>1. CASE UNCHANGED claim
    BY <1>2, <2>1 DEF Kept, BlockingClaim
  <2>2. CASE InForce(c, r) /\ claim' = [claim EXCEPT ![r].life = "finalized"]
    <3>1. BlockingClaim(r)
      BY <2>2 DEF InForce, LiveClaim, BlockingClaim, None
    <3>2. claim' \in [CorpusReleases -> Claims] /\ \A q \in CorpusReleases : Kept(q)
      BY <1>2, <2>2 DEF Claims, Kept
    <3>3. \A q \in CorpusReleases : q # r => claim'[q] = claim[q]
      BY <1>2, <2>2
    <3> QED
      BY <3>1, <3>2, <3>3 DEF BlockingClaim
  <2> QED
    BY <1>5, <2>1, <2>2
<1>7. /\ mine' \in [Collectors -> [CorpusReleases -> 0 .. MaxFence]]
      /\ \A d \in Collectors \ {c} : mine'[d] = mine[d]
      /\ \A q \in CorpusReleases : mine'[c][q] \in {0, mine[c][q]}
  BY <1>2, <1>5
<1>8. ClaimStep(c)
  BY <1>3, <1>6, <1>7 DEF ClaimStep
<1> QED
  BY <1>1, <1>3, <1>4, <1>8 DEF CollectStep

\* Collectors preserve the invariant.
LEMMA CollectKeeps ==
    ASSUME CatalogAssumption, CatalogIInv, NEW c \in Collectors, CollectNext(c)
    PROVE  CatalogIInv'
<1>1. CollectStep(c)
  BY ListSteps, EligibleLockSteps, ClaimSteps, FinalizeSteps, UpkeepSteps, FinalizeLockSteps DEF CollectNext
<1>2. c \in Sessions /\ c \notin Operators
  BY CollectorTypes DEF CatalogIInv
<1>3. /\ Moves(c) /\ LockStep(c) /\ ClaimStep(c)
      /\ lock' \in [CorpusReleases -> Sessions \cup {None}] /\ switcher' \in Operators \cup {None}
      /\ UNCHANGED <<state, history, holder, pin, answered, request>>
  BY <1>1 DEF CollectStep
<1>4. \A r \in CorpusReleases : BlockingClaim(r)' => BlockingClaim(r) \/ (lock[r] = c /\ Unprotected(r))
  BY <1>3 DEF ClaimStep
<1>5. LockInv' /\ OperatorInv' /\ HonestActivation' /\ SelectionConsistent' /\ Selected' = Selected
  BY <1>2, <1>3, <1>4, OutsideKeeps
<1>6. TypeInv'
  BY <1>3 DEF CatalogIInv, TypeInv, CatalogTypeOK, Moves, ClaimStep, Claims, Selections
<1>7. FenceInv' /\ UniqueFence'
  BY <1>3, FencesKept
<1>8. ClaimExcludesUse'
  <2>1. \A r \in CorpusReleases : Held(r)' <=> Held(r)
    BY <1>3 DEF Held, HeldByKey
  <2> QED
    BY <1>4, <1>5, <2>1 DEF CatalogIInv, ClaimExcludesUse, Unprotected
<1> QED
  BY <1>5, <1>6, <1>7, <1>8 DEF CatalogIInv

\* Time that passes on a claim preserves the invariant: an expired claim still blocks.
LEMMA AgeKeeps ==
    ASSUME CatalogAssumption, CatalogIInv, NEW r \in CorpusReleases, AgeClaim(r)
    PROVE  CatalogIInv'
<1>1. /\ claim[r].life \in {"fresh", "aging"}
      /\ \E life \in {"aging", "expired"} : claim' = [claim EXCEPT ![r].life = life]
      /\ UNCHANGED <<state, history, lock, place, subject, answered, holder, pin, mine, request, switcher>>
  BY DEF AgeClaim, activation
<1>2. claim \in [CorpusReleases -> Claims]
  BY CollectorTypes DEF CatalogIInv
<1>3. claim' \in [CorpusReleases -> Claims] /\ \A q \in CorpusReleases : Kept(q)
  BY <1>1, <1>2 DEF Claims, Kept
<1>4. \A q \in CorpusReleases : BlockingClaim(q)' <=> BlockingClaim(q)
  <2>1. BlockingClaim(r) /\ BlockingClaim(r)'
    BY <1>1, <1>2 DEF BlockingClaim, None
  <2>2. \A q \in CorpusReleases : q # r => claim'[q] = claim[q]
    BY <1>1, <1>2
  <2> QED
    BY <2>1, <2>2 DEF BlockingClaim
<1>5. TypeInv'
  BY <1>1, <1>3 DEF CatalogIInv, TypeInv, CatalogTypeOK, Claims, Selections
<1>6. LockInv'
  BY <1>1 DEF CatalogIInv, LockInv, Holds
<1>7. Selected' = Selected /\ \A q \in CorpusReleases : Available(q)' = Available(q)
  BY <1>1 DEF Selected, Available
<1>8. OperatorInv'
  <2>1. \A o \in Operators : subject[o] \in SUBSET CorpusReleases
    BY DEF CatalogIInv, TypeInv, CatalogTypeOK, Sessions
  <2>2. ASSUME NEW o \in Operators PROVE Asked(o)'
    <3>1. Asked(o)
      BY DEF CatalogIInv, OperatorInv
    <3>2. CurrentAt(request[o].version)' = CurrentAt(request[o].version)
      BY <1>1 DEF CurrentAt
    <3> QED
      BY <1>1, <1>4, <1>7, <2>1, <3>1, <3>2 DEF Asked, Checked
  <2> QED
    BY <2>2 DEF OperatorInv
<1>9. HonestActivation' /\ SelectionConsistent' /\ UniqueFence'
  BY <1>1, <1>7 DEF CatalogIInv, HonestActivation, SelectionConsistent, UniqueFence
<1>10. FenceInv'
  <2>1. \A c \in Collectors : c \in Sessions /\ subject[c] \in SUBSET CorpusReleases
    BY CollectorTypes DEF CatalogIInv
  <2> QED
    BY <1>1, <1>3, <2>1 DEF CatalogIInv, FenceInv, Kept
<1>11. ClaimExcludesUse'
  BY <1>1, <1>4, <1>7 DEF CatalogIInv, ClaimExcludesUse, Held, HeldByKey
<1> QED
  BY <1>5, <1>6, <1>8, <1>9, <1>10, <1>11 DEF CatalogIInv

-----------------------------------------------------------------------------
(* The inductive invariant.                                                *)

\* The releases activated so far satisfy the invariant.
LEMMA CatalogInitInv ==
    ASSUME CatalogAssumption, CatalogInit
    PROVE  CatalogIInv
<1>1. /\ Len(Past) \in Nat /\ Len(Past) <= MaxVersion /\ MaxVersion \in Nat /\ MaxFence \in Nat
      /\ \A v \in 1 .. Len(Past) : Past[v] \in Published
      /\ \A v \in 2 .. Len(Past) : Past[v] # Past[v - 1]
      /\ Published \subseteq CorpusReleases
      /\ \A r \in CorpusReleases : r # NoRelease
  BY LenProperties, ElementOfSeq DEF CatalogAssumption, NoRelease
<1>2. /\ history \in Seq(Selections) /\ Len(history) = Len(Past)
      /\ \A v \in 1 .. Len(Past) : /\ history[v] \in Selections /\ history[v].current = Past[v]
                                   /\ history[v].previous = IF v = 1 THEN NoRelease ELSE Past[v - 1]
  <2> DEFINE initial(v) == [current |-> Past[v], previous |-> IF v = 1 THEN NoRelease ELSE Past[v - 1]]
  <2>1. history = [v \in 1 .. Len(Past) |-> initial(v)]
    BY DEF CatalogInit
  <2>2. ASSUME NEW v \in 1 .. Len(Past) PROVE initial(v) \in Selections
    <3>1. v # 1 => v - 1 \in 1 .. Len(Past)
      BY <1>1
    <3>2. Past[v] \in CorpusReleases /\ (v # 1 => Past[v - 1] \in CorpusReleases)
      BY <1>1, <3>1
    <3> QED
      BY <3>2 DEF Selections
  <2> HIDE DEF initial
  <2>3. history \in [1 .. Len(Past) -> Selections]
    BY <2>1, <2>2
  <2>4. history \in Seq(Selections) /\ Len(history) = Len(Past)
    <3>1. history \in Seq(Selections)
      <4>1. [1 .. Len(Past) -> Selections] \in {[1 .. k -> Selections] : k \in Nat}
        BY <1>1
      <4> QED
        BY <2>3, <4>1, SeqDef
    <3>2. DOMAIN history = 1 .. Len(Past) /\ DOMAIN history = 1 .. Len(history) /\ Len(history) \in Nat
      BY <2>3, <3>1, LenProperties
    <3>3. Len(history) = Len(Past)
      <4>1. Len(history) > Len(Past) => Len(history) \in 1 .. Len(history) /\ Len(history) \notin 1 .. Len(Past)
        BY <1>1, <3>2
      <4>2. Len(Past) > Len(history) => Len(Past) \in 1 .. Len(Past) /\ Len(Past) \notin 1 .. Len(history)
        BY <1>1, <3>2
      <4> QED
        BY <1>1, <3>2, <4>1, <4>2
    <3> QED
      BY <3>1, <3>3
  <2>5. \A v \in 1 .. Len(Past) : history[v] = initial(v)
    BY <2>1
  <2>6. ASSUME NEW v \in 1 .. Len(Past)
        PROVE  /\ history[v] \in Selections /\ history[v].current = Past[v]
               /\ history[v].previous = IF v = 1 THEN NoRelease ELSE Past[v - 1]
    <3>1. history[v] = initial(v) /\ initial(v) \in Selections
      BY <2>2, <2>5
    <3>2. initial(v).current = Past[v] /\ initial(v).previous = IF v = 1 THEN NoRelease ELSE Past[v - 1]
      BY DEF initial
    <3> QED
      BY <3>1, <3>2
  <2> QED
    BY <2>4, <2>6
<1>3. /\ Selected.current = IF Len(Past) = 0 THEN NoRelease ELSE Past[Len(Past)]
      /\ Selected.previous = IF Len(Past) <= 1 THEN NoRelease ELSE Past[Len(Past) - 1]
  <2>1. CASE Len(Past) = 0
    <3>1. history = <<>>
      BY <1>2, <2>1, EmptySeq
    <3> QED
      BY <2>1, <3>1 DEF Selected
  <2>2. CASE Len(Past) # 0
    <3>1. Len(Past) \in 1 .. Len(Past) /\ history # <<>>
      BY <1>1, <1>2, <2>2, EmptySeq
    <3> QED
      BY <1>1, <1>2, <2>2, <3>1 DEF Selected
  <2> QED
    BY <2>1, <2>2
<1>4. /\ Selected.current \in Published \cup {NoRelease}
      /\ Selected.previous \in Published \cup {NoRelease}
      /\ Selected.previous \in CorpusReleases =>
           Selected.previous # Selected.current /\ \E v \in 1 .. Len(Past) : Past[v] = Selected.previous
  <2>1. CASE Len(Past) = 0
    BY <1>1, <1>3, <2>1
  <2>2. CASE Len(Past) = 1
    BY <1>1, <1>3, <2>2
  <2>3. CASE Len(Past) > 1
    <3>1. Len(Past) - 1 \in 1 .. Len(Past) /\ Len(Past) \in 2 .. Len(Past) /\ Len(Past) \in 1 .. Len(Past)
      BY <1>1, <2>3
    <3>2. Selected.current = Past[Len(Past)] /\ Selected.previous = Past[Len(Past) - 1]
      BY <1>1, <1>3, <2>3
    <3> QED
      BY <1>1, <3>1, <3>2
  <2>4. Len(Past) = 0 \/ Len(Past) = 1 \/ Len(Past) > 1
    <3>1. Len(Past) \in Nat
      BY LenProperties DEF CatalogAssumption
    <3>2. \A n \in Nat : n = 0 \/ n = 1 \/ n > 1
      OBVIOUS
    <3> QED
      BY <3>1, <3>2
  <2> QED
    BY <2>1, <2>2, <2>3, <2>4
<1>5. SelectionConsistent
  <2>1. \A r \in CorpusReleases : state[r] = "active" <=> r = Selected.current
    BY <1>1, <1>4 DEF CatalogInit
  <2>2. Selected.previous \in CorpusReleases => state[Selected.previous] = "retired"
    BY <1>1, <1>4 DEF CatalogInit
  <2>3. holder.active = {Selected.current} \cap CorpusReleases /\ holder.rollback = {Selected.previous} \cap CorpusReleases
    BY DEF CatalogInit
  <2> QED
    BY <2>1, <2>2, <2>3 DEF SelectionConsistent
<1>6. TypeInv
  <2>1. state \in [CorpusReleases -> States]
    BY DEF CatalogInit, States
  <2>2. Len(history) \in 0 .. MaxVersion /\ \A v \in 1 .. Len(history) : history[v] \in Selections
    BY <1>1, <1>2
  <2>3. /\ holder \in [active : SUBSET CorpusReleases, rollback : SUBSET CorpusReleases]
        /\ pin \in [Pins -> [release : CorpusReleases \cup {NoRelease}, life : {None, "live", "expired"}]]
        /\ lock \in [CorpusReleases -> Sessions \cup {None}] /\ switcher \in Operators \cup {None}
        /\ subject \in [Sessions -> SUBSET CorpusReleases]
    BY DEF CatalogInit
  <2>4. claim \in [CorpusReleases -> Claims] /\ mine \in [Collectors -> [CorpusReleases -> 0 .. MaxFence]]
    BY <1>1 DEF CatalogInit, Claims
  <2>5. /\ request \in [Operators -> ActivationRequests] /\ answered \in [Operators -> Outcomes]
        /\ place \in [Sessions -> Places]
    BY <1>1 DEF CatalogInit, ActivationRequests, Outcomes, NoRequest, Places
  <2> QED
    BY <1>2, <2>1, <2>2, <2>3, <2>4, <2>5 DEF TypeInv, CatalogTypeOK, Selections, Claims, ActivationRequests, Outcomes
<1>7. LockInv /\ OperatorInv
  <2>1. \A s \in Sessions : place[s] = "idle"
    BY DEF CatalogInit
  <2>2. \A o \in Operators : o \in Sessions
    BY DEF Sessions
  <2> QED
    BY <2>1, <2>2 DEF LockInv, Holds, OperatorInv, Asked, Checked
<1>8. FenceInv /\ UniqueFence
  BY <1>1 DEF CatalogInit, FenceInv, UniqueFence, Sessions
<1>9. HonestActivation
  BY DEF CatalogInit, HonestActivation, None
<1>10. ClaimExcludesUse
  BY DEF CatalogInit, ClaimExcludesUse, BlockingClaim
<1> QED
  BY <1>5, <1>6, <1>7, <1>8, <1>9, <1>10 DEF CatalogIInv

\* Every step preserves the invariant.
LEMMA CatalogNextInv ==
    ASSUME CatalogAssumption, CatalogIInv, [CatalogNext]_catalogVars
    PROVE  CatalogIInv'
<1>1. CASE UNCHANGED catalogVars
  BY <1>1 DEF catalogVars, CatalogIInv, TypeInv, CatalogTypeOK, LockInv, Holds, OperatorInv, Asked, Checked, Available, BlockingClaim,
              CurrentAt, Selected, FenceInv, SelectionConsistent, HonestActivation, ClaimExcludesUse, UniqueFence,
              Held, HeldByKey
<1> QED
  BY <1>1, PublishKeeps, ActivateKeeps, PinKeeps, CollectKeeps, AgeKeeps DEF CatalogNext

\* The inductive invariant holds in every reachable state.
THEOREM CatalogInvariance ==
    ASSUME CatalogAssumption
    PROVE  CatalogSpec => []CatalogIInv
<1>1. CatalogInit => CatalogIInv
  BY CatalogInitInv
<1>2. CatalogIInv /\ [CatalogNext]_catalogVars => CatalogIInv'
  BY CatalogNextInv
<1> QED
  BY <1>1, <1>2, PTL DEF CatalogSpec

\* Activations, pins and collectors never disagree about a release: the selected one alone is active and its
\* predecessor retired, Activate answers what the history holds, a claim excludes every use, and fences are unique.
THEOREM CatalogConsistentHolds ==
    ASSUME CatalogAssumption
    PROVE  CatalogSpec => []CatalogConsistent
<1>1. CatalogIInv => CatalogConsistent
  BY DEF CatalogIInv, TypeInv, CatalogConsistent
<1> QED
  BY <1>1, CatalogInvariance, PTL

\* A publisher that read an older state overwrites nothing: failed stays failed, what was selected only retires.
THEOREM ReadinessForwardHolds ==
    ASSUME CatalogAssumption
    PROVE  CatalogSpec => ReadinessForward
<1>1. ASSUME CatalogIInv, [CatalogNext]_catalogVars PROVE ReadinessStep
  <2>1. CASE Readies
    BY <2>1 DEF ReadinessStep, Readies
  <2>2. ASSUME NEW o \in Operators, NEW r \in CorpusReleases, Switched(o, r) PROVE ReadinessStep
    <3>1. \A q \in CorpusReleases : q = Selected.current => state[q] = "active"
      BY <1>1 DEF CatalogIInv, SelectionConsistent
    <3>2. state[r] # "failed"
      BY <2>2 DEF Switched, Available
    <3> QED
      BY <2>2, <3>1, <3>2 DEF ReadinessStep, Switched
  <2>3. CASE UNCHANGED state
    BY <2>3 DEF ReadinessStep
  <2>4. ASSUME NEW p \in Publishers, PublishNext(p) PROVE ReadinessStep
    BY <1>1, <2>1, <2>4, PublishSteps DEF CatalogIInv
  <2>5. ASSUME NEW o \in Operators, ActivateNext(o) PROVE ReadinessStep
    BY <1>1, <2>2, <2>3, <2>5, ActivateSteps
  <2>6. ASSUME NEW k \in Pins, PinNext(k) PROVE ReadinessStep
    BY <1>1, <2>3, <2>6, PinSteps
  <2>7. ASSUME NEW c \in Collectors, CollectNext(c) PROVE ReadinessStep
    BY <2>3, <2>7 DEF CollectNext, ListEligible, LockEligibleReleasesForRetention, ClaimReleaseForRetention,
                      FinalizeReleaseRetentionClaim, RenewReleaseRetentionClaim, ReleaseReleaseRetentionClaim,
                      LockCorpusReleaseForRetentionFinalize
  <2>8. ASSUME NEW r \in CorpusReleases, AgeClaim(r) PROVE ReadinessStep
    BY <2>3, <2>8 DEF AgeClaim
  <2>9. UNCHANGED catalogVars => UNCHANGED state
    BY DEF catalogVars
  <2> QED
    BY <1>1, <2>3, <2>4, <2>5, <2>6, <2>7, <2>8, <2>9 DEF CatalogNext
<1>2. CatalogIInv /\ [CatalogNext]_catalogVars => [ReadinessStep]_catalogVars
  BY <1>1
<1> QED
  BY <1>2, CatalogInvariance, PTL DEF CatalogSpec, ReadinessForward

-----------------------------------------------------------------------------
(***************************************************************************)
(* Logins and sessions (Identity), alone and below the authorization       *)
(* server (OAuthServer).  A consumed login belongs to one callback or to   *)
(* the one session it made; past the check of its status the account of a  *)
(* callback is locked and stays active; past the revocation the session a  *)
(* callback came with has ended.                                           *)
(***************************************************************************)

\* What a restart and the requests of OAuthServer do to the state of a login: they lock
\* and unlock rows no callback holds, and change the consent handle of a cookie.
Outside ==
    \/ /\ UNCHANGED <<now, accounts, logins, sessions, callback>>
       /\ locked' \in [Accounts -> Callbacks \cup ServerRequests \cup {Unset}]
       /\ \A a \in Accounts : locked[a] \in Callbacks \/ locked'[a] \in Callbacks => locked'[a] = locked[a]
       /\ cookies' \in [Browsers -> [login : Logins \cup {Unset}, session : WebSessions \cup {Unset},
                                     handle : Handles \cup {Unset}]]
       /\ \A b \in Browsers : cookies'[b].login = cookies[b].login /\ cookies'[b].session = cookies[b].session
    \/ /\ UNCHANGED <<now, accounts, logins, sessions, cookies>>
       /\ callback' = [k \in Callbacks |-> NoCallback]
       /\ locked' = [a \in Accounts |-> Unset]
    \/ \E b \in Browsers, l \in Logins, h \in Handles : BeginLogin(b, l, h)

SharedNext == IdentityNext \/ Outside
SharedSpec == IdentityInit /\ [][SharedNext]_identityVars

\* A callback behind ConsumeLogin.
Proceeding(k) == callback[k].pc \in {"consumed", "verified", "revoked", "locked"}
Spent(l) == l \in Logins /\ logins[l].row \in {"consumed", "deleted"}
Ended(s) == sessions[s].row = "deleted" \/ (sessions[s].row = "row" /\ sessions[s].revoked)

\* A login that was consumed belongs to one callback, or to one session it made.
LoginInv ==
    /\ \A b \in Browsers : cookies[b].login # Unset => logins[cookies[b].login].row # "none"
    /\ \A k \in Callbacks : callback[k].pc = "arrived" =>
          callback[k].login \in Logins /\ logins[callback[k].login].row # "none"
    /\ \A k \in Callbacks : Proceeding(k) => Spent(callback[k].login)
    /\ \A k, j \in Callbacks : Proceeding(k) /\ Proceeding(j) /\ k # j => callback[k].login # callback[j].login
    /\ \A s \in WebSessions : /\ sessions[s].row = "none" => sessions[s].login = Unset
                              /\ sessions[s].login # Unset => Spent(sessions[s].login)
    /\ \A s \in WebSessions, k \in Callbacks : Proceeding(k) => sessions[s].login # callback[k].login
    /\ OneSessionPerLogin

\* Past the check of its status, the account of a callback is locked and stays active.
AccountInv ==
    \A k \in Callbacks :
        /\ callback[k].pc \in {"verified", "revoked", "locked"} => callback[k].account \in Accounts
        /\ callback[k].pc = "locked" => /\ locked[callback[k].account] = k
                                        /\ accounts[callback[k].account].status = "active"

\* Past the revocation, the session a callback came with has ended.
OldInv ==
    /\ \A b \in Browsers : cookies[b].session # Unset => sessions[cookies[b].session].row # "none"
    /\ \A k \in Callbacks : callback[k].old # Unset => sessions[callback[k].old].row # "none"
    /\ \A k \in Callbacks : callback[k].pc \in {"revoked", "locked"} /\ callback[k].old # Unset => Ended(callback[k].old)

IdentityIInv == IdentityTypeOK /\ LoginInv /\ AccountInv /\ OldInv

-----------------------------------------------------------------------------
\* The rows, as IdentityTypeOK has them.
AccountRows == [known : BOOLEAN, status : {"active", "blocked"}, epoch : 1..MaxEpoch]
LoginRows == [row : {"none", "open", "consumed", "deleted"}, browser : Browsers \cup {Unset},
              handle : Handles \cup {Unset}, expires : 0..(MaxTime + LoginLife)]
SessionRows == [row : {"none", "row", "deleted"}, account : Accounts \cup {Unset}, epoch : 0..MaxEpoch,
                revoked : BOOLEAN, expires : 0..(MaxTime + SessionLife), login : Logins \cup {Unset}]
CookieRows == [login : Logins \cup {Unset}, session : WebSessions \cup {Unset}, handle : Handles \cup {Unset}]
CallbackRecords ==
    [pc : {"idle", "arrived", "consumed", "verified", "revoked", "locked"},
     browser : Browsers \cup {Unset}, login : Logins \cup {Unset}, old : WebSessions \cup {Unset},
     handle : Handles \cup {Unset}, account : Accounts \cup {Unset}]

\* A browser's new cookies.
LEMMA CookieUpdates ==
    ASSUME IdentityIInv, NEW b
    PROVE  /\ \A l \in Logins \cup {Unset} :
                /\ [cookies EXCEPT ![b].login = l] \in [Browsers -> CookieRows]
                /\ \A c \in Browsers : /\ [cookies EXCEPT ![b].login = l][c].session = cookies[c].session
                                      /\ [cookies EXCEPT ![b].login = l][c].login = IF c = b THEN l ELSE cookies[c].login
           /\ \A s \in WebSessions \cup {Unset} :
                /\ [cookies EXCEPT ![b].session = s] \in [Browsers -> CookieRows]
                /\ \A c \in Browsers : /\ [cookies EXCEPT ![b].session = s][c].login = cookies[c].login
                                      /\ [cookies EXCEPT ![b].session = s][c].session = IF c = b THEN s ELSE cookies[c].session
<1>1. cookies \in [Browsers -> CookieRows]
  BY DEF IdentityIInv, IdentityTypeOK, CookieRows
<1>2. \A row \in CookieRows : \A l \in Logins \cup {Unset} :
          /\ [row EXCEPT !.login = l] \in CookieRows
          /\ [row EXCEPT !.login = l].login = l /\ [row EXCEPT !.login = l].session = row.session
  BY DEF CookieRows
<1>3. \A row \in CookieRows : \A s \in WebSessions \cup {Unset} :
          /\ [row EXCEPT !.session = s] \in CookieRows
          /\ [row EXCEPT !.session = s].session = s /\ [row EXCEPT !.session = s].login = row.login
  BY DEF CookieRows
<1>4. ASSUME NEW l \in Logins \cup {Unset}
      PROVE  /\ [cookies EXCEPT ![b].login = l] \in [Browsers -> CookieRows]
             /\ \A c \in Browsers : /\ [cookies EXCEPT ![b].login = l][c].session = cookies[c].session
                                   /\ [cookies EXCEPT ![b].login = l][c].login = IF c = b THEN l ELSE cookies[c].login
  BY <1>1, <1>2
<1>5. ASSUME NEW s \in WebSessions \cup {Unset}
      PROVE  /\ [cookies EXCEPT ![b].session = s] \in [Browsers -> CookieRows]
             /\ \A c \in Browsers : /\ [cookies EXCEPT ![b].session = s][c].login = cookies[c].login
                                   /\ [cookies EXCEPT ![b].session = s][c].session = IF c = b THEN s ELSE cookies[c].session
  BY <1>1, <1>3
<1>. QED
  BY <1>4, <1>5

LEMMA TickKeeps ==
    ASSUME IdentityAssumption, IdentityIInv, Tick
    PROVE  IdentityIInv'
<1>1. IdentityTypeOK'
  BY DEF IdentityAssumption, IdentityIInv, IdentityTypeOK, Tick
<1>2. LoginInv'
  BY DEF IdentityIInv, LoginInv, Tick, Proceeding, Spent, OneSessionPerLogin
<1>3. AccountInv' /\ OldInv'
  BY DEF IdentityIInv, AccountInv, OldInv, Tick, Ended
<1>. QED
  BY <1>1, <1>2, <1>3 DEF IdentityIInv

LEMMA BeginLoginKeeps ==
    ASSUME IdentityAssumption, IdentityIInv, NEW b \in Browsers, NEW l \in Logins, NEW h \in Handles \cup {Unset},
           BeginLogin(b, l, h)
    PROVE  IdentityIInv'
<1>. DEFINE row == [row |-> "open", browser |-> b, handle |-> h, expires |-> LoginExpiry]
<1>1. /\ logins[l].row = "none" /\ logins' = [logins EXCEPT ![l] = row]
      /\ cookies' = [cookies EXCEPT ![b].login = l]
      /\ UNCHANGED <<now, accounts, sessions, callback, locked>>
  BY DEF BeginLogin
<1>2. IdentityTypeOK'
  <2>1. logins' \in [Logins -> LoginRows]
    <3>1. row \in LoginRows
      BY DEF IdentityIInv, IdentityTypeOK, IdentityAssumption, LifeAssumption, LoginExpiry, LoginRows
    <3>. QED
      BY <1>1, <3>1 DEF IdentityIInv, IdentityTypeOK, LoginRows
  <2>2. cookies' \in [Browsers -> CookieRows]
    BY <1>1, CookieUpdates
  <2>. QED
    BY <1>1, <2>1, <2>2 DEF IdentityIInv, IdentityTypeOK, LoginRows, CookieRows
<1>3. /\ \A m \in Logins : logins'[m].row = IF m = l THEN "open" ELSE logins[m].row
      /\ \A c \in Browsers : /\ cookies'[c].login = IF c = b THEN l ELSE cookies[c].login
                             /\ cookies'[c].session = cookies[c].session
  BY <1>1, CookieUpdates DEF IdentityIInv, IdentityTypeOK
<1>4. LoginInv'
  BY <1>1, <1>3 DEF IdentityIInv, IdentityTypeOK, LoginInv, Proceeding, Spent, OneSessionPerLogin
<1>5. AccountInv' /\ OldInv'
  BY <1>1, <1>3 DEF IdentityIInv, IdentityTypeOK, AccountInv, OldInv, Ended
<1>. QED
  BY <1>2, <1>4, <1>5 DEF IdentityIInv

\* A callback that ends, or moves on with its login and its old session.
LEMMA CallbackKeeps ==
    ASSUME IdentityAssumption, IdentityIInv, NEW k \in Callbacks, NEW c \in CallbackRecords,
           callback' = [callback EXCEPT ![k] = c], UNCHANGED <<now, logins, sessions, cookies>>,
           accounts' \in [Accounts -> AccountRows],
           \A a \in Accounts : accounts'[a].status = accounts[a].status,
           locked' \in [Accounts -> Callbacks \cup ServerRequests \cup {Unset}],
           \A a \in Accounts : locked[a] # k /\ locked[a] # Unset => locked'[a] = locked[a],
           c.pc # "arrived",
           c.pc # "idle" => Proceeding(k) /\ c.login = callback[k].login,
           c.old # Unset => c.old = callback[k].old,
           c.pc \in {"revoked", "locked"} => callback[k].pc \in {"revoked", "locked"},
           c.pc \in {"verified", "revoked", "locked"} => c.account \in Accounts,
           c.pc = "locked" => locked'[c.account] = k /\ accounts[c.account].status = "active"
    PROVE  IdentityIInv'
<1>1. IdentityTypeOK'
  BY DEF IdentityIInv, IdentityTypeOK, CallbackRecords, AccountRows
<1>2. callback'[k] = c /\ \A j \in Callbacks \ {k} : callback'[j] = callback[j]
  BY DEF IdentityIInv, IdentityTypeOK
<1>3. c.pc \in {"idle", "arrived", "consumed", "verified", "revoked", "locked"}
  BY DEF CallbackRecords
<1>4. LoginInv'
  <2>1. \A j \in Callbacks : Proceeding(j)' => Proceeding(j) /\ callback'[j].login = callback[j].login
    BY <1>2 DEF Proceeding
  <2>2. \A j \in Callbacks : callback'[j].pc = "arrived" => callback'[j] = callback[j]
    BY <1>2
  <2>. QED
    BY <2>1, <2>2 DEF IdentityIInv, LoginInv, Spent, OneSessionPerLogin
<1>5. AccountInv'
  <2>1. ASSUME NEW j \in Callbacks \ {k}, callback[j].pc = "locked"
        PROVE  locked'[callback[j].account] = j
    BY <2>1 DEF IdentityIInv, AccountInv, IdentityAssumption
  <2>2. ASSUME NEW j \in Callbacks, callback[j].pc = "locked" PROVE callback[j].account \in Accounts
    BY <2>2 DEF IdentityIInv, AccountInv
  <2>. QED
    BY <1>2, <2>1, <2>2 DEF IdentityIInv, AccountInv
<1>6. OldInv'
  BY <1>2 DEF IdentityIInv, OldInv, Ended
<1>. QED
  BY <1>1, <1>4, <1>5, <1>6 DEF IdentityIInv

\* A step on sessions and accounts, which revives nothing and spares who holds an account's row.
LEMMA SessionsKeep ==
    ASSUME IdentityAssumption, IdentityIInv, UNCHANGED <<now, logins, callback, locked>>,
           sessions' \in [WebSessions -> SessionRows], accounts' \in [Accounts -> AccountRows],
           cookies' \in [Browsers -> CookieRows],
           \A s \in WebSessions : /\ sessions'[s].row = "none" <=> sessions[s].row = "none"
                                  /\ sessions'[s].login = sessions[s].login
                                  /\ Ended(s) => Ended(s)',
           \A a \in Accounts : locked[a] # Unset => accounts'[a] = accounts[a],
           \A b \in Browsers : /\ cookies'[b].login = cookies[b].login
                               /\ cookies'[b].session \in {cookies[b].session, Unset}
    PROVE  IdentityIInv'
<1>1. IdentityTypeOK'
  BY DEF IdentityIInv, IdentityTypeOK, SessionRows, AccountRows, CookieRows
<1>2. LoginInv'
  BY DEF IdentityIInv, LoginInv, Proceeding, Spent, OneSessionPerLogin
<1>3. AccountInv'
  BY DEF IdentityIInv, AccountInv, IdentityAssumption
<1>4. OldInv'
  <2>1. \A k \in Callbacks : callback[k].old \in WebSessions \cup {Unset}
    BY DEF IdentityIInv, IdentityTypeOK
  <2>2. \A b \in Browsers : cookies[b].session \in WebSessions \cup {Unset}
    BY DEF IdentityIInv, IdentityTypeOK
  <2>3. \A s \in WebSessions : sessions'[s].row \in {"none", "row", "deleted"}
    BY DEF SessionRows
  <2>. QED
    BY <2>1, <2>2, <2>3 DEF IdentityIInv, OldInv
<1>. QED
  BY <1>1, <1>2, <1>3, <1>4 DEF IdentityIInv

\* Revoking a row ends it and touches no other.
LEMMA RevokeEnds ==
    ASSUME IdentityAssumption, IdentityIInv, NEW s \in WebSessions \cup {Unset}
    PROVE  /\ RevokeWebSession(s) \in [WebSessions -> SessionRows]
           /\ \A t \in WebSessions : /\ RevokeWebSession(s)[t].row = sessions[t].row
                                     /\ RevokeWebSession(s)[t].login = sessions[t].login
                                     /\ sessions[t].revoked => RevokeWebSession(s)[t].revoked
           /\ s \in WebSessions /\ sessions[s].row = "row" => RevokeWebSession(s)[s].revoked
<1>1. sessions \in [WebSessions -> SessionRows]
  BY DEF IdentityIInv, IdentityTypeOK, SessionRows
<1>2. CASE s # Unset /\ sessions[s].row = "row"
  BY <1>1, <1>2 DEF RevokeWebSession, SessionRows
<1>3. CASE ~(s # Unset /\ sessions[s].row = "row")
  BY <1>1, <1>3 DEF RevokeWebSession, IdentityAssumption
<1>. QED
  BY <1>2, <1>3

LEMMA LogoutKeeps ==
    ASSUME IdentityAssumption, IdentityIInv, NEW b \in Browsers, Logout(b)
    PROVE  IdentityIInv'
<1>1. cookies[b].session \in WebSessions \cup {Unset} /\ cookies' = [cookies EXCEPT ![b].session = Unset]
  BY DEF Logout, IdentityIInv, IdentityTypeOK
<1>2. cookies' \in [Browsers -> CookieRows]
  BY <1>1, CookieUpdates
<1>3. \A c \in Browsers : cookies'[c].login = cookies[c].login /\ cookies'[c].session \in {cookies[c].session, Unset}
  BY <1>1, CookieUpdates
<1>4. accounts' \in [Accounts -> AccountRows]
  BY DEF Logout, IdentityIInv, IdentityTypeOK, AccountRows
<1>. QED
  BY <1>1, <1>2, <1>3, <1>4, RevokeEnds, SessionsKeep DEF Logout, Ended

LEMMA BlockKeeps ==
    ASSUME IdentityAssumption, IdentityIInv, NEW a \in Accounts, Block(a) \/ Unblock(a)
    PROVE  IdentityIInv'
<1>1. sessions \in [WebSessions -> SessionRows] /\ accounts \in [Accounts -> AccountRows] /\ cookies \in [Browsers -> CookieRows]
  BY DEF IdentityIInv, IdentityTypeOK, SessionRows, AccountRows, CookieRows
<1>2. accounts' \in [Accounts -> AccountRows]
  <2>1. accounts[a].epoch + 1 \in 1..MaxEpoch
    BY <1>1 DEF Block, Unblock, AccountRows, IdentityAssumption
  <2>. QED
    BY <1>1, <2>1 DEF Block, Unblock, AccountRows
<1>3. \A c \in Accounts : locked[c] # Unset => accounts'[c] = accounts[c]
  BY <1>1 DEF Block, Unblock
<1>4. /\ sessions' \in [WebSessions -> SessionRows]
      /\ \A s \in WebSessions : /\ sessions'[s].row = sessions[s].row /\ sessions'[s].login = sessions[s].login
                                /\ sessions[s].revoked => sessions'[s].revoked
  <2>1. CASE Block(a)
    <3>1. \A s \in WebSessions : [sessions[s] EXCEPT !.revoked = TRUE] \in SessionRows
      BY <1>1 DEF SessionRows
    <3>2. \A s \in WebSessions : sessions'[s] = IF sessions[s].account = a /\ sessions[s].row = "row"
                                                 THEN [sessions[s] EXCEPT !.revoked = TRUE] ELSE sessions[s]
      BY <2>1 DEF Block, RevokedSessionsOf
    <3>3. sessions' \in [WebSessions -> SessionRows]
      BY <1>1, <2>1, <3>1 DEF Block, RevokedSessionsOf
    <3>. QED
      BY <1>1, <3>2, <3>3 DEF SessionRows
  <2>2. CASE Unblock(a)
    BY <1>1, <2>2 DEF Unblock
  <2>. QED
    BY <2>1, <2>2
<1>5. UNCHANGED <<now, logins, callback, locked, cookies>>
  BY DEF Block, Unblock
<1>. QED
  BY <1>1, <1>2, <1>3, <1>4, <1>5, SessionsKeep DEF Ended

LEMMA DeleteSessionsKeeps ==
    ASSUME IdentityAssumption, IdentityIInv, DeleteExpiredWebSessions
    PROVE  IdentityIInv'
<1>1. /\ sessions \in [WebSessions -> SessionRows] /\ accounts \in [Accounts -> AccountRows]
      /\ cookies \in [Browsers -> CookieRows]
  BY DEF IdentityIInv, IdentityTypeOK, SessionRows, AccountRows, CookieRows
<1>2. PICK D \in SUBSET ExpiredSessions : sessions' = WithoutSessions(D)
  BY DEF DeleteExpiredWebSessions
<1>3. /\ sessions' \in [WebSessions -> SessionRows]
      /\ \A s \in WebSessions : /\ sessions'[s].row = IF s \in D THEN "deleted" ELSE sessions[s].row
                                /\ sessions'[s].login = sessions[s].login /\ sessions'[s].revoked = sessions[s].revoked
  BY <1>1, <1>2 DEF WithoutSessions, SessionRows
<1>4. \A s \in D : sessions[s].row = "row"
  BY DEF ExpiredSessions
<1>5. UNCHANGED <<now, accounts, logins, callback, locked, cookies>>
  BY DEF DeleteExpiredWebSessions
<1>. QED
  BY <1>1, <1>3, <1>4, <1>5, SessionsKeep DEF Ended

LEMMA DeleteLoginsKeeps ==
    ASSUME IdentityAssumption, IdentityIInv, DeleteExpiredLoginTransactions
    PROVE  IdentityIInv'
<1>1. logins \in [Logins -> LoginRows]
  BY DEF IdentityIInv, IdentityTypeOK, LoginRows
<1>2. PICK D \in SUBSET {l \in Logins : logins[l].row \in {"open", "consumed"}} :
        logins' = [l \in Logins |-> IF l \in D THEN [logins[l] EXCEPT !.row = "deleted"] ELSE logins[l]]
  BY DEF DeleteExpiredLoginTransactions
<1>3. /\ logins' \in [Logins -> LoginRows]
      /\ \A l \in Logins : logins'[l].row = IF l \in D THEN "deleted" ELSE logins[l].row
  BY <1>1, <1>2 DEF LoginRows
<1>4. UNCHANGED <<now, accounts, sessions, callback, locked, cookies>>
  BY DEF DeleteExpiredLoginTransactions
<1>5. IdentityTypeOK'
  BY <1>3, <1>4 DEF IdentityIInv, IdentityTypeOK, LoginRows
<1>6. LoginInv'
  <2>1. \A l : Spent(l) => Spent(l)'
    BY <1>3 DEF Spent
  <2>2. \A l \in Logins : logins[l].row # "none" => logins'[l].row # "none"
    BY <1>3
  <2>3. \A b \in Browsers : cookies[b].login \in Logins \cup {Unset}
    BY DEF IdentityIInv, IdentityTypeOK
  <2>. QED
    BY <1>4, <2>1, <2>2, <2>3 DEF IdentityIInv, LoginInv, Proceeding, OneSessionPerLogin
<1>7. AccountInv' /\ OldInv'
  BY <1>4 DEF IdentityIInv, AccountInv, OldInv, Ended
<1>. QED
  BY <1>5, <1>6, <1>7 DEF IdentityIInv

-----------------------------------------------------------------------------
\* The steps of a callback.
LEMMA CallbackTypes ==
    ASSUME IdentityIInv, NEW k \in Callbacks
    PROVE  /\ callback \in [Callbacks -> CallbackRecords] /\ callback[k] \in CallbackRecords
           /\ NoCallback \in CallbackRecords
           /\ logins \in [Logins -> LoginRows] /\ sessions \in [WebSessions -> SessionRows]
           /\ accounts \in [Accounts -> AccountRows] /\ cookies \in [Browsers -> CookieRows]
           /\ locked \in [Accounts -> Callbacks \cup ServerRequests \cup {Unset}]
BY DEF IdentityIInv, IdentityTypeOK, CallbackRecords, LoginRows, SessionRows, AccountRows, CookieRows, NoCallback

LEMMA EndKeeps ==
    ASSUME IdentityAssumption, IdentityIInv, NEW k \in Callbacks,
           callback' = [callback EXCEPT ![k] = NoCallback], UNCHANGED <<now, logins, sessions, cookies, accounts>>,
           locked' \in {locked, UnlockAccounts(k)}
    PROVE  IdentityIInv'
<1>1. /\ NoCallback.pc = "idle" /\ NoCallback.old = Unset
  BY DEF NoCallback
<1>2. locked' \in [Accounts -> Callbacks \cup ServerRequests \cup {Unset}]
  BY CallbackTypes DEF UnlockAccounts
<1>3. \A a \in Accounts : locked[a] # k /\ locked[a] # Unset => locked'[a] = locked[a]
  BY DEF UnlockAccounts
<1>. QED
  BY <1>1, <1>2, <1>3, CallbackTypes, CallbackKeeps

LEMMA VerifyProfileKeeps ==
    ASSUME IdentityAssumption, IdentityIInv, NEW k \in Callbacks, NEW a \in Accounts, VerifyProfile(k, a)
    PROVE  IdentityIInv'
<1>. DEFINE c == [callback[k] EXCEPT !.pc = "verified", !.account = a]
<1>1. CASE EndCallback(k)
  BY <1>1, EndKeeps DEF VerifyProfile, EndCallback
<1>2. CASE callback' = [callback EXCEPT ![k].pc = "verified", ![k].account = a]
  <2>1. callback' = [callback EXCEPT ![k] = c]
    BY <1>2, CallbackTypes
  <2>2. c \in CallbackRecords /\ c.pc = "verified" /\ c.login = callback[k].login /\ c.old = callback[k].old /\ c.account = a
    BY CallbackTypes DEF CallbackRecords
  <2>3. Proceeding(k) /\ UNCHANGED <<now, accounts, logins, sessions, cookies, locked>>
    BY DEF VerifyProfile, Proceeding
  <2>. HIDE DEF c
  <2>. QED
    BY <2>1, <2>2, <2>3, CallbackTypes, CallbackKeeps
<1>. QED
  BY <1>1, <1>2 DEF VerifyProfile

LEMMA LockUserAccountKeeps ==
    ASSUME IdentityAssumption, IdentityIInv, NEW k \in Callbacks, LockUserAccount(k)
    PROVE  IdentityIInv'
<1>. DEFINE a == callback[k].account
            c == [callback[k] EXCEPT !.pc = "locked"]
<1>1. a \in Accounts /\ callback[k].pc = "revoked" /\ locked[a] = Unset
  BY DEF LockUserAccount, IdentityIInv, AccountInv
<1>2. CASE accounts[a].status = "active"
  <2>1. /\ accounts' = [accounts EXCEPT ![a].known = TRUE] /\ locked' = [locked EXCEPT ![a] = k]
        /\ callback' = [callback EXCEPT ![k].pc = "locked"]
        /\ UNCHANGED <<now, logins, sessions, cookies>>
    BY <1>2 DEF LockUserAccount
  <2>2. callback' = [callback EXCEPT ![k] = c]
    BY <2>1, CallbackTypes
  <2>3. c \in CallbackRecords /\ c.pc = "locked" /\ c.login = callback[k].login /\ c.old = callback[k].old /\ c.account = a
    BY CallbackTypes DEF CallbackRecords
  <2>4. accounts' \in [Accounts -> AccountRows] /\ \A d \in Accounts : accounts'[d].status = accounts[d].status
    BY <2>1, CallbackTypes DEF AccountRows
  <2>5. /\ locked' \in [Accounts -> Callbacks \cup ServerRequests \cup {Unset}] /\ locked'[a] = k
        /\ \A d \in Accounts : locked[d] # k /\ locked[d] # Unset => locked'[d] = locked[d]
    BY <1>1, <2>1, CallbackTypes
  <2>6. Proceeding(k)
    BY <1>1 DEF Proceeding
  <2>7. /\ locked'[c.account] = k /\ accounts[c.account].status = "active" /\ c.account \in Accounts
        /\ callback[k].pc \in {"revoked", "locked"} /\ c.pc # "arrived"
    BY <1>1, <1>2, <2>3, <2>5
  <2>. HIDE DEF a, c
  <2>. QED
    BY <2>1, <2>2, <2>3, <2>4, <2>5, <2>6, <2>7, CallbackKeeps
<1>3. CASE accounts[a].status # "active"
  BY <1>3, EndKeeps DEF LockUserAccount, EndCallback
<1>. QED
  BY <1>2, <1>3

LEMMA ArriveKeeps ==
    ASSUME IdentityAssumption, IdentityIInv, NEW k \in Callbacks, NEW b \in Browsers, Arrive(k, b)
    PROVE  IdentityIInv'
<1>. DEFINE c == [NoCallback EXCEPT !.pc = "arrived", !.browser = b, !.login = cookies[b].login,
                                    !.old = cookies[b].session, !.handle = cookies[b].handle]
<1>1. /\ callback[k].pc = "idle" /\ cookies[b].login # Unset /\ callback' = [callback EXCEPT ![k] = c]
      /\ UNCHANGED <<now, accounts, logins, sessions, cookies, locked>>
  BY DEF Arrive
<1>2. cookies[b] \in CookieRows
  BY CallbackTypes
<1>3. c \in CallbackRecords /\ c.pc = "arrived" /\ c.login = cookies[b].login /\ c.old = cookies[b].session
  BY <1>2 DEF NoCallback, CallbackRecords, CookieRows
<1>4. callback'[k] = c /\ \A j \in Callbacks \ {k} : callback'[j] = callback[j]
  BY <1>1, CallbackTypes
<1>. HIDE DEF c
<1>5. IdentityTypeOK'
  BY <1>1, <1>3 DEF IdentityIInv, IdentityTypeOK, CallbackRecords
<1>6. LoginInv'
  <2>1. \A j \in Callbacks : Proceeding(j)' => j # k /\ Proceeding(j)
    BY <1>3, <1>4 DEF Proceeding
  <2>2. cookies[b].login \in Logins
    BY <1>1, <1>2 DEF CookieRows
  <2>. QED
    BY <1>1, <1>3, <1>4, <2>1, <2>2 DEF IdentityIInv, LoginInv, Spent, OneSessionPerLogin
<1>7. AccountInv'
  BY <1>1, <1>3, <1>4 DEF IdentityIInv, AccountInv
<1>8. OldInv'
  BY <1>1, <1>3, <1>4 DEF IdentityIInv, OldInv, Ended
<1>. QED
  BY <1>5, <1>6, <1>7, <1>8 DEF IdentityIInv

LEMMA ConsumeLoginKeeps ==
    ASSUME IdentityAssumption, IdentityIInv, NEW k \in Callbacks, ConsumeLogin(k)
    PROVE  IdentityIInv'
<1>. DEFINE l == callback[k].login
            c == callback'[k]
<1>1. l \in Logins /\ callback[k].pc = "arrived"
  BY DEF ConsumeLogin, IdentityIInv, LoginInv
<1>2. CASE OpenLogin(k)
  <2>1. logins[l].row = "open"
    BY <1>2 DEF OpenLogin
  <2>2. /\ logins' = [logins EXCEPT ![l].row = "consumed"]
        /\ cookies' = [cookies EXCEPT ![callback[k].browser].login = Unset]
        /\ callback' = [callback EXCEPT ![k].pc = "consumed"] \/ callback' = [callback EXCEPT ![k] = NoCallback]
        /\ UNCHANGED <<now, accounts, sessions, locked>>
    BY <1>2 DEF ConsumeLogin, EndCallback
  <2>3. /\ c.pc \in {"consumed", "idle"} /\ c \in CallbackRecords
        /\ c.pc = "consumed" => c.login = l
        /\ c.old \in {callback[k].old, Unset}
        /\ \A j \in Callbacks \ {k} : callback'[j] = callback[j]
    <3>1. \/ callback' = [callback EXCEPT ![k] = [callback[k] EXCEPT !.pc = "consumed"]]
          \/ callback' = [callback EXCEPT ![k] = NoCallback]
      BY <2>2, CallbackTypes
    <3>2. \/ c = [callback[k] EXCEPT !.pc = "consumed"]
          \/ c = NoCallback
      BY <3>1, CallbackTypes
    <3>3. \A j \in Callbacks \ {k} : callback'[j] = callback[j]
      BY <3>1, CallbackTypes
    <3>4. [callback[k] EXCEPT !.pc = "consumed"] \in CallbackRecords
      BY CallbackTypes DEF CallbackRecords
    <3>. QED
      BY <3>2, <3>3, <3>4, CallbackTypes DEF CallbackRecords, NoCallback
  <2>4. /\ logins' \in [Logins -> LoginRows]
        /\ \A m \in Logins : logins'[m].row = IF m = l THEN "consumed" ELSE logins[m].row
    <3>1. [logins[l] EXCEPT !.row = "consumed"] \in LoginRows /\ logins' = [logins EXCEPT ![l] = [logins[l] EXCEPT !.row = "consumed"]]
      BY <1>1, <2>2, CallbackTypes DEF LoginRows
    <3>2. logins' \in [Logins -> LoginRows]
      BY <3>1, CallbackTypes
    <3>. QED
      BY <1>1, <3>1, <3>2, CallbackTypes DEF LoginRows
  <2>5. /\ cookies' \in [Browsers -> CookieRows]
        /\ \A b \in Browsers : cookies'[b].session = cookies[b].session /\ cookies'[b].login \in {cookies[b].login, Unset}
    <3>. DEFINE o == callback[k].browser
    <3>1. cookies' = [cookies EXCEPT ![o].login = Unset]
      BY <2>2
    <3>. HIDE DEF o
    <3>. QED
      BY <3>1, CookieUpdates
  <2>6. callback' \in [Callbacks -> CallbackRecords]
    <3>1. callback' = [callback EXCEPT ![k] = callback'[k]]
      BY <2>2, CallbackTypes
    <3>. QED
      BY <2>3, <3>1, CallbackTypes
  <2>. HIDE DEF c
  <2>7. IdentityTypeOK'
    BY <2>2, <2>4, <2>5, <2>6 DEF IdentityIInv, IdentityTypeOK, CallbackRecords, LoginRows, CookieRows
  <2>8. LoginInv'
    <3>1. \A j \in Callbacks : Proceeding(j)' => (j = k /\ callback'[j].login = l) \/ (j # k /\ Proceeding(j) /\ callback'[j].login = callback[j].login)
      BY <2>3 DEF Proceeding, c
    <3>2. \A m \in Logins : logins[m].row \in {"consumed", "deleted"} =>
                logins'[m].row \in {"consumed", "deleted"} /\ m # l
      BY <2>1, <2>4
    <3>3. logins'[l].row = "consumed"
      BY <1>1, <2>4
    <3>4. \A m \in Logins : logins[m].row # "none" => logins'[m].row # "none"
      BY <2>4
    <3>5. \A j \in Callbacks : callback'[j].pc = "arrived" => callback'[j] = callback[j]
      BY <2>3 DEF c
    <3>6. \A s \in WebSessions : sessions[s].login # l
      BY <1>1, <3>2 DEF IdentityIInv, LoginInv, Spent, IdentityAssumption
    <3>7. \A b \in Browsers : cookies'[b].login # Unset => cookies'[b].login = cookies[b].login /\ cookies[b].login \in Logins
      BY <2>5, CallbackTypes DEF CookieRows
    <3>8. \A i, j \in Callbacks : Proceeding(i)' /\ Proceeding(j)' /\ i # j => callback'[i].login # callback'[j].login
      BY <3>1, <3>2 DEF IdentityIInv, LoginInv, Spent
    <3>9. \A s \in WebSessions, j \in Callbacks : Proceeding(j)' => sessions[s].login # callback'[j].login
      BY <3>1, <3>6 DEF IdentityIInv, LoginInv
    <3>10. \A j \in Callbacks : Proceeding(j)' =>
                callback'[j].login \in Logins /\ logins'[callback'[j].login].row \in {"consumed", "deleted"}
      BY <1>1, <3>1, <3>2, <3>3 DEF IdentityIInv, LoginInv, Spent
    <3>11. \A s \in WebSessions : sessions[s].login # Unset =>
                sessions[s].login \in Logins /\ logins'[sessions[s].login].row \in {"consumed", "deleted"}
      BY <3>2 DEF IdentityIInv, LoginInv, Spent
    <3>. QED
      BY <2>2, <3>4, <3>5, <3>7, <3>8, <3>9, <3>10, <3>11 DEF IdentityIInv, LoginInv, Spent, OneSessionPerLogin
  <2>9. AccountInv'
    BY <2>2, <2>3 DEF IdentityIInv, AccountInv, c
  <2>10. OldInv'
    BY <2>2, <2>3, <2>5 DEF IdentityIInv, OldInv, Ended, c
  <2>. QED
    BY <2>7, <2>8, <2>9, <2>10 DEF IdentityIInv
<1>3. CASE ~OpenLogin(k)
  BY <1>3, EndKeeps DEF ConsumeLogin, EndCallback
<1>. QED
  BY <1>2, <1>3

LEMMA RevokeOldSessionKeeps ==
    ASSUME IdentityAssumption, IdentityIInv, NEW k \in Callbacks, RevokeOldSession(k)
    PROVE  IdentityIInv'
<1>. DEFINE s == callback[k].old
            c == [callback[k] EXCEPT !.pc = "revoked"]
<1>1. /\ callback[k].pc = "verified" /\ sessions' = RevokeWebSession(s) /\ callback' = [callback EXCEPT ![k] = c]
      /\ UNCHANGED <<now, accounts, logins, cookies, locked>>
  BY CallbackTypes DEF RevokeOldSession
<1>2. /\ c \in CallbackRecords /\ c.pc = "revoked" /\ c.login = callback[k].login /\ c.old = s
      /\ c.account = callback[k].account
  BY CallbackTypes DEF CallbackRecords
<1>3. s \in WebSessions \cup {Unset}
  BY CallbackTypes DEF CallbackRecords
<1>. HIDE DEF c, s
<1>4. /\ sessions' \in [WebSessions -> SessionRows]
      /\ \A t \in WebSessions : /\ sessions'[t].row = sessions[t].row /\ sessions'[t].login = sessions[t].login
                                /\ sessions[t].revoked => sessions'[t].revoked
      /\ s \in WebSessions /\ sessions[s].row = "row" => sessions'[s].revoked
  BY <1>1, <1>3, RevokeEnds
<1>5. callback'[k] = c /\ \A j \in Callbacks \ {k} : callback'[j] = callback[j]
  BY <1>1, CallbackTypes
<1>6. callback' \in [Callbacks -> CallbackRecords]
  BY <1>1, <1>2, CallbackTypes
<1>7. IdentityTypeOK'
  BY <1>1, <1>4, <1>6 DEF IdentityIInv, IdentityTypeOK, CallbackRecords, SessionRows
<1>8. LoginInv'
  <2>1. \A j \in Callbacks : Proceeding(j)' => Proceeding(j) /\ callback'[j].login = callback[j].login
    BY <1>1, <1>2, <1>5 DEF Proceeding
  <2>2. \A j \in Callbacks : callback'[j].pc = "arrived" => callback'[j] = callback[j]
    BY <1>2, <1>5
  <2>. QED
    BY <1>1, <1>4, <2>1, <2>2 DEF IdentityIInv, LoginInv, Spent, OneSessionPerLogin
<1>9. AccountInv'
  BY <1>1, <1>2, <1>5 DEF IdentityIInv, AccountInv
<1>10. OldInv'
  <2>1. \A j \in Callbacks : callback'[j].old = callback[j].old /\ callback[j].old \in WebSessions \cup {Unset}
    BY <1>2, <1>5, CallbackTypes DEF CallbackRecords, s
  <2>2. \A t \in WebSessions : Ended(t) => Ended(t)'
    BY <1>4 DEF Ended
  <2>3. s # Unset => Ended(s)'
    <3>1. s # Unset => s \in WebSessions /\ sessions[s].row \in {"row", "deleted"}
      BY <1>3, CallbackTypes DEF IdentityIInv, OldInv, SessionRows, s
    <3>2. s' = s
      BY <1>2, <1>5 DEF s
    <3>. QED
      BY <1>4, <3>1, <3>2 DEF Ended
  <2>4. \A b \in Browsers : cookies[b].session \in WebSessions \cup {Unset}
    BY CallbackTypes DEF CookieRows
  <2>5. \A j \in Callbacks : callback'[j].old # Unset => sessions'[callback'[j].old].row # "none"
    BY <1>4, <2>1 DEF IdentityIInv, OldInv
  <2>6. \A b \in Browsers : cookies'[b].session # Unset => sessions'[cookies'[b].session].row # "none"
    BY <1>1, <1>4, <2>4 DEF IdentityIInv, OldInv
  <2>7. ASSUME NEW j \in Callbacks, callback'[j].pc \in {"revoked", "locked"}, callback'[j].old # Unset
        PROVE  Ended(callback[j].old)'
    <3>1. CASE j = k
      BY <2>1, <2>3, <2>7, <3>1 DEF s, Ended
    <3>2. CASE j # k
      <4>1. Ended(callback[j].old) /\ callback[j].old \in WebSessions
        BY <1>5, <2>1, <2>7, <3>2 DEF IdentityIInv, OldInv
      <4>. QED
        BY <2>1, <2>2, <4>1 DEF Ended
    <3>. QED
      BY <3>1, <3>2
  <2>. QED
    BY <2>5, <2>6, <2>7 DEF OldInv, Ended
<1>. QED
  BY <1>7, <1>8, <1>9, <1>10 DEF IdentityIInv

\* The session of a completed login, in the state after it.
LEMMA CompletedSession ==
    ASSUME IdentityAssumption, IdentityIInv, NEW k \in Callbacks, NEW s \in WebSessions, CompleteLogin(k, s)
    PROVE  /\ sessions' \in [WebSessions -> SessionRows] /\ sessions[s].row = "none"
           /\ sessions'[s].row = "row" /\ sessions'[s].login = callback[k].login
           /\ \A t \in WebSessions \ {s} : sessions'[t] = sessions[t]
           /\ Session(s)'
<1>. DEFINE a == callback[k].account
            row == [row |-> "row", account |-> a, epoch |-> accounts[a].epoch, revoked |-> FALSE,
                    expires |-> now + SessionLife, login |-> callback[k].login]
<1>1. /\ sessions[s].row = "none" /\ sessions' = [sessions EXCEPT ![s] = row]
      /\ UNCHANGED <<now, accounts>> /\ callback[k].pc = "locked"
  BY DEF CompleteLogin
<1>2. a \in Accounts /\ accounts[a].status = "active"
  BY <1>1 DEF IdentityIInv, AccountInv
<1>3. now \in 0..MaxTime /\ now + SessionLife \in 0..(MaxTime + SessionLife) /\ now + SessionLife > now
  BY DEF IdentityIInv, IdentityTypeOK, IdentityAssumption, LifeAssumption
<1>4. accounts[a].epoch \in 0..MaxEpoch /\ callback[k].login \in Logins \cup {Unset}
  BY <1>2, CallbackTypes DEF AccountRows, CallbackRecords, IdentityAssumption
<1>5. row \in SessionRows
  BY <1>2, <1>3, <1>4 DEF SessionRows
<1>6. row.row = "row" /\ row.account = a /\ row.epoch = accounts[a].epoch /\ row.revoked = FALSE
      /\ row.expires = now + SessionLife /\ row.login = callback[k].login
  OBVIOUS
<1>. HIDE DEF row, a
<1>7. /\ sessions' \in [WebSessions -> SessionRows] /\ sessions'[s] = row
      /\ \A t \in WebSessions \ {s} : sessions'[t] = sessions[t]
  BY <1>1, <1>5, CallbackTypes
<1>8. Session(s)'
  BY <1>1, <1>2, <1>3, <1>6, <1>7 DEF Session, IdentityAssumption
<1>. QED
  BY <1>1, <1>6, <1>7, <1>8

LEMMA CompleteLoginKeeps ==
    ASSUME IdentityAssumption, IdentityIInv, NEW k \in Callbacks, NEW s \in WebSessions, CompleteLogin(k, s)
    PROVE  IdentityIInv'
<1>1. /\ callback[k].pc = "locked" /\ locked' = UnlockAccounts(k) /\ callback' = [callback EXCEPT ![k] = NoCallback]
      /\ cookies' = [cookies EXCEPT ![callback[k].browser].session = s]
      /\ UNCHANGED <<now, accounts, logins>>
  BY DEF CompleteLogin, EndCallback
<1>2. /\ sessions' \in [WebSessions -> SessionRows] /\ sessions[s].row = "none"
      /\ sessions'[s].row = "row" /\ sessions'[s].login = callback[k].login
      /\ \A t \in WebSessions \ {s} : sessions'[t] = sessions[t]
  BY CompletedSession
<1>3. /\ callback' \in [Callbacks -> CallbackRecords] /\ callback'[k] = NoCallback
      /\ \A j \in Callbacks \ {k} : callback'[j] = callback[j]
  BY <1>1, CallbackTypes
<1>4. NoCallback.pc = "idle" /\ NoCallback.old = Unset
  BY DEF NoCallback
<1>5. /\ cookies' \in [Browsers -> CookieRows]
      /\ \A b \in Browsers : cookies'[b].login = cookies[b].login /\ cookies'[b].session \in {cookies[b].session, s}
  BY <1>1, CookieUpdates
<1>6. /\ locked' \in [Accounts -> Callbacks \cup ServerRequests \cup {Unset}]
      /\ \A a \in Accounts : locked[a] # k => locked'[a] = locked[a]
  BY <1>1, CallbackTypes DEF UnlockAccounts
<1>7. IdentityTypeOK'
  BY <1>1, <1>2, <1>3, <1>5, <1>6 DEF IdentityIInv, IdentityTypeOK, CallbackRecords, SessionRows, CookieRows
<1>8. LoginInv'
  <2>1. \A j \in Callbacks : Proceeding(j)' => j # k /\ Proceeding(j) /\ callback'[j] = callback[j]
    BY <1>3, <1>4 DEF Proceeding
  <2>2. \A j \in Callbacks : callback'[j].pc = "arrived" => callback'[j] = callback[j]
    BY <1>3, <1>4
  <2>3. Proceeding(k) /\ Spent(callback[k].login)
    BY <1>1 DEF Proceeding, IdentityIInv, LoginInv
  <2>4. \A t \in WebSessions : sessions[t].login # callback[k].login
    BY <2>3 DEF IdentityIInv, LoginInv
  <2>5. \A j \in Callbacks \ {k} : Proceeding(j) => callback[j].login # callback[k].login
    BY <2>3 DEF IdentityIInv, LoginInv
  <2>6. \A t \in WebSessions : \/ t = s /\ sessions'[t].login = callback[k].login /\ sessions'[t].row = "row"
                               \/ t # s /\ sessions'[t] = sessions[t]
    BY <1>2
  <2>7. OneSessionPerLogin'
    BY <2>4, <2>6 DEF IdentityIInv, LoginInv, OneSessionPerLogin
  <2>8. \A t \in WebSessions, j \in Callbacks : Proceeding(j)' => sessions'[t].login # callback'[j].login
    BY <2>1, <2>5, <2>6 DEF IdentityIInv, LoginInv
  <2>9. \A t \in WebSessions : /\ sessions'[t].row = "none" => sessions'[t].login = Unset
                               /\ sessions'[t].login # Unset => Spent(sessions'[t].login)
    BY <2>3, <2>6 DEF IdentityIInv, LoginInv
  <2>. QED
    BY <1>1, <1>5, <2>1, <2>2, <2>7, <2>8, <2>9 DEF IdentityIInv, LoginInv, Spent
<1>9. AccountInv'
  BY <1>1, <1>3, <1>4, <1>6 DEF IdentityIInv, AccountInv
<1>10. OldInv'
  <2>1. \A t \in WebSessions : /\ sessions[t].row # "none" => sessions'[t].row # "none"
                               /\ Ended(t) => Ended(t)'
    BY <1>2 DEF Ended
  <2>2. \A j \in Callbacks : callback[j].old \in WebSessions \cup {Unset}
    BY CallbackTypes DEF CallbackRecords
  <2>3. \A b \in Browsers : cookies[b].session \in WebSessions \cup {Unset}
    BY CallbackTypes DEF CookieRows
  <2>4. \A j \in Callbacks : callback'[j].old # Unset => j # k /\ callback'[j] = callback[j]
    BY <1>3, <1>4
  <2>5. \A j \in Callbacks : callback'[j].old # Unset => sessions'[callback'[j].old].row # "none"
    BY <2>1, <2>2, <2>4 DEF IdentityIInv, OldInv
  <2>6. \A b \in Browsers : cookies'[b].session # Unset => sessions'[cookies'[b].session].row # "none"
    BY <1>2, <1>5, <2>1, <2>3 DEF IdentityIInv, OldInv
  <2>7. ASSUME NEW j \in Callbacks, callback'[j].pc \in {"revoked", "locked"}, callback'[j].old # Unset
        PROVE  Ended(callback[j].old)'
    <3>1. callback'[j] = callback[j] /\ callback[j].old \in WebSessions /\ Ended(callback[j].old)
      BY <2>2, <2>4, <2>7 DEF IdentityIInv, OldInv
    <3>. QED
      BY <2>1, <3>1 DEF Ended
  <2>. QED
    BY <2>5, <2>6, <2>7 DEF OldInv, Ended
<1>. QED
  BY <1>7, <1>8, <1>9, <1>10 DEF IdentityIInv

LEMMA OthersKeep ==
    ASSUME IdentityAssumption, IdentityIInv, Outside
    PROVE  IdentityIInv'
<1>1. CASE /\ UNCHANGED <<now, accounts, logins, sessions, callback>>
           /\ locked' \in [Accounts -> Callbacks \cup ServerRequests \cup {Unset}]
           /\ \A a \in Accounts : locked[a] \in Callbacks \/ locked'[a] \in Callbacks => locked'[a] = locked[a]
           /\ cookies' \in [Browsers -> CookieRows]
           /\ \A b \in Browsers : cookies'[b].login = cookies[b].login /\ cookies'[b].session = cookies[b].session
  <2>1. IdentityTypeOK'
    BY <1>1 DEF IdentityIInv, IdentityTypeOK, CookieRows
  <2>2. LoginInv' /\ OldInv'
    BY <1>1 DEF IdentityIInv, LoginInv, OldInv, Proceeding, Spent, Ended, OneSessionPerLogin
  <2>3. AccountInv'
    BY <1>1 DEF IdentityIInv, AccountInv
  <2>. QED
    BY <2>1, <2>2, <2>3 DEF IdentityIInv
<1>2. CASE /\ UNCHANGED <<now, accounts, logins, sessions, cookies>>
           /\ callback' = [k \in Callbacks |-> NoCallback] /\ locked' = [a \in Accounts |-> Unset]
  <2>1. \A k \in Callbacks : callback'[k].pc = "idle" /\ callback'[k].old = Unset
    BY <1>2 DEF NoCallback
  <2>2. IdentityTypeOK'
    BY <1>2 DEF IdentityIInv, IdentityTypeOK, NoCallback
  <2>3. LoginInv'
    BY <1>2, <2>1 DEF IdentityIInv, LoginInv, Proceeding, Spent, OneSessionPerLogin
  <2>4. AccountInv' /\ OldInv'
    BY <1>2, <2>1 DEF IdentityIInv, AccountInv, OldInv
  <2>. QED
    BY <2>2, <2>3, <2>4 DEF IdentityIInv
<1>. QED
  BY <1>1, <1>2, BeginLoginKeeps DEF Outside, CookieRows

LEMMA CallbackStepKeeps ==
    ASSUME IdentityAssumption, IdentityIInv, NEW k \in Callbacks, CallbackStep(k)
    PROVE  IdentityIInv'
<1>1. CASE AbandonCallback(k)
  BY <1>1, EndKeeps DEF AbandonCallback, EndCallback
<1>. QED
  BY <1>1, ConsumeLoginKeeps, VerifyProfileKeeps, RevokeOldSessionKeeps, LockUserAccountKeeps, CompleteLoginKeeps
     DEF CallbackStep

LEMMA SharedNextKeeps ==
    ASSUME IdentityAssumption, IdentityIInv, [SharedNext]_identityVars
    PROVE  IdentityIInv'
<1>1. CASE UNCHANGED identityVars
  BY <1>1 DEF identityVars, IdentityIInv, IdentityTypeOK, LoginInv, AccountInv, OldInv, Proceeding, Spent, Ended,
              OneSessionPerLogin
<1>2. CASE IdentityNext
  BY <1>2, TickKeeps, BeginLoginKeeps, ArriveKeeps, CallbackStepKeeps, LogoutKeeps, BlockKeeps,
     DeleteLoginsKeeps, DeleteSessionsKeeps DEF IdentityNext
<1>. QED
  BY <1>1, <1>2, OthersKeep DEF SharedNext

LEMMA SharedInit ==
    ASSUME IdentityAssumption, IdentityInit
    PROVE  IdentityIInv
<1>1. IdentityTypeOK
  BY DEF IdentityInit, IdentityTypeOK, IdentityAssumption, LifeAssumption, NoLogin, NoSession, NoCallback
<1>2. LoginInv
  BY DEF IdentityInit, LoginInv, Proceeding, NoSession, NoCallback, OneSessionPerLogin
<1>3. AccountInv /\ OldInv
  BY DEF IdentityInit, AccountInv, OldInv, NoCallback
<1>. QED
  BY <1>1, <1>2, <1>3 DEF IdentityIInv

\* Every reachable state of logins that share their rows with other requests.
THEOREM IdentityInvariance ==
    ASSUME IdentityAssumption
    PROVE  SharedSpec => []IdentityIInv
<1>1. IdentityInit => IdentityIInv
  BY SharedInit
<1>2. IdentityIInv /\ [SharedNext]_identityVars => IdentityIInv'
  BY SharedNextKeeps
<1>. QED
  BY <1>1, <1>2, PTL DEF SharedSpec

-----------------------------------------------------------------------------
\* Only a completed login makes a session, and what has ended stays ended.
LEMMA SessionSteps ==
    ASSUME IdentityAssumption, IdentityIInv, [SharedNext]_identityVars
    PROVE  NoSessionPastBlockStep /\ \A s \in WebSessions : Ended(s) => Ended(s)'
<1>1. CASE sessions' = sessions
  BY <1>1 DEF NoSessionPastBlockStep, Ended
<1>2. ASSUME NEW s \in WebSessions \cup {Unset}, sessions' = RevokeWebSession(s)
      PROVE  NoSessionPastBlockStep /\ \A t \in WebSessions : Ended(t) => Ended(t)'
  BY <1>2, RevokeEnds DEF NoSessionPastBlockStep, Ended
<1>3. ASSUME NEW k \in Callbacks, CallbackStep(k)
      PROVE  NoSessionPastBlockStep /\ \A t \in WebSessions : Ended(t) => Ended(t)'
  <2>1. CASE RevokeOldSession(k)
    BY <1>2, <2>1, CallbackTypes DEF RevokeOldSession, CallbackRecords
  <2>2. ASSUME NEW s \in WebSessions, CompleteLogin(k, s)
        PROVE  NoSessionPastBlockStep /\ \A t \in WebSessions : Ended(t) => Ended(t)'
    BY <2>2, CompletedSession DEF NoSessionPastBlockStep, Ended
  <2>. QED
    BY <1>1, <1>3, <2>1, <2>2
       DEF CallbackStep, ConsumeLogin, VerifyProfile, LockUserAccount, AbandonCallback
<1>4. ASSUME NEW b \in Browsers, Logout(b)
      PROVE  NoSessionPastBlockStep /\ \A t \in WebSessions : Ended(t) => Ended(t)'
  <2>1. cookies[b].session \in WebSessions \cup {Unset}
    BY DEF IdentityIInv, IdentityTypeOK
  <2>. QED
    BY <1>2, <1>4, <2>1 DEF Logout
<1>5. ASSUME NEW a \in Accounts, Block(a)
      PROVE  NoSessionPastBlockStep /\ \A t \in WebSessions : Ended(t) => Ended(t)'
  <2>1. \A t \in WebSessions : /\ sessions'[t].row = sessions[t].row
                               /\ sessions[t].revoked => sessions'[t].revoked
    <3>1. sessions \in [WebSessions -> SessionRows]
      BY DEF IdentityIInv, IdentityTypeOK, SessionRows
    <3>. QED
      BY <1>5, <3>1 DEF Block, RevokedSessionsOf, SessionRows
  <2>. QED
    BY <2>1 DEF NoSessionPastBlockStep, Ended
<1>6. ASSUME DeleteExpiredWebSessions
      PROVE  NoSessionPastBlockStep /\ \A t \in WebSessions : Ended(t) => Ended(t)'
  <2>1. PICK D \in SUBSET ExpiredSessions : sessions' = WithoutSessions(D)
    BY <1>6 DEF DeleteExpiredWebSessions
  <2>2. \A t \in WebSessions : /\ sessions'[t].row = IF t \in D THEN "deleted" ELSE sessions[t].row
                               /\ sessions'[t].revoked = sessions[t].revoked
    <3>1. sessions \in [WebSessions -> SessionRows]
      BY DEF IdentityIInv, IdentityTypeOK, SessionRows
    <3>. QED
      BY <2>1, <3>1 DEF WithoutSessions, SessionRows
  <2>. QED
    BY <2>2 DEF NoSessionPastBlockStep, Ended
<1>. QED
  BY <1>1, <1>3, <1>4, <1>5, <1>6
     DEF SharedNext, Outside, IdentityNext, identityVars, Tick, BeginLogin, Arrive, Unblock, DeleteExpiredLoginTransactions

\* Whatever the steps of the callbacks, the operator's blocks, the cleanup and the requests
\* of the authorization server interleave to, a login makes one session, only an account that
\* is active makes one, and a replaced session is never accepted again.
THEOREM LoginsSafe ==
    ASSUME IdentityAssumption
    PROVE  SharedSpec => []OneSessionPerLogin /\ NoSessionPastBlock /\ ReplacedSessionEnds
<1>1. IdentityIInv => OneSessionPerLogin
  BY DEF IdentityIInv, LoginInv
<1>2. IdentityIInv /\ [SharedNext]_identityVars => NoSessionPastBlockStep
  BY SessionSteps
<1>3. ASSUME IdentityIInv, [SharedNext]_identityVars PROVE ReplacedSessionStep
  <2>. SUFFICES ASSUME NEW k \in Callbacks, NEW s \in WebSessions, callback[k].pc = "locked", callback[k].old = s
                PROVE  ~Session(s)'
    BY DEF ReplacedSessionStep
  <2>1. Ended(s)
    BY <1>3 DEF IdentityIInv, OldInv, IdentityAssumption
  <2>2. Ended(s)'
    BY <1>3, <2>1, SessionSteps
  <2>. QED
    BY <2>2 DEF Ended, Session
<1>. QED
  BY <1>1, <1>2, <1>3, IdentityInvariance, PTL DEF SharedSpec, NoSessionPastBlock, ReplacedSessionEnds

-----------------------------------------------------------------------------
\* A step that leaves the rows of logins alone and touches locks and handles of requests only.
LEMMA LocksAndHandles ==
    ASSUME IdentityAssumption, IdentityTypeOK, UNCHANGED <<now, accounts, logins, sessions, callback>>,
           \/ UNCHANGED locked
           \/ \E o \in ServerRequests : \E a : locked[a] = Unset /\ locked' = [locked EXCEPT ![a] = o]
           \/ \E o \in ServerRequests : locked' = UnlockAccounts(o),
           cookies' \in [Browsers -> CookieRows],
           \A b \in Browsers : cookies'[b].login = cookies[b].login /\ cookies'[b].session = cookies[b].session
    PROVE  Outside
<1>1. locked \in [Accounts -> Callbacks \cup ServerRequests \cup {Unset}]
  BY DEF IdentityTypeOK
<1>2. ASSUME NEW o \in ServerRequests, NEW a, locked[a] = Unset, locked' = [locked EXCEPT ![a] = o]
      PROVE  /\ locked' \in [Accounts -> Callbacks \cup ServerRequests \cup {Unset}]
             /\ \A c \in Accounts : locked[c] \in Callbacks \/ locked'[c] \in Callbacks => locked'[c] = locked[c]
  BY <1>1, <1>2 DEF IdentityAssumption
<1>3. ASSUME NEW o \in ServerRequests, locked' = UnlockAccounts(o)
      PROVE  /\ locked' \in [Accounts -> Callbacks \cup ServerRequests \cup {Unset}]
             /\ \A c \in Accounts : locked[c] \in Callbacks \/ locked'[c] \in Callbacks => locked'[c] = locked[c]
  BY <1>1, <1>3 DEF IdentityAssumption, UnlockAccounts
<1>. QED
  BY <1>1, <1>2, <1>3 DEF Outside, CookieRows

\* Every step of the server is one of a login, of the operator or of cleanup, or is outside of them.
LEMMA ServerStep ==
    ASSUME IdentityAssumption, IdentityTypeOK, [OAuthNext]_serverVars
    PROVE  [SharedNext]_identityVars
<1>1. cookies \in [Browsers -> CookieRows]
  BY DEF IdentityTypeOK, CookieRows
<1>2. CASE Login
  BY <1>2 DEF Login, SharedNext, IdentityNext
<1>3. ASSUME NEW b \in Browsers, NEW l \in Logins, StartLogin(b, l) PROVE SharedNext
  <2>1. cookies[b].handle \in Handles \cup {Unset}
    BY <1>1 DEF CookieRows
  <2>. QED
    BY <1>3, <2>1 DEF StartLogin, SharedNext, IdentityNext, Outside
<1>4. ASSUME NEW b \in Browsers, NEW h \in Handles, NEW c \in Clients, CreatePendingConsent(b, h, c) PROVE SharedNext
  <2>1. /\ [cookies[b] EXCEPT !.handle = h] \in CookieRows
        /\ [cookies[b] EXCEPT !.handle = h].login = cookies[b].login
        /\ [cookies[b] EXCEPT !.handle = h].session = cookies[b].session
    BY <1>1 DEF CookieRows
  <2>2. /\ cookies' = [cookies EXCEPT ![b] = [cookies[b] EXCEPT !.handle = h]]
        /\ UNCHANGED <<now, accounts, logins, sessions, callback, locked>>
    BY <1>1, <1>4 DEF CreatePendingConsent
  <2>3. /\ cookies' \in [Browsers -> CookieRows]
        /\ \A d \in Browsers : cookies'[d].login = cookies[d].login /\ cookies'[d].session = cookies[d].session
    BY <1>1, <2>1, <2>2
  <2>. QED
    BY <2>2, <2>3, LocksAndHandles DEF SharedNext
<1>5. ASSUME NEW o \in ServerRequests, Begin(o) \/ LockCredential(o) PROVE SharedNext
  <2>1. /\ \/ UNCHANGED locked
           \/ \E a : locked[a] = Unset /\ locked' = [locked EXCEPT ![a] = o]
        /\ UNCHANGED <<now, accounts, logins, sessions, cookies, callback>>
    BY <1>5 DEF Begin, LockCredential
  <2>. QED
    BY <1>1, <2>1, LocksAndHandles DEF SharedNext
<1>6. ASSUME NEW o \in ServerRequests, Finish(o) PROVE SharedNext
  <2>1. /\ locked' = UnlockAccounts(o) /\ UNCHANGED <<now, accounts, logins, sessions, callback>>
        /\ \E S \in SUBSET Browsers :
              cookies' = [b \in Browsers |-> IF b \in S THEN [cookies[b] EXCEPT !.handle = Unset] ELSE cookies[b]]
    <3>1. PICK committed \in BOOLEAN :
            cookies' = [b \in Browsers |->
               IF op[o].purpose = "authorize" /\ committed /\ cookies[b].handle = op[o].handle
               THEN [cookies[b] EXCEPT !.handle = Unset] ELSE cookies[b]]
      BY <1>6 DEF Finish
    <3>. DEFINE S == {b \in Browsers : op[o].purpose = "authorize" /\ committed /\ cookies[b].handle = op[o].handle}
    <3>2. cookies' = [b \in Browsers |-> IF b \in S THEN [cookies[b] EXCEPT !.handle = Unset] ELSE cookies[b]]
      BY <3>1
    <3>. QED
      BY <1>6, <3>2 DEF Finish
  <2>2. PICK S \in SUBSET Browsers :
          cookies' = [b \in Browsers |-> IF b \in S THEN [cookies[b] EXCEPT !.handle = Unset] ELSE cookies[b]]
    BY <2>1
  <2>3. \A b \in Browsers : /\ [cookies[b] EXCEPT !.handle = Unset] \in CookieRows
                            /\ [cookies[b] EXCEPT !.handle = Unset].login = cookies[b].login
                            /\ [cookies[b] EXCEPT !.handle = Unset].session = cookies[b].session
    BY <1>1 DEF CookieRows
  <2>4. /\ cookies' \in [Browsers -> CookieRows]
        /\ \A d \in Browsers : cookies'[d].login = cookies[d].login /\ cookies'[d].session = cookies[d].session
    BY <1>1, <2>2, <2>3
  <2>. QED
    BY <2>1, <2>4, LocksAndHandles DEF SharedNext
<1>7. CASE DeleteExpiredSessionsAndConsents
  <2>1. PICK D \in (SUBSET {s \in ExpiredSessions : SessionRowFree(s)}) \ {{}} : sessions' = WithoutSessions(D)
    BY <1>7 DEF DeleteExpiredSessionsAndConsents
  <2>2. D \in (SUBSET ExpiredSessions) \ {{}}
    BY <2>1
  <2>. QED
    BY <1>7, <2>1, <2>2 DEF DeleteExpiredSessionsAndConsents, DeleteExpiredWebSessions, SharedNext, IdentityNext
<1>8. CASE Restart
  BY <1>8 DEF Restart, SharedNext, Outside
<1>9. ASSUME NEW a \in Accounts, BlockAccount(a) PROVE SharedNext
  BY <1>9 DEF BlockAccount, SharedNext, IdentityNext
<1>10. ASSUME NEW o \in ServerRequests, Transact(o), ~Begin(o), ~LockCredential(o), ~Finish(o)
       PROVE  UNCHANGED identityVars
  BY <1>10 DEF Transact, ConsumePendingConsent, CreatePKCERequestSession, CreateAuthorizeCodeSession,
               DeletePKCERequestSession, InvalidateAuthorizeCodeSession, RotateRefreshToken,
               CreateAccessTokenSession, CreateRefreshTokenSession, RevokeGrant, StorageFault, Own
<1>11. ASSUME NEW o \in ServerRequests, NEW x \in handed,
              (\E c \in Clients : HandleToken(o, c, x[1], x[2]) \/ HandleRevoke(o, c, x[1], x[2])) \/ Protect(o, x[1], x[2])
       PROVE  UNCHANGED identityVars
  BY <1>11 DEF HandleToken, HandleRevoke, Protect, Present
<1>12. CASE \/ \E b \in Browsers : BindPendingConsent(b)
            \/ \E o \in ServerRequests, b \in Browsers, wish \in {"approve", "deny"} : StartDecision(o, b, wish)
            \/ DeleteExpiredPendingConsents \/ ListExpiredOAuthGrantCandidates
            \/ \E g \in Grants : DeleteGrantFamily(g)
  BY <1>12 DEF BindPendingConsent, StartDecision, DeleteExpiredPendingConsents, ListExpiredOAuthGrantCandidates,
               DeleteGrantFamily
<1>13. CASE UNCHANGED serverVars
  BY <1>13 DEF serverVars
<1>14. ASSUME NEW o \in ServerRequests, Transact(o) PROVE SharedNext \/ UNCHANGED identityVars
  BY <1>5, <1>6, <1>10, <1>14
<1>15. CASE OAuthNext
  <2>1. CASE \/ Login /\ UNCHANGED oauthVars
             \/ \E b \in Browsers, l \in Logins : StartLogin(b, l)
             \/ \E b \in Browsers, h \in Handles, c \in Clients : CreatePendingConsent(b, h, c)
             \/ \E o \in ServerRequests : Transact(o)
             \/ \E a \in Accounts : BlockAccount(a)
             \/ DeleteExpiredSessionsAndConsents
             \/ Restart
    BY <1>2, <1>3, <1>4, <1>7, <1>8, <1>9, <1>14, <2>1
  <2>2. CASE \E o \in ServerRequests, x \in handed :
                /\ fam[x[1]].row = "row"
                /\ \/ \E c \in Clients : HandleToken(o, c, x[1], x[2]) \/ HandleRevoke(o, c, x[1], x[2])
                   \/ Protect(o, x[1], x[2])
    BY <1>11, <2>2
  <2>. QED
    BY <1>12, <1>15, <2>1, <2>2 DEF OAuthNext
<1>. QED
  BY <1>13, <1>15

\* The logins below an authorization server, with its requests, restarts and blocks: a login
\* makes one session, only an active account gets one and a replaced one is not accepted again.
THEOREM ServerLoginsSafe ==
    ASSUME IdentityAssumption
    PROVE  OAuthSpec => []OneSessionPerLogin /\ NoSessionPastBlock /\ ReplacedSessionEnds
<1>1. IdentityIInv /\ [OAuthNext]_serverVars => [SharedNext]_identityVars
  BY ServerStep DEF IdentityIInv
<1>2. IdentityIInv /\ [SharedNext]_identityVars => IdentityIInv'
  BY SharedNextKeeps
<1>3. OAuthInit => IdentityInit /\ IdentityIInv
  BY SharedInit DEF OAuthInit
<1>4. OAuthSpec => SharedSpec
  BY <1>1, <1>2, <1>3, PTL DEF OAuthSpec, SharedSpec
<1>. QED
  BY <1>4, LoginsSafe
=============================================================================
