----------------------------- MODULE EmbedShard -----------------------------
(***************************************************************************)
(* One bounded embedding shard of the batch pipeline                       *)
(* (pkg/pipeline/embed_all.go): the snapshot that selects chunks within    *)
(* the item and byte limits, the cache pass, the partitions sent to a pool *)
(* of provider jobs, the vectors that are written as they arrive, and the  *)
(* owner that returns at the deadline while its goroutines wind down.      *)
(* Index may replace a document's chunks at any time.  A text is its hash  *)
(* and the vector of a text is that hash.                                  *)
(***************************************************************************)
EXTENDS Integers, Sequences, FiniteSets, SequencesExt, FiniteSetsExt

CONSTANTS
  Ids,            \* chunk ids, 1..n
  First,          \* the chunks there are at first: a function from ids to texts
  Again,          \* the text a chunk has when Index writes it again
  NoText,
  Bytes,          \* the size of each text
  Engine,         \* "kaggle" or "sagemaker"
  Limit, MaxInputBytes, MaxPartition, MaxPartitionBytes, Parallel,
  MaxFaults, MaxReindex

LimitsAssumption == {Limit, MaxInputBytes, MaxPartition, MaxPartitionBytes, Parallel} \subseteq Nat \ {0}

VARIABLES
  text,     \* gold.chunk: the text of each chunk, NoText for an id not in use
  vector,   \* gold.chunk_embedding: the vector of each chunk, or NoText
  cache,    \* ingest.embedding_cache: text hash to vector
  owner,    \* EmbedAll: pc, cursors and the report
  shard,    \* the producer goroutine: page, misses, parts
  job,      \* one provider job per partition
  ended,    \* the contexts: the deadline has passed, the group is cancelled
  faults, reindexed

vars == <<text, vector, cache, owner, shard, job, ended, faults, reindexed>>

kernelLimit == IF Engine = "kaggle" THEN Min({Parallel, 2}) ELSE 1
Texts == {First[i] : i \in DOMAIN First} \cup {Again[i] : i \in DOMAIN Again}

IdleOwner == [pc |-> "idle", after |-> 0, cursor |-> 0, complete |-> FALSE, rejected |-> 0, written |-> 0, err |-> FALSE]
IdleShard == [pc |-> "off", page |-> <<>>, hits |-> {}, k |-> 1, misses |-> <<>>, parts |-> <<>>, failed |-> FALSE]
NotEnded == [deadline |-> FALSE, group |-> FALSE]

Init ==
  /\ text = [i \in Ids |-> IF i \in DOMAIN First THEN First[i] ELSE NoText]
  /\ vector = [i \in Ids |-> NoText]
  /\ cache = [h \in {} |-> NoText]
  /\ owner = IdleOwner
  /\ shard = IdleShard
  /\ job = <<>>
  /\ ended = NotEnded
  /\ faults = 0 /\ reindexed = 0

Fault == faults < MaxFaults /\ faults' = faults + 1
(* Work under a cancelled context may fail; any other failure is one of the bounded faults. *)
MayFail == IF ended.group THEN UNCHANGED faults ELSE Fault

-----------------------------------------------------------------------------
(* loadChunkPageForEmbed *)

\* embedChunkPageQuery: the chunks above the cursor that have no vector, and their sizes.
embedChunkPageQuery(after) ==
  SetToSortSeq({i \in Ids : i > after /\ text[i] # NoText /\ vector[i] = NoText}, <)

\* One chunk of the metadata page: taken, rejected for its own size, or the end of the page.
Meta(acc, i) ==
  LET b == Bytes[text[i]]
  IN  IF ~acc.open THEN acc
      ELSE IF b <= 0 \/ b > MaxPartitionBytes \/ b > MaxInputBytes
           THEN [acc EXCEPT !.rejected = @ + 1, !.cursor = i]
           ELSE IF b > MaxInputBytes - acc.bytes
                THEN [acc EXCEPT !.open = FALSE]
                ELSE [acc EXCEPT !.bytes = @ + b, !.ids = Append(@, i), !.cursor = i]

loadChunkPageForEmbed(after) ==
  LET all  == embedChunkPageQuery(after)
      meta == SubSeq(all, 1, Min({Limit, Len(all)}))
      acc  == FoldLeft(Meta, [ids |-> <<>>, bytes |-> 0, rejected |-> 0, cursor |-> after, open |-> TRUE], meta)
  IN  [page |-> [n \in DOMAIN acc.ids |-> [id |-> acc.ids[n], hash |-> text[acc.ids[n]]]],
       rejected |-> acc.rejected, cursor |-> acc.cursor, complete |-> acc.open /\ Len(all) <= Limit]

\* The producer goroutine's first step; a failed load leaves the result empty.
Produce ==
  /\ owner.pc = "run" /\ shard.pc = "load"
  /\ \/ /\ MayFail
        /\ shard' = [shard EXCEPT !.pc = "wait", !.failed = TRUE]
        /\ ended' = [ended EXCEPT !.group = TRUE]
        /\ UNCHANGED owner
     \/ /\ ~ended.group /\ UNCHANGED <<faults, ended>>
        /\ LET got == loadChunkPageForEmbed(owner.after)
           IN  /\ owner' = [owner EXCEPT !.cursor = got.cursor, !.complete = got.complete, !.rejected = got.rejected]
               /\ shard' = [shard EXCEPT !.page = got.page,
                                         !.pc = IF got.page = <<>> THEN "wait"
                                                ELSE IF Engine = "kaggle" THEN "lookup" ELSE "submit",
                                         !.parts = IF Engine = "kaggle" \/ got.page = <<>> THEN <<>> ELSE <<got.page>>]
  /\ UNCHANGED <<text, vector, cache, job, reindexed>>

-----------------------------------------------------------------------------
(* The writes. *)

\* The foreign key: a vector of a chunk that is gone is refused.
UpsertChunkEmbedding(id, v) == text[id] # NoText /\ vector' = [vector EXCEPT ![id] = v]
UpsertEmbeddingCache(hash, v) == cache' = IF hash \in DOMAIN cache THEN cache ELSE (hash :> v) @@ cache

LookupEmbeddingCache ==
  /\ shard.pc = "lookup"
  /\ shard' = [shard EXCEPT !.pc = "cached", !.hits = {e.hash : e \in ToSet(shard.page)} \cap DOMAIN cache]
  /\ UNCHANGED <<text, vector, cache, owner, job, ended, faults, reindexed>>

ProduceFails ==
  /\ shard' = [shard EXCEPT !.pc = "wait", !.failed = TRUE]
  /\ ended' = [ended EXCEPT !.group = TRUE]

\* A cached vector is written, a miss is kept for the providers.
CachedChunk ==
  /\ shard.pc = "cached" /\ shard.k <= Len(shard.page)
  /\ LET e == shard.page[shard.k] IN
     \/ /\ e.hash \notin shard.hits
        /\ shard' = [shard EXCEPT !.k = @ + 1, !.misses = Append(@, e)]
        /\ UNCHANGED <<vector, owner, ended, faults>>
     \/ /\ e.hash \in shard.hits
        /\ UpsertChunkEmbedding(e.id, cache[e.hash])
        /\ shard' = [shard EXCEPT !.k = @ + 1]
        /\ owner' = IF owner.pc = "run" THEN [owner EXCEPT !.written = @ + 1] ELSE owner
        /\ UNCHANGED <<ended, faults>>
     \/ /\ e.hash \in shard.hits
        /\ IF text[e.id] = NoText THEN UNCHANGED faults ELSE MayFail
        /\ ProduceFails
        /\ UNCHANGED <<vector, owner>>
  /\ UNCHANGED <<text, cache, job, reindexed>>

\* partitionChunkEntries: consecutive misses, each part within both limits.
PartBytes(p) == FoldLeft(LAMBDA acc, e : acc + Bytes[e.hash], 0, p)
partitionChunkEntries(misses) ==
  FoldLeft(LAMBDA parts, e :
             IF parts # <<>> /\ Len(Last(parts)) < MaxPartition
                /\ Bytes[e.hash] <= MaxPartitionBytes - PartBytes(Last(parts))
             THEN Front(parts) \o <<Append(Last(parts), e)>>
             ELSE Append(parts, <<e>>),
           <<>>, misses)
Partition ==
  /\ shard.pc = "cached" /\ shard.k > Len(shard.page)
  /\ shard' = [shard EXCEPT !.pc = "submit", !.parts = partitionChunkEntries(shard.misses)]
  /\ UNCHANGED <<text, vector, cache, owner, job, ended, faults, reindexed>>

-----------------------------------------------------------------------------
(* The pool: g.Go blocks the producer while the limit is reached. *)

running == {p \in DOMAIN job : job[p].pc \in {"run", "cache"}}
NewJob == [pc |-> "run", seen |-> {}, at |-> 0]

Submit ==
  /\ shard.pc = "submit" /\ Len(job) < Len(shard.parts)
  /\ Cardinality(running) < kernelLimit
  /\ job' = Append(job, NewJob)
  /\ UNCHANGED <<text, vector, cache, owner, shard, ended, faults, reindexed>>
AllSubmitted ==
  /\ shard.pc = "submit" /\ Len(job) = Len(shard.parts)
  /\ shard' = [shard EXCEPT !.pc = "wait"]
  /\ UNCHANGED <<text, vector, cache, owner, job, ended, faults, reindexed>>

Finish(p, how) == job' = [job EXCEPT ![p].pc = how]
JobFails(p) == Finish(p, "err") /\ ended' = [ended EXCEPT !.group = TRUE]

MOnVectorTwice(p) ==
  /\ job[p].pc = "run"
  /\ \E n \in DOMAIN shard.parts[p] :
       LET e == shard.parts[p][n] IN
       \/ /\ UpsertChunkEmbedding(e.id, e.hash)
          /\ job' = [job EXCEPT ![p].seen = @ \cup {n}, ![p].at = n,
                                ![p].pc = IF Engine = "kaggle" THEN "cache" ELSE "run"]
          /\ owner' = IF Engine = "sagemaker" /\ owner.pc = "run" THEN [owner EXCEPT !.written = @ + 1] ELSE owner
          /\ UNCHANGED <<ended, faults>>
       \/ /\ IF text[e.id] = NoText THEN UNCHANGED faults ELSE MayFail
          /\ JobFails(p)
          /\ UNCHANGED <<vector, owner>>
  /\ UNCHANGED <<text, cache, shard, reindexed>>

\* The row of index n arrives; the callback writes the vector of the n-th text of its part.
OnVector(p) ==
  /\ job[p].pc = "run"
  /\ \E n \in DOMAIN shard.parts[p] \ job[p].seen :
       LET e == shard.parts[p][n] IN
       \/ /\ UpsertChunkEmbedding(e.id, e.hash)
          /\ job' = [job EXCEPT ![p].seen = @ \cup {n}, ![p].at = n,
                                ![p].pc = IF Engine = "kaggle" THEN "cache" ELSE "run"]
          /\ owner' = IF Engine = "sagemaker" /\ owner.pc = "run" THEN [owner EXCEPT !.written = @ + 1] ELSE owner
          /\ UNCHANGED <<ended, faults>>
       \/ /\ IF text[e.id] = NoText THEN UNCHANGED faults ELSE MayFail
          /\ JobFails(p)
          /\ UNCHANGED <<vector, owner>>
  /\ UNCHANGED <<text, cache, shard, reindexed>>
\* The second write of the callback; the chunk is counted only when both are done.
CacheVector(p) ==
  /\ job[p].pc = "cache"
  /\ LET hash == shard.parts[p][job[p].at].hash IN
     \/ /\ UpsertEmbeddingCache(hash, hash)
        /\ owner' = IF owner.pc = "run" THEN [owner EXCEPT !.written = @ + 1] ELSE owner
        /\ Finish(p, "run")
        /\ UNCHANGED <<ended, faults>>
     \/ MayFail /\ JobFails(p) /\ UNCHANGED <<cache, owner>>
  /\ UNCHANGED <<text, vector, shard, reindexed>>

\* streamParseVectors at the end of the output: every index was there, once.
OutputEnds(p) ==
  /\ job[p].pc = "run"
  /\ \/ job[p].seen = DOMAIN shard.parts[p] /\ Finish(p, "ok") /\ UNCHANGED <<ended, faults>>
     \/ MayFail /\ JobFails(p)
  /\ UNCHANGED <<text, vector, cache, owner, shard, reindexed>>
JobStep(p) == OnVector(p) \/ CacheVector(p) \/ OutputEnds(p)

-----------------------------------------------------------------------------
(* The owner. *)

EmbedAll ==
  /\ owner.pc = "idle"
  /\ owner' = [owner EXCEPT !.pc = "run"]
  /\ shard' = [IdleShard EXCEPT !.pc = "load"]
  /\ job' = <<>> /\ ended' = NotEnded
  /\ UNCHANGED <<text, vector, cache, faults, reindexed>>

groupDone == shard.pc = "wait" /\ running = {}
groupErr == shard.failed \/ \E p \in DOMAIN job : job[p].pc = "err"

\* The select of the owner: the goroutines are done, or the deadline has passed.
Return ==
  /\ owner.pc = "run"
  /\ \/ groupDone /\ owner' = [owner EXCEPT !.pc = "ended", !.err = groupErr \/ ended.deadline]
     \/ ended.deadline /\ owner' = [owner EXCEPT !.pc = "ended", !.err = TRUE]
  /\ UNCHANGED <<text, vector, cache, shard, job, ended, faults, reindexed>>

Expire ==
  /\ owner.pc = "run" /\ ~ended.deadline /\ Fault
  /\ ended' = [deadline |-> TRUE, group |-> TRUE]
  /\ UNCHANGED <<text, vector, cache, owner, shard, job, reindexed>>

\* The process is gone and the operator runs the command again: at the cursor while the
\* shard was incomplete, from the start for what failed.
Resume ==
  /\ owner.pc = "ended" /\ \E i \in Ids : text[i] # NoText /\ vector[i] = NoText
  /\ owner' = [IdleOwner EXCEPT !.after = IF owner.complete \/ owner.err THEN 0 ELSE owner.cursor]
  /\ shard' = IdleShard /\ job' = <<>> /\ ended' = NotEnded
  /\ UNCHANGED <<text, vector, cache, faults, reindexed>>

\* Index: the chunk is deleted, its vector with it, and written under a new id.
Reindex ==
  /\ reindexed < MaxReindex /\ reindexed' = reindexed + 1
  /\ \E i \in DOMAIN Again, j \in Ids :
       /\ text[i] # NoText /\ \A k \in Ids : text[k] # NoText => k < j
       /\ text' = [text EXCEPT ![i] = NoText, ![j] = Again[i]]
       /\ vector' = [vector EXCEPT ![i] = NoText]
  /\ UNCHANGED <<cache, owner, shard, job, ended, faults>>

ProducerStep == Produce \/ LookupEmbeddingCache \/ CachedChunk \/ Partition \/ Submit \/ AllSubmitted
Next ==
  \/ EmbedAll \/ ProducerStep \/ Return \/ Expire \/ Resume \/ Reindex
  \/ \E p \in DOMAIN job : JobStep(p)

Spec == Init /\ [][Next]_vars
Fairness ==
  /\ WF_vars(EmbedAll) /\ WF_vars(ProducerStep) /\ WF_vars(Return) /\ WF_vars(Resume)
  /\ \A p \in 1..Cardinality(Ids) : WF_vars(p \in DOMAIN job /\ JobStep(p))
FairSpec == Spec /\ Fairness

-----------------------------------------------------------------------------
TypeOK ==
  /\ text \in [Ids -> Texts \cup {NoText}] /\ vector \in [Ids -> Texts \cup {NoText}]
  /\ owner.pc \in {"idle", "run", "ended"} /\ owner.written \in Nat
  /\ shard.pc \in {"off", "load", "lookup", "cached", "submit", "wait"}
  /\ Len(shard.page) <= Limit /\ Len(job) <= Len(shard.parts)
  /\ faults \in 0..MaxFaults

(* A stored vector is the vector of the text its chunk has now, and a cached one that of its
   hash, although the rows of a job come back by their place in a partition, while chunks are
   replaced, and from goroutines that outlive the command. *)
VectorOfText ==
  /\ \A i \in Ids : vector[i] # NoText => vector[i] = text[i]
  /\ \A h \in DOMAIN cache : cache[h] = h

(* A command that ends with no error and no rejected chunk leaves no chunk of its page
   without a vector. *)
CleanMeansEmbedded ==
  owner.pc = "ended" /\ ~owner.err /\ owner.rejected = 0 =>
    \A n \in DOMAIN shard.page :
      LET e == shard.page[n] IN text[e.id] = NoText \/ vector[e.id] = e.hash

(* The cursor of a report leaves nothing behind: below it every chunk of the snapshot is in the
   page or was rejected for its own size, and a complete shard has seen the last chunk. *)
Fits(i) == Bytes[text[i]] \in 1..Min({MaxPartitionBytes, MaxInputBytes})
CursorHonest ==
  owner.pc = "ended" /\ shard.page # <<>> =>
    /\ \A i \in Ids : /\ text[i] # NoText /\ vector[i] = NoText /\ Fits(i)
                      /\ owner.after < i /\ i <= owner.cursor
                      => \E n \in DOMAIN shard.page : shard.page[n].id = i
    /\ owner.cursor > owner.after
    /\ owner.complete /\ reindexed = 0 =>
         \A i \in Ids : i > owner.cursor => text[i] = NoText \/ vector[i] # NoText

(* The jobs that run at one time and the text each one holds stay within their limits, and the
   partitions are the misses, in order. *)
PoolBounded ==
  /\ Cardinality(running) <= kernelLimit
  /\ \A p \in DOMAIN shard.parts : /\ Len(shard.parts[p]) \in 1..Max({MaxPartition, Limit})
                                   /\ Engine = "kaggle" => PartBytes(shard.parts[p]) <= MaxPartitionBytes
  /\ Engine = "kaggle" /\ shard.parts # <<>> => FlattenSeq(shard.parts) = shard.misses

(* The count of a report never promises more than the tables hold. *)
CountIsWritten ==
  [][owner.pc = "run" /\ owner'.pc = "ended" /\ reindexed = 0 =>
       owner.written <= Cardinality({n \in DOMAIN shard.page : vector[shard.page[n].id] # NoText})]_vars

(* Repeating the command embeds every chunk that fits a shard. *)
AllEmbedded == <>[](\A i \in Ids : text[i] # NoText /\ Fits(i) => vector[i] # NoText)
=============================================================================
