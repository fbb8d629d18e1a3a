-------------------------- MODULE HiCachePrefetch --------------------------
(***************************************************************************)
(* The host memory tier (L2) of one scheduler process and the threads that *)
(* move pages between it and the storage tier (L3).                        *)
(*                                                                         *)
(*   - the scheduler thread runs HiRadixCache: it allocates host pages,    *)
(*     starts, settles and aborts prefetches, and drains the queues the    *)
(*     other threads fill;                                                 *)
(*   - prefetch_thread asks the storage which pages of an operation it     *)
(*     has, and revokes the operation or hands it over;                    *)
(*   - prefetch_io_aux_thread copies the pages into host memory;           *)
(*   - backup_thread writes host pages to the storage.                     *)
(*                                                                         *)
(* A page of KV cache is named by the tokens of the whole prefix it ends,  *)
(* which is what the chained hash of the code stands for.  Sizes are in    *)
(* pages.  Every node of the tree is one page, and is backed up.           *)
(***************************************************************************)
EXTENDS Naturals, FiniteSets, Sequences, SequencesExt

CONSTANTS
    Req,            \* request ids
    Prompt,         \* Prompt[r]: the tokens of a request, one per page
    Arrivals,       \* the sets of requests that may arrive in a behaviour
    Traffic,        \* Traffic[r]: the keys that others insert if r does not
    HostPage,       \* the pages of mem_pool_host
    Threshold,      \* prefetch_threshold
    CapacityLimit,  \* prefetch_capacity_limit
    Policy,         \* prefetch_stop_policy
    TP,             \* tp_world_size > 1
    Retracts,       \* running requests may be retracted and queued again
    MaxOps          \* bound: prefetch operations per behaviour

ASSUME PrefetchAssumption ==
    /\ Prompt \in [Req -> Seq(Nat)]
    /\ Arrivals \subseteq SUBSET Req
    /\ Traffic \in [Req -> SUBSET (Seq(Nat) \ {<<>>})]
    /\ Threshold \in Nat \ {0}
    /\ CapacityLimit \in Nat
    /\ Policy \in {"best_effort", "wait_complete", "timeout"}
    /\ TP \in BOOLEAN
    /\ Retracts \in BOOLEAN
    /\ MaxOps \in Nat

VARIABLES
    free_slots,     \* mem_pool_host.free_slots
    mem,            \* what each host page holds: a key, or Junk
    host,           \* the tree: its keys and their host_value
    device,         \* the keys whose node also has a device value
    ack_write_queue, \* write-throughs whose GPU copy was started, in order
    backup_queue,   \* nodes (key, page) on their way to the storage
    ack_backup_queue,
    stored,         \* the storage: its keys and what it holds for them
    ops,            \* the prefetch operations ever created
    ongoing,        \* ongoing_prefetch: request -> operation, or NoOp
    prefetch_queue,
    prefetch_buffer,
    prefetch_revoke_queue,
    host_mem_release_queue,
    occupied,       \* prefetch_tokens_occupied
    status,         \* where the scheduler has each request
    pthread,        \* prefetch_thread
    iothread        \* prefetch_io_aux_thread

treeVars    == <<free_slots, mem, host, device, ack_write_queue>>
backupVars  == <<backup_queue, ack_backup_queue>>
threadVars  == <<pthread, iothread>>
queueVars   == <<prefetch_queue, prefetch_buffer, prefetch_revoke_queue>>
vars == <<treeVars, backupVars, stored, ops, ongoing, queueVars,
          host_mem_release_queue, occupied, status, threadVars>>

Junk == <<>>
NoOp == 0

(***************************************************************************)
(* Keys, the tree and the pages of an operation.                           *)
(***************************************************************************)
Tree == DOMAIN host

\* The prefixes of the prompts, which are looked up, and what is inserted.
PromptKey == UNION {Prefixes(Prompt[r]) : r \in Req} \ {<<>>}
Key == PromptKey \cup UNION Range(Traffic)

\* The key of page i of operation o: the hash chained on the last host node.
PageKey(o, i) == ops[o].node \o SubSeq(ops[o].tokens, 1, i)

\* The pages i..j of operation o.
Slice(o, i, j) == {ops[o].pages[n] : n \in i..j}

\* Mutant: write_backup_storage does not protect its node.
ProtectedByPrefetchOnly ==
    {ops[ongoing[r]].node : r \in {q \in Req : ongoing[q] # NoOp}}

\* Mutant: prefetch_from_storage does not protect its node.
ProtectedByBackupOnly ==
    {e.key : e \in Range(backup_queue) \cup Range(ack_backup_queue)}

\* host_ref_counter > 0: a node an ongoing prefetch starts at, or one whose
\* backup is not acknowledged.
Protected ==
    {ops[ongoing[r]].node : r \in {q \in Req : ongoing[q] # NoOp}}
      \cup {e.key : e \in Range(backup_queue) \cup Range(ack_backup_queue)}

(***************************************************************************)
(* evict_host(n): repeatedly drop an unprotected host-only leaf until n    *)
(* pages are gone or none is left.  The order is the eviction strategy's;  *)
(* here it is any.                                                         *)
(***************************************************************************)
Evictable(keep) == Tree \ (device \cup keep)

EvictSets(n, keep) ==
    {E \in SUBSET Evictable(keep) :
        /\ \A k \in E, j \in Tree : IsStrictPrefix(k, j) => j \in E
        /\ Cardinality(E) <= n
        /\ \/ Cardinality(E) = n
           \/ \A k \in Evictable(keep) \ E :
                 \E j \in Tree \ E : IsStrictPrefix(k, j)}

\* What evict_host is called for: nothing when the first alloc succeeds.
ForAlloc(n, keep) ==
    IF n <= Cardinality(free_slots) THEN {{}} ELSE EvictSets(n, keep)

PagesOf(K) == {host[k] : k \in K}

\* alloc(n) after E was evicted: the sequences of n distinct free pages.
Allocs(n, E) ==
    {s \in [1..n -> free_slots \cup PagesOf(E)] :
        \A i, j \in 1..n : s[i] = s[j] => i = j}

(***************************************************************************)
(* The scheduler.                                                          *)
(***************************************************************************)
\* match_prefix: the longest prefix of the prompt in the tree.  Every node is
\* backed up, so it is also last_host_node.
LastHostNode(r) ==
    CHOOSE k \in Prefixes(Prompt[r]) :
        /\ k \in Tree \cup {<<>>}
        /\ \A j \in Prefixes(Prompt[r]) \cap Tree : Len(j) <= Len(k)

NewInputTokens(r) ==
    SubSeq(Prompt[r], Len(LastHostNode(r)) + 1, Len(Prompt[r]))

\* prefetch_from_storage: the early returns ...
PrefetchSkipped(r) ==
    /\ \/ Len(NewInputTokens(r)) < Threshold
       \/ occupied >= CapacityLimit
    /\ UNCHANGED <<treeVars, ops, ongoing, prefetch_queue, occupied>>

\* ... and the allocation, after evict_host when memory is short.  The node
\* is protected before anything is evicted.
PrefetchStarted(r) ==
    LET n == Len(NewInputTokens(r))
        node == LastHostNode(r)
        keep == Protected \cup {node}
    IN /\ n >= Threshold
       /\ occupied < CapacityLimit
       /\ Len(ops) < MaxOps
       /\ \E E \in ForAlloc(n, keep) :
            /\ host' = Restrict(host, Tree \ E)
            /\ IF Allocs(n, E) = {}
                 THEN /\ free_slots' = free_slots \cup PagesOf(E)
                      /\ UNCHANGED <<ops, ongoing, prefetch_queue, occupied>>
                 ELSE \E s \in Allocs(n, E) :
                        /\ free_slots' =
                             (free_slots \cup PagesOf(E)) \ Range(s)
                        /\ ops' = Append(ops,
                             [rid |-> r, node |-> node,
                              tokens |-> NewInputTokens(r), pages |-> s,
                              hash |-> 0, completed |-> 0,
                              terminated |-> FALSE])
                        /\ ongoing' = [ongoing EXCEPT ![r] = Len(ops) + 1]
                        /\ prefetch_queue' =
                             Append(prefetch_queue, Len(ops) + 1)
                        /\ occupied' = occupied + n
       /\ UNCHANGED <<mem, device, ack_write_queue>>

\* _add_request_to_queue of a new request, or of one retracted from the
\* running batch.
AddRequestToQueue(r) ==
    /\ \/ status[r] = "new"
       \/ Retracts /\ status[r] = "running"
    /\ PrefetchSkipped(r) \/ PrefetchStarted(r)
    /\ status' = [status EXCEPT ![r] = "waiting"]
    /\ UNCHANGED <<backupVars, stored, prefetch_buffer, prefetch_revoke_queue,
                   host_mem_release_queue, threadVars>>

\* can_terminate_prefetch.  The clock of the timeout policy, and what other
\* ranks report, may allow it at any moment.
CanTerminate(o) ==
    \/ Policy \in {"best_effort", "timeout"}
    \/ TP
    \/ ops[o].hash > 0 /\ ops[o].completed = ops[o].hash
    \/ ops[o].terminated

\* The number of pages agreed on with the other ranks (all_reduce MIN).
Agreed(n) == IF TP THEN 0..n ELSE {n}

\* _insert_helper_host: the pages of the operation that the tree has already.
MatchedLength(o, m) == Cardinality({i \in 1..m : PageKey(o, i) \in Tree})

\* Mutant: host_value is not advanced past the matched pages.
InsertHostUnshifted(o, from, m) ==
    [k \in Tree \cup {PageKey(o, i) : i \in from + 1 .. m} |->
        IF k \in Tree THEN host[k]
        ELSE ops[o].pages[Len(k) - Len(ops[o].node) - from]]

\* The tree with pages from+1..m of operation o attached below its node.
InsertHost(o, from, m) ==
    [k \in Tree \cup {PageKey(o, i) : i \in from + 1 .. m} |->
        IF k \in Tree THEN host[k]
        ELSE ops[o].pages[Len(k) - Len(ops[o].node)]]

Terminate(o) == ops' = [ops EXCEPT ![o].terminated = TRUE]

\* Mutant: pages the tree had already are not freed.
SettlePrefetchKeepsMatched(r, o) ==
    LET c == ops[o].completed IN
    \E m \in Agreed(c) :
        LET matched == MatchedLength(o, m) IN
        /\ host' = InsertHost(o, matched, m)
        /\ host_mem_release_queue' =
             host_mem_release_queue \cup Slice(o, m + 1, c)
        /\ Terminate(o)
        /\ ongoing' = [ongoing EXCEPT ![r] = NoOp]
        /\ occupied' = occupied - Len(ops[o].tokens)
        /\ UNCHANGED <<free_slots, mem, device, ack_write_queue>>

\* check_prefetch_progress: the request may be scheduled.  What was fetched
\* enters the tree; pages the tree had are freed, and those other ranks lack
\* are queued for release.
SettlePrefetch(r, o) ==
    LET c == ops[o].completed IN
    \E m \in Agreed(c) :
        LET matched == MatchedLength(o, m) IN
        /\ host' = InsertHost(o, matched, m)
        /\ free_slots' = free_slots \cup Slice(o, 1, matched)
        /\ host_mem_release_queue' =
             host_mem_release_queue \cup Slice(o, m + 1, c)
        /\ Terminate(o)
        /\ ongoing' = [ongoing EXCEPT ![r] = NoOp]
        /\ occupied' = occupied - Len(ops[o].tokens)
        /\ UNCHANGED <<mem, device, ack_write_queue>>

CheckPrefetchProgress(r) ==
    /\ status[r] = "waiting"
    /\ \/ /\ ongoing[r] = NoOp
          /\ UNCHANGED <<treeVars, ops, ongoing, occupied,
                         host_mem_release_queue>>
       \/ /\ ongoing[r] # NoOp
          /\ CanTerminate(ongoing[r])
          /\ SettlePrefetch(r, ongoing[r])
    /\ status' = [status EXCEPT ![r] = "running"]
    /\ UNCHANGED <<backupVars, stored, queueVars, threadVars>>

\* Mutant: an aborted prefetch stays counted by the rate limiter.
ReleaseAbortedKeepsCount(r, o) ==
    /\ Terminate(o)
    /\ ongoing' = [ongoing EXCEPT ![r] = NoOp]
    /\ host_mem_release_queue' =
         host_mem_release_queue \cup Slice(o, 1, ops[o].completed)
    /\ UNCHANGED occupied

\* release_aborted_request.
ReleaseAborted(r, o) ==
    /\ Terminate(o)
    /\ ongoing' = [ongoing EXCEPT ![r] = NoOp]
    /\ host_mem_release_queue' =
         host_mem_release_queue \cup Slice(o, 1, ops[o].completed)
    /\ occupied' = occupied - Len(ops[o].tokens)

\* abort_request, or a timeout, of a request in the waiting queue.
AbortRequest(r) ==
    /\ status[r] = "waiting"
    /\ IF ongoing[r] = NoOp
         THEN UNCHANGED <<ops, ongoing, host_mem_release_queue, occupied>>
         ELSE ReleaseAborted(r, ongoing[r])
    /\ status' = [status EXCEPT ![r] = "done"]
    /\ UNCHANGED <<treeVars, backupVars, stored, queueVars, threadVars>>

\* The request leaves the running batch.
FinishRequest(r) ==
    /\ status[r] = "running"
    /\ status' = [status EXCEPT ![r] = "done"]
    /\ UNCHANGED <<treeVars, backupVars, stored, ops, ongoing, queueVars,
                   host_mem_release_queue, occupied, threadVars>>

(***************************************************************************)
(* check_hicache_events: writing_check, then                               *)
(* drain_storage_control_queues.                                           *)
(***************************************************************************)
Entry(k) == [key |-> k, page |-> host[k]]

\* writing_check: the first n GPU copies are done; their nodes go on to the
\* storage.
WritingCheck(n) ==
    LET acked == SubSeq(ack_write_queue, 1, n) IN
    /\ mem' = [p \in HostPage |->
                 IF \E k \in Range(acked) : host[k] = p
                 THEN CHOOSE k \in Range(acked) : host[k] = p
                 ELSE mem[p]]
    /\ ack_write_queue' = SubSeq(ack_write_queue, n + 1, Len(ack_write_queue))
    /\ backup_queue' = backup_queue \o [i \in 1..n |-> Entry(acked[i])]

\* The requests with an entry among the first n revokes and an ongoing
\* prefetch: the code looks the request up, not the operation.
RevokedReqs(n) ==
    {r \in Req : /\ ongoing[r] # NoOp
                 /\ \E i \in 1..n : prefetch_revoke_queue[i].rid = r}

DrainRevokes(n) ==
    LET R == RevokedReqs(n) IN
    /\ ongoing' = [r \in Req |-> IF r \in R THEN NoOp ELSE ongoing[r]]
    /\ occupied' = occupied -
         MapThenSumSet(LAMBDA r : Len(ops[ongoing[r]].tokens), R)
    /\ prefetch_revoke_queue' =
         SubSeq(prefetch_revoke_queue, n + 1, Len(prefetch_revoke_queue))

DrainReleases(R) ==
    /\ free_slots' = free_slots \cup R
    /\ host_mem_release_queue' = host_mem_release_queue \ R

DrainBackups(n) ==
    ack_backup_queue' = SubSeq(ack_backup_queue, n + 1, Len(ack_backup_queue))

\* How much of each queue is drained: with several ranks, the least any rank
\* has.
Released == IF TP THEN SUBSET host_mem_release_queue
            ELSE {host_mem_release_queue}

CheckHicacheEvents ==
    /\ \E n \in 0..Len(ack_write_queue) : WritingCheck(n)
    /\ \E n \in Agreed(Len(prefetch_revoke_queue)) : DrainRevokes(n)
    /\ \E n \in Agreed(Len(ack_backup_queue)) : DrainBackups(n)
    /\ \E R \in Released : DrainReleases(R)
    /\ UNCHANGED <<host, device, stored, ops, prefetch_queue, prefetch_buffer,
                   status, threadVars>>

(***************************************************************************)
(* The rest of the tree, as far as host memory is concerned.               *)
(***************************************************************************)
\* insert of a prompt whose other pages are on the device: the last page gets
\* a node, which is written through to the host, or its evicted node gets a
\* device value.
Insert(k) ==
    /\ \A j \in Prefixes(k) \ {<<>>, k} : j \in device
    /\ k \notin device
    /\ device' = device \cup {k}
    /\ IF k \in Tree
         THEN UNCHANGED <<free_slots, host, ack_write_queue>>
         ELSE \E E \in ForAlloc(1, Protected) : \E s \in Allocs(1, E) :
                /\ free_slots' = (free_slots \cup PagesOf(E)) \ {s[1]}
                /\ host' = (k :> s[1]) @@ Restrict(host, Tree \ E)
                /\ ack_write_queue' = Append(ack_write_queue, k)
    /\ UNCHANGED <<mem, backupVars, stored, ops, ongoing, queueVars,
                   host_mem_release_queue, occupied, status, threadVars>>

\* Mutant: a node is evicted although a write-through locks it.
EvictDeviceUnlocked(k) ==
    /\ k \in device
    /\ \A j \in device : ~IsStrictPrefix(k, j)
    /\ device' = device \ {k}
    /\ UNCHANGED <<free_slots, mem, host, ack_write_queue, backupVars, stored,
                   ops, ongoing, queueVars, host_mem_release_queue, occupied,
                   status, threadVars>>

\* _evict_backuped of a device leaf that no write-through locks.
EvictDevice(k) ==
    /\ k \in device
    /\ \A j \in device : ~IsStrictPrefix(k, j)
    /\ \A j \in Range(ack_write_queue) : ~IsPrefix(k, j)
    /\ device' = device \ {k}
    /\ UNCHANGED <<free_slots, mem, host, ack_write_queue, backupVars, stored,
                   ops, ongoing, queueVars, host_mem_release_queue, occupied,
                   status, threadVars>>

(***************************************************************************)
(* prefetch_thread.                                                        *)
(***************************************************************************)
IdleThread == [pc |-> "idle", op |-> NoOp, hit |-> 0]

\* _storage_hit_query: the pages found before the first that is missing.
HitCount(o) ==
    Cardinality({i \in 1..Len(ops[o].tokens) :
                    \A j \in 1..i : PageKey(o, j) \in DOMAIN stored})

QueryHits ==
    /\ pthread.pc = "idle"
    /\ prefetch_queue # <<>>
    /\ pthread' = [pc |-> "decide", op |-> Head(prefetch_queue),
                   hit |-> HitCount(Head(prefetch_queue))]
    /\ prefetch_queue' = Tail(prefetch_queue)
    /\ UNCHANGED <<treeVars, backupVars, stored, ops, ongoing, prefetch_buffer,
                   prefetch_revoke_queue, host_mem_release_queue, occupied,
                   status, iothread>>

\* Too few hits: the scheduler is told, then the pages are queued for release.
Revoke ==
    /\ pthread.pc = "decide"
    /\ \E hit \in Agreed(pthread.hit) : hit < Threshold
    /\ prefetch_revoke_queue' = Append(prefetch_revoke_queue,
         [rid |-> ops[pthread.op].rid, op |-> pthread.op])
    /\ pthread' = [pthread EXCEPT !.pc = "release"]
    /\ UNCHANGED <<treeVars, backupVars, stored, ops, ongoing, prefetch_queue,
                   prefetch_buffer, host_mem_release_queue, occupied, status,
                   iothread>>

\* Mutant: the pages of a revoked operation are forgotten.
ReleaseRevokedForgets ==
    /\ pthread.pc = "release"
    /\ pthread' = IdleThread
    /\ UNCHANGED <<treeVars, backupVars, stored, ops, ongoing, queueVars,
                   host_mem_release_queue, occupied, status, iothread>>

ReleaseRevoked ==
    /\ pthread.pc = "release"
    /\ host_mem_release_queue' =
         host_mem_release_queue \cup Range(ops[pthread.op].pages)
    /\ pthread' = IdleThread
    /\ UNCHANGED <<treeVars, backupVars, stored, ops, ongoing, queueVars,
                   occupied, status, iothread>>

\* Enough hits: the pages that were not hit are queued for release.
HandOver ==
    LET o == pthread.op IN
    /\ pthread.pc = "decide"
    /\ \E hit \in Agreed(pthread.hit) :
         /\ hit >= Threshold
         /\ ops' = [ops EXCEPT ![o].hash = hit,
                               ![o].pages = SubSeq(@, 1, hit)]
         /\ host_mem_release_queue' = host_mem_release_queue
              \cup Slice(o, hit + 1, Len(ops[o].pages))
    /\ prefetch_buffer' = Append(prefetch_buffer, o)
    /\ pthread' = IdleThread
    /\ UNCHANGED <<treeVars, backupVars, stored, ongoing, prefetch_queue,
                   prefetch_revoke_queue, occupied, status, iothread>>

(***************************************************************************)
(* prefetch_io_aux_thread: _page_transfer of one storage batch, then the   *)
(* release of what was not transferred.                                    *)
(***************************************************************************)
IdleIo == [pc |-> "idle", op |-> NoOp, data |-> <<>>]

\* batch_get: what the storage holds for each page, Junk for a missing one.
BatchGet(o) ==
    [i \in 1..ops[o].hash |-> IF PageKey(o, i) \in DOMAIN stored
                              THEN stored[PageKey(o, i)] ELSE Junk]

IoGet ==
    /\ iothread.pc = "idle"
    /\ prefetch_buffer # <<>>
    /\ LET o == Head(prefetch_buffer) IN
         iothread' = [pc |-> "page", op |-> o, data |-> BatchGet(o)]
    /\ prefetch_buffer' = Tail(prefetch_buffer)
    /\ UNCHANGED <<treeVars, backupVars, stored, ops, ongoing, prefetch_queue,
                   prefetch_revoke_queue, host_mem_release_queue, occupied,
                   status, pthread>>

NextPage(o) == ops[o].completed + 1

\* The page is set before it is counted.
IoSetPage ==
    LET o == iothread.op
        i == NextPage(o)
    IN /\ iothread.pc = "page"
       /\ i <= ops[o].hash
       /\ iothread.data[i] # Junk
       /\ mem' = [mem EXCEPT ![ops[o].pages[i]] = iothread.data[i]]
       /\ iothread' = [iothread EXCEPT !.pc = "increment"]
       /\ UNCHANGED <<free_slots, host, device, ack_write_queue, backupVars,
                      stored, ops, ongoing, queueVars, host_mem_release_queue,
                      occupied, status, pthread>>

\* Mutant: increment does not look at _terminated_flag.
IncrementUnchecked(o) ==
    /\ iothread' = [iothread EXCEPT !.pc = "page"]
    /\ ops' = [ops EXCEPT ![o].completed = @ + 1]

\* operation.increment counts the page unless the operation is terminated;
\* a refused page ends the transfer.
Increment(o) ==
    IF ops[o].terminated
      THEN /\ iothread' = [iothread EXCEPT !.pc = "release"]
           /\ UNCHANGED ops
      ELSE /\ iothread' = [iothread EXCEPT !.pc = "page"]
           /\ ops' = [ops EXCEPT ![o].completed = @ + 1]

IoIncrement ==
    /\ iothread.pc = "increment"
    /\ Increment(iothread.op)
    /\ UNCHANGED <<treeVars, backupVars, stored, ongoing, queueVars,
                   host_mem_release_queue, occupied, status, pthread>>

\* Mutant: a short transfer leaves the operation unmarked.
MarkNothing(o) == UNCHANGED ops

\* A page is missing: the transfer ends short and the operation is marked.
MarkShort(o) == Terminate(o)

IoMissing ==
    /\ iothread.pc = "page"
    /\ NextPage(iothread.op) <= ops[iothread.op].hash
    /\ iothread.data[NextPage(iothread.op)] = Junk
    /\ MarkShort(iothread.op)
    /\ iothread' = [iothread EXCEPT !.pc = "release"]
    /\ UNCHANGED <<treeVars, backupVars, stored, ongoing, queueVars,
                   host_mem_release_queue, occupied, status, pthread>>

\* append_host_mem_release(host_indices[completed_tokens:]).
IoRelease ==
    LET o == iothread.op IN
    /\ \/ iothread.pc = "release"
       \/ iothread.pc = "page" /\ NextPage(o) > ops[o].hash
    /\ host_mem_release_queue' = host_mem_release_queue
         \cup Slice(o, NextPage(o), Len(ops[o].pages))
    /\ iothread' = IdleIo
    /\ UNCHANGED <<treeVars, backupVars, stored, ops, ongoing, queueVars,
                   occupied, status, pthread>>

(***************************************************************************)
(* backup_thread and the storage behind it.                                *)
(***************************************************************************)
\* _page_backup, which may fail, and the acknowledgement.
BackupWrite ==
    /\ backup_queue # <<>>
    /\ LET e == Head(backup_queue) IN
       /\ \/ stored' = (e.key :> mem[e.page]) @@ stored
          \/ UNCHANGED stored
       /\ ack_backup_queue' = Append(ack_backup_queue, e)
    /\ backup_queue' = Tail(backup_queue)
    /\ UNCHANGED <<treeVars, ops, ongoing, queueVars, host_mem_release_queue,
                   occupied, status, threadVars>>

\* The storage drops a page to stay within its budget.
StorageEvict(k) ==
    /\ k \in DOMAIN stored
    /\ stored' = Restrict(stored, DOMAIN stored \ {k})
    /\ UNCHANGED <<treeVars, backupVars, ops, ongoing, queueVars,
                   host_mem_release_queue, occupied, status, threadVars>>

(***************************************************************************)
(* The specification.  A process may start with anything in its storage.   *)
(* The place of a request that does not arrive is taken by requests that   *)
(* already run.                                                            *)
(***************************************************************************)
Init ==
    /\ free_slots = HostPage
    /\ mem = [p \in HostPage |-> Junk]
    /\ host = <<>>
    /\ device = {}
    /\ ack_write_queue = <<>>
    /\ backup_queue = <<>>
    /\ ack_backup_queue = <<>>
    /\ \E K \in SUBSET PromptKey : stored = [k \in K |-> k]
    /\ ops = <<>>
    /\ ongoing = [r \in Req |-> NoOp]
    /\ prefetch_queue = <<>>
    /\ prefetch_buffer = <<>>
    /\ prefetch_revoke_queue = <<>>
    /\ host_mem_release_queue = {}
    /\ occupied = 0
    /\ \E A \in Arrivals :
          status = [r \in Req |-> IF r \in A THEN "new" ELSE "other"]
    /\ pthread = IdleThread
    /\ iothread = IdleIo

Next ==
    \/ \E r \in Req : \/ AddRequestToQueue(r)
                      \/ CheckPrefetchProgress(r)
                      \/ AbortRequest(r)
                      \/ FinishRequest(r)
    \/ CheckHicacheEvents
    \/ \E r \in Req : \E k \in Traffic[r] : /\ status[r] = "other"
                                            /\ Insert(k) \/ EvictDevice(k)
    \/ \E k \in Key : StorageEvict(k)
    \/ QueryHits \/ Revoke \/ ReleaseRevoked \/ HandOver
    \/ IoGet \/ IoSetPage \/ IoIncrement \/ IoMissing \/ IoRelease
    \/ BackupWrite

Spec == Init /\ [][Next]_vars

\* Every thread that has work does it; the scheduler's loop drains the queues
\* and looks at every waiting request again and again.
FairSpec ==
    /\ Spec
    /\ WF_vars(QueryHits) /\ WF_vars(Revoke \/ HandOver)
    /\ WF_vars(ReleaseRevoked)
    /\ WF_vars(IoGet) /\ WF_vars(IoSetPage) /\ WF_vars(IoIncrement)
    /\ WF_vars(IoMissing) /\ WF_vars(IoRelease)
    /\ WF_vars(CheckHicacheEvents)
    /\ \A r \in Req : WF_vars(CheckPrefetchProgress(r))

(***************************************************************************)
(* Properties.                                                             *)
(***************************************************************************)
OpId == 1..Len(ops)

\* The state is of the shape the code keeps: queues name operations that
\* exist, pages counted as completed are pages that were hit.
TypeOK ==
    /\ free_slots \subseteq HostPage
    /\ mem \in [HostPage -> Key \cup {Junk}]
    /\ Tree \subseteq Key /\ PagesOf(Tree) \subseteq HostPage
    /\ device \subseteq Tree
    /\ Range(ack_write_queue) \subseteq device
    /\ DOMAIN stored \subseteq Key
    /\ \A o \in OpId : /\ Range(ops[o].pages) \subseteq HostPage
                       /\ ops[o].completed \in 0..ops[o].hash
                       /\ ops[o].hash \in 0..Len(ops[o].pages)
    /\ ongoing \in [Req -> {NoOp} \cup OpId]
    /\ Range(prefetch_queue) \cup Range(prefetch_buffer) \subseteq OpId
    /\ host_mem_release_queue \subseteq HostPage
    /\ occupied \in Nat
    /\ status \in [Req -> {"new", "waiting", "running", "done", "other"}]
    /\ pthread.op \in {NoOp} \cup OpId
    /\ iothread.op \in {NoOp} \cup OpId

\* The operations a thread still has to finish with, and their pages that are
\* not counted as completed; the completed pages belong to the scheduler for
\* as long as the operation is ongoing.
InFlight == Range(prefetch_queue) \cup Range(prefetch_buffer)
              \cup ({pthread.op, iothread.op} \ {NoOp})
ThreadOwns(o) ==
    IF o \in InFlight THEN Slice(o, NextPage(o), Len(ops[o].pages)) ELSE {}
SchedulerOwns(o) ==
    IF \E r \in Req : ongoing[r] = o THEN Slice(o, 1, ops[o].completed) ELSE {}

Owners(p) ==
    Cardinality({S \in {1} : p \in free_slots})
      + Cardinality({S \in {1} : p \in host_mem_release_queue})
      + Cardinality({k \in Tree : host[k] = p})
      + Cardinality({o \in OpId : p \in ThreadOwns(o)})
      + Cardinality({o \in OpId : p \in SchedulerOwns(o)})

\* Every host page has exactly one owner at every moment: the free list, the
\* release queue, a node of the tree, the thread an operation is with, or the
\* scheduler for what that operation completed.  A page with no owner is
\* leaked for good, one with two is freed twice and then shared by two nodes.
\* This is what the order of mark_terminate, increment and
\* append_host_mem_release in three threads has to add up to.
HostPagesConserved == \A p \in HostPage : Owners(p) = 1

\* A host page the tree offers for load_back holds the KV cache of the very
\* prefix its node stands for, although the IO thread writes pages while the
\* scheduler terminates operations, evicts and allocates.
HostPagesHoldTheirKey ==
    \A k \in Tree \ Range(ack_write_queue) : mem[host[k]] = k

\* The storage never holds anything but a prefix's own KV cache under its
\* hash: a page is not evicted and reused between the queueing of a backup and
\* the moment backup_thread reads the page.
StorageHoldsItsKey == \A k \in DOMAIN stored : stored[k] = k

\* The tree is closed under prefixes and the node an ongoing prefetch will be
\* attached to is still in it: evict_host never cuts off what match_prefix
\* promised to a waiting request.
PrefetchNodeStays ==
    /\ \A k \in Tree : Prefixes(k) \ {<<>>} \subseteq Tree
    /\ \A r \in Req : ongoing[r] # NoOp =>
          ops[ongoing[r]].node \in Tree \cup {<<>>}

\* The rate limiter counts exactly the tokens of the ongoing prefetches,
\* however they end: settled, aborted or revoked.
OccupiedExact ==
    occupied = MapThenSumSet(LAMBDA r : Len(ops[ongoing[r]].tokens),
                             {r \in Req : ongoing[r] # NoOp})

\* Once an operation is terminated its completed count is final, so the count
\* terminate_prefetch returns is the one the IO thread releases from.
TerminatedIsFinal ==
    [][\A o \in OpId : ops[o].terminated =>
          ops'[o].terminated /\ ops'[o].completed = ops[o].completed]_vars

\* A waiting request is scheduled (or aborted) in the end, also under
\* wait_complete and when the storage drops pages between the hit query and
\* the transfer.
WaitingEnds == \A r \in Req : status[r] = "waiting" ~> status[r] # "waiting"

\* What a thread holds of an operation does not stay with it: every page in
\* flight or queued for release becomes free or part of the tree.
PagesComeBack ==
    \A p \in HostPage :
        p \notin free_slots \cup PagesOf(Tree)
            ~> p \in free_slots \cup PagesOf(Tree)

\* drain_storage_control_queues takes a revoke it has no use for to mean that
\* "the revoked operation already got terminated, nothing to do": a revoke
\* ends the prefetch it was sent for and no other.
RevokeEndsItsOwn ==
    [][\A r \in Req :
         (ongoing[r] # NoOp /\ ongoing'[r] = NoOp /\ status'[r] = "waiting") =>
           \E e \in Range(prefetch_revoke_queue) : e.op = ongoing[r]]_vars
============================================================================
