# TLA+ models of LnaLang4U

LnaLang4U serves DeepSeek-V4-Flash with a KV cache in three tiers: GPU memory
(L1), host memory (L2, HiCache) and SSD (L3, DiskOffload). It also carries
ds4-server, a second inference server in C with a disk cache of its own. This
directory holds TLA+ models of the concurrent and persistent parts of both, TLC
runs that check them on small instances, and TLAPS proofs for every instance.

Paths below are relative to the repository; `SRT` stands for
`src/sglang-diskkv/sglang-source/python/sglang/srt`. The deployed HiRadixCache is
`src/sglang-diskkv/hiradix_cache_patched.py`: the Dockerfile copies it over the
one of the sglang tree, so the models follow the patched file. The base image whose
file it replaces is not in the repository, and the vendored scheduler and radix cache
have moved on from the interface of the patched file (they call
`pop_prefetch_loaded_tokens` and pass `InitLoadBackParams`, which it does not have).
Where the two meet, the models join what each does: the patched file's handler at the
place where the vendored scheduler calls it.

## 1. The system and its parts

A scheduler process per tensor-parallel rank (TP=4 as deployed) runs:

- the **scheduler thread**: queues requests, matches prompts in the radix tree,
  allocates and evicts device and host pages, drains the queues of the others;
- **prefetch_thread**: asks the storage which pages of a prompt it has;
- **prefetch_io_aux_thread**: copies those pages from storage to host memory;
- **backup_thread**: writes host pages to storage with `batch_set`;
- GPU copy streams, whose completion the scheduler polls.

All ranks share one storage directory. They agree on queue lengths, hit counts
and completed pages by `all_reduce(MIN)`.

ds4-server is one process: the main thread accepts connections, a detached thread
per connection reads a request and queues a job, one worker thread runs the jobs
on the one live session.

| Part | Source | Model | Status |
|---|---|---|---|
| Disk page store (L3) | `SRT/mem_cache/storage/disk_offload/disk_offload_backend.py` | `DiskOffload`, `DiskOffloadStore`, `PageStore` | partly: all but the `_v2` multi-pool calls |
| Host memory tier, prefetch (L2) | `hiradix_cache_patched.py`, `SRT/managers/cache_controller.py`, `SRT/mem_cache/memory_pool_host.py`, `SRT/managers/scheduler.py` | `HiCachePrefetch` | partly: no restart of the threads |
| Radix tree (L1/L2) | `hiradix_cache_patched.py`, `SRT/mem_cache/radix_cache.py` | `HiRadixTree` | partly: no write_back, no chunked prefill |
| Admission of requests | `SRT/managers/schedule_policy.py`, `SRT/mem_cache/common.py` | `HiRadixTree` | partly |
| GPU transfers | `SRT/managers/cache_controller.py` | `HiRadixTree`, `HiCachePrefetch` | partly: whole copies, no layers |
| Storage interface | `SRT/mem_cache/hicache_storage.py` | `PageStore` is its contract | partly |
| ds4-server: threads | `src/Lang4-sm120/ds4_server.c` | `Ds4Jobs`, `Ds4Server` | modelled |
| ds4-server: session, disk cache | `ds4_server.c`, `src/Lang4-sm120/ds4.c` | `Ds4Cache`, `Ds4Server` | partly |
| ds4-server: HTTP, JSON, prompts | `ds4_server.c` | none | parsing and formatting |
| ds4 engine | `ds4.c` | session synchronisation, in `Ds4Cache` | partly; kernels are out of TLC's reach |
| DeepSeek-V4 host pool | `SRT/mem_cache/deepseek_v4_memory_pool_host.py` | none | not modelled, see section 8 |
| Gateway, Anthropic proxy | `src/gateway/`, `src/scripts/anthropic_proxy.py` | none | stateless translations |
| Launcher, compose files, tests, benchmarks | `src/launch.sh`, `src/compose/`, `src/tests/`, `src/benchmarks/` | none | not part of the running system's state |

`PROJECT.json` has the same inventory with the hazards of each part at the line
where they bite, the map from every definition to the lines it translates, the
runs, the mutants and the theorems.

## 2. Files

| File | What it is |
|---|---|
| `DiskOffload.tla` | the page store: index, byte budget, eviction, persistence, faults |
| `MCDiskOffload.tla`, `DiskOffload_*.cfg` | its instances for TLC |
| `PageStore.tla` | abstract page store: what the cache may rely on |
| `DiskOffloadStore.tla` | the refinement mapping from `DiskOffload` to `PageStore` |
| `DiskOffloadTypes.tla` | lemmas on byte counts; every step preserves the types |
| `DiskOffloadLocks.tla` | every step preserves the lock discipline |
| `DiskOffloadProofs.tla` | the inductive invariant; types, locking, counting, budget |
| `DiskOffloadStoreProofs.tla` | eviction order, readable pages, exact accounting |
| `DiskOffloadRefinement.tla` | the proof that `DiskOffload` implements `PageStore` |
| `HiCachePrefetch.tla` | host pages, prefetch operations, four threads and their queues |
| `HiRadixTree.tla` | the radix tree, its locks and sizes, admission of requests |
| `Ds4Jobs.tla`, `Ds4JobsProofs.tla` | threads, queue and shutdown of ds4-server; proofs |
| `Ds4Cache.tla` | its live session and disk cache |
| `Ds4Server.tla` | the composition of the two |
| `MC*.tla`, `*.cfg` | instances for TLC |

An operator with a comment "Mutant:" is a deliberately wrong variant of the
definition after it. Substituting it must make a run fail; no specification uses
it.

## 3. DiskOffload

### State and actions

`files` is the `pages/` directory: for each key the bytes written so far and the
modification time. `index_json` and `tmp_json` are the index file and its
temporary; a file is absent, truncated (open, nothing written), corrupt (does not
parse) or a JSON document. Per process, `index`, `total_bytes`, `dirty` and `lock`
are the fields `_index`, `_total_bytes`, `_dirty` and `_lock`; the rest is where
each thread stands and its local variables.

| Code | Actions |
|---|---|
| `batch_set` | `batch_set`, then per key `set`, then `BatchEnd` and a flush without the lock |
| `set` | `SetHit` (key indexed: touch only), or `SaveBegin`, `SaveEnd`/`SaveRaises`, `EnforceBegin`/`GetsizeRaises`, `EvictColdest`*, `AddEntry`, then a flush |
| `_flush_index`, `_save_index` | `FlushSkip`, or `FlushBuild` (reads the counter), `FlushOpen`, `FlushIterate`, `FlushDump`/`FlushDumpRaises`, `FlushReplace`/`FlushReplaceRaises` |
| `clear` | `ClearBegin`, `ClearEvict`*, `ClearEnd`, then a flush |
| `batch_exists`, `get` | `QueryHit`, then `GetLoad`, `GetTouch`, none under the lock |
| `__init__`, `_load_index`, `_rebuild_index` | `Restart`, as part of `Crash` and `PowerLoss` |

Two details carry most of the findings. `_save_index` copies the counter but
passes the live dict to `json.dump`, so `data` (the counter) is fixed at
`FlushBuild` while the pages are those at `FlushDump`. An open file handle follows
the file, not the name: after another writer's `os.replace`, a handle that wrote
to the temporary writes to `index.json` (`fd`).

### Abstractions

Page contents are their length. `Bytes(idx)` counts an index's sizes as the
cardinality of a set of (key, byte) pairs, so that the proofs can use the library's
facts on cardinality instead of a recursive sum. Eviction takes a page with the
least `last_access` of the list sorted at `EnforceBegin`; ties are broken
arbitrarily. Removing a file never fails. An fsync-less `os.replace` followed by
power loss is modelled as an index that does not parse (`PowerLoss`); page files
are kept. Two writers of one file leave either's text or text that does not parse.

### Bounds

`MaxClock` stops the clock, after which accesses tie: any tie-break is then
possible, so the bound only adds behaviours to the eviction order. `MaxFaults`
bounds crashes and failed writes to two, enough for a crash during the recovery
from a crash. Pages have 1 or 2 bytes with a budget of 2 bytes: a page that fills
the budget alone, two that share it, and one that forces a double eviction.
Batches have one or two keys, so that a `set` can evict the page the previous
one stored.

### What the runs check

| Run | Instance | Properties |
|---|---|---|
| `disk_crash` | 1 process, 3 keys, `get`, 2 crashes, `FairSpec` | `EvictsColdestFirst`, `ExistsMeansWhole`, `SavedBetweenBatches`, `BatchSetReturns`, `ImplementsPageStore` |
| `disk_clear` | 1 process, 3 keys, `get` and `clear`, no fault | `NeverUndercounts`, `LockedSections`, `IndexedPagesWhole`, `DiskWithinBudget`, `ClearRemovesAllPages`, `SetTrueMeansStored` |
| `disk_shared` | 2 processes, 2 keys, one directory, a failing write or a power loss | `AccountingExact`, `BudgetRestored` |
| `disk_ghost` | crash | violates `SetTrueMeansStored` |
| `disk_stale_total` | `clear` and a crash | violates `CounterFitsBudget` |

- `AccountingExact`: the running counter is the sum of the sizes in the index, in
  memory and in every index file a restart could load.
- `NeverUndercounts`: with `clear` the equality fails (see `disk_stale_total`), but
  the counter is never too low, so the budget is not overrun for want of counting.
- `BudgetRestored`: entering a page leaves the indexed pages within the budget. A page
  larger than the whole budget is not part of the runs: it is entered alone and exceeds it.
- `EvictsColdestFirst`: no page is evicted before one that was colder when the
  list was sorted, although unlocked reads touch pages meanwhile.
- `ExistsMeansWhole`: `exists` never vouches for a torn page, restarts included. It
  holds because a page enters the index after `torch.save` ends and a restart
  trusts `index.json`. After a power loss it does not hold: `_rebuild_index`
  lists torn files. No run claims it for that fault.
- `IndexedPagesWhole`, `SetTrueMeansStored`, `DiskWithinBudget`,
  `ClearRemovesAllPages`: the promises of `get`, `set`, the class docstring and
  `clear`, for a process that does not crash. After a crash each may fail: files
  saved but not yet indexed are never removed, and evicted files may still be
  listed.
- `SavedBetweenBatches`: between two batches `index.json` lists the pages of the
  index (which pages, not their access times), although `get` touches the index unlocked while it is dumped.
- `BatchSetReturns`: the eviction loop and the flush end.
- `ImplementsPageStore`: refinement. `PageStore` has a set of readable pages and one
  reader: pages come and go one whole page at a time, a page reported present is
  readable at that moment, a read returns the whole page or nothing. The mapping
  takes `stored` to the files that hold all their bytes and the reader to the
  prefetch thread's. `HiCachePrefetch` assumes just this of the storage.

### Findings

1. `disk_stale_total`: the last flush of `batch_set` runs without the lock. It can
   read the counter, lose all pages to `clear`, and save the old counter with the
   new pages. A process restarted from that file counts phantom bytes for ever:
   every `set` evicts everything and still ends above the budget.
2. `disk_ghost`: eviction removes the file at once and the index file at the next
   flush. After a crash in between, the index lists a page without file; `set`
   of that key answers True and does not write it, for as long as the entry stays in
   the index.

### Fairness

`BatchSetReturns` assumes weak fairness of the backup thread's steps: the operating
system keeps running a thread that can run. Nothing else is assumed: the lock is
only contended by `clear`, which that run leaves out, so weak fairness suffices.

## 4. HiCachePrefetch

### State and actions

A page of KV cache is named by the whole token prefix it ends; the chained hash of
the code stands for exactly that. `host` maps the keys of the tree to host pages,
`device` has the keys that also have a device value, `mem` is what each host page
really contains, `stored` what the storage has under each key. `ops` are the
`PrefetchOperation` objects (`hash` is the length of `hash_value`, `completed` is
`completed_tokens`), `ongoing` is `ongoing_prefetch`, `occupied` is
`prefetch_tokens_occupied`; the queues have their names. `host_ref_counter` is
derived (`Protected`): a node is protected by the prefetch that starts at it and
by a backup that is not acknowledged.

| Thread | Code | Action |
|---|---|---|
| scheduler | `_add_request_to_queue`, `_prefetch_kvcache`, `prefetch_from_storage` | `AddRequestToQueue` |
| | `check_prefetch_progress`, `_insert_helper_host` | `CheckPrefetchProgress` |
| | `abort_request`, `release_aborted_request` | `AbortRequest` |
| | `check_hicache_events`: `writing_check`, `drain_storage_control_queues` | `CheckHicacheEvents` |
| | `insert` with write-through; `_evict_backuped` | `Insert`, `EvictDevice` |
| | a request leaves the running batch | `FinishRequest` (external) |
| prefetch | `prefetch_thread_func`, `_storage_hit_query` | `QueryHits`, `Revoke` then `ReleaseRevoked`, or `HandOver` |
| IO | `prefetch_io_aux_func`, `_page_transfer`, `_generic_page_get` | `IoGet`, (`IoSetPage`, `IoIncrement`)*, `IoMissing`, `IoRelease` |
| backup | `backup_thread_func`, `_page_backup` | `BackupWrite` |
| storage | drops a page | `StorageEvict` (external) |

A scheduler handler is one action: it runs on one thread, and what it shares with
the others are thread-safe queues it takes a fixed number of items from, and the
operation's lock. The threads are split where another thread can observe them: the
hit query before its decision, the revoke before the release, setting a page
before counting it.

### Abstractions

- The other ranks are what they may answer: `Agreed(n)` is any number up to n,
  `Released` any part of the queue, and with several ranks `can_terminate_prefetch`
  may hold at any time. This allows every behaviour of a rank in a group, and more.
- The clock of the timeout policy is a free choice.
- A node is one page and is always backed up. Insert therefore needs its
  write-through allocation to succeed; device-only nodes, nodes of several pages and
  their splitting are in `HiRadixTree`.
- An operation fits one storage batch (128 pages in the code).
- The free list and the release queue are sets. A double free would be invisible
  in the sets alone; it is caught because `HostPagesConserved` counts every owner
  at every step.
- The eviction order of `evict_host` is arbitrary.
- `_page_get_zero_copy` and the draft model's pools are not modelled:
  DiskOffload uses the generic transfer.

### The ownership argument

The design depends on one rule nobody wrote down: pages 1..`completed` of an
operation belong to the scheduler while the operation is ongoing, the rest to the
thread it is with while it is in flight. `increment` refuses once the operation
is terminated, both under the operation's lock, so `completed` is final from
then on (`TerminatedIsFinal`) and the scheduler and the IO thread split
`host_indices` at the same place although they read the count at different times.
`HostPagesConserved` says that this adds up: every page has exactly one owner
among the free list, the release queue, the tree, the threads and the scheduler.

### What the runs check

| Run | Instance | Properties |
|---|---|---|
| `prefetch_tp` | one rank of a group, 3 host pages, timeout policy; either two requests with overlapping prompts, or one while others insert a shared and an unrelated key | `TypeOK`, `HostPagesConserved`, `HostPagesHoldTheirKey`, `StorageHoldsItsKey`, `TerminatedIsFinal`, `OccupiedExact` |
| `prefetch_wait` | single rank, `wait_complete`, one request, 2 host pages, a shared and an unrelated key inserted by others, `FairSpec` | `WaitingEnds`, `PagesComeBack`, `PrefetchNodeStays` |
| `prefetch_requeue` | a running request is retracted and queued again | violates `RevokeEndsItsOwn` |

- `HostPagesHoldTheirKey`: a host page the tree offers holds the KV cache of the
  prefix its node stands for. This is what makes a prefetch correct for the model:
  a wrong page would silently change the answer.
- `StorageHoldsItsKey`: the same for the storage; it needs the protection of a node
  between the queueing of its backup and the acknowledgement.
- `PrefetchNodeStays`: the node a prefetch will be attached to is not evicted.
- `OccupiedExact`: the rate limiter counts the ongoing prefetches, however they end.
- `WaitingEnds`: a request is not stuck behind its prefetch, even under
  `wait_complete` when the storage drops a page between query and transfer. It
  holds because a short transfer marks the operation terminated.
- `PagesComeBack`: a page taken for a prefetch becomes free or part of the tree.

Bounds: `MaxOps` bounds the prefetches of a behaviour (one or two). Three host
pages let two operations hold pages at once; two make every allocation compete with
the tree. The unrelated key `<<3>>` is needed: with prompt keys only, a page reused
too early would be refilled with the same content and go unnoticed. Two requests and
the unrelated key in one behaviour are out of TLC's reach in a quarter of an hour;
`Arrivals` makes a behaviour have the one or the other. Host pages are interchangeable, so their
permutations are a symmetry of `prefetch_tp`; the liveness run does not use it.
`Retracts` is FALSE in the passing runs, because finding 3 breaks
conservation when a request is queued twice.

Fairness of `FairSpec`: every thread that has work does it, and the scheduler loop,
which calls `check_hicache_events` in each iteration, keeps running. Weak fairness of
`CheckPrefetchProgress(r)` says that the scheduler looks at a waiting request again
and again, which it does as long as the running batch leaves room. No fairness of
arrivals, aborts, evictions or backups is assumed.

### Finding

3. `prefetch_requeue`: a revoke carries the request id, not the operation.
   A request that was scheduled before its prefetch was looked at, then retracted
   and queued again, has a second operation under the same id; the late revoke of the
   first removes the second from `ongoing_prefetch`. What the second completes is
   neither attached nor released.

## 5. HiRadixTree

The tree of `HiRadixCache` as the scheduler thread runs it, over the device and the
host tier, with the requests that use it: from `_add_request_to_queue` through the
prefill batch to `cache_finished_req`. `HiCachePrefetch` follows
the content of single pages through four threads; here nodes span several pages, are
split and locked, and pages are counted.

### State and actions

`cache.tree` maps a node to its record; a node is named by the pages of the whole path
that ends in it. A split adds a name for the upper half, and the old name stays with
the lower half, the object that the queues and `ongoing_*` dictionaries refer to.
`device` and `host` are the free pages of the two pools, `evictable_size_` and
`protected_size_` the counters of the code. `req` are the requests, `server` the pool
sizes, the prefill budget and the prompts of the behaviour. Two ghosts: `lost` counts
the host pages that nothing refers to any more, and `attached` tells of an entry of
`ongoing_backup` or `ongoing_prefetch` whether its node is still in the tree; the entry
itself outlives the node, as in the code.

| Code | Definition |
|---|---|
| `_add_request_to_queue`, `prefetch_from_storage` | `AddRequestToQueue` |
| `release_aborted_request` | `AbortRequest` |
| `_get_new_batch_prefill_raw` | `get_new_batch_prefill`: a `Turn` for each request of the queue, then `AllocExtend` |
| - `check_prefetch_progress`, `_insert_helper_host` | `check_prefetch_progress`, `Settled` |
| - `add_one_req`, `init_load_back`, `load_back`, `budget_state` | `add_one_req`, `Admit`, `Stop` and the operators of those names |
| - `prepare_for_extend`, `evict_from_tree_cache`, `alloc_extend` | `AllocExtend` |
| `cache_unfinished_req`, `cache_finished_req`, with `insert`, `_split_node`, `_inc_hit_count`, `write_backup` | actions of the same names |
| `writing_check`, `loading_check`, `drain_storage_control_queues` with its revokes | `check_hicache_events` |
| `flush_cache` when `is_fully_idle`, `reset` | `flush_cache` |

Each handler is one action, since one thread runs them all. Whatever they call is an
operator from a cache to the set of caches it may leave: `evict` and `evict_host` have
one for each order in which a strategy may take the leaves (`EvictSets`). The batch has
as its input the order of the waiting queue, which the policy chooses, and the number
of requests it looks at. The call of `check_hicache_events` at its start is the action of
that name.

### Abstractions and bounds

One rank. Counts of pages, not identities: that a page has the right content is the
subject of `HiCachePrefetch`. Generated tokens stay in the tail page. The threads
behind a prefetch are the number `m` of pages it completed, the storage may have any
page. Hits above the threshold are not told apart.

The adder's budgets are in pages too. The tokens behind the last whole page of the
prompts of a batch, and those its requests and the running ones may still generate, are
taken to make less than a page together, so that they add a tail page to each input and
nothing more. The model's adder thus reserves the least that the code's can and admits
the most. What is reserved is, for each request admitted before, its input and a
page (`rem_total_token_offset`), and the prefill budget (`rem_input_tokens`) falls by
its input. Chunked prefill, preemption, `batch_is_full` and the allocations of a decode
step are left out.

The pools have four to six device pages and one host page more (the code requires the
host pool to be the larger), so that requests are refused, loads fail for want of memory
and copies to the host find no room. A behaviour has one of three kinds of traffic: two
requests with prompts that end inside one another, one request with prompts that together
exceed host memory, or a request with short prompts beside one whose prompt continues
one of them and waits for its prefetch. Each kind has pools small enough for its prompts
to compete. The
prefill budget of three pages ends most batches after one request; with four device pages
and a budget of five, the memory is what ends them. `LoadBackThreshold` is two pages: `load_back_threshold` is 10 tokens, which
is more than one page of 8. Deadlock is checked: an idle scheduler can take a request.

### What the runs check

| Run | Instance | Properties |
|---|---|---|
| `hiradix_tree` | two requests, all three kinds of traffic | all below |
| `hiradix_leak` | one request, crowded host memory | violates `RegularEvictionOfLeaf` |

- `DevicePagesConserved`, `HostPagesConserved`: every page is free, in one node, with
  one request or prefetch. `insert` returns the number of pages the tree had, the
  caller frees that many of its own; with nodes evicted and recomputed in between the
  two must agree on which. `HostPagesConserved` counts `lost` as a place a page may
  be, and says that nothing but the deletion of finding 4 loses one.
- `SizesExact`: the sizes kept by deltas are the sizes of the unlocked and the locked
  device nodes. `add_one_req` admits against them.
- `LocksExact`: `lock_ref` counts the requests, copies and loads below a node, and
  `host_ref_counter` the backups and prefetches at it, also when the node was split
  after they took their lock.
- `EvictedFromTheEnd`: what `load_back` asserts ("No backup available on evicted nodes,
  should not happen").
- `TransfersKeepTheirPages`: no page is evicted under a GPU copy or a load.
- `StorageNodesStay`: the pages `backup_thread` is to read are still in the tree, also
  those of the upper half of a node that was split after it was handed over, which nothing
  protects but its child; and a prefetch finds the node it will be attached to. The
  deletion of finding 4 can take such a node out of the tree under the entry that keeps
  it. Then its pages are among the lost ones: the backup still reads its own pages.
- `AdmissionHonoured`: a batch gets its pages; "Prefill out of memory" is not raised, in
  whatever order leaves are evicted, however many requests the adder took, and although
  loads back took memory after the check. It is shown for the short tails and outputs
  described above.

### Finding

4. `hiradix_leak`: `write_backup` may fail for a node for want of host memory and then
   succeed for its smaller child. `evict` takes the child off the device, keeping its
   host copy, and then deletes the parent, which has none. The child is no longer
   reachable and its host pages are never freed. The later `hiradix_cache.py` in
   the vendored tree asserts at this place that the node is a leaf.

## 6. ds4-server

### Ds4Jobs: threads, queue, shutdown

One action is what a thread does between two operations on a mutex or a condition
variable. `client[c]` is where the thread of connection `c` stands, `worker` and
`main` the other two; a thread in `pthread_cond_wait` is "asleep", and both a signal
and a spurious wakeup send it back to its test.

| Code | Actions |
|---|---|
| `main`: accept loop | `Accept`, `Spawn`, `AcceptLoopEnds` |
| `client_main`, `enqueue`, `client_done` | `AnswerDirectly`, `Refused`, `enqueue`, `TestDone`, `client_done` |
| `worker_main`, `dequeue` | `dequeue`, `DequeueSleeps`, `DequeueNull`, `FinishJob` |
| `main`: way out | `StopWorker`, `JoinWorker`, `AwaitClients`, `Close` |
| `stop_signal_handler` | `stop_signal_handler` (first signal), `Die` (second) |

The handler closes the listening socket so that `accept` returns. The model takes the
signal to arrive in the main thread: closed from another thread, the socket would not
wake a blocked `accept`.

### Ds4Cache: session and checkpoints on disk

`session` is the one live session: its tokens, whether they are valid, and `graph`, the
history that the rows of the KV cache were really computed from (`Torn` after a failed
step). `files` are the checkpoints by the text they render to (the code's file name is
that text's SHA1), each with the tokens and the graph it was saved from and the size of
its tool map; `job` the locals of `generate_job`, `store`
those of `kv_cache_store_live_prefix`.

| Code | Definitions |
|---|---|
| `generate_job`: reuse of the session | `StartJob` with `HitMemory`, `MissMemory` |
| `kv_cache_try_load_text` | `Load`, `LoadResults` |
| cold prefix, prompt: `ds4_session_sync`, progress callback | `SyncTooLong`, `SyncAtOnce`, `SyncResume`, `SyncChunk`, `SyncFails`, `SyncEnd` |
| decode loop | `DecodeBegin`, `DecodeEnd`, `Sample`, `SampleEos`, `SampleStop`, `SampleFails` |
| canonicalization of a thinking turn or tool call | `Canonicalize`, `canonicalize` |
| `kv_cache_store_live_prefix` for a file that exists, `kv_cache_rewrite_tool_map` | `StorePrefix` with `RewriteToolMap` |
| `kv_cache_store_live_prefix`, `kv_cache_evict`, `kv_cache_open` | `StorePrefix`, `StoreRename`, `StoreFails`, `EvictOne`, `EvictEnd`, `Reopen` |

Texts are short sequences over three characters. The tokenizer (external) pairs
characters, which is enough for the difficulty of the code: a sampled history may
spell a text otherwise than the tokenizer would. A tool map is its size: how many calls
of a text the tool memory knows is a free choice at each write, since client threads
restore and prune it. `last_used` has a resolution of one
second, so entries of equal score are evicted in any order. There is one quantisation
and one context size; a power loss leaves a file short, never full-length with wrong
bytes.

### Ds4Server: the composition

`generate_job` is one step of `Ds4Jobs` and many of `Ds4Cache`. In `Ds4Server` the
worker enters it with `dequeue /\ StartJob` and leaves it with `FinishJob` when the job
is idle again; main stores the session before `Close`. A signal may come at any of the
steps, and so may a kill, which restarts the server on the files it left.

### What the runs check

| Run | Instance | Properties |
|---|---|---|
| `ds4_cache` | 3 jobs, 5 prompts, room for two or three files, 1 crash, 1 I/O or backend error | `DecodesItsPrompt`, `CheckpointsAreExact`, `WithinBudget`, `ReplacedSessionIsOnDisk` |
| `ds4_server` | 2 connections, 2 jobs, 3 prompts, 1 kill, `ServerSpec` | `JobOutlivesWorker`, `NoUseAfterClose`, `ShutdownPersists`, `RequestsEnd`, `ShutdownEnds`, `ImplementsJobs` |

- `DecodesItsPrompt`: whatever was reused (memory by tokens, memory by text, a file
  sampled in another spelling, a cold prefill cut in two), the model decodes from
  exactly the rendered prompt.
- `CheckpointsAreExact`: the tokens of a valid session and of every file are the history
  its rows were computed from, and a file renders to its name. A session whose rows and
  tokens came apart (a prompt that parts from it, a rewritten call, a failed step) is
  rebuilt before it is used or stored.
- `WithinBudget`: `--kv-disk-space-mb` holds outside a store for the checkpoints, also
  after a crash between a rename and its eviction pass. Tool maps are not counted: a
  store into an existing file rewrites its map and runs no eviction pass, so the
  directory may exceed the budget by what the maps grew, until the next pass.
- `ReplacedSessionIsOnDisk`, `ShutdownPersists`: a valid session is not dropped unsaved,
  by a request that replaces it or by a clean exit, unless an I/O error occurred or
  the eviction pass finds it worth least.
- `JobOutlivesWorker`: a job is on the stack of its client thread, which does not return
  while the worker can reach it.
- `NoUseAfterClose`: nothing is freed under another thread.
- `RequestsEnd`, `ShutdownEnds`: no wakeup is lost and no circle of waiting forms.
- `ImplementsJobs`: with the cache inside, the threads are still those of `Ds4Jobs`,
  fairness included: `generate_job` returns.

Bounds: `MaxJobs` lets a third job meet what the second left of the first. `MaxToolMap` is
one byte in `ds4_cache`, enough for a file to outgrow a full budget, and 0 in
`ds4_server`, which has no tool calls, thinking turns or I/O errors: its question is the
threads, and the failing paths of `generate_job` are those of `ds4_cache`. `ResumeMin`
is 2, so that suffixes are both decoded token by token and prefilled in chunks; the
properties of `ds4_cache` also hold with 1 and 3, and only with 3 does a token-by-token
extension fail half way. Deadlock is not checked: the server may stop, and the number
of jobs is bounded.

Fairness: each thread that can run does. That a client's read ends is the 10 s receive
timeout of its socket; `Ds4Server` needs no assumption on `generate_job` beyond the
worker's own steps. No fairness of arrivals, signals or kills is assumed.

## 7. What is proved

TLAPS checks the following for every value of the constants: every set of processes
and keys, every page size, budget, batch and number of faults; every set of
connections.

| Theorem | Statement | Assumptions beyond `ConstantsOK` |
|---|---|---|
| `TypeCorrect` | `Spec => []TypeOK` | none |
| `LockingCorrect` | `Spec => []LockedSections` | none |
| `CountingCorrect` | `Spec => []NeverUndercounts` | none |
| `BudgetCorrect` | `Spec => BudgetRestored` | a positive budget that every page fits alone |
| `EvictionOrderCorrect` | `Spec => []EvictsColdestFirst` | none |
| `PagesCorrect` | `Spec => []IndexedPagesWhole` | one process; no crash, no power loss |
| `AccountingCorrect` | `Spec => []AccountingExact` | nobody calls `clear` |
| `PageStoreCorrect` | `Spec => ImplementsPageStore` | one process; no crash, no power loss |
| `JobsTypeCorrect` | `JobsSpec => []JobsTypeOK` | |
| `JobLifetimeCorrect` | `JobsSpec => []JobOutlivesWorker` | |
| `CloseCorrect` | `JobsSpec => []NoUseAfterClose` | |

`disk_ghost` and `disk_stale_total` show why `PagesCorrect` excludes crashes and
`AccountingCorrect` excludes `clear`; with two processes, one may evict a file the
other still lists. `BudgetCorrect` needs its assumption because a page larger than
the budget is entered after everything else was evicted. `PageStoreCorrect` rests on
`PagesCorrect` and inherits its assumptions; the run `disk_crash` checks the
refinement with crashes too.

**The page store.** `Inv == TypeOK /\ LockedSections /\ NeverUndercounts` is inductive.
Counting alone is not: `AddEntry` adds the new page's size to the counter, which
matches the index only if the page was not listed before, and that is so because the
lock was held since `set` looked (`LockedSections`); an eviction subtracts a listed
size, which the counter covers because it counts at least the listed bytes; and
what a flush writes is safe only if the counter it read is still no smaller than the
pages it dumps, which is the conjunct on `data`: while the backup thread is between
reading and dumping, other threads can only remove pages or hold the lock out.
`BudgetRestored` follows at `AddEntry`: either the counter, which is never too low,
fits, or the sorted list is exhausted, and as it names every indexed page (again the
lock) the index is empty.

`DiskOffloadTypes` has the lemmas on `Used` (dropping, adding and touching an
entry) and the type step; `DiskOffloadLocks` the lock step;
`DiskOffloadProofs` the counting step and the conclusions.
`DiskOffloadStoreProofs` adds three inductive strengthenings on top of `Inv`: the
eviction order relative to the sorted list; that the page `set` has saved and not
yet entered is whole (`PagesWhole`); and that a flush's copy of the counter is
still the counter when it is written (`Exact`). `DiskOffloadRefinement` shows step by
step that an action removes at most one whole page, adds at most one, or leaves the
readable pages alone, and that the reader's steps are those of `PageStore`.

**The job queue.** `IInv == JobsTypeOK /\ Ownership /\ Phases /\ Counting`. The
lifetime of a job needs `Ownership`: a client is queued at most once, not while it is
current, and waits undone in both cases. `NoUseAfterClose` needs `Phases`, which
relates where main stands to `stopping`, the worker and the queue, and `Counting`:
`clients` is the number of client threads alive. Without the last, main's test of
`clients` says nothing about threads; it is proved with the library's facts on
cardinality, one thread added or removed at a time.

The types of `DiskOffload` and `Ds4Jobs` and the accounting under crashes are proved
and not repeated as runs.

Only model-checked: liveness (`BatchSetReturns`, `WaitingEnds`, `PagesComeBack`,
`RequestsEnd`, `ShutdownEnds`) and `ImplementsJobs`, which carries fairness, for
liveness and `ENABLED` are out of the prover's reach; `HiRadixTree`, whose `insert` is
a recursive operator; `HiCachePrefetch`, `Ds4Cache` and the rest of `Ds4Server`; of
`DiskOffload`, `ExistsMeansWhole`, `SavedBetweenBatches`, `DiskWithinBudget`,
`SetTrueMeansStored` and `ClearRemovesAllPages`. What recursive definitions compute
for every input would need induction over data, which the installed provers cannot
apply; the models that are proved about use cardinalities and folds instead.

## 8. What is not modelled

- **Page store**: `batch_exists_v2`, `batch_get_v2` and `batch_set_v2` over several
  pools; the deployed `HiRadixCache` does not call them.
- **Host tier**: `reset` restarting the controller's threads, `attach` and `detach` of a
  storage at run time, zero-copy transfers, draft model pools.
- **Radix tree and scheduler**: the write_back policy, chunked prefill, preemption and
  `batch_is_full`, the allocations of a decode step, retraction (only for prefetches, in
  `HiCachePrefetch`), per-layer events of a load, hybrid and
  disaggregated modes. Two ranks in one model, where the question would be a deadlock
  of collective calls: `HiCachePrefetch` has one rank and what the others may answer.
- **DeepSeek-V4 host pool**: layouts and index arithmetic of tensor views, without state
  of their own.
- **ds4-server**: decoding of several tokens a step by speculation, the contents of
  the tool memory (its copy inside a file is a size), mismatches of quantisation or context size, the contents of
  the tensors, parsing of requests and rendering of prompts.
- **Gateway and Anthropic proxy**: translations between message formats that share no
  state between requests.
- **For good**: numerical kernels and tokenization, HTTP and JSON, container start-up,
  tests and benchmarks.

## 9. Running

    tlc -workers 2 -config DiskOffload_crash.cfg MCDiskOffload
    tlc -workers 2 -config HiCachePrefetch_tp.cfg MCHiCachePrefetch
    tlc -workers 2 -config HiRadixTree.cfg MCHiRadixTree
    tlc -workers 2 -config Ds4Cache.cfg MCDs4Cache
    tlc -workers 2 -config Ds4Server.cfg MCDs4Server
    tlapm DiskOffloadRefinement.tla
    tlapm Ds4JobsProofs.tla

| Run | Distinct states | Time, two workers |
|---|---|---|
| `disk_crash` | 268,112 | 45 s |
| `disk_clear` | 18,949 | a few seconds |
| `disk_shared` | 718,009 | 65 s |
| `prefetch_tp` | 300,479 | 50 s |
| `prefetch_wait` | 67,096 | 90 s |
| `hiradix_tree` | 293,930 | 145 s |
| `ds4_cache` | 1,420,261 | 65 s |
| `ds4_server` | 80,326 | 80 to 105 s |
