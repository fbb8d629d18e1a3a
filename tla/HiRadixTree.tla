---------------------------- MODULE HiRadixTree ----------------------------
(***************************************************************************)
(* The radix tree of HiRadixCache over the device (L1) and host (L2)       *)
(* tiers, as the scheduler thread of one rank runs it.  Nodes span several *)
(* pages and are split; they are locked while a request, a GPU copy or a   *)
(* load uses them; the device tier is evicted to the host, and the host    *)
(* tier drops what no device node needs.                                   *)
(*                                                                         *)
(* A node is named by the pages of the whole path that ends in it, so a    *)
(* split adds a name and keeps the old one for the lower half: the object  *)
(* that ongoing_write_through, ongoing_load_back, ongoing_backup and       *)
(* ongoing_prefetch refer to.  Sizes are in pages; a pool is the number of *)
(* its free pages.  The policy is write_through or write_through_selective.*)
(***************************************************************************)
EXTENDS Naturals, FiniteSets, Sequences, SequencesExt

CONSTANTS
    Req,                \* request slots
    Servers,            \* servers and what clients send them, see server
    WriteThreshold,     \* write_through_threshold
    LoadBackThreshold,  \* load_back_threshold, in pages
    Prefetches          \* the storage backend is enabled

ASSUME TreeAssumption ==
    /\ \A s \in Servers : /\ s.traffic \in [Req -> SUBSET (Seq(Nat) \ {<<>>})]
                          /\ s.DevicePages \in Nat
                          /\ s.HostPages \in Nat /\ s.HostPages > s.DevicePages
                          /\ s.MaxPrefill \in Nat
    /\ WriteThreshold \in {1, 2}
    /\ LoadBackThreshold \in Nat
    /\ Prefetches \in BOOLEAN

VARIABLES
    cache,  \* the HiRadixCache and its memory pools, see EmptyCache
    req,    \* the requests, see Idle
    server  \* of this behaviour: DevicePages, the size of the device pool,
            \* HostPages, that of mem_pool_host, MaxPrefill, which is
            \* max_prefill_tokens, and traffic, the prompts (page-aligned
            \* keys) that a slot may get

vars == <<cache, req, server>>

\* An ongoing prefetch: last_host_node and the key its pages end.  attached,
\* here and in ongoing_backup, is not a field of the code: it tells whether the
\* node that the entry keeps can still be reached from the root.
NoPrefetch == [on |-> FALSE, node |-> <<>>, key |-> <<>>, attached |-> FALSE]
Idle == [pc |-> "idle", prompt |-> <<>>, node |-> <<>>, cached |-> 0]

\* A cache without nodes; the root is implicit.  lost counts the host pages
\* that no node of the tree and no operation refers to any more.
EmptyCache ==
    [tree |-> << >>, device |-> server.DevicePages, host |-> server.HostPages,
     evictable_size_ |-> 0, protected_size_ |-> 0,
     ack_write_queue |-> << >>, ack_load_queue |-> << >>,
     ongoing_backup |-> << >>,
     ongoing_prefetch |-> [r \in Req |-> NoPrefetch],
     lost |-> 0]

(***************************************************************************)
(* Nodes.                                                                  *)
(***************************************************************************)
Nodes(c) == DOMAIN c.tree

OnPath(c, x) == {p \in Nodes(c) : IsPrefix(p, x)}

KeyLen(c, p) ==
    Len(p) - Max({0} \cup {Len(q) : q \in OnPath(c, p) \ {p}})

Size(c, S) == MapThenSumSet(LAMBDA p : KeyLen(c, p), S)

OnDevice(c) == {p \in Nodes(c) : c.tree[p].value}
Backuped(c) == {p \in Nodes(c) : c.tree[p].host_value}
Unlocked(c) == {p \in OnDevice(c) : c.tree[p].lock_ref = 0}

\* The deepest of the nodes S, all on one path; the root if there is none.
Deepest(S) ==
    IF S = {} THEN <<>> ELSE CHOOSE p \in S : \A q \in S : Len(q) <= Len(p)

\* The pages of k that the tree has, on any tier.
Common(c, k) ==
    Deepest({m \in Prefixes(k) : \E p \in Nodes(c) : IsPrefix(m, p)})

\* Mutant: the upper half of a split node starts unlocked.
SplitUnlocked(c, m) ==
    IF m = <<>> \/ m \in Nodes(c) THEN c
    ELSE LET below == {p \in Nodes(c) : IsPrefix(m, p)}
             child == CHOOSE p \in below : \A q \in below : Len(p) <= Len(q)
         IN [c EXCEPT !.tree = @ @@
               (m :> [c.tree[child] EXCEPT !.lock_ref = 0,
                                           !.host_ref_counter = 0])]

\* _split_node: m becomes a node, the upper part of the node it is inside.
\* host_ref_counter stays with the lower part.
Split(c, m) ==
    IF m = <<>> \/ m \in Nodes(c) THEN c
    ELSE LET below == {p \in Nodes(c) : IsPrefix(m, p)}
             child == CHOOSE p \in below : \A q \in below : Len(p) <= Len(q)
         IN [c EXCEPT !.tree = @ @@
               (m :> [c.tree[child] EXCEPT !.host_ref_counter = 0])]

inc_lock_ref(c, x) ==
    LET P == OnPath(c, x)
        n == Size(c, {p \in P : c.tree[p].lock_ref = 0})
    IN [c EXCEPT
          !.tree = [p \in Nodes(c) |->
                      IF p \in P THEN [@[p] EXCEPT !.lock_ref = @ + 1]
                      ELSE @[p]],
          !.evictable_size_ = @ - n,
          !.protected_size_ = @ + n]

dec_lock_ref(c, x) ==
    LET P == OnPath(c, x)
        n == Size(c, {p \in P : c.tree[p].lock_ref = 1})
    IN [c EXCEPT
          !.tree = [p \in Nodes(c) |->
                      IF p \in P THEN [@[p] EXCEPT !.lock_ref = @ - 1]
                      ELSE @[p]],
          !.evictable_size_ = @ + n,
          !.protected_size_ = @ - n]

protect_host(c, x) ==
    IF x = <<>> THEN c
    ELSE [c EXCEPT !.tree[x].host_ref_counter = @ + 1]

release_host(c, x) ==
    IF x = <<>> THEN c
    ELSE [c EXCEPT !.tree[x].host_ref_counter = @ - 1]

(***************************************************************************)
(* Eviction.  Both loops take leaves off a heap until num_tokens are gone  *)
(* or no candidate is left, and push a parent whose children are all gone. *)
(* The order is the eviction strategy's; here it is any.                   *)
(***************************************************************************)
\* The sets of candidates that such a loop may evict from the nodes N: with a
\* node goes all that is below it, and the last one evicted was still needed.
EvictSets(c, N, candidates, n) ==
    {E \in SUBSET candidates :
        /\ \A p \in E, q \in N : IsStrictPrefix(p, q) => q \in E
        /\ IF Size(c, E) < n
             THEN \A p \in candidates \ E :
                     \E q \in N \ E : IsStrictPrefix(p, q)
             ELSE \E x \in E : /\ \A p \in E : ~IsStrictPrefix(p, x)
                               /\ Size(c, E \ {x}) < n}

Without(c, gone) == Restrict(c.tree, Nodes(c) \ gone)

\* Mutant: a node whose backup to the storage is not acknowledged is dropped.
evict_host_all(c, n) ==
    {[c EXCEPT !.tree = Without(c, E), !.host = @ + Size(c, E)] :
        E \in EvictSets(c, Nodes(c), Nodes(c) \ OnDevice(c), n)}

evict_host(c, n) ==
    LET candidates == {p \in Nodes(c) \ OnDevice(c) :
                          c.tree[p].host_ref_counter = 0}
    IN {[c EXCEPT !.tree = Without(c, E), !.host = @ + Size(c, E)] :
          E \in EvictSets(c, Nodes(c), candidates, n)}

\* An entry outlives its node: it is kept until it is acknowledged or ends.
Detached(entry, gone) ==
    IF entry.node \in gone THEN [entry EXCEPT !.attached = FALSE] ELSE entry

\* evict: a node with a host copy keeps it (_evict_backuped).  One without is
\* deleted (_evict_regular), and whatever hangs below it goes with it: nodes
\* that have only a host value, whose pages nothing frees.
Evict(c, E) ==
    LET gone == {p \in Nodes(c) :
                    \E x \in E \ Backuped(c) : IsPrefix(x, p)}
    IN [c EXCEPT
          !.tree = [p \in Nodes(c) \ gone |->
                      IF p \in E THEN [@[p] EXCEPT !.value = FALSE] ELSE @[p]],
          !.device = @ + Size(c, E),
          !.evictable_size_ = @ - Size(c, E),
          !.lost = @ + Size(c, gone \cap Backuped(c)),
          !.ongoing_backup = [i \in DOMAIN @ |-> Detached(@[i], gone)],
          !.ongoing_prefetch = [r \in Req |-> Detached(@[r], gone)]]

evict(c, n) ==
    {Evict(c, E) : E \in EvictSets(c, OnDevice(c), Unlocked(c), n)}

(***************************************************************************)
(* Backup to the host, and insertion.                                      *)
(***************************************************************************)
\* Mutant: the node is not locked while it is copied.
StartWriteUnlocked(c, x) ==
    LET n == KeyLen(c, x) IN
    [c EXCEPT !.host = @ - n,
              !.tree[x].host_value = TRUE,
              !.ack_write_queue =
                  Append(@, [node |-> x, from |-> Len(x) - n])]

\* cache_controller.write: the GPU copy of node x is started.  It covers the
\* pages x has now, and x stays locked until it is acknowledged.
StartWrite(c, x) ==
    LET n == KeyLen(c, x)
        d == [c EXCEPT !.host = @ - n,
                       !.tree[x].host_value = TRUE,
                       !.ack_write_queue =
                           Append(@, [node |-> x, from |-> Len(x) - n])]
    IN inc_lock_ref(d, x)

\* write_backup: when host memory is short even after evict_host, the node
\* stays without a copy.
write_backup(c, x) ==
    LET n == KeyLen(c, x) IN
    IF n <= c.host THEN {StartWrite(c, x)}
    ELSE {IF n <= d.host THEN StartWrite(d, x) ELSE d : d \in evict_host(c, n)}

\* _inc_hit_count.  Hits above the threshold are not told apart.
inc_hit_count(c, x) ==
    LET d == [c EXCEPT !.tree[x].hit_count = Min({@ + 1, WriteThreshold})]
    IN IF ~c.tree[x].host_value /\ d.tree[x].hit_count = WriteThreshold
         THEN write_backup(d, x) ELSE {d}

\* Mutant: the pages are not added to evictable_size_.
RevalueUncounted(c, x) == [c EXCEPT !.tree[x].value = TRUE]

\* A node evicted before is given the request's pages (recomputation).
Revalue(c, x) ==
    [c EXCEPT !.tree[x].value = TRUE,
              !.evictable_size_ = @ + KeyLen(c, x)]

NewNode(onDevice) ==
    [value |-> onDevice, host_value |-> ~onDevice, lock_ref |-> 0,
     hit_count |-> 0, host_ref_counter |-> 0]

AddLeaf(c, k) ==
    LET d == [c EXCEPT !.tree = @ @@ (k :> NewNode(TRUE))]
    IN [d EXCEPT !.evictable_size_ = @ + KeyLen(d, k)]

\* The walk of insert below node at; prefix is total_prefix_length so far.  A
\* backup on the way may evict_host what the walk has not reached yet.
RECURSIVE InsertBelow(_, _, _, _)
InsertBelow(c, at, k, prefix) ==
    LET ahead == {p \in Nodes(c) : /\ IsStrictPrefix(at, p)
                                   /\ at # k
                                   /\ IsPrefix(SubSeq(k, 1, Len(at) + 1), p)}
        child == CHOOSE p \in ahead : \A q \in ahead : Len(p) <= Len(q)
        m == LongestCommonPrefix({child, k})
        d == Split(c, m)
    IN IF at = k THEN {[cache |-> c, prefix_len |-> prefix]}
       ELSE IF ahead = {}
         THEN {[cache |-> e, prefix_len |-> prefix] :
                  e \in inc_hit_count(AddLeaf(c, k), k)}
       ELSE IF d.tree[m].value
         THEN UNION {InsertBelow(e, m, k, prefix + Len(m) - Len(at)) :
                        e \in inc_hit_count(d, m)}
         ELSE InsertBelow(Revalue(d, m), m, k, prefix)

insert(c, k) == InsertBelow(c, <<>>, k, 0)

(***************************************************************************)
(* Matching and loading back.                                              *)
(***************************************************************************)
\* match_prefix splits the node the match ends in.
match_prefix(c, k) == Split(c, Common(c, k))

LastNode(c, k) == Deepest(OnPath(c, k))
LastDeviceNode(c, k) == Deepest(OnPath(c, k) \cap OnDevice(c))
LastHostNode(c, k) == Deepest(OnPath(c, k) \cap Backuped(c))

\* len(device_indices): the pages of the nodes that have a device value.
DeviceHit(c, k) == Size(c, OnPath(c, k) \cap OnDevice(c))

\* The pages of nodes_to_load are allocated and their copy is started; the
\* last node is locked until it is acknowledged.
StartLoad(c, x, toLoad) ==
    LET n == Size(c, toLoad)
        d == [c EXCEPT
                !.tree = [p \in Nodes(c) |->
                            IF p \in toLoad
                            THEN [c.tree[p] EXCEPT !.value = TRUE]
                            ELSE c.tree[p]],
                !.device = @ - n,
                !.evictable_size_ = @ + n,
                !.ack_load_queue = Append(@, x)]
    IN inc_lock_ref(d, x)

\* Mutant: only the last node is loaded, not the evicted ones above it.
load_back_last(c, x) ==
    LET n == KeyLen(c, x) IN
    IF n < LoadBackThreshold THEN {c}
    ELSE {IF n <= d.device THEN StartLoad(d, x, {x}) ELSE d :
            d \in IF n <= c.device THEN {c} ELSE evict(c, n)}

\* load_back of the evicted nodes that end in x: all or nothing.  The deepest
\* device node is locked while memory is evicted for them.
load_back(c, x) ==
    LET toLoad == OnPath(c, x) \ OnDevice(c)
        ancestor == LastDeviceNode(c, x)
        n == Size(c, toLoad)
        locked == inc_lock_ref(c, ancestor)
    IN IF n < LoadBackThreshold THEN {c}
       ELSE {LET e == dec_lock_ref(d, ancestor) IN
             IF n <= e.device THEN StartLoad(e, x, toLoad) ELSE e :
               d \in IF n <= c.device THEN {locked} ELSE evict(locked, n)}

\* init_load_back is called when the match ended in evicted nodes.
init_load_back(c, x) == IF x \in OnDevice(c) \cup {<<>>} THEN {c}
                        ELSE load_back(c, x)

(***************************************************************************)
(* The requests.                                                           *)
(***************************************************************************)
PrefetchPages(c, r) ==
    Len(c.ongoing_prefetch[r].key) - Len(c.ongoing_prefetch[r].node)

Occupied(c) == MapThenSumSet(LAMBDA r : PrefetchPages(c, r), Req)

prefetch_rate_limited(c) == 10 * Occupied(c) >= 8 * (server.HostPages - server.DevicePages)

\* prefetch_from_storage: what the tree does not have of k, under the deepest
\* node with a host copy.  When the match ended in a node without a copy, the
\* pages asked for are those of another key.
prefetch_from_storage(c, r, k) ==
    LET node == LastHostNode(c, k)
        n == Len(k) - Len(LastNode(c, k))
        protected == protect_host(c, node)
        start(d) == [d EXCEPT
            !.host = @ - n,
            !.ongoing_prefetch[r] =
                [on |-> TRUE, node |-> node, attached |-> TRUE,
                 key |-> node \o SubSeq(k, Len(k) - n + 1, Len(k))]]
    IN IF ~Prefetches \/ n = 0 \/ prefetch_rate_limited(c) THEN {c}
       ELSE {IF n <= d.host THEN start(d) ELSE release_host(d, node) :
               d \in IF n <= c.host THEN {protected}
                     ELSE evict_host(protected, n)}

\* _add_request_to_queue.
AddRequestToQueue(r, k) ==
    /\ req[r].pc = "idle"
    /\ cache' \in prefetch_from_storage(match_prefix(cache, k), r, k)
    /\ req' = [req EXCEPT ![r] = [Idle EXCEPT !.pc = "waiting", !.prompt = k]]
    /\ UNCHANGED server

\* Mutant: the pages the tree had already are not freed.
SettleKeepsMatched(c, r, m) ==
    LET op == c.ongoing_prefetch[r]
        t == SubSeq(op.key, 1, Len(op.node) + m)
        d == release_host(Split(c, Common(c, t)), op.node)
    IN [d EXCEPT
          !.tree = IF t \in Nodes(d) \cup {<<>>} THEN @
                   ELSE @ @@ (t :> NewNode(FALSE)),
          !.host = @ + Len(op.key) - Len(t),
          !.ongoing_prefetch[r] = NoPrefetch]

\* check_prefetch_progress with m pages completed, _insert_helper_host: they
\* become a node below what the tree has of them, and the pages it has are
\* freed, as are those that were not completed.
Settle(c, r, m) ==
    LET op == c.ongoing_prefetch[r]
        t == SubSeq(op.key, 1, Len(op.node) + m)
        matched == Len(Common(c, t)) - Len(op.node)
        d == release_host(Split(c, Common(c, t)), op.node)
    IN [d EXCEPT
          !.tree = IF t \in Nodes(d) \cup {<<>>} THEN @
                   ELSE @ @@ (t :> NewNode(FALSE)),
          !.host = @ + matched + (Len(op.key) - Len(t)),
          !.ongoing_prefetch[r] = NoPrefetch]

\* The same when last_host_node was dropped from the tree: only pages that
\* its own lost children match are freed.
SettleDetached(c, r, m) ==
    LET op == c.ongoing_prefetch[r] IN
    {[c EXCEPT !.lost = @ + m - matched,
               !.host = @ + matched + Len(op.key) - Len(op.node) - m,
               !.ongoing_prefetch[r] = NoPrefetch] : matched \in 0..m}

Settled(c, r, m) == IF c.ongoing_prefetch[r].attached THEN {Settle(c, r, m)}
                    ELSE SettleDetached(c, r, m)

\* A waiting request is aborted (release_aborted_request), or its prefetch is
\* revoked by a storage that has too little of it: nothing is attached.
Ended(c, r) == IF c.ongoing_prefetch[r].on THEN Settled(c, r, 0) ELSE {c}

AbortRequest(r) ==
    /\ req[r].pc = "waiting"
    /\ cache' \in Ended(cache, r)
    /\ req' = [req EXCEPT ![r] = Idle]
    /\ UNCHANGED server

(***************************************************************************)
(* The prefill batch.  PrefillAdder: [cache, req, can_run, open], where    *)
(* open is CONTINUE.  Sizes are in whole pages: the tokens behind the last *)
(* whole page of the prompts of a batch, and those that its requests and   *)
(* the running ones may still generate, make less than one page together.  *)
(* It is the least the adder reserves, so it admits the most.              *)
(***************************************************************************)
NewPages(a, r) == Len(a.req[r].prompt) - a.req[r].cached

\* input_tokens: the tail takes a page.
InputPages(a, r) == NewPages(a, r) + 1

rem_input_tokens(a) ==
    server.MaxPrefill - MapThenSumSet(LAMBDA r : InputPages(a, r), a.can_run)

\* Mutant: nothing is reserved for the requests admitted before.
NothingReserved(a) == 0

\* rem_total_token_offset of the requests admitted: their input and a page.
rem_total_token_offset(a) ==
    MapThenSumSet(LAMBDA r : InputPages(a, r) + 1, a.can_run)

\* A request that needs n pages, the tokens behind them and one page to align
\* is below rem_total_tokens.
Fits(a, c, n) ==
    n + 2 + rem_total_token_offset(a) <= c.device + c.evictable_size_

InputFits(a, n) == a.can_run = {} \/ n < rem_input_tokens(a)

\* budget_state after a request was added.
budget_state(a) ==
    /\ rem_total_token_offset(a) < a.cache.device + a.cache.evictable_size_
    /\ rem_input_tokens(a) > 0

Stop(a, c) == [a EXCEPT !.cache = c, !.open = FALSE]

\* The request is admitted with what the tree has of it on the device.
Admit(a, c, r) ==
    LET k == a.req[r].prompt
        b == [a EXCEPT !.cache = inc_lock_ref(c, LastDeviceNode(c, k)),
                       !.req[r].node = LastDeviceNode(c, k),
                       !.req[r].cached = DeviceHit(c, k),
                       !.can_run = @ \cup {r}]
    IN [b EXCEPT !.open = budget_state(b)]

\* init_next_round_input and add_one_req.  The matched device node is locked
\* while the budget is checked and the host part is loaded back.  When it was
\* not loaded, the request may be too long for the batch after all.
add_one_req(a, r) ==
    LET k == a.req[r].prompt
        c == match_prefix(a.cache, k)
        first == LastDeviceNode(c, k)
        locked == inc_lock_ref(c, first)
        n == Len(k) - DeviceHit(c, k)
        host_hit == Size(c, OnPath(c, k) \ OnDevice(c))
        after(d) == Len(k) - DeviceHit(d, k) + 1
        unlock(b) == [b EXCEPT !.cache = dec_lock_ref(@, first)]
    IN IF ~Fits(a, locked, n) \/ ~InputFits(a, n - host_hit + 1) THEN {Stop(a, c)}
       ELSE {unlock(IF InputFits(a, after(d)) THEN Admit(a, d, r) ELSE Stop(a, d)) :
               d \in init_load_back(locked, LastNode(c, k))}

\* check_prefetch_progress with any number of pages completed.
check_prefetch_progress(c, r) ==
    UNION {Settled(c, r, m) : m \in 0..PrefetchPages(c, r)}

\* The turn of request r.  It is skipped while its prefetch may not end.
Turn(a, r) ==
    IF ~a.open THEN {a}
    ELSE IF ~a.cache.ongoing_prefetch[r].on THEN add_one_req(a, r)
    ELSE {a} \cup UNION {add_one_req([a EXCEPT !.cache = c], r) :
                           c \in check_prefetch_progress(a.cache, r)}

\* prepare_for_extend: alloc_paged_token_slots_extend for the whole batch
\* evicts once and takes the pages, or raises "Prefill out of memory".
AllocExtend(a) ==
    LET n == MapThenSumSet(LAMBDA r : InputPages(a, r), a.can_run)
        pc(d) == IF n <= d.device THEN "prefill" ELSE "oom"
    IN {[cache |-> [d EXCEPT !.device = IF n <= @ THEN @ - n ELSE @],
         req |-> [r \in Req |-> IF r \in a.can_run
                                THEN [a.req[r] EXCEPT !.pc = pc(d)] ELSE a.req[r]]] :
          d \in IF a.can_run = {} \/ a.cache.device > n THEN {a.cache}
                ELSE evict(a.cache, n + 1)}

\* _get_new_batch_prefill_raw after its check_hicache_events, which is an
\* action of its own.  The policy orders the queue, and the limit on running
\* requests may end the loop before any of them.
get_new_batch_prefill ==
    LET waiting == {r \in Req : req[r].pc = "waiting"}
        adder == [cache |-> cache, req |-> req, can_run |-> {}, open |-> TRUE]
    IN /\ \E queue \in UNION {SetToSeqs(S) : S \in SUBSET waiting \ {{}}} :
          \E a \in FoldLeft(LAMBDA A, r : UNION {Turn(a, r) : a \in A},
                           {adder}, queue) :
          \E b \in AllocExtend(a) :
             cache' = b.cache /\ req' = b.req
       /\ UNCHANGED server

\* Mutant: pages computed again are not freed.
FreeNoDuplicates(c, from, to) == c

\* kv_indices[cache_protected_len : prefix_len] are in the tree already.
FreeDuplicates(c, from, to) ==
    [c EXCEPT !.device = @ + IF from < to THEN to - from ELSE 0]

\* cache_unfinished_req: the prompt enters the tree, and the request's lock
\* moves to the last node matched.
cache_unfinished_req(r) ==
    LET q == req[r] IN
    /\ q.pc = "prefill"
    /\ \E i \in insert(cache, q.prompt) :
         LET c == FreeDuplicates(i.cache, q.cached, i.prefix_len)
             d == match_prefix(c, q.prompt)
             last == LastDeviceNode(d, q.prompt)
         IN /\ cache' = inc_lock_ref(dec_lock_ref(d, q.node), last)
            /\ req' = [req EXCEPT ![r] =
                         [q EXCEPT !.pc = "decode", !.node = last,
                                   !.cached = DeviceHit(d, q.prompt)]]
    /\ UNCHANGED server

\* cache_finished_req: what is new enters the tree, the tail is freed.
cache_finished_req(r) ==
    LET q == req[r] IN
    /\ q.pc = "decode"
    /\ \E i \in insert(cache, q.prompt) :
         LET c == FreeDuplicates(i.cache, q.cached, i.prefix_len)
         IN cache' = dec_lock_ref([c EXCEPT !.device = @ + 1], q.node)
    /\ req' = [req EXCEPT ![r] = Idle]
    /\ UNCHANGED server

(***************************************************************************)
(* check_hicache_events, and flush_cache.                                  *)
(***************************************************************************)
\* A write-through is acknowledged: its node, as it is now, is unlocked and
\* goes on to the storage.
Acknowledge(c, op) ==
    LET d == dec_lock_ref(c, op.node) IN
    IF Prefetches
      THEN [protect_host(d, op.node) EXCEPT
              !.ongoing_backup =
                  Append(@, [node |-> op.node, attached |-> TRUE,
                             from |-> Len(op.node) - KeyLen(d, op.node)])]
      ELSE d

Drop(q, n) == SubSeq(q, n + 1, Len(q))

\* A backup to the storage is acknowledged.  The counter of a node that was
\* deleted is out of the tree.
BackupDone(c, entry) ==
    IF entry.attached THEN release_host(c, entry.node) ELSE c

\* The GPU finished the first w copies to the host and the first l loads, the
\* prefetches of the requests V are revoked, and backup_thread acknowledged
\* its first b nodes.
check_hicache_events(w, l, V, b) ==
    LET c == FoldLeft(Acknowledge, cache, SubSeq(cache.ack_write_queue, 1, w))
        d == FoldLeft(dec_lock_ref, c, SubSeq(cache.ack_load_queue, 1, l))
        revoked == FoldLeft(LAMBDA C, r : UNION {Ended(x, r) : x \in C},
                            {d}, SetToSeq(V))
    IN /\ \E x \in revoked :
            LET e == FoldLeft(BackupDone, x, SubSeq(cache.ongoing_backup, 1, b))
            IN cache' = [e EXCEPT !.ack_write_queue = Drop(@, w),
                                  !.ack_load_queue = Drop(@, l),
                                  !.ongoing_backup = Drop(@, b)]
       /\ UNCHANGED <<req, server>>

\* flush_cache when is_fully_idle: reset of the tree and of both pools.
flush_cache ==
    /\ \A r \in Req : req[r].pc = "idle"
    /\ cache.ack_write_queue = << >> /\ cache.ack_load_queue = << >>
    /\ cache.ongoing_backup = << >>
    /\ \A r \in Req : ~cache.ongoing_prefetch[r].on
    /\ cache' = EmptyCache
    /\ UNCHANGED <<req, server>>

Init ==
    /\ server \in Servers
    /\ cache = EmptyCache
    /\ req = [r \in Req |-> Idle]

Events ==
    \E w \in 0..Len(cache.ack_write_queue), l \in 0..Len(cache.ack_load_queue),
       V \in SUBSET {r \in Req : cache.ongoing_prefetch[r].on},
       b \in 0..Len(cache.ongoing_backup) :
        /\ w + l + b > 0 \/ V # {}
        /\ check_hicache_events(w, l, V, b)

Next ==
    \/ \E r \in Req : \E k \in server.traffic[r] : AddRequestToQueue(r, k)
    \/ \E r \in Req : AbortRequest(r)
    \/ get_new_batch_prefill
    \/ \E r \in Req : cache_unfinished_req(r)
    \/ \E r \in Req : cache_finished_req(r)
    \/ Events
    \/ flush_cache

Spec == Init /\ [][Next]_vars

(***************************************************************************)
(* Properties.                                                             *)
(***************************************************************************)
Running == {r \in Req : req[r].pc \in {"prefill", "decode"}}

\* Every device page is free, in exactly one node of the tree, or held by
\* exactly one running request, whatever insert, evict, load_back and the
\* freeing of duplicates do to a key that is in the tree in part.
DevicePagesConserved ==
    cache.device + Size(cache, OnDevice(cache))
      + MapThenSumSet(LAMBDA r : Len(req[r].prompt) - req[r].cached + 1, Running)
    = server.DevicePages

\* Every host page is free, in one node, held by one prefetch, or was lost by
\* the deletion of a node above it: nothing else loses a host page or frees it
\* twice.
HostPagesConserved ==
    cache.host + Size(cache, Backuped(cache)) + cache.lost
      + Occupied(cache)
    = server.HostPages

\* evictable_size_ and protected_size_, kept up by deltas in insert, load_back,
\* evict and the lock walks, are the sizes of the unlocked and locked device
\* nodes: the scheduler admits requests against them.
SizesExact ==
    /\ cache.evictable_size_ = Size(cache, Unlocked(cache))
    /\ cache.protected_size_ =
         Size(cache, OnDevice(cache) \ Unlocked(cache))

\* lock_ref counts the running requests, copies to the host and loads that end
\* at or below the node, and host_ref_counter the backups and prefetches at the
\* node itself, also after the node was split under them.
LocksExact ==
    \A p \in Nodes(cache) :
     /\ cache.tree[p].host_ref_counter =
            Cardinality({i \in DOMAIN cache.ongoing_backup :
                           /\ cache.ongoing_backup[i].attached
                           /\ cache.ongoing_backup[i].node = p})
          + Cardinality({r \in Req : /\ cache.ongoing_prefetch[r].attached
                                     /\ cache.ongoing_prefetch[r].node = p})
     /\ cache.tree[p].lock_ref =
            Cardinality({r \in Running : IsPrefix(p, req[r].node)})
          + Cardinality({i \in DOMAIN cache.ack_write_queue :
                           IsPrefix(p, cache.ack_write_queue[i].node)})
          + Cardinality({i \in DOMAIN cache.ack_load_queue :
                           IsPrefix(p, cache.ack_load_queue[i])})

\* What load_back relies on: a node off the device has a host copy ("No backup
\* available on evicted nodes, should not happen"), and the device part of a
\* path is a prefix of it.
EvictedFromTheEnd ==
    /\ Nodes(cache) = OnDevice(cache) \cup Backuped(cache)
    /\ \A p \in OnDevice(cache) : OnPath(cache, p) \subseteq OnDevice(cache)

\* A GPU copy or load that is not acknowledged still owns its pages on both
\* tiers, whatever was evicted or split meanwhile.
TransfersKeepTheirPages ==
    LET pinned == OnDevice(cache) \cap Backuped(cache)
    IN /\ \A i \in DOMAIN cache.ack_write_queue :
            LET op == cache.ack_write_queue[i] IN
            {p \in OnPath(cache, op.node) : Len(p) > op.from} \cup {op.node}
              \subseteq pinned
       /\ \A x \in Range(cache.ack_load_queue) : x \in pinned

\* backup_thread reads host pages that are still those of its node: every page
\* that was handed to it is in the tree, also when the node was split and only
\* the lower half is protected.  A prefetch finds the node it will be attached
\* to.  Only the deletion of a node above can take such a node out of the tree;
\* then its pages are lost, not free for another node.
StorageNodesStay ==
    LET backups == cache.ongoing_backup
        detached == {i \in DOMAIN backups : ~backups[i].attached}
    IN /\ \A i \in DOMAIN backups \ detached :
            {p \in OnPath(cache, backups[i].node) : Len(p) > backups[i].from}
              \cup {backups[i].node} \subseteq Backuped(cache)
       /\ MapThenSumSet(LAMBDA i : Len(backups[i].node) - backups[i].from, detached)
            <= cache.lost
       /\ \A r \in Req : cache.ongoing_prefetch[r].attached =>
            cache.ongoing_prefetch[r].node \in Backuped(cache) \cup {<<>>}

\* A batch that add_one_req filled gets its pages: what evictable_size_ promises,
\* evict delivers in any order, whatever the requests admitted or refused in
\* between loaded back, so "Prefill out of memory" is not raised when the
\* requests' tails and tokens to generate are short (see the batch above).
AdmissionHonoured == \A r \in Req : req[r].pc # "oom"

\* _evict_regular deletes leaves only ("assert len(node.children) == 0" in the
\* vendored hiradix_cache.py), so that no host page is lost below a deleted node.
RegularEvictionOfLeaf == cache.lost = 0
====
