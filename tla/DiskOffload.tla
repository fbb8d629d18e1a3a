---------------------------- MODULE DiskOffload ----------------------------
(***************************************************************************)
(* The SSD tier of the KV cache: DiskOffloadBackend, which keeps one file   *)
(* per KV page and one JSON index with the size and last access of every    *)
(* page, and evicts least-recently-accessed pages to stay in a byte budget. *)
(*                                                                         *)
(* Every scheduler process (one per tensor-parallel rank) owns one backend  *)
(* object; they all point at the same directory.  In a process three        *)
(* threads call the backend: the backup thread (batch_set), the prefetch    *)
(* threads (batch_exists, then get) and the scheduler thread (clear).       *)
(* Only set and clear take the lock.                                        *)
(***************************************************************************)
EXTENDS Integers, FiniteSets, Sequences

CONSTANTS
    Proc,          \* scheduler processes sharing disk_offload_dir
    Key,           \* page keys (hash strings)
    PageBytes,     \* bytes torch.save writes for the page of a key
    MaxDiskBytes,  \* max_disk_bytes; 0 or less means no budget
    Batches,       \* key sequences the backup thread may pass to batch_set
    Calls,         \* what else calls the backend: a subset of {"get", "clear"}
    Faults,        \* a subset of {"crash", "ioerror", "powerloss"}
    MaxFaults,     \* bound on the number of faults
    MaxClock       \* the clock stops here: later accesses tie

ASSUME ConstantsOK ==
    /\ IsFiniteSet(Key) /\ Key # {}
    /\ PageBytes \in [Key -> Nat \ {0}]
    /\ MaxDiskBytes \in Int
    /\ MaxFaults \in Nat
    /\ MaxClock \in Nat
    /\ Batches \subseteq Seq(Key)

VARIABLES
    files,        \* pages/: key -> [len, mtime]
    index_json,   \* index.json
    tmp_json,     \* index.json.tmp
    index,        \* process -> _index, key -> [size, last_access]
    total_bytes,  \* process -> _total_bytes
    dirty,        \* process -> _dirty
    lock,         \* process -> holder of _lock
    pc,           \* process -> thread -> where the thread stands
    call,         \* process -> thread -> the caller of _flush_index
    fd,           \* process -> thread -> the file its open tmp handle now is
    data,         \* process -> thread -> the total_bytes _save_index read
    dumping,      \* process -> thread -> keys when json.dump began to iterate
    todo,         \* process -> keys batch_set has still to set, Head the current
    needed,       \* process -> sz, the bytes _enforce_budget makes room for
    evictable,    \* process -> key -> last_access, as _enforce_budget sorted them
    reader,       \* process -> the prefetch thread: [pc, key]
    clock, faults

mem == <<index, total_bytes, dirty>>
disk == <<files, index_json, tmp_json>>
flushing == <<call, fd, data, dumping>>
batch == <<todo, needed, evictable>>
vars == <<disk, mem, lock, pc, flushing, batch, reader, clock, faults>>

Thread == {"backup", "sched"}

Put(f, k, v) == [x \in DOMAIN f \cup {k} |-> IF x = k THEN v ELSE f[x]]
Drop(f, k) == [x \in DOMAIN f \ {k} |-> f[x]]
Empty == [x \in {} |-> 0]

(* The bytes the pages of an index occupy, as a set of (key, byte) pairs:   *)
(* its cardinality is the sum of the entries' sizes.                        *)
Bytes(idx) == UNION {{k} \X (1 .. idx[k].size) : k \in DOMAIN idx}
Used(idx) == Cardinality(Bytes(idx))

(* Contents of index.json or of its temporary file.                         *)
Json(idx, total) == [kind |-> "json", pages |-> idx, total_bytes |-> total]
Absent == [kind |-> "absent", pages |-> Empty, total_bytes |-> 0]
Truncated == [kind |-> "truncated", pages |-> Empty, total_bytes |-> 0]
Corrupt == [kind |-> "corrupt", pages |-> Empty, total_bytes |-> 0]

Whole(k) == k \in DOMAIN files /\ files[k].len = PageBytes[k]

Now == IF clock < MaxClock THEN clock + 1 ELSE clock

-----------------------------------------------------------------------------
(* Index persistence *)

rebuild_index ==
    [k \in DOMAIN files |-> [size |-> files[k].len, last_access |-> files[k].mtime]]

(* Mutant: every start lists the directory.                                 *)
load_index_always_rebuilds(json) == Json(rebuild_index, Used(rebuild_index))

load_index(json) ==
    CASE json.kind = "absent"  -> Json(Empty, 0)
      [] json.kind = "json"    -> json
      [] OTHER                 -> Json(rebuild_index, Used(rebuild_index))

Goto(p, t, where) == pc' = [pc EXCEPT ![p][t] = where]

(* Mutant: batch_set does not advance to the next key.                      *)
ReturnFromSet_stays(p) ==
    /\ lock' = [lock EXCEPT ![p] = "free"]
    /\ todo' = todo
    /\ Goto(p, "backup", "next")

(* The current set call is over: the lock is free, batch_set goes on.       *)
ReturnFromSet(p) ==
    /\ lock' = [lock EXCEPT ![p] = "free"]
    /\ todo' = [todo EXCEPT ![p] = Tail(@)]
    /\ Goto(p, "backup", "next")

(* _flush_index returned to its caller.                                     *)
FlushReturns(p, t) ==
    \/ /\ call[p][t] \in {"hit", "new"}
       /\ ReturnFromSet(p)
    \/ /\ call[p][t] = "batch"
       /\ Goto(p, t, "idle")
       /\ UNCHANGED <<lock, todo>>
    \/ /\ call[p][t] = "clear"
       /\ lock' = [lock EXCEPT ![p] = "free"]
       /\ Goto(p, t, "idle")
       /\ UNCHANGED todo

(* _flush_index raised.  Only the call for a new page is inside set's try;  *)
(* clear's caller catches; anywhere else the backup thread ends.            *)
FlushRaises(p, t) ==
    \/ /\ call[p][t] = "new"
       /\ ReturnFromSet(p)
    \/ /\ call[p][t] = "hit"
       /\ lock' = [lock EXCEPT ![p] = "free"]
       /\ Goto(p, t, "dead")
       /\ UNCHANGED todo
    \/ /\ call[p][t] = "batch"
       /\ Goto(p, t, "dead")
       /\ UNCHANGED <<lock, todo>>
    \/ /\ call[p][t] = "clear"
       /\ lock' = [lock EXCEPT ![p] = "free"]
       /\ Goto(p, t, "idle")
       /\ UNCHANGED todo

FlushSkip(p, t) ==
    /\ pc[p][t] = "flush"
    /\ ~dirty[p]
    /\ FlushReturns(p, t)
    /\ UNCHANGED <<disk, mem, flushing, needed, evictable, reader, clock, faults>>

(* _save_index reads the counter now; the pages it names are the live dict.  *)
FlushBuild(p, t) ==
    /\ pc[p][t] = "flush"
    /\ dirty[p]
    /\ data' = [data EXCEPT ![p][t] = total_bytes[p]]
    /\ Goto(p, t, "build")
    /\ UNCHANGED <<disk, mem, lock, call, fd, dumping, batch, reader, clock, faults>>

(* open(tmp, "w"): creates the file or truncates the one another writer has *)
(* open.                                                                    *)
FlushOpen(p, t) ==
    /\ pc[p][t] = "build"
    /\ tmp_json' = Truncated
    /\ fd' = [fd EXCEPT ![p][t] = "tmp"]
    /\ Goto(p, t, "open")
    /\ UNCHANGED <<files, index_json, mem, lock, call, data, dumping, batch, reader, clock, faults>>

(* json.dump begins to iterate over the pages.                              *)
FlushIterate(p, t) ==
    /\ pc[p][t] = "open"
    /\ dumping' = [dumping EXCEPT ![p][t] = DOMAIN index[p]]
    /\ Goto(p, t, "dump")
    /\ UNCHANGED <<disk, mem, lock, call, fd, data, batch, reader, clock, faults>>

(* Two writers have the file behind this handle open, or had.               *)
SharedHandle(p, t) ==
    \/ (IF fd[p][t] = "tmp" THEN tmp_json ELSE index_json).kind # "truncated"
    \/ \E q \in Proc, u \in Thread : <<q, u>> # <<p, t>> /\ fd[q][u] = fd[p][t]

(* The file behind the handle now holds json; the handle is closed.         *)
WriteHandle(p, t, json) ==
    /\ tmp_json' = IF fd[p][t] = "tmp" THEN json ELSE tmp_json
    /\ index_json' = IF fd[p][t] = "index" THEN json ELSE index_json
    /\ fd' = [fd EXCEPT ![p][t] = "none"]
    /\ data' = [data EXCEPT ![p][t] = 0]
    /\ dumping' = [dumping EXCEPT ![p][t] = {}]

Dumped(p, t) ==
    {Json(index[p], data[p][t])} \cup (IF SharedHandle(p, t) THEN {Corrupt} ELSE {})

FlushDump(p, t) ==
    /\ pc[p][t] = "dump"
    /\ DOMAIN index[p] = dumping[p][t]
    /\ \E json \in Dumped(p, t) : WriteHandle(p, t, json)
    /\ Goto(p, t, "replace")
    /\ UNCHANGED <<files, mem, lock, call, batch, reader, clock, faults>>

(* "dictionary changed size during iteration", or the disk refuses the      *)
(* write: part of the text stays in the temporary file.                     *)
FlushDumpRaises(p, t) ==
    /\ pc[p][t] = "dump"
    /\ \/ /\ DOMAIN index[p] # dumping[p][t]
          /\ UNCHANGED faults
       \/ /\ "ioerror" \in Faults
          /\ faults < MaxFaults
          /\ faults' = faults + 1
    /\ WriteHandle(p, t, Corrupt)
    /\ FlushRaises(p, t)
    /\ UNCHANGED <<files, mem, call, needed, evictable, reader, clock>>

(* os.replace(tmp, index.json), then _dirty = False.                        *)
FlushReplace(p, t) ==
    /\ pc[p][t] = "replace"
    /\ tmp_json.kind # "absent"
    /\ index_json' = tmp_json
    /\ tmp_json' = Absent
    /\ fd' = [q \in Proc |-> [u \in Thread |-> IF fd[q][u] = "tmp" THEN "index" ELSE "none"]]
    /\ dirty' = [dirty EXCEPT ![p] = FALSE]
    /\ FlushReturns(p, t)
    /\ UNCHANGED <<files, index, total_bytes, call, data, dumping, needed, evictable,
                   reader, clock, faults>>

FlushReplaceRaises(p, t) ==
    /\ pc[p][t] = "replace"
    /\ tmp_json.kind = "absent"
    /\ FlushRaises(p, t)
    /\ UNCHANGED <<disk, mem, flushing, needed, evictable, reader, clock, faults>>

flush_index(p, t) ==
    \/ FlushSkip(p, t)
    \/ FlushBuild(p, t)
    \/ FlushOpen(p, t)
    \/ FlushIterate(p, t)
    \/ FlushDump(p, t)
    \/ FlushDumpRaises(p, t)
    \/ FlushReplace(p, t)
    \/ FlushReplaceRaises(p, t)

-----------------------------------------------------------------------------
(* Budget enforcement *)

(* Mutants: the entry stays in the index; the file stays; the size is not   *)
(* subtracted when the file is already gone.                                *)
evict_one_keeps_entry(p, k) ==
    /\ index' = index
    /\ total_bytes' = [total_bytes EXCEPT ![p] = @ - index[p][k].size]
    /\ files' = Drop(files, k)
    /\ dirty' = [dirty EXCEPT ![p] = TRUE]
evict_one_keeps_file(p, k) ==
    /\ index' = [index EXCEPT ![p] = Drop(@, k)]
    /\ total_bytes' = [total_bytes EXCEPT ![p] = @ - index[p][k].size]
    /\ files' = files
    /\ dirty' = [dirty EXCEPT ![p] = TRUE]
evict_one_stops_at_missing_file(p, k) ==
    /\ index' = [index EXCEPT ![p] = Drop(@, k)]
    /\ total_bytes' = [total_bytes EXCEPT ![p] =
                         IF k \in DOMAIN files THEN @ - index[p][k].size ELSE @]
    /\ files' = Drop(files, k)
    /\ dirty' = [dirty EXCEPT ![p] = TRUE]

(* index.pop(key), subtract its size, remove the file if it is there, mark  *)
(* the index dirty.                                                         *)
evict_one(p, k) ==
    /\ index' = [index EXCEPT ![p] = Drop(@, k)]
    /\ total_bytes' = [total_bytes EXCEPT ![p] = @ - index[p][k].size]
    /\ files' = Drop(files, k)
    /\ dirty' = [dirty EXCEPT ![p] = TRUE]

(* Pages of the sorted list that are still to be looked at.                 *)
Candidates(p) == DOMAIN evictable[p] \cap DOMAIN index[p]

(* Mutant: the bytes of the new page are left out of the comparison.        *)
OverBudget_ignores_needed(p) ==
    /\ MaxDiskBytes > 0
    /\ total_bytes[p] > MaxDiskBytes

OverBudget(p) ==
    /\ MaxDiskBytes > 0
    /\ total_bytes[p] > MaxDiskBytes - needed[p]

(* Mutant: a page evicted meanwhile is entered again.                       *)
touch_access_enters(p, k) ==
    /\ index' = [index EXCEPT ![p] = Put(@, k, [size |-> PageBytes[k], last_access |-> Now])]
    /\ dirty' = [dirty EXCEPT ![p] = TRUE]
    /\ clock' = Now

touch_access(p, k) ==
    IF k \in DOMAIN index[p]
    THEN /\ index' = [index EXCEPT ![p] = Put(@, k, [size |-> @[k].size, last_access |-> Now])]
         /\ dirty' = [dirty EXCEPT ![p] = TRUE]
         /\ clock' = Now
    ELSE UNCHANGED <<index, dirty, clock>>

-----------------------------------------------------------------------------
(* The backup thread: batch_set, one set per page, then a last flush *)

batch_set(p) ==
    /\ pc[p]["backup"] = "idle"
    /\ \E keys \in Batches : todo' = [todo EXCEPT ![p] = keys]
    /\ Goto(p, "backup", "next")
    /\ UNCHANGED <<disk, mem, lock, flushing, needed, evictable, reader, clock, faults>>

EnterSet(p) ==
    /\ pc[p]["backup"] = "next"
    /\ todo[p] # <<>>
    /\ lock[p] = "free"
    /\ lock' = [lock EXCEPT ![p] = "backup"]

(* set of a key the index has: the page is not written again.               *)
SetHit(p) ==
    /\ EnterSet(p)
    /\ Head(todo[p]) \in DOMAIN index[p]
    /\ touch_access(p, Head(todo[p]))
    /\ call' = [call EXCEPT ![p]["backup"] = "hit"]
    /\ Goto(p, "backup", "flush")
    /\ UNCHANGED <<disk, total_bytes, fd, data, dumping, batch, reader, faults>>

(* torch.save opens the page's final path and has written part of it.       *)
SaveBegin(p) ==
    /\ EnterSet(p)
    /\ LET k == Head(todo[p])
       IN /\ k \notin DOMAIN index[p]
          /\ \E n \in 0 .. PageBytes[k] - 1 :
                files' = Put(files, k, [len |-> n, mtime |-> Now])
    /\ clock' = Now
    /\ Goto(p, "backup", "save")
    /\ UNCHANGED <<index_json, tmp_json, mem, flushing, batch, reader, faults>>

(* torch.save ends.  A file another process removed meanwhile stays gone.   *)
SaveEnd(p) ==
    /\ pc[p]["backup"] = "save"
    /\ LET k == Head(todo[p])
       IN files' = IF k \in DOMAIN files
                   THEN [files EXCEPT ![k].len = PageBytes[k]] ELSE files
    /\ Goto(p, "backup", "saved")
    /\ UNCHANGED <<index_json, tmp_json, mem, lock, flushing, batch, reader, clock, faults>>

(* torch.save raises (disk full): set returns False, the torn file stays.   *)
SaveRaises(p) ==
    /\ pc[p]["backup"] = "save"
    /\ "ioerror" \in Faults
    /\ faults < MaxFaults
    /\ faults' = faults + 1
    /\ ReturnFromSet(p)
    /\ UNCHANGED <<disk, mem, flushing, needed, evictable, reader, clock>>

(* getsize, and the list of pages _enforce_budget sorts by last access.     *)
EnforceBegin(p) ==
    /\ pc[p]["backup"] = "saved"
    /\ Head(todo[p]) \in DOMAIN files
    /\ needed' = [needed EXCEPT ![p] = files[Head(todo[p])].len]
    /\ evictable' = [evictable EXCEPT ![p] =
                       [k \in DOMAIN index[p] |-> index[p][k].last_access]]
    /\ Goto(p, "backup", "evict")
    /\ UNCHANGED <<disk, mem, lock, flushing, todo, reader, clock, faults>>

(* getsize raises: the file is gone.                                        *)
GetsizeRaises(p) ==
    /\ pc[p]["backup"] = "saved"
    /\ Head(todo[p]) \notin DOMAIN files
    /\ ReturnFromSet(p)
    /\ UNCHANGED <<disk, mem, flushing, needed, evictable, reader, clock, faults>>

(* Mutant: the list is not sorted.                                          *)
EvictColdest_unsorted(p) ==
    /\ pc[p]["backup"] = "evict"
    /\ OverBudget(p)
    /\ \E k \in Candidates(p) : evict_one(p, k)
    /\ UNCHANGED <<index_json, tmp_json, lock, pc, flushing, batch, reader, clock, faults>>

EvictColdest(p) ==
    /\ pc[p]["backup"] = "evict"
    /\ OverBudget(p)
    /\ \E k \in Candidates(p) :
          /\ \A j \in Candidates(p) : evictable[p][k] <= evictable[p][j]
          /\ evict_one(p, k)
    /\ UNCHANGED <<index_json, tmp_json, lock, pc, flushing, batch, reader, clock, faults>>

(* Mutant: the index is not marked dirty.                                   *)
AddEntry_clean(p) ==
    /\ pc[p]["backup"] = "evict"
    /\ ~OverBudget(p) \/ Candidates(p) = {}
    /\ index' = [index EXCEPT ![p] =
                   Put(@, Head(todo[p]), [size |-> needed[p], last_access |-> Now])]
    /\ total_bytes' = [total_bytes EXCEPT ![p] = @ + needed[p]]
    /\ clock' = Now
    /\ evictable' = [evictable EXCEPT ![p] = Empty]
    /\ call' = [call EXCEPT ![p]["backup"] = "new"]
    /\ Goto(p, "backup", "flush")
    /\ UNCHANGED <<disk, dirty, lock, fd, data, dumping, todo, needed, reader, faults>>

AddEntry(p) ==
    /\ pc[p]["backup"] = "evict"
    /\ ~OverBudget(p) \/ Candidates(p) = {}
    /\ index' = [index EXCEPT ![p] =
                   Put(@, Head(todo[p]), [size |-> needed[p], last_access |-> Now])]
    /\ total_bytes' = [total_bytes EXCEPT ![p] = @ + needed[p]]
    /\ dirty' = [dirty EXCEPT ![p] = TRUE]
    /\ clock' = Now
    /\ evictable' = [evictable EXCEPT ![p] = Empty]
    /\ call' = [call EXCEPT ![p]["backup"] = "new"]
    /\ Goto(p, "backup", "flush")
    /\ UNCHANGED <<disk, lock, fd, data, dumping, todo, needed, reader, faults>>

(* The flush after the last set runs without the lock.                      *)
BatchEnd(p) ==
    /\ pc[p]["backup"] = "next"
    /\ todo[p] = <<>>
    /\ call' = [call EXCEPT ![p]["backup"] = "batch"]
    /\ Goto(p, "backup", "flush")
    /\ UNCHANGED <<disk, mem, lock, fd, data, dumping, batch, reader, clock, faults>>

BackupStep(p) ==
    \/ SetHit(p) \/ SaveBegin(p) \/ SaveEnd(p) \/ SaveRaises(p)
    \/ EnforceBegin(p) \/ GetsizeRaises(p) \/ EvictColdest(p) \/ AddEntry(p)
    \/ BatchEnd(p) \/ flush_index(p, "backup")

-----------------------------------------------------------------------------
(* The scheduler thread: clear *)

(* Mutant: clear does not take the lock.                                    *)
ClearBegin_unlocked(p) ==
    /\ "clear" \in Calls
    /\ pc[p]["sched"] = "idle"
    /\ Goto(p, "sched", "clear")
    /\ UNCHANGED <<disk, mem, lock, flushing, batch, reader, clock, faults>>

ClearBegin(p) ==
    /\ "clear" \in Calls
    /\ pc[p]["sched"] = "idle"
    /\ lock[p] = "free"
    /\ lock' = [lock EXCEPT ![p] = "sched"]
    /\ Goto(p, "sched", "clear")
    /\ UNCHANGED <<disk, mem, flushing, batch, reader, clock, faults>>

ClearEvict(p) ==
    /\ pc[p]["sched"] = "clear"
    /\ \E k \in DOMAIN index[p] : evict_one(p, k)
    /\ UNCHANGED <<index_json, tmp_json, lock, pc, flushing, batch, reader, clock, faults>>

ClearEnd(p) ==
    /\ pc[p]["sched"] = "clear"
    /\ DOMAIN index[p] = {}
    /\ call' = [call EXCEPT ![p]["sched"] = "clear"]
    /\ Goto(p, "sched", "flush")
    /\ UNCHANGED <<disk, mem, lock, fd, data, dumping, batch, reader, clock, faults>>

clear(p) == ClearBegin(p) \/ ClearEvict(p) \/ ClearEnd(p) \/ flush_index(p, "sched")

-----------------------------------------------------------------------------
(* The prefetch threads: batch_exists finds a hit, later get reads the page *)

(* Mutant: the index is trusted without a look at the file.                 *)
exists_in_index(p, k) == k \in DOMAIN index[p]

exists(p, k) == k \in DOMAIN index[p] /\ k \in DOMAIN files

QueryHit(p) ==
    /\ "get" \in Calls
    /\ reader[p].pc = "idle"
    /\ \E k \in Key : /\ exists(p, k)
                       /\ reader' = [reader EXCEPT ![p] = [pc |-> "hit", key |-> k]]
    /\ UNCHANGED <<disk, mem, lock, pc, flushing, batch, clock, faults>>

(* torch.load: a torn or missing file makes get return None.                *)
GetLoad(p) ==
    /\ reader[p].pc = "hit"
    /\ reader' = [reader EXCEPT ![p].pc = IF Whole(reader[p].key) THEN "loaded" ELSE "idle"]
    /\ UNCHANGED <<disk, mem, lock, pc, flushing, batch, clock, faults>>

GetTouch(p) ==
    /\ reader[p].pc = "loaded"
    /\ touch_access(p, reader[p].key)
    /\ reader' = [reader EXCEPT ![p].pc = "idle"]
    /\ UNCHANGED <<disk, total_bytes, lock, pc, flushing, batch, faults>>

get(p) == QueryHit(p) \/ GetLoad(p) \/ GetTouch(p)

-----------------------------------------------------------------------------
(* Faults and the start of a process *)

(* The processes of P stop and start again: __init__ with _load_index.      *)
Restart(P, json) ==
    /\ index' = [p \in Proc |-> IF p \in P THEN load_index(json).pages ELSE index[p]]
    /\ total_bytes' = [p \in Proc |->
                         IF p \in P THEN load_index(json).total_bytes ELSE total_bytes[p]]
    /\ dirty' = [p \in Proc |-> dirty[p] /\ p \notin P]
    /\ lock' = [p \in Proc |-> IF p \in P THEN "free" ELSE lock[p]]
    /\ pc' = [p \in Proc |-> IF p \in P THEN [t \in Thread |-> "idle"] ELSE pc[p]]
    /\ fd' = [p \in Proc |-> IF p \in P THEN [t \in Thread |-> "none"] ELSE fd[p]]
    /\ data' = [p \in Proc |-> IF p \in P THEN [t \in Thread |-> 0] ELSE data[p]]
    /\ dumping' = [p \in Proc |-> IF p \in P THEN [t \in Thread |-> {}] ELSE dumping[p]]
    /\ todo' = [p \in Proc |-> IF p \in P THEN <<>> ELSE todo[p]]
    /\ evictable' = [p \in Proc |-> IF p \in P THEN Empty ELSE evictable[p]]
    /\ reader' = [p \in Proc |-> IF p \in P THEN [reader[p] EXCEPT !.pc = "idle"]
                                            ELSE reader[p]]
    /\ faults < MaxFaults
    /\ faults' = faults + 1
    /\ UNCHANGED <<files, tmp_json, call, needed, clock>>

Crash(p) ==
    /\ "crash" \in Faults
    /\ Restart({p}, index_json)
    /\ UNCHANGED index_json

(* index.json was replaced without fsync: power loss may leave it truncated.*)
(* The page files stay as they were written.                                *)
PowerLoss ==
    /\ "powerloss" \in Faults
    /\ index_json.kind # "absent"
    /\ index_json' = Corrupt
    /\ Restart(Proc, Corrupt)

Init ==
    /\ files = Empty
    /\ index_json = Absent
    /\ tmp_json = Absent
    /\ index = [p \in Proc |-> load_index(Absent).pages]
    /\ total_bytes = [p \in Proc |-> load_index(Absent).total_bytes]
    /\ dirty = [p \in Proc |-> FALSE]
    /\ lock = [p \in Proc |-> "free"]
    /\ pc = [p \in Proc |-> [t \in Thread |-> "idle"]]
    /\ call = [p \in Proc |-> [t \in Thread |-> "none"]]
    /\ fd = [p \in Proc |-> [t \in Thread |-> "none"]]
    /\ data = [p \in Proc |-> [t \in Thread |-> 0]]
    /\ dumping = [p \in Proc |-> [t \in Thread |-> {}]]
    /\ todo = [p \in Proc |-> <<>>]
    /\ needed = [p \in Proc |-> 0]
    /\ evictable = [p \in Proc |-> Empty]
    /\ reader = [p \in Proc |-> [pc |-> "idle", key |-> CHOOSE k \in Key : TRUE]]
    /\ clock = 0
    /\ faults = 0

Next ==
    \/ \E p \in Proc : batch_set(p) \/ BackupStep(p) \/ clear(p) \/ get(p) \/ Crash(p)
    \/ PowerLoss

Spec == Init /\ [][Next]_vars

(* The operating system keeps running a thread that has work: once batch_set *)
(* is called, the backup thread takes its steps.                            *)
FairSpec == Spec /\ \A p \in Proc : WF_vars(BackupStep(p))

-----------------------------------------------------------------------------
(* Properties *)

IndexType(idx) ==
    /\ DOMAIN idx \subseteq Key
    /\ \A k \in DOMAIN idx : idx[k] \in [size : Nat, last_access : Nat]

JsonType(json) ==
    /\ json.kind \in {"absent", "truncated", "corrupt", "json"}
    /\ IndexType(json.pages)
    /\ json.total_bytes \in Nat

FilesOK ==
    /\ DOMAIN files \subseteq Key
    /\ \A k \in DOMAIN files : files[k] \in [len : 0 .. PageBytes[k], mtime : Nat]
JsonOK ==
    /\ JsonType(index_json)
    /\ JsonType(tmp_json)
MemOK ==
    /\ DOMAIN index = Proc
    /\ \A p \in Proc : IndexType(index[p])
    /\ total_bytes \in [Proc -> Nat]
    /\ dirty \in [Proc -> BOOLEAN]
ControlOK ==
    /\ lock \in [Proc -> {"free", "backup", "sched"}]
    /\ pc \in [Proc -> [Thread -> {"idle", "next", "save", "saved", "evict", "clear",
                                   "flush", "build", "open", "dump", "replace", "dead"}]]
    /\ call \in [Proc -> [Thread -> {"none", "hit", "new", "batch", "clear"}]]
    /\ fd \in [Proc -> [Thread -> {"none", "tmp", "index"}]]
    /\ data \in [Proc -> [Thread -> Nat]]
    /\ dumping \in [Proc -> [Thread -> SUBSET Key]]
BatchOK ==
    /\ todo \in [Proc -> Seq(Key)]
    /\ needed \in [Proc -> Nat]
    /\ DOMAIN evictable = Proc
    /\ \A p \in Proc : /\ DOMAIN evictable[p] \subseteq Key
                        /\ \A k \in DOMAIN evictable[p] : evictable[p][k] \in Nat

(* Every variable holds a value of its type; in particular the byte counter  *)
(* never becomes negative.                                                  *)
TypeOK ==
    /\ FilesOK
    /\ JsonOK
    /\ MemOK
    /\ ControlOK
    /\ BatchOK
    /\ reader \in [Proc -> [pc : {"idle", "hit", "loaded"}, key : Key]]
    /\ clock \in Nat
    /\ faults \in Nat

(* The running counter _total_bytes is the sum of the sizes in the index,   *)
(* through evictions, unlocked touches, failed flushes, restarts and index   *)
(* rebuilds; and what index.json or its temporary file holds is such a pair, *)
(* so that no restart ever begins with a wrong count.                       *)
AccountingExact ==
    /\ \A p \in Proc : total_bytes[p] = Used(index[p])
    /\ index_json.total_bytes = Used(index_json.pages)
    /\ tmp_json.total_bytes = Used(tmp_json.pages)

(* A flush that clear overtakes may save an old total with the new pages;   *)
(* still no counter, in memory, saved or about to be saved, is below what    *)
(* its index holds, so the budget is never overrun for want of counting.     *)
NeverUndercounts ==
    /\ \A p \in Proc : total_bytes[p] >= Used(index[p])
    /\ \A p \in Proc, t \in Thread :
          pc[p][t] \in {"build", "open", "dump"} => data[p][t] >= Used(index[p])
    /\ index_json.total_bytes >= Used(index_json.pages)
    /\ tmp_json.total_bytes >= Used(tmp_json.pages)

(* What the lock is for: a thread inside set or clear holds it, the page set *)
(* is about to enter is not yet in the index, and the list _enforce_budget   *)
(* walks still names every indexed page.                                    *)
Flushing == {"flush", "build", "open", "dump", "replace"}
InSet(p) ==
    \/ pc[p]["backup"] \in {"save", "saved", "evict"}
    \/ pc[p]["backup"] \in Flushing /\ call[p]["backup"] \in {"hit", "new"}
Locked(p) ==
    /\ InSet(p) => lock[p] = "backup" /\ todo[p] # <<>>
    /\ pc[p]["sched"] # "idle" => lock[p] = "sched"
    /\ pc[p]["backup"] # "clear"
    /\ pc[p]["sched"] \in {"idle", "clear"} \cup Flushing
    /\ pc[p]["backup"] \in Flushing => call[p]["backup"] \in {"hit", "new", "batch"}
    /\ pc[p]["sched"] \in Flushing => call[p]["sched"] = "clear"
    /\ pc[p]["backup"] \in {"save", "saved", "evict"} =>
          Head(todo[p]) \notin DOMAIN index[p]
    /\ pc[p]["backup"] = "evict" =>
          /\ DOMAIN index[p] \subseteq DOMAIN evictable[p]
          /\ needed[p] <= PageBytes[Head(todo[p])]
LockedSections == \A p \in Proc : Locked(p)

(* When set has made room and enters a new page, the pages of the index fit  *)
(* the budget, whatever crash or rebuild came before and whatever the other  *)
(* threads and processes do.                                                *)
BudgetRestored ==
    [][\A p \in Proc : AddEntry(p) => Used(index'[p]) <= MaxDiskBytes]_vars

(* The docstring of _enforce_budget: it evicts "until self._total_bytes +    *)
(* needed_bytes fits within self.max_disk_bytes".                           *)
CounterFitsBudget ==
    [][\A p \in Proc : AddEntry(p) => total_bytes'[p] <= MaxDiskBytes]_vars

(* While set makes room, a page already evicted was, when the list was       *)
(* sorted, last accessed no later than every page still there.              *)
ColdestFirst(p) ==
    pc[p]["backup"] = "evict" =>
        \A gone \in DOMAIN evictable[p] \ DOMAIN index[p], kept \in Candidates(p) :
            evictable[p][gone] <= evictable[p][kept]
EvictsColdestFirst == \A p \in Proc : ColdestFirst(p)

(* What the index lists can be read back: no interleaving of set, eviction,  *)
(* clear, failed writes and get leaves an indexed page torn or missing.     *)
IndexedPagesWhole ==
    \A p \in Proc : \A k \in DOMAIN index[p] : Whole(k)

(* exists never answers yes for a torn page, restarts included.             *)
ExistsMeansWhole ==
    \A p \in Proc : \A k \in Key : exists(p, k) => Whole(k)

(* The class docstring: "keeps total disk usage within max_disk_space_mb",   *)
(* read at the moments no set is under way.                                 *)
FileBytes == Cardinality(UNION {{k} \X (1 .. files[k].len) : k \in DOMAIN files})
DiskWithinBudget ==
    (\A p \in Proc : pc[p]["backup"] \in {"idle", "next"}) => FileBytes <= MaxDiskBytes

(* Between two batches index.json lists exactly the pages of the index: a     *)
(* crash then loses no page, although get touches the index unlocked while it *)
(* is dumped and _dirty is cleared only after the file is replaced.         *)
SavedBetweenBatches ==
    \A p \in Proc : pc[p]["backup"] = "idle" =>
        DOMAIN load_index(index_json).pages = DOMAIN index[p]

(* The step in which set returns True to batch_set.                         *)
SetReturnsTrue(p) ==
    /\ call[p]["backup"] \in {"hit", "new"}
    /\ pc[p]["backup"] = "flush" \/ (pc[p]["backup"] = "replace" /\ tmp_json.kind # "absent")
    /\ pc'[p]["backup"] = "next"

(* HiCacheStorage.set: "Returns True if the operation was successful": when  *)
(* set returns True the page can be read back.                              *)
SetTrueMeansStored ==
    [][\A p \in Proc : SetReturnsTrue(p) =>
          LET k == Head(todo[p])
          IN k \in DOMAIN files' /\ files'[k].len = PageBytes[k]]_vars

(* The step in which clear returns normally.                                *)
ClearReturns(p) ==
    /\ call[p]["sched"] = "clear"
    /\ pc[p]["sched"] = "flush" \/ (pc[p]["sched"] = "replace" /\ tmp_json.kind # "absent")
    /\ pc'[p]["sched"] = "idle"

(* The design document on clear: "Remove all data".                         *)
ClearRemovesAllPages ==
    [][\A p \in Proc : ClearReturns(p) => DOMAIN files' = {}]_vars

(* Every batch_set returns: the eviction loop ends and no flush is stuck.   *)
BatchSetReturns ==
    \A p \in Proc : pc[p]["backup"] = "next" ~> pc[p]["backup"] = "idle"
=============================================================================
