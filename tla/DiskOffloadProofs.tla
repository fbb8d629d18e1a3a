------------------------- MODULE DiskOffloadProofs --------------------------
(***************************************************************************)
(* The byte counter of DiskOffload and, with the types and the lock         *)
(* discipline, its inductive invariant: for every set of processes, every   *)
(* finite set of keys, every page size and every budget.                    *)
(***************************************************************************)
EXTENDS DiskOffloadLocks

-----------------------------------------------------------------------------
(* The byte counter *)

(* The three parts of NeverUndercounts: memory, totals read by a flush under *)
(* way, files.                                                              *)
MemCovers == \A p \in Proc : total_bytes[p] >= Used(index[p])
DataCovers ==
    \A p \in Proc, t \in Thread :
        pc[p][t] \in {"build", "open", "dump"} => data[p][t] >= Used(index[p])
JsonCovers ==
    /\ index_json.total_bytes >= Used(index_json.pages)
    /\ tmp_json.total_bytes >= Used(tmp_json.pages)

(* NeverUndercounts is the conjunction of its parts.                        *)
LEMMA Covers == NeverUndercounts <=> MemCovers /\ DataCovers /\ JsonCovers
BY DEF NeverUndercounts, MemCovers, DataCovers, JsonCovers

(* The number of bytes of every index is a natural number.                  *)
LEMMA UsedIsNat ==
    ASSUME TypeOK, NEW p \in Proc
    PROVE  Used(index[p]) \in Nat /\ total_bytes[p] \in Nat
<1>1. IndexType(index[p]) /\ total_bytes[p] \in Nat
  BY SMTT(60) DEF TypeOK, MemOK
<1> QED
  BY <1>1, BytesFinite

(* Evicting a page subtracts the same size from the counter and from the     *)
(* index, in the process that evicts (_evict_one).                          *)
LEMMA EvictCounts ==
    ASSUME TypeOK, NEW p \in Proc, NEW k \in DOMAIN index[p], evict_one(p, k)
    PROVE  /\ total_bytes'[p] = total_bytes[p] - index[p][k].size
           /\ Used(index'[p]) = Used(index[p]) - index[p][k].size
           /\ index[p][k].size \in Nat
           /\ \A q \in Proc \ {p} : total_bytes'[q] = total_bytes[q] /\ index'[q] = index[q]
<1>1. IndexType(index[p]) /\ index[p][k].size \in Nat
  BY DEF TypeOK, MemOK, IndexType
<1>2. Used(Drop(index[p], k)) = Used(index[p]) - index[p][k].size
  BY <1>1, UsedOfDrop
<1>3. index'[p] = Drop(index[p], k) /\ total_bytes'[p] = total_bytes[p] - index[p][k].size
  BY DEF evict_one, TypeOK, MemOK
<1>4. \A q \in Proc \ {p} : total_bytes'[q] = total_bytes[q] /\ index'[q] = index[q]
  BY DEF evict_one, TypeOK, MemOK
<1> QED
  BY SMTT(60), <1>1, <1>2, <1>3, <1>4

(* Touching a page changes the size of no index (_touch_access).            *)
LEMMA TouchCounts ==
    ASSUME TypeOK, NEW p \in Proc, NEW k, touch_access(p, k)
    PROVE  \A q \in Proc : Used(index'[q]) = Used(index[q])
<1>1. CASE k \notin DOMAIN index[p]
  BY <1>1 DEF touch_access
<1>2. CASE k \in DOMAIN index[p]
  <2>1. index' = [index EXCEPT ![p] = Put(index[p], k, [size |-> index[p][k].size,
                                                        last_access |-> Now])]
    BY SMTT(60), <1>2 DEF touch_access
  <2>2. Used(Put(index[p], k, [size |-> index[p][k].size, last_access |-> Now])) = Used(index[p])
    BY SMTT(60), <1>2, UsedOfTouch
  <2> QED
    BY <2>1, <2>2 DEF TypeOK, MemOK
<1> QED
  BY <1>1, <1>2

(* Entering a page adds the same size to the counter and to the index: the   *)
(* lock has kept the page out of the index meanwhile (set).                 *)
LEMMA AddCounts ==
    ASSUME TypeOK, LockedSections, NEW p \in Proc, AddEntry(p)
    PROVE  /\ total_bytes'[p] = total_bytes[p] + needed[p]
           /\ Used(index'[p]) = Used(index[p]) + needed[p]
           /\ needed[p] \in Nat
           /\ \A q \in Proc \ {p} : total_bytes'[q] = total_bytes[q] /\ index'[q] = index[q]
<1> DEFINE k == Head(todo[p])
           e == [size |-> needed[p], last_access |-> Now]
<1>1. todo[p] # <<>> /\ k \notin DOMAIN index[p]
  BY SMTT(60) DEF AddEntry, LockedSections, Locked, InSet
<1>2. k \in Key
  BY SMTT(60), <1>1, HeadTailProperties DEF TypeOK, BatchOK
<1>3. e \in [size : Nat, last_access : Nat] /\ IndexType(index[p]) /\ e.size = needed[p]
  BY SMTT(60), NowIsNat DEF TypeOK, MemOK, BatchOK
<1>4. Used(Put(index[p], k, e)) = Used(index[p]) + e.size
  BY SMTT(60), <1>1, <1>2, <1>3, UsedOfPut
<1>5. /\ index' = [index EXCEPT ![p] = Put(index[p], k, e)]
      /\ total_bytes' = [total_bytes EXCEPT ![p] = total_bytes[p] + needed[p]]
  BY SMTT(60) DEF AddEntry
<1> HIDE DEF k, e
<1> QED
  BY ZenonT(60), <1>3, <1>4, <1>5 DEF TypeOK, MemOK, BatchOK

(* The step keeps the totals of running flushes covering when no index grows *)
(* and no flush reads its total.                                            *)
LEMMA DataFrame ==
    ASSUME TypeOK, TypeOK', DataCovers,
           \A q \in Proc : Used(index'[q]) <= Used(index[q]),
           \A q \in Proc, u \in Thread : pc'[q][u] \in {"build", "open", "dump"} =>
               pc[q][u] \in {"build", "open", "dump"} /\ data'[q][u] = data[q][u]
    PROVE  DataCovers'
<1> SUFFICES ASSUME NEW q \in Proc, NEW u \in Thread, pc'[q][u] \in {"build", "open", "dump"}
             PROVE  data'[q][u] >= Used(index'[q])
  BY DEF DataCovers
<1>1. data[q][u] >= Used(index[q]) /\ data'[q][u] = data[q][u]
  BY DEF DataCovers
<1>2. Used(index[q]) \in Nat
  BY SMTT(60), UsedIsNat
<1>3. IndexType(index'[q])
  BY DEF TypeOK, MemOK
<1>4. Used(index'[q]) \in Nat
  BY SMTT(60), <1>3, BytesFinite
<1>5. data[q][u] \in Nat
  BY DEF TypeOK, ControlOK
<1> QED
  BY SMTT(60), <1>1, <1>2, <1>4, <1>5

(* A thread that moves leaves every other thread where it is.               *)
LEMMA GotoMoves ==
    ASSUME TypeOK, NEW p \in Proc, NEW t \in Thread, NEW where, Goto(p, t, where),
           NEW q \in Proc, NEW u \in Thread
    PROVE  pc'[q][u] = IF q = p /\ u = t THEN where ELSE pc[q][u]
BY DEF Goto, TypeOK, ControlOK

(* However _flush_index ends, no thread enters the middle of a flush.        *)
LEMMA FlushExitMoves ==
    ASSUME TypeOK, LockedSections, NEW p \in Proc, NEW t \in Thread, pc[p][t] \in Flushing,
           FlushReturns(p, t) \/ FlushRaises(p, t),
           NEW q \in Proc, NEW u \in Thread, pc'[q][u] \notin {"next", "idle", "dead"}
    PROVE  pc'[q][u] = pc[q][u] /\ <<q, u>> # <<p, t>>
<1>0. call[p][t] \in {"hit", "new"} => t = "backup"
  BY SMTT(60) DEF LockedSections, Locked, Thread
<1>1. \/ Goto(p, t, "next") \/ Goto(p, t, "idle") \/ Goto(p, t, "dead")
  BY <1>0 DEF FlushReturns, FlushRaises, ReturnFromSet
<1>2. ASSUME NEW w \in Thread, NEW where \in {"next", "idle", "dead"}, Goto(p, w, where)
      PROVE  pc'[q][u] = pc[q][u] /\ <<q, u>> # <<p, w>>
  <2>1. CASE q = p /\ u = w
    BY <1>2, <2>1 DEF Goto, TypeOK, ControlOK, Thread
  <2>2. CASE q # p \/ u # w
    BY ZenonT(60), <1>2, <2>2 DEF Goto, TypeOK, ControlOK, Thread
  <2> QED
    BY SMTT(60), <2>1, <2>2
<1> QED
  BY SMTT(60), <1>1, <1>2 DEF Thread

(* Every step keeps the counters at or above what they count.  Pages enter   *)
(* the index only under the lock and by the thread that flushes, so a total  *)
(* read early can only be too high when it is written.                      *)
LEMMA CountStep ==
    ASSUME TypeOK, TypeOK', LockedSections, NeverUndercounts, [Next]_vars
    PROVE  NeverUndercounts'
<1> USE DEF Thread
<1> DEFINE Moves == \A q \in Proc, u \in Thread : pc'[q][u] \in {"build", "open", "dump"} =>
                        pc[q][u] \in {"build", "open", "dump"} /\ data'[q][u] = data[q][u]
<1>0. /\ MemCovers /\ DataCovers /\ JsonCovers
      /\ JsonType(Corrupt) /\ Corrupt.total_bytes = Used(Corrupt.pages)
      /\ Truncated.total_bytes = Used(Truncated.pages)
      /\ Absent.total_bytes = Used(Absent.pages)
      /\ Used(Empty) = 0
  BY ZenonT(60), Covers, UsedOfEmpty DEF JsonType, IndexType, Corrupt, Truncated, Absent, Empty
<1>1. ASSUME UNCHANGED <<index, total_bytes>>, Moves
      PROVE  MemCovers' /\ DataCovers'
  <2>1. \A q \in Proc : Used(index'[q]) <= Used(index[q])
    BY SMTT(60), <1>1, UsedIsNat
  <2> QED
    BY SMTT(60), <1>0, <1>1, <2>1, DataFrame DEF MemCovers
<1>2. ASSUME UNCHANGED <<index_json, tmp_json>>
      PROVE  JsonCovers'
  BY SMTT(60), <1>0, <1>2 DEF JsonCovers
<1>3. ASSUME NEW p \in Proc, SetHit(p) \/ GetTouch(p)
      PROVE  NeverUndercounts'
  <2>1. (\E k : touch_access(p, k)) /\ UNCHANGED <<total_bytes, index_json, tmp_json>>
    BY SMTT(60), <1>3 DEF SetHit, GetTouch, disk
  <2>2. \A q \in Proc : Used(index'[q]) = Used(index[q])
    BY <2>1, TouchCounts
  <2>3. UNCHANGED data /\ (Goto(p, "backup", "flush") \/ UNCHANGED pc)
    BY <1>3 DEF SetHit, GetTouch, flushing
  <2>4. Moves
    BY SMTT(60), <2>3, GotoMoves
  <2>5. MemCovers' /\ \A q \in Proc : Used(index'[q]) <= Used(index[q])
    BY SMTT(60), <1>0, <2>1, <2>2, UsedIsNat DEF MemCovers
  <2> QED
    BY ZenonT(60), <1>0, <1>2, <2>1, <2>4, <2>5, DataFrame, Covers DEF NeverUndercounts, MemCovers, DataCovers, JsonCovers
<1>4. ASSUME NEW p \in Proc, EvictColdest(p) \/ ClearEvict(p)
      PROVE  NeverUndercounts'
  <2>1. PICK k \in DOMAIN index[p] : evict_one(p, k)
    BY SMTT(60), <1>4 DEF EvictColdest, ClearEvict, Candidates
  <2>2. UNCHANGED <<index_json, tmp_json, pc, data>>
    BY <1>4 DEF EvictColdest, ClearEvict, flushing
  <2>3. /\ total_bytes'[p] = total_bytes[p] - index[p][k].size
        /\ Used(index'[p]) = Used(index[p]) - index[p][k].size
        /\ index[p][k].size \in Nat
        /\ \A q \in Proc \ {p} : total_bytes'[q] = total_bytes[q] /\ index'[q] = index[q]
    BY ZenonT(60), <2>1, EvictCounts
  <2>4. MemCovers' /\ \A q \in Proc : Used(index'[q]) <= Used(index[q])
    BY SMTT(60), <1>0, <2>3, UsedIsNat DEF MemCovers
  <2> QED
    BY ZenonT(60), <1>0, <1>2, <2>2, <2>4, DataFrame, Covers DEF NeverUndercounts, MemCovers, DataCovers, JsonCovers
<1>5. ASSUME NEW p \in Proc, AddEntry(p)
      PROVE  NeverUndercounts'
  <2>1. /\ total_bytes'[p] = total_bytes[p] + needed[p]
        /\ Used(index'[p]) = Used(index[p]) + needed[p]
        /\ needed[p] \in Nat
        /\ \A q \in Proc \ {p} : total_bytes'[q] = total_bytes[q] /\ index'[q] = index[q]
    BY SMTT(60), <1>5, AddCounts
  <2>2. MemCovers'
    BY SMTT(60), <1>0, <2>1, UsedIsNat DEF MemCovers
  <2>3. pc[p]["sched"] = "idle"
    BY ZenonT(60), <1>5 DEF AddEntry, LockedSections, Locked, InSet
  <2>4. /\ pc'[p]["backup"] = "flush" /\ pc'[p]["sched"] = "idle"
        /\ \A q \in Proc \ {p} : pc'[q] = pc[q]
        /\ UNCHANGED <<data, index_json, tmp_json>>
    BY SMTT(60), <1>5, <2>3 DEF AddEntry, Goto, disk, TypeOK, ControlOK
  <2>5. DataCovers'
    BY <1>0, <2>1, <2>4 DEF DataCovers
  <2> QED
    BY ZenonT(60), <1>2, <2>2, <2>4, <2>5, Covers DEF NeverUndercounts, MemCovers, DataCovers, JsonCovers
<1>6. ASSUME NEW P, NEW json, JsonType(json), json.total_bytes >= Used(json.pages),
             Restart(P, json)
      PROVE  MemCovers' /\ DataCovers'
  <2>1. load_index(json).total_bytes >= Used(load_index(json).pages)
    BY SMTT(60), <1>6, LoadType
  <2>2. MemCovers'
    BY SMTT(60), <1>0, <1>6, <2>1 DEF Restart, MemCovers
  <2>3. ASSUME NEW q \in Proc, NEW u \in Thread, pc'[q][u] \in {"build", "open", "dump"}
        PROVE  q \notin P /\ pc[q][u] = pc'[q][u] /\ data'[q][u] = data[q][u] /\ index'[q] = index[q]
    BY ZenonT(60), <1>6, <2>3 DEF Restart
  <2>4. DataCovers'
    BY SMTT(60), <1>0, <2>3 DEF DataCovers
  <2> QED
    BY ZenonT(60), <2>2, <2>4
<1>7. ASSUME NEW p \in Proc, Crash(p)
      PROVE  NeverUndercounts'
  <2>1. JsonType(index_json) /\ index_json.total_bytes >= Used(index_json.pages)
    BY <1>0 DEF TypeOK, JsonOK, JsonCovers
  <2>2. Restart({p}, index_json) /\ UNCHANGED <<index_json, tmp_json>>
    BY ZenonT(60), <1>7 DEF Crash, Restart
  <2> QED
    BY ZenonT(60), <1>2, <1>6, <2>1, <2>2, Covers DEF NeverUndercounts, MemCovers, DataCovers, JsonCovers
<1>8. CASE PowerLoss
  <2>1. Restart(Proc, Corrupt) /\ index_json' = Corrupt /\ UNCHANGED tmp_json
    BY <1>8 DEF PowerLoss, Restart
  <2>2. Corrupt.total_bytes >= Used(Corrupt.pages)
    BY SMTT(60), <1>0 DEF Corrupt
  <2>3. JsonCovers'
    BY ZenonT(60), <1>0, <2>1, <2>2 DEF JsonCovers
  <2> QED
    BY ZenonT(60), <1>0, <1>6, <2>1, <2>2, <2>3 DEF NeverUndercounts, MemCovers, DataCovers, JsonCovers
<1>9. ASSUME NEW p \in Proc, NEW t \in Thread, FlushBuild(p, t)
      PROVE  NeverUndercounts'
  <2>1. /\ UNCHANGED <<index, total_bytes, index_json, tmp_json>>
        /\ data' = [data EXCEPT ![p][t] = total_bytes[p]]
        /\ Goto(p, t, "build")
    BY <1>9 DEF FlushBuild, mem, disk
  <2>2. ASSUME NEW q \in Proc, NEW u \in Thread, pc'[q][u] \in {"build", "open", "dump"}
        PROVE  data'[q][u] >= Used(index'[q])
    <3>1. CASE q = p /\ u = t
      BY ZenonT(60), <1>0, <2>1, <3>1 DEF MemCovers, TypeOK, ControlOK
    <3>2. CASE q # p \/ u # t
      BY SMTT(60), <1>0, <2>1, <2>2, <3>2 DEF DataCovers, Goto, TypeOK, ControlOK
    <3> QED
      BY ZenonT(60), <3>1, <3>2
  <2> QED
    BY ZenonT(60), <1>0, <1>2, <2>1, <2>2 DEF NeverUndercounts, MemCovers, JsonCovers
<1>10. ASSUME NEW p \in Proc, NEW t \in Thread, FlushOpen(p, t) \/ FlushIterate(p, t)
       PROVE  NeverUndercounts'
  <2>1. /\ UNCHANGED <<index, total_bytes, index_json, data>>
        /\ UNCHANGED tmp_json \/ tmp_json' = Truncated
        /\ pc[p][t] \in {"build", "open"} /\ (Goto(p, t, "open") \/ Goto(p, t, "dump"))
    BY SMTT(60), <1>10 DEF FlushOpen, FlushIterate, mem, disk
  <2>2. Moves
    BY <2>1, GotoMoves
  <2>3. JsonCovers'
    BY <1>0, <2>1 DEF JsonCovers, Truncated
  <2> QED
    BY ZenonT(60), <1>1, <2>1, <2>2, <2>3 DEF NeverUndercounts, MemCovers, DataCovers, JsonCovers
<1>11. ASSUME NEW p \in Proc, NEW t \in Thread, NEW json, WriteHandle(p, t, json),
              json.total_bytes >= Used(json.pages)
       PROVE  JsonCovers'
  BY SMTT(60), <1>0, <1>11 DEF WriteHandle, JsonCovers
<1>12. ASSUME NEW p \in Proc, NEW t \in Thread, FlushDump(p, t)
       PROVE  NeverUndercounts'
  <2>1. PICK json \in Dumped(p, t) : WriteHandle(p, t, json)
    BY ZenonT(60), <1>12 DEF FlushDump
  <2>2. pc[p][t] = "dump" /\ UNCHANGED <<index, total_bytes>> /\ Goto(p, t, "replace")
    BY ZenonT(60), <1>12 DEF FlushDump, mem
  <2>3. Corrupt.total_bytes >= Used(Corrupt.pages)
    BY SMTT(60), <1>0 DEF Corrupt
  <2>4. json.total_bytes >= Used(json.pages)
    BY SMTT(60), <1>0, <2>2, <2>3 DEF Dumped, Json, DataCovers
  <2>5. Moves
    BY SMTT(60), <2>1, <2>2 DEF Goto, WriteHandle, TypeOK, ControlOK
  <2> QED
    BY ZenonT(60), <1>1, <1>11, <2>1, <2>2, <2>4, <2>5 DEF NeverUndercounts, MemCovers, DataCovers, JsonCovers
<1>13. ASSUME NEW p \in Proc, NEW t \in Thread, FlushDumpRaises(p, t)
       PROVE  NeverUndercounts'
  <2>1. /\ UNCHANGED <<index, total_bytes>>
        /\ WriteHandle(p, t, Corrupt)
        /\ FlushRaises(p, t)
        /\ pc[p][t] = "dump"
    BY ZenonT(60), <1>13 DEF FlushDumpRaises, mem
  <2>2. Corrupt.total_bytes >= Used(Corrupt.pages)
    BY SMTT(60), <1>0 DEF Corrupt
  <2>3. ASSUME NEW q \in Proc, NEW u \in Thread, pc'[q][u] \in {"build", "open", "dump"}
        PROVE  pc[q][u] = pc'[q][u] /\ <<q, u>> # <<p, t>>
    BY ZenonT(60), <2>1, <2>3, FlushExitMoves DEF Flushing
  <2>4. Moves
    BY SMTT(60), <2>1, <2>3 DEF WriteHandle, TypeOK, ControlOK
  <2> QED
    BY ZenonT(60), <1>1, <1>11, <2>1, <2>2, <2>4 DEF NeverUndercounts, MemCovers, DataCovers, JsonCovers
<1>14. ASSUME NEW p \in Proc, NEW t \in Thread,
              FlushSkip(p, t) \/ FlushReplace(p, t) \/ FlushReplaceRaises(p, t)
       PROVE  NeverUndercounts'
  <2>1. /\ UNCHANGED <<index, total_bytes, data>>
        /\ FlushReturns(p, t) \/ FlushRaises(p, t)
        /\ pc[p][t] \in Flushing
    BY ZenonT(60), <1>14 DEF FlushSkip, FlushReplace, FlushReplaceRaises, Flushing, mem, flushing
  <2>2. ASSUME NEW q \in Proc, NEW u \in Thread, pc'[q][u] \in {"build", "open", "dump"}
        PROVE  pc[q][u] = pc'[q][u]
    BY SMTT(60), <2>1, <2>2, FlushExitMoves
  <2>3. \/ UNCHANGED <<index_json, tmp_json>>
        \/ index_json' = tmp_json /\ tmp_json' = Absent
    BY <1>14 DEF FlushSkip, FlushReplace, FlushReplaceRaises, disk
  <2>4. JsonCovers'
    BY SMTT(60), <1>0, <2>3 DEF JsonCovers, Absent
  <2> QED
    BY ZenonT(60), <1>1, <2>1, <2>2, <2>4 DEF NeverUndercounts, MemCovers, DataCovers, JsonCovers
<1>15. ASSUME NEW p \in Proc, \/ batch_set(p) \/ SaveBegin(p) \/ SaveEnd(p) \/ SaveRaises(p)
                              \/ EnforceBegin(p) \/ GetsizeRaises(p) \/ BatchEnd(p)
                              \/ ClearBegin(p) \/ ClearEnd(p) \/ QueryHit(p) \/ GetLoad(p)
       PROVE  NeverUndercounts'
  <2>1. UNCHANGED <<index, total_bytes, index_json, tmp_json, data>>
    BY ZenonT(60), <1>15 DEF batch_set, SaveBegin, SaveEnd, SaveRaises, EnforceBegin, GetsizeRaises,
                 BatchEnd, ClearBegin, ClearEnd, QueryHit, GetLoad, mem, disk, flushing
  <2>2. \/ UNCHANGED pc
        \/ \E u \in Thread, where \in {"next", "save", "saved", "evict", "flush", "clear"} :
              Goto(p, u, where)
    BY ZenonT(60), <1>15 DEF batch_set, SaveBegin, SaveEnd, SaveRaises, EnforceBegin, GetsizeRaises,
                 BatchEnd, ClearBegin, ClearEnd, QueryHit, GetLoad, ReturnFromSet
  <2>3. Moves
    BY SMTT(60), <2>1, <2>2 DEF Goto, TypeOK, ControlOK
  <2> QED
    BY ZenonT(60), <1>1, <1>2, <2>1, <2>3 DEF NeverUndercounts, MemCovers, DataCovers, JsonCovers
<1>16. CASE UNCHANGED vars
  BY ZenonT(60), <1>16 DEF vars, mem, disk, flushing, NeverUndercounts
<1> QED
  BY ZenonT(60), <1>3, <1>4, <1>5, <1>7, <1>8, <1>9, <1>10, <1>12, <1>13, <1>14, <1>15, <1>16
     DEF Next, BackupStep, clear, get, flush_index

-----------------------------------------------------------------------------
(* The inductive invariant and what follows from it *)

Inv == TypeOK /\ LockedSections /\ NeverUndercounts

(* The empty directory satisfies the invariant.                             *)
LEMMA InvInit == Init => Inv
<1> SUFFICES ASSUME Init PROVE Inv
  OBVIOUS
<1> USE ConstantsOK DEF Thread, Init
<1>1. load_index(Absent).pages = Empty /\ load_index(Absent).total_bytes = 0
  BY ZenonT(60) DEF load_index, Absent, Json
<1>2. IndexType(Empty) /\ Used(Empty) = 0
  BY SMTT(60), UsedOfEmpty DEF IndexType, Empty
<1>3. FilesOK /\ JsonOK /\ MemOK
  BY SMTT(60), <1>1, <1>2 DEF FilesOK, JsonOK, JsonType, MemOK, Absent, Empty
<1>4. ControlOK
  BY DEF ControlOK
<1>5. BatchOK
  BY DEF BatchOK, Empty
<1>6. reader \in [Proc -> [pc : {"idle", "hit", "loaded"}, key : Key]]
  <2>1. (CHOOSE k \in Key : TRUE) \in Key
    OBVIOUS
  <2> QED
    BY <2>1
<1>7. NeverUndercounts
  BY SMTT(60), <1>1, <1>2 DEF NeverUndercounts, Absent
<1>8. LockedSections
  BY DEF LockedSections, Locked, InSet, Flushing
<1> QED
  BY ZenonT(60), <1>3, <1>4, <1>5, <1>6, <1>7, <1>8 DEF Inv, TypeOK

(* The types, the lock discipline and the counting are preserved together:   *)
(* the types need the counting for the counter not to go negative, the       *)
(* counting needs the lock for a page not to be entered twice.              *)
LEMMA InvStep == Inv /\ [Next]_vars => Inv'
BY TypeStep, LockedStep, CountStep DEF Inv

(* The invariant holds in every reachable state.                            *)
LEMMA Invariance == Spec => []Inv
<1> QED
  BY InvInit, InvStep, PTL DEF Spec

(* Every variable keeps its type; the counter _total_bytes never goes        *)
(* negative, whatever is evicted, cleared, torn or reloaded.                *)
THEOREM TypeCorrect == Spec => []TypeOK
<1>1. Inv => TypeOK
  BY DEF Inv
<1> QED
  BY <1>1, Invariance, PTL

(* No process ever counts fewer bytes than its index lists, for any number   *)
(* of processes, threads in clear, faults and any budget.                   *)
THEOREM CountingCorrect == Spec => []NeverUndercounts
<1>1. Inv => NeverUndercounts
  BY DEF Inv
<1> QED
  BY <1>1, Invariance, PTL

(* A thread inside set or clear holds the lock, and the page set is about to *)
(* enter is not indexed meanwhile.                                          *)
THEOREM LockingCorrect == Spec => []LockedSections
<1>1. Inv => LockedSections
  BY DEF Inv
<1> QED
  BY <1>1, Invariance, PTL

(* When no page alone exceeds the budget, entering a page leaves the pages   *)
(* of the index within it: either _enforce_budget stopped because its        *)
(* counter, which is never too low, fits, or it evicted every page.         *)
THEOREM BudgetCorrect ==
    ASSUME MaxDiskBytes > 0, \A k \in Key : PageBytes[k] <= MaxDiskBytes
    PROVE  Spec => BudgetRestored
<1>1. ASSUME Inv, NEW p \in Proc, AddEntry(p)
      PROVE  Used(index'[p]) <= MaxDiskBytes
  <2>1. Used(index'[p]) = Used(index[p]) + needed[p] /\ needed[p] \in Nat
    BY ZenonT(60), <1>1, AddCounts DEF Inv
  <2>2. Locked(p) /\ todo[p] # <<>> /\ pc[p]["backup"] = "evict"
    BY ZenonT(60), <1>1 DEF Inv, LockedSections, Locked, InSet, AddEntry
  <2>3. Used(index[p]) \in Nat /\ total_bytes[p] \in Nat /\ total_bytes[p] >= Used(index[p])
    BY ZenonT(60), <1>1, UsedIsNat DEF Inv, NeverUndercounts
  <2>4. CASE ~OverBudget(p)
    BY <2>1, <2>3, <2>4, ConstantsOK DEF OverBudget
  <2>5. CASE Candidates(p) = {}
    <3>1. DOMAIN index[p] = {}
      BY <2>2, <2>5 DEF Candidates, Locked
    <3>2. Used(index[p]) = 0
      BY ZenonT(60), <3>1, UsedOfEmpty
    <3>3. Head(todo[p]) \in Key
      BY ZenonT(60), <1>1, <2>2, HeadTailProperties DEF Inv, TypeOK, BatchOK
    <3>4. needed[p] <= PageBytes[Head(todo[p])]
      BY <2>2 DEF Locked
    <3>5. needed[p] <= MaxDiskBytes
      BY <3>3, <3>4, <2>1, ConstantsOK
    <3> QED
      BY <2>1, <3>2, <3>5
  <2> QED
    BY SMTT(60), <1>1, <2>4, <2>5 DEF AddEntry
<1>2. Inv /\ [Next]_vars => [\A p \in Proc : AddEntry(p) => Used(index'[p]) <= MaxDiskBytes]_vars
  BY <1>1
<1> QED
  BY <1>2, Invariance, PTL DEF Spec, BudgetRestored

=============================================================================
