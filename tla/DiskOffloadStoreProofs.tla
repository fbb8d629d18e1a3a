----------------------- MODULE DiskOffloadStoreProofs -----------------------
(***************************************************************************)
(* What the SSD tier promises as a store of pages: eviction takes the       *)
(* coldest pages first, and, for one process that does not crash, every     *)
(* page the index lists can be read back.                                   *)
(***************************************************************************)
EXTENDS DiskOffloadProofs

-----------------------------------------------------------------------------
(* Eviction order *)

(* A step that neither starts an eviction nor changes which pages are        *)
(* indexed keeps the order.                                                 *)
LEMMA ColdestFrame ==
    ASSUME NEW p \in Proc, ColdestFirst(p),
           pc'[p]["backup"] = "evict" => /\ pc[p]["backup"] = "evict"
                                         /\ evictable'[p] = evictable[p]
                                         /\ DOMAIN index'[p] = DOMAIN index[p]
    PROVE  ColdestFirst(p)'
BY DEF ColdestFirst, Candidates

(* _touch_access changes no index domain.                                   *)
LEMMA TouchDomain ==
    ASSUME TypeOK, NEW p \in Proc, NEW k, touch_access(p, k), NEW q \in Proc
    PROVE  DOMAIN index'[q] = DOMAIN index[q]
<1>1. CASE k \notin DOMAIN index[p]
  BY <1>1 DEF touch_access
<1>2. CASE k \in DOMAIN index[p]
  <2>1. index' = [index EXCEPT ![p] = Put(index[p], k, [size |-> index[p][k].size,
                                                        last_access |-> Now])]
    BY SMTT(60), <1>2 DEF touch_access
  <2> QED
    BY ZenonT(60), <1>2, <2>1 DEF Put, TypeOK, MemOK
<1> QED
  BY <1>1, <1>2

(* Every step keeps the order of eviction: the list is taken with the lock   *)
(* held, so no clear removes pages between two evictions.                   *)
LEMMA ColdestStep ==
    ASSUME TypeOK, LockedSections, EvictsColdestFirst, [Next]_vars
    PROVE  EvictsColdestFirst'
<1> USE DEF Thread
<1>1. ASSUME NEW p \in Proc, batch_set(p)
      PROVE  EvictsColdestFirst'
  <2>1. ASSUME NEW q \in Proc, pc'[q]["backup"] = "evict"
        PROVE  /\ pc[q]["backup"] = "evict"
               /\ evictable'[q] = evictable[q]
               /\ DOMAIN index'[q] = DOMAIN index[q]
    BY SMTT(60), <1>1, <2>1 DEF batch_set, Goto, TypeOK, ControlOK, mem, batch
  <2> QED
    BY <2>1, ColdestFrame DEF EvictsColdestFirst
<1>2. ASSUME NEW p \in Proc, SetHit(p)
      PROVE  EvictsColdestFirst'
  <2>1. ASSUME NEW q \in Proc, pc'[q]["backup"] = "evict"
        PROVE  /\ pc[q]["backup"] = "evict"
               /\ evictable'[q] = evictable[q]
               /\ DOMAIN index'[q] = DOMAIN index[q]
    BY SMTT(60), <1>2, <2>1, TouchDomain DEF SetHit, EnterSet, Goto, TypeOK, ControlOK, mem, batch
  <2> QED
    BY <2>1, ColdestFrame DEF EvictsColdestFirst
<1>3. ASSUME NEW p \in Proc, SaveBegin(p)
      PROVE  EvictsColdestFirst'
  <2>1. ASSUME NEW q \in Proc, pc'[q]["backup"] = "evict"
        PROVE  /\ pc[q]["backup"] = "evict"
               /\ evictable'[q] = evictable[q]
               /\ DOMAIN index'[q] = DOMAIN index[q]
    BY SMTT(60), <1>3, <2>1 DEF SaveBegin, EnterSet, Goto, TypeOK, ControlOK, mem, batch
  <2> QED
    BY <2>1, ColdestFrame DEF EvictsColdestFirst
<1>4. ASSUME NEW p \in Proc, SaveEnd(p)
      PROVE  EvictsColdestFirst'
  <2>1. ASSUME NEW q \in Proc, pc'[q]["backup"] = "evict"
        PROVE  /\ pc[q]["backup"] = "evict"
               /\ evictable'[q] = evictable[q]
               /\ DOMAIN index'[q] = DOMAIN index[q]
    BY SMTT(60), <1>4, <2>1 DEF SaveEnd, Goto, TypeOK, ControlOK, mem, batch
  <2> QED
    BY <2>1, ColdestFrame DEF EvictsColdestFirst
<1>5. ASSUME NEW p \in Proc, SaveRaises(p)
      PROVE  EvictsColdestFirst'
  <2>1. ASSUME NEW q \in Proc, pc'[q]["backup"] = "evict"
        PROVE  /\ pc[q]["backup"] = "evict"
               /\ evictable'[q] = evictable[q]
               /\ DOMAIN index'[q] = DOMAIN index[q]
    BY SMTT(60), <1>5, <2>1 DEF SaveRaises, ReturnFromSet, Goto, TypeOK, ControlOK, mem, batch
  <2> QED
    BY <2>1, ColdestFrame DEF EvictsColdestFirst
<1>6. ASSUME NEW p \in Proc, GetsizeRaises(p)
      PROVE  EvictsColdestFirst'
  <2>1. ASSUME NEW q \in Proc, pc'[q]["backup"] = "evict"
        PROVE  /\ pc[q]["backup"] = "evict"
               /\ evictable'[q] = evictable[q]
               /\ DOMAIN index'[q] = DOMAIN index[q]
    BY SMTT(60), <1>6, <2>1 DEF GetsizeRaises, ReturnFromSet, Goto, TypeOK, ControlOK, mem, batch
  <2> QED
    BY <2>1, ColdestFrame DEF EvictsColdestFirst
<1>7. ASSUME NEW p \in Proc, AddEntry(p)
      PROVE  EvictsColdestFirst'
  <2>1. ASSUME NEW q \in Proc, pc'[q]["backup"] = "evict"
        PROVE  /\ pc[q]["backup"] = "evict"
               /\ evictable'[q] = evictable[q]
               /\ DOMAIN index'[q] = DOMAIN index[q]
    BY SMTT(60), <1>7, <2>1 DEF AddEntry, Goto, TypeOK, ControlOK, MemOK, BatchOK, mem, batch
  <2> QED
    BY <2>1, ColdestFrame DEF EvictsColdestFirst
<1>8. ASSUME NEW p \in Proc, BatchEnd(p)
      PROVE  EvictsColdestFirst'
  <2>1. ASSUME NEW q \in Proc, pc'[q]["backup"] = "evict"
        PROVE  /\ pc[q]["backup"] = "evict"
               /\ evictable'[q] = evictable[q]
               /\ DOMAIN index'[q] = DOMAIN index[q]
    BY SMTT(60), <1>8, <2>1 DEF BatchEnd, Goto, TypeOK, ControlOK, mem, batch
  <2> QED
    BY <2>1, ColdestFrame DEF EvictsColdestFirst
<1>9. ASSUME NEW p \in Proc, ClearBegin(p)
      PROVE  EvictsColdestFirst'
  <2>1. ASSUME NEW q \in Proc, pc'[q]["backup"] = "evict"
        PROVE  /\ pc[q]["backup"] = "evict"
               /\ evictable'[q] = evictable[q]
               /\ DOMAIN index'[q] = DOMAIN index[q]
    BY SMTT(60), <1>9, <2>1 DEF ClearBegin, Goto, TypeOK, ControlOK, mem, batch
  <2> QED
    BY <2>1, ColdestFrame DEF EvictsColdestFirst
<1>10. ASSUME NEW p \in Proc, ClearEnd(p)
      PROVE  EvictsColdestFirst'
  <2>1. ASSUME NEW q \in Proc, pc'[q]["backup"] = "evict"
        PROVE  /\ pc[q]["backup"] = "evict"
               /\ evictable'[q] = evictable[q]
               /\ DOMAIN index'[q] = DOMAIN index[q]
    BY SMTT(60), <1>10, <2>1 DEF ClearEnd, Goto, TypeOK, ControlOK, mem, batch
  <2> QED
    BY <2>1, ColdestFrame DEF EvictsColdestFirst
<1>11. ASSUME NEW p \in Proc, ClearEvict(p)
      PROVE  EvictsColdestFirst'
  <2>1. ASSUME NEW q \in Proc, pc'[q]["backup"] = "evict"
        PROVE  /\ pc[q]["backup"] = "evict"
               /\ evictable'[q] = evictable[q]
               /\ DOMAIN index'[q] = DOMAIN index[q]
    BY ZenonT(60), <1>11, <2>1 DEF ClearEvict, evict_one, LockedSections, Locked, InSet, TypeOK, ControlOK, MemOK, mem, batch
  <2> QED
    BY <2>1, ColdestFrame DEF EvictsColdestFirst
<1>12. ASSUME NEW p \in Proc, QueryHit(p)
      PROVE  EvictsColdestFirst'
  <2>1. ASSUME NEW q \in Proc, pc'[q]["backup"] = "evict"
        PROVE  /\ pc[q]["backup"] = "evict"
               /\ evictable'[q] = evictable[q]
               /\ DOMAIN index'[q] = DOMAIN index[q]
    BY SMTT(60), <1>12, <2>1 DEF QueryHit, TypeOK, ControlOK, mem, batch
  <2> QED
    BY <2>1, ColdestFrame DEF EvictsColdestFirst
<1>13. ASSUME NEW p \in Proc, GetLoad(p)
      PROVE  EvictsColdestFirst'
  <2>1. ASSUME NEW q \in Proc, pc'[q]["backup"] = "evict"
        PROVE  /\ pc[q]["backup"] = "evict"
               /\ evictable'[q] = evictable[q]
               /\ DOMAIN index'[q] = DOMAIN index[q]
    BY SMTT(60), <1>13, <2>1 DEF GetLoad, TypeOK, ControlOK, mem, batch
  <2> QED
    BY <2>1, ColdestFrame DEF EvictsColdestFirst
<1>14. ASSUME NEW p \in Proc, GetTouch(p)
      PROVE  EvictsColdestFirst'
  <2>1. ASSUME NEW q \in Proc, pc'[q]["backup"] = "evict"
        PROVE  /\ pc[q]["backup"] = "evict"
               /\ evictable'[q] = evictable[q]
               /\ DOMAIN index'[q] = DOMAIN index[q]
    BY SMTT(60), <1>14, <2>1, TouchDomain DEF GetTouch, TypeOK, ControlOK, mem, batch
  <2> QED
    BY <2>1, ColdestFrame DEF EvictsColdestFirst
<1>15. ASSUME NEW p \in Proc, Crash(p)
      PROVE  EvictsColdestFirst'
  <2>1. ASSUME NEW q \in Proc, pc'[q]["backup"] = "evict"
        PROVE  /\ pc[q]["backup"] = "evict"
               /\ evictable'[q] = evictable[q]
               /\ DOMAIN index'[q] = DOMAIN index[q]
    BY <1>15, <2>1 DEF Crash, Restart, TypeOK, ControlOK, mem, batch
  <2> QED
    BY <2>1, ColdestFrame DEF EvictsColdestFirst
<1>16. ASSUME NEW p \in Proc, NEW t \in Thread, FlushSkip(p, t)
      PROVE  EvictsColdestFirst'
  <2>1. ASSUME NEW q \in Proc, pc'[q]["backup"] = "evict"
        PROVE  /\ pc[q]["backup"] = "evict"
               /\ evictable'[q] = evictable[q]
               /\ DOMAIN index'[q] = DOMAIN index[q]
    BY ZenonT(60), <1>16, <2>1, FlushExitMoves DEF FlushSkip, Flushing, TypeOK, ControlOK, mem, batch
  <2> QED
    BY <2>1, ColdestFrame DEF EvictsColdestFirst
<1>17. ASSUME NEW p \in Proc, NEW t \in Thread, FlushBuild(p, t)
      PROVE  EvictsColdestFirst'
  <2>1. ASSUME NEW q \in Proc, pc'[q]["backup"] = "evict"
        PROVE  /\ pc[q]["backup"] = "evict"
               /\ evictable'[q] = evictable[q]
               /\ DOMAIN index'[q] = DOMAIN index[q]
    BY SMTT(60), <1>17, <2>1 DEF FlushBuild, Goto, TypeOK, ControlOK, mem, batch
  <2> QED
    BY <2>1, ColdestFrame DEF EvictsColdestFirst
<1>18. ASSUME NEW p \in Proc, NEW t \in Thread, FlushOpen(p, t)
      PROVE  EvictsColdestFirst'
  <2>1. ASSUME NEW q \in Proc, pc'[q]["backup"] = "evict"
        PROVE  /\ pc[q]["backup"] = "evict"
               /\ evictable'[q] = evictable[q]
               /\ DOMAIN index'[q] = DOMAIN index[q]
    BY SMTT(60), <1>18, <2>1 DEF FlushOpen, Goto, TypeOK, ControlOK, mem, batch
  <2> QED
    BY <2>1, ColdestFrame DEF EvictsColdestFirst
<1>19. ASSUME NEW p \in Proc, NEW t \in Thread, FlushIterate(p, t)
      PROVE  EvictsColdestFirst'
  <2>1. ASSUME NEW q \in Proc, pc'[q]["backup"] = "evict"
        PROVE  /\ pc[q]["backup"] = "evict"
               /\ evictable'[q] = evictable[q]
               /\ DOMAIN index'[q] = DOMAIN index[q]
    BY SMTT(60), <1>19, <2>1 DEF FlushIterate, Goto, TypeOK, ControlOK, mem, batch
  <2> QED
    BY <2>1, ColdestFrame DEF EvictsColdestFirst
<1>20. ASSUME NEW p \in Proc, NEW t \in Thread, FlushDump(p, t)
      PROVE  EvictsColdestFirst'
  <2>1. ASSUME NEW q \in Proc, pc'[q]["backup"] = "evict"
        PROVE  /\ pc[q]["backup"] = "evict"
               /\ evictable'[q] = evictable[q]
               /\ DOMAIN index'[q] = DOMAIN index[q]
    BY <1>20, <2>1 DEF FlushDump, Goto, TypeOK, ControlOK, mem, batch
  <2> QED
    BY <2>1, ColdestFrame DEF EvictsColdestFirst
<1>21. ASSUME NEW p \in Proc, NEW t \in Thread, FlushDumpRaises(p, t)
      PROVE  EvictsColdestFirst'
  <2>1. ASSUME NEW q \in Proc, pc'[q]["backup"] = "evict"
        PROVE  /\ pc[q]["backup"] = "evict"
               /\ evictable'[q] = evictable[q]
               /\ DOMAIN index'[q] = DOMAIN index[q]
    BY ZenonT(60), <1>21, <2>1, FlushExitMoves DEF FlushDumpRaises, Flushing, TypeOK, ControlOK, mem, batch
  <2> QED
    BY <2>1, ColdestFrame DEF EvictsColdestFirst
<1>22. ASSUME NEW p \in Proc, NEW t \in Thread, FlushReplace(p, t)
      PROVE  EvictsColdestFirst'
  <2>1. ASSUME NEW q \in Proc, pc'[q]["backup"] = "evict"
        PROVE  /\ pc[q]["backup"] = "evict"
               /\ evictable'[q] = evictable[q]
               /\ DOMAIN index'[q] = DOMAIN index[q]
    BY ZenonT(60), <1>22, <2>1, FlushExitMoves DEF FlushReplace, Flushing, TypeOK, ControlOK, mem, batch
  <2> QED
    BY <2>1, ColdestFrame DEF EvictsColdestFirst
<1>23. ASSUME NEW p \in Proc, NEW t \in Thread, FlushReplaceRaises(p, t)
      PROVE  EvictsColdestFirst'
  <2>1. ASSUME NEW q \in Proc, pc'[q]["backup"] = "evict"
        PROVE  /\ pc[q]["backup"] = "evict"
               /\ evictable'[q] = evictable[q]
               /\ DOMAIN index'[q] = DOMAIN index[q]
    BY ZenonT(60), <1>23, <2>1, FlushExitMoves DEF FlushReplaceRaises, Flushing, TypeOK, ControlOK, mem, batch
  <2> QED
    BY <2>1, ColdestFrame DEF EvictsColdestFirst
<1>24. ASSUME NEW p \in Proc, EnforceBegin(p)
      PROVE  EvictsColdestFirst'
  <2>1. DOMAIN evictable'[p] = DOMAIN index'[p]
    BY <1>24 DEF EnforceBegin, TypeOK, BatchOK, mem
  <2>2. ColdestFirst(p)'
    BY <2>1 DEF ColdestFirst
  <2>3. ASSUME NEW q \in Proc, q # p
        PROVE  ColdestFirst(q)'
    <3>1. pc'[q] = pc[q] /\ evictable'[q] = evictable[q] /\ index'[q] = index[q]
      BY <1>24, <2>3 DEF EnforceBegin, Goto, TypeOK, ControlOK, BatchOK, mem
    <3> QED
      BY <3>1, ColdestFrame DEF EvictsColdestFirst
  <2> QED
    BY <2>2, <2>3 DEF EvictsColdestFirst
<1>25. ASSUME NEW p \in Proc, EvictColdest(p)
      PROVE  EvictsColdestFirst'
  <2>1. PICK k \in Candidates(p) : /\ \A j \in Candidates(p) : evictable[p][k] <= evictable[p][j]
                                   /\ evict_one(p, k)
    BY <1>25 DEF EvictColdest
  <2>2. /\ index'[p] = Drop(index[p], k)
        /\ evictable'[p] = evictable[p]
        /\ pc[p]["backup"] = "evict"
    BY <1>25, <2>1 DEF EvictColdest, evict_one, TypeOK, MemOK, batch
  <2>3. ColdestFirst(p)'
    <3> SUFFICES ASSUME NEW gone \in DOMAIN evictable[p] \ DOMAIN index'[p],
                        NEW kept \in DOMAIN evictable[p] \cap DOMAIN index'[p]
                 PROVE  evictable[p][gone] <= evictable[p][kept]
      BY <2>2 DEF ColdestFirst, Candidates
    <3>1. kept \in Candidates(p)
      BY <2>2 DEF Drop, Candidates
    <3>2. CASE gone = k
      BY <2>1, <3>1, <3>2
    <3>3. CASE gone # k
      <4>1. gone \in DOMAIN evictable[p] \ DOMAIN index[p]
        BY <2>2, <3>3 DEF Drop
      <4> QED
        BY <2>2, <3>1, <4>1 DEF EvictsColdestFirst, ColdestFirst
    <3> QED
      BY <3>2, <3>3
  <2>4. ASSUME NEW q \in Proc, q # p
        PROVE  ColdestFirst(q)'
    <3>1. pc'[q] = pc[q] /\ evictable'[q] = evictable[q] /\ index'[q] = index[q]
      BY <1>25, <2>1, <2>4 DEF EvictColdest, evict_one, TypeOK, MemOK, batch
    <3> QED
      BY SMTT(60), <3>1, ColdestFrame DEF EvictsColdestFirst
  <2> QED
    BY <2>3, <2>4 DEF EvictsColdestFirst
<1>26. CASE PowerLoss
  BY SMTT(60), <1>26 DEF PowerLoss, Restart, EvictsColdestFirst, ColdestFirst
<1>27. CASE UNCHANGED vars
  BY <1>27 DEF vars, mem, batch, EvictsColdestFirst, ColdestFirst, Candidates
<1> QED
  BY SMTT(60), <1>1, <1>2, <1>3, <1>4, <1>5, <1>6, <1>7, <1>8, <1>9, <1>10, <1>11, <1>12, <1>13, <1>14, <1>15, <1>16, <1>17, <1>18, <1>19, <1>20, <1>21, <1>22, <1>23, <1>24, <1>25, <1>26, <1>27
     DEF Next, BackupStep, clear, get, flush_index

(* _enforce_budget evicts in order of last access as of the moment it sorted *)
(* the index, for any number of processes, readers and faults.              *)
THEOREM EvictionOrderCorrect == Spec => []EvictsColdestFirst
<1>1. Init => EvictsColdestFirst
  BY DEF Init, EvictsColdestFirst, ColdestFirst, Thread
<1>2. Inv /\ EvictsColdestFirst /\ [Next]_vars => EvictsColdestFirst'
  BY ColdestStep DEF Inv
<1> QED
  BY <1>1, <1>2, Invariance, PTL DEF Spec

-----------------------------------------------------------------------------
(* Indexed pages can be read back *)

(* What one process guarantees about its page files: every indexed page is   *)
(* whole, and so is the page set has saved and not yet entered.             *)
PagesWhole(p) ==
    /\ \A k \in DOMAIN index[p] : Whole(k)
    /\ pc[p]["backup"] = "save" => Head(todo[p]) \in DOMAIN files
    /\ pc[p]["backup"] \in {"saved", "evict"} => Whole(Head(todo[p]))

(* A step that touches no file, enters no page and does not move set forward *)
(* keeps the pages whole.                                                   *)
LEMMA WholeFrame ==
    ASSUME NEW p \in Proc, PagesWhole(p), UNCHANGED files,
           DOMAIN index'[p] \subseteq DOMAIN index[p],
           pc'[p]["backup"] \in {"save", "saved", "evict"} =>
               pc'[p]["backup"] = pc[p]["backup"] /\ todo'[p] = todo[p]
    PROVE  PagesWhole(p)'
<1>1. ASSUME NEW k PROVE Whole(k)' <=> Whole(k)
  BY DEF Whole
<1>2. \A k \in DOMAIN index'[p] : Whole(k)'
  BY <1>1 DEF PagesWhole
<1>3. pc'[p]["backup"] = "save" => Head(todo'[p]) \in DOMAIN files'
  BY DEF PagesWhole
<1>4. pc'[p]["backup"] \in {"saved", "evict"} => Whole(Head(todo[p]))'
  BY DEF PagesWhole, Whole
<1> QED
  BY <1>2, <1>3, <1>4 DEF PagesWhole

(* Evicting a page other than the one set is saving keeps the rest whole.    *)
LEMMA WholeEvict ==
    ASSUME TypeOK, NEW p \in Proc, PagesWhole(p), NEW k \in DOMAIN index[p], evict_one(p, k),
           UNCHANGED <<pc, todo>>,
           pc[p]["backup"] \in {"save", "saved", "evict"} => Head(todo[p]) # k
    PROVE  PagesWhole(p)'
<1>1. files' = Drop(files, k) /\ index'[p] = Drop(index[p], k)
  BY DEF evict_one, TypeOK, MemOK
<1>2. ASSUME NEW j, j # k, Whole(j) PROVE Whole(j)'
  BY SMTT(60), <1>1, <1>2 DEF Whole, Drop
<1>3. \A j \in DOMAIN index'[p] : Whole(j)'
  BY <1>1, <1>2 DEF PagesWhole, Drop
<1>4. pc'[p]["backup"] = "save" => Head(todo'[p]) \in DOMAIN files'
  BY <1>1 DEF PagesWhole, Drop
<1>5. pc'[p]["backup"] \in {"saved", "evict"} => Whole(Head(todo[p]))'
  <2> SUFFICES ASSUME pc[p]["backup"] \in {"saved", "evict"}
               PROVE  Whole(Head(todo[p]))'
    OBVIOUS
  <2>1. Whole(Head(todo[p])) /\ Head(todo[p]) # k
    BY DEF PagesWhole
  <2>2. /\ Head(todo[p]) \in DOMAIN files'
        /\ files'[Head(todo[p])].len = PageBytes[Head(todo[p])]
    BY SMTT(60), <1>1, <2>1 DEF Whole, Drop
  <2> QED
    BY <2>2 DEF Whole
<1> QED
  BY SMTT(60), <1>3, <1>4, <1>5 DEF PagesWhole

(* Every step of a process alone in its directory that does not crash keeps  *)
(* its pages whole.                                                         *)
LEMMA WholeStep ==
    ASSUME NEW p, Proc = {p}, "crash" \notin Faults, "powerloss" \notin Faults,
           TypeOK, LockedSections, PagesWhole(p), [Next]_vars
    PROVE  PagesWhole(p)'
<1> USE DEF Thread
<1>1. p \in Proc /\ Locked(p)
  BY DEF LockedSections
<1>2. CASE SaveBegin(p)
  <2> DEFINE k == Head(todo[p])
  <2>1. PICK n \in 0 .. PageBytes[k] - 1 : files' = Put(files, k, [len |-> n, mtime |-> Now])
    BY <1>2 DEF SaveBegin
  <2>2. k \notin DOMAIN index[p] /\ index' = index /\ todo' = todo /\ pc'[p]["backup"] = "save"
    BY ZenonT(60), <1>1, <1>2 DEF SaveBegin, Goto, mem, batch, TypeOK, ControlOK
  <2>3. \A j \in DOMAIN index'[p] : Whole(j)'
    BY ZenonT(60), <2>1, <2>2 DEF PagesWhole, Whole, Put
  <2>4. Head(todo'[p]) \in DOMAIN files'
    BY ZenonT(60), <2>1, <2>2 DEF Put
  <2> QED
    BY <2>2, <2>3, <2>4 DEF PagesWhole
<1>3. CASE SaveEnd(p)
  <2> DEFINE k == Head(todo[p])
  <2>1. k \in DOMAIN files
    BY <1>3 DEF SaveEnd, PagesWhole
  <2>2. files' = [files EXCEPT ![k] = [files[k] EXCEPT !.len = PageBytes[k]]]
    BY ZenonT(60), <1>3, <2>1 DEF SaveEnd
  <2>3. index' = index /\ todo' = todo /\ pc'[p]["backup"] = "saved" /\ k \notin DOMAIN index[p]
    BY <1>1, <1>3 DEF SaveEnd, Goto, mem, batch, TypeOK, ControlOK, Locked
  <2>4. files[k] \in [len : 0 .. PageBytes[k], mtime : Nat]
    BY <2>1 DEF TypeOK, FilesOK
  <2>5. k \in DOMAIN files' /\ files'[k].len = PageBytes[k]
    BY ZenonT(60), <2>1, <2>2, <2>4
  <2>6. \A j \in DOMAIN index'[p] : Whole(j)'
    BY <2>2, <2>3 DEF PagesWhole, Whole
  <2>7. Whole(Head(todo[p]))'
    BY ZenonT(60), <2>3, <2>5 DEF Whole
  <2> QED
    BY <2>3, <2>6, <2>7 DEF PagesWhole
<1>4. CASE EnforceBegin(p)
  <2>1. /\ UNCHANGED <<files, index, todo>>
        /\ pc[p]["backup"] = "saved" /\ pc'[p]["backup"] = "evict"
    BY <1>1, <1>4 DEF EnforceBegin, Goto, disk, mem, TypeOK, ControlOK
  <2> QED
    BY ZenonT(60), <2>1 DEF PagesWhole, Whole
<1>5. CASE EvictColdest(p)
  <2>1. PICK k \in Candidates(p) : evict_one(p, k)
    BY ZenonT(60), <1>5 DEF EvictColdest
  <2>2. k \in DOMAIN index[p] /\ Head(todo[p]) # k /\ UNCHANGED <<pc, todo>>
    BY ZenonT(60), <1>1, <1>5, <2>1 DEF EvictColdest, Candidates, Locked, batch
  <2> QED
    BY ZenonT(60), <1>1, <2>1, <2>2, WholeEvict
<1>6. CASE ClearEvict(p)
  <2>1. PICK k \in DOMAIN index[p] : evict_one(p, k)
    BY ZenonT(60), <1>6 DEF ClearEvict
  <2>2. pc[p]["backup"] \notin {"save", "saved", "evict"} /\ UNCHANGED <<pc, todo>>
    BY ZenonT(60), <1>1, <1>6 DEF ClearEvict, Locked, InSet, batch
  <2> QED
    BY ZenonT(60), <1>1, <2>1, <2>2, WholeEvict
<1>7. CASE AddEntry(p)
  <2>1. /\ UNCHANGED <<files, todo>>
        /\ pc[p]["backup"] = "evict" /\ pc'[p]["backup"] = "flush"
        /\ DOMAIN index'[p] = DOMAIN index[p] \cup {Head(todo[p])}
    BY SMTT(60), <1>1, <1>7 DEF AddEntry, Goto, Put, disk, TypeOK, ControlOK, MemOK
  <2>2. \A k \in DOMAIN index[p] \cup {Head(todo[p])} : Whole(k)
    BY <2>1 DEF PagesWhole
  <2>3. \A k \in DOMAIN index'[p] : Whole(k)'
    BY ZenonT(60), <2>1, <2>2 DEF Whole
  <2> QED
    BY ZenonT(60), <2>1, <2>3 DEF PagesWhole
<1>8. ASSUME SetHit(p) \/ GetTouch(p)
      PROVE  PagesWhole(p)'
  <2>1. DOMAIN index'[p] = DOMAIN index[p]
    BY ZenonT(60), <1>1, <1>8, TouchDomain DEF SetHit, GetTouch
  <2>2. UNCHANGED <<files, todo>> /\ (pc'[p]["backup"] = "flush" \/ UNCHANGED pc)
    BY <1>1, <1>8 DEF SetHit, GetTouch, Goto, disk, batch, TypeOK, ControlOK
  <2> QED
    BY ZenonT(60), <1>1, <2>1, <2>2, WholeFrame
<1>9. ASSUME \/ batch_set(p) \/ SaveRaises(p) \/ GetsizeRaises(p) \/ BatchEnd(p)
             \/ ClearBegin(p) \/ ClearEnd(p) \/ QueryHit(p) \/ GetLoad(p)
      PROVE  PagesWhole(p)'
  <2>1. UNCHANGED <<files, index>>
    BY ZenonT(60), <1>9 DEF batch_set, SaveRaises, GetsizeRaises, BatchEnd, ClearBegin, ClearEnd, QueryHit,
                GetLoad, disk, mem
  <2>2. \/ pc'[p]["backup"] \in {"next", "flush"}
        \/ pc'[p]["backup"] = pc[p]["backup"] /\ UNCHANGED todo
    <3>1. \/ Goto(p, "backup", "next") \/ Goto(p, "backup", "flush")
          \/ UNCHANGED todo /\ (Goto(p, "sched", "clear") \/ Goto(p, "sched", "flush"))
          \/ UNCHANGED <<todo, pc>>
      BY ZenonT(60), <1>9 DEF batch_set, SaveRaises, GetsizeRaises, BatchEnd, ClearBegin, ClearEnd,
                  QueryHit, GetLoad, ReturnFromSet, batch
    <3> QED
      BY <1>1, <3>1 DEF Goto, TypeOK, ControlOK
  <2> QED
    BY ZenonT(60), <1>1, <2>1, <2>2, WholeFrame
<1>10. ASSUME NEW t \in Thread, \/ FlushBuild(p, t) \/ FlushOpen(p, t)
                                \/ FlushIterate(p, t) \/ FlushDump(p, t)
       PROVE  PagesWhole(p)'
  <2>1. UNCHANGED <<files, index, todo>>
    BY ZenonT(60), <1>10 DEF FlushBuild, FlushOpen, FlushIterate, FlushDump, disk, mem, batch
  <2>2. \E where \in {"build", "open", "dump", "replace"} : Goto(p, t, where)
    BY ZenonT(60), <1>10 DEF FlushBuild, FlushOpen, FlushIterate, FlushDump
  <2>3. \/ pc'[p]["backup"] \in {"build", "open", "dump", "replace"}
        \/ pc'[p]["backup"] = pc[p]["backup"]
    BY ZenonT(60), <1>1, <2>2, GotoMoves
  <2> QED
    BY ZenonT(60), <1>1, <2>1, <2>3, WholeFrame
<1>11. ASSUME NEW t \in Thread, \/ FlushSkip(p, t) \/ FlushDumpRaises(p, t)
                                \/ FlushReplace(p, t) \/ FlushReplaceRaises(p, t)
       PROVE  PagesWhole(p)'
  <2>1. /\ UNCHANGED <<files, index>> /\ (FlushReturns(p, t) \/ FlushRaises(p, t))
        /\ pc[p][t] \in Flushing
    BY ZenonT(60), <1>11 DEF FlushSkip, FlushDumpRaises, FlushReplace, FlushReplaceRaises, Flushing, disk, mem
  <2>2. UNCHANGED todo \/ pc'[p]["backup"] = "next"
    BY SMTT(60), <1>1, <2>1 DEF FlushReturns, FlushRaises, ReturnFromSet, Goto, TypeOK, ControlOK
  <2>3. pc'[p]["backup"] \in {"save", "saved", "evict"} => pc'[p]["backup"] = pc[p]["backup"]
    BY ZenonT(60), <1>1, <2>1, FlushExitMoves
  <2> QED
    BY ZenonT(60), <1>1, <2>1, <2>2, <2>3, WholeFrame
<1>12. CASE UNCHANGED vars
  <2>1. UNCHANGED <<files, index, todo, pc>>
    BY ZenonT(60), <1>12 DEF vars, disk, mem, batch
  <2> QED
    BY ZenonT(60), <1>1, <2>1, WholeFrame
<1>13. ~Crash(p) /\ ~PowerLoss
  BY DEF Crash, PowerLoss
<1> QED
  BY SMTT(60), <1>2, <1>3, <1>4, <1>5, <1>6, <1>7, <1>8, <1>9, <1>10, <1>11, <1>12, <1>13
     DEF Next, BackupStep, clear, get, flush_index

(* A process alone in its directory that does not crash can read back every  *)
(* page its index lists, whatever writes fail (a failed save never enters a  *)
(* page) and however set, clear and the unlocked get interleave.            *)
THEOREM PagesCorrect ==
    ASSUME NEW p, Proc = {p}, "crash" \notin Faults, "powerloss" \notin Faults
    PROVE  Spec => []IndexedPagesWhole
<1>1. Init => PagesWhole(p)
  BY DEF Init, PagesWhole, load_index, Absent, Json, Empty, Thread
<1>2. Inv /\ PagesWhole(p) /\ [Next]_vars => PagesWhole(p)'
  BY WholeStep DEF Inv
<1>3. PagesWhole(p) => IndexedPagesWhole
  BY DEF PagesWhole, IndexedPagesWhole
<1> QED
  BY <1>1, <1>2, <1>3, Invariance, PTL DEF Spec

-----------------------------------------------------------------------------
(* Exact accounting *)

(* Without clear no total a flush has read can grow stale.                  *)
Exact ==
    /\ AccountingExact
    /\ \A p \in Proc : pc[p]["sched"] = "idle"
    /\ \A p \in Proc : pc[p]["backup"] \in {"build", "open", "dump"} =>
                           data[p]["backup"] = total_bytes[p]

(* The parts of Exact that concern one process follow when its counter and   *)
(* index change alike and its backup thread does not enter a flush.         *)
LEMMA ExactFrame ==
    ASSUME Exact, UNCHANGED <<index_json, tmp_json>>,
           \A q \in Proc : total_bytes'[q] = Used(index'[q]),
           \A q \in Proc : pc'[q]["sched"] = pc[q]["sched"],
           \A q \in Proc : pc'[q]["backup"] \in {"build", "open", "dump"} =>
               /\ pc[q]["backup"] \in {"build", "open", "dump"}
               /\ data'[q]["backup"] = data[q]["backup"]
               /\ total_bytes'[q] = total_bytes[q]
    PROVE  Exact'
BY DEF Exact, AccountingExact

(* Every step of processes nobody clears keeps the accounting exact.        *)
LEMMA ExactStep ==
    ASSUME "clear" \notin Calls, Inv, Exact, [Next]_vars
    PROVE  Exact'
<1> USE DEF Thread, Inv
<1>0. /\ JsonType(Corrupt) /\ Corrupt.total_bytes = Used(Corrupt.pages)
      /\ Truncated.total_bytes = Used(Truncated.pages)
      /\ Absent.total_bytes = Used(Absent.pages)
  BY UsedOfEmpty DEF JsonType, IndexType, Corrupt, Truncated, Absent, Empty
<1>1. \A q \in Proc : total_bytes[q] = Used(index[q])
  BY DEF Exact, AccountingExact
<1>2. ASSUME NEW p \in Proc, SetHit(p) \/ GetTouch(p)
      PROVE  Exact'
  <2>1. (\E k : touch_access(p, k)) /\ UNCHANGED <<total_bytes, index_json, tmp_json, data>>
    BY <1>2 DEF SetHit, GetTouch, disk, flushing
  <2>2. \A q \in Proc : total_bytes'[q] = Used(index'[q])
    BY <1>1, <2>1, TouchCounts
  <2>3. Goto(p, "backup", "flush") \/ UNCHANGED pc
    BY <1>2 DEF SetHit, GetTouch
  <2> QED
    BY SMTT(60), <2>1, <2>2, <2>3, GotoMoves, ExactFrame
<1>3. ASSUME NEW p \in Proc, EvictColdest(p)
      PROVE  Exact'
  <2>1. PICK k \in DOMAIN index[p] : evict_one(p, k)
    BY ZenonT(60), <1>3 DEF EvictColdest, Candidates
  <2>2. /\ total_bytes'[p] = total_bytes[p] - index[p][k].size
        /\ Used(index'[p]) = Used(index[p]) - index[p][k].size
        /\ \A q \in Proc \ {p} : total_bytes'[q] = total_bytes[q] /\ index'[q] = index[q]
    BY ZenonT(60), <2>1, EvictCounts
  <2>3. UNCHANGED <<index_json, tmp_json, pc, data>> /\ pc[p]["backup"] = "evict"
    BY <1>3 DEF EvictColdest, flushing
  <2>4. \A q \in Proc : total_bytes'[q] = Used(index'[q])
    BY SMTT(60), <1>1, <2>2
  <2> QED
    BY ZenonT(60), <2>2, <2>3, <2>4, ExactFrame
<1>4. ASSUME NEW p \in Proc, AddEntry(p)
      PROVE  Exact'
  <2>1. /\ total_bytes'[p] = total_bytes[p] + needed[p]
        /\ Used(index'[p]) = Used(index[p]) + needed[p]
        /\ \A q \in Proc \ {p} : total_bytes'[q] = total_bytes[q] /\ index'[q] = index[q]
    BY <1>4, AddCounts
  <2>2. UNCHANGED <<index_json, tmp_json, data>> /\ Goto(p, "backup", "flush")
    BY <1>4 DEF AddEntry, disk
  <2>3. \A q \in Proc : total_bytes'[q] = Used(index'[q])
    BY ZenonT(60), <1>1, <2>1
  <2> QED
    BY SMTT(60), <2>1, <2>2, <2>3, GotoMoves, ExactFrame
<1>5. ASSUME NEW P, NEW json, JsonType(json), json.total_bytes = Used(json.pages),
             Restart(P, json), index_json'.total_bytes = Used(index_json'.pages)
      PROVE  Exact'
  <2>1. load_index(json).total_bytes = Used(load_index(json).pages)
    BY <1>5, LoadType
  <2>2. \A q \in Proc : total_bytes'[q] = Used(index'[q])
    BY <1>1, <1>5, <2>1 DEF Restart
  <2>3. UNCHANGED tmp_json
    BY <1>5 DEF Restart
  <2>4. \A q \in Proc : /\ pc'[q]["sched"] = "idle"
                        /\ \/ pc'[q]["backup"] = "idle"
                           \/ pc'[q] = pc[q] /\ data'[q] = data[q] /\ total_bytes'[q] = total_bytes[q]
    BY ZenonT(60), <1>5 DEF Restart, Exact
  <2> QED
    BY ZenonT(60), <1>5, <2>2, <2>3, <2>4 DEF Exact, AccountingExact
<1>6. ASSUME NEW p \in Proc, Crash(p)
      PROVE  Exact'
  BY SMTT(60), <1>5, <1>6 DEF Crash, TypeOK, JsonOK, Exact, AccountingExact
<1>7. CASE PowerLoss
  BY SMTT(60), <1>0, <1>5, <1>7 DEF PowerLoss
<1>8. ASSUME NEW p \in Proc, FlushBuild(p, "backup")
      PROVE  Exact'
  <2>1. /\ UNCHANGED <<index, total_bytes, index_json, tmp_json>>
        /\ data' = [data EXCEPT ![p]["backup"] = total_bytes[p]]
        /\ Goto(p, "backup", "build")
    BY SMTT(60), <1>8 DEF FlushBuild, mem, disk
  <2>2. \A q \in Proc : pc'[q]["sched"] = "idle"
    BY SMTT(60), <2>1, GotoMoves DEF Exact
  <2>3. ASSUME NEW q \in Proc, pc'[q]["backup"] \in {"build", "open", "dump"}
        PROVE  data'[q]["backup"] = total_bytes'[q]
    <3>1. CASE q = p
      BY SMTT(60), <2>1, <3>1 DEF TypeOK, ControlOK
    <3>2. CASE q # p
      <4>1. pc'[q]["backup"] = pc[q]["backup"]
        BY ZenonT(60), <2>1, <3>2, GotoMoves
      <4>2. data'[q]["backup"] = data[q]["backup"]
        BY SMTT(60), <2>1, <3>2 DEF TypeOK, ControlOK
      <4> QED
        BY SMTT(60), <2>1, <2>3, <4>1, <4>2 DEF Exact
    <3> QED
      BY SMTT(60), <3>1, <3>2
  <2>4. AccountingExact'
    BY <2>1 DEF Exact, AccountingExact
  <2> QED
    BY SMTT(60), <2>2, <2>3, <2>4 DEF Exact
<1>9. ASSUME NEW p \in Proc, FlushOpen(p, "backup") \/ FlushIterate(p, "backup")
      PROVE  Exact'
  <2>1. /\ UNCHANGED <<index, total_bytes, index_json, data>>
        /\ UNCHANGED tmp_json \/ tmp_json' = Truncated
        /\ pc[p]["backup"] \in {"build", "open"}
        /\ Goto(p, "backup", "open") \/ Goto(p, "backup", "dump")
    BY SMTT(60), <1>9 DEF FlushOpen, FlushIterate, mem, disk
  <2>2. \A q \in Proc : /\ pc'[q]["sched"] = "idle"
                        /\ pc'[q]["backup"] = pc[q]["backup"] \/ q = p
    BY SMTT(60), <2>1, GotoMoves DEF Exact
  <2>3. AccountingExact'
    BY <1>0, <2>1 DEF Exact, AccountingExact
  <2> QED
    BY SMTT(60), <2>1, <2>2, <2>3 DEF Exact
<1>10. ASSUME NEW p \in Proc, FlushDump(p, "backup")
       PROVE  Exact'
  <2>1. PICK json \in Dumped(p, "backup") : WriteHandle(p, "backup", json)
    BY ZenonT(60), <1>10 DEF FlushDump
  <2>2. /\ pc[p]["backup"] = "dump" /\ UNCHANGED <<index, total_bytes>>
        /\ Goto(p, "backup", "replace")
    BY ZenonT(60), <1>10 DEF FlushDump, mem
  <2>3. json.total_bytes = Used(json.pages)
    BY <1>0, <1>1, <2>2 DEF Dumped, Json, Exact
  <2>4. AccountingExact'
    BY ZenonT(60), <2>1, <2>2, <2>3 DEF WriteHandle, Exact, AccountingExact
  <2>5. \A q \in Proc : /\ pc'[q]["sched"] = "idle"
                        /\ pc'[q]["backup"] = IF q = p THEN "replace" ELSE pc[q]["backup"]
    BY <2>2, GotoMoves DEF Exact
  <2>6. \A q \in Proc \ {p} : data'[q]["backup"] = data[q]["backup"]
    BY ZenonT(60), <2>1 DEF WriteHandle, TypeOK, ControlOK
  <2> QED
    BY ZenonT(60), <2>2, <2>4, <2>5, <2>6 DEF Exact
<1>11. ASSUME NEW p \in Proc, \/ FlushSkip(p, "backup") \/ FlushDumpRaises(p, "backup")
                              \/ FlushReplace(p, "backup") \/ FlushReplaceRaises(p, "backup")
       PROVE  Exact'
  <2>1. /\ UNCHANGED <<index, total_bytes>>
        /\ FlushReturns(p, "backup") \/ FlushRaises(p, "backup")
        /\ pc[p]["backup"] \in Flushing
    BY ZenonT(60), <1>11 DEF FlushSkip, FlushDumpRaises, FlushReplace, FlushReplaceRaises, Flushing, mem
  <2>2. \/ UNCHANGED <<index_json, tmp_json, data>>
        \/ index_json' = tmp_json /\ tmp_json' = Absent /\ UNCHANGED data
        \/ WriteHandle(p, "backup", Corrupt)
    BY <1>11 DEF FlushSkip, FlushDumpRaises, FlushReplace, FlushReplaceRaises, disk, flushing
  <2>3. AccountingExact'
    BY SMTT(60), <1>0, <2>1, <2>2 DEF WriteHandle, Exact, AccountingExact
  <2>4. ASSUME NEW q \in Proc, pc'[q]["backup"] \in {"build", "open", "dump"}
        PROVE  pc'[q]["backup"] = pc[q]["backup"] /\ q # p
    BY SMTT(60), <2>1, <2>4, FlushExitMoves
  <2>5. \A q \in Proc \ {p} : data'[q]["backup"] = data[q]["backup"]
    BY SMTT(60), <2>2 DEF WriteHandle, TypeOK, ControlOK
  <2>6. \E where : Goto(p, "backup", where)
    BY <2>1 DEF FlushReturns, FlushRaises, ReturnFromSet
  <2>7. \A q \in Proc : pc'[q]["sched"] = "idle"
    BY SMTT(60), <2>6, GotoMoves DEF Exact
  <2> QED
    BY ZenonT(60), <2>1, <2>3, <2>4, <2>5, <2>7 DEF Exact
<1>12. ASSUME NEW p \in Proc, \/ batch_set(p) \/ SaveBegin(p) \/ SaveEnd(p) \/ SaveRaises(p)
                              \/ EnforceBegin(p) \/ GetsizeRaises(p) \/ BatchEnd(p)
                              \/ QueryHit(p) \/ GetLoad(p)
       PROVE  Exact'
  <2>1. UNCHANGED <<index, total_bytes, index_json, tmp_json, data>>
    BY ZenonT(60), <1>12 DEF batch_set, SaveBegin, SaveEnd, SaveRaises, EnforceBegin, GetsizeRaises,
                 BatchEnd, QueryHit, GetLoad, mem, disk, flushing
  <2>2. \/ UNCHANGED pc
        \/ \E where \in {"next", "save", "saved", "evict", "flush"} : Goto(p, "backup", where)
    BY ZenonT(60), <1>12 DEF batch_set, SaveBegin, SaveEnd, SaveRaises, EnforceBegin, GetsizeRaises,
                 BatchEnd, QueryHit, GetLoad, ReturnFromSet
  <2> QED
    BY SMTT(60), <1>1, <2>1, <2>2, GotoMoves, ExactFrame
<1>13. ASSUME NEW p \in Proc
       PROVE  ~clear(p)
  BY ZenonT(60), <1>13 DEF Exact, clear, ClearBegin, ClearEvict, ClearEnd, flush_index, FlushSkip, FlushBuild,
               FlushOpen, FlushIterate, FlushDump, FlushDumpRaises, FlushReplace, FlushReplaceRaises
<1>14. CASE UNCHANGED vars
  BY ZenonT(60), <1>14 DEF vars, mem, disk, flushing, Exact, AccountingExact
<1> QED
  BY ZenonT(60), <1>2, <1>3, <1>4, <1>6, <1>7, <1>8, <1>9, <1>10, <1>11, <1>12, <1>13, <1>14
     DEF Next, BackupStep, get, flush_index

(* As long as nobody calls clear, _total_bytes is the sum of the sizes in    *)
(* the index in every process and in every index file a restart could load,  *)
(* for any number of processes, keys and faults and any budget.             *)
THEOREM AccountingCorrect ==
    ASSUME "clear" \notin Calls
    PROVE  Spec => []AccountingExact
<1>1. Init => Exact
  BY UsedOfEmpty DEF Init, Exact, AccountingExact, load_index, Absent, Json, Empty, Thread
<1>2. Inv /\ Exact /\ [Next]_vars => Exact'
  BY ExactStep
<1>3. Exact => AccountingExact
  BY DEF Exact
<1> QED
  BY <1>1, <1>2, <1>3, Invariance, PTL DEF Spec

=============================================================================
