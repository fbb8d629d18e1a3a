-------------------------- MODULE DiskOffloadLocks --------------------------
(***************************************************************************)
(* The lock discipline of DiskOffload: what set and clear may rely on while *)
(* they hold the lock, whatever the unlocked callers do.                    *)
(***************************************************************************)
EXTENDS DiskOffloadTypes

(* Nothing of another process, and no reader, disturbs the lock discipline *)
(* of a process.                                                            *)
LEMMA LockedFrame ==
    ASSUME NEW p \in Proc, Locked(p), UNCHANGED <<lock[p], pc[p], call[p], todo[p]>>,
           UNCHANGED <<needed[p], evictable[p]>>, UNCHANGED DOMAIN index[p]
    PROVE  Locked(p)'
BY DEF Locked, InSet

(* A set call that ends leaves a process with no thread in set.             *)
LEMMA LockedReturnFromSet ==
    ASSUME TypeOK, LockedSections, NEW p \in Proc, InSet(p), ReturnFromSet(p), UNCHANGED call
    PROVE  Locked(p)'
BY DEF Thread, TypeOK, ControlOK, LockedSections, Locked, InSet, Flushing, ReturnFromSet, Goto

(* However _flush_index ends, the lock discipline holds.                    *)
LEMMA LockedFlushExit ==
    ASSUME TypeOK, LockedSections, NEW p \in Proc, NEW t \in Thread, pc[p][t] \in Flushing,
           FlushReturns(p, t) \/ FlushRaises(p, t),
           UNCHANGED <<index, call, needed, evictable>>
    PROVE  LockedSections'
<1> USE DEF Thread
<1>1. ASSUME NEW q \in Proc, q # p
      PROVE  Locked(q)'
  <2>1. UNCHANGED <<lock[q], pc[q], todo[q]>>
    BY SMTT(60), <1>1 DEF FlushReturns, FlushRaises, ReturnFromSet, Goto, TypeOK, ControlOK, BatchOK
  <2> QED
    BY SMTT(60), <2>1, LockedFrame DEF LockedSections
<1>2. Locked(p)'
  <2>1. Locked(p)
    BY DEF LockedSections
  <2>2. CASE call[p][t] \in {"hit", "new"} /\ ReturnFromSet(p)
    <3>1. InSet(p)
      BY ZenonT(60), <2>1, <2>2 DEF Locked, InSet, Flushing
    <3> QED
      BY <3>1, <2>2, LockedReturnFromSet
  <2>3. CASE call[p][t] = "hit" /\ lock' = [lock EXCEPT ![p] = "free"] /\ Goto(p, t, "dead") /\ UNCHANGED todo
    BY SMTT(60), <2>1, <2>3 DEF TypeOK, ControlOK, Locked, InSet, Flushing, Goto
  <2>4. CASE call[p][t] = "batch" /\ UNCHANGED <<lock, todo>> /\ (Goto(p, t, "idle") \/ Goto(p, t, "dead"))
    BY SMTT(60), <2>1, <2>4 DEF TypeOK, ControlOK, Locked, InSet, Flushing, Goto
  <2>5. CASE call[p][t] = "clear" /\ lock' = [lock EXCEPT ![p] = "free"] /\ Goto(p, t, "idle") /\ UNCHANGED todo
    BY SMTT(60), <2>1, <2>5 DEF TypeOK, ControlOK, Locked, InSet, Flushing, Goto
  <2> QED
    BY ZenonT(60), <2>2, <2>3, <2>4, <2>5 DEF FlushReturns, FlushRaises
<1> QED
  BY SMTT(60), <1>1, <1>2 DEF LockedSections

(* Every step keeps the lock discipline.                                    *)
LEMMA LockedStep ==
    ASSUME TypeOK, LockedSections, [Next]_vars
    PROVE  LockedSections'
<1> USE ConstantsOK DEF Thread
<1>1. ASSUME NEW p \in Proc, batch_set(p)
      PROVE  LockedSections'
  <2>1. ASSUME NEW q \in Proc, q # p
        PROVE  Locked(q)'
    <3>1. UNCHANGED <<lock[q], pc[q], call[q], todo[q], needed[q], evictable[q], index[q]>>
      BY ZenonT(60), <1>1, <2>1 DEF batch_set, Goto, TypeOK, ControlOK, BatchOK, mem, batch, flushing
    <3> QED
      BY SMTT(60), <3>1, LockedFrame DEF LockedSections
  <2>2. Locked(p)'
    BY SMTT(60), <1>1 DEF batch_set, Goto, TypeOK, ControlOK, BatchOK, LockedSections, Locked, InSet, Flushing, mem, batch, flushing
  <2> QED
    BY <2>1, <2>2 DEF LockedSections
<1>2. ASSUME NEW p \in Proc, SetHit(p)
      PROVE  LockedSections'
  <2>1. ASSUME NEW q \in Proc, q # p
        PROVE  Locked(q)'
    <3>1. UNCHANGED <<lock[q], pc[q], call[q], todo[q], needed[q], evictable[q], index[q]>>
      BY ZenonT(60), <1>2, <2>1 DEF SetHit, EnterSet, touch_access, Put, Goto, TypeOK, ControlOK, MemOK, mem, batch, flushing
    <3> QED
      BY <3>1, LockedFrame DEF LockedSections
  <2>2. Locked(p)'
    BY SMTT(60), <1>2 DEF SetHit, EnterSet, touch_access, Put, Goto, TypeOK, ControlOK, MemOK, LockedSections, Locked, InSet, Flushing, mem, batch, flushing
  <2> QED
    BY <2>1, <2>2 DEF LockedSections
<1>3. ASSUME NEW p \in Proc, SaveBegin(p)
      PROVE  LockedSections'
  <2>1. ASSUME NEW q \in Proc, q # p
        PROVE  Locked(q)'
    <3>1. UNCHANGED <<lock[q], pc[q], call[q], todo[q], needed[q], evictable[q], index[q]>>
      BY ZenonT(60), <1>3, <2>1 DEF SaveBegin, EnterSet, Goto, TypeOK, ControlOK, mem, batch, flushing
    <3> QED
      BY <3>1, LockedFrame DEF LockedSections
  <2>2. Locked(p)'
    BY SMTT(60), <1>3 DEF SaveBegin, EnterSet, Goto, TypeOK, ControlOK, LockedSections, Locked, InSet, Flushing, mem, batch, flushing
  <2> QED
    BY <2>1, <2>2 DEF LockedSections
<1>4. ASSUME NEW p \in Proc, SaveEnd(p)
      PROVE  LockedSections'
  <2>1. ASSUME NEW q \in Proc, q # p
        PROVE  Locked(q)'
    <3>1. UNCHANGED <<lock[q], pc[q], call[q], todo[q], needed[q], evictable[q], index[q]>>
      BY SMTT(60), <1>4, <2>1 DEF SaveEnd, Goto, TypeOK, ControlOK, mem, batch, flushing
    <3> QED
      BY <3>1, LockedFrame DEF LockedSections
  <2>2. Locked(p)'
    BY SMTT(60), <1>4 DEF SaveEnd, Goto, TypeOK, ControlOK, LockedSections, Locked, InSet, Flushing, mem, batch, flushing
  <2> QED
    BY <2>1, <2>2 DEF LockedSections
<1>5. ASSUME NEW p \in Proc, EnforceBegin(p)
      PROVE  LockedSections'
  <2>1. ASSUME NEW q \in Proc, q # p
        PROVE  Locked(q)'
    <3>1. UNCHANGED <<lock[q], pc[q], call[q], todo[q], needed[q], evictable[q], index[q]>>
      BY ZenonT(60), <1>5, <2>1 DEF EnforceBegin, Goto, TypeOK, ControlOK, BatchOK, FilesOK, mem, batch, flushing
    <3> QED
      BY <3>1, LockedFrame DEF LockedSections
  <2>2. Locked(p)'
    BY SMTT(60), <1>5 DEF EnforceBegin, Goto, TypeOK, ControlOK, BatchOK, FilesOK, LockedSections, Locked, InSet, Flushing, mem, batch, flushing
  <2> QED
    BY <2>1, <2>2 DEF LockedSections
<1>6. ASSUME NEW p \in Proc, EvictColdest(p)
      PROVE  LockedSections'
  <2>1. ASSUME NEW q \in Proc, q # p
        PROVE  Locked(q)'
    <3>1. UNCHANGED <<lock[q], pc[q], call[q], todo[q], needed[q], evictable[q], index[q]>>
      BY ZenonT(60), <1>6, <2>1 DEF EvictColdest, evict_one, Drop, TypeOK, ControlOK, MemOK, mem, batch, flushing
    <3> QED
      BY <3>1, LockedFrame DEF LockedSections
  <2>2. Locked(p)'
    BY SMTT(60), <1>6 DEF EvictColdest, evict_one, Drop, TypeOK, ControlOK, MemOK, LockedSections, Locked, InSet, Flushing, mem, batch, flushing
  <2> QED
    BY <2>1, <2>2 DEF LockedSections
<1>7. ASSUME NEW p \in Proc, AddEntry(p)
      PROVE  LockedSections'
  <2>1. ASSUME NEW q \in Proc, q # p
        PROVE  Locked(q)'
    <3>1. UNCHANGED <<lock[q], pc[q], call[q], todo[q], needed[q], evictable[q], index[q]>>
      BY ZenonT(60), <1>7, <2>1 DEF AddEntry, Goto, Put, Empty, TypeOK, ControlOK, MemOK, BatchOK, mem, batch, flushing
    <3> QED
      BY <3>1, LockedFrame DEF LockedSections
  <2>2. Locked(p)'
    BY SMTT(60), <1>7 DEF AddEntry, Goto, Put, Empty, TypeOK, ControlOK, MemOK, BatchOK, LockedSections, Locked, InSet, Flushing, mem, batch, flushing
  <2> QED
    BY <2>1, <2>2 DEF LockedSections
<1>8. ASSUME NEW p \in Proc, BatchEnd(p)
      PROVE  LockedSections'
  <2>1. ASSUME NEW q \in Proc, q # p
        PROVE  Locked(q)'
    <3>1. UNCHANGED <<lock[q], pc[q], call[q], todo[q], needed[q], evictable[q], index[q]>>
      BY SMTT(60), <1>8, <2>1 DEF BatchEnd, Goto, TypeOK, ControlOK, mem, batch, flushing
    <3> QED
      BY <3>1, LockedFrame DEF LockedSections
  <2>2. Locked(p)'
    BY SMTT(60), <1>8 DEF BatchEnd, Goto, TypeOK, ControlOK, LockedSections, Locked, InSet, Flushing, mem, batch, flushing
  <2> QED
    BY <2>1, <2>2 DEF LockedSections
<1>9. ASSUME NEW p \in Proc, ClearBegin(p)
      PROVE  LockedSections'
  <2>1. ASSUME NEW q \in Proc, q # p
        PROVE  Locked(q)'
    <3>1. UNCHANGED <<lock[q], pc[q], call[q], todo[q], needed[q], evictable[q], index[q]>>
      BY ZenonT(60), <1>9, <2>1 DEF ClearBegin, Goto, TypeOK, ControlOK, mem, batch, flushing
    <3> QED
      BY <3>1, LockedFrame DEF LockedSections
  <2>2. Locked(p)'
    BY SMTT(60), <1>9 DEF ClearBegin, Goto, TypeOK, ControlOK, LockedSections, Locked, InSet, Flushing, mem, batch, flushing
  <2> QED
    BY <2>1, <2>2 DEF LockedSections
<1>10. ASSUME NEW p \in Proc, ClearEvict(p)
      PROVE  LockedSections'
  <2>1. ASSUME NEW q \in Proc, q # p
        PROVE  Locked(q)'
    <3>1. UNCHANGED <<lock[q], pc[q], call[q], todo[q], needed[q], evictable[q], index[q]>>
      BY ZenonT(60), <1>10, <2>1 DEF ClearEvict, evict_one, Drop, TypeOK, ControlOK, MemOK, mem, batch, flushing
    <3> QED
      BY <3>1, LockedFrame DEF LockedSections
  <2>2. Locked(p)'
    BY ZenonT(60), <1>10 DEF ClearEvict, evict_one, Drop, TypeOK, ControlOK, MemOK, LockedSections, Locked, InSet, Flushing, mem, batch, flushing
  <2> QED
    BY <2>1, <2>2 DEF LockedSections
<1>11. ASSUME NEW p \in Proc, ClearEnd(p)
      PROVE  LockedSections'
  <2>1. ASSUME NEW q \in Proc, q # p
        PROVE  Locked(q)'
    <3>1. UNCHANGED <<lock[q], pc[q], call[q], todo[q], needed[q], evictable[q], index[q]>>
      BY ZenonT(60), <1>11, <2>1 DEF ClearEnd, Goto, TypeOK, ControlOK, mem, batch, flushing
    <3> QED
      BY <3>1, LockedFrame DEF LockedSections
  <2>2. Locked(p)'
    BY SMTT(60), <1>11 DEF ClearEnd, Goto, TypeOK, ControlOK, LockedSections, Locked, InSet, Flushing, mem, batch, flushing
  <2> QED
    BY <2>1, <2>2 DEF LockedSections
<1>12. ASSUME NEW p \in Proc, QueryHit(p)
      PROVE  LockedSections'
  <2>1. ASSUME NEW q \in Proc, q # p
        PROVE  Locked(q)'
    <3>1. UNCHANGED <<lock[q], pc[q], call[q], todo[q], needed[q], evictable[q], index[q]>>
      BY ZenonT(60), <1>12, <2>1 DEF QueryHit, TypeOK, ControlOK, mem, batch, flushing
    <3> QED
      BY <3>1, LockedFrame DEF LockedSections
  <2>2. Locked(p)'
    BY ZenonT(60), <1>12 DEF QueryHit, TypeOK, ControlOK, LockedSections, Locked, InSet, Flushing, mem, batch, flushing
  <2> QED
    BY <2>1, <2>2 DEF LockedSections
<1>13. ASSUME NEW p \in Proc, GetLoad(p)
      PROVE  LockedSections'
  <2>1. ASSUME NEW q \in Proc, q # p
        PROVE  Locked(q)'
    <3>1. UNCHANGED <<lock[q], pc[q], call[q], todo[q], needed[q], evictable[q], index[q]>>
      BY ZenonT(60), <1>13, <2>1 DEF GetLoad, TypeOK, ControlOK, mem, batch, flushing
    <3> QED
      BY <3>1, LockedFrame DEF LockedSections
  <2>2. Locked(p)'
    BY ZenonT(60), <1>13 DEF GetLoad, TypeOK, ControlOK, LockedSections, Locked, InSet, Flushing, mem, batch, flushing
  <2> QED
    BY <2>1, <2>2 DEF LockedSections
<1>14. ASSUME NEW p \in Proc, GetTouch(p)
      PROVE  LockedSections'
  <2>1. ASSUME NEW q \in Proc, q # p
        PROVE  Locked(q)'
    <3>1. UNCHANGED <<lock[q], pc[q], call[q], todo[q], needed[q], evictable[q], index[q]>>
      BY ZenonT(60), <1>14, <2>1 DEF GetTouch, touch_access, Put, TypeOK, ControlOK, MemOK, mem, batch, flushing
    <3> QED
      BY <3>1, LockedFrame DEF LockedSections
  <2>2. Locked(p)'
    BY SMTT(60), <1>14 DEF GetTouch, touch_access, Put, TypeOK, ControlOK, MemOK, LockedSections, Locked, InSet, Flushing, mem, batch, flushing
  <2> QED
    BY <2>1, <2>2 DEF LockedSections
<1>15. ASSUME NEW p \in Proc, SaveRaises(p)
      PROVE  LockedSections'
  <2>1. ASSUME NEW q \in Proc, q # p
        PROVE  Locked(q)'
    <3>1. UNCHANGED <<lock[q], pc[q], call[q], todo[q], needed[q], evictable[q], index[q]>>
      BY ZenonT(60), <1>15, <2>1 DEF SaveRaises, ReturnFromSet, Goto, TypeOK, ControlOK, BatchOK, mem, batch, flushing
    <3> QED
      BY <3>1, LockedFrame DEF LockedSections
  <2>2. Locked(p)'
    BY ZenonT(60), <1>15, LockedReturnFromSet DEF SaveRaises, InSet, flushing
  <2> QED
    BY <2>1, <2>2 DEF LockedSections
<1>16. ASSUME NEW p \in Proc, GetsizeRaises(p)
      PROVE  LockedSections'
  <2>1. ASSUME NEW q \in Proc, q # p
        PROVE  Locked(q)'
    <3>1. UNCHANGED <<lock[q], pc[q], call[q], todo[q], needed[q], evictable[q], index[q]>>
      BY <1>16, <2>1 DEF GetsizeRaises, ReturnFromSet, Goto, TypeOK, ControlOK, BatchOK, mem, batch, flushing
    <3> QED
      BY <3>1, LockedFrame DEF LockedSections
  <2>2. Locked(p)'
    BY ZenonT(60), <1>16, LockedReturnFromSet DEF GetsizeRaises, InSet, flushing
  <2> QED
    BY <2>1, <2>2 DEF LockedSections
<1>17. ASSUME NEW p \in Proc, Crash(p)
      PROVE  LockedSections'
  BY SMTT(60), <1>17 DEF Crash, Restart, TypeOK, ControlOK, LockedSections, Locked, InSet, Flushing
<1>18. ASSUME NEW p \in Proc, NEW t \in Thread, FlushSkip(p, t)
      PROVE  LockedSections'
  BY <1>18, LockedFlushExit DEF FlushSkip, Flushing, mem, flushing
<1>19. ASSUME NEW p \in Proc, NEW t \in Thread, FlushDumpRaises(p, t)
      PROVE  LockedSections'
  BY <1>19, LockedFlushExit DEF FlushDumpRaises, Flushing, mem, flushing
<1>20. ASSUME NEW p \in Proc, NEW t \in Thread, FlushReplace(p, t)
      PROVE  LockedSections'
  BY <1>20, LockedFlushExit DEF FlushReplace, Flushing, mem, flushing
<1>21. ASSUME NEW p \in Proc, NEW t \in Thread, FlushReplaceRaises(p, t)
      PROVE  LockedSections'
  BY <1>21, LockedFlushExit DEF FlushReplaceRaises, Flushing, mem, flushing
<1>22. ASSUME NEW p \in Proc, NEW t \in Thread, FlushOpen(p, t)
      PROVE  LockedSections'
  <2>1. ASSUME NEW q \in Proc, q # p
        PROVE  Locked(q)'
    <3>1. UNCHANGED <<lock[q], pc[q], call[q], todo[q], needed[q], evictable[q], index[q]>>
      BY ZenonT(60), <1>22, <2>1 DEF FlushOpen, Goto, TypeOK, ControlOK, mem, batch, flushing
    <3> QED
      BY <3>1, LockedFrame DEF LockedSections
  <2>2. Locked(p)'
    BY SMTT(60), <1>22 DEF FlushOpen, Goto, TypeOK, ControlOK, LockedSections, Locked, InSet, Flushing, mem, batch, flushing
  <2> QED
    BY SMTT(60), <2>1, <2>2 DEF LockedSections
<1>22a. ASSUME NEW p \in Proc, NEW t \in Thread, FlushBuild(p, t)
      PROVE  LockedSections'
  <2>1. ASSUME NEW q \in Proc, q # p
        PROVE  Locked(q)'
    <3>1. UNCHANGED <<lock[q], pc[q], call[q], todo[q], needed[q], evictable[q], index[q]>>
      BY ZenonT(60), <1>22a, <2>1 DEF FlushBuild, Goto, TypeOK, ControlOK, mem, batch, flushing
    <3> QED
      BY <3>1, LockedFrame DEF LockedSections
  <2>2. Locked(p)'
    BY SMTT(60), <1>22a DEF FlushBuild, Goto, TypeOK, ControlOK, LockedSections, Locked, InSet, Flushing, mem, batch, flushing
  <2> QED
    BY <2>1, <2>2 DEF LockedSections
<1>22b. ASSUME NEW p \in Proc, NEW t \in Thread, FlushIterate(p, t)
      PROVE  LockedSections'
  <2>1. ASSUME NEW q \in Proc, q # p
        PROVE  Locked(q)'
    <3>1. UNCHANGED <<lock[q], pc[q], call[q], todo[q], needed[q], evictable[q], index[q]>>
      BY ZenonT(60), <1>22b, <2>1 DEF FlushIterate, Goto, TypeOK, ControlOK, mem, batch, flushing
    <3> QED
      BY <3>1, LockedFrame DEF LockedSections
  <2>2. Locked(p)'
    BY SMTT(60), <1>22b DEF FlushIterate, Goto, TypeOK, ControlOK, LockedSections, Locked, InSet, Flushing, mem, batch, flushing
  <2> QED
    BY <2>1, <2>2 DEF LockedSections
<1>23. ASSUME NEW p \in Proc, NEW t \in Thread, FlushDump(p, t)
      PROVE  LockedSections'
  <2>1. ASSUME NEW q \in Proc, q # p
        PROVE  Locked(q)'
    <3>1. UNCHANGED <<lock[q], pc[q], call[q], todo[q], needed[q], evictable[q], index[q]>>
      BY ZenonT(60), <1>23, <2>1 DEF FlushDump, Goto, TypeOK, ControlOK, mem, batch, flushing
    <3> QED
      BY <3>1, LockedFrame DEF LockedSections
  <2>2. Locked(p)'
    <3>1. /\ pc[p][t] = "dump" /\ Goto(p, t, "replace")
          /\ UNCHANGED <<lock, call, index, todo, needed, evictable>>
      BY ZenonT(60), <1>23 DEF FlushDump, mem, batch
    <3> QED
      BY SMTT(60), <3>1 DEF Goto, TypeOK, ControlOK, LockedSections, Locked, InSet, Flushing
  <2> QED
    BY <2>1, <2>2 DEF LockedSections
<1>24. CASE PowerLoss
  BY ZenonT(60), <1>24 DEF PowerLoss, Restart, TypeOK, ControlOK, LockedSections, Locked, InSet, Flushing
<1>25. CASE UNCHANGED vars
  BY <1>25 DEF vars, mem, flushing, batch, LockedSections, Locked, InSet
<1> QED
  BY ZenonT(60), <1>1, <1>2, <1>3, <1>4, <1>5, <1>6, <1>7, <1>8, <1>9, <1>10, <1>11, <1>12, <1>13, <1>14, <1>15, <1>16, <1>17, <1>18, <1>19, <1>20, <1>21, <1>22, <1>22a, <1>22b, <1>23, <1>24, <1>25
     DEF Next, BackupStep, clear, get, flush_index

=============================================================================
