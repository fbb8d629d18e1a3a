----------------------- MODULE DiskOffloadRefinement -----------------------
(***************************************************************************)
(* DiskOffloadBackend implements PageStore, for any keys, sizes, batches and  *)
(* budget: every step of the backend maps to a step of the page store or to   *)
(* none.                                                                    *)
(***************************************************************************)
EXTENDS DiskOffloadStore, DiskOffloadStoreProofs

Readable == {k \in Key : Whole(k)}

(* The page store sees files and its reader, nothing else.                  *)
LEMMA UnseenStep ==
    ASSUME UNCHANGED <<files, reader>>
    PROVE  UNCHANGED <<Readable, reader[Self]>>
  BY DEF Readable, Whole

LEMMA RemovalLoses ==
    ASSUME NEW k \in Key, files' = Drop(files, k)
    PROVE  Readable' = Readable \ {k}
  BY DEF Readable, Whole, Drop

LEMMA PartialWriteLoses ==
    ASSUME NEW k \in Key, NEW n, NEW t, n # PageBytes[k],
           files' = Put(files, k, [len |-> n, mtime |-> t])
    PROVE  Readable' = Readable \ {k}
  BY DEF Readable, Whole, Put

LEMMA FullWriteGains ==
    ASSUME FilesOK, NEW k \in Key,
           files' = IF k \in DOMAIN files THEN [files EXCEPT ![k].len = PageBytes[k]] ELSE files
    PROVE  Readable' = Readable \/ Readable' = Readable \cup {k}
  BY DEF Readable, Whole, FilesOK

LEMMA StoreSteps ==
    ASSUME NEW k \in Key, UNCHANGED reader,
           \/ Readable' = Readable \ {k} \/ Readable' = Readable \cup {k} \/ Readable' = Readable
    PROVE  [Store!Next]_<<Readable, reader[Self]>>
  BY DEF Store!Next, Store!Gain, Store!Lose, Readable

(* One step of the backend, for a process alone in its directory whose index  *)
(* lists only whole pages.                                                  *)
LEMMA Simulation ==
    ASSUME NEW p, Proc = {p}, "crash" \notin Faults, "powerloss" \notin Faults,
           TypeOK, LockedSections, IndexedPagesWhole, [Next]_vars
    PROVE  [Store!Next]_<<Readable, reader[Self]>>
  <1>1. Self = p /\ p \in Proc
    BY DEF Self
  <1>2. CASE SaveBegin(p)
    <2>1. todo[p] # <<>> /\ todo[p] \in Seq(Key)
      BY <1>1, <1>2 DEF SaveBegin, EnterSet, TypeOK, BatchOK
    <2>2. PICK n \in 0 .. PageBytes[Head(todo[p])] - 1 :
             files' = Put(files, Head(todo[p]), [len |-> n, mtime |-> Now])
      BY <1>2 DEF SaveBegin
    <2>3. Head(todo[p]) \in Key /\ n # PageBytes[Head(todo[p])]
      BY <2>1, ConstantsOK
    <2>4. UNCHANGED reader
      BY <1>2 DEF SaveBegin
    <2>5. QED  BY <2>2, <2>3, <2>4, PartialWriteLoses, StoreSteps
  <1>3. CASE SaveEnd(p)
    <2>1. InSet(p) /\ todo[p] \in Seq(Key)
      BY <1>1, <1>3 DEF SaveEnd, InSet, TypeOK, BatchOK
    <2>2. Head(todo[p]) \in Key
      BY <1>1, <2>1 DEF LockedSections, Locked
    <2>3. FilesOK /\ UNCHANGED reader
      BY <1>3 DEF SaveEnd, TypeOK
    <2>4. QED  BY <1>3, <2>2, <2>3, FullWriteGains, StoreSteps DEF SaveEnd
  <1>4. CASE EvictColdest(p) \/ ClearEvict(p)
    <2>1. PICK k \in DOMAIN index[p] : files' = Drop(files, k)
      BY <1>4 DEF EvictColdest, ClearEvict, evict_one, Candidates
    <2>2. k \in Key
      BY <1>1, <2>1 DEF TypeOK, MemOK, IndexType
    <2>3. UNCHANGED reader
      BY <1>4 DEF EvictColdest, ClearEvict
    <2>4. QED  BY <2>1, <2>2, <2>3, RemovalLoses, StoreSteps
  <1>5. CASE QueryHit(p)
    <2>1. PICK k \in Key : exists(p, k) /\ reader' = [reader EXCEPT ![p] = [pc |-> "hit", key |-> k]]
      BY <1>5 DEF QueryHit
    <2>2. k \in Readable
      BY <1>1, <2>1 DEF exists, IndexedPagesWhole, Readable
    <2>3. reader[p].pc = "idle" /\ reader'[p] = [pc |-> "hit", key |-> k]
      BY <1>1, <1>5, <2>1 DEF QueryHit, TypeOK
    <2>4. Readable' = Readable
      BY <1>5 DEF QueryHit, Readable, Whole, disk
    <2>5. QED  BY <1>1, <2>2, <2>3, <2>4 DEF Store!Next, Store!Report, Readable
  <1>6. CASE GetLoad(p)
    <2>1. Readable' = Readable /\ reader[p].pc = "hit"
      BY <1>6 DEF GetLoad, Readable, Whole, disk
    <2>2. reader[p].key \in Key
      BY <1>1 DEF TypeOK
    <2>3. reader'[p] = [reader[p] EXCEPT !.pc = IF reader[p].key \in Readable THEN "loaded" ELSE "idle"]
      BY <1>1, <1>6, <2>2 DEF GetLoad, TypeOK, Readable
    <2>4. QED  BY <1>1, <2>1, <2>3 DEF Store!Next, Store!Read, Readable
  <1>7. CASE GetTouch(p)
    <2>1. Readable' = Readable
      BY <1>7 DEF GetTouch, Readable, Whole, disk
    <2>2. reader'[p] = [reader[p] EXCEPT !.pc = "idle"]
      BY <1>1, <1>7 DEF GetTouch, TypeOK
    <2>3. QED  BY <1>1, <2>1, <2>2 DEF Store!Next, Store!Leave, Readable
  <1>8. CASE batch_set(p) \/ SetHit(p) \/ SaveRaises(p) \/ EnforceBegin(p) \/ GetsizeRaises(p)
             \/ AddEntry(p) \/ BatchEnd(p) \/ ClearBegin(p) \/ ClearEnd(p)
    <2>1. UNCHANGED <<files, reader>>
      BY <1>8 DEF batch_set, SetHit, SaveRaises, EnforceBegin, GetsizeRaises, AddEntry, BatchEnd,
                  ClearBegin, ClearEnd, disk
    <2>2. QED  BY <2>1, UnseenStep
  <1>9. ASSUME NEW t \in Thread, flush_index(p, t)  PROVE UNCHANGED <<files, reader>>
    BY <1>9 DEF flush_index, FlushSkip, FlushBuild, FlushOpen, FlushIterate, FlushDump,
                FlushDumpRaises, FlushReplace, FlushReplaceRaises, disk
  <1>10. CASE flush_index(p, "backup") \/ flush_index(p, "sched")
    BY <1>9, <1>10, UnseenStep DEF Thread
  <1>11. CASE UNCHANGED vars
    BY <1>11, UnseenStep DEF vars, disk
  <1>12. ~Crash(p) /\ ~PowerLoss
    BY DEF Crash, PowerLoss
  <1>13. QED
    BY <1>2, <1>3, <1>4, <1>5, <1>6, <1>7, <1>8, <1>10, <1>11, <1>12
    DEF Next, BackupStep, clear, get

-----------------------------------------------------------------------------
(* A process alone in its directory that does not crash is a page store,      *)
(* whatever writes fail and however set, clear and get interleave.          *)
THEOREM PageStoreCorrect ==
    ASSUME NEW p, Proc = {p}, "crash" \notin Faults, "powerloss" \notin Faults
    PROVE  Spec => ImplementsPageStore
  <1>1. Init => Store!Init
    BY DEF Init, Store!Init, Whole, Empty, Self
  <1>2. TypeOK /\ LockedSections /\ IndexedPagesWhole /\ [Next]_vars
          => [Store!Next]_<<{k \in Key : Whole(k)}, reader[Self]>>
    BY Simulation DEF Readable
  <1>3. QED
    BY <1>1, <1>2, PagesCorrect, TypeCorrect, LockingCorrect, PTL
    DEF Spec, ImplementsPageStore, Store!Spec
=============================================================================
