-------------------------- MODULE DiskOffloadTypes --------------------------
(***************************************************************************)
(* The bytes an index stands for, and the types of DiskOffload: every step  *)
(* keeps them as long as the locks are respected and no byte is             *)
(* undercounted.                                                            *)
(***************************************************************************)
EXTENDS DiskOffload, FiniteSetTheorems, SequenceTheorems, TLAPS

-----------------------------------------------------------------------------
(* The bytes of an index *)

(* The pages of an index occupy finitely many bytes.                        *)
LEMMA BytesFinite ==
    ASSUME NEW idx, IndexType(idx)
    PROVE  /\ IsFiniteSet(Bytes(idx))
           /\ Used(idx) \in Nat
<1> DEFINE page == [k \in DOMAIN idx |-> {k} \X (1 .. idx[k].size)]
           pages == {{k} \X (1 .. idx[k].size) : k \in DOMAIN idx}
<1>1. IsFiniteSet(DOMAIN idx)
  BY ConstantsOK, FS_Subset DEF IndexType
<1>2. page \in Surjection(DOMAIN idx, pages)
  BY ZenonT(60) DEF Surjection
<1>3. IsFiniteSet(pages)
  BY <1>1, <1>2, FS_Surjection
<1>4. \A T \in pages : IsFiniteSet(T)
  <2> TAKE T \in pages
  <2>1. PICK k \in DOMAIN idx : T = {k} \X (1 .. idx[k].size)
    OBVIOUS
  <2>2. idx[k].size \in Int
    BY DEF IndexType
  <2>3. IsFiniteSet(1 .. idx[k].size)
    BY <2>2, FS_Interval
  <2>4. IsFiniteSet({k})
    BY ZenonT(60), FS_Singleton
  <2>5. IsFiniteSet({k} \X (1 .. idx[k].size))
    BY ZenonT(60), <2>3, <2>4, FS_Product
  <2> QED
    BY <2>1, <2>5
<1> HIDE DEF pages
<1>5. IsFiniteSet(UNION pages)
  BY <1>3, <1>4, FS_UNION
<1> QED
  BY <1>5, FS_CardinalityType DEF Bytes, Used, pages

(* An index without pages occupies no byte.                                 *)
LEMMA UsedOfEmpty ==
    ASSUME NEW idx, DOMAIN idx = {}
    PROVE  Used(idx) = 0
<1>1. Bytes(idx) = {}
  BY DEF Bytes
<1> QED
  BY <1>1, FS_EmptySet DEF Used

(* A page occupies as many bytes as its size says.                          *)
LEMMA PageCardinality ==
    ASSUME NEW k, NEW n \in Nat
    PROVE  /\ IsFiniteSet({k} \X (1 .. n))
           /\ Cardinality({k} \X (1 .. n)) = n
<1>1. IsFiniteSet({k}) /\ Cardinality({k}) = 1
  BY FS_Singleton
<1>2. IsFiniteSet(1 .. n) /\ Cardinality(1 .. n) = n
  BY FS_Interval
<1>3. /\ IsFiniteSet({k} \X (1 .. n))
      /\ Cardinality({k} \X (1 .. n)) = Cardinality({k}) * Cardinality(1 .. n)
  BY ZenonT(60), <1>1, <1>2, FS_Product
<1> QED
  BY <1>1, <1>2, <1>3

(* Entering a new page adds its size (set, line 260).                       *)
LEMMA UsedOfPut ==
    ASSUME NEW idx, IndexType(idx), NEW k \in Key, k \notin DOMAIN idx,
           NEW e \in [size : Nat, last_access : Nat]
    PROVE  Used(Put(idx, k, e)) = Used(idx) + e.size
<1> DEFINE new == {k} \X (1 .. e.size)
<1>1. Bytes(Put(idx, k, e)) = Bytes(idx) \cup new
  BY ZenonT(60) DEF Bytes, Put
<1>2. Bytes(idx) \cap new = {}
  BY DEF Bytes
<1>3. IsFiniteSet(Bytes(idx)) /\ Cardinality(Bytes(idx)) \in Nat
  BY BytesFinite DEF Used
<1>4. IsFiniteSet(new) /\ Cardinality(new) = e.size
  BY ZenonT(60), PageCardinality
<1> HIDE DEF new
<1>5. Cardinality(Bytes(idx) \cup new) = Cardinality(Bytes(idx)) + e.size - 0
  BY <1>2, <1>3, <1>4, FS_Union, FS_EmptySet
<1> QED
  BY <1>1, <1>3, <1>5 DEF Used

(* Dropping a page subtracts its size (_evict_one).                         *)
LEMMA UsedOfDrop ==
    ASSUME NEW idx, IndexType(idx), NEW k \in DOMAIN idx
    PROVE  Used(Drop(idx, k)) = Used(idx) - idx[k].size
<1> DEFINE rest == Drop(idx, k)
<1>1. IndexType(rest) /\ k \notin DOMAIN rest /\ k \in Key
  BY DEF IndexType, Drop
<1>2. Bytes(Put(rest, k, idx[k])) = Bytes(idx)
  BY ZenonT(60) DEF Bytes, Put, Drop
<1>3. Used(Put(rest, k, idx[k])) = Used(rest) + idx[k].size
  BY <1>1, UsedOfPut DEF IndexType
<1>4. Used(rest) \in Nat /\ idx[k].size \in Nat
  BY <1>1, BytesFinite DEF IndexType
<1> QED
  BY <1>2, <1>3, <1>4 DEF Used

(* Touching a page changes no size (_touch_access).                         *)
LEMMA UsedOfTouch ==
    ASSUME NEW idx, NEW k \in DOMAIN idx, NEW t
    PROVE  Used(Put(idx, k, [size |-> idx[k].size, last_access |-> t])) = Used(idx)
<1>1. Bytes(Put(idx, k, [size |-> idx[k].size, last_access |-> t])) = Bytes(idx)
  BY ZenonT(60) DEF Bytes, Put
<1> QED
  BY <1>1 DEF Used

-----------------------------------------------------------------------------
(* The steps preserve the types *)

(* The clock stays a natural number.                                        *)
LEMMA NowIsNat ==
    ASSUME clock \in Nat
    PROVE  Now \in Nat
BY ConstantsOK DEF Now

(* Entering or touching a page (set, _touch_access) keeps an index typed.   *)
LEMMA PutType ==
    ASSUME NEW idx, IndexType(idx), NEW k \in Key, NEW e \in [size : Nat, last_access : Nat]
    PROVE  IndexType(Put(idx, k, e))
BY DEF IndexType, Put

(* Evicting a page (_evict_one) keeps an index typed.                       *)
LEMMA DropType ==
    ASSUME NEW idx, IndexType(idx), NEW k
    PROVE  IndexType(Drop(idx, k))
BY DEF IndexType, Drop

(* _rebuild_index builds a typed index from any directory.                  *)
LEMMA RebuildType ==
    ASSUME TypeOK
    PROVE  IndexType(rebuild_index)
BY ConstantsOK DEF TypeOK, FilesOK, IndexType, rebuild_index

(* _load_index yields a typed index whose byte count is as good as the one   *)
(* in the file.                                                             *)
LEMMA LoadType ==
    ASSUME TypeOK, NEW json, JsonType(json)
    PROVE  /\ IndexType(load_index(json).pages)
           /\ load_index(json).total_bytes \in Nat
           /\ json.total_bytes = Used(json.pages) =>
                 load_index(json).total_bytes = Used(load_index(json).pages)
           /\ json.total_bytes >= Used(json.pages) =>
                 load_index(json).total_bytes >= Used(load_index(json).pages)
<1>1. IndexType(Empty) /\ Used(Empty) = 0
  BY UsedOfEmpty DEF IndexType, Empty
<1>2. Used(rebuild_index) \in Nat
  BY RebuildType, BytesFinite
<1> QED
  BY <1>1, <1>2, RebuildType DEF load_index, Json, JsonType

(* A variable that does not change keeps its type.                          *)
LEMMA Frame ==
    ASSUME TypeOK
    PROVE  /\ UNCHANGED files => FilesOK'
           /\ UNCHANGED <<index_json, tmp_json>> => JsonOK'
           /\ UNCHANGED mem => MemOK'
           /\ UNCHANGED <<lock, pc, flushing>> => ControlOK'
           /\ UNCHANGED batch => BatchOK'
<1>1. UNCHANGED files => FilesOK'
  BY DEF TypeOK, FilesOK
<1>2. UNCHANGED <<index_json, tmp_json>> => JsonOK'
  BY DEF TypeOK, JsonOK
<1>3. UNCHANGED mem => MemOK'
  BY DEF TypeOK, MemOK, mem
<1>4. UNCHANGED <<lock, pc, flushing>> => ControlOK'
  BY DEF TypeOK, ControlOK, flushing
<1>5. UNCHANGED batch => BatchOK'
  BY DEF TypeOK, BatchOK, batch
<1> QED
  BY ZenonT(60), <1>1, <1>2, <1>3, <1>4, <1>5

(* What _flush_index leaves behind, returning or raising, is typed.         *)
LEMMA FlushExitType ==
    ASSUME TypeOK, LockedSections, NEW p \in Proc, NEW t \in Thread,
           pc[p][t] \in Flushing, FlushReturns(p, t) \/ FlushRaises(p, t)
    PROVE  /\ lock' \in [Proc -> {"free", "backup", "sched"}]
           /\ pc' \in [Proc -> [Thread -> {"idle", "next", "save", "saved", "evict", "clear",
                                           "flush", "build", "open", "dump", "replace", "dead"}]]
           /\ todo' \in [Proc -> Seq(Key)]
<1> USE DEF Thread, TypeOK, ControlOK, BatchOK
<1>1. CASE ReturnFromSet(p) /\ call[p][t] \in {"hit", "new"}
  <2>1. todo[p] # <<>>
    BY <1>1 DEF LockedSections, Locked, InSet, Flushing
  <2>2. Tail(todo[p]) \in Seq(Key)
    BY <2>1, HeadTailProperties
  <2> QED
    BY ZenonT(60), <1>1, <2>2 DEF ReturnFromSet, Goto
<1>2. ASSUME NEW where \in {"idle", "dead"}, Goto(p, t, where), UNCHANGED todo,
             lock' = [lock EXCEPT ![p] = "free"] \/ UNCHANGED lock
      PROVE  /\ lock' \in [Proc -> {"free", "backup", "sched"}]
             /\ pc' \in [Proc -> [Thread -> {"idle", "next", "save", "saved", "evict", "clear",
                                             "flush", "build", "open", "dump", "replace", "dead"}]]
             /\ todo' \in [Proc -> Seq(Key)]
  <2>1. lock' \in [Proc -> {"free", "backup", "sched"}]
    BY ZenonT(60), <1>2
  <2> QED
    BY ZenonT(60), <1>2, <2>1 DEF Goto
<1> QED
  BY SMTT(60), <1>1, <1>2 DEF FlushReturns, FlushRaises

(* What the handle of the index file leaves behind is typed.                *)
LEMMA WriteHandleType ==
    ASSUME TypeOK, NEW p \in Proc, NEW t \in Thread, NEW json, JsonType(json),
           WriteHandle(p, t, json)
    PROVE  /\ JsonOK'
           /\ fd' \in [Proc -> [Thread -> {"none", "tmp", "index"}]]
           /\ data' \in [Proc -> [Thread -> Nat]]
           /\ dumping' \in [Proc -> [Thread -> SUBSET Key]]
<1>1. JsonOK'
  BY DEF WriteHandle, TypeOK, JsonOK
<1> QED
  BY <1>1 DEF WriteHandle, TypeOK, ControlOK, Thread

(* Every step keeps the types; the lock discipline is used for Tail of the  *)
(* batch and the accounting for the counter being a natural number.         *)
LEMMA TypeStep ==
    ASSUME TypeOK, NeverUndercounts, LockedSections, [Next]_vars
    PROVE  TypeOK'
<1> USE ConstantsOK DEF Thread
<1>1. ASSUME NEW p \in Proc, batch_set(p)
      PROVE  TypeOK'
  <2>1. ControlOK'
    BY <1>1 DEF batch_set, Goto, TypeOK, ControlOK, disk, mem, flushing, batch
  <2>2. BatchOK'
    BY <1>1 DEF batch_set, TypeOK, BatchOK, disk, mem, flushing, batch
  <2> QED
    BY SMTT(60), <1>1, <2>1, <2>2, Frame, NowIsNat DEF batch_set, TypeOK, disk, mem, flushing, batch
<1>2. ASSUME NEW p \in Proc, SetHit(p)
      PROVE  TypeOK'
  <2>1. ControlOK'
    BY SMTT(60), <1>2 DEF SetHit, EnterSet, Goto, TypeOK, ControlOK, disk, mem, flushing, batch
  <2>2. MemOK'
    <3>1. CASE Head(todo[p]) \notin DOMAIN index[p]
      BY <1>2, <3>1 DEF SetHit, EnterSet, touch_access, TypeOK, MemOK
    <3>2. CASE Head(todo[p]) \in DOMAIN index[p]
      <4> DEFINE k == Head(todo[p])
                 e == [size |-> index[p][k].size, last_access |-> Now]
      <4>1. k \in Key /\ IndexType(index[p]) /\ e \in [size : Nat, last_access : Nat]
        BY ZenonT(60), <3>2, NowIsNat DEF TypeOK, MemOK, IndexType
      <4>2. IndexType(Put(index[p], k, e))
        BY <4>1, PutType
      <4>3. index' = [index EXCEPT ![p] = Put(index[p], k, e)] /\ dirty' = [dirty EXCEPT ![p] = TRUE]
        BY <1>2, <3>2 DEF SetHit, EnterSet, touch_access
      <4> QED
        BY ZenonT(60), <1>2, <4>2, <4>3 DEF SetHit, TypeOK, MemOK
    <3> QED
      BY <3>1, <3>2
  <2> QED
    BY SMTT(60), <1>2, <2>1, <2>2, Frame, NowIsNat DEF SetHit, EnterSet, touch_access, Goto, TypeOK, disk, mem, flushing, batch
<1>3. ASSUME NEW p \in Proc, SaveBegin(p)
      PROVE  TypeOK'
  <2>1. ControlOK'
    BY ZenonT(60), <1>3 DEF SaveBegin, EnterSet, Goto, TypeOK, ControlOK, disk, mem, flushing, batch
  <2>2. FilesOK'
    BY SMTT(60), <1>3, NowIsNat, HeadTailProperties DEF SaveBegin, EnterSet, Put, BatchOK, TypeOK, FilesOK, disk, mem, flushing, batch
  <2> QED
    BY ZenonT(60), <1>3, <2>1, <2>2, Frame, NowIsNat DEF SaveBegin, EnterSet, Goto, TypeOK, disk, mem, flushing, batch
<1>4. ASSUME NEW p \in Proc, SaveEnd(p)
      PROVE  TypeOK'
  <2>1. ControlOK'
    BY ZenonT(60), <1>4 DEF SaveEnd, Goto, TypeOK, ControlOK, disk, mem, flushing, batch
  <2>2. FilesOK'
    <3>1. CASE Head(todo[p]) \notin DOMAIN files
      BY <1>4, <3>1 DEF SaveEnd, TypeOK, FilesOK
    <3>2. CASE Head(todo[p]) \in DOMAIN files
      <4> DEFINE k == Head(todo[p])
      <4>1. files' = [files EXCEPT ![k] = [files[k] EXCEPT !.len = PageBytes[k]]]
        BY SMTT(60), <1>4, <3>2 DEF SaveEnd
      <4>2. files[k] \in [len : 0 .. PageBytes[k], mtime : Nat] /\ PageBytes[k] \in Nat
        BY <3>2 DEF TypeOK, FilesOK
      <4>3. [files[k] EXCEPT !.len = PageBytes[k]] \in [len : 0 .. PageBytes[k], mtime : Nat]
        BY SMTT(60), <4>2
      <4> QED
        BY ZenonT(60), <4>1, <4>3, <3>2 DEF TypeOK, FilesOK
    <3> QED
      BY <3>1, <3>2
  <2> QED
    BY ZenonT(60), <1>4, <2>1, <2>2, Frame, NowIsNat DEF SaveEnd, Goto, TypeOK, disk, mem, flushing, batch
<1>5. ASSUME NEW p \in Proc, SaveRaises(p)
      PROVE  TypeOK'
  <2>1. ControlOK'
    BY ZenonT(60), <1>5 DEF SaveRaises, ReturnFromSet, Goto, TypeOK, ControlOK, disk, mem, flushing, batch
  <2>2. BatchOK'
    BY <1>5, HeadTailProperties DEF SaveRaises, ReturnFromSet, LockedSections, Locked, InSet, TypeOK, BatchOK, disk, mem, flushing, batch
  <2> QED
    BY SMTT(60), <1>5, <2>1, <2>2, Frame, NowIsNat DEF SaveRaises, ReturnFromSet, Goto, TypeOK, disk, mem, flushing, batch
<1>6. ASSUME NEW p \in Proc, EnforceBegin(p)
      PROVE  TypeOK'
  <2>1. ControlOK'
    BY ZenonT(60), <1>6 DEF EnforceBegin, Goto, TypeOK, ControlOK, disk, mem, flushing, batch
  <2>2. BatchOK'
    BY SMTT(60), <1>6 DEF EnforceBegin, FilesOK, MemOK, IndexType, TypeOK, BatchOK, disk, mem, flushing, batch
  <2> QED
    BY ZenonT(60), <1>6, <2>1, <2>2, Frame, NowIsNat DEF EnforceBegin, Goto, TypeOK, disk, mem, flushing, batch
<1>7. ASSUME NEW p \in Proc, GetsizeRaises(p)
      PROVE  TypeOK'
  <2>1. ControlOK'
    BY ZenonT(60), <1>7 DEF GetsizeRaises, ReturnFromSet, Goto, TypeOK, ControlOK, disk, mem, flushing, batch
  <2>2. BatchOK'
    BY ZenonT(60), <1>7, HeadTailProperties DEF GetsizeRaises, ReturnFromSet, LockedSections, Locked, InSet, TypeOK, BatchOK, disk, mem, flushing, batch
  <2> QED
    BY <1>7, <2>1, <2>2, Frame, NowIsNat DEF GetsizeRaises, ReturnFromSet, Goto, TypeOK, disk, mem, flushing, batch
<1>8. ASSUME NEW p \in Proc, EvictColdest(p)
      PROVE  TypeOK'
  <2>1. FilesOK'
    BY <1>8 DEF EvictColdest, evict_one, Drop, TypeOK, FilesOK, disk, mem, flushing, batch
  <2>2. MemOK'
    <3>1. PICK k \in DOMAIN index[p] : evict_one(p, k)
      BY <1>8 DEF EvictColdest, Candidates
    <3>2. index[p][k].size \in Nat /\ IndexType(index[p])
      BY DEF TypeOK, MemOK, IndexType
    <3>3. IndexType(Drop(index[p], k)) /\ Used(Drop(index[p], k)) \in Nat
      BY ZenonT(60), <3>2, DropType, BytesFinite
    <3>4. /\ total_bytes[p] \in Nat /\ Used(index[p]) \in Nat
          /\ total_bytes[p] >= Used(index[p])
      BY ZenonT(60), <3>2, BytesFinite DEF NeverUndercounts, TypeOK, MemOK
    <3>5. total_bytes[p] - index[p][k].size \in Nat
      BY <3>2, <3>3, <3>4, UsedOfDrop
    <3> QED
      BY ZenonT(60), <3>1, <3>3, <3>5 DEF evict_one, TypeOK, MemOK
  <2> QED
    BY ZenonT(60), <1>8, <2>1, <2>2, Frame, NowIsNat DEF EvictColdest, evict_one, TypeOK, disk, mem, flushing, batch
<1>9. ASSUME NEW p \in Proc, AddEntry(p)
      PROVE  TypeOK'
  <2>1. ControlOK'
    BY <1>9 DEF AddEntry, Goto, TypeOK, ControlOK, disk, mem, flushing, batch
  <2>2. BatchOK'
    BY <1>9 DEF AddEntry, Empty, TypeOK, BatchOK, disk, mem, flushing, batch
  <2>3. MemOK'
    <3> DEFINE k == Head(todo[p])
               e == [size |-> needed[p], last_access |-> Now]
    <3>1. todo[p] # <<>>
      BY <1>9 DEF AddEntry, LockedSections, Locked, InSet
    <3>2. k \in Key
      BY ZenonT(60), <3>1, HeadTailProperties DEF TypeOK, BatchOK
    <3>3. e \in [size : Nat, last_access : Nat] /\ IndexType(index[p])
      BY NowIsNat DEF TypeOK, MemOK, BatchOK
    <3>4. IndexType(Put(index[p], k, e))
      BY SMTT(60), <3>2, <3>3, PutType
    <3>5. index' = [index EXCEPT ![p] = Put(index[p], k, e)]
      BY <1>9 DEF AddEntry
    <3> QED
      BY SMTT(60), <1>9, <3>4, <3>5 DEF AddEntry, TypeOK, MemOK, BatchOK
  <2> QED
    BY ZenonT(60), <1>9, <2>1, <2>2, <2>3, Frame, NowIsNat DEF AddEntry, Goto, TypeOK, disk, mem, flushing, batch
<1>10. ASSUME NEW p \in Proc, BatchEnd(p)
      PROVE  TypeOK'
  <2>1. ControlOK'
    BY <1>10 DEF BatchEnd, Goto, TypeOK, ControlOK, disk, mem, flushing, batch
  <2> QED
    BY ZenonT(60), <1>10, <2>1, Frame, NowIsNat DEF BatchEnd, Goto, TypeOK, disk, mem, flushing, batch
<1>11. ASSUME NEW p \in Proc, ClearBegin(p)
      PROVE  TypeOK'
  <2>1. ControlOK'
    BY ZenonT(60), <1>11 DEF ClearBegin, Goto, TypeOK, ControlOK, disk, mem, flushing, batch
  <2> QED
    BY ZenonT(60), <1>11, <2>1, Frame, NowIsNat DEF ClearBegin, Goto, TypeOK, disk, mem, flushing, batch
<1>12. ASSUME NEW p \in Proc, ClearEvict(p)
      PROVE  TypeOK'
  <2>1. FilesOK'
    BY ZenonT(60), <1>12 DEF ClearEvict, evict_one, Drop, TypeOK, FilesOK, disk, mem, flushing, batch
  <2>2. MemOK'
    <3>1. PICK k \in DOMAIN index[p] : evict_one(p, k)
      BY ZenonT(60), <1>12 DEF ClearEvict, Candidates
    <3>2. index[p][k].size \in Nat /\ IndexType(index[p])
      BY DEF TypeOK, MemOK, IndexType
    <3>3. IndexType(Drop(index[p], k)) /\ Used(Drop(index[p], k)) \in Nat
      BY <3>2, DropType, BytesFinite
    <3>4. /\ total_bytes[p] \in Nat /\ Used(index[p]) \in Nat
          /\ total_bytes[p] >= Used(index[p])
      BY <3>2, BytesFinite DEF NeverUndercounts, TypeOK, MemOK
    <3>5. total_bytes[p] - index[p][k].size \in Nat
      BY <3>2, <3>3, <3>4, UsedOfDrop
    <3> QED
      BY <3>1, <3>3, <3>5 DEF evict_one, TypeOK, MemOK
  <2> QED
    BY ZenonT(60), <1>12, <2>1, <2>2, Frame, NowIsNat DEF ClearEvict, evict_one, TypeOK, disk, mem, flushing, batch
<1>13. ASSUME NEW p \in Proc, ClearEnd(p)
      PROVE  TypeOK'
  <2>1. ControlOK'
    BY ZenonT(60), <1>13 DEF ClearEnd, Goto, TypeOK, ControlOK, disk, mem, flushing, batch
  <2> QED
    BY ZenonT(60), <1>13, <2>1, Frame, NowIsNat DEF ClearEnd, Goto, TypeOK, disk, mem, flushing, batch
<1>14. ASSUME NEW p \in Proc, QueryHit(p)
      PROVE  TypeOK'
  <2> QED
    BY <1>14, Frame, NowIsNat DEF QueryHit, exists, TypeOK, disk, mem, flushing, batch
<1>15. ASSUME NEW p \in Proc, GetLoad(p)
      PROVE  TypeOK'
  <2> QED
    BY <1>15, Frame, NowIsNat DEF GetLoad, TypeOK, disk, mem, flushing, batch
<1>16. ASSUME NEW p \in Proc, GetTouch(p)
      PROVE  TypeOK'
  <2>1. MemOK'
    <3>1. CASE reader[p].key \notin DOMAIN index[p]
      BY <1>16, <3>1 DEF GetTouch, touch_access, TypeOK, MemOK
    <3>2. CASE reader[p].key \in DOMAIN index[p]
      <4> DEFINE k == reader[p].key
                 e == [size |-> index[p][k].size, last_access |-> Now]
      <4>1. k \in Key /\ IndexType(index[p]) /\ e \in [size : Nat, last_access : Nat]
        BY ZenonT(60), <3>2, NowIsNat DEF TypeOK, MemOK, IndexType
      <4>2. IndexType(Put(index[p], k, e))
        BY <4>1, PutType
      <4>3. index' = [index EXCEPT ![p] = Put(index[p], k, e)] /\ dirty' = [dirty EXCEPT ![p] = TRUE]
        BY <1>16, <3>2 DEF GetTouch, touch_access
      <4> QED
        BY ZenonT(60), <1>16, <4>2, <4>3 DEF GetTouch, TypeOK, MemOK
    <3> QED
      BY <3>1, <3>2
  <2> QED
    BY <1>16, <2>1, Frame, NowIsNat DEF GetTouch, touch_access, TypeOK, disk, mem, flushing, batch
<1>17. ASSUME NEW p \in Proc, Crash(p)
      PROVE  TypeOK'
  <2>1. ControlOK'
    BY <1>17 DEF Crash, Restart, TypeOK, ControlOK, disk, mem, flushing, batch
  <2>2. BatchOK'
    BY <1>17 DEF Crash, Restart, Empty, TypeOK, BatchOK, disk, mem, flushing, batch
  <2>3. MemOK'
    BY <1>17, LoadType DEF Crash, Restart, JsonOK, TypeOK, MemOK, disk, mem, flushing, batch
  <2>4. reader' \in [Proc -> [pc : {"idle", "hit", "loaded"}, key : Key]]
    BY ZenonT(60), <1>17 DEF Crash, Restart, TypeOK
  <2> QED
    BY SMTT(60), <1>17, <2>1, <2>2, <2>3, <2>4, Frame, NowIsNat DEF Crash, Restart, TypeOK, disk, mem, flushing, batch
<1>18. ASSUME NEW p \in Proc, NEW t \in Thread, FlushSkip(p, t)
      PROVE  TypeOK'
  <2>1. ControlOK'
    BY SMTT(60), <1>18, FlushExitType DEF FlushSkip, Flushing, TypeOK, ControlOK, disk, mem, flushing, batch
  <2>2. BatchOK'
    BY SMTT(60), <1>18, FlushExitType DEF FlushSkip, Flushing, TypeOK, BatchOK, disk, mem, flushing, batch
  <2> QED
    BY ZenonT(60), <1>18, <2>1, <2>2, Frame, NowIsNat DEF FlushSkip, FlushReturns, ReturnFromSet, Goto, TypeOK, disk, mem, flushing, batch
<1>19. ASSUME NEW p \in Proc, NEW t \in Thread, FlushOpen(p, t)
      PROVE  TypeOK'
  <2>1. ControlOK'
    BY ZenonT(60), <1>19 DEF FlushOpen, Goto, TypeOK, ControlOK
  <2>2. JsonOK'
    BY <1>19 DEF FlushOpen, JsonType, IndexType, Truncated, Empty, TypeOK, JsonOK
  <2> QED
    BY ZenonT(60), <1>19, <2>1, <2>2, Frame DEF FlushOpen, TypeOK
<1>19a. ASSUME NEW p \in Proc, NEW t \in Thread, FlushBuild(p, t)
      PROVE  TypeOK'
  <2>1. ControlOK'
    BY SMTT(60), <1>19a DEF FlushBuild, Goto, TypeOK, ControlOK, MemOK
  <2> QED
    BY ZenonT(60), <1>19a, <2>1, Frame DEF FlushBuild, TypeOK, disk
<1>19b. ASSUME NEW p \in Proc, NEW t \in Thread, FlushIterate(p, t)
      PROVE  TypeOK'
  <2>1. ControlOK'
    BY ZenonT(60), <1>19b DEF FlushIterate, Goto, TypeOK, ControlOK, MemOK, IndexType
  <2> QED
    BY ZenonT(60), <1>19b, <2>1, Frame DEF FlushIterate, TypeOK, disk
<1>20. ASSUME NEW p \in Proc, NEW t \in Thread, FlushDump(p, t)
      PROVE  TypeOK'
  <2>1. PICK json \in Dumped(p, t) : WriteHandle(p, t, json)
    BY ZenonT(60), <1>20 DEF FlushDump
  <2>2. JsonType(json)
    BY DEF Dumped, JsonType, IndexType, Json, Corrupt, Empty, TypeOK, MemOK, ControlOK
  <2>3. ControlOK'
    BY ZenonT(60), <1>20, <2>1, <2>2, WriteHandleType DEF FlushDump, Goto, TypeOK, ControlOK
  <2> QED
    BY ZenonT(60), <1>20, <2>1, <2>2, <2>3, WriteHandleType, Frame DEF FlushDump, TypeOK
<1>21. ASSUME NEW p \in Proc, NEW t \in Thread, FlushDumpRaises(p, t)
      PROVE  TypeOK'
  <2>1. /\ pc[p][t] = "dump" /\ WriteHandle(p, t, Corrupt) /\ FlushRaises(p, t)
        /\ UNCHANGED <<files, mem, call, needed, evictable, reader, clock>>
        /\ UNCHANGED faults \/ faults' = faults + 1
    BY ZenonT(60), <1>21 DEF FlushDumpRaises
  <2>2. JsonType(Corrupt)
    BY SMTT(60) DEF JsonType, IndexType, Corrupt, Empty
  <2>3. /\ lock' \in [Proc -> {"free", "backup", "sched"}]
        /\ pc' \in [Proc -> [Thread -> {"idle", "next", "save", "saved", "evict", "clear",
                                        "flush", "build", "open", "dump", "replace", "dead"}]]
        /\ todo' \in [Proc -> Seq(Key)]
    BY <2>1, FlushExitType DEF Flushing
  <2>4. /\ JsonOK'
        /\ fd' \in [Proc -> [Thread -> {"none", "tmp", "index"}]]
        /\ data' \in [Proc -> [Thread -> Nat]]
        /\ dumping' \in [Proc -> [Thread -> SUBSET Key]]
    BY ZenonT(60), <2>1, <2>2, WriteHandleType
  <2>5. ControlOK'
    BY ZenonT(60), <2>1, <2>3, <2>4 DEF TypeOK, ControlOK
  <2>6. BatchOK'
    BY ZenonT(60), <2>1, <2>3 DEF TypeOK, BatchOK
  <2>7. faults' \in Nat
    <3>1. faults \in Nat /\ (UNCHANGED faults \/ faults' = faults + 1)
      BY ZenonT(60), <2>1 DEF TypeOK
    <3> QED
      BY <3>1
  <2> QED
    BY ZenonT(60), <2>1, <2>4, <2>5, <2>6, <2>7, Frame DEF TypeOK
<1>22. ASSUME NEW p \in Proc, NEW t \in Thread, FlushReplace(p, t)
      PROVE  TypeOK'
  <2>1. /\ pc[p][t] = "replace" /\ FlushReturns(p, t)
        /\ dirty' = [dirty EXCEPT ![p] = FALSE]
        /\ index_json' = tmp_json /\ tmp_json' = Absent
        /\ UNCHANGED <<files, index, total_bytes, call, data, dumping, needed, evictable>>
        /\ UNCHANGED <<reader, clock, faults>>
    BY ZenonT(60), <1>22 DEF FlushReplace
  <2>2. fd' \in [Proc -> [Thread -> {"none", "tmp", "index"}]]
    BY ZenonT(60), <1>22 DEF FlushReplace
  <2>3. /\ lock' \in [Proc -> {"free", "backup", "sched"}]
        /\ pc' \in [Proc -> [Thread -> {"idle", "next", "save", "saved", "evict", "clear",
                                        "flush", "build", "open", "dump", "replace", "dead"}]]
        /\ todo' \in [Proc -> Seq(Key)]
    BY ZenonT(60), <2>1, FlushExitType DEF Flushing
  <2>4. ControlOK'
    BY ZenonT(60), <2>1, <2>2, <2>3 DEF TypeOK, ControlOK
  <2>5. JsonOK'
    BY SMTT(60), <2>1, LoadType DEF JsonType, IndexType, Absent, Empty, TypeOK, JsonOK
  <2>6. MemOK'
    BY <2>1 DEF TypeOK, MemOK
  <2>7. BatchOK'
    BY ZenonT(60), <2>1, <2>3 DEF TypeOK, BatchOK
  <2> QED
    BY ZenonT(60), <2>1, <2>4, <2>5, <2>6, <2>7, Frame DEF TypeOK
<1>23. ASSUME NEW p \in Proc, NEW t \in Thread, FlushReplaceRaises(p, t)
      PROVE  TypeOK'
  <2>1. /\ pc[p][t] = "replace" /\ FlushRaises(p, t)
        /\ UNCHANGED <<files, index_json, tmp_json, index, total_bytes, dirty>>
        /\ UNCHANGED <<call, fd, data, dumping, needed, evictable, reader, clock, faults>>
    BY ZenonT(60), <1>23 DEF FlushReplaceRaises, disk, mem, flushing
  <2>2. /\ lock' \in [Proc -> {"free", "backup", "sched"}]
        /\ pc' \in [Proc -> [Thread -> {"idle", "next", "save", "saved", "evict", "clear",
                                        "flush", "build", "open", "dump", "replace", "dead"}]]
        /\ todo' \in [Proc -> Seq(Key)]
    BY <2>1, FlushExitType DEF Flushing
  <2>3. ControlOK'
    BY ZenonT(60), <2>1, <2>2 DEF TypeOK, ControlOK
  <2>4. BatchOK'
    BY ZenonT(60), <2>1, <2>2 DEF TypeOK, BatchOK
  <2> QED
    BY SMTT(60), <2>1, <2>3, <2>4, Frame DEF TypeOK, mem
<1>24. CASE PowerLoss
  <2>1. ControlOK'
    BY <1>24 DEF PowerLoss, Restart, TypeOK, ControlOK, disk, mem, flushing, batch
  <2>2. BatchOK'
    BY <1>24 DEF PowerLoss, Restart, Empty, TypeOK, BatchOK, disk, mem, flushing, batch
  <2>3. MemOK'
    BY ZenonT(60), <1>24, LoadType, UsedOfEmpty DEF PowerLoss, Restart, Corrupt, Empty, JsonType, IndexType, TypeOK, MemOK, disk, mem, flushing, batch
  <2>4. JsonOK'
    <3>1. JsonType(Corrupt)
      BY DEF JsonType, IndexType, Corrupt, Empty
    <3>2. index_json' = Corrupt /\ tmp_json' = tmp_json
      BY <1>24 DEF PowerLoss, Restart
    <3> QED
      BY SMTT(60), <3>1, <3>2 DEF TypeOK, JsonOK
  <2>5. reader' \in [Proc -> [pc : {"idle", "hit", "loaded"}, key : Key]]
    BY ZenonT(60), <1>24 DEF PowerLoss, Restart, TypeOK
  <2> QED
    BY SMTT(60), <1>24, <2>1, <2>2, <2>3, <2>4, <2>5, Frame, NowIsNat DEF PowerLoss, Restart, TypeOK, disk, mem, flushing, batch
<1>25. CASE UNCHANGED vars
  BY <1>25, Frame DEF vars, TypeOK, disk, mem, flushing, batch
<1> QED
  BY ZenonT(60), <1>1, <1>2, <1>3, <1>4, <1>5, <1>6, <1>7, <1>8, <1>9, <1>10,
     <1>11, <1>12, <1>13, <1>14, <1>15, <1>16, <1>17, <1>18, <1>19, <1>19a, <1>19b, <1>20,
     <1>21, <1>22, <1>23, <1>24, <1>25
     DEF Next, BackupStep, clear, get, flush_index

=============================================================================
