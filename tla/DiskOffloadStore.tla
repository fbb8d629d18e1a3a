-------------------------- MODULE DiskOffloadStore --------------------------
(***************************************************************************)
(* DiskOffloadBackend seen through the prefetch thread of one process: the    *)
(* page store whose pages are the files that hold all their bytes.          *)
(***************************************************************************)
EXTENDS DiskOffload

Self == CHOOSE p \in Proc : TRUE

Store == INSTANCE PageStore
    WITH Page <- Key, stored <- {k \in Key : Whole(k)}, query <- reader[Self]

(* The backend keeps the contract of a page store: set, eviction, clear and   *)
(* restarts lose or gain one whole page at a time, batch_exists reports only  *)
(* pages that read back, and get never returns part of one.                 *)
ImplementsPageStore == Store!Spec
=============================================================================
