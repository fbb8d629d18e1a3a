----------------------------- MODULE PageStore -----------------------------
(***************************************************************************)
(* What the KV cache above may rely on in a page store (HiCacheStorage): a    *)
(* page becomes readable as a whole, the store may lose any page at any       *)
(* time, a page reported present is readable at that moment, and a read      *)
(* returns the page or nothing, never part of it.                           *)
(***************************************************************************)
CONSTANT Page
VARIABLES
    stored,  \* the pages that read back in full
    query    \* one reader: [pc, key]

Init == stored = {} /\ query.pc = "idle"

Gain(k) == stored' = stored \cup {k} /\ UNCHANGED query
Lose(k) == stored' = stored \ {k} /\ UNCHANGED query

(* batch_exists counts the page as a hit.                                   *)
Report(k) ==
    /\ query.pc = "idle" /\ k \in stored
    /\ query' = [pc |-> "hit", key |-> k]
    /\ UNCHANGED stored

(* get: the page, or None when it was lost since.                           *)
Read ==
    /\ query.pc = "hit"
    /\ query' = [query EXCEPT !.pc = IF query.key \in stored THEN "loaded" ELSE "idle"]
    /\ UNCHANGED stored

(* get returns, or the reader's process starts again.                       *)
Leave ==
    /\ query' = [query EXCEPT !.pc = "idle"]
    /\ UNCHANGED stored

Next ==
    \/ \E k \in Page : Gain(k) \/ Lose(k) \/ Report(k)
    \/ Read
    \/ Leave

Spec == Init /\ [][Next]_<<stored, query>>
=============================================================================
