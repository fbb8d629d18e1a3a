------------------------- MODULE MCHiCachePrefetch -------------------------
(***************************************************************************)
(* HiCachePrefetch for TLC.                                                *)
(***************************************************************************)
EXTENDS HiCachePrefetch

CONSTANTS r1, r2, p1, p2, p3

\* A prompt of two pages, and one that is its first page.
SharedPrompts == (r1 :> <<1, 2>>) @@ (r2 :> <<1>>)

\* In the place of the second request, others insert the page it shares with
\* the first and an unrelated one.
OtherTraffic == (r1 :> {}) @@ (r2 :> {<<1>>, <<3>>})

\* Only the shared page.
SharedTraffic == (r1 :> {}) @@ (r2 :> {<<1>>})

Pages == Permutations(HostPage)
============================================================================
