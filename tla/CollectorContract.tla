-------------------------- MODULE CollectorContract --------------------------
(***************************************************************************)
(* What a collector promises (collectors/types.ts: it is "authoritative    *)
(* for" its resource types, "used for stale-resource marking").            *)
(* Collection keeps the promise, InventorySync relies on it.               *)
(***************************************************************************)

\* Returned: everything of what is there that did not come or go while it was listed,
\* and nothing that was never there.
MayReturn(existing, moved, returned) ==
  existing \ moved \subseteq returned /\ returned \subseteq existing \cup moved
=============================================================================
