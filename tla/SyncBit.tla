------------------------------- MODULE SyncBit -------------------------------
(***************************************************************************)
(* tms34010_sync_bit: two flip-flops in a row carry one bit into another   *)
(* clock's domain.  A pair <<first, second>> is the state of one           *)
(* synchronizer; the domain's logic sees the second only.                  *)
(*                                                                         *)
(* When the bit changes close to the edge that samples it, the first stage *)
(* may take the old value or the new one: the two domains' edges are steps *)
(* in either order, so both outcomes are behaviours.                       *)
(***************************************************************************)
SyncPair(Levels)   == Levels \X Levels
SyncReset(v)       == <<v, v>>
SyncEdge(pair, in) == <<in, pair[1]>>
Synced(pair)       == pair[2]
=============================================================================
