------------------------------ MODULE ShardTiling ------------------------------
(***************************************************************************)
(* The integer range partition that hands out shards: slice k of n of the  *)
(* span 0 .. total-1.  assign_member_shards computes it in SQL for the     *)
(* member ranked k among n, shardutil.ShardsForPod in Go, and              *)
(* Drainer.bandShards uses it once more to split a pod's span into bands.  *)
(***************************************************************************)
EXTENDS Integers

SliceStart(k, n, total) == (k * total) \div n

SliceEnd(k, n, total) == ((k + 1) * total) \div n

\* The shards of slice k: empty when there are more slices than shards.
Slice(k, n, total) == SliceStart(k, n, total) .. SliceEnd(k, n, total) - 1
================================================================================
