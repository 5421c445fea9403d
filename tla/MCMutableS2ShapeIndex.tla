----------------------- MODULE MCMutableS2ShapeIndex -----------------------
(* Query threads and shapes under a memory limit.  Three of each are enough  *)
(* for an updater, a waiter and a late reader, and for a batch, a removal    *)
(* and an addition to be pending together; two of each show what a refused   *)
(* addition does to a queued removal.                                        *)
EXTENDS MutableS2ShapeIndex
=============================================================================
