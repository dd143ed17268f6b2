--------------------------- MODULE MCCacheKeeper ----------------------------
(* Small instances of CacheKeeper; see the cfg files for their constants. *)
EXTENDS CacheKeeper

=============================================================================
