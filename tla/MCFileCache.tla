---------------------------- MODULE MCFileCache ----------------------------
(* FileCache with three files of sizes 1, 2 and 1 in three buckets. *)
EXTENDS FileCache, TLC

CONSTANTS f1, f2, f3

MCSize == f1 :> 1 @@ f2 :> 2 @@ f3 :> 1

Apart    == f1 :> 0 @@ f2 :> 1 @@ f3 :> 2
Together == f1 :> 0 @@ f2 :> 0 @@ f3 :> 2

\* Without and with collisions; room for one file, a few, all, or two copies of each.
MCConfs == [threads : {1, 2}, hash : {Apart, Together}, max_cache_size : {1, 2, 3, 4, 8}]
\* Two threads, no collisions, not enough room.
MCPinConfs == {[threads |-> 2, hash |-> Apart, max_cache_size |-> 2]}
=============================================================================
