-------------------------- MODULE MC_WriteConnection ---------------------------
(* The write operations of joinFS: rename (3 statements), unlink (2) and single  *)
(* inserts.                                                                      *)
EXTENDS WriteConnection, TLC

CONSTANTS rename, unlink, rmdir, create, setxattr

Sizes == rename :> 3 @@ unlink :> 2 @@ rmdir :> 2 @@ create :> 1 @@ setxattr :> 1
===============================================================================
