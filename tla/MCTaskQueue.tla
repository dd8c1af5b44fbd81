---------------------------- MODULE MCTaskQueue ----------------------------
(* Three cells, four submissions: the array fills, is compacted and fills    *)
(* again, and every pair of priorities meets in every order.                 *)
EXTENDS TaskQueue
=============================================================================
