---------------------------- MODULE MCSupervisor ---------------------------
(* A scheduler with two workers and one task; one worker is killed and one   *)
(* fork or execl fails, at any moment.                                       *)
EXTENDS Supervisor

CONSTANTS t1
=============================================================================
