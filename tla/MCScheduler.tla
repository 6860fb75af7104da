----------------------------- MODULE MCScheduler -----------------------------
(***************************************************************************)
(* Instances of Scheduler for TLC: values of its constants that a          *)
(* configuration file cannot write down.                                   *)
(***************************************************************************)
EXTENDS Scheduler

AnyWait  == {AnyChild}
EachWait == WaitPids
NoWait   == {}
=============================================================================
