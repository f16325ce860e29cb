-------------------------- MODULE MCVirtualSystem --------------------------
(* Instances of VirtualSystem for TLC.  The .cfg files choose the entry    *)
(* points; the signal is one model value.                                  *)
EXTENDS VirtualSystem

CONSTANT sig
=============================================================================
