----------------------------- MODULE MCSupervisor -----------------------------
(* Three edges, two failures, edges that may hang: one can fail while another *)
(* is waited for, and the same one twice.                                     *)
EXTENDS Supervisor
==============================================================================
