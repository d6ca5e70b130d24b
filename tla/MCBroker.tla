------------------------------- MODULE MCBroker -------------------------------
(* Three providers, as the chain is meant to grow to (New wires one), and a    *)
(* deadline one tick behind the worst of two of them, so that the third must   *)
(* still be asked and cannot finish its retries.                               *)
EXTENDS Broker
==============================================================================
