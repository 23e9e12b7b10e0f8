-------------------------- MODULE MCClientLifecycle --------------------------
(* A small instance of ClientLifecycle for TLC: see the configurations.     *)
EXTENDS ClientLifecycle
=============================================================================
