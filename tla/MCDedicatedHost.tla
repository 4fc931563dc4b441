---------------------------- MODULE MCDedicatedHost ----------------------------
(* A small instance of DedicatedHost that TLC checks.                        *)
EXTENDS DedicatedHost
===============================================================================
