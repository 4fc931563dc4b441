-------------------------- MODULE MCProtocolDispatch --------------------------
(* A small instance of ProtocolDispatch for TLC.                           *)
EXTENDS ProtocolDispatch
=============================================================================
