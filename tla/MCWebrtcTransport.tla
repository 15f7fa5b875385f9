-------------------------- MODULE MCWebrtcTransport --------------------------
(* WebrtcTransport on small instances. *)
EXTENDS WebrtcTransport

CONSTANTS pacer, worker, module_process
==============================================================================
