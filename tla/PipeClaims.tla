----------------------------- MODULE PipeClaims -----------------------------
(***************************************************************************)
(* What a comment of the code says of the worker's wait on its pipe and    *)
(* the code does not keep; a run refutes it.                               *)
(***************************************************************************)
EXTENDS PipeSync

(* Timers expire.                                                          *)
TimelySpec == FairSpec /\ WF_vars(Timeout)

(* paho_mqtt_pipe.c:1105: "res == 0: timeount for ping".  A worker that    *)
(* waits in select comes back, with something to read or with the timeout. *)
SelectReturns == worker = "poll" ~> worker \in {"cycle", "read", "away"}
=============================================================================
