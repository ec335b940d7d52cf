-------------------------- MODULE AutoControlClaims --------------------------
(***************************************************************************)
(* What the device layer asserts of the alarm timer and the control loop   *)
(* and the callbacks do not keep; a run refutes it.                        *)
(***************************************************************************)
EXTENDS AutoControl

(* device.c:260 RT_ASSERT(dev->ref_count != 0), after ref_count++: nobody  *)
(* ever spins in it.  An alarm-off command between the loop's increment    *)
(* and the assertion closes the timer under it.  One between the test and  *)
(* the decrement of the loop's own close takes the count from 0 to 255,    *)
(* and the next alarm runs into the assertion.                             *)
RefCountAssertion == pc \notin {"asserted", "starved"}
=============================================================================
