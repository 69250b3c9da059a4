---------------------------- MODULE MCDriverLock ----------------------------
(* DriverLock for TLC: of three clients one uses the profiling extension,  *)
(* and whatever can fail after the probe of the counters does.              *)
EXTENDS DriverLock

AllFailures == {"alloc", "config"}
=============================================================================
