------------------------- MODULE ShutdownCoordinator -------------------------
(***************************************************************************)
(* The end of the program (electron/shutdown-coordinator.js): requests to   *)
(* exit with a code, one cleanup, a timer that forces the exit, one exit.   *)
(*                                                                         *)
(* The cleanup is prepareExit of the application controller, which runs     *)
(* once however often it is asked for (module AppController).               *)
(***************************************************************************)
EXTENDS Naturals

VARIABLES
  started,      \* the first request was made
  code,         \* the exit code so far
  waiting,      \* shutdownPromise: "no", "yes" or "settled"
  preparation,  \* the cleanup: "none", "running", "done" or "failed"
  exited        \* the code the program has exited with, or Running

coordinator == <<started, code, waiting, preparation, exited>>

Running == 2
Worse(a, b) == IF a < b THEN b ELSE a

\* request, but for onPrepare.
Requested(n) ==
  /\ started' = TRUE
  /\ code' = Worse(code, n)
  /\ waiting' = IF waiting = "no" THEN "yes" ELSE waiting

\* The cleanup ends.
CleanupEnds(end) ==
  /\ preparation = "running" /\ preparation' = end
  /\ UNCHANGED <<started, code, waiting, exited>>

\* The promise of stop settles: a failure makes the code worse.
Settle ==
  /\ waiting = "yes" /\ preparation \in {"done", "failed"}
  /\ waiting' = "settled"
  /\ code' = Worse(code, IF preparation = "failed" THEN 1 ELSE 0)
  /\ exited' = code'
  /\ UNCHANGED <<started, preparation>>

\* A plausible error: the timer is set when stop has returned.
ForceLate ==
  /\ waiting = "yes" /\ preparation \in {"done", "failed"}
  /\ exited' = Worse(code, 1)
  /\ UNCHANGED <<started, code, waiting, preparation>>

\* The timer, which is cleared when stop has settled.
Force ==
  /\ waiting = "yes"
  /\ exited' = Worse(code, 1)
  /\ UNCHANGED <<started, code, waiting, preparation>>

CoordinatorInit ==
  /\ started = FALSE /\ code = 0 /\ waiting = "no"
  /\ preparation = "none" /\ exited = Running
=============================================================================
