----------------------------- MODULE ProxyGate -----------------------------
(***************************************************************************)
(* What the proxy lifecycle promises to the rest of the program and to the *)
(* SSH clients.  A proxy instance is new until it is bound to the port; it *)
(* then is gated (a candidate that refuses every connection) or open; a    *)
(* candidate opens only by activation; and an instance that was closed, or *)
(* that failed to start, never serves again.  At most one instance is      *)
(* gated or open at any time.                                              *)
(***************************************************************************)

CONSTANT Instances

VARIABLE phase    \* "new", "gated", "open" or "closed"

Behind(i) == phase[i] \in {"gated", "open"}

Init == phase = [i \in Instances |-> "new"]

Bind(i, how) ==
  /\ phase[i] = "new"
  /\ \A j \in Instances : ~Behind(j)
  /\ phase' = [phase EXCEPT ![i] = how]

Activate(i) ==
  /\ phase[i] = "gated"
  /\ phase' = [phase EXCEPT ![i] = "open"]

\* No new connection is taken from this moment on; sessions may end later.
Close(i) ==
  /\ phase[i] # "closed"
  /\ phase' = [phase EXCEPT ![i] = "closed"]

Next ==
  \E i \in Instances :
    \/ \E how \in {"gated", "open"} : Bind(i, how)
    \/ Activate(i) \/ Close(i)

Spec == Init /\ [][Next]_phase
=============================================================================
