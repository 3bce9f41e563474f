----------------------------- MODULE KeyIdentity -----------------------------
(***************************************************************************)
(* What the key service promises to SSH clients, whatever files, journal   *)
(* and crashes are behind it: there is one durable identity, connections   *)
(* are only admitted with it, and it only changes while nobody can be      *)
(* admitted.                                                               *)
(***************************************************************************)
CONSTANTS
  Kinds,        \* the keys of an identity
  Identities,   \* the values a key may have
  Unknown,      \* a key that is not recorded yet
  Nobody        \* no listener admits connections

VARIABLES
  identity,     \* the identity that is durably recorded
  admitted      \* the identity presented to clients, or Nobody

Recordable == [Kinds -> Identities \cup {Unknown}]
Presentable == [Kinds -> Identities]

Init ==
  /\ identity \in Recordable
  /\ admitted = Nobody

\* The durable identity is replaced.
Replace ==
  /\ admitted = Nobody
  /\ identity' \in Recordable
  /\ UNCHANGED admitted

\* A listener opens with the identity recorded.
Admit ==
  /\ admitted' \in Presentable
  /\ \A k \in Kinds : identity[k] \in {Unknown, admitted'[k]}
  /\ UNCHANGED identity

\* The listener is stopped, or its gate closed.
Withdraw ==
  /\ admitted' = Nobody
  /\ UNCHANGED identity

Next == Replace \/ Admit \/ Withdraw

Spec == Init /\ [][Next]_<<identity, admitted>>
=============================================================================
