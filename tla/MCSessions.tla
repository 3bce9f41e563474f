---------------------------- MODULE MCSessions -----------------------------
(***************************************************************************)
(* What the proxy server does for its clients, in one run of TLC: the      *)
(* admission of connections and sessions, the bridge of one terminal or    *)
(* command, the SCP sessions and the endpoint they read and write through. *)
(* The parts share no state (ScpSession and BridgeChannel say what they    *)
(* assume of each other), so a behaviour is one of any of them, and their  *)
(* states add up instead of multiplying.                                   *)
(***************************************************************************)
EXTENDS ScpSession

CONSTANTS Sizes, MaxPending, MaxOutput, Room,
          Sockets, Channels, MaxConnections, MaxSessions,
          Limit, MaxRead

VARIABLES
  part,                                      \* the part at work
  b,                                         \* BridgeChannel
  accepting, socket, owner, channel, pty, bridge, interrupted,  \* SshAdmission
  stream, reader, writer                     \* ScpEndpoint

Bridge == INSTANCE BridgeChannel
Admission == INSTANCE SshAdmission
Endpoint == INSTANCE ScpEndpoint

admission == <<accepting, socket, owner, channel, pty, bridge, interrupted>>
endpoint == <<stream, reader, writer>>

SessionsNext ==
  /\ UNCHANGED part
  /\ \/ part = "scp" /\ Next /\ UNCHANGED <<b, admission, endpoint>>
     \/ part = "bridge" /\ Bridge!Next /\ UNCHANGED <<vars, admission, endpoint>>
     \/ part = "admission" /\ Admission!Next /\ UNCHANGED <<vars, b, endpoint>>
     \/ part = "endpoint" /\ Endpoint!Next /\ UNCHANGED <<vars, b, admission>>

SessionsInit ==
  /\ part \in {"bridge", "admission", "scp", "endpoint"}
  /\ Init /\ Bridge!Init /\ Admission!Init /\ Endpoint!Init
  /\ part # "admission" => accepting

\* The fair actions of each part are disabled in its initial state.
SessionsSpec ==
  /\ SessionsInit /\ [][SessionsNext]_<<part, vars, b, admission, endpoint>>
  /\ Fairness /\ Bridge!Fairness /\ Endpoint!Fairness

-----------------------------------------------------------------------------
\* What the run checks of the other parts, as their modules state it.
ExitIsTold == Bridge!ExitIsTold
WorkIsPolled == Bridge!WorkIsPolled
BridgeEnds == Bridge!BridgeEnds
PlacesAccounted == Admission!PlacesAccounted

\* The endpoint waits only for what can still come, and does not sleep through it.
ReaderWakes == []Endpoint!WaitsAreSound /\ Endpoint!ReaderWakes
=============================================================================
