--------------------------- MODULE SshAdmission ----------------------------
(***************************************************************************)
(* What the SSH server admits (_handleTcpSocket, _trackTcpSocket and       *)
(* _onSshClient in electron/proxy-server.js): TCP connections that must    *)
(* authenticate in time, sessions on them, and one bridge per session.     *)
(*                                                                         *)
(* Every level has a limit, and the levels end in any order: a session may *)
(* be closed while its bridge still drains output or, for SCP, removes its *)
(* files; the bridge itself is BridgeChannel or ScpSession.                *)
(*                                                                         *)
(* Abstracted: keys and signatures (an authentication succeeds or not; the *)
(* phases with and without a signature are one), terminal sizes, log lines *)
(* and the reason that a socket keeps for the history.                     *)
(***************************************************************************)
EXTENDS Naturals, FiniteSets

CONSTANTS
  Sockets,         \* connections that may be made
  Channels,        \* sessions that may be requested
  MaxConnections, MaxSessions   \* the limits of the code

VARIABLES
  accepting,   \* _acceptingConnections
  socket,      \* of each connection: "none", "shaking", "ready", "gone"
  owner,       \* the connection of each session, or "none"
  channel,     \* of each session: "none", "open", "gone" (in _sshChannels)
  pty,         \* sessions that have a terminal
  bridge,      \* of each session: "none", "terminal", "scp", "done"
  interrupted  \* SCP bridges that were told to stop

vars == <<accepting, socket, owner, channel, pty, bridge, interrupted>>

Connected == {s \in Sockets : socket[s] \in {"shaking", "ready"}}
OpenChannels == {c \in Channels : channel[c] = "open"}
OpenSessions == {c \in Channels : bridge[c] \in {"terminal", "scp"}}

-----------------------------------------------------------------------------
\* A connection is refused while the gate is closed or the limit is reached.
Connect(s) ==
  /\ socket[s] = "none"
  /\ accepting /\ Cardinality(Connected) < MaxConnections
  /\ socket' = [socket EXCEPT ![s] = "shaking"]
  /\ UNCHANGED <<accepting, owner, channel, pty, bridge, interrupted>>

\* Only a valid signature of the authorised key makes the client ready, and
\* ends the time for the handshake.
Authenticate(s) ==
  /\ socket[s] = "shaking"
  /\ socket' = [socket EXCEPT ![s] = "ready"]
  /\ UNCHANGED <<accepting, owner, channel, pty, bridge, interrupted>>

\* removeSshChannel: an SCP bridge is told at once.
Removed(gone) ==
  /\ channel' = [c \in Channels |-> IF c \in gone THEN "gone" ELSE channel[c]]
  /\ interrupted' = interrupted \cup {c \in gone : bridge[c] = "scp"}

\* The connection ends: the client leaves, the handshake or the idle time-out
\* destroys the socket, or an error does.  All its sessions end with it.
Disconnect(s) ==
  /\ s \in Connected
  /\ socket' = [socket EXCEPT ![s] = "gone"]
  /\ Removed({c \in OpenChannels : owner[c] = s})
  /\ UNCHANGED <<accepting, owner, pty, bridge>>
HandshakeTimeout(s) == socket[s] = "shaking" /\ Disconnect(s)

\* session: refused when the gate has closed since or the limit is reached.
RequestSession(s, c) ==
  /\ socket[s] = "ready" /\ channel[c] = "none"
  /\ accepting /\ Cardinality(OpenChannels) < MaxSessions
  /\ channel' = [channel EXCEPT ![c] = "open"]
  /\ owner' = [owner EXCEPT ![c] = s]
  /\ UNCHANGED <<accepting, socket, pty, bridge, interrupted>>

RequestPty(c) ==
  /\ channel[c] = "open" /\ bridge[c] = "none" /\ c \notin pty
  /\ pty' = pty \cup {c}
  /\ UNCHANGED <<accepting, socket, owner, channel, bridge, interrupted>>

\* A plausible error: the limit on the sessions is taken as implied by that
\* on the channels.
RequestBridgeUncounted(c, kind) ==
  /\ channel[c] = "open" /\ bridge[c] = "none"
  /\ bridge' = [bridge EXCEPT ![c] = kind]
  /\ UNCHANGED <<accepting, socket, owner, channel, pty, interrupted>>

\* shell, exec: one bridge per session, as long as there are places.
RequestBridge(c, kind) ==
  /\ channel[c] = "open" /\ bridge[c] = "none"
  /\ Cardinality(OpenSessions) < MaxSessions
  /\ bridge' = [bridge EXCEPT ![c] = kind]
  /\ UNCHANGED <<accepting, socket, owner, channel, pty, interrupted>>

CloseChannel(c) ==
  /\ channel[c] = "open" /\ Removed({c})
  /\ UNCHANGED <<accepting, socket, owner, pty, bridge>>

\* The bridge ends and its record is finalised.
BridgeEnds(c) ==
  /\ c \in OpenSessions
  /\ bridge' = [bridge EXCEPT ![c] = "done"]
  /\ UNCHANGED <<accepting, socket, owner, channel, pty, interrupted>>

SetAccepting(on) ==
  /\ accepting' = on
  /\ UNCHANGED <<socket, owner, channel, pty, bridge, interrupted>>

Next ==
  \/ \E s \in Sockets : Connect(s) \/ Authenticate(s) \/ Disconnect(s) \/ HandshakeTimeout(s)
  \/ \E s \in Sockets, c \in Channels : RequestSession(s, c)
  \/ \E c \in Channels : RequestPty(c) \/ CloseChannel(c) \/ BridgeEnds(c)
  \/ \E c \in Channels, kind \in {"terminal", "scp"} : RequestBridge(c, kind)
  \/ \E on \in BOOLEAN : SetAccepting(on)

Init ==
  /\ accepting \in BOOLEAN
  /\ socket = [s \in Sockets |-> "none"]
  /\ owner = [c \in Channels |-> "none"]
  /\ channel = [c \in Channels |-> "none"]
  /\ pty = {} /\ bridge = [c \in Channels |-> "none"] /\ interrupted = {}

Spec == Init /\ [][Next]_vars

-----------------------------------------------------------------------------
\* MAX_TCP_CONNECTIONS and MAX_PROXY_SESSIONS bound what is really there,
\* the bridges included that outlive their channel or their connection; and
\* such a bridge, if it is an SCP transfer, was told to stop (_trackTcpSocket,
\* the session, shell and exec handlers, removeSshChannel).
PlacesAccounted ==
  /\ Cardinality(Connected) <= MaxConnections
  /\ Cardinality(OpenChannels) <= MaxSessions
  /\ Cardinality(OpenSessions) <= MaxSessions
  /\ \A c \in OpenSessions : bridge[c] = "scp" /\ channel[c] = "gone" => c \in interrupted
=============================================================================
