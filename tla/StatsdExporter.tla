---------------------------- MODULE StatsdExporter ----------------------------
(***************************************************************************)
(* The StatsD exporter of src/src/export/statsd.rs: lines batched into     *)
(* datagrams, and datagrams sent over UDP or over a Unix socket that is    *)
(* reconnected when the inode at its path changes.  The file system and    *)
(* the agents that bind the path take steps between the exporter's.        *)
(*                                                                         *)
(* A line is its length; an agent's socket is numbered in the order of     *)
(* binding.  A file system may give a new socket the inode of an old one   *)
(* that is neither open nor at the path any more.                          *)
(***************************************************************************)
EXTENDS Integers, Sequences, Sums

CONSTANTS
    Sizes,          \* lengths of the lines
    MaxLines,       \* bound on the lines of an export
    MaxBufferSize,  \* max_buffer_size
    InPlace,        \* TRUE iff an agent binds the path itself and opens its
                    \* socket afterwards; it renames an open one to it otherwise
    MaxBinds        \* bound on the sockets bound in a behaviour

ASSUME StatsdAssumption ==
    /\ Sizes \subseteq Nat \ {0}
    /\ MaxLines \in Nat /\ MaxBufferSize \in Nat /\ MaxBinds \in Nat
    /\ InPlace \in BOOLEAN

VARIABLES
    path,       \* the socket at the path, or None
    live,       \* the sockets that are not closed
    open,       \* the sockets that may be connected to
    binds,      \* how many have been bound
    inode,      \* their inodes
    transport,  \* Socket::Udp or Socket::Uds
    pc,         \* where the exporter is
    lastInode,  \* last_inode
    socket,     \* the socket it is connected to, or None
    lines,      \* the lines of the export that are not in the buffer yet
    buffer,     \* the lines in the buffer
    call,       \* history: all lines of the export
    sent,       \* history: its datagrams
    lastSocket, \* history: the socket at the path when lastInode was stored
    steady      \* history: path and sockets have not changed since send_buffer
                \* looked at the inode

agentVars == <<path, live, open, binds, inode>>
inodeVars == <<lastInode, lastSocket>>
connVars == <<inodeVars, socket>>
batchVars == <<lines, buffer, call, sent>>
vars == <<agentVars, transport, pc, connVars, batchVars, steady>>

None == 0
Sockets == 1 .. MaxBinds

\* Mutant: a missing file does not read as 0.
InodeOrError(p) == IF p = None THEN -1 ELSE inode[p]

\* get_inode(path).unwrap_or(0)
Inode(p) == IF p = None THEN 0 ELSE inode[p]

Init ==
    /\ path = None /\ live = {} /\ open = {} /\ binds = 0
    /\ inode = [s \in Sockets |-> 0]
    /\ transport \in {"udp", "uds"}
    /\ pc = IF transport = "udp" THEN "idle" ELSE "building"
    /\ lastInode = 0 /\ lastSocket = None /\ socket = None
    /\ lines = <<>> /\ buffer = <<>> /\ call = <<>> /\ sent = <<>>
    /\ steady = FALSE

Goto(from, to) == pc = from /\ pc' = to

-----------------------------------------------------------------------------
(* Connecting                                                              *)

\* connect_uds(path).ok()
ConnectUds == socket' = IF path \in live \cap open THEN path ELSE None

StoreInode == lastInode' = Inode(path) /\ lastSocket' = path

\* build: the inode is read first, and connecting may fail.
BuildInode ==
    /\ Goto("building", "connecting")
    /\ StoreInode
    /\ UNCHANGED <<agentVars, transport, socket, batchVars, steady>>

BuildConnect ==
    /\ Goto("connecting", "idle")
    /\ ConnectUds
    /\ UNCHANGED <<agentVars, transport, inodeVars, batchVars, steady>>

\* Mutant: only a socket that was there before can be replaced.
ReplacedKnown(current) == current # lastInode /\ current # 0 /\ lastInode # 0

Replaced(current) == current # lastInode /\ current # 0

\* send_buffer: a new inode is stored before the connection is tried.
CheckInode ==
    /\ IF Replaced(Inode(path))
       THEN Goto("checking", "reconnecting") /\ StoreInode
       ELSE Goto("checking", "sending") /\ UNCHANGED inodeVars
    /\ steady' = TRUE
    /\ UNCHANGED <<agentVars, transport, socket, batchVars>>

Reconnect ==
    /\ Goto("reconnecting", "sending")
    /\ ConnectUds
    /\ UNCHANGED <<agentVars, transport, inodeVars, batchVars, steady>>

\* sock.send(..), whose failure is ignored.
Send ==
    /\ Goto("sending", "filling")
    /\ sent' = Append(sent, buffer)
    /\ buffer' = <<>>
    /\ steady' = FALSE
    /\ UNCHANGED <<agentVars, transport, connVars, lines, call>>

-----------------------------------------------------------------------------
(* send_lines.  The last datagram, too, is taken out of the buffer when it *)
(* is sent; the code clears the buffer when it is next called.             *)

\* Lines are joined by line breaks.
Length(ls) == SumOver(ls, DOMAIN ls) + (Len(ls) - 1)

\* Mutant: the line break is forgotten.
TooLongUnjoined(l) == Length(buffer) + l > MaxBufferSize

TooLong(l) == Length(buffer) + 1 + l > MaxBufferSize

\* export and export_raw_points: the worker calls them with at least one
\* metric or point, each of which is rendered as one or more lines.
Export ==
    /\ Goto("idle", "filling")
    /\ call' \in UNION {[1 .. n -> Sizes] : n \in 1 .. MaxLines}
    /\ lines' = call'
    /\ UNCHANGED <<agentVars, transport, connVars, buffer, sent, steady>>

PushLine ==
    /\ pc = "filling" /\ lines # <<>>
    /\ buffer = <<>> \/ ~TooLong(Head(lines))
    /\ buffer' = Append(buffer, Head(lines))
    /\ lines' = Tail(lines)
    /\ UNCHANGED <<agentVars, transport, pc, connVars, call, sent, steady>>

SendBuffer ==
    /\ Goto("filling", IF transport = "udp" THEN "sending" ELSE "checking")
    /\ buffer # <<>>
    /\ lines # <<>> => TooLong(Head(lines))
    /\ UNCHANGED <<agentVars, transport, connVars, batchVars, steady>>

ExportReturns ==
    /\ Goto("filling", "idle")
    /\ lines = <<>> /\ buffer = <<>>
    /\ call' = <<>> /\ sent' = <<>>
    /\ UNCHANGED <<agentVars, transport, connVars, lines, buffer, steady>>

-----------------------------------------------------------------------------
(* Agents and the file system, outside the code.                           *)

\* They matter to an exporter with a path only.
Unsteady ==
    /\ transport = "uds"
    /\ steady' = FALSE
    /\ UNCHANGED <<transport, pc, connVars, batchVars>>

FreedInodes == {inode[s] : s \in 1 .. binds} \ {Inode(s) : s \in live \cup {path}}

AgentBinds ==
    /\ binds < MaxBinds
    /\ binds' = binds + 1
    /\ live' = live \cup {binds'}
    /\ \E i \in {binds'} \cup FreedInodes : inode' = [inode EXCEPT ![binds'] = i]
    /\ IF InPlace THEN path = None /\ path' = binds' ELSE UNCHANGED path
    /\ UNCHANGED open /\ Unsteady

AgentOpens(s) ==
    /\ s \in live \ open
    /\ open' = open \cup {s}
    /\ path' = IF InPlace THEN path ELSE s
    /\ UNCHANGED <<live, binds, inode>> /\ Unsteady

\* The file stays.
AgentDies(s) ==
    /\ s \in live
    /\ live' = live \ {s}
    /\ UNCHANGED <<path, open, binds, inode>> /\ Unsteady

Unlink ==
    /\ path # None
    /\ path' = None
    /\ UNCHANGED <<live, open, binds, inode>> /\ Unsteady

AgentStep ==
    \/ AgentBinds \/ Unlink
    \/ \E s \in Sockets : AgentOpens(s) \/ AgentDies(s)

ExporterStep ==
    \/ BuildInode \/ BuildConnect
    \/ Export \/ PushLine \/ SendBuffer \/ ExportReturns
    \/ CheckInode \/ Reconnect \/ Send

Next == ExporterStep \/ AgentStep

Spec == Init /\ [][Next]_vars
\* The worker goes on, and has something to export every now and then.
LiveSpec == Spec /\ WF_vars(ExporterStep)

-----------------------------------------------------------------------------
\* The exporter, its socket and the file system are in known states.
TypeOK ==
    /\ path \in Sockets \cup {None} /\ binds \in 0 .. MaxBinds
    /\ live \subseteq Sockets /\ open \subseteq Sockets
    /\ transport \in {"udp", "uds"}
    /\ pc \in {"building", "connecting", "idle", "filling", "checking",
               "reconnecting", "sending"}
    /\ inode \in [Sockets -> Sockets \cup {0}] /\ lastInode \in Sockets \cup {0}
    /\ lastSocket \in Sockets \cup {None} /\ socket \in Sockets \cup {None}
    /\ {lines, buffer, call} \subseteq Seq(Sizes) /\ sent \in Seq(Seq(Sizes))
    /\ steady \in BOOLEAN

\* The lines of some datagrams.
LinesOf(datagrams) ==
    LET joined[n \in Nat] ==
            IF n \in DOMAIN datagrams THEN joined[n - 1] \o datagrams[n] ELSE <<>>
    IN  joined[Len(datagrams)]

\* The datagrams of an export, the buffer and the lines to come are its lines,
\* in order.  A datagram is within max_buffer_size unless it is a single line,
\* and was sent only when the next line did not fit.
Batched ==
    /\ LinesOf(sent) \o buffer \o lines = call
    /\ \A k \in 1 .. Len(sent) :
          /\ sent[k] # <<>>
          /\ Len(sent[k]) = 1 \/ Length(sent[k]) <= MaxBufferSize
          /\ k < Len(sent) => Length(sent[k]) + 1 + Head(sent[k + 1]) > MaxBufferSize

\* A datagram is sent to the socket at the path, if that one may be connected to
\* and nothing has changed while the datagram was being sent: whatever came and
\* went before, during the build or during an earlier reconnection.  The one
\* exception is a socket that has been given the inode of the last one looked at.
Up == path \in live \cap open
Misled == path # lastSocket /\ Inode(path) = Inode(lastSocket)
ReachesThePath ==
    transport = "uds" /\ pc = "sending" /\ steady /\ Up => socket = path \/ Misled

\* Once the path stays connectable, datagrams are sent to the socket there, with
\* that exception.  (README.md: "Unix domain socket (with automatic reconnection)".)
Reconnects ==
    transport = "uds" /\ <>[]Up => <>[](pc = "sending" => socket = path \/ Misled)
=============================================================================
