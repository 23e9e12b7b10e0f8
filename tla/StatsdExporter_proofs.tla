------------------------ MODULE StatsdExporter_proofs ------------------------
(* Proofs about StatsdExporter, for any number of sockets and inodes, any   *)
(* lengths of lines and any max_buffer_size.                                *)
EXTENDS StatsdExporter, InductionTheorems, SequenceTheorems

-----------------------------------------------------------------------------
(* Type correctness.                                                       *)

\* The agents and the file system, ...
AgentTyped ==
    /\ path \in Sockets \cup {None} /\ binds \in 0 .. MaxBinds
    /\ live \subseteq Sockets /\ open \subseteq Sockets
    /\ inode \in [Sockets -> Sockets \cup {0}]
    /\ steady \in BOOLEAN

\* ... the exporter and its connection, ...
ConnTyped ==
    /\ transport \in {"udp", "uds"}
    /\ pc \in {"building", "connecting", "idle", "filling", "checking",
               "reconnecting", "sending"}
    /\ lastInode \in Sockets \cup {0}
    /\ lastSocket \in Sockets \cup {None} /\ socket \in Sockets \cup {None}

\* ... and the lines of an export.
BatchTyped ==
    /\ lines \in Seq(Sizes) /\ buffer \in Seq(Sizes) /\ call \in Seq(Sizes)
    /\ sent \in Seq(Seq(Sizes))

Typed == AgentTyped /\ ConnTyped /\ BatchTyped

\* The inode of a path is one of a socket, or 0.
LEMMA InodeType ==
  ASSUME AgentTyped, NEW p \in Sockets \cup {None}
  PROVE  Inode(p) \in Sockets \cup {0}
  BY DEF AgentTyped, Inode, Sockets, None

\* Agents bind, open and close sockets, and unlink the path.
LEMMA AgentType ==
  ASSUME Typed, AgentStep
  PROVE  AgentTyped' /\ UNCHANGED <<transport, pc, connVars, batchVars>>
<1> USE DEF Typed, AgentTyped, Unsteady, Sockets, None
<1>1. CASE AgentBinds
  <2>1. binds' = binds + 1 /\ binds' \in Sockets /\ binds' \in 0 .. MaxBinds
    BY <1>1, StatsdAssumption DEF AgentBinds
  <2>2. PICK i \in {binds'} \cup FreedInodes : inode' = [inode EXCEPT ![binds'] = i]
    BY <1>1 DEF AgentBinds
  <2>3. i \in Sockets \cup {0}
    <3>1. \A s \in 1 .. binds : s \in Sockets
      BY StatsdAssumption
    <3>2. \A s \in 1 .. binds : inode[s] \in Sockets \cup {0}
      BY <3>1
    <3>3. i = binds' \/ \E s \in 1 .. binds : i = inode[s]
      BY DEF FreedInodes
    <3> QED BY <2>1, <3>2, <3>3
  <2>4. inode' \in [Sockets -> Sockets \cup {0}]
    BY <2>1, <2>2, <2>3
  <2>5. live' \subseteq Sockets /\ open' \subseteq Sockets /\ path' \in Sockets \cup {None}
    BY <1>1, <2>1 DEF AgentBinds
  <2> QED BY <1>1, <2>1, <2>4, <2>5 DEF AgentBinds
<1>2. ASSUME NEW s \in Sockets, AgentOpens(s) PROVE AgentTyped' /\ Unsteady
  BY <1>2 DEF AgentOpens
<1>3. ASSUME NEW s \in Sockets, AgentDies(s) PROVE AgentTyped' /\ Unsteady
  BY <1>3 DEF AgentDies
<1>4. CASE Unlink
  BY <1>4 DEF Unlink
<1> QED BY <1>1, <1>2, <1>3, <1>4 DEF AgentStep

\* The exporter builds, connects, reads the inode and sends.
LEMMA ConnType ==
  ASSUME Typed, ExporterStep
  PROVE  ConnTyped' /\ AgentTyped'
<1> USE DEF Typed, ConnTyped, Goto
<1>1. CASE BuildInode \/ CheckInode
  <2>1. Inode(path) \in Sockets \cup {0} /\ path \in Sockets \cup {None}
    BY InodeType DEF AgentTyped
  <2>2. ConnTyped'
    BY <1>1, <2>1 DEF BuildInode, CheckInode, StoreInode, inodeVars
  <2>3. UNCHANGED agentVars /\ steady' \in BOOLEAN
    BY <1>1 DEF BuildInode, CheckInode, AgentTyped
  <2> QED BY <2>2, <2>3 DEF AgentTyped, agentVars
<1>2. CASE BuildConnect \/ Reconnect
  <2>1. socket' \in Sockets \cup {None}
    BY <1>2 DEF BuildConnect, Reconnect, ConnectUds, AgentTyped
  <2> QED BY <1>2, <2>1 DEF BuildConnect, Reconnect, inodeVars, AgentTyped, agentVars
<1>3. CASE Export \/ PushLine \/ SendBuffer \/ ExportReturns \/ Send
  BY <1>3 DEF Export, PushLine, SendBuffer, ExportReturns, Send, connVars, inodeVars,
              AgentTyped, agentVars
<1> QED BY <1>1, <1>2, <1>3 DEF ExporterStep

\* It moves lines to the buffer and buffers to datagrams.
LEMMA BatchType ==
  ASSUME Typed, ExporterStep
  PROVE  BatchTyped'
<1> USE DEF Typed, BatchTyped
<1>1. CASE BuildInode \/ BuildConnect \/ CheckInode \/ Reconnect \/ SendBuffer
  BY <1>1 DEF BuildInode, BuildConnect, CheckInode, Reconnect, SendBuffer, batchVars
<1>2. CASE Send
  <2>1. sent' \in Seq(Seq(Sizes))
    BY <1>2, AppendProperties DEF Send
  <2>2. buffer' \in Seq(Sizes)
    BY <1>2, EmptySeq DEF Send
  <2> QED BY <1>2, <2>1, <2>2 DEF Send
<1>3. CASE Export
  <2>1. PICK n \in 1 .. MaxLines : call' \in [1 .. n -> Sizes]
    BY <1>3 DEF Export
  <2>2. call' \in Seq(Sizes)
    BY <2>1, StatsdAssumption, SeqDef
  <2> QED BY <1>3, <2>2 DEF Export
<1>4. CASE PushLine
  <2>1. Head(lines) \in Sizes /\ Tail(lines) \in Seq(Sizes)
    BY <1>4, HeadTailProperties DEF PushLine
  <2>2. Append(buffer, Head(lines)) \in Seq(Sizes)
    BY <2>1, AppendProperties
  <2> QED BY <1>4, <2>1, <2>2 DEF PushLine
<1>5. CASE ExportReturns
  BY <1>5, EmptySeq DEF ExportReturns
<1> QED BY <1>1, <1>2, <1>3, <1>4, <1>5 DEF ExporterStep

\* Every step keeps the types.
LEMMA TypedNext == Typed /\ [Next]_vars => Typed'
<1> SUFFICES ASSUME Typed, [Next]_vars PROVE Typed'
  OBVIOUS
<1>1. CASE AgentStep
  BY <1>1, AgentType DEF Typed, ConnTyped, BatchTyped, connVars, inodeVars, batchVars
<1>2. CASE ExporterStep
  BY <1>2, ConnType, BatchType DEF Typed
<1>3. CASE UNCHANGED vars
  BY <1>3 DEF Typed, AgentTyped, ConnTyped, BatchTyped, vars, agentVars, connVars, inodeVars,
              batchVars
<1> QED BY <1>1, <1>2, <1>3 DEF Next

\* The initial state is well-formed.
LEMMA TypedInit == Init => Typed
<1> SUFFICES ASSUME Init PROVE Typed
  OBVIOUS
<1>1. AgentTyped
  <2>1. inode \in [Sockets -> Sockets \cup {0}]
    BY DEF Init
  <2>2. path \in Sockets \cup {None} /\ live \subseteq Sockets /\ open \subseteq Sockets
    BY DEF Init
  <2>3. binds \in 0 .. MaxBinds
    BY StatsdAssumption DEF Init
  <2>4. steady \in BOOLEAN
    BY Zenon DEF Init
  <2> QED BY <2>1, <2>2, <2>3, <2>4, Zenon DEF AgentTyped
<1>2. ConnTyped
  BY DEF Init, ConnTyped, None
<1>3. BatchTyped
  BY EmptySeq DEF Init, BatchTyped
<1> QED BY <1>1, <1>2, <1>3 DEF Typed

\* The exporter, its socket and the file system are always in known states.
THEOREM TypeCorrect == Spec => []TypeOK
<1>1. Typed => TypeOK
  <2> SUFFICES ASSUME Typed PROVE TypeOK
    OBVIOUS
  <2>1. {lines, buffer, call} \subseteq Seq(Sizes)
    BY Zenon DEF Typed, BatchTyped
  <2>2. sent \in Seq(Seq(Sizes))
    BY DEF Typed, BatchTyped
  <2> QED BY <2>1, <2>2, Zenon DEF Typed, AgentTyped, ConnTyped, TypeOK
<1> QED BY <1>1, TypedInit, TypedNext, PTL DEF Spec

-----------------------------------------------------------------------------
(* ReachesThePath, where agents rename an open socket to the path.         *)

\* A socket at the path has been opened, and so has the one that was there when
\* the inode was stored; sockets that were bound have an inode.
Bound ==
    /\ open \subseteq 1 .. binds /\ live \subseteq 1 .. binds
    /\ path \in open \cup {None} /\ lastSocket \in open \cup {None}
    /\ \A s \in 1 .. binds : inode[s] # 0
    /\ lastInode = Inode(lastSocket)

\* The exporter is connected to the socket whose inode it stored, if that one is
\* still at the path and alive: the path does not return to a former socket.
Connected ==
    transport = "uds" /\ pc \notin {"building", "connecting", "reconnecting"} =>
        (path = lastSocket /\ Up => socket = path)

\* Agents keep this: a socket is opened once, and has its inode for good.
LEMMA AgentBound ==
  ASSUME ~InPlace, Typed, Bound, Connected, AgentStep
  PROVE  Bound' /\ Connected'
<1> USE DEF Bound, Connected, Unsteady, None, Up
<1>1. UNCHANGED <<transport, pc, lastInode, lastSocket, socket>>
  BY AgentType DEF connVars, inodeVars
<1>2. binds \in Nat /\ 0 \notin open /\ open \subseteq Sockets /\ live \subseteq Sockets
  BY DEF Typed, AgentTyped, Sockets
<1>3. CASE AgentBinds
  <2>1. /\ binds' = binds + 1 /\ live' = live \cup {binds'}
        /\ UNCHANGED <<path, open>>
    BY <1>3 DEF AgentBinds
  <2>2. PICK i \in {binds'} \cup FreedInodes : inode' = [inode EXCEPT ![binds'] = i]
    BY <1>3 DEF AgentBinds
  <2>3. i # 0
    BY <1>2, <2>1 DEF FreedInodes
  <2>4. \A s \in 1 .. binds : inode'[s] = inode[s]
    BY <1>2, <2>1, <2>2 DEF Typed, AgentTyped
  <2>5. binds' \in Sockets
    BY <1>2, <1>3, StatsdAssumption DEF AgentBinds, Sockets
  <2>6. inode'[binds'] # 0
    BY <2>2, <2>3, <2>5 DEF Typed, AgentTyped
  <2>7. \A s \in 1 .. binds' : inode'[s] # 0
    BY <1>2, <2>1, <2>4, <2>6
  <2>8. lastInode' = Inode(lastSocket)'
    BY <1>1, <2>4 DEF Inode
  <2>9. open' \subseteq 1 .. binds' /\ live' \subseteq 1 .. binds'
    BY <1>2, <2>1
  <2>10. Bound'
    BY <1>1, <2>1, <2>7, <2>8, <2>9
  <2>11. path \notin live => path \notin live' \/ path = None
    BY <1>2, <2>1
  <2> QED BY <1>1, <1>2, <2>1, <2>10, <2>11
<1>4. ASSUME NEW s \in Sockets, AgentOpens(s) PROVE Bound' /\ Connected'
  <2>1. /\ s \in live /\ s \notin open /\ open' = open \cup {s} /\ path' = s
        /\ UNCHANGED <<live, binds, inode>>
    BY <1>4 DEF AgentOpens
  <2>2. lastSocket # s
    BY <2>1 DEF Sockets
  <2> QED BY <1>1, <2>1, <2>2 DEF Inode
<1>5. ASSUME NEW s \in Sockets, AgentDies(s) PROVE Bound' /\ Connected'
  BY <1>1, <1>5 DEF AgentDies, Inode
<1>6. CASE Unlink
  BY <1>1, <1>2, <1>6 DEF Unlink, Inode
<1> QED BY <1>3, <1>4, <1>5, <1>6 DEF AgentStep

\* The exporter stores the inode of the path before it connects.
LEMMA ExporterBound ==
  ASSUME Typed, Bound, Connected, ExporterStep
  PROVE  Bound' /\ Connected'
<1> USE DEF Goto
<1>1. UNCHANGED agentVars
  BY DEF ExporterStep, BuildInode, BuildConnect, Export, PushLine, SendBuffer, ExportReturns,
         CheckInode, Reconnect, Send
<1>2. UNCHANGED <<path, live, open, binds, inode, transport>>
  BY <1>1 DEF agentVars, ExporterStep, BuildInode, BuildConnect, Export, PushLine, SendBuffer,
         ExportReturns, CheckInode, Reconnect, Send
<1>3. CASE StoreInode /\ pc' \in {"connecting", "reconnecting"}
  BY <1>2, <1>3 DEF StoreInode, Bound, Connected, Inode
<1>4. CASE ConnectUds /\ UNCHANGED inodeVars
  BY <1>2, <1>4 DEF ConnectUds, inodeVars, Bound, Connected, Up, Inode
<1>5. CASE /\ UNCHANGED connVars
           /\ pc \notin {"building", "connecting", "reconnecting"}
  BY <1>2, <1>5 DEF connVars, inodeVars, Bound, Connected, Up, Inode
<1> QED BY <1>3, <1>4, <1>5
        DEF ExporterStep, BuildInode, BuildConnect, Export, PushLine, SendBuffer, ExportReturns,
            CheckInode, Reconnect, Send, connVars

\* Every step keeps it.
LEMMA BoundNext ==
  ASSUME ~InPlace, Typed, Bound, Connected, [Next]_vars
  PROVE  Bound' /\ Connected'
<1>1. CASE UNCHANGED vars
  BY <1>1 DEF Bound, Connected, Up, Inode, vars, agentVars, connVars, inodeVars
<1> QED BY <1>1, AgentBound, ExporterBound DEF Next

\* A check that finds the inode it knows finds the socket it is connected to, or
\* one with the same inode.
LEMMA CheckFinds ==
  ASSUME Typed, Bound, Connected, transport = "uds", pc = "checking",
         ~Replaced(Inode(path)), Up
  PROVE  socket = path \/ Misled
<1>1. path \in 1 .. binds /\ path # None
  BY DEF Up, Bound, None
<1>2. Inode(path) # 0
  BY <1>1 DEF Inode, Bound
<1>3. Inode(path) = Inode(lastSocket)
  BY <1>2 DEF Replaced, Bound
<1> QED BY <1>3 DEF Connected, Misled

\* Every step keeps ReachesThePath.
LEMMA ReachesNext ==
  ASSUME Typed, Bound, Connected, ReachesThePath, [Next]_vars
  PROVE  ReachesThePath'
<1> USE DEF ReachesThePath, Goto
<1>1. CASE AgentStep
  BY <1>1 DEF AgentStep, AgentBinds, AgentOpens, AgentDies, Unlink, Unsteady
<1>2. CASE CheckInode
  <2> SUFFICES ASSUME transport' = "uds", pc' = "sending", Up' PROVE (socket = path \/ Misled)'
    OBVIOUS
  <2>1. ~Replaced(Inode(path)) /\ UNCHANGED inodeVars /\ pc = "checking"
    BY <1>2 DEF CheckInode
  <2>2. UNCHANGED <<path, live, open, inode, transport, socket, lastSocket>>
    BY <1>2, <2>1 DEF CheckInode, agentVars, inodeVars
  <2> QED BY <2>1, <2>2, CheckFinds DEF Up, Misled, Inode
<1>3. CASE Reconnect
  BY <1>3 DEF Reconnect, ConnectUds, Up, agentVars
<1>4. CASE BuildInode \/ BuildConnect \/ Export \/ PushLine \/ ExportReturns \/ Send
  BY <1>4 DEF BuildInode, BuildConnect, Export, PushLine, ExportReturns, Send
<1>5. CASE SendBuffer
  BY <1>5 DEF SendBuffer, Typed, ConnTyped
<1>6. CASE UNCHANGED vars
  BY <1>6 DEF vars, agentVars, connVars, inodeVars, Up, Misled, Inode
<1> QED BY <1>1, <1>2, <1>3, <1>4, <1>5, <1>6 DEF Next, ExporterStep

\* Where agents put a socket at the path only when it is open, a datagram is sent
\* to the socket at the path if that one may be connected to and nothing has
\* changed during the send, whatever came and went before; the exception is a
\* socket with the inode of the last one looked at.
THEOREM ReachesThePathHolds ==
  ASSUME ~InPlace
  PROVE  Spec => []ReachesThePath
<1>1. Init => Bound /\ Connected /\ ReachesThePath
  BY DEF Init, Bound, Connected, ReachesThePath, Up, Inode, None
<1>2. Typed /\ Bound /\ Connected /\ [Next]_vars => Bound' /\ Connected'
  BY BoundNext
<1>3. Typed /\ Bound /\ Connected /\ ReachesThePath /\ [Next]_vars => ReachesThePath'
  BY ReachesNext
<1> QED BY <1>1, <1>2, <1>3, TypedInit, TypedNext, PTL DEF Spec

-----------------------------------------------------------------------------
(* Batched: the lines of datagrams, and their lengths.                     *)

\* g joins some datagrams up.
Joins(g, ds) ==
    \A n \in Nat : g[n] = IF n \in DOMAIN ds THEN g[n - 1] \o ds[n] ELSE <<>>

\* There is a function that does, and LinesOf takes its value from one.
LEMMA LinesOfJoins ==
  ASSUME NEW S, NEW ds \in Seq(Seq(S))
  PROVE  \E g : Joins(g, ds) /\ LinesOf(ds) = g[Len(ds)]
<1> DEFINE T == Seq(S)
           Step(n, z) == IF n \in DOMAIN ds THEN z \o ds[n] ELSE <<>>
           g == [x \in Nat \X T |-> Step(x[1], x[2])]
<1>1. DOMAIN ds = 1 .. Len(ds) /\ Len(ds) \in Nat /\ \A n \in DOMAIN ds : ds[n] \in T
  BY LenProperties, ElementOfSeq
<1>2. <<>> \in T
  BY EmptySeq
<1>3. ASSUME NEW n \in Nat, NEW z \in T PROVE Step(n, z) \in T
  <2>1. CASE n \in DOMAIN ds
    <3>1. ds[n] \in T
      BY <1>1, <2>1
    <3>2. z \o ds[n] \in Seq(S)
      BY <3>1, ConcatProperties
    <3> QED BY <2>1, <3>2
  <2>2. CASE n \notin DOMAIN ds
    BY <1>2, <2>2
  <2> QED BY <2>1, <2>2
<1> HIDE DEF T
<1>4. g \in [Nat \X T -> T] /\ \A n \in Nat, z \in T : g[<<n, z>>] = Step(n, z)
  <2> HIDE DEF Step
  <2> QED BY <1>3
<1> HIDE DEF g
<1>5. PICK f : Recurs(f, T, <<>>, g)
  BY <1>2, <1>4, RecursionExists
<1>6. f \in [Nat -> T] /\ f[0] = <<>> /\ \A n \in Nat \ {0} : f[n] = Step(n, f[n - 1])
  <2> HIDE DEF Step
  <2>1. /\ f \in [Nat -> T] /\ f[0] = <<>>
        /\ \A n \in Nat \ {0} : f[n] = g[<<n, f[n - 1]>>]
    BY <1>5 DEF Recurs
  <2>2. \A n \in Nat \ {0} : n - 1 \in Nat /\ f[n - 1] \in T
    BY <2>1
  <2> QED BY <1>4, <2>1, <2>2
<1>7. \A n \in Nat : f[n] = Step(n, f[n - 1])
  <2>1. Step(0, f[0 - 1]) = <<>>
    BY <1>1
  <2> HIDE DEF Step
  <2> QED BY <1>6, <2>1
<1> DEFINE joined == CHOOSE h : h = [n \in Nat |-> Step(n, h[n - 1])]
<1>8. joined = [n \in Nat |-> Step(n, joined[n - 1])]
  <2> HIDE DEF Step
  <2>1. f = [n \in Nat |-> Step(n, f[n - 1])]
    BY <1>6, <1>7
  <2> QED BY <2>1
<1>9. LinesOf(ds) = joined[Len(ds)]
  BY DEF LinesOf
<1> HIDE DEF joined
<1>10. \A n \in Nat : joined[n] = Step(n, joined[n - 1])
  <2> HIDE DEF Step
  <2> QED BY <1>8
<1>11. Joins(joined, ds)
  BY <1>10 DEF Joins
<1> QED BY <1>9, <1>11

\* Such functions agree as far as the datagrams do.
LEMMA JoinsAgree ==
  ASSUME NEW S, NEW ds \in Seq(Seq(S)), NEW es \in Seq(Seq(S)), NEW L \in Nat,
         L <= Len(ds), L <= Len(es), \A n \in 1 .. L : ds[n] = es[n],
         NEW g, Joins(g, ds), NEW h, Joins(h, es)
  PROVE  \A n \in Nat : n <= L => g[n] = h[n] /\ g[n] \in Seq(S)
<1> DEFINE E == {n \in Nat : n <= L => g[n] = h[n] /\ g[n] \in Seq(S)}
<1>1. /\ DOMAIN ds = 1 .. Len(ds) /\ Len(ds) \in Nat
      /\ DOMAIN es = 1 .. Len(es) /\ Len(es) \in Nat
      /\ \A n \in 1 .. Len(ds) : ds[n] \in Seq(S)
  BY LenProperties, ElementOfSeq
<1>2. 0 \in E
  <2>1. g[0] = <<>> /\ h[0] = <<>>
    BY <1>1 DEF Joins
  <2>2. <<>> \in Seq(S)
    BY EmptySeq
  <2> QED BY <2>1, <2>2
<1>3. ASSUME NEW n \in Nat, n \in E PROVE n + 1 \in E
  <2> SUFFICES ASSUME n + 1 <= L PROVE g[n + 1] = h[n + 1] /\ g[n + 1] \in Seq(S)
    OBVIOUS
  <2>1. g[n] = h[n] /\ g[n] \in Seq(S)
    BY <1>3
  <2>2. n + 1 \in DOMAIN ds /\ n + 1 \in DOMAIN es /\ n + 1 \in 1 .. L /\ (n + 1) - 1 = n /\ n + 1 \in Nat
    BY <1>1
  <2>3. g[n + 1] = g[n] \o ds[n + 1] /\ h[n + 1] = h[n] \o es[n + 1]
    BY <2>2 DEF Joins
  <2>4. ds[n + 1] = es[n + 1] /\ ds[n + 1] \in Seq(S)
    BY <1>1, <2>2
  <2>5. g[n] \o ds[n + 1] \in Seq(S)
    BY <2>1, <2>4, ConcatProperties
  <2> QED BY <2>1, <2>3, <2>4, <2>5
<1> HIDE DEF E
<1>4. Nat \subseteq E
  BY <1>2, <1>3, NatSetInduction
<1> QED BY <1>4 DEF E

\* No datagrams have no lines; one datagram more, its lines at the end.
LEMMA LinesOfAppend ==
  ASSUME NEW S, NEW ds \in Seq(Seq(S)), NEW b \in Seq(S)
  PROVE  /\ LinesOf(ds) \in Seq(S) /\ LinesOf(<<>>) = <<>>
         /\ LinesOf(Append(ds, b)) = LinesOf(ds) \o b
<1> DEFINE es == Append(ds, b)
           L == Len(ds)
<1>1. /\ es \in Seq(Seq(S)) /\ L \in Nat /\ Len(es) = L + 1 /\ es[L + 1] = b
      /\ \A n \in 1 .. L : ds[n] = es[n]
  BY AppendProperties, LenProperties
<1>2. DOMAIN es = 1 .. L + 1
  BY <1>1, LenProperties
<1> HIDE DEF es
<1>3. PICK g : Joins(g, ds) /\ LinesOf(ds) = g[L]
  BY LinesOfJoins
<1>4. PICK h : Joins(h, es) /\ LinesOf(es) = h[L + 1]
  BY <1>1, LinesOfJoins
<1>5. g[L] = h[L] /\ g[L] \in Seq(S)
  <2>1. L <= Len(ds) /\ L <= Len(es)
    BY <1>1
  <2>2. \A n \in Nat : n <= L => g[n] = h[n] /\ g[n] \in Seq(S)
    BY <1>1, <1>3, <1>4, <2>1, JoinsAgree
  <2> QED BY <1>1, <2>2
<1>6. h[L + 1] = h[L] \o b
  <2>1. L + 1 \in DOMAIN es /\ L + 1 \in Nat /\ (L + 1) - 1 = L
    BY <1>1, <1>2
  <2> QED BY <1>1, <1>4, <2>1 DEF Joins
<1>7. LinesOf(<<>>) = <<>>
  <2>1. <<>> \in Seq(Seq(S)) /\ Len(<<>>) = 0
    BY EmptySeq
  <2>2. PICK e : Joins(e, <<>>) /\ LinesOf(<<>>) = e[0]
    BY <2>1, LinesOfJoins
  <2>3. 0 \notin DOMAIN <<>>
    OBVIOUS
  <2> QED BY <2>2, <2>3 DEF Joins
<1> QED BY <1>3, <1>4, <1>5, <1>6, <1>7 DEF es

\* A line more makes a buffer longer by it and a line break.
LEMMA LengthAppend ==
  ASSUME NEW b \in Seq(Sizes), NEW l \in Sizes
  PROVE  Length(b) \in Int /\ Length(Append(b, l)) = Length(b) + 1 + l
<1> DEFINE c == Append(b, l)
           L == Len(b)
           D == 1 .. L
           y == L + 1
<1>1. /\ L \in Nat /\ DOMAIN b = D /\ \A i \in D : b[i] \in Int
      /\ l \in Int
  <2>1. Sizes \subseteq Int
    BY StatsdAssumption
  <2>2. L \in Nat /\ DOMAIN b = D
    BY LenProperties
  <2>3. \A i \in D : b[i] \in Sizes
    BY ElementOfSeq
  <2> QED BY <2>1, <2>2, <2>3
<1>2. c \in Seq(Sizes) /\ Len(c) = L + 1 /\ c[y] = l /\ \A i \in D : c[i] = b[i]
  BY AppendProperties
<1>3. DOMAIN c = D \cup {y} /\ y \notin D
  <2>1. DOMAIN c = 1 .. L + 1
    BY <1>2, LenProperties
  <2> QED BY <1>1, <2>1
<1>4. IsFiniteSet(D)
  <2>1. 1 \in Int /\ L \in Int
    BY <1>1
  <2> QED BY <2>1, FS_Interval
<1>5. (\A i \in D : c[i] \in Int) /\ c[y] \in Int
  BY <1>1, <1>2
<1>6. Length(c) = SumOver(c, D \cup {y}) + L /\ Length(b) = SumOver(b, D) + (L - 1)
  BY <1>1, <1>2, <1>3 DEF Length
<1> HIDE DEF c, D, y
<1>7. SumOver(c, D \cup {y}) = SumOver(c, D) + c[y]
  BY <1>3, <1>4, <1>5, SumAdd
<1>8. SumOver(b, D) = SumOver(c, D) /\ SumOver(b, D) \in Int
  BY <1>1, <1>2, <1>4, SumSame, SumType
<1> QED BY <1>1, <1>2, <1>6, <1>7, <1>8 DEF c

-----------------------------------------------------------------------------
(* Batched: the inductive invariant.                                       *)

\* A datagram is no longer than it may be, or one line.
Fits(d) == d # <<>> /\ (Len(d) = 1 \/ Length(d) <= MaxBufferSize)

\* The line l would make d too long.
Full(d, l) == Length(d) + 1 + l > MaxBufferSize

\* Nothing is lost between the datagrams, the buffer and the lines to come.
InOrder == LinesOf(sent) \o (buffer \o lines) = call

\* Each datagram, and the buffer, begins with a line that had no place in the
\* datagram before it, and is otherwise within the limit.
Packed ==
    /\ buffer # <<>> => Fits(buffer)
    /\ \A k \in 1 .. Len(sent) : Fits(sent[k])
    /\ \A k \in 1 .. Len(sent) - 1 : Full(sent[k], Head(sent[k + 1]))
    /\ sent # <<>> /\ buffer # <<>> => Full(sent[Len(sent)], Head(buffer))
    /\ sent # <<>> /\ buffer = <<>> /\ lines # <<>> => Full(sent[Len(sent)], Head(lines))

\* A buffer is sent when it is full, or the last one; between exports there is
\* none.
InStep ==
    /\ pc \in {"checking", "reconnecting", "sending"} =>
          buffer # <<>> /\ (lines # <<>> => Full(buffer, Head(lines)))
    /\ pc \in {"building", "connecting", "idle"} =>
          lines = <<>> /\ buffer = <<>> /\ call = <<>> /\ sent = <<>>

BatchInv == InOrder /\ Packed /\ InStep

\* Three sequences of lines can be joined in either order.
EitherOrder(s, t, u) == (s \o t) \o u = s \o (t \o u)

LEMMA ThreeParts == \A s, t, u \in Seq(Sizes) : EitherOrder(s, t, u)
  BY ConcatAssociative DEF EitherOrder

\* The first line of one sequence moves to the end of another.
LEMMA FirstMoves ==
  \A s, t \in Seq(Sizes) : t # <<>> => Append(s, Head(t)) \o Tail(t) = s \o t
<1> SUFFICES ASSUME NEW s \in Seq(Sizes), NEW t \in Seq(Sizes), t # <<>>
             PROVE  Append(s, Head(t)) \o Tail(t) = s \o t
  OBVIOUS
<1> DEFINE h == <<Head(t)>>
           u == Tail(t)
<1>1. h \in Seq(Sizes) /\ u \in Seq(Sizes) /\ h \o u = t
  BY HeadTailProperties
<1>2. Append(s, Head(t)) = s \o h
  BY HeadTailProperties, AppendIsConcat
<1> HIDE DEF h, u
<1>3. (s \o h) \o u = s \o (h \o u)
  <2>1. EitherOrder(s, h, u)
    BY <1>1, ThreeParts
  <2> QED BY <2>1 DEF EitherOrder
<1> QED BY <1>1, <1>2, <1>3 DEF u

\* A line goes from the lines to come to the end of the buffer.
LEMMA PushBatched ==
  ASSUME BatchTyped, BatchInv, PushLine
  PROVE  BatchInv'
<1> DEFINE h == Head(lines)
           b == Append(buffer, h)
<1> USE DEF BatchTyped
<1>1. /\ pc = "filling" /\ pc' = pc /\ lines # <<>>
      /\ buffer = <<>> \/ ~Full(buffer, h)
      /\ buffer' = b /\ lines' = Tail(lines) /\ call' = call /\ sent' = sent
  BY DEF PushLine, TooLong, Full
<1>2. h \in Sizes
  BY <1>1, HeadTailProperties
<1>3. b \in Seq(Sizes) /\ b # <<>> /\ Len(b) = Len(buffer) + 1
  BY <1>2, AppendProperties
<1>4. Head(b) = IF buffer = <<>> THEN h ELSE Head(buffer)
  BY HeadTailAppend
<1> HIDE DEF h
<1>5. InOrder'
  <2>1. b \o Tail(lines) = buffer \o lines
    BY <1>1, FirstMoves DEF h
  <2> HIDE DEF b
  <2>3. buffer' \o lines' = buffer \o lines
    BY <1>1, <2>1
  <2> QED BY <1>1, <2>3 DEF InOrder, BatchInv
<1>6. Fits(b)
  <2>1. CASE buffer = <<>>
    <3>1. Len(b) = 1
      BY <1>3, <2>1, EmptySeq
    <3> QED BY <1>3, <3>1 DEF Fits
  <2>2. CASE ~Full(buffer, h)
    <3>1. Length(b) = Length(buffer) + 1 + h /\ Length(buffer) \in Int /\ h \in Int /\ MaxBufferSize \in Int
      BY <1>2, LengthAppend, StatsdAssumption
    <3>2. Length(b) <= MaxBufferSize
      BY <2>2, <3>1 DEF Full
    <3> QED BY <1>3, <3>2 DEF Fits
  <2> QED BY <1>1, <2>1, <2>2
<1> HIDE DEF b
<1>7. Packed'
  <2>1. sent # <<>> => Full(sent[Len(sent)], Head(b))
    BY <1>1, <1>4 DEF BatchInv, Packed, h
  <2> QED BY <1>1, <1>3, <1>6, <2>1 DEF BatchInv, Packed
<1>8. InStep'
  BY <1>1 DEF InStep
<1> QED BY <1>5, <1>7, <1>8 DEF BatchInv

\* The buffer becomes the last datagram.
LEMMA SendBatched ==
  ASSUME BatchTyped, BatchInv, Send
  PROVE  BatchInv'
<1> USE DEF BatchTyped
<1>1. /\ pc = "sending" /\ pc' = "filling" /\ sent' = Append(sent, buffer) /\ buffer' = <<>>
      /\ lines' = lines /\ call' = call
  BY DEF Send, Goto
<1> DEFINE L == Len(sent)
           ds == Append(sent, buffer)
<1>2. /\ L \in Nat /\ Len(ds) = L + 1 /\ ds[L + 1] = buffer
      /\ \A k \in 1 .. L : ds[k] = sent[k]
  BY AppendProperties, LenProperties
<1>3. sent = <<>> => L = 0
  BY EmptySeq
<1>4. LinesOf(ds) = LinesOf(sent) \o buffer /\ LinesOf(sent) \in Seq(Sizes)
  BY LinesOfAppend
<1> HIDE DEF ds
<1>5. InOrder'
  <2>1. (LinesOf(sent) \o buffer) \o lines = LinesOf(sent) \o (buffer \o lines)
    <3>1. LinesOf(sent) \in Seq(Sizes) /\ buffer \in Seq(Sizes) /\ lines \in Seq(Sizes)
      BY <1>4
    <3>2. EitherOrder(LinesOf(sent), buffer, lines)
      BY <3>1, ThreeParts
    <3> QED BY <3>2 DEF EitherOrder
  <2>2. <<>> \o lines = lines
    BY ConcatEmptySeq
  <2>3. LinesOf(ds) \o (<<>> \o lines) = call
    BY <1>4, <2>1, <2>2 DEF BatchInv, InOrder
  <2>4. sent' = ds
    BY <1>1 DEF ds
  <2> QED BY <1>1, <2>3, <2>4 DEF InOrder
<1>6. Packed'
  <2>1. buffer # <<>> /\ Fits(buffer) /\ (lines # <<>> => Full(buffer, Head(lines)))
    BY <1>1 DEF BatchInv, Packed, InStep
  <2>2. \A k \in 1 .. L : Fits(sent[k])
    BY DEF BatchInv, Packed
  <2>3. ASSUME NEW k \in 1 .. L + 1 PROVE Fits(ds[k])
    <3>1. k = L + 1 \/ k \in 1 .. L
      BY <1>2
    <3>2. CASE k = L + 1
      BY <1>2, <2>1, <3>2
    <3>3. CASE k \in 1 .. L
      BY <1>2, <2>2, <3>3
    <3> QED BY <3>1, <3>2, <3>3
  <2>4. ASSUME NEW k \in 1 .. L PROVE Full(ds[k], Head(ds[k + 1]))
    <3>1. CASE k = L
      <4>1. Full(sent[L], Head(buffer))
        BY <1>2, <1>3, <2>1 DEF BatchInv, Packed
      <4> QED BY <1>2, <3>1, <4>1
    <3>2. CASE k # L
      <4>1. k \in 1 .. L - 1 /\ k + 1 \in 1 .. L
        BY <1>2, <3>2
      <4>2. Full(sent[k], Head(sent[k + 1]))
        BY <4>1 DEF BatchInv, Packed
      <4> QED BY <1>2, <4>1, <4>2
    <3> QED BY <3>1, <3>2
  <2>5. sent' = ds /\ buffer' = <<>> /\ lines' = lines
    BY <1>1 DEF ds
  <2>6. (L + 1) - 1 = L
    BY <1>2
  <2> HIDE DEF L
  <2>7. lines # <<>> => Full(ds[Len(ds)], Head(lines))
    BY <1>2, <2>1
  <2> QED BY <1>2, <2>3, <2>4, <2>5, <2>6, <2>7 DEF Packed
<1>7. InStep'
  BY <1>1 DEF InStep
<1> QED BY <1>5, <1>6, <1>7 DEF BatchInv

\* Every step keeps it.
LEMMA BatchNext ==
  ASSUME Typed, BatchInv, [Next]_vars
  PROVE  BatchInv'
<1> USE DEF Goto
<1>1. CASE AgentStep \/ UNCHANGED vars
  <2>1. UNCHANGED <<pc, lines, buffer, call, sent>>
    BY <1>1, AgentType DEF vars, batchVars
  <2> QED BY <2>1 DEF BatchInv, InOrder, Packed, InStep
<1>2. CASE BuildInode \/ BuildConnect \/ CheckInode \/ Reconnect
  <2>1. UNCHANGED <<lines, buffer, call, sent>>
    BY <1>2 DEF BuildInode, BuildConnect, CheckInode, Reconnect, batchVars
  <2>2. InStep'
    BY <1>2, <2>1 DEF BuildInode, BuildConnect, CheckInode, Reconnect, BatchInv, InStep
  <2> QED BY <2>1, <2>2 DEF BatchInv, InOrder, Packed
<1>3. CASE Export
  <2>1. /\ pc = "idle" /\ pc' = "filling" /\ lines' = call' /\ buffer' = <<>> /\ sent' = <<>>
        /\ call' \in Seq(Sizes)
    BY <1>3, BatchType DEF Export, BatchInv, InStep, BatchTyped, ExporterStep
  <2>2. InOrder'
    <3>1. <<>> \o call' = call'
      BY <2>1, ConcatEmptySeq
    <3>2. LinesOf(<<>>) = <<>>
      BY LinesOfAppend, EmptySeq
    <3> QED BY <2>1, <3>1, <3>2 DEF InOrder
  <2>3. Packed'
    BY <2>1 DEF Packed
  <2> QED BY <2>1, <2>2, <2>3 DEF BatchInv, InStep
<1>4. CASE PushLine
  BY <1>4, PushBatched DEF Typed
<1>5. CASE SendBuffer
  <2>1. UNCHANGED <<lines, buffer, call, sent>> /\ pc = "filling" /\ pc' \in {"sending", "checking"}
        /\ buffer # <<>> /\ (lines # <<>> => Full(buffer, Head(lines)))
    BY <1>5 DEF SendBuffer, batchVars, TooLong, Full
  <2> QED BY <2>1 DEF BatchInv, InOrder, Packed, InStep
<1>6. CASE ExportReturns
  <2>1. pc' = "idle" /\ lines' = <<>> /\ buffer' = <<>> /\ call' = <<>> /\ sent' = <<>>
    BY <1>6 DEF ExportReturns
  <2>2. LinesOf(<<>>) = <<>>
    BY LinesOfAppend, EmptySeq
  <2>3. <<>> \o (<<>> \o <<>>) = <<>>
    BY ConcatEmptySeq, EmptySeq
  <2>4. InOrder'
    BY <2>1, <2>2, <2>3 DEF InOrder
  <2>5. Packed' /\ InStep'
    BY <2>1 DEF Packed, InStep
  <2> QED BY <2>4, <2>5 DEF BatchInv
<1>7. CASE Send
  BY <1>7, SendBatched DEF Typed
<1> QED BY <1>1, <1>2, <1>3, <1>4, <1>5, <1>6, <1>7 DEF Next, ExporterStep

\* Datagrams, buffer and lines to come are the lines of the export in order, for
\* any lines and any max_buffer_size; a datagram is within the limit unless it is
\* one line, and was sent only when the next line did not fit.
THEOREM BatchedHolds == Spec => []Batched
<1>1. Init => BatchInv
  <2> SUFFICES ASSUME Init PROVE BatchInv
    OBVIOUS
  <2>1. /\ lines = <<>> /\ buffer = <<>> /\ call = <<>> /\ sent = <<>>
        /\ pc \in {"building", "idle"}
    BY DEF Init
  <2>2. LinesOf(<<>>) = <<>>
    BY LinesOfAppend, EmptySeq
  <2>3. <<>> \o (<<>> \o <<>>) = <<>>
    BY ConcatEmptySeq, EmptySeq
  <2>4. InOrder
    BY <2>1, <2>2, <2>3 DEF InOrder
  <2>5. Packed /\ InStep
    BY <2>1 DEF Packed, InStep
  <2> QED BY <2>4, <2>5 DEF BatchInv
<1>2. Typed /\ BatchInv => Batched
  <2> SUFFICES ASSUME Typed, BatchInv PROVE Batched
    OBVIOUS
  <2> USE DEF Typed, BatchTyped
  <2>1. LinesOf(sent) \o buffer \o lines = call
    <3>1. LinesOf(sent) \in Seq(Sizes) /\ buffer \in Seq(Sizes) /\ lines \in Seq(Sizes)
      BY LinesOfAppend
    <3>2. (LinesOf(sent) \o buffer) \o lines = LinesOf(sent) \o (buffer \o lines)
      <4>1. EitherOrder(LinesOf(sent), buffer, lines)
        BY <3>1, ThreeParts
      <4> QED BY <4>1 DEF EitherOrder
    <3> QED BY <3>2 DEF BatchInv, InOrder
  <2>2. ASSUME NEW k \in 1 .. Len(sent)
        PROVE  /\ sent[k] # <<>>
               /\ Len(sent[k]) = 1 \/ Length(sent[k]) <= MaxBufferSize
               /\ k < Len(sent) => Length(sent[k]) + 1 + Head(sent[k + 1]) > MaxBufferSize
    <3>1. Fits(sent[k])
      BY DEF BatchInv, Packed
    <3>2. ASSUME k < Len(sent) PROVE Full(sent[k], Head(sent[k + 1]))
      <4>1. Len(sent) \in Nat
        BY LenProperties
      <4>2. k \in 1 .. Len(sent) - 1
        BY <3>2, <4>1
      <4> QED BY <4>2 DEF BatchInv, Packed
    <3> QED BY <3>1, <3>2 DEF Fits, Full
  <2> QED BY <2>1, <2>2 DEF Batched
<1>3. Typed /\ BatchInv /\ [Next]_vars => BatchInv'
  BY BatchNext
<1> QED BY <1>1, <1>2, <1>3, TypedInit, TypedNext, PTL DEF Spec
=============================================================================
