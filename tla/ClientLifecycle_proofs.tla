----------------------- MODULE ClientLifecycle_proofs -----------------------
(* Proofs about ClientLifecycle, for any number of threads and records and   *)
(* any choice of what the application and its exporters call.                *)
EXTENDS ClientLifecycle, TLAPS

-----------------------------------------------------------------------------
(* The parts of the inductive invariant.                                   *)

Stop == {"stopping", "joining", "stopped"}

\* Who got GLOBAL is registering or done, and only its map is ever used.
Racing ==
    \A t \in Threads :
        /\ pc[t] = "built" => inited[t] = "not tried"
        /\ inited[t] = "ok" <=> global = t /\ pc[t] # "registering"
        /\ pc[t] = "registering" => global = t
        /\ inited[t] = "ok" => registered
        /\ Accepted(t) # {} => global = t

\* A record is dropped, or with the client: in its map, in a batch, or exported.
Accounted ==
    \A i \in (1 .. nrecords) \ dropped :
        global \in Threads /\ i \in Accepted(global)

\* The flag lets one caller through.
OneStops ==
    /\ ~shutdownCalled => \A t \in Threads : covered[t] = {} /\ pc[t] \notin Stop
    /\ \A t \in Threads : pc[t] = "joining" => global \in Threads
    /\ \A t, u \in Threads :
          pc[t] = "stopping" => covered[u] = {} /\ (pc[u] = "stopping" => u = t)

\* What a shutdown() covers is in the batch of the last pass, or was exported before
\* it, unless a panic prevents it; nobody goes on before the worker has ended.
Covered ==
    \A t \in Threads : covered[t] # {} =>
        /\ global \in Threads
        /\ covered[t] \subseteq Accepted(global)
        /\ worker[global] = "last" => covered[t] \subseteq batch[global] \cup exported[global]
        /\ worker[global] = "ended" => covered[t] \subseteq exported[global]
        /\ pc[t] = "joining" \/ worker[global] \in {"ended", "panicked"}

\* What exit has to export is with a client whose handler is registered; while
\* nobody else asks for it, only Main shuts down, inside exit.
Owed ==
    owed # {} =>
        /\ registered /\ process # "running" /\ global \in Threads
        /\ owed \subseteq Accepted(global)

MainAlone ==
    ~asked =>
        /\ \A t \in Threads \ {Main} : pc[t] \notin Stop
        /\ pc[Main] \in Stop => process # "running"
        /\ shutdownCalled => pc[Main] \in Stop
        /\ owed # {} =>
              /\ worker[global] = "last" => owed \subseteq batch[global] \cup exported[global]
              /\ worker[global] = "ended" => owed \subseteq exported[global]
              /\ pc[Main] = "stopped" => worker[global] \in {"ended", "panicked"}
              /\ process = "dead" => pc[Main] = "stopped"

\* A thread that has built no client has no worker; no worker is notified before the
\* flag is taken, and none makes its last pass before it is notified.
Workers ==
    /\ \A t \in Threads :
          /\ inited[t] = "not tried" /\ pc[t] \notin {"built", "registering"} => worker[t] = "none"
          /\ worker[t] \in {"last", "ended"} => notified[t]
    /\ ~shutdownCalled \/ (\E t \in Threads : pc[t] = "stopping") =>
          \A c \in Threads : ~notified[c]

\* What a client has accepted has been recorded, and not dropped.
Recorded ==
    /\ \A c \in Threads : Accepted(c) \subseteq (1 .. nrecords) \ dropped
    /\ dropped \subseteq 1 .. nrecords

IInv == TypeOK /\ Racing /\ Accounted /\ OneStops /\ Covered /\ Owed /\ MainAlone
        /\ Workers /\ Recorded

-----------------------------------------------------------------------------
\* What the initial state has.
LEMMA InvInit == Init => IInv
<1> SUFFICES ASSUME Init PROVE IInv
  OBVIOUS
<1>1. TypeOK
  <2>1. {} \in SUBSET Records /\ 0 \in 0 .. MaxRecords
    BY LifecycleAssumption
  <2>2. /\ pending \in [Threads -> SUBSET Records]
        /\ batch \in [Threads -> SUBSET Records]
        /\ exported \in [Threads -> SUBSET Records]
        /\ covered \in [Threads -> SUBSET Records]
    BY <2>1 DEF Init
  <2> QED BY <2>1, <2>2 DEF Init, TypeOK, Unset
<1>2. Racing /\ OneStops /\ Covered
  BY LifecycleAssumption DEF Init, Racing, OneStops, Covered, Stop, Unset, Accepted
<1>3. Accounted
  <2>1. nrecords = 0
    BY DEF Init
  <2>2. 1 .. nrecords = {}
    BY <2>1
  <2> QED BY <2>2 DEF Accounted
<1>4. Owed /\ MainAlone
  BY LifecycleAssumption DEF Init, Owed, MainAlone, Stop
<1>5. Workers /\ Recorded
  BY DEF Init, Workers, Recorded, Accepted
<1> QED BY <1>1, <1>2, <1>3, <1>4, <1>5 DEF IInv

\* The bounded counter of records, and the set of those made so far.
LEMMA RecordsMade ==
  ASSUME TypeOK
  PROVE  /\ 1 .. nrecords \subseteq Records
         /\ nrecords < MaxRecords =>
               nrecords + 1 \in 0 .. MaxRecords /\ nrecords + 1 \in Records
<1>1. MaxRecords \in Nat /\ nrecords \in 0 .. MaxRecords
  BY LifecycleAssumption DEF TypeOK
<1> QED BY <1>1 DEF Records

\* Every step keeps the state well-formed.
LEMMA TypeStep == TypeOK /\ [Next]_vars => TypeOK'
<1> SUFFICES ASSUME TypeOK, [Next]_vars PROVE TypeOK'
  OBVIOUS
<1>0. /\ pending \in [Threads -> SUBSET Records]
      /\ batch \in [Threads -> SUBSET Records]
      /\ exported \in [Threads -> SUBSET Records]
      /\ covered \in [Threads -> SUBSET Records]
  BY DEF TypeOK
<1>1. ASSUME NEW t \in Threads, InitStep(t) PROVE TypeOK'
  <2>1. /\ global' \in Threads \cup {Unset} /\ registered' \in BOOLEAN
        /\ inited' \in [Threads -> {"not tried", "ok", "failed"}]
    BY <1>1 DEF TypeOK, InitStep, BuildInner, SetGlobal, RegisterAtexit
  <2>2. pc' \in [Threads -> {"app", "built", "registering", "stopping", "joining", "stopped"}]
        /\ worker' \in [Threads -> {"none", "running", "last", "ended", "panicked", "stuck"}]
    BY <1>1 DEF TypeOK, InitStep, BuildInner, SetGlobal, RegisterAtexit, Goto
  <2>3. UNCHANGED <<shutdownCalled, clientVars, process, historyVars>>
    BY <1>1 DEF InitStep, BuildInner, SetGlobal, RegisterAtexit
  <2> QED BY <1>0, <2>1, <2>2, <2>3 DEF TypeOK, historyVars, clientVars
<1>2. ASSUME NEW t \in Threads, Record(t) PROVE TypeOK'
  <2>1. nrecords' \in 0 .. MaxRecords /\ nrecords' \in Records
    BY <1>2, RecordsMade DEF Record
  <2>2. pending' \in [Threads -> SUBSET Records] /\ dropped' \subseteq Records
    <3>1. CASE global = Unset
      BY <1>0, <1>2, <2>1, <3>1 DEF TypeOK, Record
    <3>2. CASE global # Unset
      <4>1. pending' = [pending EXCEPT ![global] = pending[global] \cup {nrecords'}]
            /\ global \in Threads /\ dropped' = dropped
        BY <1>2, <3>2 DEF TypeOK, Record
      <4>2. pending[global] \cup {nrecords'} \in SUBSET Records
        BY <1>0, <2>1, <4>1
      <4> QED BY <1>0, <4>1, <4>2 DEF TypeOK
    <3> QED BY <3>1, <3>2
  <2>3. UNCHANGED <<global, shutdownCalled, registered, pc, inited, worker, notified, batch,
                    exported, process, covered, asked, owed>>
    BY <1>2 DEF Record
  <2> QED BY <1>0, <2>1, <2>2, <2>3 DEF TypeOK
<1>3. ASSUME NEW t \in Threads, CallShutdown(t) PROVE TypeOK'
  BY <1>3 DEF TypeOK, CallShutdown, Shutdown, Goto, Others
<1>4. ASSUME NEW t \in Threads, StopStep(t) PROVE TypeOK'
  <2>1. (1 .. nrecords) \ dropped \subseteq Records
    BY RecordsMade
  <2>2. covered' \in [Threads -> SUBSET Records]
    BY <1>0, <1>4, <2>1 DEF StopStep, NotifyWorker, JoinWorker, ShutdownReturns
  <2>3. pc' \in [Threads -> {"app", "built", "registering", "stopping", "joining", "stopped"}]
        /\ notified' \in [Threads -> BOOLEAN]
    BY <1>4 DEF TypeOK, StopStep, NotifyWorker, JoinWorker, ShutdownReturns, Goto, AfterNotify
  <2>4. UNCHANGED <<Others, global, shutdownCalled, worker, process, asked, owed>>
    BY <1>4 DEF StopStep, NotifyWorker, JoinWorker, ShutdownReturns
  <2> QED BY <1>0, <2>2, <2>3, <2>4 DEF TypeOK, Others
<1>5. ASSUME NEW c \in Threads, WorkerStep(c) PROVE TypeOK'
  <2>1. /\ pending' \in [Threads -> SUBSET Records]
        /\ batch' \in [Threads -> SUBSET Records]
        /\ exported' \in [Threads -> SUBSET Records]
    BY <1>0, <1>5 DEF WorkerStep, WorkerPass, WorkerLastPass, LastPass, Flush, PassDone,
                      ExporterPanics, ExporterShutdown, Others
  <2>2. worker' \in [Threads -> {"none", "running", "last", "ended", "panicked", "stuck"}]
    <3>1. CASE WorkerPass(c) \/ WorkerLastPass(c) \/ ExporterPanics(c) \/ ExporterShutdown(c)
      BY <3>1 DEF TypeOK, WorkerPass, WorkerLastPass, ExporterPanics, ExporterShutdown
    <3>2. CASE PassDone(c)
      BY <3>2 DEF TypeOK, PassDone
    <3> QED BY <1>5, <3>1, <3>2 DEF WorkerStep
  <2>3. shutdownCalled' \in BOOLEAN /\ asked' \in BOOLEAN
    BY <1>5 DEF TypeOK, WorkerStep, WorkerPass, WorkerLastPass, PassDone, ExporterPanics,
                ExporterShutdown, WorkerFree, historyVars
  <2>4. UNCHANGED <<global, registered, pc, inited, notified, process, nrecords, dropped,
                    covered, owed>>
    BY <1>5 DEF WorkerStep, WorkerPass, WorkerLastPass, PassDone, ExporterPanics,
                ExporterShutdown, WorkerFree, historyVars, Others
  <2> QED BY <1>0, <2>1, <2>2, <2>3, <2>4 DEF TypeOK
<1>6. CASE Exit
  <2>1. owed' \subseteq Records
    BY <1>6, RecordsMade DEF Exit
  <2> QED BY <1>0, <1>6, <2>1 DEF TypeOK, Exit, Others
<1>7. CASE AtexitHandler \/ Die
  BY <1>0, <1>7, LifecycleAssumption DEF TypeOK, AtexitHandler, Die, Shutdown, Goto, Others
<1>8. CASE UNCHANGED vars
  BY <1>8 DEF TypeOK, vars, clientVars
<1> QED BY <1>1, <1>2, <1>3, <1>4, <1>5, <1>6, <1>7, <1>8 DEF Next

-----------------------------------------------------------------------------
(* One lemma per action.                                                   *)

\* try_init touches no map, no flag and nobody in shutdown().
LEMMA InitInv ==
  ASSUME IInv, NEW t \in Threads, InitStep(t)
  PROVE  Racing' /\ Accounted' /\ OneStops' /\ Covered' /\ Owed' /\ MainAlone'
<1> USE DEF IInv
<1>0. /\ UNCHANGED <<shutdownCalled, notified, pending, batch, exported, process, historyVars>>
      /\ registered => registered'
      /\ \A u \in Threads \ {t} : pc'[u] = pc[u] /\ inited'[u] = inited[u] /\ worker'[u] = worker[u]
      /\ pc[t] \notin Stop /\ pc'[t] \notin Stop
  BY DEF InitStep, BuildInner, SetGlobal, RegisterAtexit, Goto, TypeOK, Stop, InApp, clientVars
<1>1. global \in Threads => global' = global /\ worker'[global] = worker[global]
  <2>1. CASE BuildInner(t)
    <3>1. UNCHANGED global /\ pc[t] = "app" /\ inited[t] = "not tried"
      BY <2>1 DEF BuildInner, InApp
    <3>2. global # t
      BY <3>1 DEF Racing
    <3> QED BY <1>0, <3>1, <3>2
  <2>2. CASE SetGlobal(t)
    BY <2>2, LifecycleAssumption DEF SetGlobal, First, Unset
  <2>3. CASE RegisterAtexit(t)
    BY <2>3 DEF RegisterAtexit
  <2> QED BY <2>1, <2>2, <2>3 DEF InitStep
<1>2. Racing'
  <2>0. \A u \in Threads : Accepted(u)' = Accepted(u)
    BY <1>0 DEF Accepted
  <2>1. CASE BuildInner(t)
    BY <2>0, <2>1 DEF BuildInner, Goto, InApp, TypeOK, Racing
  <2>2. CASE SetGlobal(t) /\ First
    <3>1. /\ pc[t] = "built" /\ pc' = [pc EXCEPT ![t] = "registering"]
          /\ global = Unset /\ global' = t
          /\ UNCHANGED <<inited, registered>>
      BY <2>2 DEF SetGlobal, First, Goto
    <3>2. \A u \in Threads : global # u
      BY <3>1, LifecycleAssumption DEF Unset
    <3> QED BY <2>0, <3>1, <3>2 DEF TypeOK, Racing
  <2>3. CASE SetGlobal(t) /\ ~First
    <3>1. /\ pc[t] = "built" /\ pc' = [pc EXCEPT ![t] = "app"]
          /\ inited' = [inited EXCEPT ![t] = "failed"]
          /\ UNCHANGED <<global, registered>>
      BY <2>3 DEF SetGlobal, Goto
    <3> QED BY <2>0, <3>1 DEF TypeOK, Racing
  <2>4. CASE RegisterAtexit(t)
    BY <2>0, <2>4 DEF RegisterAtexit, Goto, TypeOK, Racing
  <2> QED BY <2>1, <2>2, <2>3, <2>4 DEF InitStep
<1>3. Accounted'
  BY <1>0, <1>1 DEF Accounted, Accepted, historyVars
<1>4. OneStops'
  BY <1>0, <1>1 DEF OneStops, Stop, historyVars
<1>5. Covered'
  BY <1>0, <1>1 DEF Covered, Accepted, Stop, historyVars
<1>6. Owed'
  BY <1>0, <1>1 DEF Owed, Accepted, historyVars
<1>7. MainAlone'
  <2>1. pc'[Main] \in Stop <=> pc[Main] \in Stop
    BY <1>0, LifecycleAssumption
  <2>2. pc'[Main] = "stopped" <=> pc[Main] = "stopped"
    BY <1>0, LifecycleAssumption DEF Stop
  <2>3. UNCHANGED <<shutdownCalled, batch, exported, process, asked, owed>>
    BY <1>0 DEF historyVars
  <2>4. \A u \in Threads : pc'[u] \in Stop <=> pc[u] \in Stop
    BY <1>0
  <2>5. owed # {} => worker'[global'] = worker[global] /\ global' = global
    BY <1>1 DEF Owed
  <2> QED BY <2>1, <2>2, <2>3, <2>4, <2>5 DEF MainAlone
<1> QED BY <1>2, <1>3, <1>4, <1>5, <1>6, <1>7

\* A record call adds to the map of the client, or is dropped.
LEMMA RecordInv ==
  ASSUME IInv, NEW t \in Threads, Record(t)
  PROVE  Racing' /\ Accounted' /\ OneStops' /\ Covered' /\ Owed' /\ MainAlone'
<1> USE DEF IInv
<1>0. UNCHANGED <<global, shutdownCalled, registered, pc, inited, worker, notified, batch, exported,
                  process, covered, asked, owed>>
  BY DEF Record
<1>1. \A u \in Threads : pending[u] \subseteq pending'[u]
                         /\ (pending'[u] # pending[u] => u = global)
  <2>1. pending \in [Threads -> SUBSET Records]
    BY DEF TypeOK
  <2>2. CASE global = Unset
    BY <2>2 DEF Record
  <2>3. CASE global # Unset
    <3>1. pending' = [pending EXCEPT ![global] = pending[global] \cup {nrecords'}]
      BY <2>3 DEF Record
    <3> QED BY <2>1, <3>1
  <2> QED BY <2>2, <2>3
<1>2. Racing'
  BY <1>0, <1>1 DEF Racing, Accepted
<1>3. Accounted'
  <2>1. nrecords \in Nat /\ nrecords' = nrecords + 1
    <3>1. nrecords \in 0 .. MaxRecords /\ MaxRecords \in Nat
      BY LifecycleAssumption DEF TypeOK
    <3> QED BY <3>1 DEF Record
  <2>2. 1 .. nrecords' = (1 .. nrecords) \cup {nrecords'}
    BY <2>1
  <2>3. \/ nrecords' \in dropped'
        \/ global \in Threads /\ nrecords' \in pending'[global]
    <3>1. CASE global = Unset
      <4>1. dropped' = dropped \cup {nrecords'}
        BY <3>1 DEF Record
      <4> QED BY <4>1
    <3>2. CASE global # Unset
      <4>1. global \in Threads /\ pending \in [Threads -> SUBSET Records]
        BY <3>2 DEF TypeOK
      <4>2. pending' = [pending EXCEPT ![global] = pending[global] \cup {nrecords'}]
        BY <3>2 DEF Record
      <4> QED BY <4>1, <4>2
    <3> QED BY <3>1, <3>2
  <2>4. dropped \subseteq dropped'
    BY DEF Record
  <2> QED BY <1>0, <1>1, <2>2, <2>3, <2>4 DEF Accounted, Accepted
<1>4. OneStops' /\ Covered' /\ Owed' /\ MainAlone'
  <2>1. \A u \in Threads : Accepted(u) \subseteq Accepted(u)'
    BY <1>0, <1>1 DEF Accepted
  <2> QED BY <1>0, <2>1 DEF OneStops, Covered, Owed, MainAlone
<1> QED BY <1>2, <1>3, <1>4

\* shutdown() begins.
LEMMA CallInv ==
  ASSUME IInv, NEW t \in Threads, CallShutdown(t)
  PROVE  Racing' /\ Accounted' /\ OneStops' /\ Covered' /\ Owed' /\ MainAlone'
<1> USE DEF IInv
<1>1. /\ pc[t] = "app" /\ pc' = [pc EXCEPT ![t] = IF shutdownCalled THEN "app" ELSE "stopping"]
      /\ shutdownCalled' /\ asked'
      /\ UNCHANGED <<Others, global, worker, notified, process, covered, owed>>
  BY DEF CallShutdown, Shutdown, Goto
<1>0. \A u \in Threads : Accepted(u)' = Accepted(u)
  BY <1>1 DEF Accepted, Others
<1>2. Racing'
  BY <1>0, <1>1 DEF Racing, Others, TypeOK
<1>3. Accounted' /\ Owed' /\ MainAlone'
  BY <1>0, <1>1 DEF Accounted, Owed, MainAlone, Others
<1>4. pc \in [Threads -> {"app", "built", "registering", "stopping", "joining", "stopped"}]
  BY DEF TypeOK
<1>5. OneStops'
  BY <1>1, <1>4 DEF OneStops, Others, Stop
<1>6. Covered'
  BY <1>0, <1>1, <1>4 DEF Covered, Others
<1> QED BY <1>2, <1>3, <1>5, <1>6

\* The one that has the flag notifies, joins and returns.
LEMMA StopInv ==
  ASSUME IInv, NEW t \in Threads, StopStep(t)
  PROVE  Racing' /\ Accounted' /\ OneStops' /\ Covered' /\ Owed' /\ MainAlone'
<1> USE DEF IInv
<1>0. \A u \in Threads : Accepted(u)' = Accepted(u)
  <2>1. UNCHANGED Others
    BY DEF StopStep, NotifyWorker, JoinWorker, ShutdownReturns
  <2> QED BY <2>1 DEF Accepted, Others
<1>1. CASE NotifyWorker(t) /\ global = Unset
  <2>1. /\ pc[t] = "stopping" /\ pc' = [pc EXCEPT ![t] = "stopped"] /\ process # "dead"
        /\ UNCHANGED <<Others, global, shutdownCalled, worker, notified, covered, process, asked, owed>>
    BY <1>1 DEF NotifyWorker, Goto
  <2>2. Racing' /\ Accounted' /\ Owed'
    BY <1>0, <2>1 DEF Racing, Accounted, Owed, Others, TypeOK
  <2>3. OneStops' /\ Covered'
    BY <1>0, <2>1 DEF OneStops, Covered, Others, TypeOK, Stop
  <2>4. MainAlone'
    BY <1>1, <2>1, LifecycleAssumption DEF MainAlone, Owed, Others, TypeOK, Stop, Unset
  <2> QED BY <2>2, <2>3, <2>4
<1>2. CASE NotifyWorker(t) /\ global # Unset
  <2>1. /\ pc[t] = "stopping" /\ pc' = [pc EXCEPT ![t] = "joining"] /\ process # "dead"
        /\ global \in Threads /\ notified' = [notified EXCEPT ![global] = TRUE]
        /\ covered' = [covered EXCEPT ![t] = (1 .. nrecords) \ dropped]
        /\ UNCHANGED <<Others, global, shutdownCalled, worker, process, asked, owed>>
    BY <1>2 DEF NotifyWorker, Goto, AfterNotify, TypeOK
  <2>2. Racing' /\ Accounted' /\ Owed'
    BY <1>0, <2>1 DEF Racing, Accounted, Owed, Others, TypeOK
  <2>3. OneStops'
    BY <2>1 DEF OneStops, Others, TypeOK, Stop
  <2>5. worker[global] \notin {"last", "ended"}
    BY <2>1 DEF Workers
  <2>6. Covered'
    <3>1. (1 .. nrecords) \ dropped \subseteq Accepted(global)
      BY DEF Accounted
    <3>2. \A u \in Threads : covered[u] = {}
      BY <2>1 DEF OneStops
    <3>3. covered'[t] = (1 .. nrecords) \ dropped /\ \A u \in Threads \ {t} : covered'[u] = {}
      BY <2>1, <3>2 DEF TypeOK
    <3>4. pc'[t] = "joining"
      BY <2>1 DEF TypeOK
    <3> QED BY <1>0, <2>1, <2>5, <3>1, <3>3, <3>4 DEF Covered
  <2>4. MainAlone'
    BY <2>1, LifecycleAssumption DEF MainAlone, Others, TypeOK, Stop
  <2> QED BY <2>2, <2>3, <2>4, <2>6
<1>3. CASE JoinWorker(t)
  <2>1. /\ pc[t] = "joining" /\ pc' = [pc EXCEPT ![t] = "stopped"] /\ process # "dead"
        /\ global \in Threads /\ worker[global] \in {"ended", "panicked"}
        /\ UNCHANGED <<Others, global, shutdownCalled, worker, notified, covered, process, asked, owed>>
    BY <1>3 DEF JoinWorker, Goto, Joined, OneStops
  <2>2. Racing' /\ Accounted' /\ Owed'
    BY <1>0, <2>1 DEF Racing, Accounted, Owed, Others, TypeOK
  <2>5. \A u \in Threads : pc'[u] = IF u = t THEN "stopped" ELSE pc[u]
    BY <2>1 DEF TypeOK
  <2>6. OneStops'
    BY <2>1, <2>5 DEF OneStops, Others, Stop
  <2>7. Covered'
    <3>1. UNCHANGED <<global, worker, batch, exported, covered>>
      BY <2>1 DEF Others
    <3> QED BY <1>0, <2>1, <2>5, <3>1 DEF Covered
  <2>3. OneStops' /\ Covered'
    BY <2>6, <2>7
  <2>4. MainAlone'
    BY <2>1, LifecycleAssumption DEF MainAlone, Others, TypeOK, Stop
  <2> QED BY <2>2, <2>3, <2>4
<1>4. CASE ShutdownReturns(t)
  <2>1. /\ pc[t] = "stopped" /\ pc' = [pc EXCEPT ![t] = "app"] /\ process # "dead"
        /\ ~(t = Main /\ process = "exiting")
        /\ UNCHANGED <<Others, global, shutdownCalled, worker, notified, covered, process, asked, owed>>
    BY <1>4 DEF ShutdownReturns, Goto, InExit
  <2>2. Racing' /\ Accounted' /\ Owed'
    BY <1>0, <2>1 DEF Racing, Accounted, Owed, Others, TypeOK
  <2>3. OneStops'
    BY <2>1 DEF OneStops, Others, TypeOK, Stop
  <2>6. Covered'
    BY <1>0, <2>1 DEF Covered, Others, TypeOK
  <2>4. asked
    BY <2>1 DEF MainAlone, TypeOK, Stop
  <2>5. MainAlone'
    BY <2>1, <2>4 DEF MainAlone
  <2> QED BY <2>2, <2>3, <2>5, <2>6
<1> QED BY <1>1, <1>2, <1>3, <1>4 DEF StopStep

\* What a step of a worker does to the records: none leaves its client.
LEMMA WorkerMoves ==
  ASSUME TypeOK, NEW c \in Threads, WorkerStep(c)
  PROVE  /\ UNCHANGED <<global, registered, pc, inited, notified, process, nrecords, dropped,
                       covered, owed>>
         /\ \A u \in Threads : Accepted(u)' = Accepted(u) /\ exported[u] \subseteq exported'[u]
         /\ \A u \in Threads \ {c} : /\ worker'[u] = worker[u]
                                    /\ batch'[u] = batch[u] /\ exported'[u] = exported[u]
<1>1. UNCHANGED <<global, registered, pc, inited, notified, process, nrecords, dropped,
                  covered, owed>>
  BY DEF WorkerStep, WorkerPass, WorkerLastPass, PassDone, ExporterPanics, ExporterShutdown,
         WorkerFree, historyVars, Others
<1>2. \A u \in Threads \ {c} : worker'[u] = worker[u]
  BY DEF WorkerStep, WorkerPass, WorkerLastPass, PassDone, ExporterPanics, ExporterShutdown, TypeOK
<1>3. CASE WorkerPass(c) \/ WorkerLastPass(c)
  <2>1. /\ batch[c] = {} /\ UNCHANGED exported
        /\ batch' = [batch EXCEPT ![c] = pending[c]]
        /\ pending' = [pending EXCEPT ![c] = {}]
    BY <1>3 DEF WorkerPass, WorkerLastPass, LastPass, Flush
  <2> QED BY <1>1, <1>2, <2>1 DEF TypeOK, Accepted
<1>4. CASE PassDone(c)
  <2>1. /\ exported' = [exported EXCEPT ![c] = exported[c] \cup batch[c]] /\ UNCHANGED pending
        /\ batch' = [batch EXCEPT ![c] = {}]
    BY <1>4 DEF PassDone
  <2> QED BY <1>1, <1>2, <2>1 DEF TypeOK, Accepted
<1>5. CASE ExporterPanics(c) \/ ExporterShutdown(c)
  <2>1. UNCHANGED <<pending, batch, exported>>
    BY <1>5 DEF ExporterPanics, ExporterShutdown, Others
  <2> QED BY <1>1, <1>2, <2>1 DEF Accepted
<1> QED BY <1>3, <1>4, <1>5 DEF WorkerStep

\* A pass of the worker, the last one and one in which an exporter panics or shuts down.
LEMMA WorkerInv ==
  ASSUME IInv, NEW c \in Threads, WorkerStep(c)
  PROVE  Racing' /\ Accounted' /\ OneStops' /\ Covered' /\ Owed' /\ MainAlone'
<1> USE DEF IInv
<1>0. /\ UNCHANGED <<global, registered, pc, inited, notified, process, nrecords, dropped,
                    covered, owed>>
      /\ \A u \in Threads : Accepted(u)' = Accepted(u) /\ exported[u] \subseteq exported'[u]
      /\ \A u \in Threads \ {c} : /\ worker'[u] = worker[u]
                                 /\ batch'[u] = batch[u] /\ exported'[u] = exported[u]
  BY WorkerMoves
<1>1. Racing' /\ Accounted' /\ Owed'
  BY <1>0 DEF Racing, Accounted, Owed
\* How far the worker is with what it owes: nothing that is covered stays behind.
<1>2. ASSUME ~ExporterShutdown(c)
      PROVE  /\ UNCHANGED <<shutdownCalled, asked>>
             /\ worker[c] \notin {"ended", "panicked"}
             /\ \/ worker'[c] = "last" /\ batch'[c] \cup exported'[c] = Accepted(c)
                \/ worker'[c] = "ended" /\ worker[c] = "last"
                                       /\ exported'[c] = batch[c] \cup exported[c]
                \/ worker'[c] \in {"running", "panicked"}
  <2>1. CASE WorkerPass(c)
    BY <2>1 DEF WorkerPass, WorkerFree, historyVars
  <2>2. CASE WorkerLastPass(c)
    <3>1. /\ worker' = [worker EXCEPT ![c] = "last"] /\ worker[c] = "running"
          /\ batch' = [batch EXCEPT ![c] = pending[c]] /\ batch[c] = {}
          /\ UNCHANGED <<exported, shutdownCalled, asked>>
      BY <2>2 DEF WorkerLastPass, LastPass, Flush, WorkerFree, historyVars
    <3> QED BY <3>1 DEF TypeOK, Accepted
  <2>3. CASE PassDone(c)
    <3>1. /\ worker' = [worker EXCEPT ![c] = IF worker[c] = "last" THEN "ended" ELSE worker[c]]
          /\ worker[c] \in {"last", "running"}
          /\ exported' = [exported EXCEPT ![c] = exported[c] \cup batch[c]]
          /\ UNCHANGED <<shutdownCalled, asked>>
      BY <2>3 DEF PassDone, WorkerFree, historyVars
    <3> QED BY <3>1 DEF TypeOK
  <2>4. CASE ExporterPanics(c)
    BY <2>4 DEF TypeOK, ExporterPanics, WorkerFree, historyVars
  <2> QED BY <1>2, <2>1, <2>2, <2>3, <2>4 DEF WorkerStep
<1>3. CASE ~ExporterShutdown(c)
  <2>1. OneStops'
    BY <1>0, <1>2, <1>3 DEF OneStops
  <2>2. Covered'
    BY <1>0, <1>2, <1>3 DEF Covered
  <2>3. MainAlone'
    BY <1>0, <1>2, <1>3 DEF MainAlone, Owed
  <2> QED BY <1>1, <2>1, <2>2, <2>3
<1>4. CASE ExporterShutdown(c)
  <2>1. ~shutdownCalled /\ shutdownCalled' /\ asked'
    BY <1>4 DEF ExporterShutdown
  <2> QED BY <1>0, <1>1, <2>1 DEF OneStops, Covered, MainAlone, Stop
<1> QED BY <1>3, <1>4

\* exit, its handler, and the end of the process.
LEMMA ExitInv ==
  ASSUME IInv, Exit \/ AtexitHandler \/ Die
  PROVE  Racing' /\ Accounted' /\ OneStops' /\ Covered' /\ Owed' /\ MainAlone'
<1> USE DEF IInv
<1>0. /\ UNCHANGED <<registered, inited, batch, exported, nrecords, dropped>>
      /\ \A u \in Threads : Accepted(u)' = Accepted(u)
  <2>1. UNCHANGED Others
    BY DEF Exit, AtexitHandler, Die
  <2> QED BY <2>1 DEF Accepted, Others
<1>1. CASE Exit
  <2>1. /\ UNCHANGED <<Others, global, shutdownCalled, pc, worker, notified, covered, asked>>
        /\ pc[Main] = "app" /\ process' = "exiting"
    BY <1>1 DEF Exit, InApp
  <2>2. Racing' /\ Accounted' /\ OneStops'
    BY <1>0, <2>1 DEF Racing, Accounted, OneStops
  <2>5. Covered'
    BY <1>0, <2>1 DEF Covered
  <2>3. owed' # {} => /\ registered /\ global \in Threads /\ worker[global] = "running"
                      /\ owed' = (1 .. nrecords) \ dropped
    BY <1>1 DEF Exit, Racing
  <2>4. Owed'
    BY <1>0, <2>1, <2>3 DEF Accounted, Owed
  <2>6. MainAlone'
    BY <1>0, <2>1, <2>3 DEF MainAlone, Stop
  <2> QED BY <2>2, <2>4, <2>5, <2>6
<1>2. CASE AtexitHandler
  <2>1. /\ UNCHANGED <<Others, global, worker, notified, process, covered, asked, owed>>
        /\ pc[Main] = "app" /\ process = "exiting" /\ shutdownCalled'
        /\ pc' = [pc EXCEPT ![Main] = IF shutdownCalled THEN "stopped" ELSE "stopping"]
    BY <1>2 DEF AtexitHandler, Shutdown, Goto
  <2>8. pc[Main] # "registering" /\ pc'[Main] \in Stop
        /\ \A u \in Threads \ {Main} : pc'[u] = pc[u]
    BY <2>1, LifecycleAssumption DEF TypeOK, Stop
  <2>2. Racing' /\ Accounted' /\ Owed'
    <3>1. Racing'
      BY <1>0, <2>1, <2>8 DEF Racing, Stop
    <3> QED BY <1>0, <2>1, <3>1 DEF Accounted, Owed
  <2>3. pc \in [Threads -> {"app", "built", "registering", "stopping", "joining", "stopped"}]
        /\ Main \in Threads
    BY LifecycleAssumption DEF TypeOK
  <2>4. OneStops'
    BY <2>1, <2>3 DEF OneStops, Stop
  <2>7. \A u \in Threads : pc[u] = "joining" => pc'[u] = "joining"
    BY <2>1, <2>3
  <2>5. Covered'
    BY <1>0, <2>1, <2>7 DEF Covered
  <2>6. MainAlone'
    <3>1. /\ \A u \in Threads \ {Main} : pc'[u] = pc[u]
          /\ pc'[Main] = IF shutdownCalled THEN "stopped" ELSE "stopping"
      BY <2>1, <2>3
    <3>2. asked \/ ~shutdownCalled
      BY <2>1 DEF MainAlone, Stop
    <3> QED BY <1>0, <2>1, <3>1, <3>2 DEF MainAlone, Stop
  <2> QED BY <2>2, <2>4, <2>5, <2>6
<1>3. CASE Die
  <2>1. /\ UNCHANGED <<Others, global, shutdownCalled, pc, worker, notified, covered, asked, owed>>
        /\ registered => pc[Main] = "stopped"
        /\ process' = "dead"
    BY <1>3 DEF Die
  <2>2. Racing' /\ Accounted' /\ OneStops'
    BY <1>0, <2>1 DEF Racing, Accounted, OneStops
  <2>3. Covered'
    BY <1>0, <2>1 DEF Covered
  <2>4. Owed' /\ MainAlone'
    BY <1>0, <2>1 DEF Owed, MainAlone
  <2> QED BY <2>2, <2>3, <2>4
<1> QED BY <1>1, <1>2, <1>3

\* Workers live from build_inner on, are notified by who has the flag, and make their
\* last pass after that; what they move was recorded.
LEMMA WorkersInv ==
  ASSUME IInv, Next
  PROVE  Workers' /\ Recorded'
<1> USE DEF IInv
<1>1. ASSUME NEW t \in Threads, InitStep(t) PROVE Workers' /\ Recorded'
  <2>1. UNCHANGED <<shutdownCalled, clientVars, nrecords, dropped>>
    BY <1>1 DEF InitStep, BuildInner, SetGlobal, RegisterAtexit, historyVars
  <2>4. Recorded'
    BY <2>1 DEF Recorded, Accepted, clientVars
  <2>2. CASE BuildInner(t)
    <3>1. /\ pc[t] = "app" /\ pc' = [pc EXCEPT ![t] = "built"] /\ inited[t] = "not tried"
          /\ worker' = [worker EXCEPT ![t] = "running"] /\ UNCHANGED <<global, inited>>
      BY <2>2 DEF BuildInner, InApp, Goto
    <3>2. /\ worker'[t] = "running" /\ pc'[t] = "built"
          /\ \A u \in Threads \ {t} : worker'[u] = worker[u] /\ pc'[u] = pc[u]
      BY <3>1 DEF TypeOK
    <3>3. notified' = notified /\ shutdownCalled' = shutdownCalled /\ Workers
      BY <2>1 DEF clientVars
    <3>4. \A u \in Threads :
            /\ inited'[u] = "not tried" /\ pc'[u] \notin {"built", "registering"}
                 => worker'[u] = "none"
            /\ worker'[u] \in {"last", "ended"} => notified'[u]
      <4> SUFFICES ASSUME NEW u \in Threads
                   PROVE  /\ inited'[u] = "not tried" /\ pc'[u] \notin {"built", "registering"}
                               => worker'[u] = "none"
                          /\ worker'[u] \in {"last", "ended"} => notified'[u]
        OBVIOUS
      <4>1. CASE u = t
        BY <3>2, <4>1
      <4>2. CASE u # t
        BY <3>1, <3>2, <3>3, <4>2 DEF Workers
      <4> QED BY <4>1, <4>2
    <3>5. \A u \in Threads : pc'[u] = "stopping" => pc[u] = "stopping"
      BY <3>2
    <3>6. Workers'
      BY <3>3, <3>4, <3>5 DEF Workers
    <3> QED BY <2>4, <3>6
  <2>3. CASE SetGlobal(t) \/ RegisterAtexit(t)
    <3>1. /\ UNCHANGED worker
          /\ \A u \in Threads : pc'[u] = "stopping" => pc[u] = "stopping"
          /\ \A u \in Threads \ {t} : pc'[u] = pc[u] /\ inited'[u] = inited[u]
          /\ inited'[t] # "not tried" \/ pc'[t] = "registering"
      BY <2>3 DEF SetGlobal, RegisterAtexit, Goto, TypeOK
    <3> QED BY <2>1, <2>4, <3>1 DEF Workers, clientVars
  <2> QED BY <1>1, <2>2, <2>3 DEF InitStep
<1>2. ASSUME NEW t \in Threads, Record(t) PROVE Workers' /\ Recorded'
  <2>1. nrecords \in Nat /\ nrecords' = nrecords + 1
    <3>1. nrecords \in 0 .. MaxRecords /\ MaxRecords \in Nat
      BY LifecycleAssumption DEF TypeOK
    <3> QED BY <1>2, <3>1 DEF Record
  <2>2. 1 .. nrecords' = (1 .. nrecords) \cup {nrecords'} /\ nrecords' \notin 1 .. nrecords
    BY <2>1
  <2>3. /\ dropped \subseteq 1 .. nrecords
        /\ \A c \in Threads : Accepted(c) \subseteq (1 .. nrecords) \ dropped
    BY DEF Recorded
  <2>5. UNCHANGED <<global, shutdownCalled, pc, inited, worker, notified, batch, exported>>
    BY <1>2 DEF Record
  <2>4. /\ dropped' \subseteq 1 .. nrecords'
        /\ \A c \in Threads : Accepted(c)' \subseteq (1 .. nrecords') \ dropped'
    <3>1. CASE global = Unset
      <4>1. dropped' = dropped \cup {nrecords'} /\ pending' = pending
        BY <1>2, <3>1 DEF Record
      <4> QED BY <2>2, <2>3, <2>5, <4>1 DEF Accepted
    <3>2. CASE global # Unset
      <4>1. /\ global \in Threads /\ pending \in [Threads -> SUBSET Records] /\ dropped' = dropped
            /\ pending' = [pending EXCEPT ![global] = pending[global] \cup {nrecords'}]
        BY <1>2, <3>2 DEF TypeOK, Record
      <4>2. \A c \in Threads : pending'[c] \subseteq pending[c] \cup {nrecords'}
        BY <4>1
      <4> QED BY <2>2, <2>3, <2>5, <4>1, <4>2 DEF Accepted
    <3> QED BY <3>1, <3>2
  <2> QED BY <2>4, <2>5 DEF Workers, Recorded
<1>3. ASSUME NEW t \in Threads, CallShutdown(t) PROVE Workers' /\ Recorded'
  <2>1. /\ pc[t] = "app" /\ pc' = [pc EXCEPT ![t] = IF shutdownCalled THEN "app" ELSE "stopping"]
        /\ shutdownCalled' /\ UNCHANGED <<Others, global, worker, notified>>
    BY <1>3 DEF CallShutdown, Shutdown, Goto
  <2> QED BY <2>1 DEF Workers, Recorded, Accepted, TypeOK, Others
<1>4. ASSUME NEW t \in Threads, NotifyWorker(t) PROVE Workers' /\ Recorded'
  <2>1. /\ pc[t] = "stopping" /\ UNCHANGED <<Others, global, shutdownCalled, worker>>
        /\ shutdownCalled /\ \A u \in Threads \ {t} : pc[u] # "stopping"
    BY <1>4 DEF NotifyWorker, Goto, OneStops, Stop
  <2>2. /\ \A u \in Threads : pc'[u] # "stopping"
        /\ \A u \in Threads : pc[u] \in {"built", "registering"} => pc'[u] = pc[u]
    BY <1>4, <2>1 DEF NotifyWorker, Goto, TypeOK
  <2>3. \A u \in Threads : notified[u] => notified'[u]
    BY <1>4 DEF NotifyWorker, AfterNotify, TypeOK
  <2>4. Recorded'
    BY <2>1 DEF Recorded, Accepted, Others
  <2> QED BY <2>1, <2>2, <2>3, <2>4 DEF Workers, Others
<1>5. ASSUME NEW t \in Threads, JoinWorker(t) \/ ShutdownReturns(t) PROVE Workers' /\ Recorded'
  <2>1. /\ pc[t] \in {"joining", "stopped"} /\ pc'[t] \notin {"stopping", "joining"}
        /\ \A u \in Threads \ {t} : pc'[u] = pc[u]
        /\ UNCHANGED <<Others, global, shutdownCalled, worker, notified>>
    BY <1>5 DEF JoinWorker, ShutdownReturns, Goto, TypeOK
  <2> QED BY <2>1 DEF Workers, Recorded, Accepted, Others
<1>6. ASSUME NEW c \in Threads, WorkerStep(c) PROVE Workers' /\ Recorded'
  <2>1. /\ UNCHANGED <<pc, inited, notified, nrecords, dropped>>
        /\ \A u \in Threads : Accepted(u)' = Accepted(u)
        /\ \A u \in Threads \ {c} : worker'[u] = worker[u]
    BY <1>6, WorkerMoves
  <2>2. /\ worker[c] # "none" /\ (worker'[c] \in {"last", "ended"} => notified[c])
        /\ shutdownCalled => shutdownCalled'
    <3>1. CASE PassDone(c)
      BY <3>1 DEF PassDone, TypeOK, Workers, WorkerFree
    <3>2. CASE WorkerPass(c) \/ WorkerLastPass(c) \/ ExporterPanics(c) \/ ExporterShutdown(c)
      BY <3>2 DEF WorkerPass, WorkerLastPass, ExporterPanics, ExporterShutdown, TypeOK, WorkerFree
    <3> QED BY <1>6, <3>1, <3>2 DEF WorkerStep
  <2> QED BY <2>1, <2>2 DEF Workers, Recorded
<1>7. CASE Exit \/ Die
  BY <1>7 DEF Exit, Die, Workers, Recorded, Accepted, Others
<1>8. CASE AtexitHandler
  <2>1. /\ pc[Main] = "app" /\ shutdownCalled' /\ Main \in Threads
        /\ pc' = [pc EXCEPT ![Main] = IF shutdownCalled THEN "stopped" ELSE "stopping"]
        /\ UNCHANGED <<Others, global, worker, notified>>
    BY <1>8, LifecycleAssumption DEF AtexitHandler, Shutdown, Goto
  <2> QED BY <2>1 DEF Workers, Recorded, Accepted, TypeOK, Others
<1> QED BY <1>1, <1>2, <1>3, <1>4, <1>5, <1>6, <1>7, <1>8 DEF Next, StopStep

-----------------------------------------------------------------------------
(* The theorems.                                                           *)

\* Every step keeps the invariant.
LEMMA InvNext == IInv /\ [Next]_vars => IInv'
<1> SUFFICES ASSUME IInv, [Next]_vars PROVE IInv'
  OBVIOUS
<1>1. TypeOK'
  BY TypeStep DEF IInv
<1>2. ASSUME UNCHANGED vars PROVE IInv'
  <2>1. Racing' /\ Accounted' /\ OneStops'
    BY <1>2 DEF vars, clientVars, Accepted, IInv, Racing, Accounted, OneStops
  <2>2. Covered' /\ Owed' /\ MainAlone'
    BY <1>2 DEF vars, clientVars, Accepted, IInv, Covered, Owed, MainAlone
  <2>3. Workers' /\ Recorded'
    BY <1>2 DEF vars, clientVars, Accepted, IInv, Workers, Recorded
  <2> QED BY <1>1, <2>1, <2>2, <2>3 DEF IInv
<1>3. ASSUME Next PROVE Racing' /\ Accounted' /\ OneStops' /\ Covered' /\ Owed' /\ MainAlone'
  BY <1>3, InitInv, RecordInv, CallInv, StopInv, WorkerInv, ExitInv DEF Next
<1> QED BY <1>1, <1>2, <1>3, WorkersInv DEF IInv

\* The invariant holds in every reachable state.
LEMMA InvHolds == Spec => []IInv
  BY InvInit, InvNext, PTL DEF Spec

\* The globals, the threads and the clients stay in known states.
THEOREM TypeCorrect == Spec => []TypeOK
<1>1. IInv => TypeOK
  BY DEF IInv
<1> QED BY <1>1, InvHolds, PTL

\* However many threads race in try_init, one succeeds, and only its client is
\* ever recorded into.
THEOREM SingleClientHolds == Spec => []SingleClient
<1>1. IInv => SingleClient
  BY DEF IInv, Racing, SingleClient
<1> QED BY <1>1, InvHolds, PTL

\* When the shutdown() that found the client returns, its worker has ended with every
\* record exported that was made before it was notified, or an exporter has panicked.
THEOREM FinalFlushHolds == Spec => []FinalFlush
<1>1. IInv => FinalFlush
  BY DEF IInv, Covered, FinalFlush, Exported
<1> QED BY <1>1, InvHolds, PTL

\* An application that never calls shutdown(), and whose exporters neither do nor
\* panic, loses nothing at exit that was recorded before it.
THEOREM AutomaticIfNotAskedHolds == Spec => []AutomaticIfNotAsked
<1>1. IInv => AutomaticIfNotAsked
  BY DEF IInv, Owed, MainAlone, AutomaticIfNotAsked, Exported
<1> QED BY <1>1, InvHolds, PTL

-----------------------------------------------------------------------------
(* Every client keeps ClientPromise.                                       *)

\* Nothing of the client that the promise speaks of changes.
Same(c) ==
    /\ Accepted(c)' = Accepted(c)
    /\ exported'[c] = exported[c] /\ notified'[c] = notified[c]
    /\ UNCHANGED <<Stage(c), OwedBy(c), Waiting(c)>>

\* Then the promise stutters.
LEMMA SameStutters ==
  ASSUME NEW c \in Threads, Same(c)
  PROVE  UNCHANGED Promise(c)!vars
<1>1. Accepted(c)' = Accepted(c) /\ (notified[c])' = notified[c]
  BY DEF Same
<1>2. [e \in {c} |-> exported[c]]' = [e \in {c} |-> exported[c]]
  BY DEF Same
<1>3. UNCHANGED <<Stage(c), OwedBy(c), Waiting(c)>>
  BY DEF Same
<1> QED BY <1>1, <1>2, <1>3 DEF Promise!vars

\* What the promise reads of a client does not change with the rest of the state.
LEMMA SameClient ==
  ASSUME NEW c \in Threads, UNCHANGED <<global, covered>>,
         worker'[c] = worker[c], notified'[c] = notified[c], Accepted(c)' = Accepted(c),
         exported'[c] = exported[c],
         \A t \in Threads : pc'[t] = "joining" <=> pc[t] = "joining"
  PROVE  UNCHANGED Promise(c)!vars
<1>1. UNCHANGED <<Stage(c), OwedBy(c), Waiting(c)>>
  BY DEF Stage, OwedBy, Waiting
<1> QED BY <1>1, SameStutters DEF Same

\* try_init: until GLOBAL is set nobody waits for a client and none owes anything.
LEMMA PromiseInit ==
  ASSUME IInv, NEW c \in Threads, NEW t \in Threads, InitStep(t)
  PROVE  UNCHANGED Promise(c)!vars
<1> USE DEF IInv
<1>1. CASE BuildInner(t)
  <2>1. /\ UNCHANGED <<global, covered, notified, pending, batch, exported>>
        /\ pc[t] = "app" /\ inited[t] = "not tried" /\ pc' = [pc EXCEPT ![t] = "built"]
        /\ worker' = [worker EXCEPT ![t] = "running"]
    BY <1>1 DEF BuildInner, InApp, Goto, clientVars, historyVars
  <2>2. worker[t] = "none"
    BY <2>1 DEF Workers
  <2>3. \A u \in Threads : pc'[u] = "joining" <=> pc[u] = "joining"
    BY <2>1 DEF TypeOK
  <2>4. Stage(c)' = Stage(c)
    BY <2>1, <2>2 DEF Stage, TypeOK
  <2>5. UNCHANGED <<OwedBy(c), Waiting(c)>>
    BY <2>1, <2>3 DEF OwedBy, Waiting
  <2> QED BY <2>1, <2>4, <2>5, SameStutters DEF Same, Accepted
<1>2. CASE SetGlobal(t) \/ RegisterAtexit(t)
  <2>1. /\ UNCHANGED <<covered, worker, notified, exported>> /\ Accepted(c)' = Accepted(c)
        /\ global # Unset => global' = global
    BY <1>2 DEF SetGlobal, RegisterAtexit, First, Accepted, clientVars, historyVars
  <2>2. \A u \in Threads : pc'[u] = "joining" <=> pc[u] = "joining"
    BY <1>2 DEF SetGlobal, RegisterAtexit, Goto, TypeOK
  <2>3. CASE global = Unset
    <3>1. global \notin Threads
      BY <2>3, LifecycleAssumption DEF Unset
    <3>2. \A u \in Threads : covered[u] = {} /\ pc[u] # "joining"
      BY <3>1 DEF Covered, OneStops
    <3>3. UNION {covered[u] : u \in Threads} = {}
      BY <3>2
    <3>4. UNCHANGED <<OwedBy(c), Waiting(c)>>
      BY <2>1, <2>2, <3>2, <3>3 DEF OwedBy, Waiting
    <3>5. Stage(c)' = Stage(c)
      BY <2>1 DEF Stage
    <3> QED BY <2>1, <3>4, <3>5, SameStutters DEF Same
  <2>4. CASE global # Unset
    BY <2>1, <2>2, <2>4, SameClient
  <2> QED BY <2>3, <2>4
<1> QED BY <1>1, <1>2 DEF InitStep

\* A record call that GLOBAL passes to the client is a new call that it accepts.
LEMMA PromiseRecord ==
  ASSUME IInv, NEW c \in Threads, NEW t \in Threads, Record(t)
  PROVE  [Promise(c)!Next]_(Promise(c)!vars)
<1> USE DEF IInv
<1>1. UNCHANGED <<global, covered, worker, notified, batch, exported, pc>>
  BY DEF Record
<1>2. CASE c # global
  <2>1. pending'[c] = pending[c]
    <3>1. CASE global = Unset
      BY <3>1 DEF Record
    <3>2. CASE global # Unset
      BY <1>2, <3>2 DEF Record, TypeOK
    <3> QED BY <3>1, <3>2
  <2> QED BY <1>1, <2>1, SameClient DEF Accepted
<1>3. CASE c = global
  <2>1. c # Unset /\ pending \in [Threads -> SUBSET Records]
    BY LifecycleAssumption DEF Unset, TypeOK
  <2>2. pending'[c] = pending[c] \cup {nrecords'} /\ nrecords' = nrecords + 1
    BY <1>3, <2>1 DEF Record
  <2>3. nrecords' \in Records /\ nrecords' \notin 1 .. nrecords
    <3>1. nrecords \in 0 .. MaxRecords /\ MaxRecords \in Nat /\ nrecords < MaxRecords
      BY LifecycleAssumption DEF TypeOK, Record
    <3> QED BY <2>2, <3>1 DEF Records
  <2>4. Accepted(c) \subseteq 1 .. nrecords /\ Accepted(c)' = Accepted(c) \cup {nrecords'}
    BY <1>1, <2>2 DEF Recorded, Accepted
  <2>5. UNCHANGED <<Stage(c), OwedBy(c), Waiting(c)>>
    BY <1>1 DEF Stage, OwedBy, Waiting
  <2>6. Promise(c)!Accept(nrecords')
    BY <1>1, <2>3, <2>4, <2>5 DEF Promise!Accept
  <2> QED BY <2>3, <2>6 DEF Promise!Next
<1> QED BY <1>2, <1>3

\* The call that has the flag asks the worker of the client: nobody did before,
\* and what it owes is what it had accepted.
LEMMA PromiseNotify ==
  ASSUME IInv, NEW c \in Threads, NEW t \in Threads, NotifyWorker(t)
  PROVE  [Promise(c)!Next]_(Promise(c)!vars)
<1> USE DEF IInv
<1>1. pc[t] = "stopping" /\ UNCHANGED <<global, worker, exported>> /\ Accepted(c)' = Accepted(c)
  BY DEF NotifyWorker, Goto, Others, Accepted
<1>2. CASE global = Unset
  <2>1. UNCHANGED <<notified, covered>> /\ pc' = [pc EXCEPT ![t] = "stopped"]
    BY <1>2 DEF NotifyWorker, Goto
  <2>2. \A u \in Threads : pc'[u] = "joining" <=> pc[u] = "joining"
    BY <1>1, <2>1 DEF TypeOK
  <2> QED BY <1>1, <2>1, <2>2, SameClient
<1>3. CASE global # Unset
  <2>1. /\ pc' = [pc EXCEPT ![t] = "joining"] /\ global \in Threads
        /\ notified' = [notified EXCEPT ![global] = TRUE]
        /\ covered' = [covered EXCEPT ![t] = (1 .. nrecords) \ dropped]
    BY <1>3 DEF NotifyWorker, Goto, AfterNotify, TypeOK
  <2>2. CASE c # global
    <3>1. UNCHANGED <<Stage(c), OwedBy(c), Waiting(c)>> /\ notified'[c] = notified[c]
      BY <1>1, <2>1, <2>2 DEF TypeOK, Stage, OwedBy, Waiting
    <3> QED BY <1>1, <3>1, SameStutters DEF Same
  <2>3. CASE c = global
    <3>1. /\ ~notified[c] /\ notified'[c]
          /\ notified[c] = FALSE /\ notified'[c] = TRUE
          /\ \A u \in Threads : covered[u] = {}
      BY <1>1, <2>1, <2>3 DEF Workers, OneStops, TypeOK
    <3>2. UNCHANGED Stage(c)
      BY <1>1 DEF Stage
    <3>3. Accepted(c) = (1 .. nrecords) \ dropped
      BY <2>3 DEF Accounted, Recorded
    <3>4. /\ covered'[t] = (1 .. nrecords) \ dropped
          /\ \A u \in Threads \ {t} : covered'[u] = {}
      BY <2>1, <3>1 DEF TypeOK
    <3>5. OwedBy(c)' = Accepted(c)
      BY <1>1, <2>3, <3>3, <3>4 DEF OwedBy
    <3>6. t \notin Waiting(c) /\ Waiting(c)' = Waiting(c) \cup {t}
      <4>1. \A u \in Threads : pc'[u] = "joining" <=> u = t \/ pc[u] = "joining"
        BY <2>1 DEF TypeOK
      <4> QED BY <1>1, <2>3, <4>1 DEF Waiting
    <3>7. Promise(c)!Ask(t)
      BY <1>1, <3>1, <3>2, <3>5, <3>6 DEF Promise!Ask
    <3> QED BY <3>7 DEF Promise!Next
  <2> QED BY <2>2, <2>3
<1> QED BY <1>2, <1>3

\* It returns from the join when that worker has ended or panicked.
LEMMA PromiseJoin ==
  ASSUME IInv, NEW c \in Threads, NEW t \in Threads, JoinWorker(t) \/ ShutdownReturns(t)
  PROVE  [Promise(c)!Next]_(Promise(c)!vars)
<1> USE DEF IInv
<1>0. UNCHANGED <<global, notified, exported, worker, covered>> /\ Accepted(c)' = Accepted(c)
  BY DEF JoinWorker, ShutdownReturns, Others, Accepted
<1>1. CASE ShutdownReturns(t) \/ c # global
  <2>1. c = global => \A u \in Threads : pc'[u] = "joining" <=> pc[u] = "joining"
    BY <1>1 DEF ShutdownReturns, Goto, TypeOK
  <2>2. UNCHANGED <<Stage(c), OwedBy(c), Waiting(c)>>
    BY <1>0, <2>1 DEF Stage, OwedBy, Waiting
  <2> QED BY <1>0, <2>2, SameStutters DEF Same
<1>2. CASE JoinWorker(t) /\ c = global
  <2>1. /\ pc[t] = "joining" /\ pc' = [pc EXCEPT ![t] = "stopped"]
        /\ worker[c] \in {"ended", "panicked"}
    BY <1>2 DEF JoinWorker, Goto, Joined
  <2>2. Stage(c) # "running" /\ UNCHANGED <<Stage(c), OwedBy(c)>>
    BY <1>0, <2>1 DEF Stage, OwedBy
  <2>3. t \in Waiting(c) /\ Waiting(c)' = Waiting(c) \ {t}
    <3>1. \A u \in Threads : pc'[u] = "joining" <=> u # t /\ pc[u] = "joining"
      BY <2>1 DEF TypeOK
    <3> QED BY <1>0, <1>2, <2>1, <3>1 DEF Waiting
  <2>4. Promise(c)!Leave(t)
    BY <1>0, <2>2, <2>3 DEF Promise!Leave
  <2> QED BY <2>4 DEF Promise!Next
<1> QED BY <1>1, <1>2

\* What a pass takes out of the map is still the client's; its end hands it over, and
\* only the last pass, which leaves nothing owed, ends the worker in order.  A panic
\* hands over nothing more.
LEMMA PromiseWork ==
  ASSUME IInv, NEW c \in Threads, NEW d \in Threads, WorkerStep(d)
  PROVE  [Promise(c)!Next]_(Promise(c)!vars)
<1> USE DEF IInv
<1>0. /\ UNCHANGED <<global, pc, covered, notified>> /\ Accepted(c)' = Accepted(c)
      /\ exported[c] \subseteq exported'[c]
      /\ c # d => worker'[c] = worker[c] /\ exported'[c] = exported[c]
  BY WorkerMoves
<1>1. CASE c # d
  BY <1>0, <1>1, SameClient
<1>2. UNCHANGED <<OwedBy(c), Waiting(c)>>
  BY <1>0 DEF OwedBy, Waiting
<1>3. CASE WorkerPass(d) \/ WorkerLastPass(d)
  <2>1. exported'[c] = exported[c] /\ Stage(c)' = Stage(c)
    BY <1>3 DEF WorkerPass, WorkerLastPass, Stage, TypeOK
  <2> QED BY <1>0, <1>2, <2>1, SameStutters DEF Same
<1>4. CASE c = d /\ (PassDone(d) \/ ExporterPanics(d) \/ ExporterShutdown(d))
  <2>1. /\ worker[c] \in {"running", "last"}
        /\ worker'[c] \in {"running", "panicked", "stuck"}
           \/ (worker'[c] = "ended" /\ worker[c] = "last" /\ exported'[c] = exported[c] \cup batch[c])
    BY <1>4 DEF PassDone, ExporterPanics, ExporterShutdown, TypeOK
  <2>2. /\ Stage(c) = "running" /\ Stage(c)' \in {"running", "ended", "failed"}
        /\ Stage(c)' = "ended" => worker[c] = "last" /\ exported'[c] = exported[c] \cup batch[c]
    BY <2>1 DEF Stage
  <2>3. Stage(c)' = "ended" => notified[c] /\ OwedBy(c) \subseteq exported'[c]
    BY <2>2 DEF OwedBy, Covered, Workers
  <2>4. exported'[c] \subseteq Accepted(c)
    BY <1>0 DEF Accepted
  <2>5. /\ [e \in {c} |-> exported[c]]' \in [{c} -> SUBSET (Accepted(c) \ {})]
        /\ \A e \in {c} : [x \in {c} |-> exported[c]][e] \subseteq [x \in {c} |-> exported[c]]'[e]
        /\ Stage(c)' = "ended" =>
              \A e \in {c} : OwedBy(c) \subseteq [x \in {c} |-> exported[c]]'[e] \cup {}
    BY <1>0, <2>3, <2>4
  <2>6. Promise(c)!Work
    BY <1>0, <1>2, <2>2, <2>3, <2>5 DEF Promise!Work
  <2> QED BY <2>6 DEF Promise!Next
<1> QED BY <1>1, <1>3, <1>4 DEF WorkerStep

\* The rest of shutdown() and exit does not touch a client.
LEMMA PromiseOther ==
  ASSUME IInv, NEW c \in Threads,
         (\E t \in Threads : CallShutdown(t)) \/ Exit \/ AtexitHandler \/ Die
  PROVE  UNCHANGED Promise(c)!vars
<1>1. UNCHANGED <<global, covered, worker, notified, exported>> /\ Accepted(c)' = Accepted(c)
  BY DEF CallShutdown, Exit, AtexitHandler, Die, Others, Accepted
<1>2. \A t \in Threads : pc'[t] = "joining" <=> pc[t] = "joining"
  BY LifecycleAssumption
     DEF CallShutdown, Exit, AtexitHandler, Die, Shutdown, Goto, IInv, TypeOK
<1> QED BY <1>1, <1>2, SameClient

\* Every step is one of the promise of each client, or none.
LEMMA PromiseStep ==
  ASSUME IInv, [Next]_vars, NEW c \in Threads
  PROVE  [Promise(c)!Next]_(Promise(c)!vars)
<1>1. CASE UNCHANGED vars
  BY <1>1, SameClient DEF vars, clientVars, Accepted
<1>2. ASSUME NEW t \in Threads, InitStep(t) PROVE [Promise(c)!Next]_(Promise(c)!vars)
  BY <1>2, PromiseInit
<1>3. CASE Next
  BY <1>2, <1>3, PromiseRecord, PromiseNotify, PromiseJoin, PromiseWork, PromiseOther
     DEF Next, StopStep
<1> QED BY <1>1, <1>3

\* Every client starts as the promise does.
LEMMA PromiseStart ==
  ASSUME Init, NEW c \in Threads
  PROVE  Promise(c)!Init
<1>1. UNION {covered[t] : t \in Threads} = {}
  BY DEF Init
<1>2. OwedBy(c) = {} /\ Waiting(c) = {} /\ Stage(c) = "running"
  BY <1>1 DEF Init, OwedBy, Waiting, Stage
<1>3. Accepted(c) = {} /\ exported[c] = {} /\ notified[c] = FALSE
  BY DEF Init, Accepted
<1>4. [e \in {c} |-> exported[c]] = [e \in {c} |-> {}]
  BY <1>3
<1> QED BY <1>2, <1>3, <1>4 DEF Promise!Init

\* Each client, also one that loses the race for GLOBAL, keeps the promise of a
\* client: it hands over what it accepts, and ends in order only when it is asked
\* to and all that it had accepted by then is handed over; a panic of an exporter
\* makes it fail, and lets shutdown() return.
THEOREM PromiseHolds == Spec => PromiseSpec
<1>1. Init => \A c \in Threads : Promise(c)!Init
  BY PromiseStart
<1>2. IInv /\ [Next]_vars => [\A c \in Threads : [Promise(c)!Next]_(Promise(c)!vars)]_vars
  BY PromiseStep
<1> QED BY <1>1, <1>2, InvHolds, PTL DEF Spec, PromiseSpec
=============================================================================
