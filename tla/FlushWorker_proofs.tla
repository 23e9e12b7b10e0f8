-------------------------- MODULE FlushWorker_proofs --------------------------
(* Proofs about FlushWorker, for every value of its constants: any number   *)
(* of exporters with any outcomes, of flush() callers and of stoppers.      *)
EXTENDS FlushWorker, StripedAggMap_proofs

-----------------------------------------------------------------------------
(* The map inside the client.                                              *)

\* Whatever the worker, the exporters and the callers do, the map makes a step
\* of its own or none.
LEMMA MapStep == [FNext]_fvars => [Next]_vars
<1> SUFFICES ASSUME [FNext]_fvars PROVE [Next]_vars
  OBVIOUS
<1>1. CASE ApplicationStep
  <2>1. ASSUME RecordCall PROVE Record
    BY <2>1 DEF RecordCall
  <2>2. ASSUME NEW f \in Flushers \ {Worker}, ManualFlush(f) \/ ManualReturn(f)
        PROVE  FlushStep(f)
    BY <2>2 DEF ManualFlush, ManualReturn, FlushStep
  <2>3. ASSUME NEW t \in Stoppers, StopStep(t) PROVE UNCHANGED vars
    BY <2>3 DEF StopStep, NotifyOne, TakeHandle, Join
  <2> QED BY <1>1, <2>1, <2>2, <2>3 DEF ApplicationStep, Next
<1>2. CASE WorkerStep
  <2>1. ASSUME Tick \/ Notified \/ WorkerFlushStripe \/ WorkerFlushReturn
        PROVE  Worker \in Flushers /\ FlushStep(Worker)
    BY <2>1, WorkerAssumption
       DEF Tick, Notified, Wake, WorkerFlushStripe, WorkerFlushReturn, FlushStep
  <2>2. ASSUME ExportCall \/ ExportedAll \/ DrainEmpty \/ NextPass PROVE UNCHANGED vars
    BY <2>2 DEF ExportCall, ExportedAll, DrainEmpty, NextPass
  <2>3. ASSUME DrainOne PROVE RawTryRecv
    BY <2>3 DEF DrainOne
  <2>4. ASSUME Break PROVE RawReceiverDropped \/ UNCHANGED vars
    BY <2>4 DEF Break, DropReceiver
  <2> QED BY <1>2, <2>1, <2>2, <2>3, <2>4 DEF WorkerStep, WorkerOwn, Next
<1>3. CASE ExportReturn \/ ExportPanic
  BY <1>3 DEF ExportReturn, ExportPanic, DropReceiver, Next
<1>4. CASE UNCHANGED fvars
  BY <1>4 DEF fvars
<1> QED BY <1>1, <1>2, <1>3, <1>4 DEF FNext

\* A client starts with an empty map.
LEMMA MapInit == FInit => Init
  BY DEF FInit

\* The map of a client at work is a map of StripedAggMap, ...
THEOREM MapOfClient == FSpec => Spec
  BY MapInit, MapStep, PTL DEF FSpec, Spec

\* ... so that the client implements the abstract aggregation: nothing is lost
\* or handed out twice between record calls, worker and flush() callers.
THEOREM ClientRefinement == FSpec => AbstractSpec
  BY MapOfClient, Refinement, PTL

\* The inductive invariant of the map holds in a client.
LEMMA MapInv == FSpec => []IInv
  BY MapOfClient, InvInit, InvNext, PTL DEF Spec

-----------------------------------------------------------------------------
(* shutdown() and the end of the worker.                                   *)

\* The worker flushes in its flushing state only; who joins holds the mutex; the
\* handle is gone only when somebody joins or the worker has ended.
StopInv ==
    /\ spc \in [Stoppers -> {"running", "locking", "joining", "returned"}]
    /\ cursor[Worker] # Idle => wpc = "flushing"
    /\ \A t \in Stoppers : spc[t] = "joining" => holder = t
    /\ ~handle => Gone \/ \E t \in Stoppers : spc[t] = "joining"
    /\ NoEarlyReturn

\* What the worker's and the exporters' steps do to all this.
LEMMA StopWorker ==
  ASSUME TypeOK, StopInv, WorkerStep \/ ExportReturn \/ ExportPanic
  PROVE  StopInv'
<1> USE DEF StopInv
<1> DEFINE Good == (cursor'[Worker] # Idle => wpc' = "flushing") /\ (Gone => Gone')
<1>1. UNCHANGED <<spc, holder, handle>>
  BY DEF WorkerStep, WorkerOwn, Tick, Notified, Wake, WorkerFlushStripe, WorkerFlushReturn,
         ExportCall, ExportedAll, DrainOne, DrainEmpty, NextPass, Break, ExportReturn,
         ExportPanic, stopVars
<1>2. Worker \in Flushers /\ cursor \in [Flushers -> {Idle} \cup 0 .. StripeCount]
  BY WorkerAssumption DEF TypeOK
<1>3. ASSUME Tick \/ Notified PROVE Good
  BY <1>2, <1>3 DEF Tick, Notified, Wake, Gone
<1>4. ASSUME WorkerFlushStripe PROVE Good
  BY <1>4, SizeAssumption DEF WorkerFlushStripe, FlushStripe, Visiting, workerVars, Gone, Idle
<1>5. ASSUME WorkerFlushReturn PROVE Good
  BY <1>5, <1>2, SizeAssumption DEF WorkerFlushReturn, FlushReturn, Finished, Gone, Idle
<1>6. ASSUME ExportCall \/ ExportedAll \/ DrainEmpty \/ NextPass \/ ExportReturn PROVE Good
  BY <1>6 DEF ExportCall, ExportedAll, DrainEmpty, NextPass, ExportReturn, vars, Gone
<1>7. ASSUME DrainOne PROVE Good
  BY <1>7 DEF DrainOne, RawTryRecv, Gone
<1>8. ASSUME Break \/ ExportPanic PROVE Good
  BY <1>8 DEF Break, ExportPanic, DropReceiver, RawReceiverDropped, vars, Gone
<1>9. Good
  BY <1>3, <1>4, <1>5, <1>6, <1>7, <1>8 DEF WorkerStep, WorkerOwn
<1> QED BY <1>1, <1>9 DEF NoEarlyReturn

\* A caller of shutdown() notifies, locks, joins and returns.
LEMMA StopCaller ==
  ASSUME StopInv, NEW t \in Stoppers, StopStep(t)
  PROVE  StopInv'
<1> USE DEF StopInv, NoEarlyReturn
<1>1. UNCHANGED <<cursor, wpc>> /\ Gone' = Gone
  BY DEF StopStep, NotifyOne, TakeHandle, Join, vars, workerVars, Gone
<1>2. CASE NotifyOne(t)
  BY <1>1, <1>2 DEF NotifyOne
<1>3. CASE TakeHandle(t)
  <2>1. \A u \in Stoppers : spc[u] # "joining"
    BY <1>3, WorkerAssumption DEF TakeHandle, Nobody
  <2>2. CASE handle
    BY <1>1, <1>3, <2>1, <2>2 DEF TakeHandle, HolderWhileJoining
  <2>3. CASE ~handle
    <3>1. Gone
      BY <2>1, <2>3
    <3>2. /\ spc' = [spc EXCEPT ![t] = "returned"]
          /\ holder' = holder /\ handle' = FALSE
      BY <1>3, <2>3 DEF TakeHandle
    <3> QED BY <1>1, <3>1, <3>2
  <2> QED BY <2>2, <2>3
<1>4. CASE Join(t)
  <2>1. Gone /\ \A u \in Stoppers \ {t} : spc[u] # "joining"
    BY <1>4 DEF Join, Gone
  <2> QED BY <1>1, <1>4, <2>1 DEF Join
<1> QED BY <1>2, <1>3, <1>4 DEF StopStep

\* Every step keeps the invariant.
LEMMA StopNext == TypeOK /\ StopInv /\ [FNext]_fvars => StopInv'
<1> SUFFICES ASSUME TypeOK, StopInv, [FNext]_fvars PROVE StopInv'
  OBVIOUS
<1>1. ASSUME UNCHANGED <<spc, holder, handle, wpc>>, cursor'[Worker] = cursor[Worker]
      PROVE  StopInv'
  BY <1>1 DEF StopInv, Gone, NoEarlyReturn
<1>2. CASE RecordCall
  <2>1. cursor' = cursor
    BY <1>2 DEF RecordCall, Record, RecordCount, RecordGauge, RecordHistogram
  <2> QED BY <1>1, <1>2, <2>1 DEF RecordCall, workerVars, stopVars
<1>3. ASSUME NEW f \in Flushers \ {Worker}, ManualFlush(f) \/ ManualReturn(f)
      PROVE  StopInv'
  <2>1. cursor'[Worker] = cursor[Worker]
    BY <1>3, WorkerAssumption
       DEF ManualFlush, ManualReturn, FlushStart, FlushStripe, FlushReturn, TypeOK
  <2> QED BY <1>1, <1>3, <2>1 DEF ManualFlush, ManualReturn, workerVars, stopVars
<1>4. CASE UNCHANGED fvars
  BY <1>1, <1>4 DEF fvars, vars, workerVars, stopVars
<1> QED BY <1>2, <1>3, <1>4, StopCaller, StopWorker DEF FNext, ApplicationStep

\* No call of shutdown() returns before the worker thread has ended, for any
\* number of callers, whatever the exporters do.
THEOREM NoEarlyReturnHolds == FSpec => []NoEarlyReturn
<1>1. FInit => StopInv
  BY WorkerAssumption DEF FInit, Init, StopInv, Gone, NoEarlyReturn, Idle
<1>2. StopInv => NoEarlyReturn
  BY DEF StopInv
<1> QED BY <1>1, <1>2, MapOfClient, TypeCorrect, StopNext, PTL DEF FSpec

-----------------------------------------------------------------------------
(* Type correctness.                                                       *)

\* Record calls are only added, and what was typed by them stays typed.
LEMMA LogGrows ==
  ASSUME TypeOK, [Next]_vars
  PROVE  /\ Ids \subseteq Ids' /\ Entries \subseteq Entries'
         /\ Len(log) \in Nat /\ Len(log') \in Nat /\ Len(log) <= Len(log')
         /\ \A id \in Ids : log'[id] = log[id]
<1>1. ASSUME NEW s \in Series, NEW v \in Values \cup {NaN},
             RecordCount(s, v) \/ RecordGauge(s, v) \/ RecordHistogram(s, v)
      PROVE  /\ Ids \subseteq Ids' /\ Entries \subseteq Entries'
             /\ Len(log) \in Nat /\ Len(log') \in Nat /\ Len(log) <= Len(log')
             /\ \A id \in Ids : log'[id] = log[id]
  <2>1. Log(s, v)
    BY <1>1 DEF RecordCount, RecordGauge, RecordHistogram
  <2>2. Len(log) \in Nat /\ Len(log') = Len(log) + 1
    BY <2>1, LogStep DEF NextId
  <2>3. Ids \subseteq Ids' /\ \A id \in Ids : log'[id] = log[id]
    BY <2>1, LogStep
  <2>4. Entries \subseteq Entries'
    BY <2>1, EntriesGrow
  <2> QED BY <2>2, <2>3, <2>4
<1>2. CASE log' = log
  <2>1. Ids' = Ids /\ Entries' = Entries
    BY <1>2 DEF Ids, Entries, IsGauge
  <2>2. Len(log) \in Nat
    BY LenProperties DEF TypeOK
  <2> QED BY <1>2, <2>1, <2>2
<1>3. ASSUME \/ \E f \in Flushers : FlushStep(f)
             \/ RawTryRecv \/ RawReceiverDropped \/ UNCHANGED vars
      PROVE  log' = log
  BY <1>3 DEF FlushStep, FlushStart, FlushStripe, FlushReturn, RawTryRecv, RawReceiverDropped, vars
<1> QED BY <1>1, <1>2, <1>3 DEF Next, Record

\* The worker and its program counter,
WorkerTyped ==
    /\ wpc \in {"waiting", "flushing", "exporting", "awaiting", "draining",
                "leaving", "exited", "panicked"}
    /\ final \in BOOLEAN
    /\ phase \in {"metrics", "raw"}
    /\ exporter \in 1 .. NumExporters + 1
    /\ wpc = "awaiting" => exporter \in Exporters

\* ... the callers of shutdown(),
StopTyped ==
    /\ permit \in BOOLEAN /\ handle \in BOOLEAN
    /\ holder \in Stoppers \cup {Nobody}
    /\ spc \in [Stoppers -> {"running", "locking", "joining", "returned"}]
    /\ mark \in {NotYet} \cup 0 .. Len(log)

\* ... and what was handed over.
HandedTyped ==
    /\ metrics \in Batches /\ manual \in Batches
    /\ points \in Seq(Ids)
    /\ seen \in [Exporters -> Seq(Batches)]
    /\ seenRaw \in [Exporters -> Seq(Ids)]

FTyped == TypeOK /\ WorkerTyped /\ StopTyped /\ HandedTyped

\* A map step leaves well-formed what it leaves alone.
LEMMA HandedGrows ==
  ASSUME FTyped, [Next]_vars
  PROVE  /\ Batches \subseteq Batches'
         /\ \A f \in Flushers : batch[f] \in Batches'
         /\ metrics \in Batches' /\ manual \in Batches'
         /\ points \in Seq(Ids')
         /\ seen \in [Exporters -> Seq(Batches')]
         /\ seenRaw \in [Exporters -> Seq(Ids')]
         /\ mark \in {NotYet} \cup 0 .. Len(log')
<1>1. /\ Ids \subseteq Ids' /\ Entries \subseteq Entries'
      /\ Len(log) \in Nat /\ Len(log') \in Nat /\ Len(log) <= Len(log')
  BY LogGrows DEF FTyped
<1>2. Batches \subseteq Batches'
  BY <1>1 DEF Batches
<1>3. Seq(Ids) \subseteq Seq(Ids') /\ Seq(Batches) \subseteq Seq(Batches')
  BY <1>1, <1>2, SeqGrows
<1>4. \A f \in Flushers : batch[f] \in Batches
  BY DEF FTyped, TypeOK, Batches
<1>5. mark \in {NotYet} \cup 0 .. Len(log')
  BY <1>1 DEF FTyped, StopTyped
<1> QED BY <1>2, <1>3, <1>4, <1>5 DEF FTyped, HandedTyped

\* The worker's and the exporters' steps keep the worker's state in order.
LEMMA WorkerTypedStep ==
  ASSUME FTyped, WorkerStep \/ ExportReturn \/ ExportPanic
  PROVE  WorkerTyped'
<1> USE DEF FTyped, WorkerTyped
<1>1. 1 \in 1 .. NumExporters + 1 /\ NumExporters \in Nat
  BY WorkerAssumption
<1>2. CASE Tick \/ Notified
  BY <1>2 DEF Tick, Notified, Wake
<1>3. CASE WorkerFlushStripe
  BY <1>3 DEF WorkerFlushStripe, workerVars
<1>4. CASE WorkerFlushReturn
  BY <1>1, <1>4 DEF WorkerFlushReturn, AfterEmptyBatch
<1>5. CASE ExportCall \/ ExportedAll \/ NextPass
  BY <1>5 DEF ExportCall, ExportedAll, NextPass
<1>6. CASE DrainOne
  BY <1>6 DEF DrainOne
<1>7. CASE DrainEmpty
  BY <1>1, <1>7 DEF DrainEmpty
<1>8. CASE ExportReturn
  BY <1>1, <1>8 DEF ExportReturn, AfterExport, Exporters
<1>9. CASE Break \/ ExportPanic
  BY <1>9 DEF Break, ExportPanic
<1> QED BY <1>2, <1>3, <1>4, <1>5, <1>6, <1>7, <1>8, <1>9 DEF WorkerStep, WorkerOwn

\* They hand over batches and points of known record calls.
LEMMA HandedTypedStep ==
  ASSUME FTyped, [Next]_vars, WorkerStep \/ ExportReturn \/ ExportPanic
  PROVE  HandedTyped'
<1>1. /\ \A f \in Flushers : batch[f] \in Batches'
      /\ metrics \in Batches' /\ manual \in Batches'
      /\ points \in Seq(Ids')
      /\ seen \in [Exporters -> Seq(Batches')]
      /\ seenRaw \in [Exporters -> Seq(Ids')]
  BY HandedGrows
<1>2. CASE UNCHANGED <<metrics, points, manual, seen, seenRaw>>
  BY <1>1, <1>2 DEF HandedTyped, Exporters
<1>3. CASE WorkerFlushReturn
  BY <1>1, <1>3, WorkerAssumption DEF WorkerFlushReturn, HandedTyped, NewPoints, Exporters, histVars
<1>4. CASE ExportCall
  <2>1. exporter \in Exporters
    BY <1>4 DEF ExportCall
  <2>2. Noted(seen[exporter], metrics) \in Seq(Batches')
    <3>1. seen[exporter] \in Seq(Batches')
      BY <1>1, <2>1
    <3>2. Append(seen[exporter], metrics) \in Seq(Batches')
      BY <1>1, <3>1, AppendProperties
    <3> QED BY <3>1, <3>2 DEF Noted
  <2>3. seenRaw[exporter] \o points \in Seq(Ids')
    BY <1>1, <2>1, ConcatProperties
  <2>4. UNCHANGED <<metrics, points, manual>>
    BY <1>4 DEF ExportCall
  <2>5. CASE phase = "metrics"
    <3>1. seen' = [seen EXCEPT ![exporter] = Noted(seen[exporter], metrics)] /\ seenRaw' = seenRaw
      BY <1>4, <2>5 DEF ExportCall
    <3> QED BY <1>1, <2>2, <2>4, <3>1 DEF HandedTyped, Exporters
  <2>6. CASE phase # "metrics"
    <3>1. seenRaw' = [seenRaw EXCEPT ![exporter] = seenRaw[exporter] \o points] /\ seen' = seen
      BY <1>4, <2>6 DEF ExportCall
    <3> QED BY <1>1, <2>3, <2>4, <3>1 DEF HandedTyped, Exporters
  <2> QED BY <2>5, <2>6
<1>5. CASE DrainOne
  <2>1. Head(rawQueue) \in Ids
    BY <1>5, HeadTailProperties DEF DrainOne, RawTryRecv, FTyped, TypeOK
  <2>2. points' \in Seq(Ids')
    BY <1>1, <1>5, <2>1, LogGrows, AppendProperties DEF DrainOne, FTyped
  <2> QED BY <1>1, <1>5, <2>2 DEF DrainOne, HandedTyped, Exporters, histVars
<1>6. ASSUME \/ Tick \/ Notified \/ WorkerFlushStripe \/ ExportedAll \/ DrainEmpty \/ NextPass
             \/ Break \/ ExportReturn \/ ExportPanic
      PROVE  UNCHANGED <<metrics, points, manual, seen, seenRaw>>
  BY <1>6 DEF Tick, Notified, Wake, WorkerFlushStripe, ExportedAll, DrainEmpty, NextPass, Break,
              ExportReturn, ExportPanic, workerVars, histVars
<1> QED BY <1>2, <1>3, <1>4, <1>5, <1>6 DEF WorkerStep, WorkerOwn

\* Every step keeps the types.
LEMMA FTypedNext == FTyped /\ [FNext]_fvars => FTyped'
<1> SUFFICES ASSUME FTyped, [FNext]_fvars PROVE FTyped'
  OBVIOUS
<1>1. [Next]_vars /\ TypeOK'
  BY MapStep, TypeNext DEF FTyped
<1>2. /\ metrics \in Batches' /\ manual \in Batches'
      /\ \A f \in Flushers : batch[f] \in Batches'
      /\ points \in Seq(Ids')
      /\ seen \in [Exporters -> Seq(Batches')]
      /\ seenRaw \in [Exporters -> Seq(Ids')]
      /\ mark \in {NotYet} \cup 0 .. Len(log')
  BY <1>1, HandedGrows
<1>3. ASSUME UNCHANGED <<workerVars, stopVars, seen, seenRaw>>, manual' \in Batches'
      PROVE  FTyped'
  <2>1. WorkerTyped'
    BY <1>3 DEF FTyped, WorkerTyped, workerVars, Exporters
  <2>2. StopTyped'
    BY <1>2, <1>3 DEF FTyped, StopTyped, stopVars
  <2>3. HandedTyped'
    BY <1>2, <1>3 DEF HandedTyped, workerVars, Exporters
  <2> QED BY <1>1, <2>1, <2>2, <2>3 DEF FTyped
<1>4. CASE RecordCall \/ UNCHANGED fvars
  BY <1>2, <1>3, <1>4 DEF RecordCall, fvars, histVars, workerVars, stopVars
<1>5. ASSUME NEW f \in Flushers \ {Worker}, ManualFlush(f) \/ ManualReturn(f)
      PROVE  FTyped'
  <2>1. manual' \in Batches'
    BY <1>2, <1>5 DEF ManualFlush, ManualReturn, Batches, histVars
  <2> QED BY <1>3, <1>5, <2>1 DEF ManualFlush, ManualReturn, histVars
<1>6. ASSUME NEW t \in Stoppers, StopStep(t)
      PROVE  FTyped'
  <2>1. UNCHANGED <<vars, workerVars, histVars>>
    BY <1>6 DEF StopStep, NotifyOne, TakeHandle, Join
  <2>2. WorkerTyped'
    BY <2>1 DEF FTyped, WorkerTyped, workerVars, Exporters
  <2>3. HandedTyped'
    BY <1>2, <2>1 DEF HandedTyped, workerVars, histVars, Exporters
  <2>4. mark' \in {NotYet} \cup 0 .. Len(log')
    <3>1. mark' = mark \/ mark' = Len(log)
      BY <1>6 DEF StopStep, NotifyOne, TakeHandle, Join
    <3> QED BY <1>1, <1>2, <3>1, LogGrows DEF FTyped
  <2>5. StopTyped'
    BY <1>6, <2>4 DEF StopStep, NotifyOne, TakeHandle, Join, PermitStored, HolderWhileJoining,
                      FTyped, StopTyped, Nobody
  <2> QED BY <1>1, <2>2, <2>3, <2>5 DEF FTyped
<1>7. CASE WorkerStep \/ ExportReturn \/ ExportPanic
  <2>1. UNCHANGED <<handle, holder, spc, mark>> /\ permit' \in BOOLEAN
    BY <1>7 DEF WorkerStep, WorkerOwn, Tick, Notified, Wake, WorkerFlushStripe, WorkerFlushReturn,
                ExportCall, ExportedAll, DrainOne, DrainEmpty, NextPass, Break, ExportReturn,
                ExportPanic, stopVars, FTyped, StopTyped
  <2>2. StopTyped'
    BY <1>2, <2>1 DEF FTyped, StopTyped
  <2> QED BY <1>1, <1>7, <2>2, WorkerTypedStep, HandedTypedStep DEF FTyped
<1> QED BY <1>4, <1>5, <1>6, <1>7 DEF FNext, ApplicationStep

\* The initial state of a client is well-formed.
LEMMA FTypedInit == FInit => FTyped
<1> SUFFICES ASSUME FInit PROVE FTyped
  OBVIOUS
<1>1. TypeOK
  BY TypeInit DEF FInit
<1>2. WorkerTyped
  <2>1. 1 \in 1 .. NumExporters + 1
    BY WorkerAssumption
  <2> QED BY <2>1 DEF FInit, WorkerTyped
<1>3. StopTyped
  BY DEF FInit, StopTyped
<1>4. HandedTyped
  BY DEF FInit, HandedTyped, Batches
<1> QED BY <1>1, <1>2, <1>3, <1>4 DEF FTyped

\* The client stays well-formed: among others, the worker never calls an
\* exporter out of the list, and mark never points past the record calls made.
THEOREM FTypeCorrect == FSpec => []FTypeOK
<1>1. FTyped => FTypeOK
  BY DEF FTyped, FTypeOK, WorkerTyped, StopTyped, HandedTyped
<1> QED BY <1>1, FTypedInit, FTypedNext, PTL DEF FSpec

-----------------------------------------------------------------------------
(* ErrorsIsolated.                                                         *)

\* In the middle of a pass, exporter i has been called,
InTurn == wpc \in {"exporting", "awaiting"}
Called(i) == i < exporter \/ (wpc = "awaiting" /\ i = exporter)

\* ... and is then one batch, or the points of the pass, ahead of those that
\* have not.
Lockstep ==
    /\ ~InTurn /\ wpc # "panicked" =>
          \A i, j \in Exporters : seen[i] = seen[j] /\ seenRaw[i] = seenRaw[j]
    /\ InTurn /\ phase = "metrics" =>
          \A i, j \in Exporters :
             /\ seenRaw[i] = seenRaw[j]
             /\ (Called(i) <=> Called(j)) => seen[i] = seen[j]
             /\ Called(i) /\ ~Called(j) => seen[i] = Noted(seen[j], metrics)
    /\ InTurn /\ phase = "raw" =>
          \A i, j \in Exporters :
             /\ seen[i] = seen[j]
             /\ (Called(i) <=> Called(j)) => seenRaw[i] = seenRaw[j]
             /\ Called(i) /\ ~Called(j) => seenRaw[i] = seenRaw[j] \o points

\* Calling the exporter in turn brings it level with those called before.
LEMMA LockstepCall ==
  ASSUME FTyped, Lockstep, ExportCall
  PROVE  Lockstep'
<1>1. /\ wpc = "exporting" /\ exporter \in Exporters /\ wpc' = "awaiting"
      /\ UNCHANGED <<phase, exporter, metrics, points>>
  BY DEF ExportCall
<1>2. /\ seen \in [Exporters -> Seq(Batches)] /\ seenRaw \in [Exporters -> Seq(Ids)]
      /\ phase \in {"metrics", "raw"}
  BY DEF FTyped, HandedTyped, WorkerTyped
<1>3. \A i \in Exporters : /\ Called(i) <=> i < exporter
                           /\ Called(i)' <=> i < exporter \/ i = exporter
  BY <1>1 DEF Called
<1>4. ~Called(exporter) /\ InTurn /\ InTurn'
  BY <1>1, <1>3 DEF InTurn, Exporters
<1>5. CASE phase = "metrics"
  <2>1. /\ seenRaw' = seenRaw
        /\ seen'[exporter] = Noted(seen[exporter], metrics)
        /\ \A i \in Exporters \ {exporter} : seen'[i] = seen[i]
    BY <1>1, <1>2, <1>5 DEF ExportCall
  <2>2. \A i, j \in Exporters :
           /\ seenRaw[i] = seenRaw[j]
           /\ (Called(i) <=> Called(j)) => seen[i] = seen[j]
           /\ Called(i) /\ ~Called(j) => seen[i] = Noted(seen[j], metrics)
    BY <1>4, <1>5 DEF Lockstep
  <2>3. \A i \in Exporters :
           seen'[i] = IF Called(i)' THEN Noted(seen[exporter], metrics) ELSE seen[exporter]
    BY <1>1, <1>3, <1>4, <2>1, <2>2
  <2>4. \A i, j \in Exporters :
           /\ (Called(i)' <=> Called(j)') => seen'[i] = seen'[j]
           /\ Called(i)' /\ ~Called(j)' => seen'[i] = Noted(seen'[j], metrics)
    BY <2>3
  <2> QED BY <1>1, <1>4, <1>5, <2>1, <2>2, <2>4 DEF Lockstep, Noted, Exporters
<1>6. CASE phase = "raw"
  <2>1. /\ seen' = seen
        /\ seenRaw'[exporter] = seenRaw[exporter] \o points
        /\ \A i \in Exporters \ {exporter} : seenRaw'[i] = seenRaw[i]
    BY <1>1, <1>2, <1>6 DEF ExportCall
  <2>2. \A i, j \in Exporters :
           /\ seen[i] = seen[j]
           /\ (Called(i) <=> Called(j)) => seenRaw[i] = seenRaw[j]
           /\ Called(i) /\ ~Called(j) => seenRaw[i] = seenRaw[j] \o points
    BY <1>4, <1>6 DEF Lockstep
  <2>3. \A i \in Exporters :
           seenRaw'[i] = IF Called(i)' THEN seenRaw[exporter] \o points ELSE seenRaw[exporter]
    BY <1>1, <1>3, <1>4, <2>1, <2>2
  <2>4. \A i, j \in Exporters :
           /\ (Called(i)' <=> Called(j)') => seenRaw'[i] = seenRaw'[j]
           /\ Called(i)' /\ ~Called(j)' => seenRaw'[i] = seenRaw'[j] \o points
    BY <2>3
  <2> QED BY <1>1, <1>4, <1>6, <2>1, <2>2, <2>4 DEF Lockstep, Exporters
<1> QED BY <1>2, <1>5, <1>6

\* Nothing else hands anything to an exporter, and a pass ends when all have
\* been called.
LEMMA LockstepWorker ==
  ASSUME FTyped, StopInv, Lockstep, WorkerStep \/ ExportReturn \/ ExportPanic
  PROVE  Lockstep'
<1>1. CASE ExportCall
  BY <1>1, LockstepCall
<1>2. ASSUME UNCHANGED <<seen, seenRaw>>, ~InTurn, wpc # "panicked", ~InTurn'
      PROVE  Lockstep'
  BY <1>2 DEF Lockstep, Exporters
<1>3. ASSUME UNCHANGED <<seen, seenRaw>>, ~InTurn, wpc # "panicked", exporter' = 1, wpc' # "awaiting"
      PROVE  Lockstep'
  <2>1. \A i \in Exporters : ~Called(i)'
    BY <1>3 DEF Called, Exporters
  <2> QED BY <1>3, <2>1 DEF Lockstep, Exporters
<1>4. CASE Tick \/ Notified \/ NextPass \/ Break
  <2>1. /\ UNCHANGED <<seen, seenRaw>>
        /\ wpc \in {"waiting", "leaving"} /\ wpc' \in {"flushing", "waiting", "exited"}
    BY <1>4 DEF Tick, Notified, Wake, NextPass, Break, histVars
  <2> QED BY <1>2, <2>1 DEF InTurn
<1>5. CASE WorkerFlushStripe
  <2>1. UNCHANGED <<wpc, phase, exporter, metrics, points, seen, seenRaw>>
    BY <1>5 DEF WorkerFlushStripe, workerVars, histVars
  <2>2. InTurn' <=> InTurn
    BY <2>1 DEF InTurn
  <2>3. \A i : Called(i)' <=> Called(i)
    BY <2>1 DEF Called
  <2>4. \A i \in Exporters : Noted(seen[i], metrics)' = Noted(seen[i], metrics)
    BY <2>1 DEF Noted
  <2> QED BY <2>1, <2>2, <2>3, <2>4 DEF Lockstep, Exporters
<1>6. CASE DrainOne
  <2>1. UNCHANGED <<seen, seenRaw>> /\ wpc = "draining" /\ wpc' = "draining"
    BY <1>6 DEF DrainOne, histVars, workerVars
  <2> QED BY <1>2, <2>1 DEF InTurn
<1>7. CASE DrainEmpty
  BY <1>3, <1>7 DEF DrainEmpty, InTurn, histVars
<1>8. CASE ExportedAll
  <2>1. wpc = "exporting" /\ exporter \notin Exporters /\ wpc' \in {"draining", "leaving"}
        /\ UNCHANGED <<seen, seenRaw>>
    BY <1>8 DEF ExportedAll, histVars
  <2>2. exporter \in 1 .. NumExporters + 1 /\ NumExporters \in Nat /\ phase \in {"metrics", "raw"}
    BY WorkerAssumption DEF FTyped, WorkerTyped
  <2>3. \A i \in Exporters : Called(i)
    BY <2>1, <2>2 DEF Called, Exporters
  <2>4. \A i, j \in Exporters : seen[i] = seen[j] /\ seenRaw[i] = seenRaw[j]
    BY <2>1, <2>2, <2>3 DEF Lockstep, InTurn
  <2> QED BY <2>1, <2>4 DEF Lockstep, InTurn, Exporters
<1>9. CASE ExportReturn
  <2>1. /\ wpc = "awaiting" /\ wpc' = "exporting" /\ exporter' = exporter + 1
        /\ UNCHANGED <<seen, seenRaw, phase, metrics, points>>
    BY <1>9 DEF ExportReturn, AfterExport, histVars
  <2>2. exporter \in 1 .. NumExporters + 1 /\ NumExporters \in Nat
    BY WorkerAssumption DEF FTyped, WorkerTyped
  <2>3. \A i \in Exporters : Called(i)' <=> Called(i)
    BY <2>1, <2>2 DEF Called, Exporters
  <2>4. InTurn /\ InTurn'
    BY <2>1 DEF InTurn
  <2> QED BY <2>1, <2>3, <2>4 DEF Lockstep, Noted, Exporters
<1>10. CASE ExportPanic
  BY <1>10 DEF ExportPanic, Lockstep, InTurn
<1>11. CASE WorkerFlushReturn
  <2>1. UNCHANGED <<seen, seenRaw>> /\ exporter' = 1 /\ wpc' # "awaiting"
    BY <1>11 DEF WorkerFlushReturn, AfterEmptyBatch, histVars
  <2>2. wpc = "flushing"
    BY <1>11, SizeAssumption DEF WorkerFlushReturn, FlushReturn, Finished, StopInv, Idle
  <2> QED BY <1>3, <2>1, <2>2 DEF InTurn
<1> QED BY <1>1, <1>4, <1>5, <1>6, <1>7, <1>8, <1>9, <1>10, <1>11 DEF WorkerStep, WorkerOwn

\* The application leaves the worker and the exporters alone.
LEMMA ApplicationKeeps ==
  ASSUME ApplicationStep \/ UNCHANGED fvars
  PROVE  UNCHANGED <<wpc, final, phase, exporter, metrics, points, seen, seenRaw>>
  BY DEF ApplicationStep, RecordCall, ManualFlush, ManualReturn, StopStep, NotifyOne, TakeHandle,
         Join, workerVars, histVars, fvars

\* Every step keeps the exporters in step.
LEMMA LockstepNext == FTyped /\ StopInv /\ Lockstep /\ [FNext]_fvars => Lockstep'
<1> SUFFICES ASSUME FTyped, StopInv, Lockstep, [FNext]_fvars PROVE Lockstep'
  OBVIOUS
<1>1. CASE ApplicationStep \/ UNCHANGED fvars
  <2>1. UNCHANGED <<wpc, phase, exporter, metrics, points, seen, seenRaw>>
    BY <1>1, ApplicationKeeps
  <2>2. InTurn' = InTurn /\ \A i \in Exporters : Called(i)' = Called(i)
    BY <2>1 DEF InTurn, Called
  <2> QED BY <2>1, <2>2 DEF Lockstep, Exporters
<1> QED BY <1>1, LockstepWorker DEF FNext

\* The end of the worker and the types hold together.
LEMMA ClientInv == FSpec => [](FTyped /\ StopInv /\ IInv)
<1>1. FInit => StopInv
  BY WorkerAssumption DEF FInit, Init, StopInv, Gone, NoEarlyReturn, Idle
<1>2. FTyped => TypeOK
  BY DEF FTyped
<1> QED BY <1>1, <1>2, FTypedInit, FTypedNext, StopNext, MapInv, PTL DEF FSpec

\* An exporter that fails keeps nothing from the others: between passes all
\* exporters have been called with the same batches and the same points,
\* whatever any of them answered.
THEOREM ErrorsIsolatedHolds == FSpec => []ErrorsIsolated
<1>1. FInit => Lockstep
  BY DEF FInit, Lockstep, InTurn
<1>2. Lockstep => ErrorsIsolated
  BY DEF Lockstep, ErrorsIsolated, InTurn
<1> QED BY <1>1, <1>2, ClientInv, LockstepNext, PTL DEF FSpec

-----------------------------------------------------------------------------
(* RawInOrder.                                                             *)

\* The raw points an exporter got, will get in this pass, and later.
Stream(i) == (seenRaw[i] \o RawToCome(i)) \o rawQueue

Rising(s) == \A k \in 2 .. Len(s) : s[k - 1] < s[k]

\* A rising sequence rises on with a larger number,
LEMMA RisingAppend ==
  ASSUME NEW s \in Seq(Nat), NEW n \in Nat, Rising(s), \A x \in Range(s) : x < n
  PROVE  Rising(Append(s, n)) /\ Range(Append(s, n)) = Range(s) \cup {n}
<1>1. /\ Append(s, n) \in Seq(Nat) /\ Len(Append(s, n)) = Len(s) + 1
      /\ \A k \in 1 .. Len(s) : Append(s, n)[k] = s[k]
      /\ Append(s, n)[Len(s) + 1] = n
  BY AppendProperties
<1>2. Len(s) \in Nat /\ DOMAIN s = 1 .. Len(s) /\ \A k \in 1 .. Len(s) : s[k] \in Nat
  BY LenProperties, ElementOfSeq
<1>3. DOMAIN Append(s, n) = 1 .. Len(s) + 1
  BY <1>1, LenProperties
<1>4. Rising(Append(s, n))
  <2> SUFFICES ASSUME NEW k \in 2 .. Len(s) + 1
               PROVE  Append(s, n)[k - 1] < Append(s, n)[k]
    BY <1>1 DEF Rising
  <2>1. k - 1 \in 1 .. Len(s) /\ Append(s, n)[k - 1] = s[k - 1]
    BY <1>1, <1>2
  <2>2. CASE k = Len(s) + 1
    BY <1>1, <1>2, <2>1, <2>2 DEF Range
  <2>3. CASE k # Len(s) + 1
    BY <1>1, <1>2, <2>1, <2>3 DEF Rising
  <2> QED BY <2>2, <2>3
<1>5. \A x : x \in Range(Append(s, n)) <=> x \in Range(s) \cup {n}
  BY <1>1, <1>2, <1>3 DEF Range
<1> QED BY <1>4, <1>5

\* ... and so does each of its beginnings.
LEMMA RisingPrefix ==
  ASSUME NEW s \in Seq(Nat), NEW t \in Seq(Nat), Rising(s \o t)
  PROVE  Rising(s)
<1>1. /\ Len(s) \in Nat /\ Len(t) \in Nat /\ Len(s \o t) = Len(s) + Len(t)
      /\ \A k \in 1 .. Len(s) : (s \o t)[k] = s[k]
  BY ConcatProperties, LenProperties
<1> SUFFICES ASSUME NEW k \in 2 .. Len(s) PROVE s[k - 1] < s[k]
  BY DEF Rising
<1>2. k \in 2 .. Len(s \o t) /\ k - 1 \in 1 .. Len(s) /\ k \in 1 .. Len(s)
  BY <1>1
<1>3. (s \o t)[k - 1] < (s \o t)[k]
  BY <1>2 DEF Rising
<1> QED BY <1>1, <1>2, <1>3

\* What is moved from the front of one sequence to the end of another stays
\* where it is in both together.
LEMMA MoveHead ==
  ASSUME NEW s \in Seq(Nat), NEW p \in Seq(Nat), NEW q \in Seq(Nat), q # <<>>
  PROVE  (s \o Append(p, Head(q))) \o Tail(q) = (s \o p) \o q
<1> DEFINE moved == (s \o Append(p, Head(q))) \o Tail(q)
           whole == (s \o p) \o q
<1>1. moved \in Seq(Nat) /\ whole \in Seq(Nat) /\ Len(moved) = Len(whole)
  OBVIOUS
<1>2. \A k \in 1 .. Len(moved) : moved[k] = whole[k]
  OBVIOUS
<1> HIDE DEF moved, whole
<1>3. moved = whole
  BY <1>1, <1>2, SeqEqual
<1> QED BY <1>3 DEF moved, whole

\* A value appended to the last of two sequences is appended to both together.
LEMMA AppendToLast ==
  ASSUME NEW s \in Seq(Nat), NEW q \in Seq(Nat), NEW n \in Nat
  PROVE  s \o Append(q, n) = Append(s \o q, n)
<1>1. <<n>> \in Seq(Nat) /\ s \o q \in Seq(Nat)
  BY ConcatProperties
<1>2. Append(q, n) = q \o <<n>> /\ Append(s \o q, n) = (s \o q) \o <<n>>
  BY <1>1, AppendIsConcat
<1> QED BY <1>1, <1>2, ConcatAssociative

\* In order, complete while the worker lives; and the worker has no points while
\* it exports metrics.
RawInv ==
    /\ phase = "metrics" /\ InTurn => points = <<>>
    /\ ~Passthrough => rawQueue = <<>>
    /\ \A i \in Exporters :
          /\ Rising(Stream(i))
          /\ ~Gone => Range(Stream(i)) = RawSent

\* Streams are sequences of record calls.
LEMMA StreamType ==
  ASSUME FTyped, NEW i \in Exporters
  PROVE  /\ seenRaw[i] \in Seq(Nat) /\ points \in Seq(Nat) /\ rawQueue \in Seq(Nat)
         /\ RawToCome(i) \in Seq(Nat)
         /\ seenRaw[i] \o RawToCome(i) \in Seq(Nat)
         /\ Stream(i) \in Seq(Nat)
         /\ Range(Stream(i)) \subseteq Ids
<1>1. seenRaw[i] \in Seq(Ids) /\ points \in Seq(Ids) /\ rawQueue \in Seq(Ids)
  BY DEF FTyped, HandedTyped, TypeOK
<1>2. RawToCome(i) \in Seq(Ids)
  BY <1>1, EmptySeq DEF RawToCome
<1>3. seenRaw[i] \o RawToCome(i) \in Seq(Ids)
  BY <1>1, <1>2, ConcatProperties
<1>4. Stream(i) \in Seq(Ids)
  BY <1>1, <1>3, ConcatProperties DEF Stream
<1>5. Range(Stream(i)) \subseteq Ids
  BY <1>4, RangeOfSeq
<1>6. Seq(Ids) \subseteq Seq(Nat)
  <2>1. Ids \subseteq Nat
    BY DEF Ids
  <2> QED BY <2>1, SeqGrows
<1> QED BY <1>1, <1>2, <1>3, <1>4, <1>5, <1>6

\* Steps that make no record call leave the points sent as they are.
LEMMA RawSentSame ==
  ASSUME UNCHANGED <<log, refused>>
  PROVE  RawSent' = RawSent
  BY DEF RawSent, Ids, IsRaw, KindOf

\* A record call puts its point at the end of the channel, or nowhere.
LEMMA RawRecord ==
  ASSUME FTyped, NEW s \in Series, NEW v \in Values \cup {NaN},
         RecordCount(s, v) \/ RecordGauge(s, v) \/ RecordHistogram(s, v)
  PROVE  \/ rawQueue' = rawQueue /\ RawSent' = RawSent
         \/ /\ Passthrough
            /\ rawQueue' = Append(rawQueue, NextId)
            /\ RawSent' = RawSent \cup {NextId}
<1>1. /\ Log(s, v)
      /\ refused' = refused \/ refused' = refused \cup {NextId}
      /\ \/ Upsert(s, v)
         \/ Passthrough /\ Kind[s] = "histogram" /\ TrySend(s, v)
  BY RecordKinds
<1>2. /\ Ids' = Ids \cup {NextId} /\ NextId \notin Ids
      /\ \A id \in Ids : log'[id] = log[id]
      /\ log'[NextId] = [series |-> s, value |-> v]
  BY <1>1, LogStep DEF FTyped
<1>3. \A x : x \in RawSent <=>
                x \in Ids /\ x \notin refused /\ Passthrough /\ Kind[log[x].series] = "histogram"
  BY DEF RawSent, IsRaw, KindOf
<1>4. \A x : x \in RawSent' <=>
                x \in Ids' /\ x \notin refused' /\ Passthrough /\ Kind[log'[x].series] = "histogram"
  BY DEF RawSent, IsRaw, KindOf
<1>5. NextId \notin refused
  BY <1>2 DEF FTyped, TypeOK
<1>6. \A x : x # NextId => (x \in RawSent' <=> x \in RawSent)
  BY <1>1, <1>2, <1>3, <1>4
<1>7. NextId \in RawSent' <=> refused' = refused /\ Passthrough /\ Kind[s] = "histogram"
  BY <1>1, <1>2, <1>4, <1>5
<1>8. NextId \notin RawSent
  BY <1>2, <1>3
<1>9. CASE Passthrough /\ Kind[s] = "histogram"
  <2>1. TrySend(s, v)
    BY <1>9 DEF RecordCount, RecordGauge, RecordHistogram
  <2>2. \/ rawQueue' = Append(rawQueue, NextId) /\ refused' = refused
        \/ rawQueue' = rawQueue /\ refused' = refused \cup {NextId}
    BY <2>1 DEF TrySend
  <2>3. RawSent' = IF refused' = refused THEN RawSent \cup {NextId} ELSE RawSent
    BY <1>6, <1>7, <1>8, <1>9
  <2> QED BY <1>5, <1>9, <2>2, <2>3
<1>10. CASE ~(Passthrough /\ Kind[s] = "histogram")
  <2>1. rawQueue' = rawQueue
    BY <1>10 DEF RecordCount, RecordGauge, RecordHistogram
  <2> QED BY <1>6, <1>7, <1>8, <1>10, <2>1
<1> QED BY <1>9, <1>10

\* Steps that move no point keep the invariant,
LEMMA RawStays ==
  ASSUME RawInv, UNCHANGED <<seenRaw, rawQueue, log, refused>>, Gone' <=> Gone,
         \A i \in Exporters : RawToCome(i)' = RawToCome(i),
         phase' = "metrics" /\ InTurn' => points' = <<>>
  PROVE  RawInv'
<1>1. RawSent' = RawSent
  BY RawSentSame
<1>2. \A i \in Exporters : Stream(i)' = Stream(i)
  BY DEF Stream
<1> QED BY <1>1, <1>2 DEF RawInv, Exporters

\* ... and so do those that move points along the stream of each exporter.
LEMMA RawMoves ==
  ASSUME RawInv, UNCHANGED <<log, refused>>, Gone' <=> Gone,
         \A i \in Exporters : Stream(i)' = Stream(i),
         ~Passthrough => rawQueue' = <<>>,
         phase' = "metrics" /\ InTurn' => points' = <<>>
  PROVE  RawInv'
<1>1. RawSent' = RawSent
  BY RawSentSame
<1> QED BY <1>1 DEF RawInv, Exporters

\* The end of the thread cuts the streams off.
LEMMA RawCut ==
  ASSUME FTyped, RawInv, DropReceiver, Gone', UNCHANGED <<seenRaw, points, phase>>
  PROVE  RawInv'
<1>1. rawQueue' = <<>> /\ ~InTurn'
  <2>1. CASE Passthrough
    BY <2>1 DEF DropReceiver, RawReceiverDropped, Gone, InTurn
  <2>2. CASE ~Passthrough
    BY <2>2 DEF DropReceiver, RawInv, vars, Gone, InTurn
  <2> QED BY <2>1, <2>2
<1>2. ASSUME NEW i \in Exporters PROVE Rising(Stream(i)')
  <2>1. RawToCome(i)' = <<>>
    BY DEF Gone, RawToCome
  <2>2. /\ seenRaw[i] \in Seq(Nat) /\ RawToCome(i) \in Seq(Nat) /\ rawQueue \in Seq(Nat)
        /\ seenRaw[i] \o RawToCome(i) \in Seq(Nat)
    BY StreamType
  <2>3. (seenRaw[i] \o <<>>) \o <<>> = seenRaw[i]
    BY <2>2, ConcatEmptySeq
  <2>4. Stream(i)' = seenRaw[i]
    BY <1>1, <2>1, <2>3 DEF Stream
  <2>5. Rising((seenRaw[i] \o RawToCome(i)) \o rawQueue)
    BY DEF RawInv, Stream
  <2>6. Rising(seenRaw[i])
    BY <2>2, <2>5, RisingPrefix
  <2> QED BY <2>4, <2>6
<1> QED BY <1>1, <1>2 DEF RawInv, Rising, Exporters

\* A call of export_raw_points hands an exporter the points it was to get.
LEMMA RawCall ==
  ASSUME FTyped, RawInv, ExportCall
  PROVE  RawInv'
<1>1. /\ wpc = "exporting" /\ exporter \in Exporters /\ wpc' = "awaiting"
      /\ UNCHANGED <<vars, phase, exporter, metrics, points>>
      /\ phase \in {"metrics", "raw"}
  BY DEF ExportCall, FTyped, WorkerTyped
<1>2. ~Gone /\ ~Gone' /\ (InTurn' <=> InTurn)
  BY <1>1 DEF Gone, InTurn
<1>3. CASE phase = "metrics"
  <2>1. seenRaw' = seenRaw
    BY <1>3 DEF ExportCall
  <2>2. \A i \in Exporters : RawToCome(i)' = RawToCome(i)
    BY <1>1, <1>3 DEF RawToCome
  <2> QED BY <1>1, <1>2, <2>1, <2>2, RawStays DEF RawInv, vars
<1>4. CASE phase = "raw"
  <2>1. seenRaw' = [seenRaw EXCEPT ![exporter] = seenRaw[exporter] \o points]
    BY <1>4 DEF ExportCall
  <2>2. ASSUME NEW i \in Exporters PROVE Stream(i)' = Stream(i)
    <3>1. CASE i = exporter
      <4>1. seenRaw[i] \in Seq(Nat) /\ points \in Seq(Nat)
        BY StreamType
      <4>2. RawToCome(i) = points /\ RawToCome(i)' = <<>>
        BY <1>1, <1>4, <3>1 DEF RawToCome, Exporters
      <4>3. seenRaw'[i] = seenRaw[i] \o points
        BY <2>1, <3>1 DEF FTyped, HandedTyped
      <4>4. seenRaw[i] \o points \in Seq(Nat)
        BY <4>1, ConcatProperties
      <4>5. (seenRaw[i] \o points) \o <<>> = seenRaw[i] \o points
        BY <4>4, ConcatEmptySeq
      <4> QED BY <1>1, <4>2, <4>3, <4>5 DEF Stream, vars
    <3>2. CASE i # exporter
      <4>1. RawToCome(i)' = RawToCome(i)
        BY <1>1, <1>4, <3>2 DEF RawToCome, Exporters
      <4>2. seenRaw'[i] = seenRaw[i]
        BY <2>1, <3>2 DEF FTyped, HandedTyped
      <4> QED BY <1>1, <4>1, <4>2 DEF Stream, vars
    <3> QED BY <3>1, <3>2
  <2> QED BY <1>1, <1>2, <1>4, <2>2, RawMoves DEF RawInv, vars
<1> QED BY <1>1, <1>3, <1>4

\* A point received leaves the channel for the points of the pass.
LEMMA RawDrain ==
  ASSUME FTyped, RawInv, DrainOne
  PROVE  RawInv'
<1>1. /\ wpc = "draining" /\ rawQueue # <<>>
      /\ points' = Append(points, Head(rawQueue)) /\ rawQueue' = Tail(rawQueue)
      /\ UNCHANGED <<wpc, phase, seenRaw, log, refused>>
  BY DEF DrainOne, RawTryRecv, histVars
<1>2. ASSUME NEW i \in Exporters PROVE Stream(i)' = Stream(i)
  <2>1. seenRaw[i] \in Seq(Nat) /\ points \in Seq(Nat) /\ rawQueue \in Seq(Nat)
    BY StreamType
  <2>2. RawToCome(i) = points /\ RawToCome(i)' = points'
    BY <1>1 DEF RawToCome
  <2>3. (seenRaw[i] \o Append(points, Head(rawQueue))) \o Tail(rawQueue)
           = (seenRaw[i] \o points) \o rawQueue
    BY <1>1, <2>1, MoveHead
  <2> QED BY <1>1, <2>2, <2>3 DEF Stream
<1>3. Passthrough /\ ~InTurn' /\ (Gone' <=> Gone)
  BY <1>1 DEF RawInv, InTurn, Gone
<1> QED BY <1>1, <1>2, <1>3, RawMoves

\* The worker's and the exporters' steps keep the invariant.
LEMMA RawWorker ==
  ASSUME FTyped, StopInv, RawInv, WorkerStep \/ ExportReturn \/ ExportPanic
  PROVE  RawInv'
<1>1. CASE Tick \/ Notified
  <2>1. /\ wpc = "waiting" /\ wpc' = "flushing"
        /\ UNCHANGED <<seenRaw, rawQueue, log, refused>>
    BY <1>1 DEF Tick, Notified, Wake, FlushStart, histVars
  <2> QED BY <2>1, RawStays DEF RawToCome, Gone, InTurn
<1>2. CASE WorkerFlushStripe
  <2>1. UNCHANGED <<wpc, phase, exporter, points, seenRaw, rawQueue, log, refused>>
    BY <1>2 DEF WorkerFlushStripe, FlushStripe, workerVars, histVars
  <2> QED BY <2>1, RawStays DEF RawToCome, Gone, InTurn, RawInv
<1>3. CASE WorkerFlushReturn
  <2>1. /\ wpc' \in {"draining", "exporting"} /\ points' = <<>>
        /\ phase' = "metrics"
        /\ UNCHANGED <<seenRaw, rawQueue, log, refused>>
    BY <1>3 DEF WorkerFlushReturn, FlushReturn, AfterEmptyBatch, NewPoints, histVars
  <2>2. wpc = "flushing"
    BY <1>3, SizeAssumption DEF WorkerFlushReturn, FlushReturn, Finished, StopInv, Idle
  <2>3. \A i \in Exporters : RawToCome(i)' = RawToCome(i)
    BY <2>1, <2>2 DEF RawToCome
  <2> QED BY <2>1, <2>2, <2>3, RawStays DEF Gone
<1>4. CASE ExportCall
  BY <1>4, RawCall
<1>5. CASE ExportedAll
  <2>1. /\ wpc = "exporting" /\ exporter \notin Exporters
        /\ wpc' = IF phase = "metrics" THEN "draining" ELSE "leaving"
        /\ UNCHANGED <<phase, exporter, points, seenRaw, rawQueue, log, refused>>
    BY <1>5 DEF ExportedAll, vars, histVars
  <2>2. exporter \in 1 .. NumExporters + 1 /\ NumExporters \in Nat /\ phase \in {"metrics", "raw"}
    BY WorkerAssumption DEF FTyped, WorkerTyped
  <2>3. phase = "metrics" => points = <<>>
    BY <2>1 DEF RawInv, InTurn
  <2>4. \A i \in Exporters : ~(exporter <= i)
    BY <2>1, <2>2 DEF Exporters
  <2>5. \A i \in Exporters : RawToCome(i)' = RawToCome(i)
    BY <2>1, <2>2, <2>3, <2>4 DEF RawToCome
  <2> QED BY <2>1, <2>5, RawStays DEF Gone, InTurn
<1>6. CASE DrainOne
  BY <1>6, RawDrain
<1>7. CASE DrainEmpty
  <2>1. /\ wpc = "draining" /\ phase' = "raw" /\ exporter' = 1
        /\ wpc' = IF points = <<>> THEN "leaving" ELSE "exporting"
        /\ UNCHANGED <<points, seenRaw, rawQueue, log, refused>>
    BY <1>7 DEF DrainEmpty, vars, histVars
  <2>2. \A i \in Exporters : RawToCome(i)' = RawToCome(i)
    BY <2>1 DEF RawToCome, Exporters
  <2> QED BY <2>1, <2>2, RawStays DEF Gone
<1>8. CASE NextPass
  <2>1. /\ wpc = "leaving" /\ wpc' = "waiting"
        /\ UNCHANGED <<seenRaw, rawQueue, log, refused>>
    BY <1>8 DEF NextPass, vars, histVars
  <2> QED BY <2>1, RawStays DEF RawToCome, Gone, InTurn
<1>9. CASE ExportReturn
  <2>1. /\ wpc = "awaiting" /\ wpc' = "exporting" /\ exporter' = exporter + 1
        /\ UNCHANGED <<phase, points, seenRaw, rawQueue, log, refused>>
    BY <1>9 DEF ExportReturn, AfterExport, vars, histVars
  <2>2. exporter \in Nat
    BY DEF FTyped, WorkerTyped
  <2>3. \A i \in Exporters : exporter < i <=> exporter + 1 <= i
    BY <2>2 DEF Exporters
  <2>4. \A i \in Exporters : RawToCome(i)' = RawToCome(i)
    BY <2>1, <2>3 DEF RawToCome
  <2> QED BY <2>1, <2>4, RawStays DEF Gone, InTurn, RawInv
<1>10. CASE Break \/ ExportPanic
  BY <1>10, RawCut DEF Break, ExportPanic, Gone, histVars
<1> QED BY <1>1, <1>2, <1>3, <1>4, <1>5, <1>6, <1>7, <1>8, <1>9, <1>10 DEF WorkerStep, WorkerOwn

\* A point sent is the last of every stream.
LEMMA RawSend ==
  ASSUME FTyped, RawInv, RecordCall
  PROVE  RawInv'
<1>1. UNCHANGED <<wpc, phase, exporter, points, seenRaw>>
  BY DEF RecordCall, workerVars, histVars
<1>2. PICK s \in Series, v \in Values \cup {NaN} :
         RecordCount(s, v) \/ RecordGauge(s, v) \/ RecordHistogram(s, v)
  BY DEF RecordCall, Record
<1>3. \A i \in Exporters : RawToCome(i)' = RawToCome(i)
  BY <1>1 DEF RawToCome
<1>4. (Gone' <=> Gone) /\ (InTurn' <=> InTurn)
  BY <1>1 DEF Gone, InTurn
<1>5. CASE rawQueue' = rawQueue /\ RawSent' = RawSent
  <2>1. \A i \in Exporters : Stream(i)' = Stream(i)
    BY <1>1, <1>3, <1>5 DEF Stream
  <2> QED BY <1>1, <1>4, <1>5, <2>1 DEF RawInv, Exporters
<1>6. CASE /\ Passthrough
           /\ rawQueue' = Append(rawQueue, NextId)
           /\ RawSent' = RawSent \cup {NextId}
  <2>1. NextId \in Nat /\ \A x \in Ids : x < NextId
    BY DEF FTyped, TypeOK, NextId, Ids
  <2>2. ASSUME NEW i \in Exporters
        PROVE  /\ Rising(Stream(i)')
               /\ Range(Stream(i)') = Range(Stream(i)) \cup {NextId}
    <3>1. /\ Stream(i) \in Seq(Nat) /\ Range(Stream(i)) \subseteq Ids
          /\ seenRaw[i] \o RawToCome(i) \in Seq(Nat) /\ rawQueue \in Seq(Nat)
      BY StreamType
    <3>2. Stream(i)' = Append(Stream(i), NextId)
      <4>1. Stream(i)' = (seenRaw[i] \o RawToCome(i)) \o Append(rawQueue, NextId)
        BY <1>1, <1>3, <1>6 DEF Stream
      <4> QED BY <2>1, <3>1, <4>1, AppendToLast DEF Stream
    <3> QED BY <2>1, <3>1, <3>2, RisingAppend DEF RawInv
  <2> QED BY <1>1, <1>4, <1>6, <2>2 DEF RawInv, Rising, Exporters
<1> QED BY <1>2, <1>5, <1>6, RawRecord

\* Every step keeps the invariant.
LEMMA RawNext == FTyped /\ StopInv /\ RawInv /\ [FNext]_fvars => RawInv'
<1> SUFFICES ASSUME FTyped, StopInv, RawInv, [FNext]_fvars PROVE RawInv'
  OBVIOUS
<1>1. CASE (ApplicationStep /\ ~RecordCall) \/ UNCHANGED fvars
  <2>1. UNCHANGED <<wpc, phase, exporter, points, seenRaw>>
    BY <1>1, ApplicationKeeps
  <2>2. UNCHANGED <<rawQueue, log, refused>>
    BY <1>1 DEF ApplicationStep, ManualFlush, ManualReturn, FlushStart, FlushStripe, FlushReturn,
                StopStep, NotifyOne, TakeHandle, Join, fvars, vars
  <2> QED BY <2>1, <2>2, RawStays DEF RawToCome, Gone, InTurn, RawInv
<1> QED BY <1>1, RawSend, RawWorker DEF FNext

\* No raw point is lost, repeated or overtaken between the channel and any of
\* the exporters: what an exporter was handed, and what is still on its way to
\* it, is every point sent, in the order in which they were sent.
THEOREM RawInOrderHolds == FSpec => []RawInOrder
<1>1. FInit => RawInv
  <2> SUFFICES ASSUME FInit PROVE RawInv
    OBVIOUS
  <2>1. \A i \in Exporters : RawToCome(i) = <<>> /\ seenRaw[i] = <<>> /\ rawQueue = <<>>
    BY DEF FInit, Init, RawToCome
  <2>2. \A i \in Exporters : Stream(i) = <<>>
    BY <2>1 DEF Stream
  <2>3. RawSent = {}
    BY DEF FInit, Init, RawSent, Ids
  <2>4. Rising(<<>>) /\ Range(<<>>) = {}
    BY DEF Rising, Range
  <2> QED BY <2>2, <2>3, <2>4 DEF FInit, Init, RawInv
<1>2. RawInv => RawInOrder
  BY DEF RawInv, RawInOrder, Rising, Stream, Range
<1> QED BY <1>1, <1>2, ClientInv, RawNext, PTL DEF FSpec

-----------------------------------------------------------------------------
(* FinalFlush: where the flushed metrics are.                              *)

\* What exporter i is still to get of the metrics of the pass.
ToCome(i) ==
    IF phase = "metrics" /\ InTurn /\ ~Called(i) THEN Sources(metrics) ELSE {}

\* What flushes have returned was handed to each exporter, or is about to be, or
\* went to a flush() of the application.
Handed ==
    wpc # "panicked" =>
        \A i \in Exporters :
            Sources(returned) \subseteq SeenBy(i) \cup ToCome(i) \cup Sources(manual)

\* What it means that an exporter has been called with a record call,
LEMMA InSeenBy ==
  ASSUME NEW i, NEW x
  PROVE  x \in SeenBy(i) <=> \E k \in DOMAIN seen[i] : x \in Sources(seen[i][k])
  BY DEF SeenBy

\* ... and that a batch noted is added to it, unless it adds nothing.
LEMMA NotedSources ==
  ASSUME NEW S, NEW b \in Seq(S), NEW M \in S, NEW x
  PROVE  (\E k \in DOMAIN Noted(b, M) : x \in Sources(Noted(b, M)[k]))
            <=> (\E k \in DOMAIN b : x \in Sources(b[k])) \/ x \in Sources(M)
<1>1. Len(b) \in Nat /\ DOMAIN b = 1 .. Len(b)
  BY LenProperties
<1>2. CASE Noted(b, M) = b /\ Sources(M) = {}
  BY <1>2
<1>3. CASE Noted(b, M) = Append(b, M)
  <2>1. /\ DOMAIN Append(b, M) = 1 .. Len(b) + 1
        /\ \A k \in 1 .. Len(b) : Append(b, M)[k] = b[k]
        /\ Append(b, M)[Len(b) + 1] = M
    BY <1>1, AppendProperties, LenProperties
  <2>2. 1 .. Len(b) + 1 = (1 .. Len(b)) \cup {Len(b) + 1}
    BY <1>1
  <2> QED BY <1>1, <1>3, <2>1, <2>2
<1> QED BY <1>2, <1>3 DEF Noted

\* Nothing new has been returned, and nothing was handed over.
LEMMA HandedStays ==
  ASSUME Handed, UNCHANGED <<returned, seen, manual>>,
         wpc' # "panicked" => wpc # "panicked",
         \A i \in Exporters : ToCome(i)' = ToCome(i)
  PROVE  Handed'
<1>1. \A i \in Exporters : SeenBy(i)' = SeenBy(i)
  BY DEF SeenBy, Sources, IsGauge
<1>2. Sources(returned)' = Sources(returned) /\ Sources(manual)' = Sources(manual)
  BY DEF Sources, IsGauge
<1> QED BY <1>1, <1>2 DEF Handed, Exporters

\* A call of export() hands an exporter the metrics it was to get.
LEMMA HandedCall ==
  ASSUME FTyped, Handed, ExportCall
  PROVE  Handed'
<1>1. /\ wpc = "exporting" /\ exporter \in Exporters /\ wpc' = "awaiting"
      /\ UNCHANGED <<vars, phase, exporter, metrics, points, manual>>
      /\ phase \in {"metrics", "raw"}
  BY DEF ExportCall, FTyped, WorkerTyped
<1>2. \A i \in Exporters : /\ Called(i) <=> i < exporter
                           /\ Called(i)' <=> i < exporter \/ i = exporter
  BY <1>1 DEF Called
<1>3. CASE phase = "raw"
  <2>1. seen' = seen
    BY <1>3 DEF ExportCall
  <2>2. \A i \in Exporters : ToCome(i)' = ToCome(i)
    BY <1>1, <1>3 DEF ToCome
  <2> QED BY <1>1, <2>1, <2>2, HandedStays DEF vars
<1>4. CASE phase = "metrics"
  <2>1. seen' = [seen EXCEPT ![exporter] = Noted(seen[exporter], metrics)]
    BY <1>4 DEF ExportCall
  <2>2. /\ Sources(returned)' = Sources(returned) /\ Sources(manual)' = Sources(manual)
        /\ Sources(metrics)' = Sources(metrics)
    BY <1>1 DEF Sources, IsGauge, vars
  <2>3. ASSUME NEW i \in Exporters, NEW x \in Sources(returned)
        PROVE  x \in SeenBy(i)' \cup ToCome(i)' \cup Sources(manual)
    <3>1. x \in SeenBy(i) \/ x \in ToCome(i) \/ x \in Sources(manual)
      BY <1>1 DEF Handed
    <3>2. CASE i # exporter
      <4>1. seen'[i] = seen[i]
        BY <2>1, <3>2 DEF FTyped, HandedTyped
      <4>2. SeenBy(i)' = SeenBy(i)
        BY <4>1 DEF SeenBy, Sources, IsGauge
      <4>3. ToCome(i)' = ToCome(i)
        BY <1>1, <1>2, <2>2, <3>2 DEF ToCome, InTurn
      <4> QED BY <3>1, <4>2, <4>3
    <3>3. CASE i = exporter
      <4>1. /\ seen'[i] = Noted(seen[i], metrics)
            /\ seen[i] \in Seq(Batches) /\ metrics \in Batches
        BY <2>1, <3>3 DEF FTyped, HandedTyped
      <4>2. x \in SeenBy(i) \/ x \in Sources(metrics) => x \in SeenBy(i)'
        <5>1. x \in SeenBy(i)' <=> \E k \in DOMAIN seen'[i] : x \in Sources(seen'[i][k])
          BY DEF SeenBy, Sources, IsGauge
        <5>2. x \in SeenBy(i) <=> \E k \in DOMAIN seen[i] : x \in Sources(seen[i][k])
          BY InSeenBy
        <5>3. (\E k \in DOMAIN seen'[i] : x \in Sources(seen'[i][k]))
                 <=> (\E k \in DOMAIN seen[i] : x \in Sources(seen[i][k])) \/ x \in Sources(metrics)
          BY <4>1, NotedSources
        <5> QED BY <5>1, <5>2, <5>3
      <4>3. ToCome(i) \subseteq Sources(metrics)
        BY DEF ToCome
      <4> QED BY <3>1, <4>2, <4>3
    <3> QED BY <3>2, <3>3
  <2> QED BY <2>2, <2>3 DEF Handed, Exporters
<1> QED BY <1>1, <1>3, <1>4

\* What the worker's flush returned is to be handed to every exporter.
LEMMA HandedReturn ==
  ASSUME FTyped, StopInv, Handed, WorkerFlushReturn
  PROVE  Handed'
<1>1. /\ returned' = returned \cup batch[Worker] /\ metrics' = batch[Worker]
      /\ phase' = "metrics" /\ exporter' = 1
      /\ wpc' = IF metrics' = {} THEN "draining" ELSE "exporting"
      /\ UNCHANGED <<seen, manual>>
  BY DEF WorkerFlushReturn, FlushReturn, AfterEmptyBatch, histVars
<1>2. wpc = "flushing"
  BY SizeAssumption DEF WorkerFlushReturn, FlushReturn, Finished, StopInv, Idle
<1>3. \A x : x \in Sources(returned') <=> x \in Sources(returned) \/ x \in Sources(metrics')
  BY <1>1, InSources
<1>4. ASSUME NEW i \in Exporters
      PROVE  ToCome(i) = {} /\ ToCome(i)' = Sources(metrics')
  <2>1. ToCome(i) = {}
    BY <1>2 DEF ToCome, InTurn
  <2>2. CASE metrics' = {}
    <3>1. Sources(metrics') = {}
      BY <2>2 DEF Sources
    <3> QED BY <1>1, <2>1, <2>2, <3>1 DEF ToCome, InTurn
  <2>3. CASE metrics' # {}
    <3>1. InTurn' /\ ~Called(i)'
      BY <1>1, <2>3 DEF InTurn, Called, Exporters
    <3>2. Sources(metrics)' = Sources(metrics')
      BY DEF Sources, IsGauge
    <3> QED BY <1>1, <2>1, <3>1, <3>2 DEF ToCome
  <2> QED BY <2>2, <2>3
<1>5. /\ \A i \in Exporters : SeenBy(i)' = SeenBy(i)
      /\ Sources(manual)' = Sources(manual) /\ Sources(returned)' = Sources(returned')
  BY <1>1 DEF SeenBy, Sources, IsGauge
<1>6. \A i \in Exporters :
         Sources(returned) \subseteq SeenBy(i) \cup ToCome(i) \cup Sources(manual)
  BY <1>2 DEF Handed
<1> QED BY <1>3, <1>4, <1>5, <1>6 DEF Handed, Exporters

\* Apart from the end of its flush and the calls of exporters, the worker hands
\* nothing over, and a panic alone takes anything from what is to come.
LEMMA WorkerElse ==
  ASSUME FTyped, StopInv, WorkerStep \/ ExportReturn \/ ExportPanic,
         ~WorkerFlushReturn, ~ExportCall
  PROVE  /\ UNCHANGED <<returned, seen, manual>> /\ wpc # "panicked"
         /\ \A i \in Exporters : ToCome(i)' = IF ExportPanic THEN {} ELSE ToCome(i)
<1>1. CASE Tick \/ Notified
  <2>1. wpc = "waiting" /\ wpc' = "flushing" /\ UNCHANGED <<returned, seen, manual>>
    BY <1>1 DEF Tick, Notified, Wake, FlushStart, histVars
  <2> QED BY <2>1 DEF ToCome, InTurn
<1>2. CASE WorkerFlushStripe
  <2>1. UNCHANGED <<returned, seen, manual, wpc, phase, exporter, metrics>> /\ wpc = "flushing"
    BY <1>2, SizeAssumption
       DEF WorkerFlushStripe, FlushStripe, Visiting, StopInv, Idle, workerVars, histVars
  <2> QED BY <2>1 DEF ToCome, InTurn
<1>5. CASE ExportedAll
  <2>1. /\ wpc = "exporting" /\ exporter \notin Exporters
        /\ wpc' \in {"draining", "leaving"}
        /\ UNCHANGED <<returned, seen, manual>>
    BY <1>5 DEF ExportedAll, vars, histVars
  <2>2. exporter \in 1 .. NumExporters + 1 /\ NumExporters \in Nat
    BY WorkerAssumption DEF FTyped, WorkerTyped
  <2>3. \A i \in Exporters : Called(i)
    BY <2>1, <2>2 DEF Called, Exporters
  <2>4. \A i \in Exporters : ToCome(i)' = {} /\ ToCome(i) = {}
    BY <2>1, <2>3 DEF ToCome, InTurn
  <2> QED BY <2>1, <2>4
<1>6. CASE DrainOne
  <2>1. UNCHANGED <<returned, seen, manual, wpc>> /\ wpc = "draining"
    BY <1>6 DEF DrainOne, RawTryRecv, histVars
  <2> QED BY <2>1 DEF ToCome, InTurn
<1>7. CASE DrainEmpty
  <2>1. UNCHANGED <<returned, seen, manual>> /\ phase' = "raw" /\ wpc = "draining"
    BY <1>7 DEF DrainEmpty, vars, histVars
  <2> QED BY <2>1 DEF ToCome, InTurn
<1>8. CASE NextPass \/ Break
  <2>1. /\ UNCHANGED <<returned, seen, manual>>
        /\ wpc = "leaving" /\ wpc' \in {"waiting", "exited"}
    BY <1>8 DEF NextPass, Break, DropReceiver, RawReceiverDropped, vars, histVars
  <2> QED BY <2>1 DEF ToCome, InTurn
<1>10. CASE ExportReturn
  <2>1. /\ wpc = "awaiting" /\ wpc' = "exporting" /\ exporter' = exporter + 1
        /\ UNCHANGED <<phase, metrics, returned, seen, manual>>
    BY <1>10 DEF ExportReturn, AfterExport, vars, histVars
  <2>2. exporter \in Nat
    BY DEF FTyped, WorkerTyped
  <2>3. \A i \in Exporters : Called(i)' <=> Called(i)
    BY <2>1, <2>2 DEF Called, Exporters
  <2>4. ~ExportPanic
    BY <2>1 DEF ExportPanic
  <2> QED BY <2>1, <2>3, <2>4 DEF ToCome, InTurn
<1>11. CASE ExportPanic
  <2>1. wpc = "awaiting" /\ wpc' = "panicked" /\ UNCHANGED <<returned, seen, manual>>
    BY <1>11 DEF ExportPanic, DropReceiver, RawReceiverDropped, vars, histVars
  <2> QED BY <1>11, <2>1 DEF ToCome, InTurn
<1>12. ASSUME Tick \/ Notified \/ WorkerFlushStripe \/ ExportedAll \/ DrainOne \/ DrainEmpty
              \/ NextPass \/ Break
       PROVE  ~ExportPanic
  BY <1>12 DEF Tick, Notified, Wake, WorkerFlushStripe, ExportedAll, DrainOne, DrainEmpty, NextPass,
               Break, ExportPanic, workerVars
<1> QED BY <1>1, <1>2, <1>5, <1>6, <1>7, <1>8, <1>10, <1>11, <1>12 DEF WorkerStep, WorkerOwn

\* The worker's and the exporters' steps keep track of what was returned.
LEMMA HandedWorker ==
  ASSUME FTyped, StopInv, Handed, WorkerStep \/ ExportReturn \/ ExportPanic
  PROVE  Handed'
<1>1. CASE ExportPanic
  BY <1>1 DEF ExportPanic, Handed
<1>2. CASE ~ExportPanic /\ ~WorkerFlushReturn /\ ~ExportCall
  BY <1>2, WorkerElse, HandedStays
<1> QED BY <1>1, <1>2, HandedCall, HandedReturn

\* So do all others: what a flush() of the application returned is its own.
LEMMA HandedNext == FTyped /\ StopInv /\ Handed /\ [FNext]_fvars => Handed'
<1> SUFFICES ASSUME FTyped, StopInv, Handed, [FNext]_fvars PROVE Handed'
  OBVIOUS
<1>1. CASE ApplicationStep \/ UNCHANGED fvars
  <2>1. UNCHANGED <<wpc, phase, exporter, metrics, seen>>
    BY <1>1, ApplicationKeeps
  <2>2. \A i \in Exporters : ToCome(i)' = ToCome(i) /\ SeenBy(i)' = SeenBy(i)
    BY <2>1 DEF ToCome, InTurn, Called, SeenBy, Sources, IsGauge
  <2>3. ASSUME NEW f \in Flushers \ {Worker}, ManualReturn(f) PROVE Handed'
    <3>1. returned' = returned \cup batch[f] /\ manual' = manual \cup batch[f]
      BY <2>3 DEF ManualReturn, FlushReturn
    <3>2. \A x : /\ x \in Sources(returned)' <=> x \in Sources(returned) \/ x \in Sources(batch[f])
                 /\ x \in Sources(manual)' <=> x \in Sources(manual) \/ x \in Sources(batch[f])
      BY <3>1 DEF Sources, IsGauge
    <3> QED BY <2>1, <2>2, <3>2 DEF Handed, Exporters
  <2>4. ASSUME ~\E f \in Flushers \ {Worker} : ManualReturn(f)
        PROVE  UNCHANGED <<returned, manual>>
    BY <1>1, <2>4 DEF ApplicationStep, RecordCall, Record, RecordCount, RecordGauge, RecordHistogram,
                      ManualFlush, FlushStart, FlushStripe, StopStep, NotifyOne, TakeHandle, Join,
                      histVars, fvars, vars
  <2> QED BY <2>1, <2>2, <2>3, <2>4, HandedStays
<1> QED BY <1>1, HandedWorker DEF FNext

-----------------------------------------------------------------------------
(* FinalFlush: what the last pass covers.                                  *)

\* The last pass begins after shutdown() was called; its flush covers what was
\* recorded before, and then none of it is left in the map.
Cover ==
    /\ permit \/ final => mark # NotYet
    /\ wpc = "waiting" => ~final
    /\ wpc = "exited" => final
    /\ final /\ wpc = "flushing" => mark <= since[Worker] /\ cursor[Worker] # Idle
    /\ final /\ wpc \notin {"flushing", "panicked"} =>
          \A id \in Accepted : id <= mark => id \notin Pending

\* No step accepts or brings back a record call made earlier.
LEMMA MapCovers ==
  ASSUME IInv, [Next]_vars, NEW id, id <= Len(log)
  PROVE  /\ id \in Accepted' => id \in Accepted
         /\ id \in Pending' => id \in Pending
<1>1. ASSUME NEW s \in Series, NEW v \in Values \cup {NaN},
             RecordCount(s, v) \/ RecordGauge(s, v) \/ RecordHistogram(s, v)
      PROVE  /\ id \in Accepted' => id \in Accepted
             /\ id \in Pending' => id \in Pending
  <2>1. \/ Accepted' = Accepted /\ Pending' = Pending
        \/ Accepted' = Accepted \cup {NextId} /\ Pending' = Pending \cup {NextId}
    BY <1>1, RecordEffect
  <2>2. id # NextId
    BY DEF IInv, TypeOK, NextId
  <2> QED BY <2>1, <2>2
<1>2. ASSUME NEW f \in Flushers, FlushStep(f)
      PROVE  Accepted' = Accepted /\ Pending' \subseteq Pending
  BY <1>2, FlushStartEffect, FlushStripeEffect, FlushReturnEffect DEF FlushStep
<1>3. CASE RawTryRecv \/ RawReceiverDropped \/ UNCHANGED vars
  <2>1. TypeOK'
    BY TypeNext DEF IInv
  <2>2. UNCHANGED <<entries, cursor, batch, returned, log, since, refused>>
    BY <1>3 DEF RawTryRecv, RawReceiverDropped, vars
  <2> QED BY <2>1, <2>2, OtherInv
<1> QED BY <1>1, <1>2, <1>3 DEF Next, Record

\* While the worker is past its flush, or has yet to begin the last one, nothing
\* can go wrong with what it covers.
LEMMA CoverStays ==
  ASSUME FTyped, IInv, [Next]_vars, Cover,
         permit' \/ final' => mark' # NotYet,
         final' => final /\ mark' = mark,
         wpc' = "waiting" => ~final',
         wpc' = "exited" => final',
         wpc' # "flushing" => wpc \notin {"flushing", "panicked"} \/ wpc' = "panicked",
         wpc' = "flushing" =>
            /\ wpc = "flushing"
            /\ since'[Worker] = since[Worker]
            /\ cursor'[Worker] # Idle
  PROVE  Cover'
<1>1. ASSUME final', wpc' \notin {"flushing", "panicked"}, NEW id \in Accepted', id <= mark'
      PROVE  id \notin Pending'
  <2>1. final /\ mark' = mark /\ mark # NotYet
    BY <1>1 DEF Cover
  <2>2. mark \in 0 .. Len(log)
    BY <2>1 DEF FTyped, StopTyped
  <2>3. id \in Int
    BY <1>1, TypeNext, MapStep DEF Accepted, Ids
  <2>4. id <= Len(log)
    BY <1>1, <2>1, <2>2, <2>3 DEF FTyped, TypeOK
  <2>5. id \in Accepted /\ (id \in Pending' => id \in Pending)
    BY <1>1, <2>4, MapCovers
  <2> QED BY <1>1, <2>1, <2>5 DEF Cover
<1> QED BY <1>1 DEF Cover, NotYet, Idle

\* A last pass begins with a flush of all that was recorded until then.
LEMMA CoverNotified ==
  ASSUME FTyped, IInv, Cover, Notified
  PROVE  Cover'
<1>1. /\ permit /\ final' = TRUE /\ permit' = FALSE /\ wpc' = "flushing" /\ mark' = mark
      /\ FlushStart(Worker)
  BY DEF Notified, Wake
<1>2. since'[Worker] = Len(log) /\ cursor'[Worker] = 0
  BY <1>1, WorkerAssumption DEF FlushStart, FTyped, TypeOK
<1>3. mark # NotYet /\ mark <= Len(log)
  <2>1. mark # NotYet
    BY <1>1 DEF Cover
  <2> QED BY <2>1 DEF FTyped, StopTyped
<1> QED BY <1>1, <1>2, <1>3 DEF Cover, NotYet, Idle

\* When that flush returns, nothing of it is left in the map.
LEMMA CoverReturn ==
  ASSUME FTyped, StopInv, IInv, Cover, WorkerFlushReturn
  PROVE  Cover'
<1>1. /\ FlushReturn(Worker) /\ UNCHANGED <<final, permit, mark>>
      /\ wpc' \in {"draining", "exporting"}
  BY DEF WorkerFlushReturn, AfterEmptyBatch, stopVars
<1>2. wpc = "flushing"
  BY <1>1, SizeAssumption DEF FlushReturn, Finished, StopInv, Idle
<1>3. Accepted' = Accepted /\ Pending' = Pending /\ Due(Worker) \cap Pending = {}
  BY <1>1, WorkerAssumption, FlushReturnEffect
<1>4. ASSUME final, NEW id \in Accepted, id <= mark
      PROVE  id \notin Pending
  <2>1. mark <= since[Worker] /\ cursor[Worker] # Idle
    BY <1>2, <1>4 DEF Cover
  <2>2. id \in Int /\ mark \in Int /\ since[Worker] \in Int
    <3>1. mark \in Int
      BY DEF FTyped, StopTyped, NotYet, TypeOK
    <3>2. id \in Int
      BY DEF Accepted, Ids
    <3>3. since[Worker] \in Int
      BY WorkerAssumption DEF FTyped, TypeOK
    <3> QED BY <3>1, <3>2, <3>3
  <2>3. id <= since[Worker]
    BY <1>4, <2>1, <2>2
  <2> QED BY <1>3, <2>1, <2>3 DEF Due
<1> QED BY <1>1, <1>3, <1>4 DEF Cover, NotYet

\* Every step keeps it so.
LEMMA CoverNext == FTyped /\ StopInv /\ IInv /\ Cover /\ [FNext]_fvars => Cover'
<1> SUFFICES ASSUME FTyped, StopInv, IInv, Cover, [FNext]_fvars PROVE Cover'
  OBVIOUS
<1>1. [Next]_vars
  BY MapStep
<1>2. Worker \in Flushers /\ cursor \in [Flushers -> {Idle} \cup 0 .. StripeCount]
  BY WorkerAssumption DEF FTyped, TypeOK
<1>3. CASE ApplicationStep \/ UNCHANGED fvars
  <2>1. wpc' = wpc /\ final' = final
    BY <1>3, ApplicationKeeps
  <2>2. cursor'[Worker] = cursor[Worker] /\ since'[Worker] = since[Worker]
    <3>1. ASSUME NEW f \in Flushers \ {Worker}, ManualFlush(f) \/ ManualReturn(f)
          PROVE  cursor'[Worker] = cursor[Worker] /\ since'[Worker] = since[Worker]
      BY <1>2, <3>1 DEF ManualFlush, ManualReturn, FlushStart, FlushStripe, FlushReturn, FTyped, TypeOK
    <3>2. CASE RecordCall \/ (\E t \in Stoppers : StopStep(t)) \/ UNCHANGED fvars
      BY <3>2 DEF RecordCall, Record, RecordCount, RecordGauge, RecordHistogram,
                  StopStep, NotifyOne, TakeHandle, Join, fvars, vars
    <3> QED BY <1>3, <3>1, <3>2 DEF ApplicationStep
  <2>3. /\ permit' \/ final' => mark' # NotYet
        /\ final' => mark' = mark
    <3>1. CASE \E t \in Stoppers : NotifyOne(t)
      <4>1. mark' = IF mark = NotYet THEN Len(log) ELSE mark
        BY <3>1 DEF NotifyOne
      <4>2. Len(log) # NotYet
        BY LenProperties DEF FTyped, TypeOK, NotYet
      <4> QED BY <2>1, <4>1, <4>2 DEF Cover
    <3>2. CASE ~\E t \in Stoppers : NotifyOne(t)
      <4>1. UNCHANGED <<permit, mark>>
        BY <1>3, <3>2 DEF ApplicationStep, RecordCall, ManualFlush, ManualReturn, StopStep,
                          TakeHandle, Join, stopVars, fvars
      <4> QED BY <2>1, <4>1 DEF Cover
    <3> QED BY <3>1, <3>2
  <2>4. CASE final /\ wpc = "flushing"
    <3>1. mark' = mark /\ mark' # NotYet
      BY <2>1, <2>3, <2>4
    <3> QED BY <2>1, <2>2, <2>4, <3>1 DEF Cover, NotYet, Idle
  <2>5. CASE final /\ wpc # "flushing"
    <3>1. CASE wpc = "panicked"
      BY <2>1, <2>3, <3>1 DEF Cover, NotYet, Idle
    <3>2. CASE wpc # "panicked"
      BY <1>1, <2>1, <2>3, <2>5, <3>2, CoverStays DEF Cover
    <3> QED BY <3>1, <3>2
  <2>6. CASE ~final
    BY <2>1, <2>3, <2>6 DEF Cover, NotYet, Idle
  <2> QED BY <2>4, <2>5, <2>6
<1>4. CASE Tick
  BY <1>4 DEF Tick, Wake, Cover, NotYet, Idle
<1>5. CASE Notified
  BY <1>5, CoverNotified
<1>6. CASE WorkerFlushStripe
  <2>1. /\ UNCHANGED <<wpc, final, permit, mark, since>>
        /\ cursor'[Worker] = cursor[Worker] + 1 /\ cursor[Worker] \in Nat
    BY <1>2, <1>6, SizeAssumption
       DEF WorkerFlushStripe, FlushStripe, Visiting, workerVars, stopVars
  <2>2. wpc = "flushing"
    BY <2>1 DEF StopInv, Idle
  <2> QED BY <2>1, <2>2 DEF Cover, NotYet, Idle
<1>7. CASE WorkerFlushReturn
  BY <1>7, CoverReturn
<1>8. CASE ExportCall \/ ExportedAll \/ DrainOne \/ DrainEmpty \/ ExportReturn
  <2>1. /\ UNCHANGED <<final, permit, mark>>
        /\ wpc \in {"exporting", "awaiting", "draining"}
        /\ wpc' \in {"exporting", "awaiting", "draining", "leaving"}
    BY <1>8 DEF ExportCall, ExportedAll, DrainOne, DrainEmpty, ExportReturn, stopVars
  <2> QED BY <1>1, <2>1, CoverStays DEF Cover
<1>9. CASE NextPass
  BY <1>9 DEF NextPass, Cover, stopVars, NotYet, Idle
<1>10. CASE Break
  <2>1. UNCHANGED <<final, permit, mark>> /\ final /\ wpc = "leaving" /\ wpc' = "exited"
    BY <1>10 DEF Break, stopVars
  <2> QED BY <1>1, <2>1, CoverStays DEF Cover
<1>11. CASE ExportPanic
  BY <1>11 DEF ExportPanic, Cover, stopVars, NotYet, Idle
<1> QED BY <1>3, <1>4, <1>5, <1>6, <1>7, <1>8, <1>9, <1>10, <1>11 DEF FNext, WorkerStep, WorkerOwn

-----------------------------------------------------------------------------
(* FinalFlush: the raw points.                                             *)

\* Past the drain of the last pass, each exporter was handed every point sent
\* before shutdown() was called, or is about to be.
PastDrain == wpc \in {"leaving", "exited"} \/ (phase = "raw" /\ InTurn)
RawCover ==
    final /\ PastDrain =>
        \A i \in Exporters : \A id \in RawSent :
            id <= mark => id \in Range(seenRaw[i]) \cup Range(RawToCome(i))

\* No step sends a point on behalf of a record call made earlier.
LEMMA RawCovers ==
  ASSUME FTyped, [Next]_vars, NEW id, id <= Len(log), id \in RawSent'
  PROVE  id \in RawSent
<1>1. ASSUME NEW s \in Series, NEW v \in Values \cup {NaN},
             RecordCount(s, v) \/ RecordGauge(s, v) \/ RecordHistogram(s, v)
      PROVE  id \in RawSent
  <2>1. RawSent' = RawSent \/ RawSent' = RawSent \cup {NextId}
    BY <1>1, RawRecord
  <2>2. id # NextId
    BY DEF FTyped, TypeOK, NextId
  <2> QED BY <2>1, <2>2
<1> QED BY <1>1, OtherStep, RawSentSame DEF Next, Record

\* What was covered stays covered as the points move to the exporters.
LEMMA RawCoverStays ==
  ASSUME FTyped, [Next]_vars, RawCover,
         final' => final /\ mark' = mark /\ mark # NotYet,
         PastDrain' => PastDrain,
         \A i \in Exporters :
            Range(seenRaw[i]) \cup Range(RawToCome(i)) \subseteq
               Range(seenRaw'[i]) \cup Range(RawToCome(i)')
  PROVE  RawCover'
<1> SUFFICES ASSUME final', PastDrain', NEW i \in Exporters, NEW id \in RawSent', id <= mark'
             PROVE  id \in Range(seenRaw'[i]) \cup Range(RawToCome(i)')
  BY DEF RawCover, Range, Exporters
<1>1. final /\ mark' = mark /\ mark \in 0 .. Len(log) /\ PastDrain
  BY DEF FTyped, StopTyped
<1>2. id \in Int
  BY DEF RawSent, Ids
<1>3. id <= Len(log)
  BY <1>1, <1>2 DEF FTyped, TypeOK
<1>4. id \in RawSent
  BY <1>3, RawCovers
<1> QED BY <1>1, <1>4 DEF RawCover

\* An empty channel means that the exporters had, or get in this pass, all of it.
LEMMA RawCoverDrained ==
  ASSUME FTyped, RawInv, DrainEmpty
  PROVE  RawCover'
<1>1. /\ wpc = "draining" /\ rawQueue = <<>>
      /\ phase' = "raw" /\ exporter' = 1
      /\ wpc' = IF points = <<>> THEN "leaving" ELSE "exporting"
      /\ UNCHANGED <<points, seenRaw, log, refused>>
  BY DEF DrainEmpty, vars, histVars
<1>2. RawSent' = RawSent
  BY <1>1, RawSentSame
<1>3. ASSUME NEW i \in Exporters
      PROVE  RawSent \subseteq Range(seenRaw'[i]) \cup Range(RawToCome(i)')
  <2>1. seenRaw[i] \in Seq(Nat) /\ points \in Seq(Nat)
    BY StreamType
  <2>2. RawToCome(i) = points /\ RawToCome(i)' = points
    BY <1>1 DEF RawToCome, Exporters
  <2>3. seenRaw[i] \o points \in Seq(Nat)
    BY <2>1, ConcatProperties
  <2>4. Stream(i) = seenRaw[i] \o points
    BY <1>1, <2>2, <2>3, ConcatEmptySeq DEF Stream
  <2>5. Range(Stream(i)) = Range(seenRaw[i]) \cup Range(points)
    BY <2>1, <2>4, RangeConcatenation
  <2>6. Range(Stream(i)) = RawSent
    BY <1>1 DEF RawInv, Gone
  <2> QED BY <1>1, <2>2, <2>5, <2>6
<1> QED BY <1>2, <1>3 DEF RawCover, Range, Exporters

\* The worker's and the exporters' steps keep the points covered.
LEMMA RawCoverWorker ==
  ASSUME FTyped, StopInv, Cover, RawInv, RawCover, [Next]_vars,
         WorkerStep \/ ExportReturn \/ ExportPanic
  PROVE  RawCover'
<1>1. final => mark # NotYet
  BY DEF Cover
<1>2. CASE Tick \/ Notified
  BY <1>2 DEF Tick, Notified, Wake, RawCover, PastDrain, InTurn
<1>3. CASE WorkerFlushStripe
  <2>1. UNCHANGED <<wpc, final, mark, phase, exporter, points, seenRaw>>
    BY <1>3 DEF WorkerFlushStripe, workerVars, stopVars, histVars
  <2> QED BY <1>1, <2>1, RawCoverStays DEF PastDrain, InTurn, RawToCome
<1>4. CASE WorkerFlushReturn
  BY <1>4 DEF WorkerFlushReturn, AfterEmptyBatch, RawCover, PastDrain, InTurn
<1>5. CASE ExportCall
  <2>1. /\ wpc = "exporting" /\ exporter \in Exporters /\ wpc' = "awaiting"
        /\ UNCHANGED <<final, mark, phase, exporter, points>>
        /\ phase \in {"metrics", "raw"}
    BY <1>5 DEF ExportCall, stopVars, FTyped, WorkerTyped
  <2>2. CASE phase = "metrics"
    BY <2>1, <2>2 DEF RawCover, PastDrain, InTurn
  <2>3. CASE phase = "raw"
    <3>1. seenRaw' = [seenRaw EXCEPT ![exporter] = seenRaw[exporter] \o points]
      BY <1>5, <2>3 DEF ExportCall
    <3>2. ASSUME NEW i \in Exporters
          PROVE  Range(seenRaw[i]) \cup Range(RawToCome(i)) \subseteq
                    Range(seenRaw'[i]) \cup Range(RawToCome(i)')
      <4>1. CASE i = exporter
        <5>1. seenRaw'[i] = seenRaw[i] \o points
          BY <3>1, <4>1 DEF FTyped, HandedTyped
        <5>2. RawToCome(i) = points
          BY <2>1, <2>3, <4>1 DEF RawToCome, Exporters
        <5>3. Range(seenRaw'[i]) = Range(seenRaw[i]) \cup Range(points)
          BY <5>1, StreamType, RangeConcatenation
        <5> QED BY <5>2, <5>3
      <4>2. CASE i # exporter
        <5>1. seenRaw'[i] = seenRaw[i]
          BY <3>1, <4>2 DEF FTyped, HandedTyped
        <5>2. RawToCome(i)' = RawToCome(i)
          BY <2>1, <2>3, <4>2 DEF RawToCome, Exporters
        <5> QED BY <5>1, <5>2
      <4> QED BY <4>1, <4>2
    <3> QED BY <1>1, <2>1, <3>2, RawCoverStays DEF PastDrain, InTurn
  <2> QED BY <2>1, <2>2, <2>3
<1>6. CASE ExportedAll
  <2>1. /\ wpc = "exporting" /\ exporter \notin Exporters
        /\ wpc' = IF phase = "metrics" THEN "draining" ELSE "leaving"
        /\ UNCHANGED <<final, mark, phase, seenRaw>>
    BY <1>6 DEF ExportedAll, stopVars, histVars
  <2>2. exporter \in 1 .. NumExporters + 1 /\ NumExporters \in Nat /\ phase \in {"metrics", "raw"}
    BY WorkerAssumption DEF FTyped, WorkerTyped
  <2>3. \A i \in Exporters : RawToCome(i) = <<>>
    BY <2>1, <2>2 DEF RawToCome, Exporters
  <2>4. Range(<<>>) = {}
    BY DEF Range
  <2>5. PastDrain' => PastDrain
    BY <2>1, <2>2 DEF PastDrain, InTurn
  <2> QED BY <1>1, <2>1, <2>3, <2>4, <2>5, RawCoverStays
<1>7. CASE DrainOne
  BY <1>7 DEF DrainOne, RawCover, PastDrain, InTurn
<1>8. CASE DrainEmpty
  BY <1>8, RawCoverDrained
<1>9. CASE NextPass
  BY <1>9 DEF NextPass, RawCover
<1>10. CASE Break
  <2>1. /\ UNCHANGED <<final, mark, phase, exporter, points, seenRaw>>
        /\ wpc = "leaving" /\ wpc' = "exited"
    BY <1>10 DEF Break, stopVars, histVars
  <2> QED BY <1>1, <2>1, RawCoverStays DEF PastDrain, RawToCome
<1>11. CASE ExportReturn
  <2>1. /\ wpc = "awaiting" /\ wpc' = "exporting" /\ exporter' = exporter + 1
        /\ UNCHANGED <<final, mark, phase, points, seenRaw>>
    BY <1>11 DEF ExportReturn, AfterExport, stopVars, histVars
  <2>2. exporter \in Nat
    BY DEF FTyped, WorkerTyped
  <2>3. \A i \in Exporters : exporter < i <=> exporter + 1 <= i
    BY <2>2 DEF Exporters
  <2>4. \A i \in Exporters : RawToCome(i)' = RawToCome(i)
    BY <2>1, <2>3 DEF RawToCome
  <2> QED BY <1>1, <2>1, <2>4, RawCoverStays DEF PastDrain, InTurn
<1>12. CASE ExportPanic
  BY <1>12 DEF ExportPanic, RawCover, PastDrain, InTurn
<1> QED BY <1>2, <1>3, <1>4, <1>5, <1>6, <1>7, <1>8, <1>9, <1>10, <1>11, <1>12
        DEF WorkerStep, WorkerOwn

\* So does every step: what is sent later comes after the mark.
LEMMA RawCoverNext ==
  FTyped /\ StopInv /\ Cover /\ RawInv /\ RawCover /\ [FNext]_fvars => RawCover'
<1> SUFFICES ASSUME FTyped, StopInv, Cover, RawInv, RawCover, [FNext]_fvars PROVE RawCover'
  OBVIOUS
<1>1. [Next]_vars
  BY MapStep
<1>2. CASE ApplicationStep \/ UNCHANGED fvars
  <2>1. UNCHANGED <<wpc, final, phase, exporter, points, seenRaw>>
    BY <1>2, ApplicationKeeps
  <2>2. final => mark' = mark /\ mark # NotYet
    <3>1. CASE \E t \in Stoppers : NotifyOne(t)
      BY <3>1 DEF NotifyOne, Cover
    <3>2. CASE ~\E t \in Stoppers : NotifyOne(t)
      BY <1>2, <3>2 DEF ApplicationStep, RecordCall, ManualFlush, ManualReturn, StopStep,
                        TakeHandle, Join, stopVars, fvars, Cover
    <3> QED BY <3>1, <3>2
  <2> QED BY <1>1, <2>1, <2>2, RawCoverStays DEF PastDrain, InTurn, RawToCome
<1> QED BY <1>1, <1>2, RawCoverWorker DEF FNext

\* Nothing is handed over or covered at the start.
LEMMA CoverInit == FInit => Handed /\ Cover /\ RawCover /\ RawInv
<1> SUFFICES ASSUME FInit PROVE Handed /\ Cover /\ RawCover /\ RawInv
  OBVIOUS
<1>1. Handed
  BY DEF FInit, Init, Handed, Sources
<1>2. Cover /\ RawCover
  BY DEF FInit, Cover, RawCover
<1>3. \A i \in Exporters : RawToCome(i) = <<>> /\ seenRaw[i] = <<>> /\ rawQueue = <<>>
  BY DEF FInit, Init, RawToCome
<1>4. \A i \in Exporters : Stream(i) = <<>>
  BY <1>3 DEF Stream
<1>5. RawSent = {} /\ Rising(<<>>) /\ Range(<<>>) = {}
  BY DEF FInit, Init, RawSent, Ids, Rising, Range
<1>6. RawInv
  BY <1>4, <1>5 DEF FInit, Init, RawInv
<1> QED BY <1>1, <1>2, <1>6

\* Where everything is when the worker has left its loop.
LEMMA CoverEnough == FTyped /\ StopInv /\ IInv /\ Handed /\ Cover /\ RawCover => FinalFlush
<1> SUFFICES ASSUME FTyped, StopInv, IInv, Handed, Cover, RawCover, wpc = "exited",
                    NEW i \in Exporters, NEW id \in 1 .. mark
             PROVE  /\ id \in Accepted => id \in SeenBy(i) \cup ManuallyTaken
                    /\ id \in RawSent => id \in SeenRawBy(i)
  BY DEF FinalFlush
<1>1. final /\ id <= mark /\ cursor[Worker] = Idle
  <2>1. id <= mark
    BY DEF FTyped, StopTyped, TypeOK, NotYet
  <2> QED BY <2>1 DEF Cover, StopInv
<1>2. ASSUME id \in Accepted PROVE id \in SeenBy(i) \cup ManuallyTaken
  <2>1. id \notin Pending
    BY <1>1, <1>2 DEF Cover
  <2>2. id \in Sources(returned) \/ \E f \in Flushers : id \in Sources(batch[f])
    BY <1>2, <2>1 DEF IInv, ExactlyOnce, NoneLost
  <2>3. Sources(batch[Worker]) = {}
    BY <1>1, WorkerAssumption DEF IInv, IdleHoldsNothing, Sources
  <2>4. ToCome(i) = {}
    BY DEF ToCome, InTurn
  <2>5. id \in Sources(returned) => id \in SeenBy(i) \/ id \in Sources(manual)
    BY <2>4 DEF Handed
  <2> QED BY <2>2, <2>3, <2>5 DEF ManuallyTaken
<1>3. ASSUME id \in RawSent PROVE id \in SeenRawBy(i)
  <2>1. RawToCome(i) = <<>> /\ Range(<<>>) = {}
    BY DEF RawToCome, Range
  <2>2. id \in Range(seenRaw[i])
    BY <1>1, <1>3, <2>1 DEF RawCover, PastDrain
  <2> QED BY <2>2 DEF Range, SeenRawBy
<1> QED BY <1>2, <1>3

\* When the worker has left its loop, every record call that was accepted
\* before shutdown() was first called has been handed to every exporter, or was
\* taken by a flush() of the application; every raw point sent before was
\* handed to every exporter.
THEOREM FinalFlushHolds == FSpec => []FinalFlush
  BY CoverInit, CoverEnough, ClientInv, HandedNext, CoverNext, RawNext, RawCoverNext, PTL DEF FSpec

-----------------------------------------------------------------------------
(* HandedOnce.                                                             *)

\* No two of some batches share a count or an observation.
Separate(b) == \A k, l \in DOMAIN b : k # l => Sources(b[k]) \cap Sources(b[l]) = {}

\* What an exporter got, what it is to get in this pass, and what flush() callers
\* got are apart, and were all returned by flushes.
Once ==
    /\ Sources(manual) \subseteq Sources(returned)
    /\ \A i \in Exporters :
          /\ SeenBy(i) \cup ToCome(i) \subseteq Sources(returned)
          /\ (SeenBy(i) \cup ToCome(i)) \cap Sources(manual) = {}
          /\ SeenBy(i) \cap ToCome(i) = {}
          /\ Separate(seen[i])

\* A batch noted is apart from those before it, if it shares nothing with them.
LEMMA NotedSeparate ==
  ASSUME NEW S, NEW b \in Seq(S), NEW M \in S, Separate(b),
         \A k \in DOMAIN b : Sources(b[k]) \cap Sources(M) = {}
  PROVE  Separate(Noted(b, M))
<1>1. CASE Noted(b, M) = b
  BY <1>1
<1>2. CASE Noted(b, M) = Append(b, M)
  <2>1. Len(b) \in Nat /\ DOMAIN b = 1 .. Len(b)
    BY LenProperties
  <2>2. /\ DOMAIN Append(b, M) = 1 .. Len(b) + 1
        /\ \A k \in 1 .. Len(b) : Append(b, M)[k] = b[k]
        /\ Append(b, M)[Len(b) + 1] = M
    BY <2>1, AppendProperties, LenProperties
  <2> SUFFICES ASSUME NEW k \in DOMAIN Append(b, M), NEW l \in DOMAIN Append(b, M), k # l
               PROVE  Sources(Append(b, M)[k]) \cap Sources(Append(b, M)[l]) = {}
    BY <1>2 DEF Separate
  <2>3. CASE k \in 1 .. Len(b) /\ l \in 1 .. Len(b)
    BY <2>1, <2>2, <2>3 DEF Separate
  <2>4. CASE k \notin 1 .. Len(b)
    <3>1. k = Len(b) + 1 /\ l \in DOMAIN b
      BY <2>1, <2>2, <2>4
    <3> QED BY <2>1, <2>2, <3>1
  <2>5. CASE l \notin 1 .. Len(b)
    <3>1. l = Len(b) + 1 /\ k \in DOMAIN b
      BY <2>1, <2>2, <2>5
    <3> QED BY <2>1, <2>2, <3>1
  <2> QED BY <2>3, <2>4, <2>5
<1> QED BY <1>1, <1>2 DEF Noted

\* Nothing is handed over, and nothing more is to come.
LEMMA OnceStays ==
  ASSUME Once, UNCHANGED <<seen, manual>>, Sources(returned) \subseteq Sources(returned'),
         \A i \in Exporters : ToCome(i)' \subseteq ToCome(i)
  PROVE  Once'
<1>1. \A i \in Exporters : SeenBy(i)' = SeenBy(i) /\ (Separate(seen[i]) => Separate(seen[i])')
  BY DEF SeenBy, Sources, IsGauge, Separate
<1>2. Sources(manual)' = Sources(manual) /\ Sources(returned)' = Sources(returned')
  BY DEF Sources, IsGauge
<1> QED BY <1>1, <1>2 DEF Once, Exporters

\* A call of export() hands an exporter what it had not got.
LEMMA OnceCall ==
  ASSUME FTyped, Once, ExportCall
  PROVE  Once'
<1>1. /\ wpc = "exporting" /\ exporter \in Exporters /\ wpc' = "awaiting"
      /\ UNCHANGED <<returned, phase, exporter, metrics, manual>>
      /\ phase \in {"metrics", "raw"}
  BY DEF ExportCall, FTyped, WorkerTyped, vars
<1>2. \A i \in Exporters : /\ Called(i) <=> i < exporter
                           /\ Called(i)' <=> i < exporter \/ i = exporter
  BY <1>1 DEF Called
<1>3. CASE phase = "raw"
  <2>1. seen' = seen
    BY <1>3 DEF ExportCall
  <2>2. \A i \in Exporters : ToCome(i)' = {}
    BY <1>1, <1>3 DEF ToCome
  <2> QED BY <1>1, <2>1, <2>2, OnceStays
<1>4. CASE phase = "metrics"
  <2>1. seen' = [seen EXCEPT ![exporter] = Noted(seen[exporter], metrics)]
    BY <1>4 DEF ExportCall
  <2>2. /\ Sources(returned)' = Sources(returned) /\ Sources(manual)' = Sources(manual)
        /\ Sources(metrics)' = Sources(metrics)
    BY <1>1 DEF Sources, IsGauge
  <2>3. ASSUME NEW i \in Exporters
        PROVE  /\ SeenBy(i)' \cup ToCome(i)' \subseteq SeenBy(i) \cup ToCome(i)
               /\ SeenBy(i)' \cap ToCome(i)' = {}
               /\ Separate(seen[i])'
    <3>1. CASE i # exporter
      <4>1. seen'[i] = seen[i]
        BY <2>1, <3>1 DEF FTyped, HandedTyped
      <4>2. SeenBy(i)' = SeenBy(i) /\ (Separate(seen[i]) => Separate(seen[i])')
        BY <4>1 DEF SeenBy, Sources, IsGauge, Separate
      <4>3. ToCome(i)' = ToCome(i)
        BY <1>1, <1>2, <2>2, <3>1 DEF ToCome, InTurn
      <4> QED BY <4>2, <4>3 DEF Once
    <3>2. CASE i = exporter
      <4>1. /\ seen'[i] = Noted(seen[i], metrics)
            /\ seen[i] \in Seq(Batches) /\ metrics \in Batches
        BY <2>1, <3>2 DEF FTyped, HandedTyped
      <4>2. ToCome(i) = Sources(metrics) /\ ToCome(i)' = {}
        <5>1. ~Called(i) /\ Called(i)'
          BY <1>1, <1>2, <3>2 DEF Exporters
        <5> QED BY <1>1, <1>4, <5>1 DEF ToCome, InTurn
      <4>3. \A x : x \in SeenBy(i)' <=> x \in SeenBy(i) \/ x \in Sources(metrics)
        <5>1. \A x : x \in SeenBy(i)' <=> \E k \in DOMAIN seen'[i] : x \in Sources(seen'[i][k])
          BY DEF SeenBy, Sources, IsGauge
        <5>2. \A x : x \in SeenBy(i) <=> \E k \in DOMAIN seen[i] : x \in Sources(seen[i][k])
          BY InSeenBy
        <5>3. \A x : (\E k \in DOMAIN seen'[i] : x \in Sources(seen'[i][k]))
                 <=> (\E k \in DOMAIN seen[i] : x \in Sources(seen[i][k])) \/ x \in Sources(metrics)
          <6> DEFINE b == seen[i]
                     n == Noted(b, metrics)
          <6>1. b \in Seq(Batches) /\ metrics \in Batches /\ seen'[i] = n
            BY <4>1
          <6> HIDE DEF b
          <6>2. \A x : (\E k \in DOMAIN n : x \in Sources(n[k]))
                   <=> (\E k \in DOMAIN b : x \in Sources(b[k])) \/ x \in Sources(metrics)
            BY <6>1, NotedSources
          <6> HIDE DEF n
          <6> QED BY <6>1, <6>2 DEF b
        <5> QED BY <5>1, <5>2, <5>3
      <4>4. \A k \in DOMAIN seen[i] : Sources(seen[i][k]) \cap Sources(metrics) = {}
        BY <4>2, InSeenBy DEF Once
      <4>5. Separate(Noted(seen[i], metrics))
        BY <4>1, <4>4, NotedSeparate DEF Once
      <4>6. Separate(seen[i])'
        BY <4>1, <4>5 DEF Separate, Sources, IsGauge
      <4> QED BY <4>2, <4>3, <4>6
    <3> QED BY <3>1, <3>2
  <2> QED BY <2>2, <2>3 DEF Once, Exporters
<1> QED BY <1>1, <1>3, <1>4

\* What the worker's flush returned is new to every exporter.
LEMMA OnceReturn ==
  ASSUME FTyped, StopInv, IInv, Once, WorkerFlushReturn
  PROVE  Once'
<1>1. /\ returned' = returned \cup batch[Worker] /\ metrics' = batch[Worker]
      /\ UNCHANGED <<seen, manual>>
  BY DEF WorkerFlushReturn, FlushReturn, histVars
<1>2. \A x : x \in Sources(returned') <=> x \in Sources(returned) \/ x \in Sources(metrics')
  BY <1>1, InSources
<1>3. Sources(metrics') \cap Sources(returned) = {}
  BY <1>1, WorkerAssumption DEF IInv, ExactlyOnce, NoneTwice
<1>4. \A i \in Exporters : ToCome(i)' \subseteq Sources(metrics')
  BY DEF ToCome, Sources, IsGauge
<1>5. \A i \in Exporters : SeenBy(i)' = SeenBy(i) /\ (Separate(seen[i]) => Separate(seen[i])')
  BY <1>1 DEF SeenBy, Sources, IsGauge, Separate
<1>6. Sources(manual)' = Sources(manual) /\ Sources(returned)' = Sources(returned')
  BY <1>1 DEF Sources, IsGauge
<1> QED BY <1>2, <1>3, <1>4, <1>5, <1>6 DEF Once, Exporters

\* Every step keeps it all apart; a flush() of the application takes what no
\* other flush has returned.
LEMMA OnceNext == FTyped /\ StopInv /\ IInv /\ Once /\ [FNext]_fvars => Once'
<1> SUFFICES ASSUME FTyped, StopInv, IInv, Once, [FNext]_fvars PROVE Once'
  OBVIOUS
<1>1. CASE ApplicationStep \/ UNCHANGED fvars
  <2>1. UNCHANGED <<wpc, phase, exporter, metrics, seen>>
    BY <1>1, ApplicationKeeps
  <2>2. \A i \in Exporters : /\ ToCome(i)' = ToCome(i) /\ SeenBy(i)' = SeenBy(i)
                             /\ Separate(seen[i]) => Separate(seen[i])'
    BY <2>1 DEF ToCome, InTurn, Called, SeenBy, Sources, IsGauge, Separate
  <2>3. ASSUME NEW f \in Flushers \ {Worker}, ManualReturn(f) PROVE Once'
    <3>1. returned' = returned \cup batch[f] /\ manual' = manual \cup batch[f]
      BY <2>3 DEF ManualReturn, FlushReturn
    <3>2. \A x : /\ x \in Sources(returned)' <=> x \in Sources(returned) \/ x \in Sources(batch[f])
                 /\ x \in Sources(manual)' <=> x \in Sources(manual) \/ x \in Sources(batch[f])
      BY <3>1 DEF Sources, IsGauge
    <3>3. Sources(batch[f]) \cap Sources(returned) = {}
      BY DEF IInv, ExactlyOnce, NoneTwice
    <3> QED BY <2>2, <3>2, <3>3 DEF Once, Exporters
  <2>4. ASSUME ~\E f \in Flushers \ {Worker} : ManualReturn(f)
        PROVE  UNCHANGED <<returned, manual>>
    BY <1>1, <2>4 DEF ApplicationStep, RecordCall, Record, RecordCount, RecordGauge, RecordHistogram,
                      ManualFlush, FlushStart, FlushStripe, StopStep, NotifyOne, TakeHandle, Join,
                      histVars, fvars, vars
  <2> QED BY <2>1, <2>2, <2>3, <2>4, OnceStays
<1>2. CASE (WorkerStep \/ ExportReturn \/ ExportPanic) /\ ~WorkerFlushReturn /\ ~ExportCall
  <2>1. /\ UNCHANGED <<returned, seen, manual>>
        /\ \A i \in Exporters : ToCome(i)' \subseteq ToCome(i)
    BY <1>2, WorkerElse
  <2> QED BY <2>1, OnceStays
<1> QED BY <1>1, <1>2, OnceCall, OnceReturn DEF FNext

\* Then no exporter has been handed anything twice.
LEMMA OnceEnough ==
  ASSUME IInv, Once
  PROVE  HandedOnce
<1> SUFFICES ASSUME NEW i \in Exporters
             PROVE  /\ \A k, l \in DOMAIN seen[i] :
                          k # l => Sources(seen[i][k]) \cap Sources(seen[i][l]) = {}
                    /\ SeenBy(i) \cap ManuallyTaken = {}
  BY DEF HandedOnce
<1>1. \A f \in Flushers : Sources(batch[f]) \cap Sources(returned) = {}
  BY DEF IInv, ExactlyOnce, NoneTwice
<1> QED BY <1>1 DEF Once, Separate, ManuallyTaken

\* Nothing has been handed to anybody at the start.
LEMMA OnceInit == FInit => Once
<1> SUFFICES ASSUME FInit PROVE Once
  OBVIOUS
<1>1. \A i \in Exporters : seen[i] = <<>> /\ ToCome(i) = {}
  BY DEF FInit, ToCome, InTurn
<1>2. \A i \in Exporters : SeenBy(i) = {} /\ Separate(seen[i])
  BY <1>1 DEF SeenBy, Separate
<1>3. Sources(manual) = {}
  BY DEF FInit, Sources
<1> QED BY <1>1, <1>2, <1>3 DEF Once

\* However the worker's flushes and those of the application meet, no exporter is
\* handed a count or an observation twice, nor one that the application took.
THEOREM HandedOnceHolds == FSpec => []HandedOnce
  BY OnceInit, OnceNext, OnceEnough, ClientInv, PTL DEF FSpec

-----------------------------------------------------------------------------
(* The client keeps ClientPromise.                                         *)

\* The raw points an exporter was handed were sent.
RawHanded == \A i \in Exporters : SeenRawBy(i) \subseteq RawSent

\* No point is taken back.
LEMMA RawSentGrows ==
  ASSUME FTyped, [Next]_vars
  PROVE  RawSent \subseteq RawSent'
<1>1. ASSUME NEW s \in Series, NEW v \in Values \cup {NaN},
             RecordCount(s, v) \/ RecordGauge(s, v) \/ RecordHistogram(s, v)
      PROVE  RawSent \subseteq RawSent'
  BY <1>1, RawRecord
<1> QED BY <1>1, OtherStep, RawSentSame DEF Next, Record

\* While the worker lives this follows from the streams; then no more is handed.
LEMMA RawHandedNext ==
  FTyped /\ StopInv /\ RawInv /\ RawHanded /\ [FNext]_fvars => RawHanded'
<1> SUFFICES ASSUME FTyped, StopInv, RawInv, RawHanded, [FNext]_fvars PROVE RawHanded'
  OBVIOUS
<1>1. CASE seenRaw' = seenRaw
  <2>1. RawSent \subseteq RawSent'
    BY MapStep, RawSentGrows
  <2>2. \A i \in Exporters : SeenRawBy(i)' = SeenRawBy(i)
    BY <1>1 DEF SeenRawBy
  <2> QED BY <2>1, <2>2 DEF RawHanded, Exporters
<1>2. CASE ExportCall
  <2>1. ~Gone' /\ RawInv' /\ FTyped'
    BY <1>2, RawNext, FTypedNext DEF ExportCall, Gone
  <2>2. ASSUME NEW i \in Exporters PROVE SeenRawBy(i)' \subseteq RawSent'
    <3>1. Range(Stream(i)') = RawSent'
      BY <2>1 DEF RawInv, Range, Exporters
    <3>2. /\ seenRaw'[i] \in Seq(Nat) /\ RawToCome(i)' \in Seq(Nat) /\ rawQueue' \in Seq(Nat)
      <4>1. seenRaw'[i] \in Seq(Ids') /\ points' \in Seq(Ids') /\ rawQueue' \in Seq(Ids')
        BY <2>1 DEF FTyped, HandedTyped, TypeOK, Exporters
      <4>2. Seq(Ids') \subseteq Seq(Nat)
        <5>1. Ids' \subseteq Nat
          BY DEF Ids
        <5> QED BY <5>1, SeqGrows
      <4> QED BY <4>1, <4>2, EmptySeq DEF RawToCome
    <3>3. Stream(i)' = (seenRaw'[i] \o RawToCome(i)') \o rawQueue'
      BY DEF Stream
    <3>4. Range(seenRaw'[i]) \subseteq Range(Stream(i)')
      <4> DEFINE s == seenRaw'[i]
                 t == RawToCome(i)'
                 q == rawQueue'
      <4>1. s \in Seq(Nat) /\ t \in Seq(Nat) /\ q \in Seq(Nat)
        BY <3>2
      <4> DEFINE st == s \o t
      <4> HIDE DEF s, t, q
      <4>2. st \in Seq(Nat) /\ Range(st) = Range(s) \cup Range(t)
        BY <4>1, ConcatProperties, RangeConcatenation
      <4> HIDE DEF st
      <4>3. Range(st \o q) = Range(st) \cup Range(q)
        BY <4>1, <4>2, RangeConcatenation
      <4>4. Range(s) \subseteq Range(st \o q)
        BY <4>2, <4>3
      <4> QED BY <3>3, <4>4 DEF s, t, q, st
    <3> QED BY <3>1, <3>4 DEF SeenRawBy, Range
  <2> QED BY <2>2 DEF RawHanded, Exporters
<1>3. ~ExportCall => seenRaw' = seenRaw
  <2>1. CASE ApplicationStep \/ UNCHANGED fvars
    BY <2>1, ApplicationKeeps
  <2>2. CASE WorkerStep \/ ExportReturn \/ ExportPanic
    BY <2>2 DEF WorkerStep, WorkerOwn, Tick, Notified, Wake, WorkerFlushStripe, WorkerFlushReturn,
                ExportedAll, DrainOne, DrainEmpty, NextPass, Break, ExportReturn, ExportPanic, histVars
  <2> QED BY <2>1, <2>2 DEF FNext
<1> QED BY <1>1, <1>2, <1>3

\* What the two kinds of calls are, and where they are.
LEMMA CallsKnown ==
  ASSUME FTyped, IInv, Once, RawHanded
  PROVE  /\ AcceptedCalls \subseteq Ids /\ Accepted \cap RawSent = {}
         /\ ManuallyTaken \subseteq Accepted
         /\ \A i \in Exporters : HandedTo(i) \subseteq AcceptedCalls \ ManuallyTaken
<1>1. AcceptedCalls \subseteq Ids /\ Accepted \cap RawSent = {}
  BY DEF AcceptedCalls, Accepted, RawSent, IsAdditive
<1>2. Sources(returned) \subseteq Accepted /\ \A f \in Flushers : Sources(batch[f]) \subseteq Accepted
  BY DEF IInv, ExactlyOnce, NoneLost
<1>3. ManuallyTaken \subseteq Accepted
  BY <1>2 DEF ManuallyTaken, Once
<1>4. ASSUME NEW i \in Exporters PROVE HandedTo(i) \subseteq AcceptedCalls \ ManuallyTaken
  <2>1. SeenBy(i) \subseteq Accepted /\ SeenBy(i) \cap ManuallyTaken = {}
    BY <1>2, OnceEnough DEF Once, HandedOnce
  <2>2. SeenRawBy(i) \subseteq RawSent
    BY DEF RawHanded
  <2> QED BY <1>1, <1>3, <2>1, <2>2 DEF HandedTo, AcceptedCalls
<1> QED BY <1>1, <1>3, <1>4

\* The invariant of the client as a whole.
FInv == FTyped /\ StopInv /\ IInv /\ Handed /\ Cover /\ RawInv /\ RawCover /\ Once /\ RawHanded

\* It holds in every reachable state.
LEMMA FInvHolds == FSpec => []FInv
<1>1. FInit => RawHanded
  BY DEF FInit, RawHanded, SeenRawBy
<1>2. FTyped /\ StopInv /\ IInv /\ Handed /\ Cover /\ RawInv /\ RawCover /\ Once /\ RawHanded
        => FInv
  BY DEF FInv
<1> QED BY <1>1, <1>2, CoverInit, OnceInit, ClientInv, HandedNext, CoverNext, RawNext, RawCoverNext,
           OnceNext, RawHandedNext, PTL DEF FSpec

\* What it says of the calls accepted, handed over and owed.
CallsApart ==
    /\ ManuallyTaken \subseteq AcceptedCalls
    /\ \A i \in Exporters : HandedTo(i) \subseteq AcceptedCalls \ ManuallyTaken
    /\ FinalFlush

\* In a state, and in the next one.
LEMMA CallsApartHolds == FInv => CallsApart
  BY CallsKnown, CoverEnough DEF FInv, CallsApart, AcceptedCalls
LEMMA CallsApartNext == FInv' => CallsApart'
  BY CallsApartHolds, PTL

\* Nothing of the client that the promise speaks of changes.
LEMMA SameClient ==
  ASSUME UNCHANGED <<log, refused, seen, seenRaw, mark>>, ManuallyTaken' = ManuallyTaken,
         Stage' = Stage, Inside' = Inside
  PROVE  UNCHANGED Promise!vars
<1>1. AcceptedCalls' = AcceptedCalls
  BY SameCalls, RawSentSame DEF AcceptedCalls
<1>2. [i \in Exporters |-> HandedTo(i)]' = [i \in Exporters |-> HandedTo(i)]
  BY DEF HandedTo, SeenBy, SeenRawBy, Sources, IsGauge, Exporters
<1>3. {id \in AcceptedCalls : id <= mark}' = {id \in AcceptedCalls : id <= mark}
  BY <1>1
<1>4. (mark # NotYet)' = (mark # NotYet)
  OBVIOUS
<1> QED BY <1>1, <1>2, <1>3, <1>4 DEF Promise!vars

\* flush() callers have what they had, if none of their batches changes.
LEMMA SameTaken ==
  ASSUME UNCHANGED manual, \A f \in Flushers \ {Worker} : batch'[f] = batch[f]
  PROVE  ManuallyTaken' = ManuallyTaken
  BY DEF ManuallyTaken, Sources, IsGauge

\* A record call that is not dropped is accepted: by the map, or by the channel.
LEMMA PromiseRecord ==
  ASSUME FInv, RecordCall
  PROVE  [Promise!Next]_(Promise!vars)
<1> USE DEF FInv
<1>1. UNCHANGED <<wpc, spc, mark, manual, seen, seenRaw>>
  BY DEF RecordCall, workerVars, stopVars, histVars
<1>2. PICK s \in Series, v \in Values \cup {NaN} :
         RecordCount(s, v) \/ RecordGauge(s, v) \/ RecordHistogram(s, v)
  BY DEF RecordCall, Record
<1>3. batch' = batch /\ Log(s, v)
  BY <1>2, RecordKinds
<1>4. ManuallyTaken' = ManuallyTaken
  BY <1>1, <1>3, SameTaken
<1>5. Stage' = Stage /\ Inside' = Inside
  BY <1>1 DEF Stage, Inside
<1>6. [i \in Exporters |-> HandedTo(i)]' = [i \in Exporters |-> HandedTo(i)]
  BY <1>1 DEF HandedTo, SeenBy, SeenRawBy, Sources, IsGauge, Exporters
<1>7. AcceptedCalls' = AcceptedCalls \/ AcceptedCalls' = AcceptedCalls \cup {NextId}
  BY <1>2, RecordEffect, RawRecord DEF AcceptedCalls
<1>8. /\ NextId \in 1 .. MaxRecords /\ NextId \notin AcceptedCalls
      /\ \A id \in AcceptedCalls : id \in Nat
      /\ mark < NextId
  <2>1. Len(log) \in Nat /\ Len(log) < MaxRecords /\ MaxRecords \in Nat
    BY <1>3, LenProperties, SizeAssumption DEF Log, FTyped, TypeOK
  <2>2. AcceptedCalls \subseteq 1 .. Len(log)
    BY CallsKnown DEF Ids
  <2> QED BY <2>1, <2>2 DEF NextId, FTyped, StopTyped, NotYet
<1>9. {id \in AcceptedCalls : id <= mark}' = {id \in AcceptedCalls : id <= mark}
  <2>1. mark' = mark /\ ~(NextId <= mark)
    <3>1. mark \in Int /\ NextId \in Int
      BY <1>8 DEF FTyped, StopTyped, NotYet, TypeOK
    <3> QED BY <1>1, <1>8, <3>1
  <2> QED BY <1>7, <2>1
<1>10. (mark # NotYet)' = (mark # NotYet)
  BY <1>1
<1>11. CASE AcceptedCalls' = AcceptedCalls
  BY <1>4, <1>5, <1>6, <1>9, <1>10, <1>11 DEF Promise!vars
<1>12. CASE AcceptedCalls' = AcceptedCalls \cup {NextId}
  <2>1. Promise!Accept(NextId)
    BY <1>4, <1>5, <1>6, <1>8, <1>9, <1>10, <1>12 DEF Promise!Accept
  <2> QED BY <1>8, <2>1 DEF Promise!Next
<1> QED BY <1>7, <1>11, <1>12

\* flush() of the application takes a stripe that no exporter was handed.
LEMMA PromiseManual ==
  ASSUME FInv, FInv', NEW f \in Flushers \ {Worker}, ManualFlush(f) \/ ManualReturn(f)
  PROVE  [Promise!Next]_(Promise!vars)
<1> USE DEF FInv
<1>0. /\ UNCHANGED <<wpc, spc, mark, seen, seenRaw, log, refused>>
      /\ Stage' = Stage /\ Inside' = Inside
  BY DEF ManualFlush, ManualReturn, FlushStart, FlushStripe, FlushReturn, workerVars, stopVars,
         histVars, Stage, Inside
<1>1. CASE ManualFlush(f) /\ FlushStart(f)
  <2>1. UNCHANGED <<batch, manual>>
    BY <1>1 DEF ManualFlush, FlushStart, histVars
  <2> QED BY <1>0, <2>1, SameTaken, SameClient
<1>2. CASE ManualFlush(f) /\ FlushStripe(f)
  <2>1. /\ manual' = manual
        /\ Sources(batch[f])' = Sources(batch[f]) \cup StripeSources(f)
        /\ \A g \in Flushers \ {f} : batch'[g] = batch[g]
    BY <1>2, FlushStripeEffect DEF ManualFlush, histVars
  <2> DEFINE S == StripeSources(f)
  <2> HIDE DEF S
  <2>2. ManuallyTaken' = ManuallyTaken \cup S
    <3>1. /\ Sources(manual)' = Sources(manual)
          /\ \A g \in Flushers \ {f} : Sources(batch[g])' = Sources(batch[g])
      BY <2>1 DEF Sources, IsGauge
    <3>2. Sources(batch[f])' = Sources(batch[f]) \cup S
      BY <2>1 DEF S
    <3>3. \A x : x \in ManuallyTaken <=>
             x \in Sources(manual) \/ \E g \in Flushers \ {Worker} : x \in Sources(batch[g])
      BY DEF ManuallyTaken
    <3>4. \A x : x \in ManuallyTaken' <=>
             x \in Sources(manual)' \/ \E g \in Flushers \ {Worker} : x \in Sources(batch[g])'
      BY DEF ManuallyTaken
    <3> QED BY <3>1, <3>2, <3>3, <3>4
  <2>3. AcceptedCalls' = AcceptedCalls
    BY <1>0, SameCalls, RawSentSame DEF AcceptedCalls
  <2>4. \A i \in Exporters : HandedTo(i)' = HandedTo(i)
    BY <1>0 DEF HandedTo, SeenBy, SeenRawBy, Sources, IsGauge
  <2>5. /\ ManuallyTaken' \subseteq AcceptedCalls'
        /\ \A i \in Exporters : HandedTo(i)' \cap ManuallyTaken' = {}
    BY CallsApartNext DEF CallsApart, Exporters
  <2>6. S \in SUBSET AcceptedCalls /\ \A i \in Exporters : S \cap HandedTo(i) = {}
    BY <2>2, <2>3, <2>4, <2>5
  <2>7. Promise!Take(S)
    <3>1. [i \in Exporters |-> HandedTo(i)]' = [i \in Exporters |-> HandedTo(i)]
      BY <2>4 DEF Exporters
    <3>2. {id \in AcceptedCalls : id <= mark}' = {id \in AcceptedCalls : id <= mark}
      BY <1>0, <2>3
    <3>3. (mark # NotYet)' = (mark # NotYet)
      BY <1>0
    <3> QED BY <1>0, <2>2, <2>3, <2>6, <3>1, <3>2, <3>3 DEF Promise!Take
  <2> QED BY <2>6, <2>7 DEF Promise!Next
<1>3. CASE ManualReturn(f)
  <2>1. /\ manual' = manual \cup batch[f] /\ batch'[f] = {}
        /\ \A g \in Flushers \ {f} : batch'[g] = batch[g]
    BY <1>3, FlushReturnEffect DEF ManualReturn
  <2>2. \A x : /\ x \in Sources(manual)' <=> x \in Sources(manual) \/ x \in Sources(batch[f])
               /\ x \notin Sources(batch[f])'
               /\ \A g \in Flushers \ {f} : x \in Sources(batch[g])' <=> x \in Sources(batch[g])
    BY <2>1 DEF Sources, IsGauge
  <2>3. \A x : x \in ManuallyTaken <=>
           x \in Sources(manual) \/ \E g \in Flushers \ {Worker} : x \in Sources(batch[g])
    BY DEF ManuallyTaken
  <2>4. \A x : x \in ManuallyTaken' <=>
           x \in Sources(manual)' \/ \E g \in Flushers \ {Worker} : x \in Sources(batch[g])'
    BY DEF ManuallyTaken
  <2>5. ManuallyTaken' = ManuallyTaken
    BY <2>2, <2>3, <2>4
  <2> QED BY <1>0, <2>5, SameClient
<1> QED BY <1>1, <1>2, <1>3 DEF ManualFlush

\* A caller of shutdown() asks, and leaves when the worker has ended: the one that
\* has the handle after the join, the others when that one has let go of the lock.
LEMMA PromiseStop ==
  ASSUME FInv, FInv', NEW t \in Stoppers, StopStep(t)
  PROVE  [Promise!Next]_(Promise!vars)
<1> USE DEF FInv
<1>1. /\ UNCHANGED <<wpc, seen, seenRaw, log, refused, batch, manual>>
      /\ Stage' = Stage
  BY DEF StopStep, NotifyOne, TakeHandle, Join, vars, workerVars, histVars, Stage
<1>2. ManuallyTaken' = ManuallyTaken /\ AcceptedCalls' = AcceptedCalls
  BY <1>1, SameTaken, SameCalls, RawSentSame DEF AcceptedCalls
<1>3. [i \in Exporters |-> HandedTo(i)]' = [i \in Exporters |-> HandedTo(i)]
  BY <1>1 DEF HandedTo, SeenBy, SeenRawBy, Sources, IsGauge, Exporters
<1>4. spc \in [Stoppers -> {"running", "locking", "joining", "returned"}]
  BY DEF StopInv
<1>5. CASE NotifyOne(t)
  <2>1. /\ spc[t] = "running" /\ spc' = [spc EXCEPT ![t] = "locking"]
        /\ mark' = IF mark = NotYet THEN Len(log) ELSE mark
    BY <1>5 DEF NotifyOne
  <2>2. t \notin Inside /\ Inside' = Inside \cup {t}
    <3>1. \A u \in Stoppers : spc'[u] = IF u = t THEN "locking" ELSE spc[u]
      BY <1>4, <2>1
    <3> QED BY <2>1, <3>1 DEF Inside
  <2>3. (mark # NotYet)' = TRUE
    BY <2>1, LenProperties DEF FTyped, TypeOK, NotYet
  <2>4. {id \in AcceptedCalls : id <= mark}'
          = IF mark # NotYet THEN {id \in AcceptedCalls : id <= mark} ELSE AcceptedCalls
    <3>1. \A id \in AcceptedCalls : id <= Len(log)
      BY CallsKnown DEF Ids
    <3> QED BY <1>2, <2>1, <3>1
  <2>5. Promise!Ask(t)
    BY <1>1, <1>2, <1>3, <2>2, <2>3, <2>4 DEF Promise!Ask
  <2> QED BY <2>5 DEF Promise!Next
<1>6. CASE TakeHandle(t) /\ handle
  <2>1. spc[t] = "locking" /\ spc' = [spc EXCEPT ![t] = "joining"] /\ mark' = mark
    BY <1>6 DEF TakeHandle
  <2>2. Inside' = Inside
    BY <1>4, <2>1 DEF Inside
  <2> QED BY <1>1, <1>2, <2>1, <2>2, SameClient
<1>7. CASE (TakeHandle(t) /\ ~handle) \/ Join(t)
  <2>1. spc[t] \in {"locking", "joining"} /\ spc' = [spc EXCEPT ![t] = "returned"] /\ mark' = mark
    BY <1>7 DEF TakeHandle, Join
  <2>2. t \in Inside /\ Inside' = Inside \ {t}
    <3>1. \A u \in Stoppers : spc'[u] = IF u = t THEN "returned" ELSE spc[u]
      BY <1>4, <2>1
    <3> QED BY <2>1, <3>1 DEF Inside
  <2>3. Stage # "running"
    <3>1. spc'[t] = "returned"
      BY <1>4, <2>1
    <3>2. Gone'
      BY <3>1 DEF StopInv, NoEarlyReturn
    <3> QED BY <1>1, <3>2 DEF Gone, Stage
  <2>4. {id \in AcceptedCalls : id <= mark}' = {id \in AcceptedCalls : id <= mark}
        /\ (mark # NotYet)' = (mark # NotYet)
    BY <1>2, <2>1
  <2>5. Promise!Leave(t)
    BY <1>1, <1>2, <1>3, <2>2, <2>3, <2>4 DEF Promise!Leave
  <2> QED BY <2>5 DEF Promise!Next
<1> QED BY <1>5, <1>6, <1>7 DEF StopStep

\* What the worker never touches.
LEMMA WorkerKeeps ==
  ASSUME TypeOK, WorkerStep \/ ExportReturn \/ ExportPanic
  PROVE  /\ UNCHANGED <<log, refused, manual, mark, spc>>
         /\ ManuallyTaken' = ManuallyTaken /\ AcceptedCalls' = AcceptedCalls /\ Inside' = Inside
<1>1. UNCHANGED <<log, refused, manual, mark, spc>>
  BY DEF WorkerStep, WorkerOwn, Tick, Notified, Wake, FlushStart, WorkerFlushStripe, FlushStripe,
         WorkerFlushReturn, FlushReturn, ExportCall, ExportedAll, DrainOne, RawTryRecv, DrainEmpty,
         NextPass, Break, ExportReturn, ExportPanic, DropReceiver, RawReceiverDropped, vars,
         workerVars, stopVars, histVars
<1>2. \A f \in Flushers \ {Worker} : batch'[f] = batch[f]
  <2>1. CASE WorkerFlushStripe \/ WorkerFlushReturn
    BY <2>1 DEF WorkerFlushStripe, FlushStripe, WorkerFlushReturn, FlushReturn, TypeOK
  <2>2. CASE ~WorkerFlushStripe /\ ~WorkerFlushReturn
    <3>1. batch' = batch
      BY <2>2 DEF WorkerStep, WorkerOwn, Tick, Notified, Wake, FlushStart, ExportCall, ExportedAll,
                  DrainOne, RawTryRecv, DrainEmpty, NextPass, Break, ExportReturn, ExportPanic,
                  DropReceiver, RawReceiverDropped, vars
    <3> QED BY <3>1
  <2> QED BY <2>1, <2>2
<1>3. Inside' = Inside
  BY <1>1 DEF Inside
<1> QED BY <1>1, <1>2, <1>3, SameTaken, SameCalls, RawSentSame DEF AcceptedCalls

\* What an exporter was handed stays handed.
LEMMA HandedToGrows ==
  ASSUME FTyped, ExportCall, NEW i \in Exporters
  PROVE  HandedTo(i) \subseteq HandedTo(i)'
<1>1. /\ seen[i] \in Seq(Batches) /\ seenRaw[i] \in Seq(Ids)
      /\ metrics \in Batches /\ points \in Seq(Ids)
      /\ seen \in [Exporters -> Seq(Batches)] /\ seenRaw \in [Exporters -> Seq(Ids)]
  BY DEF FTyped, HandedTyped
<1>2. seen'[i] \in {seen[i], Noted(seen[i], metrics)}
  BY <1>1 DEF ExportCall
<1>3. seenRaw'[i] \in {seenRaw[i], seenRaw[i] \o points}
  BY <1>1 DEF ExportCall
<1>4. SeenBy(i) \subseteq SeenBy(i)'
  <2>1. \A x : x \in SeenBy(i) <=> \E k \in DOMAIN seen[i] : x \in Sources(seen[i][k])
    BY InSeenBy
  <2>2. \A x : x \in SeenBy(i)' <=> \E k \in DOMAIN seen'[i] : x \in Sources(seen'[i][k])
    BY DEF SeenBy, Sources, IsGauge
  <2> DEFINE b == seen[i]
             n == Noted(b, metrics)
  <2>3. b \in Seq(Batches) /\ metrics \in Batches /\ seen'[i] \in {b, n}
    BY <1>1, <1>2
  <2> HIDE DEF b
  <2>4. \A x : (\E k \in DOMAIN n : x \in Sources(n[k]))
             <=> (\E k \in DOMAIN b : x \in Sources(b[k])) \/ x \in Sources(metrics)
    BY <2>3, NotedSources
  <2> HIDE DEF n
  <2> QED BY <2>1, <2>2, <2>3, <2>4 DEF b
<1>5. SeenRawBy(i) \subseteq SeenRawBy(i)'
  <2>1. SeenRawBy(i) = Range(seenRaw[i]) /\ SeenRawBy(i)' = Range(seenRaw'[i])
    BY DEF SeenRawBy, Range
  <2>2. Range(seenRaw[i] \o points) = Range(seenRaw[i]) \cup Range(points)
    BY <1>1, RangeConcatenation
  <2> QED BY <1>3, <2>1, <2>2
<1> QED BY <1>4, <1>5 DEF HandedTo

\* A pass, its calls of exporters and its end: nothing that an exporter is handed
\* was taken by somebody else, and the worker ends in order when it was asked to
\* and owes nothing.
LEMMA PromiseWorker ==
  ASSUME FInv, FInv', WorkerStep \/ ExportReturn \/ ExportPanic
  PROVE  [Promise!Next]_(Promise!vars)
<1> USE DEF FInv
<1>1. /\ UNCHANGED <<log, refused, manual, mark, spc>>
      /\ ManuallyTaken' = ManuallyTaken /\ AcceptedCalls' = AcceptedCalls /\ Inside' = Inside
  BY WorkerKeeps DEF FTyped
<1>2. {id \in AcceptedCalls : id <= mark}' = {id \in AcceptedCalls : id <= mark}
      /\ (mark # NotYet)' = (mark # NotYet)
  BY <1>1
<1>3. CallsApart'
  BY CallsApartNext
<1>4. ASSUME Stage = "running", Stage' \in {"running", "ended", "failed"},
             \A i \in Exporters : HandedTo(i) \subseteq HandedTo(i)',
             Stage' = "ended" => mark # NotYet
      PROVE  Promise!Work
  <2>1. [i \in Exporters |-> HandedTo(i)]' \in [Exporters -> SUBSET (AcceptedCalls \ ManuallyTaken)]
    BY <1>1, <1>3 DEF CallsApart, Exporters
  <2>2. \A e \in Exporters :
           [i \in Exporters |-> HandedTo(i)][e] \subseteq [i \in Exporters |-> HandedTo(i)]'[e]
    BY <1>4 DEF Exporters
  <2>3. ASSUME Stage' = "ended", NEW e \in Exporters
        PROVE  {id \in AcceptedCalls : id <= mark}
                  \subseteq [i \in Exporters |-> HandedTo(i)]'[e] \cup ManuallyTaken
    <3>1. wpc' = "exited"
      BY <2>3 DEF Stage
    <3>2. FinalFlush'
      BY <1>3 DEF CallsApart
    <3>3. \A id \in AcceptedCalls : id <= mark => id \in 1 .. mark'
      <4>1. \A id \in AcceptedCalls : id \in Nat /\ id >= 1
        BY CallsKnown DEF Ids
      <4>2. mark \in Int
        BY DEF FTyped, StopTyped, NotYet, TypeOK
      <4> QED BY <1>1, <4>1, <4>2
    <3>4. \A id \in AcceptedCalls : id \in Accepted' \/ id \in RawSent'
      BY <1>1 DEF AcceptedCalls
    <3>5. \A id \in 1 .. mark' :
             /\ id \in Accepted' => id \in SeenBy(e)' \cup ManuallyTaken'
             /\ id \in RawSent' => id \in SeenRawBy(e)'
      BY <3>1, <3>2 DEF FinalFlush, Exporters
    <3>6. [i \in Exporters |-> HandedTo(i)]'[e] = SeenBy(e)' \cup SeenRawBy(e)'
      BY DEF HandedTo, Exporters
    <3> QED BY <1>1, <3>3, <3>4, <3>5, <3>6
  <2> QED BY <1>1, <1>2, <1>4, <2>1, <2>2, <2>3 DEF Promise!Work
<1>5. CASE ExportCall
  <2>1. Stage = "running" /\ Stage' = "running"
    BY <1>5 DEF ExportCall, Stage
  <2>2. Promise!Work
    BY <1>4, <1>5, <2>1, HandedToGrows
  <2> QED BY <2>2 DEF Promise!Next
<1>6. CASE Break \/ ExportPanic
  <2>1. /\ UNCHANGED <<seen, seenRaw>> /\ wpc \in {"leaving", "awaiting"}
        /\ wpc' \in {"exited", "panicked"} /\ (wpc' = "exited" => final)
    BY <1>6 DEF Break, ExportPanic, histVars
  <2>2. \A i \in Exporters : HandedTo(i) \subseteq HandedTo(i)'
    BY <2>1 DEF HandedTo, SeenBy, SeenRawBy, Sources, IsGauge
  <2>3. Stage = "running" /\ Stage' \in {"ended", "failed"} /\ (Stage' = "ended" => mark # NotYet)
    BY <2>1 DEF Stage, Cover
  <2>4. Promise!Work
    BY <1>4, <2>2, <2>3
  <2> QED BY <2>4 DEF Promise!Next
<1>7. CASE ~ExportCall /\ ~Break /\ ~ExportPanic
  <2>1. CASE WorkerFlushStripe \/ WorkerFlushReturn
    <3>1. /\ UNCHANGED <<seen, seenRaw>>
          /\ wpc = "flushing" /\ wpc' \in {"flushing", "exporting", "draining"}
      BY <2>1, SizeAssumption
         DEF WorkerFlushStripe, FlushStripe, Visiting, WorkerFlushReturn, FlushReturn, Finished,
             StopInv, Idle, AfterEmptyBatch, workerVars, histVars
    <3> QED BY <1>1, <3>1, SameClient DEF Stage
  <2>2. CASE \/ Tick \/ Notified \/ ExportedAll \/ DrainOne \/ DrainEmpty \/ NextPass
             \/ ExportReturn
    <3>1. /\ UNCHANGED <<seen, seenRaw>>
          /\ wpc \notin {"exited", "panicked"} /\ wpc' \notin {"exited", "panicked"}
      BY <2>2 DEF Tick, Notified, Wake, ExportedAll, DrainOne, DrainEmpty, NextPass, ExportReturn,
                  histVars
    <3> QED BY <1>1, <3>1, SameClient DEF Stage
  <2> QED BY <1>7, <2>1, <2>2 DEF WorkerStep, WorkerOwn
<1> QED BY <1>5, <1>6, <1>7

\* Every step is one of the promise, or none.
LEMMA PromiseStep ==
  FInv /\ FInv' /\ [FNext]_fvars => [Promise!Next]_(Promise!vars)
<1> SUFFICES ASSUME FInv, FInv', [FNext]_fvars PROVE [Promise!Next]_(Promise!vars)
  OBVIOUS
<1>1. CASE UNCHANGED fvars
  <2>1. /\ UNCHANGED <<log, refused, seen, seenRaw, mark, manual, batch>>
        /\ Stage' = Stage /\ Inside' = Inside
    BY <1>1 DEF fvars, vars, workerVars, stopVars, histVars, Stage, Inside
  <2> QED BY <2>1, SameTaken, SameClient
<1> QED BY <1>1, PromiseRecord, PromiseManual, PromiseStop, PromiseWorker
        DEF FNext, ApplicationStep

\* A client starts as the promise does.
LEMMA PromiseStart == FInit => Promise!Init
<1> SUFFICES ASSUME FInit PROVE Promise!Init
  OBVIOUS
<1>1. Ids = {}
  BY DEF FInit, Init, Ids
<1>2. AcceptedCalls = {}
  BY <1>1 DEF AcceptedCalls, Accepted, RawSent
<1>3. ManuallyTaken = {}
  <2>1. Sources({}) = {}
    BY DEF Sources
  <2> QED BY <2>1 DEF FInit, Init, ManuallyTaken
<1>4. \A i \in Exporters : HandedTo(i) = {}
  BY DEF FInit, HandedTo, SeenBy, SeenRawBy
<1>5. [i \in Exporters |-> HandedTo(i)] = [i \in Exporters |-> {}]
  BY <1>4
<1>6. {id \in AcceptedCalls : id <= mark} = {} /\ (mark # NotYet) = FALSE
  BY <1>2 DEF FInit
<1>7. Stage = "running" /\ Inside = {}
  BY DEF FInit, Stage, Inside
<1> QED BY <1>2, <1>3, <1>5, <1>6, <1>7 DEF Promise!Init

\* A client at work, with its map, its worker, its exporters, its channel and its
\* lock, keeps the promise of a client.
THEOREM PromiseHolds == FSpec => PromiseSpec
  BY PromiseStart, PromiseStep, FInvHolds, PTL DEF FSpec, PromiseSpec, Promise!Spec
=============================================================================
