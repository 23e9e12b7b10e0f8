----------------------------- MODULE FlushWorker -----------------------------
(***************************************************************************)
(* A client at work: the aggregation map of StripedAggMap, the worker      *)
(* thread of src/src/worker.rs that flushes it and feeds the exporters one *)
(* after the other, threads that flush by hand, and threads that call      *)
(* MetricsClient::shutdown (src/src/client.rs).                            *)
(***************************************************************************)
EXTENDS StripedAggMap

CONSTANTS
    Worker,        \* the worker thread, one of Flushers
    Stoppers,      \* the threads that call shutdown()
    NumExporters,  \* how many exporters are registered
    Outcomes       \* what the future of each exporter may end in

ASSUME WorkerAssumption ==
    /\ Worker \in Flushers
    /\ "nobody" \notin Stoppers
    /\ NumExporters \in Nat
    /\ Outcomes \in [1 .. NumExporters -> SUBSET {"ok", "err", "panic"}]

VARIABLES
    wpc,       \* where the worker is
    final,     \* the worker is in its last pass, having seen the notification
    phase,     \* what is being exported: "metrics" or "raw"
    exporter,  \* the index of the exporter in turn
    metrics,   \* the flushed metrics of the pass
    points,    \* the raw points of the pass
    permit,    \* the permit stored in shutdown_notify
    handle,    \* worker_handle still holds the JoinHandle
    holder,    \* the owner of worker_handle's mutex, or Nobody
    spc,       \* where each stopper is in shutdown()
    manual,    \* history: what the flush() callers got
    seen,      \* history: the batches each exporter was called with, those
               \* of the same unchanged gauges only once
    seenRaw,   \* history: the raw points each exporter was called with
    mark       \* history: Len(log) when shutdown() was first called, or NotYet

workerVars == <<wpc, final, phase, exporter, metrics, points>>
stopVars == <<permit, handle, holder, spc, mark>>
histVars == <<manual, seen, seenRaw>>
fvars == <<vars, workerVars, stopVars, histVars>>

Exporters == 1 .. NumExporters
Nobody == "nobody"
NotYet == -1

FInit ==
    /\ Init
    /\ wpc = "waiting" /\ final = FALSE
    /\ phase = "metrics" /\ exporter = 1 /\ metrics = {} /\ points = <<>>
    /\ permit = FALSE /\ handle = TRUE /\ holder = Nobody
    /\ spc = [t \in Stoppers |-> "running"]
    /\ mark = NotYet
    /\ manual = {}
    /\ seen = [i \in Exporters |-> <<>>]
    /\ seenRaw = [i \in Exporters |-> <<>>]

-----------------------------------------------------------------------------
(* The worker's loop.  Both branches of the select! make the same pass, and *)
(* the second one leaves after it.                                          *)

Wake ==
    /\ wpc = "waiting"
    /\ wpc' = "flushing"
    /\ FlushStart(Worker)
    /\ UNCHANGED <<phase, exporter, metrics, points, handle, holder, spc, mark, histVars>>

Tick == Wake /\ UNCHANGED <<final, permit>>

Notified == permit /\ Wake /\ permit' = FALSE /\ final' = TRUE

WorkerFlushStripe ==
    FlushStripe(Worker) /\ UNCHANGED <<workerVars, stopVars, histVars>>

\* Mutant: a pass without metrics ends there.
SkipDrain == "leaving"

AfterEmptyBatch == "draining"

\* Mutant: the points of the last pass are kept.
KeptPoints == points

NewPoints == <<>>

\* An empty batch is not exported.
WorkerFlushReturn ==
    /\ FlushReturn(Worker)
    /\ metrics' = batch[Worker]
    /\ phase' = "metrics" /\ exporter' = 1
    /\ wpc' = IF metrics' = {} THEN AfterEmptyBatch ELSE "exporting"
    /\ points' = NewPoints
    /\ UNCHANGED <<final, stopVars, histVars>>

\* A batch of gauges that have not changed is not noted again.
Noted(batches, M) ==
    IF Sources(M) = {} /\ batches # <<>> /\ batches[Len(batches)] = M
    THEN batches ELSE Append(batches, M)

\* The call of exporter.export(..) or exporter.export_raw_points(..).
ExportCall ==
    /\ wpc = "exporting" /\ exporter \in Exporters
    /\ wpc' = "awaiting"
    /\ IF phase = "metrics"
       THEN /\ seen' = [seen EXCEPT ![exporter] = Noted(@, metrics)]
            /\ UNCHANGED seenRaw
       ELSE /\ seenRaw' = [seenRaw EXCEPT ![exporter] = @ \o points]
            /\ UNCHANGED seen
    /\ UNCHANGED <<vars, final, phase, exporter, metrics, points, stopVars, manual>>

\* Mutant: the first error ends the pass.
AfterErrorStop(outcome) == IF outcome = "err" THEN NumExporters + 1 ELSE exporter + 1

AfterExport(outcome) == exporter + 1

\* The end of its future: an error is logged, and no more.
ExportReturn ==
    /\ wpc = "awaiting"
    /\ \E outcome \in Outcomes[exporter] \ {"panic"} : exporter' = AfterExport(outcome)
    /\ wpc' = "exporting"
    /\ UNCHANGED <<vars, final, phase, metrics, points, stopVars, histVars>>

\* The thread ends: the receiver and what it holds go with it.
DropReceiver == IF Passthrough THEN RawReceiverDropped ELSE UNCHANGED vars

\* A panic in an exporter unwinds block_on and ends the thread.
ExportPanic ==
    /\ wpc = "awaiting" /\ "panic" \in Outcomes[exporter]
    /\ wpc' = "panicked"
    /\ DropReceiver
    /\ UNCHANGED <<final, phase, exporter, metrics, points, stopVars, histVars>>

ExportedAll ==
    /\ wpc = "exporting" /\ exporter \notin Exporters
    /\ wpc' = IF phase = "metrics" THEN "draining" ELSE "leaving"
    /\ UNCHANGED <<vars, final, phase, exporter, metrics, points, stopVars, histVars>>

\* while let Ok(point) = receiver.try_recv()
DrainOne ==
    /\ wpc = "draining"
    /\ RawTryRecv
    /\ points' = Append(points, Head(rawQueue))
    /\ UNCHANGED <<wpc, final, phase, exporter, metrics, stopVars, histVars>>

DrainEmpty ==
    /\ wpc = "draining" /\ rawQueue = <<>>
    /\ wpc' = IF points = <<>> THEN "leaving" ELSE "exporting"
    /\ phase' = "raw" /\ exporter' = 1
    /\ UNCHANGED <<vars, final, metrics, points, stopVars, histVars>>

NextPass ==
    /\ wpc = "leaving" /\ ~final
    /\ wpc' = "waiting"
    /\ UNCHANGED <<vars, final, phase, exporter, metrics, points, stopVars, histVars>>

Break ==
    /\ wpc = "leaving" /\ final
    /\ wpc' = "exited"
    /\ DropReceiver
    /\ UNCHANGED <<final, phase, exporter, metrics, points, stopVars, histVars>>

-----------------------------------------------------------------------------
(* MetricsClient::shutdown.                                                *)

\* Mutant: notify_waiters, which stores nothing.
PermitIfWaiting == permit \/ wpc = "waiting"

PermitStored == TRUE

NotifyOne(t) ==
    /\ spc[t] = "running"
    /\ spc' = [spc EXCEPT ![t] = "locking"]
    /\ permit' = PermitStored
    /\ mark' = IF mark = NotYet THEN Len(log) ELSE mark
    /\ UNCHANGED <<vars, workerVars, handle, holder, histVars>>

\* Mutant: the lock is released before the join.
HolderUnlocked(t) == Nobody

HolderWhileJoining(t) == t

\* The first to lock takes the handle, and keeps the lock while it joins.
TakeHandle(t) ==
    /\ spc[t] = "locking" /\ holder = Nobody
    /\ handle' = FALSE
    /\ IF handle
       THEN spc' = [spc EXCEPT ![t] = "joining"] /\ holder' = HolderWhileJoining(t)
       ELSE spc' = [spc EXCEPT ![t] = "returned"] /\ UNCHANGED holder
    /\ UNCHANGED <<vars, workerVars, permit, mark, histVars>>

Join(t) ==
    /\ spc[t] = "joining" /\ wpc \in {"exited", "panicked"}
    /\ spc' = [spc EXCEPT ![t] = "returned"]
    /\ holder' = Nobody
    /\ UNCHANGED <<vars, workerVars, permit, handle, mark, histVars>>

-----------------------------------------------------------------------------
RecordCall == Record /\ UNCHANGED <<workerVars, stopVars, histVars>>

\* MetricsClient::flush, on a thread of its own.
ManualFlush(f) ==
    /\ FlushStart(f) \/ FlushStripe(f)
    /\ UNCHANGED <<workerVars, stopVars, histVars>>

ManualReturn(f) ==
    /\ FlushReturn(f)
    /\ manual' = manual \cup batch[f]
    /\ UNCHANGED <<workerVars, stopVars, seen, seenRaw>>

WorkerOwn ==
    \/ WorkerFlushStripe \/ WorkerFlushReturn \/ ExportCall \/ ExportedAll
    \/ DrainOne \/ DrainEmpty \/ NextPass \/ Break
WorkerStep == Tick \/ Notified \/ WorkerOwn
StopStep(t) == NotifyOne(t) \/ TakeHandle(t) \/ Join(t)
ApplicationStep ==
    \/ RecordCall
    \/ \E f \in Flushers \ {Worker} : ManualFlush(f) \/ ManualReturn(f)
    \/ \E t \in Stoppers : StopStep(t)

FNext == ApplicationStep \/ WorkerStep \/ ExportReturn \/ ExportPanic

FSpec == FInit /\ [][FNext]_fvars

\* The worker thread runs, the interval ticks, and select! polls its branches
\* in a random order, so a notification is not passed over for ever.
WorkerFairness == WF_fvars(WorkerOwn) /\ WF_fvars(Tick) /\ SF_fvars(Notified)
\* A thread inside shutdown() goes on.
StopFairness == \A t \in Stoppers : WF_fvars(TakeHandle(t) \/ Join(t))
\* Exporters return, or panic.
ExporterFairness == WF_fvars(ExportReturn \/ ExportPanic)

LiveSpec == FSpec /\ WorkerFairness /\ StopFairness /\ ExporterFairness

-----------------------------------------------------------------------------
Gone == wpc \in {"exited", "panicked"}
Batches == SUBSET Entries
SeenBy(i) == UNION {Sources(seen[i][k]) : k \in DOMAIN seen[i]}
SeenRawBy(i) == {seenRaw[i][k] : k \in DOMAIN seenRaw[i]}
ManuallyTaken == Sources(manual) \cup UNION {Sources(batch[f]) : f \in Flushers \ {Worker}}
RawSent == {id \in Ids : IsRaw(id)} \ refused

\* The worker, the exporters and the callers of shutdown() are in known states.
FTypeOK ==
    /\ TypeOK
    /\ wpc \in {"waiting", "flushing", "exporting", "awaiting", "draining",
                "leaving", "exited", "panicked"}
    /\ final \in BOOLEAN
    /\ phase \in {"metrics", "raw"}
    /\ exporter \in 1 .. NumExporters + 1
    /\ metrics \in Batches /\ manual \in Batches
    /\ points \in Seq(Ids)
    /\ permit \in BOOLEAN /\ handle \in BOOLEAN
    /\ holder \in Stoppers \cup {Nobody}
    /\ spc \in [Stoppers -> {"running", "locking", "joining", "returned"}]
    /\ mark \in {NotYet} \cup 0 .. Len(log)
    /\ seen \in [Exporters -> Seq(Batches)]
    /\ seenRaw \in [Exporters -> Seq(Ids)]

\* When the worker has left its loop, every record call that was accepted
\* before shutdown() was first called has been handed to every exporter, or
\* was taken by a flush() of the application.  (client.rs: "performing a final
\* flush"; a notification may find the worker anywhere in a pass.)
FinalFlush ==
    wpc = "exited" => \A i \in Exporters, id \in 1 .. mark :
        /\ id \in Accepted => id \in SeenBy(i) \cup ManuallyTaken
        /\ id \in RawSent => id \in SeenRawBy(i)

\* Between passes all exporters have been called with the same batches and
\* points, whatever the others answered.
ErrorsIsolated ==
    wpc \in {"waiting", "exited"} => \A i, j \in Exporters :
        seen[i] = seen[j] /\ seenRaw[i] = seenRaw[j]

\* What an exporter got of the raw points, followed by what it will get of
\* this pass and by the channel, is every point sent, once, in order.
RawToCome(i) ==
    IF \/ wpc = "draining"
       \/ phase = "raw" /\ wpc = "exporting" /\ exporter <= i
       \/ phase = "raw" /\ wpc = "awaiting" /\ exporter < i
    THEN points ELSE <<>>
RawInOrder ==
    \A i \in Exporters :
        LET stream == seenRaw[i] \o RawToCome(i) \o rawQueue
        IN  /\ \A k \in 2 .. Len(stream) : stream[k - 1] < stream[k]
            /\ ~Gone => {stream[k] : k \in DOMAIN stream} = RawSent

\* No exporter is handed a count or an observation twice, nor one that a flush()
\* of the application took, however the two kinds of flushes meet.
HandedOnce ==
    \A i \in Exporters :
        /\ \A k, l \in DOMAIN seen[i] :
              k # l => Sources(seen[i][k]) \cap Sources(seen[i][l]) = {}
        /\ SeenBy(i) \cap ManuallyTaken = {}

\* No call of shutdown() returns before the worker thread has ended, however
\* many threads call it together.
NoEarlyReturn == \A t \in Stoppers : spc[t] = "returned" => Gone

\* A client, as its application sees it, ...
AcceptedCalls == Accepted \cup RawSent
HandedTo(i) == SeenBy(i) \cup SeenRawBy(i)
Stage == IF wpc = "panicked" THEN "failed" ELSE IF wpc = "exited" THEN "ended" ELSE "running"
Inside == {t \in Stoppers : spc[t] \in {"locking", "joining"}}
Promise == INSTANCE ClientPromise WITH
    Calls    <- 1 .. MaxRecords,
    Callers  <- Stoppers,
    accepted <- AcceptedCalls,
    handed   <- [i \in Exporters |-> HandedTo(i)],
    taken    <- ManuallyTaken,
    stage    <- Stage,
    owed     <- {id \in AcceptedCalls : id <= mark},
    asked    <- mark # NotYet,
    inside   <- Inside
\* ... keeps its promise.
PromiseSpec == Promise!Spec

\* shutdown() returns, if the exporters do.
ShutdownReturns == \A t \in Stoppers : spc[t] = "locking" ~> spc[t] = "returned"

\* Every accepted record call, raw points included, reaches every exporter, or a
\* flush() of the application, unless an exporter panics or the worker is shut down
\* first.
EventuallyExported ==
    \A id \in 1 .. MaxRecords :
        id \in AcceptedCalls ~>
            \/ wpc = "panicked"
            \/ wpc = "exited" /\ mark < id
            \/ \A i \in Exporters : id \in HandedTo(i) \cup ManuallyTaken
=============================================================================
