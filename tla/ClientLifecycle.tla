--------------------------- MODULE ClientLifecycle ---------------------------
(***************************************************************************)
(* The global client of src/src/client.rs: try_init racing on GLOBAL, the  *)
(* atexit handler, shutdown() behind SHUTDOWN_CALLED, and the end of the   *)
(* process.  A client is named after the thread that built it.  Its map is *)
(* the set of records pending in it, a pass of its worker (modules         *)
(* StripedAggMap and FlushWorker) two steps: the flush, and the end of the *)
(* exporters, which may be a panic.                                        *)
(***************************************************************************)
EXTENDS Integers, FiniteSets

CONSTANTS
    Threads,    \* application threads
    Main,       \* the one of them that returns from main or calls exit
    Calls,      \* which of "init" and "shutdown" the application calls, and
                \* whether its exporters call shutdown() ("exporter") or "panic"
    MaxRecords  \* bound on the record calls of a behaviour

ASSUME LifecycleAssumption ==
    /\ Main \in Threads /\ "unset" \notin Threads
    /\ Calls \subseteq {"init", "shutdown", "exporter", "panic"}
    /\ MaxRecords \in Nat

VARIABLES
    global,         \* GLOBAL: the client that was set, or Unset
    shutdownCalled, \* SHUTDOWN_CALLED
    registered,     \* atexit has been called
    pc,             \* where each thread is
    inited,         \* thread -> how its try_init ended
    worker,         \* client -> its worker thread
    notified,       \* client -> whether its shutdown_notify has been notified
    pending,        \* client -> the records in its map
    batch,          \* client -> the records that a pass has taken out of it
    exported,       \* client -> the records of passes that are done
    process,        \* "running", "exiting" (inside exit) or "dead"
    nrecords,       \* history: how many record calls have been made
    dropped,        \* history: the records made while GLOBAL was unset
    covered,        \* history: thread -> what its shutdown() has to export
    asked,          \* history: the application has called shutdown() itself
    owed            \* history: what exit has to export

clientVars == <<notified, pending, batch, exported>>
vars == <<global, shutdownCalled, registered, pc, inited, worker, clientVars,
          process, nrecords, dropped, covered, asked, owed>>
historyVars == <<nrecords, dropped, covered, asked, owed>>

Unset == "unset"
Records == 1 .. MaxRecords

Init ==
    /\ global = Unset /\ shutdownCalled = FALSE /\ registered = FALSE
    /\ pc = [t \in Threads |-> "app"]
    /\ inited = [t \in Threads |-> "not tried"]
    /\ worker = [t \in Threads |-> "none"]
    /\ notified = [t \in Threads |-> FALSE]
    /\ pending = [t \in Threads |-> {}]
    /\ batch = [t \in Threads |-> {}]
    /\ exported = [t \in Threads |-> {}]
    /\ process = "running" /\ nrecords = 0 /\ dropped = {}
    /\ covered = [t \in Threads |-> {}] /\ asked = FALSE /\ owed = {}

\* Until the process is dead every thread goes on, also while Main is in exit.
Goto(t, from, to) ==
    /\ process # "dead" /\ pc[t] = from
    /\ pc' = [pc EXCEPT ![t] = to]
InExit(t) == t = Main /\ process = "exiting"
InApp(t) == process # "dead" /\ pc[t] = "app" /\ ~InExit(t)

-----------------------------------------------------------------------------
(* try_init.                                                               *)

\* build_inner: the worker thread runs before GLOBAL is known to be free.
BuildInner(t) ==
    /\ InApp(t) /\ "init" \in Calls /\ inited[t] = "not tried"
    /\ Goto(t, "app", "built")
    /\ worker' = [worker EXCEPT ![t] = "running"]
    /\ UNCHANGED <<global, shutdownCalled, registered, inited, clientVars, process,
                   historyVars>>

\* Mutant: the last one to initialise wins.
FirstOrLast == TRUE

First == global = Unset

SetGlobal(t) ==
    /\ IF First
       THEN /\ Goto(t, "built", "registering")
            /\ global' = t
            /\ UNCHANGED inited
       ELSE /\ Goto(t, "built", "app")
            /\ inited' = [inited EXCEPT ![t] = "failed"]
            /\ UNCHANGED global
    /\ UNCHANGED <<shutdownCalled, registered, worker, clientVars, process, historyVars>>

RegisterAtexit(t) ==
    /\ Goto(t, "registering", "app")
    /\ registered' = TRUE
    /\ inited' = [inited EXCEPT ![t] = "ok"]
    /\ UNCHANGED <<global, shutdownCalled, worker, clientVars, process, historyVars>>

-----------------------------------------------------------------------------
(* record_count and its like, and the worker                               *)

Record(t) ==
    /\ InApp(t) /\ nrecords < MaxRecords
    /\ nrecords' = nrecords + 1
    /\ IF global = Unset
       THEN dropped' = dropped \cup {nrecords'} /\ UNCHANGED pending
       ELSE pending' = [pending EXCEPT ![global] = @ \cup {nrecords'}] /\ UNCHANGED dropped
    /\ UNCHANGED <<global, shutdownCalled, registered, pc, inited, worker, notified,
                   batch, exported, process, covered, asked, owed>>

WorkerFree == <<global, shutdownCalled, registered, pc, inited, notified, process,
                historyVars>>

\* aggregator.flush()
Flush(c) ==
    /\ batch' = [batch EXCEPT ![c] = pending[c]]
    /\ pending' = [pending EXCEPT ![c] = {}]

\* A tick, which select! may prefer to a notification.
WorkerPass(c) ==
    /\ process # "dead" /\ worker[c] = "running" /\ batch[c] = {} /\ pending[c] # {}
    /\ Flush(c)
    /\ UNCHANGED <<WorkerFree, worker, exported>>

\* Mutant: the loop breaks without a last pass.
LastPassSkipped(c) == UNCHANGED <<batch, pending>>

LastPass(c) == Flush(c)

WorkerLastPass(c) ==
    /\ process # "dead" /\ worker[c] = "running" /\ batch[c] = {} /\ notified[c]
    /\ worker' = [worker EXCEPT ![c] = "last"]
    /\ LastPass(c)
    /\ UNCHANGED <<WorkerFree, exported>>

\* Every exporter has been called, and has returned.
PassDone(c) ==
    /\ process # "dead"
    /\ worker[c] = "last" \/ (worker[c] = "running" /\ batch[c] # {})
    /\ worker' = [worker EXCEPT ![c] = IF @ = "last" THEN "ended" ELSE @]
    /\ exported' = [exported EXCEPT ![c] = @ \cup batch[c]]
    /\ batch' = [batch EXCEPT ![c] = {}]
    /\ UNCHANGED <<WorkerFree, pending>>

\* A panic in an exporter ends the thread: the batch goes to none of those behind
\* it, and what is pending to none at all.
ExporterPanics(c) ==
    /\ process # "dead" /\ worker[c] \in {"running", "last"} /\ batch[c] # {}
    /\ "panic" \in Calls
    /\ worker' = [worker EXCEPT ![c] = "panicked"]
    /\ UNCHANGED <<WorkerFree, pending, batch, exported>>

-----------------------------------------------------------------------------
(* shutdown(), by the application and by the atexit handler                *)

Others == <<registered, inited, pending, batch, exported, nrecords, dropped>>

\* compare_exchange: all calls but the first return at once.
Shutdown(t, won, lost) ==
    /\ Goto(t, "app", IF shutdownCalled THEN lost ELSE won)
    /\ shutdownCalled' = TRUE

CallShutdown(t) ==
    /\ InApp(t) /\ "shutdown" \in Calls
    /\ Shutdown(t, "stopping", "app")
    /\ asked' = TRUE
    /\ UNCHANGED <<Others, global, worker, notified, process, covered, owed>>

\* Mutant: the notification is lost.
Unnotified == FALSE

AfterNotify == TRUE

\* GLOBAL.get(), then MetricsClient::shutdown up to the join.
NotifyWorker(t) ==
    /\ IF global = Unset
       THEN Goto(t, "stopping", "stopped") /\ UNCHANGED <<notified, covered>>
       ELSE /\ Goto(t, "stopping", "joining")
            /\ notified' = [notified EXCEPT ![global] = AfterNotify]
            /\ covered' = [covered EXCEPT ![t] = (1 .. nrecords) \ dropped]
    /\ UNCHANGED <<Others, global, shutdownCalled, worker, process, asked, owed>>

\* shutdown() from an exporter, in a pass, that gets the flag: it joins its own
\* thread.  The join panics, which ends the thread, or where the system does not
\* detect it, it never returns.  There is no last pass, and the notification that
\* it stores finds nobody.
ExporterShutdown(c) ==
    /\ process # "dead" /\ worker[c] = "running" /\ batch[c] # {}
    /\ "exporter" \in Calls /\ ~shutdownCalled
    /\ shutdownCalled' = TRUE /\ asked' = TRUE
    /\ \E end \in {"panicked", "stuck"} : worker' = [worker EXCEPT ![c] = end]
    /\ UNCHANGED <<Others, global, notified, pc, process, covered, owed>>

\* Mutant: the thread is not waited for.
Detached(c) == TRUE

Joined(c) == worker[c] \in {"ended", "panicked"}

JoinWorker(t) ==
    /\ Goto(t, "joining", "stopped")
    /\ Joined(global)
    /\ UNCHANGED <<Others, global, shutdownCalled, worker, notified, process, covered, asked,
                   owed>>

ShutdownReturns(t) ==
    /\ Goto(t, "stopped", "app")
    /\ ~InExit(t)
    /\ UNCHANGED <<Others, global, shutdownCalled, worker, notified, process, covered, asked,
                   owed>>

-----------------------------------------------------------------------------
(* exit, outside the code: the handlers run on the exiting thread, then the *)
(* process and all its threads are gone.                                   *)

Exit ==
    /\ InApp(Main)
    /\ process' = "exiting"
    /\ owed' = IF \E t \in Threads : inited[t] = "ok" /\ worker[t] = "running"
               THEN (1 .. nrecords) \ dropped ELSE {}
    /\ UNCHANGED <<Others, global, shutdownCalled, pc, worker, notified, covered, asked>>

\* atexit_handler.
AtexitHandler ==
    /\ process = "exiting" /\ registered
    /\ Shutdown(Main, "stopping", "stopped")
    /\ UNCHANGED <<Others, global, worker, notified, process, covered, asked, owed>>

Die ==
    /\ process = "exiting"
    /\ pc[Main] = IF registered THEN "stopped" ELSE "app"
    /\ process' = "dead"
    /\ UNCHANGED <<Others, global, shutdownCalled, pc, worker, notified, covered, asked, owed>>

InitStep(t) == BuildInner(t) \/ SetGlobal(t) \/ RegisterAtexit(t)
StopStep(t) == NotifyWorker(t) \/ JoinWorker(t) \/ ShutdownReturns(t)

WorkerStep(c) ==
    \/ WorkerPass(c) \/ WorkerLastPass(c) \/ PassDone(c) \/ ExporterPanics(c)
    \/ ExporterShutdown(c)

Next ==
    \/ \E t \in Threads :
          InitStep(t) \/ Record(t) \/ CallShutdown(t) \/ StopStep(t) \/ WorkerStep(t)
    \/ Exit \/ AtexitHandler \/ Die

Spec == Init /\ [][Next]_vars

\* Threads inside a call go on, exporters return or panic, and select! does not
\* pass over a notification for ever.
LiveSpec ==
    /\ Spec
    /\ \A t \in Threads :
          WF_vars(StopStep(t)) /\ WF_vars(PassDone(t)) /\ SF_vars(WorkerLastPass(t))
    /\ WF_vars(AtexitHandler \/ Die)

-----------------------------------------------------------------------------
\* The globals, the threads and the clients are in known states.
TypeOK ==
    /\ global \in Threads \cup {Unset}
    /\ shutdownCalled \in BOOLEAN /\ registered \in BOOLEAN /\ asked \in BOOLEAN
    /\ pc \in [Threads -> {"app", "built", "registering", "stopping", "joining", "stopped"}]
    /\ inited \in [Threads -> {"not tried", "ok", "failed"}]
    /\ worker \in [Threads -> {"none", "running", "last", "ended", "panicked", "stuck"}]
    /\ notified \in [Threads -> BOOLEAN]
    /\ pending \in [Threads -> SUBSET Records] /\ batch \in [Threads -> SUBSET Records]
    /\ exported \in [Threads -> SUBSET Records]
    /\ covered \in [Threads -> SUBSET Records]
    /\ process \in {"running", "exiting", "dead"}
    /\ nrecords \in 0 .. MaxRecords
    /\ dropped \subseteq Records /\ owed \subseteq Records

\* What a client has accepted.
Accepted(c) == pending[c] \cup batch[c] \cup exported[c]
Exported == UNION {exported[c] : c \in Threads}

\* Of racing calls of try_init exactly one succeeds, the one whose client all
\* records go to; the maps of the others stay empty.
SingleClient ==
    \A t \in Threads :
        /\ inited[t] = "ok" => global = t
        /\ Accepted(t) # {} => global = t

\* When the shutdown() that found the client returns, the worker has ended or
\* an exporter's panic has ended it (join's error is discarded), and if none has,
\* every record made before the notification has been through all exporters.
FinalFlush ==
    \A t \in Threads : pc[t] = "stopped" /\ covered[t] # {} =>
        \/ worker[global] = "ended" /\ covered[t] \subseteq Exported
        \/ worker[global] = "panicked"

\* How the worker of a client stands, what it owes to shutdown() and who waits for it.
Stage(c) == IF worker[c] \in {"panicked", "stuck"} THEN "failed"
            ELSE IF worker[c] = "ended" THEN "ended" ELSE "running"
OwedBy(c) == IF c = global THEN UNION {covered[t] : t \in Threads} ELSE {}
Waiting(c) == {t \in Threads : c = global /\ pc[t] = "joining"}

\* Every client, also that of a try_init that fails, keeps the promise that the
\* detailed one of FlushWorker keeps.
Promise(c) == INSTANCE ClientPromise WITH
    Calls     <- Records,
    Exporters <- {c},
    Callers   <- Threads,
    accepted  <- Accepted(c),
    handed    <- [e \in {c} |-> exported[c]],
    taken     <- {},
    stage     <- Stage(c),
    owed      <- OwedBy(c),
    asked     <- notified[c],
    inside    <- Waiting(c)
\* ... as a property.
PromiseSpec ==
    /\ \A c \in Threads : Promise(c)!Init
    /\ [][\A c \in Threads : [Promise(c)!Next]_(Promise(c)!vars)]_vars

\* exit exports what was recorded before it, if init had returned and neither the
\* application nor an exporter ever calls shutdown(), and no exporter panics: a pass in
\* progress is finished, then the last one is made.  (README.md: "automatic shutdown
\* via atexit".  A shutdown() that comes before init would use up the flag.)
AutomaticIfNotAsked ==
    ~asked /\ (\A c \in Threads : worker[c] # "panicked") =>
        (process = "dead" => owed \subseteq Exported)

\* A process that exits ends, whoever else is inside shutdown(): another thread,
\* or the worker itself.
ExitEnds == process = "exiting" ~> process = "dead"
=============================================================================
