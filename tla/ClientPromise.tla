---------------------------- MODULE ClientPromise ----------------------------
(***************************************************************************)
(* What a metrics client promises to an application (MetricsClient of      *)
(* src/src/client.rs), with neither map, worker, channel, mutex nor flags: *)
(* what it accepts it may hand to its exporters at any time, or give to a  *)
(* flush() of the application, but not both; its worker ends in order only *)
(* when it was asked to, and when all that it had accepted by then has     *)
(* left; and shutdown() returns only when the worker has ended or failed.  *)
(***************************************************************************)
CONSTANTS Calls,      \* the record calls
          Exporters,  \* those of the client
          Callers     \* the threads that call shutdown()

VARIABLES accepted,  \* the calls that were not dropped
          handed,    \* exporter -> the calls it has been handed
          taken,     \* the calls that a flush() of the application has taken
          stage,     \* the worker is "running", has "ended" in order or "failed"
          owed,      \* what had been accepted when shutdown() was first called
          asked,     \* it has been called
          inside     \* the threads that wait in shutdown()

vars == <<accepted, handed, taken, stage, owed, asked, inside>>

Init ==
    /\ accepted = {} /\ taken = {} /\ owed = {} /\ inside = {}
    /\ handed = [e \in Exporters |-> {}]
    /\ stage = "running" /\ asked = FALSE

Accept(c) ==
    /\ c \in Calls \ accepted
    /\ accepted' = accepted \cup {c}
    /\ UNCHANGED <<handed, taken, stage, owed, asked, inside>>

\* The worker hands out what nobody else has; it may fail at any time, and end
\* when it has handed out what it owes.
Work ==
    /\ stage = "running"
    /\ handed' \in [Exporters -> SUBSET (accepted \ taken)]
    /\ \A e \in Exporters : handed[e] \subseteq handed'[e]
    /\ stage' \in {"running", "ended", "failed"}
    /\ stage' = "ended" => asked /\ \A e \in Exporters : owed \subseteq handed'[e] \cup taken
    /\ UNCHANGED <<accepted, taken, owed, asked, inside>>

\* flush() of the application takes what no exporter has.
Take(S) ==
    /\ S \subseteq accepted
    /\ \A e \in Exporters : S \cap handed[e] = {}
    /\ taken' = taken \cup S
    /\ UNCHANGED <<accepted, handed, stage, owed, asked, inside>>

\* The first call fixes what is owed.
Ask(t) ==
    /\ t \notin inside
    /\ inside' = inside \cup {t}
    /\ asked' = TRUE
    /\ owed' = IF asked THEN owed ELSE accepted
    /\ UNCHANGED <<accepted, handed, taken, stage>>

Leave(t) ==
    /\ t \in inside /\ stage # "running"
    /\ inside' = inside \ {t}
    /\ UNCHANGED <<accepted, handed, taken, stage, owed, asked>>

Next ==
    \/ \E c \in Calls : Accept(c)
    \/ Work
    \/ \E S \in SUBSET accepted : Take(S)
    \/ \E t \in Callers : Ask(t) \/ Leave(t)

Spec == Init /\ [][Next]_vars
=============================================================================
