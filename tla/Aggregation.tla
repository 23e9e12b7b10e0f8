----------------------------- MODULE Aggregation -----------------------------
(***************************************************************************)
(* What the aggregation map promises about counts and observations (not    *)
(* gauges), with neither hashes, slots nor stripes: a record call that was *)
(* not refused is pending until exactly one flush takes it, flushes may    *)
(* run together, and a flush returns only when nothing that had been       *)
(* accepted before it began is still pending.                              *)
(***************************************************************************)
CONSTANTS Calls,    \* the record calls
          Flushers  \* the threads that flush

VARIABLES accepted,   \* the calls that were not dropped
          pending,    \* accepted, and taken by no flush yet
          running,    \* the flushers inside a flush
          due,        \* flusher -> what its flush has to cover
          held,       \* flusher -> what its running flush has taken
          delivered   \* what flushes have returned

vars == <<accepted, pending, running, due, held, delivered>>

\* Only accepted calls are pending, held, due or delivered.
TypeOK ==
    /\ accepted \subseteq Calls
    /\ pending \subseteq accepted
    /\ running \subseteq Flushers
    /\ due \in [Flushers -> SUBSET accepted]
    /\ held \in [Flushers -> SUBSET accepted]
    /\ delivered \subseteq accepted

Init ==
    /\ accepted = {} /\ pending = {} /\ running = {} /\ delivered = {}
    /\ due = [f \in Flushers |-> {}]
    /\ held = [f \in Flushers |-> {}]

Accept(c) ==
    /\ c \in Calls \ accepted
    /\ accepted' = accepted \cup {c}
    /\ pending' = pending \cup {c}
    /\ UNCHANGED <<running, due, held, delivered>>

Begin(f) ==
    /\ f \notin running
    /\ running' = running \cup {f}
    /\ due' = [due EXCEPT ![f] = accepted]
    /\ UNCHANGED <<accepted, pending, held, delivered>>

Take(f, S) ==
    /\ f \in running
    /\ S \subseteq pending
    /\ pending' = pending \ S
    /\ held' = [held EXCEPT ![f] = @ \cup S]
    /\ UNCHANGED <<accepted, running, due, delivered>>

Return(f) ==
    /\ f \in running
    /\ due[f] \cap pending = {}
    /\ running' = running \ {f}
    /\ due' = [due EXCEPT ![f] = {}]
    /\ held' = [held EXCEPT ![f] = {}]
    /\ delivered' = delivered \cup held[f]
    /\ UNCHANGED <<accepted, pending>>

Next ==
    \/ \E c \in Calls : Accept(c)
    \/ \E f \in Flushers : Begin(f) \/ Return(f) \/ \E S \in SUBSET pending : Take(f, S)

Spec == Init /\ [][Next]_vars

-----------------------------------------------------------------------------
\* No accepted call is ever in two places, and none is nowhere.
Partition ==
    /\ accepted = pending \cup delivered \cup UNION {held[f] : f \in Flushers}
    /\ pending \cap delivered = {}
    /\ \A f \in Flushers :
          /\ held[f] \cap (pending \cup delivered) = {}
          /\ \A g \in Flushers \ {f} : held[f] \cap held[g] = {}
          /\ f \notin running => held[f] = {}
=============================================================================
