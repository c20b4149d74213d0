----------------------------- MODULE WorkUnits -----------------------------
(***************************************************************************)
(* The work-unit lifecycle the kernel promises to workers                  *)
(* (docs/Concurrency.md "Work-unit lifecycle", kernel/SPEC.md "Leased      *)
(* claims"), with no assembly, no inputs, no clock and no worker:          *)
(*                                                                         *)
(*   READY --> CLAIMED --> DONE        a unit is in flight under a numbered *)
(*     ^----------'                    attempt, and finished for good.      *)
(*                                                                         *)
(* One step may settle several units, because every kernel call first      *)
(* reaps the leases that have run out.                                     *)
(***************************************************************************)
EXTENDS Integers, Sequences

CONSTANT Budget          \* attempts a unit has (Limits.max_attempts)

VARIABLES
    phase,       \* "idle", "open", "closed" or "cancelled"
    flight,      \* units in flight -> attempt number
    finished,    \* units that are DONE
    tried,       \* units ever handed out -> number of hand-outs
    log          \* committed units, in commit order

wvars == <<phase, flight, finished, tried, log>>

Tried(u) == IF u \in DOMAIN tried THEN tried[u] ELSE 0

Init ==
    /\ phase = "idle" /\ flight = << >> /\ finished = {} /\ tried = << >> /\ log = << >>

Start ==
    /\ phase = "idle" /\ phase' = "open"
    /\ UNCHANGED <<flight, finished, tried, log>>

\* Units gone leave the flight, fin of them for good: at least those whose
\* last attempt this was.
Settles(gone, fin) ==
    /\ gone \subseteq DOMAIN flight
    /\ fin \subseteq gone
    /\ \A u \in gone : flight[u] >= Budget => u \in fin

\* Leases lapse, workers fail units; the run may close.
Settle(gone, fin) ==
    /\ phase = "open"
    /\ Settles(gone, fin)
    /\ flight' = [u \in DOMAIN flight \ gone |-> flight[u]]
    /\ finished' = finished \cup fin
    /\ phase' \in {"open", "closed"}
    /\ UNCHANGED <<tried, log>>

\* A unit in flight is committed: it is finished, and logged.
CommitUnit(gone, fin, u) ==
    /\ phase = "open"
    /\ Settles(gone, fin)
    /\ u \in fin
    /\ flight' = [v \in DOMAIN flight \ gone |-> flight[v]]
    /\ finished' = finished \cup fin
    /\ log' = Append(log, u)
    /\ phase' \in {"open", "closed"}
    /\ UNCHANGED tried

\* Units neither in flight nor finished are handed out under their next attempt.
HandOut(gone, fin, take) ==
    /\ phase = "open"
    /\ Settles(gone, fin)
    /\ take \cap (finished \cup fin \cup (DOMAIN flight \ gone)) = {}
    /\ flight' = [u \in (DOMAIN flight \ gone) \cup take |->
                    IF u \in take THEN Tried(u) + 1 ELSE flight[u]]
    /\ tried' = [u \in DOMAIN tried \cup take |->
                    IF u \in take THEN Tried(u) + 1 ELSE tried[u]]
    /\ finished' = finished \cup fin
    /\ phase' \in {"open", "closed"}
    /\ UNCHANGED log

\* Cancellation empties the flight and finishes nothing.
Cancel ==
    /\ phase = "open" /\ phase' = "cancelled"
    /\ flight' = << >>
    /\ UNCHANGED <<finished, tried, log>>

Next ==
    \/ Start
    \/ \E gone \in SUBSET DOMAIN flight : \E fin \in SUBSET gone :
        \/ Settle(gone, fin)
        \/ \E u \in fin : CommitUnit(gone, fin, u)
        \/ \E take \in SUBSET DOMAIN flight' : HandOut(gone, fin, take)
    \/ Cancel

Spec == Init /\ [][Next]_wvars
-----------------------------------------------------------------------------
\* In flight and finished exclude each other.
Apart == DOMAIN flight \cap finished = {}

\* A unit is committed at most once, and a committed unit is finished.
LoggedOnce ==
    /\ \A j, k \in DOMAIN log : log[j] = log[k] => j = k
    /\ \A j \in DOMAIN log : log[j] \in finished

\* No unit is handed out more often than its budget allows, and one that used up its
\* budget is in flight or finished (unless the run was cancelled).
WithinBudget ==
    /\ DOMAIN flight \subseteq DOMAIN tried
    /\ \A u \in DOMAIN flight : flight[u] = tried[u]
    /\ \A u \in DOMAIN tried : tried[u] \in 1..Budget
    /\ phase # "cancelled" =>
         \A u \in DOMAIN tried : tried[u] = Budget => u \in DOMAIN flight \cup finished
=============================================================================
