---------------------------- MODULE ScheduledRuns ----------------------------
(***************************************************************************)
(* What Control promises about the occurrences of a schedule: each one     *)
(* starts at most one run however often its wakeup is produced, delivered  *)
(* or retried, and a produced occurrence is never dropped: it stays        *)
(* pending until its run is started, or it is set aside where an operator  *)
(* finds it.                                                               *)
(***************************************************************************)
EXTENDS Naturals

CONSTANT Occurrences

VARIABLES
    phase,      \* phase[o]: "none", "pending", "abandoned" or "started"
    starts      \* starts[o]: how many runs o has started

occurrenceVars == <<phase, starts>>

Init ==
    /\ phase = [o \in Occurrences |-> "none"]
    /\ starts = [o \in Occurrences |-> 0]

\* Some occurrences move from one phase to the next and the others stay.
Move(from, to) ==
    /\ DOMAIN phase' = Occurrences
    /\ \A o \in Occurrences : phase'[o] = phase[o] \/ (phase[o] = from /\ phase'[o] = to)
    /\ UNCHANGED starts

\* A leader's transaction may produce several occurrences at once.
Produce == Move("none", "pending")

Abandon == Move("pending", "abandoned")

\* A run that is started late still counts for an occurrence that was set aside.
StartRun(o) ==
    /\ phase[o] \in {"pending", "abandoned"}
    /\ phase' = [phase EXCEPT ![o] = "started"]
    /\ starts' = [starts EXCEPT ![o] = 1]

Next == Produce \/ Abandon \/ \E o \in Occurrences : StartRun(o)

Spec == Init /\ [][Next]_occurrenceVars
=============================================================================
