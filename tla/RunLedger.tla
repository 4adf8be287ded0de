----------------------------- MODULE RunLedger -----------------------------
(***************************************************************************)
(* What a run promises to whoever reads the results database, with no      *)
(* thread, future or exception in sight: one row in `runs`, a ledger of    *)
(* recorded calls that only grows, at most one success per cell, and a     *)
(* run that is closed as complete only when it covers what it planned or   *)
(* says that it does not.  ArenaRunner implements this module.             *)
(***************************************************************************)
EXTENDS Naturals, Sequences

CONSTANTS
    Cell,       \* what a sweep is made of: model x test x trial
    Price       \* what one call may be recorded to have cost

VARIABLES
    state,      \* runs.status, "absent" before the row exists
    partial,    \* does the stored leaderboard say it is partial?
    plan,       \* the cells the open attempt set out to measure
    ledger,     \* the rows of `results`, in id order
    open        \* is some process working on the run?

lvars == <<state, partial, plan, ledger, open>>

Row == [cell : Cell, status : {"ok", "error"}, cost : Price]

Measured(c) == \E i \in DOMAIN ledger : ledger[i].cell = c
Succeeded(c) == \E i \in DOMAIN ledger :
                   ledger[i].cell = c /\ ledger[i].status = "ok"

LInit ==
    /\ state = "absent"
    /\ partial = FALSE
    /\ plan = {}
    /\ ledger = <<>>
    /\ open = FALSE

\* An attempt begins: a new run, or the resumption of an old one, whatever
\* state that was left in.
Open ==
    /\ ~open
    /\ open' = TRUE
    /\ plan' \in SUBSET Cell
    /\ state' = IF state = "absent" THEN "running" ELSE state
    /\ UNCHANGED <<partial, ledger>>

\* A call is written down, unless its cell has succeeded before.
Record ==
    /\ open
    /\ \E row \in Row : ~Succeeded(row.cell) /\ ledger' = Append(ledger, row)
    /\ UNCHANGED <<state, partial, plan, open>>

\* The attempt is closed as complete: it covers its plan, or says it is partial.
Complete ==
    /\ open
    /\ open' = FALSE
    /\ plan' = {}
    /\ state' = "completed"
    /\ partial' \in BOOLEAN
    /\ ~partial' => \A c \in plan : Measured(c)
    /\ UNCHANGED ledger

Abort ==
    /\ open
    /\ open' = FALSE
    /\ plan' = {}
    /\ state' = "aborted"
    /\ partial' = FALSE
    /\ UNCHANGED ledger

\* The attempt ends without closing the run: a crash, or an error in closing.
Abandon ==
    /\ open
    /\ open' = FALSE
    /\ plan' = {}
    /\ UNCHANGED <<state, partial, ledger>>

LNext == Open \/ Record \/ Complete \/ Abort \/ Abandon

LSpec == LInit /\ [][LNext]_lvars
=============================================================================
