--------------------------- MODULE PollLifecycle ---------------------------
(***************************************************************************)
(* What a poll promises to those who look at it from outside: it is        *)
(* prepared, opened, and ended; an ended poll has an outcome at most once, *)
(* and an outcome is never replaced, only hidden and shown until the poll  *)
(* is deleted with it.                                                     *)
(*                                                                         *)
(* Modules MeetingWorkflow and PollVoting look at a poll from two sides,   *)
(* the meeting around it and the votes inside it.  Both implement this     *)
(* module.                                                                 *)
(***************************************************************************)
CONSTANT Undecided   \* the outcome of a poll that was not counted

VARIABLES
    state,     \* the state of the poll, "absent" when there is none
    outcome    \* what was counted

lifeVars == <<state, outcome>>

Prepared == {"private", "upcoming"}
Decided == {"finished", "withheld"}

LifeInit ==
    /\ state \in {"absent", "private"}
    /\ outcome = Undecided

Prepare ==
    /\ state \in Prepared \cup {"absent"}
    /\ state' \in Prepared
    /\ UNCHANGED outcome

Open ==
    /\ state \in Prepared \cup {"absent"}
    /\ state' = "ongoing"
    /\ UNCHANGED outcome

Interrupt ==
    /\ state = "ongoing"
    /\ state' = "canceled"
    /\ UNCHANGED outcome

\* The close event may be sent again to a poll that was canceled or failed.
End ==
    /\ state \in {"ongoing", "canceled", "failed"}
    /\ \/ state' \in Decided
       \/ state' \in {"no_result", "failed"} /\ UNCHANGED outcome

HideOrShow ==
    /\ state \in Decided
    /\ state' \in Decided
    /\ UNCHANGED outcome

Remove ==
    /\ state' = "absent"
    /\ outcome' = Undecided

LifeNext == Prepare \/ Open \/ Interrupt \/ End \/ HideOrShow \/ Remove

LifeSpec == LifeInit /\ [][LifeNext]_lifeVars
=============================================================================
