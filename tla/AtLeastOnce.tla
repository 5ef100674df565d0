---------------------------- MODULE AtLeastOnce ----------------------------
(***************************************************************************)
(* What the runtime promises of a trigger of the account: a run answers    *)
(* it, possibly more than once after a crash; it is acknowledged only once *)
(* it has been answered; once acknowledged it is never answered again.     *)
(***************************************************************************)
EXTENDS Naturals

CONSTANT Trigger

VARIABLES
    raised,       \* triggers of the account
    answers,      \* completed runs, by trigger
    acknowledged

vars == <<raised, answers, acknowledged>>

Raise(t) ==
    /\ t \notin raised
    /\ raised' = raised \cup {t}
    /\ UNCHANGED <<answers, acknowledged>>

Answer(t) ==
    /\ t \in raised \ acknowledged
    /\ answers' = [answers EXCEPT ![t] = @ + 1]
    /\ UNCHANGED <<raised, acknowledged>>

Acknowledge(t) ==
    /\ answers[t] > 0
    /\ acknowledged' = acknowledged \cup {t}
    /\ UNCHANGED <<raised, answers>>

Init ==
    /\ raised = {}
    /\ answers = [t \in Trigger |-> 0]
    /\ acknowledged = {}

Next == \E t \in Trigger : Raise(t) \/ Answer(t) \/ Acknowledge(t)

Spec == Init /\ [][Next]_vars
=============================================================================
