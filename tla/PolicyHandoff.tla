----------------------------- MODULE PolicyHandoff -----------------------------
(***************************************************************************)
(* What a policy promises to the thread that replaces it (policy_adapter.h)*)
(* while RL runs: a handoff that is asked for is answered once the policy  *)
(* rests, the answer is not taken back while the command stays zero, and a *)
(* numbered request begins a motion at most once and never while a handoff *)
(* is asked for.                                                           *)
(***************************************************************************)
EXTENDS Naturals

VARIABLES
    wanted,    \* a handoff is asked for
    still,     \* the last command was zero
    promised,  \* the policy said that it rests, and may be replaced
    begun      \* number of the request that began the last motion

handoffVars == <<wanted, still, promised, begun>>

HandoffInit == wanted = FALSE /\ still = TRUE /\ promised = FALSE /\ begun = 0

Ask == ~wanted /\ wanted' /\ UNCHANGED <<still, promised, begun>>

TakeBack == wanted /\ ~wanted' /\ ~promised' /\ UNCHANGED <<still, begun>>

\* RL is left and entered again.
Restart == ~wanted' /\ still' /\ ~promised' /\ begun' = 0

\* One inference.
Infer ==
    /\ UNCHANGED wanted
    /\ promised' => wanted /\ still'
    /\ promised /\ still' => promised'
    /\ begun' = begun \/ (begun' > begun /\ ~wanted)

HandoffNext == Ask \/ TakeBack \/ Restart \/ Infer

\* The promise without its deadline.
HandoffSafety == HandoffInit /\ [][HandoffNext]_handoffVars

HandoffSpec ==
    /\ HandoffSafety
    /\ (wanted /\ still) ~> (promised \/ ~wanted \/ ~still)
=============================================================================
