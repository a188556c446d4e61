---------------------------- MODULE SonicPlanner ----------------------------
(***************************************************************************)
(* The asynchronous reference planner of the SONIC adapter                 *)
(* (sonic_planner.cpp): the inference thread of the tracker updates the    *)
(* command and asks whether the robot is at rest, a worker of its own plans*)
(* a trajectory for the command it last saw.                               *)
(*                                                                         *)
(* A generation is compared only with the request: requested stands for    *)
(* request_generation_ # handled_generation, upToDate for                  *)
(* published_generation_ = request_generation_. Every update happens under *)
(* the mutex, which the worker holds from its test to its wait, so that the*)
(* notification that follows the unlock is part of the same step.          *)
(*                                                                         *)
(* Abstracted: robot state, frames and model inputs; a command is its      *)
(* speed; idle_ready_at_s_ is the number of updates still to come before   *)
(* it, planEnd. A mode fixed by the configuration is left out.             *)
(***************************************************************************)
EXTENDS Integers

CONSTANTS
    Speeds,    \* speeds an operator may ask for, 0 among them
    Epsilon,   \* command_epsilon
    PlanTail   \* most updates between publishing a plan and its last frame

ASSUME PlannerAssumption ==
    /\ Speeds \subseteq Nat /\ 0 \in Speeds
    /\ Epsilon \in Nat /\ PlanTail \in Nat

VARIABLES
    leaving,        \* planner_switch_requested_ of the adapter
    speed,          \* latest_command_
    requested,      \* a command is waiting for the worker
    upToDate,       \* the last plan answers the last request
    idle,           \* idle_
    planEnd,        \* updates until idle_ready_at_s_
    running,        \* running_
    plannerError,   \* error_ is set
    worker,         \* where the worker is: see Places
    snapshot,       \* the command it plans for
    replanDue,      \* next_periodic has passed
    joining,        \* Reset waits for the worker of the previous entry
    planned         \* history: the command of the published plan

plannerVars == <<leaving, speed, requested, upToDate, idle, planEnd, running,
                 plannerError, worker, snapshot, replanDue, joining, planned>>

\* wait: without a time limit; doze: until next_periodic.
Places == {"none", "load", "test", "wait", "doze", "infer", "blend"}

PlannerTypeOK ==
    /\ {speed, snapshot, planned} \subseteq Speeds
    /\ <<leaving, requested, upToDate, idle>>
            \in BOOLEAN \X BOOLEAN \X BOOLEAN \X BOOLEAN
    /\ <<running, plannerError, replanDue, joining>>
            \in BOOLEAN \X BOOLEAN \X BOOLEAN \X BOOLEAN
    /\ planEnd \in 0..PlanTail
    /\ worker \in Places

PlannerInit ==
    /\ leaving = FALSE /\ speed = 0 /\ requested = FALSE /\ upToDate = FALSE
    /\ idle = FALSE /\ planEnd = 0 /\ running = FALSE /\ plannerError = FALSE
    /\ worker = "none" /\ snapshot = 0 /\ replanDue = FALSE
    /\ joining = FALSE /\ planned = 0

\* SelectMode with the mode left to the planner (mode: -1): standing or, as
\* gaits differ only in style, walking.
SelectMode(command) == IF command <= Epsilon THEN 0 ELSE 1

StaticModes == {0, 4, 5, 6, 7, 9}

NeedsPeriodicReplan(command) ==
    SelectMode(command) \notin StaticModes /\ command > Epsilon

Apart(a, b) == a - b > Epsilon \/ b - a > Epsilon

\* Compared with the previous command, not with the planned one.
CommandChanged(command) == Apart(speed, command)

\* Idle() of the planner.
AtRest == idle /\ upToDate /\ planEnd = 0

Notified == IF worker \in {"wait", "doze"} THEN "test" ELSE worker

-----------------------------------------------------------------------------
\* Reset: the old worker is told to stop and joined, then a new one starts.
AskReset ==
    /\ ~joining
    /\ joining' = TRUE /\ running' = FALSE /\ worker' = Notified
    /\ UNCHANGED <<leaving, speed, requested, upToDate, idle, planEnd,
                   plannerError, snapshot, replanDue, planned>>

ResetPlanner ==
    /\ joining /\ worker = "none"
    /\ joining' = FALSE /\ leaving' = FALSE
    /\ speed' = 0 /\ planned' = 0 /\ snapshot' = 0
    /\ requested' = TRUE /\ upToDate' = FALSE
    /\ idle' = FALSE /\ planEnd' = 0 /\ plannerError' = FALSE
    /\ running' = TRUE /\ worker' = "load" /\ replanDue' = FALSE

\* RequestStop by the thread that stops the inference.
RequestStop ==
    /\ running /\ ~joining
    /\ running' = FALSE /\ worker' = Notified
    /\ UNCHANGED <<leaving, speed, requested, upToDate, idle, planEnd,
                   plannerError, snapshot, replanDue, joining, planned>>

\* Update, once per inference: the velocity of the operator, or none while a
\* handoff is wanted.
Update(command) ==
    /\ ~joining
    /\ leaving => command = 0
    /\ speed' = command
    /\ requested' = (requested \/ CommandChanged(command))
    /\ upToDate' = (upToDate /\ ~CommandChanged(command))
    /\ planEnd' = IF planEnd > 0 THEN planEnd - 1 ELSE 0
    /\ worker' = IF CommandChanged(command) THEN Notified ELSE worker
    /\ UNCHANGED <<leaving, idle, running, plannerError, snapshot, replanDue,
                   joining, planned>>

\* PreparePolicySwitch of the adapter.
WantToLeave(wanted) ==
    /\ ~joining
    /\ leaving # wanted
    /\ leaving' = wanted
    /\ UNCHANGED <<speed, requested, upToDate, idle, planEnd, running,
                   plannerError, worker, snapshot, replanDue, joining, planned>>

-----------------------------------------------------------------------------
\* PlannerLoop: the model is loaded, or cannot be.
Load ==
    /\ worker = "load"
    /\ worker' = "test" /\ replanDue' = TRUE
    /\ UNCHANGED <<leaving, speed, requested, upToDate, idle, planEnd, running,
                   plannerError, snapshot, joining, planned>>

LoadFails ==
    /\ worker = "load"
    /\ worker' = "none" /\ running' = FALSE /\ plannerError' = TRUE
    /\ UNCHANGED <<leaving, speed, requested, upToDate, idle, planEnd,
                   snapshot, replanDue, joining, planned>>

\* The test under the mutex: leave, take a snapshot, or wait.
NextPlace ==
    IF ~running THEN "none"
    ELSE IF requested \/ (NeedsPeriodicReplan(speed) /\ replanDue) THEN "infer"
    ELSE IF NeedsPeriodicReplan(speed) THEN "doze"
    ELSE "wait"

TestRequests ==
    /\ worker = "test"
    /\ worker' = NextPlace
    /\ snapshot' = IF worker' = "infer" THEN speed ELSE snapshot
    /\ requested' = (requested /\ worker' # "infer")
    /\ UNCHANGED <<leaving, speed, upToDate, idle, planEnd, running,
                   plannerError, replanDue, joining, planned>>

\* The wait with a limit ends; a wait may also end for no reason.
WakeUp ==
    /\ worker = "wait" \/ (worker = "doze" /\ replanDue)
    /\ worker' = "test"
    /\ UNCHANGED <<leaving, speed, requested, upToDate, idle, planEnd, running,
                   plannerError, snapshot, replanDue, joining, planned>>

ReplanClock ==
    /\ ~replanDue
    /\ replanDue' = TRUE
    /\ UNCHANGED <<leaving, speed, requested, upToDate, idle, planEnd, running,
                   plannerError, worker, snapshot, joining, planned>>

\* Generate, and the first look at running_ after it.
Generate ==
    /\ worker = "infer"
    /\ worker' = IF running THEN "blend" ELSE "none"
    /\ UNCHANGED <<leaving, speed, requested, upToDate, idle, planEnd, running,
                   plannerError, snapshot, replanDue, joining, planned>>

GenerateFails ==
    /\ worker = "infer"
    /\ worker' = "none" /\ running' = FALSE
    /\ plannerError' = (plannerError \/ running)
    /\ UNCHANGED <<leaving, speed, requested, upToDate, idle, planEnd,
                   snapshot, replanDue, joining, planned>>

\* The generation that a published plan answers is the one of its snapshot.
VariantAnswersNewest == TRUE

AnswersRequest == ~requested

\* The plan is blended outside of the lock and published, with the last frame
\* some updates ahead; the replan period counts from the snapshot.
PublishPlan(tail, due) ==
    /\ worker = "blend"
    /\ IF running
       THEN /\ worker' = "test"
            /\ idle' = (SelectMode(snapshot) = 0)
            /\ planEnd' = tail
            /\ upToDate' = AnswersRequest
            /\ planned' = snapshot
            /\ replanDue' = due
       ELSE /\ worker' = "none"
            /\ UNCHANGED <<idle, planEnd, upToDate, planned, replanDue>>
    /\ UNCHANGED <<leaving, speed, requested, running, plannerError, snapshot,
                   joining>>

PlannerNext ==
    \/ AskReset \/ ResetPlanner \/ RequestStop
    \/ \E command \in Speeds : Update(command)
    \/ \E wanted \in BOOLEAN : WantToLeave(wanted)
    \/ Load \/ LoadFails \/ TestRequests \/ WakeUp \/ ReplanClock
    \/ Generate \/ GenerateFails
    \/ \E tail \in 0..PlanTail, due \in BOOLEAN : PublishPlan(tail, due)

PlannerSpec == PlannerInit /\ [][PlannerNext]_plannerVars

-----------------------------------------------------------------------------
(* Properties                                                              *)

\* sonic_planner.h: "Last published plan is stationary and no new command is
\* pending." A robot reported at rest follows a plan for standing, and nothing
\* was asked for since the command from which that plan was made, however long
\* the planner took.
RestIsStanding == AtRest => planned <= Epsilon /\ ~requested
=============================================================================
