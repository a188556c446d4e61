------------------------------ MODULE MCComponents ------------------------------
(***************************************************************************)
(* Components that share nothing, checked by one run: the initial state    *)
(* chooses the one that runs, the others keep their initial states.        *)
(***************************************************************************)
EXTENDS ControlRuntime, SonicPlanner, ShmChannel, Transport, LogCapture,
        SampleWorkers, OperatorClient, FixedBase

\* Two motions, on both sides of the ready pose; the second one holds.
TwoClips ==
    {[frames |-> <<8, 14, 20>>, hold |-> FALSE],
     [frames |-> <<-9, -18>>, hold |-> TRUE]}

VARIABLE part

vars == <<part, runtimeVars, plannerVars, channelVars, transportVars,
          loggerVars, workerVars, clientVars, baseVars>>

Parts == {"runtime", "planner", "channel", "transport", "logger", "workers",
          "client", "base"}

Init ==
    /\ part \in Parts
    /\ RuntimeInit /\ PlannerInit /\ ChannelInit /\ TransportInit
    /\ LoggerInit /\ WorkersInit /\ ClientInit /\ BaseInit
    /\ part # "workers" => keeps = "latest"
    /\ part # "base" => ~automatic

Next ==
    /\ UNCHANGED part
    /\ IF part = "runtime" THEN RuntimeNext ELSE UNCHANGED runtimeVars
    /\ IF part = "planner" THEN PlannerNext ELSE UNCHANGED plannerVars
    /\ IF part = "channel" THEN ChannelNext ELSE UNCHANGED channelVars
    /\ IF part = "transport" THEN TransportNext ELSE UNCHANGED transportVars
    /\ IF part = "logger" THEN LoggerNext ELSE UNCHANGED loggerVars
    /\ IF part = "workers" THEN WorkersNext ELSE UNCHANGED workerVars
    /\ IF part = "client" THEN ClientNext ELSE UNCHANGED clientVars
    /\ IF part = "base" THEN BaseNext ELSE UNCHANGED baseVars

Spec ==
    /\ Init /\ [][Next]_vars
    /\ WF_runtimeVars(part = "runtime" /\ (Judge \/ Step \/ Clock))
    /\ WF_workerVars(part = "workers" /\ WorkerSteps)
    /\ WF_loggerVars(part = "logger" /\ WriterStep)
    /\ WF_loggerVars(part = "logger" /\ \E s \in SpareSlots : FillSlot(s))
    /\ SF_loggerVars(part = "logger" /\ \E r \in Results \ {"contended"} : Retry(r))
=============================================================================
