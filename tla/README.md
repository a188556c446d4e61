# Verification of humanoid_common

TLA+ specifications of the control software of a humanoid robot, the TLC
configurations that check them, and TLAPS proofs about them. Paths are relative
to the root of the repository; a name without a path is in the module or file
just mentioned.

The subjects: `behavior_manager`, which decides whether, and by which policy, the
motors are driven; the RL state with its inference thread and the policy adapters
that run on it; the control process and its watchdogs; the driver's hardware back
end; the operator service and its client library; and, below all of them, the
transport and the logger. Section 8 lists what is left out.

    tlc -config Faults.cfg MCBehaviorManager      # any run: see "The runs"
    tlapm BehaviorManager_proofs.tla              # any *_proofs module

## 1. Inventory of the system

Three processes exchange fixed-size packets over shared memory or UDP:

    hardware <- driver_runtime <-> control_runtime <-> hmi_runtime <- clients

| component | state it keeps | operations | what makes it correct |
|---|---|---|---|
| behavior_manager | fault latch, requested / active / prepared policy, handoff, chain, action catalogue | `SetSensorFault`, `SetCommand`, `AcknowledgeFault`, `Step` | a latched fault disarms; the latch opens only for its own sequence; the policy is settled before HOME; a handoff ends |
| behavior_fsm and states | current state, `finished_`, ramp timers, output | `Step`, `ForceSwitch`, `ReplaceState*` | drive only in healthy states or a bounded release; SAFETY leads to POWER_OFF only |
| state_rl | snapshot and action exchanged with the inference thread, fault, handoff flags | `OnEnter`, `Run`, `OnExit`, `InferStep` | the lease of an action expires; a late result is not applied; no flag of an earlier request answers a later one |
| policy_adapter | histories, reference clocks, action phases; the planner's request and plan | `Reset`, `PrepareInputs`, `OnAction`, `HandleInteractionRequest`, `PreparePolicySwitch` | a policy that says it may be replaced is at rest; nothing of an earlier entry reaches the model |
| trajectory Player | active clip, phase, last sequence | `Request`, `Apply` | no target jumps, whatever is asked for in whatever phase |
| control_runtime | newest state and command, watchdogs, start-up gate | one loop | silence of the driver or of the HMI is noticed and becomes a fault or a neutral command |
| driver_runtime, whole_body_backend | current fault, recovery flags | one loop | after a hardware failure nothing is enabled before control was in POWER_OFF |
| operator_service | sessions, owner, lease, one request | `Handle`, `Tick`, `UpdateStatus` | nothing is commanded in the name of nobody; an expired owner leaves no input behind |
| client SDK | waiting request, queue of writes | `Call`, the I/O thread | a confirmed call has been carried out |
| transport | ring of slots; packets | `Write`, `Read`; `Send*`, `Receive*` | whole and current packets; what one end accepts the other delivers |
| logging | queue, spare slots, capture | `Trigger`, `Enqueue`, the writer | the control thread never waits and no trigger is lost; "complete" means on the disk |
| sample workers | bounded queue, newest sample | `Publish`, `Stop` | every sample is consumed or counted as dropped |
| robot_base, audio, diagnostics, clients | configuration, output | | not about control |

Interaction. `control_runtime` drains the state channel and the command channel,
then once per period calls `SetSensorFault`, `SetCommand`, `AcknowledgeFault` and
`Step` of the manager on one thread and sends the output to the driver. Requests
of the operator (`switch_policy`, `interaction`, `acknowledge_fault_sequence`) are
repeated in every packet until the service clears them; the manager acts on the
change of their sequence. The manager shares its fault with `StateSafety` by
pointer, and its states with a loading thread, a destroying thread and the
inference thread of `StateRL`; the Sonic adapter has a planner thread of its own.

What is hard. `Step` reads the fault of a state twice and the state itself five
times while other threads run; a load that takes seconds overlaps with keys,
faults, new requests and handoffs; four kinds of request share one pending policy;
control only ever *tries* the locks of the inference thread; acknowledgements and
leases cross processes and may be late; files, power, links and processes fail
between two steps. `PROJECT.json` lists each hazard at its line, with the
properties that are about it.

## 2. Modules

| module | code | composed with |
|---|---|---|
| `BehaviorManager` | `behavior_manager.cpp`, `behavior_fsm.cpp`, `states/` | implements `FaultInterlock`; instances in `MCBehaviorManager` |
| `FixedBase` | the fixed-base profile of the manager, `state_trajectory.cpp`, `joint_trajectory.cpp` | `MCComponents` |
| `RlPipeline` | `states/state_rl.cpp`, thread by thread | |
| `ReferenceAdapter`, `SonicAdapter`, `TrajectoryAdapter`, `StanceAdapter`, `HistoryAdapter` | `policy_adapter/*.cpp` | operators, used by `PolicyAdapters` |
| `PolicyAdapters` | `LoadConfig` and `Create` of `policy_adapter.cpp`, `StateRL::InferStep` | implements `PolicyHandoff` |
| `SonicPlanner` | `policy_adapter/sonic_planner.cpp` | `MCComponents` |
| `ControlRuntime` | `runtime/control/control_runtime.cpp`, `runtime_timing.h` | `MCComponents` |
| `WholeBodyBackend` | `runtime/driver/backends/whole_body_backend.cpp` | `FaultPath` |
| `FaultPath` | the driver and control, joined by two channels | implements `FaultInterlock` |
| `Operator` | `operator_service/service/`, the HMI side of `control_runtime.cpp`, `SetCommand` | the service, its clients, the link and control |
| `OperatorClient` | `operator_service/client_sdk/client.cpp` | `MCComponents` |
| `ShmChannel` | `transport/shm/shm_transport.cpp` | `MCComponents` |
| `Transport` | `transport/transport_executor/`, `transport/udp/` | `MCComponents` |
| `LogCapture` | `logging/runtime_logger.cpp` | `MCComponents` |
| `SampleWorkers` | `logging/snapshot_worker.h`, `runtime/common/latest_sample_worker.h` | `MCComponents` |

Two abstract specifications. `FaultInterlock`: a robot is `off`, `on` or `releasing`,
its fault latched or not; what is latched disarms and waits for its confirmation.
`PolicyHandoff`: what a policy promises to the thread that replaces it: it comes to
rest when asked, does not take that back while the command stays zero, and begins a
motion at most once per request and never while a handoff is asked for.

Operators called `Variant...` are plausible mistakes in the operator that follows
them. Putting one in the place of its operator makes a run fail; none is used by a
specification.

### BehaviorManager

* `pc` walks through the blocks of one control cycle: `ReceiveCommand/Start/Cancel`
  (`SetCommand` and `HandlePolicyAction`), `SelectPolicy` (the rest of
  `SetCommand`), `AcknowledgeFault` (`SetSensorFault`, `AcknowledgeFault`), then
  `Step`: `ObserveFaults`, `CancelHandoff | KeepHandoff`, `PollPolicyPreparation`,
  `ForceSafety | BlockPowerOn`, `PreparePolicy`, `StayInState | ChangeState`
  (`CheckTransition`), `RunState`, `ReviewStateFault`, `ScheduleChain`.
  A block is one action because within it the code reads nothing that another
  thread writes, or reads it once.
* Between any two blocks the other threads act: `InferFault` (`ReportFault` on the
  inference thread), `PrepareDone` (`PreparePolicyStates` returns or throws),
  `RetireDone` (a replaced state is destroyed).
* Only the locomotion profile: `has_rl`, not `fixed_base`. The loader refuses both.
* A fault is `[active, latched, code, seq]`; `code` stands for source, code and
  native code, which are always compared together. All policy faults have one
  code: they come without a sequence and are not told apart by anything modelled.
* Time is a count of Steps. `timer` is the settled time of ZERO or the time in
  SAFETY; `switchAge` stops one Step past its limit and is zero without a handoff.
* HOME's ramp and the convergence of ZERO's joints are choices; the settling
  counter is not. Whether the running policy is ready to hand over and whether its
  motion has ended are choices here, and the subject of the next two modules.
* Requests are edges: what the code recognises as new. `key`, `sensorFault` and
  `observations` are forgotten after the last block that reads them.
* `fault_` and `safety_triggered_` of `StateRL` are set together and are one
  variable. A failed `PrepareRuntime` at the entry of RL is a fault of that entry.
* `RL.OnExit` joins the inference thread within one action; `RlPipeline` opens it.
* The key `START_REFERENCE` does not move the FSM and is left out.

### RlPipeline, PolicyAdapters and the adapters

`RlPipeline` has a program counter per thread. `cpc` of control: `request` and
`exchange`, `clear` (the three accesses of `RequestPolicySwitch`), `run` (the safety
check and the release of a sample, with `try_lock`), `apply` (the newest action,
with `try_lock`), `check` (`CheckTransition`), `join` (`StopInference`), and `retired`,
`retireJoin` for a replaced state. `ipc` of the inference thread: `wait`, `check`,
`blocked` (evaluation of the predicate and the wait are two steps, as in the code),
`snap`, `prepare`, `infer`, `deadline`, `ready`, `store` (the switch flags), `publish`,
`unlock`. Ages are ticks that saturate above every limit. No tick passes between two
steps of one control cycle (a real-time thread); the inference thread may be
descheduled anywhere. A limit of 0 disables a watchdog (`Exceeds`), as in the code; with
`discard_late` the loader refuses that, and `WatchdogBites` is about limits that are set.
`readyBy` is a history of what the last `switch_ready_` rested on.

`PolicyAdapters` runs one inference per action, in the order of `InferStep`:
`SelectExecutor`, `StartPlayback`, `HandleInteractionRequest`, `PreparePolicySwitch`,
`PrepareInputs`, and `OnAction` unless the inference is late. `kind` is what `LoadConfig`
and `Create` make of a configuration. Each adapter module is a record and an operator
per virtual call. Poses, histories, headings and anchors are reduced to the entry into
RL they belong to (`"none"`, `"now"`, `"old"`), clips and commands to a few values. A
gesture lasts at least one inference. A reference may start by itself or on demand, and loop
or not; Sonic's default clip may be asked for by its name. A blend may take no time, which
Sonic's loader accepts. `cancel_playback_` (`state_rl.cpp:674`) is the business
of `RlPipeline`: here every inference that sees a handoff prepares it. `SonicPlanner` is the planner thread at the
accesses to its mutex; a generation is only ever compared with the request and is
two flags.

### FixedBase

One action is one `Step` with the faults it observes and the key and request it was
given. A motion is a sequence of poses on one axis whose origin is the ready pose;
`target` is what is sent. Assumed of the configuration (`BaseAssumption`): a positive
`blend_out_duration` (`joint_trajectory.cpp:121` accepts 0, which jumps by intent), straight
lines in place of `SmoothStep` and the quintic, clips that `Loaded` accepts and whose own steps
are within `Jolt`. A report that is latched and inactive is not latched again here;
`BehaviorManager` has that case.

### ControlRuntime, Operator, OperatorClient

`ControlRuntime`: one control period is `Receive` (any number of packets), `Judge` (the
watchdogs), `Step` (if a cycle is due) and `Clock`. A device time is its relation to
the one before. `report` is the fault passed to `SetSensorFault`.

`Operator`: a client's session (`Hello`, `AdminLogin`, `LoginChecked`, `AdminLogout`,
`Disconnect`) and requests (`Ask...`, the branches of `Handle`), `Pump` (the heartbeat: `Tick`
with the clocks that have run out, then the status that was heard, then the frame), the end
of the service with and without a signal, the loss and return of the link with or without
the frame in flight, and on the other side `ControlReceives`, `HmiTimesOut` with the number
under which control answers itself, and what happens in control meanwhile (`FaultStrikes`,
`ActionEnds`, `PolicyPrepared`). `Handle` and `Pump` are atomic because the service runs
them under one mutex.

`OperatorClient`: `Call` posts, the I/O thread writes and reads, the service carries out
what it reads, in order (`Obey`). A call that gave up is not taken back. `Connect` starts the
books anew, so `ConfirmedIsDone` speaks of one connection: what an earlier one had sent may
still be carried out. After `Fail` nothing is written, while the code leaves the socket open
until `Close` and a write that was queued may still go out, with nobody to confirm it.

### WholeBodyBackend and FaultPath

* One cycle of the driver is three actions, between which control may act: `Receive`
  (take the newest command, read the sensors, publish), `Write` (forward the command if
  `AcceptsCommand`), `Tick` (the device works; then `LoseHardware`, `RegainHardware` or
  `KeepHardware`, or `GiveUp`). `Initialize` is the start, `Stop` the end of
  `should_continue()`. Every early return of `Run` is a step to `phase = "stopped"`.
* `report` is `current_fault_`, its context and `fault_sequence_`. `published` and
  `command` are the two channels: the reader keeps the newest element. `PacketAfterTick`
  is the packet that is sent before the cycle is judged, as in the code.
* The device (`whole_body`) is a library outside this repository, modelled from its
  use: a call returns any result that `Run` tells apart. `set_mode(SAFETY)`, whose
  result `Run` ignores, is taken to work, as `test_hardware_recovery.cpp` does with
  its fake device; a `write` that fails may or may not have taken effect.
* `armed` is what the device was last told; `stale` marks commands sent before a loss.
  Both are history: no guard of the driver reads them.
* In `FaultPath` control is reduced to what a driver fault concerns: it samples, the
  operator may confirm (`ControlReads`), it latches and moves (`ControlSteps`), and sends
  (`ControlSends`). Three modes stand for the FSM. Driver and control run at their own
  pace: any number of steps of one may come between two of the other.

### ShmChannel, Transport, LogCapture, SampleWorkers

`ShmChannel`: the steps are the accesses to the shared words and the two ends of a copy;
a slot that is being written is `Torn`. The writer never looks at the reader and may lap
it within one copy; a copy whose slot is written meanwhile may hold parts of several
packets. Either process may die at any step. `Close` of a writer stops its writing first
and unlinks the name later (`closing`): its successor may have opened the segment in
between, and a reader may have it mapped. `laps`, `left` and `stale` are histories: the
packets in or after writing since `Read` took the index, those published before the reader's
session, and the calls of `Read` that a writer starting under a live reader may disturb,
the one in progress and the next. The rest of `Init` of a reader is one step, and stores are
seen in program order.

`Transport`: every role, every message, `CanEncode*` on the way out, the conversion, the
checks on the way in, loss, repetition and strangers' packets on UDP. A group of numbers
is finite, beyond a float, or not finite; a text is empty, fits, is too long or holds a
zero byte; a vector is absent, right or wrong in length.

`LogCapture` follows one trigger through the queue, the spare slots and the pending flag,
and the rows of the last capture to the disk (`data`), with failing calls, a contended
lock and a power failure at every step. The request file of another process
(`runtime_logger.cpp:994`) and rows that the quota refuses (`:1063`) are left out.

`SampleWorkers`: what each thread does while it holds the mutex is a step, and so is the
call of the consumer, which may throw.

`MCComponents` extends the eight modules of components that share nothing and checks them
in one run: the initial state chooses the one that runs.

## 3. The runs

| run | instance | shows |
|---|---|---|
| `Faults` | one policy, all keys, a driver fault that recovers, control timeout, limit, inference fault; 2 faults; fair | the latch disarms and opens only for the newest sequence, a confirmed report stays quiet, the manager implements `FaultInterlock` with its liveness |
| `Catalogue` | `walk` owning the action `wave`, and `stand`; 1 fault | the bookkeeping of selections, actions, cancellations and loads; one policy at a time is destroyed |
| `Chain` | `dance` after `stand`, returning to it; 1 fault; fair | the policy is locked in HOME and ZERO, the prerequisite runs first, every handoff and every request ends |
| `RlPipeline` | limits of one tick; 1 request; fair | the lease holds in every cycle, a stale readiness is at rest, the watchdog bites, leaving RL gets the thread back |
| `PolicyAdapters` | every kind of adapter; references of 2 inferences; fair | each keeps `PolicyHandoff`, is at rest when it says so, starts fresh, stands through a gesture |
| `FaultPath` | driver and control, three device calls that fail; fair | the motors are held off during the wait, which only a POWER_OFF sent after the loss ends; a loss is reported; control keeps `FaultInterlock`; neither side waits for the other for ever; a robot switched off stops |
| `Operator` | two clients, modes, velocity, interactions and policies; 2 requests, 1 outage; fair | nothing is commanded without an owner; a robot whose driver is gone stops |
| `Components` | eight components, one per behaviour; fair | one or two properties of each, below |
| `LostFault`, `UnreportedLoss`, `LostWakeup`, `ReplayedAction` | small | one disagreement each, section 6 |

Deadlock is checked in every run but `Components`, whose components come to an end (the
client's calls, the samples, the packets and the segments are bounded). Three more
configurations, `Forgotten.cfg`, `LeftBehind.cfg` and `SplitChannel.cfg`, are traces kept for
section 6; no result rests on them.

Bounds.

* `Faults`, `Catalogue`, `Chain`. `MaxFaults` stops new faults once that many were latched:
  two show a second fault replacing or following a first, in either order with its recovery
  and its acknowledgement; one suffices where the question is what a fault does to a
  handoff. `SettleTicks`, `ReleaseTicks`, `PrereqTicks` of 2 show a counter that has begun
  and not ended; `SwitchTimeout` of 2 lets a handoff both succeed and expire. Two or three
  policies show every relation between the requested, active, loading and loaded policy.
* `FaultPath`. `MaxSetbacks` counts the calls of the device that return anything but OK,
  temporary ones included; it is a guard of the device and not a state constraint, so that
  liveness is checked on complete behaviours. Three show a loss, a second loss before or
  during the wait, and a failure of the command that would end it; the finding needs them.
* `RlPipeline`. A limit of one tick can be met and missed; ages saturate at 2, above every
  limit. One request is enough to be pending, sampled, taken, or stale at an entry.
* `PolicyAdapters`. Two frames have a first and a last, blends of one inference have a
  begin and an end, two numbers can repeat and come out of order, a step of two periods
  skips the last frame.
* `Operator`. Two clients contend for the lease; two operations and one outage reach every
  order of an outage with acquiring, driving, stopping and leaving. `FirstModes` starts
  control in RL, where a velocity matters and an interaction or a policy may be asked
  for. `ReplayedAction` goes one request further for the interaction alone.
* `Components`. Runtime: time limits of 2 and 3 periods, distinct so that each can pass
  first. Planner: speeds below, at and above the threshold and two apart. Channel: a
  ring of three slots, more packets than a lap, so that the writer may come back to the slot
  that is being read, and a writer that restarts in the same and in a new segment. Logger: a queue and a spare slot of one, so that both
  are full. Workers: capacities 1 and 2, more samples than fit. Client: four calls, two of
  them after a timeout. Fixed base: two motions on both sides of the ready pose, one of
  which holds; three numbers.

Nothing is symmetric (policies and clients have roles), and no symmetry is used.

Fairness.

* The manager: `WF(Control)`, because the loop is periodic and waits for no other thread
  (a destroyed policy is polled, `OneRetiring`); `WF(PrepareDone)`, `WF(RetireDone)`, because
  loading and destroying run to an end. Nothing is assumed of inputs, faults or of the
  policy's readiness. The two handoff properties hold once the operator stops asking
  (`OperatorFallsSilent`): each new request restarts the timeout.
* `FaultPath`: both loops, which the clock paces; `whole_body` calls return by themselves.
  Nothing is assumed of the operator: `LatchCanBeCleared` says that the confirmation
  becomes possible, not that it is given.
* `RlPipeline`: the control thread and the inference thread run (`WF`), and time passes
  again and again (`SF(Tick)`: a tick is not possible within a control cycle).
* `PolicyAdapters`: again and again an inference is on time (`SF` of the parity `beat`);
  if none were, the lease of the last action would end RL (`WatchdogBites`).
* `Operator`: the service's heartbeat with the link as it is and no clock, the lease of an
  owner who does not act, a frame in flight, and control's time limit. Nothing is assumed of
  clients, of the link's return or of the service's.
* `ControlRuntime`: the loop, which the clock paces; nothing of the driver.
* `SampleWorkers`: the worker, whose consumer returns or throws.
* `LogCapture`: the log writer and the publisher that is filling a slot run; the lock on the
  request file is not contended for ever (`SF` of the retries that are not).

## 4. Properties

*Faults.* `LatchedFaultDisarms`, `DriveIsJustified`, `AcknowledgedByItsSequence`,
`ConfirmedReportIsQuiet`, `ServesInterlock` relate the latch, the state and the output
across blocks and cycles: they fail when the forced switch watches only active faults,
when the release is one Step longer, when an active fault may be acknowledged.
Invariants about a finished cycle are stated for `pc = "idle"`: there the output is sent.

*Policies.* `PolicyLocked`, `RunningPolicyIsHandedOver`, `PrerequisiteRunsFirst`,
`OneRetiring`, `ActionStatusIsTrue`, `HandoffEnds`, `RequestIsAnswered`.

*RL.* `LeaseHolds`, `WatchdogBites`, `ReadyIsAtRest`, `JoinEnds` over the two threads;
`ImplementsHandoff`, `PromiseIsRest`, `FreshStart`, `StandsThroughGesture` over every adapter.
`ReadyIsAtRest` is about the three separate accesses of `RequestPolicySwitch` and the two
of `InferStep`: the readiness of an inference that saw an earlier request may answer a
later one, and must then still be true.

*Driver.* `HeldOff`, `RearmIsAsked`, `LossIsReported`, and with control `KeepsInterlock`,
`LatchCanBeCleared`, `WaitEnds`, `StopIsObeyed`. They fail when the device is not put into
SAFETY on a loss, when commands are left on the channel, when the packet after Tick is not
sent, when the gate waits for the fault to go away (each side then waits for the other).

*Operator.* `NothingWithoutOwner`, `DriverlessStops`.

*Components.* `NeverBlind`, `StartupFaultReaches` (runtime), `RestIsStanding` (planner),
`OnlyNewer` (channel), `FaithfulDelivery` (packets), `TriggerIsHandled`, `CompleteIsWritten`
(logger), `StopDrains` (workers), `ConfirmedIsDone` (client),
`PreparationIsCancelled`, `ArmIsSteady` (fixed base).

`PROJECT.json` has for each property the mutant of the code that violates it, and for each
hazard the properties that are about it.

## 5. What is proved

For all values of the constants that satisfy the named assumptions (what the loaders
enforce, keys, durations; no bound on policies, clients, faults, failures or time):

| module | theorem | property | invariant |
|---|---|---|---|
| `BehaviorManager_proofs` | `TypeCorrect`, `LatchDisarms`, `DriveJustified`, `AcknowledgedBySequence` | `TypeOK`, `LatchedFaultDisarms`, `DriveIsJustified`, `AcknowledgedByItsSequence` | `Inv` |
| | `ConfirmedStaysQuiet` | `ConfirmedReportIsQuiet` | `ReportHeld`, with the types |
| | `ImplementsInterlock` | `KeepsInterlock`, the safety part of `ServesInterlock` | `Inv` |
| `PolicyLock_proofs` | `PolicyIsLocked`, `RlEntry` | `PolicyLocked`, `RlEntryIsReady` | `LockInv` |
| | `OneIsRetiring` | `OneRetiring` | itself, with the types |
| | `StatusTellsTheTruth` | `ActionStatusIsTrue` | `CatalogueInv` |
| | `RunningPolicyKept`, `PrerequisiteRan` | `RunningPolicyIsHandedOver`, `PrerequisiteRunsFirst` | `HandoverInv` |
| `RlPipeline_proofs` | `LeaseAlwaysHolds`, `RestIsFound` | `LeaseHolds`, `ReadyIsAtRest` | `RestInv` |
| `WholeBodyBackend_proofs` | `DriverTypeCorrect`, `MotorsHeldOff`, `RearmingIsAsked`, `LossesAreReported` | types, `HeldOff`, `RearmIsAsked`, `LossIsReported` | `DriverInv` |
| `FaultPath_proofs` | `PathRunsDriver`, `PathHoldsMotorsOff`, `PathRearmsWhenAsked`, `PathReportsLosses` | the composition implements `DriverSpec`, and so has its properties | |
| | `PathTypeCorrect`, `PathKeepsInterlock` | types, `KeepsInterlock` | `PathInv` |
| `Operator_proofs` | `OwnerSpeaks` | `NothingWithoutOwner` | `OwnerInv` |
| `PolicyAdapters_proofs` | `AdapterRests`, `AdapterStartsFresh`, `AdapterStandsThroughGesture` | `PromiseIsRest`, `FreshStart`, `StandsThroughGesture` | `AdapterInv` |
| | `AdapterKeepsHandoff` | `Handoff!HandoffSafety`, the safety part of `ImplementsHandoff` | `AdapterInv` |
| `Components_proofs` | `CompleteHasItsRows` | `CompleteIsWritten` | `CaptureInv` |
| | `DeliveryIsFaithful` | `FaithfulDelivery` | `TransportInv` |
| | `ReadsOnlyNewer` | `OnlyNewer` | `ChannelInv` |
| | `ArmStaysSteady` | `ArmIsSteady` | `ArmHeld` |
| | `StartupFaultIsTold`, `RestStands`, `AllAccounted`, `PreparationStaysEnded`, `ConfirmationCovers` | `StartupFaultReaches`, `RestIsStanding`, `SamplesAreAccounted`, `PreparationIsCancelled`, `ConfirmedIsDone` | `RuntimeInv`, `PlannerInv`, `WorkerInv`, `BaseInv`, `ClientInv` |

The arguments, and why the properties alone are not inductive.

* `Inv` of the manager. `LatchHeld`: from the forced switch to the end of the cycle a
  latched fault finds the robot in POWER_OFF or SAFETY; elsewhere in the cycle it may be
  latched anywhere. `LatchNumbered`: a latched fault carries the newest number, and the
  confirmed acknowledgement is never ahead of it. `DriveHeld`: an enabled output belongs to
  a driving state or to a release whose timer is below its duration. `ImplementsInterlock`
  adds that of all actions only those of the latch and of the FSM touch what the interlock
  sees (`SamePower`).
* `LockInv` also covers the part of the cycle in which DAMP has passed the check before HOME
  (`HomeKeyIsSafe`): requests are refused from HOME on, and the return to the active policy
  leaves a ready policy ready.
* `CatalogueInv` ties the action that is reported to the policy that runs or is pending, and
  the pending flag of an action to its handoff, through loads that fail and requests that
  replace each other.
* `HandoverInv` says what a chain in progress has yet to run, and to which policy a return
  leads. It assumes nothing of the configuration: a prerequisite of another group
  (`HandoffForgotten`: a request for its policy, refused in RL, drops the flag of the handoff
  under way) and a return to a policy with a prerequisite (which skips it,
  `behavior_manager.cpp:919`), both of which `LoadConfig` accepts, are cases of the properties.
* `RestInv` follows a readiness from the inference that found rest through `store` and
  `clear`: a handoff request keeps the adapter from starting (`PreparePolicySwitch` and the
  guard on requests), so rest found under one request lasts until a request is dropped, and
  dropping one clears the flag before the next can be asked for.
* `DriverInv`: during a loss the wait is on (`recovery_active_` implies `await_power_off_`), a
  cycle marked as failed has an active fault on the channel (`FailureIsTold`), a command from
  before a loss is alive only while the loss lasts (`StaleIsDropped`). `PathInv`: a fault is
  never active without being latched, wherever it is; control is on only without a latched
  fault and in SAFETY only with one.
* `OwnerInv`: the owner is an administrator with an open session, the input is neutral
  without one, and a request in progress belongs to the owner or is a stop.
* `CaptureInv`: what the writer has yet to write, sync or rename, for every place it may be
  interrupted, and what `data` may be while a marker is being made.
* `RuntimeInv`: a fault seen before the first cycle is in `startup_fault` until it is
  reported. `PlannerInv`: what an up-to-date plan was made for is near what the operator
  asks for. `ClientInv`: identifiers in the four queues are in order, and a reply is for a
  call that was carried out. `WorkerInv`, `BaseInv`: the accounting and the flag themselves.

* `ReportHeld`: what waits in `sensor_fault` is a report of the driver side or nothing. Then
  only a report can be latched without being active, and the one that enters the latch is
  not the one that was confirmed. It rests on `ReportAssumption`: a report of a fault that
  has gone has a number (`transport_packet.h:333` refuses a packet without one; control's own
  timeouts are active). `IsAcknowledgedSensorFault` never recognises a report without one.
* `AdapterInv` has a form for each kind of adapter: what its fields may be together between
  two inferences (`Sound`), that it rests while a promise stands and the command is zero
  (`Rests`, which says more than not moving: no motion, transition or blend that would
  move it again), and that a stance adapter which owes standing waits or still plays
  (`Stands`). One section per kind shows what each of its calls keeps; then one inference
  is the sequence of the calls. `AdapterKeepsHandoff` follows call by call: the refinement
  maps `promised` to an answer that still stands and `begun` to the number of the request
  that began the last motion, which each kind keeps in a place of its own.
* `TransportInv`: the packet in the medium is the encoding of the message that was sent, and
  what was refused could not be encoded. The two checks of a packet accept whatever the
  encoder makes of a message it accepts, and the encoder accepts whatever is a sound report.
* `ChannelInv`: a slot holds no number above the newest one, the slot a reader copies is as
  many publications behind the index as the writer has published during the copy
  (`ReaderCopies`), and so is intact as long as these are fewer than the ring has slots.
  The newest packet of the reader's segment is newer than the last one read, or nothing new
  is there; this fails for the two calls that `stale` counts, after a writer restarted.
  The code bounds neither the laps nor the restarts, so both are conditions of `OnlyNewer`
  and not of the model. With `Capacity` of 1 every new packet spoils the copy under way.
* `ArmHeld`: the target is the point of the phase that was played last, its time is inside
  the phase, and a return begins near enough to the ready pose. `ArmDue` is the same in the
  middle of a Step, before phases are settled: where they will put the target is within
  `Jolt` of where it is. The blends divide, so the proof has the lemmas about quotients:
  a point of a line over n cycles is within the rounded n-th part of its length of the one
  before (`LineStep`) and never beyond its end (`LineWithin`).

`AllAccounted` proves an invariant that no run lists (`SamplesAreAccounted`), on which the
safety half of `StopDrains` rests. Every safety invariant, action property and type invariant that a passing run checks is
also proved, as is the safety part of each refinement. Only model-checked: every liveness
property (`HandoffEnds`, `RequestIsAnswered`, `LatchCanBeCleared`, `WaitEnds`,
`StopIsObeyed`, `WatchdogBites`, `JoinEnds`, `DriverlessStops`, `NeverBlind`,
`TriggerIsHandled`, `StopDrains`, and the fairness part of `ServesInterlock` and `ImplementsHandoff`),
because fairness is out of the prover's reach.

## 6. Where the program and its documentation disagree

* `LostFault` / `SafetyIsLatched` - an inference fault between the two looks of Step
  (`behavior_manager.cpp:978`, `:1100`) takes RL to SAFETY through
  `StateRL::CheckTransition` and is never latched: no controlled release, power-on is
  not blocked.
* `UnreportedLoss` / `WaitIsReported` - a fault of Tick that is still reported when the
  feedback is lost keeps its context; a Tick that succeeds in that cycle clears it
  (`whole_body_backend.cpp:353`) before the wait begins, and control hears of no fault
  while the driver drops its commands.
* `LostWakeup` / `JoinReturns` - `StopInference` stores `running_` and notifies without
  `mutex_sensor_` (`state_rl.cpp:426`); an inference thread between its predicate and its
  wait misses both, and the join inside the control cycle does not return.
* `ReplayedAction` / `ActionRunsOnce` - after a pause of the link control has cancelled under
  the next number; the delayed frame, with the number before, differs from the last one
  (`behavior_manager.cpp:301`) and its action starts again.

Each property quotes the documentation in its comment; `PROJECT.json` has the lines.

Three properties that the code breaks where it meets a configuration or an order of starting
that the documentation rules out or does not foresee. They are stated in the modules, TLC
finds each violated, and the properties of the passing runs name the first two as exceptions:

    tlc -config Forgotten.cfg MCBehaviorManager
    tlc -config LeftBehind.cfg ShmChannel
    tlc -config SplitChannel.cfg ShmChannel

* `ReplacedByHandoff` - a request that is refused in RL because the prerequisite of its policy
  is in another switch group (`LoadConfig` does not enforce `behavior_manager/README.md:205`)
  clears `hot_switch_requested` and leaves the pending policy (`behavior_manager.cpp:1223`);
  that policy is then installed in RL without asking the running one, and no fault, key or
  timeout cancels it (`behavior_manager/README.md:204`). `HandoffForgotten` in
  `RunningPolicyIsHandedOver` is this case.
* `OldStaysUnread` - a writer that starts resets the write index before the read index
  (`shm_transport.cpp:134`); a reader between the two takes over a packet of the writer before
  it, which `:152` rules out for a new session. `stale` in `OnlyNewer` is this case.
* `WriterIsFound` - `Close` of a writer removes the name from the segment of its successor
  (`shm_transport.cpp:222`); who starts next never finds that one, while
  `transport_shm_impl.cpp:60` promises any order of starting.

Observed without a run. In the manager:

* a release that began for a policy fault goes on after the feedback failed
  (`state_safety.cpp:52`; `src/README.md:229`);
* a fault found after `FSM::Step` does not cancel the handoff, and the policy is installed
  in SAFETY (`behavior_manager.cpp:983`; `behavior_manager/README.md:204`);
* RL entered and left within one Step is not noticed as left (`behavior_manager.cpp:1115`),
  and the next entry loads the model in the control loop (`state_rl.cpp:125`;
  `behavior_manager/README.md:197`);
* SAFETY ignores key -1, which `behavior_manager/README.md:76` shows as leading to POWER_OFF;
* `LoadConfig` accepts a prerequisite of another group, which `behavior_manager/README.md:205`
  excludes (a handoff then refuses it, see above); the
  timeout of a chain started in RL counts the run of its prerequisite (`:986`); a return to
  a policy with a prerequisite skips it (`:919`); after `CollectLost` the chain flag stays
  set until the next request; re-entering RL with the target still active does not run its
  prerequisite again; an action that blends in stays `BLEND_IN` when a selection replaces
  its handoff and is then cancelled.

In RL: `cancel_playback_` keeps its value when the request is withdrawn and re-entered;
`OnAction` may run for an inference that is discarded later (`state_rl.cpp:616`, `:645`); a
request to Sonic that is refused while `FINISHED` shows is overwritten by `FINISHED`; a
repeated cancellation restarts the blend of `joint_trajectory_policy_adapter.cpp` and of
Sonic; `history_actor_policy_adapter.cpp` takes a requested motion one sample later; with a
fixed planner mode above 0 Sonic is never idle; commands that creep by less than
`command_epsilon` never start a plan (`sonic_planner.cpp:187`: the previous command is
compared, not the planned one).

In the driver and control: a loss that a POWER_OFF of control ends between two samples of
control is never latched (`whole_body_backend.cpp:266`, `control_runtime.cpp:470`;
`src/README.md:202`); a timeout of `whole_body_write` or `whole_body_tick` latches a fault
and does not start the wait, while `src/README.md:201` says that such errors keep the robot
disabled; the 100 ms between retries of `src/README.md:201` are cycles
(`whole_body_backend.cpp:368`); after a restart of the driver sequences start at 1 and the
wait is forgotten.

In the service, the transport and the logger: the service may confirm a request from a
status that control sent before it saw the request; the status in a hello reply may
overwrite a newer event; a full lap between two reads leaves the indices equal and the new
packet unseen (`shm_transport.cpp:193`); a reader keeps an unlinked segment after the writer's
`Close`; the sequence of
a packet is never checked; `runtime_logger.cpp:954` marks a capture as durable after an
earlier `fsync` failed, filled spare slots survive `Initialize`, a pending trigger is lost at
`Shutdown`, an exception in `RequestCapture` suppresses triggers for the cooldown; a sample
that is stored when the consumer of `latest_sample_worker.h` throws is neither consumed nor
counted.

## 7. Assumptions on the environment

The device answers anything; UDP loses, repeats and misdirects; processes, power, files and
links fail where the modules say. Not covered: what follows from a mixed packet that a reader
lapped within its copy takes over (`OnlyNewer` names the condition, `Transport` and the
consumers get whole packets); memory-order effects weaker than the interleavings of the modelled
accesses; control cycles that overrun while the inference thread publishes.

## 8. Not modelled

* The parsing of `LoadConfig` and of motion, model and YAML files: what the loaders enforce
  is assumed by name (`ASSUME`).
* Observation vectors, the mathematics of motions and blends, inference itself.
* `control_sim2sim_runtime` (a loop without processes or faults of its own), the MuJoCo
  back end and the diagnostics of the driver, `hmi_runtime` (arguments and text entry),
  speech, the clients' user interfaces, `robot_base` configuration, examples, benchmarks.
* In modelled components: texts and JSON of the operator protocol, the listing of policies,
  sockets and permissions, rotation and quota arithmetic of the logger, status formatting.

They keep no state that another component waits on.
