------------------------ MODULE PolicyAdapters_proofs ------------------------
(***************************************************************************)
(* Proofs about the policy adapters: the model is never given what belongs *)
(* to an earlier entry into RL, a policy that may be replaced rests, the   *)
(* legs stand through a gesture, and every kind of adapter answers a       *)
(* handoff as PolicyHandoff says.  One section for each kind shows what    *)
(* its calls keep; the last ones put the calls of an inference together.   *)
(***************************************************************************)
EXTENDS PolicyAdapters, Integers, TLAPS

-----------------------------------------------------------------------------
(***************************************************************************)
(* What an adapter of each kind is between two inferences.                 *)
(***************************************************************************)

\* The time left of a requested handoff runs with the clock of the reference.
ReferenceSound(a) ==
    /\ a \in R!ReferenceAdapters
    /\ a.mode = kind
    /\ a.mode \notin R!Looped => a.position <= Length
    /\ ~a.started => a.position = 0
    /\ a.requested => a.left = 0 \/ a.position = Length - a.left
    /\ a.heading = "now"
    /\ a.seeded => a.history # "old"
    /\ a.mode = "fixed" => ~a.moving

\* A cancellation is a transition to the default clip.
SonicSound(a) ==
    /\ a \in C!SonicAdapters
    /\ a.canceling => a.transition /\ ~a.playing
    /\ a.begun <= a.number
    /\ a.heading = "now"

\* Only a clip keeps the adapter busy.
TrajectorySound(a) ==
    /\ a \in T!TrajectoryAdapters
    /\ a.clip # T!NoClip <=> T!IsBusy(a)
    /\ a.begun <= a.number
    /\ a.applied # "old"

\* The filters of the command are empty when the robot stands.
StanceSound(a) ==
    /\ a \in S!StanceAdapters
    /\ TrajectorySound(a.gesture)
    /\ a.mode = 0 => a.forward = 0 /\ a.turn = 0
    /\ a.memory = "now"

HistorySound(a) ==
    /\ a \in H!HistoryAdapters
    /\ a.latent <=> kind = "latent"
    /\ a.stationary <=> a.filtered = 0
    /\ a.begun <= a.number
    /\ a.history = "now" /\ a.anchor # "old"

Sound(a) ==
    CASE kind \in References -> ReferenceSound(a)
      [] kind = "sonic" -> SonicSound(a)
      [] kind = "trajectory" -> TrajectorySound(a)
      [] kind = "stance" -> StanceSound(a)
      [] kind \in {"latent", "gait"} -> HistorySound(a)

(***************************************************************************)
(* What it is once it has said that it may be replaced.                    *)
(***************************************************************************)
ReferenceRests(a) ==
    \/ a.mode = "fixed"
    \/ a.requested /\ (~a.started \/ a.holding) /\ a.ready /\ ~a.moving

SonicRests(a) == ~a.transition /\ ~a.playing /\ ~a.canceling /\ ~a.moving

StanceRests(a) ==
    /\ a.name = "stance" /\ a.mode = 0 /\ ~a.waits
    /\ a.gesture.clip = T!NoClip

HistoryRests(a) == H!ReadyForPolicySwitch(a)

Rests(a) ==
    CASE kind \in References -> ReferenceRests(a)
      [] kind = "sonic" -> SonicRests(a)
      [] kind = "trajectory" -> a.clip = T!NoClip
      [] kind = "stance" -> StanceRests(a)
      [] kind \in {"latent", "gait"} -> HistoryRests(a)

\* After a gesture the stance adapter waits for a zero command.
Stands(a) == ~S!Walking(a) /\ (a.waits \/ S!T!IsBusy(a.gesture))

AdapterInv ==
    /\ kind \in Kinds
    /\ wanted \in BOOLEAN /\ still \in BOOLEAN
    /\ ready \in BOOLEAN /\ kept \in BOOLEAN
    /\ Sound(adapter)
    /\ ready => wanted
    /\ kept => still
    /\ ready /\ kept => Rests(adapter)
    /\ kind = "stance" /\ owes => Stands(adapter)
    /\ fresh

-----------------------------------------------------------------------------
(***************************************************************************)
(* Adapters that play one reference.                                       *)
(***************************************************************************)

\* A clock that wraps stays in its range, and does not change below its end.
LEMMA Wrapped ==
    ASSUME NEW n \in Int, NEW d \in Nat \ {0}
    PROVE  /\ n % d \in 0..d
           /\ n \in 0..(d - 1) => n % d = n
  OBVIOUS

LEMMA ReferenceStarts ==
    ASSUME kind \in References
    PROVE  ReferenceSound(R!Reset(R!Construct(kind)))
  <1> DEFINE a == R!Reset(R!Construct(kind))
  <1>1. 0 \in 0..(Length + Pause) /\ 0 \in 0..Length /\ 0 <= Length
    BY DurationAssumption
  <1>2. a \in R!ReferenceAdapters
    BY <1>1 DEF References, R!Reset, R!Construct, R!Origins, R!ReferenceAdapters
  <1>3. /\ a.mode = kind /\ a.position = 0 /\ ~a.requested /\ a.heading = "now"
        /\ ~a.seeded /\ ~a.moving /\ a.history = "none"
    BY DEF R!Reset, R!Construct
  <1> QED
    BY <1>1, <1>2, <1>3 DEF ReferenceSound

LEMMA ReferenceEnters ==
    ASSUME kind \in References, NEW a, ReferenceSound(a)
    PROVE  ReferenceSound(R!Reset(R!Leave(a)))
  <1> DEFINE b == R!Leave(a)
             c == R!Reset(b)
  <1>1. 0 \in 0..(Length + Pause) /\ 0 <= Length
    BY DurationAssumption
  <1>2. b \in R!ReferenceAdapters /\ b.mode = a.mode /\ b.moving = a.moving
    BY DEF ReferenceSound, R!Leave, R!Older, R!Origins, R!ReferenceAdapters
  <1>3. c \in R!ReferenceAdapters
    BY <1>1, <1>2 DEF R!Reset, R!Origins, R!ReferenceAdapters
  <1>4. /\ c.mode = b.mode /\ c.position = 0 /\ ~c.requested
        /\ c.heading = "now" /\ ~c.seeded /\ c.moving = b.moving
    BY <1>2 DEF R!Reset, R!ReferenceAdapters
  <1> QED
    BY <1>1, <1>2, <1>3, <1>4 DEF ReferenceSound

LEMMA ReferenceAdvances ==
    ASSUME kind \in References, NEW a, ReferenceSound(a), NEW step \in 1..MaxStep
    PROVE  /\ ReferenceSound(R!Advance(a, step))
           /\ ReferenceRests(a) => ReferenceRests(R!Advance(a, step))
  <1> DEFINE b == R!Advance(a, step)
  <1>1. /\ a \in R!ReferenceAdapters /\ a.position \in 0..(Length + Pause)
        /\ a.left \in 0..Length /\ step \in Nat \ {0} /\ a.mode = kind
    BY BoundAssumption DEF ReferenceSound, R!ReferenceAdapters
  <1>2. CASE ~a.started
    BY <1>2 DEF R!Advance
  <1>3. CASE a.started
    <2> DEFINE p == IF a.mode \in R!Looped
                    THEN (a.position + step) % (Length + Pause)
                    ELSE IF a.position + step > Length THEN Length
                    ELSE a.position + step
               l == IF a.left > step THEN a.left - step ELSE 0
    <2>1. b = [a EXCEPT !.position = p, !.left = l]
      BY <1>3 DEF R!Advance, R!Cycle
    <2>2. /\ p \in 0..(Length + Pause)
          /\ a.position + step < Length => p = a.position + step
      <3> DEFINE n == a.position + step
                 d == Length + Pause
      <3>1. n \in Int /\ d \in Nat \ {0} /\ n >= 0 /\ Length <= d
        BY <1>1, DurationAssumption
      <3>2. n % d \in 0..d /\ (n \in 0..(d - 1) => n % d = n)
        <4> HIDE DEF n, d
        <4> QED
          BY <3>1, Wrapped
      <3>3. p = IF a.mode \in R!Looped THEN n % d
                ELSE IF n > Length THEN Length ELSE n
        OBVIOUS
      <3> HIDE DEF n, d, p
      <3>4. p \in 0..d /\ (n < Length => p = n)
        BY <3>1, <3>2, <3>3, DurationAssumption
      <3> QED
        BY <3>4 DEF n, d
    <2>3. l \in 0..Length
      BY <1>1, DurationAssumption
    <2>4. b \in R!ReferenceAdapters
      BY <1>1, <2>1, <2>2, <2>3 DEF R!ReferenceAdapters
    <2>5. /\ b.position = p /\ b.left = l
          /\ b.mode = a.mode /\ b.requested = a.requested /\ b.heading = a.heading
          /\ b.seeded = a.seeded /\ b.history = a.history /\ b.moving = a.moving
          /\ b.started = a.started /\ b.holding = a.holding /\ b.ready = a.ready
      BY <1>1, <2>1 DEF R!ReferenceAdapters
    <2>6. a.mode \notin R!Looped => p <= Length
      BY <1>1, DurationAssumption
    <2>7. a.requested => l = 0 \/ p = Length - l
      <3> SUFFICES ASSUME a.requested, a.left > step PROVE p = Length - l
        BY DEF ReferenceSound
      <3>1. a.position = Length - a.left
        BY <1>1 DEF ReferenceSound
      <3> QED
        BY <1>1, <2>2, <3>1, DurationAssumption
    <2> QED
      BY <1>3, <2>4, <2>5, <2>6, <2>7 DEF ReferenceSound, ReferenceRests
  <1> QED
    BY <1>2, <1>3

LEMMA ReferencePlays ==
    ASSUME kind \in References, NEW a, ReferenceSound(a)
    PROVE  ReferenceSound(R!StartPlayback(a))
  <1> DEFINE b == [a EXCEPT !.started = TRUE, !.position = 0]
  <1> SUFFICES ASSUME a.mode \in R!Manual, ~a.started
               PROVE  ReferenceSound(b)
    BY DEF R!StartPlayback
  <1>1. 0 \in 0..(Length + Pause) /\ 0 <= Length
    BY DurationAssumption
  <1>2. a \in R!ReferenceAdapters
    BY DEF ReferenceSound
  <1>3. b \in R!ReferenceAdapters
    BY <1>1, <1>2 DEF R!ReferenceAdapters
  <1>4. /\ b.position = a.position /\ b.started
        /\ b.mode = a.mode /\ b.requested = a.requested /\ b.left = a.left
        /\ b.heading = a.heading /\ b.seeded = a.seeded /\ b.history = a.history
        /\ b.moving = a.moving
    BY <1>1, <1>2 DEF ReferenceSound, R!ReferenceAdapters
  <1> QED
    BY <1>1, <1>3, <1>4 DEF ReferenceSound

LEMMA ReferenceIsAsked ==
    ASSUME kind \in References, NEW a, ReferenceSound(a), NEW asked \in BOOLEAN
    PROVE  LET b == R!PreparePolicySwitch(a, asked)
           IN /\ ReferenceSound(b)
              /\ asked /\ b.mode # "fixed" => b.requested
              /\ asked /\ ReferenceRests(a) => ReferenceRests(b)
  <1> DEFINE b == R!PreparePolicySwitch(a, asked)
             l == IF ~asked \/ a.requested THEN a.left
                  ELSE IF a.position < Length THEN Length - a.position ELSE 0
  <1>1. /\ a \in R!ReferenceAdapters /\ a.position \in 0..(Length + Pause)
        /\ a.left \in 0..Length
    BY DEF ReferenceSound, R!ReferenceAdapters
  <1>2. CASE a.mode = "fixed"
    BY <1>2 DEF R!PreparePolicySwitch, ReferenceRests
  <1>3. CASE a.mode # "fixed"
    <2>1. b = [a EXCEPT !.requested = asked, !.left = l]
      BY <1>3 DEF R!PreparePolicySwitch
    <2>2. l \in 0..Length
      BY <1>1, DurationAssumption
    <2>3. b \in R!ReferenceAdapters
      BY <1>1, <2>1, <2>2 DEF R!ReferenceAdapters
    <2>4. /\ b.requested = asked /\ b.left = l
          /\ b.mode = a.mode /\ b.position = a.position /\ b.heading = a.heading
          /\ b.seeded = a.seeded /\ b.history = a.history /\ b.moving = a.moving
          /\ b.started = a.started /\ b.holding = a.holding /\ b.ready = a.ready
      BY <1>1, <2>1 DEF R!ReferenceAdapters
    <2>5. asked => l = 0 \/ a.position = Length - l
      BY <1>1, DurationAssumption DEF ReferenceSound
    <2> QED
      BY <2>3, <2>4, <2>5 DEF ReferenceSound, ReferenceRests
  <1> QED
    BY <1>2, <1>3

LEMMA ReferenceSamples ==
    ASSUME kind \in References, NEW a, ReferenceSound(a)
    PROVE  LET b == R!PrepareInputs(a)
           IN /\ ReferenceSound(b) /\ R!Fresh(b)
              /\ b.mode = a.mode /\ b.requested = a.requested
              /\ ReferenceRests(a) => ReferenceRests(b)
              /\ a.mode = "fixed" \/ a.requested =>
                    (R!ReadyForPolicySwitch(b) => ReferenceRests(b))
  <1> DEFINE s == IF a.mode = "fixed" THEN a ELSE R!Sample(a)
             b == R!PrepareInputs(a)
  <1>1. a \in R!ReferenceAdapters /\ a.position \in 0..(Length + Pause)
    BY DEF ReferenceSound, R!ReferenceAdapters
  <1>2. /\ s \in R!ReferenceAdapters
        /\ s.mode = a.mode /\ s.position = a.position /\ s.heading = a.heading
        /\ s.seeded = a.seeded /\ s.history = a.history /\ s.started = a.started
        /\ s.requested = a.requested /\ s.left = a.left
    BY <1>1 DEF R!Sample, R!ReferenceAdapters
  <1>3. a.mode = "fixed" => s = a
    OBVIOUS
  <1>4. a.mode # "fixed" =>
          LET holding == /\ a.started
                         /\ a.holding \/ (a.requested /\ a.left = 0)
              held == a.started /\ (holding \/ R!HoldsLastFrame(a))
          IN /\ s.holding = (holding \/ a.holding)
             /\ s.ready = (~a.started \/ held)
             /\ s.moving = (a.started /\ ~held)
    BY <1>1 DEF R!Sample, R!ReferenceAdapters
  <1>5. /\ b \in R!ReferenceAdapters /\ b.seeded
        /\ b.history = IF s.seeded THEN s.history ELSE "now"
        /\ b.mode = s.mode /\ b.position = s.position /\ b.heading = s.heading
        /\ b.started = s.started /\ b.requested = s.requested /\ b.left = s.left
        /\ b.holding = s.holding /\ b.ready = s.ready /\ b.moving = s.moving
    BY <1>2 DEF R!PrepareInputs, R!RecordObservation, R!ReferenceAdapters, R!Origins
  <1>6. a.requested /\ R!HoldsLastFrame(a) => a.left = 0
    BY <1>1, DurationAssumption DEF ReferenceSound, R!HoldsLastFrame,
        R!ReferenceAdapters
  <1> HIDE DEF s, b
  <1>7. ReferenceSound(b) /\ R!Fresh(b)
    BY <1>2, <1>3, <1>5 DEF ReferenceSound, R!Fresh
  <1>8. ReferenceRests(a) => ReferenceRests(b)
    BY <1>2, <1>3, <1>4, <1>5 DEF ReferenceRests
  <1>9. a.requested /\ b.ready => ReferenceRests(b)
    BY <1>2, <1>4, <1>5, <1>6 DEF ReferenceRests
  <1> QED
    BY <1>2, <1>5, <1>7, <1>8, <1>9 DEF b, R!ReadyForPolicySwitch, ReferenceRests

\* One that rests says so, and does not move.
LEMMA ReferenceAtRest ==
    ASSUME kind \in References, NEW a, ReferenceSound(a), ReferenceRests(a)
    PROVE  R!ReadyForPolicySwitch(a) /\ ~R!Moving(a)
  BY DEF ReferenceSound, ReferenceRests, R!ReadyForPolicySwitch, R!Moving

-----------------------------------------------------------------------------
(***************************************************************************)
(* Sonic with a catalogue of clips.                                        *)
(***************************************************************************)
LEMMA SonicStarts == SonicSound(C!Reset(C!Construct))
  <1> DEFINE a == C!Reset(C!Construct)
  <1>1. 0 \in (-Transition)..(Length + Pause) /\ 0 \in Nat /\ 0 <= 0
    BY DurationAssumption
  <1>2. a \in C!SonicAdapters
    BY <1>1 DEF C!Reset, C!Construct, C!SonicAdapters, C!Phases
  <1>3. /\ ~a.canceling /\ a.number = 0 /\ a.begun = 0 /\ a.heading = "now"
    BY DEF C!Reset, C!Construct
  <1> QED
    BY <1>1, <1>2, <1>3 DEF SonicSound

LEMMA SonicAdvances ==
    ASSUME NEW a, SonicSound(a), NEW step \in 1..MaxStep
    PROVE  LET b == C!Advance(a, step)
           IN /\ SonicSound(b) /\ b.begun = a.begun
              /\ SonicRests(a) => SonicRests(b)
  <1> DEFINE n == a.clock + step
             d == Length + Pause
             c == IF ~a.playing /\ ~a.transition THEN a.clock
                  ELSE IF a.clip \in C!Looped /\ n >= 0 THEN n % d
                  ELSE IF n > Length THEN Length ELSE n
             b == C!Advance(a, step)
  <1>1. a \in C!SonicAdapters /\ a.clock \in (-Transition)..d
    BY DEF SonicSound, C!SonicAdapters
  <1>2. /\ n \in Int /\ n >= -Transition /\ d \in Nat \ {0} /\ Length <= d
        /\ Length \in Nat /\ Transition \in Nat
    BY <1>1, DurationAssumption, BoundAssumption
  <1>3. c \in (-Transition)..d
    <2>1. n % d \in 0..d
      <3> HIDE DEF n, d
      <3> QED
        BY <1>2, Wrapped
    <2> DEFINE m == n % d
    <2> HIDE DEF n, d, m
    <2>2. m \in 0..d
      BY <2>1 DEF m
    <2> QED
      BY <1>1, <1>2, <2>2 DEF m
  <1>4. b = [a EXCEPT !.clock = c]
    BY DEF C!Advance
  <1> HIDE DEF c, b, d
  <1>5. b \in C!SonicAdapters
    BY <1>1, <1>3, <1>4 DEF C!SonicAdapters, d
  <1>6. /\ b.canceling = a.canceling /\ b.transition = a.transition
        /\ b.playing = a.playing /\ b.begun = a.begun /\ b.number = a.number
        /\ b.heading = a.heading /\ b.moving = a.moving
    BY <1>1, <1>4 DEF C!SonicAdapters
  <1> QED
    BY <1>5, <1>6 DEF SonicSound, SonicRests, b

\* One that takes no time is over at once, and a cancellation with it.
LEMMA SonicBegins ==
    ASSUME NEW a, SonicSound(a), NEW clip \in C!Clips \cup {C!DefaultClip},
           NEW canceling \in BOOLEAN
    PROVE  LET b == C!BeginTransition(a, clip, canceling)
           IN /\ SonicSound(b) /\ b.begun = a.begun /\ b.number = a.number
              /\ canceling => b.canceling \/ (~b.transition /\ ~b.playing)
  <1> DEFINE b == C!BeginTransition(a, clip, canceling)
             over == Transition = 0 /\ canceling
             phase == IF over THEN "FINISHED"
                      ELSE IF canceling THEN "BLEND_OUT"
                      ELSE IF Transition > 0 THEN "BLEND_IN" ELSE "PLAYING"
  <1>1. a \in C!SonicAdapters
    BY DEF SonicSound
  <1>2. /\ -Transition \in (-Transition)..(Length + Pause)
        /\ Transition > 0 <=> ~(Transition = 0)
    BY DurationAssumption
  <1>3. b = [a EXCEPT !.clip = clip, !.heading = "now", !.clock = -Transition,
                      !.transition = (Transition > 0), !.playing = ~canceling,
                      !.canceling = canceling /\ ~over, !.phase = phase]
    BY DEF C!BeginTransition
  <1>4. phase \in C!Phases /\ over \in BOOLEAN /\ (Transition > 0) \in BOOLEAN
    BY DEF C!Phases
  <1>5. over => ~(Transition > 0)
    BY <1>2
  <1>6. canceling /\ ~over => Transition > 0
    BY <1>2
  <1> DEFINE takesTime == Transition > 0
  <1> HIDE DEF b, over, phase, takesTime
  <1>7. b \in C!SonicAdapters
    BY <1>1, <1>2, <1>3, <1>4 DEF C!SonicAdapters, takesTime
  <1>8. /\ b.transition = takesTime /\ b.begun = a.begun
        /\ b.number = a.number /\ b.canceling = (canceling /\ ~over)
        /\ b.playing = ~canceling /\ b.heading = "now"
    BY <1>1, <1>3 DEF C!SonicAdapters, takesTime
  <1>9. SonicSound(b)
    BY <1>6, <1>7, <1>8 DEF SonicSound, takesTime
  <1> QED
    BY <1>5, <1>8, <1>9 DEF b, takesTime

LEMMA SonicHandles ==
    ASSUME NEW a, SonicSound(a), NEW request, request.number \in Nat
    PROVE  LET b == C!HandleInteractionRequest(a, request)
           IN SonicSound(b) /\ (b.begun = a.begun \/ b.begun > a.begun)
  <1> DEFINE n == request.number
             numbered == [a EXCEPT !.number = n]
             begun == [a EXCEPT !.number = n, !.begun = n]
  <1> SUFFICES ASSUME n > a.number
               PROVE  /\ SonicSound(C!Cancel(a, n))
                      /\ C!Cancel(a, n).begun = a.begun
                      /\ SonicSound(C!Start(a, request.action, n))
                      /\ \/ C!Start(a, request.action, n).begun = a.begun
                         \/ C!Start(a, request.action, n).begun > a.begun
    BY DEF C!HandleInteractionRequest, SonicSound, C!SonicAdapters
  <1>1. a \in C!SonicAdapters /\ a.number \in Nat /\ a.begun \in Nat
        /\ a.begun <= a.number
    BY DEF SonicSound, C!SonicAdapters
  <1>2. /\ SonicSound(numbered) /\ numbered.begun = a.begun
        /\ SonicSound([numbered EXCEPT !.phase = "REJECTED"])
        /\ [numbered EXCEPT !.phase = "REJECTED"].begun = a.begun
    <2> DEFINE refused == [numbered EXCEPT !.phase = "REJECTED"]
    <2>1. numbered \in C!SonicAdapters
      BY <1>1 DEF C!SonicAdapters
    <2>2. refused \in C!SonicAdapters
      BY <2>1 DEF C!SonicAdapters, C!Phases
    <2>3. /\ numbered.number = n /\ numbered.begun = a.begun
          /\ numbered.canceling = a.canceling /\ numbered.playing = a.playing
          /\ numbered.transition = a.transition /\ numbered.heading = a.heading
      BY <1>1 DEF C!SonicAdapters
    <2>4. /\ refused.number = n /\ refused.begun = a.begun
          /\ refused.canceling = a.canceling /\ refused.playing = a.playing
          /\ refused.transition = a.transition /\ refused.heading = a.heading
      BY <2>1, <2>3 DEF C!SonicAdapters
    <2>5. a.begun <= n
      BY <1>1
    <2> HIDE DEF numbered, refused
    <2>6. SonicSound(numbered) /\ SonicSound(refused)
      BY <1>1, <2>1, <2>2, <2>3, <2>4, <2>5 DEF SonicSound
    <2> QED
      BY <2>3, <2>4, <2>6 DEF refused
  <1>3. SonicSound(begun) /\ begun.begun = n
    <2>1. begun \in C!SonicAdapters
      BY <1>1 DEF C!SonicAdapters
    <2> QED
      BY <1>1, <2>1 DEF SonicSound, C!SonicAdapters
  <1>4. [numbered EXCEPT !.phase = "REJECTED"]
          = [a EXCEPT !.number = n, !.phase = "REJECTED"]
    BY <1>1 DEF C!SonicAdapters
  <1> HIDE DEF numbered, begun
  <1>5. SonicSound(C!Cancel(a, n)) /\ C!Cancel(a, n).begun = a.begun
    BY <1>2, <1>4, SonicBegins DEF C!Cancel, numbered
  <1>6. /\ SonicSound(C!Start(a, request.action, n))
        /\ \/ C!Start(a, request.action, n).begun = a.begun
           \/ C!Start(a, request.action, n).begun = n
    BY <1>2, <1>3, <1>4, SonicBegins DEF C!Start, numbered, begun
  <1> QED
    BY <1>1, <1>5, <1>6

LEMMA SonicIsAsked ==
    ASSUME NEW a, SonicSound(a), NEW asked \in BOOLEAN
    PROVE  LET b == C!PreparePolicySwitch(a, asked)
           IN /\ SonicSound(b) /\ b.begun = a.begun
              /\ asked => \/ b.canceling
                          \/ ~b.transition /\ ~b.playing
              /\ SonicRests(a) => SonicRests(b)
  <1>1. CASE asked /\ ~a.canceling /\ (a.playing \/ a.transition)
    BY <1>1, SonicBegins DEF C!PreparePolicySwitch, SonicRests
  <1>2. CASE ~(asked /\ ~a.canceling /\ (a.playing \/ a.transition))
    BY <1>2 DEF C!PreparePolicySwitch
  <1> QED
    BY <1>1, <1>2

LEMMA SonicSamples ==
    ASSUME NEW a, SonicSound(a)
    PROVE  LET b == C!PrepareInputs(a)
           IN /\ SonicSound(b) /\ C!Fresh(b) /\ b.begun = a.begun
              /\ SonicRests(a) => SonicRests(b)
              /\ (a.canceling \/ (~a.transition /\ ~a.playing)) =>
                    (C!ReadyForPolicySwitch(b) => SonicRests(b))
  <1> DEFINE t == C!AfterTransition(a)
             u == C!UpdateInteractionStatus(a)
             b == C!PrepareInputs(a)
  <1>1. a \in C!SonicAdapters
    BY DEF SonicSound
  <1>2. /\ t \in C!SonicAdapters /\ t.begun = a.begun /\ t.number = a.number
        /\ t.heading = a.heading
        /\ t.canceling => t.transition /\ ~t.playing
        /\ a.canceling => t.canceling \/ (~t.transition /\ ~t.playing)
        /\ ~a.transition => t = a
    BY <1>1 DEF C!AfterTransition, C!SonicAdapters, C!Phases, SonicSound
  <1> HIDE DEF t
  <1>3. /\ u \in C!SonicAdapters /\ u.begun = t.begun /\ u.number = t.number
        /\ u.heading = t.heading /\ u.canceling = t.canceling
        /\ u.playing = t.playing /\ u.transition = t.transition
    BY <1>2 DEF C!UpdateInteractionStatus, C!SonicAdapters, C!Phases, t
  <1>4. /\ b = [u EXCEPT !.moving =
                    u.transition \/ (u.playing /\ u.clock < Length)]
    BY DEF C!PrepareInputs
  <1> HIDE DEF u, b
  <1>5. /\ b \in C!SonicAdapters /\ b.begun = u.begun /\ b.number = u.number
        /\ b.heading = u.heading /\ b.canceling = u.canceling
        /\ b.playing = u.playing /\ b.transition = u.transition
        /\ ~u.transition /\ ~u.playing => ~b.moving
    BY <1>3, <1>4 DEF C!SonicAdapters
  <1>6. SonicSound(b) /\ C!Fresh(b)
    BY <1>2, <1>3, <1>5 DEF SonicSound, C!Fresh
  <1>7. SonicRests(a) => SonicRests(b)
    BY <1>2, <1>3, <1>5 DEF SonicRests
  <1>8. (a.canceling \/ (~a.transition /\ ~a.playing)) /\ ~b.transition
            => SonicRests(b)
    BY <1>2, <1>3, <1>5 DEF SonicRests, SonicSound
  <1> QED
    BY <1>2, <1>3, <1>5, <1>6, <1>7, <1>8 DEF b, C!ReadyForPolicySwitch

LEMMA SonicEnters ==
    ASSUME NEW a
    PROVE  SonicSound(C!Reset(C!Leave(a)))
  BY SonicStarts DEF C!Reset

LEMMA SonicAtRest ==
    ASSUME NEW a, SonicRests(a)
    PROVE  C!ReadyForPolicySwitch(a) /\ ~C!Moving(a)
  BY DEF SonicRests, C!ReadyForPolicySwitch, C!Moving

-----------------------------------------------------------------------------
(***************************************************************************)
(* The joint trajectory, by itself and under the stance adapter.           *)
(***************************************************************************)
LEMMA TrajectoryLimits ==
    /\ T!AgeLimit \in Nat /\ 0 \in 0..T!AgeLimit
    /\ 0 \in 0..BlendIn /\ BlendIn \in 0..BlendIn
  BY DurationAssumption DEF T!AgeLimit

LEMMA TrajectoryStarts == TrajectorySound(T!Construct)
  <1> DEFINE a == T!Construct
  <1>1. a \in T!TrajectoryAdapters
    BY TrajectoryLimits
       DEF T!Construct, T!TrajectoryAdapters, T!Phases, T!NoClip
  <1>2. /\ a.clip = T!NoClip /\ a.phase = "IDLE" /\ a.begun = 0
        /\ a.number = 0 /\ a.applied = "none"
    BY DEF T!Construct
  <1> QED
    BY <1>1, <1>2 DEF TrajectorySound, T!IsBusy, T!Busy

LEMMA TrajectoryAdvances ==
    ASSUME NEW a, TrajectorySound(a), NEW step \in 1..MaxStep
    PROVE  LET b == T!Advance(a, step)
           IN /\ TrajectorySound(b) /\ b.begun = a.begun
              /\ b.clip = a.clip /\ b.phase = a.phase
  <1> DEFINE n == IF a.clip = T!NoClip THEN 0
                  ELSE IF a.age + step > T!AgeLimit THEN T!AgeLimit
                  ELSE a.age + step
             b == T!Advance(a, step)
  <1>1. a \in T!TrajectoryAdapters /\ a.age \in 0..T!AgeLimit
    BY DEF TrajectorySound, T!TrajectoryAdapters
  <1>2. n \in 0..T!AgeLimit
    BY <1>1, TrajectoryLimits, BoundAssumption
  <1>3. b = [a EXCEPT !.age = n]
    BY DEF T!Advance
  <1> HIDE DEF n, b
  <1>4. b \in T!TrajectoryAdapters
    BY <1>1, <1>2, <1>3 DEF T!TrajectoryAdapters
  <1>5. /\ b.clip = a.clip /\ b.phase = a.phase /\ b.begun = a.begun
        /\ b.number = a.number /\ b.applied = a.applied
    BY <1>1, <1>3 DEF T!TrajectoryAdapters
  <1> QED
    BY <1>4, <1>5 DEF b, TrajectorySound, T!IsBusy

LEMMA TrajectoryBlendsOut ==
    ASSUME NEW a, TrajectorySound(a), NEW n \in Nat, n >= a.begun
    PROVE  LET b == T!BeginBlendOut(a, n)
           IN /\ TrajectorySound(b) /\ b.begun = a.begun /\ b.number = n
              /\ b.clip = a.clip
  <1> DEFINE b == T!BeginBlendOut(a, n)
  <1>1. a \in T!TrajectoryAdapters
    BY DEF TrajectorySound
  <1>2. b \in T!TrajectoryAdapters
    BY <1>1, TrajectoryLimits DEF T!BeginBlendOut, T!TrajectoryAdapters, T!Phases
  <1>3. /\ b.clip = a.clip /\ b.begun = a.begun /\ b.applied = a.applied
        /\ b.number = n
        /\ b.phase = IF a.clip = T!NoClip THEN "IDLE" ELSE "BLEND_OUT"
    BY <1>1 DEF T!BeginBlendOut, T!TrajectoryAdapters
  <1> HIDE DEF b
  <1> QED
    BY <1>2, <1>3 DEF b, TrajectorySound, T!IsBusy, T!Busy

LEMMA TrajectoryIsAsked ==
    ASSUME NEW a, TrajectorySound(a), NEW asked \in BOOLEAN
    PROVE  LET b == T!PreparePolicySwitch(a, asked)
           IN /\ TrajectorySound(b) /\ b.begun = a.begun /\ b.clip = a.clip
              /\ ~asked => b = a
  <1>1. a.number \in Nat /\ a.number >= a.begun
    BY DEF TrajectorySound, T!TrajectoryAdapters
  <1> QED
    BY <1>1, TrajectoryBlendsOut DEF T!PreparePolicySwitch

\* A clip that has just begun is at its first frame.
LEMMA TrajectoryHandles ==
    ASSUME NEW a, TrajectorySound(a), NEW request, request.number \in Nat
    PROVE  LET b == T!HandleInteractionRequest(a, request)
           IN /\ TrajectorySound(b) /\ (b.begun = a.begun \/ b.begun > a.begun)
              /\ b.clip = a.clip \/ (/\ a.clip = T!NoClip /\ b.age = 0
                                     /\ b.phase = "BLEND_IN"
                                     /\ request.operation # "CANCEL"
                                     /\ request.operation # "NONE")
  <1> DEFINE n == request.number
             s == T!Start(a, request.action, n)
             b == T!BeginBlendOut(a, n)
  <1>1. /\ a \in T!TrajectoryAdapters /\ a.number \in Nat /\ a.begun \in Nat
        /\ a.begun <= a.number
    BY DEF TrajectorySound, T!TrajectoryAdapters
  <1> SUFFICES ASSUME n > a.number
               PROVE  /\ TrajectorySound(b) /\ b.begun = a.begun /\ b.clip = a.clip
                      /\ TrajectorySound(s)
                      /\ s.begun = a.begun \/ s.begun > a.begun
                      /\ s.clip = a.clip \/ (/\ a.clip = T!NoClip /\ s.age = 0
                                             /\ s.phase = "BLEND_IN")
    BY <1>1 DEF T!HandleInteractionRequest
  <1>2. n \in Nat /\ n >= a.begun /\ n > a.begun
    BY <1>1
  <1>3. TrajectorySound(b) /\ b.begun = a.begun /\ b.clip = a.clip
    BY <1>2, TrajectoryBlendsOut
  <1>4. s \in T!TrajectoryAdapters
    BY <1>1, TrajectoryLimits DEF T!Start, T!TrajectoryAdapters, T!Phases
  <1>5. CASE T!IsBusy(a)
    <2>1. /\ s.clip = a.clip /\ s.phase = a.phase /\ s.begun = a.begun
          /\ s.number = n /\ s.applied = a.applied
      BY <1>1, <1>5 DEF T!Start, T!TrajectoryAdapters, T!IsBusy, TrajectorySound
    <2> HIDE DEF s
    <2> QED
      BY <1>2, <1>3, <1>4, <2>1 DEF TrajectorySound, T!IsBusy
  <1>6. CASE ~T!IsBusy(a) /\ request.action \notin T!Clips
    <2>1. /\ s.clip = a.clip /\ s.phase = "REJECTED" /\ s.begun = a.begun
          /\ s.number = n /\ s.applied = a.applied
      BY <1>1, <1>6 DEF T!Start, T!TrajectoryAdapters, T!IsBusy
    <2> HIDE DEF s
    <2> QED
      BY <1>2, <1>3, <1>4, <1>6, <2>1 DEF TrajectorySound, T!IsBusy, T!Busy
  <1>7. CASE ~T!IsBusy(a) /\ request.action \in T!Clips
    <2>1. /\ s.clip = request.action /\ s.phase = "BLEND_IN" /\ s.begun = n
          /\ s.number = n /\ s.applied = a.applied /\ s.age = 0
      BY <1>1, <1>7 DEF T!Start, T!TrajectoryAdapters, T!IsBusy
    <2>2. request.action # T!NoClip
      BY <1>7 DEF T!Clips, T!NoClip
    <2>3. n <= n
      BY <1>2
    <2> HIDE DEF s
    <2> QED
      BY <1>2, <1>3, <1>4, <1>7, <2>1, <2>2, <2>3
         DEF TrajectorySound, T!IsBusy, T!Busy
  <1> QED
    BY <1>5, <1>6, <1>7

LEMMA TrajectoryPrepares ==
    ASSUME NEW a, TrajectorySound(a), NEW entry \in 0..BlendIn
    PROVE  LET b == T!PrepareInputs(a, entry)
           IN /\ TrajectorySound(b) /\ b.begun = a.begun
              /\ b.clip = a.clip
  <1> DEFINE b == T!PrepareInputs(a, entry)
  <1>1. a \in T!TrajectoryAdapters
    BY DEF TrajectorySound
  <1>2. /\ b \in T!TrajectoryAdapters /\ b.clip = a.clip /\ b.phase = a.phase
        /\ b.begun = a.begun /\ b.number = a.number /\ b.applied = a.applied
    BY <1>1 DEF T!PrepareInputs, T!TrajectoryAdapters
  <1> HIDE DEF b
  <1> QED
    BY <1>2 DEF b, TrajectorySound, T!IsBusy

LEMMA TrajectoryActs ==
    ASSUME NEW a, TrajectorySound(a)
    PROVE  LET b == T!OnAction(a)
           IN /\ TrajectorySound(b) /\ b.begun = a.begun
              /\ a.clip = T!NoClip => b.clip = T!NoClip
  <1> DEFINE u == T!AfterBlendIn(a)
             v == T!AfterPlaying(u)
             w == T!AfterBlendOut(v)
             c == IF a.clip = T!NoClip THEN a ELSE w
             b == T!OnAction(a)
  <1>1. a \in T!TrajectoryAdapters
    BY DEF TrajectorySound
  <1>2. /\ u \in T!TrajectoryAdapters /\ u.clip = a.clip
        /\ u.phase = a.phase \/ u.phase = "PLAYING"
        /\ u.begun = a.begun /\ u.number = a.number /\ u.applied = a.applied
    BY <1>1 DEF T!AfterBlendIn, T!TrajectoryAdapters, T!Phases
  <1> HIDE DEF u
  <1>3. /\ v \in T!TrajectoryAdapters /\ v.clip = a.clip
        /\ v.phase \in {u.phase, "HOLDING", "BLEND_OUT"}
        /\ v.begun = a.begun /\ v.number = a.number /\ v.applied = a.applied
    BY <1>2, TrajectoryLimits DEF T!AfterPlaying, T!TrajectoryAdapters, T!Phases
  <1> HIDE DEF v
  <1>4. /\ w \in T!TrajectoryAdapters
        /\ \/ w.clip = a.clip /\ w.phase = v.phase
           \/ w.clip = T!NoClip /\ w.phase = "FINISHED"
        /\ w.begun = a.begun /\ w.number = a.number /\ w.applied = a.applied
    BY <1>3 DEF T!AfterBlendOut, T!InteractionWeight,
        T!TrajectoryAdapters, T!Phases
  <1> HIDE DEF w
  <1>5. /\ c \in T!TrajectoryAdapters /\ (c.clip # T!NoClip <=> T!IsBusy(c))
        /\ c.begun = a.begun /\ c.number = a.number
        /\ a.clip = T!NoClip => c.clip = T!NoClip
    BY <1>1, <1>2, <1>3, <1>4 DEF TrajectorySound, T!IsBusy, T!Busy
  <1>6. b = [c EXCEPT !.applied = "now"]
    BY DEF T!OnAction, T!ComposeAction, u, v, w
  <1> HIDE DEF b, c
  <1>7. /\ b \in T!TrajectoryAdapters /\ b.clip = c.clip /\ b.phase = c.phase
        /\ b.begun = c.begun /\ b.number = c.number /\ b.applied = "now"
    BY <1>5, <1>6 DEF T!TrajectoryAdapters
  <1> QED
    BY <1>5, <1>7 DEF b, TrajectorySound, T!IsBusy

LEMMA TrajectoryEnters ==
    ASSUME NEW a
    PROVE  TrajectorySound(T!Reset(a)) /\ T!Reset(a).begun = 0
  BY TrajectoryStarts DEF T!Reset, T!Construct

\* A gesture of the stance adapter is the same but for the measured entry.
LEMMA GestureIsTrajectory ==
    ASSUME NEW a
    PROVE  /\ (S!T!IsBusy(a) <=> T!IsBusy(a))
           /\ S!T!Construct = T!Construct /\ S!T!Reset(a) = T!Construct
           /\ S!T!NoClip = T!NoClip
           /\ S!T!TrajectoryAdapters = T!TrajectoryAdapters
           /\ (S!T!Fresh(a) <=> T!Fresh(a)) /\ (S!T!Moving(a) <=> T!Moving(a))
           /\ \A step : S!T!Advance(a, step) = T!Advance(a, step)
           /\ \A asked : S!T!PreparePolicySwitch(a, asked)
                            = T!PreparePolicySwitch(a, asked)
           /\ \A request : S!T!HandleInteractionRequest(a, request)
                            = T!HandleInteractionRequest(a, request)
           /\ \A entry : S!T!PrepareInputs(a, entry) = a
  BY DEF S!T!IsBusy, T!IsBusy, S!T!Busy, T!Busy, S!T!Construct, T!Construct,
         S!T!Reset, S!T!NoClip, T!NoClip, S!T!TrajectoryAdapters,
         T!TrajectoryAdapters, S!T!Clips, T!Clips, S!T!Phases, T!Phases,
         S!T!AgeLimit, T!AgeLimit, S!T!Fresh, T!Fresh, S!T!Moving, T!Moving,
         S!T!Advance, T!Advance, S!T!PreparePolicySwitch,
         T!PreparePolicySwitch, S!T!BeginBlendOut, T!BeginBlendOut,
         S!T!HandleInteractionRequest, T!HandleInteractionRequest,
         S!T!Start, T!Start, S!T!PrepareInputs

LEMMA GestureActs ==
    ASSUME NEW a, TrajectorySound(a)
    PROVE  LET b == S!T!OnAction(a)
           IN /\ TrajectorySound(b) /\ b.begun = a.begun
              /\ a.clip = T!NoClip => b.clip = T!NoClip
              /\ a.phase = "BLEND_IN" /\ a.age = 0 => b.clip # T!NoClip
  <1> DEFINE u == S!T!AfterBlendIn(a)
             v == S!T!AfterPlaying(u)
             w == S!T!AfterBlendOut(v)
             c == IF a.clip = T!NoClip THEN a ELSE w
             b == S!T!OnAction(a)
  <1>1. a \in T!TrajectoryAdapters
    BY DEF TrajectorySound
  <1>2. /\ u \in T!TrajectoryAdapters /\ u.clip = a.clip
        /\ u.phase = a.phase \/ u.phase = "PLAYING"
        /\ u.age = a.age /\ u.entry = a.entry
        /\ u.begun = a.begun /\ u.number = a.number /\ u.applied = a.applied
    BY <1>1 DEF S!T!AfterBlendIn, T!TrajectoryAdapters, T!Phases
  <1>3. a.age = 0 => u.age < u.entry + Length
    BY <1>1, <1>2, DurationAssumption DEF T!TrajectoryAdapters
  <1> HIDE DEF u
  <1>4. /\ v \in T!TrajectoryAdapters /\ v.clip = a.clip
        /\ v.phase \in {u.phase, "HOLDING", "BLEND_OUT"}
        /\ v.begun = a.begun /\ v.number = a.number /\ v.applied = a.applied
    BY <1>2, TrajectoryLimits DEF S!T!AfterPlaying, T!TrajectoryAdapters, T!Phases
  <1>5. a.phase = "BLEND_IN" /\ a.age = 0 => v.phase # "BLEND_OUT"
    BY <1>2, <1>3 DEF S!T!AfterPlaying
  <1> HIDE DEF v
  <1>6. /\ w \in T!TrajectoryAdapters
        /\ \/ w.clip = a.clip /\ w.phase = v.phase
           \/ /\ w.clip = T!NoClip /\ w.phase = "FINISHED"
              /\ v.phase = "BLEND_OUT"
        /\ w.begun = a.begun /\ w.number = a.number /\ w.applied = a.applied
    BY <1>4 DEF S!T!AfterBlendOut, S!T!InteractionWeight, S!T!NoClip, T!NoClip,
        T!TrajectoryAdapters, T!Phases
  <1> HIDE DEF w
  <1>7. /\ c \in T!TrajectoryAdapters /\ (c.clip # T!NoClip <=> T!IsBusy(c))
        /\ c.begun = a.begun /\ c.number = a.number
        /\ a.clip = T!NoClip => c.clip = T!NoClip
        /\ a.phase = "BLEND_IN" /\ a.age = 0 => c.clip # T!NoClip
    BY <1>1, <1>2, <1>4, <1>5, <1>6 DEF TrajectorySound, T!IsBusy, T!Busy
  <1>8. b = [c EXCEPT !.applied = "now"]
    BY DEF S!T!OnAction, S!T!ComposeAction, S!T!NoClip, T!NoClip, u, v, w
  <1> HIDE DEF b, c
  <1>9. /\ b \in T!TrajectoryAdapters /\ b.clip = c.clip /\ b.phase = c.phase
        /\ b.begun = c.begun /\ b.number = c.number /\ b.applied = "now"
    BY <1>7, <1>8 DEF T!TrajectoryAdapters
  <1> QED
    BY <1>7, <1>9 DEF b, TrajectorySound, T!IsBusy

-----------------------------------------------------------------------------
(***************************************************************************)
(* The stance adapter.                                                     *)
(***************************************************************************)
LEMMA StanceStarts ==
    ASSUME NEW g
    PROVE  LET b == [S!Construct EXCEPT !.gesture = S!T!Reset(g), !.memory = "now"]
           IN StanceSound(b) /\ ~S!Walking(b) /\ b.gesture.begun = 0
  <1> DEFINE b == [S!Construct EXCEPT !.gesture = S!T!Reset(g), !.memory = "now"]
  <1>1. /\ 0 \in Nat /\ 0 \in 0..ReleaseFrames
        /\ 0 \in 0..S!MaxForward /\ 0 \in 0..S!MaxTurn /\ 0 \in 0..3
    BY DurationAssumption DEF S!MaxForward, S!MaxTurn
  <1>2. /\ b.gesture = T!Construct /\ b.mode = 0 /\ b.forward = 0 /\ b.turn = 0
        /\ b.name = "" /\ b.memory = "now"
    BY GestureIsTrajectory DEF S!Construct
  <1>3. TrajectorySound(T!Construct) /\ T!Construct.begun = 0
    BY TrajectoryStarts DEF T!Construct
  <1>4. T!Construct \in S!T!TrajectoryAdapters /\ S!ZeroCommand \in S!Commands
    BY <1>3, GestureIsTrajectory DEF TrajectorySound, S!ZeroCommand, S!Commands
  <1>5. b \in S!StanceAdapters
    BY <1>1, <1>4, GestureIsTrajectory DEF S!Construct, S!StanceAdapters, S!Models
  <1> QED
    BY <1>2, <1>3, <1>5 DEF StanceSound, S!Walking

\* Only the gesture has changed.
LEMMA GestureChanges ==
    ASSUME NEW a, StanceSound(a), NEW g, TrajectorySound(g)
    PROVE  LET b == [a EXCEPT !.gesture = g]
           IN /\ StanceSound(b) /\ b.gesture = g
              /\ b.name = a.name /\ b.mode = a.mode /\ b.waits = a.waits
              /\ b.command = a.command /\ b.number = a.number
  <1> DEFINE b == [a EXCEPT !.gesture = g]
  <1>1. a \in S!StanceAdapters /\ g \in S!T!TrajectoryAdapters
    BY GestureIsTrajectory DEF StanceSound, TrajectorySound
  <1>2. b \in S!StanceAdapters
    BY <1>1 DEF S!StanceAdapters
  <1>3. /\ b.gesture = g /\ b.name = a.name /\ b.mode = a.mode
        /\ b.waits = a.waits /\ b.forward = a.forward /\ b.turn = a.turn
        /\ b.memory = a.memory /\ b.command = a.command /\ b.number = a.number
    BY <1>1 DEF S!StanceAdapters
  <1> QED
    BY <1>2, <1>3 DEF StanceSound

LEMMA StanceAdvances ==
    ASSUME NEW a, StanceSound(a), NEW step \in 1..MaxStep
    PROVE  LET b == S!Advance(a, step)
           IN /\ StanceSound(b) /\ b.gesture.begun = a.gesture.begun
              /\ b.waits = a.waits
              /\ T!IsBusy(b.gesture) <=> T!IsBusy(a.gesture)
              /\ StanceRests(a) => StanceRests(b)
  <1> DEFINE g == T!Advance(a.gesture, step)
  <1>1. TrajectorySound(a.gesture)
    BY DEF StanceSound
  <1>2. /\ TrajectorySound(g) /\ g.begun = a.gesture.begun
        /\ g.clip = a.gesture.clip /\ g.phase = a.gesture.phase
    BY <1>1, TrajectoryAdvances
  <1>3. S!Advance(a, step) = [a EXCEPT !.gesture = g]
    BY GestureIsTrajectory DEF S!Advance
  <1> HIDE DEF g
  <1> QED
    BY <1>2, <1>3, GestureChanges DEF StanceRests, T!IsBusy

LEMMA FilterKeepsRange ==
    ASSUME NEW limit \in Nat, NEW x \in 0..limit, NEW y \in 0..limit
    PROVE  /\ S!Filtered(x, y) \in 0..limit
           /\ x = 0 /\ y = 0 => S!Filtered(x, y) = 0
  BY DEF S!Filtered, S!StepUp, S!StepDown

\* A gesture, and what it leaves of the command, keeps the robot in stance.
LEMMA StanceSelects ==
    ASSUME NEW a, StanceSound(a), NEW command \in S!Commands
    PROVE  LET b == S!SelectExecutor(a, command)
           IN /\ StanceSound(b) /\ b.gesture = a.gesture
              /\ b.command = command
              /\ b.waits => b.name = "stance"
              /\ T!IsBusy(a.gesture) => b.waits
              /\ a.waits /\ command # S!ZeroCommand => b.waits
              /\ StanceRests(a) /\ command = S!ZeroCommand => StanceRests(b)
  <1> DEFINE waits == S!MustWaitForZero(a, command)
             next == [a EXCEPT !.command = command, !.waits = waits]
             b == S!SelectExecutor(a, command)
  <1>1. /\ a \in S!StanceAdapters /\ TrajectorySound(a.gesture)
        /\ a.forward \in 0..4 /\ a.turn \in 0..2 /\ a.mode \in 0..3
        /\ a.mode = 0 => a.forward = 0 /\ a.turn = 0
        /\ a.waits \in BOOLEAN /\ a.memory = "now"
    BY DEF StanceSound, S!StanceAdapters, S!MaxForward, S!MaxTurn
  <1>2. /\ command.forward \in {0, 4} /\ command.turn \in {0, 2}
        /\ command = S!ZeroCommand => command.forward = 0 /\ command.turn = 0
    BY DEF S!Commands, S!MaxForward, S!MaxTurn, S!ZeroCommand
  <1>3. /\ waits \in BOOLEAN
        /\ T!IsBusy(a.gesture) => waits
        /\ a.waits /\ command # S!ZeroCommand => waits
        /\ ~T!IsBusy(a.gesture) /\ (~a.waits \/ command = S!ZeroCommand) => ~waits
    BY <1>1, GestureIsTrajectory DEF S!MustWaitForZero, S!InteractionBusy
  <1> HIDE DEF waits
  <1>4. next \in S!StanceAdapters
    BY <1>1, <1>3 DEF S!StanceAdapters
  <1>5. /\ next.gesture = a.gesture /\ next.command = command
        /\ next.waits = waits /\ next.memory = a.memory /\ next.name = a.name
        /\ next.forward = a.forward /\ next.turn = a.turn /\ next.mode = a.mode
    BY <1>1, <1>3 DEF S!StanceAdapters
  <1>6. b = IF waits THEN S!StandStill(next) ELSE S!Walk(next, command)
    BY <1>3 DEF S!SelectExecutor, waits
  <1> HIDE DEF next, b
  <1>7. CASE waits
    <2>1. b = [next EXCEPT !.forward = 0, !.turn = 0, !.mode = 0, !.name = "stance"]
      BY <1>6, <1>7 DEF S!StandStill
    <2>2. 0 \in 0..S!MaxForward /\ 0 \in 0..S!MaxTurn /\ 0 \in 0..3
      BY DEF S!MaxForward, S!MaxTurn
    <2>3. b \in S!StanceAdapters
      BY <1>4, <1>5, <2>1, <2>2 DEF S!StanceAdapters, S!Models
    <2>4. /\ b.gesture = a.gesture /\ b.command = command /\ b.waits
          /\ b.memory = "now" /\ b.name = "stance" /\ b.mode = 0
          /\ b.forward = 0 /\ b.turn = 0
      BY <1>1, <1>4, <1>5, <1>7, <2>1 DEF S!StanceAdapters
    <2>5. StanceRests(a) /\ command = S!ZeroCommand => ~waits
      BY <1>1, <1>3 DEF StanceRests, TrajectorySound
    <2> QED
      BY <1>1, <1>7, <2>3, <2>4, <2>5 DEF b, StanceSound
  <1>8. CASE ~waits
    <2> DEFINE forward == S!Filtered(next.forward, command.forward)
               turn == S!Filtered(next.turn, command.turn)
               mode == S!NextMode(next.mode, forward, turn)
               name == S!ModelName(next.mode, forward, turn)
    <2>1. b = [next EXCEPT !.forward = forward, !.turn = turn,
                           !.name = name, !.mode = mode]
      BY <1>6, <1>8 DEF S!Walk
    <2>2. /\ forward \in 0..4 /\ turn \in 0..2
          /\ next.forward = 0 /\ command.forward = 0 => forward = 0
          /\ next.turn = 0 /\ command.turn = 0 => turn = 0
      <3>1. /\ 4 \in Nat /\ next.forward \in 0..4 /\ command.forward \in 0..4
            /\ 2 \in Nat /\ next.turn \in 0..2 /\ command.turn \in 0..2
        BY <1>1, <1>2, <1>5
      <3>2. /\ forward \in 0..4
            /\ next.forward = 0 /\ command.forward = 0 => forward = 0
        BY <3>1, FilterKeepsRange
      <3>3. turn \in 0..2 /\ (next.turn = 0 /\ command.turn = 0 => turn = 0)
        BY <3>1, FilterKeepsRange
      <3> QED
        BY <3>2, <3>3
    <2> HIDE DEF forward, turn
    <2>3. /\ mode \in 0..3 /\ (mode = 0 => forward = 0 /\ turn = 0)
          /\ next.mode = 0 /\ forward = 0 /\ turn = 0 => mode = 0
      BY <1>1, <1>4, <1>5, <2>2 DEF S!NextMode, S!Stand, S!First, S!Second
    <2>4. /\ name \in S!Models
          /\ next.mode = 0 => name = "stance"
      <3>1. next.mode \in {0, 1, 2, 3}
        BY <1>1, <1>5
      <3>2. next.mode = 0 => name = "stance"
        BY DEF S!ModelName
      <3>3. next.mode = 1 => name \in {"turn", "motion"}
        BY DEF S!ModelName
      <3>4. next.mode = 2 => name = "motion"
        BY DEF S!ModelName
      <3>5. next.mode = 3 => name = "run"
        BY DEF S!ModelName
      <3> HIDE DEF name
      <3> QED
        BY <3>1, <3>2, <3>3, <3>4, <3>5 DEF S!Models
    <2> HIDE DEF mode, name
    <2>5. b \in S!StanceAdapters
      BY <1>4, <1>5, <2>1, <2>2, <2>3, <2>4
         DEF S!StanceAdapters, S!MaxForward, S!MaxTurn
    <2>6. /\ b.gesture = a.gesture /\ b.command = command /\ ~b.waits
          /\ b.memory = "now" /\ b.name = name /\ b.mode = mode
          /\ b.forward = forward /\ b.turn = turn
      BY <1>1, <1>4, <1>5, <1>8, <2>1 DEF S!StanceAdapters
    <2>7. StanceSound(b)
      BY <1>1, <2>3, <2>5, <2>6 DEF StanceSound
    <2>8. StanceRests(a) /\ command = S!ZeroCommand => StanceRests(b)
      BY <1>1, <1>2, <1>4, <1>5, <2>2, <2>3, <2>4, <2>6 DEF StanceRests
    <2> QED
      BY <1>3, <1>8, <2>6, <2>7, <2>8 DEF b
  <1> QED
    BY <1>3, <1>7, <1>8

\* A gesture begins only under a robot that stands, at its first frame.
LEMMA StanceHandles ==
    ASSUME NEW a, StanceSound(a), NEW request, request.number \in Nat,
           request.operation \in {"NONE", "START", "CANCEL"}
    PROVE  LET b == S!HandleInteractionRequest(a, request)
           IN /\ StanceSound(b) /\ b.name = a.name /\ b.waits = a.waits
              /\ \/ b.gesture.begun = a.gesture.begun
                 \/ b.gesture.begun > a.gesture.begun
              /\ \/ T!IsBusy(b.gesture) <=> T!IsBusy(a.gesture)
                 \/ /\ a.name = "stance" /\ b.gesture.age = 0
                    /\ b.gesture.phase = "BLEND_IN"
  <1> DEFINE n == request.number
             numbered == [a EXCEPT !.number = n]
             g == T!HandleInteractionRequest(a.gesture, request)
             b == [numbered EXCEPT !.gesture = g]
  <1>1. a \in S!StanceAdapters /\ TrajectorySound(a.gesture)
    BY DEF StanceSound
  <1>2. numbered \in S!StanceAdapters
    BY <1>1 DEF S!StanceAdapters
  <1>3. /\ numbered.gesture = a.gesture /\ numbered.name = a.name
        /\ numbered.waits = a.waits /\ numbered.mode = a.mode
        /\ numbered.forward = a.forward /\ numbered.turn = a.turn
        /\ numbered.memory = a.memory
    BY <1>1 DEF S!StanceAdapters
  <1>4. StanceSound(numbered)
    <2> HIDE DEF numbered
    <2> QED
      BY <1>2, <1>3 DEF StanceSound
  <1>5. /\ TrajectorySound(g)
        /\ g.begun = a.gesture.begun \/ g.begun > a.gesture.begun
        /\ \/ T!IsBusy(g) <=> T!IsBusy(a.gesture)
           \/ /\ ~T!IsBusy(a.gesture) /\ g.age = 0 /\ g.phase = "BLEND_IN"
              /\ request.operation = "START"
    BY <1>1, TrajectoryHandles DEF TrajectorySound
  <1>6. b = [a EXCEPT !.number = n, !.gesture = g]
    OBVIOUS
  <1> HIDE DEF numbered, g, b
  <1>7. /\ StanceSound(b) /\ b.gesture = g /\ b.name = a.name
        /\ b.waits = a.waits
    BY <1>3, <1>4, <1>5, GestureChanges DEF b
  <1>8. CASE S!RefusesGesture(a, request)
    BY <1>3, <1>4, <1>8 DEF S!HandleInteractionRequest, numbered
  <1>9. CASE ~S!RefusesGesture(a, request)
    <2>1. S!HandleInteractionRequest(a, request) \in {a, b}
      BY <1>6, <1>9, GestureIsTrajectory DEF S!HandleInteractionRequest, g
    <2>2. request.operation = "START" /\ ~T!IsBusy(a.gesture)
             => a.name = "stance"
      BY <1>9, GestureIsTrajectory DEF S!RefusesGesture, S!InteractionBusy
    <2> QED
      BY <1>5, <1>7, <2>1, <2>2
  <1> QED
    BY <1>8, <1>9

LEMMA StanceIsAsked ==
    ASSUME NEW a, StanceSound(a), NEW asked \in BOOLEAN
    PROVE  LET b == S!PreparePolicySwitch(a, asked)
           IN /\ StanceSound(b) /\ b.gesture.begun = a.gesture.begun
              /\ b.name = a.name /\ b.waits = a.waits
              /\ T!IsBusy(b.gesture) <=> T!IsBusy(a.gesture)
              /\ ~asked => b.gesture = a.gesture
              /\ StanceRests(a) => StanceRests(b)
  <1> DEFINE g == T!PreparePolicySwitch(a.gesture, asked)
  <1>1. TrajectorySound(a.gesture)
    BY DEF StanceSound
  <1>2. /\ TrajectorySound(g) /\ g.begun = a.gesture.begun
        /\ g.clip = a.gesture.clip /\ (~asked => g = a.gesture)
    BY <1>1, TrajectoryIsAsked
  <1>3. S!PreparePolicySwitch(a, asked) = [a EXCEPT !.gesture = g]
    BY GestureIsTrajectory DEF S!PreparePolicySwitch
  <1> HIDE DEF g
  <1> QED
    BY <1>1, <1>2, <1>3, GestureChanges DEF StanceRests, TrajectorySound

LEMMA StancePrepares ==
    ASSUME NEW a, StanceSound(a), NEW entry
    PROVE  LET b == S!PrepareInputs(a, entry)
           IN /\ StanceSound(b) /\ S!Fresh(b) /\ b.gesture = a.gesture
              /\ b.name = a.name /\ b.waits = a.waits /\ b.mode = a.mode
  <1> DEFINE observed == TRUE /\ S!T!InteractionWeight(a.gesture) # "none"
             release == IF observed THEN ReleaseFrames
                        ELSE IF a.release > 0 THEN a.release - 1 ELSE 0
             b == S!PrepareInputs(a, entry)
  <1>1. a \in S!StanceAdapters /\ a.release \in 0..ReleaseFrames
    BY DEF StanceSound, S!StanceAdapters
  <1>2. release \in 0..ReleaseFrames /\ observed \in BOOLEAN
    BY <1>1, DurationAssumption
  <1>3. b = [a EXCEPT !.gesture = a.gesture, !.observed = observed,
                      !.release = release]
    BY GestureIsTrajectory DEF S!PrepareInputs
  <1> HIDE DEF observed, release, b
  <1>4. b \in S!StanceAdapters
    BY <1>1, <1>2, <1>3 DEF S!StanceAdapters
  <1>5. /\ b.gesture = a.gesture /\ b.name = a.name /\ b.waits = a.waits
        /\ b.mode = a.mode /\ b.forward = a.forward /\ b.turn = a.turn
        /\ b.memory = a.memory
    BY <1>1, <1>3 DEF S!StanceAdapters
  <1>6. StanceSound(b)
    BY <1>4, <1>5 DEF StanceSound
  <1> QED
    BY <1>5, <1>6, GestureIsTrajectory
       DEF b, S!Fresh, StanceSound, TrajectorySound, T!Fresh

LEMMA StanceActs ==
    ASSUME NEW a, StanceSound(a)
    PROVE  LET b == S!OnAction(a)
           IN /\ StanceSound(b) /\ b.gesture.begun = a.gesture.begun
              /\ b.name = a.name /\ b.waits = a.waits
              /\ /\ a.gesture.phase = "BLEND_IN" /\ a.gesture.age = 0
                 => T!IsBusy(b.gesture)
              /\ StanceRests(a) => StanceRests(b)
  <1> DEFINE neutral == a.observed \/ a.release > 0
             m == [a EXCEPT !.neutral = neutral]
             g == S!T!OnAction(a.gesture)
             b == S!OnAction(a)
  <1>1. a \in S!StanceAdapters /\ TrajectorySound(a.gesture)
    BY DEF StanceSound
  <1>2. m \in S!StanceAdapters
    BY <1>1 DEF S!StanceAdapters
  <1>3. /\ m.gesture = a.gesture /\ m.name = a.name /\ m.waits = a.waits
        /\ m.mode = a.mode /\ m.forward = a.forward /\ m.turn = a.turn
        /\ m.memory = a.memory
    BY <1>1 DEF S!StanceAdapters
  <1>4. b = [m EXCEPT !.gesture = g]
    BY DEF S!OnAction
  <1>5. /\ TrajectorySound(g) /\ g.begun = a.gesture.begun
        /\ a.gesture.clip = T!NoClip => g.clip = T!NoClip
        /\ /\ a.gesture.phase = "BLEND_IN" /\ a.gesture.age = 0
           => g.clip # T!NoClip
    BY <1>1, GestureActs
  <1> HIDE DEF neutral, m, g, b
  <1>6. StanceSound(m)
    BY <1>2, <1>3 DEF StanceSound
  <1>7. /\ StanceSound(b) /\ b.gesture = g /\ b.name = a.name
        /\ b.waits = a.waits /\ b.mode = a.mode
    BY <1>3, <1>4, <1>5, <1>6, GestureChanges
  <1> QED
    BY <1>5, <1>7 DEF b, StanceRests, TrajectorySound

LEMMA StanceEnters ==
    ASSUME NEW a
    PROVE  StanceSound(S!Reset(a)) /\ ~S!Walking(S!Reset(a))
           /\ S!Reset(a).gesture.begun = 0
  BY StanceStarts DEF S!Reset

LEMMA StanceAtRest ==
    ASSUME NEW a, StanceSound(a)
    PROVE  /\ StanceRests(a) <=> S!ReadyForPolicySwitch(a)
           /\ StanceRests(a) => ~S!Moving(a)
  BY GestureIsTrajectory
     DEF StanceSound, TrajectorySound, StanceRests, S!ReadyForPolicySwitch,
         S!InteractionBusy, S!Moving, S!Walking, T!Moving

-----------------------------------------------------------------------------
(***************************************************************************)
(* The history actor, a gait or a catalogue of motions.                    *)
(***************************************************************************)
LEMMA HistoryStarts ==
    ASSUME NEW latent \in BOOLEAN, latent <=> kind = "latent"
    PROVE  LET a == [H!Construct(latent) EXCEPT !.history = "now"]
           IN HistorySound(a) /\ a.begun = 0
  <1> DEFINE a == [H!Construct(latent) EXCEPT !.history = "now"]
  <1>1. /\ 0 \in Nat /\ 0 \in 0..H!TimeLimit /\ 0 \in 0..H!MaxFiltered /\ 0 <= 0
    BY DurationAssumption DEF H!TimeLimit, H!MaxFiltered
  <1>2. a \in H!HistoryAdapters
    BY <1>1 DEF H!Construct, H!HistoryAdapters, H!Phases
  <1>3. /\ a.latent = latent /\ a.stationary /\ a.filtered = 0 /\ a.begun = 0
        /\ a.number = 0 /\ a.history = "now" /\ a.anchor = "none"
    BY DEF H!Construct
  <1> HIDE DEF a
  <1> QED
    BY <1>1, <1>2, <1>3 DEF a, HistorySound

LEMMA HistoryEnters ==
    ASSUME NEW a, HistorySound(a)
    PROVE  LET b == H!Reset(H!Leave(a)) IN HistorySound(b) /\ b.begun = 0
  <1>1. H!Leave(a).latent = a.latent /\ a.latent \in BOOLEAN
    BY DEF H!Leave, HistorySound, H!HistoryAdapters
  <1> QED
    BY <1>1, HistoryStarts DEF H!Reset, HistorySound

LEMMA HistorySelects ==
    ASSUME NEW a, HistorySound(a), NEW command
    PROVE  LET b == H!SelectExecutor(a, command)
           IN /\ HistorySound(b) /\ b.begun = a.begun
              /\ HistoryRests(a) /\ command = "zero" => HistoryRests(b)
  <1> DEFINE b == H!SelectExecutor(a, command)
             filtered == IF command = "zero"
                         THEN IF a.filtered > 0 THEN a.filtered - 1 ELSE 0
                         ELSE H!MaxFiltered
  <1>1. a \in H!HistoryAdapters /\ a.filtered \in 0..H!MaxFiltered
    BY DEF HistorySound, H!HistoryAdapters
  <1>2. CASE ~a.latent
    <2>1. /\ filtered \in 0..H!MaxFiltered
          /\ command = "zero" /\ a.filtered = 0 => filtered = 0
      BY <1>1 DEF H!MaxFiltered
    <2>2. b = [a EXCEPT !.filtered = filtered, !.stationary = (filtered = 0)]
      BY <1>2 DEF H!SelectExecutor, H!Stand
    <2> HIDE DEF filtered, b
    <2>3. b \in H!HistoryAdapters
      BY <1>1, <2>1, <2>2 DEF H!HistoryAdapters
    <2>4. /\ b.latent = a.latent /\ b.stationary = (filtered = 0)
          /\ b.filtered = filtered /\ b.begun = a.begun /\ b.number = a.number
          /\ b.history = a.history /\ b.anchor = a.anchor
      BY <1>1, <2>2 DEF H!HistoryAdapters
    <2> QED
      BY <1>2, <2>1, <2>3, <2>4
         DEF b, HistorySound, HistoryRests, H!ReadyForPolicySwitch
  <1>3. CASE a.latent /\ a.switching
    <2>1. 0 \in 0..H!TimeLimit
      BY DurationAssumption DEF H!TimeLimit
    <2>2. b \in H!HistoryAdapters
      BY <1>1, <1>3, <2>1
         DEF H!SelectExecutor, H!SelectPending, H!HistoryAdapters, H!Phases
    <2>3. /\ b.latent = a.latent /\ b.stationary = a.stationary
          /\ b.filtered = a.filtered /\ b.begun = a.begun
          /\ b.number = a.number /\ b.history = a.history /\ b.anchor = "none"
      BY <1>1, <1>3 DEF H!SelectExecutor, H!SelectPending, H!HistoryAdapters
    <2> HIDE DEF b
    <2> QED
      BY <1>3, <2>2, <2>3
         DEF b, HistorySound, HistoryRests, H!ReadyForPolicySwitch
  <1>4. CASE a.latent /\ ~a.switching
    BY <1>4 DEF H!SelectExecutor
  <1> QED
    BY <1>2, <1>3, <1>4

\* What a request or a handoff changes.
LEMMA HistoryTurns ==
    ASSUME NEW a, HistorySound(a), NEW n \in Nat, n >= a.number,
           NEW b, b \in H!HistoryAdapters, b.latent = a.latent,
           b.stationary = a.stationary, b.filtered = a.filtered,
           b.number = n, b.begun \in {a.begun, n},
           b.history = a.history, b.anchor = a.anchor
    PROVE  HistorySound(b)
  BY DEF HistorySound, H!HistoryAdapters

LEMMA HistoryIsAsked ==
    ASSUME NEW a, HistorySound(a), NEW asked \in BOOLEAN
    PROVE  LET b == H!PreparePolicySwitch(a, asked)
           IN /\ HistorySound(b) /\ b.begun = a.begun
              /\ HistoryRests(a) => HistoryRests(b)
  <1> DEFINE b == H!ReturnToStandby(a)
  <1>1. a \in H!HistoryAdapters /\ a.number \in Nat /\ a.number >= a.number
    BY DEF HistorySound, H!HistoryAdapters
  <1>2. b \in H!HistoryAdapters
    BY <1>1 DEF H!ReturnToStandby, H!HistoryAdapters
  <1>3. /\ b.latent = a.latent /\ b.stationary = a.stationary
        /\ b.filtered = a.filtered /\ b.number = a.number /\ b.begun = a.begun
        /\ b.history = a.history /\ b.anchor = a.anchor
    BY <1>1 DEF H!ReturnToStandby, H!HistoryAdapters
  <1> HIDE DEF b
  <1>4. HistorySound(b)
    BY <1>1, <1>2, <1>3, HistoryTurns
  <1> QED
    BY <1>3, <1>4 DEF b, H!PreparePolicySwitch, HistoryRests, H!ReadyForPolicySwitch

LEMMA HistoryHandles ==
    ASSUME NEW a, HistorySound(a), NEW request, request.number \in Nat
    PROVE  LET b == H!HandleInteractionRequest(a, request)
           IN HistorySound(b) /\ (b.begun = a.begun \/ b.begun > a.begun)
  <1> DEFINE n == request.number
             m == [a EXCEPT !.number = n]
             c == H!Cancel(m)
             s == H!Start(m, request)
  <1>1. /\ a \in H!HistoryAdapters /\ a.number \in Nat /\ a.begun \in Nat
        /\ a.begun <= a.number
    BY DEF HistorySound, H!HistoryAdapters
  <1> SUFFICES ASSUME n > a.number
               PROVE  /\ HistorySound(c) /\ c.begun = a.begun
                      /\ HistorySound(s)
                      /\ s.begun = a.begun \/ s.begun > a.begun
    BY <1>1 DEF H!HandleInteractionRequest
  <1>2. n >= a.number /\ n > a.begun
    BY <1>1
  <1>3. /\ m \in H!HistoryAdapters /\ m.latent = a.latent
        /\ m.stationary = a.stationary /\ m.filtered = a.filtered
        /\ m.number = n /\ m.begun = a.begun
        /\ m.history = a.history /\ m.anchor = a.anchor
    BY <1>1 DEF H!HistoryAdapters
  <1> HIDE DEF m
  <1>4. c \in H!HistoryAdapters
    BY <1>3 DEF H!Cancel, H!ReturnToStandby, H!HistoryAdapters, H!Phases
  <1>5. /\ c.latent = m.latent /\ c.stationary = m.stationary
        /\ c.filtered = m.filtered /\ c.number = m.number
        /\ c.begun = m.begun /\ c.history = m.history /\ c.anchor = m.anchor
    BY <1>3 DEF H!Cancel, H!ReturnToStandby, H!HistoryAdapters
  <1>6. s \in H!HistoryAdapters
    BY <1>3 DEF H!Start, H!HistoryAdapters, H!Phases
  <1>7. /\ s.latent = m.latent /\ s.stationary = m.stationary
        /\ s.filtered = m.filtered /\ s.number = m.number
        /\ s.begun \in {m.begun, n}
        /\ s.history = m.history /\ s.anchor = m.anchor
    BY <1>3 DEF H!Start, H!HistoryAdapters
  <1> HIDE DEF c, s
  <1>8. HistorySound(c)
    BY <1>2, <1>3, <1>4, <1>5, HistoryTurns
  <1>9. HistorySound(s)
    BY <1>2, <1>3, <1>6, <1>7, HistoryTurns
  <1> QED
    BY <1>2, <1>3, <1>5, <1>7, <1>8, <1>9

LEMMA HistorySamples ==
    ASSUME NEW a, HistorySound(a)
    PROVE  LET b == H!PrepareInputs(a)
           IN /\ HistorySound(b) /\ H!Fresh(b) /\ b.begun = a.begun
              /\ HistoryRests(a) => HistoryRests(b)
  <1> DEFINE p == H!Play(a)
             time == IF p.time < H!TimeLimit THEN p.time + 1 ELSE p.time
             b == H!PrepareInputs(a)
  <1>1. a \in H!HistoryAdapters
    BY DEF HistorySound
  <1>2. CASE ~a.latent
    BY <1>2 DEF H!PrepareInputs, HistorySound, H!Fresh
  <1>3. CASE a.latent
    <2>1. p \in H!HistoryAdapters
      BY <1>1 DEF H!Play, H!ReturnToStandby, H!HistoryAdapters, H!Phases
    <2>2. /\ p.latent = a.latent /\ p.stationary = a.stationary
          /\ p.filtered = a.filtered /\ p.number = a.number
          /\ p.begun = a.begun /\ p.history = a.history
          /\ p.current = a.current
      BY <1>1 DEF H!Play, H!ReturnToStandby, H!HistoryAdapters
    <2>3. a.current = H!Standby /\ a.phase # "BLEND_OUT" => p = a
      BY DEF H!Play
    <2> HIDE DEF p
    <2>4. time \in 0..H!TimeLimit
      BY <2>1, DurationAssumption DEF H!HistoryAdapters, H!TimeLimit
    <2>5. b = [p EXCEPT !.time = time, !.anchor = "now"]
      BY <1>3 DEF H!PrepareInputs, p
    <2> HIDE DEF time, b
    <2>6. b \in H!HistoryAdapters
      BY <2>1, <2>4, <2>5 DEF H!HistoryAdapters
    <2>7. /\ b.latent = p.latent /\ b.stationary = p.stationary
          /\ b.filtered = p.filtered /\ b.number = p.number
          /\ b.begun = p.begun /\ b.history = p.history /\ b.anchor = "now"
          /\ b.current = p.current /\ b.phase = p.phase
          /\ b.switching = p.switching
      BY <2>1, <2>5 DEF H!HistoryAdapters
    <2>8. HistorySound(b)
      BY <2>2, <2>6, <2>7 DEF HistorySound
    <2> QED
      BY <1>3, <2>2, <2>3, <2>7, <2>8
         DEF b, HistorySound, H!Fresh, HistoryRests, H!ReadyForPolicySwitch
  <1> QED
    BY <1>2, <1>3

LEMMA HistoryAtRest ==
    ASSUME NEW a, HistoryRests(a)
    PROVE  ~H!Moving(a)
  BY DEF HistoryRests, H!ReadyForPolicySwitch, H!Moving

-----------------------------------------------------------------------------
(***************************************************************************)
(* One inference: the calls of StateRL::InferStep put together.            *)
(***************************************************************************)

\* The number of the request that began the last motion.
BegunIn(a) ==
    CASE kind \in {"sonic", "trajectory", "latent"} -> a.begun
      [] kind = "stance" -> a.gesture.begun
      [] OTHER -> 0

\* From adapter a the inputs are prepared by p, and the action is taken by q.
Answers(a, p, q, zero) ==
    /\ Sound(p) /\ Sound(q) /\ Fresh(p)
    /\ \/ BegunIn(p) = BegunIn(a)
       \/ BegunIn(p) > BegunIn(a) /\ ~wanted
    /\ BegunIn(q) = BegunIn(p)
    /\ wanted /\ zero => /\ Rests(a) => Rests(p) /\ Rests(q)
                         /\ ReadyForPolicySwitch(q) => Rests(q)

LEMMA KindsAreKnown ==
    Kinds \subseteq
        References \cup {"sonic", "trajectory", "stance", "latent", "gait"}
  <1> SUFFICES ASSUME NEW c \in Configs
               PROVE  KindOf(LoadConfig(c)) \in References
                        \cup {"sonic", "trajectory", "stance", "latent", "gait"}
    BY DEF Kinds
  <1> DEFINE d == LoadConfig(c)
  <1> HIDE DEF d
  <1>1. KindOf(d) \in {"fixed", "loop", "once", "manual", "manual_loop", "sonic",
                       "trajectory", "stance", "latent", "gait"}
    BY DEF KindOf
  <1> QED
    BY <1>1 DEF d, References, R!Modes

LEMMA RequestsAreNumbered ==
    ASSUME NEW request \in Requests
    PROVE  /\ request.number \in Nat
           /\ request.operation \in {"NONE", "START", "CANCEL"}
  <1>1. 1..MaxNumber \subseteq Nat /\ 0 \in Nat
    BY BoundAssumption
  <1>2. CASE request = NoRequest
    BY <1>1, <1>2 DEF NoRequest
  <1>3. CASE request # NoRequest
    BY <1>1, <1>3 DEF Requests
  <1> QED
    BY <1>2, <1>3

LEMMA ReferenceInfers ==
    ASSUME kind \in References, ReferenceSound(adapter), wanted \in BOOLEAN,
           NEW command, NEW start, NEW request, NEW step \in 1..MaxStep, NEW entry
    PROVE  LET p == PrepareInputs(Requested(command, start, request, step), entry)
           IN Answers(adapter, p, OnAction(p), command = S!ZeroCommand)
  <1> DEFINE a == R!Advance(adapter, step)
             b == IF start /\ ~wanted THEN R!StartPlayback(a) ELSE a
             c == R!PreparePolicySwitch(b, wanted)
             p == R!PrepareInputs(c)
  <1>k. /\ kind \notin {"sonic", "trajectory", "stance", "latent", "gait"}
        /\ \A x : /\ Sound(x) <=> ReferenceSound(x)
                  /\ Rests(x) <=> ReferenceRests(x)
                  /\ Fresh(x) <=> R!Fresh(x)
                  /\ ReadyForPolicySwitch(x) <=> R!ReadyForPolicySwitch(x)
                  /\ OnAction(x) = x /\ BegunIn(x) = 0
    BY DEF References, R!Modes, Sound, Rests, Fresh, ReadyForPolicySwitch,
           OnAction, BegunIn
  <1>p. PrepareInputs(Requested(command, start, request, step), entry) = p
    BY <1>k DEF PrepareInputs, Requested, Advance, SelectExecutor, StartPlayback,
                HandleInteractionRequest, PreparePolicySwitch
  <1>1. ReferenceSound(a) /\ (ReferenceRests(adapter) => ReferenceRests(a))
    BY ReferenceAdvances
  <1> HIDE DEF a
  <1>2. ReferenceSound(b) /\ (wanted => b = a)
    BY <1>1, ReferencePlays
  <1> HIDE DEF b
  <1>3. /\ ReferenceSound(c)
        /\ wanted /\ c.mode # "fixed" => c.requested
        /\ wanted /\ ReferenceRests(b) => ReferenceRests(c)
    BY <1>2, ReferenceIsAsked
  <1> HIDE DEF c
  <1>4. /\ ReferenceSound(p) /\ R!Fresh(p)
        /\ ReferenceRests(c) => ReferenceRests(p)
        /\ c.mode = "fixed" \/ c.requested =>
              (R!ReadyForPolicySwitch(p) => ReferenceRests(p))
    BY <1>3, ReferenceSamples
  <1> HIDE DEF p
  <1> QED
    BY <1>k, <1>p, <1>1, <1>2, <1>3, <1>4 DEF Answers

LEMMA SonicInfers ==
    ASSUME kind = "sonic", SonicSound(adapter), wanted \in BOOLEAN,
           NEW command, NEW start, NEW request \in Requests,
           NEW step \in 1..MaxStep, NEW entry
    PROVE  LET p == PrepareInputs(Requested(command, start, request, step), entry)
           IN Answers(adapter, p, OnAction(p), command = S!ZeroCommand)
  <1> DEFINE a == C!Advance(adapter, step)
             b == IF wanted THEN a ELSE C!HandleInteractionRequest(a, request)
             c == C!PreparePolicySwitch(b, wanted)
             p == C!PrepareInputs(c)
  <1>k. /\ kind \notin References
        /\ \A x : /\ Sound(x) <=> SonicSound(x)
                  /\ Rests(x) <=> SonicRests(x)
                  /\ Fresh(x) <=> C!Fresh(x)
                  /\ ReadyForPolicySwitch(x) <=> C!ReadyForPolicySwitch(x)
                  /\ OnAction(x) = x /\ BegunIn(x) = x.begun
    BY DEF References, R!Modes, Sound, Rests, Fresh, ReadyForPolicySwitch,
           OnAction, BegunIn
  <1>p. PrepareInputs(Requested(command, start, request, step), entry) = p
    BY <1>k DEF PrepareInputs, Requested, Advance, SelectExecutor, StartPlayback,
                HandleInteractionRequest, PreparePolicySwitch
  <1>1. /\ SonicSound(a) /\ a.begun = adapter.begun
        /\ SonicRests(adapter) => SonicRests(a)
    BY SonicAdvances
  <1> HIDE DEF a
  <1>2. /\ SonicSound(b) /\ (wanted => b = a)
        /\ b.begun = a.begun \/ b.begun > a.begun
    BY <1>1, SonicHandles, RequestsAreNumbered
  <1> HIDE DEF b
  <1>3. /\ SonicSound(c) /\ c.begun = b.begun
        /\ wanted => c.canceling \/ (~c.transition /\ ~c.playing)
        /\ SonicRests(b) => SonicRests(c)
    BY <1>2, SonicIsAsked
  <1> HIDE DEF c
  <1>4. /\ SonicSound(p) /\ C!Fresh(p) /\ p.begun = c.begun
        /\ SonicRests(c) => SonicRests(p)
        /\ (c.canceling \/ (~c.transition /\ ~c.playing)) =>
              (C!ReadyForPolicySwitch(p) => SonicRests(p))
    BY <1>3, SonicSamples
  <1> HIDE DEF p
  <1>5. p.begun = adapter.begun \/ (p.begun > adapter.begun /\ ~wanted)
    BY <1>1, <1>2, <1>3, <1>4
  <1> QED
    BY <1>k, <1>p, <1>1, <1>2, <1>3, <1>4, <1>5 DEF Answers

LEMMA TrajectoryInfers ==
    ASSUME kind = "trajectory", TrajectorySound(adapter), wanted \in BOOLEAN,
           NEW command, NEW start, NEW request \in Requests,
           NEW step \in 1..MaxStep, NEW entry \in Entries
    PROVE  LET p == PrepareInputs(Requested(command, start, request, step), entry)
           IN Answers(adapter, p, OnAction(p), command = S!ZeroCommand)
  <1> DEFINE a == T!Advance(adapter, step)
             b == IF wanted THEN a ELSE T!HandleInteractionRequest(a, request)
             c == T!PreparePolicySwitch(b, wanted)
             p == T!PrepareInputs(c, entry)
             q == T!OnAction(p)
  <1>k. /\ kind \notin References /\ entry \in 0..BlendIn
        /\ \A x : /\ Sound(x) <=> TrajectorySound(x)
                  /\ Rests(x) <=> x.clip = T!NoClip
                  /\ Fresh(x) <=> T!Fresh(x)
                  /\ ReadyForPolicySwitch(x) <=> x.clip = T!NoClip
                  /\ OnAction(x) = T!OnAction(x) /\ BegunIn(x) = x.begun
    BY DEF References, R!Modes, Sound, Rests, Fresh, ReadyForPolicySwitch,
           OnAction, BegunIn, Entries, T!ReadyForPolicySwitch
  <1>p. PrepareInputs(Requested(command, start, request, step), entry) = p
    BY <1>k DEF PrepareInputs, Requested, Advance, SelectExecutor, StartPlayback,
                HandleInteractionRequest, PreparePolicySwitch
  <1>1. TrajectorySound(a) /\ a.begun = adapter.begun /\ a.clip = adapter.clip
    BY TrajectoryAdvances
  <1> HIDE DEF a
  <1>2. /\ TrajectorySound(b) /\ (wanted => b = a)
        /\ b.begun = a.begun \/ b.begun > a.begun
    BY <1>1, TrajectoryHandles, RequestsAreNumbered
  <1> HIDE DEF b
  <1>3. TrajectorySound(c) /\ c.begun = b.begun /\ c.clip = b.clip
    BY <1>2, TrajectoryIsAsked
  <1> HIDE DEF c
  <1>4. TrajectorySound(p) /\ p.begun = c.begun /\ p.clip = c.clip
    BY <1>k, <1>3, TrajectoryPrepares
  <1> HIDE DEF p
  <1>5. /\ TrajectorySound(q) /\ q.begun = p.begun
        /\ p.clip = T!NoClip => q.clip = T!NoClip
    BY <1>4, TrajectoryActs
  <1>6. T!Fresh(p)
    BY <1>4 DEF TrajectorySound, T!Fresh
  <1>7. OnAction(p) = q
    BY <1>k
  <1> HIDE DEF q
  <1>8. p.begun = adapter.begun \/ (p.begun > adapter.begun /\ ~wanted)
    BY <1>1, <1>2, <1>3, <1>4
  <1> QED
    BY <1>k, <1>p, <1>1, <1>2, <1>3, <1>4, <1>5, <1>6, <1>7, <1>8 DEF Answers

\* The legs stand before, during and after a gesture, until a zero command.
LEMMA StanceInfers ==
    ASSUME kind = "stance", StanceSound(adapter), wanted \in BOOLEAN,
           NEW command \in S!Commands, NEW start, NEW request \in Requests,
           NEW step \in 1..MaxStep, NEW entry
    PROVE  LET p == PrepareInputs(Requested(command, start, request, step), entry)
               zero == command = S!ZeroCommand
           IN /\ Answers(adapter, p, OnAction(p), zero)
              /\ Gesturing(p) => Stands(p) /\ Stands(OnAction(p))
              /\ Gesturing(adapter) \/ (Stands(adapter) /\ ~zero) =>
                    Stands(p) /\ Stands(OnAction(p))
  <1> DEFINE a == S!Advance(adapter, step)
             s == S!SelectExecutor(a, command)
             b == IF wanted THEN s ELSE S!HandleInteractionRequest(s, request)
             c == S!PreparePolicySwitch(b, wanted)
             p == S!PrepareInputs(c, entry)
             q == S!OnAction(p)
  <1>k. /\ kind \notin References
        /\ \A x : /\ Sound(x) <=> StanceSound(x)
                  /\ Rests(x) <=> StanceRests(x)
                  /\ Fresh(x) <=> S!Fresh(x)
                  /\ ReadyForPolicySwitch(x) <=> S!ReadyForPolicySwitch(x)
                  /\ OnAction(x) = S!OnAction(x)
                  /\ BegunIn(x) = x.gesture.begun
                  /\ Gesturing(x) <=> T!IsBusy(x.gesture)
                  /\ Stands(x) <=> /\ x.name \in {"", "stance"}
                                   /\ x.waits \/ T!IsBusy(x.gesture)
    BY GestureIsTrajectory
       DEF References, R!Modes, Sound, Rests, Fresh, ReadyForPolicySwitch,
           OnAction, BegunIn, Gesturing, Stands, S!Walking, S!InteractionBusy
  <1>p. PrepareInputs(Requested(command, start, request, step), entry) = p
    BY <1>k DEF PrepareInputs, Requested, Advance, SelectExecutor, StartPlayback,
                HandleInteractionRequest, PreparePolicySwitch
  <1>1. /\ StanceSound(a) /\ a.gesture.begun = adapter.gesture.begun
        /\ a.waits = adapter.waits
        /\ T!IsBusy(a.gesture) <=> T!IsBusy(adapter.gesture)
        /\ StanceRests(adapter) => StanceRests(a)
    BY StanceAdvances
  <1> HIDE DEF a
  <1>2. /\ StanceSound(s) /\ s.gesture = a.gesture
        /\ s.waits => s.name = "stance"
        /\ T!IsBusy(a.gesture) => s.waits
        /\ a.waits /\ command # S!ZeroCommand => s.waits
        /\ StanceRests(a) /\ command = S!ZeroCommand => StanceRests(s)
    BY <1>1, StanceSelects
  <1> HIDE DEF s
  <1>3. /\ StanceSound(b) /\ b.name = s.name /\ b.waits = s.waits
        /\ wanted => b = s
        /\ b.gesture.begun = s.gesture.begun \/ b.gesture.begun > s.gesture.begun
        /\ \/ T!IsBusy(b.gesture) <=> T!IsBusy(s.gesture)
           \/ /\ ~wanted /\ s.name = "stance" /\ b.gesture.age = 0
              /\ b.gesture.phase = "BLEND_IN"
    <2>1. CASE wanted
      BY <1>2, <2>1
    <2>2. CASE ~wanted
      BY <1>2, <2>2, StanceHandles, RequestsAreNumbered
    <2> QED
      BY <2>1, <2>2
  <1> HIDE DEF b
  <1>4. /\ StanceSound(c) /\ c.gesture.begun = b.gesture.begun
        /\ c.name = b.name /\ c.waits = b.waits
        /\ T!IsBusy(c.gesture) <=> T!IsBusy(b.gesture)
        /\ ~wanted => c.gesture = b.gesture
        /\ StanceRests(b) => StanceRests(c)
    BY <1>3, StanceIsAsked
  <1> HIDE DEF c
  <1>5. /\ StanceSound(p) /\ S!Fresh(p) /\ p.gesture = c.gesture
        /\ p.name = c.name /\ p.waits = c.waits /\ p.mode = c.mode
    BY <1>4, StancePrepares
  <1>6. StanceRests(c) => StanceRests(p)
    BY <1>5 DEF StanceRests
  <1> HIDE DEF p
  <1>7. /\ StanceSound(q) /\ q.gesture.begun = p.gesture.begun
        /\ q.name = p.name /\ q.waits = p.waits
        /\ p.gesture.phase = "BLEND_IN" /\ p.gesture.age = 0
              => T!IsBusy(q.gesture)
        /\ StanceRests(p) => StanceRests(q)
    BY <1>5, StanceActs
  <1>8. OnAction(p) = q
    BY <1>k
  <1> HIDE DEF q
  <1>9. StanceRests(q) <=> S!ReadyForPolicySwitch(q)
    BY <1>7, StanceAtRest
  <1>10. \/ p.gesture.begun = adapter.gesture.begun
         \/ p.gesture.begun > adapter.gesture.begun /\ ~wanted
    BY <1>1, <1>2, <1>3, <1>4, <1>5
  <1>11. Answers(adapter, p, q, command = S!ZeroCommand)
    BY <1>k, <1>1, <1>2, <1>3, <1>4, <1>5, <1>6, <1>7, <1>9, <1>10 DEF Answers
  <1>12. s.waits => Stands(p) /\ Stands(q)
    BY <1>k, <1>2, <1>3, <1>4, <1>5, <1>7
  <1>13. Gesturing(p) => Stands(p) /\ Stands(q)
    <2>1. CASE T!IsBusy(b.gesture) <=> T!IsBusy(s.gesture)
      BY <1>k, <1>2, <1>4, <1>5, <1>12, <2>1
    <2>2. CASE /\ ~wanted /\ s.name = "stance" /\ b.gesture.age = 0
               /\ b.gesture.phase = "BLEND_IN"
      BY <1>k, <1>3, <1>4, <1>5, <1>7, <2>2
    <2> QED
      BY <1>3, <2>1, <2>2
  <1>14. Gesturing(adapter) \/ (Stands(adapter) /\ command # S!ZeroCommand)
            => s.waits
    BY <1>k, <1>1, <1>2
  <1> QED
    BY <1>p, <1>8, <1>11, <1>12, <1>13, <1>14

LEMMA HistoryInfers ==
    ASSUME kind \in {"latent", "gait"}, HistorySound(adapter), wanted \in BOOLEAN,
           NEW command, NEW start, NEW request \in Requests,
           NEW step \in 1..MaxStep, NEW entry
    PROVE  LET p == PrepareInputs(Requested(command, start, request, step), entry)
           IN Answers(adapter, p, OnAction(p), command = S!ZeroCommand)
  <1> DEFINE moved == IF command = S!ZeroCommand THEN "zero" ELSE "move"
             s == H!SelectExecutor(adapter, moved)
             b == IF wanted THEN s ELSE H!HandleInteractionRequest(s, request)
             c == H!PreparePolicySwitch(b, wanted)
             p == H!PrepareInputs(c)
  <1>k. /\ kind \notin References
        /\ kind \notin {"sonic", "trajectory", "stance"}
        /\ \A x : /\ Sound(x) <=> HistorySound(x)
                  /\ Rests(x) <=> HistoryRests(x)
                  /\ Fresh(x) <=> H!Fresh(x)
                  /\ ReadyForPolicySwitch(x) <=> HistoryRests(x)
                  /\ OnAction(x) = x
                  /\ BegunIn(x) = (IF kind = "latent" THEN x.begun ELSE 0)
    BY DEF References, R!Modes, Sound, Rests, Fresh, ReadyForPolicySwitch,
           OnAction, BegunIn, HistoryRests
  <1>p. PrepareInputs(Requested(command, start, request, step), entry) = p
    BY <1>k DEF PrepareInputs, Requested, Advance, SelectExecutor, StartPlayback,
                HandleInteractionRequest, PreparePolicySwitch
  <1>0. command = S!ZeroCommand => moved = "zero"
    OBVIOUS
  <1> HIDE DEF moved
  <1>1. /\ HistorySound(s) /\ s.begun = adapter.begun
        /\ HistoryRests(adapter) /\ moved = "zero" => HistoryRests(s)
    BY HistorySelects
  <1> HIDE DEF s
  <1>2. /\ HistorySound(b) /\ (wanted => b = s)
        /\ b.begun = s.begun \/ b.begun > s.begun
    BY <1>1, HistoryHandles, RequestsAreNumbered
  <1> HIDE DEF b
  <1>3. /\ HistorySound(c) /\ c.begun = b.begun
        /\ HistoryRests(b) => HistoryRests(c)
    BY <1>2, HistoryIsAsked
  <1> HIDE DEF c
  <1>4. /\ HistorySound(p) /\ H!Fresh(p) /\ p.begun = c.begun
        /\ HistoryRests(c) => HistoryRests(p)
    BY <1>3, HistorySamples
  <1> HIDE DEF p
  <1>5. p.begun = adapter.begun \/ (p.begun > adapter.begun /\ ~wanted)
    BY <1>1, <1>2, <1>3, <1>4
  <1> QED
    BY <1>k, <1>p, <1>0, <1>1, <1>2, <1>3, <1>4, <1>5 DEF Answers

LEMMA AdapterAtRest ==
    ASSUME kind \in Kinds, NEW a, Sound(a), Rests(a)
    PROVE  ReadyForPolicySwitch(a) /\ ~Moving(a)
  <1> USE DEF References, R!Modes
  <1>1. CASE kind \in References
    BY <1>1, ReferenceAtRest DEF Sound, Rests, ReadyForPolicySwitch, Moving
  <1>2. CASE kind = "sonic"
    BY <1>2, SonicAtRest
       DEF Sound, Rests, ReadyForPolicySwitch, Moving
  <1>3. CASE kind = "trajectory"
    BY <1>3 DEF Sound, Rests, ReadyForPolicySwitch, Moving,
                T!ReadyForPolicySwitch, T!Moving
  <1>4. CASE kind = "stance"
    BY <1>4, StanceAtRest
       DEF Sound, Rests, ReadyForPolicySwitch, Moving
  <1>5. CASE kind \in {"latent", "gait"}
    BY <1>5, HistoryAtRest
       DEF Sound, Rests, ReadyForPolicySwitch, Moving,
           HistoryRests
  <1> QED
    BY <1>1, <1>2, <1>3, <1>4, <1>5, KindsAreKnown

LEMMA AdapterStarts ==
    ASSUME kind \in Kinds
    PROVE  LET a == Reset(Construct(kind)) IN Sound(a) /\ BegunIn(a) = 0
  <1> USE DEF References, R!Modes
  <1>1. CASE kind \in References
    BY <1>1, ReferenceStarts
       DEF Sound, Reset, Construct, BegunIn
  <1>2. CASE kind = "sonic"
    <2>1. C!Reset(C!Construct).begun = 0
      BY DEF C!Reset, C!Construct
    <2> QED
      BY <1>2, <2>1, SonicStarts
         DEF Sound, Reset, Construct, BegunIn
  <1>3. CASE kind = "trajectory"
    BY <1>3, TrajectoryEnters
       DEF Sound, Reset, Construct, BegunIn
  <1>4. CASE kind = "stance"
    BY <1>4, StanceEnters
       DEF Sound, Reset, Construct, BegunIn
  <1>5. CASE kind \in {"latent", "gait"}
    <2> DEFINE latent == kind = "latent"
    <2>1. latent \in BOOLEAN /\ (latent <=> kind = "latent")
      OBVIOUS
    <2>2. H!Construct(latent).latent = latent
      BY DEF H!Construct
    <2>3. H!Reset(H!Construct(latent))
            = [H!Construct(latent) EXCEPT !.history = "now"]
      BY <2>2 DEF H!Reset
    <2>4. /\ HistorySound(H!Reset(H!Construct(latent)))
          /\ H!Reset(H!Construct(latent)).begun = 0
      BY <2>1, <2>3, HistoryStarts
    <2> QED
      BY <1>5, <2>4 DEF Sound, Reset, Construct, BegunIn
  <1> QED
    BY <1>1, <1>2, <1>3, <1>4, <1>5, KindsAreKnown

LEMMA AdapterEnters ==
    ASSUME kind \in Kinds, NEW a, Sound(a)
    PROVE  LET b == Reset(Leave(a)) IN Sound(b) /\ BegunIn(b) = 0
  <1> USE DEF References, R!Modes
  <1>1. CASE kind \in References
    BY <1>1, ReferenceEnters
       DEF Sound, Reset, Leave, BegunIn
  <1>2. CASE kind = "sonic"
    <2>1. C!Reset(C!Leave(a)).begun = 0
      BY DEF C!Reset, C!Construct
    <2> QED
      BY <1>2, <2>1, SonicEnters
         DEF Sound, Reset, Leave, BegunIn
  <1>3. CASE kind = "trajectory"
    BY <1>3, TrajectoryEnters
       DEF Sound, Reset, Leave, BegunIn
  <1>4. CASE kind = "stance"
    BY <1>4, StanceEnters
       DEF Sound, Reset, Leave, BegunIn
  <1>5. CASE kind \in {"latent", "gait"}
    BY <1>5, HistoryEnters
       DEF Sound, Reset, Leave, BegunIn
  <1> QED
    BY <1>1, <1>2, <1>3, <1>4, <1>5, KindsAreKnown

LEMMA AdapterInfers ==
    ASSUME kind \in Kinds, Sound(adapter), wanted \in BOOLEAN,
           NEW command \in Commands, NEW start \in Starts,
           NEW request \in Requests, NEW step \in 1..MaxStep,
           NEW entry \in Entries
    PROVE  LET p == PrepareInputs(Requested(command, start, request, step), entry)
               zero == command = S!ZeroCommand
           IN /\ Answers(adapter, p, OnAction(p), zero)
              /\ Gesturing(p) => Stands(p) /\ Stands(OnAction(p))
              /\ kind = "stance" /\
                 (Gesturing(adapter) \/ (Stands(adapter) /\ ~zero)) =>
                    Stands(p) /\ Stands(OnAction(p))
  <1> USE DEF References, R!Modes
  <1>1. CASE kind \in References
    <2>1. ReferenceSound(adapter)
      BY <1>1 DEF Sound
    <2> QED
      BY <1>1, <2>1, ReferenceInfers DEF Gesturing
  <1>2. CASE kind = "sonic"
    <2>1. SonicSound(adapter)
      BY <1>2 DEF Sound
    <2> QED
      BY <1>2, <2>1, SonicInfers DEF Gesturing
  <1>3. CASE kind = "trajectory"
    <2>1. TrajectorySound(adapter)
      BY <1>3 DEF Sound
    <2> QED
      BY <1>3, <2>1, TrajectoryInfers DEF Gesturing
  <1>4. CASE kind = "stance"
    <2>1. StanceSound(adapter) /\ command \in S!Commands
      BY <1>4 DEF Sound, Commands
    <2> QED
      BY <1>4, <2>1, StanceInfers
  <1>5. CASE kind \in {"latent", "gait"}
    <2>1. HistorySound(adapter)
      BY <1>5 DEF Sound
    <2> QED
      BY <1>5, <2>1, HistoryInfers DEF Gesturing
  <1> QED
    BY <1>1, <1>2, <1>3, <1>4, <1>5, KindsAreKnown

\* The kind of an adapter never changes, so what is said of it keeps its sense.
LEMMA KindStays ==
    ASSUME UNCHANGED kind
    PROVE  /\ Sound(adapter)' <=> Sound(adapter')
           /\ Rests(adapter)' <=> Rests(adapter')
           /\ BegunIn(adapter)' = BegunIn(adapter')
  <1> USE DEF References, R!Modes
  <1>1. Sound(adapter)' <=> Sound(adapter')
    BY DEF Sound, ReferenceSound, HistorySound
  <1>2. Rests(adapter)' <=> Rests(adapter')
    BY DEF Rests
  <1>3. BegunIn(adapter)' = BegunIn(adapter')
    BY DEF BegunIn
  <1> QED
    BY <1>1, <1>2, <1>3

-----------------------------------------------------------------------------
(***************************************************************************)
(* The invariant, and the theorems it gives.                               *)
(***************************************************************************)

LEMMA AdapterInvStarts == AdapterInit => AdapterInv
  BY AdapterStarts DEF AdapterInit, AdapterInv

\* What one inference does, on time or late.
LEMMA InferenceKeeps ==
    ASSUME AdapterInv, NEW command \in Commands, NEW start \in Starts,
           NEW request \in Requests, NEW step \in 1..MaxStep,
           NEW entry \in Entries, NEW late \in BOOLEAN,
           Inference(command, start, request, step, entry, late)
    PROVE  AdapterInv' /\ Handoff!Infer
  <1> DEFINE p == PrepareInputs(Requested(command, start, request, step), entry)
             q == OnAction(p)
             zero == command = S!ZeroCommand
  <1>1. /\ adapter' = (IF late THEN p ELSE q)
        /\ ready' = (IF late THEN ready
                     ELSE wanted /\ zero /\ ReadyForPolicySwitch(adapter'))
        /\ kept' = (ready' /\ zero /\ (late => kept))
        /\ still' = zero /\ fresh' = Fresh(p)
        /\ owes' = (Gesturing(p) \/ (owes /\ ~(zero /\ ~Gesturing(adapter))))
        /\ kind' = kind /\ wanted' = wanted
    BY DEF Inference
  <1>2. /\ kind \in Kinds /\ Sound(adapter)
        /\ wanted \in BOOLEAN /\ ready \in BOOLEAN /\ kept \in BOOLEAN
        /\ ready => wanted
        /\ ready /\ kept => Rests(adapter)
        /\ kind = "stance" /\ owes => Stands(adapter)
    BY DEF AdapterInv
  <1>3. /\ Answers(adapter, p, q, zero)
        /\ Gesturing(p) => Stands(p) /\ Stands(q)
        /\ kind = "stance" /\ (Gesturing(adapter) \/ (Stands(adapter) /\ ~zero))
              => Stands(p) /\ Stands(q)
    BY <1>2, AdapterInfers
  <1> HIDE DEF p, q
  <1>4. zero \in BOOLEAN
    OBVIOUS
  <1> HIDE DEF zero
  <1>5. Sound(p) /\ Sound(q) /\ Fresh(p)
    BY <1>3 DEF Answers
  <1>6. /\ wanted /\ zero /\ Rests(adapter) => Rests(p) /\ Rests(q)
        /\ wanted /\ zero /\ ReadyForPolicySwitch(q) => Rests(q)
    BY <1>3 DEF Answers
  <1>7. Rests(q) => ReadyForPolicySwitch(q)
    BY <1>2, <1>5, AdapterAtRest
  <1>8. /\ ready' \in BOOLEAN /\ kept' \in BOOLEAN
        /\ ready' => wanted
        /\ kept' => zero
    <2>1. ready' \in BOOLEAN
      BY <1>1, <1>2, <1>4
    <2>2. ready' => wanted
      BY <1>1, <1>2
    <2> QED
      BY <1>1, <2>1, <2>2
  <1>9. ready' /\ kept' => Rests(adapter')
    <2>1. CASE late
      BY <1>1, <1>2, <1>6, <2>1
    <2>2. CASE ~late
      BY <1>1, <1>6, <2>2
    <2> QED
      BY <2>1, <2>2
  <1>10. kind = "stance" /\ owes' => Stands(adapter')
    <2>1. kind = "stance" /\ owes' => Stands(p) /\ Stands(q)
      BY <1>1, <1>2, <1>3
    <2> QED
      BY <1>1, <2>1
  <1>11. Sound(adapter')
    BY <1>1, <1>5
  <1>12. Stands(adapter)' <=> Stands(adapter')
    OBVIOUS
  <1>13. AdapterInv'
    BY <1>1, <1>2, <1>4, <1>5, <1>8, <1>9, <1>10, <1>11, <1>12, KindStays
       DEF AdapterInv
  <1>14. (ready' /\ kept') => wanted /\ still'
    BY <1>1, <1>8
  <1>15. (ready /\ kept) /\ still' => (ready' /\ kept')
    <2>1. CASE late
      BY <1>1, <1>2, <2>1
    <2>2. CASE ~late
      BY <1>1, <1>2, <1>6, <1>7, <2>2
    <2> QED
      BY <2>1, <2>2
  <1>16. \/ BegunIn(adapter') = BegunIn(adapter)
         \/ BegunIn(adapter') > BegunIn(adapter) /\ ~wanted
    <2>1. /\ BegunIn(q) = BegunIn(p)
          /\ \/ BegunIn(p) = BegunIn(adapter)
             \/ BegunIn(p) > BegunIn(adapter) /\ ~wanted
      BY <1>3 DEF Answers
    <2> QED
      BY <1>1, <2>1
  <1>17. Begun = BegunIn(adapter) /\ Begun' = BegunIn(adapter')
    BY <1>1, KindStays DEF Begun, BegunIn
  <1>18. Handoff!Infer
    BY <1>1, <1>14, <1>15, <1>16, <1>17 DEF Handoff!Infer
  <1> QED
    BY <1>13, <1>18

LEMMA AdapterStep ==
    ASSUME AdapterInv, [AdapterNext]_adapterVars
    PROVE  AdapterInv' /\ [Handoff!HandoffNext]_(Handoff!handoffVars)
  <1>0. Begun = BegunIn(adapter)
    BY DEF Begun, BegunIn
  <1>1. CASE WantHandoff
    <2>1. UNCHANGED <<kind, adapter, still, ready, kept, fresh, owes>>
      BY <1>1 DEF WantHandoff
    <2>2. ~wanted /\ wanted' = TRUE
      BY <1>1 DEF WantHandoff
    <2>3. AdapterInv'
      BY <2>1, <2>2, KindStays DEF AdapterInv, Stands
    <2>4. Handoff!Ask
      BY <1>0, <2>1, <2>2, KindStays DEF Handoff!Ask, Begun
    <2> QED
      BY <2>3, <2>4 DEF Handoff!HandoffNext
  <1>2. CASE CancelHandoff
    <2>1. /\ UNCHANGED <<kind, adapter, still, fresh, owes>>
          /\ wanted /\ wanted' = FALSE /\ ready' = FALSE /\ kept' = FALSE
      BY <1>2 DEF CancelHandoff
    <2>2. AdapterInv'
      BY <2>1, KindStays DEF AdapterInv, Stands
    <2>3. Handoff!TakeBack
      BY <2>1 DEF Handoff!TakeBack, Begun
    <2> QED
      BY <2>2, <2>3 DEF Handoff!HandoffNext
  <1>3. CASE EnterAgain
    <2>1. /\ adapter' = Reset(Leave(adapter)) /\ kind' = kind
          /\ wanted' = FALSE /\ still' = TRUE /\ ready' = FALSE
          /\ kept' = FALSE /\ fresh' = TRUE /\ owes' = FALSE
      BY <1>3 DEF EnterAgain
    <2>2. Sound(adapter') /\ BegunIn(adapter') = 0
      BY <2>1, AdapterEnters DEF AdapterInv
    <2>3. AdapterInv'
      BY <2>1, <2>2, KindStays DEF AdapterInv
    <2>4. Begun' = 0
      BY <2>1, <2>2 DEF Begun, BegunIn
    <2>5. Handoff!Restart
      BY <2>1, <2>4 DEF Handoff!Restart
    <2> QED
      BY <2>3, <2>5 DEF Handoff!HandoffNext
  <1>4. CASE InferOnTime
    BY <1>4, InferenceKeeps DEF InferOnTime, Handoff!HandoffNext
  <1>5. CASE InferLate
    BY <1>5, InferenceKeeps DEF InferLate, Handoff!HandoffNext
  <1>6. CASE UNCHANGED adapterVars
    <2>1. UNCHANGED <<kind, adapter, wanted, still, ready, kept, fresh, owes>>
      BY <1>6 DEF adapterVars
    <2>2. AdapterInv'
      BY <2>1, KindStays DEF AdapterInv, Stands
    <2>3. UNCHANGED Handoff!handoffVars
      BY <2>1 DEF Handoff!handoffVars, Begun
    <2> QED
      BY <2>2, <2>3
  <1> QED
    BY <1>1, <1>2, <1>3, <1>4, <1>5, <1>6 DEF AdapterNext

LEMMA AdapterInvariant == AdapterSpec => []AdapterInv
  <1>1. AdapterInv /\ [AdapterNext]_adapterVars => AdapterInv'
    BY AdapterStep
  <1> QED
    BY <1>1, AdapterInvStarts, PTL DEF AdapterSpec

\* PolicyAdapter::ReadyForPolicySwitch: a policy of any kind that has said that
\* it may be replaced, and has seen nothing but zero commands since, hands the
\* model a reference that stands still.
THEOREM AdapterRests == AdapterSpec => []PromiseIsRest
  <1>1. AdapterInv => PromiseIsRest
    BY AdapterAtRest DEF AdapterInv, PromiseIsRest
  <1> QED
    BY <1>1, AdapterInvariant, PTL

\* PolicyAdapter::Reset: the histories, headings, anchors and actions given to
\* the model are of the current entry into RL, whatever happened in the last one.
THEOREM AdapterStartsFresh == AdapterSpec => []FreshStart
  <1>1. AdapterInv => FreshStart
    BY DEF AdapterInv, FreshStart
  <1> QED
    BY <1>1, AdapterInvariant, PTL

\* StanceMotionPolicyAdapter::SelectExecutor: from the start of a gesture until
\* a zero command was seen after its end the legs stand, however it ends.
THEOREM AdapterStandsThroughGesture == AdapterSpec => []StandsThroughGesture
  <1>1. AdapterInv => StandsThroughGesture
    BY DEF AdapterInv, StandsThroughGesture, Stands
  <1> QED
    BY <1>1, AdapterInvariant, PTL

\* Every kind of adapter implements the safety part of PolicyHandoff: a promise
\* is made only when asked, and is not taken back while the command is zero; a
\* request begins a motion at most once, and never during a handoff.
THEOREM AdapterKeepsHandoff == AdapterSpec => Handoff!HandoffSafety
  <1>1. AdapterInit => Handoff!HandoffInit
    <2>1. AdapterInit => Begun = 0
      BY AdapterStarts DEF AdapterInit, Begun, BegunIn
    <2> QED
      BY <2>1 DEF AdapterInit, Handoff!HandoffInit
  <1>2. AdapterInv /\ [AdapterNext]_adapterVars
            => [Handoff!HandoffNext]_(Handoff!handoffVars)
    BY AdapterStep
  <1> QED
    BY <1>1, <1>2, AdapterInvariant, PTL
       DEF AdapterSpec, Handoff!HandoffSafety
=============================================================================
