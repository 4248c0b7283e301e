------------------------ MODULE SchedulerServiceProofs ------------------------
(***************************************************************************)
(* Proofs about SchedulerService, for any pods, any number of restarts and *)
(* any number of node events.                                              *)
(***************************************************************************)
EXTENDS SchedulerService, TLAPS

(***************************************************************************)
(* The inductive invariant.  StartScheduler makes a context live without a *)
(* look at the others, so it must be known that there is none: before the  *)
(* first start nothing was created, and RestartScheduler has stopped what  *)
(* shutdownfn stops, which is all there is.  And a scheduler that was not  *)
(* created has no pods, so that a binding names a scheduler that exists.   *)
(***************************************************************************)
NothingLiveAtStart ==
    /\ main \in {"config", "api", "healthz", "pv", "start"} => gen = 0
    /\ main = "restart" => \A g \in Gens : ctx[g] # "live"

NotCreatedIsIdle ==
    \A g \in Gens : \A p \in Pods :
        g > gen => attempt[g][p] = "none" /\ p \notin inform[g]

ServiceInv == /\ ServiceTypeOK
              /\ OneLiveScheduler
              /\ NothingLiveAtStart
              /\ NotCreatedIsIdle

(***************************************************************************)
(* The parts of the type invariant about the service, for the arithmetic.  *)
(***************************************************************************)
LEMMA ServiceTypes ==
    ASSUME ServiceTypeOK
    PROVE  /\ gen \in Nat /\ gen <= MaxGen /\ shutdownfn \in 0 .. gen /\ h \in 0 .. gen
           /\ MaxGen \in Nat /\ gen \in 0 .. MaxGen
           /\ ctx \in [Gens -> {"none", "live", "cancelled"}]
           /\ \A g \in Gens : ctx[g] = "none" <=> g > gen
<1>1. /\ gen \in 0 .. MaxGen /\ shutdownfn \in 0 .. gen /\ h \in 0 .. gen
      /\ ctx \in [Gens -> {"none", "live", "cancelled"}]
      /\ \A g \in Gens : ctx[g] = "none" <=> g > gen
  BY DEF ServiceTypeOK
<1>2. QED
  BY <1>1, ServiceAssumption

(***************************************************************************)
(* Setting the stage of an attempt keeps the attempts' shape.              *)
(***************************************************************************)
LEMMA SetAttemptType ==
    ASSUME ServiceTypeOK, NEW g, NEW p \in Pods, NEW stage \in Stages,
           SetAttempt(g, p, stage)
    PROVE  attempt' \in [Gens -> [Pods -> Stages]]
<1>1. attempt \in [Gens -> [Pods -> Stages]]
  BY DEF ServiceTypeOK
<1>2. QED
  BY <1>1 DEF SetAttempt

(***************************************************************************)
(* The initial state satisfies the invariant.                              *)
(***************************************************************************)
LEMMA ServiceInitInv == ServiceInit => ServiceInv
<1> SUFFICES ASSUME ServiceInit PROVE ServiceInv
  OBVIOUS
<1> USE ServiceAssumption DEF ServiceInit
<1>1. gen \in 0 .. MaxGen /\ shutdownfn \in 0 .. gen /\ h \in 0 .. gen
      /\ events \in 0 .. MaxEvents /\ binding \in [Pods -> 0 .. gen]
  OBVIOUS
<1>2. ctx \in [Gens -> {"none", "live", "cancelled"}]
      /\ \A g \in Gens : ctx[g] = "none" <=> g > gen
  BY DEF Gens
<1>3. timer \in [Gens -> [Pods -> BOOLEAN]] /\ dead \in BOOLEAN
  OBVIOUS
<1>4. ServiceTypeOK
  BY <1>1, <1>2, <1>3 DEF ServiceTypeOK, Stages
<1>5. OneLiveScheduler /\ NothingLiveAtStart /\ NotCreatedIsIdle
  BY DEF OneLiveScheduler, NothingLiveAtStart, NotCreatedIsIdle
<1>6. QED
  BY <1>4, <1>5 DEF ServiceInv

----------------------------------------------------------------------------
(* main, the service and the scenario.                                     *)

(***************************************************************************)
(* The steps of main and of the scenario that touch no scheduler.          *)
(***************************************************************************)
LEMMA ProgramStep ==
    ASSUME ServiceInv,
           \/ NewConfig \/ StartAPIServer \/ StartPersistentVolumeController
           \/ ScenarioEnds \/ StopPV \/ StopAPIServer
    PROVE  ServiceInv'
<1>1. UNCHANGED <<svcVars, podVars, runVars, dead>>
  BY DEF NewConfig, StartAPIServer, CreateAPIServer, PollHealthz,
         StartPersistentVolumeController, ScenarioEnds, StopPV, StopAPIServer
<1>2. /\ main' \in {"api", "healthz", "pv", "start", "stop scheduler", "stop pv",
                    "stop api", "exit"}
      /\ api' \in {"down", "up", "stopped"} /\ pv' \in {"down", "up", "stopped"}
      /\ main' \in {"config", "api", "healthz", "pv", "start"} =>
            main \in {"config", "api", "healthz", "pv", "start"}
  BY DEF ServiceInv, ServiceTypeOK, NewConfig, StartAPIServer, CreateAPIServer,
         PollHealthz, StartPersistentVolumeController, ScenarioEnds, StopPV,
         StopAPIServer
<1>3. ServiceTypeOK'
  BY <1>1, <1>2 DEF ServiceInv, ServiceTypeOK, svcVars, podVars, runVars
<1>4. OneLiveScheduler' /\ NothingLiveAtStart' /\ NotCreatedIsIdle'
  BY <1>1, <1>2 DEF ServiceInv, OneLiveScheduler, NothingLiveAtStart,
                    NotCreatedIsIdle, svcVars, runVars
<1>5. QED
  BY <1>3, <1>4 DEF ServiceInv

(***************************************************************************)
(* StartScheduler and its failure: nothing is live, and one more scheduler *)
(* is created.                                                             *)
(***************************************************************************)
LEMMA NewScheduler ==
    ASSUME ServiceInv, gen < MaxGen, main \in {"start", "restart"},
           NEW context \in {"live", "cancelled"},
           gen' = gen + 1, ctx' = [ctx EXCEPT ![gen + 1] = context]
    PROVE  /\ gen' \in 0 .. MaxGen /\ gen + 1 \in Gens
           /\ 0 .. gen \subseteq 0 .. gen'
           /\ ctx' \in [Gens -> {"none", "live", "cancelled"}]
           /\ \A g \in Gens : ctx'[g] = "none" <=> g > gen'
           /\ \A g \in Gens : ctx'[g] = "live" => g = gen' /\ context = "live"
<1> USE ServiceTypes DEF ServiceInv
<1>1. gen' \in 0 .. MaxGen /\ gen + 1 \in Gens /\ 0 .. gen \subseteq 0 .. gen'
  BY DEF Gens
<1>2. \A g \in Gens : ctx[g] # "live"
  <2>1. CASE main = "start"
    BY <2>1 DEF NothingLiveAtStart, Gens
  <2>2. CASE main = "restart"
    BY <2>2 DEF NothingLiveAtStart
  <2>3. QED
    BY <2>1, <2>2
<1>3. QED
  BY <1>1, <1>2 DEF Gens

\* StartScheduler begins a generation that nobody runs in yet.
LEMMA StartStep == ServiceInv /\ StartScheduler => ServiceInv'
<1> SUFFICES ASSUME ServiceInv, StartScheduler PROVE ServiceInv'
  OBVIOUS
<1>1. /\ gen' \in 0 .. MaxGen /\ gen + 1 \in Gens
      /\ 0 .. gen \subseteq 0 .. gen'
      /\ ctx' \in [Gens -> {"none", "live", "cancelled"}]
      /\ \A g \in Gens : ctx'[g] = "none" <=> g > gen'
      /\ \A g \in Gens : ctx'[g] = "live" => g = gen'
  BY NewScheduler DEF StartScheduler, StartAs
<1>2. /\ main' = "scenario"
      /\ gen' = gen + 1 /\ shutdownfn' = gen + 1 /\ h' \in {gen + 1, h}
      /\ inform' = [inform EXCEPT ![gen + 1] = Unassigned]
      /\ loop' = [loop EXCEPT ![gen + 1] = "on"]
      /\ UNCHANGED <<api, pv, pod, binding, attempt, timer, events, dead>>
  BY DEF StartScheduler, StartAs, podVars
<1>3. shutdownfn' \in 0 .. gen' /\ h' \in 0 .. gen'
  BY <1>2, ServiceTypes DEF ServiceInv
<1>4. inform' \in [Gens -> SUBSET Pods]
  BY <1>2 DEF ServiceInv, ServiceTypeOK, Unassigned
<1>5. loop' \in [Gens -> {"off", "on", "ended"}]
  BY <1>2 DEF ServiceInv, ServiceTypeOK
<1>6. binding' \in [Pods -> 0 .. gen']
  BY <1>1, <1>2 DEF ServiceInv, ServiceTypeOK
<1>7. ServiceTypeOK'
  BY <1>1, <1>2, <1>3, <1>4, <1>5, <1>6 DEF ServiceInv, ServiceTypeOK
<1>8. OneLiveScheduler' /\ NothingLiveAtStart'
  BY <1>1, <1>2 DEF OneLiveScheduler, NothingLiveAtStart
<1>9. NotCreatedIsIdle'
  <2>1. gen \in Nat /\ MaxGen \in Nat /\ gen' = gen + 1
    BY <1>2, ServiceTypes DEF ServiceInv
  <2>2. \A g \in Gens : g > gen' => g > gen /\ g # gen + 1
    BY <2>1 DEF Gens
  <2>3. inform \in [Gens -> SUBSET Pods]
    BY DEF ServiceInv, ServiceTypeOK
  <2>4. \A g \in Gens : g > gen' => inform'[g] = inform[g]
    BY <1>2, <2>2, <2>3
  <2>5. QED
    BY <1>2, <2>2, <2>4 DEF ServiceInv, NotCreatedIsIdle
<1>10. QED
  BY <1>7, <1>8, <1>9 DEF ServiceInv

\* A StartScheduler that fails leaves no scheduler live.
LEMMA FailStep == ServiceInv /\ StartFails => ServiceInv'
<1> SUFFICES ASSUME ServiceInv, StartFails PROVE ServiceInv'
  OBVIOUS
<1>1. /\ gen' \in 0 .. MaxGen
      /\ 0 .. gen \subseteq 0 .. gen'
      /\ ctx' \in [Gens -> {"none", "live", "cancelled"}]
      /\ \A g \in Gens : ctx'[g] = "none" <=> g > gen'
      /\ \A g \in Gens : ctx'[g] # "live"
  BY NewScheduler DEF StartFails, FailAs
<1>2. /\ main' \in {"stop pv", "scenario"} /\ gen' = gen + 1
      /\ UNCHANGED <<api, pv, shutdownfn, h, pod, binding, inform, loop, attempt,
                     timer, events, dead>>
  BY DEF StartFails, FailAs, podVars, runVars
<1>3. shutdownfn' \in 0 .. gen' /\ h' \in 0 .. gen'
  BY <1>1, <1>2, ServiceTypes DEF ServiceInv
<1>4. binding' \in [Pods -> 0 .. gen']
  BY <1>1, <1>2 DEF ServiceInv, ServiceTypeOK
<1>5. ServiceTypeOK'
  BY <1>1, <1>2, <1>3, <1>4 DEF ServiceInv, ServiceTypeOK
<1>6. OneLiveScheduler' /\ NothingLiveAtStart'
  BY <1>1, <1>2 DEF OneLiveScheduler, NothingLiveAtStart
<1>7. NotCreatedIsIdle'
  <2>1. gen \in Nat /\ MaxGen \in Nat /\ gen' = gen + 1
    BY <1>2, ServiceTypes DEF ServiceInv
  <2>2. \A g \in Gens : g > gen' => g > gen
    BY <2>1 DEF Gens
  <2>3. QED
    BY <1>2, <2>2 DEF ServiceInv, NotCreatedIsIdle
<1>8. QED
  BY <1>5, <1>6, <1>7 DEF ServiceInv

(***************************************************************************)
(* ShutdownScheduler stops the one scheduler that is live.                 *)
(***************************************************************************)
LEMMA ShutdownStops ==
    ASSUME ServiceInv, ShutdownScheduler
    PROVE  /\ ctx' \in [Gens -> {"none", "live", "cancelled"}]
           /\ \A g \in Gens : ctx'[g] # "live"
           /\ \A g \in Gens : ctx'[g] = "none" <=> ctx[g] = "none"
BY ServiceTypes DEF ServiceInv, OneLiveScheduler, ShutdownScheduler, Gens

\* The cancel function ends the context of the scheduler that was live.
LEMMA ShutdownStep == ServiceInv /\ (RestartScheduler \/ StopScheduler) => ServiceInv'
<1> SUFFICES ASSUME ServiceInv, RestartScheduler \/ StopScheduler PROVE ServiceInv'
  OBVIOUS
<1>1. /\ ctx' \in [Gens -> {"none", "live", "cancelled"}]
      /\ \A g \in Gens : ctx'[g] # "live"
      /\ \A g \in Gens : ctx'[g] = "none" <=> ctx[g] = "none"
  BY ShutdownStops DEF RestartScheduler, StopScheduler
<1>2. /\ main' \in {"restart", "stop pv"}
      /\ UNCHANGED <<api, pv, gen, shutdownfn, h, podVars, runVars, dead>>
  BY DEF RestartScheduler, StopScheduler
<1>3. ServiceTypeOK'
  BY <1>1, <1>2 DEF ServiceInv, ServiceTypeOK, podVars, runVars
<1>4. OneLiveScheduler' /\ NothingLiveAtStart' /\ NotCreatedIsIdle'
  BY <1>1, <1>2 DEF ServiceInv, OneLiveScheduler, NothingLiveAtStart,
                    NotCreatedIsIdle, runVars
<1>5. QED
  BY <1>3, <1>4 DEF ServiceInv

(***************************************************************************)
(* CreatePod tells the informers of live schedulers, which were created.   *)
(***************************************************************************)
LEMMA CreatePodStep ==
    ASSUME ServiceInv, NEW p \in Pods, CreatePod(p)
    PROVE  ServiceInv'
<1>1. /\ UNCHANGED <<main, api, pv, gen, ctx, shutdownfn, h>>
      /\ UNCHANGED <<binding, loop, attempt, timer, events, dead>>
      /\ pod' = [pod EXCEPT ![p] = "live"]
      /\ inform' = [g \in Gens |-> IF ctx[g] = "live" THEN inform[g] \cup {p}
                                                      ELSE inform[g]]
  BY DEF CreatePod, progVars, svcVars
<1>2. pod' \in [Pods -> {"absent", "live"}] /\ inform' \in [Gens -> SUBSET Pods]
  BY <1>1 DEF ServiceInv, ServiceTypeOK
<1>3. ServiceTypeOK'
  BY <1>1, <1>2 DEF ServiceInv, ServiceTypeOK
<1>4. NotCreatedIsIdle'
  <2>1. \A g \in Gens : g > gen => inform'[g] = inform[g]
    BY <1>1, ServiceTypes DEF ServiceInv
  <2>2. QED
    BY <1>1, <2>1 DEF ServiceInv, NotCreatedIsIdle
<1>5. QED
  BY <1>1, <1>3, <1>4 DEF ServiceInv, OneLiveScheduler, NothingLiveAtStart

(***************************************************************************)
(* A node event releases pods of live schedulers only.                     *)
(***************************************************************************)
LEMMA CreateNodeStep == ServiceInv /\ CreateNode => ServiceInv'
<1> SUFFICES ASSUME ServiceInv, CreateNode PROVE ServiceInv'
  OBVIOUS
<1>1. /\ UNCHANGED <<main, api, pv, gen, ctx, shutdownfn, h>>
      /\ UNCHANGED <<pod, binding, inform, loop, timer, dead>>
      /\ events < MaxEvents /\ events' = events + 1
      /\ \E backingoff \in SUBSET Pods :
            attempt' = [g \in Gens |-> [p \in Pods |->
                IF ctx[g] = "live" /\ attempt[g][p] = "unschedulable"
                THEN IF p \in backingoff THEN "backoff" ELSE "queued"
                ELSE attempt[g][p]]]
  BY DEF CreateNode, progVars, svcVars, podVars
<1>2. events' \in 0 .. MaxEvents
  <2>1. events \in 0 .. MaxEvents
    BY DEF ServiceInv, ServiceTypeOK
  <2>2. QED
    BY <1>1, <2>1, ServiceAssumption
<1>3. attempt' \in [Gens -> [Pods -> Stages]]
  <2>1. attempt \in [Gens -> [Pods -> Stages]]
    BY DEF ServiceInv, ServiceTypeOK
  <2>2. QED
    BY <1>1, <2>1 DEF Stages
<1>4. ServiceTypeOK'
  BY <1>1, <1>2, <1>3 DEF ServiceInv, ServiceTypeOK
<1>5. NotCreatedIsIdle'
  BY <1>1 DEF ServiceInv, NotCreatedIsIdle
<1>6. QED
  BY <1>1, <1>4, <1>5 DEF ServiceInv, OneLiveScheduler, NothingLiveAtStart

----------------------------------------------------------------------------
(* The schedulers.                                                         *)

(***************************************************************************)
(* A step of a scheduler changes no context: it is enough that it keeps    *)
(* the types, and that it changes attempts of schedulers that exist.       *)
(***************************************************************************)
LEMMA SchedulerStep ==
    ASSUME ServiceInv, UNCHANGED <<progVars, svcVars, pod>>,
           /\ binding' \in [Pods -> 0 .. gen] /\ inform' \in [Gens -> SUBSET Pods]
           /\ loop' \in [Gens -> {"off", "on", "ended"}]
           /\ timer' \in [Gens -> [Pods -> BOOLEAN]],
           UNCHANGED events, dead' \in BOOLEAN,
           \A g \in Gens : inform'[g] \subseteq inform[g],
           NEW g, g \in 0 .. gen, NEW p \in Pods,
           \/ UNCHANGED attempt
           \/ \E stage \in Stages : SetAttempt(g, p, stage)
    PROVE  ServiceInv'
<1>1. attempt' \in [Gens -> [Pods -> Stages]]
  BY SetAttemptType DEF ServiceInv, ServiceTypeOK
<1>2. ServiceTypeOK'
  BY <1>1 DEF ServiceInv, ServiceTypeOK, progVars, svcVars
<1>3. \A i \in Gens : i > gen => attempt'[i] = attempt[i]
  <2>1. attempt \in [Gens -> [Pods -> Stages]]
    BY DEF ServiceInv, ServiceTypeOK
  <2>2. \A i \in Gens : i > gen => i # g
    BY ServiceTypes DEF ServiceInv, Gens
  <2>3. QED
    BY <2>1, <2>2 DEF SetAttempt
<1>4. NotCreatedIsIdle'
  BY <1>3 DEF ServiceInv, NotCreatedIsIdle, svcVars
<1>5. QED
  BY <1>2, <1>4 DEF ServiceInv, OneLiveScheduler, NothingLiveAtStart, progVars, svcVars

(***************************************************************************)
(* A scheduler that has a pod in any stage was created.                    *)
(***************************************************************************)
LEMMA StageMeansCreated ==
    ASSUME ServiceInv, NEW g \in Gens, NEW p \in Pods,
           attempt[g][p] # "none" \/ p \in inform[g]
    PROVE  g \in 0 .. gen
BY ServiceTypes DEF ServiceInv, NotCreatedIsIdle, Gens

(***************************************************************************)
(* Every step keeps the invariant.                                         *)
(***************************************************************************)
LEMMA ServiceStep == ServiceInv /\ [ServiceNext]_vars => ServiceInv'
<1> SUFFICES ASSUME ServiceInv, [ServiceNext]_vars PROVE ServiceInv'
  OBVIOUS
<1>0. /\ binding \in [Pods -> 0 .. gen] /\ inform \in [Gens -> SUBSET Pods]
      /\ loop \in [Gens -> {"off", "on", "ended"}]
      /\ timer \in [Gens -> [Pods -> BOOLEAN]]
      /\ dead \in BOOLEAN
  BY DEF ServiceInv, ServiceTypeOK
<1>1. CASE UNCHANGED vars
  BY <1>1 DEF vars, progVars, svcVars, podVars, runVars, ServiceInv, ServiceTypeOK,
              OneLiveScheduler, NothingLiveAtStart, NotCreatedIsIdle
<1>2. CASE \/ NewConfig \/ StartAPIServer \/ StartPersistentVolumeController
           \/ ScenarioEnds \/ StopPV \/ StopAPIServer
  BY <1>2, ProgramStep
<1>3. CASE StartScheduler \/ StartFails \/ RestartScheduler \/ StopScheduler
  BY <1>3, StartStep, FailStep, ShutdownStep
<1>4. CASE CreateNode \/ \E p \in Pods : CreatePod(p)
  BY <1>4, CreatePodStep, CreateNodeStep
<1>5. ASSUME NEW g \in Gens, NEW p \in Pods, addPodToSchedulingQueue(g, p)
      PROVE  ServiceInv'
  <2>1. g \in 0 .. gen
    BY <1>5, StageMeansCreated DEF addPodToSchedulingQueue
  <2>2. inform' \in [Gens -> SUBSET Pods] /\ \A i \in Gens : inform'[i] \subseteq inform[i]
    BY <1>0, <1>5 DEF addPodToSchedulingQueue
  <2>3. \E stage \in Stages : SetAttempt(g, p, stage)
    BY <1>5 DEF addPodToSchedulingQueue, Stages
  <2>4. UNCHANGED <<progVars, svcVars, pod, binding, loop, timer, events, dead>>
    BY <1>5 DEF addPodToSchedulingQueue, podVars
  <2>5. QED
    BY <1>0, <2>1, <2>2, <2>3, <2>4, SchedulerStep
<1>6. ASSUME NEW g \in Gens, NEW p \in Pods,
             NextPod(g, p) \/ RejectTimer(g, p) \/ BindSend(g, p)
      PROVE  ServiceInv'
  <2>1. g \in 0 .. gen
    BY <1>6, StageMeansCreated DEF NextPod, RejectTimer, BindSend
  <2>2. \E stage \in Stages : SetAttempt(g, p, stage)
    BY <1>6 DEF NextPod, RejectTimer, BindSend, Stages
  <2>3. UNCHANGED <<progVars, svcVars, pod, binding, inform, loop, timer, events, dead>>
    BY <1>6 DEF NextPod, RejectTimer, BindSend, podVars
  <2>4. QED
    BY <1>0, <2>1, <2>2, <2>3, SchedulerStep
<1>7. ASSUME NEW g \in Gens, NEW p \in Pods, scheduleOne(g, p) PROVE ServiceInv'
  <2>1. g \in 0 .. gen
    BY <1>7, StageMeansCreated DEF scheduleOne
  <2>2. \E stage \in Stages : SetAttempt(g, p, stage)
    BY <1>7 DEF scheduleOne, Stages
  <2>3. loop' \in [Gens -> {"off", "on", "ended"}]
    BY <1>0, <1>7 DEF scheduleOne, LoopGoesOn
  <2>4. timer' = timer \/ timer' = [timer EXCEPT ![g][p] = TRUE]
    BY <1>7 DEF scheduleOne
  <2>5. timer' \in [Gens -> [Pods -> BOOLEAN]]
    <3>1. timer \in [Gens -> [Pods -> BOOLEAN]]
      BY <1>0
    <3>2. [timer EXCEPT ![g][p] = TRUE] \in [Gens -> [Pods -> BOOLEAN]]
      BY <3>1
    <3>3. QED
      BY <2>4, <3>1, <3>2
  <2>6. UNCHANGED <<progVars, svcVars, pod, binding, inform, events, dead>>
    BY <1>7 DEF scheduleOne, podVars
  <2>7. QED
    BY <1>0, <2>1, <2>2, <2>3, <2>5, <2>6, SchedulerStep
<1>8. ASSUME NEW g \in Gens, NEW p \in Pods, AllowTimer(g, p) PROVE ServiceInv'
  <2>0. timer' = [timer EXCEPT ![g][p] = FALSE]
    BY <1>8 DEF AllowTimer
  <2>1. timer' \in [Gens -> [Pods -> BOOLEAN]]
    BY <1>0, <2>0
  <2>2. UNCHANGED <<progVars, svcVars, pod, binding, inform, loop, events>>
    BY <1>8 DEF AllowTimer, podVars
  <2>3. dead' \in BOOLEAN
    BY <1>0, <1>8 DEF AllowTimer
  <2>4. UNCHANGED attempt \/ SetAttempt(h, p, "bind")
    BY <1>8 DEF AllowTimer
  <2>5. UNCHANGED attempt \/ \E stage \in Stages : SetAttempt(h, p, stage)
    BY <2>4 DEF Stages
  <2>6. h \in 0 .. gen
    BY ServiceTypes DEF ServiceInv
  <2>7. QED
    BY <1>0, <2>1, <2>2, <2>3, <2>5, <2>6, SchedulerStep
<1>9. ASSUME NEW g \in Gens, NEW p \in Pods, BindReturns(g, p) PROVE ServiceInv'
  <2>1. g \in 0 .. gen
    BY <1>9, StageMeansCreated DEF BindReturns
  <2>2. \E stage \in Stages : SetAttempt(g, p, stage)
    BY <1>9 DEF BindReturns, Stages
  <2>4. binding' = binding \/ binding' = [binding EXCEPT ![p] = g]
    BY <1>9 DEF BindReturns
  <2>5. binding' \in [Pods -> 0 .. gen]
    BY <1>0, <2>1, <2>4
  <2>6. UNCHANGED <<progVars, svcVars, pod, inform, loop, timer, events, dead>>
    BY <1>9 DEF BindReturns
  <2>7. QED
    BY <1>0, <2>1, <2>2, <2>5, <2>6, SchedulerStep
<1>10. QED
  BY <1>1, <1>2, <1>3, <1>4, <1>5, <1>6, <1>7, <1>8, <1>9
     DEF ServiceNext, Main, Scenario, Loop, Binder

----------------------------------------------------------------------------
(* The theorems.                                                           *)

\* The parts of ServiceInv hold together in every reachable state.
LEMMA ServiceInvariant == ServiceSpec => []ServiceInv
BY ServiceInitInv, ServiceStep, PTL DEF ServiceSpec

(***************************************************************************)
(* The state of the program keeps its shape; in particular only schedulers *)
(* that were created bind pods.                                            *)
(***************************************************************************)
THEOREM ServiceTypeCorrect == ServiceSpec => []ServiceTypeOK
BY ServiceInvariant, PTL DEF ServiceInv

(***************************************************************************)
(* However often RestartScheduler is called and however often it fails, at *)
(* most one scheduler is live, and shutdownfn is what stops it.            *)
(***************************************************************************)
THEOREM AtMostOneLiveScheduler == ServiceSpec => []OneLiveScheduler
BY ServiceInvariant, PTL DEF ServiceInv

----------------------------------------------------------------------------
(* The end of the program.                                                 *)

(***************************************************************************)
(* main gets to its last two calls by StopScheduler, or because it started *)
(* no scheduler: either way none is live.                                  *)
(***************************************************************************)
NothingLiveAtEnd ==
    /\ main \in {"stop pv", "stop api"} => \A g \in Gens : ctx[g] # "live"
    /\ main = "stop api" => pv # "up"

\* Nothing is started once main has begun to stop.
LEMMA EndStep ==
    ServiceInv /\ NothingLiveAtEnd /\ [ServiceNext]_vars => NothingLiveAtEnd'
<1> SUFFICES ASSUME ServiceInv, NothingLiveAtEnd, [ServiceNext]_vars
             PROVE  NothingLiveAtEnd'
  OBVIOUS
<1>1. CASE StopPV
  BY <1>1 DEF StopPV, NothingLiveAtEnd, svcVars
<1>2. CASE StartPersistentVolumeController
  <2>1. \A g \in Gens : ctx[g] # "live"
    <3>1. gen = 0
      BY <1>2 DEF StartPersistentVolumeController, ServiceInv, NothingLiveAtStart
    <3>2. \A g \in Gens : g > gen
      BY <3>1, ServiceTypes DEF ServiceInv, Gens
    <3>3. QED
      BY <3>2, ServiceTypes DEF ServiceInv
  <2>2. ctx' = ctx /\ (main' = "stop api" => pv' = "stopped")
    BY <1>2 DEF StartPersistentVolumeController, svcVars
  <2>3. QED
    BY <2>1, <2>2 DEF NothingLiveAtEnd
<1>3. CASE StopScheduler
  BY <1>3, ShutdownStops DEF StopScheduler, NothingLiveAtEnd
<1>4. CASE StartFails
  <2>1. \A g \in Gens : ctx'[g] # "live"
    BY <1>4, NewScheduler DEF StartFails, FailAs
  <2>2. main' # "stop api"
    BY <1>4 DEF StartFails, FailAs
  <2>3. QED
    BY <2>1, <2>2 DEF NothingLiveAtEnd
<1>5. CASE \/ NewConfig \/ StartAPIServer \/ StopAPIServer \/ StartScheduler
           \/ RestartScheduler \/ ScenarioEnds
  <2>1. main' \notin {"stop pv", "stop api"}
    BY <1>5 DEF NewConfig, StartAPIServer, CreateAPIServer, PollHealthz, StopAPIServer,
                StartScheduler, StartAs, RestartScheduler, ScenarioEnds
  <2>2. QED
    BY <2>1 DEF NothingLiveAtEnd
<1>6. CASE \/ UNCHANGED vars \/ CreateNode \/ \E p \in Pods : CreatePod(p)
           \/ \E g \in Gens : Loop(g) \/ \E p \in Pods :
                 addPodToSchedulingQueue(g, p) \/ AllowTimer(g, p) \/ Binder(g, p)
  <2>1. UNCHANGED <<main, pv, ctx>>
    BY <1>6 DEF vars, CreateNode, CreatePod, Loop, NextPod, scheduleOne, Binder,
                addPodToSchedulingQueue, AllowTimer, RejectTimer, BindSend, BindReturns,
                progVars, svcVars
  <2>2. QED
    BY <2>1 DEF NothingLiveAtEnd
<1>7. QED
  BY <1>1, <1>2, <1>3, <1>4, <1>5, <1>6 DEF ServiceNext, Main, Scenario

(***************************************************************************)
(* However main came to close the API server, nobody keeps a watch open    *)
(* for ever: Close waits for requests, which return.                       *)
(***************************************************************************)
THEOREM CloseIsNeverHeldUp == ServiceSpec => []CloseWaitsForRequestsOnly
<1>1. ServiceInit => NothingLiveAtEnd
  BY DEF ServiceInit, NothingLiveAtEnd
<1>2. NothingLiveAtEnd => CloseWaitsForRequestsOnly
  BY DEF NothingLiveAtEnd, CloseWaitsForRequestsOnly
<1>3. QED
  BY <1>1, <1>2, EndStep, ServiceInvariant, PTL DEF ServiceSpec

----------------------------------------------------------------------------
(* The pods.                                                               *)

(***************************************************************************)
(* RestartLosesNoPod is inductive once it is known that an attempt is done *)
(* only if the pod is bound.                                               *)
(***************************************************************************)
DoneIsBound ==
    \A g \in Gens : \A p \in Pods : attempt[g][p] = "done" => binding[p] # 0

PodsInv == RestartLosesNoPod /\ DoneIsBound

\* No attempt is forgotten, and no pod of an informer unless it is tried.
Handled(g, p) ==
    \/ attempt'[g][p] = attempt[g][p] /\ (p \in inform[g] => p \in inform'[g])
    \/ attempt'[g][p] \notin {"none", "done"}
    \/ attempt'[g][p] = "done" /\ binding'[p] # 0

(***************************************************************************)
(* A step within schedulers.                                               *)
(***************************************************************************)
LEMMA PodsKept ==
    ASSUME PodsInv, UNCHANGED <<ctx, pod>>,
           \A g \in Gens : ctx[g] = "live" /\ loop[g] = "on" => loop'[g] = "on",
           \A p \in Pods : binding[p] # 0 => binding'[p] # 0,
           \A g \in Gens : \A p \in Pods : Handled(g, p)
    PROVE  PodsInv'
<1>1. RestartLosesNoPod'
  <2> SUFFICES ASSUME NEW g \in Gens, ctx[g] = "live"
               PROVE  /\ loop'[g] = "on"
                      /\ \A p \in Pods : pod[p] = "live" =>
                            \/ binding'[p] # 0 \/ p \in inform'[g]
                            \/ attempt'[g][p] \notin {"none", "done"}
    BY DEF RestartLosesNoPod
  <2>1. /\ loop[g] = "on"
        /\ \A p \in Pods : pod[p] = "live" =>
              \/ binding[p] # 0 \/ p \in inform[g]
              \/ attempt[g][p] \notin {"none", "done"}
    BY DEF PodsInv, RestartLosesNoPod
  <2>2. QED
    BY <2>1 DEF Handled
<1>2. DoneIsBound'
  BY DEF PodsInv, DoneIsBound, Handled
<1>3. QED
  BY <1>1, <1>2 DEF PodsInv

\* Setting a stage leaves the other attempts alone.
LEMMA SetAttemptIs ==
    ASSUME ServiceInv, NEW g, NEW p, NEW stage, SetAttempt(g, p, stage)
    PROVE  \A i \in Gens : \A q \in Pods :
              attempt'[i][q] = IF i = g /\ q = p THEN stage ELSE attempt[i][q]
<1>1. attempt \in [Gens -> [Pods -> Stages]]
  BY DEF ServiceInv, ServiceTypeOK
<1>2. QED
  BY <1>1 DEF SetAttempt

\* A binding of 0 is none: schedulers are numbered from 1.
LEMMA NoGenIsZero == 0 \notin Gens
BY ServiceAssumption DEF Gens

\* The steps of schedulers forget no pod.
LEMMA SchedulersKeepPods ==
    ASSUME ServiceInv, PodsInv, NEW g \in Gens, NEW p \in Pods,
           \/ addPodToSchedulingQueue(g, p) \/ NextPod(g, p) \/ scheduleOne(g, p)
           \/ AllowTimer(g, p) \/ RejectTimer(g, p) \/ BindSend(g, p) \/ BindReturns(g, p)
    PROVE  PodsInv'
<1>1. UNCHANGED <<ctx, pod>>
  BY DEF addPodToSchedulingQueue, NextPod, scheduleOne, AllowTimer, RejectTimer,
         BindSend, BindReturns, svcVars, podVars
<1>2. \A i \in Gens : ctx[i] = "live" /\ loop[i] = "on" => loop'[i] = "on"
  <2>1. loop \in [Gens -> {"off", "on", "ended"}]
    BY DEF ServiceInv, ServiceTypeOK
  <2>2. \/ loop' = loop
        \/ ctx[g] = "cancelled" /\ loop' = [loop EXCEPT ![g] = "ended"]
    BY DEF addPodToSchedulingQueue, NextPod, scheduleOne, LoopGoesOn, AllowTimer,
           RejectTimer, BindSend, BindReturns
  <2>3. QED
    BY <2>1, <2>2
<1>3. \A q \in Pods : binding[q] # 0 => binding'[q] # 0
  <2>1. \/ binding' = binding \/ binding' = [binding EXCEPT ![p] = g]
    BY DEF addPodToSchedulingQueue, NextPod, scheduleOne, AllowTimer, RejectTimer,
           BindSend, BindReturns, podVars
  <2>2. g # 0 /\ binding \in [Pods -> 0 .. gen]
    BY NoGenIsZero DEF ServiceInv, ServiceTypeOK
  <2>3. QED
    BY <2>1, <2>2
<1>4. \A i \in Gens : \A q \in Pods : Handled(i, q)
  <2>1. CASE addPodToSchedulingQueue(g, p)
    <3>1. /\ inform' = [inform EXCEPT ![g] = @ \ {p}]
          /\ SetAttempt(g, p, "queued")
      BY <2>1 DEF addPodToSchedulingQueue
    <3>2. inform \in [Gens -> SUBSET Pods]
      BY DEF ServiceInv, ServiceTypeOK
    <3>3. \A i \in Gens : \A q \in Pods :
             q \in inform[i] => q \in inform'[i] \/ (i = g /\ q = p)
      BY <3>1, <3>2
    <3>4. QED
      BY <3>1, <3>3, SetAttemptIs DEF Handled
  <2>2. CASE NextPod(g, p) \/ scheduleOne(g, p) \/ RejectTimer(g, p) \/ BindSend(g, p)
    <3>1. inform' = inform
      BY <2>2 DEF NextPod, scheduleOne, RejectTimer, BindSend
    <3>2. PICK stage \in {"scheduling", "unschedulable", "waiting", "bind", "sent"} :
             SetAttempt(g, p, stage)
      BY <2>2 DEF NextPod, scheduleOne, RejectTimer, BindSend
    <3>3. QED
      BY <3>1, <3>2, SetAttemptIs DEF Handled
  <2>3. CASE AllowTimer(g, p)
    <3>1. inform' = inform /\ (SetAttempt(h, p, "bind") \/ attempt' = attempt)
      BY <2>3 DEF AllowTimer
    <3>2. QED
      BY <3>1, SetAttemptIs DEF Handled
  <2>4. CASE BindReturns(g, p)
    <3>1. inform' = inform
      BY <2>4 DEF BindReturns
    <3>2. \/ SetAttempt(g, p, "unschedulable")
          \/ SetAttempt(g, p, "done") /\ binding' = [binding EXCEPT ![p] = g]
      BY <2>4 DEF BindReturns
    <3>3. g # 0 /\ binding \in [Pods -> 0 .. gen]
      BY NoGenIsZero DEF ServiceInv, ServiceTypeOK
    <3>4. SetAttempt(g, p, "unschedulable") \/ (SetAttempt(g, p, "done") /\ binding'[p] # 0)
      BY <3>2, <3>3
    <3>5. QED
      BY <3>1, <3>4, SetAttemptIs DEF Handled
  <2>5. QED
    BY <2>1, <2>2, <2>3, <2>4
<1>5. QED
  BY <1>1, <1>2, <1>3, <1>4, PodsKept

\* Every step keeps the pods.
LEMMA PodsStep == ServiceInv /\ PodsInv /\ [ServiceNext]_vars => PodsInv'
<1> SUFFICES ASSUME ServiceInv, PodsInv, [ServiceNext]_vars PROVE PodsInv'
  OBVIOUS
<1>1. CASE \/ UNCHANGED vars \/ NewConfig \/ StartAPIServer
           \/ StartPersistentVolumeController \/ ScenarioEnds \/ StopPV \/ StopAPIServer
  <2>1. UNCHANGED <<ctx, pod, binding, inform, loop, attempt>>
    BY <1>1 DEF vars, NewConfig, StartAPIServer, CreateAPIServer, PollHealthz,
                StartPersistentVolumeController, ScenarioEnds, StopPV, StopAPIServer,
                svcVars, podVars, runVars
  <2>2. QED
    BY <2>1 DEF PodsInv, RestartLosesNoPod, DoneIsBound
<1>2. CASE StartScheduler
  <2>1. /\ gen' = gen + 1 /\ \A g \in Gens : ctx'[g] = "live" => g = gen'
        /\ gen + 1 \in Gens
    BY <1>2, NewScheduler DEF StartScheduler, StartAs
  <2>2. /\ loop' = [loop EXCEPT ![gen + 1] = "on"]
        /\ inform' = [inform EXCEPT ![gen + 1] = Unassigned]
        /\ UNCHANGED <<pod, binding, attempt>>
    BY <1>2 DEF StartScheduler, StartAs, podVars
  <2>3. loop \in [Gens -> {"off", "on", "ended"}] /\ inform \in [Gens -> SUBSET Pods]
    BY DEF ServiceInv, ServiceTypeOK
  <2>4. loop'[gen + 1] = "on" /\ inform'[gen + 1] = Unassigned
    BY <2>1, <2>2, <2>3
  <2>5. QED
    BY <2>1, <2>2, <2>4 DEF PodsInv, RestartLosesNoPod, DoneIsBound, Unassigned
<1>3. CASE StartFails \/ RestartScheduler \/ StopScheduler
  <2>1. \A g \in Gens : ctx'[g] # "live"
    BY <1>3, NewScheduler, ShutdownStops
       DEF StartFails, FailAs, RestartScheduler, StopScheduler
  <2>2. UNCHANGED <<attempt, binding>>
    BY <1>3 DEF StartFails, FailAs, RestartScheduler, StopScheduler, podVars, runVars
  <2>3. QED
    BY <2>1, <2>2 DEF PodsInv, RestartLosesNoPod, DoneIsBound
<1>4. ASSUME NEW p \in Pods, CreatePod(p) PROVE PodsInv'
  <2>1. /\ UNCHANGED <<ctx, binding, loop, attempt>>
        /\ pod' = [pod EXCEPT ![p] = "live"]
        /\ inform' = [g \in Gens |-> IF ctx[g] = "live" THEN inform[g] \cup {p}
                                                        ELSE inform[g]]
    BY <1>4 DEF CreatePod, svcVars
  <2>2. pod \in [Pods -> {"absent", "live"}]
    BY DEF ServiceInv, ServiceTypeOK
  <2>3. QED
    BY <2>1, <2>2 DEF PodsInv, RestartLosesNoPod, DoneIsBound
<1>5. CASE CreateNode
  <2>1. /\ UNCHANGED <<ctx, pod, binding, loop, inform>>
        /\ \E backingoff \in SUBSET Pods :
              attempt' = [g \in Gens |-> [p \in Pods |->
                  IF ctx[g] = "live" /\ attempt[g][p] = "unschedulable"
                  THEN IF p \in backingoff THEN "backoff" ELSE "queued"
                  ELSE attempt[g][p]]]
    BY <1>5 DEF CreateNode, svcVars, podVars
  <2>2. \A g \in Gens : \A p \in Pods : Handled(g, p)
    BY <2>1 DEF Handled
  <2>3. QED
    BY <2>1, <2>2, PodsKept
<1>6. CASE \E g \in Gens : Loop(g) \/ \E p \in Pods :
              addPodToSchedulingQueue(g, p) \/ AllowTimer(g, p) \/ Binder(g, p)
  BY <1>6, SchedulersKeepPods DEF Loop, Binder
<1>7. QED
  BY <1>1, <1>2, <1>3, <1>4, <1>5, <1>6 DEF ServiceNext, Main, Scenario

(***************************************************************************)
(* For any number of restarts and failures, the scheduler that is live has *)
(* every pod that is not bound.                                            *)
(***************************************************************************)
THEOREM NoPodIsLostByRestarts == ServiceSpec => []RestartLosesNoPod
<1>1. ServiceInit => PodsInv
  BY DEF ServiceInit, PodsInv, RestartLosesNoPod, DoneIsBound
<1>2. PodsInv => RestartLosesNoPod
  BY DEF PodsInv
<1>3. QED
  BY <1>1, <1>2, PodsStep, ServiceInvariant, PTL DEF ServiceSpec
=============================================================================
