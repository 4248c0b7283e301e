-------------------------- MODULE SchedulerService --------------------------
(***************************************************************************)
(* The program around the scheduler: main starts the API server, the       *)
(* PersistentVolume controller and the scheduler service (sched.go,        *)
(* k8sapiserver, pvcontroller, scheduler/scheduler.go), and stops them in  *)
(* the reverse order; in between the scheduler may be restarted.           *)
(*                                                                         *)
(* A restart cancels the context of the old scheduler and waits for        *)
(* nothing: its loop, its binding goroutines and its timers go on beside   *)
(* those of the new one.  The plugins are variables of the program that    *)
(* outlive both, and NodeNumber's keeps the handle of the scheduler that   *)
(* created it.                                                             *)
(*                                                                         *)
(* Of a scheduler's inside, which module Scheduler models, only the stages *)
(* of an attempt are kept, and its outcomes are free.  Timers are punctual *)
(* here: NodeNumber's runs before the waiting pod's own.                   *)
(***************************************************************************)
EXTENDS Integers

CONSTANTS
    Pods,
    MaxGen,         \* bound: how many schedulers are created
    MaxEvents       \* bound: how many node events release rejected pods

Gens == 1 .. MaxGen

ASSUME ServiceAssumption == MaxGen \in Nat \ {0} /\ MaxEvents \in Nat

VARIABLES
    main,           \* where main is
    api, pv,        \* "down", "up" or "stopped"
    gen,            \* how many schedulers were created
    ctx,            \* for each its context: "none", "live" or "cancelled"
    shutdownfn,     \* the context that the service's shutdownfn cancels
    h,              \* the scheduler in the handle of the NodeNumber plugin
    pod,            \* "absent" or "live"
    binding,        \* which scheduler bound the pod
    inform,         \* pods that the scheduler's informer has yet to report
    loop,           \* "off", "on" or "ended"
    attempt,        \* how far a scheduler's attempt at a pod is
    timer,          \* NodeNumber's timer of this attempt is running
    events,
    dead            \* a nil dereference ended the process

progVars == <<main, api, pv>>
svcVars == <<gen, ctx, shutdownfn, h>>
podVars == <<pod, binding>>
runVars == <<inform, loop, attempt, timer, events>>

vars == <<progVars, svcVars, podVars, runVars, dead>>

Stages == {"none", "queued", "scheduling", "waiting", "bind", "sent",
           "unschedulable", "backoff", "done"}

(***************************************************************************)
(* The state has the right shape.                                          *)
(***************************************************************************)
ServiceTypeOK ==
    /\ main \in {"config", "api", "healthz", "pv", "start", "scenario", "restart",
                 "stop scheduler", "stop pv", "stop api", "exit"}
    /\ api \in {"down", "up", "stopped"} /\ pv \in {"down", "up", "stopped"}
    /\ gen \in 0 .. MaxGen /\ shutdownfn \in 0 .. gen /\ h \in 0 .. gen
    /\ ctx \in [Gens -> {"none", "live", "cancelled"}]
    /\ \A g \in Gens : ctx[g] = "none" <=> g > gen
    /\ pod \in [Pods -> {"absent", "live"}]
    /\ binding \in [Pods -> 0 .. gen]
    /\ inform \in [Gens -> SUBSET Pods]
    /\ loop \in [Gens -> {"off", "on", "ended"}]
    /\ attempt \in [Gens -> [Pods -> Stages]]
    /\ timer \in [Gens -> [Pods -> BOOLEAN]]
    /\ events \in 0 .. MaxEvents
    /\ dead \in BOOLEAN

ServiceInit ==
    /\ main = "config" /\ api = "down" /\ pv = "down"
    /\ gen = 0 /\ shutdownfn = 0 /\ h = 0
    /\ ctx = [g \in Gens |-> "none"]
    /\ pod = [p \in Pods |-> "absent"] /\ binding = [p \in Pods |-> 0]
    /\ inform = [g \in Gens |-> {}]
    /\ loop = [g \in Gens |-> "off"]
    /\ attempt = [g \in Gens |-> [p \in Pods |-> "none"]]
    /\ timer = [g \in Gens |-> [p \in Pods |-> FALSE]]
    /\ events = 0
    /\ dead = FALSE

Running == ~dead /\ main # "exit"

----------------------------------------------------------------------------
(* main.                                                                   *)

\* A variable of the environment is missing, or the port is no number.
NewConfig ==
    /\ Running /\ main = "config"
    /\ main' \in {"api", "exit"}
    /\ UNCHANGED <<api, pv, svcVars, podVars, runVars, dead>>

(***************************************************************************)
(* StartAPIServer creates the API server, which answers from then on, and  *)
(* waits until it is healthy.  If either fails main ends at once; what was *)
(* started is closed before, except after an early error of the first.     *)
(***************************************************************************)
CreateAPIServer ==
    /\ Running /\ main = "api"
    /\ \/ main' = "healthz" /\ api' = "up"
       \/ main' = "exit" /\ api' \in {"up", "stopped"}
    /\ UNCHANGED <<pv, svcVars, podVars, runVars, dead>>

PollHealthz ==
    /\ Running /\ main = "healthz"
    /\ \/ main' = "pv" /\ UNCHANGED api
       \/ main' = "exit" /\ api' = "stopped"
    /\ UNCHANGED <<pv, svcVars, podVars, runVars, dead>>

StartAPIServer == CreateAPIServer \/ PollHealthz

(***************************************************************************)
(* StartPersistentVolumeController succeeds, or cancels what it started    *)
(* and main stops the API server.                                          *)
(***************************************************************************)
StartPersistentVolumeController ==
    /\ Running /\ main = "pv"
    /\ \/ main' = "start" /\ pv' = "up"
       \/ main' = "stop api" /\ pv' = "stopped"
    /\ UNCHANGED <<api, svcVars, podVars, runVars, dead>>

\* The pods that a new informer reports: those that are there, unassigned.
Unassigned == {p \in Pods : pod[p] = "live" /\ binding[p] = 0}

(***************************************************************************)
(* StartScheduler, called by main or by RestartScheduler.  NodeNumber is   *)
(* created with the first scheduler as its handle, and never again.        *)
(***************************************************************************)
StartAs(fn, pods) ==
    /\ Running /\ main \in {"start", "restart"} /\ gen < MaxGen
    /\ gen' = gen + 1
    /\ ctx' = [ctx EXCEPT ![gen + 1] = "live"]
    /\ shutdownfn' = fn
    /\ h' = IF h = 0 THEN gen + 1 ELSE h
    /\ inform' = [inform EXCEPT ![gen + 1] = pods]
    /\ loop' = [loop EXCEPT ![gen + 1] = "on"]
    /\ main' = "scenario"
    /\ UNCHANGED <<api, pv, podVars, attempt, timer, events, dead>>

\* Mutants: the first cancel function is kept; the new informer reports
\* only pods that are created later.
MutStartKeepsFirst == StartAs(IF shutdownfn = 0 THEN gen + 1 ELSE shutdownfn, Unassigned)
MutStartForgetsPods == StartAs(gen + 1, {})

StartScheduler == StartAs(gen + 1, Unassigned)

(***************************************************************************)
(* minisched.New fails, at its first plugin: the context is cancelled and  *)
(* shutdownfn stays as it is.  main gives up; RestartScheduler returns.    *)
(***************************************************************************)
FailAs(context) ==
    /\ Running /\ main \in {"start", "restart"} /\ gen < MaxGen
    /\ gen' = gen + 1
    /\ ctx' = [ctx EXCEPT ![gen + 1] = context]
    /\ main' = IF main = "start" THEN "stop pv" ELSE "scenario"
    /\ UNCHANGED <<api, pv, shutdownfn, h, podVars, runVars, dead>>

\* Mutants: the context is not cancelled; there is none.
MutStartFailsLive == FailAs("live")
MutStartFailsNoContext == FailAs("none")

StartFails == FailAs("cancelled")

\* shutdownfn is nil before the first scheduler has started.
ShutdownScheduler ==
    ctx' = IF shutdownfn = 0 THEN ctx ELSE [ctx EXCEPT ![shutdownfn] = "cancelled"]

\* The first half of RestartScheduler.
RestartScheduler ==
    /\ Running /\ main = "scenario" /\ gen < MaxGen
    /\ ShutdownScheduler
    /\ main' = "restart"
    /\ UNCHANGED <<api, pv, gen, shutdownfn, h, podVars, runVars, dead>>

(***************************************************************************)
(* The scenario creates pods, and nodes, whose events release rejected     *)
(* pods.  It ends when it likes, or with an error.                         *)
(***************************************************************************)
CreatePod(p) ==
    /\ Running /\ main = "scenario" /\ pod[p] = "absent"
    /\ pod' = [pod EXCEPT ![p] = "live"]
    /\ inform' = [g \in Gens |-> IF ctx[g] = "live" THEN inform[g] \cup {p}
                                                    ELSE inform[g]]
    /\ UNCHANGED <<progVars, svcVars, binding, loop, attempt, timer, events, dead>>

\* A pod that is still backing off goes to podBackoffQ, for good.
CreateNode ==
    /\ Running /\ main = "scenario" /\ events < MaxEvents
    /\ events' = events + 1
    /\ \E backingoff \in SUBSET Pods :
          attempt' = [g \in Gens |-> [p \in Pods |->
              IF ctx[g] = "live" /\ attempt[g][p] = "unschedulable"
              THEN IF p \in backingoff THEN "backoff" ELSE "queued"
              ELSE attempt[g][p]]]
    /\ UNCHANGED <<progVars, svcVars, podVars, inform, loop, timer, dead>>

ScenarioEnds ==
    /\ Running /\ main = "scenario"
    /\ main' = "stop scheduler"
    /\ UNCHANGED <<api, pv, svcVars, podVars, runVars, dead>>

StopScheduler ==
    /\ Running /\ main = "stop scheduler"
    /\ ShutdownScheduler
    /\ main' = "stop pv"
    /\ UNCHANGED <<api, pv, gen, shutdownfn, h, podVars, runVars, dead>>

StopPV ==
    /\ Running /\ main = "stop pv"
    /\ pv' = "stopped"
    /\ main' = "stop api"
    /\ UNCHANGED <<api, svcVars, podVars, runVars, dead>>

(***************************************************************************)
(* The API server's Close blocks until no request is outstanding: neither  *)
(* a binding nor the watches of an informer that was not stopped.          *)
(***************************************************************************)
Outstanding ==
    \/ pv = "up"
    \/ \E g \in Gens : ctx[g] = "live" \/ \E p \in Pods : attempt[g][p] = "sent"

StopAPIServer ==
    /\ Running /\ main = "stop api" /\ ~Outstanding
    /\ api' = "stopped"
    /\ main' = "exit"
    /\ UNCHANGED <<pv, svcVars, podVars, runVars, dead>>

----------------------------------------------------------------------------
(* A scheduler.                                                            *)

SetAttempt(g, p, stage) == attempt' = [attempt EXCEPT ![g][p] = stage]

\* The informer reports a pod, perhaps even after it was told to stop.
addPodToSchedulingQueue(g, p) ==
    /\ Running /\ p \in inform[g]
    /\ inform' = [inform EXCEPT ![g] = @ \ {p}]
    /\ SetAttempt(g, p, "queued")
    /\ UNCHANGED <<progVars, svcVars, podVars, loop, timer, events, dead>>

Busy(g) == \E p \in Pods : attempt[g][p] = "scheduling"

(***************************************************************************)
(* NextPod returns a pod.  A loop that was cancelled while it is in        *)
(* NextPod stays there until a pod comes.                                  *)
(***************************************************************************)
NextPod(g, p) ==
    /\ Running /\ loop[g] = "on" /\ ~Busy(g) /\ attempt[g][p] = "queued"
    /\ SetAttempt(g, p, "scheduling")
    /\ UNCHANGED <<progVars, svcVars, podVars, inform, loop, timer, events, dead>>

\* UntilWithContext looks at the context between two calls of scheduleOne.
LoopGoesOn(g) ==
    loop' = IF ctx[g] = "cancelled" THEN [loop EXCEPT ![g] = "ended"] ELSE loop

(***************************************************************************)
(* The rest of scheduleOne: a failure (Nodes().List always fails with a    *)
(* cancelled context), a node that asks to wait, or one that does not.     *)
(* Bound: a second timer waits for the first.                              *)
(***************************************************************************)
scheduleOne(g, p) ==
    /\ Running /\ attempt[g][p] = "scheduling"
    /\ LoopGoesOn(g)
    /\ \/ SetAttempt(g, p, "unschedulable") /\ UNCHANGED timer
       \/ /\ ctx[g] = "live" /\ ~timer[g][p]
          /\ SetAttempt(g, p, "waiting")
          /\ timer' = [timer EXCEPT ![g][p] = TRUE]
       \/ /\ ctx[g] = "live"
          /\ SetAttempt(g, p, "bind")
          /\ UNCHANGED timer
    /\ UNCHANGED <<progVars, svcVars, podVars, inform, events, dead>>

(***************************************************************************)
(* NodeNumber's timer looks the pod up in the scheduler of its handle, and *)
(* allows it there.                                                        *)
(***************************************************************************)
AllowTimer(g, p) ==
    /\ Running /\ timer[g][p]
    /\ timer' = [timer EXCEPT ![g][p] = FALSE]
    /\ IF attempt[h][p] = "waiting"
       THEN SetAttempt(h, p, "bind") /\ UNCHANGED dead
       ELSE dead' = TRUE /\ UNCHANGED attempt
    /\ UNCHANGED <<progVars, svcVars, podVars, inform, loop, events>>

\* The waiting pod's own timer, whatever became of the context.
RejectTimer(g, p) ==
    /\ Running /\ attempt[g][p] = "waiting" /\ ~timer[g][p]
    /\ SetAttempt(g, p, "unschedulable")
    /\ UNCHANGED <<progVars, svcVars, podVars, inform, loop, timer, events, dead>>

\* Mutant: without a context to send the request with, Bind waits for one.
MutBindSendWaits(g, p) ==
    /\ Running /\ attempt[g][p] = "bind" /\ ctx[g] = "live"
    /\ SetAttempt(g, p, "sent")
    /\ UNCHANGED <<progVars, svcVars, podVars, inform, loop, timer, events, dead>>

\* Bind: with a cancelled context no request is sent.
BindSend(g, p) ==
    /\ Running /\ attempt[g][p] = "bind"
    /\ SetAttempt(g, p, IF ctx[g] = "live" THEN "sent" ELSE "unschedulable")
    /\ UNCHANGED <<progVars, svcVars, podVars, inform, loop, timer, events, dead>>

(***************************************************************************)
(* A request that was sent takes effect or does not, and the answer comes  *)
(* or is lost, be the context cancelled by now or not.                     *)
(***************************************************************************)
BindReturns(g, p) ==
    /\ Running /\ attempt[g][p] = "sent"
    /\ \/ /\ binding[p] = 0
          /\ binding' = [binding EXCEPT ![p] = g]
          /\ \E stage \in {"done", "unschedulable"} : SetAttempt(g, p, stage)
       \/ /\ SetAttempt(g, p, "unschedulable")
          /\ UNCHANGED binding
    /\ UNCHANGED <<progVars, svcVars, pod, inform, loop, timer, events, dead>>

----------------------------------------------------------------------------
(* The specification.                                                      *)

Scenario == RestartScheduler \/ CreateNode \/ ScenarioEnds
            \/ \E p \in Pods : CreatePod(p)

Main == \/ NewConfig \/ StartAPIServer \/ StartPersistentVolumeController
        \/ StartScheduler \/ StartFails
        \/ StopScheduler \/ StopPV \/ StopAPIServer

Loop(g) == \E p \in Pods : NextPod(g, p) \/ scheduleOne(g, p)

Binder(g, p) == RejectTimer(g, p) \/ BindSend(g, p) \/ BindReturns(g, p)

ServiceNext ==
    \/ Main \/ Scenario
    \/ \E g \in Gens : Loop(g) \/ \E p \in Pods :
          addPodToSchedulingQueue(g, p) \/ AllowTimer(g, p) \/ Binder(g, p)

ServiceSpec == ServiceInit /\ [][ServiceNext]_vars

(***************************************************************************)
(* Goroutines run, timers run, requests return, and informers that were    *)
(* not stopped report.  The scenario may take for ever.                    *)
(***************************************************************************)
ServiceFairSpec ==
    /\ ServiceSpec
    /\ WF_vars(Main)
    /\ \A g \in Gens :
          /\ WF_vars(Loop(g))
          /\ \A p \in Pods :
                /\ WF_vars(Binder(g, p)) /\ WF_vars(AllowTimer(g, p))
                /\ WF_vars(ctx[g] = "live" /\ addPodToSchedulingQueue(g, p))

----------------------------------------------------------------------------
(* Properties.                                                             *)

(***************************************************************************)
(* At most one scheduler is live, however often it was restarted and       *)
(* failed to start, and shutdownfn is what stops it.                       *)
(***************************************************************************)
OneLiveScheduler == \A g \in Gens : ctx[g] = "live" => g = shutdownfn /\ g = gen

(***************************************************************************)
(* A restart loses no pod: a live scheduler, whatever became of those      *)
(* before it and wherever they had the pod, has every pod that is not      *)
(* bound, in its informer, in a queue (podBackoffQ, which nobody empties,  *)
(* included) or in an attempt, and its loop is running.                    *)
(***************************************************************************)
RestartLosesNoPod ==
    \A g \in Gens : ctx[g] = "live" =>
        /\ loop[g] = "on"
        /\ \A p \in Pods : pod[p] = "live" =>
              \/ binding[p] # 0 \/ p \in inform[g]
              \/ attempt[g][p] \notin {"none", "done"}

(***************************************************************************)
(* Whichever way main got there, through failures and restarts, when it    *)
(* closes the API server all who keep watches open were told to stop: what *)
(* is outstanding are requests, which return.                              *)
(***************************************************************************)
CloseWaitsForRequestsOnly ==
    main = "stop api" => pv # "up" /\ \A g \in Gens : ctx[g] # "live"

(***************************************************************************)
(* When the scenario has ended main exits: with the order of its deferred  *)
(* calls the API server's Close waits for nobody that nobody stops.        *)
(***************************************************************************)
MainExits == main = "stop scheduler" ~> main = "exit" \/ dead

(***************************************************************************)
(* The binding goroutines of a scheduler that was shut down end, although  *)
(* none looks at the context while it waits.                               *)
(***************************************************************************)
OldGoroutinesEnd ==
    \A g \in Gens : ctx[g] = "cancelled" ~>
        \/ \A p \in Pods : attempt[g][p] \notin {"waiting", "bind", "sent"}
        \/ ~Running

(***************************************************************************)
(* A restart loses no pod: a pod that is not bound, wherever the old       *)
(* scheduler had it, is tried by the new one, and ends up bound or         *)
(* rejected there, unless no scheduler is live any more.                   *)
(***************************************************************************)
Settled(p) == \/ binding[p] # 0
              \/ gen # 0 /\ attempt[gen][p] \in {"unschedulable", "backoff"}

PodSettles ==
    \A p \in Pods : pod[p] = "live" ~>
        Settled(p) \/ ~Running \/ main # "scenario" \/ ctx[gen] # "live"

(***************************************************************************)
(* What the comment on Handle says ("GetWaitingPod returns a waiting pod   *)
(* given its UID"): a timer finds the pod it is to allow.                  *)
(***************************************************************************)
HandleFindsWaitingPod == ~dead
=============================================================================
