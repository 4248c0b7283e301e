# Verification of mini-kube-scheduler

TLA+ models of the scheduler in `src/minisched`, of the program around it
(`src/sched.go`, `src/scheduler`) and of the simulator's plugins and result store
(`src/scheduler/plugin`), TLC configurations that check them on small instances,
and TLAPS proofs of the results that matter most.
`PROJECT.json` lists components, runs, findings, hazards and theorems, and maps
every definition to the lines it models.

## The system

| Part | State | Operations | Modelled in |
|---|---|---|---|
| Cluster events (`minisched/initialize.go`, `eventhandler.go`) | which plugin registered which event; which informer handlers exist | registration, handler construction, matching | `ClusterEvents` |
| Scheduling queue (`minisched/queue/queue.go`) | `activeQ`, `podBackoffQ`, `unschedulableQ`, a lock | `Add`, `MoveAllToActiveOrBackoffQueue`, `AddUnschedulable`, `NextPod` | `QueueData`, `SchedulingQueue` |
| Waiting pod (`minisched/waitingpod/waitingpod.go`) | pending plugins, their timers, a channel for one signal | `NewWaitingPod`, `Allow`, `Reject`, `GetSignal` | `WaitingPodData`, `WaitingPod` |
| Scheduling cycle and NodeNumber (`minisched/minisched.go`, `plugins/score/nodenumber`) | the cycle state | filter, prescore, score, `selectHost`, `Permit` | `SchedulingCycle` |
| Scheduler (`minisched/minisched.go`) | the loop, the binding goroutines, `waitingPods` | `scheduleOne`, `WaitOnPermit`, `Bind`, `ErrorFunc` | `Scheduler` |
| Scheduler service (`scheduler/scheduler.go`, `minisched/initialize.go`) | the cancel function, the plugin singletons | start, restart, shutdown | `SchedulerService` |
| Main program (`sched.go`), API server, PV controller, environment | what was started | start-up with its error paths, the deferred calls | `SchedulerService` |
| Simulator plugins (`scheduler/plugin`, `scheduler/scheduler.go`) | configurations, the registry of wrapping plugins | conversion, wrapped `Filter` and `Score` | `PluginConfig`, `ResultStore`, `Simulator` |
| Result store (`scheduler/plugin/resultstore`) | results per pod | additions, annotation of pods, deletion | `ResultStore`, `Simulator` |
| OpenAPI definitions (`k8sapiserver/openapi`) | - | generated data | not modelled |

How they interact. The informers' goroutines call `Add` for a new pod that is
not assigned, and `MoveAllToActiveOrBackoffQueue` for every node event that some
plugin registered. One goroutine loops over `scheduleOne`: it takes a pod with
`NextPod`, lists the nodes, filters, scores and selects one, runs the permit
plugins, and starts a goroutine that waits for the permission and binds the pod.
Every failure, in the loop or in the goroutine, ends in `ErrorFunc`, which gives
the pod back with `AddUnschedulable`. `NodeNumber` asks a pod to wait and arms a
timer that looks the waiting pod up by UID and allows it; the waiting pod has a
timer of its own that rejects it after 10 seconds.

`main` starts the API server, the PersistentVolume controller and, through the
service, the scheduler, runs a scenario, and stops them in the reverse order. The
service can restart the scheduler: it cancels the old one's context and starts a
new one without waiting for anything.

The simulator is a second way to schedule: a configuration for kube-scheduler is
converted, so that the default filter and score plugins are replaced by plugins
that wrap them. These add their decisions to the result store, whose handler of
pod updates writes them on the pod as annotations and deletes them.

What is hard here:

* `NextPod` takes no lock, and neither does the map `waitingPods`;
* pods are told apart by UID in `waitingPods`, by name in `unschedulableQ`, and
  there is no handler for deleted pods: the attempt of a deleted pod goes on
  beside that of its successor;
* a node event may be handled between the node list and `AddUnschedulable`;
* timers race with each other, with the goroutine they wake up and with the code
  that records what they will look for; a timer may run late, in a later attempt;
* whether a rejected pod is ever released depends on the registrations, the
  handlers and the plugin names that failures carry, all together;
* a binding may be made although the call returned an error;
* a restarted scheduler runs beside what is left of the old one, with plugins
  that hold the old one's handle;
* closing the API server blocks until no request, and so no watch, is left;
* the result store is read, and results are deleted, without its lock, around an
  API call, while plugins add to it;
* the conversion changes its argument in place and may stop half-way, by an error
  or a nil dereference.

What correctness means, part by part: the queue neither loses nor duplicates a
pod and hands pods out in order (`OnePlace`, `LifecycleSpec`); a wait ends, with
the first decision, and in success only if all plugins allowed
(`CanStillEnd`, `WaitEnds`, `FirstDecisionStands`, `SuccessMeansAllAllowed`); an
event releases the pods it may help (`MoveLeavesOnlyUnmatched`,
`EveryEventReleasesAll`); a pod has one attempt at a time and every attempt ends
(`AtOnePlace`, `AttemptEnds`); `waitingPods` neither leaks nor loses
(`WaitingPodHasBinder`); the delay of NodeNumber is kept (`DelayIsKept`). One
scheduler is live at a time, a restart loses no pod, its left-overs end and so does
the program (`OneLiveScheduler`, `RestartLosesNoPod`, `PodSettles`,
`OldGoroutinesEnd`, `CloseWaitsForRequestsOnly`, `MainExits`). The converted
configuration has the wrapper of each default plugin that the caller leaves on, is
one that kube-scheduler accepts, and is not converted again
(`SimulatesWhatWasAsked`, `OneConfigPerPlugin`, `ConvertsOnce`); results reach the
pod, but for what is added meanwhile, before they are deleted
(`ReportedResultsLeave`, `OneScoreLacksFinalScore`, `OnlyLateResultsAreLost`,
`HandlerFindsResults`).

## The modules

`ClusterEvents` and `SchedulingCycle` are pure: functions of the code as
operators. An `ActionType`, a bit mask in the code, is the set of its bits. Of a
name only the last character is kept, a digit or `NaN`; the random choice of
`selectHost` is the set of nodes of maximal score.

`QueueData` has the entries of `unschedulableQ`. Instead of a timestamp an entry
has its age, which stops growing when the backoff is over. `Attempts` is 0: no
code sets it.

`SchedulingQueue` is the queue with the threads that use it. A locked operation
is cut at each read and each write of `activeQ`, because `NextPod` may run in
between: `AddLoad`/`AddStore`, `MoveLoad`/`MoveStore`, and for `NextPod`
`NextPodHead`, `NextPodSlice`, `NextPodStore`. `AddUnschedulable` does not touch
`activeQ` and is one step. `place` (where each pod is by the book: where the
operations that completed put it) and `races` (how often a write replaced a value
that its thread had not read) are history variables, and so is `lock.moved`;
no guard but the bound on `races` reads them, except that a pod is added once.
`Finish` and the choice of the plugins in `AddUnschedulable` stand for the rest
of the scheduler.

Two facts about compiled Go are built in. A slice header is read and written as
a unit, except that `append` writes the length before the element: `NextPodTorn`
is the `NextPod` that sees the new length of an empty queue and no element, and
ends the process. And a thread is overtaken exactly if the header is no longer
equal to the one it read: while the lock holder is between its read and its write
only `NextPod` writes, which shortens the queue, and while `NextPod` is, the others
only append to what they read, so a header cannot be changed and changed back.

`PodLifecycle` is the abstract specification: where each pod is, and a FIFO queue.
`SchedulingQueue` implements it until an update is overwritten (`broken`), and so
does `Scheduler`, in which no update is. A pod whose entry in `unschedulableQ` one
of the same name replaces is booked as replaced, by `PodLifecycle` as well; that
this may be the pod that exists is the finding of `scheduler_replaced_pod`.

`WaitingPodData` has the waiting pod as a value and its methods as operators.
`WaitingPod` adds the goroutines. `Allow` holds the mutex as a writer and is one
step; `Reject` holds it as a reader, so its two halves (`RejectStop`,
`RejectSend`) interleave with other calls of `Reject`; a timer that has fired
can no longer be stopped.

`Scheduler` composes everything: users who create and delete pods and create,
cordon, uncordon and delete nodes; the informers as two queues of events, since
the order between pod and node events is not fixed; the queue; the loop, cut
where other threads can see or change what it uses (`NextPod`, the node list,
`Permit`, `RecordWaitingPod`, the failure); a binding goroutine per pod; the
timers. Failing API calls are `ListError` and `BindError`, the latter with and
without the binding made. `ConcurrentMapAccess` is the Go runtime's fatal error
for the unlocked map: it may happen whenever one goroutine is about to write
`waitingPods` and another is about to use it.

The queue's operations are single steps in `Scheduler`, except that `NextPod` can
run between two entries of a `MoveAllToActiveOrBackoffQueue`. Theorem
`QueueImplementsLifecycle` is the reason why that is enough as long as no update
is overwritten: a pod has at most one attempt, so that an attempt can be named by
its pod. The results about `Scheduler` therefore hold as long as no update of
`activeQ` is overwritten; `SchedulingQueue` alone has what happens then. The receive
in `GetSignal` and the deferred `delete` are one step, as
are `NewWaitingPod` and the store in the map, and a timer's lookup and its
`Allow`: a goroutine that runs between the halves of one of these either finds a
waiting pod that nobody waits for any more, and a signal there changes nothing,
or meets the map exactly as in one of the merged orders.

`SchedulerService` is the program around the scheduler. Schedulers are numbered
by generation; each has a context, an informer, a loop and, per pod, the stage of
its attempt, with the outcomes of a cycle left free: what happens inside is
`Scheduler`. `StartAs` and `FailAs` are `StartScheduler` and its failure (the
first plugin's construction; later failures leave the same state but for the
handle), for `main` and for `RestartScheduler`, which is not atomic: between its
halves the old goroutines run. `h` is the handle in the NodeNumber singleton,
always that of the first scheduler. A pod that an event finds still backing off
goes to `podBackoffQ` (stage `backoff`) and stays there until the scheduler is
replaced; `PodSettles` counts it as settled. Timers are punctual here, unlike in
`Scheduler`. The scenario is freer than the code's: it creates pods and nodes in
any order and ends at any time, and it may restart the scheduler, which nothing
in the repository does (the service exports `RestartScheduler` for its users).

`PluginConfig` is the conversion of a configuration, as operators. A plugin's
name is a sequence of words, so that wrapping appends one; arguments are functions
of field names, so that raw arguments override the defaults field by field and an
object as a whole. A loop over entries or profiles ends with the first step that
fails (`LoopOutcome`) and leaves what comes after it alone; what a loop appends is
the sublist of the elements at the indices it does not skip (`Sublist`, `WithArgs`).
The outcome of a conversion is `ok`, `error` or `panic`, and with it comes what became
of the caller's object. A user's plugins survive only
beside `*` in the disabled list: the idiom for another weight (disable a default
plugin and enable it again) drops the plugin.

Before it returns, the conversion fills in defaults in the same object; that adds
neither a filter nor a score plugin, since `*` is disabled by then, and no property
sees the rest. `convertConfigurationForSimulator` is called by a test only, and
`NewRegistry` by nothing: the repository has the simulator's parts and does not use
them, and `Simulator` calls them in the order in which they fit together.

`ResultStore` has a pod's results as a value, and the registry. `Simulator` puts it
together around one pod: the caller converts (once, twice, or again after a failure)
and starts; the scheduling cycle, external, calls filters in the order of the list
for all nodes concurrently, then scores. `AddFilterResult` and `AddScoreResult` hold
the store's lock (`adding`), which the handler does not take. They are cut where
they look the pod's results up (`LookUpResults`) and where they assign
(`AssignResult`): a score and its final score are two look-ups and two assignments.
If the results were deleted in between, nil is dereferenced (`AdditionPanics`). The
handler is cut at each unlocked read, at the API update and at the deletion. One
read of a map for JSON is one step: an addition to that map either is seen or is
not, or the runtime notices (`ConcurrentMapAccess`, as in `Scheduler`); it cannot
be seen in part, except as an empty map for the node, which says nothing. The API
server refuses a stale object. The handler's failed update ends it: the function
that is to be retried returns the error instead of "not done". `late` is a history
variable.

## The runs

All with deadlock checking off, except `waiting_pod`: the scheduler may
have nothing to do, the program exits, and a panic ends it. (In `WaitingPod` a plugin may
always call `Allow` again.)

| Run | Instance | What it shows |
|---|---|---|
| `queue` | a pod, its next incarnation, a second pod; one overwritten update, fair | shape, `OnePlace`, `NeverSlicesEmpty`, `MoveLeavesOnlyUnmatched`, refinement of `PodLifecycle`, `ActiveIsHandedOut`, `LockIsReleased` |
| `queue_lost_update` (violation) | two pods | a pod that was just moved to `activeQ` is discarded by `NextPod` |
| `waiting_pod` | three plugins, fair | shape, `SuccessMeansAllAllowed`, `FirstDecisionStands`, `CanStillEnd`, `WaitEnds` |
| `scheduler` | two incarnations of a pod, a node with a number and one without, two node changes | shape, `AtOnePlace`, `WaitingPodHasBinder`, `DelayIsKept`, `EveryEventReleasesAll`, refinement of `PodLifecycle` |
| `scheduler_live` | a pod with a number and one without, one node, two node changes, fair | `AttemptEnds` |
| `scheduler_node_zero` (violation) | one pod, a node whose number is 0 | the timer finds no waiting pod and dereferences nil |
| `scheduler_missed_event` (violation) | one pod, one node | a pod waits although a node is ready and no event is left |
| `scheduler_replaced_pod` (violation) | two incarnations of a pod, one node | the entry of the pod that exists is replaced by that of its deleted predecessor |
| `simulator` | 253 configurations; one pod, one node, two cycles, one update by others; fair | shape, `SimulatesWhatWasAsked`, `OneConfigPerPlugin`, `ConvertsOnce`, `HandlerFindsResults`, `OneScoreLacksFinalScore`, `OnlyLateResultsAreLost`, `ReportedResultsLeave` |
| `simulator_late_result` (violation) | the same | a result that was added after the handler's read is deleted and on no pod |
| `service` | one pod, three schedulers, two node events, fair | shape, `OneLiveScheduler`, `RestartLosesNoPod`, `CloseWaitsForRequestsOnly`, `MainExits`, `OldGoroutinesEnd`, `PodSettles` |
| `service_restart_handle` (violation) | one pod, one restart | NodeNumber's timer looks in the old scheduler and dereferences nil |

Findings, with the line that says otherwise, are in `PROJECT.json`. In short:
`NextPod` without the lock can lose pods; the permit timer for a node whose name
ends in 0 can run before the waiting pod is recorded; a node event between the node
list and `AddUnschedulable` is missed; a deleted pod can take its successor's place
in `unschedulableQ`; the result store deletes results that it did not write on the
pod; after a restart NodeNumber allows pods in the wrong scheduler, or dereferences
nil.

Beside these, the models have some behaviour that a reader may not expect, and that
needs no search to be seen:

* nothing takes a pod out of `podBackoffQ` (`flushBackoffQCompleted` is not
  implemented), so that a pod that is still backing off when an event comes is never
  scheduled again;
* a pod whose name ends in no digit is never scheduled: `PreScore` succeeds "even if
  its suffix is non-number" (`nodenumber.go:54`) and leaves no state, and `Score`
  then fails on every node (`ScoreError`);
* a timer of NodeNumber that runs late allows the pod's next attempt before that
  one's delay is over (`LateTimerFires`, the exception in `DelayIsKept`). It takes a
  goroutine that is delayed by a second if the node's number is 9, else by more;
* a default plugin that the caller enables beside `*` in the disabled list runs
  without its wrapper (`SimulatesWhatWasAsked` says so), although the comment at
  `scheduler.go:95` says that default plugins are replaced;
* `DeleteData` may remove results between an addition's test and its assignment,
  which then dereferences nil (`AdditionPanics`).

That every score on the pod has its final score there does not hold: `AddScoreResult`
writes the two one after the other, and both reads of the handler can fall between
the writes. `OneScoreLacksFinalScore` is what is left of it: however many plugins
score between the two reads, only the one score that was half added is concerned.

### Bounds, and why they are enough

* Pods: two incarnations of one name show everything that the difference between
  key and UID can do; a third pod under another name gives the queue an order
  that a step can disturb. In `scheduler_live` the second pod's name ends in no
  digit, a case of its own: `Score` fails on every node.
* The queue's events and plugin sets: one event, since all are registered under
  the same name, and an entry that names no plugin beside one whose plugin no
  event is registered for. An entry whose plugin matches is released like one that
  names none; `scheduler` has both.
* `MaxRaces` (1): the properties of the queue hold until the first overwritten
  update, or, for `NeverSlicesEmpty`, whatever happens; the proofs lift the bound.
  At the bound a store that would overwrite one more update is not taken, which
  `LockIsReleased` says.
* `MaxChanges` (2): creation of a node and one change of it, or of two
  nodes. Existing nodes are reported as added when the scheduler starts, so that a
  start with nodes is a start without them followed by their creation. Each event
  gives a failed pod one more attempt, so that with two a timer of an earlier
  attempt can meet a later one.
* Late timers: at most one per pod beside that of the current attempt. The third
  attempt waits (bound in the guard of `Permit`).
* Time: `PermitTimeout` is 10 seconds in the code and 2 units here, and the
  numbers of nodes, 0 to 9 in the code, are below it, as in the code. A timer
  whose time has come runs then or later, so every order of timers that the
  seconds allow is explored. The backoff of one second is one unit.
* `WaitingPod`: the code has one permit plugin; the class takes any number, and
  with three (two of them invented) a `Reject` can find one plugin gone and two
  pending.
* `Simulator`: of the default plugins one only filters, one only scores, one does
  both (and so is a default twice) and one has arguments but does neither. The
  configurations have six pairs of four filter and four score sets, which are
  converted independently of each other, or every list of
  one or two plugin configurations from 15 entries, or a second profile that fails.
  One score value: that a later result overwrites an earlier one with another value
  is there with the filters' results.
  One node is enough for what the lock orders: the additions for several nodes come
  one after the other like those of several plugins for one node.
  `MaxCycles` (2): the second cycle meets what the first left in the store. `MaxUpdates` (1):
  one conflict or one early event; `ReportedResultsLeave` excludes with it the
  pod that others update for ever, whose results might never be written.
* `SchedulerService`: `MaxGen` (3) is a start and two restarts, or failures among
  them; the third scheduler meets the left-overs of two. `MaxEvents` (2): a pod is
  released and tried again twice. A pod's second timer waits for its first.

### Fairness

Weak fairness for goroutines inside an operation, for timers and for time: the
Go runtime schedules and preempts goroutines, so that even the spinning `NextPod`
leaves the others their turn. Strong fairness for goroutines that wait for the
queue's lock (`sync.RWMutex` does not starve a writer). No fairness for users,
for failures and for `Allow`: a wait must end by its own timer. In `Simulator` the handler is fair (the informer calls it, and it does
not block), the scheduling cycle is not: results that are reported must leave the
store although the cycle stands still. In `SchedulerService` `main`, goroutines,
timers, API requests (they have an answer or an error) and the informers of live
schedulers are fair; those of stopped ones are not, and the scenario is not: it may
take for ever. Nothing promises
that a process does not die, so `crashed` is an escape in every liveness property
of a module that has it.

## The proofs

Each is for every value of the constants that satisfies the named assumptions: any
number of pods, names, nodes, plugins, restarts and so on. Inductive invariants
were checked by TLC on the instances of the runs before they were proved.

| Module | Theorems | From |
|---|---|---|
| `SchedulingQueueProofs` | `QueueTypeCorrect`, `NextPodNeverSlicesEmpty` | `TypeInv` |
| | `NothingLostOrDuplicated`, `QueueImplementsLifecycle` | `PlaceInv` |
| | `NoHelpedPodIsLeft` | `TypeInv`, `PassedOver` |
| `WaitingPodProofs` | `WaitingPodTypeCorrect`, `NoPrematureSuccess`, `FirstDecisionWins`, `WaitIsNeverStuck` | `WaitInvariant` |
| `SchedulerProofs` | `SchedulerTypeCorrect`, `PodIsAtOnePlace`, `EveryWaitingPodHasItsBinder`, `PermitDelayIsKept`, `EveryHandledEventReleasesAll`, `SchedulerImplementsLifecycle` | `SchedulerInv` (`SchedulerCorrect`) |
| `SimulatorProofs` | `HandlerAlwaysFindsResults`, `AtMostOneHalfReported`, `LosesOnlyLateResults` | `StoreInv` (`StoreCorrect`) |
| | `SimulatorTypeCorrect`, `ConversionKeepsPlugins`, `ConversionConfiguresOnce`, `RetryNeverSucceeds` | `SimulatorInv` (`SimulatorCorrect`) |
| `SchedulerServiceProofs` | `ServiceTypeCorrect`, `AtMostOneLiveScheduler` | `ServiceInv` |
| | `CloseIsNeverHeldUp` | `ServiceInv`, `NothingLiveAtEnd` |
| | `NoPodIsLostByRestarts` | `ServiceInv`, `PodsInv` |

`QueueDataProofs` (entries, and sequences without duplicates) and
`WaitingPodDataProofs` (what `Allow`, `Reject` and a send do with a waiting pod) have
the lemmas that the modules about one component share with `SchedulerProofs`.
`PluginConfigProofs` has those about the conversion: what a sublist contains, which
plugins `ConvertForSimulator` lists, which arguments `NewPluginConfig` returns, what
an outcome says of the steps of a loop, and that a second conversion fails.

**The queue.** `TypeInv` is the types, what the lock holder knows
(`LockConsistent`: the entries it has yet to move are still there, because nobody
else writes `unschedulableQ` while it holds the lock) and what `NextPod` knows
(`NextConsistent`: `activeQ` is not empty between its test and its slice, because
all other writes append). `PlaceInv` adds `OnePlace` and `UndisturbedConsistent`;
the last is needed because `OnePlace` speaks of complete operations: in the middle
of one, the pod that `Add` is about to append must still be new and the pod that
`NextPod` is about to return must still be the head. `QueueImplementsLifecycle`:
every step is a step of `PodLifecycle` or a stutter, or sets `broken`. `PassedOver`
says of the entries that the loop of `MoveAllToActiveOrBackoffQueue` is done with
that the event does not help them.

**Waiting pods.** `WaitInvariant`: a plugin is no longer pending only if it allowed
the pod, and before a decision the timers of pending plugins run or a `Reject` is
on its way.

**The scheduler.** `SchedulerInv` has, beside the types:

* `Exclusive`: of the eight ways in which the variables can know of a pod (`Where`:
  not created, in an event, in one of three queues, in the loop, in a binding
  goroutine, replaced) at most one holds. `AtOnePlace` leaves out the first two and
  the last and is not inductive: `Add` appends a pod that only the informer may
  have had. A step is described by which pods stay, move or leave (`Effect`);
  `ExclusiveStep` shows once that such a step keeps `Exclusive`, and the refinement
  reads the step of `PodLifecycle` off the same description.
* `LoopConsistent`, `QueuesConsistent`, `MoveConsistent`: the loop's variables fit
  where it is; no queue has a pod twice, an entry is under its pod's key, and
  nothing but `NodeUnschedulable` is ever named in one; a
  `MoveAllToActiveOrBackoffQueue` has yet to look at exactly the entries there
  are. The last holds because no event passes an entry over
  (`EveryHandlerHelps`, from the registrations in `ClusterEvents`), and gives
  `EveryEventReleasesAll` when the loop ends.
* `PermitConsistent`: a pod has a waiting pod exactly while its goroutine is to look
  it up or waits, with a signal or a running timer; and a waiting pod that was
  allowed, or a goroutine about to bind, has this attempt's timer behind it or a
  late one. The equivalence is stronger than `WaitingPodHasBinder`: without it a
  goroutine that has yet to look its waiting pod up could miss it and bind at once.

**The simulator.** `StoreInv`: the handler finds results until it deletes them
(`HandlerFindsResults`); every score in the store has its final score there, but for
the one that has the lock and is half added (`Half`), and what the handler has read
of the scores is covered by the final scores that are still to be read and `Half`,
then, but for one, by those it read (`ScoresMatch`); what it has read is what the
store has but for late results, and is on the pod before the deletion
(`ReadIsKept`). `OneScoreLacksFinalScore` is not inductive: `Half` is needed to say
which score may lack its final score while the handler is between the two reads.
`SimulatorInv` adds the counters' bounds and `FirstConversion`:

* after one conversion the object is what `convertConfigurationForSimulator` makes of
  what the caller asked for, so that the properties of the conversion become
  statements about that operator, for every configuration. `ConversionKeepsPlugins` then rests on `SublistIs` (the ranks of
  the indices that are kept number them from 1 on, so that a sublist has each of their
  elements and no other), `ConversionConfiguresOnce` besides on names: a wrapper's ends
  in the suffix and a default plugin's does not, so that the two halves of the list
  cannot meet. A loop that went well had no bad step, because there would be a least
  one (`LoopIsOk`).
* after a second one the outcome is not `ok` (`SecondConversionFails`). If the first
  went well, its result configures the wrapper of some default plugin, which has no
  default arguments; if it did not, the profile at which it stopped still has the
  entry that stopped it, and the loop does not get past it.

**The service.** `ServiceInv`: `OneLiveScheduler` is not inductive, since
`StartScheduler` makes a context live without a look at the others;
`NothingLiveAtStart` says that where it is called there is none, and
`NotCreatedIsIdle` that a binding names a scheduler that exists. `NothingLiveAtEnd`
extends `CloseWaitsForRequestsOnly` to the call before it: none is live when `main`
stops the PV controller, whether it comes from `StopScheduler` or from a failed start.
`PodsInv` adds to `RestartLosesNoPod` that an attempt is done only if the pod is bound
(`DoneIsBound`): without it the new scheduler could be left with a pod that is neither
bound nor tried. A step is described by what it does to one pod in one scheduler
(`Handled`), and `PodsKept` shows once that such steps keep `PodsInv`; a start fills
the new informer with every pod there is.

Assumptions, evaluated by TLC in the runs:

* `QueueAssumption`: keys are a function of pods, `Nil` is neither pod nor entry,
  durations are naturals and the first is positive; `MaxRacesAssumption`;
* `SomePluginWaits` (`RunPermitPlugins` creates a waiting pod only if a plugin asked
  to wait) and `SignalAssumption` (an empty channel is no signal);
* `SchedulerAssumption`: what `minisched/initialize.go` and `minisched.go` fix. The
  permit plugin is NodeNumber, the events are those of `eventsToRegister`, a failure
  names no plugin or `NodeUnschedulable` (both are among `PluginSets`), nodes' numbers
  are below the permit timeout, `Nil` is no waiting pod;
* `NaNAssumption` (no digit is not a digit), `PluginAssumption` (names of default
  plugins differ within a list and none has the suffix `ForSimulator`, weights are
  naturals, finitely many have arguments, among them a default filter or score
  plugin, such as NodeResourcesFit), `SimulatorAssumption` (configurations are
  lists of profiles, `Nil` is no result, scores are integers, bounds are naturals),
  `ServiceAssumption` (bounds).

Only model-checked: liveness (`ActiveIsHandedOut`, `LockIsReleased`, `WaitEnds`,
`AttemptEnds`, `ReportedResultsLeave`, `MainExits`, `OldGoroutinesEnd`, `PodSettles`),
which is out of the prover's reach. Every invariant and every action property of the
passing runs, and both refinements, are proved. So is what some of the liveness
properties rest on: before a decision a timer of the waiting pod is running
(`WaitIsNeverStuck`, for `WaitEnds`), `Close` has nobody to wait
for whom nobody stops (`CloseIsNeverHeldUp`, for `MainExits`), and the live scheduler
has every pod that is not bound (`NoPodIsLostByRestarts`, for `PodSettles`).

## What is not modelled

* `NormalizeScore` of the wrapping plugins and `AddNormalizedScoreResult`: the
  framework calls the extensions that `ScoreExtensions` returns, and those are the
  original plugin's. So the final score that is recorded is the raw score times
  the weight.
* Results of another pod of the same name: the store's key is the name, and
  `Simulator` has one pod. The handler also changes the informer's cached object
  in place; no other code of the repository reads that cache.
* Concurrent calls of the service's methods, which have no lock and no caller.
* Which variables the environment must have, and
  `NewControlPlaneConfigWithOptions`: settings of a third-party server.
* The generated OpenAPI definitions: 53,911 of the repository's 56,336 lines of Go
  code are this one file, data without control flow.
* What happens after more overwritten updates than `MaxRaces`, and a torn read of
  a longer queue. Such a read can return an entry that was overwritten.
* `Update`, `Delete`, `AssignedPodAdded`, `AssignedPodUpdated` and the two flush
  functions of the queue: they panic, and nothing calls them.
* The permit plugins' rejections and errors, and normalisation of scores: the one
  plugin there is neither rejects nor normalises.
* The inside of the API server, of the PV controller and of kube-scheduler:
  third-party code, modelled as far as the repository sees it.
* A restart of the API server or a lost watch: how informers recover is third-party
  code.

## What could come next

1. Safety behind `AttemptEnds` and `OldGoroutinesEnd`: in each state from which an
   attempt must go on, some step of its goroutine or timer is there to be taken.
2. `SchedulingCycle` against a reference: the loop of `selectHost` against the set
   of maximal scores.
3. A second pod of the same name in `Simulator`, which would meet the results that a
   deleted pod leaves in the store.
