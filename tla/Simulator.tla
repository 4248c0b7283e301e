------------------------------ MODULE Simulator ------------------------------
(***************************************************************************)
(* The simulator around one pod: the caller converts a configuration,      *)
(* perhaps again, and starts a scheduler with it; the scheduler runs its   *)
(* plugins, which record what they decide; and the result store's handler  *)
(* of pod updates writes the results on the pod and deletes them.          *)
(*                                                                         *)
(* The plugins add their results one after the other, under the store's    *)
(* lock.  The handler takes no lock, so an addition is cut where it looks  *)
(* the pod's results up and where it writes to them, and the handler at    *)
(* each of its reads, at the API call and at the deletion.  The informer   *)
(* calls it for one event at a time.                                       *)
(*                                                                         *)
(* The scheduler is kube-scheduler, external: filters for the nodes in     *)
(* parallel, each in the order of the list up to the first that fails,     *)
(* then scores.                                                            *)
(***************************************************************************)
EXTENDS ResultStore

CONSTANTS
    UserConfigs,        \* the configurations a caller may have
    Nodes,
    Scores,
    MaxCycles,          \* bound: scheduling cycles
    MaxUpdates          \* bound: updates of the pod by others

VARIABLES
    asked,      \* history: the profiles before the first conversion
    profiles,   \* the profiles in the caller's object
    outcome,    \* of the last conversion
    converted,  \* how many conversions there were: none, one or more
    running,    \* the scheduler, if one was started, and its plugins
    sched,      \* its scheduling cycle
    adding,     \* the addition to the results that has the store's lock
    cycles, updates,
    pod,        \* in the API server
    events,     \* updates of the pod not yet handled: the versions reported
    results,    \* the store's results for the pod
    handler,    \* the handler of pod updates
    failed,     \* an API call of the handler failed for no conflict
    crashed,
    late        \* history: results added since the handler read its kind

confVars == <<asked, profiles, outcome, converted, running>>
schedVars == <<sched, cycles, adding>>
podVars == <<pod, events, updates>>
storeVars == <<results, handler, failed, late>>

simvars == <<confVars, schedVars, podVars, storeVars, crashed>>

Kinds == {"filter", "score", "finalscore"}

\* Results, and the maps they are made of.
Maps(S, T) == UNION {[D -> T] : D \in SUBSET S}

ResultType == [filter : Maps(Nodes \X FilterPlugins, {"passed", "blocked"}),
               score : Maps(Nodes \X ScorePlugins, Scores),
               finalscore : Maps(Nodes \X ScorePlugins, Int)]

ASSUME SimulatorAssumption ==
    /\ \A c \in UserConfigs : Len(c) \in Nat /\ c = [i \in 1 .. Len(c) |-> c[i]]
    /\ Nil \notin ResultType
    /\ Scores \subseteq Int
    /\ MaxCycles \in Nat /\ MaxUpdates \in Nat

NotStarted == [is |-> "off"]

IsRunning == running.is = "on"

NoCycle == [pc |-> "idle", next |-> [n \in Nodes |-> 1], fit |-> Nodes]

NoAddition == [at |-> "none"]

\* An addition is about to look the results up, or to assign to them.
Additions(kind, plugins, values) ==
    [at : {"lookup", "assign"}, kind : {kind}, node : Nodes, plugin : plugins,
     value : values]

AdditionType == Additions("filter", FilterPlugins, {"passed", "blocked"})
                \cup Additions("score", ScorePlugins, Scores)
                \cup Additions("finalscore", ScorePlugins, Int)

NoEvent == [pc |-> "idle", version |-> 0, note |-> newData]

(***************************************************************************)
(* The state has the right shape.                                          *)
(***************************************************************************)
SimulatorTypeOK ==
    /\ outcome \in {"none", "ok", "error", "panic"}
    /\ converted \in 0 .. 2
    /\ sched.pc \in {"idle", "filter", "score", "bind", "fail"}
    /\ sched.next \in [Nodes -> Nat] /\ sched.fit \in SUBSET Nodes
    /\ adding = NoAddition \/ adding \in AdditionType
    /\ cycles \in 0 .. MaxCycles /\ updates \in 0 .. MaxUpdates
    /\ pod.version \in Nat /\ \A i \in DOMAIN events : events[i] \in 1 .. pod.version
    /\ handler.pc \in {"idle", "filter", "score", "finalscore", "update", "delete"}
    /\ \A r \in {pod.annotation, handler.note} \cup ({results} \ {Nil}) :
          /\ \A x \in DOMAIN r.filter :
                x[1] \in Nodes /\ x[2] \in FilterPlugins
          /\ \A x \in DOMAIN r.score \cup DOMAIN r.finalscore :
                x[1] \in Nodes /\ x[2] \in ScorePlugins
    /\ failed \in BOOLEAN /\ crashed \in BOOLEAN
    /\ late \subseteq Kinds \X (Nodes \X (FilterPlugins \cup ScorePlugins))

SimulatorInit ==
    /\ asked \in UserConfigs /\ profiles = asked
    /\ outcome = "none" /\ converted = 0 /\ running = NotStarted
    /\ sched = NoCycle /\ adding = NoAddition /\ cycles = 0 /\ updates = 0
    /\ pod = [version |-> 1, annotation |-> newData] /\ events = <<>>
    /\ results = Nil /\ handler = NoEvent /\ failed = FALSE /\ late = {}
    /\ crashed = FALSE

----------------------------------------------------------------------------
(* The configuration.                                                      *)

(***************************************************************************)
(* The caller converts the object it has, which the first conversion       *)
(* changed.                                                                *)
(***************************************************************************)
Convert ==
    /\ ~crashed /\ ~IsRunning /\ converted < 2
    /\ LET c == convertConfigurationForSimulator(profiles)
       IN  /\ outcome' = c.outcome
           /\ profiles' = c.profiles
           /\ crashed' = (c.outcome = "panic")
    /\ converted' = converted + 1
    /\ UNCHANGED <<asked, running, schedVars, podVars, storeVars>>

(***************************************************************************)
(* A scheduler starts with one of the profiles.  Nothing looks at the      *)
(* caller's object any more: it is forgotten.                              *)
(***************************************************************************)
Start ==
    /\ ~crashed /\ ~IsRunning /\ outcome = "ok"
    /\ \E i \in DOMAIN profiles :
          LET pls == profiles[i].plugins
          IN  running' = [is |-> "on", filter |-> pls.filter.enabled,
                                       score |-> pls.score.enabled]
    /\ asked' = <<>> /\ profiles' = <<>>
    /\ UNCHANGED <<outcome, converted, schedVars, podVars, storeVars, crashed>>

----------------------------------------------------------------------------
(* The scheduler.                                                          *)

\* The pod is changed in the API server, and the informer reports it.
Change(annotation) ==
    /\ pod' = [version |-> pod.version + 1, annotation |-> annotation]
    /\ events' = Append(events, pod.version + 1)

\* The handler has read the results of this kind and has yet to delete them.
HasRead(kind) ==
    handler.pc \in (CASE kind = "filter" -> {"score", "finalscore", "update", "delete"}
                      [] kind = "score" -> {"finalscore", "update", "delete"}
                      [] OTHER -> {"update", "delete"})

CycleBegin ==
    /\ ~crashed /\ IsRunning /\ sched.pc = "idle" /\ cycles < MaxCycles
    /\ sched' = [NoCycle EXCEPT !.pc = "filter"]
    /\ cycles' = cycles + 1
    /\ UNCHANGED <<confVars, adding, podVars, storeVars, crashed>>

Pending(list) == {n \in sched.fit : sched.next[n] <= Len(list)}

\* The call for node n has returned: the next plugin's turn, or no more.
Filtered(n, reason) ==
    sched' = IF reason = "passed" THEN [sched EXCEPT !.next[n] = @ + 1]
                                  ELSE [sched EXCEPT !.fit = @ \ {n}]

Scored(n) == sched' = [sched EXCEPT !.next[n] = @ + 1]

\* The lock is taken for an addition.
Add(kind, n, p, v) ==
    adding' = [at |-> "lookup", kind |-> kind, node |-> n, plugin |-> p, value |-> v]

\* Mutant: the results are recorded under the name of the wrapper.
MutFilterOwnName(name, n, reason) ==
    IF Original(name) \in FilterPlugins
    THEN Add("filter", n, name, reason) /\ UNCHANGED sched
    ELSE Filtered(n, reason) /\ UNCHANGED adding

(***************************************************************************)
(* A plugin's Filter and Score with this result.  Nothing is recorded by a *)
(* wrapper whose original has no such method, and by a plugin that is no   *)
(* wrapper, whatever it decides.  The wrapper's ScoreExtensions are those  *)
(* of the original, so that its own NormalizeScore is never called.        *)
(***************************************************************************)
Filter(name, n, reason) ==
    IF Original(name) \in FilterPlugins
    THEN Add("filter", n, Original(name), reason) /\ UNCHANGED sched
    ELSE Filtered(n, reason) /\ UNCHANGED adding

Score(name, n, s) ==
    IF Original(name) \in ScorePlugins
    THEN Add("score", n, Original(name), s) /\ UNCHANGED sched
    ELSE Scored(n) /\ UNCHANGED adding

(***************************************************************************)
(* The plugins of other nodes wait for the lock; a call that records       *)
(* nothing does not need it, and may as well come before or after.         *)
(***************************************************************************)
Unlocked == adding.at = "none"

RunFilter(n) ==
    /\ ~crashed /\ sched.pc = "filter" /\ Unlocked /\ n \in Pending(running.filter)
    /\ LET name == running.filter[sched.next[n]].name
       IN  \E reason \in FilterOutcomes(name) : Filter(name, n, reason)
    /\ UNCHANGED <<confVars, cycles, podVars, storeVars, crashed>>

FiltersDone ==
    /\ ~crashed /\ sched.pc = "filter" /\ Pending(running.filter) = {}
    /\ sched' = [sched EXCEPT !.pc = IF sched.fit = {} THEN "fail" ELSE "score",
                              !.next = [n \in Nodes |-> 1]]
    /\ UNCHANGED <<confVars, cycles, adding, podVars, storeVars, crashed>>

RunScore(n) ==
    /\ ~crashed /\ sched.pc = "score" /\ Unlocked /\ n \in Pending(running.score)
    /\ \E s \in Scores : Score(running.score[sched.next[n]].name, n, s)
    /\ UNCHANGED <<confVars, cycles, podVars, storeVars, crashed>>

\* Score fails: nothing is recorded and the cycle ends.
ScoreFails ==
    /\ ~crashed /\ sched.pc = "score" /\ Unlocked
    /\ \E n \in Pending(running.score) : HasScore(running.score[sched.next[n]].name)
    /\ sched' = [sched EXCEPT !.pc = "fail"]
    /\ UNCHANGED <<confVars, cycles, adding, podVars, storeVars, crashed>>

ScoresDone ==
    /\ ~crashed /\ sched.pc = "score" /\ Pending(running.score) = {}
    /\ sched' = [sched EXCEPT !.pc = "bind"]
    /\ UNCHANGED <<confVars, cycles, adding, podVars, storeVars, crashed>>

(***************************************************************************)
(* The cycle ends: the pod is bound, and never scheduled again, or its     *)
(* status is updated, unless it says so already.                           *)
(***************************************************************************)
CycleEnd ==
    /\ ~crashed /\ sched.pc \in {"bind", "fail"}
    /\ cycles' = IF sched.pc = "bind" THEN MaxCycles ELSE cycles
    /\ \/ Change(pod.annotation)
       \/ sched.pc = "fail" /\ UNCHANGED <<pod, events>>
    /\ sched' = NoCycle
    /\ UNCHANGED <<confVars, adding, updates, storeVars, crashed>>

\* Someone else updates the pod.
OtherUpdate ==
    /\ ~crashed /\ IsRunning /\ updates < MaxUpdates
    /\ updates' = updates + 1
    /\ Change(pod.annotation)
    /\ UNCHANGED <<confVars, schedVars, storeVars, crashed>>

----------------------------------------------------------------------------
(* An addition to the results: AddFilterResult, and AddScoreResult, which  *)
(* goes on to addNormalizedScoreResultWithoutLock.                         *)

\* There are results of the pod from now on.
LookUpResults ==
    /\ ~crashed /\ adding.at = "lookup"
    /\ results' = OrNew(results)
    /\ adding' = [adding EXCEPT !.at = "assign"]
    /\ UNCHANGED <<confVars, sched, cycles, podVars, handler, failed, late, crashed>>

AssignResult ==
    LET x == <<adding.node, adding.plugin>>
    IN  /\ ~crashed /\ adding.at = "assign" /\ results # Nil
        /\ results' = [results EXCEPT ![adding.kind] = Put(@, x, adding.value)]
        /\ late' = IF results' = results \/ ~HasRead(adding.kind) THEN late
                   ELSE late \cup {<<adding.kind, x>>}
        /\ CASE adding.kind = "filter" ->
                   adding' = NoAddition /\ Filtered(adding.node, adding.value)
             [] adding.kind = "score" ->
                   /\ Add("finalscore", adding.node, adding.plugin,
                          applyWeightOnScore(adding.plugin, adding.value))
                   /\ UNCHANGED sched
             [] OTHER -> adding' = NoAddition /\ Scored(adding.node)
        /\ UNCHANGED <<confVars, cycles, podVars, handler, failed, crashed>>

\* The results that were looked up are gone: nil is dereferenced.
AdditionPanics ==
    /\ ~crashed /\ adding.at = "assign" /\ results = Nil
    /\ crashed' = TRUE
    /\ UNCHANGED <<confVars, schedVars, podVars, storeVars>>

----------------------------------------------------------------------------
(* The handler, addSchedulingResultToPod.                                  *)

\* Mutant: it does not ask whether there are results.
MutHandleBeginNoTest ==
    /\ ~crashed /\ handler.pc = "idle" /\ events # <<>>
    /\ handler' = [NoEvent EXCEPT !.pc = "filter", !.version = Head(events)]
    /\ events' = Tail(events)
    /\ late' = {}
    /\ UNCHANGED <<confVars, schedVars, pod, updates, results, failed, crashed>>

(***************************************************************************)
(* An event is handled.  Without results of the pod there is nothing to do.*)
(***************************************************************************)
HandleBegin ==
    /\ ~crashed /\ handler.pc = "idle" /\ events # <<>>
    /\ handler' = IF results = Nil THEN NoEvent
                  ELSE [NoEvent EXCEPT !.pc = "filter", !.version = Head(events)]
    /\ events' = Tail(events)
    /\ late' = {}
    /\ UNCHANGED <<confVars, schedVars, pod, updates, results, failed, crashed>>

ReadAs(kind, then) ==
    /\ ~crashed /\ handler.pc = kind
    /\ handler' = [handler EXCEPT !.pc = then, !.note[kind] = results[kind]]
    /\ UNCHANGED <<confVars, schedVars, podVars, results, failed, late, crashed>>

\* Mutant: the final scores are read before the scores.
MutReadFinalFirst ==
    \/ ReadAs("filter", "finalscore") \/ ReadAs("finalscore", "score")
    \/ ReadAs("score", "update")

\* The filter results, the scores and the final scores, in this order.
ReadResults ==
    \/ ReadAs("filter", "score") \/ ReadAs("score", "finalscore")
    \/ ReadAs("finalscore", "update")

(***************************************************************************)
(* The API server accepts the handler's object if it is of the current     *)
(* version; an object that changes nothing makes no new version.           *)
(***************************************************************************)
UpdatePod ==
    /\ ~crashed /\ handler.pc = "update" /\ handler.version = pod.version
    /\ IF handler.note = pod.annotation THEN UNCHANGED <<pod, events>>
                                        ELSE Change(handler.note)
    /\ handler' = [handler EXCEPT !.pc = "delete"]
    /\ UNCHANGED <<confVars, schedVars, updates, results, failed, late, crashed>>

\* Mutant: the data is deleted although the update failed.
MutUpdateFailsDeletes ==
    /\ ~crashed /\ handler.pc = "update"
    /\ \/ handler.version # pod.version /\ UNCHANGED failed
       \/ failed' = TRUE
    /\ handler' = [handler EXCEPT !.pc = "delete"]
    /\ UNCHANGED <<confVars, schedVars, podVars, results, late, crashed>>

(***************************************************************************)
(* The update fails: the object is stale, or for some other reason.  The   *)
(* function that is to be retried returns the error instead of saying that *)
(* it is not done, and so it is not called again.                          *)
(***************************************************************************)
UpdateFails ==
    /\ ~crashed /\ handler.pc = "update"
    /\ \/ handler.version # pod.version /\ UNCHANGED failed
       \/ failed' = TRUE
    /\ handler' = NoEvent
    /\ UNCHANGED <<confVars, schedVars, podVars, results, late, crashed>>

\* Mutant: the data stays.
MutDeleteNothing ==
    /\ ~crashed /\ handler.pc = "delete"
    /\ handler' = NoEvent /\ late' = {}
    /\ UNCHANGED <<confVars, schedVars, podVars, results, failed, crashed>>

DeleteData ==
    /\ ~crashed /\ handler.pc = "delete"
    /\ results' = Nil
    /\ handler' = NoEvent /\ late' = {}
    /\ UNCHANGED <<confVars, schedVars, podVars, failed, crashed>>

(***************************************************************************)
(* The handler uses a map while the addition that has the lock writes it,  *)
(* or deletes from the one in which an addition looks: the Go runtime may  *)
(* notice and end the process.                                             *)
(***************************************************************************)
ConcurrentMapAccess ==
    /\ ~crashed
    /\ \/ adding.at = "assign" /\ handler.pc = adding.kind
       \/ ~Unlocked /\ handler.pc = "delete"
       \/ /\ adding.at = "lookup" /\ results = Nil
          /\ handler.pc = "idle" /\ events # <<>>
    /\ crashed' = TRUE
    /\ UNCHANGED <<confVars, schedVars, podVars, storeVars>>

----------------------------------------------------------------------------
(* The specification.                                                      *)

Cycle == \/ CycleBegin \/ FiltersDone \/ ScoreFails \/ ScoresDone \/ CycleEnd
         \/ \E n \in Nodes : RunFilter(n) \/ RunScore(n)

Addition == LookUpResults \/ AssignResult \/ AdditionPanics

Handle == HandleBegin \/ ReadResults \/ UpdatePod \/ UpdateFails \/ DeleteData

SimulatorNext == Convert \/ Start \/ Cycle \/ Addition \/ OtherUpdate \/ Handle
                 \/ ConcurrentMapAccess

SimulatorSpec == SimulatorInit /\ [][SimulatorNext]_simvars

\* The informer calls the handler, and it goes on.
SimulatorFairSpec == SimulatorSpec /\ WF_simvars(Handle)

----------------------------------------------------------------------------
(* Properties.                                                             *)

Before == outcome = "ok" /\ ~IsRunning

\* The default plugins that a plugin set leaves on.
LeftOn(pls, defaults) ==
    IF All \in pls.disabled THEN {} ELSE DefaultNames(defaults) \ pls.disabled

\* The plugins that kube-scheduler makes of a plugin set.
EffectivePlugins(pls, defaults) == LeftOn(pls, defaults) \cup DefaultNames(pls.enabled)

\* The plugins of the caller's profile i.
AskedPlugins(i) ==
    LET pls == GivenProfiles(asked)[i].plugins
    IN  IF pls = Nil THEN NoPlugins ELSE pls

\* Each default plugin that the caller leaves on has its wrapper, no other runs.
IsSimulated(was, is, defaults) ==
    EffectivePlugins(is, defaults) =
        {pluginName(p) : p \in LeftOn(was, defaults)}
        \cup (IF All \in was.disabled THEN DefaultNames(was.enabled) ELSE {})

(***************************************************************************)
(* What kube-scheduler makes of a converted plugin set: the wrapper of     *)
(* each default plugin that the caller does not disable, and no default    *)
(* plugin itself beside its wrapper.  The plugins that the caller enables  *)
(* run, as they are, only if the caller disables all default ones;         *)
(* otherwise they are dropped.                                             *)
(***************************************************************************)
SimulatesWhatWasAsked ==
    Before => \A i \in DOMAIN profiles :
        /\ IsSimulated(AskedPlugins(i).filter, profiles[i].plugins.filter,
                       DefaultFilterPlugins)
        /\ IsSimulated(AskedPlugins(i).score, profiles[i].plugins.score,
                       DefaultScorePlugins)

(***************************************************************************)
(* kube-scheduler refuses a profile with two configurations of one plugin: *)
(* there is none, although a plugin that filters and scores is a default   *)
(* twice.  And a wrapping plugin is configured like the wrapped one.       *)
(***************************************************************************)
OneConfigPerPlugin ==
    Before => \A i \in DOMAIN profiles :
        LET pc == profiles[i].pluginConfig
        IN  \A j, k \in DOMAIN pc :
               /\ pc[j].name = pc[k].name => j = k
               /\ pc[j].name = pluginName(pc[k].name) => pc[j].object = pc[k].object

(***************************************************************************)
(* No scheduler starts from an object that was converted before: a second  *)
(* conversion never succeeds, whether the first one succeeded or stopped   *)
(* with an error and left the object half converted.                       *)
(***************************************************************************)
ConvertsOnce == outcome = "ok" => converted = 1

(***************************************************************************)
(* The handler finds the results it saw at its start, whatever is added in *)
(* between: it dereferences results without another test.                  *)
(***************************************************************************)
HandlerFindsResults == handler.pc # "idle" => results # Nil

(***************************************************************************)
(* On the pod at most one score lacks its final score, the one that was    *)
(* being added as the handler read the scores: however many plugins go on  *)
(* to score before it reads the final scores.                              *)
(***************************************************************************)
OneScoreLacksFinalScore ==
    \A x, y \in DOMAIN pod.annotation.score \ DOMAIN pod.annotation.finalscore : x = y

(***************************************************************************)
(* DeleteData loses no result but those that were added after the handler  *)
(* had read the others of their kind: the rest is on the pod.              *)
(***************************************************************************)
OnPod(k, x) == /\ x \in DOMAIN pod.annotation[k]
               /\ pod.annotation[k][x] = results[k][x]

OnlyLateResultsAreLost ==
    [][results # Nil /\ results' = Nil =>
          \A k \in Kinds : \A x \in DOMAIN results[k] :
              OnPod(k, x) \/ <<k, x>> \in late]_simvars

(***************************************************************************)
(* Results that are there when an update of the pod is reported reach the  *)
(* pod and leave the store, unless the API fails: a stale object needs no  *)
(* retry, since the newer version that made it stale is reported as well.  *)
(***************************************************************************)
ReportedResultsLeave ==
    results # Nil /\ events # <<>> ~> results = Nil \/ failed \/ crashed

(***************************************************************************)
(* What the comment in addSchedulingResultToPod says ("delete data from    *)
(* Store only if data is successfully added on pod's annotations").        *)
(***************************************************************************)
DeletedIsOnPod ==
    [][results # Nil /\ results' = Nil =>
          \A k \in Kinds : \A x \in DOMAIN results[k] : OnPod(k, x)]_simvars
=============================================================================
