--------------------------- MODULE SimulatorProofs ---------------------------
(***************************************************************************)
(* Proofs about Simulator, for any configurations, nodes, plugins and      *)
(* scores, and any number of cycles and updates.                           *)
(***************************************************************************)
EXTENDS Simulator, PluginConfigProofs, SequenceTheorems, TLAPS

----------------------------------------------------------------------------
(* The inductive invariant about the store and its handler.                *)

SchedType == [pc : {"idle", "filter", "score", "bind", "fail"},
              next : [Nodes -> Nat], fit : SUBSET Nodes]

StoreTypes ==
    /\ pod \in [version : Nat, annotation : ResultType]
    /\ handler \in [pc : {"idle", "filter", "score", "finalscore", "update", "delete"},
                    version : Nat, note : ResultType]
    /\ events \in Seq(Nat)
    /\ results \in ResultType \cup {Nil}
    /\ sched \in SchedType
    /\ adding = NoAddition \/ adding \in AdditionType
    /\ late \subseteq Kinds \X (Nodes \X (FilterPlugins \cup ScorePlugins))

(***************************************************************************)
(* The score that is added and whose final score is not: there is at most  *)
(* one, since additions have the lock.  All other scores in the store have *)
(* their final scores there, and so has what the handler read of the       *)
(* scores, but for the one that was half added at that time.               *)
(***************************************************************************)
Half == IF adding # NoAddition /\ adding.kind = "finalscore"
        THEN {<<adding.node, adding.plugin>>} ELSE {}

AtMostOne(S) == \A x, y \in S : x = y

ScoresMatch ==
    /\ results # Nil => DOMAIN results.score \subseteq DOMAIN results.finalscore \cup Half
    /\ handler.pc = "finalscore" =>
          DOMAIN handler.note.score \subseteq DOMAIN results.finalscore \cup Half
    /\ handler.pc \in {"update", "delete"} =>
          AtMostOne(DOMAIN handler.note.score \ DOMAIN handler.note.finalscore)

(***************************************************************************)
(* What the handler has read is what the store has, but for late results;  *)
(* and before it deletes the pod has what it read.                         *)
(***************************************************************************)
InNote(k, x) == /\ x \in DOMAIN handler.note[k]
                /\ handler.note[k][x] = results[k][x]

ReadIsKept ==
    /\ \A k \in Kinds : HasRead(k) =>
          \A x \in DOMAIN results[k] : InNote(k, x) \/ <<k, x>> \in late
    /\ handler.pc = "delete" => pod.annotation = handler.note

StoreInv == /\ StoreTypes
            /\ HandlerFindsResults
            /\ ScoresMatch
            /\ OneScoreLacksFinalScore
            /\ ReadIsKept

----------------------------------------------------------------------------
(* Results.                                                                *)

(***************************************************************************)
(* An assignment keeps the type of a map.                                  *)
(***************************************************************************)
LEMMA PutEffect ==
    ASSUME NEW S, NEW T, NEW f \in Maps(S, T), NEW x \in S, NEW v \in T
    PROVE  Put(f, x, v) \in Maps(S, T)
<1>1. PICK D \in SUBSET S : f \in [D -> T]
  BY DEF Maps
<1>2. Put(f, x, v) \in [D \cup {x} -> T]
  BY <1>1 DEF Put
<1>3. D \cup {x} \in SUBSET S
  BY <1>1
<1>4. QED
  BY <1>2, <1>3 DEF Maps

(***************************************************************************)
(* Results are told from no results; new ones are empty.                   *)
(***************************************************************************)
LEMMA ResultIsNotNil == \A r \in ResultType : r # Nil
BY SimulatorAssumption

\* Results as the first addition makes them.
LEMMA NewDataType ==
    /\ newData \in ResultType
    /\ newData.filter = <<>> /\ newData.score = <<>> /\ newData.finalscore = <<>>
<1>1. ASSUME NEW S, NEW T PROVE <<>> \in Maps(S, T)
  <2>1. <<>> \in [{} -> T] /\ {} \in SUBSET S
    OBVIOUS
  <2>2. QED
    BY <2>1 DEF Maps
<1>2. QED
  BY <1>1 DEF newData, ResultType

\* The results an addition starts from.
LEMMA OrNewType ==
    ASSUME results \in ResultType \cup {Nil}
    PROVE  /\ OrNew(results) \in ResultType
           /\ results # Nil => OrNew(results) = results
BY NewDataType, ResultIsNotNil DEF OrNew

(***************************************************************************)
(* A weighted score is a number.                                           *)
(***************************************************************************)
LEMMA WeightType ==
    ASSUME NEW p, NEW s \in Int
    PROVE  applyWeightOnScore(p, s) \in Int
<1> DEFINE list == DefaultScorePlugins
           i == CHOOSE j \in DOMAIN list : list[j].name = p
<1>1. CASE \E j \in DOMAIN list : list[j].name = p
  <2>1. i \in DOMAIN list
    BY <1>1
  <2>2. list[i].weight \in Nat
    <3> DEFINE P == [name : PlainNames, weight : Nat]
    <3>1. list \in Seq(P)
      BY PluginAssumption
    <3> HIDE DEF list, i, P
    <3>2. list[i] \in P
      BY <2>1, <3>1
    <3>3. QED
      BY <3>2 DEF P
  <2>3. applyWeightOnScore(p, s) = s * list[i].weight
    BY <1>1 DEF applyWeightOnScore
  <2> HIDE DEF list, i
  <2>4. QED
    BY <2>2, <2>3
<1>2. CASE ~\E j \in DOMAIN list : list[j].name = p
  BY <1>2 DEF applyWeightOnScore
<1>3. QED
  BY <1>1, <1>2

(***************************************************************************)
(* Of an addition that has the lock.                                       *)
(***************************************************************************)
LEMMA AdditionIs ==
    ASSUME adding \in AdditionType
    PROVE  /\ adding # NoAddition
           /\ adding.kind \in Kinds /\ adding.node \in Nodes
           /\ adding.plugin \in FilterPlugins \cup ScorePlugins
           /\ adding.kind = "filter" =>
                 adding.plugin \in FilterPlugins /\ adding.value \in {"passed", "blocked"}
           /\ adding.kind = "score" => adding.plugin \in ScorePlugins /\ adding.value \in Scores
           /\ adding.kind = "finalscore" => adding.plugin \in ScorePlugins /\ adding.value \in Int
           /\ [adding EXCEPT !.at = "assign"] \in AdditionType
           /\ [adding EXCEPT !.at = "assign"].kind = adding.kind
           /\ [adding EXCEPT !.at = "assign"].node = adding.node
           /\ [adding EXCEPT !.at = "assign"].plugin = adding.plugin
<1>1. adding.at \in {"lookup", "assign"}
  BY DEF AdditionType, Additions
<1>2. adding # NoAddition
  BY <1>1 DEF NoAddition
<1>3. QED
  BY <1>2 DEF AdditionType, Additions, Kinds

(***************************************************************************)
(* What an addition that has the lock makes of the results: a new or       *)
(* overwritten entry of its kind, and else what there was.                 *)
(***************************************************************************)
Adds(r, kind, x) ==
    /\ r \in ResultType
    /\ DOMAIN r[kind] = DOMAIN results[kind] \cup {x}
    /\ \A y \in DOMAIN results[kind] : y # x => r[kind][y] = results[kind][y]
    /\ \A k \in Kinds \ {kind} : r[k] = results[k]

\* An addition adds its entry and nothing else.
LEMMA AssignEffect ==
    ASSUME adding \in AdditionType, results \in ResultType,
           NEW x, x = <<adding.node, adding.plugin>>,
           NEW r, r = [results EXCEPT ![adding.kind] = Put(@, x, adding.value)]
    PROVE  Adds(r, adding.kind, x)
<1>1. PICK new : new = Put(results[adding.kind], x, adding.value)
  OBVIOUS
<1>2. /\ DOMAIN new = DOMAIN results[adding.kind] \cup {x}
      /\ \A y \in DOMAIN results[adding.kind] : y # x => new[y] = results[adding.kind][y]
  BY <1>1 DEF Put
<1>3. /\ results.filter \in Maps(Nodes \X FilterPlugins, {"passed", "blocked"})
      /\ results.score \in Maps(Nodes \X ScorePlugins, Scores)
      /\ results.finalscore \in Maps(Nodes \X ScorePlugins, Int)
  BY DEF ResultType
<1>4. adding.kind \in {"filter", "score", "finalscore"}
  BY AdditionIs DEF Kinds
<1>5. ASSUME NEW S, NEW T, x \in S, adding.value \in T, results[adding.kind] \in Maps(S, T)
      PROVE  new \in Maps(S, T)
  BY <1>1, <1>5, PutEffect
<1>6. CASE adding.kind = "filter"
  <2>1. x \in Nodes \X FilterPlugins /\ adding.value \in {"passed", "blocked"}
    BY <1>6, AdditionIs
  <2>2. new \in Maps(Nodes \X FilterPlugins, {"passed", "blocked"})
    BY <1>3, <1>5, <1>6, <2>1
  <2>3. r = [results EXCEPT !.filter = new]
    BY <1>1, <1>6
  <2>4. /\ r \in ResultType /\ r.filter = new
        /\ r.score = results.score /\ r.finalscore = results.finalscore
    BY <2>2, <2>3 DEF ResultType
  <2>5. QED
    BY <1>2, <1>6, <2>4 DEF Kinds, Adds
<1>7. CASE adding.kind = "score"
  <2>1. x \in Nodes \X ScorePlugins /\ adding.value \in Scores
    BY <1>7, AdditionIs
  <2>2. new \in Maps(Nodes \X ScorePlugins, Scores)
    BY <1>3, <1>5, <1>7, <2>1
  <2>3. r = [results EXCEPT !.score = new]
    BY <1>1, <1>7
  <2>4. /\ r \in ResultType /\ r.score = new
        /\ r.filter = results.filter /\ r.finalscore = results.finalscore
    BY <2>2, <2>3 DEF ResultType
  <2>5. QED
    BY <1>2, <1>7, <2>4 DEF Kinds, Adds
<1>8. CASE adding.kind = "finalscore"
  <2>1. x \in Nodes \X ScorePlugins /\ adding.value \in Int
    BY <1>8, AdditionIs
  <2>2. new \in Maps(Nodes \X ScorePlugins, Int)
    BY <1>3, <1>5, <1>8, <2>1
  <2>3. r = [results EXCEPT !.finalscore = new]
    BY <1>1, <1>8
  <2>4. /\ r \in ResultType /\ r.finalscore = new
        /\ r.filter = results.filter /\ r.score = results.score
    BY <2>2, <2>3 DEF ResultType
  <2>5. QED
    BY <1>2, <1>8, <2>4 DEF Kinds, Adds
<1>9. QED
  BY <1>4, <1>6, <1>7, <1>8

(***************************************************************************)
(* The lock is taken: the addition has the right type.                     *)
(***************************************************************************)
LEMMA AddType ==
    ASSUME NEW n \in Nodes, NEW p, NEW v,
           NEW kind, Add(kind, n, p, v),
           \/ kind = "filter" /\ p \in FilterPlugins /\ v \in {"passed", "blocked"}
           \/ kind = "score" /\ p \in ScorePlugins /\ v \in Scores
           \/ kind = "finalscore" /\ p \in ScorePlugins /\ v \in Int
    PROVE  /\ adding' \in AdditionType /\ adding' # NoAddition
           /\ adding'.kind = kind /\ adding'.node = n /\ adding'.plugin = p
<1>1. adding' = [at |-> "lookup", kind |-> kind, node |-> n, plugin |-> p, value |-> v]
  BY DEF Add
<1>2. adding'.at = "lookup"
  BY <1>1
<1>3. QED
  BY <1>1, <1>2 DEF AdditionType, Additions, NoAddition

----------------------------------------------------------------------------
(* The store and its handler.                                              *)

(***************************************************************************)
(* A step that leaves the store, the handler and the annotation alone.     *)
(***************************************************************************)
LEMMA StoreUntouched ==
    ASSUME StoreInv, StoreTypes', UNCHANGED <<handler, results, late>>,
           pod'.annotation = pod.annotation, Half' = Half
    PROVE  StoreInv'
<1>1. HandlerFindsResults' /\ ScoresMatch' /\ OneScoreLacksFinalScore'
  BY DEF StoreInv, HandlerFindsResults, ScoresMatch, OneScoreLacksFinalScore
<1>2. ReadIsKept'
  BY DEF StoreInv, ReadIsKept, HasRead, InNote
<1>3. QED
  BY <1>1, <1>2 DEF StoreInv

(***************************************************************************)
(* The pod is changed: a newer version is reported.                        *)
(***************************************************************************)
LEMMA ChangeEffect ==
    ASSUME StoreTypes, NEW note \in ResultType, Change(note)
    PROVE  /\ pod' \in [version : Nat, annotation : ResultType]
           /\ pod'.annotation = note
           /\ events' \in Seq(Nat)
<1>1. pod.version \in Nat /\ events \in Seq(Nat)
  BY DEF StoreTypes
<1>2. pod.version + 1 \in Nat
  BY <1>1
<1>3. pod' = [version |-> pod.version + 1, annotation |-> note]
  BY DEF Change
<1>4. events' = Append(events, pod.version + 1)
  BY DEF Change
<1>5. events' \in Seq(Nat)
  BY <1>1, <1>2, <1>4
<1>6. QED
  BY <1>2, <1>3, <1>5

(***************************************************************************)
(* The plugins filter for a node, and score it.                            *)
(***************************************************************************)
LEMMA CallTypes ==
    ASSUME StoreTypes, NEW n \in Nodes
    PROVE  /\ \A reason : Filtered(n, reason) => sched' \in SchedType
           /\ Scored(n) => sched' \in SchedType
<1>1. /\ sched \in SchedType
      /\ sched.next \in [Nodes -> Nat] /\ sched.fit \in SUBSET Nodes
  BY DEF StoreTypes, SchedType
<1>2. [sched EXCEPT !.next[n] = @ + 1] \in SchedType
  BY <1>1 DEF SchedType
<1>3. [sched EXCEPT !.fit = @ \ {n}] \in SchedType
  BY <1>1 DEF SchedType
<1>4. QED
  BY <1>2, <1>3 DEF Filtered, Scored

(***************************************************************************)
(* An addition looks the results up.  If there are none the handler is     *)
(* idle, so that it misses nothing of the new ones.                        *)
(***************************************************************************)
LEMMA LookUpKeepsStore == StoreInv /\ LookUpResults => StoreInv'
<1> SUFFICES ASSUME StoreInv, LookUpResults PROVE StoreInv'
  OBVIOUS
<1>1. /\ adding.at = "lookup" /\ results' = OrNew(results)
      /\ adding' = [adding EXCEPT !.at = "assign"]
      /\ UNCHANGED <<sched, pod, events, handler, late>>
  BY DEF LookUpResults, podVars
<1>2. adding \in AdditionType
  <2>1. adding # NoAddition
    BY <1>1 DEF NoAddition
  <2>2. QED
    BY <2>1 DEF StoreInv, StoreTypes
<1>3. /\ adding' \in AdditionType /\ adding' # NoAddition /\ adding # NoAddition
      /\ adding'.kind = adding.kind /\ adding'.node = adding.node
      /\ adding'.plugin = adding.plugin
  <2>1. adding' \in AdditionType /\ adding # NoAddition
    BY <1>1, <1>2, AdditionIs
  <2>2. adding' # NoAddition
    <3>1. adding'.at \in {"lookup", "assign"}
      BY <2>1 DEF AdditionType, Additions
    <3>2. QED
      BY <3>1 DEF NoAddition
  <2>3. QED
    BY <1>1, <1>2, <2>1, <2>2, AdditionIs
<1>4. Half' = Half
  BY <1>3 DEF Half
<1>5. results' \in ResultType /\ results' # Nil
  <2>1. results \in ResultType \cup {Nil}
    BY DEF StoreInv, StoreTypes
  <2>2. QED
    BY <1>1, <2>1, OrNewType, ResultIsNotNil
<1>6. StoreTypes'
  BY <1>1, <1>3, <1>5 DEF StoreInv, StoreTypes
<1>7. CASE results # Nil
  <2>1. results' = results
    BY <1>1, <1>7 DEF OrNew
  <2>2. QED
    BY <1>1, <1>4, <1>6, <2>1, StoreUntouched
<1>8. CASE results = Nil
  <2>1. results' = newData /\ DOMAIN newData.score = {}
    BY <1>1, <1>8, NewDataType DEF OrNew
  <2>2. handler.pc = "idle" /\ handler'.pc = "idle"
    BY <1>1, <1>8 DEF StoreInv, HandlerFindsResults
  <2>3. \A k \in Kinds : ~HasRead(k)'
    BY <2>2 DEF HasRead, Kinds
  <2>4. ReadIsKept'
    BY <2>2, <2>3 DEF ReadIsKept
  <2>5. HandlerFindsResults' /\ ScoresMatch'
    BY <2>1, <2>2 DEF HandlerFindsResults, ScoresMatch
  <2>6. OneScoreLacksFinalScore'
    BY <1>1 DEF StoreInv, OneScoreLacksFinalScore
  <2>7. QED
    BY <1>6, <2>4, <2>5, <2>6 DEF StoreInv
<1>9. QED
  BY <1>7, <1>8

(***************************************************************************)
(* An addition assigns to an entry.  What is new of a kind that the        *)
(* handler has read is late; a score is half added then.                   *)
(***************************************************************************)
LEMMA AssignKeepsStore == StoreInv /\ AssignResult => StoreInv'
<1> SUFFICES ASSUME StoreInv, AssignResult PROVE StoreInv'
  OBVIOUS
<1>1. PICK kind, x : kind = adding.kind /\ x = <<adding.node, adding.plugin>>
  OBVIOUS
<1>2. /\ adding.at = "assign" /\ results # Nil
      /\ results' = [results EXCEPT ![adding.kind] = Put(@, x, adding.value)]
      /\ late' = IF results' = results \/ ~HasRead(kind) THEN late
                 ELSE late \cup {<<kind, x>>}
      /\ UNCHANGED <<pod, events, handler>>
  BY <1>1 DEF AssignResult, podVars
<1>3. adding \in AdditionType
  <2>1. adding # NoAddition
    BY <1>2 DEF NoAddition
  <2>2. QED
    BY <2>1 DEF StoreInv, StoreTypes
<1>4. /\ kind \in Kinds /\ adding.node \in Nodes
      /\ adding.plugin \in FilterPlugins \cup ScorePlugins
      /\ adding # NoAddition
  BY <1>1, <1>3, AdditionIs
<1>5. /\ results \in ResultType /\ results' \in ResultType /\ results' # Nil
      /\ DOMAIN results'[kind] = DOMAIN results[kind] \cup {x}
      /\ \A y \in DOMAIN results[kind] : y # x => results'[kind][y] = results[kind][y]
      /\ \A k \in Kinds \ {kind} : results'[k] = results[k]
  <2>1. results \in ResultType
    BY <1>2 DEF StoreInv, StoreTypes
  <2>2. Adds(results', adding.kind, x)
    BY <1>1, <1>2, <1>3, <2>1, AssignEffect
  <2>3. QED
    BY <1>1, <2>1, <2>2, ResultIsNotNil DEF Adds
\* What comes next, and which score is half added before and after.
<1>6. /\ sched' \in SchedType
      /\ adding' = NoAddition \/ adding' \in AdditionType
      /\ kind = "filter" => Half = {} /\ Half' = {}
      /\ kind = "score" => Half = {} /\ Half' = {x}
      /\ kind = "finalscore" => Half = {x} /\ Half' = {}
  <2>1. CASE kind = "filter"
    <3>1. adding' = NoAddition /\ Filtered(adding.node, adding.value)
      BY <1>1, <2>1 DEF AssignResult
    <3>2. sched' \in SchedType
      BY <1>4, <3>1, CallTypes DEF StoreInv
    <3>3. QED
      BY <1>1, <2>1, <3>1, <3>2 DEF Half
  <2>2. CASE kind = "score"
    <3>1. PICK w : w = applyWeightOnScore(adding.plugin, adding.value)
      OBVIOUS
    <3>2. Add("finalscore", adding.node, adding.plugin, w) /\ UNCHANGED sched
      BY <1>1, <2>2, <3>1 DEF AssignResult
    <3>3. adding.plugin \in ScorePlugins /\ w \in Int
      BY <1>1, <1>3, <2>2, <3>1, AdditionIs, WeightType, SimulatorAssumption
    <3>4. /\ adding' \in AdditionType /\ adding' # NoAddition
          /\ adding'.kind = "finalscore"
          /\ adding'.node = adding.node /\ adding'.plugin = adding.plugin
      BY <1>4, <3>2, <3>3, AddType
    <3>5. sched' \in SchedType
      BY <3>2 DEF StoreInv, StoreTypes
    <3>6. QED
      BY <1>1, <2>2, <3>4, <3>5 DEF Half
  <2>3. CASE kind = "finalscore"
    <3>1. adding' = NoAddition /\ Scored(adding.node)
      BY <1>1, <2>3 DEF AssignResult
    <3>2. sched' \in SchedType
      BY <1>4, <3>1, CallTypes DEF StoreInv
    <3>3. QED
      BY <1>1, <1>4, <2>3, <3>1, <3>2 DEF Half
  <2>4. QED
    BY <1>4, <2>1, <2>2, <2>3 DEF Kinds
<1>7. StoreTypes'
  <2>1. late' \subseteq Kinds \X (Nodes \X (FilterPlugins \cup ScorePlugins))
    <3>1. <<kind, x>> \in Kinds \X (Nodes \X (FilterPlugins \cup ScorePlugins))
      BY <1>1, <1>4
    <3>2. QED
      BY <1>2, <3>1 DEF StoreInv, StoreTypes
  <2>2. QED
    BY <1>2, <1>5, <1>6, <2>1 DEF StoreInv, StoreTypes
<1>8. HandlerFindsResults' /\ OneScoreLacksFinalScore'
  BY <1>2, <1>5 DEF StoreInv, HandlerFindsResults, OneScoreLacksFinalScore
<1>9. ScoresMatch'
  <2>1. DOMAIN results.score \subseteq DOMAIN results.finalscore \cup Half
    BY <1>2 DEF StoreInv, ScoresMatch
  <2>2. /\ DOMAIN results.finalscore \cup Half \subseteq DOMAIN results'.finalscore \cup Half'
        /\ DOMAIN results'.score \subseteq DOMAIN results'.finalscore \cup Half'
    <3>1. CASE kind = "filter"
      <4>1. results'.score = results.score /\ results'.finalscore = results.finalscore
        BY <1>5, <3>1 DEF Kinds
      <4>2. QED
        BY <1>6, <2>1, <3>1, <4>1
    <3>2. CASE kind = "score"
      <4>1. /\ DOMAIN results'.score = DOMAIN results.score \cup {x}
            /\ results'.finalscore = results.finalscore
        BY <1>5, <3>2 DEF Kinds
      <4>2. QED
        BY <1>6, <2>1, <3>2, <4>1
    <3>3. CASE kind = "finalscore"
      <4>1. /\ DOMAIN results'.finalscore = DOMAIN results.finalscore \cup {x}
            /\ results'.score = results.score
        BY <1>5, <3>3 DEF Kinds
      <4>2. QED
        BY <1>6, <2>1, <3>3, <4>1
    <3>4. QED
      BY <1>4, <3>1, <3>2, <3>3 DEF Kinds
  <2>3. QED
    BY <1>2, <2>2 DEF StoreInv, ScoresMatch
<1>10. ASSUME NEW k \in Kinds, HasRead(k), NEW y \in DOMAIN results'[k]
       PROVE  \/ y \in DOMAIN handler.note[k] /\ handler.note[k][y] = results'[k][y]
              \/ <<k, y>> \in late'
  <2>1. CASE results' = results
    BY <1>2, <1>10, <2>1 DEF StoreInv, ReadIsKept, InNote
  <2>2. CASE results' # results /\ k = kind /\ y = x
    BY <1>2, <1>10, <2>2
  <2>3. CASE k # kind \/ y # x
    <3>1. y \in DOMAIN results[k] /\ results'[k][y] = results[k][y]
      BY <1>5, <1>10, <2>3
    <3>2. late \subseteq late'
      BY <1>2
    <3>3. QED
      BY <1>10, <3>1, <3>2 DEF StoreInv, ReadIsKept, InNote
  <2>4. QED
    BY <2>1, <2>2, <2>3
<1>11. ReadIsKept'
  <2>1. \A k \in Kinds : HasRead(k)' = HasRead(k)
    BY <1>2 DEF HasRead
  <2>2. handler'.pc = "delete" => pod'.annotation = handler'.note
    BY <1>2 DEF StoreInv, ReadIsKept
  <2>3. QED
    BY <1>2, <1>10, <2>1, <2>2 DEF ReadIsKept, InNote
<1>12. QED
  BY <1>7, <1>8, <1>9, <1>11 DEF StoreInv

(***************************************************************************)
(* The handler copies the results of one kind.                             *)
(***************************************************************************)
LEMMA ReadEffect ==
    ASSUME StoreInv, NEW kind \in Kinds,
           NEW then \in {"score", "finalscore", "update"}, ReadAs(kind, then)
    PROVE  /\ StoreTypes'
           /\ results \in ResultType
           /\ handler.pc = kind /\ handler'.pc = then
           /\ handler'.note[kind] = results[kind]
           /\ \A k \in Kinds \ {kind} : handler'.note[k] = handler.note[k]
           /\ UNCHANGED <<results, late, pod, adding>>
<1> DEFINE note == [handler.note EXCEPT ![kind] = results[kind]]
<1>1. handler' = [handler EXCEPT !.pc = then, !.note[kind] = results[kind]]
      /\ handler.pc = kind
      /\ UNCHANGED <<results, late, pod, events, sched, adding>>
  BY DEF ReadAs, schedVars, podVars
<1>2. results \in ResultType
  BY <1>1 DEF StoreInv, StoreTypes, HandlerFindsResults, Kinds
<1>3. handler \in [pc : {"idle", "filter", "score", "finalscore", "update", "delete"},
                   version : Nat, note : ResultType]
  BY DEF StoreInv, StoreTypes
<1>4. handler.note \in ResultType /\ handler.version \in Nat
  BY <1>3
<1>5. /\ note \in ResultType
      /\ note[kind] = results[kind]
      /\ \A k \in Kinds \ {kind} : note[k] = handler.note[k]
  BY <1>2, <1>4 DEF ResultType, Kinds
<1>6. handler' = [pc |-> then, version |-> handler.version, note |-> note]
  BY <1>1, <1>3
<1> HIDE DEF note
<1>7. handler' \in [pc : {"idle", "filter", "score", "finalscore", "update", "delete"},
                    version : Nat, note : ResultType]
      /\ handler'.pc = then /\ handler'.note = note
  BY <1>4, <1>5, <1>6
<1>8. StoreTypes'
  BY <1>1, <1>7 DEF StoreInv, StoreTypes
<1>9. QED
  BY <1>1, <1>2, <1>5, <1>7, <1>8

\* The unlocked reads of the handler see what the store has and leave it alone.
LEMMA ReadKeepsStore == StoreInv /\ ReadResults => StoreInv'
<1> SUFFICES ASSUME StoreInv, ReadResults PROVE StoreInv'
  OBVIOUS
<1>1. ASSUME NEW kind \in Kinds, NEW then \in {"score", "finalscore", "update"},
             ReadAs(kind, then),
             \/ kind = "filter" /\ then = "score"
             \/ kind = "score" /\ then = "finalscore"
             \/ kind = "finalscore" /\ then = "update"
      PROVE  StoreInv'
  <2>1. /\ StoreTypes'
        /\ results \in ResultType
        /\ handler.pc = kind /\ handler'.pc = then
        /\ handler'.note[kind] = results[kind]
        /\ \A k \in Kinds \ {kind} : handler'.note[k] = handler.note[k]
        /\ UNCHANGED <<results, late, pod, adding>> /\ Half' = Half
    BY <1>1, ReadEffect DEF Half
  <2>2. results # Nil
    BY <2>1, ResultIsNotNil
  <2>3. HandlerFindsResults'
    BY <2>1, <2>2 DEF HandlerFindsResults
  <2>4. ScoresMatch'
    <3>1. DOMAIN results.score \subseteq DOMAIN results.finalscore \cup Half
      BY <2>2 DEF StoreInv, ScoresMatch
    <3>2. CASE kind = "filter"
      BY <1>1, <2>1, <3>1, <3>2 DEF ScoresMatch
    <3>3. CASE kind = "score"
      <4>1. handler'.note.score = results.score
        BY <2>1, <3>3
      <4>2. QED
        BY <1>1, <2>1, <3>1, <3>3, <4>1 DEF ScoresMatch
    <3>4. CASE kind = "finalscore"
      <4>1. /\ handler'.note.finalscore = results.finalscore
            /\ handler'.note.score = handler.note.score
        BY <2>1, <3>4 DEF Kinds
      <4>2. DOMAIN handler.note.score \subseteq DOMAIN results.finalscore \cup Half
        BY <2>1, <3>4 DEF StoreInv, ScoresMatch
      <4>3. AtMostOne(Half)
        BY DEF AtMostOne, Half
      <4>4. AtMostOne(DOMAIN handler'.note.score \ DOMAIN handler'.note.finalscore)
        BY <4>1, <4>2, <4>3 DEF AtMostOne
      <4>5. QED
        BY <1>1, <2>1, <3>1, <3>4, <4>4 DEF ScoresMatch
    <3>5. QED
      BY <3>2, <3>3, <3>4 DEF Kinds
  <2>5. OneScoreLacksFinalScore'
    BY <2>1 DEF StoreInv, OneScoreLacksFinalScore
  <2>6. ReadIsKept'
    <3>1. ASSUME NEW k \in Kinds, HasRead(k)', NEW x \in DOMAIN results[k]
          PROVE  \/ /\ x \in DOMAIN handler'.note[k]
                    /\ handler'.note[k][x] = results[k][x]
                 \/ <<k, x>> \in late
      <4>1. CASE k = kind
        BY <2>1, <4>1
      <4>2. CASE k # kind
        <5>1. HasRead(k)
          BY <1>1, <2>1, <3>1, <4>2 DEF HasRead, Kinds
        <5>2. handler'.note[k] = handler.note[k]
          BY <2>1, <4>2
        <5>3. QED
          BY <3>1, <5>1, <5>2 DEF StoreInv, ReadIsKept, InNote
      <4>3. QED
        BY <4>1, <4>2
    <3>2. handler'.pc # "delete"
      BY <1>1, <2>1
    <3>3. QED
      BY <2>1, <3>1, <3>2 DEF ReadIsKept, InNote
  <2>7. QED
    BY <2>1, <2>3, <2>4, <2>5, <2>6 DEF StoreInv
<1>2. CASE ReadAs("filter", "score")
  BY <1>1, <1>2 DEF Kinds
<1>3. CASE ReadAs("score", "finalscore")
  BY <1>1, <1>3 DEF Kinds
<1>4. CASE ReadAs("finalscore", "update")
  BY <1>1, <1>4 DEF Kinds
<1>5. QED
  BY <1>2, <1>3, <1>4 DEF ReadResults

(***************************************************************************)
(* The handler is idle, or has read nothing: there is nothing to keep.     *)
(***************************************************************************)
LEMMA NothingRead ==
    ASSUME StoreInv, StoreTypes', UNCHANGED <<pod, adding>>,
           results' = results \/ results' = Nil,
           handler'.pc = "idle" \/ (handler'.pc = "filter" /\ results' # Nil)
    PROVE  StoreInv'
<1>1. \A k \in Kinds : ~HasRead(k)'
  BY DEF HasRead, Kinds
<1>2. ReadIsKept'
  BY <1>1 DEF ReadIsKept
<1>3. HandlerFindsResults' /\ ScoresMatch' /\ OneScoreLacksFinalScore'
  BY DEF StoreInv, HandlerFindsResults, ScoresMatch, OneScoreLacksFinalScore, Half
<1>4. QED
  BY <1>2, <1>3 DEF StoreInv

\* The handler between two events.
LEMMA NoEventType ==
    /\ NoEvent \in [pc : {"idle"}, version : Nat, note : ResultType]
    /\ \A v \in Nat : [NoEvent EXCEPT !.pc = "filter", !.version = v]
                         \in [pc : {"filter"}, version : Nat, note : ResultType]
<1>1. newData \in ResultType
  BY NewDataType
<1>2. NoEvent = [pc |-> "idle", version |-> 0, note |-> newData]
  BY DEF NoEvent
<1>3. QED
  BY <1>1, <1>2

\* The steps of the handler.
LEMMA HandleKeepsStore == StoreInv /\ Handle => StoreInv'
<1> SUFFICES ASSUME StoreInv, Handle PROVE StoreInv'
  OBVIOUS
<1>1. CASE HandleBegin
  <2>1. /\ events # <<>> /\ events' = Tail(events) /\ late' = {}
        /\ UNCHANGED <<pod, sched, adding, results>>
        /\ handler' = IF results = Nil THEN NoEvent
                      ELSE [NoEvent EXCEPT !.pc = "filter", !.version = Head(events)]
    BY <1>1 DEF HandleBegin, schedVars
  <2>2. events \in Seq(Nat)
    BY DEF StoreInv, StoreTypes
  <2>3. Head(events) \in Nat /\ Tail(events) \in Seq(Nat)
    BY <2>1, <2>2
  <2>4. \/ /\ handler' \in [pc : {"idle"}, version : Nat, note : ResultType]
        \/ /\ handler' \in [pc : {"filter"}, version : Nat, note : ResultType]
           /\ results # Nil
    BY <2>1, <2>3, NoEventType
  <2>5. StoreTypes'
    BY <2>1, <2>3, <2>4 DEF StoreInv, StoreTypes
  <2>6. /\ UNCHANGED <<pod, adding>> /\ results' = results
        /\ handler'.pc = "idle" \/ (handler'.pc = "filter" /\ results' # Nil)
    BY <2>1, <2>4
  <2>7. QED
    BY <2>5, <2>6, NothingRead
<1>2. CASE ReadResults
  BY <1>2, ReadKeepsStore
<1>3. CASE UpdatePod
  <2>1. /\ handler.pc = "update" /\ handler' = [handler EXCEPT !.pc = "delete"]
        /\ UNCHANGED <<sched, adding, results, late>>
        /\ IF handler.note = pod.annotation THEN UNCHANGED <<pod, events>>
                                            ELSE Change(handler.note)
    BY <1>3 DEF UpdatePod, schedVars
  <2>2. handler \in [pc : {"idle", "filter", "score", "finalscore", "update", "delete"},
                     version : Nat, note : ResultType]
    BY DEF StoreInv, StoreTypes
  <2>3. /\ handler' \in [pc : {"idle", "filter", "score", "finalscore", "update", "delete"},
                         version : Nat, note : ResultType]
        /\ handler'.pc = "delete" /\ handler'.note = handler.note
        /\ handler.note \in ResultType
    BY <2>1, <2>2
  <2>4. /\ pod' \in [version : Nat, annotation : ResultType]
        /\ events' \in Seq(Nat)
        /\ pod'.annotation = handler.note
    BY <2>1, <2>3, ChangeEffect DEF StoreInv, StoreTypes
  <2>5. StoreTypes'
    BY <2>1, <2>3, <2>4 DEF StoreInv, StoreTypes
  <2>6. HandlerFindsResults' /\ ScoresMatch' /\ OneScoreLacksFinalScore'
    BY <2>1, <2>3, <2>4
       DEF StoreInv, HandlerFindsResults, ScoresMatch, OneScoreLacksFinalScore, Half,
           AtMostOne
  <2>7. \A k \in Kinds : HasRead(k)
    BY <2>1 DEF HasRead, Kinds
  <2>8. ReadIsKept'
    BY <2>1, <2>3, <2>4, <2>7 DEF StoreInv, ReadIsKept, InNote
  <2>9. QED
    BY <2>5, <2>6, <2>8 DEF StoreInv
<1>4. CASE UpdateFails
  <2>1. handler' = NoEvent /\ UNCHANGED <<pod, events, sched, adding, results, late>>
    BY <1>4 DEF UpdateFails, schedVars, podVars
  <2>2. StoreTypes' /\ handler'.pc = "idle"
    BY <2>1, NoEventType DEF StoreInv, StoreTypes
  <2>3. UNCHANGED <<pod, adding>> /\ (results' = results \/ results' = Nil)
    BY <2>1
  <2>4. QED
    BY <2>2, <2>3, NothingRead
<1>5. CASE DeleteData
  <2>1. /\ handler' = NoEvent /\ results' = Nil /\ late' = {}
        /\ UNCHANGED <<pod, events, sched, adding>>
    BY <1>5 DEF DeleteData, schedVars, podVars
  <2>2. StoreTypes' /\ handler'.pc = "idle"
    BY <2>1, NoEventType DEF StoreInv, StoreTypes
  <2>3. UNCHANGED <<pod, adding>> /\ (results' = results \/ results' = Nil)
    BY <2>1
  <2>4. QED
    BY <2>2, <2>3, NothingRead
<1>6. QED
  BY <1>1, <1>2, <1>3, <1>4, <1>5 DEF Handle

(***************************************************************************)
(* The scheduler's steps.                                                  *)
(***************************************************************************)
LEMMA CycleKeepsStore == StoreInv /\ Cycle => StoreInv'
<1> SUFFICES ASSUME StoreInv, Cycle PROVE StoreInv'
  OBVIOUS
<1>1. /\ sched \in SchedType
      /\ sched.next \in [Nodes -> Nat] /\ sched.fit \in SUBSET Nodes
      /\ pod.annotation \in ResultType
  BY DEF StoreInv, StoreTypes, SchedType
<1>2. NoCycle \in SchedType /\ [NoCycle EXCEPT !.pc = "filter"] \in SchedType
  BY DEF NoCycle, SchedType
<1>3. ASSUME sched' \in SchedType, UNCHANGED <<handler, results, late>>,
             UNCHANGED adding \/ (adding' \in AdditionType /\ Half' = Half),
             \/ UNCHANGED <<pod, events>>
             \/ Change(pod.annotation)
      PROVE  StoreInv'
  <2>1. /\ pod' \in [version : Nat, annotation : ResultType]
        /\ pod'.annotation = pod.annotation
        /\ events' \in Seq(Nat)
    BY <1>1, <1>3, ChangeEffect DEF StoreInv, StoreTypes
  <2>2. StoreTypes'
    BY <1>3, <2>1 DEF StoreInv, StoreTypes
  <2>3. Half' = Half
    BY <1>3 DEF Half
  <2>4. QED
    BY <1>3, <2>1, <2>2, <2>3, StoreUntouched
<1>4. CASE CycleBegin
  <2>1. sched' \in SchedType /\ UNCHANGED <<handler, results, late, pod, events, adding>>
    BY <1>2, <1>4 DEF CycleBegin, podVars, storeVars
  <2>2. QED
    BY <1>3, <2>1
<1>5. CASE FiltersDone \/ ScoreFails \/ ScoresDone
  <2>1. ASSUME NEW pc \in {"fail", "score", "bind"}
        PROVE  /\ [sched EXCEPT !.pc = pc] \in SchedType
               /\ [sched EXCEPT !.pc = pc, !.next = [n \in Nodes |-> 1]] \in SchedType
    BY <1>1 DEF SchedType
  <2>2. \E pc \in {"fail", "score", "bind"} :
           \/ sched' = [sched EXCEPT !.pc = pc]
           \/ sched' = [sched EXCEPT !.pc = pc, !.next = [n \in Nodes |-> 1]]
    BY <1>5 DEF FiltersDone, ScoreFails, ScoresDone
  <2>3. UNCHANGED <<handler, results, late, pod, events, adding>>
    BY <1>5 DEF FiltersDone, ScoreFails, ScoresDone, podVars, storeVars
  <2>4. QED
    BY <1>3, <2>1, <2>2, <2>3
<1>6. CASE CycleEnd
  <2>1. /\ sched' \in SchedType /\ UNCHANGED <<handler, results, late, adding>>
        /\ UNCHANGED <<pod, events>> \/ Change(pod.annotation)
    BY <1>2, <1>6 DEF CycleEnd, storeVars
  <2>2. QED
    BY <1>3, <2>1
\* The lock is free, so that no score is half added.
<1>7. ASSUME Unlocked PROVE Half = {}
  <2>1. adding \notin AdditionType
    BY <1>7 DEF Unlocked, AdditionType, Additions
  <2>2. adding = NoAddition
    BY <2>1 DEF StoreInv, StoreTypes
  <2>3. QED
    BY <2>2 DEF Half
<1>8. ASSUME NEW n \in Nodes, RunFilter(n) PROVE StoreInv'
  <2>1. PICK name : \E reason \in FilterOutcomes(name) : Filter(name, n, reason)
    BY <1>8 DEF RunFilter
  <2>2. PICK reason \in {"passed", "blocked"} : Filter(name, n, reason)
    BY <2>1 DEF FilterOutcomes
  <2>3. UNCHANGED <<handler, results, late, pod, events>> /\ Half = {}
    BY <1>7, <1>8 DEF RunFilter, podVars, storeVars
  <2>4. CASE Original(name) \in FilterPlugins
    <3>1. Add("filter", n, Original(name), reason) /\ UNCHANGED sched
      BY <2>2, <2>4 DEF Filter
    <3>2. adding' \in AdditionType /\ adding'.kind = "filter"
      BY <2>4, <3>1, AddType
    <3>3. Half' = {}
      BY <3>2 DEF Half
    <3>4. QED
      BY <1>1, <1>3, <2>3, <3>1, <3>2, <3>3
  <2>5. CASE Original(name) \notin FilterPlugins
    <3>1. Filtered(n, reason) /\ UNCHANGED adding
      BY <2>2, <2>5 DEF Filter
    <3>2. sched' \in SchedType
      BY <3>1, CallTypes DEF StoreInv
    <3>3. QED
      BY <1>3, <2>3, <3>1, <3>2
  <2>6. QED
    BY <2>4, <2>5
<1>9. ASSUME NEW n \in Nodes, RunScore(n) PROVE StoreInv'
  <2>1. PICK name : \E s \in Scores : Score(name, n, s)
    BY <1>9 DEF RunScore
  <2>2. PICK s \in Scores : Score(name, n, s)
    BY <2>1
  <2>3. UNCHANGED <<handler, results, late, pod, events>> /\ Half = {}
    BY <1>7, <1>9 DEF RunScore, podVars, storeVars
  <2>4. CASE Original(name) \in ScorePlugins
    <3>1. Add("score", n, Original(name), s) /\ UNCHANGED sched
      BY <2>2, <2>4 DEF Score
    <3>2. adding' \in AdditionType /\ adding'.kind = "score"
      BY <2>4, <3>1, AddType
    <3>3. Half' = {}
      BY <3>2 DEF Half
    <3>4. QED
      BY <1>1, <1>3, <2>3, <3>1, <3>2, <3>3
  <2>5. CASE Original(name) \notin ScorePlugins
    <3>1. Scored(n) /\ UNCHANGED adding
      BY <2>2, <2>5 DEF Score
    <3>2. sched' \in SchedType
      BY <3>1, CallTypes DEF StoreInv
    <3>3. QED
      BY <1>3, <2>3, <3>1, <3>2
  <2>6. QED
    BY <2>4, <2>5
<1>10. QED
  BY <1>4, <1>5, <1>6, <1>8, <1>9 DEF Cycle

(***************************************************************************)
(* The invariant holds at first, and every step keeps it.                  *)
(***************************************************************************)
LEMMA StoreInitially == SimulatorInit => StoreInv
<1> SUFFICES ASSUME SimulatorInit PROVE StoreInv
  OBVIOUS
<1>1. newData \in ResultType /\ newData.score = <<>> /\ newData.finalscore = <<>>
  BY NewDataType
<1>2. /\ pod = [version |-> 1, annotation |-> newData] /\ events = <<>>
      /\ handler = NoEvent /\ results = Nil /\ sched = NoCycle /\ adding = NoAddition
      /\ late = {}
  BY DEF SimulatorInit
<1>3. handler.pc = "idle" /\ handler \in [pc : {"idle"}, version : Nat, note : ResultType]
  BY <1>2, NoEventType
<1>4. StoreTypes
  <2>1. pod \in [version : Nat, annotation : ResultType] /\ events \in Seq(Nat)
    BY <1>1, <1>2
  <2>2. sched \in SchedType
    BY <1>2 DEF NoCycle, SchedType
  <2>3. QED
    BY <1>2, <1>3, <2>1, <2>2 DEF StoreTypes
<1>5. HandlerFindsResults /\ ScoresMatch /\ OneScoreLacksFinalScore
  BY <1>1, <1>2, <1>3 DEF HandlerFindsResults, ScoresMatch, OneScoreLacksFinalScore
<1>6. ReadIsKept
  BY <1>3 DEF ReadIsKept, HasRead, Kinds
<1>7. QED
  BY <1>4, <1>5, <1>6 DEF StoreInv

\* Every step keeps the invariant of the result store.
LEMMA StoreInductive == StoreInv /\ [SimulatorNext]_simvars => StoreInv'
<1> SUFFICES ASSUME StoreInv, [SimulatorNext]_simvars PROVE StoreInv'
  OBVIOUS
<1>1. CASE Convert \/ Start \/ AdditionPanics \/ ConcurrentMapAccess \/ UNCHANGED simvars
  <2>1. UNCHANGED <<pod, events, results, handler, sched, adding, late>>
    BY <1>1 DEF Convert, Start, AdditionPanics, ConcurrentMapAccess, simvars, schedVars,
                podVars, storeVars
  <2>2. StoreTypes' /\ Half' = Half
    BY <2>1 DEF StoreInv, StoreTypes, Half
  <2>3. QED
    BY <2>1, <2>2, StoreUntouched
<1>2. CASE OtherUpdate
  <2>1. Change(pod.annotation) /\ UNCHANGED <<results, handler, sched, adding, late>>
    BY <1>2 DEF OtherUpdate, schedVars, storeVars
  <2>2. pod.annotation \in ResultType
    BY DEF StoreInv, StoreTypes
  <2>3. /\ pod' \in [version : Nat, annotation : ResultType]
        /\ pod'.annotation = pod.annotation
        /\ events' \in Seq(Nat)
    BY <2>1, <2>2, ChangeEffect DEF StoreInv
  <2>4. StoreTypes' /\ Half' = Half
    BY <2>1, <2>3 DEF StoreInv, StoreTypes, Half
  <2>5. QED
    BY <2>1, <2>3, <2>4, StoreUntouched
<1>3. QED
  BY <1>1, <1>2, CycleKeepsStore, LookUpKeepsStore, AssignKeepsStore, HandleKeepsStore
     DEF SimulatorNext, Addition

(***************************************************************************)
(* The handler's local variables, the scores and the results fit together  *)
(* in every reachable state, however the additions of the plugins, which   *)
(* run concurrently, and the unlocked reads of the handler interleave.     *)
(***************************************************************************)
THEOREM StoreCorrect == SimulatorSpec => []StoreInv
BY StoreInitially, StoreInductive, PTL DEF SimulatorSpec

(***************************************************************************)
(* The handler of pod updates never dereferences results that are gone,    *)
(* whatever the plugins add between its reads.                             *)
(***************************************************************************)
THEOREM HandlerAlwaysFindsResults == SimulatorSpec => []HandlerFindsResults
<1>1. StoreInv => HandlerFindsResults
  BY DEF StoreInv
<1>2. QED
  BY <1>1, StoreCorrect, PTL

(***************************************************************************)
(* However the writes of AddScoreResult and the reads of the handler       *)
(* interleave, at most one score on the pod lacks its final score.         *)
(***************************************************************************)
THEOREM AtMostOneHalfReported == SimulatorSpec => []OneScoreLacksFinalScore
<1>1. StoreInv => OneScoreLacksFinalScore
  BY DEF StoreInv
<1>2. QED
  BY <1>1, StoreCorrect, PTL

(***************************************************************************)
(* DeleteData deletes nothing but late results that is not on the pod.     *)
(***************************************************************************)
THEOREM LosesOnlyLateResults == SimulatorSpec => OnlyLateResultsAreLost
<1> DEFINE Lost == results # Nil /\ results' = Nil =>
                      \A k \in Kinds : \A x \in DOMAIN results[k] :
                          OnPod(k, x) \/ <<k, x>> \in late
<1>1. StoreInv /\ StoreInv' /\ [SimulatorNext]_simvars => [Lost]_simvars
  <2> SUFFICES ASSUME StoreInv, StoreInv', SimulatorNext, results # Nil, results' = Nil,
                      NEW k \in Kinds, NEW x \in DOMAIN results[k]
               PROVE  OnPod(k, x) \/ <<k, x>> \in late
    OBVIOUS
  <2>1. DeleteData
    <3>1. ASSUME LookUpResults PROVE FALSE
      BY <3>1, NewDataType, ResultIsNotNil DEF LookUpResults, OrNew
    <3>2. ASSUME AssignResult PROVE FALSE
      <4>1. /\ adding.at = "assign"
            /\ results' = [results EXCEPT ![adding.kind] =
                             Put(@, <<adding.node, adding.plugin>>, adding.value)]
        BY <3>2 DEF AssignResult
      <4>2. adding # NoAddition
        BY <4>1 DEF NoAddition
      <4>3. adding \in AdditionType /\ results \in ResultType
        BY <4>2 DEF StoreInv, StoreTypes
      <4>4. results' \in ResultType
        BY <4>1, <4>3, AssignEffect DEF Adds
      <4>5. QED
        BY <4>4, ResultIsNotNil
    <3>3. ASSUME \/ Convert \/ Start \/ OtherUpdate \/ ConcurrentMapAccess
                 \/ AdditionPanics \/ Cycle
                 \/ HandleBegin \/ ReadResults \/ UpdatePod \/ UpdateFails
          PROVE  UNCHANGED results
      BY <3>3 DEF Convert, Start, OtherUpdate, ConcurrentMapAccess, AdditionPanics,
                  Cycle, CycleBegin, RunFilter, FiltersDone, RunScore, ScoreFails,
                  ScoresDone, CycleEnd, HandleBegin, ReadResults, ReadAs, UpdatePod,
                  UpdateFails, storeVars
    <3>4. QED
      BY <3>1, <3>2, <3>3 DEF SimulatorNext, Addition, Handle
  <2>2. HasRead(k) /\ pod.annotation = handler.note
    BY <2>1 DEF DeleteData, HasRead, Kinds, StoreInv, ReadIsKept
  <2>3. QED
    BY <2>2 DEF StoreInv, ReadIsKept, InNote, OnPod
<1>2. QED
  BY <1>1, StoreCorrect, PTL DEF SimulatorSpec, OnlyLateResultsAreLost

----------------------------------------------------------------------------
(* The configuration, and the type invariant.                              *)

(***************************************************************************)
(* What remains of the type invariant; and the state before and after the  *)
(* first conversion, until a scheduler starts.                             *)
(***************************************************************************)
Bounds ==
    /\ outcome \in {"none", "ok", "error", "panic"}
    /\ converted \in 0 .. 2
    /\ cycles \in 0 .. MaxCycles /\ updates \in 0 .. MaxUpdates
    /\ pod.version >= 1
    /\ \A i \in DOMAIN events : events[i] \in 1 .. pod.version
    /\ failed \in BOOLEAN /\ crashed \in BOOLEAN

FirstConversion ==
    /\ converted = 0 => profiles = asked /\ outcome = "none" /\ asked \in UserConfigs
    /\ converted = 1 /\ ~IsRunning =>
          /\ asked \in UserConfigs
          /\ outcome = convertConfigurationForSimulator(asked).outcome
          /\ profiles = convertConfigurationForSimulator(asked).profiles
    /\ converted = 2 => outcome # "ok"

SimulatorInv == StoreInv /\ Bounds /\ FirstConversion

\* Nothing is converted and the store is empty.
LEMMA SimulatorInitially == SimulatorInit => SimulatorInv
<1> SUFFICES ASSUME SimulatorInit PROVE SimulatorInv
  OBVIOUS
<1>1. Bounds
  <2>1. /\ outcome = "none" /\ converted = 0 /\ cycles = 0 /\ updates = 0
        /\ pod.version = 1 /\ events = <<>> /\ failed = FALSE /\ crashed = FALSE
    BY DEF SimulatorInit
  <2>2. 0 \in 0 .. MaxCycles /\ 0 \in 0 .. MaxUpdates
    BY SimulatorAssumption
  <2>3. /\ converted \in 0 .. 2 /\ pod.version >= 1
        /\ \A i \in DOMAIN events : events[i] \in 1 .. pod.version
    BY <2>1
  <2>4. failed \in BOOLEAN /\ crashed \in BOOLEAN
    BY <2>1
  <2>5. QED
    BY <2>1, <2>2, <2>3, <2>4, Zenon DEF Bounds
<1>2. FirstConversion
  BY DEF SimulatorInit, FirstConversion
<1>3. QED
  BY <1>1, <1>2, StoreInitially DEF SimulatorInv

\* What the first conversion found is what the caller asked for.
LEMMA FirstConversionInductive ==
    FirstConversion /\ Bounds /\ [SimulatorNext]_simvars => FirstConversion'
<1> SUFFICES ASSUME FirstConversion, Bounds, [SimulatorNext]_simvars
             PROVE  FirstConversion'
  OBVIOUS
<1>1. CASE Convert
  <2>1. /\ converted' = converted + 1 /\ asked' = asked
        /\ outcome' = convertConfigurationForSimulator(profiles).outcome
        /\ profiles' = convertConfigurationForSimulator(profiles).profiles
    BY <1>1 DEF Convert
  <2>2. converted \in 0 .. 2
    BY DEF Bounds
  <2>3. converted' # 0 /\ (converted' = 1 => converted = 0)
    BY <2>1, <2>2
  <2>4. ASSUME converted' = 1
        PROVE  /\ asked' \in UserConfigs
               /\ outcome' = convertConfigurationForSimulator(asked').outcome
               /\ profiles' = convertConfigurationForSimulator(asked').profiles
    <3>1. profiles = asked /\ asked \in UserConfigs
      BY <2>3, <2>4 DEF FirstConversion
    <3>2. QED
      BY <2>1, <3>1
  <2>5. ASSUME converted' = 2 PROVE outcome' # "ok"
    <3>1. converted = 1 /\ ~IsRunning
      BY <1>1, <2>1, <2>2, <2>5 DEF Convert
    <3>2. /\ asked \in UserConfigs
          /\ profiles = convertConfigurationForSimulator(asked).profiles
      BY <3>1 DEF FirstConversion
    <3>3. Len(asked) \in Nat /\ asked = [i \in 1 .. Len(asked) |-> asked[i]]
      BY <3>2, SimulatorAssumption
    <3>4. QED
      BY <2>1, <3>2, <3>3, SecondConversionFails
  <2>6. QED
    BY <2>3, <2>4, <2>5 DEF FirstConversion
<1>2. CASE Start
  <2>1. /\ UNCHANGED <<outcome, converted>> /\ outcome = "ok"
        /\ running'.is = "on"
    BY <1>2 DEF Start
  <2>2. QED
    BY <2>1 DEF FirstConversion, IsRunning
<1>3. CASE \/ Cycle \/ Addition \/ OtherUpdate \/ Handle \/ ConcurrentMapAccess
           \/ UNCHANGED simvars
  <2>1. UNCHANGED confVars
    BY <1>3 DEF Cycle, CycleBegin, FiltersDone, ScoreFails, ScoresDone, CycleEnd,
                RunFilter, RunScore, Addition, LookUpResults, AssignResult,
                AdditionPanics, OtherUpdate, Handle, HandleBegin, ReadResults,
                ReadAs, UpdatePod, UpdateFails, DeleteData, ConcurrentMapAccess,
                simvars
  <2>2. QED
    BY <2>1 DEF confVars, FirstConversion, IsRunning
<1>4. QED
  BY <1>1, <1>2, <1>3 DEF SimulatorNext

(***************************************************************************)
(* A version is reported when the pod has it; the events that are left     *)
(* report versions that the pod had.                                       *)
(***************************************************************************)
LEMMA EventsInductive ==
    ASSUME StoreTypes, Bounds,
           \/ UNCHANGED <<pod, events>>
           \/ \E note : Change(note)
           \/ events # <<>> /\ events' = Tail(events) /\ UNCHANGED pod
    PROVE  /\ pod'.version >= 1
           /\ \A i \in DOMAIN events' : events'[i] \in 1 .. pod'.version
<1>1. /\ pod.version \in Nat /\ events \in Seq(Nat) /\ pod.version >= 1
      /\ \A i \in DOMAIN events : events[i] \in 1 .. pod.version
  BY DEF StoreTypes, Bounds
<1>2. CASE UNCHANGED <<pod, events>>
  BY <1>1, <1>2
<1>3. ASSUME NEW note, Change(note)
      PROVE  /\ pod'.version >= 1
             /\ \A i \in DOMAIN events' : events'[i] \in 1 .. pod'.version
  <2>1. pod'.version = pod.version + 1 /\ events' = Append(events, pod.version + 1)
    BY <1>3 DEF Change
  <2>2. QED
    BY <1>1, <2>1
<1>4. CASE events # <<>> /\ events' = Tail(events) /\ UNCHANGED pod
  <2>1. ASSUME NEW i \in DOMAIN events'
        PROVE  i + 1 \in DOMAIN events /\ events'[i] = events[i + 1]
    BY <1>1, <1>4, <2>1
  <2>2. QED
    BY <1>1, <1>4, <2>1
<1>5. QED
  BY <1>2, <1>3, <1>4

\* The counters stay within their bounds.
LEMMA BoundsInductive == StoreTypes /\ Bounds /\ [SimulatorNext]_simvars => Bounds'
<1> SUFFICES ASSUME StoreTypes, Bounds, [SimulatorNext]_simvars PROVE Bounds'
  OBVIOUS
<1>1. /\ pod'.version >= 1
      /\ \A i \in DOMAIN events' : events'[i] \in 1 .. pod'.version
  <2>1. \/ UNCHANGED <<pod, events>>
        \/ \E note : Change(note)
        \/ events # <<>> /\ events' = Tail(events) /\ UNCHANGED pod
    <3>1. CASE Convert \/ Start \/ Addition \/ ConcurrentMapAccess \/ UNCHANGED simvars
      BY <3>1 DEF Convert, Start, Addition, LookUpResults, AssignResult, AdditionPanics,
                  ConcurrentMapAccess, simvars, podVars
    <3>2. CASE Cycle \/ OtherUpdate
      BY <3>2 DEF Cycle, CycleBegin, FiltersDone, ScoreFails, ScoresDone, CycleEnd,
                  RunFilter, RunScore, OtherUpdate, podVars
    <3>3. CASE Handle
      BY <3>3 DEF Handle, HandleBegin, ReadResults, ReadAs, UpdatePod, UpdateFails,
                  DeleteData, podVars
    <3>4. QED
      BY <3>1, <3>2, <3>3 DEF SimulatorNext
  <2>2. QED
    BY <2>1, EventsInductive
<1>2. /\ outcome' \in {"none", "ok", "error", "panic"}
      /\ converted' \in 0 .. 2
  <2>1. outcome \in {"none", "ok", "error", "panic"} /\ converted \in 0 .. 2
    BY DEF Bounds
  <2>2. CASE Convert
    <3>1. /\ converted < 2 /\ converted' = converted + 1
          /\ outcome' = convertConfigurationForSimulator(profiles).outcome
      BY <2>2 DEF Convert
    <3>2. PICK steps : outcome' = LoopOutcome(steps)
      BY <3>1 DEF convertConfigurationForSimulator
    <3>3. QED
      BY <2>1, <3>1, <3>2, LoopOutcomeIs
  <2>3. CASE ~Convert
    <3>1. UNCHANGED <<outcome, converted>>
      BY <2>3 DEF SimulatorNext, Addition, LookUpResults, AssignResult,
           AdditionPanics, Start, Cycle, CycleBegin, FiltersDone, ScoreFails,
                  ScoresDone, CycleEnd, RunFilter, RunScore, OtherUpdate, Handle,
                  HandleBegin, ReadResults, ReadAs, UpdatePod, UpdateFails,
                  DeleteData, ConcurrentMapAccess, simvars, confVars
    <3>2. QED
      BY <2>1, <3>1
  <2>4. QED
    BY <2>2, <2>3
<1>3. /\ cycles' \in 0 .. MaxCycles /\ updates' \in 0 .. MaxUpdates
  <2>1. /\ cycles \in 0 .. MaxCycles /\ updates \in 0 .. MaxUpdates
        /\ MaxCycles \in Nat /\ MaxUpdates \in Nat
    BY SimulatorAssumption DEF Bounds
  <2>2. \/ cycles' = cycles \/ cycles' = MaxCycles
        \/ cycles < MaxCycles /\ cycles' = cycles + 1
    BY DEF SimulatorNext, Addition, LookUpResults, AssignResult,
           AdditionPanics, Convert, Start, Cycle, CycleBegin, FiltersDone, ScoreFails,
           ScoresDone, CycleEnd, RunFilter, RunScore, OtherUpdate, Handle,
           HandleBegin, ReadResults, ReadAs, UpdatePod, UpdateFails, DeleteData,
           ConcurrentMapAccess, simvars, schedVars
  <2>3. updates' = updates \/ (updates < MaxUpdates /\ updates' = updates + 1)
    BY DEF SimulatorNext, Addition, LookUpResults, AssignResult,
           AdditionPanics, Convert, Start, Cycle, CycleBegin, FiltersDone, ScoreFails,
           ScoresDone, CycleEnd, RunFilter, RunScore, OtherUpdate, Handle,
           HandleBegin, ReadResults, ReadAs, UpdatePod, UpdateFails, DeleteData,
           ConcurrentMapAccess, simvars, podVars
  <2>4. QED
    BY <2>1, <2>2, <2>3
<1>4. failed' \in BOOLEAN
  <2>1. UNCHANGED failed \/ failed' = TRUE
    BY DEF SimulatorNext, Addition, LookUpResults, AssignResult,
           AdditionPanics, Convert, Start, Cycle, CycleBegin, FiltersDone, ScoreFails,
           ScoresDone, CycleEnd, RunFilter, RunScore, OtherUpdate, Handle,
           HandleBegin, ReadResults, ReadAs, UpdatePod, UpdateFails, DeleteData,
           ConcurrentMapAccess, simvars, storeVars
  <2>2. QED
    BY <2>1 DEF Bounds
<1>5. crashed' \in BOOLEAN
  <2>1. CASE Convert
    BY <2>1 DEF Convert
  <2>2. CASE ~Convert
    <3>1. UNCHANGED crashed \/ crashed' = TRUE
      BY <2>2 DEF SimulatorNext, Addition, LookUpResults, AssignResult,
           AdditionPanics, Start, Cycle, CycleBegin, FiltersDone, ScoreFails,
             ScoresDone, CycleEnd, RunFilter, RunScore, OtherUpdate, Handle,
             HandleBegin, ReadResults, ReadAs, UpdatePod, UpdateFails, DeleteData,
             ConcurrentMapAccess, simvars
    <3>2. QED
      BY <3>1 DEF Bounds
  <2>3. QED
    BY <2>1, <2>2
<1>6. QED
  BY <1>1, <1>2, <1>3, <1>4, <1>5 DEF Bounds

\* Every step keeps the invariant of the simulator.
LEMMA SimulatorInductive == SimulatorInv /\ [SimulatorNext]_simvars => SimulatorInv'
BY StoreInductive, BoundsInductive, FirstConversionInductive
   DEF SimulatorInv, StoreInv

(***************************************************************************)
(* The result store, the bounds and what is known of the first conversion  *)
(* hold together in every reachable state.                                 *)
(***************************************************************************)
THEOREM SimulatorCorrect == SimulatorSpec => []SimulatorInv
BY SimulatorInitially, SimulatorInductive, PTL DEF SimulatorSpec

(***************************************************************************)
(* For any default plugins and any configuration, converting the object a  *)
(* second time never succeeds: not after a success, since the wrappers'    *)
(* configurations have no default arguments to override, and not after an  *)
(* error or a panic, which is met again.                                   *)
(***************************************************************************)
THEOREM RetryNeverSucceeds == SimulatorSpec => []ConvertsOnce
<1>1. SimulatorInv => ConvertsOnce
  <2>1. Bounds => converted \in {0, 1, 2}
    BY DEF Bounds
  <2>2. QED
    BY <2>1 DEF SimulatorInv, FirstConversion, ConvertsOnce
<1>2. QED
  BY <1>1, SimulatorCorrect, PTL

(***************************************************************************)
(* Before a scheduler starts, a conversion that was ok has made of every   *)
(* profile what ConvertProfile says.                                       *)
(***************************************************************************)
LEMMA ConvertedProfiles ==
    ASSUME SimulatorInv, Before, NEW i \in DOMAIN profiles
    PROVE  /\ i \in DOMAIN GivenProfiles(asked)
           /\ ConfigOutcome(GivenProfiles(asked)[i].pluginConfig) = "ok"
           /\ profiles[i] = ConvertProfile(GivenProfiles(asked)[i])
<1>1. converted = 1
  <2>1. converted \in {0, 1, 2}
    BY DEF SimulatorInv, Bounds
  <2>2. QED
    BY <2>1 DEF SimulatorInv, FirstConversion, Before
<1>2. /\ asked \in UserConfigs
      /\ convertConfigurationForSimulator(asked).outcome = "ok"
      /\ profiles = convertConfigurationForSimulator(asked).profiles
  BY <1>1 DEF SimulatorInv, FirstConversion, Before
<1>3. Len(asked) \in Nat /\ asked = [j \in 1 .. Len(asked) |-> asked[j]]
  BY <1>2, SimulatorAssumption
<1>4. DOMAIN asked = 1 .. Len(asked)
  BY <1>3
<1>5. QED
  BY <1>2, <1>3, <1>4, EveryProfileIsConverted

(***************************************************************************)
(* What kube-scheduler makes of one converted plugin set.                  *)
(***************************************************************************)
LEMMA SetIsSimulated ==
    ASSUME NEW was, NEW list \in {DefaultFilterPlugins, DefaultScorePlugins}
    PROVE  IsSimulated(was, ConvertSet(was, list), list)
<1>1. PICK is : is = ConvertSet(was, list)
  OBVIOUS
<1>2. is.disabled = {All}
  BY <1>1 DEF ConvertSet
<1>3. EffectivePlugins(is, list) = DefaultNames(is.enabled)
  BY <1>2 DEF EffectivePlugins, LeftOn
<1>4. CASE All \in was.disabled
  <2>1. is.enabled = was.enabled
    BY <1>1, <1>4 DEF ConvertSet
  <2>2. LeftOn(was, list) = {}
    BY <1>4 DEF LeftOn
  <2>3. QED
    BY <1>1, <1>3, <1>4, <2>1, <2>2 DEF IsSimulated
<1>5. CASE All \notin was.disabled
  <2>1. PICK left : left = DefaultNames(list) \ was.disabled
    OBVIOUS
  <2>2. EffectivePlugins(is, list) = {pluginName(n) : n \in left}
    BY <1>1, <1>3, <1>5, <2>1, ConvertSetIs
  <2>3. LeftOn(was, list) = left
    BY <1>5, <2>1 DEF LeftOn
  <2>4. QED
    BY <1>1, <1>5, <2>2, <2>3 DEF IsSimulated
<1>6. QED
  BY <1>4, <1>5

(***************************************************************************)
(* For any default plugins and any configuration, what kube-scheduler      *)
(* makes of a converted profile: the wrapper of each default plugin that   *)
(* the caller leaves on, and the plugins that the caller enables only if   *)
(* the caller disables all default ones.                                   *)
(***************************************************************************)
THEOREM ConversionKeepsPlugins == SimulatorSpec => []SimulatesWhatWasAsked
<1>1. SimulatorInv => SimulatesWhatWasAsked
  <2> SUFFICES ASSUME SimulatorInv, Before, NEW i \in DOMAIN profiles
               PROVE  /\ IsSimulated(AskedPlugins(i).filter, profiles[i].plugins.filter,
                                     DefaultFilterPlugins)
                      /\ IsSimulated(AskedPlugins(i).score, profiles[i].plugins.score,
                                     DefaultScorePlugins)
    BY DEF SimulatesWhatWasAsked
  <2>1. profiles[i] = ConvertProfile(GivenProfiles(asked)[i])
    BY ConvertedProfiles
  <2>2. profiles[i].plugins = ConvertForSimulator(AskedPlugins(i))
    BY <2>1 DEF ConvertProfile, AskedPlugins
  <2>3. PICK f, s : f = AskedPlugins(i).filter /\ s = AskedPlugins(i).score
    OBVIOUS
  <2>4. /\ profiles[i].plugins.filter = ConvertSet(f, DefaultFilterPlugins)
        /\ profiles[i].plugins.score = ConvertSet(s, DefaultScorePlugins)
    BY <2>2, <2>3 DEF ConvertForSimulator
  <2>5. QED
    BY <2>3, <2>4, SetIsSimulated
<1>2. QED
  BY <1>1, SimulatorCorrect, PTL

(***************************************************************************)
(* For any default plugins and any configuration, kube-scheduler does not  *)
(* refuse the converted one for a plugin that is configured twice; and a   *)
(* wrapping plugin is configured like the wrapped one.                     *)
(***************************************************************************)
THEOREM ConversionConfiguresOnce == SimulatorSpec => []OneConfigPerPlugin
<1>1. ASSUME SimulatorInv, Before, NEW i \in DOMAIN profiles
      PROVE  \E pc : profiles[i].pluginConfig = NewPluginConfig(pc)
  BY <1>1, ConvertedProfiles DEF ConvertProfile
<1>2. SimulatorInv => OneConfigPerPlugin
  BY <1>1, NewPluginConfigIs DEF OneConfigPerPlugin
<1>3. QED
  BY <1>2, SimulatorCorrect, PTL

(***************************************************************************)
(* The state of the simulator has the right shape: results are only ever   *)
(* recorded for nodes, and for plugins that have the method.               *)
(***************************************************************************)
THEOREM SimulatorTypeCorrect == SimulatorSpec => []SimulatorTypeOK
<1>1. SimulatorInv => SimulatorTypeOK
  <2> SUFFICES ASSUME SimulatorInv PROVE SimulatorTypeOK
    OBVIOUS
  <2>1. ASSUME NEW r \in ResultType
        PROVE  /\ \A x \in DOMAIN r.filter : x[1] \in Nodes /\ x[2] \in FilterPlugins
               /\ \A x \in DOMAIN r.score \cup DOMAIN r.finalscore :
                     x[1] \in Nodes /\ x[2] \in ScorePlugins
    <3>1. /\ DOMAIN r.filter \subseteq Nodes \X FilterPlugins
          /\ DOMAIN r.score \subseteq Nodes \X ScorePlugins
          /\ DOMAIN r.finalscore \subseteq Nodes \X ScorePlugins
      BY DEF ResultType, Maps
    <3>2. QED
      BY <3>1
  <2>2. {pod.annotation, handler.note} \cup ({results} \ {Nil}) \subseteq ResultType
    BY DEF SimulatorInv, StoreInv, StoreTypes
  <2>3. /\ sched.pc \in {"idle", "filter", "score", "bind", "fail"}
        /\ sched.next \in [Nodes -> Nat] /\ sched.fit \in SUBSET Nodes
        /\ pod.version \in Nat
        /\ handler.pc \in {"idle", "filter", "score", "finalscore", "update", "delete"}
        /\ adding = NoAddition \/ adding \in AdditionType
        /\ late \subseteq Kinds \X (Nodes \X (FilterPlugins \cup ScorePlugins))
    BY DEF SimulatorInv, StoreInv, StoreTypes, SchedType
  <2>4. QED
    BY <2>1, <2>2, <2>3 DEF SimulatorInv, Bounds, SimulatorTypeOK
<1>2. QED
  BY <1>1, SimulatorCorrect, PTL
=============================================================================
