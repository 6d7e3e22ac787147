--------------------------- MODULE TeamRunsProofs ---------------------------
(* Theorems about TeamRuns, for any team, any messages, any limits and any  *)
(* number of team runs and requests.                                        *)
EXTENDS TeamRuns, TeamPlanProofs, TLAPS

(***************************************************************************)
(* The inductive invariant.  Each of its parts but the types speaks of one *)
(* team run, and what is done for a team run leaves the others alone.      *)
(***************************************************************************)

TaskWords == {"none", "pending", "running", "completed", "failed", "skipped"}

LoopWords ==
  {"none", "planning", "announcing", "looping", "waiting", "concluding", "aborting", "ending"}
    \cup Over

\* The types of what the proofs look into.
Shapes ==
  /\ DOMAIN graph = Runs /\ DOMAIN crew = Runs /\ DOMAIN owner = Runs
  /\ task \in [Runs -> [TaskIds -> TaskWords]]
  /\ teamRun \in [Runs -> {"none", "completed", "failed"} \cup Active]
  /\ run \in [Runs -> {"none", "completed", "failed", "cancelled"} \cup Active]
  /\ loop \in [Runs -> LoopWords]
  /\ thrown \subseteq Runs
  /\ node \in [Nodes -> {"none", "missing", "starting", "spawned", "succeeded", "failing",
                         "rejected"}]
  /\ board \in [Runs -> SUBSET TaskIds]
  /\ context \in [Nodes -> SUBSET TaskIds]
  /\ evidence \subseteq Nodes
  /\ credential \subseteq Nodes
  /\ process \in [Agents -> Nodes \cup {Nothing}]
  /\ current \in [Agents -> Runs \cup {NoRun}]
  /\ request \in [Callers -> Request \cup {Idle, Returned}]

\* No task of the run is in progress.
Quiet(r) == \A i \in TaskIds : node[<<r, i>>] = "none"

\* A run that was not accepted has nothing but, once it is planned, its tasks.
Fresh(r) ==
  /\ loop[r] = "none" => \A i \in TaskIds : task[r][i] = "none"
  /\ loop[r] \in {"none", "planning"} =>
       /\ run[r] = "none" /\ teamRun[r] = "none"
       /\ \A i \in TaskIds : task[r][i] \in {"none", "pending"}

\* Tasks are in progress only while the loop waits for them, or after the run
\* was given up with an exception.
Settles(r) ==
  \/ Quiet(r)
  \/ loop[r] \in {"waiting", "aborting"}
  \/ r \in thrown /\ loop[r] \in {"ending"} \cup Over

\* A task in progress has a status that says it was launched.
Marked(r) == \A i \in TaskIds : node[<<r, i>>] # "none" => i \in Launched(r)

\* What a launched task depends on has completed, is no longer in progress, so
\* that nothing can make it fail any more, and was read.
Fed(r) ==
  \A i \in Launched(r) :
    /\ \A d \in DependsOn(graph[r], i) :
         d \in TaskIds /\ task[r][d] = "completed" /\ node[<<r, d>>] = "none"
    /\ DependsOn(graph[r], i) \ Silent \subseteq context[<<r, i>>]

\* What completed has published.
Boards(r) == \A i \in TaskIds : task[r][i] = "completed" => Published(i) \subseteq board[r]

\* What completed has its evidence, but for the tasks still in progress and
\* those that a restart has overtaken.
Witnessed(r) ==
  loop[r] \notin Over => \A i \in TaskIds :
    task[r][i] = "completed" /\ node[<<r, i>>] = "none" => <<r, i>> \in evidence

\* A team run is called completed when there is nothing left to do in it.
Complete(r) ==
  /\ teamRun[r] = "completed" =>
       /\ Quiet(r)
       /\ loop[r] \in {"ending", "aborting"} \cup Over
       /\ \A i \in Ids(graph[r]) :
            i \in TaskIds /\ task[r][i] = "completed" /\ <<r, i>> \in evidence
  /\ run[r] = "completed" => teamRun[r] = "completed" /\ loop[r] \in Over

\* Only tasks in progress hold a credential.
Identified(r) == \A i \in TaskIds : <<r, i>> \in credential => node[<<r, i>>] # "none"

RunInv(r) ==
  /\ Fresh(r)
  /\ Settles(r)
  /\ Marked(r)
  /\ Fed(r)
  /\ Boards(r)
  /\ Witnessed(r)
  /\ Complete(r)
  /\ Identified(r)

\* A request that is about to finish has seen the run it waited for end, and
\* end without an exception.
HasWaited(q) ==
  (request[q].pc = "finishing" /\ request[q].waitsFor \in Runs) =>
    loop[request[q].waitsFor] \in Over /\ request[q].waitsFor \notin thrown

IInv ==
  /\ Shapes
  /\ \A r \in Runs : RunInv(r)
  /\ \A q \in Callers : HasWaited(q)

-----------------------------------------------------------------------------
(* What the steps leave alone.                                             *)

LEMMA NodeFacts ==
  /\ \A r \in Runs, i \in TaskIds : <<r, i>> \in Nodes
  /\ \A n \in Nodes : n[1] \in Runs /\ n[2] \in TaskIds /\ n = <<n[1], n[2]>>
  BY DEF Nodes

\* Nothing that the invariant says of the run has changed.
SameRun(r) ==
  /\ graph'[r] = graph[r] /\ task'[r] = task[r]
  /\ teamRun'[r] = teamRun[r] /\ run'[r] = run[r]
  /\ loop'[r] = loop[r] /\ (r \in thrown' <=> r \in thrown)
  /\ board'[r] = board[r]
  /\ \A i \in TaskIds :
       /\ node'[<<r, i>>] = node[<<r, i>>]
       /\ context'[<<r, i>>] = context[<<r, i>>]
       /\ <<r, i>> \in evidence' <=> <<r, i>> \in evidence
       /\ <<r, i>> \in credential' <=> <<r, i>> \in credential

\* The invariant of a run speaks of nothing else than that.
LEMMA RunUntouched ==
  ASSUME NEW r \in Runs, RunInv(r), SameRun(r), Shapes
  PROVE  RunInv(r)'
<1>1. Launched(r)' = Launched(r) /\ Launched(r) \subseteq TaskIds
  BY DEF SameRun, Launched, TasksThatAre
<1>2. \A i : DependsOn(graph[r], i)' = DependsOn(graph[r], i)
  BY DEF SameRun, DependsOn
<1>3. Ids(graph[r])' = Ids(graph[r])
  BY DEF SameRun, Ids
<1>4. Quiet(r)' <=> Quiet(r)
  BY DEF SameRun, Quiet
<1>5. Fresh(r)' /\ Settles(r)' /\ Identified(r)'
  BY <1>4 DEF RunInv, SameRun, Fresh, Settles, Identified
<1>6. Marked(r)'
  BY <1>1 DEF RunInv, SameRun, Marked
<1>7. Fed(r)'
  <2> SUFFICES ASSUME NEW i \in Launched(r)
               PROVE  /\ \A d \in DependsOn(graph[r], i)' :
                           /\ d \in TaskIds
                           /\ task'[r][d] = "completed"
                           /\ node'[<<r, d>>] = "none"
                      /\ DependsOn(graph[r], i)' \ Silent \subseteq context'[<<r, i>>]
    BY <1>1 DEF Fed
  <2>1. i \in TaskIds
    BY <1>1
  <2> QED BY <1>2, <2>1 DEF RunInv, SameRun, Fed
<1>8. Boards(r)' /\ Witnessed(r)'
  BY DEF RunInv, SameRun, Boards, Witnessed, Published
<1>9. Complete(r)'
  BY <1>3, <1>4 DEF RunInv, SameRun, Complete
<1> QED BY <1>5, <1>6, <1>7, <1>8, <1>9 DEF RunInv

\* A step for one run keeps the invariant if it keeps it of that run, and does
\* not take back that a run is over.
LEMMA OneRunSteps ==
  ASSUME IInv, NEW r \in Runs, Shapes', RunInv(r)', \A s \in Runs \ {r} : SameRun(s),
         loop[r] \notin Over \/ UNCHANGED <<loop, thrown>>, UNCHANGED request
  PROVE  IInv'
<1>1. \A s \in Runs : RunInv(s)'
  BY RunUntouched DEF IInv
<1>2. ASSUME NEW q \in Callers
      PROVE  HasWaited(q)'
  BY DEF IInv, HasWaited, SameRun
<1> QED BY <1>1, <1>2 DEF IInv

LEMMA InitInv ==
  ASSUME Init
  PROVE  IInv
<1>1. Shapes
  <2>1. \A r \in Runs : task[r] \in [TaskIds -> TaskWords]
    BY DEF Init, TaskWords
  <2>2. task \in [Runs -> [TaskIds -> TaskWords]]
    BY <2>1 DEF Init
  <2> QED BY <2>2 DEF Init, Shapes, LoopWords, Idle, Nothing, NoRun
<1>2. ASSUME NEW r \in Runs
      PROVE  RunInv(r)
  <2>1. Launched(r) = {} /\ Quiet(r)
    BY NodeFacts DEF Init, Launched, TasksThatAre, Quiet
  <2> QED BY <2>1 DEF Init, RunInv, Fresh, Settles, Marked, Fed, Boards, Witnessed, Complete,
                      Identified, Quiet
<1>3. ASSUME NEW q \in Callers
      PROVE  HasWaited(q)
  BY DEF Init, HasWaited, Idle
<1> QED BY <1>1, <1>2, <1>3 DEF IInv

-----------------------------------------------------------------------------
(* The loop of a run.                                                      *)

LEMMA PlanStep ==
  ASSUME IInv, NEW r \in Runs, NEW m \in Messages[r], NEW trigger, Plan(r, m, trigger)
  PROVE  IInv'
<1> DEFINE g == PlanTaskGraph(m.proposal, m.prompt, Present)
<1> HIDE DEF g
<1>1. /\ loop[r] = "none"
      /\ graph' = [graph EXCEPT ![r] = g]
      /\ task' = [task EXCEPT ![r] = [i \in TaskIds |-> IF i \in Ids(g) THEN "pending" ELSE @[i]]]
      /\ loop' = [loop EXCEPT ![r] = "planning"]
      /\ DOMAIN crew' = DOMAIN crew /\ DOMAIN owner' = DOMAIN owner
      /\ UNCHANGED <<teamRun, run, thrown, node, board, context, evidence, credential, process,
                     current, request>>
  BY DEF Plan, g, MoveTo, taskVars, runnerVars
<1>2. Shapes /\ RunInv(r)
  BY DEF IInv
<1>3. Quiet(r) /\ run[r] = "none" /\ teamRun[r] = "none"
  BY <1>1, <1>2 DEF RunInv, Fresh, Settles, Over
<1>4. Shapes'
  <2>1. task' \in [Runs -> [TaskIds -> TaskWords]]
    BY <1>1, <1>2 DEF Shapes, TaskWords
  <2> QED BY <1>1, <1>2, <2>1 DEF Shapes, LoopWords
<1>5. RunInv(r)'
  <2>1. \A i \in TaskIds : task'[r][i] \in {"none", "pending"}
    BY <1>1, <1>2 DEF Shapes, RunInv, Fresh
  <2>2. Launched(r)' = {} /\ Quiet(r)'
    BY <1>1, <1>3, <2>1 DEF Launched, TasksThatAre, Quiet
  <2>3. loop'[r] = "planning"
    BY <1>1, <1>2 DEF Shapes
  <2>4. Identified(r)'
    BY <1>1, <1>2 DEF RunInv, Identified
  <2> QED BY <1>1, <1>3, <2>1, <2>2, <2>3, <2>4
          DEF RunInv, Fresh, Settles, Marked, Fed, Boards, Witnessed, Complete, Quiet
<1>6. \A s \in Runs \ {r} : SameRun(s)
  BY <1>1, <1>2 DEF SameRun, Shapes
<1> QED BY <1>1, <1>4, <1>5, <1>6, OneRunSteps DEF Over

\* What the steps of the loop that start and skip nothing leave alone.
LoopOnly(r) ==
  /\ UNCHANGED <<graph, task, crew, owner, node, board, context, evidence, credential, process,
                 request>>
  /\ \E pc \in LoopWords \ {"none", "planning"} : loop' = [loop EXCEPT ![r] = pc]
  /\ thrown' \in {thrown, thrown \cup {r}}
  /\ \E word \in {"completed", "failed"} \cup Active :
       teamRun' \in {teamRun, [teamRun EXCEPT ![r] = word]}
  /\ \E word \in {"completed", "failed"} \cup Active :
       run' \in {run, [run EXCEPT ![r] = word]}
  /\ current' \in [Agents -> Runs \cup {NoRun}]

\* Then it remains to show what these steps change: where the loop stands and
\* what is said of the run.
LEMMA LoopSteps ==
  ASSUME IInv, NEW r \in Runs, LoopOnly(r), loop[r] \notin Over, loop[r] # "none",
         Settles(r)', Complete(r)', Witnessed(r)'
  PROVE  IInv'
<1>1. Shapes /\ RunInv(r)
  BY DEF IInv
<1>2. Shapes'
  <2>1. loop' \in [Runs -> LoopWords] /\ thrown' \subseteq Runs
    BY <1>1 DEF Shapes, LoopOnly
  <2>2. teamRun' \in [Runs -> {"none", "completed", "failed"} \cup Active]
    BY <1>1 DEF Shapes, LoopOnly
  <2>3. run' \in [Runs -> {"none", "completed", "failed", "cancelled"} \cup Active]
    BY <1>1 DEF Shapes, LoopOnly
  <2> QED BY <1>1, <2>1, <2>2, <2>3 DEF Shapes, LoopOnly
<1>3. \A s \in Runs \ {r} : SameRun(s)
  BY <1>1 DEF SameRun, Shapes, LoopOnly
<1>4. RunInv(r)'
  <2>1. Launched(r)' = Launched(r) /\ Launched(r) \subseteq TaskIds
    BY DEF LoopOnly, Launched, TasksThatAre
  <2>2. \A i : DependsOn(graph[r], i)' = DependsOn(graph[r], i)
    BY DEF LoopOnly, DependsOn
  <2>3. loop'[r] \notin {"none", "planning"}
    BY <1>1 DEF LoopOnly, Shapes
  <2>4. Fresh(r)'
    BY <2>3 DEF Fresh
  <2>5. Marked(r)' /\ Boards(r)' /\ Identified(r)'
    BY <1>1, <2>1 DEF RunInv, Marked, Boards, Identified, LoopOnly, Published
  <2>6. Fed(r)'
    BY <1>1, <2>1, <2>2 DEF RunInv, Fed, LoopOnly
  <2> QED BY <2>4, <2>5, <2>6 DEF RunInv
<1> QED BY <1>2, <1>3, <1>4, OneRunSteps DEF LoopOnly

LEMMA AcceptStep ==
  ASSUME IInv, NEW r \in Runs, Accept(r)
  PROVE  IInv'
<1>1. Shapes /\ RunInv(r) /\ loop[r] = "planning"
  BY DEF IInv, Accept, LoopAt
<1>2. /\ LoopOnly(r)
      /\ loop'[r] \in {"announcing", "over"}
      /\ teamRun'[r] \in {"none", "queued"} /\ run'[r] \in {"none", "queued"}
  <2>1. UNCHANGED <<graph, task, crew, owner, thrown, node, board, context, evidence, credential,
                    process, request>>
    BY DEF Accept, taskVars, runnerVars
  <2>2. current' \in [Agents -> Runs \cup {NoRun}]
    BY <1>1 DEF Accept, Shapes
  <2>3. run[r] = "none" /\ teamRun[r] = "none"
    BY <1>1 DEF RunInv, Fresh
  <2>4. loop' \in {[loop EXCEPT ![r] = "announcing"], [loop EXCEPT ![r] = "over"]}
    BY DEF Accept, MoveTo
  <2>5. teamRun' \in {teamRun, [teamRun EXCEPT ![r] = "queued"]}
        /\ run' \in {run, [run EXCEPT ![r] = "queued"]}
    BY DEF Accept
  <2> QED BY <1>1, <2>1, <2>2, <2>3, <2>4, <2>5 DEF LoopOnly, LoopWords, Active, Shapes, Over
<1>3. Quiet(r)' /\ \A i \in TaskIds : task'[r][i] \in {"none", "pending"}
  BY <1>1, <1>2 DEF RunInv, Fresh, Settles, Quiet, LoopOnly, Over
<1> QED BY <1>1, <1>2, <1>3, LoopSteps DEF Settles, Complete, Witnessed, Over

LEMMA BeginStep ==
  ASSUME IInv, NEW r \in Runs, Begin(r)
  PROVE  IInv'
<1>1. Shapes /\ RunInv(r) /\ loop[r] = "announcing"
  BY DEF IInv, Begin, LoopAt
<1>2. LoopOnly(r)
  <2>1. UNCHANGED <<graph, task, crew, owner, node, board, context, evidence, credential, process,
                    request, current>>
    BY DEF Begin, taskVars, runnerVars, crewVars
  <2> QED BY <1>1, <2>1 DEF LoopOnly, Begin, MoveTo, LoopWords, Active, Shapes
<1>3. Quiet(r)' /\ teamRun[r] # "completed" /\ run[r] # "completed"
  BY <1>1, <1>2 DEF RunInv, Settles, Complete, Quiet, LoopOnly, Over
<1>4. teamRun'[r] # "completed" /\ run'[r] # "completed" /\ loop'[r] \in {"looping", "ending"}
  BY <1>1, <1>3 DEF Begin, MoveTo, Shapes
<1>5. Witnessed(r)'
  BY <1>1, <1>2 DEF RunInv, Witnessed, LoopOnly, Over
<1> QED BY <1>1, <1>2, <1>3, <1>4, <1>5, LoopSteps DEF Settles, Complete, Over

LEMMA LeaveLoopStep ==
  ASSUME IInv, NEW r \in Runs, LeaveLoop(r)
  PROVE  IInv'
<1>1. Shapes /\ RunInv(r) /\ loop[r] = "looping"
  BY DEF IInv, LeaveLoop, LoopAt
<1>2. LoopOnly(r) /\ UNCHANGED <<teamRun, run, thrown>> /\ loop'[r] = "concluding"
  <2>1. UNCHANGED <<graph, task, crew, owner, teamRun, run, thrown, node, board, context, evidence,
                    credential, process, current, request>>
    BY DEF LeaveLoop, runVars, taskVars, runnerVars, crewVars
  <2> QED BY <1>1, <2>1 DEF LoopOnly, LeaveLoop, MoveTo, LoopWords, Shapes
<1>3. Quiet(r)' /\ teamRun[r] # "completed" /\ run[r] # "completed"
  BY <1>1, <1>2 DEF RunInv, Settles, Complete, Quiet, LoopOnly, Over
<1>4. Witnessed(r)'
  BY <1>1, <1>2 DEF RunInv, Witnessed, LoopOnly, Over
<1> QED BY <1>1, <1>2, <1>3, <1>4, LoopSteps DEF Settles, Complete, Over

LEMMA LayerEndsStep ==
  ASSUME IInv, NEW r \in Runs, LayerEnds(r)
  PROVE  IInv'
<1>1. Shapes /\ RunInv(r) /\ loop[r] = "waiting"
  BY DEF IInv, LayerEnds, LoopAt
<1>2. /\ LoopOnly(r) /\ UNCHANGED <<teamRun, run, thrown>>
      /\ (loop'[r] = "looping" /\ Quiet(r)) \/ loop'[r] = "aborting"
  <2>1. UNCHANGED <<graph, task, crew, owner, teamRun, run, thrown, node, board, context, evidence,
                    credential, process, current, request>>
    BY DEF LayerEnds, runVars, taskVars, runnerVars, crewVars
  <2> QED BY <1>1, <2>1 DEF LoopOnly, LayerEnds, MoveTo, LoopWords, Shapes, AllSettled, Quiet
<1>3. teamRun[r] # "completed" /\ run[r] # "completed"
  BY <1>1 DEF RunInv, Complete, Over
<1>4. Settles(r)'
  BY <1>2 DEF Settles, Quiet, LoopOnly
<1>5. Witnessed(r)'
  BY <1>1, <1>2 DEF RunInv, Witnessed, LoopOnly, Over
<1> QED BY <1>1, <1>2, <1>3, <1>4, <1>5, LoopSteps DEF Complete, Over

LEMMA ConcludeStep ==
  ASSUME IInv, NEW r \in Runs, Conclude(r)
  PROVE  IInv'
<1>1. Shapes /\ RunInv(r) /\ loop[r] = "concluding"
  BY DEF IInv, Conclude, LoopAt
<1> DEFINE word == IF AllSucceeded(r) THEN "completed" ELSE "failed"
<1>2. /\ LoopOnly(r) /\ UNCHANGED <<run, thrown>>
      /\ loop'[r] \in {"ending", "aborting"}
      /\ teamRun'[r] \in {teamRun[r], word}
  <2>1. UNCHANGED <<graph, task, crew, owner, run, thrown, node, board, context, evidence,
                    credential, process, current, request>>
    BY DEF Conclude, taskVars, runnerVars, crewVars
  <2>2. teamRun' \in {teamRun, [teamRun EXCEPT ![r] = word]}
    BY DEF Conclude
  <2> QED BY <1>1, <2>1, <2>2 DEF LoopOnly, Conclude, MoveTo, LoopWords, Shapes
<1>3. Quiet(r) /\ teamRun[r] # "completed" /\ run[r] # "completed"
  BY <1>1 DEF RunInv, Settles, Complete, Quiet, Over
<1>4. Quiet(r)' /\ Settles(r)'
  BY <1>2, <1>3 DEF Settles, Quiet, LoopOnly
<1>5. Witnessed(r)'
  BY <1>1, <1>2 DEF RunInv, Witnessed, LoopOnly, Over
<1>6. ASSUME teamRun'[r] = "completed", NEW i \in Ids(graph[r])'
      PROVE  i \in TaskIds /\ task'[r][i] = "completed" /\ <<r, i>> \in evidence'
  <2>1. i \in TasksThatAre(r, "completed")
    BY <1>2, <1>3, <1>6 DEF AllSucceeded, LoopOnly, Ids
  <2> QED BY <1>1, <1>2, <1>3, <2>1 DEF TasksThatAre, RunInv, Witnessed, Quiet, LoopOnly, Over
<1> QED BY <1>1, <1>2, <1>3, <1>4, <1>5, <1>6, LoopSteps DEF Complete, Over

LEMMA AbortStep ==
  ASSUME IInv, NEW r \in Runs, Abort(r)
  PROVE  IInv'
<1>1. Shapes /\ RunInv(r) /\ loop[r] = "aborting"
  BY DEF IInv, Abort, LoopAt
<1>2. /\ LoopOnly(r) /\ UNCHANGED run
      /\ r \in thrown' /\ loop'[r] = "ending"
      /\ teamRun'[r] \in {teamRun[r], "failed"}
  <2>1. UNCHANGED <<graph, task, crew, owner, run, node, board, context, evidence, credential,
                    process, current, request>>
    BY DEF Abort, taskVars, runnerVars, crewVars
  <2> QED BY <1>1, <2>1 DEF LoopOnly, Abort, MoveTo, LoopWords, Shapes
<1>3. run[r] # "completed"
  BY <1>1 DEF RunInv, Complete, Over
<1>4. Settles(r)'
  BY <1>2 DEF Settles
<1>5. Witnessed(r)'
  BY <1>1, <1>2 DEF RunInv, Witnessed, LoopOnly, Over
<1>6. Complete(r)'
  <2>1. Ids(graph[r])' = Ids(graph[r]) /\ (Quiet(r)' <=> Quiet(r))
    BY <1>2 DEF Ids, Quiet, LoopOnly
  <2> QED BY <1>1, <1>2, <1>3, <2>1 DEF RunInv, Complete, LoopOnly
<1> QED BY <1>1, <1>2, <1>4, <1>5, <1>6, LoopSteps DEF Over

LEMMA EndStep ==
  ASSUME IInv, NEW r \in Runs, End(r)
  PROVE  IInv'
<1>1. Shapes /\ RunInv(r) /\ loop[r] = "ending"
  BY DEF IInv, End, LoopAt
<1>2. /\ LoopOnly(r) /\ UNCHANGED teamRun /\ loop'[r] \in Over
      /\ r \in thrown => r \in thrown'
      /\ run'[r] = "completed" => run[r] = "completed" \/ teamRun[r] = "completed"
  <2>1. UNCHANGED <<graph, task, crew, owner, teamRun, node, board, context, evidence, credential,
                    process, request>>
    BY DEF End, taskVars, runnerVars, crewVars
  <2>2. current' \in [Agents -> Runs \cup {NoRun}]
    BY <1>1 DEF End, Shapes
  <2>3. \E pc \in Over : loop' = [loop EXCEPT ![r] = pc]
    BY DEF End, MoveTo, Over
  <2>4. thrown' \in {thrown, thrown \cup {r}}
    BY DEF End
  <2>5. run' \in {run, [run EXCEPT ![r] = IF teamRun[r] = "completed" THEN "completed"
                                          ELSE "failed"]}
    BY DEF End
  <2> QED BY <1>1, <2>1, <2>2, <2>3, <2>4, <2>5 DEF LoopOnly, LoopWords, Shapes, Over
<1>3. Quiet(r)' <=> Quiet(r)
  BY <1>2 DEF Quiet, LoopOnly
<1>4. Settles(r)'
  BY <1>1, <1>2, <1>3 DEF RunInv, Settles, Over
<1>5. Witnessed(r)'
  BY <1>2 DEF Witnessed
<1>6. Complete(r)'
  <2>1. Ids(graph[r])' = Ids(graph[r])
    BY <1>2 DEF Ids, LoopOnly
  <2> QED BY <1>1, <1>2, <1>3, <2>1 DEF RunInv, Complete, LoopOnly
<1> QED BY <1>1, <1>2, <1>4, <1>5, <1>6, LoopSteps DEF Over

LEMMA TaskShape ==
  ASSUME Shapes, NEW r \in Runs, NEW ids, NEW word \in TaskWords, SetTasks(r, ids, word)
  PROVE  /\ task' \in [Runs -> [TaskIds -> TaskWords]]
         /\ \A i \in TaskIds : task'[r][i] = IF i \in ids THEN word ELSE task[r][i]
         /\ \A s \in Runs \ {r} : task'[s] = task[s]
  BY DEF Shapes, SetTasks

LEMMA StartLayerStep ==
  ASSUME IInv, NEW r \in Runs, StartLayer(r)
  PROVE  IInv'
<1>1. Shapes /\ RunInv(r) /\ loop[r] = "looping"
  BY DEF IInv, StartLayer, LoopAt
<1>2. Quiet(r) /\ teamRun[r] # "completed" /\ run[r] # "completed"
  BY <1>1 DEF RunInv, Settles, Complete, Over
<1>3. UNCHANGED <<graph, crew, owner, teamRun, run, thrown, board, evidence, credential, process,
                  current, request>>
  BY DEF StartLayer, runnerVars, crewVars
<1>4. CASE Faulty /\ MoveTo(r, "aborting") /\ UNCHANGED <<task, node, context>>
  <2>1. LoopOnly(r) /\ loop'[r] = "aborting"
    BY <1>1, <1>3, <1>4 DEF LoopOnly, MoveTo, LoopWords, Shapes
  <2>2. Witnessed(r)'
    BY <1>1, <2>1 DEF RunInv, Witnessed, LoopOnly, Over
  <2> QED BY <1>1, <1>2, <1>3, <2>1, <2>2, LoopSteps DEF Settles, Complete, Over
<1>5. CASE /\ SetTasks(r, Ready(r), "running")
           /\ node' = [n \in Nodes |->
                IF n \notin {<<r, i>> : i \in Ready(r)} THEN node[n]
                ELSE IF status[AgentOf(n)] = "deleted" THEN "missing" ELSE "starting"]
           /\ context' = [n \in Nodes |->
                IF n \in {<<r, i>> : i \in Ready(r)} THEN board[r] ELSE context[n]]
           /\ MoveTo(r, "waiting")
  <2>1. /\ task' \in [Runs -> [TaskIds -> TaskWords]]
        /\ \A i \in TaskIds : task'[r][i] = IF i \in Ready(r) THEN "running" ELSE task[r][i]
        /\ \A s \in Runs \ {r} : task'[s] = task[s]
    BY <1>1, <1>5, TaskShape DEF TaskWords
  <2>2. loop' = [loop EXCEPT ![r] = "waiting"] /\ loop'[r] = "waiting"
    BY <1>1, <1>5 DEF MoveTo, Shapes
  <2>3. \A i \in TaskIds :
          /\ i \in Ready(r) => context'[<<r, i>>] = board[r] /\ task[r][i] = "pending"
          /\ i \notin Ready(r) =>
               node'[<<r, i>>] = "none" /\ context'[<<r, i>>] = context[<<r, i>>]
    BY <1>2, <1>5, NodeFacts DEF Quiet, Ready, TasksThatAre
  <2>4. \A s \in Runs \ {r} : \A i \in TaskIds :
          node'[<<s, i>>] = node[<<s, i>>] /\ context'[<<s, i>>] = context[<<s, i>>]
    <3> SUFFICES ASSUME NEW s \in Runs \ {r}, NEW i \in TaskIds
                 PROVE  /\ node'[<<s, i>>] = node[<<s, i>>]
                        /\ context'[<<s, i>>] = context[<<s, i>>]
      OBVIOUS
    <3>1. <<s, i>> \in Nodes /\ <<s, i>> \notin {<<r, j>> : j \in Ready(r)}
      BY NodeFacts
    <3> QED BY <1>5, <3>1
  <2>5. Shapes'
    <3>1. node' \in [Nodes -> {"none", "missing", "starting", "spawned", "succeeded", "failing",
                               "rejected"}]
      BY <1>1, <1>5 DEF Shapes
    <3>2. context' \in [Nodes -> SUBSET TaskIds]
      BY <1>1, <1>5 DEF Shapes
    <3> QED BY <1>1, <1>3, <2>1, <2>2, <3>1, <3>2 DEF Shapes, LoopWords
  <2>6. \A s \in Runs \ {r} : SameRun(s)
    BY <1>1, <1>3, <2>1, <2>2, <2>4 DEF SameRun, Shapes
  <2>7. Launched(r)' = Launched(r) \cup Ready(r) /\ Launched(r) \subseteq TaskIds
                         /\ Ready(r) \subseteq TaskIds
    BY <2>1, <2>3 DEF Launched, TasksThatAre, Ready
  <2>8. Fresh(r)' /\ Settles(r)' /\ Boards(r)' /\ Complete(r)'
    BY <1>1, <1>2, <1>3, <2>1, <2>2, <2>3
       DEF RunInv, Fresh, Settles, Boards, Complete, Over
  <2>9. Marked(r)' /\ Witnessed(r)' /\ Identified(r)'
    BY <1>1, <1>2, <1>3, <2>1, <2>2, <2>3, <2>7
       DEF RunInv, Marked, Witnessed, Identified, Quiet, Over
  <2>10. Fed(r)'
    <3> SUFFICES ASSUME NEW i \in Launched(r)'
                 PROVE  /\ \A d \in DependsOn(graph[r], i) :
                             d \in TaskIds /\ task'[r][d] = "completed" /\ node'[<<r, d>>] = "none"
                        /\ DependsOn(graph[r], i) \ Silent \subseteq context'[<<r, i>>]
      BY <1>3 DEF Fed, DependsOn
    <3>1. CASE i \in Ready(r)
      <4>1. DependsOn(graph[r], i) \subseteq TasksThatAre(r, "completed")
        BY <3>1 DEF Ready
      <4>2. \A d \in DependsOn(graph[r], i) : d \in TaskIds /\ task[r][d] = "completed"
        BY <4>1 DEF TasksThatAre
      <4>3. \A d \in DependsOn(graph[r], i) : d \notin Silent => d \in board[r]
        BY <1>1, <4>2 DEF RunInv, Boards, Published
      <4> QED BY <2>1, <2>3, <2>7, <3>1, <4>2, <4>3
    <3>2. CASE i \notin Ready(r)
      <4>1. i \in Launched(r) /\ i \in TaskIds
        BY <2>7, <3>2
      <4>2. /\ \A d \in DependsOn(graph[r], i) : d \in TaskIds /\ task[r][d] = "completed"
            /\ DependsOn(graph[r], i) \ Silent \subseteq context[<<r, i>>]
        BY <1>1, <4>1 DEF RunInv, Fed
      <4> QED BY <2>1, <2>3, <3>2, <4>1, <4>2
    <3> QED BY <3>1, <3>2
  <2> QED BY <1>1, <1>3, <2>5, <2>6, <2>8, <2>9, <2>10, OneRunSteps DEF RunInv, Over
<1> QED BY <1>4, <1>5 DEF StartLayer

LEMMA SkipStep ==
  ASSUME IInv, NEW r \in Runs, Skip(r)
  PROVE  IInv'
<1>1. Shapes /\ RunInv(r) /\ loop[r] = "looping"
  BY DEF IInv, Skip, LoopAt
<1>2. Quiet(r) /\ teamRun[r] # "completed" /\ run[r] # "completed"
  BY <1>1 DEF RunInv, Settles, Complete, Over
<1>3. UNCHANGED <<graph, crew, owner, teamRun, run, thrown, node, board, context, evidence,
                  credential, process, current, request>>
  BY DEF Skip, taskVars, runnerVars, crewVars
<1>4. CASE MoveTo(r, "aborting") /\ UNCHANGED task
  <2>1. LoopOnly(r) /\ loop'[r] = "aborting"
    BY <1>1, <1>3, <1>4 DEF LoopOnly, MoveTo, LoopWords, Shapes
  <2>2. Witnessed(r)'
    BY <1>1, <2>1 DEF RunInv, Witnessed, LoopOnly, Over
  <2> QED BY <1>1, <1>2, <1>3, <2>1, <2>2, LoopSteps DEF Settles, Complete, Over
<1>5. CASE SetTasks(r, Unrunnable(r), "skipped") /\ UNCHANGED loop
  <2>1. /\ task' \in [Runs -> [TaskIds -> TaskWords]]
        /\ \A i \in TaskIds :
             task'[r][i] = IF i \in Unrunnable(r) THEN "skipped" ELSE task[r][i]
        /\ \A s \in Runs \ {r} : task'[s] = task[s]
    BY <1>1, <1>5, TaskShape DEF TaskWords
  <2>2. \A i \in TaskIds : i \in Unrunnable(r) => task[r][i] = "pending"
    BY DEF Unrunnable, TasksThatAre
  <2>3. Shapes'
    BY <1>1, <1>3, <1>5, <2>1 DEF Shapes
  <2>4. \A s \in Runs \ {r} : SameRun(s)
    BY <1>1, <1>3, <1>5, <2>1 DEF SameRun, Shapes
  <2>5. Launched(r)' = Launched(r) /\ Launched(r) \subseteq TaskIds
    BY <2>1, <2>2 DEF Launched, TasksThatAre
  <2>6. \A i \in TaskIds : task'[r][i] = "completed" <=> task[r][i] = "completed"
    BY <2>1, <2>2
  <2>7. Fresh(r)' /\ Settles(r)' /\ Boards(r)' /\ Complete(r)'
    BY <1>1, <1>2, <1>3, <1>5, <2>2, <2>6
       DEF RunInv, Fresh, Settles, Boards, Complete, Over, Quiet
  <2>8. Marked(r)' /\ Witnessed(r)' /\ Identified(r)'
    BY <1>1, <1>2, <1>3, <1>5, <2>5, <2>6
       DEF RunInv, Marked, Witnessed, Identified, Quiet, Over
  <2>9. Fed(r)'
    BY <1>1, <1>3, <2>5, <2>6 DEF RunInv, Fed, DependsOn
  <2> QED BY <1>1, <1>3, <1>5, <2>3, <2>4, <2>7, <2>8, <2>9, OneRunSteps DEF RunInv, Over
<1> QED BY <1>4, <1>5 DEF Skip

-----------------------------------------------------------------------------
(* The tasks.                                                              *)

\* What one step of a task in progress may do, whatever step it is.
TaskStep(r, i) ==
  /\ UNCHANGED <<graph, crew, owner, teamRun, run, loop, thrown, context, current, request>>
  /\ process' \in [Agents -> Nodes \cup {Nothing}]
  /\ task' \in [Runs -> [TaskIds -> TaskWords]]
  /\ node' \in [Nodes -> {"none", "missing", "starting", "spawned", "succeeded", "failing",
                          "rejected"}]
  /\ board' \in [Runs -> SUBSET TaskIds]
  /\ \A s \in Runs \ {r} : task'[s] = task[s] /\ board'[s] = board[s]
  /\ \A j \in TaskIds \ {i} : task'[r][j] = task[r][j]
  /\ \A n \in Nodes \ {<<r, i>>} :
       node'[n] = node[n] /\ (n \in credential' <=> n \in credential)
  /\ evidence' \in {evidence, evidence \cup {<<r, i>>}}
  /\ credential' \subseteq Nodes
  /\ board[r] \subseteq board'[r]
  \* A task in progress completes or fails, publishes and leaves its evidence.
  /\ node[<<r, i>>] # "none"
  /\ task'[r][i] \in {task[r][i], "completed", "failed"}
  /\ (task'[r][i] = "completed" /\ task[r][i] # "completed") => Published(i) \subseteq board'[r]
  /\ (task'[r][i] = "completed" /\ node'[<<r, i>>] = "none") => <<r, i>> \in evidence'
  /\ <<r, i>> \in credential' => node'[<<r, i>>] # "none"

LEMMA TaskSteps ==
  ASSUME IInv, NEW r \in Runs, NEW i \in TaskIds, TaskStep(r, i)
  PROVE  IInv'
<1>1. Shapes /\ RunInv(r) /\ <<r, i>> \in Nodes
  BY NodeFacts DEF IInv
<1>2. Shapes'
  BY <1>1 DEF Shapes, TaskStep
<1>3. \A s \in Runs \ {r} : SameRun(s)
  <2> SUFFICES ASSUME NEW s \in Runs \ {r}, NEW j \in TaskIds
               PROVE  /\ node'[<<s, j>>] = node[<<s, j>>]
                      /\ <<s, j>> \in evidence' <=> <<s, j>> \in evidence
                      /\ <<s, j>> \in credential' <=> <<s, j>> \in credential
    BY <1>1 DEF SameRun, TaskStep
  <2>1. <<s, j>> \in Nodes \ {<<r, i>>}
    BY NodeFacts
  <2> QED BY <2>1 DEF TaskStep
<1>4. \A j \in TaskIds \ {i} :
        /\ <<r, j>> \in Nodes \ {<<r, i>>}
        /\ node'[<<r, j>>] = node[<<r, j>>]
        /\ <<r, j>> \in evidence' <=> <<r, j>> \in evidence
        /\ <<r, j>> \in credential' <=> <<r, j>> \in credential
  <2> SUFFICES ASSUME NEW j \in TaskIds \ {i}
               PROVE  /\ <<r, j>> \in Nodes \ {<<r, i>>}
                      /\ node'[<<r, j>>] = node[<<r, j>>]
                      /\ <<r, j>> \in evidence' <=> <<r, j>> \in evidence
                      /\ <<r, j>> \in credential' <=> <<r, j>> \in credential
    OBVIOUS
  <2>1. <<r, j>> \in Nodes \ {<<r, i>>}
    BY NodeFacts
  <2> QED BY <2>1 DEF TaskStep
<1>5. ~Quiet(r) /\ teamRun[r] # "completed"
  BY <1>1 DEF TaskStep, Quiet, RunInv, Complete
<1>6. Launched(r)' = Launched(r) /\ Launched(r) \subseteq TaskIds /\ i \in Launched(r)
  <2>1. i \in Launched(r) /\ Launched(r) \subseteq TaskIds
    BY <1>1 DEF RunInv, Marked, TaskStep, Launched, TasksThatAre
  <2>2. task[r][i] \in {"running", "completed", "failed"}
    BY <2>1 DEF Launched, TasksThatAre
  <2>3. task'[r][i] \in {"running", "completed", "failed"}
    BY <2>2 DEF TaskStep
  <2>4. \A j \in TaskIds : j \in Launched(r)' <=> j \in Launched(r)
    BY <2>2, <2>3 DEF Launched, TasksThatAre, TaskStep
  <2>5. Launched(r)' \subseteq TaskIds
    BY DEF Launched, TasksThatAre
  <2> QED BY <2>1, <2>4, <2>5
<1>7. Fresh(r)' /\ Settles(r)' /\ Complete(r)'
  BY <1>1, <1>5, <1>6
     DEF RunInv, Fresh, Settles, Complete, TaskStep, Launched, TasksThatAre
<1>8. Marked(r)'
  BY <1>1, <1>4, <1>6 DEF RunInv, Marked
<1>9. Boards(r)'
  BY <1>1 DEF RunInv, Boards, TaskStep
<1>10. Witnessed(r)'
  BY <1>1, <1>4 DEF RunInv, Witnessed, TaskStep
<1>11. Identified(r)'
  BY <1>1, <1>4 DEF RunInv, Identified, TaskStep
<1>12. Fed(r)'
  <2> SUFFICES ASSUME NEW j \in Launched(r)
               PROVE  /\ \A d \in DependsOn(graph[r], j) :
                           d \in TaskIds /\ task'[r][d] = "completed" /\ node'[<<r, d>>] = "none"
                      /\ DependsOn(graph[r], j) \ Silent \subseteq context[<<r, j>>]
    BY <1>6 DEF Fed, DependsOn, TaskStep
  <2>1. /\ \A d \in DependsOn(graph[r], j) :
             d \in TaskIds /\ task[r][d] = "completed" /\ node[<<r, d>>] = "none"
        /\ DependsOn(graph[r], j) \ Silent \subseteq context[<<r, j>>]
    BY <1>1 DEF RunInv, Fed
  <2>2. i \notin DependsOn(graph[r], j)
    BY <2>1 DEF TaskStep
  <2> QED BY <1>4, <2>1, <2>2 DEF TaskStep
<1>13. RunInv(r)'
  BY <1>7, <1>8, <1>9, <1>10, <1>11, <1>12 DEF RunInv
<1> QED BY <1>2, <1>3, <1>13, OneRunSteps DEF TaskStep

LEMMA BeginsStep ==
  ASSUME IInv, NEW n \in Nodes, Begins(n)
  PROVE  TaskStep(n[1], n[2])
<1>1. Shapes /\ RunInv(n[1]) /\ n[1] \in Runs /\ n[2] \in TaskIds /\ n = <<n[1], n[2]>>
  BY NodeFacts DEF IInv
<1>2. /\ UNCHANGED <<graph, crew, owner, teamRun, run, loop, thrown, context, current, request,
                     task, board, evidence>>
      /\ node[n] = "starting"
      /\ node' \in {[node EXCEPT ![n] = pc] : pc \in {"spawned", "failing", "rejected"}}
      /\ credential' \in {credential, credential \cup {n}}
  BY DEF Begins, TaskUnchanged, crewVars, loopVars, NodeAt, Goto
<1>3. process' \in [Agents -> Nodes \cup {Nothing}]
  BY <1>1 DEF Begins, Shapes
<1>4. node'[n] # "none"
  BY <1>1, <1>2 DEF Shapes
<1> QED BY <1>1, <1>2, <1>3, <1>4 DEF TaskStep, Shapes

LEMMA ProcessEndsStep ==
  ASSUME IInv, NEW n \in Nodes, ProcessEnds(n)
  PROVE  TaskStep(n[1], n[2])
<1>1. Shapes /\ RunInv(n[1]) /\ n[1] \in Runs /\ n[2] \in TaskIds /\ n = <<n[1], n[2]>>
  BY NodeFacts DEF IInv
<1>2. /\ UNCHANGED <<graph, crew, owner, teamRun, run, loop, thrown, context, current, request,
                     task, board, evidence, credential>>
      /\ node[n] = "spawned"
      /\ node' \in {[node EXCEPT ![n] = pc] : pc \in {"succeeded", "failing"}}
  BY DEF ProcessEnds, TaskUnchanged, crewVars, loopVars, NodeAt, Goto
<1>3. process' \in [Agents -> Nodes \cup {Nothing}]
  BY <1>1 DEF ProcessEnds, Releases, Shapes
<1>4. node'[n] # "none"
  BY <1>1, <1>2 DEF Shapes
<1> QED BY <1>1, <1>2, <1>3, <1>4 DEF TaskStep, Shapes

LEMMA RecordStep ==
  ASSUME IInv, NEW n \in Nodes, Record(n)
  PROVE  TaskStep(n[1], n[2])
<1> DEFINE r == n[1]
           i == n[2]
<1>1. Shapes /\ RunInv(r) /\ r \in Runs /\ i \in TaskIds /\ n = <<r, i>>
  BY NodeFacts DEF IInv
<1>2. /\ UNCHANGED <<graph, crew, owner, teamRun, run, loop, thrown, context, current, request,
                     process>>
      /\ node[n] = "succeeded"
      /\ node' \in {[node EXCEPT ![n] = pc] : pc \in {"none", "failing"}}
      /\ credential' = credential \ {n}
      /\ evidence' \in {evidence, evidence \cup {n}}
      /\ Completes(n) \/ UNCHANGED <<task, board>>
      /\ node' = [node EXCEPT ![n] = "failing"] \/ n \in evidence'
  BY DEF Record, TaskUnchanged, crewVars, loopVars, NodeAt, Goto
<1>3. node'[n] = "none" => n \in evidence'
  BY <1>1, <1>2 DEF Shapes
<1>4. /\ task' \in [Runs -> [TaskIds -> TaskWords]]
      /\ \A s \in Runs \ {r} : task'[s] = task[s]
      /\ \A j \in TaskIds \ {i} : task'[r][j] = task[r][j]
      /\ task'[r][i] \in {task[r][i], "completed"}
  <2>1. CASE SetTasks(r, {i}, "completed")
    BY <1>1, <2>1, TaskShape DEF TaskWords
  <2>2. CASE UNCHANGED task
    BY <1>1, <2>2 DEF Shapes
  <2> QED BY <1>2, <2>1, <2>2 DEF Completes
<1>5. /\ board' \in [Runs -> SUBSET TaskIds]
      /\ \A s \in Runs \ {r} : board'[s] = board[s]
      /\ board[r] \subseteq board'[r]
      /\ task'[r][i] # task[r][i] => Published(i) \subseteq board'[r]
  BY <1>1, <1>2 DEF Shapes, Completes, Published
<1>6. /\ evidence' \in {evidence, evidence \cup {<<r, i>>}}
      /\ credential' \subseteq Nodes /\ <<r, i>> \notin credential'
      /\ node' \in [Nodes -> {"none", "missing", "starting", "spawned", "succeeded", "failing",
                              "rejected"}]
      /\ \A m \in Nodes \ {<<r, i>>} :
           node'[m] = node[m] /\ (m \in credential' <=> m \in credential)
  BY <1>1, <1>2 DEF Shapes
<1>7. /\ UNCHANGED <<graph, crew, owner, teamRun, run, loop, thrown, context, current, request>>
      /\ process' \in [Agents -> Nodes \cup {Nothing}]
      /\ node[<<r, i>>] # "none"
      /\ node'[<<r, i>>] = "none" => <<r, i>> \in evidence'
  BY <1>1, <1>2, <1>3 DEF Shapes
<1> QED BY <1>4, <1>5, <1>6, <1>7 DEF TaskStep

LEMMA FailStep ==
  ASSUME IInv, NEW n \in Nodes, Fail(n)
  PROVE  TaskStep(n[1], n[2])
<1> DEFINE r == n[1]
           i == n[2]
<1>1. Shapes /\ RunInv(r) /\ r \in Runs /\ i \in TaskIds /\ n = <<r, i>>
  BY NodeFacts DEF IInv
<1>2. /\ UNCHANGED <<graph, crew, owner, teamRun, run, loop, thrown, context, current, request,
                     process, board, evidence>>
      /\ node[n] # "none"
      /\ node' \in {[node EXCEPT ![n] = pc] : pc \in {"none", "rejected"}}
      /\ credential' = credential \ {n}
      /\ \/ SetTasks(r, {i}, "failed")
         \/ UNCHANGED task /\ node' = [node EXCEPT ![n] = "rejected"]
  BY DEF Fail, TaskUnchanged, crewVars, loopVars, NodeAt, Goto
<1>3. /\ task' \in [Runs -> [TaskIds -> TaskWords]]
      /\ \A s \in Runs \ {r} : task'[s] = task[s]
      /\ \A j \in TaskIds \ {i} : task'[r][j] = task[r][j]
      /\ task'[r][i] = "failed" \/ (task'[r][i] = task[r][i] /\ node'[n] # "none")
  <2>1. CASE SetTasks(r, {i}, "failed")
    BY <1>1, <2>1, TaskShape DEF TaskWords
  <2>2. CASE UNCHANGED task /\ node' = [node EXCEPT ![n] = "rejected"]
    BY <1>1, <2>2 DEF Shapes
  <2> QED BY <1>2, <2>1, <2>2
<1>4. /\ credential' \subseteq Nodes /\ <<r, i>> \notin credential'
      /\ node' \in [Nodes -> {"none", "missing", "starting", "spawned", "succeeded", "failing",
                              "rejected"}]
      /\ \A m \in Nodes \ {<<r, i>>} :
           node'[m] = node[m] /\ (m \in credential' <=> m \in credential)
  BY <1>1, <1>2 DEF Shapes
<1>5. /\ UNCHANGED <<graph, crew, owner, teamRun, run, loop, thrown, context, current, request,
                     board, evidence>>
      /\ process' \in [Agents -> Nodes \cup {Nothing}]
      /\ board' \in [Runs -> SUBSET TaskIds]
      /\ node[<<r, i>>] # "none"
  BY <1>1, <1>2 DEF Shapes
<1>6. (task'[r][i] = "completed" /\ node'[<<r, i>>] = "none") => <<r, i>> \in evidence'
  BY <1>1, <1>2, <1>3 DEF RunInv, Marked
<1> QED BY <1>3, <1>4, <1>5, <1>6 DEF TaskStep

-----------------------------------------------------------------------------
(* The requests, and restarts.                                             *)

\* What a step of a request leaves alone: all that is said of a run.
LEMMA RequestSteps ==
  ASSUME IInv, Shapes', \A q \in Callers : HasWaited(q)',
         UNCHANGED <<graph, task, crew, owner, teamRun, run, loop, thrown, node, board, context,
                     evidence, credential>>
  PROVE  IInv'
<1>1. \A r \in Runs : SameRun(r)
  BY DEF SameRun
<1> QED BY <1>1, RunUntouched DEF IInv

LEMMA RequestUnchangedFacts ==
  ASSUME RequestUnchanged
  PROVE  UNCHANGED <<graph, task, crew, owner, teamRun, run, loop, thrown, node, board, context,
                     evidence, credential, process, current>>
  BY DEF RequestUnchanged, runVars, crewVars, loopVars, taskVars

\* A request of one caller changes.
LEMMA OneRequest ==
  ASSUME IInv, NEW q \in Callers, NEW next \in Request \cup {Idle, Returned},
         request' = [request EXCEPT ![q] = next], RequestUnchanged,
         (next.pc = "finishing" /\ next.waitsFor \in Runs) =>
            loop[next.waitsFor] \in Over /\ next.waitsFor \notin thrown
  PROVE  IInv'
<1>1. UNCHANGED <<graph, task, crew, owner, teamRun, run, loop, thrown, node, board, context,
                  evidence, credential, process, current>>
  BY RequestUnchangedFacts
<1>2. Shapes'
  BY <1>1 DEF IInv, Shapes
<1>3. ASSUME NEW p \in Callers
      PROVE  HasWaited(p)'
  <2>1. CASE p = q
    BY <1>1, <2>1 DEF IInv, Shapes, HasWaited
  <2>2. CASE p # q
    BY <1>1, <2>2 DEF IInv, Shapes, HasWaited
  <2> QED BY <2>1, <2>2
<1> QED BY <1>1, <1>2, <1>3, RequestSteps

LEMMA IdleFacts ==
  /\ Idle.pc = "idle" /\ Returned.pc = "returned"
  /\ Idle \in Request \cup {Idle, Returned} /\ Returned \in Request \cup {Idle, Returned}
  /\ NoRun \notin Runs
  BY DEF Idle, Returned, Runs, NoRun

LEMMA CancelStep ==
  ASSUME IInv, NEW q \in Callers, NEW kind \in {"stop", "delete"}, NEW a \in Agents,
         Cancel(q, kind, a)
  PROVE  IInv'
<1> DEFINE next == [pc |-> IF process[a] = Nothing THEN WaitsFor(a) ELSE "killing",
                    kind |-> kind, agent |-> a, victim |-> process[a],
                    waitsFor |-> IF process[a] = Nothing THEN current[a] ELSE NoRun,
                    owes |-> IF process[a] = Nothing THEN Owed(a) ELSE {}]
<1>1. request' = [request EXCEPT ![q] = next] /\ RequestUnchanged
  BY DEF Cancel
<1>2. process[a] \in Nodes \cup {Nothing} /\ current[a] \in Runs \cup {NoRun}
  BY DEF IInv, Shapes
<1>3. next \in Request
  BY <1>2 DEF Request, WaitsFor, Owed
<1>4. next.pc = "finishing" => next.waitsFor = NoRun
  BY DEF WaitsFor
<1> HIDE DEF next
<1> QED BY <1>1, <1>3, <1>4, IdleFacts, OneRequest

\* A request that is somewhere is not idle.
LEMMA RequestFacts ==
  ASSUME Shapes, NEW q \in Callers, request[q].pc \notin {"idle", "returned"}
  PROVE  request[q] \in Request
  BY IdleFacts DEF Shapes

LEMMA KilledStep ==
  ASSUME IInv, NEW q \in Callers, Killed(q)
  PROVE  IInv'
<1> DEFINE a == request[q].agent
           next == [request[q] EXCEPT !.pc = WaitsFor(a), !.waitsFor = current[a],
                                       !.owes = Owed(a)]
<1>1. request[q] \in Request /\ request[q].pc = "killing"
  BY RequestFacts DEF IInv, Killed, RequestAt
<1>2. a \in Agents /\ current[a] \in Runs \cup {NoRun}
  BY <1>1 DEF Request, IInv, Shapes
<1>3. request' = [request EXCEPT ![q] = next] /\ RequestUnchanged
  BY DEF Killed
<1>4. next \in Request
  BY <1>1, <1>2 DEF Request, WaitsFor, Owed
<1>5. next.pc = "finishing" => next.waitsFor = NoRun
  BY <1>1 DEF WaitsFor, Request
<1> HIDE DEF next
<1> QED BY <1>3, <1>4, <1>5, IdleFacts, OneRequest

LEMMA AwaitedStep ==
  ASSUME IInv, NEW q \in Callers, Awaited(q)
  PROVE  IInv'
<1> DEFINE next == IF request[q].waitsFor \in thrown THEN Returned
                   ELSE [request[q] EXCEPT !.pc = "finishing"]
<1>1. request[q] \in Request /\ request[q].pc = "awaiting"
  BY RequestFacts DEF IInv, Awaited, RequestAt
<1>2. request' = [request EXCEPT ![q] = next] /\ RequestUnchanged
  BY DEF Awaited
<1>3. next \in Request \cup {Idle, Returned}
  BY <1>1 DEF Request
<1>4. loop[request[q].waitsFor] \in Over
  BY DEF Awaited
<1>5. next.pc = "finishing" =>
        next.waitsFor = request[q].waitsFor /\ request[q].waitsFor \notin thrown
  BY <1>1, IdleFacts DEF Request
<1> HIDE DEF next
<1> QED BY <1>2, <1>3, <1>4, <1>5, OneRequest

LEMMA FinishStep ==
  ASSUME IInv, NEW q \in Callers, Finish(q)
  PROVE  IInv'
<1>1. request' = [request EXCEPT ![q] = Returned] /\ RequestUnchanged
  BY DEF Finish
<1> QED BY <1>1, IdleFacts, OneRequest

LEMMA StartStep ==
  ASSUME IInv, NEW a \in Agents, Start(a)
  PROVE  IInv'
<1>1. UNCHANGED <<graph, task, crew, owner, teamRun, run, loop, thrown, node, board, context,
                  evidence, credential, process, current, request>>
  BY RequestUnchangedFacts DEF Start
<1>2. Shapes'
  BY <1>1 DEF IInv, Shapes
<1>3. \A q \in Callers : HasWaited(q)'
  BY <1>1 DEF IInv, HasWaited
<1> QED BY <1>1, <1>2, <1>3, RequestSteps

\* After a restart no task is in progress any more, and every run that there
\* was is over.
LEMMA RestartStep ==
  ASSUME IInv, Restart
  PROVE  IInv'
<1>1. Shapes
  BY DEF IInv
<1>2. /\ UNCHANGED <<graph, task, crew, owner, teamRun, thrown, board, context, evidence>>
      /\ run' = [r \in Runs |-> IF run[r] \in Active THEN "cancelled" ELSE run[r]]
      /\ loop' = [r \in Runs |-> IF loop[r] = "none" THEN "none" ELSE "over"]
      /\ node' = [n \in Nodes |-> "none"]
      /\ process' = [a \in Agents |-> Nothing]
      /\ credential' = {}
      /\ current' = [a \in Agents |-> NoRun]
      /\ request' = [q \in Callers |-> IF request[q] = Idle THEN Idle ELSE Returned]
  BY DEF Restart, taskVars, crewVars
<1>3. Shapes'
  <2>1. run' \in [Runs -> {"none", "completed", "failed", "cancelled"} \cup Active]
    BY <1>1, <1>2 DEF Shapes
  <2>2. loop' \in [Runs -> LoopWords]
    BY <1>2 DEF LoopWords, Over
  <2> QED BY <1>1, <1>2, <2>1, <2>2 DEF Shapes
<1>4. ASSUME NEW r \in Runs
      PROVE  RunInv(r)'
  <2>1. RunInv(r)
    BY DEF IInv
  <2>2. Quiet(r)' /\ \A i \in TaskIds : node'[<<r, i>>] = "none"
    BY <1>2, NodeFacts DEF Quiet
  <2>3. Launched(r)' = Launched(r) /\ Launched(r) \subseteq TaskIds
    BY <1>2 DEF Launched, TasksThatAre
  <2>4. Fresh(r)' /\ Settles(r)' /\ Marked(r)' /\ Boards(r)' /\ Identified(r)'
    BY <1>2, <2>1, <2>2
       DEF RunInv, Fresh, Settles, Marked, Boards, Identified, Published, Active
  <2>5. Fed(r)'
    BY <1>2, <2>1, <2>2, <2>3 DEF RunInv, Fed, DependsOn
  <2>6. loop'[r] = "over" \/ (loop[r] = "none" /\ loop'[r] = "none")
    BY <1>2
  <2>7. loop[r] = "none" => teamRun[r] # "completed" /\ run[r] # "completed" /\ Quiet(r)
    BY <2>1 DEF RunInv, Complete, Settles, Over
  <2>8. Witnessed(r)'
    BY <1>2, <2>1, <2>6, <2>7 DEF RunInv, Witnessed, Over, Quiet
  <2>9. Complete(r)'
    BY <1>2, <2>1, <2>2, <2>6, <2>7 DEF RunInv, Complete, Over, Ids, Active
  <2> QED BY <2>4, <2>5, <2>8, <2>9 DEF RunInv
<1>5. \A q \in Callers : HasWaited(q)'
  BY <1>2, IdleFacts DEF HasWaited
<1> QED BY <1>3, <1>4, <1>5 DEF IInv

-----------------------------------------------------------------------------
(* Every step.                                                             *)

LEMMA StepInv ==
  ASSUME IInv, [Next]_vars
  PROVE  IInv'
<1>1. ASSUME NEW r \in Runs, NEW m \in Messages[r], NEW a \in Agents, Plan(r, m, a)
      PROVE  IInv'
  BY <1>1, PlanStep
<1>2. ASSUME NEW r \in Runs, Accept(r) \/ Orchestration(r)
      PROVE  IInv'
  BY <1>2, AcceptStep, BeginStep, StartLayerStep, SkipStep, LeaveLoopStep, LayerEndsStep,
     ConcludeStep, AbortStep, EndStep DEF Orchestration
<1>3. ASSUME NEW n \in Nodes, Execution(n)
      PROVE  IInv'
  <2>1. TaskStep(n[1], n[2]) /\ n[1] \in Runs /\ n[2] \in TaskIds
    BY <1>3, NodeFacts, BeginsStep, ProcessEndsStep, RecordStep, FailStep DEF Execution
  <2> QED BY <2>1, TaskSteps
<1>4. ASSUME NEW q \in Callers, NEW kind \in {"stop", "delete"}, NEW a \in Agents,
             Cancel(q, kind, a)
      PROVE  IInv'
  BY <1>4, CancelStep
<1>5. ASSUME NEW q \in Callers, Continues(q)
      PROVE  IInv'
  BY <1>5, KilledStep, AwaitedStep, FinishStep DEF Continues
<1>6. ASSUME NEW a \in Agents, Start(a)
      PROVE  IInv'
  BY <1>6, StartStep
<1>7. CASE Restart
  BY <1>7, RestartStep
<1>8. CASE UNCHANGED vars
  <2>1. UNCHANGED <<graph, task, crew, owner, teamRun, run, loop, thrown, node, board, context,
                    evidence, credential, process, current, request>>
    BY <1>8 DEF vars, runVars, crewVars, loopVars, taskVars, runnerVars
  <2>2. Shapes'
    BY <2>1 DEF IInv, Shapes
  <2>3. \A q \in Callers : HasWaited(q)'
    BY <2>1 DEF IInv, HasWaited
  <2> QED BY <2>1, <2>2, <2>3, RequestSteps
<1> QED BY <1>1, <1>2, <1>3, <1>4, <1>5, <1>6, <1>7, <1>8 DEF Next

-----------------------------------------------------------------------------
(* The types.  The agents of a run are agents of the team, and a plan for   *)
(* them is a graph of tasks.                                                *)

LEMMA PresentAgents ==
  /\ Present \in Seq(Agents)
  /\ Len(Present) <= Len(Team)
<1> DEFINE n == Len(Team)
           S == Seq(Agents)
           step == [p \in (1 .. n) \X S |->
                      IF status[Team[p[1]]] = "deleted" THEN p[2] ELSE Append(p[2], Team[p[1]])]
           UpTo[k \in 0 .. n] ==
             IF k = 0 THEN <<>>
             ELSE IF status[Team[k]] = "deleted" THEN UpTo[k - 1]
             ELSE Append(UpTo[k - 1], Team[k])
<1>1. n \in Nat /\ <<>> \in S /\ \A k \in 1 .. n : Team[k] \in Agents
  BY TeamRunsAssumption
<1>2. step \in [(1 .. n) \X S -> S]
  BY <1>1
<1>3. PICK f \in [0 .. n -> S] : Steps(f, <<>>, step, n)
  <2> HIDE DEF n, S, step, UpTo
  <2> QED BY <1>1, <1>2, Recursion
<1>4. /\ f[0] = <<>>
      /\ \A k \in 1 .. n : f[k] = IF status[Team[k]] = "deleted" THEN f[k - 1]
                                  ELSE Append(f[k - 1], Team[k])
  <2>1. \A k \in 1 .. n : f[k - 1] \in S
    BY <1>1
  <2>2. \A k \in 1 .. n : step[<<k, f[k - 1]>>] =
          IF status[Team[k]] = "deleted" THEN f[k - 1] ELSE Append(f[k - 1], Team[k])
    BY <2>1
  <2> HIDE DEF n, S, step, UpTo
  <2> QED BY <1>3, <2>2 DEF Steps
<1>5. f = [k \in 0 .. n |->
             IF k = 0 THEN <<>>
             ELSE IF status[Team[k]] = "deleted" THEN f[k - 1]
             ELSE Append(f[k - 1], Team[k])]
  <2>1. \A k \in 0 .. n : k = 0 \/ k \in 1 .. n
    BY <1>1
  <2> HIDE DEF n, S, step, UpTo
  <2> QED BY <1>4, <2>1
<1>6. UpTo = [k \in 0 .. n |->
                IF k = 0 THEN <<>>
                ELSE IF status[Team[k]] = "deleted" THEN UpTo[k - 1]
                ELSE Append(UpTo[k - 1], Team[k])]
  BY <1>5, Zenon
<1>7. Present = UpTo[n]
  BY DEF Present
<1> HIDE DEF UpTo, n, S, step
<1> DEFINE T == {k \in 0 .. n : UpTo[k] \in S /\ Len(UpTo[k]) <= k}
<1>8. 0 \in T
  BY <1>1, <1>6 DEF S
<1>9. ASSUME NEW k \in 1 .. n, k - 1 \in T
      PROVE  k \in T
  <2>1. k \in 0 .. n /\ k # 0 /\ UpTo[k - 1] \in S /\ Len(UpTo[k - 1]) <= k - 1
    BY <1>1, <1>9
  <2>2. UpTo[k] = IF status[Team[k]] = "deleted" THEN UpTo[k - 1]
                  ELSE Append(UpTo[k - 1], Team[k])
    BY <1>6, <2>1
  <2>3. /\ Append(UpTo[k - 1], Team[k]) \in S
        /\ Len(Append(UpTo[k - 1], Team[k])) = Len(UpTo[k - 1]) + 1
        /\ Len(UpTo[k - 1]) \in Nat
    BY <1>1, <2>1 DEF S
  <2>4. k \in Nat
    OBVIOUS
  <2>5. UpTo[k] \in S /\ Len(UpTo[k]) <= k
    <3>1. CASE status[Team[k]] = "deleted"
      BY <2>1, <2>2, <2>3, <2>4, <3>1
    <3>2. CASE status[Team[k]] # "deleted"
      BY <2>1, <2>2, <2>3, <2>4, <3>2
    <3> QED BY <3>1, <3>2
  <2> QED BY <2>1, <2>5
<1>10. n \in T
  <2>1. 0 .. n \subseteq T
    <3> HIDE DEF T
    <3> QED BY <1>1, <1>8, <1>9, Induction
  <2> QED BY <1>1, <2>1
<1> QED BY <1>7, <1>10 DEF S, n

GraphTask == [id : TaskIds, agent : Agents, dependsOn : SUBSET TaskIds]

IsGraph(g) == \A k \in DOMAIN g : g[k] \in GraphTask

\* Who is found first is one of those looked through.
LEMMA FirstIsThere ==
  ASSUME NEW agents \in Seq(Agents), NEW fitting, NEW otherwise \in Agents
  PROVE  FirstOr(agents, fitting, otherwise) \in Agents
<1> DEFINE at == {k \in DOMAIN agents : agents[k] \in fitting}
<1>1. CASE at = {}
  BY <1>1 DEF FirstOr
<1>2. CASE at # {}
  <2>1. at \subseteq Nat
    OBVIOUS
  <2>2. \E k \in at : \A j \in at : k <= j
    <3> HIDE DEF at
    <3> QED BY <1>2, <2>1, LeastNumber
  <2>3. Min(at) \in at
    <3> HIDE DEF at
    <3> QED BY <2>2 DEF Min
  <2>4. agents[Min(at)] \in Agents
    <3>1. \A k \in at : agents[k] \in Agents
      OBVIOUS
    <3> HIDE DEF at
    <3> QED BY <2>3, <3>1
  <2> QED BY <1>2, <2>4 DEF FirstOr
<1> QED BY <1>1, <1>2

LEMMA PlanTypes ==
  ASSUME NEW agents \in Seq(Agents), Len(agents) > 1, Len(agents) <= Len(Team),
         NEW r \in Runs, NEW m \in Messages[r]
  PROVE  IsGraph(PlanTaskGraph(m.proposal, m.prompt, agents))
<1> DEFINE front == FrontendAgent(agents)
           back == BackendAgent(agents)
           n == IF Len(agents) < 3 THEN Len(agents) ELSE 3
<1>1. /\ MaxTasks \in Nat /\ MaxTasks > 2 /\ (MaxTasks > 3 \/ MaxTasks > Len(Team))
      /\ Len(agents) \in Nat /\ Len(Team) \in Nat
      /\ \A k \in 1 .. Len(agents) : agents[k] \in Agents
  BY TeamRunsAssumption
<1>2. CASE IsValidGraph(m.proposal, agents)
  <2>1. ASSUME NEW k \in DOMAIN m.proposal
        PROVE  m.proposal[k] \in GraphTask
    <3>1. /\ m.proposal[k] = Task(m.proposal[k].id, m.proposal[k].agent, m.proposal[k].dependsOn)
          /\ m.proposal[k].id \in TaskIds
          /\ m.proposal[k].dependsOn \subseteq TaskIds
      BY TeamRunsAssumption
    <3>2. m.proposal[k].agent \in Agents
      BY <1>1, <1>2 DEF IsValidGraph, Range
    <3>3. Task(m.proposal[k].id, m.proposal[k].agent, m.proposal[k].dependsOn) \in GraphTask
      BY <3>1, <3>2 DEF Task, GraphTask
    <3> QED BY <3>1, <3>3
  <2> QED BY <1>2, <2>1 DEF PlanTaskGraph, IsGraph
<1>3. front \in Agents /\ back \in Agents
  <2>1. Head(agents) \in Agents
    BY <1>1
  <2>2. \A fitting : \A otherwise \in Agents : FirstOr(agents, fitting, otherwise) \in Agents
    BY FirstIsThere
  <2> QED BY <2>1, <2>2 DEF FrontendAgent, BackendAgent
<1>4. CASE m.prompt.kind = "countdown"
  <2>1. /\ m.prompt.start \in Nat /\ m.prompt.end \in Nat
        /\ m.prompt.start - m.prompt.end < MaxTasks
    BY <1>4, TeamRunsAssumption
  <2>2. ASSUME NEW k \in 1 .. m.prompt.start - m.prompt.end + 1
        PROVE  Task(k, agents[((k - 1) % Len(agents)) + 1], IF k = 1 THEN {} ELSE {k - 1})
                 \in GraphTask
    <3>1. k \in TaskIds /\ (k # 1 => k - 1 \in TaskIds)
      BY <1>1, <2>1 DEF TaskIds
    <3>2. ((k - 1) % Len(agents)) + 1 \in 1 .. Len(agents)
      BY <1>1, <2>1
    <3> QED BY <1>1, <3>1, <3>2 DEF Task, GraphTask
  <2>3. IsGraph(Countdown(agents, m.prompt.start, m.prompt.end))
    BY <2>2 DEF Countdown, IsGraph
  <2> QED BY <1>2, <1>4, <2>3 DEF PlanTaskGraph, PlanWithHeuristics
<1>5. IsGraph(FullStack(agents))
  <2>1. {1, 2, 3} \subseteq TaskIds
    BY <1>1 DEF TaskIds
  <2>2. /\ Task(1, back, {}) \in GraphTask
        /\ Task(2, front, {}) \in GraphTask
        /\ Task(3, front, {1, 2}) \in GraphTask
    BY <1>3, <2>1 DEF Task, GraphTask
  <2> QED BY <2>2 DEF FullStack, IsGraph
<1>6. IsGraph(ParallelThenReview(agents))
  <2>1. n \in Nat /\ n <= Len(agents) /\ n + 1 <= MaxTasks
    BY <1>1
  <2> DEFINE g == [k \in 1 .. n |-> Task(k, agents[k], {})]
  <2>2. 1 .. n \subseteq TaskIds /\ n + 1 \in TaskIds
    BY <1>1, <2>1 DEF TaskIds
  <2>3. Last(agents) \in Agents
    BY <1>1 DEF Last
  <2>4. Task(n + 1, Last(agents), 1 .. n) \in GraphTask
    BY <2>2, <2>3 DEF Task, GraphTask
  <2>5. g \in Seq(GraphTask)
    <3>1. \A k \in 1 .. n : Task(k, agents[k], {}) \in GraphTask
      BY <1>1, <2>1, <2>2 DEF Task, GraphTask
    <3> QED BY <2>1, <3>1
  <2>6. Append(g, Task(n + 1, Last(agents), 1 .. n)) \in Seq(GraphTask)
    BY <2>4, <2>5
  <2> QED BY <2>6 DEF ParallelThenReview, IsGraph
<1> QED BY <1>2, <1>4, <1>5, <1>6 DEF PlanTaskGraph, PlanWithHeuristics

\* The rest of the type invariant.
Bounds ==
  /\ crew \in [Runs -> SUBSET Agents]
  /\ overlapped \subseteq Runs
  /\ iteration \in [Runs -> 0 .. MaxIterations]
  /\ status \in [Agents -> {"ready", "busy", "stopped", "error", "deleted"}]
  /\ killed \subseteq Nodes
  /\ down \in BOOLEAN
  /\ faults \in 0 .. MaxFaults
  /\ restarts \in 0 .. MaxRestarts

\* A run has the tasks of its graph, and somebody sent it.
Planned(r) ==
  /\ IsGraph(graph[r])
  /\ loop[r] # "none" => owner[r] \in Humans
  /\ \A i \in TaskIds : task[r][i] = "none" <=> i \notin Ids(graph[r])

TypeInv == Bounds /\ \A r \in Runs : Planned(r)

LEMMA TypesHold ==
  ASSUME IInv, TypeInv
  PROVE  TypeOK
BY DEF IInv, TypeInv, Shapes, Bounds, Planned, IsGraph, GraphTask, TypeOK, TaskWords, LoopWords

LEMMA InitTypes ==
  ASSUME Init
  PROVE  TypeInv
<1>1. Bounds
  <2>1. 0 \in 0 .. MaxIterations /\ 0 \in 0 .. MaxFaults /\ 0 \in 0 .. MaxRestarts
    BY TeamRunsAssumption
  <2> QED BY <2>1 DEF Init, Bounds
<1>2. ASSUME NEW r \in Runs
      PROVE  Planned(r)
  BY <1>2 DEF Init, Planned, IsGraph, Ids
<1> QED BY <1>1, <1>2 DEF TypeInv

\* Only planning for a message makes a graph, and with it the tasks there are.
LEMMA OnlyPlanPlans ==
  ASSUME IInv, [Next]_vars, \A r \in Runs : \A m \in Messages[r], a \in Agents : ~Plan(r, m, a)
  PROVE  /\ graph' = graph /\ owner' = owner
         /\ \A r \in Runs, i \in TaskIds : task'[r][i] = "none" <=> task[r][i] = "none"
         /\ \A r \in Runs : loop'[r] = "none" <=> loop[r] = "none"
<1>1. Shapes
  BY DEF IInv
<1>2. ASSUME NEW r \in Runs, NEW ids, NEW word \in TaskWords \ {"none"}, SetTasks(r, ids, word),
             \A i \in TaskIds : i \in ids => task[r][i] # "none"
      PROVE  \A s \in Runs, i \in TaskIds : task'[s][i] = "none" <=> task[s][i] = "none"
  <2>1. /\ \A i \in TaskIds : task'[r][i] = IF i \in ids THEN word ELSE task[r][i]
        /\ \A s \in Runs \ {r} : task'[s] = task[s]
    BY <1>1, <1>2, TaskShape
  <2> QED BY <1>2, <2>1
<1>3. ASSUME NEW r \in Runs, Orchestration(r)
      PROVE  /\ graph' = graph /\ owner' = owner
             /\ \A s \in Runs, i \in TaskIds : task'[s][i] = "none" <=> task[s][i] = "none"
             /\ \A s \in Runs : loop'[s] = "none" <=> loop[s] = "none"
  <2>1. graph' = graph /\ owner' = owner
    BY <1>3 DEF Orchestration, Begin, StartLayer, Skip, LeaveLoop, LayerEnds, Conclude, Abort, End,
                runVars, crewVars
  <2>2. \/ task' = task
        \/ SetTasks(r, Ready(r), "running")
        \/ SetTasks(r, Unrunnable(r), "skipped")
    BY <1>3 DEF Orchestration, Begin, StartLayer, Skip, LeaveLoop, LayerEnds, Conclude, Abort, End,
                runVars
  <2>3. \A i \in TaskIds : i \in Ready(r) \cup Unrunnable(r) => task[r][i] # "none"
    BY DEF Ready, Unrunnable, TasksThatAre
  <2>4. /\ loop[r] # "none"
        /\ loop' = loop \/ \E pc \in LoopWords \ {"none"} : loop' = [loop EXCEPT ![r] = pc]
    BY <1>3 DEF Orchestration, Begin, StartLayer, Skip, LeaveLoop, LayerEnds, Conclude, Abort, End,
                LoopAt, MoveTo, LoopWords, Over
  <2>5. \A s \in Runs : loop'[s] = "none" <=> loop[s] = "none"
    BY <1>1, <2>4 DEF Shapes
  <2> QED BY <1>2, <2>1, <2>2, <2>3, <2>5 DEF TaskWords
<1>4. ASSUME NEW n \in Nodes, Execution(n)
      PROVE  /\ graph' = graph /\ owner' = owner /\ loop' = loop
             /\ \A s \in Runs, i \in TaskIds : task'[s][i] = "none" <=> task[s][i] = "none"
  <2>1. graph' = graph /\ owner' = owner /\ loop' = loop
    BY <1>4 DEF Execution, Begins, ProcessEnds, Record, Fail, TaskUnchanged, crewVars, loopVars
  <2>2. \/ task' = task
        \/ SetTasks(n[1], {n[2]}, "completed")
        \/ SetTasks(n[1], {n[2]}, "failed")
    BY <1>4 DEF Execution, Begins, ProcessEnds, Record, Fail, Completes
  <2>3. node[n] # "none" /\ n[1] \in Runs /\ n[2] \in TaskIds /\ n = <<n[1], n[2]>>
    BY <1>4, NodeFacts DEF Execution, Begins, ProcessEnds, Record, Fail, NodeAt
  <2>4. task[n[1]][n[2]] # "none"
    BY <2>3 DEF IInv, RunInv, Marked, Launched, TasksThatAre
  <2> QED BY <1>2, <2>1, <2>2, <2>3, <2>4 DEF TaskWords
<1>5. ASSUME \/ \E q \in Callers, kind \in {"stop", "delete"}, a \in Agents : Cancel(q, kind, a)
             \/ \E q \in Callers : Continues(q)
             \/ \E a \in Agents : Start(a)
      PROVE  UNCHANGED <<graph, owner, loop, task>>
  BY <1>5 DEF Cancel, Continues, Killed, Awaited, Finish, Start, RequestUnchanged, runVars,
              crewVars, loopVars
<1>6. ASSUME Restart
      PROVE  /\ UNCHANGED <<graph, owner, task>>
             /\ \A r \in Runs : loop'[r] = "none" <=> loop[r] = "none"
  BY <1>6 DEF Restart, crewVars
<1>7. CASE UNCHANGED vars
  BY <1>7 DEF vars, runVars, crewVars, loopVars
<1>8. ASSUME NEW r \in Runs, Accept(r)
      PROVE  /\ UNCHANGED <<graph, owner, task>>
             /\ \A s \in Runs : loop'[s] = "none" <=> loop[s] = "none"
  BY <1>1, <1>8 DEF Accept, LoopAt, MoveTo, Shapes
<1> QED BY <1>3, <1>4, <1>5, <1>6, <1>7, <1>8 DEF Next

LEMMA StepBounds ==
  ASSUME IInv, Bounds, [Next]_vars
  PROVE  Bounds'
<1> USE DEF Bounds
<1>1. /\ MaxIterations \in Nat /\ MaxFaults \in Nat /\ MaxRestarts \in Nat
      /\ \A r \in Runs : iteration[r] \in Nat
      /\ faults \in Nat /\ restarts \in Nat
  BY TeamRunsAssumption
<1>2. Works \/ Faulty => faults' \in 0 .. MaxFaults /\ restarts' \in 0 .. MaxRestarts
  BY <1>1 DEF Works, Faulty, bounds
<1>3. ASSUME NEW r \in Runs, NEW m \in Messages[r], NEW a \in Agents, Plan(r, m, a)
      PROVE  Bounds'
  <2>1. Range(Present) \subseteq Agents
    BY PresentAgents DEF Range
  <2> QED BY <1>3, <2>1 DEF Plan, bounds, runnerVars
<1>9. ASSUME NEW r \in Runs, Accept(r)
      PROVE  Bounds'
  <2>1. status' \in [Agents -> {"ready", "busy", "stopped", "error", "deleted"}]
    BY <1>9 DEF Accept
  <2>2. overlapped' \subseteq Runs
    BY <1>9 DEF Accept, Overlaps
  <2> QED BY <1>2, <1>9, <2>1, <2>2 DEF Accept, runnerVars
<1>4. ASSUME NEW r \in Runs, Orchestration(r)
      PROVE  Bounds'
  <2>1. ASSUME GoesOn(r), Counts(r)
        PROVE  iteration' \in [Runs -> 0 .. MaxIterations]
    BY <1>1, <2>1 DEF GoesOn, Counts
  <2>2. CASE Begin(r)
    BY <1>2, <2>2 DEF Begin, runnerVars, crewVars
  <2>3. CASE StartLayer(r)
    BY <1>2, <2>1, <2>3 DEF StartLayer, runnerVars, crewVars
  <2>4. CASE Skip(r)
    BY <1>2, <2>1, <2>4 DEF Skip, runnerVars, crewVars
  <2>5. CASE LeaveLoop(r) \/ LayerEnds(r)
    BY <2>5 DEF LeaveLoop, LayerEnds, runVars, crewVars, runnerVars, bounds
  <2>6. CASE Conclude(r)
    BY <1>2, <2>6 DEF Conclude, runnerVars, crewVars
  <2>7. CASE Abort(r)
    BY <1>2, <2>7 DEF Abort, runnerVars, crewVars
  <2>8. CASE End(r)
    <3>1. status' \in [Agents -> {"ready", "busy", "stopped", "error", "deleted"}]
      BY <2>8 DEF End
    <3>2. down' \in BOOLEAN
      BY <2>8 DEF End, Unhandled
    <3> QED BY <1>2, <2>8, <3>1, <3>2 DEF End, runnerVars, crewVars
  <2> QED BY <1>4, <2>2, <2>3, <2>4, <2>5, <2>6, <2>7, <2>8 DEF Orchestration
<1>5. ASSUME NEW n \in Nodes, Execution(n)
      PROVE  Bounds'
  <2>1. UNCHANGED <<crew, overlapped, iteration, status, down>>
    BY <1>5 DEF Execution, Begins, ProcessEnds, Record, Fail, TaskUnchanged, crewVars, loopVars
  <2>2. killed' \subseteq killed
    BY <1>5 DEF Execution, Begins, ProcessEnds, Record, Fail
  <2>3. Works \/ Faulty
    BY <1>5 DEF Execution, Begins, ProcessEnds, Record, Fail, Works
  <2> QED BY <1>2, <2>1, <2>2, <2>3
<1>6. ASSUME \/ \E q \in Callers, kind \in {"stop", "delete"}, a \in Agents : Cancel(q, kind, a)
             \/ \E q \in Callers : Continues(q)
             \/ \E a \in Agents : Start(a)
      PROVE  Bounds'
  <2>1. UNCHANGED <<crew, overlapped, iteration, down>>
    BY <1>6 DEF Cancel, Continues, Killed, Awaited, Finish, Start, RequestUnchanged, runVars,
                crewVars, loopVars
  <2>2. Works \/ Faulty
    BY <1>6 DEF Cancel, Continues, Killed, Awaited, Finish, Start, Works
  <2>3. status' \in [Agents -> {"ready", "busy", "stopped", "error", "deleted"}]
    BY <1>6 DEF Cancel, Continues, Killed, Awaited, Finish, Start
  <2>4. killed' \subseteq Nodes
    <3>1. \A a \in Agents : process[a] = Nothing \/ process[a] \in Nodes
      BY DEF IInv, Shapes
    <3>2. ASSUME NEW q \in Callers, NEW kind, NEW a \in Agents, Cancel(q, kind, a)
          PROVE  killed' \subseteq Nodes
      BY <3>1, <3>2 DEF Cancel
    <3>3. ASSUME NEW q \in Callers, Continues(q)
          PROVE  killed' \subseteq Nodes
      BY <3>3 DEF Continues, Killed, Awaited, Finish
    <3>4. ASSUME NEW a \in Agents, Start(a)
          PROVE  killed' \subseteq Nodes
      BY <3>4 DEF Start
    <3> QED BY <1>6, <3>2, <3>3, <3>4
  <2> QED BY <1>2, <2>1, <2>2, <2>3, <2>4
<1>7. CASE Restart
  <2>1. restarts' \in 0 .. MaxRestarts /\ UNCHANGED <<crew, overlapped, iteration, faults>>
    BY <1>1, <1>7 DEF Restart, crewVars
  <2>2. status' \in [Agents -> {"ready", "busy", "stopped", "error", "deleted"}]
    BY <1>7 DEF Restart
  <2>3. killed' = {} /\ down' = FALSE
    BY <1>7 DEF Restart
  <2> QED BY <2>1, <2>2, <2>3
<1>8. CASE UNCHANGED vars
  BY <1>8 DEF vars, runVars, crewVars, loopVars, runnerVars, bounds
<1> QED BY <1>3, <1>4, <1>5, <1>6, <1>7, <1>8, <1>9 DEF Next

LEMMA StepTypes ==
  ASSUME IInv, TypeInv, [Next]_vars
  PROVE  TypeInv'
<1>1. Bounds'
  BY StepBounds DEF TypeInv
<1>2. CASE \A r \in Runs : \A m \in Messages[r], a \in Agents : ~Plan(r, m, a)
  <2>1. /\ graph' = graph /\ owner' = owner
        /\ \A r \in Runs, i \in TaskIds : task'[r][i] = "none" <=> task[r][i] = "none"
        /\ \A r \in Runs : loop'[r] = "none" <=> loop[r] = "none"
    BY <1>2, OnlyPlanPlans
  <2> QED BY <1>1, <2>1 DEF TypeInv, Planned, IsGraph, Ids
<1>3. ASSUME NEW r \in Runs, NEW m \in Messages[r], NEW a \in Agents, Plan(r, m, a)
      PROVE  TypeInv'
  <2> DEFINE g == PlanTaskGraph(m.proposal, m.prompt, Present)
  <2>1. /\ loop[r] = "none" /\ Len(Present) > 1
        /\ graph' = [graph EXCEPT ![r] = g]
        /\ task' = [task EXCEPT ![r] =
             [i \in TaskIds |-> IF i \in Ids(g) THEN "pending" ELSE @[i]]]
        /\ owner' = [owner EXCEPT ![r] = Owner[a]]
        /\ loop' = [loop EXCEPT ![r] = "planning"]
    BY <1>3 DEF Plan, MoveTo
  <2>2. IsGraph(g)
    BY <2>1, PresentAgents, PlanTypes
  <2> HIDE DEF g
  <2>3. Shapes /\ \A i \in TaskIds : task[r][i] = "none"
    BY <2>1 DEF IInv, RunInv, Fresh
  <2>4. Planned(r)'
    <3>1. graph'[r] = g
      BY <2>1, <2>3 DEF Shapes
    <3>2. \A i \in TaskIds : task'[r][i] = IF i \in Ids(g) THEN "pending" ELSE "none"
      BY <2>1, <2>3 DEF Shapes
    <3>3. owner'[r] \in Humans
      BY <2>1, <2>3 DEF Shapes, Humans
    <3> QED BY <2>2, <3>1, <3>2, <3>3 DEF Planned, IsGraph, Ids
  <2>5. ASSUME NEW s \in Runs \ {r}
        PROVE  Planned(s)'
    <3>1. /\ graph'[s] = graph[s] /\ task'[s] = task[s]
          /\ owner'[s] = owner[s] /\ loop'[s] = loop[s]
      BY <2>1, <2>3 DEF Shapes
    <3> QED BY <3>1 DEF TypeInv, Planned, IsGraph, Ids
  <2> QED BY <1>1, <2>4, <2>5 DEF TypeInv
<1> QED BY <1>2, <1>3

-----------------------------------------------------------------------------
(* Why a run fails where every write succeeds.                             *)

Failed(r) == TasksThatAre(r, "failed")

\* How far a run is, if every write succeeded: a task in progress is running and
\* the other way round, and as long as no task failed nothing is skipped and
\* each iteration gets a layer further.
Progress(r) ==
  faults = 0 =>
    /\ r \notin thrown /\ loop[r] \notin {"aborting", "lost"}
    /\ \A i \in TaskIds :
         /\ node[<<r, i>>] # "none" => task[r][i] = "running" /\ node[<<r, i>>] # "rejected"
         /\ task[r][i] = "running" => node[<<r, i>>] # "none" \/ loop[r] \in Over
    /\ loop[r] \in {"none", "planning", "announcing"} => iteration[r] = 0
    /\ teamRun[r] = "failed" => loop[r] \in {"ending"} \cup Over
    /\ Failed(r) = {} =>
         /\ \A i \in TaskIds : task[r][i] # "skipped"
         /\ loop[r] \in {"announcing", "looping", "waiting"} =>
              Layers(graph[r])[iteration[r]] \subseteq Launched(r)
         /\ loop[r] = "concluding" =>
              Layers(graph[r])[MaxIterations] \subseteq TasksThatAre(r, "completed")
         /\ teamRun[r] = "failed" => Layers(graph[r])[MaxIterations] # Ids(graph[r])

LayersInv == IInv /\ TypeInv /\ \A r \in Runs : Progress(r)

\* A layer is what depends on the layers before it.
LEMMA LayersAre ==
  ASSUME NEW g
  PROVE  /\ Layers(g)[0] = {}
         /\ \A k \in 1 .. MaxIterations :
              Layers(g)[k] = {i \in Ids(g) : DependsOn(g, i) \subseteq Layers(g)[k - 1]}
<1> DEFINE n == MaxIterations
           S == SUBSET Ids(g)
           step == [p \in (1 .. n) \X S |-> {i \in Ids(g) : DependsOn(g, i) \subseteq p[2]}]
           Reached[k \in 0 .. n] ==
             IF k = 0 THEN {} ELSE {i \in Ids(g) : DependsOn(g, i) \subseteq Reached[k - 1]}
<1>1. n \in Nat /\ {} \in S /\ step \in [(1 .. n) \X S -> S]
  BY TeamRunsAssumption
<1>2. PICK f \in [0 .. n -> S] : Steps(f, {}, step, n)
  <2> HIDE DEF n, S, step, Reached
  <2> QED BY <1>1, Recursion
<1>3. /\ f[0] = {}
      /\ \A k \in 1 .. n : f[k] = {i \in Ids(g) : DependsOn(g, i) \subseteq f[k - 1]}
  <2>1. \A k \in 1 .. n : f[k - 1] \in S
    BY <1>1
  <2>2. \A k \in 1 .. n :
          step[<<k, f[k - 1]>>] = {i \in Ids(g) : DependsOn(g, i) \subseteq f[k - 1]}
    BY <2>1
  <2> HIDE DEF n, S, step, Reached
  <2> QED BY <1>2, <2>2 DEF Steps
<1>4. f = [k \in 0 .. n |->
             IF k = 0 THEN {} ELSE {i \in Ids(g) : DependsOn(g, i) \subseteq f[k - 1]}]
  <2>1. \A k \in 0 .. n : k = 0 \/ k \in 1 .. n
    BY <1>1
  <2> HIDE DEF n, S, step, Reached
  <2> QED BY <1>3, <2>1
<1>5. Reached = [k \in 0 .. n |->
        IF k = 0 THEN {} ELSE {i \in Ids(g) : DependsOn(g, i) \subseteq Reached[k - 1]}]
  BY <1>4, Zenon
<1>6. Layers(g) = Reached
  BY DEF Layers
<1> HIDE DEF Reached
<1>7. 0 \in 0 .. n /\ \A k \in 1 .. n : k \in 0 .. n /\ k # 0
  BY <1>1
<1> QED BY <1>5, <1>6, <1>7

LEMMA GraphTasks ==
  ASSUME NEW r \in Runs, Planned(r)
  PROVE  Ids(graph[r]) = {i \in TaskIds : task[r][i] # "none"}
<1>1. Ids(graph[r]) \subseteq TaskIds
  BY DEF Planned, IsGraph, Ids, GraphTask
<1> QED BY <1>1 DEF Planned

\* Nothing that this invariant says of the run has changed.
SameProgress(r) ==
  /\ graph'[r] = graph[r] /\ task'[r] = task[r]
  /\ teamRun'[r] = teamRun[r] /\ loop'[r] = loop[r] /\ iteration'[r] = iteration[r]
  /\ r \in thrown' <=> r \in thrown
  /\ \A i \in TaskIds : node'[<<r, i>>] = node[<<r, i>>]

LEMMA ProgressUntouched ==
  ASSUME NEW r \in Runs, Progress(r), SameProgress(r), faults' = 0 => faults = 0
  PROVE  Progress(r)'
<1>1. Layers(graph[r])' = Layers(graph[r]) /\ Ids(graph[r])' = Ids(graph[r])
  BY DEF SameProgress
<1>2. Launched(r)' = Launched(r) /\ Failed(r)' = Failed(r)
        /\ TasksThatAre(r, "completed")' = TasksThatAre(r, "completed")
  BY DEF SameProgress, Launched, Failed, TasksThatAre
<1> QED BY <1>1, <1>2 DEF Progress, SameProgress

\* What the steps below start from: no write has failed.
Unfailing ==
  /\ LayersInv
  /\ faults = 0

\* What this gives for one run.
LEMMA UnfailingRun ==
  ASSUME NEW r \in Runs, Unfailing
  PROVE  /\ Shapes /\ RunInv(r) /\ Progress(r) /\ r \notin thrown
         /\ Ids(graph[r]) = {i \in TaskIds : task[r][i] # "none"}
         /\ iteration[r] \in 0 .. MaxIterations /\ MaxIterations \in Nat
         /\ loop[r] # "waiting" => Quiet(r)
         /\ \A i \in TaskIds : task[r][i] \in TaskWords
<1>1. Shapes /\ RunInv(r) /\ Progress(r) /\ r \notin thrown /\ loop[r] # "aborting"
  BY DEF Unfailing, LayersInv, IInv, Progress
<1>2. Ids(graph[r]) = {i \in TaskIds : task[r][i] # "none"}
  BY GraphTasks DEF Unfailing, LayersInv, TypeInv
<1>3. iteration[r] \in 0 .. MaxIterations /\ MaxIterations \in Nat
  BY TeamRunsAssumption DEF Unfailing, LayersInv, TypeInv, Bounds
<1>4. loop[r] # "waiting" => Quiet(r)
  BY <1>1 DEF RunInv, Settles
<1>5. \A i \in TaskIds : task[r][i] \in TaskWords
  BY <1>1 DEF Shapes
<1> QED BY <1>1, <1>2, <1>3, <1>4, <1>5

LEMMA BeginProgress ==
  ASSUME NEW r \in Runs, Unfailing, Begin(r), faults' = 0
  PROVE  Progress(r)'
<1>1. /\ Shapes /\ Progress(r) /\ loop[r] = "announcing"
      /\ UNCHANGED <<graph, task, node, iteration, thrown>>
      /\ loop'[r] = "looping" /\ teamRun'[r] = "running"
  BY UnfailingRun DEF Begin, LoopAt, MoveTo, Faulty, Unfailing, Shapes
<1>2. Launched(r)' = Launched(r) /\ Failed(r)' = Failed(r)
  BY <1>1 DEF Launched, Failed, TasksThatAre
<1> QED BY <1>1, <1>2 DEF Progress, Unfailing, Over

\* In a settled run of which no task has failed, what was launched has completed.
LEMMA AllLaunchedCompleted ==
  ASSUME NEW r \in Runs, Unfailing, Quiet(r), Failed(r) = {}, loop[r] \notin Over
  PROVE  Launched(r) = TasksThatAre(r, "completed")
<1>1. \A i \in TaskIds : task[r][i] # "running"
  BY UnfailingRun DEF Progress, Quiet, Unfailing
<1> QED BY <1>1 DEF Launched, Failed, TasksThatAre

LEMMA StartLayerProgress ==
  ASSUME NEW r \in Runs, Unfailing, StartLayer(r), faults' = 0
  PROVE  Progress(r)'
<1>1. /\ Shapes /\ Progress(r) /\ loop[r] = "looping" /\ Quiet(r)
      /\ r \notin thrown
  BY UnfailingRun DEF StartLayer, LoopAt
<1>2. /\ UNCHANGED <<graph, teamRun, thrown>>
      /\ GoesOn(r) /\ Counts(r)
      /\ SetTasks(r, Ready(r), "running")
      /\ node' = [n \in Nodes |->
           IF n \notin {<<r, i>> : i \in Ready(r)} THEN node[n]
           ELSE IF status[AgentOf(n)] = "deleted" THEN "missing" ELSE "starting"]
      /\ loop'[r] = "waiting"
  BY <1>1 DEF StartLayer, MoveTo, Faulty, Unfailing, Shapes
<1>3. \A i \in TaskIds : task'[r][i] = IF i \in Ready(r) THEN "running" ELSE task[r][i]
  BY <1>1, <1>2, TaskShape DEF TaskWords
<1>4. Ready(r) \subseteq TaskIds /\ \A i \in Ready(r) : task[r][i] = "pending"
  BY DEF Ready, TasksThatAre
<1>5. \A i \in TaskIds :
        /\ i \in Ready(r) => node'[<<r, i>>] \in {"missing", "starting"}
        /\ i \notin Ready(r) => node'[<<r, i>>] = "none"
  BY <1>1, <1>2, NodeFacts DEF Quiet
<1>6. \A i \in TaskIds : task[r][i] # "running"
  BY <1>1 DEF Progress, Unfailing, Quiet, Over
<1>7. teamRun[r] # "failed"
  BY <1>1 DEF Progress, Unfailing, Over
<1>8. iteration'[r] = iteration[r] + 1 /\ iteration[r] + 1 \in 1 .. MaxIterations
        /\ iteration[r] \in Nat
  <2>1. iteration \in [Runs -> 0 .. MaxIterations]
    BY DEF Unfailing, LayersInv, TypeInv, Bounds
  <2> QED BY <1>2, <2>1, TeamRunsAssumption DEF Counts, GoesOn
<1>9. ASSUME Failed(r)' = {}
      PROVE  /\ \A i \in TaskIds : task'[r][i] # "skipped"
             /\ Layers(graph[r])[iteration[r] + 1] \subseteq Launched(r)'
  <2>1. Failed(r) = {}
    BY <1>3, <1>4, <1>9 DEF Failed, TasksThatAre
  <2>2. \A i \in TaskIds : task[r][i] \notin {"skipped", "failed", "running"}
    BY <1>1, <1>6, <2>1 DEF Progress, Unfailing, Failed, TasksThatAre
  <2>3. Layers(graph[r])[iteration[r]] \subseteq TasksThatAre(r, "completed")
    BY <1>1, <2>1, AllLaunchedCompleted DEF Progress, Unfailing, Over
  <2>4. ASSUME NEW i \in Layers(graph[r])[iteration[r] + 1]
        PROVE  i \in Launched(r)'
    <3>1. i \in Ids(graph[r])
            /\ DependsOn(graph[r], i) \subseteq Layers(graph[r])[(iteration[r] + 1) - 1]
      BY <1>8, <2>4, LayersAre
    <3>2. (iteration[r] + 1) - 1 = iteration[r]
      BY <1>8
    <3>3. i \in TaskIds /\ task[r][i] \in {"pending", "completed"}
      BY <2>2, <3>1, UnfailingRun DEF TaskWords
    <3>4. task[r][i] = "pending" => i \in Ready(r)
      BY <2>3, <3>1, <3>2, <3>3 DEF Ready, TasksThatAre
    <3>5. task'[r][i] \in {"running", "completed"}
      BY <1>3, <3>3, <3>4
    <3> QED BY <3>3, <3>5 DEF Launched, TasksThatAre
  <2> QED BY <1>3, <2>2, <2>4
<1>10. Layers(graph[r])' = Layers(graph[r])
  BY <1>2
<1> QED BY <1>1, <1>2, <1>3, <1>5, <1>6, <1>7, <1>8, <1>9, <1>10 DEF Progress, Over

LEMMA SkipProgress ==
  ASSUME NEW r \in Runs, Unfailing, Skip(r), faults' = 0
  PROVE  Progress(r)'
<1>1. /\ Shapes /\ Progress(r) /\ loop[r] = "looping" /\ Quiet(r)
      /\ r \notin thrown
  BY UnfailingRun DEF Skip, LoopAt
<1>2. /\ UNCHANGED <<teamRun, thrown, node, loop>>
      /\ SetTasks(r, Unrunnable(r), "skipped") /\ Unrunnable(r) # {}
  BY DEF Skip, Faulty, Unfailing
<1>3. \A i \in TaskIds : task'[r][i] = IF i \in Unrunnable(r) THEN "skipped" ELSE task[r][i]
  BY <1>1, <1>2, TaskShape DEF TaskWords
<1>4. \A i \in Unrunnable(r) : task[r][i] = "pending"
  BY DEF Unrunnable, TasksThatAre
<1>5. PICK d \in TaskIds : task[r][d] = "failed"
  BY <1>2 DEF Unrunnable, TasksThatAre
<1>6. Failed(r)' # {}
  BY <1>3, <1>4, <1>5 DEF Failed, TasksThatAre
<1> QED BY <1>1, <1>2, <1>3, <1>6 DEF Progress, Unfailing, Over, Quiet

LEMMA LeaveLoopProgress ==
  ASSUME NEW r \in Runs, Unfailing, LeaveLoop(r)
  PROVE  Progress(r)'
<1>1. /\ Shapes /\ Progress(r) /\ loop[r] = "looping" /\ Quiet(r)
      /\ r \notin thrown
  BY UnfailingRun DEF LeaveLoop, LoopAt
<1>2. /\ UNCHANGED <<graph, task, teamRun, thrown, node>>
      /\ loop'[r] = "concluding"
      /\ GoesOn(r) => Ready(r) = {}
  BY <1>1 DEF LeaveLoop, MoveTo, runVars, Shapes
<1>3. Failed(r)' = Failed(r) /\ TasksThatAre(r, "completed")' = TasksThatAre(r, "completed")
        /\ Layers(graph[r])' = Layers(graph[r])
  BY <1>2 DEF Failed, TasksThatAre
<1>4. ASSUME Failed(r) = {}
      PROVE  Layers(graph[r])[MaxIterations] \subseteq TasksThatAre(r, "completed")
  <2> DEFINE Done == TasksThatAre(r, "completed")
             T == {k \in 0 .. MaxIterations : Layers(graph[r])[k] \subseteq Done}
  <2>1. Layers(graph[r])[iteration[r]] \subseteq Done
    BY <1>1, <1>4, AllLaunchedCompleted DEF Progress, Unfailing, Over
  <2>2. iteration[r] \in 0 .. MaxIterations /\ MaxIterations \in Nat
    BY UnfailingRun
  <2>3. \A i \in TaskIds : task[r][i] \notin {"skipped", "failed", "running"}
    BY <1>1, <1>4 DEF Progress, Unfailing, Quiet, Over, Failed, TasksThatAre
  <2>4. CASE ~GoesOn(r)
    <3>1. iteration[r] = MaxIterations
      BY <2>2, <2>4 DEF GoesOn
    <3> QED BY <2>1, <3>1
  <2>5. CASE Ready(r) = {}
    <3>1. 0 \in T
      BY <2>2, LayersAre
    <3>2. ASSUME NEW k \in 1 .. MaxIterations, k - 1 \in T
          PROVE  k \in T
      <4>1. Layers(graph[r])[k - 1] \subseteq Done
        BY <3>2
      <4>2. ASSUME NEW i \in Layers(graph[r])[k]
            PROVE  i \in Done
        <5>1. i \in Ids(graph[r]) /\ DependsOn(graph[r], i) \subseteq Done
          BY <4>1, <4>2, LayersAre
        <5>2. i \in TaskIds /\ task[r][i] \in {"pending", "completed"}
          BY <2>3, <5>1, UnfailingRun DEF TaskWords
        <5>3. task[r][i] # "pending"
          BY <2>5, <5>1, <5>2 DEF Ready, TasksThatAre
        <5> QED BY <5>2, <5>3 DEF TasksThatAre
      <4> QED BY <2>2, <4>2
    <3>3. 0 .. MaxIterations \subseteq T
      <4> HIDE DEF T
      <4> QED BY <2>2, <3>1, <3>2, Induction
    <3> QED BY <2>2, <3>3
  <2> QED BY <1>2, <2>4, <2>5
<1> QED BY <1>1, <1>2, <1>3, <1>4 DEF Progress, Unfailing, Over

LEMMA LayerEndsProgress ==
  ASSUME NEW r \in Runs, Unfailing, LayerEnds(r)
  PROVE  Progress(r)'
<1>1. Shapes /\ Progress(r) /\ loop[r] = "waiting"
  BY UnfailingRun DEF LayerEnds, LoopAt
<1>2. UNCHANGED <<graph, task, teamRun, thrown, node, iteration>> /\ loop'[r] = "looping"
  BY <1>1 DEF LayerEnds, MoveTo, runVars, Shapes, Progress, Unfailing
<1>3. Failed(r)' = Failed(r) /\ Launched(r)' = Launched(r)
  BY <1>2 DEF Failed, Launched, TasksThatAre
<1> QED BY <1>1, <1>2, <1>3 DEF Progress, Unfailing, Over

LEMMA ConcludeProgress ==
  ASSUME NEW r \in Runs, Unfailing, Conclude(r), faults' = 0
  PROVE  Progress(r)'
<1>1. /\ Shapes /\ Progress(r) /\ loop[r] = "concluding"
      /\ Ids(graph[r]) = {i \in TaskIds : task[r][i] # "none"}
  BY UnfailingRun DEF Conclude, LoopAt
<1>2. /\ UNCHANGED <<graph, task, thrown, node>>
      /\ loop'[r] = "ending"
      /\ teamRun'[r] = IF AllSucceeded(r) THEN "completed" ELSE "failed"
  BY <1>1 DEF Conclude, MoveTo, Faulty, Unfailing, Shapes
<1>3. Failed(r)' = Failed(r) /\ Layers(graph[r])' = Layers(graph[r])
        /\ Ids(graph[r])' = Ids(graph[r])
  BY <1>2 DEF Failed, TasksThatAre
<1>4. ASSUME Failed(r) = {}, Layers(graph[r])[MaxIterations] = Ids(graph[r])
      PROVE  AllSucceeded(r)
  <2>1. Ids(graph[r]) \subseteq TasksThatAre(r, "completed")
    BY <1>1, <1>4 DEF Progress, Unfailing
  <2>2. TasksThatAre(r, "completed") \subseteq Ids(graph[r])
    BY <1>1 DEF TasksThatAre
  <2> QED BY <2>1, <2>2 DEF AllSucceeded
<1> QED BY <1>1, <1>2, <1>3, <1>4 DEF Progress, Unfailing, Over

LEMMA EndProgress ==
  ASSUME NEW r \in Runs, Unfailing, End(r), faults' = 0
  PROVE  Progress(r)'
<1>1. Shapes /\ Progress(r) /\ loop[r] = "ending"
  BY UnfailingRun DEF End, LoopAt
<1>2. UNCHANGED <<graph, task, teamRun, thrown, node>> /\ loop'[r] = "over"
  BY <1>1 DEF End, MoveTo, Faulty, Unfailing, Shapes
<1>3. Failed(r)' = Failed(r) /\ Layers(graph[r])' = Layers(graph[r])
        /\ Ids(graph[r])' = Ids(graph[r])
  BY <1>2 DEF Failed, TasksThatAre
<1> QED BY <1>1, <1>2, <1>3 DEF Progress, Unfailing, Over

\* A task in progress belongs to a run whose loop waits for it.
LEMMA TaskProgress ==
  ASSUME NEW n \in Nodes, Unfailing, Execution(n), faults' = 0
  PROVE  Progress(n[1])'
<1> DEFINE r == n[1]
           i == n[2]
<1>1. /\ r \in Runs /\ i \in TaskIds /\ n = <<r, i>>
      /\ node[n] # "none"
  BY NodeFacts DEF Execution, Begins, ProcessEnds, Record, Fail, NodeAt
<1> HIDE DEF r, i
<1>2. /\ Shapes /\ Progress(r) /\ RunInv(r)
      /\ loop[r] = "waiting" /\ task[r][i] = "running" /\ teamRun[r] # "failed"
  BY <1>1, UnfailingRun DEF Progress, Unfailing, Quiet, Over
<1>3. UNCHANGED <<graph, teamRun, loop, thrown, iteration>>
  BY DEF Execution, Begins, ProcessEnds, Record, Fail, TaskUnchanged, loopVars
<1>4. ~Faulty
  BY DEF Faulty, Unfailing
<1>5. /\ \A j \in TaskIds \ {i} : node'[<<r, j>>] = node[<<r, j>>] /\ task'[r][j] = task[r][j]
      /\ \/ /\ task'[r][i] = "running"
            /\ node'[n] \in {"spawned", "failing", "succeeded"}
         \/ task'[r][i] \in {"completed", "failed"} /\ node'[n] = "none"
  <2>1. ASSUME NEW pc \in {"none", "spawned", "failing", "succeeded"}, Goto(n, pc)
        PROVE  /\ \A j \in TaskIds \ {i} : node'[<<r, j>>] = node[<<r, j>>]
               /\ node'[n] = pc
    BY <1>1, <1>2, <2>1, NodeFacts DEF Goto, Shapes
  <2>2. ASSUME NEW word \in {"completed", "failed"}, SetTasks(r, {i}, word)
        PROVE  /\ \A j \in TaskIds \ {i} : task'[r][j] = task[r][j]
               /\ task'[r][i] = word
    BY <1>1, <1>2, <2>2, TaskShape DEF TaskWords
  <2>3. CASE Begins(n)
    BY <1>2, <1>4, <2>1, <2>3 DEF Begins
  <2>4. CASE ProcessEnds(n)
    BY <1>2, <2>1, <2>4 DEF ProcessEnds
  <2>5. CASE Record(n)
    BY <1>4, <2>1, <2>2, <2>5 DEF Record, Completes, r, i
  <2>6. CASE Fail(n)
    BY <1>4, <2>1, <2>2, <2>6 DEF Fail, r, i
  <2> QED BY <2>3, <2>4, <2>5, <2>6 DEF Execution
<1>6. Launched(r) \subseteq Launched(r)'
  BY <1>1, <1>2, <1>5 DEF Launched, TasksThatAre
<1>7. Failed(r)' = {} => Failed(r) = {}
  BY <1>1, <1>2, <1>5 DEF Failed, TasksThatAre
<1>8. Layers(graph[r])' = Layers(graph[r])
  BY <1>3
<1>9. Progress(r)'
  BY <1>1, <1>2, <1>3, <1>5, <1>6, <1>7, <1>8 DEF Progress, Unfailing, Over
<1> QED BY <1>9 DEF r

LEMMA PlanProgress ==
  ASSUME NEW r \in Runs, NEW m \in Messages[r], NEW a, Unfailing, Plan(r, m, a)
  PROVE  Progress(r)'
<1> DEFINE g == PlanTaskGraph(m.proposal, m.prompt, Present)
<1>1. /\ loop[r] = "none"
      /\ task' = [task EXCEPT ![r] = [i \in TaskIds |-> IF i \in Ids(g) THEN "pending" ELSE @[i]]]
      /\ loop' = [loop EXCEPT ![r] = "planning"]
      /\ UNCHANGED <<teamRun, iteration, thrown, node>>
  BY DEF Plan, MoveTo
<1> HIDE DEF g
<1>2. /\ Shapes /\ Progress(r) /\ Quiet(r) /\ r \notin thrown /\ teamRun[r] = "none"
      /\ \A i \in TaskIds : task[r][i] = "none"
  BY <1>1, UnfailingRun DEF RunInv, Fresh
<1>3. loop'[r] = "planning" /\ iteration'[r] = 0
        /\ \A i \in TaskIds : task'[r][i] \in {"none", "pending"}
  BY <1>1, <1>2 DEF Shapes, Progress, Unfailing
<1> QED BY <1>1, <1>2, <1>3 DEF Progress, Unfailing, Over, Quiet

LEMMA AcceptProgress ==
  ASSUME NEW r \in Runs, Unfailing, Accept(r), faults' = 0
  PROVE  Progress(r)'
<1>1. /\ Shapes /\ Progress(r) /\ loop[r] = "planning" /\ Quiet(r) /\ r \notin thrown
      /\ \A i \in TaskIds : task[r][i] \in {"none", "pending"}
  BY UnfailingRun DEF Accept, LoopAt, RunInv, Fresh
<1>2. /\ UNCHANGED <<graph, task, iteration, thrown, node>>
      /\ loop'[r] = "announcing" /\ teamRun'[r] = "queued" /\ iteration'[r] = 0
  BY <1>1 DEF Accept, MoveTo, Faulty, Unfailing, Shapes, Progress
<1>3. Layers(graph[r])'[0] = {}
  BY LayersAre
<1>4. Layers(graph[r])'[iteration'[r]] = {}
  BY <1>2, <1>3
<1> QED BY <1>1, <1>2, <1>4 DEF Progress, Unfailing, Over, Quiet

LEMMA RestartProgress ==
  ASSUME NEW r \in Runs, Unfailing, Restart
  PROVE  Progress(r)'
<1>1. Progress(r) /\ Shapes /\ (loop[r] # "waiting" => Quiet(r))
  BY UnfailingRun
<1>2. /\ UNCHANGED <<graph, task, teamRun, thrown, iteration>>
      /\ loop'[r] = IF loop[r] = "none" THEN "none" ELSE "over"
      /\ \A i \in TaskIds : node'[<<r, i>>] = "none"
  BY NodeFacts DEF Restart, taskVars
<1>3. Failed(r)' = Failed(r) /\ Layers(graph[r])' = Layers(graph[r])
        /\ Ids(graph[r])' = Ids(graph[r])
  BY <1>2 DEF Failed, TasksThatAre
<1>4. loop[r] = "none" => \A i \in TaskIds : task[r][i] # "running"
  BY <1>1 DEF Progress, Unfailing, Quiet, Over
<1> QED BY <1>1, <1>2, <1>3, <1>4 DEF Progress, Unfailing, Over

\* No step takes a fault back.
LEMMA FaultsRemain ==
  ASSUME IInv, TypeInv, [Next]_vars
  PROVE  faults' = 0 => faults = 0
<1>1. Works \/ Faulty => (faults' = 0 => faults = 0)
  BY DEF Works, Faulty, bounds, TypeInv, Bounds
<1>2. ASSUME NEW r \in Runs, Orchestration(r)
      PROVE  Works \/ Faulty
  BY <1>2 DEF Orchestration, Begin, StartLayer, Skip, LeaveLoop, LayerEnds, Conclude, Abort, End,
              Works
<1>3. ASSUME NEW n \in Nodes, Execution(n)
      PROVE  Works \/ Faulty
  BY <1>3 DEF Execution, Begins, ProcessEnds, Record, Fail, Works
<1>4. ASSUME \/ \E r \in Runs : \E m \in Messages[r], a \in Agents : Plan(r, m, a)
             \/ \E r \in Runs : Accept(r)
             \/ \E q \in Callers, kind \in {"stop", "delete"}, a \in Agents : Cancel(q, kind, a)
             \/ \E q \in Callers : Continues(q)
             \/ \E a \in Agents : Start(a)
      PROVE  Works \/ Faulty
  BY <1>4 DEF Plan, Accept, Cancel, Continues, Killed, Awaited, Finish, Start, Works
<1>5. CASE Restart
  BY <1>5 DEF Restart
<1>6. CASE UNCHANGED vars
  BY <1>6 DEF vars, bounds
<1> QED BY <1>1, <1>2, <1>3, <1>4, <1>5, <1>6 DEF Next

\* What is done for one run leaves the others where they are.
LEMMA OthersStand ==
  ASSUME IInv, TypeInv, NEW r \in Runs,
         \/ Orchestration(r)
         \/ \E m \in Messages[r], a \in Agents : Plan(r, m, a)
         \/ Accept(r)
         \/ \E n \in Nodes : n[1] = r /\ Execution(n),
         NEW s \in Runs \ {r}
  PROVE  SameProgress(s)
<1>1. Shapes /\ iteration \in [Runs -> 0 .. MaxIterations]
  BY DEF IInv, TypeInv, Bounds
<1>2. ASSUME NEW ids, NEW word \in TaskWords, SetTasks(r, ids, word)
      PROVE  task'[s] = task[s]
  BY <1>1, <1>2, TaskShape
<1>3. CASE Orchestration(r)
  <2>1. UNCHANGED graph
          /\ (thrown' = thrown \/ thrown' = thrown \cup {r})
          /\ (iteration' = iteration \/ Counts(r))
          /\ (loop' = loop \/ \E pc : loop' = [loop EXCEPT ![r] = pc])
    BY <1>3 DEF Orchestration, Begin, StartLayer, Skip, LeaveLoop, LayerEnds, Conclude, Abort, End,
                runVars, MoveTo
  <2>2. teamRun' = teamRun \/ \E word : teamRun' = [teamRun EXCEPT ![r] = word]
    BY <1>3 DEF Orchestration, Begin, StartLayer, Skip, LeaveLoop, LayerEnds, Conclude, Abort, End,
                runVars
  <2>3. task' = task \/ SetTasks(r, Ready(r), "running") \/ SetTasks(r, Unrunnable(r), "skipped")
    BY <1>3 DEF Orchestration, Begin, StartLayer, Skip, LeaveLoop, LayerEnds, Conclude, Abort, End,
                runVars
  <2>4. task'[s] = task[s]
    BY <1>2, <2>3 DEF TaskWords
  <2>5. \A i \in TaskIds : node'[<<s, i>>] = node[<<s, i>>]
    <3>1. \A i \in TaskIds : <<s, i>> \in Nodes /\ <<s, i>> \notin {<<r, j>> : j \in Ready(r)}
      BY NodeFacts
    <3>2. \/ node' = node
          \/ node' = [n \in Nodes |->
               IF n \notin {<<r, i>> : i \in Ready(r)} THEN node[n]
               ELSE IF status[AgentOf(n)] = "deleted" THEN "missing" ELSE "starting"]
      BY <1>3 DEF Orchestration, Begin, StartLayer, Skip, LeaveLoop, LayerEnds, Conclude, Abort,
                  End
    <3> QED BY <3>1, <3>2
  <2>6. teamRun'[s] = teamRun[s] /\ loop'[s] = loop[s] /\ iteration'[s] = iteration[s]
    BY <1>1, <2>1, <2>2 DEF Counts, Shapes
  <2> QED BY <2>1, <2>4, <2>5, <2>6 DEF SameProgress
<1>4. ASSUME NEW m \in Messages[r], NEW a \in Agents, Plan(r, m, a)
      PROVE  SameProgress(s)
  BY <1>1, <1>4 DEF Plan, MoveTo, SameProgress, Shapes
<1>6. CASE Accept(r)
  BY <1>1, <1>6 DEF Accept, MoveTo, SameProgress, Shapes
<1>5. ASSUME NEW n \in Nodes, n[1] = r, Execution(n)
      PROVE  SameProgress(s)
  <2>1. TaskStep(r, n[2])
    BY <1>5, BeginsStep, ProcessEndsStep, RecordStep, FailStep DEF Execution
  <2>2. iteration' = iteration
    BY <1>5 DEF Execution, Begins, ProcessEnds, Record, Fail, TaskUnchanged, loopVars
  <2> QED BY <2>1, <2>2, NodeFacts DEF TaskStep, SameProgress
<1> QED BY <1>3, <1>4, <1>5, <1>6

LEMMA StepProgress ==
  ASSUME LayersInv, [Next]_vars, NEW s \in Runs
  PROVE  Progress(s)'
<1> SUFFICES ASSUME faults' = 0 PROVE Progress(s)'
  BY DEF Progress
<1>1. IInv /\ TypeInv /\ Progress(s) /\ (faults' = 0 => faults = 0)
  BY FaultsRemain DEF LayersInv
<1>2. Unfailing
  BY <1>1 DEF Unfailing
<1>3. ASSUME NEW r \in Runs, r # s,
             \/ Orchestration(r)
             \/ \E m \in Messages[r], a \in Agents : Plan(r, m, a)
             \/ Accept(r)
             \/ \E n \in Nodes : n[1] = r /\ Execution(n)
      PROVE  Progress(s)'
  BY <1>1, <1>3, OthersStand, ProgressUntouched
<1>4. CASE Orchestration(s)
  <2>1. ~Abort(s)
    BY <1>1, <1>2 DEF Abort, LoopAt, Progress, Unfailing
  <2> QED BY <1>2, <1>4, <2>1, BeginProgress, StartLayerProgress, SkipProgress, LeaveLoopProgress,
             LayerEndsProgress, ConcludeProgress, EndProgress DEF Orchestration
<1>5. ASSUME NEW m \in Messages[s], NEW a \in Agents, Plan(s, m, a)
      PROVE  Progress(s)'
  BY <1>2, <1>5, PlanProgress
<1>11. CASE Accept(s)
  BY <1>2, <1>11, AcceptProgress
<1>6. ASSUME NEW n \in Nodes, n[1] = s, Execution(n)
      PROVE  Progress(s)'
  BY <1>2, <1>6, TaskProgress
<1>7. ASSUME \/ \E q \in Callers, kind \in {"stop", "delete"}, a \in Agents : Cancel(q, kind, a)
             \/ \E q \in Callers : Continues(q)
             \/ \E a \in Agents : Start(a)
      PROVE  Progress(s)'
  <2>1. UNCHANGED <<graph, task, teamRun, loop, iteration, thrown, node>>
    BY <1>7 DEF Cancel, Continues, Killed, Awaited, Finish, Start, RequestUnchanged, runVars,
                loopVars
  <2> QED BY <1>1, <2>1, ProgressUntouched DEF SameProgress
<1>8. CASE Restart
  BY <1>2, <1>8, RestartProgress
<1>9. CASE UNCHANGED vars
  <2>1. UNCHANGED <<graph, task, teamRun, loop, iteration, thrown, node>>
    BY <1>9 DEF vars, runVars, loopVars
  <2> QED BY <1>1, <2>1, ProgressUntouched DEF SameProgress
<1>10. \A n \in Nodes : n[1] \in Runs
  BY NodeFacts
<1> QED BY <1>3, <1>4, <1>5, <1>6, <1>7, <1>8, <1>9, <1>10, <1>11 DEF Next

LEMMA InitProgress ==
  ASSUME Init, NEW r \in Runs
  PROVE  Progress(r)
<1>1. Failed(r) = {} /\ \A i \in TaskIds : node[<<r, i>>] = "none"
  BY NodeFacts DEF Init, Failed, TasksThatAre
<1> QED BY <1>1 DEF Init, Progress

-----------------------------------------------------------------------------
(* Plans.                                                                  *)

LEMMA InitRunnable ==
  ASSUME Init
  PROVE  PlansAreRunnable
<1>1. Closed(<<>>) /\ Runnable(<<>>)
  <2>1. Ids(<<>>) = {}
    BY DEF Ids
  <2> QED BY <2>1 DEF Closed, Runnable
<1>2. \A r \in Runs : graph[r] = <<>>
  BY DEF Init
<1> QED BY <1>1, <1>2 DEF PlansAreRunnable, Closed

LEMMA StepRunnable ==
  ASSUME IInv, PlansAreRunnable, [Next]_vars
  PROVE  PlansAreRunnable'
<1>1. ASSUME NEW r \in Runs, NEW m \in Messages[r], NEW a \in Agents, Plan(r, m, a)
      PROVE  PlansAreRunnable'
  <2> DEFINE g == PlanTaskGraph(m.proposal, m.prompt, Present)
  <2>1. Present \in Seq(Agents)
    BY PresentAgents
  <2>2. /\ m.proposal \in Seq(Range(m.proposal))
        /\ m.prompt.kind = "countdown" => m.prompt.start \in Nat /\ m.prompt.end \in Nat
    BY TeamRunsAssumption
  <2>3. Closed(g) /\ Runnable(g)
    BY <2>1, <2>2, PlansRun
  <2>4. graph' = [graph EXCEPT ![r] = g]
    BY <1>1 DEF Plan
  <2> HIDE DEF g
  <2>5. \A s \in Runs : graph'[s] = IF s = r THEN g ELSE graph[s]
    BY <2>4 DEF IInv, Shapes
  <2>6. ASSUME NEW s \in Runs
        PROVE  Closed(graph'[s]) /\ Runnable(graph'[s])
    BY <2>3, <2>5 DEF PlansAreRunnable, Closed
  <2> QED BY <2>6 DEF PlansAreRunnable, Closed
<1>2. CASE \A r \in Runs : \A m \in Messages[r], a \in Agents : ~Plan(r, m, a)
  <2>1. graph' = graph
    BY <1>2, OnlyPlanPlans
  <2> QED BY <2>1 DEF PlansAreRunnable
<1> QED BY <1>1, <1>2

\* As long as tasks are left each layer has one more: in a plan some task waits
\* for none of those that are left.
LEMMA LayersGrow ==
  ASSUME NEW g, IsFiniteSet(Ids(g)), Closed(g), Runnable(g)
  PROVE  \A k \in 0 .. MaxIterations :
           /\ Layers(g)[k] \subseteq Ids(g)
           /\ Layers(g)[k] # Ids(g) => Cardinality(Layers(g)[k]) >= k
<1> DEFINE n == MaxIterations
           L(k) == Layers(g)[k]
           Grows(k) == L(k - 1) \subseteq L(k)
           T == {k \in 0 .. n :
                   /\ L(k) \subseteq Ids(g)
                   /\ k # 0 => L(k - 1) \subseteq L(k)
                   /\ L(k) # Ids(g) => Cardinality(L(k)) >= k}
<1>1. n \in Nat
  BY TeamRunsAssumption
<1>2. /\ L(0) = {}
      /\ \A k \in 1 .. n : L(k) = {i \in Ids(g) : DependsOn(g, i) \subseteq L(k - 1)}
  BY LayersAre
<1> HIDE DEF L
<1>3. 0 \in T
  BY <1>1, <1>2, FS_EmptySet
<1>4. ASSUME NEW k \in 1 .. n, k - 1 \in T
      PROVE  k \in T
  <2>1. /\ L(k - 1) \subseteq Ids(g)
        /\ k - 1 # 0 => L(k - 1 - 1) \subseteq L(k - 1)
        /\ L(k - 1) # Ids(g) => Cardinality(L(k - 1)) >= k - 1
        /\ k \in 0 .. n
    BY <1>1, <1>4
  <2>2. L(k) \subseteq Ids(g)
    BY <1>2
  <2>3. L(k - 1) \subseteq L(k)
    <3>1. CASE k - 1 = 0
      BY <1>2, <3>1
    <3>2. CASE k - 1 # 0
      <4>1. k - 1 \in 1 .. n
        BY <1>1, <3>2
      <4> QED BY <1>2, <2>1, <3>2, <4>1
    <3> QED BY <3>1, <3>2
  <2>4. ASSUME L(k) # Ids(g)
        PROVE  Cardinality(L(k)) >= k
    <3> DEFINE Rest == Ids(g) \ L(k - 1)
    <3>1. L(k - 1) # Ids(g) /\ Rest \in SUBSET Ids(g) /\ Rest # {}
      BY <2>1, <2>2, <2>3, <2>4
    <3>2. PICK i \in Rest : DependsOn(g, i) \cap Rest = {}
      BY <3>1 DEF Runnable
    <3>3. DependsOn(g, i) \subseteq L(k - 1)
      BY <3>2 DEF Closed
    <3>4. i \in L(k) /\ i \notin L(k - 1)
      BY <1>2, <3>2, <3>3
    <3>5. /\ IsFiniteSet(L(k - 1)) /\ IsFiniteSet(L(k))
          /\ Cardinality(L(k - 1)) \in Nat /\ Cardinality(L(k)) \in Nat
      BY <2>1, <2>2, FS_Subset, FS_CardinalityType
    <3>6. /\ IsFiniteSet(L(k - 1) \cup {i})
          /\ Cardinality(L(k - 1) \cup {i}) = Cardinality(L(k - 1)) + 1
      BY <3>4, <3>5, FS_AddElement
    <3>7. Cardinality(L(k - 1) \cup {i}) <= Cardinality(L(k))
      <4>1. L(k - 1) \cup {i} \in SUBSET L(k)
        BY <2>3, <3>4
      <4> QED BY <3>5, <4>1, FS_Subset
    <3> QED BY <1>1, <2>1, <3>1, <3>5, <3>6, <3>7
  <2> QED BY <2>1, <2>2, <2>3, <2>4
<1>5. 0 .. n \subseteq T
  <2> HIDE DEF T
  <2> QED BY <1>1, <1>3, <1>4, Induction
<1> QED BY <1>5 DEF L

\* A plan of no more tasks than the loop has iterations has no more layers.
LEMMA ShortPlansEnd ==
  ASSUME NEW g, IsGraph(g), Closed(g), Runnable(g), MaxTasks <= MaxIterations
  PROVE  Layers(g)[MaxIterations] = Ids(g)
<1> DEFINE n == MaxIterations
           L == Layers(g)[n]
<1>1. n \in Nat /\ n \in 0 .. n /\ MaxTasks \in Nat
  BY TeamRunsAssumption
<1>2. Ids(g) \in SUBSET TaskIds
  BY DEF IsGraph, Ids, GraphTask
<1>3. IsFiniteSet(TaskIds) /\ Cardinality(TaskIds) = MaxTasks
  BY <1>1, FS_Interval DEF TaskIds
<1>4. IsFiniteSet(Ids(g)) /\ Cardinality(Ids(g)) <= MaxTasks /\ Cardinality(Ids(g)) \in Nat
  BY <1>2, <1>3, FS_Subset, FS_CardinalityType
<1>5. L \subseteq Ids(g) /\ (L # Ids(g) => Cardinality(L) >= n)
  BY <1>1, <1>4, LayersGrow
<1> HIDE DEF L
<1>6. SUFFICES ASSUME L # Ids(g) PROVE FALSE
  BY DEF L
<1>7. /\ IsFiniteSet(L) /\ Cardinality(L) \in Nat
      /\ Cardinality(L) <= Cardinality(Ids(g))
      /\ Cardinality(L) # Cardinality(Ids(g))
  <2>1. L \in SUBSET Ids(g)
    BY <1>5
  <2> QED BY <1>4, <1>6, <2>1, FS_Subset, FS_CardinalityType
<1> QED BY <1>1, <1>4, <1>5, <1>6, <1>7

-----------------------------------------------------------------------------
(* What a stop finds.                                                      *)

\* A run that is going on is current for its agents, unless another one with an
\* agent of its crew was going on at some time as well.
Held(r) == Going(r) /\ r \notin overlapped => \A a \in crew[r] : current[a] = r

Apart(r, s) == Going(r) /\ Going(s) /\ crew[r] \cap crew[s] # {} => r \in overlapped

\* All that a request has to wait for is what it waits for.
Found(q) ==
  request[q].pc \in {"killing", "awaiting", "finishing"} =>
    request[q].owes \subseteq {request[q].waitsFor}

FoundInv ==
  /\ \A r \in Runs : Held(r) /\ crew[r] \subseteq Agents
  /\ \A r \in Runs : \A s \in Runs \ {r} : Apart(r, s)
  /\ \A q \in Callers : Found(q)

\* No step but those named below makes a run go on, and the runs that do keep
\* their crew and stay current for it.
LEMMA FoundRemains ==
  ASSUME FoundInv, UNCHANGED <<crew, overlapped, current, request>>,
         \A r \in Runs : Going(r)' => Going(r)
  PROVE  FoundInv'
<1>1. \A r \in Runs : Held(r)' /\ crew'[r] \subseteq Agents
  BY DEF FoundInv, Held
<1>2. \A r \in Runs : \A s \in Runs \ {r} : Apart(r, s)'
  BY DEF FoundInv, Apart
<1>3. \A q \in Callers : Found(q)'
  BY DEF FoundInv, Found
<1> QED BY <1>1, <1>2, <1>3 DEF FoundInv

LEMMA PlanFound ==
  ASSUME IInv, FoundInv, NEW r \in Runs, NEW m \in Messages[r], NEW a \in Agents, Plan(r, m, a)
  PROVE  FoundInv'
<1>1. /\ loop' = [loop EXCEPT ![r] = "planning"]
      /\ crew' = [crew EXCEPT ![r] = Range(Present)]
      /\ UNCHANGED <<overlapped, current, request>>
  BY DEF Plan, MoveTo
<1>2. Range(Present) \subseteq Agents
  BY PresentAgents DEF Range
<1>3. /\ ~Going(r)' /\ crew'[r] \subseteq Agents
      /\ \A s \in Runs \ {r} : (Going(s)' <=> Going(s)) /\ crew'[s] = crew[s]
  BY <1>1, <1>2 DEF IInv, Shapes, Going
<1>4. \A s \in Runs : Held(s)' /\ crew'[s] \subseteq Agents
  BY <1>1, <1>3 DEF FoundInv, Held
<1>5. \A s \in Runs : \A t \in Runs \ {s} : Apart(s, t)'
  BY <1>1, <1>3 DEF FoundInv, Apart
<1>6. \A q \in Callers : Found(q)'
  BY <1>1 DEF FoundInv, Found
<1> QED BY <1>4, <1>5, <1>6 DEF FoundInv

LEMMA AcceptFound ==
  ASSUME IInv, FoundInv, NEW r \in Runs, Accept(r)
  PROVE  FoundInv'
<1>1. ~Going(r) /\ UNCHANGED <<crew, request>>
  BY DEF Accept, LoopAt, Going
<1>2. CASE /\ current' = [a \in Agents |-> IF a \in crew[r] THEN r ELSE current[a]]
           /\ overlapped' = overlapped \cup Overlaps(r)
                \cup (IF Overlaps(r) = {} THEN {} ELSE {r})
           /\ MoveTo(r, "announcing")
  <2>1. /\ current' = [a \in Agents |-> IF a \in crew[r] THEN r ELSE current[a]]
        /\ overlapped' = overlapped \cup Overlaps(r)
             \cup (IF Overlaps(r) = {} THEN {} ELSE {r})
        /\ loop' = [loop EXCEPT ![r] = "announcing"]
    BY <1>2 DEF MoveTo
  <2>2. \A s \in Runs \ {r} : Going(s)' <=> Going(s)
    BY <2>1 DEF IInv, Shapes, Going
  <2>3. Overlaps(r) = {s \in Runs \ {r} : Going(s) /\ crew[s] \cap crew[r] # {}}
    BY <1>1 DEF Overlaps
  <2>4. ASSUME NEW s \in Runs, Going(s)', s \notin overlapped', NEW a \in crew[s]
        PROVE  current'[a] = s
    <3>1. a \in Agents
      BY DEF FoundInv
    <3>2. CASE s = r
      BY <2>1, <2>4, <3>1, <3>2
    <3>3. CASE s # r
      <4>1. Going(s) /\ s \notin overlapped /\ s \notin Overlaps(r)
        BY <2>1, <2>2, <2>4, <3>3
      <4>2. a \notin crew[r]
        BY <2>3, <3>3, <4>1
      <4> QED BY <2>1, <3>1, <4>1, <4>2 DEF FoundInv, Held
    <3> QED BY <3>2, <3>3
  <2>5. ASSUME NEW s \in Runs, NEW t \in Runs \ {s}, Going(s)', Going(t)',
               crew[s] \cap crew[t] # {}
        PROVE  s \in overlapped'
    <3>1. CASE s = r
      <4>1. t \in Overlaps(r)
        BY <2>2, <2>3, <2>5, <3>1
      <4> QED BY <2>1, <3>1, <4>1
    <3>2. CASE t = r
      BY <2>1, <2>2, <2>3, <2>5, <3>2
    <3>3. CASE s # r /\ t # r
      <4>1. Going(s) /\ Going(t)
        BY <2>2, <2>5, <3>3
      <4> QED BY <2>1, <2>5, <4>1 DEF FoundInv, Apart
    <3> QED BY <3>1, <3>2, <3>3
  <2>6. \A s \in Runs : Held(s)'
    BY <1>1, <2>4 DEF Held
  <2>7. \A s \in Runs : \A t \in Runs \ {s} : Apart(s, t)'
    BY <1>1, <2>5 DEF Apart
  <2>8. \A q \in Callers : Found(q)'
    BY <1>1 DEF FoundInv, Found
  <2> QED BY <1>1, <2>6, <2>7, <2>8 DEF FoundInv
<1>3. CASE MoveTo(r, "over") /\ UNCHANGED <<overlapped, current>>
  <2>1. loop' = [loop EXCEPT ![r] = "over"] /\ UNCHANGED <<overlapped, current>>
    BY <1>3 DEF MoveTo
  <2>2. \A s \in Runs : Going(s)' => Going(s)
    BY <2>1 DEF IInv, Shapes, Going, Over
  <2> QED BY <1>1, <2>1, <2>2, FoundRemains
<1> QED BY <1>2, <1>3 DEF Accept

\* The agents forget what is current for them: that is the run that ends, or
\* one that overlapped with it.
LEMMA EndFound ==
  ASSUME IInv, FoundInv, NEW r \in Runs, End(r)
  PROVE  FoundInv'
<1>1. UNCHANGED <<crew, overlapped, request>>
  BY DEF End, crewVars
<1>2. Going(r) /\ ~Going(r)' /\ \A s \in Runs \ {r} : Going(s)' <=> Going(s)
  <2>1. \E pc \in Over : loop' = [loop EXCEPT ![r] = pc]
    BY DEF End, MoveTo, Over
  <2> QED BY <2>1 DEF End, LoopAt, IInv, Shapes, Going, Over
<1>3. \A a \in Agents : a \notin crew[r] => current'[a] = current[a]
  BY DEF End
<1>4. ASSUME NEW s \in Runs, Going(s)', s \notin overlapped, NEW a \in crew[s]
      PROVE  current'[a] = s
  <2>1. s # r /\ Going(s) /\ a \in Agents
    BY <1>2, <1>4 DEF FoundInv
  <2>2. a \notin crew[r]
    BY <1>2, <1>4, <2>1 DEF FoundInv, Apart
  <2> QED BY <1>3, <1>4, <2>1, <2>2 DEF FoundInv, Held
<1>5. \A s \in Runs : Held(s)' /\ crew'[s] \subseteq Agents
  BY <1>1, <1>4 DEF FoundInv, Held
<1>6. \A s \in Runs : \A t \in Runs \ {s} : Apart(s, t)'
  BY <1>1, <1>2 DEF FoundInv, Apart
<1>7. \A q \in Callers : Found(q)'
  BY <1>1 DEF FoundInv, Found
<1> QED BY <1>5, <1>6, <1>7 DEF FoundInv

\* A request that looks at an agent finds what it has to wait for.
LEMMA RequestFound ==
  ASSUME IInv, FoundInv, NEW q \in Callers, RequestUnchanged,
         NEW next \in Request \cup {Returned}, request' = [request EXCEPT ![q] = next],
         next \in Request => next.owes \subseteq {next.waitsFor}
  PROVE  FoundInv'
<1>1. UNCHANGED <<crew, overlapped, current, loop>>
  BY DEF RequestUnchanged, runVars, crewVars, loopVars
<1>2. \A r \in Runs : Held(r)' /\ crew'[r] \subseteq Agents
  BY <1>1 DEF FoundInv, Held, Going
<1>3. \A r \in Runs : \A s \in Runs \ {r} : Apart(r, s)'
  BY <1>1 DEF FoundInv, Apart, Going
<1>4. ASSUME NEW p \in Callers
      PROVE  Found(p)'
  <2>1. request'[p] = IF p = q THEN next ELSE request[p]
    BY DEF IInv, Shapes
  <2>2. next \in Request \/ next.pc = "returned"
    BY IdleFacts
  <2> QED BY <2>1, <2>2 DEF FoundInv, Found
<1> QED BY <1>2, <1>3, <1>4 DEF FoundInv

LEMMA OwedIsCurrent ==
  ASSUME FoundInv, NEW a \in Agents
  PROVE  Owed(a) \subseteq {current[a]}
BY DEF FoundInv, Held, Owed

LEMMA CancelFound ==
  ASSUME IInv, FoundInv, NEW q \in Callers, NEW kind \in {"stop", "delete"}, NEW a \in Agents,
         Cancel(q, kind, a)
  PROVE  FoundInv'
<1> DEFINE next == [pc |-> IF process[a] = Nothing THEN WaitsFor(a) ELSE "killing",
                    kind |-> kind, agent |-> a, victim |-> process[a],
                    waitsFor |-> IF process[a] = Nothing THEN current[a] ELSE NoRun,
                    owes |-> IF process[a] = Nothing THEN Owed(a) ELSE {}]
<1>1. request' = [request EXCEPT ![q] = next] /\ RequestUnchanged
  BY DEF Cancel
<1>2. process[a] \in Nodes \cup {Nothing} /\ current[a] \in Runs \cup {NoRun}
  BY DEF IInv, Shapes
<1>3. next \in Request
  BY <1>2 DEF Request, WaitsFor, Owed
<1>4. next.owes \subseteq {next.waitsFor}
  BY OwedIsCurrent
<1> HIDE DEF next
<1> QED BY <1>1, <1>3, <1>4, RequestFound

LEMMA ContinuesFound ==
  ASSUME IInv, FoundInv, NEW q \in Callers, Continues(q)
  PROVE  FoundInv'
<1>1. request[q] \in Request
  BY RequestFacts DEF IInv, Continues, Killed, Awaited, Finish, RequestAt
<1>2. request[q].pc \in {"killing", "awaiting", "finishing"}
        /\ request[q].owes \subseteq {request[q].waitsFor}
  BY <1>1 DEF Request, FoundInv, Found
<1>3. CASE Killed(q)
  <2> DEFINE a == request[q].agent
             next == [request[q] EXCEPT !.pc = WaitsFor(a), !.waitsFor = current[a],
                                         !.owes = Owed(a)]
  <2>1. a \in Agents /\ current[a] \in Runs \cup {NoRun}
    BY <1>1 DEF Request, IInv, Shapes
  <2>2. request' = [request EXCEPT ![q] = next] /\ RequestUnchanged
    BY <1>3 DEF Killed
  <2>3. next \in Request
    BY <1>1, <2>1 DEF Request, WaitsFor, Owed
  <2>4. next.owes \subseteq {next.waitsFor}
    BY <1>1, <2>1, OwedIsCurrent DEF Request
  <2> HIDE DEF next
  <2> QED BY <2>2, <2>3, <2>4, RequestFound
<1>4. CASE Awaited(q)
  <2> DEFINE next == IF request[q].waitsFor \in thrown THEN Returned
                     ELSE [request[q] EXCEPT !.pc = "finishing"]
  <2>1. request' = [request EXCEPT ![q] = next] /\ RequestUnchanged
    BY <1>4 DEF Awaited
  <2>2. next \in Request \cup {Returned}
    BY <1>1 DEF Request
  <2>3. next \in Request => next.owes \subseteq {next.waitsFor}
    <3>1. CASE request[q].waitsFor \in thrown
      BY <3>1, IdleFacts DEF Request
    <3>2. CASE request[q].waitsFor \notin thrown
      BY <1>1, <1>2, <3>2 DEF Request
    <3> QED BY <3>1, <3>2
  <2> HIDE DEF next
  <2> QED BY <2>1, <2>2, <2>3, RequestFound
<1>5. CASE Finish(q)
  <2>1. request' = [request EXCEPT ![q] = Returned] /\ RequestUnchanged
    BY <1>5 DEF Finish
  <2>2. Returned \notin Request
    BY IdleFacts DEF Request
  <2> QED BY <2>1, <2>2, RequestFound
<1> QED BY <1>3, <1>4, <1>5 DEF Continues

LEMMA RestartFound ==
  ASSUME IInv, FoundInv, Restart
  PROVE  FoundInv'
<1>1. /\ UNCHANGED <<crew, overlapped>>
      /\ loop' = [r \in Runs |-> IF loop[r] = "none" THEN "none" ELSE "over"]
      /\ request' = [q \in Callers |-> IF request[q] = Idle THEN Idle ELSE Returned]
  BY DEF Restart, crewVars
<1>2. \A r \in Runs : ~Going(r)'
  BY <1>1 DEF Going, Over
<1>3. \A q \in Callers : request'[q].pc \in {"idle", "returned"}
  BY <1>1, IdleFacts
<1>4. \A r \in Runs : Held(r)' /\ crew'[r] \subseteq Agents
  BY <1>1, <1>2 DEF FoundInv, Held
<1>5. \A r \in Runs : \A s \in Runs \ {r} : Apart(r, s)'
  BY <1>2 DEF Apart
<1>6. \A q \in Callers : Found(q)'
  BY <1>3 DEF Found
<1> QED BY <1>4, <1>5, <1>6 DEF FoundInv

LEMMA StepFound ==
  ASSUME IInv, FoundInv, [Next]_vars
  PROVE  FoundInv'
<1>1. ASSUME NEW r \in Runs, Begin(r) \/ StartLayer(r) \/ Skip(r) \/ LeaveLoop(r) \/ LayerEnds(r)
                               \/ Conclude(r) \/ Abort(r)
      PROVE  FoundInv'
  <2>1. UNCHANGED <<crew, overlapped, current, request>>
    BY <1>1 DEF Begin, StartLayer, Skip, LeaveLoop, LayerEnds, Conclude, Abort, runVars, crewVars
  <2>2. Going(r) /\ (UNCHANGED loop \/ \E pc : loop' = [loop EXCEPT ![r] = pc])
    BY <1>1 DEF Begin, StartLayer, Skip, LeaveLoop, LayerEnds, Conclude, Abort, LoopAt, MoveTo,
                Going, Over
  <2>3. \A s \in Runs : Going(s)' => Going(s)
    BY <2>2 DEF IInv, Shapes, Going
  <2> QED BY <2>1, <2>3, FoundRemains
<1>2. ASSUME NEW n \in Nodes, Execution(n)
      PROVE  FoundInv'
  <2>1. UNCHANGED <<crew, overlapped, current, request, loop>>
    BY <1>2 DEF Execution, Begins, ProcessEnds, Record, Fail, TaskUnchanged, crewVars, loopVars
  <2> QED BY <2>1, FoundRemains DEF Going
<1>3. ASSUME NEW a \in Agents, Start(a)
      PROVE  FoundInv'
  <2>1. UNCHANGED <<crew, overlapped, current, request, loop>>
    BY <1>3 DEF Start, RequestUnchanged, runVars, crewVars, loopVars
  <2> QED BY <2>1, FoundRemains DEF Going
<1>4. CASE UNCHANGED vars
  <2>1. UNCHANGED <<crew, overlapped, current, request, loop>>
    BY <1>4 DEF vars, runVars, crewVars, loopVars
  <2> QED BY <2>1, FoundRemains DEF Going
<1> QED BY <1>1, <1>2, <1>3, <1>4, PlanFound, AcceptFound, EndFound, CancelFound, ContinuesFound,
           RestartFound DEF Next, Orchestration

-----------------------------------------------------------------------------
(* The theorems.                                                           *)

\* The inductive invariant holds of every execution: of each team run, what its
\* loop, its tasks, its blackboard and its evidence say agrees.
THEOREM Inductive == Spec => []IInv
<1>1. Init => IInv
  BY InitInv
<1>2. IInv /\ [Next]_vars => IInv'
  BY StepInv
<1> QED BY <1>1, <1>2, PTL DEF Spec

\* The type invariant holds of every execution: the graph that is planned for a
\* message is one of tasks for agents of the team, whatever the model proposes
\* and whoever was deleted.
THEOREM TypeCorrect == Spec => []TypeOK
<1>1. Init => TypeInv
  BY InitTypes
<1>2. IInv /\ TypeInv /\ [Next]_vars => TypeInv'
  BY StepTypes
<1>3. IInv /\ TypeInv => TypeOK
  BY TypesHold
<1> QED BY <1>1, <1>2, <1>3, Inductive, PTL DEF Spec

\* Every graph that is executed can be: no task waits for one that is not in the
\* plan, and none waits, over others, for itself.
THEOREM PlansCanBeExecuted == Spec => []PlansAreRunnable
<1>1. Init => PlansAreRunnable
  BY InitRunnable
<1>2. IInv /\ PlansAreRunnable /\ [Next]_vars => PlansAreRunnable'
  BY StepRunnable
<1> QED BY <1>1, <1>2, Inductive, PTL DEF Spec

\* A task that was launched had all that it depends on, completed for good and
\* read from the blackboard: nothing that fails later, and no stop or restart,
\* takes an input away that a task was given.
THEOREM LaunchedWithInputs == Spec => []InputsAreComplete
<1>1. IInv => InputsAreComplete
  <2> SUFFICES ASSUME IInv, NEW r \in Runs, NEW i \in Launched(r)
               PROVE  /\ DependsOn(graph[r], i) \subseteq TasksThatAre(r, "completed")
                      /\ DependsOn(graph[r], i) \ Silent \subseteq context[<<r, i>>]
    BY DEF InputsAreComplete
  <2> QED BY DEF IInv, RunInv, Fed, TasksThatAre
<1> QED BY <1>1, Inductive, PTL

\* A team run that is called completed has completed all its tasks and has the
\* evidence of each; the ordinary run is called completed only with it.
THEOREM CompletedIsWitnessed == Spec => []CompletionIsWitnessed
<1>1. IInv => CompletionIsWitnessed
  BY DEF IInv, RunInv, Complete, CompletionIsWitnessed
<1> QED BY <1>1, Inductive, PTL

\* Where every write succeeds a team run is called failed only if one of its tasks
\* failed, or if the loop has fewer iterations than the graph has layers: tasks
\* that are never ready, or are lost in between, are no reason.
THEOREM FailuresAreOfTasks == Spec => []FailuresHaveATask
<1>1. Init => \A r \in Runs : Progress(r)
  BY InitProgress
<1>2. IInv /\ TypeInv /\ (\A r \in Runs : Progress(r)) /\ [Next]_vars
        => (\A r \in Runs : Progress(r))'
  BY StepProgress DEF LayersInv
<1>3. (\A r \in Runs : Progress(r)) => FailuresHaveATask
  BY DEF Progress, Failed, FailuresHaveATask
<1>4. Init => TypeInv
  BY InitTypes
<1>5. IInv /\ TypeInv /\ [Next]_vars => TypeInv'
  BY StepTypes
<1> QED BY <1>1, <1>2, <1>3, <1>4, <1>5, Inductive, PTL DEF Spec

\* Where every write succeeds and a plan has no more tasks than the loop has
\* iterations, a team run is called failed only if one of its tasks failed: the
\* limit on the iterations is then never the reason, and no task is left behind.
THEOREM ShortPlansFailByTasks ==
  ASSUME MaxTasks <= MaxIterations
  PROVE  Spec => [](\A r \in Runs :
           teamRun[r] = "failed" /\ faults = 0 => TasksThatAre(r, "failed") # {})
<1> DEFINE Blamed == \A r \in Runs :
             teamRun[r] = "failed" /\ faults = 0 => TasksThatAre(r, "failed") # {}
<1>1. PlansAreRunnable /\ TypeInv /\ FailuresHaveATask => Blamed
  <2> SUFFICES ASSUME PlansAreRunnable, TypeInv, FailuresHaveATask, NEW r \in Runs,
                      teamRun[r] = "failed", faults = 0
               PROVE  TasksThatAre(r, "failed") # {}
    OBVIOUS
  <2>1. IsGraph(graph[r]) /\ Closed(graph[r]) /\ Runnable(graph[r])
    BY DEF PlansAreRunnable, Closed, TypeInv, Planned
  <2>2. Layers(graph[r])[MaxIterations] = Ids(graph[r])
    BY <2>1, ShortPlansEnd
  <2> QED BY <2>2 DEF FailuresHaveATask
<1>2. Init => TypeInv
  BY InitTypes
<1>3. IInv /\ TypeInv /\ [Next]_vars => TypeInv'
  BY StepTypes
<1> QED BY <1>1, <1>2, <1>3, Inductive, PlansCanBeExecuted, FailuresAreOfTasks, PTL DEF Spec

\* A stop or a delete that succeeds has waited for every team run that was going
\* on with its agent when it looked: the run is over, with no task in progress and
\* no credential left, on any agent of the team.  What is owed does not depend on
\* what the request found; that it found all of it is the invariant on the way.
\* Runs that overlapped are not owed: there End makes a stop find nothing.
THEOREM StopsWaitForTheTeam == Spec => StopWaitsForTheTeam
<1>1. Init => FoundInv
  <2> SUFFICES ASSUME Init
               PROVE  FoundInv
    OBVIOUS
  <2>1. \A r \in Runs : ~Going(r) /\ crew[r] = {}
    BY DEF Init, Going
  <2>2. \A q \in Callers : request[q].pc = "idle"
    BY IdleFacts DEF Init
  <2> QED BY <2>1, <2>2 DEF FoundInv, Held, Apart, Found
<1>2. IInv /\ FoundInv /\ [Next]_vars => FoundInv'
  BY StepFound
<1>3. ASSUME IInv, FoundInv, NEW q \in Callers, Finish(q), NEW r \in request[q].owes
      PROVE  /\ loop[r] \in Over
             /\ \A n \in Nodes : n[1] = r => node[n] = "none" /\ n \notin credential
  <2>1. request[q] \in Request /\ request[q].pc = "finishing"
    BY <1>3, RequestFacts DEF IInv, Finish, RequestAt
  <2>2. r \in Runs /\ r = request[q].waitsFor
    BY <1>3, <2>1 DEF FoundInv, Found, Request
  <2>3. loop[r] \in Over /\ r \notin thrown
    BY <1>3, <2>1, <2>2 DEF IInv, HasWaited
  <2>4. Quiet(r) /\ Identified(r)
    BY <1>3, <2>2, <2>3 DEF IInv, RunInv, Settles, Over
  <2> QED BY <2>2, <2>3, <2>4, NodeFacts DEF Quiet, Identified
<1>4. IInv /\ FoundInv => \A q \in Callers : Finish(q) =>
        \A r \in request[q].owes :
          /\ loop[r] \in Over
          /\ \A n \in Nodes : n[1] = r => node[n] = "none" /\ n \notin credential
  BY <1>3
<1> QED BY <1>1, <1>2, <1>4, Inductive, PTL DEF Spec, StopWaitsForTheTeam
=============================================================================
