------------------------------ MODULE TeamRuns ------------------------------
(***************************************************************************)
(* A message to an agent of a team: AgentService.sendTeamMessage, the loop *)
(* of TeamDAGRunner over the graph of TeamPlan, and the tasks it runs side *)
(* by side through the MiddlewareRunner and the runner that owns the       *)
(* processes; stop, start and delete requests, and restarts.               *)
(*                                                                         *)
(* The loop, every task and every request are asynchronous functions; each *)
(* stretch between two yields is an action, and writes that follow each    *)
(* other with the same way out if they fail are one.  An action whose      *)
(* write may fail has an alternative that counts a fault.  Outputs,        *)
(* threads and messages are left out, what a task adds to the blackboard   *)
(* is the task itself.                                                     *)
(***************************************************************************)
EXTENDS TeamPlan

CONSTANTS
  Team,           \* the agents of the team, in the order of their grants
  Owner,          \* the human an agent of the team belongs to
  MaxRuns,        \* bound on the messages ever sent
  MaxTasks,       \* bound on the tasks of a graph
  MaxWork,        \* bound on the tasks of all graphs
  MaxIterations,  \* maxIterations: 50 in the code
  Messages,       \* what a run may be asked: a prompt and the model's proposal
  Silent,         \* tasks whose output holds nothing for the blackboard
  Callers,        \* of a stop or delete request, one each
  MaxFaults,      \* bound on failed writes
  MaxRestarts     \* bound on restarts

Runs == 1 .. MaxRuns
TaskIds == 1 .. MaxTasks
Agents == Range(Team)
NoRun == 0
Nothing == <<NoRun, 0>>
Nodes == Runs \X TaskIds

ASSUME TeamRunsAssumption ==
  /\ MaxRuns \in Nat /\ MaxTasks \in Nat /\ MaxWork \in Nat /\ MaxIterations \in Nat
  /\ MaxFaults \in Nat /\ MaxRestarts \in Nat
  /\ Team \in Seq(Agents) /\ DOMAIN Owner = Agents
  /\ MaxTasks > 2 /\ (MaxTasks > 3 \/ MaxTasks > Len(Team))
  /\ \A r \in Runs : \A m \in Messages[r] :
       /\ m.proposal \in Seq(Range(m.proposal))
       /\ \A k \in DOMAIN m.proposal :
            /\ m.proposal[k] =
                 Task(m.proposal[k].id, m.proposal[k].agent, m.proposal[k].dependsOn)
            /\ m.proposal[k].id \in TaskIds
            /\ m.proposal[k].dependsOn \subseteq TaskIds
       /\ m.prompt.kind = "countdown" =>
            m.prompt.start \in Nat /\ m.prompt.end \in Nat
              /\ m.prompt.start - m.prompt.end < MaxTasks

VARIABLES
  graph,       \* of a team run, <<>> before it is planned
  task,        \* status of its tasks
  teamRun,     \* status of the team run
  run,         \* status of the run of the same id among the ordinary runs
  crew,        \* the agents it was planned for
  owner,       \* who sent the message
  overlapped,  \* accepted while another one with an agent of its crew was going on,
               \* or going on when such a one was accepted
  loop,        \* where sendTeamMessage, executeTeamRun and what follows stand
  iteration,
  thrown,      \* team runs that ended with an exception
  node,        \* where executeTaskNode stands
  board,       \* the tasks that published to the blackboard of the run
  context,     \* what was on it when a task was started
  evidence,    \* tasks with a record that they completed
  status,      \* of an agent
  process,     \* the task whose process the runner has for an agent
  killed,      \* tasks whose process was cancelled
  credential,  \* tasks whose run identity is live
  current,     \* activeExecutions
  request,     \* the stop and delete requests in progress
  down,        \* the server has stopped
  faults, restarts

crewVars == <<crew, owner, overlapped>>
runVars == <<graph, task, teamRun, run, crewVars>>
loopVars == <<loop, iteration, thrown>>
taskVars == <<board, context, evidence>>
runnerVars == <<process, killed, credential>>
bounds == <<faults, restarts>>
vars == <<runVars, loopVars, node, taskVars, status, runnerVars, current, request, down, bounds>>

Active == {"queued", "running"}

Humans == {Owner[a] : a \in Agents}

Idle == [pc |-> "idle"]
Returned == [pc |-> "returned"]

\* owes is what a request has to wait for, whatever it does wait for.
Request ==
  [pc : {"killing", "awaiting", "finishing"}, kind : {"stop", "delete"}, agent : Agents,
   victim : Nodes \cup {Nothing}, waitsFor : Runs \cup {NoRun}, owes : SUBSET Runs]

Over == {"over", "lost"}

TypeOK ==
  /\ \A r \in Runs :
       /\ \A k \in DOMAIN graph[r] :
            graph[r][k] \in [id : TaskIds, agent : Agents, dependsOn : SUBSET TaskIds]
       /\ \A i \in TaskIds : task[r][i] = "none" <=> i \notin Ids(graph[r])
  /\ task \in [Runs -> [TaskIds -> {"none", "pending", "running", "completed", "failed",
                                    "skipped"}]]
  /\ teamRun \in [Runs -> {"none", "completed", "failed"} \cup Active]
  /\ run \in [Runs -> {"none", "completed", "failed", "cancelled"} \cup Active]
  /\ crew \in [Runs -> SUBSET Agents]
  /\ \A r \in Runs : loop[r] # "none" => owner[r] \in Humans
  /\ overlapped \subseteq Runs
  /\ loop \in [Runs -> {"none", "planning", "announcing", "looping", "waiting", "concluding",
                        "aborting", "ending"} \cup Over]
  /\ iteration \in [Runs -> 0 .. MaxIterations]
  /\ thrown \subseteq Runs
  /\ node \in [Nodes -> {"none", "missing", "starting", "spawned", "succeeded", "failing",
                         "rejected"}]
  /\ board \in [Runs -> SUBSET TaskIds]
  /\ context \in [Nodes -> SUBSET TaskIds]
  /\ evidence \subseteq Nodes
  /\ status \in [Agents -> {"ready", "busy", "stopped", "error", "deleted"}]
  /\ process \in [Agents -> Nodes \cup {Nothing}]
  /\ killed \subseteq Nodes
  /\ credential \subseteq Nodes
  /\ current \in [Agents -> Runs \cup {NoRun}]
  /\ request \in [Callers -> Request \cup {Idle, Returned}]
  /\ down \in BOOLEAN
  /\ faults \in 0 .. MaxFaults
  /\ restarts \in 0 .. MaxRestarts

Init ==
  /\ graph = [r \in Runs |-> <<>>]
  /\ task = [r \in Runs |-> [i \in TaskIds |-> "none"]]
  /\ teamRun = [r \in Runs |-> "none"]
  /\ run = [r \in Runs |-> "none"]
  /\ crew = [r \in Runs |-> {}]
  /\ owner = [r \in Runs |-> NoRun]
  /\ overlapped = {}
  /\ loop = [r \in Runs |-> "none"]
  /\ iteration = [r \in Runs |-> 0]
  /\ thrown = {}
  /\ node = [n \in Nodes |-> "none"]
  /\ board = [r \in Runs |-> {}]
  /\ context = [n \in Nodes |-> {}]
  /\ evidence = {}
  /\ status = [a \in Agents |-> "ready"]
  /\ process = [a \in Agents |-> Nothing]
  /\ killed = {}
  /\ credential = {}
  /\ current = [a \in Agents |-> NoRun]
  /\ request = [q \in Callers |-> Idle]
  /\ down = FALSE
  /\ faults = 0
  /\ restarts = 0

Works == UNCHANGED bounds

Faulty == faults < MaxFaults /\ faults' = faults + 1 /\ UNCHANGED restarts

\* A server that is down does nothing.
LoopAt(r, pc) == ~down /\ loop[r] = pc

NodeAt(n, pcs) == ~down /\ node[n] \in pcs

RequestAt(q, pc) == ~down /\ request[q].pc = pc

MoveTo(r, pc) == loop' = [loop EXCEPT ![r] = pc]

Goto(n, pc) == node' = [node EXCEPT ![n] = pc]

AgentOf(n) == (CHOOSE t \in Range(graph[n[1]]) : t.id = n[2]).agent

SetTasks(r, ids, word) ==
  task' = [task EXCEPT ![r] = [i \in TaskIds |-> IF i \in ids THEN word ELSE @[i]]]

TasksThatAre(r, word) == {i \in TaskIds : task[r][i] = word}

-----------------------------------------------------------------------------
(* sendTeamMessage.                                                        *)

\* The agents of the team that were not deleted, in its order.
Present ==
  LET UpTo[k \in 0 .. Len(Team)] ==
        IF k = 0 THEN <<>>
        ELSE IF status[Team[k]] = "deleted" THEN UpTo[k - 1]
        ELSE Append(UpTo[k - 1], Team[k])
  IN  UpTo[Len(Team)]

Work == {n \in Nodes : task[n[1]][n[2]] # "none"}

\* The message is to an agent of its sender; the others of the team are not
\* asked whose they are.  The model provider is waited for, on what the store
\* held before.
Plan(r, m, trigger) ==
  LET g == PlanTaskGraph(m.proposal, m.prompt, Present)
  IN  /\ ~down
      /\ loop[r] = "none"
      /\ \A s \in Runs : s < r => loop[s] # "none"
      /\ trigger \in Range(Present)
      /\ Len(Present) > 1
      /\ Cardinality(Work) + Len(g) <= MaxWork
      /\ graph' = [graph EXCEPT ![r] = g]
      /\ task' = [task EXCEPT ![r] = [i \in TaskIds |-> IF i \in Ids(g) THEN "pending" ELSE @[i]]]
      /\ crew' = [crew EXCEPT ![r] = Range(Present)]
      /\ owner' = [owner EXCEPT ![r] = Owner[trigger]]
      /\ MoveTo(r, "planning")
      /\ UNCHANGED <<teamRun, run, overlapped, iteration, thrown, node, taskVars, status,
                     runnerVars, current, request, down, bounds>>

\* A run that was accepted and is not over.
Going(r) == loop[r] \notin {"none", "planning"} \cup Over

Overlaps(r) == {s \in Runs : Going(s) /\ crew[s] \cap crew[r] # {}}

\* Nobody is asked whether he is busy, stopped or still there; a stopped agent
\* only keeps its status, and what is current for an agent is replaced.
Accept(r) ==
  /\ LoopAt(r, "planning")
  /\ \/ /\ Works
        /\ teamRun' = [teamRun EXCEPT ![r] = "queued"]
        /\ run' = [run EXCEPT ![r] = "queued"]
        /\ status' = [a \in Agents |->
             IF a \in crew[r] /\ status[a] \notin {"stopped", "deleted"} THEN "busy"
             ELSE status[a]]
        /\ current' = [a \in Agents |-> IF a \in crew[r] THEN r ELSE current[a]]
        /\ overlapped' = overlapped \cup Overlaps(r)
             \cup (IF Overlaps(r) = {} THEN {} ELSE {r})
        /\ MoveTo(r, "announcing")
     \/ /\ Faulty
        /\ MoveTo(r, "over")
        /\ UNCHANGED <<teamRun, run, status, current, overlapped>>
  /\ UNCHANGED <<graph, task, crew, owner, iteration, thrown, node, taskVars, runnerVars,
                 request, down>>

-----------------------------------------------------------------------------
(* executeTeamRun and runGraphLoop.                                        *)

\* The first two writes are outside the try: nothing is marked failed.
Begin(r) ==
  /\ LoopAt(r, "announcing")
  /\ \/ /\ Works
        /\ teamRun' = [teamRun EXCEPT ![r] = "running"]
        /\ run' = [run EXCEPT ![r] = "running"]
        /\ MoveTo(r, "looping")
        /\ UNCHANGED thrown
     \/ /\ Faulty
        /\ thrown' = thrown \cup {r}
        /\ MoveTo(r, "ending")
        /\ UNCHANGED <<teamRun, run>>
  /\ UNCHANGED <<graph, task, crewVars, iteration, node, taskVars, status, runnerVars, current,
                 request, down>>

\* Variant: one completed dependency is enough.
ReadyAfterOne(r) ==
  {i \in TasksThatAre(r, "pending") :
     LET deps == DependsOn(graph[r], i)
     IN  deps = {} \/ deps \cap TasksThatAre(r, "completed") # {}}

Ready(r) ==
  {i \in TasksThatAre(r, "pending") :
     DependsOn(graph[r], i) \subseteq TasksThatAre(r, "completed")}

Unrunnable(r) ==
  {i \in TasksThatAre(r, "pending") :
     DependsOn(graph[r], i) \cap TasksThatAre(r, "failed") # {}}

\* Variants: the loop makes one iteration more, or one less.
GoesOnOnce(r) == iteration[r] <= MaxIterations

GoesOnBefore(r) == iteration[r] + 1 < MaxIterations

GoesOn(r) == iteration[r] < MaxIterations

Counts(r) == iteration' = [iteration EXCEPT ![r] = @ + 1]

\* All the ready tasks are marked, then started: each finds its agent and
\* reads the blackboard at once.
StartLayer(r) ==
  LET ready == Ready(r)
      launched == {<<r, i>> : i \in ready}
  IN  /\ LoopAt(r, "looping")
      /\ GoesOn(r)
      /\ ready # {}
      /\ Counts(r)
      /\ \/ /\ Works
            /\ SetTasks(r, ready, "running")
            /\ node' = [n \in Nodes |->
                 IF n \notin launched THEN node[n]
                 ELSE IF status[AgentOf(n)] = "deleted" THEN "missing" ELSE "starting"]
            /\ context' = [n \in Nodes |-> IF n \in launched THEN board[r] ELSE context[n]]
            /\ MoveTo(r, "waiting")
         \/ /\ Faulty
            /\ MoveTo(r, "aborting")
            /\ UNCHANGED <<task, node, context>>
      /\ UNCHANGED <<graph, teamRun, run, crewVars, thrown, board, evidence, status, runnerVars,
                     current, request, down>>

Skip(r) ==
  /\ LoopAt(r, "looping")
  /\ GoesOn(r)
  /\ Ready(r) = {}
  /\ Unrunnable(r) # {}
  /\ Counts(r)
  /\ \/ Works /\ SetTasks(r, Unrunnable(r), "skipped") /\ UNCHANGED loop
     \/ Faulty /\ MoveTo(r, "aborting") /\ UNCHANGED task
  /\ UNCHANGED <<graph, teamRun, run, crewVars, thrown, node, taskVars, status, runnerVars, current,
                 request, down>>

\* Nothing to start and nothing to skip, or too many iterations.
LeaveLoop(r) ==
  /\ LoopAt(r, "looping")
  /\ GoesOn(r) => Ready(r) = {} /\ Unrunnable(r) = {}
  /\ MoveTo(r, "concluding")
  /\ UNCHANGED <<runVars, iteration, thrown, node, taskVars, status, runnerVars, current,
                 request, down, bounds>>

\* Variant: the layer is over when the first of its tasks is.
SomeSettled(r) == \E i \in TaskIds : task[r][i] # "pending" /\ node[<<r, i>>] = "none"

AllSettled(r) == \A i \in TaskIds : node[<<r, i>>] = "none"

\* Variant: the layer waits for tasks that will never settle.
LayerWaits(r) ==
  /\ LoopAt(r, "waiting")
  /\ AllSettled(r)
  /\ MoveTo(r, "looping")
  /\ UNCHANGED <<runVars, iteration, thrown, node, taskVars, status, runnerVars, current,
                 request, down, bounds>>

\* Promise.all: one rejected task is enough, and the others are left running.
LayerEnds(r) ==
  /\ LoopAt(r, "waiting")
  /\ \/ /\ AllSettled(r)
        /\ MoveTo(r, "looping")
     \/ /\ \E i \in TaskIds : node[<<r, i>>] = "rejected"
        /\ MoveTo(r, "aborting")
  /\ UNCHANGED <<runVars, iteration, thrown, node, taskVars, status, runnerVars, current,
                 request, down, bounds>>

AllSucceeded(r) == TasksThatAre(r, "completed") = Ids(graph[r])

\* The status is written, then the evidence; if that fails the run is aborted
\* after all.
Conclude(r) ==
  LET word == IF AllSucceeded(r) THEN "completed" ELSE "failed"
  IN  /\ LoopAt(r, "concluding")
      /\ \/ /\ Works
            /\ teamRun' = [teamRun EXCEPT ![r] = word]
            /\ MoveTo(r, "ending")
         \/ /\ Faulty
            /\ teamRun' \in {teamRun, [teamRun EXCEPT ![r] = word]}
            /\ MoveTo(r, "aborting")
      /\ UNCHANGED <<graph, task, run, crewVars, iteration, thrown, node, taskVars, status,
                     runnerVars, current, request, down>>

\* What made the run be aborted may make this write fail as well.
Abort(r) ==
  /\ LoopAt(r, "aborting")
  /\ teamRun' \in {teamRun, [teamRun EXCEPT ![r] = "failed"]}
  /\ Works
  /\ thrown' = thrown \cup {r}
  /\ MoveTo(r, "ending")
  /\ UNCHANGED <<graph, task, run, crewVars, iteration, node, taskVars, status, runnerVars, current,
                 request, down>>

\* activeExecutions holds a promise of its own for every agent of the team; one
\* that is rejected while no request waits for it ends the server.
Unhandled(r) ==
  \E a \in crew[r] : \A q \in Callers :
    ~(request[q].pc = "awaiting" /\ request[q].agent = a /\ request[q].waitsFor = r)

\* The finally of sendTeamMessage: the agents of the team forget whatever
\* execution is current for them.
End(r) ==
  LET complete == teamRun[r] = "completed"
  IN  /\ LoopAt(r, "ending")
      /\ \/ /\ Works
            /\ run' = [run EXCEPT ![r] = IF complete THEN "completed" ELSE "failed"]
            /\ status' = [a \in Agents |->
                 IF a \in crew[r] /\ status[a] = "busy"
                 THEN IF complete THEN "ready" ELSE "error"
                 ELSE status[a]]
            /\ current' = [a \in Agents |-> IF a \in crew[r] THEN NoRun ELSE current[a]]
            /\ down' = (r \in thrown /\ Unhandled(r))
            /\ MoveTo(r, "over")
            /\ UNCHANGED thrown
         \/ /\ Faulty
            /\ thrown' = thrown \cup {r}
            /\ down' = Unhandled(r)
            /\ MoveTo(r, "lost")
            /\ UNCHANGED <<run, status, current>>
      /\ UNCHANGED <<graph, task, teamRun, crewVars, iteration, node, taskVars, runnerVars,
                     request>>

Orchestration(r) ==
  Begin(r) \/ StartLayer(r) \/ Skip(r) \/ LeaveLoop(r) \/ LayerEnds(r) \/ Conclude(r)
    \/ Abort(r) \/ End(r)

-----------------------------------------------------------------------------
(* executeTaskNode, with MiddlewareRunner.run and CodexRunner.run inside.  *)

TaskUnchanged == UNCHANGED <<graph, teamRun, run, crewVars, loopVars, context, status, current,
                             request, down>>

IsFree(a) == process[a] = Nothing

\* The evidence of the start is outside the try: its failure rejects the task
\* and with it the layer.  Then the run identity is issued, its evidence is
\* written, and the process started unless the agent has one.
Begins(n) ==
  LET a == AgentOf(n)
  IN  /\ NodeAt(n, {"starting"})
      /\ \/ /\ Works
            /\ IsFree(a)
            /\ process' = [process EXCEPT ![a] = n]
            /\ credential' = credential \cup {n}
            /\ Goto(n, "spawned")
         \/ /\ Works
            /\ ~IsFree(a)
            /\ credential' = credential \cup {n}
            /\ Goto(n, "failing")
            /\ UNCHANGED process
         \/ /\ Faulty
            /\ Goto(n, "rejected")
            /\ UNCHANGED <<process, credential>>
         \/ /\ Faulty
            /\ credential' = credential \cup {n}
            /\ Goto(n, "failing")
            /\ UNCHANGED process
      /\ UNCHANGED <<task, board, evidence, killed>>
      /\ TaskUnchanged

\* Variant: the runner keeps a process that has ended.
Keeps(a) == UNCHANGED process

Releases(a) == process' = [process EXCEPT ![a] = Nothing]

\* The process exits, is cancelled, times out or exceeds its output.  The agent
\* may have another one before anything is written of the outcome.
ProcessEnds(n) ==
  /\ NodeAt(n, {"spawned"})
  /\ \/ n \notin killed /\ Goto(n, "succeeded")
     \/ Goto(n, "failing")
  /\ Releases(AgentOf(n))
  /\ killed' = killed \ {n}
  /\ UNCHANGED <<task, board, evidence, credential, bounds>>
  /\ TaskUnchanged

\* The code blocks, or else the specifications, found in the output of a task.
Published(i) == {i} \ Silent

\* What a completed task writes: its status, and what it publishes.
Completes(n) ==
  /\ SetTasks(n[1], {n[2]}, "completed")
  /\ board' = [board EXCEPT ![n[1]] = @ \cup Published(n[2])]

\* Variant: a task whose completion cannot be written to the evidence is left
\* as completed.
RecordLightly(n) ==
  /\ NodeAt(n, {"succeeded"})
  /\ credential' = credential \ {n}
  /\ Completes(n)
  /\ Goto(n, "none")
  /\ \/ Works /\ evidence' = evidence \cup {n}
     \/ Faulty /\ UNCHANGED evidence
  /\ UNCHANGED <<process, killed>>
  /\ TaskUnchanged

\* The end of the run is written to the evidence and the credential revoked,
\* then the completed task is written with what it publishes, then evidence of
\* both.  Whatever fails, the task fails, even if it was completed by then.
Record(n) ==
  /\ NodeAt(n, {"succeeded"})
  /\ credential' = credential \ {n}
  /\ \/ /\ Works
        /\ Completes(n)
        /\ evidence' = evidence \cup {n}
        /\ Goto(n, "none")
     \/ /\ Faulty
        /\ Completes(n)
        /\ evidence' = IF n[2] \in Silent THEN evidence ELSE evidence \cup {n}
        /\ Goto(n, "failing")
     \/ /\ Faulty
        /\ Completes(n)
        /\ Goto(n, "failing")
        /\ UNCHANGED evidence
     \/ /\ Faulty
        /\ Goto(n, "failing")
        /\ UNCHANGED <<task, board, evidence>>
  /\ UNCHANGED <<process, killed>>
  /\ TaskUnchanged

\* markTaskFailed and, but for a missing agent, its evidence.
Fail(n) ==
  /\ NodeAt(n, {"failing", "missing"})
  /\ \/ /\ Works
        /\ SetTasks(n[1], {n[2]}, "failed")
        /\ Goto(n, "none")
     \/ /\ Faulty
        /\ node[n] = "failing"
        /\ SetTasks(n[1], {n[2]}, "failed")
        /\ Goto(n, "rejected")
     \/ /\ Faulty
        /\ Goto(n, "rejected")
        /\ UNCHANGED task
  /\ credential' = credential \ {n}
  /\ UNCHANGED <<board, evidence, process, killed>>
  /\ TaskUnchanged

Execution(n) == Begins(n) \/ ProcessEnds(n) \/ Record(n) \/ Fail(n)

-----------------------------------------------------------------------------
(* Requests of the owner, and restarts.                                    *)

RequestUnchanged ==
  UNCHANGED <<runVars, loopVars, node, taskVars, process, credential, current, down>>

WaitsFor(a) == IF current[a] = NoRun THEN "finishing" ELSE "awaiting"

\* What is going on with the agent, but for runs that overlapped.
Owed(a) == {r \in Runs \ overlapped : Going(r) /\ a \in crew[r]}

\* cancelExecution: the process of the agent, if it has one, is told to end;
\* then the execution that is current is waited for: the whole team run.
\* Tasks are not asked whether they are wanted any longer.
Cancel(q, kind, a) ==
  LET victim == process[a]
  IN  /\ ~down
      /\ request[q] = Idle
      /\ status[a] # "deleted"
      /\ killed' = IF victim = Nothing THEN killed ELSE killed \cup {victim}
      /\ request' = [request EXCEPT ![q] =
           [pc |-> IF victim = Nothing THEN WaitsFor(a) ELSE "killing",
            kind |-> kind, agent |-> a, victim |-> victim,
            waitsFor |-> IF victim = Nothing THEN current[a] ELSE NoRun,
            owes |-> IF victim = Nothing THEN Owed(a) ELSE {}]]
      /\ UNCHANGED <<status, bounds>>
      /\ RequestUnchanged

Killed(q) ==
  LET a == request[q].agent
  IN  /\ RequestAt(q, "killing")
      /\ process[a] # request[q].victim
      /\ request' = [request EXCEPT ![q].pc = WaitsFor(a), ![q].waitsFor = current[a],
                                    ![q].owes = Owed(a)]
      /\ UNCHANGED <<status, killed, bounds>>
      /\ RequestUnchanged

\* If the run ended with an exception the request ends with it.
Awaited(q) ==
  /\ RequestAt(q, "awaiting")
  /\ loop[request[q].waitsFor] \in Over
  /\ request' = [request EXCEPT ![q] =
       IF request[q].waitsFor \in thrown THEN Returned
       ELSE [@ EXCEPT !.pc = "finishing"]]
  /\ UNCHANGED <<status, killed, bounds>>
  /\ RequestUnchanged

Finish(q) ==
  LET a == request[q].agent
  IN  /\ RequestAt(q, "finishing")
      /\ \/ /\ Works
            /\ status' = [status EXCEPT ![a] =
                 IF @ = "deleted" \/ request[q].kind = "delete" THEN "deleted" ELSE "stopped"]
         \/ /\ Faulty
            /\ UNCHANGED status
      /\ request' = [request EXCEPT ![q] = Returned]
      /\ UNCHANGED killed
      /\ RequestUnchanged

Start(a) ==
  /\ ~down
  /\ status[a] \in {"stopped", "error"}
  /\ status' = [status EXCEPT ![a] = "ready"]
  /\ UNCHANGED <<killed, request, bounds>>
  /\ RequestUnchanged

\* initialize looks at the ordinary runs and at the agents; the team runs and
\* their tasks stay as they are.
Restart ==
  /\ restarts < MaxRestarts
  /\ restarts' = restarts + 1
  /\ run' = [r \in Runs |-> IF run[r] \in Active THEN "cancelled" ELSE run[r]]
  /\ status' = [a \in Agents |-> IF status[a] = "busy" THEN "ready" ELSE status[a]]
  /\ loop' = [r \in Runs |-> IF loop[r] = "none" THEN "none" ELSE "over"]
  /\ node' = [n \in Nodes |-> "none"]
  /\ process' = [a \in Agents |-> Nothing]
  /\ killed' = {}
  /\ credential' = {}
  /\ current' = [a \in Agents |-> NoRun]
  /\ request' = [q \in Callers |-> IF request[q] = Idle THEN Idle ELSE Returned]
  /\ down' = FALSE
  /\ UNCHANGED <<graph, task, teamRun, crewVars, iteration, thrown, taskVars, faults>>

Continues(q) == Killed(q) \/ Awaited(q) \/ Finish(q)

Next ==
  \/ \E r \in Runs :
       \/ \E m \in Messages[r], a \in Agents : Plan(r, m, a)
       \/ Accept(r)
       \/ Orchestration(r)
  \/ \E n \in Nodes : Execution(n)
  \/ \E q \in Callers, kind \in {"stop", "delete"}, a \in Agents : Cancel(q, kind, a)
  \/ \E q \in Callers : Continues(q)
  \/ \E a \in Agents : Start(a)
  \/ Restart

Spec == Init /\ [][Next]_vars

\* Promises are resumed, and a process that does not exit is killed when it
\* times out.
FairSpec ==
  /\ Spec
  /\ \A r \in Runs : WF_vars(Orchestration(r))
  /\ \A n \in Nodes : WF_vars(Execution(n))
  /\ \A q \in Callers : WF_vars(Continues(q))

-----------------------------------------------------------------------------
(* Properties.                                                             *)

Launched(r) == TasksThatAre(r, "running") \cup TasksThatAre(r, "completed")
                 \cup TasksThatAre(r, "failed")

\* A plan that is executed can be executed: every dependency is a task of the
\* plan, and no tasks wait for each other.
PlansAreRunnable ==
  \A r \in Runs :
    /\ \A i \in Ids(graph[r]) : DependsOn(graph[r], i) \subseteq Ids(graph[r])
    /\ Runnable(graph[r])

\* A task that was launched had all that it depends on: those tasks have
\* completed, none of them turned out to have failed after it was launched, and
\* what they published was on the blackboard that the task read.
InputsAreComplete ==
  \A r \in Runs : \A i \in Launched(r) :
    /\ DependsOn(graph[r], i) \subseteq TasksThatAre(r, "completed")
    /\ DependsOn(graph[r], i) \ Silent \subseteq context[<<r, i>>]

\* A completed team run is what it says: all its tasks have completed, each
\* with the evidence of it.  The ordinary run says completed only beside it;
\* after a restart between the last two writes it says cancelled.
CompletionIsWitnessed ==
  \A r \in Runs :
    /\ teamRun[r] = "completed" => \A i \in Ids(graph[r]) :
         task[r][i] = "completed" /\ <<r, i>> \in evidence
    /\ run[r] = "completed" => teamRun[r] = "completed"

\* The tasks that are over after so many layers, if all goes well.
Layers(g) ==
  LET Reached[n \in 0 .. MaxIterations] ==
        IF n = 0 THEN {} ELSE {i \in Ids(g) : DependsOn(g, i) \subseteq Reached[n - 1]}
  IN  Reached

\* Where no write has failed, a team run that failed has a task that failed; the
\* limit on the iterations is the reason only for a graph with more layers.
FailuresHaveATask ==
  \A r \in Runs :
    (teamRun[r] = "failed" /\ faults = 0 /\ Layers(graph[r])[MaxIterations] = Ids(graph[r]))
      => TasksThatAre(r, "failed") # {}

\* A stop or delete that succeeds has waited for every team run that was going
\* on with the agent when it looked, whether it found it or not: the run is over,
\* and none of its tasks, on whatever agent, is in progress or holds a
\* credential.  Runs that overlapped are left out: the first of them to end
\* makes the agents forget the others, and a stop waits for nothing then.
StopWaitsForTheTeam ==
  [][\A q \in Callers : Finish(q) =>
       \A r \in request[q].owes :
         /\ loop[r] \in Over
         /\ \A n \in Nodes : n[1] = r => node[n] = "none" /\ n \notin credential
    ]_vars

\* The ordinary run of a message has ended; the team run has, or it was given up
\* with an exception or by a restart, which calls the ordinary run cancelled, and
\* is left as it stood; and no agent it was planned for is busy without a run that
\* is going on.
Settled(r) ==
  /\ run[r] \notin Active
  /\ teamRun[r] \notin Active \/ r \in thrown \/ run[r] = "cancelled"
  /\ \A a \in crew[r] :
       status[a] = "busy" => \E s \in Runs \ {r} : Going(s) /\ a \in crew[s]

\* A message that was accepted is settled some time, unless the server goes down
\* or the last write for it fails.
TeamRunsEnd == \A r \in Runs : Going(r) ~> Settled(r) \/ down \/ loop[r] = "lost"

\* Every stop or delete request returns, unless the server goes down.
RequestsReturn == \A q \in Callers : request[q] # Idle ~> request[q] = Returned \/ down

-----------------------------------------------------------------------------
(* What the documentation says and the code does not keep.                 *)

\* "If an upstream dependency fails, downstream dependent tasks are marked as
\* skipped": a run that is over has no task that was left pending.
DownstreamIsSkipped ==
  \A r \in Runs :
    (teamRun[r] = "failed" /\ faults = 0 /\ Len(graph[r]) <= MaxIterations)
      => TasksThatAre(r, "pending") = {}

\* "Active Agent Team Grants may select the Team path only for Agents owned by the
\* same authenticated human": a task is run by an agent of who sent the message.
TeamOfOneOwner ==
  \A n \in Nodes : node[n] = "spawned" => Owner[AgentOf(n)] = owner[n[1]]
=============================================================================
