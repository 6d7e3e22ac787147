------------------------------ MODULE TeamPlan ------------------------------
(***************************************************************************)
(* TeamOrchestrator.planTaskGraph: how a message to a team becomes a graph *)
(* of tasks.  The model provider proposes a graph; a proposal that does    *)
(* not pass isValidGraph is replaced by one the heuristics build from what *)
(* the prompt looks like.                                                  *)
(*                                                                         *)
(* A graph is a sequence of tasks, each with an identifier, the agent it   *)
(* is assigned to and the identifiers of the tasks it depends on.  Titles  *)
(* and descriptions are left out; the tasks of the heuristics are          *)
(* identified by their positions.                                          *)
(***************************************************************************)
EXTENDS Integers, FiniteSetsExt, SequencesExt

CONSTANTS
  Frontend, \* agents whose name or description speaks of the frontend
  Backend   \* agents whose name or description speaks of the backend

Task(id, agent, dependsOn) == [id |-> id, agent |-> agent, dependsOn |-> dependsOn]

Ids(g) == {g[k].id : k \in DOMAIN g}

DependsOn(g, id) == UNION {g[k].dependsOn : k \in {k \in DOMAIN g : g[k].id = id}}

-----------------------------------------------------------------------------
(* What is accepted from the model provider.                               *)

\* Variant: only a task that depends on itself counts as a cycle.
HasLoop(g) == \E k \in DOMAIN g : g[k].id \in g[k].dependsOn

\* One turn of a loop of the search, over the k-th task if it is one of ids: a
\* task that was not visited is searched, one of the path in hand is a cycle.
Visit(g, Dfs, ids, path, k, seen) ==
  LET id == g[k].id
  IN  IF seen.cyclic \/ id \notin ids THEN seen
      ELSE IF id \in seen.visited THEN [seen EXCEPT !.cyclic = id \in path]
      ELSE Dfs[[node |-> id, visited |-> seen.visited, path |-> path]]

Walk(g, Dfs, ids, path, visited) ==
  LET After[k \in 0 .. Len(g)] ==
        IF k = 0 THEN [visited |-> visited, cyclic |-> FALSE]
        ELSE Visit(g, Dfs, ids, path, k, After[k - 1])
  IN  After[Len(g)]

Calls(g) == [node : Ids(g), visited : SUBSET Ids(g), path : SUBSET Ids(g)]

\* A call of dfs walks over what its task depends on; the search walks over all
\* tasks, with no path. Identifiers are distinct by then, and in which order the
\* tasks are walked over does not matter to the answer.
HasCycle(g) ==
  LET Dfs[call \in Calls(g)] ==
        Walk(g, Dfs, DependsOn(g, call.node),
             call.path \cup {call.node}, call.visited \cup {call.node})
  IN  Walk(g, Dfs, Ids(g), {}, {}).cyclic

IsValidGraph(g, agents) ==
  /\ g # <<>>
  /\ \A j, k \in DOMAIN g : g[j].id = g[k].id => j = k
  /\ \A k \in DOMAIN g :
       /\ g[k].agent \in Range(agents)
       /\ g[k].dependsOn \subseteq Ids(g) \ {g[k].id}
  /\ ~HasCycle(g)

-----------------------------------------------------------------------------
(* planWithHeuristics.                                                     *)

\* One turn for each number, by the agents in rotation.
Countdown(agents, start, end) ==
  [k \in 1 .. start - end + 1 |->
     Task(k, agents[((k - 1) % Len(agents)) + 1], IF k = 1 THEN {} ELSE {k - 1})]

FirstOr(agents, fitting, otherwise) ==
  LET at == {k \in DOMAIN agents : agents[k] \in fitting}
  IN  IF at = {} THEN otherwise ELSE agents[Min(at)]

FrontendAgent(agents) == FirstOr(agents, Frontend, Head(agents))

BackendAgent(agents) ==
  LET others == Range(agents) \ {FrontendAgent(agents)}
  IN  FirstOr(agents, others \cap Backend, FirstOr(agents, others, Head(agents)))

FullStack(agents) ==
  << Task(1, BackendAgent(agents), {}),
     Task(2, FrontendAgent(agents), {}),
     Task(3, FrontendAgent(agents), {1, 2}) >>

\* At most three agents work side by side, then the last of the team reviews.
ParallelThenReview(agents) ==
  LET n == IF Len(agents) < 3 THEN Len(agents) ELSE 3
  IN  Append([k \in 1 .. n |-> Task(k, agents[k], {})], Task(n + 1, Last(agents), 1 .. n))

PlanWithHeuristics(prompt, agents) ==
  IF prompt.kind = "countdown" THEN Countdown(agents, prompt.start, prompt.end)
  ELSE IF prompt.kind = "full stack" /\ FrontendAgent(agents) # BackendAgent(agents)
       THEN FullStack(agents)
  ELSE ParallelThenReview(agents)

PlanTaskGraph(proposal, prompt, agents) ==
  IF IsValidGraph(proposal, agents) THEN proposal ELSE PlanWithHeuristics(prompt, agents)

-----------------------------------------------------------------------------
(* The reference for HasCycle: every set of tasks has a member that waits  *)
(* for no other member, so that there is always a task to start.           *)

Runnable(g) ==
  \A S \in SUBSET Ids(g) : S # {} => \E id \in S : DependsOn(g, id) \cap S = {}
=============================================================================
