------------------------------ MODULE AgentRuns ------------------------------
(***************************************************************************)
(* The lifecycle of agents and their solo runs: AgentService.sendMessage,  *)
(* executeRun, startAgent, stopAgent, deleteAgent and initialize, with the *)
(* MiddlewareRunner that gives a run its credential and the runner that    *)
(* owns its process.                                                       *)
(*                                                                         *)
(* An execution and a stop or delete request are asynchronous functions    *)
(* that yield at every store write, at the end of the process and at the   *)
(* end of another execution; each stretch between two yields is an action. *)
(* Runs are numbered in the order of their creation.  Messages routed to a *)
(* team, texts, threads and flight recordings are left out.                *)
(***************************************************************************)
EXTENDS Integers

CONSTANTS
  Agents,
  MaxRuns,      \* bound on the runs ever created
  AgentOf,      \* the agent a run is for
  Callers,      \* slots for concurrent stop, delete and revoke requests
  Unlucky,      \* runs whose own store writes may fail or be cut off
  MaxRestarts   \* bound on restarts

Runs == 1 .. MaxRuns
NoRun == 0

ASSUME AgentRunsAssumption ==
  /\ MaxRuns \in Nat
  /\ AgentOf \in [Runs -> Agents]
  /\ Unlucky \subseteq Runs
  /\ MaxRestarts \in Nat

VARIABLES
  status,      \* of an agent
  workspace,   \* its workspace is in place
  run,         \* status of a run in the database
  exec,        \* where executeRun stands
  result,      \* what it is about to record
  rejected,    \* executions that ended with an exception
  credential,  \* runs that hold a live credential
  revoked,     \* revokedRunIds
  open,        \* runs with a pending or approved approval
  cancelling,  \* cancellationRequests
  current,     \* activeExecutions
  process,     \* the run whose process the runner has for an agent
  killed,      \* runs whose process was cancelled
  request,     \* the stop, delete and revoke requests in progress
  restarts

agentVars == <<status, workspace>>
runVars == <<run, exec, result, rejected>>
authorityVars == <<credential, revoked, open>>
controlVars == <<cancelling, current, process, killed>>
vars == <<agentVars, runVars, authorityVars, controlVars, request, restarts>>

Active == {"queued", "running"}
Ended == {"completed", "failed", "cancelled"}

Idle == [pc |-> "idle"]

Request ==
  [pc : {"killing", "awaiting", "revoking", "finishing", "removing"},
   kind : {"stop", "delete", "revoke"}, agent : Agents, runs : SUBSET Runs,
   waitsFor : Runs \cup {NoRun}]

TypeOK ==
  /\ status \in [Agents -> {"ready", "busy", "stopped", "error", "deleted"}]
  /\ workspace \in [Agents -> BOOLEAN]
  /\ run \in [Runs -> {"none", "deleted"} \cup Active \cup Ended]
  /\ exec \in [Runs -> {"none", "starting", "issuing", "spawned", "closing", "cleaning",
                        "settling", "last"}]
  /\ result \in [Runs -> {"none"} \cup Ended]
  /\ rejected \subseteq Runs
  /\ credential \subseteq Runs
  /\ revoked \subseteq Runs
  /\ open \subseteq Runs
  /\ cancelling \subseteq Agents
  /\ current \in [Agents -> Runs \cup {NoRun}]
  /\ process \in [Agents -> Runs \cup {NoRun}]
  /\ killed \subseteq Runs
  /\ request \in [Callers -> Request \cup {Idle}]
  /\ restarts \in 0 .. MaxRestarts

Init ==
  /\ status = [a \in Agents |-> "ready"]
  /\ workspace = [a \in Agents |-> TRUE]
  /\ run = [r \in Runs |-> "none"]
  /\ exec = [r \in Runs |-> "none"]
  /\ result = [r \in Runs |-> "none"]
  /\ rejected = {}
  /\ credential = {}
  /\ revoked = {}
  /\ open = {}
  /\ cancelling = {}
  /\ current = [a \in Agents |-> NoRun]
  /\ process = [a \in Agents |-> NoRun]
  /\ killed = {}
  /\ request = [q \in Callers |-> Idle]
  /\ restarts = 0

Goto(r, pc) == exec' = [exec EXCEPT ![r] = pc]

\* An execution that throws at r's own write, or a result that it records.
Fails(r, pc) ==
  /\ r \in Unlucky
  /\ result' = [result EXCEPT ![r] = "failed"]
  /\ Goto(r, pc)

Exists(a) == status[a] # "deleted"

Mark(r, word) == run' = [run EXCEPT ![r] = IF @ = "deleted" THEN @ ELSE word]

-----------------------------------------------------------------------------
(* executeRun.                                                             *)

Send(r) ==
  LET a == AgentOf[r]
  IN  /\ run[r] = "none"
      /\ \A s \in Runs : s < r => run[s] # "none"
      /\ status[a] \in {"ready", "error"}
      /\ run' = [run EXCEPT ![r] = "queued"]
      /\ status' = [status EXCEPT ![a] = "busy"]
      /\ current' = [current EXCEPT ![a] = r]
      /\ Goto(r, "starting")
      /\ UNCHANGED <<workspace, result, rejected, authorityVars, cancelling, process, killed,
                     request, restarts>>

\* Variant: the end of an execution forgets whichever execution is current.
ForgetsAny(r) ==
  /\ Goto(r, "none")
  /\ current' = [current EXCEPT ![AgentOf[r]] = NoRun]

\* The execution is over; the agent forgets it unless a later one is current.
Leave(r) ==
  /\ Goto(r, "none")
  /\ current' = [current EXCEPT ![AgentOf[r]] = IF @ = r THEN NoRun ELSE @]

\* Variant: a credential is issued to a run whose authority was revoked.
MayIssueAgain(r) == AgentOf[r] \notin cancelling

\* A stop that is waiting is noticed here and never again.
MayIssue(r) == AgentOf[r] \notin cancelling /\ r \notin revoked

Begin(r) ==
  /\ exec[r] = "starting"
  /\ \/ /\ Mark(r, "running")
        /\ \/ /\ MayIssue(r)
              /\ credential' = credential \cup {r}
              /\ Goto(r, "issuing")
              /\ UNCHANGED result
           \/ /\ ~MayIssue(r)
              /\ result' = [result EXCEPT ![r] =
                   IF AgentOf[r] \in cancelling THEN "cancelled" ELSE "failed"]
              /\ Goto(r, "settling")
              /\ UNCHANGED credential
        /\ UNCHANGED <<rejected, current>>
     \/ /\ r \in Unlucky
        /\ Leave(r)
        /\ rejected' = rejected \cup {r}
        /\ UNCHANGED <<run, result, credential>>
  /\ UNCHANGED <<agentVars, revoked, open, cancelling, process, killed, request, restarts>>

\* The evidence of the start is written, then the process started.
Spawn(r) ==
  LET a == AgentOf[r]
      free == process[a] = NoRun /\ workspace[a]
  IN  /\ exec[r] = "issuing"
      /\ \/ /\ free
            /\ process' = [process EXCEPT ![a] = r]
            /\ Goto(r, "spawned")
            /\ UNCHANGED result
         \/ /\ ~free
            /\ result' = [result EXCEPT ![r] = "failed"]
            /\ Goto(r, "closing")
            /\ UNCHANGED process
         \/ /\ Fails(r, "closing")
            /\ UNCHANGED process
      /\ UNCHANGED <<agentVars, run, rejected, authorityVars, cancelling, current, killed,
                     request, restarts>>

\* Variant: the runner keeps a process that has ended.
Keeps(a) == UNCHANGED process

Releases(a) == process' = [process EXCEPT ![a] = NoRun]

\* The process exits, is cancelled, times out or exceeds its output.
ProcessEnds(r) ==
  /\ exec[r] = "spawned"
  /\ Releases(AgentOf[r])
  /\ result' \in {[result EXCEPT ![r] = x] :
       x \in IF r \in killed THEN {"cancelled", "failed"} ELSE {"completed", "failed"}}
  /\ killed' = killed \ {r}
  /\ Goto(r, "closing")
  /\ UNCHANGED <<agentVars, run, rejected, authorityVars, cancelling, current, request, restarts>>

\* The outcome is written to the evidence; then the credential is gone at once.
Close(r) ==
  /\ exec[r] = "closing"
  /\ credential' = credential \ {r}
  /\ \/ Goto(r, "cleaning") /\ UNCHANGED result
     \/ Fails(r, "cleaning")
  /\ UNCHANGED <<agentVars, run, rejected, revoked, open, controlVars, request, restarts>>

\* Variant: cleanup leaves the approvals of the run to its end.
CleanLater(r) ==
  /\ exec[r] = "cleaning"
  /\ Goto(r, "settling")
  /\ UNCHANGED <<agentVars, run, result, rejected, authorityVars, controlVars, request, restarts>>

Clean(r) ==
  /\ exec[r] = "cleaning"
  /\ \/ open' = open \ {r} /\ Goto(r, "settling") /\ UNCHANGED result
     \/ Fails(r, "settling") /\ open' \in {open, open \ {r}}
  /\ UNCHANGED <<agentVars, run, rejected, credential, revoked, controlVars, request, restarts>>

\* A completed run makes its agent ready whatever the agent has become; any
\* other run leaves a stopped agent stopped.
Settle(r) ==
  LET a == AgentOf[r]
  IN  /\ exec[r] = "settling"
      /\ \/ /\ result[r] = "completed"
            /\ Exists(a) /\ run[r] # "deleted"
            /\ run' = [run EXCEPT ![r] = "completed"]
            /\ status' = [status EXCEPT ![a] = "ready"]
            /\ Goto(r, "last")
            /\ UNCHANGED <<result, rejected>>
         \/ /\ result[r] = "completed"
            /\ ~Exists(a) \/ run[r] = "deleted"
            /\ Goto(r, "last")
            /\ UNCHANGED <<status, run, result, rejected>>
         \/ /\ result[r] # "completed"
            /\ Mark(r, result[r])
            /\ status' = [status EXCEPT ![a] =
                 IF @ \in {"stopped", "deleted"} THEN @
                 ELSE IF result[r] = "cancelled" THEN "ready" ELSE "error"]
            /\ Goto(r, "last")
            /\ UNCHANGED <<result, rejected>>
         \/ /\ result[r] = "completed"
            /\ Fails(r, "settling")
            /\ UNCHANGED <<status, run, rejected>>
         \/ /\ result[r] # "completed"
            /\ r \in Unlucky
            /\ rejected' = rejected \cup {r}
            /\ Goto(r, "last")
            /\ UNCHANGED <<status, run, result>>
      /\ UNCHANGED <<workspace, authorityVars, controlVars, request, restarts>>

Last(r) ==
  /\ exec[r] = "last"
  /\ \/ /\ open' = open \ {r}
        /\ UNCHANGED rejected
     \/ /\ r \in Unlucky
        /\ rejected' = rejected \cup {r}
        /\ UNCHANGED open
  /\ result' = [result EXCEPT ![r] = "none"]
  /\ Leave(r)
  /\ UNCHANGED <<agentVars, run, credential, revoked, cancelling, process, killed, request,
                 restarts>>

\* The process asks the gateway for something that needs an approval; the
\* credential is looked up in the turn in which the write is queued.
Ask(r) ==
  /\ exec[r] \in {"spawned", "closing"}
  /\ r \in credential
  /\ open' = open \cup {r}
  /\ UNCHANGED <<agentVars, runVars, credential, revoked, controlVars, request, restarts>>

-----------------------------------------------------------------------------
(* Requests of the owner.                                                  *)

ActiveRuns(a) == {r \in Runs : AgentOf[r] = a /\ run[r] \in Active}

Latest(rs) == {r \in rs : \A s \in rs : s <= r}

\* What follows the cancellation: no write is made for runs that are not there.
Afterwards(runs) == IF runs = {} THEN "finishing" ELSE "revoking"

\* cancelExecution: the process, if there is one, is told to end; otherwise the
\* current execution, if there is one, is what remains to wait for.
Cancel(q, kind, a, runs) ==
  LET found == IF process[a] # NoRun THEN process[a] ELSE current[a]
      pc == IF process[a] # NoRun THEN "killing"
            ELSE IF found # NoRun THEN "awaiting" ELSE Afterwards(runs)
  IN  /\ request[q] = Idle
      /\ Exists(a)
      /\ cancelling' = IF found = NoRun THEN cancelling \ {a} ELSE cancelling \cup {a}
      /\ killed' = IF process[a] = NoRun THEN killed ELSE killed \cup {found}
      /\ request' = [request EXCEPT ![q] =
           [pc |-> pc, kind |-> kind, agent |-> a, runs |-> runs, waitsFor |-> found]]
      /\ UNCHANGED <<agentVars, runVars, authorityVars, current, process, restarts>>

Stop(q, a) == Cancel(q, "stop", a, Latest(ActiveRuns(a)))

Delete(q, a) == Cancel(q, "delete", a, ActiveRuns(a))

Killed(q) ==
  /\ request[q].pc = "killing"
  /\ process[request[q].agent] # request[q].waitsFor
  /\ request' = [request EXCEPT ![q].pc = "awaiting",
                                ![q].waitsFor = current[request[q].agent]]
  /\ UNCHANGED <<agentVars, runVars, authorityVars, controlVars, restarts>>

Over(r) == r \in Runs => exec[r] = "none"

Awaited(q) ==
  LET rq == request[q]
  IN  /\ rq.pc = "awaiting"
      /\ Over(rq.waitsFor)
      /\ cancelling' = cancelling \ {rq.agent}
      /\ request' = [request EXCEPT ![q] =
           IF rq.waitsFor \in rejected THEN Idle
           ELSE [rq EXCEPT !.pc = Afterwards(rq.runs), !.waitsFor = NoRun]]
      /\ UNCHANGED <<agentVars, runVars, authorityVars, current, process, killed, restarts>>

\* The write of a request may always fail: the request then ends with an error.
GivesUp(q) ==
  /\ request[q].pc \in {"revoking", "finishing", "removing"}
  /\ request' = [request EXCEPT ![q] = Idle]
  /\ UNCHANGED <<agentVars, runVars, authorityVars, controlVars, restarts>>

RevokeApprovals(q) ==
  /\ request[q].pc = "revoking"
  /\ open' = open \ request[q].runs
  /\ request' = [request EXCEPT ![q] =
       IF @.kind = "revoke" THEN Idle ELSE [@ EXCEPT !.pc = "finishing"]]
  /\ UNCHANGED <<agentVars, runVars, credential, revoked, controlVars, restarts>>

\* setStatus("stopped"), whatever the agent is doing by now.
FinishStop(q) ==
  LET a == request[q].agent
  IN  /\ request[q].pc = "finishing"
      /\ request[q].kind = "stop"
      /\ status' = [status EXCEPT ![a] = IF @ = "deleted" THEN @ ELSE "stopped"]
      /\ request' = [request EXCEPT ![q] = Idle]
      /\ UNCHANGED <<workspace, runVars, authorityVars, controlVars, restarts>>

Archive(q) ==
  LET a == request[q].agent
  IN  /\ request[q].pc = "finishing"
      /\ request[q].kind = "delete"
      /\ workspace' = [workspace EXCEPT ![a] = FALSE]
      /\ request' = [request EXCEPT ![q] =
           IF workspace[a] THEN [@ EXCEPT !.pc = "removing"] ELSE Idle]
      /\ UNCHANGED <<status, runVars, authorityVars, controlVars, restarts>>

Remove(q) ==
  LET a == request[q].agent
  IN  /\ request[q].pc = "removing"
      /\ status' = [status EXCEPT ![a] = "deleted"]
      /\ run' = [r \in Runs |->
           IF AgentOf[r] = a /\ run[r] # "none" THEN "deleted" ELSE run[r]]
      /\ request' = [request EXCEPT ![q] = Idle]
      /\ UNCHANGED <<workspace, exec, result, rejected, authorityVars, controlVars, restarts>>

Start(a) ==
  /\ status[a] \in {"ready", "stopped", "error"}
  /\ status' = [status EXCEPT ![a] = "ready"]
  /\ UNCHANGED <<workspace, runVars, authorityVars, controlVars, request, restarts>>

\* The owner revokes the access of the latest active run: in memory at once,
\* its approvals in a write of their own.
RevokeAccess(q, a) ==
  LET rs == Latest(ActiveRuns(a))
  IN  /\ request[q] = Idle
      /\ rs # {}
      /\ revoked' = revoked \cup rs
      /\ credential' = credential \ rs
      /\ request' = [request EXCEPT ![q] =
           [pc |-> "revoking", kind |-> "revoke", agent |-> a, runs |-> rs,
            waitsFor |-> NoRun]]
      /\ UNCHANGED <<agentVars, runVars, open, controlVars, restarts>>

-----------------------------------------------------------------------------

\* Variant: a restart leaves the agents as they were.
Unchanged(a) == status[a]

Recovered(a) == IF status[a] = "busy" THEN "ready" ELSE status[a]

\* Variant: a restart forgets the runs that were only queued.
InterruptedRunning(r) == IF run[r] = "running" THEN "cancelled" ELSE run[r]

Interrupted(r) == IF run[r] \in Active THEN "cancelled" ELSE run[r]

\* The process is replaced: what was in memory is gone, and initialize ends
\* the runs it finds active, then their approvals, before the server listens.
\* A start that is itself cut off in between leaves the approvals of some:
\* the next one finds their runs ended.
Restart ==
  /\ restarts < MaxRestarts
  /\ restarts' = restarts + 1
  /\ run' = [r \in Runs |-> Interrupted(r)]
  /\ status' = [a \in Agents |-> Recovered(a)]
  /\ \E missed \in SUBSET Unlucky :
       open' = {r \in open : run[r] \notin Active \/ r \in missed}
  /\ exec' = [r \in Runs |-> "none"]
  /\ credential' = {}
  /\ revoked' = {}
  /\ cancelling' = {}
  /\ current' = [a \in Agents |-> NoRun]
  /\ process' = [a \in Agents |-> NoRun]
  /\ killed' = {}
  /\ request' = [q \in Callers |-> Idle]
  /\ result' = [r \in Runs |-> "none"]
  /\ rejected' = {}
  /\ UNCHANGED workspace

Execution(r) ==
  Begin(r) \/ Spawn(r) \/ ProcessEnds(r) \/ Close(r) \/ Clean(r) \/ Settle(r) \/ Last(r)

Continues(q) ==
  \/ Killed(q) \/ Awaited(q) \/ RevokeApprovals(q)
  \/ FinishStop(q) \/ Archive(q) \/ Remove(q)

Next ==
  \/ \E r \in Runs : Send(r) \/ Execution(r) \/ Ask(r)
  \/ \E q \in Callers, a \in Agents : Stop(q, a) \/ Delete(q, a) \/ RevokeAccess(q, a)
  \/ \E q \in Callers : Continues(q) \/ GivesUp(q)
  \/ \E a \in Agents : Start(a)
  \/ Restart

Spec == Init /\ [][Next]_vars

\* Promises are resumed, and a process that does not exit is killed when it
\* times out.
FairSpec ==
  /\ Spec
  /\ \A r \in Runs : WF_vars(Execution(r))
  /\ \A q \in Callers : WF_vars(Continues(q))

-----------------------------------------------------------------------------
(* Properties.                                                             *)

\* "Completion, failure, cancellation, and explicit revocation terminate Run
\* authority and invalidate pending or approved capabilities": a run that has
\* ended holds no credential and has no open approval, however it ended.
AuthorityEndsWithRun ==
  \A r \in Runs : run[r] \in Ended =>
    /\ r \notin credential
    /\ r \in open => r \in Unlucky

\* An owner's revocation is final: no credential is issued to the run again,
\* not even to one that was still waiting to start.
RevocationIsFinal == credential \cap revoked = {}

\* A busy agent is busy with something that will end: a run of its own that is
\* being executed, or one whose own writes have failed.
BusyAgentsRun ==
  \A a \in Agents : status[a] = "busy" =>
    \E r \in ActiveRuns(a) : exec[r] # "none" \/ r \in Unlucky

\* No message to the agent was accepted after the one that began the run.
NoLater(r) == \A s \in Runs : (s > r /\ AgentOf[s] = AgentOf[r]) => run[s] = "none"

\* A stop that succeeds has ended the run it found, if the agent was sent no
\* message after it: neither its execution nor its credential outlives the
\* request.
StopTakesEffect ==
  [][\A q \in Callers :
       FinishStop(q) =>
         \A r \in request[q].runs : NoLater(r) => exec[r] = "none" /\ r \notin credential
    ]_vars

\* Every run that was accepted ends, with its agent or before it.
RunsEnd == \A r \in Runs \ Unlucky : run[r] \in Active ~> run[r] \notin Active

\* Every stop, delete or revoke request returns: cancelling waits for the
\* process and the execution it found, and for nothing that waits for it.
RequestsReturn == \A q \in Callers : request[q] # Idle ~> request[q] = Idle

-----------------------------------------------------------------------------
(* What the documentation says and the code does not keep.                 *)

\* "One Agent can have only one active Run."
OneActiveRun == \A a \in Agents : \A r, s \in ActiveRuns(a) : r = s
=============================================================================
