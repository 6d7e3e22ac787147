--------------------------- MODULE AgentRunsProofs ---------------------------
(* Theorems about AgentRuns, for any number of agents, runs and requests.   *)
EXTENDS AgentRuns, TLAPS

LEMMA RunFacts ==
  /\ Runs \subseteq Nat
  /\ NoRun \notin Runs
  /\ \A r \in Runs : AgentOf[r] \in Agents
  BY AgentRunsAssumption DEF Runs, NoRun

\* The parts of the type invariant that the two lines of steps change.
RunTypes ==
  /\ status \in [Agents -> {"ready", "busy", "stopped", "error", "deleted"}]
  /\ workspace \in [Agents -> BOOLEAN]
  /\ run \in [Runs -> {"none", "deleted"} \cup Active \cup Ended]
  /\ exec \in [Runs -> {"none", "starting", "issuing", "spawned", "closing", "cleaning",
                        "settling", "last"}]
  /\ result \in [Runs -> {"none"} \cup Ended]
  /\ rejected \subseteq Runs

ControlTypes ==
  /\ credential \subseteq Runs
  /\ revoked \subseteq Runs
  /\ open \subseteq Runs
  /\ cancelling \subseteq Agents
  /\ current \in [Agents -> Runs \cup {NoRun}]
  /\ process \in [Agents -> Runs \cup {NoRun}]
  /\ killed \subseteq Runs

RequestTypes ==
  /\ request \in [Callers -> Request \cup {Idle}]
  /\ restarts \in 0 .. MaxRestarts

LEMMA SendType ==
  ASSUME TypeOK, NEW r \in Runs, Send(r)
  PROVE  TypeOK'
<1>1. RunTypes'
  BY RunFacts DEF TypeOK, RunTypes, Send, Goto, Active
<1>2. ControlTypes'
  BY RunFacts DEF TypeOK, ControlTypes, Send, authorityVars
<1>3. RequestTypes'
  BY DEF TypeOK, RequestTypes, Send
<1> QED BY <1>1, <1>2, <1>3 DEF RunTypes, ControlTypes, RequestTypes, TypeOK

LEMMA BeginType ==
  ASSUME TypeOK, NEW r \in Runs, Begin(r)
  PROVE  TypeOK'
<1>1. RunTypes'
  <2>1. run' \in [Runs -> {"none", "deleted"} \cup Active \cup Ended]
    BY DEF TypeOK, Begin, Mark, Active
  <2>2. exec' \in [Runs -> {"none", "starting", "issuing", "spawned", "closing", "cleaning",
                             "settling", "last"}]
    BY DEF TypeOK, Begin, Goto, Leave
  <2>3. result' \in [Runs -> {"none"} \cup Ended] /\ rejected' \subseteq Runs
    BY DEF TypeOK, Begin, Ended
  <2>4. UNCHANGED <<status, workspace>>
    BY DEF Begin, agentVars
  <2> QED BY <2>1, <2>2, <2>3, <2>4 DEF TypeOK, RunTypes
<1>2. ControlTypes'
  BY RunFacts DEF TypeOK, ControlTypes, Begin, Leave
<1>3. RequestTypes'
  BY DEF TypeOK, RequestTypes, Begin
<1> QED BY <1>1, <1>2, <1>3 DEF RunTypes, ControlTypes, RequestTypes, TypeOK

LEMMA SpawnType ==
  ASSUME TypeOK, NEW r \in Runs, Spawn(r)
  PROVE  TypeOK'
<1>1. RunTypes'
  BY RunFacts DEF TypeOK, RunTypes, Spawn, Fails, Goto, Ended, agentVars
<1>2. ControlTypes'
  BY RunFacts DEF TypeOK, ControlTypes, Spawn, authorityVars
<1>3. RequestTypes'
  BY DEF TypeOK, RequestTypes, Spawn
<1> QED BY <1>1, <1>2, <1>3 DEF RunTypes, ControlTypes, RequestTypes, TypeOK

LEMMA ProcessEndsType ==
  ASSUME TypeOK, NEW r \in Runs, ProcessEnds(r)
  PROVE  TypeOK'
<1>1. RunTypes'
  BY RunFacts DEF TypeOK, RunTypes, ProcessEnds, Goto, Ended, agentVars
<1>2. ControlTypes'
  BY RunFacts DEF TypeOK, ControlTypes, ProcessEnds, Releases, authorityVars
<1>3. RequestTypes'
  BY DEF TypeOK, RequestTypes, ProcessEnds
<1> QED BY <1>1, <1>2, <1>3 DEF RunTypes, ControlTypes, RequestTypes, TypeOK

LEMMA CloseType ==
  ASSUME TypeOK, NEW r \in Runs, Close(r)
  PROVE  TypeOK'
<1>1. RunTypes'
  BY DEF TypeOK, RunTypes, Close, Fails, Goto, Ended, agentVars
<1>2. ControlTypes'
  BY DEF TypeOK, ControlTypes, Close, controlVars
<1>3. RequestTypes'
  BY DEF TypeOK, RequestTypes, Close
<1> QED BY <1>1, <1>2, <1>3 DEF RunTypes, ControlTypes, RequestTypes, TypeOK

LEMMA CleanType ==
  ASSUME TypeOK, NEW r \in Runs, Clean(r)
  PROVE  TypeOK'
<1>1. RunTypes'
  BY DEF TypeOK, RunTypes, Clean, Fails, Goto, Ended, agentVars
<1>2. ControlTypes'
  BY DEF TypeOK, ControlTypes, Clean, controlVars
<1>3. RequestTypes'
  BY DEF TypeOK, RequestTypes, Clean
<1> QED BY <1>1, <1>2, <1>3 DEF RunTypes, ControlTypes, RequestTypes, TypeOK

LEMMA SettleType ==
  ASSUME TypeOK, NEW r \in Runs, Settle(r)
  PROVE  TypeOK'
<1>1. RunTypes'
  <2>1. result[r] \in {"none"} \cup Ended /\ AgentOf[r] \in Agents
    BY RunFacts DEF TypeOK
  <2>2. run' \in [Runs -> {"none", "deleted"} \cup Active \cup Ended]
    BY <2>1 DEF TypeOK, Settle, Mark, Ended
  <2>3. status' \in [Agents -> {"ready", "busy", "stopped", "error", "deleted"}]
    BY <2>1 DEF TypeOK, Settle
  <2>4. /\ exec' \in [Runs -> {"none", "starting", "issuing", "spawned", "closing",
                               "cleaning", "settling", "last"}]
        /\ result' \in [Runs -> {"none"} \cup Ended]
        /\ rejected' \subseteq Runs
        /\ workspace' = workspace
    BY DEF TypeOK, Settle, Fails, Goto, Ended
  <2> QED BY <2>2, <2>3, <2>4 DEF TypeOK, RunTypes
<1>2. ControlTypes'
  BY DEF TypeOK, ControlTypes, Settle, controlVars, authorityVars
<1>3. RequestTypes'
  BY DEF TypeOK, RequestTypes, Settle
<1> QED BY <1>1, <1>2, <1>3 DEF RunTypes, ControlTypes, RequestTypes, TypeOK

LEMMA LastType ==
  ASSUME TypeOK, NEW r \in Runs, Last(r)
  PROVE  TypeOK'
<1>1. RunTypes'
  BY DEF TypeOK, RunTypes, Last, Leave, Goto, agentVars
<1>2. ControlTypes'
  BY RunFacts DEF TypeOK, ControlTypes, Last, Leave
<1>3. RequestTypes'
  BY DEF TypeOK, RequestTypes, Last
<1> QED BY <1>1, <1>2, <1>3 DEF RunTypes, ControlTypes, RequestTypes, TypeOK

LEMMA AskType ==
  ASSUME TypeOK, NEW r \in Runs, Ask(r)
  PROVE  TypeOK'
  BY DEF TypeOK, Ask, agentVars, runVars, controlVars

-----------------------------------------------------------------------------
(* Requests.                                                               *)

LEMMA RequestUpdates ==
  ASSUME NEW x \in Request
  PROVE  /\ \A pc \in {"killing", "awaiting", "revoking", "finishing", "removing"} :
              [x EXCEPT !.pc = pc] \in Request
         /\ \A pc \in {"killing", "awaiting", "revoking", "finishing", "removing"},
               r \in Runs \cup {NoRun} :
              [x EXCEPT !.pc = pc, !.waitsFor = r] \in Request
  BY DEF Request

LEMMA AfterwardsType == \A runs : Afterwards(runs) \in {"finishing", "revoking"}
  BY DEF Afterwards

LEMMA CancelType ==
  ASSUME TypeOK, NEW q \in Callers, NEW a \in Agents, NEW kind \in {"stop", "delete"},
         NEW runs \in SUBSET Runs, Cancel(q, kind, a, runs)
  PROVE  TypeOK'
<1> DEFINE found == IF process[a] # NoRun THEN process[a] ELSE current[a]
<1>1. found \in Runs \cup {NoRun}
  BY DEF TypeOK
<1>2. request' \in [Callers -> Request \cup {Idle}]
  <2> DEFINE pc == IF process[a] # NoRun THEN "killing"
                   ELSE IF found # NoRun THEN "awaiting" ELSE Afterwards(runs)
             new == [pc |-> pc, kind |-> kind, agent |-> a, runs |-> runs,
                     waitsFor |-> found]
  <2>1. pc \in {"killing", "awaiting", "revoking", "finishing", "removing"}
    BY AfterwardsType
  <2>2. new \in Request
    <3> HIDE DEF found, pc
    <3> QED BY <1>1, <2>1 DEF Request
  <2>3. request' = [request EXCEPT ![q] = new]
    BY DEF Cancel
  <2> HIDE DEF new
  <2> QED BY <2>2, <2>3 DEF TypeOK
<1>3. cancelling' \subseteq Agents
  BY DEF TypeOK, Cancel
<1>4. killed' \subseteq Runs
  BY <1>1 DEF TypeOK, Cancel
<1>5. UNCHANGED <<agentVars, runVars, authorityVars, current, process, restarts>>
  BY DEF Cancel
<1> QED
  BY <1>2, <1>3, <1>4, <1>5 DEF TypeOK, agentVars, runVars, authorityVars

LEMMA StopType ==
  ASSUME TypeOK, NEW q \in Callers, NEW a \in Agents, Stop(q, a) \/ Delete(q, a)
  PROVE  TypeOK'
<1>1. ActiveRuns(a) \in SUBSET Runs /\ Latest(ActiveRuns(a)) \in SUBSET Runs
  BY DEF ActiveRuns, Latest
<1>2. \/ Cancel(q, "stop", a, Latest(ActiveRuns(a)))
      \/ Cancel(q, "delete", a, ActiveRuns(a))
  BY DEF Stop, Delete
<1> QED BY <1>1, <1>2, CancelType

\* Every step of a request that only moves it on or ends it.
LEMMA ContinuesType ==
  ASSUME TypeOK, NEW q \in Callers, Continues(q) \/ GivesUp(q)
  PROVE  TypeOK'
<1>1. request[q] \in Request \cup {Idle}
  BY DEF TypeOK
<1>2. request[q].pc # "idle" => request[q] \in Request
  BY <1>1 DEF Idle
<1>3. request[q] \in Request => request[q].agent \in Agents
  BY DEF Request
<1>4. CASE Killed(q)
  <2>1. request[q] \in Request
    BY <1>2, <1>4 DEF Killed
  <2>2. current[request[q].agent] \in Runs \cup {NoRun}
    BY <1>3, <2>1 DEF TypeOK
  <2>3. request' \in [Callers -> Request \cup {Idle}]
    BY <1>4, <2>1, <2>2, RequestUpdates DEF TypeOK, Killed
  <2> QED
    BY <1>4, <2>3 DEF TypeOK, Killed, agentVars, runVars, authorityVars, controlVars
<1>5. CASE Awaited(q)
  <2>1. request[q] \in Request
    BY <1>2, <1>5 DEF Awaited
  <2>2. [request[q] EXCEPT !.pc = Afterwards(request[q].runs), !.waitsFor = NoRun] \in Request
    BY <2>1, RequestUpdates, AfterwardsType
  <2>3. request' \in [Callers -> Request \cup {Idle}]
    BY <1>5, <2>2 DEF TypeOK, Awaited
  <2> QED
    BY <1>5, <2>3 DEF TypeOK, Awaited, agentVars, runVars, authorityVars
<1>6. CASE GivesUp(q)
  BY <1>6 DEF TypeOK, GivesUp, agentVars, runVars, authorityVars, controlVars
<1>7. CASE RevokeApprovals(q)
  <2>1. request[q] \in Request
    BY <1>2, <1>7 DEF RevokeApprovals
  <2>2. request' \in [Callers -> Request \cup {Idle}]
    BY <1>7, <2>1, RequestUpdates DEF TypeOK, RevokeApprovals
  <2> QED
    BY <1>7, <2>2 DEF TypeOK, RevokeApprovals, agentVars, runVars, controlVars
<1>8. CASE FinishStop(q)
  <2>1. request[q] \in Request
    BY <1>2, <1>8 DEF FinishStop
  <2> QED
    BY <1>3, <1>8, <2>1 DEF TypeOK, FinishStop, runVars, authorityVars, controlVars
<1>9. CASE Archive(q)
  <2>1. request[q] \in Request
    BY <1>2, <1>9 DEF Archive
  <2>2. request' \in [Callers -> Request \cup {Idle}]
    BY <1>9, <2>1, RequestUpdates DEF TypeOK, Archive
  <2> QED
    BY <1>3, <1>9, <2>1, <2>2 DEF TypeOK, Archive, runVars, authorityVars, controlVars
<1>10. CASE Remove(q)
  <2>1. request[q] \in Request
    BY <1>2, <1>10 DEF Remove
  <2>2. run' \in [Runs -> {"none", "deleted"} \cup Active \cup Ended]
    BY <1>10 DEF TypeOK, Remove
  <2> QED
    BY <1>3, <1>10, <2>1, <2>2 DEF TypeOK, Remove, authorityVars, controlVars
<1> QED BY <1>4, <1>5, <1>6, <1>7, <1>8, <1>9, <1>10 DEF Continues

LEMMA RevokeAccessType ==
  ASSUME TypeOK, NEW q \in Callers, NEW a \in Agents, RevokeAccess(q, a)
  PROVE  TypeOK'
<1> DEFINE rs == Latest(ActiveRuns(a))
           new == [pc |-> "revoking", kind |-> "revoke", agent |-> a, runs |-> rs,
                   waitsFor |-> NoRun]
<1>1. rs \in SUBSET Runs
  BY DEF Latest, ActiveRuns
<1>2. new \in Request
  <2> HIDE DEF rs
  <2> QED BY <1>1 DEF Request
<1>3. request' = [request EXCEPT ![q] = new]
  BY DEF RevokeAccess
<1>4. request' \in [Callers -> Request \cup {Idle}]
  <2> HIDE DEF new
  <2> QED BY <1>2, <1>3 DEF TypeOK
<1>5. revoked' = revoked \cup rs /\ credential' = credential \ rs
  BY DEF RevokeAccess
<1>6. UNCHANGED <<agentVars, runVars, open, controlVars, restarts>>
  BY DEF RevokeAccess
<1> HIDE DEF rs, new
<1> QED BY <1>1, <1>4, <1>5, <1>6 DEF TypeOK, agentVars, runVars, controlVars

LEMMA RestartType ==
  ASSUME TypeOK, Restart
  PROVE  TypeOK'
<1>1. RunTypes'
  BY DEF TypeOK, RunTypes, Restart, Interrupted, Recovered, Active, Ended
<1>2. ControlTypes'
  BY DEF TypeOK, ControlTypes, Restart
<1>3. RequestTypes'
  <2>1. restarts' \in 0 .. MaxRestarts
    BY AgentRunsAssumption DEF TypeOK, Restart
  <2>2. request' \in [Callers -> Request \cup {Idle}]
    BY DEF Restart
  <2> QED BY <2>1, <2>2 DEF RequestTypes
<1> QED BY <1>1, <1>2, <1>3 DEF RunTypes, ControlTypes, RequestTypes, TypeOK

LEMMA StartType ==
  ASSUME TypeOK, NEW a \in Agents, Start(a)
  PROVE  TypeOK'
  BY DEF TypeOK, Start, runVars, authorityVars, controlVars

\* Every field of every record keeps its type, whatever the interleaving.
THEOREM TypeCorrect == Spec => []TypeOK
<1>1. Init => TypeOK
  BY AgentRunsAssumption DEF Init, TypeOK
<1>2. TypeOK /\ [Next]_vars => TypeOK'
  <2> SUFFICES ASSUME TypeOK, [Next]_vars PROVE TypeOK'
    OBVIOUS
  <2>1. CASE UNCHANGED vars
    BY <2>1 DEF vars, agentVars, runVars, authorityVars, controlVars, TypeOK
  <2>2. ASSUME NEW r \in Runs, Execution(r) PROVE TypeOK'
    BY <2>2, BeginType, SpawnType, ProcessEndsType, CloseType, CleanType, SettleType, LastType
    DEF Execution
  <2> QED
    BY <2>1, <2>2, SendType, AskType, StopType, RevokeAccessType, ContinuesType,
       StartType, RestartType DEF Next
<1>3. QED BY <1>1, <1>2, PTL DEF Spec

-----------------------------------------------------------------------------
(* The inductive invariant.  That an ended run has no authority follows    *)
(* from where its execution stands; where it stands, from what it is about *)
(* to record; and a busy agent, from a run being deleted with its agent.   *)

Phase(r) ==
  /\ run[r] \in Ended => exec[r] \in {"none", "last"}
  /\ run[r] = "none" => exec[r] = "none"
  /\ exec[r] = "last" => run[r] \notin Active \/ r \in Unlucky
  /\ exec[r] \in {"closing", "cleaning", "settling"} => result[r] \in Ended
  /\ run[r] = "deleted" => status[AgentOf[r]] = "deleted"
  /\ status[AgentOf[r]] = "deleted" => run[r] \in {"none", "deleted"}

Authority(r) ==
  /\ r \in credential => exec[r] \in {"issuing", "spawned", "closing"} /\ r \notin revoked
  /\ r \in open \ Unlucky =>
       run[r] = "deleted" \/ exec[r] \in {"spawned", "closing", "cleaning"}

IInv ==
  /\ TypeOK
  /\ \A r \in Runs : Phase(r) /\ Authority(r)
  /\ BusyAgentsRun

\* Sound == the invariant without the types, which TypeCorrect already gives.
Sound == (\A r \in Runs : Phase(r) /\ Authority(r)) /\ BusyAgentsRun

LEMMA SendSound ==
  ASSUME IInv, NEW r \in Runs, Send(r)
  PROVE  Sound'
<1>1. ASSUME NEW q \in Runs PROVE Phase(q)'
  BY RunFacts DEF IInv, TypeOK, Send, Goto, Phase, Active, Ended
<1>2. ASSUME NEW q \in Runs PROVE Authority(q)'
  BY RunFacts DEF IInv, TypeOK, Send, Goto, Phase, Authority, authorityVars
<1>3. BusyAgentsRun'
  BY RunFacts DEF IInv, TypeOK, Send, Goto, BusyAgentsRun, ActiveRuns, Active
<1> QED BY <1>1, <1>2, <1>3 DEF Sound

LEMMA BeginSound ==
  ASSUME IInv, NEW r \in Runs, Begin(r)
  PROVE  Sound'
<1>1. /\ status' = status
      /\ exec[r] = "starting"
      /\ run[r] \in Active \cup {"deleted"}
      /\ run'[r] \in Active \cup {"deleted"}
      /\ run'[r] = "deleted" <=> run[r] = "deleted"
      /\ \A q \in Runs : q # r => run'[q] = run[q] /\ exec'[q] = exec[q] /\ result'[q] = result[q]
  BY DEF IInv, TypeOK, Begin, Mark, Goto, Leave, Phase, Active, Ended, agentVars
<1>2. /\ exec'[r] \in {"issuing", "settling", "none"}
      /\ exec'[r] = "settling" => result'[r] \in Ended
      /\ exec'[r] = "none" => r \in Unlucky
  BY DEF IInv, TypeOK, Begin, Goto, Leave, Ended
<1>3. /\ open' = open
      /\ revoked' = revoked
      /\ \A q \in Runs : q # r => (q \in credential' <=> q \in credential)
      /\ r \in credential' => exec'[r] = "issuing" /\ r \notin revoked
  BY DEF IInv, TypeOK, Begin, MayIssue, Goto, Authority, Leave
<1>4. ASSUME NEW q \in Runs PROVE Phase(q)'
  BY <1>1, <1>2 DEF IInv, Phase, Active, Ended
<1>5. ASSUME NEW q \in Runs PROVE Authority(q)'
  BY <1>1, <1>2, <1>3 DEF IInv, Authority
<1>6. BusyAgentsRun'
  <2> SUFFICES ASSUME NEW a \in Agents, status[a] = "busy"
               PROVE  \E q \in ActiveRuns(a)' : exec'[q] # "none" \/ q \in Unlucky
    BY <1>1 DEF BusyAgentsRun
  <2>1. PICK q \in ActiveRuns(a) : exec[q] # "none" \/ q \in Unlucky
    BY DEF IInv, BusyAgentsRun
  <2>2. q \in Runs /\ AgentOf[q] = a /\ run[q] \in Active
    BY <2>1 DEF ActiveRuns
  <2>3. run'[q] \in Active
    BY <1>1, <2>2 DEF Active
  <2> QED BY <1>1, <1>2, <2>1, <2>2, <2>3 DEF ActiveRuns
<1> QED BY <1>4, <1>5, <1>6 DEF Sound

\* A step of an execution that moves it on and leaves runs and agents alone.
LEMMA MovesOn ==
  ASSUME IInv, NEW r \in Runs,
         UNCHANGED <<status, run>>, revoked' = revoked,
         exec[r] # "none", exec'[r] # "none", run[r] \notin Ended,
         exec'[r] # "last",
         \A q \in Runs : q # r =>
           /\ exec'[q] = exec[q] /\ result'[q] = result[q]
           /\ q \in credential' <=> q \in credential
           /\ q \in open' <=> q \in open,
         exec'[r] \in {"closing", "cleaning", "settling"} => result'[r] \in Ended,
         Authority(r)'
  PROVE  Sound'
<1>1. ASSUME NEW q \in Runs PROVE Phase(q)'
  BY DEF IInv, Phase
<1>2. ASSUME NEW q \in Runs PROVE Authority(q)'
  BY DEF IInv, Authority
<1>3. BusyAgentsRun'
  BY DEF IInv, BusyAgentsRun, ActiveRuns
<1> QED BY <1>1, <1>2, <1>3 DEF Sound

LEMMA SpawnSound ==
  ASSUME IInv, NEW r \in Runs, Spawn(r)
  PROVE  Sound'
<1>1. /\ UNCHANGED <<status, run, credential, revoked, open>>
      /\ exec[r] = "issuing"
      /\ exec'[r] \in {"spawned", "closing"}
      /\ exec'[r] = "closing" => result'[r] \in Ended
      /\ \A q \in Runs : q # r => exec'[q] = exec[q] /\ result'[q] = result[q]
  BY DEF IInv, TypeOK, Spawn, Fails, Goto, Ended, agentVars, authorityVars
<1>2. run[r] \notin Ended
  BY <1>1 DEF IInv, Phase
<1>3. Authority(r)'
  BY <1>1 DEF IInv, Authority
<1> QED BY <1>1, <1>2, <1>3, MovesOn

LEMMA ProcessEndsSound ==
  ASSUME IInv, NEW r \in Runs, ProcessEnds(r)
  PROVE  Sound'
<1>1. /\ UNCHANGED <<status, run, credential, revoked, open>>
      /\ exec[r] = "spawned"
      /\ exec'[r] = "closing"
      /\ result'[r] \in Ended
      /\ \A q \in Runs : q # r => exec'[q] = exec[q] /\ result'[q] = result[q]
  BY DEF IInv, TypeOK, ProcessEnds, Goto, Ended, agentVars, authorityVars
<1>2. run[r] \notin Ended
  BY <1>1 DEF IInv, Phase
<1>3. Authority(r)'
  BY <1>1 DEF IInv, Authority
<1> QED BY <1>1, <1>2, <1>3, MovesOn

LEMMA CloseSound ==
  ASSUME IInv, NEW r \in Runs, Close(r)
  PROVE  Sound'
<1>1. /\ UNCHANGED <<status, run, revoked, open>>
      /\ credential' = credential \ {r}
      /\ exec[r] = "closing"
      /\ exec'[r] = "cleaning"
      /\ \A q \in Runs : q # r => exec'[q] = exec[q] /\ result'[q] = result[q]
      /\ result'[r] \in {result[r], "failed"}
  BY DEF IInv, TypeOK, Close, Fails, Goto, agentVars
<1>2. run[r] \notin Ended /\ result'[r] \in Ended
  BY <1>1 DEF IInv, Phase, Ended
<1>3. Authority(r)'
  BY <1>1 DEF IInv, Authority
<1> QED BY <1>1, <1>2, <1>3, MovesOn

\* Here the approvals of the run go, unless it is one whose writes may fail.
LEMMA CleanSound ==
  ASSUME IInv, NEW r \in Runs, Clean(r)
  PROVE  Sound'
<1>1. /\ UNCHANGED <<status, run, credential, revoked>>
      /\ exec[r] = "cleaning"
      /\ exec'[r] = "settling"
      /\ \A q \in Runs : q # r =>
           exec'[q] = exec[q] /\ result'[q] = result[q] /\ (q \in open' <=> q \in open)
      /\ result'[r] \in {result[r], "failed"}
      /\ r \in open' => r \in Unlucky
  BY DEF IInv, TypeOK, Clean, Fails, Goto, agentVars
<1>2. run[r] \notin Ended /\ result'[r] \in Ended
  BY <1>1 DEF IInv, Phase, Ended
<1>3. Authority(r)'
  BY <1>1 DEF IInv, Authority
<1> QED BY <1>1, <1>2, <1>3, MovesOn

\* Where a run ends: by now it has no authority left.
LEMMA SettleSound ==
  ASSUME IInv, NEW r \in Runs, Settle(r)
  PROVE  Sound'
<1> DEFINE a == AgentOf[r]
<1>1. /\ exec[r] = "settling"
      /\ result[r] \in Ended
      /\ run[r] \in Active \cup {"deleted"}
      /\ a \in Agents
  BY RunFacts DEF IInv, TypeOK, Settle, Phase, Active, Ended
<1>2. /\ UNCHANGED <<credential, revoked, open>>
      /\ \A q \in Runs : q # r => exec'[q] = exec[q] /\ run'[q] = run[q] /\ result'[q] = result[q]
      /\ \A b \in Agents : b # a => status'[b] = status[b]
  BY DEF IInv, TypeOK, Settle, Mark, Fails, Goto, authorityVars
<1>3. \/ /\ exec'[r] = "last" /\ run'[r] \in Ended /\ run[r] # "deleted"
         /\ status[a] # "deleted" /\ status'[a] \notin {"busy", "deleted"}
      \/ /\ exec'[r] = "last" /\ run'[r] = "deleted" /\ run[r] = "deleted"
         /\ status'[a] = "deleted" /\ status[a] = "deleted"
      \/ /\ r \in Unlucky /\ run' = run /\ status' = status
         /\ exec'[r] \in {"settling", "last"} /\ result'[r] \in Ended
  <2>1. run[r] = "deleted" <=> status[a] = "deleted"
    BY <1>1 DEF IInv, Phase, Active
  <2>2. CASE result[r] = "completed"
    BY <1>1, <2>1, <2>2 DEF IInv, TypeOK, Settle, Fails, Goto, Exists, Ended
  <2>3. CASE result[r] # "completed"
    <3>1. CASE /\ r \in Unlucky
               /\ Goto(r, "last")
               /\ UNCHANGED <<status, run, result>>
      BY <1>1, <3>1 DEF IInv, TypeOK, Goto
    <3>2. CASE /\ Mark(r, result[r])
               /\ status' = [status EXCEPT ![a] =
                    IF @ \in {"stopped", "deleted"} THEN @
                    ELSE IF result[r] = "cancelled" THEN "ready" ELSE "error"]
               /\ Goto(r, "last")
      BY <1>1, <2>1, <3>2 DEF IInv, TypeOK, Goto, Mark, Ended
    <3> QED BY <2>3, <3>1, <3>2 DEF Settle
  <2> QED BY <2>2, <2>3
<1>4. ASSUME NEW q \in Runs PROVE Phase(q)'
  <2>1. CASE q = r
    BY <1>1, <1>3, <2>1 DEF IInv, Phase, Active, Ended
  <2>2. CASE q # r
    <3>1. AgentOf[q] \in Agents
      BY RunFacts
    <3>2. status'[AgentOf[q]] = "deleted" <=> status[AgentOf[q]] = "deleted"
      BY <1>2, <1>3, <3>1
    <3> QED BY <1>2, <2>2, <3>2 DEF IInv, Phase
  <2> QED BY <2>1, <2>2
<1>5. ASSUME NEW q \in Runs PROVE Authority(q)'
  <2>1. CASE q = r
    BY <1>1, <1>2, <1>3, <2>1 DEF IInv, Authority
  <2>2. CASE q # r
    BY <1>2, <2>2 DEF IInv, Authority
  <2> QED BY <2>1, <2>2
<1>6. BusyAgentsRun'
  <2> SUFFICES ASSUME NEW b \in Agents, status'[b] = "busy"
               PROVE  \E q \in ActiveRuns(b)' : exec'[q] # "none" \/ q \in Unlucky
    BY DEF BusyAgentsRun
  <2>1. status[b] = "busy"
    BY <1>2, <1>3
  <2>2. PICK q \in ActiveRuns(b) : exec[q] # "none" \/ q \in Unlucky
    BY <2>1 DEF IInv, BusyAgentsRun
  <2>3. q \in Runs /\ AgentOf[q] = b /\ run[q] \in Active
    BY <2>2 DEF ActiveRuns
  <2>4. run'[q] \in Active /\ (exec'[q] # "none" \/ q \in Unlucky)
    BY <1>2, <1>3, <2>2, <2>3
  <2> QED BY <2>3, <2>4 DEF ActiveRuns
<1> QED BY <1>4, <1>5, <1>6 DEF Sound

LEMMA LastSound ==
  ASSUME IInv, NEW r \in Runs, Last(r)
  PROVE  Sound'
<1>1. /\ UNCHANGED <<status, run, credential, revoked>>
      /\ exec[r] = "last"
      /\ exec'[r] = "none"
      /\ \A q \in Runs : q # r => exec'[q] = exec[q] /\ result'[q] = result[q]
      /\ open' \subseteq open
  BY DEF IInv, TypeOK, Last, Leave, Goto, agentVars
<1>2. run[r] \notin Active \/ r \in Unlucky
  BY <1>1 DEF IInv, Phase
<1>3. ASSUME NEW q \in Runs PROVE Phase(q)'
  BY <1>1 DEF IInv, Phase
<1>4. ASSUME NEW q \in Runs PROVE Authority(q)'
  BY <1>1 DEF IInv, Authority
<1>5. BusyAgentsRun'
  BY <1>1, <1>2 DEF IInv, BusyAgentsRun, ActiveRuns
<1> QED BY <1>3, <1>4, <1>5 DEF Sound

LEMMA AskSound ==
  ASSUME IInv, NEW r \in Runs, Ask(r)
  PROVE  Sound'
<1>1. ASSUME NEW q \in Runs PROVE Phase(q)'
  BY DEF IInv, Ask, Phase, agentVars, runVars
<1>2. ASSUME NEW q \in Runs PROVE Authority(q)'
  BY DEF IInv, Ask, Authority, agentVars, runVars
<1>3. BusyAgentsRun'
  BY DEF IInv, Ask, BusyAgentsRun, ActiveRuns, agentVars, runVars
<1> QED BY <1>1, <1>2, <1>3 DEF Sound

\* A step that touches no run, execution or result, takes authority away if
\* anything, and makes no agent busy, deleted or undeleted.
LEMMA TakesAway ==
  ASSUME IInv, UNCHANGED <<run, exec, result>>,
         credential' \subseteq credential,
         open' \subseteq open,
         credential' \cap revoked' \subseteq revoked,
         \A a \in Agents : /\ status'[a] = "deleted" <=> status[a] = "deleted"
                           /\ status'[a] = "busy" => status[a] = "busy"
  PROVE  Sound'
<1>1. ASSUME NEW q \in Runs PROVE Phase(q)'
  <2>1. AgentOf[q] \in Agents
    BY RunFacts
  <2> QED BY <2>1 DEF IInv, Phase
<1>2. ASSUME NEW q \in Runs PROVE Authority(q)'
  BY DEF IInv, Authority
<1>3. BusyAgentsRun'
  BY DEF IInv, BusyAgentsRun, ActiveRuns
<1> QED BY <1>1, <1>2, <1>3 DEF Sound

LEMMA StopSound ==
  ASSUME IInv, NEW q \in Callers, NEW a \in Agents, Stop(q, a) \/ Delete(q, a)
  PROVE  Sound'
<1>1. UNCHANGED <<status, run, exec, result, credential, revoked, open>>
  BY DEF Stop, Delete, Cancel, agentVars, runVars, authorityVars
<1> QED BY <1>1, TakesAway

LEMMA RevokeAccessSound ==
  ASSUME IInv, NEW q \in Callers, NEW a \in Agents, RevokeAccess(q, a)
  PROVE  Sound'
<1>1. /\ UNCHANGED <<status, run, exec, result, open>>
      /\ revoked' = revoked \cup Latest(ActiveRuns(a))
      /\ credential' = credential \ Latest(ActiveRuns(a))
  BY DEF RevokeAccess, agentVars, runVars
<1>2. credential' \cap revoked' \subseteq revoked
  BY <1>1
<1> QED BY <1>1, <1>2, TakesAway

LEMMA StartSound ==
  ASSUME IInv, NEW a \in Agents, Start(a)
  PROVE  Sound'
<1>1. UNCHANGED <<run, exec, result, credential, revoked, open>>
  BY DEF Start, runVars, authorityVars
<1>2. \A b \in Agents : /\ status'[b] = "deleted" <=> status[b] = "deleted"
                        /\ status'[b] = "busy" => status[b] = "busy"
  BY DEF IInv, TypeOK, Start
<1> QED BY <1>1, <1>2, TakesAway

\* Deleting an agent deletes all its runs with it.
LEMMA RemoveSound ==
  ASSUME IInv, NEW q \in Callers, Remove(q)
  PROVE  Sound'
<1> DEFINE a == request[q].agent
<1>1. /\ UNCHANGED <<exec, result, credential, revoked, open>>
      /\ \A r \in Runs : run'[r] = IF AgentOf[r] = a /\ run[r] # "none" THEN "deleted" ELSE run[r]
      /\ \A b \in Agents : status'[b] = IF b = a THEN "deleted" ELSE status[b]
  BY DEF IInv, TypeOK, Remove, authorityVars
<1>2. ASSUME NEW r \in Runs PROVE Phase(r)'
  <2>1. AgentOf[r] \in Agents
    BY RunFacts
  <2> QED BY <1>1, <2>1 DEF IInv, Phase, Active, Ended
<1>3. ASSUME NEW r \in Runs PROVE Authority(r)'
  BY <1>1 DEF IInv, Authority
<1>4. BusyAgentsRun'
  <2> SUFFICES ASSUME NEW b \in Agents, status'[b] = "busy"
               PROVE  \E r \in ActiveRuns(b)' : exec'[r] # "none" \/ r \in Unlucky
    BY DEF BusyAgentsRun
  <2>1. b # a /\ status[b] = "busy"
    BY <1>1
  <2>2. PICK r \in ActiveRuns(b) : exec[r] # "none" \/ r \in Unlucky
    BY <2>1 DEF IInv, BusyAgentsRun
  <2> QED BY <1>1, <2>1, <2>2 DEF ActiveRuns
<1> QED BY <1>2, <1>3, <1>4 DEF Sound

LEMMA ContinuesSound ==
  ASSUME IInv, NEW q \in Callers, Continues(q) \/ GivesUp(q)
  PROVE  Sound'
<1>1. CASE Killed(q) \/ Awaited(q) \/ GivesUp(q) \/ Archive(q)
  <2>1. UNCHANGED <<status, run, exec, result, credential, revoked, open>>
    BY <1>1 DEF Killed, Awaited, GivesUp, Archive, agentVars, runVars, authorityVars
  <2> QED BY <2>1, TakesAway
<1>2. CASE RevokeApprovals(q)
  <2>1. /\ UNCHANGED <<status, run, exec, result, credential, revoked>>
        /\ open' \subseteq open
    BY <1>2 DEF RevokeApprovals, agentVars, runVars
  <2> QED BY <2>1, TakesAway
<1>3. CASE FinishStop(q)
  <2>1. UNCHANGED <<run, exec, result, credential, revoked, open>>
    BY <1>3 DEF FinishStop, runVars, authorityVars
  <2>2. \A b \in Agents : /\ status'[b] = "deleted" <=> status[b] = "deleted"
                          /\ status'[b] = "busy" => status[b] = "busy"
    BY <1>3 DEF IInv, TypeOK, FinishStop
  <2> QED BY <2>1, <2>2, TakesAway
<1>4. CASE Remove(q)
  BY <1>4, RemoveSound
<1> QED BY <1>1, <1>2, <1>3, <1>4 DEF Continues

LEMMA RestartSound ==
  ASSUME IInv, Restart
  PROVE  Sound'
<1>1. /\ \A r \in Runs : run'[r] = Interrupted(r) /\ exec'[r] = "none"
      /\ \A a \in Agents : status'[a] = Recovered(a)
      /\ credential' = {}
  BY DEF Restart
<1>2. PICK missed \in SUBSET Unlucky :
        open' = {r \in open : run[r] \notin Active \/ r \in missed}
  BY DEF Restart
<1>3. ASSUME NEW r \in Runs PROVE Phase(r)'
  <2>1. AgentOf[r] \in Agents
    BY RunFacts
  <2> QED BY <1>1, <2>1 DEF IInv, Phase, Interrupted, Recovered, Active, Ended
<1>4. ASSUME NEW r \in Runs PROVE Authority(r)'
  <2>1. ASSUME r \in open' \ Unlucky PROVE run'[r] = "deleted"
    <3>1. r \in open \ Unlucky /\ run[r] \notin Active
      BY <1>2, <2>1
    <3>2. run[r] = "deleted" \/ exec[r] \in {"spawned", "closing", "cleaning"}
      BY <3>1 DEF IInv, Authority
    <3>3. run[r] \in {"none", "deleted"} \cup Active \cup Ended
      BY DEF IInv, TypeOK
    <3>4. run[r] = "deleted"
      BY <3>1, <3>2, <3>3 DEF IInv, Phase
    <3> QED BY <1>1, <3>4 DEF Interrupted, Active
  <2> QED BY <1>1, <2>1 DEF Authority
<1>5. BusyAgentsRun'
  BY <1>1 DEF BusyAgentsRun, Recovered
<1> QED BY <1>3, <1>4, <1>5 DEF Sound

\* The inductive invariant holds in every reachable state.
THEOREM Inductive == Spec => []IInv
<1>1. Init => IInv
  BY AgentRunsAssumption
  DEF Init, IInv, TypeOK, Phase, Authority, BusyAgentsRun, Active, Ended
<1>2. IInv /\ [Next]_vars => Sound'
  <2> SUFFICES ASSUME IInv, [Next]_vars PROVE Sound'
    OBVIOUS
  <2>1. CASE UNCHANGED vars
    BY <2>1, TakesAway DEF vars, agentVars, runVars, authorityVars
  <2>2. ASSUME NEW r \in Runs, Execution(r) PROVE Sound'
    BY <2>2, BeginSound, SpawnSound, ProcessEndsSound, CloseSound, CleanSound, SettleSound,
       LastSound DEF Execution
  <2> QED
    BY <2>1, <2>2, SendSound, AskSound, StopSound, RevokeAccessSound, ContinuesSound,
       StartSound, RestartSound DEF Next
<1>3. TypeOK' /\ Sound' => IInv'
  BY DEF IInv, Sound
<1>4. QED BY <1>1, <1>2, <1>3, TypeCorrect, PTL DEF Spec

\* However a run ends, by itself, by a stop, a revocation, a failed write or a
\* restart, it holds no credential afterwards, and no approval of it is open
\* unless its own writes failed.
THEOREM AuthorityEnds == Spec => []AuthorityEndsWithRun
<1>1. IInv => AuthorityEndsWithRun
  BY DEF IInv, Phase, Authority, AuthorityEndsWithRun, Ended
<1> QED BY <1>1, Inductive, PTL

\* No run whose access the owner revoked ever holds a credential again.
THEOREM RevocationsAreFinal == Spec => []RevocationIsFinal
<1>1. IInv => RevocationIsFinal
  BY DEF IInv, TypeOK, Authority, RevocationIsFinal
<1> QED BY <1>1, Inductive, PTL

\* A busy agent has an active run that is being executed, or whose writes failed.
THEOREM NoIdleBusyAgent == Spec => []BusyAgentsRun
<1>1. IInv => BusyAgentsRun
  BY DEF IInv
<1> QED BY <1>1, Inductive, PTL

-----------------------------------------------------------------------------
(* What a stop waits for.  Runs are accepted in their order, the last run   *)
(* of an agent is its current execution while it is executed, and that is   *)
(* what a stop that found the run still waits for.                          *)

InOrder == \A r, s \in Runs : (s < r /\ run[r] # "none") => run[s] # "none"

IsCurrent(r) == (exec[r] # "none" /\ NoLater(r)) => current[AgentOf[r]] = r

Stopping(q) == request[q].pc # "idle" /\ request[q].kind = "stop"

WaitsLong(q, r) ==
  /\ run[r] # "none"
  /\ AgentOf[r] = request[q].agent
  /\ NoLater(r) =>
       /\ request[q].pc = "awaiting" => exec[r] = "none" \/ request[q].waitsFor = r
       /\ request[q].pc \in {"revoking", "finishing"} => exec[r] = "none"

Stops(q) == Stopping(q) => \A r \in request[q].runs : WaitsLong(q, r)

StopInv ==
  /\ InOrder
  /\ \A r \in Runs : IsCurrent(r)
  /\ \A q \in Callers : Stops(q)

\* A run that was accepted stays accepted, and one that is over stays over.
LEMMA Persists ==
  ASSUME IInv, [Next]_vars, NEW r \in Runs, run[r] # "none"
  PROVE  run'[r] # "none" /\ (exec[r] = "none" => exec'[r] = "none")
<1>1. CASE UNCHANGED vars
  BY <1>1 DEF vars, runVars
<1>2. ASSUME NEW s \in Runs, Send(s) \/ Execution(s) \/ Ask(s)
      PROVE  run'[r] # "none" /\ (exec[r] = "none" => exec'[r] = "none")
  <2>1. CASE Send(s)
    BY <2>1 DEF IInv, TypeOK, Send, Goto
  <2>2. CASE Begin(s)
    BY <2>2 DEF IInv, TypeOK, Begin, Goto, Mark, Leave
  <2>3. CASE Spawn(s) \/ ProcessEnds(s) \/ Close(s) \/ Clean(s) \/ Ask(s) \/ Last(s)
    BY <2>3 DEF IInv, TypeOK, Spawn, ProcessEnds, Close, Clean, Ask, Last, Goto, Fails, Leave,
                agentVars, runVars
  <2>4. CASE Settle(s)
    <3>1. result[s] \in Ended
      BY <2>4 DEF IInv, Phase, Settle
    <3> QED BY <2>4, <3>1 DEF IInv, TypeOK, Settle, Goto, Fails, Mark, Ended
  <2> QED BY <1>2, <2>1, <2>2, <2>3, <2>4 DEF Execution
<1>3. ASSUME NEW q \in Callers, NEW a \in Agents,
             Stop(q, a) \/ Delete(q, a) \/ RevokeAccess(q, a)
      PROVE  run'[r] # "none" /\ (exec[r] = "none" => exec'[r] = "none")
  BY <1>3 DEF Stop, Delete, Cancel, RevokeAccess, runVars
<1>4. ASSUME NEW q \in Callers, Continues(q) \/ GivesUp(q)
      PROVE  run'[r] # "none" /\ (exec[r] = "none" => exec'[r] = "none")
  BY <1>4 DEF Continues, Killed, Awaited, RevokeApprovals, FinishStop, Archive, Remove, GivesUp,
              runVars
<1>5. ASSUME NEW a \in Agents, Start(a)
      PROVE  run'[r] # "none" /\ (exec[r] = "none" => exec'[r] = "none")
  BY <1>5 DEF Start, runVars
<1>6. CASE Restart
  BY <1>6 DEF Restart, Interrupted
<1> QED BY <1>1, <1>2, <1>3, <1>4, <1>5, <1>6 DEF Next

LEMMA NoLaterBefore ==
  ASSUME IInv, [Next]_vars, NEW r \in Runs, NoLater(r)'
  PROVE  NoLater(r)
  BY Persists DEF NoLater

\* Only a message that is accepted begins an execution or accepts a run.
LEMMA OnlySendAccepts ==
  ASSUME IInv, [Next]_vars, \A s \in Runs : ~Send(s), NEW r \in Runs
  PROVE  /\ run[r] = "none" => run'[r] = "none"
         /\ exec[r] = "none" => exec'[r] = "none"
<1> USE DEF IInv, TypeOK
<1>1. CASE UNCHANGED vars
  BY <1>1 DEF vars, runVars
<1>2. ASSUME NEW s \in Runs, Execution(s) \/ Ask(s)
      PROVE  /\ run[r] = "none" => run'[r] = "none"
             /\ exec[r] = "none" => exec'[r] = "none"
  <2>1. exec[s] # "none"
    BY <1>2 DEF Execution, Begin, Spawn, ProcessEnds, Close, Clean, Settle, Last, Ask
  <2>2. run[s] # "none"
    BY <2>1 DEF Phase
  <2>3. CASE r = s
    BY <2>1, <2>2, <2>3
  <2>4. CASE r # s
    BY <1>2, <2>4 DEF Execution, Begin, Spawn, ProcessEnds, Close, Clean, Settle, Last, Ask, Goto,
                      Mark, Fails, Leave, agentVars, runVars
  <2> QED BY <2>3, <2>4
<1>3. ASSUME NEW q \in Callers, NEW a \in Agents,
             Stop(q, a) \/ Delete(q, a) \/ RevokeAccess(q, a)
      PROVE  run' = run /\ exec' = exec
  BY <1>3 DEF Stop, Delete, Cancel, RevokeAccess, runVars
<1>4. ASSUME NEW q \in Callers, Continues(q) \/ GivesUp(q)
      PROVE  /\ run[r] = "none" => run'[r] = "none"
             /\ exec[r] = "none" => exec'[r] = "none"
  BY <1>4 DEF Continues, Killed, Awaited, RevokeApprovals, FinishStop, Archive, Remove, GivesUp,
              runVars
<1>5. ASSUME NEW a \in Agents, Start(a)
      PROVE  run' = run /\ exec' = exec
  BY <1>5 DEF Start, runVars
<1>6. CASE Restart
  BY <1>6 DEF Restart, Interrupted, Active
<1> QED BY <1>1, <1>2, <1>3, <1>4, <1>5, <1>6 DEF Next

LEMMA InOrderStep ==
  ASSUME IInv, StopInv, [Next]_vars
  PROVE  InOrder'
<1>1. ASSUME NEW t \in Runs, Send(t)
      PROVE  InOrder'
  <2>1. /\ \A s \in Runs : s < t => run[s] # "none"
        /\ \A s \in Runs : s # t => run'[s] = run[s]
        /\ run'[t] = "queued"
    BY <1>1 DEF IInv, TypeOK, Send
  <2> QED BY <2>1 DEF StopInv, InOrder
<1>2. CASE \A t \in Runs : ~Send(t)
  BY <1>2, OnlySendAccepts, Persists DEF StopInv, InOrder
<1> QED BY <1>1, <1>2

LEMMA IsCurrentStep ==
  ASSUME IInv, StopInv, [Next]_vars, NEW r \in Runs
  PROVE  IsCurrent(r)'
<1> SUFFICES ASSUME exec'[r] # "none", NoLater(r)'
             PROVE  current'[AgentOf[r]] = r
  BY DEF IsCurrent
<1>1. NoLater(r) /\ AgentOf[r] \in Agents
  BY NoLaterBefore, RunFacts
<1>2. exec[r] # "none" => current[AgentOf[r]] = r
  BY <1>1 DEF StopInv, IsCurrent
<1>3. ASSUME NEW t \in Runs, Send(t)
      PROVE  current'[AgentOf[r]] = r
  <2>1. /\ current' = [current EXCEPT ![AgentOf[t]] = t]
        /\ run[t] = "none" /\ run'[t] = "queued"
        /\ \A s \in Runs : s # t => exec'[s] = exec[s]
        /\ \A s \in Runs : s < t => run[s] # "none"
    BY <1>3 DEF IInv, TypeOK, Send, Goto
  <2>2. CASE t = r
    BY <1>1, <2>1, <2>2 DEF IInv, TypeOK
  <2>3. CASE t # r
    <3>1. exec[r] # "none" /\ run[r] # "none"
      BY <2>1, <2>3 DEF IInv, Phase
    <3>2. r < t
      BY <2>1, <2>3, <3>1, RunFacts DEF StopInv, InOrder
    <3>3. AgentOf[t] # AgentOf[r]
      BY <2>1, <3>2, RunFacts DEF NoLater
    <3> QED BY <1>1, <1>2, <2>1, <3>1, <3>3 DEF IInv, TypeOK
  <2> QED BY <2>2, <2>3
<1>4. CASE \A t \in Runs : ~Send(t)
  <2>1. exec[r] # "none" /\ current[AgentOf[r]] = r
    BY <1>2, <1>4, OnlySendAccepts
  <2>2. ASSUME NEW t \in Runs, Leave(t), exec[t] # "none"
        PROVE  current'[AgentOf[r]] = r
    <3>1. t # r
      BY <2>2 DEF Leave, Goto, IInv, TypeOK
    <3> QED BY <1>1, <2>1, <2>2, <3>1 DEF Leave, IInv, TypeOK
  <2>3. ASSUME NEW t \in Runs, Execution(t) \/ Ask(t)
        PROVE  UNCHANGED current \/ (Leave(t) /\ exec[t] # "none")
    BY <2>3 DEF Execution, Begin, Spawn, ProcessEnds, Close, Clean, Settle, Last, Ask, controlVars
  <2>4. ~Restart
    BY DEF Restart
  <2>5. CASE UNCHANGED vars
    BY <2>1, <2>5 DEF vars, controlVars
  <2>6. ASSUME NEW q \in Callers, NEW a \in Agents,
               Stop(q, a) \/ Delete(q, a) \/ RevokeAccess(q, a)
        PROVE  UNCHANGED current
    BY <2>6 DEF Stop, Delete, Cancel, RevokeAccess, controlVars
  <2>7. ASSUME NEW q \in Callers, Continues(q) \/ GivesUp(q)
        PROVE  UNCHANGED current
    BY <2>7 DEF Continues, Killed, Awaited, RevokeApprovals, FinishStop, Archive, Remove, GivesUp,
                controlVars
  <2>8. ASSUME NEW a \in Agents, Start(a)
        PROVE  UNCHANGED current
    BY <2>8 DEF Start, controlVars
  <2> QED BY <1>4, <2>1, <2>2, <2>3, <2>4, <2>5, <2>6, <2>7, <2>8 DEF Next
<1> QED BY <1>3, <1>4
\* A request that is left as it is still waits long enough.
LEMMA StopsKept ==
  ASSUME IInv, StopInv, [Next]_vars, NEW q \in Callers, request'[q] = request[q]
  PROVE  Stops(q)'
<1> SUFFICES ASSUME Stopping(q), NEW r \in request[q].runs
             PROVE  WaitsLong(q, r)'
  BY DEF Stops, Stopping
<1>1. request[q] \in Request
  BY DEF IInv, TypeOK, Stopping, Idle
<1>2. r \in Runs
  BY <1>1 DEF Request
<1>3. WaitsLong(q, r)
  BY DEF StopInv, Stops
<1> QED BY <1>2, <1>3, Persists, NoLaterBefore DEF WaitsLong

\* What a stop that waits for the current execution waits for.
LEMMA WaitsForCurrent ==
  ASSUME StopInv, NEW r \in Runs, NoLater(r), exec[r] # "none"
  PROVE  current[AgentOf[r]] = r
  BY DEF StopInv, IsCurrent

LEMMA IdleIsNoStop ==
  ASSUME NEW q \in Callers, request'[q] = Idle
  PROVE  Stops(q)'
  BY DEF Stops, Stopping, Idle

LEMMA StopStops ==
  ASSUME IInv, StopInv, NEW q \in Callers, NEW a \in Agents, Stop(q, a)
  PROVE  Stops(q)'
<1> DEFINE rs == Latest(ActiveRuns(a))
           found == IF process[a] # NoRun THEN process[a] ELSE current[a]
           pc == IF process[a] # NoRun THEN "killing"
                 ELSE IF found # NoRun THEN "awaiting" ELSE Afterwards(rs)
           new == [pc |-> pc, kind |-> "stop", agent |-> a, runs |-> rs, waitsFor |-> found]
<1>1. request' = [request EXCEPT ![q] = new] /\ UNCHANGED <<run, exec>>
  BY DEF Stop, Cancel, runVars
<1>2. request'[q] = new
  BY <1>1 DEF IInv, TypeOK
<1>3. ASSUME NEW r \in rs
      PROVE  WaitsLong(q, r)'
  <2>1. r \in Runs /\ run[r] # "none" /\ AgentOf[r] = a
    BY DEF Latest, ActiveRuns, Active
  <2>2. NoLater(r)' => NoLater(r)
    BY <1>1 DEF NoLater
  <2>3. pc = "awaiting" => found = current[a]
    BY DEF Afterwards
  <2>4. pc \in {"revoking", "finishing"} => current[a] = NoRun
    OBVIOUS
  <2>5. new.pc = pc /\ new.agent = a /\ new.waitsFor = found
    OBVIOUS
  <2> HIDE DEF rs, found, pc, new
  <2> QED BY <1>1, <1>2, <2>1, <2>2, <2>3, <2>4, <2>5, WaitsForCurrent, RunFacts DEF WaitsLong
<1>4. request'[q].runs = rs
  BY <1>2
<1> QED BY <1>3, <1>4 DEF Stops

LEMMA ContinuesStops ==
  ASSUME IInv, StopInv, NEW q \in Callers, Continues(q) \/ GivesUp(q)
  PROVE  Stops(q)'
<1>1. request \in [Callers -> Request \cup {Idle}]
  BY DEF IInv, TypeOK
<1>2. CASE GivesUp(q) \/ FinishStop(q) \/ Remove(q)
  <2>1. request'[q] = Idle
    BY <1>1, <1>2 DEF GivesUp, FinishStop, Remove
  <2> QED BY <2>1, IdleIsNoStop
<1>3. CASE Archive(q)
  <2>1. request[q] \in Request /\ request[q].kind = "delete"
    BY <1>1, <1>3 DEF Archive, Idle
  <2>2. request'[q] = Idle \/ request'[q] = [request[q] EXCEPT !.pc = "removing"]
    BY <1>1, <1>3 DEF Archive
  <2>3. [request[q] EXCEPT !.pc = "removing"].kind = "delete"
    BY <2>1 DEF Request
  <2> QED BY <2>2, <2>3, IdleIsNoStop DEF Stops, Stopping
<1>4. CASE Killed(q)
  <2> DEFINE a == request[q].agent
             new == [request[q] EXCEPT !.pc = "awaiting", !.waitsFor = current[a]]
  <2>1. request[q] \in Request /\ request[q].pc = "killing"
    BY <1>1, <1>4 DEF Killed, Idle
  <2>2. request'[q] = new /\ UNCHANGED <<run, exec>>
    BY <1>1, <1>4 DEF Killed, runVars
  <2>3. /\ new.pc = "awaiting" /\ new.waitsFor = current[a] /\ new.agent = a
        /\ new.runs = request[q].runs /\ new.kind = request[q].kind
    BY <2>1 DEF Request
  <2> HIDE DEF new
  <2> SUFFICES ASSUME request[q].kind = "stop", NEW r \in request[q].runs
               PROVE  WaitsLong(q, r)'
    BY <2>2, <2>3 DEF Stops, Stopping
  <2>4. r \in Runs /\ WaitsLong(q, r)
    BY <2>1 DEF StopInv, Stops, Stopping, Request
  <2>5. NoLater(r)' => NoLater(r)
    BY <2>2 DEF NoLater
  <2> QED BY <2>2, <2>3, <2>4, <2>5, WaitsForCurrent DEF WaitsLong
<1>5. CASE Awaited(q)
  <2> DEFINE new == [request[q] EXCEPT !.pc = Afterwards(request[q].runs), !.waitsFor = NoRun]
  <2>1. request[q] \in Request /\ request[q].pc = "awaiting" /\ Over(request[q].waitsFor)
    BY <1>1, <1>5 DEF Awaited, Idle
  <2>2. request'[q] \in {Idle, new} /\ UNCHANGED <<run, exec>>
    BY <1>1, <1>5 DEF Awaited, runVars
  <2>3. CASE request'[q] = Idle
    BY <2>3, IdleIsNoStop
  <2>4. CASE request'[q] = new
    <3>1. /\ new.pc # "awaiting" /\ new.agent = request[q].agent
          /\ new.runs = request[q].runs /\ new.kind = request[q].kind
      BY <2>1 DEF Request, Afterwards
    <3> HIDE DEF new
    <3> SUFFICES ASSUME request[q].kind = "stop", NEW r \in request[q].runs
                 PROVE  WaitsLong(q, r)'
      BY <2>4, <3>1 DEF Stops, Stopping
    <3>2. r \in Runs /\ WaitsLong(q, r)
      BY <2>1 DEF StopInv, Stops, Stopping, Request
    <3>3. NoLater(r)' => NoLater(r)
      BY <2>2 DEF NoLater
    <3>4. NoLater(r) => exec[r] = "none"
      BY <2>1, <3>2 DEF WaitsLong, Over
    <3> QED BY <2>2, <2>4, <3>1, <3>2, <3>3, <3>4 DEF WaitsLong
  <2> QED BY <2>2, <2>3, <2>4
<1>6. CASE RevokeApprovals(q)
  <2> DEFINE new == [request[q] EXCEPT !.pc = "finishing"]
  <2>1. request[q] \in Request /\ request[q].pc = "revoking"
    BY <1>1, <1>6 DEF RevokeApprovals, Idle
  <2>2. request'[q] \in {Idle, new} /\ UNCHANGED <<run, exec>>
    BY <1>1, <1>6 DEF RevokeApprovals, runVars
  <2>3. CASE request'[q] = Idle
    BY <2>3, IdleIsNoStop
  <2>4. CASE request'[q] = new
    <3>1. /\ new.pc = "finishing" /\ new.agent = request[q].agent
          /\ new.runs = request[q].runs /\ new.kind = request[q].kind
      BY <2>1 DEF Request
    <3> HIDE DEF new
    <3> SUFFICES ASSUME request[q].kind = "stop", NEW r \in request[q].runs
                 PROVE  WaitsLong(q, r)'
      BY <2>4, <3>1 DEF Stops, Stopping
    <3>2. r \in Runs /\ WaitsLong(q, r)
      BY <2>1 DEF StopInv, Stops, Stopping, Request
    <3>3. NoLater(r)' => NoLater(r)
      BY <2>2 DEF NoLater
    <3> QED BY <2>1, <2>2, <2>4, <3>1, <3>2, <3>3 DEF WaitsLong
  <2> QED BY <2>2, <2>3, <2>4
<1> QED BY <1>2, <1>3, <1>4, <1>5, <1>6 DEF Continues

LEMMA StopsStep ==
  ASSUME IInv, StopInv, [Next]_vars, NEW q \in Callers
  PROVE  Stops(q)'
<1>1. CASE request'[q] = request[q]
  BY <1>1, StopsKept
<1>2. ASSUME NEW a \in Agents, Stop(q, a)
      PROVE  Stops(q)'
  BY <1>2, StopStops
<1>3. ASSUME NEW a \in Agents, Delete(q, a) \/ RevokeAccess(q, a)
      PROVE  Stops(q)'
  <2>1. request'[q].kind \in {"delete", "revoke"}
    BY <1>3 DEF Delete, RevokeAccess, Cancel, IInv, TypeOK
  <2> QED BY <2>1 DEF Stops, Stopping
<1>4. CASE Continues(q) \/ GivesUp(q)
  BY <1>4, ContinuesStops
<1>5. CASE Restart
  BY <1>5, IdleIsNoStop DEF Restart
<1>6. ASSUME NEW p \in Callers \ {q}, NEW a \in Agents,
             Stop(p, a) \/ Delete(p, a) \/ RevokeAccess(p, a)
      PROVE  request'[q] = request[q]
  BY <1>6 DEF Stop, Delete, Cancel, RevokeAccess, IInv, TypeOK
<1>7. ASSUME NEW p \in Callers \ {q}, Continues(p) \/ GivesUp(p)
      PROVE  request'[q] = request[q]
  BY <1>7 DEF Continues, Killed, Awaited, RevokeApprovals, FinishStop, Archive, Remove, GivesUp,
              IInv, TypeOK
<1>8. ASSUME NEW r \in Runs, Send(r) \/ Execution(r) \/ Ask(r)
      PROVE  request'[q] = request[q]
  BY <1>8 DEF Send, Execution, Begin, Spawn, ProcessEnds, Close, Clean, Settle, Last, Ask
<1>9. ASSUME NEW a \in Agents, Start(a)
      PROVE  request'[q] = request[q]
  BY <1>9 DEF Start
<1>10. CASE UNCHANGED vars
  BY <1>1, <1>10 DEF vars
<1> QED BY <1>1, <1>2, <1>3, <1>4, <1>5, <1>6, <1>7, <1>8, <1>9, <1>10 DEF Next

\* The invariant behind it holds of every execution: what a stop waits for is
\* the run it found, as long as that is the last of its agent.
THEOREM StopInductive == Spec => []StopInv
<1>1. Init => StopInv
  BY DEF Init, StopInv, InOrder, IsCurrent, Stops, Stopping, Idle
<1>2. IInv /\ StopInv /\ [Next]_vars => StopInv'
  BY InOrderStep, IsCurrentStep, StopsStep DEF StopInv
<1> QED BY <1>1, <1>2, Inductive, PTL DEF Spec

\* A stop that succeeds has ended the run it found: it is not executed any more
\* and holds no credential, unless the agent was sent another message.
THEOREM StopsTakeEffect == Spec => StopTakesEffect
<1>1. ASSUME IInv, StopInv, NEW q \in Callers, FinishStop(q),
             NEW r \in request[q].runs, NoLater(r)
      PROVE  exec[r] = "none" /\ r \notin credential
  <2>1. Stopping(q) /\ request[q].pc = "finishing"
    BY <1>1 DEF FinishStop, Stopping
  <2>2. request[q] \in Request
    BY <1>1, <2>1 DEF IInv, TypeOK, Stopping, Idle
  <2>3. r \in Runs
    BY <1>1, <2>2 DEF Request
  <2>4. exec[r] = "none"
    BY <1>1, <2>1 DEF StopInv, Stops, WaitsLong
  <2> QED BY <1>1, <2>3, <2>4 DEF IInv, Authority
<1>2. IInv /\ StopInv => \A q \in Callers :
        FinishStop(q) =>
          \A r \in request[q].runs : NoLater(r) => exec[r] = "none" /\ r \notin credential
  BY <1>1
<1> QED BY <1>2, Inductive, StopInductive, PTL DEF StopTakesEffect
=============================================================================
