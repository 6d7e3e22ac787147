# NawGate verification

TLA+ models of the NawGate server (`src/apps/server/src`), checked with TLC on
small instances, and theorems about all of them, proved with TLAPS for every
instance. Paths below are relative to `src/apps/server/src` unless they start
with `docs/` or `README.md`.

Run a model with `tlc -config MCGateway.cfg MCGateway`, check the proofs with
`tlapm ApprovalsProofs.tla` (likewise `OneUseProofs`, `GatewayProofs`,
`JsonStoreProofs`, `AgentRunsProofs`, `TeamPlanProofs`, `TeamRunsProofs`,
`GovernanceProofs`).

## 1. The system

One Node process. Everything asynchronous is a promise on one thread, so two
activities interleave exactly at their awaits, and nearly every await is a
write of the one JSON file that holds all persistent state. Run credentials,
promise chains and the table of running processes live in memory only.

| Part | State | Operations | Talks to |
| --- | --- | --- | --- |
| JSON store (`store.ts`) | the file, `data` in memory, the queue of mutations | `initialize`, `mutate`, `persist`, `verifyAuditIntegrity` | everything below writes through `mutate` |
| Approvals (`nawgate/approval-service.ts`) | `approvals`, `capabilityClaims` | `getOrCreate`, `get`, `approve`, `deny`, `consumeCapability`, `isConsumedClaimValid`, `revokeFor...` | store; called by the gateway, the HTTP API, grants, catalogue, agents |
| Approval authorities (`approval-authority-service.ts`) | `approvalAuthorities` | `revoke` (two mutations) | approvals |
| Runtime gateway (`runtime-gateway.ts`) | `executionTail` (a promise chain), `actionExecutions` | `execute`, `executeProtected`, replays | approvals, policy, risk, resources, grants, memberships, credentials |
| Protected resources and content boundary (`protected-resource-service.ts`, `local-destination-adapter.ts`) | the protected records and their executions | the side effects, each inside one mutation that rechecks | gateway, store |
| Destination catalogue (`destination-catalogue.ts`) | revision and status of destinations | bump, disable, revoke | approvals |
| Agent team grants (`agent-team-grant-service.ts`) | grants and their bundle versions | `enroll`, `revoke` | memberships, approvals, credentials, audit |
| Team memberships (`team-membership-service.ts`) | memberships | `addMembership`, `removeMembership` | policy |
| Runtime credentials (`runtime-credential-service.ts`) | live credentials, `revokedRunIds`, in memory | `issue`, `resolve`, `revoke`, `revokeAuthority` | middleware runner, gateway |
| Policy and risk engines (`policy-engine.ts`, `risk-engine.ts`) | none | `evaluate`, `assess`: pure decisions | gateway |
| Audit service and chain (`audit-service.ts`, `audit-chain.ts`) | `auditEvents`, a hash chain and its head | `record`, `appendAuditEvent`, `verifyAuditChain` | store |
| Agent service and runners (`agent-service.ts`, `nawgate/middleware-runner.ts`, `codex-runner.ts`) | agents, runs, `activeExecutions`, `cancellationRequests`, processes | `sendMessage`, `sendTeamMessage`, `executeRun`, start, stop, delete, `initialize` | store, credentials, approvals, orchestrator |
| Team orchestrator and DAG runner (`team-orchestrator.ts`, `team-dag-runner.ts`) | team runs, task graphs, the blackboard | `planTaskGraph`, `executeTeamRun`, `executeTaskNode` | runners, store, audit |
| DLP, flight recorder, security lab, identity, workspace, configuration, HTTP API, web UI | files, fixed tables or views | | |

What makes it hard, and what each part must get right:

- **Stale decisions.** A protected call is decided, queued, bound to revisions,
  approved by humans and carried out, with awaits in between at which every
  fact it was decided on can change. An allow decided earlier must not reach
  the side effect; what happens must be what the humans signed.
- **One use.** A capability claim is one-use under concurrent consumers,
  expiries, revocations and restarts; critical operations need two humans.
- **Half-done operations.** Revocations are two writes; a write fails, or the
  process restarts, between them. Evidence that follows a side effect may fail
  after the effect is durable.
- **Retries.** A request may be presented twice at once or again after a
  failure: its effect happens at most once and replays tell the truth.
- **The file.** It is replaced before memory is; verification of the audit
  chain is not queued with the mutations; damage that shows must seal the store,
  and what a start takes for the database may not be what was recorded.
- **Lifecycle.** Stop, delete, revoke-access and restart meet runs at any
  point of their life: authority must end with the run, requests must return.
- **Task graphs.** Proposals of a model that cannot be executed, dependencies
  that fail or are skipped, a bounded loop, two tasks of one agent, evidence
  that fails after a task completed, a stop that meets a whole team.
- **Who may do what.** Requests are checked before they are queued and again at
  their turn; the last admin of a team, an enrolment that was revoked or
  expired, an agent that was deleted must leave a state that decides rightly
  and that the next start accepts.

`PROJECT.json` lists every component and, under `hazards`, each of these where
it bites in the code with the properties aimed at it.

## 2. The modules

| Module | Models | State and steps |
| --- | --- | --- |
| `Approvals` | approval and authority services and the reconciliation at start | one action per `mutate` call, since the store serialises them; `revoke` of an authority is two actions (`RevokeAuthority`, `RevokeForAuthority`) that a failure or `Restart` may separate |
| `OneUseCapability` | the abstract promise of `Approvals`: opened, signed by distinct humans, usable, used at most once or void | `ImplementsOneUse` in `Approvals` is the refinement mapping |
| `ApprovalsProofs` | the theorems about `Approvals` | section 6 |
| `OneUseProofs` | that `Approvals` implements `OneUseCapability` | section 6 |
| `Gateway` | `RuntimeGateway.execute`, composed with `Approvals` by `INSTANCE`, and the world that changes its facts | a call has a program counter, one value per await; `tail` is `executionTail`; the side effect is two steps, the mutation that checks everything (`Perform`) and the write of the file (`Commit`), between which only what is outside the queue of mutations happens: a run is revoked, time passes, the process restarts; every world operation is a write that changes a record and adds the scope to `invalidating`, and a later `Invalidate` that revokes its approvals |
| `GatewayProofs` | the theorems about `Gateway`; those about `Approvals` are used through `INSTANCE` | section 6 |
| `JsonStore` | the file, memory, the queue of mutations, unqueued verifications, crashes, and a file that is deleted, torn, re-hashed, shortened, given another version or edited outside the evidence | one action per file operation of `persist` and per comparison; `initialize` with its branch for a missing file |
| `DurableLog` | the abstract promise of `JsonStore`: an append-only log whose acknowledged entries are in it | `ImplementsLog` in `JsonStore` maps it onto the file |
| `JsonStoreProofs` | the theorems about `JsonStore` | section 6 |
| `AgentRuns` | solo runs: `sendMessage`, `executeRun`, middleware and runner, start, stop, delete, revoke-access, `initialize` | an execution and a request each have a program counter; `cancelling`, `current`, `process`, `revoked` are the in-memory sets of the services |
| `AgentRunsProofs` | the theorems about `AgentRuns` | section 6 |
| `TeamPlan` | `planTaskGraph`: validation of a proposed graph, the heuristics that replace it | operators; the depth-first search of `HasCycle` is a recursive function of its calls (`Visit`, `Walk`), `Runnable` the reference it is compared with |
| `TeamRuns` | `sendTeamMessage`, the loop of the DAG runner over a graph of `TeamPlan`, its tasks with middleware and runner, stop, delete, start, `initialize` | the loop of a team run, every task and every request have a program counter; each stretch between two yields is an action, with an alternative for a write that fails; a message is planned (`Plan`) on what the store holds before the model provider is waited for, and accepted (`Accept`) after |
| `TeamPlanProofs` | that `HasCycle` is right and that every plan can be executed; facts about numbers that `TeamRunsProofs` needs too | section 6 |
| `TeamRunsProofs` | the theorems about `TeamRuns` | section 6 |
| `Policy` | `evaluate` of the policy engine, the tier of the risk engine, the approval the gateway asks for | operators; `Gate` is the composition |
| `AuditChain` | `appendAuditEvent`, `verifyAuditChain`, the chain of a migrated database | operators; a hash is the tuple that is hashed |
| `Governance` | memberships, enrolments, deletion of agents and the evidence of them, over a queue of mutations and the file; composed with `Policy` and `AuditChain`, which it extends | one action per mutation, by the request at the head of `queue`; `Fail` for one that is refused, throws or is not written |
| `GovernanceProofs` | the theorems about `Governance`, `Policy` and `AuditChain` | section 6 |
| `MCApprovals`, `MCGateway`, `MCJsonStore`, `MCAgentRuns`, `MCTeamRuns`, `MCGovernance` | values of the constants | |

Abstractions that matter:

- A *binding* stands for all `normalizeBinding` fixes: action, resource,
  payload digest, destination, revisions, risk and evidence. Malformed
  bindings are rejected before the store is touched and are left out. In
  `Gateway` a binding is an operation and the revisions it saw.
- In `Gateway` policy and risk are a tier per operation (`Tier`) and the set of
  facts that may change while a call waits (`Touched`): destination enabled,
  grant active, human a member, run alive. The rest of the decision is a
  function of data that does not change during a call; the function itself is
  `Policy`, whose verdicts `Governance` compares with what they should be.
- In `Policy` reason codes and explanations are left out, and organisation,
  business centre and account, which are always compared together, are one
  tenant. In `Governance` what a revocation does to runs and claims is a write
  (`Drain`) that may fail; what becomes of the claims is `Gateway`'s.
- In `TeamRuns` a caller makes one request, and the active grants of the team do
  not change; `owner`, `overlapped` and what a request `owes` are history that no
  step looks at. The output of a task matters only by whether it publishes
  anything to the blackboard (`Silent`); threads and messages are left out, and
  what the model provider proposes is an input.
- Evidence (audit records) appears as the chance of its write to fail, since a
  failed one changes the control flow; the contents are left out. Outside
  `Governance` and `AuditChain` the hash chain is a flag: it verifies, or not.
- A verification of the chain that runs beside the mutation queue may raise a
  false alarm (`AlarmsAreReal` below); `Recheck` in `Gateway` therefore may
  always deny.
- A damaged file is in `JsonStore` its log, the number of its events and where
  its chain comes from; in `Governance` it is the events themselves.
- Stretches of code between two awaits are atomic. In particular
  `Ask` in `AgentRuns` is: the gateway checks the credential in the same turn
  in which it queues the write of the approval, and the store's queue is FIFO.
- The `Variant` operators in the modules are not part of the specifications:
  each is a plausible slip in the definition that follows it, and
  `PROJECT.json` (`mutants`) records which property catches it.

## 3. The runs

| Run | Question | Instance |
| --- | --- | --- |
| `approvals` | one use, by what distinct humans signed, through expiry, revocation, restart; refinement of `OneUseCapability`; a revoked authority's approvals end | one request, a critical and an ordinary binding, three humans of whom one holds both roles, four authorities, two of which may fail between their two writes |
| `gateway` | two concurrent calls of one publication against revocation, new revisions, expiry, failing writes, quarantine and restart; and whether the promise chain ever stops | two calls, one request, two revisions per resource and destination, fairness |
| `gateway_team` | one request id presented with two operations, a read that needs no approval and an elevation on a team file, with grants revoked and enrolled again and memberships changing | two calls, alike (symmetry), two operations, two bundle versions, no failing write |
| `gateway_grant` | expected violation `EffectUnderBoundGrant` | one call, a team task run |
| `agent_runs` | two runs of an agent against stop, delete, start, revoke and restart | two runs, the first with failing writes, one request at a time, one restart, fairness |
| `agent_runs_one` | expected violation `OneActiveRun` | three runs, one stop |
| `store` | what file, memory and acknowledgements may disagree about; refinement of `DurableLog`, which may be fragile where replacing the file fails or it is edited; every mutation settles | three mutations (audited, plain, throwing), one verification, two crashes, one edit of any kind, failing replacement and direct write, fairness |
| `store_alarm` | expected violation `AlarmsAreReal` | two verifications, no damage at all |
| `team_runs` | whether plans can be executed, tasks had what they depend on, completion is real, a stop waits for what was going on and everything ends | a team of two, a message for every shape of plan (a usable proposal, one that is unusable for each reason there is, the three heuristics) and a second one of one task, at most three tasks in all, two iterations, one failing write, one stop or delete, one restart, fairness |
| `team_skips` | expected violation `DownstreamIsSkipped` | one message, 50 iterations, no failing write |
| `team_owners` | expected violation `TeamOfOneOwner` | the same, agents of two humans |
| `governance` | who may do what after any history of memberships and enrolments; whether the evidence tells an edited file from others | one team of two humans, one agent, two files, two enrolments, two waiting requests, one edit of the file, every kind of content and deployment request |

Why the bounds suffice for what is asked. Approvals of different requests
share only authorities, and each is changed by its own key, so one request
shows every interaction with them; four authorities include the human who
could fill both roles. Calls interact through the chain, the execution log and
the claim of a shared request: two calls of one request are the worst case.
Writes fail in `gateway` and not in `gateway_team`, for the size of the state
space; with two operations and failing writes the same is proved (section 6).
Revisions matter only as same or different (`MaxVersion = 2`); the clock only
as before or after an expiry (`MaxTime`, `TTL`). Two runs are what a stop can
confuse; three are used where a second active run needs one that came between.
For `team_runs` a loop of two iterations over three tasks stands for the 50 of
the code: the graphs are just as long as the loop, or one layer longer, which is
where an iteration more or less shows; with two agents and three tasks two ready
tasks share an agent. The second message may come while the first is planned or goes
on: its `Accept` replaces the entries of the agents in `activeExecutions`, and the
`End` of the run that ends first deletes those of the other, so that a stop finds
nothing while tasks run (section 5). It may also come after the first is over,
and then a stop must find it; two runs are what that takes.
For `governance` two enrolments are a past and a current one and two
waiting requests each other's stale check (two removals of admins); an expiry
is in the future or past (`MaxTime = 1`), and an enrolment asks for a viewer's
role without one or an admin's with one (`AskedTerms`); the agent, the humans and the team
interact by their own keys only. The content requests are all combinations of
owner, classification, version and registration that the engines tell apart.
The deadlock check is off everywhere: bounded clocks and counters and a
quarantined store stop the models, as does a program nobody calls.

Bounds in the guards: `MaxTime` (clock), `MaxVersion` (revisions),
`MaxCrashes`, `MaxRestarts`, `MaxRuns`, `MaxFaults` (failed writes of team
runs), `MaxWork` (tasks of all team runs), one request per caller in `TeamRuns`,
one edit of the file in `JsonStore`, `MaxEnrolments`, `MaxWaiting` (requests in the queue of `Governance`),
each mutation of `JsonStore` submitted once. In `Governance` the file is edited
once, while nothing waits, and afterwards only revocations are asked for; any
other mutation would be refused by the same guard of `Commit`. `MaxIterations`
is the code's own bound.

## 4. Properties

Each is stated in words above its definition. The main ones:

- `Approvals`: `ConsumedOnce`, `ClaimFollowsApproval` (claim and approval never
  disagree), `DualControl`, `ConsumesOnlyCurrent` (a use only with authorities
  that still hold and within the claim's lifetime), `BindingIsFixed`,
  `ImplementsOneUse`, `RevokedAuthorityDrains`.
- `Gateway`: `EffectsAreLogged` (at most one effect per request, and the record
  replays use is true), `SuccessIsReal`, `EffectMatchesApproval` (revisions
  acted on are those signed), `RevocationBeatsTheQueue` (facts of the store when
  the effect is written, the run when that write begins), `QuarantineFreezes`,
  `CallsReturn`.
- `JsonStore`: `AcknowledgedIsKept`, `DamageSeals` (what shows is not written
  over, by the running server or by one that finds the file unreadable or its
  chain broken), `ImplementsLog`, `MutationsSettle`.
- `AgentRuns`: `AuthorityEndsWithRun`, `RevocationIsFinal`, `BusyAgentsRun`,
  `StopTakesEffect`, `RunsEnd`, `RequestsReturn`.
- `TeamRuns`: `PlansAreRunnable` (what is executed has no cycle and no unknown
  task, compared with a definition by subsets), `InputsAreComplete` (a task that
  was launched had what it depends on, and none of it failed afterwards),
  `CompletionIsWitnessed`, `FailuresHaveATask` (only a failed task, or a graph
  longer than the loop, fails a run), `StopWaitsForTheTeam` (for every run that was
  going on with the agent and overlapped no other, whether the stop found it or
  not), `TeamRunsEnd` (the ordinary run, the team run and the agents they made
  busy), `RequestsReturn`.
- `Governance`: `TeamsKeepAnAdmin`, `GrantsLoad` (what any history leaves is
  accepted at the next start), `DecidesByCurrentEnrolment` (the engines against
  a verdict from the latest enrolment alone), `DamageIsSeen` (a store that goes on
  holds the chained events it recorded, unless a start has adopted an edited chain
  that verifies by itself), `ExposureIsApproved`.

A property proved for every instance and implied by one that is run has no run
of its own: `TypeOK` of `Approvals`, `AgentRuns`, `JsonStore` and `Governance`,
and `FileLeadsMemory`. `NoFalseAlarm` is run as the second half of
`DamageIsSeen`.

### Fairness

- `Approvals`: weak fairness of the second write of `revoke`; it is the next
  statement of the same function. Where that write may fail (`Unlucky`) the
  drain is not claimed.
- `Gateway`: weak fairness of each call's next step. Every step is the
  continuation of an await of a store write, which settles (`MutationsSettle`).
  Nothing is assumed of the humans, who may never decide: a call does not wait
  for them, it returns "approval required".
- `JsonStore`: weak fairness of the file operation in progress and of the
  queue. A started file operation completes or fails.
- `AgentRuns`: weak fairness of an execution's next step and of a request's.
  A process that does not exit by itself is killed when it times out
  (`codex-runner.ts` 187-190, 230-240).
- `TeamRuns`: the same, of the loop, of every task and of every request. Nothing
  is claimed of a server that went down by a rejected promise, nor of a team run
  whose last write failed (`lost`): until the next start nothing resumes it.
- `Governance`: none; nothing is claimed about when a request has its turn.

## 5. Where documentation and code differ

Each is shown by a run that expects the violation; `findings` in
`PROJECT.json` has lines and quotes.

- `EffectUnderBoundGrant`: the final recheck compares revisions of the resource
  and the destination, not the bundle version of the grant. A team task run
  that consumed its claim can act under an enrolment nobody approved.
- `OneActiveRun`: the last write of a stop overwrites the "busy" of a message
  accepted meanwhile; start and another message give a second active run.
- `DownstreamIsSkipped`: a task behind a skipped one is neither ready nor
  skipped and stays pending in a team run that is over.
- `TeamOfOneOwner`: the agents of a team run are all that are enrolled in the
  team, whoever owns them; a message of one human has tasks run by the agents of
  another, as him (`humanId` of the task's credential is the sender).
- `AlarmsAreReal`: verification outside the mutation queue reports an untouched
  store as broken.

Seen in the models without a run of their own:

- An agent stays busy when the first write of `executeRun` fails
  (`BusyAgentsRun` exempts it, by `Unlucky`), and a start cut off between ending
  the interrupted runs and revoking their approvals leaves these open
  (`AuthorityEndsWithRun` likewise).
- When the evidence that follows a side effect cannot be written
  (`nawgate/runtime-gateway.ts` 1114, 1165), the caller is told that the action
  failed, while the effect is durable and a retry replays "success".
- When the temporary file cannot be written or renamed, the fallback (`store.ts`
  1395) truncates the database in place, where `docs/ARCHITECTURE.md` 80 says it
  is replaced atomically; this is why `Promise` in `JsonStore` is fragile where
  `ReplaceMayFail`.
- A start writes a fresh database over a file that is missing and takes one whose
  chain was re-hashed or shortened, or whose version is an older one, for what was
  recorded (`store.ts` 1266-1292): such damage is seen until the server is started
  again, not after (`damage = "loaded"` in `JsonStore`, `adopted` in `Governance`).
- Revoking the access of a run waits for no write. A run that is revoked between
  the final recheck and the end of the write behind it
  (`nawgate/runtime-gateway.ts` 1358, `store.ts` 1375) still has that effect,
  which is why `RevocationBeatsTheQueue` speaks of the run when the write begins.
- Of two team runs with an agent in common the one that ends first makes their
  agents forget the other (`agent-service.ts` 451-453, without the comparison of
  342): a stop or delete then returns while tasks of the other still run.
- An agent that was stopped or deleted while the model provider plans is planned
  for all the same (`agent-service.ts` 359-426); a task of a deleted one fails.
- A revocation of a grant whose later writes failed is retried to no effect on
  the runs: `changed` is false by then, so only the claims are drained again and
  no run of the agent loses its authority (`agent-team-grant-service.ts`
  175-197; `docs/nawgate/overview.md` 47).
- Stopped agents still get tasks of a team run: neither `sendTeamMessage` nor
  the DAG runner looks at their status (`agent-service.ts` 413-426, 451-457;
  `docs/nawgate/workflow.md` 68-71 says a stopped state fails closed). Likewise
  two messages to one team are accepted at once.
- A team run and its tasks stay "running" after a restart; `initialize` looks at
  the ordinary runs and the agents only (`agent-service.ts` 48-75).
- The promises a team run leaves in `activeExecutions` have no handler
  (`agent-service.ts` 457): one that is rejected while no stop waits for it ends
  the process (`down` in `TeamRuns`).

## 6. What is proved

The only assumptions are those on the constants, named in the module that
declares them and evaluated by TLC in every run, and those a theorem states
itself.

### Approvals

`ApprovalsProofs` proves about `Spec` of `Approvals`, for all sets of requests,
bindings, scopes, humans and authorities, and any TTL and bound on the clock,
from `ApprovalsAssumption` alone:

| Theorem | Property |
| --- | --- |
| `TypeCorrect` | `TypeOK` |
| `Inductive` | `IInv` |
| `ConsumedAtMostOnce` | `ConsumedOnce` |
| `ClaimsFollowApprovals` | `ClaimFollowsApproval` |
| `DualControlHolds` | `DualControl` |
| `UsesAreCurrent` | `ConsumesOnlyCurrent` |
| `BindingsAreFixed` | `BindingIsFixed` |
| `ApprovalsAreOneUse` (in `OneUseProofs`) | `ImplementsOneUse` |

The argument. Type correctness goes action by action over lemmas on the
records the actions write. None of the three invariants is inductive alone:
"consumed at most once" needs to know that a request whose use was counted is
in a status from which no path leads back to "approved"; that the claim
carries its use exactly while the approval is approved is what makes
consumption and status move together; and dual control of an approved record
depends on the shape of its decisions while it was still pending (distinct
humans, roles in the required order, no decision on record where there is no
approval). `IInv` is `TypeOK` and, for every request, the conjunction `Sound` of
those parts: `Once` (counts and status), `Follows` (claim and approval) and
`Signed` (the decisions of a pending, approved or consumed record). A step
touches either one request (decisions, consumption, expiry) or all of them in
the same way (revocation, reload), so each lemma proves `Sound` of one request
after one kind of step. The two action properties follow from the invariant and
a case split on the actions that can consume, or can change a binding.

For the refinement every step is described by what it does to each request:
nothing the capability shows (`Same`), or it is opened, signed, used, ended or,
by a restart, relabelled. Opening, signing and use touch one request and are the
abstract action of that name; the others may touch many at once, as the abstract
`Void` does. The status "revoked" of a consumed approval that a restart finds
still maps to "used", because the count of uses tells, which is the part of
`IInv` the mapping needs.

The run `approvals` shows the same properties on its instance.

### The gateway

`GatewayProofs` proves about `Spec` of `Gateway`, for any number of calls,
requests, operations and revisions, whether or not writes may fail, from
`GatewayAssumption`:

| Theorem | Property |
| --- | --- |
| `GatewayTypes` | `TypeOK` |
| `GatewayInductive` | `IInv` |
| `GatewayKeepsApprovals` | every step is a step of `Approvals` or a stutter |
| `GatewayConsumesOnce` | `ConsumedOnce` of the approvals inside the gateway |
| `LoggedEffects` | `EffectsAreLogged` |
| `RealSuccesses` | `SuccessIsReal` |
| `ApprovedEffects` | `EffectMatchesApproval` |
| `RevocationsBeatTheQueue` | `RevocationBeatsTheQueue` |
| `QuarantinesFreeze` | `QuarantineFreezes` |

The argument. What the gateway does to approvals is what `Approvals` allows
(`GatewayKeepsApprovals`), for the constants it is given here, whose assumptions
are proved and not repeated (`ApprovalsApply`); so `IInv` of `Approvals`, with
everything that follows from it, is part of the invariant here (`ApprovalsInv`).
The rest is the order of the calls. `Orderly`: a call in progress has its place
in the chain `tail`, and one that is past the queue is at its head; hence at most
one call runs. `Knows` says what that one call may rely on: its
binding is of its operation, and until its effect nothing was logged for its
request, or what was logged is its own. This is why it is enough to look into the log once, at
the beginning of the turn, although the effect comes several awaits later, and
it is what makes `EffectsAreLogged`, `SuccessIsReal` and `EffectMatchesApproval`
inductive. `RevocationsBeatTheQueue` is about an effect that is written awaits
after it was checked. `Cleared` says of a call in that write that all it was
checked for still holds but the run's being alive; it is kept because nothing
that could change it is outside the queue of mutations (`NothingMoves`,
`ClearedStays`), except a restart, which ends the call. `QuarantinesFreeze` needs
the same, since a store that is broken by then has no such call.

The runs `gateway` and `gateway_team` show the same properties on their
instances.

### The store

`JsonStoreProofs` proves about `Spec` of `JsonStore`, for any mutations and
verifications, whether or not replacing and writing the file may fail and
somebody damages it, from `StoreAssumption`:

| Theorem | Property |
| --- | --- |
| `TypeCorrect` | `TypeOK` |
| `Inductive` | `IInv` |
| `NothingAcknowledgedIsLost` | `AcknowledgedIsKept` |
| `FileIsAhead` | `FileLeadsMemory`: an undamaged file is memory or one mutation ahead |
| `StoreIsADurableLog` | `ImplementsLog`, where the temporary file can always be written and renamed and nobody edits the file |
| `DamageIsNotHealed` | `DamageSeals` |

The argument. That acknowledged mutations are kept is not inductive: the file
is overwritten with a copy made some awaits earlier, so one must know what that
copy is. `WriterIsHead` says it: memory and the mutation at the head of the
queue, or memory itself while the server starts. Since only the writer changes
memory, the copy cannot grow stale. `FileFollows` says that what is about to be
committed is what the file holds, and `Kept` is the property in a form that
also covers the server while it starts. For the refinement three more facts are
needed: what is queued waits once and has not been applied (`QueueIsFresh`),
file and memory agree except between the write and the commit
(`FileIsMemory`), and whatever the file holds is acknowledged, lost with its
answer, or about to be acknowledged (`LogIsSettled`). Then `Replace` is an
addition to the log or, at start, a stutter; `Commit` an acknowledgement; and
every other step stutters. The two assumptions of the theorem are needed: the
fallback, which is taken when the temporary file cannot be written as well as when
its rename is refused, truncates the log, and damage may empty it. What damage
takes out of the file memory still has, so all of the above is said of a file that
is `Readable` (undamaged) and until a start has loaded a damaged one.

`DamageIsNotHealed` rests on an invariant of its own (`Sealed`): once an idle
store was damaged in a way that shows, the file does not verify, the writer rests,
and none of the mutations that had not begun is done; and a start either refuses
the file, or finds its chain broken and stays sealed, or loads it, and from then
on nothing is claimed but that a broken chain stays broken.

The run `store` shows the same properties on its instance, and the refinement
also where the log is fragile.

### Runs of agents

`AgentRunsProofs` proves about `Spec` of `AgentRuns`, for any number of agents,
runs, requests and restarts, from `AgentRunsAssumption`:

| Theorem | Property |
| --- | --- |
| `TypeCorrect` | `TypeOK` |
| `Inductive` | `IInv` |
| `AuthorityEnds` | `AuthorityEndsWithRun` |
| `RevocationsAreFinal` | `RevocationIsFinal` |
| `NoIdleBusyAgent` | `BusyAgentsRun` |
| `StopInductive` | `StopInv` |
| `StopsTakeEffect` | `StopTakesEffect` |

The argument. Stop, delete and revoke-access meet an execution at any of its
awaits, and an execution ends a run only after its clean-up. Two conjuncts of
`IInv`, for each run, relate the place an execution has reached to what it may
hold. `Phase`: an ended run has no execution left but for its last step, a
result is set before the clean-up starts, a run is deleted exactly with its
agent. `Authority`: a credential is held only between its issue and the closing
of the runner, and never by a revoked run; an approval is open only until the
clean-up, or of a deleted run, unless the run's own writes fail.
`BusyAgentsRun` is inductive with them. Each action has a lemma for the types
and one for these three.

`StopsTakeEffect` needs a second invariant, `StopInv`, because a stop looks at
`activeExecutions` and not at the runs. Runs are accepted in order, so the
newest run of an agent is the one that `current` names as long as it executes;
a stop that found it either waits for it or came after its end; and a run whose
execution has ended never gets one again. For an agent that was sent a later
message nothing of this holds, which is the exemption in the property
(`NoLater`).

The run `agent_runs` shows the same properties on its instance.

### Runs of teams

`TeamRunsProofs` proves about `Spec` of `TeamRuns`, for any team, any messages
and plans, any limits on tasks, iterations, faults and restarts and any number
of requests, from `TeamRunsAssumption`. What it says of the messages is only
that a proposal is a sequence of tasks and that tasks can be numbered up to
`MaxTasks`: those of a proposal have such numbers and name only such, a countdown
is no longer, and the limit leaves room for what the heuristics plan, three tasks
or one for each of up to three agents and a review. Whether a proposal makes
sense is left open. `TeamPlanProofs` assumes nothing.

| Theorem | Property |
| --- | --- |
| `Inductive` | `IInv` |
| `TypeCorrect` | `TypeOK` |
| `FailuresAreOfTasks` | `FailuresHaveATask` |
| `LaunchedWithInputs` | `InputsAreComplete` |
| `CompletedIsWitnessed` | `CompletionIsWitnessed` |
| `StopsWaitForTheTeam` | `StopWaitsForTheTeam` |
| `PlansCanBeExecuted` | `PlansAreRunnable` |
| `ShortPlansFailByTasks` | where no write fails and `MaxTasks <= MaxIterations`, a failed run has a failed task |
| `CyclesAreFound` (`TeamPlanProofs`) | `HasCycle(g) <=> ~Runnable(g)` for every graph |
| `PlansRun` (`TeamPlanProofs`) | every plan of `PlanTaskGraph` is closed and `Runnable` |

The argument. The hazard is that the loop, its tasks and the requests advance on
their own: a task may be completed and fail afterwards, a layer may be abandoned
while its tasks still run, a stop may come in between. `IInv` says for each run
how where the loop stands fits where its tasks do. `Settles`: tasks are in
progress only while the loop waits, or after it was given up with an exception.
`Marked` and `Fed`: a task in progress was launched, and what a launched task
depends on has completed, is no longer in progress - so that nothing can make it
fail any more - and was on the blackboard when it was read (`Boards`).
`Witnessed`: what completed and is no longer in progress has its evidence.
`Complete`: a run is called completed only when nothing is left to do.
`Identified`: only tasks in progress hold a credential. `HasWaited`: a request
that is about to finish has seen its run end, without an exception. Since a step
concerns one run, each has one lemma for that run, and `RunUntouched` serves the
others.

For `StopsWaitForTheTeam` that is not enough, because what a stop has to wait for
(`owes`: the runs that were going on with its agent when it looked) is not what it
waits for (what `activeExecutions` names). `FoundInv` closes the gap: a run that
is going on and overlapped no other is the one that is current for each of its
agents (`Held`), since only another run with an agent in common could replace or
delete its entries (`Apart`); so whatever a request owes is what it found
(`Found`), and `HasWaited` and `Settles` do the rest.

For `TypeCorrect` every branch of `PlanTaskGraph` is shown to give a graph of
tasks for agents that are present (`PlanTypes`), which needs that `FirstOr` finds
an agent wherever there is one; `TypeInv` adds that exactly the tasks of the graph
have a status (`Planned`).

`FailuresAreOfTasks` needs to know how far a run has come. `Progress` says it of
runs whose every write succeeded: a task is running exactly while it is in
progress, and as long as none has failed, nothing is skipped and all tasks of the
first `iteration` layers were launched; when the loop is left nothing more is
ready, or all iterations were used. So a layer either gives the loop something to
do or was the last one. That `Layers`, a recursive function, is what its
definition says follows from `Recursion` in `TeamPlanProofs`.

`PlansCanBeExecuted` rests on `CyclesAreFound`, the correctness of the search,
termination included. A call of `dfs` is a task, the tasks visited so far and the
path to it, and the search is a recursive function of such calls. That there is
one function with that recursion (`SearchExists`, `SearchIsUnique`) is not
obvious, since a call may lead to any other: it holds because a nested search has
fewer unvisited tasks left (`LeftDecreases`), so answers can be built up, and
agree, by that number. By the same number each call is shown to be `Right`. A
call that finds no cycle leaves the visited tasks off its path `Sound`: whatever
such a task waits for is among them, and every set of them has a member that
waits for no other. A call that finds one means that tasks wait for each other,
as long as every task of the path leads to the one in hand (`Leads`). A proposal
that passes is then `Runnable`; the heuristics need no search, since they let a
task wait only for earlier ones (`EarlierFirst`). A run keeps its graph once it
has it (`StepRunnable`).

`ShortPlansFailByTasks` removes the exemption from `FailuresHaveATask`: in a plan
that can be executed each layer holds at least one more task as long as any is
left (`LayersGrow`), so a loop with as many iterations as tasks reaches all of
them. The code allows 50 iterations, so only a countdown or an accepted proposal
of more than 50 tasks can be cut off.

The run `team_runs` shows the same properties on its instance.

### Memberships, enrolments, decisions and evidence

`GovernanceProofs` proves about `Spec` of `Governance`, for any humans, agents
and teams, any files and content requests, any number of waiting requests,
enrolments and events, from `GovernanceAssumption`:

| Theorem | Property |
| --- | --- |
| `TypeCorrect` | `TypeOK` |
| `AlwaysSound` | `Sound` |
| `AdminsRemain` | `TeamsKeepAnAdmin` |
| `EnrolmentsCanBeLoaded` | `GrantsLoad` |
| `RecordingNeverSeals` | `NoFalseAlarm` |
| `FilesAreDecidedByTheLatest` | `DecidesByCurrentEnrolment` |
| `ExposureNeedsApproval` | `ExposureIsApproved` |
| `UnapprovedIsHarmless` | `Harmless`: what an agent may do with what one human owns without a signature |
| `EditsAreSeen` | `DamageIsSeen` |

The argument. `Sound` is the two properties with the types of what they speak
about; it says nothing of the queue, and that is the point: it is inductive
because every mutation repeats its checks at its turn, whatever was checked
before it was queued. That an enrolment can be loaded needs the version of a new
one to exceed all earlier ones of the same agent and team. For the chain the
invariant is that file and memory are the same evidence and that it verifies; it
is kept because appending one event to a chain that verifies gives a chain that
does, for any number of events, or, beside edits, that memory is what was recorded
until a start adopts another chain (`Remembered`).

`FilesAreDecidedByTheLatest` compares the engines, which take the first active
enrolment in the list, with a verdict from the latest one. They agree because an
active enrolment is always the latest of its agent and team (`Current`): a new
one is refused while another is active, whatever has expired meanwhile.

`ExposureNeedsApproval` is a case split over `Evaluate` and `TierFor` for every
request the gateway can build (`ContentRequests`): what is broadened or leaves
the organisation is denied or gets a tier that takes enough signatures. The
assumptions on these requests say how `policyActionAttributes` builds them: a
destination is registered only for a content action that names one, and such a
record has an exposure.

`UnapprovedIsHarmless` is the other side, for any request at all: what is carried
out with no signature is reading the owner's profile, or moderating or disclosing
content within its binding, the latter to an enabled destination of the same
tenant and region that is not open to everybody. The policy engine alone would
allow more (a staging deployment, a disclosure elsewhere); that the tier of the
risk engine adds the signature is what the proof turns on.

`EditsAreSeen` is the collision argument of a hash chain. The head that memory
holds fixes the last event, its hash fixes the record and the hash before it,
and so on down to the records that were migrated (`HeadIdentifiesChain`, by the
least position at which two chains differ). It asks only that the file is still
evidence, a list of records with a head, which is shown of each edit in
`Damaged`, also of the most hurtful one, a chain that was recorded afresh
(`RewrittenIsEvidence`; `RecordedAfresh` shows that such a chain exists).
Memory, in turn, is what was recorded, since a start that finds an edited chain
either finds it broken, and then no mutation passes, or adopts it, which the
property leaves out by name: the code keeps nothing outside the file to compare it
with. What the result does not say is that hashes do not collide: in the model a hash is
the tuple that is hashed.

`RecordingNeverSeals` and `EditsAreSeen` assume `NullIsNoHash`, that no hash is
the value that stands for none.

The run `governance` shows the same properties on its instance.

### Only model-checked

- Liveness (`RevokedAuthorityDrains`, `CallsReturn`, `MutationsSettle`,
  `RunsEnd`, `RequestsReturn`, `TeamRunsEnd`): out of the prover's reach.

## 7. What is not modelled

- The text of prompts, plans, outputs and specifications; what a model provider
  proposes beyond the shape of a graph.
- Creating and editing agents; the container runner's own commands.
- Expiry of credentials and tokens (a call then ends as after a revocation).
- DLP (regular expressions), flight recorder and security lab (views and
  scenarios over other services), identity (a fixed table), workspace files and
  configuration (I/O), parsing and error mapping of the HTTP API, the validation
  of endpoints of destinations, the web UI.
- Digests and signatures: equal contents are equal values.
- What the migrations of old database formats in `initialize` do to records and
  the seeding of a new database; `Migrated` in `AuditChain` is what they leave of
  the evidence, and `JsonStore` has the decision whether to migrate, seed, refuse
  or write back.
- Grants of a team that change while one of its messages is planned, and a caller
  that makes several requests (`TeamRuns`).
- A `Gateway` over the tables of `Governance`: the two share `Policy` only by
  argument, and together they would be too large for TLC.

## 8. Plan

Nothing of the core is left unmodelled, and every invariant and action property
of the runs is proved. What is left is `Gateway` over the
tables of `Governance`, by proof instead of by argument: the facts a call rechecks
would become functions of memberships and enrolments.
