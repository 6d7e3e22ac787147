------------------------------- MODULE Gateway -------------------------------
(***************************************************************************)
(* RuntimeGateway.execute: the path of a protected action from its         *)
(* admission to its side effect, composed with the approvals it consumes   *)
(* (Approvals), the mutable facts its policy reads (resource, destination  *)
(* and grant revisions, memberships, run credentials) and the operators    *)
(* and humans who change those facts meanwhile.                            *)
(*                                                                         *)
(* A call is one invocation of execute.  It stops at every await of a      *)
(* store write; between two stops the code runs on one thread, so each     *)
(* stop is a program counter and each stretch between two an action.  The  *)
(* calls past admission run one at a time, in the order of a promise chain *)
(* (executionTail); the environment never waits for them.                  *)
(*                                                                         *)
(* Writes of audit evidence appear only as the chance to fail: a call      *)
(* whose evidence cannot be written ends with an exception.                *)
(***************************************************************************)
EXTENDS Naturals, Sequences

CONSTANTS
  Calls,         \* slots for concurrent invocations of execute
  Requests, Runs, RunOf,
  SoloRuns,      \* the runs listed in database.runs; team task runs are not
  Operations,    \* action, resource, payload and destination of a request
  Tier,          \* the risk tier of an operation
  Reads,         \* operations whose boundary leaves all rechecks to the gateway
  Resources, Destinations, Grants, Teams,
  Touched,       \* what an operation names and its policy depends on
  MaxVersion,    \* bound on revisions and bundle versions
  NoBinding, Humans, Authorities, HumanOf, RoleOf,
  CoversOps,     \* the operations an approval authority may sign for
  TTL, MaxTime, WritesMayFail

Versioned == Resources \cup Destinations \cup Grants
Gates == Destinations \cup Grants \cup Teams
Versions == 1 .. MaxVersion

VARIABLES
  now, authority, approval, claim, revoking, consumptions,  \* of Approvals
  version,       \* revision of a resource or destination, bundle of a grant
  standing,      \* destination enabled, grant active, human a member
  live,          \* runs whose in-memory credential authority is active
  invalidating,  \* scopes whose approvals are about to be revoked
  executions,    \* actionExecutions, by request, oldest first
  effects,       \* the side effects that happened, by request
  told,          \* the final results callers have received, by request
  intact,        \* the persisted audit chain verifies
  call,          \* the invocations in progress
  tail           \* executionTail: admitted calls in order, the head runs

approvalVars == <<now, authority, approval, claim, revoking, consumptions>>
worldVars == <<version, standing, live, invalidating, intact>>
callVars == <<executions, effects, told, call, tail>>
vars == <<approvalVars, worldVars, callVars>>

-----------------------------------------------------------------------------
(* The binding of an approval: the operation and the revisions it saw.     *)

VersionedIn(o) == Touched[o] \cap Versioned

BindingsOf(o) == [op : {o}, at : [VersionedIn(o) -> Versions]]

Bindings == UNION {BindingsOf(o) : o \in Operations}

BindingOf(o) == [op |-> o, at |-> [s \in VersionedIn(o) |-> version[s]]]

\* One name is never both a grant and a resource or destination: the three
\* registries give out identifiers of their own.
ASSUME GatewayAssumption ==
  /\ SoloRuns \subseteq Runs
  /\ RunOf \in [Requests -> Runs]
  /\ Tier \in [Operations -> {"low", "high", "critical"}]
  /\ Reads \subseteq Operations
  /\ Grants \cap (Resources \cup Destinations) = {}
  /\ Touched \in [Operations -> SUBSET (Versioned \cup Teams)]
  /\ NoBinding \notin Bindings
  /\ HumanOf \in [Authorities -> Humans]
  /\ RoleOf \in [Authorities -> {"owner", "independent_reviewer"}]
  /\ CoversOps \in [Authorities -> SUBSET Operations]
  /\ TTL \in Nat \ {0}
  /\ MaxTime \in Nat
  /\ MaxVersion \in Nat \ {0}
  /\ WritesMayFail \in BOOLEAN

\* An approval names one enrolment of a grant, so the bundle is part of it.
ScopeOf(s, v) == IF s \in Grants THEN <<s, v>> ELSE s

ScopesOf == [b \in Bindings |-> {ScopeOf(s, b.at[s]) : s \in DOMAIN b.at}]

A == INSTANCE Approvals WITH
  Critical <- {b \in Bindings : Tier[b.op] = "critical"},
  Scopes <- Runs \cup Resources \cup Destinations \cup (Grants \X Versions),
  Unlucky <- {a \in Authorities : WritesMayFail},
  Covers <- [a \in Authorities |-> {b \in Bindings : b.op \in CoversOps[a]}]

-----------------------------------------------------------------------------

Idle == [pc |-> "idle"]

Steps ==
  {"queued", "request", "consume", "recheck", "effect", "persisting", "recording", "failing"}

Call ==
  [pc : Steps, request : Requests, op : Operations, approved : BOOLEAN,
   binding : Bindings \cup {NoBinding}]

Results == [status : {"succeeded", "failed"}, op : Operations]

TypeOK ==
  /\ A!TypeOK
  /\ version \in [Versioned -> Versions]
  /\ standing \in [Gates -> BOOLEAN]
  /\ live \subseteq Runs
  /\ invalidating \subseteq Runs \cup Resources \cup Destinations \cup (Grants \X Versions)
  /\ executions \in [Requests -> Seq(Results)]
  /\ effects \in [Requests -> Seq(Bindings)]
  /\ told \in [Requests -> SUBSET Results]
  /\ intact \in BOOLEAN
  /\ call \in [Calls -> Call \cup {Idle}]
  /\ tail \in Seq(Calls)

Init ==
  /\ A!Init
  /\ version = [s \in Versioned |-> 1]
  /\ standing = [g \in Gates |-> TRUE]
  /\ live = Runs
  /\ invalidating = {}
  /\ executions = [r \in Requests |-> <<>>]
  /\ effects = [r \in Requests |-> <<>>]
  /\ told = [r \in Requests |-> {}]
  /\ intact = TRUE
  /\ call = [c \in Calls |-> Idle]
  /\ tail = <<>>

Alive(r) == RunOf[r] \in live

\* PolicyEngine.evaluate, as far as facts that change while a call waits.
Permits(o) == \A g \in Touched[o] \cap Gates : standing[g]

WriteFails == WritesMayFail \/ ~intact

\* Variant: a call that returns leaves its place in the chain taken.
KeepsItsPlace(c) ==
  /\ call' = [call EXCEPT ![c] = Idle]
  /\ UNCHANGED tail

\* The call at the head returns or throws, and the next one in the chain may
\* run; only final results are worth remembering.
Finish(c) ==
  /\ call' = [call EXCEPT ![c] = Idle]
  /\ tail' = Tail(tail)

Tell(r, result) == told' = [told EXCEPT ![r] = @ \cup {result}]

At(c, pc) == call[c].pc = pc

Goto(c, pc) ==
  /\ call' = [call EXCEPT ![c].pc = pc]
  /\ UNCHANGED tail

Replay(r) == executions[r][1]

\* Variant: the lookup of an execution finds none.
NeverAnswered(r) == r \notin Requests

Answered(r) == executions[r] # <<>>

-----------------------------------------------------------------------------
(* Before the queue.  A denied admission changes nothing and is not shown. *)

ReplayAtAdmission(r, o) ==
  /\ intact
  /\ Alive(r)
  /\ Answered(r)
  /\ Replay(r).op = o
  /\ Tell(r, Replay(r))
  /\ UNCHANGED <<approvalVars, worldVars, executions, effects, call, tail>>

Admit(c, r, o, approved) ==
  /\ call[c] = Idle
  /\ intact
  /\ Alive(r)
  /\ ~Answered(r)
  /\ Permits(o)
  /\ call' = [call EXCEPT ![c] =
       [pc |-> "queued", request |-> r, op |-> o, approved |-> approved,
        binding |-> NoBinding]]
  /\ tail' = Append(tail, c)
  /\ UNCHANGED <<approvalVars, worldVars, executions, effects, told>>

-----------------------------------------------------------------------------
(* At the head of the queue everything is resolved again.                  *)

NextStep(o, approved) ==
  CASE Tier[o] = "low" -> "recheck"
    [] approved -> "consume"
    [] OTHER -> "request"

Decide(c) ==
  LET r == call[c].request
      o == call[c].op
  IN  /\ At(c, "queued")
      /\ Head(tail) = c
      /\ \/ /\ Answered(r)
            /\ Finish(c)
            /\ IF Replay(r).op = o THEN Tell(r, Replay(r)) ELSE UNCHANGED told
         \/ /\ ~Answered(r)
            /\ ~Alive(r) \/ ~Permits(o)
            /\ Finish(c)
            /\ UNCHANGED told
         \/ /\ ~Answered(r)
            /\ Alive(r)
            /\ Permits(o)
            /\ call' = [call EXCEPT ![c].pc = NextStep(o, call[c].approved),
                                    ![c].binding = BindingOf(o)]
            /\ UNCHANGED <<tail, told>>
      /\ UNCHANGED <<approvalVars, worldVars, executions, effects>>

\* getOrCreate: the caller is told to come back with the approval, or that
\* the approval was decided otherwise, or that it names another operation.
RequestApproval(c) ==
  LET r == call[c].request
      b == call[c].binding
  IN  /\ At(c, "request")
      /\ \/ intact /\ A!GetOrCreate(r, b)
         \/ /\ approval[r].status # "none"
            /\ ~(A!SameRequest(r, b) /\ A!Lapsing(r))
            /\ UNCHANGED approvalVars
         \/ WriteFails /\ UNCHANGED approvalVars
      /\ Finish(c)
      /\ UNCHANGED <<worldVars, executions, effects, told>>

\* A consumption whose evidence cannot be written spends the claim for nothing.
Consume(c) ==
  LET r == call[c].request
      b == call[c].binding
  IN  /\ At(c, "consume")
      /\ \/ /\ intact
            /\ A!ConsumeCapability(r, b)
            /\ IF consumptions' # consumptions
               THEN Goto(c, "recheck") \/ (WritesMayFail /\ Finish(c))
               ELSE Finish(c)
         \/ /\ ~A!Consumes(r, b)
            /\ Finish(c)
            /\ UNCHANGED approvalVars
         \/ /\ WriteFails
            /\ Finish(c)
            /\ UNCHANGED approvalVars
      /\ UNCHANGED <<worldVars, executions, effects, told>>

-----------------------------------------------------------------------------
(* The side effect and the checks next to it.  The first recheck reads     *)
(* between writes; the second runs inside the store mutation that performs *)
(* the effect, so nothing persisted can change between it and the effect.  *)

NeedsApproval(o) == Tier[o] # "low"

\* Variant: what was resolved when the call was decided is taken as it was.
AnyRevisions(c) == At(c, "effect") \/ At(c, "recheck")

\* Grants are left out: the recheck compares no bundle version.
SameRevisions(c) ==
  \A s \in VersionedIn(call[c].op) \ Grants : call[c].binding.at[s] = version[s]

ApprovalHolds(c) ==
  NeedsApproval(call[c].op) => A!IsConsumedClaimValid(call[c].request, call[c].binding)

\* Variants: a final recheck that trusts the credential the call came with;
\* one that trusts the policy decision made at the head of the queue.
AuthorizedByCredential(c) == Permits(call[c].op) /\ ApprovalHolds(c)
AuthorizedByDecision(c) == Alive(call[c].request) /\ ApprovalHolds(c)

Authorized(c) ==
  /\ Alive(call[c].request)
  /\ Permits(call[c].op)
  /\ ApprovalHolds(c)

\* The verification of the audit chain between the two rechecks may take a
\* commit of another caller for damage, and then denies what was authorised.
Recheck(c) ==
  /\ At(c, "recheck")
  /\ \/ intact /\ SameRevisions(c) /\ Authorized(c) /\ Goto(c, "effect")
     \/ Finish(c)
  /\ UNCHANGED <<approvalVars, worldVars, executions, effects, told>>

\* Variants of the log: it stores the word the caller is answered with; the
\* latest record comes first; every record is a success.
LogAnswer(r, status, o) ==
  executions' = [executions EXCEPT ![r] =
    Append(@, [status |-> IF status = "succeeded" THEN "success" ELSE status, op |-> o])]
LogFirst(r, status, o) ==
  executions' = [executions EXCEPT ![r] = <<[status |-> status, op |-> o]>> \o @]
LogSuccess(r, status, o) ==
  executions' = [executions EXCEPT ![r] = Append(@, [status |-> "succeeded", op |-> o])]

Log(r, status, o) ==
  executions' = [executions EXCEPT ![r] = Append(@, [status |-> status, op |-> o])]

\* Variant: the mutation of the boundary does not verify the chain first.
PerformUnverified(c) ==
  /\ At(c, "effect")
  /\ SameRevisions(c)
  /\ Authorized(c)
  /\ Goto(c, "persisting")
  /\ UNCHANGED <<approvalVars, worldVars, executions, effects, told>>

\* The mutation that checks everything once more, on the data it will write.
Perform(c) ==
  /\ At(c, "effect")
  /\ intact
  /\ SameRevisions(c)
  /\ Authorized(c)
  /\ Goto(c, "persisting")
  /\ UNCHANGED <<approvalVars, worldVars, executions, effects, told>>

\* The file is written with the effect (a receipt, a deployment) and the record
\* of the execution, awaits after the checks; or it is not.
Transact(r, o) ==
  /\ effects' = [effects EXCEPT ![r] = Append(@, BindingOf(o))]
  /\ Log(r, "succeeded", o)

Commit(c) ==
  /\ At(c, "persisting")
  /\ \/ /\ Transact(call[c].request, call[c].op)
        /\ Goto(c, "recording")
     \/ /\ WritesMayFail
        /\ Goto(c, "failing")
        /\ UNCHANGED <<executions, effects>>
  /\ UNCHANGED <<approvalVars, worldVars, told>>

\* Refused inside the mutation, or stopped by it: nothing happened.  A changed
\* revision is a failure of the boundary, except that a read may notice it
\* only in the final recheck, which denies.
Abort(c) ==
  /\ At(c, "effect")
  /\ \/ /\ intact
        /\ SameRevisions(c)
        /\ ~Authorized(c)
        /\ Finish(c)
     \/ /\ intact
        /\ ~SameRevisions(c)
        /\ Goto(c, "failing") \/ (call[c].op \in Reads /\ Finish(c))
     \/ /\ WriteFails
        /\ Goto(c, "failing")
  /\ UNCHANGED <<approvalVars, worldVars, executions, effects, told>>

RecordSuccess(c) ==
  LET r == call[c].request
  IN  /\ At(c, "recording")
      /\ \/ /\ intact
            /\ Finish(c)
            /\ Tell(r, [status |-> "succeeded", op |-> call[c].op])
         \/ /\ WriteFails
            /\ Goto(c, "failing")
            /\ UNCHANGED told
      /\ UNCHANGED <<approvalVars, worldVars, executions, effects>>

\* The failure is logged, then its evidence recorded; either may throw.
RecordFailure(c) ==
  LET r == call[c].request
  IN  /\ At(c, "failing")
      /\ \/ /\ intact
            /\ Log(r, "failed", call[c].op)
            /\ \/ Tell(r, [status |-> "failed", op |-> call[c].op])
               \/ WritesMayFail /\ UNCHANGED told
         \/ /\ WriteFails
            /\ UNCHANGED <<executions, told>>
      /\ Finish(c)
      /\ UNCHANGED <<approvalVars, worldVars, effects>>

-----------------------------------------------------------------------------
(* The world around the calls.  Every operation below changes its record in *)
(* one store write and revokes the approvals that depend on it in another.  *)

Raise(s) ==
  /\ version[s] < MaxVersion
  /\ version' = [version EXCEPT ![s] = @ + 1]

BumpRevision(s) ==
  /\ intact
  /\ Raise(s)
  /\ invalidating' = invalidating \cup {s}
  /\ UNCHANGED <<approvalVars, standing, live, intact, callVars>>

\* disable and revoke of the destination catalogue.
WithdrawDestination(d) ==
  /\ intact
  /\ Raise(d)
  /\ standing' = [standing EXCEPT ![d] = FALSE]
  /\ invalidating' = invalidating \cup {d}
  /\ UNCHANGED <<approvalVars, live, intact, callVars>>

\* Revoking a grant also ends, one after the other, the agent's runs it finds
\* in the database.
RevokeGrant(g) ==
  /\ intact
  /\ standing[g]
  /\ standing' = [standing EXCEPT ![g] = FALSE]
  /\ invalidating' = invalidating \cup {<<g, version[g]>>} \cup (live \cap SoloRuns)
  /\ UNCHANGED <<approvalVars, version, live, intact, callVars>>

EnrollGrant(g) ==
  /\ intact
  /\ ~standing[g]
  /\ Raise(g)
  /\ standing' = [standing EXCEPT ![g] = TRUE]
  /\ UNCHANGED <<approvalVars, live, invalidating, intact, callVars>>

\* addMembership and removeMembership of the requesting human.
ChangeMembership(t) ==
  /\ intact
  /\ standing' = [standing EXCEPT ![t] = ~@]
  /\ UNCHANGED <<approvalVars, version, live, invalidating, intact, callVars>>

\* The run ends, or its owner or the revocation of a grant revokes it: the
\* credential authority goes at once, in memory, whatever is being written; the
\* approvals go in a store write of their own.
RevokeRun(run) ==
  /\ run \in live
  /\ live' = live \ {run}
  /\ invalidating' = invalidating \cup {run}
  /\ UNCHANGED <<approvalVars, version, standing, intact, callVars>>

\* A scope that is a run loses its authority too, if it still had it.
Invalidate(s) ==
  /\ s \in invalidating
  /\ invalidating' = invalidating \ {s}
  /\ live' = live \ {s}
  /\ \/ intact /\ A!RevokeForScope(s)
     \/ WriteFails /\ UNCHANGED approvalVars
  /\ UNCHANGED <<version, standing, intact, callVars>>

\* The persisted chain stops verifying: every later mutation throws.
Quarantine ==
  /\ intact
  /\ intact' = FALSE
  /\ UNCHANGED <<approvalVars, version, standing, live, invalidating, callVars>>

Stale(b) == \E s \in DOMAIN b.at \cap Destinations : b.at[s] # version[s] \/ ~standing[s]

\* The process is replaced: calls, credentials and half-done revocations are
\* lost, the store is loaded and the runs it knows are revoked.
Restart ==
  /\ A!Reload({r \in Requests :
       approval[r].binding # NoBinding /\ Stale(approval[r].binding)})
  /\ live' = {}
  /\ invalidating' = (live \cup invalidating) \cap SoloRuns
  /\ call' = [c \in Calls |-> Idle]
  /\ tail' = <<>>
  /\ UNCHANGED <<version, standing, intact, executions, effects, told>>

Decision ==
  /\ \/ \E r \in Requests, h \in Humans : intact /\ (A!Approve(r, h) \/ A!Deny(r, h))
     \/ \E r \in Requests : intact /\ A!Get(r)
     \/ \E a \in Authorities : intact /\ (A!RevokeAuthority(a) \/ A!RevokeForAuthority(a))
     \/ \E a \in Authorities : A!RevokeForAuthorityFails(a)
  /\ UNCHANGED <<worldVars, callVars>>

Wait == A!Tick /\ UNCHANGED <<worldVars, callVars>>

Step(c) ==
  \/ Decide(c)
  \/ RequestApproval(c)
  \/ Consume(c)
  \/ Recheck(c)
  \/ Perform(c)
  \/ Commit(c)
  \/ Abort(c)
  \/ RecordSuccess(c)
  \/ RecordFailure(c)

\* What waits for its turn in the queue of the store.
Mutation ==
  \/ \E s \in Resources \cup Destinations : BumpRevision(s)
  \/ \E d \in Destinations : WithdrawDestination(d)
  \/ \E g \in Grants : RevokeGrant(g) \/ EnrollGrant(g)
  \/ \E t \in Teams : ChangeMembership(t)
  \/ \E s \in invalidating : Invalidate(s)
  \/ Decision

\* Damage done while the file is being replaced is written over.
World ==
  \/ (\A c \in Calls : ~At(c, "persisting")) /\ (Mutation \/ Quarantine)
  \/ \E run \in Runs : RevokeRun(run)
  \/ Wait
  \/ Restart

Next ==
  \/ \E r \in Requests, o \in Operations : ReplayAtAdmission(r, o)
  \/ \E c \in Calls, r \in Requests, o \in Operations, approved \in BOOLEAN :
       Admit(c, r, o, approved)
  \/ \E c \in Calls : Step(c)
  \/ World

Spec == Init /\ [][Next]_vars

\* A call advances whenever its promise can: no step waits for anybody but
\* the calls ahead of it in the chain.
FairSpec == Spec /\ \A c \in Calls : WF_vars(Step(c))

-----------------------------------------------------------------------------
(* Safety.                                                                 *)

\* A request has at most one side effect, however many calls carry it, and
\* its first log entry says truthfully whether the effect happened and for
\* which operation: a retry that replays it repeats what was done.
EffectsAreLogged ==
  \A r \in Requests :
    /\ Len(effects[r]) <= 1
    /\ effects[r] # <<>> <=>
         executions[r] # <<>> /\ Replay(r).status = "succeeded"
    /\ effects[r] # <<>> => Replay(r).op = effects[r][1].op

\* A caller is told "success" only of the operation that really happened.
SuccessIsReal ==
  \A r \in Requests : \A t \in told[r] :
    t.status = "succeeded" => effects[r] # <<>> /\ effects[r][1].op = t.op

\* What happened is what was approved: an effect that needed an approval used
\* up the one claim of its request, and the operation and the revisions it
\* acted on are the ones the humans signed, bound several store writes earlier.
EffectMatchesApproval ==
  \A r \in Requests : \A i \in DOMAIN effects[r] :
    LET e == effects[r][i]
        b == approval[r].binding
    IN  NeedsApproval(e.op) =>
          /\ consumptions[r] = 1
          /\ b # NoBinding
          /\ b.op = e.op
          /\ \A s \in DOMAIN e.at \ Grants : b.at[s] = e.at[s]

\* Authority withdrawn while a call waits, for its turn, for its approval or
\* between two of its own writes, stops the side effect: when it happens the
\* destination is enabled, the grant active, the human a member, and whoever
\* signed still holds the authority they signed with.  The run was alive when
\* the write of the effect began.  Revoking a run waits for no write: one that
\* is revoked while its effect is being written has that effect, and no other.
RevocationBeatsTheQueue ==
  [][/\ \A r \in Requests :
          effects'[r] # effects[r] =>
            LET e == effects'[r][Len(effects'[r])]
            IN  /\ \A g \in Touched[e.op] \cap Gates : standing[g]
                /\ NeedsApproval(e.op) =>
                     \A i \in DOMAIN approval[r].decisions :
                       LET d == approval[r].decisions[i]
                       IN  authority[d.authority] = [active |-> TRUE, revision |-> d.revision]
     /\ \A c \in Calls :
          At(c, "persisting")' /\ ~At(c, "persisting") => Alive(call[c].request)
    ]_vars

\* Once the chain is broken nothing protected happens any more: no effect, no
\* log entry, no use of a claim, whatever calls were already on their way.
QuarantineFreezes ==
  [][~intact =>
       /\ UNCHANGED <<effects, executions, consumptions>>
       /\ \A r \in Requests : approval'[r].status = "approved" => approval[r].status = "approved"
    ]_vars

\* Every admitted call returns or throws, so the chain never stops.
CallsReturn == \A c \in Calls : call[c] # Idle ~> call[c] = Idle

-----------------------------------------------------------------------------
(* What the documentation says and the code does not keep.                 *)

\* "Approval bindings include the grant bundle; a grant substitution fails
\* closed": the effect happens under the enrolment the approval names.
EffectUnderBoundGrant ==
  \A r \in Requests : \A i \in DOMAIN effects[r] :
    NeedsApproval(effects[r][i].op) => effects[r][i] = approval[r].binding
=============================================================================
