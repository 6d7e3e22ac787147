---------------------------- MODULE GatewayProofs ----------------------------
(***************************************************************************)
(* Proofs about Gateway.  The approvals a gateway consumes obey Approvals, *)
(* so what is proved of Approvals holds of them; the rest is the order of  *)
(* the calls (only the head of executionTail is past its decision) and     *)
(* what the log says while that call is under way.                         *)
(***************************************************************************)
EXTENDS Gateway, SequenceTheorems, TLAPS

\* Approvals once more, with the facts proved of it.
AP == INSTANCE OneUseProofs WITH
  Critical <- {b \in Bindings : Tier[b.op] = "critical"},
  Scopes <- Runs \cup Resources \cup Destinations \cup (Grants \X Versions),
  Unlucky <- {a \in Authorities : WritesMayFail},
  Covers <- [a \in Authorities |-> {b \in Bindings : b.op \in CoversOps[a]}]

AllScopes == Runs \cup Resources \cup Destinations \cup (Grants \X Versions)

\* What Approvals assumes of its constants holds of those it is given here.
LEMMA ApprovalsApply ==
  /\ NoBinding \notin Bindings
  /\ {b \in Bindings : Tier[b.op] = "critical"} \subseteq Bindings
  /\ Destinations \subseteq Runs \cup Resources \cup Destinations \cup (Grants \X Versions)
  /\ RunOf \in
       [Requests -> Runs \cup Resources \cup Destinations \cup (Grants \X Versions)]
  /\ ScopesOf \in
       [Bindings -> SUBSET (Runs \cup Resources \cup Destinations \cup (Grants \X Versions))]
  /\ HumanOf \in [Authorities -> Humans]
  /\ RoleOf \in [Authorities -> AP!Roles]
  /\ [a \in Authorities |-> {b \in Bindings : b.op \in CoversOps[a]}]
       \in [Authorities -> SUBSET Bindings]
  /\ TTL \in Nat \ {0}
  /\ MaxTime \in Nat
  /\ {a \in Authorities : WritesMayFail} \subseteq Authorities
<1>1. ASSUME NEW b \in Bindings PROVE ScopesOf[b] \subseteq AllScopes
  <2>1. PICK o \in Operations : b \in BindingsOf(o)
    BY DEF Bindings
  <2>2. b.at \in [VersionedIn(o) -> Versions]
    BY <2>1 DEF BindingsOf
  <2>3. ASSUME NEW s \in VersionedIn(o) PROVE ScopeOf(s, b.at[s]) \in AllScopes
    BY <2>2, <2>3 DEF VersionedIn, Versioned, ScopeOf, AllScopes
  <2> QED BY <2>2, <2>3 DEF ScopesOf
<1>2. ScopesOf \in [Bindings -> SUBSET AllScopes]
  BY <1>1 DEF ScopesOf
<1>3. RunOf \in [Requests -> AllScopes]
  BY GatewayAssumption DEF AllScopes
<1>4. RoleOf \in [Authorities -> AP!Roles]
  BY GatewayAssumption DEF AP!Roles
<1>5. [a \in Authorities |-> {b \in Bindings : b.op \in CoversOps[a]}]
        \in [Authorities -> SUBSET Bindings]
  OBVIOUS
<1> QED BY <1>2, <1>3, <1>4, <1>5, GatewayAssumption DEF AllScopes

-----------------------------------------------------------------------------
(* The two instances say the same.                                         *)

LEMMA SameType == A!TypeOK <=> AP!TypeOK
  BY DEF A!TypeOK, AP!TypeOK, A!Approval, AP!Approval, A!Claim, AP!Claim, A!Decision,
         AP!Decision, A!Statuses, AP!Statuses, A!Roles, AP!Roles

LEMMA SameInit == A!Init <=> AP!Init
  BY DEF A!Init, AP!Init, A!NoApproval, AP!NoApproval, A!NoClaim, AP!NoClaim

LEMMA SameOperators ==
  /\ \A b : A!RequiredRoles(b) = AP!RequiredRoles(b)
  /\ \A r : A!AllCurrent(r) <=> AP!AllCurrent(r)
  /\ \A r : A!ValidDecisions(r) <=> AP!ValidDecisions(r)
  /\ \A r : A!FullyDecided(r) <=> AP!FullyDecided(r)
  /\ \A r : A!ClaimMatches(r) <=> AP!ClaimMatches(r)
  /\ \A r : A!ExpirePending(r) <=> AP!ExpirePending(r)
  /\ \A r, h, a, role : A!MayDecide(r, h, a, role) <=> AP!MayDecide(r, h, a, role)
<1>1. \A b : A!RequiredRoles(b) = AP!RequiredRoles(b)
  BY DEF A!RequiredRoles, AP!RequiredRoles
<1>2. \A r : A!AllCurrent(r) <=> AP!AllCurrent(r)
  BY DEF A!AllCurrent, AP!AllCurrent, A!IsCurrent, AP!IsCurrent, A!Eligible, AP!Eligible
<1>3. \A r : A!ValidDecisions(r) <=> AP!ValidDecisions(r)
  BY <1>1 DEF A!ValidDecisions, AP!ValidDecisions
<1>4. \A r : A!FullyDecided(r) <=> AP!FullyDecided(r)
  BY <1>1 DEF A!FullyDecided, AP!FullyDecided
<1>5. \A r : A!ClaimMatches(r) <=> AP!ClaimMatches(r)
  BY DEF A!ClaimMatches, AP!ClaimMatches
<1>6. \A r : A!ExpirePending(r) <=> AP!ExpirePending(r)
  BY DEF A!ExpirePending, AP!ExpirePending, A!Lapsing, AP!Lapsing, A!Expired, AP!Expired
<1>7. \A r, role : A!IsOpenRole(r, role) <=> AP!IsOpenRole(r, role)
  BY <1>1 DEF A!IsOpenRole, AP!IsOpenRole
<1>8. \A a, h, b, role : A!Eligible(a, h, b, role) <=> AP!Eligible(a, h, b, role)
  BY DEF A!Eligible, AP!Eligible
<1>9. \A x : A!Expired(x) <=> AP!Expired(x)
  BY DEF A!Expired, AP!Expired
<1>10. \A r, h, a, role : A!MayDecide(r, h, a, role) <=> AP!MayDecide(r, h, a, role)
  BY <1>2, <1>3, <1>7, <1>8, <1>9 DEF A!MayDecide, AP!MayDecide
<1> QED BY <1>1, <1>2, <1>3, <1>4, <1>5, <1>6, <1>10

LEMMA SameSignatures ==
  /\ \A r, h : A!Approve(r, h) <=> AP!Approve(r, h)
  /\ \A r, h : A!Deny(r, h) <=> AP!Deny(r, h)
<1> SUFFICES ASSUME NEW r, NEW h
             PROVE  /\ A!Approve(r, h) <=> AP!Approve(r, h)
                    /\ A!Deny(r, h) <=> AP!Deny(r, h)
  OBVIOUS
<1>1. A!ExpirePending(r) <=> AP!ExpirePending(r)
  BY SameOperators
<1>2. \A a, role : A!MayDecide(r, h, a, role) <=> AP!MayDecide(r, h, a, role)
  BY SameOperators
<1>3. A!Approve(r, h) <=> AP!Approve(r, h)
  BY <1>1, <1>2, ZenonT(60)
  DEF A!Approve, AP!Approve, A!Roles, AP!Roles, A!DecisionOf, AP!DecisionOf,
      A!RequiredRoles, AP!RequiredRoles
<1>4. A!Deny(r, h) <=> AP!Deny(r, h)
  BY <1>1, <1>2, ZenonT(60)
  DEF A!Deny, AP!Deny, A!Roles, AP!Roles, A!DecisionOf, AP!DecisionOf
<1> QED BY <1>3, <1>4

LEMMA SameRequests ==
  /\ \A r, b : A!GetOrCreate(r, b) <=> AP!GetOrCreate(r, b)
  /\ \A r, b : A!ConsumeCapability(r, b) <=> AP!ConsumeCapability(r, b)
  /\ \A r, b : A!IsConsumedClaimValid(r, b) <=> AP!IsConsumedClaimValid(r, b)
<1>1. \A r, b : A!GetOrCreate(r, b) <=> AP!GetOrCreate(r, b)
  BY SameOperators, Zenon DEF A!GetOrCreate, AP!GetOrCreate, A!SameRequest, AP!SameRequest
<1>2. \A r, b : A!Consumable(r, b) <=> AP!Consumable(r, b)
  BY SameOperators DEF A!Consumable, AP!Consumable, A!SameRequest, AP!SameRequest
<1>3. \A r : A!ClaimUsable(r) <=> AP!ClaimUsable(r)
  BY SameOperators DEF A!ClaimUsable, AP!ClaimUsable
<1>4. \A r, b : A!ConsumeCapability(r, b) <=> AP!ConsumeCapability(r, b)
  <2> SUFFICES ASSUME NEW r, NEW b
               PROVE  A!ConsumeCapability(r, b) <=> AP!ConsumeCapability(r, b)
    OBVIOUS
  <2>1. /\ A!Consumable(r, b) <=> AP!Consumable(r, b)
        /\ A!ClaimUsable(r) <=> AP!ClaimUsable(r)
        /\ A!ExpirePending(r) <=> AP!ExpirePending(r)
        /\ A!AllCurrent(r) <=> AP!AllCurrent(r)
    BY <1>2, <1>3, SameOperators
  <2> QED BY <2>1, ZenonT(60)
          DEF A!ConsumeCapability, AP!ConsumeCapability, A!SameRequest, AP!SameRequest,
              A!Expired, AP!Expired
<1>5. \A r, b : A!IsConsumedClaimValid(r, b) <=> AP!IsConsumedClaimValid(r, b)
  BY SameOperators DEF A!IsConsumedClaimValid, AP!IsConsumedClaimValid, A!SameRequest,
                       AP!SameRequest
<1> QED BY <1>1, <1>4, <1>5

LEMMA SameRevocations ==
  /\ \A s : A!RevokeForScope(s) <=> AP!RevokeForScope(s)
  /\ \A a : A!RevokeAuthority(a) <=> AP!RevokeAuthority(a)
  /\ \A a : A!RevokeForAuthority(a) <=> AP!RevokeForAuthority(a)
  /\ \A a : A!RevokeForAuthorityFails(a) <=> AP!RevokeForAuthorityFails(a)
  /\ \A stale : A!Reload(stale) <=> AP!Reload(stale)
<1>1. \A x : A!Drained(x) = AP!Drained(x)
  BY DEF A!Drained, AP!Drained
<1>2. \A x, y : A!RevokeClaims(x, y) <=> AP!RevokeClaims(x, y)
  BY <1>1 DEF A!RevokeClaims, AP!RevokeClaims
<1>3. \A s : A!RevokeForScope(s) <=> AP!RevokeForScope(s)
  BY <1>2 DEF A!RevokeForScope, AP!RevokeForScope, A!Touches, AP!Touches
<1>4. \A a : A!RevokeAuthority(a) <=> AP!RevokeAuthority(a)
  BY DEF A!RevokeAuthority, AP!RevokeAuthority
<1>5. \A a : A!RevokeForAuthority(a) <=> AP!RevokeForAuthority(a)
  BY <1>2 DEF A!RevokeForAuthority, AP!RevokeForAuthority, A!SignedBy, AP!SignedBy
<1>6. \A a : A!RevokeForAuthorityFails(a) <=> AP!RevokeForAuthorityFails(a)
  BY DEF A!RevokeForAuthorityFails, AP!RevokeForAuthorityFails
<1>7. \A r : /\ A!ClaimConsistent(r) <=> AP!ClaimConsistent(r)
             /\ A!Reconciled(r) <=> AP!Reconciled(r)
  BY SameOperators DEF A!ClaimConsistent, AP!ClaimConsistent, A!Reconciled, AP!Reconciled
<1>8. \A stale : A!Reload(stale) <=> AP!Reload(stale)
  BY <1>1, <1>7 DEF A!Reload, AP!Reload, A!NoClaim, AP!NoClaim
<1> QED BY <1>3, <1>4, <1>5, <1>6, <1>8

-----------------------------------------------------------------------------
(* The invariant.                                                          *)

\* The type of what the gateway adds to the approvals.
WorldType ==
  /\ version \in [Versioned -> Versions]
  /\ standing \in [Gates -> BOOLEAN]
  /\ live \subseteq Runs
  /\ invalidating \subseteq AllScopes
  /\ executions \in [Requests -> Seq(Results)]
  /\ effects \in [Requests -> Seq(Bindings)]
  /\ told \in [Requests -> SUBSET Results]
  /\ intact \in BOOLEAN

CallType ==
  /\ call \in [Calls -> Call \cup {Idle}]
  /\ tail \in Seq(Calls)

\* The call has left the queue.
Running(c) == call[c].pc \notin {"idle", "queued"}

\* A call in progress has its place in the chain, and runs only at its head.
InOrder(c) ==
  /\ call[c] # Idle => \E i \in DOMAIN tail : tail[i] = c
  /\ Running(c) => Head(tail) = c

\* What a running call knows: the binding it was decided with, that its request
\* had no execution then, or that the execution is its own.
Knows(c) ==
  LET r == call[c].request
      o == call[c].op
  IN  /\ Running(c) => call[c].binding \in BindingsOf(o)
      /\ call[c].pc \in {"request", "consume", "recheck", "effect", "persisting"} => ~Answered(r)
      /\ call[c].pc = "recording" =>
           Answered(r) /\ Replay(r) = [status |-> "succeeded", op |-> o]

Orderly == CallType /\ \A c \in Calls : InOrder(c)

\* What was checked when the mutation of the effect began holds until the file is
\* written: what could change it waits for its turn in the queue of the store.
\* That the run is alive is not among it.
Cleared(c) ==
  At(c, "persisting") =>
    /\ intact
    /\ SameRevisions(c)
    /\ Permits(call[c].op)
    /\ ApprovalHolds(c)

\* An approval is consumed by a use that was counted.
Counted == \A r \in Requests : approval[r].status = "consumed" => consumptions[r] = 1

ApprovalsInv == AP!IInv /\ Counted

IInv ==
  /\ WorldType
  /\ Orderly
  /\ \A c \in Calls : Knows(c)
  /\ \A c \in Calls : Cleared(c)
  /\ ApprovalsInv
  /\ EffectsAreLogged
  /\ SuccessIsReal
  /\ EffectMatchesApproval

-----------------------------------------------------------------------------
(* The chain.                                                              *)

LEMMA CallFields ==
  ASSUME CallType, NEW c \in Calls, call[c] # Idle
  PROVE  /\ call[c] \in Call
         /\ call[c].pc \in Steps
         /\ call[c].request \in Requests
         /\ call[c].op \in Operations
  BY DEF CallType, Call

LEMMA NotIdle ==
  ASSUME CallType, NEW c \in Calls, call[c].pc # "idle"
  PROVE  call[c] # Idle
  BY DEF Idle

\* A request's call joins the end of the chain.
LEMMA JoinOrder ==
  ASSUME Orderly, NEW c \in Calls, call[c] = Idle, NEW x \in Call, x.pc = "queued",
         call' = [call EXCEPT ![c] = x], tail' = Append(tail, c)
  PROVE  /\ Orderly'
         /\ \A d \in Calls : Running(d)' => Running(d) /\ call'[d] = call[d]
<1>1. CallType'
  BY DEF Orderly, CallType
<1>2. /\ DOMAIN tail = 1 .. Len(tail)
      /\ DOMAIN tail' = 1 .. Len(tail) + 1
      /\ Len(tail) \in Nat
      /\ \A i \in 1 .. Len(tail) : tail'[i] = tail[i]
      /\ tail'[Len(tail) + 1] = c
      /\ tail # <<>> => Head(tail') = Head(tail)
  BY DEF Orderly, CallType
<1>3. ASSUME NEW d \in Calls
      PROVE  InOrder(d)' /\ (Running(d)' => Running(d) /\ call'[d] = call[d])
  <2>1. CASE d = c
    <3>1. call'[c].pc = "queued" /\ tail'[Len(tail) + 1] = c
      BY <1>2 DEF Orderly, CallType
    <3>2. \E i \in DOMAIN tail' : tail'[i] = c
      BY <1>2
    <3> QED BY <2>1, <3>1, <3>2 DEF InOrder, Running
  <2>2. CASE d # c
    <3>1. call'[d] = call[d]
      BY <2>2 DEF Orderly, CallType
    <3>2. CASE call[d] = Idle
      BY <3>1, <3>2 DEF InOrder, Running, Idle
    <3>3. CASE call[d] # Idle
      <4>1. PICK i \in DOMAIN tail : tail[i] = d
        BY <3>3 DEF Orderly, InOrder
      <4>2. i \in DOMAIN tail' /\ tail'[i] = d /\ tail # <<>>
        BY <1>2, <4>1
      <4> QED BY <1>2, <3>1, <4>2 DEF Orderly, InOrder, Running
    <3> QED BY <3>2, <3>3
  <2> QED BY <2>1, <2>2
<1> QED BY <1>1, <1>3 DEF Orderly

\* The call at the head leaves the chain; no other was running.
LEMMA FinishOrder ==
  ASSUME Orderly, NEW c \in Calls, call[c] # Idle, Head(tail) = c, Finish(c)
  PROVE  /\ Orderly'
         /\ \A d \in Calls : ~Running(d)'
<1>1. PICK k \in DOMAIN tail : tail[k] = c
  BY DEF Orderly, InOrder
<1>2. /\ DOMAIN tail = 1 .. Len(tail)
      /\ Len(tail) \in Nat
      /\ tail # <<>>
      /\ Head(tail) = tail[1]
      /\ tail' \in Seq(Calls)
      /\ DOMAIN tail' = 1 .. (Len(tail) - 1)
      /\ \A i \in 1 .. (Len(tail) - 1) : tail'[i] = tail[i + 1]
  BY <1>1 DEF Orderly, CallType, Finish
<1>3. CallType'
  BY <1>2 DEF Orderly, CallType, Finish
<1>4. ASSUME NEW d \in Calls PROVE InOrder(d)' /\ ~Running(d)'
  <2>1. CASE d = c
    <3>1. call'[c] = Idle
      BY DEF Orderly, CallType, Finish
    <3> QED BY <2>1, <3>1 DEF InOrder, Running, Idle
  <2>2. CASE d # c
    <3>1. call'[d] = call[d]
      BY <2>2 DEF Orderly, CallType, Finish
    <3>2. ~Running(d)
      BY <2>2 DEF Orderly, InOrder
    <3>3. call[d] # Idle => \E i \in DOMAIN tail' : tail'[i] = d
      <4> SUFFICES ASSUME call[d] # Idle PROVE \E i \in DOMAIN tail' : tail'[i] = d
        OBVIOUS
      <4>1. PICK i \in DOMAIN tail : tail[i] = d
        BY DEF Orderly, InOrder
      <4>2. i # 1 /\ i - 1 \in DOMAIN tail' /\ tail'[i - 1] = d
        BY <1>2, <2>2, <4>1
      <4> QED BY <4>2
    <3> QED BY <3>1, <3>2, <3>3 DEF InOrder, Running
  <2> QED BY <2>1, <2>2
<1> QED BY <1>3, <1>4 DEF Orderly

\* The call at the head moves to its next stop.
LEMMA MoveOrder ==
  ASSUME Orderly, NEW c \in Calls, call[c] # Idle, Head(tail) = c,
         NEW x \in Call, call' = [call EXCEPT ![c] = x], UNCHANGED tail
  PROVE  /\ Orderly'
         /\ call'[c] = x
         /\ \A d \in Calls \ {c} : ~Running(d)'
<1>1. CallType' /\ call'[c] = x /\ \A d \in Calls \ {c} : call'[d] = call[d]
  BY DEF Orderly, CallType
<1>2. \A d \in Calls \ {c} : ~Running(d) /\ ~Running(d)'
  BY <1>1 DEF Orderly, InOrder, Running
<1>3. \A d \in Calls : InOrder(d)'
  BY <1>1, <1>2 DEF Orderly, InOrder
<1> QED BY <1>1, <1>2, <1>3 DEF Orderly

\* Goto changes the program counter alone.
LEMMA GotoOrder ==
  ASSUME Orderly, NEW c \in Calls, call[c] # Idle, Head(tail) = c,
         NEW pc \in Steps, Goto(c, pc)
  PROVE  /\ Orderly'
         /\ call'[c] = [call[c] EXCEPT !.pc = pc]
         /\ \A d \in Calls \ {c} : ~Running(d)'
<1> DEFINE x == [call[c] EXCEPT !.pc = pc]
<1>1. call[c] \in Call /\ CallType
  BY CallFields DEF Orderly
<1>2. x \in Call
  BY <1>1 DEF Call
<1>3. call' = [call EXCEPT ![c] = x] /\ UNCHANGED tail
  BY DEF Goto
<1> HIDE DEF x
<1>4. Orderly' /\ call'[c] = x /\ \A d \in Calls \ {c} : ~Running(d)'
  BY <1>2, <1>3, MoveOrder
<1> QED BY <1>4 DEF x

LEMMA SameOrder ==
  ASSUME Orderly, UNCHANGED <<call, tail>>
  PROVE  Orderly'
  BY DEF Orderly, CallType, InOrder, Running

-----------------------------------------------------------------------------
(* Bindings.                                                               *)

LEMMA BindingFacts ==
  ASSUME NEW o \in Operations
  PROVE  /\ BindingsOf(o) \subseteq Bindings
         /\ \A b \in BindingsOf(o) : b.op = o /\ b.at \in [VersionedIn(o) -> Versions]
         /\ VersionedIn(o) \subseteq Versioned
  BY DEF Bindings, BindingsOf, VersionedIn

LEMMA BindingOfFacts ==
  ASSUME WorldType, NEW o \in Operations
  PROVE  BindingOf(o) \in BindingsOf(o)
<1>1. \A s \in VersionedIn(o) : version[s] \in Versions
  BY BindingFacts DEF WorldType
<1> QED BY <1>1 DEF BindingsOf, BindingOf

\* The binding of a running call is one.
LEMMA RunningBinding ==
  ASSUME Orderly, NEW c \in Calls, Running(c), Knows(c)
  PROVE  /\ call[c].request \in Requests
         /\ call[c].op \in Operations
         /\ call[c].binding \in BindingsOf(call[c].op)
         /\ call[c].binding \in Bindings
         /\ call[c] # Idle
         /\ Head(tail) = c
<1>1. call[c] # Idle
  BY DEF Running, Idle
<1>2. call[c].request \in Requests /\ call[c].op \in Operations
  BY <1>1, CallFields DEF Orderly
<1>3. call[c].binding \in BindingsOf(call[c].op)
  BY DEF Knows
<1> QED BY <1>1, <1>2, <1>3, BindingFacts DEF Orderly, InOrder

-----------------------------------------------------------------------------
(* What the gateway does to approvals, Approvals may do.                   *)

\* The destinations a restart finds changed are ones the binding names.
LEMMA StaleIsBound ==
  ASSUME NEW b \in Bindings, Stale(b)
  PROVE  AP!BoundToDestination(b)
<1>1. PICK s \in DOMAIN b.at \cap Destinations : TRUE
  BY DEF Stale
<1>2. ScopeOf(s, b.at[s]) = s
  BY <1>1, GatewayAssumption DEF ScopeOf
<1>3. s \in ScopesOf[b]
  BY <1>1, <1>2 DEF ScopesOf
<1> QED BY <1>1, <1>3 DEF AP!BoundToDestination

LEMMA RestartStep ==
  ASSUME AP!TypeOK, Restart
  PROVE  AP!Restart
<1> DEFINE stale == {r \in Requests :
                       approval[r].binding # NoBinding /\ Stale(approval[r].binding)}
<1>1. AP!Reload(stale)
  BY SameRevocations DEF Restart
<1>2. ASSUME NEW r \in stale PROVE AP!BoundToDestination(approval[r].binding)
  BY StaleIsBound DEF AP!TypeOK, AP!Approval
<1>3. stale \in SUBSET {r \in Requests : AP!BoundToDestination(approval[r].binding)}
  BY <1>2
<1> HIDE DEF stale
<1> QED BY <1>1, <1>3 DEF AP!Restart

LEMMA DecisionStep ==
  ASSUME Decision
  PROVE  AP!Next
<1>1. ASSUME NEW r \in Requests, NEW h \in Humans, A!Approve(r, h) \/ A!Deny(r, h)
      PROVE  AP!Next
  BY <1>1, SameSignatures DEF AP!Next
<1>2. ASSUME NEW r \in Requests, A!Get(r) PROVE AP!Next
  BY <1>2, SameOperators DEF AP!Next, A!Get, AP!Get
<1>3. ASSUME NEW a \in Authorities,
             A!RevokeAuthority(a) \/ A!RevokeForAuthority(a) \/ A!RevokeForAuthorityFails(a)
      PROVE  AP!Next
  BY <1>3, SameRevocations DEF AP!Next
<1> QED BY <1>1, <1>2, <1>3 DEF Decision

LEMMA WaitStep ==
  ASSUME Wait
  PROVE  AP!Next
  BY DEF Wait, AP!Next, A!Tick, AP!Tick

LEMMA ApprovalsStep ==
  ASSUME WorldType, Orderly, \A c \in Calls : Knows(c), AP!TypeOK, [Next]_vars
  PROVE  [AP!Next]_(AP!vars)
<1>1. ASSUME UNCHANGED approvalVars PROVE UNCHANGED AP!vars
  BY <1>1 DEF approvalVars, AP!vars
<1>2. ASSUME NEW c \in Calls, RequestApproval(c) PROVE [AP!Next]_(AP!vars)
  <2>1. call[c].request \in Requests /\ call[c].binding \in Bindings
    BY <1>2, RunningBinding DEF RequestApproval, At, Running
  <2> QED BY <1>1, <1>2, <2>1, SameRequests DEF RequestApproval, AP!Next
<1>3. ASSUME NEW c \in Calls, Consume(c) PROVE [AP!Next]_(AP!vars)
  <2>1. call[c].request \in Requests /\ call[c].binding \in Bindings
    BY <1>3, RunningBinding DEF Consume, At, Running
  <2> QED BY <1>1, <1>3, <2>1, SameRequests DEF Consume, AP!Next
<1>4. ASSUME NEW c \in Calls,
             \/ Decide(c) \/ Recheck(c) \/ Perform(c) \/ Commit(c) \/ Abort(c)
             \/ RecordSuccess(c) \/ RecordFailure(c)
      PROVE  UNCHANGED approvalVars
  BY <1>4 DEF Decide, Recheck, Perform, Commit, Abort, RecordSuccess, RecordFailure
<1>5. ASSUME NEW s \in invalidating, Invalidate(s) PROVE [AP!Next]_(AP!vars)
  <2>1. s \in AllScopes
    BY DEF WorldType
  <2>2. CASE UNCHANGED approvalVars
    BY <1>1, <2>2
  <2>3. CASE A!RevokeForScope(s)
    BY <2>1, <2>3, SameRevocations DEF AllScopes, AP!Next
  <2> QED BY <1>5, <2>2, <2>3 DEF Invalidate
<1>6. CASE World
  <2>1. ASSUME NEW s, BumpRevision(s) \/ WithdrawDestination(s) PROVE UNCHANGED approvalVars
    BY <2>1 DEF BumpRevision, WithdrawDestination
  <2>2. ASSUME NEW g, RevokeGrant(g) \/ EnrollGrant(g) \/ ChangeMembership(g) \/ RevokeRun(g)
        PROVE  UNCHANGED approvalVars
    BY <2>2 DEF RevokeGrant, EnrollGrant, ChangeMembership, RevokeRun
  <2>3. ASSUME Quarantine PROVE UNCHANGED approvalVars
    BY <2>3 DEF Quarantine
  <2>4. ASSUME Restart PROVE [AP!Next]_(AP!vars)
    BY <2>4, RestartStep DEF AP!Next
  <2> QED BY <1>1, <1>5, <1>6, <2>1, <2>2, <2>3, <2>4, DecisionStep, WaitStep
          DEF World, Mutation
<1>7. ASSUME NEW r \in Requests, NEW o \in Operations, ReplayAtAdmission(r, o)
      PROVE  UNCHANGED approvalVars
  BY <1>7 DEF ReplayAtAdmission
<1>8. ASSUME NEW c \in Calls, NEW r \in Requests, NEW o \in Operations,
             NEW approved \in BOOLEAN, Admit(c, r, o, approved)
      PROVE  UNCHANGED approvalVars
  BY <1>8 DEF Admit
<1>9. CASE UNCHANGED vars
  BY <1>1, <1>9 DEF vars
<1> QED BY <1>1, <1>2, <1>3, <1>4, <1>6, <1>7, <1>8, <1>9 DEF Next, Step

\* The count of uses is never behind.
LEMMA ApprovalsInvStep ==
  ASSUME ApprovalsInv, [AP!Next]_(AP!vars)
  PROVE  ApprovalsInv'
<1>1. AP!IInv'
  BY AP!StepSound, ApprovalsApply DEF ApprovalsInv
<1>2. AP!Classified
  BY AP!StepClassified, ApprovalsApply DEF ApprovalsInv
<1>3. ASSUME NEW r \in Requests, approval'[r].status = "consumed"
      PROVE  consumptions'[r] = 1
  <2>1. AP!Same(r) \/ AP!Used(r)
    BY <1>2, <1>3
    DEF AP!Classified, AP!Passive, AP!OthersSame, AP!Opened, AP!SignedNow, AP!Ended,
        AP!Relabelled
  <2>2. CASE AP!Same(r)
    BY <1>3, <2>2 DEF AP!Same, ApprovalsInv, Counted
  <2>3. CASE AP!Used(r)
    <3>1. /\ consumptions[r] \in {0, 1}
          /\ consumptions[r] = 1 => approval[r].status \in {"consumed", "revoked"}
      BY DEF ApprovalsInv, AP!IInv, AP!Sound, AP!Once
    <3> QED BY <2>3, <3>1 DEF AP!Used
  <2> QED BY <2>1, <2>2, <2>3
<1> QED BY <1>1, <1>3 DEF ApprovalsInv, Counted

\* Once a use is counted the approval keeps its binding and its count.
LEMMA UseStays ==
  ASSUME ApprovalsInv, [AP!Next]_(AP!vars), NEW r \in Requests, consumptions[r] = 1
  PROVE  consumptions'[r] = 1 /\ approval'[r].binding = approval[r].binding
<1>1. AP!Classified
  BY AP!StepClassified, ApprovalsApply DEF ApprovalsInv
<1>2. approval[r].status \in {"consumed", "revoked"}
  BY DEF ApprovalsInv, AP!IInv, AP!Sound, AP!Once
<1>3. AP!Same(r) \/ AP!Relabelled(r)
  BY <1>1, <1>2
  DEF AP!Classified, AP!Passive, AP!OthersSame, AP!Opened, AP!SignedNow, AP!Ended, AP!Used
<1> QED BY <1>3 DEF AP!Same, AP!Relabelled

-----------------------------------------------------------------------------
(* What stays as it is.                                                    *)

LEMMA KnowsStays ==
  ASSUME NEW c \in Calls, Knows(c), call'[c] = call[c], UNCHANGED executions
  PROVE  Knows(c)'
  BY DEF Knows, Running, Answered, Replay

\* A call that is not running has nothing to know.
LEMMA KnowsNothing ==
  ASSUME NEW c \in Calls, ~Running(c)'
  PROVE  Knows(c)'
  BY DEF Knows, Running

LEMMA LogStays ==
  ASSUME EffectsAreLogged, UNCHANGED <<executions, effects>>
  PROVE  EffectsAreLogged'
  BY DEF EffectsAreLogged, Replay

LEMMA ToldStays ==
  ASSUME SuccessIsReal, UNCHANGED <<effects, told>>
  PROVE  SuccessIsReal'
  BY DEF SuccessIsReal

\* An effect stays matched to its approval, whatever happens to that one.
LEMMA MatchStays ==
  ASSUME ApprovalsInv, [AP!Next]_(AP!vars), WorldType, EffectMatchesApproval,
         NEW r \in Requests, effects'[r] = effects[r]
  PROVE  \A i \in DOMAIN effects'[r] :
           LET e == effects'[r][i]
               b == approval'[r].binding
           IN  NeedsApproval(e.op) =>
                 /\ consumptions'[r] = 1
                 /\ b # NoBinding
                 /\ b.op = e.op
                 /\ \A s \in DOMAIN e.at \ Grants : b.at[s] = e.at[s]
<1> SUFFICES ASSUME NEW i \in DOMAIN effects[r], NeedsApproval(effects[r][i].op)
             PROVE  LET e == effects[r][i]
                        b == approval'[r].binding
                    IN  /\ consumptions'[r] = 1
                        /\ b # NoBinding
                        /\ b.op = e.op
                        /\ \A s \in DOMAIN e.at \ Grants : b.at[s] = e.at[s]
  OBVIOUS
<1> DEFINE e == effects[r][i]
           b == approval[r].binding
<1>1. /\ consumptions[r] = 1
      /\ b # NoBinding
      /\ b.op = e.op
      /\ \A s \in DOMAIN e.at \ Grants : b.at[s] = e.at[s]
  BY DEF EffectMatchesApproval
<1>2. consumptions'[r] = 1 /\ approval'[r].binding = b
  BY <1>1, UseStays
<1> QED BY <1>1, <1>2

LEMMA EffectsStayMatched ==
  ASSUME ApprovalsInv, [AP!Next]_(AP!vars), WorldType, EffectMatchesApproval,
         UNCHANGED effects
  PROVE  EffectMatchesApproval'
  BY MatchStays DEF EffectMatchesApproval, NeedsApproval

-----------------------------------------------------------------------------
(* The log.                                                                *)

\* A record joins the end of the log of its request.
LEMMA LogFacts ==
  ASSUME WorldType, NEW r \in Requests, NEW o \in Operations,
         NEW status \in {"succeeded", "failed"}, Log(r, status, o)
  PROVE  /\ executions' \in [Requests -> Seq(Results)]
         /\ executions'[r] # <<>>
         /\ executions'[r][1] =
              IF executions[r] = <<>> THEN [status |-> status, op |-> o] ELSE executions[r][1]
         /\ \A q \in Requests \ {r} : executions'[q] = executions[q]
<1> DEFINE x == [status |-> status, op |-> o]
           log == executions[r]
<1>1. x \in Results
  BY DEF Results
<1>2. executions' = [executions EXCEPT ![r] = Append(log, x)]
  BY DEF Log
<1>3. log \in Seq(Results) /\ executions \in [Requests -> Seq(Results)]
  BY DEF WorldType
<1> HIDE DEF x, log
<1>4. /\ Append(log, x) \in Seq(Results)
      /\ Append(log, x) # <<>>
      /\ Append(log, x)[1] = IF log = <<>> THEN x ELSE log[1]
  <2>1. /\ Append(log, x) \in Seq(Results)
        /\ Len(Append(log, x)) = Len(log) + 1
        /\ Append(log, x)[Len(log) + 1] = x
        /\ \A i \in 1 .. Len(log) : Append(log, x)[i] = log[i]
        /\ Len(log) \in Nat
        /\ log = <<>> <=> Len(log) = 0
    BY <1>1, <1>3
  <2>2. Append(log, x) # <<>>
    BY <1>1, <1>3, AppendProperties
  <2>3. CASE log = <<>>
    BY <2>1, <2>2, <2>3
  <2>4. CASE log # <<>>
    <3>1. 1 \in 1 .. Len(log)
      BY <2>1, <2>4
    <3> QED BY <2>1, <2>2, <2>4, <3>1
  <2> QED BY <2>3, <2>4
<1>5. executions' \in [Requests -> Seq(Results)] /\ executions'[r] = Append(log, x)
  BY <1>2, <1>3, <1>4
<1>6. \A q \in Requests \ {r} : executions'[q] = executions[q]
  BY <1>2, <1>3
<1> QED BY <1>4, <1>5, <1>6 DEF x, log

\* A result reaches a caller.
LEMMA TellFacts ==
  ASSUME WorldType, NEW r \in Requests, NEW x \in Results, Tell(r, x)
  PROVE  /\ told' \in [Requests -> SUBSET Results]
         /\ told'[r] = told[r] \cup {x}
         /\ \A q \in Requests \ {r} : told'[q] = told[q]
  BY DEF WorldType, Tell

\* The first record of a log that is not empty is a result.
LEMMA ReplayFacts ==
  ASSUME WorldType, NEW r \in Requests, Answered(r)
  PROVE  Replay(r) \in Results
  BY DEF WorldType, Answered, Replay

\* Telling a caller what the log says of the operation keeps success real.
LEMMA ReplayIsReal ==
  ASSUME WorldType, EffectsAreLogged, SuccessIsReal, NEW r \in Requests, Answered(r),
         Tell(r, Replay(r)), UNCHANGED effects
  PROVE  /\ SuccessIsReal'
         /\ told' \in [Requests -> SUBSET Results]
<1> DEFINE x == Replay(r)
<1>1. x \in Results
  BY ReplayFacts
<1>2. x.status = "succeeded" => effects[r] # <<>> /\ effects[r][1].op = x.op
  <2>1. /\ effects[r] # <<>> <=> executions[r] # <<>> /\ x.status = "succeeded"
        /\ effects[r] # <<>> => x.op = effects[r][1].op
    BY DEF EffectsAreLogged
  <2>2. executions[r] # <<>>
    BY DEF Answered
  <2> HIDE DEF x
  <2> QED BY <2>1, <2>2
<1> HIDE DEF x
<1>3. /\ told' \in [Requests -> SUBSET Results]
      /\ told'[r] = told[r] \cup {x}
      /\ \A q \in Requests \ {r} : told'[q] = told[q]
  BY <1>1, TellFacts DEF x
<1>4. ASSUME NEW q \in Requests, NEW t \in told'[q], t.status = "succeeded"
      PROVE  effects'[q] # <<>> /\ effects'[q][1].op = t.op
  <2>1. CASE q = r /\ t = x
    BY <1>2, <1>4, <2>1
  <2>2. CASE ~(q = r /\ t = x)
    <3>1. t \in told[q]
      BY <1>3, <2>2
    <3> QED BY <1>4, <3>1 DEF SuccessIsReal
  <2> QED BY <2>1, <2>2
<1> QED BY <1>3, <1>4 DEF SuccessIsReal

-----------------------------------------------------------------------------
(* The steps of a call.                                                    *)

Kept ==
  /\ WorldType
  /\ Orderly
  /\ \A c \in Calls : Knows(c)
  /\ EffectsAreLogged
  /\ SuccessIsReal

LEMMA SameWorldType ==
  ASSUME WorldType, UNCHANGED worldVars, UNCHANGED <<executions, effects, told>>
  PROVE  WorldType'
  BY DEF WorldType, worldVars

LEMMA RunsAtHead ==
  ASSUME Kept, NEW c \in Calls, Running(c)
  PROVE  call[c] # Idle /\ Head(tail) = c
  BY RunningBinding DEF Kept

\* A call leaves, having changed nothing.
LEMMA LeaveKept ==
  ASSUME Kept, NEW c \in Calls, call[c] # Idle, Head(tail) = c, Finish(c),
         UNCHANGED worldVars, UNCHANGED <<executions, effects, told>>
  PROVE  Kept'
<1>1. Orderly' /\ \A d \in Calls : ~Running(d)'
  BY FinishOrder DEF Kept
<1>2. \A d \in Calls : Knows(d)'
  BY <1>1, KnowsNothing
<1>3. WorldType'
  BY SameWorldType DEF Kept
<1> QED BY <1>1, <1>2, <1>3, LogStays, ToldStays DEF Kept

\* A running call goes on, having changed nothing.
LEMMA GoKept ==
  ASSUME Kept, NEW c \in Calls, Running(c),
         NEW pc \in {"recheck", "effect", "persisting", "failing"}, Goto(c, pc),
         pc = "failing" \/ ~Answered(call[c].request),
         UNCHANGED worldVars, UNCHANGED <<executions, effects, told>>
  PROVE  Kept'
<1>1. pc \in Steps
  BY DEF Steps
<1>2. /\ Orderly'
      /\ call'[c] = [call[c] EXCEPT !.pc = pc]
      /\ \A d \in Calls \ {c} : ~Running(d)'
  BY <1>1, RunsAtHead, GotoOrder DEF Kept
<1>3. call[c] \in Call
  BY RunsAtHead, CallFields DEF Kept, Orderly
<1>4. /\ call'[c].pc = pc
      /\ call'[c].request = call[c].request
      /\ call'[c].op = call[c].op
      /\ call'[c].binding = call[c].binding
  BY <1>2, <1>3 DEF Call
<1>5. Knows(c)'
  BY <1>4 DEF Kept, Knows, Running, Answered, Replay
<1>6. \A d \in Calls : Knows(d)'
  BY <1>2, <1>5, KnowsNothing
<1>7. WorldType'
  BY SameWorldType DEF Kept
<1> QED BY <1>2, <1>6, <1>7, LogStays, ToldStays DEF Kept

LEMMA ReplayKept ==
  ASSUME Kept, NEW r \in Requests, NEW o \in Operations, ReplayAtAdmission(r, o)
  PROVE  Kept'
<1>1. SuccessIsReal' /\ told' \in [Requests -> SUBSET Results]
  BY ReplayIsReal DEF Kept, ReplayAtAdmission
<1>2. WorldType'
  BY <1>1 DEF Kept, WorldType, ReplayAtAdmission, worldVars
<1>3. Orderly' /\ \A c \in Calls : Knows(c)'
  BY SameOrder, KnowsStays DEF Kept, ReplayAtAdmission
<1> QED BY <1>1, <1>2, <1>3, LogStays DEF Kept, ReplayAtAdmission

LEMMA AdmitKept ==
  ASSUME Kept, NEW c \in Calls, NEW r \in Requests, NEW o \in Operations,
         NEW approved \in BOOLEAN, Admit(c, r, o, approved)
  PROVE  Kept'
<1> DEFINE x == [pc |-> "queued", request |-> r, op |-> o, approved |-> approved,
                 binding |-> NoBinding]
<1>1. x \in Call /\ x.pc = "queued"
  BY DEF Call, Steps
<1>2. call[c] = Idle /\ call' = [call EXCEPT ![c] = x] /\ tail' = Append(tail, c)
  BY DEF Admit
<1>3. UNCHANGED worldVars /\ UNCHANGED <<executions, effects, told>>
  BY DEF Admit
<1> HIDE DEF x
<1>4. Orderly' /\ \A d \in Calls : Running(d)' => Running(d) /\ call'[d] = call[d]
  BY <1>1, <1>2, JoinOrder DEF Kept
<1>5. \A d \in Calls : Knows(d)'
  BY <1>3, <1>4, KnowsStays, KnowsNothing DEF Kept
<1>6. WorldType'
  BY <1>3, SameWorldType DEF Kept
<1> QED BY <1>3, <1>4, <1>5, <1>6, LogStays, ToldStays DEF Kept

LEMMA DecideKept ==
  ASSUME Kept, NEW c \in Calls, Decide(c)
  PROVE  Kept'
<1> DEFINE r == call[c].request
           o == call[c].op
<1>1. /\ call[c] # Idle
      /\ Head(tail) = c
      /\ UNCHANGED worldVars /\ UNCHANGED <<executions, effects>>
  BY NotIdle DEF Kept, Orderly, Decide, At
<1>2. call[c] \in Call /\ r \in Requests /\ o \in Operations
  BY <1>1, CallFields DEF Kept, Orderly
<1>3. CASE Finish(c) /\ UNCHANGED told
  BY <1>1, <1>3, LeaveKept
<1>4. CASE Finish(c) /\ Answered(r) /\ Tell(r, Replay(r))
  <2>1. Orderly' /\ \A d \in Calls : ~Running(d)'
    BY <1>1, <1>4, FinishOrder DEF Kept
  <2>2. SuccessIsReal' /\ told' \in [Requests -> SUBSET Results]
    BY <1>1, <1>2, <1>4, ReplayIsReal DEF Kept
  <2>3. WorldType'
    BY <1>1, <2>2 DEF Kept, WorldType, worldVars
  <2> QED BY <1>1, <2>1, <2>2, <2>3, KnowsNothing, LogStays DEF Kept
<1>5. CASE /\ ~Answered(r)
           /\ call' = [call EXCEPT ![c].pc = NextStep(o, call[c].approved),
                                   ![c].binding = BindingOf(o)]
           /\ UNCHANGED <<tail, told>>
  <2> DEFINE pc == NextStep(o, call[c].approved)
             b  == BindingOf(o)
             x  == [call[c] EXCEPT !.pc = pc, !.binding = b]
  <2>1. pc \in {"recheck", "consume", "request"}
    BY DEF NextStep
  <2>2. b \in BindingsOf(o) /\ b \in Bindings
    BY <1>2, BindingOfFacts, BindingFacts DEF Kept
  <2> HIDE DEF pc, b
  <2>3. /\ x \in Call
        /\ x.pc = pc /\ x.request = r /\ x.op = o /\ x.binding = b
    BY <1>2, <2>1, <2>2 DEF Call, Steps
  <2>4. call' = [call EXCEPT ![c] = x]
    BY <1>5 DEF pc, b
  <2> HIDE DEF x
  <2>5. Orderly' /\ call'[c] = x /\ \A d \in Calls \ {c} : ~Running(d)'
    BY <1>1, <1>5, <2>3, <2>4, MoveOrder DEF Kept
  <2>6. Knows(c)'
    BY <1>1, <1>5, <2>1, <2>2, <2>3, <2>5 DEF Knows, Answered
  <2>7. \A d \in Calls : Knows(d)'
    BY <2>5, <2>6, KnowsNothing
  <2>8. WorldType'
    BY <1>1, <1>5, SameWorldType DEF Kept
  <2> QED BY <1>1, <1>5, <2>5, <2>7, <2>8, LogStays, ToldStays DEF Kept
<1> QED BY <1>3, <1>4, <1>5 DEF Decide

LEMMA QuietStepKept ==
  ASSUME Kept, NEW c \in Calls,
         RequestApproval(c) \/ Consume(c) \/ Recheck(c) \/ Perform(c) \/ Abort(c)
  PROVE  Kept' /\ UNCHANGED effects
<1>1. Running(c) /\ ~Answered(call[c].request)
  BY DEF RequestApproval, Consume, Recheck, Perform, Abort, At, Running, Kept, Knows
<1>2. UNCHANGED worldVars /\ UNCHANGED <<executions, effects, told>>
  BY DEF RequestApproval, Consume, Recheck, Perform, Abort
<1>3. Finish(c) \/ \E pc \in {"recheck", "effect", "persisting", "failing"} : Goto(c, pc)
  BY DEF RequestApproval, Consume, Recheck, Perform, Abort
<1> QED BY <1>1, <1>2, <1>3, RunsAtHead, LeaveKept, GoKept

-----------------------------------------------------------------------------
(* The side effect.                                                        *)

\* The write of the effect that succeeds.
Lands(c) ==
  /\ At(c, "persisting")
  /\ Transact(call[c].request, call[c].op)
  /\ Goto(c, "recording")
  /\ UNCHANGED <<approvalVars, worldVars, told>>

\* The request has had no effect before, and now has exactly this one.
LEMMA EffectFacts ==
  ASSUME Kept, NEW c \in Calls, Lands(c)
  PROVE  LET r == call[c].request
             o == call[c].op
         IN  /\ r \in Requests /\ o \in Operations
             /\ Running(c)
             /\ BindingOf(o) \in BindingsOf(o)
             /\ executions[r] = <<>>
             /\ effects[r] = <<>>
             /\ effects' \in [Requests -> Seq(Bindings)]
             /\ effects'[r] = <<BindingOf(o)>>
             /\ \A q \in Requests \ {r} : effects'[q] = effects[q]
<1> DEFINE r == call[c].request
           o == call[c].op
           b == BindingOf(o)
<1>1. Running(c) /\ ~Answered(r)
  BY DEF Lands, At, Running, Kept, Knows
<1>2. r \in Requests /\ o \in Operations
  BY <1>1, RunningBinding DEF Kept
<1>3. b \in BindingsOf(o) /\ b \in Bindings
  BY <1>2, BindingOfFacts, BindingFacts DEF Kept
<1>4. executions[r] = <<>>
  BY <1>1 DEF Answered
<1>5. effects[r] = <<>>
  BY <1>2, <1>4 DEF Kept, EffectsAreLogged
<1>6. effects \in [Requests -> Seq(Bindings)]
  BY DEF Kept, WorldType
<1>7. effects' = [effects EXCEPT ![r] = Append(<<>>, b)]
  BY <1>2, <1>5, <1>6 DEF Lands, Transact
<1> HIDE DEF r, o, b
<1>8. effects' = [effects EXCEPT ![r] = <<b>>] /\ <<b>> \in Seq(Bindings)
  BY <1>3, <1>7
<1>9. /\ effects' \in [Requests -> Seq(Bindings)]
      /\ effects'[r] = <<b>>
      /\ \A q \in Requests \ {r} : effects'[q] = effects[q]
  BY <1>2, <1>6, <1>8
<1> QED BY <1>1, <1>2, <1>3, <1>4, <1>5, <1>9 DEF r, o, b

LEMMA LandsKept ==
  ASSUME Kept, NEW c \in Calls, Lands(c)
  PROVE  Kept'
<1> DEFINE r == call[c].request
           o == call[c].op
           b == BindingOf(o)
           x == [status |-> "succeeded", op |-> o]
<1>1. /\ r \in Requests /\ o \in Operations
      /\ Running(c)
      /\ b \in BindingsOf(o)
      /\ executions[r] = <<>>
      /\ effects' \in [Requests -> Seq(Bindings)]
      /\ effects'[r] = <<b>>
      /\ \A q \in Requests \ {r} : effects'[q] = effects[q]
  BY EffectFacts
<1>2. b.op = o
  BY <1>1, BindingFacts
<1>3. Log(r, "succeeded", o)
  BY DEF Lands, Transact
<1>4. /\ executions' \in [Requests -> Seq(Results)]
      /\ executions'[r] # <<>>
      /\ executions'[r][1] = x
      /\ \A q \in Requests \ {r} : executions'[q] = executions[q]
  BY <1>1, <1>3, LogFacts DEF Kept
<1>5. Goto(c, "recording") /\ "recording" \in Steps /\ UNCHANGED worldVars /\ UNCHANGED told
  BY DEF Lands, Steps
<1>6. /\ Orderly'
      /\ call'[c] = [call[c] EXCEPT !.pc = "recording"]
      /\ \A d \in Calls \ {c} : ~Running(d)'
  BY <1>1, <1>5, RunsAtHead, GotoOrder DEF Kept
<1>7. call[c] \in Call /\ call[c].binding \in BindingsOf(o)
  BY <1>1, RunsAtHead, CallFields DEF Kept, Orderly, Knows
<1>8. /\ call'[c].pc = "recording"
      /\ call'[c].request = r /\ call'[c].op = o
      /\ call'[c].binding = call[c].binding
  BY <1>6, <1>7 DEF Call
<1> HIDE DEF r, o, b, x
<1>9. Knows(c)'
  BY <1>4, <1>7, <1>8 DEF Knows, Answered, Replay, x
<1>10. \A d \in Calls : Knows(d)'
  BY <1>6, <1>9, KnowsNothing
<1>11. WorldType'
  BY <1>1, <1>4, <1>5 DEF Kept, WorldType, worldVars
<1>12. x.status = "succeeded" /\ x.op = o
  BY DEF x
<1>13. EffectsAreLogged'
  <2>1. ASSUME NEW q \in Requests
        PROVE  /\ Len(effects'[q]) <= 1
               /\ effects'[q] # <<>> <=>
                    executions'[q] # <<>> /\ executions'[q][1].status = "succeeded"
               /\ effects'[q] # <<>> => executions'[q][1].op = effects'[q][1].op
    <3>1. CASE q = r
      <4>1. Len(<<b>>) = 1 /\ <<b>> # <<>> /\ <<b>>[1] = b
        OBVIOUS
      <4>2. effects'[q] = <<b>>
        BY <1>1, <3>1
      <4> QED BY <1>2, <1>4, <1>12, <3>1, <4>1, <4>2
    <3>2. CASE q # r
      BY <1>1, <1>4, <3>2 DEF Kept, EffectsAreLogged, Replay
    <3> QED BY <3>1, <3>2
  <2> QED BY <2>1 DEF EffectsAreLogged, Replay
<1>14. SuccessIsReal'
  <2>1. ASSUME NEW q \in Requests, NEW t \in told[q], t.status = "succeeded"
        PROVE  q # r /\ effects'[q] # <<>> /\ effects'[q][1].op = t.op
    <3>1. effects[q] # <<>> /\ effects[q][1].op = t.op
      BY <2>1 DEF Kept, SuccessIsReal
    <3>2. q # r
      BY <1>1, <3>1 DEF Kept, EffectsAreLogged
    <3> QED BY <1>1, <3>1, <3>2
  <2> QED BY <1>5, <2>1 DEF SuccessIsReal
<1> QED BY <1>6, <1>10, <1>11, <1>13, <1>14 DEF Kept

\* The file is written, or the call goes on to record that it was not.
LEMMA CommitKept ==
  ASSUME Kept, NEW c \in Calls, Commit(c)
  PROVE  Kept' /\ (Lands(c) \/ UNCHANGED effects)
<1>1. CASE Lands(c)
  BY <1>1, LandsKept
<1>2. CASE Goto(c, "failing") /\ UNCHANGED <<executions, effects>>
  <2>1. Running(c) /\ UNCHANGED worldVars /\ UNCHANGED told
    BY DEF Commit, At, Running
  <2> QED BY <1>2, <2>1, GoKept
<1> QED BY <1>1, <1>2 DEF Commit, Lands

LEMMA RecordSuccessKept ==
  ASSUME Kept, NEW c \in Calls, RecordSuccess(c)
  PROVE  Kept'
<1> DEFINE r == call[c].request
           o == call[c].op
<1>1. Running(c) /\ Answered(r) /\ Replay(r) = [status |-> "succeeded", op |-> o]
  BY DEF RecordSuccess, At, Running, Kept, Knows
<1>2. r \in Requests
  BY <1>1, RunningBinding DEF Kept
<1>3. UNCHANGED worldVars /\ UNCHANGED <<executions, effects>>
  BY DEF RecordSuccess
<1>4. call[c] # Idle /\ Head(tail) = c
  BY <1>1, RunsAtHead
<1>5. CASE Finish(c) /\ Tell(r, Replay(r))
  <2>1. Orderly' /\ \A d \in Calls : ~Running(d)'
    BY <1>4, <1>5, FinishOrder DEF Kept
  <2>2. SuccessIsReal' /\ told' \in [Requests -> SUBSET Results]
    BY <1>1, <1>2, <1>3, <1>5, ReplayIsReal DEF Kept
  <2>3. WorldType'
    BY <1>3, <2>2 DEF Kept, WorldType, worldVars
  <2> QED BY <1>3, <2>1, <2>2, <2>3, KnowsNothing, LogStays DEF Kept
<1>6. CASE Goto(c, "failing") /\ UNCHANGED told
  BY <1>1, <1>3, <1>6, GoKept
<1> QED BY <1>1, <1>5, <1>6 DEF RecordSuccess

LEMMA RecordFailureKept ==
  ASSUME Kept, NEW c \in Calls, RecordFailure(c)
  PROVE  Kept'
<1> DEFINE r == call[c].request
           o == call[c].op
           x == [status |-> "failed", op |-> o]
<1>1. Running(c) /\ Finish(c) /\ UNCHANGED worldVars /\ UNCHANGED effects
  BY DEF RecordFailure, At, Running
<1>2. r \in Requests /\ o \in Operations
  BY <1>1, RunningBinding DEF Kept
<1>3. call[c] # Idle /\ Head(tail) = c
  BY <1>1, RunsAtHead
<1>4. CASE UNCHANGED <<executions, told>>
  BY <1>1, <1>3, <1>4, LeaveKept
<1>5. CASE Log(r, "failed", o) /\ (Tell(r, x) \/ UNCHANGED told)
  <2>1. /\ executions' \in [Requests -> Seq(Results)]
        /\ executions'[r] # <<>>
        /\ executions'[r][1] = IF executions[r] = <<>> THEN x ELSE executions[r][1]
        /\ \A q \in Requests \ {r} : executions'[q] = executions[q]
    BY <1>2, <1>5, LogFacts DEF Kept
  <2>2. x \in Results /\ x.status # "succeeded"
    BY <1>2 DEF Results
  <2> HIDE DEF x
  <2>3. /\ told' \in [Requests -> SUBSET Results]
        /\ \A q \in Requests : told'[q] \subseteq told[q] \cup {x}
    BY <1>2, <1>5, <2>2, TellFacts DEF Kept, WorldType
  <2>4. WorldType'
    BY <1>1, <2>1, <2>3 DEF Kept, WorldType, worldVars
  <2>5. EffectsAreLogged'
    <3> HIDE DEF r, o
    <3>1. ASSUME NEW q \in Requests
          PROVE  /\ Len(effects[q]) <= 1
                 /\ effects[q] # <<>> <=>
                      executions'[q] # <<>> /\ executions'[q][1].status = "succeeded"
                 /\ effects[q] # <<>> => executions'[q][1].op = effects[q][1].op
      <4>1. /\ Len(effects[q]) <= 1
            /\ effects[q] # <<>> <=>
                 executions[q] # <<>> /\ executions[q][1].status = "succeeded"
            /\ effects[q] # <<>> => executions[q][1].op = effects[q][1].op
        BY DEF Kept, EffectsAreLogged, Replay
      <4>2. CASE q = r /\ executions[r] = <<>>
        BY <2>1, <2>2, <4>1, <4>2
      <4>3. CASE q # r \/ executions[r] # <<>>
        BY <2>1, <4>1, <4>3
      <4> QED BY <4>2, <4>3
    <3> QED BY <1>1, <3>1 DEF EffectsAreLogged, Replay
  <2>6. SuccessIsReal'
    BY <1>1, <2>2, <2>3 DEF Kept, SuccessIsReal
  <2>7. Orderly' /\ \A d \in Calls : ~Running(d)'
    BY <1>1, <1>3, FinishOrder DEF Kept
  <2> QED BY <2>4, <2>5, <2>6, <2>7, KnowsNothing DEF Kept
<1> QED BY <1>4, <1>5 DEF RecordFailure

-----------------------------------------------------------------------------
(* The world.                                                              *)

LEMMA RaiseType ==
  ASSUME WorldType, NEW s \in Versioned, Raise(s)
  PROVE  version' \in [Versioned -> Versions]
<1>1. version[s] + 1 \in Versions
  BY GatewayAssumption DEF WorldType, Raise, Versions
<1> QED BY <1>1 DEF WorldType, Raise

LEMMA WorldStepType ==
  ASSUME WorldType, World
  PROVE  WorldType'
<1>1. ASSUME NEW s \in Resources \cup Destinations, BumpRevision(s) PROVE WorldType'
  BY <1>1, RaiseType DEF WorldType, BumpRevision, callVars, Versioned, AllScopes
<1>2. ASSUME NEW d \in Destinations, WithdrawDestination(d) PROVE WorldType'
  BY <1>2, RaiseType DEF WorldType, WithdrawDestination, callVars, Versioned, AllScopes
<1>3. ASSUME NEW g \in Grants, RevokeGrant(g) PROVE WorldType'
  <2>1. version[g] \in Versions
    BY DEF WorldType, Versioned
  <2>2. {<<g, version[g]>>} \cup (live \cap SoloRuns) \subseteq AllScopes
    BY <2>1 DEF WorldType, AllScopes
  <2>3. invalidating' \subseteq AllScopes
    BY <1>3, <2>2 DEF WorldType, RevokeGrant
  <2> QED BY <1>3, <2>3 DEF WorldType, RevokeGrant, callVars
<1>4. ASSUME NEW g \in Grants, EnrollGrant(g) PROVE WorldType'
  BY <1>4, RaiseType DEF WorldType, EnrollGrant, callVars, Versioned
<1>5. ASSUME NEW t \in Teams, ChangeMembership(t) PROVE WorldType'
  <2>1. standing[t] \in BOOLEAN
    BY DEF WorldType, Gates
  <2>2. standing' \in [Gates -> BOOLEAN]
    BY <1>5, <2>1 DEF WorldType, ChangeMembership
  <2> QED BY <1>5, <2>2 DEF WorldType, ChangeMembership, callVars
<1>6. ASSUME NEW run \in Runs, RevokeRun(run) PROVE WorldType'
  BY <1>6 DEF WorldType, RevokeRun, callVars, AllScopes
<1>7. ASSUME NEW s \in invalidating, Invalidate(s) PROVE WorldType'
  BY <1>7 DEF WorldType, Invalidate, callVars
<1>8. CASE Quarantine
  BY <1>8 DEF WorldType, Quarantine, callVars
<1>9. CASE Restart
  BY <1>9, GatewayAssumption DEF WorldType, Restart, AllScopes
<1>10. CASE Decision \/ Wait
  BY <1>10 DEF WorldType, Decision, Wait, worldVars, callVars
<1> QED BY <1>1, <1>2, <1>3, <1>4, <1>5, <1>6, <1>7, <1>8, <1>9, <1>10 DEF World, Mutation

LEMMA WorldFrame ==
  ASSUME World
  PROVE  \/ UNCHANGED callVars
         \/ Restart
  BY DEF World, Mutation, BumpRevision, WithdrawDestination, RevokeGrant, EnrollGrant,
         ChangeMembership, RevokeRun, Invalidate, Quarantine, Decision, Wait

\* A restart forgets the calls: nobody runs, and nobody waits.
LEMMA RestartOrder ==
  ASSUME Orderly, Restart
  PROVE  Orderly' /\ \A d \in Calls : ~Running(d)'
<1>1. call' = [c \in Calls |-> Idle] /\ tail' = <<>>
  BY DEF Restart
<1>2. CallType'
  BY <1>1 DEF CallType
<1>3. \A d \in Calls : call'[d] = Idle
  BY <1>1
<1> QED BY <1>2, <1>3 DEF Orderly, InOrder, Running, Idle

LEMMA WorldKept ==
  ASSUME Kept, World
  PROVE  Kept' /\ UNCHANGED effects
<1>1. WorldType'
  BY WorldStepType DEF Kept
<1>2. UNCHANGED <<executions, effects, told>>
  BY WorldFrame DEF callVars, Restart
<1>3. Orderly' /\ \A d \in Calls : Knows(d)'
  <2>1. CASE Restart
    BY <2>1, RestartOrder, KnowsNothing DEF Kept
  <2>2. CASE UNCHANGED callVars
    BY <2>2, SameOrder, KnowsStays DEF Kept, callVars
  <2> QED BY <2>1, <2>2, WorldFrame
<1> QED BY <1>1, <1>2, <1>3, LogStays, ToldStays DEF Kept

\* Nothing but the write of an effect changes the effects.
LEMMA NextKept ==
  ASSUME Kept, [Next]_vars
  PROVE  /\ Kept'
         /\ (\E c \in Calls : Lands(c)) \/ UNCHANGED effects
<1>1. ASSUME NEW r \in Requests, NEW o \in Operations, ReplayAtAdmission(r, o)
      PROVE  Kept' /\ UNCHANGED effects
  BY <1>1, ReplayKept DEF ReplayAtAdmission
<1>2. ASSUME NEW c \in Calls, NEW r \in Requests, NEW o \in Operations,
             NEW approved \in BOOLEAN, Admit(c, r, o, approved)
      PROVE  Kept' /\ UNCHANGED effects
  BY <1>2, AdmitKept DEF Admit
<1>3. ASSUME NEW c \in Calls, Step(c)
      PROVE  Kept' /\ (Lands(c) \/ UNCHANGED effects)
  <2>1. CASE Decide(c)
    BY <2>1, DecideKept DEF Decide
  <2>2. CASE RequestApproval(c) \/ Consume(c) \/ Recheck(c) \/ Perform(c) \/ Abort(c)
    BY <2>2, QuietStepKept
  <2>3. CASE Commit(c)
    BY <2>3, CommitKept
  <2>4. CASE RecordSuccess(c)
    BY <2>4, RecordSuccessKept DEF RecordSuccess
  <2>5. CASE RecordFailure(c)
    BY <2>5, RecordFailureKept DEF RecordFailure
  <2> QED BY <1>3, <2>1, <2>2, <2>3, <2>4, <2>5 DEF Step
<1>4. CASE UNCHANGED vars
  <2>1. /\ UNCHANGED worldVars
        /\ UNCHANGED <<executions, effects, told, call, tail>>
    BY <1>4 DEF vars, callVars
  <2>2. WorldType' /\ Orderly'
    BY <2>1, SameWorldType, SameOrder DEF Kept
  <2>3. \A d \in Calls : Knows(d)'
    BY <2>1, KnowsStays DEF Kept
  <2> QED BY <2>1, <2>2, <2>3, LogStays, ToldStays DEF Kept
<1> QED BY <1>1, <1>2, <1>3, <1>4, WorldKept DEF Next

-----------------------------------------------------------------------------
(* The effect is the approved one.                                         *)

LEMMA EffectIsMatched ==
  ASSUME Kept, ApprovalsInv, EffectMatchesApproval, NEW c \in Calls, Lands(c), Cleared(c),
         [AP!Next]_(AP!vars)
  PROVE  EffectMatchesApproval'
<1> DEFINE r == call[c].request
           o == call[c].op
           e == BindingOf(o)
           b == approval[r].binding
<1>1. /\ r \in Requests /\ o \in Operations
      /\ Running(c)
      /\ e \in BindingsOf(o)
      /\ effects'[r] = <<e>>
      /\ \A q \in Requests \ {r} : effects'[q] = effects[q]
  BY EffectFacts
<1>2. e.op = o /\ DOMAIN e.at = VersionedIn(o) /\ \A s \in VersionedIn(o) : e.at[s] = version[s]
  BY DEF BindingOf
<1>3. UNCHANGED <<approval, consumptions>>
  BY DEF Lands, approvalVars
<1>4. ASSUME NeedsApproval(o)
      PROVE  /\ consumptions[r] = 1
             /\ b # NoBinding
             /\ b.op = o
             /\ \A s \in VersionedIn(o) \ Grants : b.at[s] = version[s]
  <2>1. AP!IsConsumedClaimValid(r, call[c].binding)
    BY <1>4, SameRequests DEF Lands, Cleared, ApprovalHolds
  <2>2. approval[r].status = "consumed" /\ b = call[c].binding
    BY <2>1 DEF AP!IsConsumedClaimValid, AP!SameRequest
  <2>3. consumptions[r] = 1
    BY <1>1, <2>2 DEF ApprovalsInv, Counted
  <2>4. b \in BindingsOf(o) /\ b \in Bindings
    BY <1>1, <2>2, RunningBinding DEF Kept
  <2>5. b.op = o /\ b # NoBinding
    BY <1>1, <2>4, BindingFacts, GatewayAssumption
  <2>6. \A s \in VersionedIn(o) \ Grants : call[c].binding.at[s] = version[s]
    BY DEF Lands, Cleared, SameRevisions
  <2> QED BY <2>2, <2>3, <2>5, <2>6
<1>5. DOMAIN effects'[r] = {1} /\ effects'[r][1] = e
  BY <1>1
<1> HIDE DEF e, o, b
<1>6. ASSUME NEW i \in DOMAIN effects'[r], NeedsApproval(effects'[r][i].op)
      PROVE  LET e1 == effects'[r][i]
                 b1 == approval'[r].binding
             IN  /\ consumptions'[r] = 1
                 /\ b1 # NoBinding
                 /\ b1.op = e1.op
                 /\ \A s \in DOMAIN e1.at \ Grants : b1.at[s] = e1.at[s]
  <2>1. effects'[r][i] = e /\ NeedsApproval(o)
    BY <1>2, <1>5, <1>6
  <2> QED BY <1>2, <1>3, <1>4, <2>1 DEF b
<1>7. ASSUME NEW q \in Requests, q # r, NEW i \in DOMAIN effects'[q],
             NeedsApproval(effects'[q][i].op)
      PROVE  LET e1 == effects'[q][i]
                 b1 == approval'[q].binding
             IN  /\ consumptions'[q] = 1
                 /\ b1 # NoBinding
                 /\ b1.op = e1.op
                 /\ \A s \in DOMAIN e1.at \ Grants : b1.at[s] = e1.at[s]
  BY <1>1, <1>3, <1>7 DEF EffectMatchesApproval
<1> HIDE DEF r
<1> QED BY <1>6, <1>7 DEF EffectMatchesApproval, NeedsApproval

-----------------------------------------------------------------------------
(* Where the calls go, and what holds while the file is written.           *)

\* One call moves, or all are gone: none but Perform gets to where its effect is
\* written.
LEMMA WhoPersists ==
  ASSUME Kept, [Next]_vars, NEW c \in Calls, At(c, "persisting")'
  PROVE  \/ Perform(c)
         \/ call'[c] = call[c]
<1>1. CallType
  BY DEF Kept, Orderly
<1>2. ASSUME NEW d \in Calls, Step(d), d # c
      PROVE  call'[c] = call[c]
  BY <1>1, <1>2 DEF CallType, Step, Decide, RequestApproval, Consume, Recheck, Perform, Commit,
                    Abort, RecordSuccess, RecordFailure, Finish, Goto
<1>3. ASSUME Step(c), ~Perform(c)
      PROVE  FALSE
  <2>1. call[c].pc # "idle"
    BY <1>3 DEF Step, Decide, RequestApproval, Consume, Recheck, Commit, Abort, RecordSuccess,
                RecordFailure, At
  <2>2. call[c] \in Call
    BY <1>1, <2>1, NotIdle, CallFields
  <2>3. ~Finish(c)
    BY <1>1 DEF CallType, Finish, At, Idle
  <2>4. ASSUME NEW pc \in {"recheck", "effect", "recording", "failing"}
        PROVE  ~Goto(c, pc)
    BY <1>1, <2>2, <2>4 DEF CallType, Goto, At, Call
  <2>5. ~Decide(c)
    <3>1. ASSUME call' = [call EXCEPT ![c].pc = NextStep(call[c].op, call[c].approved),
                                      ![c].binding = BindingOf(call[c].op)]
          PROVE  FALSE
      <4>1. NextStep(call[c].op, call[c].approved) \in {"recheck", "consume", "request"}
        BY DEF NextStep
      <4>2. call'[c].pc = NextStep(call[c].op, call[c].approved)
        BY <1>1, <2>2, <3>1 DEF CallType, Call
      <4> QED BY <4>1, <4>2 DEF At
    <3> QED BY <2>3, <3>1 DEF Decide
  <2> QED BY <1>3, <2>3, <2>4, <2>5 DEF Step, RequestApproval, Consume, Recheck, Commit, Abort,
                                        RecordSuccess, RecordFailure
<1>4. ASSUME NEW r \in Requests, NEW o \in Operations, ReplayAtAdmission(r, o)
      PROVE  call' = call
  BY <1>4 DEF ReplayAtAdmission
<1>5. ASSUME NEW d \in Calls, NEW r \in Requests, NEW o \in Operations,
             NEW approved \in BOOLEAN, Admit(d, r, o, approved)
      PROVE  call'[c] = call[c]
  <2>1. CASE d = c
    <3>1. call'[c].pc = "queued"
      BY <1>1, <1>5, <2>1 DEF CallType, Admit
    <3> QED BY <3>1 DEF At
  <2>2. CASE d # c
    BY <1>1, <1>5, <2>2 DEF CallType, Admit
  <2> QED BY <2>1, <2>2
<1>6. CASE World
  <2>1. CASE Restart
    <3>1. call'[c] = Idle
      BY <2>1 DEF Restart
    <3> QED BY <3>1 DEF At, Idle
  <2>2. CASE UNCHANGED callVars
    BY <2>2 DEF callVars
  <2> QED BY <1>6, <2>1, <2>2, WorldFrame
<1>7. CASE UNCHANGED vars
  BY <1>7 DEF vars, callVars
<1> QED BY <1>2, <1>3, <1>4, <1>5, <1>6, <1>7 DEF Next, Step

\* While a file is written the other calls wait in the chain, and what the
\* check saw stays.
LEMMA NothingMoves ==
  ASSUME Kept, [Next]_vars, NEW c \in Calls, At(c, "persisting"), At(c, "persisting")'
  PROVE  UNCHANGED <<version, standing, intact, authority, approval, claim>>
<1>1. Running(c)
  BY DEF At, Running
<1>2. ASSUME NEW d \in Calls, Step(d), d # c
      PROVE  FALSE
  <2>1. Head(tail) = c
    BY <1>1 DEF Kept, Orderly, InOrder
  <2>2. ~Running(d)
    BY <1>2, <2>1 DEF Kept, Orderly, InOrder
  <2> QED BY <1>2, <2>1, <2>2 DEF Step, Decide, RequestApproval, Consume, Recheck, Perform, Commit,
                                  Abort, RecordSuccess, RecordFailure, At, Running
<1>3. ASSUME Step(c)
      PROVE  UNCHANGED <<approvalVars, worldVars>>
  BY <1>3 DEF Step, Decide, RequestApproval, Consume, Recheck, Perform, Commit, Abort,
              RecordSuccess, RecordFailure, At
<1>4. CASE World
  <2>1. ~Restart
    <3>1. ASSUME Restart PROVE call'[c] = Idle
      BY <3>1 DEF Restart
    <3> QED BY <3>1 DEF At, Idle
  <2>2. CASE \E run \in Runs : RevokeRun(run)
    BY <2>2 DEF RevokeRun, approvalVars
  <2>3. CASE Wait
    BY <2>3 DEF Wait, A!Tick, worldVars
  <2> QED BY <1>4, <2>1, <2>2, <2>3 DEF World
<1>5. ASSUME NEW r \in Requests, NEW o \in Operations, ReplayAtAdmission(r, o)
      PROVE  UNCHANGED <<approvalVars, worldVars>>
  BY <1>5 DEF ReplayAtAdmission
<1>6. ASSUME NEW d \in Calls, NEW r \in Requests, NEW o \in Operations,
             NEW approved \in BOOLEAN, Admit(d, r, o, approved)
      PROVE  UNCHANGED <<approvalVars, worldVars>>
  BY <1>6 DEF Admit
<1>7. CASE UNCHANGED vars
  BY <1>7 DEF vars, approvalVars, worldVars
<1> QED BY <1>2, <1>3, <1>4, <1>5, <1>6, <1>7 DEF Next, approvalVars, worldVars

\* The claim of a call is as good as it was if nothing of it has changed.
LEMMA ApprovalStillHolds ==
  ASSUME NEW c \in Calls, ApprovalHolds(c), call'[c].op = call[c].op,
         call'[c].request = call[c].request, call'[c].binding = call[c].binding,
         UNCHANGED <<authority, approval, claim>>
  PROVE  ApprovalHolds(c)'
<1> SUFFICES ASSUME NeedsApproval(call[c].op)
             PROVE  A!IsConsumedClaimValid(call[c].request, call[c].binding)'
  BY DEF ApprovalHolds, NeedsApproval
<1>1. A!IsConsumedClaimValid(call[c].request, call[c].binding)
  BY DEF ApprovalHolds
<1>2. PICK r : r = call[c].request
  OBVIOUS
<1>3. PICK b : b = call[c].binding
  OBVIOUS
<1>4. call'[c].request = r /\ call'[c].binding = b
  BY <1>2, <1>3
<1>5. A!IsConsumedClaimValid(r, b)
  BY <1>1, <1>2, <1>3
<1>6. A!ValidDecisions(r)'
  BY <1>5 DEF A!IsConsumedClaimValid, A!ValidDecisions, A!Eligible, A!RequiredRoles
<1>7. A!FullyDecided(r)'
  BY <1>5 DEF A!IsConsumedClaimValid, A!FullyDecided, A!Eligible, A!RequiredRoles
<1>8. A!AllCurrent(r)'
  BY <1>5 DEF A!IsConsumedClaimValid, A!AllCurrent, A!IsCurrent, A!Eligible
<1>9. A!ClaimMatches(r)'
  BY <1>5 DEF A!IsConsumedClaimValid, A!ClaimMatches
<1>10. A!IsConsumedClaimValid(r, b)'
  BY <1>5, <1>6, <1>7, <1>8, <1>9 DEF A!IsConsumedClaimValid, A!SameRequest
<1> QED BY <1>4, <1>10

LEMMA ClearedStays ==
  ASSUME Kept, [Next]_vars, NEW c \in Calls, Cleared(c)
  PROVE  Cleared(c)'
<1> SUFFICES ASSUME At(c, "persisting")'
             PROVE  intact' /\ SameRevisions(c)' /\ Permits(call[c].op)' /\ ApprovalHolds(c)'
  BY DEF Cleared
<1>1. CASE Perform(c)
  <2>1. /\ intact /\ SameRevisions(c) /\ Permits(call[c].op) /\ ApprovalHolds(c)
        /\ UNCHANGED <<version, standing, intact, authority, approval, claim>>
    BY <1>1 DEF Perform, Authorized, approvalVars, worldVars
  <2>2. call[c] \in Call
    BY <1>1, NotIdle, CallFields DEF Kept, Orderly, Perform, At
  <2>3. /\ call'[c].op = call[c].op /\ call'[c].request = call[c].request
        /\ call'[c].binding = call[c].binding
    BY <1>1, <2>2 DEF Kept, Orderly, CallType, Perform, Goto, Call
  <2>4. ApprovalHolds(c)'
    BY <2>1, <2>3, ApprovalStillHolds
  <2>5. SameRevisions(c)' /\ Permits(call[c].op)' /\ intact'
    BY <2>1, <2>3 DEF SameRevisions, Permits, VersionedIn
  <2> QED BY <2>4, <2>5
<1>2. CASE call'[c] = call[c]
  <2>1. At(c, "persisting")
    BY <1>2 DEF At
  <2>2. UNCHANGED <<version, standing, intact, authority, approval, claim>>
    BY <2>1, NothingMoves
  <2>3. ApprovalHolds(c)'
    BY <1>2, <2>1, <2>2, ApprovalStillHolds DEF Cleared
  <2>4. SameRevisions(c)' /\ Permits(call[c].op)' /\ intact'
    BY <1>2, <2>1, <2>2 DEF Cleared, SameRevisions, Permits, VersionedIn
  <2> QED BY <2>3, <2>4
<1> QED BY <1>1, <1>2, WhoPersists

LEMMA InitHolds ==
  ASSUME Init
  PROVE  IInv
<1>1. AP!Init
  BY SameInit DEF Init
<1>2. ApprovalsInv
  <2>1. AP!IInv
    BY <1>1, AP!InitSound, ApprovalsApply
  <2>2. \A r \in Requests : approval[r].status = "none"
    BY <1>1 DEF AP!Init, AP!NoApproval
  <2> QED BY <2>1, <2>2 DEF ApprovalsInv, Counted
<1>3. 1 \in Versions
  BY GatewayAssumption DEF Versions
<1>4. WorldType
  BY <1>3 DEF Init, WorldType
<1>5. \A c \in Calls : call[c] = Idle
  BY DEF Init
<1>6. CallType
  BY DEF Init, CallType
<1>7. Orderly /\ \A c \in Calls : Knows(c)
  BY <1>5, <1>6 DEF Orderly, InOrder, Knows, Running, Idle
<1>8. \A r \in Requests : effects[r] = <<>> /\ executions[r] = <<>> /\ told[r] = {}
  BY DEF Init
<1>9. EffectsAreLogged /\ SuccessIsReal /\ EffectMatchesApproval
  BY <1>8 DEF EffectsAreLogged, SuccessIsReal, EffectMatchesApproval
<1>10. \A c \in Calls : Cleared(c)
  BY <1>5 DEF Cleared, At, Idle
<1> QED BY <1>2, <1>4, <1>7, <1>9, <1>10 DEF IInv

LEMMA StepHolds ==
  ASSUME IInv, [Next]_vars
  PROVE  IInv' /\ [AP!Next]_(AP!vars)
<1>1. Kept /\ ApprovalsInv /\ AP!TypeOK
  BY DEF IInv, Kept, ApprovalsInv, AP!IInv
<1>2. [AP!Next]_(AP!vars)
  BY <1>1, ApprovalsStep DEF Kept
<1>3. ApprovalsInv'
  BY <1>1, <1>2, ApprovalsInvStep
<1>4. Kept' /\ ((\E c \in Calls : Lands(c)) \/ UNCHANGED effects)
  BY <1>1, NextKept
<1>5. EffectMatchesApproval'
  BY <1>1, <1>2, <1>4, EffectIsMatched, EffectsStayMatched DEF IInv, Kept
<1>6. \A c \in Calls : Cleared(c)'
  BY <1>1, ClearedStays DEF IInv
<1> QED BY <1>2, <1>3, <1>4, <1>5, <1>6 DEF IInv, Kept

-----------------------------------------------------------------------------
(* The theorems.                                                           *)

\* Calls, log, approvals and effects agree in every reachable state.
THEOREM GatewayInductive == Spec => []IInv
<1>1. Init => IInv
  BY InitHolds
<1>2. IInv /\ [Next]_vars => IInv'
  BY StepHolds
<1> QED BY <1>1, <1>2, PTL DEF Spec

\* The gateway uses approvals as Approvals says: every behaviour of the gateway,
\* its restarts and failed writes included, is one of the approval service, so
\* what is proved of that service holds inside the gateway.
THEOREM GatewayKeepsApprovals == Spec => AP!Spec
<1>1. Init => AP!Init
  BY SameInit DEF Init
<1>2. IInv /\ [Next]_vars => [AP!Next]_(AP!vars)
  BY StepHolds
<1> QED BY <1>1, <1>2, GatewayInductive, PTL DEF Spec, AP!Spec

\* The use of a claim is returned at most once for a request, also when many
\* calls of execute carry it.
THEOREM GatewayConsumesOnce == Spec => []AP!ConsumedOnce
<1>1. AP!Spec => []AP!ConsumedOnce
  BY AP!ConsumedAtMostOnce, ApprovalsApply
<1> QED BY <1>1, GatewayKeepsApprovals, PTL

\* Every variable of the gateway keeps its type.
THEOREM GatewayTypes == Spec => []TypeOK
<1>1. IInv => TypeOK
  BY SameType DEF IInv, ApprovalsInv, AP!IInv, WorldType, Orderly, CallType, TypeOK, AllScopes
<1> QED BY <1>1, GatewayInductive, PTL

\* A request has one side effect at most and its log says which, however many
\* calls of execute carry it and wherever they fail.
THEOREM LoggedEffects == Spec => []EffectsAreLogged
<1>1. IInv => EffectsAreLogged
  BY DEF IInv
<1> QED BY <1>1, GatewayInductive, PTL

\* No caller is told of a success that did not happen.
THEOREM RealSuccesses == Spec => []SuccessIsReal
<1>1. IInv => SuccessIsReal
  BY DEF IInv
<1> QED BY <1>1, GatewayInductive, PTL

\* What happened is what was approved, and used up its one claim.
THEOREM ApprovedEffects == Spec => []EffectMatchesApproval
<1>1. IInv => EffectMatchesApproval
  BY DEF IInv
<1> QED BY <1>1, GatewayInductive, PTL

-----------------------------------------------------------------------------
(* What a step may never do.                                               *)

\* A record of an authority is known by its two fields.
LEMMA AuthorityRecord ==
  ASSUME AP!TypeOK, NEW a \in Authorities, authority[a].active
  PROVE  authority[a] = [active |-> TRUE, revision |-> authority[a].revision]
<1>1. authority[a] \in [active : BOOLEAN, revision : Nat]
  BY DEF AP!TypeOK
<1> QED BY <1>1

\* What holds of a request when its effect is written.
Backed(r, e) ==
  /\ \A g \in Touched[e.op] \cap Gates : standing[g]
  /\ NeedsApproval(e.op) =>
       \A i \in DOMAIN approval[r].decisions :
         LET d == approval[r].decisions[i]
         IN  authority[d.authority] = [active |-> TRUE, revision |-> d.revision]

LEMMA BackedEffect ==
  ASSUME IInv, NEW c \in Calls, Lands(c), NEW r \in Requests, effects'[r] # effects[r]
  PROVE  Backed(r, effects'[r][Len(effects'[r])])
<1> DEFINE o == call[c].op
<1>1. Kept
  BY DEF IInv, Kept
<1>2. r = call[c].request /\ effects'[r] = <<BindingOf(o)>> /\ o \in Operations
  BY <1>1, EffectFacts
<1>3. effects'[r][Len(effects'[r])] = BindingOf(o)
  BY <1>2
<1>4. BindingOf(o).op = o
  BY DEF BindingOf
<1>5. Permits(o) /\ ApprovalHolds(c)
  BY DEF IInv, Lands, Cleared
<1>6. ASSUME NeedsApproval(o), NEW i \in DOMAIN approval[r].decisions
      PROVE  LET d == approval[r].decisions[i]
             IN  authority[d.authority] = [active |-> TRUE, revision |-> d.revision]
  <2> DEFINE d == approval[r].decisions[i]
  <2>1. AP!AllCurrent(r)
    BY <1>2, <1>5, <1>6, SameRequests DEF ApprovalHolds, AP!IsConsumedClaimValid
  <2>2. authority[d.authority].revision = d.revision /\ authority[d.authority].active
    BY <2>1 DEF AP!AllCurrent, AP!IsCurrent, AP!Eligible
  <2>3. AP!TypeOK
    BY DEF IInv, ApprovalsInv, AP!IInv
  <2>4. d \in AP!Decision
    BY <2>3 DEF AP!TypeOK, AP!Approval
  <2>5. d.authority \in Authorities
    BY <2>4 DEF AP!Decision
  <2> QED BY <2>2, <2>3, <2>5, AuthorityRecord
<1> HIDE DEF o
<1> QED BY <1>3, <1>4, <1>5, <1>6 DEF Permits, Backed

\* Authority withdrawn while a call waits stops its side effect: for destinations,
\* grants, memberships and signatures until the effect is written, for the run
\* until its write begins.
THEOREM RevocationsBeatTheQueue == Spec => RevocationBeatsTheQueue
<1>1. ASSUME IInv, [Next]_vars, NEW r \in Requests, effects'[r] # effects[r]
      PROVE  Backed(r, effects'[r][Len(effects'[r])])
  <2>1. \E c \in Calls : Lands(c)
    BY <1>1, NextKept DEF IInv, Kept
  <2> QED BY <1>1, <2>1, BackedEffect
<1>2. ASSUME IInv, [Next]_vars, NEW c \in Calls, At(c, "persisting")', ~At(c, "persisting")
      PROVE  Alive(call[c].request)
  <2>1. call'[c] # call[c]
    BY <1>2 DEF At
  <2>2. Perform(c)
    BY <1>2, <2>1, WhoPersists DEF IInv, Kept
  <2> QED BY <2>2 DEF Perform, Authorized
<1>3. IInv /\ [Next]_vars =>
        [/\ \A r \in Requests :
              effects'[r] # effects[r] =>
                LET e == effects'[r][Len(effects'[r])]
                IN  /\ \A g \in Touched[e.op] \cap Gates : standing[g]
                    /\ NeedsApproval(e.op) =>
                         \A i \in DOMAIN approval[r].decisions :
                           LET d == approval[r].decisions[i]
                           IN  authority[d.authority] = [active |-> TRUE, revision |-> d.revision]
         /\ \A c \in Calls :
              At(c, "persisting")' /\ ~At(c, "persisting") => Alive(call[c].request)
        ]_vars
  BY <1>1, <1>2 DEF Backed
<1> QED BY <1>3, GatewayInductive, PTL DEF Spec, RevocationBeatsTheQueue

\* A broken chain freezes effects, log and claims.
THEOREM QuarantinesFreeze == Spec => QuarantineFreezes
<1> DEFINE Frozen ==
      /\ UNCHANGED <<effects, executions, consumptions>>
      /\ \A r \in Requests :
           approval'[r].status = "approved" => approval[r].status = "approved"
<1>1. ASSUME IInv, [Next]_vars, ~intact PROVE Frozen
  <2>1. AP!TypeOK
    BY <1>1 DEF IInv, ApprovalsInv, AP!IInv
  <2>2. ASSUME UNCHANGED approvalVars PROVE UNCHANGED <<approval, consumptions>>
    BY <2>2 DEF approvalVars
  <2>3. ASSUME NEW r \in Requests, NEW o \in Operations, ReplayAtAdmission(r, o) PROVE FALSE
    BY <1>1, <2>3 DEF ReplayAtAdmission
  <2>4. ASSUME NEW c \in Calls, NEW r \in Requests, NEW o \in Operations,
               NEW approved \in BOOLEAN, Admit(c, r, o, approved)
        PROVE  FALSE
    BY <1>1, <2>4 DEF Admit
  <2>5. ASSUME NEW c \in Calls, Step(c) PROVE Frozen
    <3>1. ~At(c, "persisting")
      BY <1>1 DEF IInv, Cleared
    <3>2. UNCHANGED <<effects, executions>>
      BY <1>1, <2>5, <3>1 DEF Step, Decide, RequestApproval, Consume, Recheck, Perform, Commit,
                              Abort, RecordSuccess, RecordFailure
    <3>3. UNCHANGED approvalVars
      BY <1>1, <2>5, <3>1 DEF Step, Decide, RequestApproval, Consume, Recheck, Perform, Commit,
                              Abort, RecordSuccess, RecordFailure
    <3> QED BY <2>2, <3>2, <3>3
  <2>6. CASE Restart
    <3>1. AP!Reload({r \in Requests :
            approval[r].binding # NoBinding /\ Stale(approval[r].binding)})
      BY <2>6, SameRevocations DEF Restart
    <3>2. ASSUME NEW r \in Requests, approval'[r].status = "approved"
          PROVE  approval[r].status = "approved"
      BY <2>1, <3>1, <3>2 DEF AP!Reload, AP!TypeOK, AP!Approval
    <3> QED BY <2>6, <3>1, <3>2 DEF Restart, AP!Reload
  <2>7. CASE Decision \/ Wait
    <3>1. UNCHANGED <<approval, consumptions>>
      BY <1>1, <2>7 DEF Decision, Wait, A!RevokeForAuthorityFails, A!Tick
    <3> QED BY <2>7, <3>1 DEF Decision, Wait, callVars
  <2>8. CASE World /\ ~Restart /\ ~Decision /\ ~Wait
    <3>1. UNCHANGED approvalVars /\ UNCHANGED callVars
      BY <1>1, <2>8 DEF World, Mutation, BumpRevision, WithdrawDestination, RevokeGrant,
                        EnrollGrant, ChangeMembership, RevokeRun, Invalidate, Quarantine
    <3> QED BY <2>2, <3>1 DEF callVars
  <2>9. CASE UNCHANGED vars
    BY <2>2, <2>9 DEF vars, callVars
  <2> QED BY <1>1, <2>3, <2>4, <2>5, <2>6, <2>7, <2>8, <2>9 DEF Next
<1>2. IInv /\ [Next]_vars =>
        [~intact =>
           /\ UNCHANGED <<effects, executions, consumptions>>
           /\ \A r \in Requests :
                approval'[r].status = "approved" => approval[r].status = "approved"
        ]_vars
  BY <1>1
<1> QED BY <1>2, GatewayInductive, PTL DEF Spec, QuarantineFreezes
=============================================================================
