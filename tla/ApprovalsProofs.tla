--------------------------- MODULE ApprovalsProofs ---------------------------
EXTENDS Approvals, TLAPS

LEMMA RequiredRolesFacts ==
  ASSUME NEW b
  PROVE  /\ RequiredRoles(b) \in Seq(Roles)
         /\ Len(RequiredRoles(b)) \in {1, 2}
         /\ DOMAIN RequiredRoles(b) = 1 .. Len(RequiredRoles(b))
         /\ \A i, j \in DOMAIN RequiredRoles(b) :
              i # j => RequiredRoles(b)[i] # RequiredRoles(b)[j]
<1>1. CASE b \in Critical
  <2>1. RequiredRoles(b) = <<"owner", "independent_reviewer">>
    BY <1>1 DEF RequiredRoles
  <2>2. QED BY <2>1 DEF Roles
<1>2. CASE b \notin Critical
  <2>1. RequiredRoles(b) = <<"owner">>
    BY <1>2 DEF RequiredRoles
  <2>2. QED BY <2>1 DEF Roles
<1>3. QED BY <1>1, <1>2

\* The records a step writes, one lemma per field, so that no later proof
\* has to look inside the types.
LEMMA ApprovalUpdates ==
  ASSUME NEW x \in Approval
  PROVE  /\ \A st \in Statuses : [x EXCEPT !.status = st] \in Approval
         /\ \A st \in Statuses, d \in Decision :
              [x EXCEPT !.decisions = Append(x.decisions, d), !.status = st] \in Approval
         /\ \A b \in Bindings, t \in Nat :
              [status |-> "pending", binding |-> b, expiresAt |-> t, decisions |-> <<>>]
                \in Approval
<1>1. /\ x.status \in Statuses
      /\ x.decisions \in Seq(Decision)
  BY DEF Approval
<1>2. \A d \in Decision : Append(x.decisions, d) \in Seq(Decision)
  BY <1>1
<1>3. << >> \in Seq(Decision)
  OBVIOUS
<1>4. "pending" \in Statuses
  BY DEF Statuses
<1> QED BY <1>1, <1>2, <1>3, <1>4 DEF Approval

LEMMA ClaimUpdates ==
  ASSUME NEW x \in Claim
  PROVE  /\ [x EXCEPT !.remainingUses = 0] \in Claim
         /\ \A b \in Bindings, t \in Nat, ds \in Seq(Decision) :
              [issued |-> TRUE, remainingUses |-> 1, binding |-> b, expiresAt |-> t,
               decisions |-> ds] \in Claim
         /\ NoClaim \in Claim
<1>1. << >> \in Seq(Decision)
  OBVIOUS
<1> QED BY <1>1 DEF Claim, NoClaim

LEMMA DecisionType ==
  ASSUME TypeOK, NEW h \in Humans, NEW a \in Authorities, NEW role \in Roles,
         NEW verdict \in {"approve", "deny"}
  PROVE  DecisionOf(h, a, role, verdict) \in Decision
  BY DEF TypeOK, DecisionOf, Decision

-----------------------------------------------------------------------------
(* Type correctness, one lemma per action.                                 *)

LEMMA ExpireType ==
  ASSUME TypeOK, NEW r \in Requests, ExpirePending(r)
  PROVE  TypeOK'
<1>1. approval' \in [Requests -> Approval]
  BY ApprovalUpdates DEF TypeOK, ExpirePending, Statuses
<1> QED BY <1>1 DEF TypeOK, ExpirePending

LEMMA GetOrCreateType ==
  ASSUME TypeOK, NEW r \in Requests, NEW b \in Bindings, GetOrCreate(r, b)
  PROVE  TypeOK'
<1>1. CASE ExpirePending(r)
  BY <1>1, ExpireType
<1>2. CASE ~ExpirePending(r)
  <2>1. now + TTL \in Nat
    BY ApprovalsAssumption DEF TypeOK
  <2>2. approval' \in [Requests -> Approval]
    BY <1>2, <2>1, ApprovalUpdates DEF TypeOK, GetOrCreate
  <2> QED BY <1>2, <2>2 DEF TypeOK, GetOrCreate
<1> QED BY <1>1, <1>2

LEMMA ApproveType ==
  ASSUME TypeOK, NEW r \in Requests, NEW h \in Humans, Approve(r, h)
  PROVE  TypeOK'
<1>1. CASE ExpirePending(r)
  BY <1>1, ExpireType
<1>2. CASE ~ExpirePending(r)
  <2>1. PICK a \in Authorities, role \in Roles :
          LET ds   == Append(approval[r].decisions, DecisionOf(h, a, role, "approve"))
              done == Len(ds) >= Len(RequiredRoles(approval[r].binding))
          IN  /\ MayDecide(r, h, a, role)
              /\ approval' = [approval EXCEPT
                   ![r].decisions = ds,
                   ![r].status = IF done THEN "approved" ELSE "pending"]
              /\ claim' = [claim EXCEPT ![r] =
                   IF done
                   THEN [issued |-> TRUE, remainingUses |-> 1,
                         binding |-> approval[r].binding, expiresAt |-> now + TTL,
                         decisions |-> ds]
                   ELSE @]
              /\ UNCHANGED <<now, authority, revoking, consumptions>>
    BY <1>2 DEF Approve
  <2> DEFINE d  == DecisionOf(h, a, role, "approve")
             ds == Append(approval[r].decisions, d)
  <2>2. d \in Decision
    BY DecisionType
  <2>3. ds \in Seq(Decision) /\ now + TTL \in Nat
    BY <2>2, ApprovalsAssumption DEF TypeOK, Approval
  <2>4. approval' \in [Requests -> Approval]
    <3>1. \A st \in Statuses :
            [approval[r] EXCEPT !.decisions = ds, !.status = st] \in Approval
      BY <2>2, ApprovalUpdates DEF TypeOK
    <3>2. \E st \in {"approved", "pending"} :
            approval' = [approval EXCEPT ![r].decisions = ds, ![r].status = st]
      BY <2>1
    <3>3. PICK st \in {"approved", "pending"} :
            approval' = [approval EXCEPT ![r].decisions = ds, ![r].status = st]
      BY <3>2
    <3>4. [approval[r] EXCEPT !.decisions = ds, !.status = st] \in Approval
      BY <3>1 DEF Statuses
    <3>5. approval' = [approval EXCEPT ![r] =
            [approval[r] EXCEPT !.decisions = ds, !.status = st]]
      BY <3>3 DEF TypeOK
    <3> HIDE DEF ds
    <3> QED BY <3>4, <3>5 DEF TypeOK
  <2>5. claim' \in [Requests -> Claim]
    <3>1. approval[r].binding \in Bindings =>
            [issued |-> TRUE, remainingUses |-> 1, binding |-> approval[r].binding,
             expiresAt |-> now + TTL, decisions |-> ds] \in Claim
      <4> HIDE DEF ds
      <4> QED BY <2>3 DEF Claim
    <3>2. MayDecide(r, h, a, role)
      BY <2>1
    <3>3. approval[r].binding \in Bindings
      BY <3>2, ApprovalsAssumption DEF MayDecide, Eligible
    <3> QED BY <2>1, <3>1, <3>3 DEF TypeOK
  <2> QED BY <2>1, <2>4, <2>5 DEF TypeOK
<1> QED BY <1>1, <1>2

LEMMA DenyType ==
  ASSUME TypeOK, NEW r \in Requests, NEW h \in Humans, Deny(r, h)
  PROVE  TypeOK'
<1>1. CASE ExpirePending(r)
  BY <1>1, ExpireType
<1>2. CASE ~ExpirePending(r)
  <2>1. PICK a \in Authorities, role \in Roles :
          /\ approval' = [approval EXCEPT
               ![r].decisions = Append(@, DecisionOf(h, a, role, "deny")),
               ![r].status = "denied"]
          /\ UNCHANGED <<now, authority, claim, revoking, consumptions>>
    BY <1>2 DEF Deny
  <2>2. DecisionOf(h, a, role, "deny") \in Decision
    BY DecisionType
  <2>3. [approval[r] EXCEPT
           !.decisions = Append(approval[r].decisions, DecisionOf(h, a, role, "deny")),
           !.status = "denied"] \in Approval
    BY <2>2, ApprovalUpdates DEF TypeOK, Statuses
  <2>4. approval' \in [Requests -> Approval]
    BY <2>1, <2>3 DEF TypeOK
  <2> QED BY <2>1, <2>4 DEF TypeOK
<1> QED BY <1>1, <1>2

LEMMA ConsumeType ==
  ASSUME TypeOK, NEW r \in Requests, NEW b \in Bindings, ConsumeCapability(r, b)
  PROVE  TypeOK'
<1>1. CASE ExpirePending(r)
  BY <1>1, ExpireType
<1>2. CASE ~ExpirePending(r)
  <2>1. [claim[r] EXCEPT !.remainingUses = 0] \in Claim
    BY ClaimUpdates DEF TypeOK
  <2>2. claim' \in [Requests -> Claim]
    BY <1>2, <2>1 DEF TypeOK, ConsumeCapability
  <2>3. \A st \in Statuses : [approval[r] EXCEPT !.status = st] \in Approval
    BY ApprovalUpdates DEF TypeOK
  <2>4. approval' \in [Requests -> Approval]
    BY <1>2, <2>3 DEF TypeOK, ConsumeCapability, Statuses
  <2>5. consumptions' \in [Requests -> Nat]
    BY <1>2 DEF TypeOK, ConsumeCapability
  <2> QED BY <1>2, <2>2, <2>4, <2>5 DEF TypeOK, ConsumeCapability
<1> QED BY <1>1, <1>2

LEMMA RevokeScopeType ==
  ASSUME TypeOK, NEW s \in Scopes, RevokeForScope(s)
  PROVE  TypeOK'
<1>1. claim' \in [Requests -> Claim]
  BY ClaimUpdates DEF TypeOK, RevokeForScope, RevokeClaims, Drained
<1>2. approval' \in [Requests -> Approval]
  BY ApprovalUpdates DEF TypeOK, RevokeForScope, RevokeClaims, Drained, Statuses
<1> QED BY <1>1, <1>2 DEF TypeOK, RevokeForScope

LEMMA RevokeAuthorityType ==
  ASSUME TypeOK, NEW a \in Authorities,
         RevokeAuthority(a) \/ RevokeForAuthority(a) \/ RevokeForAuthorityFails(a)
  PROVE  TypeOK'
<1>1. CASE RevokeAuthority(a)
  BY <1>1 DEF TypeOK, RevokeAuthority
<1>2. CASE RevokeForAuthority(a)
  <2>1. claim' \in [Requests -> Claim]
    BY <1>2, ClaimUpdates DEF TypeOK, RevokeForAuthority, RevokeClaims, Drained
  <2>2. approval' \in [Requests -> Approval]
    BY <1>2, ApprovalUpdates DEF TypeOK, RevokeForAuthority, RevokeClaims, Drained, Statuses
  <2> QED BY <1>2, <2>1, <2>2 DEF TypeOK, RevokeForAuthority
<1>3. CASE RevokeForAuthorityFails(a)
  BY <1>3 DEF TypeOK, RevokeForAuthorityFails
<1> QED BY <1>1, <1>2, <1>3

LEMMA RestartType ==
  ASSUME TypeOK, Restart
  PROVE  TypeOK'
<1>1. PICK stale : Reload(stale)
  BY DEF Restart
<1>2. claim' \in [Requests -> Claim]
  BY <1>1, ClaimUpdates DEF TypeOK, Reload, Drained
<1>3. approval' \in [Requests -> Approval]
  BY <1>1, ApprovalUpdates DEF TypeOK, Reload, Statuses
<1> QED BY <1>1, <1>2, <1>3 DEF TypeOK, Reload

LEMMA InitType ==
  ASSUME Init
  PROVE  TypeOK
<1>1. NoApproval \in Approval /\ NoClaim \in Claim
  BY DEF NoApproval, NoClaim, Approval, Claim, Statuses
<1> QED BY <1>1 DEF Init, TypeOK

LEMMA StepType ==
  ASSUME TypeOK, [Next]_vars
  PROVE  TypeOK'
<1>1. ASSUME NEW r \in Requests, Get(r) PROVE TypeOK'
  BY <1>1, ExpireType DEF Get
<1>2. CASE Tick
  BY <1>2 DEF Tick, TypeOK
<1>3. CASE UNCHANGED vars
  BY <1>3 DEF vars, TypeOK
<1> QED
  BY <1>1, <1>2, <1>3, GetOrCreateType, ApproveType, DenyType, ConsumeType,
     RevokeScopeType, RevokeAuthorityType, RestartType DEF Next

\* Every variable keeps its type for any number of requests, humans,
\* authorities, scopes and bindings.
THEOREM TypeCorrect == Spec => []TypeOK
<1>1. Init => TypeOK
  BY InitType
<1>2. TypeOK /\ [Next]_vars => TypeOK'
  BY StepType
<1>3. QED BY <1>1, <1>2, PTL DEF Spec

-----------------------------------------------------------------------------
(* The inductive invariant.  What the three safety invariants leave out is *)
(* what happens before the last signature: a pending approval already has  *)
(* decisions, and they must be good ones or the last would complete a bad  *)
(* set.                                                                    *)

Once(r) ==
  /\ consumptions[r] \in {0, 1}
  /\ consumptions[r] = 1 => approval[r].status \in {"consumed", "revoked"}

Follows(r) ==
  /\ (claim[r].remainingUses = 1) <=> (approval[r].status = "approved")
  /\ approval[r].status = "approved" => ClaimMatches(r)

GoodDecision(d, b) ==
  /\ d.verdict = "approve"
  /\ HumanOf[d.authority] = d.human
  /\ RoleOf[d.authority] = d.role
  /\ b \in Covers[d.authority]

Signed(r) ==
  /\ approval[r].status \in {"pending", "approved", "consumed"} =>
       /\ ValidDecisions(r)
       /\ \A i \in DOMAIN approval[r].decisions :
            GoodDecision(approval[r].decisions[i], approval[r].binding)
  /\ approval[r].status \in {"approved", "consumed"} => FullyDecided(r)

Sound(r) == Once(r) /\ Follows(r) /\ Signed(r)

IInv == TypeOK /\ \A r \in Requests : Sound(r)

\* A request a step does not touch stays sound.
LEMMA Untouched ==
  ASSUME NEW r \in Requests, Sound(r),
         approval'[r] = approval[r], claim'[r] = claim[r],
         consumptions'[r] = consumptions[r]
  PROVE  Sound(r)'
  BY DEF Sound, Once, Follows, Signed, ClaimMatches, ValidDecisions, FullyDecided,
         GoodDecision

\* A request that a step terminates, taking the use of its claim, stays sound;
\* only a revocation may terminate one that was consumed.
LEMMA Terminated ==
  ASSUME NEW r \in Requests, TypeOK, Sound(r), NEW st \in {"expired", "denied", "revoked"},
         approval'[r].status = st,
         claim'[r].remainingUses = 0,
         consumptions'[r] = consumptions[r],
         st = "revoked" \/ approval[r].status \in {"pending", "approved"}
  PROVE  Sound(r)'
  BY DEF Sound, Once, Follows, Signed

LEMMA ExpireSound ==
  ASSUME IInv, NEW r \in Requests, ExpirePending(r), NEW q \in Requests
  PROVE  Sound(q)'
<1>1. CASE q # r
  BY <1>1, Untouched DEF IInv, TypeOK, ExpirePending
<1>2. CASE q = r
  <2>1. claim[r].remainingUses = 0
    BY DEF IInv, Sound, Follows, TypeOK, ExpirePending, Lapsing, Claim
  <2>2. approval'[r].status = "expired"
    BY DEF IInv, TypeOK, ExpirePending, Approval
  <2> QED BY <1>2, <2>1, <2>2, Terminated DEF IInv, ExpirePending, Lapsing
<1> QED BY <1>1, <1>2

LEMMA GetOrCreateSound ==
  ASSUME IInv, NEW r \in Requests, NEW b \in Bindings, GetOrCreate(r, b), NEW q \in Requests
  PROVE  Sound(q)'
<1>1. CASE ExpirePending(r)
  BY <1>1, ExpireSound
<1>2. CASE ~ExpirePending(r) /\ q # r
  BY <1>2, Untouched DEF IInv, TypeOK, GetOrCreate
<1>3. CASE ~ExpirePending(r) /\ q = r
  <2>1. /\ approval[r].status = "none"
        /\ approval'[r].status = "pending"
        /\ approval'[r].decisions = <<>>
        /\ UNCHANGED <<claim, consumptions>>
    BY <1>3 DEF IInv, TypeOK, GetOrCreate
  <2>2. Once(r)'
    BY <2>1 DEF IInv, Sound, Once
  <2>3. Follows(r)'
    BY <2>1 DEF IInv, Sound, Follows
  <2>4. Signed(r)'
    <3>1. ValidDecisions(r)'
      BY <2>1, RequiredRolesFacts DEF ValidDecisions
    <3> QED BY <2>1, <3>1 DEF Signed
  <2> QED BY <1>3, <2>2, <2>3, <2>4 DEF Sound
<1> QED BY <1>1, <1>2, <1>3

-----------------------------------------------------------------------------
(* A signature.                                                            *)

\* The first open role is the one after those already filled: approve and
\* deny fill the required roles in their order and never beyond the last.
LEMMA OpenRoleIsNext ==
  ASSUME TypeOK, NEW r \in Requests, NEW role, ValidDecisions(r), IsOpenRole(r, role)
  PROVE  LET n     == Len(approval[r].decisions)
             roles == RequiredRoles(approval[r].binding)
         IN  n + 1 \in DOMAIN roles /\ role = roles[n + 1]
<1> DEFINE ds    == approval[r].decisions
           n     == Len(ds)
           roles == RequiredRoles(approval[r].binding)
<1>1. ds \in Seq(Decision) /\ n \in Nat /\ DOMAIN ds = 1 .. n
  BY DEF TypeOK, Approval
<1>2. /\ Len(roles) \in Nat
      /\ DOMAIN roles = 1 .. Len(roles)
      /\ \A i, j \in DOMAIN roles : i # j => roles[i] # roles[j]
  BY RequiredRolesFacts
<1>3. n <= Len(roles) /\ \A k \in DOMAIN ds : ds[k].role = roles[k]
  BY DEF ValidDecisions
<1>4. PICK i \in DOMAIN roles :
        /\ role = roles[i]
        /\ \A k \in DOMAIN ds : ds[k].role # roles[i]
        /\ \A j \in 1 .. (i - 1) : ~(\A k \in DOMAIN ds : ds[k].role # roles[j])
  BY DEF IsOpenRole
<1> HIDE DEF ds, n, roles
<1>5. i > n
  BY <1>1, <1>2, <1>3, <1>4
<1>6. ~(i > n + 1)
  <2> SUFFICES ASSUME i > n + 1 PROVE FALSE
    OBVIOUS
  <2>1. n + 1 \in 1 .. (i - 1) /\ n + 1 \in DOMAIN roles
    BY <1>1, <1>2
  <2>2. PICK k \in DOMAIN ds : ds[k].role = roles[n + 1]
    BY <1>4, <2>1
  <2>3. k \in DOMAIN roles /\ k # n + 1 /\ roles[k] = roles[n + 1]
    BY <1>1, <1>2, <1>3, <2>2
  <2> QED BY <1>2, <2>1, <2>3
<1>7. i = n + 1
  BY <1>1, <1>2, <1>4, <1>5, <1>6
<1> QED BY <1>4, <1>7 DEF ds, n, roles

\* One more signature keeps the decisions valid: its human is new, therefore
\* its authority is, and its role is the next one.
LEMMA SignatureIsGood ==
  ASSUME IInv, NEW r \in Requests, NEW h \in Humans, NEW a \in Authorities,
         NEW role \in Roles, MayDecide(r, h, a, role),
         approval'[r].binding = approval[r].binding,
         approval'[r].decisions =
           Append(approval[r].decisions, DecisionOf(h, a, role, "approve"))
  PROVE  /\ ValidDecisions(r)'
         /\ \A i \in DOMAIN approval'[r].decisions :
              GoodDecision(approval'[r].decisions[i], approval'[r].binding)
<1> DEFINE d     == DecisionOf(h, a, role, "approve")
           b     == approval[r].binding
           ds    == approval[r].decisions
           n     == Len(ds)
           es    == Append(ds, d)
           roles == RequiredRoles(b)
<1>1. ds \in Seq(Decision) /\ n \in Nat /\ DOMAIN ds = 1 .. n
  BY DEF IInv, TypeOK, Approval
<1>2. d \in Decision
  BY DecisionType DEF IInv
<1>3. /\ DOMAIN es = 1 .. (n + 1)
      /\ Len(es) = n + 1
      /\ es[n + 1] = d
      /\ \A i \in 1 .. n : es[i] = ds[i]
  <2> HIDE DEF d, ds
  <2> QED BY <1>1, <1>2
<1>4. d.human = h /\ d.authority = a /\ d.role = role /\ d.verdict = "approve"
  BY DEF DecisionOf
<1>5. /\ ValidDecisions(r)
      /\ \A i \in DOMAIN ds : GoodDecision(ds[i], b)
  BY DEF IInv, Sound, Signed, MayDecide
<1>6. /\ HumanOf[a] = h
      /\ RoleOf[a] = role
      /\ b \in Covers[a]
      /\ \A i \in DOMAIN ds : ds[i].human # h
  BY DEF MayDecide, Eligible
<1>7. n + 1 \in DOMAIN roles /\ role = roles[n + 1]
  BY <1>5, OpenRoleIsNext DEF IInv, MayDecide
<1>8. /\ DOMAIN roles = 1 .. Len(roles)
      /\ Len(roles) \in Nat
  BY RequiredRolesFacts
<1>9. GoodDecision(d, b)
  BY <1>4, <1>6 DEF GoodDecision
<1>10. /\ n <= Len(roles)
       /\ \A i, j \in DOMAIN ds :
            i # j => ds[i].human # ds[j].human /\ ds[i].authority # ds[j].authority
       /\ \A i \in DOMAIN ds : ds[i].role = roles[i]
  BY <1>5 DEF ValidDecisions
<1>11. \A i \in DOMAIN ds : ds[i].human # d.human /\ ds[i].authority # d.authority
  BY <1>4, <1>5, <1>6 DEF GoodDecision
<1> HIDE DEF d, ds, n, es, roles, b
<1>12. n + 1 <= Len(roles)
  BY <1>1, <1>7, <1>8
<1>13. \A i, j \in DOMAIN es :
         i # j => es[i].human # es[j].human /\ es[i].authority # es[j].authority
  <2> SUFFICES ASSUME NEW i \in DOMAIN es, NEW j \in DOMAIN es, i # j
               PROVE  es[i].human # es[j].human /\ es[i].authority # es[j].authority
    OBVIOUS
  <2>1. CASE i \in 1 .. n /\ j \in 1 .. n
    BY <2>1, <1>1, <1>3, <1>10
  <2>2. CASE i = n + 1 /\ j \in 1 .. n
    BY <2>2, <1>1, <1>3, <1>11
  <2>3. CASE i \in 1 .. n /\ j = n + 1
    BY <2>3, <1>1, <1>3, <1>11
  <2> QED BY <2>1, <2>2, <2>3, <1>1, <1>3
<1>14. \A i \in DOMAIN es : es[i].role = roles[i]
  BY <1>1, <1>3, <1>4, <1>7, <1>10
<1>15. \A i \in DOMAIN es : GoodDecision(es[i], b)
  BY <1>1, <1>3, <1>5, <1>9
<1>16. approval'[r].decisions = es /\ approval'[r].binding = b /\ RequiredRoles(b)' = roles
  BY DEF es, ds, d, b, roles, RequiredRoles
<1> QED
  <2>1. ValidDecisions(r)'
    BY <1>3, <1>12, <1>13, <1>14, <1>16 DEF ValidDecisions, roles, b
  <2> QED BY <1>15, <1>16, <2>1

LEMMA ApproveSound ==
  ASSUME IInv, NEW r \in Requests, NEW h \in Humans, Approve(r, h), NEW q \in Requests
  PROVE  Sound(q)'
<1>1. CASE ExpirePending(r)
  BY <1>1, ExpireSound
<1>2. CASE ~ExpirePending(r)
  <2>1. PICK a \in Authorities, role \in Roles :
          LET ds   == Append(approval[r].decisions, DecisionOf(h, a, role, "approve"))
              done == Len(ds) >= Len(RequiredRoles(approval[r].binding))
          IN  /\ MayDecide(r, h, a, role)
              /\ approval' = [approval EXCEPT
                   ![r].decisions = ds,
                   ![r].status = IF done THEN "approved" ELSE "pending"]
              /\ claim' = [claim EXCEPT ![r] =
                   IF done
                   THEN [issued |-> TRUE, remainingUses |-> 1,
                         binding |-> approval[r].binding, expiresAt |-> now + TTL,
                         decisions |-> ds]
                   ELSE @]
              /\ UNCHANGED <<now, authority, revoking, consumptions>>
    BY <1>2 DEF Approve
  <2> DEFINE ds   == Append(approval[r].decisions, DecisionOf(h, a, role, "approve"))
             done == Len(ds) >= Len(RequiredRoles(approval[r].binding))
  <2>2. CASE q # r
    BY <2>1, <2>2, Untouched DEF IInv, TypeOK
  <2>3. CASE q = r
    <3>1. /\ approval'[r].decisions = ds
          /\ approval'[r].binding = approval[r].binding
          /\ approval'[r].status = IF done THEN "approved" ELSE "pending"
      BY <2>1 DEF IInv, TypeOK, Approval
    <3>2. /\ done => /\ claim'[r].issued
                     /\ claim'[r].remainingUses = 1
                     /\ claim'[r].binding = approval[r].binding
                     /\ claim'[r].decisions = ds
          /\ ~done => claim'[r] = claim[r]
      BY <2>1 DEF IInv, TypeOK
    <3>3. MayDecide(r, h, a, role) /\ consumptions' = consumptions
      BY <2>1
    <3>4. approval[r].status = "pending"
      BY <3>3 DEF MayDecide
    <3>5. /\ ValidDecisions(r)'
          /\ \A i \in DOMAIN approval'[r].decisions :
               GoodDecision(approval'[r].decisions[i], approval'[r].binding)
      BY <3>1, <3>3, SignatureIsGood
    <3> HIDE DEF ds, done
    <3>6. Once(r)'
      BY <3>3, <3>4 DEF IInv, Sound, Once
    <3>7. Follows(r)'
      BY <3>1, <3>2, <3>4 DEF IInv, Sound, Follows, ClaimMatches
    <3>8. done => FullyDecided(r)'
      <4>1. Len(approval'[r].decisions) <= Len(RequiredRoles(approval'[r].binding))
        BY <3>5 DEF ValidDecisions, RequiredRoles
      <4>2. Len(approval'[r].decisions) \in Nat /\ Len(RequiredRoles(approval'[r].binding)) \in Nat
        <5>1. TypeOK'
          BY ApproveType DEF IInv
        <5> QED BY <5>1, RequiredRolesFacts DEF TypeOK, Approval
      <4>3. done => Len(approval'[r].decisions) >= Len(RequiredRoles(approval'[r].binding))
        BY <3>1 DEF done
      <4>4. done => Len(approval'[r].decisions) = Len(RequiredRoles(approval'[r].binding))
        BY <4>1, <4>2, <4>3
      <4> QED BY <4>4 DEF FullyDecided, RequiredRoles
    <3>9. Signed(r)'
      BY <3>1, <3>5, <3>8 DEF Signed
    <3> QED BY <2>3, <3>6, <3>7, <3>9 DEF Sound
  <2> QED BY <2>2, <2>3
<1> QED BY <1>1, <1>2

LEMMA DenySound ==
  ASSUME IInv, NEW r \in Requests, NEW h \in Humans, Deny(r, h), NEW q \in Requests
  PROVE  Sound(q)'
<1>1. CASE ExpirePending(r)
  BY <1>1, ExpireSound
<1>2. CASE ~ExpirePending(r)
  <2>1. PICK a \in Authorities, role \in Roles :
          /\ MayDecide(r, h, a, role)
          /\ approval' = [approval EXCEPT
               ![r].decisions = Append(@, DecisionOf(h, a, role, "deny")),
               ![r].status = "denied"]
          /\ UNCHANGED <<now, authority, claim, revoking, consumptions>>
    BY <1>2 DEF Deny
  <2>2. CASE q # r
    BY <2>1, <2>2, Untouched DEF IInv, TypeOK
  <2>3. CASE q = r
    <3>1. approval[r].status = "pending"
      BY <2>1 DEF MayDecide
    <3>2. claim[r].remainingUses = 0
      BY <3>1 DEF IInv, Sound, Follows, TypeOK, Claim
    <3>3. approval'[r].status = "denied"
      BY <2>1 DEF IInv, TypeOK, Approval
    <3> QED BY <2>1, <2>3, <3>1, <3>2, <3>3, Terminated DEF IInv
  <2> QED BY <2>2, <2>3
<1> QED BY <1>1, <1>2

LEMMA ConsumeSound ==
  ASSUME IInv, NEW r \in Requests, NEW b \in Bindings, ConsumeCapability(r, b),
         NEW q \in Requests
  PROVE  Sound(q)'
<1>1. CASE ExpirePending(r)
  BY <1>1, ExpireSound
<1>2. CASE ~ExpirePending(r) /\ q # r
  BY <1>2, Untouched DEF IInv, TypeOK, ConsumeCapability
<1>3. CASE ~ExpirePending(r) /\ q = r
  <2>1. approval[r].status = "approved"
    BY <1>3 DEF ConsumeCapability, Consumable
  <2>2. claim'[r] = [claim[r] EXCEPT !.remainingUses = 0]
    BY <1>3 DEF ConsumeCapability, IInv, TypeOK
  <2>3. claim'[r].remainingUses = 0
    BY <2>2 DEF IInv, TypeOK, Claim
  <2>4. PICK st \in {"revoked", "expired", "consumed"} :
          /\ approval'[r] = [approval[r] EXCEPT !.status = st]
          /\ st # "consumed" => consumptions'[r] = consumptions[r]
          /\ st = "consumed" => consumptions'[r] = consumptions[r] + 1
    BY <1>3 DEF ConsumeCapability, IInv, TypeOK
  <2>5. /\ approval'[r].status = st
        /\ approval'[r].binding = approval[r].binding
        /\ approval'[r].decisions = approval[r].decisions
    BY <2>4 DEF IInv, TypeOK, Approval
  <2>6. CASE st # "consumed"
    BY <1>3, <2>1, <2>3, <2>4, <2>5, <2>6, Terminated DEF IInv
  <2>7. CASE st = "consumed"
    <3>1. consumptions[r] = 0
      BY <2>1 DEF IInv, Sound, Once
    <3>2. Once(r)'
      BY <2>4, <2>5, <2>7, <3>1 DEF Once
    <3>3. Follows(r)'
      BY <2>3, <2>5, <2>7 DEF Follows
    <3>4. Signed(r)'
      BY <2>1, <2>5 DEF IInv, Sound, Signed, ValidDecisions, FullyDecided, RequiredRoles
    <3> QED BY <1>3, <3>2, <3>3, <3>4 DEF Sound
  <2> QED BY <2>6, <2>7
<1> QED BY <1>1, <1>2, <1>3

\* What revokeClaims needs of its two filters: they agree on a claim and the
\* approval it proves.
LEMMA RevokeSound ==
  ASSUME IInv, NEW q \in Requests, NEW hitA \in BOOLEAN, NEW hitC \in BOOLEAN,
         ClaimMatches(q) => hitA = hitC,
         claim'[q] = IF claim[q].issued /\ hitC
                     THEN [claim[q] EXCEPT !.remainingUses = 0] ELSE claim[q],
         approval'[q] = IF approval[q].status \in {"pending", "approved"} /\ hitA
                        THEN [approval[q] EXCEPT !.status = "revoked"] ELSE approval[q],
         consumptions'[q] = consumptions[q]
  PROVE  Sound(q)'
<1>1. claim[q] \in Claim /\ approval[q] \in Approval /\ Sound(q)
  BY DEF IInv, TypeOK
<1>2. CASE approval[q].status \in {"pending", "approved"} /\ hitA
  <2>1. approval'[q].status = "revoked"
    BY <1>1, <1>2 DEF Approval
  <2>2. claim'[q].remainingUses = 0
    BY <1>1, <1>2 DEF Sound, Follows, ClaimMatches, Claim
  <2> QED BY <1>1, <2>1, <2>2, Terminated DEF IInv
<1>3. CASE approval[q].status = "approved" /\ ~hitA
  <2>1. approval'[q] = approval[q] /\ claim'[q] = claim[q]
    BY <1>1, <1>3 DEF Sound, Follows
  <2> QED BY <1>1, <2>1, Untouched
<1>4. CASE approval[q].status # "approved" /\ ~(approval[q].status = "pending" /\ hitA)
  <2>1. approval'[q] = approval[q]
    BY <1>4
  <2>2. claim'[q].remainingUses = 0 /\ claim[q].remainingUses = 0
    BY <1>1, <1>4 DEF Sound, Follows, Claim
  <2>3. Follows(q)'
    BY <1>4, <2>1, <2>2 DEF Follows
  <2>4. Once(q)' /\ Signed(q)'
    BY <1>1, <2>1 DEF Sound, Once, Signed, ValidDecisions, FullyDecided, RequiredRoles
  <2> QED BY <2>3, <2>4 DEF Sound
<1> QED BY <1>2, <1>3, <1>4

LEMMA RevokeScopeSound ==
  ASSUME IInv, NEW s \in Scopes, RevokeForScope(s), NEW q \in Requests
  PROVE  Sound(q)'
<1> DEFINE hitA == Touches(q, approval[q].binding, s)
           hitC == Touches(q, claim[q].binding, s)
<1>1. ClaimMatches(q) => hitA = hitC
  BY DEF ClaimMatches
<1>2. hitA \in BOOLEAN /\ hitC \in BOOLEAN
  BY DEF Touches
<1>3. /\ claim'[q] = IF claim[q].issued /\ hitC
                     THEN [claim[q] EXCEPT !.remainingUses = 0] ELSE claim[q]
      /\ approval'[q] = IF approval[q].status \in {"pending", "approved"} /\ hitA
                        THEN [approval[q] EXCEPT !.status = "revoked"] ELSE approval[q]
      /\ consumptions'[q] = consumptions[q]
  BY DEF RevokeForScope, RevokeClaims, Drained
<1> HIDE DEF hitA, hitC
<1> QED BY <1>1, <1>2, <1>3, RevokeSound

LEMMA RevokeForAuthoritySound ==
  ASSUME IInv, NEW a \in Authorities, RevokeForAuthority(a), NEW q \in Requests
  PROVE  Sound(q)'
<1> DEFINE hitA == SignedBy(approval[q], a)
           hitC == SignedBy(claim[q], a)
<1>1. ClaimMatches(q) => hitA = hitC
  BY DEF ClaimMatches, SignedBy
<1>2. hitA \in BOOLEAN /\ hitC \in BOOLEAN
  BY DEF SignedBy
<1>3. /\ claim'[q] = IF claim[q].issued /\ hitC
                     THEN [claim[q] EXCEPT !.remainingUses = 0] ELSE claim[q]
      /\ approval'[q] = IF approval[q].status \in {"pending", "approved"} /\ hitA
                        THEN [approval[q] EXCEPT !.status = "revoked"] ELSE approval[q]
      /\ consumptions'[q] = consumptions[q]
  BY DEF RevokeForAuthority, RevokeClaims, Drained
<1> HIDE DEF hitA, hitC
<1> QED BY <1>1, <1>2, <1>3, RevokeSound

LEMMA RestartSound ==
  ASSUME IInv, Restart, NEW q \in Requests
  PROVE  Sound(q)'
<1>1. PICK stale : Reload(stale)
  BY DEF Restart
<1>2. claim[q] \in Claim /\ approval[q] \in Approval /\ Sound(q)
  BY DEF IInv, TypeOK
<1>3. /\ claim'[q] = IF ~ClaimConsistent(q) THEN NoClaim
                     ELSE IF q \in stale THEN [claim[q] EXCEPT !.remainingUses = 0]
                     ELSE claim[q]
      /\ approval'[q] = IF \/ ~Reconciled(q)
                           \/ q \in stale /\ approval[q].status \in {"pending", "approved"}
                        THEN [approval[q] EXCEPT !.status = "revoked"]
                        ELSE approval[q]
      /\ consumptions'[q] = consumptions[q]
  BY <1>1 DEF Reload, Drained
<1>4. CASE ~Reconciled(q) \/ (q \in stale /\ approval[q].status \in {"pending", "approved"})
  <2>1. approval'[q].status = "revoked"
    BY <1>2, <1>3, <1>4 DEF Approval
  <2>2. claim'[q].remainingUses = 0
    BY <1>2, <1>3, <1>4 DEF NoClaim, Claim, Reconciled, ClaimConsistent
  <2> QED BY <1>2, <1>3, <2>1, <2>2, Terminated DEF IInv
<1>5. CASE Reconciled(q) /\ ~(q \in stale /\ approval[q].status \in {"pending", "approved"})
  <2>1. approval'[q] = approval[q]
    BY <1>3, <1>5
  <2>2. CASE approval[q].status = "approved"
    <3>1. claim'[q] = claim[q]
      BY <1>3, <1>5, <2>2 DEF Reconciled
    <3> QED BY <1>2, <1>3, <2>1, <3>1, Untouched
  <2>3. CASE approval[q].status # "approved"
    <3>1. claim'[q].remainingUses = 0
      BY <1>2, <1>3, <2>3 DEF NoClaim, Claim, Sound, Follows
    <3>2. Follows(q)'
      BY <2>1, <2>3, <3>1 DEF Follows
    <3>3. Once(q)' /\ Signed(q)'
      BY <1>2, <1>3, <2>1 DEF Sound, Once, Signed, ValidDecisions, FullyDecided, RequiredRoles
    <3> QED BY <3>2, <3>3 DEF Sound
  <2> QED BY <2>2, <2>3
<1> QED BY <1>4, <1>5

LEMMA InitSound ==
  ASSUME Init
  PROVE  IInv
<1>1. ASSUME NEW r \in Requests PROVE Sound(r)
  BY DEF Init, NoApproval, NoClaim, Sound, Once, Follows, Signed
<1> QED BY <1>1, InitType DEF IInv

LEMMA StepSound ==
  ASSUME IInv, [Next]_vars
  PROVE  IInv'
<1> SUFFICES ASSUME NEW q \in Requests PROVE Sound(q)'
  BY StepType DEF IInv
<1>1. ASSUME NEW r \in Requests, Get(r) PROVE Sound(q)'
  BY <1>1, ExpireSound DEF Get
<1>2. ASSUME NEW a \in Authorities, RevokeAuthority(a) \/ RevokeForAuthorityFails(a)
      PROVE  Sound(q)'
  BY <1>2, Untouched DEF IInv, RevokeAuthority, RevokeForAuthorityFails
<1>3. CASE Tick
  BY <1>3, Untouched DEF IInv, Tick
<1>4. CASE UNCHANGED vars
  BY <1>4, Untouched DEF IInv, vars
<1> QED
  BY <1>1, <1>2, <1>3, <1>4, GetOrCreateSound, ApproveSound, DenySound, ConsumeSound,
     RevokeScopeSound, RevokeForAuthoritySound, RestartSound DEF Next

\* Claim, counts and signatures of every request agree in every reachable state.
THEOREM Inductive == Spec => []IInv
<1>1. Init => IInv
  BY InitSound
<1>2. IInv /\ [Next]_vars => IInv'
  BY StepSound
<1>3. QED BY <1>1, <1>2, PTL DEF Spec

\* consumeCapability returns "consumed" at most once for a request, whatever
\* the interleaving of consumers, revocations, failed writes and restarts.
THEOREM ConsumedAtMostOnce == Spec => []ConsumedOnce
<1>1. IInv => ConsumedOnce
  <2> SUFFICES ASSUME NEW r \in Requests, Once(r)
               PROVE  /\ consumptions[r] <= 1
                      /\ consumptions[r] = 1 => approval[r].status \in {"consumed", "revoked"}
    BY DEF IInv, Sound, ConsumedOnce
  <2>1. consumptions[r] = 0 \/ consumptions[r] = 1
    BY DEF Once
  <2> QED BY <2>1 DEF Once
<1> QED BY <1>1, Inductive, PTL

\* A claim is usable exactly while its approval is approved.
THEOREM ClaimsFollowApprovals == Spec => []ClaimFollowsApproval
<1>1. IInv => ClaimFollowsApproval
  BY DEF IInv, Sound, Follows, ClaimFollowsApproval
<1> QED BY <1>1, Inductive, PTL

\* Whatever was approved or consumed carries the signatures its risk requires,
\* of different humans who were entitled to give them.
THEOREM DualControlHolds == Spec => []DualControl
<1>1. IInv => DualControl
  <2> SUFFICES ASSUME IInv, NEW r \in Requests,
                      approval[r].status \in {"approved", "consumed"}
               PROVE  /\ FullyDecided(r)
                      /\ ValidDecisions(r)
                      /\ \A i \in DOMAIN approval[r].decisions :
                           GoodDecision(approval[r].decisions[i], approval[r].binding)
    <3>1. ASSUME NEW r \in Requests, NEW i \in DOMAIN approval[r].decisions,
                 GoodDecision(approval[r].decisions[i], approval[r].binding)
          PROVE  LET d == approval[r].decisions[i]
                 IN  /\ d.verdict = "approve"
                     /\ HumanOf[d.authority] = d.human
                     /\ RoleOf[d.authority] = d.role
                     /\ approval[r].binding \in Covers[d.authority]
      BY <3>1 DEF GoodDecision
    <3> QED BY <3>1 DEF DualControl
  <2>1. Signed(r)
    BY DEF IInv, Sound
  <2> QED BY <2>1 DEF Signed
<1> QED BY <1>1, Inductive, PTL

\* The use is handed out only while every signature is still backed.
THEOREM UsesAreCurrent == Spec => ConsumesOnlyCurrent
<1>1. ASSUME IInv, [Next]_vars, NEW q \in Requests, consumptions'[q] # consumptions[q]
      PROVE  /\ claim[q].remainingUses = 1
             /\ now < claim[q].expiresAt
             /\ \A i \in DOMAIN claim[q].decisions :
                  LET d == claim[q].decisions[i]
                  IN  authority[d.authority].active
                        /\ authority[d.authority].revision = d.revision
  <2>1. PICK r \in Requests, b \in Bindings : ConsumeCapability(r, b)
    <3>1. consumptions' # consumptions
      BY <1>1
    <3>2. \A r \in Requests, b \in Bindings : ~GetOrCreate(r, b)
      BY <3>1 DEF GetOrCreate, ExpirePending
    <3>3. \A r \in Requests : ~Get(r)
      BY <3>1 DEF Get, ExpirePending
    <3>4. ASSUME NEW r \in Requests, NEW h \in Humans PROVE ~Approve(r, h) /\ ~Deny(r, h)
      <4>1. ~ExpirePending(r)
        BY <3>1 DEF ExpirePending
      <4>2. ~Approve(r, h)
        BY <3>1, <4>1 DEF Approve
      <4> QED BY <3>1, <4>1, <4>2 DEF Deny
    <3>5. \A s \in Scopes : ~RevokeForScope(s)
      BY <3>1 DEF RevokeForScope
    <3>6. \A a \in Authorities :
            ~RevokeAuthority(a) /\ ~RevokeForAuthority(a) /\ ~RevokeForAuthorityFails(a)
      BY <3>1 DEF RevokeAuthority, RevokeForAuthority, RevokeForAuthorityFails
    <3>7. ~Restart /\ ~Tick /\ ~UNCHANGED vars
      BY <3>1 DEF Restart, Reload, Tick, vars
    <3> QED BY <1>1, <3>2, <3>3, <3>4, <3>5, <3>6, <3>7 DEF Next
  <2>2. /\ AllCurrent(r)
        /\ ClaimUsable(r)
        /\ ~Expired(claim[r])
        /\ consumptions' = [consumptions EXCEPT ![r] = @ + 1]
    BY <1>1, <2>1 DEF ConsumeCapability, ExpirePending
  <2>3. q = r
    BY <1>1, <2>2 DEF IInv, TypeOK
  <2>4. claim[r].expiresAt \in Nat /\ now \in Nat
    BY <1>1 DEF IInv, TypeOK, Claim
  <2> QED BY <2>2, <2>3, <2>4 DEF AllCurrent, IsCurrent, Eligible, ClaimUsable, ClaimMatches,
                                 Expired
<1>2. IInv /\ [Next]_vars =>
        [\A r \in Requests :
           consumptions'[r] # consumptions[r] =>
             /\ claim[r].remainingUses = 1
             /\ now < claim[r].expiresAt
             /\ \A i \in DOMAIN claim[r].decisions :
                  LET d == claim[r].decisions[i]
                  IN  authority[d.authority].active
                        /\ authority[d.authority].revision = d.revision]_vars
  BY <1>1
<1> QED BY <1>2, Inductive, PTL DEF Spec, ConsumesOnlyCurrent

\* What a human has approved stays what it was: the binding of an approval is
\* written once, and its decisions only while it is pending.
THEOREM BindingsAreFixed == Spec => BindingIsFixed
<1> DEFINE Fixed(r) == /\ approval'[r].binding = approval[r].binding
                       /\ approval'[r].decisions # approval[r].decisions =>
                            approval[r].status = "pending"
<1>1. ASSUME TypeOK, [Next]_vars, NEW q \in Requests, approval[q].status # "none"
      PROVE  Fixed(q)
  <2>1. approval \in [Requests -> Approval]
    BY <1>1 DEF TypeOK
  <2>2. ASSUME UNCHANGED approval PROVE Fixed(q)
    BY <2>2
  <2>3. ASSUME NEW r \in Requests, ExpirePending(r) PROVE Fixed(q)
    <3>1. approval' = [approval EXCEPT ![r].status = "expired"]
      BY <2>3 DEF ExpirePending
    <3> QED BY <2>1, <3>1 DEF Approval
  <2>4. ASSUME NEW r \in Requests, NEW b \in Bindings, GetOrCreate(r, b) PROVE Fixed(q)
    BY <1>1, <2>1, <2>3, <2>4 DEF GetOrCreate
  <2>5. ASSUME NEW r \in Requests, Get(r) PROVE Fixed(q)
    BY <2>3, <2>5 DEF Get
  <2>6. ASSUME NEW r \in Requests, NEW h \in Humans, Approve(r, h) PROVE Fixed(q)
    <3>1. CASE ExpirePending(r)
      BY <2>3, <3>1
    <3>2. CASE \E a \in Authorities, role \in Roles :
                 /\ MayDecide(r, h, a, role)
                 /\ \E ds, st : approval' = [approval EXCEPT ![r].decisions = ds,
                                                             ![r].status = st]
      <4>1. PICK ds, st : approval' = [approval EXCEPT ![r].decisions = ds,
                                                       ![r].status = st]
        BY <3>2
      <4>2. approval[r].status = "pending"
        BY <3>2 DEF MayDecide
      <4> QED BY <2>1, <4>1, <4>2 DEF Approval
    <3> QED BY <2>6, <3>1, <3>2 DEF Approve
  <2>7. ASSUME NEW r \in Requests, NEW h \in Humans, Deny(r, h) PROVE Fixed(q)
    <3>1. CASE ExpirePending(r)
      BY <2>3, <3>1
    <3>2. CASE \E a \in Authorities, role \in Roles :
                 /\ MayDecide(r, h, a, role)
                 /\ \E ds, st : approval' = [approval EXCEPT ![r].decisions = ds,
                                                             ![r].status = st]
      <4>1. PICK ds, st : approval' = [approval EXCEPT ![r].decisions = ds,
                                                       ![r].status = st]
        BY <3>2
      <4>2. approval[r].status = "pending"
        BY <3>2 DEF MayDecide
      <4> QED BY <2>1, <4>1, <4>2 DEF Approval
    <3>3. ASSUME NEW a \in Authorities, NEW role \in Roles,
                 MayDecide(r, h, a, role),
                 approval' = [approval EXCEPT
                   ![r].decisions = Append(@, DecisionOf(h, a, role, "deny")),
                   ![r].status = "denied"]
          PROVE  Fixed(q)
      <4>1. approval' = [approval EXCEPT
              ![r].decisions = Append(approval[r].decisions, DecisionOf(h, a, role, "deny")),
              ![r].status = "denied"]
        BY <2>1, <3>3
      <4> QED BY <3>2, <3>3, <4>1
    <3> QED BY <2>7, <3>1, <3>3 DEF Deny
  <2>8. ASSUME NEW r \in Requests, NEW b \in Bindings, ConsumeCapability(r, b)
        PROVE  Fixed(q)
    <3>1. CASE ExpirePending(r)
      BY <2>3, <3>1
    <3>2. CASE \E st : approval' = [approval EXCEPT ![r].status = st]
      BY <2>1, <3>2 DEF Approval
    <3> QED BY <2>8, <3>1, <3>2 DEF ConsumeCapability
  <2>9. ASSUME NEW s \in Scopes, RevokeForScope(s) PROVE Fixed(q)
    BY <2>1, <2>9 DEF RevokeForScope, RevokeClaims, Approval
  <2>10. ASSUME NEW a \in Authorities,
                RevokeAuthority(a) \/ RevokeForAuthority(a) \/ RevokeForAuthorityFails(a)
         PROVE  Fixed(q)
    <3>1. CASE RevokeForAuthority(a)
      BY <2>1, <3>1 DEF RevokeForAuthority, RevokeClaims, Approval
    <3> QED BY <2>2, <2>10, <3>1 DEF RevokeAuthority, RevokeForAuthorityFails
  <2>11. CASE Restart
    BY <2>1, <2>11 DEF Restart, Reload, Approval
  <2>12. CASE Tick \/ UNCHANGED vars
    BY <2>2, <2>12 DEF Tick, vars
  <2> HIDE DEF Fixed
  <2> QED BY <1>1, <2>4, <2>5, <2>6, <2>7, <2>8, <2>9, <2>10, <2>11, <2>12 DEF Next
<1>2. TypeOK /\ [Next]_vars =>
        [\A r \in Requests :
           approval[r].status # "none" =>
             /\ approval'[r].binding = approval[r].binding
             /\ approval'[r].decisions # approval[r].decisions =>
                  approval[r].status = "pending"]_vars
  BY <1>1
<1> QED BY <1>2, TypeCorrect, PTL DEF Spec, BindingIsFixed
=============================================================================
