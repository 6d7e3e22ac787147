---------------------------- MODULE OneUseProofs ----------------------------
(***************************************************************************)
(* The proof that Approvals implements OneUseCapability.  What a step does *)
(* to one request is one of six things; which of them it is decides the    *)
(* step of the capability.                                                 *)
(***************************************************************************)
EXTENDS ApprovalsProofs

\* The step leaves everything of the request that the capability shows.
Same(r) ==
  /\ approval'[r].status = approval[r].status
  /\ approval'[r].binding = approval[r].binding
  /\ approval'[r].decisions = approval[r].decisions
  /\ consumptions'[r] = consumptions[r]

\* getOrCreate creates the approval.
Opened(r) ==
  /\ approval[r].status = "none"
  /\ approval'[r].status = "pending"
  /\ approval'[r].binding \in Bindings
  /\ approval'[r].decisions = <<>>
  /\ consumptions'[r] = consumptions[r]

\* approve adds the signature of a human who has not signed.
SignedNow(r, h) ==
  /\ approval[r].status = "pending"
  /\ \A i \in DOMAIN approval[r].decisions : approval[r].decisions[i].human # h
  /\ approval'[r].binding = approval[r].binding
  /\ \E d \in Decision :
       /\ d.human = h
       /\ d.verdict = "approve"
       /\ approval'[r].decisions = Append(approval[r].decisions, d)
  /\ approval'[r].status =
       IF FullyDecided(r)' THEN "approved" ELSE "pending"
  /\ consumptions'[r] = consumptions[r]

\* The approval ends without a use, perhaps by a denial.
Ended(r) ==
  /\ approval[r].status \in {"pending", "approved"}
  /\ approval'[r].status \in {"denied", "expired", "revoked"}
  /\ approval'[r].binding = approval[r].binding
  /\ \/ approval'[r].decisions = approval[r].decisions
     \/ /\ approval[r].status = "pending"
        /\ \E d \in Decision :
             /\ d.verdict = "deny"
             /\ approval'[r].decisions = Append(approval[r].decisions, d)
  /\ consumptions'[r] = consumptions[r]

\* consumeCapability returns the use.
Used(r) ==
  /\ approval[r].status = "approved"
  /\ approval'[r].status = "consumed"
  /\ approval'[r].binding = approval[r].binding
  /\ approval'[r].decisions = approval[r].decisions
  /\ consumptions'[r] = consumptions[r] + 1

\* A restart revokes an approval that was consumed.
Relabelled(r) ==
  /\ approval[r].status = "consumed"
  /\ approval'[r].status = "revoked"
  /\ approval'[r].binding = approval[r].binding
  /\ approval'[r].decisions = approval[r].decisions
  /\ consumptions'[r] = consumptions[r]

\* What may happen to several requests in one step.
Passive(r) == Same(r) \/ Ended(r) \/ Relabelled(r)

OthersSame(r) == \A q \in Requests \ {r} : Same(q)

\* What a step does to the requests.
Classified ==
  \/ \A r \in Requests : Passive(r)
  \/ \E r \in Requests : OthersSame(r) /\ Opened(r)
  \/ \E r \in Requests, h \in Humans : OthersSame(r) /\ SignedNow(r, h)
  \/ \E r \in Requests : OthersSame(r) /\ Used(r)

-----------------------------------------------------------------------------
(* Every step is classified.                                               *)

\* A step that changes neither approvals nor counts.
LEMMA StillClassified ==
  ASSUME UNCHANGED <<approval, consumptions>>
  PROVE  Classified
  BY DEF Classified, Passive, Same

\* A step that changes the record of one request.
LEMMA OneChanges ==
  ASSUME TypeOK, NEW r \in Requests, NEW x,
         approval' = [approval EXCEPT ![r] = x]
  PROVE  /\ approval'[r] = x
         /\ \A q \in Requests \ {r} : approval'[q] = approval[q]
  BY DEF TypeOK

LEMMA ExpireClassified ==
  ASSUME TypeOK, NEW r \in Requests, ExpirePending(r)
  PROVE  Classified
<1>1. approval' = [approval EXCEPT ![r] = [approval[r] EXCEPT !.status = "expired"]]
  BY DEF ExpirePending, TypeOK
<1>2. OthersSame(r)
  BY <1>1, OneChanges DEF ExpirePending, OthersSame, Same
<1>3. Ended(r)
  BY <1>1, OneChanges DEF ExpirePending, Lapsing, Ended, TypeOK, Approval
<1> QED BY <1>2, <1>3 DEF Classified, Passive, OthersSame

LEMMA CreateClassified ==
  ASSUME TypeOK, NEW r \in Requests, NEW b \in Bindings, GetOrCreate(r, b)
  PROVE  Classified
<1>1. CASE ExpirePending(r)
  BY <1>1, ExpireClassified
<1>2. CASE ~ExpirePending(r)
  <2>1. /\ approval[r].status = "none"
        /\ approval' = [approval EXCEPT ![r] =
             [status |-> "pending", binding |-> b, expiresAt |-> now + TTL,
              decisions |-> <<>>]]
        /\ UNCHANGED consumptions
    BY <1>2 DEF GetOrCreate
  <2>2. OthersSame(r)
    BY <2>1, OneChanges DEF OthersSame, Same
  <2>3. approval'[r] = [status |-> "pending", binding |-> b, expiresAt |-> now + TTL,
                        decisions |-> <<>>]
    BY <2>1, OneChanges
  <2>4. Opened(r)
    BY <2>1, <2>3 DEF Opened
  <2> QED BY <2>2, <2>4 DEF Classified
<1> QED BY <1>1, <1>2

LEMMA ApproveClassified ==
  ASSUME IInv, NEW r \in Requests, NEW h \in Humans, Approve(r, h)
  PROVE  Classified
<1>1. CASE ExpirePending(r)
  BY <1>1, ExpireClassified DEF IInv
<1>2. CASE ~ExpirePending(r)
  <2> DEFINE es(a, role) == Append(approval[r].decisions, DecisionOf(h, a, role, "approve"))
             done(a, role) == Len(es(a, role)) >= Len(RequiredRoles(approval[r].binding))
  <2>1. PICK a \in Authorities, role \in Roles :
          /\ MayDecide(r, h, a, role)
          /\ approval' = [approval EXCEPT
               ![r].decisions = es(a, role),
               ![r].status = IF done(a, role) THEN "approved" ELSE "pending"]
          /\ UNCHANGED consumptions
    BY <1>2 DEF Approve
  <2>2. TypeOK
    BY DEF IInv
  <2>3. approval' = [approval EXCEPT ![r] = [approval[r] EXCEPT
          !.decisions = es(a, role),
          !.status = IF done(a, role) THEN "approved" ELSE "pending"]]
    BY <2>1, <2>2 DEF TypeOK
  <2>4. OthersSame(r)
    BY <2>1, <2>2, <2>3, OneChanges DEF OthersSame, Same
  <2>5. /\ approval'[r].binding = approval[r].binding
        /\ approval'[r].decisions = es(a, role)
        /\ approval'[r].status = IF done(a, role) THEN "approved" ELSE "pending"
    BY <2>2, <2>3, OneChanges DEF TypeOK, Approval
  <2>6. ValidDecisions(r)'
    BY <2>1, <2>5, SignatureIsGood
  <2>7. FullyDecided(r)' <=> done(a, role)
    <3>1. Len(es(a, role)) <= Len(RequiredRoles(approval[r].binding))
      BY <2>5, <2>6 DEF ValidDecisions, RequiredRoles
    <3>2. Len(es(a, role)) \in Nat /\ Len(RequiredRoles(approval[r].binding)) \in Nat
      BY <2>2, DecisionType, RequiredRolesFacts DEF TypeOK, Approval
    <3>3. FullyDecided(r)' <=> Len(es(a, role)) = Len(RequiredRoles(approval[r].binding))
      BY <2>5 DEF FullyDecided, RequiredRoles
    <3> HIDE DEF es
    <3> QED BY <3>1, <3>2, <3>3
  <2>8. SignedNow(r, h)
    <3>1. DecisionOf(h, a, role, "approve") \in Decision
      BY <2>2, DecisionType
    <3>2. approval[r].status = "pending"
          /\ \A i \in DOMAIN approval[r].decisions : approval[r].decisions[i].human # h
      BY <2>1 DEF MayDecide
    <3>3. DecisionOf(h, a, role, "approve").human = h
          /\ DecisionOf(h, a, role, "approve").verdict = "approve"
      BY DEF DecisionOf
    <3>4. consumptions'[r] = consumptions[r]
      BY <2>1
    <3> QED BY <2>5, <2>7, <3>1, <3>2, <3>3, <3>4 DEF SignedNow
  <2> QED BY <2>4, <2>8 DEF Classified
<1> QED BY <1>1, <1>2

LEMMA DenyClassified ==
  ASSUME TypeOK, NEW r \in Requests, NEW h \in Humans, Deny(r, h)
  PROVE  Classified
<1>1. CASE ExpirePending(r)
  BY <1>1, ExpireClassified
<1>2. CASE ~ExpirePending(r)
  <2>1. PICK a \in Authorities, role \in Roles :
          /\ MayDecide(r, h, a, role)
          /\ approval' = [approval EXCEPT ![r] = [approval[r] EXCEPT
               !.decisions = Append(approval[r].decisions, DecisionOf(h, a, role, "deny")),
               !.status = "denied"]]
          /\ UNCHANGED consumptions
    BY <1>2 DEF Deny, TypeOK
  <2>2. OthersSame(r)
    BY <2>1, OneChanges DEF OthersSame, Same
  <2>3. /\ approval'[r].binding = approval[r].binding
        /\ approval'[r].decisions =
             Append(approval[r].decisions, DecisionOf(h, a, role, "deny"))
        /\ approval'[r].status = "denied"
    BY <2>1, OneChanges DEF TypeOK, Approval
  <2>4. DecisionOf(h, a, role, "deny") \in Decision
        /\ DecisionOf(h, a, role, "deny").verdict = "deny"
    BY DecisionType DEF DecisionOf
  <2>5. Ended(r)
    BY <2>1, <2>3, <2>4 DEF Ended, MayDecide
  <2> QED BY <2>2, <2>5 DEF Classified, Passive, OthersSame
<1> QED BY <1>1, <1>2

LEMMA ConsumeClassified ==
  ASSUME TypeOK, NEW r \in Requests, NEW b \in Bindings, ConsumeCapability(r, b)
  PROVE  Classified
<1>1. CASE ExpirePending(r)
  BY <1>1, ExpireClassified
<1>2. CASE ~ExpirePending(r)
  <2>1. PICK st \in {"revoked", "expired", "consumed"} :
          /\ approval[r].status = "approved"
          /\ approval' = [approval EXCEPT ![r] = [approval[r] EXCEPT !.status = st]]
          /\ consumptions' =
               IF st = "consumed" THEN [consumptions EXCEPT ![r] = @ + 1] ELSE consumptions
    BY <1>2 DEF ConsumeCapability, Consumable, TypeOK
  <2>2. OthersSame(r)
    BY <2>1, OneChanges DEF OthersSame, Same, TypeOK
  <2>3. /\ approval'[r].status = st
        /\ approval'[r].binding = approval[r].binding
        /\ approval'[r].decisions = approval[r].decisions
    BY <2>1, OneChanges DEF TypeOK, Approval
  <2>4. CASE st = "consumed"
    <3>1. Used(r)
      BY <2>1, <2>3, <2>4 DEF Used, TypeOK
    <3> QED BY <2>2, <3>1 DEF Classified
  <2>5. CASE st # "consumed"
    <3>1. Ended(r)
      BY <2>1, <2>3, <2>5 DEF Ended
    <3> QED BY <2>2, <3>1 DEF Classified, Passive, OthersSame
  <2> QED BY <2>4, <2>5
<1> QED BY <1>1, <1>2

LEMMA RevokeClassified ==
  ASSUME TypeOK, NEW approvals, NEW claims, RevokeClaims(approvals, claims),
         UNCHANGED consumptions
  PROVE  Classified
<1>1. ASSUME NEW q \in Requests PROVE Passive(q)
  BY DEF RevokeClaims, Passive, Same, Ended, TypeOK, Approval
<1> QED BY <1>1 DEF Classified

LEMMA ReloadClassified ==
  ASSUME TypeOK, NEW stale, Reload(stale)
  PROVE  Classified
<1>1. ASSUME NEW q \in Requests PROVE Passive(q)
  <2>1. CASE approval'[q] = approval[q]
    BY <2>1 DEF Reload, Passive, Same
  <2>2. CASE approval'[q] # approval[q]
    <3>1. approval'[q] = [approval[q] EXCEPT !.status = "revoked"]
      BY <2>2 DEF Reload
    <3>2. approval[q].status \in {"pending", "approved", "consumed"}
      BY <2>2 DEF Reload, Reconciled, TypeOK, Approval, Statuses
    <3> QED BY <3>1, <3>2 DEF Reload, Passive, Ended, Relabelled, TypeOK, Approval
  <2> QED BY <2>1, <2>2
<1> QED BY <1>1 DEF Classified

LEMMA StepClassified ==
  ASSUME IInv, [Next]_vars
  PROVE  Classified
<1>1. TypeOK
  BY DEF IInv
<1>2. ASSUME NEW r \in Requests, Get(r) PROVE Classified
  BY <1>1, <1>2, ExpireClassified DEF Get
<1>3. ASSUME NEW s \in Scopes, RevokeForScope(s) PROVE Classified
  BY <1>1, <1>3, RevokeClassified DEF RevokeForScope
<1>4. ASSUME NEW a \in Authorities,
             RevokeAuthority(a) \/ RevokeForAuthority(a) \/ RevokeForAuthorityFails(a)
      PROVE  Classified
  BY <1>1, <1>4, RevokeClassified, StillClassified
  DEF RevokeAuthority, RevokeForAuthority, RevokeForAuthorityFails
<1>5. CASE Restart
  BY <1>1, <1>5, ReloadClassified DEF Restart
<1>6. CASE Tick \/ UNCHANGED vars
  BY <1>6, StillClassified DEF Tick, vars
<1> QED
  BY <1>1, <1>2, <1>3, <1>4, <1>5, <1>6, CreateClassified, ApproveClassified, DenyClassified,
     ConsumeClassified DEF Next

-----------------------------------------------------------------------------
(* What the capability shows of each of the six.                           *)

\* Append written as a function.
LEMMA Appended ==
  ASSUME NEW S, NEW s \in Seq(S), NEW x \in S
  PROVE  Append(s, x) = [i \in 1 .. Len(s) + 1 |-> IF i = Len(s) + 1 THEN x ELSE s[i]]
<1>1. /\ Append(s, x) \in Seq(S)
      /\ Len(Append(s, x)) = Len(s) + 1
      /\ DOMAIN Append(s, x) = 1 .. Len(s) + 1
  OBVIOUS
<1>2. \A i \in 1 .. Len(s) + 1 : Append(s, x)[i] = IF i = Len(s) + 1 THEN x ELSE s[i]
  OBVIOUS
<1>3. ASSUME NEW t \in Seq(S) PROVE t = [i \in 1 .. Len(t) |-> t[i]]
  OBVIOUS
<1> QED BY <1>1, <1>2, <1>3

\* An approval that does not exist has no decisions.
Unsigned == \A r \in Requests : approval[r].status = "none" => approval[r].decisions = <<>>

\* Signatures without a denial are shown as they are.
LEMMA SignersShown ==
  ASSUME TypeOK, NEW r \in Requests,
         \A i \in DOMAIN approval[r].decisions : approval[r].decisions[i].verdict = "approve"
  PROVE  signersOf[r] =
           [i \in 1 .. Len(approval[r].decisions) |-> approval[r].decisions[i].human]
<1> DEFINE ds == approval[r].decisions
<1>1. ds \in Seq(Decision)
  BY DEF TypeOK, Approval
<1>2. ~(Len(ds) > 0 /\ ds[Len(ds)].verdict = "deny")
  BY <1>1
<1> QED BY <1>2 DEF signersOf

LEMMA SameMapped ==
  ASSUME NEW r \in Requests, Same(r)
  PROVE  /\ phaseOf'[r] = phaseOf[r]
         /\ neededOf'[r] = neededOf[r]
         /\ signersOf'[r] = signersOf[r]
<1>1. phaseOf'[r] = phaseOf[r]
  BY DEF Same, phaseOf
<1>2. neededOf'[r] = neededOf[r]
  BY DEF Same, neededOf, RequiredRoles
<1>3. signersOf'[r] = signersOf[r]
  BY DEF Same, signersOf
<1> QED BY <1>1, <1>2, <1>3

LEMMA RelabelledMapped ==
  ASSUME IInv, NEW r \in Requests, Relabelled(r)
  PROVE  /\ phaseOf'[r] = phaseOf[r]
         /\ neededOf'[r] = neededOf[r]
         /\ signersOf'[r] = signersOf[r]
<1>1. phaseOf'[r] = phaseOf[r]
  BY DEF Relabelled, phaseOf
<1>2. neededOf'[r] = neededOf[r]
  BY DEF Relabelled, neededOf, RequiredRoles
<1>3. signersOf'[r] = signersOf[r]
  BY DEF Relabelled, signersOf
<1> QED BY <1>1, <1>2, <1>3

LEMMA OpenedMapped ==
  ASSUME IInv, Unsigned, NEW r \in Requests, Opened(r)
  PROVE  /\ phaseOf[r] = "unissued"
         /\ phaseOf'[r] = "open"
         /\ neededOf'[r] \in {1, 2}
         /\ signersOf'[r] = signersOf[r]
<1>1. consumptions[r] = 0
  BY DEF Opened, IInv, Sound, Once
<1>2. phaseOf[r] = "unissued" /\ phaseOf'[r] = "open"
  BY <1>1 DEF Opened, phaseOf
<1>3. neededOf'[r] \in {1, 2}
  <2>1. neededOf'[r] = Len(RequiredRoles(approval'[r].binding))
    BY DEF Opened, neededOf, RequiredRoles
  <2> QED BY <2>1, RequiredRolesFacts
<1>4. signersOf'[r] = signersOf[r]
  <2>1. approval[r].decisions = <<>> /\ approval'[r].decisions = <<>>
    BY DEF Opened, Unsigned
  <2> QED BY <2>1 DEF signersOf
<1> QED BY <1>2, <1>3, <1>4

\* What a request that has not ended shows of its decisions.
LEMMA LiveMapped ==
  ASSUME IInv, NEW r \in Requests, approval[r].status \in {"pending", "approved"}
  PROVE  /\ consumptions[r] = 0
         /\ neededOf[r] = Len(RequiredRoles(approval[r].binding))
         /\ \A i \in DOMAIN approval[r].decisions : approval[r].decisions[i].verdict = "approve"
<1>1. consumptions[r] = 0
  BY DEF IInv, Sound, Once
<1>2. neededOf[r] = Len(RequiredRoles(approval[r].binding))
  BY DEF neededOf
<1>3. \A i \in DOMAIN approval[r].decisions : approval[r].decisions[i].verdict = "approve"
  BY DEF IInv, Sound, Signed, GoodDecision
<1> QED BY <1>1, <1>2, <1>3

LEMMA SignedMapped ==
  ASSUME IInv, TypeOK', NEW r \in Requests, NEW h \in Humans, SignedNow(r, h)
  PROVE  /\ phaseOf[r] = "open"
         /\ \A i \in DOMAIN signersOf[r] : signersOf[r][i] # h
         /\ signersOf'[r] = Append(signersOf[r], h)
         /\ phaseOf'[r] = IF Len(signersOf'[r]) = neededOf[r] THEN "usable" ELSE "open"
         /\ neededOf'[r] = neededOf[r]
<1> DEFINE ds == approval[r].decisions
           shown == [i \in 1 .. Len(ds) |-> ds[i].human]
<1>1. PICK d \in Decision :
        d.human = h /\ d.verdict = "approve" /\ approval'[r].decisions = Append(ds, d)
  BY DEF SignedNow
<1>2. ds \in Seq(Decision) /\ Len(ds) \in Nat /\ DOMAIN ds = 1 .. Len(ds)
  BY DEF IInv, TypeOK, Approval
<1>3. signersOf[r] = shown
  BY LiveMapped, SignersShown DEF SignedNow, IInv
<1>4. /\ DOMAIN Append(ds, d) = 1 .. Len(ds) + 1
      /\ Len(Append(ds, d)) = Len(ds) + 1
      /\ Append(ds, d)[Len(ds) + 1] = d
      /\ \A i \in 1 .. Len(ds) : Append(ds, d)[i] = ds[i]
  <2> HIDE DEF ds
  <2> QED BY <1>2
<1>5. \A i \in DOMAIN approval'[r].decisions : approval'[r].decisions[i].verdict = "approve"
  <2>1. \A i \in DOMAIN ds : ds[i].verdict = "approve"
    BY LiveMapped DEF SignedNow
  <2> HIDE DEF ds
  <2> QED BY <1>1, <1>2, <1>4, <2>1
<1>6. signersOf'[r] = [i \in 1 .. Len(ds) + 1 |-> Append(ds, d)[i].human]
  <2>1. ~(Append(ds, d)[Len(ds) + 1].verdict = "deny")
    BY <1>1, <1>4
  <2> QED BY <1>1, <1>4, <2>1 DEF signersOf
<1>7. signersOf'[r] = Append(signersOf[r], h) /\ Len(signersOf'[r]) = Len(ds) + 1
  <2>1. shown \in Seq(Humans) /\ Len(shown) = Len(ds)
    <3>1. ASSUME NEW i \in 1 .. Len(ds) PROVE ds[i].human \in Humans
      <4>1. ds[i] \in Decision
        <5> HIDE DEF ds
        <5> QED BY <1>2
      <4> QED BY <4>1 DEF Decision
    <3> HIDE DEF ds
    <3> QED BY <1>2, <3>1
  <2>2. Append(shown, h) = [i \in 1 .. Len(ds) + 1 |-> IF i = Len(ds) + 1 THEN h ELSE shown[i]]
    <3> HIDE DEF ds, shown
    <3> QED BY <2>1, Appended
  <2>3. [i \in 1 .. Len(ds) + 1 |-> Append(ds, d)[i].human] =
          [i \in 1 .. Len(ds) + 1 |-> IF i = Len(ds) + 1 THEN h ELSE shown[i]]
    <3> HIDE DEF ds
    <3> QED BY <1>1, <1>2, <1>4
  <2>4. Len([i \in 1 .. Len(ds) + 1 |-> Append(ds, d)[i].human]) = Len(ds) + 1
    <3> HIDE DEF ds
    <3> QED BY <1>2
  <2> QED BY <1>3, <1>6, <2>2, <2>3, <2>4
<1>8. \A i \in DOMAIN signersOf[r] : signersOf[r][i] # h
  BY <1>2, <1>3 DEF SignedNow
<1>9. neededOf[r] = Len(RequiredRoles(approval[r].binding)) /\ neededOf'[r] = neededOf[r]
  <2>1. neededOf[r] = Len(RequiredRoles(approval[r].binding))
    BY LiveMapped DEF SignedNow
  <2>2. neededOf'[r] = Len(RequiredRoles(approval'[r].binding))
    BY DEF SignedNow, neededOf, RequiredRoles
  <2> QED BY <2>1, <2>2 DEF SignedNow
<1>10. consumptions[r] = 0 /\ consumptions'[r] = 0
  BY LiveMapped DEF SignedNow
<1>11. phaseOf[r] = "open"
  BY <1>10 DEF SignedNow, phaseOf
<1>12. FullyDecided(r)' <=> Len(signersOf'[r]) = neededOf[r]
  BY <1>1, <1>4, <1>7, <1>9 DEF FullyDecided, RequiredRoles, SignedNow
<1>13. phaseOf'[r] = IF FullyDecided(r)' THEN "usable" ELSE "open"
  BY <1>10 DEF SignedNow, phaseOf
<1> QED BY <1>7, <1>8, <1>9, <1>11, <1>12, <1>13

LEMMA EndedMapped ==
  ASSUME IInv, NEW r \in Requests, Ended(r)
  PROVE  /\ phaseOf[r] \in {"open", "usable"}
         /\ phaseOf'[r] = "void"
         /\ neededOf'[r] = neededOf[r]
         /\ signersOf'[r] = signersOf[r]
<1> DEFINE ds == approval[r].decisions
<1>1. consumptions[r] = 0 /\ consumptions'[r] = 0
  BY LiveMapped DEF Ended
<1>2. phaseOf[r] \in {"open", "usable"} /\ phaseOf'[r] = "void"
  BY <1>1 DEF Ended, phaseOf
<1>3. neededOf'[r] = neededOf[r]
  BY DEF Ended, neededOf, RequiredRoles
<1>4. signersOf'[r] = signersOf[r]
  <2>1. CASE approval'[r].decisions = ds
    BY <2>1 DEF signersOf
  <2>2. CASE \E d \in Decision : d.verdict = "deny" /\ approval'[r].decisions = Append(ds, d)
    <3>1. PICK d \in Decision : d.verdict = "deny" /\ approval'[r].decisions = Append(ds, d)
      BY <2>2
    <3>2. signersOf[r] = [i \in 1 .. Len(ds) |-> ds[i].human]
      BY LiveMapped, SignersShown DEF Ended, IInv
    <3>3. ds \in Seq(Decision)
      BY DEF IInv, TypeOK, Approval
    <3>4. /\ Len(Append(ds, d)) = Len(ds) + 1
          /\ Len(ds) \in Nat
          /\ Append(ds, d)[Len(ds) + 1] = d
          /\ \A i \in 1 .. Len(ds) : Append(ds, d)[i] = ds[i]
      <4> HIDE DEF ds
      <4> QED BY <3>3
    <3>5. signersOf'[r] = [i \in 1 .. Len(ds) + 1 - 1 |-> Append(ds, d)[i].human]
      <4>1. Len(ds) + 1 > 0 /\ Append(ds, d)[Len(ds) + 1].verdict = "deny"
        BY <3>1, <3>4
      <4> HIDE DEF ds
      <4> QED BY <3>1, <3>4, <4>1 DEF signersOf
    <3> QED BY <3>2, <3>4, <3>5
  <2> QED BY <2>1, <2>2 DEF Ended
<1> QED BY <1>2, <1>3, <1>4

LEMMA UsedMapped ==
  ASSUME IInv, NEW r \in Requests, Used(r)
  PROVE  /\ phaseOf[r] = "usable"
         /\ phaseOf'[r] = "used"
         /\ neededOf'[r] = neededOf[r]
         /\ signersOf'[r] = signersOf[r]
<1>1. consumptions[r] = 0 /\ consumptions'[r] = 1
  BY LiveMapped DEF Used
<1>2. phaseOf[r] = "usable" /\ phaseOf'[r] = "used"
  BY <1>1 DEF Used, phaseOf
<1>3. neededOf'[r] = neededOf[r]
  BY DEF Used, neededOf, RequiredRoles
<1>4. signersOf'[r] = signersOf[r]
  BY DEF Used, signersOf
<1> QED BY <1>2, <1>3, <1>4

-----------------------------------------------------------------------------
(* The step of the capability.                                             *)

LEMMA MappedFunctions ==
  /\ phaseOf = [r \in Requests |-> phaseOf[r]]
  /\ neededOf = [r \in Requests |-> neededOf[r]]
  /\ signersOf = [r \in Requests |-> signersOf[r]]
  /\ DOMAIN phaseOf' = Requests /\ phaseOf' = [r \in Requests |-> phaseOf'[r]]
  /\ DOMAIN neededOf' = Requests /\ neededOf' = [r \in Requests |-> neededOf'[r]]
  /\ DOMAIN signersOf' = Requests /\ signersOf' = [r \in Requests |-> signersOf'[r]]
<1>1. phaseOf = [r \in Requests |-> phaseOf[r]] /\ DOMAIN phaseOf' = Requests
      /\ phaseOf' = [r \in Requests |-> phaseOf'[r]]
  BY DEF phaseOf
<1>2. neededOf = [r \in Requests |-> neededOf[r]] /\ DOMAIN neededOf' = Requests
      /\ neededOf' = [r \in Requests |-> neededOf'[r]]
  BY DEF neededOf
<1>3. signersOf = [r \in Requests |-> signersOf[r]] /\ DOMAIN signersOf' = Requests
      /\ signersOf' = [r \in Requests |-> signersOf'[r]]
  BY DEF signersOf
<1> QED BY <1>1, <1>2, <1>3

LEMMA PassiveMapped ==
  ASSUME IInv, \A r \in Requests : Passive(r)
  PROVE  Promise!CapNext
<1> DEFINE cs == {r \in Requests : Ended(r)}
<1>1. \A r \in cs : phaseOf[r] \in {"open", "usable"} /\ phaseOf'[r] = "void"
  BY EndedMapped
<1>2. \A r \in Requests \ cs : phaseOf'[r] = phaseOf[r]
  BY SameMapped, RelabelledMapped DEF Passive
<1>3. \A r \in Requests : neededOf'[r] = neededOf[r] /\ signersOf'[r] = signersOf[r]
  BY SameMapped, RelabelledMapped, EndedMapped DEF Passive
<1> HIDE DEF cs
<1>4. phaseOf' = [r \in Requests |-> IF r \in cs THEN "void" ELSE phaseOf[r]]
  BY <1>1, <1>2, MappedFunctions
<1>5. UNCHANGED <<neededOf, signersOf>>
  BY <1>3, MappedFunctions
<1>6. cs \in SUBSET Requests
  BY DEF cs
<1> QED BY <1>1, <1>4, <1>5, <1>6 DEF Promise!CapNext, Promise!Void

LEMMA ActiveMapped ==
  ASSUME IInv, TypeOK', Unsigned, Classified, ~(\A r \in Requests : Passive(r))
  PROVE  Promise!CapNext
<1> USE DEF Promise!CapNext
<1>1. ASSUME NEW r \in Requests, OthersSame(r)
      PROVE  \A q \in Requests \ {r} : /\ phaseOf'[q] = phaseOf[q]
                                       /\ neededOf'[q] = neededOf[q]
                                       /\ signersOf'[q] = signersOf[q]
  BY <1>1, SameMapped DEF OthersSame
<1>2. ASSUME NEW r \in Requests, OthersSame(r), Opened(r)
      PROVE  Promise!CapNext
  <2>1. /\ phaseOf' = [phaseOf EXCEPT ![r] = "open"]
        /\ neededOf' = [neededOf EXCEPT ![r] = neededOf'[r]]
        /\ signersOf' = signersOf
    BY <1>1, <1>2, OpenedMapped, MappedFunctions
  <2> QED BY <1>2, <2>1, OpenedMapped DEF Promise!Open
<1>3. ASSUME NEW r \in Requests, NEW h \in Humans, OthersSame(r), SignedNow(r, h)
      PROVE  Promise!CapNext
  <2>1. /\ signersOf' = [signersOf EXCEPT ![r] = Append(signersOf[r], h)]
        /\ phaseOf' = [phaseOf EXCEPT ![r] =
             IF Len(signersOf'[r]) = neededOf[r] THEN "usable" ELSE "open"]
        /\ neededOf' = neededOf
    BY <1>1, <1>3, SignedMapped, MappedFunctions
  <2>2. Promise!Sign(r, h)
    BY <1>3, <2>1, SignedMapped, MappedFunctions DEF Promise!Sign
  <2> QED BY <2>2
<1>4. ASSUME NEW r \in Requests, OthersSame(r), Used(r)
      PROVE  Promise!CapNext
  <2>1. /\ phaseOf' = [phaseOf EXCEPT ![r] = "used"]
        /\ neededOf' = neededOf
        /\ signersOf' = signersOf
    BY <1>1, <1>4, UsedMapped, MappedFunctions
  <2> QED BY <1>4, <2>1, UsedMapped DEF Promise!Use
<1> QED BY <1>2, <1>3, <1>4 DEF Classified

LEMMA UnsignedStep ==
  ASSUME Unsigned, Classified
  PROVE  Unsigned'
<1> SUFFICES ASSUME NEW r \in Requests, approval'[r].status = "none"
             PROVE  approval'[r].decisions = <<>>
  BY DEF Unsigned
<1>1. Same(r)
  BY DEF Classified, Passive, OthersSame, Opened, SignedNow, Ended, Used, Relabelled
<1> QED BY <1>1 DEF Same, Unsigned

\* What the approval service does is what a one-use capability may do: it is
\* opened once, signed by distinct humans, as many as its risk requires, used at
\* most once, and otherwise void for good, through expiries, revocations, failed
\* writes and restarts (approval-service.ts).
THEOREM ApprovalsAreOneUse == Spec => ImplementsOneUse
<1>1. Init => Promise!CapInit /\ Unsigned
  <2> SUFFICES ASSUME Init PROVE Promise!CapInit /\ Unsigned
    OBVIOUS
  <2>1. Unsigned
    BY DEF Init, Unsigned, NoApproval
  <2>2. \A r \in Requests : approval[r] = NoApproval /\ consumptions[r] = 0
    BY DEF Init
  <2>3. phaseOf = [r \in Requests |-> "unissued"] /\ neededOf = [r \in Requests |-> 0]
    BY <2>2 DEF phaseOf, neededOf, NoApproval
  <2>4. signersOf = [r \in Requests |-> <<>>]
    <3>1. ASSUME NEW r \in Requests PROVE signersOf[r] = <<>>
      <4>1. approval[r].decisions = <<>>
        BY <2>2 DEF NoApproval
      <4>2. signersOf[r] = [i \in 1 .. 0 |-> approval[r].decisions[i].human]
        BY <4>1 DEF signersOf
      <4> QED BY <4>2
    <3> QED BY <3>1, MappedFunctions
  <2> QED BY <2>1, <2>3, <2>4 DEF Promise!CapInit
<1>2. IInv /\ Unsigned /\ [Next]_vars => Unsigned'
  BY StepClassified, UnsignedStep
<1>3. IInv /\ IInv' /\ Unsigned /\ [Next]_vars => [Promise!CapNext]_(Promise!capVars)
  <2> SUFFICES ASSUME IInv, IInv', Unsigned, [Next]_vars PROVE Promise!CapNext
    OBVIOUS
  <2> QED BY StepClassified, PassiveMapped, ActiveMapped DEF IInv
<1> QED BY <1>1, <1>2, <1>3, Inductive, PTL DEF Spec, ImplementsOneUse, Promise!CapSpec
=============================================================================
