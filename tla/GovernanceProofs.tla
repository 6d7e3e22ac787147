-------------------------- MODULE GovernanceProofs --------------------------
(***************************************************************************)
(* Proofs about Governance, for every set of humans, agents, teams and     *)
(* requests: the type invariant, that a team keeps an administrator, that  *)
(* the enrolments can be loaded, that files are decided by the latest one  *)
(* and exposure takes signatures, that recording evidence never breaks the *)
(* chain and that edited evidence is seen.                                 *)
(***************************************************************************)
EXTENDS Governance, SequenceTheorems, NaturalsInduction, WellFoundedInduction, TLAPS

\* What a mutation may find, whatever waits and whatever the evidence.
Sound ==
  /\ agents \subseteq Agents
  /\ role \in [Teams -> [Humans -> Roles \cup {None}]]
  /\ grants \in Seq(Enrolments)
  /\ TeamsKeepAnAdmin
  /\ GrantsLoad

USE GovernanceAssumption DEF Roles

-----------------------------------------------------------------------------
(* What each mutation leaves of it.                                        *)

\* Initially every team has the administrator it is seeded with.
LEMMA InitSound == Init => Sound
<1> SUFFICES ASSUME Init PROVE Sound
  OBVIOUS
<1>1. grants = <<>> /\ role = FirstMembers /\ agents = Agents
  BY DEF Init
<1>2. TeamsKeepAnAdmin
  BY <1>1 DEF TeamsKeepAnAdmin, IsAdmin
<1>3. grants \in Seq(Enrolments) /\ DOMAIN grants = {}
  BY <1>1
<1>4. GrantsLoad
  BY <1>3 DEF GrantsLoad, ValidGrantSet
<1> QED
  BY <1>1, <1>2, <1>3, <1>4 DEF Sound

\* Nothing but a mutation touches memberships, enrolments and agents.
LEMMA Untouched ==
  ASSUME Sound, UNCHANGED <<agents, role, grants>>
  PROVE  Sound'
  BY DEF Sound, TeamsKeepAnAdmin, IsAdmin, GrantsLoad, ValidGrantSet, SameTeam

\* A membership that is added takes nobody's.
LEMMA AddSound ==
  ASSUME Sound, NEW r, AddMembership(r)
  PROVE  Sound'
<1>1. r.team \in Teams /\ r.member \in Humans /\ r.role \in Roles
  BY DEF AddMembership, Adding
<1>2. role' = [role EXCEPT ![r.team][r.member] = r.role] /\ UNCHANGED <<agents, grants>>
  BY DEF AddMembership
<1>3. role' \in [Teams -> [Humans -> Roles \cup {None}]]
  BY <1>1, <1>2 DEF Sound
<1>4. ASSUME NEW t \in Teams, NEW h \in Humans, IsAdmin(h, t)
      PROVE  IsAdmin(h, t)'
  <2>1. "admin" # None
    BY DEF Rank
  <2>2. ~(t = r.team /\ h = r.member)
    BY <1>4, <2>1 DEF IsAdmin, AddMembership
  <2> QED
    BY <1>1, <1>2, <1>4, <2>2 DEF Sound, IsAdmin
<1>5. TeamsKeepAnAdmin'
  BY <1>4 DEF Sound, TeamsKeepAnAdmin
<1>6. GrantsLoad'
  BY <1>2 DEF Sound, GrantsLoad, ValidGrantSet, SameTeam
<1> QED
  BY <1>2, <1>3, <1>5, <1>6 DEF Sound

\* The last administrator stays.
LEMMA RemoveSound ==
  ASSUME Sound, NEW r, RemoveMembership(r)
  PROVE  Sound'
<1>1. r.team \in Teams /\ r.member \in Humans /\ r.actor \in Humans
  BY DEF RemoveMembership, Removing
<1>2. role' = [role EXCEPT ![r.team][r.member] = None] /\ UNCHANGED <<agents, grants>>
  BY DEF RemoveMembership
<1>3. role' \in [Teams -> [Humans -> Roles \cup {None}]]
  BY <1>1, <1>2 DEF Sound
<1>4. ASSUME NEW t \in Teams
      PROVE  \E h \in Humans : IsAdmin(h, t)'
  <2>1. PICK h \in Humans : IsAdmin(h, t) /\ (t = r.team => h # r.member)
    <3>1. CASE t = r.team /\ IsAdmin(r.member, r.team)
      BY <1>1, <3>1 DEF RemoveMembership, MayRemove, AnotherAdmin
    <3>2. CASE ~(t = r.team /\ IsAdmin(r.member, r.team))
      BY <1>1, <3>2 DEF Sound, TeamsKeepAnAdmin
    <3> QED
      BY <3>1, <3>2
  <2>2. IsAdmin(h, t)'
    BY <1>1, <1>2, <2>1 DEF Sound, IsAdmin
  <2> QED
    BY <2>2
<1>5. TeamsKeepAnAdmin'
  BY <1>4 DEF TeamsKeepAnAdmin
<1>6. GrantsLoad'
  BY <1>2 DEF Sound, GrantsLoad, ValidGrantSet, SameTeam
<1> QED
  BY <1>2, <1>3, <1>5, <1>6 DEF Sound

\* An enrolment has a version of its own and no active one beside it.
LEMMA EnrollSound ==
  ASSUME Sound, NEW r, Enroll(r)
  PROVE  Sound'
<1>1. /\ r.agent \in agents /\ r.team \in Teams /\ r.role \in Roles
      /\ r.expiresAt \in Nat \cup {None}
  BY DEF Enroll, Enrolling, MayEnroll
<1>2. PICK version \in 1 .. Len(grants) + 1 :
        /\ IsNextVersion(r.agent, r.team, version)
        /\ grants' = Append(grants,
             [agent |-> r.agent, team |-> r.team, role |-> r.role,
              actions |-> {"file.read"}, status |-> "active",
              expiresAt |-> r.expiresAt, bundleVersion |-> version])
  BY DEF Enroll
<1> DEFINE g == [agent |-> r.agent, team |-> r.team, role |-> r.role,
                 actions |-> {"file.read"}, status |-> "active",
                 expiresAt |-> r.expiresAt, bundleVersion |-> version]
<1>3. UNCHANGED <<agents, role>>
  BY DEF Enroll
<1>4. g \in Enrolments
  BY <1>1 DEF Sound, Enrolments, GrantActions
<1>5. /\ grants' \in Seq(Enrolments)
      /\ DOMAIN grants = 1 .. Len(grants)
      /\ DOMAIN grants' = 1 .. Len(grants) + 1
      /\ \A i \in 1 .. Len(grants) : grants'[i] = grants[i]
      /\ grants'[Len(grants) + 1] = g
  BY <1>2, <1>4 DEF Sound
<1>6. ASSUME NEW i \in DOMAIN grants, SameTeam(grants[i], g)
      PROVE  grants[i].bundleVersion # version /\ grants[i].status = "revoked"
  <2>1. i \in EnrolmentsOf(r.agent, r.team)
    BY <1>6 DEF EnrolmentsOf, SameTeam
  <2>2. grants[i] \in Enrolments
    BY DEF Sound
  <2>3. grants[i].bundleVersion < version
    BY <1>2, <2>1 DEF IsNextVersion
  <2>4. grants[i].status # "active"
    BY <1>6 DEF Enroll, IsActive, SameTeam
  <2> QED
    BY <2>2, <2>3, <2>4 DEF Enrolments
<1>7. ASSUME NEW i \in DOMAIN grants', NEW j \in DOMAIN grants', i # j,
             SameTeam(grants'[i], grants'[j])
      PROVE  /\ grants'[i].bundleVersion # grants'[j].bundleVersion
             /\ grants'[i].status = "revoked" \/ grants'[j].status = "revoked"
  <2>1. CASE i \in DOMAIN grants /\ j \in DOMAIN grants
    BY <1>5, <1>7, <2>1 DEF Sound, GrantsLoad, ValidGrantSet, SameTeam
  <2>2. CASE i \in DOMAIN grants /\ j = Len(grants) + 1
    BY <1>5, <1>6, <1>7, <2>2 DEF SameTeam
  <2>3. CASE i = Len(grants) + 1 /\ j \in DOMAIN grants
    BY <1>5, <1>6, <1>7, <2>3 DEF SameTeam
  <2> QED
    BY <1>5, <1>7, <2>1, <2>2, <2>3 DEF Sound
<1>8. ASSUME NEW i \in DOMAIN grants', grants'[i].status = "active"
      PROVE  grants'[i].agent \in agents'
  BY <1>1, <1>3, <1>5, <1>8 DEF Sound, GrantsLoad, ValidGrantSet
<1>9. GrantsLoad'
  BY <1>7, <1>8 DEF GrantsLoad, ValidGrantSet, SameTeam
<1>10. TeamsKeepAnAdmin'
  BY <1>3 DEF Sound, TeamsKeepAnAdmin, IsAdmin
<1> QED
  BY <1>3, <1>5, <1>9, <1>10 DEF Sound

\* A revocation activates nothing and renumbers nothing.
LEMMA RevokeSound ==
  ASSUME Sound, NEW r, Revoke(r)
  PROVE  Sound'
<1>1. r.grant \in DOMAIN grants
  BY DEF Revoke, MayRevoke
<1>2. grants' = [grants EXCEPT ![r.grant].status = "revoked"] /\ UNCHANGED <<agents, role>>
  BY DEF Revoke
<1>3. [grants[r.grant] EXCEPT !.status = "revoked"] \in Enrolments
  <2>1. grants[r.grant] \in Enrolments
    BY <1>1 DEF Sound
  <2> QED
    BY <2>1 DEF Enrolments
<1>4. grants' \in Seq(Enrolments) /\ DOMAIN grants' = DOMAIN grants
  BY <1>1, <1>2, <1>3 DEF Sound
<1>5. ASSUME NEW i \in DOMAIN grants
      PROVE  /\ SameTeam(grants'[i], grants[i])
             /\ grants'[i].bundleVersion = grants[i].bundleVersion
             /\ grants'[i].status \in {grants[i].status, "revoked"}
  BY <1>1, <1>2 DEF Sound, Enrolments, SameTeam
<1>6. GrantsLoad'
  BY <1>2, <1>4, <1>5 DEF Sound, GrantsLoad, ValidGrantSet, SameTeam
<1>7. TeamsKeepAnAdmin'
  BY <1>2 DEF Sound, TeamsKeepAnAdmin, IsAdmin
<1> QED
  BY <1>2, <1>4, <1>6, <1>7 DEF Sound

\* A deletion ends every enrolment of the agent.
LEMMA DeleteSound ==
  ASSUME Sound, NEW r, DeleteAgent(r)
  PROVE  Sound'
<1>1. grants' = EndedWith(r.agent) /\ agents' = agents \ {r.agent} /\ UNCHANGED role
  BY DEF DeleteAgent
<1>2. DOMAIN grants = 1 .. Len(grants) /\ \A i \in DOMAIN grants : grants[i] \in Enrolments
  BY DEF Sound
<1>3. ASSUME NEW i \in DOMAIN grants
      PROVE  /\ grants'[i] \in Enrolments
             /\ SameTeam(grants'[i], grants[i])
             /\ grants'[i].bundleVersion = grants[i].bundleVersion
             /\ grants'[i].status \in {grants[i].status, "revoked"}
             /\ grants'[i].agent = r.agent => grants'[i].status = "revoked"
  <2>1. grants'[i] = IF grants[i].agent = r.agent
                     THEN [grants[i] EXCEPT !.status = "revoked"] ELSE grants[i]
    BY <1>1 DEF EndedWith
  <2>2. grants[i] \in Enrolments
    BY <1>2
  <2>3. CASE grants[i].agent = r.agent
    BY <2>1, <2>2, <2>3 DEF Enrolments, SameTeam
  <2>4. CASE grants[i].agent # r.agent
    BY <2>1, <2>2, <2>4 DEF Enrolments, SameTeam
  <2> QED
    BY <2>3, <2>4
<1>4. DOMAIN grants' = DOMAIN grants
  BY <1>1 DEF EndedWith
<1>5. grants' \in Seq(Enrolments)
  <2>1. grants' = [i \in 1 .. Len(grants) |-> grants'[i]]
    BY <1>1, <1>2 DEF EndedWith
  <2>2. Len(grants) \in Nat
    BY DEF Sound
  <2> QED
    BY <1>2, <1>3, <2>1, <2>2, SeqDef
<1>6. GrantsLoad'
  <2>1. \A i \in DOMAIN grants' : grants'[i].status = "active" =>
          grants'[i].agent \in agents'
    BY <1>1, <1>3, <1>4 DEF Sound, GrantsLoad, ValidGrantSet, SameTeam
  <2>2. ASSUME NEW i \in DOMAIN grants', NEW j \in DOMAIN grants', i # j,
               SameTeam(grants'[i], grants'[j])
        PROVE  /\ grants'[i].bundleVersion # grants'[j].bundleVersion
               /\ grants'[i].status = "revoked" \/ grants'[j].status = "revoked"
    <3>1. SameTeam(grants[i], grants[j])
      BY <1>3, <1>4, <2>2 DEF SameTeam
    <3>2. /\ grants[i].bundleVersion # grants[j].bundleVersion
          /\ grants[i].status = "revoked" \/ grants[j].status = "revoked"
      BY <1>4, <2>2, <3>1 DEF Sound, GrantsLoad, ValidGrantSet
    <3> QED
      BY <1>3, <1>4, <2>2, <3>2
  <2> QED
    BY <2>1, <2>2 DEF GrantsLoad, ValidGrantSet, SameTeam
<1>7. TeamsKeepAnAdmin'
  BY <1>1 DEF Sound, TeamsKeepAnAdmin, IsAdmin
<1> QED
  BY <1>1, <1>5, <1>6, <1>7 DEF Sound

-----------------------------------------------------------------------------
(* The steps together.                                                     *)

\* Whatever a step does, memberships and enrolments stay sound.
LEMMA StepSound == Sound /\ [Next]_vars => Sound'
<1> SUFFICES ASSUME Sound, [Next]_vars PROVE Sound'
  OBVIOUS
<1>1. CASE Serve(Head(queue))
  <2>1. PICK r : r = Head(queue) /\ Serve(r)
    BY <1>1
  <2>2. CASE AddMembership(r)
    BY <2>2, AddSound
  <2>3. CASE RemoveMembership(r)
    BY <2>3, RemoveSound
  <2>4. CASE Enroll(r)
    BY <2>4, EnrollSound
  <2>5. CASE Revoke(r)
    BY <2>5, RevokeSound
  <2>6. CASE DeleteAgent(r)
    BY <2>6, DeleteSound
  <2>7. CASE Drain(r) \/ RecordEvidence(r)
    BY <2>7, Untouched DEF Drain, RecordEvidence
  <2> QED
    BY <2>1, <2>2, <2>3, <2>4, <2>5, <2>6, <2>7 DEF Serve
<1>2. CASE Fail \/ Tick \/ Restart \/ Edit \/ UNCHANGED vars
  BY <1>2, Untouched DEF Fail, Tick, Restart, Edit, vars
<1>3. CASE RequestMembership \/ RequestGrant \/ RequestDeletion
  <2>1. UNCHANGED <<agents, role, grants>>
    BY <1>3 DEF RequestMembership, RequestGrant, RequestDeletion, Submit
  <2> QED
    BY <2>1, Untouched
<1> QED
  BY <1>1, <1>2, <1>3 DEF Next

\* The types, an administrator in every team and enrolments that can be loaded
\* are invariant together.
THEOREM AlwaysSound == Spec => []Sound
  BY InitSound, StepSound, PTL DEF Spec

\* What joins the queue is a mutation.
LEMMA StepTyped == Sound /\ TypeOK /\ [Next]_vars => TypeOK'
<1> SUFFICES ASSUME Sound, TypeOK, [Next]_vars PROVE TypeOK'
  OBVIOUS
<1>1. agents' \subseteq Agents /\ role' \in [Teams -> [Humans -> Roles \cup {None}]]
        /\ grants' \in Seq(Enrolments)
  BY StepSound DEF Sound
<1>2. ASSUME NEW r \in Mutation, Submit(r) PROVE TypeOK'
  <2>1. queue' \in Seq(Mutation)
    BY <1>2 DEF Submit, TypeOK
  <2> QED
    BY <1>1, <1>2, <2>1 DEF Submit, evidenceVars, TypeOK
<1>3. ASSUME NEW r, NEW evidence, NEW after \in Seq(Mutation), Commit(r, evidence, after)
      PROVE  TypeOK'
  <2>1. queue # <<>> /\ queue' = Tail(queue) \o after /\ queue \in Seq(Mutation)
    BY <1>3 DEF Commit, TypeOK
  <2>2. Tail(queue) \in Seq(Mutation)
    BY <2>1
  <2>3. queue' \in Seq(Mutation)
    BY <2>1, <2>2
  <2> QED
    BY <1>1, <1>3, <2>3 DEF Commit, TypeOK
<1>4. <<>> \in Seq(Mutation)
  OBVIOUS
<1>5. CASE queue # <<>> /\ Serve(Head(queue))
  <2>1. PICK r : r = Head(queue) /\ Serve(r)
    BY <1>5
  <2>2. CASE AddMembership(r) \/ RemoveMembership(r) \/ DeleteAgent(r) \/ RecordEvidence(r)
    BY <1>3, <1>4, <2>2 DEF AddMembership, RemoveMembership, DeleteAgent, RecordEvidence
  <2>3. CASE Enroll(r)
    <3>1. Record("enrolled", Len(grants) + 1) \in Mutation
      BY DEF TypeOK, Record, Mutation, Recording, Evidence
    <3>2. <<Record("enrolled", Len(grants) + 1)>> \in Seq(Mutation)
      BY <3>1
    <3> QED
      BY <1>3, <2>3, <3>2 DEF Enroll
  <2>4. CASE Revoke(r)
    <3> DEFINE drain == [kind |-> "drain", grant |-> r.grant,
                         changed |-> grants[r.grant].status = "active"]
    <3>1. drain \in Mutation
      BY <2>4 DEF Revoke, Revoking, Mutation, Draining
    <3>2. <<drain>> \in Seq(Mutation)
      BY <3>1
    <3> QED
      BY <1>3, <2>4, <3>2 DEF Revoke
  <2>5. CASE Drain(r)
    <3> DEFINE after == IF r.changed THEN <<Record("revoked", r.grant)>> ELSE <<>>
    <3>1. Record("revoked", r.grant) \in Mutation
      BY <2>5 DEF Drain, Draining, Record, Mutation, Recording, Evidence
    <3>2. after \in Seq(Mutation)
      BY <1>4, <3>1
    <3> QED
      BY <1>3, <2>5, <3>2 DEF Drain
  <2> QED
    BY <2>1, <2>2, <2>3, <2>4, <2>5 DEF Serve
<1>6. CASE RequestMembership
  BY <1>2, <1>6 DEF RequestMembership, Mutation
<1>7. CASE RequestGrant
  <2>1. CASE \E actor \in Humans, i \in DOMAIN grants :
               Submit([kind |-> "revoke", actor |-> actor, grant |-> i])
    <3>1. PICK actor \in Humans, i \in DOMAIN grants :
                 Submit([kind |-> "revoke", actor |-> actor, grant |-> i])
      BY <2>1
    <3>2. [kind |-> "revoke", actor |-> actor, grant |-> i] \in Mutation
      BY DEF Mutation, Revoking, TypeOK
    <3> QED
      BY <1>2, <3>1, <3>2
  <2>2. CASE \E actor \in Humans, agent \in agents, t \in Teams, terms \in AskedTerms :
               Submit([kind |-> "enroll", actor |-> actor, agent |-> agent, team |-> t,
                       role |-> terms.role, expiresAt |-> terms.expiresAt])
    <3>1. PICK actor \in Humans, agent \in agents, t \in Teams, terms \in AskedTerms :
                 Submit([kind |-> "enroll", actor |-> actor, agent |-> agent, team |-> t,
                         role |-> terms.role, expiresAt |-> terms.expiresAt])
      BY <2>2
    <3>2. [kind |-> "enroll", actor |-> actor, agent |-> agent, team |-> t,
           role |-> terms.role, expiresAt |-> terms.expiresAt] \in Mutation
      BY DEF Mutation, Enrolling, TypeOK
    <3> QED
      BY <1>2, <3>1, <3>2
  <2> QED
    BY <1>7, <2>1, <2>2 DEF RequestGrant
<1>8. CASE RequestDeletion
  <2>1. PICK agent \in agents : Submit([kind |-> "delete", agent |-> agent])
    BY <1>8 DEF RequestDeletion
  <2>2. [kind |-> "delete", agent |-> agent] \in Mutation
    BY DEF Mutation, Deleting, TypeOK
  <2> QED
    BY <1>2, <2>1, <2>2
<1>9. CASE Fail \/ Restart
  <2>1. CASE Fail
    <3>1. queue # <<>> /\ queue \in Seq(Mutation)
      BY <2>1 DEF Fail, TypeOK
    <3>2. Tail(queue) \in Seq(Mutation)
      BY <3>1
    <3> QED
      BY <1>1, <2>1, <3>2 DEF Fail, evidenceVars, TypeOK
  <2>2. CASE Restart
    BY <1>1, <1>4, <2>2 DEF Restart, TypeOK
  <2> QED
    BY <1>9, <2>1, <2>2
<1>10. CASE Tick
  <2>1. time' \in 0 .. MaxTime
    BY <1>10 DEF Tick, TypeOK
  <2> QED
    BY <1>1, <1>10, <2>1 DEF Tick, evidenceVars, TypeOK
<1>11. CASE Edit \/ UNCHANGED vars
  BY <1>1, <1>11 DEF Edit, vars, evidenceVars, TypeOK
<1> QED
  BY <1>5, <1>6, <1>7, <1>8, <1>9, <1>10, <1>11 DEF Next

\* Every variable has its type; what waits in the queue is a mutation.
THEOREM TypeCorrect == Spec => []TypeOK
<1>1. Init => TypeOK
  <2> SUFFICES ASSUME Init PROVE TypeOK
    OBVIOUS
  <2>1. time \in 0 .. MaxTime
    BY DEF Init
  <2>2. queue \in Seq(Mutation)
    BY DEF Init
  <2> QED
    BY <2>1, <2>2, InitSound DEF Init, TypeOK, Sound
<1> QED
  BY <1>1, AlwaysSound, StepTyped, PTL DEF Spec

\* TeamMembershipService.removeMembership never takes the last administrator of a
\* team, in whatever order requests are queued.
THEOREM AdminsRemain == Spec => []TeamsKeepAnAdmin
<1>1. Sound => TeamsKeepAnAdmin
  BY DEF Sound
<1> QED
  BY <1>1, AlwaysSound, PTL

\* The enrolments that AgentTeamGrantService and the deletion of agents leave
\* behind are those isValidAgentTeamGrantSet lets the server start with.
THEOREM EnrolmentsCanBeLoaded == Spec => []GrantsLoad
<1>1. Sound => GrantsLoad
  BY DEF Sound
<1> QED
  BY <1>1, AlwaysSound, PTL

-----------------------------------------------------------------------------
(* Decisions about team files.                                             *)

\* Every enrolment lets files be read, and an active one is the latest.
Current ==
  /\ \A i \in DOMAIN grants : "file.read" \in grants[i].actions
  /\ \A i, j \in DOMAIN grants :
       SameTeam(grants[i], grants[j]) /\ grants[i].status = "active" =>
         grants[j].bundleVersion <= grants[i].bundleVersion

\* An enrolment that is made becomes the latest, and nothing was active before.
LEMMA EnrollCurrent ==
  ASSUME Sound, Current, NEW r, Enroll(r)
  PROVE  Current'
<1>1. PICK version \in 1 .. Len(grants) + 1 :
        /\ IsNextVersion(r.agent, r.team, version)
        /\ grants' = Append(grants,
             [agent |-> r.agent, team |-> r.team, role |-> r.role,
              actions |-> {"file.read"}, status |-> "active",
              expiresAt |-> r.expiresAt, bundleVersion |-> version])
  BY DEF Enroll
<1> DEFINE g == [agent |-> r.agent, team |-> r.team, role |-> r.role,
                 actions |-> {"file.read"}, status |-> "active",
                 expiresAt |-> r.expiresAt, bundleVersion |-> version]
<1>2. /\ DOMAIN grants = 1 .. Len(grants)
      /\ DOMAIN grants' = 1 .. Len(grants) + 1
      /\ \A i \in 1 .. Len(grants) : grants'[i] = grants[i]
      /\ grants'[Len(grants) + 1] = g
      /\ Len(grants) \in Nat
  <2>1. g \in Enrolments
    <3>1. /\ r.agent \in agents /\ r.team \in Teams /\ r.role \in Roles
          /\ r.expiresAt \in Nat \cup {None}
      BY DEF Enroll, Enrolling, MayEnroll
    <3> QED
      BY <3>1 DEF Sound, Enrolments, GrantActions
  <2>2. grants \in Seq(Enrolments) /\ grants' = Append(grants, g)
    BY <1>1 DEF Sound
  <2> HIDE DEF g
  <2>3. grants' \in Seq(Enrolments) /\ Len(grants') = Len(grants) + 1 /\ Len(grants) \in Nat
    BY <2>1, <2>2
  <2>4. \A i \in 1 .. Len(grants) : grants'[i] = grants[i]
    BY <2>1, <2>2
  <2>5. grants'[Len(grants) + 1] = g
    BY <2>1, <2>2
  <2> QED
    BY <2>2, <2>3, <2>4, <2>5
<1>3. \A i \in DOMAIN grants : grants[i].bundleVersion \in Nat
  <2>1. \A i \in DOMAIN grants : grants[i] \in Enrolments
    BY DEF Sound
  <2> QED
    BY <2>1 DEF Enrolments
<1>4. ASSUME NEW i \in DOMAIN grants, SameTeam(grants[i], g)
      PROVE  grants[i].bundleVersion < version /\ grants[i].status # "active"
  <2>1. i \in EnrolmentsOf(r.agent, r.team)
    BY <1>4 DEF EnrolmentsOf, SameTeam
  <2>2. grants[i].bundleVersion < version
    BY <1>1, <2>1 DEF IsNextVersion
  <2>3. grants[i].status # "active"
    BY <1>4 DEF Enroll, IsActive, SameTeam
  <2> QED
    BY <2>2, <2>3
<1>5. ASSUME NEW i \in DOMAIN grants', NEW j \in DOMAIN grants',
             SameTeam(grants'[i], grants'[j]), grants'[i].status = "active"
      PROVE  grants'[j].bundleVersion <= grants'[i].bundleVersion
  <2>1. CASE i \in DOMAIN grants /\ j \in DOMAIN grants
    BY <1>2, <1>5, <2>1 DEF Current, SameTeam
  <2>2. CASE i \in DOMAIN grants /\ j = Len(grants) + 1
    BY <1>2, <1>4, <1>5, <2>2 DEF SameTeam
  <2>3. CASE i = Len(grants) + 1 /\ j \in DOMAIN grants
    BY <1>2, <1>3, <1>4, <1>5, <2>3 DEF SameTeam
  <2>4. CASE i = Len(grants) + 1 /\ j = Len(grants) + 1
    BY <1>2, <2>4
  <2> QED
    BY <1>2, <2>1, <2>2, <2>3, <2>4
<1>6. \A i \in DOMAIN grants' : "file.read" \in grants'[i].actions
  BY <1>2 DEF Current
<1> QED
  BY <1>5, <1>6 DEF Current, SameTeam

\* What keeps versions, agents and teams and activates nothing keeps Current.
LEMMA EndingCurrent ==
  ASSUME Sound, Current, DOMAIN grants' = DOMAIN grants,
         \A i \in DOMAIN grants :
           /\ SameTeam(grants'[i], grants[i])
           /\ grants'[i].bundleVersion = grants[i].bundleVersion
           /\ grants'[i].actions = grants[i].actions
           /\ grants'[i].status \in {grants[i].status, "revoked"}
  PROVE  Current'
  BY DEF Current, SameTeam

\* Whatever a step does, the active enrolments are the latest.
LEMMA StepCurrent == Sound /\ Current /\ [Next]_vars => Current'
<1> SUFFICES ASSUME Sound, Current, [Next]_vars PROVE Current'
  OBVIOUS
<1>1. CASE UNCHANGED grants
  BY <1>1 DEF Current, SameTeam
<1>2. ASSUME NEW r, Revoke(r) PROVE Current'
  <2>1. r.grant \in DOMAIN grants /\ grants' = [grants EXCEPT ![r.grant].status = "revoked"]
    BY <1>2 DEF Revoke, MayRevoke
  <2>2. \A i \in DOMAIN grants : grants[i] \in Enrolments
    BY DEF Sound
  <2>3. DOMAIN grants' = DOMAIN grants
    BY <2>1
  <2>4. ASSUME NEW i \in DOMAIN grants
        PROVE  /\ SameTeam(grants'[i], grants[i])
               /\ grants'[i].bundleVersion = grants[i].bundleVersion
               /\ grants'[i].actions = grants[i].actions
               /\ grants'[i].status \in {grants[i].status, "revoked"}
    <3>1. CASE i = r.grant
      BY <2>1, <2>2, <3>1 DEF Enrolments, SameTeam
    <3>2. CASE i # r.grant
      BY <2>1, <3>2 DEF SameTeam
    <3> QED
      BY <3>1, <3>2
  <2> QED
    BY <2>3, <2>4, EndingCurrent
<1>3. ASSUME NEW r, DeleteAgent(r) PROVE Current'
  <2>1. grants' = EndedWith(r.agent)
    BY <1>3 DEF DeleteAgent
  <2>2. \A i \in DOMAIN grants : grants[i] \in Enrolments
    BY DEF Sound
  <2>3. DOMAIN grants' = DOMAIN grants
    BY <2>1 DEF EndedWith
  <2>4. ASSUME NEW i \in DOMAIN grants
        PROVE  /\ SameTeam(grants'[i], grants[i])
               /\ grants'[i].bundleVersion = grants[i].bundleVersion
               /\ grants'[i].actions = grants[i].actions
               /\ grants'[i].status \in {grants[i].status, "revoked"}
    BY <2>1, <2>2 DEF EndedWith, Enrolments, SameTeam
  <2> QED
    BY <2>3, <2>4, EndingCurrent
<1>4. CASE Serve(Head(queue))
  <2>1. PICK r : Serve(r)
    BY <1>4
  <2>2. CASE Enroll(r)
    BY <2>2, EnrollCurrent
  <2> QED
    BY <1>1, <1>2, <1>3, <2>1, <2>2 DEF Serve, AddMembership, RemoveMembership, Drain,
       RecordEvidence
<1>5. CASE ~Serve(Head(queue))
  <2>1. CASE Fail \/ Tick \/ Restart \/ Edit \/ UNCHANGED vars
    BY <1>1, <2>1 DEF Fail, Tick, Restart, Edit, vars
  <2>2. CASE RequestMembership \/ RequestGrant \/ RequestDeletion
    BY <1>1, <2>2 DEF RequestMembership, RequestGrant, RequestDeletion, Submit
  <2> QED
    BY <1>5, <2>1, <2>2 DEF Next
<1> QED
  BY <1>4, <1>5

\* What the gateway asks is well formed.
LEMMA RequestIsShaped ==
  ASSUME Sound, NEW h \in Humans, NEW agent \in agents, NEW f \in Files
  PROVE  AttributeShape(RequestOf(h, agent, f, "file.read"))
<1> DEFINE q == RequestOf(h, agent, f, "file.read")
<1>1. /\ q.human = h /\ q.agent = agent /\ q.resource = f /\ q.action = "file.read"
      /\ q.memberships = {[human |-> h, team |-> t, role |-> role[t][h]] :
                            t \in {u \in Teams : role[u][h] # None}}
      /\ q.grants = [i \in {j \in DOMAIN grants : grants[j].agent = agent} |-> grants[i]]
      /\ q.scopes = {}
  BY DEF RequestOf
<1> HIDE DEF q
<1>2. SubjectShape(q)
  <2>1. \A m \in q.memberships : m.human = q.human /\ m.team \in Teams /\ m.role \in Roles
    BY <1>1 DEF Sound
  <2> QED
    BY <1>1, <2>1 DEF SubjectShape, ContentActions
<1>3. \A i \in DOMAIN q.grants : GrantShape(q.grants[i], q.agent)
  <2>1. \A i \in DOMAIN grants : grants[i] \in Enrolments
    BY DEF Sound
  <2> QED
    BY <1>1, <2>1 DEF GrantShape, Enrolments
<1>4. ResourceShape(q.resource)
  BY <1>1 DEF ResourceShape
<1> QED
  BY <1>2, <1>3, <1>4 DEF AttributeShape, q

\* What makes an enrolment the current one of its agent in a team.
CurrentIn(agent, team, i) ==
  i \in DOMAIN grants /\ IsActive(grants[i], agent, team)

\* The engines look at the current enrolment, which is the only active one.
LEMMA OneIsCurrent ==
  ASSUME Sound, Current, NEW agent, NEW team, NEW i, CurrentIn(agent, team, i)
  PROVE  /\ \A j : CurrentIn(agent, team, j) => j = i
         /\ Latest(agent, team, i)
<1>1. ASSUME NEW j, CurrentIn(agent, team, j) PROVE j = i
  BY <1>1 DEF CurrentIn, IsActive, SameTeam, Sound, GrantsLoad, ValidGrantSet
<1>2. Latest(agent, team, i)
  BY DEF Latest, CurrentIn, IsActive, SameTeam, Current, EnrolmentsOf
<1> QED
  BY <1>1, <1>2

\* TeamFileDecision, where there is an active enrolment and where there is none.
LEMMA FileDecision ==
  ASSUME Sound, Current, time \in Nat,
         NEW h \in Humans, NEW agent \in agents, NEW f \in Files
  PROVE  LET q == RequestOf(h, agent, f, "file.read")
             d == TeamFileDecision(q, time)
             member == role[f.team][h] # None /\ Rank[role[f.team][h]] >= Rank[f.minimumRole]
         IN  /\ (~\E i : CurrentIn(agent, f.team, i)) => d = Deny
             /\ \A i : CurrentIn(agent, f.team, i) =>
                  d = IF ~member \/ ~Holds(grants[i]) THEN Deny
                      ELSE IF Rank[grants[i].role] >= AgentRank(f) THEN Allow
                      ELSE IF f.classification = "restricted" THEN Approve
                      ELSE Deny
<1> DEFINE q == RequestOf(h, agent, f, "file.read")
           d == TeamFileDecision(q, time)
           member == role[f.team][h] # None /\ Rank[role[f.team][h]] >= Rank[f.minimumRole]
           active == ActiveGrants(q)
           grant == q.grants[CHOOSE i \in active : \A j \in active : i <= j]
<1>1. /\ q.resource = f /\ q.action = "file.read"
      /\ q.memberships = {[human |-> h, team |-> t, role |-> role[t][h]] :
                            t \in {u \in Teams : role[u][h] # None}}
      /\ q.grants = [i \in {j \in DOMAIN grants : grants[j].agent = agent} |-> grants[i]]
  BY DEF RequestOf
<1>2. f.team \in Teams
  OBVIOUS
<1> HIDE DEF q
<1>3. IsMember(q) <=> member
  <2>1. ASSUME NEW m \in q.memberships, m.team = f.team
        PROVE  role[f.team][h] # None /\ m.role = role[f.team][h]
    BY <1>1, <2>1
  <2>2. ASSUME role[f.team][h] # None
        PROVE  \E m \in q.memberships : m.team = f.team
    <3>1. [human |-> h, team |-> f.team, role |-> role[f.team][h]] \in q.memberships
      BY <1>1, <1>2, <2>2
    <3> QED
      BY <3>1
  <2>3. q.resource = f
    BY <1>1
  <2> QED
    BY <2>1, <2>2, <2>3, Zenon DEF IsMember
<1>4. \A i : i \in active <=> CurrentIn(agent, f.team, i)
  BY <1>1 DEF ActiveGrants, CurrentIn, IsActive
<1>5. d = IF ~(member /\ active # {} /\ Covers(grant, time)) THEN Deny
          ELSE IF Rank[grant.role] >= AgentRank(f) THEN Allow
          ELSE IF f.classification = "restricted" THEN Approve
          ELSE Deny
  BY <1>1, <1>2, <1>3 DEF TeamFileDecision
<1>6. ASSUME NEW i, CurrentIn(agent, f.team, i)
      PROVE  active # {} /\ grant = grants[i] /\ (Covers(grant, time) <=> Holds(grants[i]))
  <2>1. active = {i}
    BY <1>4, <1>6, OneIsCurrent
  <2>2. i \in DOMAIN grants /\ grants[i] \in Enrolments /\ DOMAIN grants \subseteq Int
    BY <1>6 DEF CurrentIn, Sound
  <2>3. (CHOOSE k \in active : \A j \in active : k <= j) = i
    BY <2>1, <2>2
  <2>4. grant = grants[i]
    BY <1>1, <1>6, <2>3 DEF CurrentIn, IsActive
  <2>5. Covers(grants[i], time) <=> Holds(grants[i])
    BY <1>6, <2>2 DEF Covers, Holds, Current, CurrentIn, Enrolments
  <2> QED
    BY <2>1, <2>4, <2>5
<1>7. (~\E i : CurrentIn(agent, f.team, i)) => d = Deny
  <2> HIDE DEF active, grant, d, member
  <2> QED
    BY <1>4, <1>5
<1>8. ASSUME NEW i, CurrentIn(agent, f.team, i)
      PROVE  d = IF ~member \/ ~Holds(grants[i]) THEN Deny
                 ELSE IF Rank[grants[i].role] >= AgentRank(f) THEN Allow
                 ELSE IF f.classification = "restricted" THEN Approve
                 ELSE Deny
  <2>1. active # {} /\ grant = grants[i] /\ (Covers(grant, time) <=> Holds(grants[i]))
    BY <1>6, <1>8
  <2> HIDE DEF active, grant, d, member
  <2> QED
    BY <1>5, <2>1
<1> QED
  BY <1>7, <1>8 DEF q

\* The tier of a read of a file decides what the gateway adds.
LEMMA FileGate ==
  ASSUME Sound, NEW h \in Humans, NEW agent \in agents, NEW f \in Files
  PROVE  LET q == RequestOf(h, agent, f, "file.read")
             d == TeamFileDecision(q, time)
         IN  Gate(q, time) =
               IF d = Deny THEN Denied
               ELSE IF d = Approve \/ f.classification = "restricted"
               THEN [outcome |-> Approve, signatures |-> 1]
               ELSE [outcome |-> Allow, signatures |-> 0]
<1> DEFINE q == RequestOf(h, agent, f, "file.read")
<1>1. q.resource = f /\ q.action = "file.read" /\ f.type = "team_file"
  BY DEF RequestOf
<1>2. AttributeShape(q)
  BY RequestIsShaped
<1> HIDE DEF q
<1>3. Evaluate(q, time) = TeamFileDecision(q, time)
  BY <1>1, <1>2 DEF Evaluate, Actions, GrantActions
<1>4. HasRiskFacts(q) /\ TierFor(q) = IF f.classification = "restricted" THEN "high" ELSE "low"
  BY <1>1 DEF HasRiskFacts, TierFor, ContentActions
<1> QED
  BY <1>3, <1>4 DEF Gate, q

\* The verdict, by the current enrolment where there is one.
LEMMA VerdictByCurrent ==
  ASSUME Sound, Current, NEW h \in Humans, NEW agent \in agents, NEW f \in Files
  PROVE  LET member == role[f.team][h] # None /\ Rank[role[f.team][h]] >= Rank[f.minimumRole]
         IN  /\ (~\E i : CurrentIn(agent, f.team, i)) => VerdictFor(h, agent, f) = Denied
             /\ \A i : CurrentIn(agent, f.team, i) =>
                  VerdictFor(h, agent, f) =
                    IF ~member \/ ~Holds(grants[i]) THEN Denied
                    ELSE IF f.classification = "restricted"
                    THEN [outcome |-> Approve, signatures |-> 1]
                    ELSE IF Rank[grants[i].role] >= Rank[f.minimumRole]
                    THEN [outcome |-> Allow, signatures |-> 0]
                    ELSE Denied
<1> DEFINE member == role[f.team][h] # None /\ Rank[role[f.team][h]] >= Rank[f.minimumRole]
           enough == {i \in DOMAIN grants : Latest(agent, f.team, i) /\ Holds(grants[i])}
           capable == {i \in enough : Rank[grants[i].role] >= Rank[f.minimumRole]}
<1>1. /\ f.team \in Teams /\ role[f.team][h] \in Roles \cup {None}
      /\ Rank[f.minimumRole] \in Nat
      /\ role[f.team][h] # None => Rank[role[f.team][h]] \in Nat
  BY DEF Sound, Rank
<1>2. VerdictFor(h, agent, f) =
        IF ~member \/ enough = {} THEN Denied
        ELSE IF f.classification = "restricted" THEN [outcome |-> Approve, signatures |-> 1]
        ELSE IF capable # {} THEN [outcome |-> Allow, signatures |-> 0]
        ELSE Denied
  BY <1>1 DEF VerdictFor
<1>3. \A i : i \in enough <=> CurrentIn(agent, f.team, i) /\ Holds(grants[i])
  BY OneIsCurrent DEF Latest, EnrolmentsOf, CurrentIn, IsActive, Holds
<1>4. (~\E i : CurrentIn(agent, f.team, i)) => VerdictFor(h, agent, f) = Denied
  <2> HIDE DEF enough, capable, member
  <2> QED
    BY <1>2, <1>3
<1>5. ASSUME NEW i, CurrentIn(agent, f.team, i)
      PROVE  VerdictFor(h, agent, f) =
               IF ~member \/ ~Holds(grants[i]) THEN Denied
               ELSE IF f.classification = "restricted"
               THEN [outcome |-> Approve, signatures |-> 1]
               ELSE IF Rank[grants[i].role] >= Rank[f.minimumRole]
               THEN [outcome |-> Allow, signatures |-> 0]
               ELSE Denied
  <2>1. enough = IF Holds(grants[i]) THEN {i} ELSE {}
    BY <1>3, <1>5, OneIsCurrent
  <2>2. capable # {} <=> Holds(grants[i]) /\ Rank[grants[i].role] >= Rank[f.minimumRole]
    BY <2>1
  <2> HIDE DEF enough, capable, member
  <2> QED
    BY <1>2, <2>1, <2>2
<1> QED
  BY <1>4, <1>5

\* The two verdicts agree.
LEMMA Agree ==
  ASSUME Sound, Current, time \in Nat
  PROVE  DecidesByCurrentEnrolment
<1> SUFFICES ASSUME NEW h \in Humans, NEW agent \in agents, NEW f \in Files
             PROVE  Gate(RequestOf(h, agent, f, "file.read"), time) = VerdictFor(h, agent, f)
  BY DEF DecidesByCurrentEnrolment
<1> DEFINE q == RequestOf(h, agent, f, "file.read")
           d == TeamFileDecision(q, time)
<1>1. Gate(q, time) =
        IF d = Deny THEN Denied
        ELSE IF d = Approve \/ f.classification = "restricted"
        THEN [outcome |-> Approve, signatures |-> 1]
        ELSE [outcome |-> Allow, signatures |-> 0]
  BY FileGate
<1>2. CASE ~\E i : CurrentIn(agent, f.team, i)
  <2>1. d = Deny
    BY <1>2, FileDecision
  <2>2. VerdictFor(h, agent, f) = Denied
    BY <1>2, VerdictByCurrent
  <2> HIDE DEF q, d
  <2> QED
    BY <1>1, <2>1, <2>2 DEF q
<1>3. ASSUME NEW i, CurrentIn(agent, f.team, i)
      PROVE  Gate(q, time) = VerdictFor(h, agent, f)
  <2> DEFINE member == role[f.team][h] # None /\ Rank[role[f.team][h]] >= Rank[f.minimumRole]
  <2>1. d = IF ~member \/ ~Holds(grants[i]) THEN Deny
            ELSE IF Rank[grants[i].role] >= AgentRank(f) THEN Allow
            ELSE IF f.classification = "restricted" THEN Approve
            ELSE Deny
    BY <1>3, FileDecision
  <2>2. VerdictFor(h, agent, f) =
          IF ~member \/ ~Holds(grants[i]) THEN Denied
          ELSE IF f.classification = "restricted"
          THEN [outcome |-> Approve, signatures |-> 1]
          ELSE IF Rank[grants[i].role] >= Rank[f.minimumRole]
          THEN [outcome |-> Allow, signatures |-> 0]
          ELSE Denied
    BY <1>3, VerdictByCurrent
  <2>3. f.classification # "restricted" => AgentRank(f) = Rank[f.minimumRole]
    BY DEF AgentRank
  <2>4. Deny # Allow /\ Deny # Approve /\ Allow # Approve
    BY DEF Deny, Allow, Approve
  <2> HIDE DEF member, d, q
  <2> QED
    BY <1>1, <2>1, <2>2, <2>3, <2>4
<1> QED
  BY <1>2, <1>3

\* DeterministicPolicyEngine.evaluate and the gateway decide about a team file by
\* the membership and the latest enrolment, after any history of both.
THEOREM FilesAreDecidedByTheLatest == Spec => []DecidesByCurrentEnrolment
<1>1. Init => Current
  BY DEF Init, Current
<1>2. Sound /\ Current /\ TypeOK => DecidesByCurrentEnrolment
  BY Agree DEF TypeOK
<1> QED
  BY <1>1, <1>2, AlwaysSound, TypeCorrect, StepCurrent, PTL DEF Spec

-----------------------------------------------------------------------------
(* Decisions about content and deployments.                                *)

\* What Broadened changes, and what it does not.
LEMMA BroadenedIs ==
  ASSUME NEW q, IsRecord(q, RequestFields), IsRecord(q.registered, DestinationFields)
  PROVE  LET b == Broadened(q)
         IN  /\ \A field \in RequestFields \ {"registered"} : b[field] = q[field]
             /\ b.registered = Exposed(q.registered)
             /\ \A field \in DestinationFields \ {"audience", "reach"} :
                  b.registered[field] = q.registered[field]
             /\ b.registered.audience = "external" /\ b.registered.reach = "broad"
<1> DEFINE d == q.registered
           wide == [d EXCEPT !.audience = "external"]
<1>1. DOMAIN q = RequestFields /\ DOMAIN d = DestinationFields
  BY DEF IsRecord
<1>2. "registered" \in RequestFields /\ {"audience", "reach"} \subseteq DestinationFields
  BY DEF RequestFields, DestinationFields
<1>3. /\ DOMAIN wide = DestinationFields /\ wide.audience = "external"
      /\ \A field \in DestinationFields \ {"audience"} : wide[field] = d[field]
  BY <1>1, <1>2
<1>4. Exposed(d) = [wide EXCEPT !.reach = "broad"]
  BY DEF Exposed
<1>5. /\ Broadened(q).registered = Exposed(d)
      /\ \A field \in RequestFields \ {"registered"} : Broadened(q)[field] = q[field]
  BY <1>1, <1>2 DEF Broadened
<1> HIDE DEF wide, d
<1>6. /\ Exposed(d).reach = "broad"
      /\ \A field \in DestinationFields \ {"reach"} : Exposed(d)[field] = wide[field]
  BY <1>2, <1>3, <1>4
<1>7. Exposed(d).audience = "external"
  BY <1>2, <1>3, <1>6
<1> QED
  BY <1>3, <1>5, <1>6, <1>7 DEF d

\* The policy engine does not look at how exposed a destination is.
LEMMA BroadenedDecision ==
  ASSUME NEW q, IsRecord(q, RequestFields), IsRecord(q.registered, DestinationFields),
         q.registered # None, Exposed(q.registered) # None,
         q.resource.type # "team_file", NEW now
  PROVE  /\ Evaluate(Broadened(q), now) = Evaluate(q, now)
         /\ HasRiskFacts(Broadened(q)) = HasRiskFacts(q)
         /\ Broadened(q).action = q.action /\ Broadened(q).resource = q.resource
<1> DEFINE b == Broadened(q)
<1>1. /\ b.human = q.human /\ b.agent = q.agent /\ b.resource = q.resource
      /\ b.action = q.action /\ b.memberships = q.memberships /\ b.grants = q.grants
      /\ b.scopes = q.scopes /\ b.binding = q.binding /\ b.destination = q.destination
  BY BroadenedIs DEF RequestFields
<1>2. /\ b.registered.id = q.registered.id /\ b.registered.status = q.registered.status
      /\ b.registered.tenant = q.registered.tenant
      /\ b.registered.actions = q.registered.actions
      /\ b.registered.purposes = q.registered.purposes
      /\ b.registered.classification = q.registered.classification
      /\ b.registered.environment = q.registered.environment
  BY BroadenedIs DEF DestinationFields
<1>3. b.registered # None
  BY BroadenedIs
<1> HIDE DEF b
<1>4. AttributeShape(b) = AttributeShape(q)
  BY <1>1, Zenon DEF AttributeShape, SubjectShape, GrantShape
<1>5. ContentDecision(b) = ContentDecision(q)
  <2>1. IsBound(b) = IsBound(q) /\ InScope(b) = InScope(q)
    BY <1>1, Zenon DEF IsBound, InScope
  <2>2. Accepts(b.registered, b) = Accepts(q.registered, q)
    BY <1>1, <1>2, Zenon DEF Accepts
  <2> QED
    BY <1>1, <1>3, <2>1, <2>2, Zenon DEF ContentDecision
<1>6. Evaluate(b, now) = Evaluate(q, now)
  BY <1>1, <1>4, <1>5, Zenon DEF Evaluate
<1>7. HasRiskFacts(b) = HasRiskFacts(q)
  BY <1>1, <1>2, <1>3, Zenon DEF HasRiskFacts
<1> QED
  BY <1>1, <1>6, <1>7 DEF b

\* To a more exposed destination the tier asks for as many signatures at least.
LEMMA BroadenedTier ==
  ASSUME NEW q, IsRecord(q, RequestFields), IsRecord(q.registered, DestinationFields)
  PROVE  /\ TierFor(q) = "critical" => TierFor(Broadened(q)) = "critical"
         /\ TierFor(q) # "low" => TierFor(Broadened(q)) # "low"
<1> DEFINE b == Broadened(q)
<1>1. b.action = q.action /\ b.resource = q.resource
  BY BroadenedIs DEF RequestFields
<1>2. ExternalBroad(b)
  BY BroadenedIs DEF ExternalBroad
<1> HIDE DEF b
<1> QED
  BY <1>1, <1>2 DEF TierFor, b

\* A request that is not denied is the owner's, and what it goes to is enabled and
\* of the owner's tenant.
LEMMA NotDenied ==
  ASSUME NEW q \in ContentRequests, NEW now, Evaluate(q, now) # Deny
  PROVE  /\ q.human = q.resource.owner
         /\ q.registered # None =>
              /\ q.action \in ContentActions \ {"content.moderate"}
              /\ q.registered.tenant = q.resource.tenant
              /\ q.registered.status = "enabled"
<1>1. q.resource.type # "team_file"
  OBVIOUS
<1>2. CASE q.action \in ContentActions
  <2>1. ContentDecision(q) # Deny
    BY <1>1, <1>2 DEF Evaluate
  <2>2. q.human = q.resource.owner
    BY <2>1 DEF ContentDecision, IsBound
  <2>3. ASSUME q.registered # None
        PROVE  q.action # "content.moderate" /\ Accepts(q.registered, q)
    BY <2>1, <2>3 DEF ContentDecision
  <2> QED
    BY <1>2, <2>2, <2>3 DEF Accepts
<1>3. CASE q.action \notin ContentActions
  <2>1. q.registered = None
    BY <1>3
  <2>2. q.human = q.resource.owner
    BY <1>1, <1>3 DEF Evaluate
  <2> QED
    BY <2>1, <2>2
<1> QED
  BY <1>2, <1>3

\* What leaves has a tier that asks for a signature.
LEMMA LeavingTier ==
  ASSUME NEW q, Leaves(q)
  PROVE  TierFor(q) # "low"
  BY DEF Leaves, TierFor, ContentActions

\* No content request is carried out with fewer signatures than it takes.
LEMMA NeverExposes ==
  ASSUME NEW q \in ContentRequests, NEW now
  PROVE  ~Exposes(q, now)
<1> SUFFICES ASSUME Gate(q, now).outcome # Deny
             PROVE  /\ q.human = q.resource.owner
                    /\ q.registered # None =>
                         /\ q.registered.tenant = q.resource.tenant
                         /\ q.registered.status = "enabled"
                         /\ ~(Leaves(q) /\ Gate(q, now).signatures = 0)
                         /\ ~(Gate(q, now).signatures > Gate(Broadened(q), now).signatures)
  BY DEF Exposes
<1>1. Evaluate(q, now) # Deny /\ HasRiskFacts(q)
  BY DEF Gate, Denied
<1>2. Gate(q, now).signatures =
        IF Evaluate(q, now) = Approve \/ TierFor(q) # "low"
        THEN IF TierFor(q) = "critical" THEN 2 ELSE 1
        ELSE 0
  BY <1>1 DEF Gate
<1>3. ASSUME q.registered # None
      PROVE  /\ ~(Leaves(q) /\ Gate(q, now).signatures = 0)
             /\ ~(Gate(q, now).signatures > Gate(Broadened(q), now).signatures)
  <2>1. /\ IsRecord(q, RequestFields) /\ IsRecord(q.registered, DestinationFields)
        /\ Exposed(q.registered) # None
    BY <1>3
  <2>2. /\ Evaluate(Broadened(q), now) = Evaluate(q, now)
        /\ HasRiskFacts(Broadened(q))
    BY <1>1, <1>3, <2>1, BroadenedDecision
  <2>3. /\ TierFor(q) = "critical" => TierFor(Broadened(q)) = "critical"
        /\ TierFor(q) # "low" => TierFor(Broadened(q)) # "low"
    BY <2>1, BroadenedTier
  <2>4. Gate(Broadened(q), now).signatures =
          IF Evaluate(q, now) = Approve \/ TierFor(Broadened(q)) # "low"
          THEN IF TierFor(Broadened(q)) = "critical" THEN 2 ELSE 1
          ELSE 0
    BY <1>1, <2>2 DEF Gate
  <2>5. ~(Leaves(q) /\ Gate(q, now).signatures = 0)
    BY <1>2, LeavingTier
  <2>6. ~(Gate(q, now).signatures > Gate(Broadened(q), now).signatures)
    BY <1>2, <2>3, <2>4
  <2> QED
    BY <2>5, <2>6
<1> QED
  BY <1>1, <1>3, NotDenied

\* Whatever the request, the policy and the risk engine together ask for the
\* signatures that what it exposes takes (runtime-gateway.ts, approvalRequirement).
THEOREM ExposureNeedsApproval == Spec => []ExposureIsApproved
<1>1. ExposureIsApproved
  BY NeverExposes DEF ExposureIsApproved, ExposingTimes
<1> QED
  BY <1>1, PTL

\* What an agent may do with what one human owns while nobody looks: read their
\* profile, or handle content within the binding of its owner.
Harmless(q) ==
  /\ q.human = q.resource.owner
  /\ \/ q.action = "resource.read" /\ q.resource.type = "project_profile"
     \/ /\ IsBound(q)
        /\ \/ q.action = "content.moderate" /\ q.destination = None
           \/ /\ q.action = "content.disclose" /\ InScope(q) /\ Accepts(q.registered, q)
              /\ ~ExternalBroad(q) /\ ~CrossRegion(q)

\* Whatever an agent does with what one human owns and without anybody's
\* signature is reading the profile or handling content within the binding, with
\* no destination or with an enabled one of the same tenant and region that is not
\* open to everybody. In particular nothing is published, exported or deployed
\* without a signature (evaluate, assess and approvalRequirement together).
THEOREM UnapprovedIsHarmless ==
  ASSUME NEW q, NEW now, q.resource.type # "team_file",
         Gate(q, now).outcome = Allow
  PROVE  Harmless(q)
<1> DEFINE decision == Evaluate(q, now)
<1>1. decision = Allow /\ TierFor(q) = "low"
  <2>1. decision # Deny /\ HasRiskFacts(q) /\ ~(decision = Approve \/ TierFor(q) # "low")
    BY Zenon DEF Gate, Denied, Allow, Approve, Deny
  <2>2. decision \in {Deny, Allow, Approve}
    BY Zenon DEF Evaluate, TeamFileDecision, ContentDecision
  <2> QED BY <2>1, <2>2
<1>2. CASE q.action \in ContentActions
  <2>1. decision = ContentDecision(q)
    BY <1>1, <1>2 DEF Evaluate, Allow, Deny
  <2>2. /\ IsBound(q)
        /\ \/ q.action = "content.moderate" /\ q.destination = None
           \/ q.action = "content.disclose" /\ InScope(q) /\ Accepts(q.registered, q)
    BY <1>1, <2>1, Zenon DEF ContentDecision, Allow, Deny, Approve
  <2>3. q.action = "content.disclose" => ~ExternalBroad(q) /\ ~CrossRegion(q)
    BY <1>1 DEF TierFor
  <2> QED BY <2>2, <2>3 DEF Harmless, IsBound
<1>3. CASE q.action \notin ContentActions
  <2>1. /\ q.human = q.resource.owner
        /\ \/ q.action = "resource.read" /\ q.resource.type = "project_profile"
           \/ q.action = "deploy.staging"
    BY <1>1, <1>3 DEF Evaluate, Allow, Deny, Approve
  <2>2. q.action # "deploy.staging"
    BY <1>1 DEF TierFor
  <2> QED BY <2>1, <2>2 DEF Harmless
<1> QED BY <1>2, <1>3

-----------------------------------------------------------------------------
(* The evidence.                                                           *)

NullIsNoHash == \A sequence, previous, body : <<sequence, previous, body>> # Null

EventFields == {"sequence", "previousHash", "eventHash", "body"}

\* The events, of a set S of records, and the state of the chain.
EvidenceOf(S, evidence) ==
  /\ \A e \in S : IsRecord(e, EventFields)
  /\ \E events \in Seq(S), head \in Nat, legacy \in Nat : \E hash :
       evidence = [events |-> events,
                   chain |-> [headSequence |-> head, headHash |-> hash, legacyCount |-> legacy]]

IsEvidence(evidence) == \E S : EvidenceOf(S, evidence)

\* What an evidence is made of.
LEMMA EvidenceParts ==
  ASSUME NEW evidence, IsEvidence(evidence)
  PROVE  \E S :
           /\ \A e \in S : IsRecord(e, EventFields)
           /\ evidence.events \in Seq(S)
           /\ evidence.chain.headSequence \in Nat
           /\ evidence.chain.legacyCount \in Nat
           /\ evidence = [events |-> evidence.events,
                          chain |-> [headSequence |-> evidence.chain.headSequence,
                                     headHash |-> evidence.chain.headHash,
                                     legacyCount |-> evidence.chain.legacyCount]]
<1>1. PICK S : EvidenceOf(S, evidence)
  BY DEF IsEvidence
<1>2. PICK events \in Seq(S), head \in Nat, legacy \in Nat :
        \E hash : evidence = [events |-> events,
                              chain |-> [headSequence |-> head, headHash |-> hash,
                                         legacyCount |-> legacy]]
  BY <1>1 DEF EvidenceOf
<1>3. PICK hash :
        evidence = [events |-> events,
                    chain |-> [headSequence |-> head, headHash |-> hash, legacyCount |-> legacy]]
  BY <1>2
<1>4. /\ evidence.events = events /\ evidence.chain.headSequence = head
      /\ evidence.chain.headHash = hash /\ evidence.chain.legacyCount = legacy
  BY <1>3
<1> QED
  BY <1>1, <1>3, <1>4, Zenon DEF EvidenceOf

\* Evidence from its parts.
LEMMA EvidenceFrom ==
  ASSUME NEW S, \A e \in S : IsRecord(e, EventFields), NEW events \in Seq(S),
         NEW head \in Nat, NEW hash, NEW legacy \in Nat
  PROVE  IsEvidence([events |-> events,
                     chain |-> [headSequence |-> head, headHash |-> hash,
                                legacyCount |-> legacy]])
  BY Zenon DEF IsEvidence, EvidenceOf

\* The event appendAuditEvent adds.
NextEvent(evidence, body) ==
  LET number == evidence.chain.headSequence + 1
      previous == IF evidence.chain.headHash = Null THEN Genesis ELSE evidence.chain.headHash
  IN  [sequence |-> number, previousHash |-> previous,
       eventHash |-> <<number, previous, body>>, body |-> body]

\* What it is made of, and what it is added to.
LEMMA Appended ==
  ASSUME NEW evidence, NEW body
  PROVE  LET event == NextEvent(evidence, body)
         IN  /\ IsRecord(event, EventFields)
             /\ event.sequence = evidence.chain.headSequence + 1
             /\ event.previousHash = IF evidence.chain.headHash = Null THEN Genesis
                                     ELSE evidence.chain.headHash
             /\ event.eventHash = HashOf(event)
             /\ AppendEvent(evidence, body) =
                  [events |-> Append(evidence.events, event),
                   chain |-> [headSequence |-> event.sequence, headHash |-> event.eventHash,
                              legacyCount |-> evidence.chain.legacyCount]]
<1> DEFINE number == evidence.chain.headSequence + 1
           previous == IF evidence.chain.headHash = Null THEN Genesis
                       ELSE evidence.chain.headHash
           event == NextEvent(evidence, body)
           plain == [sequence |-> number, previousHash |-> previous,
                     eventHash |-> Null, body |-> body]
<1>1. event = [sequence |-> number, previousHash |-> previous,
               eventHash |-> <<number, previous, body>>, body |-> body]
  BY DEF NextEvent
<1>2. Hashed(plain) = event
  BY <1>1 DEF Hashed, HashOf
<1>3. AppendEvent(evidence, body) =
        [events |-> Append(evidence.events, event),
         chain |-> [headSequence |-> event.sequence, headHash |-> event.eventHash,
                    legacyCount |-> evidence.chain.legacyCount]]
  <2> HIDE DEF event
  <2> QED
    BY <1>2, Zenon DEF AppendEvent
<1>4. IsRecord(event, EventFields)
  BY <1>1 DEF IsRecord, EventFields
<1>5. /\ event.sequence = number /\ event.previousHash = previous
      /\ event.eventHash = HashOf(event)
  BY <1>1 DEF HashOf
<1> QED
  BY <1>3, <1>4, <1>5

\* What is recorded on top of evidence is evidence.
LEMMA AppendedIsEvidence ==
  ASSUME NEW evidence, NEW body, IsEvidence(evidence)
  PROVE  IsEvidence(AppendEvent(evidence, body))
<1>1. PICK S :
        /\ \A e \in S : IsRecord(e, EventFields)
        /\ evidence.events \in Seq(S)
        /\ evidence.chain.headSequence \in Nat
        /\ evidence.chain.legacyCount \in Nat
  BY EvidenceParts
<1> DEFINE event == NextEvent(evidence, body)
           T == S \cup {event}
<1>2. /\ IsRecord(event, EventFields)
      /\ event.sequence = evidence.chain.headSequence + 1
      /\ AppendEvent(evidence, body) =
           [events |-> Append(evidence.events, event),
            chain |-> [headSequence |-> event.sequence, headHash |-> event.eventHash,
                       legacyCount |-> evidence.chain.legacyCount]]
  BY Appended
<1> HIDE DEF event
<1>3. \A e \in T : IsRecord(e, EventFields)
  BY <1>1, <1>2
<1>4. Append(evidence.events, event) \in Seq(T)
  BY <1>1
<1>5. event.sequence \in Nat
  BY <1>1, <1>2
<1> HIDE DEF T
<1>6. IsEvidence([events |-> Append(evidence.events, event),
                  chain |-> [headSequence |-> event.sequence, headHash |-> event.eventHash,
                             legacyCount |-> evidence.chain.legacyCount]])
  BY <1>1, <1>3, <1>4, <1>5, EvidenceFrom, Zenon
<1> QED
  BY <1>2, <1>6, Zenon

\* What verifies still does when appendAuditEvent has added an event.
LEMMA AppendVerifies ==
  ASSUME NullIsNoHash, NEW evidence, NEW body, IsEvidence(evidence), Verifies(evidence)
  PROVE  Verifies(AppendEvent(evidence, body))
<1> DEFINE events == evidence.events
           head == evidence.chain.headSequence
           hash == evidence.chain.headHash
           legacy == evidence.chain.legacyCount
           event == NextEvent(evidence, body)
           later == Append(events, event)
           grown == AppendEvent(evidence, body)
<1>1. PICK S : events \in Seq(S) /\ head \in Nat /\ legacy \in Nat
  BY EvidenceParts
<1>2. /\ event.sequence = head + 1
      /\ event.previousHash = IF hash = Null THEN Genesis ELSE hash
      /\ event.eventHash = HashOf(event)
      /\ grown = [events |-> later,
                  chain |-> [headSequence |-> event.sequence, headHash |-> event.eventHash,
                             legacyCount |-> legacy]]
  BY Appended
<1>3. /\ grown.events = later
      /\ grown.chain.headSequence = event.sequence
      /\ grown.chain.headHash = event.eventHash
      /\ grown.chain.legacyCount = legacy
  BY <1>2
<1>4. /\ legacy <= Len(events)
      /\ \A k \in 1 .. legacy : IsLegacy(events[k])
      /\ \A k \in legacy + 1 .. Len(events) : Linked(events, k, legacy)
      /\ HeadMatches(events, evidence.chain, legacy)
  BY DEF Verifies
<1> HIDE DEF event, grown, events, head, hash, legacy
<1>5. /\ Len(events) \in Nat
      /\ Len(later) = Len(events) + 1
      /\ \A k \in 1 .. Len(events) : later[k] = events[k]
      /\ later[Len(events) + 1] = event
  <2>1. events \in Seq(S \cup {event})
    BY <1>1
  <2> QED
    BY <2>1
<1> HIDE DEF later
<1>6. head = Len(events) - legacy
  BY <1>1, <1>4, <1>5 DEF HeadMatches, head
<1>7. event.previousHash = IF Len(events) = legacy THEN Genesis
                           ELSE events[Len(events)].eventHash
  <2>1. CASE Len(events) = legacy
    BY <1>2, <1>4, <2>1 DEF HeadMatches, hash
  <2>2. CASE Len(events) # legacy
    <3>1. hash = events[Len(events)].eventHash
      BY <1>4, <2>2 DEF HeadMatches, hash
    <3>2. Linked(events, Len(events), legacy)
      BY <1>1, <1>4, <1>5, <2>2
    <3>3. hash # Null
      BY <3>1, <3>2 DEF Linked, HashOf, NullIsNoHash
    <3> QED
      BY <1>2, <3>1, <3>3, <2>2
  <2> QED
    BY <2>1, <2>2
<1>8. ASSUME NEW k \in legacy + 1 .. Len(later)
      PROVE  Linked(later, k, legacy)
  <2>1. CASE k \in legacy + 1 .. Len(events)
    <3>1. Linked(events, k, legacy) /\ later[k] = events[k]
      BY <1>1, <1>4, <1>5, <2>1
    <3>2. k # legacy + 1 => later[k - 1] = events[k - 1]
      BY <1>1, <1>5, <2>1
    <3> QED
      BY <3>1, <3>2 DEF Linked, HashOf
  <2>2. CASE k = Len(events) + 1
    <3>1. later[k] = event /\ k - legacy = head + 1
      BY <1>1, <1>5, <1>6, <2>2
    <3>2. event.previousHash = IF k = legacy + 1 THEN Genesis ELSE later[k - 1].eventHash
      BY <1>1, <1>4, <1>5, <1>7, <2>2
    <3> QED
      BY <1>2, <3>1, <3>2 DEF Linked
  <2> QED
    BY <1>1, <1>5, <2>1, <2>2
<1>9. HeadMatches(later, grown.chain, legacy)
  BY <1>1, <1>2, <1>3, <1>4, <1>5, <1>6 DEF HeadMatches
<1>10. \A k \in 1 .. legacy : IsLegacy(later[k])
  BY <1>1, <1>4, <1>5
<1> QED
  BY <1>1, <1>3, <1>4, <1>5, <1>8, <1>9, <1>10 DEF Verifies, grown

\* Nobody having edited the file, it holds what memory holds, and that verifies.
Untampered ==
  ~edited => file = memory /\ IsEvidence(memory) /\ Verifies(memory)

\* The migrated database verifies.
LEMMA InitUntampered == Init => Untampered
<1> SUFFICES ASSUME Init PROVE Untampered
  OBVIOUS
<1> DEFINE old == Unchained(None)
<1>1. /\ file = memory
      /\ memory = [events |-> <<old>>,
                   chain |-> [headSequence |-> 0, headHash |-> Null, legacyCount |-> 1]]
  BY DEF Init, Migrated
<1>2. <<old>> \in Seq({old}) /\ Len(<<old>>) = 1 /\ <<old>>[1] = old
  OBVIOUS
<1>3. IsEvidence(memory)
  <2>1. \A e \in {old} : IsRecord(e, EventFields)
    BY DEF Unchained, IsRecord, EventFields
  <2> HIDE DEF old
  <2> QED
    BY <1>1, <1>2, <2>1, EvidenceFrom
<1>4. IsLegacy(old)
  BY DEF IsLegacy, Unchained
<1>5. Verifies(memory)
  BY <1>1, <1>2, <1>4 DEF Verifies, HeadMatches
<1> QED
  BY <1>1, <1>3, <1>5 DEF Untampered

\* Only RecordEvidence adds to the evidence, and only Edit parts file and memory.
LEMMA StepUntampered ==
  ASSUME NullIsNoHash
  PROVE  Untampered /\ [Next]_vars => Untampered'
<1> SUFFICES ASSUME Untampered, [Next]_vars PROVE Untampered'
  OBVIOUS
<1>1. CASE Serve(Head(queue))
  <2>1. PICK r : r = Head(queue) /\ Serve(r)
    BY <1>1
  <2>2. CASE RecordEvidence(r)
    <3>1. memory' = AppendEvent(memory, r.body) /\ file' = memory' /\ UNCHANGED edited
      BY <2>2 DEF RecordEvidence, Commit
    <3> QED
      BY <3>1, AppendVerifies, AppendedIsEvidence DEF Untampered
  <2>3. CASE ~RecordEvidence(r)
    <3>1. memory' = memory /\ file' = memory' /\ UNCHANGED edited
      BY <2>1, <2>3 DEF Serve, AddMembership, RemoveMembership, Enroll, Revoke, Drain,
         DeleteAgent, Commit
    <3> QED
      BY <3>1 DEF Untampered
  <2> QED
    BY <2>2, <2>3
<1>2. CASE Restart
  BY <1>2 DEF Restart, Untampered
<1>3. CASE Edit
  BY <1>3 DEF Edit, Untampered
<1>4. CASE Fail \/ Tick \/ RequestMembership \/ RequestGrant \/ RequestDeletion \/ UNCHANGED vars
  <2>1. UNCHANGED <<memory, file, edited>>
    BY <1>4 DEF Fail, Tick, RequestMembership, RequestGrant, RequestDeletion, Submit, evidenceVars,
                vars
  <2> QED
    BY <2>1 DEF Untampered
<1> QED
  BY <1>1, <1>2, <1>3, <1>4 DEF Next

\* Where nobody edits the file JsonStore.mutate never refuses: recording evidence,
\* in whatever order, and restarting keep the chain verifying.
THEOREM RecordingNeverSeals ==
  ASSUME NullIsNoHash
  PROVE  Spec => []NoFalseAlarm
<1>1. Untampered => NoFalseAlarm
  BY DEF Untampered, NoFalseAlarm, Intact
<1> QED
  BY <1>1, InitUntampered, StepUntampered, PTL DEF Spec

-----------------------------------------------------------------------------
(* Evidence that was edited.                                               *)

\* A set of numbers that is not empty has a least one.
LEMMA LeastNumber ==
  ASSUME NEW T, T \subseteq Nat, T # {}
  PROVE  \E n \in T : \A m \in T : n <= m
<1>1. PICK n \in T : \A m \in T : ~(<<m, n>> \in OpToRel(<, Nat))
  BY NatLessThanWellFounded, WFMin
<1>2. ASSUME NEW m \in T PROVE n <= m
  <2>1. m \in Nat /\ n \in Nat
    OBVIOUS
  <2>2. m < n => <<m, n>> \in OpToRel(<, Nat)
    BY <2>1 DEF OpToRel
  <2>3. ~(m < n)
    BY <1>1, <2>2, Zenon
  <2> QED
    BY <2>1, <2>3
<1> QED
  BY <1>2

\* Two records of the same fields with the same values are the same.
LEMMA SameRecord ==
  ASSUME NEW a, NEW b, IsRecord(a, EventFields), IsRecord(b, EventFields),
         a.sequence = b.sequence, a.previousHash = b.previousHash,
         a.eventHash = b.eventHash, a.body = b.body
  PROVE  a = b
<1>1. \A field \in EventFields : a[field] = b[field]
  BY DEF EventFields
<1>2. [field \in EventFields |-> a[field]] = [field \in EventFields |-> b[field]]
  BY <1>1
<1> QED
  BY <1>2, Zenon DEF IsRecord

\* verifyAuditChain identifies the events: of evidence that verifies, the hash of
\* the last one and their number fix every one of them.
LEMMA HeadIdentifiesChain ==
  ASSUME NEW a, NEW b, IsEvidence(a), IsEvidence(b), Verifies(a), Verifies(b),
         a.chain.headSequence = b.chain.headSequence,
         a.chain.headHash = b.chain.headHash,
         Len(a.events) = Len(b.events)
  PROVE  ChainedEvents(a) = ChainedEvents(b)
<1> DEFINE s == a.events
           t == b.events
           n == Len(s)
           legacy == a.chain.legacyCount
<1>1. PICK S : /\ \A e \in S : IsRecord(e, EventFields)
               /\ s \in Seq(S) /\ legacy \in Nat
  BY EvidenceParts
<1>2. PICK T : /\ \A e \in T : IsRecord(e, EventFields)
               /\ t \in Seq(T) /\ b.chain.legacyCount \in Nat
  BY EvidenceParts
<1>3. n \in Nat /\ Len(t) = n
  BY <1>1
<1>4. /\ legacy <= n
      /\ \A k \in legacy + 1 .. n : Linked(s, k, legacy)
      /\ HeadMatches(s, a.chain, legacy)
  BY DEF Verifies
<1>5. b.chain.legacyCount = legacy
  <2>1. /\ b.chain.legacyCount <= n
        /\ HeadMatches(t, b.chain, b.chain.legacyCount)
    BY <1>3 DEF Verifies
  <2>2. a.chain.headSequence = n - legacy
    BY <1>1, <1>3, <1>4 DEF HeadMatches
  <2>3. b.chain.headSequence = n - b.chain.legacyCount
    BY <1>2, <1>3, <2>1 DEF HeadMatches
  <2> HIDE DEF n, legacy
  <2>4. n - legacy = n - b.chain.legacyCount
    BY <2>2, <2>3, Zenon
  <2> QED
    BY <1>1, <1>2, <1>3, <2>4
<1>6. /\ \A k \in legacy + 1 .. n : Linked(t, k, legacy)
      /\ HeadMatches(t, b.chain, legacy)
  BY <1>3, <1>5 DEF Verifies
<1>7. n # legacy => s[n].eventHash = t[n].eventHash
  BY <1>3, <1>4, <1>6 DEF HeadMatches
<1> HIDE DEF s, t, n, legacy
<1>8. ASSUME NEW k \in legacy + 1 .. n, s[k].eventHash = t[k].eventHash
      PROVE  /\ s[k] = t[k]
             /\ k # legacy + 1 => s[k - 1].eventHash = t[k - 1].eventHash
  <2>1. Linked(s, k, legacy) /\ Linked(t, k, legacy)
    BY <1>4, <1>6
  <2>2. HashOf(s[k]) = HashOf(t[k])
    BY <1>8, <2>1 DEF Linked
  <2>3. /\ s[k].sequence = t[k].sequence
        /\ s[k].previousHash = t[k].previousHash
        /\ s[k].body = t[k].body
    BY <2>2 DEF HashOf
  <2>4. s[k] \in S /\ t[k] \in T
    BY <1>1, <1>2, <1>3 DEF n
  <2>5. s[k] = t[k]
    BY <1>1, <1>2, <1>8, <2>3, <2>4, SameRecord
  <2>6. k # legacy + 1 => s[k - 1].eventHash = t[k - 1].eventHash
    BY <2>1, <2>3 DEF Linked
  <2> QED
    BY <2>5, <2>6
<1>9. \A k \in legacy + 1 .. n : s[k].eventHash = t[k].eventHash
  <2> DEFINE Differ == {d \in Nat : /\ d < n - legacy
                                    /\ s[n - d].eventHash # t[n - d].eventHash}
  <2>1. SUFFICES Differ = {}
    <3>1. ASSUME NEW k \in legacy + 1 .. n
          PROVE  n - k \in Nat /\ n - k < n - legacy /\ n - (n - k) = k
      BY <1>1, <1>3
    <3> QED
      BY <2>1, <3>1
  <2>2. SUFFICES ASSUME Differ # {} PROVE FALSE
    OBVIOUS
  <2>3. PICK d \in Differ : \A m \in Differ : d <= m
    BY <2>2, LeastNumber
  <2>4. d \in Nat /\ d < n - legacy /\ s[n - d].eventHash # t[n - d].eventHash
    OBVIOUS
  <2>5. d # 0
    BY <1>1, <1>3, <1>7, <2>4
  <2>6. d - 1 \in Nat /\ d - 1 < n - legacy
    BY <1>1, <1>3, <2>4, <2>5
  <2>7. s[n - (d - 1)].eventHash = t[n - (d - 1)].eventHash
    <3>1. d - 1 \notin Differ
      <4> HIDE DEF Differ
      <4> QED
        BY <2>3, <2>4
    <3> QED
      BY <2>6, <3>1
  <2> DEFINE k == n - (d - 1)
  <2>8. k \in legacy + 1 .. n /\ k # legacy + 1 /\ k - 1 = n - d
    BY <1>1, <1>3, <2>4, <2>5
  <2> HIDE DEF k, Differ
  <2>9. s[k - 1].eventHash = t[k - 1].eventHash
    BY <1>8, <2>7, <2>8 DEF k
  <2> QED
    BY <2>4, <2>8, <2>9
<1>10. \A k \in legacy + 1 .. n : s[k] = t[k] /\ s[k] \in S
  BY <1>1, <1>3, <1>8, <1>9 DEF n
<1>11. SubSeq(s, legacy + 1, n) = SubSeq(t, legacy + 1, n)
  <2> DEFINE u == SubSeq(s, legacy + 1, n)
             v == SubSeq(t, legacy + 1, n)
  <2>1. /\ u \in Seq(S) /\ Len(u) = IF legacy + 1 <= n THEN n - (legacy + 1) + 1 ELSE 0
        /\ \A i \in 1 .. n - (legacy + 1) + 1 : u[i] = s[legacy + 1 + i - 1]
    BY <1>1, <1>3, <1>10, SubSeqProperties
  <2>2. /\ v \in Seq(S) /\ Len(v) = IF legacy + 1 <= n THEN n - (legacy + 1) + 1 ELSE 0
        /\ \A i \in 1 .. n - (legacy + 1) + 1 : v[i] = t[legacy + 1 + i - 1]
    BY <1>1, <1>3, <1>10, SubSeqProperties
  <2> HIDE DEF u, v
  <2>3. \A i \in 1 .. Len(u) : u[i] = v[i]
    <3> SUFFICES ASSUME NEW i \in 1 .. Len(u) PROVE u[i] = v[i]
      OBVIOUS
    <3>1. i \in 1 .. n - (legacy + 1) + 1 /\ legacy + 1 + i - 1 \in legacy + 1 .. n
      BY <1>1, <1>3, <2>1
    <3> QED
      BY <1>10, <2>1, <2>2, <3>1
  <2>4. u = v
    BY <2>1, <2>2, <2>3, SeqEqual
  <2> QED
    BY <2>4 DEF u, v
<1> QED
  BY <1>3, <1>5, <1>11 DEF ChainedEvents, s, t, n, legacy

\* Evidence with other events, and so many of them legacy.
LEMMA OtherEvents ==
  ASSUME NEW evidence, IsEvidence(evidence),
         NEW S, \A e \in S : IsRecord(e, EventFields),
         NEW events \in Seq(S), NEW legacy \in Nat
  PROVE  /\ IsEvidence([evidence EXCEPT !.events = events])
         /\ IsEvidence([events |-> events,
                        chain |-> [evidence.chain EXCEPT !.legacyCount = legacy]])
<1> DEFINE head == evidence.chain.headSequence
           hash == evidence.chain.headHash
           old == evidence.chain.legacyCount
<1>1. /\ head \in Nat /\ old \in Nat
      /\ evidence = [events |-> evidence.events,
                     chain |-> [headSequence |-> head, headHash |-> hash, legacyCount |-> old]]
  BY EvidenceParts
<1> HIDE DEF head, hash, old
<1>2. [evidence EXCEPT !.events = events] =
        [events |-> events,
         chain |-> [headSequence |-> head, headHash |-> hash, legacyCount |-> old]]
  BY <1>1
<1>3. [evidence.chain EXCEPT !.legacyCount = legacy] =
        [headSequence |-> head, headHash |-> hash, legacyCount |-> legacy]
  BY <1>1
<1>4. IsEvidence([events |-> events,
                  chain |-> [headSequence |-> head, headHash |-> hash, legacyCount |-> old]])
  BY <1>1, EvidenceFrom, Zenon
<1>5. IsEvidence([events |-> events,
                  chain |-> [headSequence |-> head, headHash |-> hash, legacyCount |-> legacy]])
  BY <1>1, EvidenceFrom, Zenon
<1> QED
  BY <1>2, <1>3, <1>4, <1>5, Zenon

\* A function that records these bodies one after the other, up to the n-th.
Afresh(f, base, bodies, legacy, n) ==
  f = [k \in 0 .. n |-> IF k <= legacy THEN base ELSE AppendEvent(f[k - 1], bodies[k])]

\* The recursion by which a chain is recorded afresh ends: there is such a function.
LEMMA RecordedAfresh ==
  ASSUME NEW base, NEW bodies, NEW legacy \in Nat, NEW n \in Nat
  PROVE  \E f : Afresh(f, base, bodies, legacy, n)
<1> DEFINE Defined(m) == \E f : Afresh(f, base, bodies, legacy, m)
           Missing == {m \in Nat : ~Defined(m)}
<1>1. SUFFICES ASSUME Missing # {} PROVE FALSE
  OBVIOUS
<1>2. PICK m \in Missing : \A l \in Missing : m <= l
  BY <1>1, LeastNumber
<1>3. m \in Nat /\ ~Defined(m)
  OBVIOUS
<1> HIDE DEF Defined, Missing
<1>4. CASE m = 0
  <2> DEFINE f == [k \in 0 .. 0 |-> base]
  <2>1. f = [k \in 0 .. 0 |-> IF k <= legacy THEN base ELSE AppendEvent(f[k - 1], bodies[k])]
    <3>1. \A k \in 0 .. 0 : k <= legacy
      OBVIOUS
    <3> QED
      BY <3>1, Zenon
  <2>2. Defined(0)
    BY <2>1, Zenon DEF Defined, Afresh
  <2> QED
    BY <1>3, <1>4, <2>2
<1>5. CASE m # 0
  <2>1. m - 1 \in Nat /\ m - 1 \notin Missing
    <3>1. m - 1 \in Nat /\ ~(m <= m - 1)
      BY <1>3, <1>5
    <3> QED
      BY <1>2, <3>1
  <2>2. Defined(m - 1)
    BY <2>1, Zenon DEF Missing
  <2>3. PICK f : f = [k \in 0 .. m - 1 |-> IF k <= legacy THEN base
                                           ELSE AppendEvent(f[k - 1], bodies[k])]
    BY <2>2, Zenon DEF Defined, Afresh
  <2> DEFINE last == IF m <= legacy THEN base ELSE AppendEvent(f[m - 1], bodies[m])
             g == [k \in 0 .. m |-> IF k = m THEN last ELSE f[k]]
  <2>4. ASSUME NEW k \in 0 .. m
        PROVE  g[k] = IF k <= legacy THEN base ELSE AppendEvent(g[k - 1], bodies[k])
    <3>1. CASE k = m
      <4>1. g[k] = last
        BY <3>1
      <4>2. m - 1 \in 0 .. m /\ m - 1 # m
        BY <1>3, <2>1
      <4>3. g[m - 1] = f[m - 1]
        BY <4>2, Zenon
      <4> HIDE DEF g
      <4> QED
        BY <3>1, <4>1, <4>3, Zenon
    <3>2. CASE k # m
      <4>1. k \in 0 .. m - 1
        BY <1>3, <3>2
      <4>2. g[k] = f[k]
        BY <3>2, Zenon
      <4>3. f[k] = IF k <= legacy THEN base ELSE AppendEvent(f[k - 1], bodies[k])
        BY <2>3, <4>1, Zenon
      <4>4. ~(k <= legacy) => k - 1 \in 0 .. m /\ k - 1 # m
        BY <1>3, <4>1
      <4>5. ~(k <= legacy) => g[k - 1] = f[k - 1]
        BY <4>4, Zenon
      <4> HIDE DEF g
      <4> QED
        BY <4>2, <4>3, <4>5, Zenon
    <3> QED
      BY <3>1, <3>2
  <2>5. g = [k \in 0 .. m |-> IF k <= legacy THEN base ELSE AppendEvent(g[k - 1], bodies[k])]
    <3>1. g = [k \in 0 .. m |-> g[k]]
      BY Zenon
    <3> HIDE DEF g
    <3> QED
      BY <2>4, <3>1, Zenon
  <2>6. Defined(m)
    <3> HIDE DEF g
    <3> QED
      BY <2>5, Zenon DEF Defined, Afresh
  <2> QED
    BY <1>3, <2>6
<1> QED
  BY <1>4, <1>5

\* Evidence that was recorded afresh is evidence.
LEMMA RewrittenIsEvidence ==
  ASSUME NEW evidence, IsEvidence(evidence), NEW i,
         evidence.chain.legacyCount <= Len(evidence.events)
  PROVE  IsEvidence(Rewritten(evidence, i))
<1> DEFINE events == evidence.events
           n == Len(events)
           legacy == evidence.chain.legacyCount
           base == Migrated(SubSeq(events, 1, legacy))
           bodies == [k \in 0 .. n |-> IF k = i THEN Forged ELSE events[k].body]
           upTo[k \in 0 .. n] ==
             IF k <= legacy THEN base
             ELSE AppendEvent(upTo[k - 1], IF k = i THEN Forged ELSE events[k].body)
<1>1. Rewritten(evidence, i) = upTo[n]
  BY DEF Rewritten
<1>2. PICK S : /\ \A e \in S : IsRecord(e, EventFields)
               /\ events \in Seq(S) /\ legacy \in Nat
  BY EvidenceParts
<1>3. n \in Nat /\ legacy <= n
  BY <1>2
<1>4. IsEvidence(base)
  <2> DEFINE old == SubSeq(events, 1, legacy)
  <2>1. \A k \in 1 .. legacy : events[k] \in S
    BY <1>2, <1>3
  <2>2. old \in Seq(S) /\ Len(old) \in Nat
    <3>1. old \in Seq(S)
      BY <1>2, <2>1, SubSeqProperties
    <3> QED
      BY <3>1
  <2> HIDE DEF old
  <2>3. IsEvidence([events |-> old,
                    chain |-> [headSequence |-> 0, headHash |-> Null, legacyCount |-> Len(old)]])
    <3>1. 0 \in Nat
      OBVIOUS
    <3> QED
      BY <1>2, <2>2, <3>1, EvidenceFrom, Zenon
  <2> QED
    BY <2>3, Zenon DEF Migrated, old
<1> HIDE DEF base, events, n, legacy
<1>5. PICK f : Afresh(f, base, bodies, legacy, n)
  <2>1. legacy \in Nat /\ n \in Nat
    BY <1>2, <1>3
  <2> HIDE DEF bodies, upTo
  <2> QED
    BY <2>1, RecordedAfresh
<1>6. f = [k \in 0 .. n |->
             IF k <= legacy THEN base
             ELSE AppendEvent(f[k - 1], IF k = i THEN Forged ELSE events[k].body)]
  <2>1. \A k \in 0 .. n : bodies[k] = IF k = i THEN Forged ELSE events[k].body
    BY Zenon
  <2> HIDE DEF bodies, upTo
  <2> QED
    BY <1>5, <2>1, Zenon DEF Afresh
<1>7. \A k \in 0 .. n : upTo[k] =
        IF k <= legacy THEN base
        ELSE AppendEvent(upTo[k - 1], IF k = i THEN Forged ELSE events[k].body)
  <2>1. upTo = [k \in 0 .. n |->
                  IF k <= legacy THEN base
                  ELSE AppendEvent(upTo[k - 1], IF k = i THEN Forged ELSE events[k].body)]
    BY <1>6, Zenon
  <2> HIDE DEF upTo
  <2> QED
    BY <2>1, Zenon
<1> HIDE DEF upTo
<1>8. \A k \in 0 .. n : IsEvidence(upTo[k])
  <2> DEFINE Other == {k \in 0 .. n : ~IsEvidence(upTo[k])}
  <2> SUFFICES ASSUME Other # {} PROVE FALSE
    OBVIOUS
  <2>1. PICK k \in Other : \A m \in Other : k <= m
    <3>1. Other \subseteq Nat
      BY <1>3
    <3> HIDE DEF Other
    <3> QED
      BY <3>1, LeastNumber
  <2>2. k \in 0 .. n /\ ~IsEvidence(upTo[k])
    OBVIOUS
  <2>3. ~(k <= legacy)
    BY <1>4, <1>7, <2>2
  <2>4. k - 1 \in 0 .. n /\ ~(k <= k - 1)
    BY <1>2, <1>3, <2>2, <2>3
  <2>5. k - 1 \notin Other
    <3> HIDE DEF Other
    <3> QED
      BY <2>1, <2>4
  <2>6. IsEvidence(upTo[k - 1])
    BY <2>4, <2>5, Zenon
  <2>7. IsEvidence(AppendEvent(upTo[k - 1], IF k = i THEN Forged ELSE events[k].body))
    BY <2>6, AppendedIsEvidence, Zenon
  <2> QED
    BY <1>7, <2>2, <2>3, <2>7, Zenon
<1>9. n \in 0 .. n
  BY <1>3
<1> QED
  BY <1>1, <1>8, <1>9, Zenon

\* Whatever is done to evidence, it stays a list of events and the state of a chain.
LEMMA DamagedIsEvidence ==
  ASSUME NEW evidence, IsEvidence(evidence),
         evidence.chain.legacyCount <= Len(evidence.events),
         NEW i \in DOMAIN evidence.events, NEW damaged \in Damaged(evidence, i)
  PROVE  IsEvidence(damaged)
<1> DEFINE events == evidence.events
           last == Len(events)
           legacy == evidence.chain.legacyCount
<1>1. PICK S : /\ \A e \in S : IsRecord(e, EventFields)
               /\ events \in Seq(S) /\ legacy \in Nat
  BY EvidenceParts
<1>2. last \in Nat /\ DOMAIN events = 1 .. last /\ legacy <= last
  BY <1>1
<1>3. ASSUME NEW e, IsRecord(e, EventFields)
      PROVE  /\ IsRecord(Reworded(e), EventFields)
             /\ IsRecord(Hashed(e), EventFields)
             /\ IsRecord(Unchained(e.body), EventFields)
  <2>1. IsRecord(Unchained(e.body), EventFields)
    BY DEF Unchained, IsRecord, EventFields
  <2>2. DOMAIN e = EventFields
    BY <1>3 DEF IsRecord
  <2>3. IsRecord(Reworded(e), EventFields)
    BY <2>2 DEF Reworded, IsRecord
  <2>4. IsRecord(Hashed(e), EventFields)
    BY <2>2 DEF Hashed, IsRecord
  <2> QED
    BY <2>1, <2>3, <2>4
<1>4. ASSUME NEW e, IsRecord(e, EventFields)
      PROVE  /\ \A x \in S \cup {e} : IsRecord(x, EventFields)
             /\ [events EXCEPT ![i] = e] \in Seq(S \cup {e})
  <2>1. \A x \in S \cup {e} : IsRecord(x, EventFields)
    BY <1>1, <1>4
  <2>2. events \in Seq(S \cup {e}) /\ e \in S \cup {e} /\ i \in 1 .. Len(events)
    BY <1>1
  <2> HIDE DEF events
  <2> QED
    BY <2>1, <2>2, ExceptSeq
<1>5. IsRecord(events[i], EventFields)
  BY <1>1, <1>2
<1>6. IsEvidence([evidence EXCEPT !.events = Cut(events, i)])
  <2>1. /\ \A k \in 1 .. i - 1 : events[k] \in S
        /\ \A k \in i + 1 .. last : events[k] \in S
    BY <1>1, <1>2
  <2>2. SubSeq(events, 1, i - 1) \in Seq(S) /\ SubSeq(events, i + 1, last) \in Seq(S)
    BY <1>2, <2>1, SubSeqProperties
  <2>3. Cut(events, i) \in Seq(S)
    BY <2>2, ConcatProperties DEF Cut
  <2> QED
    BY <1>1, <2>3, OtherEvents
<1>7. ASSUME NEW e, IsRecord(e, EventFields), NEW new \in Nat
      PROVE  /\ IsEvidence([evidence EXCEPT !.events = [events EXCEPT ![i] = e]])
             /\ IsEvidence([events |-> [events EXCEPT ![i] = e],
                            chain |-> [evidence.chain EXCEPT !.legacyCount = new]])
  BY <1>4, <1>7, OtherEvents
<1>8. /\ IsEvidence([evidence EXCEPT !.events = [events EXCEPT ![i] = Reworded(@)]])
      /\ IsEvidence([evidence EXCEPT !.events = [events EXCEPT ![i] = Hashed(Reworded(@))]])
      /\ IsEvidence([events |-> [events EXCEPT ![i] = Unchained(@.body)],
                     chain |-> [evidence.chain EXCEPT !.legacyCount = @ + 1]])
  <2>1. legacy + 1 \in Nat
    BY <1>1
  <2>2. IsRecord(Hashed(Reworded(events[i])), EventFields)
    BY <1>3, <1>5
  <2> QED
    BY <1>3, <1>5, <1>7, <2>1, <2>2
<1> DEFINE short == [evidence EXCEPT !.events = SubSeq(events, 1, i - 1)]
<1>9. ASSUME i = last, i # legacy
      PROVE  IsEvidence(Rewritten(short, i))
  <2>1. last - 1 \in Nat /\ legacy <= last - 1 /\ \A k \in 1 .. last - 1 : events[k] \in S
    BY <1>1, <1>2, <1>9
  <2>2. /\ SubSeq(events, 1, last - 1) \in Seq(S)
        /\ Len(SubSeq(events, 1, last - 1)) = last - 1
    BY <1>1, <1>2, <2>1, SubSeqProperties
  <2>3. IsEvidence(short)
    BY <1>1, <1>9, <2>2, OtherEvents
  <2>4. short.events = SubSeq(events, 1, last - 1) /\ short.chain.legacyCount = legacy
    BY <1>9, EvidenceParts
  <2> HIDE DEF short
  <2> QED
    BY <2>1, <2>2, <2>3, <2>4, RewrittenIsEvidence
<1>10. IsEvidence(Rewritten(evidence, i))
  BY RewrittenIsEvidence
<1>11. \/ damaged \in {[evidence EXCEPT !.events = Cut(events, i)],
                      [evidence EXCEPT !.events = [events EXCEPT ![i] = Reworded(@)]],
                      [evidence EXCEPT !.events = [events EXCEPT ![i] = Hashed(Reworded(@))]],
                      [events |-> [events EXCEPT ![i] = Unchained(@.body)],
                       chain |-> [evidence.chain EXCEPT !.legacyCount = @ + 1]],
                      Rewritten(evidence, i)}
       \/ i = last /\ i # legacy /\ damaged = Rewritten(short, i)
  BY DEF Damaged
<1> QED
  BY <1>6, <1>8, <1>9, <1>10, <1>11

\* The file and memory are evidence, whatever was done to the file.
AreEvidence == IsEvidence(file) /\ IsEvidence(memory)

\* Only RecordEvidence, Restart and Edit change the evidence.
LEMMA StepAreEvidence == Untampered /\ AreEvidence /\ [Next]_vars => AreEvidence'
<1> SUFFICES ASSUME Untampered, AreEvidence, [Next]_vars PROVE AreEvidence'
  OBVIOUS
<1>1. CASE Serve(Head(queue))
  <2>1. PICK r : r = Head(queue) /\ Serve(r)
    BY <1>1
  <2>2. CASE RecordEvidence(r)
    <3>1. memory' = AppendEvent(memory, r.body) /\ file' = memory'
      BY <2>2 DEF RecordEvidence, Commit
    <3> QED
      BY <3>1, AppendedIsEvidence DEF AreEvidence
  <2>3. CASE ~RecordEvidence(r)
    <3>1. memory' = memory /\ file' = memory'
      BY <2>1, <2>3 DEF Serve, AddMembership, RemoveMembership, Enroll, Revoke, Drain,
         DeleteAgent, Commit
    <3> QED
      BY <3>1 DEF AreEvidence
  <2> QED
    BY <2>2, <2>3
<1>2. CASE Restart
  BY <1>2 DEF Restart, AreEvidence
<1>3. CASE Edit
  <2>1. PICK i \in DOMAIN file.events : file' \in Damaged(file, i)
    BY <1>3 DEF Edit
  <2>2. file.chain.legacyCount <= Len(file.events) /\ UNCHANGED memory
    BY <1>3 DEF Edit, Untampered, Verifies
  <2> QED
    BY <2>1, <2>2, DamagedIsEvidence DEF AreEvidence
<1>4. CASE Fail \/ Tick \/ RequestMembership \/ RequestGrant \/ RequestDeletion \/ UNCHANGED vars
  <2>1. UNCHANGED <<memory, file>>
    BY <1>4 DEF Fail, Tick, RequestMembership, RequestGrant, RequestDeletion, Submit, evidenceVars,
                vars
  <2> QED
    BY <2>1 DEF AreEvidence
<1> QED
  BY <1>1, <1>2, <1>3, <1>4 DEF Next

\* Until a start adopts an edited chain, memory has what was recorded, and so has
\* a file nobody edited; or memory has an edited file that stops the store.
Remembered ==
  \/ adopted
  \/ memory = recorded /\ (edited \/ file = recorded)
  \/ edited /\ memory = file /\ ~Verifies(file)

LEMMA StepRemembered == Untampered /\ Remembered /\ [Next]_vars => Remembered'
<1> SUFFICES ASSUME Untampered, Remembered, [Next]_vars PROVE Remembered'
  OBVIOUS
<1>1. CASE Serve(Head(queue))
  <2>1. PICK r : r = Head(queue) /\ Serve(r)
    BY <1>1
  <2>2. Intact /\ file' = memory' /\ UNCHANGED <<edited, adopted>>
    BY <2>1 DEF Serve, AddMembership, RemoveMembership, Enroll, Revoke, Drain, DeleteAgent,
       RecordEvidence, Commit
  <2>3. adopted \/ memory = recorded
    BY <2>2 DEF Remembered, Intact
  <2>4. CASE RecordEvidence(r)
    <3>1. memory' = AppendEvent(memory, r.body) /\ recorded' = AppendEvent(recorded, r.body)
      BY <2>4 DEF RecordEvidence, Commit
    <3> QED
      BY <2>2, <2>3, <3>1 DEF Remembered
  <2>5. CASE ~RecordEvidence(r)
    <3>1. memory' = memory /\ recorded' = recorded
      BY <2>1, <2>5 DEF Serve, AddMembership, RemoveMembership, Enroll, Revoke, Drain,
         DeleteAgent, Commit
    <3> QED
      BY <2>2, <2>3, <3>1 DEF Remembered
  <2> QED
    BY <2>4, <2>5
<1>2. CASE Restart
  <2>1. /\ memory' = file /\ UNCHANGED <<file, edited, recorded>>
        /\ adopted' = (adopted \/ (edited /\ Verifies(file)))
    BY <1>2 DEF Restart
  <2>2. CASE adopted'
    BY <2>2 DEF Remembered
  <2>3. CASE ~adopted'
    <3>1. ~adopted /\ (edited => ~Verifies(file))
      BY <2>1, <2>3
    <3>2. CASE edited
      BY <2>1, <3>1, <3>2 DEF Remembered, Verifies
    <3>3. CASE ~edited
      BY <2>1, <3>1, <3>3 DEF Remembered
    <3> QED
      BY <3>2, <3>3
  <2> QED
    BY <2>2, <2>3
<1>3. CASE Edit
  <2>1. ~edited /\ edited' /\ UNCHANGED <<memory, recorded, adopted>>
    BY <1>3 DEF Edit
  <2> QED
    BY <2>1 DEF Remembered
<1>4. CASE Fail \/ Tick \/ RequestMembership \/ RequestGrant \/ RequestDeletion \/ UNCHANGED vars
  <2>1. UNCHANGED <<memory, file, edited, recorded, adopted>>
    BY <1>4 DEF Fail, Tick, RequestMembership, RequestGrant, RequestDeletion, Submit,
       evidenceVars, vars
  <2> QED
    BY <2>1 DEF Remembered, Verifies
<1> QED
  BY <1>1, <1>2, <1>3, <1>4 DEF Next

\* A running store accepts nothing but the chained events it recorded, however many
\* there are and whatever was done to the file; a start adopts another chain only
\* if that verifies by itself, and no chain that does not verify is ever accepted;
\* and the store accepts what nobody edited.
THEOREM EditsAreSeen ==
  ASSUME NullIsNoHash
  PROVE  Spec => []DamageIsSeen
<1>1. Init => AreEvidence /\ Remembered
  BY InitUntampered DEF Untampered, AreEvidence, Remembered, Init
<1>2. ASSUME AreEvidence, Remembered, Intact, ~adopted
      PROVE  ChainedEvents(file) = ChainedEvents(recorded)
  <2>1. memory = recorded
    BY <1>2 DEF Remembered, Intact
  <2>2. ChainedEvents(file) = ChainedEvents(memory)
    BY <1>2, HeadIdentifiesChain DEF AreEvidence, Intact
  <2> QED
    BY <2>1, <2>2
<1>3. Untampered => NoFalseAlarm
  BY DEF Untampered, NoFalseAlarm, Intact
<1>4. Untampered /\ AreEvidence /\ Remembered => DamageIsSeen
  BY <1>2, <1>3 DEF DamageIsSeen
<1> QED
  BY <1>1, <1>4, InitUntampered, StepUntampered, StepAreEvidence, StepRemembered, PTL DEF Spec
=============================================================================
