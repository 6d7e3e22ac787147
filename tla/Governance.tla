----------------------------- MODULE Governance -----------------------------
(***************************************************************************)
(* Who may do what: TeamMembershipService, AgentTeamGrantService and the   *)
(* deletion of an agent change it, the policy and the risk engine read it, *)
(* and AuditService records the changes of grants in a chain of evidence.  *)
(*                                                                         *)
(* A request has passed the checks against the snapshot when its mutation  *)
(* joins the queue of the store; the checks are made again when its turn   *)
(* comes.  The writes a request makes after its first join the queue when  *)
(* it has been committed.  The file holds the evidence; the rest of the    *)
(* database is written with it and not told apart.  What a revocation does *)
(* to runs and claims is in Gateway; here it is a write that may fail.     *)
(***************************************************************************)
EXTENDS Policy, AuditChain, FiniteSets

CONSTANTS
  Humans,
  Agents,
  Owner,           \* whose agent it is
  FirstMembers,    \* the memberships the database is seeded with
  Files,           \* the team files
  ContentRequests, \* requests for content and deployments the policy may see
  AskedRoles,      \* roles a membership may ask for
  AskedTerms,      \* roles and expiries an enrolment may ask for
  Forged,          \* evidence nobody recorded
  MaxTime,         \* bound on the clock
  MaxEnrolments,   \* bound on enrolments
  MaxWaiting       \* bound on requests in the queue

IsRecord(r, fields) == r = [field \in fields |-> r[field]]

\* The same destination, as exposed as there can be.
Exposed(d) == [d EXCEPT !.audience = "external", !.reach = "broad"]

RequestFields ==
  {"human", "agent", "resource", "action", "memberships", "grants", "scopes", "binding",
   "destination", "registered"}

DestinationFields ==
  {"id", "status", "tenant", "actions", "purposes", "classification", "environment",
   "audience", "reach", "region"}

ASSUME GovernanceAssumption ==
  /\ None \notin Humans \cup Agents \cup Teams \cup Roles
  /\ Null \notin Nat
  /\ Owner \in [Agents -> Humans]
  /\ FirstMembers \in [Teams -> [Humans -> Roles \cup {None}]]
  /\ \A t \in Teams : \E h \in Humans : FirstMembers[t][h] = "admin"
  /\ Files \subseteq [type : {"team_file"}, owner : {None}, team : Teams,
                      classification : {"internal", "restricted"}, minimumRole : Roles]
  /\ \A q \in ContentRequests :
       /\ IsRecord(q, RequestFields)
       /\ q.resource.type # "team_file"
       /\ q.registered # None =>
            /\ IsRecord(q.registered, DestinationFields)
            /\ Exposed(q.registered) # None
            /\ q.action \in ContentActions
            /\ q.destination # None
  /\ AskedRoles \subseteq Roles
  /\ AskedTerms \subseteq [role : Roles, expiresAt : Nat \cup {None}]
  /\ {MaxTime, MaxEnrolments, MaxWaiting} \subseteq Nat

VARIABLES
  agents,   \* those that have not been deleted
  role,     \* of each human in each team, or None
  grants,   \* the enrolments, oldest first
  time,
  queue,    \* mutations that wait for their turn
  memory,   \* the evidence in this.data
  file,     \* the evidence on disk
  edited,   \* the file has been changed from outside
  recorded, \* the evidence as the store has recorded it, whatever became of it
  adopted   \* a start has loaded edited evidence that verifies by itself

evidenceVars == <<memory, file, edited, recorded, adopted>>

vars == <<agents, role, grants, time, queue, evidenceVars>>

-----------------------------------------------------------------------------
(* Requests, and what is checked of them before and at their turn.         *)

Enrolments ==
  [agent : Agents, team : Teams, role : Roles, actions : SUBSET GrantActions,
   status : {"active", "revoked"}, expiresAt : Nat \cup {None}, bundleVersion : Nat \ {0}]

Evidence == [event : {"enrolled", "revoked"}, grant : Nat]

IsAdmin(h, t) == role[t][h] = "admin"

Adding == [kind : {"add"}, actor : Humans, member : Humans, team : Teams, role : Roles]
Removing == [kind : {"remove"}, actor : Humans, member : Humans, team : Teams]
Enrolling == [kind : {"enroll"}, actor : Humans, agent : Agents, team : Teams,
              role : Roles, expiresAt : Nat \cup {None}]
Revoking == [kind : {"revoke"}, actor : Humans, grant : Nat]
Draining == [kind : {"drain"}, grant : Nat, changed : BOOLEAN]
Recording == [kind : {"record"}, body : Evidence]
Deleting == [kind : {"delete"}, agent : Agents]

Mutation == Adding \cup Removing \cup Enrolling \cup Revoking \cup Draining
              \cup Recording \cup Deleting

\* Another human than this one is an administrator of the team.
AnotherAdmin(h, t) == \E other \in Humans \ {h} : IsAdmin(other, t)

IsActive(g, agent, team) == g.agent = agent /\ g.team = team /\ g.status = "active"

SameTeam(g, h) == g.agent = h.agent /\ g.team = h.team

\* No version occurs twice, an agent is enrolled at most once in a team, and is
\* still there.
ValidGrantSet ==
  /\ \A i, j \in DOMAIN grants :
       i # j /\ SameTeam(grants[i], grants[j]) =>
         /\ grants[i].bundleVersion # grants[j].bundleVersion
         /\ grants[i].status = "revoked" \/ grants[j].status = "revoked"
  /\ \A i \in DOMAIN grants : grants[i].status = "active" => grants[i].agent \in agents

MayEnroll(r) ==
  /\ r.agent \in agents
  /\ Owner[r.agent] = r.actor
  /\ IsAdmin(r.actor, r.team)

MayRevoke(r) ==
  /\ r.grant \in DOMAIN grants
  /\ LET g == grants[r.grant]
     IN  g.agent \in agents /\ Owner[g.agent] = r.actor /\ IsAdmin(r.actor, g.team)

\* Variant: a team may lose its last administrator.
MayRemoveAny(r) == IsAdmin(r.actor, r.team) /\ role[r.team][r.member] # None

MayRemove(r) ==
  /\ IsAdmin(r.actor, r.team)
  /\ role[r.team][r.member] # None
  /\ IsAdmin(r.member, r.team) => AnotherAdmin(r.member, r.team)

-----------------------------------------------------------------------------
(* The store lets nothing through once the evidence is damaged.            *)

Intact ==
  /\ Verifies(file)
  /\ Verifies(memory)
  /\ file.chain.headSequence = memory.chain.headSequence
  /\ file.chain.headHash = memory.chain.headHash
  /\ Len(file.events) = Len(memory.events)

\* The first in the queue is committed, with what it asks for afterwards.
Commit(r, evidence, afterwards) ==
  /\ queue # <<>>
  /\ r = Head(queue)
  /\ Intact
  /\ queue' = Tail(queue) \o afterwards
  /\ memory' = evidence
  /\ file' = evidence
  /\ UNCHANGED <<time, edited, adopted>>

AddMembership(r) ==
  /\ r \in Adding
  /\ IsAdmin(r.actor, r.team)
  /\ role[r.team][r.member] = None
  /\ role' = [role EXCEPT ![r.team][r.member] = r.role]
  /\ Commit(r, memory, <<>>)
  /\ UNCHANGED <<agents, grants, recorded>>

RemoveMembership(r) ==
  /\ r \in Removing
  /\ MayRemove(r)
  /\ role' = [role EXCEPT ![r.team][r.member] = None]
  /\ Commit(r, memory, <<>>)
  /\ UNCHANGED <<agents, grants, recorded>>

Record(event, i) ==
  [kind |-> "record", body |-> [event |-> event, grant |-> i]]

EnrolmentsOf(agent, team) ==
  {i \in DOMAIN grants : grants[i].agent = agent /\ grants[i].team = team}

\* One more than the highest there has been.
IsNextVersion(agent, team, version) ==
  LET versions == {grants[i].bundleVersion : i \in EnrolmentsOf(agent, team)}
  IN  /\ \A v \in versions : v < version
      /\ version = 1 \/ version - 1 \in versions

Enroll(r) ==
  /\ r \in Enrolling
  /\ MayEnroll(r)
  /\ \A i \in DOMAIN grants : ~IsActive(grants[i], r.agent, r.team)
  /\ \E version \in 1 .. Len(grants) + 1 :
       /\ IsNextVersion(r.agent, r.team, version)
       /\ grants' = Append(grants,
            [agent |-> r.agent, team |-> r.team, role |-> r.role,
             actions |-> {"file.read"}, status |-> "active",
             expiresAt |-> r.expiresAt, bundleVersion |-> version])
  /\ Commit(r, memory, <<Record("enrolled", Len(grants) + 1)>>)
  /\ UNCHANGED <<agents, role, recorded>>

\* A grant that is no longer active is revoked once more to no effect, but its
\* claims are drained again.
Revoke(r) ==
  /\ r \in Revoking
  /\ MayRevoke(r)
  /\ grants' = [grants EXCEPT ![r.grant].status = "revoked"]
  /\ Commit(r, memory,
       <<[kind |-> "drain", grant |-> r.grant,
          changed |-> grants[r.grant].status = "active"]>>)
  /\ UNCHANGED <<agents, role, recorded>>

Drain(r) ==
  /\ r \in Draining
  /\ Commit(r, memory, IF r.changed THEN <<Record("revoked", r.grant)>> ELSE <<>>)
  /\ UNCHANGED <<agents, role, grants, recorded>>

\* Variant: the enrolments of a deleted agent are kept.
KeptAfter(agent) == grants

\* What a deletion leaves of the enrolments.
EndedWith(agent) ==
  [i \in DOMAIN grants |->
     IF grants[i].agent = agent THEN [grants[i] EXCEPT !.status = "revoked"] ELSE grants[i]]

DeleteAgent(r) ==
  /\ r \in Deleting
  /\ agents' = agents \ {r.agent}
  /\ grants' = EndedWith(r.agent)
  /\ Commit(r, memory, <<>>)
  /\ UNCHANGED <<role, recorded>>

RecordEvidence(r) ==
  /\ r \in Recording
  /\ Commit(r, AppendEvent(memory, r.body), <<>>)
  /\ recorded' = AppendEvent(recorded, r.body)
  /\ UNCHANGED <<agents, role, grants>>

\* It is refused, its mutation throws, or the write fails: nothing follows.
Fail ==
  /\ queue # <<>>
  /\ queue' = Tail(queue)
  /\ UNCHANGED <<agents, role, grants, time, evidenceVars>>

-----------------------------------------------------------------------------
(* Requests arrive, time passes, the server restarts, somebody edits the   *)
(* file.                                                                   *)

\* Bounded: nothing but revocations is asked once the file was edited.
Submit(r) ==
  /\ Len(queue) < MaxWaiting
  /\ edited => r.kind = "revoke" /\ queue = <<>>
  /\ queue' = Append(queue, r)
  /\ UNCHANGED <<agents, role, grants, time, evidenceVars>>

RequestMembership ==
  \/ \E r \in Adding : IsAdmin(r.actor, r.team) /\ r.role \in AskedRoles /\ Submit(r)
  \/ \E r \in Removing : IsAdmin(r.actor, r.team) /\ Submit(r)

\* An expiry must be in the future.
RequestGrant ==
  \/ \E actor \in Humans, agent \in agents, t \in Teams, terms \in AskedTerms :
       LET r == [kind |-> "enroll", actor |-> actor, agent |-> agent, team |-> t,
                 role |-> terms.role, expiresAt |-> terms.expiresAt]
       IN  /\ Len(grants) < MaxEnrolments
           /\ MayEnroll(r)
           /\ r.expiresAt # None => r.expiresAt > time
           /\ Submit(r)
  \/ \E actor \in Humans, i \in DOMAIN grants :
       LET r == [kind |-> "revoke", actor |-> actor, grant |-> i]
       IN  MayRevoke(r) /\ Submit(r)

RequestDeletion ==
  \E agent \in agents : Submit([kind |-> "delete", agent |-> agent])

Tick ==
  /\ time < MaxTime
  /\ time' = time + 1
  /\ UNCHANGED <<agents, role, grants, queue, evidenceVars>>

\* What waits is lost; the file is loaded unless its enrolments are refused, the
\* evidence verified or not.
Restart ==
  /\ ValidGrantSet
  /\ queue' = <<>>
  /\ memory' = file
  /\ adopted' = (adopted \/ (edited /\ Verifies(file)))
  /\ UNCHANGED <<agents, role, grants, time, file, edited, recorded>>

Cut(events, i) == SubSeq(events, 1, i - 1) \o SubSeq(events, i + 1, Len(events))

Reworded(e) == [e EXCEPT !.body = Forged]

\* Everything from the event i on recorded afresh, from another body.
Rewritten(evidence, i) ==
  LET upTo[k \in 0 .. Len(evidence.events)] ==
        IF k <= evidence.chain.legacyCount
        THEN Migrated(SubSeq(evidence.events, 1, evidence.chain.legacyCount))
        ELSE AppendEvent(upTo[k - 1], IF k = i THEN Forged ELSE evidence.events[k].body)
  IN  upTo[Len(evidence.events)]

\* The event i is removed, reworded with or without its hash, or made to look
\* older than the chain; all from it on are rewritten; the last is cut off.
Damaged(evidence, i) ==
  LET events == evidence.events
      chain == evidence.chain
  IN  {[evidence EXCEPT !.events = Cut(events, i)],
       [evidence EXCEPT !.events = [events EXCEPT ![i] = Reworded(@)]],
       [evidence EXCEPT !.events = [events EXCEPT ![i] = Hashed(Reworded(@))]],
       [events |-> [events EXCEPT ![i] = Unchained(@.body)],
        chain |-> [chain EXCEPT !.legacyCount = @ + 1]],
       Rewritten(evidence, i)}
      \cup IF i = Len(events) /\ i # chain.legacyCount
           THEN {Rewritten([evidence EXCEPT !.events = SubSeq(events, 1, i - 1)], i)}
           ELSE {}

\* Bounded: it happens once, while nothing waits.
Edit ==
  /\ ~edited
  /\ queue = <<>>
  /\ edited' = TRUE
  /\ \E i \in DOMAIN file.events : file' \in Damaged(file, i)
  /\ UNCHANGED <<agents, role, grants, time, queue, memory, recorded, adopted>>

-----------------------------------------------------------------------------

Init ==
  /\ agents = Agents
  /\ role = FirstMembers
  /\ grants = <<>>
  /\ time = 0
  /\ queue = <<>>
  /\ memory = Migrated(<<Unchained(None)>>)
  /\ file = memory
  /\ edited = FALSE
  /\ recorded = memory
  /\ adopted = FALSE

Serve(r) ==
  \/ AddMembership(r)
  \/ RemoveMembership(r)
  \/ Enroll(r)
  \/ Revoke(r)
  \/ Drain(r)
  \/ DeleteAgent(r)
  \/ RecordEvidence(r)

Next ==
  \/ queue # <<>> /\ Serve(Head(queue))
  \/ Fail
  \/ RequestMembership
  \/ RequestGrant
  \/ RequestDeletion
  \/ Tick
  \/ Restart
  \/ Edit

Spec == Init /\ [][Next]_vars

-----------------------------------------------------------------------------
(* What the gateway asks the policy about.                                 *)

RequestOf(h, agent, resource, action) ==
  [human |-> h, agent |-> agent, resource |-> resource, action |-> action,
   memberships |-> {[human |-> h, team |-> t, role |-> role[t][h]] :
                      t \in {u \in Teams : role[u][h] # None}},
   grants |-> [i \in {j \in DOMAIN grants : grants[j].agent = agent} |-> grants[i]],
   scopes |-> {}, binding |-> None, destination |-> None, registered |-> None]

Broadened(q) == [q EXCEPT !.registered = Exposed(@)]

\* Something goes to a destination that everybody sees or that is elsewhere.
Leaves(q) ==
  /\ q.action \in ContentActions \ {"content.moderate"}
  /\ ExternalBroad(q) \/ CrossRegion(q)

\* What is carried out for another tenant than the owner's, with no signature
\* though something leaves, or with more signatures than it would take to a more
\* exposed destination.
Exposes(q, now) ==
  LET gate == Gate(q, now)
  IN  /\ gate.outcome # Deny
      /\ \/ q.human # q.resource.owner
         \/ /\ q.registered # None
            /\ \/ q.registered.tenant # q.resource.tenant
               \/ q.registered.status # "enabled"
               \/ Leaves(q) /\ gate.signatures = 0
               \/ gate.signatures > Gate(Broadened(q), now).signatures

ExposingTimes == {t \in 0 .. MaxTime : \E q \in ContentRequests : Exposes(q, t)}

-----------------------------------------------------------------------------
(* Properties.                                                             *)

TypeOK ==
  /\ agents \subseteq Agents
  /\ role \in [Teams -> [Humans -> Roles \cup {None}]]
  /\ grants \in Seq(Enrolments)
  /\ time \in 0 .. MaxTime
  /\ queue \in Seq(Mutation)
  /\ edited \in BOOLEAN
  /\ adopted \in BOOLEAN

\* Whoever removes whom, in whatever order, a team keeps an administrator.
TeamsKeepAnAdmin == \A t \in Teams : \E h \in Humans : IsAdmin(h, t)

\* The enrolments can be loaded at the next start, whatever was enrolled, revoked
\* and deleted in between: otherwise the server would not start any more
\* (isValidAgentTeamGrantSet).
GrantsLoad == ValidGrantSet

Latest(agent, team, i) ==
  /\ i \in EnrolmentsOf(agent, team)
  /\ \A j \in EnrolmentsOf(agent, team) : grants[j].bundleVersion <= grants[i].bundleVersion

Holds(g) == g.status = "active" /\ (g.expiresAt = None \/ time < g.expiresAt)

VerdictFor(h, agent, f) ==
  LET enough == {i \in DOMAIN grants : Latest(agent, f.team, i) /\ Holds(grants[i])}
      capable == {i \in enough : Rank[grants[i].role] >= Rank[f.minimumRole]}
  IN  IF role[f.team][h] = None THEN Denied
      ELSE IF Rank[role[f.team][h]] < Rank[f.minimumRole] \/ enough = {} THEN Denied
      ELSE IF f.classification = "restricted" THEN [outcome |-> Approve, signatures |-> 1]
      ELSE IF capable # {} THEN [outcome |-> Allow, signatures |-> 0]
      ELSE Denied

\* A team file is decided by the membership of the human and the latest enrolment
\* of the agent alone: it takes both, a restricted file takes a signature too
\* whatever the role of the agent, and the past of neither matters (PolicyEngine,
\* teamFileDecision).
DecidesByCurrentEnrolment ==
  \A h \in Humans, agent \in agents, f \in Files :
    Gate(RequestOf(h, agent, f, "file.read"), time) = VerdictFor(h, agent, f)

\* Where nobody edited the file the store finds nothing wrong with the evidence,
\* and goes on (JsonStore.mutate).
NoFalseAlarm == ~edited => Intact

\* Whatever is done to the file, a store that goes on holds the chained events
\* that were recorded, unless a start has adopted a chain that was edited so that it
\* verifies by itself (rewritten from some event on, or shortened).  A running
\* store accepts none but what it recorded, and any other edit of the chain stops
\* every later start too.  No other evidence stops it (verifyAuditIntegrity, mutate,
\* initialize).
DamageIsSeen ==
  /\ Intact /\ ~adopted => ChainedEvents(file) = ChainedEvents(recorded)
  /\ NoFalseAlarm

\* At no time is a request carried out that exposes something to others without
\* the signatures that takes.
ExposureIsApproved == time \notin ExposingTimes
=============================================================================
