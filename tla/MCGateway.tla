------------------------------ MODULE MCGateway ------------------------------
(* A destination to publish to, a profile to read, a team file to elevate   *)
(* for.  h1 owns every authority needed for a single signature.  Where the  *)
(* project is not among the resources, the profile read names one whose     *)
(* revision stays what it is.  Calls are alike: they differ in nothing but  *)
(* the requests and operations they are given.                              *)
EXTENDS Gateway, TLC

CONSTANTS c1, c2, r1, r2, run1, run2, publish, republish, profile, elevate,
          video, project, file, partner, grant, team, h1, ownerA

SameCalls == Permutations(Calls)

MCRunOf == [r \in Requests |-> IF r = r1 THEN run1 ELSE run2]

MCTier == [o \in Operations |-> IF o = profile THEN "low" ELSE "high"]

MCTouched == [o \in Operations |->
  CASE o \in {publish, republish} -> Destinations \cup (Resources \cap {video})
    [] o = profile -> Resources \cap {project}
    [] OTHER -> (Resources \cap {file}) \cup Grants \cup Teams]

MCHumanOf == [a \in Authorities |-> h1]

MCRoleOf == [a \in Authorities |-> "owner"]

MCCoversOps == [a \in Authorities |-> Operations]
=============================================================================
