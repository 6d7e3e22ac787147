---------------------------- MODULE MCApprovals ----------------------------
(* One critical operation and one that needs a single owner.  h1 owns, h2   *)
(* reviews, h3 holds both roles, so one human could try to fill both slots. *)
EXTENDS Approvals

CONSTANTS r1, r2, h1, h2, h3, ownerA, reviewB, ownerC, reviewC,
          disclose, moderate, run1, run2, asset, partner

MCRunOf == [r \in Requests |-> IF r = r1 THEN run1 ELSE run2]

MCScopesOf == [b \in Bindings |-> IF b = disclose THEN {asset, partner} ELSE {asset}]

MCHumanOf == [a \in Authorities |->
  CASE a = ownerA -> h1 [] a = reviewB -> h2 [] OTHER -> h3]

MCRoleOf == [a \in Authorities |->
  IF a \in {ownerA, ownerC} THEN "owner" ELSE "independent_reviewer"]

MCCovers == [a \in Authorities |->
  IF a \in {ownerA, reviewC} THEN Bindings ELSE Bindings \cap {disclose}]
=============================================================================
