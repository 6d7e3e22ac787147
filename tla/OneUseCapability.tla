--------------------------- MODULE OneUseCapability ---------------------------
(***************************************************************************)
(* What the approval service promises, with none of how it does it.  A     *)
(* capability is opened with the number of signatures it needs; distinct   *)
(* humans sign it; the last signature makes it usable; it is used at most  *)
(* once; and it can be voided at any moment before its use.                *)
(***************************************************************************)
EXTENDS Naturals, Sequences

CONSTANTS Capabilities, Humans

VARIABLES
  phase,    \* where a capability stands
  needed,   \* how many signatures it needs
  signers   \* who has signed, in order

capVars == <<phase, needed, signers>>

Phases == {"unissued", "open", "usable", "used", "void"}

CapInit ==
  /\ phase = [c \in Capabilities |-> "unissued"]
  /\ needed = [c \in Capabilities |-> 0]
  /\ signers = [c \in Capabilities |-> <<>>]

Open(c, n) ==
  /\ phase[c] = "unissued"
  /\ phase' = [phase EXCEPT ![c] = "open"]
  /\ needed' = [needed EXCEPT ![c] = n]
  /\ UNCHANGED signers

Sign(c, h) ==
  /\ phase[c] = "open"
  /\ \A i \in DOMAIN signers[c] : signers[c][i] # h
  /\ signers' = [signers EXCEPT ![c] = Append(@, h)]
  /\ phase' = [phase EXCEPT ![c] =
       IF Len(signers'[c]) = needed[c] THEN "usable" ELSE "open"]
  /\ UNCHANGED needed

Use(c) ==
  /\ phase[c] = "usable"
  /\ phase' = [phase EXCEPT ![c] = "used"]
  /\ UNCHANGED <<needed, signers>>

\* Denial, expiry, revocation and reconciliation may void several at once.
Void(cs) ==
  /\ \A c \in cs : phase[c] \in {"open", "usable"}
  /\ phase' = [c \in Capabilities |-> IF c \in cs THEN "void" ELSE phase[c]]
  /\ UNCHANGED <<needed, signers>>

CapNext ==
  \/ \E c \in Capabilities, n \in {1, 2} : Open(c, n)
  \/ \E c \in Capabilities, h \in Humans : Sign(c, h)
  \/ \E c \in Capabilities : Use(c)
  \/ \E cs \in SUBSET Capabilities : Void(cs)

CapSpec == CapInit /\ [][CapNext]_capVars
=============================================================================
