------------------------------ MODULE DurableLog ------------------------------
(***************************************************************************)
(* What a store of serialised mutations promises, with none of its files,  *)
(* queues and crashes: there is one log, entries are only ever added at    *)
(* its end, each once, and an entry is acknowledged only when it is there. *)
(* A fragile log may also be lost, or take back its last entry, with or    *)
(* without another in its place, as long as that was not acknowledged.     *)
(***************************************************************************)
EXTENDS Naturals, Sequences

CONSTANTS Entries, Fragile

VARIABLES log, acknowledged, lost

logVars == <<log, acknowledged, lost>>

InLog(e) == \E i \in DOMAIN log : log[i] = e

LogInit == log = <<>> /\ acknowledged = {} /\ lost = FALSE

Add(e) ==
  /\ ~InLog(e)
  /\ log' = Append(log, e)
  /\ UNCHANGED <<acknowledged, lost>>

Acknowledge(e) ==
  /\ InLog(e)
  /\ acknowledged' = acknowledged \cup {e}
  /\ UNCHANGED <<log, lost>>

Lose == Fragile /\ lost' = TRUE /\ UNCHANGED acknowledged

Kept(k) == \A e \in acknowledged : \E i \in 1 .. k : log[i] = e

Rewrite(e) ==
  /\ Fragile
  /\ \E k \in 0 .. Len(log) :
       /\ k + 1 >= Len(log)
       /\ Kept(k)
       /\ \/ log' = SubSeq(log, 1, k) /\ UNCHANGED acknowledged
          \/ /\ \A i \in 1 .. k : log[i] # e
             /\ log' = Append(SubSeq(log, 1, k), e)
             /\ acknowledged' \in {acknowledged, acknowledged \cup {e}}
  /\ UNCHANGED lost

\* Of a lost log nothing is promised.
Gone == lost /\ lost'

LogNext ==
  \/ ~lost /\ (Lose \/ \E e \in Entries : Add(e) \/ Acknowledge(e) \/ Rewrite(e))
  \/ Gone

LogSpec == LogInit /\ [][LogNext]_logVars
=============================================================================
