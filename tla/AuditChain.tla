----------------------------- MODULE AuditChain -----------------------------
(***************************************************************************)
(* The chain of audit events: appendAuditEvent and verifyAuditChain.       *)
(*                                                                         *)
(* A hash is the tuple of what is hashed, so that it identifies it.  The   *)
(* evidence is the events and the state of the chain, as in the database.  *)
(* Events from before there was a chain (legacy) have none of its fields;  *)
(* they come first and are not verified.  A body stands for what else is   *)
(* hashed; the moment the chain was started and the reason of a broken one *)
(* are left out.                                                           *)
(***************************************************************************)
EXTENDS Integers, Sequences

CONSTANT Null

Genesis == <<>>

HashOf(e) == <<e.sequence, e.previousHash, e.body>>

Hashed(e) == [e EXCEPT !.eventHash = HashOf(e)]

Unchained(body) ==
  [sequence |-> Null, previousHash |-> Null, eventHash |-> Null, body |-> body]

IsLegacy(e) == e.sequence = Null /\ e.previousHash = Null /\ e.eventHash = Null

\* The evidence of a migrated database: what it has is legacy.
Migrated(events) ==
  [events |-> events,
   chain |-> [headSequence |-> 0, headHash |-> Null, legacyCount |-> Len(events)]]

\* Variant: the event is not tied to the one before it.
LinkedByNumber(events, k, legacy) ==
  /\ events[k].sequence = k - legacy
  /\ events[k].eventHash = HashOf(events[k])

\* The event at position k, after so many legacy events, is the next one.
Linked(events, k, legacy) ==
  /\ events[k].sequence = k - legacy
  /\ events[k].previousHash = IF k = legacy + 1 THEN Genesis ELSE events[k - 1].eventHash
  /\ events[k].eventHash = HashOf(events[k])

HeadMatches(events, chain, legacy) ==
  IF Len(events) = legacy
  THEN chain.headSequence = 0 /\ chain.headHash = Null
  ELSE /\ chain.headSequence = Len(events) - legacy
       /\ chain.headHash = events[Len(events)].eventHash

Verifies(evidence) ==
  LET events == evidence.events
      legacy == evidence.chain.legacyCount
  IN  /\ legacy <= Len(events)
      /\ \A k \in 1 .. legacy : IsLegacy(events[k])
      /\ \A k \in legacy + 1 .. Len(events) : Linked(events, k, legacy)
      /\ HeadMatches(events, evidence.chain, legacy)

AppendEvent(evidence, body) ==
  LET chain == evidence.chain
      event == Hashed(
        [sequence |-> chain.headSequence + 1,
         previousHash |-> IF chain.headHash = Null THEN Genesis ELSE chain.headHash,
         eventHash |-> Null,
         body |-> body])
  IN  [events |-> Append(evidence.events, event),
       chain |-> [headSequence |-> event.sequence,
                  headHash |-> event.eventHash,
                  legacyCount |-> chain.legacyCount]]

\* What the chain protects.
ChainedEvents(evidence) ==
  SubSeq(evidence.events, evidence.chain.legacyCount + 1, Len(evidence.events))
=============================================================================
