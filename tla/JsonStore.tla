------------------------------ MODULE JsonStore ------------------------------
(***************************************************************************)
(* JsonStore: one JSON file, a copy of it in memory, a queue of mutations  *)
(* and verifications of the audit chain that anybody may start at any      *)
(* moment (AuditService.integrity is not queued).                          *)
(*                                                                         *)
(* A database is the sequence of the mutations it contains, the number of  *)
(* its audit events and where its chain comes from: recorded by this       *)
(* store, forged (re-hashed consistently), migrated (the file says it is   *)
(* of an older version, so its events are taken for events from before     *)
(* there was a chain) or broken.  Chains of the same origin and length     *)
(* have the same head, as at most one edit is made from outside.           *)
(* Torn is a file that JSON.parse or the reader of the file rejects,       *)
(* Missing one that is not there.                                          *)
(***************************************************************************)
EXTENDS Naturals, Sequences

CONSTANTS
  Mutations,      \* calls of mutate, each made once
  Audits,         \* those that append an audit event
  Throwing,       \* those whose callback may throw
  NoMutation,
  Readers,        \* slots for concurrent verifications
  Torn,
  Missing,
  ReplaceMayFail, \* the temporary file cannot be written, or its rename is refused
  WriteMayFail,   \* the direct write that replaces it fails too
  MayBeEdited,    \* somebody may damage the file
  MaxCrashes      \* bound on crashes

Chains == {"recorded", "forged", "migrated", "broken"}

Database == [log : Seq(Mutations), events : Nat, chain : Chains]

Files == Database \cup {Torn, Missing}

ASSUME StoreAssumption ==
  /\ Audits \subseteq Mutations
  /\ Throwing \subseteq Mutations
  /\ NoMutation \notin Mutations
  /\ Torn \notin Database
  /\ Missing \notin Database \cup {Torn}
  /\ ReplaceMayFail \in BOOLEAN
  /\ WriteMayFail \in BOOLEAN
  /\ MayBeEdited \in BOOLEAN
  /\ MaxCrashes \in Nat

VARIABLES
  file,      \* what is on disk
  memory,    \* this.data
  process,   \* "up", "booting" (initialize has not returned) or "down"
  queue,     \* mutations waiting for their turn, oldest first
  writer,    \* the mutation whose turn it is, and the copy it will persist
  reader,    \* verifications: the file as one has read it, and what it found
  outcome,   \* what has become of each mutation
  damage,    \* done from outside: "none", "present" in the file, "healed" by a
             \* write over it, or "loaded" by a start
  sealed,    \* mutations that had not begun when the file of an idle store was
             \* damaged in a way that shows
  crashes

vars == <<file, memory, process, queue, writer, reader, outcome, damage,
          sealed, crashes>>

Empty == [log |-> <<>>, events |-> 0, chain |-> "recorded"]

Resting == [pc |-> "idle", mutation |-> NoMutation, draft |-> Empty]

Absent == [pc |-> "idle", seen |-> Torn]

TypeOK ==
  /\ file \in Files
  /\ memory \in Database
  /\ process \in {"up", "booting", "down"}
  /\ queue \in Seq(Mutations)
  /\ writer \in [pc : {"idle", "writing", "overwriting", "committing"},
                 mutation : Mutations \cup {NoMutation}, draft : Database]
  /\ reader \in [Readers -> [pc : {"idle", "comparing", "verified", "broken"}, seen : Files]]
  /\ outcome \in [Mutations -> {"new", "queued", "done", "failed", "lost"}]
  /\ damage \in {"none", "present", "healed", "loaded"}
  /\ sealed \subseteq Mutations
  /\ crashes \in 0 .. MaxCrashes

Init ==
  /\ file = Empty
  /\ memory = Empty
  /\ process = "up"
  /\ queue = <<>>
  /\ writer = Resting
  /\ reader = [r \in Readers |-> Absent]
  /\ outcome = [m \in Mutations |-> "new"]
  /\ damage = "none"
  /\ sealed = {}
  /\ crashes = 0

Appended(database, m) ==
  [database EXCEPT !.log = Append(@, m), !.events = IF m \in Audits THEN @ + 1 ELSE @]

SameHead(database, other) ==
  database.events = other.events /\ database.chain = other.chain

\* Variant: a file of the right length is not verified event by event.
VerifiesHead(seen) ==
  /\ seen \in Database
  /\ memory.chain # "broken"
  /\ seen.events = memory.events

\* verifyAuditIntegrity: the file as it was read against memory as it is now.
Verifies(seen) ==
  /\ seen \in Database
  /\ seen.chain # "broken"
  /\ memory.chain # "broken"
  /\ SameHead(seen, memory)

\* Variant: a mutation that fails keeps its turn.
SettleInPlace(m, result) ==
  /\ outcome' = IF m = NoMutation THEN outcome ELSE [outcome EXCEPT ![m] = result]
  /\ writer' = IF result = "failed" THEN [Resting EXCEPT !.mutation = m] ELSE Resting
  /\ queue' = IF m = NoMutation THEN queue ELSE Tail(queue)

Settle(m, result) ==
  /\ outcome' = IF m = NoMutation THEN outcome ELSE [outcome EXCEPT ![m] = result]
  /\ writer' = Resting
  /\ queue' = IF m = NoMutation THEN queue ELSE Tail(queue)

-----------------------------------------------------------------------------

Submit(m) ==
  /\ process = "up"
  /\ outcome[m] = "new"
  /\ outcome' = [outcome EXCEPT ![m] = "queued"]
  /\ queue' = Append(queue, m)
  /\ UNCHANGED <<file, memory, process, writer, reader, damage, sealed, crashes>>

\* The turn of a mutation starts with a verification; the callback then works
\* on a copy, and one that throws leaves the store as it was.
Begin ==
  /\ process = "up"
  /\ writer = Resting
  /\ queue # <<>>
  /\ LET m == Head(queue)
     IN  \/ /\ Verifies(file)
            /\ writer' = [pc |-> "writing", mutation |-> m,
                          draft |-> Appended(memory, m)]
            /\ UNCHANGED <<queue, outcome>>
         \/ /\ ~Verifies(file) \/ m \in Throwing
            /\ Settle(m, "failed")
  /\ UNCHANGED <<file, memory, process, reader, damage, sealed, crashes>>

\* Variant: persist writes this.data, its default argument, not the copy.
PersistedByDefault == memory

Persisted == writer.draft

\* What a write leaves of damage that was in the file.
WrittenOver == IF damage = "present" THEN "healed" ELSE damage

\* persist: a temporary file renamed over the real one.
Replace ==
  /\ writer.pc = "writing"
  /\ file' = Persisted
  /\ damage' = WrittenOver
  /\ writer' = [writer EXCEPT !.pc = "committing"]
  /\ UNCHANGED <<memory, process, queue, reader, outcome, sealed, crashes>>

\* Where that fails, the real file is opened for writing, which truncates it.
OpenDirectly ==
  /\ ReplaceMayFail
  /\ writer.pc = "writing"
  /\ file' = Torn
  /\ damage' = WrittenOver
  /\ writer' = [writer EXCEPT !.pc = "overwriting"]
  /\ UNCHANGED <<memory, process, queue, reader, outcome, sealed, crashes>>

Overwrite ==
  /\ writer.pc = "overwriting"
  /\ file' = Persisted
  /\ damage' = WrittenOver
  /\ writer' = [writer EXCEPT !.pc = "committing"]
  /\ UNCHANGED <<memory, process, queue, reader, outcome, sealed, crashes>>

\* The direct write cannot be opened, stops half-way, or fails once complete.
PersistFails ==
  /\ ReplaceMayFail
  /\ WriteMayFail
  /\ \/ writer.pc = "writing" /\ UNCHANGED <<file, damage>>
     \/ /\ writer.pc = "overwriting"
        /\ file' \in {Torn, Persisted}
        /\ damage' = WrittenOver
  /\ Settle(writer.mutation, "failed")
  /\ process' = IF process = "booting" THEN "down" ELSE process
  /\ UNCHANGED <<memory, reader, sealed, crashes>>

Commit ==
  /\ writer.pc = "committing"
  /\ memory' = writer.draft
  /\ Settle(writer.mutation, "done")
  /\ process' = "up"
  /\ UNCHANGED <<file, reader, damage, sealed, crashes>>

-----------------------------------------------------------------------------
(* A verification reads the file, waits, and compares with memory.         *)

ReadFile(r) ==
  /\ process = "up"
  /\ reader[r].pc # "comparing"
  /\ reader' = [reader EXCEPT ![r] = [pc |-> "comparing", seen |-> file]]
  /\ UNCHANGED <<file, memory, process, queue, writer, outcome, damage, sealed, crashes>>

Compare(r) ==
  /\ reader[r].pc = "comparing"
  /\ reader' = [reader EXCEPT ![r] = [Absent EXCEPT !.pc =
       IF Verifies(reader[r].seen) THEN "verified" ELSE "broken"]]
  /\ UNCHANGED <<file, memory, process, queue, writer, outcome, damage, sealed, crashes>>

-----------------------------------------------------------------------------
(* The world: somebody edits the file, the process dies, initialize runs.  *)

Unbegun == {m \in Mutations : outcome[m] \in {"new", "queued"} /\ m # writer.mutation}

\* Damage that can be seen beside memory, whether the store sees it or not.
Shows(seen) == seen \notin Database \/ seen.chain = "broken" \/ ~SameHead(seen, memory)

\* What the file may become: unreadable, deleted, or a database with records
\* taken out and its chain shortened, re-hashed, made legacy or broken.  It does
\* not show if only records changed that the chain does not cover.
Edit ==
  /\ MayBeEdited
  /\ damage = "none"
  /\ file \in Database
  /\ \/ file' \in {Torn, Missing}
     \/ \E k \in 0 .. Len(file.log), n \in 0 .. file.events, origin \in Chains :
          /\ origin = file.chain \/ n = file.events
          /\ n = 0 => origin \in {file.chain, "broken"}
          /\ file' = [log |-> SubSeq(file.log, 1, k), events |-> n, chain |-> origin]
  /\ file' # file
  /\ damage' = "present"
  /\ sealed' = IF writer = Resting /\ (process = "up" => Shows(file'))
               THEN Unbegun ELSE {}
  /\ UNCHANGED <<memory, process, queue, writer, reader, outcome, crashes>>

Crash ==
  /\ process # "down"
  /\ crashes < MaxCrashes
  /\ crashes' = crashes + 1
  /\ process' = "down"
  /\ queue' = <<>>
  /\ writer' = Resting
  /\ reader' = [r \in Readers |-> Absent]
  /\ outcome' = [m \in Mutations |-> IF outcome[m] = "queued" THEN "lost" ELSE outcome[m]]
  /\ UNCHANGED <<file, memory, damage, sealed>>

\* A torn file stops the start; a missing one starts an empty store; a broken
\* chain is loaded and left as it is; anything else is loaded and written back
\* before the server listens, as the database it was taken for.
Initialize ==
  /\ process = "down"
  /\ file # Torn
  /\ memory' = IF file = Missing THEN Empty ELSE file
  /\ IF memory'.chain = "broken"
     THEN process' = "up" /\ UNCHANGED writer
     ELSE /\ process' = "booting"
          /\ writer' = [pc |-> "writing", mutation |-> NoMutation, draft |-> memory']
  /\ damage' = IF damage = "present" THEN "loaded" ELSE damage
  /\ UNCHANGED <<file, queue, reader, outcome, sealed, crashes>>

Write == Begin \/ Replace \/ OpenDirectly \/ Overwrite \/ PersistFails \/ Commit

Next ==
  \/ \E m \in Mutations : Submit(m)
  \/ Write
  \/ \E r \in Readers : ReadFile(r) \/ Compare(r)
  \/ Edit
  \/ Crash
  \/ Initialize

Spec == Init /\ [][Next]_vars

\* A file operation that was started completes or fails.
FairSpec == Spec /\ WF_vars(Write)

-----------------------------------------------------------------------------
(* Properties.                                                             *)

\* An acknowledged mutation is in memory, and in the file whenever that can be
\* read, through failed writes and crashes.  A damaged file may have lost it:
\* then memory still has it, until the server is started from that file.
AcknowledgedIsKept ==
  \A m \in Mutations : outcome[m] = "done" /\ damage # "loaded" =>
    /\ process = "up" => \E i \in DOMAIN memory.log : memory.log[i] = m
    /\ file \in Database /\ damage # "present" =>
         \E i \in DOMAIN file.log : file.log[i] = m

\* Memory never runs ahead of the file: it holds what the file holds, short of
\* at most the one mutation being committed or failed after it was written.
FileLeadsMemory ==
  process = "up" /\ file \in Database /\ damage # "present" =>
    \/ file.log = memory.log
    \/ \E m \in Mutations : file.log = Append(memory.log, m)

\* A mutation that had not begun when the file of an idle store was damaged in
\* a way that shows is refused.  A running server never writes over such damage;
\* one started from it does, unless the file is unreadable or its chain broken:
\* a deleted file, a forged or shortened chain or an older version number is
\* taken for the database from then on.
DamageSeals ==
  \A m \in sealed : outcome[m] = "done" => damage = "loaded" /\ memory.chain # "broken"

\* The log is in the file, or in memory while the file is torn or damaged and
\* the server up.
Log == IF file \in Database /\ damage # "present" THEN file.log ELSE memory.log

\* The store is a durable log: no acknowledged update is lost, reordered, applied
\* twice or undone, whatever the crashes, unless the file is torn or damaged when
\* the server goes down.  Where files can be replaced and nobody edits this one
\* it is not even fragile: nothing is ever lost or taken back.
Promise == INSTANCE DurableLog WITH
  Entries <- Mutations,
  Fragile <- ReplaceMayFail \/ MayBeEdited,
  log <- Log,
  acknowledged <- {m \in Mutations : outcome[m] = "done"},
  lost <- \/ (file = Torn \/ damage = "present") /\ process = "down"
          \/ damage = "loaded"

ImplementsLog == Promise!LogSpec

\* Every queued mutation is settled, whatever fails before it in the queue.
MutationsSettle == \A m \in Mutations : outcome[m] = "queued" ~> outcome[m] # "queued"

-----------------------------------------------------------------------------
(* What the documentation says and the code does not keep.                 *)

\* "Detected tampering blocks new audit writes": a verification that finds the
\* store broken while nobody is writing has found damage.
AlarmsAreReal ==
  [][\A r \in Readers :
       reader[r].pc = "comparing" /\ reader'[r].pc = "broken" =>
         damage # "none" \/ writer # Resting
    ]_vars
=============================================================================
