--------------------------- MODULE JsonStoreProofs ---------------------------
(* Theorems about JsonStore, for any number of mutations and verifications, *)
(* whether files can be replaced or not, writes fail or files are damaged.  *)
EXTENDS JsonStore, TLAPS

Has(s, m) == \E i \in DOMAIN s : s[i] = m

LEMMA AppendHas ==
  ASSUME NEW s \in Seq(Mutations), NEW k \in Mutations
  PROVE  /\ Append(s, k) \in Seq(Mutations)
         /\ \A m : Has(Append(s, k), m) <=> Has(s, m) \/ m = k
<1>1. Append(s, k) \in Seq(Mutations)
  OBVIOUS
<1>2. /\ DOMAIN Append(s, k) = 1 .. Len(s) + 1
      /\ DOMAIN s = 1 .. Len(s)
      /\ Append(s, k)[Len(s) + 1] = k
      /\ \A i \in 1 .. Len(s) : Append(s, k)[i] = s[i]
      /\ Len(s) \in Nat
  OBVIOUS
<1>3. ASSUME NEW m, Has(s, m) PROVE Has(Append(s, k), m)
  BY <1>2, <1>3 DEF Has
<1>4. Has(Append(s, k), k)
  BY <1>2 DEF Has
<1>5. ASSUME NEW m, Has(Append(s, k), m), m # k PROVE Has(s, m)
  <2>1. PICK i \in DOMAIN Append(s, k) : Append(s, k)[i] = m
    BY <1>5 DEF Has
  <2>2. i \in DOMAIN s
    BY <1>2, <1>5, <2>1
  <2> QED BY <1>2, <2>1, <2>2 DEF Has
<1> QED BY <1>1, <1>3, <1>4, <1>5

LEMMA AppendDiffers ==
  ASSUME NEW s \in Seq(Mutations), NEW k
  PROVE  Append(s, k) # s
  OBVIOUS

-----------------------------------------------------------------------------
(* The inductive invariant: what the writer is about to persist is memory   *)
(* and the mutation at the head of the queue, or, while the server starts,  *)
(* memory; and once it is persisted, it is what the file holds.             *)

Acknowledged == {m \in Mutations : outcome[m] = "done"}

WriterIsHead ==
  /\ writer.pc = "idle" => writer = Resting
  /\ process = "down" => writer = Resting
  /\ process = "booting" =>
       writer.pc # "idle" /\ writer.mutation = NoMutation /\ writer.draft = memory
  /\ process = "up" /\ writer.pc # "idle" =>
       /\ writer.mutation \in Mutations
       /\ queue # <<>>
       /\ Head(queue) = writer.mutation
       /\ writer.draft = Appended(memory, writer.mutation)

\* The file is what the store has written.
Readable == file \in Database /\ damage # "present"

FileFollows ==
  /\ writer.pc = "committing" /\ Readable => file.log = writer.draft.log
  /\ process = "booting" /\ Readable => file.log = memory.log
  /\ process = "up" /\ Readable =>
       \/ file.log = memory.log
       \/ \E m \in Mutations : file.log = Append(memory.log, m)

Kept ==
  /\ file = Missing => damage \in {"present", "loaded"}
  /\ damage # "loaded" =>
       /\ process # "down" => \A m \in Acknowledged : Has(memory.log, m)
       /\ Readable => \A m \in Acknowledged : Has(file.log, m)

IInv == TypeOK /\ WriterIsHead /\ FileFollows /\ Kept

LEMMA RestingType ==
  Resting \in [pc : {"idle", "writing", "overwriting", "committing"},
               mutation : Mutations \cup {NoMutation}, draft : Database]
  BY DEF Resting, Empty, Database, Chains

LEMMA DraftType ==
  ASSUME NEW d \in Database, NEW m \in Mutations
  PROVE  /\ Appended(d, m) \in Database
         /\ Appended(d, m).log = Append(d.log, m)
         /\ Appended(d, m).chain = d.chain
<1>1. d.log \in Seq(Mutations) /\ d.events \in Nat /\ d.chain \in Chains
  BY DEF Database
<1>2. Append(d.log, m) \in Seq(Mutations)
  BY <1>1, AppendHas
<1>3. PICK n \in Nat : n = IF m \in Audits THEN d.events + 1 ELSE d.events
  BY <1>1
<1>4. Appended(d, m) = [d EXCEPT !.log = Append(d.log, m), !.events = n]
  BY <1>3 DEF Appended
<1>5. Appended(d, m) = [log |-> Append(d.log, m), events |-> n, chain |-> d.chain]
  BY <1>4 DEF Database
<1> QED BY <1>1, <1>2, <1>3, <1>5 DEF Database

LEMMA InitInv == Init => IInv
<1> SUFFICES ASSUME Init PROVE IInv
  OBVIOUS
<1>1. Empty \in Database
  BY DEF Empty, Database, Chains
<1>2. TypeOK
  <2>1. reader \in [Readers -> [pc : {"idle", "comparing", "verified", "broken"}, seen : Files]]
    BY DEF Init, Absent, Files
  <2>2. crashes \in 0 .. MaxCrashes
    BY StoreAssumption DEF Init
  <2>3. queue \in Seq(Mutations)
    BY DEF Init
  <2> QED BY <1>1, <2>1, <2>2, <2>3, RestingType DEF Init, TypeOK, Files
<1>3. WriterIsHead /\ FileFollows /\ Kept
  <2>1. file # Missing
    BY <1>1, StoreAssumption DEF Init
  <2> QED BY <2>1 DEF Init, WriterIsHead, FileFollows, Kept, Acknowledged, Resting
<1> QED BY <1>2, <1>3 DEF IInv

\* What WriterIsHead says of the writer, whoever it works for.
LEMMA WriterFacts ==
  ASSUME IInv, writer.pc # "idle"
  PROVE  /\ process \in {"up", "booting"}
         /\ writer.draft \in Database
         /\ process = "up" => writer.mutation \in Mutations /\ queue # <<>>
         /\ process = "booting" => writer.mutation = NoMutation
         /\ damage # "loaded" => \A m \in Acknowledged : Has(writer.draft.log, m)
<1>1. process \in {"up", "booting"} /\ writer.draft \in Database /\ memory \in Database
  BY DEF IInv, TypeOK, WriterIsHead, Resting
<1>2. damage # "loaded" => \A m \in Acknowledged : Has(memory.log, m)
  BY <1>1 DEF IInv, Kept
<1>3. CASE process = "booting"
  BY <1>1, <1>2, <1>3 DEF IInv, WriterIsHead
<1>4. CASE process = "up"
  <2>1. /\ writer.mutation \in Mutations
        /\ queue # <<>>
        /\ writer.draft = Appended(memory, writer.mutation)
    BY <1>4 DEF IInv, WriterIsHead
  <2>2. memory.log \in Seq(Mutations)
    BY <1>1 DEF Database
  <2>3. writer.draft.log = Append(memory.log, writer.mutation)
    BY <1>1, <2>1, DraftType
  <2> QED BY <1>1, <1>2, <1>4, <2>1, <2>2, <2>3, AppendHas
<1> QED BY <1>1, <1>3, <1>4

LEMMA SettleType ==
  ASSUME TypeOK, NEW m \in Mutations \cup {NoMutation}, NEW o \in {"done", "failed"},
         m # NoMutation => queue # <<>>, Settle(m, o)
  PROVE  /\ outcome' \in [Mutations -> {"new", "queued", "done", "failed", "lost"}]
         /\ writer' = Resting
         /\ queue' \in Seq(Mutations)
<1>1. outcome' \in [Mutations -> {"new", "queued", "done", "failed", "lost"}]
  BY DEF TypeOK, Settle
<1>2. m # NoMutation => Tail(queue) \in Seq(Mutations)
  BY DEF TypeOK
<1> QED BY <1>1, <1>2 DEF TypeOK, Settle

LEMMA SubmitInv ==
  ASSUME IInv, NEW m \in Mutations, Submit(m)
  PROVE  IInv'
<1>1. TypeOK'
  BY DEF IInv, TypeOK, Submit
<1>2. WriterIsHead'
  <2>1. queue \in Seq(Mutations) /\ queue' = Append(queue, m)
    BY DEF IInv, TypeOK, Submit
  <2>2. queue # <<>> => queue' # <<>> /\ Head(queue') = Head(queue)
    BY <2>1
  <2> QED BY <2>2 DEF IInv, WriterIsHead, Submit
<1>3. Acknowledged' = Acknowledged
  BY DEF IInv, TypeOK, Submit, Acknowledged
<1>4. FileFollows' /\ Kept'
  BY <1>3 DEF IInv, FileFollows, Kept, Readable, Submit
<1> QED BY <1>1, <1>2, <1>4 DEF IInv

LEMMA BeginInv ==
  ASSUME IInv, Begin
  PROVE  IInv'
<1> DEFINE m == Head(queue)
           draft == Appended(memory, m)
<1>1. /\ process = "up" /\ writer = Resting /\ queue # <<>>
      /\ UNCHANGED <<file, memory, process, reader, damage, sealed, crashes>>
      /\ \/ /\ writer' = [pc |-> "writing", mutation |-> m, draft |-> draft]
            /\ UNCHANGED <<queue, outcome>>
         \/ Settle(m, "failed")
  BY DEF Begin
<1>2. m \in Mutations
  BY <1>1 DEF IInv, TypeOK
<1>3. CASE /\ writer' = [pc |-> "writing", mutation |-> m, draft |-> draft]
           /\ UNCHANGED <<queue, outcome>>
  <2>1. draft \in Database
    BY <1>2, DraftType DEF IInv, TypeOK
  <2>2. /\ writer'.pc = "writing"
        /\ writer'.mutation = m
        /\ writer'.draft = draft
    BY <1>3
  <2>3. writer' \in [pc : {"idle", "writing", "overwriting", "committing"},
                     mutation : Mutations \cup {NoMutation}, draft : Database]
    BY <1>2, <1>3, <2>1
  <2>4. TypeOK'
    BY <1>1, <1>3, <2>3 DEF IInv, TypeOK
  <2>5. WriterIsHead'
    BY <1>1, <1>2, <1>3, <2>2 DEF WriterIsHead
  <2>6. FileFollows' /\ Kept'
    BY <1>1, <1>3, <2>2 DEF IInv, FileFollows, Kept, Readable, Acknowledged
  <2> QED BY <2>4, <2>5, <2>6 DEF IInv
<1>4. CASE Settle(m, "failed")
  <2>1. m # NoMutation
    BY <1>2, StoreAssumption
  <2>2. /\ outcome' \in [Mutations -> {"new", "queued", "done", "failed", "lost"}]
        /\ writer' = Resting
        /\ queue' \in Seq(Mutations)
    BY <1>1, <1>2, <1>4, SettleType DEF IInv
  <2>3. Acknowledged' \subseteq Acknowledged
    BY <1>2, <1>4, <2>1 DEF IInv, TypeOK, Settle, Acknowledged
  <2>4. TypeOK'
    BY <1>1, <2>2, RestingType DEF IInv, TypeOK
  <2>5. WriterIsHead'
    BY <1>1, <2>2 DEF WriterIsHead, Resting
  <2>6. FileFollows' /\ Kept'
    BY <1>1, <2>2, <2>3 DEF IInv, FileFollows, Kept, Readable, Resting
  <2> QED BY <2>4, <2>5, <2>6 DEF IInv
<1> QED BY <1>1, <1>3, <1>4

\* The steps that write the file, completely or by truncating it first.
LEMMA ReplaceInv ==
  ASSUME IInv, Replace \/ OpenDirectly \/ Overwrite
  PROVE  IInv'
<1>1. /\ writer.pc # "idle"
      /\ \/ file' = writer.draft /\ writer' = [writer EXCEPT !.pc = "committing"]
         \/ file' = Torn /\ writer' = [writer EXCEPT !.pc = "overwriting"]
      /\ damage' = WrittenOver
      /\ UNCHANGED <<memory, process, queue, reader, outcome, sealed, crashes>>
  BY DEF Replace, OpenDirectly, Overwrite, Persisted
<1>2. /\ writer'.pc \in {"committing", "overwriting"}
      /\ writer'.mutation = writer.mutation
      /\ writer'.draft = writer.draft
      /\ writer' \in [pc : {"idle", "writing", "overwriting", "committing"},
                      mutation : Mutations \cup {NoMutation}, draft : Database]
  BY <1>1 DEF IInv, TypeOK
<1>3. /\ process \in {"up", "booting"}
      /\ writer.draft \in Database
      /\ damage # "loaded" => \A m \in Acknowledged : Has(writer.draft.log, m)
  BY <1>1, WriterFacts
<1>4. TypeOK'
  BY <1>1, <1>2, <1>3 DEF IInv, TypeOK, WrittenOver, Files
<1>5. WriterIsHead'
  BY <1>1, <1>2, <1>3 DEF IInv, WriterIsHead
<1>6. FileFollows'
  <2>1. CASE file' = Torn
    BY <2>1, StoreAssumption DEF FileFollows, Readable
  <2>2. CASE file' = writer.draft
    <3>1. process = "booting" => writer.draft.log = memory.log
      BY <1>1 DEF IInv, WriterIsHead
    <3>2. process = "up" => /\ writer.mutation \in Mutations
                            /\ writer.draft.log = Append(memory.log, writer.mutation)
      <4>1. memory \in Database
        BY DEF IInv, TypeOK
      <4>2. process = "up" =>
              /\ writer.mutation \in Mutations
              /\ writer.draft = Appended(memory, writer.mutation)
        BY <1>1 DEF IInv, WriterIsHead
      <4> QED BY <4>1, <4>2, DraftType
    <3> QED BY <1>1, <1>2, <2>2, <3>1, <3>2 DEF FileFollows
  <2> QED BY <1>1, <2>1, <2>2
<1>7. Kept'
  <2>1. file' # Missing /\ (damage' = "loaded" <=> damage = "loaded")
    BY <1>1, <1>3, StoreAssumption DEF WrittenOver
  <2>2. file' \in Database => file' = writer.draft
    BY <1>1, StoreAssumption
  <2> QED BY <1>1, <1>3, <2>1, <2>2 DEF IInv, Kept, Readable, Acknowledged
<1> QED BY <1>4, <1>5, <1>6, <1>7 DEF IInv

LEMMA PersistFailsInv ==
  ASSUME IInv, PersistFails
  PROVE  IInv'
<1> DEFINE m == writer.mutation
<1>1. /\ writer.pc # "idle"
      /\ \/ UNCHANGED <<file, damage>>
         \/ file' \in {Torn, writer.draft} /\ damage' = WrittenOver
      /\ Settle(m, "failed")
      /\ process' = IF process = "booting" THEN "down" ELSE process
      /\ UNCHANGED <<memory, reader, sealed, crashes>>
  BY DEF PersistFails, Persisted
<1>2. /\ process \in {"up", "booting"}
      /\ writer.draft \in Database
      /\ process = "up" => m \in Mutations /\ queue # <<>>
      /\ process = "booting" => m = NoMutation
      /\ damage # "loaded" => \A k \in Acknowledged : Has(writer.draft.log, k)
  BY <1>1, WriterFacts
<1>3. /\ outcome' \in [Mutations -> {"new", "queued", "done", "failed", "lost"}]
      /\ writer' = Resting
      /\ queue' \in Seq(Mutations)
  BY <1>1, <1>2, SettleType DEF IInv
<1>4. Acknowledged' \subseteq Acknowledged
  BY <1>1, <1>2 DEF IInv, TypeOK, Settle, Acknowledged
<1>5. TypeOK'
  <2>1. file' \in Files /\ damage' \in {"none", "present", "healed", "loaded"}
    BY <1>1, <1>2 DEF IInv, TypeOK, Files, WrittenOver
  <2> QED BY <1>1, <1>2, <1>3, <2>1, RestingType DEF IInv, TypeOK
<1>6. WriterIsHead'
  BY <1>1, <1>2, <1>3 DEF WriterIsHead, Resting
<1>7. FileFollows'
  <2>1. process' \in {"up", "down"} /\ (process' = "up" => process = "up")
    BY <1>1, <1>2
  <2>2. process = "up" => /\ m \in Mutations
                          /\ writer.draft.log = Append(memory.log, m)
    BY <1>1, <1>2, DraftType DEF IInv, WriterIsHead, TypeOK
  <2>3. writer'.pc = "idle"
    BY <1>3 DEF Resting
  <2>4. ASSUME process' = "up", Readable'
        PROVE  file'.log = memory.log \/ \E k \in Mutations : file'.log = Append(memory.log, k)
    <3>1. CASE UNCHANGED <<file, damage>>
      BY <2>1, <2>4, <3>1 DEF IInv, FileFollows, Readable
    <3>2. CASE file' = writer.draft
      BY <2>1, <2>2, <2>4, <3>2
    <3>3. file' # Torn
      BY <2>4, StoreAssumption DEF Readable
    <3> QED BY <1>1, <2>4, <3>1, <3>2, <3>3
  <2> QED BY <1>1, <2>1, <2>3, <2>4 DEF FileFollows
<1>8. Kept'
  <2>1. process' # "down" => process # "down"
    BY <1>1, <1>2
  <2>2. CASE UNCHANGED <<file, damage>>
    BY <1>1, <1>4, <2>1, <2>2 DEF IInv, Kept, Readable
  <2>3. CASE file' \in {Torn, writer.draft} /\ damage' = WrittenOver
    <3>1. file' # Missing /\ (damage' = "loaded" <=> damage = "loaded")
      BY <1>2, <2>3, StoreAssumption DEF WrittenOver
    <3>2. file' \in Database => file' = writer.draft
      BY <2>3, StoreAssumption
    <3> QED BY <1>1, <1>2, <1>4, <2>1, <3>1, <3>2 DEF IInv, Kept, Readable
  <2> QED BY <1>1, <2>2, <2>3
<1> QED BY <1>5, <1>6, <1>7, <1>8 DEF IInv

LEMMA CommitInv ==
  ASSUME IInv, Commit
  PROVE  IInv'
<1> DEFINE m == writer.mutation
<1>1. /\ writer.pc = "committing"
      /\ memory' = writer.draft
      /\ Settle(m, "done")
      /\ process' = "up"
      /\ UNCHANGED <<file, reader, damage, sealed, crashes>>
  BY DEF Commit
<1>2. /\ process \in {"up", "booting"}
      /\ writer.draft \in Database
      /\ process = "up" => m \in Mutations /\ queue # <<>>
      /\ process = "booting" => m = NoMutation
      /\ damage # "loaded" => \A k \in Acknowledged : Has(writer.draft.log, k)
  BY <1>1, WriterFacts
<1>3. /\ outcome' \in [Mutations -> {"new", "queued", "done", "failed", "lost"}]
      /\ writer' = Resting
      /\ queue' \in Seq(Mutations)
  BY <1>1, <1>2, SettleType DEF IInv
<1>4. Acknowledged' \subseteq Acknowledged \cup ({m} \cap Mutations)
  BY <1>1, <1>2 DEF IInv, TypeOK, Settle, Acknowledged
<1>5. TypeOK'
  BY <1>1, <1>2, <1>3, RestingType DEF IInv, TypeOK
<1>6. WriterIsHead'
  BY <1>1, <1>3 DEF WriterIsHead, Resting
<1>7. FileFollows'
  BY <1>1, <1>3 DEF IInv, FileFollows, Readable, Resting
<1>8. damage # "loaded" => \A k \in Acknowledged' : Has(memory'.log, k)
  <2>1. CASE process = "booting"
    <3>1. m \notin Mutations
      BY <1>2, <2>1, StoreAssumption
    <3> QED BY <1>1, <1>2, <1>4, <3>1
  <2>2. CASE process = "up"
    <3>0. memory \in Database /\ m \in Mutations /\ writer.draft = Appended(memory, m)
      BY <1>1, <1>2, <2>2 DEF IInv, WriterIsHead, TypeOK
    <3>1. /\ m \in Mutations
          /\ writer.draft.log = Append(memory.log, m)
          /\ memory.log \in Seq(Mutations)
      BY <3>0, DraftType DEF Database
    <3>2. Has(writer.draft.log, m)
      BY <3>1, AppendHas
    <3> QED BY <1>1, <1>2, <1>4, <3>2
  <2> QED BY <1>2, <2>1, <2>2
<1>9. Kept'
  <2>1. Readable => file.log = writer.draft.log
    BY <1>1 DEF IInv, FileFollows
  <2> QED BY <1>1, <1>8, <2>1 DEF IInv, Kept, Readable
<1> QED BY <1>5, <1>6, <1>7, <1>9 DEF IInv

LEMMA ReaderInv ==
  ASSUME IInv, NEW r \in Readers, ReadFile(r) \/ Compare(r)
  PROVE  IInv'
<1>1. /\ UNCHANGED <<file, memory, process, queue, writer, outcome, damage, sealed, crashes>>
      /\ \E found \in [pc : {"idle", "comparing", "verified", "broken"}, seen : Files] :
           reader' = [reader EXCEPT ![r] = found]
  <2>1. CASE ReadFile(r)
    BY <2>1 DEF IInv, TypeOK, ReadFile
  <2>2. CASE Compare(r)
    <3> DEFINE found == [Absent EXCEPT !.pc =
                           IF Verifies(reader[r].seen) THEN "verified" ELSE "broken"]
    <3>1. found \in [pc : {"idle", "comparing", "verified", "broken"}, seen : Files]
      BY DEF Absent, Files
    <3>2. reader' = [reader EXCEPT ![r] = found]
      BY <2>2 DEF Compare
    <3> QED BY <2>2, <3>1, <3>2 DEF Compare
  <2> QED BY <2>1, <2>2
<1>2. reader' \in [Readers -> [pc : {"idle", "comparing", "verified", "broken"}, seen : Files]]
  BY <1>1 DEF IInv, TypeOK
<1> QED
  BY <1>1, <1>2 DEF IInv, TypeOK, WriterIsHead, FileFollows, Kept, Readable, Acknowledged

LEMMA EditInv ==
  ASSUME IInv, Edit
  PROVE  IInv'
<1>1. /\ file \in Database
      /\ damage = "none" /\ damage' = "present"
      /\ sealed' \subseteq Mutations
      /\ UNCHANGED <<memory, process, queue, writer, reader, outcome, crashes>>
  BY DEF Edit, Unbegun
<1>2. file' \in Files
  <2>1. CASE file' \in {Torn, Missing}
    BY <2>1 DEF Files
  <2>2. ASSUME NEW k \in 0 .. Len(file.log), NEW n \in 0 .. file.events, NEW origin \in Chains,
               file' = [log |-> SubSeq(file.log, 1, k), events |-> n, chain |-> origin]
        PROVE  file' \in Files
    <3>1. file.log \in Seq(Mutations) /\ file.events \in Nat
      BY <1>1 DEF Database
    <3>2. SubSeq(file.log, 1, k) \in Seq(Mutations) /\ n \in Nat
      BY <3>1
    <3> QED BY <2>2, <3>2 DEF Files, Database
  <2> QED BY <2>1, <2>2 DEF Edit
<1>3. TypeOK'
  BY <1>1, <1>2 DEF IInv, TypeOK
<1>4. WriterIsHead'
  BY <1>1 DEF IInv, WriterIsHead
<1>5. FileFollows' /\ Kept'
  BY <1>1 DEF IInv, FileFollows, Kept, Readable, Acknowledged
<1> QED BY <1>3, <1>4, <1>5 DEF IInv

LEMMA CrashInv ==
  ASSUME IInv, Crash
  PROVE  IInv'
<1>1. TypeOK'
  <2>1. /\ crashes' \in 0 .. MaxCrashes
        /\ outcome' \in [Mutations -> {"new", "queued", "done", "failed", "lost"}]
        /\ reader' \in [Readers -> [pc : {"idle", "comparing", "verified", "broken"}, seen : Files]]
        /\ queue' \in Seq(Mutations)
    BY StoreAssumption DEF IInv, TypeOK, Crash, Absent, Files
  <2> QED BY <2>1, RestingType DEF IInv, TypeOK, Crash
<1>2. WriterIsHead' /\ FileFollows'
  BY DEF IInv, Crash, WriterIsHead, FileFollows, Readable, Resting
<1>3. Acknowledged' \subseteq Acknowledged
  BY DEF IInv, TypeOK, Crash, Acknowledged
<1>4. Kept'
  BY <1>3 DEF IInv, Crash, Kept, Readable
<1> QED BY <1>1, <1>2, <1>4 DEF IInv

LEMMA InitializeInv ==
  ASSUME IInv, Initialize
  PROVE  IInv'
<1>1. /\ process = "down" /\ file # Torn
      /\ memory' = IF file = Missing THEN Empty ELSE file
      /\ UNCHANGED <<file, queue, reader, outcome, sealed, crashes>>
      /\ \/ /\ process' = "booting"
            /\ writer' = [pc |-> "writing", mutation |-> NoMutation, draft |-> memory']
         \/ process' = "up" /\ writer' = writer
      /\ damage' = IF damage = "present" THEN "loaded" ELSE damage
  BY DEF Initialize
<1>2. memory' \in Database /\ writer = Resting /\ (file = Missing \/ file \in Database)
  BY <1>1 DEF IInv, TypeOK, WriterIsHead, Files, Empty, Database, Chains
<1>3. TypeOK'
  BY <1>1, <1>2, RestingType DEF IInv, TypeOK
<1>4. file \in Database => memory' = file
  BY <1>1, StoreAssumption
<1>5. WriterIsHead' /\ FileFollows'
  BY <1>1, <1>2, <1>4 DEF WriterIsHead, FileFollows, Readable, Resting
<1>6. Kept'
  BY <1>1, <1>2, <1>4 DEF IInv, Kept, Readable, Acknowledged
<1> QED BY <1>3, <1>5, <1>6 DEF IInv

\* The invariant holds whether files can be replaced or not, through failed
\* writes, crashes and damage.
THEOREM Inductive == Spec => []IInv
<1>1. IInv /\ [Next]_vars => IInv'
  <2> SUFFICES ASSUME IInv, [Next]_vars PROVE IInv'
    OBVIOUS
  <2>1. CASE UNCHANGED vars
    BY <2>1 DEF vars, IInv, TypeOK, WriterIsHead, FileFollows, Kept, Readable, Acknowledged
  <2> QED
    BY <2>1, SubmitInv, BeginInv, ReplaceInv, PersistFailsInv, CommitInv, ReaderInv, EditInv,
       CrashInv, InitializeInv DEF Next, Write
<1> QED BY <1>1, InitInv, PTL DEF Spec

\* Every field of every record keeps its type.
THEOREM TypeCorrect == Spec => []TypeOK
<1>1. IInv => TypeOK
  BY DEF IInv
<1> QED BY <1>1, Inductive, PTL

\* What mutate has acknowledged is in memory while the server runs, and in
\* the file whenever it can be read; what damage takes out of the file memory
\* keeps until the server is started from it.
THEOREM NothingAcknowledgedIsLost == Spec => []AcknowledgedIsKept
<1>1. IInv => AcknowledgedIsKept
  BY DEF IInv, TypeOK, Kept, Readable, Has, Acknowledged, AcknowledgedIsKept
<1> QED BY <1>1, Inductive, PTL

\* Memory never holds anything the file does not: the file is at most the one
\* mutation ahead whose commit is pending or has failed.
THEOREM FileIsAhead == Spec => []FileLeadsMemory
<1>1. IInv => FileLeadsMemory
  BY DEF IInv, FileFollows, Readable, FileLeadsMemory
<1> QED BY <1>1, Inductive, PTL

-----------------------------------------------------------------------------
(* Damage to an idle store.                                                *)

NoneDone == \A m \in sealed : outcome[m] # "done"

\* While the damage is in the file, the server does not get past the
\* verification.  Once it was loaded, a broken chain in the file is the one in
\* memory, and where memory has one nobody works.
Sealed ==
  sealed # {} =>
    \/ /\ damage = "present"
       /\ writer = Resting
       /\ process = "up" => ~Verifies(file)
       /\ NoneDone
    \/ /\ damage = "loaded"
       /\ file \in Database /\ file.chain = "broken" => memory.chain = "broken"
       /\ memory.chain = "broken" => writer = Resting /\ NoneDone

\* A step in which no mutation is acknowledged acknowledges none that is sealed.
LEMMA NoneNewlyDone ==
  ASSUME TypeOK, NoneDone, sealed' = sealed,
         \A m \in Mutations : outcome'[m] = "done" => outcome[m] = "done"
  PROVE  NoneDone'
BY DEF NoneDone, TypeOK

\* The chain of what is written is of the origin of the one in memory.
LEMMA DraftChain ==
  ASSUME IInv, writer.pc # "idle"
  PROVE  /\ writer.draft \in Database
         /\ writer.draft.chain = memory.chain
<1>1. process \in {"up", "booting"} /\ writer.draft \in Database /\ memory \in Database
  BY DEF IInv, TypeOK, WriterIsHead, Resting
<1>2. CASE process = "booting"
  BY <1>1, <1>2 DEF IInv, WriterIsHead
<1>3. CASE process = "up"
  BY <1>1, <1>3, DraftType DEF IInv, WriterIsHead
<1> QED BY <1>1, <1>2, <1>3

LEMMA SealedByEdit ==
  ASSUME IInv, Sealed, Edit
  PROVE  Sealed'
<1>1. /\ damage' = "present"
      /\ UNCHANGED <<memory, process, writer, outcome>>
      /\ sealed' # {} =>
           writer = Resting /\ sealed' = Unbegun /\ (process = "up" => ~Verifies(file'))
  BY DEF Edit, Shows, Verifies
<1>2. Verifies(file)' <=> Verifies(file')
  BY <1>1 DEF Verifies, SameHead
<1> QED BY <1>1, <1>2 DEF Sealed, NoneDone, Unbegun

LEMMA SealedByWrite ==
  ASSUME IInv, Sealed, sealed # {}, Replace \/ OpenDirectly \/ Overwrite \/ PersistFails \/ Commit
  PROVE  Sealed'
<1>1. writer.pc # "idle" /\ writer # Resting /\ sealed' = sealed
  BY DEF Replace, OpenDirectly, Overwrite, PersistFails, Commit, Resting
<1>2. damage = "loaded" /\ memory.chain # "broken"
  BY <1>1 DEF Sealed
<1>3. writer.draft.chain = memory.chain
  BY <1>1, DraftChain
<1>4. damage' = "loaded"
  BY <1>2 DEF Replace, OpenDirectly, Overwrite, PersistFails, Commit, WrittenOver
<1>5. memory'.chain # "broken"
  BY <1>2, <1>3 DEF Replace, OpenDirectly, Overwrite, PersistFails, Commit
<1>6. file' \in Database => file'.chain # "broken"
  BY <1>2, <1>3, StoreAssumption
  DEF Replace, OpenDirectly, Overwrite, PersistFails, Commit, Persisted, Sealed
<1> QED BY <1>4, <1>5, <1>6 DEF Sealed

LEMMA SealedByStart ==
  ASSUME IInv, Sealed, sealed # {}, Initialize
  PROVE  Sealed'
<1>1. /\ process = "down" /\ file # Torn
      /\ memory' = IF file = Missing THEN Empty ELSE file
      /\ UNCHANGED <<file, outcome, sealed>>
      /\ memory'.chain = "broken" => writer' = writer
      /\ damage' = IF damage = "present" THEN "loaded" ELSE damage
  BY DEF Initialize
<1>2. writer = Resting /\ file \in Files
  BY <1>1 DEF IInv, WriterIsHead, TypeOK
<1>3. damage' = "loaded"
  BY <1>1 DEF Sealed
<1>4. file \in Database => memory' = file
  BY <1>1, StoreAssumption
<1>5. ASSUME memory'.chain = "broken" PROVE NoneDone
  <2>1. file \in Database /\ file.chain = "broken"
    BY <1>1, <1>2, <1>5 DEF Files, Empty
  <2> QED BY <2>1 DEF Sealed
<1> QED BY <1>1, <1>2, <1>3, <1>4, <1>5 DEF Sealed, NoneDone

\* The steps that write nothing.
LEMMA SealedByRest ==
  ASSUME IInv, Sealed, sealed # {}, UNCHANGED <<file, memory, damage, sealed>>,
         process' = "up" => process = "up",
         writer = Resting => writer' = Resting \/ (process = "up" /\ Verifies(file)),
         \A m \in Mutations : outcome'[m] = "done" => outcome[m] = "done"
  PROVE  Sealed'
<1>1. NoneDone => NoneDone'
  BY NoneNewlyDone DEF IInv
<1>2. Verifies(file)' <=> Verifies(file)
  BY DEF Verifies, SameHead
<1>3. CASE damage = "present"
  <2>1. process = "up" => ~Verifies(file)
    BY <1>3 DEF Sealed
  <2>2. writer' = Resting
    BY <1>3, <2>1 DEF Sealed
  <2> QED BY <1>1, <1>2, <1>3, <2>1, <2>2 DEF Sealed
<1>4. CASE damage = "loaded"
  <2>1. memory.chain = "broken" => ~Verifies(file)
    BY DEF Verifies
  <2> QED BY <1>1, <1>4, <2>1 DEF Sealed
<1> QED BY <1>3, <1>4 DEF Sealed

LEMMA SealedStep ==
  ASSUME IInv, Sealed, [Next]_vars
  PROVE  Sealed'
<1>1. CASE Edit
  BY <1>1, SealedByEdit
<1>2. CASE ~Edit /\ sealed = {}
  <2>1. sealed' = sealed
    BY <1>2 DEF Next, Write, Submit, Begin, Replace, OpenDirectly, Overwrite, PersistFails,
                Commit, ReadFile, Compare, Crash, Initialize, vars
  <2> QED BY <1>2, <2>1 DEF Sealed
<1>3. CASE sealed # {}
  <2>0. outcome \in [Mutations -> {"new", "queued", "done", "failed", "lost"}]
    BY DEF IInv, TypeOK
  <2>1. CASE UNCHANGED vars
    BY <1>3, <2>1, SealedByRest DEF vars
  <2>2. ASSUME NEW m \in Mutations, Submit(m) PROVE Sealed'
    BY <1>3, <2>0, <2>2, SealedByRest DEF Submit
  <2>3. CASE Begin
    <3>1. Head(queue) \in Mutations
      BY <2>3 DEF IInv, TypeOK, Begin
    <3>2. /\ process = "up" /\ UNCHANGED <<file, memory, process, damage, sealed>>
          /\ \/ Verifies(file) /\ UNCHANGED outcome
             \/ Settle(Head(queue), "failed")
      BY <2>3 DEF Begin
    <3>3. writer' = Resting \/ Verifies(file)
      BY <3>2 DEF Settle
    <3>4. \A m \in Mutations : outcome'[m] = "done" => outcome[m] = "done"
      BY <2>0, <3>1, <3>2 DEF Settle
    <3> QED BY <1>3, <3>2, <3>3, <3>4, SealedByRest
  <2>4. CASE Replace \/ OpenDirectly \/ Overwrite \/ PersistFails \/ Commit
    BY <1>3, <2>4, SealedByWrite
  <2>5. ASSUME NEW r \in Readers, ReadFile(r) \/ Compare(r) PROVE Sealed'
    BY <1>3, <2>5, SealedByRest DEF ReadFile, Compare
  <2>6. CASE Crash
    BY <1>3, <2>0, <2>6, SealedByRest DEF Crash
  <2>7. CASE Initialize
    BY <1>3, <2>7, SealedByStart
  <2> QED BY <1>1, <2>1, <2>2, <2>3, <2>4, <2>5, <2>6, <2>7 DEF Next, Write
<1> QED BY <1>1, <1>2, <1>3

\* What had not begun when the file of an idle store was damaged in a way that
\* shows is not acknowledged by that server, nor by any other that finds the
\* file unreadable or its chain broken, whatever fails, crashes or is started
\* again.  A server started after a deletion, a consistent re-hash, a shortening
\* or a change of version does acknowledge it.
THEOREM DamageIsNotHealed == Spec => []DamageSeals
<1>1. Init => Sealed
  BY DEF Init, Sealed
<1>2. IInv /\ Sealed /\ [Next]_vars => Sealed'
  BY SealedStep
<1>3. IInv /\ Sealed => DamageSeals
  BY DEF IInv, TypeOK, Sealed, NoneDone, DamageSeals
<1> QED BY <1>1, <1>2, <1>3, Inductive, PTL DEF Spec

-----------------------------------------------------------------------------
(* The store as a durable log, when files can be replaced and nobody edits  *)
(* this one. What is queued has not been applied and waits once; what the file  *)
(* contains is acknowledged, lost with the answer, or about to be           *)
(* acknowledged; and file and memory differ only between Replace and Commit. *)

QueueIsFresh ==
  /\ process # "up" => queue = <<>>
  /\ \A i \in 1 .. Len(queue) : outcome[queue[i]] = "queued"
  /\ \A i, j \in 1 .. Len(queue) : queue[i] = queue[j] => i = j

FileIsMemory ==
  /\ file \in Database
  /\ damage = "none"
  /\ writer.pc # "overwriting"
  /\ process = "up" /\ writer.pc # "committing" => file.log = memory.log

LogIsSettled ==
  \A m \in Mutations : Has(file.log, m) =>
    \/ outcome[m] \in {"done", "lost"}
    \/ writer.pc = "committing" /\ writer.mutation = m

LogInv == IInv /\ QueueIsFresh /\ FileIsMemory /\ LogIsSettled

LEMMA LogInitially == Init => LogInv
<1> SUFFICES ASSUME Init PROVE LogInv
  OBVIOUS
<1>1. QueueIsFresh /\ FileIsMemory /\ LogIsSettled
  <2>1. file = Empty /\ Empty.log = <<>> /\ Empty \in Database /\ writer.pc = "idle"
    BY DEF Init, Empty, Resting, Database, Chains
  <2> QED BY <2>1 DEF Init, QueueIsFresh, FileIsMemory, LogIsSettled, Has
<1> QED BY <1>1, InitInv DEF LogInv

LEMMA Unaffected ==
  ASSUME LogInv,
         file' = file, memory' = memory, process' = process, queue' = queue,
         writer' = writer, outcome' = outcome, damage' = damage
  PROVE  QueueIsFresh' /\ FileIsMemory' /\ LogIsSettled'
BY DEF LogInv, QueueIsFresh, FileIsMemory, LogIsSettled

\* A mutation that is being worked for is the first in the queue.
LEMMA AtWork ==
  ASSUME LogInv, process = "up", queue # <<>>
  PROVE  /\ Head(queue) \in Mutations
         /\ Head(queue) # NoMutation
         /\ outcome[Head(queue)] = "queued"
<1>1. queue \in Seq(Mutations)
  BY DEF LogInv, IInv, TypeOK
<1>2. 1 \in 1 .. Len(queue) /\ Head(queue) = queue[1] /\ Head(queue) \in Mutations
  BY <1>1
<1> QED BY <1>2, StoreAssumption DEF LogInv, QueueIsFresh

\* Settling the head of the queue leaves the rest of it fresh.
LEMMA SettleKeepsFresh ==
  ASSUME LogInv, process = "up", queue # <<>>, NEW o \in {"done", "failed"},
         Settle(Head(queue), o), process' = "up"
  PROVE  QueueIsFresh'
<1> DEFINE h == Head(queue)
<1>1. /\ queue \in Seq(Mutations)
      /\ outcome \in [Mutations -> {"new", "queued", "done", "failed", "lost"}]
  BY DEF LogInv, IInv, TypeOK
<1>2. h \in Mutations /\ h # NoMutation
  BY AtWork
<1>3. queue' = Tail(queue) /\ outcome' = [outcome EXCEPT ![h] = o]
  BY <1>2 DEF Settle
<1>4. /\ Len(queue') = Len(queue) - 1
      /\ Len(queue) \in Nat
      /\ h = queue[1]
      /\ \A i \in 1 .. Len(queue') : queue'[i] = queue[i + 1] /\ queue'[i] \in Mutations
  BY <1>1, <1>3
<1>5. ASSUME NEW i \in 1 .. Len(queue') PROVE outcome'[queue'[i]] = "queued"
  <2>1. i + 1 \in 1 .. Len(queue) /\ 1 \in 1 .. Len(queue) /\ i + 1 # 1
    BY <1>4
  <2>2. queue[i + 1] # queue[1] /\ outcome[queue[i + 1]] = "queued"
    BY <2>1 DEF LogInv, QueueIsFresh
  <2>3. queue'[i] # h /\ outcome[queue'[i]] = "queued" /\ queue'[i] \in Mutations
    BY <1>4, <2>2
  <2> QED BY <1>1, <1>3, <2>3
<1>6. ASSUME NEW i \in 1 .. Len(queue'), NEW j \in 1 .. Len(queue'), queue'[i] = queue'[j]
      PROVE  i = j
  <2>1. i + 1 \in 1 .. Len(queue) /\ j + 1 \in 1 .. Len(queue)
    BY <1>4
  <2>2. queue[i + 1] = queue[j + 1]
    BY <1>4, <1>6
  <2>3. i + 1 = j + 1
    BY <2>1, <2>2 DEF LogInv, QueueIsFresh
  <2> QED BY <2>3
<1> QED BY <1>5, <1>6 DEF QueueIsFresh

LEMMA SubmitLog ==
  ASSUME LogInv, NEW m \in Mutations, Submit(m)
  PROVE  QueueIsFresh' /\ FileIsMemory' /\ LogIsSettled'
<1>1. /\ process = "up" /\ outcome[m] = "new" /\ queue \in Seq(Mutations)
      /\ outcome \in [Mutations -> {"new", "queued", "done", "failed", "lost"}]
      /\ outcome' = [outcome EXCEPT ![m] = "queued"]
      /\ queue' = Append(queue, m)
      /\ UNCHANGED <<file, memory, process, writer, damage>>
  BY DEF LogInv, IInv, TypeOK, Submit
<1>2. /\ Len(queue') = Len(queue) + 1
      /\ Len(queue) \in Nat
      /\ queue'[Len(queue) + 1] = m
      /\ \A i \in 1 .. Len(queue) : queue'[i] = queue[i] /\ queue[i] \in Mutations
  BY <1>1
<1>3. \A i \in 1 .. Len(queue) : queue[i] # m /\ outcome[queue[i]] = "queued"
  BY <1>1 DEF LogInv, QueueIsFresh
<1>4. \A i \in 1 .. Len(queue') : i \in 1 .. Len(queue) \/ i = Len(queue) + 1
  BY <1>2
<1>5. \A i \in 1 .. Len(queue') : outcome'[queue'[i]] = "queued"
  BY <1>1, <1>2, <1>3, <1>4
<1>6. \A i, j \in 1 .. Len(queue') : queue'[i] = queue'[j] => i = j
  BY <1>2, <1>3, <1>4 DEF LogInv, QueueIsFresh
<1>7. FileIsMemory'
  BY <1>1 DEF LogInv, FileIsMemory
<1>8. LogIsSettled'
  <2>1. \A k \in Mutations : outcome[k] \in {"done", "lost"} => outcome'[k] = outcome[k]
    BY <1>1
  <2> QED BY <1>1, <2>1 DEF LogInv, LogIsSettled
<1> QED BY <1>1, <1>5, <1>6, <1>7, <1>8 DEF QueueIsFresh

LEMMA BeginLog ==
  ASSUME LogInv, Begin
  PROVE  QueueIsFresh' /\ FileIsMemory' /\ LogIsSettled'
<1> DEFINE h == Head(queue)
<1>1. /\ process = "up" /\ writer = Resting /\ writer.pc = "idle" /\ queue # <<>>
      /\ UNCHANGED <<file, memory, process, damage>>
      /\ \/ writer'.pc = "writing" /\ UNCHANGED <<queue, outcome>>
         \/ Settle(h, "failed")
  BY DEF Begin, Resting
<1>2. CASE writer'.pc = "writing" /\ UNCHANGED <<queue, outcome>>
  BY <1>1, <1>2 DEF LogInv, QueueIsFresh, FileIsMemory, LogIsSettled
<1>3. CASE Settle(h, "failed")
  <2>1. h \in Mutations /\ h # NoMutation /\ outcome[h] = "queued"
    BY <1>1, AtWork
  <2>2. writer' = Resting /\ writer'.pc = "idle" /\ outcome' = [outcome EXCEPT ![h] = "failed"]
    BY <1>3, <2>1 DEF Settle, Resting
  <2>3. \A k \in Mutations : outcome[k] \in {"done", "lost"} => outcome'[k] = outcome[k]
    BY <2>1, <2>2 DEF LogInv, IInv, TypeOK
  <2>4. QueueIsFresh'
    BY <1>1, <1>3, SettleKeepsFresh
  <2>5. FileIsMemory'
    BY <1>1, <2>2 DEF LogInv, FileIsMemory
  <2>6. LogIsSettled'
    BY <1>1, <2>3 DEF LogInv, LogIsSettled
  <2> QED BY <2>4, <2>5, <2>6
<1> QED BY <1>1, <1>2, <1>3

\* What Replace writes: memory, followed by the head of the queue if the
\* writer works for a mutation.
LEMMA WrittenLog ==
  ASSUME LogInv, writer.pc # "idle"
  PROVE  /\ process \in {"up", "booting"}
         /\ writer.draft \in Database
         /\ process = "booting" => /\ writer.mutation = NoMutation
                                   /\ writer.draft.log = memory.log
         /\ process = "up" => /\ queue # <<>>
                              /\ writer.mutation = Head(queue)
                              /\ writer.mutation \in Mutations
                              /\ outcome[writer.mutation] = "queued"
                              /\ writer.draft.log = Append(memory.log, writer.mutation)
<1>1. IInv /\ memory \in Database
  BY DEF LogInv, IInv, TypeOK
<1>2. /\ process \in {"up", "booting"}
      /\ writer.draft \in Database
      /\ process = "up" => writer.mutation \in Mutations /\ queue # <<>>
      /\ process = "booting" => writer.mutation = NoMutation
  BY <1>1, WriterFacts
<1>3. process = "booting" => writer.draft.log = memory.log
  BY <1>1 DEF IInv, WriterIsHead
<1>4. process = "up" =>
        /\ writer.mutation = Head(queue)
        /\ writer.draft = Appended(memory, writer.mutation)
  BY <1>1 DEF IInv, WriterIsHead
<1>5. process = "up" => writer.draft.log = Append(memory.log, writer.mutation)
  BY <1>1, <1>2, <1>4, DraftType
<1>6. process = "up" => outcome[writer.mutation] = "queued"
  BY <1>2, <1>4, AtWork
<1> QED BY <1>2, <1>3, <1>4, <1>5, <1>6

LEMMA ReplaceLog ==
  ASSUME LogInv, Replace
  PROVE  QueueIsFresh' /\ FileIsMemory' /\ LogIsSettled'
<1>1. /\ writer.pc = "writing" /\ file' = writer.draft
      /\ writer'.pc = "committing" /\ writer'.mutation = writer.mutation
      /\ UNCHANGED <<memory, process, queue, outcome>>
      /\ damage = "none" /\ damage' = "none"
  BY DEF Replace, Persisted, WrittenOver, FileIsMemory, LogInv, IInv, TypeOK
<1>2. /\ process \in {"up", "booting"}
      /\ writer.draft \in Database
      /\ process = "booting" => writer.draft.log = memory.log
      /\ process = "up" => /\ writer.mutation \in Mutations
                           /\ writer.draft.log = Append(memory.log, writer.mutation)
  BY <1>1, WrittenLog
<1>3. QueueIsFresh'
  BY <1>1 DEF LogInv, QueueIsFresh
<1>4. FileIsMemory'
  BY <1>1, <1>2, StoreAssumption DEF FileIsMemory
<1>5. LogIsSettled'
  <2>1. CASE process = "booting"
    <3>1. file'.log = file.log
      BY <1>1, <1>2, <2>1 DEF LogInv, IInv, FileFollows, Readable, FileIsMemory
    <3> QED BY <1>1, <3>1 DEF LogInv, LogIsSettled
  <2>2. CASE process = "up"
    <3>1. /\ file.log = memory.log
          /\ file'.log = Append(file.log, writer.mutation)
          /\ writer.mutation \in Mutations
          /\ file.log \in Seq(Mutations)
      BY <1>1, <1>2, <2>2 DEF LogInv, IInv, TypeOK, FileIsMemory, Database
    <3>2. \A m : Has(file'.log, m) => Has(file.log, m) \/ m = writer.mutation
      BY <3>1, AppendHas
    <3> QED BY <1>1, <3>1, <3>2 DEF LogInv, LogIsSettled
  <2> QED BY <1>2, <2>1, <2>2
<1> QED BY <1>3, <1>4, <1>5

LEMMA CommitLog ==
  ASSUME LogInv, Commit
  PROVE  QueueIsFresh' /\ FileIsMemory' /\ LogIsSettled'
<1> DEFINE m == writer.mutation
<1>1. /\ writer.pc = "committing" /\ writer'.pc = "idle"
      /\ memory' = writer.draft /\ process' = "up" /\ UNCHANGED <<file, damage>>
      /\ Settle(m, "done")
  BY DEF Commit, Settle, Resting
<1>2. /\ process \in {"up", "booting"}
      /\ process = "booting" => m = NoMutation
      /\ process = "up" => queue # <<>> /\ m = Head(queue) /\ m \in Mutations
  BY <1>1, WrittenLog
<1>3. FileIsMemory'
  <2>1. file \in Database /\ damage = "none" /\ file.log = writer.draft.log
    BY <1>1 DEF LogInv, IInv, FileFollows, Readable, FileIsMemory
  <2> QED BY <1>1, <2>1 DEF FileIsMemory
<1>4. CASE process = "booting"
  <2>1. queue = <<>> /\ UNCHANGED <<queue, outcome>>
    BY <1>1, <1>2, <1>4 DEF LogInv, QueueIsFresh, Settle
  <2>2. QueueIsFresh'
    BY <2>1 DEF LogInv, QueueIsFresh
  <2>3. LogIsSettled'
    BY <1>1, <1>2, <1>4, <2>1, StoreAssumption DEF LogInv, LogIsSettled
  <2> QED BY <1>3, <2>2, <2>3
<1>5. CASE process = "up"
  <2>1. QueueIsFresh'
    BY <1>1, <1>2, <1>5, SettleKeepsFresh
  <2>2. outcome' = [outcome EXCEPT ![m] = "done"]
    BY <1>1, <1>2, <1>5, StoreAssumption DEF Settle
  <2>3. /\ outcome'[m] = "done"
        /\ \A k \in Mutations : outcome[k] \in {"done", "lost"} => outcome'[k] \in {"done", "lost"}
    BY <1>2, <1>5, <2>2 DEF LogInv, IInv, TypeOK
  <2>4. LogIsSettled'
    BY <1>1, <2>3 DEF LogInv, LogIsSettled
  <2> QED BY <1>3, <2>1, <2>4
<1> QED BY <1>2, <1>4, <1>5

LEMMA CrashLog ==
  ASSUME LogInv, Crash
  PROVE  QueueIsFresh' /\ FileIsMemory' /\ LogIsSettled'
<1>1. /\ process # "down" /\ process' = "down" /\ queue' = <<>> /\ writer' = Resting
      /\ UNCHANGED <<file, memory, damage>>
      /\ outcome' = [m \in Mutations |-> IF outcome[m] = "queued" THEN "lost" ELSE outcome[m]]
  BY DEF Crash
<1>2. QueueIsFresh' /\ FileIsMemory'
  BY <1>1 DEF LogInv, QueueIsFresh, FileIsMemory, Resting
<1>3. ASSUME NEW m \in Mutations, Has(file.log, m)
      PROVE  outcome'[m] \in {"done", "lost"}
  <2>1. outcome[m] \in {"done", "lost"} \/ (writer.pc = "committing" /\ writer.mutation = m)
    BY <1>3 DEF LogInv, LogIsSettled
  <2>2. writer.pc = "committing" /\ writer.mutation = m => outcome[m] = "queued"
    <3> SUFFICES ASSUME writer.pc = "committing", writer.mutation = m
                 PROVE  outcome[m] = "queued"
      OBVIOUS
    <3>1. process = "booting" => writer.mutation = NoMutation
      BY WrittenLog
    <3>2. process \in {"up", "booting"} /\ (process = "up" => outcome[writer.mutation] = "queued")
      BY WrittenLog
    <3> QED BY <3>1, <3>2, StoreAssumption
  <2> QED BY <1>1, <2>1, <2>2
<1> QED BY <1>1, <1>2, <1>3 DEF LogIsSettled

LEMMA InitializeLog ==
  ASSUME LogInv, Initialize
  PROVE  QueueIsFresh' /\ FileIsMemory' /\ LogIsSettled'
<1>1. /\ process = "down" /\ memory' = file /\ UNCHANGED <<file, queue, outcome, damage>>
      /\ writer = Resting
      /\ writer'.pc \in {"idle", "writing"}
  BY StoreAssumption DEF Initialize, LogInv, FileIsMemory, IInv, WriterIsHead, Resting
<1> QED BY <1>1 DEF LogInv, QueueIsFresh, FileIsMemory, LogIsSettled, Resting

LEMMA LogStep ==
  ASSUME ~ReplaceMayFail, ~MayBeEdited, LogInv, IInv', [Next]_vars
  PROVE  LogInv'
<1>1. ~OpenDirectly /\ ~PersistFails /\ ~Overwrite /\ ~Edit
  BY DEF OpenDirectly, PersistFails, Overwrite, Edit, LogInv, FileIsMemory
<1>2. CASE UNCHANGED vars
  BY <1>2, Unaffected DEF vars, LogInv
<1>3. ASSUME NEW r \in Readers, ReadFile(r) \/ Compare(r) PROVE LogInv'
  BY <1>3, Unaffected DEF ReadFile, Compare, LogInv
<1> QED
  BY <1>1, <1>2, <1>3, SubmitLog, BeginLog, ReplaceLog, CommitLog, CrashLog, InitializeLog
  DEF Next, Write, LogInv

\* The invariant behind StoreIsADurableLog holds in every reachable state.
THEOREM LogAlways ==
  ASSUME ~ReplaceMayFail, ~MayBeEdited
  PROVE  Spec => []LogInv
<1>1. Init => LogInv
  BY LogInitially
<1>2. LogInv /\ IInv' /\ [Next]_vars => LogInv'
  BY LogStep
<1> QED BY <1>1, <1>2, Inductive, PTL DEF Spec

\* The server is down and has left a torn or damaged file, or was started from
\* a damaged one.
Lost ==
  \/ (file = Torn \/ damage = "present") /\ process = "down"
  \/ damage = "loaded"

\* Every step adds at most one entry to the log or acknowledges one.
LEMMA StepIsLogStep ==
  ASSUME ~ReplaceMayFail, ~MayBeEdited, LogInv, LogInv', [Next]_vars
  PROVE  [Promise!LogNext]_<<Log, Acknowledged, Lost>>
<1>0. Log = file.log /\ Log' = file'.log /\ ~Lost /\ ~Lost'
  BY StoreAssumption DEF LogInv, FileIsMemory, Log, Lost
<1> DEFINE Same == file'.log = file.log /\ Acknowledged' = Acknowledged
           Step == Same \/ (\E e \in Mutations : Promise!Add(e) \/ Promise!Acknowledge(e))
           m == writer.mutation
<1> SUFFICES Step
  BY <1>0 DEF Promise!LogNext, Lost
<1>1. /\ outcome \in [Mutations -> {"new", "queued", "done", "failed", "lost"}]
      /\ file \in Database
      /\ ~OpenDirectly /\ ~PersistFails /\ ~Overwrite /\ ~Edit
  BY DEF OpenDirectly, PersistFails, Overwrite, Edit, LogInv, FileIsMemory, IInv, TypeOK
<1>2. CASE UNCHANGED vars
  BY <1>2 DEF vars, Acknowledged
<1>3. ASSUME NEW k \in Mutations, Submit(k) PROVE Same
  BY <1>1, <1>3 DEF Submit, Acknowledged
<1>4. CASE Begin
  <2>1. Head(queue) \in Mutations /\ Head(queue) # NoMutation /\ outcome[Head(queue)] = "queued"
    BY <1>4, AtWork DEF Begin
  <2>2. UNCHANGED outcome \/ outcome' = [outcome EXCEPT ![Head(queue)] = "failed"]
    BY <1>4, <2>1 DEF Begin, Settle
  <2>3. Acknowledged' = Acknowledged
    BY <1>1, <2>1, <2>2 DEF Acknowledged
  <2> QED BY <1>4, <2>3 DEF Begin
<1>5. CASE Replace
  <2>1. /\ writer.pc = "writing" /\ file' = writer.draft /\ Acknowledged' = Acknowledged
    BY <1>5 DEF Replace, Persisted, Acknowledged
  <2>2. CASE process = "booting"
    BY <2>1, <2>2, WrittenLog DEF LogInv, IInv, FileFollows, Readable, FileIsMemory
  <2>3. CASE process = "up"
    <3>1. /\ m \in Mutations /\ outcome[m] = "queued"
          /\ file'.log = Append(file.log, m)
      BY <2>1, <2>3, WrittenLog DEF LogInv, FileIsMemory
    <3>2. ~Has(file.log, m)
      BY <2>1, <3>1 DEF LogInv, LogIsSettled
    <3>3. Promise!Add(m)
      BY <1>0, <2>1, <3>1, <3>2 DEF Promise!Add, Promise!InLog, Has, Acknowledged, Lost
    <3> QED BY <3>1, <3>3
  <2> QED BY <2>1, <2>2, <2>3, WrittenLog
<1>6. CASE Commit
  <2>1. writer.pc = "committing" /\ UNCHANGED file /\ Settle(m, "done")
    BY <1>6 DEF Commit
  <2>2. CASE process = "booting"
    <3>1. m = NoMutation
      BY <2>1, <2>2, WrittenLog
    <3>2. UNCHANGED outcome
      BY <2>1, <3>1 DEF Settle
    <3> QED BY <2>1, <3>2 DEF Acknowledged
  <2>3. CASE process = "up"
    <3>1. m \in Mutations /\ m # NoMutation
      BY <2>1, <2>3, WrittenLog, StoreAssumption
    <3>2. outcome' = [outcome EXCEPT ![m] = "done"]
      BY <2>1, <3>1 DEF Settle
    <3>3. Acknowledged' = Acknowledged \cup {m}
      BY <1>1, <3>1, <3>2 DEF Acknowledged
    <3>4. Has(file.log, m)
      <4>1. file.log = writer.draft.log /\ memory \in Database
        BY <2>1 DEF LogInv, IInv, TypeOK, FileFollows, Readable, FileIsMemory
      <4>2. writer.draft.log = Append(memory.log, m) /\ memory.log \in Seq(Mutations)
        BY <2>1, <2>3, <4>1, WrittenLog DEF Database
      <4> QED BY <3>1, <4>1, <4>2, AppendHas
    <3>5. PICK e \in Mutations : e = m
      BY <3>1
    <3>6. Promise!Acknowledge(e)
      BY <1>0, <2>1, <3>3, <3>4, <3>5
      DEF Promise!Acknowledge, Promise!InLog, Has, Acknowledged, Lost
    <3> QED BY <3>5, <3>6
  <2> QED BY <2>1, <2>2, <2>3, WrittenLog
<1>7. ASSUME NEW r \in Readers, ReadFile(r) \/ Compare(r) PROVE Same
  BY <1>7 DEF ReadFile, Compare, Acknowledged
<1>8. CASE Crash
  BY <1>1, <1>8 DEF Crash, Acknowledged
<1>9. CASE Initialize
  BY <1>9 DEF Initialize, Acknowledged
<1> QED
  BY <1>1, <1>2, <1>3, <1>4, <1>5, <1>6, <1>7, <1>8, <1>9 DEF Next, Write

\* Where the temporary file can always be written and renamed over the real one,
\* so that the truncating fallback is never taken, and nobody edits the file, it is
\* a durable log: each mutation enters it once, at its end, stays there through
\* crashes and restarts, and is acknowledged only then.
THEOREM StoreIsADurableLog ==
  ASSUME ~ReplaceMayFail, ~MayBeEdited
  PROVE  Spec => ImplementsLog
<1>1. Init => Promise!LogInit
  <2> SUFFICES ASSUME Init PROVE Promise!LogInit
    OBVIOUS
  <2>1. file = Empty /\ memory = Empty /\ process = "up" /\ damage = "none"
    BY DEF Init
  <2>2. Empty.log = <<>>
    BY DEF Empty
  <2>3. Log = <<>>
    BY <2>1, <2>2 DEF Log
  <2>4. Acknowledged = {}
    BY DEF Init, Acknowledged
  <2> QED BY <2>1, <2>3, <2>4 DEF Promise!LogInit, Acknowledged
<1>2. LogInv /\ LogInv' /\ [Next]_vars => [Promise!LogNext]_<<Log, Acknowledged, Lost>>
  BY StepIsLogStep
<1> QED
  BY <1>1, <1>2, LogAlways, PTL
  DEF Spec, ImplementsLog, Promise!LogSpec, Promise!logVars, Acknowledged, Lost
=============================================================================
