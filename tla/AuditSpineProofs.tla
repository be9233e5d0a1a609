--------------------------- MODULE AuditSpineProofs ---------------------------
(***************************************************************************)
(* Proofs about AuditSpine, for any set of emitters, any number of records *)
(* of a life and any number of crashes and restarts.                       *)
(***************************************************************************)
EXTENDS AuditSpine, FiniteSetTheorems, TLAPS

-------------------------------------------------------------------------------
(* The inductive invariant *)

\* An emit runs in the current process and publishes a number of its own, one the
\* counter has passed.
Numbered ==
    /\ up => life \in Nat \ {0}
    /\ \A e \in Emitters : pc[e] # "idle" =>
         /\ up
         /\ rec[e] \in Records /\ rec[e].life = life /\ rec[e].seq < seq
    /\ \A e, d \in Emitters : pc[e] # "idle" /\ pc[d] # "idle" /\ rec[e] = rec[d] => e = d

\* The mutex: one emit at a time is between Write and Sync, the sink is open, and the
\* last chunk is its line.
Locked ==
    /\ \A e, d \in Emitters : pc[e] = "written" /\ pc[d] = "written" => e = d
    /\ \A e \in Emitters : pc[e] = "written" =>
         /\ ~closed
         /\ Len(file) > 0
         /\ file[Len(file)] = [rec |-> rec[e], whole |-> TRUE]

\* What is in the file was numbered in this life or an earlier one, and an emit that
\* has not written yet is not in it.
Written ==
    /\ \A i \in 1..Len(file) :
         /\ file[i].rec.life <= life
         /\ up /\ file[i].rec.life = life => file[i].rec.seq < seq
    /\ \A e \in Emitters : pc[e] = "numbered" =>
         \A i \in 1..Len(file) : file[i].rec # rec[e]

\* While the sink is open, every line of this life is acknowledged but the one whose
\* fsync is under way.
Confirmed ==
    up /\ ~closed =>
        \A i \in 1..Len(file) :
            file[i].rec.life = life =>
                file[i].rec \in acked \/ (i = Len(file) /\ ~Unlocked)

SpineInv ==
    /\ TypeOK /\ Numbered /\ Locked /\ Written /\ Confirmed
    /\ AckedIsDurable /\ NothingAfterUnconfirmed /\ NoDuplicateRecord

-------------------------------------------------------------------------------
(* It holds at the start, and every step keeps it *)

LEMMA FileType ==
  ASSUME TypeOK, NEW i \in 1..Len(file)
  PROVE  file[i].rec \in Records /\ file[i].rec.life \in Nat /\ file[i].rec.seq \in Nat
  <1>1. file[i] \in Chunks
    BY DEF TypeOK
  <1>2. file[i].rec \in Records
    BY <1>1 DEF Chunks
  <1> QED BY <1>2, AuditAssumption DEF Records

LEMMA InitInv == Init => SpineInv
  <1> SUFFICES ASSUME Init PROVE SpineInv
    OBVIOUS
  <1>1. TypeOK
    <2>1. up \in BOOLEAN /\ closed \in BOOLEAN /\ acked \subseteq Records
      BY DEF Init
    <2>2. life \in 0..MaxLives /\ seq \in 0..MaxSeq
      BY AuditAssumption DEF Init
    <2>3. file \in Seq(Chunks) /\ synced \in 0..Len(file)
      BY DEF Init
    <2>4. pc \in [Emitters -> PCs] /\ rec \in [Emitters -> Records \cup {NoRecord}]
      BY DEF Init, PCs
    <2> QED BY <2>1, <2>2, <2>3, <2>4 DEF TypeOK
  <1>2. Numbered /\ Locked
    BY DEF Init, Numbered, Locked
  <1>3. Len(file) = 0
    BY DEF Init
  <1>4. Written /\ Confirmed /\ AckedIsDurable /\ NothingAfterUnconfirmed /\ NoDuplicateRecord
    BY <1>3 DEF Init, Written, Confirmed, AckedIsDurable, NothingAfterUnconfirmed, NoDuplicateRecord
  <1> QED BY <1>1, <1>2, <1>4 DEF SpineInv

\* A step that leaves the file, the acknowledgements and the process as they are, and
\* after which no emit is before its write or holds the mutex that was not there
\* before: used for the steps that fail or return.
LEMMA QuietStep ==
  ASSUME SpineInv, NEW e \in Emitters, UNCHANGED <<procVars, file, synced, acked>>,
         pc[e] # "written" \/ closed', pc'[e] \in {"done", "idle"},
         pc' = [pc EXCEPT ![e] = pc'[e]],
         rec' = rec \/ (pc'[e] = "idle" /\ rec' = [rec EXCEPT ![e] = NoRecord]),
         pc[e] # "idle",
         closed' \in BOOLEAN, closed => closed',
         closed' # closed => pc[e] = "written" \/ Unlocked
  PROVE  SpineInv'
  <1>1. \A d \in Emitters \ {e} : pc'[d] = pc[d] /\ rec'[d] = rec[d]
    BY DEF SpineInv, TypeOK
  <1>2. TypeOK'
    BY DEF SpineInv, TypeOK, PCs, procVars
  <1>3. Numbered'
    BY <1>1 DEF SpineInv, TypeOK, Numbered, procVars
  <1>4. Locked'
    BY <1>1 DEF SpineInv, TypeOK, Locked, Unlocked
  <1>5. Written'
    BY <1>1 DEF SpineInv, TypeOK, Written, procVars
  <1>6. Confirmed'
    <2>1. CASE closed'
      BY <2>1 DEF Confirmed
    <2>2. CASE ~closed'
      <3>1. ~closed /\ (Unlocked' <=> Unlocked)
        BY <2>2, <1>1 DEF Unlocked, SpineInv, TypeOK
      <3> QED BY <3>1 DEF SpineInv, Confirmed, procVars
    <2> QED BY <2>1, <2>2
  <1>7. AckedIsDurable' /\ NothingAfterUnconfirmed' /\ NoDuplicateRecord'
    BY DEF SpineInv, AckedIsDurable, NothingAfterUnconfirmed, NoDuplicateRecord
  <1> QED BY <1>2, <1>3, <1>4, <1>5, <1>6, <1>7 DEF SpineInv

LEMMA OpenFileSinkStep == SpineInv /\ OpenFileSink => SpineInv'
  <1> SUFFICES ASSUME SpineInv, OpenFileSink PROVE SpineInv'
    OBVIOUS
  <1>1. life \in Nat /\ \A e \in Emitters : pc[e] = "idle"
    BY AuditAssumption DEF SpineInv, TypeOK, Numbered, OpenFileSink
  <1>2. \A i \in 1..Len(file) : file[i].rec.life \in Nat /\ file[i].rec.life < life'
    BY <1>1, FileType DEF SpineInv, Written, OpenFileSink
  <1>3. TypeOK'
    <2>1. life + 1 \in 0..MaxLives /\ 0 \in 0..MaxSeq
      BY <1>1, AuditAssumption DEF OpenFileSink
    <2> QED BY <2>1 DEF SpineInv, TypeOK, OpenFileSink
  <1>4. Numbered' /\ Locked'
    BY <1>1 DEF Numbered, Locked, OpenFileSink
  <1>5. Written' /\ Confirmed'
    BY <1>1, <1>2 DEF Written, Confirmed, OpenFileSink
  <1>6. AckedIsDurable' /\ NothingAfterUnconfirmed' /\ NoDuplicateRecord'
    BY DEF SpineInv, AckedIsDurable, NothingAfterUnconfirmed, NoDuplicateRecord, OpenFileSink
  <1> QED BY <1>3, <1>4, <1>5, <1>6 DEF SpineInv

LEMMA AssignSequenceStep ==
  ASSUME SpineInv, NEW e \in Emitters, AssignSequence(e)
  PROVE  SpineInv'
  <1>1. /\ \A d \in Emitters \ {e} : pc'[d] = pc[d] /\ rec'[d] = rec[d]
        /\ pc'[e] = "numbered" /\ rec'[e] = [life |-> life, seq |-> seq]
        /\ seq \in Nat /\ seq' = seq + 1 /\ life \in 1..MaxLives
    BY AuditAssumption DEF SpineInv, TypeOK, Numbered, AssignSequence
  <1>2. rec'[e] \in Records
    BY <1>1, AuditAssumption DEF AssignSequence, Records, SpineInv, TypeOK
  <1>3. TypeOK'
    BY <1>1, <1>2, AuditAssumption DEF SpineInv, TypeOK, AssignSequence, PCs
  <1>4. Numbered'
    <2>1. \A d \in Emitters \ {e} : pc[d] # "idle" => rec[d].seq < seq /\ rec[d].seq \in Nat
      BY DEF SpineInv, Numbered, Records
    <2>2. \A d \in Emitters : pc'[d] # "idle" =>
             up' /\ rec'[d] \in Records /\ rec'[d].life = life' /\ rec'[d].seq < seq'
      BY <1>1, <1>2, <2>1 DEF SpineInv, Numbered, AssignSequence
    <2>3. \A d \in Emitters \ {e} : pc'[d] # "idle" => rec'[d] # rec'[e]
      BY <1>1, <2>1
    <2> QED BY <1>1, <2>2, <2>3 DEF SpineInv, Numbered, AssignSequence
  <1>5. Locked'
    BY <1>1 DEF SpineInv, Locked, AssignSequence
  <1>6. Written'
    <2>1. \A i \in 1..Len(file) : up /\ file[i].rec.life = life => file[i].rec.seq < seq
      BY DEF SpineInv, Written
    <2>2. \A i \in 1..Len(file) : file[i].rec.seq \in Nat
      BY FileType DEF SpineInv
    <2>3. \A i \in 1..Len(file) : file[i].rec # rec'[e]
      BY <1>1, <2>1, <2>2 DEF AssignSequence
    <2> QED BY <1>1, <2>1, <2>2, <2>3 DEF SpineInv, Written, AssignSequence
  <1>7. Confirmed'
    <2>1. Unlocked' <=> Unlocked
      BY <1>1 DEF Unlocked, AssignSequence
    <2> QED BY <2>1 DEF SpineInv, Confirmed, AssignSequence
  <1>8. AckedIsDurable' /\ NothingAfterUnconfirmed' /\ NoDuplicateRecord'
    BY DEF SpineInv, AckedIsDurable, NothingAfterUnconfirmed, NoDuplicateRecord, AssignSequence
  <1> QED BY <1>3, <1>4, <1>5, <1>6, <1>7, <1>8 DEF SpineInv

\* One more chunk after an open sink's confirmed lines, whole or torn, keeps what the
\* invariant says of the file.
LEMMA AppendKeeps ==
  ASSUME SpineInv, NEW e \in Emitters, pc[e] = "numbered", Unlocked, ~closed,
         NEW w \in BOOLEAN, file' = Append(file, [rec |-> rec[e], whole |-> w]),
         UNCHANGED <<life, synced, acked>>
  PROVE  /\ file' \in Seq(Chunks) /\ synced' \in 0..Len(file')
         /\ Len(file') = Len(file) + 1
         /\ \A i \in 1..Len(file) : file'[i] = file[i]
         /\ file'[Len(file')] = [rec |-> rec[e], whole |-> w]
         /\ AckedIsDurable' /\ NothingAfterUnconfirmed' /\ NoDuplicateRecord'
  <1>1. /\ file \in Seq(Chunks) /\ Len(file) \in Nat /\ synced \in 0..Len(file)
        /\ up /\ rec[e] \in Records /\ rec[e].life = life
    BY DEF SpineInv, TypeOK, Numbered
  <1>2. [rec |-> rec[e], whole |-> w] \in Chunks
    BY <1>1 DEF Chunks
  <1>3. /\ file' \in Seq(Chunks)
        /\ Len(file') = Len(file) + 1
        /\ \A i \in 1..Len(file) : file'[i] = file[i]
        /\ file'[Len(file) + 1] = [rec |-> rec[e], whole |-> w]
    BY <1>1, <1>2
  <1>4. AckedIsDurable'
    BY <1>1, <1>3 DEF SpineInv, AckedIsDurable
  <1>5. NothingAfterUnconfirmed'
    <2> SUFFICES ASSUME NEW i \in 1..Len(file),
                        file'[i].rec.life = file'[i + 1].rec.life
                 PROVE  file'[i].rec \in acked
      BY <1>1, <1>3 DEF NothingAfterUnconfirmed
    <2>1. CASE i = Len(file)
      BY <2>1, <1>1, <1>3 DEF SpineInv, Confirmed
    <2>2. CASE i \in 1..(Len(file) - 1)
      BY <2>2, <1>1, <1>3 DEF SpineInv, NothingAfterUnconfirmed
    <2> QED BY <1>1, <2>1, <2>2
  <1>6. NoDuplicateRecord'
    <2>1. \A i \in 1..Len(file) : file[i].rec # rec[e]
      BY DEF SpineInv, Written
    <2> QED BY <1>1, <1>3, <2>1 DEF SpineInv, NoDuplicateRecord
  <1> QED BY <1>1, <1>3, <1>4, <1>5, <1>6

LEMMA WriteLineStep ==
  ASSUME SpineInv, NEW e \in Emitters, WriteLine(e)
  PROVE  SpineInv'
  <1>1. /\ \A d \in Emitters \ {e} : pc'[d] = pc[d] /\ pc[d] # "written"
        /\ pc'[e] = "written" /\ rec' = rec
        /\ up /\ rec[e] \in Records /\ rec[e].life = life /\ rec[e].seq < seq
    BY DEF SpineInv, TypeOK, Numbered, WriteLine, Unlocked
  <1>2. /\ file' \in Seq(Chunks) /\ synced' \in 0..Len(file')
        /\ Len(file') = Len(file) + 1
        /\ \A i \in 1..Len(file) : file'[i] = file[i]
        /\ file'[Len(file')] = [rec |-> rec[e], whole |-> TRUE]
        /\ AckedIsDurable' /\ NothingAfterUnconfirmed' /\ NoDuplicateRecord'
    BY AppendKeeps DEF WriteLine, procVars
  <1>3. TypeOK'
    BY <1>2 DEF SpineInv, TypeOK, WriteLine, procVars, PCs
  <1>4. Len(file) \in Nat /\ life \in Nat /\ seq \in Nat
    BY AuditAssumption DEF SpineInv, TypeOK
  <1>5. Numbered'
    BY <1>1 DEF SpineInv, Numbered, WriteLine, procVars
  <1>6. Locked'
    <2>1. \A d \in Emitters : pc'[d] = "written" => d = e
      BY <1>1
    <2>2. Len(file') > 0 /\ ~closed'
      BY <1>2, <1>4 DEF WriteLine
    <2> QED BY <1>1, <1>2, <2>1, <2>2 DEF Locked
  <1>7. Written'
    <2>1. \A d \in Emitters : pc'[d] = "numbered" => d # e /\ rec[d] # rec[e]
      BY <1>1 DEF SpineInv, Numbered, WriteLine
    <2>2. \A i \in 1..Len(file') : i \in 1..Len(file) \/ i = Len(file')
      BY <1>2, <1>4
    <2>3. \A i \in 1..Len(file') :
             file'[i].rec.life <= life /\ (file'[i].rec.life = life => file'[i].rec.seq < seq)
      BY <1>1, <1>2, <1>4, <2>2 DEF SpineInv, Written
    <2>4. \A d \in Emitters : pc'[d] = "numbered" =>
             \A i \in 1..Len(file') : file'[i].rec # rec[d]
      BY <1>1, <1>2, <2>1, <2>2 DEF SpineInv, Written
    <2> QED BY <1>1, <2>3, <2>4 DEF Written, WriteLine, procVars
  <1>8. Confirmed'
    <2>1. \A i \in 1..Len(file') : i \in 1..Len(file) \/ i = Len(file')
      BY <1>2, <1>4
    <2> QED BY <1>1, <1>2, <2>1 DEF SpineInv, Confirmed, WriteLine, procVars, Unlocked
  <1> QED BY <1>2, <1>3, <1>5, <1>6, <1>7, <1>8 DEF SpineInv

\* The part of the line that reached the file is its last chunk for this life: the
\* sink is sealed.
LEMMA TornLineStep ==
  ASSUME SpineInv, NEW e \in Emitters, WriteFails(e), file' # file
  PROVE  SpineInv'
  <1>1. /\ \A d \in Emitters \ {e} : pc'[d] = pc[d] /\ pc[d] # "written"
        /\ pc'[e] = "done" /\ rec' = rec /\ closed'
        /\ up /\ rec[e] \in Records /\ rec[e].life = life /\ rec[e].seq < seq
    BY DEF SpineInv, TypeOK, Numbered, WriteFails, Unlocked
  <1>2. /\ file' \in Seq(Chunks) /\ synced' \in 0..Len(file')
        /\ Len(file') = Len(file) + 1
        /\ \A i \in 1..Len(file) : file'[i] = file[i]
        /\ file'[Len(file')] = [rec |-> rec[e], whole |-> FALSE]
        /\ AckedIsDurable' /\ NothingAfterUnconfirmed' /\ NoDuplicateRecord'
    BY AppendKeeps DEF WriteFails, procVars
  <1>3. TypeOK'
    BY <1>2 DEF SpineInv, TypeOK, WriteFails, procVars, PCs
  <1>4. Len(file) \in Nat /\ life \in Nat /\ seq \in Nat
    BY AuditAssumption DEF SpineInv, TypeOK
  <1>5. Numbered'
    BY <1>1 DEF SpineInv, Numbered, WriteFails, procVars
  <1>6. Locked' /\ Confirmed'
    BY <1>1 DEF Locked, Confirmed
  <1>7. Written'
    <2>1. \A d \in Emitters : pc'[d] = "numbered" => d # e /\ rec[d] # rec[e]
      BY <1>1 DEF SpineInv, Numbered, WriteFails
    <2>2. \A i \in 1..Len(file') : i \in 1..Len(file) \/ i = Len(file')
      BY <1>2, <1>4
    <2>3. \A i \in 1..Len(file') :
             file'[i].rec.life <= life /\ (file'[i].rec.life = life => file'[i].rec.seq < seq)
      BY <1>1, <1>2, <1>4, <2>2 DEF SpineInv, Written
    <2>4. \A d \in Emitters : pc'[d] = "numbered" =>
             \A i \in 1..Len(file') : file'[i].rec # rec[d]
      BY <1>1, <1>2, <2>1, <2>2 DEF SpineInv, Written
    <2> QED BY <1>1, <2>3, <2>4 DEF Written, WriteFails, procVars
  <1> QED BY <1>2, <1>3, <1>5, <1>6, <1>7 DEF SpineInv

LEMMA WriteFailsStep ==
  ASSUME SpineInv, NEW e \in Emitters, WriteFails(e)
  PROVE  SpineInv'
  <1>1. CASE file' # file
    BY <1>1, TornLineStep
  <1>2. CASE file' = file
    <2>1. pc'[e] = "done" /\ pc' = [pc EXCEPT ![e] = pc'[e]]
      BY DEF WriteFails, SpineInv, TypeOK
    <2> QED BY <1>2, <2>1, QuietStep DEF WriteFails, procVars
  <1> QED BY <1>1, <1>2

LEMMA SyncStep ==
  ASSUME SpineInv, NEW e \in Emitters, Sync(e)
  PROVE  SpineInv'
  <1>1. /\ \A d \in Emitters \ {e} : pc'[d] = pc[d] /\ pc[d] # "written"
        /\ pc'[e] = "done" /\ rec' = rec /\ rec[e] \in Records
        /\ Len(file) \in Nat \ {0} /\ synced' = Len(file)
        /\ file[Len(file)] = [rec |-> rec[e], whole |-> TRUE]
    BY DEF SpineInv, TypeOK, Numbered, Locked, Sync
  <1>2. TypeOK'
    BY <1>1 DEF SpineInv, TypeOK, Sync, procVars, PCs
  <1>3. Numbered'
    BY <1>1 DEF SpineInv, Numbered, Sync, procVars
  <1>4. Locked'
    BY <1>1 DEF Locked
  <1>5. Written'
    BY <1>1 DEF SpineInv, Written, Sync, procVars
  <1>6. Confirmed'
    <2>1. file[Len(file)].rec \in acked'
      BY <1>1 DEF Sync
    <2> QED BY <2>1 DEF SpineInv, Confirmed, Sync, procVars
  <1>7. AckedIsDurable'
    <2>1. ASSUME NEW r \in acked'
          PROVE  \E i \in 1..Len(file) : file[i] = [rec |-> r, whole |-> TRUE]
      <3>1. CASE r \in acked
        <4>1. PICK i \in 1..synced : file[i] = [rec |-> r, whole |-> TRUE]
          BY <3>1 DEF SpineInv, AckedIsDurable
        <4>2. i \in 1..Len(file)
          BY <1>1 DEF SpineInv, TypeOK
        <4> QED BY <4>1, <4>2
      <3>2. CASE r = rec[e]
        BY <3>2, <1>1
      <3> QED BY <2>1, <3>1, <3>2 DEF Sync
    <2> QED BY <1>1, <2>1 DEF AckedIsDurable, Sync
  <1>8. NothingAfterUnconfirmed' /\ NoDuplicateRecord'
    BY DEF SpineInv, NothingAfterUnconfirmed, NoDuplicateRecord, Sync
  <1> QED BY <1>2, <1>3, <1>4, <1>5, <1>6, <1>7, <1>8 DEF SpineInv

\* The steps of an emit that fail or return leave the file alone.
LEMMA FailOrReturnStep ==
  ASSUME SpineInv, NEW e \in Emitters,
         RefuseEarly(e) \/ PublishClosed(e) \/ SyncFails(e) \/ Return(e)
  PROVE  SpineInv'
  <1>1. CASE RefuseEarly(e) \/ PublishClosed(e)
    <2>1. pc'[e] = "done" /\ pc' = [pc EXCEPT ![e] = pc'[e]] /\ closed \in BOOLEAN
      BY <1>1 DEF RefuseEarly, PublishClosed, SpineInv, TypeOK
    <2> QED BY <1>1, <2>1, QuietStep DEF RefuseEarly, PublishClosed, procVars
  <1>2. CASE SyncFails(e)
    <2>1. pc'[e] = "done" /\ pc' = [pc EXCEPT ![e] = pc'[e]]
      BY <1>2 DEF SyncFails, SpineInv, TypeOK
    <2> QED BY <1>2, <2>1, QuietStep DEF SyncFails, procVars
  <1>3. CASE Return(e)
    <2>1. pc'[e] = "idle" /\ pc' = [pc EXCEPT ![e] = pc'[e]] /\ closed \in BOOLEAN
      BY <1>3 DEF Return, SpineInv, TypeOK
    <2> QED BY <1>3, <2>1, QuietStep DEF Return, procVars
  <1> QED BY <1>1, <1>2, <1>3

LEMMA CloseStep == SpineInv /\ Close => SpineInv'
  <1> SUFFICES ASSUME SpineInv, Close PROVE SpineInv'
    OBVIOUS
  <1>1. TypeOK' /\ Numbered' /\ Written'
    BY DEF SpineInv, TypeOK, Numbered, Written, Close, procVars
  <1>2. Locked' /\ Confirmed'
    BY DEF Locked, Confirmed, Close, Unlocked
  <1>3. AckedIsDurable' /\ NothingAfterUnconfirmed' /\ NoDuplicateRecord'
    BY DEF SpineInv, AckedIsDurable, NothingAfterUnconfirmed, NoDuplicateRecord, Close
  <1> QED BY <1>1, <1>2, <1>3 DEF SpineInv

\* What is left of the file after a crash is a prefix of it that holds at least what
\* was synced, with the records it had.
LEMMA CrashStep ==
  ASSUME SpineInv, ProcessGone, NEW n \in synced..Len(file), synced' \in synced..n,
         file' \in Seq(Chunks), Len(file') = n,
         \A i \in 1..n : file'[i].rec = file[i].rec,
         \A i \in 1..synced : file'[i] = file[i]
  PROVE  SpineInv'
  <1>1. /\ Len(file) \in Nat /\ synced \in Nat /\ n \in Nat /\ n <= Len(file)
        /\ ~up' /\ closed' /\ \A e \in Emitters : pc'[e] = "idle"
        /\ life' = life /\ acked' = acked
    BY DEF SpineInv, TypeOK, ProcessGone
  <1>2. TypeOK'
    <2>1. synced' \in 0..Len(file') /\ 0 \in 0..MaxSeq
      BY <1>1, AuditAssumption
    <2>2. pc' \in [Emitters -> PCs] /\ rec' \in [Emitters -> Records \cup {NoRecord}]
      BY DEF ProcessGone, PCs
    <2> QED BY <1>1, <2>1, <2>2 DEF SpineInv, TypeOK, ProcessGone
  <1>3. Numbered' /\ Locked' /\ Confirmed'
    BY <1>1 DEF Numbered, Locked, Confirmed
  <1>4. Written'
    BY <1>1 DEF SpineInv, Written
  <1>5. AckedIsDurable'
    <2> SUFFICES ASSUME NEW r \in acked
                 PROVE  \E i \in 1..synced' : file'[i] = [rec |-> r, whole |-> TRUE]
      BY <1>1 DEF AckedIsDurable
    <2>1. PICK i \in 1..synced : file[i] = [rec |-> r, whole |-> TRUE]
      BY DEF SpineInv, AckedIsDurable
    <2> QED BY <1>1, <2>1
  <1>6. NothingAfterUnconfirmed'
    <2> SUFFICES ASSUME NEW i \in 1..(n - 1), file'[i].rec.life = file'[i + 1].rec.life
                 PROVE  file'[i].rec \in acked
      BY <1>1 DEF NothingAfterUnconfirmed
    <2>1. i \in 1..n /\ i + 1 \in 1..n /\ i \in 1..(Len(file) - 1)
      BY <1>1
    <2> QED BY <1>1, <2>1 DEF SpineInv, NothingAfterUnconfirmed
  <1>7. NoDuplicateRecord'
    BY <1>1 DEF SpineInv, NoDuplicateRecord
  <1> QED BY <1>2, <1>3, <1>4, <1>5, <1>6, <1>7 DEF SpineInv

LEMMA ExitStep == SpineInv /\ Exit => SpineInv'
  <1> SUFFICES ASSUME SpineInv, Exit PROVE SpineInv'
    OBVIOUS
  <1>1. /\ Len(file) \in synced..Len(file) /\ synced' \in synced..Len(file)
        /\ file' = file /\ file \in Seq(Chunks)
    BY DEF SpineInv, TypeOK, Exit
  <1> QED BY <1>1, CrashStep DEF Exit

\* A power loss leaves a prefix of the file, the synced part as it was and every chunk
\* with its record.
LEMMA CutKeepsRecords ==
  ASSUME TypeOK, PowerLoss
  PROVE  /\ synced' \in synced..Len(file) /\ Len(file') = synced'
         /\ file' \in Seq(Chunks)
         /\ \A i \in 1..Len(file') : file'[i].rec = file[i].rec
         /\ \A i \in 1..synced : file'[i] = file[i]
  <1>1. PICK n \in synced..Len(file) :
          /\ synced' = n
          /\ \/ file' = SubSeq(file, 1, n)
             \/ /\ n > synced
                /\ file' = [SubSeq(file, 1, n) EXCEPT ![n].whole = FALSE]
    BY DEF PowerLoss
  <1>2. file \in Seq(Chunks) /\ Len(file) \in Nat /\ synced \in Nat /\ n \in Nat /\ n <= Len(file)
    BY DEF TypeOK
  <1> DEFINE kept == SubSeq(file, 1, n)
  <1>3. kept \in Seq(Chunks) /\ Len(kept) = n /\ \A i \in 1..n : kept[i] = file[i]
    BY <1>2
  <1>4. /\ file' \in Seq(Chunks) /\ Len(file') = n
        /\ \A i \in 1..n : file'[i].rec = file[i].rec
        /\ \A i \in 1..synced : file'[i] = file[i]
    <2> HIDE DEF kept
    <2>1. CASE file' = kept
      BY <2>1, <1>2, <1>3
    <2>2. CASE n > synced /\ file' = [kept EXCEPT ![n].whole = FALSE]
      <3>1. kept \in [1..n -> Chunks] /\ n \in 1..n
        BY <2>2, <1>2, <1>3
      <3>2. [kept[n] EXCEPT !.whole = FALSE] \in Chunks
        BY <3>1 DEF Chunks
      <3>3. [kept[n] EXCEPT !.whole = FALSE].rec = kept[n].rec
        BY <3>1 DEF Chunks
      <3>4. file' = [kept EXCEPT ![n] = [kept[n] EXCEPT !.whole = FALSE]]
        BY <2>2
      <3>5. file' \in [1..n -> Chunks]
        BY <3>1, <3>2, <3>4
      <3>6. file' \in Seq(Chunks) /\ Len(file') = n
        BY <3>5, <1>2
      <3> QED BY <2>2, <1>2, <1>3, <3>1, <3>3, <3>4, <3>6
    <2> QED BY <1>1, <2>1, <2>2 DEF kept
  <1> QED BY <1>1, <1>4

LEMMA PowerLossStep == SpineInv /\ PowerLoss => SpineInv'
  <1> SUFFICES ASSUME SpineInv, PowerLoss PROVE SpineInv'
    OBVIOUS
  <1>1. TypeOK /\ ProcessGone /\ Len(file) \in Nat /\ synced \in Nat
    BY DEF SpineInv, TypeOK, PowerLoss
  <1>2. /\ synced' \in synced..Len(file) /\ Len(file') = synced'
        /\ file' \in Seq(Chunks)
        /\ \A i \in 1..Len(file') : file'[i].rec = file[i].rec
        /\ \A i \in 1..synced : file'[i] = file[i]
    BY <1>1, CutKeepsRecords
  <1> DEFINE n == synced'
  <1>3. n \in synced..Len(file) /\ synced' \in synced..n
    BY <1>1, <1>2
  <1> QED BY <1>1, <1>2, <1>3, CrashStep

LEMMA NextKeeps == SpineInv /\ [Next]_vars => SpineInv'
  <1> SUFFICES ASSUME SpineInv, [Next]_vars PROVE SpineInv'
    OBVIOUS
  <1>1. CASE UNCHANGED vars
    BY <1>1 DEF vars, SpineInv, TypeOK, Numbered, Locked, Written, Confirmed, Unlocked,
                AckedIsDurable, NothingAfterUnconfirmed, NoDuplicateRecord
  <1>2. CASE OpenFileSink \/ Close \/ Exit \/ PowerLoss
    BY <1>2, OpenFileSinkStep, CloseStep, ExitStep, PowerLossStep
  <1>3. ASSUME NEW e \in Emitters,
               \/ AssignSequence(e) \/ RefuseEarly(e) \/ PublishClosed(e)
               \/ WriteLine(e) \/ WriteFails(e) \/ Sync(e) \/ SyncFails(e) \/ Return(e)
        PROVE  SpineInv'
    BY <1>3, AssignSequenceStep, FailOrReturnStep, WriteLineStep, WriteFailsStep, SyncStep
  <1> QED BY <1>1, <1>2, <1>3 DEF Next

-------------------------------------------------------------------------------
(* How far out of number order the lines can be *)

\* The emits that have yet to write a number that is not greater than line i's.
Waiting(i) ==
    {e \in Emitters : /\ pc[e] = "numbered"
                      /\ rec[e].life = file[i].rec.life /\ rec[e].seq <= file[i].rec.seq}

\* Every line that line i overtook was waiting when line i was written, and the emit of
\* line i was not.
Reordered ==
    \A i \in 1..Len(file) :
        Cardinality(Overtaken(i)) + Cardinality(Waiting(i)) < Cardinality(Emitters)

LEMMA CountsAreFinite ==
  ASSUME TypeOK, NEW i \in Nat
  PROVE  /\ IsFiniteSet(Overtaken(i)) /\ IsFiniteSet(Waiting(i))
         /\ Cardinality(Overtaken(i)) \in Nat /\ Cardinality(Waiting(i)) \in Nat
         /\ Cardinality(Emitters) \in Nat
  <1>1. IsFiniteSet((i + 1)..Len(file))
    <2>1. i + 1 \in Int /\ Len(file) \in Int
      BY DEF TypeOK
    <2> QED BY <2>1, FS_Interval
  <1>2. Overtaken(i) \in SUBSET ((i + 1)..Len(file)) /\ Waiting(i) \in SUBSET Emitters
    BY DEF Overtaken, Waiting
  <1>3. IsFiniteSet(Overtaken(i)) /\ IsFiniteSet(Waiting(i)) /\ IsFiniteSet(Emitters)
    BY <1>1, <1>2, FS_Subset, AuditAssumption
  <1> QED BY <1>3, FS_CardinalityType

\* A step that numbers no emit and appends nothing, and may cut the file, can only make
\* both sets smaller.
LEMMA NothingMoreWaits ==
  ASSUME TypeOK, TypeOK', Reordered,
         Len(file') <= Len(file), \A i \in 1..Len(file') : file'[i].rec = file[i].rec,
         \A e \in Emitters : pc'[e] = "numbered" => pc[e] = "numbered" /\ rec'[e] = rec[e]
  PROVE  Reordered'
  <1> SUFFICES ASSUME NEW i \in 1..Len(file')
               PROVE  Cardinality(Overtaken(i)') + Cardinality(Waiting(i)') < Cardinality(Emitters)
    BY DEF Reordered
  <1>1. Len(file) \in Nat /\ Len(file') \in Nat /\ i \in Nat /\ i \in 1..Len(file)
    BY DEF TypeOK
  <1>2. Overtaken(i)' \in SUBSET Overtaken(i)
    BY <1>1 DEF Overtaken
  <1>3. Waiting(i)' \in SUBSET Waiting(i)
    BY DEF Waiting
  <1>4. /\ Cardinality(Overtaken(i)') <= Cardinality(Overtaken(i))
        /\ Cardinality(Waiting(i)') <= Cardinality(Waiting(i))
    BY <1>1, <1>2, <1>3, CountsAreFinite, FS_Subset
  <1>5. /\ Cardinality(Overtaken(i)) \in Nat /\ Cardinality(Waiting(i)) \in Nat
        /\ Cardinality(Emitters) \in Nat
    BY <1>1, CountsAreFinite
  <1>6. Cardinality(Overtaken(i)') \in Nat /\ Cardinality(Waiting(i)') \in Nat
    <2>1. IsFiniteSet(Overtaken(i)') /\ IsFiniteSet(Waiting(i)')
      BY <1>1, <1>2, <1>3, CountsAreFinite, FS_Subset
    <2> QED BY <2>1, FS_CardinalityType
  <1>7. Cardinality(Overtaken(i)) + Cardinality(Waiting(i)) < Cardinality(Emitters)
    BY <1>1 DEF Reordered
  <1> QED BY <1>4, <1>5, <1>6, <1>7

\* The counter is past every number of this life's lines.
LEMMA NewNumberWaitsForNone ==
  ASSUME SpineInv, SpineInv', Reordered, NEW e \in Emitters, AssignSequence(e)
  PROVE  Reordered'
  <1>1. /\ \A d \in Emitters \ {e} : pc'[d] = pc[d] /\ rec'[d] = rec[d]
        /\ rec'[e] = [life |-> life, seq |-> seq] /\ seq \in Nat /\ up
    BY AuditAssumption DEF SpineInv, TypeOK, AssignSequence
  <1>2. file' = file
    BY DEF AssignSequence
  <1> SUFFICES ASSUME NEW i \in 1..Len(file)
               PROVE  Overtaken(i)' = Overtaken(i) /\ Waiting(i)' = Waiting(i)
    BY <1>2 DEF Reordered
  <1>3. Overtaken(i)' = Overtaken(i)
    BY <1>2 DEF Overtaken
  <1>4. file[i].rec.seq \in Nat /\ (file[i].rec.life = life => file[i].rec.seq < seq)
    BY <1>1, FileType DEF SpineInv, Written
  <1>5. e \notin Waiting(i)' /\ e \notin Waiting(i)
    BY <1>1, <1>2, <1>4 DEF Waiting, AssignSequence
  <1>6. Waiting(i)' = Waiting(i)
    BY <1>1, <1>2, <1>5 DEF Waiting
  <1> QED BY <1>3, <1>6

\* The line of e is appended: to the lines it comes after it counts once, as waiting
\* before and as overtaken now; after its own line there is none yet, and e itself does
\* not wait.
LEMMA AppendedLineWaited ==
  ASSUME SpineInv, SpineInv', Reordered, NEW e \in Emitters, pc[e] = "numbered",
         pc'[e] # "numbered", \A d \in Emitters \ {e} : pc'[d] = pc[d], rec' = rec,
         Len(file') = Len(file) + 1, \A i \in 1..Len(file) : file'[i] = file[i],
         file'[Len(file) + 1].rec = rec[e]
  PROVE  Reordered'
  <1>0. Len(file) \in Nat /\ TypeOK /\ TypeOK'
    BY DEF SpineInv, TypeOK
  <1> SUFFICES ASSUME NEW i \in 1..(Len(file) + 1)
               PROVE  Cardinality(Overtaken(i)') + Cardinality(Waiting(i)') < Cardinality(Emitters)
    BY DEF Reordered
  <1>1. CASE i = Len(file) + 1
    <2>1. Overtaken(i)' = {}
      BY <1>0, <1>1 DEF Overtaken
    <2>2. Waiting(i)' \in SUBSET (Emitters \ {e})
      BY DEF Waiting
    <2>3. /\ IsFiniteSet(Emitters \ {e}) /\ Cardinality(Emitters \ {e}) = Cardinality(Emitters) - 1
          /\ Cardinality(Emitters) \in Nat
      BY FS_RemoveElement, FS_CardinalityType, AuditAssumption
    <2>4. IsFiniteSet(Waiting(i)') /\ Cardinality(Waiting(i)') <= Cardinality(Emitters \ {e})
      BY <2>2, <2>3, FS_Subset
    <2>5. Cardinality(Waiting(i)') \in Nat
      BY <2>4, FS_CardinalityType
    <2>6. Cardinality(Overtaken(i)') = 0
      BY <2>1, FS_EmptySet
    <2> QED BY <2>3, <2>4, <2>5, <2>6
  <1>2. CASE i \in 1..Len(file)
    <2>0. i \in Nat /\ file'[i] = file[i]
      BY <1>0, <1>2
    <2>1. /\ IsFiniteSet(Overtaken(i)) /\ IsFiniteSet(Waiting(i))
          /\ Cardinality(Overtaken(i)) \in Nat /\ Cardinality(Waiting(i)) \in Nat
          /\ Cardinality(Emitters) \in Nat
          /\ Cardinality(Overtaken(i)) + Cardinality(Waiting(i)) < Cardinality(Emitters)
      BY <1>0, <1>2, <2>0, CountsAreFinite DEF Reordered
    <2>2. Waiting(i)' = Waiting(i) \ {e}
      BY <2>0 DEF Waiting
    <2> DEFINE waited == /\ rec[e].life = file[i].rec.life
                         /\ rec[e].seq <= file[i].rec.seq
    <2>5. waited <=> e \in Waiting(i)
      BY DEF Waiting
    <2>6. Overtaken(i)' = {j \in (i + 1)..(Len(file) + 1) :
                             IF j = Len(file) + 1 THEN waited ELSE j \in Overtaken(i)}
      BY <1>0, <1>2, <2>0, SMTT(30) DEF Overtaken
    <2>7. Overtaken(i) \in SUBSET ((i + 1)..Len(file))
      BY DEF Overtaken
    <2> HIDE DEF waited
    <2>3. CASE e \in Waiting(i)
      <3>1. Overtaken(i)' = Overtaken(i) \cup {Len(file) + 1}
        BY <1>0, <1>2, <2>3, <2>5, <2>6, <2>7
      <3>2. Len(file) + 1 \notin Overtaken(i)
        BY <1>0 DEF Overtaken
      <3>3. Cardinality(Overtaken(i)') = Cardinality(Overtaken(i)) + 1
        BY <2>1, <3>1, <3>2, FS_AddElement
      <3>4. Cardinality(Waiting(i)') = Cardinality(Waiting(i)) - 1
        BY <2>1, <2>2, <2>3, FS_RemoveElement
      <3> QED BY <2>1, <3>3, <3>4
    <2>4. CASE e \notin Waiting(i)
      <3>1. Waiting(i)' = Waiting(i)
        BY <2>2, <2>4
      <3>2. Overtaken(i)' = Overtaken(i)
        BY <1>0, <1>2, <2>4, <2>5, <2>6, <2>7
      <3> QED BY <2>1, <3>1, <3>2
    <2> QED BY <2>3, <2>4
  <1> QED BY <1>0, <1>1, <1>2

LEMMA NextKeepsOrder == SpineInv /\ SpineInv' /\ Reordered /\ [Next]_vars => Reordered'
  <1> SUFFICES ASSUME SpineInv, SpineInv', Reordered, [Next]_vars PROVE Reordered'
    OBVIOUS
  <1>0. TypeOK /\ TypeOK' /\ Len(file) \in Nat
    BY DEF SpineInv, TypeOK
  <1>1. CASE UNCHANGED vars \/ OpenFileSink \/ Close
    BY <1>0, <1>1, NothingMoreWaits DEF vars, OpenFileSink, Close, procVars
  <1>2. CASE Exit \/ PowerLoss
    <2>1. \A e \in Emitters : pc'[e] # "numbered"
      BY <1>2 DEF Exit, PowerLoss, ProcessGone
    <2>2. CASE Exit
      BY <1>0, <2>1, <2>2, NothingMoreWaits DEF Exit
    <2>3. CASE PowerLoss
      BY <1>0, <2>1, <2>3, CutKeepsRecords, NothingMoreWaits
    <2> QED BY <1>2, <2>2, <2>3
  <1>3. ASSUME NEW e \in Emitters,
               RefuseEarly(e) \/ PublishClosed(e) \/ Sync(e) \/ SyncFails(e) \/ Return(e)
        PROVE  Reordered'
    <2>1. file' = file
      BY <1>3 DEF RefuseEarly, PublishClosed, Sync, SyncFails, Return
    <2>2. \A d \in Emitters : pc'[d] = "numbered" => pc[d] = "numbered" /\ rec'[d] = rec[d]
      BY <1>0, <1>3 DEF RefuseEarly, PublishClosed, Sync, SyncFails, Return, TypeOK
    <2> QED BY <1>0, <2>1, <2>2, NothingMoreWaits
  <1>4. ASSUME NEW e \in Emitters, WriteLine(e) \/ WriteFails(e)
        PROVE  Reordered'
    <2>1. /\ pc[e] = "numbered" /\ pc'[e] # "numbered" /\ rec' = rec
          /\ \A d \in Emitters \ {e} : pc'[d] = pc[d]
      BY <1>0, <1>4 DEF WriteLine, WriteFails, TypeOK
    <2>2. CASE file' = file
      BY <1>0, <2>1, <2>2, NothingMoreWaits
    <2>3. CASE file' # file
      <3>1. PICK w \in BOOLEAN : file' = Append(file, [rec |-> rec[e], whole |-> w])
        BY <1>4, <2>3 DEF WriteLine, WriteFails
      <3>2. file \in Seq(Chunks) /\ [rec |-> rec[e], whole |-> w] \in Chunks
        BY <2>1 DEF SpineInv, TypeOK, Numbered, Chunks
      <3>3. /\ Len(file') = Len(file) + 1 /\ \A i \in 1..Len(file) : file'[i] = file[i]
            /\ file'[Len(file) + 1] = [rec |-> rec[e], whole |-> w]
        BY <3>1, <3>2
      <3> QED BY <2>1, <3>3, AppendedLineWaited
    <2> QED BY <2>2, <2>3
  <1>5. ASSUME NEW e \in Emitters, AssignSequence(e)
        PROVE  Reordered'
    BY <1>5, NewNumberWaitsForNone
  <1> QED BY <1>1, <1>2, <1>3, <1>4, <1>5 DEF Next

-------------------------------------------------------------------------------
(* The theorems *)

\* Every reachable state satisfies the inductive invariant.
THEOREM SpineInvariant == Spec => []SpineInv
  BY InitInv, NextKeeps, PTL DEF Spec

\* Type correctness: the emitters, the counter, the file and what of it is synced
\* keep their types through every emit, failure, crash and restart.
THEOREM TypeCorrect == Spec => []TypeOK
  <1>1. SpineInv => TypeOK
    BY DEF SpineInv
  <1> QED BY <1>1, SpineInvariant, PTL

\* Emit-before-ack: once Publish has returned nil the record is a whole line on stable
\* storage, for any number of concurrent emits, restarts and power losses.
THEOREM AckedIsDurableHolds == Spec => []AckedIsDurable
  <1>1. SpineInv => AckedIsDurable
    BY DEF SpineInv
  <1> QED BY <1>1, SpineInvariant, PTL

\* The seal: of the lines of one process life only the last can be torn or
\* unacknowledged, whatever write or fsync fails.
THEOREM NothingAfterUnconfirmedHolds == Spec => []NothingAfterUnconfirmed
  <1>1. SpineInv => NothingAfterUnconfirmed
    BY DEF SpineInv
  <1> QED BY <1>1, SpineInvariant, PTL

\* No two chunks of the file carry the same record, although numbers are taken outside
\* the sink's mutex and the counter restarts from zero in every life.
THEOREM NoDuplicateRecordHolds == Spec => []NoDuplicateRecord
  <1>1. SpineInv => NoDuplicateRecord
    BY DEF SpineInv
  <1> QED BY <1>1, SpineInvariant, PTL

\* A line lands out of number order only past emits in flight: the lines that follow it
\* with a smaller number are fewer than the emitters, after any number of failures,
\* crashes and restarts.
THEOREM BoundedReorderingHolds == Spec => []BoundedReordering
  <1>1. Init => Reordered
    BY DEF Init, Reordered
  <1>2. SpineInv /\ Reordered => BoundedReordering
    <2> SUFFICES ASSUME SpineInv, Reordered, NEW i \in 1..Len(file)
                 PROVE  Cardinality(Overtaken(i)) < Cardinality(Emitters)
      BY DEF BoundedReordering
    <2>1. i \in Nat /\ TypeOK
      BY DEF SpineInv, TypeOK
    <2> QED BY <2>1, CountsAreFinite DEF Reordered
  <1> QED BY <1>1, <1>2, NextKeepsOrder, SpineInvariant, PTL DEF Spec
===============================================================================
