------------------------------ MODULE AuditSpine ------------------------------
(***************************************************************************)
(* The durable audit trail: the Emitter (internal/audit/emitter.go, and    *)
(* EmitAuthn of authn.go, which shares its counter) over a FileSink        *)
(* (internal/audit/filesink.go), with crashes and restarts.                *)
(*                                                                         *)
(* An emit takes its sequence number from an atomic counter, and only then *)
(* competes for the sink's mutex; under the mutex it writes one line and   *)
(* fsyncs it.  A record is the pair of the process life that emitted it    *)
(* (a history value, not in the file) and the sequence number the line     *)
(* carries.  The file is a sequence of appended chunks; a chunk that is    *)
(* not whole ends without its newline, so the next chunk continues its     *)
(* line.                                                                   *)
(***************************************************************************)
EXTENDS Integers, Sequences, FiniteSets, SequencesExt

CONSTANTS
    Emitters,   \* goroutines that call Emit or EmitAuthn
    MaxSeq,     \* bound on the sequence numbers of one process life (uint64)
    MaxLives    \* bound on the number of times the daemon boots

ASSUME AuditAssumption ==
    /\ MaxSeq \in Nat /\ MaxLives \in Nat
    /\ IsFiniteSet(Emitters)

VARIABLES
    up,         \* the daemon process runs
    life,       \* how many times it has booted (history)
    seq,        \* Emitter.seq, in memory
    closed,     \* FileSink.closed
    file,       \* the file as the operating system has it
    synced,     \* how many chunks of it are on stable storage
    pc,         \* where each emitter is in Emit
    rec,        \* the record each emitter is publishing
    acked       \* records whose Publish returned nil (history)

procVars == <<up, life, seq>>
vars == <<up, life, seq, closed, file, synced, pc, rec, acked>>

Records == [life : 1..MaxLives, seq : 0..MaxSeq]
NoRecord == [life |-> 0, seq |-> 0]
Chunks == [rec : Records, whole : BOOLEAN]

\* numbered: has its sequence, has not taken the mutex.  written: holds the mutex
\* between Write and Sync.  done: Emit has returned, nil or an error.
PCs == {"idle", "numbered", "written", "done"}

\* Nobody holds FileSink.mu.
Unlocked == \A e \in Emitters : pc[e] # "written"

Init ==
    /\ up = FALSE /\ life = 0 /\ seq = 0
    /\ closed = TRUE
    /\ file = <<>> /\ synced = 0
    /\ pc = [e \in Emitters |-> "idle"]
    /\ rec = [e \in Emitters |-> NoRecord]
    /\ acked = {}

-------------------------------------------------------------------------------
(* Boot *)

\* Mutant: the sink is opened O_TRUNC.
OpenFileSinkTruncates ==
    /\ ~up /\ life < MaxLives
    /\ up' = TRUE
    /\ life' = life + 1
    /\ seq' = 0
    /\ closed' = FALSE
    /\ file' = <<>>
    /\ UNCHANGED <<synced, pc, rec, acked>>

\* serve opens the sink O_APPEND, keeping what the file holds, and builds a new
\* Emitter, whose counter is zero.
OpenFileSink ==
    /\ ~up /\ life < MaxLives
    /\ up' = TRUE
    /\ life' = life + 1
    /\ seq' = 0
    /\ closed' = FALSE
    /\ UNCHANGED <<file, synced, pc, rec, acked>>

-------------------------------------------------------------------------------
(* Emit and EmitAuthn *)

\* Mutant: the counter is read and not advanced.
AssignSequenceStuck(e) ==
    /\ up /\ pc[e] = "idle" /\ seq < MaxSeq
    /\ rec' = [rec EXCEPT ![e] = [life |-> life, seq |-> seq]]
    /\ pc' = [pc EXCEPT ![e] = "numbered"]
    /\ UNCHANGED <<procVars, closed, file, synced, acked>>

\* The sequence is assigned first, before validation and before the sink's mutex.
AssignSequence(e) ==
    /\ up /\ pc[e] = "idle" /\ seq < MaxSeq
    /\ rec' = [rec EXCEPT ![e] = [life |-> life, seq |-> seq]]
    /\ seq' = seq + 1
    /\ pc' = [pc EXCEPT ![e] = "numbered"]
    /\ UNCHANGED <<up, life, closed, file, synced, acked>>

\* Mutant: an emit that fails early gives its number back.
RefuseEarlyRewinds(e) ==
    /\ pc[e] = "numbered"
    /\ seq' = rec[e].seq
    /\ pc' = [pc EXCEPT ![e] = "done"]
    /\ UNCHANGED <<up, life, closed, file, synced, rec, acked>>

\* An envelope that fails Validate or rendering, or a request whose context is
\* already done: the emit fails before the mutex and its number is spent.
RefuseEarly(e) ==
    /\ pc[e] = "numbered"
    /\ pc' = [pc EXCEPT ![e] = "done"]
    /\ UNCHANGED <<procVars, closed, file, synced, rec, acked>>

\* A sealed or closed sink denies.
PublishClosed(e) ==
    /\ pc[e] = "numbered" /\ Unlocked /\ closed
    /\ pc' = [pc EXCEPT ![e] = "done"]
    /\ UNCHANGED <<procVars, closed, file, synced, rec, acked>>

\* The whole line reached the file; the mutex is kept for the fsync.
WriteLine(e) ==
    /\ pc[e] = "numbered" /\ Unlocked /\ ~closed
    /\ file' = Append(file, [rec |-> rec[e], whole |-> TRUE])
    /\ pc' = [pc EXCEPT ![e] = "written"]
    /\ UNCHANGED <<procVars, closed, synced, rec, acked>>

\* Mutant: a failed write leaves the sink open.
WriteFailsUnsealed(e) ==
    /\ pc[e] = "numbered" /\ Unlocked /\ ~closed
    /\ file' \in {file, Append(file, [rec |-> rec[e], whole |-> FALSE])}
    /\ pc' = [pc EXCEPT ![e] = "done"]
    /\ UNCHANGED <<procVars, closed, synced, rec, acked>>

\* A write error or a short write: nothing or part of the line was appended, and
\* the sink is sealed.
WriteFails(e) ==
    /\ pc[e] = "numbered" /\ Unlocked /\ ~closed
    /\ file' \in {file, Append(file, [rec |-> rec[e], whole |-> FALSE])}
    /\ closed' = TRUE
    /\ pc' = [pc EXCEPT ![e] = "done"]
    /\ UNCHANGED <<procVars, synced, rec, acked>>

\* Mutant: Publish returns without the fsync.
SyncSkipped(e) ==
    /\ pc[e] = "written"
    /\ acked' = acked \cup {rec[e]}
    /\ pc' = [pc EXCEPT ![e] = "done"]
    /\ UNCHANGED <<procVars, closed, file, synced, rec>>

\* The fsync is confirmed and Publish returns nil.
Sync(e) ==
    /\ pc[e] = "written"
    /\ synced' = Len(file)
    /\ acked' = acked \cup {rec[e]}
    /\ pc' = [pc EXCEPT ![e] = "done"]
    /\ UNCHANGED <<procVars, closed, file, rec>>

\* The fsync failed: the line stays where it is, unconfirmed, and the sink is sealed.
SyncFails(e) ==
    /\ pc[e] = "written"
    /\ closed' = TRUE
    /\ pc' = [pc EXCEPT ![e] = "done"]
    /\ UNCHANGED <<procVars, file, synced, rec, acked>>

Return(e) ==
    /\ pc[e] = "done"
    /\ pc' = [pc EXCEPT ![e] = "idle"]
    /\ rec' = [rec EXCEPT ![e] = NoRecord]
    /\ UNCHANGED <<procVars, closed, file, synced, acked>>

-------------------------------------------------------------------------------
(* Shutdown and crashes *)

\* serve's deferred Close; handlers may still be emitting.
Close ==
    /\ up /\ Unlocked /\ ~closed
    /\ closed' = TRUE
    /\ UNCHANGED <<procVars, file, synced, pc, rec, acked>>

\* The process is gone, and with it every goroutine, the counter and the sink.
ProcessGone ==
    /\ up /\ up' = FALSE
    /\ closed' = TRUE
    /\ seq' = 0
    /\ pc' = [e \in Emitters |-> "idle"]
    /\ rec' = [e \in Emitters |-> NoRecord]
    /\ UNCHANGED <<life, acked>>

\* The process exits or is killed: the operating system keeps what was written.
Exit == ProcessGone /\ UNCHANGED <<file, synced>>

\* The host loses power: of what no fsync confirmed a prefix survives, its last
\* chunk perhaps in part.
PowerLoss ==
    /\ ProcessGone
    /\ \E n \in synced..Len(file) :
         /\ synced' = n
         /\ \/ file' = SubSeq(file, 1, n)
            \/ /\ n > synced
               /\ file' = [SubSeq(file, 1, n) EXCEPT ![n].whole = FALSE]

Next ==
    \/ OpenFileSink \/ Close \/ Exit \/ PowerLoss
    \/ \E e \in Emitters :
        \/ AssignSequence(e) \/ RefuseEarly(e) \/ PublishClosed(e)
        \/ WriteLine(e) \/ WriteFails(e) \/ Sync(e) \/ SyncFails(e) \/ Return(e)

Spec == Init /\ [][Next]_vars

-------------------------------------------------------------------------------
(* Properties *)

\* Type invariant.
TypeOK ==
    /\ up \in BOOLEAN /\ closed \in BOOLEAN
    /\ life \in 0..MaxLives /\ seq \in 0..MaxSeq
    /\ file \in Seq(Chunks)
    /\ synced \in 0..Len(file)
    /\ pc \in [Emitters -> PCs]
    /\ rec \in [Emitters -> Records \cup {NoRecord}]
    /\ acked \subseteq Records

\* Emit-before-ack (NFR-SEC-03): a record whose Publish returned nil is whole and
\* on stable storage, whatever crash or power loss follows.
AckedIsDurable ==
    \A r \in acked : \E i \in 1..synced : file[i] = [rec |-> r, whole |-> TRUE]

\* The seal: within one life of the process nothing is ever appended after a line
\* that was not confirmed, so only the last line of a life can be torn or unacked.
NothingAfterUnconfirmed ==
    \A i \in 1..(Len(file) - 1) :
        file[i].rec.life = file[i + 1].rec.life => file[i].rec \in acked

\* No record is in the file twice: two concurrent emits of one life never carry
\* the same sequence number.
NoDuplicateRecord ==
    \A i, j \in 1..Len(file) : file[i].rec = file[j].rec => i = j

\* The lines after line i, of its life, whose number is not greater than its own.
Overtaken(i) ==
    {j \in (i + 1)..Len(file) :
        file[j].rec.life = file[i].rec.life /\ file[j].rec.seq <= file[i].rec.seq}

\* The number is taken before the sink's mutex, so lines may land out of number order;
\* a line overtakes only the emits in flight beside it: fewer lines than there are
\* emitters follow it with a smaller number.
BoundedReordering ==
    \A i \in 1..Len(file) : Cardinality(Overtaken(i)) < Cardinality(Emitters)

\* A line parses when it is whole and does not continue a torn one.
Readable(i) == file[i].whole /\ (i = 1 \/ file[i - 1].whole)

\* filesink.go: no append lands after a truncated tail, so the spine stays
\* parseable: every acknowledged record is a line of its own.
AckedIsReadable ==
    \A r \in acked : \E i \in 1..Len(file) : file[i].rec = r /\ Readable(i)
===============================================================================
