-------------------------- MODULE PromotionTxProofs --------------------------
(* Proofs about PromotionTx: whatever crashes and fails on the way, the log,   *)
(* the manifest and ACTIVE agree when nothing is unfinished, ACTIVE moves only *)
(* behind the log, an adopted tree is the one that is observed, and no tree in *)
(* use is removed.  The invariant says in which state an unfinished            *)
(* transaction can have left the files, in terms of its journal records.       *)
EXTENDS PromotionTx, TLAPS

Records == {journal[i] : i \in DOMAIN journal}
Begins == {r \in Records : r.kind = "TX_BEGIN"}
Stagings == {r \in Records : r.kind = "STAGE_DONE"}

\* What is journaled, by kind and transaction, and how transactions are to end.
Has(kind, tx) == \E r \in Records : r.kind = kind /\ r.tx = tx

Outcome(status, tx) ==
  \E r \in Records : r.kind = "OUTCOME_APPEND_INTENT" /\ r.tx = tx /\ r.status = status

UnfinishedBegins == {b \in Begins : ~Has("TX_DONE", b.tx) /\ ~Has("TX_ABORT", b.tx)}

IsEdit(packet) == packet.rollback_of = NoTx

\* The tree a packet makes of the tree it is based on.
TreeOf(packet, base) ==
  IF IsEdit(packet) THEN Append(base.tree, packet.fp[2]) ELSE packet.rollback_of[2].tree

Target(packet, base) ==
  [tx |-> TxId(packet, base), tree |-> TreeOf(packet, base)]

\* A packet that could be proposed: an edit, or the rollback of something completed.
Lawful(packet, base) ==
  /\ base.tree \in Seq(Edits)
  /\ \/ \E edit \in Edits :
          packet = [fp |-> <<"edit", edit>>, rollback_of |-> NoTx]
     \/ /\ packet = [fp |-> <<"rollback", packet.rollback_of>>,
                     rollback_of |-> packet.rollback_of]
        /\ packet.rollback_of # NoTx
        /\ Has("TX_DONE", packet.rollback_of)
        /\ packet.rollback_of[2].tree \in Seq(Edits)

-----------------------------------------------------------------------------
(* The journal.                                                             *)

\* Nothing is journaled twice.
OncePerTransaction ==
  \A i, j \in DOMAIN journal :
    journal[i].kind = journal[j].kind /\ journal[i].tx = journal[j].tx => i = j

BeginIsLawful(b) ==
  /\ b.tx = TxId(b.packet, b.active)
  /\ b.head \in Nat
  /\ Lawful(b.packet, b.active)
  /\ b.active.tx # b.tx

JournalInv ==
  /\ OncePerTransaction
  /\ \A r \in Records :
       /\ r.tx # NoTx
       /\ Has("TX_BEGIN", r.tx)
       /\ r.kind = "TX_DONE" => Has("STAGE_DONE", r.tx)
       /\ r.kind = "OUTCOME_APPEND_INTENT" => r.status \in {"effective", "aborted"}
  /\ \A b \in Begins : BeginIsLawful(b)
  /\ \A b \in Begins, r \in Stagings : r.tx = b.tx =>
         r.from = b.active.tree /\ r.tree = TreeOf(b.packet, b.active)

-----------------------------------------------------------------------------
(* What an unfinished transaction left in the files.                        *)

\* The first n entries of the log end a transaction, and the last effective one of
\* them is that of tx.
SettledAt(n, tx) ==
  /\ n # 0 => log[n].status # "committing"
  /\ \A i \in 1..n :
       log[i].status = "effective"
         /\ (\A j \in 1..n : log[j].status = "effective" => j <= i)
       => log[i].tx = tx

Anchored ==
  /\ manifest = [head |-> Len(log), pointer |-> active]
  /\ SettledAt(Len(log), active.tx)

\* The log of a transaction: what it found, its committing entry and its end.
LogTells(b) ==
  /\ Len(log) \in {b.head, b.head + 1, b.head + 2}
  /\ SettledAt(b.head, b.active.tx)
  /\ Len(log) # b.head =>
       /\ log[b.head + 1] = [tx |-> b.tx, status |-> "committing"]
       /\ Has("STAGE_DONE", b.tx) /\ Has("LOG_APPEND_INTENT", b.tx)
  /\ Len(log) = b.head + 2 =>
       \E status \in {"effective", "aborted"} :
         /\ log[b.head + 2] = [tx |-> b.tx, status |-> status]
         /\ Outcome(status, b.tx)

\* Where ACTIVE and the manifest are.
PointersTell(b) ==
  /\ \/ active = b.active
     \/ active = Target(b.packet, b.active) /\ Has("WINDOW_PENDING", b.tx)
  /\ \/ manifest = [head |-> b.head, pointer |-> b.active]
     \/ /\ Len(log) = b.head + 2
        /\ manifest = [head |-> b.head + 2, pointer |-> active]

\* What the records of its later steps imply.
RecordsTell(b) ==
  /\ Has("LOG_APPEND_INTENT", b.tx) => Has("STAGE_DONE", b.tx)
  /\ Has("WINDOW_PENDING", b.tx) =>
       /\ Len(log) # b.head
       /\ IF IsEdit(b.packet) THEN window.tx = b.tx
          ELSE b.active.tx = b.packet.rollback_of
  /\ Outcome("effective", b.tx) => active = Target(b.packet, b.active)
  /\ Outcome("aborted", b.tx) =>
       Len(log) # b.head /\ ~Has("WINDOW_PENDING", b.tx)
  /\ Has("WINDOW_FINAL", b.tx) =>
       /\ Len(log) = b.head + 2 /\ manifest.head = b.head + 2
       /\ Outcome("effective", b.tx)
       /\ ~IsEdit(b.packet) => window.state = "CLOSED"

TransactionInv ==
  /\ \A b, c \in UnfinishedBegins : b = c
  /\ UnfinishedBegins = {} => Anchored
  /\ \A b \in UnfinishedBegins : LogTells(b) /\ PointersTell(b) /\ RecordsTell(b)

-----------------------------------------------------------------------------
(* What the processes are doing.                                            *)

NotYetBegun == {"staged", "begin"}
Away == {"idle", "staged"}
Working == Steps \ {"begin"}

\* A packet that waits for the lock, or has just got it.
StagedWork(w) ==
  /\ w.mode = "promote"
  /\ w.tx = TxId(w.packet, w.base)
  /\ w.head \in Nat
  /\ Lawful(w.packet, w.base)
  /\ w.tree = TreeOf(w.packet, w.base)
  /\ w.base.tx # w.tx
  /\ ~Has("TX_BEGIN", w.tx)

OfRecord(w, b) ==
  /\ w.tx = b.tx /\ w.base = b.active /\ w.head = b.head /\ w.packet = b.packet
  /\ Has("STAGE_DONE", b.tx) \/ w.mode = "promote" =>
       w.tree = TreeOf(b.packet, b.active)

\* The step a process is at and what was done before it.
StepTells(step, w) ==
  LET h == w.head
      Did(kind) == Has(kind, w.tx)
      Decided == Outcome("effective", w.tx) \/ Outcome("aborted", w.tx)
  IN /\ step \in {"install", "stage_done"} => ~Did("STAGE_DONE") /\ w.mode = "promote"
     /\ step = "log_intent" => Did("STAGE_DONE") /\ ~Did("LOG_APPEND_INTENT")
     /\ step \in {"append", "admit", "window_pending", "swap"} =>
          Did("LOG_APPEND_INTENT") /\ w.tree \in trees /\ active = w.base /\ ~Decided
     /\ step = "append" => Len(log) = h
     /\ step \in {"admit", "window_pending", "swap", "outcome_intent", "effective",
                  "abort_intent", "abort_entry"} => Len(log) = h + 1
     /\ step \in {"admit", "window_pending", "abort_intent"} =>
          ~Did("WINDOW_PENDING") /\ ~Decided
     /\ step = "window_pending" =>
          IF IsEdit(w.packet) THEN window.tx = w.tx ELSE w.base.tx = w.packet.rollback_of
     /\ step \in {"swap", "outcome_intent"} => Did("WINDOW_PENDING")
     /\ step = "outcome_intent" => active = ToPointer(w) /\ ~Decided
     /\ step \in {"effective", "manifest", "finalize", "window_final", "tx_done"} =>
          Outcome("effective", w.tx)
     /\ step \in {"manifest", "finalize", "window_final", "tx_done", "abort_manifest"} =>
          Len(log) = h + 2
     /\ step \in {"finalize", "window_final", "tx_done"} => manifest.head = h + 2
     /\ step \in {"manifest", "finalize", "window_final"} => ~Did("WINDOW_FINAL")
     /\ step = "window_final" /\ ~IsEdit(w.packet) => window.state = "CLOSED"
     /\ step = "tx_done" => Did("WINDOW_FINAL")
     /\ step = "remove" => Len(log) = h
     /\ step \in {"abort_entry", "abort_manifest"} => Outcome("aborted", w.tx)
     /\ step = "tx_abort" =>
          Len(log) = h \/ (Outcome("aborted", w.tx) /\ manifest.head = h + 2)

LockInv ==
  \A p \in Procs :
    /\ pc[p] = "idle" => work[p] = NoWork
    /\ pc[p] \notin Away <=> lock = p

StagingInv ==
  /\ \A p \in Procs : pc[p] \in NotYetBegun => StagedWork(work[p])
  /\ \A p, q \in Procs :
       pc[p] \in NotYetBegun /\ pc[q] \in NotYetBegun /\ p # q => work[p].tx # work[q].tx

HolderInv ==
  \A p \in Procs :
    /\ pc[p] = "begin" => UnfinishedBegins = {} /\ Expected(work[p].base, work[p].head)
    /\ pc[p] \in Working =>
         /\ \E b \in UnfinishedBegins : OfRecord(work[p], b)
         /\ StepTells(pc[p], work[p])

-----------------------------------------------------------------------------
(* The window and the trees.                                                *)

\* An open window of a completed transaction is that of ACTIVE, or about to be closed
\* by the rollback that replaced it.
WindowInv ==
  window.state # "CLOSED" /\ Has("TX_DONE", window.tx) =>
    \/ active.tx = window.tx
    \/ \E b \in UnfinishedBegins :
         b.packet.rollback_of = window.tx /\ Has("WINDOW_PENDING", b.tx)

ActiveInv ==
  /\ active.tree \in Seq(Edits)
  /\ active = Seed \/ Has("TX_BEGIN", active.tx)
  /\ AdoptionIsObserved

TreeInv ==
  /\ TreesExist
  /\ ~WentBack => \A t \in pinned : t \in Seq(Edits) /\ Len(t) <= Len(active.tree)

IsSequence(s) == \E S : s \in Seq(S)

Shape ==
  /\ IsSequence(journal) /\ IsSequence(log)
  /\ pc \in [Procs -> Steps \cup Away]
  /\ work = [p \in Procs |-> work[p]]
  /\ lock \in Procs \cup {NoProc}
  /\ window = [state |-> window.state, tx |-> window.tx]

PInv ==
  /\ JournalInv /\ TransactionInv
  /\ LockInv /\ StagingInv /\ HolderInv
  /\ WindowInv /\ ActiveInv /\ TreeInv

-----------------------------------------------------------------------------
(* Sequences, and the journal as a set of records.                          *)

LEMMA SequenceAppend ==
  ASSUME NEW s, NEW e, IsSequence(s)
  PROVE  /\ IsSequence(Append(s, e))
         /\ Len(s) \in Nat /\ DOMAIN s = 1..Len(s)
         /\ Len(Append(s, e)) = Len(s) + 1
         /\ DOMAIN Append(s, e) = 1..(Len(s) + 1)
         /\ \A i \in 1..Len(s) : Append(s, e)[i] = s[i]
         /\ Append(s, e)[Len(s) + 1] = e
<1>1. PICK S : s \in Seq(S)
  BY DEF IsSequence
<1>2. s \in Seq(S \cup {e}) /\ e \in S \cup {e}
  BY <1>1
<1>3. Append(s, e) \in Seq(S \cup {e})
  BY <1>2
<1> QED
  BY <1>2, <1>3 DEF IsSequence

LEMMA HasIff ==
  ASSUME NEW kind, NEW tx
  PROVE  Journaled(kind, tx) <=> Has(kind, tx)
BY DEF Journaled, Places, Has, Records

LEMMA LastIs ==
  ASSUME IsSequence(journal), OncePerTransaction, NEW r \in Records
  PROVE  LastRecord(r.kind, r.tx) = r
<1>1. PICK i \in DOMAIN journal : r = journal[i]
  BY DEF Records
<1>2. Places(r.kind, r.tx) = {i}
  BY <1>1 DEF OncePerTransaction, Places
<1>3. i <= i
  BY SequenceAppend
<1> QED
  BY <1>1, <1>2, <1>3 DEF LastRecord

LEMMA UnfinishedIs ==
  /\ \A tx : tx \in Unfinished <=> \E b \in UnfinishedBegins : b.tx = tx
  /\ Unfinished = {} <=> UnfinishedBegins = {}
<1>1. \A tx : Terminated(tx) <=> Has("TX_DONE", tx) \/ Has("TX_ABORT", tx)
  BY HasIff DEF Terminated
<1>2. \A tx : tx \in Unfinished <=> \E b \in UnfinishedBegins : b.tx = tx
  BY <1>1 DEF Unfinished, UnfinishedBegins, Begins, Records
<1> QED
  BY <1>2

LEMMA Wrote ==
  ASSUME IsSequence(journal), NEW record, Write(record)
  PROVE  /\ IsSequence(journal)'
         /\ Records' = Records \cup {record}
         /\ Begins' = IF record.kind = "TX_BEGIN" THEN Begins \cup {record} ELSE Begins
         /\ Stagings' = IF record.kind = "STAGE_DONE" THEN Stagings \cup {record}
                         ELSE Stagings
         /\ \A kind, tx : Has(kind, tx)' <=>
              Has(kind, tx) \/ (kind = record.kind /\ tx = record.tx)
         /\ \A status, tx : Outcome(status, tx)' <=>
              Outcome(status, tx) \/ (/\ record.kind = "OUTCOME_APPEND_INTENT"
                                      /\ record.tx = tx /\ record.status = status)
<1>1. journal' = Append(journal, record)
  BY DEF Write
<1>2. IsSequence(journal)'
  BY <1>1, SequenceAppend
<1>3. Records' = Records \cup {record}
  <2> DEFINE n == Len(journal)
             j == Append(journal, record)
  <2>1. n \in Nat /\ DOMAIN journal = 1..n /\ DOMAIN j = 1..(n + 1)
    BY SequenceAppend
  <2>2. \A i \in 1..n : j[i] = journal[i]
    BY SequenceAppend
  <2>3. j[n + 1] = record
    BY SequenceAppend
  <2>4. Records' = {j[i] : i \in DOMAIN j}
    BY <1>1 DEF Records
  <2> HIDE DEF n, j
  <2>5. {j[i] : i \in 1..(n + 1)} = {journal[i] : i \in 1..n} \cup {record}
    BY <2>1, <2>2, <2>3
  <2> QED
    BY <2>1, <2>4, <2>5 DEF Records
<1>4. Begins' = IF record.kind = "TX_BEGIN" THEN Begins \cup {record} ELSE Begins
  BY <1>3 DEF Begins
<1>5. Stagings' = IF record.kind = "STAGE_DONE" THEN Stagings \cup {record} ELSE Stagings
  BY <1>3 DEF Stagings
<1>6. \A kind, tx : Has(kind, tx)' <=>
        Has(kind, tx) \/ (kind = record.kind /\ tx = record.tx)
  BY <1>3 DEF Has
<1>7. \A status, tx : Outcome(status, tx)' <=>
        Outcome(status, tx) \/ (/\ record.kind = "OUTCOME_APPEND_INTENT"
                                /\ record.tx = tx /\ record.status = status)
  BY <1>3 DEF Outcome
<1> QED
  BY <1>2, <1>3, <1>4, <1>5, <1>6, <1>7

-----------------------------------------------------------------------------
(* What a record adds.                                                      *)

LEMMA Kept ==
  ASSUME UNCHANGED journal
  PROVE  /\ IsSequence(journal) => IsSequence(journal)'
         /\ Records' = Records /\ Begins' = Begins /\ Stagings' = Stagings
         /\ UnfinishedBegins' = UnfinishedBegins
         /\ \A kind, tx : Has(kind, tx)' <=> Has(kind, tx)
         /\ \A status, tx : Outcome(status, tx)' <=> Outcome(status, tx)
         /\ \A packet, base : Lawful(packet, base)' <=> Lawful(packet, base)
         /\ JournalInv => JournalInv'
<1>1. Records' = Records
  BY DEF Records
<1>2. /\ Begins' = Begins /\ Stagings' = Stagings
      /\ \A kind, tx : Has(kind, tx)' <=> Has(kind, tx)
      /\ \A status, tx : Outcome(status, tx)' <=> Outcome(status, tx)
  BY <1>1 DEF Begins, Stagings, Has, Outcome
<1>3. \A packet, base : Lawful(packet, base)' <=> Lawful(packet, base)
  BY <1>2 DEF Lawful
<1>4. UnfinishedBegins' = UnfinishedBegins
  BY <1>2 DEF UnfinishedBegins
<1>5. IsSequence(journal) => IsSequence(journal)'
  BY DEF IsSequence
<1>6. JournalInv => JournalInv'
  BY <1>1, <1>2, <1>3 DEF JournalInv, OncePerTransaction, BeginIsLawful
<1> QED
  BY <1>1, <1>2, <1>3, <1>4, <1>5, <1>6

LEMMA LawfulStays ==
  ASSUME IsSequence(journal), NEW record, Write(record), NEW packet, NEW base,
         Lawful(packet, base)
  PROVE  Lawful(packet, base)'
BY Wrote DEF Lawful

LEMMA OnceStays ==
  ASSUME IsSequence(journal), OncePerTransaction, NEW record, Write(record),
         ~Has(record.kind, record.tx)
  PROVE  OncePerTransaction'
<1> DEFINE n == Len(journal)
<1>1. n \in Nat /\ DOMAIN journal = 1..n
  BY SequenceAppend
<1>2. journal' = Append(journal, record)
  BY DEF Write
<1>3. DOMAIN journal' = 1..(n + 1) /\ journal'[n + 1] = record
  BY <1>2, SequenceAppend
<1>4. \A i \in 1..n : journal'[i] = journal[i]
  BY <1>2, SequenceAppend
<1>5. \A i \in 1..n : ~(journal[i].kind = record.kind /\ journal[i].tx = record.tx)
  BY <1>1 DEF Has, Records
<1> HIDE DEF n
<1> SUFFICES ASSUME NEW i \in 1..(n + 1), NEW j \in 1..(n + 1),
                    journal'[i].kind = journal'[j].kind, journal'[i].tx = journal'[j].tx
             PROVE  i = j
  BY <1>3 DEF OncePerTransaction
<1>6. CASE i \in 1..n /\ j \in 1..n
  BY <1>1, <1>4, <1>6 DEF OncePerTransaction
<1>7. CASE i = n + 1 /\ j \in 1..n
  BY <1>3, <1>4, <1>5, <1>7
<1>8. CASE i \in 1..n /\ j = n + 1
  BY <1>3, <1>4, <1>5, <1>8
<1> QED
  BY <1>1, <1>6, <1>7, <1>8

\* A record that may follow what is in the journal.
Follows(record) ==
  /\ record.tx # NoTx
  /\ ~Has(record.kind, record.tx)
  /\ IF record.kind = "TX_BEGIN" THEN BeginIsLawful(record) ELSE Has("TX_BEGIN", record.tx)
  /\ record.kind = "TX_DONE" => Has("STAGE_DONE", record.tx)
  /\ record.kind = "OUTCOME_APPEND_INTENT" => record.status \in {"effective", "aborted"}
  /\ record.kind = "STAGE_DONE" =>
       \A b \in Begins : b.tx = record.tx =>
         record.from = b.active.tree /\ record.tree = TreeOf(b.packet, b.active)

LEMMA JournalGrows ==
  ASSUME IsSequence(journal), JournalInv, NEW record, Write(record), Follows(record)
  PROVE  JournalInv'
<1>1. OncePerTransaction'
  BY OnceStays DEF JournalInv, Follows
<1>2. ASSUME NEW r \in Records'
      PROVE  /\ r.tx # NoTx
             /\ Has("TX_BEGIN", r.tx)'
             /\ r.kind = "TX_DONE" => Has("STAGE_DONE", r.tx)'
             /\ r.kind = "OUTCOME_APPEND_INTENT" => r.status \in {"effective", "aborted"}
  BY <1>2, Wrote DEF JournalInv, Follows
<1>3. ASSUME NEW b \in Begins'
      PROVE  BeginIsLawful(b)'
  <2>1. BeginIsLawful(b)
    BY Wrote DEF JournalInv, Follows
  <2>2. Lawful(b.packet, b.active)'
    BY <2>1, LawfulStays DEF BeginIsLawful
  <2> QED
    BY <2>1, <2>2 DEF BeginIsLawful
<1>4. ASSUME NEW b \in Begins', NEW r \in Stagings', r.tx = b.tx
      PROVE  r.from = b.active.tree /\ r.tree = TreeOf(b.packet, b.active)
  <2>1. CASE b \in Begins /\ r \in Stagings
    BY <1>4, <2>1 DEF JournalInv
  <2>2. CASE record.kind = "TX_BEGIN" /\ b = record /\ r \in Stagings
    BY <1>4, <2>2 DEF JournalInv, Follows, Stagings
  <2>3. CASE record.kind = "STAGE_DONE" /\ r = record /\ b \in Begins
    BY <1>4, <2>3 DEF Follows
  <2> QED
    BY <2>1, <2>2, <2>3, Wrote
<1> QED
  BY <1>1, <1>2, <1>3, <1>4 DEF JournalInv

LEMMA UnfinishedAfter ==
  ASSUME IsSequence(journal), JournalInv, NEW record, Write(record), Follows(record)
  PROVE  /\ record.kind \notin {"TX_BEGIN", "TX_DONE", "TX_ABORT"} =>
              UnfinishedBegins' = UnfinishedBegins
         /\ record.kind = "TX_BEGIN" => UnfinishedBegins' = UnfinishedBegins \cup {record}
         /\ record.kind \in {"TX_DONE", "TX_ABORT"} =>
              UnfinishedBegins' = {b \in UnfinishedBegins : b.tx # record.tx}
<1>1. \A kind, tx : Has(kind, tx) => Has("TX_BEGIN", tx)
  BY DEF JournalInv, Has
<1>2. record.kind \notin {"TX_BEGIN", "TX_DONE", "TX_ABORT"} =>
        UnfinishedBegins' = UnfinishedBegins
  BY Wrote DEF UnfinishedBegins
<1>3. record.kind = "TX_BEGIN" => UnfinishedBegins' = UnfinishedBegins \cup {record}
  BY <1>1, Wrote DEF UnfinishedBegins, Follows
<1>4. record.kind \in {"TX_DONE", "TX_ABORT"} =>
        UnfinishedBegins' = {b \in UnfinishedBegins : b.tx # record.tx}
  BY Wrote DEF UnfinishedBegins
<1> QED
  BY <1>2, <1>3, <1>4

-----------------------------------------------------------------------------
(* The processes.                                                           *)

\* Who holds the lock and works on a transaction, and what is known then.
Holding(p, b) ==
  /\ lock = p /\ pc[p] \in Working
  /\ UnfinishedBegins = {b} /\ b \in Begins
  /\ BeginIsLawful(b) /\ b.tx # NoTx
  /\ LogTells(b) /\ PointersTell(b) /\ RecordsTell(b)
  /\ OfRecord(work[p], b) /\ StepTells(pc[p], work[p])
  /\ \A q \in Procs : q # p => pc[q] \in Away

LEMMA Holder ==
  ASSUME Shape, PInv, NEW p \in Procs, pc[p] \in Working
  PROVE  \E b \in UnfinishedBegins : Holding(p, b)
<1>1. PICK b \in UnfinishedBegins : OfRecord(work[p], b)
  BY DEF PInv, HolderInv
<1>2. StepTells(pc[p], work[p])
  BY DEF PInv, HolderInv
<1>3. pc[p] \notin Away
  BY DEF Working, Steps, Away
<1>4. lock = p
  BY <1>3 DEF PInv, LockInv
<1>5. \A q \in Procs : q # p => pc[q] \in Away
  BY <1>4 DEF PInv, LockInv
<1>6. UnfinishedBegins = {b}
  BY DEF PInv, TransactionInv
<1>7. b \in Begins
  BY DEF UnfinishedBegins
<1>8. BeginIsLawful(b) /\ b.tx # NoTx
  BY <1>7 DEF PInv, JournalInv, Begins
<1>9. LogTells(b) /\ PointersTell(b) /\ RecordsTell(b)
  BY DEF PInv, TransactionInv
<1> QED
  BY <1>1, <1>2, <1>4, <1>5, <1>6, <1>7, <1>8, <1>9 DEF Holding

\* What a packet is, and what tree it makes.
LEMMA LawfulPacket ==
  ASSUME NEW packet, NEW base, Lawful(packet, base)
  PROVE  /\ base.tree \in Seq(Edits) /\ TreeOf(packet, base) \in Seq(Edits)
         /\ IsEdit(packet) =>
              /\ packet.fp[1] = "edit"
              /\ \E edit \in Edits : TreeOf(packet, base) = Append(base.tree, edit)
              /\ Len(TreeOf(packet, base)) = Len(base.tree) + 1
              /\ Len(base.tree) \in Nat
         /\ ~IsEdit(packet) =>
              /\ packet.fp[1] = "rollback" /\ packet.fp[2] = packet.rollback_of
              /\ TreeOf(packet, base) = packet.rollback_of[2].tree
              /\ packet.rollback_of # NoTx /\ Has("TX_DONE", packet.rollback_of)
<1>1. CASE \E edit \in Edits :
             packet = [fp |-> <<"edit", edit>>, rollback_of |-> NoTx]
  <2>1. PICK edit \in Edits :
          packet = [fp |-> <<"edit", edit>>, rollback_of |-> NoTx]
    BY <1>1
  <2>2. IsEdit(packet) /\ packet.fp[1] = "edit" /\ packet.fp[2] = edit
    BY <2>1 DEF IsEdit
  <2>3. TreeOf(packet, base) = Append(base.tree, edit) /\ base.tree \in Seq(Edits)
    BY <2>2 DEF TreeOf, Lawful
  <2> QED
    BY <2>2, <2>3
<1>2. CASE /\ packet = [fp |-> <<"rollback", packet.rollback_of>>,
                        rollback_of |-> packet.rollback_of]
           /\ packet.rollback_of # NoTx
           /\ Has("TX_DONE", packet.rollback_of)
           /\ packet.rollback_of[2].tree \in Seq(Edits)
  <2>1. packet.fp = <<"rollback", packet.rollback_of>> /\ ~IsEdit(packet)
    BY <1>2 DEF IsEdit
  <2>2. packet.fp[1] = "rollback" /\ packet.fp[2] = packet.rollback_of
    BY <2>1
  <2> QED
    BY <1>2, <2>1, <2>2 DEF TreeOf, Lawful
<1> QED
  BY <1>1, <1>2 DEF Lawful

LEMMA BeginIsUnique ==
  ASSUME JournalInv, NEW b \in Begins, NEW c \in Begins, c.tx = b.tx
  PROVE  c = b
BY DEF JournalInv, OncePerTransaction, Begins, Records

\* ACTIVE is where a transaction of this work would put it.
LEMMA TargetIs ==
  ASSUME NEW w, NEW b, BeginIsLawful(b), OfRecord(w, b),
         w.mode = "promote" \/ Has("STAGE_DONE", b.tx)
  PROVE  ToPointer(w) = Target(b.packet, b.active) /\ w.tree = TreeOf(b.packet, b.active)
BY DEF OfRecord, BeginIsLawful, ToPointer, Target

\* What the others are doing is not disturbed by a record of a transaction that was
\* begun already.
NoneBegins ==
  /\ \A tx : Has("TX_BEGIN", tx)' => Has("TX_BEGIN", tx)
  /\ \A packet, base : Lawful(packet, base) => Lawful(packet, base)'

LEMMA StagedWorkStays ==
  ASSUME NEW w, StagedWork(w), NoneBegins
  PROVE  StagedWork(w)'
BY DEF StagedWork, NoneBegins

LEMMA GotoKeeps ==
  ASSUME Shape, PInv, NEW p \in Procs, pc[p] \in Working, NEW step \in Working,
         Goto(p, step), UNCHANGED <<lock, work>>, NoneBegins
  PROVE  /\ pc' \in [Procs -> Steps \cup Away]
         /\ LockInv' /\ StagingInv'
         /\ (\E b \in UnfinishedBegins' : OfRecord(work[p], b)') /\ StepTells(step, work[p])'
              => HolderInv'
<1>1. \A q \in Procs : q # p => pc[q] \in Away
  BY Holder DEF Holding
<1>2. lock = p
  BY Holder DEF Holding
<1>3. pc' = [pc EXCEPT ![p] = step] /\ pc \in [Procs -> Steps \cup Away]
  BY DEF Goto, Shape
<1>4. Working \cap Away = {} /\ Working \subseteq Steps /\ "begin" \notin Working \cup Away
        /\ NotYetBegun \cap Working = {} /\ "idle" \notin Working
  BY DEF Working, Away, NotYetBegun, Steps
<1>5. pc' \in [Procs -> Steps \cup Away] /\ pc'[p] = step
        /\ \A q \in Procs : q # p => pc'[q] = pc[q]
  BY <1>3, <1>4
<1>6. LockInv'
  BY <1>4, <1>5 DEF PInv, LockInv
<1>7. \A q \in Procs : pc'[q] \in NotYetBegun => q # p /\ pc[q] \in NotYetBegun
  BY <1>4, <1>5
<1>8. StagingInv'
  BY <1>7, StagedWorkStays DEF PInv, StagingInv
<1>9. ASSUME \E b \in UnfinishedBegins' : OfRecord(work[p], b)', StepTells(step, work[p])'
      PROVE  HolderInv'
  BY <1>1, <1>4, <1>5, <1>9 DEF HolderInv
<1> QED
  BY <1>5, <1>6, <1>8, <1>9

LEMMA StopKeeps ==
  ASSUME Shape, PInv, NoProc \notin Procs, NEW p \in Procs, lock = p, Stop(p),
         NoneBegins
  PROVE  /\ pc' \in [Procs -> Steps \cup Away] /\ work' = [q \in Procs |-> work'[q]]
         /\ lock' \in Procs \cup {NoProc}
         /\ LockInv' /\ StagingInv' /\ HolderInv'
<1>1. \A q \in Procs : q # p => pc[q] \in Away
  BY DEF PInv, LockInv
<1>2. pc' = [pc EXCEPT ![p] = "idle"] /\ work' = [work EXCEPT ![p] = NoWork]
        /\ lock' = NoProc
  BY DEF Stop
<1>3. pc \in [Procs -> Steps \cup Away] /\ work = [q \in Procs |-> work[q]]
  BY DEF Shape
<1>4. pc' \in [Procs -> Steps \cup Away] /\ pc'[p] = "idle"
        /\ \A q \in Procs : q # p => pc'[q] = pc[q]
  BY <1>2, <1>3 DEF Away
<1>5. work' = [q \in Procs |-> work'[q]] /\ work'[p] = NoWork
        /\ \A q \in Procs : q # p => work'[q] = work[q]
  BY <1>2, <1>3
<1>6. \A q \in Procs : pc'[q] \in Away
  BY <1>1, <1>4 DEF Away
<1>7. LockInv'
  BY <1>2, <1>4, <1>5, <1>6 DEF PInv, LockInv
<1>8. \A q \in Procs : pc'[q] \in NotYetBegun => q # p /\ pc[q] \in NotYetBegun
  BY <1>4 DEF NotYetBegun
<1>9. StagingInv'
  BY <1>5, <1>8, StagedWorkStays DEF PInv, StagingInv
<1>10. HolderInv'
  BY <1>6 DEF HolderInv, Working, Away, Steps
<1> QED
  BY <1>2, <1>4, <1>5, <1>7, <1>9, <1>10

-----------------------------------------------------------------------------
(* Classes of steps.                                                        *)

TermsAreRecords ==
  /\ WentBack <=> \E b \in Begins : ~IsEdit(b.packet)
  /\ \A tree : StagedInVain(tree) <=>
       \E r \in Stagings : r.tree = tree /\ ~Has("TX_DONE", r.tx)

LEMMA PropertyTerms == TermsAreRecords /\ TermsAreRecords'
<1>1. TermsAreRecords
  BY HasIff DEF TermsAreRecords, WentBack, StagedInVain, Begins, Stagings, Records, IsEdit
<1>2. TermsAreRecords'
  BY <1>1, PTL
<1> QED
  BY <1>1, <1>2

Files == <<active, log, manifest, window, trees, pinned>>

\* A record within a transaction: the window, ACTIVE and the trees are as they were.
LEMMA RecordKeeps ==
  ASSUME Shape, PInv, NEW p \in Procs, NEW b, Holding(p, b),
         NEW record, Write(record), Follows(record), record.tx = b.tx,
         record.kind \notin {"TX_BEGIN", "TX_DONE", "TX_ABORT"},
         NEW step \in Working, Goto(p, step), UNCHANGED <<Files, lock, work>>
  PROVE  /\ Shape' /\ JournalInv' /\ LockInv' /\ StagingInv'
         /\ WindowInv' /\ ActiveInv' /\ TreeInv'
         /\ UnfinishedBegins' = UnfinishedBegins
         /\ LogTells(b)' /\ PointersTell(b)' /\ RecordsTell(b)' => TransactionInv'
         /\ OfRecord(work[p], b)' /\ StepTells(step, work[p])' => HolderInv'
<1> USE DEF Files
<1>1. IsSequence(journal) /\ JournalInv
  BY DEF Shape, PInv
<1>2. UnfinishedBegins' = UnfinishedBegins /\ UnfinishedBegins = {b}
  BY <1>1, UnfinishedAfter DEF Holding
<1>3. JournalInv'
  BY <1>1, JournalGrows
<1>4. NoneBegins
  BY <1>1, Wrote, LawfulStays DEF NoneBegins
<1>5. pc[p] \in Working
  BY DEF Holding
<1>6. pc' \in [Procs -> Steps \cup Away] /\ LockInv' /\ StagingInv'
  BY <1>4, <1>5, GotoKeeps
<1>7. Shape'
  BY <1>1, <1>6, Wrote DEF Shape, IsSequence
<1>8. WindowInv'
  BY <1>1, <1>2, Wrote DEF PInv, WindowInv
<1>9. AdoptionIsObserved'
  BY DEF PInv, ActiveInv, AdoptionIsObserved
<1>10. ActiveInv'
  BY <1>1, <1>9, Wrote DEF PInv, ActiveInv
<1>11. WentBack' <=> WentBack
  BY <1>1, Wrote, PropertyTerms DEF TermsAreRecords
<1>12. \A tree : StagedInVain(tree) => StagedInVain(tree)'
  BY <1>1, Wrote, PropertyTerms DEF TermsAreRecords
<1>13. TreeInv'
  BY <1>11, <1>12 DEF PInv, TreeInv, TreesExist, ActiveTreeExists
<1>14. LogTells(b)' /\ PointersTell(b)' /\ RecordsTell(b)' => TransactionInv'
  BY <1>2 DEF TransactionInv
<1>15. OfRecord(work[p], b)' /\ StepTells(step, work[p])' => HolderInv'
  BY <1>2, <1>4, <1>5, GotoKeeps
<1> QED
  BY <1>2, <1>3, <1>6, <1>7, <1>8, <1>10, <1>13, <1>14, <1>15

-----------------------------------------------------------------------------
(* The records within a transaction.                                        *)

LEMMA LogStageKeeps ==
  ASSUME Shape, PInv, NEW p \in Procs, LogStage(p)
  PROVE  Shape' /\ PInv'
<1> DEFINE record == [kind |-> "STAGE_DONE", tx |-> work[p].tx, tree |-> work[p].tree,
                        from |-> work[p].base.tree]
<1>1. pc[p] = "stage_done" /\ Write(record) /\ Goto(p, "log_intent")
        /\ UNCHANGED <<Files, lock, work>>
  BY DEF LogStage, Holds, Files
<1>2. PICK b \in UnfinishedBegins : Holding(p, b)
  BY <1>1, Holder DEF Working, Steps
<1>3. record.tx = b.tx /\ StepTells("stage_done", work[p]) /\ OfRecord(work[p], b)
  BY <1>1, <1>2 DEF Holding, OfRecord
<1>4. Has("TX_BEGIN", b.tx) /\ b.tx # NoTx /\ BeginIsLawful(b) /\ b.head \in Nat
  BY <1>2 DEF Holding, Has, Begins, BeginIsLawful
<1>5. LogTells(b) /\ PointersTell(b) /\ RecordsTell(b)
  BY <1>2 DEF Holding
<1>6. Follows(record)
  <2>1. ASSUME NEW c \in Begins, c.tx = b.tx
        PROVE  c = b
    BY <1>2, <2>1, BeginIsUnique DEF PInv, Holding
  <2>2. record.from = b.active.tree /\ record.tree = TreeOf(b.packet, b.active)
    BY <1>3, <1>4, TargetIs DEF StepTells, OfRecord
  <2> QED
    BY <1>3, <1>4, <2>1, <2>2 DEF Follows, StepTells
<1>7. /\ \A kind, tx : Has(kind, tx)' <=> Has(kind, tx) \/ (kind = record.kind /\ tx = b.tx)
      /\ \A status, tx : Outcome(status, tx)' <=>
           Outcome(status, tx) \/ (/\ record.kind = "OUTCOME_APPEND_INTENT"
                                   /\ b.tx = tx /\ record.status = status)
  BY <1>1, <1>3, Wrote DEF Shape
<1>8. LogTells(b)' /\ PointersTell(b)' /\ RecordsTell(b)'
  BY <1>1, <1>3, <1>4, <1>5, <1>7
     DEF LogTells, PointersTell, RecordsTell, SettledAt, Files, StepTells, OfRecord
<1>9. OfRecord(work[p], b)' /\ StepTells("log_intent", work[p])'
  BY <1>1, <1>3, <1>4, <1>5, <1>7 DEF OfRecord, StepTells, RecordsTell, Files
<1>10. "log_intent" \in Working /\ record.kind \notin {"TX_BEGIN", "TX_DONE", "TX_ABORT"}
  BY DEF Working, Steps
<1> HIDE DEF record
<1> QED
  BY <1>1, <1>2, <1>3, <1>6, <1>8, <1>9, <1>10, RecordKeeps DEF PInv

LEMMA LogWindowPendingKeeps ==
  ASSUME Shape, PInv, NEW p \in Procs, LogWindowPending(p)
  PROVE  Shape' /\ PInv'
<1> DEFINE record == [kind |-> "WINDOW_PENDING", tx |-> work[p].tx]
<1>1. pc[p] = "window_pending" /\ Write(record) /\ Goto(p, "swap")
        /\ UNCHANGED <<Files, lock, work>>
  BY DEF LogWindowPending, Holds, Files
<1>2. PICK b \in UnfinishedBegins : Holding(p, b)
  BY <1>1, Holder DEF Working, Steps
<1>3. record.tx = b.tx /\ StepTells("window_pending", work[p]) /\ OfRecord(work[p], b)
  BY <1>1, <1>2 DEF Holding, OfRecord
<1>4. Has("TX_BEGIN", b.tx) /\ b.tx # NoTx /\ BeginIsLawful(b) /\ b.head \in Nat
  BY <1>2 DEF Holding, Has, Begins, BeginIsLawful
<1>5. LogTells(b) /\ PointersTell(b) /\ RecordsTell(b)
  BY <1>2 DEF Holding
<1>6. Follows(record)
  BY <1>3, <1>4, <1>5 DEF Follows, StepTells, OfRecord, RecordsTell, JournalInv, PInv, Has, Outcome
<1>7. /\ \A kind, tx : Has(kind, tx)' <=> Has(kind, tx) \/ (kind = record.kind /\ tx = b.tx)
      /\ \A status, tx : Outcome(status, tx)' <=>
           Outcome(status, tx) \/ (/\ record.kind = "OUTCOME_APPEND_INTENT"
                                   /\ b.tx = tx /\ record.status = status)
  BY <1>1, <1>3, Wrote DEF Shape
<1>8. LogTells(b)' /\ PointersTell(b)' /\ RecordsTell(b)'
  BY <1>1, <1>3, <1>4, <1>5, <1>7
     DEF LogTells, PointersTell, RecordsTell, SettledAt, Files, StepTells, OfRecord
<1>9. OfRecord(work[p], b)' /\ StepTells("swap", work[p])'
  BY <1>1, <1>3, <1>4, <1>5, <1>7 DEF OfRecord, StepTells, RecordsTell, Files
<1>10. "swap" \in Working /\ record.kind \notin {"TX_BEGIN", "TX_DONE", "TX_ABORT"}
  BY DEF Working, Steps
<1> HIDE DEF record
<1> QED
  BY <1>1, <1>2, <1>3, <1>6, <1>8, <1>9, <1>10, RecordKeeps DEF PInv

LEMMA LogOutcomeKeeps ==
  ASSUME Shape, PInv, NEW p \in Procs, LogOutcome(p)
  PROVE  Shape' /\ PInv'
<1> DEFINE record == [kind |-> "OUTCOME_APPEND_INTENT", tx |-> work[p].tx,
                        status |-> "effective"]
<1>1. pc[p] = "outcome_intent" /\ Write(record) /\ Goto(p, "effective")
        /\ UNCHANGED <<Files, lock, work>>
  BY DEF LogOutcome, Holds, Files
<1>2. PICK b \in UnfinishedBegins : Holding(p, b)
  BY <1>1, Holder DEF Working, Steps
<1>3. record.tx = b.tx /\ StepTells("outcome_intent", work[p]) /\ OfRecord(work[p], b)
  BY <1>1, <1>2 DEF Holding, OfRecord
<1>4. Has("TX_BEGIN", b.tx) /\ b.tx # NoTx /\ BeginIsLawful(b) /\ b.head \in Nat
  BY <1>2 DEF Holding, Has, Begins, BeginIsLawful
<1>5. LogTells(b) /\ PointersTell(b) /\ RecordsTell(b)
  BY <1>2 DEF Holding
<1>6. Follows(record)
  BY <1>3, <1>4, <1>5 DEF Follows, StepTells, OfRecord, RecordsTell, JournalInv, PInv, Has, Outcome
<1>7. /\ \A kind, tx : Has(kind, tx)' <=> Has(kind, tx) \/ (kind = record.kind /\ tx = b.tx)
      /\ \A status, tx : Outcome(status, tx)' <=>
           Outcome(status, tx) \/ (/\ record.kind = "OUTCOME_APPEND_INTENT"
                                   /\ b.tx = tx /\ record.status = status)
  BY <1>1, <1>3, Wrote DEF Shape
<1>8. active = Target(b.packet, b.active)
  BY <1>3, <1>4, <1>5, TargetIs DEF StepTells, LogTells, OfRecord
<1>9. LogTells(b)' /\ PointersTell(b)' /\ RecordsTell(b)'
  BY <1>1, <1>3, <1>4, <1>5, <1>7, <1>8
     DEF LogTells, PointersTell, RecordsTell, SettledAt, Files, StepTells, OfRecord
<1>10. OfRecord(work[p], b)' /\ StepTells("effective", work[p])'
  BY <1>1, <1>3, <1>4, <1>5, <1>7 DEF OfRecord, StepTells, RecordsTell, Files
<1>11. "effective" \in Working /\ record.kind \notin {"TX_BEGIN", "TX_DONE", "TX_ABORT"}
  BY DEF Working, Steps
<1> HIDE DEF record
<1> QED
  BY <1>1, <1>2, <1>3, <1>6, <1>9, <1>10, <1>11, RecordKeeps DEF PInv

LEMMA LogWindowFinalKeeps ==
  ASSUME Shape, PInv, NEW p \in Procs, LogWindowFinal(p)
  PROVE  Shape' /\ PInv'
<1> DEFINE record == [kind |-> "WINDOW_FINAL", tx |-> work[p].tx]
<1>1. pc[p] = "window_final" /\ Write(record) /\ Goto(p, "tx_done")
        /\ UNCHANGED <<Files, lock, work>>
  BY DEF LogWindowFinal, Holds, Files
<1>2. PICK b \in UnfinishedBegins : Holding(p, b)
  BY <1>1, Holder DEF Working, Steps
<1>3. record.tx = b.tx /\ StepTells("window_final", work[p]) /\ OfRecord(work[p], b)
  BY <1>1, <1>2 DEF Holding, OfRecord
<1>4. Has("TX_BEGIN", b.tx) /\ b.tx # NoTx /\ BeginIsLawful(b) /\ b.head \in Nat
  BY <1>2 DEF Holding, Has, Begins, BeginIsLawful
<1>5. LogTells(b) /\ PointersTell(b) /\ RecordsTell(b)
  BY <1>2 DEF Holding
<1>6. Follows(record)
  BY <1>3, <1>4, <1>5 DEF Follows, StepTells, OfRecord, RecordsTell, JournalInv, PInv, Has, Outcome
<1>7. /\ \A kind, tx : Has(kind, tx)' <=> Has(kind, tx) \/ (kind = record.kind /\ tx = b.tx)
      /\ \A status, tx : Outcome(status, tx)' <=>
           Outcome(status, tx) \/ (/\ record.kind = "OUTCOME_APPEND_INTENT"
                                   /\ b.tx = tx /\ record.status = status)
  BY <1>1, <1>3, Wrote DEF Shape
<1>8. LogTells(b)' /\ PointersTell(b)' /\ RecordsTell(b)'
  BY <1>1, <1>3, <1>4, <1>5, <1>7
     DEF LogTells, PointersTell, RecordsTell, SettledAt, Files, StepTells, OfRecord
<1>9. OfRecord(work[p], b)' /\ StepTells("tx_done", work[p])'
  BY <1>1, <1>3, <1>4, <1>5, <1>7 DEF OfRecord, StepTells, RecordsTell, Files
<1>10. "tx_done" \in Working /\ record.kind \notin {"TX_BEGIN", "TX_DONE", "TX_ABORT"}
  BY DEF Working, Steps
<1> HIDE DEF record
<1> QED
  BY <1>1, <1>2, <1>3, <1>6, <1>8, <1>9, <1>10, RecordKeeps DEF PInv

LEMMA LogAbortOutcomeKeeps ==
  ASSUME Shape, PInv, NEW p \in Procs, LogAbortOutcome(p)
  PROVE  Shape' /\ PInv'
<1> DEFINE record == [kind |-> "OUTCOME_APPEND_INTENT", tx |-> work[p].tx,
                        status |-> "aborted"]
<1>1. pc[p] = "abort_intent" /\ Write(record) /\ Goto(p, "abort_entry")
        /\ UNCHANGED <<Files, lock, work>>
  BY DEF LogAbortOutcome, Holds, Files
<1>2. PICK b \in UnfinishedBegins : Holding(p, b)
  BY <1>1, Holder DEF Working, Steps
<1>3. record.tx = b.tx /\ StepTells("abort_intent", work[p]) /\ OfRecord(work[p], b)
  BY <1>1, <1>2 DEF Holding, OfRecord
<1>4. Has("TX_BEGIN", b.tx) /\ b.tx # NoTx /\ BeginIsLawful(b) /\ b.head \in Nat
  BY <1>2 DEF Holding, Has, Begins, BeginIsLawful
<1>5. LogTells(b) /\ PointersTell(b) /\ RecordsTell(b)
  BY <1>2 DEF Holding
<1>6. Follows(record)
  BY <1>3, <1>4, <1>5 DEF Follows, StepTells, OfRecord, RecordsTell, JournalInv, PInv, Has, Outcome
<1>7. /\ \A kind, tx : Has(kind, tx)' <=> Has(kind, tx) \/ (kind = record.kind /\ tx = b.tx)
      /\ \A status, tx : Outcome(status, tx)' <=>
           Outcome(status, tx) \/ (/\ record.kind = "OUTCOME_APPEND_INTENT"
                                   /\ b.tx = tx /\ record.status = status)
  BY <1>1, <1>3, Wrote DEF Shape
<1>8. LogTells(b)' /\ PointersTell(b)' /\ RecordsTell(b)'
  BY <1>1, <1>3, <1>4, <1>5, <1>7
     DEF LogTells, PointersTell, RecordsTell, SettledAt, Files, StepTells, OfRecord
<1>9. OfRecord(work[p], b)' /\ StepTells("abort_entry", work[p])'
  BY <1>1, <1>3, <1>4, <1>5, <1>7 DEF OfRecord, StepTells, RecordsTell, Files
<1>10. "abort_entry" \in Working /\ record.kind \notin {"TX_BEGIN", "TX_DONE", "TX_ABORT"}
  BY DEF Working, Steps
<1> HIDE DEF record
<1> QED
  BY <1>1, <1>2, <1>3, <1>6, <1>8, <1>9, <1>10, RecordKeeps DEF PInv

-----------------------------------------------------------------------------
(* Steps that journal nothing.                                              *)

LEMMA NobodyBegins ==
  ASSUME UNCHANGED journal
  PROVE  NoneBegins
BY Kept DEF NoneBegins

LEMMA TransactionStays ==
  ASSUME TransactionInv, UNCHANGED <<journal, log, active, manifest, window>>
  PROVE  TransactionInv'
BY Kept DEF TransactionInv, Anchored, SettledAt, LogTells, PointersTell, RecordsTell

LEMMA WindowStays ==
  ASSUME WindowInv, ActiveInv, UNCHANGED <<journal, active, window>>
  PROVE  WindowInv' /\ ActiveInv'
BY Kept DEF WindowInv, ActiveInv, AdoptionIsObserved

LEMMA TreesStay ==
  ASSUME TreeInv, UNCHANGED <<journal, active, trees, pinned>>
  PROVE  TreeInv'
<1>1. (WentBack' <=> WentBack) /\ \A tree : StagedInVain(tree) <=> StagedInVain(tree)'
  BY Kept, PropertyTerms DEF TermsAreRecords
<1> QED
  BY <1>1 DEF TreeInv, TreesExist, ActiveTreeExists

\* Files can change, and then the process goes on.
LEMMA QuietGoto ==
  ASSUME Shape, PInv, NEW p \in Procs, NEW b, Holding(p, b), NEW step \in Working,
         Goto(p, step), UNCHANGED <<journal, lock, work>>
  PROVE  /\ JournalInv' /\ LockInv' /\ StagingInv'
         /\ UnfinishedBegins' = UnfinishedBegins
         /\ IsSequence(log)' /\ window' = [state |-> window'.state, tx |-> window'.tx]
              => Shape'
         /\ LogTells(b)' /\ PointersTell(b)' /\ RecordsTell(b)' => TransactionInv'
         /\ OfRecord(work[p], b)' /\ StepTells(step, work[p])' => HolderInv'
<1>1. JournalInv' /\ UnfinishedBegins' = UnfinishedBegins /\ UnfinishedBegins = {b}
        /\ IsSequence(journal)'
  BY Kept DEF PInv, Holding, Shape
<1>2. NoneBegins /\ pc[p] \in Working
  BY NobodyBegins DEF Holding
<1>3. pc' \in [Procs -> Steps \cup Away] /\ LockInv' /\ StagingInv'
  BY <1>2, GotoKeeps
<1>4. OfRecord(work[p], b)' /\ StepTells(step, work[p])' => HolderInv'
  BY <1>1, <1>2, GotoKeeps
<1>5. LogTells(b)' /\ PointersTell(b)' /\ RecordsTell(b)' => TransactionInv'
  BY <1>1 DEF TransactionInv
<1>6. IsSequence(log)' /\ window' = [state |-> window'.state, tx |-> window'.tx] => Shape'
  BY <1>1, <1>3 DEF Shape
<1> QED
  BY <1>1, <1>3, <1>4, <1>5, <1>6

\* The process is through and left the files alone.
LEMMA QuietStop ==
  ASSUME Shape, PInv, NoProc \notin Procs, NEW p \in Procs, lock = p, Stop(p),
         UNCHANGED <<journal, Files>>
  PROVE  Shape' /\ PInv'
<1> USE DEF Files
<1>1. NoneBegins
  BY NobodyBegins
<1>2. /\ pc' \in [Procs -> Steps \cup Away] /\ work' = [q \in Procs |-> work'[q]]
      /\ lock' \in Procs \cup {NoProc} /\ LockInv' /\ StagingInv' /\ HolderInv'
  BY <1>1, StopKeeps
<1>3. Shape'
  BY <1>2, Kept DEF Shape, IsSequence
<1>4. JournalInv' /\ TransactionInv' /\ WindowInv' /\ ActiveInv' /\ TreeInv'
  BY Kept, TransactionStays, WindowStays, TreesStay DEF PInv
<1> QED
  BY <1>2, <1>3, <1>4 DEF PInv

\* It goes on to another step and left the files alone.
LEMMA QuietMove ==
  ASSUME Shape, PInv, NEW p \in Procs, NEW b, Holding(p, b), NEW step \in Working,
         Goto(p, step), UNCHANGED <<journal, Files, lock, work>>,
         StepTells(step, work[p])
  PROVE  Shape' /\ PInv'
<1> USE DEF Files
<1>1. Shape' /\ JournalInv' /\ LockInv' /\ StagingInv'
  BY QuietGoto DEF Shape, IsSequence
<1>2. TransactionInv' /\ WindowInv' /\ ActiveInv' /\ TreeInv'
  BY TransactionStays, WindowStays, TreesStay DEF PInv
<1>3. OfRecord(work[p], b)' /\ StepTells(step, work[p])'
  BY Kept DEF Holding, OfRecord, StepTells
<1> QED
  BY <1>1, <1>2, <1>3, QuietGoto DEF PInv

\* As they all begin: the step of a holder, with its transaction.
LEMMA AtStep ==
  ASSUME Shape, PInv, NEW p \in Procs, NEW step \in Working, Holds(p, step)
  PROVE  \E b \in UnfinishedBegins :
           /\ Holding(p, b) /\ b.head \in Nat /\ BeginIsLawful(b) /\ Has("TX_BEGIN", b.tx)
           /\ OfRecord(work[p], b) /\ StepTells(step, work[p])
           /\ LogTells(b) /\ PointersTell(b) /\ RecordsTell(b)
           /\ Len(log) \in Nat
<1>1. PICK b \in UnfinishedBegins : Holding(p, b)
  BY Holder DEF Holds
<1>2. Len(log) \in Nat
  BY SequenceAppend DEF Shape
<1>3. Has("TX_BEGIN", b.tx)
  BY <1>1 DEF Holding, Has, Begins
<1> QED
  BY <1>1, <1>2, <1>3 DEF Holding, Holds, BeginIsLawful

-----------------------------------------------------------------------------
(* Staging and installing.                                                  *)

LEMMA InstallKeeps ==
  ASSUME Shape, PInv, NEW p \in Procs, Install(p)
  PROVE  Shape' /\ PInv'
<1>1. "install" \in Working /\ "stage_done" \in Working
  BY DEF Working, Steps
<1>2. /\ Goto(p, "stage_done")
      /\ UNCHANGED <<active, log, manifest, journal, window, pinned, lock, work>>
      /\ trees \subseteq trees'
  BY DEF Install
<1>3. PICK b \in UnfinishedBegins :
        Holding(p, b) /\ OfRecord(work[p], b) /\ StepTells("install", work[p])
  BY <1>1, AtStep DEF Install
<1>4. Shape' /\ JournalInv' /\ LockInv' /\ StagingInv'
  BY <1>1, <1>2, <1>3, QuietGoto DEF Shape, IsSequence
<1>5. TransactionInv' /\ WindowInv' /\ ActiveInv'
  BY <1>2, TransactionStays, WindowStays DEF PInv
<1>6. (WentBack' <=> WentBack) /\ \A tree : StagedInVain(tree) <=> StagedInVain(tree)'
  BY <1>2, Kept, PropertyTerms DEF TermsAreRecords
<1>7. TreeInv'
  BY <1>2, <1>6 DEF PInv, TreeInv, TreesExist, ActiveTreeExists
<1>8. OfRecord(work[p], b)' /\ StepTells("stage_done", work[p])'
  BY <1>2, <1>3, Kept DEF OfRecord, StepTells
<1> QED
  BY <1>1, <1>2, <1>3, <1>4, <1>5, <1>7, <1>8, QuietGoto DEF PInv

LEMMA LogIntentKeeps ==
  ASSUME Shape, PInv, NEW p \in Procs, LogIntent(p)
  PROVE  Shape' /\ PInv'
<1> DEFINE record == [kind |-> "LOG_APPEND_INTENT", tx |-> work[p].tx]
<1>1. "log_intent" \in Working /\ "append" \in Working /\ "remove" \in Working
  BY DEF Working, Steps
<1>2. UNCHANGED <<Files, lock, work>>
  BY DEF LogIntent, Files
<1>3. PICK b \in UnfinishedBegins :
        /\ Holding(p, b) /\ b.head \in Nat /\ BeginIsLawful(b) /\ Has("TX_BEGIN", b.tx)
        /\ OfRecord(work[p], b) /\ StepTells("log_intent", work[p])
        /\ LogTells(b) /\ PointersTell(b) /\ RecordsTell(b)
  BY <1>1, AtStep DEF LogIntent
<1>4. record.tx = b.tx /\ b.tx # NoTx
  BY <1>3 DEF Holding, OfRecord
<1>5. Len(log) = b.head /\ active = b.active /\ ~Outcome("effective", b.tx)
        /\ ~Outcome("aborted", b.tx)
  BY <1>3, <1>4 DEF StepTells, LogTells, PointersTell, RecordsTell, Target, BeginIsLawful
<1>6. CASE work[p].tree \in trees
  <2>1. Write(record) /\ Goto(p, "append")
    BY <1>6 DEF LogIntent
  <2>2. Follows(record)
    BY <1>3, <1>4 DEF Follows, StepTells
  <2>3. /\ \A kind, tx : Has(kind, tx)' <=>
             Has(kind, tx) \/ (kind = record.kind /\ tx = b.tx)
        /\ \A status, tx : Outcome(status, tx)' <=> Outcome(status, tx)
    BY <1>4, <2>1, Wrote DEF Shape
  <2>4. LogTells(b)' /\ PointersTell(b)' /\ RecordsTell(b)'
    BY <1>2, <1>3, <1>4, <1>5, <2>3
       DEF LogTells, PointersTell, RecordsTell, SettledAt, Files, StepTells, OfRecord
  <2>5. OfRecord(work[p], b)' /\ StepTells("append", work[p])'
    BY <1>2, <1>3, <1>4, <1>5, <1>6, <2>3 DEF OfRecord, StepTells, Files
  <2>6. record.kind \notin {"TX_BEGIN", "TX_DONE", "TX_ABORT"}
    OBVIOUS
  <2> HIDE DEF record
  <2> QED
    BY <1>1, <1>2, <1>3, <1>4, <2>1, <2>2, <2>4, <2>5, <2>6, RecordKeeps DEF PInv
<1>7. CASE work[p].tree \notin trees
  <2>1. Goto(p, "remove") /\ UNCHANGED journal
    BY <1>7 DEF LogIntent
  <2>2. StepTells("remove", work[p])
    BY <1>3, <1>5 DEF StepTells, OfRecord
  <2> QED
    BY <1>1, <1>2, <1>3, <2>1, <2>2, QuietMove
<1> QED
  BY <1>6, <1>7

-----------------------------------------------------------------------------
(* The adoption log.                                                        *)

LEMMA Entered ==
  ASSUME IsSequence(log), NEW entry, log' = Append(log, entry)
  PROVE  /\ IsSequence(log)' /\ Len(log) \in Nat
         /\ Len(log)' = Len(log) + 1
         /\ \A i \in 1..Len(log) : log'[i] = log[i]
         /\ log'[Len(log) + 1] = entry
         /\ \A tx : \A n \in 0..Len(log) : SettledAt(n, tx) => SettledAt(n, tx)'
<1>1. /\ IsSequence(log)' /\ Len(log) \in Nat
      /\ Len(log)' = Len(log) + 1
      /\ \A i \in 1..Len(log) : log'[i] = log[i]
      /\ log'[Len(log) + 1] = entry
  BY SequenceAppend
<1>2. ASSUME NEW n \in 0..Len(log), NEW tx, SettledAt(n, tx)
      PROVE  SettledAt(n, tx)'
  <2>1. \A i \in 1..n : log'[i] = log[i]
    BY <1>1
  <2> QED
    BY <1>1, <1>2, <2>1 DEF SettledAt
<1> QED
  BY <1>1, <1>2

\* An entry within a transaction: what depends on the log is for its step to show.
LEMMA EntryKeeps ==
  ASSUME Shape, PInv, NEW p \in Procs, NEW b, Holding(p, b), NEW status,
         log' = Append(log, [tx |-> work[p].tx, status |-> status]),
         NEW step \in Working, Goto(p, step),
         UNCHANGED <<active, manifest, journal, window, trees, pinned, lock, work>>,
         LogTells(b)' /\ PointersTell(b)' /\ RecordsTell(b)',
         OfRecord(work[p], b)' /\ StepTells(step, work[p])'
  PROVE  Shape' /\ PInv'
<1>1. IsSequence(log)'
  BY Entered DEF Shape
<1>2. window' = [state |-> window'.state, tx |-> window'.tx]
  BY DEF Shape
<1>3. Shape' /\ JournalInv' /\ LockInv' /\ StagingInv' /\ TransactionInv' /\ HolderInv'
  BY <1>1, <1>2, QuietGoto
<1>4. WindowInv' /\ ActiveInv' /\ TreeInv'
  BY WindowStays, TreesStay DEF PInv
<1> QED
  BY <1>3, <1>4 DEF PInv

LEMMA AppendCommittingKeeps ==
  ASSUME Shape, PInv, NoProc \notin Procs, NEW p \in Procs, AppendCommitting(p)
  PROVE  Shape' /\ PInv'
<1> DEFINE entry == [tx |-> work[p].tx, status |-> "committing"]
<1>1. "append" \in Working /\ "admit" \in Working
  BY DEF Working, Steps
<1>2. UNCHANGED <<active, manifest, journal, window, trees, pinned>>
  BY DEF AppendCommitting
<1>3. lock = p
  BY DEF AppendCommitting, Holds
<1>4. CASE Stop(p) /\ UNCHANGED log
  BY <1>1, <1>2, <1>3, <1>4, QuietStop DEF Files
<1>5. CASE log' = Append(log, entry) /\ Goto(p, "admit") /\ UNCHANGED <<lock, work>>
  <2>1. PICK b \in UnfinishedBegins :
          /\ Holding(p, b) /\ b.head \in Nat /\ BeginIsLawful(b) /\ Has("TX_BEGIN", b.tx)
          /\ OfRecord(work[p], b) /\ StepTells("append", work[p])
          /\ LogTells(b) /\ PointersTell(b) /\ RecordsTell(b)
    BY <1>1, AtStep DEF AppendCommitting
  <2>2. /\ \A kind, tx : Has(kind, tx)' <=> Has(kind, tx)
        /\ \A status, tx : Outcome(status, tx)' <=> Outcome(status, tx)
    BY <1>2, Kept
  <2>3. work[p].tx = b.tx /\ work[p].head = b.head /\ work[p].base = b.active
    BY <2>1 DEF OfRecord
  <2>4. /\ Len(log) \in Nat /\ Len(log)' = Len(log) + 1
        /\ log'[Len(log) + 1] = entry
        /\ \A i \in 1..Len(log) : log'[i] = log[i]
        /\ \A tx : \A n \in 0..Len(log) : SettledAt(n, tx) => SettledAt(n, tx)'
    BY <1>5, Entered DEF Shape
  <2>5. SettledAt(b.head, b.active.tx)'
    BY <2>1, <2>4 DEF LogTells
  <2>6. LogTells(b)'
    BY <2>1, <2>2, <2>3, <2>4, <2>5 DEF LogTells, StepTells, RecordsTell
  <2>7. PointersTell(b)' /\ RecordsTell(b)'
    BY <1>2, <2>1, <2>2, <2>3, <2>4
       DEF PointersTell, RecordsTell, StepTells, LogTells
  <2>8. OfRecord(work[p], b)' /\ StepTells("admit", work[p])'
    BY <1>2, <1>5, <2>1, <2>2, <2>3, <2>4
       DEF OfRecord, StepTells, RecordsTell, PointersTell, LogTells
  <2> QED
    BY <1>1, <1>2, <1>5, <2>1, <2>6, <2>7, <2>8, EntryKeeps
<1> QED
  BY <1>4, <1>5 DEF AppendCommitting, Enter

LEMMA AppendEffectiveKeeps ==
  ASSUME Shape, PInv, NoProc \notin Procs, NEW p \in Procs, AppendEffective(p)
  PROVE  Shape' /\ PInv'
<1> DEFINE entry == [tx |-> work[p].tx, status |-> "effective"]
<1>1. "effective" \in Working /\ "manifest" \in Working
  BY DEF Working, Steps
<1>2. UNCHANGED <<active, manifest, journal, window, trees, pinned>>
  BY DEF AppendEffective
<1>3. lock = p
  BY DEF AppendEffective, Holds
<1>4. CASE Stop(p) /\ UNCHANGED log
  BY <1>1, <1>2, <1>3, <1>4, QuietStop DEF Files
<1>5. CASE log' = Append(log, entry) /\ Goto(p, "manifest") /\ UNCHANGED <<lock, work>>
  <2>1. PICK b \in UnfinishedBegins :
          /\ Holding(p, b) /\ b.head \in Nat /\ BeginIsLawful(b) /\ Has("TX_BEGIN", b.tx)
          /\ OfRecord(work[p], b) /\ StepTells("effective", work[p])
          /\ LogTells(b) /\ PointersTell(b) /\ RecordsTell(b)
    BY <1>1, AtStep DEF AppendEffective
  <2>2. /\ \A kind, tx : Has(kind, tx)' <=> Has(kind, tx)
        /\ \A status, tx : Outcome(status, tx)' <=> Outcome(status, tx)
    BY <1>2, Kept
  <2>3. work[p].tx = b.tx /\ work[p].head = b.head /\ work[p].base = b.active
    BY <2>1 DEF OfRecord
  <2>4. /\ Len(log) \in Nat /\ Len(log)' = Len(log) + 1
        /\ log'[Len(log) + 1] = entry
        /\ \A i \in 1..Len(log) : log'[i] = log[i]
        /\ \A tx : \A n \in 0..Len(log) : SettledAt(n, tx) => SettledAt(n, tx)'
    BY <1>5, Entered DEF Shape
  <2>5. SettledAt(b.head, b.active.tx)'
    BY <2>1, <2>4 DEF LogTells
  <2>6. LogTells(b)'
    BY <2>1, <2>2, <2>3, <2>4, <2>5 DEF LogTells, StepTells, RecordsTell
  <2>7. PointersTell(b)' /\ RecordsTell(b)'
    BY <1>2, <2>1, <2>2, <2>3, <2>4
       DEF PointersTell, RecordsTell, StepTells, LogTells
  <2>8. OfRecord(work[p], b)' /\ StepTells("manifest", work[p])'
    BY <1>2, <1>5, <2>1, <2>2, <2>3, <2>4
       DEF OfRecord, StepTells, RecordsTell, PointersTell, LogTells
  <2> QED
    BY <1>1, <1>2, <1>5, <2>1, <2>6, <2>7, <2>8, EntryKeeps
<1> QED
  BY <1>4, <1>5 DEF AppendEffective, Enter

LEMMA AppendAbortedKeeps ==
  ASSUME Shape, PInv, NoProc \notin Procs, NEW p \in Procs, AppendAborted(p)
  PROVE  Shape' /\ PInv'
<1> DEFINE entry == [tx |-> work[p].tx, status |-> "aborted"]
<1>1. "abort_entry" \in Working /\ "abort_manifest" \in Working
  BY DEF Working, Steps
<1>2. UNCHANGED <<active, manifest, journal, window, trees, pinned>>
  BY DEF AppendAborted
<1>3. lock = p
  BY DEF AppendAborted, Holds
<1>4. CASE Stop(p) /\ UNCHANGED log
  BY <1>1, <1>2, <1>3, <1>4, QuietStop DEF Files
<1>5. CASE log' = Append(log, entry) /\ Goto(p, "abort_manifest") /\ UNCHANGED <<lock, work>>
  <2>1. PICK b \in UnfinishedBegins :
          /\ Holding(p, b) /\ b.head \in Nat /\ BeginIsLawful(b) /\ Has("TX_BEGIN", b.tx)
          /\ OfRecord(work[p], b) /\ StepTells("abort_entry", work[p])
          /\ LogTells(b) /\ PointersTell(b) /\ RecordsTell(b)
    BY <1>1, AtStep DEF AppendAborted
  <2>2. /\ \A kind, tx : Has(kind, tx)' <=> Has(kind, tx)
        /\ \A status, tx : Outcome(status, tx)' <=> Outcome(status, tx)
    BY <1>2, Kept
  <2>3. work[p].tx = b.tx /\ work[p].head = b.head /\ work[p].base = b.active
    BY <2>1 DEF OfRecord
  <2>4. /\ Len(log) \in Nat /\ Len(log)' = Len(log) + 1
        /\ log'[Len(log) + 1] = entry
        /\ \A i \in 1..Len(log) : log'[i] = log[i]
        /\ \A tx : \A n \in 0..Len(log) : SettledAt(n, tx) => SettledAt(n, tx)'
    BY <1>5, Entered DEF Shape
  <2>5. SettledAt(b.head, b.active.tx)'
    BY <2>1, <2>4 DEF LogTells
  <2>6. LogTells(b)'
    <3>1. Len(log) = b.head + 1 /\ Outcome("aborted", b.tx)
      BY <2>1, <2>3 DEF StepTells
    <3>2. /\ Len(log)' = b.head + 2 /\ log'[b.head + 2] = entry
          /\ log'[b.head + 1] = log[b.head + 1]
      BY <2>1, <2>4, <3>1
    <3> QED
      BY <2>1, <2>2, <2>3, <2>5, <3>1, <3>2 DEF LogTells
  <2>7. PointersTell(b)' /\ RecordsTell(b)'
    BY <1>2, <2>1, <2>2, <2>3, <2>4
       DEF PointersTell, RecordsTell, StepTells, LogTells
  <2>8. OfRecord(work[p], b)' /\ StepTells("abort_manifest", work[p])'
    BY <1>2, <1>5, <2>1, <2>2, <2>3, <2>4
       DEF OfRecord, StepTells, RecordsTell, PointersTell, LogTells
  <2> QED
    BY <1>1, <1>2, <1>5, <2>1, <2>6, <2>7, <2>8, EntryKeeps
<1> QED
  BY <1>4, <1>5 DEF AppendAborted, Enter

-----------------------------------------------------------------------------
(* ACTIVE, the manifest and the window.                                     *)

LEMMA SwapKeeps ==
  ASSUME Shape, PInv, NoProc \notin Procs, NEW p \in Procs, Swap(p)
  PROVE  Shape' /\ PInv'
<1>1. "swap" \in Working /\ "outcome_intent" \in Working /\ lock = p
  BY DEF Working, Steps, Swap, Holds
<1>2. UNCHANGED <<log, manifest, journal, window, trees, pinned>>
  BY DEF Swap
<1>3. CASE Stop(p) /\ UNCHANGED active
  BY <1>1, <1>2, <1>3, QuietStop DEF Files
<1>4. CASE /\ active' = ToPointer(work[p])
           /\ Goto(p, "outcome_intent") /\ UNCHANGED <<lock, work>>
  <2>1. PICK b \in UnfinishedBegins :
          /\ Holding(p, b) /\ b.head \in Nat /\ BeginIsLawful(b) /\ Has("TX_BEGIN", b.tx)
          /\ OfRecord(work[p], b) /\ StepTells("swap", work[p])
          /\ LogTells(b) /\ PointersTell(b) /\ RecordsTell(b)
    BY <1>1, AtStep DEF Swap
  <2>2. /\ \A kind, tx : Has(kind, tx)' <=> Has(kind, tx)
        /\ \A status, tx : Outcome(status, tx)' <=> Outcome(status, tx)
        /\ UnfinishedBegins' = UnfinishedBegins
    BY <1>2, Kept
  <2>3. work[p].tx = b.tx /\ work[p].head = b.head /\ work[p].base = b.active
    BY <2>1 DEF OfRecord
  <2>4. /\ Has("WINDOW_PENDING", b.tx) /\ Has("STAGE_DONE", b.tx) /\ Len(log) = b.head + 1
        /\ work[p].tree \in trees /\ active = b.active
        /\ ~Outcome("effective", b.tx) /\ ~Outcome("aborted", b.tx)
    BY <2>1, <2>3 DEF StepTells, RecordsTell
  <2>5. active' = Target(b.packet, b.active) /\ work[p].tree = TreeOf(b.packet, b.active)
    BY <1>4, <2>1, <2>4, TargetIs
  <2>6. LogTells(b)' /\ PointersTell(b)' /\ RecordsTell(b)'
    BY <1>2, <2>1, <2>2, <2>4, <2>5
       DEF LogTells, PointersTell, RecordsTell, SettledAt
  <2>7. OfRecord(work[p], b)' /\ StepTells("outcome_intent", work[p])'
    BY <1>2, <1>4, <2>1, <2>2, <2>3, <2>4 DEF OfRecord, StepTells, ToPointer
  <2>8. Shape' /\ JournalInv' /\ LockInv' /\ StagingInv' /\ TransactionInv' /\ HolderInv'
    BY <1>1, <1>2, <1>4, <2>1, <2>6, <2>7, QuietGoto DEF Shape, IsSequence
  <2>9. WindowInv'
    <3>1. SUFFICES ASSUME window.state # "CLOSED", Has("TX_DONE", window.tx)
                   PROVE  b.packet.rollback_of = window.tx
      BY <1>2, <2>1, <2>2, <2>4 DEF WindowInv
    <3>2. active.tx = window.tx \/ b.packet.rollback_of = window.tx
      BY <2>1, <3>1 DEF PInv, WindowInv, Holding
    <3>3. ~IsEdit(b.packet)
      BY <2>1, <2>4, <3>1 DEF RecordsTell, UnfinishedBegins
    <3> QED
      BY <2>1, <2>4, <3>2, <3>3 DEF RecordsTell
  <2>10. ActiveInv'
    <3>1. active'.tree \in Seq(Edits)
      BY <2>1, <2>5, LawfulPacket DEF BeginIsLawful, Target
    <3>2. active'.tx = b.tx /\ b.tx = <<b.packet.fp, b.active>>
      BY <2>1, <2>5 DEF Target, BeginIsLawful, TxId
    <3>3. Has("TX_BEGIN", active.tx)'
      BY <2>1, <2>2, <3>2
    <3>4. active'.tx[1][1] = "edit" => IsEdit(b.packet)
      <4>1. active'.tx[1] = b.packet.fp
        BY <3>2
      <4> QED
        BY <2>1, <4>1, LawfulPacket DEF BeginIsLawful
    <3>5. AdoptionIsObserved'
      BY <1>2, <2>1, <2>4, <3>2, <3>4 DEF AdoptionIsObserved, RecordsTell, Holding
    <3> QED
      BY <3>1, <3>3, <3>5 DEF ActiveInv
  <2>11. TreeInv'
    <3>1. (WentBack' <=> WentBack) /\ \A tree : StagedInVain(tree) <=> StagedInVain(tree)'
      BY <1>2, Kept, PropertyTerms DEF TermsAreRecords
    <3>2. TreesExist'
      BY <1>2, <2>4, <2>5, <3>1 DEF PInv, TreeInv, TreesExist, ActiveTreeExists, Target
    <3>3. ~WentBack => IsEdit(b.packet)
      BY <2>1, PropertyTerms DEF TermsAreRecords, Holding
    <3>4. ~WentBack => /\ active'.tree \in Seq(Edits)
                       /\ Len(active'.tree) = Len(active.tree) + 1 /\ Len(active.tree) \in Nat
      BY <2>1, <2>4, <2>5, <3>3, LawfulPacket DEF BeginIsLawful, Target
    <3> QED
      BY <1>2, <3>1, <3>2, <3>4 DEF PInv, TreeInv
  <2> QED
    BY <2>8, <2>9, <2>10, <2>11 DEF PInv
<1> QED
  BY <1>3, <1>4 DEF Swap

LEMMA AdmitWindowKeeps ==
  ASSUME Shape, PInv, NoProc \notin Procs, NEW p \in Procs, AdmitWindow(p)
  PROVE  Shape' /\ PInv'
<1>1. /\ "admit" \in Working /\ "window_pending" \in Working /\ "abort_intent" \in Working
      /\ lock = p
  BY DEF Working, Steps, AdmitWindow, Holds
<1>2. UNCHANGED <<active, log, manifest, journal, trees, pinned>>
  BY DEF AdmitWindow
<1>3. PICK b \in UnfinishedBegins :
        /\ Holding(p, b) /\ b.head \in Nat /\ BeginIsLawful(b) /\ Has("TX_BEGIN", b.tx)
        /\ OfRecord(work[p], b) /\ StepTells("admit", work[p])
        /\ LogTells(b) /\ PointersTell(b) /\ RecordsTell(b)
  BY <1>1, AtStep DEF AdmitWindow
<1>4. CASE Stop(p) /\ UNCHANGED window
  BY <1>1, <1>2, <1>4, QuietStop DEF Files
<1>5. CASE Goto(p, "abort_intent") /\ UNCHANGED <<lock, work, window>>
  <2>1. StepTells("abort_intent", work[p])
    BY <1>3 DEF StepTells
  <2> QED
    BY <1>1, <1>2, <1>3, <1>5, <2>1, QuietMove DEF Files
<1>6. CASE /\ CanAdmit(work[p].packet)
           /\ window' = IF work[p].packet.rollback_of = NoTx
                        THEN [state |-> "ADMITTED", tx |-> work[p].tx]
                        ELSE [window EXCEPT !.state = "ROLLING_BACK"]
           /\ Goto(p, "window_pending") /\ UNCHANGED <<lock, work>>
  <2>1. /\ \A kind, tx : Has(kind, tx)' <=> Has(kind, tx)
        /\ \A status, tx : Outcome(status, tx)' <=> Outcome(status, tx)
        /\ UnfinishedBegins' = UnfinishedBegins
    BY <1>2, Kept
  <2>2. /\ work[p].tx = b.tx /\ work[p].packet = b.packet /\ work[p].base = b.active
        /\ ~Has("WINDOW_PENDING", b.tx) /\ active = b.active
        /\ ~Outcome("effective", b.tx) /\ ~Outcome("aborted", b.tx)
    BY <1>3 DEF OfRecord, StepTells
  <2>3. window = [state |-> window.state, tx |-> window.tx]
    BY DEF Shape
  <2>4. /\ window' = [state |-> window'.state, tx |-> window'.tx]
        /\ IsEdit(b.packet) => window'.tx = b.tx
        /\ ~IsEdit(b.packet) => /\ window'.tx = window.tx
                                /\ window.tx = b.packet.rollback_of
                                /\ window.state # "CLOSED"
    BY <1>6, <2>2, <2>3 DEF CanAdmit, IsEdit
  <2>5. ~IsEdit(b.packet) => b.active.tx = b.packet.rollback_of
    <3>1. ~IsEdit(b.packet) => Has("TX_DONE", b.packet.rollback_of)
      BY <1>3, LawfulPacket DEF BeginIsLawful
    <3> QED
      BY <1>3, <2>2, <2>4, <3>1 DEF PInv, WindowInv, Holding
  <2>6. LogTells(b)' /\ PointersTell(b)' /\ RecordsTell(b)'
    BY <1>2, <1>3, <2>1, <2>2
       DEF LogTells, PointersTell, RecordsTell, SettledAt
  <2>7. OfRecord(work[p], b)' /\ StepTells("window_pending", work[p])'
    BY <1>2, <1>3, <1>6, <2>1, <2>2, <2>4, <2>5 DEF OfRecord, StepTells
  <2>8. Shape' /\ JournalInv' /\ LockInv' /\ StagingInv' /\ TransactionInv' /\ HolderInv'
    BY <1>1, <1>2, <1>3, <1>6, <2>4, <2>6, <2>7, QuietGoto DEF Shape, IsSequence
  <2>9. TreeInv'
    BY <1>2, TreesStay DEF PInv
  <2>10. ~Has("TX_DONE", b.tx) /\ b.tx # NoTx
    BY <1>3 DEF UnfinishedBegins, Holding
  <2>11. WindowInv'
    BY <1>2, <2>1, <2>4, <2>10 DEF PInv, WindowInv
  <2>12. b.tx[2] = b.active
    BY <1>3 DEF BeginIsLawful, TxId
  <2>13. ActiveInv'
    BY <1>2, <2>1, <2>2, <2>4, <2>10, <2>12 DEF PInv, ActiveInv, AdoptionIsObserved
  <2> QED
    BY <2>8, <2>9, <2>11, <2>13 DEF PInv
<1> QED
  BY <1>4, <1>5, <1>6 DEF AdmitWindow

LEMMA ReplaceManifestKeeps ==
  ASSUME Shape, PInv, NoProc \notin Procs, NEW p \in Procs, ReplaceManifest(p)
  PROVE  Shape' /\ PInv'
<1>1. "manifest" \in Working /\ "finalize" \in Working
  BY DEF Working, Steps
<1>2. /\ manifest' = [head |-> Len(log), pointer |-> ToPointer(work[p])]
      /\ Goto(p, "finalize")
      /\ UNCHANGED <<active, log, journal, window, trees, pinned, lock, work>>
  BY DEF ReplaceManifest
<1>3. PICK b \in UnfinishedBegins :
        /\ Holding(p, b) /\ b.head \in Nat /\ BeginIsLawful(b) /\ Has("TX_BEGIN", b.tx)
        /\ OfRecord(work[p], b) /\ StepTells("manifest", work[p])
        /\ LogTells(b) /\ PointersTell(b) /\ RecordsTell(b)
  BY <1>1, AtStep DEF ReplaceManifest
<1>4. /\ \A kind, tx : Has(kind, tx)' <=> Has(kind, tx)
      /\ \A status, tx : Outcome(status, tx)' <=> Outcome(status, tx)
  BY <1>2, Kept
<1>5. /\ work[p].tx = b.tx /\ Len(log) = b.head + 2
      /\ Outcome("effective", b.tx) /\ ~Has("WINDOW_FINAL", b.tx) /\ Has("STAGE_DONE", b.tx)
  BY <1>3 DEF OfRecord, StepTells, LogTells
<1>6. ToPointer(work[p]) = active
  BY <1>3, <1>5, TargetIs DEF RecordsTell
<1>7. LogTells(b)' /\ PointersTell(b)' /\ RecordsTell(b)'
  BY <1>2, <1>3, <1>4, <1>5, <1>6 DEF LogTells, PointersTell, RecordsTell, SettledAt
<1>8. OfRecord(work[p], b)' /\ StepTells("finalize", work[p])'
  BY <1>2, <1>3, <1>4, <1>5 DEF OfRecord, StepTells
<1>9. Shape' /\ JournalInv' /\ LockInv' /\ StagingInv' /\ TransactionInv' /\ HolderInv'
  BY <1>1, <1>2, <1>3, <1>7, <1>8, QuietGoto DEF Shape, IsSequence
<1> QED
  BY <1>2, <1>9, WindowStays, TreesStay DEF PInv

LEMMA AnchorAbortKeeps ==
  ASSUME Shape, PInv, NoProc \notin Procs, NEW p \in Procs, AnchorAbort(p)
  PROVE  Shape' /\ PInv'
<1>1. "abort_manifest" \in Working /\ "tx_abort" \in Working
  BY DEF Working, Steps
<1>2. /\ manifest' = [head |-> Len(log), pointer |-> active]
      /\ Goto(p, "tx_abort")
      /\ UNCHANGED <<active, log, journal, window, trees, pinned, lock, work>>
  BY DEF AnchorAbort
<1>3. PICK b \in UnfinishedBegins :
        /\ Holding(p, b) /\ b.head \in Nat /\ BeginIsLawful(b) /\ Has("TX_BEGIN", b.tx)
        /\ OfRecord(work[p], b) /\ StepTells("abort_manifest", work[p])
        /\ LogTells(b) /\ PointersTell(b) /\ RecordsTell(b)
  BY <1>1, AtStep DEF AnchorAbort
<1>4. /\ \A kind, tx : Has(kind, tx)' <=> Has(kind, tx)
      /\ \A status, tx : Outcome(status, tx)' <=> Outcome(status, tx)
  BY <1>2, Kept
<1>5. work[p].tx = b.tx /\ Len(log) = b.head + 2 /\ Outcome("aborted", b.tx)
  BY <1>3 DEF OfRecord, StepTells
<1>6. LogTells(b)' /\ PointersTell(b)' /\ RecordsTell(b)'
  BY <1>2, <1>3, <1>4, <1>5 DEF LogTells, PointersTell, RecordsTell, SettledAt
<1>7. OfRecord(work[p], b)' /\ StepTells("tx_abort", work[p])'
  BY <1>2, <1>3, <1>4, <1>5 DEF OfRecord, StepTells
<1>8. Shape' /\ JournalInv' /\ LockInv' /\ StagingInv' /\ TransactionInv' /\ HolderInv'
  BY <1>1, <1>2, <1>3, <1>6, <1>7, QuietGoto DEF Shape, IsSequence
<1> QED
  BY <1>2, <1>8, WindowStays, TreesStay DEF PInv

LEMMA FinalizeWindowKeeps ==
  ASSUME Shape, PInv, NoProc \notin Procs, NEW p \in Procs, FinalizeWindow(p)
  PROVE  Shape' /\ PInv'
<1>1. "finalize" \in Working /\ "window_final" \in Working /\ lock = p
  BY DEF Working, Steps, FinalizeWindow, Holds
<1>2. UNCHANGED <<active, log, manifest, journal, trees, pinned>>
  BY DEF FinalizeWindow
<1>3. PICK b \in UnfinishedBegins :
        /\ Holding(p, b) /\ b.head \in Nat /\ BeginIsLawful(b) /\ Has("TX_BEGIN", b.tx)
        /\ OfRecord(work[p], b) /\ StepTells("finalize", work[p])
        /\ LogTells(b) /\ PointersTell(b) /\ RecordsTell(b)
  BY <1>1, AtStep DEF FinalizeWindow
<1>4. CASE Stop(p) /\ UNCHANGED window
  BY <1>1, <1>2, <1>4, QuietStop DEF Files
<1>5. CASE /\ window.tx = (IF work[p].packet.rollback_of = NoTx THEN work[p].tx
                           ELSE work[p].packet.rollback_of)
           /\ window' = [window EXCEPT
                !.state = IF work[p].packet.rollback_of = NoTx THEN "OBSERVING" ELSE "CLOSED"]
           /\ Goto(p, "window_final") /\ UNCHANGED <<lock, work>>
  <2>1. /\ \A kind, tx : Has(kind, tx)' <=> Has(kind, tx)
        /\ \A status, tx : Outcome(status, tx)' <=> Outcome(status, tx)
        /\ UnfinishedBegins' = UnfinishedBegins
    BY <1>2, Kept
  <2>2. /\ work[p].tx = b.tx /\ work[p].packet = b.packet
        /\ ~Has("WINDOW_FINAL", b.tx) /\ ~Has("TX_DONE", b.tx)
    BY <1>3 DEF OfRecord, StepTells, UnfinishedBegins
  <2>3. window = [state |-> window.state, tx |-> window.tx]
    BY DEF Shape
  <2>4. /\ window' = [state |-> window'.state, tx |-> window'.tx] /\ window'.tx = window.tx
        /\ IsEdit(b.packet) => window.tx = b.tx
        /\ ~IsEdit(b.packet) => window'.state = "CLOSED"
    BY <1>5, <2>2, <2>3 DEF IsEdit
  <2>5. LogTells(b)' /\ PointersTell(b)' /\ RecordsTell(b)'
    BY <1>2, <1>3, <2>1, <2>2, <2>4
       DEF LogTells, PointersTell, RecordsTell, SettledAt
  <2>6. OfRecord(work[p], b)' /\ StepTells("window_final", work[p])'
    BY <1>2, <1>3, <1>5, <2>1, <2>2, <2>4 DEF OfRecord, StepTells
  <2>7. Shape' /\ JournalInv' /\ LockInv' /\ StagingInv' /\ TransactionInv' /\ HolderInv'
    BY <1>1, <1>2, <1>3, <1>5, <2>4, <2>5, <2>6, QuietGoto DEF Shape, IsSequence
  <2>8. TreeInv'
    BY <1>2, TreesStay DEF PInv
  <2>9. WindowInv'
    BY <1>2, <2>1, <2>2, <2>4 DEF PInv, WindowInv
  <2>10. ActiveInv'
    BY <1>2, <2>1, <2>4 DEF PInv, ActiveInv, AdoptionIsObserved
  <2> QED
    BY <2>7, <2>8, <2>9, <2>10 DEF PInv
<1> QED
  BY <1>4, <1>5 DEF FinalizeWindow

-----------------------------------------------------------------------------
(* The ends of a transaction.                                               *)

\* The terminal record: what has to hold then is that the files are anchored.
LEMMA EndKeeps ==
  ASSUME Shape, PInv, NoProc \notin Procs, NEW p \in Procs, NEW b, Holding(p, b),
         NEW kind \in {"TX_DONE", "TX_ABORT"}, NEW record, record.kind = kind,
         record.tx = b.tx, Write(record), Follows(record), Stop(p), UNCHANGED Files,
         Anchored, WindowInv', TreeInv'
  PROVE  Shape' /\ PInv'
<1> USE DEF Files
<1>1. IsSequence(journal) /\ JournalInv
  BY DEF Shape, PInv
<1>2. UnfinishedBegins' = {}
  BY <1>1, UnfinishedAfter DEF Holding
<1>3. JournalInv'
  BY <1>1, JournalGrows
<1>4. NoneBegins
  BY <1>1, Wrote, LawfulStays DEF NoneBegins
<1>5. /\ pc' \in [Procs -> Steps \cup Away] /\ work' = [q \in Procs |-> work'[q]]
      /\ lock' \in Procs \cup {NoProc} /\ LockInv' /\ StagingInv' /\ HolderInv'
  BY <1>4, StopKeeps DEF Holding
<1>6. Shape'
  BY <1>1, <1>5, Wrote DEF Shape, IsSequence
<1>7. TransactionInv'
  BY <1>2 DEF TransactionInv, Anchored, SettledAt
<1>8. ActiveInv'
  BY <1>1, Wrote DEF PInv, ActiveInv, AdoptionIsObserved
<1> QED
  BY <1>3, <1>5, <1>6, <1>7, <1>8 DEF PInv

LEMMA LogDoneKeeps ==
  ASSUME Shape, PInv, NoProc \notin Procs, NEW p \in Procs, LogDone(p)
  PROVE  Shape' /\ PInv'
<1> DEFINE record == [kind |-> "TX_DONE", tx |-> work[p].tx]
<1>1. "tx_done" \in Working
  BY DEF Working, Steps
<1>2. Write(record) /\ Stop(p) /\ UNCHANGED Files
  BY DEF LogDone, Files
<1>3. PICK b \in UnfinishedBegins :
        /\ Holding(p, b) /\ b.head \in Nat /\ BeginIsLawful(b) /\ Has("TX_BEGIN", b.tx)
        /\ OfRecord(work[p], b) /\ StepTells("tx_done", work[p])
        /\ LogTells(b) /\ PointersTell(b) /\ RecordsTell(b) /\ Len(log) \in Nat
  BY <1>1, AtStep DEF LogDone
<1>4. /\ record.tx = b.tx /\ record.kind = "TX_DONE" /\ b.tx # NoTx
      /\ Has("STAGE_DONE", b.tx) /\ Has("WINDOW_FINAL", b.tx)
      /\ ~Has("TX_DONE", b.tx) /\ Outcome("effective", b.tx)
      /\ Len(log) = b.head + 2 /\ manifest.head = b.head + 2
  BY <1>3 DEF OfRecord, StepTells, LogTells, Holding, UnfinishedBegins
<1>5. Follows(record)
  BY <1>3, <1>4 DEF Follows
<1>6. /\ active = Target(b.packet, b.active) /\ active.tx = b.tx
      /\ active.tree = TreeOf(b.packet, b.active)
  BY <1>3, <1>4 DEF RecordsTell, Target, BeginIsLawful
<1>7. Anchored
  <2>1. manifest = [head |-> Len(log), pointer |-> active]
    BY <1>3, <1>4 DEF PointersTell
  <2>2. ~Outcome("aborted", b.tx)
    BY <1>3, <1>4, <1>6 DEF RecordsTell, PointersTell, BeginIsLawful
  <2>3. log[b.head + 2] = [tx |-> b.tx, status |-> "effective"]
    BY <1>3, <1>4, <2>2 DEF LogTells
  <2>4. SettledAt(Len(log), active.tx)
    BY <1>3, <1>4, <1>6, <2>3 DEF SettledAt
  <2> QED
    BY <2>1, <2>4 DEF Anchored
<1>8. /\ \A kind, tx : Has(kind, tx)' <=>
           Has(kind, tx) \/ (kind = "TX_DONE" /\ tx = b.tx)
      /\ Begins' = Begins /\ Stagings' = Stagings
  BY <1>2, <1>4, Wrote DEF Shape
<1>9. WindowInv'
  <2>1. SUFFICES ASSUME window.state # "CLOSED", Has("TX_DONE", window.tx), active.tx # window.tx
                 PROVE  FALSE
    BY <1>2, <1>6, <1>8 DEF WindowInv, Files
  <2>2. b.packet.rollback_of = window.tx
    BY <1>3, <2>1 DEF PInv, WindowInv, Holding
  <2>3. window.tx # NoTx
    BY <2>1 DEF PInv, JournalInv, Has
  <2> QED
    BY <1>3, <1>4, <2>1, <2>2, <2>3 DEF RecordsTell, IsEdit
<1>10. TreeInv'
  <2>1. WentBack' <=> WentBack
    BY <1>8, PropertyTerms DEF TermsAreRecords
  <2>2. ASSUME NEW tree, tree \notin trees, StagedInVain(tree)
        PROVE  StagedInVain(tree)'
    <3>1. PICK r \in Stagings : r.tree = tree /\ ~Has("TX_DONE", r.tx)
      BY <2>2, PropertyTerms DEF TermsAreRecords
    <3>2. r.tx # b.tx
      BY <1>3, <1>6, <2>2, <3>1 DEF PInv, JournalInv, TreeInv, TreesExist, ActiveTreeExists,
                                    Holding
    <3> QED
      BY <1>8, <3>1, <3>2, PropertyTerms DEF TermsAreRecords
  <2> QED
    BY <1>2, <2>1, <2>2 DEF PInv, TreeInv, TreesExist, ActiveTreeExists, Files
<1> HIDE DEF record
<1> QED
  BY <1>2, <1>3, <1>4, <1>5, <1>7, <1>9, <1>10, EndKeeps

LEMMA LogAbortKeeps ==
  ASSUME Shape, PInv, NoProc \notin Procs, NEW p \in Procs, LogAbort(p)
  PROVE  Shape' /\ PInv'
<1> DEFINE record == [kind |-> "TX_ABORT", tx |-> work[p].tx]
<1>1. "tx_abort" \in Working
  BY DEF Working, Steps
<1>2. Write(record) /\ Stop(p) /\ UNCHANGED Files
  BY DEF LogAbort, Files
<1>3. PICK b \in UnfinishedBegins :
        /\ Holding(p, b) /\ b.head \in Nat /\ BeginIsLawful(b) /\ Has("TX_BEGIN", b.tx)
        /\ OfRecord(work[p], b) /\ StepTells("tx_abort", work[p])
        /\ LogTells(b) /\ PointersTell(b) /\ RecordsTell(b) /\ Len(log) \in Nat
  BY <1>1, AtStep DEF LogAbort
<1>4. /\ record.tx = b.tx /\ record.kind = "TX_ABORT" /\ b.tx # NoTx
      /\ ~Has("TX_ABORT", b.tx)
      /\ Len(log) = b.head \/ (Outcome("aborted", b.tx) /\ manifest.head = b.head + 2)
  BY <1>3 DEF OfRecord, StepTells, Holding, UnfinishedBegins
<1>5. Follows(record)
  BY <1>3, <1>4 DEF Follows
<1>6. ~Has("WINDOW_PENDING", b.tx) /\ active = b.active /\ ~Outcome("effective", b.tx)
  BY <1>3, <1>4 DEF RecordsTell, PointersTell, Target, BeginIsLawful
<1>7. Anchored
  <2>1. CASE Len(log) = b.head
    BY <1>3, <1>6, <2>1 DEF Anchored, PointersTell, LogTells
  <2>2. CASE Outcome("aborted", b.tx) /\ manifest.head = b.head + 2
    <3>1. Len(log) = b.head + 2 /\ manifest = [head |-> Len(log), pointer |-> active]
      BY <1>3, <2>2 DEF PointersTell
    <3>2. log[b.head + 2].status = "aborted" /\ log[b.head + 1].status = "committing"
      BY <1>3, <1>6, <3>1 DEF LogTells
    <3>3. SettledAt(Len(log), active.tx)
      <4>1. SettledAt(b.head, active.tx)
        BY <1>3, <1>6 DEF LogTells
      <4>2. ASSUME NEW i \in 1..Len(log), log[i].status = "effective"
            PROVE  i \in 1..b.head
        BY <1>3, <3>1, <3>2, <4>2
      <4>3. ASSUME NEW i \in 1..Len(log), log[i].status = "effective",
                   \A j \in 1..Len(log) : log[j].status = "effective" => j <= i
            PROVE  log[i].tx = active.tx
        <5>1. i \in 1..b.head
          BY <4>2, <4>3
        <5>2. \A j \in 1..b.head : j \in 1..Len(log)
          BY <1>3, <3>1
        <5> QED
          BY <4>1, <4>3, <5>1, <5>2 DEF SettledAt
      <4>4. log[Len(log)].status # "committing"
        BY <3>1, <3>2
      <4> QED
        BY <4>3, <4>4 DEF SettledAt
    <3> QED
      BY <3>1, <3>3 DEF Anchored
  <2> QED
    BY <1>4, <2>1, <2>2
<1>8. /\ \A kind, tx : Has(kind, tx)' <=>
           Has(kind, tx) \/ (kind = "TX_ABORT" /\ tx = b.tx)
      /\ Begins' = Begins /\ Stagings' = Stagings
  BY <1>2, <1>4, Wrote DEF Shape
<1>9. WindowInv'
  BY <1>2, <1>3, <1>6, <1>8 DEF PInv, WindowInv, Files, Holding
<1>10. TreeInv'
  <2>1. (WentBack' <=> WentBack) /\ \A tree : StagedInVain(tree) <=> StagedInVain(tree)'
    BY <1>8, PropertyTerms DEF TermsAreRecords
  <2> QED
    BY <1>2, <2>1 DEF PInv, TreeInv, TreesExist, ActiveTreeExists, Files
<1> HIDE DEF record
<1> QED
  BY <1>2, <1>3, <1>4, <1>5, <1>7, <1>9, <1>10, EndKeeps

LEMMA RemoveStagedKeeps ==
  ASSUME Shape, PInv, NEW p \in Procs, RemoveStaged(p)
  PROVE  Shape' /\ PInv'
<1>1. "remove" \in Working /\ "tx_abort" \in Working
  BY DEF Working, Steps
<1>2. /\ Goto(p, "tx_abort")
      /\ UNCHANGED <<active, log, manifest, journal, window, pinned, lock, work>>
  BY DEF RemoveStaged
<1>3. PICK b \in UnfinishedBegins :
        /\ Holding(p, b) /\ b.head \in Nat /\ BeginIsLawful(b) /\ Has("TX_BEGIN", b.tx)
        /\ OfRecord(work[p], b) /\ StepTells("remove", work[p])
        /\ LogTells(b) /\ PointersTell(b) /\ RecordsTell(b)
  BY <1>1, AtStep DEF RemoveStaged
<1>4. work[p].tx = b.tx /\ ~Has("TX_DONE", b.tx) /\ Len(log) = b.head
  BY <1>3 DEF OfRecord, UnfinishedBegins, StepTells
<1>5. active = b.active
  BY <1>3, <1>4 DEF RecordsTell, PointersTell
<1>6. Shape' /\ JournalInv' /\ LockInv' /\ StagingInv'
  BY <1>1, <1>2, <1>3, QuietGoto DEF Shape, IsSequence
<1>7. TransactionInv' /\ WindowInv' /\ ActiveInv'
  BY <1>2, TransactionStays, WindowStays DEF PInv
<1>8. OfRecord(work[p], b)' /\ StepTells("tx_abort", work[p])'
  BY <1>2, <1>3, Kept DEF OfRecord, StepTells
<1>9. HolderInv'
  BY <1>1, <1>2, <1>3, <1>8, QuietGoto
<1>10. ASSUME NEW t \in trees, t \notin trees'
       PROVE  t # active.tree /\ t = TreeOf(b.packet, b.active) /\ StagedInVain(t)
  <2>1. Journaled("STAGE_DONE", b.tx) /\ t = LastRecord("STAGE_DONE", b.tx).tree
          /\ t # active.tree
    BY <1>4, <1>10 DEF RemoveStaged
  <2>2. PICK r \in Records : r.kind = "STAGE_DONE" /\ r.tx = b.tx
    BY <2>1, HasIff DEF Has
  <2>3. t = r.tree
    BY <2>1, <2>2, LastIs DEF PInv, JournalInv, Shape
  <2>4. r \in Stagings
    BY <2>2 DEF Stagings
  <2> QED
    BY <1>3, <1>4, <2>1, <2>2, <2>3, <2>4, PropertyTerms
       DEF PInv, JournalInv, Holding, TermsAreRecords
<1>11. TreeInv'
  <2>1. (WentBack' <=> WentBack) /\ \A tree : StagedInVain(tree) <=> StagedInVain(tree)'
    BY <1>2, Kept, PropertyTerms DEF TermsAreRecords
  <2>2. ASSUME NEW t \in pinned, t \in trees, t \notin trees'
        PROVE  WentBack /\ StagedInVain(t)
    <3>1. t = TreeOf(b.packet, b.active) /\ StagedInVain(t)
      BY <1>10, <2>2
    <3>2. ~WentBack => IsEdit(b.packet) /\ Len(t) <= Len(active.tree)
      BY <1>3, <2>2, PropertyTerms DEF TermsAreRecords, Holding, PInv, TreeInv
    <3>3. IsEdit(b.packet) => Len(t) = Len(active.tree) + 1 /\ Len(active.tree) \in Nat
      BY <1>3, <1>5, <3>1, LawfulPacket DEF BeginIsLawful
    <3> QED
      BY <3>1, <3>2, <3>3
  <2>3. active.tree \in trees'
    BY <1>10 DEF PInv, TreeInv, TreesExist, ActiveTreeExists
  <2>4. trees' \subseteq trees
    BY DEF RemoveStaged
  <2> QED
    BY <1>2, <2>1, <2>2, <2>3, <2>4 DEF PInv, TreeInv, TreesExist, ActiveTreeExists
<1> QED
  BY <1>6, <1>7, <1>9, <1>11 DEF PInv

LEMMA FailKeeps ==
  ASSUME Shape, PInv, NoProc \notin Procs, NEW p \in Procs,
         NEW step \in Steps, step # "append_done", Fail(p, step)
  PROVE  Shape' /\ PInv'
<1>1. pc[p] = step /\ lock = p /\ UNCHANGED <<journal, Files>>
  BY DEF Fail, durable, Files
<1>2. CASE Stop(p)
  BY <1>1, <1>2, QuietStop
<1>3. CASE Handler(step) # "idle" /\ Goto(p, Handler(step)) /\ UNCHANGED <<lock, work>>
  <2>1. \/ step \in {"install", "stage_done", "log_intent", "append"} /\ Handler(step) = "remove"
        \/ step \in {"admit", "window_pending"} /\ Handler(step) = "abort_intent"
    BY <1>3 DEF Handler
  <2>2. step \in Working /\ Handler(step) \in Working
    BY <2>1 DEF Working, Steps
  <2>3. Holds(p, step)
    BY <1>1 DEF Holds
  <2>4. PICK b \in UnfinishedBegins :
          /\ Holding(p, b) /\ OfRecord(work[p], b) /\ StepTells(step, work[p])
          /\ LogTells(b) /\ RecordsTell(b)
    BY <2>2, <2>3, AtStep
  <2>5. StepTells(Handler(step), work[p])
    BY <2>1, <2>4 DEF StepTells, OfRecord, LogTells, RecordsTell
  <2> QED
    BY <1>1, <1>3, <2>2, <2>4, <2>5, QuietMove
<1> QED
  BY <1>2, <1>3 DEF Fail

-----------------------------------------------------------------------------
(* Before the lock, and dying.                                              *)

\* What a process does that does not hold the lock: it stages, gives up or dies.
LEMMA BystanderKeeps ==
  ASSUME Shape, PInv, NEW p \in Procs, pc[p] \in Away, NEW step \in Away, NEW w,
         pc' = [pc EXCEPT ![p] = step], work' = [work EXCEPT ![p] = w],
         UNCHANGED <<active, log, manifest, journal, window, lock>>,
         trees' = trees \/ lock \notin Procs, TreeInv',
         step = "idle" => w = NoWork,
         step = "staged" =>
           /\ StagedWork(w)
           /\ \A q \in Procs : pc[q] \in NotYetBegun /\ q # p => work[q].tx # w.tx
  PROVE  Shape' /\ PInv'
<1>1. pc \in [Procs -> Steps \cup Away] /\ work = [q \in Procs |-> work[q]]
  BY DEF Shape
<1>2. /\ pc' \in [Procs -> Steps \cup Away] /\ pc'[p] = step
      /\ \A q \in Procs : q # p => pc'[q] = pc[q]
  BY <1>1
<1>3. /\ work' = [q \in Procs |-> work'[q]] /\ work'[p] = w
      /\ \A q \in Procs : q # p => work'[q] = work[q]
  BY <1>1
<1>4. Shape'
  BY <1>2, <1>3 DEF Shape, IsSequence
<1>5. JournalInv' /\ TransactionInv' /\ WindowInv' /\ ActiveInv'
  BY Kept, TransactionStays, WindowStays DEF PInv
<1>6. LockInv'
  BY <1>2, <1>3 DEF PInv, LockInv
<1>7. NoneBegins
  BY NobodyBegins
<1>8. StagingInv'
  <2>1. ASSUME NEW q \in Procs, pc'[q] \in NotYetBegun
        PROVE  StagedWork(work[q])'
    <3>1. CASE q = p
      <4>1. StagedWork(w)
        BY <1>2, <2>1, <3>1 DEF NotYetBegun, Away
      <4> QED
        BY <1>3, <1>7, <3>1, <4>1, StagedWorkStays
    <3>2. CASE q # p
      <4>1. StagedWork(work[q]) /\ work'[q] = work[q]
        BY <1>2, <1>3, <2>1, <3>2 DEF PInv, StagingInv
      <4> QED
        BY <1>7, <4>1, StagedWorkStays
    <3> QED
      BY <3>1, <3>2
  <2>2. ASSUME NEW q \in Procs, NEW r \in Procs, pc'[q] \in NotYetBegun,
               pc'[r] \in NotYetBegun, q # r
        PROVE  work'[q].tx # work'[r].tx
    BY <1>2, <1>3, <2>2 DEF PInv, StagingInv, NotYetBegun, Away
  <2> QED
    BY <2>1, <2>2 DEF StagingInv
<1>9. HolderInv'
  <2>1. SUFFICES ASSUME NEW q \in Procs
                 PROVE  /\ pc'[q] = "begin" =>
                             UnfinishedBegins' = {} /\ Expected(work[q].base, work[q].head)'
                        /\ pc'[q] \in Working =>
                             /\ \E b \in UnfinishedBegins' : OfRecord(work[q], b)'
                             /\ StepTells(pc[q], work[q])'
    BY DEF HolderInv
  <2>2. CASE pc'[q] \in Away
    BY <2>2 DEF Away, Working, Steps
  <2>3. CASE pc'[q] \notin Away
    <3>1. q # p /\ pc'[q] = pc[q] /\ work'[q] = work[q] /\ lock = q /\ trees' = trees
      BY <1>2, <1>3, <2>3 DEF PInv, LockInv
    <3> QED
      BY <3>1, Kept DEF PInv, HolderInv, Expected, OfRecord, StepTells
  <2> QED
    BY <2>2, <2>3
<1> QED
  BY <1>4, <1>5, <1>6, <1>8, <1>9 DEF PInv

LEMMA PrepareKeeps ==
  ASSUME Shape, PInv, NEW p \in Procs, NEW packet, NEW tree, Prepare(p, packet, tree),
         ~Proposed(TxId(packet, active)), Lawful(packet, active),
         tree = TreeOf(packet, active)
  PROVE  Shape' /\ PInv'
<1> DEFINE w == [mode |-> "promote", tx |-> TxId(packet, active), base |-> active,
                 head |-> Len(log), tree |-> tree, packet |-> packet]
<1>1. /\ pc[p] = "idle" /\ pc' = [pc EXCEPT ![p] = "staged"]
      /\ work' = [work EXCEPT ![p] = w]
      /\ UNCHANGED <<active, log, manifest, journal, window, trees, pinned, lock>>
  BY DEF Prepare, Goto, durable
<1>2. /\ ~Has("TX_BEGIN", TxId(packet, active))
      /\ \A q \in Procs : work[q].tx # TxId(packet, active)
  BY HasIff DEF Proposed
<1>3. active.tx # TxId(packet, active)
  <2>1. CASE active = Seed
    <3>1. active.tx = NoTx
      BY <2>1 DEF Seed
    <3>2. NoTx # TxId(packet, active)
      BY DEF NoTx, TxId
    <3> QED
      BY <3>1, <3>2
  <2>2. CASE Has("TX_BEGIN", active.tx)
    BY <1>2, <2>2
  <2> QED
    BY <2>1, <2>2 DEF PInv, ActiveInv
<1>4. Len(log) \in Nat
  BY SequenceAppend DEF Shape
<1>5. StagedWork(w)
  BY <1>2, <1>3, <1>4 DEF StagedWork
<1>6. TreeInv'
  BY <1>1, TreesStay DEF PInv
<1>7. \A q \in Procs : work[q].tx # w.tx
  BY <1>2
<1>8. "idle" \in Away /\ "staged" \in Away
  BY DEF Away
<1> HIDE DEF w
<1> QED
  BY <1>1, <1>5, <1>6, <1>7, <1>8, BystanderKeeps

LEMMA StageKeeps ==
  ASSUME Shape, PInv, ~Retries, NEW p \in Procs, NEW edit \in Edits, Stage(p, edit)
  PROVE  Shape' /\ PInv'
<1> DEFINE packet == [fp |-> <<"edit", edit>>, rollback_of |-> NoTx]
<1>1. ~Proposed(TxId(packet, active)) /\ Prepare(p, packet, Append(active.tree, edit))
  BY DEF Stage
<1>2. Lawful(packet, active)
  BY DEF PInv, ActiveInv, Lawful
<1>3. Append(active.tree, edit) = TreeOf(packet, active)
  BY DEF TreeOf, IsEdit
<1> HIDE DEF packet
<1> QED
  BY <1>1, <1>2, <1>3, PrepareKeeps

LEMMA StageRollbackKeeps ==
  ASSUME Shape, PInv, ~Retries, NEW p \in Procs, NEW tx, StageRollback(p, tx)
  PROVE  Shape' /\ PInv'
<1> DEFINE packet == [fp |-> <<"rollback", tx>>, rollback_of |-> tx]
           tree == LastRecord("STAGE_DONE", tx).from
<1>1. ~Proposed(TxId(packet, active)) /\ Prepare(p, packet, tree)
  BY DEF StageRollback
<1>2. Has("TX_DONE", tx)
  BY HasIff DEF StageRollback
<1>3. tx # NoTx /\ Has("TX_BEGIN", tx) /\ Has("STAGE_DONE", tx)
  BY <1>2 DEF PInv, JournalInv, Has
<1>4. PICK b \in Begins : b.tx = tx
  BY <1>3 DEF Has, Begins
<1>5. PICK r \in Stagings : r.tx = tx
  BY <1>3 DEF Has, Stagings
<1>6. r \in Records /\ r.kind = "STAGE_DONE"
  BY DEF Stagings
<1>7. LastRecord("STAGE_DONE", tx) = r
  BY <1>5, <1>6, LastIs DEF PInv, JournalInv, Shape
<1>8. tree = b.active.tree
  BY <1>4, <1>5, <1>7 DEF PInv, JournalInv
<1>9. tx = <<b.packet.fp, b.active>> /\ b.active.tree \in Seq(Edits)
  BY <1>4 DEF PInv, JournalInv, BeginIsLawful, TxId, Lawful
<1>10. tx[2] = b.active
  BY <1>9
<1>11. Lawful(packet, active)
  BY <1>2, <1>3, <1>9, <1>10 DEF PInv, ActiveInv, Lawful
<1>12. tree = TreeOf(packet, active)
  BY <1>3, <1>8, <1>10 DEF TreeOf, IsEdit
<1> HIDE DEF packet, tree
<1> QED
  BY <1>1, <1>11, <1>12, PrepareKeeps

LEMMA DieKeeps ==
  ASSUME Shape, PInv, NoProc \notin Procs, NEW p \in Procs, Die(p)
  PROVE  Shape' /\ PInv'
<1>1. /\ pc' = [pc EXCEPT ![p] = "idle"] /\ work' = [work EXCEPT ![p] = NoWork]
      /\ lock' = IF lock = p THEN NoProc ELSE lock
      /\ UNCHANGED <<journal, Files>>
  BY DEF Die, Files
<1>2. CASE lock = p
  BY <1>1, <1>2, QuietStop DEF Stop
<1>3. CASE lock # p
  <2>1. pc[p] \in Away
    BY <1>3 DEF PInv, LockInv
  <2>2. TreeInv'
    BY <1>1, TreesStay DEF PInv, Files
  <2> QED
    BY <1>1, <1>3, <2>1, <2>2, BystanderKeeps DEF Away, Files
<1> QED
  BY <1>2, <1>3

-----------------------------------------------------------------------------
(* Taking the lock, and the record that begins a transaction.               *)

LEMMA GarbageIsUnused ==
  ASSUME TreeInv, trees' = trees \ Garbage, UNCHANGED <<journal, active, pinned>>
  PROVE  TreeInv'
<1>1. (WentBack' <=> WentBack) /\ \A tree : StagedInVain(tree) <=> StagedInVain(tree)'
  BY Kept, PropertyTerms DEF TermsAreRecords
<1>2. active.tree \notin Garbage /\ \A t \in pinned : t \notin Garbage
  BY DEF Garbage
<1> QED
  BY <1>1, <1>2 DEF TreeInv, TreesExist, ActiveTreeExists

LEMMA LockKeeps ==
  ASSUME Shape, PInv, NoProc \notin Procs, NEW p \in Procs, Lock(p)
  PROVE  Shape' /\ PInv'
<1>1. /\ pc[p] = "staged" /\ lock = NoProc
      /\ UNCHANGED <<active, log, manifest, journal, window, pinned>>
  BY DEF Lock
<1>2. \A q \in Procs : pc[q] \in Away
  BY <1>1 DEF PInv, LockInv
<1>3. TreeInv'
  BY <1>1, TreesStay, GarbageIsUnused DEF Lock, PInv
<1>4. CASE Stop(p)
  <2>1. pc' = [pc EXCEPT ![p] = "idle"] /\ work' = [work EXCEPT ![p] = NoWork]
          /\ lock' = lock /\ "idle" \in Away /\ lock \notin Procs
    BY <1>1, <1>4 DEF Stop, Away
  <2> QED
    BY <1>1, <1>2, <1>3, <2>1, BystanderKeeps
<1>5. CASE /\ ~Refused(work[p].packet) /\ Expected(work[p].base, work[p].head)
           /\ lock' = p /\ Goto(p, "begin") /\ UNCHANGED work
  <2>1. UnfinishedBegins = {} /\ UnfinishedBegins' = {}
    BY <1>1, <1>5, UnfinishedIs, Kept DEF Refused
  <2>2. pc \in [Procs -> Steps \cup Away] /\ "begin" \in Steps /\ "begin" \notin Away
    BY DEF Shape, Steps, Away
  <2>3. /\ pc' \in [Procs -> Steps \cup Away] /\ pc'[p] = "begin"
        /\ \A q \in Procs : q # p => pc'[q] = pc[q]
    BY <1>5, <2>2 DEF Goto
  <2>4. Shape'
    BY <1>1, <1>5, <2>3 DEF Shape, IsSequence
  <2>5. JournalInv' /\ TransactionInv' /\ WindowInv' /\ ActiveInv'
    BY <1>1, Kept, TransactionStays, WindowStays DEF PInv
  <2>6. LockInv'
    BY <1>2, <1>5, <2>2, <2>3 DEF PInv, LockInv, Away
  <2>7. StagingInv'
    <3>1. \A q \in Procs : pc'[q] \in NotYetBegun => pc[q] \in NotYetBegun
      BY <1>1, <2>3 DEF NotYetBegun
    <3>2. NoneBegins
      BY <1>1, NobodyBegins
    <3> QED
      BY <1>5, <3>1, <3>2, StagedWorkStays DEF PInv, StagingInv
  <2>8. HolderInv'
    <3>1. \A q \in Procs : pc'[q] \notin Working /\ (pc'[q] = "begin" => q = p)
      BY <1>2, <2>3 DEF Away, Working, Steps
    <3>2. Expected(work[p].base, work[p].head)'
      BY <1>1, <1>5 DEF Expected
    <3> QED
      BY <2>1, <3>1, <3>2 DEF HolderInv
  <2> QED
    BY <1>3, <2>4, <2>5, <2>6, <2>7, <2>8 DEF PInv
<1> QED
  BY <1>4, <1>5 DEF Lock

LEMMA BeginKeeps ==
  ASSUME Shape, PInv, NEW p \in Procs, Begin(p)
  PROVE  Shape' /\ PInv'
<1> PICK record : record = [kind |-> "TX_BEGIN", tx |-> work[p].tx, active |-> work[p].base,
                            head |-> work[p].head, packet |-> work[p].packet]
  OBVIOUS
<1>1. /\ pc[p] = "begin" /\ lock = p /\ Write(record) /\ Goto(p, "install")
      /\ UNCHANGED <<active, log, manifest, window, trees, pinned, lock, work>>
  BY DEF Begin, Holds
<1>2. StagedWork(work[p]) /\ UnfinishedBegins = {} /\ active = work[p].base
        /\ Len(log) = work[p].head
  BY <1>1 DEF PInv, StagingInv, HolderInv, NotYetBegun, Expected
<1>3. /\ record.kind = "TX_BEGIN" /\ record.tx = work[p].tx /\ record.active = active
      /\ record.head = Len(log) /\ record.packet = work[p].packet
  BY <1>2
<1>4. record.tx = <<record.packet.fp, record.active>>
  BY <1>2, <1>3 DEF StagedWork, TxId
<1>5. Follows(record)
  BY <1>2, <1>3, <1>4 DEF Follows, StagedWork, BeginIsLawful, NoTx, TxId
<1>6. IsSequence(journal) /\ JournalInv
  BY DEF Shape, PInv
<1>7. UnfinishedBegins' = {record}
  BY <1>1, <1>2, <1>3, <1>5, <1>6, UnfinishedAfter
<1>8. JournalInv'
  BY <1>1, <1>5, <1>6, JournalGrows
<1>9. /\ \A kind, tx : Has(kind, tx)' <=>
           Has(kind, tx) \/ (kind = "TX_BEGIN" /\ tx = record.tx)
      /\ \A status, tx : Outcome(status, tx)' <=> Outcome(status, tx)
      /\ Begins' = Begins \cup {record} /\ Stagings' = Stagings
      /\ IsSequence(journal)'
  BY <1>1, <1>3, <1>6, Wrote
<1>10. /\ \A kind : ~Has(kind, record.tx)
       /\ \A status : ~Outcome(status, record.tx)
  BY <1>2, <1>3, <1>6 DEF JournalInv, StagedWork, Has, Outcome
<1>11. LogTells(record)' /\ PointersTell(record)' /\ RecordsTell(record)'
  <2>1. Anchored /\ Len(log) \in Nat
    BY <1>2, SequenceAppend DEF PInv, TransactionInv, Shape
  <2> QED
    BY <1>1, <1>3, <1>9, <1>10, <2>1
       DEF Anchored, SettledAt, LogTells, PointersTell, RecordsTell
<1>12. TransactionInv'
  BY <1>7, <1>11 DEF TransactionInv
<1>13. pc \in [Procs -> Steps \cup Away] /\ "install" \in Working /\ Working \subseteq Steps
         /\ "install" \notin Away /\ "install" \notin NotYetBegun
  BY DEF Shape, Working, Steps, Away, NotYetBegun
<1>14. /\ pc' \in [Procs -> Steps \cup Away] /\ pc'[p] = "install"
       /\ \A q \in Procs : q # p => pc'[q] = pc[q]
  BY <1>1, <1>13 DEF Goto
<1>15. Shape'
  BY <1>1, <1>9, <1>14 DEF Shape, IsSequence
<1>16. LockInv'
  BY <1>1, <1>13, <1>14 DEF PInv, LockInv, Away
<1>17. StagingInv'
  <2>1. ASSUME NEW q \in Procs, pc'[q] \in NotYetBegun
        PROVE  StagedWork(work[q])'
    <3>1. q # p /\ pc[q] \in NotYetBegun /\ StagedWork(work[q])
      BY <1>13, <1>14, <2>1 DEF PInv, StagingInv
    <3>2. work[q].tx # record.tx
      BY <1>1, <1>3, <3>1 DEF PInv, StagingInv, NotYetBegun
    <3>3. Lawful(work[q].packet, work[q].base)'
      BY <1>1, <1>6, <3>1, LawfulStays DEF StagedWork
    <3> QED
      BY <1>1, <1>9, <3>1, <3>2, <3>3 DEF StagedWork
  <2>2. \A q \in Procs : pc'[q] \in NotYetBegun => pc[q] \in NotYetBegun
    BY <1>13, <1>14
  <2> QED
    BY <1>1, <2>1, <2>2 DEF PInv, StagingInv
<1>18. HolderInv'
  <2>1. ASSUME NEW q \in Procs, q # p
        PROVE  pc'[q] # "begin" /\ pc'[q] \notin Working
    BY <1>1, <1>14, <2>1 DEF PInv, LockInv, Away, Working, Steps
  <2>2. OfRecord(work[p], record)'
    BY <1>1, <1>2, <1>3 DEF OfRecord, StagedWork
  <2>3. StepTells("install", work[p])'
    BY <1>1, <1>2, <1>3, <1>9, <1>10 DEF StepTells, StagedWork
  <2> QED
    BY <1>7, <1>14, <2>1, <2>2, <2>3 DEF HolderInv
<1>19. WindowInv' /\ ActiveInv'
  BY <1>1, <1>2, <1>7, <1>9 DEF PInv, WindowInv, ActiveInv, AdoptionIsObserved
<1>20. TreeInv'
  <2>1. (WentBack => WentBack') /\ \A tree : StagedInVain(tree) <=> StagedInVain(tree)'
    BY <1>9, PropertyTerms DEF TermsAreRecords
  <2> QED
    BY <1>1, <2>1 DEF PInv, TreeInv, TreesExist, ActiveTreeExists
<1> QED
  BY <1>8, <1>12, <1>15, <1>16, <1>17, <1>18, <1>19, <1>20 DEF PInv

-----------------------------------------------------------------------------
(* Recovery.                                                                *)

\* Where a recovery takes up: the effects it finds tell which steps were taken.
LEMMA ResumeTells ==
  ASSUME Shape, PInv, NEW b \in UnfinishedBegins, NEW w,
         w.tx = b.tx, w.base = b.active, w.head = b.head, w.packet = b.packet,
         Has("STAGE_DONE", b.tx) => w.tree = LastRecord("STAGE_DONE", b.tx).tree,
         w.mode = "recover", Resume(b.tx) # "remove" => Classifiable(b.tx)
  PROVE  Resume(b.tx) \in Working /\ OfRecord(w, b) /\ StepTells(Resume(b.tx), w)
<1>1. b \in Begins /\ b \in Records /\ b.kind = "TX_BEGIN"
  BY DEF UnfinishedBegins, Begins
<1>2. IsSequence(journal) /\ JournalInv /\ OncePerTransaction
  BY DEF Shape, PInv, JournalInv
<1>3. LastRecord("TX_BEGIN", b.tx) = b
  BY <1>1, <1>2, LastIs
<1>4. BeginIsLawful(b) /\ b.head \in Nat /\ Len(log) \in Nat
  BY <1>1, <1>2, SequenceAppend DEF JournalInv, BeginIsLawful, Shape
<1>5. LogTells(b) /\ PointersTell(b) /\ RecordsTell(b)
  BY DEF PInv, TransactionInv
<1>6. ASSUME Has("STAGE_DONE", b.tx)
      PROVE  w.tree = TreeOf(b.packet, b.active)
  <2>1. PICK r \in Records : r.kind = "STAGE_DONE" /\ r.tx = b.tx
    BY <1>6 DEF Has
  <2>2. LastRecord("STAGE_DONE", b.tx) = r
    BY <1>2, <2>1, LastIs
  <2> QED
    BY <1>1, <1>2, <1>6, <2>1, <2>2 DEF JournalInv, Stagings
<1>7. OfRecord(w, b)
  BY <1>6 DEF OfRecord
<1> DEFINE aborts == /\ Journaled("OUTCOME_APPEND_INTENT", b.tx)
                     /\ LastRecord("OUTCOME_APPEND_INTENT", b.tx).status = "aborted"
<1>8. /\ aborts <=> Outcome("aborted", b.tx)
      /\ Journaled("OUTCOME_APPEND_INTENT", b.tx) <=>
           Outcome("aborted", b.tx) \/ Outcome("effective", b.tx)
      /\ ~(Outcome("aborted", b.tx) /\ Outcome("effective", b.tx))
  <2>1. ASSUME NEW r \in Records, r.kind = "OUTCOME_APPEND_INTENT", r.tx = b.tx
        PROVE  /\ LastRecord("OUTCOME_APPEND_INTENT", b.tx) = r
               /\ r.status \in {"effective", "aborted"}
    BY <1>2, <2>1, LastIs DEF JournalInv
  <2>2. Journaled("OUTCOME_APPEND_INTENT", b.tx) <=>
          \E r \in Records : r.kind = "OUTCOME_APPEND_INTENT" /\ r.tx = b.tx
    BY HasIff DEF Has
  <2> QED
    BY <2>1, <2>2 DEF Outcome
<1>9. /\ active = b.active => active # Target(b.packet, b.active)
      /\ Target(b.packet, b.active).tx = b.tx
  BY <1>4 DEF Target, BeginIsLawful
<1> DEFINE Recorded(kind) == Has(kind, b.tx)
           h == b.head
           eff == Outcome("effective", b.tx)
           ab == Outcome("aborted", b.tx)
<1>10. Resume(b.tx) =
         IF ~Recorded("STAGE_DONE") \/ ~Recorded("LOG_APPEND_INTENT") THEN "remove"
         ELSE IF Len(log) = h THEN "append"
         ELSE IF ab /\ Len(log) = h + 1 THEN "abort_entry"
         ELSE IF ab /\ manifest.head # Len(log) THEN "abort_manifest"
         ELSE IF ab THEN "tx_abort"
         ELSE IF ~Recorded("WINDOW_PENDING") THEN "admit"
         ELSE IF active = b.active THEN "swap"
         ELSE IF ~(ab \/ eff) THEN "outcome_intent"
         ELSE IF Len(log) = h + 1 THEN "effective"
         ELSE IF manifest.head # Len(log) THEN "manifest"
         ELSE IF ~Recorded("WINDOW_FINAL") THEN "finalize"
         ELSE "tx_done"
  BY <1>3, <1>8, HasIff DEF Resume
<1>11. CASE ~Recorded("STAGE_DONE") \/ ~Recorded("LOG_APPEND_INTENT")
  <2>1. Resume(b.tx) = "remove" /\ Len(log) = h
    BY <1>5, <1>10, <1>11 DEF LogTells
  <2> QED
    BY <1>7, <2>1 DEF StepTells, Working, Steps
<1>12. CASE Recorded("STAGE_DONE") /\ Recorded("LOG_APPEND_INTENT")
  <2> DEFINE step == Resume(b.tx)
  <2>1. step = IF Len(log) = h THEN "append"
               ELSE IF ab THEN IF Len(log) = h + 1 THEN "abort_entry"
                               ELSE IF manifest.head # Len(log) THEN "abort_manifest"
                               ELSE "tx_abort"
               ELSE IF ~Recorded("WINDOW_PENDING") THEN "admit"
               ELSE IF active = b.active THEN "swap"
               ELSE IF ~eff THEN "outcome_intent"
               ELSE IF Len(log) = h + 1 THEN "effective"
               ELSE IF manifest.head # Len(log) THEN "manifest"
               ELSE IF ~Recorded("WINDOW_FINAL") THEN "finalize" ELSE "tx_done"
    BY <1>10, <1>12
  <2>2. step \in Working /\ step # "remove"
    BY <2>1 DEF Working, Steps
  <2>3. Classifiable(b.tx)
    BY <2>2
  <2>4. w.tree \in trees /\ Len(log) \in {h, h + 1, h + 2}
    BY <1>5, <1>12, <2>3 DEF Classifiable, LogTells
  <2>5. w.tree = TreeOf(b.packet, b.active)
    BY <1>6, <1>12
  <2>6. ToPointer(w) = Target(b.packet, b.active)
    BY <1>4, <1>7, <1>12, TargetIs
  <2> HIDE DEF step
  <2>7. CASE Len(log) = h
    <3>1. step = "append" /\ active = b.active /\ ~ab /\ ~eff
      BY <1>5, <1>9, <2>1, <2>7 DEF PointersTell, RecordsTell
    <3> QED
      BY <1>7, <1>12, <2>2, <2>4, <2>7, <3>1 DEF StepTells, step
  <2>8. CASE Len(log) # h /\ ab
    <3>1. step \in {"abort_entry", "abort_manifest", "tx_abort"}
      BY <2>1, <2>8
    <3>2. step = "abort_entry" => Len(log) = h + 1
      BY <2>1, <2>8
    <3>3. step # "abort_entry" => Len(log) = h + 2
      BY <1>4, <2>1, <2>4, <2>8
    <3>4. step = "tx_abort" => manifest.head = h + 2
      BY <2>1, <2>8, <3>3
    <3> QED
      BY <1>7, <2>2, <2>8, <3>1, <3>2, <3>3, <3>4 DEF StepTells, step
  <2>9. CASE Len(log) # h /\ ~ab /\ (~Recorded("WINDOW_PENDING") \/ active = b.active)
    <3>1. active = b.active /\ ~eff
      BY <1>5, <1>9, <2>9 DEF PointersTell, RecordsTell
    <3>2. Len(log) = h + 1
      BY <1>5, <2>4, <2>9, <3>1 DEF LogTells
    <3>3. step = IF ~Recorded("WINDOW_PENDING") THEN "admit" ELSE "swap"
      BY <2>1, <2>9, <3>1
    <3> QED
      BY <1>7, <1>12, <2>2, <2>4, <2>9, <3>1, <3>2, <3>3 DEF StepTells, step
  <2>10. CASE Len(log) # h /\ ~ab /\ Recorded("WINDOW_PENDING") /\ active # b.active
    <3>1. active = ToPointer(w)
      BY <1>5, <2>6, <2>10 DEF PointersTell
    <3>2. CASE ~eff
      <4>1. step = "outcome_intent" /\ Len(log) = h + 1
        BY <1>5, <2>1, <2>4, <2>10, <3>2 DEF LogTells
      <4> QED
        BY <1>7, <2>2, <2>10, <3>1, <3>2, <4>1 DEF StepTells, step
    <3>3. CASE eff /\ Len(log) = h + 1
      <4>1. step = "effective"
        BY <2>1, <2>10, <3>3
      <4> QED
        BY <1>7, <2>2, <3>3, <4>1 DEF StepTells, step
    <3>4. CASE eff /\ Len(log) # h + 1
      <4>1. Len(log) = h + 2
        BY <2>4, <2>10, <3>4
      <4>2. step = IF manifest.head # Len(log) THEN "manifest"
                   ELSE IF ~Recorded("WINDOW_FINAL") THEN "finalize" ELSE "tx_done"
        BY <2>1, <2>10, <3>4
      <4>3. manifest.head # Len(log) => ~Recorded("WINDOW_FINAL")
        BY <1>5, <4>1 DEF RecordsTell
      <4>4. step \in {"finalize", "tx_done"} => manifest.head = h + 2
        BY <4>1, <4>2
      <4> QED
        BY <1>7, <2>2, <3>4, <4>1, <4>2, <4>3, <4>4 DEF StepTells, step
    <3> QED
      BY <3>2, <3>3, <3>4
  <2> QED
    BY <2>7, <2>8, <2>9, <2>10
<1> QED
  BY <1>11, <1>12

LEMMA RecoverKeeps ==
  ASSUME Shape, PInv, NoProc \notin Procs, NEW p \in Procs, Recover(p)
  PROVE  Shape' /\ PInv'
<1>1. PICK tx \in Unfinished :
        LET begin == LastRecord("TX_BEGIN", tx)
            tree == IF Journaled("STAGE_DONE", tx)
                    THEN LastRecord("STAGE_DONE", tx).tree ELSE <<>>
        IN /\ Resume(tx) # "remove" => Classifiable(tx)
           /\ lock' = p
           /\ Goto(p, Resume(tx))
           /\ work' = [work EXCEPT ![p] =
                [mode |-> "recover", tx |-> tx, base |-> begin.active,
                 head |-> begin.head, tree |-> tree, packet |-> begin.packet]]
  BY DEF Recover
<1>2. PICK b \in UnfinishedBegins : b.tx = tx
  BY UnfinishedIs
<1>3. LastRecord("TX_BEGIN", b.tx) = b
  <2>1. b \in Records /\ b.kind = "TX_BEGIN"
    BY DEF UnfinishedBegins, Begins
  <2> QED
    BY <2>1, LastIs DEF Shape, PInv, JournalInv
<1>4. PICK w : w = [mode |-> "recover", tx |-> b.tx, base |-> b.active, head |-> b.head,
                    tree |-> IF Journaled("STAGE_DONE", b.tx)
                             THEN LastRecord("STAGE_DONE", b.tx).tree ELSE <<>>,
                    packet |-> b.packet]
  OBVIOUS
<1>5. PICK step : step = Resume(b.tx)
  OBVIOUS
<1>6. /\ pc[p] = "idle" /\ lock = NoProc /\ lock' = p
      /\ pc' = [pc EXCEPT ![p] = step] /\ work' = [work EXCEPT ![p] = w]
      /\ UNCHANGED <<active, log, manifest, journal, window, trees, pinned>>
  BY <1>1, <1>2, <1>3, <1>4, <1>5 DEF Recover, Goto
<1>7. step \in Working /\ OfRecord(w, b) /\ StepTells(step, w)
  <2>1. Resume(b.tx) # "remove" => Classifiable(b.tx)
    BY <1>1, <1>2
  <2>2. /\ w.tx = b.tx /\ w.base = b.active /\ w.head = b.head /\ w.packet = b.packet
        /\ Has("STAGE_DONE", b.tx) => w.tree = LastRecord("STAGE_DONE", b.tx).tree
        /\ w.mode = "recover"
    BY <1>4, HasIff
  <2> QED
    BY <1>5, <2>1, <2>2, ResumeTells
<1>8. \A q \in Procs : pc[q] \in Away
  BY <1>6 DEF PInv, LockInv
<1>9. Working \cap Away = {} /\ Working \subseteq Steps /\ "begin" \notin Working \cup Away
        /\ NotYetBegun \cap Working = {} /\ "idle" \notin Working
  BY DEF Working, Away, NotYetBegun, Steps
<1>10. /\ pc' \in [Procs -> Steps \cup Away] /\ pc'[p] = step
       /\ \A q \in Procs : q # p => pc'[q] = pc[q]
  BY <1>6, <1>7, <1>9 DEF Shape
<1>11. /\ work' = [q \in Procs |-> work'[q]] /\ work'[p] = w
       /\ \A q \in Procs : q # p => work'[q] = work[q]
  BY <1>6 DEF Shape
<1>12. Shape'
  BY <1>6, <1>10, <1>11 DEF Shape, IsSequence
<1>13. JournalInv' /\ TransactionInv' /\ WindowInv' /\ ActiveInv' /\ TreeInv'
  BY <1>6, Kept, TransactionStays, WindowStays, TreesStay DEF PInv
<1>14. LockInv'
  BY <1>6, <1>7, <1>8, <1>9, <1>10, <1>11 DEF PInv, LockInv
<1>15. StagingInv'
  <2>1. \A q \in Procs : pc'[q] \in NotYetBegun => q # p /\ pc[q] \in NotYetBegun
    BY <1>7, <1>9, <1>10
  <2>2. NoneBegins
    BY <1>6, NobodyBegins
  <2> QED
    BY <1>11, <2>1, <2>2, StagedWorkStays DEF PInv, StagingInv
<1>16. HolderInv'
  <2>1. UnfinishedBegins' = UnfinishedBegins
    BY <1>6, Kept
  <2>2. OfRecord(work[p], b)' /\ StepTells(pc[p], work[p])'
    BY <1>6, <1>7, <1>10, <1>11, Kept DEF OfRecord, StepTells
  <2>3. \A q \in Procs : q # p => pc'[q] # "begin" /\ pc'[q] \notin Working
    BY <1>8, <1>9, <1>10
  <2> QED
    BY <1>7, <1>9, <1>10, <2>1, <2>2, <2>3 DEF HolderInv
<1> QED
  BY <1>12, <1>13, <1>14, <1>15, <1>16 DEF PInv

-----------------------------------------------------------------------------
(* Between two holders of the lock.                                         *)

\* Nobody holds the lock: what changes then concerns the window and the readers.
LEMMA EnvironmentKeeps ==
  ASSUME Shape, PInv, NoProc \notin Procs, lock = NoProc,
         UNCHANGED <<active, log, manifest, journal, trees, lock, pc, work>>,
         window' = window \/ (/\ window.state \in {"ADMITTED", "OBSERVING", "ROLLING_BACK"}
                              /\ window' = [window EXCEPT !.state = "CLOSED"])
                          \/ (/\ window.state = "OBSERVING"
                              /\ window' = [window EXCEPT !.state = "ROLLING_BACK"]),
         pinned' \subseteq pinned \cup {active.tree}
  PROVE  Shape' /\ PInv'
<1>1. window = [state |-> window.state, tx |-> window.tx]
  BY DEF Shape
<1>2. /\ window' = [state |-> window'.state, tx |-> window'.tx] /\ window'.tx = window.tx
      /\ window'.state # "CLOSED" => window.state # "CLOSED"
      /\ window.state = "CLOSED" => window'.state = "CLOSED"
  BY <1>1
<1>3. Shape' /\ JournalInv'
  BY <1>2, Kept DEF Shape, IsSequence, PInv
<1>4. TransactionInv'
  BY <1>2, Kept DEF PInv, TransactionInv, Anchored, SettledAt, LogTells, PointersTell,
                    RecordsTell
<1>5. \A q \in Procs : pc[q] \in Away
  BY DEF PInv, LockInv
<1>6. LockInv'
  BY DEF PInv, LockInv
<1>7. StagingInv'
  BY NobodyBegins, StagedWorkStays DEF PInv, StagingInv
<1>8. HolderInv'
  BY <1>5 DEF HolderInv, Away, Working, Steps
<1>9. WindowInv' /\ ActiveInv'
  BY <1>2, Kept DEF PInv, WindowInv, ActiveInv, AdoptionIsObserved
<1>10. TreeInv'
  <2>1. (WentBack' <=> WentBack) /\ \A tree : StagedInVain(tree) <=> StagedInVain(tree)'
    BY Kept, PropertyTerms DEF TermsAreRecords
  <2>2. active.tree \in Seq(Edits) /\ Len(active.tree) \in Nat
    BY DEF PInv, ActiveInv
  <2> QED
    BY <2>1, <2>2 DEF PInv, TreeInv, TreesExist, ActiveTreeExists
<1> QED
  BY <1>3, <1>4, <1>6, <1>7, <1>8, <1>9, <1>10 DEF PInv

LEMMA StutterKeeps ==
  ASSUME Shape, PInv,
         UNCHANGED <<active, log, manifest, journal, window, trees, pinned, lock, pc, work>>
  PROVE  Shape' /\ PInv'
<1>1. Shape' /\ JournalInv' /\ LockInv'
  BY Kept DEF Shape, IsSequence, PInv, LockInv
<1>2. TransactionInv' /\ WindowInv' /\ ActiveInv' /\ TreeInv'
  BY TransactionStays, WindowStays, TreesStay DEF PInv
<1>3. StagingInv'
  BY NobodyBegins, StagedWorkStays DEF PInv, StagingInv
<1>4. HolderInv'
  BY Kept DEF PInv, HolderInv, Expected, OfRecord, StepTells
<1> QED
  BY <1>1, <1>2, <1>3, <1>4 DEF PInv

-----------------------------------------------------------------------------
(* The invariant.                                                           *)

LEMMA InitialState ==
  ASSUME NoProc \notin Procs, Init
  PROVE  Shape /\ PInv
<1> USE DEF Init
<1>1. DOMAIN journal = {} /\ Len(journal) = 0 /\ Len(log) = 0
  OBVIOUS
<1>2. Records = {} /\ Begins = {} /\ Stagings = {} /\ UnfinishedBegins = {}
        /\ \A kind, tx : ~Has(kind, tx)
  BY <1>1 DEF Records, Begins, Stagings, UnfinishedBegins, Has
<1>3. Shape
  <2>1. IsSequence(<<>>)
    BY DEF IsSequence
  <2>2. "idle" \in Away
    BY DEF Away
  <2> QED
    BY <2>1, <2>2 DEF Shape
<1>4. JournalInv
  BY <1>1, <1>2 DEF JournalInv, OncePerTransaction
<1>5. TransactionInv
  BY <1>1, <1>2 DEF TransactionInv, Anchored, SettledAt, Seed
<1>6. LockInv /\ StagingInv /\ HolderInv
  BY DEF LockInv, StagingInv, HolderInv, Away, NotYetBegun, Working, Steps
<1>7. WindowInv /\ ActiveInv
  BY <1>2 DEF WindowInv, ActiveInv, AdoptionIsObserved, Seed
<1>8. TreeInv
  BY DEF TreeInv, TreesExist, ActiveTreeExists, Seed
<1> QED
  BY <1>3, <1>4, <1>5, <1>6, <1>7, <1>8 DEF PInv

\* What the code does when no packet is promoted twice on the same ACTIVE, and when
\* the record behind the committing entry can be written.
Regular == ~Retries /\ "append_done" \notin FailAt

LEMMA StepKeeps ==
  ASSUME Regular, Shape, PInv, [Next]_vars
  PROVE  Shape' /\ PInv'
<1> USE DEF Regular
<1>1. NoProc \notin Procs /\ FailAt \subseteq Steps
  BY PromotionAssumption
<1>2. ASSUME NEW p \in Procs, Propose(p)
      PROVE  Shape' /\ PInv'
  BY <1>2, StageKeeps, StageRollbackKeeps DEF Propose
<1>3. ASSUME NEW p \in Procs, Promote(p)
      PROVE  Shape' /\ PInv'
  BY <1>1, <1>3, LockKeeps, BeginKeeps, InstallKeeps, LogStageKeeps, LogIntentKeeps,
     AppendCommittingKeeps, AdmitWindowKeeps, LogWindowPendingKeeps, SwapKeeps,
     LogOutcomeKeeps, AppendEffectiveKeeps, ReplaceManifestKeeps, FinalizeWindowKeeps,
     LogWindowFinalKeeps, LogDoneKeeps DEF Promote
<1>4. ASSUME NEW p \in Procs, Abort(p)
      PROVE  Shape' /\ PInv'
  BY <1>1, <1>4, RemoveStagedKeeps, LogAbortKeeps, LogAbortOutcomeKeeps,
     AppendAbortedKeeps, AnchorAbortKeeps DEF Abort
<1>5. ASSUME NEW p \in Procs, Recover(p)
      PROVE  Shape' /\ PInv'
  BY <1>1, <1>5, RecoverKeeps
<1>6. ASSUME NEW p \in Procs, Crash(p) \/ TearAppend(p)
      PROVE  Shape' /\ PInv'
  BY <1>1, <1>6, DieKeeps DEF Crash, TearAppend
<1>7. ASSUME NEW p \in Procs, NEW step \in FailAt, Fail(p, step)
      PROVE  Shape' /\ PInv'
  BY <1>1, <1>7, FailKeeps
<1>8. CASE RecoverNothing
  BY <1>8, StutterKeeps DEF RecoverNothing
<1>9. CASE CloseWindow \/ TriggerRollback
  BY <1>1, <1>9, EnvironmentKeeps DEF CloseWindow, TriggerRollback
<1>10. CASE PinRun \/ UnpinRun
  BY <1>1, <1>10, EnvironmentKeeps DEF PinRun, UnpinRun, durable
<1>11. CASE UNCHANGED vars
  BY <1>11, StutterKeeps DEF vars, durable
<1> QED
  BY <1>2, <1>3, <1>4, <1>5, <1>6, <1>7, <1>8, <1>9, <1>10, <1>11 DEF Next, Environment

-----------------------------------------------------------------------------
(* The theorems.                                                            *)

\* Whatever crashes and fails, the journal says in which of a few states an
\* unfinished transaction left the files, and at most one transaction is unfinished.
THEOREM InvariantHolds ==
  ASSUME Regular
  PROVE  Spec => [](Shape /\ PInv)
<1>1. Init => Shape /\ PInv
  BY InitialState, PromotionAssumption
<1>2. (Shape /\ PInv) /\ [Next]_vars => (Shape /\ PInv)'
  BY StepKeeps
<1> QED
  BY <1>1, <1>2, PTL DEF Spec

\* QuiescentIsAnchored: when no transaction is unfinished and nobody holds the lock,
\* the manifest anchors the head of the log and ACTIVE, and the log ends in the
\* terminal entry of the adoption that ACTIVE names.
THEOREM AnchorsAgree ==
  ASSUME Regular
  PROVE  Spec => []QuiescentIsAnchored
<1>1. Shape /\ PInv => QuiescentIsAnchored
  <2> SUFFICES ASSUME Shape, PInv, Unfinished = {}
               PROVE  /\ manifest = [head |-> Len(log), pointer |-> active]
                      /\ log # <<>> => log[Len(log)].status # "committing"
                      /\ \A i \in {k \in DOMAIN log : log[k].status = "effective"} :
                           (\A j \in {k \in DOMAIN log : log[k].status = "effective"} : j <= i)
                             => log[i].tx = active.tx
    BY DEF QuiescentIsAnchored
  <2>1. manifest = [head |-> Len(log), pointer |-> active] /\ SettledAt(Len(log), active.tx)
    BY UnfinishedIs DEF PInv, TransactionInv, Anchored
  <2>2. DOMAIN log = 1..Len(log) /\ Len(log) \in Nat
    BY SequenceAppend DEF Shape
  <2>3. log # <<>> => Len(log) # 0
    BY DEF Shape, IsSequence
  <2> QED
    BY <2>1, <2>2, <2>3 DEF SettledAt
<1> QED
  BY <1>1, InvariantHolds, PTL

\* TreesExist: ACTIVE's tree is never removed, and that of a live run only by the
\* aborted attempt to go back to it.
THEOREM TreesInUseAreKept ==
  ASSUME Regular
  PROVE  Spec => []TreesExist
<1>1. PInv => TreesExist
  BY DEF PInv, TreeInv
<1> QED
  BY <1>1, InvariantHolds, PTL

\* AdoptionIsObserved: an adopted tree has the window that was admitted for it, unless
\* a transaction that builds on it has one by now.
THEOREM AdoptedTreesAreObserved ==
  ASSUME Regular
  PROVE  Spec => []AdoptionIsObserved
<1>1. PInv => AdoptionIsObserved
  BY DEF PInv, ActiveInv
<1> QED
  BY <1>1, InvariantHolds, PTL

\* A step that moves ACTIVE is the swap of a process that holds the lock.
LEMMA OnlySwapMoves ==
  ASSUME [Next]_vars, active' # active
  PROVE  \E p \in Procs : Swap(p) /\ active' = ToPointer(work[p])
<1>1. ASSUME NEW p \in Procs, Propose(p)
      PROVE  active' = active
  BY <1>1 DEF Propose, Stage, StageRollback, Prepare, durable
<1>2. ASSUME NEW p \in Procs, Promote(p), ~Swap(p)
      PROVE  active' = active
  BY <1>2 DEF Promote, Lock, Begin, Install, LogStage, LogIntent, AppendCommitting,
     AdmitWindow, LogWindowPending, LogOutcome, AppendEffective, ReplaceManifest,
     FinalizeWindow, LogWindowFinal, LogDone
<1>3. ASSUME NEW p \in Procs, Abort(p) \/ Recover(p) \/ Crash(p) \/ TearAppend(p)
      PROVE  active' = active
  BY <1>3 DEF Abort, RemoveStaged, LogAbort, LogAbortOutcome, AppendAborted, AnchorAbort,
     Recover, Crash, TearAppend, Die
<1>4. ASSUME NEW p \in Procs, NEW step \in FailAt, Fail(p, step)
      PROVE  active' = active
  BY <1>4 DEF Fail, durable
<1>5. ASSUME RecoverNothing \/ Environment \/ UNCHANGED vars
      PROVE  active' = active
  BY <1>5 DEF RecoverNothing, Environment, CloseWindow, TriggerRollback, PinRun, UnpinRun,
     vars, durable
<1>6. PICK p \in Procs : Swap(p)
  BY <1>1, <1>2, <1>3, <1>4, <1>5 DEF Next, Promote
<1> QED
  BY <1>6 DEF Swap

\* ActiveChangesLawfully: ACTIVE moves only behind the committing entry of its
\* transaction, to a tree built on the one it replaces or, by a rollback, back to the
\* one that the adoption being undone had replaced.
THEOREM ActiveMovesLawfully ==
  ASSUME Regular
  PROVE  Spec => ActiveChangesLawfully
<1> DEFINE Logged == active' # active =>
             /\ log # <<>>
             /\ log[Len(log)] = [tx |-> active'.tx, status |-> "committing"]
           BuiltOn == active' # active =>
             \/ \E edit \in Edits : active'.tree = Append(active.tree, edit)
             \/ active'.tx[1][1] = "rollback"
           Undone == active' # active /\ active'.tx[1][1] = "rollback" =>
             active'.tx[1][2] = active.tx /\ active'.tree = active.tx[2].tree
<1>1. ASSUME Shape, PInv, [Next]_vars, active' # active
      PROVE  Logged /\ BuiltOn /\ Undone
  <2>1. PICK p \in Procs : Swap(p) /\ active' = ToPointer(work[p])
    BY <1>1, OnlySwapMoves
  <2>2. "swap" \in Working /\ Holds(p, "swap")
    BY <2>1 DEF Working, Steps, Swap
  <2>3. PICK b \in UnfinishedBegins :
          /\ b.head \in Nat /\ BeginIsLawful(b)
          /\ OfRecord(work[p], b) /\ StepTells("swap", work[p])
          /\ LogTells(b) /\ RecordsTell(b)
    BY <1>1, <2>2, AtStep
  <2>4. /\ Len(log) = b.head + 1 /\ active = b.active
        /\ Has("STAGE_DONE", b.tx) /\ Has("WINDOW_PENDING", b.tx)
    BY <2>3 DEF StepTells, OfRecord, RecordsTell
  <2>5. active' = Target(b.packet, active)
    BY <2>1, <2>3, <2>4, TargetIs
  <2>6. active'.tx = b.tx /\ active'.tree = TreeOf(b.packet, active)
          /\ b.tx = <<b.packet.fp, active>>
    BY <2>3, <2>4, <2>5 DEF Target, BeginIsLawful, TxId
  <2>7. active'.tx[1] = b.packet.fp
    BY <2>6
  <2>8. Lawful(b.packet, active)
    BY <2>3, <2>4 DEF BeginIsLawful
  <2>9. Logged
    <3>1. log[Len(log)] = [tx |-> b.tx, status |-> "committing"]
      BY <2>3, <2>4 DEF LogTells
    <3>2. log # <<>>
      BY <2>3, <2>4
    <3> QED
      BY <2>6, <3>1, <3>2
  <2>10. CASE IsEdit(b.packet)
    <3>1. active'.tx[1][1] = "edit"
      BY <2>7, <2>8, <2>10, LawfulPacket
    <3>2. \E edit \in Edits : active'.tree = Append(active.tree, edit)
      BY <2>6, <2>8, <2>10, LawfulPacket
    <3> QED
      BY <2>9, <3>1, <3>2
  <2>11. CASE ~IsEdit(b.packet)
    <3>1. b.packet.rollback_of = active.tx
      BY <2>3, <2>4, <2>11 DEF RecordsTell
    <3>2. active'.tx[1][1] = "rollback" /\ active'.tx[1][2] = active.tx
      BY <2>7, <2>8, <2>11, <3>1, LawfulPacket
    <3>3. active'.tree = active.tx[2].tree
      BY <2>6, <2>8, <2>11, <3>1, LawfulPacket
    <3> QED
      BY <2>9, <3>2, <3>3
  <2> QED
    BY <2>10, <2>11
<1>2. Shape /\ PInv /\ [Next]_vars => [Logged]_vars /\ [BuiltOn]_vars /\ [Undone]_vars
  BY <1>1
<1> HIDE DEF Logged, BuiltOn, Undone
<1>3. Spec => [][Logged]_vars /\ [][BuiltOn]_vars /\ [][Undone]_vars
  BY <1>2, InvariantHolds, PTL DEF Spec
<1> QED
  BY <1>3 DEF ActiveChangesLawfully, SwapIsLogged, NothingAdoptedIsLost,
              RollbackUndoesActive, Logged, BuiltOn, Undone

=============================================================================
