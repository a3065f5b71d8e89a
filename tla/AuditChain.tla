------------------------------ MODULE AuditChain ------------------------------
(***************************************************************************)
(* The audit log and the chain that runs through it (audit.py), under      *)
(* transactions that overlap (database.py, db_session, on SQLite).         *)
(*                                                                         *)
(* record_audit reads the hash of the last entry and then inserts an entry *)
(* that continues it.  SQLite lets one transaction write at a time, and    *)
(* Python opens the transaction with the first statement that writes: what *)
(* is read before that may be old when the insert has got the lock.        *)
(*                                                                         *)
(* An entry's hash is a function of its fields and of the hash before it;  *)
(* here an entry is its number, and the hash it continues is the number of *)
(* the entry that has it.  0 is the hash of no entry.                      *)
(***************************************************************************)
EXTENDS Integers, Sequences, FiniteSets

CONSTANTS Sessions,       \* database sessions: requests, worker threads, monitors
          MaxEntries,     \* entries ever made
          LegacyEntries   \* entries from before there was a chain

ASSUME AuditAssumption ==
  /\ IsFiniteSet(Sessions)
  /\ MaxEntries \in Nat
  /\ LegacyEntries \in 0 .. MaxEntries
  /\ "nobody" \notin Sessions

Unchained == -1

VARIABLES log,        \* the entries, those of the open transaction last
          committed,  \* how many of them are committed
          writer,     \* the session that holds the write lock
          seen,       \* by session: the hash it has read for its next entry
          fresh,      \* by session: it held the lock when it read it
          numbered,   \* entries ever made
          started     \* the server has run init_db

auditVars == <<log, committed, writer, seen, fresh, numbered, started>>

Nothing == -2

AuditTypeOK ==
  /\ log \in Seq([number : 1 .. MaxEntries, prev : Unchained .. MaxEntries, fresh : BOOLEAN])
  /\ committed \in 0 .. Len(log)
  /\ writer \in Sessions \cup {"nobody"}
  /\ seen \in [Sessions -> Nothing .. MaxEntries]
  /\ fresh \in [Sessions -> BOOLEAN]
  /\ numbered \in 0 .. MaxEntries
  /\ started \in BOOLEAN

AuditInit ==
  /\ log = [i \in 1 .. LegacyEntries |-> [number |-> i, prev |-> Unchained, fresh |-> TRUE]]
  /\ committed = LegacyEntries
  /\ writer = "nobody"
  /\ seen = [s \in Sessions |-> Nothing]
  /\ fresh = [s \in Sessions |-> FALSE]
  /\ numbered = LegacyEntries
  /\ started = FALSE

\* The entry that the one at position i has to continue.
Before(i) == IF i = 1 THEN 0 ELSE log[i - 1].number

\* backfill_audit_chain, before the server serves.
Backfill ==
  /\ ~started
  /\ started' = TRUE
  /\ log' = [i \in DOMAIN log |->
               IF log[i].prev = Unchained THEN [log[i] EXCEPT !.prev = Before(i)] ELSE log[i]]
  /\ UNCHANGED <<committed, writer, seen, fresh, numbered>>

\* The transaction writes something else first, and has the lock from then on.
Writes(s) ==
  /\ started
  /\ writer = "nobody"
  /\ writer' = s
  /\ UNCHANGED <<log, committed, seen, fresh, numbered, started>>

LastCommitted(s) == IF committed = 0 THEN 0 ELSE log[committed].number

\* A session sees what is committed and what it has written itself.
LastSeenBy(s) ==
  LET n == IF writer = s THEN Len(log) ELSE committed IN
  IF n = 0 THEN 0 ELSE log[n].number

ReadsLast(s) ==
  /\ started
  /\ seen[s] = Nothing
  /\ seen' = [seen EXCEPT ![s] = LastSeenBy(s)]
  /\ fresh' = [fresh EXCEPT ![s] = writer = s]
  /\ UNCHANGED <<log, committed, writer, numbered, started>>

Inserts(s) ==
  /\ seen[s] # Nothing
  /\ writer \in {s, "nobody"}
  /\ numbered < MaxEntries
  /\ writer' = s
  /\ numbered' = numbered + 1
  /\ log' = Append(log, [number |-> numbered + 1, prev |-> seen[s], fresh |-> fresh[s]])
  /\ seen' = [seen EXCEPT ![s] = Nothing]
  /\ UNCHANGED <<committed, fresh, started>>

Commit(s) ==
  /\ writer = s
  /\ seen[s] = Nothing
  /\ committed' = Len(log)
  /\ writer' = "nobody"
  /\ UNCHANGED <<log, seen, fresh, numbered, started>>

\* An exception, or the end of the process: with or without the lock.
Rollback(s) ==
  /\ writer = s \/ seen[s] # Nothing
  /\ log' = IF writer = s THEN SubSeq(log, 1, committed) ELSE log
  /\ writer' = IF writer = s THEN "nobody" ELSE writer
  /\ seen' = [seen EXCEPT ![s] = Nothing]
  /\ UNCHANGED <<committed, fresh, numbered, started>>

AuditNext ==
  \/ Backfill
  \/ \E s \in Sessions : Writes(s) \/ ReadsLast(s) \/ Inserts(s) \/ Commit(s) \/ Rollback(s)

AuditSpec == AuditInit /\ [][AuditNext]_auditVars

\* verify_audit_chain finds the chain broken at position i.
BrokenAt(i) == log[i].prev # Before(i)

\* Once the server is up the chain is broken at no entry, other than one whose
\* session read the last hash before it had the right to write: neither a rollback
\* nor the entries from before the chain leave a gap.
BrokenOnlyByStaleReads ==
  started => \A i \in DOMAIN log : BrokenAt(i) => ~log[i].fresh

(***************************************************************************)
(* The inductive invariant.                                                *)
(***************************************************************************)

\* Nobody is served before the chain is made, and only the writer has entries that
\* are not committed.
ChainIsReady ==
  /\ ~started => /\ writer = "nobody"
                 /\ \A s \in Sessions : seen[s] = Nothing
                 /\ \A i \in DOMAIN log : log[i].prev = Unchained
  /\ writer = "nobody" => committed = Len(log)

\* Who has read the last hash with the lock in hand has it still, and it is the last.
FreshIsLast ==
  \A s \in Sessions : (fresh[s] /\ seen[s] # Nothing) =>
    writer = s /\ seen[s] = Before(Len(log) + 1)

AuditIInv == AuditTypeOK /\ ChainIsReady /\ FreshIsLast /\ BrokenOnlyByStaleReads
=============================================================================
