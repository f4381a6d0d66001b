----------------------------- MODULE PostgresLedger -----------------------------
(***************************************************************************)
(* PostgresCityStore.appendPointLedger: one SQL statement, in its own      *)
(* transaction at READ COMMITTED, where the in-memory store has one step.  *)
(*                                                                         *)
(*   - The statement's snapshot is taken when it starts.  The CTE          *)
(*     `existing` is read from it, and so is NOT EXISTS(existing); a       *)
(*     balance too low in the snapshot ends the statement there.           *)
(*   - `updated` waits for the account's row lock and then re-checks only  *)
(*     the row itself, balance + delta >= 0, on its latest version.        *)
(*   - `inserted` meets the unique index on the source as it is by then:   *)
(*     ON CONFLICT DO NOTHING.                                             *)
(*   - The row lock is held to the commit, so everything after the         *)
(*     snapshot is one step of the account.                                *)
(*                                                                         *)
(* The properties, and the specification this one implements, are those of *)
(* PointLedger.                                                            *)
(***************************************************************************)
EXTENDS PointLedger

CONSTANTS
  SourcesOf,      \* the sources each client posts
  NoStatement     \* a client with no statement running

ASSUME SourcesOfType == SourcesOf \in [Clients -> SUBSET Sources]

\* Callers never have the same source in flight twice.  Nothing in the store
\* makes them: a source is derived from a request's idempotency key.
SourcesAreExclusive ==
  \A c1, c2 \in Clients : c1 # c2 => SourcesOf[c1] \cap SourcesOf[c2] = {}

VARIABLE stmt    \* the statement each client has running, or NoStatement

pgVars == <<balance, ledger, reply, stmt>>

Statement == [account : Accounts, source : Sources, delta : Int,
              existing : Entry \cup {NoEntry}]

PgTypeOK ==
  /\ TypeOK
  /\ stmt \in [Clients -> Statement \cup {NoStatement}]

-----------------------------------------------------------------------------
PgInit == Init /\ stmt = [c \in Clients |-> NoStatement]

\* Validation in the method, before any SQL.
RefuseInvalid(c, a, s, d) ==
  /\ stmt[c] = NoStatement
  /\ Invalid(c, a, s, d)
  /\ UNCHANGED stmt

\* The snapshot has neither the source nor enough points: no row is found to
\* update, and nothing that commits later changes that.
RefuseAtSnapshot(c, a, s, d) ==
  /\ stmt[c] = NoStatement
  /\ Refuse(c, a, s, d)
  /\ UNCHANGED stmt

\* Slip: the lookup of the source is missing from the statement.
BeginBlind(c, a, s, d) ==
  /\ stmt[c] = NoStatement
  /\ d # 0
  /\ balance[a] + d >= 0
  /\ stmt' = [stmt EXCEPT ![c] =
       [account |-> a, source |-> s, delta |-> d, existing |-> NoEntry]]
  /\ UNCHANGED <<balance, ledger, reply>>

\* Slip: `existing` selects the row's source instead of the row.
BeginWithKey(c, a, s, d) ==
  /\ stmt[c] = NoStatement
  /\ d # 0
  /\ Recorded(a, s) \/ balance[a] + d >= 0
  /\ stmt' = [stmt EXCEPT ![c] =
       [account |-> a, source |-> s, delta |-> d,
        existing |-> IF Recorded(a, s) THEN s ELSE NoEntry]]
  /\ UNCHANGED <<balance, ledger, reply>>

\* The statement starts: its snapshot decides what `existing` holds.
Begin(c, a, s, d) ==
  /\ stmt[c] = NoStatement
  /\ d # 0
  /\ Recorded(a, s) \/ balance[a] + d >= 0
  /\ stmt' = [stmt EXCEPT ![c] =
       [account |-> a, source |-> s, delta |-> d,
        existing |-> IF Recorded(a, s) THEN RecordedEntry(a, s) ELSE NoEntry]]
  /\ UNCHANGED <<balance, ledger, reply>>

Done(c) == stmt' = [stmt EXCEPT ![c] = NoStatement]

\* `existing` has a row: no update, no insert.
CommitReplay(c) ==
  LET q == stmt[c]
  IN  /\ q # NoStatement
      /\ q.existing # NoEntry
      /\ Answer(c, "ok", q.account, q.source, q.existing)
      /\ Done(c)
      /\ UNCHANGED <<balance, ledger>>

\* The account was drained while the statement waited for its row: the re-check
\* fails and the statement returns no row.
CommitRefusal(c) ==
  LET q == stmt[c]
  IN  /\ q # NoStatement
      /\ q.existing = NoEntry
      /\ balance[q.account] + q.delta < 0
      /\ Answer(c, "insufficient", q.account, q.source, NoEntry)
      /\ Done(c)
      /\ UNCHANGED <<balance, ledger>>

\* Slip: the row is updated without re-checking its balance.
CommitOverdraft(c) ==
  LET q == stmt[c]
      e == [source |-> q.source, delta |-> q.delta,
            balanceAfter |-> balance[q.account] + q.delta]
  IN  /\ q # NoStatement
      /\ q.existing = NoEntry
      /\ ~Recorded(q.account, q.source)
      /\ balance' = [balance EXCEPT ![q.account] = balance[q.account] + q.delta]
      /\ ledger' = [ledger EXCEPT ![q.account] = Append(ledger[q.account], e)]
      /\ Answer(c, "ok", q.account, q.source, e)
      /\ Done(c)

\* The account moves and the entry is inserted.
CommitPost(c) ==
  LET q == stmt[c]
      e == [source |-> q.source, delta |-> q.delta,
            balanceAfter |-> balance[q.account] + q.delta]
  IN  /\ q # NoStatement
      /\ q.existing = NoEntry
      /\ balance[q.account] + q.delta >= 0
      /\ ~Recorded(q.account, q.source)
      /\ balance' = [balance EXCEPT ![q.account] = balance[q.account] + q.delta]
      /\ ledger' = [ledger EXCEPT ![q.account] = Append(ledger[q.account], e)]
      /\ Answer(c, "ok", q.account, q.source, e)
      /\ Done(c)

\* Slip: the source has no unique index, so the late insert goes in as well.
CommitTwice(c) ==
  LET q == stmt[c]
      e == [source |-> q.source, delta |-> q.delta,
            balanceAfter |-> balance[q.account] + q.delta]
  IN  /\ q # NoStatement
      /\ q.existing = NoEntry
      /\ balance[q.account] + q.delta >= 0
      /\ Recorded(q.account, q.source)
      /\ balance' = [balance EXCEPT ![q.account] = balance[q.account] + q.delta]
      /\ ledger' = [ledger EXCEPT ![q.account] = Append(ledger[q.account], e)]
      /\ Answer(c, "ok", q.account, q.source, e)
      /\ Done(c)

\* Slip: the row that met the conflict is returned as if it had been inserted.
CommitPhantom(c) ==
  LET q == stmt[c]
  IN  /\ q # NoStatement
      /\ q.existing = NoEntry
      /\ balance[q.account] + q.delta >= 0
      /\ Recorded(q.account, q.source)
      /\ balance' = [balance EXCEPT ![q.account] = balance[q.account] + q.delta]
      /\ Answer(c, "ok", q.account, q.source,
                [source |-> q.source, delta |-> q.delta,
                 balanceAfter |-> balance[q.account] + q.delta])
      /\ Done(c)
      /\ UNCHANGED ledger

\* The source was committed after this statement's snapshot: the account moves,
\* the insert conflicts and is dropped, the statement returns no row, and the
\* method throws "Insufficient balance".
CommitConflict(c) ==
  LET q == stmt[c]
  IN  /\ q # NoStatement
      /\ q.existing = NoEntry
      /\ balance[q.account] + q.delta >= 0
      /\ Recorded(q.account, q.source)
      /\ balance' = [balance EXCEPT ![q.account] = balance[q.account] + q.delta]
      /\ Answer(c, "insufficient", q.account, q.source, NoEntry)
      /\ Done(c)
      /\ UNCHANGED ledger

\* The connection or the process dies before the commit: nothing happened.
Rollback(c) ==
  /\ stmt[c] # NoStatement
  /\ Done(c)
  /\ UNCHANGED <<balance, ledger, reply>>

Call(c) ==
  \E a \in Accounts, s \in SourcesOf[c], d \in Deltas :
    RefuseInvalid(c, a, s, d) \/ RefuseAtSnapshot(c, a, s, d) \/ Begin(c, a, s, d)

Commit(c) ==
  CommitReplay(c) \/ CommitRefusal(c) \/ CommitPost(c) \/ CommitConflict(c)

PgNext == \E c \in Clients : Call(c) \/ Commit(c) \/ Rollback(c)

PgSpec == PgInit /\ [][PgNext]_pgVars

-----------------------------------------------------------------------------
\* spec/05-profile-economy-ap-gp.md: "All point movement must be auditable,
\* idempotent, ..." and "Check-in AP awards are idempotent": a call that records
\* no entry moves no balance.
ReplayMovesNothing ==
  [][\A a \in Accounts : balance'[a] # balance[a] => ledger'[a] # ledger[a]]_pgVars
=============================================================================
