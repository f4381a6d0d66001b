-------------------------- MODULE PostgresLedgerProofs --------------------------
(***************************************************************************)
(* Proofs about the Postgres ledger for every set of clients, accounts,    *)
(* sources and integer amounts.  Whatever the callers do, accounts stay    *)
(* solvent and a source has one entry.  If no source is ever in flight     *)
(* twice, the statement implements PointLedger's single step: between its  *)
(* snapshot and its commit nobody else can have recorded its source, so    *)
(* what the snapshot said of the source is still true.                     *)
(***************************************************************************)
EXTENDS PostgresLedger, PointLedgerProofs

\* What every caller may rely on, however calls overlap.
PgInv == PgTypeOK /\ Solvent /\ OnePostingPerSource

\* A statement's snapshot still tells whether its source is recorded, and with
\* which entry.
SnapshotsAreCurrent ==
  \A c \in Clients : stmt[c] # NoStatement =>
    /\ stmt[c].source \in SourcesOf[c]
    /\ stmt[c].existing = NoEntry => ~Recorded(stmt[c].account, stmt[c].source)
    /\ stmt[c].existing # NoEntry =>
         \E i \in 1..Len(ledger[stmt[c].account]) :
           /\ ledger[stmt[c].account][i] = stmt[c].existing
           /\ stmt[c].existing.source = stmt[c].source

\* A running statement carries an amount its caller posts, and not zero.
AmountsAreReal ==
  \A c \in Clients : stmt[c] # NoStatement => stmt[c].delta \in Deltas \ {0}

-----------------------------------------------------------------------------
\* Appending an entry with a new source to one account's history, by whichever
\* step, keeps every account solvent and every source posted once.
LEMMA AppendKeepsLedger ==
  ASSUME TypeOK, Solvent, OnePostingPerSource,
         NEW a \in Accounts, NEW s \in Sources, NEW d \in Int,
         ~Recorded(a, s), balance[a] + d >= 0,
         balance' = [balance EXCEPT ![a] = balance[a] + d],
         ledger' = [ledger EXCEPT ![a] = Append(ledger[a],
                      [source |-> s, delta |-> d, balanceAfter |-> balance[a] + d])]
  PROVE  /\ Solvent' /\ OnePostingPerSource'
         /\ balance' \in [Accounts -> Int] /\ ledger' \in [Accounts -> Seq(Entry)]
  <1> DEFINE e == [source |-> s, delta |-> d, balanceAfter |-> balance[a] + d]
  <1>1. balance[a] \in Int /\ ledger[a] \in Seq(Entry)
    BY DEF TypeOK
  <1>2. e \in Entry
    BY <1>1 DEF Entry
  <1>3. PICK n \in Nat : n = Len(ledger[a])
    BY <1>1
  <1>4. /\ Len(ledger'[a]) = n + 1
        /\ \A i \in 1..n : ledger'[a][i] = ledger[a][i]
        /\ ledger'[a][n + 1] = e
        /\ balance'[a] = balance[a] + d
    BY <1>1, <1>2, <1>3 DEF TypeOK
  <1>5. \A b \in Accounts \ {a} : ledger'[b] = ledger[b] /\ balance'[b] = balance[b]
    BY DEF TypeOK
  <1>6. Solvent'
    BY <1>3, <1>4, <1>5 DEF Solvent
  <1>7. OnePostingPerSource'
    <2> SUFFICES ASSUME NEW b \in Accounts,
                        NEW i \in 1..Len(ledger'[b]), NEW j \in 1..Len(ledger'[b]),
                        ledger'[b][i].source = ledger'[b][j].source
                 PROVE  i = j
      BY DEF OnePostingPerSource
    <2>1. CASE b # a
      BY <1>5, <2>1 DEF OnePostingPerSource
    <2>2. CASE b = a
      <3>1. (i \in 1..n \/ i = n + 1) /\ (j \in 1..n \/ j = n + 1)
        BY <1>3, <1>4, <2>2
      <3>2. \A k \in 1..n : ledger'[a][k].source = ledger[a][k].source /\ ledger[a][k].source # s
        BY <1>3, <1>4 DEF Recorded
      <3> QED
        BY <1>3, <1>4, <2>2, <3>1, <3>2 DEF OnePostingPerSource
    <2> QED
      BY <2>1, <2>2
  <1>8. balance' \in [Accounts -> Int] /\ ledger' \in [Accounts -> Seq(Entry)]
    <2>1. Append(ledger[a], e) \in Seq(Entry)
      BY <1>1, <1>2
    <2> QED
      BY <1>1, <2>1 DEF TypeOK
  <1> QED
    BY <1>6, <1>7, <1>8

\* An answer is a reply, so the client's reply stays well formed.
LEMMA AnswerType ==
  ASSUME TypeOK, NEW c \in Clients, NEW st \in Statuses, NEW a \in Accounts, NEW s \in Sources,
         NEW e \in Entry \cup {NoEntry}, Answer(c, st, a, s, e)
  PROVE  reply' \in [Clients -> Reply \cup {NoReply}]
  BY DEF Answer, TypeOK, Reply

\* A running statement's parts.
LEMMA StatementType ==
  ASSUME PgTypeOK, NEW c \in Clients, stmt[c] # NoStatement
  PROVE  /\ stmt[c].account \in Accounts
         /\ stmt[c].source \in Sources
         /\ stmt[c].delta \in Int
         /\ stmt[c].existing \in Entry \cup {NoEntry}
  BY DEF PgTypeOK, Statement

\* No step of any client breaks what every caller may rely on.
LEMMA PgInvPreserved ==
  ASSUME PgInv, [PgNext]_pgVars
  PROVE  PgInv'
  <1> USE DEF PgInv
  <1>1. TypeOK /\ stmt \in [Clients -> Statement \cup {NoStatement}]
    BY DEF PgTypeOK
  <1>2. CASE UNCHANGED pgVars
    BY <1>2 DEF pgVars, PgTypeOK, TypeOK, Solvent, OnePostingPerSource
  <1>3. ASSUME NEW c \in Clients, Call(c)
        PROVE  PgInv'
    <2>1. PICK a \in Accounts, s \in SourcesOf[c], d \in Deltas :
            RefuseInvalid(c, a, s, d) \/ RefuseAtSnapshot(c, a, s, d) \/ Begin(c, a, s, d)
      BY <1>3 DEF Call
    <2>2. s \in Sources /\ d \in Int
      BY SourcesOfType, DeltasAreIntegers
    <2>3. UNCHANGED <<balance, ledger>>
      BY <2>1 DEF RefuseInvalid, Invalid, RefuseAtSnapshot, Refuse, Begin
    <2>4. Solvent' /\ OnePostingPerSource'
      BY <2>3 DEF Solvent, OnePostingPerSource
    <2>5. CASE RefuseInvalid(c, a, s, d) \/ RefuseAtSnapshot(c, a, s, d)
      <3>1. reply' \in [Clients -> Reply \cup {NoReply}]
        BY <1>1, <2>2, <2>5, AnswerType
           DEF RefuseInvalid, Invalid, RefuseAtSnapshot, Refuse, Statuses
      <3> QED
        BY <1>1, <2>3, <2>4, <2>5, <3>1 DEF RefuseInvalid, RefuseAtSnapshot, PgTypeOK, TypeOK
    <2>6. CASE Begin(c, a, s, d)
      <3>1. (IF Recorded(a, s) THEN RecordedEntry(a, s) ELSE NoEntry) \in Entry \cup {NoEntry}
        BY <1>1, <2>2, RecordedEntryType
      <3>2. stmt' \in [Clients -> Statement \cup {NoStatement}]
        BY <1>1, <2>2, <2>6, <3>1 DEF Begin, Statement
      <3> QED
        BY <1>1, <2>3, <2>4, <2>6, <3>2 DEF Begin, PgTypeOK, TypeOK
    <2> QED
      BY <2>1, <2>5, <2>6
  <1>4. ASSUME NEW c \in Clients, Commit(c)
        PROVE  PgInv'
    <2>1. stmt[c] # NoStatement /\ Done(c)
      BY <1>4 DEF Commit, CommitReplay, CommitRefusal, CommitPost, CommitConflict
    <2> DEFINE a == stmt[c].account
               s == stmt[c].source
               d == stmt[c].delta
    <2>2. a \in Accounts /\ s \in Sources /\ d \in Int /\ stmt[c].existing \in Entry \cup {NoEntry}
      BY <2>1, StatementType
    <2>3. stmt' \in [Clients -> Statement \cup {NoStatement}]
      BY <1>1, <2>1 DEF Done
    <2>4. CASE CommitReplay(c) \/ CommitRefusal(c)
      <3>1. UNCHANGED <<balance, ledger>>
        BY <2>4 DEF CommitReplay, CommitRefusal
      <3>2. reply' \in [Clients -> Reply \cup {NoReply}]
        BY <1>1, <2>2, <2>4, AnswerType DEF CommitReplay, CommitRefusal, Statuses
      <3> QED
        BY <1>1, <2>3, <3>1, <3>2 DEF PgTypeOK, TypeOK, Solvent, OnePostingPerSource
    <2>5. CASE CommitPost(c)
      <3> DEFINE e == [source |-> s, delta |-> d, balanceAfter |-> balance[a] + d]
      <3>1. /\ Solvent' /\ OnePostingPerSource'
            /\ balance' \in [Accounts -> Int] /\ ledger' \in [Accounts -> Seq(Entry)]
        BY <1>1, <2>2, <2>5, AppendKeepsLedger DEF CommitPost
      <3>2. e \in Entry
        BY <1>1, <2>2 DEF Entry, TypeOK
      <3>3. reply' \in [Clients -> Reply \cup {NoReply}]
        BY <1>1, <2>2, <2>5, <3>2, AnswerType DEF CommitPost, Statuses
      <3> QED
        BY <2>3, <3>1, <3>3 DEF PgTypeOK, TypeOK
    <2>6. CASE CommitConflict(c)
      <3>1. /\ ledger' = ledger
            /\ balance' = [balance EXCEPT ![a] = balance[a] + d]
            /\ balance[a] + d >= 0
        BY <2>6 DEF CommitConflict
      <3>2. balance' \in [Accounts -> Int] /\ Solvent'
        BY <1>1, <2>2, <3>1 DEF TypeOK, Solvent
      <3>3. reply' \in [Clients -> Reply \cup {NoReply}]
        BY <1>1, <2>2, <2>6, AnswerType DEF CommitConflict, Statuses
      <3> QED
        BY <1>1, <2>3, <3>1, <3>2, <3>3 DEF PgTypeOK, TypeOK, OnePostingPerSource
    <2> QED
      BY <1>4, <2>4, <2>5, <2>6 DEF Commit
  <1>5. ASSUME NEW c \in Clients, Rollback(c)
        PROVE  PgInv'
    BY <1>1, <1>5 DEF Rollback, Done, PgTypeOK, TypeOK, Solvent, OnePostingPerSource
  <1> QED
    BY <1>2, <1>3, <1>4, <1>5 DEF PgNext

\* Whatever calls overlap, types hold, no account is overdrawn and a source
\* has at most one entry.
THEOREM PgLedgerIsSound == PgSpec => []PgInv
  <1>1. PgInit => PgInv
    BY InvInitial DEF PgInit, PgInv, PgTypeOK, LedgerInv
  <1>2. PgInv /\ [PgNext]_pgVars => PgInv'
    BY PgInvPreserved
  <1> QED
    BY <1>1, <1>2, PTL DEF PgSpec

\* No account is overdrawn: the row lock and the re-check of its balance are
\* enough, however calls overlap.
THEOREM PgLedgerSolvent == PgSpec => []Solvent
  <1>1. PgInv => Solvent
    BY DEF PgInv
  <1> QED
    BY <1>1, PgLedgerIsSound, PTL

\* A source has at most one entry, however calls overlap.
THEOREM PgLedgerPostsOnce == PgSpec => []OnePostingPerSource
  <1>1. PgInv => OnePostingPerSource
    BY DEF PgInv
  <1> QED
    BY <1>1, PgLedgerIsSound, PTL

\* Types hold, however calls overlap.
THEOREM PgTypeCorrect == PgSpec => []PgTypeOK
  <1>1. PgInv => PgTypeOK
    BY DEF PgInv
  <1> QED
    BY <1>1, PgLedgerIsSound, PTL

-----------------------------------------------------------------------------
InHistory(a, e) == \E i \in 1..Len(ledger[a]) : ledger[a][i] = e

\* What a snapshot found is in the account's history, however old the snapshot.
SnapshotsAreHistory ==
  \A c \in Clients :
    stmt[c] # NoStatement /\ stmt[c].existing # NoEntry => InHistory(stmt[c].account, stmt[c].existing)

\* What a post writes is in the history, with all that was in it before.
LEMMA PostedIsHistory ==
  ASSUME PgInv, NEW c \in Clients, CommitPost(c)
  PROVE  /\ \A a \in Accounts : \A e : InHistory(a, e) => InHistory(a, e)'
         /\ \E a \in Accounts, s \in Sources, e \in Entry :
              Answer(c, "ok", a, s, e) /\ InHistory(a, e)'
  <1>1. stmt[c] # NoStatement
    BY DEF CommitPost
  <1>2. PICK a \in Accounts, s \in Sources, d \in Int :
          a = stmt[c].account /\ s = stmt[c].source /\ d = stmt[c].delta
    BY <1>1, StatementType DEF PgInv
  <1>3. PICK e \in Entry : e = [source |-> s, delta |-> d, balanceAfter |-> balance[a] + d]
    <2>1. balance[a] + d \in Int
      BY DEF PgInv, PgTypeOK, TypeOK
    <2> QED
      BY <2>1 DEF Entry
  <1>4. ledger' = [ledger EXCEPT ![a] = Append(ledger[a], e)] /\ Answer(c, "ok", a, s, e)
    BY <1>2, <1>3 DEF CommitPost
  <1>5. ledger \in [Accounts -> Seq(Entry)]
    BY DEF PgInv, PgTypeOK, TypeOK
  <1>6. PICK n \in Nat : n = Len(ledger[a])
    BY <1>5
  <1>7. /\ ledger'[a] = Append(ledger[a], e) /\ ledger[a] \in Seq(Entry)
        /\ \A b \in Accounts : b # a => ledger'[b] = ledger[b]
    BY <1>4, <1>5
  <1>8. /\ Len(ledger'[a]) = n + 1 /\ ledger'[a][n + 1] = e
        /\ \A i \in 1..n : ledger'[a][i] = ledger[a][i]
    BY <1>6, <1>7
  <1>9. InHistory(a, e)'
    BY <1>6, <1>8 DEF InHistory
  <1>10. ASSUME NEW b \in Accounts, NEW x, InHistory(b, x)
         PROVE  InHistory(b, x)'
    <2>1. CASE b = a
      <3>1. PICK i \in 1..n : ledger[a][i] = x
        BY <1>6, <1>10, <2>1 DEF InHistory
      <3>2. i \in 1..Len(ledger'[a]) /\ ledger'[a][i] = x
        BY <1>6, <1>8, <3>1
      <3> QED
        BY <2>1, <3>2 DEF InHistory
    <2>2. CASE b # a
      BY <1>7, <1>10, <2>2 DEF InHistory
    <2> QED
      BY <2>1, <2>2
  <1> QED
    BY <1>4, <1>9, <1>10

LEMMA HistoriesGrow ==
  ASSUME PgInv, [PgNext]_pgVars, NEW a \in Accounts, NEW e, InHistory(a, e)
  PROVE  InHistory(a, e)'
  <1>1. CASE UNCHANGED ledger
    BY <1>1 DEF InHistory
  <1>2. UNCHANGED ledger \/ \E c \in Clients : CommitPost(c)
    BY DEF PgNext, Call, Commit, RefuseInvalid, Invalid, RefuseAtSnapshot, Refuse, Begin, CommitReplay,
       CommitRefusal, CommitConflict, Rollback, pgVars
  <1> QED
    BY <1>1, <1>2, PostedIsHistory

\* What a step answers: nothing, no entry, or an entry in the history.
LEMMA AnswersAreHistory ==
  ASSUME PgInv, SnapshotsAreHistory, [PgNext]_pgVars
  PROVE  \/ UNCHANGED reply
         \/ \E c \in Clients, st \in Statuses, a \in Accounts, s \in Sources : Answer(c, st, a, s, NoEntry)
         \/ \E c \in Clients, a \in Accounts, s \in Sources, e \in Entry :
              Answer(c, "ok", a, s, e) /\ InHistory(a, e)'
  <1>1. ASSUME NEW c \in Clients, CommitReplay(c)
        PROVE  \E a \in Accounts, s \in Sources, e \in Entry : Answer(c, "ok", a, s, e) /\ InHistory(a, e)'
    <2>1. stmt[c] # NoStatement /\ stmt[c].existing # NoEntry
      BY <1>1 DEF CommitReplay
    <2>2. PICK a \in Accounts, s \in Sources, e \in Entry :
            a = stmt[c].account /\ s = stmt[c].source /\ e = stmt[c].existing
      BY <2>1, StatementType DEF PgInv
    <2>3. InHistory(a, e)
      BY <2>1, <2>2 DEF SnapshotsAreHistory
    <2>4. InHistory(a, e)'
      BY <2>3, HistoriesGrow
    <2>5. Answer(c, "ok", a, s, e)
      BY <1>1, <2>2 DEF CommitReplay
    <2> QED
      BY <2>4, <2>5
  <1>2. ASSUME NEW c \in Clients, Call(c) \/ CommitRefusal(c) \/ CommitConflict(c) \/ Rollback(c)
        PROVE  \/ UNCHANGED reply
               \/ \E st \in Statuses, a \in Accounts, s \in Sources : Answer(c, st, a, s, NoEntry)
    <2>1. CASE Call(c)
      BY <2>1, SourcesOfType DEF Call, RefuseInvalid, Invalid, RefuseAtSnapshot, Refuse, Begin, Statuses
    <2>2. CASE CommitRefusal(c) \/ CommitConflict(c)
      BY <2>2, StatementType DEF PgInv, CommitRefusal, CommitConflict, Statuses
    <2> QED
      BY <1>2, <2>1, <2>2 DEF Rollback
  <1>3. CASE UNCHANGED pgVars
    BY <1>3 DEF pgVars
  <1> QED
    BY <1>1, <1>2, <1>3, PostedIsHistory DEF PgNext, Commit

LEMMA SnapshotsStayHistory ==
  ASSUME PgInv, SnapshotsAreHistory, [PgNext]_pgVars
  PROVE  SnapshotsAreHistory'
  <1> SUFFICES ASSUME NEW c \in Clients, stmt'[c] # NoStatement, stmt'[c].existing # NoEntry,
                      NEW a, a = stmt'[c].account, NEW e, e = stmt'[c].existing
               PROVE  InHistory(a, e)'
    BY DEF SnapshotsAreHistory
  <1>1. stmt \in [Clients -> Statement \cup {NoStatement}]
    BY DEF PgInv, PgTypeOK
  <1>2. CASE stmt'[c] = stmt[c]
    <2>1. a \in Accounts /\ InHistory(a, e)
      BY <1>2, StatementType DEF PgInv, SnapshotsAreHistory
    <2> QED
      BY <2>1, HistoriesGrow
  <1>3. ASSUME NEW x \in Clients, NEW b \in Accounts, NEW s \in SourcesOf[x], NEW d \in Deltas,
               Begin(x, b, s, d), stmt'[c] # stmt[c]
        PROVE  InHistory(a, e)'
    <2>1. stmt'[c] = [account |-> b, source |-> s, delta |-> d,
                      existing |-> IF Recorded(b, s) THEN RecordedEntry(b, s) ELSE NoEntry]
      BY <1>1, <1>3 DEF Begin
    <2>2. a = b /\ Recorded(b, s) /\ e = RecordedEntry(b, s)
      BY <2>1
    <2>3. s \in Sources /\ TypeOK
      BY SourcesOfType DEF PgInv, PgTypeOK
    <2>4. InHistory(a, e)
      BY <2>2, <2>3, RecordedEntryIsInLedger DEF InHistory
    <2> QED
      BY <2>2, <2>4, HistoriesGrow
  <1>4. ASSUME NEW x \in Clients, Done(x)
        PROVE  stmt'[c] = stmt[c]
    BY <1>1, <1>4 DEF Done
  <1> QED
    BY <1>2, <1>3, <1>4 DEF PgNext, Call, Commit, RefuseInvalid, RefuseAtSnapshot, CommitReplay, CommitRefusal,
       CommitPost, CommitConflict, Rollback, pgVars

\* Every entry a caller was handed is in its account's history for good, however
\* calls overlap: a snapshot may be old, but what it found is never taken back.
THEOREM PgLedgerHonoursReceipts == PgSpec => []ReceiptsAreHonoured
  <1>1. PgInit => SnapshotsAreHistory /\ ReceiptsAreHonoured
    BY DEF PgInit, Init, SnapshotsAreHistory, ReceiptsAreHonoured
  <1>2. PgInv /\ SnapshotsAreHistory /\ [PgNext]_pgVars => SnapshotsAreHistory'
    BY SnapshotsStayHistory
  <1>3. PgInv /\ SnapshotsAreHistory /\ ReceiptsAreHonoured /\ [PgNext]_pgVars => ReceiptsAreHonoured'
    <2> SUFFICES ASSUME PgInv, SnapshotsAreHistory, ReceiptsAreHonoured, [PgNext]_pgVars,
                        NEW c \in Clients, reply'[c] # NoReply, reply'[c].entry # NoEntry,
                        NEW a, a = reply'[c].account, NEW e, e = reply'[c].entry
                 PROVE  InHistory(a, e)'
      BY DEF ReceiptsAreHonoured, InHistory
    <2>1. reply \in [Clients -> Reply \cup {NoReply}]
      BY DEF PgInv, PgTypeOK, TypeOK
    <2>2. CASE reply'[c] = reply[c]
      <3>1. a \in Accounts /\ InHistory(a, e)
        BY <2>1, <2>2 DEF Reply, ReceiptsAreHonoured, InHistory
      <3> QED
        BY <3>1, HistoriesGrow
    <2>3. ASSUME NEW x \in Clients, NEW st \in Statuses, NEW b \in Accounts, NEW s \in Sources,
                 Answer(x, st, b, s, NoEntry)
          PROVE  reply'[c] = reply[c]
      BY <2>1, <2>3 DEF Answer
    <2>4. ASSUME NEW x \in Clients, NEW b \in Accounts, NEW s \in Sources, NEW y \in Entry,
                 Answer(x, "ok", b, s, y), InHistory(b, y)'
          PROVE  reply'[c] = reply[c] \/ InHistory(a, e)'
      <3>1. reply'[c] = reply[c] \/ (a = b /\ e = y)
        BY <2>1, <2>4 DEF Answer
      <3> QED
        BY <2>4, <3>1
    <2> QED
      BY <2>2, <2>3, <2>4, AnswersAreHistory
  <1> QED
    BY <1>1, <1>2, <1>3, PgLedgerIsSound, PTL DEF PgSpec

-----------------------------------------------------------------------------
\* One statement's snapshot stays current through a step that leaves that
\* statement running, as long as the step does not record its source.
LEMMA SnapshotStaysCurrent ==
  ASSUME PgInv, SnapshotsAreCurrent, NEW c \in Clients,
         stmt'[c] = stmt[c], stmt[c] # NoStatement,
         NEW a \in Accounts, NEW s \in Sources, NEW d \in Int,
         \/ ledger' = ledger
         \/ /\ s # stmt[c].source
            /\ ledger' = [ledger EXCEPT ![a] = Append(ledger[a],
                 [source |-> s, delta |-> d, balanceAfter |-> balance[a] + d])]
  PROVE  /\ stmt'[c].source \in SourcesOf[c]
         /\ stmt'[c].existing = NoEntry => ~Recorded(stmt[c].account, stmt[c].source)'
         /\ stmt'[c].existing # NoEntry =>
              \E i \in 1..Len(ledger'[stmt'[c].account]) :
                /\ ledger'[stmt'[c].account][i] = stmt'[c].existing
                /\ stmt'[c].existing.source = stmt'[c].source
  <1>1. /\ stmt[c].source \in SourcesOf[c]
        /\ stmt[c].existing = NoEntry => ~Recorded(stmt[c].account, stmt[c].source)
        /\ stmt[c].existing # NoEntry =>
             \E i \in 1..Len(ledger[stmt[c].account]) :
               /\ ledger[stmt[c].account][i] = stmt[c].existing
               /\ stmt[c].existing.source = stmt[c].source
    BY DEF SnapshotsAreCurrent
  <1>2. CASE ledger' = ledger
    BY <1>1, <1>2 DEF Recorded
  <1>3. ASSUME s # stmt[c].source,
               ledger' = [ledger EXCEPT ![a] = Append(ledger[a],
                 [source |-> s, delta |-> d, balanceAfter |-> balance[a] + d])]
        PROVE  /\ stmt'[c].existing = NoEntry => ~Recorded(stmt[c].account, stmt[c].source)'
               /\ stmt'[c].existing # NoEntry =>
                    \E i \in 1..Len(ledger'[stmt'[c].account]) :
                      /\ ledger'[stmt'[c].account][i] = stmt'[c].existing
                      /\ stmt'[c].existing.source = stmt'[c].source
    <2> DEFINE b == stmt[c].account
               e == [source |-> s, delta |-> d, balanceAfter |-> balance[a] + d]
    <2>1. b \in Accounts /\ ledger[b] \in Seq(Entry) /\ ledger[a] \in Seq(Entry)
      BY StatementType DEF PgInv, PgTypeOK, TypeOK
    <2>2. e \in Entry
      BY DEF PgInv, PgTypeOK, TypeOK, Entry
    <2>3. PICK n \in Nat : n = Len(ledger[b])
      BY <2>1
    <2>4. /\ \A i \in 1..n : i \in 1..Len(ledger'[b]) /\ ledger'[b][i] = ledger[b][i]
          /\ \A i \in 1..Len(ledger'[b]) : i \in 1..n \/ ledger'[b][i].source = s
      <3>1. CASE b # a
        BY <1>3, <2>1, <2>3, <3>1 DEF PgInv, PgTypeOK, TypeOK
      <3>2. CASE b = a
        <4>1. ledger'[b] = Append(ledger[b], e)
          BY <1>3, <2>1, <3>2 DEF PgInv, PgTypeOK, TypeOK
        <4>2. /\ Len(ledger'[b]) = n + 1
              /\ \A i \in 1..n : ledger'[b][i] = ledger[b][i]
              /\ ledger'[b][n + 1] = e
          BY <2>1, <2>2, <2>3, <4>1
        <4> QED
          BY <2>3, <4>2
      <3> QED
        BY <3>1, <3>2
    <2>5. ASSUME stmt'[c].existing = NoEntry
          PROVE  ~Recorded(stmt[c].account, stmt[c].source)'
      <3>1. \A i \in 1..n : ledger[b][i].source # stmt[c].source
        BY <1>1, <2>3, <2>5 DEF Recorded
      <3> QED
        BY <1>3, <2>4, <3>1 DEF Recorded
    <2>6. ASSUME stmt'[c].existing # NoEntry
          PROVE  \E i \in 1..Len(ledger'[stmt'[c].account]) :
                   /\ ledger'[stmt'[c].account][i] = stmt'[c].existing
                   /\ stmt'[c].existing.source = stmt'[c].source
      <3>1. PICK i \in 1..n : ledger[b][i] = stmt[c].existing /\ stmt[c].existing.source = stmt[c].source
        BY <1>1, <2>3, <2>6
      <3> QED
        BY <2>4, <3>1
    <2> QED
      BY <2>5, <2>6
  <1> QED
    BY <1>1, <1>2, <1>3

\* If no source is in flight twice, no snapshot goes stale: another client's
\* commit records a source this one does not post.
LEMMA SnapshotsPreserved ==
  ASSUME SourcesAreExclusive, PgInv, SnapshotsAreCurrent, [PgNext]_pgVars
  PROVE  SnapshotsAreCurrent'
  <1>1. stmt \in [Clients -> Statement \cup {NoStatement}]
    BY DEF PgInv, PgTypeOK
  <1>2. CASE UNCHANGED pgVars
    BY <1>2 DEF pgVars, SnapshotsAreCurrent, Recorded
  <1>3. ASSUME NEW c \in Clients, Call(c) \/ Commit(c) \/ Rollback(c)
        PROVE  SnapshotsAreCurrent'
    <2> SUFFICES ASSUME NEW x \in Clients, stmt'[x] # NoStatement
                 PROVE  /\ stmt'[x].source \in SourcesOf[x]
                        /\ stmt'[x].existing = NoEntry =>
                             ~Recorded(stmt[x].account, stmt[x].source)'
                        /\ stmt'[x].existing # NoEntry =>
                             \E i \in 1..Len(ledger'[stmt'[x].account]) :
                               /\ ledger'[stmt'[x].account][i] = stmt'[x].existing
                               /\ stmt'[x].existing.source = stmt'[x].source
      BY DEF SnapshotsAreCurrent
    <2>1. CASE x # c
      <3>1. stmt'[x] = stmt[x]
        BY <1>1, <1>3, <2>1 DEF Call, RefuseInvalid, RefuseAtSnapshot, Begin, Commit, CommitReplay, CommitRefusal,
             CommitPost, CommitConflict, Rollback, Done
      <3>2. CASE CommitPost(c)
        <4>1. /\ stmt[c] # NoStatement
              /\ ledger' = [ledger EXCEPT ![stmt[c].account] = Append(ledger[stmt[c].account],
                   [source |-> stmt[c].source, delta |-> stmt[c].delta,
                    balanceAfter |-> balance[stmt[c].account] + stmt[c].delta])]
          BY <3>2 DEF CommitPost
        <4>2. /\ stmt[c].account \in Accounts /\ stmt[c].source \in Sources
              /\ stmt[c].delta \in Int
          BY <4>1, StatementType DEF PgInv
        <4>3. stmt[c].source # stmt[x].source
          BY <2>1, <3>1, <4>1 DEF SourcesAreExclusive, SnapshotsAreCurrent
        <4> QED
          BY <3>1, <4>1, <4>2, <4>3, SnapshotStaysCurrent
      <3>3. CASE ~CommitPost(c)
        <4>1. ledger' = ledger
          BY <1>3, <3>3 DEF Call, RefuseInvalid, Invalid, RefuseAtSnapshot, Refuse, Begin,
               Commit, CommitReplay, CommitRefusal, CommitConflict, Rollback
        <4>2. /\ stmt[x].account \in Accounts /\ stmt[x].source \in Sources
              /\ stmt[x].delta \in Int
          BY <3>1, StatementType DEF PgInv
        <4> QED
          BY <3>1, <4>1, <4>2, SnapshotStaysCurrent
      <3> QED
        BY <3>2, <3>3
    <2>2. CASE x = c
      <3>1. CASE Commit(c) \/ Rollback(c)
        BY <1>1, <2>2, <3>1 DEF Commit, CommitReplay, CommitRefusal, CommitPost, CommitConflict,
             Rollback, Done
      <3>2. CASE Call(c)
        <4>1. PICK a \in Accounts, s \in SourcesOf[c], d \in Deltas :
                RefuseInvalid(c, a, s, d) \/ RefuseAtSnapshot(c, a, s, d) \/ Begin(c, a, s, d)
          BY <3>2 DEF Call
        <4>2. Begin(c, a, s, d)
          BY <2>2, <4>1 DEF RefuseInvalid, RefuseAtSnapshot
        <4>3. /\ stmt'[c] = [account |-> a, source |-> s, delta |-> d,
                    existing |-> IF Recorded(a, s) THEN RecordedEntry(a, s) ELSE NoEntry]
              /\ ledger' = ledger
          BY <1>1, <4>2 DEF Begin
        <4>4. s \in Sources
          BY SourcesOfType
        <4>5. CASE Recorded(a, s)
          <5>1. \E i \in 1..Len(ledger[a]) :
                  RecordedEntry(a, s) = ledger[a][i] /\ ledger[a][i].source = s
            BY <4>4, <4>5, RecordedEntryIsInLedger DEF PgInv, PgTypeOK
          <5>2. RecordedEntry(a, s) # NoEntry
            BY <4>4, <4>5, RecordedEntryType, MarkersAreNotData DEF PgInv, PgTypeOK
          <5> QED
            BY <2>2, <4>3, <4>5, <5>1, <5>2
        <4>6. CASE ~Recorded(a, s)
          BY <2>2, <4>3, <4>6 DEF Recorded
        <4> QED
          BY <4>5, <4>6
      <3> QED
        BY <1>3, <3>1, <3>2
    <2> QED
      BY <2>1, <2>2
  <1> QED
    BY <1>2, <1>3 DEF PgNext

-----------------------------------------------------------------------------
\* The entry in a current snapshot is the entry the ledger would find now.
LEMMA SnapshotIsLookup ==
  ASSUME PgInv, SnapshotsAreCurrent, NEW c \in Clients, stmt[c] # NoStatement,
         stmt[c].existing # NoEntry
  PROVE  /\ Recorded(stmt[c].account, stmt[c].source)
         /\ RecordedEntry(stmt[c].account, stmt[c].source) = stmt[c].existing
  <1> DEFINE a == stmt[c].account
             s == stmt[c].source
  <1>1. a \in Accounts /\ s \in Sources
    BY StatementType DEF PgInv
  <1>2. PICK i \in 1..Len(ledger[a]) : ledger[a][i] = stmt[c].existing /\ ledger[a][i].source = s
    BY DEF SnapshotsAreCurrent
  <1>3. Recorded(a, s)
    BY <1>2 DEF Recorded
  <1>4. PICK j \in 1..Len(ledger[a]) : RecordedEntry(a, s) = ledger[a][j] /\ ledger[a][j].source = s
    BY <1>1, <1>3, RecordedEntryIsInLedger DEF PgInv, PgTypeOK
  <1>5. i = j
    BY <1>1, <1>2, <1>4 DEF PgInv, OnePostingPerSource
  <1> QED
    BY <1>2, <1>3, <1>4, <1>5

\* With current snapshots, every step of the Postgres ledger is a step of
\* PointLedger or leaves its variables alone.  A zero amount never reaches the
\* statement, which is why the running statement's amount is a caller's amount.
LEMMA StepRefines ==
  ASSUME PgInv, SnapshotsAreCurrent, AmountsAreReal, [PgNext]_pgVars
  PROVE  [Next]_vars
  <1>1. CASE UNCHANGED pgVars
    BY <1>1 DEF pgVars, vars
  <1>2. ASSUME NEW c \in Clients, Call(c) \/ Rollback(c)
        PROVE  [Next]_vars
    <2>1. CASE Rollback(c)
      BY <2>1 DEF Rollback, vars
    <2>2. CASE Call(c)
      <3>1. PICK a \in Accounts, s \in SourcesOf[c], d \in Deltas :
              RefuseInvalid(c, a, s, d) \/ RefuseAtSnapshot(c, a, s, d) \/ Begin(c, a, s, d)
        BY <2>2 DEF Call
      <3>2. s \in Sources
        BY SourcesOfType
      <3>3. CASE RefuseInvalid(c, a, s, d) \/ RefuseAtSnapshot(c, a, s, d)
        BY <3>2, <3>3 DEF RefuseInvalid, RefuseAtSnapshot, AppendPointLedger, Next
      <3>4. CASE Begin(c, a, s, d)
        BY <3>4 DEF Begin, vars
      <3> QED
        BY <3>1, <3>3, <3>4
    <2> QED
      BY <1>2, <2>1, <2>2
  <1>3. ASSUME NEW c \in Clients, Commit(c)
        PROVE  [Next]_vars
    <2> DEFINE a == stmt[c].account
               s == stmt[c].source
               d == stmt[c].delta
    <2>1. stmt[c] # NoStatement
      BY <1>3 DEF Commit, CommitReplay, CommitRefusal, CommitPost, CommitConflict
    <2>2. a \in Accounts /\ s \in Sources
      BY <2>1, StatementType DEF PgInv
    <2>3. d \in Deltas /\ d # 0
      BY <2>1 DEF AmountsAreReal
    <2>4. stmt[c].existing = NoEntry => ~Recorded(a, s)
      BY <2>1 DEF SnapshotsAreCurrent
    <2>5. CASE CommitReplay(c)
      <3>1. Replay(c, a, s, d)
        BY <2>1, <2>3, <2>5, SnapshotIsLookup DEF CommitReplay, Replay
      <3> QED
        BY <2>2, <2>3, <3>1 DEF AppendPointLedger, Next
    <2>6. CASE CommitRefusal(c)
      <3>1. Refuse(c, a, s, d)
        BY <2>3, <2>4, <2>6 DEF CommitRefusal, Refuse
      <3> QED
        BY <2>2, <2>3, <3>1 DEF AppendPointLedger, Next
    <2>7. CASE CommitPost(c)
      <3>1. Post(c, a, s, d)
        BY <2>3, <2>7 DEF CommitPost, Post
      <3> QED
        BY <2>2, <2>3, <3>1 DEF AppendPointLedger, Next
    <2>8. CASE CommitConflict(c)
      BY <2>4, <2>8 DEF CommitConflict
    <2> QED
      BY <1>3, <2>5, <2>6, <2>7, <2>8 DEF Commit
  <1> QED
    BY <1>1, <1>2, <1>3 DEF PgNext

\* Only a caller's amount, and never zero, reaches a statement.
LEMMA AmountsPreserved ==
  ASSUME PgInv, AmountsAreReal, [PgNext]_pgVars
  PROVE  AmountsAreReal'
  <1>1. stmt \in [Clients -> Statement \cup {NoStatement}]
    BY DEF PgInv, PgTypeOK
  <1>2. CASE UNCHANGED pgVars
    BY <1>2 DEF pgVars, AmountsAreReal
  <1>3. ASSUME NEW c \in Clients, Call(c)
        PROVE  AmountsAreReal'
    BY <1>1, <1>3 DEF Call, RefuseInvalid, RefuseAtSnapshot, Begin, AmountsAreReal
  <1>4. ASSUME NEW c \in Clients, Commit(c) \/ Rollback(c)
        PROVE  AmountsAreReal'
    <2>1. Done(c)
      BY <1>4 DEF Commit, CommitReplay, CommitRefusal, CommitPost, CommitConflict, Rollback
    <2> QED
      BY <1>1, <2>1 DEF Done, AmountsAreReal
  <1> QED
    BY <1>2, <1>3, <1>4 DEF PgNext

\* If no source is ever in flight twice, the Postgres ledger implements
\* PointLedger: same balances, same histories, same answers.
THEOREM PgLedgerRefines ==
  ASSUME SourcesAreExclusive
  PROVE  PgSpec => Spec
  <1>1. PgInit => Init /\ SnapshotsAreCurrent /\ AmountsAreReal
    BY DEF PgInit, SnapshotsAreCurrent, AmountsAreReal
  <1>2. PgInv /\ SnapshotsAreCurrent /\ AmountsAreReal /\ [PgNext]_pgVars
          => SnapshotsAreCurrent' /\ AmountsAreReal' /\ [Next]_vars
    BY SnapshotsPreserved, AmountsPreserved, StepRefines
  <1> QED
    BY <1>1, <1>2, PgLedgerIsSound, PTL DEF PgSpec, Spec

\* If no source is ever in flight twice, every balance is its history replayed.
THEOREM PgLedgerReconciled ==
  ASSUME SourcesAreExclusive
  PROVE  PgSpec => []Reconciled
  BY PgLedgerRefines, LedgerReconciled, PTL
=============================================================================
