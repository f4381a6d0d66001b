------------------------------ MODULE PointLedger ------------------------------
(***************************************************************************)
(* The city's point ledger: what CityStore.appendPointLedger promises, and *)
(* what InMemoryCityStore does (city/memory-store.ts).  The method has no  *)
(* await, so a call is one step.  An account is a (city user, resource)    *)
(* pair; a source is the (sourceType, sourceId) pair a posting is          *)
(* idempotent on.  The global list of entries and the index on sources     *)
(* are abstracted to one sequence of entries per account.                  *)
(***************************************************************************)
EXTENDS Integers, Sequences

CONSTANTS
  Clients,    \* concurrent callers of the store
  Accounts,   \* (city user, AP or GP) pairs
  Sources,    \* (sourceType, sourceId) pairs
  Deltas,     \* the amounts callers post; zero is refused
  NoEntry,    \* a reply without an entry
  NoReply     \* a client that has not called yet

Entry == [source : Sources, delta : Int, balanceAfter : Int]

Statuses == {"ok", "insufficient", "invalid"}

Reply == [status : Statuses, account : Accounts, source : Sources,
          entry : Entry \cup {NoEntry}]

ASSUME DeltasAreIntegers == Deltas \subseteq Int

ASSUME MarkersAreNotData == NoEntry \notin Entry /\ NoReply \notin Reply

VARIABLES
  balance,    \* point_accounts: balance of each account
  ledger,     \* point_ledger_entries: the entries of each account, oldest first
  reply       \* what each client's last call returned or threw

vars == <<balance, ledger, reply>>

TypeOK ==
  /\ balance \in [Accounts -> Int]
  /\ ledger \in [Accounts -> Seq(Entry)]
  /\ reply \in [Clients -> Reply \cup {NoReply}]

-----------------------------------------------------------------------------
Init ==
  /\ balance = [a \in Accounts |-> 0]
  /\ ledger = [a \in Accounts |-> << >>]
  /\ reply = [c \in Clients |-> NoReply]

Recorded(a, s) == \E i \in 1..Len(ledger[a]) : ledger[a][i].source = s

RecordedEntry(a, s) ==
  LET i == CHOOSE n \in 1..Len(ledger[a]) : ledger[a][n].source = s
  IN  ledger[a][i]

Answer(c, status, a, s, e) ==
  reply' = [reply EXCEPT ![c] =
              [status |-> status, account |-> a, source |-> s, entry |-> e]]

-----------------------------------------------------------------------------
\* A zero delta is refused before the ledger is looked at.
Invalid(c, a, s, d) ==
  /\ d = 0
  /\ Answer(c, "invalid", a, s, NoEntry)
  /\ UNCHANGED <<balance, ledger>>

\* A source already posted to the account returns its entry unchanged.
Replay(c, a, s, d) ==
  /\ d # 0
  /\ Recorded(a, s)
  /\ Answer(c, "ok", a, s, RecordedEntry(a, s))
  /\ UNCHANGED <<balance, ledger>>

Refuse(c, a, s, d) ==
  /\ d # 0
  /\ ~Recorded(a, s)
  /\ balance[a] + d < 0
  /\ Answer(c, "insufficient", a, s, NoEntry)
  /\ UNCHANGED <<balance, ledger>>

Post(c, a, s, d) ==
  LET e == [source |-> s, delta |-> d, balanceAfter |-> balance[a] + d]
  IN  /\ d # 0
      /\ ~Recorded(a, s)
      /\ balance[a] + d >= 0
      /\ balance' = [balance EXCEPT ![a] = balance[a] + d]
      /\ ledger' = [ledger EXCEPT ![a] = Append(ledger[a], e)]
      /\ Answer(c, "ok", a, s, e)

AppendPointLedger(c, a, s, d) ==
  \/ Invalid(c, a, s, d)
  \/ Replay(c, a, s, d)
  \/ Refuse(c, a, s, d)
  \/ Post(c, a, s, d)

Next ==
  \E c \in Clients, a \in Accounts, s \in Sources, d \in Deltas :
    AppendPointLedger(c, a, s, d)

Spec == Init /\ [][Next]_vars

-----------------------------------------------------------------------------
\* The balance an account had before its i-th entry.
BalanceBefore(a, i) == IF i = 1 THEN 0 ELSE ledger[a][i - 1].balanceAfter

\* No account is ever overdrawn, now or at any point of its history: the
\* "Insufficient balance" refusal comes before the account moves.
Solvent ==
  \A a \in Accounts :
    /\ balance[a] >= 0
    /\ \A i \in 1..Len(ledger[a]) : ledger[a][i].balanceAfter >= 0

\* The balance is the history replayed: every entry starts where the one
\* before it ended, and the account stands where its last entry ended.  The
\* account and the list of entries are two writes of appendPointLedger.
Reconciled ==
  \A a \in Accounts :
    /\ \A i \in 1..Len(ledger[a]) :
         ledger[a][i].balanceAfter = BalanceBefore(a, i) + ledger[a][i].delta
    /\ balance[a] = BalanceBefore(a, Len(ledger[a]) + 1)

\* A source moves an account at most once, however often it is retried
\* (existing-source lookup; UNIQUE(city_user_id, resource, source_type, source_id)).
OnePostingPerSource ==
  \A a \in Accounts : \A i, j \in 1..Len(ledger[a]) :
    ledger[a][i].source = ledger[a][j].source => i = j

\* An entry a caller was handed is in the ledger for good: callers store its
\* id (gpLedgerEntryId, standinLedgerEntryId) and act on it later.
ReceiptsAreHonoured ==
  \A c \in Clients :
    reply[c] # NoReply /\ reply[c].entry # NoEntry =>
      \E i \in 1..Len(ledger[reply[c].account]) :
        ledger[reply[c].account][i] = reply[c].entry

\* History is only ever extended: no step rewrites, reorders or drops an entry,
\* and no balance moves without a new entry on its account.
HistoryIsAppendOnly ==
  [][\A a \in Accounts :
       /\ Len(ledger'[a]) >= Len(ledger[a])
       /\ \A i \in 1..Len(ledger[a]) : ledger'[a][i] = ledger[a][i]
       /\ balance'[a] # balance[a] => Len(ledger'[a]) > Len(ledger[a])]_vars

=============================================================================
