--------------------------- MODULE PointLedgerProofs ---------------------------
(***************************************************************************)
(* Proofs about PointLedger for every set of callers, accounts, sources    *)
(* and integer amounts.  The properties of the ledger are inductive        *)
(* together: a posting extends one account's history by one entry and      *)
(* moves that account to where the entry ends, and nothing else touches    *)
(* either.                                                                 *)
(***************************************************************************)
EXTENDS PointLedger, TLAPS

\* What the ledger's invariants together say of a state.
LedgerInv == TypeOK /\ Solvent /\ Reconciled /\ OnePostingPerSource

-----------------------------------------------------------------------------
\* A recorded source has its entry in the account's history
\* (ledgerSourceIndex.get in appendPointLedger).
LEMMA RecordedEntryIsInLedger ==
  ASSUME TypeOK, NEW a \in Accounts, NEW s \in Sources, Recorded(a, s)
  PROVE  \E i \in 1..Len(ledger[a]) :
           RecordedEntry(a, s) = ledger[a][i] /\ ledger[a][i].source = s
  <1> DEFINE i == CHOOSE n \in 1..Len(ledger[a]) : ledger[a][n].source = s
  <1>1. i \in 1..Len(ledger[a]) /\ ledger[a][i].source = s
    BY DEF Recorded
  <1>2. RecordedEntry(a, s) = ledger[a][i]
    BY DEF RecordedEntry
  <1> QED
    BY <1>1, <1>2

\* The entry found for a recorded source is an entry.
LEMMA RecordedEntryType ==
  ASSUME TypeOK, NEW a \in Accounts, NEW s \in Sources, Recorded(a, s)
  PROVE  RecordedEntry(a, s) \in Entry
  <1>1. PICK i \in 1..Len(ledger[a]) : RecordedEntry(a, s) = ledger[a][i]
    BY RecordedEntryIsInLedger
  <1>2. ledger[a] \in Seq(Entry)
    BY DEF TypeOK
  <1> QED
    BY <1>1, <1>2

\* The only call that moves a balance or writes an entry is a posting; what
\* appendPointLedger answers otherwise leaves the store alone.
LEMMA OnlyPostMoves ==
  ASSUME NEW c, NEW a, NEW s, NEW d, AppendPointLedger(c, a, s, d), ~Post(c, a, s, d)
  PROVE  UNCHANGED <<balance, ledger>>
  BY DEF AppendPointLedger, Invalid, Replay, Refuse

\* What a posting does to the history of every account.
LEMMA PostExtends ==
  ASSUME TypeOK, NEW c \in Clients, NEW a \in Accounts, NEW s \in Sources, NEW d \in Int,
         Post(c, a, s, d)
  PROVE  /\ Len(ledger'[a]) = Len(ledger[a]) + 1
         /\ \A i \in 1..Len(ledger[a]) : ledger'[a][i] = ledger[a][i]
         /\ ledger'[a][Len(ledger[a]) + 1] =
              [source |-> s, delta |-> d, balanceAfter |-> balance[a] + d]
         /\ balance'[a] = balance[a] + d
         /\ balance[a] + d >= 0
         /\ \A b \in Accounts \ {a} : ledger'[b] = ledger[b] /\ balance'[b] = balance[b]
  <1> DEFINE e == [source |-> s, delta |-> d, balanceAfter |-> balance[a] + d]
  <1>1. ledger[a] \in Seq(Entry) /\ balance[a] \in Int
    BY DEF TypeOK
  <1>2. e \in Entry
    BY <1>1 DEF Entry
  <1>3. ledger'[a] = Append(ledger[a], e) /\ balance'[a] = balance[a] + d
    BY DEF Post, TypeOK
  <1>4. \A b \in Accounts \ {a} : ledger'[b] = ledger[b] /\ balance'[b] = balance[b]
    BY DEF Post, TypeOK
  <1>5. balance[a] + d >= 0
    BY DEF Post
  <1> QED
    BY <1>1, <1>2, <1>3, <1>4, <1>5

-----------------------------------------------------------------------------
\* A call leaves balances integers, histories sequences of entries and replies
\* well formed.
LEMMA CallKeepsTypes ==
  ASSUME TypeOK, NEW c \in Clients, NEW a \in Accounts, NEW s \in Sources, NEW d \in Int,
         AppendPointLedger(c, a, s, d)
  PROVE  TypeOK'
  <1>1. CASE Invalid(c, a, s, d)
    BY <1>1 DEF Invalid, Answer, TypeOK, Reply, Statuses
  <1>2. CASE Replay(c, a, s, d)
    <2>1. RecordedEntry(a, s) \in Entry
      BY <1>2, RecordedEntryType DEF Replay
    <2> QED
      BY <1>2, <2>1 DEF Replay, Answer, TypeOK, Reply, Statuses
  <1>3. CASE Refuse(c, a, s, d)
    BY <1>3 DEF Refuse, Answer, TypeOK, Reply, Statuses
  <1>4. CASE Post(c, a, s, d)
    <2> DEFINE e == [source |-> s, delta |-> d, balanceAfter |-> balance[a] + d]
    <2>1. balance[a] + d \in Int
      BY DEF TypeOK
    <2>2. e \in Entry
      BY <2>1 DEF Entry
    <2>3. balance' \in [Accounts -> Int]
      BY <1>4, <2>1 DEF Post, TypeOK
    <2>4. Append(ledger[a], e) \in Seq(Entry)
      BY <2>2 DEF TypeOK
    <2>5. ledger' \in [Accounts -> Seq(Entry)]
      BY <1>4, <2>4 DEF Post, TypeOK
    <2>6. reply' \in [Clients -> Reply \cup {NoReply}]
      BY <1>4, <2>2 DEF Post, Answer, TypeOK, Reply, Statuses
    <2> QED
      BY <2>3, <2>5, <2>6 DEF TypeOK
  <1> QED
    BY <1>1, <1>2, <1>3, <1>4 DEF AppendPointLedger

\* Types are invariant.
LEMMA TypePreserved ==
  ASSUME TypeOK, [Next]_vars
  PROVE  TypeOK'
  <1>1. CASE UNCHANGED vars
    BY <1>1 DEF vars, TypeOK
  <1>2. CASE Next
    BY <1>2, CallKeepsTypes, DeltasAreIntegers DEF Next
  <1> QED
    BY <1>1, <1>2

\* A call keeps the ledger's invariant, whatever the amount: only a posting
\* disturbs it, and only at the end of one account's history.
LEMMA CallKeepsInv ==
  ASSUME LedgerInv, NEW c \in Clients, NEW a \in Accounts, NEW s \in Sources, NEW d \in Int,
         AppendPointLedger(c, a, s, d)
  PROVE  LedgerInv'
  <1> USE DEF LedgerInv
  <1>1. TypeOK'
    BY CallKeepsTypes
  <1>2. CASE UNCHANGED <<balance, ledger>>
    BY <1>1, <1>2 DEF Solvent, Reconciled, BalanceBefore, OnePostingPerSource
  <1>3. CASE Post(c, a, s, d)
    <2>2. PICK n \in Nat : n = Len(ledger[a])
      BY DEF TypeOK
    <2>1. /\ Len(ledger'[a]) = n + 1
          /\ \A i \in 1..n : ledger'[a][i] = ledger[a][i]
          /\ ledger'[a][n + 1] = [source |-> s, delta |-> d, balanceAfter |-> balance[a] + d]
          /\ balance'[a] = balance[a] + d
          /\ balance[a] + d >= 0
          /\ \A b \in Accounts \ {a} : ledger'[b] = ledger[b] /\ balance'[b] = balance[b]
      BY <1>3, <2>2, PostExtends
    <2>3. Solvent'
      BY <2>1, <2>2 DEF Solvent
    <2>4. Reconciled'
      <3> SUFFICES ASSUME NEW b \in Accounts
                   PROVE  /\ \A i \in 1..Len(ledger'[b]) :
                               ledger'[b][i].balanceAfter = BalanceBefore(b, i)' + ledger'[b][i].delta
                          /\ balance'[b] = BalanceBefore(b, Len(ledger[b]) + 1)'
        BY DEF Reconciled
      <3>1. CASE b # a
        BY <2>1, <3>1 DEF Reconciled, BalanceBefore
      <3>2. CASE b = a
        <4>1. \A i \in 1..(n + 1) : BalanceBefore(a, i)' = BalanceBefore(a, i)
          <5> SUFFICES ASSUME NEW i \in 1..(n + 1), i # 1
                       PROVE  ledger'[a][i - 1].balanceAfter = ledger[a][i - 1].balanceAfter
            BY DEF BalanceBefore
          <5>1. i - 1 \in 1..n
            BY <2>2
          <5> QED
            BY <2>1, <5>1
        <4>2. balance[a] = BalanceBefore(a, n + 1)
          BY <2>2 DEF Reconciled
        <4>3. \A i \in 1..n :
                ledger'[a][i].balanceAfter = BalanceBefore(a, i)' + ledger'[a][i].delta
          BY <2>1, <2>2, <4>1 DEF Reconciled
        <4>4. ledger'[a][n + 1].balanceAfter = BalanceBefore(a, n + 1)' + ledger'[a][n + 1].delta
          BY <2>1, <2>2, <4>1, <4>2
        <4>5. balance'[a] = BalanceBefore(a, Len(ledger[a]) + 1)'
          BY <2>1, <2>2 DEF BalanceBefore
        <4>6. \A i \in 1..Len(ledger'[a]) :
                ledger'[a][i].balanceAfter = BalanceBefore(a, i)' + ledger'[a][i].delta
          <5> SUFFICES ASSUME NEW i \in 1..Len(ledger'[a])
                       PROVE  ledger'[a][i].balanceAfter = BalanceBefore(a, i)' + ledger'[a][i].delta
            OBVIOUS
          <5>1. i \in 1..n \/ i = n + 1
            BY <2>1, <2>2
          <5> QED
            BY <4>3, <4>4, <5>1
        <4> QED
          BY <3>2, <4>5, <4>6
      <3> QED
        BY <3>1, <3>2
    <2>5. OnePostingPerSource'
      <3>1. \A i \in 1..n : ledger[a][i].source # s
        BY <1>3, <2>2 DEF Post, Recorded
      <3> SUFFICES ASSUME NEW b \in Accounts,
                          NEW i \in 1..Len(ledger'[b]), NEW j \in 1..Len(ledger'[b]),
                          ledger'[b][i].source = ledger'[b][j].source
                   PROVE  i = j
        BY DEF OnePostingPerSource
      <3>2. CASE b # a
        BY <2>1, <3>2 DEF OnePostingPerSource
      <3>3. CASE b = a
        <4>1. (i \in 1..n \/ i = n + 1) /\ (j \in 1..n \/ j = n + 1)
          BY <2>1, <2>2, <3>3
        <4>2. \A k \in 1..n : ledger'[a][k].source = ledger[a][k].source
          BY <2>1
        <4>3. ledger'[a][n + 1].source = s
          BY <2>1
        <4> QED
          BY <2>2, <3>1, <3>3, <4>1, <4>2, <4>3 DEF OnePostingPerSource
      <3> QED
        BY <3>2, <3>3
    <2> QED
      BY <1>1, <2>3, <2>4, <2>5
  <1> QED
    BY <1>2, <1>3, OnlyPostMoves

\* The ledger's invariant is inductive.
LEMMA InvPreserved ==
  ASSUME LedgerInv, [Next]_vars
  PROVE  LedgerInv'
  <1>1. CASE UNCHANGED vars
    BY <1>1 DEF vars, LedgerInv, TypeOK, Solvent, Reconciled, BalanceBefore, OnePostingPerSource
  <1>2. CASE Next
    BY <1>2, CallKeepsInv, DeltasAreIntegers DEF Next
  <1> QED
    BY <1>1, <1>2

-----------------------------------------------------------------------------
(* What a caller of appendPointLedger may rely on, whatever amount it posts. *)

\* A recorded entry has its source.
LEMMA RecordedEntryHasSource ==
  ASSUME LedgerInv, NEW a \in Accounts, NEW s \in Sources, Recorded(a, s)
  PROVE  RecordedEntry(a, s) \in Entry /\ RecordedEntry(a, s).source = s
  <1>1. PICK i \in 1..Len(ledger[a]) :
          RecordedEntry(a, s) = ledger[a][i] /\ ledger[a][i].source = s
    BY RecordedEntryIsInLedger DEF LedgerInv
  <1>2. RecordedEntry(a, s) \in Entry
    BY RecordedEntryType DEF LedgerInv
  <1> QED
    BY <1>1, <1>2

\* No call takes back or changes what is recorded.
LEMMA RecordsStay ==
  ASSUME LedgerInv, NEW c \in Clients, NEW a \in Accounts, NEW s \in Sources, NEW d \in Int,
         AppendPointLedger(c, a, s, d),
         NEW b \in Accounts, NEW x \in Sources, Recorded(b, x)
  PROVE  Recorded(b, x)' /\ RecordedEntry(b, x)' = RecordedEntry(b, x)
  <1>1. CASE UNCHANGED <<balance, ledger>>
    BY <1>1 DEF Recorded, RecordedEntry
  <1>2. CASE Post(c, a, s, d)
    <2>1. PICK i \in 1..Len(ledger[b]) :
            RecordedEntry(b, x) = ledger[b][i] /\ ledger[b][i].source = x
      BY RecordedEntryIsInLedger DEF LedgerInv
    <2>2. i \in 1..Len(ledger'[b]) /\ ledger'[b][i] = ledger[b][i]
      <3>1. Len(ledger[b]) \in Nat
        BY DEF LedgerInv, TypeOK
      <3>2. /\ Len(ledger'[a]) = Len(ledger[a]) + 1
            /\ \A k \in 1..Len(ledger[a]) : ledger'[a][k] = ledger[a][k]
            /\ \A y \in Accounts \ {a} : ledger'[y] = ledger[y]
        BY <1>2, PostExtends DEF LedgerInv
      <3>3. CASE b = a
        BY <2>1, <3>1, <3>2, <3>3
      <3>4. CASE b # a
        BY <2>1, <3>1, <3>2, <3>4
      <3> QED
        BY <3>3, <3>4
    <2>3. LedgerInv'
      BY CallKeepsInv
    <2>4. Recorded(b, x)' /\ RecordedEntry(b, x)' = ledger'[b][i]
      <3>1. ledger'[b][i].source = x
        BY <2>1, <2>2
      <3>2. LedgerInv' => /\ \E n \in 1..Len(ledger'[b]) : ledger'[b][n].source = x
                          /\ \A n \in 1..Len(ledger'[b]) : ledger'[b][n].source = x => n = i
        BY <2>2, <3>1 DEF LedgerInv, OnePostingPerSource
      <3>3. Recorded(b, x)'
        BY <2>3, <3>2 DEF Recorded
      <3>4. (CHOOSE n \in 1..Len(ledger'[b]) : ledger'[b][n].source = x) = i
        BY <2>3, <3>2
      <3>5. RecordedEntry(b, x)' = ledger'[b][i]
        BY <3>4 DEF RecordedEntry
      <3> QED
        BY <2>1, <2>2, <3>3, <3>5
    <2> QED
      BY <2>1, <2>2, <2>4
  <1> QED
    BY <1>1, <1>2, OnlyPostMoves

\* A call records nothing but its own source on its own account, with its amount.
LEMMA OnlyItsOwnRecord ==
  ASSUME LedgerInv, NEW c \in Clients, NEW a \in Accounts, NEW s \in Sources, NEW d \in Int,
         AppendPointLedger(c, a, s, d),
         NEW b \in Accounts, NEW x \in Sources, Recorded(b, x)', ~Recorded(b, x)
  PROVE  b = a /\ x = s /\ RecordedEntry(b, x)'.delta = d
  <1>1. CASE UNCHANGED <<balance, ledger>>
    BY <1>1 DEF Recorded
  <1>2. CASE Post(c, a, s, d)
    <2>1. PICK n \in Nat : n = Len(ledger[a])
      BY DEF LedgerInv, TypeOK
    <2>2. /\ Len(ledger'[a]) = n + 1
          /\ \A i \in 1..n : ledger'[a][i] = ledger[a][i]
          /\ ledger'[a][n + 1] = [source |-> s, delta |-> d, balanceAfter |-> balance[a] + d]
          /\ \A y \in Accounts \ {a} : ledger'[y] = ledger[y]
      BY <1>2, <2>1, PostExtends DEF LedgerInv
    <2>3. b = a
      BY <2>2 DEF Recorded
    <2>4. \A i \in 1..(n + 1) : ledger'[a][i].source = x => i = n + 1
      BY <2>1, <2>2, <2>3 DEF Recorded
    <2>5. x = s
      BY <2>1, <2>2, <2>3, <2>4 DEF Recorded
    <2>6. (CHOOSE i \in 1..Len(ledger'[a]) : ledger'[a][i].source = x) = n + 1
      BY <2>2, <2>4, <2>5
    <2>7. RecordedEntry(a, x)' = ledger'[a][n + 1]
      BY <2>6 DEF RecordedEntry
    <2> QED
      BY <2>2, <2>3, <2>5, <2>7
  <1> QED
    BY <1>1, <1>2, OnlyPostMoves

\* A call that succeeds has its source recorded, and hands out its entry.
LEMMA OkIsRecorded ==
  ASSUME LedgerInv, NEW c \in Clients, NEW a \in Accounts, NEW s \in Sources, NEW d \in Int,
         AppendPointLedger(c, a, s, d), reply'[c].status = "ok"
  PROVE  /\ Recorded(a, s)'
         /\ reply'[c].entry = RecordedEntry(a, s)'
         /\ reply'[c].source = s
         /\ reply'[c] \in Reply /\ reply'[c].entry \in Entry
  <1>1. LedgerInv'
    BY CallKeepsInv
  <1>2. CASE Invalid(c, a, s, d) \/ Refuse(c, a, s, d)
    BY <1>2 DEF Invalid, Refuse, Answer, LedgerInv, TypeOK
  <1>3. CASE Replay(c, a, s, d)
    <2>1. /\ Recorded(a, s)
          /\ reply'[c] = [status |-> "ok", account |-> a, source |-> s, entry |-> RecordedEntry(a, s)]
      BY <1>3 DEF Replay, Answer, LedgerInv, TypeOK
    <2>2. RecordedEntry(a, s) \in Entry
      BY <2>1, RecordedEntryType DEF LedgerInv
    <2>3. Recorded(a, s)' /\ RecordedEntry(a, s)' = RecordedEntry(a, s)
      BY <2>1, RecordsStay
    <2> QED
      BY <2>1, <2>2, <2>3 DEF Reply, Statuses
  <1>4. CASE Post(c, a, s, d)
    <2> DEFINE e == [source |-> s, delta |-> d, balanceAfter |-> balance[a] + d]
    <2>1. reply'[c] = [status |-> "ok", account |-> a, source |-> s, entry |-> e]
      BY <1>4 DEF Post, Answer, LedgerInv, TypeOK
    <2>2. PICK n \in Nat : n = Len(ledger[a])
      BY DEF LedgerInv, TypeOK
    <2>3. Len(ledger'[a]) = n + 1 /\ ledger'[a][n + 1] = e
      BY <1>4, <2>2, PostExtends DEF LedgerInv
    <2>4. n + 1 \in 1..Len(ledger'[a]) /\ ledger'[a][n + 1].source = s
      BY <2>2, <2>3
    <2>5. Recorded(a, s)'
      BY <2>4 DEF Recorded
    <2>6. \A i \in 1..Len(ledger'[a]) : ledger'[a][i].source = s => i = n + 1
      BY <1>1, <2>4 DEF LedgerInv, OnePostingPerSource
    <2>7. (CHOOSE i \in 1..Len(ledger'[a]) : ledger'[a][i].source = s) = n + 1
      BY <2>4, <2>6
    <2>8. RecordedEntry(a, s)' = e
      BY <2>3, <2>7 DEF RecordedEntry
    <2>9. e \in Entry
      BY DEF Entry, LedgerInv, TypeOK
    <2> QED
      BY <2>1, <2>5, <2>8, <2>9 DEF Reply, Statuses
  <1> QED
    BY <1>2, <1>3, <1>4 DEF AppendPointLedger

\* A call that writes has succeeded.
LEMMA WrittenIsOk ==
  ASSUME TypeOK, NEW c \in Clients, NEW a, NEW s, NEW d, AppendPointLedger(c, a, s, d),
         ~UNCHANGED <<balance, ledger>>
  PROVE  reply'[c].status = "ok"
  <1>1. Post(c, a, s, d)
    BY OnlyPostMoves
  <1> QED
    BY <1>1 DEF Post, Answer, TypeOK

\* A call answers its caller and nobody else.
LEMMA OthersKeepReplies ==
  ASSUME NEW c, NEW a, NEW s, NEW d, AppendPointLedger(c, a, s, d), TypeOK,
         NEW x \in Clients, x # c
  PROVE  reply'[x] = reply[x]
  BY DEF AppendPointLedger, Invalid, Replay, Refuse, Post, Answer, TypeOK

\* What is recorded depends on the ledger alone.
LEMMA SameLedgerSameRecords ==
  ASSUME UNCHANGED ledger, NEW a, NEW s
  PROVE  Recorded(a, s)' = Recorded(a, s) /\ RecordedEntry(a, s)' = RecordedEntry(a, s)
  BY DEF Recorded, RecordedEntry

LEMMA InvInitial ==
  ASSUME Init
  PROVE  LedgerInv
  BY DEF Init, LedgerInv, TypeOK, Solvent, Reconciled, BalanceBefore, OnePostingPerSource

-----------------------------------------------------------------------------
\* In every behaviour of the ledger, for any callers and amounts: types hold,
\* no account is overdrawn, every balance is its history replayed and no
\* source is posted twice.
THEOREM LedgerIsSound == Spec => []LedgerInv
  <1>1. Init => LedgerInv
    BY InvInitial
  <1>2. LedgerInv /\ [Next]_vars => LedgerInv'
    BY InvPreserved
  <1> QED
    BY <1>1, <1>2, PTL DEF Spec

\* Type correctness of the ledger.
THEOREM LedgerTypeCorrect == Spec => []TypeOK
  <1>1. LedgerInv => TypeOK
    BY DEF LedgerInv
  <1> QED
    BY <1>1, LedgerIsSound, PTL

\* No account is overdrawn, now or at any point of its history.
THEOREM LedgerSolvent == Spec => []Solvent
  <1>1. LedgerInv => Solvent
    BY DEF LedgerInv
  <1> QED
    BY <1>1, LedgerIsSound, PTL

\* Every balance is its account's history replayed.
THEOREM LedgerReconciled == Spec => []Reconciled
  <1>1. LedgerInv => Reconciled
    BY DEF LedgerInv
  <1> QED
    BY <1>1, LedgerIsSound, PTL

\* A source moves an account at most once.
THEOREM LedgerPostsOnce == Spec => []OnePostingPerSource
  <1>1. LedgerInv => OnePostingPerSource
    BY DEF LedgerInv
  <1> QED
    BY <1>1, LedgerIsSound, PTL

-----------------------------------------------------------------------------
\* One call's effect on the history of every account: nothing is lost from it,
\* and a balance moves only with a new entry.
LEMMA StepExtendsHistory ==
  ASSUME TypeOK, Next
  PROVE  \A a \in Accounts :
           /\ Len(ledger'[a]) >= Len(ledger[a])
           /\ \A i \in 1..Len(ledger[a]) : ledger'[a][i] = ledger[a][i]
           /\ balance'[a] # balance[a] => Len(ledger'[a]) > Len(ledger[a])
  <1>1. \A a \in Accounts : Len(ledger[a]) \in Nat
    BY DEF TypeOK
  <1>2. CASE UNCHANGED <<balance, ledger>>
    BY <1>1, <1>2
  <1>3. ASSUME NEW c \in Clients, NEW a \in Accounts, NEW s \in Sources, NEW d \in Deltas,
               Post(c, a, s, d)
        PROVE  \A b \in Accounts :
                 /\ Len(ledger'[b]) >= Len(ledger[b])
                 /\ \A i \in 1..Len(ledger[b]) : ledger'[b][i] = ledger[b][i]
                 /\ balance'[b] # balance[b] => Len(ledger'[b]) > Len(ledger[b])
    <2> SUFFICES ASSUME NEW b \in Accounts
                 PROVE  /\ Len(ledger'[b]) >= Len(ledger[b])
                        /\ \A i \in 1..Len(ledger[b]) : ledger'[b][i] = ledger[b][i]
                        /\ balance'[b] # balance[b] => Len(ledger'[b]) > Len(ledger[b])
      OBVIOUS
    <2>1. /\ Len(ledger'[a]) = Len(ledger[a]) + 1
          /\ \A i \in 1..Len(ledger[a]) : ledger'[a][i] = ledger[a][i]
          /\ \A x \in Accounts \ {a} : ledger'[x] = ledger[x] /\ balance'[x] = balance[x]
      BY <1>3, DeltasAreIntegers, PostExtends
    <2>2. CASE b = a
      BY <1>1, <2>1, <2>2
    <2>3. CASE b # a
      BY <1>1, <2>1, <2>3
    <2> QED
      BY <2>2, <2>3
  <1> QED
    BY <1>2, <1>3, OnlyPostMoves DEF Next

\* An entry in an account's history is still in it after any call.
LEMMA EntriesStay ==
  ASSUME TypeOK, Next, NEW a \in Accounts, NEW e,
         \E i \in 1..Len(ledger[a]) : ledger[a][i] = e
  PROVE  \E i \in 1..Len(ledger'[a]) : ledger'[a][i] = e
  <1>1. PICK i \in 1..Len(ledger[a]) : ledger[a][i] = e
    OBVIOUS
  <1>2. Len(ledger'[a]) >= Len(ledger[a]) /\ ledger'[a][i] = ledger[a][i]
    BY StepExtendsHistory
  <1>3. Len(ledger'[a]) \in Nat /\ Len(ledger[a]) \in Nat
    BY TypePreserved DEF TypeOK
  <1>4. i \in 1..Len(ledger'[a])
    BY <1>2, <1>3
  <1> QED
    BY <1>1, <1>2, <1>4

\* The receipt a call hands out is in the ledger when it is handed out.
LEMMA AnswerIsRecorded ==
  ASSUME TypeOK, NEW c \in Clients, NEW a \in Accounts, NEW s \in Sources, NEW d \in Int,
         AppendPointLedger(c, a, s, d), reply'[c].entry # NoEntry
  PROVE  /\ reply'[c].account = a
         /\ \E i \in 1..Len(ledger'[a]) : ledger'[a][i] = reply'[c].entry
  <1>1. CASE Invalid(c, a, s, d) \/ Refuse(c, a, s, d)
    BY <1>1 DEF Invalid, Refuse, Answer, TypeOK
  <1>2. CASE Replay(c, a, s, d)
    <2>1. PICK i \in 1..Len(ledger[a]) : RecordedEntry(a, s) = ledger[a][i]
      BY <1>2, RecordedEntryIsInLedger DEF Replay
    <2>2. /\ ledger' = ledger
          /\ reply'[c].account = a
          /\ reply'[c].entry = RecordedEntry(a, s)
      BY <1>2 DEF Replay, Answer, TypeOK
    <2> QED
      BY <2>1, <2>2
  <1>3. CASE Post(c, a, s, d)
    <2>1. PICK n \in Nat : n = Len(ledger[a])
      BY DEF TypeOK
    <2>2. /\ Len(ledger'[a]) = n + 1
          /\ ledger'[a][n + 1] = [source |-> s, delta |-> d, balanceAfter |-> balance[a] + d]
      BY <1>3, <2>1, PostExtends
    <2>3. /\ reply'[c].account = a
          /\ reply'[c].entry = [source |-> s, delta |-> d, balanceAfter |-> balance[a] + d]
      BY <1>3 DEF Post, Answer, TypeOK
    <2>4. n + 1 \in 1..Len(ledger'[a])
      BY <2>2
    <2> QED
      BY <2>2, <2>3, <2>4
  <1> QED
    BY <1>1, <1>2, <1>3 DEF AppendPointLedger

\* A caller's receipt survives every later call, its own replaced receipts aside.
LEMMA ReceiptsPreserved ==
  ASSUME TypeOK, ReceiptsAreHonoured, [Next]_vars
  PROVE  ReceiptsAreHonoured'
  <1>1. CASE UNCHANGED vars
    BY <1>1 DEF vars, ReceiptsAreHonoured
  <1>2. ASSUME NEW c \in Clients, NEW a \in Accounts, NEW s \in Sources, NEW d \in Deltas,
               AppendPointLedger(c, a, s, d)
        PROVE  ReceiptsAreHonoured'
    <2> SUFFICES ASSUME NEW x \in Clients, reply'[x] # NoReply, reply'[x].entry # NoEntry
                 PROVE  \E i \in 1..Len(ledger'[reply'[x].account]) :
                          ledger'[reply'[x].account][i] = reply'[x].entry
      BY DEF ReceiptsAreHonoured
    <2>1. CASE x = c
      BY <1>2, <2>1, DeltasAreIntegers, AnswerIsRecorded
    <2>2. CASE x # c
      <3>1. reply'[x] = reply[x]
        BY <1>2, <2>2 DEF AppendPointLedger, Invalid, Replay, Refuse, Post, Answer, TypeOK
      <3>2. reply[x].account \in Accounts
        BY <3>1 DEF TypeOK, Reply
      <3>3. \E i \in 1..Len(ledger[reply[x].account]) :
              ledger[reply[x].account][i] = reply[x].entry
        BY <3>1 DEF ReceiptsAreHonoured
      <3>4. Next
        BY <1>2 DEF Next
      <3>5. PICK b \in Accounts : b = reply[x].account
        BY <3>2
      <3>6. PICK e : e = reply[x].entry
        OBVIOUS
      <3>7. \E i \in 1..Len(ledger'[b]) : ledger'[b][i] = e
        BY <3>3, <3>4, <3>5, <3>6, EntriesStay
      <3> QED
        BY <3>1, <3>5, <3>6, <3>7
    <2> QED
      BY <2>1, <2>2
  <1> QED
    BY <1>1, <1>2 DEF Next

\* An entry a caller was handed is in the ledger for good.
THEOREM LedgerHonoursReceipts == Spec => []ReceiptsAreHonoured
  <1>1. Init => ReceiptsAreHonoured
    BY DEF Init, ReceiptsAreHonoured
  <1>2. TypeOK /\ ReceiptsAreHonoured /\ [Next]_vars => ReceiptsAreHonoured'
    BY ReceiptsPreserved
  <1> QED
    BY <1>1, <1>2, LedgerTypeCorrect, PTL DEF Spec

\* History is only extended, and no balance moves without an entry.
THEOREM LedgerAppendOnly == Spec => HistoryIsAppendOnly
  <1>1. TypeOK /\ [Next]_vars =>
          [\A a \in Accounts :
             /\ Len(ledger'[a]) >= Len(ledger[a])
             /\ \A i \in 1..Len(ledger[a]) : ledger'[a][i] = ledger[a][i]
             /\ balance'[a] # balance[a] => Len(ledger'[a]) > Len(ledger[a])]_vars
    BY StepExtendsHistory
  <1> QED
    BY <1>1, LedgerTypeCorrect, PTL DEF Spec, HistoryIsAppendOnly
=============================================================================
