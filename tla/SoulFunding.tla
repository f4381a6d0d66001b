------------------------------- MODULE SoulFunding -------------------------------
(***************************************************************************)
(* Soul proposals and their crowd-funding: createSoulProposal and          *)
(* contributeToSoulProposal of the Postgres store.  A contribution is a    *)
(* lookup of its row, a debit, the row and the proposal's counter, one     *)
(* statement each.                                                         *)
(***************************************************************************)
EXTENDS RequestHandlers

CONSTANTS
  Proposals,
  Threshold,         \* attention_threshold of each proposal, from its quote
  Contributions      \* orders: [account, proposal, key, amount]

ASSUME ThresholdType == Threshold \in [Proposals -> Nat \ {0}]

VARIABLES
  proposals,       \* soul_proposals: status and contributed_attention
  contributions    \* soul_contributions: the rows, each with its ledger entry

fundingVars == <<proposals, contributions>>

FundingTypeOK ==
  /\ proposals \in [Proposals -> [status : {"none", "funding", "ready_to_birth"},
                                  contributed : Nat]]
  /\ \A row \in contributions : row.order \in Contributions /\ row.entry \in Entry

FundingInit ==
  /\ proposals = [p \in Proposals |-> [status |-> "none", contributed |-> 0]]
  /\ contributions = {}

ContributionSource(o) == <<"soul_contribution", o.key>>

ASSUME ContributionTypes ==
  \A o \in Contributions :
    /\ o.account \in Accounts /\ o.proposal \in Proposals /\ o.amount \in Nat \ {0}
    /\ ContributionSource(o) \in Sources

RowsOf(p) == {row \in contributions : row.order.proposal = p}

\* The unique index on (proposal_id, city_user_id, idempotency_key).
SameRow(row, o) ==
  /\ row.order.proposal = o.proposal
  /\ row.order.account = o.account
  /\ row.order.key = o.key

HasRow(o) == \E row \in contributions : SameRow(row, o)

CreateSoulProposal(p) ==
  /\ proposals[p].status = "none"
  /\ proposals' = [proposals EXCEPT ![p].status = "funding"]
  /\ UNCHANGED <<ledgerVars, handlerVars, contributions>>

\* A row stored under the key answers the request; no proposal, no request.
Contribute(h, o) ==
  /\ proposals[o.proposal].status \in {"funding", "ready_to_birth"}
  /\ ~HasRow(o)
  /\ Enter(h, "contribute_debit", o, o.amount)
  /\ UNCHANGED <<ledgerVars, fundingVars>>

ContributionDebit(h) ==
  /\ IsAt(h, "contribute_debit")
  /\ PostThen(h, "contribute_record", OrderOf(h).account, ContributionSource(OrderOf(h)),
              -OrderOf(h).amount)
  /\ UNCHANGED <<crashes, fundingVars>>

\* Slip: the debit is trusted and the row left to a later job.
RecordNothing(h) ==
  /\ IsAt(h, "contribute_record")
  /\ GoTo(h, "contribute_count")
  /\ UNCHANGED <<ledgerVars, crashes, fundingVars>>

\* INSERT ... ON CONFLICT keeps the row that is there.
RecordContribution(h) ==
  /\ IsAt(h, "contribute_record")
  /\ contributions' = IF HasRow(OrderOf(h)) THEN contributions
                      ELSE contributions \cup {[order |-> OrderOf(h), entry |-> reply[h].entry]}
  /\ GoTo(h, "contribute_count")
  /\ UNCHANGED <<ledgerVars, crashes, proposals>>

Funded(p, n) ==
  [status |-> IF n >= Threshold[p] /\ proposals[p].status = "funding"
              THEN "ready_to_birth" ELSE proposals[p].status,
   contributed |-> n]

\* Slip: the status is decided on the counter before this contribution.
CountLate(h) ==
  LET p == OrderOf(h).proposal
      n == proposals[p].contributed
  IN  /\ IsAt(h, "contribute_count")
      /\ proposals' = [proposals EXCEPT ![p] =
                         [Funded(p, n) EXCEPT !.contributed = n + OrderOf(h).amount]]
      /\ Leave(h)
      /\ UNCHANGED <<ledgerVars, crashes, contributions>>

\* Slip: the counter is set, not raised.
CountOverwriting(h) ==
  LET p == OrderOf(h).proposal
  IN  /\ IsAt(h, "contribute_count")
      /\ proposals' = [proposals EXCEPT ![p] = Funded(p, OrderOf(h).amount)]
      /\ Leave(h)
      /\ UNCHANGED <<ledgerVars, crashes, contributions>>

\* One UPDATE raises the counter and decides the status on the row as it is.
CountContribution(h) ==
  LET p == OrderOf(h).proposal
  IN  /\ IsAt(h, "contribute_count")
      /\ proposals' = [proposals EXCEPT ![p] =
                         Funded(p, proposals[p].contributed + OrderOf(h).amount)]
      /\ Leave(h)
      /\ UNCHANGED <<ledgerVars, crashes, contributions>>

RunContribution(h) == ContributionDebit(h) \/ RecordContribution(h) \/ CountContribution(h)

-----------------------------------------------------------------------------
\* Contributions of a proposal whose row is stored or about to be, not counted yet.
Uncounted(p) ==
  {h \in Handlers : IsAt(h, "contribute_count") /\ OrderOf(h).proposal = p}

\* What the rows of a proposal were debited, and what is stored but not counted.
Backing(p) == SumFunction([row \in RowsOf(p) |-> -row.entry.delta])

Pending(p) == SumFunction([h \in Uncounted(p) |-> OrderOf(h).amount])

\* The counter a resident is born on is backed by contributions that were paid
\* for: what it counts, with what is about to be counted, is the sum of the rows'
\* debits.  Only a crash between the row and the counter can leave it short:
\* "AP is debited immediately", "Proposal total updates transactionally"
\* (spec/06).
FundingIsBacked ==
  \A p \in Proposals :
    /\ proposals[p].contributed + Pending(p) <= Backing(p)
    /\ crashes = 0 => proposals[p].contributed + Pending(p) = Backing(p)

\* A proposal is ready exactly when the counted contributions reach its
\* threshold, whatever the order in which concurrent contributions land.
ReadyExactlyAtThreshold ==
  \A p \in Proposals :
    proposals[p].status # "none" =>
      (proposals[p].status = "ready_to_birth" <=> proposals[p].contributed >= Threshold[p])
=============================================================================
