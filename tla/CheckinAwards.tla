------------------------------ MODULE CheckinAwards ------------------------------
(***************************************************************************)
(* Points for check-ins: syncLandingCheckins (city/checkins.ts) awards the *)
(* check-ins landing lists for the user.  Each is a posting under its own  *)
(* source and an audit row, two store calls; a later sync repeats both.    *)
(***************************************************************************)
EXTENDS RequestHandlers

CONSTANTS
  Checkins,     \* sources <<kind, id>> of landing's check-ins
  Award,        \* the points of each: 100 for a daily one, 500 for an event
  Syncs         \* orders of callers; their sets are filled from landing

ASSUME AwardType == Award \in [Checkins -> Nat \ {0}]

\* A sync of an account: the check-ins landing listed and those still to do.
SyncOrder == [account : Accounts, listed : SUBSET Checkins, todo : SUBSET Checkins]

ASSUME CheckinTypes == Checkins \subseteq Sources /\ Syncs \subseteq SyncOrder

VARIABLES
  attended,    \* landing's check-ins of the user
  audited      \* checkin_award_sources: rows [checkin, entry]

awardVars == <<attended, audited>>

AwardsTypeOK ==
  /\ attended \subseteq Checkins
  /\ \A row \in audited : row.checkin \in Checkins /\ row.entry \in Entry

AwardsInit == attended = {} /\ audited = {}

\* The attendee checks in on landing.
CheckIn(k) ==
  /\ k \notin attended
  /\ attended' = attended \cup {k}
  /\ UNCHANGED <<ledgerVars, handlerVars, audited>>

Todo(h) == OrderOf(h).todo

\* Slip: a check-in that has its points is not looked at again.
SyncNewOnly(h, o) ==
  LET new == {k \in attended : ~Recorded(o.account, k)}
  IN  /\ new # {}
      /\ Enter(h, "award", [o EXCEPT !.listed = attended, !.todo = new], 0)
      /\ UNCHANGED <<ledgerVars, awardVars>>

SyncLandingCheckins(h, o) ==
  /\ attended # {}
  /\ Enter(h, "award", [o EXCEPT !.listed = attended, !.todo = attended], 0)
  /\ UNCHANGED <<ledgerVars, awardVars>>

\* Awards are only ever credits, so none is refused.  Landing sorts the
\* check-ins by date; any order is taken here.
AwardCheckin(h) ==
  \E k \in Checkins :
    /\ IsAt(h, "award")
    /\ k \in Todo(h)
    /\ PostThen(h, "audit", OrderOf(h).account, k, Award[k])
    /\ UNCHANGED <<crashes, awardVars>>

AuditRows(k, e) ==
  IF \E row \in audited : row.checkin = k THEN audited
  ELSE audited \cup {[checkin |-> k, entry |-> e]}

NextCheckin(h, k) ==
  handlers' = [handlers EXCEPT ![h] =
                 IF Todo(h) = {k} THEN Idle
                 ELSE [pc |-> "award", order |-> [OrderOf(h) EXCEPT !.todo = @ \ {k}], amount |-> 0]]

\* recordCheckinAwardSource keeps the row that is there.
RecordAward(h) ==
  LET k == reply[h].source
  IN  /\ IsAt(h, "audit")
      /\ audited' = AuditRows(k, reply[h].entry)
      /\ NextCheckin(h, k)
      /\ UNCHANGED <<ledgerVars, crashes, attended>>

RunSync(h) == AwardCheckin(h) \/ RecordAward(h)
=============================================================================
