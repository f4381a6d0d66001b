------------------------------- MODULE OnionGrant -------------------------------
(***************************************************************************)
(* Supporting a resident with onions (attention-grant.ts, routes.ts).      *)
(*                                                                         *)
(* The user POSTs a grant; the server stores an intent under the user's    *)
(* idempotency key, asks landing for a burn request, and records its id.   *)
(* The user approves or denies on landing.  Landing's callback, or the     *)
(* user's poll, then settles the intent: it is claimed, City is credited,  *)
(* the intent is marked settled.  There are two entry points: the consent  *)
(* route (onion-attention-grants) and the real mode of attention-grants.   *)
(*                                                                         *)
(* A handler runs from one await to the next in one step: each step is one *)
(* call of the store, of landing or of City.  Handlers interleave, answers *)
(* are lost, callbacks are lost, repeated and late, and the process        *)
(* crashes.  The store, landing and City survive a crash.                  *)
(***************************************************************************)
EXTENDS Naturals, FiniteSets

CONSTANTS
  Users, Residents, Keys,
  Posters,       \* browser sessions that POST grants
  PostsOf,       \* the orders each session posts
  RouteOf,       \* "consent" or "real": the route each session posts to
  Callbacks,     \* concurrent onion-callback requests the server handles
  MaxFaults,     \* bound: answers of landing and City lost or failed
  MaxCrashes,    \* bound: crashes of the server and store calls that throw
  None

\* What a session posts: support a resident, under an idempotency key.
Order == [user : Users, resident : Residents, key : Keys]

IntentIds == Users \X Keys

ASSUME PostsOfType == PostsOf \in [Posters -> SUBSET Order]

ASSUME RouteOfType == RouteOf \in [Posters -> {"consent", "real"}]

ASSUME BoundsAreNaturals == MaxFaults \in Nat /\ MaxCrashes \in Nat

\* No key is in flight twice: a session posts a key again only after its last
\* POST of it was answered or died, and sessions share no key.
KeysAreExclusive ==
  \A p, q \in Posters : p # q =>
    \A o \in PostsOf[p], x \in PostsOf[q] : o.user # x.user \/ o.key # x.key

\* The real mode's keys are nobody else's: landing knows its burn requests by the
\* bare key, and a dashboard makes its keys up at random.
RealKeysAreOwn ==
  \A p, q \in Posters : RouteOf[p] = "real" /\ RouteOf[q] = "real" =>
    \A o \in PostsOf[p], x \in PostsOf[q] : o.key = x.key => o.user = x.user

VARIABLES
  intents,    \* attention_grant_intents, by user and idempotency key
  landing,    \* landing's burn requests, by external id
  credits,    \* City: how many creditAttention calls it took for each intent
  posters,    \* the POST handler of each session
  settlers,   \* the handler of each callback, and of each intent's poll
  faults, crashes

vars == <<intents, landing, credits, posters, settlers, faults, crashes>>

IntentStates ==
  {"created", "awaiting_approval", "settling", "settled", "denied", "failed"}

Terminal == {"settled", "denied", "failed"}

\* Landing is idempotent on (requester, externalId), so an external id names a
\* burn request.  The consent route scopes it by user and resident; the real
\* mode passes the bare idempotency key.
ExternalId(p, o) ==
  IF RouteOf[p] = "consent" THEN <<"consent", o.user, o.resident, o.key>>
                            ELSE <<"real", o.key>>

RequestIds ==
  ({"consent"} \X Users \X Residents \X Keys) \cup ({"real"} \X Keys)

Outcomes == {"completed", "denied", "failed"}

Intent == [resident : Residents, state : IntentStates, request : RequestIds \cup {None}]

Burn == [status : {"pending"} \cup Outcomes, user : Users]

ASSUME NoneIsApart ==
  /\ None \notin Intent /\ None \notin Burn /\ None \notin Order
  /\ None \notin IntentIds /\ None \notin RequestIds

\* A poll loop serves one intent, a callback whichever it names.
Handlers == Callbacks \cup IntentIds

Poster == [pc : {"idle", "create", "request", "record"}, order : Order \cup {None}]

Settler == [pc : {"idle", "status", "lookup", "reject", "claim", "credit", "settle", "fail"},
            request : RequestIds \cup {None},
            intent : IntentIds \cup {None}]

TypeOK ==
  /\ intents \in [IntentIds -> Intent \cup {None}]
  /\ landing \in [RequestIds -> Burn \cup {None}]
  /\ credits \in [IntentIds -> Nat]
  /\ posters \in [Posters -> Poster]
  /\ settlers \in [Handlers -> Settler]
  /\ faults \in 0..MaxFaults
  /\ crashes \in 0..MaxCrashes

IdlePoster == [pc |-> "idle", order |-> None]

IdleSettler == [pc |-> "idle", request |-> None, intent |-> None]

Init ==
  /\ intents = [i \in IntentIds |-> None]
  /\ landing = [e \in RequestIds |-> None]
  /\ credits = [i \in IntentIds |-> 0]
  /\ posters = [p \in Posters |-> IdlePoster]
  /\ settlers = [h \in Handlers |-> IdleSettler]
  /\ faults = 0
  /\ crashes = 0

-----------------------------------------------------------------------------
(* The POST handlers: runOnionAttentionGrant and initiateOnionAttentionGrant *)

IntentOf(o) == <<o.user, o.key>>

Leave(p) == posters' = [posters EXCEPT ![p] = IdlePoster]

GoOn(p, pc) == posters' = [posters EXCEPT ![p].pc = pc]

Enter(p, o) ==
  /\ posters[p].pc = "idle"
  /\ o \in PostsOf[p]
  /\ posters' = [posters EXCEPT ![p] = [pc |-> "create", order |-> o]]
  /\ UNCHANGED <<intents, landing, credits, settlers, faults, crashes>>

\* findPendingAttentionGrantIntent: an intent of this user for this resident
\* that awaits approval and has a burn request.
HasPending(o) ==
  \E k \in Keys :
    LET i == <<o.user, k>>
    IN  /\ intents[i] # None
        /\ intents[i].resident = o.resident
        /\ intents[i].state = "awaiting_approval"
        /\ intents[i].request # None

\* The double-burn guard.  With a pending intent the handler answers with that
\* one and changes nothing.
PostConsent(p, o) == RouteOf[p] = "consent" /\ ~HasPending(o) /\ Enter(p, o)

PostReal(p, o) == RouteOf[p] = "real" /\ Enter(p, o)

\* Slip: a retry does not see that its intent is settling.
CreateIntentWhileSettling(p) ==
  LET o == posters[p].order
      i == IntentOf(o)
      t == IF intents[i] = None
           THEN [resident |-> o.resident, state |-> "created", request |-> None]
           ELSE intents[i]
      answered == \/ t.request # None /\ (RouteOf[p] = "real" \/ t.state = "awaiting_approval")
                  \/ RouteOf[p] = "consent" /\ t.state \in Terminal
  IN  /\ posters[p].pc = "create"
      /\ intents' = [intents EXCEPT ![i] = t]
      /\ IF answered THEN Leave(p) ELSE GoOn(p, "request")
      /\ UNCHANGED <<landing, credits, settlers, faults, crashes>>

\* createAttentionGrantIntent returns the key's intent, old or new; the handler
\* goes on to landing unless that intent already has its burn request or is over.
CreateIntent(p) ==
  LET o == posters[p].order
      i == IntentOf(o)
      t == IF intents[i] = None
           THEN [resident |-> o.resident, state |-> "created", request |-> None]
           ELSE intents[i]
      answered == \/ t.request # None /\ (RouteOf[p] = "real" \/ t.state = "awaiting_approval")
                  \/ RouteOf[p] = "consent" /\ t.state \in Terminal \cup {"settling"}
  IN  /\ posters[p].pc = "create"
      /\ intents' = [intents EXCEPT ![i] = t]
      /\ IF answered THEN Leave(p) ELSE GoOn(p, "request")
      /\ UNCHANGED <<landing, credits, settlers, faults, crashes>>

\* Landing creates the burn request, or already has it.
LandingCreates(e, u) ==
  landing' = IF landing[e] = None
             THEN [landing EXCEPT ![e] = [status |-> "pending", user |-> u]]
             ELSE landing

CreateRequest(p) ==
  LET o == posters[p].order
  IN  /\ posters[p].pc = "request"
      /\ LandingCreates(ExternalId(p, o), o.user)
      /\ GoOn(p, "record")
      /\ UNCHANGED <<intents, credits, settlers, faults, crashes>>

\* The call fails, or its answer is lost after landing created the request: the
\* handler throws and the intent stays as it is.
LoseRequest(p) ==
  LET o == posters[p].order
  IN  /\ posters[p].pc = "request"
      /\ faults < MaxFaults
      /\ faults' = faults + 1
      /\ LandingCreates(ExternalId(p, o), o.user) \/ UNCHANGED landing
      /\ Leave(p)
      /\ UNCHANGED <<intents, credits, settlers, crashes>>

\* updateAttentionGrantIntent: the intent as it is by now, with these two fields.
Record(p) ==
  LET o == posters[p].order
  IN  /\ posters[p].pc = "record"
      /\ intents' = [intents EXCEPT ![IntentOf(o)].state = "awaiting_approval",
                                    ![IntentOf(o)].request = ExternalId(p, o)]
      /\ Leave(p)
      /\ UNCHANGED <<landing, credits, settlers, faults, crashes>>

-----------------------------------------------------------------------------
(* Landing *)

\* The attendee approves or denies, or the burn fails.  An outcome is final.
Decide(e, outcome) ==
  /\ landing[e] # None
  /\ landing[e].status = "pending"
  /\ landing' = [landing EXCEPT ![e].status = outcome]
  /\ UNCHANGED <<intents, credits, posters, settlers, faults, crashes>>

-----------------------------------------------------------------------------
(* Settlement: the onion-callback route, the status route and                *)
(* settleOnionAttentionGrant, in which both end.                             *)

Goto(h, pc) == settlers' = [settlers EXCEPT ![h].pc = pc]

Finish(h) == settlers' = [settlers EXCEPT ![h] = IdleSettler]

Decided(e) == landing[e] # None /\ landing[e].status \in Outcomes

\* Landing reports an outcome.  It may do so again, late, or never.
Callback(h, e) ==
  /\ settlers[h].pc = "idle"
  /\ Decided(e)
  /\ settlers' = [settlers EXCEPT ![h] = [pc |-> "lookup", request |-> e, intent |-> None]]
  /\ UNCHANGED <<intents, landing, credits, posters, faults, crashes>>

\* The poll reads the intent and, unless it is over or has no request yet, ...
PollRead(i) ==
  /\ settlers[i].pc = "idle"
  /\ intents[i] # None
  /\ intents[i].state \notin Terminal
  /\ intents[i].request # None
  /\ settlers' = [settlers EXCEPT ![i] =
       [pc |-> "status", request |-> intents[i].request, intent |-> None]]
  /\ UNCHANGED <<intents, landing, credits, posters, faults, crashes>>

\* Slip: the poll only reports, and leaves settling to the callback.
PollStatusReporting(i) ==
  /\ settlers[i].pc = "status"
  /\ Finish(i)
  /\ UNCHANGED <<intents, landing, credits, posters, faults, crashes>>

\* ... asks landing.  It settles what landing has decided.
PollStatus(i) ==
  /\ settlers[i].pc = "status"
  /\ IF Decided(settlers[i].request) THEN Goto(i, "lookup") ELSE Finish(i)
  /\ UNCHANGED <<intents, landing, credits, posters, faults, crashes>>

\* Intents with this burn request; the store returns one of them.
IntentsWith(e) == {i \in IntentIds : intents[i] # None /\ intents[i].request = e}

\* getAttentionGrantIntentByOnionRequestId.  An unknown request and a settled
\* intent end the handler.
LookupFails(h) ==
  /\ settlers[h].pc = "lookup"
  /\ \/ IntentsWith(settlers[h].request) = {}
     \/ \E i \in IntentsWith(settlers[h].request) : intents[i].state = "settled"
  /\ Finish(h)
  /\ UNCHANGED <<intents, landing, credits, posters, faults, crashes>>

\* Slip: any report counts as completed.
LookupAnyOutcome(h) ==
  /\ settlers[h].pc = "lookup"
  /\ \E i \in IntentsWith(settlers[h].request) :
       /\ intents[i].state # "settled"
       /\ settlers' = [settlers EXCEPT ![h].intent = i, ![h].pc = "claim"]
  /\ UNCHANGED <<intents, landing, credits, posters, faults, crashes>>

Lookup(h) ==
  /\ settlers[h].pc = "lookup"
  /\ \E i \in IntentsWith(settlers[h].request) :
       /\ intents[i].state # "settled"
       /\ settlers' = [settlers EXCEPT
            ![h].intent = i,
            ![h].pc = IF landing[settlers[h].request].status = "completed"
                      THEN "claim" ELSE "reject"]
  /\ UNCHANGED <<intents, landing, credits, posters, faults, crashes>>

\* The burn was denied or failed: the intent is marked so, whatever it is by now.
Reject(h) ==
  LET s == settlers[h]
  IN  /\ s.pc = "reject"
      /\ intents' = [intents EXCEPT ![s.intent].state = landing[s.request].status]
      /\ Finish(h)
      /\ UNCHANGED <<landing, credits, posters, faults, crashes>>

\* The claim's parts, for the slips below: the states it may be taken from.
ClaimFrom(h, states) ==
  LET i == settlers[h].intent
  IN  /\ settlers[h].pc = "claim"
      /\ IF intents[i].state \in states
         THEN /\ intents' = [intents EXCEPT ![i].state = "settling"]
              /\ Goto(h, "credit")
         ELSE Finish(h) /\ UNCHANGED intents
      /\ UNCHANGED <<landing, credits, posters, faults, crashes>>

\* Slip: the claim is an update without its WHERE state = ...
ClaimBlind(h) == ClaimFrom(h, IntentStates)

\* Slip: a failed settlement may be claimed again.
ClaimFailed(h) == ClaimFrom(h, {"awaiting_approval", "failed"})

\* claimAttentionGrantIntent: only one handler takes it out of awaiting_approval.
Claim(h) ==
  LET i == settlers[h].intent
  IN  /\ settlers[h].pc = "claim"
      /\ IF intents[i].state = "awaiting_approval"
         THEN /\ intents' = [intents EXCEPT ![i].state = "settling"]
              /\ Goto(h, "credit")
         ELSE Finish(h) /\ UNCHANGED intents
      /\ UNCHANGED <<landing, credits, posters, faults, crashes>>

\* City takes the call.  It is sent the key and may recognise a repetition; the
\* settlement is not to need that.
CreditCity(i) == credits' = [credits EXCEPT ![i] = credits[i] + 1]

Credit(h) ==
  /\ settlers[h].pc = "credit"
  /\ CreditCity(settlers[h].intent)
  /\ Goto(h, "settle")
  /\ UNCHANGED <<intents, landing, posters, faults, crashes>>

\* Slip: the error of the credit call is swallowed.
CreditErrorSwallowed(h) ==
  /\ settlers[h].pc = "credit"
  /\ faults < MaxFaults
  /\ faults' = faults + 1
  /\ CreditCity(settlers[h].intent) \/ UNCHANGED credits
  /\ Goto(h, "settle")
  /\ UNCHANGED <<intents, landing, posters, crashes>>

\* City refuses the credit, or takes it and the answer is lost.
CreditFails(h) ==
  /\ settlers[h].pc = "credit"
  /\ faults < MaxFaults
  /\ faults' = faults + 1
  /\ CreditCity(settlers[h].intent) \/ UNCHANGED credits
  /\ Goto(h, "fail")
  /\ UNCHANGED <<intents, landing, posters, crashes>>

\* Slip: the intent is given landing's word for the outcome.
SettleWithStatus(h) ==
  /\ settlers[h].pc = "settle"
  /\ intents' = [intents EXCEPT ![settlers[h].intent].state = "completed"]
  /\ Finish(h)
  /\ UNCHANGED <<landing, credits, posters, faults, crashes>>

Settle(h) ==
  /\ settlers[h].pc = "settle"
  /\ intents' = [intents EXCEPT ![settlers[h].intent].state = "settled"]
  /\ Finish(h)
  /\ UNCHANGED <<landing, credits, posters, faults, crashes>>

Fail(h) ==
  /\ settlers[h].pc = "fail"
  /\ intents' = [intents EXCEPT ![settlers[h].intent].state = "failed"]
  /\ Finish(h)
  /\ UNCHANGED <<landing, credits, posters, faults, crashes>>

\* A store call throws: the handler is gone from wherever it was.  After the
\* claim nothing catches it, so the intent is left settling.
StoreThrows ==
  /\ crashes < MaxCrashes
  /\ crashes' = crashes + 1
  /\ \/ \E p \in Posters : posters[p].pc # "idle" /\ Leave(p) /\ UNCHANGED settlers
     \/ \E h \in Handlers : settlers[h].pc # "idle" /\ Finish(h) /\ UNCHANGED posters
  /\ UNCHANGED <<intents, landing, credits, faults>>

\* The server dies: every handler is gone, what is stored stays.
Crash ==
  /\ crashes < MaxCrashes
  /\ crashes' = crashes + 1
  /\ posters' = [p \in Posters |-> IdlePoster]
  /\ settlers' = [h \in Handlers |-> IdleSettler]
  /\ UNCHANGED <<intents, landing, credits, faults>>

-----------------------------------------------------------------------------
Post(p) ==
  \/ \E o \in PostsOf[p] : PostConsent(p, o) \/ PostReal(p, o)
  \/ CreateIntent(p)
  \/ CreateRequest(p)
  \/ LoseRequest(p)
  \/ Record(p)

\* Settling, once a handler has been entered.
SettleOn(h) ==
  \/ LookupFails(h) \/ Lookup(h)
  \/ Reject(h)
  \/ Claim(h)
  \/ Credit(h) \/ CreditFails(h)
  \/ Settle(h)
  \/ Fail(h)

Next ==
  \/ \E p \in Posters : Post(p)
  \/ \E e \in RequestIds, outcome \in Outcomes : Decide(e, outcome)
  \/ \E h \in Callbacks, e \in RequestIds : Callback(h, e)
  \/ \E i \in IntentIds : PollRead(i) \/ PollStatus(i)
  \/ \E h \in Handlers : SettleOn(h)
  \/ StoreThrows
  \/ Crash

Spec == Init /\ [][Next]_vars

\* A handler that was entered runs on, and the browser polls as long as the
\* intent is pending.  Nobody has to post, approve or call back.
Fairness ==
  /\ \A h \in Handlers : WF_vars(SettleOn(h))
  /\ \A i \in IntentIds : WF_vars(PollRead(i)) /\ WF_vars(PollStatus(i))

FairSpec == Spec /\ Fairness

-----------------------------------------------------------------------------
Finished(i) == intents[i] # None /\ intents[i].state \in Terminal

\* The onions of the intent's burn request are gone.
Burned(i) ==
  /\ intents[i] # None
  /\ intents[i].request # None
  /\ landing[intents[i].request].status = "completed"

\* City is credited for an intent only if its own user's onions were burned
\* under the intent's own request.
CreditOnlyAfterBurn ==
  \A i \in IntentIds :
    credits[i] > 0 => Burned(i) /\ landing[intents[i].request].user = i[1]

\* One burn, one credit call, however often the callback and the polls come and
\* wherever the process dies.  routes.ts: "both paths are idempotent: settlement
\* claims the intent only from `awaiting_approval`"; attention-grant.ts: "a
\* re-delivered callback for an already-settled intent is a no-op".
CreditedAtMostOnce == \A i \in IntentIds : credits[i] <= 1

\* While a handler is between its claim and its last update, no other handler
\* is, and the intent says so: nobody settles or rejects it behind its back.
ClaimIsExclusive ==
  \A h \in Handlers : settlers[h].pc \in {"credit", "settle", "fail"} =>
    /\ intents[settlers[h].intent].state = "settling"
    /\ \A g \in Handlers : settlers[g].pc \in {"credit", "settle", "fail"} =>
         g = h \/ settlers[g].intent # settlers[h].intent

\* An intent is settled only if City was credited, and denied only if landing
\* denied the burn: what the user is told about a finished grant is true.
OutcomesAreTrue ==
  \A i \in IntentIds : intents[i] # None =>
    /\ intents[i].state = "settled" => credits[i] > 0
    /\ intents[i].state = "denied" => landing[intents[i].request].status = "denied"
    /\ intents[i].state = "failed" => landing[intents[i].request].status = "failed" \/ faults > 0

\* A finished grant stays as it finished: no late handler reopens it.
FinishedStaysFinished ==
  [][\A i \in IntentIds : Finished(i) => intents'[i].state = intents[i].state]_vars

\* routes.ts, the double-burn guard: while a user's intent for a resident awaits
\* approval there is no second burn request for the two on landing.
NoSecondBurn ==
  \A e, f \in RequestIds :
    /\ landing[e] # None /\ landing[e].status = "pending"
    /\ landing[f] # None /\ landing[f].status = "pending"
    /\ e[1] = "consent" /\ f[1] = "consent" /\ e[2] = f[2] /\ e[3] = f[3]
    => e = f

\* Onions burned under a recorded request lead to a finished grant, if the
\* server does not crash: the poll takes over from a callback that never comes.
BurnIsSettled ==
  \A i \in IntentIds : Burned(i) ~> (Finished(i) \/ crashes > 0)
=============================================================================
