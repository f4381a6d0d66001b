---------------------------- MODULE OnionGrantProofs ----------------------------
(***************************************************************************)
(* Proofs about OnionGrant for any users, residents, keys, sessions and    *)
(* callbacks, and any number of faults and crashes.  First what holds      *)
(* whoever posts what; then, if no key is in flight twice, that an intent  *)
(* has one burn request for good and follows its outcome, one handler      *)
(* settles it and City is credited once.                                   *)
(***************************************************************************)
EXTENDS OnionGrant, TLAPS

Settling == {"reject", "claim", "credit", "settle", "fail"}

Claimed == {"credit", "settle", "fail"}

-----------------------------------------------------------------------------
(* Whoever posts what.                                                      *)

\* A POST under way is one of its session's, and has its intent once it was created.
PostsAreOrders ==
  \A p \in Posters : posters[p].pc # "idle" =>
    /\ posters[p].order \in PostsOf[p]
    /\ posters[p].pc # "create" => intents[IntentOf(posters[p].order)] # None

\* A handler settles what landing decided, and rejects what landing did not burn.
Informed(s) ==
  /\ s.request \in RequestIds
  /\ s.pc # "status" => Decided(s.request)
  /\ s.pc \in Settling => s.intent \in IntentIds /\ intents[s.intent] # None
  /\ s.pc = "reject" => landing[s.request].status \in {"denied", "failed"}

SettlersAreInformed ==
  \A h \in Handlers : settlers[h].pc # "idle" => Informed(settlers[h])

BaseInv == TypeOK /\ PostsAreOrders /\ SettlersAreInformed

\* An order names an intent and, by its route, a burn request.
LEMMA OrderTypes ==
  ASSUME NEW p \in Posters, NEW o \in PostsOf[p]
  PROVE  /\ o \in Order /\ o.user \in Users /\ o.resident \in Residents
         /\ IntentOf(o) \in IntentIds
         /\ ExternalId(p, o) \in RequestIds
  BY PostsOfType, RouteOfType DEF Order, IntentOf, IntentIds, ExternalId, RequestIds

\* Landing forgets no burn request and changes no outcome.
LEMMA LandingRemembers ==
  ASSUME BaseInv, [Next]_vars, NEW e \in RequestIds, landing[e] # None
  PROVE  /\ landing'[e] # None
         /\ landing'[e].user = landing[e].user
         /\ Decided(e) => landing'[e] = landing[e]
  <1> USE DEF BaseInv
  <1>1. landing[e] \in Burn
    BY DEF TypeOK
  <1>2. ASSUME NEW f \in RequestIds, NEW u \in Users, LandingCreates(f, u)
        PROVE  landing'[e] = landing[e]
    BY <1>2 DEF LandingCreates, TypeOK
  <1>3. ASSUME NEW f \in RequestIds, NEW outcome \in Outcomes, Decide(f, outcome)
        PROVE  /\ landing'[e] # None /\ landing'[e].user = landing[e].user
               /\ Decided(e) => landing'[e] = landing[e]
    <2>1. CASE e = f
      <3>1. landing'[e] = [landing[e] EXCEPT !.status = outcome] /\ ~Decided(e)
        BY <1>3, <2>1 DEF Decide, Decided, TypeOK, Outcomes
      <3>2. landing'[e] \in Burn /\ landing'[e].user = landing[e].user
        BY <1>1, <3>1 DEF Burn, Outcomes
      <3> QED
        BY <3>1, <3>2, NoneIsApart
    <2>2. CASE e # f
      BY <1>3, <2>2 DEF Decide, TypeOK
    <2> QED
      BY <2>1, <2>2
  <1>4. ASSUME NEW p \in Posters, CreateRequest(p) \/ LoseRequest(p)
        PROVE  landing'[e] = landing[e]
    <2>1. posters[p].order \in PostsOf[p]
      BY <1>4 DEF CreateRequest, LoseRequest, PostsAreOrders
    <2>2. \/ UNCHANGED landing
          \/ LandingCreates(ExternalId(p, posters[p].order), posters[p].order.user)
      BY <1>4 DEF CreateRequest, LoseRequest
    <2> QED
      BY <1>2, <2>1, <2>2, OrderTypes
  <1>5. CASE UNCHANGED landing
    BY <1>5
  <1> QED
    BY <1>3, <1>4, <1>5 DEF Next, Post, PostConsent, PostReal, Enter, CreateIntent, Record, Callback,
       PollRead, PollStatus, SettleOn, LookupFails, Lookup, Reject, Claim, Credit, CreditFails,
       Settle, Fail, StoreThrows, Crash, vars

\* Landing's types.
LEMMA LandingKeepsTypes ==
  ASSUME BaseInv, [Next]_vars
  PROVE  landing' \in [RequestIds -> Burn \cup {None}]
  <1> USE DEF BaseInv
  <1>1. ASSUME NEW f \in RequestIds, NEW u \in Users, LandingCreates(f, u)
        PROVE  landing' \in [RequestIds -> Burn \cup {None}]
    BY <1>1 DEF LandingCreates, TypeOK, Burn
  <1>2. ASSUME NEW f \in RequestIds, NEW outcome \in Outcomes, Decide(f, outcome)
        PROVE  landing' \in [RequestIds -> Burn \cup {None}]
    BY <1>2 DEF Decide, TypeOK, Burn
  <1>3. ASSUME NEW p \in Posters, CreateRequest(p) \/ LoseRequest(p)
        PROVE  landing' \in [RequestIds -> Burn \cup {None}]
    <2>1. posters[p].order \in PostsOf[p]
      BY <1>3 DEF CreateRequest, LoseRequest, PostsAreOrders
    <2>2. \/ UNCHANGED landing
          \/ LandingCreates(ExternalId(p, posters[p].order), posters[p].order.user)
      BY <1>3 DEF CreateRequest, LoseRequest
    <2> QED
      BY <1>1, <2>1, <2>2, OrderTypes DEF TypeOK
  <1>4. CASE UNCHANGED landing
    BY <1>4 DEF TypeOK
  <1> QED
    BY <1>2, <1>3, <1>4 DEF Next, Post, PostConsent, PostReal, Enter, CreateIntent, Record, Callback,
       PollRead, PollStatus, SettleOn, LookupFails, Lookup, Reject, Claim, Credit, CreditFails,
       Settle, Fail, StoreThrows, Crash, vars

\* What a step does to one intent: it is created, given its burn request by a
\* POST, or given a new state by a handler that settles it.
IntentStep(i) ==
  \/ intents'[i] = intents[i]
  \/ /\ intents[i] = None
     /\ \E p \in Posters : CreateIntent(p) /\ i = IntentOf(posters[p].order)
     /\ intents'[i] \in Intent /\ intents'[i].state = "created" /\ intents'[i].request = None
  \/ /\ intents[i] \in Intent
     /\ \E p \in Posters :
          /\ Record(p) /\ i = IntentOf(posters[p].order)
          /\ intents'[i] = [intents[i] EXCEPT !.state = "awaiting_approval",
                                              !.request = ExternalId(p, posters[p].order)]
  \/ /\ intents[i] \in Intent
     /\ \E h \in Handlers :
          /\ settlers[h].intent = i
          /\ \/ Reject(h) /\ intents'[i] = [intents[i] EXCEPT
                                              !.state = landing[settlers[h].request].status]
             \/ /\ Claim(h) /\ intents[i].state = "awaiting_approval"
                /\ intents'[i] = [intents[i] EXCEPT !.state = "settling"]
             \/ Settle(h) /\ intents'[i] = [intents[i] EXCEPT !.state = "settled"]
             \/ Fail(h) /\ intents'[i] = [intents[i] EXCEPT !.state = "failed"]

\* Intents stay intents, and none is forgotten.
IntentsKeepTypes ==
  /\ intents' \in [IntentIds -> Intent \cup {None}]
  /\ \A i \in IntentIds : intents[i] # None => intents'[i] \in Intent

\* Every step does one of these to every intent, and none else.
LEMMA IntentSteps ==
  ASSUME BaseInv, [Next]_vars
  PROVE  /\ \A i \in IntentIds : IntentStep(i)
         /\ IntentsKeepTypes
  <1> USE DEF BaseInv
  <1>1. ASSUME NEW p \in Posters, CreateIntent(p)
        PROVE  /\ \A i \in IntentIds : IntentStep(i)
               /\ IntentsKeepTypes
    <2>1. posters[p].order \in PostsOf[p]
      BY <1>1 DEF CreateIntent, PostsAreOrders
    <2> DEFINE new == [resident |-> posters[p].order.resident, state |-> "created", request |-> None]
    <2>2. new \in Intent /\ new.state = "created" /\ new.request = None
      BY <2>1, OrderTypes DEF Intent, IntentStates
    <2>3. PICK i \in IntentIds : i = IntentOf(posters[p].order)
      BY <2>1, OrderTypes
    <2>4. intents' = [intents EXCEPT ![i] = IF intents[i] = None THEN new ELSE intents[i]]
      BY <1>1, <2>3 DEF CreateIntent
    <2> HIDE DEF new
    <2> QED
      BY <1>1, <2>2, <2>3, <2>4 DEF IntentStep, IntentsKeepTypes, TypeOK
  <1>2. ASSUME NEW p \in Posters, Record(p)
        PROVE  /\ \A i \in IntentIds : IntentStep(i)
               /\ IntentsKeepTypes
    <2>1. posters[p].order \in PostsOf[p] /\ intents[IntentOf(posters[p].order)] # None
      BY <1>2 DEF Record, PostsAreOrders
    <2>2. PICK i \in IntentIds : i = IntentOf(posters[p].order)
      BY <2>1, OrderTypes
    <2>3. PICK e \in RequestIds : e = ExternalId(p, posters[p].order)
      BY <2>1, OrderTypes
    <2> DEFINE new == [intents[i] EXCEPT !.state = "awaiting_approval", !.request = e]
    <2>4. intents[i] \in Intent
      BY <2>1, <2>2 DEF TypeOK
    <2>5. new \in Intent
      BY <2>4 DEF Intent, IntentStates
    <2>6. intents' = [intents EXCEPT ![i] = new]
      BY <1>2, <2>2, <2>3, <2>4 DEF Record, Intent, TypeOK
    <2>7. IntentStep(i)
      BY <1>2, <2>2, <2>3, <2>4, <2>6 DEF IntentStep, TypeOK
    <2> HIDE DEF new
    <2> QED
      BY <2>5, <2>6, <2>7 DEF IntentStep, IntentsKeepTypes, TypeOK
  <1>3. ASSUME NEW h \in Handlers, Reject(h) \/ Claim(h) \/ Settle(h) \/ Fail(h)
        PROVE  /\ \A i \in IntentIds : IntentStep(i)
               /\ IntentsKeepTypes
    <2>1. PICK i \in IntentIds : i = settlers[h].intent /\ intents[i] \in Intent
      BY <1>3 DEF Reject, Claim, Settle, Fail, Settling, SettlersAreInformed, Informed, TypeOK
    <2>2. ASSUME NEW st \in IntentStates
          PROVE  [intents[i] EXCEPT !.state = st] \in Intent
      BY <2>1 DEF Intent
    <2>3. \/ UNCHANGED intents
          \/ \E st \in IntentStates :
               intents' = [intents EXCEPT ![i] = [intents[i] EXCEPT !.state = st]]
      <3>1. CASE Reject(h)
        <4>1. landing[settlers[h].request].status \in {"denied", "failed"}
          BY <3>1 DEF Reject, SettlersAreInformed, Informed
        <4> QED
          BY <2>1, <3>1, <4>1 DEF Reject, IntentStates
      <3>2. CASE Claim(h)
        BY <2>1, <3>2 DEF Claim, IntentStates
      <3>3. CASE Settle(h) \/ Fail(h)
        BY <2>1, <3>3 DEF Settle, Fail, IntentStates
      <3> QED
        BY <1>3, <3>1, <3>2, <3>3
    <2>4. IntentsKeepTypes
      BY <2>1, <2>2, <2>3 DEF TypeOK, IntentsKeepTypes
    <2>5. \A k \in IntentIds \ {i} : intents'[k] = intents[k]
      BY <2>3 DEF TypeOK
    <2>6. IntentStep(i)
      BY <1>3, <2>1 DEF IntentStep, Reject, Claim, Settle, Fail, TypeOK
    <2> QED
      BY <2>4, <2>5, <2>6 DEF IntentStep
  <1>4. CASE UNCHANGED intents
    BY <1>4 DEF IntentStep, IntentsKeepTypes, TypeOK
  <1> QED
    BY <1>1, <1>2, <1>3, <1>4 DEF Next, Post, PostConsent, PostReal, Enter, CreateRequest, LoseRequest,
       Decide, Callback, PollRead, PollStatus, SettleOn, LookupFails, Lookup, Credit, CreditFails,
       StoreThrows, Crash, vars

\* An intent once stored stays.
LEMMA IntentsStay ==
  ASSUME BaseInv, [Next]_vars, NEW i \in IntentIds, intents[i] # None
  PROVE  intents'[i] # None /\ intents'[i] \in Intent
  BY IntentSteps, NoneIsApart DEF IntentsKeepTypes
\* What a step may turn one POST handler, r, into: s.
PosterMove(p, r, s) ==
  \/ s = r
  \/ s = IdlePoster
  \/ \E o \in PostsOf[p] : s = [pc |-> "create", order |-> o]
  \/ CreateIntent(p) /\ r.pc = "create" /\ s = [r EXCEPT !.pc = "request"]
  \/ CreateRequest(p) /\ r.pc = "request" /\ s = [r EXCEPT !.pc = "record"]

PosterStep(p) == PosterMove(p, posters[p], posters'[p])

\* Every step does one of these to every POST handler, and none else.
LEMMA PosterSteps ==
  ASSUME BaseInv, [Next]_vars
  PROVE  /\ \A p \in Posters : PosterStep(p)
         /\ posters' \in [Posters -> Poster]
  <1> USE DEF BaseInv
  <1>1. ASSUME NEW p \in Posters, NEW o \in PostsOf[p], PostConsent(p, o) \/ PostReal(p, o)
        PROVE  (\A q \in Posters : PosterStep(q)) /\ posters' \in [Posters -> Poster]
    BY <1>1, OrderTypes DEF PostConsent, PostReal, Enter, PosterStep, PosterMove, TypeOK, Poster
  <1>2. ASSUME NEW p \in Posters,
               CreateIntent(p) \/ CreateRequest(p) \/ LoseRequest(p) \/ Record(p)
        PROVE  (\A q \in Posters : PosterStep(q)) /\ posters' \in [Posters -> Poster]
    BY <1>2 DEF CreateIntent, CreateRequest, LoseRequest, Record, Leave, GoOn, PosterStep, PosterMove, TypeOK,
                Poster, IdlePoster
  <1>3. CASE StoreThrows \/ Crash
    BY <1>3 DEF StoreThrows, Crash, Leave, PosterStep, PosterMove, TypeOK, Poster, IdlePoster
  <1>4. CASE UNCHANGED posters
    BY <1>4 DEF PosterStep, PosterMove, TypeOK
  <1> QED
    BY <1>1, <1>2, <1>3, <1>4 DEF Next, Post, Decide, Callback, PollRead, PollStatus, SettleOn,
       LookupFails, Lookup, Reject, Claim, Credit, CreditFails, Settle, Fail, vars

\* A POST handler keeps its order, and goes to landing only with an intent.
LEMMA StepKeepsPosts ==
  ASSUME BaseInv, [Next]_vars
  PROVE  PostsAreOrders'
  <1> USE DEF BaseInv
  <1> SUFFICES ASSUME NEW p \in Posters, posters'[p].pc # "idle"
               PROVE  /\ posters'[p].order \in PostsOf[p]
                      /\ posters'[p].pc # "create" => intents'[IntentOf(posters'[p].order)] # None
    BY DEF PostsAreOrders, IntentOf
  <1>1. PosterStep(p) /\ posters[p] \in Poster
    BY PosterSteps DEF TypeOK
  <1>2. CASE posters'[p] = posters[p]
    <2>1. posters[p].order \in PostsOf[p]
      BY <1>2 DEF PostsAreOrders
    <2>2. IntentOf(posters[p].order) \in IntentIds
      BY <2>1, OrderTypes
    <2> QED
      BY <1>2, <2>1, <2>2, IntentsStay DEF PostsAreOrders
  <1>3. CASE CreateIntent(p) /\ posters'[p] = [posters[p] EXCEPT !.pc = "request"]
    <2>1. posters[p].order \in PostsOf[p] /\ posters'[p].order = posters[p].order
      BY <1>1, <1>3 DEF CreateIntent, PostsAreOrders, Poster
    <2>2. PICK i \in IntentIds : i = IntentOf(posters[p].order)
      BY <2>1, OrderTypes
    <2>3. intents'[i] = IF intents[i] = None
                        THEN [resident |-> posters[p].order.resident, state |-> "created",
                              request |-> None]
                        ELSE intents[i]
      BY <1>3, <2>2 DEF CreateIntent, TypeOK
    <2>4. [resident |-> posters[p].order.resident, state |-> "created", request |-> None] \in Intent
      BY <2>1, OrderTypes DEF Intent, IntentStates
    <2>5. intents'[i] # None
      BY <2>3, <2>4, NoneIsApart
    <2> QED
      BY <2>1, <2>2, <2>5
  <1>4. CASE CreateRequest(p) /\ posters'[p] = [posters[p] EXCEPT !.pc = "record"]
    BY <1>1, <1>4 DEF CreateRequest, PostsAreOrders, Poster
  <1>5. CASE posters'[p] = IdlePoster
    BY <1>5 DEF IdlePoster
  <1>6. ASSUME NEW o \in PostsOf[p], posters'[p] = [pc |-> "create", order |-> o]
        PROVE  /\ posters'[p].order \in PostsOf[p]
               /\ posters'[p].pc # "create" => intents'[IntentOf(posters'[p].order)] # None
    BY <1>6
  <1> QED
    BY <1>1, <1>2, <1>3, <1>4, <1>5, <1>6 DEF PosterStep, PosterMove

-----------------------------------------------------------------------------
\* What a step may turn one handler that settles, r, into: s.
SettlerMove(h, r, s) ==
  \/ s = r
  \/ s = IdleSettler
  \/ \E e \in RequestIds : Decided(e) /\ s = [pc |-> "lookup", request |-> e, intent |-> None]
  \/ \E e \in RequestIds : s = [pc |-> "status", request |-> e, intent |-> None]
  \/ /\ r.pc = "status" /\ Decided(r.request)
     /\ s = [r EXCEPT !.pc = "lookup"]
  \/ /\ r.pc = "lookup"
     /\ UNCHANGED intents
     /\ \E i \in IntentIds :
          /\ intents[i] \in Intent /\ intents[i].request = r.request
          /\ s = [r EXCEPT !.intent = i,
                           !.pc = IF landing[r.request].status = "completed"
                                  THEN "claim" ELSE "reject"]
  \/ /\ Claim(h) /\ r.pc = "claim" /\ intents[r.intent].state = "awaiting_approval"
     /\ s = [r EXCEPT !.pc = "credit"]
  \/ Credit(h) /\ r.pc = "credit" /\ s = [r EXCEPT !.pc = "settle"]
  \/ CreditFails(h) /\ r.pc = "credit" /\ s = [r EXCEPT !.pc = "fail"]

SettlerStep(h) == SettlerMove(h, settlers[h], settlers'[h])

\* The two ways a handler moves: on to its next step, or out.
LEMMA GotoMovesOne ==
  ASSUME TypeOK, NEW h \in Handlers, NEW pc \in {"lookup", "credit", "settle", "fail"}, Goto(h, pc)
  PROVE  /\ settlers'[h] = [settlers[h] EXCEPT !.pc = pc]
         /\ \A g \in Handlers \ {h} : settlers'[g] = settlers[g]
         /\ settlers' \in [Handlers -> Settler]
  BY DEF Goto, TypeOK, Settler

LEMMA FinishMovesOne ==
  ASSUME TypeOK, NEW h \in Handlers, Finish(h)
  PROVE  /\ settlers'[h] = IdleSettler
         /\ \A g \in Handlers \ {h} : settlers'[g] = settlers[g]
         /\ settlers' \in [Handlers -> Settler]
  <1>1. IdleSettler \in Settler
    BY DEF IdleSettler, Settler
  <1> QED
    BY <1>1 DEF Finish, TypeOK

\* Every step does one of these to every handler, and none else.
LEMMA SettlerSteps ==
  ASSUME BaseInv, [Next]_vars
  PROVE  /\ \A h \in Handlers : SettlerStep(h)
         /\ settlers' \in [Handlers -> Settler]
  <1> USE DEF BaseInv
  <1>1. ASSUME NEW h \in Callbacks, NEW e \in RequestIds, Callback(h, e)
        PROVE  (\A g \in Handlers : SettlerStep(g)) /\ settlers' \in [Handlers -> Settler]
    BY <1>1 DEF Callback, SettlerStep, SettlerMove, Handlers, TypeOK, Settler
  <1>2. ASSUME NEW i \in IntentIds, PollRead(i)
        PROVE  (\A g \in Handlers : SettlerStep(g)) /\ settlers' \in [Handlers -> Settler]
    <2>1. intents[i].request \in RequestIds
      BY <1>2 DEF PollRead, TypeOK, Intent
    <2> QED
      BY <1>2, <2>1 DEF PollRead, SettlerStep, SettlerMove, Handlers, TypeOK, Settler
  <1>3. ASSUME NEW i \in IntentIds, PollStatus(i)
        PROVE  (\A g \in Handlers : SettlerStep(g)) /\ settlers' \in [Handlers -> Settler]
    <2>1. i \in Handlers /\ settlers[i].pc = "status"
      BY <1>3 DEF PollStatus, Handlers
    <2>2. \/ Decided(settlers[i].request) /\ Goto(i, "lookup")
          \/ Finish(i)
      BY <1>3 DEF PollStatus
    <2> QED
      BY <2>1, <2>2, GotoMovesOne, FinishMovesOne DEF SettlerStep, SettlerMove
  <1>4. ASSUME NEW h \in Handlers, Lookup(h)
        PROVE  (\A g \in Handlers : SettlerStep(g)) /\ settlers' \in [Handlers -> Settler]
    <2>1. PICK i \in IntentIds :
            /\ intents[i] \in Intent /\ intents[i].request = settlers[h].request
            /\ settlers' = [settlers EXCEPT
                 ![h].intent = i,
                 ![h].pc = IF landing[settlers[h].request].status = "completed"
                           THEN "claim" ELSE "reject"]
      BY <1>4 DEF Lookup, IntentsWith, TypeOK
    <2>2. settlers[h].pc = "lookup" /\ UNCHANGED intents
      BY <1>4 DEF Lookup
    <2>3. settlers[h] \in Settler
      BY DEF TypeOK
    <2>4. settlers'[h] = [settlers[h] EXCEPT
               !.intent = i,
               !.pc = IF landing[settlers[h].request].status = "completed"
                      THEN "claim" ELSE "reject"]
      BY <2>1, <2>3 DEF TypeOK, Settler
    <2>5. settlers' \in [Handlers -> Settler]
      BY <2>1, <2>3 DEF TypeOK, Settler
    <2>6. \A g \in Handlers \ {h} : settlers'[g] = settlers[g]
      BY <2>1 DEF TypeOK
    <2>7. SettlerStep(h)
      BY <2>1, <2>2, <2>4 DEF SettlerStep, SettlerMove
    <2> QED
      BY <2>5, <2>6, <2>7 DEF SettlerStep, SettlerMove
  <1>5. ASSUME NEW h \in Handlers,
               \/ LookupFails(h) \/ Reject(h) \/ Claim(h) \/ Credit(h) \/ CreditFails(h)
               \/ Settle(h) \/ Fail(h)
        PROVE  (\A g \in Handlers : SettlerStep(g)) /\ settlers' \in [Handlers -> Settler]
    <2>1. \/ Finish(h)
          \/ /\ Claim(h) /\ intents[settlers[h].intent].state = "awaiting_approval"
             /\ settlers[h].pc = "claim" /\ Goto(h, "credit")
          \/ Credit(h) /\ settlers[h].pc = "credit" /\ Goto(h, "settle")
          \/ CreditFails(h) /\ settlers[h].pc = "credit" /\ Goto(h, "fail")
      BY <1>5 DEF LookupFails, Reject, Claim, Credit, CreditFails, Settle, Fail
    <2> QED
      BY <2>1, GotoMovesOne, FinishMovesOne DEF SettlerStep, SettlerMove
  <1>6. CASE StoreThrows \/ Crash
    <2>1. \/ UNCHANGED settlers
          \/ \E h \in Handlers : Finish(h)
          \/ settlers' = [h \in Handlers |-> IdleSettler]
      BY <1>6 DEF StoreThrows, Crash
    <2>2. IdleSettler \in Settler
      BY DEF IdleSettler, Settler
    <2> QED
      BY <2>1, <2>2, FinishMovesOne DEF SettlerStep, SettlerMove, TypeOK
  <1>7. CASE UNCHANGED settlers
    BY <1>7 DEF SettlerStep, SettlerMove, TypeOK
  <1> QED
    BY <1>1, <1>2, <1>3, <1>4, <1>5, <1>6, <1>7 DEF Next, Post, PostConsent, PostReal, Enter,
       CreateIntent, CreateRequest, LoseRequest, Record, Decide, SettleOn, vars

\* What landing decided stays so.
LEMMA DecidedStays ==
  ASSUME BaseInv, [Next]_vars, NEW e \in RequestIds, Decided(e)
  PROVE  /\ landing'[e] = landing[e]
         /\ landing'[e] # None /\ landing'[e].status \in Outcomes
  BY LandingRemembers DEF Decided

\* A handler that settles knows landing's outcome and has a stored intent.
LEMMA StepKeepsSettlersInformed ==
  ASSUME BaseInv, [Next]_vars
  PROVE  SettlersAreInformed'
  <1> USE DEF BaseInv
  <1> SUFFICES ASSUME NEW h \in Handlers, NEW s \in Settler, settlers'[h] = s, s.pc # "idle"
               PROVE  Informed(s)'
    BY SettlerSteps DEF SettlersAreInformed
  <1>1. SettlerStep(h) /\ settlers[h] \in Settler
    BY SettlerSteps DEF TypeOK
  <1>2. PICK r : r \in Settler /\ settlers[h] = r
    BY <1>1
  <1>3. CASE /\ r.pc # "idle" /\ s.request = r.request /\ s.intent = r.intent
             /\ s.pc = r.pc \/ (r.pc \in Settling /\ s.pc \in Claimed)
    <2>1. Informed(r)
      BY <1>2, <1>3 DEF SettlersAreInformed
    <2>2. /\ r.pc # "status" => /\ landing'[r.request] = landing[r.request]
                                /\ landing'[r.request] # None /\ landing'[r.request].status \in Outcomes
          /\ r.pc \in Settling => intents'[r.intent] # None
      BY <2>1, DecidedStays, IntentsStay DEF Informed
    <2> QED
      BY <1>3, <2>1, <2>2 DEF Informed, Decided, Settling, Claimed
  <1>4. CASE s = IdleSettler
    BY <1>4 DEF IdleSettler
  <1>5. ASSUME NEW e \in RequestIds,
               \/ Decided(e) /\ s = [pc |-> "lookup", request |-> e, intent |-> None]
               \/ s = [pc |-> "status", request |-> e, intent |-> None]
        PROVE  Informed(s)'
    BY <1>5, DecidedStays DEF Informed, Decided, Settling
  <1>6. ASSUME r.pc = "status", Decided(r.request), s = [r EXCEPT !.pc = "lookup"]
        PROVE  Informed(s)'
    <2>1. r.request \in RequestIds
      BY <1>2, <1>6 DEF SettlersAreInformed, Informed
    <2>2. s.request = r.request /\ s.pc = "lookup"
      BY <1>6 DEF Settler
    <2> QED
      BY <1>6, <2>1, <2>2, DecidedStays DEF Informed, Decided, Settling
  <1>7. ASSUME r.pc = "lookup", UNCHANGED intents,
               NEW i \in IntentIds, intents[i] \in Intent,
               s = [r EXCEPT !.intent = i,
                             !.pc = IF landing[r.request].status = "completed"
                                    THEN "claim" ELSE "reject"]
        PROVE  Informed(s)'
    <2>1. s.request = r.request /\ s.intent = i
      BY <1>7 DEF Settler
    <2>2. r.request \in RequestIds /\ Decided(r.request)
      BY <1>2, <1>7 DEF SettlersAreInformed, Informed
    <2>3. /\ landing'[r.request] = landing[r.request]
          /\ landing'[r.request] # None /\ landing'[r.request].status \in Outcomes
      BY <2>2, DecidedStays
    <2>4. s.pc = "reject" => landing[r.request].status # "completed"
      BY <1>7 DEF Settler
    <2> QED
      BY <1>7, <2>1, <2>2, <2>3, <2>4, NoneIsApart DEF Informed, Decided, Settling, Outcomes
  <1>8. CASE \/ Claim(h) /\ s = [r EXCEPT !.pc = "credit"]
             \/ Credit(h) /\ s = [r EXCEPT !.pc = "settle"]
             \/ CreditFails(h) /\ s = [r EXCEPT !.pc = "fail"]
    <2>1. /\ r.pc \in Settling /\ s.pc \in Claimed
          /\ s.request = r.request /\ s.intent = r.intent
      BY <1>2, <1>8 DEF Claim, Credit, CreditFails, Settling, Claimed, Settler
    <2> QED
      BY <1>3, <2>1 DEF Settling
  <1>9. CASE s = r
    <2>1. /\ r.pc # "idle" /\ s.request = r.request /\ s.intent = r.intent
          /\ s.pc = r.pc \/ (r.pc \in Settling /\ s.pc \in Claimed)
      BY <1>9
    <2> QED
      BY <1>3, <2>1
  <1> HIDE DEF BaseInv
  <1>10. SettlerMove(h, r, s)
    BY <1>1, <1>2 DEF SettlerStep
  <1> QED
    BY <1>4, <1>5, <1>6, <1>7, <1>8, <1>9, <1>10 DEF SettlerMove

-----------------------------------------------------------------------------
\* What a step does to the credit of one intent.
CreditStep(i) ==
  \/ credits'[i] = credits[i]
  \/ /\ credits'[i] = credits[i] + 1
     /\ \E h \in Handlers :
          /\ Credit(h) \/ CreditFails(h)
          /\ settlers[h].pc = "credit" /\ settlers[h].intent = i

\* City is called for the claimed intent, and for no other.
LEMMA CreditSteps ==
  ASSUME BaseInv, [Next]_vars
  PROVE  (\A i \in IntentIds : CreditStep(i)) /\ credits' \in [IntentIds -> Nat]
  <1> USE DEF BaseInv
  <1>1. ASSUME NEW h \in Handlers, Credit(h) \/ CreditFails(h)
        PROVE  (\A i \in IntentIds : CreditStep(i)) /\ credits' \in [IntentIds -> Nat]
    <2>1. PICK i : i \in IntentIds /\ i = settlers[h].intent
      BY <1>1 DEF Credit, CreditFails, SettlersAreInformed, Informed, Settling
    <2>2. \/ UNCHANGED credits
          \/ credits' = [credits EXCEPT ![i] = credits[i] + 1]
      BY <1>1, <2>1 DEF Credit, CreditFails, CreditCity
    <2>3. settlers[h].pc = "credit"
      BY <1>1 DEF Credit, CreditFails
    <2>4. CreditStep(i)
      BY <1>1, <2>1, <2>2, <2>3 DEF CreditStep, TypeOK
    <2>5. \A k \in IntentIds \ {i} : credits'[k] = credits[k]
      BY <2>2 DEF TypeOK
    <2> QED
      BY <2>2, <2>4, <2>5 DEF CreditStep, TypeOK
  <1>2. CASE UNCHANGED credits
    BY <1>2 DEF CreditStep, TypeOK
  <1> QED
    BY <1>1, <1>2 DEF Next, Post, PostConsent, PostReal, Enter, CreateIntent, CreateRequest,
       LoseRequest, Record, Decide, Callback, PollRead, PollStatus, SettleOn, LookupFails, Lookup,
       Reject, Claim, Settle, Fail, StoreThrows, Crash, vars

-----------------------------------------------------------------------------
\* What holds whoever posts what.
LEMMA BaseInvariant == Spec => []BaseInv
  <1>1. Init => BaseInv
    <2> SUFFICES ASSUME Init PROVE BaseInv
      OBVIOUS
    <2>1. IdlePoster \in Poster /\ IdleSettler \in Settler
      BY DEF IdlePoster, IdleSettler, Poster, Settler
    <2>2. TypeOK
      BY <2>1, BoundsAreNaturals DEF Init, TypeOK
    <2> QED
      BY <2>2 DEF Init, BaseInv, PostsAreOrders, SettlersAreInformed, IdlePoster, IdleSettler
  <1>2. BaseInv /\ [Next]_vars => BaseInv'
    <2> SUFFICES ASSUME BaseInv, [Next]_vars PROVE BaseInv'
      OBVIOUS
    <2> USE DEF BaseInv
    <2>2. faults' \in 0..MaxFaults /\ crashes' \in 0..MaxCrashes
      <3>1. \/ UNCHANGED faults
            \/ faults < MaxFaults /\ faults' = faults + 1
        BY DEF Next, Post, PostConsent, PostReal, Enter, CreateIntent,
           CreateRequest, LoseRequest, Record, Decide, Callback, PollRead, PollStatus, SettleOn,
           LookupFails, Lookup, Reject, Claim, Credit, CreditFails, Settle, Fail, StoreThrows, Crash, vars
      <3>2. \/ UNCHANGED crashes
            \/ crashes < MaxCrashes /\ crashes' = crashes + 1
        BY DEF Next, Post, PostConsent, PostReal, Enter, CreateIntent,
           CreateRequest, LoseRequest, Record, Decide, Callback, PollRead, PollStatus, SettleOn,
           LookupFails, Lookup, Reject, Claim, Credit, CreditFails, Settle, Fail, StoreThrows, Crash, vars
      <3>3. faults \in 0..MaxFaults /\ crashes \in 0..MaxCrashes
        BY DEF TypeOK
      <3> HIDE DEF BaseInv
      <3> QED
        BY <3>1, <3>2, <3>3, BoundsAreNaturals
    <2>3. TypeOK'
      BY <2>2, CreditSteps, IntentSteps, LandingKeepsTypes, PosterSteps, SettlerSteps
      DEF TypeOK, IntentsKeepTypes
    <2> QED
      BY <2>3, StepKeepsPosts, StepKeepsSettlersInformed
  <1> QED
    BY <1>1, <1>2, PTL DEF Spec

\* The state is well typed whatever is posted: every handler names stored
\* intents and requests landing knows.
THEOREM OnionTypeCorrect == Spec => []TypeOK
  BY BaseInvariant, PTL DEF BaseInv

-----------------------------------------------------------------------------
(* If no key is in flight twice.                                            *)

\* A POST that goes to landing has its intent to itself, and records what
\* landing knows.
PostsHoldCreated ==
  \A p \in Posters : posters[p].pc \in {"request", "record"} =>
    /\ intents[IntentOf(posters[p].order)].state = "created"
    /\ posters[p].pc = "record" => landing[ExternalId(p, posters[p].order)] # None

\* An intent is as far as its burn request is.
IntentFollows(t) ==
  /\ t.state = "created" <=> t.request = None
  /\ t.request # None => landing[t.request] # None
  /\ t.state \in {"settling", "settled"} => landing[t.request].status = "completed"
  /\ t.state = "denied" => landing[t.request].status = "denied"
  /\ t.state = "failed" =>
       \/ landing[t.request].status = "failed"
       \/ landing[t.request].status = "completed" /\ faults > 0

IntentsFollowLanding == \A i \in IntentIds : intents[i] # None => IntentFollows(intents[i])

\* A handler settles an intent of the request it was told of, claims what was
\* burned, and fails what it claimed only after a fault.
SettlersFollowRequests ==
  \A h \in Handlers : settlers[h].pc \in Settling =>
    /\ intents[settlers[h].intent].request = settlers[h].request
    /\ settlers[h].pc # "reject" => landing[settlers[h].request].status = "completed"
    /\ settlers[h].pc = "fail" => faults > 0

\* City was called once for an intent past its credit, and not for one before it.
CreditsFollowClaims ==
  /\ \A i \in IntentIds :
       /\ credits[i] <= 1
       /\ credits[i] > 0 =>
            /\ intents[i] # None /\ intents[i].state \in {"settling", "settled", "failed"}
            /\ landing[intents[i].request].status = "completed"
       /\ intents[i] # None /\ intents[i].state = "settled" => credits[i] = 1
  /\ \A h \in Handlers :
       /\ settlers[h].pc = "credit" => credits[settlers[h].intent] = 0
       /\ settlers[h].pc = "settle" => credits[settlers[h].intent] = 1

OneSettles == PostsHoldCreated /\ IntentsFollowLanding /\ SettlersFollowRequests /\ ClaimIsExclusive

AloneInv == OneSettles /\ CreditsFollowClaims

\* Landing has a request under the user who posted it, and the intent's is its user's.
UsersInv ==
  /\ \A p \in Posters : \A o \in PostsOf[p] :
       landing[ExternalId(p, o)] # None => landing[ExternalId(p, o)].user = o.user
  /\ \A i \in IntentIds : intents[i] # None /\ intents[i].request # None =>
       landing[intents[i].request].user = i[1]

\* What a step may turn a stored intent, t, into: u.
IntentMove(i, t, u) ==
  \/ u = t
  \/ /\ t.state = "created"
     /\ \E p \in Posters, e \in RequestIds :
          /\ Record(p) /\ i = IntentOf(posters[p].order) /\ e = ExternalId(p, posters[p].order)
          /\ landing[e] # None
          /\ u = [t EXCEPT !.state = "awaiting_approval", !.request = e]
  \/ /\ t.state # "created" /\ landing[t.request].status \in {"denied", "failed"}
     /\ u = [t EXCEPT !.state = landing[t.request].status]
  \/ /\ t.state = "awaiting_approval" /\ landing[t.request].status = "completed"
     /\ \E h \in Handlers : Claim(h) /\ settlers[h].intent = i
     /\ u = [t EXCEPT !.state = "settling"]
  \/ /\ t.state = "settling" /\ landing[t.request].status = "completed"
     /\ \E h \in Handlers : settlers[h].intent = i /\ Settle(h)
     /\ u = [t EXCEPT !.state = "settled"]
  \/ /\ t.state = "settling" /\ landing[t.request].status = "completed" /\ faults > 0
     /\ \E h \in Handlers : settlers[h].intent = i /\ Fail(h)
     /\ u = [t EXCEPT !.state = "failed"]

\* The life of an intent: created, given its request once, then to the outcome
\* of that request, by way of one claim if it is burned.
LEMMA LifeOfAnIntent ==
  ASSUME BaseInv, OneSettles, [Next]_vars, NEW i \in IntentIds, intents[i] # None
  PROVE  IntentMove(i, intents[i], intents'[i])
  <1> DEFINE t == intents[i]
             u == intents'[i]
  <1>1. IntentStep(i) /\ t \in Intent
    BY IntentSteps DEF BaseInv, TypeOK
  <1>2. ASSUME NEW p \in Posters, Record(p), i = IntentOf(posters[p].order),
               u = [t EXCEPT !.state = "awaiting_approval",
                             !.request = ExternalId(p, posters[p].order)]
        PROVE  IntentMove(i, t, u)
    <2>1. posters[p].order \in PostsOf[p]
      BY <1>2 DEF Record, BaseInv, PostsAreOrders
    <2>2. PICK e \in RequestIds : e = ExternalId(p, posters[p].order)
      BY <2>1, OrderTypes
    <2>3. t.state = "created" /\ landing[e] # None
      BY <1>2, <2>2 DEF Record, OneSettles, PostsHoldCreated
    <2> QED
      BY <1>2, <2>2, <2>3 DEF IntentMove
  <1>3. ASSUME NEW h \in Handlers, settlers[h].intent = i, settlers[h].pc \in Settling
        PROVE  /\ t.request = settlers[h].request /\ t.state # "created"
               /\ settlers[h].pc = "reject" => landing[t.request].status \in {"denied", "failed"}
               /\ settlers[h].pc # "reject" => landing[t.request].status = "completed"
               /\ settlers[h].pc \in Claimed => t.state = "settling"
               /\ settlers[h].pc = "fail" => faults > 0
    <2>1. Informed(settlers[h])
      BY <1>3 DEF BaseInv, SettlersAreInformed, Settling
    <2>2. t.request = settlers[h].request /\ IntentFollows(t)
      BY <1>3 DEF OneSettles, SettlersFollowRequests, IntentsFollowLanding
    <2>3. t.state # "created"
      BY <2>1, <2>2, NoneIsApart DEF Informed, IntentFollows
    <2>4. settlers[h].pc \in Claimed => t.state = "settling"
      BY <1>3 DEF OneSettles, ClaimIsExclusive, Claimed
    <2> QED
      BY <1>3, <2>1, <2>2, <2>3, <2>4 DEF Informed, OneSettles, SettlersFollowRequests
  <1>4. ASSUME NEW h \in Handlers, settlers[h].intent = i,
               Reject(h), u = [t EXCEPT !.state = landing[settlers[h].request].status]
        PROVE  IntentMove(i, t, u)
    BY <1>3, <1>4 DEF Reject, Settling, IntentMove
  <1>5. ASSUME NEW h \in Handlers, settlers[h].intent = i,
               Claim(h), t.state = "awaiting_approval", u = [t EXCEPT !.state = "settling"]
        PROVE  IntentMove(i, t, u)
    <2>1. landing[t.request].status = "completed"
      BY <1>3, <1>5 DEF Claim, Settling
    <2> QED
      BY <1>5, <2>1 DEF IntentMove
  <1>6. ASSUME NEW h \in Handlers, settlers[h].intent = i,
               \/ Settle(h) /\ u = [t EXCEPT !.state = "settled"]
               \/ Fail(h) /\ u = [t EXCEPT !.state = "failed"]
        PROVE  IntentMove(i, t, u)
    <2>1. /\ t.state = "settling" /\ landing[t.request].status = "completed"
          /\ Fail(h) => faults > 0
      BY <1>3, <1>6 DEF Settle, Fail, Settling, Claimed
    <2> QED
      BY <1>6, <2>1 DEF IntentMove
  <1>7. CASE u = t
    BY <1>7 DEF IntentMove
  <1> HIDE DEF t, u
  <1> QED
    BY <1>1, <1>2, <1>4, <1>5, <1>6, <1>7 DEF IntentStep, t, u

\* A request once recorded stays the intent's.
LEMMA RequestsStick ==
  ASSUME BaseInv, OneSettles, [Next]_vars, NEW i \in IntentIds, intents[i] # None,
         intents[i].request # None
  PROVE  /\ intents'[i] # None /\ intents'[i] \in Intent
         /\ intents'[i].request = intents[i].request
  <1>1. IntentMove(i, intents[i], intents'[i])
    BY LifeOfAnIntent
  <1>2. intents[i].state # "created" /\ intents[i] \in Intent
    BY DEF OneSettles, IntentsFollowLanding, IntentFollows, BaseInv, TypeOK
  <1>3. PICK t : t \in Intent /\ t = intents[i]
    BY <1>2
  <1> QED
    BY <1>1, <1>2, <1>3, IntentsStay DEF IntentMove, Intent

\* Faults are only added.
LEMMA FaultsStay ==
  ASSUME BaseInv, [Next]_vars, faults > 0
  PROVE  faults' > 0
  <1>1. faults \in Nat
    BY BoundsAreNaturals DEF BaseInv, TypeOK
  <1>2. UNCHANGED faults \/ faults' = faults + 1
    BY DEF Next, Post, PostConsent, PostReal, Enter, CreateIntent, CreateRequest, LoseRequest, Record,
       Decide, Callback, PollRead, PollStatus, SettleOn, LookupFails, Lookup, Reject, Claim, Credit,
       CreditFails, Settle, Fail, StoreThrows, Crash, vars
  <1> QED
    BY <1>1, <1>2

\* An intent stays as far as its request is.
LEMMA StepKeepsFollowing ==
  ASSUME BaseInv, OneSettles, [Next]_vars
  PROVE  IntentsFollowLanding'
  <1> SUFFICES ASSUME NEW i \in IntentIds, NEW u \in Intent, intents'[i] = u
               PROVE  IntentFollows(u)'
    BY IntentSteps DEF IntentsFollowLanding, IntentsKeepTypes
  <1>1. CASE intents[i] = None
    <2>1. u.state = "created" /\ u.request = None
      BY <1>1, IntentSteps, NoneIsApart DEF IntentStep
    <2> QED
      BY <2>1 DEF IntentFollows
  <1>2. CASE intents[i] # None
    <2>1. PICK t : t \in Intent /\ t = intents[i]
      BY <1>2 DEF BaseInv, TypeOK
    <2>2. IntentFollows(t) /\ IntentMove(i, t, u)
      BY <1>2, <2>1, LifeOfAnIntent DEF OneSettles, IntentsFollowLanding
    <2>3. ASSUME NEW e \in RequestIds, landing[e] # None
          PROVE  /\ landing'[e] # None
                 /\ landing[e].status \in Outcomes => landing'[e] = landing[e]
      BY <2>3, LandingRemembers DEF Decided
    <2>4. faults > 0 => faults' > 0
      BY FaultsStay
    <2>5. CASE u = t
      BY <2>1, <2>2, <2>3, <2>4, <2>5 DEF IntentFollows, Intent, Outcomes
    <2>6. ASSUME NEW e \in RequestIds, landing[e] # None,
                 u = [t EXCEPT !.state = "awaiting_approval", !.request = e]
          PROVE  IntentFollows(u)'
      <3>1. u.state = "awaiting_approval" /\ u.request = e
        BY <2>1, <2>6 DEF Intent
      <3> QED
        BY <2>3, <2>6, <3>1, NoneIsApart DEF IntentFollows
    <2>7. ASSUME t.state # "created",
                 NEW st \in {"denied", "failed", "settling", "settled"}, u = [t EXCEPT !.state = st],
                 \/ st \in {"denied", "failed"} /\ landing[t.request].status = st
                 \/ st \in {"settling", "settled"} /\ landing[t.request].status = "completed"
                 \/ st = "failed" /\ landing[t.request].status = "completed" /\ faults > 0
          PROVE  IntentFollows(u)'
      <3>1. u.state = st /\ u.request = t.request
        BY <2>1, <2>7 DEF Intent
      <3>2. t.request \in RequestIds /\ landing[t.request] # None
        BY <2>1, <2>2, <2>7 DEF IntentFollows, Intent
      <3>3. landing'[t.request] = landing[t.request] /\ landing'[t.request] # None
        BY <2>3, <2>7, <3>2 DEF Outcomes
      <3> QED
        BY <2>4, <2>7, <3>1, <3>2, <3>3, NoneIsApart DEF IntentFollows
    <2> QED
      BY <2>2, <2>5, <2>6, <2>7 DEF IntentMove
  <1> QED
    BY <1>1, <1>2

\* A POST that goes to landing keeps its intent to itself.
LEMMA StepKeepsCreated ==
  ASSUME KeysAreExclusive, BaseInv, OneSettles, [Next]_vars
  PROVE  PostsHoldCreated'
  <1> SUFFICES ASSUME NEW p \in Posters, posters'[p].pc \in {"request", "record"}
               PROVE  /\ intents'[IntentOf(posters'[p].order)].state = "created"
                      /\ posters'[p].pc = "record" => landing'[ExternalId(p, posters'[p].order)] # None
    BY DEF PostsHoldCreated, IntentOf, ExternalId
  <1>1. PosterStep(p) /\ posters[p] \in Poster
    BY PosterSteps DEF BaseInv, TypeOK
  <1>2. /\ posters'[p].order = posters[p].order
        /\ \/ posters[p].pc = "create" /\ CreateIntent(p)
           \/ posters[p].pc \in {"request", "record"}
        /\ posters'[p].pc = "record" => posters[p].pc = "record" \/ CreateRequest(p)
    <2>1. PICK r : r \in Poster /\ posters[p] = r
      BY <1>1
    <2>2. PICK s : posters'[p] = s
      OBVIOUS
    <2>3. PosterMove(p, r, s)
      BY <1>1, <2>1, <2>2 DEF PosterStep
    <2>4. ASSUME NEW o \in PostsOf[p], s = [pc |-> "create", order |-> o]
          PROVE  FALSE
      BY <2>2, <2>4
    <2>5. s # IdlePoster
      BY <2>2 DEF IdlePoster
    <2> QED
      BY <2>1, <2>2, <2>3, <2>4, <2>5 DEF PosterMove, Poster
  <1>3. PICK o : o \in PostsOf[p] /\ o = posters[p].order
    BY <1>2 DEF BaseInv, PostsAreOrders, CreateIntent
  <1>4. PICK i : i \in IntentIds /\ i = IntentOf(o)
    BY <1>3, OrderTypes
  <1>5. PICK e : e \in RequestIds /\ e = ExternalId(p, o)
    BY <1>3, OrderTypes
  <1>6. CASE posters[p].pc \in {"request", "record"}
    <2>1. intents[i] # None /\ intents[i].state = "created" /\ intents[i] \in Intent
      BY <1>3, <1>4, <1>6 DEF BaseInv, PostsAreOrders, OneSettles, PostsHoldCreated, TypeOK
    <2>2. ASSUME NEW q \in Posters, Record(q), i = IntentOf(posters[q].order)
          PROVE  FALSE
      <3>1. posters[q].order \in PostsOf[q]
        BY <2>2 DEF Record, BaseInv, PostsAreOrders
      <3>2. p = q
        BY <1>3, <1>4, <2>2, <3>1 DEF KeysAreExclusive, IntentOf
      <3>3. posters'[p].pc = "idle"
        BY <2>2, <3>2 DEF Record, Leave, IdlePoster, BaseInv, TypeOK
      <3> QED
        BY <3>3
    <2>3. intents'[i] = intents[i]
      <3>1. IntentMove(i, intents[i], intents'[i])
        BY <1>4, <2>1, LifeOfAnIntent
      <3> QED
        BY <2>1, <2>2, <3>1, Zenon DEF IntentMove
    <2>4. posters'[p].pc = "record" => landing'[e] # None
      <3>1. CASE posters[p].pc = "record"
        <4>1. landing[e] # None
          BY <1>3, <1>5, <3>1 DEF OneSettles, PostsHoldCreated
        <4> QED
          BY <1>5, <4>1, LandingRemembers
      <3>2. CASE CreateRequest(p)
        <4>1. LandingCreates(e, o.user)
          BY <1>3, <1>5, <3>2 DEF CreateRequest
        <4>2. [status |-> "pending", user |-> o.user] \in Burn
          BY <1>3, OrderTypes DEF Burn
        <4> QED
          BY <1>5, <4>1, <4>2, NoneIsApart DEF LandingCreates, BaseInv, TypeOK
      <3> QED
        BY <1>2, <3>1, <3>2
    <2> QED
      BY <1>2, <1>3, <1>4, <1>5, <2>1, <2>3, <2>4
  <1>7. CASE CreateIntent(p)
    <2>1. intents[i] # None => intents[i] \in Intent /\ IntentFollows(intents[i])
      BY <1>4 DEF BaseInv, TypeOK, OneSettles, IntentsFollowLanding
    <2>2. posters'[p].pc = "request"
      BY <1>7 DEF CreateIntent, Leave, GoOn, IdlePoster, BaseInv, TypeOK, Poster
    <2>3. /\ intents'[i] = IF intents[i] = None
                           THEN [resident |-> o.resident, state |-> "created", request |-> None]
                           ELSE intents[i]
          /\ RouteOf[p] \in {"consent", "real"}
      BY <1>3, <1>4, <1>7, RouteOfType DEF CreateIntent, BaseInv, TypeOK
    <2>4. \/ intents[i] = None
          \/ /\ ~(intents[i].request # None /\ (RouteOf[p] = "real" \/ intents[i].state = "awaiting_approval"))
             /\ ~(RouteOf[p] = "consent" /\ intents[i].state \in Terminal \cup {"settling"})
      <3>1. ~Leave(p)
        BY <2>2 DEF Leave, IdlePoster, BaseInv, TypeOK
      <3> QED
        BY <1>3, <1>4, <1>7, <3>1 DEF CreateIntent
    <2>5. intents'[i].state = "created"
      BY <2>1, <2>3, <2>4 DEF IntentFollows, Intent, IntentStates, Terminal
    <2> QED
      BY <1>2, <1>3, <1>4, <2>2, <2>5
  <1> QED
    BY <1>2, <1>6, <1>7

\* How a handler came to be settling: it stays, looks its intent up, or goes on
\* from its claim.
LEMMA SettlingMoves ==
  ASSUME BaseInv, [Next]_vars, NEW h \in Handlers, settlers'[h].pc \in Settling
  PROVE  \/ settlers'[h] = settlers[h]
         \/ /\ settlers[h].pc = "lookup" /\ UNCHANGED intents
            /\ settlers'[h].request = settlers[h].request
            /\ settlers'[h].intent \in IntentIds
            /\ intents[settlers'[h].intent].request = settlers[h].request
            /\ settlers'[h].pc = IF landing[settlers[h].request].status = "completed"
                                 THEN "claim" ELSE "reject"
         \/ /\ settlers'[h].request = settlers[h].request
            /\ settlers'[h].intent = settlers[h].intent
            /\ \/ /\ Claim(h) /\ intents[settlers[h].intent].state = "awaiting_approval"
                  /\ settlers[h].pc = "claim" /\ settlers'[h].pc = "credit"
               \/ Credit(h) /\ settlers[h].pc = "credit" /\ settlers'[h].pc = "settle"
               \/ CreditFails(h) /\ settlers[h].pc = "credit" /\ settlers'[h].pc = "fail"
  <1>1. PICK r : r \in Settler /\ settlers[h] = r
    BY DEF BaseInv, TypeOK
  <1>2. PICK s : settlers'[h] = s
    OBVIOUS
  <1>3. SettlerMove(h, r, s)
    BY <1>1, <1>2, SettlerSteps DEF SettlerStep
  <1>4. s # IdleSettler
    BY <1>2 DEF IdleSettler, Settling
  <1>5. ASSUME NEW e, s = [pc |-> "lookup", request |-> e, intent |-> None]
               \/ s = [pc |-> "status", request |-> e, intent |-> None]
        PROVE  FALSE
    BY <1>2, <1>5 DEF Settling
  <1>6. ~(s = [r EXCEPT !.pc = "lookup"])
    BY <1>1, <1>2 DEF Settling, Settler
  <1>7. \/ s = r
        \/ \E i \in IntentIds :
             /\ r.pc = "lookup" /\ UNCHANGED intents /\ intents[i].request = r.request
             /\ s = [r EXCEPT !.intent = i,
                              !.pc = IF landing[r.request].status = "completed"
                                     THEN "claim" ELSE "reject"]
        \/ /\ Claim(h) /\ r.pc = "claim" /\ intents[r.intent].state = "awaiting_approval"
           /\ s = [r EXCEPT !.pc = "credit"]
        \/ Credit(h) /\ r.pc = "credit" /\ s = [r EXCEPT !.pc = "settle"]
        \/ CreditFails(h) /\ r.pc = "credit" /\ s = [r EXCEPT !.pc = "fail"]
    BY <1>3, <1>4, <1>5, <1>6, Zenon DEF SettlerMove
  <1>8. ASSUME NEW i \in IntentIds,
               s = [r EXCEPT !.intent = i,
                             !.pc = IF landing[r.request].status = "completed"
                                    THEN "claim" ELSE "reject"]
        PROVE  /\ s.request = r.request /\ s.intent = i
               /\ s.pc = IF landing[r.request].status = "completed" THEN "claim" ELSE "reject"
    BY <1>1, <1>8 DEF Settler
  <1>9. ASSUME NEW pc, s = [r EXCEPT !.pc = pc]
        PROVE  s.request = r.request /\ s.intent = r.intent /\ s.pc = pc
    BY <1>1, <1>9 DEF Settler
  <1> QED
    BY <1>1, <1>2, <1>7, <1>8, <1>9

\* A handler that settles keeps to the request it was told of.
LEMMA StepKeepsRequests ==
  ASSUME BaseInv, OneSettles, [Next]_vars
  PROVE  SettlersFollowRequests'
  <1> SUFFICES ASSUME NEW h \in Handlers, settlers'[h].pc \in Settling
               PROVE  /\ intents'[settlers'[h].intent].request = settlers'[h].request
                      /\ settlers'[h].pc # "reject" =>
                           landing'[settlers'[h].request].status = "completed"
                      /\ settlers'[h].pc = "fail" => faults' > 0
    BY DEF SettlersFollowRequests
  <1>1. CASE settlers[h].pc \in Settling
    <2>1. /\ settlers'[h].request = settlers[h].request
          /\ settlers'[h].intent = settlers[h].intent
          /\ settlers'[h].pc # "reject" => settlers[h].pc # "reject"
          /\ settlers'[h].pc = "fail" => settlers[h].pc = "fail" \/ CreditFails(h)
      BY <1>1, SettlingMoves DEF Settling
    <2>2. PICK e : e \in RequestIds /\ e = settlers[h].request /\ Decided(e)
      BY <1>1 DEF BaseInv, SettlersAreInformed, Informed, Settling
    <2>3. PICK i : i \in IntentIds /\ i = settlers[h].intent /\ intents[i] # None
      BY <1>1 DEF BaseInv, SettlersAreInformed, Informed, Settling
    <2>4. /\ intents[i].request = e
          /\ settlers[h].pc # "reject" => landing[e].status = "completed"
          /\ settlers[h].pc = "fail" => faults > 0
      BY <1>1, <2>2, <2>3 DEF OneSettles, SettlersFollowRequests
    <2>5. intents'[i].request = e
      BY <2>2, <2>3, <2>4, RequestsStick, NoneIsApart
    <2>6. landing'[e] = landing[e]
      BY <2>2, DecidedStays
    <2>7. CreditFails(h) => faults' > 0
      BY BoundsAreNaturals DEF CreditFails, BaseInv, TypeOK
    <2> QED
      BY <2>1, <2>2, <2>3, <2>4, <2>5, <2>6, <2>7, FaultsStay
  <1>2. CASE settlers[h].pc \notin Settling
    <2>1. /\ settlers[h].pc = "lookup" /\ UNCHANGED intents
          /\ settlers'[h].request = settlers[h].request
          /\ intents[settlers'[h].intent].request = settlers[h].request
          /\ settlers'[h].pc = IF landing[settlers[h].request].status = "completed"
                               THEN "claim" ELSE "reject"
      BY <1>2, SettlingMoves DEF Settling
    <2>2. PICK e : e \in RequestIds /\ e = settlers[h].request /\ Decided(e)
      BY <2>1 DEF BaseInv, SettlersAreInformed, Informed
    <2>3. landing'[e] = landing[e]
      BY <2>2, DecidedStays
    <2> QED
      BY <2>1, <2>2, <2>3
  <1> QED
    BY <1>1, <1>2

\* One handler at a time is past the claim of an intent.
LEMMA StepKeepsClaims ==
  ASSUME BaseInv, OneSettles, [Next]_vars
  PROVE  ClaimIsExclusive'
  <1>1. ASSUME NEW h \in Handlers, settlers'[h].pc \in Claimed
        PROVE  \/ /\ settlers[h].pc \in Claimed
                  /\ settlers'[h].intent = settlers[h].intent
               \/ /\ Claim(h) /\ intents[settlers[h].intent].state = "awaiting_approval"
                  /\ settlers[h].pc = "claim" /\ settlers'[h].intent = settlers[h].intent
    BY <1>1, SettlingMoves DEF Settling, Claimed
  <1>2. ASSUME NEW h \in Handlers, Claim(h), intents[settlers[h].intent].state = "awaiting_approval"
        PROVE  /\ intents'[settlers[h].intent].state = "settling"
               /\ \A g \in Handlers \ {h} : settlers'[g] = settlers[g]
    <2>1. PICK i : i \in IntentIds /\ i = settlers[h].intent /\ intents[i] \in Intent
      BY <1>2 DEF Claim, BaseInv, TypeOK, SettlersAreInformed, Informed, Settling
    <2>2. intents' = [intents EXCEPT ![i].state = "settling"] /\ Goto(h, "credit")
      BY <1>2, <2>1 DEF Claim
    <2>3. intents'[i].state = "settling"
      BY <2>1, <2>2 DEF BaseInv, TypeOK, Intent
    <2> QED
      BY <2>1, <2>2, <2>3, GotoMovesOne DEF BaseInv
  <1>3. ASSUME NEW h \in Handlers, settlers[h].pc \in Claimed, settlers'[h].pc \in Claimed
        PROVE  intents'[settlers[h].intent].state = "settling"
    <2>1. PICK i : i \in IntentIds /\ i = settlers[h].intent /\ intents[i] # None
      BY <1>3 DEF BaseInv, SettlersAreInformed, Informed, Settling, Claimed
    <2>2. PICK t : t \in Intent /\ t = intents[i]
      BY <2>1 DEF BaseInv, TypeOK
    <2>3. t.state = "settling" /\ landing[t.request].status = "completed"
      BY <1>3, <2>1, <2>2 DEF OneSettles, ClaimIsExclusive, Claimed, IntentsFollowLanding, IntentFollows
    <2>4. ASSUME NEW g \in Handlers, settlers[g].intent = i, Settle(g) \/ Fail(g)
          PROVE  FALSE
      <3>1. settlers[g].pc \in Claimed /\ Finish(g)
        BY <2>4 DEF Settle, Fail, Claimed
      <3>2. g = h
        BY <1>3, <2>1, <2>4, <3>1 DEF OneSettles, ClaimIsExclusive, Claimed
      <3>3. settlers'[h].pc = "idle"
        BY <3>1, <3>2, FinishMovesOne DEF IdleSettler, BaseInv
      <3> QED
        BY <1>3, <3>3 DEF Claimed
    <2>5. IntentMove(i, t, intents'[i])
      BY <2>1, <2>2, LifeOfAnIntent
    <2>6. intents'[i] = t
      BY <2>3, <2>4, <2>5 DEF IntentMove
    <2> QED
      BY <2>1, <2>3, <2>6
  <1>4. ASSUME NEW h \in Handlers, settlers'[h].pc \in Claimed
        PROVE  intents'[settlers'[h].intent].state = "settling"
    BY <1>1, <1>2, <1>3, <1>4
  <1>5. ASSUME NEW h \in Handlers, settlers'[h].pc \in Claimed,
               NEW g \in Handlers, settlers'[g].pc \in Claimed,
               settlers'[g].intent = settlers'[h].intent
        PROVE  g = h
    <2>1. ASSUME NEW a \in Handlers, NEW b \in Handlers, a # b,
                 settlers[a].intent = settlers[b].intent, settlers[b].pc \in Claimed,
                 Claim(a), intents[settlers[a].intent].state = "awaiting_approval"
          PROVE  FALSE
      BY <2>1 DEF OneSettles, ClaimIsExclusive, Claimed
    <2>2. CASE settlers[h].pc \in Claimed /\ settlers[g].pc \in Claimed
      BY <1>1, <1>5, <2>2 DEF OneSettles, ClaimIsExclusive, Claimed
    <2>3. CASE g # h /\ Claim(h) /\ intents[settlers[h].intent].state = "awaiting_approval"
               /\ settlers'[h].intent = settlers[h].intent
      <3>1. settlers'[g] = settlers[g]
        BY <1>2, <2>3
      <3> QED
        BY <1>5, <2>1, <2>3, <3>1
    <2>4. CASE g # h /\ Claim(g) /\ intents[settlers[g].intent].state = "awaiting_approval"
               /\ settlers'[g].intent = settlers[g].intent
      <3>1. settlers'[h] = settlers[h]
        BY <1>2, <2>4
      <3> QED
        BY <1>5, <2>1, <2>4, <3>1
    <2> QED
      BY <1>1, <1>5, <2>2, <2>3, <2>4
  <1> QED
    BY <1>4, <1>5 DEF ClaimIsExclusive, Claimed

\* City is called once for a claimed intent, whatever else goes on.
LEMMA StepKeepsCredits ==
  ASSUME BaseInv, OneSettles, CreditsFollowClaims, [Next]_vars
  PROVE  CreditsFollowClaims'
  <1>1. ASSUME NEW h \in Handlers, settlers[h].pc \in Claimed
        PROVE  /\ settlers[h].intent \in IntentIds
               /\ intents[settlers[h].intent] # None
               /\ intents[settlers[h].intent].state = "settling"
               /\ landing[intents[settlers[h].intent].request].status = "completed"
    <2>1. settlers[h].intent \in IntentIds /\ intents[settlers[h].intent] # None
      BY <1>1 DEF BaseInv, SettlersAreInformed, Informed, Settling, Claimed
    <2> QED
      BY <1>1, <2>1 DEF OneSettles, ClaimIsExclusive, Claimed, IntentsFollowLanding, IntentFollows
  <1>2. ASSUME NEW i \in IntentIds, credits'[i] # credits[i]
        PROVE  /\ credits[i] = 0 /\ credits'[i] = 1
               /\ \E h \in Handlers :
                    /\ settlers[h].pc = "credit" /\ settlers[h].intent = i
                    /\ Credit(h) \/ CreditFails(h)
    <2>1. credits[i] \in Nat /\ CreditStep(i)
      BY CreditSteps DEF BaseInv, TypeOK
    <2>2. PICK h \in Handlers : /\ credits'[i] = credits[i] + 1
                                /\ Credit(h) \/ CreditFails(h)
                                /\ settlers[h].pc = "credit" /\ settlers[h].intent = i
      BY <1>2, <2>1 DEF CreditStep
    <2>3. credits[i] = 0
      BY <2>2 DEF CreditsFollowClaims
    <2> QED
      BY <2>2, <2>3
  <1>3. ASSUME NEW i \in IntentIds
        PROVE  /\ credits'[i] <= 1
               /\ credits'[i] > 0 =>
                    /\ intents'[i] # None
                    /\ intents'[i].state \in {"settling", "settled", "failed"}
                    /\ landing'[intents'[i].request].status = "completed"
    <2>1. credits'[i] <= 1 /\ credits'[i] \in Nat /\ credits[i] \in Nat
      BY <1>2, CreditSteps DEF CreditsFollowClaims, BaseInv, TypeOK
    <2>2. ASSUME credits'[i] > 0
          PROVE  /\ intents[i] # None
                 /\ intents[i].state \in {"settling", "settled", "failed"}
                 /\ landing[intents[i].request].status = "completed"
      BY <1>1, <1>2, <2>2 DEF CreditsFollowClaims, Claimed
    <2>3. ASSUME credits'[i] > 0
          PROVE  /\ intents'[i] # None
                 /\ intents'[i].state \in {"settling", "settled", "failed"}
                 /\ landing'[intents'[i].request].status = "completed"
      <3>1. PICK t : t \in Intent /\ t = intents[i]
        BY <2>2, <2>3 DEF BaseInv, TypeOK
      <3>2. IntentFollows(t) /\ IntentMove(i, t, intents'[i])
        BY <2>2, <2>3, <3>1, LifeOfAnIntent DEF OneSettles, IntentsFollowLanding
      <3>3. t.request \in RequestIds /\ Decided(t.request)
        BY <2>2, <2>3, <3>1, <3>2 DEF IntentFollows, Intent, Decided, Outcomes
      <3>4. landing'[t.request] = landing[t.request]
        BY <3>3, DecidedStays
      <3>5. intents'[i].state \in {"settling", "settled", "failed"}
        BY <2>2, <2>3, <3>1, <3>2 DEF IntentMove, Intent
      <3> QED
        BY <2>2, <2>3, <3>1, <3>3, <3>4, <3>5, RequestsStick, NoneIsApart
    <2> QED
      BY <2>1, <2>3
  <1>4. ASSUME NEW i \in IntentIds, intents'[i] # None, intents'[i].state = "settled"
        PROVE  credits'[i] = 1
    <2>1. intents[i] # None
      BY <1>4, IntentSteps, NoneIsApart DEF IntentStep
    <2>2. PICK t : t \in Intent /\ t = intents[i]
      BY <2>1 DEF BaseInv, TypeOK
    <2>3. IntentMove(i, t, intents'[i]) /\ IntentFollows(t)
      BY <2>1, <2>2, LifeOfAnIntent DEF OneSettles, IntentsFollowLanding
    <2>4. t.state = "settled" \/ (\E h \in Handlers : settlers[h].intent = i /\ Settle(h))
      BY <1>4, <2>2, <2>3 DEF IntentMove, Intent
    <2>5. credits[i] = 1
      BY <2>1, <2>2, <2>4 DEF CreditsFollowClaims, Settle
    <2> QED
      BY <1>2, <2>5
  <1>5. ASSUME NEW h \in Handlers, settlers'[h].pc = "credit"
        PROVE  credits'[settlers'[h].intent] = 0
    <2>1. /\ settlers'[h].intent = settlers[h].intent
          /\ \/ settlers'[h] = settlers[h] /\ settlers[h].pc = "credit"
             \/ /\ Claim(h) /\ settlers[h].pc = "claim"
                /\ intents[settlers[h].intent].state = "awaiting_approval"
      BY <1>5, SettlingMoves DEF Settling
    <2>2. PICK i : i \in IntentIds /\ i = settlers[h].intent /\ credits[i] \in Nat
      BY <2>1 DEF BaseInv, TypeOK, SettlersAreInformed, Informed, Settling
    <2>3. CASE settlers'[h] = settlers[h] /\ settlers[h].pc = "credit"
      <3>1. credits[i] = 0
        BY <2>2, <2>3 DEF CreditsFollowClaims
      <3>2. ASSUME NEW g \in Handlers, settlers[g].pc = "credit", settlers[g].intent = i,
                   Credit(g) \/ CreditFails(g)
            PROVE  FALSE
        <4>1. g = h
          BY <2>2, <2>3, <3>2 DEF OneSettles, ClaimIsExclusive
        <4>2. settlers'[g].pc \in {"settle", "fail"}
          BY <3>2 DEF Credit, CreditFails, Goto, BaseInv, TypeOK, Settler
        <4> QED
          BY <1>5, <4>1, <4>2
      <3> QED
        BY <1>2, <2>1, <2>2, <3>1, <3>2
    <2>4. CASE Claim(h) /\ intents[settlers[h].intent].state = "awaiting_approval"
      <3>1. credits'[i] = credits[i]
        BY <2>4 DEF Claim
      <3>2. credits[i] = 0
        BY <2>2, <2>4 DEF CreditsFollowClaims
      <3> QED
        BY <2>1, <2>2, <3>1, <3>2
    <2> QED
      BY <2>1, <2>3, <2>4
  <1>6. ASSUME NEW h \in Handlers, settlers'[h].pc = "settle"
        PROVE  credits'[settlers'[h].intent] = 1
    <2>1. /\ settlers'[h].intent = settlers[h].intent
          /\ \/ settlers'[h] = settlers[h] /\ settlers[h].pc = "settle"
             \/ Credit(h) /\ settlers[h].pc = "credit"
      BY <1>6, SettlingMoves DEF Settling
    <2>2. PICK i : i \in IntentIds /\ i = settlers[h].intent
      BY <1>1, <2>1 DEF Claimed
    <2>3. CASE settlers[h].pc = "settle"
      <3>1. credits[i] = 1
        BY <2>2, <2>3 DEF CreditsFollowClaims
      <3> QED
        BY <1>2, <2>1, <2>2, <3>1
    <2>4. CASE Credit(h) /\ settlers[h].pc = "credit"
      <3>1. credits[i] = 0
        BY <2>2, <2>4 DEF CreditsFollowClaims
      <3>2. credits'[i] = 1
        BY <2>2, <2>4, <3>1 DEF Credit, CreditCity, BaseInv, TypeOK
      <3> QED
        BY <2>1, <2>2, <3>2
    <2> QED
      BY <2>1, <2>3, <2>4
  <1> QED
    BY <1>3, <1>4, <1>5, <1>6 DEF CreditsFollowClaims

\* Landing makes a request only for a POST of one of its orders, for that order's user.
LEMMA LandingMoves ==
  ASSUME BaseInv, [Next]_vars, NEW e \in RequestIds, landing[e] = None, landing'[e] # None
  PROVE  \E p \in Posters : \E o \in PostsOf[p] :
           e = ExternalId(p, o) /\ landing'[e].user = o.user
  <1>1. ASSUME NEW p \in Posters, CreateRequest(p) \/ LoseRequest(p)
        PROVE  \E o \in PostsOf[p] : e = ExternalId(p, o) /\ landing'[e].user = o.user
    <2>1. PICK o : o \in PostsOf[p] /\ o = posters[p].order
      BY <1>1 DEF CreateRequest, LoseRequest, BaseInv, PostsAreOrders
    <2>2. LandingCreates(ExternalId(p, o), o.user)
      BY <1>1, <2>1 DEF CreateRequest, LoseRequest
    <2>3. PICK f : f \in RequestIds /\ f = ExternalId(p, o)
      BY <2>1, OrderTypes
    <2>4. e = f /\ landing'[e] = [status |-> "pending", user |-> o.user]
      BY <2>2, <2>3 DEF LandingCreates, BaseInv, TypeOK
    <2> QED
      BY <2>1, <2>3, <2>4
  <1>2. ASSUME NEW f \in RequestIds, NEW outcome \in Outcomes, Decide(f, outcome)
        PROVE  FALSE
    BY <1>2 DEF Decide, BaseInv, TypeOK
  <1>3. ~UNCHANGED landing
    OBVIOUS
  <1> QED
    BY <1>1, <1>2, <1>3 DEF Next, Post, PostConsent, PostReal, Enter, CreateIntent, Record, Callback,
       PollRead, PollStatus, SettleOn, LookupFails, Lookup, Reject, Claim, Credit, CreditFails,
       Settle, Fail, StoreThrows, Crash, vars

\* A request's user is the user of every order it can be for.
LEMMA StepKeepsUsers ==
  ASSUME RealKeysAreOwn, BaseInv, OneSettles, UsersInv, [Next]_vars
  PROVE  UsersInv'
  <1>1. ASSUME NEW p \in Posters, NEW o \in PostsOf[p], landing'[ExternalId(p, o)] # None
        PROVE  landing'[ExternalId(p, o)].user = o.user
    <2>1. PICK e : e \in RequestIds /\ e = ExternalId(p, o)
      BY OrderTypes
    <2>2. CASE landing[e] # None
      BY <2>1, <2>2, LandingRemembers DEF UsersInv
    <2>3. CASE landing[e] = None
      <3>1. PICK q \in Posters : \E x \in PostsOf[q] :
              e = ExternalId(q, x) /\ landing'[e].user = x.user
        BY <1>1, <2>1, <2>3, LandingMoves
      <3>2. PICK x \in PostsOf[q] : e = ExternalId(q, x) /\ landing'[e].user = x.user
        BY <3>1
      <3>3. x.user = o.user
        <4>1. CASE RouteOf[p] = "consent" \/ RouteOf[q] = "consent"
          BY <2>1, <3>2, <4>1 DEF ExternalId
        <4>2. CASE RouteOf[p] = "real" /\ RouteOf[q] = "real"
          BY <2>1, <3>2, <4>2 DEF ExternalId, RealKeysAreOwn
        <4> QED
          BY <4>1, <4>2, RouteOfType
      <3> QED
        BY <2>1, <3>2, <3>3
    <2> QED
      BY <2>2, <2>3
  <1>2. ASSUME NEW i \in IntentIds, intents'[i] # None, intents'[i].request # None
        PROVE  landing'[intents'[i].request].user = i[1]
    <2>1. intents[i] # None
      BY <1>2, IntentSteps, NoneIsApart DEF IntentStep
    <2>2. PICK t : t \in Intent /\ t = intents[i] /\ IntentFollows(t)
      BY <2>1 DEF BaseInv, TypeOK, OneSettles, IntentsFollowLanding
    <2>3. CASE t.request # None
      <3>1. t.request \in RequestIds /\ landing[t.request] # None /\ landing[t.request].user = i[1]
        BY <2>1, <2>2, <2>3 DEF Intent, IntentFollows, UsersInv
      <3>2. intents'[i].request = t.request
        BY <2>1, <2>2, <2>3, RequestsStick
      <3> QED
        BY <3>1, <3>2, LandingRemembers
    <2>4. CASE t.request = None
      <3>1. IntentMove(i, t, intents'[i])
        BY <2>1, <2>2, LifeOfAnIntent
      <3>2. PICK p \in Posters, e \in RequestIds :
              /\ Record(p) /\ i = IntentOf(posters[p].order) /\ e = ExternalId(p, posters[p].order)
              /\ landing[e] # None
              /\ intents'[i] = [t EXCEPT !.state = "awaiting_approval", !.request = e]
        <4>1. t.state = "created"
          BY <2>2, <2>4 DEF IntentFollows
        <4>2. intents'[i] # t
          BY <1>2, <2>4
        <4> QED
          BY <3>1, <4>1, <4>2 DEF IntentMove
      <3>3. posters[p].order \in PostsOf[p]
        BY <3>2 DEF Record, BaseInv, PostsAreOrders
      <3>4. landing[e].user = i[1] /\ intents'[i].request = e
        BY <2>2, <3>2, <3>3 DEF UsersInv, IntentOf, Intent
      <3> QED
        BY <3>2, <3>4, LandingRemembers
    <2> QED
      BY <2>3, <2>4
  <1> QED
    BY <1>1, <1>2 DEF UsersInv, ExternalId

-----------------------------------------------------------------------------
\* If no key is in flight twice, one handler settles an intent and City is
\* called once.
LEMMA AloneInvariant ==
  ASSUME KeysAreExclusive
  PROVE  Spec => []AloneInv
  <1>1. Init => AloneInv
    BY DEF Init, AloneInv, OneSettles, PostsHoldCreated, IntentsFollowLanding, SettlersFollowRequests,
       ClaimIsExclusive, CreditsFollowClaims, IdlePoster, IdleSettler, Settling
  <1>2. BaseInv /\ AloneInv /\ [Next]_vars => AloneInv'
    <2> SUFFICES ASSUME BaseInv, AloneInv, [Next]_vars PROVE AloneInv'
      OBVIOUS
    <2>1. OneSettles /\ CreditsFollowClaims
      BY DEF AloneInv
    <2>2. OneSettles'
      BY <2>1, StepKeepsCreated, StepKeepsFollowing, StepKeepsRequests, StepKeepsClaims DEF OneSettles
    <2>3. CreditsFollowClaims'
      BY <2>1, StepKeepsCredits
    <2> QED
      BY <2>2, <2>3 DEF AloneInv
  <1> QED
    BY <1>1, <1>2, BaseInvariant, PTL DEF Spec

\* City is called at most once for an intent, however often landing calls back
\* and the browser polls, and wherever the server dies: settleOnionAttentionGrant
\* credits only after its own claim.
THEOREM OneBurnOneCredit ==
  ASSUME KeysAreExclusive
  PROVE  Spec => []CreditedAtMostOnce
  <1>1. AloneInv => CreditedAtMostOnce
    BY DEF AloneInv, CreditsFollowClaims, CreditedAtMostOnce
  <1> QED
    BY <1>1, AloneInvariant, PTL

\* Between its claim and its last update a handler has the intent to itself.
THEOREM OneHandlerSettles ==
  ASSUME KeysAreExclusive
  PROVE  Spec => []ClaimIsExclusive
  <1>1. AloneInv => ClaimIsExclusive
    BY DEF AloneInv, OneSettles
  <1> QED
    BY <1>1, AloneInvariant, PTL

\* What the user is told of a finished grant is what landing and City did.
THEOREM GrantsTellTheTruth ==
  ASSUME KeysAreExclusive
  PROVE  Spec => []OutcomesAreTrue
  <1>1. AloneInv => OutcomesAreTrue
    BY DEF AloneInv, OneSettles, IntentsFollowLanding, IntentFollows, CreditsFollowClaims,
       OutcomesAreTrue
  <1> QED
    BY <1>1, AloneInvariant, PTL

\* No late handler reopens a finished grant: a rejection follows landing, and
\* what landing decided it does not decide again.
THEOREM GrantsStayFinished ==
  ASSUME KeysAreExclusive
  PROVE  Spec => FinishedStaysFinished
  <1>1. BaseInv /\ AloneInv /\ [Next]_vars =>
          [\A i \in IntentIds : Finished(i) => intents'[i].state = intents[i].state]_vars
    <2> SUFFICES ASSUME BaseInv, AloneInv, [Next]_vars, NEW i \in IntentIds, Finished(i)
                 PROVE  intents'[i].state = intents[i].state
      OBVIOUS
    <2>1. PICK t : t \in Intent /\ t = intents[i] /\ t.state \in Terminal
      BY DEF Finished, BaseInv, TypeOK
    <2>2. IntentMove(i, t, intents'[i]) /\ IntentFollows(t)
      BY <2>1, LifeOfAnIntent DEF Finished, AloneInv, OneSettles, IntentsFollowLanding
    <2> QED
      BY <2>1, <2>2 DEF IntentMove, IntentFollows, Intent, Terminal
  <1> QED
    BY <1>1, BaseInvariant, AloneInvariant, PTL DEF Spec, FinishedStaysFinished

\* City is credited for an intent only if its own user's onions were burned,
\* under the intent's own request.
THEOREM CreditsAreBurned ==
  ASSUME KeysAreExclusive, RealKeysAreOwn
  PROVE  Spec => []CreditOnlyAfterBurn
  <1>1. Init => UsersInv
    <2> SUFFICES ASSUME Init PROVE UsersInv
      OBVIOUS
    <2> QED
      BY OrderTypes DEF Init, UsersInv
  <1>2. BaseInv /\ AloneInv /\ UsersInv /\ [Next]_vars => UsersInv'
    BY StepKeepsUsers DEF AloneInv
  <1>3. BaseInv /\ AloneInv /\ UsersInv => CreditOnlyAfterBurn
    <2> SUFFICES ASSUME BaseInv, AloneInv, UsersInv, NEW i \in IntentIds, credits[i] > 0
                 PROVE  Burned(i) /\ landing[intents[i].request].user = i[1]
      BY DEF CreditOnlyAfterBurn
    <2>1. /\ intents[i] # None /\ intents[i].state \in {"settling", "settled", "failed"}
          /\ landing[intents[i].request].status = "completed"
          /\ IntentFollows(intents[i])
      BY DEF AloneInv, CreditsFollowClaims, OneSettles, IntentsFollowLanding
    <2>2. intents[i].request # None
      BY <2>1 DEF IntentFollows
    <2> QED
      BY <2>1, <2>2 DEF Burned, UsersInv
  <1> QED
    BY <1>1, <1>2, <1>3, BaseInvariant, AloneInvariant, PTL DEF Spec
=============================================================================
