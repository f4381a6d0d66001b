---------------------------- MODULE PrintBridgeProofs ----------------------------
(***************************************************************************)
(* Proofs about PrintBridge for any bridges, jobs, ticks and commands, and *)
(* any number of faults and restarts.  First what holds even if a bridge's *)
(* ticks overlap: a job that is worked on is one tick's, so PrintJobs is   *)
(* implemented.  Then, if a tick ends before the next one begins: started  *)
(* jobs are watched and no print is started over another.                  *)
(***************************************************************************)
EXTENDS PrintBridge, TLAPS

Coroutine == [pc : Steps, job : Jobs \cup {NoJob}, tell : Reports \cup {"none"}]

\* A coroutine of its own job and one between jobs.
Working(c) == co[c].pc \in Stages

\* Ticks work, commands only report; whoever reports or works has a job, and that
\* job was claimed.
CoroutinesHaveJobs ==
  \A c \in Coroutines :
    /\ co[c].job # NoJob <=> co[c].pc \in Stages \cup {"report"}
    /\ co[c].job # NoJob => queue[co[c].job] = "claimed"
    /\ c \notin Ticks => co[c].pc \in {"idle", "reread", "report"}
    /\ co[c].pc \in {"reread", "report"} => co[c].tell \in Reports

\* Nobody but its tick knows a job that is worked on: it is started once, and not ended.
WorkIsExclusive ==
  \A c \in Coroutines : Working(c) =>
    /\ ~Ended(co[c].job)
    /\ starts[co[c].job] = 0 \/ co[c].pc \in {"started", "failed"}
    /\ \A d \in Coroutines : co[d].job = co[c].job => d = c
    /\ \A b \in Bridges : active[b] # co[c].job

\* A job is active, told of or started only after its claim.
ClaimComesFirst ==
  /\ \A b \in Bridges : active[b] # NoJob => queue[active[b]] = "claimed"
  /\ \A j \in Jobs : queue[j] # "claimed" => told[j] = {} /\ starts[j] = 0

WorkInv == BridgeTypeOK /\ CoroutinesHaveJobs /\ WorkIsExclusive /\ ClaimComesFirst

-----------------------------------------------------------------------------
(* What the steps do, as far as a job can tell.                             *)

\* At most one report of a job, with one of these statuses.
MayTell(j, statuses) ==
  \/ UNCHANGED told
  \/ \E st \in statuses : told' = [told EXCEPT ![j] = @ \cup {st}]

\* A tick goes on with its job; only the step from start starts it.
WorksOn(c) ==
  /\ Working(c)
  /\ MayTell(co[c].job, Reports \ Finals)
  /\ \E p \in Stages :
       /\ co' = [co EXCEPT ![c].pc = p]
       /\ \/ UNCHANGED starts /\ p # "started" /\ (co[c].pc \in {"started", "failed"} => p = "failed")
          \/ /\ co[c].pc = "start" /\ p \in {"started", "failed"}
             /\ starts' = [starts EXCEPT ![co[c].job] = @ + 1]
  /\ UNCHANGED <<queue, holder, active>>

\* A coroutine has no job, or no more; it may have reported the one it had.
Rests(c) ==
  /\ \E s \in Coroutine :
       /\ co' = [co EXCEPT ![c] = s]
       /\ s.job = NoJob /\ s.pc \in {"idle", "claim", "status", "reread"}
       /\ c \notin Ticks => s.pc \in {"idle", "reread"}
       /\ s.pc = "reread" => s.tell \in Reports
  /\ UNCHANGED told \/ (co[c].job # NoJob /\ MayTell(co[c].job, Reports))
  /\ UNCHANGED active \/ active' = [active EXCEPT ![BridgeOf[c]] = NoJob]
  /\ UNCHANGED <<queue, holder, starts>>

\* A coroutine is to report the job that is active by now.
Picks(c) ==
  /\ co[c].pc = "reread" /\ ActiveOf(c) # NoJob
  /\ Set(c, "report", ActiveOf(c), co[c].tell)
  /\ UNCHANGED <<queueVars, active, starts>>

\* A job is claimed, for the tick that asked or, its answer lost, for nobody.
Takes(c, j) ==
  /\ co[c].pc = "claim"
  /\ ClaimNextPrintQueueJob(j, BridgeOf[c])
  /\ Set(c, "claimed", j, "none") \/ Leave(c)
  /\ UNCHANGED <<active, starts>>

\* Every step is one of these for the jobs.
JobStep ==
  \/ UNCHANGED <<queueVars, active, co, starts>>
  \/ \E j \in Jobs : Enqueue(j) /\ UNCHANGED <<active, co, starts>>
  \/ \E c \in Coroutines : WorksOn(c) \/ Rests(c) \/ Picks(c) \/ ReportStarted(c)
  \/ \E c \in Coroutines, j \in Jobs : Takes(c, j)
  \/ \E b \in Bridges : Restart(b)

\* The statuses reported on the way to the print are not final.
LEMMA StagesTellNoEnd ==
  ASSUME NEW pc \in DOMAIN Tells
  PROVE  pc \in Stages /\ Tells[pc] \in Reports \ Finals /\ After[pc] \in Stages \ {"started", "failed"}
  BY DEF Tells, After, Stages, Reports, Finals

LEMMA JobSteps ==
  ASSUME WorkInv, [BridgeNext]_bridgeVars
  PROVE  JobStep
  <1> USE DEF WorkInv
  <1>1. ASSUME NEW c \in Coroutines
        PROVE  /\ co[c] \in Coroutine
               /\ BridgeOf[c] \in Bridges
               /\ co[c].pc \in Stages \cup {"report"} => co[c].job \in Jobs /\ co[c].job # NoJob
               /\ ActiveOf(c) \in Jobs \cup {NoJob}
    BY BridgeOfType, NoJobIsApart DEF BridgeTypeOK, CoroutinesHaveJobs, Coroutine, Coroutines, ActiveOf
  <1>2. ASSUME NEW c \in Coroutines, Leave(c)
        PROVE  \E s \in Coroutine :
                 /\ co' = [co EXCEPT ![c] = s]
                 /\ s.job = NoJob /\ s.pc \in {"idle", "claim", "status", "reread"}
                 /\ c \notin Ticks => s.pc \in {"idle", "reread"}
                 /\ s.pc = "reread" => s.tell \in Reports
    <2>1. Idle \in Coroutine /\ Idle.job = NoJob /\ Idle.pc = "idle"
      BY DEF Idle, Coroutine, Steps
    <2> QED
      BY <1>2, <2>1 DEF Leave
  <1>3. ASSUME NEW c \in Coroutines, NEW pc \in {"claim", "status", "reread"},
               NEW tell \in Reports \cup {"none"}, Set(c, pc, NoJob, tell),
               c \notin Ticks => pc = "reread", pc = "reread" => tell \in Reports
        PROVE  \E s \in Coroutine :
                 /\ co' = [co EXCEPT ![c] = s]
                 /\ s.job = NoJob /\ s.pc \in {"idle", "claim", "status", "reread"}
                 /\ c \notin Ticks => s.pc \in {"idle", "reread"}
                 /\ s.pc = "reread" => s.tell \in Reports
    <2>1. [pc |-> pc, job |-> NoJob, tell |-> tell] \in Coroutine
      BY DEF Coroutine, Steps
    <2> QED
      BY <1>3, <2>1 DEF Set
  <1>4. ASSUME NEW c \in Ticks, Tick(c)
        PROVE  Rests(c)
    BY <1>3, <1>4 DEF Tick, Rests, queueVars, Coroutines
  <1>5. ASSUME NEW c \in Commands, NEW cmd \in DOMAIN Commanded, Command(c, cmd)
        PROVE  Rests(c)
    BY <1>3, <1>5, CommandsAreNoTicks
    DEF Command, Commanded, Rests, queueVars, Coroutines, Reports, Finals
  <1>6. ASSUME NEW c \in Coroutines, Claim(c) \/ ClaimFails(c)
        PROVE  Rests(c) \/ \E j \in Jobs : Takes(c, j)
    BY <1>2, <1>6 DEF Claim, ClaimFails, IsAt, Rests, Takes, queueVars
  <1>7. ASSUME NEW c \in Coroutines,
               ReportStage(c) \/ Prepare(c) \/ Upload(c) \/ Start(c) \/ StageFails(c) \/ ReportStartedFails(c)
        PROVE  WorksOn(c)
    <2>1. CASE ReportStage(c)
      <3>1. /\ co[c].pc \in DOMAIN Tells /\ co[c].pc \notin {"started", "failed"}
            /\ co' = [co EXCEPT ![c].pc = After[co[c].pc]]
            /\ told' = [told EXCEPT ![co[c].job] = @ \cup {Tells[co[c].pc]}]
        BY <2>1 DEF ReportStage, ReportStatus, GoTo, Tells
      <3> QED
        BY <2>1, <3>1, StagesTellNoEnd DEF ReportStage, ReportStatus, WorksOn, Working, MayTell
    <2>2. CASE Prepare(c) \/ Upload(c)
      <3>1. /\ co[c].pc \in {"resolve", "slice", "upload"}
            /\ \E p \in Stages \ {"started", "failed"} : co' = [co EXCEPT ![c].pc = p]
            /\ UNCHANGED <<queueVars, active, starts>>
        BY <2>2 DEF Prepare, Upload, IsAt, GoTo, After, Stages
      <3> QED
        BY <3>1 DEF WorksOn, Working, MayTell, Stages, queueVars
    <2>3. CASE Start(c)
      BY <2>3 DEF Start, StartsOn, IsAt, GoTo, WorksOn, Working, MayTell, Stages, queueVars
    <2>4. CASE StageFails(c)
      <3>1. /\ Working(c) /\ co[c].pc \notin {"started", "failed"}
            /\ co' = [co EXCEPT ![c].pc = "failed"]
            /\ UNCHANGED <<queue, holder, active>>
        BY <2>4 DEF StageFails, GoTo, ReportStatus, queueVars, Working
      <3>2. \/ UNCHANGED <<told, starts>>
            \/ /\ UNCHANGED starts /\ co[c].pc \in DOMAIN Tells
               /\ told' = [told EXCEPT ![co[c].job] = @ \cup {Tells[co[c].pc]}]
            \/ /\ UNCHANGED told /\ co[c].pc = "start"
               /\ starts' = [starts EXCEPT ![co[c].job] = @ + 1]
        BY <2>4 DEF StageFails, StartsOn, IsAt, ReportStatus, queueVars
      <3> QED
        BY <3>1, <3>2, StagesTellNoEnd DEF WorksOn, MayTell, Stages
    <2>5. CASE ReportStartedFails(c)
      BY <2>5 DEF ReportStartedFails, ReportStatus, IsAt, GoTo, WorksOn, Working, MayTell, Stages,
                  queueVars, Reports, Finals
    <2> QED
      BY <1>7, <2>1, <2>2, <2>3, <2>4, <2>5
  <1>8. ASSUME NEW c \in Coroutines, ReportFailed(c)
        PROVE  Rests(c)
    <2>1. /\ co[c].job # NoJob /\ Leave(c) /\ MayTell(co[c].job, Reports)
          /\ UNCHANGED <<queue, holder, active, starts>>
      BY <1>1, <1>8 DEF ReportFailed, ReportStatus, IsAt, MayTell, Stages, Reports, Finals, queueVars
    <2> QED
      BY <1>2, <2>1 DEF Rests
  <1>9. ASSUME NEW c \in Coroutines, GetStatus(c) \/ GetStatusFails(c)
        PROVE  Rests(c)
    <2>1. c \in Ticks
      BY <1>9 DEF GetStatus, GetStatusFails, IsAt, CoroutinesHaveJobs
    <2>2. Meaning[PrinterOf(c).state] \in Reports
      BY <1>1 DEF BridgeTypeOK, PrinterOf, PrinterStates, Meaning, Reports, Finals
    <2>3. CASE GetStatus(c)
      BY <1>3, <2>1, <2>2, <2>3 DEF GetStatus, Rests, queueVars
    <2>4. CASE GetStatusFails(c)
      BY <1>2, <2>4 DEF GetStatusFails, Rests, queueVars
    <2> QED
      BY <1>9, <2>3, <2>4
  <1>10. ASSUME NEW c \in Coroutines, Reread(c)
         PROVE  Rests(c) \/ Picks(c)
    BY <1>2, <1>10 DEF Reread, IsAt, Rests, Picks, queueVars
  <1>11. ASSUME NEW c \in Coroutines, Report(c) \/ ReportFails(c)
         PROVE  Rests(c)
    <2>1. co[c].tell \in Reports /\ co[c].job # NoJob
      BY <1>1, <1>11 DEF Report, ReportFails, IsAt, CoroutinesHaveJobs
    <2>2. /\ Leave(c) /\ MayTell(co[c].job, Reports)
          /\ UNCHANGED active \/ active' = [active EXCEPT ![BridgeOf[c]] = NoJob]
          /\ UNCHANGED <<queue, holder, starts>>
      BY <1>11, <2>1 DEF Report, ReportFails, ReportStatus, MayTell, queueVars
    <2> QED
      BY <1>2, <2>1, <2>2 DEF Rests
  <1>12. ASSUME NEW b \in Bridges, Finish(b) \/ Break(b)
         PROVE  UNCHANGED <<queueVars, active, co, starts>>
    BY <1>12 DEF Finish, Break
  <1>13. CASE UNCHANGED bridgeVars
    BY <1>13 DEF bridgeVars, JobStep
  <1> HIDE DEF WorkInv
  <1>14. Ticks \subseteq Coroutines /\ Commands \subseteq Coroutines
    BY DEF Coroutines
  <1> QED
    BY <1>4, <1>5, <1>6, <1>7, <1>8, <1>9, <1>10, <1>11, <1>12, <1>13, <1>14
    DEF BridgeNext, EnqueueJob, Go, Process, JobStep

-----------------------------------------------------------------------------
\* Types of the printers and of the counted bounds.
LEMMA PrintersKeepTypes ==
  ASSUME WorkInv, [BridgeNext]_bridgeVars
  PROVE  /\ printer' \in [Bridges -> [state : PrinterStates, job : Jobs \cup {NoJob}]]
         /\ faults' \in 0..MaxFaults /\ crashes' \in 0..MaxCrashes
  <1> USE DEF WorkInv
  <1>1. ASSUME NEW c \in Coroutines, NEW state \in PrinterStates, NEW j \in Jobs \cup {NoJob},
               SetPrinter(c, state, j)
        PROVE  printer' \in [Bridges -> [state : PrinterStates, job : Jobs \cup {NoJob}]]
    BY <1>1 DEF SetPrinter, BridgeTypeOK
  <1>2. ASSUME NEW c \in Coroutines
        PROVE  /\ co[c].job \in Jobs \cup {NoJob} /\ ActiveOf(c) \in Jobs \cup {NoJob}
               /\ PrinterOf(c).state \in PrinterStates
    BY BridgeOfType DEF BridgeTypeOK, Coroutines, ActiveOf, PrinterOf
  <1>3. ASSUME NEW c \in Coroutines, Upload(c) \/ Start(c) \/ StageFails(c)
        PROVE  printer' \in [Bridges -> [state : PrinterStates, job : Jobs \cup {NoJob}]]
    <2>1. \/ UNCHANGED printer
          \/ SetPrinter(c, PrinterOf(c).state, co[c].job)
          \/ SetPrinter(c, "printing", co[c].job)
      BY <1>3 DEF Upload, Start, StageFails, StartsOn
    <2> QED
      BY <1>1, <1>2, <2>1 DEF BridgeTypeOK, PrinterStates
  <1>4. ASSUME NEW c \in Coroutines, NEW cmd \in DOMAIN Commanded, Command(c, cmd)
        PROVE  printer' \in [Bridges -> [state : PrinterStates, job : Jobs \cup {NoJob}]]
    <2>1. Commanded[cmd].state \in PrinterStates
      BY DEF Commanded, PrinterStates
    <2>2. UNCHANGED printer \/ \E j \in Jobs \cup {NoJob} : SetPrinter(c, Commanded[cmd].state, j)
      BY <1>2, <1>4 DEF Command
    <2> QED
      BY <1>1, <2>1, <2>2 DEF BridgeTypeOK
  <1>5. ASSUME NEW b \in Bridges, Finish(b) \/ Break(b)
        PROVE  printer' \in [Bridges -> [state : PrinterStates, job : Jobs \cup {NoJob}]]
    BY <1>5 DEF Finish, Break, BridgeTypeOK, PrinterStates
  <1>6. UNCHANGED printer => printer' \in [Bridges -> [state : PrinterStates, job : Jobs \cup {NoJob}]]
    BY DEF BridgeTypeOK
  <1>7. printer' \in [Bridges -> [state : PrinterStates, job : Jobs \cup {NoJob}]]
    BY <1>3, <1>4, <1>5, <1>6 DEF BridgeNext, EnqueueJob, Tick, Go, Claim, ClaimFails, Process,
       ReportStage, Prepare, ReportStarted, ReportStartedFails, ReportFailed, GetStatus, GetStatusFails,
       Reread, Report, ReportFails, Restart, Coroutines, bridgeVars
  <1>8. /\ UNCHANGED faults \/ (faults < MaxFaults /\ faults' = faults + 1)
        /\ UNCHANGED crashes \/ (crashes < MaxCrashes /\ crashes' = crashes + 1)
    BY DEF BridgeNext, EnqueueJob, Tick, Command, Go, Claim, ClaimFails, Process, Upload, Start, StageFails,
       ReportStage, Prepare, ReportStarted, ReportStartedFails, ReportFailed, GetStatus, GetStatusFails,
       Reread, Report, ReportFails, Finish, Break, Restart, Fault, NoFault, bridgeVars
  <1>9. faults \in 0..MaxFaults /\ crashes \in 0..MaxCrashes
    BY DEF BridgeTypeOK
  <1> HIDE DEF WorkInv
  <1> QED
    BY <1>7, <1>8, <1>9, BridgeBounds

\* Types.
LEMMA StepKeepsTypes ==
  ASSUME WorkInv, [BridgeNext]_bridgeVars
  PROVE  BridgeTypeOK'
  <1> USE DEF WorkInv
  <1>1. /\ queue \in [Jobs -> {"none", "queued", "claimed"}] /\ holder \in [Jobs -> Bridges \cup {Nobody}]
        /\ told \in [Jobs -> SUBSET Reports] /\ active \in [Bridges -> Jobs \cup {NoJob}]
        /\ co \in [Coroutines -> Coroutine] /\ starts \in [Jobs -> Nat]
    BY DEF BridgeTypeOK, QueueTypeOK, Coroutine
  <1> SUFFICES /\ queue' \in [Jobs -> {"none", "queued", "claimed"}]
               /\ holder' \in [Jobs -> Bridges \cup {Nobody}]
               /\ told' \in [Jobs -> SUBSET Reports] /\ active' \in [Bridges -> Jobs \cup {NoJob}]
               /\ co' \in [Coroutines -> Coroutine] /\ starts' \in [Jobs -> Nat]
    BY PrintersKeepTypes DEF BridgeTypeOK, QueueTypeOK, Coroutine
  <1>2. ASSUME NEW c \in Coroutines
        PROVE  BridgeOf[c] \in Bridges /\ ActiveOf(c) \in Jobs \cup {NoJob} /\ co[c] \in Coroutine
    BY <1>1, BridgeOfType DEF Coroutines, ActiveOf
  <1>3. ASSUME NEW j \in Jobs \cup {NoJob}, MayTell(j, Reports) \/ MayTell(j, Reports \ Finals)
        PROVE  told' \in [Jobs -> SUBSET Reports]
    BY <1>1, <1>3 DEF MayTell
  <1>4. Idle \in Coroutine
    BY DEF Idle, Coroutine, Steps
  <1>5. JobStep
    BY JobSteps
  <1> HIDE DEF WorkInv
  <1>6. CASE UNCHANGED <<queueVars, active, co, starts>>
    BY <1>1, <1>6 DEF queueVars
  <1>7. ASSUME NEW j \in Jobs, Enqueue(j), UNCHANGED <<active, co, starts>>
        PROVE  /\ queue' \in [Jobs -> {"none", "queued", "claimed"}]
               /\ UNCHANGED <<holder, told, active, co, starts>>
    BY <1>1, <1>7 DEF Enqueue
  <1>8. ASSUME NEW c \in Coroutines, WorksOn(c)
        PROVE  /\ UNCHANGED <<queue, holder, active>>
               /\ told' \in [Jobs -> SUBSET Reports]
               /\ co' \in [Coroutines -> Coroutine] /\ starts' \in [Jobs -> Nat]
    <2>1. co[c].job \in Jobs \cup {NoJob}
      BY <1>2 DEF Coroutine
    <2>2. told' \in [Jobs -> SUBSET Reports]
      BY <1>3, <1>8, <2>1 DEF WorksOn
    <2>3. PICK p \in Stages : co' = [co EXCEPT ![c].pc = p]
      BY <1>8 DEF WorksOn
    <2>4. [co[c] EXCEPT !.pc = p] \in Coroutine
      BY <1>2 DEF Coroutine, Steps
    <2>5. co' \in [Coroutines -> Coroutine]
      BY <1>1, <2>3, <2>4
    <2>6. UNCHANGED starts \/ starts' = [starts EXCEPT ![co[c].job] = @ + 1]
      BY <1>8 DEF WorksOn
    <2>7. starts' \in [Jobs -> Nat]
      BY <1>1, <2>6
    <2> QED
      BY <1>8, <2>2, <2>5, <2>7 DEF WorksOn
  <1>9. ASSUME NEW c \in Coroutines, Rests(c)
        PROVE  /\ UNCHANGED <<queue, holder, starts>>
               /\ told' \in [Jobs -> SUBSET Reports] /\ active' \in [Bridges -> Jobs \cup {NoJob}]
               /\ co' \in [Coroutines -> Coroutine]
    <2>1. co[c].job \in Jobs \cup {NoJob}
      BY <1>2 DEF Coroutine
    <2>2. told' \in [Jobs -> SUBSET Reports]
      BY <1>1, <1>3, <1>9, <2>1 DEF Rests
    <2> QED
      BY <1>1, <1>9, <2>2 DEF Rests
  <1>10. ASSUME NEW c \in Coroutines, Picks(c)
         PROVE  UNCHANGED <<queueVars, active, starts>> /\ co' \in [Coroutines -> Coroutine]
    <2>1. [pc |-> "report", job |-> ActiveOf(c), tell |-> co[c].tell] \in Coroutine
      BY <1>2 DEF Coroutine, Steps
    <2> QED
      BY <1>1, <1>10, <2>1 DEF Picks, Set
  <1>11. ASSUME NEW c \in Coroutines, ReportStarted(c)
         PROVE  /\ UNCHANGED <<queue, holder, starts>>
                /\ told' \in [Jobs -> SUBSET Reports] /\ active' \in [Bridges -> Jobs \cup {NoJob}]
                /\ co' \in [Coroutines -> Coroutine]
    <2>1. co[c].job \in Jobs \cup {NoJob} /\ MayTell(co[c].job, Reports)
      BY <1>2, <1>11 DEF Coroutine, ReportStarted, ReportStatus, MayTell, Reports
    <2> QED
      BY <1>1, <1>2, <1>3, <1>4, <1>11, <2>1 DEF ReportStarted, ReportStatus, Leave
  <1>12. ASSUME NEW c \in Coroutines, NEW j \in Jobs, Takes(c, j)
         PROVE  /\ queue' \in [Jobs -> {"none", "queued", "claimed"}]
                /\ holder' \in [Jobs -> Bridges \cup {Nobody}]
                /\ UNCHANGED <<told, active, starts>> /\ co' \in [Coroutines -> Coroutine]
    <2>1. [pc |-> "claimed", job |-> j, tell |-> "none"] \in Coroutine
      BY DEF Coroutine, Steps, Stages
    <2>2. co' \in [Coroutines -> Coroutine]
      BY <1>1, <1>4, <1>12, <2>1 DEF Takes, Set, Leave
    <2> QED
      BY <1>1, <1>2, <1>12, <2>2 DEF Takes, ClaimNextPrintQueueJob, Claimed
  <1>13. ASSUME NEW b \in Bridges, Restart(b)
         PROVE  /\ UNCHANGED <<queueVars, starts>> /\ active' \in [Bridges -> Jobs \cup {NoJob}]
                /\ co' \in [Coroutines -> Coroutine]
    BY <1>1, <1>4, <1>13 DEF Restart
  <1> QED
    BY <1>1, <1>5, <1>6, <1>7, <1>8, <1>9, <1>10, <1>11, <1>12, <1>13 DEF JobStep, queueVars

\* A report changes the word of its job only, and a stage's does not end it.
LEMMA TellsItsJob ==
  ASSUME BridgeTypeOK, NEW j \in Jobs, MayTell(j, Reports) \/ MayTell(j, Reports \ Finals)
  PROVE  /\ \A k \in Jobs \ {j} : told'[k] = told[k]
         /\ told[j] \subseteq told'[j]
         /\ MayTell(j, Reports \ Finals) => told'[j] \cap Finals = told[j] \cap Finals
  BY DEF BridgeTypeOK, QueueTypeOK, MayTell

\* What WorkInv says of one coroutine.
LEMMA OfACoroutine ==
  ASSUME WorkInv, NEW c \in Coroutines
  PROVE  /\ co[c] \in Coroutine
         /\ BridgeOf[c] \in Bridges
         /\ co[c].pc \in Stages \cup {"report"} => co[c].job \in Jobs
         /\ co[c].pc \notin Stages \cup {"report"} => co[c].job = NoJob
         /\ ActiveOf(c) \in Jobs \cup {NoJob}
  BY BridgeOfType, NoJobIsApart
  DEF WorkInv, BridgeTypeOK, CoroutinesHaveJobs, Coroutine, Coroutines, ActiveOf

\* A tick that goes on with its job leaves it to itself.
LEMMA WorkingKeepsWork ==
  ASSUME WorkInv, BridgeTypeOK', NEW c \in Coroutines, WorksOn(c)
  PROVE  CoroutinesHaveJobs' /\ WorkIsExclusive' /\ ClaimComesFirst'
  <1>1. PICK j \in Jobs : j = co[c].job
    BY OfACoroutine DEF WorksOn, Working
  <1>2. PICK p \in Stages :
          /\ co' = [co EXCEPT ![c].pc = p]
          /\ \/ UNCHANGED starts /\ p # "started" /\ (co[c].pc \in {"started", "failed"} => p = "failed")
             \/ /\ co[c].pc = "start" /\ p \in {"started", "failed"}
                /\ starts' = [starts EXCEPT ![j] = @ + 1]
    BY <1>1 DEF WorksOn
  <1>3. /\ co'[c].pc = p /\ co'[c].job = j
        /\ \A d \in Coroutines : co'[d].job = co[d].job /\ co'[d].tell = co[d].tell
        /\ \A d \in Coroutines \ {c} : co'[d] = co[d]
    BY <1>1, <1>2 DEF WorkInv, BridgeTypeOK
  <1>4. /\ queue[j] = "claimed" /\ Working(c) /\ c \in Ticks
        /\ UNCHANGED <<queue, active>>
        /\ \A k \in Jobs : Ended(k)' <=> Ended(k)
        /\ \A k \in Jobs \ {j} : told'[k] = told[k] /\ starts'[k] = starts[k]
    <2>1. BridgeTypeOK /\ MayTell(j, Reports \ Finals)
      BY <1>1 DEF WorksOn, WorkInv
    <2>2. \A k \in Jobs \ {j} : starts'[k] = starts[k]
      BY <1>2 DEF WorkInv, BridgeTypeOK
    <2>3. queue[j] = "claimed" /\ Working(c) /\ c \in Ticks
      BY <1>1, NoJobIsApart DEF WorksOn, Working, WorkInv, CoroutinesHaveJobs, Stages
    <2> QED
      BY <2>1, <2>2, <2>3, TellsItsJob DEF WorksOn, Ended
  <1>5. CoroutinesHaveJobs'
    <2>1. \A d \in Coroutines : co'[d].pc \in Stages \cup {"report"} <=> co[d].pc \in Stages \cup {"report"}
      BY <1>3, <1>4 DEF Working
    <2> QED
      BY <1>2, <1>3, <1>4, <2>1 DEF WorkInv, CoroutinesHaveJobs, Stages
  <1>6. WorkIsExclusive'
    <2>1. \A d \in Coroutines : Working(d)' => Working(d)
      BY <1>3, <1>4 DEF Working
    <2>2. \A d \in Coroutines : Working(d) => co[d].job \in Jobs /\ (d # c => co[d].job # j)
      BY <1>1, <1>4, OfACoroutine DEF Working, WorkInv, WorkIsExclusive
    <2>3. starts'[j] = 0 \/ p \in {"started", "failed"}
      BY <1>1, <1>2, <1>4 DEF WorkInv, WorkIsExclusive, BridgeTypeOK
    <2> QED
      BY <1>3, <1>4, <2>1, <2>2, <2>3 DEF WorkInv, WorkIsExclusive
  <1>7. ClaimComesFirst'
    BY <1>4 DEF WorkInv, ClaimComesFirst
  <1> QED
    BY <1>5, <1>6, <1>7

\* A coroutine that leaves its job, or has none.
LEMMA RestingKeepsWork ==
  ASSUME WorkInv, BridgeTypeOK', NEW c \in Coroutines, Rests(c)
  PROVE  CoroutinesHaveJobs' /\ WorkIsExclusive' /\ ClaimComesFirst'
  <1>1. PICK s \in Coroutine :
          /\ co' = [co EXCEPT ![c] = s]
          /\ s.job = NoJob /\ s.pc \in {"idle", "claim", "status", "reread"}
          /\ c \notin Ticks => s.pc \in {"idle", "reread"}
          /\ s.pc = "reread" => s.tell \in Reports
    BY DEF Rests
  <1>2. co'[c] = s /\ \A d \in Coroutines \ {c} : co'[d] = co[d]
    BY <1>1 DEF WorkInv, BridgeTypeOK
  <1>3. /\ UNCHANGED <<queue, starts>>
        /\ \A b \in Bridges : active'[b] \in {active[b], NoJob}
    BY OfACoroutine DEF Rests, WorkInv, BridgeTypeOK
  <1>4. \A k \in Jobs : co[c].job # k => told'[k] = told[k]
    BY OfACoroutine, TellsItsJob, NoJobIsApart DEF Rests, WorkInv, CoroutinesHaveJobs
  <1>5. co[c].job # NoJob => queue[co[c].job] = "claimed"
    BY DEF WorkInv, CoroutinesHaveJobs
  <1>6. CoroutinesHaveJobs'
    <2>1. s.pc \notin Stages \cup {"report"}
      BY <1>1 DEF Stages
    <2> QED
      BY <1>1, <1>2, <1>3, <2>1 DEF WorkInv, CoroutinesHaveJobs
  <1>7. WorkIsExclusive'
    <2> SUFFICES ASSUME NEW d \in Coroutines, Working(d)'
                 PROVE  /\ ~Ended(co[d].job)'
                        /\ starts'[co'[d].job] = 0 \/ co'[d].pc \in {"started", "failed"}
                        /\ \A e \in Coroutines : co'[e].job = co'[d].job => e = d
                        /\ \A b \in Bridges : active'[b] # co'[d].job
      BY DEF WorkIsExclusive
    <2>1. d # c /\ co'[d] = co[d] /\ Working(d)
      BY <1>1, <1>2 DEF Working, Stages
    <2>2. PICK j \in Jobs : j = co[d].job /\ j # NoJob
      BY <2>1, OfACoroutine, NoJobIsApart DEF Working
    <2>3. co[c].job # j
      BY <2>1, <2>2 DEF WorkInv, WorkIsExclusive
    <2>4. told'[j] = told[j]
      BY <1>4, <2>3
    <2> QED
      BY <1>1, <1>2, <1>3, <2>1, <2>2, <2>4 DEF WorkInv, WorkIsExclusive, Ended
  <1>8. ClaimComesFirst'
    BY <1>3, <1>4, <1>5, NoJobIsApart DEF WorkInv, ClaimComesFirst
  <1> QED
    BY <1>6, <1>7, <1>8

\* A report is begun of a job that is active: nobody works on that one.
LEMMA PickingKeepsWork ==
  ASSUME WorkInv, BridgeTypeOK', NEW c \in Coroutines, Picks(c)
  PROVE  CoroutinesHaveJobs' /\ WorkIsExclusive' /\ ClaimComesFirst'
  <1>1. PICK b \in Bridges : b = BridgeOf[c]
    BY OfACoroutine
  <1>2. PICK k \in Jobs : k = active[b] /\ k # NoJob /\ queue[k] = "claimed"
    BY <1>1, OfACoroutine DEF Picks, ActiveOf, WorkInv, ClaimComesFirst
  <1>3. /\ co'[c] = [pc |-> "report", job |-> k, tell |-> co[c].tell]
        /\ \A d \in Coroutines \ {c} : co'[d] = co[d]
        /\ UNCHANGED <<queue, told, active, starts>>
        /\ co[c].tell \in Reports /\ co[c].pc = "reread"
    BY <1>1, <1>2 DEF Picks, Set, ActiveOf, WorkInv, BridgeTypeOK, CoroutinesHaveJobs, queueVars
  <1>4. CoroutinesHaveJobs'
    BY <1>2, <1>3 DEF WorkInv, CoroutinesHaveJobs
  <1>5. WorkIsExclusive'
    <2> SUFFICES ASSUME NEW d \in Coroutines, Working(d)'
                 PROVE  /\ ~Ended(co[d].job)'
                        /\ starts'[co'[d].job] = 0 \/ co'[d].pc \in {"started", "failed"}
                        /\ \A e \in Coroutines : co'[e].job = co'[d].job => e = d
                        /\ \A a \in Bridges : active'[a] # co'[d].job
      BY DEF WorkIsExclusive
    <2>1. d # c /\ co'[d] = co[d] /\ Working(d)
      BY <1>3 DEF Working, Stages
    <2>2. co[d].job # k
      BY <1>2, <2>1 DEF WorkInv, WorkIsExclusive
    <2> QED
      BY <1>3, <2>1, <2>2 DEF WorkInv, WorkIsExclusive, Ended
  <1>6. ClaimComesFirst'
    BY <1>3 DEF WorkInv, ClaimComesFirst
  <1> QED
    BY <1>4, <1>5, <1>6

\* A started job becomes its bridge's as its tick leaves it.
LEMMA AdoptingKeepsWork ==
  ASSUME WorkInv, BridgeTypeOK', NEW c \in Coroutines, ReportStarted(c)
  PROVE  CoroutinesHaveJobs' /\ WorkIsExclusive' /\ ClaimComesFirst'
  <1>1. PICK j \in Jobs : j = co[c].job /\ j # NoJob
    BY OfACoroutine, NoJobIsApart DEF ReportStarted, IsAt, Stages
  <1>2. queue[j] = "claimed" /\ Working(c)
    BY <1>1 DEF ReportStarted, IsAt, Working, Stages, WorkInv, CoroutinesHaveJobs
  <1>3. /\ co'[c] = Idle
        /\ \A d \in Coroutines \ {c} : co'[d] = co[d]
        /\ UNCHANGED <<queue, starts>>
        /\ \A k \in Jobs \ {j} : told'[k] = told[k]
        /\ \A b \in Bridges : active'[b] \in {active[b], j}
    <2>1. active' = [active EXCEPT ![BridgeOf[c]] = j]
      BY <1>1 DEF ReportStarted
    <2>2. told' = [told EXCEPT ![j] = @ \cup {"printing"}]
      BY <1>1 DEF ReportStarted, ReportStatus
    <2> QED
      BY <2>1, <2>2 DEF ReportStarted, ReportStatus, Leave, WorkInv, BridgeTypeOK, QueueTypeOK
  <1>4. CoroutinesHaveJobs'
    BY <1>3 DEF WorkInv, CoroutinesHaveJobs, Idle, Stages
  <1>5. WorkIsExclusive'
    <2> SUFFICES ASSUME NEW d \in Coroutines, Working(d)'
                 PROVE  /\ ~Ended(co[d].job)'
                        /\ starts'[co'[d].job] = 0 \/ co'[d].pc \in {"started", "failed"}
                        /\ \A e \in Coroutines : co'[e].job = co'[d].job => e = d
                        /\ \A b \in Bridges : active'[b] # co'[d].job
      BY DEF WorkIsExclusive
    <2>1. d # c /\ co'[d] = co[d] /\ Working(d)
      BY <1>3 DEF Working, Stages, Idle
    <2>2. PICK k \in Jobs : k = co[d].job /\ k # NoJob
      BY <2>1, OfACoroutine, NoJobIsApart DEF Working
    <2>3. k # j
      BY <1>1, <1>2, <2>1, <2>2 DEF WorkInv, WorkIsExclusive
    <2> QED
      BY <1>3, <2>1, <2>2, <2>3 DEF WorkInv, WorkIsExclusive, Ended, Idle
  <1>6. ClaimComesFirst'
    BY <1>2, <1>3 DEF WorkInv, ClaimComesFirst
  <1> QED
    BY <1>4, <1>5, <1>6

\* A claimed job is nobody else's: it was queued.
LEMMA TakingKeepsWork ==
  ASSUME WorkInv, BridgeTypeOK', NEW c \in Coroutines, NEW j \in Jobs, Takes(c, j)
  PROVE  CoroutinesHaveJobs' /\ WorkIsExclusive' /\ ClaimComesFirst'
  <1>1. /\ queue[j] = "queued" /\ queue'[j] = "claimed"
        /\ \A k \in Jobs \ {j} : queue'[k] = queue[k]
        /\ UNCHANGED <<told, active, starts>>
    BY DEF Takes, ClaimNextPrintQueueJob, Claimed, WorkInv, BridgeTypeOK, QueueTypeOK
  <1>2. told[j] = {} /\ starts[j] = 0 /\ c \in Ticks
    BY <1>1 DEF WorkInv, ClaimComesFirst, CoroutinesHaveJobs, Takes
  <1>3. /\ \A d \in Coroutines : co[d].job # j
        /\ \A b \in Bridges : active[b] # j
    BY <1>1, NoJobIsApart DEF WorkInv, CoroutinesHaveJobs, ClaimComesFirst
  <1>4. /\ co'[c] = [pc |-> "claimed", job |-> j, tell |-> "none"] \/ co'[c] = Idle
        /\ \A d \in Coroutines \ {c} : co'[d] = co[d]
    BY DEF Takes, Set, Leave, WorkInv, BridgeTypeOK
  <1>5. CoroutinesHaveJobs'
    BY <1>1, <1>2, <1>3, <1>4, NoJobIsApart, OfACoroutine
    DEF WorkInv, CoroutinesHaveJobs, Idle, Stages
  <1>6. WorkIsExclusive'
    <2> SUFFICES ASSUME NEW d \in Coroutines, Working(d)'
                 PROVE  /\ ~Ended(co[d].job)'
                        /\ starts'[co'[d].job] = 0 \/ co'[d].pc \in {"started", "failed"}
                        /\ \A e \in Coroutines : co'[e].job = co'[d].job => e = d
                        /\ \A b \in Bridges : active'[b] # co'[d].job
      BY DEF WorkIsExclusive
    <2>1. CASE d = c
      BY <1>1, <1>2, <1>3, <1>4, <2>1 DEF Working, Idle, Stages, Ended
    <2>2. CASE d # c
      <3>1. co'[d] = co[d] /\ Working(d)
        BY <1>4, <2>2 DEF Working
      <3>2. co[d].job # NoJob
        BY <3>1 DEF Working, WorkInv, CoroutinesHaveJobs
      <3> QED
        BY <1>1, <1>3, <1>4, <3>1, <3>2 DEF WorkInv, WorkIsExclusive, Ended, Idle
    <2> QED
      BY <2>1, <2>2
  <1>7. ClaimComesFirst'
    BY <1>1, NoJobIsApart DEF WorkInv, BridgeTypeOK, ClaimComesFirst
  <1> QED
    BY <1>5, <1>6, <1>7

\* A restart forgets the bridge's work and takes none up.
LEMMA RestartKeepsWork ==
  ASSUME WorkInv, NEW b \in Bridges, Restart(b)
  PROVE  CoroutinesHaveJobs' /\ WorkIsExclusive' /\ ClaimComesFirst'
  <1>1. /\ \A c \in Coroutines : co'[c] \in {co[c], Idle}
        /\ \A a \in Bridges : active'[a] \in {active[a], NoJob}
        /\ UNCHANGED <<queue, told, starts>>
    BY DEF Restart, WorkInv, BridgeTypeOK, queueVars
  <1>2. Idle.job = NoJob /\ Idle.pc = "idle" /\ "idle" \notin Stages \cup {"report"}
    BY DEF Idle, Stages
  <1>3. CoroutinesHaveJobs' /\ ClaimComesFirst'
    BY <1>1, <1>2 DEF WorkInv, CoroutinesHaveJobs, ClaimComesFirst
  <1>4. WorkIsExclusive'
    <2> SUFFICES ASSUME NEW d \in Coroutines, Working(d)'
                 PROVE  /\ ~Ended(co[d].job)'
                        /\ starts'[co'[d].job] = 0 \/ co'[d].pc \in {"started", "failed"}
                        /\ \A e \in Coroutines : co'[e].job = co'[d].job => e = d
                        /\ \A a \in Bridges : active'[a] # co'[d].job
      BY DEF WorkIsExclusive
    <2>1. co'[d] = co[d] /\ Working(d)
      BY <1>1, <1>2 DEF Working
    <2>2. co[d].job # NoJob
      BY <2>1 DEF Working, WorkInv, CoroutinesHaveJobs
    <2> QED
      BY <1>1, <1>2, <2>1, <2>2 DEF WorkInv, WorkIsExclusive, Ended
  <1> QED
    BY <1>3, <1>4

\* Every job that is worked on is one tick's, whatever fails or restarts, and even
\* if a bridge's ticks overlap.
LEMMA WorkInvariant == BridgeSpec => []WorkInv
  <1>1. BridgeInit => WorkInv
    <2> SUFFICES ASSUME BridgeInit PROVE WorkInv
      OBVIOUS
    <2>1. BridgeTypeOK
      BY BridgeBounds
      DEF BridgeInit, QueueInit, BridgeTypeOK, QueueTypeOK, Idle, Steps, PrinterStates
    <2>2. CoroutinesHaveJobs /\ WorkIsExclusive /\ ClaimComesFirst
      BY DEF BridgeInit, QueueInit, CoroutinesHaveJobs, WorkIsExclusive, ClaimComesFirst, Idle, Working,
             Stages
    <2> QED
      BY <2>1, <2>2 DEF WorkInv
  <1>2. WorkInv /\ [BridgeNext]_bridgeVars => WorkInv'
    <2> SUFFICES ASSUME WorkInv, [BridgeNext]_bridgeVars PROVE WorkInv'
      OBVIOUS
    <2>1. BridgeTypeOK'
      BY StepKeepsTypes
    <2> SUFFICES CoroutinesHaveJobs' /\ WorkIsExclusive' /\ ClaimComesFirst'
      BY <2>1 DEF WorkInv
    <2>2. CASE UNCHANGED <<queueVars, active, co, starts>>
      BY <2>2 DEF WorkInv, CoroutinesHaveJobs, WorkIsExclusive, ClaimComesFirst, Working, Ended, queueVars
    <2>3. ASSUME NEW j \in Jobs, Enqueue(j), UNCHANGED <<active, co, starts>>
          PROVE  CoroutinesHaveJobs' /\ WorkIsExclusive' /\ ClaimComesFirst'
      <3>1. queue[j] = "none" /\ UNCHANGED told /\ \A k \in Jobs \ {j} : queue'[k] = queue[k]
        BY <2>3 DEF Enqueue, WorkInv, BridgeTypeOK, QueueTypeOK
      <3>2. /\ \A c \in Coroutines : co[c].job # j
            /\ \A b \in Bridges : active[b] # j
        BY <3>1, NoJobIsApart DEF WorkInv, CoroutinesHaveJobs, ClaimComesFirst
      <3>3. CoroutinesHaveJobs'
        BY <2>3, <3>1, <3>2, OfACoroutine DEF WorkInv, CoroutinesHaveJobs
      <3>4. WorkIsExclusive'
        BY <2>3, <3>1 DEF WorkInv, WorkIsExclusive, Working, Ended
      <3>5. ClaimComesFirst'
        BY <2>3, <3>1, <3>2 DEF WorkInv, BridgeTypeOK, ClaimComesFirst
      <3> QED
        BY <3>3, <3>4, <3>5
    <2>4. JobStep
      BY JobSteps
    <2> QED
      BY <2>1, <2>2, <2>3, <2>4, WorkingKeepsWork, RestingKeepsWork, PickingKeepsWork,
         AdoptingKeepsWork, TakingKeepsWork, RestartKeepsWork DEF JobStep
  <1> QED
    BY <1>1, <1>2, PTL DEF BridgeSpec

\* The state is well typed.
THEOREM BridgeTypeCorrect == BridgeSpec => []BridgeTypeOK
  BY WorkInvariant, PTL DEF WorkInv

-----------------------------------------------------------------------------
(* PrintJobs is implemented.                                                *)

LEMMA PhaseStays ==
  ASSUME NEW k \in Jobs, queue'[k] = queue[k], starts'[k] = starts[k], Ended(k)' <=> Ended(k)
  PROVE  Phase(k)' = Phase(k)
  BY DEF Phase

\* One job's phase moves, the others stay.
LEMMA OneJobMoves ==
  ASSUME NEW j \in Jobs, NEW to, Phase(j)' = to, \A k \in Jobs \ {j} : Phase(k)' = Phase(k)
  PROVE  [k \in Jobs |-> Phase(k)]' = [[k \in Jobs |-> Phase(k)] EXCEPT ![j] = to]
  OBVIOUS

LEMMA NoJobMoves ==
  ASSUME \A k \in Jobs : Phase(k)' = Phase(k), UNCHANGED <<holder, starts>>
  PROVE  UNCHANGED J!jobVars
  BY DEF J!jobVars

\* Every step is a step of PrintJobs for one job, or none.
LEMMA StepImplementsJobs ==
  ASSUME WorkInv, BridgeTypeOK', [BridgeNext]_bridgeVars
  PROVE  [J!JobsNext]_(J!jobVars)
  <1>1. JobStep
    BY JobSteps
  <1>2. CASE UNCHANGED <<queueVars, active, co, starts>>
    BY <1>2, PhaseStays, NoJobMoves DEF queueVars, Ended
  <1>3. ASSUME NEW j \in Jobs, Enqueue(j), UNCHANGED <<active, co, starts>>
        PROVE  [J!JobsNext]_(J!jobVars)
    <2>1. /\ queue[j] = "none" /\ queue'[j] = "queued" /\ UNCHANGED <<holder, told, starts>>
          /\ \A k \in Jobs \ {j} : queue'[k] = queue[k]
      BY <1>3 DEF Enqueue, WorkInv, BridgeTypeOK, QueueTypeOK
    <2>2. told[j] = {} /\ starts[j] = 0
      BY <2>1 DEF WorkInv, ClaimComesFirst
    <2>3. Phase(j) = "new" /\ Phase(j)' = "queued"
      BY <2>1, <2>2 DEF Phase, Ended
    <2>4. \A k \in Jobs \ {j} : Phase(k)' = Phase(k)
      BY <2>1, PhaseStays DEF Ended
    <2>5. J!Queue(j)
      BY <2>1, <2>3, <2>4, OneJobMoves DEF J!Queue, J!Move
    <2> QED
      BY <2>5 DEF J!JobsNext
  <1>4. ASSUME NEW c \in Coroutines, WorksOn(c)
        PROVE  [J!JobsNext]_(J!jobVars)
    <2>1. PICK j \in Jobs : j = co[c].job /\ j # NoJob
      BY <1>4, OfACoroutine, NoJobIsApart DEF WorksOn, Working
    <2>2. /\ queue[j] = "claimed" /\ ~Ended(j)
          /\ starts[j] = 0 \/ co[c].pc \in {"started", "failed"}
      BY <1>4, <2>1 DEF WorksOn, WorkInv, CoroutinesHaveJobs, WorkIsExclusive
    <2>3. UNCHANGED <<queue, holder>> /\ \A k \in Jobs : Ended(k)' <=> Ended(k)
      BY <1>4, <2>1, TellsItsJob DEF WorksOn, Ended, WorkInv
    <2>4. CASE UNCHANGED starts
      BY <2>3, <2>4, PhaseStays, NoJobMoves
    <2>5. CASE co[c].pc = "start" /\ starts' = [starts EXCEPT ![j] = @ + 1]
      <3>1. /\ starts[j] = 0 /\ starts'[j] = 1
            /\ \A k \in Jobs \ {j} : starts'[k] = starts[k]
        BY <2>2, <2>5 DEF WorkInv, BridgeTypeOK
      <3>2. Phase(j) = "claimed" /\ Phase(j)' = "started"
        BY <2>2, <2>3, <3>1 DEF Phase
      <3>3. \A k \in Jobs \ {j} : Phase(k)' = Phase(k)
        BY <2>3, <3>1, PhaseStays
      <3>4. J!Begin(j)
        BY <2>3, <2>5, <3>2, <3>3, OneJobMoves DEF J!Begin, J!Move
      <3> QED
        BY <3>4 DEF J!JobsNext
    <2> QED
      BY <1>4, <2>1, <2>4, <2>5 DEF WorksOn
  <1>5. ASSUME NEW c \in Coroutines, Rests(c)
        PROVE  [J!JobsNext]_(J!jobVars)
    <2>1. UNCHANGED <<queue, holder, starts>>
      BY <1>5 DEF Rests
    <2>2. CASE UNCHANGED told
      BY <2>1, <2>2, PhaseStays, NoJobMoves DEF Ended
    <2>3. CASE co[c].job # NoJob /\ MayTell(co[c].job, Reports)
      <3>1. PICK j \in Jobs : j = co[c].job /\ queue[j] = "claimed"
        BY <2>3, OfACoroutine DEF WorkInv, CoroutinesHaveJobs
      <3>2. (\A k \in Jobs \ {j} : told'[k] = told[k]) /\ told[j] \subseteq told'[j]
        BY <2>3, <3>1, TellsItsJob DEF WorkInv
      <3>3. \A k \in Jobs \ {j} : Phase(k)' = Phase(k)
        BY <2>1, <3>2, PhaseStays DEF Ended
      <3>4. CASE Ended(j)' <=> Ended(j)
        BY <2>1, <3>3, <3>4, PhaseStays, NoJobMoves
      <3>5. CASE ~(Ended(j)' <=> Ended(j))
        <4>1. Ended(j)' /\ ~Ended(j)
          BY <3>2, <3>5 DEF Ended
        <4>2. Phase(j) \in {"claimed", "started"} /\ Phase(j)' = "ended"
          BY <3>1, <4>1 DEF Phase
        <4>3. J!End(j)
          BY <2>1, <3>3, <4>2, OneJobMoves DEF J!End, J!Move
        <4> QED
          BY <4>3 DEF J!JobsNext
      <3> QED
        BY <3>4, <3>5
    <2> QED
      BY <1>5, <2>2, <2>3 DEF Rests
  <1>6. ASSUME NEW c \in Coroutines, Picks(c)
        PROVE  [J!JobsNext]_(J!jobVars)
    BY <1>6, PhaseStays, NoJobMoves DEF Picks, queueVars, Ended
  <1>7. ASSUME NEW c \in Coroutines, ReportStarted(c)
        PROVE  [J!JobsNext]_(J!jobVars)
    <2>1. PICK j \in Jobs : j = co[c].job
      BY <1>7, OfACoroutine DEF ReportStarted, IsAt, Stages
    <2>2. MayTell(j, Reports \ Finals) /\ UNCHANGED <<queue, holder, starts>>
      BY <1>7, <2>1 DEF ReportStarted, ReportStatus, MayTell, Reports, Finals
    <2>3. \A k \in Jobs : Ended(k)' <=> Ended(k)
      BY <2>2, TellsItsJob DEF Ended, WorkInv
    <2> QED
      BY <2>2, <2>3, PhaseStays, NoJobMoves
  <1>8. ASSUME NEW c \in Coroutines, NEW j \in Jobs, Takes(c, j)
        PROVE  [J!JobsNext]_(J!jobVars)
    <2>1. PICK b \in Bridges : b = BridgeOf[c]
      BY OfACoroutine
    <2>2. /\ queue[j] = "queued" /\ queue'[j] = "claimed"
          /\ holder' = [holder EXCEPT ![j] = b]
          /\ \A k \in Jobs \ {j} : queue'[k] = queue[k]
          /\ UNCHANGED <<told, starts>>
      BY <1>8, <2>1 DEF Takes, ClaimNextPrintQueueJob, Claimed, WorkInv, BridgeTypeOK, QueueTypeOK
    <2>3. told[j] = {} /\ starts[j] = 0
      BY <2>2 DEF WorkInv, ClaimComesFirst
    <2>4. Phase(j) = "queued" /\ Phase(j)' = "claimed"
      BY <2>2, <2>3 DEF Phase, Ended
    <2>5. \A k \in Jobs \ {j} : Phase(k)' = Phase(k)
      BY <2>2, PhaseStays DEF Ended
    <2>6. J!Take(j, b)
      BY <2>2, <2>4, <2>5, OneJobMoves DEF J!Take, J!Move
    <2> QED
      BY <2>6 DEF J!JobsNext
  <1>9. ASSUME NEW b \in Bridges, Restart(b)
        PROVE  [J!JobsNext]_(J!jobVars)
    BY <1>9, PhaseStays, NoJobMoves DEF Restart, queueVars, Ended
  <1> QED
    BY <1>1, <1>2, <1>3, <1>4, <1>5, <1>6, <1>7, <1>8, <1>9 DEF JobStep

\* Whatever fails, restarts or is commanded, and even if ticks overlap: one bridge
\* takes a job, a print is started at most once, and none after its end.
THEOREM BridgeImplementsJobs == BridgeSpec => ImplementsPrintJobs
  <1>1. BridgeInit => J!JobsInit
    BY DEF BridgeInit, QueueInit, J!JobsInit, Phase, Ended
  <1>2. WorkInv /\ WorkInv' /\ [BridgeNext]_bridgeVars => [J!JobsNext]_(J!jobVars)
    BY StepImplementsJobs DEF WorkInv
  <1> QED
    BY <1>1, <1>2, WorkInvariant, PTL DEF BridgeSpec, ImplementsPrintJobs, J!JobsSpec

-----------------------------------------------------------------------------
(* If a bridge's ticks do not overlap.                                      *)

\* No tick of a bridge begins before the last one ended: a tick takes no longer than pollMs.
OneTickEach == \A c, d \in Ticks : BridgeOf[c] = BridgeOf[d] => c = d

\* While no bridge restarted and no cancel was reported, the field follows the
\* bridge's one tick.
FieldFollowsTick ==
  crashes = 0 /\ ~Cancelled =>
    /\ \A c \in Ticks :
         /\ Working(c) \/ co[c].pc = "claim" => ActiveOf(c) = NoJob
         /\ co[c].pc \in {"status", "reread", "report"} => ActiveOf(c) # NoJob
         /\ co[c].pc = "report" => ActiveOf(c) = co[c].job
    /\ \A c \in Coroutines : co[c].pc = "report" => ActiveOf(c) = co[c].job \/ Ended(co[c].job)

\* A printing job is some bridge's, unless the report that it prints was cut off.
PrintsAreKept ==
  crashes = 0 /\ ~Cancelled =>
    \A j \in Jobs : "printing" \in told[j] /\ ~Ended(j) =>
      \/ \E b \in Bridges : active[b] = j
      \/ faults > 0 /\ \E c \in Coroutines : co[c].job = j /\ co[c].pc = "failed"
      \/ faults > 1

WatchInv == FieldFollowsTick /\ PrintsAreKept

\* While a run is calm, no bridge restarted and no cancel was reported.
Calm == crashes = 0 /\ ~Cancelled

\* What a step does to one coroutine.
CoMove(c) ==
  \/ co'[c] = co[c]
  \/ co'[c] = Idle
  \/ /\ co[c].pc = "idle" /\ co'[c].pc = "claim" /\ co'[c].job = NoJob
     /\ ActiveOf(c) = NoJob /\ UNCHANGED active
  \/ /\ co[c].pc = "idle" /\ co'[c].pc \in {"status", "reread"} /\ co'[c].job = NoJob
     /\ ActiveOf(c) # NoJob /\ UNCHANGED active
  \/ co[c].pc = "claim" /\ co'[c].pc = "claimed"
  \/ Working(c) /\ co[c].pc # "failed" /\ Working(c)' /\ co'[c].job = co[c].job
  \/ GetStatus(c) /\ co[c].pc = "status" /\ co'[c].pc = "reread" /\ co'[c].job = NoJob
  \/ /\ co[c].pc = "reread" /\ co'[c].pc = "report" /\ co'[c].tell = co[c].tell
     /\ co'[c].job = ActiveOf(c) /\ ActiveOf(c) # NoJob /\ UNCHANGED <<active, printer>>

\* A step of one coroutine leaves the others.
LEMMA OneMoves ==
  ASSUME BridgeTypeOK, NEW c \in Coroutines,
         \/ Go(c) \/ (c \in Ticks /\ Tick(c))
         \/ (c \in Commands /\ \E cmd \in DOMAIN Commanded : Command(c, cmd))
  PROVE  CoMove(c) /\ \A d \in Coroutines \ {c} : co'[d] = co[d]
  <1>1. co \in [Coroutines -> Coroutine]
    BY DEF BridgeTypeOK, Coroutine
  <1>2. ASSUME Leave(c)
        PROVE  co'[c] = Idle /\ \A d \in Coroutines \ {c} : co'[d] = co[d]
    BY <1>1, <1>2 DEF Leave
  <1>3. ASSUME NEW p, GoTo(c, p)
        PROVE  /\ co'[c].pc = p /\ co'[c].job = co[c].job
               /\ \A d \in Coroutines \ {c} : co'[d] = co[d]
    BY <1>1, <1>3 DEF GoTo, Coroutine
  <1>4. CASE Tick(c)
    <2>1. \/ /\ ActiveOf(c) = NoJob
             /\ co' = [co EXCEPT ![c] = [pc |-> "claim", job |-> NoJob, tell |-> "none"]]
          \/ /\ ActiveOf(c) # NoJob
             /\ co' = [co EXCEPT ![c] = [pc |-> "status", job |-> NoJob, tell |-> "none"]]
      BY <1>4 DEF Tick, Set
    <2>2. co[c].pc = "idle" /\ UNCHANGED active
      BY <1>4 DEF Tick, IsAt
    <2> QED
      BY <1>1, <2>1, <2>2 DEF CoMove
  <1>5. ASSUME NEW cmd \in DOMAIN Commanded, Command(c, cmd)
        PROVE  CoMove(c) /\ \A d \in Coroutines \ {c} : co'[d] = co[d]
    <2>1. PICK tell : co' = [co EXCEPT ![c] = [pc |-> "reread", job |-> NoJob, tell |-> tell]]
      BY <1>5 DEF Command, Set
    <2>2. co[c].pc = "idle" /\ ActiveOf(c) # NoJob /\ UNCHANGED active
      BY <1>5 DEF Command, IsAt
    <2> QED
      BY <1>1, <2>1, <2>2 DEF CoMove
  <1>6. CASE Claim(c)
    <2>1. /\ co[c].pc = "claim"
          /\ \/ Leave(c)
             \/ \E j \in Jobs :
                  co' = [co EXCEPT ![c] = [pc |-> "claimed", job |-> j, tell |-> "none"]]
      BY <1>6 DEF Claim, IsAt, Set
    <2> QED
      BY <1>1, <1>2, <2>1 DEF CoMove
  <1>7. CASE ClaimFails(c) \/ GetStatusFails(c) \/ ReportStarted(c) \/ ReportFailed(c) \/ Report(c)
             \/ ReportFails(c)
    BY <1>2, <1>7 DEF ClaimFails, GetStatusFails, ReportStarted, ReportFailed, Report, ReportFails, CoMove
  <1>8. CASE ReportStage(c) \/ Prepare(c) \/ Upload(c) \/ Start(c) \/ StageFails(c) \/ ReportStartedFails(c)
    <2>1. \E p \in Stages : GoTo(c, p)
      BY <1>8, StagesTellNoEnd
      DEF ReportStage, Prepare, Upload, Start, StageFails, ReportStartedFails, Stages, After
    <2>2. Working(c) /\ co[c].pc # "failed"
      BY <1>8, StagesTellNoEnd
      DEF ReportStage, Prepare, Upload, Start, StageFails, ReportStartedFails, Stages, Working, IsAt, Tells
    <2> QED
      BY <1>3, <2>1, <2>2 DEF CoMove, Working
  <1>9. CASE GetStatus(c)
    <2>1. /\ co[c].pc = "status"
          /\ co' = [co EXCEPT ![c] = [pc |-> "reread", job |-> NoJob,
                                      tell |-> Meaning[PrinterOf(c).state]]]
      BY <1>9 DEF GetStatus, IsAt, Set
    <2> QED
      BY <1>1, <1>9, <2>1 DEF CoMove
  <1>10. CASE Reread(c)
    <2>1. \/ Leave(c)
          \/ /\ ActiveOf(c) # NoJob
             /\ co' = [co EXCEPT ![c] = [pc |-> "report", job |-> ActiveOf(c), tell |-> co[c].tell]]
      BY <1>10 DEF Reread, Set
    <2>2. co[c].pc = "reread" /\ UNCHANGED <<active, printer>>
      BY <1>10 DEF Reread, IsAt
    <2> QED
      BY <1>1, <1>2, <2>1, <2>2 DEF CoMove
  <1> QED
    BY <1>4, <1>5, <1>6, <1>7, <1>8, <1>9, <1>10 DEF Go, Process

LEMMA CoMoves ==
  ASSUME WorkInv, [BridgeNext]_bridgeVars, crashes' = 0
  PROVE  /\ \A c \in Coroutines : CoMove(c)
         /\ crashes = 0
  <1>1. crashes = 0 /\ \A b \in Bridges : ~Restart(b)
    <2>1. crashes \in Nat
      BY BridgeBounds DEF WorkInv, BridgeTypeOK
    <2>2. UNCHANGED crashes \/ crashes' = crashes + 1
      BY DEF BridgeNext, EnqueueJob, Tick, Command, Go, Claim, ClaimFails, Process, Upload, Start,
         StageFails, ReportStage, Prepare, ReportStarted, ReportStartedFails, ReportFailed, GetStatus,
         GetStatusFails, Reread, Report, ReportFails, Finish, Break, Restart, Fault, NoFault, bridgeVars
    <2> QED
      BY <2>1, <2>2 DEF Restart
  <1>2. CASE UNCHANGED co
    BY <1>1, <1>2 DEF CoMove
  <1>3. ASSUME NEW c \in Coroutines,
               \/ Go(c) \/ (c \in Ticks /\ Tick(c))
               \/ (c \in Commands /\ \E cmd \in DOMAIN Commanded : Command(c, cmd))
        PROVE  \A d \in Coroutines : CoMove(d)
    BY <1>3, OneMoves DEF CoMove, WorkInv
  <1> QED
    BY <1>1, <1>2, <1>3 DEF BridgeNext, EnqueueJob, Finish, Break, bridgeVars, Coroutines

\* What is told stays told.
LEMMA ToldStays ==
  ASSUME WorkInv, [BridgeNext]_bridgeVars, NEW j \in Jobs
  PROVE  /\ told[j] \subseteq told'[j]
         /\ Ended(j) => Ended(j)'
         /\ Cancelled => Cancelled'
  <1>1. \A k \in Jobs : told[k] \subseteq told'[k]
    <2> SUFFICES ASSUME NEW k \in Jobs PROVE told[k] \subseteq told'[k]
      OBVIOUS
    <2>1. UNCHANGED told => told[k] \subseteq told'[k]
      OBVIOUS
    <2>2. ASSUME NEW i, NEW st, told' = [told EXCEPT ![i] = @ \cup {st}]
          PROVE  told[k] \subseteq told'[k]
      BY <2>2 DEF WorkInv, BridgeTypeOK, QueueTypeOK
    <2>3. ASSUME NEW i, MayTell(i, Reports) \/ MayTell(i, Reports \ Finals)
          PROVE  told[k] \subseteq told'[k]
      BY <2>1, <2>2, <2>3 DEF MayTell
    <2>4. JobStep
      BY JobSteps
    <2> QED
      BY <2>1, <2>2, <2>3, <2>4 DEF JobStep, WorksOn, Rests, Picks, ReportStarted, ReportStatus,
         Enqueue, Takes, ClaimNextPrintQueueJob, Claimed, Restart, queueVars
  <1> QED
    BY <1>1 DEF Ended, Cancelled

\* How a bridge's field changes while a run is calm: its tick lets go of a job it
\* reports ended, or adopts the one it started.
FieldMove(b) ==
  \/ active'[b] = active[b]
  \/ \E c \in Ticks, j \in Jobs :
       /\ BridgeOf[c] = b /\ co[c].pc = "report" /\ co[c].job = j
       /\ co[c].tell \in {"completed", "failed"}
       /\ co'[c] = Idle /\ active'[b] = NoJob /\ Ended(j)' /\ UNCHANGED printer
  \/ \E c \in Ticks :
       /\ BridgeOf[c] = b /\ co[c].pc = "started" /\ co'[c] = Idle
       /\ active'[b] = co[c].job /\ UNCHANGED printer

LEMMA FieldMoves ==
  ASSUME WorkInv, [BridgeNext]_bridgeVars, Calm', NEW b \in Bridges
  PROVE  FieldMove(b)
  <1>1. ASSUME NEW c \in Coroutines, Report(c)
        PROVE  FieldMove(b)
    <2>1. /\ co[c].pc = "report" /\ co'[c] = Idle /\ UNCHANGED printer
          /\ active' = IF LetsGo(c) THEN [active EXCEPT ![BridgeOf[c]] = NoJob] ELSE active
      BY <1>1 DEF Report, IsAt, Leave, WorkInv, BridgeTypeOK
    <2>2. PICK j \in Jobs : j = co[c].job
      BY <2>1, OfACoroutine
    <2>3. co[c].tell \in told'[j]
      BY <1>1, <2>2 DEF Report, ReportStatus, WorkInv, BridgeTypeOK, QueueTypeOK
    <2>4. CASE LetsGo(c)
      <3>1. co[c].tell # "cancelled"
        BY <2>3 DEF Calm, Cancelled
      <3>2. c \in Ticks /\ co[c].tell \in {"completed", "failed"}
        BY <2>4, <3>1 DEF LetsGo
      <3>3. Ended(j)'
        BY <2>3, <3>2 DEF Ended, Finals
      <3> QED
        BY <2>1, <2>2, <2>4, <3>2, <3>3 DEF FieldMove, WorkInv, BridgeTypeOK
    <2>5. CASE ~LetsGo(c)
      BY <2>1, <2>5 DEF FieldMove
    <2> QED
      BY <2>4, <2>5
  <1>2. ASSUME NEW c \in Coroutines, ReportStarted(c)
        PROVE  FieldMove(b)
    <2>1. /\ co[c].pc = "started" /\ co'[c] = Idle /\ UNCHANGED printer
          /\ active' = [active EXCEPT ![BridgeOf[c]] = co[c].job]
      BY <1>2 DEF ReportStarted, IsAt, Leave, WorkInv, BridgeTypeOK
    <2>2. c \in Ticks
      BY <2>1 DEF WorkInv, CoroutinesHaveJobs
    <2> QED
      BY <2>1, <2>2 DEF FieldMove, WorkInv, BridgeTypeOK
  <1>3. \A a \in Bridges : ~Restart(a)
    BY BridgeBounds DEF Restart, Calm, WorkInv, BridgeTypeOK
  <1>4. CASE UNCHANGED active
    BY <1>4 DEF FieldMove
  <1> QED
    BY <1>1, <1>2, <1>3, <1>4 DEF BridgeNext, EnqueueJob, Tick, Command, Go, Claim, ClaimFails, Process,
       Upload, Start, StageFails, ReportStage, Prepare, ReportStartedFails, ReportFailed, GetStatus,
       GetStatusFails, Reread, ReportFails, Finish, Break, bridgeVars

\* The field follows the bridge's one tick.
LEMMA StepKeepsField ==
  ASSUME OneTickEach, WorkInv, FieldFollowsTick, [BridgeNext]_bridgeVars
  PROVE  FieldFollowsTick'
  <1> SUFFICES ASSUME Calm'
               PROVE  /\ \A c \in Ticks :
                           /\ Working(c)' \/ co'[c].pc = "claim" => ActiveOf(c)' = NoJob
                           /\ co'[c].pc \in {"status", "reread", "report"} => ActiveOf(c)' # NoJob
                           /\ co'[c].pc = "report" => ActiveOf(c)' = co'[c].job
                      /\ \A c \in Coroutines : co'[c].pc = "report" =>
                           ActiveOf(c)' = co'[c].job \/ Ended(co[c].job)'
    BY DEF FieldFollowsTick, Calm
  <1>1. Calm
    BY CoMoves, ToldStays DEF Calm, Cancelled
  <1>2. ASSUME NEW c \in Ticks
        PROVE  /\ Working(c) \/ co[c].pc = "claim" => ActiveOf(c) = NoJob
               /\ co[c].pc \in {"status", "reread", "report"} => ActiveOf(c) # NoJob
               /\ co[c].pc = "report" => ActiveOf(c) = co[c].job
               /\ CoMove(c) /\ c \in Coroutines
               /\ FieldMove(BridgeOf[c])
    BY <1>1, CoMoves, FieldMoves, OfACoroutine DEF FieldFollowsTick, Calm, Coroutines
  <1>3. ASSUME NEW c \in Ticks, co'[c] # Idle
        PROVE  ActiveOf(c)' = ActiveOf(c)
    <2>1. ASSUME NEW d \in Ticks, BridgeOf[d] = BridgeOf[c], co'[d] = Idle
          PROVE  FALSE
      BY <1>3, <2>1 DEF OneTickEach
    <2> QED
      BY <1>2, <2>1 DEF FieldMove, ActiveOf
  <1>4. ASSUME NEW c \in Ticks
        PROVE  /\ Working(c)' \/ co'[c].pc = "claim" => ActiveOf(c)' = NoJob
               /\ co'[c].pc \in {"status", "reread", "report"} => ActiveOf(c)' # NoJob
               /\ co'[c].pc = "report" => ActiveOf(c)' = co'[c].job
    <2>1. CASE co'[c] = Idle
      BY <2>1 DEF Working, Idle, Stages
    <2>2. CASE co'[c] # Idle
      <3>1. ActiveOf(c)' = ActiveOf(c)
        BY <1>3, <2>2
      <3> QED
        BY <1>2, <2>2, <3>1 DEF CoMove, Working, Stages
    <2> QED
      BY <2>1, <2>2
  <1>5. ASSUME NEW c \in Coroutines, co'[c].pc = "report"
        PROVE  ActiveOf(c)' = co'[c].job \/ Ended(co[c].job)'
    <2>1. CASE co[c].pc = "report" /\ co'[c] = co[c]
      <3>1. PICK j \in Jobs : j = co[c].job /\ j # NoJob
        BY <2>1, OfACoroutine, NoJobIsApart
      <3>2. ActiveOf(c) = j \/ Ended(j)
        BY <1>1, <2>1, <3>1 DEF FieldFollowsTick, Calm
      <3>3. Ended(j) => Ended(j)'
        BY ToldStays
      <3>4. ASSUME ActiveOf(c) = j
            PROVE  ActiveOf(c)' = j \/ Ended(j)'
        <4>1. FieldMove(BridgeOf[c])
          BY FieldMoves, OfACoroutine
        <4>2. ASSUME NEW d \in Ticks, BridgeOf[d] = BridgeOf[c], co[d].pc = "report"
              PROVE  co[d].job = j
          BY <1>2, <3>4, <4>2 DEF ActiveOf
        <4>3. ASSUME NEW d \in Ticks, BridgeOf[d] = BridgeOf[c], co[d].pc = "started"
              PROVE  FALSE
          BY <1>2, <3>1, <3>4, <4>3 DEF ActiveOf, Working, Stages
        <4> QED
          BY <3>4, <4>1, <4>2, <4>3 DEF FieldMove, ActiveOf
      <3>5. ActiveOf(c)' = j \/ Ended(j)'
        BY <3>2, <3>3, <3>4
      <3> QED
        BY <2>1, <3>1, <3>5 DEF Ended
    <2>2. CASE co'[c].job = ActiveOf(c) /\ UNCHANGED active
      BY <2>2 DEF ActiveOf
    <2>3. CoMove(c)
      BY CoMoves DEF Calm
    <2> QED
      BY <1>5, <2>1, <2>2, <2>3 DEF CoMove, Idle, Working, Stages
  <1> QED
    BY <1>4, <1>5

\* Faults are only added.
LEMMA FaultsMove ==
  ASSUME WorkInv, [BridgeNext]_bridgeVars
  PROVE  faults \in Nat /\ (faults' = faults \/ faults' = faults + 1)
  <1>1. faults \in Nat
    BY BridgeBounds DEF WorkInv, BridgeTypeOK
  <1>2. UNCHANGED faults \/ faults' = faults + 1
    BY DEF BridgeNext, EnqueueJob, Tick, Command, Go, Claim, ClaimFails, Process, Upload, Start, StageFails,
       ReportStage, Prepare, ReportStarted, ReportStartedFails, ReportFailed, GetStatus, GetStatusFails,
       Reread, Report, ReportFails, Finish, Break, Restart, Fault, NoFault, bridgeVars
  <1> QED
    BY <1>1, <1>2

\* A coroutine leaves a failed job reported, or by another fault.
LEMMA FailuresAreTold ==
  ASSUME WorkInv, [BridgeNext]_bridgeVars, Calm', NEW c \in Coroutines, NEW j \in Jobs,
         co[c].pc = "failed", co[c].job = j, co'[c] # co[c]
  PROVE  Ended(j)' \/ faults' = faults + 1
  <1>1. co \in [Coroutines -> Coroutine] /\ \A b \in Bridges : ~Restart(b)
    BY BridgeBounds DEF Restart, Calm, WorkInv, BridgeTypeOK, Coroutine
  <1>2. ASSUME NEW d \in Coroutines, co[d].pc # "failed",
               \/ Go(d) \/ (d \in Ticks /\ Tick(d))
               \/ (d \in Commands /\ \E cmd \in DOMAIN Commanded : Command(d, cmd))
        PROVE  co'[c] = co[c]
    BY <1>2, OneMoves DEF WorkInv
  <1>3. ASSUME NEW d \in Coroutines, d # c, Go(d)
        PROVE  co'[c] = co[c]
    BY <1>3, OneMoves DEF WorkInv
  <1>4. ASSUME Go(c)
        PROVE  ReportFailed(c)
    BY <1>4 DEF Go, Process, Claim, ClaimFails, Upload, Start, StageFails, ReportStage, Prepare,
       ReportStarted, ReportStartedFails, GetStatus, GetStatusFails, Reread, Report, ReportFails, IsAt, Tells
  <1>5. ASSUME NEW d \in Ticks, Tick(d)
        PROVE  co'[c] = co[c]
    BY <1>2, <1>5 DEF Tick, IsAt, Coroutines
  <1>6. ASSUME NEW d \in Commands, NEW cmd \in DOMAIN Commanded, Command(d, cmd)
        PROVE  co'[c] = co[c]
    BY <1>2, <1>6 DEF Command, IsAt, Coroutines
  <1>7. ReportFailed(c)
    BY <1>1, <1>3, <1>4, <1>5, <1>6 DEF BridgeNext, EnqueueJob, Finish, Break, bridgeVars
  <1>8. CASE ReportStatus(j, "failed")
    <2>1. "failed" \in told'[j]
      BY <1>8 DEF ReportStatus, WorkInv, BridgeTypeOK, QueueTypeOK
    <2> QED
      BY <2>1 DEF Ended, Finals
  <1> QED
    BY <1>7, <1>8 DEF ReportFailed, Fault

\* Who reports that a job prints: its tick, which makes it active or sees the report
\* cut off, or a report of the job that is active.
LEMMA PrintingIsToldBy ==
  ASSUME WorkInv, [BridgeNext]_bridgeVars, NEW j \in Jobs,
         "printing" \notin told[j], "printing" \in told'[j]
  PROVE  \E c \in Coroutines :
           /\ co[c].job = j
           /\ \/ ReportStarted(c) \/ ReportStartedFails(c)
              \/ co[c].pc = "report" /\ UNCHANGED active
  <1>1. ~UNCHANGED told
    OBVIOUS
  <1>2. ASSUME NEW k, NEW st, told' = [told EXCEPT ![k] = @ \cup {st}]
        PROVE  k = j /\ st = "printing"
    BY <1>2 DEF WorkInv, BridgeTypeOK, QueueTypeOK
  <1>3. ASSUME NEW c \in Coroutines, NEW st, ReportStatus(co[c].job, st)
        PROVE  co[c].job = j /\ st = "printing"
    BY <1>2, <1>3 DEF ReportStatus
  <1>4. ASSUME NEW c \in Coroutines, ReportStage(c) \/ StageFails(c)
        PROVE  FALSE
    <2>1. co[c].pc \in DOMAIN Tells /\ ReportStatus(co[c].job, Tells[co[c].pc])
      BY <1>1, <1>4 DEF ReportStage, StageFails, queueVars
    <2>2. Tells[co[c].pc] # "printing"
      BY <2>1 DEF Tells
    <2> QED
      BY <1>3, <2>1, <2>2
  <1>5. ASSUME NEW c \in Coroutines, ReportFailed(c)
        PROVE  FALSE
    <2>1. ReportStatus(co[c].job, "failed")
      BY <1>1, <1>5 DEF ReportFailed, queueVars
    <2> QED
      BY <1>3, <2>1
  <1>6. ASSUME NEW c \in Coroutines, Report(c) \/ ReportFails(c)
        PROVE  co[c].job = j /\ co[c].pc = "report" /\ UNCHANGED active
    <2>1. ReportStatus(co[c].job, co[c].tell) /\ co[c].pc = "report"
      BY <1>1, <1>6 DEF Report, ReportFails, IsAt, queueVars
    <2>2. co[c].job = j /\ co[c].tell = "printing"
      BY <1>3, <2>1
    <2> QED
      BY <1>6, <2>1, <2>2 DEF Report, ReportFails, LetsGo
  <1>7. ASSUME NEW c \in Coroutines, ReportStarted(c) \/ ReportStartedFails(c)
        PROVE  co[c].job = j
    <2>1. ReportStatus(co[c].job, "printing")
      BY <1>1, <1>7 DEF ReportStarted, ReportStartedFails, queueVars
    <2> QED
      BY <1>3, <2>1
  <1> QED
    BY <1>1, <1>4, <1>5, <1>6, <1>7 DEF BridgeNext, EnqueueJob, Enqueue, Tick, Command, Go, Claim,
       ClaimFails, ClaimNextPrintQueueJob, Claimed, Process, Upload, Start, Prepare, GetStatus,
       GetStatusFails, Reread, Finish, Break, Restart, bridgeVars, queueVars

\* A printing job stays some bridge's until its end is reported.
LEMMA StepKeepsPrints ==
  ASSUME OneTickEach, WorkInv, WatchInv, [BridgeNext]_bridgeVars
  PROVE  PrintsAreKept'
  <1> SUFFICES ASSUME Calm', NEW j \in Jobs, "printing" \in told'[j], ~Ended(j)'
               PROVE  \/ \E b \in Bridges : active'[b] = j
                      \/ faults' > 0 /\ \E c \in Coroutines : co'[c].job = j /\ co'[c].pc = "failed"
                      \/ faults' > 1
    BY DEF PrintsAreKept, Calm
  <1>1. Calm /\ ~Ended(j)
    BY CoMoves, ToldStays DEF Calm, Cancelled
  <1>2. ASSUME NEW c \in Ticks
        PROVE  /\ Working(c) => ActiveOf(c) = NoJob
               /\ co[c].pc = "report" => ActiveOf(c) = co[c].job
    BY <1>1, <1>2 DEF WatchInv, FieldFollowsTick, Calm
  <1>3. ASSUME NEW b \in Bridges, active[b] = j
        PROVE  active'[b] = j
    <2>1. FieldMove(b)
      BY FieldMoves
    <2> QED
      BY <1>2, <1>3, <2>1, NoJobIsApart DEF FieldMove, ActiveOf, Working, Stages
  <1>4. CASE "printing" \in told[j]
    <2>1. CASE \E b \in Bridges : active[b] = j
      BY <1>3, <2>1
    <2>2. ASSUME faults > 0, NEW c \in Coroutines, co[c].job = j, co[c].pc = "failed"
          PROVE  \/ faults' > 0 /\ \E d \in Coroutines : co'[d].job = j /\ co'[d].pc = "failed"
                 \/ faults' > 1
      BY <2>2, FailuresAreTold, FaultsMove
    <2>3. CASE faults > 1
      BY <2>3, FaultsMove
    <2> QED
      BY <1>1, <1>4, <2>1, <2>2, <2>3 DEF WatchInv, PrintsAreKept, Calm
  <1>5. CASE "printing" \notin told[j]
    <2>1. PICK c \in Coroutines :
            /\ co[c].job = j
            /\ \/ ReportStarted(c) \/ ReportStartedFails(c)
               \/ co[c].pc = "report" /\ UNCHANGED active
      BY <1>5, PrintingIsToldBy
    <2>2. PICK b \in Bridges : b = BridgeOf[c]
      BY OfACoroutine
    <2>3. CASE ReportStarted(c)
      BY <2>1, <2>2, <2>3 DEF ReportStarted, WorkInv, BridgeTypeOK
    <2>4. CASE ReportStartedFails(c)
      <3>1. co'[c].job = j /\ co'[c].pc = "failed"
        BY <2>1, <2>4 DEF ReportStartedFails, GoTo, WorkInv, BridgeTypeOK
      <3>2. faults' > 0
        BY <2>4, FaultsMove DEF ReportStartedFails, Fault
      <3> QED
        BY <3>1, <3>2
    <2>5. CASE co[c].pc = "report" /\ UNCHANGED active
      <3>1. ActiveOf(c) = j
        BY <1>1, <2>1, <2>5 DEF WatchInv, FieldFollowsTick, Calm
      <3> QED
        BY <2>2, <2>5, <3>1 DEF ActiveOf
    <2> QED
      BY <2>1, <2>3, <2>4, <2>5
  <1> QED
    BY <1>4, <1>5

\* With ticks that do not overlap, somebody is going to report a printing job again
\* until its end is reported, unless its bridge restarted, a cancel let go of
\* another job, or two calls in a row failed.
LEMMA WatchInvariant ==
  ASSUME OneTickEach
  PROVE  BridgeSpec => []WatchInv
  <1>1. BridgeInit => WatchInv
    <2> SUFFICES ASSUME BridgeInit PROVE WatchInv
      OBVIOUS
    <2>1. \A c \in Coroutines : co[c].pc = "idle"
      BY DEF BridgeInit, Idle
    <2>2. \A j \in Jobs : told[j] = {}
      BY DEF BridgeInit, QueueInit
    <2>3. FieldFollowsTick
      BY <2>1 DEF FieldFollowsTick, Working, Stages, Coroutines
    <2>4. PrintsAreKept
      BY <2>2 DEF PrintsAreKept
    <2> QED
      BY <2>3, <2>4 DEF WatchInv
  <1>2. WorkInv /\ WatchInv /\ [BridgeNext]_bridgeVars => WatchInv'
    BY StepKeepsField, StepKeepsPrints DEF WatchInv
  <1> QED
    BY <1>1, <1>2, WorkInvariant, PTL DEF BridgeSpec

THEOREM StartedJobsAreWatched ==
  ASSUME OneTickEach
  PROVE  BridgeSpec => []StartedJobIsWatched
  <1>1. WorkInv /\ WatchInv => StartedJobIsWatched
    BY DEF WorkInv, BridgeTypeOK, WatchInv, PrintsAreKept, StartedJobIsWatched, Watched
  <1> QED
    BY <1>1, WorkInvariant, WatchInvariant, PTL

-----------------------------------------------------------------------------
(* If nothing fails either: a print is not started over another one.       *)

Prints(b, j) == printer[b].state \in {"printing", "paused"} /\ printer[b].job = j

Free(b) == printer[b] = [state |-> "idle", job |-> NoJob]

\* The printer of the bridge's job prints it or is done with it.
FieldIsPrinted ==
  \A b \in Bridges : active[b] # NoJob => Prints(b, active[b]) \/ Free(b)

\* What a printer prints is its bridge's job, or its tick is about to report it.
PrintIsKnown ==
  \A b \in Bridges : printer[b].state \in {"printing", "paused"} =>
    /\ printer[b].job # NoJob
    /\ \/ active[b] = printer[b].job
       \/ \E c \in Ticks : BridgeOf[c] = b /\ co[c].pc = "started" /\ co[c].job = printer[b].job

\* A tick that started a print reports it truly, and calls it completed only once
\* the printer is free.
TickKnowsPrinter(c) ==
  /\ co[c].pc = "started" => Prints(BridgeOf[c], co[c].job) \/ Free(BridgeOf[c])
  /\ co[c].pc \in {"reread", "report"} =>
       /\ co[c].tell = "completed" => Free(BridgeOf[c])
       /\ co[c].tell # "failed"

PrinterFollowsField ==
  Undisturbed => FieldIsPrinted /\ PrintIsKnown /\ \A c \in Ticks : TickKnowsPrinter(c)

\* What a step without a fault does to a tick, as far as the printer matters.
TickMove(c) ==
  \/ co'[c] = co[c]
  \/ co'[c].pc \notin {"started", "reread", "report"} /\ co[c].pc # "started"
  \/ Start(c) /\ co'[c].job = co[c].job
  \/ ReportStarted(c) /\ co'[c] = Idle
  \/ GetStatus(c) /\ co'[c].pc = "reread" /\ co'[c].tell = Meaning[PrinterOf(c).state]
  \/ /\ co[c].pc = "reread" /\ co'[c].pc = "report" /\ co'[c].tell = co[c].tell
     /\ UNCHANGED printer

LEMMA UndisturbedStep ==
  ASSUME WorkInv, [BridgeNext]_bridgeVars, Undisturbed'
  PROVE  Undisturbed /\ Calm /\ Calm' /\ ~Fault
  <1>1. Calm /\ Calm'
    BY CoMoves, ToldStays DEF Undisturbed, Calm, Cancelled
  <1> QED
    BY <1>1, FaultsMove DEF Undisturbed, Calm, Fault

LEMMA TickMoves ==
  ASSUME WorkInv, [BridgeNext]_bridgeVars, Undisturbed', NEW c \in Ticks
  PROVE  TickMove(c)
  <1>1. /\ co \in [Coroutines -> Coroutine] /\ BridgeTypeOK /\ c \in Coroutines /\ c \notin Commands
        /\ ~Fault /\ \A b \in Bridges : ~Restart(b)
    BY UndisturbedStep, BridgeBounds, CommandsAreNoTicks
    DEF Restart, Calm, WorkInv, BridgeTypeOK, Coroutine, Coroutines
  <1>2. ASSUME NEW d \in Coroutines, d # c,
               \/ Go(d) \/ (d \in Ticks /\ Tick(d))
               \/ (d \in Commands /\ \E cmd \in DOMAIN Commanded : Command(d, cmd))
        PROVE  co'[c] = co[c]
    BY <1>1, <1>2, OneMoves
  <1>3. ASSUME Leave(c)
        PROVE  co'[c] = Idle
    BY <1>1, <1>3 DEF Leave
  <1>4. ASSUME NEW p, GoTo(c, p)
        PROVE  co'[c].pc = p /\ co'[c].job = co[c].job
    BY <1>1, <1>4 DEF GoTo, Coroutine
  <1>5. ASSUME NEW p, NEW j, NEW t, Set(c, p, j, t)
        PROVE  co'[c].pc = p /\ co'[c].tell = t
    BY <1>1, <1>5 DEF Set
  <1>6. CASE Tick(c) \/ Claim(c)
    BY <1>3, <1>5, <1>6 DEF Tick, Claim, IsAt, TickMove, Idle
  <1>7. CASE ReportStage(c) \/ Prepare(c) \/ Upload(c)
    <2>1. PICK p \in Stages \ {"started", "failed"} : GoTo(c, p)
      BY <1>7, StagesTellNoEnd DEF ReportStage, Prepare, Upload, Stages, After
    <2>2. co[c].pc # "started"
      BY <1>7 DEF ReportStage, Prepare, Upload, IsAt, Tells
    <2>3. p \notin {"started", "reread", "report"}
      BY DEF Stages
    <2>4. co'[c].pc = p
      BY <1>4, <2>1
    <2> QED
      BY <2>2, <2>3, <2>4 DEF TickMove
  <1>8. CASE Start(c)
    BY <1>4, <1>8 DEF Start, TickMove
  <1>9. CASE ReportStarted(c)
    BY <1>3, <1>9 DEF ReportStarted, TickMove
  <1>10. CASE ReportFailed(c) \/ Report(c)
    BY <1>3, <1>10 DEF ReportFailed, Report, IsAt, Idle, TickMove
  <1>11. CASE GetStatus(c)
    BY <1>5, <1>11 DEF GetStatus, TickMove
  <1>12. CASE Reread(c)
    BY <1>3, <1>5, <1>12 DEF Reread, IsAt, Idle, TickMove
  <1>13. CASE ClaimFails(c) \/ StageFails(c) \/ ReportStartedFails(c) \/ GetStatusFails(c) \/ ReportFails(c)
    BY <1>1, <1>13 DEF ClaimFails, StageFails, ReportStartedFails, GetStatusFails, ReportFails
  <1>14. CASE Tick(c) \/ Go(c)
    BY <1>6, <1>7, <1>8, <1>9, <1>10, <1>11, <1>12, <1>13, <1>14 DEF Go, Process
  <1>15. CASE co'[c] = co[c]
    BY <1>15 DEF TickMove
  <1> QED
    BY <1>1, <1>2, <1>14, <1>15 DEF BridgeNext, EnqueueJob, Finish, Break, bridgeVars, Coroutines

\* What a step without a fault does to a printer.
PrinterMove(b) ==
  \/ printer'[b] = printer[b]
  \/ Free(b)' /\ UNCHANGED <<active, co>>
  \/ \E c \in Ticks :
       /\ BridgeOf[c] = b /\ co[c].pc = "upload" /\ co'[c].pc = "uploaded" /\ UNCHANGED active
       /\ printer'[b].state = printer[b].state
  \/ \E c \in Ticks :
       /\ BridgeOf[c] = b /\ co[c].pc = "start" /\ co'[c].pc = "started" /\ UNCHANGED active
       /\ co'[c].job = co[c].job
       /\ printer'[b] = [state |-> "printing", job |-> co[c].job]
  \/ /\ active[b] # NoJob /\ printer[b].job = active[b] /\ UNCHANGED active
     /\ \A d \in Ticks : co'[d] = co[d]
     /\ Prints(b, active[b])' \/ Free(b)'

LEMMA PrinterMoves ==
  ASSUME WorkInv, [BridgeNext]_bridgeVars, Undisturbed', NEW b \in Bridges
  PROVE  PrinterMove(b)
  <1>1. /\ co \in [Coroutines -> Coroutine] /\ BridgeTypeOK /\ ~Fault
        /\ printer \in [Bridges -> [state : PrinterStates, job : Jobs \cup {NoJob}]]
        /\ Ticks \subseteq Coroutines /\ Commands \subseteq Coroutines
    BY UndisturbedStep DEF WorkInv, BridgeTypeOK, Coroutine, Coroutines
  <1>2. ASSUME NEW c \in Coroutines, NEW st, NEW j, SetPrinter(c, st, j)
        PROVE  \/ BridgeOf[c] # b /\ printer'[b] = printer[b]
               \/ BridgeOf[c] = b /\ printer'[b] = [state |-> st, job |-> j]
    BY <1>1, <1>2 DEF SetPrinter
  <1>3. ASSUME NEW c \in Coroutines, NEW p, GoTo(c, p)
        PROVE  co'[c].pc = p /\ co'[c].job = co[c].job
    BY <1>1, <1>3 DEF GoTo, Coroutine
  <1>4. ASSUME NEW c \in Coroutines, co[c].pc \in {"upload", "start"}
        PROVE  c \in Ticks
    BY <1>4 DEF WorkInv, CoroutinesHaveJobs
  <1>5. ASSUME NEW c \in Coroutines, Upload(c)
        PROVE  PrinterMove(b)
    <2>1. /\ co[c].pc = "upload" /\ co'[c].pc = "uploaded" /\ UNCHANGED active
          /\ SetPrinter(c, PrinterOf(c).state, co[c].job)
      BY <1>3, <1>5 DEF Upload, IsAt
    <2>2. \/ BridgeOf[c] # b /\ printer'[b] = printer[b]
          \/ /\ BridgeOf[c] = b
             /\ printer'[b] = [state |-> PrinterOf(c).state, job |-> co[c].job]
      BY <1>2, <2>1
    <2> QED
      BY <1>4, <2>1, <2>2 DEF PrinterOf, PrinterMove
  <1>6. ASSUME NEW c \in Coroutines, Start(c)
        PROVE  PrinterMove(b)
    <2>1. /\ co[c].pc = "start" /\ co'[c].pc = "started" /\ co'[c].job = co[c].job /\ UNCHANGED active
          /\ SetPrinter(c, "printing", co[c].job)
      BY <1>3, <1>6 DEF Start, StartsOn, IsAt
    <2>2. \/ BridgeOf[c] # b /\ printer'[b] = printer[b]
          \/ BridgeOf[c] = b /\ printer'[b] = [state |-> "printing", job |-> co[c].job]
      BY <1>2, <2>1
    <2> QED
      BY <1>4, <2>1, <2>2 DEF PrinterMove
  <1>7. ASSUME NEW c \in Commands, NEW cmd \in DOMAIN Commanded, Command(c, cmd)
        PROVE  PrinterMove(b)
    <2>1. c \in Coroutines /\ c \notin Ticks
      BY <1>1, CommandsAreNoTicks
    <2>2. \A d \in Ticks : co'[d] = co[d]
      BY <1>1, <1>7, <2>1, OneMoves
    <2>3. /\ ActiveOf(c) # NoJob /\ UNCHANGED active
          /\ \/ UNCHANGED printer
             \/ /\ PrinterOf(c).job = ActiveOf(c)
                /\ SetPrinter(c, Commanded[cmd].state, IF cmd = "cancel" THEN NoJob ELSE ActiveOf(c))
      BY <1>7 DEF Command
    <2>4. CASE printer'[b] = printer[b]
      BY <2>4 DEF PrinterMove
    <2>5. CASE printer'[b] # printer[b]
      <3>1. /\ BridgeOf[c] = b
            /\ printer'[b] = [state |-> Commanded[cmd].state,
                              job |-> IF cmd = "cancel" THEN NoJob ELSE ActiveOf(c)]
        BY <1>2, <2>1, <2>3, <2>5
      <3>2. active[b] # NoJob /\ printer[b].job = active[b]
        BY <2>3, <2>5, <3>1 DEF ActiveOf, PrinterOf
      <3>3. \/ cmd = "cancel" /\ printer'[b] = [state |-> "idle", job |-> NoJob]
            \/ \E st \in {"paused", "printing"} : printer'[b] = [state |-> st, job |-> active[b]]
        BY <3>1 DEF Commanded, ActiveOf
      <3>4. Prints(b, active[b])' \/ Free(b)'
        BY <2>3, <3>3 DEF Prints, Free
      <3> QED
        BY <2>2, <2>3, <3>2, <3>4 DEF PrinterMove
    <2> QED
      BY <2>4, <2>5
  <1>8. ASSUME NEW a \in Bridges, Finish(a)
        PROVE  PrinterMove(b)
    BY <1>1, <1>8 DEF Finish, PrinterMove, Free
  <1>9. CASE UNCHANGED printer
    BY <1>9 DEF PrinterMove
  <1>10. ASSUME NEW c \in Coroutines, StageFails(c)
         PROVE  FALSE
    BY <1>1, <1>10 DEF StageFails
  <1>11. ASSUME NEW a \in Bridges, Break(a)
         PROVE  FALSE
    BY <1>1, <1>11 DEF Break
  <1> QED
    BY <1>5, <1>6, <1>7, <1>8, <1>9, <1>10, <1>11 DEF BridgeNext, EnqueueJob, Tick, Go, Claim, ClaimFails,
       Process, ReportStage, Prepare, ReportStarted, ReportStartedFails, ReportFailed, GetStatus,
       GetStatusFails, Reread, Report, ReportFails, Restart, bridgeVars

\* What holds before a step without a fault, of a bridge and its tick.
LEMMA BeforeTheStep ==
  ASSUME WorkInv, FieldFollowsTick, PrinterFollowsField, Undisturbed, NEW c \in Ticks, NEW b \in Bridges,
         BridgeOf[c] = b
  PROVE  /\ c \in Coroutines
         /\ co[c].pc \in Stages => active[b] = NoJob /\ co[c].job \in Jobs /\ co[c].job # NoJob
         /\ co[c].pc \in {"status", "reread", "report"} => active[b] # NoJob
         /\ active[b] # NoJob => Prints(b, active[b]) \/ Free(b)
         /\ TickKnowsPrinter(c)
  BY OfACoroutine, NoJobIsApart DEF FieldFollowsTick, PrinterFollowsField, FieldIsPrinted, Undisturbed,
     Working, ActiveOf, Coroutines

\* A tick that is between its stages finds its printer at rest.
LEMMA TickFindsPrinterAtRest ==
  ASSUME OneTickEach, WorkInv, FieldFollowsTick, PrinterFollowsField, Undisturbed,
         NEW c \in Ticks, NEW b \in Bridges, BridgeOf[c] = b, co[c].pc \in Stages \ {"started"}
  PROVE  printer[b].state \notin {"printing", "paused"}
  <1> SUFFICES ASSUME printer[b].state \in {"printing", "paused"} PROVE FALSE
    OBVIOUS
  <1>1. /\ printer[b].job # NoJob
        /\ \/ active[b] = printer[b].job
           \/ \E d \in Ticks : BridgeOf[d] = b /\ co[d].pc = "started"
    BY DEF PrinterFollowsField, PrintIsKnown
  <1>2. active[b] = NoJob
    BY BeforeTheStep
  <1> QED
    BY <1>1, <1>2 DEF OneTickEach

LEMMA StepKeepsPrinted ==
  ASSUME OneTickEach, WorkInv, FieldFollowsTick, PrinterFollowsField, [BridgeNext]_bridgeVars, Undisturbed'
  PROVE  FieldIsPrinted'
  <1> SUFFICES ASSUME NEW b \in Bridges, active'[b] # NoJob
               PROVE  Prints(b, active[b])' \/ Free(b)'
    BY DEF FieldIsPrinted, Prints, Free
  <1>1. Undisturbed /\ FieldMove(b) /\ PrinterMove(b)
    BY UndisturbedStep, FieldMoves, PrinterMoves
  <1>2. active[b] # NoJob => Prints(b, active[b]) \/ Free(b)
    BY <1>1 DEF PrinterFollowsField, FieldIsPrinted
  <1>3. CASE active'[b] = active[b]
    <2>1. CASE printer'[b] = printer[b]
      BY <1>2, <1>3, <2>1 DEF Prints, Free
    <2>2. ASSUME NEW c \in Ticks, BridgeOf[c] = b, co[c].pc \in {"upload", "start"}
          PROVE  FALSE
      BY <1>1, <1>3, <2>2, BeforeTheStep DEF Stages
    <2> QED
      BY <1>1, <2>1, <2>2 DEF PrinterMove
  <1>4. ASSUME NEW c \in Ticks, BridgeOf[c] = b, co[c].pc = "started", active'[b] = co[c].job,
               UNCHANGED printer
        PROVE  Prints(b, active[b])' \/ Free(b)'
    <2>1. Prints(b, co[c].job) \/ Free(b)
      BY <1>1, <1>4, BeforeTheStep DEF TickKnowsPrinter
    <2> QED
      BY <1>4, <2>1 DEF Prints, Free
  <1> QED
    BY <1>1, <1>3, <1>4 DEF FieldMove

LEMMA StepKeepsKnown ==
  ASSUME OneTickEach, WorkInv, FieldFollowsTick, PrinterFollowsField, [BridgeNext]_bridgeVars, Undisturbed'
  PROVE  PrintIsKnown'
  <1> SUFFICES ASSUME NEW b \in Bridges, printer'[b].state \in {"printing", "paused"}
               PROVE  /\ printer'[b].job # NoJob
                      /\ \/ active'[b] = printer'[b].job
                         \/ \E c \in Ticks : /\ BridgeOf[c] = b /\ co'[c].pc = "started"
                                             /\ co'[c].job = printer'[b].job
    BY DEF PrintIsKnown
  <1>1. Undisturbed /\ FieldMove(b) /\ PrinterMove(b)
    BY UndisturbedStep, FieldMoves, PrinterMoves
  <1>2. CASE printer'[b] = printer[b]
    <2>1. PICK j : j = printer[b].job
      OBVIOUS
    <2>2. /\ j # NoJob
          /\ \/ active[b] = j
             \/ \E c \in Ticks : BridgeOf[c] = b /\ co[c].pc = "started" /\ co[c].job = j
      BY <1>1, <1>2, <2>1 DEF PrinterFollowsField, PrintIsKnown
    <2>3. ASSUME active[b] = j
          PROVE  active'[b] = j
      <3>1. ASSUME NEW c \in Ticks, BridgeOf[c] = b, co[c].pc = "report",
                   co[c].tell \in {"completed", "failed"}
            PROVE  FALSE
        <4>1. Free(b)
          BY <1>1, <3>1, BeforeTheStep DEF TickKnowsPrinter
        <4> QED
          BY <1>2, <4>1 DEF Free
      <3>2. ASSUME NEW c \in Ticks, BridgeOf[c] = b, co[c].pc = "started"
            PROVE  FALSE
        BY <1>1, <2>2, <2>3, <3>2, BeforeTheStep DEF Stages
      <3> QED
        BY <1>1, <2>3, <3>1, <3>2 DEF FieldMove
    <2>4. ASSUME NEW c \in Ticks, BridgeOf[c] = b, co[c].pc = "started", co[c].job = j
          PROVE  active'[b] = j \/ (co'[c].pc = "started" /\ co'[c].job = j)
      <3>1. TickMove(c)
        BY TickMoves
      <3>2. CASE ReportStarted(c)
        BY <2>4, <3>2 DEF ReportStarted, WorkInv, BridgeTypeOK
      <3>3. ~Start(c) /\ ~GetStatus(c)
        BY <2>4 DEF Start, GetStatus, IsAt
      <3> QED
        BY <2>4, <3>1, <3>2, <3>3 DEF TickMove
    <2> QED
      BY <1>2, <2>1, <2>2, <2>3, <2>4
  <1>3. CASE Free(b)'
    BY <1>3 DEF Free
  <1>4. ASSUME NEW c \in Ticks, BridgeOf[c] = b, co[c].pc = "upload",
               printer'[b].state = printer[b].state
        PROVE  FALSE
    BY <1>1, <1>4, TickFindsPrinterAtRest DEF Stages
  <1>5. ASSUME NEW c \in Ticks, BridgeOf[c] = b, co[c].pc = "start", co'[c].pc = "started",
               co'[c].job = co[c].job, printer'[b] = [state |-> "printing", job |-> co[c].job]
        PROVE  /\ printer'[b].job # NoJob
               /\ co'[c].job = printer'[b].job
    BY <1>1, <1>5, BeforeTheStep DEF Stages
  <1>6. CASE active[b] # NoJob /\ UNCHANGED active /\ Prints(b, active[b])'
    BY <1>6 DEF Prints
  <1> QED
    BY <1>1, <1>2, <1>3, <1>4, <1>5, <1>6 DEF PrinterMove

LEMMA StepKeepsKnowledge ==
  ASSUME OneTickEach, WorkInv, FieldFollowsTick, PrinterFollowsField, [BridgeNext]_bridgeVars,
         Undisturbed', NEW c \in Ticks
  PROVE  TickKnowsPrinter(c)'
  <1>1. PICK b \in Bridges : b = BridgeOf[c]
    BY OfACoroutine DEF Coroutines
  <1>2. Undisturbed /\ PrinterMove(b) /\ TickMove(c)
    BY UndisturbedStep, PrinterMoves, TickMoves
  <1>3. PICK j : j = co[c].job
    OBVIOUS
  <1>4. /\ c \in Coroutines
        /\ co[c].pc \in Stages => active[b] = NoJob
        /\ co[c].pc \in {"status", "reread", "report"} => active[b] # NoJob
        /\ active[b] # NoJob => Prints(b, active[b]) \/ Free(b)
        /\ co[c].pc = "started" => Prints(b, j) \/ Free(b)
        /\ co[c].pc \in {"reread", "report"} => (co[c].tell = "completed" => Free(b)) /\ co[c].tell # "failed"
    BY <1>1, <1>2, <1>3, BeforeTheStep DEF TickKnowsPrinter
  <1>5. ASSUME NEW d \in Ticks, BridgeOf[d] = b
        PROVE  d = c
    BY <1>1, <1>5 DEF OneTickEach
  <1>6. ASSUME co[c].pc = "started", co'[c] = co[c]
        PROVE  Prints(b, j)' \/ Free(b)'
    <2>1. active[b] = NoJob
      BY <1>4, <1>6 DEF Stages
    <2>2. printer'[b] = printer[b] \/ Free(b)'
      BY <1>2, <1>5, <1>6, <2>1 DEF PrinterMove
    <2> QED
      BY <1>4, <1>6, <2>2 DEF Prints, Free
  <1>7. ASSUME co[c].pc \in {"reread", "report"}, Free(b)
        PROVE  Free(b)'
    <2>1. active[b] # NoJob
      BY <1>4, <1>7
    <2>2. printer[b].job # active[b]
      BY <1>7, <2>1 DEF Free
    <2>3. printer'[b] = printer[b] \/ Free(b)'
      BY <1>2, <1>5, <1>7, <2>2 DEF PrinterMove
    <2> QED
      BY <1>7, <2>3 DEF Free
  <1> SUFFICES /\ co'[c].pc = "started" => Prints(b, co[c].job)' \/ Free(b)'
               /\ co'[c].pc \in {"reread", "report"} =>
                    (co'[c].tell = "completed" => Free(b)') /\ co'[c].tell # "failed"
    BY <1>1 DEF TickKnowsPrinter, Prints, Free
  <1>8. CASE co'[c] = co[c]
    BY <1>3, <1>4, <1>6, <1>7, <1>8 DEF Prints
  <1>9. CASE Start(c) /\ co'[c].job = co[c].job
    <2>1. co'[c].pc = "started" /\ printer'[b] = [state |-> "printing", job |-> j]
      BY <1>1, <1>3, <1>4, <1>9
      DEF Start, StartsOn, SetPrinter, GoTo, WorkInv, BridgeTypeOK
    <2> QED
      BY <1>3, <1>9, <2>1 DEF Prints
  <1>10. CASE ReportStarted(c) /\ co'[c] = Idle
    BY <1>10 DEF Idle
  <1>11. CASE GetStatus(c) /\ co'[c].pc = "reread" /\ co'[c].tell = Meaning[PrinterOf(c).state]
    <2>1. co[c].pc = "status" /\ UNCHANGED printer
      BY <1>11 DEF GetStatus, IsAt
    <2>2. Prints(b, active[b]) \/ Free(b)
      BY <1>4, <2>1
    <2>3. co'[c].tell = Meaning[printer[b].state]
      BY <1>1, <1>11 DEF PrinterOf
    <2> QED
      BY <1>11, <2>1, <2>2, <2>3 DEF Prints, Free, Meaning
  <1>12. CASE co[c].pc = "reread" /\ co'[c].pc = "report" /\ co'[c].tell = co[c].tell /\ UNCHANGED printer
    BY <1>4, <1>7, <1>12
  <1> QED
    BY <1>2, <1>8, <1>9, <1>10, <1>11, <1>12 DEF TickMove

\* With ticks that do not overlap and no failure, a printer prints what its bridge
\* believes it prints.
LEMMA PrinterInvariant ==
  ASSUME OneTickEach
  PROVE  BridgeSpec => []PrinterFollowsField
  <1>1. BridgeInit => PrinterFollowsField
    BY DEF BridgeInit, PrinterFollowsField, FieldIsPrinted, PrintIsKnown, TickKnowsPrinter, Idle, Coroutines
  <1>2. WorkInv /\ WatchInv /\ PrinterFollowsField /\ [BridgeNext]_bridgeVars => PrinterFollowsField'
    BY StepKeepsPrinted, StepKeepsKnown, StepKeepsKnowledge DEF WatchInv, PrinterFollowsField
  <1> QED
    BY <1>1, <1>2, WorkInvariant, WatchInvariant, PTL DEF BridgeSpec

\* With ticks that do not overlap, a print is not started over another one that is
\* still running, as long as nothing failed before.
THEOREM NoPrintIsBumped ==
  ASSUME OneTickEach
  PROVE  BridgeSpec => NothingIsBumped
  <1>1. ASSUME WorkInv, WatchInv, PrinterFollowsField, BridgeNext, Undisturbed,
               NEW b \in Bridges, printer[b].state \in {"printing", "paused"}
        PROVE  printer'[b].job \in {printer[b].job, NoJob}
    <2>1. printer \in [Bridges -> [state : PrinterStates, job : Jobs \cup {NoJob}]]
      BY <1>1 DEF WorkInv, BridgeTypeOK
    <2>2. ASSUME NEW c \in Coroutines, NEW st, NEW j, SetPrinter(c, st, j),
                 BridgeOf[c] # b \/ j \in {printer[b].job, NoJob}
          PROVE  printer'[b].job \in {printer[b].job, NoJob}
      BY <2>1, <2>2 DEF SetPrinter
    <2>3. ASSUME NEW c \in Coroutines, co[c].pc \in {"upload", "start"}
          PROVE  BridgeOf[c] # b
      <3>1. c \in Ticks /\ co[c].pc \in Stages \ {"started"}
        BY <1>1, <2>3 DEF WorkInv, CoroutinesHaveJobs, Stages
      <3> QED
        BY <1>1, <3>1, TickFindsPrinterAtRest DEF WatchInv
    <2>4. ASSUME NEW c \in Coroutines, Upload(c) \/ Start(c) \/ StageFails(c)
          PROVE  printer'[b].job \in {printer[b].job, NoJob}
      BY <2>2, <2>3, <2>4 DEF Upload, Start, StageFails, StartsOn, IsAt
    <2>5. ASSUME NEW c \in Commands, NEW cmd \in DOMAIN Commanded, Command(c, cmd)
          PROVE  printer'[b].job \in {printer[b].job, NoJob}
      <3>1. CASE UNCHANGED printer
        BY <3>1
      <3>2. CASE /\ PrinterOf(c).job = ActiveOf(c)
                 /\ SetPrinter(c, Commanded[cmd].state, IF cmd = "cancel" THEN NoJob ELSE ActiveOf(c))
        <4>1. PICK j : j = IF cmd = "cancel" THEN NoJob ELSE ActiveOf(c)
          OBVIOUS
        <4>2. BridgeOf[c] # b \/ j \in {printer[b].job, NoJob}
          BY <3>2, <4>1 DEF PrinterOf
        <4> QED
          BY <2>2, <3>2, <4>1, <4>2 DEF Coroutines
      <3> QED
        BY <2>5, <3>1, <3>2 DEF Command
    <2>6. ASSUME NEW a \in Bridges, Finish(a) \/ Break(a)
          PROVE  printer'[b].job \in {printer[b].job, NoJob}
      BY <2>1, <2>6 DEF Finish, Break
    <2>7. CASE UNCHANGED printer
      BY <2>7
    <2> QED
      BY <1>1, <2>4, <2>5, <2>6, <2>7 DEF BridgeNext, EnqueueJob, Tick, Go, Claim, ClaimFails, Process,
         ReportStage, Prepare, ReportStarted, ReportStartedFails, ReportFailed, GetStatus, GetStatusFails,
         Reread, Report, ReportFails, Restart, bridgeVars
  <1>2. /\ WorkInv /\ WatchInv /\ PrinterFollowsField /\ [BridgeNext]_bridgeVars =>
          [\A b \in Bridges :
             Undisturbed /\ printer[b].state \in {"printing", "paused"} =>
               printer'[b].job \in {printer[b].job, NoJob}]_bridgeVars
    BY <1>1
  <1> QED
    BY <1>2, WorkInvariant, WatchInvariant, PrinterInvariant, PTL DEF BridgeSpec, NothingIsBumped
=============================================================================
