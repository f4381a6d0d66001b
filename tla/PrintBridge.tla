------------------------------- MODULE PrintBridge -------------------------------
(***************************************************************************)
(* The print bridges (print-bridge/src/bridge.ts) over City's queue: a     *)
(* tick refreshes the active job or claims the next one and takes it       *)
(* through slicing, upload and start; an operator pauses, resumes or       *)
(* cancels.  Ticks and commands are coroutines of one process that read    *)
(* its field `active` after every await.  Each bridge has one printer,     *)
(* which behaves as the dry-run adapter does.                              *)
(*                                                                         *)
(* A tick's heartbeat changes nothing: a tick begins where it has been     *)
(* answered.  With one coroutine in Ticks for a bridge, a tick ends before *)
(* the next poll; with two, it may take longer than pollMs.                *)
(***************************************************************************)
EXTENDS PrintQueue, Naturals

CONSTANTS
  Ticks, Commands,     \* coroutines: poll ticks and operators' commands
  BridgeOf,            \* the bridge each coroutine runs in
  MaxFaults,           \* bound: calls to City or a printer that fail
  MaxCrashes,          \* bound: restarts of a bridge
  NoJob

ASSUME BridgeOfType == BridgeOf \in [Ticks \cup Commands -> Bridges]

ASSUME CommandsAreNoTicks == Ticks \cap Commands = {}

ASSUME NoJobIsApart == NoJob \notin Jobs

ASSUME BridgeBounds == MaxFaults \in Nat /\ MaxCrashes \in Nat

VARIABLES
  active,      \* the field of each bridge
  co,          \* where each coroutine is, the job and the status it reports
  printer,     \* each bridge's printer: its state and job
  starts,      \* how often a printer was started on each job
  faults, crashes

bridgeVars == <<queueVars, active, co, printer, starts, faults, crashes>>

Coroutines == Ticks \cup Commands

Stages == {"claimed", "resolve", "slicing", "slice", "sliced", "upload", "uploaded",
           "start", "started", "failed"}

Steps == {"idle", "claim", "status", "reread", "report"} \cup Stages

PrinterStates == {"idle", "printing", "paused", "error"}

BridgeTypeOK ==
  /\ QueueTypeOK
  /\ active \in [Bridges -> Jobs \cup {NoJob}]
  /\ co \in [Coroutines -> [pc : Steps, job : Jobs \cup {NoJob}, tell : Reports \cup {"none"}]]
  /\ printer \in [Bridges -> [state : PrinterStates, job : Jobs \cup {NoJob}]]
  /\ starts \in [Jobs -> Nat]
  /\ faults \in 0..MaxFaults
  /\ crashes \in 0..MaxCrashes

Idle == [pc |-> "idle", job |-> NoJob, tell |-> "none"]

BridgeInit ==
  /\ QueueInit
  /\ active = [b \in Bridges |-> NoJob]
  /\ co = [c \in Coroutines |-> Idle]
  /\ printer = [b \in Bridges |-> [state |-> "idle", job |-> NoJob]]
  /\ starts = [j \in Jobs |-> 0]
  /\ faults = 0
  /\ crashes = 0

-----------------------------------------------------------------------------
IsAt(c, pc) == co[c].pc = pc

Set(c, pc, job, tell) ==
  co' = [co EXCEPT ![c] = [pc |-> pc, job |-> job, tell |-> tell]]

GoTo(c, pc) == co' = [co EXCEPT ![c].pc = pc]

Leave(c) == co' = [co EXCEPT ![c] = Idle]

ActiveOf(c) == active[BridgeOf[c]]

PrinterOf(c) == printer[BridgeOf[c]]

SetPrinter(c, state, job) ==
  printer' = [printer EXCEPT ![BridgeOf[c]] = [state |-> state, job |-> job]]

Fault == faults < MaxFaults /\ faults' = faults + 1 /\ UNCHANGED crashes

NoFault == UNCHANGED <<faults, crashes>>

\* Slip: a tick looks for work before it looks at the job it has.
TickGreedy(c) ==
  /\ IsAt(c, "idle")
  /\ LET idle == ActiveOf(c) = NoJob \/ ~NothingToClaim(BridgeOf[c])
     IN  Set(c, IF idle THEN "claim" ELSE "status", NoJob, "none")
  /\ NoFault /\ UNCHANGED <<queueVars, active, printer, starts>>

\* tick, once its heartbeat was answered.
Tick(c) ==
  /\ IsAt(c, "idle")
  /\ Set(c, IF ActiveOf(c) = NoJob THEN "claim" ELSE "status", NoJob, "none")
  /\ NoFault /\ UNCHANGED <<queueVars, active, printer, starts>>

Claim(c) ==
  /\ IsAt(c, "claim")
  /\ \/ \E j \in Jobs :
          ClaimNextPrintQueueJob(j, BridgeOf[c]) /\ Set(c, "claimed", j, "none")
     \/ NothingToClaim(BridgeOf[c]) /\ Leave(c) /\ UNCHANGED queueVars
  /\ NoFault /\ UNCHANGED <<active, printer, starts>>

\* City takes the claim and its answer is lost, or the call never arrives.
ClaimFails(c) ==
  /\ IsAt(c, "claim")
  /\ (\E j \in Jobs : ClaimNextPrintQueueJob(j, BridgeOf[c])) \/ UNCHANGED queueVars
  /\ Leave(c)
  /\ Fault /\ UNCHANGED <<active, printer, starts>>

\* processJob: the stages in order, and the reports among them.
After == [claimed |-> "resolve", resolve |-> "slicing", slicing |-> "slice", slice |-> "sliced",
          sliced |-> "upload", upload |-> "uploaded", uploaded |-> "start"]

\* Slip: the report after slicing is named for the stage.
TellsStage == [claimed |-> "claimed", slicing |-> "slicing", sliced |-> "sliced", uploaded |-> "queued"]

Tells == [claimed |-> "claimed", slicing |-> "slicing", sliced |-> "queued", uploaded |-> "queued"]

ReportStage(c) ==
  /\ co[c].pc \in DOMAIN Tells
  /\ ReportStatus(co[c].job, Tells[co[c].pc])
  /\ GoTo(c, After[co[c].pc])
  /\ NoFault /\ UNCHANGED <<active, printer, starts>>

\* The file is found, downloaded or made up, and sliced.
Prepare(c) ==
  /\ co[c].pc \in {"resolve", "slice"}
  /\ GoTo(c, After[co[c].pc])
  /\ NoFault /\ UNCHANGED <<queueVars, active, printer, starts>>

\* The upload already makes the file the printer's current job.
Upload(c) ==
  /\ IsAt(c, "upload")
  /\ SetPrinter(c, PrinterOf(c).state, co[c].job)
  /\ GoTo(c, "uploaded")
  /\ NoFault /\ UNCHANGED <<queueVars, active, starts>>

StartsOn(c) ==
  /\ SetPrinter(c, "printing", co[c].job)
  /\ starts' = [starts EXCEPT ![co[c].job] = @ + 1]

Start(c) ==
  /\ IsAt(c, "start")
  /\ StartsOn(c)
  /\ GoTo(c, "started")
  /\ NoFault /\ UNCHANGED <<queueVars, active>>

\* Any call of processJob throws; what was asked for may have happened.
StageFails(c) ==
  /\ co[c].pc \in Stages \ {"started", "failed"}
  /\ \/ UNCHANGED <<queueVars, printer, starts>>
     \/ /\ co[c].pc \in DOMAIN Tells
        /\ ReportStatus(co[c].job, Tells[co[c].pc])
        /\ UNCHANGED <<printer, starts>>
     \/ IsAt(c, "start") /\ StartsOn(c) /\ UNCHANGED queueVars
  /\ GoTo(c, "failed")
  /\ Fault /\ UNCHANGED active

\* The job becomes the bridge's once its start is reported.
ReportStarted(c) ==
  /\ IsAt(c, "started")
  /\ ReportStatus(co[c].job, "printing")
  /\ active' = [active EXCEPT ![BridgeOf[c]] = co[c].job]
  /\ Leave(c)
  /\ NoFault /\ UNCHANGED <<printer, starts>>

ReportStartedFails(c) ==
  /\ IsAt(c, "started")
  /\ ReportStatus(co[c].job, "printing") \/ UNCHANGED queueVars
  /\ GoTo(c, "failed")
  /\ Fault /\ UNCHANGED <<active, printer, starts>>

\* The catch of processJob; its own report may fail as well.
ReportFailed(c) ==
  /\ IsAt(c, "failed")
  /\ Leave(c)
  /\ \/ ReportStatus(co[c].job, "failed") /\ NoFault
     \/ UNCHANGED queueVars /\ Fault
  /\ UNCHANGED <<active, printer, starts>>

Process(c) ==
  \/ ReportStage(c) \/ Prepare(c) \/ Upload(c) \/ Start(c) \/ StageFails(c)
  \/ ReportStarted(c) \/ ReportStartedFails(c) \/ ReportFailed(c)

-----------------------------------------------------------------------------
\* refreshActiveJob: what the printer's state is reported as.
Meaning == [idle |-> "completed", printing |-> "printing", paused |-> "paused", error |-> "failed"]

GetStatus(c) ==
  /\ IsAt(c, "status")
  /\ Set(c, "reread", NoJob, Meaning[PrinterOf(c).state])
  /\ NoFault /\ UNCHANGED <<queueVars, active, printer, starts>>

\* The printer does not answer, or answers offline: nothing is reported.
GetStatusFails(c) ==
  /\ IsAt(c, "status")
  /\ Leave(c)
  /\ Fault /\ UNCHANGED <<queueVars, active, printer, starts>>

\* Which command is accepted depends on the printer's current job.
Commanded == [pause |-> [state |-> "paused", tell |-> "paused"],
              resume |-> [state |-> "printing", tell |-> "printing"],
              cancel |-> [state |-> "idle", tell |-> "cancelled"]]

\* pause, resume and cancel: the printer is asked for the active job.
Command(c, cmd) ==
  /\ IsAt(c, "idle")
  /\ ActiveOf(c) # NoJob
  /\ IF PrinterOf(c).job = ActiveOf(c)
     THEN /\ SetPrinter(c, Commanded[cmd].state, IF cmd = "cancel" THEN NoJob ELSE ActiveOf(c))
          /\ Set(c, "reread", NoJob, Commanded[cmd].tell)
     ELSE Set(c, "reread", NoJob, "failed") /\ UNCHANGED printer
  /\ NoFault /\ UNCHANGED <<queueVars, active, starts>>

\* The report names the job that is active by now; without one, a TypeError.
Reread(c) ==
  /\ IsAt(c, "reread")
  /\ IF ActiveOf(c) = NoJob THEN Leave(c) ELSE Set(c, "report", ActiveOf(c), co[c].tell)
  /\ NoFault /\ UNCHANGED <<queueVars, active, printer, starts>>

\* Slip: every state but paused counts as the end.
LetsGoEarly(c) == c \in Ticks /\ co[c].tell # "paused"

\* The job is let go when its printer is done with it: a tick that saw it idle or
\* in error, a cancel that was accepted.
LetsGo(c) ==
  co[c].tell \in IF c \in Ticks THEN {"completed", "failed"} ELSE {"cancelled"}

\* Slip: the job is let go before the report is known to have arrived.
ReportLosing(c) ==
  /\ IsAt(c, "report")
  /\ active' = IF LetsGo(c) THEN [active EXCEPT ![BridgeOf[c]] = NoJob] ELSE active
  /\ Leave(c)
  /\ \/ ReportStatus(co[c].job, co[c].tell) /\ NoFault
     \/ UNCHANGED queueVars /\ Fault
  /\ UNCHANGED <<printer, starts>>

Report(c) ==
  /\ IsAt(c, "report")
  /\ ReportStatus(co[c].job, co[c].tell)
  /\ active' = IF LetsGo(c) THEN [active EXCEPT ![BridgeOf[c]] = NoJob] ELSE active
  /\ Leave(c)
  /\ NoFault /\ UNCHANGED <<printer, starts>>

ReportFails(c) ==
  /\ IsAt(c, "report")
  /\ ReportStatus(co[c].job, co[c].tell) \/ UNCHANGED queueVars
  /\ Leave(c)
  /\ Fault /\ UNCHANGED <<active, printer, starts>>

Go(c) ==
  \/ Claim(c) \/ ClaimFails(c) \/ Process(c)
  \/ GetStatus(c) \/ GetStatusFails(c)
  \/ Reread(c) \/ Report(c) \/ ReportFails(c)

-----------------------------------------------------------------------------
\* The print comes to its end.
Finish(b) ==
  /\ printer[b].state = "printing"
  /\ printer' = [printer EXCEPT ![b] = [state |-> "idle", job |-> NoJob]]
  /\ NoFault /\ UNCHANGED <<queueVars, active, co, starts>>

Break(b) ==
  /\ printer[b].state = "printing"
  /\ printer' = [printer EXCEPT ![b].state = "error"]
  /\ Fault /\ UNCHANGED <<queueVars, active, co, starts>>

\* A bridge dies and is started again; its printer goes on.
Restart(b) ==
  /\ crashes < MaxCrashes
  /\ crashes' = crashes + 1
  /\ active' = [active EXCEPT ![b] = NoJob]
  /\ co' = [c \in Coroutines |-> IF BridgeOf[c] = b THEN Idle ELSE co[c]]
  /\ UNCHANGED <<queueVars, printer, starts, faults>>

EnqueueJob == \E j \in Jobs : Enqueue(j) /\ UNCHANGED <<active, co, printer, starts, faults, crashes>>

BridgeNext ==
  \/ EnqueueJob
  \/ \E c \in Ticks : Tick(c)
  \/ \E c \in Commands, cmd \in DOMAIN Commanded : Command(c, cmd)
  \/ \E c \in Coroutines : Go(c)
  \/ \E b \in Bridges : Finish(b) \/ Break(b) \/ Restart(b)

BridgeSpec == BridgeInit /\ [][BridgeNext]_bridgeVars

\* The poll timer keeps firing, a coroutine that was answered goes on, and a
\* printer that prints comes to an end.
BridgeFairSpec ==
  /\ BridgeSpec
  /\ \A c \in Ticks : WF_bridgeVars(Tick(c))
  /\ \A c \in Coroutines : WF_bridgeVars(Go(c))
  /\ \A b \in Bridges : WF_bridgeVars(Finish(b))

-----------------------------------------------------------------------------
Phase(j) ==
  IF Ended(j) THEN "ended"
  ELSE IF starts[j] > 0 THEN "started"
  ELSE IF queue[j] = "none" THEN "new" ELSE queue[j]

J == INSTANCE PrintJobs WITH phase <- [j \in Jobs |-> Phase(j)]

\* Whatever fails, restarts or is commanded, a job is taken by one bridge, its print
\* is started at most once, and never after it was reported ended.
ImplementsPrintJobs == J!JobsSpec

\* Someone is going to report the job again.
Watched(j) ==
  \/ \E b \in Bridges : active[b] = j
  \/ \E c \in Coroutines : co[c].job = j

\* A cancel clears `active` after its report, whatever job that is by then.
Cancelled == \E j \in Jobs : "cancelled" \in told[j]

\* spec/08: "Request completes, fails, or is cancelled": a job that was reported
\* printing and has no end yet is still somebody's, unless its bridge restarted,
\* a cancel came too late and let go of it, or two calls failed: the answer to the
\* report that it prints, and the report that this failed.
StartedJobIsWatched ==
  crashes = 0 /\ faults < 2 /\ ~Cancelled =>
    \A j \in Jobs : "printing" \in told[j] /\ ~Ended(j) => Watched(j)

\* A print is not started over another one that is still running, unless an earlier
\* failure, restart or cancel made the bridge lose sight of its printer.
Undisturbed == faults = 0 /\ crashes = 0 /\ ~Cancelled

NothingIsBumped ==
  [][\A b \in Bridges :
       Undisturbed /\ printer[b].state \in {"printing", "paused"} =>
         printer'[b].job \in {printer[b].job, NoJob}]_bridgeVars

\* A started print is reported ended, when nothing fails and nobody leaves it paused.
StartedJobEnds ==
  \A j \in Jobs :
    starts[j] > 0 ~>
      (Ended(j) \/ ~Undisturbed \/ \E b \in Bridges : printer[b].state = "paused")
=============================================================================
