-------------------------------- MODULE PrintQueue --------------------------------
(***************************************************************************)
(* City's print queue as its bridges see it: the jobs of print_queue, the  *)
(* claim (claimNextPrintQueueJob, one statement), and the status reports,  *)
(* which the server answers and does not store (city/routes.ts).           *)
(***************************************************************************)
CONSTANTS
  Jobs, Bridges,
  Nobody,       \* a job no bridge has claimed
  PrintersOf    \* the bridges with an enabled printer each job may go to

ASSUME PrintersOfType == PrintersOf \in [Jobs -> SUBSET Bridges]

VARIABLES
  queue,     \* print_queue: the status of each job
  holder,    \* the bridge whose claim took it
  told       \* the statuses the bridges reported of each job

queueVars == <<queue, holder, told>>

Finals == {"completed", "failed", "cancelled"}

Reports == {"claimed", "slicing", "queued", "printing", "paused"} \cup Finals

QueueTypeOK ==
  /\ queue \in [Jobs -> {"none", "queued", "claimed"}]
  /\ holder \in [Jobs -> Bridges \cup {Nobody}]
  /\ told \in [Jobs -> SUBSET Reports]

QueueInit ==
  /\ queue = [j \in Jobs |-> "none"]
  /\ holder = [j \in Jobs |-> Nobody]
  /\ told = [j \in Jobs |-> {}]

\* The admin's enqueue.
Enqueue(j) ==
  /\ queue[j] = "none"
  /\ queue' = [queue EXCEPT ![j] = "queued"]
  /\ UNCHANGED <<holder, told>>

Claimed(j, b) ==
  /\ queue' = [queue EXCEPT ![j] = "claimed"]
  /\ holder' = [holder EXCEPT ![j] = b]
  /\ UNCHANGED told

\* Slip: the claim does not look at the job's status.
ClaimAny(j, b) ==
  /\ queue[j] # "none"
  /\ b \in PrintersOf[j]
  /\ Claimed(j, b)

\* The row is locked, skipped by other claims, and leaves status queued at once.
ClaimNextPrintQueueJob(j, b) ==
  /\ queue[j] = "queued"
  /\ b \in PrintersOf[j]
  /\ Claimed(j, b)

NothingToClaim(b) == \A j \in Jobs : queue[j] = "queued" => b \notin PrintersOf[j]

\* The route echoes the report: print_queue stays as it is.
ReportStatus(j, status) ==
  /\ told' = [told EXCEPT ![j] = @ \cup {status}]
  /\ UNCHANGED <<queue, holder>>

Ended(j) == told[j] \cap Finals # {}
=============================================================================
