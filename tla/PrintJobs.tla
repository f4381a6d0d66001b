-------------------------------- MODULE PrintJobs --------------------------------
(***************************************************************************)
(* What the print pipeline promises of a job (spec/08, Request Workflow):  *)
(* it is queued, one bridge takes it, it is started at most once, and it   *)
(* ends once.  PrintBridge implements it.                                  *)
(***************************************************************************)
EXTENDS Naturals

CONSTANTS Jobs, Bridges, Nobody

VARIABLES
  phase,     \* where each job is: new, queued, claimed, started or ended
  holder,    \* the bridge that took it
  starts     \* how often its print was started

jobVars == <<phase, holder, starts>>

JobsInit ==
  /\ phase = [j \in Jobs |-> "new"]
  /\ holder = [j \in Jobs |-> Nobody]
  /\ starts = [j \in Jobs |-> 0]

Move(j, from, to) ==
  /\ phase[j] \in from
  /\ phase' = [phase EXCEPT ![j] = to]

Queue(j) == Move(j, {"new"}, "queued") /\ UNCHANGED <<holder, starts>>

Take(j, b) ==
  /\ Move(j, {"queued"}, "claimed")
  /\ holder' = [holder EXCEPT ![j] = b]
  /\ UNCHANGED starts

Begin(j) ==
  /\ Move(j, {"claimed"}, "started")
  /\ starts' = [starts EXCEPT ![j] = @ + 1]
  /\ UNCHANGED holder

End(j) == Move(j, {"claimed", "started"}, "ended") /\ UNCHANGED <<holder, starts>>

JobsNext ==
  \E j \in Jobs : Queue(j) \/ Begin(j) \/ End(j) \/ \E b \in Bridges : Take(j, b)

JobsSpec == JobsInit /\ [][JobsNext]_jobVars
=============================================================================
