-------------------------------- MODULE Queues ---------------------------------
(***************************************************************************)
(* The BullMQ queues of the background jobs.  job[q][id] is the state of   *)
(* the job with that id in queue q:                                        *)
(*   "none"     the queue knows no such job,                               *)
(*   "waiting"  added, no worker has picked it up,                         *)
(*   "done"     completed or failed, its key still retained,               *)
(* and any other value is the stage of the processor that is running it.   *)
(* Jobs have one attempt: no "attempts" option is ever passed.             *)
(***************************************************************************)

(* The worker of the job moves it to the given stage.                      *)
Move(job, q, id, stage) == [job EXCEPT ![q][id] = stage]

(* Mutant: the job id is not deduplicated.                                 *)
AddAgain(job, q, id) == Move(job, q, id, "waiting")

(* queue.add with a jobId: a no-op while the queue still knows that id.    *)
Add(job, q, id) ==
  Move(job, q, id, IF job[q][id] = "none" THEN "waiting" ELSE job[q][id])

(* Mutant: a stalled job resumes at a stage it had not reached.            *)
BrokenResumes(job, q, id) ==
  {Move(job, q, id, stage) :
     stage \in {"done"} \cup (IF job[q][id] = "waiting" THEN {} ELSE {"record"})}

(* The processor throws (the job fails for good), or the worker running it *)
(* dies (the stalled job is handed out again, from its start).             *)
Broken(job, q, id) ==
  {Move(job, q, id, stage) :
     stage \in {"done"} \cup (IF job[q][id] = "waiting" THEN {} ELSE {"waiting"})}

================================================================================
