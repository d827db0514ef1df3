-------------------------------- MODULE Jobs --------------------------------
(***************************************************************************)
(* The background queue of src/internal/jobs/jobs.go, its single worker,   *)
(* the scheduler of recurring jobs and the process around them (serve in   *)
(* src/cmd/briefrelay/main.go).                                             *)
(*                                                                         *)
(* Every job but the password-reset mail has a dedupe key and the column   *)
(* is UNIQUE, so a row is named by its key: a mail for one (event, record, *)
(* user), or one interval of the recurring cleanup.  A job without a key is*)
(* a row that no second enqueue meets: a key that is enqueued once.  The   *)
(* rows survive a crash, the worker's variables do not.  Time is abstract: *)
(* run_at is due or not yet, a lock fresh or older than StaleLock, a       *)
(* finished row young or older than 30 days, and separate steps let each   *)
(* of them pass.                                                           *)
(***************************************************************************)
EXTENDS Naturals, FiniteSets

CONSTANTS
  Mails,        \* the dedupe keys of mail jobs
  NoKey,        \* the job of an idle worker
  MaxAttempts,  \* Options.MaxAttempts
  FaultKinds,   \* the faults the environment may cause
  MaxBucket,    \* bound on the intervals of the recurring job
  MaxInserts,   \* bound on the times a mail's row is inserted
  MaxFaults     \* bound on the faults

AllFaults == {"crash", "terminate", "replyLost", "txFails"}
Buckets == 0..MaxBucket
Keys == Mails \cup Buckets

ASSUME NoKeyAssumption == NoKey \notin Keys
ASSUME MailsAssumption == Mails \cap Nat = {}
ASSUME BoundsAssumption ==
  /\ MaxAttempts \in Nat \ {0}
  /\ MaxBucket \in Nat /\ MaxInserts \in Nat /\ MaxFaults \in Nat
ASSUME FaultKindsAssumption == FaultKinds \subseteq AllFaults

VARIABLES
  status,    \* no row, or done_at NULL, done_at with no error, done_at and dead
  attempts,  \* jobs.attempts
  lock,      \* jobs.locked_at: NULL, within StaleLock, older
  due,       \* run_at <= now
  old,       \* done_at more than 30 days ago
  bucket,    \* the current interval of the recurring job
  pc,        \* where the worker is, "down" when the process is not running
  cur,       \* the job it holds
  failed,    \* the handler returned an error
  stopping,  \* the context is cancelled: SIGTERM was received
  inserted,  \* times a row was inserted for the key
  ran,       \* times the handler's effect happened since then
  faults     \* faults so far

rowVars == <<status, attempts, lock, due, old>>
workerVars == <<pc, cur, failed, stopping>>
vars == <<status, attempts, lock, due, old, bucket, pc, cur, failed, stopping,
          inserted, ran, faults>>

TypeOK ==
  /\ status \in [Keys -> {"absent", "pending", "done", "dead"}]
  /\ attempts \in [Keys -> Nat]
  /\ lock \in [Keys -> {"free", "held", "stale"}]
  /\ due \in [Keys -> BOOLEAN]
  /\ old \in [Keys -> BOOLEAN]
  /\ bucket \in Buckets
  /\ pc \in {"down", "tick", "idle", "claimed", "ran"}
  /\ cur \in Keys \cup {NoKey}
  /\ cur = NoKey <=> pc \notin {"claimed", "ran"}
  /\ failed \in BOOLEAN
  /\ stopping \in BOOLEAN
  /\ inserted \in [Keys -> Nat]
  /\ ran \in [Keys -> Nat]
  /\ faults \in 0..MaxFaults

Init ==
  /\ status = [k \in Keys |-> "absent"]
  /\ attempts = [k \in Keys |-> 0]
  /\ lock = [k \in Keys |-> "free"]
  /\ due = [k \in Keys |-> FALSE]
  /\ old = [k \in Keys |-> FALSE]
  /\ bucket = 0
  /\ pc = "tick" /\ cur = NoKey /\ failed = FALSE /\ stopping = FALSE
  /\ inserted = [k \in Keys |-> 0]
  /\ ran = [k \in Keys |-> 0]
  /\ faults = 0

Fault(kind) ==
  /\ kind \in FaultKinds
  /\ faults < MaxFaults
  /\ faults' = faults + 1

-----------------------------------------------------------------------------
(* Enqueue *)

\* INSERT ... ON CONFLICT(dedupe_key) DO NOTHING
Enqueue(k) ==
  IF status[k] = "absent"
  THEN /\ status' = [status EXCEPT ![k] = "pending"]
       /\ attempts' = [attempts EXCEPT ![k] = 0]
       /\ lock' = [lock EXCEPT ![k] = "free"]
       /\ due' = [due EXCEPT ![k] = TRUE]
       /\ old' = [old EXCEPT ![k] = FALSE]
       /\ inserted' = [inserted EXCEPT ![k] = @ + 1]
       /\ ran' = [ran EXCEPT ![k] = 0]
  ELSE UNCHANGED <<rowVars, inserted, ran>>

\* A business transaction that enqueues a mail commits; requests are still served
\* while the process stops.
EnqueueMail(k) ==
  /\ pc # "down"
  /\ k \in Mails
  /\ inserted[k] < MaxInserts
  /\ Enqueue(k)
  /\ UNCHANGED <<bucket, workerVars, faults>>

\* Run, at the top of its loop: the recurring job of the current interval.
Schedule ==
  /\ pc = "tick"
  /\ ~stopping
  /\ \/ Enqueue(bucket) /\ UNCHANGED faults
     \/ Fault("txFails") /\ UNCHANGED <<rowVars, inserted, ran>>
  /\ pc' = "idle"
  /\ UNCHANGED <<bucket, cur, failed, stopping>>

-----------------------------------------------------------------------------
(* RunOne *)

\* Mutant: a row that is done is taken again.
ClaimableDone(k) == status[k] # "absent" /\ due[k] /\ lock[k] # "held"

\* Mutant: a lock is never taken over.
ClaimableFree(k) == status[k] = "pending" /\ due[k] /\ lock[k] = "free"

\* The WHERE clause of the claim.
Claimable(k) == status[k] = "pending" /\ due[k] /\ lock[k] # "held"

Claim ==
  /\ pc = "idle"
  /\ ~stopping
  /\ \E k \in Keys :
       /\ Claimable(k)
       /\ cur' = k
       /\ lock' = [lock EXCEPT ![k] = "held"]
       /\ attempts' = [attempts EXCEPT ![k] = @ + 1]
  /\ pc' = "claimed"
  /\ UNCHANGED <<status, due, old, bucket, failed, stopping, inserted, ran, faults>>

\* Nothing to claim: wait for the next tick.
Wait ==
  /\ pc = "idle"
  /\ ~stopping
  /\ \A k \in Keys : ~Claimable(k)
  /\ pc' = "tick"
  /\ UNCHANGED <<rowVars, bucket, cur, failed, stopping, inserted, ran, faults>>

\* The worker is in Mailer.Send, which sets no deadline: with a server that takes the
\* connection and stays silent it does not come back.
Sending == pc = "claimed" /\ cur \in Mails

\* It comes back, and has not looked at the context.  The message may be accepted and
\* an error returned: the answer to it, or to QUIT after it, is lost.
SendMail ==
  /\ Sending
  /\ \/ /\ ran' = [ran EXCEPT ![cur] = @ + 1]
        /\ failed' = FALSE
        /\ UNCHANGED faults
     \/ /\ failed' = TRUE
        /\ UNCHANGED <<ran, faults>>
     \/ /\ ran' = [ran EXCEPT ![cur] = @ + 1]
        /\ failed' = TRUE
        /\ Fault("replyLost")
  /\ pc' = "ran"
  /\ UNCHANGED <<rowVars, bucket, cur, stopping, inserted>>

\* Mutant: rows go as soon as they are finished.
PurgeableYoung(k) == status[k] \in {"done", "dead"}

\* Queue.Cleanup: finished rows older than 30 days go, and their keys with them.
Purgeable(k) == status[k] \in {"done", "dead"} /\ old[k]

Cleanup ==
  /\ pc = "claimed"
  /\ cur \in Buckets
  /\ \/ /\ ~stopping
        /\ status' = [k \in Keys |-> IF Purgeable(k) THEN "absent" ELSE status[k]]
        /\ ran' = [ran EXCEPT ![cur] = @ + 1]
        /\ failed' = FALSE
     \/ /\ failed' = TRUE
        /\ UNCHANGED <<status, ran>>
  /\ pc' = "ran"
  /\ UNCHANGED <<attempts, lock, due, old, bucket, cur, stopping, inserted, faults>>

\* Mutant: the worker goes on with the job it had.
ReleaseHolding == pc' = "idle" /\ failed' = FALSE /\ UNCHANGED cur

\* RunOne returns.
Release == pc' = "idle" /\ failed' = FALSE /\ cur' = NoKey

\* Mutant: given up an attempt too early.
ExhaustedEarly == attempts[cur] + 1 >= MaxAttempts

\* No attempt is left.
Exhausted == attempts[cur] >= MaxAttempts

\* The finishing transaction, on a context that is not cancelled.
Finish ==
  /\ pc = "ran"
  /\ ~stopping
  /\ lock' = [lock EXCEPT ![cur] = "free"]
  /\ \/ /\ ~failed
        /\ status' = [status EXCEPT ![cur] = "done"]
        /\ UNCHANGED due
     \/ /\ failed /\ Exhausted
        /\ status' = [status EXCEPT ![cur] = "dead"]
        /\ UNCHANGED due
     \/ /\ failed /\ ~Exhausted
        /\ due' = [due EXCEPT ![cur] = FALSE]     \* run_at = now + Backoff
        /\ UNCHANGED status
  /\ Release
  /\ UNCHANGED <<attempts, old, bucket, stopping, inserted, ran, faults>>

\* It fails: the row stays locked, the loop goes on.
FinishFails ==
  /\ pc = "ran"
  /\ ~stopping
  /\ Fault("txFails")
  /\ Release
  /\ UNCHANGED <<rowVars, bucket, stopping, inserted, ran>>

-----------------------------------------------------------------------------
(* The process *)

\* SIGTERM cancels the context the worker runs under.
Terminate ==
  /\ pc # "down"
  /\ ~stopping
  /\ Fault("terminate")
  /\ stopping' = TRUE
  /\ UNCHANGED <<rowVars, bucket, pc, cur, failed, inserted, ran>>

\* Once it is cancelled no transaction of the worker begins: the one that would
\* finish a job whose handler has run fails too, and the worker returns.
Stop ==
  /\ stopping
  /\ pc \in {"tick", "idle", "ran"}
  /\ pc' = "down" /\ cur' = NoKey /\ failed' = FALSE /\ stopping' = FALSE
  /\ UNCHANGED <<rowVars, bucket, inserted, ran, faults>>

Crash ==
  /\ pc # "down"
  /\ Fault("crash")
  /\ pc' = "down" /\ cur' = NoKey /\ failed' = FALSE /\ stopping' = FALSE
  /\ UNCHANGED <<rowVars, bucket, inserted, ran>>

Restart ==
  /\ pc = "down"
  /\ pc' = "tick"
  /\ UNCHANGED <<rowVars, bucket, cur, failed, stopping, inserted, ran, faults>>

-----------------------------------------------------------------------------
(* Time *)

BackoffElapses(k) ==
  /\ status[k] = "pending" /\ ~due[k]
  /\ due' = [due EXCEPT ![k] = TRUE]
  /\ UNCHANGED <<status, attempts, lock, old, bucket, workerVars, inserted, ran, faults>>

LockGoesStale(k) ==
  /\ lock[k] = "held"
  /\ lock' = [lock EXCEPT ![k] = "stale"]
  /\ UNCHANGED <<status, attempts, due, old, bucket, workerVars, inserted, ran, faults>>

\* An interval is shorter than 30 days: it is over before its row is that old.
GrowsOld(k) ==
  /\ status[k] \in {"done", "dead"} /\ ~old[k]
  /\ k \in Buckets => k < bucket
  /\ old' = [old EXCEPT ![k] = TRUE]
  /\ UNCHANGED <<status, attempts, lock, due, bucket, workerVars, inserted, ran, faults>>

NextBucket ==
  /\ bucket < MaxBucket
  /\ bucket' = bucket + 1
  /\ UNCHANGED <<rowVars, workerVars, inserted, ran, faults>>

-----------------------------------------------------------------------------
Worker == Schedule \/ Claim \/ Wait \/ Cleanup \/ Finish \/ Stop \/ Restart

Next ==
  \/ \E k \in Keys : EnqueueMail(k) \/ BackoffElapses(k) \/ LockGoesStale(k) \/ GrowsOld(k)
  \/ Worker \/ SendMail
  \/ FinishFails \/ Terminate \/ Crash \/ NextBucket

\* The loop runs on, the process is started again, time passes.  That a mail server
\* answers is not assumed.
Fairness ==
  /\ WF_vars(Worker)
  /\ \A k \in Keys : WF_vars(BackoffElapses(k)) /\ WF_vars(LockGoesStale(k))

Spec == Init /\ [][Next]_vars /\ Fairness

-----------------------------------------------------------------------------
(* Properties *)

\* A job's effect happens once, and once more at most for each fault: a crash or
\* a SIGTERM between the handler and the finishing transaction, a transaction
\* that failed, an answer of the mail server that was lost.  Nothing else (a
\* retry, a stale lock taken over, a restart alone) repeats it.
EffectsBounded == \A k \in Keys : ran[k] <= 1 + faults

\* A job that is done had its effect, and one given up had all its attempts: it is
\* tried MaxAttempts times, and once more at most for each fault, since an attempt
\* cut off is counted when it is claimed but never judged against the maximum.
SettledHonestly ==
  \A k \in Keys : /\ status[k] = "done" => ran[k] >= 1
                  /\ status[k] = "dead" => attempts[k] >= MaxAttempts
                  /\ attempts[k] <= MaxAttempts + faults

\* "Every enqueues kind once per interval, keyed by the interval bucket so
\* restarts never duplicate it" (jobs.go): the purge of old rows must not free
\* the key of the interval that is still running.
OncePerInterval == \A b \in Buckets : inserted[b] <= 1

\* Every job that was enqueued is done or given up in the end, whatever crashed, unless
\* one mail is never finished sending: the one worker waits for it, and all other jobs
\* for the worker, until the process goes.  Nothing else stops the queue.
EventuallySettled ==
  \A k \in Keys : (status[k] = "pending" ~> status[k] # "pending") \/ <>[]Sending
=============================================================================
