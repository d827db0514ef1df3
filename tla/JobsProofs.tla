----------------------------- MODULE JobsProofs -----------------------------
(***************************************************************************)
(* Proofs about Jobs, for any mails, any number of attempts and intervals, *)
(* and any faults.                                                         *)
(*                                                                         *)
(* EffectsBounded and SettledHonestly speak of faults that have happened,  *)
(* the inductive invariant of what is owed to them while a job is open: a  *)
(* job nobody holds has its effects and its attempts paid for, one each,   *)
(* by faults; the one the worker holds may have had one more of both,      *)
(* which its Finish will settle, or else a fault that is counted already   *)
(* when the worker was told to stop.                                       *)
(***************************************************************************)
EXTENDS Jobs, TLAPS

\* The job the worker holds is open, and not free to be claimed.
HeldOpen ==
  cur # NoKey => status[cur] = "pending" /\ due[cur] /\ lock[cur] # "free"

\* 1 or 0, for what may or may not have happened to the job in hand.
One(b) == IF b THEN 1 ELSE 0

EffectsPaid ==
  \A k \in Keys : status[k] = "pending" =>
    ran[k] + One(k = cur /\ stopping) <= faults + One(k = cur /\ pc = "ran" /\ ~failed)

AttemptsPaid ==
  \A k \in Keys : status[k] = "pending" =>
    attempts[k] + 1 <= MaxAttempts + faults + One(k = cur /\ ~stopping)

\* A handler that returned no error has had its effect.
RanHonestly == pc = "ran" /\ ~failed => ran[cur] >= 1

\* An interval's job is inserted once it begins, and its row goes once it is over.
IntervalsKept ==
  \A b \in Buckets : /\ old[b] => b < bucket
                     /\ status[b] = "absent" /\ inserted[b] # 0 => b < bucket
                     /\ b > bucket => inserted[b] = 0

IInv ==
  /\ TypeOK
  /\ HeldOpen
  /\ EffectsPaid
  /\ AttemptsPaid
  /\ RanHonestly
  /\ IntervalsKept
  /\ EffectsBounded
  /\ SettledHonestly
  /\ OncePerInterval

-----------------------------------------------------------------------------
(* Facts *)

\* A fault happens within their bound, and counts as one.
LEMMA FaultCounts ==
  ASSUME TypeOK, NEW kind, Fault(kind)
  PROVE  faults \in Nat /\ faults' = faults + 1 /\ faults' \in 0..MaxFaults
  BY BoundsAssumption DEF TypeOK, Fault

\* Enqueue leaves a row that is there alone, and begins one that is not.
LEMMA EnqueueRow ==
  ASSUME TypeOK, NEW k \in Keys, Enqueue(k)
  PROVE  /\ status' \in [Keys -> {"absent", "pending", "done", "dead"}]
         /\ attempts' \in [Keys -> Nat]
         /\ lock' \in [Keys -> {"free", "held", "stale"}]
         /\ due' \in [Keys -> BOOLEAN]
         /\ old' \in [Keys -> BOOLEAN]
         /\ inserted' \in [Keys -> Nat]
         /\ ran' \in [Keys -> Nat]
         /\ \A j \in Keys :
              \/ /\ status'[j] = status[j] /\ attempts'[j] = attempts[j]
                 /\ lock'[j] = lock[j] /\ due'[j] = due[j] /\ old'[j] = old[j]
                 /\ inserted'[j] = inserted[j] /\ ran'[j] = ran[j]
                 /\ j = k => status[j] # "absent"
              \/ /\ j = k /\ status[j] = "absent"
                 /\ status'[j] = "pending" /\ attempts'[j] = 0 /\ ~old'[j]
                 /\ inserted'[j] = inserted[j] + 1 /\ ran'[j] = 0
  <1>1. CASE status[k] = "absent"
    <2>1. /\ status' = [status EXCEPT ![k] = "pending"]
          /\ attempts' = [attempts EXCEPT ![k] = 0]
          /\ lock' = [lock EXCEPT ![k] = "free"]
          /\ due' = [due EXCEPT ![k] = TRUE]
          /\ old' = [old EXCEPT ![k] = FALSE]
          /\ inserted' = [inserted EXCEPT ![k] = @ + 1]
          /\ ran' = [ran EXCEPT ![k] = 0]
      BY <1>1 DEF Enqueue
    <2>2. due' \in [Keys -> BOOLEAN] /\ old' \in [Keys -> BOOLEAN]
      BY <2>1 DEF TypeOK
    <2>3. \A j \in Keys \ {k} : due'[j] = due[j] /\ old'[j] = old[j]
      BY <2>1, Zenon DEF TypeOK
    <2>4. old'[k] = FALSE
      BY <2>1 DEF TypeOK
    <2>5. /\ status' \in [Keys -> {"absent", "pending", "done", "dead"}]
          /\ attempts' \in [Keys -> Nat]
          /\ lock' \in [Keys -> {"free", "held", "stale"}]
          /\ inserted' \in [Keys -> Nat]
          /\ ran' \in [Keys -> Nat]
      BY <2>1 DEF TypeOK
    <2>6. \A j \in Keys \ {k} :
            /\ status'[j] = status[j] /\ attempts'[j] = attempts[j] /\ lock'[j] = lock[j]
            /\ inserted'[j] = inserted[j] /\ ran'[j] = ran[j]
      BY <2>1 DEF TypeOK
    <2>7. /\ status'[k] = "pending" /\ attempts'[k] = 0
          /\ inserted'[k] = inserted[k] + 1 /\ ran'[k] = 0
      BY <2>1 DEF TypeOK
    <2>. QED
      BY <1>1, <2>2, <2>3, <2>4, <2>5, <2>6, <2>7
  <1>2. CASE status[k] # "absent"
    BY <1>2 DEF TypeOK, Enqueue, rowVars
  <1>. QED
    BY <1>1, <1>2

\* At first nothing is enqueued.
LEMMA InitIInv == Init => IInv
  <1>. SUFFICES ASSUME Init PROVE IInv
    OBVIOUS
  <1>. USE BoundsAssumption, NoKeyAssumption DEF Init
  <1>1. TypeOK
    <2>1. due \in [Keys -> BOOLEAN] /\ old \in [Keys -> BOOLEAN]
      OBVIOUS
    <2>2. cur = NoKey <=> pc \notin {"claimed", "ran"}
      OBVIOUS
    <2>3. failed \in BOOLEAN /\ stopping \in BOOLEAN
      OBVIOUS
    <2>4. bucket \in Buckets /\ faults \in 0..MaxFaults
      BY DEF Buckets
    <2>. QED
      BY <2>1, <2>2, <2>3, <2>4 DEF TypeOK
  <1>2. HeldOpen /\ EffectsPaid /\ AttemptsPaid /\ RanHonestly
    BY DEF HeldOpen, EffectsPaid, AttemptsPaid, RanHonestly
  <1>3. IntervalsKept /\ OncePerInterval
    BY DEF IntervalsKept, OncePerInterval, Keys, Buckets
  <1>4. EffectsBounded /\ SettledHonestly
    BY DEF EffectsBounded, SettledHonestly
  <1>. QED
    BY <1>1, <1>2, <1>3, <1>4 DEF IInv

-----------------------------------------------------------------------------
(* Rows enqueued *)

\* A row begins with nothing to pay for; that of an interval, while it is the current one.
LEMMA EnqueueIInv ==
  ASSUME IInv, NEW k \in Keys, Enqueue(k), k \in Buckets => k = bucket,
         pc' = pc \/ (pc = "tick" /\ pc' = "idle"),
         UNCHANGED <<bucket, cur, failed, stopping, faults>>
  PROVE  IInv'
  <1>. USE BoundsAssumption, NoKeyAssumption, EnqueueRow DEF IInv, TypeOK
  <1>1. TypeOK'
    OBVIOUS
  <1>2. (HeldOpen /\ RanHonestly)'
    <2>1. \A j \in Keys : status[j] = "pending" =>
            status'[j] = "pending" /\ due'[j] = due[j] /\ lock'[j] = lock[j] /\ ran'[j] = ran[j]
      OBVIOUS
    <2>. QED
      BY <2>1 DEF HeldOpen, RanHonestly
  <1>3. (IntervalsKept /\ OncePerInterval)'
    <2>1. \A j \in Buckets : j \in Keys
      BY DEF Keys
    <2>2. k \in Buckets /\ inserted'[k] # inserted[k] => inserted[k] = 0 /\ inserted'[k] = 1
      BY DEF IntervalsKept
    <2>3. OncePerInterval'
      BY <2>1, <2>2 DEF OncePerInterval
    <2>4. IntervalsKept'
      BY <2>1 DEF IntervalsKept, Buckets
    <2>. QED
      BY <2>3, <2>4
  <1>4. (EffectsPaid /\ EffectsBounded)'
    BY DEF EffectsPaid, EffectsBounded, HeldOpen, One
  <1>5. (AttemptsPaid /\ SettledHonestly)'
    BY DEF AttemptsPaid, SettledHonestly, One
  <1>. QED
    BY <1>1, <1>2, <1>3, <1>4, <1>5

\* Mails and intervals have different keys.
LEMMA EnqueueMailIInv ==
  ASSUME IInv, NEW k \in Keys, EnqueueMail(k)
  PROVE  IInv'
  <1>1. k \notin Buckets
    BY MailsAssumption, BoundsAssumption DEF EnqueueMail, Buckets
  <1>2. Enqueue(k) /\ pc' = pc /\ UNCHANGED <<bucket, cur, failed, stopping, faults>>
    BY DEF EnqueueMail, workerVars
  <1>. QED
    BY <1>1, <1>2, EnqueueIInv

\* The scheduler enqueues the interval it finds, or fails to.
LEMMA ScheduleIInv ==
  ASSUME IInv, Schedule
  PROVE  IInv'
  <1>1. CASE Enqueue(bucket) /\ UNCHANGED faults
    BY <1>1, EnqueueIInv DEF Schedule, IInv, TypeOK, Keys
  <1>2. CASE Fault("txFails") /\ UNCHANGED <<rowVars, inserted, ran>>
    <2>. USE <1>2, BoundsAssumption, NoKeyAssumption, FaultCounts
         DEF Schedule, IInv, TypeOK, rowVars
    <2>1. TypeOK'
      OBVIOUS
    <2>2. (HeldOpen /\ RanHonestly)'
      BY DEF HeldOpen, RanHonestly
    <2>3. (IntervalsKept /\ OncePerInterval)'
      BY DEF IntervalsKept, OncePerInterval, Keys, Buckets
    <2>4. (EffectsPaid /\ EffectsBounded)'
      BY DEF EffectsPaid, EffectsBounded, One
    <2>5. (AttemptsPaid /\ SettledHonestly)'
      BY DEF AttemptsPaid, SettledHonestly, One
    <2>. QED
      BY <2>1, <2>2, <2>3, <2>4, <2>5
  <1>. QED
    BY <1>1, <1>2 DEF Schedule

-----------------------------------------------------------------------------
(* The worker *)

\* A claim pays for its attempt with the one every open job has ahead.
LEMMA ClaimIInv ==
  ASSUME IInv, Claim
  PROVE  IInv'
  <1>. USE BoundsAssumption, NoKeyAssumption
       DEF IInv, TypeOK, Claim, Claimable
  <1>1. TypeOK'
    OBVIOUS
  <1>2. (HeldOpen /\ RanHonestly)'
    BY DEF HeldOpen, RanHonestly
  <1>3. (IntervalsKept /\ OncePerInterval)'
    BY DEF IntervalsKept, OncePerInterval, Keys, Buckets
  <1>4. (EffectsPaid /\ EffectsBounded)'
    BY DEF EffectsPaid, EffectsBounded, One
  <1>5. (AttemptsPaid /\ SettledHonestly)'
    BY DEF AttemptsPaid, SettledHonestly, One
  <1>. QED
    BY <1>1, <1>2, <1>3, <1>4, <1>5

\* A send has its effect once, or fails; a lost reply is a fault.
LEMMA SendMailIInv ==
  ASSUME IInv, SendMail
  PROVE  IInv'
  <1>. USE BoundsAssumption, NoKeyAssumption DEF IInv, TypeOK, SendMail, Sending, rowVars
  <1>1. cur \in Keys /\ cur # NoKey /\ status[cur] = "pending"
    BY DEF HeldOpen
  <1>2. /\ faults' \in 0..MaxFaults
        /\ \/ ran' = [ran EXCEPT ![cur] = @ + 1] /\ failed' = FALSE /\ faults' = faults
           \/ ran' = ran /\ failed' = TRUE /\ faults' = faults
           \/ ran' = [ran EXCEPT ![cur] = @ + 1] /\ failed' = TRUE /\ faults' = faults + 1
    BY FaultCounts
  <1>3. TypeOK'
    <2>1. ran' \in [Keys -> Nat]
      BY <1>1, <1>2
    <2>2. failed' \in BOOLEAN
      BY <1>2, Zenon
    <2>3. cur' = NoKey <=> pc' \notin {"claimed", "ran"}
      BY <1>1
    <2>. QED
      BY <1>2, <2>1, <2>2, <2>3
  <1>4. (HeldOpen /\ RanHonestly)'
    BY <1>1, <1>2 DEF HeldOpen, RanHonestly
  <1>5. (IntervalsKept /\ OncePerInterval)'
    BY DEF IntervalsKept, OncePerInterval, Keys, Buckets
  <1>6. (EffectsPaid /\ EffectsBounded)'
    BY <1>1, <1>2 DEF EffectsPaid, EffectsBounded, One
  <1>7. (AttemptsPaid /\ SettledHonestly)'
    BY <1>1, <1>2 DEF AttemptsPaid, SettledHonestly, One
  <1>. QED
    BY <1>3, <1>4, <1>5, <1>6, <1>7

\* The cleanup takes finished rows only, of intervals that are over.
LEMMA CleanupIInv ==
  ASSUME IInv, Cleanup
  PROVE  IInv'
  <1>. USE BoundsAssumption, NoKeyAssumption DEF IInv, TypeOK, Cleanup
  <1>1. cur \in Keys /\ cur # NoKey /\ status[cur] = "pending"
    BY DEF HeldOpen
  <1>2. /\ \A k \in Keys :
             \/ status'[k] = status[k]
             \/ (status'[k] = "absent" /\ status[k] # "pending" /\ old[k])
        /\ status' \in [Keys -> {"absent", "pending", "done", "dead"}]
        /\ \/ ran' = [ran EXCEPT ![cur] = @ + 1] /\ failed' = FALSE
           \/ ran' = ran /\ failed' = TRUE
    BY DEF Purgeable
  <1>3. TypeOK'
    <2>1. ran' \in [Keys -> Nat]
      BY <1>1, <1>2
    <2>2. failed' \in BOOLEAN
      BY <1>2, Zenon
    <2>3. cur' = NoKey <=> pc' \notin {"claimed", "ran"}
      BY <1>1
    <2>. QED
      BY <1>2, <2>1, <2>2, <2>3
  <1>4. (HeldOpen /\ RanHonestly)'
    BY <1>1, <1>2 DEF HeldOpen, RanHonestly
  <1>5. (IntervalsKept /\ OncePerInterval)'
    BY <1>2 DEF IntervalsKept, OncePerInterval, Keys, Buckets
  <1>6. (EffectsPaid /\ EffectsBounded)'
    BY <1>1, <1>2 DEF EffectsPaid, EffectsBounded, One
  <1>7. (AttemptsPaid /\ SettledHonestly)'
    BY <1>1, <1>2 DEF AttemptsPaid, SettledHonestly, One
  <1>. QED
    BY <1>3, <1>4, <1>5, <1>6, <1>7

\* What the handler returned settles the job, or puts it back with an attempt left.
LEMMA FinishIInv ==
  ASSUME IInv, Finish
  PROVE  IInv'
  <1>. USE BoundsAssumption, NoKeyAssumption
       DEF IInv, TypeOK, Finish, Release, Exhausted
  <1>1. TypeOK'
    OBVIOUS
  <1>2. (HeldOpen /\ RanHonestly)'
    BY DEF HeldOpen, RanHonestly
  <1>3. (IntervalsKept /\ OncePerInterval)'
    BY DEF IntervalsKept, OncePerInterval, Keys, Buckets
  <1>4. (EffectsPaid /\ EffectsBounded)'
    BY DEF EffectsPaid, EffectsBounded, One
  <1>5. (AttemptsPaid /\ SettledHonestly)'
    BY DEF AttemptsPaid, SettledHonestly, One, HeldOpen, RanHonestly
  <1>. QED
    BY <1>1, <1>2, <1>3, <1>4, <1>5

\* A finishing transaction that fails pays for the job it leaves open.
LEMMA FinishFailsIInv ==
  ASSUME IInv, FinishFails
  PROVE  IInv'
  <1>. USE BoundsAssumption, NoKeyAssumption, FaultCounts
       DEF IInv, TypeOK, FinishFails, Release, rowVars
  <1>1. TypeOK'
    OBVIOUS
  <1>2. (HeldOpen /\ RanHonestly)'
    BY DEF HeldOpen, RanHonestly
  <1>3. (IntervalsKept /\ OncePerInterval)'
    BY DEF IntervalsKept, OncePerInterval, Keys, Buckets
  <1>4. (EffectsPaid /\ EffectsBounded)'
    BY DEF EffectsPaid, EffectsBounded, One
  <1>5. (AttemptsPaid /\ SettledHonestly)'
    BY DEF AttemptsPaid, SettledHonestly, One
  <1>. QED
    BY <1>1, <1>2, <1>3, <1>4, <1>5

\* The job a stopping worker leaves open was paid for by the SIGTERM.
LEMMA StopIInv ==
  ASSUME IInv, Stop
  PROVE  IInv'
  <1>. USE BoundsAssumption, NoKeyAssumption
       DEF IInv, TypeOK, Stop, rowVars
  <1>1. TypeOK'
    OBVIOUS
  <1>2. (HeldOpen /\ RanHonestly)'
    BY DEF HeldOpen, RanHonestly
  <1>3. (IntervalsKept /\ OncePerInterval)'
    BY DEF IntervalsKept, OncePerInterval, Keys, Buckets
  <1>4. (EffectsPaid /\ EffectsBounded)'
    BY DEF EffectsPaid, EffectsBounded, One
  <1>5. (AttemptsPaid /\ SettledHonestly)'
    BY DEF AttemptsPaid, SettledHonestly, One
  <1>. QED
    BY <1>1, <1>2, <1>3, <1>4, <1>5

\* A crash pays for the job it leaves open.
LEMMA CrashIInv ==
  ASSUME IInv, Crash
  PROVE  IInv'
  <1>. USE BoundsAssumption, NoKeyAssumption, FaultCounts
       DEF IInv, TypeOK, Crash, rowVars
  <1>1. TypeOK'
    OBVIOUS
  <1>2. (HeldOpen /\ RanHonestly)'
    BY DEF HeldOpen, RanHonestly
  <1>3. (IntervalsKept /\ OncePerInterval)'
    BY DEF IntervalsKept, OncePerInterval, Keys, Buckets
  <1>4. (EffectsPaid /\ EffectsBounded)'
    BY DEF EffectsPaid, EffectsBounded, One
  <1>5. (AttemptsPaid /\ SettledHonestly)'
    BY DEF AttemptsPaid, SettledHonestly, One
  <1>. QED
    BY <1>1, <1>2, <1>3, <1>4, <1>5

\* A SIGTERM pays for the job in hand.
LEMMA TerminateIInv ==
  ASSUME IInv, Terminate
  PROVE  IInv'
  <1>. USE BoundsAssumption, NoKeyAssumption, FaultCounts
       DEF IInv, TypeOK, Terminate, rowVars
  <1>1. TypeOK'
    OBVIOUS
  <1>2. (HeldOpen /\ RanHonestly)'
    BY DEF HeldOpen, RanHonestly
  <1>3. (IntervalsKept /\ OncePerInterval)'
    BY DEF IntervalsKept, OncePerInterval, Keys, Buckets
  <1>4. (EffectsPaid /\ EffectsBounded)'
    BY DEF EffectsPaid, EffectsBounded, One
  <1>5. (AttemptsPaid /\ SettledHonestly)'
    BY DEF AttemptsPaid, SettledHonestly, One
  <1>. QED
    BY <1>1, <1>2, <1>3, <1>4, <1>5

-----------------------------------------------------------------------------
(* Waiting, restarting, and time *)

\* The loop goes round without a job.
LEMMA LoopIInv ==
  ASSUME IInv, Wait \/ Restart
  PROVE  IInv'
  <1>. USE BoundsAssumption, NoKeyAssumption
       DEF IInv, TypeOK, Wait, Restart, rowVars
  <1>1. TypeOK'
    OBVIOUS
  <1>2. (HeldOpen /\ RanHonestly)'
    BY DEF HeldOpen, RanHonestly
  <1>3. (IntervalsKept /\ OncePerInterval)'
    BY DEF IntervalsKept, OncePerInterval, Keys, Buckets
  <1>4. (EffectsPaid /\ EffectsBounded)'
    BY DEF EffectsPaid, EffectsBounded, One
  <1>5. (AttemptsPaid /\ SettledHonestly)'
    BY DEF AttemptsPaid, SettledHonestly, One
  <1>. QED
    BY <1>1, <1>2, <1>3, <1>4, <1>5

\* A back-off that is over does not concern the job in hand; a lock that is stale does not free it.
LEMMA RowTimeIInv ==
  ASSUME IInv, NEW k \in Keys, BackoffElapses(k) \/ LockGoesStale(k)
  PROVE  IInv'
  <1>. USE BoundsAssumption, NoKeyAssumption
       DEF IInv, TypeOK, BackoffElapses, LockGoesStale, workerVars
  <1>1. TypeOK'
    OBVIOUS
  <1>2. (HeldOpen /\ RanHonestly)'
    BY DEF HeldOpen, RanHonestly
  <1>3. (IntervalsKept /\ OncePerInterval)'
    BY DEF IntervalsKept, OncePerInterval, Keys, Buckets
  <1>4. (EffectsPaid /\ EffectsBounded)'
    BY DEF EffectsPaid, EffectsBounded, One
  <1>5. (AttemptsPaid /\ SettledHonestly)'
    BY DEF AttemptsPaid, SettledHonestly, One
  <1>. QED
    BY <1>1, <1>2, <1>3, <1>4, <1>5

\* The row of an interval grows old after it.
LEMMA GrowsOldIInv ==
  ASSUME IInv, NEW k \in Keys, GrowsOld(k)
  PROVE  IInv'
  <1>. USE BoundsAssumption, NoKeyAssumption
       DEF IInv, TypeOK, GrowsOld, workerVars
  <1>1. TypeOK'
    OBVIOUS
  <1>2. (HeldOpen /\ RanHonestly)'
    BY DEF HeldOpen, RanHonestly
  <1>3. (IntervalsKept /\ OncePerInterval)'
    BY DEF IntervalsKept, OncePerInterval, Keys, Buckets
  <1>4. (EffectsPaid /\ EffectsBounded)'
    BY DEF EffectsPaid, EffectsBounded, One
  <1>5. (AttemptsPaid /\ SettledHonestly)'
    BY DEF AttemptsPaid, SettledHonestly, One
  <1>. QED
    BY <1>1, <1>2, <1>3, <1>4, <1>5

\* An interval begins with no row.
LEMMA NextBucketIInv ==
  ASSUME IInv, NextBucket
  PROVE  IInv'
  <1>. USE BoundsAssumption, NoKeyAssumption
       DEF IInv, TypeOK, NextBucket, rowVars, workerVars
  <1>1. TypeOK'
    BY DEF Buckets
  <1>2. (HeldOpen /\ RanHonestly)'
    BY DEF HeldOpen, RanHonestly
  <1>3. (IntervalsKept /\ OncePerInterval)'
    BY DEF IntervalsKept, OncePerInterval, Keys, Buckets
  <1>4. (EffectsPaid /\ EffectsBounded)'
    BY DEF EffectsPaid, EffectsBounded, One
  <1>5. (AttemptsPaid /\ SettledHonestly)'
    BY DEF AttemptsPaid, SettledHonestly, One
  <1>. QED
    BY <1>1, <1>2, <1>3, <1>4, <1>5

-----------------------------------------------------------------------------

\* Every step keeps the invariant.
LEMMA StepIInv == IInv /\ [Next]_vars => IInv'
  <1>. SUFFICES ASSUME IInv, [Next]_vars PROVE IInv'
    OBVIOUS
  <1>1. CASE UNCHANGED vars
    BY <1>1 DEF vars, IInv, TypeOK, HeldOpen, EffectsPaid, AttemptsPaid, RanHonestly,
                IntervalsKept, EffectsBounded, SettledHonestly, OncePerInterval
  <1>. QED
    BY <1>1, EnqueueMailIInv, ScheduleIInv, ClaimIInv, SendMailIInv, CleanupIInv, FinishIInv,
       FinishFailsIInv, StopIInv, CrashIInv, TerminateIInv, LoopIInv, RowTimeIInv,
       GrowsOldIInv, NextBucketIInv
    DEF Next, Worker

(* Every open job has its effects and its attempts paid for, whatever       *)
(* failed, crashed or was told to stop, and in whatever order.              *)
THEOREM Invariant == Spec => []IInv
  BY InitIInv, StepIInv, PTL DEF Spec

(* Rows, worker and counters are what their types say; the worker holds a   *)
(* job exactly while it handles one.                                        *)
THEOREM TypeCorrect == Spec => []TypeOK
  <1>1. IInv => TypeOK
    BY DEF IInv
  <1>. QED
    BY <1>1, Invariant, PTL

(* The effect of a job happens once, and once more at most for each fault.  *)
THEOREM EffectsOncePerFault == Spec => []EffectsBounded
  <1>1. IInv => EffectsBounded
    BY DEF IInv
  <1>. QED
    BY <1>1, Invariant, PTL

(* A job that is done had its effect, one given up had all its attempts,    *)
(* and none is tried more than MaxAttempts times and once per fault.        *)
THEOREM JobsSettledHonestly == Spec => []SettledHonestly
  <1>1. IInv => SettledHonestly
    BY DEF IInv
  <1>. QED
    BY <1>1, Invariant, PTL

(* The recurring job is inserted once per interval: neither a restart nor   *)
(* the purge of old rows brings an interval's key back.                     *)
THEOREM RecurringOnce == Spec => []OncePerInterval
  <1>1. IInv => OncePerInterval
    BY DEF IInv
  <1>. QED
    BY <1>1, Invariant, PTL
=============================================================================
