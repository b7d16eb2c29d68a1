-------------------------- MODULE MediaJobsProofs --------------------------
(***************************************************************************)
(* Theorems about MediaJobs for any number of workers, attempts, faults *)
(* and retries.  IInv says what the contract of jobs.py rests on: a job whose  *)
(* run waits or is under way is busy, has nothing planned and does not     *)
(* look abandoned, so that whatever the sweeper lists is neither; its      *)
(* attempts are failures, and one more has come to nothing when it is busy *)
(* with no run at all; and a file is in quarantine only while its scan     *)
(* says infected.  All of it ends when a job is overtaken.                 *)
(***************************************************************************)
EXTENDS MediaJobs, FiniteSetTheorems, TLAPS

WorkerState == [step: Steps, seen: Nat, ran: 0..QueueTimeout]

\* TypeOK, but for the bound of the attempts
Types ==
    /\ row \in [Jobs -> Row]
    /\ file \in [Places -> BOOLEAN]
    /\ queue \in [Jobs -> Nat]
    /\ worker \in [Jobs -> [Workers -> WorkerState]]
    /\ sweep \in [Jobs -> [step: {"idle", "listed", "send"} \cup Unsettled, seen: Row]]
    /\ asked \in [Jobs -> 0..MaxRequests]
    /\ retries \in 0..MaxRetries /\ faults \in 0..MaxFaults
    /\ failures \in [Jobs -> Nat]
    /\ {stranded, overtaken} \subseteq BOOLEAN

UnderWay(j) == Running(j) # {} \/ Waits(j)

\* A run waits, is about to be sent again, or is under way: one of them, once
OneInv(j) ==
    /\ queue[j] <= 1
    /\ \A v, w \in Running(j) : v = w
    /\ Waits(j) => Running(j) = {}
    /\ ~(queue[j] > 0 /\ SweepAt(j, "send"))

\* Meanwhile nothing makes the job look due or abandoned
UnderWayInv(j) ==
    /\ UnderWay(j) => /\ row[j].status = "busy" /\ ~row[j].planned
                      /\ row[j].age <= StaleAfter
    /\ \A w \in Running(j) : row[j].age <= worker[j][w].ran

\* So what the sweeper has listed stays as it was listed
ListedInv(j) ==
    SweepAt(j, "listed") =>
        /\ row[j].status = "busy" /\ (Due(row[j]) \/ Stale(row[j]))
        /\ Due(sweep[j].seen) = row[j].planned
        /\ sweep[j].seen.attempts = row[j].attempts

\* Attempts are failures; a run that was lost is one that is not counted yet
CountInv(j) ==
    /\ row[j].attempts <= MaxAttempts
    /\ row[j].status = "busy" =>
         /\ row[j].attempts < MaxAttempts
         /\ row[j].attempts <= failures[j]
         /\ ~row[j].planned /\ ~UnderWay(j) => row[j].attempts < failures[j]

JobInv(j) == OneInv(j) /\ UnderWayInv(j) /\ ListedInv(j) /\ CountInv(j)

\* What a transcode read before ffmpeg is still what the row says
SeenInv ==
    \A w \in Workers :
        At("video", w, "run") => worker["video"][w].seen = row["video"].attempts

NewInv ==
    row["video"].status = "none" =>
        \A j \in Jobs : row[j].status = "none" /\ row[j].attempts = 0

\* One process at most carries a verdict out that puts the file in quarantine,
\* and the row says so meanwhile and until the file is released
LockSteps == {"lock", "quarantine"}
StepInv(step) ==
    /\ step = "lock" => row["scan"].status = "failed"
    /\ step = "quarantine" => row["scan"].status = "infected" /\ ~file["quarantine"]
VerdictInv ==
    /\ file["quarantine"] => row["scan"].status = "infected"
    /\ StepInv(sweep["scan"].step)
    /\ \A w \in Workers : StepInv(worker["scan"][w].step)
    /\ \A v, w \in Workers :
         worker["scan"][v].step \in LockSteps /\ worker["scan"][w].step \in LockSteps => v = w
    /\ \A w \in Workers :
         ~(sweep["scan"].step \in LockSteps /\ worker["scan"][w].step \in LockSteps)

Undisturbed == (\A j \in Jobs : JobInv(j)) /\ SeenInv /\ NewInv /\ VerdictInv
IInv == Types /\ (overtaken \/ Undisturbed)

USE MediaJobsAssumption
-----------------------------------------------------------------------------
(* The rows *)

\* A wait is a number, and stays in the table as it counts down.
LEMMA WaitType ==
  /\ 0 \in UNION {0..Backoff[i] : i \in DOMAIN Backoff}
  /\ \A i \in 1..MaxAttempts - 1 : Backoff[i] \in UNION {0..Backoff[k] : k \in DOMAIN Backoff}
  /\ \A n \in UNION {0..Backoff[i] : i \in DOMAIN Backoff} :
       n \in Nat /\ (n # 0 => n - 1 \in UNION {0..Backoff[i] : i \in DOMAIN Backoff})
  <1>1. DOMAIN Backoff = 1..MaxAttempts - 1 /\ 1 \in 1..MaxAttempts - 1
    OBVIOUS
  <1>2. \A i \in 1..MaxAttempts - 1 :
          Backoff[i] \in Nat /\ 0 \in 0..Backoff[i] /\ Backoff[i] \in 0..Backoff[i]
    OBVIOUS
  <1>3. ASSUME NEW n \in UNION {0..Backoff[i] : i \in DOMAIN Backoff}
        PROVE  n \in Nat /\ (n # 0 => n - 1 \in UNION {0..Backoff[i] : i \in DOMAIN Backoff})
    <2>1. PICK i \in DOMAIN Backoff : n \in 0..Backoff[i]
      BY <1>3
    <2>2. n \in Nat /\ (n # 0 => n - 1 \in 0..Backoff[i])
      BY <1>1, <1>2, <2>1
    <2>3. QED
      BY <2>1, <2>2
  <1>4. QED
    BY <1>1, <1>2, <1>3

\* What the operators of the contract make of a row
LEMMA StampedRow ==
  ASSUME NEW r \in Row
  PROVE  /\ Stamped(r) \in Row
         /\ Stamped(r).status = r.status /\ Stamped(r).attempts = r.attempts
         /\ ~Stamped(r).planned /\ Stamped(r).age = 0
  <1>1. 0 \in UNION {0..Backoff[i] : i \in DOMAIN Backoff} /\ 0 \in 0..StaleAfter + 1
    BY WaitType
  <1>2. QED
    BY <1>1 DEF Stamped, Row

\* A dead letter is failed, and keeps its attempts.
LEMMA DeadRow ==
  ASSUME NEW r \in Row
  PROVE  /\ DeadLetter(r) \in Row
         /\ DeadLetter(r).status = "failed" /\ DeadLetter(r).attempts = r.attempts
  <1>1. 0 \in UNION {0..Backoff[i] : i \in DOMAIN Backoff} /\ 0 \in 0..StaleAfter + 1
    BY WaitType
  <1>2. QED
    BY <1>1 DEF DeadLetter, Row

\* A planned try keeps status and attempts.
LEMMA PlannedRow ==
  ASSUME NEW r \in Row, NEW n \in 1..MaxAttempts - 1
  PROVE  /\ Planned(r, n) \in Row
         /\ Planned(r, n).status = r.status /\ Planned(r, n).attempts = r.attempts
         /\ Planned(r, n).planned
  <1>1. Backoff[n] \in UNION {0..Backoff[i] : i \in DOMAIN Backoff} /\ 0 \in 0..StaleAfter + 1
    BY WaitType
  <1>2. QED
    BY <1>1 DEF Planned, Row

\* A failure counted on from n plans a try while one is left, and fails else.
LEMMA CountedRow ==
  ASSUME NEW r \in Row, NEW n \in Nat
  PROVE  /\ Counted(r, n) \in Row
         /\ Counted(r, n).attempts = n + 1
         /\ n + 1 < MaxAttempts => Counted(r, n).status = r.status /\ Counted(r, n).planned
         /\ n + 1 >= MaxAttempts => Counted(r, n).status = "failed"
  <1> DEFINE s == [r EXCEPT !.attempts = n + 1]
  <1>1. s \in Row /\ s.status = r.status /\ s.attempts = n + 1
    <2>1. n + 1 \in Nat
      OBVIOUS
    <2>2. QED
      BY <2>1, Zenon DEF Row
  <1>2. n + 1 < MaxAttempts => n + 1 \in 1..MaxAttempts - 1
    OBVIOUS
  <1> HIDE DEF s
  <1>3. Counted(r, n) = IF n + 1 < MaxAttempts THEN Planned(s, n + 1) ELSE DeadLetter(s)
    BY DEF Counted, s
  <1>4. QED
    BY <1>1, <1>2, <1>3, PlannedRow, DeadRow

\* Whatever is moved, each place has a file or not; only a verdict fills quarantine.
LEMMA FileType ==
  ASSUME Types
  PROVE  /\ \A from, to \in Places : Moved(file, from, to) \in [Places -> BOOLEAN]
         /\ \A f \in {file, Written} :
              /\ {f, Hold(f)} \subseteq [Places -> BOOLEAN]
              /\ f["quarantine"] = file["quarantine"]
              /\ Hold(f)["quarantine"] = file["quarantine"]
         /\ {ReleaseHold, Quarantined} \subseteq [Places -> BOOLEAN]
         /\ ReleaseHold["quarantine"] = file["quarantine"]
         /\ \A step \in Unsettled : SettledFile(step) \in [Places -> BOOLEAN]
  <1>1. \A from, to \in Places : Moved(file, from, to) \in [Places -> BOOLEAN]
    BY DEF Types, Moved
  <1>2. CurrentPlace \in Places
    BY DEF CurrentPlace, Places
  <1>3. file \in [Places -> BOOLEAN] /\ Written \in [Places -> BOOLEAN]
    BY DEF Types, Written
  <1>4. Written["quarantine"] = file["quarantine"]
    BY <1>3 DEF Written, Places
  <1>5. ASSUME NEW f \in [Places -> BOOLEAN]
        PROVE  Hold(f) \in [Places -> BOOLEAN] /\ Hold(f)["quarantine"] = f["quarantine"]
    BY DEF Hold, Moved, Places
  <1>6. /\ {ReleaseHold, Quarantined} \subseteq [Places -> BOOLEAN]
        /\ ReleaseHold["quarantine"] = file["quarantine"]
    BY <1>1, <1>2, <1>3 DEF ReleaseHold, Quarantined, Moved, Places
  <1>7. \A step \in Unsettled : SettledFile(step) \in [Places -> BOOLEAN]
    BY <1>3, <1>6 DEF SettledFile, Unsettled
  <1>8. QED
    BY <1>1, <1>3, <1>4, <1>5, <1>6, <1>7

\* A move that is tried moves the file or not.
LEMMA MoveType ==
  ASSUME Types, NEW new \in [Places -> BOOLEAN], MoveTo(new)
  PROVE  /\ file' \in [Places -> BOOLEAN] /\ stranded' \in BOOLEAN
         /\ new["quarantine"] = file["quarantine"] => file'["quarantine"] = file["quarantine"]
  BY DEF Types, MoveTo

-----------------------------------------------------------------------------
(* What the parts of an action write *)

\* One row is written,
LEMMA RowSet ==
  ASSUME Types, NEW j \in Jobs, NEW r \in Row, SetRow(j, r)
  PROVE  /\ row' \in [Jobs -> Row] /\ row'[j] = r
         /\ \A i \in Jobs \ {j} : row'[i] = row[i]
  BY Zenon DEF Types, SetRow

\* one worker goes elsewhere, and is running there or not,
LEMMA WorkerSet ==
  ASSUME Types, NEW j \in Jobs, NEW w \in Workers, NEW state \in WorkerState, Becomes(j, w, state)
  PROVE  /\ worker' \in [Jobs -> [Workers -> WorkerState]]
         /\ worker'[j][w] = state
         /\ \A v \in Workers \ {w} : worker'[j][v] = worker[j][v]
         /\ \A i \in Jobs \ {j} : worker'[i] = worker[i]
         /\ state.step \in {"idle"} \cup Unsettled => Running(j)' = Running(j) \ {w}
         /\ state.step \notin {"idle"} \cup Unsettled => Running(j)' = Running(j) \cup {w}
  <1>1. /\ worker' \in [Jobs -> [Workers -> WorkerState]]
        /\ worker'[j][w] = state
        /\ \A v \in Workers \ {w} : worker'[j][v] = worker[j][v]
        /\ \A i \in Jobs \ {j} : worker'[i] = worker[i]
    BY DEF Types, Becomes
  <1>2. QED
    BY <1>1 DEF Running

\* a worker that is idle runs nothing,
LEMMA IdleState == Idle \in WorkerState /\ Idle.step = "idle" /\ Idle.ran = 0
  BY DEF Idle, WorkerState, Steps

\* a worker that goes to another step keeps what it has seen,
LEMMA WorkerTo ==
  ASSUME Types, NEW j \in Jobs, NEW w \in Workers, NEW step \in Steps, To(j, w, step)
  PROVE  \E state \in WorkerState :
           /\ Becomes(j, w, state)
           /\ state.step = step /\ state.seen = worker[j][w].seen /\ state.ran = worker[j][w].ran
  <1> DEFINE state == [worker[j][w] EXCEPT !.step = step]
  <1>1. worker[j][w] \in WorkerState
    BY DEF Types
  <1>2. /\ state \in WorkerState
        /\ state.step = step /\ state.seen = worker[j][w].seen /\ state.ran = worker[j][w].ran
    BY <1>1 DEF WorkerState
  <1>3. Becomes(j, w, state)
    BY DEF To
  <1> HIDE DEF state
  <1>4. QED
    BY <1>2, <1>3

\* a sweeper goes to another step,
LEMMA SweepSet ==
  ASSUME Types, NEW j \in Jobs, NEW step \in {"idle", "listed", "send"} \cup Unsettled, SweepTo(j, step)
  PROVE  /\ sweep' \in [Jobs -> [step: {"idle", "listed", "send"} \cup Unsettled, seen: Row]]
         /\ sweep'[j].step = step
         /\ \A i \in Jobs \ {j} : sweep'[i] = sweep[i]
  <1>1. 0 \in UNION {0..Backoff[i] : i \in DOMAIN Backoff} /\ 0 \in 0..StaleAfter + 1
    BY WaitType
  <1>2. NewRow \in Row
    BY <1>1 DEF NewRow, Row
  <1> DEFINE s == [NoSweep EXCEPT !.step = step]
  <1>3. s \in [step: {"idle", "listed", "send"} \cup Unsettled, seen: Row] /\ s.step = step
    BY <1>2 DEF NoSweep
  <1>4. sweep' = [sweep EXCEPT ![j] = s]
    BY DEF SweepTo
  <1> HIDE DEF s
  <1>5. QED
    BY <1>3, <1>4 DEF Types

\* a message is sent, or lost with the process that sends it,
LEMMA Sent ==
  ASSUME Types, NEW j \in Jobs, Send(j)
  PROVE  /\ queue' \in [Jobs -> Nat] /\ faults' \in 0..MaxFaults
         /\ \A i \in Jobs \ {j} : queue'[i] = queue[i]
         /\ \/ queue'[j] = queue[j] + 1 /\ faults' = faults
            \/ queue' = queue /\ faults' = faults + 1
  <1>1. CASE queue' = [queue EXCEPT ![j] = @ + 1] /\ faults' = faults
    BY <1>1 DEF Types
  <1>2. CASE faults < MaxFaults /\ faults' = faults + 1 /\ queue' = queue
    BY <1>2 DEF Types
  <1>3. QED
    BY <1>1, <1>2 DEF Send

\* and a failure is counted for one job.
LEMMA FailureCounted ==
  ASSUME Types, NEW j \in Jobs, Failed(j)
  PROVE  /\ failures' \in [Jobs -> Nat]
         /\ \A i \in Jobs \ {j} : failures'[i] = failures[i]
         /\ failures'[j] = OneMore(failures[j])
  BY DEF Types, Failed, OneMore

\* A count that has reached n passes it, unless that is more than is counted
LEMMA OneMoreThan ==
  ASSUME NEW m \in Nat, NEW n \in Nat, n <= m
  PROVE  OneMore(m) \in Nat /\ n <= OneMore(m) /\ (n < MaxAttempts => n + 1 <= OneMore(m))
  BY DEF OneMore

-----------------------------------------------------------------------------
(* What an action leaves alone keeps its invariant *)

\* A job whose row, queue, workers, sweeper and failures stay keeps its invariant,
LEMMA JobFrame ==
  ASSUME NEW j, JobInv(j),
         row'[j] = row[j], queue'[j] = queue[j], worker'[j] = worker[j], sweep'[j] = sweep[j],
         failures'[j] = failures[j]
  PROVE  JobInv(j)'
  BY DEF JobInv, OneInv, UnderWayInv, ListedInv, CountInv, UnderWay, Running, Waits, SweepAt

\* as does the verdict of a scan that nobody touches
LEMMA VerdictFrame ==
  ASSUME VerdictInv, row'["scan"].status = row["scan"].status, worker'["scan"] = worker["scan"],
         sweep'["scan"] = sweep["scan"], file'["quarantine"] = file["quarantine"]
  PROVE  VerdictInv'
  BY DEF VerdictInv, StepInv

\* and what the transcodes have read.
LEMMA SeenFrame ==
  ASSUME SeenInv, worker'["video"] = worker["video"],
         row'["video"].attempts = row["video"].attempts
  PROVE  SeenInv'
  BY DEF SeenInv, At

\* What is under way is not listed, and what is listed is not under way
LEMMA NotListed ==
  ASSUME Types, NEW j \in Jobs, JobInv(j), UnderWay(j)
  PROVE  ~SweepAt(j, "listed") /\ ~Due(row[j]) /\ ~Stale(row[j])
  <1>1. ~row[j].planned /\ row[j].age <= StaleAfter
    BY DEF JobInv, UnderWayInv
  <1>2. row[j].age \in Int
    BY DEF Types, Row
  <1>3. ~Stale(row[j])
    BY <1>1, <1>2 DEF Stale
  <1>4. ~Due(row[j])
    BY <1>1 DEF Due
  <1>5. QED
    BY <1>3, <1>4 DEF JobInv, ListedInv

\* A run that ends, or is handed on to what its verdict asks for, was the only one
LEMMA RunEnds ==
  ASSUME Types, NEW j \in Jobs, NEW w \in Workers, JobInv(j), w \in Running(j),
         NEW state \in WorkerState, Becomes(j, w, state), state.step \in {"idle"} \cup Unsettled,
         queue'[j] = queue[j], sweep'[j] = sweep[j]
  PROVE  ~UnderWay(j)' /\ OneInv(j)' /\ UnderWayInv(j)' /\ ListedInv(j)'
  <1>1. Running(j)' = Running(j) \ {w}
    BY WorkerSet
  <1>2. Running(j)' = {} /\ ~Waits(j)
    BY <1>1 DEF JobInv, OneInv
  <1>3. ~Waits(j)' /\ queue[j] \in Nat /\ ~(queue[j] > 0)
    BY <1>2 DEF Waits, SweepAt, Types
  <1>4. ~UnderWay(j)'
    BY <1>2, <1>3 DEF UnderWay
  <1>5. OneInv(j)' /\ UnderWayInv(j)'
    BY <1>2, <1>3, <1>4 DEF OneInv, UnderWayInv
  <1>6. ~SweepAt(j, "listed")
    BY NotListed DEF UnderWay
  <1>7. QED
    BY <1>4, <1>5, <1>6 DEF ListedInv, SweepAt

\* What is not busy rests ...
LEMMA AtRest ==
  ASSUME Types, NEW j \in Jobs, JobInv(j), row[j].status # "busy"
  PROVE  /\ Running(j) = {} /\ ~Waits(j) /\ ~UnderWay(j)
         /\ queue[j] = 0 /\ ~SweepAt(j, "send") /\ ~SweepAt(j, "listed")
  <1>1. Running(j) = {} /\ ~Waits(j) /\ ~UnderWay(j) /\ ~SweepAt(j, "listed")
    BY DEF JobInv, UnderWayInv, UnderWay, ListedInv
  <1>2. queue[j] \in Nat
    BY DEF Types
  <1>3. QED
    BY <1>1, <1>2 DEF Waits

\* ... until it is begun again, with one message sent or lost
LEMMA BegunAgain ==
  ASSUME Types, NEW j \in Jobs, JobInv(j), row[j].status # "busy",
         row'[j].status = "busy", row'[j].attempts = 0, ~row'[j].planned, row'[j].age = 0,
         worker' = worker, sweep' = sweep,
         \/ queue'[j] = queue[j] + 1 /\ failures'[j] = 0
         \/ queue'[j] = queue[j] /\ failures'[j] = 1
  PROVE  JobInv(j)'
  <1>1. /\ Running(j)' = {} /\ ~SweepAt(j, "send")' /\ ~SweepAt(j, "listed")'
        /\ queue[j] = 0
    BY AtRest DEF Running, SweepAt
  <1>2. \/ queue'[j] = 1 /\ failures'[j] = 0
        \/ queue'[j] = 0 /\ failures'[j] = 1
    BY <1>1
  <1>3. OneInv(j)' /\ ListedInv(j)'
    BY <1>1, <1>2 DEF OneInv, ListedInv
  <1>4. UnderWay(j)' <=> queue'[j] = 1
    BY <1>1, <1>2 DEF UnderWay, Waits
  <1>5. UnderWayInv(j)'
    BY <1>1 DEF UnderWayInv
  <1>6. CountInv(j)'
    <2>1. (UnderWay(j)' \/ failures'[j] = 1) /\ failures'[j] \in Nat
      BY <1>2, <1>4
    <2>2. QED
      BY <2>1 DEF CountInv
  <1>7. QED
    BY <1>3, <1>5, <1>6 DEF JobInv

\* ... and goes on to rest while it is not
LEMMA RestKept ==
  ASSUME Types, NEW j \in Jobs, JobInv(j), row[j].status # "busy", row'[j].status # "busy",
         row'[j].attempts \in 0..MaxAttempts, Running(j)' = Running(j), queue'[j] = queue[j],
         sweep'[j] = sweep[j] \/ sweep'[j].step \notin {"listed", "send"}
  PROVE  JobInv(j)'
  <1>1. /\ Running(j)' = {} /\ ~Waits(j)' /\ ~SweepAt(j, "send")' /\ ~SweepAt(j, "listed")'
        /\ queue'[j] = 0
    BY AtRest DEF Waits, SweepAt
  <1>2. QED
    BY <1>1 DEF JobInv, OneInv, UnderWayInv, UnderWay, ListedInv, CountInv

\* Steps that are no part of a run change nothing for it
LEMMA JobKept ==
  ASSUME Types, NEW j \in Jobs, JobInv(j), row'[j] = row[j], queue'[j] = queue[j],
         Running(j)' = Running(j),
         \A w \in Running(j) : worker'[j][w].ran = worker[j][w].ran,
         \/ sweep'[j] = sweep[j]
         \/ {sweep[j].step, sweep'[j].step} \cap {"listed", "send"} = {},
         failures'[j] \in Nat, failures[j] <= failures'[j]
  PROVE  JobInv(j)'
  <1>1. (SweepAt(j, "send")' <=> SweepAt(j, "send")) /\ (SweepAt(j, "listed")' <=> SweepAt(j, "listed"))
    BY DEF SweepAt
  <1>2. (Waits(j)' <=> Waits(j)) /\ (UnderWay(j)' <=> UnderWay(j))
    BY <1>1 DEF UnderWay, Waits
  <1>3. OneInv(j)' /\ UnderWayInv(j)'
    BY <1>1, <1>2 DEF JobInv, OneInv, UnderWayInv
  <1>4. ListedInv(j)'
    BY <1>1 DEF JobInv, ListedInv, SweepAt
  <1>5. CountInv(j)'
    <2>1. failures[j] \in Nat /\ row[j].attempts \in Nat
      BY DEF Types, Row
    <2>2. QED
      BY <1>2, <2>1 DEF JobInv, CountInv
  <1>6. QED
    BY <1>3, <1>4, <1>5 DEF JobInv

\* The only run of a job ends, and what is left counts as many failures as attempts
LEMMA JobEnds ==
  ASSUME Types, NEW j \in Jobs, NEW w \in Workers, JobInv(j), w \in Running(j),
         NEW state \in WorkerState, Becomes(j, w, state), state.step \in {"idle"} \cup Unsettled,
         queue'[j] = queue[j], sweep'[j] = sweep[j],
         row'[j].attempts \in 0..MaxAttempts,
         row'[j].status = "busy" =>
           /\ row'[j].attempts < MaxAttempts /\ row'[j].attempts <= failures'[j]
           /\ ~row'[j].planned => row'[j].attempts < failures'[j]
  PROVE  JobInv(j)'
  <1>1. ~UnderWay(j)' /\ OneInv(j)' /\ UnderWayInv(j)' /\ ListedInv(j)'
    BY RunEnds
  <1>2. CountInv(j)'
    BY <1>1 DEF CountInv
  <1>3. QED
    BY <1>1, <1>2 DEF JobInv

\* A run that goes on leaves its job as it was.
LEMMA JobGoesOn ==
  ASSUME Types, NEW j \in Jobs, NEW w \in Workers, JobInv(j), w \in Running(j),
         NEW state \in WorkerState, Becomes(j, w, state), state.step \notin {"idle"} \cup Unsettled,
         state.ran = worker[j][w].ran,
         row'[j] = row[j], queue'[j] = queue[j], sweep'[j] = sweep[j], failures'[j] = failures[j]
  PROVE  JobInv(j)'
  <1>1. /\ Running(j)' = Running(j)
        /\ \A v \in Workers : worker'[j][v].ran = worker[j][v].ran
    <2>1. /\ worker'[j][w] = state
          /\ \A v \in Workers \ {w} : worker'[j][v] = worker[j][v]
          /\ Running(j)' = Running(j) \cup {w}
      BY WorkerSet
    <2>2. QED
      BY <2>1
  <1>2. UnderWay(j)' <=> UnderWay(j)
    BY <1>1 DEF UnderWay, Waits, SweepAt
  <1>3. OneInv(j)' /\ ListedInv(j)' /\ CountInv(j)'
    BY <1>1, <1>2 DEF JobInv, OneInv, ListedInv, CountInv, Waits, SweepAt
  <1>4. UnderWayInv(j)'
    BY <1>1, <1>2 DEF JobInv, UnderWayInv, Running
  <1>5. QED
    BY <1>3, <1>4 DEF JobInv

\* A job under way is busy, and its attempts are failures, one at least to go.
LEMMA Busy ==
  ASSUME NEW j \in Jobs, Undisturbed, UnderWay(j)
  PROVE  /\ row[j].status = "busy" /\ ~row[j].planned /\ row["video"].status # "none"
         /\ row[j].attempts < MaxAttempts /\ row[j].attempts <= failures[j]
  <1>1. row[j].status = "busy" /\ ~row[j].planned
    BY DEF Undisturbed, JobInv, UnderWayInv
  <1>2. QED
    BY <1>1 DEF Undisturbed, JobInv, CountInv, NewInv

\* Whoever is at a step before its verdict is running.
LEMMA RunningAt ==
  ASSUME NEW j \in Jobs, NEW w \in Workers, NEW step \in Steps \ ({"idle"} \cup Unsettled), At(j, w, step)
  PROVE  w \in Running(j) /\ UnderWay(j)
  BY DEF Running, UnderWay, At

\* Only the run that is under way has read anything
LEMMA SeenAlone ==
  ASSUME JobInv("video"), NEW w \in Running("video"),
         \A v \in Workers \ {w} : worker'["video"][v] = worker["video"][v],
         worker'["video"][w].step = "run" => worker'["video"][w].seen = row'["video"].attempts
  PROVE  SeenInv'
  <1>1. \A v \in Workers : At("video", v, "run") => v = w
    BY DEF JobInv, OneInv, Running, At, Unsettled
  <1>2. QED
    BY <1>1 DEF SeenInv, At

\* Steps that carry no verdict to the quarantine
LEMMA VerdictKept ==
  ASSUME VerdictInv, row'["scan"].status = row["scan"].status,
         file'["quarantine"] = file["quarantine"],
         \/ sweep'["scan"].step = sweep["scan"].step \/ sweep'["scan"].step \notin LockSteps,
         \A w \in Workers : \/ worker'["scan"][w].step = worker["scan"][w].step
                           \/ worker'["scan"][w].step \notin LockSteps
  PROVE  VerdictInv'
  BY DEF VerdictInv, StepInv, LockSteps

\* A scan that is busy is the only one that can come to a verdict
LEMMA VerdictOfRun ==
  ASSUME VerdictInv, row["scan"].status = "busy", NEW w \in Workers,
         \A v \in Workers \ {w} : worker'["scan"][v] = worker["scan"][v],
         sweep'["scan"] = sweep["scan"], file'["quarantine"] = file["quarantine"],
         StepInv(worker["scan"][w].step)'
  PROVE  VerdictInv'
  <1>1. ~file["quarantine"] /\ sweep["scan"].step \notin LockSteps
    BY DEF VerdictInv, StepInv, LockSteps
  <1>2. \A v \in Workers : worker["scan"][v].step \notin LockSteps
    BY DEF VerdictInv, StepInv, LockSteps
  <1>3. QED
    BY <1>1, <1>2 DEF VerdictInv, StepInv, LockSteps

-----------------------------------------------------------------------------
(* The actions *)

\* Everything else is as new, so nothing is under way and nothing listed
LEMMA UploadStep ==
  ASSUME Types, Upload
  PROVE  Types' /\ (Undisturbed /\ ~overtaken' => Undisturbed')
  <1>1. PICK small \in BOOLEAN :
          LET begun == IF small THEN {"scan"} ELSE Jobs IN
          /\ row' = [j \in Jobs |-> [Stamped(row[j]) EXCEPT
                       !.status = IF j \in begun THEN "busy" ELSE "done"]]
          /\ \E sent \in {begun, begun \ {"scan"}, {}} :
               /\ queue' = [j \in Jobs |-> IF j \in sent THEN 1 ELSE 0]
               /\ failures' = [j \in Jobs |-> IF j \in begun \ sent THEN 1 ELSE 0]
               /\ faults' = IF sent = begun THEN faults ELSE faults + 1
               /\ faults' <= MaxFaults
    BY DEF Upload
  <1> DEFINE begun == IF small THEN {"scan"} ELSE Jobs
  <1>2. PICK sent \in {begun, begun \ {"scan"}, {}} :
          /\ queue' = [j \in Jobs |-> IF j \in sent THEN 1 ELSE 0]
          /\ failures' = [j \in Jobs |-> IF j \in begun \ sent THEN 1 ELSE 0]
          /\ faults' = IF sent = begun THEN faults ELSE faults + 1
          /\ faults' <= MaxFaults
    BY <1>1
  <1>3. /\ UNCHANGED <<worker, sweep, asked, retries, stranded, overtaken>>
        /\ file' \in {Hold(Written), Written}
    BY DEF Upload
  <1>4. begun \subseteq Jobs /\ "scan" \in begun /\ sent \subseteq begun
    BY DEF Jobs
  <1> HIDE DEF begun
  <1>5. ASSUME NEW j \in Jobs
        PROVE  /\ row'[j] \in Row /\ row'[j].attempts = row[j].attempts
               /\ row'[j].status = (IF j \in begun THEN "busy" ELSE "done")
               /\ ~row'[j].planned /\ row'[j].age = 0
    <2>1. /\ Stamped(row[j]) \in Row /\ Stamped(row[j]).attempts = row[j].attempts
          /\ ~Stamped(row[j]).planned /\ Stamped(row[j]).age = 0
      BY StampedRow DEF Types
    <2> DEFINE s == Stamped(row[j])
    <2>2. row'[j] = [s EXCEPT !.status = IF j \in begun THEN "busy" ELSE "done"]
      BY <1>1 DEF begun
    <2> HIDE DEF s
    <2>3. QED
      BY <2>1, <2>2, Zenon DEF Row, s
  <1>6. row' \in [Jobs -> Row]
    BY <1>1, <1>5
  <1>7. file' \in [Places -> BOOLEAN] /\ file'["quarantine"] = file["quarantine"]
    BY <1>3, FileType
  <1>8. queue' \in [Jobs -> Nat] /\ failures' \in [Jobs -> Nat] /\ faults' \in 0..MaxFaults
    BY <1>2 DEF Types
  <1>9. Types'
    BY <1>3, <1>6, <1>7, <1>8 DEF Types
  <1>10. ASSUME Undisturbed PROVE Undisturbed'
    <2>1. \A j \in Jobs : row[j].status = "none" /\ row[j].attempts = 0
      BY <1>10 DEF Undisturbed, NewInv, Upload
    <2>2. ASSUME NEW j \in Jobs PROVE JobInv(j)'
      <3>1. JobInv(j) /\ row[j].status # "busy"
        BY <1>10, <2>1 DEF Undisturbed
      <3>2. Running(j) = {} /\ ~Waits(j) /\ ~SweepAt(j, "listed")
        BY <3>1 DEF JobInv, UnderWayInv, UnderWay, ListedInv
      <3>3. Running(j)' = {} /\ ~SweepAt(j, "send")' /\ ~SweepAt(j, "listed")'
        BY <1>3, <3>2 DEF Running, Waits, SweepAt
      <3>4. queue'[j] = (IF j \in sent THEN 1 ELSE 0) /\ failures'[j] = (IF j \in begun \ sent THEN 1 ELSE 0)
        BY <1>2
      <3>5. OneInv(j)' /\ ListedInv(j)'
        BY <3>3, <3>4 DEF OneInv, ListedInv
      <3>6. UnderWay(j)' <=> j \in sent
        BY <3>3, <3>4 DEF UnderWay, Waits
      <3>7. UnderWayInv(j)'
        <4>1. j \in sent => row'[j].status = "busy"
          BY <1>4, <1>5
        <4>2. ~row'[j].planned /\ row'[j].age <= StaleAfter
          BY <1>5
        <4>3. QED
          BY <3>3, <3>6, <4>1, <4>2 DEF UnderWayInv
      <3>8. CountInv(j)'
        <4>1. row'[j].attempts = 0 /\ failures'[j] \in Nat
          BY <1>5, <1>8, <2>1
        <4>2. row'[j].status = "busy" /\ j \notin sent => failures'[j] = 1
          BY <1>5, <3>4
        <4>3. QED
          BY <3>6, <4>1, <4>2 DEF CountInv
      <3>9. QED
        BY <3>5, <3>7, <3>8 DEF JobInv
    <2>3. SeenInv'
      <3>1. "video" \in Jobs
        BY DEF Jobs
      <3>2. QED
        BY <1>3, <1>5, <1>10, <3>1, SeenFrame DEF Undisturbed
    <2>4. NewInv'
      BY <1>5 DEF NewInv, Jobs
    <2>5. VerdictInv'
      <3>1. row["scan"].status = "none"
        BY <2>1 DEF Jobs
      <3>2. QED
        BY <1>3, <1>5, <1>7, <1>10, <3>1 DEF Undisturbed, VerdictInv, StepInv
    <2>6. QED
      BY <2>2, <2>3, <2>4, <2>5 DEF Undisturbed
  <1>11. QED
    BY <1>9, <1>10

\* A request that is killed before its commit has moved the file at most.
LEMMA KillRequestStep ==
  ASSUME Types, KillUpload \/ KillRetry
  PROVE  Types' /\ (Undisturbed /\ ~overtaken' => Undisturbed')
  <1>1. PICK f \in {file, Written} : KillRequest(f)
    BY DEF KillUpload, KillRetry
  <1>2. /\ file' \in [Places -> BOOLEAN] /\ file'["quarantine"] = file["quarantine"]
        /\ stranded' \in BOOLEAN /\ faults' \in 0..MaxFaults
        /\ UNCHANGED <<row, queue, worker, sweep, retries, failures, overtaken>>
    BY <1>1, FileType DEF KillRequest, Types
  <1>3. asked' \in [Jobs -> 0..MaxRequests]
    <2>1. CASE KillUpload
      BY <2>1 DEF KillUpload, Types
    <2>2. CASE KillRetry
      BY <2>2 DEF KillRetry, Types, Jobs
    <2>3. QED
      BY <2>1, <2>2
  <1>4. Types'
    BY <1>2, <1>3 DEF Types
  <1>5. ASSUME Undisturbed PROVE Undisturbed'
    <2>1. \A i \in Jobs : JobInv(i)'
      BY <1>2, <1>5, JobFrame DEF Undisturbed
    <2>2. SeenInv' /\ VerdictInv'
      BY <1>2, <1>5, SeenFrame, VerdictFrame DEF Undisturbed
    <2>3. QED
      BY <1>2, <1>5, <2>1, <2>2 DEF Undisturbed, NewInv
  <1>6. QED
    BY <1>4, <1>5

\* A look changes nothing.
LEMMA AskStep ==
  ASSUME Types, NEW j \in Jobs, Ask(j)
  PROVE  Types' /\ (Undisturbed /\ ~overtaken' => Undisturbed')
  <1>1. asked' \in [Jobs -> 0..MaxRequests] /\ retries' \in 0..MaxRetries
    BY DEF Ask, Types
  <1>2. Types'
    BY <1>1 DEF Ask, Types
  <1>3. ASSUME Undisturbed PROVE Undisturbed'
    <2>1. \A i \in Jobs : JobInv(i)'
      BY <1>3, JobFrame DEF Undisturbed, Ask
    <2>2. SeenInv' /\ VerdictInv'
      BY <1>3, SeenFrame, VerdictFrame DEF Undisturbed, Ask
    <2>3. QED
      BY <1>3, <2>1, <2>2 DEF Undisturbed, NewInv, Ask
  <1>4. QED
    BY <1>2, <1>3

\* Only what has failed is begun again, or the job is overtaken
LEMMA RetryStep ==
  ASSUME Types, NEW j \in Jobs, Retry(j)
  PROVE  Types' /\ (Undisturbed /\ ~overtaken' => Undisturbed')
  <1> DEFINE r == [Stamped(row[j]) EXCEPT !.status = "busy", !.attempts = 0]
  <1>1. r \in Row /\ r.status = "busy" /\ r.attempts = 0 /\ ~r.planned /\ r.age = 0
    <2>1. Stamped(row[j]) \in Row /\ ~Stamped(row[j]).planned /\ Stamped(row[j]).age = 0
      BY StampedRow DEF Types
    <2>2. QED
      BY <2>1, Zenon DEF Row
  <1>2. SetRow(j, r) /\ Send(j)
    BY DEF Retry
  <1> HIDE DEF r
  <1>3. /\ row' \in [Jobs -> Row] /\ row'[j] = r
        /\ \A i \in Jobs \ {j} : row'[i] = row[i]
    BY <1>1, <1>2, RowSet
  <1>4. /\ queue' \in [Jobs -> Nat] /\ faults' \in 0..MaxFaults
        /\ \A i \in Jobs \ {j} : queue'[i] = queue[i]
        /\ \/ queue'[j] = queue[j] + 1 /\ faults' = faults
           \/ queue' = queue /\ faults' = faults + 1
    BY <1>2, Sent
  <1>5. \/ queue'[j] = queue[j] + 1 /\ faults' - faults = 0
        \/ queue' = queue /\ faults' - faults = 1
    <2>1. faults \in Nat
      BY DEF Types
    <2>2. (faults' = faults => faults' - faults = 0) /\ (faults' = faults + 1 => faults' - faults = 1)
      BY <2>1
    <2>3. QED
      BY <1>4, <2>2, Zenon
  <1>6. /\ failures' \in [Jobs -> Nat] /\ failures'[j] = faults' - faults
        /\ \A i \in Jobs \ {j} : failures'[i] = failures[i]
    BY <1>5 DEF Retry, Types
  <1>7. asked' \in [Jobs -> 0..MaxRequests]
    <2>1. asked[j] \in 0..MaxRequests /\ asked[j] > 0 /\ asked' = [asked EXCEPT ![j] = @ - 1]
      BY DEF Retry, Types
    <2>2. QED
      BY <2>1 DEF Types
  <1>8. file' \in [Places -> BOOLEAN] /\ file'["quarantine"] = file["quarantine"]
    <2>1. file' \in {Hold(file), file}
      BY DEF Retry
    <2>2. QED
      BY <2>1, FileType
  <1>9. UNCHANGED <<worker, sweep, retries, stranded>>
    BY DEF Retry
  <1>10. overtaken' \in BOOLEAN
    BY DEF Retry
  <1>11. Types'
    BY <1>3, <1>4, <1>6, <1>7, <1>8, <1>9, <1>10 DEF Types
  <1>12. ASSUME Undisturbed, ~overtaken' PROVE Undisturbed'
    <2>1. row[j].status = "failed" /\ ~(j = "scan" /\ LockedAway)
      BY <1>12 DEF Retry
    <2>2. ASSUME NEW i \in Jobs PROVE JobInv(i)'
      <3>1. CASE i # j
        BY <1>3, <1>4, <1>6, <1>9, <1>12, <3>1, JobFrame DEF Undisturbed
      <3>2. CASE i = j
        <4>1. JobInv(j) /\ row[j].status # "busy"
          BY <1>12, <2>1 DEF Undisturbed
        <4>2. \/ queue'[j] = queue[j] + 1 /\ failures'[j] = 0
              \/ queue'[j] = queue[j] /\ failures'[j] = 1
          BY <1>5, <1>6
        <4>3. QED
          BY <1>1, <1>3, <1>9, <3>2, <4>1, <4>2, BegunAgain
      <3>3. QED
        BY <3>1, <3>2
    <2>3. SeenInv'
      <3>1. CASE j = "video"
        <4>1. Running("video") = {}
          BY <1>12, <2>1, <3>1 DEF Undisturbed, JobInv, UnderWayInv, UnderWay
        <4>2. QED
          BY <1>9, <4>1 DEF SeenInv, At, Running, Unsettled
      <3>2. CASE j # "video"
        <4>1. row'["video"] = row["video"]
          BY <1>3, <3>2 DEF Jobs
        <4>2. QED
          BY <1>9, <1>12, <4>1, SeenFrame DEF Undisturbed
      <3>3. QED
        BY <3>1, <3>2
    <2>4. NewInv'
      <3>1. row'["video"].status # "none"
        BY <1>1, <1>3, <1>12, <2>1 DEF Undisturbed, NewInv, Jobs
      <3>2. QED
        BY <3>1 DEF NewInv
    <2>5. VerdictInv'
      <3>1. CASE j # "scan"
        <4>1. row'["scan"] = row["scan"]
          BY <1>3, <3>1 DEF Jobs
        <4>2. QED
          BY <1>8, <1>9, <1>12, <4>1, VerdictFrame DEF Undisturbed
      <3>2. CASE j = "scan"
        BY <1>8, <1>9, <1>12, <2>1, <3>2 DEF Undisturbed, VerdictInv, StepInv, LockedAway
      <3>3. QED
        BY <3>1, <3>2
    <2>6. QED
      BY <2>2, <2>3, <2>4, <2>5 DEF Undisturbed
  <1>13. QED
    BY <1>11, <1>12

\* What lies in quarantine was found infected and waits for nothing
LEMMA ReleaseStep ==
  ASSUME Types, ReleaseFromQuarantine
  PROVE  Types' /\ (Undisturbed /\ ~overtaken' => Undisturbed')
  <1> DEFINE r == [row["scan"] EXCEPT !.status = "none", !.attempts = 0, !.planned = FALSE, !.wait = 0]
  <1>1. r \in Row /\ r.status = "none" /\ r.attempts = 0
    <2>1. row["scan"] \in Row /\ 0 \in UNION {0..Backoff[i] : i \in DOMAIN Backoff}
      BY WaitType DEF Types, Jobs
    <2>2. QED
      BY <2>1, Zenon DEF Row
  <1>2. SetRow("scan", r)
    BY DEF ReleaseFromQuarantine, SetRow
  <1> HIDE DEF r
  <1>3. row' \in [Jobs -> Row] /\ row'["scan"] = r /\ row'["video"] = row["video"]
    BY <1>1, <1>2, RowSet DEF Jobs
  <1>4. file["quarantine"] /\ file' \in [Places -> BOOLEAN] /\ ~file'["quarantine"]
    <2>1. file' = Moved(file, "quarantine", "live")
      BY DEF ReleaseFromQuarantine
    <2>2. QED
      BY <2>1, FileType DEF ReleaseFromQuarantine, Moved, Types, Places
  <1>5. /\ UNCHANGED <<queue, worker, sweep, asked, faults, failures, stranded, overtaken>>
        /\ retries' \in 0..MaxRetries
    BY DEF ReleaseFromQuarantine, Types
  <1>6. Types'
    BY <1>3, <1>4, <1>5 DEF Types
  <1>7. ASSUME Undisturbed PROVE Undisturbed'
    <2>1. row["scan"].status = "infected"
      BY <1>4, <1>7 DEF Undisturbed, VerdictInv
    <2>2. JobInv("video")'
      BY <1>3, <1>5, <1>7, JobFrame DEF Undisturbed, Jobs
    <2>3. JobInv("scan")'
      <3>1. "scan" \in Jobs /\ JobInv("scan") /\ r.attempts \in 0..MaxAttempts
        BY <1>1, <1>7 DEF Undisturbed, Jobs
      <3>2. Running("scan")' = Running("scan")
        BY <1>5 DEF Running
      <3>3. QED
        BY <1>1, <1>3, <1>5, <2>1, <3>1, <3>2, RestKept
    <2>4. NewInv'
      <3>1. row["video"].status # "none"
        BY <1>7, <2>1 DEF Undisturbed, NewInv, Jobs
      <3>2. QED
        BY <1>3, <3>1 DEF NewInv
    <2>5. SeenInv'
      BY <1>3, <1>5, <1>7, SeenFrame DEF Undisturbed
    <2>6. VerdictInv'
      BY <1>4, <1>5, <1>7, <2>1 DEF Undisturbed, VerdictInv, StepInv
    <2>7. QED
      BY <2>2, <2>3, <2>4, <2>5, <2>6 DEF Undisturbed, Jobs
  <1>8. QED
    BY <1>6, <1>7

\* What has no scan status has neither run nor message, so one is sent.
LEMMA BackfillStep ==
  ASSUME Types, Backfill
  PROVE  Types' /\ (Undisturbed /\ ~overtaken' => Undisturbed')
  <1> DEFINE r == [Stamped(row["scan"]) EXCEPT !.status = "busy", !.attempts = 0]
  <1>1. r \in Row /\ r.status = "busy" /\ r.attempts = 0 /\ ~r.planned /\ r.age = 0
    <2>1. /\ Stamped(row["scan"]) \in Row
          /\ ~Stamped(row["scan"]).planned /\ Stamped(row["scan"]).age = 0
      BY StampedRow DEF Types, Jobs
    <2>2. QED
      BY <2>1, Zenon DEF Row
  <1>2. SetRow("scan", r) /\ Send("scan") /\ "scan" \in Jobs
    BY DEF Backfill, Jobs
  <1> HIDE DEF r
  <1>3. row' \in [Jobs -> Row] /\ row'["scan"] = r /\ row'["video"] = row["video"]
    BY <1>1, <1>2, RowSet DEF Jobs
  <1>4. /\ queue' \in [Jobs -> Nat] /\ faults' \in 0..MaxFaults
        /\ queue'["video"] = queue["video"]
        /\ \/ queue'["scan"] = queue["scan"] + 1 /\ faults' = faults
           \/ queue' = queue /\ faults' = faults + 1
    BY <1>2, Sent DEF Jobs
  <1>5. \/ queue'["scan"] = queue["scan"] + 1 /\ faults' - faults = 0
        \/ queue' = queue /\ faults' - faults = 1
    <2>1. faults \in Nat
      BY DEF Types
    <2>2. (faults' = faults => faults' - faults = 0) /\ (faults' = faults + 1 => faults' - faults = 1)
      BY <2>1
    <2>3. QED
      BY <1>4, <2>2, Zenon
  <1>6. /\ failures' \in [Jobs -> Nat] /\ failures'["scan"] = faults' - faults
        /\ failures'["video"] = failures["video"]
    <2>1. faults' - faults \in Nat
      BY <1>5
    <2>2. QED
      BY <2>1 DEF Backfill, Types, Jobs
  <1>7. UNCHANGED <<file, worker, sweep, asked, retries, stranded, overtaken>>
    BY DEF Backfill
  <1>8. Types'
    BY <1>3, <1>4, <1>6, <1>7 DEF Types
  <1>9. ASSUME Undisturbed PROVE Undisturbed'
    <2>1. row["scan"].status = "none" /\ row["video"].status # "none"
      BY DEF Backfill
    <2>2. JobInv("video")'
      BY <1>3, <1>4, <1>6, <1>7, <1>9, JobFrame DEF Undisturbed, Jobs
    <2>3. JobInv("scan")'
      <3>1. JobInv("scan") /\ row["scan"].status # "busy"
        BY <1>2, <1>9, <2>1 DEF Undisturbed
      <3>2. \/ queue'["scan"] = queue["scan"] + 1 /\ failures'["scan"] = 0
            \/ queue'["scan"] = queue["scan"] /\ failures'["scan"] = 1
        BY <1>5, <1>6
      <3>3. QED
        BY <1>1, <1>2, <1>3, <1>7, <3>1, <3>2, BegunAgain
    <2>4. SeenInv' /\ NewInv'
      BY <1>3, <1>7, <1>9, <2>1, SeenFrame DEF Undisturbed, NewInv
    <2>5. VerdictInv'
      BY <1>7, <1>9, <2>1 DEF Undisturbed, VerdictInv, StepInv
    <2>6. QED
      BY <2>2, <2>3, <2>4, <2>5 DEF Undisturbed, Jobs
  <1>10. QED
    BY <1>8, <1>9

\* The message that is taken becomes the one run.
LEMMA BeginStep ==
  ASSUME Types, NEW j \in Jobs, NEW w \in Workers, Begin(j, w)
  PROVE  Types' /\ (Undisturbed /\ ~overtaken' => Undisturbed')
  <1> DEFINE r == Stamped(row[j])
             state == [Idle EXCEPT !.step = "check"]
  <1>1. /\ r \in Row /\ r.status = row[j].status /\ r.attempts = row[j].attempts
        /\ ~r.planned /\ r.age = 0
    BY StampedRow DEF Types
  <1>2. state \in WorkerState /\ state.step = "check" /\ state.ran = 0
    BY DEF Idle, WorkerState, Steps
  <1>3. SetRow(j, r) /\ Becomes(j, w, state) /\ queue[j] > 0
    BY DEF Begin
  <1> HIDE DEF r, state
  <1>4. /\ row' \in [Jobs -> Row] /\ row'[j] = r
        /\ \A i \in Jobs \ {j} : row'[i] = row[i]
    BY <1>1, <1>3, RowSet
  <1>5. /\ worker' \in [Jobs -> [Workers -> WorkerState]]
        /\ worker'[j][w] = state
        /\ \A v \in Workers \ {w} : worker'[j][v] = worker[j][v]
        /\ \A i \in Jobs \ {j} : worker'[i] = worker[i]
        /\ Running(j)' = Running(j) \cup {w}
    BY <1>2, <1>3, WorkerSet DEF Unsettled
  <1>6. /\ queue' \in [Jobs -> Nat] /\ queue'[j] = queue[j] - 1
        /\ \A i \in Jobs \ {j} : queue'[i] = queue[i]
    <2>1. queue[j] \in Nat /\ queue[j] - 1 \in Nat
      BY <1>3 DEF Types
    <2>2. QED
      BY <2>1 DEF Begin, Types
  <1>7. UNCHANGED <<file, sweep, asked, retries, faults, failures, stranded, overtaken>>
    BY DEF Begin
  <1>8. Types'
    BY <1>4, <1>5, <1>6, <1>7 DEF Types
  <1>9. ASSUME Undisturbed PROVE Undisturbed'
    <2>1. UnderWay(j) /\ Waits(j) /\ JobInv(j)
      BY <1>3, <1>9 DEF UnderWay, Waits, Undisturbed
    <2>2. /\ row[j].status = "busy" /\ row["video"].status # "none"
          /\ row[j].attempts < MaxAttempts /\ row[j].attempts <= failures[j]
      BY <1>9, <2>1, Busy
    <2>3. ASSUME NEW i \in Jobs PROVE JobInv(i)'
      <3>1. CASE i # j
        BY <1>4, <1>5, <1>6, <1>7, <1>9, <3>1, JobFrame DEF Undisturbed
      <3>2. CASE i = j
        <4>1. /\ Running(j)' = {w} /\ queue'[j] = 0
              /\ ~SweepAt(j, "send")' /\ ~SweepAt(j, "listed")'
          <5>1. queue[j] \in Nat
            BY DEF Types
          <5>2. queue[j] = 1 /\ Running(j) = {} /\ ~SweepAt(j, "send")
            BY <1>3, <2>1, <5>1 DEF JobInv, OneInv
          <5>3. queue'[j] = 0 /\ Running(j)' = {w}
            BY <1>5, <1>6, <5>2
          <5>4. ~SweepAt(j, "listed") /\ sweep' = sweep
            BY <1>7, <2>1, NotListed
          <5>5. QED
            BY <5>2, <5>3, <5>4 DEF SweepAt
        <4>2. OneInv(j)' /\ ListedInv(j)' /\ UnderWay(j)'
          BY <4>1 DEF OneInv, ListedInv, Waits, UnderWay
        <4>3. UnderWayInv(j)'
          BY <1>1, <1>2, <1>4, <1>5, <2>2, <4>1 DEF UnderWayInv
        <4>4. CountInv(j)'
          BY <1>1, <1>4, <1>7, <2>1, <4>2 DEF JobInv, CountInv
        <4>5. QED
          BY <3>2, <4>2, <4>3, <4>4 DEF JobInv
      <3>3. QED
        BY <3>1, <3>2
    <2>4. SeenInv'
      <3>1. \A v \in Workers :
              At("video", v, "run")' =>
                At("video", v, "run") /\ worker'["video"][v] = worker["video"][v]
        BY <1>2, <1>5 DEF At, Jobs
      <3>2. row'["video"].attempts = row["video"].attempts
        BY <1>1, <1>4 DEF Jobs
      <3>3. QED
        BY <1>9, <3>1, <3>2 DEF Undisturbed, SeenInv
    <2>5. row'["video"].status = row["video"].status /\ row'["scan"].status = row["scan"].status
      BY <1>1, <1>4 DEF Jobs
    <2>6. NewInv'
      BY <2>2, <2>5 DEF NewInv
    <2>7. VerdictInv'
      <3>1. \A v \in Workers : \/ worker'["scan"][v].step = worker["scan"][v].step
                               \/ worker'["scan"][v].step \notin LockSteps
        BY <1>2, <1>5 DEF LockSteps, Jobs
      <3>2. QED
        BY <1>7, <1>9, <2>5, <3>1, VerdictKept DEF Undisturbed
    <2>8. QED
      BY <2>3, <2>4, <2>6, <2>7 DEF Undisturbed
  <1>10. QED
    BY <1>8, <1>9

\* What a video's run writes: the row or the failures of its job, and its own step
LEMMA VideoRun ==
  ASSUME Types, NEW w \in Workers, NEW r \in Row, NEW state \in WorkerState,
         SetRow("video", r), Becomes("video", w, state),
         file' \in [Places -> BOOLEAN], file'["quarantine"] = file["quarantine"],
         failures' \in [Jobs -> Nat], failures'["scan"] = failures["scan"],
         stranded' \in BOOLEAN,
         UNCHANGED <<queue, sweep, asked, retries, faults, overtaken>>
  PROVE  /\ Types'
         /\ /\ Undisturbed /\ w \in Running("video") /\ r.status # "none" /\ JobInv("video")'
            /\ state.step = "run" => state.seen = r.attempts
            => Undisturbed'
  <1>1. row' \in [Jobs -> Row] /\ row'["video"] = r /\ row'["scan"] = row["scan"]
    BY RowSet DEF Jobs
  <1>2. /\ worker' \in [Jobs -> [Workers -> WorkerState]]
        /\ worker'["video"][w] = state
        /\ \A v \in Workers \ {w} : worker'["video"][v] = worker["video"][v]
        /\ worker'["scan"] = worker["scan"]
    BY WorkerSet DEF Jobs
  <1>3. Types'
    BY <1>1, <1>2 DEF Types
  <1>4. ASSUME Undisturbed, w \in Running("video"), r.status # "none", JobInv("video")',
               state.step = "run" => state.seen = r.attempts
        PROVE  Undisturbed'
    <2>1. JobInv("scan")'
      BY <1>1, <1>2, <1>4, JobFrame DEF Undisturbed, Jobs
    <2>2. SeenInv'
      <3>1. JobInv("video")
        BY <1>4 DEF Undisturbed, Jobs
      <3>2. QED
        BY <1>1, <1>2, <1>4, <3>1, SeenAlone
    <2>3. NewInv'
      BY <1>1, <1>4 DEF NewInv
    <2>4. VerdictInv'
      BY <1>1, <1>2, <1>4, VerdictFrame DEF Undisturbed
    <2>5. QED
      BY <1>4, <2>1, <2>2, <2>3, <2>4 DEF Undisturbed, Jobs
  <1>5. QED
    BY <1>3, <1>4

\* A transcode reads its attempts, or is put off or given up.
LEMMA CheckHoldStep ==
  ASSUME Types, NEW w \in Workers, CheckHold(w)
  PROVE  Types' /\ (Undisturbed /\ ~overtaken' => Undisturbed')
  <1> DEFINE v == row["video"]
             state == [worker["video"][w] EXCEPT !.step = "run", !.seen = v.attempts]
  <1>1. v \in Row /\ "video" \in Jobs
    BY DEF Types, Jobs
  <1>2. /\ state \in WorkerState /\ state.step = "run" /\ state.seen = v.attempts
        /\ state.ran = worker["video"][w].ran
    <2>1. worker["video"][w] \in WorkerState /\ v.attempts \in Nat
      BY <1>1 DEF Types, Row
    <2>2. QED
      BY <2>1, Zenon DEF WorkerState, Steps
  <1>3. /\ UNCHANGED <<file, queue, sweep, asked, retries, faults, failures, stranded, overtaken>>
        /\ file' \in [Places -> BOOLEAN] /\ failures' \in [Jobs -> Nat] /\ stranded' \in BOOLEAN
    BY DEF CheckHold, Types
  <1>4. Undisturbed => /\ w \in Running("video") /\ JobInv("video")
                       /\ v.status = "busy" /\ v.attempts < MaxAttempts
                       /\ v.attempts <= failures["video"]
    <2>1. At("video", w, "check") /\ "check" \in Steps \ ({"idle"} \cup Unsettled)
      BY DEF CheckHold, Steps, Unsettled
    <2>2. QED
      BY <1>1, <2>1, RunningAt, Busy DEF Undisturbed
  <1>5. \/ SetRow("video", DeadLetter(v)) /\ Becomes("video", w, Idle)
        \/ SetRow("video", Planned(v, 1)) /\ Becomes("video", w, Idle)
        \/ Becomes("video", w, state) /\ UNCHANGED row
    BY DEF CheckHold
  <1>6. CASE SetRow("video", DeadLetter(v)) /\ Becomes("video", w, Idle)
    <2>1. /\ DeadLetter(v) \in Row /\ DeadLetter(v).status = "failed"
          /\ DeadLetter(v).attempts = v.attempts
      BY <1>1, DeadRow
    <2>2. row'["video"] = DeadLetter(v)
      BY <1>1, <1>6, <2>1, RowSet
    <2>3. ASSUME Undisturbed PROVE JobInv("video")'
      <3>1. row'["video"].attempts \in 0..MaxAttempts /\ row'["video"].status # "busy"
        <4>1. v.attempts \in Nat /\ v.attempts < MaxAttempts
          BY <1>1, <1>4, <2>3 DEF Row
        <4>2. row'["video"].attempts = v.attempts /\ row'["video"].status = "failed"
          BY <2>1, <2>2
        <4>3. QED
          BY <4>1, <4>2
      <3>2. QED
        BY <1>1, <1>3, <1>4, <1>6, <2>3, <3>1, IdleState, JobEnds
    <2>4. QED
      BY <1>3, <1>4, <1>6, <2>1, <2>3, IdleState, VideoRun
  <1>7. CASE SetRow("video", Planned(v, 1)) /\ Becomes("video", w, Idle)
    <2>1. /\ Planned(v, 1) \in Row /\ Planned(v, 1).status = v.status
          /\ Planned(v, 1).attempts = v.attempts /\ Planned(v, 1).planned
      BY <1>1, PlannedRow
    <2>2. row'["video"] = Planned(v, 1)
      BY <1>1, <1>7, <2>1, RowSet
    <2>3. ASSUME Undisturbed PROVE JobInv("video")'
      <3>1. /\ row'["video"].attempts \in 0..MaxAttempts /\ row'["video"].attempts < MaxAttempts
            /\ row'["video"].attempts <= failures'["video"] /\ row'["video"].planned
        BY <1>1, <1>3, <1>4, <2>1, <2>2, <2>3 DEF Row
      <3>2. QED
        BY <1>1, <1>3, <1>4, <1>7, <2>3, <3>1, IdleState, JobEnds
    <2>4. QED
      BY <1>3, <1>4, <1>7, <2>1, <2>3, IdleState, VideoRun
  <1>8. CASE Becomes("video", w, state) /\ UNCHANGED row
    <2>1. SetRow("video", v)
      BY <1>8 DEF SetRow, Types
    <2>2. ASSUME Undisturbed PROVE JobInv("video")'
      <3>1. state.step \notin {"idle"} \cup Unsettled
        BY <1>2 DEF Unsettled
      <3> HIDE DEF state
      <3>2. QED
        BY <1>1, <1>2, <1>3, <1>4, <1>8, <2>2, <3>1, JobGoesOn
    <2> HIDE DEF state
    <2>3. QED
      BY <1>1, <1>2, <1>3, <1>4, <1>8, <2>1, <2>2, VideoRun
  <1>9. QED
    BY <1>5, <1>6, <1>7, <1>8

\* The result is put in place,
LEMMA ReplaceStep ==
  ASSUME Types, NEW w \in Workers, Replace(w)
  PROVE  Types' /\ (Undisturbed /\ ~overtaken' => Undisturbed')
  <1>1. "video" \in Jobs /\ "replaced" \in Steps /\ row["video"] \in Row
    BY DEF Types, Jobs, Steps
  <1>2. To("video", w, "replaced") /\ At("video", w, "run")
    BY DEF Replace
  <1>3. PICK state \in WorkerState :
          /\ Becomes("video", w, state)
          /\ state.step = "replaced" /\ state.ran = worker["video"][w].ran
    BY <1>1, <1>2, WorkerTo
  <1>4. /\ UNCHANGED <<row, queue, sweep, asked, retries, faults, failures, overtaken>>
        /\ file' \in [Places -> BOOLEAN] /\ file'["quarantine"] = file["quarantine"]
        /\ failures' \in [Jobs -> Nat] /\ stranded' \in BOOLEAN
    BY DEF Replace, Types, Places
  <1>5. SetRow("video", row["video"])
    BY <1>4 DEF SetRow, Types
  <1>6. ASSUME Undisturbed
        PROVE  /\ w \in Running("video") /\ JobInv("video")'
               /\ row["video"].status # "none"
    <2>1. w \in Running("video") /\ UnderWay("video")
      BY <1>1, <1>2, RunningAt DEF Steps, Unsettled
    <2>2. JobInv("video") /\ row["video"].status = "busy"
      BY <1>1, <1>6, <2>1, Busy DEF Undisturbed
    <2>3. JobInv("video")'
      BY <1>1, <1>3, <1>4, <2>1, <2>2, JobGoesOn DEF Unsettled
    <2>4. QED
      BY <2>1, <2>2, <2>3
  <1>7. QED
    BY <1>1, <1>3, <1>4, <1>5, <1>6, VideoRun

\* and the run ends well.
LEMMA ReadyStep ==
  ASSUME Types, NEW w \in Workers, Ready(w)
  PROVE  Types' /\ (Undisturbed /\ ~overtaken' => Undisturbed')
  <1> DEFINE v == row["video"]
             r == [v EXCEPT !.status = "done", !.age = 0]
  <1>1. "video" \in Jobs /\ v \in Row
    BY DEF Types, Jobs
  <1>2. r \in Row /\ r.status = "done" /\ r.attempts = v.attempts
    <2>1. 0 \in 0..StaleAfter + 1
      OBVIOUS
    <2>2. QED
      BY <1>1, <2>1, Zenon DEF Row
  <1>3. SetRow("video", r) /\ Becomes("video", w, Idle) /\ At("video", w, "replaced")
    BY DEF Ready
  <1>4. /\ UNCHANGED <<file, queue, sweep, asked, retries, faults, failures, stranded, overtaken>>
        /\ file' \in [Places -> BOOLEAN] /\ failures' \in [Jobs -> Nat] /\ stranded' \in BOOLEAN
    BY DEF Ready, Types
  <1> HIDE DEF r
  <1>5. ASSUME Undisturbed PROVE w \in Running("video") /\ JobInv("video")'
    <2>1. w \in Running("video") /\ UnderWay("video")
      BY <1>1, <1>3, RunningAt DEF Steps, Unsettled
    <2>2. JobInv("video") /\ v.attempts < MaxAttempts
      BY <1>1, <1>5, <2>1, Busy DEF Undisturbed
    <2>3. row'["video"] = r
      BY <1>1, <1>2, <1>3, RowSet
    <2>4. v.attempts \in 0..MaxAttempts
      BY <1>1, <2>2 DEF Row
    <2>5. JobInv("video")'
      BY <1>1, <1>2, <1>3, <1>4, <2>1, <2>2, <2>3, <2>4, IdleState, JobEnds
    <2>6. QED
      BY <2>1, <2>5
  <1>6. QED
    BY <1>1, <1>2, <1>3, <1>4, <1>5, IdleState, VideoRun

\* What was read before ffmpeg is what the row still says: one failure more
LEMMA FailVideoStep ==
  ASSUME Types, NEW w \in Workers, FailVideo(w)
  PROVE  Types' /\ (Undisturbed /\ ~overtaken' => Undisturbed')
  <1> DEFINE v == row["video"]
             n == worker["video"][w].seen
             r == Counted(v, n)
  <1>1. "video" \in Jobs /\ v \in Row /\ n \in Nat
    BY DEF Types, Jobs, WorkerState
  <1>2. /\ r \in Row /\ r.attempts = n + 1
        /\ n + 1 < MaxAttempts => r.status = v.status /\ r.planned
        /\ n + 1 >= MaxAttempts => r.status = "failed"
    <2> HIDE DEF n
    <2>1. QED
      BY <1>1, CountedRow
  <1>3. SetRow("video", r) /\ Becomes("video", w, Idle) /\ At("video", w, "run") /\ Failed("video")
    BY DEF FailVideo
  <1>4. /\ UNCHANGED <<file, queue, sweep, asked, retries, faults, stranded, overtaken>>
        /\ file' \in [Places -> BOOLEAN] /\ stranded' \in BOOLEAN
    BY DEF FailVideo, Types
  <1>5. /\ failures' \in [Jobs -> Nat] /\ failures'["scan"] = failures["scan"]
        /\ failures'["video"] = OneMore(failures["video"])
    BY <1>1, <1>3, FailureCounted DEF Jobs
  <1> HIDE DEF r, n
  <1>6. ASSUME Undisturbed
        PROVE  w \in Running("video") /\ JobInv("video")' /\ r.status # "none"
    <2>1. w \in Running("video") /\ UnderWay("video")
      BY <1>1, <1>3, RunningAt DEF Steps, Unsettled
    <2>2. /\ JobInv("video") /\ v.status = "busy"
          /\ v.attempts < MaxAttempts /\ v.attempts <= failures["video"]
      BY <1>1, <1>6, <2>1, Busy DEF Undisturbed
    <2>3. n = v.attempts
      BY <1>3, <1>6 DEF Undisturbed, SeenInv, n
    <2>4. row'["video"] = r
      BY <1>1, <1>2, <1>3, RowSet
    <2>5. failures["video"] \in Nat
      BY <1>1 DEF Types
    <2>6. n + 1 <= failures'["video"] /\ n + 1 \in 0..MaxAttempts
      <3>1. n <= failures["video"] /\ n < MaxAttempts
        BY <2>2, <2>3
      <3>2. n + 1 <= OneMore(failures["video"])
        BY <1>1, <2>5, <3>1, OneMoreThan
      <3>3. QED
        BY <1>1, <1>5, <3>1, <3>2
    <2>7. JobInv("video")'
      <3>1. row'["video"].attempts \in 0..MaxAttempts
        BY <1>2, <2>4, <2>6
      <3>2. row'["video"].status = "busy" =>
              /\ row'["video"].attempts < MaxAttempts /\ row'["video"].planned
              /\ row'["video"].attempts <= failures'["video"]
        BY <1>1, <1>2, <2>4, <2>6
      <3>3. QED
        BY <1>1, <1>3, <1>4, <2>1, <2>2, <3>1, <3>2, IdleState, JobEnds
    <2>8. QED
      BY <1>1, <1>2, <2>1, <2>2, <2>7
  <1>7. QED
    BY <1>1, <1>2, <1>3, <1>4, <1>5, <1>6, IdleState, VideoRun

\* What a scan's run writes
LEMMA ScanRun ==
  ASSUME Types, NEW w \in Workers, NEW r \in Row, NEW state \in WorkerState,
         SetRow("scan", r), Becomes("scan", w, state),
         file' \in [Places -> BOOLEAN],
         failures' \in [Jobs -> Nat], failures'["video"] = failures["video"],
         stranded' \in BOOLEAN,
         UNCHANGED <<queue, sweep, asked, retries, faults, overtaken>>
  PROVE  /\ Types'
         /\ Undisturbed /\ row["video"].status # "none" /\ JobInv("scan")' /\ VerdictInv'
            => Undisturbed'
  <1>1. row' \in [Jobs -> Row] /\ row'["scan"] = r /\ row'["video"] = row["video"]
    BY RowSet DEF Jobs
  <1>2. /\ worker' \in [Jobs -> [Workers -> WorkerState]]
        /\ worker'["video"] = worker["video"]
    BY WorkerSet DEF Jobs
  <1>3. Types'
    BY <1>1, <1>2 DEF Types
  <1>4. ASSUME Undisturbed, row["video"].status # "none", JobInv("scan")', VerdictInv'
        PROVE  Undisturbed'
    <2>1. JobInv("video")'
      BY <1>1, <1>2, <1>4, JobFrame DEF Undisturbed, Jobs
    <2>2. SeenInv' /\ NewInv'
      BY <1>1, <1>2, <1>4, SeenFrame DEF Undisturbed, NewInv
    <2>3. QED
      BY <1>4, <2>1, <2>2 DEF Undisturbed, Jobs
  <1>5. QED
    BY <1>3, <1>4

\* Only the one run of a scan that is busy comes to a verdict.
LEMMA ScannedStep ==
  ASSUME Types, NEW w \in Workers, Scanned(w)
  PROVE  Types' /\ (Undisturbed /\ ~overtaken' => Undisturbed')
  <1> DEFINE v == row["scan"]
             r == [v EXCEPT !.status = "infected"]
  <1>1. "scan" \in Jobs /\ v \in Row /\ {"check", "stampClean", "quarantine"} \subseteq Steps
    BY DEF Types, Jobs, Steps
  <1>2. r \in Row /\ r.status = "infected" /\ r.attempts = v.attempts
    BY <1>1, Zenon DEF Row
  <1>3. /\ At("scan", w, "check")
        /\ UNCHANGED <<queue, sweep, asked, retries, faults, failures, overtaken>>
        /\ failures' \in [Jobs -> Nat]
    BY DEF Scanned, Types
  <1>4. Undisturbed => /\ w \in Running("scan") /\ JobInv("scan") /\ VerdictInv
                       /\ v.status = "busy" /\ row["video"].status # "none"
                       /\ v.attempts \in 0..MaxAttempts
    <2>1. w \in Running("scan") /\ UnderWay("scan")
      BY <1>1, <1>3, RunningAt DEF Unsettled
    <2>2. v.attempts \in Nat
      BY <1>1 DEF Row
    <2>3. QED
      BY <1>1, <2>1, <2>2, Busy DEF Undisturbed
  <1>5. /\ \/ UNCHANGED row /\ To("scan", w, "stampClean")
           \/ SetRow("scan", r) /\ To("scan", w, "quarantine")
        /\ UNCHANGED <<file, stranded>> \/ MoveTo(ReleaseHold)
    BY DEF Scanned
  <1> HIDE DEF r
  <1>6. /\ file' \in [Places -> BOOLEAN] /\ file'["quarantine"] = file["quarantine"]
        /\ stranded' \in BOOLEAN
    BY <1>5, FileType, MoveType DEF Types
  <1>7. CASE UNCHANGED row /\ To("scan", w, "stampClean")
    <2>1. PICK state \in WorkerState :
            /\ Becomes("scan", w, state)
            /\ state.step = "stampClean" /\ state.ran = worker["scan"][w].ran
      BY <1>1, <1>7, WorkerTo
    <2>2. SetRow("scan", v)
      BY <1>7 DEF SetRow, Types
    <2>3. ASSUME Undisturbed PROVE JobInv("scan")'
      BY <1>1, <1>3, <1>4, <1>7, <2>1, <2>3, JobGoesOn DEF Unsettled
    <2>4. ASSUME Undisturbed PROVE VerdictInv'
      <3>1. \A x \in Workers : \/ worker'["scan"][x].step = worker["scan"][x].step
                               \/ worker'["scan"][x].step \notin LockSteps
        BY <1>1, <2>1, WorkerSet DEF LockSteps
      <3>2. QED
        BY <1>3, <1>4, <1>6, <1>7, <2>4, <3>1, VerdictKept
    <2>5. QED
      BY <1>1, <1>3, <1>4, <1>6, <2>1, <2>2, <2>3, <2>4, ScanRun
  <1>8. CASE SetRow("scan", r) /\ To("scan", w, "quarantine")
    <2>1. PICK state \in WorkerState : Becomes("scan", w, state) /\ state.step = "quarantine"
      BY <1>1, <1>8, WorkerTo
    <2>2. row'["scan"] = r
      BY <1>1, <1>2, <1>8, RowSet
    <2>3. ASSUME Undisturbed PROVE JobInv("scan")'
      BY <1>1, <1>2, <1>3, <1>4, <2>1, <2>2, <2>3, JobEnds DEF Unsettled
    <2>4. ASSUME Undisturbed PROVE VerdictInv'
      <3>1. /\ worker'["scan"][w].step = "quarantine"
            /\ \A x \in Workers \ {w} : worker'["scan"][x] = worker["scan"][x]
        BY <1>1, <2>1, WorkerSet
      <3>2. ~file["quarantine"]
        BY <1>4, <2>4 DEF VerdictInv
      <3>3. StepInv(worker["scan"][w].step)'
        BY <1>2, <1>6, <2>2, <3>1, <3>2 DEF StepInv
      <3>4. QED
        BY <1>3, <1>4, <1>6, <2>4, <3>1, <3>3, VerdictOfRun
    <2>5. QED
      BY <1>2, <1>3, <1>4, <1>6, <1>8, <2>1, <2>3, <2>4, ScanRun
  <1>9. QED
    BY <1>5, <1>7, <1>8

\* A clean scan ends its run.
LEMMA StampCleanStep ==
  ASSUME Types, NEW w \in Workers, StampClean(w)
  PROVE  Types' /\ (Undisturbed /\ ~overtaken' => Undisturbed')
  <1> DEFINE v == row["scan"]
             r == [v EXCEPT !.status = "done", !.age = 0]
  <1>1. "scan" \in Jobs /\ v \in Row /\ "stampClean" \in Steps
    BY DEF Types, Jobs, Steps
  <1>2. r \in Row /\ r.status = "done" /\ r.attempts = v.attempts
    <2>1. 0 \in 0..StaleAfter + 1
      OBVIOUS
    <2>2. QED
      BY <1>1, <2>1, Zenon DEF Row
  <1>3. SetRow("scan", r) /\ Becomes("scan", w, Idle) /\ At("scan", w, "stampClean")
    BY DEF StampClean
  <1>4. /\ UNCHANGED <<file, queue, sweep, asked, retries, faults, failures, stranded, overtaken>>
        /\ file' \in [Places -> BOOLEAN] /\ failures' \in [Jobs -> Nat] /\ stranded' \in BOOLEAN
    BY DEF StampClean, Types
  <1> HIDE DEF r
  <1>5. ASSUME Undisturbed
        PROVE  row["video"].status # "none" /\ JobInv("scan")' /\ VerdictInv'
    <2>1. w \in Running("scan") /\ UnderWay("scan")
      BY <1>1, <1>3, RunningAt DEF Unsettled
    <2>2. /\ JobInv("scan") /\ v.attempts < MaxAttempts /\ v.status = "busy"
          /\ row["video"].status # "none"
      BY <1>1, <1>5, <2>1, Busy DEF Undisturbed
    <2>3. row'["scan"] = r
      BY <1>1, <1>2, <1>3, RowSet
    <2>4. v.attempts \in 0..MaxAttempts
      BY <1>1, <2>2 DEF Row
    <2>5. JobInv("scan")'
      BY <1>1, <1>2, <1>3, <1>4, <2>1, <2>2, <2>3, <2>4, IdleState, JobEnds
    <2>6. /\ worker'["scan"][w].step = "idle"
          /\ \A x \in Workers \ {w} : worker'["scan"][x] = worker["scan"][x]
      BY <1>1, <1>3, IdleState, WorkerSet
    <2>7. StepInv(worker["scan"][w].step)'
      BY <2>6 DEF StepInv
    <2>8. VerdictInv'
      BY <1>4, <1>5, <2>2, <2>6, <2>7, VerdictOfRun DEF Undisturbed
    <2>9. QED
      BY <2>2, <2>5, <2>8
  <1>6. QED
    BY <1>2, <1>3, <1>4, <1>5, IdleState, ScanRun

\* A failed scan is counted; the last one asks for the file to be locked or let go.
LEMMA FailScanStep ==
  ASSUME Types, NEW w \in Workers, FailScan(w)
  PROVE  Types' /\ (Undisturbed /\ ~overtaken' => Undisturbed')
  <1> DEFINE v == row["scan"]
             n == v.attempts
             r == Counted(v, n)
  <1>1. "scan" \in Jobs /\ v \in Row /\ n \in Nat
    BY DEF Types, Jobs, Row
  <1>2. /\ r \in Row /\ r.attempts = n + 1
        /\ n + 1 < MaxAttempts => r.status = v.status /\ r.planned
        /\ n + 1 >= MaxAttempts => r.status = "failed"
    <2> HIDE DEF n
    <2>1. QED
      BY <1>1, CountedRow
  <1>3. SetRow("scan", r) /\ At("scan", w, "check") /\ Failed("scan")
    BY DEF FailScan
  <1>4. /\ UNCHANGED <<file, queue, sweep, asked, retries, faults, stranded, overtaken>>
        /\ file' \in [Places -> BOOLEAN] /\ stranded' \in BOOLEAN
    BY DEF FailScan, Types
  <1>5. /\ failures' \in [Jobs -> Nat] /\ failures'["video"] = failures["video"]
        /\ failures'["scan"] = OneMore(failures["scan"])
    BY <1>1, <1>3, FailureCounted DEF Jobs
  <1>6. PICK state \in WorkerState :
          /\ Becomes("scan", w, state)
          /\ state.step \in {"idle", "lock", "release"}
          /\ state.step # "idle" => r.status = "failed"
    <2>1. PICK step \in AfterScanFailure(r) :
            Becomes("scan", w, IF step = "idle" THEN Idle ELSE [worker["scan"][w] EXCEPT !.step = step])
      BY DEF FailScan
    <2>2. step \in {"idle", "lock", "release"} /\ (step # "idle" => r.status = "failed")
      BY DEF AfterScanFailure
    <2>3. CASE step = "idle"
      BY <2>1, <2>3, IdleState
    <2>4. CASE step # "idle"
      <3>1. step \in Steps /\ worker["scan"][w] \in WorkerState
        BY <1>1, <2>2 DEF Steps, Types
      <3>2. To("scan", w, step)
        BY <2>1, <2>4 DEF To
      <3>3. QED
        BY <1>1, <2>2, <2>4, <3>1, <3>2, WorkerTo
    <2>5. QED
      BY <2>3, <2>4
  <1> HIDE DEF r
  <1>7. ASSUME Undisturbed
        PROVE  row["video"].status # "none" /\ JobInv("scan")' /\ VerdictInv'
    <2>1. w \in Running("scan") /\ UnderWay("scan")
      BY <1>1, <1>3, RunningAt DEF Steps, Unsettled
    <2>2. /\ JobInv("scan") /\ v.status = "busy" /\ row["video"].status # "none"
          /\ n < MaxAttempts /\ n <= failures["scan"]
      BY <1>1, <1>7, <2>1, Busy DEF Undisturbed
    <2>3. row'["scan"] = r
      BY <1>1, <1>2, <1>3, RowSet
    <2>4. failures["scan"] \in Nat
      BY <1>1 DEF Types
    <2> HIDE DEF n
    <2>5. n + 1 <= failures'["scan"] /\ n + 1 \in 0..MaxAttempts
      <3>1. n + 1 <= OneMore(failures["scan"])
        BY <1>1, <2>2, <2>4, OneMoreThan
      <3>2. QED
        BY <1>1, <1>5, <2>2, <3>1
    <2>6. JobInv("scan")'
      <3>1. row'["scan"].attempts \in 0..MaxAttempts
        BY <1>2, <2>3, <2>5
      <3>2. row'["scan"].status = "busy" =>
              /\ row'["scan"].attempts < MaxAttempts /\ row'["scan"].planned
              /\ row'["scan"].attempts <= failures'["scan"]
        BY <1>1, <1>2, <2>3, <2>5
      <3>3. state.step \in {"idle"} \cup Unsettled
        BY <1>6 DEF Unsettled
      <3>4. QED
        BY <1>1, <1>4, <1>6, <2>1, <2>2, <3>1, <3>2, <3>3, JobEnds
    <2>7. /\ worker'["scan"][w] = state
          /\ \A x \in Workers \ {w} : worker'["scan"][x] = worker["scan"][x]
      BY <1>1, <1>6, WorkerSet
    <2>8. StepInv(worker["scan"][w].step)'
      BY <1>6, <2>3, <2>7 DEF StepInv
    <2>9. VerdictInv'
      BY <1>4, <1>7, <2>2, <2>7, <2>8, VerdictOfRun DEF Undisturbed
    <2>10. QED
      BY <2>2, <2>6, <2>9
  <1>8. QED
    BY <1>2, <1>3, <1>4, <1>5, <1>6, <1>7, ScanRun

-----------------------------------------------------------------------------
(* Carrying a verdict out *)

\* What is written and moved for a verdict, by whoever carries it out
LEMMA Settling ==
  ASSUME Types, NEW step \in Unsettled, row' = SettledRow(step), MoveTo(SettledFile(step))
  PROVE  /\ row' \in [Jobs -> Row] /\ file' \in [Places -> BOOLEAN] /\ stranded' \in BOOLEAN
         /\ row'["video"] = row["video"] /\ row'["scan"].attempts = row["scan"].attempts
         /\ step # "lock" => row' = row
         /\ step = "lock" => row'["scan"].status = "infected"
         /\ step # "quarantine" => file'["quarantine"] = file["quarantine"]
         /\ AfterSettled(step) \in {"idle", "quarantine"}
         /\ AfterSettled(step) = "quarantine" => step = "lock"
  <1>1. "scan" \in Jobs /\ "video" \in Jobs /\ "scan" # "video" /\ row["scan"] \in Row
    BY DEF Types, Jobs
  <1>2. file' \in [Places -> BOOLEAN] /\ stranded' \in BOOLEAN
    BY FileType, MoveType
  <1>3. step # "quarantine" => file'["quarantine"] = file["quarantine"]
    <2>1. step # "quarantine" => SettledFile(step)["quarantine"] = file["quarantine"]
      BY FileType DEF SettledFile
    <2>2. QED
      BY <2>1, FileType, MoveType
  <1> DEFINE r == [row["scan"] EXCEPT !.status = "infected"]
  <1>4. r \in Row /\ r.status = "infected" /\ r.attempts = row["scan"].attempts
    BY <1>1, Zenon DEF Row
  <1>5. row' = IF step = "lock" THEN [row EXCEPT !["scan"] = r] ELSE row
    BY DEF SettledRow
  <1> HIDE DEF r
  <1>6. QED
    BY <1>1, <1>2, <1>3, <1>4, <1>5 DEF AfterSettled, Types

\* A worker carries a verdict out,
LEMMA SettleScanStep ==
  ASSUME Types, NEW w \in Workers, SettleScan(w)
  PROVE  Types' /\ (Undisturbed /\ ~overtaken' => Undisturbed')
  <1> DEFINE step == worker["scan"][w].step
  <1>1. /\ step \in Unsettled /\ row' = SettledRow(step) /\ MoveTo(SettledFile(step))
        /\ To("scan", w, AfterSettled(step))
        /\ UNCHANGED <<queue, sweep, asked, retries, faults, failures, overtaken>>
    BY DEF SettleScan
  <1> HIDE DEF step
  <1>2. /\ row' \in [Jobs -> Row] /\ file' \in [Places -> BOOLEAN] /\ stranded' \in BOOLEAN
        /\ row'["video"] = row["video"] /\ row'["scan"].attempts = row["scan"].attempts
        /\ step # "lock" => row' = row
        /\ step = "lock" => row'["scan"].status = "infected"
        /\ step # "quarantine" => file'["quarantine"] = file["quarantine"]
        /\ AfterSettled(step) \in {"idle", "quarantine"}
        /\ AfterSettled(step) = "quarantine" => step = "lock"
    BY <1>1, Settling
  <1>3. "scan" \in Jobs /\ AfterSettled(step) \in Steps
    BY <1>2 DEF Jobs, Steps
  <1>4. PICK state \in WorkerState : Becomes("scan", w, state) /\ state.step = AfterSettled(step)
    BY <1>1, <1>3, WorkerTo
  <1>5. /\ worker' \in [Jobs -> [Workers -> WorkerState]]
        /\ worker'["video"] = worker["video"]
        /\ worker'["scan"][w].step = AfterSettled(step)
        /\ \A v \in Workers \ {w} : worker'["scan"][v] = worker["scan"][v]
        /\ Running("scan")' = Running("scan") \ {w}
    <2>1. state.step \in {"idle"} \cup Unsettled
      BY <1>2, <1>4 DEF Unsettled
    <2>2. QED
      BY <1>3, <1>4, <2>1, WorkerSet DEF Jobs
  <1>6. w \notin Running("scan")
    BY <1>1 DEF Running, step
  <1>7. Types'
    BY <1>1, <1>2, <1>5 DEF Types
  <1>8. ASSUME Undisturbed PROVE Undisturbed'
    <2>1. JobInv("video")'
      BY <1>1, <1>2, <1>5, <1>8, JobFrame DEF Undisturbed, Jobs
    <2>2. step = "lock" => row["scan"].status = "failed"
      BY <1>8 DEF Undisturbed, VerdictInv, StepInv, step
    <2>3. JobInv("scan")'
      <3>1. /\ JobInv("scan") /\ failures'["scan"] \in Nat /\ failures["scan"] <= failures'["scan"]
            /\ Running("scan")' = Running("scan")
            /\ \A v \in Running("scan") : worker'["scan"][v].ran = worker["scan"][v].ran
        <4>1. JobInv("scan")
          BY <1>3, <1>8 DEF Undisturbed
        <4>2. failures["scan"] \in Nat /\ failures' = failures
          BY <1>1, <1>3 DEF Types
        <4>3. \A v \in Running("scan") : v \in Workers \ {w}
          BY <1>6 DEF Running
        <4>4. Running("scan")' = Running("scan")
          BY <1>5, <1>6
        <4>5. QED
          BY <1>5, <4>1, <4>2, <4>3, <4>4
      <3>2. CASE step = "lock"
        <4>1. row'["scan"].attempts \in 0..MaxAttempts
          BY <1>2, <1>3, <3>1 DEF JobInv, CountInv, Types, Row
        <4>2. QED
          BY <1>1, <1>2, <1>3, <2>2, <3>1, <3>2, <4>1, RestKept
      <3>3. CASE step # "lock"
        BY <1>1, <1>2, <1>3, <3>1, <3>3, JobKept
      <3>4. QED
        BY <3>2, <3>3
    <2>4. SeenInv'
      BY <1>2, <1>5, <1>8, SeenFrame DEF Undisturbed
    <2>5. NewInv'
      <3>1. step = "lock" => row["video"].status # "none"
        BY <1>8, <2>2 DEF Undisturbed, NewInv, Jobs
      <3>2. QED
        BY <1>2, <1>8, <3>1 DEF Undisturbed, NewInv
    <2>6. VerdictInv'
      <3>1. CASE step \notin LockSteps
        <4>1. \A v \in Workers : \/ worker'["scan"][v].step = worker["scan"][v].step
                                 \/ worker'["scan"][v].step \notin LockSteps
          BY <1>2, <1>5, <3>1 DEF LockSteps
        <4>2. QED
          BY <1>1, <1>2, <1>8, <3>1, <4>1, VerdictKept DEF Undisturbed, LockSteps
      <3>2. CASE step \in LockSteps
        <4>1. /\ sweep["scan"].step \notin LockSteps
              /\ \A v \in Workers \ {w} : worker["scan"][v].step \notin LockSteps
          BY <1>8, <3>2 DEF Undisturbed, VerdictInv, step
        <4>2. row'["scan"].status = "infected"
          BY <1>2, <1>8, <3>2 DEF Undisturbed, VerdictInv, StepInv, LockSteps, step
        <4>3. step = "lock" => ~file'["quarantine"]
          BY <1>2, <1>8, <2>2 DEF Undisturbed, VerdictInv
        <4>4. step = "quarantine" => worker'["scan"][w].step \notin LockSteps
          BY <1>2, <1>5 DEF LockSteps
        <4>5. worker'["scan"][w].step # "lock"
          BY <1>2, <1>5
        <4>6. QED
          BY <1>1, <1>5, <3>2, <4>1, <4>2, <4>3, <4>4, <4>5 DEF VerdictInv, StepInv, LockSteps
      <3>3. QED
        BY <3>1, <3>2
    <2>7. QED
      BY <2>1, <2>3, <2>4, <2>5, <2>6 DEF Undisturbed, Jobs
  <1>9. QED
    BY <1>7, <1>8

\* and so does the sweeper.
LEMMA SettleSweepStep ==
  ASSUME Types, SettleSweep
  PROVE  Types' /\ (Undisturbed /\ ~overtaken' => Undisturbed')
  <1> DEFINE step == sweep["scan"].step
  <1>1. /\ step \in Unsettled /\ row' = SettledRow(step) /\ MoveTo(SettledFile(step))
        /\ SweepTo("scan", AfterSettled(step))
        /\ UNCHANGED <<queue, worker, asked, retries, faults, failures, overtaken>>
    BY DEF SettleSweep
  <1> HIDE DEF step
  <1>2. /\ row' \in [Jobs -> Row] /\ file' \in [Places -> BOOLEAN] /\ stranded' \in BOOLEAN
        /\ row'["video"] = row["video"] /\ row'["scan"].attempts = row["scan"].attempts
        /\ step # "lock" => row' = row
        /\ step = "lock" => row'["scan"].status = "infected"
        /\ step # "quarantine" => file'["quarantine"] = file["quarantine"]
        /\ AfterSettled(step) \in {"idle", "quarantine"}
        /\ AfterSettled(step) = "quarantine" => step = "lock"
    BY <1>1, Settling
  <1>3. /\ "scan" \in Jobs
        /\ AfterSettled(step) \in {"idle", "listed", "send"} \cup Unsettled
    BY <1>2 DEF Jobs, Unsettled
  <1>4. /\ sweep' \in [Jobs -> [step: {"idle", "listed", "send"} \cup Unsettled, seen: Row]]
        /\ sweep'["scan"].step = AfterSettled(step) /\ sweep'["video"] = sweep["video"]
    BY <1>1, <1>3, SweepSet DEF Jobs
  <1>5. Types'
    BY <1>1, <1>2, <1>4 DEF Types
  <1>6. ASSUME Undisturbed PROVE Undisturbed'
    <2>1. JobInv("video")'
      BY <1>1, <1>2, <1>4, <1>6, JobFrame DEF Undisturbed, Jobs
    <2>2. step = "lock" => row["scan"].status = "failed"
      BY <1>6 DEF Undisturbed, VerdictInv, StepInv, step
    <2>3. JobInv("scan")'
      <3>1. /\ JobInv("scan") /\ Running("scan")' = Running("scan")
            /\ \A v \in Running("scan") : worker'["scan"][v].ran = worker["scan"][v].ran
        BY <1>1, <1>3, <1>6 DEF Undisturbed, Running
      <3>2. /\ failures'["scan"] \in Nat /\ failures["scan"] <= failures'["scan"]
            /\ sweep["scan"].step \notin {"listed", "send"}
            /\ sweep'["scan"].step \notin {"listed", "send"}
        BY <1>1, <1>2, <1>3, <1>4 DEF Types, step, Unsettled
      <3>3. CASE step = "lock"
        <4>1. row'["scan"].attempts \in 0..MaxAttempts
          BY <1>2, <1>3, <3>1 DEF JobInv, CountInv, Types, Row
        <4>2. QED
          BY <1>1, <1>2, <1>3, <2>2, <3>1, <3>2, <3>3, <4>1, RestKept
      <3>4. CASE step # "lock"
        BY <1>1, <1>2, <1>3, <3>1, <3>2, <3>4, JobKept
      <3>5. QED
        BY <3>3, <3>4
    <2>4. SeenInv'
      BY <1>1, <1>2, <1>6, SeenFrame DEF Undisturbed
    <2>5. NewInv'
      <3>1. step = "lock" => row["video"].status # "none"
        BY <1>6, <2>2 DEF Undisturbed, NewInv, Jobs
      <3>2. QED
        BY <1>2, <1>6, <3>1 DEF Undisturbed, NewInv
    <2>6. VerdictInv'
      <3>1. CASE step \notin LockSteps
        <4>1. sweep'["scan"].step \notin LockSteps
          BY <1>2, <1>4, <3>1 DEF LockSteps
        <4>2. QED
          BY <1>1, <1>2, <1>6, <3>1, <4>1, VerdictKept DEF Undisturbed, LockSteps
      <3>2. CASE step \in LockSteps
        <4>1. \A v \in Workers : worker["scan"][v].step \notin LockSteps
          BY <1>6, <3>2 DEF Undisturbed, VerdictInv, step
        <4>2. row'["scan"].status = "infected"
          BY <1>2, <1>6, <3>2 DEF Undisturbed, VerdictInv, StepInv, LockSteps, step
        <4>3. step = "lock" => ~file'["quarantine"]
          BY <1>2, <1>6, <2>2 DEF Undisturbed, VerdictInv
        <4>4. step = "quarantine" => sweep'["scan"].step \notin LockSteps
          BY <1>2, <1>4 DEF LockSteps
        <4>5. sweep'["scan"].step # "lock"
          BY <1>2, <1>4
        <4>6. QED
          BY <1>1, <3>2, <4>1, <4>2, <4>3, <4>4, <4>5 DEF VerdictInv, StepInv, LockSteps
      <3>3. QED
        BY <3>1, <3>2
    <2>7. QED
      BY <2>1, <2>3, <2>4, <2>5, <2>6 DEF Undisturbed, Jobs
  <1>7. QED
    BY <1>5, <1>6

-----------------------------------------------------------------------------
(* The sweepers *)

\* What a sweeper does to a job that is not under way, and to its own step
LEMMA SweepRun ==
  ASSUME Types, NEW j \in Jobs, NEW r \in Row, SetRow(j, r),
         sweep' \in [Jobs -> [step: {"idle", "listed", "send"} \cup Unsettled, seen: Row]],
         \A i \in Jobs \ {j} : sweep'[i] = sweep[i],
         queue' \in [Jobs -> Nat], \A i \in Jobs \ {j} : queue'[i] = queue[i],
         UNCHANGED <<file, worker, asked, retries, faults, failures, stranded, overtaken>>
  PROVE  /\ Types'
         /\ /\ Undisturbed /\ JobInv(j)' /\ r.status # "none" /\ row[j].status # "none"
            /\ j = "video" /\ r.attempts # row[j].attempts => Running(j) = {}
            /\ j = "scan" => VerdictInv'
            => Undisturbed'
  <1>1. row' \in [Jobs -> Row] /\ row'[j] = r /\ \A i \in Jobs \ {j} : row'[i] = row[i]
    BY RowSet
  <1>2. Types'
    BY <1>1 DEF Types
  <1>3. ASSUME Undisturbed, JobInv(j)', r.status # "none", row[j].status # "none",
               j = "video" /\ r.attempts # row[j].attempts => Running(j) = {},
               j = "scan" => VerdictInv'
        PROVE  Undisturbed'
    <2>1. \A i \in Jobs : JobInv(i)'
      BY <1>1, <1>3, JobFrame DEF Undisturbed
    <2>2. SeenInv'
      <3>1. CASE row'["video"].attempts = row["video"].attempts
        BY <1>3, <3>1, SeenFrame DEF Undisturbed
      <3>2. CASE row'["video"].attempts # row["video"].attempts
        <4>1. j = "video" /\ Running("video") = {}
          BY <1>1, <1>3, <3>2 DEF Jobs
        <4>2. QED
          BY <4>1 DEF SeenInv, At, Running, Unsettled
      <3>3. QED
        BY <3>1, <3>2
    <2>3. NewInv'
      <3>1. row["video"].status # "none"
        BY <1>3 DEF Undisturbed, NewInv, Jobs
      <3>2. row'["video"].status # "none"
        BY <1>1, <1>3, <3>1 DEF Jobs
      <3>3. QED
        BY <3>2 DEF NewInv
    <2>4. VerdictInv'
      <3>1. CASE j # "scan"
        <4>1. row'["scan"] = row["scan"] /\ sweep'["scan"] = sweep["scan"]
          BY <1>1, <3>1 DEF Jobs
        <4>2. QED
          BY <1>3, <4>1, VerdictFrame DEF Undisturbed
      <3>2. QED
        BY <1>3, <3>1
    <2>5. QED
      BY <2>1, <2>2, <2>3, <2>4 DEF Undisturbed
  <1>4. QED
    BY <1>2, <1>3

\* What is listed is due or abandoned, so no run of it is left
LEMMA ListedRests ==
  ASSUME Types, NEW j \in Jobs, JobInv(j), Due(row[j]) \/ Stale(row[j])
  PROVE  /\ ~UnderWay(j) /\ Running(j) = {} /\ ~Waits(j)
         /\ queue[j] = 0 /\ ~SweepAt(j, "send")
  <1>1. ~UnderWay(j)
    BY NotListed
  <1>2. queue[j] \in Nat
    BY DEF Types
  <1>3. QED
    BY <1>1, <1>2 DEF UnderWay, Waits

\* What is listed is due or abandoned, so nothing of it is under way.
LEMMA ListStep ==
  ASSUME Types, NEW j \in Jobs, List(j)
  PROVE  Types' /\ (Undisturbed /\ ~overtaken' => Undisturbed')
  <1> DEFINE s == [step |-> "listed", seen |-> row[j]]
  <1>1. row[j] \in Row /\ row[j].status = "busy" /\ SweepAt(j, "idle") /\ (Due(row[j]) \/ Stale(row[j]))
    BY DEF List, Types
  <1>2. s \in [step: {"idle", "listed", "send"} \cup Unsettled, seen: Row]
    BY <1>1
  <1>3. /\ UNCHANGED <<row, file, queue, worker, asked, retries, faults, failures, stranded, overtaken>>
        /\ sweep' = [sweep EXCEPT ![j] = s]
    BY DEF List
  <1>4. /\ sweep' \in [Jobs -> [step: {"idle", "listed", "send"} \cup Unsettled, seen: Row]]
        /\ sweep'[j].step = "listed" /\ sweep'[j].seen = row[j]
        /\ \A i \in Jobs \ {j} : sweep'[i] = sweep[i]
    <2>1. s.step = "listed" /\ s.seen = row[j]
      OBVIOUS
    <2> HIDE DEF s
    <2>2. QED
      BY <1>2, <1>3, <2>1 DEF Types
  <1>5. SetRow(j, row[j])
    BY <1>3 DEF SetRow, Types
  <1>6. queue' \in [Jobs -> Nat] /\ \A i \in Jobs \ {j} : queue'[i] = queue[i]
    BY <1>3 DEF Types
  <1>7. ASSUME Undisturbed
        PROVE  JobInv(j)' /\ (j = "scan" => VerdictInv')
    <2>1. JobInv(j) /\ VerdictInv
      BY <1>7 DEF Undisturbed
    <2>2. ~SweepAt(j, "send")' /\ ~SweepAt(j, "send")
      BY <1>1, <1>4 DEF SweepAt
    <2>3. (Waits(j)' <=> Waits(j)) /\ Running(j)' = Running(j) /\ (UnderWay(j)' <=> UnderWay(j))
      BY <1>3, <2>2 DEF Waits, Running, UnderWay
    <2>4. OneInv(j)' /\ UnderWayInv(j)' /\ CountInv(j)'
      BY <1>3, <2>1, <2>2, <2>3 DEF JobInv, OneInv, UnderWayInv, CountInv
    <2>5. ListedInv(j)'
      <3>1. Due(row[j]) <=> row[j].planned
        BY <1>1 DEF Due, Stale
      <3>2. Due(row[j]) = row[j].planned
        <4>1. row[j].planned \in BOOLEAN /\ Due(row[j]) \in BOOLEAN
          BY <1>1 DEF Row, Due
        <4>2. QED
          BY <3>1, <4>1
      <3>3. QED
        BY <1>1, <1>3, <1>4, <3>2 DEF ListedInv
    <2>6. j = "scan" => VerdictInv'
      BY <1>3, <1>4, <2>1, VerdictKept DEF LockSteps
    <2>7. QED
      BY <2>1, <2>4, <2>5, <2>6 DEF JobInv
  <1>8. row[j].status # "none"
    BY <1>1
  <1>9. QED
    BY <1>1, <1>3, <1>4, <1>5, <1>6, <1>7, <1>8, SweepRun

\* What was planned is still planned, so the message that is sent is the only one
LEMMA RequeueStep ==
  ASSUME Types, NEW j \in Jobs, Requeue(j)
  PROVE  Types' /\ (Undisturbed /\ ~overtaken' => Undisturbed')
  <1> DEFINE r == Stamped(row[j])
  <1>1. /\ r \in Row /\ r.status = row[j].status /\ r.attempts = row[j].attempts
        /\ ~r.planned /\ r.age = 0
    BY StampedRow DEF Types
  <1>2. /\ SweepAt(j, "listed") /\ Due(sweep[j].seen) /\ SetRow(j, r) /\ SweepTo(j, "send")
        /\ UNCHANGED <<file, queue, worker, asked, retries, faults, failures, stranded, overtaken>>
    BY DEF Requeue
  <1> HIDE DEF r
  <1>3. /\ sweep' \in [Jobs -> [step: {"idle", "listed", "send"} \cup Unsettled, seen: Row]]
        /\ sweep'[j].step = "send"
        /\ \A i \in Jobs \ {j} : sweep'[i] = sweep[i]
    BY <1>2, SweepSet
  <1>4. queue' \in [Jobs -> Nat] /\ \A i \in Jobs \ {j} : queue'[i] = queue[i]
    BY <1>2 DEF Types
  <1>5. row'[j] = r
    BY <1>1, <1>2, RowSet
  <1>6. ASSUME Undisturbed
        PROVE  JobInv(j)' /\ row[j].status = "busy" /\ (j = "scan" => VerdictInv')
    <2>1. JobInv(j) /\ VerdictInv
      BY <1>6 DEF Undisturbed
    <2>2. row[j].status = "busy" /\ row[j].planned /\ (Due(row[j]) \/ Stale(row[j]))
      BY <1>2, <2>1 DEF JobInv, ListedInv
    <2>3. Running(j)' = {} /\ queue'[j] = 0 /\ SweepAt(j, "send")' /\ ~SweepAt(j, "listed")'
      BY <1>2, <1>3, <2>1, <2>2, ListedRests DEF Running, SweepAt
    <2>4. OneInv(j)' /\ ListedInv(j)' /\ UnderWay(j)'
      BY <2>3 DEF OneInv, ListedInv, UnderWay, Waits
    <2>5. UnderWayInv(j)' /\ CountInv(j)'
      BY <1>1, <1>2, <1>5, <2>1, <2>2, <2>3, <2>4 DEF JobInv, UnderWayInv, CountInv
    <2>6. j = "scan" => VerdictInv'
      <3>1. row'[j].status = row[j].status
        BY <1>1, <1>5
      <3>2. QED
        BY <1>2, <1>3, <2>1, <3>1, VerdictKept DEF LockSteps
    <2>7. QED
      BY <2>2, <2>4, <2>5, <2>6 DEF JobInv
  <1>7. QED
    BY <1>1, <1>2, <1>3, <1>4, <1>6, SweepRun

\* The message the sweeper stamped for is sent.
LEMMA SendAgainStep ==
  ASSUME Types, NEW j \in Jobs, SendAgain(j)
  PROVE  Types' /\ (Undisturbed /\ ~overtaken' => Undisturbed')
  <1>1. /\ SweepAt(j, "send") /\ SweepTo(j, "idle")
        /\ queue' = [queue EXCEPT ![j] = @ + 1]
        /\ UNCHANGED <<row, file, worker, asked, retries, faults, failures, stranded, overtaken>>
    BY DEF SendAgain
  <1>2. /\ sweep' \in [Jobs -> [step: {"idle", "listed", "send"} \cup Unsettled, seen: Row]]
        /\ sweep'[j].step = "idle"
        /\ \A i \in Jobs \ {j} : sweep'[i] = sweep[i]
    BY <1>1, SweepSet
  <1>3. /\ queue' \in [Jobs -> Nat] /\ queue'[j] = queue[j] + 1 /\ queue[j] \in Nat
        /\ \A i \in Jobs \ {j} : queue'[i] = queue[i]
    BY <1>1 DEF Types
  <1>4. SetRow(j, row[j]) /\ row[j] \in Row
    BY <1>1 DEF SetRow, Types
  <1>5. ASSUME Undisturbed
        PROVE  JobInv(j)' /\ row[j].status = "busy" /\ (j = "scan" => VerdictInv')
    <2>1. JobInv(j) /\ VerdictInv
      BY <1>5 DEF Undisturbed
    <2>2. Waits(j) /\ UnderWay(j)
      BY <1>1 DEF Waits, UnderWay
    <2>3. /\ Running(j)' = {} /\ Running(j) = {} /\ queue'[j] = 1
          /\ ~SweepAt(j, "send")' /\ ~SweepAt(j, "listed")'
      BY <1>1, <1>2, <1>3, <2>1, <2>2 DEF JobInv, OneInv, Running, SweepAt
    <2>4. OneInv(j)' /\ ListedInv(j)' /\ UnderWay(j)'
      BY <2>3 DEF OneInv, ListedInv, UnderWay, Waits
    <2>5. UnderWayInv(j)' /\ CountInv(j)'
      BY <1>1, <2>1, <2>2, <2>3, <2>4 DEF JobInv, UnderWayInv, CountInv
    <2>6. j = "scan" => VerdictInv'
      BY <1>1, <1>2, <2>1, VerdictKept DEF LockSteps
    <2>7. row[j].status = "busy"
      BY <2>1, <2>2 DEF JobInv, UnderWayInv
    <2>8. QED
      BY <2>4, <2>5, <2>6, <2>7 DEF JobInv
  <1>6. QED
    BY <1>1, <1>2, <1>3, <1>4, <1>5, SweepRun

\* What looked abandoned is: its last run came to nothing and is counted now
LEMMA AbandonStep ==
  ASSUME Types, NEW j \in Jobs, Abandon(j)
  PROVE  Types' /\ (Undisturbed /\ ~overtaken' => Undisturbed')
  <1> DEFINE n == sweep[j].seen.attempts
             r == Counted(row[j], n)
  <1>1. row[j] \in Row /\ n \in Nat
    BY DEF Types, Row
  <1>2. /\ r \in Row /\ r.attempts = n + 1
        /\ n + 1 < MaxAttempts => r.status = row[j].status /\ r.planned
        /\ n + 1 >= MaxAttempts => r.status = "failed"
    <2> HIDE DEF n
    <2>1. QED
      BY <1>1, CountedRow
  <1>3. /\ SweepAt(j, "listed") /\ ~Due(sweep[j].seen) /\ SetRow(j, r)
        /\ UNCHANGED <<file, queue, worker, asked, retries, faults, failures, stranded, overtaken>>
    BY DEF Abandon
  <1>4. PICK step \in {"idle", "lock", "release"} :
          SweepTo(j, step) /\ (step # "idle" => r.status = "failed")
    <2>1. PICK step \in IF j = "scan" THEN AfterScanFailure(r) ELSE {"idle"} : SweepTo(j, step)
      BY DEF Abandon
    <2>2. step \in {"idle", "lock", "release"} /\ (step # "idle" => r.status = "failed")
      BY DEF AfterScanFailure
    <2>3. QED
      BY <2>1, <2>2
  <1> HIDE DEF r, n
  <1>5. /\ sweep' \in [Jobs -> [step: {"idle", "listed", "send"} \cup Unsettled, seen: Row]]
        /\ sweep'[j].step = step
        /\ \A i \in Jobs \ {j} : sweep'[i] = sweep[i]
    BY <1>4, SweepSet DEF Unsettled
  <1>6. queue' \in [Jobs -> Nat] /\ \A i \in Jobs \ {j} : queue'[i] = queue[i]
    BY <1>3 DEF Types
  <1>7. row'[j] = r
    BY <1>1, <1>2, <1>3, RowSet
  <1>8. ASSUME Undisturbed
        PROVE  /\ JobInv(j)' /\ row[j].status = "busy" /\ Running(j) = {} /\ r.status # "none"
               /\ j = "scan" => VerdictInv'
    <2>1. JobInv(j) /\ VerdictInv
      BY <1>8 DEF Undisturbed
    <2>2. /\ row[j].status = "busy" /\ ~row[j].planned /\ (Due(row[j]) \/ Stale(row[j]))
          /\ n = row[j].attempts
      BY <1>3, <2>1 DEF JobInv, ListedInv, n
    <2>3. ~UnderWay(j) /\ Running(j) = {} /\ queue[j] = 0
      BY <2>1, <2>2, ListedRests
    <2>4. n < MaxAttempts /\ n < failures[j] /\ failures[j] \in Nat
      BY <2>1, <2>2, <2>3 DEF JobInv, CountInv, Types
    <2>5. /\ Running(j)' = {} /\ queue'[j] = 0
          /\ ~SweepAt(j, "send")' /\ ~SweepAt(j, "listed")'
      BY <1>3, <1>5, <2>3 DEF Running, SweepAt
    <2>6. OneInv(j)' /\ ListedInv(j)' /\ UnderWayInv(j)'
      BY <2>5 DEF OneInv, ListedInv, UnderWayInv, UnderWay, Waits
    <2>7. CountInv(j)'
      <3>1. n + 1 <= MaxAttempts /\ n + 1 <= failures'[j]
        BY <1>1, <1>3, <2>4
      <3>2. QED
        BY <1>1, <1>2, <1>7, <3>1 DEF CountInv
    <2>8. j = "scan" => VerdictInv'
      <3> SUFFICES ASSUME j = "scan" PROVE VerdictInv'
        OBVIOUS
      <3>1. ~file'["quarantine"]
        BY <1>3, <2>1, <2>2 DEF VerdictInv
      <3>2. \A w \in Workers : worker'["scan"][w].step \notin LockSteps
        BY <1>3, <2>1, <2>2 DEF VerdictInv, StepInv, LockSteps
      <3>3. StepInv(sweep["scan"].step)'
        BY <1>4, <1>5, <1>7 DEF StepInv
      <3>4. QED
        BY <3>1, <3>2, <3>3 DEF VerdictInv, StepInv, LockSteps
    <2>9. r.status # "none"
      BY <1>1, <1>2, <2>2
    <2>10. QED
      BY <2>1, <2>2, <2>3, <2>6, <2>7, <2>8, <2>9 DEF JobInv
  <1>9. QED
    BY <1>2, <1>3, <1>5, <1>6, <1>8, SweepRun

-----------------------------------------------------------------------------
(* Processes and time *)

\* A run that is killed is a failure that no attempt counts yet
LEMMA KillWorkerStep ==
  ASSUME Types, NEW j \in Jobs, NEW w \in Workers, KillWorker(j, w)
  PROVE  Types' /\ (Undisturbed /\ ~overtaken' => Undisturbed')
  <1>1. /\ worker[j][w].step # "idle" /\ Becomes(j, w, Idle) /\ Failed(j)
        /\ UNCHANGED <<row, file, queue, sweep, asked, retries, overtaken>>
        /\ faults' \in 0..MaxFaults /\ stranded' \in BOOLEAN
    <2>1. faults' \in 0..MaxFaults
      BY DEF KillWorker, Types
    <2>2. QED
      BY <2>1 DEF KillWorker
  <1>2. /\ worker' \in [Jobs -> [Workers -> WorkerState]]
        /\ worker'[j][w].step = "idle"
        /\ \A v \in Workers \ {w} : worker'[j][v] = worker[j][v]
        /\ \A i \in Jobs \ {j} : worker'[i] = worker[i]
        /\ Running(j)' = Running(j) \ {w}
    BY <1>1, IdleState, WorkerSet
  <1>3. /\ failures' \in [Jobs -> Nat] /\ \A i \in Jobs \ {j} : failures'[i] = failures[i]
        /\ failures'[j] = OneMore(failures[j])
    BY <1>1, FailureCounted
  <1>4. Types'
    BY <1>1, <1>2, <1>3 DEF Types
  <1>5. ASSUME Undisturbed PROVE Undisturbed'
    <2>1. ASSUME NEW i \in Jobs PROVE JobInv(i)'
      <3>1. CASE i # j
        BY <1>1, <1>2, <1>3, <1>5, <3>1, JobFrame DEF Undisturbed
      <3>2. CASE i = j /\ w \in Running(j)
        <4>1. JobInv(j) /\ UnderWay(j)
          BY <1>5, <3>2 DEF Undisturbed, UnderWay
        <4>2. row[j].attempts < MaxAttempts /\ row[j].attempts <= failures[j]
          BY <1>5, <4>1, Busy
        <4>3. row[j].attempts \in Nat /\ failures[j] \in Nat
          BY DEF Types, Row
        <4>4. row[j].attempts + 1 <= failures'[j] /\ failures'[j] \in Nat
          BY <1>3, <4>2, <4>3, OneMoreThan
        <4>5. /\ row'[j].attempts \in 0..MaxAttempts /\ row'[j].attempts < MaxAttempts
              /\ row'[j].attempts < failures'[j] /\ row'[j].attempts <= failures'[j]
          BY <1>1, <4>2, <4>3, <4>4
        <4>6. QED
          BY <1>1, <3>2, <4>1, <4>5, IdleState, JobEnds
      <3>3. CASE i = j /\ w \notin Running(j)
        <4>1. JobInv(j) /\ Running(j)' = Running(j)
          BY <1>2, <1>5, <3>3 DEF Undisturbed
        <4>2. \A v \in Running(j) : worker'[j][v].ran = worker[j][v].ran
          BY <1>2, <3>3 DEF Running
        <4>3. failures[j] <= failures'[j] /\ failures'[j] \in Nat
          <5>1. failures[j] \in Nat
            BY DEF Types
          <5>2. QED
            BY <1>3, <5>1 DEF OneMore
        <4>4. QED
          BY <1>1, <3>3, <4>1, <4>2, <4>3, JobKept
      <3>4. QED
        BY <3>1, <3>2, <3>3
    <2>2. SeenInv'
      <3>1. \A v \in Workers :
              At("video", v, "run")' =>
                At("video", v, "run") /\ worker'["video"][v] = worker["video"][v]
        BY <1>2 DEF At, Jobs
      <3>2. QED
        BY <1>1, <1>5, <3>1 DEF Undisturbed, SeenInv
    <2>3. NewInv'
      BY <1>1, <1>5 DEF Undisturbed, NewInv
    <2>4. VerdictInv'
      <3>1. \A v \in Workers : \/ worker'["scan"][v].step = worker["scan"][v].step
                               \/ worker'["scan"][v].step \notin LockSteps
        BY <1>2 DEF LockSteps, Jobs
      <3>2. QED
        BY <1>1, <1>5, <3>1, VerdictKept DEF Undisturbed
    <2>5. QED
      BY <2>1, <2>2, <2>3, <2>4 DEF Undisturbed
  <1>6. QED
    BY <1>4, <1>5

\* A sweeper killed before its message has lost it.
LEMMA KillSweepStep ==
  ASSUME Types, NEW j \in Jobs, KillSweep(j)
  PROVE  Types' /\ (Undisturbed /\ ~overtaken' => Undisturbed')
  <1>1. /\ SweepTo(j, "idle")
        /\ failures' = [failures EXCEPT ![j] = IF SweepAt(j, "send") THEN OneMore(@) ELSE @]
        /\ UNCHANGED <<row, file, queue, worker, asked, retries, overtaken>>
        /\ faults' \in 0..MaxFaults /\ stranded' \in BOOLEAN
    <2>1. faults' \in 0..MaxFaults
      BY DEF KillSweep, Types
    <2>2. QED
      BY <2>1 DEF KillSweep
  <1>2. /\ sweep' \in [Jobs -> [step: {"idle", "listed", "send"} \cup Unsettled, seen: Row]]
        /\ sweep'[j].step = "idle"
        /\ \A i \in Jobs \ {j} : sweep'[i] = sweep[i]
    BY <1>1, SweepSet
  <1>3. failures[j] \in Nat /\ OneMore(failures[j]) \in Nat /\ failures[j] <= OneMore(failures[j])
    <2>1. failures[j] \in Nat
      BY DEF Types
    <2>2. QED
      BY <2>1 DEF OneMore
  <1>4. /\ failures' \in [Jobs -> Nat] /\ \A i \in Jobs \ {j} : failures'[i] = failures[i]
        /\ SweepAt(j, "send") => failures'[j] = OneMore(failures[j])
        /\ failures[j] <= failures'[j]
    BY <1>1, <1>3 DEF Types
  <1>5. Types'
    BY <1>1, <1>2, <1>4 DEF Types
  <1>6. ASSUME Undisturbed PROVE Undisturbed'
    <2>1. ASSUME NEW i \in Jobs PROVE JobInv(i)'
      <3>1. CASE i # j
        BY <1>1, <1>2, <1>4, <1>6, <3>1, JobFrame DEF Undisturbed
      <3>2. CASE i = j
        <4>1. JobInv(j) /\ Running(j)' = Running(j) /\ ~SweepAt(j, "send")' /\ ~SweepAt(j, "listed")'
          BY <1>1, <1>2, <1>6 DEF Undisturbed, Running, SweepAt
        <4>2. OneInv(j)' /\ ListedInv(j)'
          BY <1>1, <4>1 DEF JobInv, OneInv, ListedInv, Waits
        <4>3. UnderWay(j)' => UnderWay(j)
          BY <1>1, <4>1 DEF UnderWay, Waits
        <4>4. UnderWay(j) => UnderWay(j)' \/ SweepAt(j, "send")
          BY <1>1, <4>1 DEF UnderWay, Waits
        <4>5. UnderWayInv(j)'
          BY <1>1, <4>1, <4>3 DEF JobInv, UnderWayInv
        <4>6. CountInv(j)'
          <5>1. row[j].attempts \in Nat /\ failures'[j] \in Nat
            BY <1>4 DEF Types, Row
          <5>2. ASSUME row[j].status = "busy" PROVE row[j].attempts <= failures'[j]
            BY <1>3, <1>4, <4>1, <5>1, <5>2 DEF JobInv, CountInv
          <5>3. ASSUME row[j].status = "busy", ~row[j].planned, ~UnderWay(j)'
                PROVE  row[j].attempts < failures'[j]
            <6>1. CASE SweepAt(j, "send")
              <7>1. row[j].attempts < MaxAttempts /\ row[j].attempts <= failures[j]
                BY <4>1, <5>3 DEF JobInv, CountInv
              <7>2. row[j].attempts + 1 <= OneMore(failures[j])
                BY <1>3, <5>1, <7>1, OneMoreThan
              <7>3. QED
                BY <1>3, <1>4, <5>1, <6>1, <7>2
            <6>2. CASE ~SweepAt(j, "send")
              <7>1. row[j].attempts < failures[j]
                BY <4>1, <4>4, <5>3, <6>2 DEF JobInv, CountInv
              <7>2. QED
                BY <1>3, <1>4, <5>1, <7>1
            <6>3. QED
              BY <6>1, <6>2
          <5>4. QED
            BY <1>1, <4>1, <5>2, <5>3 DEF JobInv, CountInv
        <4>7. QED
          BY <3>2, <4>2, <4>5, <4>6 DEF JobInv
      <3>3. QED
        BY <3>1, <3>2
    <2>2. SeenInv' /\ NewInv'
      BY <1>1, <1>6, SeenFrame DEF Undisturbed, NewInv
    <2>3. VerdictInv'
      <3>1. sweep'["scan"].step = sweep["scan"].step \/ sweep'["scan"].step \notin LockSteps
        BY <1>2 DEF LockSteps, Jobs
      <3>2. QED
        BY <1>1, <1>6, <3>1, VerdictKept DEF Undisturbed
    <2>4. QED
      BY <2>1, <2>2, <2>3 DEF Undisturbed
  <1>7. QED
    BY <1>5, <1>6

\* A run ends before it looks abandoned, and what waits does not wait so long
LEMMA TickStep ==
  ASSUME Types, Tick
  PROVE  Types' /\ (Undisturbed /\ ~overtaken' => Undisturbed')
  <1>1. /\ \A j \in Jobs, w \in Workers : worker[j][w].step # "idle" => worker[j][w].ran < QueueTimeout
        /\ overtaken' = (overtaken \/ LooksAbandoned)
        /\ UNCHANGED <<file, queue, sweep, asked, retries, faults, failures, stranded>>
    BY DEF Tick
  <1>2. ASSUME NEW j \in Jobs
        PROVE  /\ row'[j] \in Row
               /\ row'[j].status = row[j].status /\ row'[j].attempts = row[j].attempts
               /\ row'[j].planned = row[j].planned
               /\ row'[j].age \in {row[j].age, row[j].age + 1}
               /\ row[j].planned \/ row[j].age > StaleAfter => row'[j].age = row[j].age
               /\ row[j].wait = 0 => row'[j].wait = 0
    <2>1. row[j] \in Row
      BY DEF Types
    <2> DEFINE a == IF row[j].planned \/ row[j].age > StaleAfter THEN row[j].age ELSE row[j].age + 1
               t == IF row[j].wait = 0 THEN 0 ELSE row[j].wait - 1
               r == [row[j] EXCEPT !.age = a, !.wait = t]
    <2>2. row'[j] = IF row[j].status # "busy" THEN row[j] ELSE r
      BY DEF Tick
    <2>3. a \in 0..StaleAfter + 1 /\ a \in {row[j].age, row[j].age + 1}
      BY <2>1 DEF Row
    <2>4. t \in UNION {0..Backoff[i] : i \in DOMAIN Backoff}
      <3>1. row[j].wait \in UNION {0..Backoff[i] : i \in DOMAIN Backoff}
        BY <2>1 DEF Row
      <3>2. QED
        BY <3>1, WaitType
    <2>5. (row[j].planned \/ row[j].age > StaleAfter => a = row[j].age) /\ (row[j].wait = 0 => t = 0)
      OBVIOUS
    <2> HIDE DEF a, t
    <2>6. /\ r \in Row /\ r.age = a /\ r.wait = t /\ r.status = row[j].status
          /\ r.attempts = row[j].attempts /\ r.planned = row[j].planned
      BY <2>1, <2>3, <2>4, Zenon DEF Row
    <2> HIDE DEF r
    <2>7. QED
      BY <2>1, <2>2, <2>3, <2>5, <2>6
  <1>3. row' \in [Jobs -> Row]
    <2>1. row' = [j \in Jobs |-> row'[j]]
      BY DEF Tick
    <2>2. QED
      BY <1>2, <2>1
  <1>4. ASSUME NEW j \in Jobs, NEW w \in Workers
        PROVE  /\ worker'[j][w] \in WorkerState /\ worker'[j][w].step = worker[j][w].step
               /\ worker[j][w].step # "idle" => /\ worker'[j][w].ran = worker[j][w].ran + 1
                                                /\ worker'[j][w].seen = worker[j][w].seen
    <2>1. worker[j][w] \in WorkerState
      BY DEF Types
    <2>2. CASE worker[j][w].step = "idle"
      <3>1. worker'[j][w] = Idle
        BY <2>2 DEF Tick, At
      <3>2. QED
        BY <2>2, <3>1, IdleState
    <2>3. CASE worker[j][w].step # "idle"
      <3> DEFINE n == worker[j][w].ran + 1
                 state == [worker[j][w] EXCEPT !.ran = n]
      <3>1. worker'[j][w] = state
        BY <2>3 DEF Tick, At
      <3>2. n \in 0..QueueTimeout
        BY <1>1, <2>1, <2>3 DEF WorkerState
      <3> HIDE DEF n
      <3>3. /\ state \in WorkerState /\ state.step = worker[j][w].step
            /\ state.seen = worker[j][w].seen /\ state.ran = n
        BY <2>1, <3>2, Zenon DEF WorkerState
      <3> HIDE DEF state
      <3>4. QED
        BY <3>1, <3>3 DEF n
    <2>4. QED
      BY <2>2, <2>3
  <1>5. worker' \in [Jobs -> [Workers -> WorkerState]]
    <2>1. worker' = [j \in Jobs |-> [w \in Workers |-> worker'[j][w]]]
      BY DEF Tick
    <2>2. QED
      BY <1>4, <2>1
  <1>6. Types'
    BY <1>1, <1>3, <1>5 DEF Types
  <1>7. ASSUME Undisturbed, ~overtaken' PROVE Undisturbed'
    <2>1. ASSUME NEW j \in Jobs PROVE JobInv(j)'
      <3>1. JobInv(j) /\ Running(j)' = Running(j)
        BY <1>4, <1>7 DEF Undisturbed, Running
      <3>2. (Waits(j)' <=> Waits(j)) /\ (UnderWay(j)' <=> UnderWay(j))
        BY <1>1, <3>1 DEF Waits, UnderWay, SweepAt
      <3>3. OneInv(j)'
        BY <1>1, <3>1, <3>2 DEF JobInv, OneInv, SweepAt
      <3>4. CountInv(j)'
        BY <1>1, <1>2, <3>1, <3>2 DEF JobInv, CountInv
      <3>5. row[j].age \in Nat /\ StaleAfter \in Nat
        BY DEF Types, Row
      <3>6. ListedInv(j)'
        <4>1. (Due(row[j]) => Due(row[j])') /\ (Stale(row[j]) => Stale(row[j])')
          BY <1>2, <3>5 DEF Due, Stale
        <4>2. QED
          BY <1>1, <1>2, <3>1, <4>1 DEF JobInv, ListedInv, SweepAt
      <3>7. UnderWayInv(j)'
        <4>1. ASSUME NEW w \in Running(j)
              PROVE  row'[j].age <= worker'[j][w].ran /\ row'[j].age <= StaleAfter
          <5>1. /\ w \in Workers /\ worker[j][w].step # "idle"
                /\ row[j].age <= worker[j][w].ran /\ worker[j][w].ran \in Nat
            BY <3>1 DEF JobInv, UnderWayInv, Running, Types, WorkerState
          <5>2. worker'[j][w].ran = worker[j][w].ran + 1 /\ worker[j][w].ran < QueueTimeout
            BY <1>1, <1>4, <5>1
          <5>3. row'[j].age = row[j].age \/ row'[j].age = row[j].age + 1
            BY <1>2
          <5>4. QueueTimeout \in Nat /\ QueueTimeout < StaleAfter
            OBVIOUS
          <5>5. row'[j].age <= worker[j][w].ran + 1 /\ row'[j].age <= StaleAfter
            BY <3>5, <5>1, <5>2, <5>3, <5>4
          <5>6. QED
            BY <5>2, <5>5
        <4>2. Waits(j) => row'[j].age <= StaleAfter
          <5>1. Waits(j) => row[j].age < StaleAfter
            <6>1. ~LooksAbandoned
              BY <1>1, <1>7
            <6>2. Waits(j) => ~(row[j].age >= StaleAfter)
              BY <6>1 DEF LooksAbandoned
            <6>3. QED
              BY <3>5, <6>2
          <5>2. row'[j].age = row[j].age \/ row'[j].age = row[j].age + 1
            BY <1>2
          <5>3. QED
            BY <3>5, <5>1, <5>2
        <4>3. UnderWay(j) => row'[j].age <= StaleAfter
          BY <4>1, <4>2 DEF UnderWay
        <4>4. QED
          BY <1>2, <3>1, <3>2, <4>1, <4>3 DEF JobInv, UnderWayInv
      <3>8. QED
        BY <3>3, <3>4, <3>6, <3>7 DEF JobInv
    <2>2. SeenInv'
      <3>1. "video" \in Jobs
        BY DEF Jobs
      <3>2. QED
        BY <1>2, <1>4, <1>7, <3>1 DEF Undisturbed, SeenInv, At
    <2>3. NewInv'
      BY <1>2, <1>7 DEF Undisturbed, NewInv, Jobs
    <2>4. VerdictInv'
      <3>1. "scan" \in Jobs
        BY DEF Jobs
      <3>2. QED
        BY <1>1, <1>2, <1>4, <1>7, <3>1, VerdictKept DEF Undisturbed
    <2>5. QED
      BY <2>1, <2>2, <2>3, <2>4 DEF Undisturbed
  <1>8. QED
    BY <1>6, <1>7

-----------------------------------------------------------------------------
(* The invariant *)

\* Nothing is under way at the start.
LEMMA InitIInv == Init => IInv
  <1> SUFFICES ASSUME Init PROVE IInv
    OBVIOUS
  <1>1. NewRow \in Row
    <2>1. 0 \in UNION {0..Backoff[i] : i \in DOMAIN Backoff} /\ 0 \in 0..StaleAfter + 1
      BY WaitType
    <2>2. QED
      BY <2>1 DEF NewRow, Row
  <1>2. /\ \A j \in Jobs : row[j] = NewRow /\ sweep[j] = NoSweep /\ queue[j] = 0
        /\ \A j \in Jobs, w \in Workers : worker[j][w] = Idle
    BY DEF Init
  <1>3. Types
    <2>1. NoSweep \in [step: {"idle", "listed", "send"} \cup Unsettled, seen: Row]
      BY <1>1 DEF NoSweep
    <2>2. row \in [Jobs -> Row] /\ file \in [Places -> BOOLEAN]
      BY <1>1 DEF Init, Nowhere
    <2>3. worker \in [Jobs -> [Workers -> WorkerState]]
      BY IdleState DEF Init
    <2>4. /\ sweep \in [Jobs -> [step: {"idle", "listed", "send"} \cup Unsettled, seen: Row]]
      BY <2>1 DEF Init
    <2>5. /\ queue \in [Jobs -> Nat] /\ failures \in [Jobs -> Nat]
          /\ asked \in [Jobs -> 0..MaxRequests]
      BY DEF Init
    <2>6. /\ 0 \in 0..MaxRetries /\ 0 \in 0..MaxFaults
          /\ retries = 0 /\ faults = 0 /\ stranded = FALSE /\ overtaken = FALSE
      BY DEF Init
    <2>7. QED
      BY <2>2, <2>3, <2>4, <2>5, <2>6 DEF Types
  <1>4. ASSUME NEW j \in Jobs PROVE JobInv(j)
    <2>1. Running(j) = {} /\ queue[j] = 0 /\ ~SweepAt(j, "send") /\ ~SweepAt(j, "listed")
      BY <1>2 DEF Running, SweepAt, Idle, NoSweep
    <2>2. row[j].attempts = 0 /\ row[j].status = "none"
      BY <1>2 DEF NewRow
    <2>3. QED
      BY <2>1, <2>2 DEF JobInv, OneInv, UnderWayInv, UnderWay, Waits, ListedInv, CountInv
  <1>5. SeenInv /\ NewInv
    BY <1>2 DEF SeenInv, NewInv, At, Idle, NewRow, Jobs
  <1>6. VerdictInv
    <2>1. ~file["quarantine"]
      BY DEF Init, Nowhere, Places
    <2>2. sweep["scan"].step = "idle" /\ \A w \in Workers : worker["scan"][w].step = "idle"
      BY <1>2 DEF NoSweep, Idle, Jobs
    <2>3. QED
      BY <2>1, <2>2 DEF VerdictInv, StepInv, LockSteps
  <1>7. QED
    BY <1>3, <1>4, <1>5, <1>6 DEF IInv, Undisturbed

\* Once overtaken, a job stays so.
LEMMA OvertakenStays == overtaken /\ [Next]_vars => overtaken'
  <1> SUFFICES ASSUME overtaken, [Next]_vars PROVE overtaken'
    OBVIOUS
  <1>1. CASE UNCHANGED vars
    BY <1>1 DEF vars
  <1>2. CASE Upload \/ KillUpload \/ KillRetry \/ ReleaseFromQuarantine \/ Backfill \/ Tick
    BY <1>2 DEF Upload, KillUpload, KillRetry, KillRequest, ReleaseFromQuarantine, Backfill, Tick
  <1>3. ASSUME NEW j \in Jobs, Ask(j) \/ Retry(j) \/ SweepStep(j) \/ KillSweep(j)
        PROVE  overtaken'
    BY <1>3 DEF Ask, Retry, SweepStep, List, Requeue, SendAgain, Abandon, SettleSweep, KillSweep
  <1>4. ASSUME NEW w \in Workers, VideoStep(w) \/ ScanStep(w) PROVE overtaken'
    BY <1>4 DEF VideoStep, Begin, CheckHold, Replace, Ready, FailVideo,
                ScanStep, Scanned, StampClean, FailScan, SettleScan
  <1>5. ASSUME NEW j \in Jobs, NEW w \in Workers, KillWorker(j, w) PROVE overtaken'
    BY <1>5 DEF KillWorker
  <1>6. QED
    BY <1>1, <1>2, <1>3, <1>4, <1>5 DEF Next

\* Every step keeps the types and, until a job is overtaken, the rest.
LEMMA NextStep ==
  ASSUME Types, [Next]_vars
  PROVE  Types' /\ (Undisturbed /\ ~overtaken' => Undisturbed')
  <1>1. CASE UNCHANGED vars
    <2>1. Types'
      BY <1>1 DEF vars, Types
    <2>2. ASSUME Undisturbed PROVE Undisturbed'
      <3>1. \A j \in Jobs : JobInv(j)'
        BY <1>1, <2>2, JobFrame DEF vars, Undisturbed
      <3>2. SeenInv' /\ NewInv' /\ VerdictInv'
        BY <1>1, <2>2, SeenFrame, VerdictFrame DEF vars, Undisturbed, NewInv
      <3>3. QED
        BY <3>1, <3>2 DEF Undisturbed
    <2>3. QED
      BY <2>1, <2>2
  <1>2. CASE Upload \/ KillUpload \/ KillRetry \/ ReleaseFromQuarantine \/ Backfill \/ Tick
    BY <1>2, UploadStep, KillRequestStep, ReleaseStep, BackfillStep, TickStep
  <1>3. ASSUME NEW j \in Jobs, Ask(j) \/ Retry(j) \/ SweepStep(j) \/ KillSweep(j)
        PROVE  Types' /\ (Undisturbed /\ ~overtaken' => Undisturbed')
    BY <1>3, AskStep, RetryStep, ListStep, RequeueStep, SendAgainStep, AbandonStep,
       SettleSweepStep, KillSweepStep DEF SweepStep
  <1>4. ASSUME NEW w \in Workers, VideoStep(w)
        PROVE  Types' /\ (Undisturbed /\ ~overtaken' => Undisturbed')
    <2>1. "video" \in Jobs
      BY DEF Jobs
    <2>2. QED
      BY <1>4, <2>1, BeginStep, CheckHoldStep, ReplaceStep, ReadyStep, FailVideoStep DEF VideoStep
  <1>5. ASSUME NEW w \in Workers, ScanStep(w)
        PROVE  Types' /\ (Undisturbed /\ ~overtaken' => Undisturbed')
    <2>1. "scan" \in Jobs
      BY DEF Jobs
    <2>2. QED
      BY <1>5, <2>1, BeginStep, ScannedStep, StampCleanStep, FailScanStep, SettleScanStep
         DEF ScanStep
  <1>6. ASSUME NEW j \in Jobs, NEW w \in Workers, KillWorker(j, w)
        PROVE  Types' /\ (Undisturbed /\ ~overtaken' => Undisturbed')
    BY <1>6, KillWorkerStep
  <1>7. QED
    BY <1>1, <1>2, <1>3, <1>4, <1>5, <1>6 DEF Next

\* So the invariant holds throughout.
LEMMA Invariance == Spec => []IInv
  <1>1. IInv /\ [Next]_vars => IInv'
    BY NextStep, OvertakenStays DEF IInv
  <1>2. QED
    BY <1>1, InitIInv, PTL DEF Spec

-----------------------------------------------------------------------------
(* The theorems *)

\* Rows, queues, workers and sweepers keep their types, and no job counts more
\* attempts than jobs.MAX_ATTEMPTS unless it was overtaken
THEOREM TypeCorrect == Spec => []TypeOK
  <1>1. IInv => TypeOK
    <2> SUFFICES ASSUME IInv PROVE TypeOK
      OBVIOUS
    <2>1. overtaken \/ \A j \in Jobs : row[j].attempts <= MaxAttempts
      BY DEF IInv, Undisturbed, JobInv, CountInv
    <2>2. QED
      BY <2>1 DEF IInv, Types, TypeOK, WorkerState
  <1>2. QED
    BY <1>1, Invariance, PTL

\* The sweepers of transcode.py and av.py send no job again that waits or runs
THEOREM NeverRunTwice == Spec => []OneRun
  <1>1. IInv => OneRun
    <2> SUFFICES ASSUME IInv, ~overtaken, NEW j \in Jobs
                 PROVE  Cardinality(Running(j)) + queue[j] <= 1
      BY DEF OneRun
    <2>1. OneInv(j) /\ queue[j] \in Nat
      BY DEF IInv, Undisturbed, JobInv, Types
    <2>2. CASE Running(j) = {}
      BY <2>1, <2>2, FS_EmptySet DEF OneInv
    <2>3. CASE Running(j) # {}
      <3>1. PICK w : w \in Running(j)
        BY <2>3
      <3>2. Running(j) = {w}
        BY <2>1, <3>1 DEF OneInv
      <3>3. Cardinality(Running(j)) = 1
        BY <3>2, FS_Singleton
      <3>4. queue[j] = 0
        BY <2>1, <2>3 DEF OneInv, Waits
      <3>5. QED
        BY <3>3, <3>4
    <2>4. QED
      BY <2>2, <2>3
  <1>2. QED
    BY <1>1, Invariance, PTL

\* A failure counted on from attempts that all were failures is the last one
\* only when all are used up
LEMMA LastAttempt ==
  ASSUME Types, NEW j \in Jobs, NEW n \in Nat, n + 1 <= failures'[j], failures'[j] \in Nat,
         SetRow(j, Counted(row[j], n)), row[j].status # "failed", row'[j].status = "failed"
  PROVE  failures'[j] >= MaxAttempts
  <1>1. /\ row[j] \in Row /\ Counted(row[j], n) \in Row
        /\ n + 1 < MaxAttempts => Counted(row[j], n).status = row[j].status
    BY CountedRow DEF Types
  <1>2. row'[j] = Counted(row[j], n)
    BY <1>1, RowSet
  <1>3. n + 1 >= MaxAttempts
    BY <1>1, <1>2
  <1>4. QED
    BY <1>3

-----------------------------------------------------------------------------
(* Giving up *)

NoneFails == \A i \in Jobs : row'[i].status = "failed" => row[i].status = "failed"
GivenUp(j) == row[j].status # "failed" /\ row'[j].status = "failed"
LastOf(j) == failures'[j] >= MaxAttempts \/ (j = "video" /\ file["quarantine"])

\* A row that is written without failing is no job given up.
LEMMA NoneFailsBySet ==
  ASSUME Types, NEW j \in Jobs, NEW r, SetRow(j, r), r.status # "failed" \/ r.status = row[j].status
  PROVE  NoneFails
  BY DEF Types, SetRow, NoneFails

\* People begin jobs again, and time decides nothing
LEMMA PeopleGiveNothingUp ==
  ASSUME Types, Upload \/ KillUpload \/ KillRetry \/ ReleaseFromQuarantine \/ Backfill \/ Tick
  PROVE  NoneFails
  <1>1. \A j \in Jobs : row[j] \in Row
    BY DEF Types
  <1>2. CASE Upload
    <2>1. PICK small \in BOOLEAN :
            LET begun == IF small THEN {"scan"} ELSE Jobs IN
            row' = [j \in Jobs |-> [Stamped(row[j]) EXCEPT
                      !.status = IF j \in begun THEN "busy" ELSE "done"]]
      BY <1>2, Zenon DEF Upload
    <2> DEFINE begun == IF small THEN {"scan"} ELSE Jobs
    <2>2. ASSUME NEW j \in Jobs PROVE row'[j].status # "failed"
      <3>1. Stamped(row[j]) \in Row
        BY <1>1, StampedRow
      <3>2. row'[j] = [Stamped(row[j]) EXCEPT !.status = IF j \in begun THEN "busy" ELSE "done"]
        BY <2>1
      <3>3. row'[j].status = IF j \in begun THEN "busy" ELSE "done"
        BY <3>1, <3>2 DEF Row
      <3>4. QED
        BY <3>3
    <2>3. QED
      BY <2>2 DEF NoneFails
  <1>3. CASE ReleaseFromQuarantine
    BY <1>1, <1>3 DEF ReleaseFromQuarantine, NoneFails, Row, Types, Jobs
  <1>4. CASE Backfill
    <2>1. "scan" \in Jobs
      BY DEF Jobs
    <2>2. [Stamped(row["scan"]) EXCEPT !.status = "busy", !.attempts = 0].status = "busy"
      BY <1>1, <2>1, StampedRow DEF Row
    <2>3. QED
      BY <1>4, <2>1, <2>2, NoneFailsBySet DEF Backfill
  <1>5. CASE Tick
    BY <1>1, <1>5 DEF Tick, NoneFails, Row
  <1>6. CASE KillUpload \/ KillRetry
    BY <1>6 DEF KillUpload, KillRetry, KillRequest, NoneFails
  <1>7. QED
    BY <1>2, <1>3, <1>4, <1>5, <1>6

SettlesRow == \E step \in Unsettled : row' = SettledRow(step)

\* Nor is carrying out a verdict.
LEMMA SettlingGivesNothingUp ==
  ASSUME Types, SettlesRow
  PROVE  NoneFails
  <1>1. "scan" \in Jobs /\ row["scan"] \in Row
    BY DEF Types, Jobs
  <1> DEFINE r == [row["scan"] EXCEPT !.status = "infected"]
  <1>2. r.status = "infected"
    BY <1>1 DEF Row
  <1>3. UNCHANGED row \/ SetRow("scan", r)
    BY DEF SettlesRow, SettledRow, SetRow
  <1> HIDE DEF r
  <1>4. CASE UNCHANGED row
    BY <1>4 DEF NoneFails
  <1>5. QED
    BY <1>1, <1>2, <1>3, <1>4, NoneFailsBySet

\* What is begun or sent again is not given up
LEMMA BegunGivesNothingUp ==
  ASSUME Types, NEW j \in Jobs,
         \/ Ask(j) \/ Retry(j) \/ List(j) \/ Requeue(j) \/ SendAgain(j) \/ KillSweep(j)
         \/ SettleSweep
  PROVE  NoneFails
  <1>1. /\ row[j] \in Row /\ Stamped(row[j]) \in Row
        /\ Stamped(row[j]).status = row[j].status
    BY StampedRow DEF Types
  <1>2. CASE Ask(j) \/ List(j) \/ SendAgain(j) \/ KillSweep(j)
    BY <1>2 DEF Ask, List, SendAgain, KillSweep, NoneFails
  <1>3. CASE Retry(j)
    <2>1. [Stamped(row[j]) EXCEPT !.status = "busy", !.attempts = 0].status = "busy"
      BY <1>1 DEF Row
    <2>2. QED
      BY <1>3, <2>1, NoneFailsBySet DEF Retry
  <1>4. CASE Requeue(j)
    BY <1>1, <1>4, NoneFailsBySet DEF Requeue
  <1>5. CASE SettleSweep
    <2>1. SettlesRow
      BY <1>5 DEF SettleSweep, SettlesRow
    <2>2. QED
      BY <2>1, SettlingGivesNothingUp
  <1>6. QED
    BY <1>2, <1>3, <1>4, <1>5

\* A run that starts, goes on or ends well is not given up
LEMMA WorkersGiveNothingUp ==
  ASSUME Types, NEW j \in Jobs, NEW w \in Workers,
         \/ KillWorker(j, w) \/ Begin(j, w) \/ Replace(w) \/ Ready(w)
         \/ Scanned(w) \/ StampClean(w) \/ SettleScan(w)
  PROVE  NoneFails
  <1>1. /\ \A i \in Jobs : row[i] \in Row
        /\ Stamped(row[j]) \in Row /\ Stamped(row[j]).status = row[j].status
        /\ "video" \in Jobs /\ "scan" \in Jobs
    BY StampedRow DEF Types, Jobs
  <1>2. CASE KillWorker(j, w) \/ Replace(w)
    BY <1>2 DEF KillWorker, Replace, NoneFails
  <1>3. CASE Begin(j, w)
    BY <1>1, <1>3, NoneFailsBySet DEF Begin
  <1>4. CASE Ready(w) \/ StampClean(w)
    <2>1. \A i \in Jobs : [row[i] EXCEPT !.status = "done", !.age = 0].status = "done"
      BY <1>1 DEF Row
    <2>2. QED
      BY <1>1, <1>4, <2>1, NoneFailsBySet DEF Ready, StampClean
  <1>5. CASE Scanned(w)
    <2>1. [row["scan"] EXCEPT !.status = "infected"].status = "infected"
      BY <1>1 DEF Row
    <2>2. UNCHANGED row \/ SetRow("scan", [row["scan"] EXCEPT !.status = "infected"])
      BY <1>5 DEF Scanned
    <2>3. CASE UNCHANGED row
      BY <2>3 DEF NoneFails
    <2>4. QED
      BY <1>1, <2>1, <2>2, <2>3, NoneFailsBySet
  <1>6. CASE SettleScan(w)
    <2>1. SettlesRow
      BY <1>6 DEF SettleScan, SettlesRow
    <2>2. QED
      BY <2>1, SettlingGivesNothingUp
  <1>7. QED
    BY <1>2, <1>3, <1>4, <1>5, <1>6

\* A transcode is dead-lettered at once only for a file in quarantine
LEMMA CheckHoldGivesUp ==
  ASSUME Types, NEW w \in Workers, CheckHold(w), NEW j \in Jobs, GivenUp(j)
  PROVE  LastOf(j)
  <1>1. "video" \in Jobs /\ row["video"] \in Row /\ 1 \in 1..MaxAttempts - 1
    BY DEF Types, Jobs
  <1>2. CASE ~file["quarantine"]
    <2>1. UNCHANGED row \/ SetRow("video", Planned(row["video"], 1))
      BY <1>2 DEF CheckHold
    <2>2. Planned(row["video"], 1).status = row["video"].status
      BY <1>1, PlannedRow
    <2>3. NoneFails
      BY <1>1, <2>1, <2>2, NoneFailsBySet DEF NoneFails
    <2>4. QED
      BY <2>3 DEF NoneFails, GivenUp
  <1>3. CASE file["quarantine"]
    <2>1. SetRow("video", DeadLetter(row["video"]))
      BY <1>3 DEF CheckHold
    <2>2. j = "video"
      BY <2>1 DEF SetRow, Types, GivenUp
    <2>3. QED
      BY <1>3, <2>2 DEF LastOf
  <1>4. QED
    BY <1>2, <1>3

\* What fails is counted on from the failures before it
LEMMA FailureGivesUp ==
  ASSUME Types, Undisturbed, NEW w \in Workers, FailVideo(w) \/ FailScan(w), NEW j \in Jobs, GivenUp(j)
  PROVE  LastOf(j)
  <1>1. PICK k \in Jobs, n \in Nat :
          /\ SetRow(k, Counted(row[k], n)) /\ Failed(k)
          /\ n = row[k].attempts /\ UnderWay(k)
    <2>1. CASE FailVideo(w)
      <3>1. "video" \in Jobs /\ worker["video"][w].seen \in Nat
        BY DEF Types, Jobs, WorkerState
      <3>2. At("video", w, "run") /\ "run" \in Steps \ ({"idle"} \cup Unsettled)
        BY <2>1 DEF FailVideo, Steps, Unsettled
      <3>3. UnderWay("video") /\ worker["video"][w].seen = row["video"].attempts
        BY <3>1, <3>2, RunningAt DEF Undisturbed, SeenInv
      <3>4. QED
        BY <2>1, <3>1, <3>3 DEF FailVideo
    <2>2. CASE FailScan(w)
      <3>1. "scan" \in Jobs /\ row["scan"].attempts \in Nat
        BY DEF Types, Jobs, Row
      <3>2. At("scan", w, "check") /\ "check" \in Steps \ ({"idle"} \cup Unsettled)
        BY <2>2 DEF FailScan, Steps, Unsettled
      <3>3. UnderWay("scan")
        BY <3>1, <3>2, RunningAt
      <3>4. QED
        BY <2>2, <3>1, <3>3 DEF FailScan
    <2>3. QED
      BY <2>1, <2>2
  <1>2. j = k
    BY <1>1 DEF SetRow, Types, GivenUp
  <1>3. n < MaxAttempts /\ n <= failures[k] /\ failures[k] \in Nat
    BY <1>1, Busy DEF Types
  <1>4. n + 1 <= OneMore(failures[k])
    BY <1>3, OneMoreThan
  <1>5. failures'[k] = OneMore(failures[k]) /\ failures'[k] \in Nat
    BY <1>1, FailureCounted
  <1>6. QED
    BY <1>1, <1>2, <1>4, <1>5, LastAttempt DEF LastOf, GivenUp

\* What was left behind is a failure that was not counted
LEMMA AbandonGivesUp ==
  ASSUME Types, Undisturbed, NEW k \in Jobs, Abandon(k), NEW j \in Jobs, GivenUp(j)
  PROVE  LastOf(j)
  <1> DEFINE n == sweep[k].seen.attempts
  <1>1. n \in Nat /\ failures[k] \in Nat /\ failures' = failures
    BY DEF Types, Row, Abandon
  <1>2. SweepAt(k, "listed") /\ ~Due(sweep[k].seen) /\ SetRow(k, Counted(row[k], n))
    BY DEF Abandon
  <1>3. JobInv(k)
    BY DEF Undisturbed
  <1>4. /\ row[k].status = "busy" /\ ~row[k].planned /\ (Due(row[k]) \/ Stale(row[k]))
        /\ n = row[k].attempts
    BY <1>2, <1>3 DEF JobInv, ListedInv
  <1>5. ~UnderWay(k)
    BY <1>3, <1>4, ListedRests
  <1>6. n < failures[k]
    BY <1>3, <1>4, <1>5 DEF JobInv, CountInv
  <1>7. j = k
    BY <1>2 DEF SetRow, Types, GivenUp
  <1> HIDE DEF n
  <1>8. n + 1 <= failures'[k] /\ failures'[k] \in Nat
    BY <1>1, <1>6
  <1>9. QED
    BY <1>1, <1>2, <1>7, <1>8, LastAttempt DEF LastOf, GivenUp

\* The contract of jobs.py: a job is given up by transcode.py or av.py only
\* after MAX_ATTEMPTS runs or messages came to nothing, or, a video, because its
\* file is in quarantine
THEOREM NeverGivenUpEarly == Spec => GivenUpLast
  <1>1. IInv /\ [Next]_vars =>
          [overtaken \/ \A j \in Jobs :
             row[j].status # "failed" /\ row'[j].status = "failed"
               => failures'[j] >= MaxAttempts \/ (j = "video" /\ file["quarantine"])]_vars
    <2> SUFFICES ASSUME IInv, Next, ~overtaken, NEW j \in Jobs, GivenUp(j)
                 PROVE  LastOf(j)
      BY DEF GivenUp, LastOf
    <2>1. Types /\ Undisturbed
      BY DEF IInv
    <2>2. ~NoneFails
      BY DEF NoneFails, GivenUp
    <2>3. ~(Upload \/ KillUpload \/ KillRetry \/ ReleaseFromQuarantine \/ Backfill \/ Tick)
      BY <2>1, <2>2, PeopleGiveNothingUp
    <2>4. ASSUME NEW k \in Jobs, Ask(k) \/ Retry(k) \/ SweepStep(k) \/ KillSweep(k)
          PROVE  LastOf(j)
      BY <2>1, <2>2, <2>4, AbandonGivesUp, BegunGivesNothingUp DEF SweepStep
    <2>5. ASSUME NEW w \in Workers, VideoStep(w) \/ ScanStep(w)
          PROVE  LastOf(j)
      <3>1. {"video", "scan"} \subseteq Jobs
        BY DEF Jobs
      <3>2. QED
        BY <2>1, <2>2, <2>5, <3>1, WorkersGiveNothingUp, CheckHoldGivesUp, FailureGivesUp
           DEF VideoStep, ScanStep
    <2>6. ASSUME NEW k \in Jobs, NEW w \in Workers, KillWorker(k, w)
          PROVE  LastOf(j)
      BY <2>1, <2>2, <2>6, WorkersGiveNothingUp
    <2>7. QED
      BY <2>3, <2>4, <2>5, <2>6 DEF Next
  <1>2. QED
    BY <1>1, Invariance, PTL DEF Spec, GivenUpLast
=============================================================================
