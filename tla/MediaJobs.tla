----------------------------- MODULE MediaJobs -----------------------------
(***************************************************************************)
(* The two background jobs of an uploaded video: its transcoding and its   *)
(* scan, under the contract they share (attempts, back-off, a sweeper for  *)
(* what is due and for what a worker left behind), and where the file lies *)
(* meanwhile: served, held until it is scanned, or in quarantine.          *)
(*                                                                         *)
(* A step is what happens between two commits or two moves of the file; a  *)
(* process can be killed between any two.  Time is the age of what is      *)
(* running or waiting, so that there is no end of it.                      *)
(*                                                                         *)
(* An operator named ...Mutant is the definition after it with one         *)
(* plausible bug; no specification uses it.                                *)
(***************************************************************************)
EXTENDS Integers, FiniteSets

CONSTANTS
    Workers,        \* processes of each of the two queues
    MaxAttempts,    \* jobs.MAX_ATTEMPTS
    Backoff,        \* jobs.BACKOFF_SECONDS
    QueueTimeout,   \* a run is killed after this time
    StaleAfter,     \* jobs.STALE_AFTER_SECONDS
    HoldUntilClean, \* policy: hold back what is not scanned
    FailClosed,     \* policies: whether what cannot be scanned is locked away
    LongQueue,      \* whether a job may wait longer than StaleAfter
    MaxRequests,    \* bound: requests to retry that have seen one failure
    MaxRetries,     \* bound: what people do after the upload
    MaxFaults       \* bound: killed processes, lost messages to the queue

ASSUME MediaJobsAssumption ==
    /\ {MaxAttempts, QueueTimeout} \subseteq Nat \ {0}
    /\ StaleAfter \in Nat /\ StaleAfter > QueueTimeout
    /\ Backoff \in [1..MaxAttempts - 1 -> Nat \ {0}] /\ MaxAttempts > 1
    /\ {HoldUntilClean, LongQueue} \cup FailClosed \subseteq BOOLEAN /\ FailClosed # {}
    /\ {MaxRequests, MaxRetries, MaxFaults} \subseteq Nat

VARIABLES
    row,      \* per job the columns of the File row: th_media_video_..., th_media_scan_...
    file,     \* per place what lies there
    queue,    \* per job the messages waiting
    worker,
    sweep,    \* per job the sweeper's listing and how far it is
    asked,    \* per job the requests that have seen it failed
    retries,
    faults,
    failures, \* history: per job the runs and messages that came to nothing since it was last begun
    stranded, \* history: the file was not moved after a verdict (the move failed, the process
              \* was killed), was held for a request that was killed, or has a second copy
    overtaken \* history: a job was begun again that had not failed, or whose failed scan
              \* was just being locked away, or waited so long that it looked abandoned

vars == <<row, file, queue, worker, sweep, asked, retries, faults, failures, stranded, overtaken>>

Jobs == {"video", "scan"}
Places == {"live", "hold", "quarantine"}

\* "busy" is processing and pending, "done" ready and clean; planned is
\* whether next_at is set and wait the time until then, age the time since
\* started_at, kept as long as it is looked at: busy, and nothing planned
Row == [status: {"none", "busy", "done", "failed", "infected"}, attempts: Nat,
        planned: BOOLEAN, wait: UNION {0..Backoff[i] : i \in DOMAIN Backoff},
        age: 0..StaleAfter + 1]
NewRow == [status |-> "none", attempts |-> 0, planned |-> FALSE, wait |-> 0, age |-> 0]

Steps == {"idle", "check", "run", "replaced", "stampClean", "release", "lock", "quarantine"}
Idle == [step |-> "idle", seen |-> 0, ran |-> 0]
NoSweep == [step |-> "idle", seen |-> NewRow]

-----------------------------------------------------------------------------
(* The contract of jobs.py *)

Due(r) == r.planned /\ r.wait = 0
StaleMutant(r) == ~r.planned /\ r.age >= QueueTimeout
Stale(r) == ~r.planned /\ r.age > StaleAfter

\* _stamp_started
StampedMutant(r) == [r EXCEPT !.age = 0]
Stamped(r) == [r EXCEPT !.planned = FALSE, !.wait = 0, !.age = 0]

Planned(r, attempt) == [r EXCEPT !.planned = TRUE, !.wait = Backoff[attempt], !.age = 0]

\* _dead_letter
DeadLetter(r) == [r EXCEPT !.status = "failed", !.planned = FALSE, !.wait = 0, !.age = 0]

\* A failure is counted on from the attempts that were read: another try is
\* planned, or there is none left
CountedMutant(r, seen) == Planned([r EXCEPT !.attempts = seen], 1)
CountedOnceMoreMutant(r, seen) ==
    IF seen < MaxAttempts THEN Planned([r EXCEPT !.attempts = seen + 1], 1)
    ELSE DeadLetter([r EXCEPT !.attempts = seen + 1])
Counted(r, seen) ==
    IF seen + 1 < MaxAttempts THEN Planned([r EXCEPT !.attempts = seen + 1], seen + 1)
    ELSE DeadLetter([r EXCEPT !.attempts = seen + 1])

SetRow(j, r) == row' = [row EXCEPT ![j] = r]
OneMore(n) == IF n < MaxAttempts THEN n + 1 ELSE n
Failed(j) == failures' = [failures EXCEPT ![j] = OneMore(@)]

\* The message goes out after the commit, unless the process is killed first
Send(j) ==
    \/ /\ queue' = [queue EXCEPT ![j] = @ + 1]
       /\ UNCHANGED faults
    \/ /\ faults < MaxFaults /\ faults' = faults + 1
       /\ UNCHANGED queue

-----------------------------------------------------------------------------
(* The file *)

Nowhere == [p \in Places |-> FALSE]
Moved(f, from, to) == [f EXCEPT ![from] = FALSE, ![to] = TRUE]
\* current_path
CurrentPlace == CASE file["live"] -> "live" [] file["hold"] -> "hold" [] OTHER -> "quarantine"
Anywhere == \E p \in Places : file[p]

\* hold, release_hold, the move of _quarantine: nothing there, nothing moved
Hold(f) == IF HoldUntilClean /\ f["live"] THEN Moved(f, "live", "hold") ELSE f
ReleaseHold == IF file["hold"] THEN Moved(file, "hold", "live") ELSE file
Quarantined == IF Anywhere /\ CurrentPlace # "quarantine"
               THEN Moved(file, CurrentPlace, "quarantine") ELSE file

\* A move that fails is logged and forgotten: the file stays where it is
MoveTo(new) ==
    /\ file' \in {new, file}
    /\ stranded' = (stranded \/ file' # new)

-----------------------------------------------------------------------------
(* People *)

\* enqueue_transcode and enqueue_scan of a new File, in one transaction, and hold,
\* which may fail.  A video that is small enough is ready as it is
Written == [file EXCEPT !["live"] = TRUE]
Upload ==
    /\ row["video"].status = "none"
    /\ \E small \in BOOLEAN :
         LET begun == IF small THEN {"scan"} ELSE Jobs IN
         /\ row' = [j \in Jobs |-> [Stamped(row[j]) EXCEPT
                      !.status = IF j \in begun THEN "busy" ELSE "done"]]
         /\ \E sent \in {begun, begun \ {"scan"}, {}} :
              /\ queue' = [j \in Jobs |-> IF j \in sent THEN 1 ELSE 0]
              /\ failures' = [j \in Jobs |-> IF j \in begun \ sent THEN 1 ELSE 0]
              /\ faults' = IF sent = begun THEN faults ELSE faults + 1
              /\ faults' <= MaxFaults
    /\ file' \in {Hold(Written), Written}
    /\ UNCHANGED <<worker, sweep, asked, retries, stranded, overtaken>>

\* A request killed between hold and its commit leaves the file held: of an upload
\* without a row, of a retry with the old one, which it had locked
KillRequest(f) ==
    /\ faults < MaxFaults /\ faults' = faults + 1
    /\ Hold(f) # f
    /\ file' = Hold(f)
    /\ stranded' = TRUE
    /\ UNCHANGED <<row, queue, worker, sweep, retries, failures, overtaken>>
KillUpload ==
    /\ row["video"].status = "none"
    /\ KillRequest(Written)
    /\ UNCHANGED asked
KillRetry ==
    /\ asked["scan"] > 0
    /\ asked' = [asked EXCEPT !["scan"] = @ - 1]
    /\ KillRequest(file)

\* retry_failed of either job: the look at the status ...
Ask(j) ==
    /\ retries < MaxRetries /\ retries' = retries + 1
    /\ asked[j] < MaxRequests
    /\ row[j].status = "failed"
    /\ j = "video" => ~file["quarantine"]
    /\ asked' = [asked EXCEPT ![j] = @ + 1]
    /\ UNCHANGED <<row, file, queue, worker, sweep, faults, failures, stranded, overtaken>>
\* ... and the new start
LockedAway == sweep["scan"].step = "lock" \/ \E w \in Workers : worker["scan"][w].step = "lock"
Retry(j) ==
    /\ asked[j] > 0
    /\ asked' = [asked EXCEPT ![j] = @ - 1]
    /\ SetRow(j, [Stamped(row[j]) EXCEPT !.status = "busy", !.attempts = 0])
    /\ Send(j)
    /\ failures' = [failures EXCEPT ![j] = faults' - faults]
    /\ file' \in IF j = "scan" THEN {Hold(file), file} ELSE {file}
    /\ overtaken' = (overtaken \/ row[j].status # "failed" \/ (j = "scan" /\ LockedAway))
    /\ UNCHANGED <<worker, sweep, retries, stranded>>

\* release_from_quarantine: an administrator takes the verdict back
ReleaseFromQuarantine ==
    /\ retries < MaxRetries /\ retries' = retries + 1
    /\ file["quarantine"]
    /\ file' = Moved(file, "quarantine", "live")
    /\ row' = [row EXCEPT !["scan"] = [@ EXCEPT !.status = "none", !.attempts = 0,
                                               !.planned = FALSE, !.wait = 0]]
    /\ UNCHANGED <<queue, worker, sweep, asked, faults, failures, stranded, overtaken>>

\* backfill_pending: what has no scan status is scanned, without being held
Backfill ==
    /\ row["video"].status # "none" /\ row["scan"].status = "none"
    /\ SetRow("scan", [Stamped(row["scan"]) EXCEPT !.status = "busy", !.attempts = 0])
    /\ Send("scan")
    /\ failures' = [failures EXCEPT !["scan"] = faults' - faults]
    /\ UNCHANGED <<file, worker, sweep, asked, retries, stranded, overtaken>>

-----------------------------------------------------------------------------
(* Workers *)

Becomes(j, w, state) == worker' = [worker EXCEPT ![j][w] = state]
At(j, w, step) == worker[j][w].step = step
To(j, w, step) == Becomes(j, w, [worker[j][w] EXCEPT !.step = step])

\* The first commit: whatever the status is by now, the run is stamped
Begin(j, w) ==
    /\ At(j, w, "idle") /\ queue[j] > 0
    /\ queue' = [queue EXCEPT ![j] = @ - 1]
    /\ SetRow(j, Stamped(row[j]))
    /\ Becomes(j, w, [Idle EXCEPT !.step = "check"])
    /\ UNCHANGED <<file, sweep, asked, retries, faults, failures, stranded, overtaken>>

\* _run_transcode before ffmpeg: not in quarantine, and no failure while held
CheckHold(w) ==
    /\ At("video", w, "check")
    /\ CASE file["quarantine"] -> SetRow("video", DeadLetter(row["video"])) /\ Becomes("video", w, Idle)
         [] file["hold"] /\ ~file["quarantine"]
                            -> SetRow("video", Planned(row["video"], 1)) /\ Becomes("video", w, Idle)
         [] OTHER           -> /\ Becomes("video", w, [worker["video"][w] EXCEPT
                                     !.step = "run", !.seen = row["video"].attempts])
                               /\ UNCHANGED row
    /\ UNCHANGED <<file, queue, sweep, asked, retries, faults, failures, stranded, overtaken>>

\* os.replace: the result takes the place of the file, wherever that is now
Replace(w) ==
    /\ At("video", w, "run")
    /\ file' = [file EXCEPT !["live"] = TRUE]
    /\ To("video", w, "replaced")
    /\ stranded' = (stranded \/ ~file["live"])
    /\ UNCHANGED <<row, queue, sweep, asked, retries, faults, failures, overtaken>>
Ready(w) ==
    /\ At("video", w, "replaced")
    /\ SetRow("video", [row["video"] EXCEPT !.status = "done", !.age = 0])
    /\ Becomes("video", w, Idle)
    /\ UNCHANGED <<file, queue, sweep, asked, retries, faults, failures, stranded, overtaken>>

\* _on_transcode_failure counts from what its transaction saw before ffmpeg
FailVideo(w) ==
    /\ At("video", w, "run")
    /\ SetRow("video", Counted(row["video"], worker["video"][w].seen))
    /\ Becomes("video", w, Idle)
    /\ Failed("video")
    /\ UNCHANGED <<file, queue, sweep, asked, retries, faults, stranded, overtaken>>

\* _run_scan: nothing to scan, found, or clean, which first puts the file back, or
\* tries to
Scanned(w) ==
    /\ At("scan", w, "check")
    /\ \/ ~Anywhere /\ To("scan", w, "stampClean") /\ UNCHANGED <<row, file, stranded>>
       \/ /\ Anywhere
          /\ SetRow("scan", [row["scan"] EXCEPT !.status = "infected"])
          /\ To("scan", w, "quarantine") /\ UNCHANGED <<file, stranded>>
       \/ /\ Anywhere
          /\ MoveTo(ReleaseHold)
          /\ To("scan", w, "stampClean") /\ UNCHANGED row
    /\ UNCHANGED <<queue, sweep, asked, retries, faults, failures, overtaken>>
StampClean(w) ==
    /\ At("scan", w, "stampClean")
    /\ SetRow("scan", [row["scan"] EXCEPT !.status = "done", !.age = 0])
    /\ Becomes("scan", w, Idle)
    /\ UNCHANGED <<file, queue, sweep, asked, retries, faults, failures, stranded, overtaken>>

\* _on_scan_failure; with no attempt left the file is let go or, if the policy
\* says so, locked away, after the commit
AfterScanFailureMutant(r) == {"idle"}
AfterScanFailure(r) ==
    IF r.status # "failed" THEN {"idle"}
    ELSE {IF closed THEN "lock" ELSE "release" : closed \in FailClosed}
FailScan(w) ==
    LET r == Counted(row["scan"], row["scan"].attempts) IN
    /\ At("scan", w, "check")
    /\ SetRow("scan", r)
    /\ \E step \in AfterScanFailure(r) :
         Becomes("scan", w, IF step = "idle" THEN Idle ELSE [worker["scan"][w] EXCEPT !.step = step])
    /\ Failed("scan")
    /\ UNCHANGED <<file, queue, sweep, asked, retries, faults, stranded, overtaken>>

\* What is left to do to the file after a verdict is committed
SettledRow(step) ==
    IF step = "lock" THEN [row EXCEPT !["scan"].status = "infected"] ELSE row
SettledFile(step) ==
    CASE step = "release" -> ReleaseHold [] step = "quarantine" -> Quarantined [] OTHER -> file
AfterSettled(step) == IF step = "lock" THEN "quarantine" ELSE "idle"
Unsettled == {"release", "lock", "quarantine"}

SettleScan(w) ==
    LET step == worker["scan"][w].step IN
    /\ step \in Unsettled
    /\ row' = SettledRow(step) /\ MoveTo(SettledFile(step))
    /\ To("scan", w, AfterSettled(step))
    /\ UNCHANGED <<queue, sweep, asked, retries, faults, failures, overtaken>>

-----------------------------------------------------------------------------
(* The sweeper of each job: one run at a time, every five minutes *)

SweepAt(j, step) == sweep[j].step = step
SweepTo(j, step) == sweep' = [sweep EXCEPT ![j] = [NoSweep EXCEPT !.step = step]]

List(j) ==
    /\ SweepAt(j, "idle")
    /\ row[j].status = "busy" /\ (Due(row[j]) \/ Stale(row[j]))
    /\ sweep' = [sweep EXCEPT ![j] = [step |-> "listed", seen |-> row[j]]]
    /\ UNCHANGED <<row, file, queue, worker, asked, retries, faults, failures, stranded, overtaken>>

\* What was listed is worked on without another look: a planned try is stamped
\* and then sent, what was left behind is counted as a failure
Requeue(j) ==
    /\ SweepAt(j, "listed") /\ Due(sweep[j].seen)
    /\ SetRow(j, Stamped(row[j]))
    /\ SweepTo(j, "send")
    /\ UNCHANGED <<file, queue, worker, asked, retries, faults, failures, stranded, overtaken>>
SendAgain(j) ==
    /\ SweepAt(j, "send")
    /\ queue' = [queue EXCEPT ![j] = @ + 1]
    /\ SweepTo(j, "idle")
    /\ UNCHANGED <<row, file, worker, asked, retries, faults, failures, stranded, overtaken>>
Abandon(j) ==
    LET r == Counted(row[j], sweep[j].seen.attempts) IN
    /\ SweepAt(j, "listed") /\ ~Due(sweep[j].seen)
    /\ SetRow(j, r)
    /\ \E step \in IF j = "scan" THEN AfterScanFailure(r) ELSE {"idle"} : SweepTo(j, step)
    /\ UNCHANGED <<file, queue, worker, asked, retries, faults, failures, stranded, overtaken>>
SettleSweep ==
    LET step == sweep["scan"].step IN
    /\ step \in Unsettled
    /\ row' = SettledRow(step) /\ MoveTo(SettledFile(step))
    /\ SweepTo("scan", AfterSettled(step))
    /\ UNCHANGED <<queue, worker, asked, retries, faults, failures, overtaken>>

-----------------------------------------------------------------------------
(* Time and processes *)

\* A worker is killed at its time limit, or at any moment for want of memory.
\* After its verdict it leaves the file where it was
KillWorker(j, w) ==
    LET me == worker[j][w] IN
    /\ me.step # "idle"
    /\ \/ me.ran = QueueTimeout /\ UNCHANGED faults
       \/ me.ran < QueueTimeout /\ faults < MaxFaults /\ faults' = faults + 1
    /\ Becomes(j, w, Idle)
    /\ Failed(j)
    /\ stranded' = (stranded \/ me.step \in Unsettled)
    /\ UNCHANGED <<row, file, queue, sweep, asked, retries, overtaken>>
KillSweep(j) ==
    /\ sweep[j].step # "idle"
    /\ faults < MaxFaults /\ faults' = faults + 1
    /\ SweepTo(j, "idle")
    /\ failures' = [failures EXCEPT ![j] = IF SweepAt(j, "send") THEN OneMore(@) ELSE @]
    /\ stranded' = (stranded \/ sweep[j].step \in Unsettled)
    /\ UNCHANGED <<row, file, queue, worker, asked, retries, overtaken>>

\* No run is longer than its limit; unless queues are long no message waits
\* until it looks abandoned
Waits(j) == queue[j] > 0 \/ SweepAt(j, "send")
LooksAbandoned == \E j \in Jobs : Waits(j) /\ row[j].age >= StaleAfter
Tick ==
    /\ \A j \in Jobs, w \in Workers :
         worker[j][w].step # "idle" => worker[j][w].ran < QueueTimeout
    /\ LooksAbandoned => LongQueue
    /\ overtaken' = (overtaken \/ LooksAbandoned)
    /\ row' = [j \in Jobs |->
                 IF row[j].status # "busy" THEN row[j]
                 ELSE [row[j] EXCEPT
                         !.age = IF row[j].planned \/ @ > StaleAfter THEN @ ELSE @ + 1,
                         !.wait = IF @ = 0 THEN 0 ELSE @ - 1]]
    /\ worker' = [j \in Jobs |-> [w \in Workers |->
                    IF At(j, w, "idle") THEN Idle
                    ELSE [worker[j][w] EXCEPT !.ran = @ + 1]]]
    /\ UNCHANGED <<file, queue, sweep, asked, retries, faults, failures, stranded>>

-----------------------------------------------------------------------------

Init ==
    /\ row = [j \in Jobs |-> NewRow]
    /\ file = Nowhere
    /\ queue = [j \in Jobs |-> 0]
    /\ worker = [j \in Jobs |-> [w \in Workers |-> Idle]]
    /\ sweep = [j \in Jobs |-> NoSweep]
    /\ asked = [j \in Jobs |-> 0]
    /\ retries = 0 /\ faults = 0
    /\ failures = [j \in Jobs |-> 0]
    /\ stranded = FALSE /\ overtaken = FALSE

VideoStep(w) == Begin("video", w) \/ CheckHold(w) \/ Replace(w) \/ Ready(w) \/ FailVideo(w)
ScanStep(w) == Begin("scan", w) \/ Scanned(w) \/ StampClean(w) \/ FailScan(w) \/ SettleScan(w)
SweepStep(j) ==
    \/ List(j) \/ Requeue(j) \/ SendAgain(j) \/ Abandon(j)
    \/ j = "scan" /\ SettleSweep

Next ==
    \/ Upload \/ KillUpload \/ KillRetry \/ ReleaseFromQuarantine \/ Backfill \/ Tick
    \/ \E j \in Jobs : Ask(j) \/ Retry(j) \/ SweepStep(j) \/ KillSweep(j)
    \/ \E w \in Workers : VideoStep(w) \/ ScanStep(w)
    \/ \E j \in Jobs, w \in Workers : KillWorker(j, w)

\* Workers take what waits and go on, the sweepers come round, time passes;
\* nothing is assumed of people
Fairness ==
    /\ \A w \in Workers : WF_vars(VideoStep(w)) /\ WF_vars(ScanStep(w))
    /\ \A j \in Jobs : WF_vars(SweepStep(j))
    /\ WF_vars(Tick)
Spec == Init /\ [][Next]_vars /\ Fairness

-----------------------------------------------------------------------------

TypeOK ==
    /\ row \in [Jobs -> Row]
    /\ file \in [Places -> BOOLEAN]
    /\ queue \in [Jobs -> Nat]
    /\ worker \in [Jobs -> [Workers -> [step: Steps, seen: Nat, ran: 0..QueueTimeout]]]
    /\ sweep \in [Jobs -> [step: {"idle", "listed", "send"} \cup Unsettled, seen: Row]]
    /\ asked \in [Jobs -> 0..MaxRequests]
    /\ retries \in 0..MaxRetries /\ faults \in 0..MaxFaults
    /\ failures \in [Jobs -> Nat]
    /\ {stranded, overtaken} \subseteq BOOLEAN
    /\ overtaken \/ \A j \in Jobs : row[j].attempts <= MaxAttempts

\* While a run of a job waits or is under way, no second one is sent: what the
\* sweeper lists as due or abandoned really is, whatever was killed, retried or
\* rescheduled before.  Once a job was overtaken that is over: two people who
\* retry the same failure do send two.
Running(j) == {w \in Workers : worker[j][w].step \notin {"idle"} \cup Unsettled}
OneRun == overtaken \/ \A j \in Jobs : Cardinality(Running(j)) + queue[j] <= 1

\* A job is given up only when all its attempts have come to nothing, however
\* runs, faults, sweeps and retries interleave, until it is overtaken; a video also
\* when its file is in quarantine.
GivenUpLast ==
    [][overtaken \/ \A j \in Jobs :
         row[j].status # "failed" /\ row'[j].status = "failed"
           => failures'[j] >= MaxAttempts \/ (j = "video" /\ file["quarantine"])]_vars

\* media/jobs.py:19-21 has chosen its limits so that two workers never write
\* the same file.
OneWriter == Cardinality({w \in Workers : At("video", w, "run")}) <= 1

\* Whatever is killed, lost or not moved, a scan that is under way comes to an end,
\* and so does a transcoding unless the file is held for ever.
Settles ==
    /\ row["scan"].status = "busy" ~> row["scan"].status # "busy"
    /\ row["video"].status = "busy" ~> (row["video"].status # "busy" \/ []file["hold"])

\* Every way a scan ends lets go of a file that is held back or locks it away, with or
\* without the attempts left and whichever process ends it: only a move that fails, or
\* a process killed before its move or its commit, leaves a file held for ever.
HoldEnds == file["hold"] ~> (~file["hold"] \/ stranded)

-----------------------------------------------------------------------------
(* What comments say and the code does not always do                       *)

\* media/av.py:1016-1018: "first put the file back, then stamp it clean", lest a move
\* that fails leave it out of reach and looking sound; media/transcode.py:333-334: "the
\* hold is not endless: a scan that ends clean or failed puts the file back".
NeverHeldForever ==
    file["hold"] ~> (~file["hold"] \/ row["scan"].status = "infected")

=============================================================================
