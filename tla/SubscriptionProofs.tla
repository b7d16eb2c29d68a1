------------------------- MODULE SubscriptionProofs -------------------------
(***************************************************************************)
(* Proofs about Subscription: its types, and what neither the jobs nor a   *)
(* race of requests can do to a store, for any number of requests,         *)
(* payments and plans, any lengths and windows and any clock.              *)
(*                                                                         *)
(* The argument: a document that will still be saved agrees with the row   *)
(* in everything but the reminder flags (SessionInv, JobInv), because      *)
(* every save turns the other documents out of date and only the flags are *)
(* written otherwise.  What a guard has read of the document is therefore  *)
(* true of the row it replaces.                                            *)
(***************************************************************************)
EXTENDS Subscription, FiniteSetTheorems, TLAPS

SessionRecord == [op: Ops, doc: Row, payment: Payments \cup {NoPayment},
                  pending: SUBSET Payments, closed: BOOLEAN]
JobRecord == [step: Steps, listed: BOOLEAN, doc: Row, fresh: BOOLEAN,
              stage: 0..3, first: BOOLEAN]

\* Up to the reminder flags
SameRow(d, r) ==
    /\ d.status = r.status /\ d.end = r.end /\ d.cancel = r.cancel
    /\ d.source = r.source /\ d.plan = r.plan

SessionInv ==
    \A s \in Sessions :
        /\ SavesNothing(session[s]) \/ session[s].op = "refused" \/ SameRow(session[s].doc, sub)
        /\ session[s].op = "cancel" => session[s].doc.status = "active"
        /\ session[s].op = "confirm" => session[s].payment \in Payments

JobInv ==
    \A j \in Jobs :
        job[j].listed =>
            /\ job[j].step # "idle"
            /\ job[j].fresh => SameRow(job[j].doc, sub)
            /\ job[j].step = "trialExpire" => TrialEnd < now
            /\ job[j].step \in {"finalize", "expire", "suspend", "lapse"} =>
                   0 < job[j].doc.end /\ job[j].doc.end < now

\* A planned cancellation is of an active subscription, and only a job leaves
\* the mark of its own suspension
RowInv ==
    /\ sub.cancel => sub.status = "active"
    /\ sub.source = "dunning" => sub.status = "suspended" /\ suspender = "job"

PayInv ==
    \A p \in Payments :
        /\ pay[p].status \in {"none", "pending"} => activated[p] = 0
        /\ pay[p].status = "confirmed" => activated[p] = 1
        /\ activated[p] \in {0, 1}

IInv == TypeOK /\ SessionInv /\ JobInv /\ RowInv /\ PayInv

-----------------------------------------------------------------------------
(* Types of the helpers *)

LEMMA APlanType == Plans # {} => APlan \in Plans
BY DEF APlan

\* A change of status clears a planned cancellation and the mark of dunning where it must.
LEMMA WithStatusType ==
    ASSUME NEW row \in Row, NEW st \in Statuses
    PROVE  /\ WithStatus(row, st) \in Row
           /\ WithStatus(row, st).status = st
           /\ WithStatus(row, st).end = row.end
           /\ WithStatus(row, st).plan = row.plan
           /\ WithStatus(row, st).cancel => row.cancel /\ st # "canceled"
           /\ WithStatus(row, st).source = "dunning" =>
                  row.source = "dunning" /\ (row.status = "suspended" => st = "suspended")
           /\ WithStatus(row, st).reminded = row.reminded
           /\ WithStatus(row, st).dunning = row.dunning
BY DEF WithStatus, Row

LEMMA UpgradedType ==
    ASSUME NEW row \in Row, NEW plan \in Plans, now \in Nat
    PROVE  /\ Upgraded(row, plan) \in Row
           /\ Upgraded(row, plan).status = "active"
           /\ Upgraded(row, plan).plan = plan
           /\ ~Upgraded(row, plan).cancel
           /\ Upgraded(row, plan).source = "dunning" =>
                  row.source = "dunning" /\ row.status # "suspended"
           /\ Upgraded(row, plan).end =
                (IF Carries(row, plan) THEN row.end ELSE now) + PeriodLength
<1> DEFINE w == WithStatus(row, "active")
           e == (IF Carries(row, plan) THEN row.end ELSE now) + PeriodLength
<1>1. "active" \in Statuses
  BY DEF Statuses
<1>2. /\ w \in Row /\ w.status = "active"
      /\ w.source = "dunning" => row.source = "dunning" /\ row.status # "suspended"
  BY <1>1, WithStatusType
<1>3. e \in Nat
  BY SubscriptionAssumption DEF Row
<1>4. Upgraded(row, plan) = [w EXCEPT !.plan = plan, !.cancel = FALSE, !.reminded = 0,
                                      !.dunning = 0, !.end = e]
  BY DEF Upgraded
<1> HIDE DEF w, e
<1>5. Upgraded(row, plan) \in Row
  <2>1. [[w EXCEPT !.plan = plan] EXCEPT !.cancel = FALSE] \in Row
    BY <1>2 DEF Row
  <2>2. Upgraded(row, plan) = [[[[[w EXCEPT !.plan = plan] EXCEPT !.cancel = FALSE]
                                 EXCEPT !.reminded = 0] EXCEPT !.dunning = 0] EXCEPT !.end = e]
    BY <1>4
  <2>3. ASSUME NEW v \in Row PROVE [[v EXCEPT !.reminded = 0] EXCEPT !.dunning = 0] \in Row
    <3>1. [v EXCEPT !.reminded = 0] \in Row
      BY DEF Row
    <3> QED BY <3>1 DEF Row
  <2>4. [[[[w EXCEPT !.plan = plan] EXCEPT !.cancel = FALSE]
           EXCEPT !.reminded = 0] EXCEPT !.dunning = 0] \in Row
    BY <2>1, <2>3, Zenon
  <2>5. ASSUME NEW v \in Row PROVE [v EXCEPT !.end = e] \in Row
    BY <1>3 DEF Row
  <2> QED BY <2>2, <2>4, <2>5, Zenon
<1>6. /\ Upgraded(row, plan).status = "active"
      /\ Upgraded(row, plan).plan = plan /\ ~Upgraded(row, plan).cancel
      /\ Upgraded(row, plan).source = w.source /\ Upgraded(row, plan).end = e
  BY <1>2, <1>3, <1>4 DEF Row
<1> QED BY <1>2, <1>5, <1>6 DEF e

LEMMA BeforeType ==
    ASSUME NEW S, NEW T, S \subseteq T, IsFiniteSet(T), Cardinality(T) <= 3
    PROVE  Cardinality(S) \in 0..3
<1>1. Cardinality(S) <= Cardinality(T) /\ IsFiniteSet(S)
  BY FS_Subset
<1>2. Cardinality(S) \in Nat /\ Cardinality(T) \in Nat
  BY <1>1, FS_CardinalityType
<1> QED BY <1>1, <1>2

LEMMA StageType ==
    ASSUME NEW step \in Steps
    PROVE  Stage(step) \in 0..3
<1>1. /\ IsFiniteSet(1..3) /\ Cardinality(1..3) <= 3
      /\ IsFiniteSet(1..2) /\ Cardinality(1..2) <= 3
  <2>0. 1 \in Int /\ 2 \in Int /\ 3 \in Int
    OBVIOUS
  <2>1. IsFiniteSet(1..3) /\ Cardinality(1..3) = IF 1 > 3 THEN 0 ELSE 3 - 1 + 1
    BY <2>0, FS_Interval, Zenon
  <2>2. IsFiniteSet(1..2) /\ Cardinality(1..2) = IF 1 > 2 THEN 0 ELSE 2 - 1 + 1
    BY <2>0, FS_Interval, Zenon
  <2> QED BY <2>1, <2>2
<1>2. \A end : Before(end, TrialWindow) \in 0..3
  <2> TAKE end
  <2>1. DOMAIN TrialWindow = 1..3
    BY SubscriptionAssumption
  <2>2. {k \in DOMAIN TrialWindow : end - now <= TrialWindow[k]} \subseteq 1..3
    BY <2>1
  <2> QED BY <1>1, <2>2, BeforeType DEF Before
<1>3. \A end : Before(end, RenewalWindow) \in 0..3
  <2> TAKE end
  <2>1. DOMAIN RenewalWindow = 1..2
    BY SubscriptionAssumption
  <2>2. {k \in DOMAIN RenewalWindow : end - now <= RenewalWindow[k]} \subseteq 1..2
    BY <2>1
  <2> QED BY <1>1, <2>2, BeforeType DEF Before
<1>4. Cardinality({k \in 1..3 : now - sub.end >= DunningDelay[k]}) \in 0..3
  <2>1. {k \in 1..3 : now - sub.end >= DunningDelay[k]} \subseteq 1..3
    OBVIOUS
  <2> QED BY <1>1, <2>1, BeforeType
<1> QED BY <1>2, <1>3, <1>4 DEF Stage

LEMMA AfterType ==
    ASSUME NEW step \in Steps, step # "idle"
    PROVE  After[step] \in Steps
BY DEF After, Steps

\* What a job makes of a row keeps its period and plan.
LEMMA WorkedType ==
    ASSUME NEW step \in Steps, step # "idle", step \notin Reminders, NEW row \in Row
    PROVE  /\ Worked(step, row) \in Row
           /\ Worked(step, row).end = row.end /\ Worked(step, row).plan = row.plan
           /\ Worked(step, row).cancel => row.cancel /\ Worked(step, row).status # "canceled"
           /\ step = "finalize" => Worked(step, row).status = "canceled"
           /\ step = "suspend" => Worked(step, row).status = "suspended"
           /\ Worked(step, row).source = "dunning" =>
                  step = "suspend" \/ (row.source = "dunning" /\ row.status # "suspended")
<1>1. /\ "expired" \in Statuses /\ "canceled" \in Statuses
      /\ "past_due" \in Statuses /\ "suspended" \in Statuses
  BY DEF Statuses
<1>2. step \in {"trialExpire", "finalize", "expire", "suspend", "lapse"}
  BY DEF Steps, Reminders
<1>3. CASE step \in {"trialExpire", "lapse"}
  <2>1. Worked(step, row) = WithStatus(row, "expired")
    BY <1>3 DEF Worked
  <2>2. PICK st \in Statuses : st = "expired"
    BY <1>1
  <2>3. /\ WithStatus(row, st) \in Row
        /\ WithStatus(row, st).status = st
        /\ WithStatus(row, st).end = row.end
        /\ WithStatus(row, st).plan = row.plan
        /\ WithStatus(row, st).cancel => row.cancel /\ st # "canceled"
        /\ WithStatus(row, st).source = "dunning" =>
               row.source = "dunning" /\ (row.status = "suspended" => st = "suspended")
    BY WithStatusType
  <2> QED BY <1>3, <2>1, <2>2, <2>3
<1>4. CASE step = "finalize"
  <2>1. Worked(step, row) = WithStatus(row, "canceled")
    BY <1>4 DEF Worked
  <2>2. /\ WithStatus(row, "canceled") \in Row
        /\ WithStatus(row, "canceled").status = "canceled"
        /\ WithStatus(row, "canceled").end = row.end
        /\ WithStatus(row, "canceled").plan = row.plan
        /\ WithStatus(row, "canceled").cancel => row.cancel /\ "canceled" # "canceled"
        /\ WithStatus(row, "canceled").source = "dunning" =>
               row.source = "dunning" /\ (row.status = "suspended" => "canceled" = "suspended")
    BY <1>1, WithStatusType
  <2> QED BY <1>4, <2>1, <2>2
<1>5. CASE step = "expire"
  <2>1. Worked(step, row) = WithStatus(row, "past_due")
    BY <1>5 DEF Worked
  <2>2. PICK st \in Statuses : st = "past_due"
    BY <1>1
  <2>3. /\ WithStatus(row, st) \in Row
        /\ WithStatus(row, st).status = st
        /\ WithStatus(row, st).end = row.end
        /\ WithStatus(row, st).plan = row.plan
        /\ WithStatus(row, st).cancel => row.cancel /\ st # "canceled"
        /\ WithStatus(row, st).source = "dunning" =>
               row.source = "dunning" /\ (row.status = "suspended" => st = "suspended")
    BY WithStatusType
  <2> QED BY <1>5, <2>1, <2>2, <2>3
<1>6. CASE step = "suspend"
  <2> DEFINE w == WithStatus(row, "suspended")
  <2>1. Worked(step, row) = [w EXCEPT !.source = "dunning"]
    BY <1>6 DEF Worked
  <2>2. /\ w \in Row /\ w.end = row.end /\ w.plan = row.plan /\ w.status = "suspended"
        /\ w.cancel => row.cancel
    BY <1>1, WithStatusType
  <2> HIDE DEF w
  <2> QED BY <1>6, <2>1, <2>2 DEF Row
<1> QED BY <1>2, <1>3, <1>4, <1>5, <1>6

\* A reminder changes nothing but flags.
LEMMA RemindedType ==
    ASSUME NEW row \in Row, NEW step \in Steps, NEW stage \in 0..3
    PROVE  Reminded(row, step, stage) \in Row /\ SameRow(Reminded(row, step, stage), row)
<1>1. CASE step = "dunning"
  <2>1. Reminded(row, step, stage) =
          [row EXCEPT !.dunning = IF stage > row.dunning THEN stage ELSE row.dunning]
    BY <1>1 DEF Reminded
  <2> QED BY <2>1 DEF Row, SameRow
<1>2. CASE step # "dunning" /\ (step = "trialRemind" <=> row.status = "trial")
  <2>1. Reminded(row, step, stage) =
          [row EXCEPT !.reminded = IF stage > row.reminded THEN stage ELSE row.reminded]
    BY <1>2 DEF Reminded
  <2> QED BY <2>1 DEF Row, SameRow
<1>3. CASE step # "dunning" /\ ~(step = "trialRemind" <=> row.status = "trial")
  <2>1. Reminded(row, step, stage) = row
    BY <1>3 DEF Reminded
  <2> QED BY <2>1 DEF SameRow
<1> QED BY <1>1, <1>2, <1>3

LEMMA AdvancedType ==
    ASSUME TypeOK, Plans # {}, NEW j \in Jobs, job[j].step # "idle"
    PROVE  Advanced(j) \in JobRecord /\ ~Advanced(j).listed
<1>1. job[j] \in JobRecord
  BY DEF TypeOK, JobRecord
<1>2. After[job[j].step] \in Steps
  BY <1>1, AfterType DEF JobRecord
<1>3. Blank \in Row
  BY APlanType DEF Blank, Row, Statuses
<1> DEFINE step == After[job[j].step]
           first == job[j].step = "dunning" /\ job[j].listed /\ job[j].first
<1>4. Advanced(j) = [NoJob EXCEPT !.step = step, !.first = first] /\ first \in BOOLEAN
  BY <1>1 DEF Advanced, JobRecord
<1>5. NoJob \in JobRecord /\ ~NoJob.listed
  BY <1>3 DEF NoJob, JobRecord, Steps
<1> HIDE DEF step, first
<1>6. step \in Steps
  BY <1>2 DEF step
<1> QED BY <1>4, <1>5, <1>6 DEF JobRecord

-----------------------------------------------------------------------------
(* What a save and a reminder do to the documents of others *)

LEMMA BlankType ==
    ASSUME TypeOK
    PROVE  /\ Plans # {} /\ Blank \in Row /\ NoJob \in JobRecord /\ NoSession \in SessionRecord
           /\ ~NoJob.listed /\ NoSession.op = "idle"
<1>1. Plans # {}
  BY DEF TypeOK, Row
<1>2. Blank \in Row
  BY <1>1, APlanType DEF Blank, Row, Statuses
<1>3. NoJob \in JobRecord /\ ~NoJob.listed
  BY <1>2 DEF NoJob, JobRecord, Steps
<1>4. NoSession \in SessionRecord /\ NoSession.op = "idle"
  BY <1>2 DEF NoSession, SessionRecord, Ops
<1> QED BY <1>1, <1>2, <1>3, <1>4

\* After a save no other loaded document can be saved.
LEMMA OutdatedSessionsType ==
    ASSUME TypeOK
    PROVE  /\ OutdatedSessions \in [Sessions -> SessionRecord]
           /\ \A s \in Sessions :
                  /\ SavesNothing(OutdatedSessions[s]) \/ OutdatedSessions[s].op = "refused"
                  /\ OutdatedSessions[s].op \notin {"cancel", "confirm"}
<1> DEFINE refused == [NoSession EXCEPT !.op = "refused"]
<1>1. refused \in SessionRecord /\ refused.op = "refused"
  BY BlankType DEF SessionRecord, Ops
<1>2. \A s \in Sessions : session[s] \in SessionRecord
  BY DEF TypeOK, SessionRecord
<1>3. \A s \in Sessions : OutdatedSessions[s] = IF SavesNothing(session[s]) THEN session[s] ELSE refused
  BY DEF OutdatedSessions
<1>4. \A s \in Sessions : SavesNothing(session[s]) => session[s].op \notin {"cancel", "confirm"}
  BY DEF SavesNothing
<1> HIDE DEF refused
<1>5. \A s \in Sessions : OutdatedSessions[s] \in SessionRecord
  BY <1>1, <1>2, <1>3
<1>6. OutdatedSessions \in [Sessions -> SessionRecord]
  BY <1>5 DEF OutdatedSessions
<1> QED BY <1>1, <1>3, <1>4, <1>6

\* Nor can what a job has listed.
LEMMA OutdatedJobsType ==
    ASSUME TypeOK
    PROVE  /\ OutdatedJobs \in [Jobs -> JobRecord]
           /\ \A j \in Jobs :
                  /\ OutdatedJobs[j].step = job[j].step /\ OutdatedJobs[j].listed = job[j].listed
                  /\ ~OutdatedJobs[j].fresh
                  /\ OutdatedJobs[j].doc.end = job[j].doc.end
<1> SUFFICES ASSUME NEW j \in Jobs
             PROVE  /\ OutdatedJobs[j] \in JobRecord
                    /\ OutdatedJobs[j].step = job[j].step /\ OutdatedJobs[j].listed = job[j].listed
                    /\ ~OutdatedJobs[j].fresh
                    /\ OutdatedJobs[j].doc.end = job[j].doc.end
  BY DEF OutdatedJobs
<1> DEFINE doc == [Blank EXCEPT !.status = job[j].doc.status, !.end = job[j].doc.end]
<1>1. job[j] \in JobRecord
  BY DEF TypeOK, JobRecord
<1>2. doc \in Row /\ doc.end = job[j].doc.end
  BY <1>1, BlankType DEF JobRecord, Row
<1>3. OutdatedJobs[j] = [job[j] EXCEPT !.fresh = FALSE, !.doc = doc]
  BY DEF OutdatedJobs
<1> HIDE DEF doc
<1> QED BY <1>1, <1>2, <1>3 DEF JobRecord

\* A save of a row that keeps the rules of RowInv keeps RowInv.
LEMMA SaveRow ==
    ASSUME TypeOK, NEW row \in Row, NEW who \in {"job", "admin"}, Save(row, who),
           row.cancel => row.status = "active",
           row.source = "dunning" =>
               /\ row.status = "suspended"
               /\ sub.status = "suspended" => suspender = "job"
               /\ sub.status # "suspended" => who = "job"
    PROVE  /\ RowInv' /\ sub' = row
           /\ suspender' \in {"none", "job", "admin"}
BY DEF Save, RowInv, TypeOK

\* A request that saves a row of the right kind keeps all there is to keep of
\* the row, the sessions and the jobs.
LEMMA SaveAsInv ==
    ASSUME IInv, now' = now, NEW s \in Sessions, NEW row \in Row, SaveAs(s, row),
           row.cancel => row.status = "active",
           row.source = "dunning" =>
               row.status = "suspended" /\ sub.status = "suspended" /\ suspender = "job"
    PROVE  /\ RowInv' /\ SessionInv' /\ JobInv'
           /\ sub' \in Row /\ suspender' \in {"none", "job", "admin"}
           /\ session' \in [Sessions -> SessionRecord] /\ job' \in [Jobs -> JobRecord]
<1> USE DEF IInv
<1>1. /\ RowInv' /\ sub' = row /\ suspender' \in {"none", "job", "admin"}
  BY SaveRow DEF SaveAs
<1>2. /\ session' = [OutdatedSessions EXCEPT ![s] = NoSession]
      /\ job' = OutdatedJobs
  BY DEF SaveAs
<1>3. /\ session' \in [Sessions -> SessionRecord]
      /\ \A t \in Sessions : /\ SavesNothing(session'[t]) \/ session'[t].op = "refused"
                             /\ session'[t].op \notin {"cancel", "confirm"}
  <2>1. SavesNothing(NoSession) /\ NoSession.op \notin {"cancel", "confirm"} /\ NoSession \in SessionRecord
    BY BlankType DEF SavesNothing
  <2>2. /\ OutdatedSessions \in [Sessions -> SessionRecord]
        /\ \A t \in Sessions : /\ SavesNothing(OutdatedSessions[t]) \/ OutdatedSessions[t].op = "refused"
                               /\ OutdatedSessions[t].op \notin {"cancel", "confirm"}
    BY OutdatedSessionsType
  <2> QED BY <1>2, <2>1, <2>2
<1>4. SessionInv'
  BY <1>3 DEF SessionInv, SavesNothing
<1>5. job' \in [Jobs -> JobRecord] /\ JobInv'
  BY <1>2, OutdatedJobsType DEF JobInv
<1> QED BY <1>1, <1>3, <1>4, <1>5

LEMMA SameRowTransitive ==
    ASSUME NEW a, NEW b, NEW c, SameRow(a, b), SameRow(b, c)
    PROVE  SameRow(a, c)
BY DEF SameRow

-----------------------------------------------------------------------------
(* Requests *)

LEMMA OpenInv ==
    ASSUME IInv, NEW s \in Sessions, NEW op \in Ops, NEW payment \in Payments \cup {NoPayment},
           NEW pending \in SUBSET Payments, Open(s, op, payment, pending),
           op = "cancel" => sub.status = "active",
           op = "confirm" => payment \in Payments
    PROVE  IInv'
<1> USE DEF IInv
<1> DEFINE new == [op |-> op, doc |-> IF op = "request" THEN Blank ELSE sub,
                   payment |-> payment, pending |-> pending, closed |-> closed]
<1>1. /\ session' = [session EXCEPT ![s] = new] /\ events' = events + 1
      /\ UNCHANGED <<now, sub, pay, closed, job, warned, suspender, activated>>
  BY DEF Open
<1>2. new \in SessionRecord
  BY BlankType DEF SessionRecord, TypeOK
<1>3. /\ SavesNothing(new) \/ new.op = "refused" \/ SameRow(new.doc, sub)
      /\ new.op = "cancel" => new.doc.status = "active"
      /\ new.op = "confirm" => new.payment \in Payments
  BY DEF SavesNothing, SameRow
<1> HIDE DEF new
<1>4. TypeOK'
  BY <1>1, <1>2 DEF TypeOK, SessionRecord
<1>5. SessionInv'
  BY <1>1, <1>3 DEF SessionInv, SavesNothing, SameRow, TypeOK
<1>6. JobInv' /\ RowInv' /\ PayInv'
  BY <1>1 DEF JobInv, RowInv, PayInv, SameRow
<1> QED BY <1>4, <1>5, <1>6

LEMMA BeginInv ==
    ASSUME IInv, NEW s \in Sessions,
           \/ BeginCancel(s) \/ BeginRevoke(s) \/ BeginDelete(s) \/ BeginRequest(s)
           \/ BeginUpgrade(s) \/ BeginEdit(s) \/ \E p \in Payments : BeginConfirm(s, p)
    PROVE  IInv'
<1>1. PendingPayments \in SUBSET Payments
  BY DEF PendingPayments
<1>2. {"cancel", "revoke", "delete", "request", "confirm", "upgrade", "edit"} \subseteq Ops
  BY DEF Ops
<1>3. CASE BeginCancel(s)
  BY <1>2, <1>3, OpenInv DEF BeginCancel
<1>4. CASE BeginRevoke(s)
  BY <1>2, <1>4, OpenInv DEF BeginRevoke
<1>5. CASE BeginDelete(s)
  BY <1>1, <1>2, <1>5, OpenInv DEF BeginDelete
<1>6. CASE BeginRequest(s)
  BY <1>1, <1>2, <1>6, OpenInv DEF BeginRequest
<1>7. CASE BeginUpgrade(s)
  BY <1>2, <1>7, OpenInv DEF BeginUpgrade
<1>8. CASE BeginEdit(s)
  BY <1>2, <1>8, OpenInv DEF BeginEdit
<1>9. ASSUME NEW p \in Payments, BeginConfirm(s, p) PROVE IInv'
  BY <1>2, <1>9, OpenInv DEF BeginConfirm
<1> QED BY <1>3, <1>4, <1>5, <1>6, <1>7, <1>8, <1>9

\* Only the session changes, to none
LEMMA CloseInv ==
    ASSUME IInv, NEW s \in Sessions, Close(s), UNCHANGED <<now, sub, job, suspender>>
    PROVE  /\ session' \in [Sessions -> SessionRecord]
           /\ SessionInv' /\ JobInv' /\ RowInv'
<1> USE DEF IInv
<1>1. session' = [session EXCEPT ![s] = NoSession] /\ session \in [Sessions -> SessionRecord]
  BY DEF Close, TypeOK, SessionRecord
<1>2. NoSession \in SessionRecord /\ SavesNothing(NoSession) /\ NoSession.op \notin {"cancel", "confirm"}
  BY BlankType DEF SavesNothing
<1>3. SessionInv'
  BY <1>1, <1>2 DEF SessionInv, SavesNothing, SameRow
<1>4. JobInv' /\ RowInv'
  BY DEF JobInv, RowInv, SameRow
<1> QED BY <1>1, <1>2, <1>3, <1>4

\* What is known of the document of a request that saves it
LEMMA DocInv ==
    ASSUME IInv, NEW s \in Sessions,
           session[s].op \in {"cancel", "revoke", "confirm", "upgrade", "edit"}
             \/ (session[s].op = "delete" /\ session[s].doc.status # "canceled")
    PROVE  /\ session[s].doc \in Row /\ SameRow(session[s].doc, sub)
           /\ session[s].doc.cancel => session[s].doc.status = "active"
           /\ session[s].doc.source = "dunning" =>
                  /\ session[s].doc.status = "suspended"
                  /\ sub.status = "suspended" /\ suspender = "job"
           /\ session[s].op = "cancel" => session[s].doc.status = "active"
<1> USE DEF IInv
<1>1. session[s].doc \in Row
  BY DEF TypeOK
<1>2. SameRow(session[s].doc, sub) /\ (session[s].op = "cancel" => session[s].doc.status = "active")
  BY DEF SessionInv, SavesNothing
<1> QED BY <1>1, <1>2 DEF SameRow, RowInv

LEMMA SetCancelInv ==
    ASSUME IInv, NEW s \in Sessions, SetCancel(s)
    PROVE  IInv'
<1> USE DEF IInv
<1> DEFINE doc == session[s].doc
           c == session[s].op = "cancel"
           row == [doc EXCEPT !.cancel = c]
<1>1. /\ doc \in Row
      /\ doc.source = "dunning" =>
             doc.status = "suspended" /\ sub.status = "suspended" /\ suspender = "job"
      /\ c => doc.status = "active"
  BY DocInv DEF SetCancel
<1>2. /\ SaveAs(s, row)
      /\ UNCHANGED <<now, pay, closed, events, warned, activated>>
  BY DEF SetCancel
<1>3. c \in BOOLEAN
  OBVIOUS
<1> HIDE DEF doc, c
<1>4. /\ row \in Row /\ row.status = doc.status /\ row.source = doc.source
      /\ row.cancel => c
  BY <1>1, <1>3 DEF Row
<1> HIDE DEF row
<1>5. /\ RowInv' /\ SessionInv' /\ JobInv'
      /\ sub' \in Row /\ suspender' \in {"none", "job", "admin"}
      /\ session' \in [Sessions -> SessionRecord] /\ job' \in [Jobs -> JobRecord]
  BY <1>1, <1>2, <1>4, SaveAsInv
<1> QED BY <1>2, <1>5 DEF TypeOK, SessionRecord, JobRecord, PayInv

\* A payment or an upgrade starts a period, and makes everything loaded before out of date.
LEMMA ActivateInv ==
    ASSUME IInv, now' = now, NEW s \in Sessions, NEW plan \in Plans, Activate(s, plan),
           session[s].op \in {"confirm", "upgrade"}
    PROVE  /\ RowInv' /\ SessionInv' /\ JobInv' /\ warned' = FALSE
           /\ sub' \in Row /\ suspender' \in {"none", "job", "admin"}
           /\ session' \in [Sessions -> SessionRecord] /\ job' \in [Jobs -> JobRecord]
<1> USE DEF IInv
<1> DEFINE doc == session[s].doc
           row == Upgraded(doc, plan)
<1>1. /\ doc \in Row
      /\ doc.source = "dunning" => doc.status = "suspended"
  BY DocInv
<1>2. SaveAs(s, row) /\ warned' = FALSE
  BY DEF Activate
<1>3. /\ row \in Row /\ ~row.cancel
      /\ row.source = "dunning" => doc.source = "dunning" /\ doc.status # "suspended"
  <2>1. now \in Nat
    BY DEF TypeOK
  <2> HIDE DEF doc
  <2> QED BY <1>1, <2>1, UpgradedType
<1> HIDE DEF doc, row
<1> QED BY <1>1, <1>2, <1>3, SaveAsInv

LEMMA UpgradeInv ==
    ASSUME IInv, NEW s \in Sessions, NEW plan \in Plans, Upgrade(s, plan)
    PROVE  IInv'
<1> USE DEF IInv
<1>1. /\ Activate(s, plan) /\ session[s].op = "upgrade"
      /\ UNCHANGED <<now, pay, closed, events, activated>>
  BY DEF Upgrade
<1>2. /\ RowInv' /\ SessionInv' /\ JobInv' /\ warned' = FALSE
      /\ sub' \in Row /\ suspender' \in {"none", "job", "admin"}
      /\ session' \in [Sessions -> SessionRecord] /\ job' \in [Jobs -> JobRecord]
  BY <1>1, ActivateInv
<1> QED BY <1>1, <1>2 DEF TypeOK, SessionRecord, JobRecord, PayInv

\* The lock and the second look: one transfer, one period.
LEMMA ConfirmInv ==
    ASSUME IInv, NEW s \in Sessions, Confirm(s)
    PROVE  IInv'
<1> USE DEF IInv
<1> DEFINE p == session[s].payment
<1>1. /\ session[s].op = "confirm" /\ pay[p].status = "pending"
      /\ pay' = [pay EXCEPT ![p].status = "confirmed"]
      /\ Activate(s, pay[p].plan)
      /\ activated' = [activated EXCEPT ![p] = @ + 1]
      /\ UNCHANGED <<now, closed, events>>
  BY DEF Confirm
<1>2. p \in Payments
  BY <1>1 DEF SessionInv
<1>3. pay[p].plan \in Plans
  BY <1>2 DEF TypeOK, PaymentRow
<1> HIDE DEF p
<1>4. /\ RowInv' /\ SessionInv' /\ JobInv' /\ warned' = FALSE
      /\ sub' \in Row /\ suspender' \in {"none", "job", "admin"}
      /\ session' \in [Sessions -> SessionRecord] /\ job' \in [Jobs -> JobRecord]
  <2>1. session[s].op \in {"confirm", "upgrade"}
    BY <1>1
  <2> QED BY <1>1, <1>3, <2>1, ActivateInv
<1>5. pay' \in [Payments -> PaymentRow] /\ activated' \in [Payments -> Nat] /\ PayInv'
  <2>1. activated[p] = 0
    BY <1>1, <1>2 DEF PayInv
  <2>2. pay \in [Payments -> PaymentRow] /\ activated \in [Payments -> Nat]
    BY DEF TypeOK
  <2>3. pay' \in [Payments -> PaymentRow] /\ activated' \in [Payments -> Nat]
    BY <1>1, <1>2, <2>2 DEF PaymentRow
  <2>4. ASSUME NEW q \in Payments
        PROVE /\ pay'[q].status \in {"none", "pending"} => activated'[q] = 0
              /\ pay'[q].status = "confirmed" => activated'[q] = 1
              /\ activated'[q] \in {0, 1}
    <3>1. CASE q = p
      <4>1. pay'[q].status = "confirmed" /\ activated'[q] = 1
        BY <1>1, <1>2, <2>1, <2>2, <3>1 DEF PaymentRow
      <4> QED BY <4>1
    <3>2. CASE q # p
      <4>1. pay'[q] = pay[q] /\ activated'[q] = activated[q]
        BY <1>1, <1>2, <2>2, <3>2
      <4> QED BY <4>1 DEF PayInv
    <3> QED BY <3>1, <3>2
  <2> QED BY <2>3, <2>4 DEF PayInv
<1> QED BY <1>1, <1>4, <1>5 DEF TypeOK, SessionRecord, JobRecord

LEMMA EditInv ==
    ASSUME IInv, NEW s \in Sessions, NEW st \in Statuses, Edit(s, st)
    PROVE  IInv'
<1> USE DEF IInv
<1> DEFINE doc == session[s].doc
           row == WithStatus(doc, st)
<1>1. /\ doc \in Row
      /\ doc.source = "dunning" =>
             doc.status = "suspended" /\ sub.status = "suspended" /\ suspender = "job"
      /\ doc.cancel => st \in {"active", "canceled"}
  BY DocInv DEF Edit, Allowed
<1>2. /\ SaveAs(s, row)
      /\ UNCHANGED <<now, pay, closed, events, warned, activated>>
  BY DEF Edit
<1> HIDE DEF doc
<1>3. /\ row \in Row /\ row.status = st
      /\ row.cancel => doc.cancel /\ st # "canceled"
      /\ row.source = "dunning" =>
             doc.source = "dunning" /\ (doc.status = "suspended" => st = "suspended")
  BY <1>1, WithStatusType
<1> HIDE DEF row
<1>4. /\ RowInv' /\ SessionInv' /\ JobInv'
      /\ sub' \in Row /\ suspender' \in {"none", "job", "admin"}
      /\ session' \in [Sessions -> SessionRecord] /\ job' \in [Jobs -> JobRecord]
  BY <1>1, <1>2, <1>3, SaveAsInv
<1> QED BY <1>2, <1>4 DEF TypeOK, SessionRecord, JobRecord, PayInv

LEMMA DeleteInv ==
    ASSUME IInv, NEW s \in Sessions, Delete(s)
    PROVE  IInv'
<1> USE DEF IInv
<1> DEFINE doc == session[s].doc
           row == WithStatus(doc, "canceled")
           waiting == session[s].pending
<1>1. /\ session[s].op = "delete" /\ closed' = TRUE
      /\ pay' = [p \in Payments |-> IF p \in waiting
                                    THEN [pay[p] EXCEPT !.status = "rejected"] ELSE pay[p]]
      /\ UNCHANGED <<now, events, warned, activated>>
      /\ IF doc.status = "canceled"
         THEN Close(s) /\ UNCHANGED <<sub, suspender, job>>
         ELSE SaveAs(s, row)
  BY DEF Delete
<1>2. pay' \in [Payments -> PaymentRow] /\ PayInv'
  <2>1. \A p \in Payments : /\ pay[p] \in PaymentRow
                            /\ pay'[p] = pay[p] \/ (pay'[p] = [pay[p] EXCEPT !.status = "rejected"])
    BY <1>1 DEF TypeOK
  <2>2. \A p \in Payments : /\ pay'[p] \in PaymentRow
                            /\ pay'[p].status = pay[p].status \/ pay'[p].status = "rejected"
    BY <2>1 DEF PaymentRow
  <2>3. PayInv'
    BY <1>1, <2>2 DEF PayInv
  <2> QED BY <1>1, <2>2, <2>3
<1>3. /\ RowInv' /\ SessionInv' /\ JobInv'
      /\ sub' \in Row /\ suspender' \in {"none", "job", "admin"}
      /\ session' \in [Sessions -> SessionRecord] /\ job' \in [Jobs -> JobRecord]
  <2>1. CASE doc.status = "canceled"
    BY <1>1, <2>1, CloseInv DEF TypeOK, JobRecord
  <2>2. CASE doc.status # "canceled"
    <3>1. /\ doc \in Row
          /\ doc.source = "dunning" => doc.status = "suspended"
      BY <1>1, <2>2, DocInv
    <3>2. "canceled" \in Statuses
      BY DEF Statuses
    <3> HIDE DEF doc
    <3>3. /\ row \in Row
          /\ row.cancel => doc.cancel /\ "canceled" # "canceled"
          /\ row.source = "dunning" =>
                 doc.source = "dunning" /\ (doc.status = "suspended" => "canceled" = "suspended")
      BY <3>1, <3>2, WithStatusType
    <3> HIDE DEF row
    <3> QED BY <1>1, <2>2, <3>1, <3>3, SaveAsInv
  <2> QED BY <2>1, <2>2
<1> QED BY <1>1, <1>2, <1>3 DEF TypeOK, SessionRecord, JobRecord

LEMMA RequestInv ==
    ASSUME IInv, NEW s \in Sessions, NEW p \in Payments, NEW plan \in Plans, Request(s, p, plan)
    PROVE  IInv'
<1> USE DEF IInv
<1>1. /\ pay[p].status \in {"none", "pending"}
      /\ pay' = [pay EXCEPT ![p] = [status |-> "pending", plan |-> plan]]
      /\ Close(s)
      /\ UNCHANGED <<now, sub, closed, job, events, warned, suspender, activated>>
  BY DEF Request
<1>2. session' \in [Sessions -> SessionRecord] /\ SessionInv' /\ JobInv' /\ RowInv'
  BY <1>1, CloseInv
<1>3. pay' \in [Payments -> PaymentRow] /\ PayInv'
  BY <1>1 DEF TypeOK, PaymentRow, PayInv
<1> QED BY <1>1, <1>2, <1>3 DEF TypeOK, SessionRecord

LEMMA RejectInv ==
    ASSUME IInv, NEW p \in Payments, Reject(p)
    PROVE  IInv'
<1> USE DEF IInv
<1>1. /\ pay[p].status = "pending" /\ pay' = [pay EXCEPT ![p].status = "rejected"]
      /\ UNCHANGED <<now, sub, closed, session, job, events, warned, suspender, activated>>
  BY DEF Reject
<1>2. pay' \in [Payments -> PaymentRow] /\ PayInv'
  BY <1>1 DEF TypeOK, PaymentRow, PayInv
<1> QED BY <1>1, <1>2 DEF TypeOK, SessionInv, JobInv, RowInv, SavesNothing, SameRow

LEMMA RolledBackInv ==
    ASSUME IInv, NEW s \in Sessions, RolledBack(s)
    PROVE  IInv'
<1> USE DEF IInv
<1>1. /\ Close(s)
      /\ UNCHANGED <<now, sub, pay, closed, job, events, warned, suspender, activated>>
  BY DEF RolledBack
<1>2. session' \in [Sessions -> SessionRecord] /\ SessionInv' /\ JobInv' /\ RowInv'
  BY <1>1, CloseInv
<1> QED BY <1>1, <1>2 DEF TypeOK, SessionRecord, PayInv

-----------------------------------------------------------------------------
(* The jobs *)

\* A job goes on to a place where it has listed nothing
LEMMA GoesOn ==
    ASSUME IInv, NEW j \in Jobs, NEW next \in JobRecord, ~next.listed,
           job' = [job EXCEPT ![j] = next], now' = now,
           sub' = sub \/ (SameRow(sub', sub))
    PROVE  job' \in [Jobs -> JobRecord] /\ JobInv'
<1> USE DEF IInv
<1>1. job \in [Jobs -> JobRecord]
  BY DEF TypeOK, JobRecord
<1>2. ASSUME NEW i \in Jobs, job'[i].listed
      PROVE /\ job'[i].step # "idle"
            /\ job'[i].fresh => SameRow(job'[i].doc, sub')
            /\ job'[i].step = "trialExpire" => TrialEnd < now'
            /\ job'[i].step \in {"finalize", "expire", "suspend", "lapse"} =>
                   0 < job'[i].doc.end /\ job'[i].doc.end < now'
  <2>1. job'[i] = job[i]
    BY <1>1, <1>2
  <2> QED BY <1>2, <2>1 DEF JobInv, SameRow
<1> QED BY <1>1, <1>2 DEF JobInv

LEMMA StartInv ==
    ASSUME IInv, NEW j \in Jobs, Start(j)
    PROVE  IInv'
<1> USE DEF IInv
<1> DEFINE first == IF j = "trial" THEN "trialRemind" ELSE "renewal"
<1>1. /\ job[j].step = "idle"
      /\ job' = [job EXCEPT ![j].step = first]
      /\ UNCHANGED <<now, sub, pay, closed, session, events, warned, suspender, activated>>
  BY DEF Start
<1>2. job \in [Jobs -> JobRecord] /\ ~job[j].listed
  BY <1>1 DEF TypeOK, JobRecord, JobInv
<1>3. first \in Steps
  BY DEF Steps
<1> HIDE DEF first
<1>4. /\ [job[j] EXCEPT !.step = first] \in JobRecord
      /\ ~[job[j] EXCEPT !.step = first].listed
  BY <1>2, <1>3 DEF JobRecord
<1>5. job' \in [Jobs -> JobRecord] /\ JobInv'
  BY <1>1, <1>4, GoesOn
<1> QED BY <1>1, <1>5 DEF TypeOK, JobRecord, SessionInv, RowInv, PayInv, SavesNothing, SameRow

\* What a job lists is due
LEMMA DueFacts ==
    ASSUME NEW step, NEW first, Due(step, first), TypeOK
    PROVE  /\ step # "idle"
           /\ step = "trialExpire" => TrialEnd < now
           /\ step \in {"finalize", "expire", "suspend", "lapse"} => 0 < sub.end /\ sub.end < now
<1>1. sub.end \in Nat /\ now \in Nat /\ SuspendAfter \in Nat /\ ExpireAfter \in Nat
  BY SubscriptionAssumption DEF TypeOK, Row
<1>2. CASE step = "trialExpire"
  BY <1>2 DEF Due
<1>3. CASE step \in {"finalize", "expire"}
  BY <1>1, <1>3 DEF Due, Overdue
<1>4. CASE step = "suspend"
  BY <1>1, <1>4 DEF Due, Overdue
<1>5. CASE step = "lapse"
  BY <1>1, <1>5 DEF Due, Overdue
<1>6. step # "idle"
  BY DEF Due
<1> QED BY <1>2, <1>3, <1>4, <1>5, <1>6

LEMMA ListInv ==
    ASSUME IInv, NEW j \in Jobs, List(j)
    PROVE  IInv'
<1> USE DEF IInv
<1>1. /\ job[j].step # "idle" /\ ~job[j].listed
      /\ UNCHANGED <<now, sub, pay, closed, session, events, warned, suspender, activated>>
  BY DEF List
<1>2. job \in [Jobs -> JobRecord] /\ job[j] \in JobRecord /\ sub \in Row
  BY DEF TypeOK, JobRecord
<1>3. job' \in [Jobs -> JobRecord] /\ JobInv'
  <2>1. CASE ~Due(job[j].step, job[j].first)
    <3>1. job' = [job EXCEPT ![j] = Advanced(j)]
      BY <2>1 DEF List
    <3>2. Advanced(j) \in JobRecord /\ ~Advanced(j).listed
      BY <1>1, AdvancedType, BlankType
    <3> QED BY <1>1, <3>1, <3>2, GoesOn
  <2>2. CASE Due(job[j].step, job[j].first)
    <3> DEFINE stage == Stage(job[j].step)
               first == sub.dunning = 0
               listed == [job[j] EXCEPT !.listed = TRUE, !.doc = sub, !.fresh = TRUE,
                                        !.stage = stage, !.first = first]
    <3>1. job' = [job EXCEPT ![j] = listed]
      BY <2>2 DEF List
    <3>2. stage \in 0..3 /\ first \in BOOLEAN
      BY <1>2, StageType DEF JobRecord
    <3> HIDE DEF stage, first
    <3>3. listed \in JobRecord /\ listed.step = job[j].step /\ listed.doc = sub
      BY <1>2, <3>2 DEF JobRecord
    <3> HIDE DEF listed
    <3>4. /\ job[j].step = "trialExpire" => TrialEnd < now
          /\ job[j].step \in {"finalize", "expire", "suspend", "lapse"} => 0 < sub.end /\ sub.end < now
      BY <2>2, DueFacts
    <3>5. SameRow(sub, sub)
      BY DEF SameRow
    <3>6. ASSUME NEW i \in Jobs, job'[i].listed
          PROVE /\ job'[i].step # "idle"
                /\ job'[i].fresh => SameRow(job'[i].doc, sub')
                /\ job'[i].step = "trialExpire" => TrialEnd < now'
                /\ job'[i].step \in {"finalize", "expire", "suspend", "lapse"} =>
                       0 < job'[i].doc.end /\ job'[i].doc.end < now'
      <4>1. CASE i = j
        BY <1>1, <1>2, <3>1, <3>3, <3>4, <3>5, <4>1
      <4>2. CASE i # j
        <5>1. job'[i] = job[i]
          BY <1>2, <3>1, <4>2
        <5> QED BY <1>1, <3>6, <5>1 DEF JobInv
      <4> QED BY <4>1, <4>2
    <3> QED BY <1>2, <3>1, <3>3, <3>6 DEF JobInv
  <2> QED BY <2>1, <2>2
<1> QED BY <1>1, <1>3 DEF TypeOK, JobRecord, SessionInv, RowInv, PayInv, SavesNothing, SameRow

\* Only flags are written, so no document goes out of date
LEMMA RemindInv ==
    ASSUME IInv, NEW j \in Jobs, Remind(j)
    PROVE  IInv' /\ SameRow(sub', sub)
<1> USE DEF IInv
<1>1. /\ job[j].listed /\ sub' = Reminded(sub, job[j].step, job[j].stage)
      /\ warned' = (warned \/ (job[j].step = "dunning" /\ job[j].doc.end = sub.end))
      /\ job' = [job EXCEPT ![j] = Advanced(j)]
      /\ UNCHANGED <<now, pay, closed, session, events, suspender, activated>>
  BY DEF Remind
<1>2. job[j] \in JobRecord /\ sub \in Row /\ job[j].step # "idle"
  BY <1>1 DEF TypeOK, JobRecord, JobInv
<1>3. sub' \in Row /\ SameRow(sub', sub)
  BY <1>1, <1>2, RemindedType DEF JobRecord
<1>4. job' \in [Jobs -> JobRecord] /\ JobInv'
  <2>1. Advanced(j) \in JobRecord /\ ~Advanced(j).listed
    BY <1>2, AdvancedType, BlankType
  <2> QED BY <1>1, <1>3, <2>1, GoesOn
<1>5. SessionInv'
  BY <1>1, <1>3 DEF SessionInv, SavesNothing, SameRow
<1>6. RowInv' /\ PayInv'
  BY <1>1, <1>3 DEF RowInv, PayInv, SameRow
<1>7. warned' \in BOOLEAN
  BY <1>1 DEF TypeOK
<1> QED BY <1>1, <1>3, <1>4, <1>5, <1>6, <1>7 DEF TypeOK, JobRecord

\* What a transition of a job has before it
LEMMA TransitFacts ==
    ASSUME IInv, NEW j \in Jobs, Transit(j)
    PROVE  LET step == job[j].step
               doc == job[j].doc
           IN /\ step \in Steps /\ step # "idle" /\ step \notin Reminders
              /\ doc \in Row /\ SameRow(doc, sub)
              /\ StillDue(step, sub)
              /\ sub' = Worked(step, doc)
              /\ step = "trialExpire" => TrialEnd < now
              /\ step \in {"finalize", "expire", "suspend", "lapse"} => 0 < sub.end /\ sub.end < now
<1>1. job[j] \in JobRecord
  BY DEF IInv, TypeOK, JobRecord
<1>2. /\ job[j].listed /\ job[j].fresh /\ job[j].step \notin Reminders
      /\ StillDue(job[j].step, sub) /\ sub' = Worked(job[j].step, job[j].doc)
  BY DEF Transit, Save
<1> QED BY <1>1, <1>2 DEF IInv, JobInv, JobRecord, SameRow

\* A job saves only what is as it was listed.
LEMMA TransitInv ==
    ASSUME IInv, NEW j \in Jobs, Transit(j)
    PROVE  IInv'
<1> USE DEF IInv
<1> DEFINE step == job[j].step
           doc == job[j].doc
           row == Worked(step, doc)
<1>1. /\ step \in Steps /\ step # "idle" /\ step \notin Reminders
      /\ doc \in Row /\ SameRow(doc, sub)
      /\ StillDue(step, sub)
  BY TransitFacts
<1>2. /\ Save(row, "job") /\ session' = OutdatedSessions
      /\ job' = [OutdatedJobs EXCEPT ![j] = Advanced(j)]
      /\ UNCHANGED <<now, pay, closed, events, warned, activated>>
  BY DEF Transit
<1> HIDE DEF step, doc
<1>3. /\ row \in Row
      /\ row.cancel => doc.cancel /\ row.status # "canceled"
      /\ step = "finalize" => row.status = "canceled"
      /\ step = "suspend" => row.status = "suspended"
      /\ row.source = "dunning" =>
             step = "suspend" \/ (doc.source = "dunning" /\ doc.status # "suspended")
  BY <1>1, WorkedType
<1>4. ~row.cancel
  <2>1. step \in {"trialExpire", "finalize", "expire", "suspend", "lapse"}
    BY <1>1 DEF Steps, Reminders
  <2>2. CASE step = "finalize"
    BY <1>3, <2>2
  <2>3. CASE step # "finalize"
    <3>1. sub.status # "active" \/ ~sub.cancel
      BY <1>1, <2>1, <2>3 DEF StillDue
    <3> QED BY <1>1, <1>3, <3>1 DEF RowInv, SameRow
  <2> QED BY <2>2, <2>3
<1>5. row.source = "dunning" => step = "suspend" /\ sub.status = "past_due"
  BY <1>1, <1>3 DEF RowInv, SameRow, StillDue
<1> HIDE DEF row
<1>6. RowInv' /\ sub' = row /\ suspender' \in {"none", "job", "admin"}
  BY <1>2, <1>3, <1>4, <1>5, SaveRow
<1>7. session' \in [Sessions -> SessionRecord] /\ SessionInv'
  BY <1>2, OutdatedSessionsType DEF SessionInv, SavesNothing
<1>8. job' \in [Jobs -> JobRecord] /\ JobInv'
  <2>1. Advanced(j) \in JobRecord /\ ~Advanced(j).listed
    BY <1>1, AdvancedType, BlankType DEF step
  <2>2. /\ OutdatedJobs \in [Jobs -> JobRecord]
        /\ \A i \in Jobs :
              /\ OutdatedJobs[i].step = job[i].step /\ OutdatedJobs[i].listed = job[i].listed
              /\ ~OutdatedJobs[i].fresh
              /\ OutdatedJobs[i].doc.end = job[i].doc.end
    BY OutdatedJobsType
  <2>3. job' \in [Jobs -> JobRecord]
    BY <1>2, <2>1, <2>2
  <2>4. ASSUME NEW i \in Jobs, job'[i].listed
        PROVE /\ job'[i].step # "idle"
              /\ job'[i].fresh => SameRow(job'[i].doc, sub')
              /\ job'[i].step = "trialExpire" => TrialEnd < now'
              /\ job'[i].step \in {"finalize", "expire", "suspend", "lapse"} =>
                     0 < job'[i].doc.end /\ job'[i].doc.end < now'
    <3>1. i # j /\ job'[i] = OutdatedJobs[i]
      BY <1>2, <2>1, <2>2, <2>4
    <3> QED BY <1>2, <2>2, <2>4, <3>1 DEF JobInv
  <2> QED BY <2>3, <2>4 DEF JobInv
<1> QED BY <1>2, <1>3, <1>6, <1>7, <1>8 DEF TypeOK, SessionRecord, JobRecord, PayInv

LEMMA SkipInv ==
    ASSUME IInv, NEW j \in Jobs, Skip(j)
    PROVE  IInv'
<1> USE DEF IInv
<1>1. /\ job[j].listed /\ job' = [job EXCEPT ![j] = Advanced(j)]
      /\ UNCHANGED <<now, sub, pay, closed, session, events, warned, suspender, activated>>
  BY DEF Skip
<1>2. Advanced(j) \in JobRecord /\ ~Advanced(j).listed
  BY <1>1, AdvancedType, BlankType DEF JobInv
<1>3. job' \in [Jobs -> JobRecord] /\ JobInv'
  BY <1>1, <1>2, GoesOn
<1> QED BY <1>1, <1>3 DEF TypeOK, JobRecord, SessionInv, RowInv, PayInv, SavesNothing, SameRow

LEMMA KilledInv ==
    ASSUME IInv, NEW j \in Jobs, Killed(j)
    PROVE  IInv'
<1> USE DEF IInv
<1>1. /\ job' = [job EXCEPT ![j] = NoJob] /\ events' = events + 1
      /\ UNCHANGED <<now, sub, pay, closed, session, warned, suspender, activated>>
  BY DEF Killed
<1>2. job' \in [Jobs -> JobRecord] /\ JobInv'
  BY <1>1, BlankType, GoesOn
<1> QED BY <1>1, <1>2 DEF TypeOK, JobRecord, SessionInv, RowInv, PayInv, SavesNothing, SameRow

LEMMA TickInv ==
    ASSUME IInv, Tick
    PROVE  IInv'
<1> USE DEF IInv
<1>1. /\ now' = now + 1 /\ now \in Nat
      /\ UNCHANGED <<sub, pay, closed, session, job, events, warned, suspender, activated>>
  BY DEF Tick, TypeOK
<1>2. JobInv'
  <2> SUFFICES ASSUME NEW j \in Jobs, job[j].listed
               PROVE  /\ job[j].step # "idle"
                      /\ job[j].fresh => SameRow(job[j].doc, sub)
                      /\ job[j].step = "trialExpire" => TrialEnd < now + 1
                      /\ job[j].step \in {"finalize", "expire", "suspend", "lapse"} =>
                             0 < job[j].doc.end /\ job[j].doc.end < now + 1
    BY <1>1 DEF JobInv, SameRow
  <2>1. job[j].doc.end \in Nat /\ TrialEnd \in Nat
    BY SubscriptionAssumption DEF TypeOK, Row
  <2> QED BY <1>1, <2>1 DEF JobInv
<1> QED BY <1>1, <1>2 DEF TypeOK, SessionInv, RowInv, PayInv, SavesNothing, SameRow

LEMMA ReopenInv ==
    ASSUME IInv, Reopen
    PROVE  IInv'
<1> USE DEF IInv
<1>1. /\ closed' = FALSE /\ events' = events + 1
      /\ UNCHANGED <<now, sub, pay, session, job, warned, suspender, activated>>
  BY DEF Reopen
<1>2. TypeOK'
  <2>1. events' \in Nat
    BY <1>1 DEF TypeOK
  <2>2. closed' \in BOOLEAN
    BY <1>1
  <2> QED BY <1>1, <2>1, <2>2 DEF TypeOK
<1>3. SessionInv' /\ JobInv'
  BY <1>1 DEF SessionInv, JobInv, SavesNothing, SameRow
<1> QED BY <1>1, <1>2, <1>3 DEF RowInv, PayInv

-----------------------------------------------------------------------------
(* The inductive invariant *)

LEMMA InitIInv ==
    ASSUME Init, Plans # {}
    PROVE  IInv
<1>1. PICK plan \in Plans, paid \in BOOLEAN :
         sub = [Blank EXCEPT !.plan = plan,
                             !.status = IF paid THEN "active" ELSE "trial",
                             !.end = IF paid THEN 1 + PeriodLength ELSE 0]
  BY DEF Init
<1>2. Blank \in Row /\ ~Blank.cancel /\ Blank.source = "manual"
  BY APlanType DEF Blank, Row, Statuses
<1>3. sub \in Row /\ ~sub.cancel /\ sub.source = "manual"
  <2> DEFINE st == IF paid THEN "active" ELSE "trial"
             end == IF paid THEN 1 + PeriodLength ELSE 0
  <2>1. st \in Statuses /\ end \in Nat
    BY SubscriptionAssumption DEF Statuses
  <2>2. sub = [Blank EXCEPT !.plan = plan, !.status = st, !.end = end]
    BY <1>1
  <2> HIDE DEF st, end
  <2> QED BY <1>2, <2>1, <2>2 DEF Row
<1>4. NoSession \in SessionRecord /\ NoSession.op = "idle"
  BY <1>2 DEF NoSession, SessionRecord, Ops
<1>5. NoJob \in JobRecord /\ ~NoJob.listed
  BY <1>2 DEF NoJob, JobRecord, Steps
<1>6. pay \in [Payments -> PaymentRow] /\ \A p \in Payments : pay[p].status \in {"none", "pending"}
  <2>1. PICK waiting \in SUBSET Payments :
           pay = [p \in Payments |-> [status |-> IF p \in waiting THEN "pending" ELSE "none",
                                      plan |-> sub.plan]]
    BY DEF Init
  <2>2. sub.plan \in Plans
    BY <1>3 DEF Row
  <2> QED BY <2>1, <2>2 DEF PaymentRow
<1>7. TypeOK
  BY <1>3, <1>4, <1>5, <1>6 DEF Init, TypeOK, SessionRecord, JobRecord
<1>8. SessionInv /\ JobInv
  BY <1>4, <1>5 DEF Init, SessionInv, JobInv, SavesNothing
<1>9. RowInv /\ PayInv
  BY <1>3, <1>6 DEF Init, RowInv, PayInv
<1> QED BY <1>7, <1>8, <1>9 DEF IInv

LEMMA SomePlan == Init => Plans # {}
BY DEF Init

LEMMA NextIInv ==
    ASSUME IInv, [Next]_vars
    PROVE  IInv'
<1>1. ASSUME NEW s \in Sessions, RequestStep(s) PROVE IInv'
  <2>1. ASSUME NEW p \in Payments, BeginConfirm(s, p) PROVE IInv'
    BY <2>1, BeginInv
  <2>2. ASSUME NEW p \in Payments, NEW plan \in Plans, Request(s, p, plan) PROVE IInv'
    BY <2>2, RequestInv
  <2>3. ASSUME NEW plan \in Plans, Upgrade(s, plan) PROVE IInv'
    BY <2>3, UpgradeInv
  <2>4. ASSUME NEW st \in Statuses, Edit(s, st) PROVE IInv'
    BY <2>4, EditInv
  <2>5. CASE SetCancel(s)
    BY <2>5, SetCancelInv
  <2>6. CASE Confirm(s)
    BY <2>6, ConfirmInv
  <2>7. CASE Delete(s)
    BY <2>7, DeleteInv
  <2>8. CASE RolledBack(s)
    BY <2>8, RolledBackInv
  <2>9. CASE \/ BeginCancel(s) \/ BeginRevoke(s) \/ BeginDelete(s) \/ BeginRequest(s)
             \/ BeginUpgrade(s) \/ BeginEdit(s)
    BY <2>9, BeginInv
  <2> QED BY <1>1, <2>1, <2>2, <2>3, <2>4, <2>5, <2>6, <2>7, <2>8, <2>9 DEF RequestStep
<1>2. ASSUME NEW j \in Jobs, JobStep(j) \/ Killed(j) PROVE IInv'
  <2>1. CASE Start(j)
    BY <2>1, StartInv
  <2>2. CASE List(j)
    BY <2>2, ListInv
  <2>3. CASE Remind(j)
    BY <2>3, RemindInv
  <2>4. CASE Transit(j)
    BY <2>4, TransitInv
  <2>5. CASE Skip(j)
    BY <2>5, SkipInv
  <2>6. CASE Killed(j)
    BY <2>6, KilledInv
  <2> QED BY <1>2, <2>1, <2>2, <2>3, <2>4, <2>5, <2>6 DEF JobStep
<1>3. ASSUME NEW p \in Payments, Reject(p) PROVE IInv'
  BY <1>3, RejectInv
<1>4. CASE Reopen
  BY <1>4, ReopenInv
<1>5. CASE Tick
  BY <1>5, TickInv
<1>6. CASE UNCHANGED vars
  BY <1>6 DEF vars, IInv, TypeOK, SessionInv, JobInv, RowInv, PayInv, SavesNothing, SameRow
<1> QED BY <1>1, <1>2, <1>3, <1>4, <1>5, <1>6 DEF Next

LEMMA Invariance == Spec => []IInv
<1>1. Init => IInv
  BY InitIInv, SomePlan
<1>2. IInv /\ [Next]_vars => IInv'
  BY NextIInv
<1> QED BY <1>1, <1>2, PTL DEF Spec

-----------------------------------------------------------------------------
(* Theorems *)

\* Every state has its type.
THEOREM TypeCorrect == Spec => []TypeOK
<1>1. IInv => TypeOK
  BY DEF IInv
<1> QED BY <1>1, Invariance, PTL

\* M1: a confirmed transfer has started exactly one period, and none has
\* started two, however many confirm, reject, upgrade or delete at once.
THEOREM OnePeriodPerPayment == Spec => []ActivatedOnce
<1>1. IInv => ActivatedOnce
  BY DEF IInv, PayInv, ActivatedOnce
<1> QED BY <1>1, Invariance, PTL

\* A planned cancellation never outlives the active subscription it is of.
THEOREM CancelIsOfActive == Spec => []CancelOnlyWhileActive
<1>1. IInv => CancelOnlyWhileActive
  BY DEF IInv, RowInv, CancelOnlyWhileActive
<1> QED BY <1>1, Invariance, PTL

\* A step in which a job changes the status is a transition.
LEMMA JobChanges ==
    ASSUME IInv, [Next]_vars, ByJob, sub'.status # sub.status
    PROVE  \E j \in Jobs : Transit(j)
<1>1. ASSUME NEW s \in Sessions, NEW row, SaveAs(s, row) PROVE FALSE
  <2>1. job' = OutdatedJobs
    BY <1>1 DEF SaveAs
  <2> QED BY <2>1, OutdatedJobsType DEF ByJob, IInv
<1>2. ASSUME NEW s \in Sessions, RequestStep(s) PROVE FALSE
  <2>1. ASSUME job' = job PROVE FALSE
    BY <2>1 DEF ByJob
  <2>2. ASSUME NEW op, NEW payment, NEW pending, Open(s, op, payment, pending) PROVE FALSE
    BY <2>1, <2>2 DEF Open
  <2>3. CASE \/ BeginCancel(s) \/ BeginRevoke(s) \/ BeginDelete(s) \/ BeginRequest(s)
             \/ BeginUpgrade(s) \/ BeginEdit(s) \/ \E p \in Payments : BeginConfirm(s, p)
    BY <2>2, <2>3 DEF BeginCancel, BeginRevoke, BeginDelete, BeginRequest, BeginUpgrade,
                      BeginEdit, BeginConfirm
  <2>4. CASE SetCancel(s)
    BY <1>1, <2>4 DEF SetCancel
  <2>5. CASE Confirm(s)
    BY <1>1, <2>5 DEF Confirm, Activate
  <2>6. CASE Delete(s)
    BY <1>1, <2>1, <2>6 DEF Delete
  <2>7. CASE RolledBack(s)
    BY <2>1, <2>7 DEF RolledBack
  <2>8. ASSUME NEW p \in Payments, NEW plan \in Plans, Request(s, p, plan) PROVE FALSE
    BY <2>1, <2>8 DEF Request
  <2>9. ASSUME NEW plan \in Plans, Upgrade(s, plan) PROVE FALSE
    BY <1>1, <2>9 DEF Upgrade, Activate
  <2>10. ASSUME NEW st \in Statuses, Edit(s, st) PROVE FALSE
    BY <1>1, <2>10 DEF Edit
  <2> QED BY <1>2, <2>3, <2>4, <2>5, <2>6, <2>7, <2>8, <2>9, <2>10 DEF RequestStep
<1>3. ASSUME NEW j \in Jobs, Remind(j) PROVE FALSE
  BY <1>3, RemindInv DEF SameRow
<1>4. ASSUME sub' = sub PROVE FALSE
  BY <1>4
<1>5. ASSUME NEW j \in Jobs, JobStep(j) \/ Killed(j) PROVE Transit(j)
  BY <1>3, <1>4, <1>5 DEF JobStep, Start, List, Skip, Killed
<1>6. ~(\E p \in Payments : Reject(p)) /\ ~Reopen /\ ~Tick /\ ~(UNCHANGED vars)
  BY <1>4 DEF Reject, Reopen, Tick, vars
<1> QED BY <1>2, <1>5, <1>6 DEF Next

\* No job ends or suspends what is still paid for.
THEOREM PaidPeriodIsHonoured == Spec => PaidPeriodHonoured
<1>1. ASSUME IInv, [Next]_vars, ByJob, sub'.status # sub.status
      PROVE  IF sub.status = "trial" THEN TrialEnd < now ELSE Overdue(0)
  <2>1. PICK j \in Jobs : Transit(j)
    BY <1>1, JobChanges
  <2>2. /\ job[j].step \in Steps /\ job[j].step # "idle" /\ job[j].step \notin Reminders
        /\ StillDue(job[j].step, sub)
        /\ job[j].step = "trialExpire" => TrialEnd < now
        /\ job[j].step \in {"finalize", "expire", "suspend", "lapse"} => 0 < sub.end /\ sub.end < now
    BY <1>1, <2>1, TransitFacts
  <2>3. CASE job[j].step = "trialExpire"
    BY <2>2, <2>3 DEF StillDue
  <2>4. CASE job[j].step # "trialExpire"
    <3>1. job[j].step \in {"finalize", "expire", "suspend", "lapse"}
      BY <2>2, <2>4 DEF Steps, Reminders
    <3>2. sub.status # "trial"
      BY <2>2, <3>1 DEF StillDue
    <3>3. sub.end \in Nat /\ now \in Nat
      BY <1>1 DEF IInv, TypeOK, Row
    <3> QED BY <2>2, <3>1, <3>2, <3>3 DEF Overdue
  <2> QED BY <2>3, <2>4
<1>2. IInv /\ [Next]_vars =>
        [ByJob /\ sub'.status # sub.status
                  => IF sub.status = "trial" THEN TrialEnd < now ELSE Overdue(0)]_vars
  BY <1>1
<1> QED BY <1>2, Invariance, PTL DEF Spec, PaidPeriodHonoured

\* Decision D1: only a suspension of its own doing is ended by the T+30 job.
THEOREM ManualSuspensionIsLeft == Spec => ManualSuspensionStays
<1>1. ASSUME IInv, [Next]_vars, ByJob, sub.status = "suspended", sub'.status # "suspended"
      PROVE  suspender = "job"
  <2>1. PICK j \in Jobs : Transit(j)
    BY <1>1, JobChanges
  <2>2. /\ job[j].step \in Steps /\ job[j].step # "idle" /\ job[j].step \notin Reminders
        /\ StillDue(job[j].step, sub)
    BY <1>1, <2>1, TransitFacts
  <2>3. sub.source = "dunning"
    BY <1>1, <2>2 DEF StillDue
  <2> QED BY <1>1, <2>3 DEF IInv, RowInv
<1>2. IInv /\ [Next]_vars =>
        [ByJob /\ sub.status = "suspended" /\ sub'.status # "suspended"
                  => suspender = "job"]_vars
  BY <1>1
<1> QED BY <1>2, Invariance, PTL DEF Spec, ManualSuspensionStays

\* AC-8: what is to be canceled at the end of the period ends in no other way.
THEOREM CancellationIsHonoured == Spec => CancellationHonoured
<1>1. ASSUME IInv, [Next]_vars, ByJob, sub.cancel, sub'.status # sub.status
      PROVE  sub'.status = "canceled"
  <2>1. PICK j \in Jobs : Transit(j)
    BY <1>1, JobChanges
  <2>2. /\ job[j].step \in Steps /\ job[j].step # "idle" /\ job[j].step \notin Reminders
        /\ job[j].doc \in Row
        /\ StillDue(job[j].step, sub) /\ sub' = Worked(job[j].step, job[j].doc)
    BY <1>1, <2>1, TransitFacts
  <2>3. sub.status = "active"
    BY <1>1 DEF IInv, RowInv
  <2>4. job[j].step = "finalize"
    BY <1>1, <2>2, <2>3 DEF StillDue
  <2> QED BY <2>2, <2>4, WorkedType
<1>2. IInv /\ [Next]_vars =>
        [ByJob /\ sub.cancel /\ sub'.status # sub.status => sub'.status = "canceled"]_vars
  BY <1>1
<1> QED BY <1>2, Invariance, PTL DEF Spec, CancellationHonoured

\* E1: a renewal in time keeps the time already paid, whichever of two comes first.
THEOREM PaidTimeIsKept == Spec => RenewalKeepsPaidTime
<1>1. ASSUME IInv, [Next]_vars, sub.status = "active", sub'.status = "active",
             sub'.plan = sub.plan, now < sub.end, sub'.end # sub.end
      PROVE  sub'.end = sub.end + PeriodLength
  <2> USE <1>1 DEF IInv
  <2>1. ASSUME NEW s \in Sessions, NEW plan \in Plans, Activate(s, plan),
               session[s].op \in {"confirm", "upgrade"}
        PROVE  sub'.end = sub.end + PeriodLength
    <3>1. session[s].doc \in Row /\ SameRow(session[s].doc, sub)
      BY <2>1, DocInv
    <3>2. sub' = Upgraded(session[s].doc, plan)
      BY <2>1 DEF Activate, SaveAs, Save
    <3>3. /\ Upgraded(session[s].doc, plan).plan = plan
          /\ Upgraded(session[s].doc, plan).end =
               (IF Carries(session[s].doc, plan) THEN session[s].doc.end ELSE now) + PeriodLength
      <4>1. now \in Nat
        BY DEF TypeOK
      <4> QED BY <3>1, <4>1, UpgradedType
    <3>4. Carries(session[s].doc, plan)
      BY <3>1, <3>2, <3>3 DEF Carries, SameRow
    <3> QED BY <3>1, <3>2, <3>3, <3>4 DEF SameRow
  <2>2. ASSUME sub'.end = sub.end PROVE FALSE
    BY <2>2
  <2>3. ASSUME NEW s \in Sessions, RequestStep(s) PROVE sub'.end = sub.end + PeriodLength
    <3>1. ASSUME NEW p \in Payments, BeginConfirm(s, p) PROVE FALSE
      BY <2>2, <3>1 DEF BeginConfirm, Open
    <3>2. ASSUME NEW p \in Payments, NEW plan \in Plans, Request(s, p, plan) PROVE FALSE
      BY <2>2, <3>2 DEF Request
    <3>3. ASSUME NEW plan \in Plans, Upgrade(s, plan) PROVE sub'.end = sub.end + PeriodLength
      BY <2>1, <3>3 DEF Upgrade
    <3>4. ASSUME NEW st \in Statuses, Edit(s, st) PROVE FALSE
      <4>1. session[s].doc \in Row /\ SameRow(session[s].doc, sub)
        BY <3>4, DocInv DEF Edit
      <4>2. sub' = WithStatus(session[s].doc, st)
        BY <3>4 DEF Edit, SaveAs, Save
      <4> QED BY <2>2, <4>1, <4>2, WithStatusType DEF SameRow
    <3>5. CASE SetCancel(s)
      <4>1. session[s].doc \in Row /\ SameRow(session[s].doc, sub)
        BY <3>5, DocInv DEF SetCancel
      <4>2. sub' = [session[s].doc EXCEPT !.cancel = session[s].op = "cancel"]
        BY <3>5 DEF SetCancel, SaveAs, Save
      <4> QED BY <2>2, <4>1, <4>2 DEF SameRow, Row
    <3>6. CASE Confirm(s)
      <4>1. pay[session[s].payment].plan \in Plans
        BY <3>6 DEF Confirm, SessionInv, TypeOK, PaymentRow
      <4> QED BY <2>1, <3>6, <4>1 DEF Confirm
    <3>7. CASE Delete(s)
      <4>1. CASE session[s].doc.status = "canceled"
        BY <2>2, <3>7, <4>1 DEF Delete
      <4>2. CASE session[s].doc.status # "canceled"
        <5>1. "canceled" \in Statuses /\ session[s].doc \in Row
          BY <3>7, <4>2, DocInv DEF Delete, Statuses
        <5>2. sub' = WithStatus(session[s].doc, "canceled")
          BY <3>7, <4>2 DEF Delete, SaveAs, Save
        <5>3. sub'.status = "canceled"
          BY <5>1, <5>2, WithStatusType
        <5> QED BY <5>3
      <4> QED BY <4>1, <4>2
    <3>8. CASE RolledBack(s)
      BY <2>2, <3>8 DEF RolledBack
    <3>9. CASE \/ BeginCancel(s) \/ BeginRevoke(s) \/ BeginDelete(s) \/ BeginRequest(s)
               \/ BeginUpgrade(s) \/ BeginEdit(s)
      BY <2>2, <3>9 DEF BeginCancel, BeginRevoke, BeginDelete, BeginRequest, BeginUpgrade,
                        BeginEdit, Open
    <3> QED BY <2>3, <3>1, <3>2, <3>3, <3>4, <3>5, <3>6, <3>7, <3>8, <3>9 DEF RequestStep
  <2>4. ASSUME NEW j \in Jobs, JobStep(j) \/ Killed(j) PROVE FALSE
    <3>1. CASE Transit(j)
      <4>1. /\ job[j].step \in Steps /\ job[j].step # "idle" /\ job[j].step \notin Reminders
            /\ job[j].doc \in Row /\ SameRow(job[j].doc, sub)
            /\ sub' = Worked(job[j].step, job[j].doc)
        BY <3>1, TransitFacts
      <4> QED BY <2>2, <4>1, WorkedType DEF SameRow
    <3>2. CASE Remind(j)
      BY <2>2, <3>2, RemindInv DEF SameRow
    <3> QED BY <2>2, <2>4, <3>1, <3>2 DEF JobStep, Start, List, Skip, Killed
  <2> QED BY <2>2, <2>3, <2>4 DEF Next, Reject, Reopen, Tick, vars
<1>2. IInv /\ [Next]_vars =>
        [sub.status = "active" /\ sub'.status = "active" /\ sub'.plan = sub.plan
           /\ now < sub.end /\ sub'.end # sub.end
           => sub'.end = sub.end + PeriodLength]_vars
  BY <1>1
<1> QED BY <1>2, Invariance, PTL DEF Spec, RenewalKeepsPaidTime

=============================================================================
