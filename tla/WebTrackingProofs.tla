------------------------- MODULE WebTrackingProofs -------------------------
(***************************************************************************)
(* What the collector, the filing of forms and the retention promise, for  *)
(* every set of deliveries, calls and jobs, and every limit.               *)
(*                                                                         *)
(* Retention: what lost a row lies before the cutoff of some job, where no *)
(* view is stored any more, and a job that deletes has counted those days  *)
(* in full.                                                                *)
(***************************************************************************)
EXTENDS WebTracking, FiniteSetTheorems, TLAPS

(* Jobs count and delete only days to which no view is added any more.     *)
Past(row, day) == row.pc # "idle" => row.before + RETENTION <= day

CountedInFull(row) == \A d \in 1..Days :
    row.pc = "sweep" /\ d < row.before => daily[d] = seen[d]

RetentionInv ==
    /\ RetentionTypeOK
    /\ NoViewLost
    /\ \A d \in 1..Days : rows[d] <= seen[d] /\ daily[d] <= seen[d]
    /\ \A d \in 1..Days : rows[d] < seen[d] => d + RETENTION < today
    /\ \A j \in Jobs : Past(job[j], today)
    /\ \A j \in Jobs : CountedInFull(job[j])

LEMMA RetentionStarts ==
    ASSUME RetentionInit PROVE RetentionInv
<1> USE TrackingRetentionAssumption DEF RetentionInit
<1>1. NoJob \in JobRow BY DEF NoJob, JobRow
<1>2. RetentionTypeOK BY <1>1 DEF RetentionTypeOK
<1>3. \A j \in Jobs : job[j].pc = "idle" BY DEF NoJob
<1> QED BY <1>2, <1>3 DEF RetentionInv, NoViewLost, Past, CountedInFull

(* What the types say of one day, and of one job.                          *)
LEMMA DayFacts ==
    ASSUME RetentionInv, NEW d \in 1..Days
    PROVE  /\ d \in Nat /\ today \in Nat /\ RETENTION \in Nat /\ RETENTION > 0
           /\ rows[d] \in Nat /\ daily[d] \in Nat /\ seen[d] \in Nat
           /\ rows[d] <= seen[d] /\ daily[d] <= seen[d] /\ seen[d] <= MaxViews
           /\ MaxViews \in Nat
           /\ rows[d] < seen[d] => daily[d] = seen[d] /\ d + RETENTION < today
BY TrackingRetentionAssumption DEF RetentionInv, RetentionTypeOK, NoViewLost

LEMMA JobFacts ==
    ASSUME RetentionInv, NEW j \in Jobs
    PROVE  /\ job[j].pc \in {"idle", "roll", "sweep"}
           /\ job[j].before \in Nat /\ job[j].before <= Days
           /\ job[j].pass \in Nat /\ job[j].pass < MAX_SWEEP_PASSES
           /\ Days \in Nat /\ MAX_SWEEP_PASSES \in Nat
           /\ Past(job[j], today) /\ CountedInFull(job[j])
BY TrackingRetentionAssumption DEF RetentionInv, RetentionTypeOK, JobRow

LEMMA ViewKeeps ==
    ASSUME RetentionInv, NEW d \in 1..Days, View(d) PROVE RetentionInv'
<1>1. /\ today \in Nat /\ d + RETENTION >= today
      /\ rows[d] = seen[d] /\ seen[d] + 1 <= MaxViews
  BY DayFacts DEF View
<1>2. /\ rows' = [rows EXCEPT ![d] = @ + 1]
      /\ seen' = [seen EXCEPT ![d] = @ + 1]
      /\ UNCHANGED <<daily, today, job>>
  BY DEF View
<1>3. \A e \in 1..Days : /\ rows'[e] = IF e = d THEN rows[e] + 1 ELSE rows[e]
                         /\ seen'[e] = IF e = d THEN seen[e] + 1 ELSE seen[e]
  BY <1>2 DEF RetentionInv, RetentionTypeOK
<1>4. RetentionTypeOK'
  <2>1. rows' \in [1..Days -> 0..MaxViews] /\ seen' \in [1..Days -> 0..MaxViews]
    BY <1>1, <1>2, DayFacts DEF RetentionInv, RetentionTypeOK
  <2> QED BY <1>2, <2>1 DEF RetentionInv, RetentionTypeOK
<1>5. \A e \in 1..Days :
         /\ rows'[e] <= seen'[e] /\ daily'[e] <= seen'[e]
         /\ rows'[e] < seen'[e] => daily'[e] = seen'[e] /\ e + RETENTION < today'
  BY <1>1, <1>2, <1>3, DayFacts
<1>6. ASSUME NEW j \in Jobs PROVE Past(job[j], today)' /\ CountedInFull(job[j])'
  <2>1. Past(job[j], today)' BY <1>2, JobFacts DEF Past
  <2>2. ASSUME NEW e \in 1..Days, job[j].pc = "sweep", e < job[j].before
        PROVE  e # d
    BY <1>1, <2>2, JobFacts, DayFacts DEF Past
  <2>3. CountedInFull(job[j])'
    BY <1>2, <1>3, <2>2, JobFacts DEF CountedInFull
  <2> QED BY <2>1, <2>3
<1> QED BY <1>4, <1>5, <1>6 DEF RetentionInv, NoViewLost

(* A job that counts: what it will delete is counted in full from then on. *)
LEMMA RollUpKeeps ==
    ASSUME RetentionInv, NEW j \in Jobs, RollUp(j) PROVE RetentionInv'
<1>1. \A d \in 1..Days : Counted(d) = seen[d] \/ daily[d] < seen[d]
  BY DayFacts DEF Counted
<1>2. \A d \in 1..Days : Counted(d) = seen[d]
  BY <1>1, DayFacts DEF Counted
<1>3. /\ daily' = [d \in 1..Days |-> IF d < job[j].before THEN Counted(d)
                                     ELSE daily[d]]
      /\ job' = [job EXCEPT ![j].pc = "sweep"]
      /\ UNCHANGED <<rows, today, seen>>
      /\ job[j].pc = "roll"
  BY DEF RollUp
<1>4. \A d \in 1..Days :
         daily'[d] = IF d < job[j].before THEN seen[d] ELSE daily[d]
  BY <1>2, <1>3
<1>5. \A i \in Jobs :
         job'[i] = IF i = j THEN [job[i] EXCEPT !.pc = "sweep"] ELSE job[i]
  BY <1>3 DEF RetentionInv, RetentionTypeOK
<1>6. RetentionTypeOK'
  <2>1. daily' \in [1..Days -> 0..MaxViews]
    BY <1>3, <1>4, DayFacts DEF RetentionInv, RetentionTypeOK
  <2>2. job' \in [Jobs -> JobRow]
    BY <1>3 DEF RetentionInv, RetentionTypeOK, JobRow
  <2> QED BY <1>3, <2>1, <2>2 DEF RetentionInv, RetentionTypeOK
<1>7. \A d \in 1..Days :
         /\ rows'[d] <= seen'[d] /\ daily'[d] <= seen'[d]
         /\ rows'[d] < seen'[d] => daily'[d] = seen'[d] /\ d + RETENTION < today'
  BY <1>3, <1>4, DayFacts
<1>8. ASSUME NEW i \in Jobs
      PROVE  /\ job'[i].before = job[i].before
             /\ job'[i].pc = "sweep" => i = j \/ job[i].pc = "sweep"
             /\ job'[i].pc # "idle" => job[i].pc # "idle"
  BY <1>3, <1>5 DEF RetentionInv, RetentionTypeOK, JobRow
<1>9. ASSUME NEW i \in Jobs PROVE Past(job[i], today)' /\ CountedInFull(job[i])'
  BY <1>3, <1>4, <1>8, JobFacts DEF Past, CountedInFull
<1> QED BY <1>6, <1>7, <1>9 DEF RetentionInv, NoViewLost

LEMMA SweepKeeps ==
    ASSUME RetentionInv, NEW j \in Jobs, Sweep(j) PROVE RetentionInv'
<1> DEFINE old == Old(j)
           next == AfterBatch(j)
<1>1. /\ job[j].pc = "sweep"
      /\ job' = [job EXCEPT ![j] = next]
      /\ UNCHANGED <<daily, today, seen>>
  BY DEF Sweep
<1>2. PICK left \in Left(old) :
         rows' = [d \in 1..Days |-> IF d \in old THEN left[d] ELSE rows[d]]
  BY DEF Sweep
<1>0. \A d \in 1..Days : d \in old <=> d < job[j].before BY DEF Old
<1>00. old \subseteq 1..Days BY DEF Old
<1> HIDE DEF old
<1>3. \A d \in old : left[d] \in 0..MaxViews /\ left[d] <= rows[d]
  BY DEF Left
<1>4. \A d \in 1..Days : /\ rows'[d] \in 0..MaxViews /\ rows'[d] <= rows[d]
                         /\ d \notin old => rows'[d] = rows[d]
  BY <1>2, <1>3, <1>00, DayFacts
<1>5. \A d \in old : daily[d] = seen[d] /\ d + RETENTION < today
  BY <1>0, <1>00, <1>1, JobFacts, DayFacts DEF Past, CountedInFull
<1>6. /\ next \in JobRow
      /\ next.pc # "idle" => next.pc = "sweep" /\ next.before = job[j].before
  <2>1. NoJob \in JobRow /\ NoJob.pc = "idle"
    BY TrackingRetentionAssumption DEF NoJob, JobRow
  <2>2. job[j] \in JobRow BY DEF RetentionInv, RetentionTypeOK
  <2>3. CASE job[j].pass + 1 # MAX_SWEEP_PASSES
    <3> DEFINE more == [job[j] EXCEPT !.pass = @ + 1]
    <3>1. job[j].pass + 1 \in 0..(MAX_SWEEP_PASSES - 1)
      <4>1. /\ job[j].pass \in Nat /\ job[j].pass < MAX_SWEEP_PASSES
            /\ MAX_SWEEP_PASSES \in Nat
        BY JobFacts
      <4> QED BY <2>3, <4>1
    <3>2. more \in JobRow /\ more.pc = "sweep" /\ more.before = job[j].before
      BY <1>1, <2>2, <3>1 DEF JobRow
    <3> QED BY <2>1, <3>2 DEF AfterBatch
  <2>4. CASE job[j].pass + 1 = MAX_SWEEP_PASSES
    BY <2>1, <2>4 DEF AfterBatch
  <2> QED BY <2>3, <2>4
<1> HIDE DEF next
<1>7. \A i \in Jobs : job'[i] = IF i = j THEN next ELSE job[i]
  BY <1>1 DEF RetentionInv, RetentionTypeOK
<1>8. RetentionTypeOK'
  <2>1. rows' \in [1..Days -> 0..MaxViews] BY <1>2, <1>4
  <2>2. job' \in [Jobs -> JobRow]
    BY <1>1, <1>6 DEF RetentionInv, RetentionTypeOK
  <2> QED BY <1>1, <2>1, <2>2 DEF RetentionInv, RetentionTypeOK
<1>9. \A d \in 1..Days :
         /\ rows'[d] <= seen'[d] /\ daily'[d] <= seen'[d]
         /\ rows'[d] < seen'[d] => daily'[d] = seen'[d] /\ d + RETENTION < today'
  BY <1>1, <1>4, <1>5, DayFacts
<1>10. ASSUME NEW i \in Jobs PROVE Past(job[i], today)' /\ CountedInFull(job[i])'
  BY <1>1, <1>6, <1>7, JobFacts DEF Past, CountedInFull
<1> QED BY <1>8, <1>9, <1>10 DEF RetentionInv, NoViewLost

LEMMA RetentionSteps ==
    ASSUME RetentionInv, [RetentionNext]_retentionVars PROVE RetentionInv'
<1> USE TrackingRetentionAssumption
<1>1. ASSUME NEW d \in 1..Days, View(d) PROVE RetentionInv'
  BY <1>1, ViewKeeps
<1>2. ASSUME NEW j \in Jobs, RollUp(j) PROVE RetentionInv'
  BY <1>2, RollUpKeeps
<1>3. ASSUME NEW j \in Jobs, Sweep(j) PROVE RetentionInv'
  BY <1>3, SweepKeeps
<1>4. ASSUME NEW j \in Jobs, Begin(j) PROVE RetentionInv'
  <2> DEFINE row == [pc |-> "roll", before |-> today - RETENTION, pass |-> 0]
  <2>1. /\ today > RETENTION /\ job' = [job EXCEPT ![j] = row]
        /\ UNCHANGED <<rows, daily, today, seen>>
    BY <1>4 DEF Begin
  <2>2. today \in 1..Days BY DEF RetentionInv, RetentionTypeOK
  <2>3. row \in JobRow /\ Past(row, today) /\ row.pc # "sweep"
    BY <2>1, <2>2 DEF JobRow, Past
  <2> HIDE DEF row
  <2>4. \A i \in Jobs : job'[i] = IF i = j THEN row ELSE job[i]
    BY <2>1 DEF RetentionInv, RetentionTypeOK
  <2>5. RetentionTypeOK' BY <2>1, <2>3 DEF RetentionInv, RetentionTypeOK
  <2>6. ASSUME NEW i \in Jobs PROVE Past(job[i], today)' /\ CountedInFull(job[i])'
    BY <2>1, <2>3, <2>4, JobFacts DEF Past, CountedInFull
  <2> QED BY <2>1, <2>5, <2>6 DEF RetentionInv, NoViewLost
<1>5. ASSUME NEW j \in Jobs, JobStops(j) PROVE RetentionInv'
  <2>1. job' = [job EXCEPT ![j] = NoJob] /\ UNCHANGED <<rows, daily, today, seen>>
    BY <1>5 DEF JobStops
  <2>2. NoJob \in JobRow /\ NoJob.pc = "idle" BY DEF NoJob, JobRow
  <2>3. \A i \in Jobs : job'[i] = IF i = j THEN NoJob ELSE job[i]
    BY <2>1 DEF RetentionInv, RetentionTypeOK
  <2>4. RetentionTypeOK' BY <2>1, <2>2 DEF RetentionInv, RetentionTypeOK
  <2>5. ASSUME NEW i \in Jobs PROVE Past(job[i], today)' /\ CountedInFull(job[i])'
    BY <2>1, <2>2, <2>3, JobFacts DEF Past, CountedInFull
  <2> QED BY <2>1, <2>4, <2>5 DEF RetentionInv, NoViewLost
<1>6. CASE DayPasses
  <2>1. today < Days /\ today' = today + 1 /\ UNCHANGED <<rows, daily, job, seen>>
    BY <1>6 DEF DayPasses
  <2>2. today \in 1..Days BY DEF RetentionInv, RetentionTypeOK
  <2>3. RetentionTypeOK' BY <2>1, <2>2 DEF RetentionInv, RetentionTypeOK
  <2>4. \A d \in 1..Days : rows[d] < seen[d] => d + RETENTION < today'
    BY <2>1, DayFacts
  <2>5. ASSUME NEW i \in Jobs PROVE Past(job[i], today)' /\ CountedInFull(job[i])'
    BY <2>1, <2>2, JobFacts DEF Past, CountedInFull
  <2> QED BY <2>1, <2>3, <2>4, <2>5 DEF RetentionInv, NoViewLost
<1>7. CASE UNCHANGED retentionVars
  BY <1>7 DEF retentionVars, RetentionInv, RetentionTypeOK, NoViewLost, Past,
              CountedInFull
<1> QED BY <1>1, <1>2, <1>3, <1>4, <1>5, <1>6, <1>7 DEF RetentionNext

(* The retention is well typed.                                            *)
THEOREM RetentionTyped == RetentionSpec => []RetentionTypeOK
<1>1. RetentionInit => RetentionInv BY RetentionStarts
<1>2. RetentionInv /\ [RetentionNext]_retentionVars => RetentionInv'
  BY RetentionSteps
<1>3. RetentionInv => RetentionTypeOK BY DEF RetentionInv
<1> QED BY <1>1, <1>2, <1>3, PTL DEF RetentionSpec

(* No view is lost, however the nights are cut short and the jobs overlap. *)
THEOREM ViewsAreCounted == RetentionSpec => []NoViewLost
<1>1. RetentionInit => RetentionInv BY RetentionStarts
<1>2. RetentionInv /\ [RetentionNext]_retentionVars => RetentionInv'
  BY RetentionSteps
<1>3. RetentionInv => NoViewLost BY DEF RetentionInv
<1> QED BY <1>1, <1>2, <1>3, PTL DEF RetentionSpec
-----------------------------------------------------------------------------
(* Filing. What holds of one delivery; its claim on its submission; and    *)
(* its slot in the counter.                                                *)

Waiting == {"idle", "look", "suppressed", "find", "take"} \union Holding
Ended == {"note", "visitor", "tell", "done"}

Made(p) == \E c \in Contacts : contact[c].by = p

Claimer(p) == \/ p \in notes \/ At(p, "note")
              \/ At(p, "failed") /\ work[p].at = "note"

Holds(p) == \/ work[p].pc \in Holding \/ work[p].kept
            \/ At(p, "failed") /\ work[p].at \in Holding
            \/ Made(p)

(* One that waits has made no contact yet, and holds a slot of an hour or  *)
(* none.                                                                   *)
PostOK(p) ==
    /\ work[p].pc \in Ended => ~Unfiled(FormOf[p])
    /\ work[p].pc \in Waiting => ~work[p].kept /\ ~Made(p)
    /\ work[p].pc \in {"take"} \union Holding => work[p].hour \in 1..Hours

Claimed ==
    /\ \A p \in Posts : Claimer(p) => form[FormOf[p]].filed
    /\ \A p, q \in Posts : Claimer(p) /\ Claimer(q) /\ FormOf[p] = FormOf[q] => p = q
    /\ \A f \in Forms : form[f].filed => \E p \in Posts : FormOf[p] = f /\ Claimer(p)

FreeByNobody == \A c \in Contacts : contact[c].state = "free" => contact[c].by = Nobody

FilingInv ==
    /\ FilingTypeOK
    /\ FreeByNobody
    /\ \A p \in Posts : PostOK(p)
    /\ Claimed
    /\ SlotsAccounted

(* A step in which w alone moves, and what its row says afterwards.        *)
Moved(w, step, at, kept, h) ==
    /\ work' \in [Workers -> WorkRow]
    /\ work'[w].pc = step /\ work'[w].at = at
    /\ work'[w].kept = kept /\ work'[w].hour = h
    /\ \A x \in Workers : x # w => work'[x] = work[x]

Places == Busy \union {"idle", "done", "failed"}

LEMMA PostWorks == \A p \in Posts : p \in Workers /\ FormOf[p] \in Forms
                                    /\ p # "rep" /\ p # Nobody
BY FormFilingAssumption DEF Workers

LEMMA RowFacts ==
    ASSUME FilingTypeOK, NEW w \in Workers
    PROVE  /\ work[w] \in WorkRow
           /\ work[w].pc \in Places /\ work[w].at \in Busy \union {"idle"}
           /\ work[w].kept \in BOOLEAN /\ work[w].new \in BOOLEAN
           /\ work[w].hour \in 0..Hours
           /\ work[w].found \in Contacts \union {NoContact}
BY DEF FilingTypeOK, WorkRow, Places

LEMMA Becoming ==
    ASSUME FilingTypeOK, NEW w \in Workers, NEW row \in WorkRow, Becomes(w, row)
    PROVE  Moved(w, row.pc, row.at, row.kept, row.hour)
<1>1. work \in [Workers -> WorkRow] BY DEF FilingTypeOK
<1>2. work' = [work EXCEPT ![w] = row] BY DEF Becomes
<1> QED BY <1>1, <1>2 DEF Moved

LEMMA ToRow ==
    ASSUME NEW row \in WorkRow, NEW step \in Places
    PROVE  /\ To(row, step) \in WorkRow
           /\ To(row, step).pc = step /\ To(row, step).at = row.at
           /\ To(row, step).kept = row.kept /\ To(row, step).hour = row.hour
BY DEF To, WorkRow, Places

LEMMA GoMoves ==
    ASSUME FilingTypeOK, NEW w \in Workers, NEW step \in Places, Go(w, step)
    PROVE  Moved(w, step, work[w].at, work[w].kept, work[w].hour)
<1> DEFINE row == To(work[w], step)
<1>1. /\ row \in WorkRow /\ row.pc = step /\ row.at = work[w].at
      /\ row.kept = work[w].kept /\ row.hour = work[w].hour
  BY ToRow, RowFacts
<1>2. Becomes(w, row) BY DEF Go
<1> HIDE DEF row
<1> QED BY <1>1, <1>2, Becoming

LEMMA GoWithMoves ==
    ASSUME FilingTypeOK, NEW w \in Workers, NEW step \in Places,
           NEW c \in Contacts \union {NoContact}, NEW new \in BOOLEAN,
           GoWith(w, step, c, new)
    PROVE  Moved(w, step, work[w].at, work[w].kept, work[w].hour)
<1> DEFINE to == To(work[w], step)
           row == With(work[w], step, c, new)
<1>1. /\ to \in WorkRow /\ to.pc = step /\ to.at = work[w].at
      /\ to.kept = work[w].kept /\ to.hour = work[w].hour
  BY ToRow, RowFacts
<1>2. row = [to EXCEPT !.found = c, !.new = new] BY DEF With
<1>3. Becomes(w, row) BY DEF GoWith
<1> HIDE DEF to, row
<1>4. /\ row \in WorkRow /\ row.pc = step /\ row.at = work[w].at
      /\ row.kept = work[w].kept /\ row.hour = work[w].hour
  BY <1>1, <1>2 DEF WorkRow
<1> QED BY <1>3, <1>4, Becoming

LEMMA FailMoves ==
    ASSUME FilingTypeOK, NEW w \in Workers, NEW step \in Busy,
           Becomes(w, FailedAt(work[w], step))
    PROVE  Moved(w, "failed", step, work[w].kept, work[w].hour)
<1> DEFINE to == To(work[w], "failed")
           row == FailedAt(work[w], step)
<1>1. /\ to \in WorkRow /\ to.pc = "failed"
      /\ to.kept = work[w].kept /\ to.hour = work[w].hour
  BY ToRow, RowFacts DEF Places
<1>2. row = [to EXCEPT !.at = step] BY DEF FailedAt
<1>3. Becomes(w, row) OBVIOUS
<1> HIDE DEF to, row
<1>4. /\ row \in WorkRow /\ row.pc = "failed" /\ row.at = step
      /\ row.kept = work[w].kept /\ row.hour = work[w].hour
  BY <1>1, <1>2 DEF WorkRow
<1> QED BY <1>3, <1>4, Becoming

LEMMA ThrowMoves ==
    ASSUME FilingTypeOK, NEW w \in Workers, work[w].pc \in Busy, Throws(w)
    PROVE  Moved(w, "failed", work[w].pc, work[w].kept, work[w].hour)
BY FailMoves DEF Throws

(* The forms settle and are filed, and never the other way round.          *)
FormsSettle ==
    /\ \A f \in Forms : form'[f].filed = form[f].filed
    /\ \A f \in Forms : ~Unfiled(f) => ~Unfiled(f)'

(* A delivery that did not move.                                           *)
Still(p) == /\ work'[p] = work[p]
            /\ p \in notes' <=> p \in notes
            /\ Made(p)' <=> Made(p)

LEMMA StillPost ==
    ASSUME FilingInv, NEW p \in Posts, Still(p),
           \A f \in Forms : ~Unfiled(f) => ~Unfiled(f)'
    PROVE  /\ PostOK(p)' /\ Claimer(p)' = Claimer(p) /\ Holds(p)' = Holds(p)
           /\ work'[p].hour = work[p].hour
<1>1. PostOK(p) BY DEF FilingInv
<1>2. FormOf[p] \in Forms BY PostWorks
<1>3. ~Unfiled(FormOf[p]) => ~Unfiled(FormOf[p])' BY <1>2
<1>4. PostOK(p)'
  BY <1>1, <1>3 DEF PostOK, Still
<1>5. Claimer(p)' <=> Claimer(p) BY DEF Claimer, Still, At
<1>6. Holds(p)' <=> Holds(p) BY DEF Holds, Still, At
<1>7. Claimer(p) \in BOOLEAN /\ Claimer(p)' \in BOOLEAN
      /\ Holds(p) \in BOOLEAN /\ Holds(p)' \in BOOLEAN
  BY Zenon DEF Claimer, Holds, At
<1> QED BY <1>4, <1>5, <1>6, <1>7 DEF Still

LEMMA ClaimedStays ==
    ASSUME Claimed, \A f \in Forms : form'[f].filed = form[f].filed,
           \A p \in Posts : Claimer(p)' <=> Claimer(p)
    PROVE  Claimed'
BY PostWorks DEF Claimed

LEMMA SlotsStay ==
    ASSUME SlotsAccounted, value' = value,
           \A p \in Posts : Holds(p)' <=> Holds(p),
           \A p \in Posts : Holds(p) => work'[p].hour = work[p].hour
    PROVE  SlotsAccounted'
<1>1. ASSUME NEW h \in 1..Hours PROVE Slots(h)' = Slots(h)
  BY DEF Slots, Holds, Made, At
<1> QED BY <1>1 DEF SlotsAccounted

(* A step in which one delivery or call moves, and only forms settle.      *)
Only(w) == \A p \in Posts : p # w => Still(p)

LEMMA MoveKeeps ==
    ASSUME FilingInv, FilingTypeOK', NEW w \in Workers, Only(w),
           FormsSettle, FreeByNobody', value' = value,
           w \in Posts =>
              /\ PostOK(w)'
              /\ Claimer(w)' <=> Claimer(w)
              /\ Holds(w)' <=> Holds(w)
              /\ Holds(w) => work'[w].hour = work[w].hour
    PROVE  FilingInv'
<1>1. ASSUME NEW p \in Posts
      PROVE  /\ PostOK(p)' /\ (Claimer(p)' <=> Claimer(p))
             /\ (Holds(p)' <=> Holds(p))
             /\ Holds(p) => work'[p].hour = work[p].hour
  <2>1. CASE p = w BY <2>1
  <2>2. CASE p # w
    <3>1. Still(p) BY <2>2 DEF Only
    <3> QED BY <3>1, StillPost DEF FormsSettle
  <2> QED BY <2>1, <2>2
<1>2. Claimed' BY <1>1, ClaimedStays DEF FormsSettle, FilingInv
<1>3. SlotsAccounted' BY <1>1, SlotsStay DEF FilingInv
<1> QED BY <1>1, <1>2, <1>3 DEF FilingInv

(* A step of the reps, of the prune or of the clock.                       *)
LEMMA WorldKeeps ==
    ASSUME FilingInv, FilingTypeOK', \A p \in Posts : Still(p),
           FormsSettle, FreeByNobody', value' = value
    PROVE  FilingInv'
<1>1. ASSUME NEW p \in Posts
      PROVE  /\ PostOK(p)' /\ (Claimer(p)' <=> Claimer(p))
             /\ (Holds(p)' <=> Holds(p))
             /\ Holds(p) => work'[p].hour = work[p].hour
  BY StillPost DEF FormsSettle
<1>2. Claimed' BY <1>1, ClaimedStays DEF FormsSettle, FilingInv
<1>3. SlotsAccounted' BY <1>1, SlotsStay DEF FilingInv
<1> QED BY <1>1, <1>2, <1>3 DEF FilingInv

(* A contact goes from one state into another, and is never free again.    *)
LEMMA ContactTurns ==
    ASSUME FilingInv, NEW c \in Contacts,
           NEW st \in {"active", "archived", "expired", "purged"},
           contact' = [contact EXCEPT ![c].state = st]
    PROVE  /\ contact' \in [Contacts -> ContactRow]
           /\ FreeByNobody'
           /\ \A p \in Posts : Made(p)' <=> Made(p)
<1>1. contact \in [Contacts -> ContactRow] BY DEF FilingInv, FilingTypeOK
<1>2. contact' \in [Contacts -> ContactRow] BY <1>1 DEF ContactRow
<1>3. ASSUME NEW d \in Contacts
      PROVE  /\ contact'[d].by = contact[d].by
             /\ contact'[d].state = "free" => contact[d].state = "free"
  BY <1>1 DEF ContactRow
<1>4. FreeByNobody' BY <1>3 DEF FilingInv, FreeByNobody
<1>5. \A p \in Posts : Made(p)' <=> Made(p) BY <1>3 DEF Made
<1> QED BY <1>2, <1>4, <1>5

LEMMA FormsStay ==
    ASSUME form' = form PROVE FormsSettle
BY DEF FormsSettle, Unfiled

(* A new row is put in the place of a free one.                            *)
LEMMA ContactAdded ==
    ASSUME FilingInv, NEW c \in Free, NEW e \in Emails, NEW w \in Workers \union {"rep"},
           contact' = [contact EXCEPT ![c] = NewRow(e, w)]
    PROVE  /\ contact' \in [Contacts -> ContactRow]
           /\ FreeByNobody'
           /\ \A p \in Posts : p # w => (Made(p)' <=> Made(p))
           /\ w \in Posts => Made(w)'
<1>1. contact \in [Contacts -> ContactRow] BY DEF FilingInv, FilingTypeOK
<1>2. c \in Contacts /\ contact[c].by = Nobody
  BY DEF Free, FilingInv, FreeByNobody
<1>3. /\ NewRow(e, w) \in ContactRow /\ NewRow(e, w).by = w
      /\ NewRow(e, w).state = "active"
  BY DEF NewRow, ContactRow
<1>4. contact' \in [Contacts -> ContactRow] BY <1>1, <1>3
<1>5. \A d \in Contacts : contact'[d] = IF d = c THEN NewRow(e, w) ELSE contact[d]
  BY <1>1
<1>6. FreeByNobody' BY <1>3, <1>5 DEF FilingInv, FreeByNobody
<1>7. ASSUME NEW p \in Posts, p # w PROVE Made(p)' <=> Made(p)
  BY <1>2, <1>3, <1>5, <1>7, PostWorks DEF Made
<1>8. w \in Posts => Made(w)' BY <1>2, <1>3, <1>5 DEF Made
<1> QED BY <1>4, <1>6, <1>7, <1>8

LEMMA GoneKeeps ==
    ASSUME FilingInv, NEW c \in Contacts, Gone(c), UNCHANGED <<value, work, notes, hour>>,
           expired' \subseteq Contacts, upsets' \in 0..MaxUpsets
    PROVE  FilingInv'
<1> DEFINE cut(f) == [form[f] EXCEPT !.contact = NoContact]
<1>1. /\ contact' = [contact EXCEPT ![c].state = "purged"]
      /\ told' = told \ {c}
      /\ suppressed' = suppressed \union {contact[c].email}
      /\ form' = [f \in Forms |-> IF form[f].contact = c THEN cut(f) ELSE form[f]]
  BY DEF Gone
<1>2. /\ contact' \in [Contacts -> ContactRow] /\ FreeByNobody'
      /\ \A p \in Posts : Made(p)' <=> Made(p)
  BY <1>1, ContactTurns
<1>3. ASSUME NEW f \in Forms
      PROVE  /\ cut(f) \in FormRow /\ form[f] \in FormRow
             /\ cut(f).filed = form[f].filed /\ cut(f).skip = form[f].skip
  BY DEF FilingInv, FilingTypeOK, FormRow
<1>4. \A f \in Forms : form'[f] = cut(f) \/ form'[f] = form[f] BY <1>1
<1> HIDE DEF cut
<1>5. form' \in [Forms -> FormRow] BY <1>1, <1>3
<1>6. FormsSettle BY <1>3, <1>4 DEF FormsSettle, Unfiled
<1>7. contact[c].email \in Emails BY DEF FilingInv, FilingTypeOK, ContactRow
<1>8. FilingTypeOK' BY <1>1, <1>2, <1>5, <1>7 DEF FilingInv, FilingTypeOK
<1>9. \A p \in Posts : Still(p) BY <1>2 DEF Still
<1> QED BY <1>2, <1>6, <1>8, <1>9, WorldKeeps

LEMMA ActFacts ==
    ASSUME FilingInv, Act
    PROVE  /\ UNCHANGED <<value, work, notes, hour, expired>>
           /\ upsets' \in 0..MaxUpsets
BY FormFilingAssumption DEF FilingInv, FilingTypeOK, Act, Upset

LEMMA RepsKeep ==
    ASSUME FilingInv, Reps PROVE FilingInv'
<1>1. ASSUME NEW e \in Emails, Add(e) PROVE FilingInv'
  <2>1. PICK c \in Free : /\ contact' = [contact EXCEPT ![c] = NewRow(e, "rep")]
                          /\ told' = told \union {c}
    BY <1>1 DEF Add
  <2>2. /\ suppressed' = suppressed \ {e} /\ form' = form
        /\ UNCHANGED <<value, work, notes, hour, expired>>
        /\ upsets' \in 0..MaxUpsets
    BY <1>1, ActFacts DEF Add
  <2>3. /\ contact' \in [Contacts -> ContactRow] /\ FreeByNobody'
        /\ \A p \in Posts : Made(p)' <=> Made(p)
    BY <2>1, ContactAdded, PostWorks
  <2>4. c \in Contacts BY DEF Free
  <2>5. FilingTypeOK' BY <2>1, <2>2, <2>3, <2>4 DEF FilingInv, FilingTypeOK
  <2>6. \A p \in Posts : Still(p) BY <2>2, <2>3 DEF Still
  <2> QED BY <2>2, <2>3, <2>5, <2>6, FormsStay, WorldKeeps
<1>2. ASSUME NEW c \in Contacts, Archive(c) \/ Restore(c) PROVE FilingInv'
  <2>1. PICK st \in {"active", "archived"} : contact' = [contact EXCEPT ![c].state = st]
    BY <1>2 DEF Archive, Restore
  <2>2. /\ UNCHANGED <<form, suppressed, told>>
        /\ UNCHANGED <<value, work, notes, hour, expired>>
        /\ upsets' \in 0..MaxUpsets
    BY <1>2, ActFacts DEF Archive, Restore
  <2>3. /\ contact' \in [Contacts -> ContactRow] /\ FreeByNobody'
        /\ \A p \in Posts : Made(p)' <=> Made(p)
    BY <2>1, ContactTurns
  <2>4. FilingTypeOK' BY <2>2, <2>3 DEF FilingInv, FilingTypeOK
  <2>5. \A p \in Posts : Still(p) BY <2>2, <2>3 DEF Still
  <2> QED BY <2>2, <2>3, <2>4, <2>5, FormsStay, WorldKeeps
<1>3. ASSUME NEW c \in Contacts, Purge(c) PROVE FilingInv'
  <2>1. expired \subseteq Contacts BY DEF FilingInv, FilingTypeOK
  <2> QED BY <1>3, <2>1, ActFacts, GoneKeeps DEF Purge
<1> QED BY <1>1, <1>2, <1>3 DEF Reps

LEMMA PruneKeeps ==
    ASSUME FilingInv, Prune PROVE FilingInv'
<1>1. CASE ListExpired
  <2>1. UNCHANGED <<form, records, value, work, notes, hour, upsets>>
        /\ expired' \subseteq Contacts
    BY <1>1 DEF ListExpired
  <2>2. FilingTypeOK' BY <2>1 DEF records, FilingInv, FilingTypeOK
  <2>3. \A p \in Posts : Still(p) BY <2>1 DEF records, Still, Made
  <2>4. FreeByNobody' BY <2>1 DEF records, FilingInv, FreeByNobody
  <2> QED BY <2>1, <2>2, <2>3, <2>4, FormsStay, WorldKeeps
<1>2. ASSUME NEW c \in Contacts, Age(c) PROVE FilingInv'
  <2>1. /\ contact' = [contact EXCEPT ![c].state = "expired"]
        /\ UNCHANGED <<form, suppressed, told, value, work, notes, rest>>
    BY <1>2 DEF Age
  <2>2. /\ contact' \in [Contacts -> ContactRow] /\ FreeByNobody'
        /\ \A p \in Posts : Made(p)' <=> Made(p)
    BY <2>1, ContactTurns
  <2>3. FilingTypeOK' BY <2>1, <2>2 DEF rest, FilingInv, FilingTypeOK
  <2>4. \A p \in Posts : Still(p) BY <2>1, <2>2 DEF Still
  <2> QED BY <2>1, <2>2, <2>3, <2>4, FormsStay, WorldKeeps
<1>3. ASSUME NEW c \in Contacts, PruneOne(c) PROVE FilingInv'
  <2>1. /\ expired' \subseteq Contacts /\ UNCHANGED <<value, work, notes, hour, upsets>>
        /\ upsets' \in 0..MaxUpsets
    BY <1>3 DEF PruneOne, FilingInv, FilingTypeOK
  <2>2. CASE Gone(c) BY <2>1, <2>2, GoneKeeps
  <2>3. CASE UNCHANGED <<form, records>>
    <3>1. FilingTypeOK' BY <2>1, <2>3 DEF records, FilingInv, FilingTypeOK
    <3>2. \A p \in Posts : Still(p) BY <2>1, <2>3 DEF records, Still, Made
    <3>3. FreeByNobody' BY <2>3 DEF records, FilingInv, FreeByNobody
    <3> QED BY <2>1, <2>3, <3>1, <3>2, <3>3, FormsStay, WorldKeeps
  <2> QED BY <1>3, <2>2, <2>3 DEF PruneOne
<1> QED BY <1>1, <1>2, <1>3 DEF Prune

LEMMA HourKeeps ==
    ASSUME FilingInv, HourPasses PROVE FilingInv'
<1>1. /\ hour < Hours /\ hour' = hour + 1
      /\ UNCHANGED <<form, records, value, work, notes, expired, upsets>>
  BY DEF HourPasses
<1>2. hour' \in 1..Hours
  BY <1>1, FormFilingAssumption DEF FilingInv, FilingTypeOK
<1>3. FilingTypeOK' BY <1>1, <1>2 DEF records, FilingInv, FilingTypeOK
<1>4. \A p \in Posts : Still(p) BY <1>1 DEF records, Still, Made
<1>5. FreeByNobody' BY <1>1 DEF records, FilingInv, FreeByNobody
<1> QED BY <1>1, <1>3, <1>4, <1>5, FormsStay, WorldKeeps

(* What a step of one delivery or call leaves alone.                       *)
Aside == /\ UNCHANGED <<contact, suppressed, value, notes, hour, expired>>
         /\ told' \subseteq Contacts
         /\ upsets' \in 0..MaxUpsets

LEMMA AsideTyped ==
    ASSUME FilingInv, NEW w \in Workers, NEW step, NEW at, NEW kept, NEW h,
           Moved(w, step, at, kept, h), Aside, form' \in [Forms -> FormRow]
    PROVE  FilingTypeOK' /\ FreeByNobody' /\ Only(w) /\ \A p \in Posts : Made(p)' <=> Made(p)
<1>1. FilingTypeOK' BY DEF FilingInv, FilingTypeOK, Moved, Aside
<1>2. FreeByNobody' BY DEF FilingInv, FreeByNobody, Aside
<1>3. \A p \in Posts : Made(p)' <=> Made(p) BY DEF Made, Aside
<1>4. Only(w) BY <1>3, PostWorks DEF Only, Still, Moved, Aside
<1> QED BY <1>1, <1>2, <1>3, <1>4

(* A move that neither claims nor takes or hands back a slot.              *)
Plain(w, step, h) ==
    /\ Moved(w, step, work[w].at, work[w].kept, h)
    /\ Aside
    /\ form' \in [Forms -> FormRow] /\ FormsSettle
    /\ work[w].pc \notin {"note", "failed"} /\ step \notin {"note", "failed"}
    /\ w \in Posts =>
          /\ work[w].pc \in Holding <=> step \in Holding
          /\ step \in Waiting => work[w].pc \in Waiting
          /\ step \in {"take"} \union Holding => h \in 1..Hours
          /\ step \in Ended => ~Unfiled(FormOf[w])'
          /\ Holds(w) => h = work[w].hour

LEMMA PlainMove ==
    ASSUME FilingInv, NEW w \in Workers, NEW step, NEW h, Plain(w, step, h)
    PROVE  FilingInv'
<1> USE DEF Plain
<1>1. /\ FilingTypeOK' /\ FreeByNobody' /\ Only(w)
      /\ \A p \in Posts : Made(p)' <=> Made(p)
  BY AsideTyped
<1>2. /\ work'[w].pc = step /\ work'[w].at = work[w].at
      /\ work'[w].kept = work[w].kept /\ work'[w].hour = h
      /\ notes' = notes /\ value' = value
  BY DEF Moved, Aside
<1>3. ASSUME w \in Posts
      PROVE  /\ PostOK(w)'
             /\ Claimer(w)' <=> Claimer(w)
             /\ Holds(w)' <=> Holds(w)
             /\ Holds(w) => work'[w].hour = work[w].hour
  <2>1. PostOK(w) BY <1>3 DEF FilingInv
  <2>2. PostOK(w)' BY <1>1, <1>2, <1>3, <2>1 DEF PostOK
  <2>3. Claimer(w)' <=> Claimer(w) BY <1>2 DEF Claimer, At
  <2>4. Holds(w)' <=> Holds(w) BY <1>1, <1>2, <1>3 DEF Holds, At
  <2> QED BY <1>2, <1>3, <2>2, <2>3, <2>4
<1> QED BY <1>1, <1>2, <1>3, MoveKeeps

LEMMA NothingElse ==
    ASSUME FilingInv, UNCHANGED <<records, value, notes, rest>> PROVE Aside
BY DEF FilingInv, FilingTypeOK, records, rest, Aside

LEMMA FormTyped == FilingInv => form \in [Forms -> FormRow]
BY DEF FilingInv, FilingTypeOK

LEMMA StoreKeeps ==
    ASSUME FilingInv, NEW p \in Posts, StoreForm(p) PROVE FilingInv'
<1> DEFINE f == FormOf[p]
<1>1. /\ work[p].pc = "idle"
      /\ form' = [form EXCEPT ![f].stored = TRUE]
      /\ GoWith(p, "look", NoContact, ~form[f].stored)
      /\ Aside
  BY NothingElse DEF StoreForm, At
<1>2. f \in Forms /\ p \in Workers BY PostWorks
<1>3. form' \in [Forms -> FormRow] BY <1>1, <1>2, FormTyped DEF FormRow
<1>4. FormsSettle
  BY <1>1, <1>2, FormTyped DEF FormsSettle, Unfiled, FormRow
<1>5. Moved(p, "look", work[p].at, work[p].kept, work[p].hour)
  BY <1>1, <1>2, GoWithMoves DEF Places, Busy, FilingInv
<1>6. Plain(p, "look", work[p].hour)
  BY <1>1, <1>3, <1>4, <1>5 DEF Plain, Holding, Waiting, Ended
<1> QED BY <1>2, <1>6, PlainMove

LEMMA LookKeeps ==
    ASSUME FilingInv, NEW p \in Posts, Look(p) PROVE FilingInv'
<1>1. PICK step \in {"done", "skip", "suppressed"} :
         /\ step = "done" => ~Unfiled(FormOf[p])
         /\ GoWith(p, step, NoContact, FALSE)
  BY DEF Look
<1>2. work[p].pc = "look" /\ form' = form /\ Aside
  BY NothingElse DEF Look, At
<1>3. Moved(p, step, work[p].at, work[p].kept, work[p].hour)
  BY <1>1, PostWorks, GoWithMoves DEF Places, Busy, FilingInv
<1>4. step = "done" => ~Unfiled(FormOf[p])' BY <1>1, <1>2 DEF Unfiled
<1>5. form' \in [Forms -> FormRow] /\ FormsSettle BY <1>2, FormTyped, FormsStay
<1>6. Plain(p, step, work[p].hour)
  BY <1>2, <1>3, <1>4, <1>5 DEF Plain, Holding, Waiting, Ended
<1> QED BY <1>6, PostWorks, PlainMove

LEMMA SkipKeeps ==
    ASSUME FilingInv, NEW p \in Posts, Skip(p) PROVE FilingInv'
<1> DEFINE f == FormOf[p]
<1>1. /\ work[p].pc = "skip" /\ form' = [form EXCEPT ![f].skip = TRUE]
      /\ Go(p, "done") /\ Aside
  BY NothingElse DEF Skip, At
<1>2. f \in Forms /\ p \in Workers BY PostWorks
<1>3. form' \in [Forms -> FormRow] BY <1>1, <1>2, FormTyped DEF FormRow
<1>4. FormsSettle /\ ~Unfiled(f)'
  BY <1>1, <1>2, FormTyped DEF FormsSettle, Unfiled, FormRow
<1>5. Moved(p, "done", work[p].at, work[p].kept, work[p].hour)
  BY <1>1, <1>2, GoMoves DEF Places, FilingInv
<1>6. Plain(p, "done", work[p].hour)
  BY <1>1, <1>3, <1>4, <1>5 DEF Plain, Holding, Waiting
<1> QED BY <1>2, <1>6, PlainMove

LEMMA AskKeeps ==
    ASSUME FilingInv, NEW w \in Workers,
           AskSuppressed(w) \/ (w \in Leads /\ Submit(w))
    PROVE  FilingInv'
<1>1. PICK step \in {"find", "skip", "done", "suppressed"} :
         /\ w \in Posts => step \in {"find", "skip"}
         /\ Go(w, step)
  BY FormFilingAssumption DEF AskSuppressed, Submit
<1>2. work[w].pc \in {"suppressed", "idle"} /\ form' = form /\ Aside
  BY NothingElse DEF AskSuppressed, Submit, At
<1>3. Moved(w, step, work[w].at, work[w].kept, work[w].hour)
  BY <1>1, GoMoves DEF Places, Busy, FilingInv
<1>4. form' \in [Forms -> FormRow] /\ FormsSettle BY <1>2, FormTyped, FormsStay
<1>5. Plain(w, step, work[w].hour)
  BY <1>1, <1>2, <1>3, <1>4 DEF Plain, Holding, Waiting, Ended
<1> QED BY <1>5, PlainMove

LEMMA FindKeeps ==
    ASSUME FilingInv, NEW w \in Workers, Find(w) PROVE FilingInv'
<1>1. work[w].pc = "find" /\ form' = form /\ Aside
  BY NothingElse DEF Find, At
<1>2. form' \in [Forms -> FormRow] /\ FormsSettle BY <1>1, FormTyped, FormsStay
<1>3. ASSUME NEW c \in Contacts, GoWith(w, "attach", c, FALSE) PROVE FilingInv'
  <2>1. Moved(w, "attach", work[w].at, work[w].kept, work[w].hour)
    BY <1>3, GoWithMoves DEF Places, Busy, FilingInv
  <2>2. Plain(w, "attach", work[w].hour)
    BY <1>1, <1>2, <2>1 DEF Plain, Holding, Waiting, Ended
  <2> QED BY <2>2, PlainMove
<1>4. CASE w \notin Posts /\ Go(w, "company")
  <2>1. Moved(w, "company", work[w].at, work[w].kept, work[w].hour)
    BY <1>4, GoMoves DEF Places, Busy, FilingInv
  <2>2. Plain(w, "company", work[w].hour) BY <1>1, <1>2, <1>4, <2>1 DEF Plain
  <2> QED BY <2>2, PlainMove
<1>5. CASE w \in Posts /\ Becomes(w, [To(work[w], "take") EXCEPT !.hour = hour])
  <2> DEFINE to == To(work[w], "take")
             row == [to EXCEPT !.hour = hour]
  <2>1. /\ to \in WorkRow /\ to.pc = "take" /\ to.at = work[w].at
        /\ to.kept = work[w].kept
    BY ToRow, RowFacts DEF Places, Busy, FilingInv
  <2>2. hour \in 1..Hours /\ hour \in 0..Hours
    BY FormFilingAssumption DEF FilingInv, FilingTypeOK
  <2>3. Becomes(w, row) BY <1>5
  <2> HIDE DEF to
  <2>4. /\ row \in WorkRow /\ row.pc = "take" /\ row.at = work[w].at
        /\ row.kept = work[w].kept /\ row.hour = hour
    BY <2>1, <2>2 DEF WorkRow
  <2> HIDE DEF row
  <2>5. Moved(w, "take", work[w].at, work[w].kept, hour)
    BY <2>3, <2>4, Becoming DEF FilingInv
  <2>6. ~Holds(w)
    <3>1. PostOK(w) BY <1>5 DEF FilingInv
    <3> QED BY <1>1, <3>1 DEF PostOK, Holds, At, Waiting, Holding
  <2>7. Plain(w, "take", hour)
    BY <1>1, <1>2, <2>2, <2>5, <2>6 DEF Plain, Holding, Waiting, Ended
  <2> QED BY <2>7, PlainMove
<1> QED BY <1>3, <1>4, <1>5 DEF Find, Active, Known

LEMMA SlotsFinite ==
    ASSUME FilingInv, NEW h \in 1..Hours
    PROVE  /\ IsFiniteSet(Slots(h)) /\ Cardinality(Slots(h)) \in Nat
           /\ value[h] = Cardinality(Slots(h)) /\ value[h] <= CAP /\ value[h] \in Nat
<1>1. IsFiniteSet(Slots(h))
  BY FormFilingAssumption, FS_Subset DEF Slots
<1> QED BY <1>1, FS_CardinalityType DEF FilingInv, FilingTypeOK, SlotsAccounted

LEMMA OtherSlots ==
    ASSUME FilingInv, NEW p \in Posts, Only(p), FormsSettle, NEW h \in 1..Hours,
           NEW q \in Posts, q # p
    PROVE  q \in Slots(h)' <=> q \in Slots(h)
<1>1. Still(q) BY DEF Only
<1>2. Holds(q)' = Holds(q) /\ work'[q].hour = work[q].hour
  BY <1>1, StillPost DEF FormsSettle
<1> QED BY <1>2 DEF Slots, Holds, Made, At

(* A slot is taken.                                                        *)
LEMMA SlotTaken ==
    ASSUME FilingInv, NEW p \in Posts, Only(p), FormsSettle,
           ~Holds(p), Holds(p)', work'[p].hour = work[p].hour,
           work[p].hour \in 1..Hours, value[work[p].hour] + 1 <= CAP,
           value' = [value EXCEPT ![work[p].hour] = @ + 1]
    PROVE  SlotsAccounted'
<1> DEFINE k == work[p].hour
<1>1. ASSUME NEW h \in 1..Hours
      PROVE  value'[h] = Cardinality(Slots(h)') /\ value'[h] <= CAP
  <2>1. p \notin Slots(h) BY DEF Slots, Holds, Made, At
  <2>2. p \in Slots(h)' <=> h = k BY DEF Slots, Holds, Made, At
  <2>3. Slots(h) \subseteq Posts /\ Slots(h)' \subseteq Posts BY DEF Slots
  <2>4. \A q \in Posts : q # p => (q \in Slots(h)' <=> q \in Slots(h))
    BY OtherSlots
  <2>5. value'[h] = IF h = k THEN value[h] + 1 ELSE value[h]
    BY DEF FilingInv, FilingTypeOK
  <2>6. CASE h = k
    <3>1. Slots(h)' = Slots(h) \union {p} BY <2>2, <2>3, <2>4, <2>6
    <3>2. Cardinality(Slots(h)') = Cardinality(Slots(h)) + 1
      BY <2>1, <3>1, SlotsFinite, FS_AddElement
    <3> QED BY <2>5, <2>6, <3>2, SlotsFinite
  <2>7. CASE h # k
    <3>1. Slots(h)' = Slots(h) BY <2>1, <2>2, <2>3, <2>4, <2>7
    <3> QED BY <2>5, <2>7, <3>1, SlotsFinite
  <2> QED BY <2>6, <2>7
<1> QED BY <1>1 DEF SlotsAccounted

(* A slot is handed back.                                                  *)
LEMMA SlotHandedBack ==
    ASSUME FilingInv, NEW p \in Posts, Only(p), FormsSettle,
           Holds(p), ~Holds(p)', work[p].hour \in 1..Hours,
           value' = Lowered(work[p].hour)
    PROVE  SlotsAccounted'
<1> DEFINE k == work[p].hour
<1>1. ASSUME NEW h \in 1..Hours
      PROVE  value'[h] = Cardinality(Slots(h)') /\ value'[h] <= CAP
  <2>1. p \in Slots(h) <=> h = k BY DEF Slots, Holds, Made, At
  <2>2. p \notin Slots(h)' BY DEF Slots, Holds, Made, At
  <2>3. Slots(h) \subseteq Posts /\ Slots(h)' \subseteq Posts BY DEF Slots
  <2>4. \A q \in Posts : q # p => (q \in Slots(h)' <=> q \in Slots(h))
    BY OtherSlots
  <2>5. value'[h] = IF h # k THEN value[h] ELSE IF value[h] > 0 THEN value[h] - 1 ELSE 0
    BY DEF FilingInv, FilingTypeOK, Lowered
  <2>6. CASE h = k
    <3>1. Slots(h)' = Slots(h) \ {p} BY <2>2, <2>3, <2>4
    <3>2. p \in Slots(h) BY <2>1, <2>6
    <3>3. Cardinality(Slots(h)') = Cardinality(Slots(h)) - 1
          /\ IsFiniteSet(Slots(h)')
      BY <3>1, <3>2, SlotsFinite, FS_RemoveElement
    <3>4. Cardinality(Slots(h)') \in Nat BY <3>3, FS_CardinalityType
    <3> QED BY <2>5, <2>6, <3>3, <3>4, SlotsFinite, FormFilingAssumption
  <2>7. CASE h # k
    <3>1. Slots(h)' = Slots(h) BY <2>1, <2>2, <2>3, <2>4, <2>7
    <3> QED BY <2>5, <2>7, <3>1, SlotsFinite
  <2> QED BY <2>6, <2>7
<1> QED BY <1>1 DEF SlotsAccounted

(* A move that changes the counter and claims nothing.                     *)
LEMMA CountingMove ==
    ASSUME FilingInv, NEW p \in Posts, FilingTypeOK', FreeByNobody', Only(p),
           FormsSettle, SlotsAccounted', PostOK(p)', Claimer(p)' <=> Claimer(p)
    PROVE  FilingInv'
<1>1. ASSUME NEW q \in Posts PROVE PostOK(q)' /\ (Claimer(q)' <=> Claimer(q))
  <2>1. CASE q = p BY <2>1
  <2>2. CASE q # p
    <3>1. Still(q) BY <2>2 DEF Only
    <3> QED BY <3>1, StillPost DEF FormsSettle
  <2> QED BY <2>1, <2>2
<1>2. Claimed' BY <1>1, ClaimedStays DEF FormsSettle, FilingInv
<1> QED BY <1>1, <1>2 DEF FilingInv

(* The same of a move that leaves all but the counter alone.               *)
Counts == /\ UNCHANGED <<form, contact, suppressed, notes, hour, expired, told>>
          /\ upsets' \in 0..MaxUpsets

LEMMA CountsTyped ==
    ASSUME FilingInv, NEW p \in Posts, NEW step, NEW at, NEW kept, NEW h,
           Moved(p, step, at, kept, h), Counts, value' \in [1..Hours -> Nat]
    PROVE  /\ FilingTypeOK' /\ FreeByNobody' /\ Only(p) /\ FormsSettle
           /\ Made(p)' <=> Made(p)
<1>1. FilingTypeOK' BY DEF FilingInv, FilingTypeOK, Moved, Counts
<1>2. FreeByNobody' BY DEF FilingInv, FreeByNobody, Counts
<1>3. \A q \in Posts : Made(q)' <=> Made(q) BY DEF Made, Counts
<1>4. Only(p) BY <1>3, PostWorks DEF Only, Still, Moved, Counts
<1>5. FormsSettle BY FormsStay DEF Counts
<1> QED BY <1>1, <1>2, <1>3, <1>4, <1>5

LEMMA LoweredTyped ==
    ASSUME FilingInv, NEW h \in 1..Hours PROVE Lowered(h) \in [1..Hours -> Nat]
BY DEF FilingInv, FilingTypeOK, Lowered

LEMMA TakeKeeps ==
    ASSUME FilingInv, NEW p \in Posts, Take(p) PROVE FilingInv'
<1> DEFINE k == work[p].hour
<1>1. work[p].pc = "take" /\ form' = form /\ UNCHANGED <<records, notes, rest>>
  BY DEF Take, At
<1>2. k \in 1..Hours /\ ~work[p].kept /\ ~Made(p) /\ PostOK(p) /\ ~Holds(p)
  BY <1>1 DEF FilingInv, PostOK, Waiting, Holds, At, Holding
<1>3. CASE Go(p, "skip") /\ UNCHANGED value
  <2>1. Moved(p, "skip", work[p].at, work[p].kept, k)
    BY <1>3, PostWorks, GoMoves DEF Places, Busy, FilingInv
  <2>2. Aside BY <1>1, <1>3, NothingElse
  <2>3. form' \in [Forms -> FormRow] /\ FormsSettle BY <1>1, FormTyped, FormsStay
  <2>4. Plain(p, "skip", k)
    BY <1>1, <2>1, <2>2, <2>3 DEF Plain, Holding, Waiting, Ended
  <2> QED BY <2>4, PostWorks, PlainMove
<1>4. CASE value[k] + 1 <= CAP /\ Go(p, "company") /\ value' = [value EXCEPT ![k] = @ + 1]
  <2>1. Moved(p, "company", work[p].at, work[p].kept, k)
    BY <1>4, PostWorks, GoMoves DEF Places, Busy, FilingInv
  <2>2. /\ work'[p].pc = "company" /\ work'[p].at = work[p].at
        /\ work'[p].kept = work[p].kept /\ work'[p].hour = k
    BY <2>1 DEF Moved
  <2>3. Counts BY <1>1 DEF Counts, records, rest, FilingInv, FilingTypeOK
  <2>4. value' \in [1..Hours -> Nat] BY <1>2, <1>4 DEF FilingInv, FilingTypeOK
  <2>5. /\ FilingTypeOK' /\ FreeByNobody' /\ Only(p) /\ FormsSettle
        /\ Made(p)' <=> Made(p)
    BY <2>1, <2>3, <2>4, CountsTyped
  <2>6. Holds(p)' BY <2>2 DEF Holds, Holding
  <2>7. SlotsAccounted' BY <1>2, <1>4, <2>2, <2>5, <2>6, SlotTaken
  <2>8. PostOK(p)'
    BY <1>2, <2>2, <2>5 DEF PostOK, Ended
  <2>9. Claimer(p)' <=> Claimer(p) BY <1>1, <2>2 DEF Claimer, At
  <2> QED BY <2>5, <2>7, <2>8, <2>9, CountingMove
<1> QED BY <1>3, <1>4 DEF Take

(* The loser of a race hands its slot back, or its insert threw.           *)
LEMMA HandBackKeeps ==
    ASSUME FilingInv, NEW p \in Posts, Release(p) \/ InsertFails(p)
    PROVE  FilingInv'
<1> DEFINE k == work[p].hour
<1>1. /\ work[p].pc \in {"release", "create"} /\ value' = Lowered(k)
      /\ UNCHANGED <<form, contact, suppressed, notes, hour, expired, told>>
      /\ upsets' \in 0..MaxUpsets
  BY FormFilingAssumption DEF Release, InsertFails, Fault, Upset, At, records, rest,
     FilingInv, FilingTypeOK
<1>2. /\ k \in 1..Hours /\ ~work[p].kept /\ ~Made(p) /\ Holds(p)
  BY <1>1 DEF FilingInv, PostOK, Waiting, Holds, At, Holding
<1>3. PICK step \in {"raced", "failed"}, at \in Busy \union {"idle"} :
         /\ Moved(p, step, at, work[p].kept, k)
         /\ step = "failed" => at = "raced"
  <2>1. CASE Release(p)
    <3>1. Go(p, "raced") BY <2>1 DEF Release
    <3>2. Moved(p, "raced", work[p].at, work[p].kept, k)
      BY <3>1, PostWorks, GoMoves DEF Places, Busy, FilingInv
    <3> QED BY <3>2, PostWorks, RowFacts DEF FilingInv
  <2>2. CASE InsertFails(p)
    <3>1. Becomes(p, FailedAt(work[p], "raced")) BY <2>2 DEF InsertFails
    <3>2. Moved(p, "failed", "raced", work[p].kept, k)
      BY <3>1, PostWorks, FailMoves DEF Busy, FilingInv
    <3> QED BY <3>2 DEF Busy
  <2> QED BY <2>1, <2>2
<1>4. /\ work'[p].pc = step /\ work'[p].at = at
      /\ work'[p].kept = work[p].kept /\ work'[p].hour = k
  BY <1>3 DEF Moved
<1>5. value' \in [1..Hours -> Nat] BY <1>1, <1>2, LoweredTyped
<1>6. /\ FilingTypeOK' /\ FreeByNobody' /\ Only(p) /\ FormsSettle
      /\ Made(p)' <=> Made(p)
  BY <1>1, <1>3, <1>5, CountsTyped DEF Counts
<1>7. ~Holds(p)' BY <1>2, <1>3, <1>4, <1>6 DEF Holds, Holding, At
<1>8. SlotsAccounted' BY <1>1, <1>2, <1>6, <1>7, SlotHandedBack
<1>9. PostOK(p)' BY <1>4 DEF PostOK, Ended, Waiting, Holding
<1>10. Claimer(p)' <=> Claimer(p)
  <2>1. Claimer(p) <=> p \in notes BY <1>1 DEF Claimer, At
  <2>2. Claimer(p)' <=> p \in notes'
    <3>1. CASE step = "raced" BY <1>4, <3>1 DEF Claimer, At
    <3>2. CASE step = "failed" BY <1>3, <1>4, <3>2 DEF Claimer, At
    <3> QED BY <3>1, <3>2
  <2> QED BY <1>1, <2>1, <2>2
<1> QED BY <1>6, <1>8, <1>9, <1>10, CountingMove

(* What throws in any place: at = "note" counts as a claim still.          *)
LEMMA ThrowKeeps ==
    ASSUME FilingInv, NEW w \in Workers, work[w].pc \in Busy, Throws(w), Aside,
           form' = form
    PROVE  FilingInv'
<1>1. Moved(w, "failed", work[w].pc, work[w].kept, work[w].hour)
  BY ThrowMoves DEF FilingInv
<1>2. form' \in [Forms -> FormRow] /\ FormsSettle BY FormTyped, FormsStay
<1>3. /\ FilingTypeOK' /\ FreeByNobody' /\ Only(w)
      /\ \A p \in Posts : Made(p)' <=> Made(p)
  BY <1>1, <1>2, AsideTyped
<1>4. /\ work'[w].pc = "failed" /\ work'[w].at = work[w].pc
      /\ work'[w].kept = work[w].kept /\ work'[w].hour = work[w].hour
      /\ notes' = notes /\ value' = value /\ work[w].pc # "failed"
  BY <1>1 DEF Moved, Aside, Busy
<1>5. PostOK(w)' BY <1>4 DEF PostOK, Ended, Waiting, Holding
<1>6. Claimer(w)' <=> Claimer(w) BY <1>4 DEF Claimer, At
<1>7. w \in Posts => (Holds(w)' <=> Holds(w)) BY <1>3, <1>4 DEF Holds, At, Holding
<1> QED BY <1>2, <1>3, <1>4, <1>5, <1>6, <1>7, MoveKeeps

LEMMA CompanyKeeps ==
    ASSUME FilingInv, NEW w \in Workers, CompanyFor(w) PROVE FilingInv'
<1>1. work[w].pc = "company" /\ form' = form /\ Go(w, "create") /\ Aside
  BY NothingElse DEF CompanyFor, At
<1>2. Moved(w, "create", work[w].at, work[w].kept, work[w].hour)
  BY <1>1, GoMoves DEF Places, Busy, FilingInv
<1>3. form' \in [Forms -> FormRow] /\ FormsSettle BY <1>1, FormTyped, FormsStay
<1>4. w \in Posts => work[w].hour \in 1..Hours
  BY <1>1 DEF FilingInv, PostOK, Holding
<1>5. Plain(w, "create", work[w].hour)
  BY <1>1, <1>2, <1>3, <1>4 DEF Plain, Holding, Waiting, Ended
<1> QED BY <1>5, PlainMove

LEMMA CreateKeeps ==
    ASSUME FilingInv, NEW w \in Workers, Create(w) PROVE FilingInv'
<1> DEFINE e == Email(w)
<1>1. work[w].pc = "create" /\ UNCHANGED <<form, suppressed, told, value, notes, rest>>
  BY DEF Create, At
<1>2. form' \in [Forms -> FormRow] /\ FormsSettle BY <1>1, FormTyped, FormsStay
<1>3. w \in Posts => work[w].hour \in 1..Hours
  BY <1>1 DEF FilingInv, PostOK, Holding
<1>4. ASSUME NEW c \in Free, contact' = [contact EXCEPT ![c] = NewRow(e, w)],
             GoWith(w, "attach", c, TRUE)
      PROVE  FilingInv'
  <2>1. e \in Emails BY FormFilingAssumption DEF Email, Workers
  <2>2. c \in Contacts \union {NoContact} BY DEF Free
  <2>3. Moved(w, "attach", work[w].at, work[w].kept, work[w].hour)
    BY <1>4, <2>2, GoWithMoves DEF Places, Busy, FilingInv
  <2>4. /\ contact' \in [Contacts -> ContactRow] /\ FreeByNobody'
        /\ \A p \in Posts : p # w => (Made(p)' <=> Made(p))
        /\ w \in Posts => Made(w)'
    BY <1>4, <2>1, ContactAdded
  <2>5. FilingTypeOK'
    BY <1>1, <2>3, <2>4 DEF FilingInv, FilingTypeOK, Moved, rest
  <2>6. Only(w) BY <1>1, <2>3, <2>4, PostWorks DEF Only, Still, Moved
  <2>7. /\ work'[w].pc = "attach" /\ work'[w].at = work[w].at
        /\ work'[w].kept = work[w].kept /\ work'[w].hour = work[w].hour
    BY <2>3 DEF Moved
  <2>8. PostOK(w)' BY <2>7 DEF PostOK, Ended, Waiting, Holding
  <2>9. Claimer(w)' <=> Claimer(w) BY <1>1, <2>7 DEF Claimer, At
  <2>10. w \in Posts => Holds(w)' /\ Holds(w)
    BY <1>1, <2>4 DEF Holds, Holding
  <2> QED BY <1>1, <1>2, <2>4, <2>5, <2>6, <2>7, <2>8, <2>9, <2>10, MoveKeeps
<1>5. CASE UNCHANGED contact /\ w \in Posts /\ Go(w, "release")
  <2>1. Moved(w, "release", work[w].at, work[w].kept, work[w].hour)
    BY <1>5, GoMoves DEF Places, Busy, FilingInv
  <2>2. Aside BY <1>1, <1>5, NothingElse DEF records
  <2>3. Plain(w, "release", work[w].hour)
    BY <1>1, <1>2, <1>3, <2>1, <2>2 DEF Plain, Holding, Waiting, Ended
  <2> QED BY <2>3, PlainMove
<1>6. CASE UNCHANGED contact /\ w \notin Posts /\ Go(w, "raced")
  <2>1. Moved(w, "raced", work[w].at, work[w].kept, work[w].hour)
    BY <1>6, GoMoves DEF Places, Busy, FilingInv
  <2>2. Aside BY <1>1, <1>6, NothingElse DEF records
  <2>3. Plain(w, "raced", work[w].hour)
    BY <1>1, <1>2, <1>6, <2>1, <2>2 DEF Plain
  <2> QED BY <2>3, PlainMove
<1>7. \/ \E c \in Free : /\ contact' = [contact EXCEPT ![c] = NewRow(e, w)]
                         /\ GoWith(w, "attach", c, TRUE)
      \/ UNCHANGED contact /\ w \in Posts /\ Go(w, "release")
      \/ UNCHANGED contact /\ w \notin Posts /\ Go(w, "raced")
  <2>1. CASE Active(e) = {} BY <2>1 DEF Create
  <2>2. CASE Active(e) # {} BY <2>2 DEF Create
  <2> QED BY <2>1, <2>2
<1> QED BY <1>4, <1>5, <1>6, <1>7

LEMMA RacedKeeps ==
    ASSUME FilingInv, NEW w \in Workers, Raced(w) PROVE FilingInv'
<1>1. work[w].pc = "raced" /\ form' = form /\ Aside
  BY NothingElse DEF Raced, At
<1>2. ASSUME NEW c \in Contacts, GoWith(w, "attach", c, FALSE) PROVE FilingInv'
  <2>1. Moved(w, "attach", work[w].at, work[w].kept, work[w].hour)
    BY <1>2, GoWithMoves DEF Places, Busy, FilingInv
  <2>2. form' \in [Forms -> FormRow] /\ FormsSettle BY <1>1, FormTyped, FormsStay
  <2>3. Plain(w, "attach", work[w].hour)
    BY <1>1, <2>1, <2>2 DEF Plain, Holding, Waiting, Ended
  <2> QED BY <2>3, PlainMove
<1>3. CASE Throws(w) BY <1>1, <1>3, ThrowKeeps DEF Busy
<1> QED BY <1>2, <1>3 DEF Raced, Active, Known

LEMMA AttachKeeps ==
    ASSUME FilingInv, NEW p \in Posts, Attach(p) PROVE FilingInv'
<1> DEFINE f == FormOf[p]
           c == work[p].found
<1>1. /\ work[p].pc = "attach" /\ UNCHANGED <<records, value, notes, rest>> /\ Aside
      /\ f \in Forms /\ p \in Workers
  BY NothingElse, PostWorks DEF Attach, At
<1>2. CASE form[f].filed /\ Go(p, AfterAttach(p)) /\ UNCHANGED form
  <2>1. PICK step \in {"tell", "done"} : Go(p, step) BY <1>2 DEF AfterAttach
  <2>2. Moved(p, step, work[p].at, work[p].kept, work[p].hour)
    BY <1>1, <2>1, GoMoves DEF Places, Busy, FilingInv
  <2>3. form' \in [Forms -> FormRow] /\ FormsSettle BY <1>2, FormTyped, FormsStay
  <2>4. ~Unfiled(f)' BY <1>2 DEF Unfiled
  <2>5. Plain(p, step, work[p].hour)
    BY <1>1, <2>2, <2>3, <2>4 DEF Plain, Holding, Waiting, Ended
  <2> QED BY <1>1, <2>5, PlainMove
<1>3. CASE Throws(p) /\ UNCHANGED form
  BY <1>1, <1>3, ThrowKeeps DEF Busy
<1>4. CASE /\ ~form[f].filed /\ Exists(c)
           /\ form' = [form EXCEPT ![f] = FiledFor(form[f], c)]
           /\ Go(p, "note")
  <2> DEFINE row == FiledFor(form[f], c)
  <2>1. c \in Contacts \union {NoContact} BY <1>1, RowFacts DEF FilingInv
  <2>2. row \in FormRow /\ row.filed
    BY <1>1, <2>1, FormTyped DEF FiledFor, FormRow
  <2>3. form' = [form EXCEPT ![f] = row] BY <1>4
  <2> HIDE DEF row
  <2>4. form' \in [Forms -> FormRow] BY <1>1, <2>2, <2>3, FormTyped
  <2>5. \A g \in Forms : form'[g] = IF g = f THEN row ELSE form[g]
    BY <2>3, FormTyped
  <2>6. Moved(p, "note", work[p].at, work[p].kept, work[p].hour)
    BY <1>1, <1>4, GoMoves DEF Places, Busy, FilingInv
  <2>7. /\ work'[p].pc = "note" /\ work'[p].at = work[p].at
        /\ work'[p].kept = work[p].kept /\ work'[p].hour = work[p].hour
        /\ notes' = notes /\ value' = value
    BY <1>1, <2>6 DEF Moved, Aside
  <2>8. /\ FilingTypeOK' /\ FreeByNobody' /\ Only(p)
        /\ \A q \in Posts : Made(q)' <=> Made(q)
    BY <1>1, <2>4, <2>6, AsideTyped
  <2>9. \A g \in Forms : ~Unfiled(g) => ~Unfiled(g)'
    BY <2>2, <2>5 DEF Unfiled
  <2>10. ASSUME NEW q \in Posts, q # p
         PROVE  /\ PostOK(q)' /\ (Claimer(q)' <=> Claimer(q))
                /\ (Holds(q)' <=> Holds(q)) /\ work'[q].hour = work[q].hour
    <3>1. Still(q) BY <2>8, <2>10 DEF Only
    <3> QED BY <2>9, <3>1, StillPost
  <2>11. /\ PostOK(p)'
         /\ Claimer(p)' /\ ~Claimer(p)
         /\ Holds(p)' <=> Holds(p)
    <3>1. ~Unfiled(f)' BY <1>1, <2>2, <2>5 DEF Unfiled
    <3>2. PostOK(p)' BY <2>7, <3>1 DEF PostOK, Waiting, Holding
    <3>3. Claimer(p)' BY <2>7 DEF Claimer, At
    <3>4. ~Claimer(p) BY <1>4 DEF FilingInv, Claimed
    <3>5. Holds(p)' <=> Holds(p) BY <1>1, <2>7, <2>8 DEF Holds, At, Holding
    <3> QED BY <3>2, <3>3, <3>4, <3>5
  <2>12. SlotsAccounted'
    <3>1. \A q \in Posts : (Holds(q)' <=> Holds(q)) /\ work'[q].hour = work[q].hour
      BY <2>7, <2>10, <2>11
    <3> QED BY <2>7, <3>1, SlotsStay DEF FilingInv
  <2>13. Claimed'
    <3>1. Claimed BY DEF FilingInv
    <3>2. \A q \in Posts : q # p => (Claimer(q)' <=> Claimer(q)) BY <2>10
    <3>3. \A q \in Posts : Claimer(q) => FormOf[q] # f BY <1>4, <3>1 DEF Claimed
    <3>4. \A q \in Posts : Claimer(q)' => form'[FormOf[q]].filed
      BY <2>2, <2>5, <3>1, <3>2, PostWorks DEF Claimed
    <3>5. \A q, r \in Posts :
             Claimer(q)' /\ Claimer(r)' /\ FormOf[q] = FormOf[r] => q = r
      BY <3>1, <3>2, <3>3 DEF Claimed
    <3>6. \A g \in Forms : form'[g].filed => \E q \in Posts : FormOf[q] = g /\ Claimer(q)'
      BY <2>5, <2>11, <3>1, <3>2 DEF Claimed
    <3> QED BY <3>4, <3>5, <3>6 DEF Claimed
  <2>14. \A q \in Posts : PostOK(q)' BY <2>10, <2>11
  <2> QED BY <2>8, <2>12, <2>13, <2>14 DEF FilingInv
<1> QED BY <1>2, <1>3, <1>4 DEF Attach

LEMMA NoteKeeps ==
    ASSUME FilingInv, NEW w \in Workers, Note(w) PROVE FilingInv'
<1>1. /\ work[w].pc = IF w \in Posts THEN "note" ELSE "attach"
      /\ UNCHANGED <<form, records, value, rest>>
  BY DEF Note, At
<1>2. form' \in [Forms -> FormRow] /\ FormsSettle BY <1>1, FormTyped, FormsStay
<1>3. CASE Throws(w) /\ UNCHANGED notes
  <2>1. Aside BY <1>1, <1>3, NothingElse
  <2> QED BY <1>1, <1>3, <2>1, ThrowKeeps DEF Busy
<1>4. CASE /\ notes' = notes \union {w}
           /\ Go(w, IF w \in Posts THEN "visitor" ELSE AfterAttach(w))
  <2>1. PICK step \in {"visitor", "tell", "done"} : Go(w, step)
    BY <1>4 DEF AfterAttach
  <2>2. Moved(w, step, work[w].at, work[w].kept, work[w].hour)
    BY <2>1, GoMoves DEF Places, Busy, FilingInv
  <2>3. /\ work'[w].pc = step /\ work'[w].at = work[w].at
        /\ work'[w].kept = work[w].kept /\ work'[w].hour = work[w].hour
    BY <2>2 DEF Moved
  <2>4. FilingTypeOK' BY <1>1, <1>4, <2>2 DEF Moved, records, rest, FilingInv, FilingTypeOK
  <2>5. FreeByNobody' BY <1>1 DEF records, FilingInv, FreeByNobody
  <2>6. \A p \in Posts : Made(p)' <=> Made(p) BY <1>1 DEF records, Made
  <2>7. Only(w) BY <1>4, <2>2, <2>6, PostWorks DEF Only, Still, Moved
  <2>8. w \in Posts => ~Unfiled(FormOf[w])
    BY <1>1 DEF FilingInv, PostOK, Ended
  <2>9. w \in Posts => PostOK(w)'
    BY <1>1, <2>3, <2>8 DEF PostOK, Unfiled, Waiting, Holding
  <2>10. w \in Posts => (Claimer(w)' <=> Claimer(w))
    BY <1>1, <1>4 DEF Claimer, At
  <2>11. w \in Posts => (Holds(w)' <=> Holds(w))
    BY <1>1, <2>3, <2>6 DEF Holds, At, Holding
  <2> QED BY <1>1, <1>2, <2>3, <2>4, <2>5, <2>7, <2>9, <2>10, <2>11, MoveKeeps
<1> QED BY <1>3, <1>4 DEF Note

LEMMA VisitorKeeps ==
    ASSUME FilingInv, NEW p \in Posts, Visitor(p) PROVE FilingInv'
<1>1. work[p].pc = "visitor" /\ form' = form /\ Aside /\ p \in Workers
  BY NothingElse, PostWorks DEF Visitor, At
<1>2. CASE Throws(p) BY <1>1, <1>2, ThrowKeeps DEF Busy
<1>3. CASE Go(p, AfterAttach(p))
  <2>1. PICK step \in {"tell", "done"} : Go(p, step) BY <1>3 DEF AfterAttach
  <2>2. Moved(p, step, work[p].at, work[p].kept, work[p].hour)
    BY <1>1, <2>1, GoMoves DEF Places, Busy, FilingInv
  <2>3. form' \in [Forms -> FormRow] /\ FormsSettle BY <1>1, FormTyped, FormsStay
  <2>4. ~Unfiled(FormOf[p])' BY <1>1 DEF FilingInv, PostOK, Ended, Unfiled
  <2>5. Plain(p, step, work[p].hour)
    BY <1>1, <2>2, <2>3, <2>4 DEF Plain, Holding, Waiting, Ended
  <2> QED BY <1>1, <2>5, PlainMove
<1> QED BY <1>2, <1>3 DEF Visitor

(* Who attaches, notes or tells has found or made a contact.               *)
Finders == {"attach", "note", "visitor", "tell"}
FoundRow(row) == row.pc \in Finders => row.found \in Contacts
FoundOK == \A w \in Workers : FoundRow(work[w])

LEMMA FaultFacts ==
    ASSUME FilingInv, Fault
    PROVE  /\ UNCHANGED <<records, notes, hour, expired>>
           /\ upsets' \in 0..MaxUpsets
           /\ value' = value => Aside
BY FormFilingAssumption DEF FilingInv, FilingTypeOK, Fault, Upset, records, Aside

LEMMA TellKeeps ==
    ASSUME FilingInv, FoundOK, NEW w \in Workers, Tell(w) \/ TaskFails(w)
    PROVE  FilingInv'
<1>1. work[w].pc = "tell" /\ form' = form /\ Go(w, "done")
  BY DEF Tell, TaskFails, At
<1>2. Aside
  <2>1. CASE TaskFails(w) BY <2>1, FaultFacts DEF TaskFails
  <2>2. CASE Tell(w)
    <3>1. told' = told \union {work[w].found} BY <2>2 DEF Tell
    <3>2. work[w].found \in Contacts
      BY <1>1 DEF FoundOK, FoundRow, Finders
    <3> QED BY <2>2, <3>1, <3>2 DEF Tell, Aside, rest, FilingInv, FilingTypeOK
  <2> QED BY <2>1, <2>2
<1>3. Moved(w, "done", work[w].at, work[w].kept, work[w].hour)
  BY <1>1, GoMoves DEF Places, FilingInv
<1>4. form' \in [Forms -> FormRow] /\ FormsSettle BY <1>1, FormTyped, FormsStay
<1>5. w \in Posts => ~Unfiled(FormOf[w])'
  BY <1>1 DEF FilingInv, PostOK, Ended, Unfiled
<1>6. Plain(w, "done", work[w].hour)
  BY <1>1, <1>2, <1>3, <1>4, <1>5 DEF Plain, Holding, Waiting, Ended
<1> QED BY <1>6, PlainMove

LEMMA FailKeeps ==
    ASSUME FilingInv, NEW w \in Workers, Fail(w) PROVE FilingInv'
<1>1. Throws(w) /\ work[w].pc \in Busy /\ form' = form /\ Aside
  BY FaultFacts DEF Fail
<1> QED BY <1>1, ThrowKeeps

(* The counter cannot be reached: the slot it did not take back stays.     *)
LEMMA CounterFailsKeeps ==
    ASSUME FilingInv, NEW p \in Posts, CounterFails(p) PROVE FilingInv'
<1>1. form' = form /\ Aside /\ p \in Workers BY FaultFacts, PostWorks DEF CounterFails
<1>2. form' \in [Forms -> FormRow] /\ FormsSettle BY <1>1, FormTyped, FormsStay
<1>3. CASE work[p].pc = "take" /\ Go(p, "skip")
  <2>1. Moved(p, "skip", work[p].at, work[p].kept, work[p].hour)
    BY <1>1, <1>3, GoMoves DEF Places, Busy, FilingInv
  <2>2. Plain(p, "skip", work[p].hour)
    BY <1>1, <1>2, <1>3, <2>1 DEF Plain, Holding, Waiting, Ended
  <2> QED BY <1>1, <2>2, PlainMove
<1>4. CASE /\ work[p].pc = "release"
           /\ Becomes(p, [To(work[p], "raced") EXCEPT !.kept = TRUE])
  <2> DEFINE to == To(work[p], "raced")
             row == [to EXCEPT !.kept = TRUE]
  <2>1. /\ to \in WorkRow /\ to.pc = "raced" /\ to.at = work[p].at
        /\ to.hour = work[p].hour
    BY <1>1, ToRow, RowFacts DEF Places, Busy, FilingInv
  <2>2. Becomes(p, row) BY <1>4
  <2> HIDE DEF to
  <2>3. /\ row \in WorkRow /\ row.pc = "raced" /\ row.at = work[p].at
        /\ row.kept = TRUE /\ row.hour = work[p].hour
    BY <2>1 DEF WorkRow
  <2> HIDE DEF row
  <2>4. Moved(p, "raced", work[p].at, TRUE, work[p].hour)
    BY <1>1, <2>2, <2>3, Becoming DEF FilingInv
  <2>5. /\ FilingTypeOK' /\ FreeByNobody' /\ Only(p)
        /\ \A q \in Posts : Made(q)' <=> Made(q)
    BY <1>1, <1>2, <2>4, AsideTyped
  <2>6. /\ work'[p].pc = "raced" /\ work'[p].kept /\ work'[p].hour = work[p].hour
        /\ notes' = notes /\ value' = value
    BY <1>1, <2>4 DEF Moved, Aside
  <2>7. PostOK(p)' BY <2>6 DEF PostOK, Ended, Waiting, Holding
  <2>8. Claimer(p)' <=> Claimer(p) BY <1>4, <2>6 DEF Claimer, At
  <2>9. Holds(p)' /\ Holds(p) BY <1>4, <2>6 DEF Holds, Holding
  <2> QED BY <1>1, <1>2, <2>5, <2>6, <2>7, <2>8, <2>9, MoveKeeps
<1> QED BY <1>3, <1>4 DEF CounterFails, At

LEMMA FilingSteps ==
    ASSUME FilingInv, FoundOK, [FilingNext]_filingVars PROVE FilingInv'
<1>1. ASSUME NEW p \in Posts, StoreForm(p) \/ Settle(p) PROVE FilingInv'
  BY <1>1, StoreKeeps, LookKeeps, SkipKeeps, TakeKeeps, HandBackKeeps, AttachKeeps,
     VisitorKeeps, CounterFailsKeeps DEF Settle
<1>2. ASSUME NEW l \in Leads, Submit(l) PROVE FilingInv'
  BY <1>2, AskKeeps DEF Workers
<1>3. ASSUME NEW w \in Workers, Filing(w) PROVE FilingInv'
  BY <1>3, AskKeeps, FindKeeps, CompanyKeeps, CreateKeeps, RacedKeeps, NoteKeeps,
     TellKeeps, FailKeeps DEF Filing
<1>4. CASE UNCHANGED filingVars
  <2>1. UNCHANGED <<form, contact, suppressed, value, hour, told, work, notes,
                    expired, upsets>>
    BY <1>4 DEF filingVars
  <2>2. FilingTypeOK' BY <2>1 DEF FilingInv, FilingTypeOK
  <2>3. \A p \in Posts : Still(p) BY <2>1 DEF Still, Made
  <2>4. FreeByNobody' BY <2>1 DEF FilingInv, FreeByNobody
  <2> QED BY <2>1, <2>2, <2>3, <2>4, FormsStay, WorldKeeps
<1> QED BY <1>1, <1>2, <1>3, <1>4, RepsKeep, PruneKeeps, HourKeeps DEF FilingNext

(* Found contacts, action by action.                                       *)
LEMMA FoundRows ==
    ASSUME FilingTypeOK, FoundOK, NEW w \in Workers, NEW row,
           Becomes(w, row), FoundRow(row)
    PROVE  FoundOK'
<1>1. \A x \in Workers : work'[x] = IF x = w THEN row ELSE work[x]
  BY DEF FilingTypeOK, Becomes
<1> QED BY <1>1 DEF FoundOK

LEMMA FoundGo ==
    ASSUME FilingTypeOK, FoundOK, NEW w \in Workers, NEW step, Go(w, step),
           step \in Finders => work[w].pc \in Finders
    PROVE  FoundOK'
<1> DEFINE row == To(work[w], step)
<1>1. /\ row.pc = step /\ row.found = work[w].found
  BY DEF To, FilingTypeOK, WorkRow
<1>2. Becomes(w, row) BY DEF Go
<1> HIDE DEF row
<1>3. FoundRow(row) BY <1>1 DEF FoundRow, FoundOK
<1> QED BY <1>2, <1>3, FoundRows

LEMMA FoundGoWith ==
    ASSUME FilingTypeOK, FoundOK, NEW w \in Workers, NEW step \in Places, NEW c, NEW new,
           GoWith(w, step, c, new), step \in Finders => c \in Contacts
    PROVE  FoundOK'
<1> DEFINE to == To(work[w], step)
           row == With(work[w], step, c, new)
<1>1. to \in WorkRow /\ to.pc = step BY ToRow, RowFacts
<1>2. row = [to EXCEPT !.found = c, !.new = new] BY DEF With
<1>3. Becomes(w, row) BY DEF GoWith
<1> HIDE DEF to, row
<1>4. row.pc = step /\ row.found = c BY <1>1, <1>2 DEF WorkRow
<1>5. FoundRow(row) BY <1>4 DEF FoundRow
<1> QED BY <1>3, <1>5, FoundRows

LEMMA FoundFailed ==
    ASSUME FilingTypeOK, FoundOK, NEW w \in Workers, NEW at,
           Becomes(w, FailedAt(work[w], at))
    PROVE  FoundOK'
<1> DEFINE to == To(work[w], "failed")
           row == FailedAt(work[w], at)
<1>1. to \in WorkRow /\ to.pc = "failed" BY ToRow, RowFacts DEF Places
<1>2. row = [to EXCEPT !.at = at] BY DEF FailedAt
<1>3. Becomes(w, row) OBVIOUS
<1> HIDE DEF to, row
<1>4. row.pc = "failed" BY <1>1, <1>2 DEF WorkRow
<1>5. FoundRow(row) BY <1>4 DEF FoundRow, Finders
<1> QED BY <1>3, <1>5, FoundRows

(* With another field changed, away from the finders.                      *)
LEMMA FoundElse ==
    ASSUME FilingTypeOK, FoundOK, NEW w \in Workers, NEW step \in {"take", "raced"},
           NEW v, \/ Becomes(w, [To(work[w], step) EXCEPT !.hour = v])
                  \/ Becomes(w, [To(work[w], step) EXCEPT !.kept = v])
    PROVE  FoundOK'
<1> DEFINE to == To(work[w], step)
<1>1. to \in WorkRow /\ to.pc = step BY ToRow, RowFacts DEF Places, Busy
<1> HIDE DEF to
<1>2. /\ FoundRow([to EXCEPT !.hour = v])
      /\ FoundRow([to EXCEPT !.kept = v])
  BY <1>1 DEF FoundRow, Finders, WorkRow
<1> QED BY <1>2, FoundRows DEF to

LEMMA FoundStep ==
    ASSUME FilingTypeOK, FoundOK, NEW w \in Workers,
           \/ w \in Posts /\ (StoreForm(w) \/ Settle(w))
           \/ Submit(w) \/ Filing(w)
    PROVE  FoundOK'
<1>1. ASSUME NEW step \in Places, step \notin Finders \/ work[w].pc \in Finders,
             Go(w, step)
      PROVE  FoundOK'
  BY <1>1, FoundGo
<1>2. ASSUME NEW c \in Contacts, NEW new, GoWith(w, "attach", c, new) PROVE FoundOK'
  BY <1>2, FoundGoWith DEF Places, Busy
<1>3. CASE Throws(w) BY <1>3, FoundFailed DEF Throws
<1>4. CASE StoreForm(w) \/ Look(w)
  <2>1. PICK step \in {"look", "done", "skip", "suppressed"} :
           \E new : GoWith(w, step, NoContact, new)
    BY <1>4 DEF StoreForm, Look
  <2>2. step \in Places /\ step \notin Finders BY DEF Places, Busy, Finders
  <2> QED BY <2>1, <2>2, FoundGoWith
<1>5. CASE \/ Skip(w) \/ Submit(w) \/ AskSuppressed(w) \/ Take(w) \/ CompanyFor(w)
           \/ Release(w) \/ Tell(w) \/ TaskFails(w)
  <2>1. PICK step \in {"done", "suppressed", "find", "skip", "company", "create",
                       "raced"} : Go(w, step)
    BY <1>5 DEF Skip, Submit, AskSuppressed, Take, CompanyFor, Release, Tell, TaskFails
  <2>2. step \in Places /\ step \notin Finders BY DEF Places, Busy, Finders
  <2> QED BY <1>1, <2>1, <2>2
<1>6. CASE CounterFails(w)
  <2>1. CASE Go(w, "skip") BY <1>1, <2>1 DEF Places, Busy, Finders
  <2>2. CASE Becomes(w, [To(work[w], "raced") EXCEPT !.kept = TRUE])
    BY <2>2, FoundElse
  <2> QED BY <1>6, <2>1, <2>2 DEF CounterFails
<1>7. CASE Find(w)
  <2>1. CASE Becomes(w, [To(work[w], "take") EXCEPT !.hour = hour])
    BY <2>1, FoundElse
  <2>2. CASE Go(w, "company") BY <1>1, <2>2 DEF Places, Busy, Finders
  <2>3. CASE \E c \in Contacts : GoWith(w, "attach", c, FALSE) BY <1>2, <2>3
  <2> QED BY <1>7, <2>1, <2>2, <2>3 DEF Find, Active, Known
<1>8. CASE Create(w)
  <2>1. CASE Go(w, "release") \/ Go(w, "raced")
    BY <1>1, <2>1 DEF Places, Busy, Finders
  <2>2. CASE \E c \in Contacts : GoWith(w, "attach", c, TRUE) BY <1>2, <2>2
  <2> QED BY <1>8, <2>1, <2>2 DEF Create, Free
<1>9. CASE Raced(w)
  <2>1. CASE \E c \in Contacts : GoWith(w, "attach", c, FALSE) BY <1>2, <2>1
  <2> QED BY <1>3, <1>9, <2>1 DEF Raced, Active, Known
<1>10. CASE Attach(w) \/ Note(w) \/ Visitor(w)
  <2>1. work[w].pc \in Finders
    BY <1>10 DEF Attach, Note, Visitor, At, Finders
  <2>2. Throws(w) \/ \E step \in {"note", "visitor", "tell", "done"} : Go(w, step)
    BY <1>10 DEF Attach, Note, Visitor, AfterAttach
  <2> QED BY <1>1, <1>3, <2>1, <2>2 DEF Places, Busy
<1>11. CASE Fail(w) BY <1>3, <1>11 DEF Fail
<1>12. CASE InsertFails(w) BY <1>12, FoundFailed DEF InsertFails
<1> QED BY <1>4, <1>5, <1>6, <1>7, <1>8, <1>9, <1>10, <1>11, <1>12 DEF Settle, Filing

LEMMA FoundSteps ==
    ASSUME FilingTypeOK, FoundOK, [FilingNext]_filingVars PROVE FoundOK'
<1>1. CASE \E p \in Posts : StoreForm(p) \/ Settle(p)
  BY <1>1, FoundStep, PostWorks
<1>2. CASE \E l \in Leads : Submit(l) BY <1>2, FoundStep DEF Workers
<1>3. CASE \E w \in Workers : Filing(w) BY <1>3, FoundStep
<1>4. CASE work' = work BY <1>4 DEF FoundOK
<1>5. Reps => work' = work
  BY DEF Reps, Add, Archive, Restore, Purge, Act
<1>6. Prune => work' = work BY DEF Prune, Age, ListExpired, PruneOne
<1>7. HourPasses => work' = work BY DEF HourPasses
<1>8. UNCHANGED filingVars => work' = work BY DEF filingVars
<1> QED BY <1>1, <1>2, <1>3, <1>4, <1>5, <1>6, <1>7, <1>8 DEF FilingNext

LEMMA FilingStarts ==
    ASSUME FilingInit PROVE FilingInv /\ FoundOK
<1> USE FormFilingAssumption
<1>1. NoWork \in WorkRow /\ NoWork.pc = "idle" /\ ~NoWork.kept
  BY DEF NoWork, WorkRow, Busy
<1>2. \A w \in Workers : work[w] = NoWork BY DEF FilingInit
<1>3. \A f \in Forms : form[f].filed = FALSE BY DEF FilingInit
<1>4. notes = {} BY DEF FilingInit
<1>5. FilingTypeOK
  <2>1. form \in [Forms -> FormRow] BY DEF FilingInit, FormRow
  <2>2. contact \in [Contacts -> ContactRow] BY DEF FilingInit, ContactRow
  <2>3. work \in [Workers -> WorkRow] BY <1>1 DEF FilingInit
  <2> QED BY <2>1, <2>2, <2>3 DEF FilingInit, FilingTypeOK
<1>6. \A c \in Contacts : contact[c].by \in {"rep", Nobody}
  BY DEF FilingInit
<1>7. FreeByNobody
  <2>1. \A c \in Contacts : (contact[c].by = "rep") <=> Exists(c) BY DEF FilingInit
  <2> QED BY <1>6, <2>1 DEF FreeByNobody, Exists
<1>8. \A p \in Posts : ~Made(p) BY <1>6, PostWorks DEF Made
<1>9. \A p \in Posts : PostOK(p)
  BY <1>1, <1>2, <1>8, PostWorks DEF PostOK, Ended, Holding
<1>10. \A p \in Posts : ~Claimer(p)
  BY <1>1, <1>2, <1>4, PostWorks DEF Claimer, At
<1>11. Claimed BY <1>3, <1>10 DEF Claimed
<1>12. SlotsAccounted
  <2>1. ASSUME NEW h \in 1..Hours PROVE Slots(h) = {}
    BY <1>1, <1>2, <1>8, PostWorks DEF Slots, Holding, At, Made
  <2>2. \A h \in 1..Hours : value[h] = 0 /\ value[h] <= CAP BY DEF FilingInit
  <2> QED BY <2>1, <2>2, FS_EmptySet DEF SlotsAccounted
<1>13. FoundOK BY <1>1, <1>2 DEF FoundOK, FoundRow, Finders
<1> QED BY <1>5, <1>7, <1>9, <1>11, <1>12, <1>13 DEF FilingInv

(* What the invariant says of a delivery that is done, and of the notes.   *)
LEMMA FilingMeans ==
    ASSUME FilingInv PROVE FilingTypeOK /\ AnsweredIsSettled /\ SlotsAccounted /\ NotesAccounted
<1>1. AnsweredIsSettled
  BY DEF FilingInv, PostOK, Ended, AnsweredIsSettled, At
<1>2. NotesAccounted
  <2>1. ASSUME NEW f \in Forms
        PROVE Cardinality(Claims(f)) = IF form[f].filed THEN 1 ELSE 0
    <3>1. \A p \in Posts : p \in Claims(f) <=> FormOf[p] = f /\ Claimer(p)
      BY DEF Claims, Claimer
    <3>2. Claims(f) \subseteq Posts BY DEF Claims
    <3>3. CASE form[f].filed
      <4>1. PICK p \in Posts : FormOf[p] = f /\ Claimer(p)
        BY <3>3 DEF FilingInv, Claimed
      <4>2. Claims(f) = {p} BY <3>1, <3>2, <4>1 DEF FilingInv, Claimed
      <4> QED BY <3>3, <4>2, FS_Singleton
    <3>4. CASE ~form[f].filed
      <4>1. Claims(f) = {} BY <3>1, <3>2, <3>4 DEF FilingInv, Claimed
      <4> QED BY <3>4, <4>1, FS_EmptySet
    <3> QED BY <3>3, <3>4
  <2> QED BY <2>1 DEF NotesAccounted
<1> QED BY <1>1, <1>2 DEF FilingInv
-----------------------------------------------------------------------------
(* Each part is a specification of its own, which the whole implements:    *)
(* a step of the one is a stutter of the others.                           *)
LEMMA FilingAlways == FilingSpec => [](FilingInv /\ FoundOK)
<1>1. FilingInit => FilingInv /\ FoundOK BY FilingStarts
<1>2. FilingInv /\ FoundOK /\ [FilingNext]_filingVars => (FilingInv /\ FoundOK)'
  BY FilingSteps, FoundSteps DEF FilingInv
<1> QED BY <1>1, <1>2, PTL DEF FilingSpec

(* The filing is well typed.                                               *)
THEOREM FilingTyped == FilingSpec => []FilingTypeOK
<1>1. FilingInv => FilingTypeOK BY FilingMeans
<1> QED BY <1>1, FilingAlways, PTL

(* A delivery that ended without an error has settled its submission.      *)
THEOREM AnsweredFormsSettle == FilingSpec => []AnsweredIsSettled
<1>1. FilingInv => AnsweredIsSettled BY FilingMeans
<1> QED BY <1>1, FilingAlways, PTL

(* Exactly one delivery claims a filed submission, whoever fails.          *)
THEOREM OneNoteEach == FilingSpec => []NotesAccounted
<1>1. FilingInv => NotesAccounted BY FilingMeans
<1> QED BY <1>1, FilingAlways, PTL

(* Every slot of the counter is accounted for, at every cap.               *)
THEOREM SlotsAddUp == FilingSpec => []SlotsAccounted
<1>1. FilingInv => SlotsAccounted BY FilingMeans
<1> QED BY <1>1, FilingAlways, PTL

(* The whole files forms as the filing alone does: a delivery files only   *)
(* what the collector accepted, at any time and against any config.        *)
THEOREM WebFiles == Spec => FilingSpec
<1>1. Init => FilingInit BY DEF Init
<1>2. [Next]_webVars => [FilingNext]_filingVars
  <2>1. ASSUME NEW p \in Posts, Accept(p) PROVE FilingNext
    BY <2>1 DEF Accept, FilingNext
  <2>2. ASSUME NEW p \in Posts, Settle(p) PROVE FilingNext BY <2>2 DEF FilingNext
  <2>3. ASSUME NEW l \in Leads, Submit(l) PROVE FilingNext BY <2>3 DEF FilingNext
  <2>4. ASSUME NEW w \in Workers, Filing(w) PROVE FilingNext BY <2>4 DEF FilingNext
  <2>5. ConfigStep \/ RetentionStep => UNCHANGED filingVars
    BY DEF ConfigStep, RetentionStep
  <2>6. UNCHANGED webVars => UNCHANGED filingVars BY DEF webVars
  <2>7. FilingStep => FilingNext
    BY <2>1, <2>2, <2>3, <2>4 DEF FilingStep, FilingNext
  <2> QED BY <2>5, <2>6, <2>7 DEF Next
<1> QED BY <1>1, <1>2, PTL DEF Spec, FilingSpec

(* The whole counts and deletes views as the retention alone does.         *)
THEOREM WebRetains == Spec => RetentionSpec
<1>1. Init => RetentionInit BY DEF Init
<1>2. [Next]_webVars => [RetentionNext]_retentionVars
  <2>1. ConfigStep \/ FilingStep => UNCHANGED retentionVars
    BY DEF ConfigStep, FilingStep
  <2>2. UNCHANGED webVars => UNCHANGED retentionVars BY DEF webVars
  <2>3. RetentionStep => RetentionNext BY DEF RetentionStep
  <2> QED BY <2>1, <2>2, <2>3 DEF Next
<1> QED BY <1>1, <1>2, PTL DEF Spec, RetentionSpec

(* So what is promised of the parts holds while they run side by side.     *)
THEOREM WebKeepsPromises ==
    Spec => [](NotesAccounted /\ SlotsAccounted /\ AnsweredIsSettled /\ NoViewLost)
BY WebFiles, WebRetains, OneNoteEach, SlotsAddUp, AnsweredFormsSettle,
   ViewsAreCounted, PTL
-----------------------------------------------------------------------------
(* The compiled config: whatever is read, cached, validated or hashed is a *)
(* config compiled from a settings row with an id, or none at all.         *)

CallRow == [pc : {"idle", "look", "mint", "saved", "del", "read", "hash",
                  "check", "put", "served", "over"},
            at : Nat, settings : Settings \union {Unread},
            domains : DomainLists \union {Unread},
            config : Config \union {None}]

LEMMA CompiledTyped ==
    ASSUME NEW s \in Settings, NEW d \in DomainLists
    PROVE  Compiled(s, d) \in Config \union {None}
BY DEF Compiled, Settings, Config

LEMMA IdleRows ==
    ASSUME NEW c \in Config \union {None}, NEW at \in Nat, NEW k
    PROVE  /\ Idle \in CallRow /\ Served(c) \in CallRow /\ Over(k, c) \in CallRow
           /\ \A pc \in {"saved", "mint", "del", "read", "hash", "check"} :
                 /\ [Idle EXCEPT !.pc = pc] \in CallRow
                 /\ [Idle EXCEPT !.pc = pc, !.at = at] \in CallRow
<1>1. Idle \in CallRow BY DEF Idle, CallRow
<1>2. Served(c) \in CallRow BY <1>1 DEF Served, CallRow
<1>3. Over(k, c) \in CallRow BY <1>1, <1>2 DEF Over, CallRow
<1>4. ASSUME NEW pc \in {"saved", "mint", "del", "read", "hash", "check"}
      PROVE  /\ [Idle EXCEPT !.pc = pc] \in CallRow
             /\ [Idle EXCEPT !.pc = pc, !.at = at] \in CallRow
  BY <1>1 DEF CallRow
<1> QED BY <1>1, <1>2, <1>3, <1>4

LEMMA CallerFacts ==
    ASSUME ConfigTypeOK, NEW k \in Callers
    PROVE  /\ call[k] \in CallRow /\ call[k].at \in Nat
           /\ call[k].config \in Config \union {None}
           /\ call[k].settings \in Settings \union {Unread}
           /\ call[k].domains \in DomainLists \union {Unread}
           /\ ReplicaOf[k] \in Replicas /\ generation[ReplicaOf[k]] \in Nat
           /\ Store(k) \in Stores /\ cache[Store(k)] \in Config \union {None}
<1>1. call[k] \in CallRow BY DEF ConfigTypeOK, CallRow
<1>2. ReplicaOf[k] \in Replicas BY TrackingConfigAssumption DEF Callers
<1>3. Store(k) \in Stores BY <1>2 DEF Store, Stores
<1> QED BY <1>1, <1>2, <1>3 DEF ConfigTypeOK, CallRow

LEMMA ReadTyped ==
    ASSUME ConfigTypeOK, NEW k \in Callers, NEW s \in Settings \union {Unread},
           NEW d \in DomainLists \union {Unread}
    PROVE  AfterReads(k, s, d) \in CallRow
<1> DEFINE row == call[k]
           c == Compiled(s, d)
           whole == [Idle EXCEPT !.config = c, !.at = row.at]
<1>1. row \in CallRow /\ row.at \in Nat BY CallerFacts
<1>2. [row EXCEPT !.settings = s, !.domains = d] \in CallRow
  <2> HIDE DEF row
  <2> QED BY <1>1 DEF CallRow
<1>3. CASE s = Unread \/ d = Unread BY <1>2, <1>3 DEF AfterReads
<1>4. CASE ~(s = Unread \/ d = Unread)
  <2>1. c \in Config \union {None} BY <1>4, CompiledTyped
  <2> HIDE DEF c, row
  <2>2. Idle \in CallRow /\ Over(k, c) \in CallRow BY <1>1, <2>1, IdleRows
  <2>3. whole \in CallRow BY <1>1, <2>1, <2>2 DEF CallRow
  <2> HIDE DEF whole
  <2>4. [whole EXCEPT !.pc = "hash"] \in CallRow /\ [whole EXCEPT !.pc = "check"] \in CallRow
    BY <2>3 DEF CallRow
  <2> QED BY <1>4, <2>2, <2>4 DEF AfterReads, whole, c, row
<1> QED BY <1>3, <1>4

LEMMA CallTyped ==
    ASSUME ConfigTypeOK, NEW k \in Callers, NEW from, NEW next \in CallRow,
           Goto(k, from, next)
    PROVE  call' \in [Callers -> CallRow]
BY DEF ConfigTypeOK, CallRow, Goto

LEMMA StepTyped ==
    ASSUME ConfigTypeOK, NEW k \in Callers, Step(k) \/ Answer(k) \/ Change(k)
    PROVE  ConfigTypeOK'
<1> USE CallerFacts
<1>1. CASE Miss(k) \/ Hit(k) \/ Answer(k) \/ LookForSite(k)
  <2>1. call' \in [Callers -> CallRow]
    BY <1>1, IdleRows, CallTyped DEF Miss, Hit, Answer, LookForSite
  <2> QED BY <1>1, <2>1 DEF Miss, Hit, Answer, LookForSite, stored, ConfigTypeOK, CallRow
<1>2. CASE Read(k)
  <2>1. settings \in Settings /\ domains \in DomainLists BY DEF ConfigTypeOK
  <2>2. AfterReads(k, settings, call[k].domains) \in CallRow
        /\ AfterReads(k, call[k].settings, domains) \in CallRow
    BY <2>1, ReadTyped
  <2>3. call' \in [Callers -> CallRow]
    BY <1>2, <2>2, CallTyped DEF Read, ReadSettings, ReadDomains
  <2> QED BY <1>2, <2>3 DEF Read, ReadSettings, ReadDomains, stored, ConfigTypeOK, CallRow
<1>3. CASE Current(k) \/ WriteHash(k)
  <2>1. \A pc \in {"put", "check"} : [call[k] EXCEPT !.pc = pc] \in CallRow BY DEF CallRow
  <2>2. Over(k, call[k].config) \in CallRow BY IdleRows
  <2>3. call' \in [Callers -> CallRow]
    BY <1>3, <2>1, <2>2, CallTyped DEF Current, WriteHash
  <2> QED BY <1>3, <2>3 DEF Current, WriteHash, stored, ConfigTypeOK, CallRow
<1>4. CASE Put(k) \/ Delete(k)
  <2>1. [call[k] EXCEPT !.pc = "read"] \in CallRow BY DEF CallRow
  <2>2. Over(k, call[k].config) \in CallRow BY IdleRows
  <2>3. call' \in [Callers -> CallRow] BY <1>4, <2>1, <2>2, CallTyped DEF Put, Delete
  <2>4. cache' \in [Stores -> Config \union {None}]
    BY <1>4 DEF Put, Delete, ConfigTypeOK
  <2> QED BY <1>4, <2>3, <2>4 DEF Put, Delete, stored, ConfigTypeOK, CallRow
<1>5. CASE Invalidate(k)
  <2> DEFINE g == generation[ReplicaOf[k]] + 1
  <2>1. g \in Nat OBVIOUS
  <2> HIDE DEF g
  <2>2. [Idle EXCEPT !.pc = "del", !.at = g] \in CallRow BY <2>1, IdleRows
  <2>3. call' \in [Callers -> CallRow] BY <1>5, <2>2, CallTyped DEF Invalidate, g
  <2>4. generation' \in [Replicas -> Nat] BY <1>5, <2>1 DEF Invalidate, ConfigTypeOK, g
  <2> QED BY <1>5, <2>3, <2>4 DEF Invalidate, stored, ConfigTypeOK, CallRow
<1>6. CASE Mint(k) \/ SetPaused(k) \/ Rotate(k) \/ ListDomain(k)
  <2>1. [Idle EXCEPT !.pc = "saved"] \in CallRow BY IdleRows
  <2>2. call' \in [Callers -> CallRow]
    BY <1>6, <2>1, CallTyped DEF Mint, SetPaused, Rotate, ListDomain, Save
  <2>3. settings \in Settings /\ domains \in DomainLists BY DEF ConfigTypeOK
  <2>4. /\ [settings EXCEPT !.paused = ~settings.paused] \in Settings
        /\ \A new \in Sites : [settings EXCEPT !.site = new] \in Settings
    BY <2>3, Zenon DEF Settings
  <2>5. settings' \in Settings /\ domains' \in DomainLists
    BY <1>6, <2>3, <2>4 DEF Mint, SetPaused, Rotate, ListDomain, Save
  <2> QED BY <1>6, <2>2, <2>5
          DEF Mint, SetPaused, Rotate, ListDomain, Save, ConfigTypeOK, CallRow
<1> QED BY <1>1, <1>2, <1>3, <1>4, <1>5, <1>6 DEF Step, Change

(* Every config is one that was compiled, through races and restarts.      *)
THEOREM ConfigTyped == ConfigSpec => []ConfigTypeOK
<1>1. ConfigInit => ConfigTypeOK
  <2> SUFFICES ASSUME ConfigInit PROVE ConfigTypeOK OBVIOUS
  <2>1. Now \in Config \union {None} BY CompiledTyped DEF ConfigInit, Now
  <2>2. Idle \in CallRow /\ Served(Now) \in CallRow BY <2>1, IdleRows
  <2>3. call \in [Callers -> CallRow] BY <2>2 DEF ConfigInit
  <2>4. cache \in [Stores -> Config \union {None}] BY <2>1 DEF ConfigInit
  <2>5. generation \in [Replicas -> Nat] BY DEF ConfigInit
  <2> QED BY <2>1, <2>3, <2>4, <2>5 DEF ConfigInit, ConfigTypeOK, CallRow
<1>2. ConfigTypeOK /\ [ConfigNext]_configVars => ConfigTypeOK'
  <2> SUFFICES ASSUME ConfigTypeOK, [ConfigNext]_configVars PROVE ConfigTypeOK'
    OBVIOUS
  <2>1. ASSUME NEW k \in Callers, Step(k) \/ Answer(k) \/ Change(k) PROVE ConfigTypeOK'
    BY <2>1, StepTyped
  <2>2. ASSUME NEW s \in Stores, Expire(s) PROVE ConfigTypeOK'
    BY <2>2 DEF Expire, stored, ConfigTypeOK
  <2>3. ASSUME NEW r \in Replicas, Restart(r) PROVE ConfigTypeOK'
    <3>1. Idle \in CallRow /\ \A k : Over(k, None) \in CallRow BY IdleRows
    <3>2. \A k \in Callers : call[k] \in CallRow BY CallerFacts
    <3>3. call' \in [Callers -> CallRow] BY <2>3, <3>1, <3>2 DEF Restart
    <3>4. generation' \in [Replicas -> Nat] BY <2>3 DEF Restart, ConfigTypeOK
    <3>5. cache' \in [Stores -> Config \union {None}] BY <2>3 DEF Restart, ConfigTypeOK
    <3>6. restarts' \in 0..MaxRestarts
      BY <2>3, TrackingConfigAssumption DEF Restart, ConfigTypeOK
    <3> QED BY <2>3, <3>3, <3>4, <3>5, <3>6 DEF Restart, stored, ConfigTypeOK, CallRow
  <2>4. CASE UNCHANGED configVars BY <2>4 DEF configVars, ConfigTypeOK
  <2> QED BY <2>1, <2>2, <2>3, <2>4 DEF ConfigNext
<1> QED BY <1>1, <1>2, PTL DEF ConfigSpec

(* The whole asks for and changes the config as that part alone does, with *)
(* its fairness.                                                           *)
THEOREM WebConfigures == Spec => ConfigSpec
<1>1. Init => ConfigInit BY DEF Init
<1>2. [Next]_webVars => [ConfigNext]_configVars
  <2>1. ConfigStep => ConfigNext BY DEF ConfigStep, ConfigNext, Answered
  <2>2. FilingStep \/ RetentionStep => UNCHANGED configVars
    BY DEF FilingStep, RetentionStep
  <2>3. UNCHANGED webVars => UNCHANGED configVars BY DEF webVars
  <2> QED BY <2>1, <2>2, <2>3 DEF Next
<1> QED BY <1>1, <1>2, PTL DEF Spec, ConfigSpec
=============================================================================
