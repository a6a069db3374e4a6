------------------------ MODULE DispatchSweepProofs ------------------------
(***************************************************************************)
(* What DispatchSweep promises, for every set of callers and sweeps and    *)
(* for all times that leave an item less than the grace.                   *)
(*                                                                         *)
(* The pool: a pass is under way exactly when one sweep runs, and what is  *)
(* noted for its end is noted only then.  The clocks: without trouble, an  *)
(* abandoned sweep has no claim outstanding after its first minute, and    *)
(* the round it is in is at least as old as its abandonment.               *)
(***************************************************************************)
EXTENDS DispatchSweep, FiniteSetTheorems, TLAPS

Of(st, s) == {p \in Sweeps : st[p] = s}

Stages == {"none", "running", "unsettled", "forgotten", "orphaned"}

\* What holds of the sweeps when no pass, or one, has begun.
FlightTypes(st, ag, ab, ln) ==
    /\ st \in [Sweeps -> Stages]
    /\ ag \in [Sweeps -> 0 .. TIMEOUT + GRACE]
    /\ ab \in [Sweeps -> BOOLEAN]
    /\ ln \in [Sweeps -> [Lanes -> {"claim", "round", "done"}]]

RestTypes ==
    /\ caller \in [Callers -> {"idle", "leads", "joined", "tail"}]
    /\ due \in [Callers -> BOOLEAN]
    /\ spent \in [Sweeps -> [Lanes -> 0 .. ITEM]]
    /\ rounds \in [Sweeps -> 0 .. ROUNDS]
    /\ hung \in [Sweeps -> SUBSET Lanes]

Flags ==
    /\ active \in BOOLEAN /\ trailing \in BOOLEAN /\ failed \in BOOLEAN
    /\ catchUp \in BOOLEAN /\ owed \in BOOLEAN /\ shown \in BOOLEAN

Pool ==
    /\ trailing => active
    /\ owed => trailing
    /\ shown => active
    /\ active => shown \/ catchUp

\* The clock of one sweep in stage s, its signal a, lanes l, minutes m, hung lanes h.
Clock(s, g, a, l, m, h, calm) ==
    /\ s = "none" => \A i \in Lanes : l[i] = "done"
    /\ s = "running" => g <= TIMEOUT
    /\ s = "unsettled" => g <= GRACE
    /\ calm => h = {} /\ s \in {"none", "running", "unsettled"}
    /\ calm /\ s = "unsettled" =>
         a /\ \A i \in Lanes : (l[i] = "claim" => g = 0) /\ (l[i] = "round" => g <= m[i])

Clocks(st, ag, ab, ln) ==
    \A p \in Sweeps : Clock(st[p], ag[p], ab[p], ln[p], spent[p], hung[p], troubles = 0)

\* How many are unsettled, and that a pass leaves room for itself.
Room(st, busy) ==
    /\ Cardinality(Of(st, "unsettled")) <= MAX_ABANDONED
    /\ busy => Cardinality(Of(st, "unsettled")) < MAX_ABANDONED

OneRuns(st, busy) ==
    /\ busy <=> \E p \in Sweeps : st[p] = "running"
    /\ \A p, q \in Sweeps : st[p] = "running" /\ st[q] = "running" => p = q

SweepInv ==
    /\ FlightTypes(stage, age, aborted, lane) /\ RestTypes /\ Flags
    /\ troubles \in 0 .. MaxTroubles
    /\ Pool
    /\ Clocks(stage, age, aborted, lane)
    /\ Room(stage, active) /\ OneRuns(stage, active)

-----------------------------------------------------------------------------
LEMMA InitSweep == Init => SweepInv
<1> SUFFICES ASSUME Init PROVE SweepInv OBVIOUS
<1> USE SweepConstants
<1>0. 0 \in 0 .. TIMEOUT + GRACE /\ 0 \in 0 .. ITEM /\ 0 \in 0 .. ROUNDS OBVIOUS
<1>1. FlightTypes(stage, age, aborted, lane)
  <2>1. age \in [Sweeps -> 0 .. TIMEOUT + GRACE] BY <1>0 DEF Init
  <2> QED BY <2>1 DEF Init, FlightTypes, Stages
<1>2. RestTypes /\ Flags
  <2>1. \A p \in Sweeps : [l \in Lanes |-> 0] \in [Lanes -> 0 .. ITEM] BY <1>0
  <2>2. spent \in [Sweeps -> [Lanes -> 0 .. ITEM]] BY <2>1 DEF Init
  <2>3. rounds \in [Sweeps -> 0 .. ROUNDS] /\ hung \in [Sweeps -> SUBSET Lanes] BY <1>0 DEF Init
  <2>4. Flags BY DEF Init, Flags
  <2> QED BY <2>2, <2>3, <2>4 DEF Init, RestTypes
<1>3. troubles \in 0 .. MaxTroubles /\ Pool BY DEF Init, Pool
<1>4. Clocks(stage, age, aborted, lane) BY DEF Init, Clocks, Clock
<1>5. OneRuns(stage, active) BY DEF Init, OneRuns
<1>6. Of(stage, "unsettled") = {} BY DEF Init, Of
<1>7. Room(stage, active)
  <2>1. Cardinality(Of(stage, "unsettled")) = 0 BY <1>6, FS_EmptySet
  <2> QED BY <2>1 DEF Room
<1> QED BY <1>1, <1>2, <1>3, <1>4, <1>5, <1>7 DEF SweepInv

\* One sweep more in a stage makes at most one more of them.
LEMMA OneMore ==
    ASSUME NEW st \in [Sweeps -> Stages], NEW p \in Sweeps, NEW s, NEW to
    PROVE  /\ Cardinality(Of(st, s)) \in Nat
           /\ Cardinality(Of([st EXCEPT ![p] = to], s)) <= Cardinality(Of(st, s)) + 1
           /\ to # s => Cardinality(Of([st EXCEPT ![p] = to], s)) <= Cardinality(Of(st, s))
<1> DEFINE U == Of(st, s)
           V == Of([st EXCEPT ![p] = to], s)
<1>1. IsFiniteSet(Sweeps) BY SweepConstants
<1>2. U \subseteq Sweeps BY DEF Of
<1>3. IsFiniteSet(U) BY <1>1, <1>2, FS_Subset
<1>4. V \subseteq U \cup {p} BY DEF Of
<1>5. to # s => V \subseteq U BY DEF Of
<1> HIDE DEF U, V
<1>6. IsFiniteSet(U \cup {p}) /\ Cardinality(U \cup {p}) \in Nat /\ Cardinality(U) \in Nat
      /\ Cardinality(U \cup {p}) <= Cardinality(U) + 1
  <2>1. Cardinality(U) \in Nat BY <1>3, FS_CardinalityType
  <2>2. IsFiniteSet(U \cup {p}) /\ (Cardinality(U \cup {p}) = Cardinality(U)
                                    \/ Cardinality(U \cup {p}) = Cardinality(U) + 1)
    BY <1>3, FS_AddElement
  <2> QED BY <2>1, <2>2
<1>7. Cardinality(V) <= Cardinality(U \cup {p}) /\ Cardinality(V) \in Nat
  BY <1>4, <1>6, FS_Subset, FS_CardinalityType
<1>8. to # s => Cardinality(V) <= Cardinality(U) BY <1>3, <1>5, FS_Subset
<1> QED BY <1>6, <1>7, <1>8 DEF U, V

\* A pass begins in a free place.
LEMMA BeginKeeps ==
    ASSUME NEW st, NEW ag, NEW ab, NEW ln,
           FlightTypes(st, ag, ab, ln), RestTypes, Begin(st, ag, ab, ln),
           hung' = hung, due' \in [Callers -> BOOLEAN], caller' \in [Callers -> {"idle", "leads", "joined", "tail"}],
           \A p \in Sweeps : Clock(st[p], ag[p], ab[p], ln[p], spent[p], hung[p], troubles' = 0),
           Room(st, TRUE), \A p \in Sweeps : st[p] # "running"
    PROVE  /\ FlightTypes(stage, age, aborted, lane)' /\ RestTypes'
           /\ Clocks(stage, age, aborted, lane)'
           /\ Room(stage', TRUE) /\ OneRuns(stage', TRUE)
<1>1. PICK q \in Sweeps :
        /\ st[q] = "none"
        /\ stage' = [st EXCEPT ![q] = "running"]
        /\ age' = [ag EXCEPT ![q] = 0]
        /\ aborted' = [ab EXCEPT ![q] = FALSE]
        /\ lane' = [ln EXCEPT ![q] = [l \in Lanes |-> "claim"]]
        /\ spent' = [spent EXCEPT ![q] = [l \in Lanes |-> 0]]
        /\ rounds' = [rounds EXCEPT ![q] = 0]
  BY DEF Begin
<1> USE SweepConstants
<1>2. FlightTypes(stage', age', aborted', lane') BY <1>1 DEF FlightTypes, Stages
<1>3. RestTypes' BY <1>1 DEF RestTypes
<1>4. \A p \in Sweeps : Clock(stage'[p], age'[p], aborted'[p], lane'[p], spent'[p], hung'[p], troubles' = 0)
  <2> TAKE p \in Sweeps
  <2>1. CASE p = q
    <3>1. stage'[p] = "running" /\ age'[p] = 0 BY <1>1, <2>1 DEF FlightTypes
    <3>2. hung'[p] = hung[q] /\ Clock(st[q], ag[q], ab[q], ln[q], spent[q], hung[q], troubles' = 0) BY <2>1
    <3>3. troubles' = 0 => hung'[p] = {} BY <3>2 DEF Clock
    <3> QED BY <3>1, <3>3 DEF Clock
  <2>2. CASE p # q
    <3>1. /\ stage'[p] = st[p] /\ age'[p] = ag[p] /\ aborted'[p] = ab[p] /\ lane'[p] = ln[p]
          /\ spent'[p] = spent[p] /\ hung'[p] = hung[p]
      BY <1>1, <2>2 DEF FlightTypes, RestTypes
    <3> QED BY <3>1
  <2> QED BY <2>1, <2>2
<1>5. st \in [Sweeps -> Stages] BY DEF FlightTypes
<1>6. Room(stage', TRUE)
  <2>1. /\ Cardinality(Of(stage', "unsettled")) <= Cardinality(Of(st, "unsettled"))
    BY <1>1, <1>5, OneMore
  <2>2. Cardinality(Of(st, "unsettled")) \in Nat /\ Cardinality(Of(stage', "unsettled")) \in Nat
    BY <1>2, <1>5, OneMore DEF FlightTypes
  <2> QED BY <2>1, <2>2 DEF Room
<1>7. OneRuns(stage', TRUE) BY <1>1, <1>5 DEF OneRuns
<1> QED BY <1>2, <1>3, <1>4, <1>6, <1>7 DEF Clocks

\* The pass under way ends, well or not, and another may follow.
LEMMA OverKeeps ==
    ASSUME SweepInv, NEW ok \in BOOLEAN, NEW st, NEW ag, NEW ab, NEW ln,
           FlightTypes(st, ag, ab, ln), PassOver(ok, st, ag, ab, ln),
           troubles' \in 0 .. MaxTroubles, active,
           \A p \in Sweeps : Clock(st[p], ag[p], ab[p], ln[p], spent[p], hung[p], troubles' = 0),
           Room(st, FALSE), \A p \in Sweeps : st[p] # "running"
    PROVE  SweepInv'
<1> DEFINE over == ~CatchesUp(ok, st)
<1>1. RestTypes /\ Flags BY DEF SweepInv
<1>2. hung' = hung /\ due' = due BY DEF PassOver
<1>3. caller' \in [Callers -> {"idle", "leads", "joined", "tail"}]
  <2>1. Released(ok, over) BY DEF PassOver
  <2> QED BY <1>1, <2>1 DEF Released, RestTypes
<1>4. CASE over
  <2>1. /\ stage' = st /\ age' = ag /\ aborted' = ab /\ lane' = ln
        /\ ~active' /\ ~trailing' /\ ~failed' /\ ~catchUp' /\ ~shown'
        /\ active' \in BOOLEAN /\ trailing' \in BOOLEAN /\ failed' \in BOOLEAN
        /\ catchUp' \in BOOLEAN /\ shown' \in BOOLEAN
        /\ spent' = spent /\ rounds' = rounds
    BY <1>4 DEF PassOver, Remembers
  <2>2. owed' \in BOOLEAN /\ ~owed'
    <3>1. owed' = (owed /\ ~(trailing /\ Refuses(st))) BY <1>4 DEF PassOver
    <3>2. owed => trailing BY DEF SweepInv, Pool
    <3> QED BY <1>4, <3>1, <3>2 DEF CatchesUp
  <2>3. FlightTypes(stage', age', aborted', lane') BY <2>1
  <2>4. RestTypes' BY <1>1, <1>2, <1>3, <2>1 DEF RestTypes
  <2>5. Clocks(stage, age, aborted, lane)' BY <1>2, <2>1 DEF Clocks
  <2>6. Room(stage', active') BY <2>1 DEF Room
  <2>7. OneRuns(stage', active') BY <2>1 DEF OneRuns
  <2>8. Flags' /\ Pool' BY <2>1, <2>2 DEF Flags, Pool
  <2> QED BY <2>3, <2>4, <2>5, <2>6, <2>7, <2>8 DEF SweepInv
<1>5. CASE ~over
  <2>1. Begin(st, ag, ab, ln) /\ owed' = FALSE BY <1>5 DEF PassOver
  <2>2. active' /\ active' \in BOOLEAN /\ trailing' = FALSE /\ failed' \in BOOLEAN
    <3>1. active' = ~over /\ trailing' = FALSE /\ failed' = Remembers(ok, over) BY DEF PassOver
    <3>2. failed \in BOOLEAN BY <1>1 DEF Flags
    <3> QED BY <1>5, <3>1, <3>2 DEF Remembers
  <2>3. Room(st, TRUE)
    <3>1. ~(Cardinality(Of(st, "unsettled")) >= MAX_ABANDONED)
      BY <1>5 DEF CatchesUp, Refuses, Of
    <3>2. Cardinality(Of(st, "unsettled")) <= MAX_ABANDONED BY DEF Room
    <3>3. Cardinality(Of(st, "unsettled")) \in Nat
      <4>1. IsFiniteSet(Of(st, "unsettled")) BY SweepConstants, FS_Subset DEF Of
      <4> QED BY <4>1, FS_CardinalityType
    <3> QED BY <3>1, <3>2, <3>3, SweepConstants DEF Room
  <2>4. /\ FlightTypes(stage, age, aborted, lane)' /\ RestTypes'
        /\ Clocks(stage, age, aborted, lane)'
        /\ Room(stage', TRUE) /\ OneRuns(stage', TRUE)
    <3>1. due' \in [Callers -> BOOLEAN] BY <1>1, <1>2 DEF RestTypes
    <3> QED BY <1>1, <1>2, <1>3, <2>1, <2>3, <3>1, BeginKeeps
  <2>5. Room(stage', active') /\ OneRuns(stage', active') BY <2>2, <2>4
  <2>6. catchUp' /\ catchUp' \in BOOLEAN /\ shown' \in BOOLEAN
    <3>1. catchUp' = active /\ shown' \in IF active THEN BOOLEAN ELSE {TRUE} BY <2>1 DEF Begin
    <3>2. active = TRUE BY <1>1 DEF Flags
    <3> QED BY <3>1, <3>2
  <2>7. Flags' /\ Pool' BY <2>1, <2>2, <2>6 DEF Flags, Pool
  <2> QED BY <2>4, <2>5, <2>7 DEF SweepInv
<1> QED BY <1>4, <1>5

-----------------------------------------------------------------------------
(* Calls. *)

LEMMA CallKeeps == ASSUME SweepInv, NEW c \in Callers, Call(c) PROVE SweepInv'
<1>1. due' \in [Callers -> BOOLEAN] /\ troubles' = troubles BY DEF Call, SweepInv, RestTypes
<1>2. CASE Joins(c)
  <2>1. caller' \in [Callers -> {"idle", "leads", "joined", "tail"}] BY <1>2 DEF Joins, SweepInv, RestTypes
  <2>2. active /\ active' = active /\ UNCHANGED <<failed, catchUp, shown>>
        /\ trailing' = TRUE /\ owed' = TRUE BY <1>2 DEF Joins
  <2>3. UNCHANGED flight BY <1>2 DEF Joins
  <2>4. Flags' /\ Pool' BY <2>2 DEF SweepInv, Flags, Pool
  <2>5. RestTypes' BY <1>1, <2>1, <2>3 DEF SweepInv, RestTypes, flight
  <2> QED BY <1>1, <2>2, <2>3, <2>4, <2>5 DEF SweepInv, flight, FlightTypes, Clocks, Room, OneRuns
<1>3. CASE Refused(c)
  <2>1. caller' \in [Callers -> {"idle", "leads", "joined", "tail"}] BY <1>3 DEF Refused, SweepInv, RestTypes
  <2>2. active' = active /\ UNCHANGED <<trailing, failed, catchUp, shown>> /\ owed' = FALSE
    BY <1>3 DEF Refused
  <2>3. UNCHANGED flight BY <1>3 DEF Refused
  <2>4. Flags' /\ Pool' BY <2>2 DEF SweepInv, Flags, Pool
  <2>5. RestTypes' BY <1>1, <2>1, <2>3 DEF SweepInv, RestTypes, flight
  <2> QED BY <1>1, <2>2, <2>3, <2>4, <2>5 DEF SweepInv, flight, FlightTypes, Clocks, Room, OneRuns
<1>4. CASE Leads(c)
  <2>1. ~active /\ ~Refuses(stage) /\ Begin(stage, age, aborted, lane)
        /\ active' = TRUE /\ owed' = FALSE /\ UNCHANGED <<trailing, failed, hung>>
    BY <1>4 DEF Leads
  <2>2. caller' \in [Callers -> {"idle", "leads", "joined", "tail"}] BY <1>4 DEF Leads, SweepInv, RestTypes
  <2>3. \A p \in Sweeps : stage[p] # "running" BY <2>1 DEF SweepInv, OneRuns
  <2>4. Room(stage, TRUE)
    <3>1. ~(Cardinality(Of(stage, "unsettled")) >= MAX_ABANDONED) BY <2>1 DEF Refuses, Of
    <3>2. Cardinality(Of(stage, "unsettled")) \in Nat
      <4>1. IsFiniteSet(Of(stage, "unsettled")) BY SweepConstants, FS_Subset DEF Of
      <4> QED BY <4>1, FS_CardinalityType
    <3> QED BY <3>1, <3>2, SweepConstants DEF Room
  <2>5. \A p \in Sweeps : Clock(stage[p], age[p], aborted[p], lane[p], spent[p], hung[p], troubles' = 0)
    BY <1>1 DEF SweepInv, Clocks
  <2>7. /\ FlightTypes(stage, age, aborted, lane)' /\ RestTypes'
        /\ Clocks(stage, age, aborted, lane)'
        /\ Room(stage', TRUE) /\ OneRuns(stage', TRUE)
    BY <1>1, <2>1, <2>2, <2>3, <2>4, <2>5, BeginKeeps DEF SweepInv
  <2>8. shown' = TRUE /\ catchUp' = active BY <2>1 DEF Begin
  <2>9. Flags' /\ Pool' BY <2>1, <2>8 DEF SweepInv, Flags, Pool
  <2>10. Room(stage', active') /\ OneRuns(stage', active') BY <2>1, <2>7
  <2> QED BY <1>1, <2>7, <2>9, <2>10 DEF SweepInv
<1> QED BY <1>2, <1>3, <1>4 DEF Call

LEMMA TailKeeps == ASSUME SweepInv, NEW c \in Callers, Tail(c) PROVE SweepInv'
<1>1. caller' \in [Callers -> {"idle", "leads", "joined", "tail"}] BY DEF Tail, SweepInv, RestTypes
<1>2. UNCHANGED <<due, active, trailing, failed, catchUp, owed, shown, troubles>> /\ UNCHANGED flight
  BY DEF Tail
<1> QED BY <1>1, <1>2 DEF SweepInv, RestTypes, Flags, Pool, FlightTypes, Clocks, Room, OneRuns, flight

-----------------------------------------------------------------------------
(* The lanes.  A round that begins after the abandonment does not exist: an   *)
(* aborted lane goes from its claim to its end.                               *)

LEMMA LaneKeeps ==
    ASSUME SweepInv, NEW p \in Sweeps, NEW l \in Lanes, LaneReturns(p, l)
    PROVE  SweepInv'
<1>1. PICK i \in Lanes, to \in {"claim", "round", "done"} :
        /\ LaneStep(p, i, to)
        /\ aborted[p] => to = "done"
  BY DEF LaneReturns, Claimed, VisibleRound, ResearchRound, Lanes, SweepInv, FlightTypes
<1>2. rounds' \in [Sweeps -> 0 .. ROUNDS]
  <2>1. rounds \in [Sweeps -> 0 .. ROUNDS] /\ ROUNDS \in Nat BY SweepConstants DEF SweepInv, RestTypes
  <2>2. rounds' = rounds \/ \E n \in 0 .. ROUNDS : rounds' = [rounds EXCEPT ![p] = n]
    <3>1. rounds[p] \in 0 .. ROUNDS /\ 0 \in 0 .. ROUNDS BY <2>1
    <3>2. rounds[p] + 1 < ROUNDS => rounds[p] + 1 \in 0 .. ROUNDS BY <2>1, <3>1
    <3> QED BY <3>1, <3>2 DEF LaneReturns, Claimed, VisibleRound, ResearchRound
  <2> QED BY <2>1, <2>2
<1>3. stage[p] # "none" BY DEF LaneReturns
<1>4. /\ lane' = [lane EXCEPT ![p] = [lane[p] EXCEPT ![i] = to]]
      /\ spent' = [spent EXCEPT ![p] = [spent[p] EXCEPT ![i] = 0]]
      /\ hung' = [hung EXCEPT ![p] = hung[p] \ {i}]
      /\ UNCHANGED <<stage, age, aborted, troubles, shown>> /\ UNCHANGED pool
  BY <1>1 DEF LaneStep
<1>5. FlightTypes(stage', age', aborted', lane') BY <1>1, <1>4 DEF SweepInv, FlightTypes
<1>6. RestTypes'
  <2>1. ITEM \in Nat BY SweepConstants
  <2>2. spent' \in [Sweeps -> [Lanes -> 0 .. ITEM]] BY <1>4, <2>1 DEF SweepInv, RestTypes
  <2>3. hung' \in [Sweeps -> SUBSET Lanes] BY <1>4 DEF SweepInv, RestTypes
  <2> QED BY <1>2, <1>4, <2>2, <2>3 DEF SweepInv, RestTypes, pool
<1>7. \A q \in Sweeps : Clock(stage'[q], age'[q], aborted'[q], lane'[q], spent'[q], hung'[q], troubles' = 0)
  <2> TAKE q \in Sweeps
  <2>0. Clock(stage[q], age[q], aborted[q], lane[q], spent[q], hung[q], troubles = 0) BY DEF SweepInv, Clocks
  <2>1. CASE q # p BY <1>4, <2>0, <2>1 DEF SweepInv, FlightTypes, RestTypes
  <2>2. CASE q = p
    <3>1. /\ stage'[q] = stage[p] /\ age'[q] = age[p] /\ aborted'[q] = aborted[p] /\ troubles' = troubles
          /\ lane'[q] = [lane[p] EXCEPT ![i] = to] /\ spent'[q] = [spent[p] EXCEPT ![i] = 0]
          /\ hung'[q] = hung[p] \ {i}
      BY <1>4, <2>2 DEF SweepInv, FlightTypes, RestTypes
    <3>2. lane[p] \in [Lanes -> {"claim", "round", "done"}] /\ spent[p] \in [Lanes -> 0 .. ITEM]
      BY DEF SweepInv, FlightTypes, RestTypes
    <3>3. \A j \in Lanes : j # i => lane'[q][j] = lane[p][j] /\ spent'[q][j] = spent[p][j]
      BY <3>1, <3>2
    <3>4. lane'[q][i] = to BY <3>1, <3>2
    <3>5. troubles = 0 => hung'[q] = {} BY <2>0, <2>2, <3>1 DEF Clock
    <3>6. troubles = 0 /\ stage[p] = "unsettled" => aborted[p] /\ lane'[q][i] = "done"
      BY <1>1, <2>0, <2>2, <3>4 DEF Clock
    <3>7. troubles = 0 /\ stage[p] = "unsettled" =>
            \A j \in Lanes : (lane'[q][j] = "claim" => age'[q] = 0) /\ (lane'[q][j] = "round" => age'[q] <= spent'[q][j])
      BY <2>0, <2>2, <3>1, <3>3, <3>6 DEF Clock
    <3> QED BY <1>3, <2>0, <2>2, <3>1, <3>5, <3>6, <3>7 DEF Clock
  <2> QED BY <2>1, <2>2
<1>8. Flags' /\ Pool' BY <1>4 DEF SweepInv, Flags, Pool, pool
<1>9. Room(stage', active') /\ OneRuns(stage', active') BY <1>4 DEF SweepInv, pool
<1>10. troubles' \in 0 .. MaxTroubles BY <1>4 DEF SweepInv
<1> QED BY <1>5, <1>6, <1>7, <1>8, <1>9, <1>10 DEF SweepInv, Clocks

\* Trouble: nothing is claimed of the clocks from here on.
LEMMA HangKeeps == ASSUME SweepInv, NEW p \in Sweeps, NEW l \in Lanes, Hangs(p, l) PROVE SweepInv'
<1>1. /\ troubles' = troubles + 1 /\ troubles < MaxTroubles
      /\ hung' = [hung EXCEPT ![p] = hung[p] \cup {l}]
      /\ UNCHANGED <<stage, age, aborted, lane, spent, rounds, shown>> /\ UNCHANGED pool
  BY DEF Hangs
<1>2. troubles' \in 0 .. MaxTroubles /\ troubles' # 0 BY <1>1, SweepConstants DEF SweepInv
<1>3. RestTypes' BY <1>1 DEF SweepInv, RestTypes, pool
<1>4. \A q \in Sweeps : Clock(stage'[q], age'[q], aborted'[q], lane'[q], spent'[q], hung'[q], troubles' = 0)
  <2> TAKE q \in Sweeps
  <2>1. Clock(stage[q], age[q], aborted[q], lane[q], spent[q], hung[q], troubles = 0) BY DEF SweepInv, Clocks
  <2> QED BY <1>1, <1>2, <2>1 DEF Clock
<1> QED BY <1>1, <1>2, <1>3, <1>4 DEF SweepInv, FlightTypes, Flags, Pool, pool, Clocks, Room, OneRuns

-----------------------------------------------------------------------------
(* How sweeps end. *)

\* Clearing or setting a timer anew leaves times in range.
LEMMA TimedTypes == ASSUME SweepInv, NEW p \in Sweeps
    PROVE /\ Timed(p) \in [Sweeps -> 0 .. TIMEOUT + GRACE]
          /\ Timed(p)[p] = 0
          /\ \A q \in Sweeps : q # p => Timed(p)[q] = age[q]
<1>1. 0 \in 0 .. TIMEOUT + GRACE BY SweepConstants
<1> QED BY <1>1 DEF Timed, SweepInv, FlightTypes

\* Taking the one that runs out of "running" leaves none.
LEMMA NoneRuns == ASSUME SweepInv, NEW p \in Sweeps, stage[p] = "running", NEW to, to # "running"
    PROVE  active /\ \A q \in Sweeps : [stage EXCEPT ![p] = to][q] # "running"
BY DEF SweepInv, OneRuns, FlightTypes

LEMMA Counts == ASSUME SweepInv, NEW p \in Sweeps, NEW to \in Stages,
                       to = "unsettled" => active
    PROVE  Room([stage EXCEPT ![p] = to], FALSE)
<1>1. stage \in [Sweeps -> Stages] BY DEF SweepInv, FlightTypes
<1>2. /\ Cardinality(Of(stage, "unsettled")) \in Nat
      /\ Cardinality(Of([stage EXCEPT ![p] = to], "unsettled")) <= Cardinality(Of(stage, "unsettled")) + 1
      /\ to # "unsettled" => Cardinality(Of([stage EXCEPT ![p] = to], "unsettled")) <= Cardinality(Of(stage, "unsettled"))
  BY <1>1, OneMore
<1>3. [stage EXCEPT ![p] = to] \in [Sweeps -> Stages] BY <1>1
<1>4. Cardinality(Of([stage EXCEPT ![p] = to], "unsettled")) \in Nat BY <1>3, OneMore
<1>5. Room(stage, active) BY DEF SweepInv
<1> QED BY <1>2, <1>4, <1>5, SweepConstants DEF Room

LEMMA SettleKeeps == ASSUME SweepInv, NEW p \in Sweeps, Settles(p) PROVE SweepInv'
<1>1. Settled(p) /\ troubles' = troubles BY DEF Settles
<1>2. FlightTypes(Gone(p), Timed(p), aborted, lane)
  BY TimedTypes DEF SweepInv, FlightTypes, Gone, Stages
<1>3. \A ab : \A q \in Sweeps : (\A r \in Sweeps : r # p => ab[r] = aborted[r]) =>
        Clock(Gone(p)[q], Timed(p)[q], ab[q], lane[q], spent[q], hung[q], troubles' = 0)
  <2> TAKE ab
  <2> TAKE q \in Sweeps
  <2> HAVE \A r \in Sweeps : r # p => ab[r] = aborted[r]
  <2>1. Clock(stage[q], age[q], aborted[q], lane[q], spent[q], hung[q], troubles = 0) BY DEF SweepInv, Clocks
  <2>2. CASE q = p BY <1>1, <2>1, <2>2 DEF Clock, Gone, Settled, SweepInv, FlightTypes
  <2>3. CASE q # p BY <1>1, <2>1, <2>3, TimedTypes DEF Gone, SweepInv, FlightTypes
  <2> QED BY <2>2, <2>3
<1>4. Room(Gone(p), FALSE) BY Counts DEF Gone, Stages
<1>5. CASE stage[p] = "running"
  <2>1. PassOver(TRUE, Gone(p), Timed(p), aborted, lane) BY <1>5 DEF Settles
  <2>2. active /\ \A q \in Sweeps : Gone(p)[q] # "running" BY <1>5, NoneRuns DEF Gone
  <2>3. troubles' \in 0 .. MaxTroubles BY <1>1 DEF SweepInv
  <2>4. \A q \in Sweeps : Clock(Gone(p)[q], Timed(p)[q], aborted[q], lane[q], spent[q], hung[q], troubles' = 0)
    BY <1>3
  <2> QED BY <1>2, <1>4, <2>1, <2>2, <2>3, <2>4, OverKeeps
<1>6. CASE stage[p] # "running"
  <2>1. /\ stage' = Gone(p) /\ age' = Timed(p) /\ aborted' = [aborted EXCEPT ![p] = FALSE]
        /\ UNCHANGED <<lane, spent, rounds, hung, shown>> /\ UNCHANGED pool
    BY <1>6 DEF Settles
  <2>2. FlightTypes(stage', age', aborted', lane') BY <1>2, <2>1 DEF FlightTypes
  <2>3. \A r \in Sweeps : r # p => aborted'[r] = aborted[r] BY <2>1 DEF SweepInv, FlightTypes
  <2>4. \A q \in Sweeps : Clock(stage'[q], age'[q], aborted'[q], lane'[q], spent'[q], hung'[q], troubles' = 0)
    BY <1>3, <2>1, <2>3
  <2>5. Room(stage', active')
    <3>1. stage \in [Sweeps -> Stages] BY DEF SweepInv, FlightTypes
    <3>2. Cardinality(Of(stage', "unsettled")) <= Cardinality(Of(stage, "unsettled"))
      BY <2>1, <3>1, OneMore DEF Gone
    <3>3. Cardinality(Of(stage, "unsettled")) \in Nat /\ Cardinality(Of(stage', "unsettled")) \in Nat
      BY <2>2, <3>1, OneMore DEF FlightTypes
    <3>4. Room(stage, active) /\ active' = active BY <2>1 DEF SweepInv, pool
    <3> QED BY <3>2, <3>3, <3>4, SweepConstants DEF Room
  <2>6. OneRuns(stage', active')
    <3>1. OneRuns(stage, active) /\ active' = active BY <2>1 DEF SweepInv, pool
    <3>2. \A q \in Sweeps : stage'[q] = "running" <=> stage[q] = "running"
      BY <1>6, <2>1 DEF Gone, SweepInv, FlightTypes
    <3> QED BY <3>1, <3>2 DEF OneRuns
  <2>7. RestTypes' /\ Flags' /\ Pool' BY <2>1 DEF SweepInv, RestTypes, Flags, Pool, pool
  <2>8. troubles' \in 0 .. MaxTroubles BY <1>1 DEF SweepInv
  <2> QED BY <2>2, <2>4, <2>5, <2>6, <2>7, <2>8 DEF SweepInv, Clocks
<1> QED BY <1>5, <1>6

LEMMA ThrowKeeps == ASSUME SweepInv, NEW p \in Sweeps, NEW l \in Lanes, Throws(p, l) PROVE SweepInv'
<1> DEFINE st == [stage EXCEPT ![p] = "orphaned"]
           ln == [lane EXCEPT ![p] = [lane[p] EXCEPT ![l] = "done"]]
<1>1. troubles' \in 0 .. MaxTroubles /\ troubles' # 0
  BY SweepConstants DEF Throws, SweepInv
<1>2. FlightTypes(st, Timed(p), aborted, ln)
  BY TimedTypes DEF SweepInv, FlightTypes, Stages
<1>3. \A q \in Sweeps : Clock(st[q], Timed(p)[q], aborted[q], ln[q], spent[q], hung[q], troubles' = 0)
  <2> TAKE q \in Sweeps
  <2>1. Clock(stage[q], age[q], aborted[q], lane[q], spent[q], hung[q], troubles = 0) BY DEF SweepInv, Clocks
  <2>2. CASE q = p
    <3>1. st[q] = "orphaned" BY <2>2 DEF SweepInv, FlightTypes
    <3> QED BY <1>1, <3>1 DEF Clock
  <2>3. CASE q # p
    <3>1. st[q] = stage[q] /\ Timed(p)[q] = age[q] /\ ln[q] = lane[q]
      BY <2>3, TimedTypes DEF SweepInv, FlightTypes
    <3> QED BY <1>1, <2>1, <3>1 DEF Clock
  <2> QED BY <2>2, <2>3
<1>4. Room(st, FALSE) BY Counts DEF Stages
<1>5. CASE stage[p] = "running"
  <2>1. PassOver(FALSE, st, Timed(p), aborted, ln) BY <1>5 DEF Throws
  <2>2. active /\ \A q \in Sweeps : st[q] # "running" BY <1>5, NoneRuns
  <2> HIDE DEF st, ln
  <2> QED BY <1>1, <1>2, <1>3, <1>4, <2>1, <2>2, OverKeeps
<1>6. CASE stage[p] # "running"
  <2>1. /\ stage' = st /\ age' = Timed(p) /\ lane' = ln
        /\ UNCHANGED <<aborted, spent, rounds, hung, shown>> /\ UNCHANGED pool
    BY <1>6 DEF Throws
  <2>2. FlightTypes(stage', age', aborted', lane') BY <1>2, <2>1
  <2>3. \A q \in Sweeps : Clock(stage'[q], age'[q], aborted'[q], lane'[q], spent'[q], hung'[q], troubles' = 0)
    BY <1>3, <2>1
  <2>4. Room(stage', active')
    <3>1. stage \in [Sweeps -> Stages] BY DEF SweepInv, FlightTypes
    <3>2. Cardinality(Of(stage', "unsettled")) <= Cardinality(Of(stage, "unsettled"))
      BY <2>1, <3>1, OneMore
    <3>3. Cardinality(Of(stage, "unsettled")) \in Nat /\ Cardinality(Of(stage', "unsettled")) \in Nat
      BY <2>2, <3>1, OneMore DEF FlightTypes
    <3>4. Room(stage, active) /\ active' = active BY <2>1 DEF SweepInv, pool
    <3> QED BY <3>2, <3>3, <3>4, SweepConstants DEF Room
  <2>5. OneRuns(stage', active')
    <3>1. OneRuns(stage, active) /\ active' = active BY <2>1 DEF SweepInv, pool
    <3>2. \A q \in Sweeps : stage'[q] = "running" <=> stage[q] = "running"
      BY <1>6, <2>1 DEF SweepInv, FlightTypes
    <3> QED BY <3>1, <3>2 DEF OneRuns
  <2>6. RestTypes' /\ Flags' /\ Pool' BY <2>1 DEF SweepInv, RestTypes, Flags, Pool, pool
  <2> QED BY <1>1, <2>2, <2>3, <2>4, <2>5, <2>6 DEF SweepInv, Clocks
<1> QED BY <1>5, <1>6

LEMMA AbandonKeeps == ASSUME SweepInv, NEW p \in Sweeps, Abandon(p) PROVE SweepInv'
<1> DEFINE st == [stage EXCEPT ![p] = "unsettled"]
           ab == [aborted EXCEPT ![p] = TRUE]
<1>1. stage[p] = "running" /\ PassOver(FALSE, st, Timed(p), ab, lane) /\ troubles' = troubles
  BY DEF Abandon
<1>2. FlightTypes(st, Timed(p), ab, lane) BY TimedTypes DEF SweepInv, FlightTypes, Stages
<1>3. \A q \in Sweeps : Clock(st[q], Timed(p)[q], ab[q], lane[q], spent[q], hung[q], troubles' = 0)
  <2> TAKE q \in Sweeps
  <2>1. Clock(stage[q], age[q], aborted[q], lane[q], spent[q], hung[q], troubles = 0) BY DEF SweepInv, Clocks
  <2>2. CASE q = p
    <3>1. st[q] = "unsettled" /\ ab[q] = TRUE /\ Timed(p)[q] = 0
      BY <2>2, TimedTypes DEF SweepInv, FlightTypes
    <3>2. \A i \in Lanes : spent[q][i] \in 0 .. ITEM BY DEF SweepInv, RestTypes
    <3>3. \A i \in Lanes : 0 <= spent[q][i] BY <3>2, SweepConstants
    <3>4. 0 <= GRACE BY SweepConstants
    <3>5. troubles' = 0 => hung[q] = {} BY <1>1, <2>1 DEF Clock
    <3> QED BY <3>1, <3>3, <3>4, <3>5 DEF Clock
  <2>3. CASE q # p
    <3>1. st[q] = stage[q] /\ Timed(p)[q] = age[q] /\ ab[q] = aborted[q]
      BY <2>3, TimedTypes DEF SweepInv, FlightTypes
    <3> QED BY <1>1, <2>1, <3>1
  <2> QED BY <2>2, <2>3
<1>4. active /\ \A q \in Sweeps : st[q] # "running" BY <1>1, NoneRuns
<1>5. Room(st, FALSE) BY <1>4, Counts DEF Stages
<1>6. troubles' \in 0 .. MaxTroubles BY <1>1 DEF SweepInv
<1> HIDE DEF st, ab
<1> QED BY <1>1, <1>2, <1>3, <1>4, <1>5, <1>6, OverKeeps

\* Without trouble the grace never runs out: a lane would be in a round older
\* than an item may take.
LEMMA NeverForgotten == ASSUME SweepInv, NEW p \in Sweeps, Forget(p), troubles = 0 PROVE FALSE
<1>1. stage[p] = "unsettled" /\ age[p] = GRACE /\ ~Settled(p) BY DEF Forget
<1>2. PICK l \in Lanes : lane[p][l] # "done" BY <1>1 DEF Settled
<1>3. Clock(stage[p], age[p], aborted[p], lane[p], spent[p], hung[p], troubles = 0) BY DEF SweepInv, Clocks
<1>4. lane[p][l] \in {"claim", "round"} BY <1>2 DEF SweepInv, FlightTypes
<1>5. (lane[p][l] = "claim" => age[p] = 0) /\ (lane[p][l] = "round" => age[p] <= spent[p][l])
  BY <1>1, <1>3 DEF Clock
<1>6. spent[p][l] \in 0 .. ITEM BY DEF SweepInv, RestTypes
<1> QED BY <1>1, <1>4, <1>5, <1>6, SweepConstants

LEMMA ForgetKeeps == ASSUME SweepInv, NEW p \in Sweeps, Forget(p) PROVE SweepInv'
<1>1. /\ stage[p] = "unsettled"
      /\ stage' = [stage EXCEPT ![p] = "forgotten"] /\ age' = Timed(p)
      /\ UNCHANGED <<aborted, lane, spent, rounds, hung, shown, troubles>> /\ UNCHANGED pool
  BY DEF Forget
<1>2. troubles # 0 BY NeverForgotten
<1>3. FlightTypes(stage', age', aborted', lane') BY <1>1, TimedTypes DEF SweepInv, FlightTypes, Stages
<1>4. \A q \in Sweeps : Clock(stage'[q], age'[q], aborted'[q], lane'[q], spent'[q], hung'[q], troubles' = 0)
  <2> TAKE q \in Sweeps
  <2>1. Clock(stage[q], age[q], aborted[q], lane[q], spent[q], hung[q], troubles = 0) BY DEF SweepInv, Clocks
  <2>2. CASE q = p
    <3>1. stage'[q] = "forgotten" BY <1>1, <2>2 DEF SweepInv, FlightTypes
    <3> QED BY <1>1, <1>2, <3>1 DEF Clock
  <2>3. CASE q # p
    <3>1. stage'[q] = stage[q] /\ age'[q] = age[q] BY <1>1, <2>3, TimedTypes DEF SweepInv, FlightTypes
    <3> QED BY <1>1, <2>1, <3>1
  <2> QED BY <2>2, <2>3
<1>5. Room(stage', active')
  <2>1. stage \in [Sweeps -> Stages] BY DEF SweepInv, FlightTypes
  <2>2. Cardinality(Of(stage', "unsettled")) <= Cardinality(Of(stage, "unsettled"))
    BY <1>1, <2>1, OneMore
  <2>3. Cardinality(Of(stage, "unsettled")) \in Nat /\ Cardinality(Of(stage', "unsettled")) \in Nat
    BY <1>3, <2>1, OneMore DEF FlightTypes
  <2>4. Room(stage, active) /\ active' = active BY <1>1 DEF SweepInv, pool
  <2> QED BY <2>2, <2>3, <2>4, SweepConstants DEF Room
<1>6. OneRuns(stage', active')
  <2>1. OneRuns(stage, active) /\ active' = active BY <1>1 DEF SweepInv, pool
  <2>2. \A q \in Sweeps : stage'[q] = "running" <=> stage[q] = "running"
    BY <1>1 DEF SweepInv, FlightTypes
  <2> QED BY <2>1, <2>2 DEF OneRuns
<1>7. RestTypes' /\ Flags' /\ Pool' /\ troubles' \in 0 .. MaxTroubles
  BY <1>1 DEF SweepInv, RestTypes, Flags, Pool, pool
<1> QED BY <1>3, <1>4, <1>5, <1>6, <1>7 DEF SweepInv, Clocks

-----------------------------------------------------------------------------
(* Time. *)

LEMMA MinuteKeeps == ASSUME SweepInv, Minute PROVE SweepInv'
<1>1. /\ \A p \in InFlight : Quiet(p)
      /\ age' = [p \in Sweeps |-> IF stage[p] \in {"running", "unsettled"} THEN age[p] + 1 ELSE age[p]]
      /\ spent' = [p \in Sweeps |-> [l \in Lanes |->
                     IF lane[p][l] = "round" /\ l \notin hung[p] THEN spent[p][l] + 1 ELSE spent[p][l]]]
      /\ due' = [c \in Callers |-> TRUE]
      /\ UNCHANGED <<caller, active, trailing, failed, catchUp, owed, stage, aborted, lane, rounds,
                     hung, shown, troubles>>
  BY DEF Minute
<1>2. \A p \in Sweeps : Clock(stage[p], age[p], aborted[p], lane[p], spent[p], hung[p], troubles = 0)
  BY DEF SweepInv, Clocks
<1>3. \A p \in Sweeps : age'[p] \in 0 .. TIMEOUT + GRACE
                      /\ (stage[p] = "running" => age'[p] <= TIMEOUT)
                      /\ (stage[p] = "unsettled" => age'[p] <= GRACE)
  <2> TAKE p \in Sweeps
  <2>1. age[p] \in 0 .. TIMEOUT + GRACE BY DEF SweepInv, FlightTypes
  <2>2. age'[p] = IF stage[p] \in {"running", "unsettled"} THEN age[p] + 1 ELSE age[p] BY <1>1
  <2>3. stage[p] = "running" => age[p] < TIMEOUT BY <1>1 DEF InFlight, Quiet
  <2>4. stage[p] = "unsettled" => age[p] < GRACE BY <1>1 DEF InFlight, Quiet
  <2> QED BY <2>1, <2>2, <2>3, <2>4, SweepConstants
<1>4. \A p \in Sweeps, l \in Lanes :
        /\ spent'[p][l] \in 0 .. ITEM
        /\ spent'[p][l] >= spent[p][l]
        /\ lane[p][l] = "round" /\ l \notin hung[p] => spent'[p][l] = spent[p][l] + 1
  <2> TAKE p \in Sweeps, l \in Lanes
  <2>1. spent[p][l] \in 0 .. ITEM BY DEF SweepInv, RestTypes
  <2>2. spent'[p][l] = IF lane[p][l] = "round" /\ l \notin hung[p] THEN spent[p][l] + 1 ELSE spent[p][l]
    BY <1>1
  <2>3. lane[p][l] = "round" /\ l \notin hung[p] => spent[p][l] < ITEM
    <3>1. CASE stage[p] = "none"
      <4>1. lane[p][l] = "done" BY <1>2, <3>1 DEF Clock
      <4> QED BY <4>1
    <3>2. CASE stage[p] # "none" BY <1>1, <3>2 DEF InFlight, Quiet
    <3> QED BY <3>1, <3>2
  <2> QED BY <2>1, <2>2, <2>3, SweepConstants
<1>5. FlightTypes(stage', age', aborted', lane') BY <1>1, <1>3 DEF SweepInv, FlightTypes
<1>6. RestTypes' BY <1>1, <1>4 DEF SweepInv, RestTypes
<1>7. \A p \in Sweeps : Clock(stage'[p], age'[p], aborted'[p], lane'[p], spent'[p], hung'[p], troubles' = 0)
  <2> TAKE p \in Sweeps
  <2>1. CASE troubles = 0 /\ stage[p] = "unsettled"
    <3>1. hung[p] = {} /\ aborted[p] BY <1>2, <2>1 DEF Clock
    <3>2. \A l \in Lanes : lane[p][l] # "claim" BY <1>1, <2>1, <3>1 DEF InFlight, Quiet
    <3>3. age'[p] = age[p] + 1 /\ age[p] \in Nat BY <1>1, <2>1, SweepConstants DEF SweepInv, FlightTypes
    <3>4. \A l \in Lanes : lane[p][l] = "round" => age'[p] <= spent'[p][l]
      <4> TAKE l \in Lanes
      <4> HAVE lane[p][l] = "round"
      <4>1. age[p] <= spent[p][l] BY <1>2, <2>1 DEF Clock
      <4>2. spent'[p][l] = spent[p][l] + 1 /\ spent[p][l] \in 0 .. ITEM
        BY <1>4, <3>1 DEF SweepInv, RestTypes
      <4> QED BY <3>3, <4>1, <4>2, SweepConstants
    <3> QED BY <1>1, <1>3, <2>1, <3>1, <3>2, <3>4 DEF Clock
  <2>2. CASE ~(troubles = 0 /\ stage[p] = "unsettled") BY <1>1, <1>2, <1>3, <2>2 DEF Clock
  <2> QED BY <2>1, <2>2
<1>8. Flags' /\ Pool' /\ Room(stage', active') /\ OneRuns(stage', active') /\ troubles' \in 0 .. MaxTroubles
  BY <1>1 DEF SweepInv, Flags, Pool
<1> QED BY <1>5, <1>6, <1>7, <1>8 DEF SweepInv, Clocks

-----------------------------------------------------------------------------
LEMMA StepKeeps == SweepInv /\ [Next]_vars => SweepInv'
<1> SUFFICES ASSUME SweepInv, [Next]_vars PROVE SweepInv' OBVIOUS
<1>1. CASE \E c \in Callers : Call(c) \/ Tail(c) BY <1>1, CallKeeps, TailKeeps
<1>2. CASE \E p \in Sweeps, l \in Lanes : LaneReturns(p, l) \/ Hangs(p, l) \/ Throws(p, l)
  BY <1>2, LaneKeeps, HangKeeps, ThrowKeeps
<1>3. CASE Timers BY <1>3, SettleKeeps, AbandonKeeps, ForgetKeeps DEF Timers
<1>4. CASE Minute BY <1>4, MinuteKeeps
<1>5. CASE UNCHANGED vars
  BY <1>5 DEF vars, pool, flight, SweepInv, FlightTypes, RestTypes, Flags, Pool, Clocks, Room, OneRuns
<1> QED BY <1>1, <1>2, <1>3, <1>4, <1>5 DEF Next

\* The invariant of the sweeps: the pool's notes, the clocks and the count agree.
THEOREM SweepInvariant == Spec => []SweepInv
<1> QED BY InitSweep, StepKeeps, PTL DEF Spec

\* Type correctness; in particular no round outlives its deadline.
THEOREM SweepTyped == Spec => []TypeOK
<1>1. SweepInv => TypeOK BY DEF SweepInv, FlightTypes, RestTypes, Flags, TypeOK, Stages
<1> QED BY <1>1, SweepInvariant, PTL

\* A call that joined is owed the pass that follows at once (lib/pool.ts).
THEOREM OwedComesNext == Spec => []OwedIsNext
<1>1. SweepInv => OwedIsNext BY DEF SweepInv, Pool, OwedIsNext
<1> QED BY <1>1, SweepInvariant, PTL

\* What health calls running is what drainAll counts on (dispatchHealth).
THEOREM HealthIsTrue == Spec => []HealthTells
<1>1. ASSUME SweepInv PROVE HealthTells
  <2> DEFINE known == {p \in Sweeps : stage[p] \in {"running", "unsettled"}}
             running == shown \/ \E p \in Sweeps : stage[p] = "unsettled"
  <2>1. running => known # {}
    <3>1. CASE shown
      <4>1. active BY <1>1, <3>1 DEF SweepInv, Pool
      <4>2. \E p \in Sweeps : stage[p] = "running" BY <1>1, <4>1 DEF SweepInv, OneRuns
      <4> QED BY <4>2
    <3>2. CASE \E p \in Sweeps : stage[p] = "unsettled" BY <3>2
    <3> QED BY <3>1, <3>2
  <2>2. known # {} => running \/ catchUp
    <3>1. ASSUME NEW p \in Sweeps, stage[p] = "running" PROVE shown \/ catchUp
      <4>1. active BY <1>1, <3>1 DEF SweepInv, OneRuns
      <4> QED BY <1>1, <4>1 DEF SweepInv, Pool
    <3> QED BY <3>1
  <2> QED BY <2>1, <2>2 DEF HealthTells
<1> QED BY <1>1, SweepInvariant, PTL

\* While the database answers, at most MAX_ABANDONED sweeps are in flight: an
\* abandoned one is over before the grace is, because an item has less time than
\* the grace and an aborted lane begins no other.
THEOREM SweepsNotStacked == Spec => []NotStacked
<1>1. ASSUME SweepInv PROVE NotStacked
  <2> SUFFICES ASSUME troubles = 0 PROVE Cardinality(InFlight) <= MAX_ABANDONED BY DEF NotStacked
  <2>1. \A p \in Sweeps : stage[p] \in {"none", "running", "unsettled"} BY <1>1 DEF SweepInv, Clocks, Clock
  <2> DEFINE U == Of(stage, "unsettled")
  <2>2. IsFiniteSet(U) /\ Cardinality(U) \in Nat
    BY SweepConstants, FS_Subset, FS_CardinalityType DEF Of
  <2>3. Room(stage, active) /\ OneRuns(stage, active) BY <1>1 DEF SweepInv
  <2>4. CASE active
    <3>1. PICK r \in Sweeps : stage[r] = "running" BY <2>3, <2>4 DEF OneRuns
    <3>2. InFlight = U \cup {r} BY <2>1, <2>3, <3>1 DEF InFlight, OneRuns, Of
    <3>3. r \notin U BY <3>1 DEF Of
    <3>4. Cardinality(U \cup {r}) = Cardinality(U) + 1 BY <2>2, <3>3, FS_AddElement
    <3>5. Cardinality(U) < MAX_ABANDONED BY <2>3, <2>4 DEF Room
    <3> QED BY <2>2, <3>2, <3>4, <3>5, SweepConstants
  <2>5. CASE ~active
    <3>1. InFlight = U BY <2>1, <2>3, <2>5 DEF InFlight, OneRuns, Of
    <3> QED BY <2>3, <3>1 DEF Room
  <2> QED BY <2>4, <2>5
<1> QED BY <1>1, SweepInvariant, PTL
=============================================================================
