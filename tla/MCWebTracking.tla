--------------------------- MODULE MCWebTracking ----------------------------
(* Three deliveries, two of them of one submission, a call of the intake   *)
(* endpoint and a second reader of the config; one address, one slot an    *)
(* hour. The casts are the questions: a config changed under its readers   *)
(* by two replicas, the config of a delivery changed, forms filed under    *)
(* races and upsets, a form resent in the next hour, and two jobs of the   *)
(* retention that overlap.                                                 *)
EXTENDS WebTracking, TLC

CONSTANTS p1, p2, p3, l1, a, x, y, r1, r2, s1, s2, j1, j2

MCReplicaOf == [k \in Callers |-> IF k \in {y, p2} THEN r2 ELSE r1]
MCFormOf == p1 :> "f" @@ p2 :> "f" @@ p3 :> "g"
MCEmailOf == [f \in Forms \union Leads |-> "e"]
MCSiteOf == [p \in Posts |-> s1]
MCHostOf == [p \in Posts |-> "site"]
MCDomainLists == {{"site"}, {}}
Cast(w, u) == [who |-> w, upsets |-> u]
MCCasts == {Cast({a, x, y}, 0), Cast({p1, x}, 0),
            Cast({p1, p2}, 2), Cast({p1, p2, p3}, 0), Cast({p1, p3, l1}, 1),
            Cast({j1, j2}, 0)}

(* The CRM is empty unless forms are filed; where the config is not        *)
(* changed, tracking is on and each delivery has the config.               *)
MCInit ==
    /\ Init
    /\ hour = IF cast.who = {p1, p2} THEN 1 ELSE Hours
    /\ cast.who \intersect (Changes \union Jobs) # {} =>
          contact[1].state = "free"
    /\ contact[2].state = "free"
    /\ IF cast.who \intersect Changes # {}
       THEN /\ restarts = 0
            /\ settings.site # s2 /\ domains = {"site"}
            /\ \A k \in Callers : call[k] = Idle
       ELSE /\ redis /\ settings.site = s1 /\ domains = {"site"}
            /\ cache = [s \in Stores |-> None]
            /\ \A k \in Askers : call[k] = IF k \in cast.who
                                           THEN Served(Now) ELSE Idle
            /\ Now # None /\ restarts = MaxRestarts

MCSpec == MCInit /\ [][Next]_webVars /\ ConfigFairness
=============================================================================
