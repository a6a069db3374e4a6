---------------------------- MODULE WebTracking -----------------------------
(***************************************************************************)
(* The collector, POST api/t/e: a delivery asks for the compiled config,   *)
(* is dropped unless its site id is the one of that config and its host is *)
(* listed, and its form is stored and filed. The config may be served from *)
(* a cache, and may be changed while forms are filed. The page views of    *)
(* the same batches are counted and deleted once they are old.             *)
(***************************************************************************)
EXTENDS TrackingConfig, FormFiling, TrackingRetention

CONSTANTS
    SiteOf,     \* the site id in the snippet of a page
    HostOf,     \* the host the page is on
    Casts       \* who takes part in a behaviour, and how many upsets it has

ASSUME WebTrackingAssumption ==
    /\ Posts \subseteq Askers
    /\ Leads \intersect Callers = {}
    /\ Jobs \intersect (Callers \union Leads) = {}
    /\ DomainLists \subseteq SUBSET {HostOf[p] : p \in Posts}
    /\ Casts \subseteq [who : SUBSET (Callers \union Leads \union Jobs),
                        upsets : 0..MaxUpsets]

VARIABLE cast      \* which of Casts this behaviour has

webVars == <<configVars, filingVars, retentionVars, cast>>

Init ==
    /\ ConfigInit /\ FilingInit /\ RetentionInit
    /\ cast \in Casts
    /\ upsets = MaxUpsets - cast.upsets

(* forSite() and hostAllowed(), with limitToDomains as it is by default.   *)
Accepts(p, c) == c # None /\ c.site = SiteOf[p] /\ HostOf[p] \in c.domains

(* A request for the config is answered; a delivery that was not accepted  *)
(* is answered without being stored.                                       *)
Answered(k) == /\ k \in Posts => ~Accepts(k, call[k].config)
               /\ Answer(k)

(* A process that stops while it files a form is Fail of FormFiling.       *)
Quiet(r) == \A p \in Posts : ReplicaOf[p] = r => work[p].pc = "idle"

ConfigStep ==
    /\ \/ \E k \in cast.who \intersect Callers :
             Step(k) \/ Answered(k) \/ Change(k)
       \/ \E s \in Stores : Expire(s)
       \/ \E r \in Replicas : Restart(r) /\ Quiet(r)
    /\ UNCHANGED <<filingVars, retentionVars, cast>>

Accept(p) == /\ call[p].pc = "served" /\ Accepts(p, call[p].config)
             /\ StoreForm(p)

FilingStep ==
    /\ \/ \E p \in Posts : Accept(p) \/ Settle(p)
       \/ \E l \in cast.who \intersect Leads : Submit(l)
       \/ \E w \in Workers : Filing(w)
       \/ Reps \/ Prune \/ HourPasses
    /\ UNCHANGED <<configVars, retentionVars, cast>>

RetentionStep ==
    /\ cast.who \intersect Jobs # {}
    /\ RetentionNext
    /\ UNCHANGED <<configVars, filingVars, cast>>

Next == ConfigStep \/ FilingStep \/ RetentionStep

Spec == Init /\ [][Next]_webVars /\ ConfigFairness
=============================================================================
