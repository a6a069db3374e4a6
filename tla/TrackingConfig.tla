--------------------------- MODULE TrackingConfig ---------------------------
(***************************************************************************)
(* The compiled config of website tracking: the settings row and the list  *)
(* of domains it is compiled from, the cache that holds it for five        *)
(* minutes, the hash in the settings row that says which one is current,   *)
(* the generation each API process counts, the requests that ask for the   *)
(* config and the changes that invalidate it.                              *)
(*                                                                         *)
(* configHash (a digest of all fields) is the compiled config itself: two  *)
(* configs have one hash only if they are equal.                           *)
(***************************************************************************)
EXTENDS Naturals

CONSTANTS
    Replicas,      \* API processes
    Askers,        \* requests for the config: GET config/:siteId, POST e
    Changes,       \* what a manager, or a load of the settings page, changes
    ReplicaOf,     \* the process that serves a request
    Sites,         \* the site ids that mintSiteId returns
    DomainLists,   \* what the list of domains may say
    NoSite,        \* no id was minted yet
    None,          \* no config: no site id, or paused; nothing cached
    Unread,        \* not read yet
    MaxRestarts

ASSUME TrackingConfigAssumption ==
    /\ ReplicaOf \in [Askers \union Changes -> Replicas]
    /\ Askers \intersect Changes = {}
    /\ NoSite \notin Sites
    /\ MaxRestarts \in Nat

VARIABLES
    redis,       \* REDIS_URL is set: one cache, and not one per process
    settings,    \* AppSetting.trackingSiteId, trackingPaused
    domains,     \* the trackedDomain rows
    hash,        \* AppSetting.trackingConfigHash
    cache,       \* what each cache holds under tracking:config
    generation,  \* TrackingConfigService.generation of each process
    call,        \* the local state of each request
    restarts     \* bound: restarts of a process so far, of MaxRestarts

configVars == <<redis, settings, domains, hash, cache, generation, call,
                restarts>>
stored == <<settings, domains>>

Callers == Askers \union Changes
Settings == [site : Sites \union {NoSite}, paused : BOOLEAN]
Config == [site : Sites, domains : DomainLists]
Store(k) == IF redis THEN "redis" ELSE ReplicaOf[k]
Stores == Replicas \union {"redis"}

(* readTrackingConfig of a settings row and a list of domains.             *)
Compiled(s, d) == IF s.site = NoSite \/ s.paused THEN None
                  ELSE [site |-> s.site, domains |-> d]
Now == Compiled(settings, domains)

Idle == [pc |-> "idle", at |-> 0, settings |-> Unread, domains |-> Unread,
         config |-> None]
Served(c) == [Idle EXCEPT !.pc = "served", !.config = c]
Over(k, c) == IF k \in Changes THEN [Idle EXCEPT !.pc = "over"] ELSE Served(c)

ConfigTypeOK ==
    /\ redis \in BOOLEAN
    /\ settings \in Settings
    /\ domains \in DomainLists
    /\ hash \in Config \union {None}
    /\ cache \in [Stores -> Config \union {None}]
    /\ generation \in [Replicas -> Nat]
    /\ call \in [Callers ->
          [pc : {"idle", "look", "mint", "saved", "del", "read", "hash",
                 "check", "put", "served", "over"},
           at : Nat, settings : Settings \union {Unread},
           domains : DomainLists \union {Unread},
           config : Config \union {None}]]
    /\ restarts \in 0..MaxRestarts

(* Tracking is off, or on with its config validated, cached or not, and    *)
(* requests may have been served it.                                       *)
ConfigInit ==
    /\ redis \in BOOLEAN
    /\ settings \in Settings
    /\ domains \in DomainLists
    /\ hash = Now
    /\ cache \in [Stores -> {None, Now}]
    /\ \A s \in Stores : (s = "redis") # redis => cache[s] = None
    /\ generation = [r \in Replicas |-> 0]
    /\ call \in [Callers -> {Idle, Served(Now)}]
    /\ \A k \in Changes : call[k] = Idle
    /\ restarts \in 0..MaxRestarts

Goto(k, from, next) ==
    /\ call[k].pc = from
    /\ call' = [call EXCEPT ![k] = next]

-----------------------------------------------------------------------------
(* compiled(): the cached config, or the one read from the database.       *)

Hit(k) ==
    /\ k \in Askers
    /\ cache[Store(k)] # None
    /\ Goto(k, "idle", Served(cache[Store(k)]))
    /\ UNCHANGED <<redis, stored, hash, cache, generation, restarts>>

Miss(k) ==
    /\ k \in Askers
    /\ cache[Store(k)] = None
    /\ Goto(k, "idle",
            [Idle EXCEPT !.pc = "read", !.at = generation[ReplicaOf[k]]])
    /\ UNCHANGED <<redis, stored, hash, cache, generation, restarts>>

(* Where a call goes on when both of its reads have returned.              *)
AfterReads(k, s, d) ==
    LET c == Compiled(s, d)
        read == [call[k] EXCEPT !.settings = s, !.domains = d]
        whole == [Idle EXCEPT !.config = c, !.at = call[k].at]
    IN  IF s = Unread \/ d = Unread THEN read
        ELSE IF k \in Changes THEN [whole EXCEPT !.pc = "hash"]
        ELSE IF c = None \/ call[k].at # generation[ReplicaOf[k]]
             THEN Over(k, c)
        ELSE [whole EXCEPT !.pc = "check"]

(* The two reads are issued together and return in either order.           *)
ReadSettings(k) ==
    /\ call[k].settings = Unread
    /\ Goto(k, "read", AfterReads(k, settings, call[k].domains))
    /\ UNCHANGED <<redis, stored, hash, cache, generation, restarts>>

ReadDomains(k) ==
    /\ call[k].domains = Unread
    /\ Goto(k, "read", AfterReads(k, call[k].settings, domains))
    /\ UNCHANGED <<redis, stored, hash, cache, generation, restarts>>

Current(k) ==
    /\ Goto(k, "check", IF hash = call[k].config
                        THEN [call[k] EXCEPT !.pc = "put"]
                        ELSE Over(k, call[k].config))
    /\ UNCHANGED <<redis, stored, hash, cache, generation, restarts>>

Put(k) ==
    /\ Goto(k, "put", Over(k, call[k].config))
    /\ cache' = [cache EXCEPT ![Store(k)] = call[k].config]
    /\ UNCHANGED <<redis, stored, hash, generation, restarts>>

(* The answer is sent, and the next request may come.                      *)
Answer(k) ==
    /\ k \in Askers
    /\ Goto(k, "served", Idle)
    /\ UNCHANGED <<redis, stored, hash, cache, generation, restarts>>
-----------------------------------------------------------------------------
(* Changes, and invalidate().                                              *)

Save(k, s, d) ==
    /\ Goto(k, "idle", [Idle EXCEPT !.pc = "saved"])
    /\ settings' = s /\ domains' = d
    /\ UNCHANGED <<redis, hash, cache, generation, restarts>>

(* setFlag (paused), rotateSiteId, addDomain and removeDomain.             *)
SetPaused(k) == Save(k, [settings EXCEPT !.paused = ~settings.paused], domains)
Rotate(k) == \E new \in Sites \ {settings.site} :
                Save(k, [settings EXCEPT !.site = new], domains)
ListDomain(k) == \E d \in DomainLists \ {domains} : Save(k, settings, d)

(* ensureSiteId, on a load of the settings page: no id, so one is minted.  *)
LookForSite(k) ==
    /\ settings.site = NoSite
    /\ Goto(k, "idle", [Idle EXCEPT !.pc = "mint"])
    /\ UNCHANGED <<redis, stored, hash, cache, generation, restarts>>

Mint(k) ==
    /\ Goto(k, "mint", [Idle EXCEPT !.pc = "saved"])
    /\ \E new \in Sites \ {settings.site} :
          settings' = [settings EXCEPT !.site = new]
    /\ UNCHANGED <<redis, domains, hash, cache, generation, restarts>>

Invalidate(k) ==
    LET g == generation[ReplicaOf[k]] + 1 IN
    /\ Goto(k, "saved", [Idle EXCEPT !.pc = "del", !.at = g])
    /\ generation' = [generation EXCEPT ![ReplicaOf[k]] = g]
    /\ UNCHANGED <<redis, stored, hash, cache, restarts>>

Delete(k) ==
    /\ Goto(k, "del", [call[k] EXCEPT !.pc = "read"])
    /\ cache' = [cache EXCEPT ![Store(k)] = None]
    /\ UNCHANGED <<redis, stored, hash, generation, restarts>>

WriteHash(k) ==
    LET c == call[k].config IN
    /\ Goto(k, "hash", IF c = None \/ call[k].at # generation[ReplicaOf[k]]
                       THEN Over(k, c) ELSE [call[k] EXCEPT !.pc = "check"])
    /\ hash' = c
    /\ UNCHANGED <<redis, stored, cache, generation, restarts>>
-----------------------------------------------------------------------------
(* Five minutes pass, or a process starts again.                           *)

(* Mutant: the cache of a process does not forget.                         *)
Expire_mutant(s) ==
    /\ s = "redis" /\ cache[s] # None
    /\ cache' = [cache EXCEPT ![s] = None]
    /\ UNCHANGED <<redis, stored, hash, generation, call, restarts>>

Expire(s) ==
    /\ cache[s] # None
    /\ cache' = [cache EXCEPT ![s] = None]
    /\ UNCHANGED <<redis, stored, hash, generation, call, restarts>>

Restart(r) ==
    /\ restarts < MaxRestarts
    /\ restarts' = restarts + 1
    /\ generation' = [generation EXCEPT ![r] = 0]
    /\ cache' = [cache EXCEPT ![r] = None]
    /\ call' = [k \in Callers |->
          IF ReplicaOf[k] # r \/ call[k].pc = "idle" THEN call[k]
          ELSE IF k \in Changes THEN Over(k, None) ELSE Idle]
    /\ UNCHANGED <<redis, stored, hash>>

Change(k) == /\ k \in Changes
             /\ SetPaused(k) \/ Rotate(k) \/ ListDomain(k) \/ LookForSite(k)
Read(k) == ReadSettings(k) \/ ReadDomains(k)
Step(k) == \/ Miss(k) \/ Hit(k) \/ Read(k) \/ Current(k) \/ Put(k)
           \/ Mint(k) \/ Invalidate(k) \/ Delete(k) \/ WriteHash(k)

ConfigNext ==
    \/ \E k \in Callers : Step(k) \/ Answer(k) \/ Change(k)
    \/ \E s \in Stores : Expire(s)
    \/ \E r \in Replicas : Restart(r)

(* A request that was begun is served to its end, and time passes.         *)
Serving(k) == Read(k) \/ Current(k) \/ Put(k) \/ Mint(k) \/ Invalidate(k)
            \/ Delete(k) \/ WriteHash(k)
ConfigFairness ==
    /\ \A k \in Callers : WF_configVars(Serving(k))
    /\ \A s \in Stores : WF_configVars(Expire(s))

ConfigSpec == ConfigInit /\ [][ConfigNext]_configVars /\ ConfigFairness
-----------------------------------------------------------------------------
(* Once nobody changes the settings any more, a cache ends up with the     *)
(* config they say or with none, and stays so: what a late read or a late  *)
(* invalidation put there is gone within its five minutes, and nothing     *)
(* puts it back (a rotated site id stops resolving, docs/tracking.md).     *)
StaleEnds == <>[](\A s \in Stores : cache[s] \in {None, Now})

(* "While tracking is paused no config can validate and none is cached at  *)
(* all" (docs/tracking.md), with the one cache of Redis and once the       *)
(* request that paused it is answered.                                     *)
NoneCachedWhilePaused ==
    redis /\ settings.paused /\ (\A k \in Callers : call[k].pc \in {"idle", "over"})
      => \A s \in Stores : cache[s] = None
=============================================================================
