---------------------------- MODULE UpstreamProofs --------------------------
(***************************************************************************)
(* Where the answer to a request comes from, for every value of the        *)
(* constants of ProxyCache and of LoadBalancer.  The reverse proxy's cache *)
(* is typed, and what it holds obeys the configuration in service and      *)
(* every invalidation.  The balancer is typed, and a session stays at the  *)
(* backend it was given.  (The two modules share no state; the second part *)
(* starts at "The load balancer".)                                         *)
(***************************************************************************)
EXTENDS ProxyCache, LoadBalancer, FiniteSetTheorems, SequenceTheorems, WellFoundedInduction,
        TLAPS

-----------------------------------------------------------------------------
(* Types.                                                                  *)

(* The handler that waits for a request is a handler.                      *)
LEMMA IdleTyped ==
  ASSUME NEW k \in Key
  PROVE  Idle(k) \in Handlers
BY ProxyAssumption DEF Idle, Handlers, Stages

(* There is a key for it to keep.                                          *)
LEMMA AnyKeyIsKey == AnyKey \in Key
BY ProxyAssumption DEF AnyKey

(* The proxy starts typed.                                                 *)
LEMMA ProxyInitTyped == ProxyInit => ProxyTypeOK
BY IdleTyped, AnyKeyIsKey DEF ProxyInit, ProxyTypeOK

(* The upstreams a path is routed to are upstreams.                        *)
LEMMA RoutedUpstream ==
  ASSUME NEW locations \in Configs, NEW p
  PROVE  UpstreamsOf(locations, p) \subseteq Upstream
<1>1. locations \in Seq(Locations)
  BY ProxyAssumption
<1>2. \A i \in DOMAIN locations : locations[i].upstream \in Upstream
  <2>1. \A i \in DOMAIN locations : locations[i] \in Locations
    BY <1>1, ElementOfSeq, LenProperties
  <2> QED  BY <2>1 DEF Locations
<1> QED  BY <1>2 DEF UpstreamsOf, MatchRoute

(* Every step keeps the proxy typed.                                       *)
LEMMA ProxyStepTyped == ProxyTypeOK /\ [ProxyNext]_proxyVars => ProxyTypeOK'
<1> SUFFICES ASSUME ProxyTypeOK, [ProxyNext]_proxyVars
             PROVE  ProxyTypeOK'
  OBVIOUS
<1> USE DEF ProxyTypeOK
<1>1. ASSUME NEW c \in Client, NEW k \in Key, Lookup(c, k)
      PROVE  ProxyTypeOK'
  <2>1. PICK u \in UpstreamsOf(config, PathOf[k]) :
          handler' = [handler EXCEPT ![c] =
            [Idle(k) EXCEPT !.stage = IF cache[k] = {} THEN "fetching" ELSE "expired",
                            !.upstream = u]]
    BY <1>1 DEF Lookup
  <2>2. u \in Upstream
    BY <2>1, RoutedUpstream
  <2>3. [Idle(k) EXCEPT !.stage = IF cache[k] = {} THEN "fetching" ELSE "expired",
                        !.upstream = u] \in Handlers
    <3>1. Idle(k) \in Handlers
      BY IdleTyped
    <3>2. (IF cache[k] = {} THEN "fetching" ELSE "expired") \in Stages
      BY DEF Stages
    <3> QED  BY <2>2, <3>1, <3>2 DEF Handlers
  <2> QED  BY <1>1, <2>1, <2>3 DEF Lookup
<1>2. ASSUME NEW c \in Client, DropExpired(c)
      PROVE  ProxyTypeOK'
  <2>1. [handler[c] EXCEPT !.stage = "fetching"] \in Handlers
    BY DEF Handlers, Stages
  <2> QED  BY <1>2, <2>1 DEF DropExpired
<1>3. ASSUME NEW c \in Client, ResponseHead(c)
      PROVE  ProxyTypeOK'
  <2>1. origin[PathOf[handler[c].key]] \in Nat
    BY ProxyAssumption DEF Handlers
  <2>2. [handler[c] EXCEPT !.stage = "receiving",
                           !.version = origin[PathOf[handler[c].key]]] \in Handlers
    BY <2>1 DEF Handlers, Stages
  <2> QED  BY <1>3, <2>2 DEF ResponseHead
<1>4. ASSUME NEW c \in Client, Fetch(c)
      PROVE  ProxyTypeOK'
  <2>1. [handler[c] EXCEPT !.stage = "fetched"] \in Handlers
    BY DEF Handlers, Stages
  <2> QED  BY <1>4, <2>1 DEF Fetch
<1>5. ASSUME NEW c \in Client, FetchNothing(c)
      PROVE  ProxyTypeOK'
  BY <1>5, IdleTyped, AnyKeyIsKey DEF FetchNothing, Answer
<1>6. ASSUME NEW c \in Client, IndexCacheKey(c)
      PROVE  ProxyTypeOK'
  <2>1. [handler[c] EXCEPT !.stage = "indexed"] \in Handlers
    BY DEF Handlers, Stages
  <2>2. handler[c].key \in Key /\ PathOf[handler[c].key] \in Path
    BY ProxyAssumption DEF Handlers
  <2>3. handler' \in [Client -> Handlers]
    BY <1>6, <2>1 DEF IndexCacheKey
  <2>4. pathIndex' \in [Path -> SUBSET Key]
    BY <1>6, <2>2 DEF IndexCacheKey
  <2> QED  BY <1>6, <2>3, <2>4 DEF IndexCacheKey
<1>7. ASSUME NEW c \in Client, Insert(c)
      PROVE  ProxyTypeOK'
  <2>1. EntryOf(handler[c]) \in Entries /\ handler[c].key \in Key
    BY DEF EntryOf, Entries, Handlers
  <2>2. handler' \in [Client -> Handlers]
    BY <1>7, IdleTyped, AnyKeyIsKey DEF Insert, Answer
  <2>3. /\ cache' \in [Key -> SUBSET Entries]
        /\ \A k \in Key : \A d, e \in cache'[k] : d = e
    BY <1>7, <2>1 DEF Insert
  <2> QED  BY <1>7, <2>2, <2>3 DEF Insert
<1>8. ASSUME NEW g \in Purger, InvalidatePath(g)
      PROVE  ProxyTypeOK'
  <2>1. \A c \in Client : [handler[c] EXCEPT !.raced = TRUE] \in Handlers
    BY DEF Handlers
  <2>2. \A i \in purge[g] : i.path \in Path /\ i.version \in Nat
    BY DEF Purges
  <2>3. handler' \in [Client -> Handlers]
    BY <1>8, <2>1 DEF InvalidatePath
  <2>4. /\ purge' \in [Purger -> SUBSET Purges]
        /\ purged' \in [Path -> Nat]
    BY <1>8, <2>2 DEF InvalidatePath
  <2>5. /\ sweep' \in [Purger -> SUBSET Key]
        /\ pathIndex' \in [Path -> SUBSET Key]
    BY <1>8, <2>2 DEF InvalidatePath
  <2> QED  BY <1>8, <2>3, <2>4, <2>5 DEF InvalidatePath
<1>9. ASSUME NEW g \in Purger, NEW p \in Path, LoadRuntime(g, p)
      PROVE  ProxyTypeOK'
  <2>1. [path |-> p, version |-> origin[p], current |-> TRUE] \in Purges
    BY DEF Purges
  <2> QED  BY <1>9, <2>1 DEF LoadRuntime
<1>10. ASSUME NEW g \in Purger, NEW k \in Key, InvalidateKey(g, k)
       PROVE  ProxyTypeOK'
  BY <1>10 DEF InvalidateKey
<1>11. ASSUME NEW k \in Key, Evict(k)
       PROVE  ProxyTypeOK'
  BY <1>11 DEF Evict, handlers
<1>12. ASSUME NEW k \in Key, EntryExpires(k)
       PROVE  ProxyTypeOK'
  <2> DEFINE S == {[e EXCEPT !.expired = TRUE] : e \in cache[k]}
  <2>1. \A e \in Entries : [e EXCEPT !.expired = TRUE] \in Entries
    BY DEF Entries
  <2>2. S \in SUBSET Entries /\ \A d, e \in S : d = e
    BY <2>1
  <2>3. cache' = [cache EXCEPT ![k] = S]
    BY <1>12 DEF EntryExpires
  <2> HIDE DEF S
  <2>4. /\ cache' \in [Key -> SUBSET Entries]
        /\ \A x \in Key : \A d, e \in cache'[x] : d = e
    BY <2>2, <2>3
  <2> QED  BY <1>12, <2>4 DEF EntryExpires, handlers
<1>13. ASSUME NEW new \in Configs, Reload(new)
       PROVE  ProxyTypeOK'
  <2>1. \A c \in Client :
          [handler[c] EXCEPT !.current = handler[c].stage = "idle"] \in Handlers
    BY DEF Handlers
  <2>2. \A i \in Purges : [i EXCEPT !.current = FALSE] \in Purges
    BY DEF Purges
  <2> QED  BY <1>13, <2>1, <2>2 DEF Reload
<1>14. ASSUME NEW p \in Path, OriginChange(p)
       PROVE  ProxyTypeOK'
  BY <1>14 DEF OriginChange, handlers
<1>15. CASE UNCHANGED proxyVars
  BY <1>15 DEF proxyVars, handlers
<1> QED
  BY <1>1, <1>2, <1>3, <1>4, <1>5, <1>6, <1>7, <1>8, <1>9, <1>10, <1>11, <1>12, <1>13,
     <1>14, <1>15 DEF ProxyNext

(* The proxy, its handlers and its purgers hold what they are to hold.     *)
THEOREM ProxyIsTyped == ProxySpec => []ProxyTypeOK
BY ProxyInitTyped, ProxyStepTyped, PTL DEF ProxySpec
-----------------------------------------------------------------------------
(* The configuration in service.                                           *)

(* A handler that serves the configuration in service goes to the upstream *)
(* this one routes its path to, and so does what it will store.            *)
RoutedRight ==
  /\ CacheMatchesConfig
  /\ \A c \in Client :
       handler[c].current /\ handler[c].stage # "idle"
         => handler[c].upstream \in UpstreamsOf(config, PathOf[handler[c].key])

(* A request that begins is routed by the configuration in service, and a  *)
(* reload leaves no handler that is both current and at work.              *)
LEMMA StepRoutedRight ==
  ProxyTypeOK /\ RoutedRight /\ [ProxyNext]_proxyVars => RoutedRight'
<1> SUFFICES ASSUME ProxyTypeOK, RoutedRight, [ProxyNext]_proxyVars
             PROVE  RoutedRight'
  OBVIOUS
<1> USE DEF ProxyTypeOK, RoutedRight, CacheMatchesConfig
<1>1. ASSUME NEW c \in Client, NEW k \in Key, Lookup(c, k)
      PROVE  RoutedRight'
  <2>1. PICK u \in UpstreamsOf(config, PathOf[k]) :
          handler' = [handler EXCEPT ![c] =
            [Idle(k) EXCEPT !.stage = IF cache[k] = {} THEN "fetching" ELSE "expired",
                            !.upstream = u]]
    BY <1>1 DEF Lookup
  <2>2. /\ handler'[c].key = k
        /\ handler'[c].upstream = u
    BY <2>1 DEF Idle
  <2> QED  BY <1>1, <2>1, <2>2 DEF Lookup
<1>2. ASSUME NEW c \in Client, DropExpired(c)
      PROVE  RoutedRight'
  BY <1>2 DEF DropExpired, Handlers
<1>3. ASSUME NEW c \in Client, ResponseHead(c)
      PROVE  RoutedRight'
  BY <1>3 DEF ResponseHead, Handlers
<1>4. ASSUME NEW c \in Client, Fetch(c)
      PROVE  RoutedRight'
  BY <1>4 DEF Fetch, Handlers
<1>5. ASSUME NEW c \in Client, FetchNothing(c)
      PROVE  RoutedRight'
  BY <1>5 DEF FetchNothing, Answer, Idle
<1>6. ASSUME NEW c \in Client, IndexCacheKey(c)
      PROVE  RoutedRight'
  BY <1>6 DEF IndexCacheKey, Handlers
<1>7. ASSUME NEW c \in Client, Insert(c)
      PROVE  RoutedRight'
  <2>1. \A k \in Key : \A e \in cache'[k] :
          \/ e \in cache[k]
          \/ handler[c].current /\ k = handler[c].key /\ e.upstream = handler[c].upstream
    BY <1>7 DEF Insert, EntryOf
  <2>2. CacheMatchesConfig'
    BY <1>7, <2>1 DEF Insert
  <2>3. \A d \in Client : handler'[d] = handler[d] \/ handler'[d].stage = "idle"
    BY <1>7 DEF Insert, Answer, Idle
  <2> QED  BY <1>7, <2>2, <2>3 DEF Insert
<1>8. ASSUME NEW g \in Purger, NEW p \in Path, LoadRuntime(g, p)
      PROVE  RoutedRight'
  BY <1>8 DEF LoadRuntime
<1>9. ASSUME NEW g \in Purger, InvalidatePath(g)
      PROVE  RoutedRight'
  <2>1. \A c \in Client : /\ handler'[c].current = handler[c].current
                          /\ handler'[c].stage = handler[c].stage
                          /\ handler'[c].upstream = handler[c].upstream
                          /\ handler'[c].key = handler[c].key
    BY <1>9 DEF InvalidatePath, Handlers
  <2> QED  BY <1>9, <2>1 DEF InvalidatePath
<1>10. ASSUME NEW g \in Purger, NEW k \in Key, InvalidateKey(g, k)
       PROVE  RoutedRight'
  BY <1>10 DEF InvalidateKey
<1>11. ASSUME NEW k \in Key, Evict(k)
       PROVE  RoutedRight'
  BY <1>11 DEF Evict, handlers
<1>12. ASSUME NEW k \in Key, EntryExpires(k)
       PROVE  RoutedRight'
  <2>1. \A x \in Key : \A e \in cache'[x] : \E f \in cache[x] : e.upstream = f.upstream
    BY <1>12 DEF EntryExpires, Entries
  <2> QED  BY <1>12, <2>1 DEF EntryExpires, handlers
<1>13. ASSUME NEW new \in Configs, Reload(new)
       PROVE  RoutedRight'
  <2>1. \A c \in Client : /\ handler'[c].stage = handler[c].stage
                          /\ handler'[c].current <=> handler[c].stage = "idle"
    BY <1>13 DEF Reload, Handlers
  <2> QED  BY <1>13, <2>1 DEF Reload
<1>14. ASSUME NEW p \in Path, OriginChange(p)
       PROVE  RoutedRight'
  BY <1>14 DEF OriginChange, handlers
<1>15. CASE UNCHANGED proxyVars
  BY <1>15 DEF proxyVars, handlers
<1> QED
  BY <1>1, <1>2, <1>3, <1>4, <1>5, <1>6, <1>7, <1>8, <1>9, <1>10, <1>11, <1>12, <1>13,
     <1>14, <1>15 DEF ProxyNext

(* No response of an earlier configuration's upstream is ever served from  *)
(* the cache of a later one, however many handlers still serve the old.    *)
THEOREM ProxyCacheMatchesConfig == ProxySpec => []CacheMatchesConfig
<1>1. ProxyInit => RoutedRight
  BY DEF ProxyInit, RoutedRight, CacheMatchesConfig, Idle
<1>2. RoutedRight => CacheMatchesConfig
  BY DEF RoutedRight
<1> QED  BY <1>1, <1>2, ProxyIsTyped, StepRoutedRight, PTL DEF ProxySpec

-----------------------------------------------------------------------------
(* Invalidation.                                                           *)

(* A key that a purger has taken.                                          *)
Swept(k) == \E g \in Purger : k \in sweep[g]

(* The stages in which a handler has a response, or the beginning of one.  *)
Responded == {"receiving", "fetched", "indexed"}

(* No purge is ahead of the origin, and none begins before the last one of *)
(* its purger has ended.                                                   *)
PurgesPast ==
  /\ \A g \in Purger : purge[g] # {} => sweep[g] = {}
  /\ \A p \in Path : purged[p] <= origin[p]
  /\ \A g \in Purger : \A i \in purge[g] : i.version <= origin[i.path]

(* A version of a path is at least the one at which an invalidation of it  *)
(* began whose proxy has been replaced since: this one will reach nothing. *)
NewerThanStale(p, version) ==
  \A g \in Purger : \A i \in purge[g] : ~i.current /\ i.path = p => version >= i.version

(* A response that is to be stored in the cache in service, and that no    *)
(* purge caught, is as new as the last one, and its key is in the index    *)
(* before it is stored.                                                    *)
ResponseStands(h) ==
  h.stage \in Responded /\ h.current =>
    /\ NewerThanStale(PathOf[h.key], h.version)
    /\ ~h.raced => h.version >= purged[PathOf[h.key]]
    /\ ~h.raced /\ h.stage = "indexed" => h.key \in pathIndex[PathOf[h.key]]

(* What is stored is indexed, about to be swept, or was caught.            *)
EntryStands(k, e) ==
  /\ NewerThanStale(PathOf[k], e.version)
  /\ e.version < purged[PathOf[k]] => e.raced \/ Swept(k)
  /\ e.raced \/ k \in pathIndex[PathOf[k]] \/ Swept(k)

PurgesReach ==
  /\ PurgesPast
  /\ \A c \in Client : ResponseStands(handler[c])
  /\ \A k \in Key : \A e \in cache[k] : EntryStands(k, e)

(* A step that takes no index entry or purge away and changes no origin    *)
(* keeps the purges' reach, if every handler and entry it changes stands.  *)
LEMMA QuietStep ==
  ASSUME ProxyTypeOK, ProxyTypeOK', PurgesReach,
         UNCHANGED <<purge, sweep, origin, purged>>,
         \A p \in Path : pathIndex[p] \subseteq pathIndex'[p],
         \A c \in Client : handler'[c] = handler[c] \/ ResponseStands(handler[c])',
         \A k \in Key : \A e \in cache'[k] :
           \/ \E f \in cache[k] : e.version = f.version /\ e.raced = f.raced
           \/ EntryStands(k, e)'
  PROVE  PurgesReach'
<1>1. \A p, v : NewerThanStale(p, v)' <=> NewerThanStale(p, v)
  BY DEF NewerThanStale
<1>2. \A k : Swept(k)' <=> Swept(k)
  BY DEF Swept
<1>3. ASSUME NEW c \in Client
      PROVE  ResponseStands(handler[c])'
  <2>1. CASE handler'[c] = handler[c]
    <3>1. handler[c].key \in Key /\ PathOf[handler[c].key] \in Path
      BY ProxyAssumption DEF ProxyTypeOK, Handlers
    <3>2. ResponseStands(handler[c])
      BY DEF PurgesReach
    <3> QED  BY <1>1, <2>1, <3>1, <3>2 DEF ResponseStands
  <2> QED  BY <2>1
<1>4. ASSUME NEW k \in Key, NEW e \in cache'[k]
      PROVE  EntryStands(k, e)'
  <2>1. ASSUME NEW f \in cache[k], e.version = f.version, e.raced = f.raced
        PROVE  EntryStands(k, e)'
    <3>1. EntryStands(k, f) /\ PathOf[k] \in Path
      BY ProxyAssumption DEF PurgesReach
    <3> QED  BY <1>1, <1>2, <2>1, <3>1 DEF EntryStands
  <2> QED  BY <2>1
<1>5. PurgesPast'
  BY DEF PurgesReach, PurgesPast
<1> QED  BY <1>3, <1>4, <1>5 DEF PurgesReach

(* Every step keeps the purges' reach.                                     *)
LEMMA StepPurgesReach ==
  ProxyTypeOK /\ PurgesReach /\ [ProxyNext]_proxyVars => PurgesReach'
<1> SUFFICES ASSUME ProxyTypeOK, PurgesReach, [ProxyNext]_proxyVars
             PROVE  PurgesReach'
  OBVIOUS
<1>0. ProxyTypeOK'
  BY ProxyStepTyped
<1>a. /\ \A c \in Client : handler[c].key \in Key /\ PathOf[handler[c].key] \in Path
                           /\ handler[c].version \in Nat /\ handler[c] \in Handlers
      /\ \A k \in Key : PathOf[k] \in Path
      /\ \A g \in Purger : \A i \in purge[g] : i.path \in Path /\ i.version \in Nat
  BY ProxyAssumption DEF ProxyTypeOK, Handlers, Purges
<1>h. \A c \in Client : handler[c] \in Handlers
  BY <1>a
<1>1. ASSUME NEW c \in Client, NEW k \in Key, Lookup(c, k)
      PROVE  PurgesReach'
  <2>1. \A d \in Client : handler'[d] = handler[d] \/ handler'[d].stage \notin Responded
    BY <1>1 DEF ProxyTypeOK, Lookup, Idle, Responded
  <2>2. \A d \in Client : handler'[d] = handler[d] \/ ResponseStands(handler[d])'
    BY <2>1 DEF ResponseStands
  <2> QED  BY <1>0, <1>1, <2>2, QuietStep DEF Lookup
<1>2. ASSUME NEW c \in Client, DropExpired(c)
      PROVE  PurgesReach'
  <2>1. \A d \in Client : handler'[d] = handler[d] \/ handler'[d].stage \notin Responded
    BY <1>2, <1>a DEF ProxyTypeOK, DropExpired, Handlers, Responded
  <2>2. \A d \in Client : handler'[d] = handler[d] \/ ResponseStands(handler[d])'
    BY <2>1 DEF ResponseStands
  <2>3. \A k \in Key : cache'[k] \subseteq cache[k]
    BY <1>2 DEF ProxyTypeOK, DropExpired
  <2> QED  BY <1>0, <1>2, <2>2, <2>3, QuietStep DEF DropExpired
<1>3. ASSUME NEW c \in Client, ResponseHead(c)
      PROVE  PurgesReach'
  <2> DEFINE p == PathOf[handler[c].key]
  <2>1. /\ handler'[c].version = origin[p]
        /\ handler'[c].key = handler[c].key
        /\ handler'[c].stage = "receiving"
        /\ \A d \in Client \ {c} : handler'[d] = handler[d]
        /\ UNCHANGED <<cache, pathIndex, purge, sweep, origin, purged>>
    BY <1>3, <1>a DEF ProxyTypeOK, ResponseHead, Handlers
  <2>2. purged'[p] <= origin[p] /\ NewerThanStale(p, origin[p])'
    BY <1>a, <2>1 DEF PurgesReach, PurgesPast, NewerThanStale, ProxyTypeOK
  <2>3. ResponseStands(handler[c])'
    BY <2>1, <2>2 DEF ResponseStands
  <2>4. \A d \in Client : handler'[d] = handler[d] \/ ResponseStands(handler[d])'
    BY <2>1, <2>3
  <2> QED  BY <1>0, <2>1, <2>4, QuietStep
<1>4. ASSUME NEW c \in Client, FetchNothing(c)
      PROVE  PurgesReach'
  <2>1. \A d \in Client : handler'[d] = handler[d] \/ handler'[d].stage \notin Responded
    BY <1>4 DEF ProxyTypeOK, FetchNothing, Answer, Idle, Responded
  <2>2. \A d \in Client : handler'[d] = handler[d] \/ ResponseStands(handler[d])'
    BY <2>1 DEF ResponseStands
  <2> QED  BY <1>0, <1>4, <2>2, QuietStep DEF FetchNothing
<1>5. ASSUME NEW c \in Client,
             \/ Fetch(c)
             \/ IndexCacheKey(c)
      PROVE  PurgesReach'
  <2> DEFINE h == handler[c]
             r == [h EXCEPT !.stage = IF h.stage = "receiving" THEN "fetched" ELSE "indexed"]
  <2>1. /\ h.stage \in {"receiving", "fetched"}
        /\ handler' = [handler EXCEPT ![c] = r]
        /\ UNCHANGED <<cache, purge, sweep, origin, purged>>
    BY <1>5, <1>a DEF ProxyTypeOK, Fetch, IndexCacheKey
  <2>2. /\ r.version = h.version /\ r.key = h.key /\ r.raced = h.raced
        /\ r.current = h.current
        /\ r.stage = "indexed" => h.stage = "fetched"
    BY <1>h, <2>1 DEF Handlers
  <2> HIDE DEF r
  <2>3. /\ handler'[c] = r
        /\ \A d \in Client \ {c} : handler'[d] = handler[d]
    BY <2>1 DEF ProxyTypeOK
  <2>4. /\ \A p \in Path : pathIndex[p] \subseteq pathIndex'[p]
        /\ h.stage = "fetched" /\ h.current => h.key \in pathIndex'[PathOf[h.key]]
    BY <1>5, <1>a DEF ProxyTypeOK, Fetch, IndexCacheKey
  <2>6. ResponseStands(handler[c])'
    <3>1. ResponseStands(h)
      BY DEF PurgesReach
    <3>2. r.current => NewerThanStale(PathOf[h.key], h.version)
                       /\ (~h.raced => h.version >= purged[PathOf[h.key]])
      BY <2>1, <2>2, <3>1 DEF ResponseStands, Responded
    <3>3. NewerThanStale(PathOf[h.key], h.version)
            => NewerThanStale(PathOf[handler[c].key], handler[c].version)'
      BY <2>1, <2>2, <2>3 DEF NewerThanStale
    <3> QED  BY <2>1, <2>2, <2>3, <2>4, <3>2, <3>3 DEF ResponseStands
  <2>7. \A d \in Client : handler'[d] = handler[d] \/ ResponseStands(handler[d])'
    BY <2>3, <2>6
  <2> QED  BY <1>0, <2>1, <2>4, <2>7, QuietStep
<1>6. ASSUME NEW c \in Client, Insert(c)
      PROVE  PurgesReach'
  <2> DEFINE h == handler[c]
  <2>1. /\ h.stage = "indexed"
        /\ UNCHANGED <<pathIndex, purge, sweep, origin, purged>>
    BY <1>6 DEF Insert
  <2>2. \A d \in Client : handler'[d] = handler[d] \/ handler'[d].stage \notin Responded
    BY <1>6 DEF ProxyTypeOK, Insert, Answer, Idle, Responded
  <2>3. \A d \in Client : handler'[d] = handler[d] \/ ResponseStands(handler[d])'
    BY <2>2 DEF ResponseStands
  <2>4. \A k \in Key : \A e \in cache'[k] :
          \/ e \in cache[k]
          \/ /\ h.current /\ k = h.key
             /\ e.version = h.version /\ e.raced = h.raced
    BY <1>6 DEF ProxyTypeOK, Insert, EntryOf
  <2>5. \A k \in Key : \A e \in cache'[k] : e \in cache[k] \/ EntryStands(k, e)'
    <3> SUFFICES ASSUME NEW k \in Key, NEW e \in cache'[k], e \notin cache[k]
                 PROVE  EntryStands(k, e)'
      OBVIOUS
    <3>1. h.current /\ k = h.key /\ e.version = h.version /\ e.raced = h.raced
      BY <2>4
    <3>2. /\ NewerThanStale(PathOf[k], e.version)
          /\ ~e.raced => e.version >= purged[PathOf[k]] /\ k \in pathIndex[PathOf[k]]
      BY <2>1, <3>1 DEF PurgesReach, ResponseStands, Responded
    <3>3. NewerThanStale(PathOf[k], e.version)'
      BY <2>1, <3>2 DEF NewerThanStale
    <3>4. e.version \in Nat /\ purged[PathOf[k]] \in Nat
      BY <1>a, <3>1 DEF ProxyTypeOK
    <3> QED  BY <2>1, <3>2, <3>3, <3>4 DEF EntryStands
  <2> QED  BY <1>0, <2>1, <2>3, <2>5, QuietStep
<1>7. ASSUME NEW g \in Purger, InvalidatePath(g)
      PROVE  PurgesReach'
  <2>1. PICK i \in purge[g] : InvalidatePath(g)!(i)
    BY <1>7 DEF InvalidatePath
  <2> DEFINE p == i.path
             most == IF purged[p] < i.version THEN i.version ELSE purged[p]
  <2>2. /\ purge' = [purge EXCEPT ![g] = {}]
        /\ purged' = [purged EXCEPT ![p] = most]
        /\ UNCHANGED <<cache, origin>>
        /\ p \in Path /\ i.version \in Nat /\ purged \in [Path -> Nat]
    BY <1>a, <2>1 DEF ProxyTypeOK
  <2>3. PurgesPast'
    <3>1. \A f \in Purger \ {g} : sweep'[f] = sweep[f]
      BY <2>1 DEF ProxyTypeOK
    <3> QED  BY <1>a, <2>2, <3>1 DEF PurgesReach, PurgesPast, ProxyTypeOK
  <2>4. \A x, v : NewerThanStale(x, v) => NewerThanStale(x, v)'
    BY <2>2 DEF NewerThanStale, ProxyTypeOK
  <2>5. CASE ~i.current
    <3>1. UNCHANGED <<handler, pathIndex, sweep>>
      BY <2>1, <2>5
    <3>2. \A v \in Nat : NewerThanStale(p, v) => v >= i.version
      BY <2>5 DEF NewerThanStale
    <3>3. \A c \in Client : ResponseStands(handler[c])'
      BY <1>a, <2>2, <2>4, <3>1, <3>2 DEF PurgesReach, ResponseStands
    <3>4. ASSUME NEW k \in Key, NEW e \in cache[k]
          PROVE  EntryStands(k, e)'
      <4>1. EntryStands(k, e) /\ e.version \in Nat /\ PathOf[k] \in Path
        BY <1>a DEF PurgesReach, ProxyTypeOK, Entries
      <4>2. Swept(k)' <=> Swept(k)
        BY <3>1 DEF Swept
      <4> QED  BY <2>2, <2>4, <3>1, <3>2, <4>1, <4>2 DEF EntryStands
    <3> QED  BY <2>2, <2>3, <3>3, <3>4 DEF PurgesReach
  <2>6. CASE i.current
    <3>1. /\ sweep' = [sweep EXCEPT ![g] = pathIndex[p]]
          /\ pathIndex' = [pathIndex EXCEPT ![p] = {}]
          /\ handler' = [c \in Client |->
               IF PathOf[handler[c].key] = p /\ handler[c].stage \in Responded
               THEN [handler[c] EXCEPT !.raced = TRUE]
               ELSE handler[c]]
      BY <2>1, <2>6 DEF Responded
    <3>2. ASSUME NEW c \in Client
          PROVE  ResponseStands(handler[c])'
      <4>1. /\ handler'[c].key = handler[c].key /\ handler'[c].version = handler[c].version
            /\ handler'[c].stage = handler[c].stage /\ handler'[c].current = handler[c].current
            /\ ~handler'[c].raced /\ handler'[c].stage \in Responded
                 => ~handler[c].raced /\ PathOf[handler[c].key] # p
        BY <1>h, <3>1 DEF Handlers
      <4>2. ResponseStands(handler[c])
        BY DEF PurgesReach
      <4>3. PathOf[handler[c].key] # p
              => /\ purged'[PathOf[handler[c].key]] = purged[PathOf[handler[c].key]]
                 /\ pathIndex'[PathOf[handler[c].key]] = pathIndex[PathOf[handler[c].key]]
        BY <1>a, <2>2, <3>1 DEF ProxyTypeOK
      <4> QED  BY <2>4, <4>1, <4>2, <4>3 DEF ResponseStands
    <3>3. ASSUME NEW k \in Key, NEW e \in cache[k]
          PROVE  EntryStands(k, e)'
      <4>1. EntryStands(k, e) /\ PathOf[k] \in Path
        BY <1>a DEF PurgesReach
      <4>2. sweep[g] = {} /\ sweep'[g] = pathIndex[p]
        BY <3>1 DEF ProxyTypeOK, PurgesReach, PurgesPast
      <4>3. /\ Swept(k) => Swept(k)'
            /\ k \in pathIndex[p] => Swept(k)'
        BY <3>1, <4>2 DEF Swept, ProxyTypeOK
      <4>4. PathOf[k] # p => /\ purged'[PathOf[k]] = purged[PathOf[k]]
                             /\ pathIndex'[PathOf[k]] = pathIndex[PathOf[k]]
        BY <2>2, <3>1 DEF ProxyTypeOK
      <4> QED  BY <2>4, <4>1, <4>3, <4>4 DEF EntryStands
    <3> QED  BY <2>2, <2>3, <3>2, <3>3 DEF PurgesReach
  <2> QED  BY <2>5, <2>6 DEF ProxyTypeOK, Purges
<1>8. ASSUME NEW g \in Purger, NEW p \in Path, LoadRuntime(g, p)
      PROVE  PurgesReach'
  <2> DEFINE i == [path |-> p, version |-> origin[p], current |-> TRUE]
  <2>1. /\ purge' = [purge EXCEPT ![g] = {i}]
        /\ UNCHANGED <<cache, pathIndex, handler, sweep, origin, purged>>
    BY <1>8 DEF LoadRuntime
  <2>2. PurgesPast'
    BY <1>8, <2>1 DEF PurgesReach, PurgesPast, ProxyTypeOK, LoadRuntime
  <2>3. \A x, v : NewerThanStale(x, v) => NewerThanStale(x, v)'
    BY <2>1 DEF NewerThanStale, ProxyTypeOK
  <2>4. \A k : Swept(k)' <=> Swept(k)
    BY <2>1 DEF Swept
  <2>5. \A c \in Client : ResponseStands(handler[c])'
    BY <2>1, <2>3 DEF PurgesReach, ResponseStands
  <2>6. \A k \in Key : \A e \in cache'[k] : EntryStands(k, e)'
    BY <2>1, <2>3, <2>4 DEF PurgesReach, EntryStands
  <2> QED  BY <2>2, <2>5, <2>6 DEF PurgesReach
<1>9. ASSUME NEW g \in Purger, NEW k \in Key, InvalidateKey(g, k)
      PROVE  PurgesReach'
  <2>1. /\ cache' = [cache EXCEPT ![k] = {}]
        /\ sweep' = [sweep EXCEPT ![g] = @ \ {k}]
        /\ UNCHANGED <<pathIndex, handler, purge, origin, purged>>
    BY <1>9 DEF InvalidateKey
  <2>2. \A x \in Key \ {k} : Swept(x)' <=> Swept(x)
    BY <2>1 DEF Swept, ProxyTypeOK
  <2>3. \A x, v : NewerThanStale(x, v)' <=> NewerThanStale(x, v)
    BY <2>1 DEF NewerThanStale
  <2>4. \A c \in Client : ResponseStands(handler[c])'
    BY <2>1, <2>3 DEF PurgesReach, ResponseStands
  <2>5. \A x \in Key : \A e \in cache'[x] : x # k /\ e \in cache[x]
    BY <2>1 DEF ProxyTypeOK
  <2>6. \A x \in Key : \A e \in cache'[x] : EntryStands(x, e)'
    BY <2>1, <2>2, <2>3, <2>5 DEF PurgesReach, EntryStands
  <2>7. PurgesPast'
    BY <2>1 DEF PurgesReach, PurgesPast, ProxyTypeOK
  <2> QED  BY <2>4, <2>6, <2>7 DEF PurgesReach
<1>10. ASSUME NEW k \in Key, Evict(k) \/ EntryExpires(k)
       PROVE  PurgesReach'
  <2>1. UNCHANGED <<pathIndex, handler, purge, sweep, origin, purged>>
    BY <1>10 DEF Evict, EntryExpires, handlers
  <2>2. \A x \in Key : \A e \in cache'[x] :
          \E f \in cache[x] : e.version = f.version /\ e.raced = f.raced
    BY <1>10 DEF ProxyTypeOK, Evict, EntryExpires, Entries
  <2> QED  BY <1>0, <2>1, <2>2, QuietStep
<1>11. ASSUME NEW new \in Configs, Reload(new)
       PROVE  PurgesReach'
  <2>1. /\ \A k \in Key : cache'[k] = {}
        /\ UNCHANGED <<origin, purged>>
        /\ \A d \in Client :
             /\ handler'[d].stage = handler[d].stage
             /\ handler'[d].current <=> handler[d].stage = "idle"
    BY <1>11, <1>a DEF Reload, Handlers
  <2>2. \A d \in Client : ResponseStands(handler[d])'
    BY <2>1 DEF ResponseStands, Responded
  <2>3. \A g \in Purger : \A i \in purge'[g] :
          \E j \in purge[g] : i.path = j.path /\ i.version = j.version
    BY <1>11 DEF Reload, ProxyTypeOK, Purges
  <2>4. \A g \in Purger : sweep'[g] = {}
    BY <1>11 DEF Reload
  <2>5. PurgesPast'
    BY <2>1, <2>3, <2>4 DEF PurgesReach, PurgesPast
  <2> QED  BY <2>1, <2>2, <2>5 DEF PurgesReach
<1>12. ASSUME NEW p \in Path, OriginChange(p)
       PROVE  PurgesReach'
  <2>1. /\ \A x \in Path : origin[x] <= origin'[x] /\ origin'[x] \in Nat
        /\ UNCHANGED <<cache, pathIndex, handler, purge, sweep, purged>>
    BY <1>12 DEF ProxyTypeOK, OriginChange, handlers
  <2>2. \A k : Swept(k)' <=> Swept(k)
    BY <2>1 DEF Swept
  <2>3. \A x, v : NewerThanStale(x, v)' <=> NewerThanStale(x, v)
    BY <2>1 DEF NewerThanStale
  <2>4. PurgesPast'
    BY <1>a, <2>1 DEF PurgesReach, PurgesPast, ProxyTypeOK
  <2>5. \A c \in Client : ResponseStands(handler[c])'
    BY <2>1, <2>3 DEF PurgesReach, ResponseStands
  <2>6. \A k \in Key : \A e \in cache'[k] : EntryStands(k, e)'
    BY <2>1, <2>2, <2>3 DEF PurgesReach, EntryStands
  <2> QED  BY <2>4, <2>5, <2>6 DEF PurgesReach
<1>13. CASE UNCHANGED proxyVars
  BY <1>0, <1>13, QuietStep DEF proxyVars, handlers
<1> QED
  BY <1>1, <1>2, <1>3, <1>4, <1>5, <1>6, <1>7, <1>8, <1>9, <1>10, <1>11, <1>12, <1>13
     DEF ProxyNext

(* What is older than an invalidation of its path is on its way out of the *)
(* cache, or was on its way from the upstream at one and stored after it,  *)
(* whatever reloads came in between.                                       *)
THEOREM ProxyInvalidationHolds == ProxySpec => []InvalidationHolds
<1>1. ProxyInit => PurgesReach
  <2> SUFFICES ASSUME ProxyInit
               PROVE  PurgesReach
    OBVIOUS
  <2>1. \A c \in Client : ResponseStands(handler[c])
    BY DEF ProxyInit, ResponseStands, Responded, Idle
  <2> QED  BY <2>1 DEF ProxyInit, PurgesReach, PurgesPast
<1>2. PurgesReach => InvalidationHolds
  BY DEF PurgesReach, EntryStands, InvalidationHolds, Swept
<1> QED  BY <1>1, <1>2, ProxyIsTyped, StepPurgesReach, PTL DEF ProxySpec

-----------------------------------------------------------------------------
(* The load balancer: the vector of backends.                              *)

Increasing(list) == \A i, j \in DOMAIN list : i < j => list[i] < list[j]

Enumerates(list, S) ==
  /\ list \in [1..Cardinality(S) -> S]
  /\ {list[i] : i \in DOMAIN list} = S
  /\ Increasing(list)

(* A part of 1..n can be counted.                                          *)
LEMMA PartIsFinite ==
  ASSUME NEW n \in Nat, NEW S \in SUBSET (1..n)
  PROVE  IsFiniteSet(S) /\ Cardinality(S) \in Nat
<1>1. IsFiniteSet(1..n)
  BY FS_Interval
<1> QED  BY <1>1, FS_Subset, FS_CardinalityType

(* The backends have an order: every set of them can be listed in it.      *)
(* (Otherwise take the least k such that a part of 1..k cannot.)           *)
LEMMA OrderExists ==
  ASSUME NEW n \in Nat, NEW S \in SUBSET (1..n)
  PROVE  \E list : Enumerates(list, S)
<1> DEFINE Bad == {k \in Nat : \E T \in SUBSET (1..k) : ~\E list : Enumerates(list, T)}
<1>1. SUFFICES Bad = {}
  OBVIOUS
<1>2. SUFFICES ASSUME Bad # {}
               PROVE  FALSE
  OBVIOUS
<1>3. PICK k \in Bad : \A l \in Bad : ~(l < k)
  <2>1. Bad \subseteq Nat
    OBVIOUS
  <2> HIDE DEF Bad
  <2>2. PICK k \in Bad : \A l \in Bad : <<l, k>> \notin OpToRel(<, Nat)
    BY <1>2, <2>1, NatLessThanWellFounded, WFMin
  <2> QED  BY <2>1, <2>2 DEF OpToRel
<1>4. k \in Nat
  OBVIOUS
<1>5. PICK T \in SUBSET (1..k) : ~\E list : Enumerates(list, T)
  OBVIOUS
<1>6. IsFiniteSet(T) /\ Cardinality(T) \in Nat
  BY <1>4, PartIsFinite
<1>7. CASE k = 0
  <2>0. \A x \in 1..k : FALSE
    BY <1>7
  <2>1. T = {} /\ Cardinality(T) = 0
    BY <2>0, FS_EmptySet
  <2>2. Enumerates([i \in 1..0 |-> 0], T)
    BY <2>1 DEF Enumerates, Increasing
  <2> QED  BY <1>5, <2>2
<1>8. CASE k # 0 /\ k \notin T
  <2>1. k - 1 \in Nat /\ k - 1 < k /\ T \in SUBSET (1..(k - 1))
    BY <1>4, <1>8
  <2> QED  BY <1>3, <1>5, <2>1
<1>9. CASE k # 0 /\ k \in T
  <2> DEFINE U == T \ {k}
             c == Cardinality(T)
  <2>1. k - 1 \in Nat /\ k - 1 < k /\ U \in SUBSET (1..(k - 1))
    BY <1>4, <1>9
  <2>2. PICK list : Enumerates(list, U)
    BY <1>3, <2>1
  <2>3. Cardinality(U) = c - 1 /\ c \in Nat \ {0}
    BY <1>6, <1>9, FS_RemoveElement, FS_EmptySet
  <2> DEFINE more == [i \in 1..c |-> IF i = c THEN k ELSE list[i]]
  <2> HIDE DEF c
  <2>4. /\ DOMAIN list = 1..(c - 1) /\ \A i \in 1..(c - 1) : list[i] \in U
        /\ \A x \in U : \E i \in 1..(c - 1) : list[i] = x
        /\ \A i, j \in 1..(c - 1) : i < j => list[i] < list[j]
    BY <2>2, <2>3 DEF Enumerates, Increasing
  <2> HIDE DEF U
  <2>5. \A x \in U : x \in Nat /\ x < k
    BY <2>1, <1>4
  <2>6. /\ DOMAIN more = 1..c /\ more[c] = k
        /\ \A i \in 1..(c - 1) : more[i] = list[i]
        /\ 1..c = 1..(c - 1) \cup {c}
    BY <2>3
  <2> HIDE DEF more
  <2>7. more \in [1..c -> T]
    <3>1. \A i \in 1..c : more[i] \in T
      BY <1>9, <2>4, <2>6 DEF U
    <3> QED  BY <2>6, <3>1 DEF more
  <2>8. {more[i] : i \in DOMAIN more} = T
    <3>1. \A x \in T : \E i \in 1..c : more[i] = x
      BY <2>3, <2>4, <2>6 DEF U
    <3> QED  BY <2>6, <2>7, <3>1
  <2>9. Increasing(more)
    BY <1>4, <2>3, <2>4, <2>5, <2>6 DEF Increasing
  <2>10. Enumerates(more, T)
    BY <2>7, <2>8, <2>9 DEF Enumerates, c
  <2> QED  BY <1>5, <2>10
<1> QED  BY <1>7, <1>8, <1>9

(* So InOrder lists them.                                                  *)
LEMMA InOrderLists ==
  ASSUME NEW n \in Nat, NEW S \in SUBSET (1..n)
  PROVE  /\ InOrder(S) \in Seq(S)
         /\ {InOrder(S)[i] : i \in DOMAIN InOrder(S)} = S
         /\ Increasing(InOrder(S))
<1> DEFINE Lists == [1..Cardinality(S) -> S]
           P(list) == /\ {list[i] : i \in DOMAIN list} = S
                      /\ \A i, j \in DOMAIN list : i < j => list[i] < list[j]
<1>1. PICK l : Enumerates(l, S)
  BY OrderExists
<1>2. l \in Lists /\ P(l)
  BY <1>1 DEF Enumerates, Increasing
<1>3. InOrder(S) = CHOOSE list \in Lists : P(list)
  BY DEF InOrder
<1> HIDE DEF Lists, P
<1>4. InOrder(S) \in Lists /\ P(InOrder(S))
  BY <1>2, <1>3
<1>5. Cardinality(S) \in Nat
  BY PartIsFinite
<1> USE DEF Lists, P
<1>6. InOrder(S) \in Seq(S)
  BY <1>4, <1>5, SeqDef
<1> QED  BY <1>4, <1>6 DEF Increasing

(* A list in order has no more elements than there are.                    *)
LEMMA IncreasingIsShort ==
  ASSUME NEW n \in Nat, NEW list \in Seq(1..n), Increasing(list)
  PROVE  Len(list) \in Nat /\ Len(list) <= n
<1>1. Len(list) \in Nat /\ list \in [1..Len(list) -> 1..n]
  BY LenProperties, SeqDef
<1>2. \A i, j \in 1..Len(list) : list[i] = list[j] => i = j
  <2> SUFFICES ASSUME NEW i \in 1..Len(list), NEW j \in 1..Len(list), list[i] = list[j], i # j
               PROVE  FALSE
    OBVIOUS
  <2>1. list[i] \in Nat /\ list[j] \in Nat /\ i \in Nat /\ j \in Nat
    BY <1>1
  <2>2. DOMAIN list = 1..Len(list)
    BY <1>1
  <2>3. i < j => list[i] < list[j]
    BY <2>2 DEF Increasing
  <2>4. j < i => list[j] < list[i]
    BY <2>2 DEF Increasing
  <2> QED  BY <2>1, <2>3, <2>4
<1>3. list \in Injection(1..Len(list), 1..n)
  BY <1>1, <1>2 DEF Injection, IsInjective
<1>4. Cardinality(1..Len(list)) <= Cardinality(1..n)
  BY <1>3, FS_Injection, FS_Interval
<1> QED  BY <1>1, <1>4, FS_Interval
-----------------------------------------------------------------------------
(* Types.                                                                  *)

SessionEntries == [index : 1..MaxBackends, expired : BOOLEAN]

Backends == [addr : Addr, healthy : BOOLEAN, draining : BOOLEAN, conns : 0..MaxConns]

Tasks == {"none", "draining", "late", "removing", "done"}

Answered == {"none", "sent", "good", "bad"}

AtMostOneOf(S) == \A x, y \in S : x = y

(* A selection that is under way for a session knows its key, and one      *)
(* that is over has forgotten it.                                          *)
SelectionOK(q) ==
  /\ q \in [stage : SelectorStages, key : Session \cup {NoSession}, list : {q.list},
            index : {q.index}, chosen : {q.chosen}, steady : BOOLEAN]
  /\ q.stage \in {"idle", "chosen"} => q.key = NoSession
  /\ q.stage \in {"entry", "hash", "snapshot", "find", "upsert", "forget"} => q.key \in Session
  /\ q.stage = "upsert" => q.index \in 1..MaxBackends

PoolOK ==
  /\ made \in 0..MaxBackends
  /\ backend \in [Object -> Backends]
  /\ pool \in Seq(1..made)
  /\ Increasing(pool)

SelectorsOK ==
  /\ selector = [t \in Selector |-> selector[t]]
  /\ \A t \in Selector : SelectionOK(selector[t])

HoldersOK ==
  /\ holder \in [Session -> SUBSET Selector]
  /\ \A s \in Session : AtMostOneOf(holder[s])
  /\ \A t \in Selector, s \in Session :
       t \in holder[s] <=> selector[t].stage = "entry" /\ selector[t].key = s

SessionsOK ==
  /\ session \in [Session -> SUBSET SessionEntries]
  /\ \A s \in Session : AtMostOneOf(session[s])

TasksOK ==
  /\ writer \in Object \cup {Unheld}
  /\ swept \subseteq Session
  /\ task \in [Object -> Tasks]
  /\ checks \in [Object -> Answered]

HistoryOK ==
  /\ last = [s \in Session |-> last[s]]
  /\ moved \in BOOLEAN

BalancerShape ==
  PoolOK /\ SelectorsOK /\ HoldersOK /\ SessionsOK /\ TasksOK /\ HistoryOK
    /\ counter \in 0..(CounterSize - 1)

(* What follows for BalancerTypeOK.                                        *)
LEMMA AtMostOneCounts ==
  ASSUME NEW S, AtMostOneOf(S)
  PROVE  Cardinality(S) <= 1
<1>1. CASE S = {}
  BY <1>1, FS_EmptySet
<1>2. CASE S # {}
  <2>1. PICK x \in S : TRUE
    BY <1>2
  <2>2. S = {x}
    BY <2>1 DEF AtMostOneOf
  <2>3. Cardinality({x}) = 1
    BY FS_Singleton
  <2> QED  BY <2>2, <2>3
<1> QED  BY <1>1, <1>2

(* The shape says what the type invariant of the model says, and more.     *)
LEMMA ShapeIsTyped == BalancerShape => BalancerTypeOK
<1> SUFFICES ASSUME BalancerShape
             PROVE  BalancerTypeOK
  OBVIOUS
<1> USE DEF BalancerShape
<1>1. \A s \in Session : Cardinality(session[s]) <= 1 /\ Cardinality(holder[s]) <= 1
  BY AtMostOneCounts DEF SessionsOK, HoldersOK
<1>2. \A s \in Session : session[s] \subseteq [index : 1..MaxBackends, expired : BOOLEAN]
  BY DEF SessionsOK, SessionEntries
<1>3. \A t \in Selector : selector[t].stage \in SelectorStages
  BY DEF SelectorsOK, SelectionOK
<1>4. /\ made \in 0..MaxBackends
      /\ backend \in [Object -> [addr : Addr, healthy : BOOLEAN, draining : BOOLEAN,
                                 conns : 0..MaxConns]]
      /\ pool \in Seq(1..made)
      /\ \A i, j \in DOMAIN pool : i < j => pool[i] < pool[j]
  BY DEF PoolOK, Backends, Increasing
<1>5. /\ task \in [Object -> {"none", "draining", "late", "removing", "done"}]
      /\ checks \in [Object -> {"none", "sent", "good", "bad"}]
      /\ writer \in Object \cup {Unheld} /\ swept \subseteq Session
  BY DEF TasksOK, Tasks, Answered
<1> QED  BY <1>1, <1>2, <1>3, <1>4, <1>5 DEF BalancerTypeOK, HoldersOK

(* The positions of the vector, and the backends there.                    *)
LEMMA PoolObjects ==
  ASSUME PoolOK
  PROVE  /\ DOMAIN pool = 1..Len(pool) /\ Len(pool) \in Nat
         /\ \A i \in DOMAIN pool : pool[i] \in 1..made /\ pool[i] \in Object
         /\ \A i \in DOMAIN pool : i \in 1..MaxBackends
         /\ Object \subseteq Nat
<1>1. made \in Nat /\ made <= MaxBackends /\ MaxBackends \in Nat
  BY BalancerAssumption DEF PoolOK
<1>2. DOMAIN pool = 1..Len(pool) /\ Len(pool) \in Nat /\ Len(pool) <= made
  BY <1>1, IncreasingIsShort, LenProperties DEF PoolOK
<1>3. \A i \in DOMAIN pool : pool[i] \in 1..made
  BY <1>2, ElementOfSeq DEF PoolOK
<1> QED  BY <1>1, <1>2, <1>3 DEF Object

(* The backends that retain or filter keep.                                *)
LEMMA KeptInPool ==
  ASSUME PoolOK, NEW S, S \subseteq {o \in Object : InPool(o)}
  PROVE  /\ InOrder(S) \in Seq(1..made)
         /\ Increasing(InOrder(S))
         /\ {InOrder(S)[i] : i \in DOMAIN InOrder(S)} = S
<1>1. \A o \in S : o \in 1..made
  BY PoolObjects DEF InPool
<1>2. S \in SUBSET (1..made) /\ made \in Nat
  BY <1>1 DEF PoolOK
<1>3. /\ InOrder(S) \in Seq(S)
      /\ {InOrder(S)[i] : i \in DOMAIN InOrder(S)} = S
      /\ Increasing(InOrder(S))
  BY <1>2, InOrderLists
<1>4. InOrder(S) \in Seq(1..made)
  <2> DEFINE l == InOrder(S)
  <2>1. l \in Seq(S)
    BY <1>3
  <2> HIDE DEF l
  <2>2. Len(l) \in Nat /\ l \in [1..Len(l) -> S]
    BY <2>1, LenProperties
  <2>3. l \in [1..Len(l) -> 1..made]
    BY <1>2, <2>2
  <2>4. l \in Seq(1..made)
    BY <2>2, <2>3, SeqDef
  <2> QED  BY <2>4 DEF l
<1> QED  BY <1>3, <1>4

(* A selection that takes a step outside the lock of its shard.            *)
LEMMA SelectionSteps ==
  ASSUME SelectorsOK, HoldersOK, NEW t \in Selector, NEW q, SelectionOK(q),
         selector' = [selector EXCEPT ![t] = q],
         selector[t].stage # "entry", q.stage # "entry", holder' = holder
  PROVE  (SelectorsOK /\ HoldersOK)'
<1>1. selector'[t] = q /\ \A u \in Selector \ {t} : selector'[u] = selector[u]
  BY DEF SelectorsOK
<1>2. SelectorsOK'
  BY <1>1 DEF SelectorsOK, SelectionOK
<1>3. HoldersOK'
  BY <1>1 DEF HoldersOK, SelectorsOK
<1> QED  BY <1>2, <1>3

(* What a selection is before and after its steps.                         *)
LEMMA NotSelectingOK ==
  /\ SelectionOK(NotSelecting)
  /\ NotSelecting.stage = "idle" /\ NotSelecting.key = NoSession /\ NotSelecting.steady = TRUE
  /\ \A o : LET q == [NotSelecting EXCEPT !.stage = "chosen", !.chosen = o] IN
        /\ SelectionOK(q)
        /\ q.stage = "chosen" /\ q.key = NoSession /\ q.steady = TRUE
<1>1. /\ SelectionOK(NotSelecting)
      /\ NotSelecting.stage = "idle" /\ NotSelecting.key = NoSession
      /\ NotSelecting.steady = TRUE
  BY DEF SelectionOK, NotSelecting, SelectorStages
<1>2. ASSUME NEW o
      PROVE  LET q == [NotSelecting EXCEPT !.stage = "chosen", !.chosen = o] IN
             SelectionOK(q) /\ q.stage = "chosen" /\ q.key = NoSession /\ q.steady = TRUE
  <2> DEFINE q == [NotSelecting EXCEPT !.stage = "chosen", !.chosen = o]
  <2>1. q.stage = "chosen" /\ q.key = NoSession /\ q.steady = TRUE
    BY DEF NotSelecting
  <2>2. q \in [stage : {"chosen"}, key : {NoSession}, list : {q.list},
              index : {q.index}, chosen : {q.chosen}, steady : {TRUE}]
    BY DEF NotSelecting
  <2> HIDE DEF q
  <2>3. SelectionOK(q)
    BY <2>1, <2>2 DEF SelectionOK, SelectorStages
  <2> QED  BY <2>1, <2>3 DEF q
<1> QED  BY <1>1, <1>2

(* The balancer starts in shape.                                           *)
LEMMA BalancerInitShape == BalancerInit => BalancerShape
<1> SUFFICES ASSUME BalancerInit
             PROVE  BalancerShape
  OBVIOUS
<1> USE DEF BalancerInit
<1>0. /\ Initial \in Seq(Addr) /\ Len(Initial) \in Nat /\ MaxBackends \in Nat
      /\ Len(Initial) <= MaxBackends /\ DOMAIN Initial = 1..Len(Initial)
      /\ \A i \in 1..Len(Initial) : Initial[i] \in Addr
      /\ (CHOOSE a \in Addr : TRUE) \in Addr
      /\ MaxConns \in Nat /\ CounterSize \in Nat \ {0}
  BY BalancerAssumption, LenProperties, ElementOfSeq
<1>1. PoolOK
  <2>1. \A a \in Addr : NewBackend(a) \in Backends
    BY <1>0 DEF NewBackend, Backends
  <2>2. backend \in [Object -> Backends]
    BY <1>0, <2>1 DEF Object
  <2>3. pool \in [1..Len(Initial) -> 1..Len(Initial)]
    BY <1>0
  <2>4. pool \in Seq(1..made)
    BY <1>0, <2>3, SeqDef
  <2>5. Increasing(pool)
    BY <1>0 DEF Increasing
  <2> QED  BY <1>0, <2>2, <2>4, <2>5 DEF PoolOK
<1>2. SelectorsOK
  BY NotSelectingOK DEF SelectorsOK
<1>3. HoldersOK
  BY NotSelectingOK DEF HoldersOK, AtMostOneOf
<1>4. SessionsOK
  BY DEF SessionsOK, AtMostOneOf
<1>5. TasksOK
  BY DEF TasksOK, Tasks, Answered
<1>6. HistoryOK
  BY DEF HistoryOK
<1> QED  BY <1>0, <1>1, <1>2, <1>3, <1>4, <1>5, <1>6 DEF BalancerShape

(* The steps of drain tasks, health checker and administration: they touch *)
(* no selection but its history.                                           *)
PoolStep ==
  \/ \E a \in Addr : Add(a) \/ Drain(a) \/ UpOrDown(a)
  \/ \E o \in Object : TimeUp(o) \/ DrainTask(o) \/ Disconnect(o)
  \/ HealthChecker

(* The steps of one selection.                                             *)
SelectStep(t) ==
  \/ \E weighted \in BOOLEAN : Snapshot(t, weighted)
  \/ Pick(t)
  \/ LeastConnections(t)
  \/ \E s \in Session : FindSession(t, s)
  \/ FollowSession(t)
  \/ HashSession(t)
  \/ ForgetSession(t)
  \/ FindIndex(t)
  \/ UpsertSession(t)
  \/ \E connects \in BOOLEAN : Connect(t, connects)

(* A backend that is written to is still a backend.                        *)
LEMMA BackendWritten ==
  ASSUME NEW b \in Backends
  PROVE  /\ [b EXCEPT !.draining = TRUE] \in Backends
         /\ \A h \in BOOLEAN : [b EXCEPT !.healthy = h] \in Backends
         /\ \A n \in 0..MaxConns : [b EXCEPT !.conns = n] \in Backends
         /\ b.conns \in 0..MaxConns
BY DEF Backends

(* They leave all in shape.                                                *)
LEMMA PoolStepShape == BalancerShape /\ PoolStep => BalancerShape'
<1> SUFFICES ASSUME BalancerShape, PoolStep
             PROVE  BalancerShape'
  OBVIOUS
<1>0. /\ PoolOK /\ SelectorsOK /\ HoldersOK /\ SessionsOK /\ TasksOK /\ HistoryOK
      /\ counter \in 0..(CounterSize - 1)
  BY DEF BalancerShape
<1>s. ASSUME UNCHANGED unselecting, PoolOK', TasksOK'
      PROVE  BalancerShape'
  BY <1>0, <1>s
     DEF BalancerShape, unselecting, SelectorsOK, HoldersOK, SessionsOK, HistoryOK
<1>p. ASSUME UNCHANGED <<made, backend, pool>>
      PROVE  PoolOK'
  BY <1>0, <1>p DEF PoolOK
<1>b. ASSUME UNCHANGED <<made, pool>>, NEW o \in Object, NEW b \in Backends,
             backend' = [backend EXCEPT ![o] = b]
      PROVE  PoolOK'
  BY <1>0, <1>b DEF PoolOK
<1>1. ASSUME NEW a \in Addr, Add(a)
      PROVE  BalancerShape'
  <2>1. /\ made < MaxBackends /\ made' = made + 1
        /\ backend' = [backend EXCEPT ![made + 1] = NewBackend(a)]
        /\ pool' = Append(pool, made + 1)
        /\ UNCHANGED <<writer, swept, task, checks, unselecting>>
    BY <1>1 DEF Add
  <2>2. made \in Nat /\ MaxBackends \in Nat /\ made' \in 0..MaxBackends
    BY <1>0, <2>1, BalancerAssumption DEF PoolOK
  <2>3. backend' \in [Object -> Backends]
    <3>1. NewBackend(a) \in Backends
      BY BalancerAssumption DEF NewBackend, Backends
    <3>2. backend \in [Object -> Backends]
      BY <1>0 DEF PoolOK
    <3> HIDE DEF Backends
    <3> QED  BY <2>1, <3>1, <3>2
  <2>4. pool \in Seq(1..made) /\ pool \in Seq(1..(made + 1)) /\ made + 1 \in 1..(made + 1)
    <3>1. pool \in Seq(1..made)
      BY <1>0 DEF PoolOK
    <3>2. Len(pool) \in Nat /\ pool \in [1..Len(pool) -> 1..made]
      BY <3>1, LenProperties
    <3>3. pool \in [1..Len(pool) -> 1..(made + 1)]
      BY <2>2, <3>2
    <3> QED  BY <2>2, <3>1, <3>2, <3>3, SeqDef
  <2>5. /\ pool' \in Seq(1..made') /\ DOMAIN pool' = 1..(Len(pool) + 1)
        /\ \A i \in 1..Len(pool) : pool'[i] = pool[i]
        /\ pool'[Len(pool) + 1] = made + 1
    BY <2>1, <2>2, <2>4, AppendProperties, LenProperties
  <2>6. Increasing(pool')
    <3> SUFFICES ASSUME NEW i \in DOMAIN pool', NEW j \in DOMAIN pool', i < j
                 PROVE  pool'[i] < pool'[j]
      BY DEF Increasing
    <3>1. DOMAIN pool = 1..Len(pool) /\ Len(pool) \in Nat /\ \A k \in DOMAIN pool : pool[k] \in 1..made
      BY <1>0, PoolObjects
    <3>2. i \in DOMAIN pool /\ pool'[i] = pool[i]
      BY <2>5, <3>1
    <3>3. CASE j \in DOMAIN pool
      BY <1>0, <2>5, <3>1, <3>2, <3>3 DEF PoolOK, Increasing
    <3>4. CASE j = Len(pool) + 1
      BY <2>2, <2>5, <3>1, <3>2, <3>4
    <3> QED  BY <2>5, <3>1, <3>3, <3>4
  <2>7. PoolOK'
    BY <2>2, <2>3, <2>5, <2>6 DEF PoolOK, Increasing
  <2>8. TasksOK'
    BY <1>0, <2>1 DEF TasksOK
  <2> QED  BY <1>s, <2>1, <2>7, <2>8
<1>2. ASSUME NEW a \in Addr, Drain(a)
      PROVE  BalancerShape'
  <2>1. PICK i \in DOMAIN pool :
          /\ backend' = [backend EXCEPT ![pool[i]].draining = TRUE]
          /\ task' = [task EXCEPT ![pool[i]] = "draining"]
    BY <1>2 DEF Drain
  <2>2. pool[i] \in Object
    BY <1>0, PoolObjects
  <2>3. backend' = [backend EXCEPT ![pool[i]] = [backend[pool[i]] EXCEPT !.draining = TRUE]]
    BY <2>1
  <2>4. [backend[pool[i]] EXCEPT !.draining = TRUE] \in Backends
    BY <1>0, <2>2, BackendWritten DEF PoolOK
  <2>5. PoolOK'
    BY <1>2, <1>b, <2>2, <2>3, <2>4 DEF Drain
  <2>6. TasksOK'
    BY <1>0, <1>2, <2>1 DEF TasksOK, Drain, Tasks
  <2> QED  BY <1>2, <1>s, <2>5, <2>6 DEF Drain
<1>3. ASSUME NEW a \in Addr, UpOrDown(a)
      PROVE  BalancerShape'
  <2>1. TasksOK'
    BY <1>0, <1>3 DEF UpOrDown, TasksOK
  <2> QED  BY <1>3, <1>s, <1>p, <2>1 DEF UpOrDown
<1>4. ASSUME NEW o \in Object, TimeUp(o)
      PROVE  BalancerShape'
  <2>1. TasksOK'
    BY <1>0, <1>4 DEF TimeUp, TasksOK, Tasks
  <2> QED  BY <1>4, <1>s, <1>p, <2>1 DEF TimeUp
<1>5. ASSUME NEW o \in Object, StartRemove(o)
      PROVE  BalancerShape'
  <2> DEFINE S == {x \in Object : InPool(x) /\ backend[x].addr # backend[o].addr}
  <2>1. /\ pool' = InOrder(S) /\ writer' = o /\ swept' = {}
        /\ task' = [task EXCEPT ![o] = "removing"]
        /\ last' = [s \in Session |-> {}]
        /\ selector' = [t \in Selector |->
             [selector[t] EXCEPT !.steady = selector[t].stage \in {"idle", "chosen"}]]
        /\ UNCHANGED <<made, backend, checks, session, holder, counter, moved>>
    BY <1>5 DEF StartRemove
  <2>2. pool' \in Seq(1..made) /\ Increasing(pool')
    BY <1>0, <2>1, KeptInPool
  <2>3. PoolOK'
    BY <1>0, <2>1, <2>2 DEF PoolOK, Increasing
  <2>4. \A t \in Selector : /\ SelectionOK(selector'[t])
                            /\ selector'[t].stage = selector[t].stage
                            /\ selector'[t].key = selector[t].key
    <3> SUFFICES ASSUME NEW t \in Selector
                 PROVE  /\ SelectionOK(selector'[t])
                        /\ selector'[t].stage = selector[t].stage
                        /\ selector'[t].key = selector[t].key
      OBVIOUS
    <3> DEFINE b == selector[t].stage \in {"idle", "chosen"}
    <3>1. selector'[t] = [selector[t] EXCEPT !.steady = b] /\ b \in BOOLEAN
      BY <2>1
    <3>2. SelectionOK(selector[t])
      BY <1>0 DEF SelectorsOK
    <3> HIDE DEF b
    <3> QED  BY <3>1, <3>2 DEF SelectionOK
  <2>5. SelectorsOK' /\ HoldersOK'
    <3>1. DOMAIN selector' = Selector /\ selector' = [t \in Selector |-> selector'[t]]
      BY <2>1
    <3>2. SelectorsOK'
      BY <2>4, <3>1 DEF SelectorsOK, SelectionOK
    <3>3. HoldersOK'
      BY <1>0, <2>1, <2>4 DEF HoldersOK
    <3> QED  BY <3>2, <3>3
  <2>6. TasksOK'
    BY <1>0, <2>1 DEF TasksOK, Tasks
  <2> QED  BY <1>0, <2>1, <2>3, <2>5, <2>6 DEF BalancerShape, SessionsOK, HistoryOK
<1>6. ASSUME NEW o \in Object, NEW s \in Session, SweepShard(o, s)
      PROVE  BalancerShape'
  <2>1. /\ session' = [session EXCEPT ![s] = {e \in session[s] : e.index <= Len(pool)}]
        /\ swept' = swept \cup {s}
        /\ UNCHANGED <<made, backend, pool, writer, task, holder, selector, counter, checks,
                       last, moved>>
    BY <1>6 DEF SweepShard
  <2>2. SessionsOK'
    BY <1>0, <2>1 DEF SessionsOK, AtMostOneOf
  <2>3. TasksOK'
    BY <1>0, <2>1 DEF TasksOK
  <2> QED
    BY <1>0, <1>p, <2>1, <2>2, <2>3 DEF BalancerShape, SelectorsOK, HoldersOK, HistoryOK
<1>7. ASSUME NEW o \in Object, FinishRemove(o)
      PROVE  BalancerShape'
  <2>1. TasksOK'
    BY <1>0, <1>7 DEF FinishRemove, TasksOK, Tasks
  <2> QED  BY <1>7, <1>s, <1>p, <2>1 DEF FinishRemove
<1>8. ASSUME NEW o \in Object, Disconnect(o)
      PROVE  BalancerShape'
  <2>1. /\ backend[o].conns > 0
        /\ backend' = [backend EXCEPT ![o] = [backend[o] EXCEPT !.conns = backend[o].conns - 1]]
        /\ UNCHANGED <<notSelecting, unselecting>>
    BY <1>8 DEF Disconnect
  <2>2. backend[o] \in Backends
    BY <1>0 DEF PoolOK
  <2>3. backend[o].conns - 1 \in 0..MaxConns
    <3>1. backend[o].conns \in 0..MaxConns /\ MaxConns \in Nat
      BY <2>2, BackendWritten, BalancerAssumption
    <3> QED  BY <2>1, <3>1
  <2>4. PoolOK'
    BY <1>b, <2>1, <2>2, <2>3, BackendWritten DEF notSelecting
  <2>5. TasksOK'
    BY <1>0, <2>1 DEF TasksOK, notSelecting
  <2> QED  BY <1>s, <2>1, <2>4, <2>5
<1>9. ASSUME StartRound
      PROVE  BalancerShape'
  <2>1. TasksOK'
    BY <1>0, <1>9 DEF StartRound, TasksOK, Answered
  <2> QED  BY <1>9, <1>s, <1>p, <2>1 DEF StartRound
<1>10. ASSUME NEW o \in Object, Probe(o)
       PROVE  BalancerShape'
  <2>1. TasksOK'
    BY <1>0, <1>10 DEF Probe, TasksOK, Answered
  <2> QED  BY <1>10, <1>s, <1>p, <2>1 DEF Probe
<1>11. ASSUME NEW o \in Object, SetHealthy(o)
       PROVE  BalancerShape'
  <2> DEFINE h == checks[o] = "good"
  <2>1. /\ checks' = [checks EXCEPT ![o] = "none"]
        /\ backend' = [backend EXCEPT ![o] = [backend[o] EXCEPT !.healthy = h]]
        /\ last' = [s \in Session |-> IF checks[o] = "bad" THEN last[s] \ {o} ELSE last[s]]
        /\ UNCHANGED <<made, pool, writer, swept, task, session, holder, selector, counter,
                       moved>>
    BY <1>11 DEF SetHealthy
  <2>2. h \in BOOLEAN /\ backend[o] \in Backends
    BY <1>0 DEF PoolOK
  <2> HIDE DEF h
  <2>3. PoolOK'
    BY <1>b, <2>1, <2>2, BackendWritten
  <2>4. TasksOK'
    BY <1>0, <2>1 DEF TasksOK, Answered
  <2>5. HistoryOK'
    BY <1>0, <2>1 DEF HistoryOK
  <2> QED
    BY <1>0, <2>1, <2>3, <2>4, <2>5 DEF BalancerShape, SelectorsOK, HoldersOK, SessionsOK
<1> QED
  BY <1>1, <1>2, <1>3, <1>4, <1>5, <1>6, <1>7, <1>8, <1>9, <1>10, <1>11
     DEF PoolStep, DrainTask, HealthChecker

(* Of some positions there is a first.                                     *)
LEMMA FirstIsThere ==
  ASSUME NEW n \in Nat, NEW S \in SUBSET (1..n), S # {}
  PROVE  /\ (CHOOSE i \in S : \A j \in S : i <= j) \in S
         /\ \A j \in S : (CHOOSE i \in S : \A k \in S : i <= k) <= j
<1>1. S \subseteq Nat
  OBVIOUS
<1>2. PICK i \in S : \A j \in S : <<j, i>> \notin OpToRel(<, Nat)
  BY <1>1, NatLessThanWellFounded, WFMin
<1>3. \A j \in S : ~(j < i)
  BY <1>1, <1>2 DEF OpToRel
<1>4. \A j \in S : i <= j
  BY <1>1, <1>3
<1> QED  BY <1>4

(* What a step does to the parts that only some steps write.               *)
LEMMA SelectFrames ==
  ASSUME BalancerShape
  PROVE  /\ UNCHANGED notSelecting => TasksOK'
         /\ UNCHANGED <<made, backend, pool>> => PoolOK'
         /\ UNCHANGED session => SessionsOK'
         /\ UNCHANGED <<last, moved>> => HistoryOK'
BY DEF BalancerShape, notSelecting, PoolOK, TasksOK, SessionsOK, HistoryOK

(* A selection that ends has its say in the history, and forgets its key.  *)
LEMMA SelectedShape ==
  ASSUME BalancerShape, NEW t \in Selector, NEW s \in Session, NEW o, Selected(t, s, o)
  PROVE  /\ HistoryOK'
         /\ \A u \in Selector \ {t} : selector'[u] = selector[u]
         /\ selector'[t].stage = "chosen" /\ selector'[t].key = NoSession
         /\ selector'[t].steady = TRUE
         /\ SelectorsOK'
<1> DEFINE q == [NotSelecting EXCEPT !.stage = "chosen", !.chosen = o]
<1>1. SelectionOK(q) /\ q.stage = "chosen" /\ q.key = NoSession /\ q.steady = TRUE
  BY NotSelectingOK
<1>2. selector' = [selector EXCEPT ![t] = q]
  BY DEF Selected
<1> HIDE DEF q
<1>3. SelectorsOK /\ HistoryOK
  BY DEF BalancerShape
<1>4. selector'[t] = q /\ \A u \in Selector \ {t} : selector'[u] = selector[u]
  BY <1>2, <1>3 DEF SelectorsOK
<1>5. SelectorsOK'
  BY <1>1, <1>2, <1>3, <1>4 DEF SelectorsOK, SelectionOK
<1>6. HistoryOK'
  <2>1. moved' = (moved \/ (last[s] # {} /\ o \notin last[s]))
    BY DEF Selected
  <2>2. moved' \in BOOLEAN
    BY <2>1
  <2>3. PICK v : last' = [last EXCEPT ![s] = v]
    BY DEF Selected
  <2>4. last' = [x \in Session |-> last'[x]]
    BY <1>3, <2>3 DEF HistoryOK
  <2> QED  BY <2>2, <2>4 DEF HistoryOK
<1> QED  BY <1>1, <1>4, <1>5, <1>6

(* A step of one selection: whatever it does to it, it leaves all in       *)
(* shape.                                                                  *)
LEMMA SelectStepShape ==
  ASSUME BalancerShape, NEW t \in Selector, SelectStep(t)
  PROVE  BalancerShape'
<1>0. /\ PoolOK /\ SelectorsOK /\ HoldersOK /\ SessionsOK /\ TasksOK /\ HistoryOK
      /\ counter \in 0..(CounterSize - 1)
  BY DEF BalancerShape
<1> DEFINE q == selector[t]
<1>q. SelectionOK(q)
  BY <1>0 DEF SelectorsOK
<1>s. ASSUME NEW r, SelectionOK(r), selector' = [selector EXCEPT ![t] = r],
             q.stage # "entry", r.stage # "entry",
             UNCHANGED <<notSelecting, backend, session, holder, last, moved>>,
             counter' \in 0..(CounterSize - 1)
      PROVE  BalancerShape'
  <2>1. UNCHANGED notSelecting /\ UNCHANGED <<made, backend, pool>>
        /\ UNCHANGED session /\ UNCHANGED <<last, moved>> /\ holder' = holder
    BY <1>s DEF notSelecting
  <2>2. (SelectorsOK /\ HoldersOK)'
    BY <1>0, <1>s, <2>1, SelectionSteps
  <2> QED  BY <1>s, <2>1, <2>2, SelectFrames DEF BalancerShape
<1>1. ASSUME NEW weighted \in BOOLEAN, Snapshot(t, weighted)
      PROVE  BalancerShape'
  <2>1. PICK list : selector' = [selector EXCEPT
          ![t] = IF list = << >> THEN NotSelecting
                 ELSE [@ EXCEPT !.stage = "pick", !.list = list]]
    BY <1>1 DEF Snapshot
  <2>2. q.stage \in {"idle", "snapshot"}
    BY <1>1 DEF Snapshot
  <2>3. UNCHANGED <<notSelecting, backend, session, holder, counter, last, moved>>
    BY <1>1 DEF Snapshot
  <2>4. CASE list = << >>
    BY <1>0, <1>s, <2>1, <2>2, <2>3, <2>4, NotSelectingOK
  <2>5. CASE list # << >>
    <3> DEFINE r == [q EXCEPT !.stage = "pick", !.list = list]
    <3>1. selector' = [selector EXCEPT ![t] = r]
      BY <2>1, <2>5
    <3>2. SelectionOK(r) /\ r.stage = "pick"
      BY <1>q DEF SelectionOK, SelectorStages
    <3> HIDE DEF r
    <3> QED  BY <1>0, <1>s, <2>2, <2>3, <3>1, <3>2
  <2> QED  BY <2>4, <2>5
<1>2. ASSUME Pick(t)
      PROVE  BalancerShape'
  <2> DEFINE o == q.list[1 + (counter % Len(q.list))]
             g == IF q.key = NoSession THEN "chosen" ELSE "find"
             r == [q EXCEPT !.chosen = o, !.list = << >>, !.stage = g]
  <2>1. /\ q.stage = "pick" /\ selector' = [selector EXCEPT ![t] = r]
        /\ counter' = (counter + 1) % CounterSize
        /\ UNCHANGED <<notSelecting, backend, session, holder, last, moved>>
    BY <1>2 DEF Pick
  <2> HIDE DEF o
  <2>2. SelectionOK(r) /\ r.stage # "entry"
    BY <1>q DEF SelectionOK, SelectorStages
  <2> HIDE DEF r
  <2>3. counter' \in 0..(CounterSize - 1)
    BY <1>0, <2>1, BalancerAssumption
  <2> QED  BY <1>s, <2>1, <2>2, <2>3
<1>3. ASSUME LeastConnections(t)
      PROVE  BalancerShape'
  <2>1. PICK o : selector' = [selector EXCEPT ![t].stage = "chosen", ![t].chosen = o]
    BY <1>3 DEF LeastConnections
  <2> DEFINE r == [q EXCEPT !.stage = "chosen", !.chosen = o]
  <2>2. selector' = [selector EXCEPT ![t] = r]
    BY <1>0, <2>1 DEF SelectorsOK
  <2>3. q.stage = "idle" /\ UNCHANGED <<notSelecting, backend, session, holder, counter, last, moved>>
    BY <1>3 DEF LeastConnections
  <2>4. SelectionOK(r) /\ r.stage # "entry"
    BY <1>q, <2>3 DEF SelectionOK, SelectorStages
  <2> HIDE DEF r
  <2> QED  BY <1>0, <1>s, <2>2, <2>3, <2>4
<1>4. ASSUME NEW s \in Session, FindSession(t, s)
      PROVE  BalancerShape'
  <2>1. PICK live \in BOOLEAN :
          /\ selector' = [selector EXCEPT ![t].key = s,
                                          ![t].stage = IF live THEN "entry" ELSE "hash"]
          /\ holder' = IF live THEN [holder EXCEPT ![s] = {t}] ELSE holder
    BY <1>4 DEF FindSession
  <2>2. /\ q.stage = "idle" /\ holder[s] = {}
        /\ UNCHANGED <<notSelecting, backend, session, counter, last, moved>>
    BY <1>4 DEF FindSession
  <2> DEFINE g == IF live THEN "entry" ELSE "hash"
             r == [q EXCEPT !.key = s, !.stage = g]
  <2>3. selector' = [selector EXCEPT ![t] = r]
    BY <1>0, <2>1 DEF SelectorsOK
  <2>4. SelectionOK(r) /\ r.stage = g /\ r.key = s
    BY <1>q, <2>2 DEF SelectionOK, SelectorStages
  <2> HIDE DEF r
  <2>5. CASE ~live
    BY <1>0, <1>s, <2>1, <2>2, <2>3, <2>4, <2>5
  <2>6. CASE live
    <3>1. selector'[t] = r /\ \A u \in Selector \ {t} : selector'[u] = selector[u]
      BY <1>0, <2>3 DEF SelectorsOK
    <3>2. SelectorsOK'
      BY <1>0, <2>3, <2>4, <3>1 DEF SelectorsOK, SelectionOK
    <3>3. HoldersOK'
      <4>1. holder' = [holder EXCEPT ![s] = {t}] /\ r.stage = "entry"
        BY <2>1, <2>4, <2>6
      <4>2. holder' \in [Session -> SUBSET Selector] /\ \A x \in Session : AtMostOneOf(holder'[x])
        BY <1>0, <4>1 DEF HoldersOK, AtMostOneOf
      <4>3. \A u \in Selector, x \in Session :
              u \in holder'[x] <=> selector'[u].stage = "entry" /\ selector'[u].key = x
        BY <1>0, <2>2, <2>4, <3>1, <4>1 DEF HoldersOK
      <4> QED  BY <4>2, <4>3 DEF HoldersOK, AtMostOneOf
    <3> QED
      BY <1>0, <2>2, <3>2, <3>3, SelectFrames DEF BalancerShape, notSelecting
  <2> QED  BY <2>5, <2>6
<1>5. ASSUME FollowSession(t)
      PROVE  BalancerShape'
  <2> DEFINE s == q.key
  <2>1. /\ q.stage = "entry" /\ holder' = [holder EXCEPT ![s] = {}]
        /\ UNCHANGED <<notSelecting, backend, counter>>
    BY <1>5 DEF FollowSession
  <2>2. PICK e \in session[s] :
          \/ /\ Selected(t, s, pool[e.index])
             /\ session' = [session EXCEPT ![s] = {[e EXCEPT !.expired = FALSE]}]
          \/ Goto(t, "hash") /\ UNCHANGED <<session, last, moved>>
    BY <1>5 DEF FollowSession
  <2>3. s \in Session
    BY <1>q, <2>1 DEF SelectionOK
  <2>4. /\ SelectorsOK' /\ \A u \in Selector \ {t} : selector'[u] = selector[u]
        /\ selector'[t].stage # "entry" /\ HistoryOK' /\ SessionsOK'
    <3>1. CASE /\ Selected(t, s, pool[e.index])
               /\ session' = [session EXCEPT ![s] = {[e EXCEPT !.expired = FALSE]}]
      <4>1. e \in SessionEntries
        BY <1>0, <2>2, <2>3 DEF SessionsOK
      <4>2. [e EXCEPT !.expired = FALSE] \in SessionEntries
        BY <4>1 DEF SessionEntries
      <4>3. SessionsOK'
        BY <1>0, <2>3, <3>1, <4>2 DEF SessionsOK, AtMostOneOf
      <4>4. /\ HistoryOK' /\ \A u \in Selector \ {t} : selector'[u] = selector[u]
            /\ selector'[t].stage = "chosen" /\ SelectorsOK'
        BY <2>3, <3>1, SelectedShape
      <4> QED  BY <4>3, <4>4
    <3>2. CASE Goto(t, "hash") /\ UNCHANGED <<session, last, moved>>
      <4> DEFINE r == [q EXCEPT !.stage = "hash"]
      <4>1. selector' = [selector EXCEPT ![t] = r]
        BY <1>0, <3>2 DEF SelectorsOK, Goto
      <4>2. SelectionOK(r) /\ r.stage = "hash"
        BY <1>q, <2>1 DEF SelectionOK, SelectorStages
      <4> HIDE DEF r
      <4>3. selector'[t] = r /\ \A u \in Selector \ {t} : selector'[u] = selector[u]
        BY <1>0, <4>1 DEF SelectorsOK
      <4>4. SelectorsOK'
        BY <1>0, <4>1, <4>2, <4>3 DEF SelectorsOK, SelectionOK
      <4> QED  BY <3>2, <4>2, <4>3, <4>4, SelectFrames
    <3> QED  BY <2>2, <3>1, <3>2
  <2>5. HoldersOK'
    <3>1. holder' \in [Session -> SUBSET Selector] /\ \A x \in Session : AtMostOneOf(holder'[x])
      BY <1>0, <2>1 DEF HoldersOK, AtMostOneOf
    <3>2. \A u \in Selector, x \in Session :
            u \in holder[x] <=> selector[u].stage = "entry" /\ selector[u].key = x
      BY <1>0 DEF HoldersOK
    <3>3. t \in holder[s] /\ AtMostOneOf(holder[s])
      BY <1>0, <2>1, <2>3, <3>2 DEF HoldersOK
    <3>4. holder \in [Session -> SUBSET Selector]
      BY <1>0 DEF HoldersOK
    <3>5. ASSUME NEW u \in Selector, NEW x \in Session
          PROVE  u \in holder'[x] <=> selector'[u].stage = "entry" /\ selector'[u].key = x
      <4>1. CASE u = t
        BY <2>1, <2>3, <2>4, <3>2, <3>4, <4>1
      <4>2. CASE u # t
        BY <2>1, <2>3, <2>4, <3>2, <3>3, <3>4, <4>2 DEF AtMostOneOf
      <4> QED  BY <4>1, <4>2
    <3> QED  BY <3>1, <3>5 DEF HoldersOK, AtMostOneOf
  <2> QED  BY <1>0, <2>1, <2>4, <2>5, SelectFrames DEF BalancerShape, notSelecting
<1>6. ASSUME HashSession(t)
      PROVE  BalancerShape'
  <2> DEFINE i == 1 + (Hash[q.key] % Len(pool))
  <2>1. /\ q.stage = "hash"
        /\ UNCHANGED <<notSelecting, backend, session, holder, counter, last, moved>>
    BY <1>6 DEF HashSession
  <2>2. CASE \E g \in {"forget", "snapshot"} : Goto(t, g)
    <3>1. PICK g \in {"forget", "snapshot"} : Goto(t, g)
      BY <2>2
    <3> DEFINE r == [q EXCEPT !.stage = g]
    <3>2. selector' = [selector EXCEPT ![t] = r]
      BY <1>0, <3>1 DEF SelectorsOK, Goto
    <3>3. SelectionOK(r) /\ r.stage = g
      BY <1>q, <2>1, <3>1 DEF SelectionOK, SelectorStages
    <3> HIDE DEF r
    <3> QED  BY <1>0, <1>s, <2>1, <3>1, <3>2, <3>3
  <2>3. CASE /\ pool # << >>
             /\ selector' = [selector EXCEPT ![t].stage = "upsert", ![t].index = i,
                                             ![t].chosen = pool[i]]
    <3>1. Len(pool) \in Nat \ {0} /\ i \in DOMAIN pool
      <4>1. Len(pool) \in Nat /\ DOMAIN pool = 1..Len(pool) /\ pool \in Seq(1..made)
        BY <1>0, PoolObjects DEF PoolOK
      <4>2. Len(pool) # 0
        BY <2>3, <4>1, EmptySeq
      <4>3. Hash[q.key] \in Nat
        BY <1>q, <2>1, BalancerAssumption DEF SelectionOK
      <4> QED  BY <4>1, <4>2, <4>3
    <3>2. i \in 1..MaxBackends
      BY <1>0, <3>1, PoolObjects
    <3> HIDE DEF i
    <3> DEFINE r == [q EXCEPT !.stage = "upsert", !.index = i, !.chosen = pool[i]]
    <3>3. selector' = [selector EXCEPT ![t] = r]
      BY <1>0, <2>3 DEF SelectorsOK
    <3>4. SelectionOK(r) /\ r.stage = "upsert"
      BY <1>q, <2>1, <3>2 DEF SelectionOK, SelectorStages
    <3> HIDE DEF r
    <3> QED  BY <1>0, <1>s, <2>1, <3>3, <3>4
  <2> QED  BY <1>6, <2>2, <2>3 DEF HashSession
<1>7. ASSUME ForgetSession(t)
      PROVE  BalancerShape'
  <2> DEFINE s == q.key
  <2>1. /\ q.stage = "forget" /\ session' = [session EXCEPT ![s] = {}]
        /\ selector' = [selector EXCEPT ![t] = NotSelecting]
        /\ UNCHANGED <<notSelecting, backend, holder, counter, last, moved>>
    BY <1>7 DEF ForgetSession
  <2>2. (SelectorsOK /\ HoldersOK)'
    BY <1>0, <2>1, SelectionSteps, NotSelectingOK
  <2>3. SessionsOK'
    BY <1>0, <2>1 DEF SessionsOK, AtMostOneOf
  <2> QED  BY <1>0, <2>1, <2>2, <2>3, SelectFrames DEF BalancerShape, notSelecting
<1>8. ASSUME FindIndex(t)
      PROVE  BalancerShape'
  <2> DEFINE same == {i \in DOMAIN pool : backend[pool[i]].addr = backend[q.chosen].addr}
             i == CHOOSE i \in same : \A j \in same : i <= j
  <2>1. /\ q.stage = "find"
        /\ selector' = [selector EXCEPT ![t] =
             IF same = {} THEN NotSelecting ELSE [q EXCEPT !.stage = "upsert", !.index = i]]
        /\ UNCHANGED <<notSelecting, backend, session, holder, counter, last, moved>>
    BY <1>8 DEF FindIndex
  <2>2. CASE same = {}
    BY <1>0, <1>s, <2>1, <2>2, NotSelectingOK
  <2>3. CASE same # {}
    <3>1. i \in same
      BY <1>0, <2>3, PoolObjects, FirstIsThere
    <3>2. i \in 1..MaxBackends
      BY <1>0, <3>1, PoolObjects
    <3> HIDE DEF i
    <3> DEFINE r == [q EXCEPT !.stage = "upsert", !.index = i]
    <3>3. selector' = [selector EXCEPT ![t] = r]
      BY <2>1, <2>3
    <3>4. SelectionOK(r) /\ r.stage = "upsert"
      BY <1>q, <2>1, <3>2 DEF SelectionOK, SelectorStages
    <3> HIDE DEF r
    <3> QED  BY <1>0, <1>s, <2>1, <3>3, <3>4
  <2> QED  BY <2>2, <2>3
<1>9. ASSUME UpsertSession(t)
      PROVE  BalancerShape'
  <2> DEFINE s == q.key
             e == [index |-> q.index, expired |-> FALSE]
  <2>1. /\ q.stage = "upsert" /\ session' = [session EXCEPT ![s] = {e}]
        /\ Selected(t, s, q.chosen)
        /\ UNCHANGED <<notSelecting, backend, holder, counter>>
    BY <1>9 DEF UpsertSession
  <2>2. s \in Session /\ e \in SessionEntries
    BY <1>q, <2>1 DEF SelectionOK, SessionEntries
  <2> HIDE DEF e
  <2>3. SessionsOK'
    BY <1>0, <2>1, <2>2 DEF SessionsOK, AtMostOneOf
  <2>4. /\ HistoryOK' /\ \A u \in Selector \ {t} : selector'[u] = selector[u]
        /\ selector'[t].stage = "chosen" /\ SelectorsOK'
    BY <2>1, <2>2, SelectedShape
  <2>5. HoldersOK'
    BY <1>0, <2>1, <2>4 DEF HoldersOK
  <2> QED  BY <1>0, <2>1, <2>3, <2>4, <2>5, SelectFrames DEF BalancerShape, notSelecting
<1>10. ASSUME NEW connects \in BOOLEAN, Connect(t, connects)
       PROVE  BalancerShape'
  <2> DEFINE o == q.chosen
  <2>1. /\ q.stage = "chosen" /\ (connects => backend[o].conns < MaxConns)
        /\ backend' = IF connects THEN [backend EXCEPT ![o].conns = @ + 1] ELSE backend
        /\ selector' = [selector EXCEPT ![t] = NotSelecting]
        /\ UNCHANGED <<notSelecting, session, holder, counter, last, moved>>
    BY <1>10 DEF Connect
  <2>2. (SelectorsOK /\ HoldersOK)'
    BY <1>0, <2>1, SelectionSteps, NotSelectingOK
  <2>3. PoolOK'
    <3>0. backend \in [Object -> Backends]
      BY <1>0 DEF PoolOK
    <3>1. CASE ~connects \/ o \notin Object
      <4>1. backend' = backend
        BY <2>1, <3>0, <3>1
      <4> QED  BY <2>1, <4>1, SelectFrames DEF notSelecting
    <3>2. CASE connects /\ o \in Object
      <4>1. backend' = [backend EXCEPT ![o] = [backend[o] EXCEPT !.conns = backend[o].conns + 1]]
        BY <2>1, <3>2
      <4>2. backend[o] \in Backends
        BY <3>0, <3>2
      <4>3. backend[o].conns \in 0..MaxConns /\ MaxConns \in Nat
        BY <4>2, BackendWritten, BalancerAssumption
      <4>4. backend[o].conns + 1 \in 0..MaxConns
        BY <2>1, <3>2, <4>3
      <4>5. [backend[o] EXCEPT !.conns = backend[o].conns + 1] \in Backends
        BY <4>2, <4>4, BackendWritten
      <4>6. backend' \in [Object -> Backends]
        BY <3>0, <4>1, <4>5
      <4> QED  BY <1>0, <2>1, <4>6 DEF PoolOK, notSelecting
    <3> QED  BY <3>1, <3>2
  <2> QED  BY <1>0, <2>1, <2>2, <2>3, SelectFrames DEF BalancerShape, notSelecting
<1> QED
  BY <1>1, <1>2, <1>3, <1>4, <1>5, <1>6, <1>7, <1>8, <1>9, <1>10 DEF SelectStep

(* Time, for a session: it expires and is cleaned up.                      *)
LEMMA SessionStepShape ==
  ASSUME BalancerShape, NEW s \in Session, SessionExpires(s) \/ CleanSession(s)
  PROVE  BalancerShape'
<1>0. /\ PoolOK /\ SelectorsOK /\ HoldersOK /\ SessionsOK /\ TasksOK /\ HistoryOK
      /\ counter \in 0..(CounterSize - 1)
  BY DEF BalancerShape
<1>1. UNCHANGED <<notSelecting, backend, holder, selector, counter, moved>>
  BY DEF SessionExpires, CleanSession
<1>2. SessionsOK'
  <2>1. CASE SessionExpires(s)
    <3>1. session' = [session EXCEPT ![s] = {[e EXCEPT !.expired = TRUE] : e \in session[s]}]
      BY <2>1 DEF SessionExpires
    <3> DEFINE Late == {[e EXCEPT !.expired = TRUE] : e \in session[s]}
    <3>2. \A e \in SessionEntries : [e EXCEPT !.expired = TRUE] \in SessionEntries
      BY DEF SessionEntries
    <3> HIDE DEF SessionEntries
    <3>3. session[s] \subseteq SessionEntries /\ AtMostOneOf(session[s])
      BY <1>0 DEF SessionsOK
    <3>4. Late \subseteq SessionEntries
      BY <3>2, <3>3
    <3>5. AtMostOneOf(Late)
      BY <3>3 DEF AtMostOneOf
    <3> HIDE DEF Late
    <3> QED  BY <1>0, <3>1, <3>4, <3>5 DEF SessionsOK, Late
  <2>2. CASE CleanSession(s)
    BY <1>0, <2>2 DEF SessionsOK, CleanSession, AtMostOneOf
  <2> QED  BY <2>1, <2>2
<1>3. HistoryOK'
  BY <1>0, <1>1 DEF HistoryOK, SessionExpires, CleanSession
<1> QED
  BY <1>0, <1>1, <1>2, <1>3, SelectFrames
     DEF BalancerShape, notSelecting, SelectorsOK, HoldersOK

(* So the shape is inductive.                                              *)
LEMMA BalancerStepShape == BalancerShape /\ [BalancerNext]_balancerVars => BalancerShape'
<1> SUFFICES ASSUME BalancerShape, [BalancerNext]_balancerVars
             PROVE  BalancerShape'
  OBVIOUS
<1>1. CASE PoolStep
  BY <1>1, PoolStepShape
<1>2. CASE \E t \in Selector : SelectStep(t)
  BY <1>2, SelectStepShape
<1>3. CASE \E s \in Session : SessionExpires(s) \/ CleanSession(s)
  BY <1>3, SessionStepShape
<1>4. CASE UNCHANGED balancerVars
  BY <1>4 DEF BalancerShape, balancerVars, PoolOK, SelectorsOK, HoldersOK, SessionsOK, TasksOK,
              HistoryOK
<1> QED
  BY <1>1, <1>2, <1>3, <1>4 DEF BalancerNext, PoolStep, SelectStep

(* What the balancer's variables hold, in every state: the backends of the *)
(* vector are in the order they were made, a shard has at most one holder, *)
(* which is a selection that follows its session, and a session at most    *)
(* one entry.                                                              *)
THEOREM BalancerIsTyped == BalancerSafety => []BalancerTypeOK
<1>1. BalancerInit => BalancerShape
  BY BalancerInitShape
<1>2. BalancerShape /\ [BalancerNext]_balancerVars => BalancerShape'
  BY BalancerStepShape
<1>3. BalancerShape => BalancerTypeOK
  BY ShapeIsTyped
<1> QED  BY <1>1, <1>2, <1>3, PTL DEF BalancerSafety

-----------------------------------------------------------------------------
(* A session stays where it is.                                            *)

(* The stages at which what a selection has seen of the vector matters.    *)
Past == {"snapshot", "pick", "find", "upsert", "forget"}

In(o, p) == \E i \in DOMAIN p : p[i] = o

(* What a selection for a session, during which nothing was removed, has   *)
(* taken from the vector still stands there: its list, the backend it      *)
(* chose and the position of one with that address.                        *)
Stands(q, p, b) ==
  q.key # NoSession /\ q.steady =>
    /\ q.stage = "pick" => /\ q.list \in Seq(Object) /\ q.list # << >>
                           /\ \A i \in DOMAIN q.list : In(q.list[i], p)
    /\ q.stage \in {"find", "upsert"} => In(q.chosen, p)
    /\ q.stage = "upsert" => /\ q.index \in DOMAIN p
                             /\ b[p[q.index]].addr = b[q.chosen].addr

(* An entry leads to o, and o is healthy.                                  *)
Leads(es, o, p, b) ==
  /\ \E e \in es : ~e.expired /\ e.index \in DOMAIN p /\ p[e.index] = o
  /\ b[o].healthy

(* A session that has to stay at a backend is led to it, and whoever       *)
(* selects for it holds its shard.                                         *)
StaysPut ==
  \A s \in Session : last[s] # {} =>
    /\ \A o \in last[s] : Leads(session[s], o, pool, backend)
    /\ \A t \in Selector : selector[t].key = s => selector[t].stage = "entry"

(* While a removal is under way, no session has to stay anywhere, and no   *)
(* selection that has seen the vector counts as undisturbed.               *)
RemovalSeen ==
  writer # Unheld => /\ \A s \in Session : last[s] = {}
                     /\ \A t \in Selector : selector[t].stage \in Past => ~selector[t].steady

ChoiceStands == \A t \in Selector : Stands(selector[t], pool, backend)

Sticky == BalancerShape /\ ~moved /\ StaysPut /\ RemovalSeen /\ ChoiceStands

(* What stood in the vector stands in one that has grown.                  *)
LEMMA StandsOn ==
  ASSUME NEW q, NEW p, NEW b, NEW p2, NEW b2, Stands(q, p, b),
         \A i \in DOMAIN p : i \in DOMAIN p2 /\ p2[i] = p[i] /\ b2[p[i]].addr = b[p[i]].addr
  PROVE  Stands(q, p2, b2)
BY DEF Stands, In

(* And an entry leads where it led.                                        *)
LEMMA LeadsOn ==
  ASSUME NEW es, NEW o, NEW p, NEW b, NEW p2, NEW b2, Leads(es, o, p, b),
         \A i \in DOMAIN p : i \in DOMAIN p2 /\ p2[i] = p[i],
         b[o].healthy => b2[o].healthy
  PROVE  Leads(es, o, p2, b2)
BY DEF Leads

(* A step after which the vector has at most grown, no session has to stay *)
(* that had not, no entry of one that has to is touched, and a selection   *)
(* that went on has what it saw from the vector as it is.                  *)
LEMMA StickyAdvance ==
  ASSUME Sticky, BalancerShape',
         \A i \in DOMAIN pool : /\ i \in DOMAIN pool' /\ pool'[i] = pool[i]
                                /\ backend'[pool[i]].addr = backend[pool[i]].addr,
         \A s \in Session : last'[s] # {} =>
           /\ last'[s] \subseteq last[s] /\ session'[s] = session[s]
           /\ \A o \in last'[s] : backend[o].healthy => backend'[o].healthy,
         \A u \in Selector :
           \/ selector'[u] = selector[u]
           \/ /\ Stands(selector'[u], pool', backend')
              /\ writer' # Unheld /\ selector'[u].stage \in Past => ~selector'[u].steady
              /\ \A s \in Session :
                   last'[s] # {} /\ selector'[u].key = s => selector'[u].stage = "entry",
         writer' = writer \/ writer' = Unheld,
         moved' = moved
  PROVE  Sticky'
<1>0. ~moved /\ StaysPut /\ RemovalSeen /\ ChoiceStands
  BY DEF Sticky
<1>1. \A t \in Selector : Stands(selector'[t], pool', backend')
  <2> SUFFICES ASSUME NEW t \in Selector
               PROVE  Stands(selector'[t], pool', backend')
    OBVIOUS
  <2>1. Stands(selector[t], pool, backend)
    BY <1>0 DEF ChoiceStands
  <2>2. Stands(selector[t], pool', backend')
    BY <2>1, StandsOn
  <2> QED  BY <2>2
<1>2. ASSUME NEW s \in Session, last'[s] # {}
      PROVE  /\ \A o \in last'[s] : Leads(session'[s], o, pool', backend')
             /\ \A t \in Selector : selector'[t].key = s => selector'[t].stage = "entry"
  <2>1. /\ last[s] # {} /\ last'[s] \subseteq last[s] /\ session'[s] = session[s]
        /\ \A o \in last'[s] : backend[o].healthy => backend'[o].healthy
    BY <1>2
  <2>2. /\ \A o \in last[s] : Leads(session[s], o, pool, backend)
        /\ \A t \in Selector : selector[t].key = s => selector[t].stage = "entry"
    BY <1>0, <2>1 DEF StaysPut
  <2>3. ASSUME NEW o \in last'[s]
        PROVE  Leads(session'[s], o, pool', backend')
    <3>1. Leads(session[s], o, pool, backend) /\ (backend[o].healthy => backend'[o].healthy)
      BY <2>1, <2>2
    <3>2. Leads(session[s], o, pool', backend')
      BY <3>1, LeadsOn
    <3> QED  BY <2>1, <3>2
  <2> QED  BY <1>2, <2>2, <2>3
<1>3. RemovalSeen'
  <2> SUFFICES ASSUME writer' # Unheld
               PROVE  /\ \A s \in Session : last'[s] = {}
                      /\ \A t \in Selector : selector'[t].stage \in Past => ~selector'[t].steady
    BY DEF RemovalSeen, Unheld, Past
  <2>1. writer # Unheld
    BY DEF Unheld
  <2>2. /\ \A s \in Session : last[s] = {}
        /\ \A t \in Selector : selector[t].stage \in Past => ~selector[t].steady
    BY <1>0, <2>1 DEF RemovalSeen
  <2>3. \A s \in Session : last'[s] = {}
    BY <2>2
  <2> QED  BY <2>2, <2>3
<1> QED
  BY <1>0, <1>1, <1>2, <1>3 DEF Sticky, StaysPut, ChoiceStands, Stands, Leads, In

(* The same, for steps that leave the selections alone ...                 *)
LEMMA StickyPool ==
  ASSUME Sticky, BalancerShape',
         \A i \in DOMAIN pool : /\ i \in DOMAIN pool' /\ pool'[i] = pool[i]
                                /\ backend'[pool[i]].addr = backend[pool[i]].addr,
         \A s \in Session : last'[s] # {} =>
           /\ last'[s] \subseteq last[s] /\ session'[s] = session[s]
           /\ \A o \in last'[s] : backend[o].healthy => backend'[o].healthy,
         selector' = selector, writer' = writer \/ writer' = Unheld, moved' = moved
  PROVE  Sticky'
BY StickyAdvance

(* ... and for steps of one selection that has not ended.                  *)
LEMMA StickySelection ==
  ASSUME Sticky, BalancerShape', NEW t \in Selector, NEW r,
         selector' = [selector EXCEPT ![t] = r],
         Stands(r, pool, backend),
         writer # Unheld /\ r.stage \in Past => ~r.steady,
         \A s \in Session : last[s] # {} =>
           (r.key = s => r.stage = "entry") /\ session'[s] = session[s],
         pool' = pool, backend' = backend, last' = last, writer' = writer, moved' = moved
  PROVE  Sticky'
<1>1. selector'[t] = r /\ \A u \in Selector \ {t} : selector'[u] = selector[u]
  BY DEF Sticky, BalancerShape, SelectorsOK
<1>2. \A u \in Selector :
        \/ selector'[u] = selector[u]
        \/ /\ Stands(selector'[u], pool', backend')
           /\ writer' # Unheld /\ selector'[u].stage \in Past => ~selector'[u].steady
           /\ \A s \in Session :
                last'[s] # {} /\ selector'[u].key = s => selector'[u].stage = "entry"
  BY <1>1
<1> QED  BY <1>2, StickyAdvance

(* At first no session has to stay anywhere.                               *)
LEMMA StickyInit == BalancerInit => Sticky
<1> SUFFICES ASSUME BalancerInit
             PROVE  Sticky
  OBVIOUS
<1>1. BalancerShape
  BY BalancerInitShape
<1>2. \A t \in Selector : Stands(selector[t], pool, backend)
  BY NotSelectingOK DEF BalancerInit, Stands
<1>3. StaysPut /\ RemovalSeen /\ ~moved
  BY DEF BalancerInit, StaysPut, RemovalSeen
<1> QED  BY <1>1, <1>2, <1>3 DEF Sticky, ChoiceStands

(* No step of a drain task, of the health checker or of the administration *)
(* moves a session that has to stay: a removal, and a probe that found its *)
(* backend unhealthy, first release it.                                    *)
LEMMA PoolStepSticky == Sticky /\ PoolStep => Sticky'
<1> SUFFICES ASSUME Sticky, PoolStep
             PROVE  Sticky'
  OBVIOUS
<1>0. BalancerShape /\ BalancerShape' /\ PoolOK
  BY PoolStepShape DEF Sticky, BalancerShape
<1>b. /\ backend \in [Object -> Backends] /\ pool \in Seq(1..made) /\ made \in Nat
      /\ \A i \in DOMAIN pool : pool[i] \in 1..made /\ pool[i] \in Object
      /\ DOMAIN pool = 1..Len(pool) /\ Len(pool) \in Nat
  BY <1>0, PoolObjects DEF PoolOK
<1>s. ASSUME UNCHANGED <<session, selector, last, moved>>, writer' = writer \/ writer' = Unheld,
             \A i \in DOMAIN pool : /\ i \in DOMAIN pool' /\ pool'[i] = pool[i]
                                    /\ backend'[pool[i]].addr = backend[pool[i]].addr,
             \A o : (\E i \in DOMAIN pool : pool[i] = o) =>
                (backend[o].healthy => backend'[o].healthy)
      PROVE  Sticky'
  <2>1. ASSUME NEW s \in Session, last'[s] # {}, NEW o \in last'[s]
        PROVE  backend[o].healthy => backend'[o].healthy
    <3>1. Leads(session[s], o, pool, backend)
      BY <1>s, <2>1 DEF Sticky, StaysPut
    <3> QED  BY <1>s, <3>1 DEF Leads
  <2> QED  BY <1>0, <1>s, <2>1, StickyPool
<1>w. ASSUME UNCHANGED <<session, selector, last, moved, pool>>,
             writer' = writer \/ writer' = Unheld,
             NEW o \in Object, NEW b, b.addr = backend[o].addr, b.healthy = backend[o].healthy,
             backend' = [backend EXCEPT ![o] = b]
      PROVE  Sticky'
  <2>1. \A x : backend'[x].addr = backend[x].addr /\ (backend[x].healthy => backend'[x].healthy)
    <3> SUFFICES ASSUME NEW x
                 PROVE  /\ backend'[x].addr = backend[x].addr
                        /\ (backend[x].healthy => backend'[x].healthy)
      OBVIOUS
    <3>1. CASE x = o
      BY <1>b, <1>w, <3>1
    <3>2. CASE x # o /\ x \in Object
      BY <1>b, <1>w, <3>2
    <3> QED  BY <1>b, <1>w, <3>1, <3>2
  <2> QED  BY <1>s, <1>w, <2>1
<1>1. ASSUME NEW a \in Addr, Add(a)
      PROVE  Sticky'
  <2>1. /\ backend' = [backend EXCEPT ![made + 1] = NewBackend(a)]
        /\ pool' = Append(pool, made + 1)
        /\ UNCHANGED <<writer, session, selector, last, moved>>
    BY <1>1 DEF Add, unselecting
  <2>2. \A i \in DOMAIN pool : i \in DOMAIN pool' /\ pool'[i] = pool[i]
    <3>1. pool \in Seq(Nat) /\ made + 1 \in Nat
      <4>1. Len(pool) \in Nat /\ pool \in [1..Len(pool) -> Nat]
        BY <1>b, LenProperties
      <4> QED  BY <1>b, <4>1, SeqDef
    <3> QED  BY <1>b, <2>1, <3>1, AppendProperties
  <2>3. \A i \in DOMAIN pool : backend'[pool[i]] = backend[pool[i]]
    BY <1>b, <2>1
  <2> QED  BY <1>s, <2>1, <2>2, <2>3
<1>2. ASSUME NEW a \in Addr, Drain(a)
      PROVE  Sticky'
  <2>1. PICK i \in DOMAIN pool : backend' = [backend EXCEPT ![pool[i]].draining = TRUE]
    BY <1>2 DEF Drain
  <2> DEFINE o == pool[i]
             b == [backend[o] EXCEPT !.draining = TRUE]
  <2>2. o \in Object /\ backend[o] \in Backends
    BY <1>b
  <2>3. b.addr = backend[o].addr /\ b.healthy = backend[o].healthy
    BY <2>2 DEF Backends
  <2>4. backend' = [backend EXCEPT ![o] = b]
    BY <2>1
  <2> HIDE DEF b
  <2> QED  BY <1>2, <1>w, <2>2, <2>3, <2>4 DEF Drain, unselecting
<1>3. ASSUME UNCHANGED <<backend, pool, unselecting>>, writer' = writer \/ writer' = Unheld
      PROVE  Sticky'
  BY <1>s, <1>3 DEF unselecting
<1>4. ASSUME NEW o \in Object, StartRemove(o)
      PROVE  Sticky'
  <2>1. /\ \A s \in Session : last'[s] = {}
        /\ selector' = [t \in Selector |->
             [selector[t] EXCEPT !.steady = selector[t].stage \in {"idle", "chosen"}]]
        /\ moved' = moved
    BY <1>4 DEF StartRemove
  <2>2. ASSUME NEW t \in Selector
        PROVE  /\ selector'[t].key # NoSession => ~selector'[t].steady
               /\ selector'[t].stage \in Past => ~selector'[t].steady
    <3> DEFINE g == selector[t].stage \in {"idle", "chosen"}
    <3>1. SelectionOK(selector[t])
      BY <1>0 DEF BalancerShape, SelectorsOK
    <3>2. selector'[t] = [selector[t] EXCEPT !.steady = g]
      BY <2>1
    <3>3. g => selector[t].key = NoSession /\ selector[t].stage \notin Past
      BY <3>1 DEF SelectionOK, Past
    <3> HIDE DEF g
    <3> QED  BY <3>1, <3>2, <3>3 DEF SelectionOK
  <2> QED
    BY <1>0, <2>1, <2>2 DEF Sticky, StaysPut, RemovalSeen, ChoiceStands, Stands
<1>5. ASSUME NEW o \in Object, NEW s \in Session, SweepShard(o, s)
      PROVE  Sticky'
  <2>1. UNCHANGED <<backend, pool, writer, selector, last, moved>> /\ writer = o
    BY <1>5 DEF SweepShard
  <2>2. writer # Unheld
    BY <2>1 DEF Object, Unheld
  <2>3. \A x \in Session : last'[x] = {}
    BY <2>1, <2>2 DEF Sticky, RemovalSeen
  <2> QED  BY <1>0, <2>1, <2>3, StickyPool
<1>6. ASSUME NEW o \in Object, FinishRemove(o)
      PROVE  Sticky'
  BY <1>3, <1>6 DEF FinishRemove
<1>7. ASSUME NEW o \in Object, Disconnect(o)
      PROVE  Sticky'
  <2> DEFINE b == [backend[o] EXCEPT !.conns = backend[o].conns - 1]
  <2>1. backend' = [backend EXCEPT ![o] = b] /\ UNCHANGED <<notSelecting, unselecting>>
    BY <1>7 DEF Disconnect
  <2>2. backend[o] \in Backends
    BY <1>b
  <2>3. b.addr = backend[o].addr /\ b.healthy = backend[o].healthy
    BY <2>2 DEF Backends
  <2> HIDE DEF b
  <2> QED  BY <1>w, <2>1, <2>3 DEF notSelecting, unselecting
<1>8. ASSUME NEW o \in Object, SetHealthy(o)
      PROVE  Sticky'
  <2> DEFINE h == checks[o] = "good"
  <2>1. /\ backend' = [backend EXCEPT ![o] = [backend[o] EXCEPT !.healthy = h]]
        /\ last' = [s \in Session |-> IF checks[o] = "bad" THEN last[s] \ {o} ELSE last[s]]
        /\ UNCHANGED <<pool, writer, session, selector, moved>>
        /\ (h \/ checks[o] = "bad")
    BY <1>8 DEF SetHealthy
  <2>2. h \in BOOLEAN /\ backend[o] \in Backends
    BY <1>b
  <2> HIDE DEF h
  <2>3. \A x : x # o => backend'[x] = backend[x]
    BY <1>b, <2>1
  <2>4. backend'[o].addr = backend[o].addr /\ backend'[o].healthy = h
    BY <1>b, <2>1, <2>2 DEF Backends
  <2>5. \A i \in DOMAIN pool : backend'[pool[i]].addr = backend[pool[i]].addr
    BY <2>3, <2>4
  <2>6. \A s \in Session : /\ last'[s] \subseteq last[s]
                           /\ \A x \in last'[s] : backend[x].healthy => backend'[x].healthy
    BY <2>1, <2>3, <2>4
  <2> QED  BY <1>0, <2>1, <2>5, <2>6, StickyPool
<1> QED
  BY <1>1, <1>2, <1>3, <1>4, <1>5, <1>6, <1>7, <1>8
     DEF PoolStep, DrainTask, HealthChecker, UpOrDown, TimeUp, StartRound, Probe

(* Two positions with one address are what Twice counts.                   *)
LEMMA OnceIsOnePosition ==
  ASSUME PoolOK, NEW i \in DOMAIN pool, NEW j \in DOMAIN pool, NEW a,
         backend[pool[i]].addr = a, backend[pool[j]].addr = a, ~Twice(a)
  PROVE  i = j
<1> DEFINE S == {k \in DOMAIN pool : backend[pool[k]].addr = a}
<1>1. SUFFICES ASSUME i # j
               PROVE  FALSE
  OBVIOUS
<1>2. DOMAIN pool = 1..Len(pool) /\ Len(pool) \in Nat
  BY PoolObjects
<1>3. IsFiniteSet(S) /\ Cardinality(S) \in Nat
  BY <1>2, PartIsFinite
<1>4. IsFiniteSet({i}) /\ Cardinality({i}) = 1
  BY FS_Singleton
<1>5. Cardinality({i} \cup {j}) = 2
  <2> DEFINE One == {i}
  <2>1. IsFiniteSet(One) /\ Cardinality(One) = 1 /\ j \notin One
    BY <1>1, <1>4
  <2> HIDE DEF One
  <2>2. Cardinality(One \cup {j}) = Cardinality(One) + 1
    BY <2>1, FS_AddElement
  <2> QED  BY <2>1, <2>2 DEF One
<1>6. {i} \cup {j} \subseteq S
  OBVIOUS
<1>7. 2 <= Cardinality(S)
  BY <1>3, <1>5, <1>6, FS_Subset
<1> QED  BY <1>3, <1>7 DEF Twice

(* A selection that ends where its session had to stay, if anywhere.       *)
LEMMA SelectedSticky ==
  ASSUME Sticky, BalancerShape', NEW t \in Selector, NEW s \in Session, NEW o,
         Selected(t, s, o), UNCHANGED <<pool, backend, writer>>,
         \A x \in Session \ {s} : session'[x] = session[x],
         last[s] = {} \/ o \in last[s],
         selector[t].steady /\ backend[o].healthy /\ ~Twice(backend[o].addr)
           => Leads(session'[s], o, pool, backend) /\ writer = Unheld
  PROVE  Sticky'
<1>0. BalancerShape /\ ~moved /\ StaysPut /\ RemovalSeen /\ ChoiceStands
  BY DEF Sticky
<1>1. /\ \A u \in Selector \ {t} : selector'[u] = selector[u]
      /\ selector'[t].stage = "chosen" /\ selector'[t].key = NoSession
  BY <1>0, SelectedShape
<1>2. ~moved'
  BY <1>0 DEF Selected
<1> DEFINE stays == /\ selector[t].steady
                    /\ backend[o].healthy
                    /\ ~Twice(backend[o].addr)
                    /\ \A x \in Selector \ {t} : selector[x].key # s
<1>3. last' = [last EXCEPT ![s] = IF stays THEN {o} ELSE {}]
  BY DEF Selected
<1> HIDE DEF stays
<1>4. /\ \A x \in Session \ {s} : last'[x] = last[x]
      /\ last'[s] = IF stays THEN {o} ELSE {}
  BY <1>0, <1>3 DEF BalancerShape, HistoryOK
<1>5. StaysPut'
  <2> SUFFICES ASSUME NEW x \in Session, last'[x] # {}
               PROVE  /\ \A y \in last'[x] : Leads(session'[x], y, pool', backend')
                      /\ \A u \in Selector : selector'[u].key = x => selector'[u].stage = "entry"
    BY DEF StaysPut, Leads
  <2>1. NoSession # x
    BY BalancerAssumption
  <2>2. CASE x = s
    <3>1. stays /\ last'[s] = {o}
      BY <1>4, <2>2
    <3>2. Leads(session'[s], o, pool', backend')
      BY <3>1 DEF stays
    <3>3. \A u \in Selector \ {t} : selector[u].key # s
      BY <3>1 DEF stays
    <3> QED  BY <1>1, <2>1, <2>2, <3>1, <3>2, <3>3
  <2>3. CASE x # s
    <3>1. last'[x] = last[x] /\ session'[x] = session[x]
      BY <1>4, <2>3
    <3>2. /\ \A y \in last[x] : Leads(session[x], y, pool, backend)
          /\ \A u \in Selector : selector[u].key = x => selector[u].stage = "entry"
      BY <1>0, <3>1 DEF StaysPut
    <3> QED  BY <1>1, <2>1, <3>1, <3>2
  <2> QED  BY <2>2, <2>3
<1>6. RemovalSeen'
  <2> SUFFICES ASSUME writer # Unheld
               PROVE  /\ \A x \in Session : last'[x] = {}
                      /\ \A u \in Selector : selector'[u].stage \in Past => ~selector'[u].steady
    BY DEF RemovalSeen, Unheld, Past
  <2>1. /\ \A x \in Session : last[x] = {}
        /\ \A u \in Selector : selector[u].stage \in Past => ~selector[u].steady
    BY <1>0 DEF RemovalSeen
  <2>2. \A x \in Session : last'[x] = {}
    BY <1>4, <2>1 DEF stays
  <2> QED  BY <1>1, <2>1, <2>2 DEF Past
<1>7. ChoiceStands'
  <2>1. \A u \in Selector : Stands(selector'[u], pool', backend')
    BY <1>0, <1>1 DEF ChoiceStands, Stands
  <2> QED  BY <2>1 DEF ChoiceStands, Stands, In
<1> QED  BY <1>2, <1>5, <1>6, <1>7 DEF Sticky

(* A step of one selection keeps it all.                                   *)
LEMMA SelectStepSticky ==
  ASSUME Sticky, NEW t \in Selector, SelectStep(t)
  PROVE  Sticky'
<1> DEFINE q == selector[t]
<1>0. /\ BalancerShape /\ BalancerShape' /\ PoolOK /\ SelectorsOK
      /\ ~moved /\ StaysPut /\ RemovalSeen /\ ChoiceStands
  BY SelectStepShape DEF Sticky, BalancerShape
<1>q. SelectionOK(q) /\ Stands(q, pool, backend)
  BY <1>0 DEF SelectorsOK, ChoiceStands
<1>b. /\ DOMAIN pool = 1..Len(pool) /\ Len(pool) \in Nat
      /\ \A i \in DOMAIN pool : pool[i] \in Object
      /\ backend \in [Object -> Backends]
  BY <1>0, PoolObjects DEF PoolOK
<1>e. ASSUME q.key \in Session, q.stage # "entry"
      PROVE  last[q.key] = {}
  BY <1>0, <1>e DEF StaysPut
<1>n. /\ NotSelecting.key = NoSession /\ NotSelecting.stage = "idle"
      /\ Stands(NotSelecting, pool, backend)
      /\ NoSession \notin Session
  BY NotSelectingOK, BalancerAssumption DEF Stands
<1>s. ASSUME NEW r, selector' = [selector EXCEPT ![t] = r],
             q.stage # "entry", r.key = q.key \/ r.key = NoSession,
             Stands(r, pool, backend),
             writer # Unheld /\ r.stage \in Past => ~r.steady,
             UNCHANGED <<pool, backend, session, last, writer, moved>>
      PROVE  Sticky'
  <2>1. \A s \in Session : last[s] # {} => (r.key = s => r.stage = "entry")
    BY <1>s, <1>e, <1>n
  <2> QED  BY <1>0, <1>s, <2>1, StickySelection
<1>1. ASSUME NEW weighted \in BOOLEAN, Snapshot(t, weighted)
      PROVE  Sticky'
  <2> DEFINE list == IF weighted THEN Expanded(RoutableList) ELSE RoutableList
  <2>1. /\ writer = Unheld
        /\ q.stage = "idle" \/ (q.stage = "snapshot" /\ ~weighted)
        /\ selector' = [selector EXCEPT
             ![t] = IF list = << >> THEN NotSelecting
                    ELSE [@ EXCEPT !.stage = "pick", !.list = list]]
        /\ UNCHANGED <<pool, backend, session, last, writer, moved>>
    BY <1>1 DEF Snapshot, notSelecting
  <2>2. q.stage = "idle" => q.key = NoSession
    BY <1>q DEF SelectionOK
  <2>3. ~weighted => list \in Seq(Object) /\ \A i \in DOMAIN list : In(list[i], pool)
    <3> DEFINE S == {o \in Object : InPool(o) /\ Routable(o)}
    <3>1. /\ InOrder(S) \in Seq(1..made)
          /\ {InOrder(S)[i] : i \in DOMAIN InOrder(S)} = S
      BY <1>0, KeptInPool
    <3>2. InOrder(S) \in Seq(Object) /\ \A i \in DOMAIN InOrder(S) : InPool(InOrder(S)[i])
      <4> DEFINE l == InOrder(S)
      <4>1. l \in Seq(1..made) /\ \A i \in DOMAIN l : l[i] \in S
        BY <3>1
      <4> HIDE DEF l
      <4>2. Len(l) \in Nat /\ l \in [1..Len(l) -> 1..made]
        BY <4>1, LenProperties
      <4>3. l \in [1..Len(l) -> Object]
        BY <4>1, <4>2
      <4>4. l \in Seq(Object)
        BY <4>2, <4>3, SeqDef
      <4> QED  BY <4>1, <4>4 DEF l
    <3> QED  BY <3>2 DEF RoutableList, InPool, In
  <2> HIDE DEF list
  <2>4. CASE list = << >>
    BY <1>n, <1>s, <2>1, <2>4
  <2>5. CASE list # << >>
    <3> DEFINE r == [q EXCEPT !.stage = "pick", !.list = list]
    <3>1. selector' = [selector EXCEPT ![t] = r]
      BY <2>1, <2>5
    <3>2. r.key = q.key /\ r.stage = "pick" /\ r.list = list
      BY <1>q DEF SelectionOK
    <3> HIDE DEF r
    <3>3. Stands(r, pool, backend)
      BY <2>1, <2>2, <2>3, <2>5, <3>2 DEF Stands
    <3> QED  BY <1>s, <2>1, <3>1, <3>2, <3>3
  <2> QED  BY <2>4, <2>5
<1>2. ASSUME Pick(t)
      PROVE  Sticky'
  <2> DEFINE i == 1 + (counter % Len(q.list))
             g == IF q.key = NoSession THEN "chosen" ELSE "find"
             r == [q EXCEPT !.chosen = q.list[i], !.list = << >>, !.stage = g]
  <2>1. /\ q.stage = "pick" /\ selector' = [selector EXCEPT ![t] = r]
        /\ UNCHANGED <<pool, backend, session, last, writer, moved>>
    BY <1>2 DEF Pick, notSelecting
  <2>2. q.key # NoSession /\ q.steady => In(q.list[i], pool)
    <3> SUFFICES ASSUME q.key # NoSession, q.steady
                 PROVE  In(q.list[i], pool)
      OBVIOUS
    <3>1. /\ q.list \in Seq(Object) /\ q.list # << >>
          /\ \A j \in DOMAIN q.list : In(q.list[j], pool)
      BY <1>q, <2>1 DEF Stands
    <3> DEFINE n == Len(q.list)
    <3>2. n \in Nat \ {0} /\ DOMAIN q.list = 1..n
      BY <3>1, LenProperties, EmptySeq
    <3>3. counter \in Nat
      BY <1>0, BalancerAssumption DEF BalancerShape
    <3> HIDE DEF n
    <3>4. 1 + (counter % n) \in 1..n
      BY <3>2, <3>3
    <3> QED  BY <3>1, <3>2, <3>4 DEF n
  <2> HIDE DEF i
  <2>3. /\ r.key = q.key /\ r.stage = g /\ r.chosen = q.list[i] /\ r.steady = q.steady
    BY <1>q DEF SelectionOK
  <2> HIDE DEF r
  <2>4. Stands(r, pool, backend)
    BY <2>2, <2>3 DEF Stands
  <2>5. writer # Unheld => ~q.steady
    BY <1>0, <2>1 DEF RemovalSeen, Past
  <2> QED  BY <1>s, <2>1, <2>3, <2>4, <2>5
<1>3. ASSUME LeastConnections(t)
      PROVE  Sticky'
  <2>1. PICK o : selector' = [selector EXCEPT ![t].stage = "chosen", ![t].chosen = o]
    BY <1>3 DEF LeastConnections
  <2> DEFINE r == [q EXCEPT !.stage = "chosen", !.chosen = o]
  <2>2. selector' = [selector EXCEPT ![t] = r]
    BY <1>0, <2>1 DEF SelectorsOK
  <2>3. q.stage = "idle" /\ UNCHANGED <<pool, backend, session, last, writer, moved>>
    BY <1>3 DEF LeastConnections, notSelecting
  <2>4. r.key = NoSession /\ r.stage = "chosen"
    BY <1>q, <2>3 DEF SelectionOK
  <2> HIDE DEF r
  <2> QED  BY <1>s, <2>2, <2>3, <2>4 DEF Stands, Past
<1>4. ASSUME NEW s \in Session, FindSession(t, s)
      PROVE  Sticky'
  <2>1. PICK live \in BOOLEAN :
          /\ live <=> \E e \in session[s] : ~e.expired
          /\ selector' = [selector EXCEPT ![t].key = s,
                                          ![t].stage = IF live THEN "entry" ELSE "hash"]
    BY <1>4 DEF FindSession
  <2>2. q.stage = "idle" /\ UNCHANGED <<pool, backend, session, last, writer, moved>>
    BY <1>4 DEF FindSession, notSelecting
  <2> DEFINE g == IF live THEN "entry" ELSE "hash"
             r == [q EXCEPT !.key = s, !.stage = g]
  <2>3. selector' = [selector EXCEPT ![t] = r]
    BY <1>0, <2>1 DEF SelectorsOK
  <2>4. r.key = s /\ r.stage = g
    BY <1>q DEF SelectionOK
  <2> HIDE DEF r
  <2>5. \A x \in Session : last[x] # {} => (r.key = x => r.stage = "entry")
    <3> SUFFICES ASSUME last[s] # {}
                 PROVE  live
      BY <2>4
    <3>1. PICK o \in last[s] : Leads(session[s], o, pool, backend)
      BY <1>0 DEF StaysPut
    <3> QED  BY <2>1, <3>1 DEF Leads
  <2>6. Stands(r, pool, backend) /\ r.stage \notin Past
    BY <2>4 DEF Stands, Past
  <2> QED  BY <1>0, <2>2, <2>3, <2>5, <2>6, StickySelection
<1>5. ASSUME FollowSession(t)
      PROVE  Sticky'
  <2> DEFINE s == q.key
  <2>1. /\ q.stage = "entry" /\ writer = Unheld
        /\ UNCHANGED <<pool, backend, writer>>
    BY <1>5 DEF FollowSession, notSelecting
  <2>2. PICK e \in session[s] :
          IF e.index <= Len(pool) /\ backend[pool[e.index]].healthy
          THEN /\ Selected(t, s, pool[e.index])
               /\ session' = [session EXCEPT ![s] = {[e EXCEPT !.expired = FALSE]}]
          ELSE Goto(t, "hash") /\ UNCHANGED <<session, last, moved>>
    BY <1>5 DEF FollowSession
  <2>3. s \in Session /\ session \in [Session -> SUBSET SessionEntries] /\ AtMostOneOf(session[s])
    BY <1>0, <1>q, <2>1 DEF BalancerShape, SelectionOK, SessionsOK
  <2>4. e \in SessionEntries /\ e.index \in Nat \ {0}
    BY <2>2, <2>3 DEF SessionEntries
  <2>5. \A o \in last[s] : /\ e.index \in DOMAIN pool /\ pool[e.index] = o
                           /\ backend[o].healthy
    <3> SUFFICES ASSUME NEW o \in last[s]
                 PROVE  /\ e.index \in DOMAIN pool /\ pool[e.index] = o
                        /\ backend[o].healthy
      OBVIOUS
    <3>1. Leads(session[s], o, pool, backend)
      BY <1>0, <2>3 DEF StaysPut
    <3> QED  BY <2>2, <2>3, <3>1 DEF Leads, AtMostOneOf
  <2>6. CASE e.index <= Len(pool) /\ backend[pool[e.index]].healthy
    <3> DEFINE o == pool[e.index]
    <3>1. /\ Selected(t, s, o)
          /\ session' = [session EXCEPT ![s] = {[e EXCEPT !.expired = FALSE]}]
      BY <2>2, <2>6
    <3>2. e.index \in DOMAIN pool
      BY <1>b, <2>4, <2>6
    <3>3. last[s] = {} \/ o \in last[s]
      BY <2>5
    <3>4. Leads(session'[s], o, pool, backend)
      <4> DEFINE f == [e EXCEPT !.expired = FALSE]
      <4>1. session'[s] = {f} /\ f.index = e.index /\ f.expired = FALSE
        BY <2>3, <2>4, <3>1 DEF SessionEntries
      <4> QED  BY <2>6, <3>2, <4>1 DEF Leads
    <3>5. \A x \in Session \ {s} : session'[x] = session[x]
      BY <2>3, <3>1
    <3> QED  BY <1>0, <2>1, <2>3, <3>1, <3>3, <3>4, <3>5, SelectedSticky
  <2>7. CASE ~(e.index <= Len(pool) /\ backend[pool[e.index]].healthy)
    <3>1. Goto(t, "hash") /\ UNCHANGED <<session, last, moved>>
      BY <2>2, <2>7
    <3> DEFINE r == [q EXCEPT !.stage = "hash"]
    <3>2. selector' = [selector EXCEPT ![t] = r]
      BY <1>0, <3>1 DEF SelectorsOK, Goto
    <3>3. r.key = s /\ r.stage = "hash"
      BY <1>q DEF SelectionOK
    <3> HIDE DEF r
    <3>4. last[s] = {}
      BY <1>b, <2>5, <2>7, <2>4
    <3> QED  BY <1>0, <2>1, <3>1, <3>2, <3>3, <3>4, StickySelection DEF Stands, Past
  <2> QED  BY <2>6, <2>7
<1>6. ASSUME HashSession(t)
      PROVE  Sticky'
  <2> DEFINE i == 1 + (Hash[q.key] % Len(pool))
  <2>1. /\ q.stage = "hash" /\ writer = Unheld
        /\ UNCHANGED <<pool, backend, session, last, writer, moved>>
    BY <1>6 DEF HashSession, notSelecting
  <2>2. CASE \E g \in {"forget", "snapshot"} : Goto(t, g)
    <3>1. PICK g \in {"forget", "snapshot"} : Goto(t, g)
      BY <2>2
    <3> DEFINE r == [q EXCEPT !.stage = g]
    <3>2. selector' = [selector EXCEPT ![t] = r]
      BY <1>0, <3>1 DEF SelectorsOK, Goto
    <3>3. r.key = q.key /\ r.stage = g
      BY <1>q DEF SelectionOK
    <3> HIDE DEF r
    <3>4. Stands(r, pool, backend)
      BY <3>1, <3>3 DEF Stands
    <3> QED  BY <1>s, <2>1, <3>2, <3>3, <3>4
  <2>3. CASE /\ pool # << >>
             /\ selector' = [selector EXCEPT ![t].stage = "upsert", ![t].index = i,
                                             ![t].chosen = pool[i]]
    <3>1. i \in DOMAIN pool
      <4>1. Len(pool) # 0
        BY <1>0, <2>3, EmptySeq DEF PoolOK
      <4>2. Hash[q.key] \in Nat
        BY <1>q, <2>1, BalancerAssumption DEF SelectionOK
      <4> QED  BY <1>b, <4>1, <4>2
    <3> HIDE DEF i
    <3> DEFINE r == [q EXCEPT !.stage = "upsert", !.index = i, !.chosen = pool[i]]
    <3>2. selector' = [selector EXCEPT ![t] = r]
      BY <1>0, <2>3 DEF SelectorsOK
    <3>3. r.key = q.key /\ r.stage = "upsert" /\ r.index = i /\ r.chosen = pool[i]
      BY <1>q DEF SelectionOK
    <3> HIDE DEF r
    <3>4. Stands(r, pool, backend)
      BY <3>1, <3>3 DEF Stands, In
    <3> QED  BY <1>s, <2>1, <3>2, <3>3, <3>4
  <2> QED  BY <1>6, <2>2, <2>3 DEF HashSession
<1>7. ASSUME ForgetSession(t)
      PROVE  Sticky'
  <2> DEFINE s == q.key
  <2>1. /\ q.stage = "forget" /\ session' = [session EXCEPT ![s] = {}]
        /\ selector' = [selector EXCEPT ![t] = NotSelecting]
        /\ UNCHANGED <<pool, backend, last, writer, moved>>
    BY <1>7 DEF ForgetSession, notSelecting
  <2>2. s \in Session /\ session \in [Session -> SUBSET SessionEntries]
    BY <1>0, <1>q, <2>1 DEF SelectionOK, BalancerShape, SessionsOK
  <2>3. \A x \in Session : last[x] # {} => session'[x] = session[x]
    BY <1>e, <2>1, <2>2
  <2> QED  BY <1>0, <1>n, <2>1, <2>3, StickySelection DEF Past
<1>8. ASSUME FindIndex(t)
      PROVE  Sticky'
  <2> DEFINE same == {i \in DOMAIN pool : backend[pool[i]].addr = backend[q.chosen].addr}
             i == CHOOSE i \in same : \A j \in same : i <= j
  <2>1. /\ q.stage = "find" /\ writer = Unheld
        /\ selector' = [selector EXCEPT ![t] =
             IF same = {} THEN NotSelecting ELSE [q EXCEPT !.stage = "upsert", !.index = i]]
        /\ UNCHANGED <<pool, backend, session, last, writer, moved>>
    BY <1>8 DEF FindIndex, notSelecting
  <2>2. CASE same = {}
    BY <1>n, <1>s, <2>1, <2>2
  <2>3. CASE same # {}
    <3>1. i \in same
      BY <1>b, <2>3, FirstIsThere
    <3> HIDE DEF i
    <3> DEFINE r == [q EXCEPT !.stage = "upsert", !.index = i]
    <3>2. selector' = [selector EXCEPT ![t] = r]
      BY <2>1, <2>3
    <3>3. /\ r.key = q.key /\ r.stage = "upsert" /\ r.index = i /\ r.chosen = q.chosen
          /\ r.steady = q.steady
      BY <1>q DEF SelectionOK
    <3> HIDE DEF r
    <3>4. Stands(r, pool, backend)
      BY <1>q, <2>1, <3>1, <3>3 DEF Stands
    <3> QED  BY <1>s, <2>1, <3>2, <3>3, <3>4
  <2> QED  BY <2>2, <2>3
<1>9. ASSUME UpsertSession(t)
      PROVE  Sticky'
  <2> DEFINE s == q.key
             o == q.chosen
             e == [index |-> q.index, expired |-> FALSE]
  <2>1. /\ q.stage = "upsert" /\ session' = [session EXCEPT ![s] = {e}]
        /\ Selected(t, s, o)
        /\ UNCHANGED <<pool, backend, writer>>
    BY <1>9 DEF UpsertSession, notSelecting
  <2>2. s \in Session /\ session \in [Session -> SUBSET SessionEntries]
    BY <1>0, <1>q, <2>1 DEF SelectionOK, BalancerShape, SessionsOK
  <2>3. last[s] = {}
    BY <1>e, <2>1, <2>2
  <2>4. q.steady /\ backend[o].healthy /\ ~Twice(backend[o].addr)
          => Leads(session'[s], o, pool, backend) /\ writer = Unheld
    <3> SUFFICES ASSUME q.steady, backend[o].healthy, ~Twice(backend[o].addr)
                 PROVE  Leads(session'[s], o, pool, backend) /\ writer = Unheld
      OBVIOUS
    <3>1. writer = Unheld
      BY <1>0, <2>1 DEF RemovalSeen, Past
    <3>2. /\ q.index \in DOMAIN pool /\ In(o, pool)
          /\ backend[pool[q.index]].addr = backend[o].addr
      BY <1>q, <1>n, <2>1, <2>2 DEF Stands
    <3>3. PICK i \in DOMAIN pool : pool[i] = o
      BY <3>2 DEF In
    <3>4. q.index = i
      BY <1>0, <3>2, <3>3, OnceIsOnePosition
    <3>5. session'[s] = {e} /\ e.index = q.index /\ ~e.expired
      BY <2>1, <2>2
    <3> QED  BY <3>1, <3>3, <3>4, <3>5 DEF Leads
  <2>5. \A x \in Session \ {s} : session'[x] = session[x]
    BY <2>1, <2>2
  <2> QED  BY <1>0, <2>1, <2>2, <2>3, <2>4, <2>5, SelectedSticky
<1>10. ASSUME NEW connects \in BOOLEAN, Connect(t, connects)
       PROVE  Sticky'
  <2> DEFINE o == q.chosen
  <2>1. /\ q.stage = "chosen"
        /\ backend' = IF connects THEN [backend EXCEPT ![o].conns = @ + 1] ELSE backend
        /\ selector' = [selector EXCEPT ![t] = NotSelecting]
        /\ UNCHANGED <<pool, session, last, writer, moved>>
    BY <1>10 DEF Connect, notSelecting
  <2>2. \A x \in Object : /\ backend'[x].addr = backend[x].addr
                          /\ backend[x].healthy => backend'[x].healthy
    <3> SUFFICES ASSUME NEW x \in Object
                 PROVE  /\ backend'[x].addr = backend[x].addr
                        /\ backend[x].healthy => backend'[x].healthy
      OBVIOUS
    <3>1. backend[x] \in Backends
      BY <1>b
    <3>2. \/ backend'[x] = backend[x]
          \/ \E n : backend'[x] = [backend[x] EXCEPT !.conns = n]
      BY <1>b, <2>1
    <3> QED  BY <3>1, <3>2 DEF Backends
  <2>3. \A s \in Session : \A x \in last[s] : x \in Object
    <3> SUFFICES ASSUME NEW s \in Session, NEW x \in last[s]
                 PROVE  x \in Object
      OBVIOUS
    <3>1. Leads(session[s], x, pool, backend)
      BY <1>0 DEF StaysPut
    <3> QED  BY <1>b, <3>1 DEF Leads
  <2>4. selector'[t] = NotSelecting /\ \A u \in Selector \ {t} : selector'[u] = selector[u]
    BY <1>0, <2>1 DEF SelectorsOK
  <2>5. Stands(NotSelecting, pool', backend')
    BY <1>n DEF Stands
  <2>6. \A u \in Selector :
          \/ selector'[u] = selector[u]
          \/ /\ Stands(selector'[u], pool', backend')
             /\ writer' # Unheld /\ selector'[u].stage \in Past => ~selector'[u].steady
             /\ \A s \in Session :
                  last'[s] # {} /\ selector'[u].key = s => selector'[u].stage = "entry"
    BY <1>n, <2>4, <2>5 DEF Past
  <2> QED  BY <1>0, <1>b, <2>1, <2>2, <2>3, <2>6, StickyAdvance
<1> QED
  BY <1>1, <1>2, <1>3, <1>4, <1>5, <1>6, <1>7, <1>8, <1>9, <1>10 DEF SelectStep

(* And so does time.                                                       *)
LEMMA SessionStepSticky ==
  ASSUME Sticky, NEW s \in Session, SessionExpires(s) \/ CleanSession(s)
  PROVE  Sticky'
<1>0. /\ BalancerShape /\ BalancerShape' /\ StaysPut
      /\ session \in [Session -> SUBSET SessionEntries] /\ AtMostOneOf(session[s])
      /\ last = [x \in Session |-> last[x]]
  BY SessionStepShape DEF Sticky, BalancerShape, SessionsOK, HistoryOK
<1>1. UNCHANGED <<pool, backend, selector, writer, moved>>
  BY DEF SessionExpires, CleanSession, notSelecting
<1>2. \A x \in Session : last'[x] # {} => last'[x] = last[x] /\ session'[x] = session[x]
  <2>1. CASE SessionExpires(s)
    BY <1>0, <2>1 DEF SessionExpires
  <2>2. CASE CleanSession(s)
    <3>1. last[s] = {}
      <4>1. SUFFICES ASSUME NEW o \in last[s]
                     PROVE  FALSE
        OBVIOUS
      <4>2. Leads(session[s], o, pool, backend)
        BY <1>0 DEF StaysPut
      <4> QED  BY <1>0, <2>2, <4>2 DEF Leads, CleanSession, AtMostOneOf
    <3> QED  BY <1>0, <2>2, <3>1 DEF CleanSession
  <2> QED  BY <2>1, <2>2
<1> QED  BY <1>0, <1>1, <1>2, StickyPool

(* A session stays at the backend it was given: not until its entry        *)
(* expires, the backend is found unhealthy or one is removed is a          *)
(* selection for it led elsewhere, however selections for it, others and   *)
(* additions interleave.                                                   *)
THEOREM BalancerStaysSticky == BalancerSafety => []StickyStable
<1>1. BalancerInit => Sticky
  BY StickyInit
<1>2. Sticky /\ [BalancerNext]_balancerVars => Sticky'
  <2> SUFFICES ASSUME Sticky, [BalancerNext]_balancerVars
               PROVE  Sticky'
    OBVIOUS
  <2>1. CASE PoolStep
    BY <2>1, PoolStepSticky
  <2>2. CASE \E t \in Selector : SelectStep(t)
    BY <2>2, SelectStepSticky
  <2>3. CASE \E s \in Session : SessionExpires(s) \/ CleanSession(s)
    BY <2>3, SessionStepSticky
  <2>4. CASE UNCHANGED balancerVars
    <3>1. BalancerShape'
      BY BalancerStepShape DEF Sticky
    <3> QED
      BY <2>4, <3>1 DEF Sticky, balancerVars, StaysPut, RemovalSeen, ChoiceStands, Stands, Leads,
                        In
  <2> QED
    BY <2>1, <2>2, <2>3, <2>4 DEF BalancerNext, PoolStep, SelectStep
<1>3. Sticky => StickyStable
  BY DEF Sticky, StickyStable
<1> QED  BY <1>1, <1>2, <1>3, PTL DEF BalancerSafety
=============================================================================
