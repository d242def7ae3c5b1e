----------------------------- MODULE ProxyCache -----------------------------
(***************************************************************************)
(* ReverseProxy and HotReloadProxy (crates/engine/proxy): routing, the     *)
(* response cache, the index from paths to cache keys that invalidation    *)
(* goes by, and the watcher that puts a new proxy in place of the old.     *)
(*                                                                         *)
(* A key stands for method, path with query, Accept and Accept-Encoding    *)
(* (build_cache_key).  The cache (moka) is external: it keeps an entry     *)
(* until it is invalidated, replaced or, at any time, evicted.             *)
(***************************************************************************)
EXTENDS Integers, Sequences

CONSTANTS
  Client,        (* request handlers                                       *)
  Purger,        (* handlers of /proxy/cache/invalidate                    *)
  Path, Key,
  PathOf,        (* the path of each key                                   *)
  Configs,       (* the configurations the file may hold                   *)
  Upstream,
  MaxVersion     (* bound on the changes at the origin, for model checking *)

Kinds == {"upstream", "static", "websocket"}

(* LocationConfig: the paths it covers (those that start with its own,     *)
(* of the given length) and exactly one target.                            *)
Locations == [covers : SUBSET Path, length : Nat, kind : Kinds, upstream : Upstream]

ASSUME ProxyAssumption ==
  /\ Key # {} /\ Upstream # {}
  /\ PathOf \in [Key -> Path]
  /\ Configs \subseteq Seq(Locations) \ {<< >>}
  /\ MaxVersion \in Nat

VARIABLES
  config,      (* the configuration of the proxy in service                *)
  cache,       (* its cache: for each key, the entries there are (0 or 1)  *)
  pathIndex,   (* path_index: the keys stored for each path.  (A vector in *)
               (* the code; its duplicates only repeat an invalidation.)   *)
  handler,     (* the requests being served                                *)
  purge,       (* the invalidation each purger is about to make (0 or 1)   *)
  sweep,       (* the keys each purger has taken and not yet invalidated   *)
  origin,      (* the version of each path at its upstream                 *)
  purged       (* history: the latest version a path had when an           *)
               (* invalidation of it began that was then made              *)

handlers  == <<handler, purge, sweep>>
proxyVars == <<config, cache, pathIndex, handlers, origin, purged>>

(* stage: idle; expired, with an entry to drop; fetching from upstream;    *)
(* receiving a response; fetched, with it to keep; indexed, with an entry  *)
(* to insert.  current: the proxy it was given is still in service.  raced *)
(* (history): its path was purged since the upstream made its response.    *)
Stages == {"idle", "expired", "fetching", "receiving", "fetched", "indexed"}
Idle(k) == [stage |-> "idle", key |-> k, upstream |-> CHOOSE u \in Upstream : TRUE,
            version |-> 0, current |-> TRUE, raced |-> FALSE]
AnyKey == CHOOSE k \in Key : TRUE

(* An invalidation to be made: the version its path had when it began      *)
(* (history), and whether its proxy is still in service.                   *)
Purges == [path : Path, version : Nat, current : BOOLEAN]

-----------------------------------------------------------------------------
ProxyInit ==
  /\ config \in Configs
  /\ cache = [k \in Key |-> {}]
  /\ pathIndex = [p \in Path |-> {}]
  /\ handler = [c \in Client |-> Idle(AnyKey)]
  /\ purge = [g \in Purger |-> {}]
  /\ sweep = [g \in Purger |-> {}]
  /\ origin = [p \in Path |-> 0]
  /\ purged = [p \in Path |-> 0]

(* match_route: of the locations of the right kind that cover the path,    *)
(* the longest; of these the last.                                         *)
MatchRoute(locations, p, websocket) ==
  {i \in DOMAIN locations :
     LET Fits(j) == /\ p \in locations[j].covers
                    /\ (locations[j].kind = "websocket") = websocket
     IN  /\ Fits(i)
         /\ \A j \in DOMAIN locations : Fits(j) =>
              \/ locations[j].length < locations[i].length
              \/ locations[j].length = locations[i].length /\ j <= i}

UpstreamsOf(locations, p) ==
  {locations[i].upstream : i \in {j \in MatchRoute(locations, p, FALSE) :
                                    locations[j].kind = "upstream"}}

Answer(c) == handler' = [handler EXCEPT ![c] = Idle(AnyKey)]

(* proxy_entry for a GET or HEAD that routes to an upstream, up to the     *)
(* cache's answer.  A hit is answered at once; an entry found expired is   *)
(* dropped in a step of its own.  (Other requests touch no state.)         *)
Lookup(c, k) ==
  /\ handler[c].stage = "idle"
  /\ \E u \in UpstreamsOf(config, PathOf[k]) :
       /\ \A e \in cache[k] : e.expired
       /\ handler' = [handler EXCEPT ![c] =
            [Idle(k) EXCEPT !.stage = IF cache[k] = {} THEN "fetching" ELSE "expired",
                            !.upstream = u]]
  /\ UNCHANGED <<config, cache, pathIndex, purge, sweep, origin, purged>>

(* Whatever the cache holds by now is dropped.                             *)
DropExpired(c) ==
  /\ handler[c].stage = "expired"
  /\ handler' = [handler EXCEPT ![c].stage = "fetching"]
  /\ cache' = IF handler[c].current THEN [cache EXCEPT ![handler[c].key] = {}] ELSE cache
  /\ UNCHANGED <<config, pathIndex, purge, sweep, origin, purged>>

(* The upstream makes its response, and send() returns with its head.      *)
ResponseHead(c) ==
  /\ handler[c].stage = "fetching"
  /\ handler' = [handler EXCEPT ![c].stage = "receiving",
                                ![c].version = origin[PathOf[handler[c].key]]]
  /\ UNCHANGED <<config, cache, pathIndex, purge, sweep, origin, purged>>

(* The response is complete and may be kept (a success, with neither       *)
(* no-store nor no-cache).                                                 *)
Fetch(c) ==
  /\ handler[c].stage = "receiving"
  /\ handler' = [handler EXCEPT ![c].stage = "fetched"]
  /\ UNCHANGED <<config, cache, pathIndex, purge, sweep, origin, purged>>

(* No response, not all of it, or one that may not be kept: it is passed   *)
(* on, and that is all.                                                    *)
FetchNothing(c) ==
  /\ handler[c].stage \in {"fetching", "receiving"}
  /\ Answer(c)
  /\ UNCHANGED <<config, cache, pathIndex, purge, sweep, origin, purged>>

IndexCacheKey(c) ==
  LET h == handler[c] IN
  /\ h.stage = "fetched"
  /\ handler' = [handler EXCEPT ![c].stage = "indexed"]
  /\ pathIndex' = IF h.current THEN [pathIndex EXCEPT ![PathOf[h.key]] = @ \cup {h.key}]
                               ELSE pathIndex
  /\ UNCHANGED <<config, cache, purge, sweep, origin, purged>>

EntryOf(h) ==
  [upstream |-> h.upstream, version |-> h.version, expired |-> FALSE, raced |-> h.raced]

(* Mutant: the entry goes into the proxy in service.                       *)
InsertInCurrent(c) ==
  /\ handler[c].stage = "indexed"
  /\ cache' = [cache EXCEPT ![handler[c].key] = {EntryOf(handler[c])}]
  /\ Answer(c)
  /\ UNCHANGED <<config, pathIndex, purge, sweep, origin, purged>>

(* A handler whose proxy was replaced writes into a cache nobody reads.    *)
Insert(c) ==
  LET h == handler[c] IN
  /\ h.stage = "indexed"
  /\ cache' = IF h.current THEN [cache EXCEPT ![h.key] = {EntryOf(h)}] ELSE cache
  /\ Answer(c)
  /\ UNCHANGED <<config, pathIndex, purge, sweep, origin, purged>>

(* invalidate_cache is given the proxy in service ...                      *)
LoadRuntime(g, p) ==
  /\ purge[g] = {} /\ sweep[g] = {}
  /\ purge' = [purge EXCEPT ![g] = {[path |-> p, version |-> origin[p], current |-> TRUE]}]
  /\ UNCHANGED <<config, cache, pathIndex, handler, sweep, origin, purged>>

(* ... takes the keys of the path out of its index (if it was replaced in  *)
(* between, the one in service loses nothing) ...                          *)
InvalidatePath(g) ==
  \E i \in purge[g] :
    /\ purge' = [purge EXCEPT ![g] = {}]
    /\ purged' = [purged EXCEPT ![i.path] = IF @ < i.version THEN i.version ELSE @]
    /\ \/ /\ ~i.current
          /\ UNCHANGED <<handler, pathIndex, sweep>>
       \/ /\ i.current
          /\ sweep' = [sweep EXCEPT ![g] = pathIndex[i.path]]
          /\ pathIndex' = [pathIndex EXCEPT ![i.path] = {}]
          /\ handler' = [c \in Client |->
               IF PathOf[handler[c].key] = i.path
                  /\ handler[c].stage \in {"receiving", "fetched", "indexed"}
               THEN [handler[c] EXCEPT !.raced = TRUE]
               ELSE handler[c]]
    /\ UNCHANGED <<config, cache, origin>>

(* Mutant: it returns after the first key.                                 *)
InvalidateOneKey(g, k) ==
  /\ k \in sweep[g]
  /\ cache' = [cache EXCEPT ![k] = {}]
  /\ sweep' = [sweep EXCEPT ![g] = {}]
  /\ UNCHANGED <<config, pathIndex, handler, purge, origin, purged>>

(* ... and invalidates them in its cache, one after the other.             *)
InvalidateKey(g, k) ==
  /\ k \in sweep[g]
  /\ cache' = [cache EXCEPT ![k] = {}]
  /\ sweep' = [sweep EXCEPT ![g] = @ \ {k}]
  /\ UNCHANGED <<config, pathIndex, handler, purge, origin, purged>>

(* The lifetime of an entry ends: sooner or later, and nothing depends on  *)
(* when.                                                                   *)
EntryExpires(k) ==
  /\ \E e \in cache[k] : ~e.expired
  /\ cache' = [cache EXCEPT ![k] = {[e EXCEPT !.expired = TRUE] : e \in cache[k]}]
  /\ UNCHANGED <<config, pathIndex, handlers, origin, purged>>

Evict(k) ==
  /\ cache[k] # {}
  /\ cache' = [cache EXCEPT ![k] = {}]
  /\ UNCHANGED <<config, pathIndex, handlers, origin, purged>>

(* The file has changed and holds a valid configuration: a new proxy, with *)
(* an empty cache, takes the place of the old one.  Handlers and purgers   *)
(* keep the proxy they were given.                                         *)
Reload(new) ==
  /\ config' = new
  /\ cache' = [k \in Key |-> {}]
  /\ pathIndex' = [p \in Path |-> {}]
  /\ handler' = [c \in Client |-> [handler[c] EXCEPT !.current = handler[c].stage = "idle"]]
  /\ purge' = [g \in Purger |-> {[i EXCEPT !.current = FALSE] : i \in purge[g]}]
  /\ sweep' = [g \in Purger |-> {}]
  /\ UNCHANGED <<origin, purged>>

OriginChange(p) ==
  /\ origin[p] < MaxVersion
  /\ origin' = [origin EXCEPT ![p] = @ + 1]
  /\ UNCHANGED <<config, cache, pathIndex, handlers, purged>>

ProxyNext ==
  \/ \E c \in Client :
       \/ \E k \in Key : Lookup(c, k)
       \/ DropExpired(c)
       \/ ResponseHead(c)
       \/ Fetch(c)
       \/ FetchNothing(c)
       \/ IndexCacheKey(c)
       \/ Insert(c)
  \/ \E g \in Purger, p \in Path : LoadRuntime(g, p)
  \/ \E g \in Purger : InvalidatePath(g)
  \/ \E g \in Purger, k \in Key : InvalidateKey(g, k)
  \/ \E k \in Key : EntryExpires(k) \/ Evict(k)
  \/ \E new \in Configs : Reload(new)
  \/ \E p \in Path : OriginChange(p)

ProxySpec == ProxyInit /\ [][ProxyNext]_proxyVars

-----------------------------------------------------------------------------
Entries == [upstream : Upstream, version : Nat, expired : BOOLEAN, raced : BOOLEAN]
Handlers == [stage : Stages, key : Key, upstream : Upstream, version : Nat,
             current : BOOLEAN, raced : BOOLEAN]

(* What each variable may hold.                                            *)
ProxyTypeOK ==
  /\ config \in Configs
  /\ cache \in [Key -> SUBSET Entries]
  /\ \A k \in Key : \A d, e \in cache[k] : d = e
  /\ pathIndex \in [Path -> SUBSET Key]
  /\ handler \in [Client -> Handlers]
  /\ purge \in [Purger -> SUBSET Purges]
  /\ sweep \in [Purger -> SUBSET Key]
  /\ origin \in [Path -> Nat]
  /\ purged \in [Path -> Nat]

(* Invalidating a path takes every response out of the cache that is older *)
(* than the version the path had when the invalidation began, whatever     *)
(* reload comes in between: one that is still there is about to be         *)
(* invalidated, or belongs to a request whose response was on its way at   *)
(* an invalidation, which cannot reach it (and then it may stay until it   *)
(* expires).                                                               *)
InvalidationHolds ==
  \A k \in Key : \A e \in cache[k] :
    e.version < purged[PathOf[k]] => e.raced \/ \E g \in Purger : k \in sweep[g]

(* What is cached of a path came from the upstream the configuration in    *)
(* service routes it to, however many handlers still serve an old one.     *)
CacheMatchesConfig ==
  \A k \in Key : \A e \in cache[k] : e.upstream \in UpstreamsOf(config, PathOf[k])
=============================================================================
