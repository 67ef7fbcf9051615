------------------------------ MODULE KubeMapping ------------------------------
(****************************************************************************)
(* The Kubernetes mapping processor (processor/kubemappingprocessor): calls *)
(* of a pipeline that translate headers through objects of a cluster, with  *)
(* a cache between them, while the objects change.                          *)
(*                                                                          *)
(* The mappings of a call run in order, on the headers as the ones before   *)
(* left them.  Each looks into the cache, lists the objects its selector    *)
(* matches when it finds nothing, and stores the value; another call, a     *)
(* change of the objects, or time may come between any two of these steps.  *)
(* Nothing but time and capacity removes a value from the cache.            *)
(*                                                                          *)
(* Calls run between the Start and the Shutdown of ResourceLookup.  The     *)
(* informers' cache follows the cluster while the manager runs; when it has *)
(* ended by itself nothing changes any more, and nobody notices.            *)
(*                                                                          *)
(* Selectors are identified with the header value they are expanded with,   *)
(* objects with the value extractValue finds in them.                       *)
(****************************************************************************)
EXTENDS ResourceLookup, CallMetadata, Integers, Sequences, TLC

CONSTANTS
  Calls,       \* calls of ConsumeLogs, ConsumeMetrics or ConsumeTraces
  Mappings,    \* the configured mappings, each [resource, header, target]
  Lists,       \* lists of objects that a selector may match
  Metadata,    \* headers that a client may send
  Keys,        \* <<resource, value>> pairs that can be looked up
  Malformed,   \* pairs whose expanded selector does not parse or is no equality
  TTLs,        \* values of cache.ttl, 0 for no cache
  Capacity,    \* cache.capacity
  LookupTime,  \* longest time from reading the objects to storing the value
  MaxTime,     \* the clock's last value (bound)
  MaxChanges   \* changes of the objects (bound)

ASSUME KubeAssumption ==
  /\ TTLs \subseteq Nat /\ Capacity \in Nat \ {0}
  /\ LookupTime \in Nat /\ MaxTime \in Nat /\ MaxChanges \in Nat
  /\ \A headers \in Metadata : \A key \in DOMAIN headers : key = Lower(key)

VARIABLES
  errorMode,    \* error_mode
  cacheMisses,  \* cache.cache_misses
  ttl,          \* cache.ttl
  now,          \* the clock
  objects,      \* what each selector matches, in the informers' cache
  changes,      \* changes so far
  held,         \* when a selector last had a value: a function on the pairs that had
  cache,        \* the cached value of a key and when it expires
  call          \* where each call is

configVars == <<errorMode, cacheMisses, ttl>>
clusterVars == <<now, objects, changes, held>>
mappingVars == <<configVars, clusterVars, cache, call>>
vars == <<lookupVars, mappingVars>>

(* What extractValue makes of an object: a set with the text of its field,  *)
(* empty for a field that does not exist or is no scalar.  A null becomes   *)
(* the empty text.                                                          *)
Extract(object) ==
  CASE object \in {"missing", "unsupported"} -> {}
    [] object = "null" -> {""}
    [] OTHER -> {object}

(* executeResolvedMapping, after List: exactly one object with a value.     *)
ValueOf(list) == IF Len(list) = 1 THEN Extract(list[1]) ELSE {}

(* The value a selector has at present, or "none": then mapping it fails    *)
(* for good.                                                                *)
Answer(list) == IF ValueOf(list) = {} THEN "none" ELSE CHOOSE v \in ValueOf(list) : TRUE

Never == MaxTime + 1

(* How long ago the key had that answer.                                    *)
Age(key, answer) ==
  IF <<key, answer>> \in DOMAIN held THEN now - held[<<key, answer>>] ELSE Never

HeldNow(time, lists) ==
  [p \in {<<k, Answer(lists[k])>> : k \in Keys} |-> time]

Idle == [stage |-> "idle", index |-> 1, values |-> NoMetadata, key |-> <<>>,
         answer |-> "none", read |-> 0, age |-> 0]

Init ==
  /\ LookupInit
  /\ errorMode \in {"propagate", "ignore"} /\ cacheMisses \in BOOLEAN /\ ttl \in TTLs
  /\ now = 0 /\ changes = 0
  /\ objects \in [Keys -> Lists] /\ held = HeldNow(0, objects)
  /\ cache = <<>>
  /\ call = [c \in Calls |-> Idle]

------------------------------------------------------------------------------
(* The cluster and the clock.                                               *)

Serving == start = "ok" /\ shutdown = "idle"

(* Nobody is between reading and storing for longer than LookupTime.        *)
Tick ==
  /\ Serving /\ now < MaxTime
  /\ \A c \in Calls : call[c].stage = "listed" => now < call[c].read + LookupTime
  /\ now' = now + 1
  /\ held' = [p \in DOMAIN held \union DOMAIN HeldNow(now', objects) |->
                IF p \in DOMAIN HeldNow(now', objects) THEN now' ELSE held[p]]
  /\ UNCHANGED <<configVars, objects, changes, cache, call>>

ObjectsChange(key) ==
  /\ Serving /\ manager = "runs"
  /\ changes < MaxChanges /\ changes' = changes + 1
  /\ \E list \in Lists \ {objects[key]} : objects' = [objects EXCEPT ![key] = list]
  /\ held' = [p \in DOMAIN held \union DOMAIN HeldNow(now, objects') |->
                IF p \in DOMAIN HeldNow(now, objects') THEN now ELSE held[p]]
  /\ UNCHANGED <<configVars, now, cache, call>>

------------------------------------------------------------------------------
(* One call.                                                                *)

(* mappingCacheKey: resource, extraction and resolved selector.             *)
CacheKey(resource, value) == <<resource, value>>

(* mapContext: a call begins with the headers of its client.                *)
Consume(c) ==
  /\ Serving /\ call[c].stage = "idle"
  /\ \E headers \in Metadata :
       call' = [call EXCEPT ![c] = [Idle EXCEPT !.stage = "mapping", !.values = headers]]
  /\ UNCHANGED <<configVars, clusterVars, cache>>

Mapping(c) == Mappings[call[c].index]

(* The loop goes on to the next mapping, or the data to the next component. *)
Continue(record) ==
  IF record.index = Len(Mappings)
    THEN [record EXCEPT !.stage = "forward"]
    ELSE [record EXCEPT !.stage = "mapping", !.index = @ + 1]

(* values[mapping.Target], in the spelling of the configuration: another    *)
(* spelling of the target, which the client may have sent, stays beside it. *)
WithHeader(values, target, value) ==
  [h \in DOMAIN values \union {target} |-> IF h = target THEN value ELSE values[h]]

(* Operators named <Operator>_<Change> are faults the properties are tried  *)
(* against.                                                                 *)
MapReturns_KeepsReceived(c, key, value) ==
  call' = [call EXCEPT ![c] = Continue(
    [@ EXCEPT !.values = call[c].values @@ (Mapping(c).target :> value),
              !.key = <<>>, !.read = 0, !.answer = value, !.age = Age(key, value)])]

(* Map returned a value, which the mappings behind it see; what it was      *)
(* looked up with is forgotten.                                             *)
MapReturns(c, key, value) ==
  call' = [call EXCEPT ![c] = Continue(
    [@ EXCEPT !.values = WithHeader(call[c].values, Mapping(c).target, value),
              !.key = <<>>, !.read = 0, !.answer = value, !.age = Age(key, value)])]

(* Map returned an error: error_mode ignore leaves the target as it is.     *)
MapFails(c, result) ==
  LET failed == [call[c] EXCEPT !.answer = "none", !.age = Age(call[c].key, "none")] IN
  call' = [call EXCEPT ![c] =
    IF errorMode = "ignore" THEN Continue(failed) ELSE [failed EXCEPT !.stage = result]]

(* expandHeaderTemplate: the selector is expanded with the header's first   *)
(* value, or there is none.  An empty value is a value.  Every mapping has  *)
(* metadata of its own made of the values, hence of several spellings of    *)
(* the header any.                                                          *)
Expanded(c) ==
  LET header == Lower(Mapping(c).header) IN
  {md[header] : md \in {md \in NewMetadata(call[c].values) : header \in DOMAIN md}}

(* resolveSelectors failed: a permanent error, before the cache is asked.   *)
SelectorFails(c) ==
  /\ call' = [call EXCEPT ![c] =
       IF errorMode = "ignore" THEN Continue(@) ELSE [@ EXCEPT !.stage = "refused"]]
  /\ UNCHANGED <<configVars, clusterVars, cache>>

(* A header of the selector is missing.                                     *)
SelectorMissing(c) ==
  /\ call[c].stage = "mapping" /\ Expanded(c) = {}
  /\ SelectorFails(c)

(* What the header makes of the selector does not parse, or is no equality. *)
SelectorMalformed(c) ==
  /\ call[c].stage = "mapping"
  /\ \E value \in Expanded(c) : <<Mapping(c).resource, value>> \in Malformed
  /\ SelectorFails(c)

(* A mapping whose selector is the one for value.                           *)
Selects(c, value) ==
  /\ call[c].stage = "mapping" /\ value \in Expanded(c)
  /\ <<Mapping(c).resource, value>> \notin Malformed

Cached(key) == ttl > 0 /\ key \in DOMAIN cache /\ now < cache[key].expires

Hit_Touches(c) ==
  \E value \in Expanded(c) :
    LET key == CacheKey(Mapping(c).resource, value) IN
    /\ Selects(c, value) /\ Cached(key)
    /\ cache' = [cache EXCEPT ![key].expires = now + ttl]
    /\ MapReturns(c, <<Mapping(c).resource, value>>, cache[key].value)
    /\ UNCHANGED <<configVars, clusterVars>>

(* cachedMapper.Map: the cache has an unexpired value.                      *)
Hit(c) ==
  \E value \in Expanded(c) :
    LET key == CacheKey(Mapping(c).resource, value) IN
    /\ Selects(c, value) /\ Cached(key)
    /\ MapReturns(c, <<Mapping(c).resource, value>>, cache[key].value)
    /\ UNCHANGED <<configVars, clusterVars, cache>>

(* It has none; only pairs of Keys are looked up (bound).                   *)
Miss(c) ==
  \E value \in Expanded(c) :
    /\ Selects(c, value) /\ ~Cached(CacheKey(Mapping(c).resource, value))
    /\ <<Mapping(c).resource, value>> \in Keys
    /\ call' = [call EXCEPT ![c] = [@ EXCEPT !.stage = "listing",
                                             !.key = <<Mapping(c).resource, value>>]]
    /\ UNCHANGED <<configVars, clusterVars, cache>>

(* List: from the informers' cache.                                         *)
ListAnswers(c) ==
  /\ call[c].stage = "listing"
  /\ call' = [call EXCEPT ![c].stage = "listed", ![c].read = now,
                          ![c].answer = Answer(objects[call[c].key]), ![c].age = 0]
  /\ UNCHANGED <<configVars, clusterVars, cache>>

ListFails_Permanent(c) ==
  /\ call[c].stage = "listing"
  /\ MapFails(c, "refused")
  /\ UNCHANGED <<configVars, clusterVars, cache>>

(* List: the resource cannot be resolved, or the informer is not there.     *)
ListFails(c) ==
  /\ call[c].stage = "listing"
  /\ MapFails(c, "retryable")
  /\ UNCHANGED <<configVars, clusterVars, cache>>

(* cache.Set, when another value has to go for it: ttlcache is built        *)
(* WithCapacity.                                                            *)
SetCache(key, value) ==
  \E victim \in IF key \in DOMAIN cache \/ Cardinality(DOMAIN cache) < Capacity
                  THEN {{}} ELSE {{k} : k \in DOMAIN cache} :
    cache' = [k \in (DOMAIN cache \ victim) \union {key} |->
                IF k = key THEN [value |-> value, expires |-> now + ttl] ELSE cache[k]]

(* No object, several objects, or no value: a permanent error, which is     *)
(* returned before cacheMisses is looked at.                                *)
MappingRefused(c) ==
  /\ call[c].stage = "listed" /\ call[c].answer = "none"
  /\ MapFails(c, "refused")
  /\ UNCHANGED <<configVars, clusterVars, cache>>

(* A value was found; cachedMapper stores it before it returns.             *)
ValueFound(c) ==
  /\ call[c].stage = "listed" /\ call[c].answer # "none"
  /\ IF ttl > 0
       THEN SetCache(CacheKey(call[c].key[1], call[c].key[2]), call[c].answer)
       ELSE UNCHANGED cache
  /\ MapReturns(c, call[c].key, call[c].answer)
  /\ UNCHANGED <<configVars, clusterVars>>

(* The headers the next component may get: of several spellings any.        *)
Forwarded(c) == NewMetadata(call[c].values)

(* The next component, or the caller, is done with the call.                *)
Returns(c) ==
  /\ call[c].stage \in {"forward", "refused", "retryable"}
  /\ call' = [call EXCEPT ![c] = Idle]
  /\ UNCHANGED <<configVars, clusterVars, cache>>

CallStep(c) ==
  \/ Consume(c) \/ SelectorMissing(c) \/ SelectorMalformed(c) \/ Hit(c) \/ Miss(c)
  \/ ListAnswers(c) \/ ListFails(c) \/ MappingRefused(c) \/ ValueFound(c)
  \/ Returns(c)

(* The host shuts a processor down when no component calls it any more.     *)
HostShutsDown == (\A c \in Calls : call[c] = Idle) /\ Shutdown

Next ==
  \/ (LookupStep \/ HostShutsDown) /\ UNCHANGED mappingVars
  \/ Tick /\ UNCHANGED lookupVars
  \/ (\E key \in Keys : ObjectsChange(key)) /\ UNCHANGED lookupVars
  \/ (\E c \in Calls : CallStep(c)) /\ UNCHANGED lookupVars

Spec == Init /\ [][Next]_vars

------------------------------------------------------------------------------
(* Properties.                                                              *)

(* However calls interleave, a value is returned at most ttl after it was   *)
(* stored, and was true at most LookupTime before that: hits do not prolong *)
(* an entry, although a call that read earlier may overwrite the newer      *)
(* value of another (cached_mapping.go:66, 86; README:48 "how long mapped   *)
(* values are cached").                                                     *)
StaleAtMostTTL ==
  \A c \in Calls : call[c].answer # "none" =>
    call[c].age <= IF ttl = 0 THEN LookupTime ELSE ttl + LookupTime - 1

(* A payload is refused for good, hence discarded by the receiver, only     *)
(* when a header of the selector is missing, when the selector this call's  *)
(* headers make does not parse, or when the objects, as read for this very  *)
(* call, gave no value.  Neither an unavailable cluster nor an earlier      *)
(* failure is held against it: contrary to README:15 and :52 no failure is  *)
(* cached, whatever cache_misses says (mapping.go:20, 31; selector.go:50;   *)
(* cached_mapping.go:83).                                                   *)
RefusedOnFreshLookup ==
  \A c \in Calls : call[c].stage = "refused" =>
    \/ Spellings(call[c].values, Mapping(c).header) = {}
    \/ \E header \in Spellings(call[c].values, Mapping(c).header) :
         <<Mapping(c).resource, call[c].values[header]>> \in Malformed
    \/ call[c].answer = "none" /\ call[c].age <= LookupTime

(* The call has the key in one spelling.                                    *)
Unambiguous(c, key) == \A k, l \in Spellings(call[c].values, key) : k = l

(* With error_mode propagate the headers that go on belong together: every  *)
(* target was the value of the selector as the final headers expand it,     *)
(* whatever the client sent in the headers that the mappings write          *)
(* (processor.go:59; README: "mappings run in order, so a mapping may use   *)
(* metadata written by an earlier mapping").  That is so of a header and a  *)
(* target which the call has in one spelling: a target configured with an   *)
(* upper-case letter, as X-Tenant-ID in the README, does not replace what   *)
(* the client sent, and either may be forwarded and read (processor.go:42). *)
ForwardedHeadersConsistent ==
  \A c \in Calls : (call[c].stage = "forward" /\ errorMode = "propagate") =>
    \A headers \in Forwarded(c) : \A i \in DOMAIN Mappings :
      Unambiguous(c, Mappings[i].header) /\ Unambiguous(c, Mappings[i].target) =>
        Age(<<Mappings[i].resource, headers[Lower(Mappings[i].header)]>>,
            headers[Lower(Mappings[i].target)]) # Never
==============================================================================
