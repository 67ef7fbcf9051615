-------------------------- MODULE KubeMapping_proofs --------------------------
(****************************************************************************)
(* For every set of calls, mappings and objects, every ttl and capacity,    *)
(* every time a lookup takes and every bound on time and changes: how stale *)
(* a mapped value may be, on what a payload may be refused, what is left of *)
(* the manager that feeds the lookups, and that the headers of a payload    *)
(* belong together.                                                         *)
(*                                                                          *)
(* Staleness is about what the selectors had at which time (held), so the   *)
(* invariant ties a call that has read, and an entry of the cache, to the   *)
(* last moment at which its value was true.                                 *)
(****************************************************************************)
EXTENDS KubeMapping, SequenceTheorems, TLAPS

IsCall(r) == DOMAIN r = {"stage", "index", "values", "key", "answer", "read", "age"}

Types ==
  /\ ttl \in Nat /\ now \in Nat
  /\ objects \in [Keys -> Lists]
  /\ held = [p \in DOMAIN held |-> held[p]]
  /\ \A p \in DOMAIN held : held[p] \in 0..now
  /\ call = [c \in Calls |-> call[c]]
  /\ \A c \in Calls : IsCall(call[c])

(* What a selector has at present it has now.                               *)
HeldIsCurrent ==
  \A k \in Keys : <<k, Answer(objects[k])>> \in DOMAIN held
                  /\ held[<<k, Answer(objects[k])>>] = now

(* A call looks up a pair of Keys; what it has read was true since.         *)
Reads ==
  \A c \in Calls :
    /\ call[c].stage \in {"listing", "listed"} => call[c].key = <<call[c].key[1], call[c].key[2]>>
    /\ call[c].stage = "listing" => call[c].key \in Keys
    /\ call[c].stage = "listed" =>
         /\ call[c].read \in Nat /\ now <= call[c].read + LookupTime
         /\ <<call[c].key, call[c].answer>> \in DOMAIN held
         /\ call[c].read <= held[<<call[c].key, call[c].answer>>]

(* An entry expires at most ttl and a lookup after its value was true.      *)
Entries ==
  \A k \in DOMAIN cache :
    /\ cache[k].expires \in Nat
    /\ <<k, cache[k].value>> \in DOMAIN held
    /\ cache[k].expires <= held[<<k, cache[k].value>>] + ttl + LookupTime

IInv ==
  /\ Types /\ HeldIsCurrent /\ Reads /\ Entries
  /\ StaleAtMostTTL /\ RefusedOnFreshLookup

------------------------------------------------------------------------------
(* The metadata of a mapping.                                               *)

(* What a header expands to is the value of one of its spellings.           *)
LEMMA ExpandedValue ==
  ASSUME NEW c \in Calls, NEW value \in Expanded(c)
  PROVE  \E h \in Spellings(call[c].values, Mapping(c).header) : value = call[c].values[h]
<1>1. PICK md \in NewMetadata(call[c].values) :
        /\ Lower(Mapping(c).header) \in DOMAIN md /\ value = md[Lower(Mapping(c).header)]
  BY Zenon DEF Expanded
<1>2. \E h \in DOMAIN call[c].values :
        Lower(h) = Lower(Mapping(c).header) /\ value = call[c].values[h]
  BY <1>1 DEF NewMetadata
<1> QED BY <1>2 DEF Spellings

(* There is some metadata for every map.                                    *)
LEMMA SomeMetadata ==
  ASSUME NEW map
  PROVE  \E md \in NewMetadata(map) : DOMAIN md = {Lower(key) : key \in DOMAIN map}
<1> DEFINE kept == {Lower(key) : key \in DOMAIN map}
           source(k) == CHOOSE key \in DOMAIN map : Lower(key) = k
           md == [k \in kept |-> map[source(k)]]
<1>1. \A k \in kept : source(k) \in DOMAIN map /\ Lower(source(k)) = k
  BY Zenon
<1> HIDE DEF source
<1>2. md \in [kept -> {map[key] : key \in DOMAIN map}] /\ DOMAIN md = kept
  BY <1>1
<1>3. \A k \in kept : \E key \in DOMAIN map : Lower(key) = k /\ md[k] = map[key]
  BY <1>1
<1> HIDE DEF md
<1>4. md \in NewMetadata(map)
  BY <1>2, <1>3 DEF NewMetadata
<1> QED BY <1>2, <1>4

(* A header that expands to nothing is not there in any spelling.           *)
LEMMA NothingExpanded ==
  ASSUME NEW c \in Calls, Expanded(c) = {}
  PROVE  Spellings(call[c].values, Mapping(c).header) = {}
<1> SUFFICES ASSUME NEW h \in Spellings(call[c].values, Mapping(c).header) PROVE FALSE
  OBVIOUS
<1>1. PICK md \in NewMetadata(call[c].values) :
        DOMAIN md = {Lower(key) : key \in DOMAIN call[c].values}
  BY SomeMetadata
<1>2. h \in DOMAIN call[c].values /\ Lower(h) = Lower(Mapping(c).header)
  BY DEF Spellings
<1>3. Lower(Mapping(c).header) \in DOMAIN md
  BY <1>1, <1>2
<1>4. md[Lower(Mapping(c).header)] \in Expanded(c)
  BY <1>3, Zenon DEF Expanded
<1> QED BY <1>4

------------------------------------------------------------------------------
LEMMA InitIInv == Init => IInv
<1> SUFFICES ASSUME Init PROVE IInv
  OBVIOUS
<1>1. /\ ttl \in Nat /\ now = 0 /\ objects \in [Keys -> Lists] /\ cache = <<>>
      /\ call = [c \in Calls |-> Idle] /\ held = HeldNow(0, objects)
  BY KubeAssumption DEF Init
<1>2. \A c \in Calls : IsCall(call[c]) /\ call[c].stage = "idle" /\ call[c].answer = "none"
  BY <1>1 DEF IsCall, Idle
<1>3. Types
  BY <1>1, <1>2 DEF Types, HeldNow
<1>4. HeldIsCurrent
  BY <1>1 DEF HeldIsCurrent, HeldNow
<1>5. Reads /\ StaleAtMostTTL /\ RefusedOnFreshLookup
  BY <1>2 DEF Reads, StaleAtMostTTL, RefusedOnFreshLookup
<1>6. Entries
  BY <1>1 DEF Entries
<1> QED BY <1>3, <1>4, <1>5, <1>6 DEF IInv

------------------------------------------------------------------------------
(* The clock and the cluster.                                               *)

(* Time or the objects moved: what was true before is true no less late.    *)
LEMMA Later ==
  ASSUME IInv, NEW time \in Nat, NEW lists, lists \in [Keys -> Lists], now <= time,
         now' = time, objects' = lists,
         held' = [p \in DOMAIN held \union DOMAIN HeldNow(time, lists) |->
                    IF p \in DOMAIN HeldNow(time, lists) THEN time ELSE held[p]],
         \A c \in Calls : call[c].stage = "listed" /\ call[c].read \in Nat =>
           time <= call[c].read + LookupTime,
         UNCHANGED <<configVars, cache, call>>
  PROVE  IInv'
<1>1. /\ DOMAIN held \subseteq DOMAIN held' /\ held' = [p \in DOMAIN held' |-> held'[p]]
      /\ \A p \in DOMAIN held' : held'[p] \in 0..time
      /\ \A p \in DOMAIN held : held[p] \in Nat /\ held'[p] \in Nat /\ held[p] <= held'[p]
  BY DEF IInv, Types
<1>2. Types'
  BY <1>1 DEF IInv, Types, configVars
<1>3. HeldIsCurrent'
  BY DEF HeldIsCurrent, HeldNow
<1>4. Reads'
  BY <1>1 DEF IInv, Reads
<1>5. Entries'
  <2> SUFFICES ASSUME NEW k \in DOMAIN cache
               PROVE  /\ cache[k].expires \in Nat /\ <<k, cache[k].value>> \in DOMAIN held'
                      /\ cache[k].expires <= held'[<<k, cache[k].value>>] + ttl + LookupTime
    BY DEF Entries, configVars
  <2> QED BY <1>1, KubeAssumption DEF IInv, Entries, Types
<1>6. StaleAtMostTTL' /\ RefusedOnFreshLookup'
  BY DEF IInv, StaleAtMostTTL, RefusedOnFreshLookup, configVars, Mapping
<1> QED BY <1>2, <1>3, <1>4, <1>5, <1>6 DEF IInv

LEMMA TickStep == IInv /\ Tick => IInv'
<1> SUFFICES ASSUME IInv, Tick PROVE IInv'
  OBVIOUS
<1>1. now' = now + 1 /\ now' \in Nat /\ objects' = objects /\ objects \in [Keys -> Lists]
  BY DEF Tick, IInv, Types
<1>2. \A c \in Calls : call[c].stage = "listed" /\ call[c].read \in Nat =>
        now' <= call[c].read + LookupTime
  BY <1>1, KubeAssumption DEF Tick, IInv, Types
<1> QED BY <1>1, <1>2, Later DEF Tick, IInv, Types

LEMMA ObjectsStep == ASSUME NEW k \in Keys, IInv, ObjectsChange(k) PROVE IInv'
<1>1. objects' \in [Keys -> Lists] /\ now' = now /\ now \in Nat
  BY DEF ObjectsChange, IInv, Types
<1>2. \A c \in Calls : call[c].stage = "listed" /\ call[c].read \in Nat =>
        now <= call[c].read + LookupTime
  BY DEF IInv, Reads
<1>3. \E lists : lists \in [Keys -> Lists] /\ objects' = lists
  BY <1>1
<1>4. held' = [p \in DOMAIN held \union DOMAIN HeldNow(now, objects') |->
                 IF p \in DOMAIN HeldNow(now, objects') THEN now ELSE held[p]]
      /\ UNCHANGED <<configVars, cache, call>>
  BY DEF ObjectsChange
<1>5. now <= now
  BY <1>1
<1> QED BY <1>1, <1>2, <1>4, <1>5, Later

------------------------------------------------------------------------------
(* One call.                                                                *)

(* The conjuncts that are about call c.                                     *)
CallOk(r) ==
  /\ IsCall(r)
  /\ r.stage \in {"listing", "listed"} => r.key = <<r.key[1], r.key[2]>>
  /\ r.stage = "listing" => r.key \in Keys
  /\ r.stage = "listed" =>
       /\ r.read \in Nat /\ now <= r.read + LookupTime
       /\ <<r.key, r.answer>> \in DOMAIN held
       /\ r.read <= held[<<r.key, r.answer>>]
  /\ r.answer # "none" => r.age <= IF ttl = 0 THEN LookupTime ELSE ttl + LookupTime - 1
  /\ r.stage = "refused" =>
       \/ Spellings(r.values, Mappings[r.index].header) = {}
       \/ \E h \in Spellings(r.values, Mappings[r.index].header) :
            <<Mappings[r.index].resource, r.values[h]>> \in Malformed
       \/ r.answer = "none" /\ r.age <= LookupTime

LEMMA CallsOk == ASSUME IInv, NEW c \in Calls PROVE CallOk(call[c])
  BY DEF IInv, CallOk, Types, Reads, StaleAtMostTTL, RefusedOnFreshLookup, Mapping

(* A step of call c is right when it leaves c right.                        *)
LEMMA CallMoves ==
  ASSUME IInv, NEW c \in Calls, NEW r, CallOk(r), call' = [call EXCEPT ![c] = r],
         UNCHANGED <<configVars, clusterVars>>, Entries'
  PROVE  IInv'
<1>1. call' = [d \in Calls |-> call'[d]] /\ call'[c] = r
      /\ \A d \in Calls : d # c => call'[d] = call[d]
  BY DEF IInv, Types
<1>2. \A d \in Calls : CallOk(call'[d])
  BY <1>1, CallsOk
<1>3. UNCHANGED <<ttl, now, objects, held>>
  BY DEF configVars, clusterVars
<1>4. Types' /\ HeldIsCurrent'
  BY <1>1, <1>2, <1>3 DEF IInv, Types, HeldIsCurrent, CallOk
<1>5. Reads' /\ StaleAtMostTTL' /\ RefusedOnFreshLookup'
  BY <1>2, <1>3 DEF Reads, StaleAtMostTTL, RefusedOnFreshLookup, CallOk, Mapping
<1> QED BY <1>4, <1>5 DEF IInv

LEMMA EntriesStay ==
  ASSUME IInv, UNCHANGED <<configVars, clusterVars, cache>>
  PROVE  Entries'
  BY DEF IInv, Entries, configVars, clusterVars

(* Going on to the next mapping or component asks nothing new.              *)
LEMMA ContinueOk ==
  ASSUME IInv, NEW r, IsCall(r),
         r.answer # "none" => r.age <= IF ttl = 0 THEN LookupTime ELSE ttl + LookupTime - 1
  PROVE  CallOk(Continue(r))
<1>1. Continue(r) \in {[r EXCEPT !.stage = "forward"],
                       [r EXCEPT !.stage = "mapping", !.index = @ + 1]}
  BY DEF Continue
<1>2. /\ IsCall(Continue(r)) /\ Continue(r).stage \in {"forward", "mapping"}
      /\ Continue(r).answer = r.answer /\ Continue(r).age = r.age
  BY <1>1 DEF IsCall
<1> QED BY <1>2 DEF CallOk

(* A value that was true at most so long ago is returned.                   *)
LEMMA MapReturnsOk ==
  ASSUME IInv, NEW c \in Calls, NEW key, NEW value, MapReturns(c, key, value),
         Age(key, value) <= IF ttl = 0 THEN LookupTime ELSE ttl + LookupTime - 1,
         UNCHANGED <<configVars, clusterVars>>, Entries'
  PROVE  IInv'
<1> DEFINE r == [call[c] EXCEPT !.values = WithHeader(call[c].values, Mapping(c).target, value),
                                !.key = <<>>, !.read = 0, !.answer = value,
                                !.age = Age(key, value)]
<1>1. IsCall(call[c])
  BY DEF IInv, Types
<1>2. IsCall(r) /\ r.age = Age(key, value)
  BY <1>1 DEF IsCall
<1>3. CallOk(Continue(r))
  BY <1>2, ContinueOk
<1>4. call' = [call EXCEPT ![c] = Continue(r)]
  BY DEF MapReturns
<1> HIDE DEF r
<1> QED BY <1>3, <1>4, CallMoves

(* A lookup that failed: for good only when the objects gave no value.      *)
LEMMA MapFailsOk ==
  ASSUME IInv, NEW c \in Calls, NEW result, MapFails(c, result),
         result \in {"refused", "retryable"},
         result = "refused" => Age(call[c].key, "none") <= LookupTime,
         UNCHANGED <<configVars, clusterVars, cache>>
  PROVE  IInv'
<1> DEFINE failed == [call[c] EXCEPT !.answer = "none", !.age = Age(call[c].key, "none")]
<1>1. IsCall(call[c]) /\ call = [d \in Calls |-> call[d]]
  BY DEF IInv, Types
<1>2. IsCall(failed) /\ failed.answer = "none" /\ failed.age = Age(call[c].key, "none")
  BY <1>1 DEF IsCall
<1>3. CallOk(Continue(failed))
  BY <1>2, ContinueOk
<1>4. CallOk([failed EXCEPT !.stage = result])
  BY <1>2 DEF CallOk, IsCall
<1>5. call' = [call EXCEPT ![c] = IF errorMode = "ignore" THEN Continue(failed)
                                    ELSE [failed EXCEPT !.stage = result]]
  BY DEF MapFails
<1> HIDE DEF failed
<1> QED BY <1>3, <1>4, <1>5, CallMoves, EntriesStay

(* An unexpired entry was true less than ttl and a lookup ago.              *)
LEMMA HitStep == ASSUME NEW c \in Calls, IInv, Hit(c) PROVE IInv'
<1>1. PICK value \in Expanded(c) :
        /\ Cached(CacheKey(Mapping(c).resource, value))
        /\ MapReturns(c, <<Mapping(c).resource, value>>,
                      cache[CacheKey(Mapping(c).resource, value)].value)
        /\ UNCHANGED <<configVars, clusterVars, cache>>
  BY DEF Hit
<1> DEFINE key == <<Mapping(c).resource, value>>
<1>2. /\ ttl > 0 /\ key \in DOMAIN cache /\ now < cache[key].expires
      /\ MapReturns(c, key, cache[key].value)
  BY <1>1 DEF CacheKey, Cached
<1> HIDE DEF key
<1>3. /\ <<key, cache[key].value>> \in DOMAIN held /\ cache[key].expires \in Nat
      /\ cache[key].expires <= held[<<key, cache[key].value>>] + ttl + LookupTime
  BY <1>2 DEF IInv, Entries
<1>4. /\ held[<<key, cache[key].value>>] \in Nat /\ ttl \in Nat /\ now \in Nat
      /\ LookupTime \in Nat
  BY <1>3, KubeAssumption DEF IInv, Types
<1>5. Age(key, cache[key].value) <= ttl + LookupTime - 1 /\ ttl # 0
  BY <1>2, <1>3, <1>4 DEF Age
<1> QED BY <1>1, <1>2, <1>5, EntriesStay, MapReturnsOk

(* What was read is stored with the time that is left to it.                *)
LEMMA ValueFoundStep == ASSUME NEW c \in Calls, IInv, ValueFound(c) PROVE IInv'
<1> DEFINE key == call[c].key
           value == call[c].answer
<1>1. /\ <<key, value>> \in DOMAIN held /\ call[c].read \in Nat
      /\ now <= call[c].read + LookupTime /\ call[c].read <= held[<<key, value>>]
  BY DEF ValueFound, IInv, Reads
<1>2. held[<<key, value>>] \in Nat /\ ttl \in Nat /\ now \in Nat /\ LookupTime \in Nat
  BY <1>1, KubeAssumption DEF IInv, Types
<1>3. Age(key, value) <= IF ttl = 0 THEN LookupTime ELSE ttl + LookupTime - 1
  BY <1>1, <1>2 DEF Age
<1>4. Entries'
  <2>1. CASE ttl > 0
    <3>0. CacheKey(key[1], key[2]) = key
      BY DEF ValueFound, IInv, Reads, CacheKey
    <3>1. PICK victim :
            cache' = [k \in (DOMAIN cache \ victim) \union {key} |->
              IF k = key THEN [value |-> value, expires |-> now + ttl] ELSE cache[k]]
      <4>1. SetCache(CacheKey(key[1], key[2]), value)
        BY <2>1 DEF ValueFound
      <4>2. SetCache(key, value)
        BY <3>0, <4>1
      <4> HIDE DEF key, value
      <4> QED BY <4>2, Zenon DEF SetCache
    <3>2. UNCHANGED <<ttl, held>>
      BY DEF ValueFound, configVars, clusterVars
    <3> SUFFICES ASSUME NEW k \in DOMAIN cache'
                 PROVE  /\ cache'[k].expires \in Nat
                        /\ <<k, cache'[k].value>> \in DOMAIN held
                        /\ cache'[k].expires
                             <= held[<<k, cache'[k].value>>] + ttl + LookupTime
      BY <3>2 DEF Entries
    <3>3. CASE k = key
      <4>1. cache'[k].value = value /\ cache'[k].expires = now + ttl
        BY <3>1, <3>3
      <4>2. now + ttl <= held[<<key, value>>] + ttl + LookupTime
        BY <1>1, <1>2
      <4> QED BY <1>1, <1>2, <3>3, <4>1, <4>2
    <3>4. CASE k # key
      <4>1. k \in DOMAIN cache /\ cache'[k] = cache[k]
        BY <3>1, <3>4
      <4> QED BY <4>1 DEF IInv, Entries
    <3> QED BY <3>3, <3>4
  <2>2. CASE ~(ttl > 0)
    BY <2>2, EntriesStay DEF ValueFound
  <2> QED BY <2>1, <2>2
<1>5. MapReturns(c, key, value) /\ UNCHANGED <<configVars, clusterVars>>
  BY DEF ValueFound
<1> QED BY <1>3, <1>4, <1>5, MapReturnsOk

(* The other steps of a call.                                               *)
LEMMA OtherCallStep ==
  ASSUME NEW c \in Calls, IInv,
         \/ Consume(c) \/ SelectorMissing(c) \/ SelectorMalformed(c) \/ Miss(c)
         \/ ListAnswers(c) \/ ListFails(c) \/ MappingRefused(c) \/ Returns(c)
  PROVE  IInv'
<1>1. CallOk(call[c]) /\ IsCall(call[c])
  BY CallsOk DEF CallOk
<1>2. CASE Consume(c)
  <2>1. PICK headers \in Metadata :
          call' = [call EXCEPT ![c] = [Idle EXCEPT !.stage = "mapping", !.values = headers]]
    BY <1>2 DEF Consume
  <2>2. CallOk([Idle EXCEPT !.stage = "mapping", !.values = headers])
    BY DEF CallOk, IsCall, Idle
  <2> QED BY <1>2, <2>1, <2>2, CallMoves, EntriesStay DEF Consume
<1>3. CASE SelectorMissing(c) \/ SelectorMalformed(c)
  <2>1. CallOk(Continue(call[c]))
    BY <1>1, ContinueOk DEF CallOk
  <2>2. \/ Spellings(call[c].values, Mapping(c).header) = {}
        \/ \E h \in Spellings(call[c].values, Mapping(c).header) :
             <<Mapping(c).resource, call[c].values[h]>> \in Malformed
    <3>1. CASE SelectorMissing(c)
      BY <3>1, NothingExpanded DEF SelectorMissing
    <3>2. CASE SelectorMalformed(c)
      BY <3>2, ExpandedValue DEF SelectorMalformed
    <3> QED BY <1>3, <3>1, <3>2
  <2>3. CallOk([call[c] EXCEPT !.stage = "refused"])
    <3>1. PICK r : r = [call[c] EXCEPT !.stage = "refused"]
      OBVIOUS
    <3>2. /\ IsCall(r) /\ r.stage = "refused" /\ r.index = call[c].index
          /\ r.values = call[c].values /\ r.answer = call[c].answer /\ r.age = call[c].age
      BY <1>1, <3>1 DEF IsCall
    <3>3. CallOk(r)
      BY <1>1, <2>2, <3>2 DEF CallOk, Mapping
    <3> QED BY <3>1, <3>3
  <2>4. SelectorFails(c)
    BY <1>3 DEF SelectorMissing, SelectorMalformed
  <2>5. call' = [call EXCEPT ![c] = IF errorMode = "ignore" THEN Continue(call[c])
                                      ELSE [call[c] EXCEPT !.stage = "refused"]]
    BY <2>4 DEF SelectorFails, IInv, Types
  <2> QED BY <2>1, <2>3, <2>4, <2>5, CallMoves, EntriesStay DEF SelectorFails
<1>4. CASE Miss(c)
  <2>1. PICK value :
          /\ <<Mapping(c).resource, value>> \in Keys
          /\ call' = [call EXCEPT ![c] =
               [call[c] EXCEPT !.stage = "listing", !.key = <<Mapping(c).resource, value>>]]
    BY <1>4 DEF Miss, IInv, Types
  <2> DEFINE key == <<Mapping(c).resource, value>>
             r == [call[c] EXCEPT !.stage = "listing", !.key = key]
  <2>2. key = <<key[1], key[2]>>
    OBVIOUS
  <2> HIDE DEF key
  <2>3. /\ IsCall(r) /\ r.stage = "listing" /\ r.key = key
        /\ r.answer = call[c].answer /\ r.age = call[c].age
    BY <1>1 DEF IsCall
  <2>4. CallOk(r)
    BY <1>1, <2>1, <2>2, <2>3 DEF CallOk, key
  <2>5. call' = [call EXCEPT ![c] = r]
    BY <2>1 DEF key
  <2> HIDE DEF r
  <2> QED BY <1>4, <2>4, <2>5, CallMoves, EntriesStay DEF Miss
<1>5. CASE ListAnswers(c)
  <2> DEFINE answer == Answer(objects[call[c].key])
             r == [call[c] EXCEPT !.stage = "listed", !.read = now, !.answer = answer, !.age = 0]
  <2>1. call[c].key \in Keys /\ call[c].key = <<call[c].key[1], call[c].key[2]>>
    BY <1>1, <1>5 DEF CallOk, ListAnswers
  <2>2. <<call[c].key, answer>> \in DOMAIN held /\ held[<<call[c].key, answer>>] = now
    BY <2>1 DEF IInv, HeldIsCurrent
  <2>3. now \in Nat /\ ttl \in Nat /\ LookupTime \in Nat
    BY KubeAssumption DEF IInv, Types
  <2> HIDE DEF answer
  <2>4. /\ IsCall(r) /\ r.stage = "listed" /\ r.read = now /\ r.answer = answer
        /\ r.age = 0 /\ r.key = call[c].key
    BY <1>1 DEF IsCall
  <2>5. CallOk(r)
    BY <2>1, <2>2, <2>3, <2>4 DEF CallOk
  <2>6. call' = [call EXCEPT ![c] = r]
    BY <1>5 DEF ListAnswers, answer, IInv, Types
  <2> HIDE DEF r
  <2> QED BY <1>5, <2>5, <2>6, CallMoves, EntriesStay DEF ListAnswers
<1>6. CASE ListFails(c)
  BY <1>6, MapFailsOk DEF ListFails
<1>7. CASE MappingRefused(c)
  <2>1. /\ <<call[c].key, "none">> \in DOMAIN held /\ call[c].read \in Nat
        /\ now <= call[c].read + LookupTime /\ call[c].read <= held[<<call[c].key, "none">>]
    BY <1>7 DEF MappingRefused, IInv, Reads
  <2>2. held[<<call[c].key, "none">>] \in Nat /\ now \in Nat /\ LookupTime \in Nat
    BY <2>1, KubeAssumption DEF IInv, Types
  <2>3. Age(call[c].key, "none") <= LookupTime
    BY <2>1, <2>2 DEF Age
  <2> QED BY <1>7, <2>3, MapFailsOk DEF MappingRefused
<1>8. CASE Returns(c)
  <2>1. CallOk(Idle)
    BY DEF CallOk, IsCall, Idle
  <2> QED BY <1>8, <2>1, CallMoves, EntriesStay DEF Returns
<1> QED BY <1>2, <1>3, <1>4, <1>5, <1>6, <1>7, <1>8

(* Every step preserves the invariant.                                      *)
LEMMA StepIInv == IInv /\ [Next]_vars => IInv'
<1> SUFFICES ASSUME IInv, [Next]_vars PROVE IInv'
  OBVIOUS
<1>1. CASE UNCHANGED mappingVars
  <2>1. Types' /\ HeldIsCurrent' /\ Reads' /\ Entries'
    BY <1>1 DEF IInv, Types, HeldIsCurrent, Reads, Entries, mappingVars, configVars, clusterVars
  <2>2. StaleAtMostTTL' /\ RefusedOnFreshLookup'
    BY <1>1 DEF IInv, StaleAtMostTTL, RefusedOnFreshLookup, Mapping, mappingVars, configVars
  <2> QED BY <2>1, <2>2 DEF IInv
<1>2. CASE Tick
  BY <1>2, TickStep
<1>3. ASSUME NEW k \in Keys, ObjectsChange(k) PROVE IInv'
  BY <1>3, ObjectsStep
<1>4. ASSUME NEW c \in Calls, CallStep(c) PROVE IInv'
  BY <1>4, HitStep, ValueFoundStep, OtherCallStep DEF CallStep
<1>5. CASE UNCHANGED vars
  BY <1>1, <1>5 DEF vars
<1> QED BY <1>1, <1>2, <1>3, <1>4, <1>5 DEF Next

(* A value is returned at most ttl after it was stored, and was true at     *)
(* most LookupTime before that, whatever other calls do to the cache.       *)
THEOREM Staleness == Spec => []StaleAtMostTTL
<1>1. IInv => StaleAtMostTTL
  BY DEF IInv
<1> QED BY InitIInv, StepIInv, <1>1, PTL DEF Spec

(* A payload is refused for good only on what was read for it, for a header *)
(* it lacks, or for a selector that its headers spoil.                      *)
THEOREM RefusedOnlyFresh == Spec => []RefusedOnFreshLookup
<1>1. IInv => RefusedOnFreshLookup
  BY DEF IInv
<1> QED BY InitIInv, StepIInv, <1>1, PTL DEF Spec

------------------------------------------------------------------------------
(* The manager.                                                             *)

(* Where Start, the manager and its result stand to one another.            *)
Manager ==
  /\ done \in {0, 1}
  /\ manager \in {"none", "runs", "ended"}
  /\ start \in {"idle", "informers"} => manager = "none"
  /\ manager \in {"none", "runs"} => done = 0
  /\ shutdown # "idle" => start \in {"ok", "failed", "idle"}
  /\ manager = "ended" /\ shutdown \in {"idle", "waiting"} => done = 1 \/ start = "failed"

ManagerInv == Manager /\ ManagerAccounted

LEMMA ManagerStep == ManagerInv /\ [Next]_vars => ManagerInv'
<1> SUFFICES ASSUME ManagerInv, [Next]_vars PROVE ManagerInv'
  OBVIOUS
<1> USE DEF ManagerInv, Manager, ManagerAccounted
<1>1. CASE LookupStep
  <2>1. CASE StartBegins \/ InformerFails \/ \E resource \in Resources : InformerCreated(resource)
    BY <2>1 DEF StartBegins, InformerFails, InformerCreated
  <2>2. CASE ManagerStarts
    BY <2>2 DEF ManagerStarts
  <2>3. CASE SyncSucceeds \/ SyncFails \/ CachesSync \/ HostCancels
    BY <2>3 DEF SyncSucceeds, SyncFails, CachesSync, HostCancels
  <2>4. CASE StartEnds
    BY <2>4 DEF StartEnds
  <2>5. CASE ManagerEnds
    BY <2>5 DEF ManagerEnds
  <2>6. CASE ShutdownEnds \/ ShutdownExpires
    BY <2>6 DEF ShutdownEnds, ShutdownExpires
  <2> QED BY <1>1, <2>1, <2>2, <2>3, <2>4, <2>5, <2>6 DEF LookupStep
<1>2. CASE HostShutsDown
  BY <1>2 DEF HostShutsDown, Shutdown
<1>3. CASE UNCHANGED lookupVars
  BY <1>3 DEF lookupVars
<1>4. CASE UNCHANGED vars
  BY <1>3, <1>4 DEF vars
<1> QED BY <1>1, <1>2, <1>3, <1>4 DEF Next

(* A failed Start and a Shutdown leave no manager behind.                   *)
THEOREM ManagerNotLeft == Spec => []ManagerAccounted
<1>1. Init => ManagerInv
  BY DEF Init, LookupInit, ManagerInv, Manager, ManagerAccounted
<1>2. ManagerInv => ManagerAccounted
  BY DEF ManagerInv
<1> QED BY <1>1, ManagerStep, <1>2, PTL DEF Spec

------------------------------------------------------------------------------
(* The headers that go on.                                                  *)

(* A mapping writes neither a header that it or one before it has read, nor *)
(* one that one before it has written, in whatever spelling.                *)
MappingsInOrder ==
  /\ \A i \in DOMAIN Mappings : Lower(Mappings[i].target) # Lower(Mappings[i].header)
  /\ \A i, j \in DOMAIN Mappings :
       i < j => Lower(Mappings[j].target) \notin {Lower(Mappings[i].header),
                                                 Lower(Mappings[i].target)}

(* The target has a value that the selector had, for one of the spellings   *)
(* of its header.                                                           *)
Translated(values, mapping, pairs) ==
  \E h \in Spellings(values, mapping.header) :
    /\ mapping.target \in DOMAIN values
    /\ <<<<mapping.resource, values[h]>>, values[mapping.target]>> \in pairs

(* So it is for the mappings behind the call; the one it is at looks up the *)
(* header it has.                                                           *)
Consistent(r, pairs) ==
  /\ r.index \in Nat
  /\ r.stage \in {"mapping", "listing", "listed", "forward"} =>
       \A i \in DOMAIN Mappings :
         i < r.index \/ r.stage = "forward" => Translated(r.values, Mappings[i], pairs)
  /\ r.stage \in {"listing", "listed"} =>
       \E h \in Spellings(r.values, Mappings[r.index].header) :
         r.key = <<Mappings[r.index].resource, r.values[h]>>
  /\ r.stage \in {"mapping", "listing", "listed"} => r.index \in DOMAIN Mappings

HeadersInv ==
  /\ now <= MaxTime
  /\ errorMode = "propagate" => \A c \in Calls : Consistent(call[c], DOMAIN held)

LEMMA InitHeaders ==
  ASSUME NEW M, Mappings \in Seq(M), Init
  PROVE  HeadersInv
<1>1. now = 0 /\ 0 <= MaxTime /\ \A c \in Calls : call[c] = Idle
  BY KubeAssumption DEF Init
<1>2. Consistent(Idle, DOMAIN held)
  BY DEF Consistent, Idle
<1> QED BY <1>1, <1>2 DEF HeadersInv

LEMMA ConsistentLater ==
  ASSUME NEW r, NEW pairs, NEW more, pairs \subseteq more, Consistent(r, pairs)
  PROVE  Consistent(r, more)
  BY DEF Consistent, Translated

(* A step that leaves the calls alone.                                      *)
LEMMA HeadersKept ==
  ASSUME HeadersInv, UNCHANGED <<errorMode, call>>, DOMAIN held \subseteq DOMAIN held',
         now' <= MaxTime
  PROVE  HeadersInv'
<1> SUFFICES ASSUME errorMode = "propagate", NEW c \in Calls
             PROVE  Consistent(call[c], DOMAIN held')
  BY DEF HeadersInv
<1> QED BY ConsistentLater DEF HeadersInv

LEMMA HeadersMove ==
  ASSUME HeadersInv, IInv, NEW c \in Calls, NEW r, call' = [call EXCEPT ![c] = r],
         UNCHANGED <<configVars, clusterVars>>,
         errorMode = "propagate" => Consistent(r, DOMAIN held)
  PROVE  HeadersInv'
<1>1. \A d \in Calls : call'[d] = r \/ call'[d] = call[d]
  BY DEF IInv, Types
<1> QED BY <1>1 DEF HeadersInv, configVars, clusterVars

(* The mapping the call is at is done too.                                  *)
LEMMA ContinueConsistent ==
  ASSUME NEW M, Mappings \in Seq(M), Mappings # <<>>, NEW r, IsCall(r), NEW pairs,
         r.index \in DOMAIN Mappings,
         \A i \in DOMAIN Mappings : i <= r.index => Translated(r.values, Mappings[i], pairs)
  PROVE  Consistent(Continue(r), pairs)
<1>1. PICK n : n = Len(Mappings)
  OBVIOUS
<1>2. n \in Nat /\ DOMAIN Mappings = 1..n
  BY <1>1
<1>3. CASE r.index = n
  <2>1. PICK q : q = [r EXCEPT !.stage = "forward"]
    OBVIOUS
  <2>2. Continue(r) = q /\ q.stage = "forward" /\ q.values = r.values /\ q.index = r.index
    BY <1>1, <1>3, <2>1 DEF Continue, IsCall
  <2>3. \A i \in DOMAIN Mappings : Translated(q.values, Mappings[i], pairs)
    BY <1>2, <1>3, <2>2
  <2> QED BY <2>2, <2>3 DEF Consistent
<1>4. CASE r.index # n
  <2>1. PICK q : q = [[r EXCEPT !.stage = "mapping"] EXCEPT !.index = @ + 1]
    OBVIOUS
  <2>2. Continue(r) = q /\ q.stage = "mapping" /\ q.values = r.values /\ q.index = r.index + 1
    BY <1>1, <1>4, <2>1 DEF Continue, IsCall
  <2>3. \A i \in DOMAIN Mappings : i < q.index => Translated(q.values, Mappings[i], pairs)
    BY <1>2, <2>2
  <2>4. q.index \in DOMAIN Mappings
    BY <1>2, <1>4, <2>2
  <2> QED BY <2>2, <2>3, <2>4 DEF Consistent
<1> QED BY <1>3, <1>4

(* The target gets a value that the selector had.                           *)
LEMMA MapReturnsConsistent ==
  ASSUME NEW M, Mappings \in Seq(M), Mappings # <<>>, MappingsInOrder, HeadersInv, IInv,
         NEW c \in Calls, NEW key, NEW value, MapReturns(c, key, value),
         call[c].stage \in {"mapping", "listed"}, call[c].index \in DOMAIN Mappings,
         NEW h \in Spellings(call[c].values, Mapping(c).header),
         key = <<Mapping(c).resource, call[c].values[h]>>,
         <<key, value>> \in DOMAIN held, UNCHANGED <<configVars, clusterVars>>
  PROVE  HeadersInv'
<1>1. PICK m, values, r :
        /\ m = Mapping(c) /\ values = WithHeader(call[c].values, m.target, value)
        /\ r = [call[c] EXCEPT !.values = values, !.key = <<>>, !.read = 0, !.answer = value,
                               !.age = Age(key, value)]
  OBVIOUS
<1>2. IsCall(call[c]) /\ call' = [call EXCEPT ![c] = Continue(r)]
  BY <1>1 DEF IInv, Types, MapReturns
<1>3. IsCall(r) /\ r.values = values /\ r.index = call[c].index
  BY <1>1, <1>2 DEF IsCall
<1>4. ASSUME errorMode = "propagate" PROVE Consistent(Continue(r), DOMAIN held)
  <2>1. Consistent(call[c], DOMAIN held)
    BY <1>4 DEF HeadersInv
  <2>2. /\ DOMAIN values = DOMAIN call[c].values \union {m.target}
        /\ values[m.target] = value
        /\ \A k \in DOMAIN call[c].values : k # m.target => values[k] = call[c].values[k]
    BY <1>1 DEF WithHeader
  <2>3. m = Mappings[call[c].index]
    BY <1>1 DEF Mapping
  <2>4. ASSUME NEW i \in DOMAIN Mappings, i <= call[c].index
        PROVE  Translated(values, Mappings[i], DOMAIN held)
    <3>1. CASE i = call[c].index
      <4>1. Lower(m.header) # Lower(m.target)
        BY <2>3 DEF MappingsInOrder
      <4>2. h \in DOMAIN call[c].values /\ Lower(h) = Lower(m.header)
        BY <1>1 DEF Spellings
      <4>3. h \in Spellings(values, m.header) /\ values[h] = call[c].values[h]
        BY <2>2, <4>1, <4>2 DEF Spellings
      <4>4. <<<<m.resource, values[h]>>, values[m.target]>> = <<key, value>>
        BY <1>1, <2>2, <4>3
      <4> QED BY <2>2, <2>3, <3>1, <4>3, <4>4 DEF Translated
    <3>2. CASE i # call[c].index
      <4>1. i < call[c].index
        BY <3>2, <2>1, <2>4 DEF Consistent
      <4>2. PICK n : n = Mappings[i]
        OBVIOUS
      <4>3. Translated(call[c].values, n, DOMAIN held)
        BY <2>1, <4>1, <4>2 DEF Consistent
      <4>4. PICK k \in Spellings(call[c].values, n.header) :
              /\ n.target \in DOMAIN call[c].values
              /\ <<<<n.resource, call[c].values[k]>>, call[c].values[n.target]>> \in DOMAIN held
        BY <4>3 DEF Translated
      <4>5. Lower(m.target) # Lower(n.header) /\ Lower(m.target) # Lower(n.target)
        BY <2>3, <4>1, <4>2 DEF MappingsInOrder
      <4>6. k \in DOMAIN call[c].values /\ Lower(k) = Lower(n.header)
        BY <4>4 DEF Spellings
      <4>7. k # m.target /\ n.target # m.target
        BY <4>5, <4>6
      <4>8. k \in Spellings(values, n.header)
        BY <2>2, <4>6 DEF Spellings
      <4>9. values[k] = call[c].values[k] /\ values[n.target] = call[c].values[n.target]
        BY <2>2, <4>4, <4>6, <4>7
      <4> QED BY <2>2, <4>2, <4>4, <4>8, <4>9 DEF Translated
    <3> QED BY <3>1, <3>2
  <2> QED BY <1>3, <2>1, <2>4, ContinueConsistent DEF Consistent
<1> QED BY <1>2, <1>4, HeadersMove

LEMMA CallHeaders ==
  ASSUME NEW M, Mappings \in Seq(M), Mappings # <<>>, MappingsInOrder, HeadersInv, IInv,
         NEW c \in Calls, CallStep(c)
  PROVE  HeadersInv'
<1>1. /\ UNCHANGED <<configVars, clusterVars>> /\ IsCall(call[c])
      /\ call = [d \in Calls |-> call[d]]
  BY DEF CallStep, Consume, SelectorMissing, SelectorMalformed, SelectorFails, Hit, Miss,
         ListAnswers, ListFails, MappingRefused, ValueFound, Returns, IInv, Types
<1>2. errorMode = "propagate" => Consistent(call[c], DOMAIN held)
  BY DEF HeadersInv
<1>3. CASE Consume(c)
  <2>1. PICK r : \E headers \in Metadata :
          /\ r = [Idle EXCEPT !.stage = "mapping", !.values = headers]
          /\ call' = [call EXCEPT ![c] = r]
    BY <1>3 DEF Consume
  <2>2. r.index = 1 /\ r.stage = "mapping"
    BY <2>1 DEF Idle
  <2>3. Consistent(r, DOMAIN held)
    <3>1. 1 \in DOMAIN Mappings /\ \A i \in DOMAIN Mappings : ~(i < 1)
      <4>1. Len(Mappings) \in Nat /\ Len(Mappings) # 0 /\ DOMAIN Mappings = 1..Len(Mappings)
        BY EmptySeq
      <4> QED BY <4>1
    <3> QED BY <2>2, <3>1 DEF Consistent
  <2> QED BY <1>1, <2>1, <2>3, HeadersMove
<1>4. CASE Returns(c)
  <2>1. Consistent(Idle, DOMAIN held)
    BY DEF Consistent, Idle
  <2> QED BY <1>1, <1>4, <2>1, HeadersMove DEF Returns
<1>5. ASSUME NEW stage, stage \in {"refused", "retryable"}, NEW r, r.stage = stage,
             r.index = call[c].index,
             errorMode = "propagate" => call' = [call EXCEPT ![c] = r],
             \E q : call' = [call EXCEPT ![c] = q]
      PROVE  HeadersInv'
  <2>1. CASE errorMode = "propagate"
    <3>1. Consistent(r, DOMAIN held)
      BY <1>2, <1>5, <2>1 DEF Consistent
    <3> QED BY <1>1, <1>5, <2>1, <3>1, HeadersMove
  <2>2. CASE errorMode # "propagate"
    BY <1>1, <1>5, <2>2, HeadersMove
  <2> QED BY <2>1, <2>2
<1>6. CASE SelectorMissing(c) \/ SelectorMalformed(c)
  <2>1. PICK r : r = [call[c] EXCEPT !.stage = "refused"]
    OBVIOUS
  <2>2. r.stage = "refused" /\ r.index = call[c].index
    BY <1>1, <2>1 DEF IsCall
  <2>3. call' = [call EXCEPT ![c] = IF errorMode = "ignore" THEN Continue(call[c]) ELSE r]
    BY <1>1, <1>6, <2>1 DEF SelectorMissing, SelectorMalformed, SelectorFails
  <2> QED BY <1>5, <2>2, <2>3
<1>7. ASSUME NEW result \in {"refused", "retryable"}, MapFails(c, result)
      PROVE  HeadersInv'
  <2>1. PICK failed, r : /\ failed = [call[c] EXCEPT !.answer = "none", !.age = Age(call[c].key, "none")]
                         /\ r = [failed EXCEPT !.stage = result]
    OBVIOUS
  <2>2. r.stage = result /\ r.index = call[c].index
    BY <1>1, <2>1 DEF IsCall
  <2>3. call' = [call EXCEPT ![c] = IF errorMode = "ignore" THEN Continue(failed) ELSE r]
    BY <1>7, <2>1 DEF MapFails
  <2> QED BY <1>5, <1>7, <2>2, <2>3
<1>8. CASE ListFails(c) \/ MappingRefused(c)
  BY <1>7, <1>8 DEF ListFails, MappingRefused
<1>9. ASSUME NEW value \in Expanded(c)
      PROVE  \E h \in Spellings(call[c].values, Mapping(c).header) : value = call[c].values[h]
  BY <1>9, ExpandedValue
<1>10. ASSUME NEW r, call' = [call EXCEPT ![c] = r], errorMode = "propagate" => Consistent(r, DOMAIN held)
       PROVE  HeadersInv'
  BY <1>1, <1>10, HeadersMove
<1>11. CASE Hit(c) /\ errorMode = "propagate"
  <2>1. PICK value, key :
          /\ value \in Expanded(c) /\ key = <<Mapping(c).resource, value>>
          /\ key \in DOMAIN cache /\ MapReturns(c, key, cache[key].value)
          /\ call[c].stage = "mapping"
    BY <1>11, Zenon DEF Hit, Selects, Cached, CacheKey
  <2>2. <<key, cache[key].value>> \in DOMAIN held
    BY <2>1 DEF IInv, Entries
  <2>3. PICK h \in Spellings(call[c].values, Mapping(c).header) : value = call[c].values[h]
    BY <1>9, <2>1
  <2>4. key = <<Mapping(c).resource, call[c].values[h]>> /\ call[c].index \in DOMAIN Mappings
    BY <1>2, <1>11, <2>1, <2>3 DEF Consistent
  <2> QED BY <1>1, <2>1, <2>2, <2>4, MapReturnsConsistent
<1>12. CASE Miss(c) /\ errorMode = "propagate"
  <2>1. PICK value, key, r :
          /\ value \in Expanded(c) /\ key = <<Mapping(c).resource, value>>
          /\ call[c].stage = "mapping"
          /\ r = [call[c] EXCEPT !.stage = "listing", !.key = key]
          /\ call' = [call EXCEPT ![c] = r]
    BY <1>1, <1>12 DEF Miss, Selects
  <2>2. /\ r.stage = "listing" /\ r.key = key /\ r.index = call[c].index
        /\ r.values = call[c].values
    BY <1>1, <2>1 DEF IsCall
  <2>3. \E h \in Spellings(r.values, Mappings[r.index].header) :
          r.key = <<Mappings[r.index].resource, r.values[h]>>
    BY <1>9, <2>1, <2>2 DEF Mapping
  <2>4. Consistent(r, DOMAIN held)
    BY <1>2, <1>12, <2>1, <2>2, <2>3 DEF Consistent
  <2> QED BY <1>10, <2>1, <2>4
<1>13. CASE ListAnswers(c) /\ errorMode = "propagate"
  <2>1. PICK r : /\ r = [call[c] EXCEPT !.stage = "listed", !.read = now,
                                         !.answer = Answer(objects[call[c].key]), !.age = 0]
                 /\ call[c].stage = "listing" /\ call' = [call EXCEPT ![c] = r]
    BY <1>1, <1>13 DEF ListAnswers
  <2>2. /\ r.stage = "listed" /\ r.key = call[c].key /\ r.index = call[c].index
        /\ r.values = call[c].values
    BY <1>1, <2>1 DEF IsCall
  <2>3. Consistent(r, DOMAIN held)
    BY <1>2, <1>13, <2>1, <2>2 DEF Consistent
  <2> QED BY <1>10, <2>1, <2>3
<1>14. CASE ValueFound(c) /\ errorMode = "propagate"
  <2>1. call[c].stage = "listed" /\ MapReturns(c, call[c].key, call[c].answer)
    BY <1>14 DEF ValueFound
  <2>2. <<call[c].key, call[c].answer>> \in DOMAIN held
    BY <2>1 DEF IInv, Reads
  <2>3. PICK h \in Spellings(call[c].values, Mapping(c).header) :
          /\ call[c].index \in DOMAIN Mappings
          /\ call[c].key = <<Mapping(c).resource, call[c].values[h]>>
    BY <1>2, <1>14, <2>1 DEF Consistent, Mapping
  <2> QED BY <1>1, <2>1, <2>2, <2>3, MapReturnsConsistent
<1>15. CASE (Hit(c) \/ Miss(c) \/ ListAnswers(c) \/ ValueFound(c)) /\ errorMode # "propagate"
  <2>1. \E r : call' = [call EXCEPT ![c] = r]
    BY <1>15 DEF Hit, Miss, ListAnswers, ValueFound, MapReturns
  <2> QED BY <1>10, <1>15, <2>1
<1> QED BY <1>3, <1>4, <1>6, <1>8, <1>11, <1>12, <1>13, <1>14, <1>15 DEF CallStep

LEMMA HeadersStep ==
  ASSUME NEW M, Mappings \in Seq(M), Mappings # <<>>, MappingsInOrder, HeadersInv, IInv,
         [Next]_vars
  PROVE  HeadersInv'
<1>1. CASE UNCHANGED mappingVars
  BY <1>1, HeadersKept DEF HeadersInv, mappingVars, configVars, clusterVars
<1>2. CASE Tick
  <2>1. UNCHANGED <<errorMode, call>> /\ DOMAIN held \subseteq DOMAIN held' /\ now' <= MaxTime
    BY <1>2, KubeAssumption DEF Tick, configVars, IInv, Types
  <2> QED BY <2>1, HeadersKept
<1>3. ASSUME NEW k \in Keys, ObjectsChange(k) PROVE HeadersInv'
  <2>1. UNCHANGED <<errorMode, call>> /\ DOMAIN held \subseteq DOMAIN held' /\ now' <= MaxTime
    BY <1>3 DEF ObjectsChange, configVars, HeadersInv
  <2> QED BY <2>1, HeadersKept
<1>4. ASSUME NEW c \in Calls, CallStep(c) PROVE HeadersInv'
  BY <1>4, CallHeaders
<1>5. CASE UNCHANGED vars
  BY <1>1, <1>5 DEF vars
<1> QED BY <1>1, <1>2, <1>3, <1>4, <1>5 DEF Next

(* What is true of a pair at some time is so within the time there is.      *)
LEMMA HeadersConsistent ==
  ASSUME HeadersInv, IInv
  PROVE  ForwardedHeadersConsistent
<1> SUFFICES ASSUME NEW c \in Calls, call[c].stage = "forward", errorMode = "propagate",
                    NEW headers \in Forwarded(c), NEW i \in DOMAIN Mappings,
                    Unambiguous(c, Mappings[i].header), Unambiguous(c, Mappings[i].target)
             PROVE  Age(<<Mappings[i].resource, headers[Lower(Mappings[i].header)]>>,
                        headers[Lower(Mappings[i].target)]) # Never
  BY DEF ForwardedHeadersConsistent
<1>1. PICK m, values : m = Mappings[i] /\ values = call[c].values
  OBVIOUS
<1>2. PICK h \in Spellings(values, m.header) :
        /\ m.target \in DOMAIN values
        /\ <<<<m.resource, values[h]>>, values[m.target]>> \in DOMAIN held
  BY <1>1 DEF HeadersInv, Consistent, Translated
<1>3. ASSUME NEW key, Unambiguous(c, key), NEW k \in Spellings(values, key)
      PROVE  headers[Lower(key)] = values[k]
  <2>1. k \in DOMAIN values /\ Lower(k) = Lower(key)
    BY DEF Spellings
  <2>2. PICK l \in DOMAIN values : Lower(l) = Lower(key) /\ headers[Lower(key)] = values[l]
    BY <1>1, <2>1 DEF Forwarded, NewMetadata
  <2>3. l \in Spellings(values, key)
    BY <2>2 DEF Spellings
  <2> QED BY <1>1, <1>3, <2>2, <2>3 DEF Unambiguous
<1>4. headers[Lower(m.header)] = values[h]
  BY <1>1, <1>2, <1>3
<1>5. headers[Lower(m.target)] = values[m.target]
  BY <1>1, <1>2, <1>3 DEF Spellings
<1>6. PICK key, answer : key = <<m.resource, values[h]>> /\ answer = values[m.target]
  OBVIOUS
<1>7. <<key, answer>> \in DOMAIN held
  BY <1>2, <1>6
<1>8. /\ held[<<key, answer>>] \in 0..now /\ now \in Nat /\ now <= MaxTime /\ MaxTime \in Nat
  BY <1>7, KubeAssumption DEF IInv, Types, HeadersInv
<1>9. Age(key, answer) # Never
  BY <1>7, <1>8 DEF Age, Never
<1> QED BY <1>1, <1>4, <1>5, <1>6, <1>9

(* Mappings that write each header once and before they read it: with       *)
(* error_mode propagate every target that goes on was the value of its      *)
(* selector as the final headers expand it, for any chain of mappings in    *)
(* any spelling, cache and changes of the objects, whenever the call has    *)
(* the header and the target in one spelling each.                          *)
THEOREM HeadersBelongTogether ==
  ASSUME NEW M, Mappings \in Seq(M), MappingsInOrder
  PROVE  Spec => []ForwardedHeadersConsistent
<1>1. CASE Mappings = <<>>
  <2>1. ForwardedHeadersConsistent
    BY <1>1 DEF ForwardedHeadersConsistent
  <2> QED BY <2>1, PTL
<1>2. CASE Mappings # <<>>
  <2>1. Init => IInv /\ HeadersInv
    BY InitIInv, InitHeaders
  <2>2. IInv /\ HeadersInv /\ [Next]_vars => (IInv /\ HeadersInv)'
    BY <1>2, StepIInv, HeadersStep
  <2>3. IInv /\ HeadersInv => ForwardedHeadersConsistent
    BY HeadersConsistent
  <2> QED BY <2>1, <2>2, <2>3, PTL DEF Spec
<1> QED BY <1>1, <1>2
==============================================================================
