----------------------------- MODULE MCBootstrap -----------------------------
(* Two receivers of one stream, or a receiver and an exporter.              *)
EXTENDS Bootstrap

Padded(text) == [text |-> text, padded |-> TRUE]

Stream(name, storage) ==
  [name |-> name, subjects |-> {Written("orders")}, sources |-> {},
   retention |-> Written(""), discard |-> Padded("new"),
   storage |-> Written(storage), compression |-> Written("s2")]

Consumer(name, filter, policy) ==
  [name |-> name, filter |-> filter, policy |-> Written(policy)]

Config(kind, run, consumer, stream, bconsumer) ==
  [kind |-> kind, mode |-> run[1], workers |-> run[2],
   stream |-> Written("s"), subject |-> Written("orders"),
   consumer |-> consumer, bootstrap |-> [stream |-> stream, consumer |-> bconsumer]]

(* Messages in the callback, by workers, or in batches.                     *)
Modes == {<<"single", 0>>, <<"single", 1>>, <<"batch", 0>>}

StreamOptions ==
  {{}, {Stream(Written("s"), "file")}, {Stream(Written("s"), "memory")},
   {Stream(Padded("s"), "")}, {Stream(Written("s"), "tape")}}

ConsumerOptions ==
  {{}, {Consumer(Written(""), Padded(""), "")},
   {Consumer(Padded("c"), Written("orders.eu"), "new")},
   {Consumer(Written("c2"), Written("orders"), "all")},
   {Consumer(Written("c"), Written("orders"), "by_start_time")},
   {Consumer(Written("c"), Written("orders"), "newest")}}

Receivers(options) ==
  {Config("receiver", run, consumer, stream, bconsumer) :
     run \in Modes, consumer \in {Written("c"), Padded("c")}, stream \in StreamOptions, bconsumer \in options}

Peers ==
  {Config("exporter", <<"none", 0>>, Written(""), stream, {}) : stream \in StreamOptions}
    \cup {Config("receiver", <<"single", 0>>, Written(name), {}, {Consumer(Written(name), Written(""), "")}) :
           name \in {"c", "c2"}}

MCComponents == {"receiver", "peer"}
PlansWith(options) ==
  {[c \in MCComponents |-> IF c = "receiver" THEN r ELSE p] : r \in Receivers(options), p \in Peers}
MCPlans == PlansWith(ConsumerOptions)

Existing ==
  CHOOSE s \in BuildStream(Stream(Written("s"), "file")) : TRUE
Held(filter) == [name |-> Written("c"), filter |-> Written(filter), policy |-> "new"]

MCServers ==
  {[streams |-> << >>, consumers |-> << >>],
   [streams |-> "s" :> Existing, consumers |-> <<"s", "c">> :> Held("orders")]}
==============================================================================
