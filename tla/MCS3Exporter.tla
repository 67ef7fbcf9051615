----------------------------- MODULE MCS3Exporter -----------------------------
(****************************************************************************)
(* Two payloads with one or two values of the attribute that names them.    *)
(****************************************************************************)
EXTENDS S3Exporter, TLC

Batches == {<<1>>, <<2, 3>>}
Tele == Placeholder(Telemetry, <<"k">>)
ByRecord == <<Literal(<<"l">>), Tele>>
ByTime == <<Placeholder(Timefmt, <<"%H">>), Tele>>
ByHeader == <<Placeholder(Header, <<"k">>)>>
AllTemplates == {Parsed(<<>>), Parsed(ByRecord), Parsed(ByTime), Parsed(ByHeader), Invalid}
TwoValues == {<<<<"a">>, <<"b">>>>}
Texts == {<<"a">>, <<"b">>}
Hours == 0 :> "0" @@ 1 :> "1"
TwoUUIDs == <<"u", "v">>
AllExtensions == {<<>>, <<"log">>}

(* Record 1 has the value a, record 3 has b; record 2 has either or none.   *)
MCInit ==
  /\ attr \in [1..3 -> AttrMaps(Texts)]
  /\ \A r \in 1..3 : Resource \notin DOMAIN attr[r]
  /\ attr[1] = [s \in {Telemetry} |-> <<"a">>] /\ attr[3] = [s \in {Telemetry} |-> <<"b">>]
  /\ Init
  /\ config.gzip => (config.uuid /\ config.extension # <<>>)
  /\ config.extension = <<>> => (~config.uuid /\ config.template.parts = <<>>)

MCSpec == MCInit /\ [][Next]_vars
Symmetry == Permutations(Calls)
==============================================================================
