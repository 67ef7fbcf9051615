-------------------------- MODULE S3Exporter_proofs --------------------------
(****************************************************************************)
(* The names of objects, for every template, payload, header and time, and  *)
(* any number of calls and uploads: what was uploaded under a UUID stays,   *)
(* and a retry replaces its own object when the name is made of records.    *)
(*                                                                          *)
(* Both follow from what holds of the name of every upload, wherever it is: *)
(* with its caller, on the wire or in the bucket (Named).  A UUID in the    *)
(* name tells uploads apart although any text may stand in front of it      *)
(* (UUIDsTellApart); a name of records is the same at every attempt because *)
(* a template resolves to one text at most (OwnPrefixIsOne).                *)
(*                                                                          *)
(* Of Algorithms_proofs it uses the lemmas on templates, which mention      *)
(* neither its variable nor its constants.                                  *)
(****************************************************************************)
EXTENDS S3Exporter, Algorithms_proofs

(* What the template resolves to when it depends on the records only.       *)
OwnPrefix(payload) ==
  Resolve(config.template.parts, [i \in DOMAIN config.template.parts |->
    ResolveValue(AttrValues(attr, payload, config.template.parts[i].source), TRUE)])

(* The name of an upload has its UUID behind some text, and is the name of  *)
(* its payload when it is made of the records.                              *)
NameOfUpload(name, send) == \E text \in Seq(STRING) : name = ObjectName(text, send)
NameOfPayload(name, payload) == \E text \in OwnPrefix(payload) : name = ObjectName(text, 0)
Named(upload) ==
  /\ upload.send \in 1..MaxSends
  /\ NameOfUpload(upload.name, upload.send)
  /\ NamedByRecords => NameOfPayload(upload.name, upload.payload)

IsCall(r) == DOMAIN r = {"stage", "payload", "name", "send"}

Types ==
  /\ config.template \in Templates /\ config.extension \in Extensions
  /\ attr \in [Records -> AttrMaps(Values)]
  /\ now \in 0..MaxTime /\ sends \in 0..MaxSends
  /\ call = [c \in Calls |-> call[c]]
  /\ \A c \in Calls : IsCall(call[c])

UploadsNamed ==
  /\ \A c \in Calls : call[c].stage \in {"upload", "wait"} => Named(call[c])
  /\ \A m \in wire : Named(m)
  /\ \A n \in DOMAIN bucket : Named(bucket[n]) /\ bucket[n].name = n

(* With a UUID, what the server says it stored is there.                    *)
Stored(send) == \E n \in DOMAIN bucket : bucket[n].send = send
AnswersTrue ==
  config.uuid => \A a \in answers : a.outcome = "ok" => Stored(a.send)

IInv == Types /\ UploadsNamed /\ AnswersTrue /\ KeptWithUUID

------------------------------------------------------------------------------
(* The texts of a template.                                                 *)

LEMMA ContinuedTexts ==
  ASSUME NEW X, NEW Y, X \subseteq Seq(STRING), Y \subseteq Seq(STRING)
  PROVE  Continued(X, Y) \subseteq Seq(STRING)
<1> SUFFICES ASSUME NEW text \in Continued(X, Y) PROVE text \in Seq(STRING)
  OBVIOUS
<1>1. PICK x \in X, y \in Y : text = x \o y
  BY DEF Continued, Concat
<1>2. x \in Seq(STRING) /\ y \in Seq(STRING)
  OBVIOUS
<1> QED BY <1>1, <1>2, ConcatProperties

LEMMA ResolveTexts ==
  ASSUME NEW parts, NEW values, Len(parts) \in Nat,
         \A i \in 1..Len(parts) : PartTexts(parts, values, i) \subseteq Seq(STRING)
  PROVE  Resolve(parts, values) \subseteq Seq(STRING)
<1>1. PICK f : /\ f[0] = {<<>>}
               /\ \A i \in 1..Len(parts) : f[i] = Continued(f[i - 1], PartTexts(parts, values, i))
               /\ Resolve(parts, values) = f[Len(parts)]
  BY ResolveEquation
<1> DEFINE S == {i \in Nat : i <= Len(parts) => f[i] \subseteq Seq(STRING)}
<1>2. 0 \in S
  <2>1. {<<>>} \subseteq Seq(STRING)
    OBVIOUS
  <2>2. f[0] \subseteq Seq(STRING)
    BY <1>1, <2>1, Zenon
  <2> QED BY <2>2
<1>3. ASSUME NEW i \in Nat, i \in S PROVE i + 1 \in S
  <2> SUFFICES ASSUME i + 1 <= Len(parts) PROVE f[i + 1] \subseteq Seq(STRING)
    OBVIOUS
  <2>1. i + 1 \in 1..Len(parts) /\ (i + 1) - 1 = i /\ f[i] \subseteq Seq(STRING)
    BY <1>3
  <2>2. f[i + 1] = Continued(f[i], PartTexts(parts, values, i + 1))
    BY <1>1, <2>1
  <2>3. PICK x, y : x = f[i] /\ y = PartTexts(parts, values, i + 1)
    OBVIOUS
  <2>4. x \subseteq Seq(STRING) /\ y \subseteq Seq(STRING)
    BY <2>1, <2>3
  <2>5. Continued(x, y) \subseteq Seq(STRING)
    BY <2>4, ContinuedTexts
  <2> QED BY <2>2, <2>3, <2>5
<1> HIDE DEF S
<1>4. Nat \subseteq S
  BY <1>2, <1>3, NatSetInduction
<1> QED BY <1>1, <1>4 DEF S

(* The first of some values is one of them.                                 *)
LEMMA ValueTexts ==
  ASSUME NEW values, NEW stable, DOMAIN values \subseteq Nat \ {0},
         \A i \in DOMAIN values : values[i] \in Seq(STRING)
  PROVE  ResolveValue(values, stable) \subseteq Seq(STRING)
<1>1. CASE DOMAIN values = {}
  BY <1>1 DEF ResolveValue
<1>2. CASE DOMAIN values # {}
  <2>1. PICK P : P = DOMAIN values
    OBVIOUS
  <2>2. First(P) \in P /\ First(P) = Min(P)
    BY <1>2, <2>1, FirstPosition DEF First
  <2>3. values[Min(DOMAIN values)] \in Seq(STRING)
    BY <2>1, <2>2
  <2> QED BY <2>3 DEF ResolveValue
<1> QED BY <1>1, <1>2

LEMMA AttrTexts ==
  ASSUME S3Assumption, Types, NEW payload \in Payloads, NEW source
  PROVE  LET values == AttrValues(attr, payload, source) IN
         /\ DOMAIN values \subseteq Nat \ {0}
         /\ \A i \in DOMAIN values : values[i] \in Seq(STRING)
<1> DEFINE values == AttrValues(attr, payload, source)
<1>1. payload \in Seq(Records)
  BY DEF S3Assumption
<1>2. /\ DOMAIN values = {i \in DOMAIN payload : source \in DOMAIN attr[payload[i]]}
      /\ \A i \in DOMAIN values : values[i] = attr[payload[i]][source]
  BY DEF AttrValues
<1>3. ASSUME NEW i \in DOMAIN values PROVE values[i] \in Seq(STRING)
  <2>1. payload[i] \in Records /\ source \in DOMAIN attr[payload[i]]
    BY <1>1, <1>2
  <2>2. PICK r : r = attr[payload[i]]
    OBVIOUS
  <2>3. r \in AttrMaps(Values)
    BY <2>1, <2>2 DEF Types
  <2>4. \E S : r \in [S -> Values]
    BY <2>3 DEF AttrMaps
  <2>5. r[source] \in Values
    BY <2>1, <2>2, <2>4
  <2> QED BY <1>2, <2>2, <2>5 DEF S3Assumption
<1>4. DOMAIN values \subseteq Nat \ {0}
  BY <1>1, <1>2
<1> QED BY <1>3, <1>4

LEMMA PartsOfTemplate ==
  ASSUME S3Assumption, Types
  PROVE  LET parts == config.template.parts IN
         /\ Len(parts) \in Nat /\ DOMAIN parts = 1..Len(parts)
         /\ \A i \in 1..Len(parts) : parts[i].literal \in Seq(STRING)
<1> DEFINE P == [literal : Seq(STRING), source : Seq(STRING), key : Seq(STRING)]
<1>1. config.template.parts \in Seq(P)
  BY DEF S3Assumption, Types
<1>2. PICK parts : parts = config.template.parts
  OBVIOUS
<1>3. \A part \in P : part.literal \in Seq(STRING)
  OBVIOUS
<1> HIDE DEF P
<1>4. parts \in Seq(P)
  BY <1>1, <1>2
<1>5. Len(parts) \in Nat /\ DOMAIN parts = 1..Len(parts) /\ \A i \in 1..Len(parts) : parts[i] \in P
  BY <1>4
<1> QED BY <1>2, <1>3, <1>5

LEMMA PrefixTexts ==
  ASSUME S3Assumption, Types, NEW payload \in Payloads, NEW header \in Headers
  PROVE  Prefix(payload, header) \subseteq Seq(STRING)
<1>1. PICK parts : parts = config.template.parts
  OBVIOUS
<1>2. /\ Len(parts) \in Nat /\ DOMAIN parts = 1..Len(parts)
      /\ \A i \in 1..Len(parts) : parts[i].literal \in Seq(STRING)
  BY <1>1, PartsOfTemplate
<1>3. ASSUME NEW part PROVE KeyPart(part, payload, header) \subseteq Seq(STRING)
  <2>1. CASE part.source = Timefmt
    <3>1. Times[now] \in STRING
      BY DEF S3Assumption, Types
    <3> QED BY <2>1, <3>1 DEF KeyPart
  <2>2. CASE part.source # Timefmt
    <3>1. PICK values : values = SourceValues(attr, payload, header, part.source)
      OBVIOUS
    <3>2. /\ DOMAIN values \subseteq Nat \ {0}
          /\ \A i \in DOMAIN values : values[i] \in Seq(STRING)
      <4>1. CASE part.source = Header
        <5>1. values = header /\ header \in Seq(Seq(STRING))
          BY <3>1, <4>1 DEF SourceValues, S3Assumption
        <5> QED BY <5>1
      <4>2. CASE part.source # Header
        <5>1. values = AttrValues(attr, payload, part.source)
          BY <3>1, <4>2 DEF SourceValues
        <5> QED BY <5>1, AttrTexts
      <4> QED BY <4>1, <4>2
    <3>3. ResolveValue(values, part.source # Header) \subseteq Seq(STRING)
      BY <3>2, ValueTexts
    <3> QED BY <2>2, <3>1, <3>3 DEF KeyPart
  <2> QED BY <2>1, <2>2
<1> DEFINE values == [i \in DOMAIN parts |-> KeyPart(parts[i], payload, header)]
<1>4. \A i \in 1..Len(parts) : PartTexts(parts, values, i) \subseteq Seq(STRING)
  BY <1>2, <1>3 DEF PartTexts
<1>5. Prefix(payload, header) = Resolve(parts, values)
  BY <1>1 DEF Prefix
<1> HIDE DEF values
<1> QED BY <1>2, <1>4, <1>5, ResolveTexts

(* The prefix that is made of the records is the same for every attempt.    *)
LEMMA PrefixIsOwn ==
  ASSUME NamedByRecords, NEW payload, NEW header
  PROVE  Prefix(payload, header) = OwnPrefix(payload)
<1>1. PICK parts : parts = config.template.parts
  OBVIOUS
<1>2. ASSUME NEW i \in DOMAIN parts
      PROVE  KeyPart(parts[i], payload, header) =
               ResolveValue(AttrValues(attr, payload, parts[i].source), TRUE)
  <2>1. parts[i].source \in {<<>>, Resource, Telemetry}
    BY <1>1 DEF NamedByRecords
  <2>2. parts[i].source # Timefmt /\ parts[i].source # Header
    BY <2>1 DEF Resource, Telemetry, Timefmt, Header
  <2> QED BY <2>2 DEF KeyPart, SourceValues
<1>3. [i \in DOMAIN parts |-> KeyPart(parts[i], payload, header)] =
        [i \in DOMAIN parts |-> ResolveValue(AttrValues(attr, payload, parts[i].source), TRUE)]
  BY <1>2
<1> QED BY <1>1, <1>3 DEF Prefix, OwnPrefix

LEMMA OwnPrefixIsOne ==
  ASSUME S3Assumption, Types, NEW payload
  PROVE  AtMostOne(OwnPrefix(payload))
<1>1. PICK parts : parts = config.template.parts
  OBVIOUS
<1>2. Len(parts) \in Nat /\ DOMAIN parts = 1..Len(parts)
  BY <1>1, PartsOfTemplate
<1> DEFINE values == [i \in DOMAIN parts |->
             ResolveValue(AttrValues(attr, payload, parts[i].source), TRUE)]
<1>3. \A i \in 1..Len(parts) : AtMostOne(values[i])
  BY <1>2, ResolveValueAtMostOne
<1>4. OwnPrefix(payload) = Resolve(parts, values)
  BY <1>1 DEF OwnPrefix
<1> HIDE DEF values
<1> QED BY <1>2, <1>3, <1>4, ResolveAtMostOne

------------------------------------------------------------------------------
(* The names of objects.                                                    *)

LEMMA SameFront ==
  ASSUME NEW x \in Seq(STRING), NEW y \in Seq(STRING), NEW z \in Seq(STRING), x \o z = y \o z
  PROVE  x = y
<1>1. Len(x) + Len(z) = Len(y) + Len(z)
  BY ConcatProperties
<1>2. Len(x) = Len(y)
  BY <1>1, LenProperties
<1>3. \A i \in 1..Len(x) : x[i] = y[i]
  BY <1>2, ConcatProperties
<1> QED BY <1>2, <1>3, SeqEqual

LEMMA SameLast ==
  ASSUME NEW x \in Seq(STRING), NEW y \in Seq(STRING), NEW a \in STRING, NEW b \in STRING,
         x \o <<a>> = y \o <<b>>
  PROVE  a = b
<1>1. Len(x) + 1 = Len(y) + 1
  BY ConcatProperties
<1>2. Len(x) = Len(y) /\ Len(x) \in Nat
  BY <1>1, LenProperties
<1>3. PICK v, w : v = <<a>> /\ w = <<b>>
  OBVIOUS
<1>4. /\ v \in Seq(STRING) /\ Len(v) = 1 /\ v[1] = a
      /\ w \in Seq(STRING) /\ Len(w) = 1 /\ w[1] = b
  <2>1. Len(v) = 1 /\ v[1] = a /\ Len(w) = 1 /\ w[1] = b
    BY <1>3
  <2>2. v \in Seq(STRING)
    BY <1>3, OneType
  <2>3. w \in Seq(STRING)
    BY <1>3, OneType
  <2> QED BY <2>1, <2>2, <2>3, Zenon
<1>5. \A i \in 1..Len(x) + Len(v) : (x \o v)[i] = IF i <= Len(x) THEN x[i] ELSE v[i - Len(x)]
  BY <1>4, ConcatProperties
<1>6. \A i \in 1..Len(y) + Len(w) : (y \o w)[i] = IF i <= Len(y) THEN y[i] ELSE w[i - Len(y)]
  BY <1>4, ConcatProperties
<1>7. PICK n : n = Len(x) /\ n = Len(y) /\ n \in Nat
  BY <1>2
<1>8. n + 1 \in 1..n + 1 /\ ~(n + 1 <= n) /\ (n + 1) - n = 1
  BY <1>7
<1>9. (x \o v)[n + 1] = a /\ (y \o w)[n + 1] = b
  <2>1. (x \o v)[n + 1] = v[(n + 1) - n]
    BY <1>4, <1>5, <1>7, <1>8, Zenon
  <2>2. (y \o w)[n + 1] = w[(n + 1) - n]
    BY <1>4, <1>6, <1>7, <1>8, Zenon
  <2> QED BY <1>4, <1>8, <2>1, <2>2, Zenon
<1> QED BY <1>3, <1>9

(* The name of an object is its text and its UUID, then the same two ends.  *)
EndsWith(dot, last) ==
  \A text \in Seq(STRING), s \in 1..MaxSends :
    /\ text \o <<UUIDs[s]>> \in Seq(STRING)
    /\ ObjectName(text, s) = (((text \o <<UUIDs[s]>>) \o dot) \o config.extension) \o last

(* The name of an object: what stands behind the UUID is the same for all.  *)
LEMMA NameHasUUID ==
  ASSUME S3Assumption, Types, config.uuid
  PROVE  \E dot \in Seq(STRING), last \in Seq(STRING) : EndsWith(dot, last)
<1> DEFINE dot == IF config.extension # <<>> THEN <<".">> ELSE <<>>
           last == IF config.gzip THEN <<".gz">> ELSE <<>>
<1>1. dot \in Seq(STRING) /\ last \in Seq(STRING)
  <2>1. <<>> \in Seq(STRING) /\ <<".">> \in Seq(STRING) /\ <<".gz">> \in Seq(STRING)
    OBVIOUS
  <2> QED BY <2>1, Zenon
<1>2. ASSUME NEW text \in Seq(STRING), NEW s \in 1..MaxSends
      PROVE  /\ text \o <<UUIDs[s]>> \in Seq(STRING)
             /\ ObjectName(text, s) = (((text \o <<UUIDs[s]>>) \o dot) \o config.extension) \o last
  <2>1. UUIDs[s] \in STRING
    BY DEF S3Assumption
  <2>2. text \o <<UUIDs[s]>> \in Seq(STRING) /\ text \o <<UUIDs[s]>> # <<>>
    BY <2>1
  <2>3. UUID(s) = <<UUIDs[s]>>
    BY DEF UUID
  <2>4. PICK file : file = text \o <<UUIDs[s]>>
    OBVIOUS
  <2>5. file # <<>> /\ file = text \o UUID(s)
    BY <2>2, <2>3, <2>4
  <2>6. ObjectName(text, s) = ((file \o dot) \o config.extension) \o last
    BY <2>5, Zenon DEF ObjectName
  <2> QED BY <2>2, <2>4, <2>6
<1>3. EndsWith(dot, last)
  BY <1>2, Zenon DEF EndsWith
<1> HIDE DEF dot, last
<1> QED BY <1>1, <1>3, Zenon

(* Uploads with one name are one upload, whatever stands before the UUIDs.  *)
LEMMA UUIDsTellApart ==
  ASSUME S3Assumption, Types, config.uuid, NEW s \in 1..MaxSends, NEW t \in 1..MaxSends,
         NEW name, NameOfUpload(name, s), NameOfUpload(name, t)
  PROVE  s = t
<1>1. PICK x \in Seq(STRING), y \in Seq(STRING) :
        name = ObjectName(x, s) /\ name = ObjectName(y, t)
  BY DEF NameOfUpload
<1>2. PICK dot \in Seq(STRING), last \in Seq(STRING) : EndsWith(dot, last)
  BY NameHasUUID, Zenon
<1>3. PICK f, g, e : f = x \o <<UUIDs[s]>> /\ g = y \o <<UUIDs[t]>> /\ e = config.extension
  OBVIOUS
<1>4. f \in Seq(STRING) /\ g \in Seq(STRING) /\ e \in Seq(STRING)
  <2>1. f \in Seq(STRING)
    BY <1>2, <1>3, Zenon DEF EndsWith
  <2>2. g \in Seq(STRING)
    BY <1>2, <1>3, Zenon DEF EndsWith
  <2>3. e \in Seq(STRING)
    BY <1>3 DEF Types
  <2> QED BY <2>1, <2>2, <2>3
<1>5. ((f \o dot) \o e) \o last = ((g \o dot) \o e) \o last
  <2>1. name = ((f \o dot) \o e) \o last
    BY <1>1, <1>2, <1>3, Zenon DEF EndsWith
  <2>2. name = ((g \o dot) \o e) \o last
    BY <1>1, <1>2, <1>3, Zenon DEF EndsWith
  <2> QED BY <2>1, <2>2, Zenon
<1>6. PICK f1, g1, f2, g2 : /\ f1 = f \o dot /\ g1 = g \o dot
                            /\ f2 = f1 \o e /\ g2 = g1 \o e
  OBVIOUS
<1>7. f1 \in Seq(STRING) /\ g1 \in Seq(STRING)
  BY <1>4, <1>6, ConcatProperties
<1>8. f2 \in Seq(STRING) /\ g2 \in Seq(STRING)
  BY <1>4, <1>6, <1>7, ConcatProperties
<1>9. f2 = g2
  BY <1>5, <1>6, <1>8, SameFront
<1>10. f1 = g1
  BY <1>4, <1>6, <1>7, <1>9, SameFront
<1>11. f = g
  BY <1>4, <1>6, <1>10, SameFront
<1>12. UUIDs[s] \in STRING /\ UUIDs[t] \in STRING
  BY DEF S3Assumption
<1>13. UUIDs[s] = UUIDs[t]
  BY <1>3, <1>11, <1>12, SameLast
<1> QED BY <1>13 DEF S3Assumption, IsInjective

(* Without a UUID the number of the upload is not in the name.              *)
LEMMA NameWithoutUUID ==
  ASSUME ~config.uuid, NEW text, NEW send
  PROVE  ObjectName(text, send) = ObjectName(text, 0)
BY DEF ObjectName, UUID

(* Configuration and records are constant, and so is what names are.        *)
LEMMA NamedKept ==
  ASSUME UNCHANGED <<config, attr>>, NEW upload, Named(upload)
  PROVE  Named(upload)'
BY DEF Named, NameOfUpload, NameOfPayload, NamedByRecords, OwnPrefix, ObjectName, UUID

------------------------------------------------------------------------------
(* The inductive invariant.                                                 *)

LEMMA InitIInv ==
  ASSUME S3Assumption, Init
  PROVE  IInv
<1>1. Types
  BY DEF S3Assumption, Init, Types, Idle, IsCall
<1>2. UploadsNamed
  BY DEF Init, UploadsNamed, Idle
<1> QED BY <1>1, <1>2 DEF Init, IInv, AnswersTrue, KeptWithUUID

(* What has a name by the configuration before a step has it behind it.     *)
LEMMA NamedNext ==
  ASSUME UNCHANGED <<config, attr>>,
         \A c \in Calls : call'[c].stage \in {"upload", "wait"} => Named(call'[c]),
         \A m \in wire' : Named(m),
         \A n \in DOMAIN bucket' : Named(bucket'[n]) /\ bucket'[n].name = n
  PROVE  UploadsNamed'
<1>1. ASSUME NEW c \in Calls, call'[c].stage \in {"upload", "wait"} PROVE Named(call[c])'
  <2>1. PICK x : x = call'[c]
    OBVIOUS
  <2>2. Named(x)
    BY <1>1, <2>1
  <2>3. Named(x)'
    BY <2>2, NamedKept
  <2> QED BY <2>1, <2>3
<1>2. \A m \in wire' : Named(m)'
  BY NamedKept
<1>3. ASSUME NEW n \in DOMAIN bucket' PROVE Named(bucket[n])' /\ bucket'[n].name = n
  <2>1. PICK x : x = bucket'[n]
    OBVIOUS
  <2>2. Named(x) /\ x.name = n
    BY <1>3, <2>1
  <2>3. Named(x)'
    BY <2>2, NamedKept
  <2> QED BY <2>1, <2>2, <2>3
<1> QED BY <1>1, <1>2, <1>3 DEF UploadsNamed

(* A step of one call: it keeps the upload it has, or takes one.            *)
LEMMA CallMoves ==
  ASSUME IInv, NEW c \in Calls, NEW r, IsCall(r), call' = [call EXCEPT ![c] = r],
         r.stage \in {"upload", "wait"} => Named(r),
         UNCHANGED <<config, attr, now>>, sends' \in 0..MaxSends
  PROVE  Types' /\ \A d \in Calls : call'[d].stage \in {"upload", "wait"} => Named(call'[d])
<1>1. /\ call = [d \in Calls |-> call[d]]
      /\ \A d \in Calls : IsCall(call[d])
      /\ \A d \in Calls : call[d].stage \in {"upload", "wait"} => Named(call[d])
  BY DEF IInv, Types, UploadsNamed
<1>2. /\ call' = [d \in Calls |-> call'[d]]
      /\ \A d \in Calls : call'[d] = IF d = c THEN r ELSE call[d]
  BY <1>1
<1>3. \A d \in Calls : IsCall(call'[d])
  BY <1>1, <1>2
<1>4. Types'
  BY <1>2, <1>3 DEF IInv, Types, IsCall
<1>5. \A d \in Calls : call'[d].stage \in {"upload", "wait"} => Named(call'[d])
  BY <1>1, <1>2
<1> QED BY <1>4, <1>5

(* A step of one call that leaves server and answers alone.                 *)
LEMMA CallOnly ==
  ASSUME IInv, NEW c \in Calls, NEW r, IsCall(r), call' = [call EXCEPT ![c] = r],
         r.stage \in {"upload", "wait"} => Named(r),
         UNCHANGED <<config, attr, now, bucketVars, done>>, answers' \subseteq answers,
         sends' \in 0..MaxSends
  PROVE  IInv'
<1>1. Types' /\ \A d \in Calls : call'[d].stage \in {"upload", "wait"} => Named(call'[d])
  BY CallMoves
<1>2. UploadsNamed'
  <2>1. /\ \A m \in wire' : Named(m)
        /\ \A n \in DOMAIN bucket' : Named(bucket'[n]) /\ bucket'[n].name = n
    BY DEF IInv, UploadsNamed, bucketVars
  <2> QED BY <1>1, <2>1, NamedNext
<1>3. AnswersTrue' /\ KeptWithUUID'
  BY DEF IInv, AnswersTrue, KeptWithUUID, Stored, bucketVars
<1> QED BY <1>1, <1>2, <1>3 DEF IInv

LEMMA CallOk ==
  ASSUME IInv, NEW c \in Calls
  PROVE  IsCall(call[c]) /\ (call[c].stage \in {"upload", "wait"} => Named(call[c]))
BY DEF IInv, Types, UploadsNamed

(* Another stage for the same upload.                                       *)
LEMMA Restaged ==
  ASSUME NEW upload, IsCall(upload), NEW stage, NEW r, r = [upload EXCEPT !.stage = stage]
  PROVE  IsCall(r) /\ r.stage = stage /\ (Named(upload) => Named(r))
<1>1. /\ DOMAIN r = {"stage", "payload", "name", "send"} /\ r.stage = stage
      /\ r.payload = upload.payload /\ r.name = upload.name /\ r.send = upload.send
  BY DEF IsCall
<1> QED BY <1>1 DEF IsCall, Named

LEMMA ConsumeStep ==
  ASSUME S3Assumption, IInv, NEW c \in Calls, NEW payload \in Payloads, NEW header \in Headers,
         ConsumeLogs(c, payload, header)
  PROVE  IInv'
<1>1. Types /\ IsCall(call[c]) /\ MaxSends \in Nat /\ sends \in 0..MaxSends /\ sends < MaxSends
  BY CallOk DEF S3Assumption, IInv, Types, ConsumeLogs
<1>2. CASE Prefix(payload, header) = {}
  <2>1. PICK r : r = [call[c] EXCEPT !.stage = "permanent", !.payload = payload]
    OBVIOUS
  <2>2. IsCall(r) /\ r.stage = "permanent"
    BY <1>1, <2>1 DEF IsCall
  <2>3. call' = [call EXCEPT ![c] = r] /\ sends' = sends
    BY <1>2, <2>1 DEF ConsumeLogs
  <2> QED BY <1>1, <2>2, <2>3, CallOnly DEF ConsumeLogs
<1>3. CASE Prefix(payload, header) # {}
  <2>1. PICK prefix \in Prefix(payload, header) :
          /\ sends' = sends + 1
          /\ call' = [call EXCEPT ![c] =
               [stage |-> "upload", payload |-> payload, send |-> sends',
                name |-> ObjectName(prefix, sends')]]
    BY <1>3 DEF ConsumeLogs
  <2>2. PICK s, r : s = sends + 1 /\ r = [stage |-> "upload", payload |-> payload, send |-> s,
                                        name |-> ObjectName(prefix, s)]
    OBVIOUS
  <2>3. /\ IsCall(r) /\ r.stage = "upload" /\ r.payload = payload /\ r.send = s
        /\ r.name = ObjectName(prefix, s)
    BY <2>2 DEF IsCall
  <2>4. s \in 1..MaxSends /\ sends' = s
    BY <1>1, <2>1, <2>2
  <2>5. NameOfUpload(r.name, r.send)
    BY <1>1, <2>3, PrefixTexts DEF NameOfUpload
  <2>6. ASSUME NamedByRecords PROVE NameOfPayload(r.name, r.payload)
    <3>1. prefix \in OwnPrefix(payload)
      BY <2>6, PrefixIsOwn
    <3>2. ObjectName(prefix, s) = ObjectName(prefix, 0)
      BY <2>6, NameWithoutUUID DEF NamedByRecords
    <3> QED BY <2>3, <3>1, <3>2 DEF NameOfPayload
  <2>7. Named(r)
    BY <2>3, <2>4, <2>5, <2>6 DEF Named
  <2>8. call' = [call EXCEPT ![c] = r] /\ sends' \in 0..MaxSends
    BY <2>1, <2>2, <2>4
  <2> QED BY <2>3, <2>7, <2>8, CallOnly DEF ConsumeLogs
<1> QED BY <1>2, <1>3

LEMMA UploadStep ==
  ASSUME IInv, NEW c \in Calls, Upload(c)
  PROVE  IInv'
<1>1. /\ IsCall(call[c]) /\ Named(call[c]) /\ sends' \in 0..MaxSends
  BY CallOk DEF IInv, Types, Upload
<1>2. CASE ~(started /\ call[c].name # <<>>)
  <2>1. PICK r : r = [call[c] EXCEPT !.stage = "retryable"]
    OBVIOUS
  <2>2. IsCall(r) /\ r.stage = "retryable"
    BY <1>1, <2>1, Restaged
  <2>3. call' = [call EXCEPT ![c] = r] /\ UNCHANGED bucketVars
    BY <1>2, <2>1 DEF Upload, Fails, Classify, bucketVars
  <2> QED BY <1>1, <2>2, <2>3, CallOnly DEF Upload
<1>3. CASE started /\ call[c].name # <<>>
  <2>1. PICK r : r = [call[c] EXCEPT !.stage = "wait"]
    OBVIOUS
  <2>2. IsCall(r) /\ Named(r)
    BY <1>1, <2>1, Restaged
  <2>3. call' = [call EXCEPT ![c] = r]
    BY <1>3, <2>1 DEF Upload
  <2>4. Types' /\ \A d \in Calls : call'[d].stage \in {"upload", "wait"} => Named(call'[d])
    BY <1>1, <2>2, <2>3, CallMoves DEF Upload
  <2>5. PICK m : m = [send |-> call[c].send, name |-> call[c].name, payload |-> call[c].payload]
    OBVIOUS
  <2>6. Named(m) /\ wire' = wire \union {m}
    BY <1>1, <1>3, <2>5 DEF Named, Upload
  <2>7. UploadsNamed'
    <3>1. /\ \A n \in wire' : Named(n)
          /\ \A n \in DOMAIN bucket' : Named(bucket'[n]) /\ bucket'[n].name = n
      BY <2>6 DEF IInv, UploadsNamed, Upload
    <3> QED BY <2>4, <3>1, NamedNext DEF Upload
  <2>8. AnswersTrue' /\ KeptWithUUID'
    BY DEF IInv, AnswersTrue, KeptWithUUID, Stored, Upload
  <2> QED BY <2>4, <2>7, <2>8 DEF IInv
<1> QED BY <1>2, <1>3

(* An answer of success is about an upload that is in the bucket.           *)
LEMMA AnsweredStep ==
  ASSUME IInv, NEW c \in Calls, Answered(c)
  PROVE  IInv'
<1>1. PICK a \in answers :
        /\ call[c].stage = "wait" /\ a.send = call[c].send
        /\ answers' = {b \in answers : b.send # a.send}
        /\ IF a.outcome = "ok"
             THEN /\ call' = [call EXCEPT ![c].stage = "ok"]
                  /\ done' = done \union {call[c].send}
             ELSE Fails(c, a.outcome) /\ UNCHANGED done
        /\ UNCHANGED <<config, attr, now, clientVars, sends, bucketVars>>
  BY DEF Answered
<1>2. IsCall(call[c]) /\ Named(call[c]) /\ sends' \in 0..MaxSends
  BY <1>1, CallOk DEF IInv, Types
<1>3. CASE a.outcome = "ok"
  <2>1. PICK r : r = [call[c] EXCEPT !.stage = "ok"]
    OBVIOUS
  <2>2. IsCall(r) /\ r.stage = "ok" /\ call' = [call EXCEPT ![c] = r]
    BY <1>1, <1>2, <1>3, <2>1, Restaged
  <2>3. Types' /\ \A d \in Calls : call'[d].stage \in {"upload", "wait"} => Named(call'[d])
    BY <1>1, <1>2, <2>2, CallMoves
  <2>4. UploadsNamed'
    <3>1. /\ \A m \in wire' : Named(m)
          /\ \A n \in DOMAIN bucket' : Named(bucket'[n]) /\ bucket'[n].name = n
      BY <1>1 DEF IInv, UploadsNamed, bucketVars
    <3> QED BY <1>1, <2>3, <3>1, NamedNext
  <2>5. config.uuid => Stored(call[c].send)
    BY <1>1, <1>3 DEF IInv, AnswersTrue
  <2>6. AnswersTrue' /\ KeptWithUUID'
    BY <1>1, <1>3, <2>5 DEF IInv, AnswersTrue, KeptWithUUID, Stored, bucketVars
  <2> QED BY <2>3, <2>4, <2>6 DEF IInv
<1>4. CASE a.outcome # "ok"
  <2>1. PICK s, r : s = Classify(a.outcome) /\ r = [call[c] EXCEPT !.stage = s]
    OBVIOUS
  <2>2. call' = [call EXCEPT ![c] = r] /\ answers' \subseteq answers
    BY <1>1, <1>4, <2>1 DEF Fails
  <2>3. IsCall(r) /\ Named(r)
    BY <1>2, <2>1, Restaged
  <2> QED BY <1>1, <1>2, <1>4, <2>2, <2>3, CallOnly
<1> QED BY <1>3, <1>4

LEMMA NoAnswerStep ==
  ASSUME IInv, NEW c \in Calls, NoAnswer(c)
  PROVE  IInv'
<1>1. IsCall(call[c]) /\ Named(call[c]) /\ sends' \in 0..MaxSends
  BY CallOk DEF IInv, Types, NoAnswer
<1>2. PICK outcome \in {"canceled", "deadline"} : Fails(c, outcome)
  BY DEF NoAnswer
<1>3. PICK s, r : s = Classify(outcome) /\ r = [call[c] EXCEPT !.stage = s]
  OBVIOUS
<1>4. call' = [call EXCEPT ![c] = r] /\ answers' \subseteq answers
  BY <1>2, <1>3 DEF Fails, NoAnswer
<1>5. IsCall(r) /\ Named(r)
  BY <1>1, <1>3, Restaged
<1> QED BY <1>1, <1>4, <1>5, CallOnly DEF NoAnswer

LEMMA ReturnsStep ==
  ASSUME IInv, NEW c \in Calls, Returns(c)
  PROVE  IInv'
<1>1. IsCall(Idle) /\ Idle.stage = "idle" /\ sends' \in 0..MaxSends
  BY DEF IsCall, Idle, IInv, Types, Returns
<1>2. PICK r : r = Idle
  OBVIOUS
<1>3. call' = [call EXCEPT ![c] = r]
  BY <1>2 DEF Returns
<1> QED BY <1>1, <1>2, <1>3, CallOnly DEF Returns

(* Steps of nobody's call.                                                  *)
LEMMA Elsewhere ==
  ASSUME IInv, UNCHANGED <<config, attr, call, sends>>, now' \in 0..MaxTime,
         wire' \subseteq wire,
         \A n \in DOMAIN bucket' : Named(bucket'[n]) /\ bucket'[n].name = n
  PROVE  Types' /\ UploadsNamed'
<1>1. Types'
  BY DEF IInv, Types, IsCall
<1>2. \A c \in Calls : call'[c].stage \in {"upload", "wait"} => Named(call'[c])
  BY DEF IInv, UploadsNamed
<1>3. \A m \in wire' : Named(m)
  BY DEF IInv, UploadsNamed
<1> QED BY <1>1, <1>2, <1>3, NamedNext

LEMMA LifecycleStep ==
  ASSUME S3Assumption, IInv, Start \/ Shutdown \/ TimePasses
  PROVE  IInv'
<1>1. /\ UNCHANGED <<config, attr, call, sends, answers, wire, bucket, done>>
      /\ now' = now \/ (now < MaxTime /\ now' = now + 1)
  <2>1. CASE Start
    BY <2>1 DEF Start, bucketVars
  <2>2. CASE Shutdown
    BY <2>2 DEF Shutdown, bucketVars
  <2>3. CASE TimePasses
    BY <2>3 DEF TimePasses, bucketVars
  <2> QED BY <2>1, <2>2, <2>3
<1>2. \A n \in DOMAIN bucket' : Named(bucket'[n]) /\ bucket'[n].name = n
  BY <1>1 DEF IInv, UploadsNamed
<1>3. AnswersTrue' /\ KeptWithUUID'
  BY <1>1 DEF IInv, AnswersTrue, KeptWithUUID, Stored
<1>4. now' \in 0..MaxTime
  <2>1. MaxTime \in Nat /\ now \in 0..MaxTime
    BY DEF S3Assumption, IInv, Types
  <2> QED BY <1>1, <2>1
<1> QED BY <1>1, <1>2, <1>3, <1>4, Elsewhere DEF IInv

(* What is stored replaces the object of its name: with a UUID, that of     *)
(* the same upload.                                                         *)
LEMMA PutStep ==
  ASSUME S3Assumption, IInv, NEW m \in wire, PutStored(m)
  PROVE  IInv'
<1>1. /\ bucket' = [n \in DOMAIN bucket \union {m.name} |-> IF n = m.name THEN m ELSE bucket[n]]
      /\ wire' \subseteq wire
      /\ UNCHANGED <<config, attr, now, call, sends, done>>
  BY DEF PutStored
<1>2. /\ DOMAIN bucket' = DOMAIN bucket \union {m.name}
      /\ \A n \in DOMAIN bucket' : bucket'[n] = IF n = m.name THEN m ELSE bucket[n]
  BY <1>1
<1>3. Named(m) /\ \A n \in DOMAIN bucket : Named(bucket[n]) /\ bucket[n].name = n
  BY DEF IInv, UploadsNamed
<1>4. Types' /\ UploadsNamed'
  <2>1. now' \in 0..MaxTime
    BY <1>1 DEF IInv, Types
  <2>2. \A n \in DOMAIN bucket' : Named(bucket'[n]) /\ bucket'[n].name = n
    BY <1>2, <1>3
  <2> QED BY <1>1, <2>1, <2>2, Elsewhere
<1>5. Stored(m.send)'
  BY <1>2 DEF Stored
<1>6. ASSUME config.uuid, NEW d, Stored(d) PROVE Stored(d)'
  <2>1. PICK n \in DOMAIN bucket : bucket[n].send = d
    BY <1>6 DEF Stored
  <2>2. CASE n # m.name
    BY <1>2, <2>1, <2>2 DEF Stored
  <2>3. CASE n = m.name
    <3>1. PICK x : x = bucket[n]
      OBVIOUS
    <3>2. /\ x.send \in 1..MaxSends /\ m.send \in 1..MaxSends
          /\ NameOfUpload(n, x.send) /\ NameOfUpload(n, m.send)
      BY <1>3, <2>1, <2>3, <3>1 DEF Named
    <3>3. x.send = m.send
      BY <1>6, <3>2, UUIDsTellApart DEF IInv
    <3> QED BY <1>5, <2>1, <3>1, <3>3
  <2> QED BY <2>2, <2>3
<1>7. \A a \in answers' : a \in answers \/ a.send = m.send
  BY DEF PutStored, Answer
<1>8. AnswersTrue'
  BY <1>1, <1>5, <1>6, <1>7 DEF IInv, AnswersTrue
<1>9. KeptWithUUID'
  BY <1>1, <1>6 DEF IInv, KeptWithUUID, Stored
<1> QED BY <1>4, <1>8, <1>9 DEF IInv

(* A request that is refused or lost leaves the bucket alone.               *)
LEMMA NotPutStep ==
  ASSUME IInv, NEW m \in wire, PutRefused(m) \/ RequestLost(m)
  PROVE  IInv'
<1>1. /\ wire' \subseteq wire /\ now' \in 0..MaxTime
      /\ UNCHANGED <<config, attr, call, sends, bucket, done>>
  BY DEF IInv, Types, PutRefused, RequestLost
<1>2. \A n \in DOMAIN bucket' : Named(bucket'[n]) /\ bucket'[n].name = n
  BY <1>1 DEF IInv, UploadsNamed
<1>3. \A a \in answers' : a \in answers \/ a.outcome # "ok"
  BY DEF PutRefused, RequestLost, Answer
<1>4. AnswersTrue' /\ KeptWithUUID'
  BY <1>1, <1>3 DEF IInv, AnswersTrue, KeptWithUUID, Stored
<1> QED BY <1>1, <1>2, <1>4, Elsewhere DEF IInv

LEMMA StepIInv == S3Assumption /\ IInv /\ [Next]_vars => IInv'
<1> SUFFICES ASSUME S3Assumption, IInv, [Next]_vars PROVE IInv'
  OBVIOUS
<1>1. CASE Start \/ Shutdown \/ TimePasses
  BY <1>1, LifecycleStep
<1>2. ASSUME NEW c \in Calls, CallStep(c) PROVE IInv'
  BY <1>2, UploadStep, AnsweredStep, NoAnswerStep, ReturnsStep DEF CallStep
<1>3. ASSUME NEW c \in Calls, NEW payload \in Payloads, NEW header \in Headers,
             ConsumeLogs(c, payload, header)
      PROVE  IInv'
  BY <1>3, ConsumeStep
<1>4. ASSUME NEW m \in wire, PutStored(m) \/ PutRefused(m) \/ RequestLost(m) PROVE IInv'
  BY <1>4, PutStep, NotPutStep
<1>5. CASE UNCHANGED vars
  <2>1. /\ UNCHANGED <<config, attr, call, sends, answers, wire, bucket, done>>
        /\ now' \in 0..MaxTime
    BY <1>5 DEF IInv, Types, vars, bucketVars
  <2>2. \A n \in DOMAIN bucket' : Named(bucket'[n]) /\ bucket'[n].name = n
    BY <2>1 DEF IInv, UploadsNamed
  <2>3. AnswersTrue' /\ KeptWithUUID'
    BY <2>1 DEF IInv, AnswersTrue, KeptWithUUID, Stored
  <2> QED BY <2>1, <2>2, <2>3, Elsewhere DEF IInv
<1> QED BY <1>1, <1>2, <1>3, <1>4, <1>5 DEF Next

LEMMA InductiveInvariant == Spec => []IInv
<1>1. Init => IInv
  BY S3Assumption, InitIInv
<1>2. IInv /\ [Next]_vars => IInv'
  BY S3Assumption, StepIInv
<1> QED BY <1>1, <1>2, PTL DEF Spec

------------------------------------------------------------------------------
(* With a UUID an upload whose caller was told of its success stays in the  *)
(* bucket, whoever calls, retries or repeats a request later                *)
(* (exporter.go:304).                                                       *)
THEOREM UploadedStays == Spec => []KeptWithUUID
<1>1. IInv => KeptWithUUID
  BY DEF IInv
<1> QED BY <1>1, InductiveInvariant, PTL

LEMMA OneObjectPerPayload == IInv => RetriesReplaceOwnObject
<1> SUFFICES ASSUME IInv, NamedByRecords, NEW m \in DOMAIN bucket, NEW n \in DOMAIN bucket,
                    bucket[m].payload = bucket[n].payload
             PROVE  m = n
  BY DEF RetriesReplaceOwnObject
<1>1. PICK x, y, payload : /\ x = bucket[m] /\ y = bucket[n] /\ payload = bucket[m].payload
  OBVIOUS
<1>2. /\ x.name = m /\ y.name = n
      /\ NameOfPayload(x.name, payload) /\ NameOfPayload(y.name, payload)
  BY <1>1 DEF IInv, UploadsNamed, Named
<1>3. AtMostOne(OwnPrefix(payload))
  BY S3Assumption, OwnPrefixIsOne DEF IInv
<1> QED BY <1>2, <1>3 DEF NameOfPayload, AtMostOne

(* With a name made of the records only, a payload has one object in the    *)
(* bucket, however often it is sent again (exporter.go:297).                *)
THEOREM RetriesReplaceTheirs == Spec => []RetriesReplaceOwnObject
BY OneObjectPerPayload, InductiveInvariant, PTL
==============================================================================
