--------------------------- MODULE Algorithms_proofs --------------------------
(****************************************************************************)
(* The algorithms without state, for every input: patterns and payloads of  *)
(* any length, any keys and values, any number of specs, any configuration  *)
(* of delays, and selectors called any number of times.                     *)
(*                                                                          *)
(* Their loops are folds and recursive functions.  A loop of n steps is     *)
(* taken as one function on 0..n (LoopEquation, FlattenEquation,            *)
(* ResolveEquation), and what holds of its values by induction on the set   *)
(* of the steps where it holds (NatSetInduction).                           *)
(****************************************************************************)
EXTENDS Algorithms, SequenceTheorems, FiniteSetTheorems, WellFoundedInduction, TLAPS

(* A set with 0 and the successors of its numbers has every number: the     *)
(* least number outside it would be one of them.                            *)
LEMMA NatSetInduction ==
  ASSUME NEW S, 0 \in S, \A n \in Nat : n \in S => n + 1 \in S
  PROVE  Nat \subseteq S
<1> DEFINE T == Nat \ S
           R == OpToRel(<, Nat)
<1> SUFFICES ASSUME T # {} PROVE FALSE
  OBVIOUS
<1>1. IsWellFoundedOn(R, Nat)
  BY NatLessThanWellFounded
<1>2. PICK x \in T : \A y \in T : <<y, x>> \notin R
  <2> HIDE DEF R
  <2> QED BY <1>1, WFMin
<1>3. x \in Nat /\ x # 0 /\ x - 1 \in Nat
  OBVIOUS
<1>4. x - 1 \in T
  <2>1. x - 1 \in S => (x - 1) + 1 \in S
    BY <1>3
  <2> QED BY <1>3, <2>1
<1>5. <<x - 1, x>> \in R
  BY <1>3 DEF OpToRel
<1> QED BY <1>2, <1>4, <1>5

------------------------------------------------------------------------------
(* FlattenSeq.                                                              *)

(* The concatenations of the first sequences of seqs.                       *)
Concatenates(seqs, S, f) ==
  /\ f[0] = <<>>
  /\ \A i \in 1..Len(seqs) : f[i] = f[i - 1] \o seqs[i]
  /\ \A i \in 0..Len(seqs) : f[i] \in Seq(S)

LEMMA FlattenEquation ==
  ASSUME NEW seqs, NEW n \in Nat, n # 0, Len(seqs) = n
  PROVE  \E f : /\ f[1] = seqs[1]
                /\ \A i \in 2..n : f[i] = f[i - 1] \o seqs[i]
                /\ FlattenSeq(seqs) = f[n]
<1> DEFINE A(x, i) == IF i = 1 THEN seqs[i] ELSE x \o seqs[i]
<1> HIDE DEF A
<1> DEFINE T == {m \in Nat : \E f : f = [i \in 1..m |-> A(f[i - 1], i)]}
<1>1. 0 \in T
  <2> DEFINE f == [i \in 1..0 |-> A(0, i)]
  <2>1. f = [i \in 1..0 |-> A(f[i - 1], i)]
    OBVIOUS
  <2> HIDE DEF f
  <2> QED BY <2>1
<1>2. ASSUME NEW m \in Nat, m \in T PROVE m + 1 \in T
  <2>1. PICK f : f = [i \in 1..m |-> A(f[i - 1], i)]
    BY <1>2
  <2>2. CASE m = 0
    <3> DEFINE g == [i \in 1..1 |-> A(0, i)]
    <3>1. g = [i \in 1..1 |-> A(g[i - 1], i)]
      BY DEF A
    <3> HIDE DEF g
    <3> QED BY <2>2, <3>1
  <2>3. CASE m # 0
    <3> DEFINE g == [i \in 1..(m + 1) |-> IF i <= m THEN f[i] ELSE A(f[m], m + 1)]
    <3>1. ASSUME NEW i \in 1..(m + 1) PROVE g[i] = A(g[i - 1], i)
      <4>1. CASE i = 1
        <5>1. g[i] = A(f[i - 1], i)
          BY <2>1, <2>3, <4>1
        <5> QED BY <4>1, <5>1 DEF A
      <4>2. CASE i # 1
        BY <2>1, <2>3, <4>2
      <4> QED BY <4>1, <4>2
    <3>2. g = [i \in 1..(m + 1) |-> A(g[i - 1], i)]
      BY <3>1
    <3> HIDE DEF g
    <3> QED BY <3>2
  <2> QED BY <2>2, <2>3
<1>3. \E f : f = [i \in 1..n |-> A(f[i - 1], i)]
  <2> HIDE DEF T
  <2>1. n \in T
    BY <1>1, <1>2, NatSetInduction
  <2> QED BY <2>1 DEF T
<1> DEFINE flatten[i \in 1..n] == A(flatten[i - 1], i)
<1>4. flatten = [i \in 1..n |-> A(flatten[i - 1], i)]
  BY <1>3
<1>5. FlattenSeq(seqs) = flatten[n]
  BY DEF FlattenSeq, A
<1> HIDE DEF flatten
<1>6. \A i \in 1..n : flatten[i] = A(flatten[i - 1], i)
  BY <1>4
<1>7. flatten[1] = seqs[1]
  BY <1>6 DEF A
<1>8. ASSUME NEW i \in 2..n PROVE flatten[i] = flatten[i - 1] \o seqs[i]
  <2>1. flatten[i] = A(flatten[i - 1], i) /\ i # 1
    BY <1>6
  <2> QED BY <2>1 DEF A
<1> QED BY <1>5, <1>7, <1>8

LEMMA FlattenPrefixes ==
  ASSUME NEW S, NEW seqs \in Seq(Seq(S))
  PROVE  \E f : Concatenates(seqs, S, f) /\ FlattenSeq(seqs) = f[Len(seqs)]
<1>1. PICK n : n = Len(seqs)
  OBVIOUS
<1>2. n \in Nat /\ \A i \in 1..n : seqs[i] \in Seq(S)
  BY <1>1
<1>3. CASE n = 0
  <2>1. seqs = <<>>
    BY <1>1, <1>3, EmptySeq
  <2>2. FlattenSeq(seqs) = <<>>
    BY <2>1 DEF FlattenSeq
  <2> DEFINE f == [i \in 0..0 |-> <<>>]
  <2>3. f[0] = <<>>
    OBVIOUS
  <2> HIDE DEF f
  <2>4. Concatenates(seqs, S, f)
    <3>1. \A i \in 1..n : f[i] = f[i - 1] \o seqs[i]
      BY <1>3
    <3>2. \A i \in 0..n : f[i] \in Seq(S)
      <4>1. f[0] \in Seq(S)
        BY <2>3, EmptySeq
      <4>2. \A i \in 0..n : i = 0
        BY <1>3
      <4> QED BY <4>1, <4>2
    <3> QED BY <1>1, <2>3, <3>1, <3>2, Zenon DEF Concatenates
  <2> QED BY <1>1, <1>3, <2>2, <2>3, <2>4
<1>4. CASE n # 0
  <2>1. PICK flat : /\ flat[1] = seqs[1]
                    /\ \A i \in 2..n : flat[i] = flat[i - 1] \o seqs[i]
                    /\ FlattenSeq(seqs) = flat[n]
    BY <1>1, <1>2, <1>4, FlattenEquation
  <2> DEFINE f == [i \in 0..n |-> IF i = 0 THEN <<>> ELSE flat[i]]
  <2>2. f[0] = <<>> /\ \A i \in 1..n : f[i] = flat[i]
    BY <1>2
  <2> HIDE DEF f
  <2>3. ASSUME NEW i \in 1..n PROVE f[i] = f[i - 1] \o seqs[i]
    <3>1. CASE i = 1
      <4>1. f[1] = seqs[1] /\ f[i - 1] = <<>> /\ seqs[1] \in Seq(S)
        BY <1>2, <2>1, <2>2, <3>1
      <4> QED BY <3>1, <4>1, ConcatEmptySeq
    <3>2. CASE i # 1
      <4>1. i \in 2..n /\ i - 1 \in 1..n
        BY <1>2, <3>2
      <4> QED BY <2>1, <2>2, <4>1
    <3> QED BY <3>1, <3>2
  <2>4. f[n] = flat[n]
    BY <1>2, <1>4, <2>2
  <2> DEFINE U == {m \in Nat : m <= n => f[m] \in Seq(S)}
  <2>5. 0 \in U
    BY <2>2, EmptySeq
  <2>6. ASSUME NEW m \in Nat, m \in U PROVE m + 1 \in U
    <3> SUFFICES ASSUME m + 1 <= n PROVE f[m + 1] \in Seq(S)
      OBVIOUS
    <3>1. m + 1 \in 1..n /\ (m + 1) - 1 = m /\ m <= n
      BY <1>2
    <3>2. f[m + 1] = f[m] \o seqs[m + 1]
      BY <2>3, <3>1
    <3>3. f[m] \in Seq(S) /\ seqs[m + 1] \in Seq(S)
      BY <1>2, <2>6, <3>1
    <3> QED BY <3>2, <3>3, ConcatProperties
  <2>7. Nat \subseteq U
    <3> HIDE DEF U
    <3> QED BY <2>5, <2>6, NatSetInduction
  <2>8. \A i \in 0..n : f[i] \in Seq(S)
    BY <1>2, <2>7
  <2>9. Concatenates(seqs, S, f)
    BY <1>1, <2>2, <2>3, <2>8 DEF Concatenates
  <2> QED BY <1>1, <2>1, <2>4, <2>9
<1> QED BY <1>3, <1>4

LEMMA FlattenType ==
  ASSUME NEW S, NEW seqs \in Seq(Seq(S))
  PROVE  FlattenSeq(seqs) \in Seq(S)
<1>1. PICK f : Concatenates(seqs, S, f) /\ FlattenSeq(seqs) = f[Len(seqs)]
  BY FlattenPrefixes
<1> QED BY <1>1 DEF Concatenates

(* The elements of a concatenation are those of its parts.                  *)
LEMMA FlattenElements ==
  ASSUME NEW S, NEW seqs \in Seq(Seq(S))
  PROVE  ToSet(FlattenSeq(seqs)) = UNION {ToSet(seqs[i]) : i \in DOMAIN seqs}
<1>1. PICK f : Concatenates(seqs, S, f) /\ FlattenSeq(seqs) = f[Len(seqs)]
  BY FlattenPrefixes
<1>2. PICK n : n = Len(seqs) /\ n \in Nat /\ DOMAIN seqs = 1..n
  OBVIOUS
<1> DEFINE T == {m \in Nat : m <= n => ToSet(f[m]) = UNION {ToSet(seqs[i]) : i \in 1..m}}
<1>3. 0 \in T
  BY <1>1 DEF Concatenates, ToSet
<1>4. ASSUME NEW m \in Nat, m \in T PROVE m + 1 \in T
  <2> SUFFICES ASSUME m + 1 <= n
               PROVE  ToSet(f[m + 1]) = UNION {ToSet(seqs[i]) : i \in 1..(m + 1)}
    OBVIOUS
  <2>1. PICK a, b : a = f[m] /\ b = seqs[m + 1]
    OBVIOUS
  <2>2. m + 1 \in 1..n /\ (m + 1) - 1 = m /\ m \in 0..n
    BY <1>2
  <2>3. a \in Seq(S) /\ b \in Seq(S) /\ f[m + 1] = a \o b
    <3>1. f[m + 1] = f[m] \o seqs[m + 1]
      BY <1>1, <1>2, <2>2 DEF Concatenates
    <3>2. f[m] \in Seq(S)
      BY <1>1, <1>2, <2>2 DEF Concatenates
    <3>3. seqs[m + 1] \in Seq(S)
      BY <1>2, <2>2
    <3> QED BY <2>1, <3>1, <3>2, <3>3
  <2>4. ToSet(a \o b) = ToSet(a) \union ToSet(b)
    <3>1. ToSet(a) = Range(a) /\ ToSet(b) = Range(b) /\ ToSet(a \o b) = Range(a \o b)
      BY DEF ToSet, Range
    <3> QED BY <2>3, <3>1, RangeConcatenation
  <2>5. 1..(m + 1) = (1..m) \union {m + 1}
    OBVIOUS
  <2>6. ToSet(a) = UNION {ToSet(seqs[i]) : i \in 1..m}
    BY <1>4, <2>1, <2>2
  <2>7. UNION {ToSet(seqs[i]) : i \in 1..(m + 1)}
          = (UNION {ToSet(seqs[i]) : i \in 1..m}) \union ToSet(b)
    <3>1. PICK J, K : J = 1..m /\ K = 1..(m + 1)
      OBVIOUS
    <3>2. UNION {ToSet(seqs[i]) : i \in J \union {m + 1}}
            = (UNION {ToSet(seqs[i]) : i \in J}) \union ToSet(seqs[m + 1])
      OBVIOUS
    <3> QED BY <2>1, <2>5, <3>1, <3>2, Zenon
  <2> QED BY <2>3, <2>4, <2>6, <2>7, Zenon
<1>5. n \in T
  <2> HIDE DEF T
  <2> QED BY <1>2, <1>3, <1>4, NatSetInduction
<1> QED BY <1>1, <1>2, <1>5

------------------------------------------------------------------------------
(* Split.                                                                   *)

NoParts == [ok |-> TRUE, parts |-> <<>>, index |-> <<>>]

After(cfg, attrs, payload, state, i) ==
  IF state.ok THEN Visit(cfg, attrs[payload[i]], state, payload[i]) ELSE Failed

(* The states of the loop of Split.                                         *)
Loop(cfg, attrs, payload) ==
  LET state[i \in 0..Len(payload)] ==
        IF i = 0 THEN NoParts ELSE After(cfg, attrs, payload, state[i - 1], i)
  IN state

LEMMA SplitIsLoop ==
  ASSUME NEW cfg, NEW attrs, NEW payload, ~(cfg.kind = "attrs" /\ cfg.by = <<>>)
  PROVE  Split(cfg, attrs, payload) = Loop(cfg, attrs, payload)[Len(payload)]
  BY DEF Split, Loop, NoParts, After

LEMMA LoopEquation ==
  ASSUME NEW cfg, NEW attrs, NEW payload, Len(payload) \in Nat
  PROVE  LET state == Loop(cfg, attrs, payload) IN
         /\ state[0] = NoParts
         /\ \A i \in 1..Len(payload) : state[i] = After(cfg, attrs, payload, state[i - 1], i)
<1> DEFINE A(x, i) == After(cfg, attrs, payload, x, i)
<1> HIDE DEF A
<1> DEFINE S == {m \in Nat : \E f : f = [i \in 0..m |-> IF i = 0 THEN NoParts ELSE A(f[i - 1], i)]}
<1>1. 0 \in S
  <2> DEFINE f == [i \in 0..0 |-> NoParts]
  <2>1. f = [i \in 0..0 |-> IF i = 0 THEN NoParts ELSE A(f[i - 1], i)]
    OBVIOUS
  <2> HIDE DEF f
  <2> QED BY <2>1
<1>2. ASSUME NEW m \in Nat, m \in S PROVE m + 1 \in S
  <2>1. PICK f : f = [i \in 0..m |-> IF i = 0 THEN NoParts ELSE A(f[i - 1], i)]
    BY <1>2
  <2> DEFINE g == [i \in 0..(m + 1) |-> IF i <= m THEN f[i] ELSE A(f[m], m + 1)]
  <2>2. g = [i \in 0..(m + 1) |-> IF i = 0 THEN NoParts ELSE A(g[i - 1], i)]
    BY <2>1
  <2> HIDE DEF g
  <2> QED BY <2>2
<1> HIDE DEF S
<1>3. Len(payload) \in S
  BY <1>1, <1>2, NatSetInduction
<1> DEFINE state[i \in 0..Len(payload)] == IF i = 0 THEN NoParts ELSE A(state[i - 1], i)
<1>4. state = [i \in 0..Len(payload) |-> IF i = 0 THEN NoParts ELSE A(state[i - 1], i)]
  BY <1>3 DEF S
<1>5. Loop(cfg, attrs, payload) = state
  BY DEF Loop, A
<1> HIDE DEF state
<1> QED BY <1>4, <1>5 DEF A
------------------------------------------------------------------------------
(* What the loop has after i records.                                       *)
Shape(state, R, K) ==
  /\ DOMAIN state = {"ok", "parts", "index"}
  /\ state.ok \in BOOLEAN /\ state.parts \in Seq(Seq(R)) /\ state.index \in Seq(K)
  /\ Len(state.index) = Len(state.parts)

(* Every part has the records of its key, and no other part has this key.   *)
Keyed(cfg, attrs, state) ==
  /\ \A j, k \in DOMAIN state.index : state.index[j] = state.index[k] => j = k
  /\ \A j \in DOMAIN state.parts :
       /\ state.parts[j] # <<>>
       /\ \A k \in DOMAIN state.parts[j] :
            LET r == state.parts[j][k] IN
            ~Lacks(cfg, attrs[r]) /\ Key(cfg, attrs[r]) = state.index[j]

Has(state, r) == \E j \in DOMAIN state.parts : \E k \in DOMAIN state.parts[j] : state.parts[j][k] = r

(* The records seen so far that lack nothing are in the parts, and nothing  *)
(* else is.                                                                 *)
Covers(cfg, attrs, payload, state, i) ==
  /\ \A n \in 1..i : ~Lacks(cfg, attrs[payload[n]]) => Has(state, payload[n])
  /\ \A r : Has(state, r) => \E n \in 1..i : payload[n] = r

(* The loop fails at a record that must not lack a value.                   *)
Refuses(cfg, attrs, payload, state, i) ==
  state.ok <=> (cfg.missing = "drop" \/ \A n \in 1..i : ~Lacks(cfg, attrs[payload[n]]))

LoopInv(cfg, attrs, payload, state, i) ==
  /\ Shape(state, ToSet(payload), {Key(cfg, attrs[r]) : r \in ToSet(payload)})
  /\ Refuses(cfg, attrs, payload, state, i)
  /\ state.ok => Keyed(cfg, attrs, state) /\ Covers(cfg, attrs, payload, state, i)

(* The two ways in which a record enters a part.                            *)
LEMMA NewPartFields ==
  ASSUME NEW R, NEW K, NEW state, Shape(state, R, K), NEW r \in R, NEW key \in K
  PROVE  LET new == NewPart(state, key, r) IN
         /\ Shape(new, R, K) /\ new.ok = state.ok
         /\ Len(new.parts) = Len(state.parts) + 1
         /\ new.parts[Len(state.parts) + 1] = <<r>> /\ new.index[Len(state.parts) + 1] = key
         /\ \A j \in 1..Len(state.parts) :
              new.parts[j] = state.parts[j] /\ new.index[j] = state.index[j]
<1> DEFINE t == NewPart(state, key, r)
<1>1. /\ DOMAIN t = {"ok", "parts", "index"} /\ t.ok = state.ok
      /\ t.parts = Append(state.parts, <<r>>) /\ t.index = Append(state.index, key)
  BY DEF NewPart, Shape
<1>2. <<r>> \in Seq(R)
  OBVIOUS
<1>3. /\ t.parts \in Seq(Seq(R)) /\ Len(t.parts) = Len(state.parts) + 1
      /\ t.parts[Len(state.parts) + 1] = <<r>>
      /\ \A j \in 1..Len(state.parts) : t.parts[j] = state.parts[j]
  BY <1>1, <1>2, AppendProperties DEF Shape
<1>4. /\ t.index \in Seq(K) /\ Len(t.index) = Len(state.parts) + 1
      /\ t.index[Len(state.parts) + 1] = key
      /\ \A j \in 1..Len(state.parts) : t.index[j] = state.index[j]
  BY <1>1, AppendProperties DEF Shape
<1> HIDE DEF t
<1> QED BY <1>1, <1>3, <1>4 DEF Shape, t

LEMMA AddToPartFields ==
  ASSUME NEW R, NEW K, NEW state, Shape(state, R, K), NEW r \in R, NEW key \in ToSet(state.index)
  PROVE  LET new == AddToPart(state, key, r) IN
         /\ Shape(new, R, K) /\ new.ok = state.ok /\ new.index = state.index
         /\ Len(new.parts) = Len(state.parts)
         /\ \E p \in 1..Len(state.parts) :
              /\ state.index[p] = key
              /\ new.parts[p] = Append(state.parts[p], r)
              /\ \A j \in 1..Len(state.parts) : j # p => new.parts[j] = state.parts[j]
<1> DEFINE t == AddToPart(state, key, r)
           p == CHOOSE i \in DOMAIN state.index : state.index[i] = key
<1>1. p \in DOMAIN state.index /\ state.index[p] = key
  BY DEF ToSet
<1>2. p \in 1..Len(state.parts)
  BY <1>1 DEF Shape
<1>3. /\ DOMAIN t = {"ok", "parts", "index"} /\ t.ok = state.ok /\ t.index = state.index
      /\ t.parts = [state.parts EXCEPT ![p] = Append(state.parts[p], r)]
  BY DEF AddToPart, Shape
<1>4. Append(state.parts[p], r) \in Seq(R)
  BY <1>2, AppendProperties DEF Shape
<1> HIDE DEF p
<1>5. /\ t.parts \in Seq(Seq(R)) /\ Len(t.parts) = Len(state.parts)
      /\ t.parts[p] = Append(state.parts[p], r)
      /\ \A j \in 1..Len(state.parts) : j # p => t.parts[j] = state.parts[j]
  BY <1>2, <1>3, <1>4 DEF Shape
<1> HIDE DEF t
<1>6. Shape(t, R, K)
  BY <1>3, <1>5 DEF Shape
<1> QED BY <1>1, <1>2, <1>3, <1>5, <1>6 DEF t

(* What the two ways mean for the records of the parts.                     *)
Enlarged(state, t, r, key) ==
  /\ DOMAIN t.index = DOMAIN t.parts
  /\ \E p \in DOMAIN t.parts :
       /\ t.index[p] = key
       /\ \A j \in DOMAIN t.parts : j # p =>
            /\ j \in DOMAIN state.parts /\ t.parts[j] = state.parts[j]
            /\ t.index[j] = state.index[j] /\ state.index[j] # key
       /\ \/ p \notin DOMAIN state.parts /\ t.parts[p] = <<r>>
          \/ /\ p \in DOMAIN state.parts /\ t.parts[p] # <<>>
             /\ \E last : /\ DOMAIN t.parts[p] = (DOMAIN state.parts[p]) \union {last}
                          /\ \A k \in DOMAIN state.parts[p] : t.parts[p][k] = state.parts[p][k]
                          /\ t.parts[p][last] = r
             /\ state.index[p] = key
  /\ DOMAIN state.parts \subseteq DOMAIN t.parts

LEMMA EnlargedKeyed ==
  ASSUME NEW cfg, NEW attrs, NEW state, NEW t, NEW r, ~Lacks(cfg, attrs[r]),
         DOMAIN state.index = DOMAIN state.parts,
         Keyed(cfg, attrs, state), Enlarged(state, t, r, Key(cfg, attrs[r]))
  PROVE  Keyed(cfg, attrs, t)
<1> DEFINE key == Key(cfg, attrs[r])
<1>1. PICK p \in DOMAIN t.parts :
       /\ t.index[p] = key
       /\ \A j \in DOMAIN t.parts : j # p =>
            /\ j \in DOMAIN state.parts /\ t.parts[j] = state.parts[j]
            /\ t.index[j] = state.index[j] /\ state.index[j] # key
       /\ \/ p \notin DOMAIN state.parts /\ t.parts[p] = <<r>>
          \/ /\ p \in DOMAIN state.parts /\ t.parts[p] # <<>>
             /\ \E last : /\ DOMAIN t.parts[p] = (DOMAIN state.parts[p]) \union {last}
                          /\ \A k \in DOMAIN state.parts[p] : t.parts[p][k] = state.parts[p][k]
                          /\ t.parts[p][last] = r
             /\ state.index[p] = key
  BY DEF Enlarged
<1>2. DOMAIN t.index = DOMAIN t.parts
  BY DEF Enlarged
<1>3. \A j, k \in DOMAIN t.index : t.index[j] = t.index[k] => j = k
  BY <1>1, <1>2 DEF Keyed
<1>4. ASSUME NEW j \in DOMAIN t.parts
      PROVE  /\ t.parts[j] # <<>>
             /\ \A k \in DOMAIN t.parts[j] :
                  ~Lacks(cfg, attrs[t.parts[j][k]]) /\ Key(cfg, attrs[t.parts[j][k]]) = t.index[j]
  <2>1. CASE j # p
    BY <1>1, <2>1 DEF Keyed
  <2>2. CASE j = p /\ p \notin DOMAIN state.parts
    BY <1>1, <2>2
  <2>3. CASE j = p /\ p \in DOMAIN state.parts
    <3>1. PICK last :
             /\ DOMAIN t.parts[p] = (DOMAIN state.parts[p]) \union {last}
             /\ \A k \in DOMAIN state.parts[p] : t.parts[p][k] = state.parts[p][k]
             /\ t.parts[p][last] = r
      BY <1>1, <2>3
    <3>2. t.parts[p] # <<>> /\ t.index[p] = key /\ state.index[p] = key
      BY <1>1, <2>3
    <3>3. \A k \in DOMAIN state.parts[p] :
            ~Lacks(cfg, attrs[state.parts[p][k]]) /\ Key(cfg, attrs[state.parts[p][k]]) = key
      BY <2>3, <3>2 DEF Keyed
    <3> QED BY <2>3, <3>1, <3>2, <3>3
  <2> QED BY <2>1, <2>2, <2>3
<1> QED BY <1>3, <1>4 DEF Keyed

LEMMA EnlargedHas ==
  ASSUME NEW state, NEW t, NEW r, NEW key, Enlarged(state, t, r, key)
  PROVE  \A x : Has(t, x) <=> Has(state, x) \/ x = r
<1>1. PICK p \in DOMAIN t.parts :
       /\ \A j \in DOMAIN t.parts : j # p =>
            j \in DOMAIN state.parts /\ t.parts[j] = state.parts[j]
       /\ \/ p \notin DOMAIN state.parts /\ t.parts[p] = <<r>>
          \/ /\ p \in DOMAIN state.parts
             /\ \E last : /\ DOMAIN t.parts[p] = (DOMAIN state.parts[p]) \union {last}
                          /\ \A k \in DOMAIN state.parts[p] : t.parts[p][k] = state.parts[p][k]
                          /\ t.parts[p][last] = r
  BY DEF Enlarged
<1>2. DOMAIN state.parts \subseteq DOMAIN t.parts
  BY DEF Enlarged
<1>3. CASE p \notin DOMAIN state.parts
  BY <1>1, <1>2, <1>3 DEF Has
<1>4. CASE p \in DOMAIN state.parts
  <2>1. PICK last : /\ DOMAIN t.parts[p] = (DOMAIN state.parts[p]) \union {last}
                    /\ \A k \in DOMAIN state.parts[p] : t.parts[p][k] = state.parts[p][k]
                    /\ t.parts[p][last] = r
    BY <1>1, <1>4
  <2> QED BY <1>1, <1>2, <1>4, <2>1 DEF Has
<1> QED BY <1>3, <1>4

LEMMA AddToPartEnlarges ==
  ASSUME NEW R, NEW K, NEW state, Shape(state, R, K), NEW r \in R, NEW key \in ToSet(state.index),
         \A j, k \in DOMAIN state.index : state.index[j] = state.index[k] => j = k
  PROVE  LET new == AddToPart(state, key, r) IN
         Shape(new, R, K) /\ (new.ok <=> state.ok) /\ Enlarged(state, new, r, key)
<1>1. PICK t : t = AddToPart(state, key, r)
  OBVIOUS
<1>2. /\ Shape(t, R, K) /\ t.ok = state.ok /\ t.index = state.index
      /\ Len(t.parts) = Len(state.parts)
  BY <1>1, AddToPartFields
<1>3. PICK p \in 1..Len(state.parts) :
         /\ state.index[p] = key
         /\ t.parts[p] = Append(state.parts[p], r)
         /\ \A j \in 1..Len(state.parts) : j # p => t.parts[j] = state.parts[j]
  BY <1>1, AddToPartFields
<1>4. /\ DOMAIN t.parts = 1..Len(state.parts) /\ DOMAIN state.parts = 1..Len(state.parts)
      /\ DOMAIN t.index = 1..Len(state.parts) /\ DOMAIN state.index = 1..Len(state.parts)
  BY <1>2 DEF Shape
<1>5. /\ t.parts[p] # <<>>
      /\ DOMAIN t.parts[p] = (DOMAIN state.parts[p]) \union {Len(state.parts[p]) + 1}
      /\ \A k \in DOMAIN state.parts[p] : t.parts[p][k] = state.parts[p][k]
      /\ t.parts[p][Len(state.parts[p]) + 1] = r
  <2>1. PICK old : old = state.parts[p] /\ old \in Seq(R)
    BY <1>4 DEF Shape
  <2>2. PICK new : new = Append(old, r)
    OBVIOUS
  <2>3. /\ new # <<>> /\ Len(new) = Len(old) + 1 /\ new \in Seq(R)
        /\ \A k \in 1..Len(old) : new[k] = old[k]
        /\ new[Len(old) + 1] = r
    BY <2>1, <2>2, AppendProperties
  <2>4. DOMAIN new = 1..(Len(old) + 1) /\ DOMAIN old = 1..Len(old) /\ Len(old) \in Nat
    BY <2>1, <2>3
  <2>5. DOMAIN new = (DOMAIN old) \union {Len(old) + 1}
    BY <2>4
  <2> QED BY <1>3, <2>1, <2>2, <2>3, <2>4, <2>5
<1>6. \A j \in DOMAIN t.parts : j # p =>
         /\ j \in DOMAIN state.parts /\ t.parts[j] = state.parts[j]
         /\ t.index[j] = state.index[j] /\ state.index[j] # key
  BY <1>2, <1>3, <1>4
<1>7. Enlarged(state, t, r, key)
  BY <1>2, <1>3, <1>4, <1>5, <1>6 DEF Enlarged
<1> QED BY <1>1, <1>2, <1>7

LEMMA NewPartEnlarges ==
  ASSUME NEW R, NEW K, NEW state, Shape(state, R, K), NEW r \in R, NEW key \in K,
         key \notin ToSet(state.index)
  PROVE  LET new == NewPart(state, key, r) IN
         Shape(new, R, K) /\ (new.ok <=> state.ok) /\ Enlarged(state, new, r, key)
<1>1. PICK t : t = NewPart(state, key, r)
  OBVIOUS
<1>2. PICK n : n = Len(state.parts) /\ n \in Nat
  BY DEF Shape
<1>3. /\ Shape(t, R, K) /\ t.ok = state.ok /\ Len(t.parts) = n + 1
      /\ t.parts[n + 1] = <<r>> /\ t.index[n + 1] = key
      /\ \A j \in 1..n : t.parts[j] = state.parts[j] /\ t.index[j] = state.index[j]
  BY <1>1, <1>2, NewPartFields
<1>4. /\ DOMAIN t.parts = 1..(n + 1) /\ DOMAIN state.parts = 1..n
      /\ DOMAIN t.index = 1..(n + 1) /\ DOMAIN state.index = 1..n
  BY <1>2, <1>3 DEF Shape
<1>5. \A j \in 1..n : state.index[j] # key
  BY <1>4 DEF ToSet
<1>6. Enlarged(state, t, r, key)
  BY <1>2, <1>3, <1>4, <1>5 DEF Enlarged
<1> QED BY <1>1, <1>3, <1>6

(* One record.                                                              *)
LEMMA VisitStep ==
  ASSUME NEW cfg, cfg.missing \in {"error", "drop"}, NEW attrs, NEW payload,
         Len(payload) \in Nat, NEW i \in 1..Len(payload), DOMAIN payload = 1..Len(payload),
         NEW state, state.ok, LoopInv(cfg, attrs, payload, state, i - 1)
  PROVE  LoopInv(cfg, attrs, payload, Visit(cfg, attrs[payload[i]], state, payload[i]), i)
<1>1. PICK r, key, R, K, t :
         /\ r = payload[i] /\ key = Key(cfg, attrs[r]) /\ R = ToSet(payload)
         /\ K = {Key(cfg, attrs[x]) : x \in ToSet(payload)}
         /\ t = Visit(cfg, attrs[r], state, r)
  OBVIOUS
<1>2. r \in R /\ key \in K
  BY <1>1 DEF ToSet
<1>3. /\ Shape(state, R, K) /\ Refuses(cfg, attrs, payload, state, i - 1)
      /\ Keyed(cfg, attrs, state) /\ Covers(cfg, attrs, payload, state, i - 1)
  BY <1>1 DEF LoopInv
<1>4. SUFFICES LoopInv(cfg, attrs, payload, t, i)
  BY <1>1
<1>5. 1..i = (1..(i - 1)) \union {i}
  OBVIOUS
<1>6. CASE Lacks(cfg, attrs[r]) /\ cfg.missing = "drop"
  <2>1. t = state
    BY <1>1, <1>6 DEF Visit, Skip
  <2>2. Refuses(cfg, attrs, payload, state, i)
    BY <1>1, <1>3, <1>6 DEF Refuses
  <2>3. Covers(cfg, attrs, payload, state, i)
    BY <1>1, <1>3, <1>5, <1>6 DEF Covers
  <2> QED BY <1>1, <1>3, <2>1, <2>2, <2>3 DEF LoopInv
<1>7. CASE Lacks(cfg, attrs[r]) /\ cfg.missing # "drop"
  <2>1. t = Failed
    BY <1>1, <1>7 DEF Visit, Skip
  <2>2. Shape(Failed, R, K) /\ ~Failed.ok
    BY DEF Shape, Failed
  <2>3. Refuses(cfg, attrs, payload, Failed, i)
    BY <1>1, <1>7, <2>2 DEF Refuses
  <2> QED BY <1>1, <2>1, <2>2, <2>3 DEF LoopInv
<1>8. CASE ~Lacks(cfg, attrs[r])
  <2>1. DOMAIN state.index = DOMAIN state.parts
    BY <1>3 DEF Shape
  <2>2. Shape(t, R, K) /\ (t.ok <=> state.ok) /\ Enlarged(state, t, r, key)
    <3>1. CASE key \in ToSet(state.index)
      <4>1. t = AddToPart(state, key, r)
        BY <1>1, <1>8, <3>1 DEF Visit
      <4> QED BY <1>2, <1>3, <3>1, <4>1, AddToPartEnlarges DEF Keyed
    <3>2. CASE key \notin ToSet(state.index)
      <4>1. t = NewPart(state, key, r)
        BY <1>1, <1>8, <3>2 DEF Visit
      <4> QED BY <1>2, <1>3, <3>2, <4>1, NewPartEnlarges
    <3> QED BY <3>1, <3>2
  <2>3. key = Key(cfg, attrs[r]) /\ r = payload[i]
    BY <1>1
  <2>4. R = ToSet(payload) /\ K = {Key(cfg, attrs[x]) : x \in ToSet(payload)}
    BY <1>1
  <2>5. Keyed(cfg, attrs, t)
    BY <1>3, <1>8, <2>1, <2>2, <2>3, EnlargedKeyed
  <2>6. \A x : Has(t, x) <=> Has(state, x) \/ x = r
    BY <2>2, EnlargedHas
  <2>7. Covers(cfg, attrs, payload, t, i)
    BY <1>3, <1>5, <2>3, <2>6 DEF Covers
  <2>8. Refuses(cfg, attrs, payload, t, i)
    BY <1>3, <1>5, <1>8, <2>2, <2>3 DEF Refuses
  <2> QED BY <2>2, <2>4, <2>5, <2>7, <2>8 DEF LoopInv
<1> QED BY <1>6, <1>7, <1>8

(* The whole loop, for a payload of any length.                             *)
LEMMA LoopInvariant ==
  ASSUME NEW cfg, cfg.missing \in {"error", "drop"}, NEW attrs, NEW payload,
         Len(payload) \in Nat, DOMAIN payload = 1..Len(payload)
  PROVE  \A i \in 0..Len(payload) : LoopInv(cfg, attrs, payload, Loop(cfg, attrs, payload)[i], i)
<1> DEFINE state == Loop(cfg, attrs, payload)
           S == {i \in Nat : i <= Len(payload) => LoopInv(cfg, attrs, payload, state[i], i)}
<1>1. /\ state[0] = NoParts
      /\ \A i \in 1..Len(payload) : state[i] = After(cfg, attrs, payload, state[i - 1], i)
  BY LoopEquation
<1> HIDE DEF state
<1>2. 0 \in S
  <2>1. NoParts.ok /\ NoParts.parts = <<>> /\ NoParts.index = <<>> /\ DOMAIN NoParts = {"ok", "parts", "index"}
    BY DEF NoParts
  <2>2. LoopInv(cfg, attrs, payload, NoParts, 0)
    BY <2>1 DEF LoopInv, Shape, Refuses, Keyed, Covers, Has
  <2> QED BY <1>1, <2>2
<1>3. ASSUME NEW i \in Nat, i \in S PROVE i + 1 \in S
  <2> SUFFICES ASSUME i + 1 <= Len(payload)
               PROVE  LoopInv(cfg, attrs, payload, state[i + 1], i + 1)
    OBVIOUS
  <2>1. i + 1 \in 1..Len(payload) /\ (i + 1) - 1 = i
    OBVIOUS
  <2>2. LoopInv(cfg, attrs, payload, state[i], i)
    BY <1>3
  <2>3. state[i + 1] = After(cfg, attrs, payload, state[i], i + 1)
    BY <1>1, <2>1
  <2>4. CASE state[i].ok
    <3>1. state[i + 1] = Visit(cfg, attrs[payload[i + 1]], state[i], payload[i + 1])
      BY <2>3, <2>4 DEF After
    <3>2. LoopInv(cfg, attrs, payload, state[i], (i + 1) - 1)
      BY <2>1, <2>2
    <3>3. PICK st, at : st = state[i] /\ at = i + 1
      OBVIOUS
    <3>4. /\ at \in 1..Len(payload) /\ st.ok /\ LoopInv(cfg, attrs, payload, st, at - 1)
          /\ state[i + 1] = Visit(cfg, attrs[payload[at]], st, payload[at])
      BY <2>1, <2>4, <3>1, <3>2, <3>3, Zenon
    <3> HIDE DEF S
    <3>5. LoopInv(cfg, attrs, payload, Visit(cfg, attrs[payload[at]], st, payload[at]), at)
      BY <3>4, VisitStep
    <3> QED BY <3>3, <3>4, <3>5, Zenon
  <2>5. CASE ~state[i].ok
    <3>1. state[i + 1] = Failed /\ ~Failed.ok
      BY <2>3, <2>5 DEF After, Failed
    <3>2. Shape(Failed, ToSet(payload), {Key(cfg, attrs[r]) : r \in ToSet(payload)})
      BY DEF Shape, Failed
    <3>3. Refuses(cfg, attrs, payload, Failed, i + 1)
      BY <2>2, <2>5, <3>1 DEF LoopInv, Refuses
    <3> QED BY <3>1, <3>2, <3>3 DEF LoopInv
  <2> QED BY <2>4, <2>5
<1> HIDE DEF S
<1>4. Nat \subseteq S
  BY <1>2, <1>3, NatSetInduction
<1> QED BY <1>4 DEF S, state

------------------------------------------------------------------------------
(* The order of the parts, for records that are positions in the payload.   *)
Ordered(parts) ==
  /\ \A j \in DOMAIN parts : \A k, l \in DOMAIN parts[j] : k < l => parts[j][k] < parts[j][l]
  /\ \A j, k \in DOMAIN parts : j < k => parts[j][1] < parts[k][1]

NonEmpty(parts) == \A j \in DOMAIN parts : parts[j] # <<>>
Below(parts, i) == \A j \in DOMAIN parts : \A k \in DOMAIN parts[j] : parts[j][k] < i

LEMMA PartGrows ==
  ASSUME NEW parts, NEW new, NEW i, Ordered(parts), Below(parts, i),
         NEW D, DOMAIN parts = D, DOMAIN new = D, NEW p \in D,
         \A j \in D : j # p => new[j] = parts[j],
         NEW n \in Nat \ {0}, DOMAIN parts[p] = 1..n, DOMAIN new[p] = 1..(n + 1),
         \A k \in 1..n : new[p][k] = parts[p][k],
         new[p][n + 1] = i
  PROVE  Ordered(new)
<1>1. \A k, l \in 1..(n + 1) : k < l => new[p][k] < new[p][l]
  <2> SUFFICES ASSUME NEW k \in 1..(n + 1), NEW l \in 1..(n + 1), k < l
               PROVE  new[p][k] < new[p][l]
    OBVIOUS
  <2>1. k \in 1..n
    OBVIOUS
  <2>2. CASE l = n + 1
    BY <2>1, <2>2 DEF Below
  <2>3. CASE l \in 1..n
    BY <2>1, <2>3 DEF Ordered
  <2> QED BY <2>2, <2>3
<1>2. \A j \in D : new[j][1] = parts[j][1]
  BY 1 \in 1..n
<1> QED BY <1>1, <1>2 DEF Ordered

LEMMA PartAdded ==
  ASSUME NEW parts, NEW new, NEW i, Ordered(parts), Below(parts, i),
         NEW m \in Nat, DOMAIN parts = 1..m, DOMAIN new = 1..(m + 1),
         \A j \in 1..m : new[j] = parts[j] /\ 1 \in DOMAIN parts[j],
         DOMAIN new[m + 1] = {1}, new[m + 1][1] = i
  PROVE  Ordered(new)
<1>1. \A j \in DOMAIN new : \A k, l \in DOMAIN new[j] : k < l => new[j][k] < new[j][l]
  <2> SUFFICES ASSUME NEW j \in 1..(m + 1), NEW k \in DOMAIN new[j], NEW l \in DOMAIN new[j], k < l
               PROVE  new[j][k] < new[j][l]
    OBVIOUS
  <2>1. CASE j \in 1..m
    BY <2>1 DEF Ordered
  <2>2. CASE j = m + 1
    BY <2>2
  <2> QED BY <2>1, <2>2
<1>2. \A j \in 1..m : parts[j][1] < i
  BY DEF Below
<1>3. \A j, k \in DOMAIN new : j < k => new[j][1] < new[k][1]
  <2> SUFFICES ASSUME NEW j \in 1..(m + 1), NEW k \in 1..(m + 1), j < k
               PROVE  new[j][1] < new[k][1]
    OBVIOUS
  <2>1. j \in 1..m
    OBVIOUS
  <2>2. CASE k \in 1..m
    BY <2>1, <2>2 DEF Ordered
  <2>3. CASE k = m + 1
    BY <1>2, <2>1, <2>3
  <2> QED BY <2>2, <2>3
<1> QED BY <1>1, <1>3 DEF Ordered

LEMMA AddToPartOrdered ==
  ASSUME NEW R, NEW K, NEW state, Shape(state, R, K), NEW r \in R, NEW key \in ToSet(state.index),
         Ordered(state.parts), NonEmpty(state.parts), Below(state.parts, r)
  PROVE  Ordered(AddToPart(state, key, r).parts)
<1>1. PICK t, m : t = AddToPart(state, key, r) /\ m = Len(state.parts)
  OBVIOUS
<1>2. Shape(t, R, K) /\ Len(t.parts) = m
  BY <1>1, AddToPartFields
<1>3. PICK p \in 1..m :
         /\ t.parts[p] = Append(state.parts[p], r)
         /\ \A j \in 1..m : j # p => t.parts[j] = state.parts[j]
  <2>1. \E p \in 1..Len(state.parts) :
          /\ state.index[p] = key
          /\ AddToPart(state, key, r).parts[p] = Append(state.parts[p], r)
          /\ \A j \in 1..Len(state.parts) : j # p => AddToPart(state, key, r).parts[j] = state.parts[j]
    BY AddToPartFields
  <2> QED BY <1>1, <2>1, Zenon
<1>4. DOMAIN t.parts = 1..m /\ DOMAIN state.parts = 1..m
  BY <1>1, <1>2 DEF Shape
<1>5. PICK old, part : old = state.parts[p] /\ part = t.parts[p]
  OBVIOUS
<1>6. old \in Seq(R) /\ old # <<>> /\ part = Append(old, r)
  <2>1. state.parts[p] \in Seq(R)
    BY <1>1 DEF Shape
  <2>2. p \in DOMAIN state.parts
    BY <1>4
  <2>3. old # <<>>
    BY <1>5, <2>2 DEF NonEmpty
  <2> QED BY <1>3, <1>5, <2>1, <2>3
<1>7. /\ part \in Seq(R) /\ Len(part) = Len(old) + 1
      /\ \A k \in 1..Len(old) : part[k] = old[k]
      /\ part[Len(old) + 1] = r
  BY <1>6, AppendProperties
<1>8. Len(old) \in Nat \ {0} /\ DOMAIN old = 1..Len(old) /\ DOMAIN part = 1..(Len(old) + 1)
  BY <1>6, <1>7, EmptySeq
<1>9. PICK n, D, old_parts, new_parts :
         n = Len(old) /\ D = 1..m /\ old_parts = state.parts /\ new_parts = t.parts
  OBVIOUS
<1>10. /\ n \in Nat \ {0} /\ DOMAIN old_parts = D /\ DOMAIN new_parts = D /\ p \in D
       /\ \A j \in D : j # p => new_parts[j] = old_parts[j]
       /\ DOMAIN old_parts[p] = 1..n /\ DOMAIN new_parts[p] = 1..(n + 1)
       /\ \A k \in 1..n : new_parts[p][k] = old_parts[p][k]
       /\ new_parts[p][n + 1] = r
  BY <1>3, <1>4, <1>5, <1>7, <1>8, <1>9
<1>11. Ordered(old_parts) /\ Below(old_parts, r)
  BY <1>9
<1>12. Ordered(new_parts)
  BY <1>10, <1>11, PartGrows
<1> QED BY <1>1, <1>9, <1>12

LEMMA NewPartOrdered ==
  ASSUME NEW R, NEW K, NEW state, Shape(state, R, K), NEW r \in R, NEW key \in K,
         Ordered(state.parts), NonEmpty(state.parts), Below(state.parts, r)
  PROVE  Ordered(NewPart(state, key, r).parts)
<1>1. PICK t, m : t = NewPart(state, key, r) /\ m = Len(state.parts)
  OBVIOUS
<1>2. /\ Shape(t, R, K) /\ Len(t.parts) = m + 1 /\ t.parts[m + 1] = <<r>>
      /\ \A j \in 1..m : t.parts[j] = state.parts[j]
  BY <1>1, NewPartFields
<1>3. m \in Nat /\ DOMAIN t.parts = 1..(m + 1) /\ DOMAIN state.parts = 1..m
  BY <1>1, <1>2 DEF Shape
<1>4. ASSUME NEW j \in 1..m PROVE 1 \in DOMAIN state.parts[j]
  <2>1. PICK old : old = state.parts[j]
    OBVIOUS
  <2>2. old \in Seq(R)
    BY <1>1, <2>1 DEF Shape
  <2>3. old # <<>>
    BY <1>3, <2>1 DEF NonEmpty
  <2> QED BY <2>1, <2>2, <2>3, EmptySeq
<1>5. DOMAIN t.parts[m + 1] = {1} /\ t.parts[m + 1][1] = r
  BY <1>2
<1> QED BY <1>1, <1>2, <1>3, <1>4, <1>5, PartAdded

(* A payload of positions: the parts are in the order of the payload.       *)
LEMMA LoopOrdered ==
  ASSUME NEW cfg, cfg.missing \in {"error", "drop"}, NEW attrs, NEW n \in Nat,
         NEW payload, payload = [i \in 1..n |-> i]
  PROVE  LET state == Loop(cfg, attrs, payload)[n] IN state.ok => Ordered(state.parts)
<1> DEFINE state == Loop(cfg, attrs, payload)
           Good(x) == x.ok => Ordered(x.parts)
           S == {i \in Nat : i <= n => Good(state[i])}
<1>1. Len(payload) = n /\ DOMAIN payload = 1..n
  OBVIOUS
<1>2. /\ state[0] = NoParts
      /\ \A i \in 1..n : state[i] = After(cfg, attrs, payload, state[i - 1], i)
  BY <1>1, LoopEquation
<1>3. \A i \in 0..n : LoopInv(cfg, attrs, payload, state[i], i)
  BY <1>1, LoopInvariant
<1> HIDE DEF state
<1>4. 0 \in S
  BY <1>2 DEF NoParts, Ordered
<1>5. ASSUME NEW i \in Nat, i \in S PROVE i + 1 \in S
  <2> SUFFICES ASSUME i + 1 <= n PROVE Good(state[i + 1])
    OBVIOUS
  <2>1. PICK u, r, key, R, K :
           /\ u = state[i] /\ r = payload[i + 1] /\ key = Key(cfg, attrs[r])
           /\ R = ToSet(payload) /\ K = {Key(cfg, attrs[x]) : x \in ToSet(payload)}
    OBVIOUS
  <2>2. i + 1 \in 1..n /\ (i + 1) - 1 = i /\ r = i + 1
    BY <2>1
  <2>3. LoopInv(cfg, attrs, payload, u, i)
    BY <1>3, <2>1, <2>2
  <2>4. state[i + 1] = IF u.ok THEN Visit(cfg, attrs[r], u, r) ELSE Failed
    BY <1>2, <2>1, <2>2 DEF After
  <2>5. CASE u.ok
    <3>1. Shape(u, R, K) /\ Keyed(cfg, attrs, u) /\ Covers(cfg, attrs, payload, u, i)
      BY <2>1, <2>3, <2>5 DEF LoopInv
    <3>2. r \in R /\ key \in K
      BY <1>1, <2>1, <2>2 DEF ToSet
    <3>3. NonEmpty(u.parts)
      BY <3>1 DEF Keyed, NonEmpty
    <3>4. Below(u.parts, r)
      <4> SUFFICES ASSUME NEW j \in DOMAIN u.parts, NEW k \in DOMAIN u.parts[j]
                   PROVE  u.parts[j][k] < r
        BY DEF Below
      <4>1. Has(u, u.parts[j][k])
        BY DEF Has
      <4>2. PICK x \in 1..i : payload[x] = u.parts[j][k]
        BY <3>1, <4>1 DEF Covers
      <4>3. payload[x] = x /\ x < r
        BY <2>2, <4>2
      <4> QED BY <4>2, <4>3
    <3>5. Ordered(u.parts)
      BY <1>5, <2>1, <2>2, <2>5
    <3> HIDE DEF S
    <3>6. CASE Lacks(cfg, attrs[r])
      BY <2>4, <2>5, <3>5, <3>6 DEF Visit, Skip, Failed
    <3>7. CASE ~Lacks(cfg, attrs[r]) /\ key \in ToSet(u.index)
      <4>1. state[i + 1] = AddToPart(u, key, r)
        BY <2>1, <2>4, <2>5, <3>7 DEF Visit
      <4>2. Ordered(AddToPart(u, key, r).parts)
        BY <3>1, <3>2, <3>3, <3>4, <3>5, <3>7, AddToPartOrdered
      <4> QED BY <4>1, <4>2
    <3>8. CASE ~Lacks(cfg, attrs[r]) /\ key \notin ToSet(u.index)
      <4>1. state[i + 1] = NewPart(u, key, r)
        BY <2>1, <2>4, <2>5, <3>8 DEF Visit
      <4>2. Ordered(NewPart(u, key, r).parts)
        BY <3>1, <3>2, <3>3, <3>4, <3>5, NewPartOrdered
      <4> QED BY <4>1, <4>2
    <3> QED BY <3>6, <3>7, <3>8
  <2>6. CASE ~u.ok
    BY <2>4, <2>6 DEF Failed
  <2> QED BY <2>5, <2>6
<1> HIDE DEF S
<1>6. n \in S
  BY <1>4, <1>5, NatSetInduction
<1> QED BY <1>6 DEF S, state

------------------------------------------------------------------------------
(* One more than a number, modulo another.                                  *)
LEMMA ModStep ==
  ASSUME NEW q \in Nat, NEW n \in Nat \ {0}
  PROVE  /\ q % n \in 0..(n - 1)
         /\ (q + 1) % n = IF q % n = n - 1 THEN 0 ELSE (q % n) + 1
<1>1. /\ q % n \in 0..(n - 1) /\ q \div n \in Int /\ q = n * (q \div n) + (q % n)
  OBVIOUS
<1>2. /\ (q + 1) % n \in 0..(n - 1) /\ (q + 1) \div n \in Int
      /\ q + 1 = n * ((q + 1) \div n) + ((q + 1) % n)
  OBVIOUS
<1>3. ASSUME NEW a \in Int, NEW b \in Int, NEW r \in 0..(n - 1), NEW s \in 0..(n - 1),
             n * a + r = n * b + s
      PROVE  r = s
  <2>1. n * (a - b) = s - r
    BY <1>3
  <2>2. CASE a - b >= 1
    <3>1. n * (a - b) >= n
      BY <2>2
    <3> QED BY <2>1, <3>1
  <2>3. CASE b - a >= 1
    <3>1. n * (b - a) >= n
      BY <2>3
    <3>2. n * (b - a) = r - s
      BY <1>3
    <3> QED BY <3>1, <3>2
  <2>4. CASE a = b
    BY <2>1, <2>4
  <2> QED BY <2>2, <2>3, <2>4
<1>4. PICK a, b, r, s :
         a = q \div n /\ b = (q + 1) \div n /\ r = q % n /\ s = (q + 1) % n
  OBVIOUS
<1>5. CASE r = n - 1
  <2>1. n * (a + 1) + 0 = n * b + s
    BY <1>1, <1>2, <1>4, <1>5
  <2> QED BY <1>1, <1>2, <1>3, <1>4, <1>5, <2>1
<1>6. CASE r # n - 1
  <2>1. n * a + (r + 1) = n * b + s
    BY <1>1, <1>2, <1>4
  <2> QED BY <1>1, <1>2, <1>3, <1>4, <1>6, <2>1
<1> QED BY <1>1, <1>4, <1>5, <1>6

(* The inputs of a behaviour.                                               *)
InputType ==
  /\ "of" \in DOMAIN input
  /\ input.of = "template" => "pattern" \in DOMAIN input /\ input.pattern \in Seq(Chars)
  /\ input.of = "partition" =>
       /\ {"config", "attr"} \subseteq DOMAIN input
       /\ input.config \in Configs /\ input.attr \in Seq(AttrMaps(PartValues))
  /\ input.of = "retry" =>
       /\ {"retry", "attempt"} \subseteq DOMAIN input
       /\ input.retry \in Retries /\ ValidRetry(input.retry) /\ input.attempt \in Nat \ {0}
  /\ input.of = "metadata" =>
       /\ {"specs", "payload", "received"} \subseteq DOMAIN input
       /\ input.specs \in SpecLists /\ ValidSpecs(input.specs)
       /\ input.payload \in Seq(Labelled) /\ input.received \in Received
  /\ input.of = "selector" =>
       /\ {"selector", "index", "wraps", "taken"} \subseteq DOMAIN input
       /\ input.selector \in Selectors /\ ValidSelector(input.selector)
       /\ input.index \in 0..(Width - 1) /\ input.wraps \in Nat
       /\ input.taken \in [DOMAIN input.selector.values -> Nat]

LEMMA InputTypeInit == AlgorithmsInit => InputType
<1> SUFFICES ASSUME AlgorithmsInit PROVE InputType
  OBVIOUS
<1>1. CASE input = [of |-> "template", pattern |-> <<>>]
  <2>1. <<>> \in Seq(Chars)
    BY EmptySeq
  <2> QED BY <1>1, <2>1 DEF InputType
<1>2. ASSUME NEW c \in Configs, input = [of |-> "partition", config |-> c, attr |-> <<>>]
      PROVE  InputType
  BY <1>2 DEF InputType
<1>3. ASSUME NEW r \in Retries, ValidRetry(r), input = [of |-> "retry", retry |-> r, attempt |-> 1]
      PROVE  InputType
  BY <1>3 DEF InputType
<1>4. ASSUME NEW s \in SpecLists, NEW received \in Received, ValidSpecs(s),
             input = [of |-> "metadata", specs |-> s, payload |-> <<>>, received |-> received]
      PROVE  InputType
  BY <1>4 DEF InputType
<1>5. ASSUME NEW s \in Selectors, NEW taken, ValidSelector(s),
             taken = [i \in DOMAIN s.values |-> 0],
             input = [of |-> "selector", selector |-> s, index |-> 0, wraps |-> 0, taken |-> taken]
      PROVE  InputType
  <2>1. 0 \in 0..(Width - 1) /\ taken \in [DOMAIN s.values -> Nat]
    BY <1>5, WidthAssumption
  <2> QED BY <1>5, <2>1 DEF InputType
<1> QED BY <1>1, <1>2, <1>3, <1>4, <1>5 DEF AlgorithmsInit

LEMMA InputTypeStep == InputType /\ [AlgorithmsNext]_input => InputType'
<1> SUFFICES ASSUME InputType, [AlgorithmsNext]_input PROVE InputType'
  OBVIOUS
<1>1. ASSUME NEW char \in Chars, Type(char) PROVE InputType'
  <2>1. Append(input.pattern, char) \in Seq(Chars)
    BY <1>1, AppendProperties DEF Type, InputType
  <2> QED BY <1>1, <2>1 DEF Type, InputType
<1>2. ASSUME NEW attrs \in AttrMaps(PartValues), AppendRecord(attrs) PROVE InputType'
  <2>1. Append(input.attr, attrs) \in Seq(AttrMaps(PartValues))
    BY <1>2, AppendProperties DEF AppendRecord, InputType
  <2> QED BY <1>2, <2>1 DEF AppendRecord, InputType
<1>3. ASSUME NEW record \in Labelled, AppendLabelled(record) PROVE InputType'
  <2>1. Append(input.payload, record) \in Seq(Labelled)
    BY <1>3, AppendProperties DEF AppendLabelled, InputType
  <2> QED BY <1>3, <2>1 DEF AppendLabelled, InputType
<1>4. CASE Redeliver
  BY <1>4 DEF Redeliver, InputType
<1>5. CASE Take
  <2>1. PICK i \in NextValues(input.selector, input.index) :
          input' = [input EXCEPT !.taken[i] = @ + 1,
                      !.index = NextIndex(input.selector, @),
                      !.wraps = IF NextIndex(input.selector, input.index) <= input.index
                                  THEN @ + 1 ELSE @]
    BY <1>5 DEF Take
  <2>2. /\ input.of = "selector" /\ input.selector \in Selectors
        /\ {"selector", "index", "wraps", "taken"} \subseteq DOMAIN input
        /\ input.index \in 0..(Width - 1) /\ input.wraps \in Nat
        /\ input.taken \in [DOMAIN input.selector.values -> Nat]
    BY <1>5 DEF Take, InputType
  <2>3. /\ input'.of = "selector" /\ input'.selector = input.selector
        /\ input'.index = NextIndex(input.selector, input.index)
        /\ input'.wraps \in {input.wraps, input.wraps + 1}
        /\ input'.taken = [input.taken EXCEPT ![i] = @ + 1]
        /\ DOMAIN input' = DOMAIN input
    BY <2>1, <2>2
  <2>4. NextIndex(input.selector, input.index) \in 0..(Width - 1)
    <3>1. PICK q : q = input.index
      OBVIOUS
    <3>2. q + 1 \in Nat /\ Width \in Nat \ {0} /\ q \in 0..(Width - 1)
      BY <2>2, <3>1, WidthAssumption
    <3>3. (q + 1) % Width \in 0..(Width - 1)
      BY <3>2, ModStep
    <3>4. NextIndex(input.selector, q) = (q + 1) % Width \/ NextIndex(input.selector, q) = q
      BY DEF NextIndex
    <3>5. CASE NextIndex(input.selector, q) = q
      BY <3>1, <3>2, <3>5
    <3>6. CASE NextIndex(input.selector, q) = (q + 1) % Width
      <4>1. NextIndex(input.selector, input.index) = (q + 1) % Width
        BY <3>1, <3>6
      <4> QED BY <3>3, <4>1, Zenon
    <3> QED BY <3>4, <3>5, <3>6
  <2>5. input'.taken \in [DOMAIN input.selector.values -> Nat]
    <3>1. PICK t, D : t = input.taken /\ D = DOMAIN input.selector.values
      OBVIOUS
    <3>2. t \in [D -> Nat] /\ input'.taken = [t EXCEPT ![i] = t[i] + 1]
      BY <2>2, <2>3, <3>1
    <3>3. input'.taken \in [D -> Nat]
      <4>1. i \in D => t[i] + 1 \in Nat
        BY <3>2
      <4>2. PICK x : x = t[i] + 1
        OBVIOUS
      <4> QED BY <3>2, <4>1, <4>2
    <3> QED BY <3>1, <3>3
  <2> QED BY <1>5, <2>2, <2>3, <2>4, <2>5 DEF InputType
<1>6. CASE UNCHANGED input
  BY <1>6 DEF InputType
<1> QED BY <1>1, <1>2, <1>3, <1>4, <1>5, <1>6 DEF AlgorithmsNext

(* Every input a behaviour reaches has the type of its algorithm.           *)
THEOREM AlgorithmsInputs == AlgorithmsSpec => []InputType
BY InputTypeInit, InputTypeStep, PTL DEF AlgorithmsSpec

(* Without keys every record is a part of its own.                          *)
LEMMA SplitUnkeyed ==
  ASSUME NEW cfg, NEW attrs, NEW payload, cfg.kind = "attrs", cfg.by = <<>>
  PROVE  Split(cfg, attrs, payload) = SplitUnpartitioned(payload)
  BY DEF Split

(* The parts of the records with the configured values are a partition of   *)
(* these records, in order.                                                 *)
THEOREM PartitionsPayloads == AlgorithmsSpec => []PartsPartitionPayload
<1>1. InputType => PartsPartitionPayload
  <2> SUFFICES ASSUME InputType, input.of = "partition" PROVE PartsPartitionPayload
    BY DEF PartsPartitionPayload
  <2>1. PICK cfg, attrs, n, payload, result :
           /\ cfg = input.config /\ attrs = input.attr /\ n = Len(attrs)
           /\ payload = [i \in 1..n |-> i] /\ result = Split(cfg, attrs, payload)
    OBVIOUS
  <2>2. n \in Nat /\ DOMAIN attrs = 1..n /\ cfg \in Configs
    BY <2>1 DEF InputType
  <2>3. Len(payload) = n /\ DOMAIN payload = 1..n /\ \A i \in 1..n : payload[i] = i
    BY <2>1, <2>2
  <2>4. Parts = result /\ Included = {r \in 1..n : ~Lacks(cfg, attrs[r])}
    BY <2>1, <2>2 DEF Parts, Included
  <2>5. CASE Unkeyed
    <3>1. result = SplitUnpartitioned(payload)
      BY <2>1, <2>5, SplitUnkeyed DEF Unkeyed
    <3>2. result.ok /\ result.parts = [i \in 1..n |-> <<i>>]
      BY <2>3, <3>1 DEF SplitUnpartitioned
    <3>3. cfg.by = <<>> /\ \A i : ~Lacks(cfg, attrs[i])
      BY <2>1, <2>5 DEF Unkeyed, Lacks
    <3>4. Included = 1..n
      BY <2>4, <3>3
    <3>5. \A i \in 1..n : result.parts[i] # <<>> /\ result.parts[i][1] = i
                          /\ DOMAIN result.parts[i] = {1} /\ ToSet(result.parts[i]) = {i}
      <4> SUFFICES ASSUME NEW i \in 1..n, NEW part, part = <<i>>
                   PROVE  /\ part # <<>> /\ part[1] = i
                          /\ DOMAIN part = {1} /\ ToSet(part) = {i}
        BY <3>2
      <4>1. part # <<>> /\ part[1] = i /\ DOMAIN part = {1}
        OBVIOUS
      <4> QED BY <4>1 DEF ToSet
    <3>6. UNION {ToSet(result.parts[i]) : i \in DOMAIN result.parts} = Included
      <4>1. DOMAIN result.parts = 1..n
        BY <3>2
      <4>2. \A i \in 1..n : ToSet(result.parts[i]) = {i}
        BY <3>5
      <4>3. \A r : (\E i \in 1..n : r \in ToSet(result.parts[i])) <=> r \in 1..n
        BY <4>2
      <4>4. \A r : r \in UNION {ToSet(result.parts[i]) : i \in DOMAIN result.parts} <=> r \in 1..n
        BY <4>1, <4>3, Zenon
      <4> QED BY <3>4, <4>4, Zenon
    <3>7. \A i, j \in DOMAIN result.parts :
            \A k \in DOMAIN result.parts[i], l \in DOMAIN result.parts[j] :
              /\ i = j /\ k < l => result.parts[i][k] < result.parts[j][l]
              /\ i < j => /\ result.parts[i][k] # result.parts[j][l]
                          /\ result.parts[i][1] < result.parts[j][1]
      BY <3>2, <3>5
    <3> QED BY <2>4, <2>5, <3>2, <3>5, <3>6, <3>7 DEF PartsPartitionPayload
  <2>6. CASE ~Unkeyed
    <3>1. result = Split(cfg, attrs, payload) /\ ~(cfg.kind = "attrs" /\ cfg.by = <<>>)
      BY <2>1, <2>6 DEF Unkeyed
    <3>2. result = Loop(cfg, attrs, payload)[n]
      BY <2>3, <3>1, SplitIsLoop, Zenon
    <3>3. cfg.missing \in {"error", "drop"}
      BY <2>2 DEF Configs
    <3>4. LoopInv(cfg, attrs, payload, result, n)
      <4>1. n \in 0..n
        BY <2>2
      <4>2. Len(payload) \in Nat /\ DOMAIN payload = 1..Len(payload)
        BY <2>2, <2>3, Zenon
      <4>3. \A i \in 0..Len(payload) :
              LoopInv(cfg, attrs, payload, Loop(cfg, attrs, payload)[i], i)
        BY <3>3, <4>2, LoopInvariant
      <4> QED BY <2>3, <3>2, <4>1, <4>3, Zenon
    <3>5. result.ok => Ordered(result.parts)
      <4>1. payload = [i \in 1..n |-> i]
        BY <2>1
      <4> QED BY <2>2, <3>2, <3>3, <4>1, LoopOrdered
    <3>6. result.ok <=> (cfg.missing = "drop" \/ \A r \in 1..n : ~Lacks(cfg, attrs[r]))
      BY <2>3, <3>4 DEF LoopInv, Refuses
    <3>7. result.ok <=> (Included = DOMAIN attrs \/ cfg.missing = "drop" \/ Unkeyed)
      BY <2>2, <2>4, <2>6, <3>6
    <3>8. ASSUME result.ok
          PROVE  /\ UNION {ToSet(result.parts[i]) : i \in DOMAIN result.parts} = Included
                 /\ \A i \in DOMAIN result.parts : result.parts[i] # <<>>
                 /\ \A i, j \in DOMAIN result.parts :
                      \A k \in DOMAIN result.parts[i], l \in DOMAIN result.parts[j] :
                        /\ i = j /\ k < l => result.parts[i][k] < result.parts[j][l]
                        /\ i < j => /\ result.parts[i][k] # result.parts[j][l]
                                    /\ result.parts[i][1] < result.parts[j][1]
      <4>1. PICK parts : parts = result.parts
        OBVIOUS
      <4>2. Keyed(cfg, attrs, result) /\ Covers(cfg, attrs, payload, result, n) /\ Ordered(parts)
        BY <3>4, <3>5, <3>8, <4>1 DEF LoopInv
      <4>3. DOMAIN result.index = DOMAIN parts
        BY <3>4, <4>1 DEF LoopInv, Shape
      <4>4. \A r : Has(result, r) <=> r \in Included
        <5>1. ASSUME NEW r, Has(result, r) PROVE r \in Included
          <6>1. r \in 1..n
            BY <2>3, <4>2, <5>1 DEF Covers
          <6>2. ~Lacks(cfg, attrs[r])
            BY <4>2, <5>1 DEF Has, Keyed
          <6> QED BY <2>4, <6>1, <6>2
        <5>2. ASSUME NEW r \in Included PROVE Has(result, r)
          <6>1. r \in 1..n /\ ~Lacks(cfg, attrs[r]) /\ payload[r] = r
            BY <2>3, <2>4
          <6> QED BY <4>2, <6>1 DEF Covers
        <5> QED BY <5>1, <5>2
      <4>5. UNION {ToSet(parts[i]) : i \in DOMAIN parts} = Included
        BY <4>1, <4>4 DEF Has, ToSet
      <4>6. \A i \in DOMAIN parts : parts[i] # <<>>
        BY <4>1, <4>2 DEF Keyed
      <4>7. \A i, j \in DOMAIN parts : \A k \in DOMAIN parts[i], l \in DOMAIN parts[j] :
              parts[i][k] = parts[j][l] => i = j
        BY <4>1, <4>2, <4>3 DEF Keyed
      <4>8. DOMAIN parts \subseteq Nat
        BY <3>4, <4>1 DEF LoopInv, Shape
      <4>9. \A i, j \in DOMAIN parts : \A k \in DOMAIN parts[i], l \in DOMAIN parts[j] :
                        /\ i = j /\ k < l => parts[i][k] < parts[j][l]
                        /\ i < j => /\ parts[i][k] # parts[j][l]
                                    /\ parts[i][1] < parts[j][1]
        BY <4>2, <4>7, <4>8 DEF Ordered
      <4> QED BY <4>1, <4>5, <4>6, <4>9
    <3>9. /\ Included = DOMAIN input.attr <=> Included = DOMAIN attrs
          /\ cfg.missing = "drop" <=> input.config.missing = "drop"
      BY <2>1
    <3> QED BY <2>4, <3>7, <3>8, <3>9 DEF PartsPartitionPayload
  <2> QED BY <2>5, <2>6
<1> QED BY <1>1, AlgorithmsInputs, PTL

------------------------------------------------------------------------------
(* Client metadata.                                                         *)

(* There is some metadata for every map, and its keys have a value that     *)
(* the map has in one of their spellings.                                   *)
LEMMA MetadataOfMap ==
  ASSUME NEW map
  PROVE  /\ NewMetadata(map) # {}
         /\ \A f \in NewMetadata(map) : \A k \in DOMAIN map :
              \E key \in DOMAIN map : Lower(key) = Lower(k) /\ f[Lower(k)] = map[key]
<1> DEFINE kept == {Lower(key) : key \in DOMAIN map}
           source(k) == CHOOSE key \in DOMAIN map : Lower(key) = k
           md == [k \in kept |-> map[source(k)]]
<1>1. \A k \in kept : source(k) \in DOMAIN map /\ Lower(source(k)) = k
  BY Zenon
<1> HIDE DEF source
<1>2. md \in [kept -> {map[key] : key \in DOMAIN map}] /\ DOMAIN md = kept
  BY <1>1
<1>3. \A k \in kept : \E key \in DOMAIN map : Lower(key) = k /\ md[k] = map[key]
  BY <1>1
<1> HIDE DEF md
<1>4. md \in NewMetadata(map)
  BY <1>2, <1>3 DEF NewMetadata
<1>5. \A f \in NewMetadata(map) : \A k \in DOMAIN map :
        \E key \in DOMAIN map : Lower(key) = Lower(k) /\ f[Lower(k)] = map[key]
  BY DEF NewMetadata
<1> QED BY <1>4, <1>5

LEMMA FoundAgrees ==
  ASSUME NEW values, NEW v \in ResolveClientMetadataValue(values)
  PROVE  \A other \in values : other = v
  BY DEF ResolveClientMetadataValue

(* Every record that has a value for a spec has this one.                   *)
AgreesWith(specs, payload, out) ==
  \A n \in DOMAIN specs, i \in DOMAIN payload :
    specs[n] \in DOMAIN payload[i] => out[specs[n].key] = payload[i][specs[n]]

(* The entry of a spec is the value of every record that has one, and of    *)
(* some record.                                                             *)
LEMMA EntryOfSpec ==
  ASSUME NEW specs, ValidSpecs(specs), NEW payload, NEW entries,
         entries \in ResolveClientMetadata(specs, payload)
  PROVE  /\ DOMAIN entries = {specs[i].key : i \in DOMAIN specs}
         /\ AgreesWith(specs, payload, entries)
         /\ \A n \in DOMAIN specs : entries[specs[n].key] \in SpecValues(payload, specs[n])
<1> DEFINE found(i) == ResolveClientMetadataValue(SpecValues(payload, specs[i]))
           index(key) == CHOOSE i \in DOMAIN specs : specs[i].key = key
           keys == {specs[i].key : i \in DOMAIN specs}
<1>1. /\ \A i \in DOMAIN specs : found(i) # {}
      /\ entries = [key \in keys |-> CHOOSE v \in found(index(key)) : TRUE]
  BY DEF ResolveClientMetadata
<1>2. ASSUME NEW n \in DOMAIN specs PROVE entries[specs[n].key] \in found(n)
  <2>1. index(specs[n].key) = n
    BY DEF ValidSpecs
  <2>2. entries[specs[n].key] = CHOOSE v \in found(n) : TRUE
    <3>1. specs[n].key \in keys
      OBVIOUS
    <3> HIDE DEF found, index, keys
    <3> QED BY <1>1, <2>1, <3>1
  <2> HIDE DEF found
  <2> QED BY <1>1, <2>2
<1>3. ASSUME NEW n \in DOMAIN specs, NEW i \in DOMAIN payload, specs[n] \in DOMAIN payload[i]
      PROVE  entries[specs[n].key] = payload[i][specs[n]]
  <2>1. payload[i][specs[n]] \in SpecValues(payload, specs[n])
    BY <1>3 DEF SpecValues
  <2> QED BY <1>2, <2>1, FoundAgrees
<1>4. \A n \in DOMAIN specs : found(n) \subseteq SpecValues(payload, specs[n])
  BY DEF ResolveClientMetadataValue
<1>5. DOMAIN entries = keys
  BY <1>1
<1>6. \A n \in DOMAIN specs : entries[specs[n].key] \in SpecValues(payload, specs[n])
  <2> HIDE DEF found
  <2> QED BY <1>2, <1>4
<1> QED BY <1>3, <1>5, <1>6 DEF AgreesWith

LEMMA SpecHasValue ==
  ASSUME NEW S, NEW payload \in Seq(S), NEW spec, Cardinality(SpecValues(payload, spec)) = 1
  PROVE  ResolveClientMetadataValue(SpecValues(payload, spec)) # {}
<1>1. PICK D : D = {i \in DOMAIN payload : spec \in DOMAIN payload[i]}
  OBVIOUS
<1>2. IsFiniteSet(D)
  <2>1. IsFiniteSet(1..Len(payload))
    BY FS_Interval
  <2>2. D \subseteq 1..Len(payload)
    BY <1>1
  <2> QED BY <2>1, <2>2, FS_Subset
<1>3. SpecValues(payload, spec) = {payload[i][spec] : i \in D}
  BY <1>1 DEF SpecValues
<1>4. IsFiniteSet(SpecValues(payload, spec))
  <2> DEFINE f == [i \in D |-> payload[i][spec]]
  <2>1. f \in Surjection(D, SpecValues(payload, spec))
    BY <1>3 DEF Surjection
  <2> QED BY <1>2, <2>1, FS_Surjection
<1>5. PICK x : SpecValues(payload, spec) = {x}
  BY <1>4, FS_Singleton
<1>6. x \in ResolveClientMetadataValue({x})
  BY DEF ResolveClientMetadataValue
<1> QED BY <1>5, <1>6

(* A value is found among values when they are one.                         *)
LEMMA FoundIsSole ==
  ASSUME NEW values, ResolveClientMetadataValue(values) # {}
  PROVE  Cardinality(values) = 1
<1>1. PICK v : v \in values /\ \A other \in values : other = v
  BY DEF ResolveClientMetadataValue
<1>2. values = {v}
  BY <1>1
<1> QED BY <1>2, FS_Singleton

LEMMA SentMetadata ==
  ASSUME NEW specs, ValidSpecs(specs), NEW payload, NEW received,
         \A key \in DOMAIN received : Lower(key) = key,
         NEW entries \in ResolveClientMetadata(specs, payload),
         NEW out \in AddClientMetadata(received, entries)
  PROVE  LabelsHold(specs, payload, received, out)
<1>1. /\ DOMAIN entries = {specs[i].key : i \in DOMAIN specs}
      /\ AgreesWith(specs, payload, entries)
      /\ \A n \in DOMAIN specs : entries[specs[n].key] \in SpecValues(payload, specs[n])
  BY EntryOfSpec
<1>2. CASE entries = NoMetadata
  <2>1. DOMAIN entries = {}
    BY <1>2 DEF NoMetadata
  <2>2. out = received
    BY <1>2 DEF AddClientMetadata
  <2>3. DOMAIN specs = {}
    BY <1>1, <2>1
  <2> QED BY <2>2, <2>3 DEF LabelsHold
<1>3. CASE entries # NoMetadata
  <2>1. PICK map : map = [key \in DOMAIN received \union DOMAIN entries |->
                            IF key \in DOMAIN entries THEN entries[key] ELSE received[key]]
    OBVIOUS
  <2>2. out \in NewMetadata(map)
    BY <1>3, <2>1 DEF AddClientMetadata
  <2>3. /\ DOMAIN map = DOMAIN received \union DOMAIN entries
        /\ \A key \in DOMAIN entries : map[key] = entries[key]
        /\ \A key \in DOMAIN received : key \notin DOMAIN entries => map[key] = received[key]
    BY <2>1
  <2>4. \A k \in DOMAIN map :
          \E key \in DOMAIN map : Lower(key) = Lower(k) /\ out[Lower(k)] = map[key]
    BY <2>2, MetadataOfMap
  <2>5. ASSUME NEW n \in DOMAIN specs
        PROVE  IF OneSpelling(specs, received, specs[n].key)
                 THEN \A i \in DOMAIN payload : specs[n] \in DOMAIN payload[i] =>
                        out[Lower(specs[n].key)] = payload[i][specs[n]]
                 ELSE \/ \E k \in DOMAIN received :
                           Lower(k) = Lower(specs[n].key) /\ out[Lower(specs[n].key)] = received[k]
                      \/ \E m \in DOMAIN specs :
                           /\ Lower(specs[m].key) = Lower(specs[n].key)
                           /\ out[Lower(specs[n].key)] \in SpecValues(payload, specs[m])
    <3>1. specs[n].key \in DOMAIN entries
      BY <1>1
    <3>2. PICK key \in DOMAIN map :
            Lower(key) = Lower(specs[n].key) /\ out[Lower(specs[n].key)] = map[key]
      BY <2>3, <2>4, <3>1
    <3>3. CASE OneSpelling(specs, received, specs[n].key)
      <4>1. key = specs[n].key
        BY <1>1, <2>3, <3>2, <3>3 DEF OneSpelling
      <4>2. out[Lower(specs[n].key)] = entries[specs[n].key]
        BY <2>3, <3>1, <3>2, <4>1
      <4> QED BY <1>1, <3>3, <4>2 DEF AgreesWith
    <3>4. CASE key \in DOMAIN entries /\ ~OneSpelling(specs, received, specs[n].key)
      <4>1. PICK m \in DOMAIN specs : key = specs[m].key
        BY <1>1, <3>4
      <4> QED BY <1>1, <2>3, <3>2, <3>4, <4>1
    <3>5. CASE key \notin DOMAIN entries /\ ~OneSpelling(specs, received, specs[n].key)
      BY <2>3, <3>2, <3>5
    <3> QED BY <3>3, <3>4, <3>5
  <2>6. ASSUME NEW k \in DOMAIN received
        PROVE  (\E n \in DOMAIN specs : Lower(specs[n].key) = Lower(k)) \/ out[k] = received[k]
    <3>1. Lower(k) = k /\ k \in DOMAIN map
      BY <2>3
    <3>2. PICK key \in DOMAIN map : Lower(key) = Lower(k) /\ out[Lower(k)] = map[key]
      BY <2>4, <3>1
    <3>3. CASE key \in DOMAIN entries
      BY <1>1, <3>2, <3>3
    <3>4. CASE key \notin DOMAIN entries
      <4>1. key = k
        BY <2>3, <3>1, <3>2, <3>4
      <4> QED BY <2>3, <3>1, <3>2, <3>4, <4>1
    <3> QED BY <3>3, <3>4
  <2> QED BY <2>5, <2>6, Zenon DEF LabelsHold
<1> QED BY <1>2, <1>3

(* Metadata is sent on when there are entries, and then every spec has one  *)
(* value.                                                                   *)
LEMMA MetadataSent ==
  ASSUME NEW specs, NEW payload, NEW received
  PROVE  ConsumeLogsMetadata(specs, payload, received) # {} <=>
           \A i \in DOMAIN specs : ResolveClientMetadataValue(SpecValues(payload, specs[i])) # {}
<1>1. ResolveClientMetadata(specs, payload) # {} <=>
        \A i \in DOMAIN specs : ResolveClientMetadataValue(SpecValues(payload, specs[i])) # {}
  BY DEF ResolveClientMetadata
<1>2. ASSUME NEW entries PROVE AddClientMetadata(received, entries) # {}
  BY MetadataOfMap DEF AddClientMetadata
<1> QED BY <1>1, <1>2 DEF ConsumeLogsMetadata

(* No record travels under a label that contradicts its own attribute while *)
(* the key of the label has one spelling, whatever the keys of specs and of *)
(* clients; and a payload is refused exactly when the values of a spec are  *)
(* not one.                                                                 *)
THEOREM LabelsAreTrue == AlgorithmsSpec => []NoRecordMislabelled
<1>1. InputType => NoRecordMislabelled
  <2> SUFFICES ASSUME InputType, input.of = "metadata" PROVE NoRecordMislabelled
    BY DEF NoRecordMislabelled
  <2>1. PICK specs, payload, received, sent :
           /\ specs = input.specs /\ payload = input.payload /\ received = input.received
           /\ sent = ConsumeLogsMetadata(specs, payload, received)
    OBVIOUS
  <2>2. /\ specs \in SpecLists /\ ValidSpecs(specs) /\ payload \in Seq(Labelled)
        /\ received \in Received
    BY <2>1 DEF InputType
  <2>3. \A key \in DOMAIN received : Lower(key) = key
    BY <2>2, AlgorithmsAssumption
  <2>4. \A out \in sent : LabelsHold(specs, payload, received, out)
    BY <2>1, <2>2, <2>3, SentMetadata DEF ConsumeLogsMetadata
  <2>5. sent # {} <=> \A n \in DOMAIN specs :
          ResolveClientMetadataValue(SpecValues(payload, specs[n])) # {}
    BY <2>1, MetadataSent
  <2>6. \A n \in DOMAIN specs :
          ResolveClientMetadataValue(SpecValues(payload, specs[n])) # {} <=>
            Cardinality(SpecValues(payload, specs[n])) = 1
    BY <2>2, SpecHasValue, FoundIsSole
  <2> QED BY <2>1, <2>4, <2>5, <2>6 DEF NoRecordMislabelled
<1> QED BY <1>1, AlgorithmsInputs, PTL

------------------------------------------------------------------------------
(* Round robin.  Of two values the first is ahead of the second by at most  *)
(* one for each time the counter wrapped, and one more between their turns. *)
Ahead(selector, index, i, j) ==
  LET turn == index % Len(selector.values) IN IF i <= turn /\ turn < j THEN 1 ELSE 0

InTurn(in) ==
  \A i, j \in DOMAIN in.taken : i < j =>
    /\ Ahead(in.selector, in.index, i, j) <= in.taken[i] - in.taken[j]
    /\ in.taken[i] - in.taken[j] <= in.wraps + Ahead(in.selector, in.index, i, j)

RoundRobin == (input.of = "selector" /\ Counts(input.selector)) => InTurn(input)

LEMMA RoundRobinInit == AlgorithmsInit => RoundRobin
<1> SUFFICES ASSUME AlgorithmsInit, input.of = "selector" PROVE InTurn(input)
  BY DEF RoundRobin
<1>1. PICK s \in Selectors :
        /\ ValidSelector(s)
        /\ input = [of |-> "selector", selector |-> s, index |-> 0, wraps |-> 0,
                    taken |-> [i \in DOMAIN s.values |-> 0]]
  BY DEF AlgorithmsInit
<1>2. PICK n : n = Len(s.values) /\ n \in Nat /\ DOMAIN s.values = 1..n
  BY AlgorithmsAssumption
<1>3. /\ input.index = 0 /\ input.wraps = 0 /\ input.selector = s
      /\ DOMAIN input.taken = 1..n /\ \A i \in 1..n : input.taken[i] = 0
  BY <1>1, <1>2
<1>4. ASSUME NEW i \in 1..n, NEW j \in 1..n PROVE Ahead(s, 0, i, j) = 0
  <2>1. n \in Nat \ {0}
    BY <1>2
  <2>2. 0 % n = 0
    BY <2>1
  <2>3. PICK turn : turn = 0 % Len(s.values)
    OBVIOUS
  <2>4. turn = 0
    BY <1>2, <2>2, <2>3, Zenon
  <2>5. ~(i <= turn)
    BY <2>4
  <2> QED BY <2>3, <2>5 DEF Ahead
<1>5. ASSUME NEW i \in DOMAIN input.taken, NEW j \in DOMAIN input.taken
      PROVE  /\ Ahead(input.selector, input.index, i, j) = 0
             /\ input.taken[i] = 0 /\ input.taken[j] = 0 /\ input.wraps = 0
  BY <1>3, <1>4
<1> QED BY <1>5 DEF InTurn

LEMMA RoundRobinStep == InputType /\ RoundRobin /\ [AlgorithmsNext]_input => RoundRobin'
<1> SUFFICES ASSUME InputType, RoundRobin, [AlgorithmsNext]_input,
                    input'.of = "selector", Counts(input'.selector)
             PROVE  InTurn(input')
  BY DEF RoundRobin
<1>1. CASE UNCHANGED input
  BY <1>1 DEF RoundRobin
<1>2. ASSUME NEW char, Type(char) PROVE FALSE
  BY <1>2 DEF Type, InputType
<1>3. ASSUME NEW attrs, AppendRecord(attrs) PROVE FALSE
  BY <1>3 DEF AppendRecord, InputType
<1>4. ASSUME NEW record, AppendLabelled(record) PROVE FALSE
  BY <1>4 DEF AppendLabelled, InputType
<1>5. CASE Redeliver
  BY <1>5 DEF Redeliver, InputType
<1>6. CASE Take
  <2>1. PICK s, q, w, t, n :
           /\ s = input.selector /\ q = input.index /\ w = input.wraps /\ t = input.taken
           /\ n = Len(s.values)
    OBVIOUS
  <2>2. PICK p \in NextValues(s, q) :
          input' = [input EXCEPT !.taken[p] = @ + 1, !.index = NextIndex(s, @),
                                 !.wraps = IF NextIndex(s, q) <= q THEN @ + 1 ELSE @]
    BY <1>6, <2>1 DEF Take
  <2>3. /\ input.of = "selector" /\ s \in Selectors
        /\ {"selector", "index", "wraps", "taken"} \subseteq DOMAIN input
        /\ q \in 0..(Width - 1) /\ w \in Nat /\ t \in [DOMAIN s.values -> Nat]
    BY <1>6, <2>1 DEF Take, InputType
  <2>4. /\ input'.selector = s
        /\ input'.index = NextIndex(s, q)
        /\ input'.wraps = IF NextIndex(s, q) <= q THEN w + 1 ELSE w
        /\ input'.taken = [t EXCEPT ![p] = @ + 1]
    BY <2>1, <2>2, <2>3
  <2>5. Counts(s) /\ InTurn(input)
    BY <2>3, <2>4, <2>1 DEF RoundRobin
  <2>6. n \in Nat \ {0} /\ DOMAIN s.values = 1..n
    <3>1. s.values \in Seq(STRING)
      BY <2>3, AlgorithmsAssumption
    <3>2. n > 1
      BY <2>1, <2>5 DEF Counts
    <3> QED BY <2>1, <3>1, <3>2
  <2>7. PICK turn, v : turn = q % n /\ v = input'.taken
    OBVIOUS
  <2>8. p = turn + 1 /\ turn \in 0..(n - 1)
    <3>1. q \in Nat
      BY <2>3, WidthAssumption
    <3>2. NextValues(s, q) = {turn + 1}
      BY <2>1, <2>5, <2>7 DEF NextValues
    <3> QED BY <2>2, <2>6, <2>7, <3>1, <3>2, ModStep
  <2>9. /\ DOMAIN v = 1..n /\ v[p] = t[p] + 1
        /\ \A i \in 1..n : t[i] \in Nat /\ (i # p => v[i] = t[i])
    BY <2>3, <2>4, <2>6, <2>7, <2>8
  <2>10. ASSUME NEW i \in 1..n, NEW j \in 1..n, i < j
         PROVE  LET a == IF i <= turn /\ turn < j THEN 1 ELSE 0 IN
                a <= t[i] - t[j] /\ t[i] - t[j] <= w + a
    BY <2>1, <2>3, <2>5, <2>6, <2>7, <2>10 DEF InTurn, Ahead
  <2>11. ASSUME NEW i \in 1..n, NEW j \in 1..n, i < j
         PROVE  LET a == Ahead(s, NextIndex(s, q), i, j) IN
                a <= v[i] - v[j] /\ v[i] - v[j] <= input'.wraps + a
    <3>1. q \in Nat /\ Width \in Nat \ {0} /\ NextIndex(s, q) = (q + 1) % Width
      BY <2>3, <2>5, WidthAssumption DEF NextIndex
    <3>2. PICK a, ti, tj, vi, vj :
            /\ a = IF i <= turn /\ turn < j THEN 1 ELSE 0
            /\ ti = t[i] /\ tj = t[j] /\ vi = v[i] /\ vj = v[j]
      OBVIOUS
    <3>3. /\ a <= ti - tj /\ ti - tj <= w + a /\ ti \in Nat /\ tj \in Nat
          /\ vi = IF i = p THEN ti + 1 ELSE ti
          /\ vj = IF j = p THEN tj + 1 ELSE tj
      BY <2>9, <2>10, <2>11, <3>2
    <3>4. CASE q + 1 = Width
      <4>1. NextIndex(s, q) = 0
        BY <3>1, <3>4
      <4>2. input'.wraps = w + 1
        BY <2>4, <3>1, <4>1
      <4>3. 0 % n = 0
        BY <2>6
      <4>4. Ahead(s, NextIndex(s, q), i, j) = 0
        <5>1. PICK next : next = NextIndex(s, q) % Len(s.values)
          OBVIOUS
        <5>2. next = 0
          BY <2>1, <4>1, <4>3, <5>1, Zenon
        <5>3. ~(i <= next)
          BY <5>2
        <5> QED BY <5>1, <5>3 DEF Ahead
      <4> QED BY <2>3, <2>8, <2>11, <3>2, <3>3, <4>2, <4>4
    <3>5. CASE q + 1 # Width
      <4>1. NextIndex(s, q) = q + 1
        BY <2>3, <3>1, <3>5
      <4>2. input'.wraps = w
        BY <2>4, <3>1, <4>1
      <4>3. (q + 1) % n = IF turn = n - 1 THEN 0 ELSE turn + 1
        BY <2>6, <2>7, <3>1, ModStep
      <4>4. Ahead(s, NextIndex(s, q), i, j) =
              IF turn # n - 1 /\ i <= turn + 1 /\ turn + 1 < j THEN 1 ELSE 0
        <5>1. PICK next : next = NextIndex(s, q) % Len(s.values)
          OBVIOUS
        <5>2. next = IF turn = n - 1 THEN 0 ELSE turn + 1
          BY <2>1, <4>1, <4>3, <5>1
        <5>3. (i <= next /\ next < j) <=> (turn # n - 1 /\ i <= turn + 1 /\ turn + 1 < j)
          BY <2>8, <5>2
        <5> QED BY <5>1, <5>3 DEF Ahead
      <4>5. PICK b : b = Ahead(s, NextIndex(s, q), i, j)
        OBVIOUS
      <4>6. b = IF turn # n - 1 /\ i <= turn + 1 /\ turn + 1 < j THEN 1 ELSE 0
        BY <4>4, <4>5, Zenon
      <4>7. b <= vi - vj /\ vi - vj <= w + b
        <5>1. n \in Int /\ w \in Int /\ turn \in Int /\ turn <= n - 1 /\ p = turn + 1
          BY <2>3, <2>6, <2>8
        <5>2. i \in Int /\ j \in Int /\ i < j /\ j <= n
          BY <2>6, <2>11
        <5>3. ti \in Int /\ tj \in Int /\ a <= ti - tj /\ ti - tj <= w + a
          BY <3>3
        <5> QED BY <3>2, <3>3, <4>6, <5>1, <5>2, <5>3
      <4> QED BY <3>2, <4>2, <4>5, <4>7
    <3> QED BY <3>4, <3>5
  <2> QED BY <2>4, <2>7, <2>9, <2>11 DEF InTurn
<1> QED BY <1>1, <1>2, <1>3, <1>4, <1>5, <1>6 DEF AlgorithmsNext

(* No value of a selector is taken more than once more than another, and    *)
(* once more each time the counter wraps.                                   *)
THEOREM RoundRobinIsEven == AlgorithmsSpec => []TakenEvenly
<1>1. InputType /\ RoundRobin => TakenEvenly
  <2> SUFFICES ASSUME InputType, RoundRobin, input.of = "selector", Counts(input.selector),
                      NEW i \in DOMAIN input.taken, NEW j \in DOMAIN input.taken
               PROVE  input.taken[i] - input.taken[j] <= 1 + input.wraps
    BY DEF TakenEvenly
  <2>1. PICK n, t, w : n = Len(input.selector.values) /\ t = input.taken /\ w = input.wraps
    OBVIOUS
  <2>2. DOMAIN input.selector.values = 1..n /\ n \in Nat
    BY <2>1, AlgorithmsAssumption DEF InputType
  <2>3. t \in [1..n -> Nat] /\ w \in Nat
    BY <2>1, <2>2 DEF InputType
  <2>4. \A k, l : Ahead(input.selector, input.index, k, l) \in {0, 1}
    BY DEF Ahead
  <2>5. \A k, l \in 1..n : k < l => 0 <= t[k] - t[l] /\ t[k] - t[l] <= w + 1
    <3> SUFFICES ASSUME NEW k \in 1..n, NEW l \in 1..n, k < l
                 PROVE  0 <= t[k] - t[l] /\ t[k] - t[l] <= w + 1
      OBVIOUS
    <3>1. PICK a : a = Ahead(input.selector, input.index, k, l)
      OBVIOUS
    <3>2. a <= t[k] - t[l] /\ t[k] - t[l] <= w + a
      BY <2>1, <2>3, <3>1 DEF RoundRobin, InTurn
    <3>3. a \in {0, 1}
      BY <2>4, <3>1
    <3> QED BY <2>3, <3>2, <3>3
  <2>6. i \in 1..n /\ j \in 1..n
    BY <2>1, <2>3
  <2>7. t[i] - t[j] <= 1 + w
    BY <2>3, <2>5, <2>6
  <2> QED BY <2>1, <2>7
<1> QED BY <1>1, RoundRobinInit, RoundRobinStep, AlgorithmsInputs, InputTypeInit, PTL DEF AlgorithmsSpec

------------------------------------------------------------------------------
(* What a payload is split into: non-empty parts of its records that lack   *)
(* nothing.                                                                 *)
LEMMA SplitCovers ==
  ASSUME NEW cfg, cfg.missing \in {"error", "drop"}, NEW attrs, NEW R, NEW payload \in Seq(R)
  PROVE  LET split == Split(cfg, attrs, payload) IN
         split.ok =>
           /\ split.parts \in Seq(Seq(R))
           /\ \A j \in DOMAIN split.parts : split.parts[j] # <<>>
           /\ \A r : (\E j \in DOMAIN split.parts : r \in ToSet(split.parts[j]))
                       <=> (r \in ToSet(payload) /\ ~Lacks(cfg, attrs[r]))
<1>1. PICK n, s : n = Len(payload) /\ s = Split(cfg, attrs, payload)
  OBVIOUS
<1>2. n \in Nat /\ DOMAIN payload = 1..n /\ ToSet(payload) \subseteq R
  BY <1>1 DEF ToSet
<1>3. CASE cfg.kind = "attrs" /\ cfg.by = <<>>
  <2>1. s = SplitUnpartitioned(payload)
    BY <1>1, <1>3, SplitUnkeyed
  <2>2. s.ok /\ s.parts = [i \in 1..n |-> <<payload[i]>>]
    BY <1>2, <2>1 DEF SplitUnpartitioned
  <2>3. \A r : ~Lacks(cfg, attrs[r])
    BY <1>3 DEF Lacks
  <2>4. \A i \in 1..n : <<payload[i]>> \in Seq(R)
    BY <1>1
  <2>5. s.parts \in Seq(Seq(R))
    BY <1>2, <2>2, <2>4
  <2>6. ASSUME NEW j \in 1..n PROVE s.parts[j] # <<>> /\ ToSet(s.parts[j]) = {payload[j]}
    <3>1. PICK x, part : x = payload[j] /\ part = s.parts[j]
      OBVIOUS
    <3>2. part = <<x>>
      BY <2>2, <3>1
    <3>3. part # <<>> /\ DOMAIN part = {1} /\ part[1] = x
      BY <3>2
    <3> QED BY <3>1, <3>3 DEF ToSet
  <2>7. DOMAIN s.parts = 1..n
    BY <2>2
  <2>8. \A r : (\E j \in DOMAIN s.parts : r \in ToSet(s.parts[j])) <=> r \in ToSet(payload)
    BY <1>2, <2>6, <2>7 DEF ToSet
  <2> QED BY <1>1, <2>3, <2>5, <2>6, <2>7, <2>8
<1>4. CASE ~(cfg.kind = "attrs" /\ cfg.by = <<>>)
  <2>1. s = Loop(cfg, attrs, payload)[Len(payload)]
    BY <1>1, <1>4, SplitIsLoop
  <2>2. n \in 0..n
    BY <1>2
  <2>3. LoopInv(cfg, attrs, payload, s, n)
    BY <1>1, <1>2, <2>1, <2>2, LoopInvariant
  <2>4. SUFFICES ASSUME s.ok
                 PROVE  /\ s.parts \in Seq(Seq(R))
                        /\ \A j \in DOMAIN s.parts : s.parts[j] # <<>>
                        /\ \A r : (\E j \in DOMAIN s.parts : r \in ToSet(s.parts[j]))
                                    <=> (r \in ToSet(payload) /\ ~Lacks(cfg, attrs[r]))
    BY <1>1
  <2>5. Keyed(cfg, attrs, s) /\ Covers(cfg, attrs, payload, s, n)
    BY <2>3, <2>4 DEF LoopInv
  <2>6. s.parts \in Seq(Seq(R))
    <3>1. s.parts \in Seq(Seq(ToSet(payload)))
      BY <2>3 DEF LoopInv, Shape
    <3>2. PICK Q, T : Q = ToSet(payload) /\ T = s.parts
      OBVIOUS
    <3>3. Q \subseteq R /\ T \in Seq(Seq(Q))
      BY <1>2, <3>1, <3>2
    <3>4. T \in Seq(Seq(R))
      BY <3>3
    <3> QED BY <3>2, <3>4
  <2>7. \A j \in DOMAIN s.parts : s.parts[j] # <<>>
    BY <2>5 DEF Keyed
  <2>8. \A r : Has(s, r) <=> \E j \in DOMAIN s.parts : r \in ToSet(s.parts[j])
    BY DEF Has, ToSet
  <2>9. ASSUME NEW r, Has(s, r) PROVE r \in ToSet(payload) /\ ~Lacks(cfg, attrs[r])
    <3>1. \E k \in 1..n : payload[k] = r
      BY <2>5, <2>9 DEF Covers
    <3>2. ~Lacks(cfg, attrs[r])
      BY <2>5, <2>9 DEF Has, Keyed
    <3> QED BY <1>2, <3>1, <3>2 DEF ToSet
  <2>10. ASSUME NEW r \in ToSet(payload), ~Lacks(cfg, attrs[r]) PROVE Has(s, r)
    <3>1. PICK k \in 1..n : payload[k] = r
      BY <1>2 DEF ToSet
    <3> QED BY <2>5, <2>10, <3>1 DEF Covers
  <2> QED BY <2>6, <2>7, <2>8, <2>9, <2>10
<1> QED BY <1>3, <1>4

------------------------------------------------------------------------------
(* Templates.                                                               *)

(* The texts of one part, and of a part behind the texts of those before.   *)
PartTexts(parts, values, i) ==
  IF parts[i].source = <<>> THEN {parts[i].literal} ELSE values[i]

Concat(text, more) == text \o more
Continued(texts, more) == {Concat(done, text) : done \in texts, text \in more}

LEMMA ResolveEquation ==
  ASSUME NEW parts, NEW values, Len(parts) \in Nat
  PROVE  \E f : /\ f[0] = {<<>>}
                /\ \A i \in 1..Len(parts) : f[i] = Continued(f[i - 1], PartTexts(parts, values, i))
                /\ Resolve(parts, values) = f[Len(parts)]
<1> DEFINE A(x, i) == Continued(x, PartTexts(parts, values, i))
<1> HIDE DEF A
<1>1. PICK empty : empty = {<<>>}
  OBVIOUS
<1> DEFINE S == {m \in Nat : \E f : f = [i \in 0..m |-> IF i = 0 THEN empty ELSE A(f[i - 1], i)]}
<1>2. 0 \in S
  <2> DEFINE f == [i \in 0..0 |-> empty]
  <2>1. f = [i \in 0..0 |-> IF i = 0 THEN empty ELSE A(f[i - 1], i)]
    OBVIOUS
  <2> HIDE DEF f
  <2> QED BY <2>1
<1>3. ASSUME NEW m \in Nat, m \in S PROVE m + 1 \in S
  <2>1. PICK f : f = [i \in 0..m |-> IF i = 0 THEN empty ELSE A(f[i - 1], i)]
    BY <1>3
  <2> DEFINE g == [i \in 0..(m + 1) |-> IF i <= m THEN f[i] ELSE A(f[m], m + 1)]
  <2>2. g = [i \in 0..(m + 1) |-> IF i = 0 THEN empty ELSE A(g[i - 1], i)]
    BY <2>1
  <2> HIDE DEF g
  <2> QED BY <2>2
<1> HIDE DEF S
<1>4. Len(parts) \in S
  BY <1>2, <1>3, NatSetInduction
<1> DEFINE text[i \in 0..Len(parts)] == IF i = 0 THEN empty ELSE A(text[i - 1], i)
<1>5. text = [i \in 0..Len(parts) |-> IF i = 0 THEN empty ELSE A(text[i - 1], i)]
  BY <1>4 DEF S
<1>6. Resolve(parts, values) = text[Len(parts)]
  BY <1>1 DEF Resolve, A, Continued, Concat, PartTexts
<1> HIDE DEF text
<1>7. text[0] = empty /\ \A i \in 1..Len(parts) : text[i] = A(text[i - 1], i)
  BY <1>5
<1> QED BY <1>1, <1>6, <1>7 DEF A

AtMostOne(texts) == \A x, y \in texts : x = y

LEMMA ContinuedAtMostOne ==
  ASSUME NEW X, NEW Y, AtMostOne(X), AtMostOne(Y)
  PROVE  AtMostOne(Continued(X, Y))
  BY DEF AtMostOne, Continued

LEMMA ResolveValueAtMostOne ==
  ASSUME NEW values, NEW stable
  PROVE  AtMostOne(ResolveValue(values, stable))
  BY DEF AtMostOne, ResolveValue

(* A template has one text or none.                                         *)
LEMMA ResolveAtMostOne ==
  ASSUME NEW parts, NEW values, Len(parts) \in Nat,
         \A i \in 1..Len(parts) : AtMostOne(values[i])
  PROVE  AtMostOne(Resolve(parts, values))
<1>1. PICK f : /\ f[0] = {<<>>}
               /\ \A i \in 1..Len(parts) : f[i] = Continued(f[i - 1], PartTexts(parts, values, i))
               /\ Resolve(parts, values) = f[Len(parts)]
  BY ResolveEquation
<1> DEFINE S == {i \in Nat : i <= Len(parts) => AtMostOne(f[i])}
<1>2. 0 \in S
  BY <1>1 DEF AtMostOne
<1>3. ASSUME NEW i \in Nat, i \in S PROVE i + 1 \in S
  <2> SUFFICES ASSUME i + 1 <= Len(parts) PROVE AtMostOne(f[i + 1])
    OBVIOUS
  <2>1. i + 1 \in 1..Len(parts) /\ (i + 1) - 1 = i /\ AtMostOne(f[i])
    BY <1>3
  <2>2. f[i + 1] = Continued(f[i], PartTexts(parts, values, i + 1))
    BY <1>1, <2>1
  <2>3. AtMostOne(PartTexts(parts, values, i + 1))
    BY <2>1 DEF AtMostOne, PartTexts
  <2>4. PICK x, y : x = f[i] /\ y = PartTexts(parts, values, i + 1)
    OBVIOUS
  <2>5. AtMostOne(Continued(x, y))
    BY <2>1, <2>3, <2>4, ContinuedAtMostOne
  <2> QED BY <2>2, <2>4, <2>5
<1> HIDE DEF S
<1>4. Nat \subseteq S
  BY <1>2, <1>3, NatSetInduction
<1> QED BY <1>1, <1>4 DEF S

LEMMA SubjectAtMostOne ==
  ASSUME NEW fixed, NEW n, NEW parts \in Seq(n), NEW attrs, NEW payload, NEW header
  PROVE  AtMostOne(ResolveSubject(fixed, parts, attrs, payload, header))
<1> DEFINE values == [i \in DOMAIN parts |->
             ResolveValue(SourceValues(attrs, payload, header, parts[i].source), TRUE)]
<1>1. Len(parts) \in Nat /\ DOMAIN parts = 1..Len(parts)
  OBVIOUS
<1>2. \A i \in 1..Len(parts) : AtMostOne(values[i])
  BY <1>1, ResolveValueAtMostOne
<1>3. ResolveSubject(fixed, parts, attrs, payload, header) =
        IF parts = <<>> THEN {fixed} \ {<<>>} ELSE Resolve(parts, values)
  BY DEF ResolveSubject
<1> HIDE DEF values
<1>4. AtMostOne(Resolve(parts, values))
  BY <1>1, <1>2, ResolveAtMostOne
<1> QED BY <1>3, <1>4 DEF AtMostOne

(* A template that is one placeholder has the text of its value.            *)
LEMMA SubjectOfHeader ==
  ASSUME NEW fixed, NEW key, NEW attrs, NEW payload, NEW S, NEW v \in Seq(S)
  PROVE  ResolveSubject(fixed, <<Placeholder(Header, key)>>, attrs, payload, <<v>>) = {v}
<1>1. PICK parts, header : parts = <<Placeholder(Header, key)>> /\ header = <<v>>
  OBVIOUS
<1>2. Len(parts) = 1 /\ DOMAIN parts = {1} /\ parts # <<>> /\ parts[1] = Placeholder(Header, key)
  BY <1>1
<1>3. Placeholder(Header, key).source = Header /\ Header # <<>>
  BY DEF Placeholder, Header
<1> DEFINE values == [i \in DOMAIN parts |->
             ResolveValue(SourceValues(attrs, payload, header, parts[i].source), TRUE)]
<1>4. ResolveSubject(fixed, parts, attrs, payload, header) = Resolve(parts, values)
  BY <1>2 DEF ResolveSubject
<1>5. values[1] = {v}
  <2>1. values[1] = ResolveValue(header, TRUE)
    BY <1>2, <1>3 DEF SourceValues
  <2>2. DOMAIN header = {1} /\ header[1] = v
    BY <1>1
  <2>3. PICK D : D = DOMAIN header
    OBVIOUS
  <2>4. Min(D) = 1
    BY <2>2, <2>3 DEF Min
  <2>5. Min(DOMAIN header) = 1
    BY <2>3, <2>4
  <2> QED BY <2>1, <2>2, <2>5 DEF ResolveValue
<1> HIDE DEF values
<1>6. PICK f : /\ f[0] = {<<>>}
               /\ \A i \in 1..Len(parts) : f[i] = Continued(f[i - 1], PartTexts(parts, values, i))
               /\ Resolve(parts, values) = f[Len(parts)]
  <2>1. Len(parts) \in Nat
    BY <1>2
  <2> QED BY <2>1, ResolveEquation, Zenon
<1>7. f[1] = Continued({<<>>}, {v})
  <2>1. PartTexts(parts, values, 1) = {v}
    BY <1>2, <1>3, <1>5 DEF PartTexts
  <2>2. 1 \in 1..Len(parts) /\ 1 - 1 = 0
    BY <1>2
  <2>3. f[1] = Continued(f[1 - 1], PartTexts(parts, values, 1))
    BY <1>6, <2>2, Zenon
  <2> QED BY <1>6, <2>1, <2>2, <2>3, Zenon
<1>8. Continued({<<>>}, {v}) = {v}
  <2>1. <<>> \o v = v
    BY ConcatEmptySeq
  <2> QED BY <2>1 DEF Continued, Concat
<1> QED BY <1>1, <1>2, <1>4, <1>6, <1>7, <1>8

(* A record is in one part, or in equal ones.                               *)
LEMMA PartsApart ==
  ASSUME NEW cfg, cfg.missing \in {"error", "drop"}, NEW attrs, NEW R, NEW payload \in Seq(R),
         Split(cfg, attrs, payload).ok,
         NEW p \in ToSet(Split(cfg, attrs, payload).parts),
         NEW q \in ToSet(Split(cfg, attrs, payload).parts),
         NEW r, r \in ToSet(p), r \in ToSet(q)
  PROVE  p = q
<1>1. PICK n, s : n = Len(payload) /\ s = Split(cfg, attrs, payload)
  OBVIOUS
<1>2. n \in Nat /\ DOMAIN payload = 1..n
  BY <1>1
<1>3. PICK i, j : i \in DOMAIN s.parts /\ j \in DOMAIN s.parts /\ p = s.parts[i] /\ q = s.parts[j]
  BY <1>1 DEF ToSet
<1>4. CASE cfg.kind = "attrs" /\ cfg.by = <<>>
  <2>1. s.parts = [k \in 1..n |-> <<payload[k]>>]
    BY <1>1, <1>2, <1>4, SplitUnkeyed DEF SplitUnpartitioned
  <2>2. p = <<payload[i]>> /\ q = <<payload[j]>>
    BY <1>3, <2>1
  <2>3. PICK x, y : x = payload[i] /\ y = payload[j]
    OBVIOUS
  <2>4. p = <<x>> /\ q = <<y>>
    BY <2>2, <2>3
  <2>5. ToSet(p) = {x} /\ ToSet(q) = {y}
    BY <2>4 DEF ToSet
  <2> QED BY <2>4, <2>5
<1>5. CASE ~(cfg.kind = "attrs" /\ cfg.by = <<>>)
  <2>1. s = Loop(cfg, attrs, payload)[Len(payload)]
    BY <1>1, <1>5, SplitIsLoop
  <2>2. n \in 0..n
    BY <1>2
  <2>3. LoopInv(cfg, attrs, payload, s, n)
    BY <1>1, <1>2, <2>1, <2>2, LoopInvariant
  <2>4. Keyed(cfg, attrs, s) /\ DOMAIN s.parts = DOMAIN s.index
    BY <1>1, <2>3 DEF LoopInv, Shape
  <2>5. PICK k \in DOMAIN p, l \in DOMAIN q : r = p[k] /\ r = q[l]
    BY DEF ToSet
  <2>6. Key(cfg, attrs[r]) = s.index[i] /\ Key(cfg, attrs[r]) = s.index[j]
    <3>1. \A a \in DOMAIN s.parts : \A b \in DOMAIN s.parts[a] :
            Key(cfg, attrs[s.parts[a][b]]) = s.index[a]
      BY <2>4 DEF Keyed
    <3>2. Key(cfg, attrs[p[k]]) = s.index[i] /\ Key(cfg, attrs[q[l]]) = s.index[j]
      BY <1>3, <3>1, Zenon
    <3> QED BY <2>5, <3>2
  <2>7. i = j
    BY <1>3, <2>4, <2>6 DEF Keyed
  <2> QED BY <1>3, <2>7
<1> QED BY <1>4, <1>5

------------------------------------------------------------------------------
(* Pieces that can be told apart at the front can be told apart in a        *)
(* concatenation.                                                           *)
JoinsTo(A, n, S, f) ==
  /\ f[0] = <<>>
  /\ \A i \in 1..n : A[i] \in Seq(S) /\ f[i] = f[i - 1] \o A[i]
  /\ \A i \in 0..n : f[i] \in Seq(S)

Apart(a, b, S) == \A x, y \in Seq(S) : a \o x = b \o y => a = b

Regroups(u, v, w) == (u \o v) \o w = u \o (v \o w)
LEMMA Regrouped ==
  ASSUME NEW S, NEW u, NEW v, NEW w, u \in Seq(S), v \in Seq(S), w \in Seq(S)
  PROVE  Regroups(u, v, w)
BY ConcatAssociative DEF Regroups

AllApart(A, B, n, S) == \A i \in 1..n : Apart(A[i], B[i], S)
Unjoins(A, B, n, S, f, g) ==
  \A x, y \in Seq(S) : f[n] \o x = g[n] \o y => x = y /\ \A i \in 1..n : A[i] = B[i]

LEMMA Unjoin ==
  ASSUME NEW S, NEW n, n \in Nat, NEW A, NEW B, NEW f, NEW g,
         JoinsTo(A, n, S, f), JoinsTo(B, n, S, g), AllApart(A, B, n, S)
  PROVE  Unjoins(A, B, n, S, f, g)
<1> DEFINE Holds(k) == k <= n => \A x, y \in Seq(S) :
                         f[k] \o x = g[k] \o y => x = y /\ \A i \in 1..k : A[i] = B[i]
<1>1. Holds(0)
  <2> SUFFICES ASSUME NEW x \in Seq(S), NEW y \in Seq(S), f[0] \o x = g[0] \o y
               PROVE  x = y /\ \A i \in 1..0 : A[i] = B[i]
    BY Zenon
  <2>1. f[0] = <<>> /\ g[0] = <<>>
    BY DEF JoinsTo
  <2>2. f[0] \o x = x /\ g[0] \o y = y
    BY <2>1, ConcatEmptySeq, Zenon
  <2>3. \A i \in 1..0 : FALSE
    OBVIOUS
  <2> QED BY <2>2, <2>3, Zenon
<1>2. ASSUME NEW k \in Nat, Holds(k) PROVE Holds(k + 1)
  <2> SUFFICES ASSUME k + 1 <= n, NEW x \in Seq(S), NEW y \in Seq(S),
                      f[k + 1] \o x = g[k + 1] \o y
               PROVE  x = y /\ \A i \in 1..(k + 1) : A[i] = B[i]
    BY Zenon
  <2>1. PICK a, b, s, t : a = A[k + 1] /\ b = B[k + 1] /\ s = f[k] /\ t = g[k]
    OBVIOUS
  <2>2. k + 1 \in 1..n /\ (k + 1) - 1 = k /\ k \in 0..n
    OBVIOUS
  <2>3. /\ a \in Seq(S) /\ b \in Seq(S) /\ s \in Seq(S) /\ t \in Seq(S)
        /\ f[k + 1] = s \o a /\ g[k + 1] = t \o b
    BY <2>1, <2>2 DEF JoinsTo
  <2>4. a \o x \in Seq(S) /\ b \o y \in Seq(S)
    BY <2>3, ConcatProperties, Zenon
  <2>5. s \o (a \o x) = t \o (b \o y)
    <3>1. s \in Seq(S) /\ a \in Seq(S) /\ t \in Seq(S) /\ b \in Seq(S)
      BY <2>3, Zenon
    <3>2. Regroups(s, a, x) /\ Regroups(t, b, y)
      BY <3>1, Regrouped
    <3> QED BY <2>3, <3>2, Zenon DEF Regroups
  <2>6. k <= n
    BY <2>2
  <2>7. a \o x = b \o y /\ \A i \in 1..k : A[i] = B[i]
    BY <1>2, <2>1, <2>4, <2>5, <2>6, Zenon
  <2>8. a = b
    <3>1. Apart(a, b, S)
      BY <2>1, <2>2, Zenon DEF AllApart
    <3> QED BY <2>7, <3>1, Zenon DEF Apart
  <2>9. x = y
    BY <2>3, <2>7, <2>8, ConcatSimplifications, Zenon
  <2>10. \A i \in 1..(k + 1) : i \in 1..k \/ i = k + 1
    OBVIOUS
  <2> QED BY <2>1, <2>7, <2>8, <2>9, <2>10, Zenon
<1>3. \A k \in Nat : Holds(k)
  <2> HIDE DEF Holds
  <2> DEFINE T == {k \in Nat : Holds(k)}
  <2>1. 0 \in T /\ \A k \in Nat : k \in T => k + 1 \in T
    BY <1>1, <1>2
  <2>2. Nat \subseteq T
    <3> HIDE DEF T
    <3> QED BY <2>1, NatSetInduction
  <2> QED BY <2>2
<1>4. n <= n
  OBVIOUS
<1> QED BY <1>3, <1>4, Zenon DEF Unjoins

(* What stands behind the first pieces of a concatenation.                  *)
Continues(whole, front, piece, S) ==
  \E rest \in Seq(S) : whole = Concat(front, Concat(piece, rest))

LEMMA Behind ==
  ASSUME NEW S, NEW n, n \in Nat, NEW A, NEW f, JoinsTo(A, n, S, f), NEW k, k \in Nat, k < n
  PROVE  Continues(f[n], f[k], A[k + 1], S)
<1> DEFINE Holds(d) == (k + 1) + d <= n =>
                         \E rest \in Seq(S) : f[(k + 1) + d] = f[k] \o (A[k + 1] \o rest)
<1>1. PICK s, a : s = f[k] /\ a = A[k + 1]
  OBVIOUS
<1>2. /\ k + 1 \in 1..n /\ (k + 1) - 1 = k /\ k \in 0..n
      /\ s \in Seq(S) /\ a \in Seq(S) /\ f[k + 1] = s \o a
  <2>1. k + 1 \in 1..n /\ (k + 1) - 1 = k /\ k \in 0..n
    OBVIOUS
  <2> QED BY <1>1, <2>1 DEF JoinsTo
<1>3. Holds(0)
  <2>1. a \o <<>> = a /\ <<>> \in Seq(S)
    BY <1>2, ConcatEmptySeq, EmptySeq, Zenon
  <2>2. (k + 1) + 0 = k + 1
    OBVIOUS
  <2>3. f[(k + 1) + 0] = s \o (a \o <<>>)
    BY <1>2, <2>1, <2>2, Zenon
  <2> QED BY <1>1, <2>1, <2>3, Zenon
<1>4. ASSUME NEW d \in Nat, Holds(d) PROVE Holds(d + 1)
  <2> SUFFICES ASSUME (k + 1) + (d + 1) <= n
               PROVE  \E rest \in Seq(S) : f[(k + 1) + (d + 1)] = f[k] \o (A[k + 1] \o rest)
    BY Zenon
  <2>1. PICK m : m = (k + 1) + d
    OBVIOUS
  <2>2. m + 1 \in 1..n /\ (m + 1) - 1 = m /\ (k + 1) + (d + 1) = m + 1 /\ m <= n
    BY <2>1
  <2>3. PICK rest \in Seq(S) : f[m] = s \o (a \o rest)
    BY <1>1, <1>4, <2>1, <2>2, Zenon
  <2>4. PICK b : b = A[m + 1]
    OBVIOUS
  <2>5. b \in Seq(S) /\ f[m + 1] = f[m] \o b
    BY <2>2, <2>4 DEF JoinsTo
  <2>6. rest \o b \in Seq(S) /\ a \o rest \in Seq(S)
    BY <1>2, <2>5, ConcatProperties, Zenon
  <2>7. (s \o (a \o rest)) \o b = s \o ((a \o rest) \o b)
    <3>1. PICK c : c = a \o rest
      OBVIOUS
    <3>2. s \in Seq(S) /\ c \in Seq(S) /\ b \in Seq(S)
      BY <1>2, <2>5, <2>6, <3>1, Zenon
    <3>3. Regroups(s, c, b)
      BY <3>2, Regrouped
    <3> QED BY <3>1, <3>3, Zenon DEF Regroups
  <2>8. (a \o rest) \o b = a \o (rest \o b)
    <3>1. a \in Seq(S) /\ b \in Seq(S)
      BY <1>2, <2>5, Zenon
    <3>2. Regroups(a, rest, b)
      BY <3>1, Regrouped
    <3> QED BY <3>2, Zenon DEF Regroups
  <2>9. f[m + 1] = s \o (a \o (rest \o b))
    BY <2>3, <2>5, <2>7, <2>8, Zenon
  <2> QED BY <1>1, <2>2, <2>6, <2>9, Zenon
<1>5. n - (k + 1) \in Nat /\ (k + 1) + (n - (k + 1)) = n
  OBVIOUS
<1>6. \A d \in Nat : Holds(d)
  <2> HIDE DEF Holds
  <2> DEFINE T == {d \in Nat : Holds(d)}
  <2>1. 0 \in T /\ \A d \in Nat : d \in T => d + 1 \in T
    BY <1>3, <1>4
  <2>2. Nat \subseteq T
    <3> HIDE DEF T
    <3> QED BY <2>1, NatSetInduction
  <2> QED BY <2>2
<1>7. (k + 1) + (n - (k + 1)) <= n
  OBVIOUS
<1> QED BY <1>5, <1>6, <1>7, Zenon DEF Continues, Concat

LEMMA Joins ==
  ASSUME NEW S, NEW seqs \in Seq(Seq(S))
  PROVE  \E f : JoinsTo(seqs, Len(seqs), S, f) /\ FlattenSeq(seqs) = f[Len(seqs)]
<1>1. PICK f : Concatenates(seqs, S, f) /\ FlattenSeq(seqs) = f[Len(seqs)]
  BY FlattenPrefixes
<1>2. \A i \in 1..Len(seqs) : seqs[i] \in Seq(S)
  OBVIOUS
<1> QED BY <1>1, <1>2 DEF Concatenates, JoinsTo

------------------------------------------------------------------------------
(* Quoted values.                                                           *)

LEMMA ConcatType ==
  ASSUME NEW S, NEW a, NEW b, a \in Seq(S), b \in Seq(S)
  PROVE  Concat(a, b) \in Seq(S)
  BY ConcatProperties DEF Concat

LEMMA ConcatAssoc ==
  ASSUME NEW S, NEW a, NEW b, NEW c, a \in Seq(S), b \in Seq(S), c \in Seq(S)
  PROVE  Concat(Concat(a, b), c) = Concat(a, Concat(b, c))
<1>1. Regroups(a, b, c)
  BY Regrouped
<1> QED BY <1>1, Zenon DEF Concat, Regroups

LEMMA ConcatFront ==
  ASSUME NEW S, NEW a, NEW b, a \in Seq(S), b \in Seq(S), NEW i, i \in 1..Len(a)
  PROVE  Concat(a, b)[i] = a[i]
  BY ConcatProperties DEF Concat

LEMMA ConcatSecond ==
  ASSUME NEW S, NEW a, NEW b, a \in Seq(S), b \in Seq(S), Len(a) = 2
  PROVE  Concat(a, b)[2] = a[2]
<1>1. 2 \in 1..Len(a)
  OBVIOUS
<1>2. (a \o b)[2] = a[2]
  <2>1. \A i \in 1..Len(a) + Len(b) : (a \o b)[i] = IF i <= Len(a) THEN a[i] ELSE b[i - Len(a)]
    BY ConcatProperties
  <2>2. 2 \in 1..Len(a) + Len(b) /\ 2 <= Len(a)
    BY LenProperties
  <2> QED BY <2>1, <2>2, Zenon
<1> QED BY <1>2, Zenon DEF Concat

LEMMA ConcatCancel ==
  ASSUME NEW S, NEW a, NEW b, NEW c, a \in Seq(S), b \in Seq(S), c \in Seq(S),
         Concat(a, b) = Concat(a, c)
  PROVE  b = c
  BY ConcatSimplifications, Zenon DEF Concat

LEMMA ConcatNonEmpty ==
  ASSUME NEW S, NEW a, NEW b, a \in Seq(S), b \in Seq(S), 1 \in 1..Len(a)
  PROVE  Concat(a, b) # <<>>
  BY ConcatProperties, EmptySeq DEF Concat

LEMMA SeqOfSubset ==
  ASSUME NEW S, NEW T, S \subseteq T, NEW s, s \in Seq(S)
  PROVE  s \in Seq(T)
  OBVIOUS

LEMMA OneType ==
  ASSUME NEW S, NEW x, x \in S
  PROVE  <<x>> \in Seq(S) /\ Len(<<x>>) = 1 /\ <<x>>[1] = x
  OBVIOUS

LEMMA PairType ==
  ASSUME NEW S, NEW x, NEW y, x \in S, y \in S
  PROVE  <<x, y>> \in Seq(S) /\ Len(<<x, y>>) = 2 /\ <<x, y>>[1] = x /\ <<x, y>>[2] = y
  OBVIOUS

(* The quote q, and the backslash b that stands before it and before itself *)
(* in a quoted value.                                                       *)
Marks(q, b) ==
  /\ q # b
  /\ \A c : Escaped(c) = IF c = q \/ c = b THEN <<b, c>> ELSE <<c>>
  /\ \A value : Quote(value) =
       Concat(Concat(<<q>>, FlattenSeq([i \in DOMAIN value |-> Escaped(value[i])])), <<q>>)

LEMMA TheMarks == \E q, b : Marks(q, b)
<1>1. PICK q, b : q = "\"" /\ b = "\\"
  OBVIOUS
<1>2. q # b
  BY <1>1
<1>3. \A c : Escaped(c) = IF c = q \/ c = b THEN <<b, c>> ELSE <<c>>
  BY <1>1, Zenon DEF Escaped
<1>4. \A value : Quote(value) =
       Concat(Concat(<<q>>, FlattenSeq([i \in DOMAIN value |-> Escaped(value[i])])), <<q>>)
  BY <1>1, Zenon DEF Quote, Concat
<1> QED BY <1>1, <1>2, <1>3, <1>4, Zenon DEF Marks

(* What a character is written as: e.                                       *)
Writes(e, c, q, b) ==
  /\ c = q \/ c = b => Len(e) = 2 /\ e[1] = b /\ e[2] = c
  /\ c # q /\ c # b => Len(e) = 1 /\ e[1] = c

LEMMA EscapedWrites ==
  ASSUME NEW S, NEW q, NEW b, Marks(q, b), q \in S, b \in S, NEW c, c \in S
  PROVE  Escaped(c) \in Seq(S) /\ Writes(Escaped(c), c, q, b)
<1>1. CASE c = q \/ c = b
  <2>1. Escaped(c) = <<b, c>>
    BY <1>1 DEF Marks
  <2> QED BY <1>1, <2>1, PairType DEF Writes
<1>2. CASE c # q /\ c # b
  <2>1. Escaped(c) = <<c>>
    BY <1>2 DEF Marks
  <2> QED BY <1>2, <2>1, OneType DEF Writes
<1> QED BY <1>1, <1>2

LEMMA WritesFront ==
  ASSUME NEW q, NEW b, NEW c, NEW e, q # b, Writes(e, c, q, b)
  PROVE  1 \in 1..Len(e) /\ e[1] # q
  BY DEF Writes

LEMMA WritesOne ==
  ASSUME NEW q, NEW b, NEW c, NEW d, NEW e, q # b, Writes(e, c, q, b), Writes(e, d, q, b)
  PROVE  c = d
  BY DEF Writes

LEMMA WritesEqual ==
  ASSUME NEW S, NEW q, NEW b, NEW c, NEW e, NEW f, e \in Seq(S), f \in Seq(S),
         Writes(e, c, q, b), Writes(f, c, q, b)
  PROVE  e = f
<1>1. Len(e) = Len(f) /\ \A i \in 1..Len(e) : e[i] = f[i]
  BY DEF Writes
<1> QED BY <1>1, SeqEqual

LEMMA WritesApart ==
  ASSUME NEW S, NEW q, NEW b, q # b, NEW c, NEW d, NEW e, NEW f, NEW x, NEW y,
         e \in Seq(S), f \in Seq(S), x \in Seq(S), y \in Seq(S),
         Writes(e, c, q, b), Writes(f, d, q, b), Concat(e, x) = Concat(f, y)
  PROVE  c = d
<1>1. e[1] = f[1]
  <2>1. 1 \in 1..Len(e) /\ 1 \in 1..Len(f)
    BY WritesFront
  <2>2. Concat(e, x)[1] = e[1] /\ Concat(f, y)[1] = f[1]
    BY <2>1, ConcatFront
  <2> QED BY <2>2
<1>2. CASE c = q \/ c = b
  <2>1. d = q \/ d = b
    BY <1>1, <1>2 DEF Writes
  <2>2. e[2] = c /\ f[2] = d /\ Len(e) = 2 /\ Len(f) = 2
    BY <1>2, <2>1 DEF Writes
  <2>3. Concat(e, x)[2] = e[2]
    BY <2>2, ConcatSecond
  <2>4. Concat(f, y)[2] = f[2]
    BY <2>2, ConcatSecond
  <2> QED BY <2>2, <2>3, <2>4
<1>3. CASE c # q /\ c # b
  <2>1. d # q /\ d # b
    BY <1>1, <1>3 DEF Writes
  <2> QED BY <1>1, <1>3, <2>1 DEF Writes
<1> QED BY <1>2, <1>3
(* The escapes of the characters of a value.                                *)
Escapes(v) == [i \in DOMAIN v |-> Escaped(v[i])]

(* A value of n characters and its escapes V.                               *)
Spelt(v, V, n, S, q, b) ==
  /\ n \in Nat /\ Len(v) = n /\ Len(V) = n
  /\ V \in Seq(Seq(S))
  /\ \A i \in 1..n : V[i] \in Seq(S) /\ Writes(V[i], v[i], q, b)

LEMMA EscapesSpelt ==
  ASSUME NEW S, NEW q, NEW b, Marks(q, b), q \in S, b \in S, NEW v, v \in Seq(S)
  PROVE  Spelt(v, Escapes(v), Len(v), S, q, b)
<1>1. PICK n : n = Len(v)
  OBVIOUS
<1>2. n \in Nat /\ DOMAIN v = 1..n /\ \A i \in 1..n : v[i] \in S
  BY <1>1
<1>3. PICK V : V = Escapes(v)
  OBVIOUS
<1>4. V = [i \in 1..n |-> Escaped(v[i])]
  BY <1>2, <1>3 DEF Escapes
<1>5. \A i \in 1..n : V[i] \in Seq(S) /\ Writes(V[i], v[i], q, b)
  <2> SUFFICES ASSUME NEW i \in 1..n PROVE V[i] \in Seq(S) /\ Writes(V[i], v[i], q, b)
    OBVIOUS
  <2>1. V[i] = Escaped(v[i]) /\ v[i] \in S
    BY <1>2, <1>4
  <2> QED BY <2>1, EscapedWrites
<1>6. Len(V) = n /\ V \in Seq(Seq(S))
  <2>1. DOMAIN V = 1..n
    BY <1>4
  <2>2. V = [i \in 1..n |-> V[i]]
    BY <1>4
  <2> QED BY <1>2, <1>5, <2>1, <2>2
<1> QED BY <1>1, <1>2, <1>3, <1>5, <1>6 DEF Spelt

LEMMA WritesAllApart ==
  ASSUME NEW S, NEW q, NEW b, q # b, NEW v, NEW w, NEW V, NEW W, NEW n,
         Spelt(v, V, n, S, q, b), \E m : Spelt(w, W, m, S, q, b) /\ n <= m
  PROVE  AllApart(V, W, n, S)
<1>1. PICK m : Spelt(w, W, m, S, q, b) /\ n <= m
  OBVIOUS
<1> SUFFICES ASSUME NEW i \in 1..n PROVE Apart(V[i], W[i], S)
  BY DEF AllApart
<1> SUFFICES ASSUME NEW x \in Seq(S), NEW y \in Seq(S), V[i] \o x = W[i] \o y
             PROVE  V[i] = W[i]
  BY DEF Apart
<1>2. PICK c, d, e, f : c = v[i] /\ d = w[i] /\ e = V[i] /\ f = W[i]
  OBVIOUS
<1>3. i \in 1..m
  BY <1>1 DEF Spelt
<1>4. e \in Seq(S) /\ f \in Seq(S) /\ Writes(e, c, q, b) /\ Writes(f, d, q, b)
  BY <1>1, <1>2, <1>3 DEF Spelt
<1>5. Concat(e, x) = Concat(f, y)
  BY <1>2 DEF Concat
<1>6. c = d
  BY <1>4, <1>5, WritesApart
<1> QED BY <1>2, <1>4, <1>6, WritesEqual

(* A shorter escaped text is told from a longer one by what follows it.     *)
LEMMA EscapesApart ==
  ASSUME NEW S, NEW q, NEW b, Marks(q, b), q \in S, b \in S,
         NEW v, NEW w, v \in Seq(S), w \in Seq(S), Len(v) <= Len(w),
         NEW x, NEW y, x \in Seq(S), y \in Seq(S), 1 \in 1..Len(x), 1 \in 1..Len(y),
         x[1] = q, y[1] = q,
         Concat(FlattenSeq(Escapes(v)), x) = Concat(FlattenSeq(Escapes(w)), y)
  PROVE  v = w
<1>1. PICK V, W, n, m : V = Escapes(v) /\ W = Escapes(w) /\ n = Len(v) /\ m = Len(w)
  OBVIOUS
<1>2. Spelt(v, V, n, S, q, b) /\ Spelt(w, W, m, S, q, b)
  BY <1>1, EscapesSpelt
<1>3. n \in Nat /\ m \in Nat /\ n <= m /\ V \in Seq(Seq(S)) /\ W \in Seq(Seq(S))
      /\ Len(V) = n /\ Len(W) = m
  BY <1>1, <1>2 DEF Spelt
<1>4. PICK f : JoinsTo(V, n, S, f) /\ FlattenSeq(V) = f[n]
  BY <1>3, Joins
<1>5. PICK g : JoinsTo(W, m, S, g) /\ FlattenSeq(W) = g[m]
  BY <1>3, Joins
<1>6. q # b
  BY DEF Marks
<1>7. AllApart(V, W, n, S)
  BY <1>2, <1>3, <1>6, WritesAllApart
<1>8. JoinsTo(W, n, S, g)
  <2>1. \A i \in 1..n : i \in 1..m
    BY <1>3
  <2>2. \A i \in 0..n : i \in 0..m
    BY <1>3
  <2> QED BY <1>5, <2>1, <2>2, Zenon DEF JoinsTo
<1>9. Unjoins(V, W, n, S, f, g)
  BY <1>3, <1>4, <1>7, <1>8, Unjoin
<1>10. Concat(f[n], x) = Concat(g[m], y)
  BY <1>1, <1>4, <1>5, Zenon
<1>11. CASE n < m
  <2>1. Continues(g[m], g[n], W[n + 1], S)
    BY <1>3, <1>5, <1>11, Behind
  <2>2. PICK rest \in Seq(S) : g[m] = Concat(g[n], Concat(W[n + 1], rest))
    BY <2>1, Zenon DEF Continues
  <2>3. PICK s, a, c : s = g[n] /\ a = W[n + 1] /\ c = w[n + 1]
    OBVIOUS
  <2>4. n + 1 \in 1..m /\ n \in 0..m
    BY <1>3, <1>11
  <2>5. a \in Seq(S) /\ Writes(a, c, q, b) /\ s \in Seq(S)
    <3>1. a \in Seq(S) /\ Writes(a, c, q, b)
      BY <1>2, <2>3, <2>4 DEF Spelt
    <3>2. s \in Seq(S)
      BY <1>5, <2>3, <2>4 DEF JoinsTo
    <3> QED BY <3>1, <3>2
  <2>6. Concat(a, rest) \in Seq(S) /\ Concat(rest, y) \in Seq(S)
    BY <2>5, ConcatType
  <2>7. Concat(Concat(a, rest), y) = Concat(a, Concat(rest, y))
    BY <2>5, ConcatAssoc
  <2>8. Concat(a, Concat(rest, y)) \in Seq(S)
    BY <2>5, <2>6, ConcatType
  <2>9. Concat(Concat(s, Concat(a, rest)), y) = Concat(s, Concat(Concat(a, rest), y))
    BY <2>5, <2>6, ConcatAssoc
  <2>10. Concat(f[n], x) = Concat(s, Concat(a, Concat(rest, y)))
    BY <1>10, <2>2, <2>3, <2>7, <2>9, Zenon
  <2>11. x = Concat(a, Concat(rest, y))
    BY <1>9, <2>3, <2>8, <2>10, Zenon DEF Unjoins, Concat
  <2>12. 1 \in 1..Len(a) /\ a[1] # q
    BY <1>6, <2>5, WritesFront
  <2>13. x[1] = a[1]
    <3>1. PICK r : r = Concat(rest, y)
      OBVIOUS
    <3>2. r \in Seq(S) /\ x = Concat(a, r)
      BY <2>6, <2>11, <3>1, Zenon
    <3>3. Concat(a, r)[1] = a[1]
      BY <2>5, <2>12, <3>2, ConcatFront
    <3> QED BY <3>2, <3>3
  <2> QED BY <2>12, <2>13
<1>12. CASE n = m
  <2>1. f[n] \o x = g[n] \o y
    BY <1>10, <1>12, Zenon DEF Concat
  <2>2. \A i \in 1..n : V[i] = W[i]
    BY <1>9, <2>1, Zenon DEF Unjoins
  <2>3. ASSUME NEW i \in 1..n PROVE v[i] = w[i]
    <3>1. PICK c, d, e : c = v[i] /\ d = w[i] /\ e = V[i]
      OBVIOUS
    <3>2. e = W[i]
      BY <2>2, <3>1
    <3>3. Writes(e, c, q, b) /\ Writes(e, d, q, b)
      BY <1>2, <1>12, <3>1, <3>2 DEF Spelt
    <3>4. c = d
      BY <1>6, <3>3, WritesOne
    <3> QED BY <3>1, <3>4
  <2> QED BY <1>1, <1>3, <1>12, <2>3, SeqEqual
<1> QED BY <1>3, <1>11, <1>12

Unfolds(quoted, o, e, S) ==
  /\ quoted \in Seq(S) /\ e \in Seq(S)
  /\ \A x \in Seq(S) : Concat(quoted, x) = Concat(o, Concat(e, Concat(o, x)))

LEMMA QuoteUnfolds ==
  ASSUME NEW S, NEW q, NEW b, Marks(q, b), q \in S, b \in S, NEW v, v \in Seq(S)
  PROVE  Unfolds(Quote(v), <<q>>, FlattenSeq(Escapes(v)), S)
<1>1. PICK o, e : o = <<q>> /\ e = FlattenSeq(Escapes(v))
  OBVIOUS
<1>2. o \in Seq(S)
  BY <1>1, OneType
<1>3. e \in Seq(S)
  <2>1. Escapes(v) \in Seq(Seq(S))
    BY EscapesSpelt DEF Spelt
  <2> QED BY <1>1, <2>1, FlattenType
<1>4. Quote(v) = Concat(Concat(o, e), o)
  BY <1>1, Zenon DEF Marks, Escapes
<1>5. Concat(o, e) \in Seq(S)
  BY <1>2, <1>3, ConcatType
<1>6. Concat(Concat(o, e), o) \in Seq(S)
  BY <1>2, <1>5, ConcatType
<1>7. ASSUME NEW x \in Seq(S)
      PROVE  Concat(Concat(Concat(o, e), o), x) = Concat(o, Concat(e, Concat(o, x)))
  <2>1. Concat(o, x) \in Seq(S)
    BY <1>2, ConcatType
  <2>2. Concat(Concat(Concat(o, e), o), x) = Concat(Concat(o, e), Concat(o, x))
    BY <1>2, <1>5, ConcatAssoc
  <2>3. Concat(Concat(o, e), Concat(o, x)) = Concat(o, Concat(e, Concat(o, x)))
    BY <1>2, <1>3, <2>1, ConcatAssoc
  <2> QED BY <2>2, <2>3, Zenon
<1> QED BY <1>1, <1>3, <1>4, <1>6, <1>7, Zenon DEF Unfolds

(* No quoted value is the beginning of another one.                         *)
LEMMA QuoteApart ==
  ASSUME NEW S, NEW q, NEW b, Marks(q, b), q \in S, b \in S,
         NEW v, NEW w, v \in Seq(S), w \in Seq(S),
         NEW x, NEW y, x \in Seq(S), y \in Seq(S), Concat(Quote(v), x) = Concat(Quote(w), y)
  PROVE  v = w
<1>1. PICK o, e, d, s, t :
        /\ o = <<q>> /\ e = FlattenSeq(Escapes(v)) /\ d = FlattenSeq(Escapes(w))
        /\ s = Concat(o, x) /\ t = Concat(o, y)
  OBVIOUS
<1>2. o \in Seq(S) /\ 1 \in 1..Len(o) /\ o[1] = q
  BY <1>1, OneType
<1>3. s \in Seq(S) /\ t \in Seq(S)
  BY <1>1, <1>2, ConcatType
<1>4. e \in Seq(S) /\ Concat(Quote(v), x) = Concat(o, Concat(e, s))
  <2>1. Unfolds(Quote(v), <<q>>, FlattenSeq(Escapes(v)), S)
    BY QuoteUnfolds
  <2> QED BY <1>1, <2>1, Zenon DEF Unfolds
<1>5. d \in Seq(S) /\ Concat(Quote(w), y) = Concat(o, Concat(d, t))
  <2>1. Unfolds(Quote(w), <<q>>, FlattenSeq(Escapes(w)), S)
    BY QuoteUnfolds
  <2> QED BY <1>1, <2>1, Zenon DEF Unfolds
<1>6. Concat(e, s) \in Seq(S) /\ Concat(d, t) \in Seq(S)
  BY <1>3, <1>4, <1>5, ConcatType
<1>7. Concat(o, Concat(e, s)) = Concat(o, Concat(d, t))
  BY <1>4, <1>5, Zenon
<1>8. Concat(e, s) = Concat(d, t)
  BY <1>2, <1>6, <1>7, ConcatCancel, Zenon
<1>9. ASSUME NEW z \in Seq(S) PROVE 1 \in 1..Len(Concat(o, z)) /\ Concat(o, z)[1] = q
  <2>1. Concat(o, z)[1] = o[1]
    BY <1>2, ConcatFront
  <2>2. Concat(o, z) # <<>> /\ Concat(o, z) \in Seq(S)
    BY <1>2, ConcatNonEmpty, ConcatType
  <2>3. PICK c : c = Concat(o, z)
    OBVIOUS
  <2>4. 1 \in 1..Len(c)
    BY <2>2, <2>3, EmptySeq
  <2> QED BY <1>2, <2>1, <2>3, <2>4
<1>10. 1 \in 1..Len(s) /\ s[1] = q /\ 1 \in 1..Len(t) /\ t[1] = q
  BY <1>1, <1>9, Zenon
<1>11. Len(v) \in Nat /\ Len(w) \in Nat
  OBVIOUS
<1>12. CASE Len(v) <= Len(w)
  BY <1>1, <1>3, <1>8, <1>10, <1>12, EscapesApart
<1>13. CASE Len(w) <= Len(v)
  BY <1>1, <1>3, <1>8, <1>10, <1>13, EscapesApart
<1> QED BY <1>11, <1>12, <1>13

(* A separator and a quoted value behind it.                                *)
LEMMA SeparatedApart ==
  ASSUME NEW S, NEW q, NEW b, Marks(q, b), q \in S, b \in S,
         NEW sep, NEW v, NEW w, sep \in Seq(S), v \in Seq(S), w \in Seq(S),
         NEW x, NEW y, x \in Seq(S), y \in Seq(S),
         Concat(Concat(sep, Quote(v)), x) = Concat(Concat(sep, Quote(w)), y)
  PROVE  v = w
<1>1. Quote(v) \in Seq(S) /\ Quote(w) \in Seq(S)
  BY QuoteUnfolds DEF Unfolds
<1>2. Concat(Quote(v), x) \in Seq(S) /\ Concat(Quote(w), y) \in Seq(S)
  BY <1>1, ConcatType
<1>3. Concat(Concat(sep, Quote(v)), x) = Concat(sep, Concat(Quote(v), x))
  BY <1>1, ConcatAssoc
<1>4. Concat(Concat(sep, Quote(w)), y) = Concat(sep, Concat(Quote(w), y))
  BY <1>1, ConcatAssoc
<1>5. Concat(sep, Concat(Quote(v), x)) = Concat(sep, Concat(Quote(w), y))
  BY <1>3, <1>4, Zenon
<1>6. Concat(Quote(v), x) = Concat(Quote(w), y)
  BY <1>2, <1>5, ConcatCancel
<1> QED BY <1>6, QuoteApart

(* The pieces of a key.                                                     *)
Bar(i) == IF i > 1 THEN <<"|">> ELSE <<>>
Pieces(by, attrs) == [i \in DOMAIN by |-> Concat(Bar(i), Quote(attrs[by[i]]))]

LEMMA KeyOfPieces ==
  ASSUME NEW cfg, NEW attrs
  PROVE  Key(cfg, attrs) = FlattenSeq(Pieces(cfg.by, attrs))
  BY DEF Key, Pieces, Bar, Concat

(* The n pieces P of a key for values v.                                    *)
Pieced(P, v, n, S) ==
  /\ P \in Seq(Seq(S)) /\ Len(P) = n
  /\ \A i \in 1..n : Bar(i) \in Seq(S) /\ v[i] \in Seq(S) /\ P[i] \in Seq(S)
                     /\ P[i] = Concat(Bar(i), Quote(v[i]))

LEMMA PiecesPieced ==
  ASSUME NEW S, NEW q, NEW b, Marks(q, b), q \in S, b \in S, "|" \in S,
         NEW by, NEW n, n \in Nat, DOMAIN by = 1..n, NEW attrs, NEW v,
         v = [i \in 1..n |-> attrs[by[i]]], \A i \in 1..n : v[i] \in Seq(S)
  PROVE  Pieced(Pieces(by, attrs), v, n, S)
<1>1. PICK P : P = Pieces(by, attrs)
  OBVIOUS
<1>2. P = [i \in 1..n |-> Concat(Bar(i), Quote(v[i]))]
  BY <1>1 DEF Pieces
<1>3. ASSUME NEW i \in 1..n
      PROVE  /\ Bar(i) \in Seq(S) /\ v[i] \in Seq(S) /\ P[i] \in Seq(S)
             /\ P[i] = Concat(Bar(i), Quote(v[i]))
  <2>1. Bar(i) \in Seq(S)
    <3>1. PICK c : c = "|"
      OBVIOUS
    <3>2. <<c>> \in Seq(S) /\ <<>> \in Seq(S)
      BY <3>1
    <3> QED BY <3>1, <3>2 DEF Bar
  <2>2. PICK u : u = v[i]
    OBVIOUS
  <2>3. u \in Seq(S)
    BY <2>2
  <2>4. Quote(u) \in Seq(S)
    BY <2>3, QuoteUnfolds DEF Unfolds
  <2>5. Concat(Bar(i), Quote(u)) \in Seq(S)
    BY <2>1, <2>4, ConcatType
  <2> QED BY <1>2, <2>1, <2>2, <2>3, <2>5
<1>4. P \in Seq(Seq(S)) /\ Len(P) = n
  <2>1. DOMAIN P = 1..n /\ P = [i \in 1..n |-> P[i]]
    BY <1>2
  <2>2. \A i \in 1..n : P[i] \in Seq(S)
    BY <1>3
  <2> QED BY <2>1, <2>2
<1> QED BY <1>1, <1>3, <1>4 DEF Pieced

SameValues(P, Q, v, w, n) == \A i \in 1..n : P[i] = Q[i] => v[i] = w[i]

LEMMA PiecedApart ==
  ASSUME NEW S, NEW q, NEW b, Marks(q, b), q \in S, b \in S,
         NEW P, NEW Q, NEW v, NEW w, NEW n, n \in Nat, Pieced(P, v, n, S), Pieced(Q, w, n, S)
  PROVE  AllApart(P, Q, n, S) /\ SameValues(P, Q, v, w, n)
<1>1. ASSUME NEW i \in 1..n, NEW x \in Seq(S), NEW y \in Seq(S), P[i] \o x = Q[i] \o y
      PROVE  v[i] = w[i] /\ P[i] = Q[i]
  <2>1. PICK sep, c, d : sep = Bar(i) /\ c = v[i] /\ d = w[i]
    OBVIOUS
  <2>2. /\ sep \in Seq(S) /\ c \in Seq(S) /\ d \in Seq(S)
        /\ P[i] = Concat(sep, Quote(c)) /\ Q[i] = Concat(sep, Quote(d))
    BY <2>1 DEF Pieced
  <2>3. Concat(Concat(sep, Quote(c)), x) = Concat(Concat(sep, Quote(d)), y)
    BY <1>1, <2>2, Zenon DEF Concat
  <2>4. c = d
    BY <2>2, <2>3, SeparatedApart
  <2> QED BY <2>1, <2>2, <2>4
<1>2. AllApart(P, Q, n, S)
  BY <1>1 DEF AllApart, Apart
<1>3. ASSUME NEW i \in 1..n, P[i] = Q[i] PROVE v[i] = w[i]
  <2>1. <<>> \in Seq(S)
    OBVIOUS
  <2>2. P[i] \o <<>> = Q[i] \o <<>>
    BY <1>3
  <2> QED BY <1>1, <2>1, <2>2, Zenon
<1> QED BY <1>2, <1>3 DEF SameValues

HasBar(S) == "|" \in S
Counted(cfg, n) == n \in Nat /\ DOMAIN cfg.by = 1..n
ValueList(v, attrs, cfg, n, S) ==
  v = [i \in 1..n |-> attrs[cfg.by[i]]] /\ \A i \in 1..n : v[i] \in Seq(S)

(* Two records have the same key exactly when they have the same values.    *)
LEMMA KeysApart ==
  ASSUME NEW S, NEW q, NEW b, Marks(q, b), q \in S, b \in S, HasBar(S),
         NEW cfg, NEW n, Counted(cfg, n), NEW k, NEW l, NEW v, NEW w,
         ValueList(v, k, cfg, n, S), ValueList(w, l, cfg, n, S)
  PROVE  Key(cfg, k) = Key(cfg, l) <=> v = w
<1>1. n \in Nat /\ DOMAIN cfg.by = 1..n /\ "|" \in S
  BY DEF Counted, HasBar
<1>2. PICK by : by = cfg.by
  OBVIOUS
<1>3. PICK P, Q : P = Pieces(by, k) /\ Q = Pieces(by, l)
  OBVIOUS
<1>4. Key(cfg, k) = FlattenSeq(P) /\ Key(cfg, l) = FlattenSeq(Q)
  BY <1>2, <1>3, KeyOfPieces
<1>5. Pieced(P, v, n, S) /\ Pieced(Q, w, n, S)
  <2>1. /\ v = [i \in 1..n |-> k[by[i]]] /\ \A i \in 1..n : v[i] \in Seq(S)
        /\ w = [i \in 1..n |-> l[by[i]]] /\ \A i \in 1..n : w[i] \in Seq(S)
    BY <1>2 DEF ValueList
  <2> QED BY <1>1, <1>2, <1>3, <2>1, PiecesPieced
<1>6. ASSUME v = w PROVE FlattenSeq(P) = FlattenSeq(Q)
  <2>1. P \in Seq(Seq(S)) /\ Q \in Seq(Seq(S)) /\ Len(P) = Len(Q)
    BY <1>5 DEF Pieced
  <2>2. \A i \in 1..Len(P) : P[i] = Q[i]
    BY <1>5, <1>6 DEF Pieced
  <2>3. P = Q
    BY <2>1, <2>2, SeqEqual
  <2> QED BY <2>3
<1>7. ASSUME FlattenSeq(P) = FlattenSeq(Q) PROVE v = w
  <2>1. /\ P \in Seq(Seq(S)) /\ Len(P) = n
        /\ Q \in Seq(Seq(S)) /\ Len(Q) = n
    BY <1>5 DEF Pieced
  <2>2. PICK f : JoinsTo(P, n, S, f) /\ FlattenSeq(P) = f[n]
    BY <1>1, <2>1, Joins
  <2>3. PICK g : JoinsTo(Q, n, S, g) /\ FlattenSeq(Q) = g[n]
    BY <1>1, <2>1, Joins
  <2>4. AllApart(P, Q, n, S) /\ SameValues(P, Q, v, w, n)
    BY <1>1, <1>5, PiecedApart
  <2>5. Unjoins(P, Q, n, S, f, g)
    BY <1>1, <2>2, <2>3, <2>4, Unjoin
  <2>6. <<>> \in Seq(S) /\ f[n] \o <<>> = g[n] \o <<>>
    BY <1>7, <2>2, <2>3, EmptySeq, Zenon
  <2>7. \A i \in 1..n : P[i] = Q[i]
    BY <2>5, <2>6, Zenon DEF Unjoins
  <2>8. \A i \in 1..n : v[i] = w[i]
    BY <2>4, <2>7 DEF SameValues
  <2> QED BY <2>8 DEF ValueList
<1> QED BY <1>4, <1>6, <1>7

(* Two records share a part exactly when their values are the same, for any *)
(* payload, values with any text in them, and any of the keys.              *)
THEOREM CombinationsApart == AlgorithmsSpec => []OneCombinationPerPart
<1>1. InputType => OneCombinationPerPart
  <2> SUFFICES ASSUME InputType, input.of = "partition", Parts.ok,
                      NEW i \in DOMAIN Parts.parts, NEW j \in DOMAIN Parts.parts,
                      NEW r \in ToSet(Parts.parts[i]), NEW s \in ToSet(Parts.parts[j])
               PROVE  IF Unkeyed THEN (i = j) <=> (r = s) ELSE (i = j) <=> (ValuesOf(r) = ValuesOf(s))
    BY DEF OneCombinationPerPart
  <2>1. PICK cfg, attrs, n, payload, result, parts :
           /\ cfg = input.config /\ attrs = input.attr /\ n = Len(attrs)
           /\ payload = [l \in 1..n |-> l] /\ result = Split(cfg, attrs, payload)
           /\ parts = result.parts
    OBVIOUS
  <2>2. n \in Nat /\ DOMAIN attrs = 1..n /\ cfg \in Configs /\ attrs \in Seq(AttrMaps(PartValues))
    BY <2>1 DEF InputType
  <2>3. Len(payload) = n /\ DOMAIN payload = 1..n /\ \A l \in 1..n : payload[l] = l
    BY <2>1, <2>2
  <2>4. Parts = result
    BY <2>1, <2>2 DEF Parts
  <2>5. PICK k, l : k \in DOMAIN parts[i] /\ l \in DOMAIN parts[j] /\ r = parts[i][k] /\ s = parts[j][l]
    <3>1. parts = Parts.parts
      BY <2>1, <2>4
    <3>2. r \in ToSet(parts[i]) /\ s \in ToSet(parts[j])
      BY <3>1, Zenon
    <3> QED BY <3>2, Zenon DEF ToSet
  <2>6. CASE Unkeyed
    <3>1. result = SplitUnpartitioned(payload)
      BY <2>1, <2>6, SplitUnkeyed DEF Unkeyed
    <3>2. parts = [m \in 1..n |-> <<m>>]
      <4>1. result.parts = [m \in 1..n |-> <<m>>]
        BY <2>3, <3>1 DEF SplitUnpartitioned
      <4> QED BY <2>1, <4>1
    <3>3. i \in 1..n /\ j \in 1..n
      BY <2>1, <2>4, <3>2
    <3>4. ASSUME NEW m \in 1..n, NEW o \in DOMAIN parts[m] PROVE parts[m][o] = m
      BY <3>2, <3>4
    <3>5. r = i /\ s = j
      BY <2>5, <3>3, <3>4
    <3> QED BY <2>6, <3>5
  <2>7. CASE ~Unkeyed
    <3>1. result = Split(cfg, attrs, payload) /\ ~(cfg.kind = "attrs" /\ cfg.by = <<>>)
      BY <2>1, <2>7 DEF Unkeyed
    <3>2. result = Loop(cfg, attrs, payload)[n]
      BY <2>3, <3>1, SplitIsLoop, Zenon
    <3>3. cfg.missing \in {"error", "drop"}
      BY <2>2 DEF Configs
    <3>4. LoopInv(cfg, attrs, payload, result, n)
      <4>1. n \in 0..n
        BY <2>2
      <4>2. Len(payload) \in Nat /\ DOMAIN payload = 1..Len(payload)
        BY <2>2, <2>3, Zenon
      <4>3. \A m \in 0..Len(payload) :
              LoopInv(cfg, attrs, payload, Loop(cfg, attrs, payload)[m], m)
        BY <3>3, <4>2, LoopInvariant
      <4> QED BY <2>3, <3>2, <4>1, <4>3, Zenon
    <3>5. Keyed(cfg, attrs, result) /\ Covers(cfg, attrs, payload, result, n)
          /\ DOMAIN result.index = DOMAIN parts
      BY <2>1, <2>4, <3>4 DEF LoopInv, Shape
    <3>6. i \in DOMAIN parts /\ j \in DOMAIN parts
      BY <2>1, <2>4
    <3>7. /\ ~Lacks(cfg, attrs[r]) /\ Key(cfg, attrs[r]) = result.index[i]
          /\ ~Lacks(cfg, attrs[s]) /\ Key(cfg, attrs[s]) = result.index[j]
      <4>1. \A m \in DOMAIN result.parts : \A o \in DOMAIN result.parts[m] :
              /\ ~Lacks(cfg, attrs[result.parts[m][o]])
              /\ Key(cfg, attrs[result.parts[m][o]]) = result.index[m]
        BY <3>5, Zenon DEF Keyed
      <4>2. parts = result.parts
        BY <2>1
      <4> QED BY <2>5, <3>6, <4>1, <4>2, Zenon
    <3>8. i = j <=> Key(cfg, attrs[r]) = Key(cfg, attrs[s])
      BY <3>5, <3>6, <3>7 DEF Keyed
    <3>9. r \in 1..n /\ s \in 1..n
      <4>1. Has(result, r) /\ Has(result, s)
        BY <2>1, <2>5, <3>6 DEF Has
      <4> QED BY <2>3, <3>5, <4>1 DEF Covers
    <3>10. PICK q, b : Marks(q, b)
      BY TheMarks
    <3>11. PICK S : S = STRING \union {q, b, "|"}
      OBVIOUS
    <3>12. q \in S /\ b \in S /\ "|" \in S /\ STRING \subseteq S
      BY <3>11
    <3>13. PICK N \in Nat : DOMAIN cfg.by = 1..N
      <4>1. cfg.by \in {<<>>, <<Resource>>, <<Telemetry>>, <<Resource, Telemetry>>}
        BY <2>2 DEF Configs
      <4> QED BY <4>1
    <3>14. PICK v, w : /\ v = [m \in 1..N |-> attrs[r][cfg.by[m]]]
                       /\ w = [m \in 1..N |-> attrs[s][cfg.by[m]]]
      OBVIOUS
    <3>15. ASSUME NEW t \in 1..n, ~Lacks(cfg, attrs[t]), NEW m \in 1..N
           PROVE  attrs[t][cfg.by[m]] \in Seq(S)
      <4>1. PICK a, f : a = attrs[t] /\ f = cfg.by[m]
        OBVIOUS
      <4>2. f \in DOMAIN a
        BY <3>13, <3>15, <4>1 DEF Lacks
      <4>3. a \in AttrMaps(PartValues)
        BY <2>2, <4>1
      <4>4. a[f] \in PartValues
        BY <4>2, <4>3 DEF AttrMaps
      <4>5. a[f] \in Seq(STRING)
        BY <4>4, AlgorithmsAssumption
      <4>6. a[f] \in Seq(S)
        <5>1. STRING \subseteq S
          BY <3>12
        <5> QED BY <4>5, <5>1, SeqOfSubset
      <4> QED BY <4>1, <4>6
    <3>16. ValueList(v, attrs[r], cfg, N, S) /\ ValueList(w, attrs[s], cfg, N, S)
      BY <3>7, <3>9, <3>14, <3>15 DEF ValueList
    <3>17. Key(cfg, attrs[r]) = Key(cfg, attrs[s]) <=> v = w
      <4>1. PICK k1, k2 : k1 = attrs[r] /\ k2 = attrs[s]
        OBVIOUS
      <4>2. ValueList(v, k1, cfg, N, S) /\ ValueList(w, k2, cfg, N, S)
        BY <3>16, <4>1
      <4>3. Key(cfg, k1) = Key(cfg, k2) <=> v = w
        <5>1. HasBar(S) /\ Counted(cfg, N)
          BY <3>12, <3>13 DEF HasBar, Counted
        <5>2. Marks(q, b) /\ q \in S /\ b \in S
          BY <3>10, <3>12
        <5> QED BY <4>2, <5>1, <5>2, KeysApart
      <4> QED BY <4>1, <4>3
    <3>18. ValuesOf(r) = v /\ ValuesOf(s) = w
      BY <2>1, <3>13, <3>14 DEF ValuesOf
    <3> QED BY <2>7, <3>8, <3>17, <3>18
  <2> QED BY <2>6, <2>7
<1> QED BY <1>1, AlgorithmsInputs, PTL

------------------------------------------------------------------------------
(* Delays.                                                                  *)

LEMMA ProductMonotone ==
  ASSUME NEW x \in Nat, NEW y \in Nat, NEW z \in Nat, x <= y
  PROVE  x * z <= y * z /\ z * x <= z * y
  OBVIOUS

LEMMA ProductStrict ==
  ASSUME NEW x \in Nat, NEW y \in Nat, NEW z \in Nat, x < y, z # 0
  PROVE  x * z < y * z
  OBVIOUS

LEMMA ProductType ==
  ASSUME NEW x \in Nat, NEW y \in Nat
  PROVE  x * y \in Nat
  OBVIOUS

LEMMA DivBounds ==
  ASSUME NEW a \in Nat, NEW d \in Nat, d # 0
  PROVE  (a \div d) \in Nat /\ (a \div d) * d <= a /\ a < ((a \div d) + 1) * d
  OBVIOUS

LEMMA DivMonotone ==
  ASSUME NEW a \in Nat, NEW b \in Nat, NEW d \in Nat, d # 0, a <= b
  PROVE  (a \div d) <= (b \div d)
<1>1. PICK q \in Nat, r \in Nat : /\ q = a \div d /\ q * d <= a
                                  /\ r = b \div d /\ b < (r + 1) * d
  BY DivBounds
<1>2. ASSUME r < q PROVE FALSE
  <2>1. (r + 1) * d <= q * d
    BY <1>2, ProductMonotone
  <2>2. (r + 1) * d \in Nat /\ q * d \in Nat
    BY ProductType
  <2> QED BY <1>1, <2>1, <2>2
<1> QED BY <1>1, <1>2

LEMMA DivAtMost ==
  ASSUME NEW a \in Nat, NEW d \in Nat, d # 0, NEW m \in Nat, a <= m * d
  PROVE  (a \div d) \in 0..m
<1>1. PICK q \in Nat : q = a \div d /\ q * d <= a
  BY DivBounds
<1>2. ASSUME m < q PROVE FALSE
  <2>1. m * d < q * d
    BY <1>2, ProductStrict
  <2>2. m * d \in Nat /\ q * d \in Nat
    BY ProductType
  <2> QED BY <1>1, <2>1, <2>2
<1> QED BY <1>1, <1>2

(* A set of numbers that is not empty has a least one.                      *)
LEMMA LeastNumber ==
  ASSUME NEW S, S \subseteq Nat, S # {}
  PROVE  \E x \in S : \A y \in S : x <= y
<1> DEFINE R == OpToRel(<, Nat)
<1>1. IsWellFoundedOn(R, Nat)
  BY NatLessThanWellFounded
<1>2. PICK x \in S : \A y \in S : <<y, x>> \notin R
  <2> HIDE DEF R
  <2> QED BY <1>1, WFMin
<1>3. ASSUME NEW y \in S PROVE x <= y
  <2>1. ~(y < x)
    BY <1>2 DEF OpToRel
  <2> QED BY <2>1
<1> QED BY <1>3

(* Rounding gives a nearest number.                                         *)
LEMMA RoundNearest ==
  ASSUME NEW num \in Nat, NEW den \in Nat
  PROVE  /\ Round(num, den) \in Floats
         /\ \A g \in Floats : Distance(Round(num, den), num, den) <= Distance(g, num, den)
<1> DEFINE D == {Distance(f, num, den) : f \in Floats}
           near == {f \in Floats : \A g \in Floats : Distance(f, num, den) <= Distance(g, num, den)}
<1>1. D \subseteq Nat /\ D # {}
  <2> SUFFICES ASSUME NEW f \in Floats PROVE Distance(f, num, den) \in Nat
    BY RetryAssumption
  <2>1. f * den \in Nat
    BY RetryAssumption, ProductType
  <2> QED BY <2>1 DEF Distance
<1>2. \E x \in D : \A y \in D : x <= y
  <2> HIDE DEF D
  <2> QED BY <1>1, LeastNumber
<1>3. near # {}
  BY <1>2
<1>4. \E f \in near : f \in Even \/ near \intersect Even = {}
  <2> HIDE DEF near
  <2> QED BY <1>3
<1>5. Round(num, den) = CHOOSE f \in near : f \in Even \/ near \intersect Even = {}
  BY DEF Round
<1>6. Round(num, den) \in near
  <2> HIDE DEF near
  <2> QED BY <1>4, <1>5
<1> QED BY <1>6

(* How far two products are apart.                                          *)
Gap(p, a) == IF p >= a THEN p - a ELSE a - p

LEMMA GapsCross ==
  ASSUME NEW p \in Nat, NEW q \in Nat, NEW a \in Nat, NEW b \in Nat, q < p, a < b,
         Gap(p, a) <= Gap(q, a), Gap(q, b) <= Gap(p, b)
  PROVE  FALSE
  BY DEF Gap

LEMMA RoundMonotone ==
  ASSUME NEW a \in Nat, NEW b \in Nat, NEW den \in Nat, den # 0, a <= b
  PROVE  Round(a, den) <= Round(b, den)
<1>1. PICK f \in Floats, g \in Floats : f = Round(a, den) /\ g = Round(b, den)
  BY RoundNearest
<1>2. f \in Nat /\ g \in Nat
  BY RetryAssumption
<1>3. CASE a = b
  BY <1>1, <1>2, <1>3
<1>4. CASE a < b
  <2> SUFFICES ASSUME g < f PROVE FALSE
    BY <1>1, <1>2
  <2>1. PICK p \in Nat, q \in Nat : p = f * den /\ q = g * den
    BY <1>2, ProductType
  <2>2. q < p
    BY <1>2, <2>1, ProductStrict
  <2>3. Gap(p, a) <= Gap(q, a) /\ Gap(q, b) <= Gap(p, b)
    <3>1. /\ Distance(f, a, den) <= Distance(g, a, den)
          /\ Distance(g, b, den) <= Distance(f, b, den)
      BY <1>1, RoundNearest
    <3> QED BY <2>1, <3>1 DEF Distance, Gap
  <2> QED BY <1>4, <2>2, <2>3, GapsCross
<1> QED BY <1>3, <1>4

(* A number is not rounded.                                                 *)
LEMMA RoundExact ==
  ASSUME NEW f \in Floats, NEW den \in Nat, den # 0
  PROVE  Round(f * den, den) = f
<1>1. f \in Nat
  BY RetryAssumption
<1>2. PICK p \in Nat : p = f * den
  BY <1>1, ProductType
<1>3. PICK g \in Floats : g = Round(p, den) /\ Distance(g, p, den) <= Distance(f, p, den)
  BY RoundNearest
<1>4. g \in Nat
  BY RetryAssumption
<1>5. PICK q \in Nat : q = g * den
  BY <1>4, ProductType
<1>6. Gap(q, p) <= Gap(p, p)
  BY <1>2, <1>3, <1>5 DEF Distance, Gap
<1>7. p = q
  BY <1>6 DEF Gap
<1>8. ~(f < g) /\ ~(g < f)
  BY <1>1, <1>2, <1>4, <1>5, <1>7, ProductStrict
<1> QED BY <1>1, <1>2, <1>3, <1>4, <1>8

LEMMA OneFloat == One \in Floats
  BY RetryAssumption

LEMMA FloatsAreNumbers == Floats \subseteq Nat
  BY RetryAssumption

LEMMA UnitType == One \in Nat /\ One # 0
<1>1. One # 0
  BY RetryAssumption
<1>2. One \in Nat
  BY OneFloat, FloatsAreNumbers
<1> QED BY <1>1, <1>2

LEMMA FloatProductFacts ==
  ASSUME NEW x \in Floats, NEW y \in Floats
  PROVE  FloatProduct(x, y) \in Floats /\ FloatProduct(x, One) = x /\ FloatProduct(One, y) = y
<1>1. x \in Nat /\ y \in Nat /\ x * y \in Nat
  BY FloatsAreNumbers, ProductType
<1>2. FloatProduct(x, y) \in Floats
  BY <1>1, UnitType, RoundNearest DEF FloatProduct
<1>3. FloatProduct(x, One) = x
  BY UnitType, RoundExact DEF FloatProduct
<1>4. FloatProduct(One, y) = y
  <2>1. One * y = y * One
    BY <1>1, UnitType
  <2> QED BY <2>1, UnitType, RoundExact DEF FloatProduct
<1> QED BY <1>2, <1>3, <1>4

LEMMA FloatProductGrows ==
  ASSUME NEW x \in Floats, NEW y \in Floats, NEW v \in Floats, NEW w \in Floats, x <= v, y <= w
  PROVE  FloatProduct(x, y) <= FloatProduct(v, w)
<1>1. x \in Nat /\ y \in Nat /\ v \in Nat /\ w \in Nat
  BY FloatsAreNumbers
<1>2. PICK a \in Nat, b \in Nat, c \in Nat : a = x * y /\ b = v * y /\ c = v * w
  BY <1>1, ProductType
<1>3. a <= b /\ b <= c
  BY <1>1, <1>2, ProductMonotone
<1>4. a <= c
  BY <1>3
<1> QED BY <1>2, <1>4, UnitType, RoundMonotone DEF FloatProduct

(* A factor of at least one makes nothing smaller.                          *)
LEMMA FloatProductAtLeast ==
  ASSUME NEW x \in Floats, NEW y \in Floats, One <= y
  PROVE  x <= FloatProduct(x, y) /\ x <= FloatProduct(y, x)
<1>1. x <= x /\ One \in Floats
  BY OneFloat, UnitType
<1>2. FloatProduct(x, One) <= FloatProduct(x, y) /\ FloatProduct(One, x) <= FloatProduct(y, x)
  BY <1>1, FloatProductGrows
<1> QED BY <1>1, <1>2, FloatProductFacts

(* The loop of the power.                                                   *)
IsLoop(s) ==
  /\ s.rest \in Nat /\ s.product \in Floats /\ s.square \in Floats
  /\ One <= s.product /\ One <= s.square

LEMMA FloatOrder ==
  ASSUME NEW x \in Floats, NEW y \in Floats, NEW z \in Floats, x <= y, y <= z
  PROVE  x <= z
  BY FloatsAreNumbers

LEMMA TurnFields ==
  ASSUME NEW s, s.rest # 0
  PROVE  /\ Turn(s).rest = s.rest \div 2
         /\ Turn(s).product = IF s.rest % 2 = 1 THEN FloatProduct(s.product, s.square)
                                                ELSE s.product
         /\ Turn(s).square = FloatProduct(s.square, s.square)
  BY DEF Turn

LEMMA TurnType ==
  ASSUME NEW s, IsLoop(s)
  PROVE  IsLoop(Turn(s)) /\ (s.rest # 0 => Turn(s).rest < s.rest) /\ (s.rest = 0 => Turn(s) = s)
<1>1. CASE s.rest = 0
  BY <1>1 DEF Turn
<1>2. CASE s.rest # 0
  <2>1. PICK t : t = Turn(s)
    OBVIOUS
  <2>2. PICK product, square : /\ product = s.product /\ square = s.square
                               /\ product \in Floats /\ square \in Floats
                               /\ One <= product /\ One <= square
    BY DEF IsLoop
  <2>3. t.rest \in Nat /\ t.rest < s.rest
    <3>1. PICK n \in Nat : n = s.rest /\ n # 0
      BY <1>2 DEF IsLoop
    <3>2. (n \div 2) \in Nat /\ (n \div 2) < n
      BY <3>1
    <3> QED BY <1>2, <2>1, <3>1, <3>2, TurnFields
  <2>4. FloatProduct(product, square) \in Floats /\ FloatProduct(square, square) \in Floats
    BY <2>2, FloatProductFacts
  <2>5. One <= FloatProduct(product, square) /\ One <= FloatProduct(square, square)
    BY <2>2, <2>4, OneFloat, FloatProductAtLeast, FloatOrder
  <2>6. /\ t.product \in {product, FloatProduct(product, square)}
        /\ t.square = FloatProduct(square, square)
    BY <1>2, <2>1, <2>2, TurnFields
  <2>7. IsLoop(t)
    BY <2>2, <2>3, <2>4, <2>5, <2>6 DEF IsLoop
  <2> QED BY <1>2, <2>1, <2>3, <2>7
<1> QED BY <1>1, <1>2

(* A loop for a smaller exponent beside one for a larger: as long as they   *)
(* differ in the bits that are left, the smaller one's product is at most   *)
(* the square, which is the weight of the next bit.                         *)
Trails(s, t) ==
  /\ IsLoop(s) /\ IsLoop(t) /\ s.rest <= t.rest
  /\ s.rest = t.rest => s.product <= t.product
  /\ t.rest # 0 => s.product <= t.square
  /\ s.rest # 0 => s.square = t.square

LEMMA Halves ==
  ASSUME NEW m \in Nat, NEW n \in Nat, m <= n
  PROVE  /\ (m \div 2) <= (n \div 2)
         /\ m < n /\ (m \div 2) = (n \div 2) => m % 2 = 0 /\ n % 2 = 1
         /\ m % 2 \in {0, 1}
  OBVIOUS

LEMMA TurnsTrail ==
  ASSUME NEW s, NEW t, Trails(s, t)
  PROVE  Trails(Turn(s), Turn(t))
<1>1. PICK u, v : u = Turn(s) /\ v = Turn(t)
  OBVIOUS
<1>2. IsLoop(u) /\ IsLoop(v) /\ IsLoop(s) /\ IsLoop(t)
  BY <1>1, TurnType DEF Trails
<1>3. PICK p, q, x : /\ p = s.product /\ q = t.product /\ x = t.square
                     /\ p \in Floats /\ q \in Floats /\ x \in Floats /\ One <= q /\ One <= x
  BY <1>2 DEF IsLoop
<1>4. CASE t.rest = 0
  <2>1. s.rest = 0
    BY <1>2, <1>4 DEF Trails, IsLoop
  <2> QED BY <1>4, <2>1 DEF Turn
<1>5. CASE t.rest # 0
  <2>1. p <= x
    BY <1>3, <1>5 DEF Trails
  <2>2. PICK m \in Nat, n \in Nat : m = s.rest /\ n = t.rest /\ m <= n
    BY <1>2 DEF Trails, IsLoop
  <2>3. /\ u.rest = m \div 2 /\ v.rest = n \div 2
        /\ v.product = (IF n % 2 = 1 THEN FloatProduct(q, x) ELSE q)
        /\ v.square = FloatProduct(x, x)
    <3>1. v.rest = n \div 2 /\ v.square = FloatProduct(x, x)
          /\ v.product = IF n % 2 = 1 THEN FloatProduct(q, x) ELSE q
      BY <1>1, <1>3, <1>5, <2>2, TurnFields
    <3>2. u.rest = m \div 2
      <4>1. CASE m = 0
        <5>1. u = s /\ m \div 2 = 0
          BY <1>1, <2>2, <4>1 DEF Turn
        <5> QED BY <2>2, <4>1, <5>1
      <4>2. CASE m # 0
        BY <1>1, <2>2, <4>2, TurnFields
      <4> QED BY <4>1, <4>2
    <3> QED BY <3>1, <3>2
  <2>4. /\ u.product = (IF m % 2 = 1 THEN FloatProduct(p, x) ELSE p)
        /\ m # 0 => u.square = FloatProduct(x, x)
    <3>1. CASE m = 0
      <4>1. u = s /\ m % 2 # 1
        BY <1>1, <2>2, <3>1 DEF Turn
      <4> QED BY <1>3, <3>1, <4>1
    <3>2. CASE m # 0
      <4>1. s.square = x
        BY <1>3, <2>2, <3>2 DEF Trails
      <4> QED BY <1>1, <1>3, <2>2, <3>2, <4>1, TurnFields
    <3> QED BY <3>1, <3>2
  <2>5. u.rest <= v.rest
    BY <2>2, <2>3, Halves
  <2>6. u.product <= v.square
    <3>1. FloatProduct(p, x) <= FloatProduct(x, x) /\ x <= FloatProduct(x, x) /\ x <= x
      BY <1>3, <2>1, FloatProductGrows, FloatProductAtLeast, FloatsAreNumbers
    <3>2. p <= FloatProduct(x, x)
      BY <1>3, <2>1, <3>1, FloatOrder, FloatProductFacts
    <3> QED BY <2>3, <2>4, <3>1, <3>2
  <2>7. ASSUME u.rest = v.rest PROVE u.product <= v.product
    <3>1. CASE m = n
      <4>1. p <= q /\ x <= x
        BY <1>3, <2>2, <3>1, FloatsAreNumbers DEF Trails
      <4>2. FloatProduct(p, x) <= FloatProduct(q, x)
        BY <1>3, <4>1, FloatProductGrows
      <4> QED BY <2>3, <2>4, <3>1, <4>1, <4>2
    <3>2. CASE m # n
      <4>1. m % 2 = 0 /\ n % 2 = 1
        BY <2>2, <2>3, <2>7, <3>2, Halves
      <4>2. u.product = p /\ v.product = FloatProduct(q, x)
        BY <2>3, <2>4, <4>1
      <4>3. x <= FloatProduct(q, x)
        BY <1>3, FloatProductAtLeast
      <4>4. p <= FloatProduct(q, x)
        BY <1>3, <2>1, <4>3, FloatOrder, FloatProductFacts
      <4> QED BY <4>2, <4>4
    <3> QED BY <3>1, <3>2
  <2>8. u.rest # 0 => u.square = v.square
    <3>1. m = 0 => m \div 2 = 0
      OBVIOUS
    <3> QED BY <2>3, <2>4, <3>1
  <2>9. Trails(u, v)
    BY <1>2, <2>5, <2>6, <2>7, <2>8 DEF Trails
  <2> QED BY <1>1, <2>9
<1> QED BY <1>4, <1>5

(* The turns of a power.                                                    *)
Turns(f, base, n) ==
  /\ f[0] = [rest |-> n, product |-> One, square |-> base]
  /\ \A i \in 1..n : f[i] = Turn(f[i - 1])

LEMMA PowerEquation ==
  ASSUME NEW base, NEW n \in Nat
  PROVE  \E f : Turns(f, base, n) /\ Power(base, n) = f[n].product
<1> DEFINE A(x) == Turn(x)
<1> HIDE DEF A
<1>1. PICK one : one = [rest |-> n, product |-> One, square |-> base]
  OBVIOUS
<1> DEFINE S == {m \in Nat : \E f : f = [i \in 0..m |-> IF i = 0 THEN one ELSE A(f[i - 1])]}
<1>2. 0 \in S
  <2> DEFINE f == [i \in 0..0 |-> one]
  <2>1. f = [i \in 0..0 |-> IF i = 0 THEN one ELSE A(f[i - 1])]
    OBVIOUS
  <2> HIDE DEF f
  <2> QED BY <2>1
<1>3. ASSUME NEW m \in Nat, m \in S PROVE m + 1 \in S
  <2>1. PICK f : f = [i \in 0..m |-> IF i = 0 THEN one ELSE A(f[i - 1])]
    BY <1>3
  <2> DEFINE g == [i \in 0..(m + 1) |-> IF i <= m THEN f[i] ELSE A(f[m])]
  <2>2. g = [i \in 0..(m + 1) |-> IF i = 0 THEN one ELSE A(g[i - 1])]
    BY <2>1
  <2> HIDE DEF g
  <2> QED BY <2>2
<1> HIDE DEF S
<1>4. n \in S
  BY <1>2, <1>3, NatSetInduction
<1> DEFINE loop[i \in 0..n] == IF i = 0 THEN one ELSE A(loop[i - 1])
<1>5. loop = [i \in 0..n |-> IF i = 0 THEN one ELSE A(loop[i - 1])]
  BY <1>4 DEF S
<1>6. Power(base, n) = loop[n].product
  BY <1>1 DEF Power, A
<1> HIDE DEF loop
<1>7. loop[0] = one /\ \A i \in 1..n : loop[i] = A(loop[i - 1])
  BY <1>5
<1> QED BY <1>1, <1>6, <1>7 DEF A, Turns

(* Larger exponents give no smaller powers, however they are rounded.       *)
LEMMA PowerGrows ==
  ASSUME NEW base \in Floats, One <= base, NEW i \in Nat, NEW j \in Nat, i <= j
  PROVE  /\ Power(base, i) \in Floats /\ Power(base, j) \in Floats
         /\ One <= Power(base, i) /\ Power(base, i) <= Power(base, j)
<1>1. PICK f : Turns(f, base, i) /\ Power(base, i) = f[i].product
  BY PowerEquation
<1>2. PICK g : Turns(g, base, j) /\ Power(base, j) = g[j].product
  BY PowerEquation
<1> DEFINE F(k) == IF k <= i THEN f[k] ELSE f[i]
           S == {k \in Nat : k <= j =>
                   /\ Trails(F(k), g[k])
                   /\ F(k).rest = 0 \/ F(k).rest + k <= i
                   /\ g[k].rest = 0 \/ g[k].rest + k <= j}
<1>3. 0 \in S
  <2>1. F(0) = [rest |-> i, product |-> One, square |-> base]
        /\ g[0] = [rest |-> j, product |-> One, square |-> base]
    BY <1>1, <1>2 DEF Turns
  <2>2. PICK s, t : s = F(0) /\ t = g[0]
    OBVIOUS
  <2>3. /\ s.rest = i /\ s.product = One /\ s.square = base
        /\ t.rest = j /\ t.product = One /\ t.square = base
    BY <2>1, <2>2
  <2>4. One <= One
    BY UnitType
  <2>5. Trails(s, t)
    BY <2>3, <2>4, OneFloat DEF Trails, IsLoop
  <2>6. s.rest + 0 <= i /\ t.rest + 0 <= j
    BY <2>3
  <2> HIDE DEF F
  <2> QED BY <2>2, <2>5, <2>6
<1>4. ASSUME NEW k \in Nat, k \in S PROVE k + 1 \in S
  <2> SUFFICES ASSUME k + 1 <= j
               PROVE  /\ Trails(F(k + 1), g[k + 1])
                      /\ F(k + 1).rest = 0 \/ F(k + 1).rest + (k + 1) <= i
                      /\ g[k + 1].rest = 0 \/ g[k + 1].rest + (k + 1) <= j
    OBVIOUS
  <2>1. PICK s, t : s = F(k) /\ t = g[k]
    OBVIOUS
  <2>2. /\ Trails(s, t) /\ (s.rest = 0 \/ s.rest + k <= i)
        /\ (t.rest = 0 \/ t.rest + k <= j)
    BY <1>4, <2>1
  <2>3. s.rest \in Nat /\ t.rest \in Nat /\ IsLoop(s) /\ IsLoop(t)
    BY <2>2 DEF Trails, IsLoop
  <2>4. g[k + 1] = Turn(t)
    <3>1. k + 1 \in 1..j /\ (k + 1) - 1 = k
      OBVIOUS
    <3> QED BY <1>2, <2>1, <3>1 DEF Turns
  <2>5. F(k + 1) = Turn(s)
    <3>1. CASE k + 1 <= i
      <4>1. k + 1 \in 1..i /\ (k + 1) - 1 = k /\ k <= i
        BY <3>1
      <4>2. F(k + 1) = f[k + 1] /\ s = f[k]
        BY <2>1, <4>1
      <4>3. f[k + 1] = Turn(f[k])
        BY <1>1, <4>1 DEF Turns
      <4> QED BY <4>2, <4>3
    <3>2. CASE ~(k + 1 <= i)
      <4>1. s = f[i] /\ F(k + 1) = f[i]
        BY <2>1, <3>2
      <4>2. s.rest = 0
        BY <2>2, <2>3, <3>2
      <4> QED BY <4>1, <4>2 DEF Turn
    <3> QED BY <3>1, <3>2
  <2> HIDE DEF F
  <2>6. Trails(Turn(s), Turn(t))
    BY <2>2, TurnsTrail
  <2>7. ASSUME NEW r, NEW m \in Nat, IsLoop(r), r.rest = 0 \/ r.rest + k <= m
        PROVE  Turn(r).rest = 0 \/ Turn(r).rest + (k + 1) <= m
    <3>1. /\ Turn(r).rest \in Nat /\ r.rest \in Nat /\ (r.rest = 0 => Turn(r) = r)
          /\ (r.rest # 0 => Turn(r).rest < r.rest)
      BY <2>7, TurnType DEF IsLoop
    <3> QED BY <2>7, <3>1
  <2> QED BY <2>2, <2>3, <2>4, <2>5, <2>6, <2>7
<1> HIDE DEF S
<1>5. j \in S
  BY <1>3, <1>4, NatSetInduction
<1>6. PICK s, t : s = F(j) /\ t = g[j]
  OBVIOUS
<1>7. /\ Trails(s, t) /\ (s.rest = 0 \/ s.rest + j <= i) /\ (t.rest = 0 \/ t.rest + j <= j)
  <2> HIDE DEF F
  <2> QED BY <1>5, <1>6 DEF S
<1>8. s = f[i]
  BY <1>6
<1>9. s.rest = 0 /\ t.rest = 0
  <2>1. s.rest \in Nat /\ t.rest \in Nat
    BY <1>7 DEF Trails, IsLoop
  <2> QED BY <1>7, <2>1
<1>10. s.product <= t.product /\ s.product \in Floats /\ t.product \in Floats /\ One <= s.product
  BY <1>7, <1>9 DEF Trails, IsLoop
<1> QED BY <1>1, <1>2, <1>6, <1>8, <1>10

(* A number of nanoseconds as a delay, or the longest delay in its place.   *)
Capped(x, max) == IF x = Infinity \/ x >= Float(max) THEN max ELSE x \div One

LEMMA InfinityGreatest == \A f \in Floats : f <= Infinity
  BY RetryAssumption DEF Infinity

LEMMA FloatType ==
  ASSUME NEW d \in Nat
  PROVE  d * One \in Nat /\ Float(d) \in Floats
<1>1. d * One \in Nat
  BY UnitType, ProductType
<1> QED BY <1>1, RoundNearest DEF Float

(* What is below the longest delay as a number is not above it, although    *)
(* that may be rounded up: it would be nearer.                              *)
LEMMA BelowMaximum ==
  ASSUME NEW x \in Floats, NEW max \in Nat, x < Float(max)
  PROVE  x <= max * One
<1>1. PICK m \in Nat : m = max * One
  BY FloatType
<1>2. PICK y \in Floats : y = Float(max) /\ Distance(y, m, 1) <= Distance(x, m, 1)
  BY <1>1, FloatType, RoundNearest DEF Float
<1>3. x \in Nat /\ y \in Nat /\ x < y
  BY <1>2, FloatsAreNumbers
<1>4. x * 1 = x /\ y * 1 = y
  BY <1>3
<1>5. Gap(y, m) <= Gap(x, m)
  BY <1>2, <1>4 DEF Distance, Gap
<1>6. x <= m
  BY <1>3, <1>5 DEF Gap
<1> QED BY <1>1, <1>6

LEMMA CappedType ==
  ASSUME NEW x \in Floats, NEW max \in Nat
  PROVE  /\ Capped(x, max) \in 0..max
         /\ ~(x = Infinity \/ x >= Float(max)) => (x \div One) \in 0..max
<1>1. CASE x = Infinity \/ x >= Float(max)
  BY <1>1 DEF Capped
<1>2. CASE ~(x = Infinity \/ x >= Float(max))
  <2>1. Float(max) \in Nat /\ x \in Nat
    BY FloatType, FloatsAreNumbers
  <2>2. x < Float(max)
    BY <1>2, <2>1
  <2>3. x <= max * One
    BY <2>2, BelowMaximum
  <2>4. (x \div One) \in 0..max
    BY <2>1, <2>3, DivAtMost, UnitType
  <2> QED BY <1>2, <2>4 DEF Capped
<1> QED BY <1>1, <1>2

LEMMA CappedGrows ==
  ASSUME NEW x \in Floats, NEW y \in Floats, NEW max \in Nat, x <= y
  PROVE  Capped(x, max) <= Capped(y, max)
<1>1. Capped(x, max) \in 0..max
  BY CappedType
<1>2. CASE y = Infinity \/ y >= Float(max)
  BY <1>1, <1>2 DEF Capped
<1>3. CASE ~(y = Infinity \/ y >= Float(max))
  <2>1. x \in Nat /\ y \in Nat /\ Float(max) \in Nat /\ y <= Infinity
    BY FloatType, FloatsAreNumbers, InfinityGreatest
  <2>2. ~(x = Infinity \/ x >= Float(max))
    BY <1>3, <2>1
  <2>3. Capped(x, max) = x \div One /\ Capped(y, max) = y \div One
    BY <1>3, <2>2 DEF Capped
  <2>4. x \div One <= y \div One
    BY <2>1, DivMonotone, UnitType
  <2> QED BY <2>3, <2>4
<1> QED BY <1>2, <1>3

(* The second delay of an accepted exponential retry and those behind it.   *)
LEMMA ExponentialDelay ==
  ASSUME NEW r, NEW initial \in Nat, NEW max \in 0..MaxDuration, NEW base \in Floats, One <= base,
         r.initial = initial, r.max = max, r.multiplier = base, NEW k \in Nat, k # 0
  PROVE  /\ FloatProduct(Float(initial), Power(base, k)) \in Floats
         /\ DelayForAttempt(r, k + 1) = Capped(FloatProduct(Float(initial), Power(base, k)), max)
<1>1. MaxDuration \in Nat /\ max \in Nat
  BY RetryAssumption
<1>2. Power(base, k) \in Floats
  <2>1. k <= k
    OBVIOUS
  <2> QED BY <2>1, PowerGrows
<1>3. PICK x \in Floats : x = FloatProduct(Float(initial), Power(base, k))
  BY <1>2, FloatType, FloatProductFacts
<1>4. ~(k + 1 <= 1) /\ (k + 1) - 1 = k
  OBVIOUS
<1>5. DelayForAttempt(r, k + 1) =
        IF x = Infinity \/ x >= Float(max) THEN max ELSE Duration(x)
  BY <1>3, <1>4 DEF DelayForAttempt
<1>6. CASE x = Infinity \/ x >= Float(max)
  BY <1>3, <1>5, <1>6 DEF Capped
<1>7. CASE ~(x = Infinity \/ x >= Float(max))
  <2>1. (x \div One) \in 0..max
    BY <1>1, <1>7, CappedType
  <2>2. Duration(x) = x \div One
    BY <1>1, <2>1 DEF Duration
  <2> QED BY <1>3, <1>5, <1>7, <2>2 DEF Capped
<1> QED BY <1>6, <1>7

(* No accepted configuration makes a delay negative, longer than the        *)
(* longest, or shorter than the one before, however often a message is      *)
(* delivered and however coarse the numbers are; but for the rounding of    *)
(* the first delay in the second.                                           *)
THEOREM DelaysGrow == AlgorithmsSpec => []DelaysGrowToMaximum
<1>1. InputType => DelaysGrowToMaximum
  <2> SUFFICES ASSUME InputType, input.of = "retry" PROVE DelaysGrowToMaximum
    BY DEF DelaysGrowToMaximum
  <2>1. PICK r, n, initial, max, base :
          /\ r = input.retry /\ n = input.attempt
          /\ r.initial = initial /\ r.max = max /\ r.multiplier = base
    OBVIOUS
  <2>2. r \in Retries /\ ValidRetry(r) /\ n \in Nat \ {0}
    BY <2>1 DEF InputType
  <2>3. PICK delay : delay = [k \in Nat |-> ConsumeRetryDelay(r, {k})]
    OBVIOUS
  <2>4. SUFFICES /\ 0 <= delay[n]
                 /\ \/ delay[n] <= delay[n + 1]
                    \/ /\ r.strategy = "exponential" /\ n = 1
                       /\ Float(initial) \div One < initial
                       /\ Float(initial) \div One <= delay[2]
                 /\ r.strategy = "exponential" => delay[n] <= max
                 /\ ConsumeRetryDelay(r, {}) = delay[1]
    BY <2>1, <2>2, <2>3 DEF DelaysGrowToMaximum
  <2>5. /\ initial \in Int /\ max \in Int /\ max <= MaxDuration
        /\ base \in Floats \union {NaN} /\ MaxDuration \in Nat
    BY <2>1, <2>2, AlgorithmsAssumption, RetryAssumption
  <2>6. CASE r.strategy = "none"
    <3>1. ConsumeRetryDelay(r, {}) = 0 /\ \A k \in Nat : delay[k] = 0
      BY <2>3, <2>6 DEF ConsumeRetryDelay
    <3> QED BY <2>2, <2>6, <3>1
  <2>7. CASE r.strategy \in {"", "constant"}
    <3>1. ConsumeRetryDelay(r, {}) = initial /\ \A k \in Nat : delay[k] = initial
      BY <2>1, <2>3, <2>7 DEF ConsumeRetryDelay
    <3>2. 0 <= initial
      BY <2>1, <2>2, <2>7 DEF ValidRetry
    <3>3. initial <= initial
      BY <2>5
    <3>4. r.strategy # "exponential"
      BY <2>7
    <3>5. delay[n] = initial /\ delay[n + 1] = initial /\ delay[1] = initial
      BY <2>2, <3>1
    <3> QED BY <3>1, <3>2, <3>3, <3>4, <3>5
  <2>8. CASE r.strategy = "exponential"
    <3>1. /\ initial > 0 /\ max >= initial /\ base # NaN /\ ~(base < One)
      BY <2>1, <2>2, <2>8 DEF ValidRetry, ValidExponential
    <3>2. /\ initial \in Nat /\ max \in Nat /\ max \in 0..MaxDuration /\ initial <= max
          /\ base \in Floats /\ One <= base
      BY <2>5, <3>1, OneFloat, UnitType
    <3>3. /\ ConsumeRetryDelay(r, {}) = initial
          /\ \A k \in Nat : delay[k] = DelayForAttempt(r, k)
      <4>1. \A k \in Nat : {k} # {} /\ (CHOOSE m \in {k} : TRUE) = k
        OBVIOUS
      <4> QED BY <2>1, <2>3, <2>8, <4>1 DEF ConsumeRetryDelay
    <3>4. delay[1] = initial
      BY <2>1, <3>3 DEF DelayForAttempt
    <3>5. PICK x : x = [k \in Nat |-> FloatProduct(Float(initial), Power(base, k))]
      OBVIOUS
    <3>6. \A k \in Nat \ {0} : x[k] \in Floats /\ delay[k + 1] = Capped(x[k], max)
      BY <2>1, <3>2, <3>3, <3>5, ExponentialDelay
    <3>7. \A k \in Nat \ {0} : delay[k + 1] \in 0..max
      BY <3>2, <3>6, CappedType
    <3>8. CASE n = 1
      <4>1. delay[2] = Capped(x[1], max) /\ x[1] \in Floats
        BY <3>6
      <4>2. Float(initial) <= x[1]
        <5>1. 1 <= 1
          OBVIOUS
        <5>2. Power(base, 1) \in Floats /\ One <= Power(base, 1)
          BY <3>2, <5>1, PowerGrows
        <5> QED BY <3>2, <3>5, <5>2, FloatType, FloatProductAtLeast
      <4>3. Capped(Float(initial), max) <= delay[2]
        BY <3>2, <4>1, <4>2, FloatType, CappedGrows
      <4>4. PICK f : f = Float(initial) \div One
        OBVIOUS
      <4>5. f \in Nat
        <5>1. Float(initial) \in Nat
          BY <3>2, FloatType, FloatsAreNumbers
        <5> QED BY <4>4, <5>1, UnitType, DivBounds
      <4>6. Capped(Float(initial), max) \in {max, f}
        BY <4>4 DEF Capped
      <4>7. delay[2] \in Nat
        BY <3>2, <3>7
      <4>8. initial <= delay[2] \/ (f < initial /\ f <= delay[2])
        BY <3>2, <4>3, <4>5, <4>6, <4>7
      <4> QED BY <2>8, <3>2, <3>3, <3>4, <3>8, <4>4, <4>8
    <3>9. CASE n # 1
      <4>1. PICK k \in Nat \ {0} : n = k + 1
        BY <2>2, <3>9
      <4>2. k + 1 \in Nat \ {0} /\ k \in Nat /\ k <= k + 1
        OBVIOUS
      <4>3. x[k] <= x[k + 1]
        <5>1. /\ Power(base, k) \in Floats /\ Power(base, k + 1) \in Floats
              /\ Power(base, k) <= Power(base, k + 1)
          BY <3>2, <4>2, PowerGrows
        <5>2. Float(initial) \in Floats /\ Float(initial) <= Float(initial)
          <6>1. Float(initial) \in Floats
            BY <3>2, FloatType
          <6>2. PICK f \in Nat : f = Float(initial)
            BY <6>1, FloatsAreNumbers
          <6>3. f <= f
            OBVIOUS
          <6> QED BY <6>1, <6>2, <6>3
        <5> QED BY <3>5, <4>2, <5>1, <5>2, FloatProductGrows
      <4>4. delay[n] = Capped(x[k], max) /\ delay[n + 1] = Capped(x[k + 1], max)
            /\ x[k] \in Floats /\ x[k + 1] \in Floats
        BY <3>6, <4>1, <4>2
      <4>5. delay[n] <= delay[n + 1]
        BY <3>2, <4>3, <4>4, CappedGrows
      <4>6. delay[n] \in 0..max
        BY <3>7, <4>1
      <4> QED BY <3>2, <3>3, <3>4, <4>5, <4>6
    <3> QED BY <3>8, <3>9
  <2> QED BY <2>2, <2>6, <2>7, <2>8 DEF ValidRetry
<1> QED BY <1>1, AlgorithmsInputs, PTL

------------------------------------------------------------------------------
(* Patterns.                                                                *)

(* The first of some positions.                                             *)
LEMMA FirstPosition ==
  ASSUME NEW P, P \subseteq Nat \ {0}
  PROVE  /\ First(P) \in Nat /\ (First(P) = 0 <=> P = {})
         /\ P # {} => First(P) \in P /\ \A y \in P : First(P) <= y
<1>1. CASE P = {}
  BY <1>1 DEF First
<1>2. CASE P # {}
  <2> DEFINE R == OpToRel(<, Nat)
  <2>1. PICK x \in P : \A y \in P : <<y, x>> \notin R
    <3>1. IsWellFoundedOn(R, Nat)
      BY NatLessThanWellFounded
    <3>2. P \subseteq Nat
      OBVIOUS
    <3> HIDE DEF R
    <3> QED BY <1>2, <3>1, <3>2, WFMin
  <2>2. \A y \in P : x <= y
    <3>1. ASSUME NEW y \in P PROVE ~(y < x)
      <4>1. <<y, x>> \notin R /\ y \in Nat /\ x \in Nat
        BY <2>1
      <4> QED BY <4>1 DEF R, OpToRel
    <3> QED BY <3>1
  <2>3. \E m : m \in P /\ \A y \in P : m =< y
    BY <2>2
  <2>4. Min(P) \in P /\ \A y \in P : Min(P) =< y
    BY <2>3 DEF Min
  <2>5. First(P) = Min(P)
    BY <1>2 DEF First
  <2> QED BY <1>2, <2>4, <2>5
<1> QED BY <1>1, <1>2

(* Where the first placeholder opens and where it closes.                   *)
LEMMA OpeningPosition ==
  ASSUME NEW pattern, NEW n \in Nat, n = Len(pattern), NEW i \in Nat \ {0}
  PROVE  LET s == Opening(pattern, i) IN
         /\ s \in Nat
         /\ s = 0 => \A j \in i..n : ~Opens(pattern, j)
         /\ s # 0 => /\ s \in i..n /\ Opens(pattern, s)
                     /\ \A j \in i..n : Opens(pattern, j) => s <= j
<1> DEFINE P == {j \in i..n : Opens(pattern, j)}
<1>1. P \subseteq Nat \ {0}
  OBVIOUS
<1>2. Opening(pattern, i) = First(P)
  BY DEF Opening
<1>3. PICK Q : Q = P
  OBVIOUS
<1>4. /\ First(Q) \in Nat /\ (First(Q) = 0 <=> Q = {})
      /\ Q # {} => First(Q) \in Q /\ \A y \in Q : First(Q) <= y
  BY <1>1, <1>3, FirstPosition
<1>5. \A j : j \in Q <=> j \in i..n /\ Opens(pattern, j)
  BY <1>3
<1> QED BY <1>2, <1>3, <1>4, <1>5

LEMMA BehindOpening ==
  ASSUME NEW s \in Nat, NEW n \in Nat, NEW j \in (s + 2)..n
  PROVE  j \in Nat \ {0} /\ j \in 0..n
OBVIOUS

LEMMA ClosingPosition ==
  ASSUME NEW pattern, NEW n \in Nat, n = Len(pattern), NEW i \in Nat \ {0}
  PROVE  LET s == Opening(pattern, i)
             e == Closing(pattern, i) IN
         /\ e \in 0..n
         /\ e # 0 => /\ e \in (s + 2)..n /\ pattern[e] = "}"
                     /\ \A j \in (s + 2)..n : pattern[j] = "}" => e <= j
<1>1. PICK s : s = Opening(pattern, i)
  OBVIOUS
<1>2. s \in Nat
  BY <1>1, OpeningPosition
<1> DEFINE P == {j \in (s + 2)..n : pattern[j] = "}"}
<1>3. P \subseteq Nat \ {0}
  BY <1>2, BehindOpening
<1>4. Closing(pattern, i) = First(P)
  BY <1>1 DEF Closing
<1>5. PICK Q : Q = P
  OBVIOUS
<1>6. /\ First(Q) \in Nat /\ (First(Q) = 0 <=> Q = {})
      /\ Q # {} => First(Q) \in Q /\ \A y \in Q : First(Q) <= y
  BY <1>3, <1>5, FirstPosition
<1>7. \A j : j \in Q <=> j \in (s + 2)..n /\ pattern[j] = "}"
  BY <1>5
<1>8. PICK e : e = Closing(pattern, i)
  OBVIOUS
<1>9. e \in Nat /\ (e # 0 => e \in Q /\ \A j \in Q : e <= j)
  BY <1>4, <1>5, <1>6, <1>8
<1>10. e # 0 => /\ e \in (s + 2)..n /\ pattern[e] = "}"
                /\ \A j \in (s + 2)..n : pattern[j] = "}" => e <= j
  BY <1>7, <1>9
<1>11. e \in 0..n
  <2>1. CASE e = 0
    BY <2>1
  <2>2. CASE e # 0
    BY <1>2, <1>10, <2>2, BehindOpening
  <2> QED BY <2>1, <2>2
<1> QED BY <1>1, <1>8, <1>10, <1>11

(* The loop is the function that Parse takes: it goes on behind the         *)
(* placeholder, where there is less of the pattern.                         *)
Done(pattern, i) == i > Len(pattern) \/ Opening(pattern, i) = 0 \/ Closing(pattern, i) = 0

LEMMA DoneParse ==
  ASSUME NEW pattern, NEW sources, NEW i, Done(pattern, i), NEW a, NEW b,
         NEW n \in Nat, n = Len(pattern), i \in Nat \ {0}
  PROVE  ParseFrom(pattern, sources, i, a) = ParseFrom(pattern, sources, i, b)
BY DEF ParseFrom, Done

Unrolls(pattern, sources, f) ==
  \A i \in 1..Len(pattern) + 1 :
    f[i] = ParseFrom(pattern, sources, i, f[Closing(pattern, i) + 1])

LEMMA ParseUnrolls ==
  ASSUME NEW pattern, NEW sources, NEW n \in Nat, n = Len(pattern)
  PROVE  \E f : Unrolls(pattern, sources, f) /\ Parse(pattern, sources) = f[1]
<1> DEFINE B(i, x) == ParseFrom(pattern, sources, i, x)
<1>1. ASSUME NEW i \in 1..n + 1, Done(pattern, i), NEW a, NEW b PROVE B(i, a) = B(i, b)
  BY <1>1, DoneParse
<1>2. ASSUME NEW i \in 1..n + 1, ~Done(pattern, i)
      PROVE  Closing(pattern, i) + 1 \in (i + 1)..(n + 1)
  <2>1. PICK s, e : s = Opening(pattern, i) /\ e = Closing(pattern, i)
    OBVIOUS
  <2>2. s # 0 /\ e # 0
    BY <1>2, <2>1 DEF Done
  <2>3. i \in Nat \ {0}
    OBVIOUS
  <2>4. s \in i..n
    BY <2>1, <2>2, <2>3, OpeningPosition
  <2>5. e \in (s + 2)..n
    BY <2>1, <2>2, <2>3, ClosingPosition
  <2>6. e + 1 \in (i + 1)..(n + 1)
    BY <2>4, <2>5
  <2> QED BY <2>1, <2>6
<1> DEFINE Next2(i) == Closing(pattern, i) + 1
           V(f, i) == IF Done(pattern, i) THEN B(i, 0) ELSE B(i, f[Next2(i)])
           T == {m \in Nat : m <= n => \E f : \A i \in (n + 1 - m)..(n + 1) : f[i] = V(f, i)}
<1>3. 0 \in T
  <2> SUFFICES \E f : \A i \in (n + 1)..(n + 1) : f[i] = V(f, i)
    OBVIOUS
  <2> DEFINE f == [i \in {n + 1} |-> B(i, 0)]
  <2>1. Done(pattern, n + 1)
    BY DEF Done
  <2>2. f[n + 1] = B(n + 1, 0)
    OBVIOUS
  <2> HIDE DEF B, f
  <2>3. \A i \in (n + 1)..(n + 1) : i = n + 1
    OBVIOUS
  <2> QED BY <2>1, <2>2, <2>3
<1>4. ASSUME NEW m \in Nat, m \in T PROVE m + 1 \in T
  <2> HIDE DEF B, Next2
  <2> SUFFICES ASSUME m + 1 <= n
               PROVE  \E f : \A i \in (n + 1 - (m + 1))..(n + 1) : f[i] = V(f, i)
    OBVIOUS
  <2>1. PICK f : \A i \in (n + 1 - m)..(n + 1) : f[i] = V(f, i)
    BY <1>4
  <2>2. PICK k : k = n - m
    OBVIOUS
  <2>3. k \in 1..n /\ n + 1 - (m + 1) = k /\ n + 1 - m = k + 1
    BY <2>2
  <2> DEFINE g == [i \in k..(n + 1) |-> IF i = k THEN V(f, k) ELSE f[i]]
  <2>4. g[k] = V(f, k) /\ \A i \in (k + 1)..(n + 1) : g[i] = f[i]
    BY <2>3
  <2> HIDE DEF g
  <2>5. ASSUME NEW i \in k..(n + 1) PROVE g[i] = V(g, i)
    <3>1. g[i] = V(f, i)
      <4>1. CASE i = k
        BY <2>4, <4>1
      <4>2. CASE i # k
        <5>1. i \in (k + 1)..(n + 1)
          BY <2>3, <4>2
        <5> QED BY <2>1, <2>3, <2>4, <5>1
      <4> QED BY <4>1, <4>2
    <3>2. CASE Done(pattern, i)
      BY <3>1, <3>2
    <3>3. CASE ~Done(pattern, i)
      <4>1. i \in 1..n + 1
        BY <2>3
      <4>2. Next2(i) \in (i + 1)..(n + 1)
        BY <1>2, <3>3, <4>1 DEF Next2
      <4>3. PICK c : c = Next2(i)
        OBVIOUS
      <4>4. c \in (k + 1)..(n + 1)
        BY <2>3, <4>2, <4>3
      <4>5. g[c] = f[c]
        BY <2>4, <4>4
      <4> QED BY <3>1, <3>3, <4>3, <4>5
    <3> QED BY <3>2, <3>3
  <2> QED BY <2>3, <2>5
<1>5. \E f : \A i \in 1..(n + 1) : f[i] = V(f, i)
  <2> HIDE DEF T, V
  <2>1. n \in T
    BY <1>3, <1>4, NatSetInduction
  <2>2. n + 1 - n = 1
    OBVIOUS
  <2> QED BY <2>1, <2>2 DEF T
<1>6. PICK f : \A i \in 1..(n + 1) : f[i] = V(f, i)
  BY <1>5
<1> DEFINE g == [i \in 1..(n + 1) |-> f[i]]
<1>7. ASSUME NEW i \in 1..(n + 1) PROVE g[i] = B(i, g[Closing(pattern, i) + 1])
  <2>1. g[i] = V(f, i)
    BY <1>6
  <2> HIDE DEF g, B
  <2>2. CASE Done(pattern, i)
    BY <1>1, <2>1, <2>2
  <2>3. CASE ~Done(pattern, i)
    <3>1. PICK c : c = Closing(pattern, i) + 1
      OBVIOUS
    <3>2. c \in 1..(n + 1)
      BY <1>2, <2>3, <3>1
    <3>3. g[c] = f[c]
      BY <3>2 DEF g
    <3> QED BY <2>1, <2>3, <3>1, <3>3
  <2> QED BY <2>2, <2>3
<1>8. g = [i \in 1..(n + 1) |-> B(i, g[Closing(pattern, i) + 1])]
  BY <1>7
<1> HIDE DEF g
<1> DEFINE from[i \in 1..(n + 1)] == B(i, from[Closing(pattern, i) + 1])
<1>9. from = [i \in 1..(n + 1) |-> B(i, from[Closing(pattern, i) + 1])]
  BY <1>8
<1>10. Parse(pattern, sources) = from[1]
  BY DEF Parse
<1> HIDE DEF from
<1>11. Unrolls(pattern, sources, from)
  BY <1>9 DEF Unrolls
<1> QED BY <1>10, <1>11

------------------------------------------------------------------------------
(* Concatenation, from the front.                                           *)

Prepended(whole, a, seqs, n) ==
  /\ Len(whole) = n + 1 /\ Len(seqs) = n /\ whole[1] = a
  /\ \A i \in 1..n : whole[i + 1] = seqs[i]

LEMMA FlattenCons ==
  ASSUME NEW S, NEW a \in Seq(S), NEW seqs \in Seq(Seq(S)), NEW whole \in Seq(Seq(S)),
         NEW n \in Nat, Prepended(whole, a, seqs, n)
  PROVE  FlattenSeq(whole) = a \o FlattenSeq(seqs)
<1>1. PICK f : Concatenates(whole, S, f) /\ FlattenSeq(whole) = f[Len(whole)]
  BY FlattenPrefixes
<1>2. PICK g : Concatenates(seqs, S, g) /\ FlattenSeq(seqs) = g[Len(seqs)]
  BY FlattenPrefixes
<1>3. /\ FlattenSeq(whole) = f[n + 1] /\ FlattenSeq(seqs) = g[n]
      /\ f[0] = <<>> /\ g[0] = <<>>
      /\ \A i \in 1..(n + 1) : f[i] = f[i - 1] \o whole[i]
      /\ \A i \in 1..n : g[i] = g[i - 1] \o seqs[i]
      /\ \A i \in 0..n : g[i] \in Seq(S)
      /\ whole[1] = a /\ \A i \in 1..n : whole[i + 1] = seqs[i]
  BY <1>1, <1>2 DEF Concatenates, Prepended
<1> DEFINE T == {m \in Nat : m <= n => f[m + 1] = a \o g[m]}
<1>4. 0 \in T
  <2>1. f[1] = f[0] \o whole[1]
    <3>1. 1 \in 1..(n + 1) /\ 1 - 1 = 0
      OBVIOUS
    <3> QED BY <1>3, <3>1
  <2>2. f[1] = <<>> \o a
    BY <1>3, <2>1
  <2>3. <<>> \o a = a /\ a \o <<>> = a
    BY ConcatEmptySeq
  <2>4. f[0 + 1] = a \o g[0]
    BY <1>3, <2>2, <2>3
  <2> QED BY <2>4
<1>5. ASSUME NEW m \in Nat, m \in T PROVE m + 1 \in T
  <2> SUFFICES ASSUME m + 1 <= n PROVE f[(m + 1) + 1] = a \o g[m + 1]
    OBVIOUS
  <2>1. PICK j : j = m + 1
    OBVIOUS
  <2>2. j \in 1..n /\ j - 1 = m /\ j + 1 \in 1..(n + 1) /\ (j + 1) - 1 = j /\ m \in 0..n
    BY <2>1
  <2>3. f[j] = a \o g[m]
    BY <1>5, <2>1, <2>2
  <2>4. f[j + 1] = f[j] \o seqs[j]
    <3>1. f[j + 1] = f[(j + 1) - 1] \o whole[j + 1]
      BY <1>3, <2>2
    <3>2. whole[j + 1] = seqs[j]
      BY <1>3, <2>2
    <3> QED BY <2>2, <3>1, <3>2
  <2>5. g[j] = g[m] \o seqs[j]
    <3>1. g[j] = g[j - 1] \o seqs[j]
      BY <1>3, <2>2
    <3> QED BY <2>2, <3>1
  <2>6. PICK x, y : x = g[m] /\ y = seqs[j]
    OBVIOUS
  <2>7. x \in Seq(S) /\ y \in Seq(S)
    <3>1. g[m] \in Seq(S)
      BY <1>3, <2>2
    <3>2. seqs[j] \in Seq(S)
      BY <2>2 DEF Prepended
    <3> QED BY <2>6, <3>1, <3>2
  <2>8. (a \o x) \o y = a \o (x \o y)
    <3>1. Regroups(a, x, y)
      BY <2>7, Regrouped
    <3> QED BY <3>1, Zenon DEF Regroups
  <2>9. f[j + 1] = a \o g[j]
    BY <2>3, <2>4, <2>5, <2>6, <2>8, Zenon
  <2> QED BY <2>1, <2>9
<1>6. n \in T
  <2> HIDE DEF T
  <2> QED BY <1>4, <1>5, NatSetInduction
<1> QED BY <1>3, <1>6
------------------------------------------------------------------------------
(* Pieces of a pattern.                                                     *)

Piece(q, p, i, j) ==
  /\ DOMAIN q = 1..(j - i + 1) /\ Len(q) = j - i + 1
  /\ \A k \in 1..(j - i + 1) : q[k] = p[i + k - 1]

LEMMA PieceIs ==
  ASSUME NEW C, NEW p \in Seq(C), NEW n \in Nat, n = Len(p),
         NEW i \in 1..(n + 1), NEW j \in (i - 1)..n
  PROVE  SubSeq(p, i, j) \in Seq(C) /\ Piece(SubSeq(p, i, j), p, i, j)
<1>1. \A k \in i..j : p[k] \in C
  <2>1. \A k \in i..j : k \in 1..n
    OBVIOUS
  <2>2. \A k \in 1..n : p[k] \in C
    OBVIOUS
  <2> QED BY <2>1, <2>2
<1>2. i \in Int /\ j \in Int /\ j - i + 1 \in Nat
  OBVIOUS
<1>3. /\ SubSeq(p, i, j) \in Seq(C)
      /\ Len(SubSeq(p, i, j)) = IF i <= j THEN j - i + 1 ELSE 0
      /\ \A k \in 1..(j - i + 1) : SubSeq(p, i, j)[k] = p[i + k - 1]
  BY <1>1, <1>2, SubSeqProperties
<1>4. Len(SubSeq(p, i, j)) = j - i + 1
  BY <1>2, <1>3
<1>5. DOMAIN SubSeq(p, i, j) = 1..(j - i + 1)
  BY <1>3, <1>4, LenProperties
<1> QED BY <1>3, <1>4, <1>5 DEF Piece

LEMMA PieceEqual ==
  ASSUME NEW C, NEW p \in Seq(C), NEW n \in Nat, n = Len(p),
         NEW i \in 1..(n + 1), NEW j \in (i - 1)..n, NEW q, Piece(q, p, i, j),
         NEW D, q \in Seq(D)
  PROVE  q = SubSeq(p, i, j) /\ q \in Seq(C)
<1>1. PICK r : r = SubSeq(p, i, j)
  OBVIOUS
<1>2. r \in Seq(C) /\ Piece(r, p, i, j)
  BY <1>1, PieceIs
<1>3. PICK l : l = j - i + 1
  OBVIOUS
<1>4. q \in [1..l -> D] /\ r \in [1..l -> C] /\ \A k \in 1..l : q[k] = r[k]
  <2>1. DOMAIN q = 1..l /\ DOMAIN r = 1..l /\ \A k \in 1..l : q[k] = r[k]
    BY <1>2, <1>3 DEF Piece
  <2>2. q \in [1..Len(q) -> D] /\ r \in [1..Len(r) -> C]
    BY <1>2, LenProperties
  <2>3. Len(q) = l /\ Len(r) = l
    BY <1>2, <1>3 DEF Piece
  <2>4. q \in [1..l -> D] /\ r \in [1..l -> C]
    BY <2>2, <2>3, Zenon
  <2> QED BY <2>1, <2>4
<1>5. q = r
  <2>1. q = [k \in 1..l |-> q[k]] /\ r = [k \in 1..l |-> r[k]]
    BY <1>4
  <2>2. [k \in 1..l |-> q[k]] = [k \in 1..l |-> r[k]]
    BY <1>4
  <2> QED BY <2>1, <2>2, Zenon
<1> QED BY <1>1, <1>2, <1>5

(* Two pieces that meet.                                                    *)
Adjacent(C, p, n, i, j, k, l) ==
  /\ p \in Seq(C) /\ n \in Nat /\ n = Len(p)
  /\ i \in 1..(n + 1) /\ j \in (i - 1)..n /\ k = j + 1 /\ l \in j..n
Meet(p, i, j, k, l) == SubSeq(p, i, j) \o SubSeq(p, k, l) = SubSeq(p, i, l)

LEMMA PiecesMeet ==
  ASSUME NEW C, NEW p, NEW n, NEW i, NEW j, NEW k, NEW l, Adjacent(C, p, n, i, j, k, l)
  PROVE  Meet(p, i, j, k, l)
<1>1. /\ p \in Seq(C) /\ k = j + 1
      /\ j \in (i - 1)..Len(p) /\ i \in 1..Len(p) + 1 /\ l \in j..Len(p)
  BY DEF Adjacent
<1>2. SubSeq(p, i, j) \o SubSeq(p, j + 1, l) = SubSeq(p, i, l)
  BY <1>1, ConcatAdjacentSubSeq
<1> QED BY <1>1, <1>2, Zenon DEF Meet

LEMMA OneCharacter ==
  ASSUME NEW C, NEW p \in Seq(C), NEW n \in Nat, n = Len(p), NEW i \in 1..n, NEW x, p[i] = x
  PROVE  <<x>> = SubSeq(p, i, i)
<1>1. PICK q, j, D : q = <<x>> /\ j = i /\ D = {x}
  OBVIOUS
<1>2. Piece(q, p, i, j)
  BY <1>1 DEF Piece
<1>3. q \in Seq(D)
  BY <1>1
<1>4. i \in 1..(n + 1) /\ j \in (i - 1)..n
  BY <1>1
<1>5. q = SubSeq(p, i, j)
  BY <1>2, <1>3, <1>4, PieceEqual
<1> QED BY <1>1, <1>5

LEMMA TwoCharacters ==
  ASSUME NEW C, NEW p \in Seq(C), NEW n \in Nat, n = Len(p), NEW i \in 1..n, NEW j \in 1..n,
         j = i + 1, NEW x, NEW y, p[i] = x, p[j] = y
  PROVE  <<x, y>> = SubSeq(p, i, j)
<1>1. PICK q, k, D : q = <<x, y>> /\ k = j /\ D = {x, y}
  OBVIOUS
<1>2. Piece(q, p, i, k)
  BY <1>1 DEF Piece
<1>3. q \in Seq(D)
  BY <1>1
<1>4. i \in 1..(n + 1) /\ k \in (i - 1)..n
  BY <1>1
<1>5. q = SubSeq(p, i, k)
  BY <1>2, <1>3, <1>4, PieceEqual
<1> QED BY <1>1, <1>5

(* Source and key are pieces of the pattern themselves.                     *)
LEMMA PieceOfPiece ==
  ASSUME NEW C, NEW p \in Seq(C), NEW n \in Nat, n = Len(p),
         NEW i \in 1..(n + 1), NEW j \in (i - 1)..n, NEW raw, raw = SubSeq(p, i, j),
         NEW k \in 1..(j - i + 2), NEW l \in (k - 1)..(j - i + 1)
  PROVE  SubSeq(raw, k, l) = SubSeq(p, i + k - 1, i + l - 1)
<1>1. raw \in Seq(C) /\ Piece(raw, p, i, j)
  BY PieceIs
<1>2. PICK m : m = Len(raw)
  OBVIOUS
<1>3. m \in Nat /\ m = j - i + 1
  BY <1>1, <1>2 DEF Piece
<1>4. PICK q : q = SubSeq(raw, k, l)
  OBVIOUS
<1>5. q \in Seq(C) /\ Piece(q, raw, k, l)
  <2>1. k \in 1..(m + 1) /\ l \in (k - 1)..m
    BY <1>3
  <2> QED BY <1>1, <1>2, <1>3, <1>4, <2>1, PieceIs
<1>6. PICK a, b : a = i + k - 1 /\ b = i + l - 1
  OBVIOUS
<1>7. a \in 1..(n + 1) /\ b \in (a - 1)..n /\ b - a + 1 = l - k + 1
  BY <1>6
<1>8. Piece(q, p, a, b)
  <2>1. ASSUME NEW h \in 1..(l - k + 1) PROVE q[h] = p[a + h - 1]
    <3>1. q[h] = raw[k + h - 1]
      BY <1>5 DEF Piece
    <3>2. PICK g : g = k + h - 1
      OBVIOUS
    <3>3. g \in 1..(j - i + 1) /\ i + g - 1 = a + h - 1
      BY <1>6, <3>2
    <3>4. raw[g] = p[i + g - 1]
      BY <1>1, <3>3 DEF Piece
    <3> QED BY <3>1, <3>2, <3>3, <3>4
  <2> QED BY <1>5, <1>7, <2>1 DEF Piece
<1>9. q = SubSeq(p, a, b)
  BY <1>5, <1>7, <1>8, PieceEqual
<1> QED BY <1>4, <1>6, <1>9

------------------------------------------------------------------------------
(* Parts that are a reading of the pattern from position i.                 *)

PartsOver(C) == [literal : Seq(C), source : Seq(C), key : Seq(C)]
Texts(parts) == [i \in DOMAIN parts |-> Written(parts[i])]

PartRead(part, sources) ==
  IF part.source = <<>>
    THEN /\ part.literal # <<>>
         /\ \A j \in DOMAIN part.literal : ~Opens(part.literal, j)
    ELSE /\ part.source \in sources /\ part.key # <<>>
         /\ "}" \notin ToSet(part.key)

PartsRead(parts, sources) ==
  \A i \in DOMAIN parts : /\ PartRead(parts[i], sources)
                          /\ parts[i].source = <<>> /\ i > 1 => parts[i - 1].source # <<>>

Reads(p, i, C, sources, parts) ==
  /\ parts \in Seq(PartsOver(C)) /\ Texts(parts) \in Seq(Seq(C))
  /\ FlattenSeq(Texts(parts)) = SubSeq(p, i, Len(p))
  /\ PartsRead(parts, sources)

LEMMA ReadsNothing ==
  ASSUME NEW C, NEW p \in Seq(C), NEW n \in Nat, n = Len(p), NEW sources
  PROVE  Reads(p, n + 1, C, sources, <<>>)
<1>1. <<>> \in Seq(PartsOver(C)) /\ <<>> \in Seq(Seq(C))
  BY EmptySeq
<1>2. PICK t : t = Texts(<<>>)
  OBVIOUS
<1>3. t = <<>>
  BY <1>2 DEF Texts
<1>4. FlattenSeq(t) = <<>>
  BY <1>3 DEF FlattenSeq
<1>5. SubSeq(p, n + 1, Len(p)) = <<>>
  BY SubSeqEmpty
<1>6. PartsRead(<<>>, sources)
  BY DEF PartsRead
<1> QED BY <1>1, <1>2, <1>3, <1>4, <1>5, <1>6 DEF Reads

(* A part in front of a sequence of them.                                   *)
LEMMA InFront ==
  ASSUME NEW P, NEW part \in P, NEW parts \in Seq(P), NEW n \in Nat, n = Len(parts),
         NEW whole, whole = <<part>> \o parts
  PROVE  /\ whole \in Seq(P) /\ Len(whole) = n + 1 /\ DOMAIN whole = 1..(n + 1)
         /\ whole[1] = part /\ \A i \in 1..n : whole[i + 1] = parts[i]
<1>1. PICK a : a = <<part>>
  OBVIOUS
<1>2. a \in Seq(P) /\ Len(a) = 1 /\ a[1] = part
  BY <1>1
<1>3. /\ whole \in Seq(P) /\ Len(whole) = 1 + n
      /\ \A i \in 1..Len(a) + Len(parts) :
           whole[i] = IF i <= Len(a) THEN a[i] ELSE parts[i - Len(a)]
  BY <1>1, <1>2, ConcatProperties
<1>4. Len(whole) = n + 1 /\ DOMAIN whole = 1..(n + 1)
  BY <1>3, LenProperties
<1>5. \A i \in 1..n + 1 : whole[i] = IF i <= 1 THEN a[i] ELSE parts[i - 1]
  BY <1>2, <1>3
<1>6. whole[1] = part
  BY <1>2, <1>5
<1>7. ASSUME NEW i \in 1..n PROVE whole[i + 1] = parts[i]
  <2>1. i + 1 \in 1..n + 1 /\ ~(i + 1 <= 1) /\ (i + 1) - 1 = i
    OBVIOUS
  <2> QED BY <1>5, <2>1
<1> QED BY <1>3, <1>4, <1>6, <1>7

LEMMA TextsInFront ==
  ASSUME NEW C, NEW part \in PartsOver(C), NEW parts \in Seq(PartsOver(C)),
         Texts(parts) \in Seq(Seq(C)), Written(part) \in Seq(C)
  PROVE  /\ Texts(<<part>> \o parts) \in Seq(Seq(C))
         /\ FlattenSeq(Texts(<<part>> \o parts)) = Written(part) \o FlattenSeq(Texts(parts))
<1>1. PICK n, whole, texts, wtexts, w :
        /\ n = Len(parts) /\ whole = <<part>> \o parts
        /\ texts = Texts(parts) /\ wtexts = Texts(whole) /\ w = Written(part)
  OBVIOUS
<1>2. n \in Nat /\ DOMAIN parts = 1..n
  BY <1>1, LenProperties
<1>3. /\ DOMAIN whole = 1..(n + 1)
      /\ whole[1] = part /\ \A i \in 1..n : whole[i + 1] = parts[i]
  BY <1>1, <1>2, InFront
<1>4. /\ texts = [i \in 1..n |-> Written(parts[i])]
      /\ wtexts = [i \in 1..(n + 1) |-> Written(whole[i])]
  BY <1>1, <1>2, <1>3 DEF Texts
<1>5. DOMAIN texts = 1..n /\ DOMAIN wtexts = 1..(n + 1)
  BY <1>4
<1>6. Len(texts) = n
  BY <1>1, <1>2, <1>5, LenProperties
<1>7. wtexts[1] = w
  <2>1. 1 \in 1..(n + 1)
    BY <1>2
  <2>2. wtexts[1] = Written(whole[1])
    BY <1>4, <2>1
  <2> QED BY <1>1, <1>3, <2>2, Zenon
<1>8. ASSUME NEW i \in 1..n PROVE wtexts[i + 1] = texts[i]
  <2>1. PICK k : k = i + 1
    OBVIOUS
  <2>2. k \in 1..(n + 1) /\ whole[k] = parts[i]
    BY <1>2, <1>3, <2>1
  <2>3. wtexts[k] = Written(whole[k]) /\ texts[i] = Written(parts[i])
    BY <1>4, <2>2
  <2> QED BY <2>1, <2>2, <2>3
<1>9. \A i \in 1..n : texts[i] \in Seq(C)
  BY <1>1, <1>6, ElementOfSeq
<1>10. w \in Seq(C)
  BY <1>1
<1>11. ASSUME NEW k \in 1..(n + 1) PROVE wtexts[k] \in Seq(C)
  <2>1. CASE k = 1
    BY <1>7, <1>10, <2>1
  <2>2. CASE k # 1
    <3>1. PICK i : i = k - 1
      OBVIOUS
    <3>2. i \in 1..n /\ k = i + 1
      BY <1>2, <2>2, <3>1
    <3>3. wtexts[i + 1] = texts[i]
      BY <1>8, <3>2
    <3>4. texts[i] \in Seq(C)
      BY <1>9, <3>2
    <3> QED BY <3>2, <3>3, <3>4
  <2> QED BY <2>1, <2>2
<1>12. wtexts \in Seq(Seq(C)) /\ Len(wtexts) = n + 1
  <2>1. PICK l, P : l = n + 1 /\ P = Seq(C)
    OBVIOUS
  <2>2. l \in Nat /\ wtexts \in [1..l -> P]
    BY <1>2, <1>4, <1>11, <2>1
  <2>3. wtexts \in Seq(P) /\ Len(wtexts) = l
    BY <2>2
  <2> QED BY <2>1, <2>3
<1>13. Prepended(wtexts, w, texts, n)
  BY <1>6, <1>7, <1>8, <1>12 DEF Prepended
<1>14. FlattenSeq(wtexts) = w \o FlattenSeq(texts)
  <2>1. texts \in Seq(Seq(C)) /\ wtexts \in Seq(Seq(C)) /\ w \in Seq(C) /\ n \in Nat
    BY <1>1, <1>2, <1>10, <1>12, Zenon
  <2> QED BY <1>13, <2>1, FlattenCons
<1> QED BY <1>1, <1>12, <1>14, Zenon

(* A part that is written from i to j.                                      *)
PartAt(C, p, sources, i, j, part) ==
  /\ part \in PartsOver(C) /\ Written(part) = SubSeq(p, i, j) /\ PartRead(part, sources)

LEMMA ReadsMore ==
  ASSUME NEW C, NEW p \in Seq(C), NEW n \in Nat, n = Len(p), NEW sources,
         NEW i, i \in 1..(n + 1), NEW j, j \in (i - 1)..n, NEW k, k = j + 1,
         NEW parts, Reads(p, k, C, sources, parts),
         NEW part, PartAt(C, p, sources, i, j, part),
         part.source # <<>> \/ parts = <<>> \/ parts[1].source # <<>>
  PROVE  Reads(p, i, C, sources, <<part>> \o parts)
<1> USE DEF PartAt
<1>1. /\ parts \in Seq(PartsOver(C)) /\ Texts(parts) \in Seq(Seq(C))
      /\ FlattenSeq(Texts(parts)) = SubSeq(p, k, n) /\ PartsRead(parts, sources)
  BY DEF Reads
<1>2. Written(part) \in Seq(C)
  BY PieceIs
<1>3. PICK m, whole : m = Len(parts) /\ whole = <<part>> \o parts
  OBVIOUS
<1>4. m \in Nat /\ DOMAIN parts = 1..m
  BY <1>1, <1>3, LenProperties
<1>5. /\ whole \in Seq(PartsOver(C)) /\ DOMAIN whole = 1..(m + 1)
      /\ whole[1] = part /\ \A h \in 1..m : whole[h + 1] = parts[h]
  BY <1>1, <1>3, <1>4, InFront
<1>6. /\ Texts(whole) \in Seq(Seq(C))
      /\ FlattenSeq(Texts(whole)) = Written(part) \o FlattenSeq(Texts(parts))
  BY <1>1, <1>2, <1>3, TextsInFront
<1>7. FlattenSeq(Texts(whole)) = SubSeq(p, i, n)
  <2>1. Adjacent(C, p, n, i, j, k, n)
    BY DEF Adjacent
  <2>2. Meet(p, i, j, k, n)
    BY <2>1, PiecesMeet
  <2>3. Written(part) = SubSeq(p, i, j)
    OBVIOUS
  <2> QED BY <1>1, <1>6, <2>2, <2>3, Zenon DEF Meet
<1>8. PartsRead(whole, sources)
  <2> SUFFICES ASSUME NEW h \in 1..(m + 1)
               PROVE  /\ PartRead(whole[h], sources)
                      /\ whole[h].source = <<>> /\ h > 1 => whole[h - 1].source # <<>>
    BY <1>5 DEF PartsRead
  <2>1. CASE h = 1
    BY <1>5, <2>1
  <2>2. CASE h # 1
    <3>1. PICK g : g = h - 1
      OBVIOUS
    <3>2. g \in 1..m /\ h = g + 1
      BY <1>4, <2>2, <3>1
    <3>3. whole[h] = parts[g]
      BY <1>5, <3>2
    <3>4. PartRead(parts[g], sources)
      BY <1>1, <1>4, <3>2 DEF PartsRead
    <3>5. parts[g].source = <<>> => whole[g].source # <<>>
      <4> SUFFICES ASSUME parts[g].source = <<>> PROVE whole[g].source # <<>>
        OBVIOUS
      <4>1. CASE g = 1
        <5>1. parts # <<>>
          BY <1>4, <3>2
        <5> QED BY <1>5, <4>1, <5>1
      <4>2. CASE g # 1
        <5>1. PICK f : f = g - 1
          OBVIOUS
        <5>2. f \in 1..m /\ g = f + 1 /\ g > 1
          BY <1>4, <3>2, <4>2, <5>1
        <5>3. whole[g] = parts[f]
          BY <1>5, <5>2
        <5>4. parts[g - 1].source # <<>>
          BY <1>1, <1>4, <3>2, <5>2 DEF PartsRead
        <5> QED BY <5>1, <5>3, <5>4
      <4> QED BY <4>1, <4>2
    <3> QED BY <3>1, <3>3, <3>4, <3>5
  <2> QED BY <2>1, <2>2
<1> QED BY <1>3, <1>5, <1>6, <1>7, <1>8 DEF Reads

ClosesAt(p, s, e, n) ==
  p[e] = "}" /\ \A j \in (s + 2)..n : p[j] = "}" => e <= j

LEMMA ColonPosition ==
  ASSUME NEW raw, NEW l \in Nat, DOMAIN raw = 1..l, Colon(raw) # 0
  PROVE  Colon(raw) \in 1..l /\ raw[Colon(raw)] = ":"
<1>1. PICK P : P = {j \in DOMAIN raw : raw[j] = ":"}
  OBVIOUS
<1>2. P \subseteq Nat \ {0}
  BY <1>1
<1>3. Colon(raw) = First(P)
  BY <1>1 DEF Colon
<1>4. Colon(raw) \in P
  BY <1>2, <1>3, FirstPosition
<1> QED BY <1>1, <1>4

ColonInside(n, s, e, c, m, l) ==
  /\ m \in 1..n /\ e \in 1..n /\ s + 2 < m /\ m + 1 < e
  /\ s + 2 + 1 - 1 = s + 2 /\ s + 2 + (c - 1) - 1 = m - 1
  /\ s + 2 + (c + 1) - 1 = m + 1 /\ s + 2 + l - 1 = e - 1
  /\ 1 \in 1..(l + 1) /\ c - 1 \in (1 - 1)..l /\ c + 1 \in 1..(l + 1) /\ l \in (c + 1 - 1)..l
  /\ s + 2 \in 1..(n + 1) /\ m - 1 \in (s + 2 - 1)..n /\ (m - 1) - (s + 2) + 1 > 0
  /\ m + 1 \in 1..(n + 1) /\ e - 1 \in (m + 1 - 1)..n /\ (e - 1) - (m + 1) + 1 > 0

LEMMA ColonBetween ==
  ASSUME NEW n \in Int, NEW s \in Int, NEW e \in Int, NEW c \in Int, NEW m \in Int, NEW l \in Int,
         1 <= s, s + 2 <= e, e <= n, l = (e - 1) - (s + 2) + 1, 2 <= c, c <= l - 1,
         m = (s + 2) + c - 1
  PROVE  ColonInside(n, s, e, c, m, l)
BY DEF ColonInside

LEMMA BeforeClosing ==
  ASSUME NEW n \in Int, NEW s \in Int, NEW e \in Int, NEW m \in Int, NEW h \in Int,
         e <= n, s + 2 < m, m + 1 < e, 1 <= h, h <= (e - 1) - (m + 1) + 1
  PROVE  /\ m + 1 + h - 1 \in (s + 2)..n /\ ~(e <= m + 1 + h - 1)
OBVIOUS

LEMMA KeyClean ==
  ASSUME NEW p, NEW n \in Int, NEW s \in Int, NEW e \in Int, NEW m \in Int, NEW key,
         e <= n, s + 2 < m, m + 1 < e, ClosesAt(p, s, e, n), Piece(key, p, m + 1, e - 1)
  PROVE  "}" \notin ToSet(key)
<1>1. PICK y : y = "}"
  OBVIOUS
<1>2. \A j \in (s + 2)..n : p[j] = y => e <= j
  BY <1>1 DEF ClosesAt
<1>3. /\ DOMAIN key = 1..((e - 1) - (m + 1) + 1)
      /\ \A k \in 1..((e - 1) - (m + 1) + 1) : key[k] = p[m + 1 + k - 1]
  BY DEF Piece
<1>4. ASSUME NEW h \in DOMAIN key PROVE key[h] # y
  <2>1. h \in Int /\ 1 <= h /\ h <= (e - 1) - (m + 1) + 1
    BY <1>3
  <2>2. m + 1 + h - 1 \in (s + 2)..n /\ ~(e <= m + 1 + h - 1)
    BY <2>1, BeforeClosing
  <2>3. key[h] = p[m + 1 + h - 1]
    BY <1>3
  <2> QED BY <1>2, <2>2, <2>3
<1> QED BY <1>1, <1>4 DEF ToSet

(* A placeholder that opens at s and closes at e, with its first colon at m. *)
Spells(p, s, m, e) == p[s] = "$" /\ p[s + 1] = "{" /\ p[m] = ":" /\ p[e] = "}"

PlaceholderAt(C, p, n, s, m, e) ==
  /\ p \in Seq(C) /\ n = Len(p) /\ n \in Nat
  /\ s \in 1..n /\ m \in 1..n /\ e \in 1..n /\ s + 2 < m /\ m + 1 < e
  /\ Spells(p, s, m, e)

MarksSpelt(p, s, m, e) ==
  /\ <<"$", "{">> = SubSeq(p, s, s + 1) /\ <<":">> = SubSeq(p, m, m)
  /\ <<"}">> = SubSeq(p, e, e)

LEMMA PlaceholderMarks ==
  ASSUME NEW C, NEW p, NEW n, NEW s, NEW m, NEW e, PlaceholderAt(C, p, n, s, m, e)
  PROVE  MarksSpelt(p, s, m, e)
<1>1. PICK a, b, x, y, s1 : a = "$" /\ b = "{" /\ x = ":" /\ y = "}" /\ s1 = s + 1
  OBVIOUS
<1>2. p[s] = a /\ p[s1] = b /\ p[m] = x /\ p[e] = y
  BY <1>1, Zenon DEF Spells, PlaceholderAt
<1>3. /\ p \in Seq(C) /\ n = Len(p) /\ n \in Nat
      /\ s \in 1..n /\ m \in 1..n /\ e \in 1..n
  BY DEF PlaceholderAt
<1>4. s1 \in 1..n /\ s1 = s + 1
  <2>1. PICK t : t = s + 1
    OBVIOUS
  <2>2. t \in 1..n
    BY <2>1 DEF PlaceholderAt
  <2> QED BY <1>1, <2>1, <2>2, Zenon
<1>5. <<a, b>> = SubSeq(p, s, s1)
  BY <1>2, <1>3, <1>4, TwoCharacters
<1>6. <<x>> = SubSeq(p, m, m)
  BY <1>2, <1>3, OneCharacter
<1>7. <<y>> = SubSeq(p, e, e)
  BY <1>2, <1>3, OneCharacter
<1> QED BY <1>1, <1>5, <1>6, <1>7, Zenon DEF MarksSpelt

Joined(p, s, m, e) ==
  SubSeq(p, s, s + 1) \o SubSeq(p, s + 2, m - 1) \o SubSeq(p, m, m)
    \o SubSeq(p, m + 1, e - 1) \o SubSeq(p, e, e) = SubSeq(p, s, e)

LEMMA PlaceholderJoined ==
  ASSUME NEW C, NEW p, NEW n, NEW s, NEW m, NEW e, PlaceholderAt(C, p, n, s, m, e)
  PROVE  Joined(p, s, m, e)
<1>1. PICK s1, s2, m0, m1, e0 :
        /\ s1 = s + 1 /\ s2 = s + 2 /\ m0 = m - 1 /\ m1 = m + 1 /\ e0 = e - 1
  OBVIOUS
<1>2. /\ p \in Seq(C) /\ n = Len(p) /\ n \in Nat
      /\ s \in 1..(n + 1) /\ s1 \in (s - 1)..n /\ m0 \in (s - 1)..n /\ m \in (s - 1)..n
      /\ e0 \in (s - 1)..n
      /\ s2 = s1 + 1 /\ m = m0 + 1 /\ m1 = m + 1 /\ e = e0 + 1
      /\ m0 \in s1..n /\ m \in m0..n /\ e0 \in m..n /\ e \in e0..n
  BY <1>1 DEF PlaceholderAt
<1>3. Adjacent(C, p, n, s, s1, s2, m0) /\ Adjacent(C, p, n, s, m0, m, m)
  BY <1>2 DEF Adjacent
<1>4. Adjacent(C, p, n, s, m, m1, e0) /\ Adjacent(C, p, n, s, e0, e, e)
  BY <1>2 DEF Adjacent
<1>5. Meet(p, s, s1, s2, m0) /\ Meet(p, s, m0, m, m)
  BY <1>3, PiecesMeet
<1>6. Meet(p, s, m, m1, e0) /\ Meet(p, s, e0, e, e)
  BY <1>4, PiecesMeet
<1> QED BY <1>1, <1>5, <1>6, Zenon DEF Joined, Meet

(* What the loop takes the text between braces for.                         *)
RawBetween(p, s, e) == SubSeq(p, s + 2, e - 1)
SourceBetween(p, s, e) == SubSeq(RawBetween(p, s, e), 1, Colon(RawBetween(p, s, e)) - 1)
PartBetween(p, s, e) ==
  LET raw == RawBetween(p, s, e)
  IN Placeholder(SourceBetween(p, s, e), SubSeq(raw, Colon(raw) + 1, Len(raw)))
Accepted(p, sources, s, e) ==
  LET raw == RawBetween(p, s, e)
  IN Colon(raw) \notin {0, 1, Len(raw)} /\ SourceBetween(p, s, e) \in sources

Braces(p, n, s, e) == s \in 1..n /\ e \in (s + 2)..n /\ Opens(p, s) /\ ClosesAt(p, s, e, n)

LEMMA PlaceholderRead ==
  ASSUME NEW C, NEW p \in Seq(C), NEW n \in Nat, n = Len(p), NEW sources,
         NEW s, NEW e, Braces(p, n, s, e), Accepted(p, sources, s, e)
  PROVE  /\ PartAt(C, p, sources, s, e, PartBetween(p, s, e))
         /\ PartBetween(p, s, e).source # <<>>
<1>1. PICK raw, c, source, key, part :
        /\ raw = SubSeq(p, s + 2, e - 1) /\ c = Colon(raw) /\ source = SubSeq(raw, 1, c - 1)
        /\ key = SubSeq(raw, c + 1, Len(raw)) /\ part = Placeholder(source, key)
  OBVIOUS
<1>2. part = PartBetween(p, s, e)
  BY <1>1 DEF PartBetween, SourceBetween, RawBetween
<1>3. c \notin {0, 1, Len(raw)} /\ source \in sources
  BY <1>1 DEF Accepted, SourceBetween, RawBetween
<1>4. s \in 1..n /\ e \in (s + 2)..n /\ Opens(p, s) /\ ClosesAt(p, s, e, n)
  BY DEF Braces
<1>5. PICK l \in Nat : l = Len(raw) /\ l = (e - 1) - (s + 2) + 1 /\ DOMAIN raw = 1..l
  <2>1. s + 2 \in 1..(n + 1) /\ e - 1 \in (s + 2 - 1)..n /\ (e - 1) - (s + 2) + 1 \in Nat
    BY <1>4
  <2>2. Piece(raw, p, s + 2, e - 1)
    BY <1>1, <2>1, PieceIs
  <2> QED BY <2>1, <2>2 DEF Piece
<1>6. /\ s + 2 \in 1..(n + 1) /\ e - 1 \in (s + 2 - 1)..n
      /\ s \in Int /\ e \in Int /\ n \in Int /\ l \in Int
      /\ 1 <= s /\ s + 2 <= e /\ e <= n
  BY <1>5, <1>4
<1>7. raw \in Seq(C) /\ Piece(raw, p, s + 2, e - 1)
  BY <1>6, <1>1, PieceIs
<1>8. c \in 1..l /\ raw[c] = ":"
  BY <1>5, <1>1, <1>3, ColonPosition
<1>9. c \in Int /\ 2 <= c /\ c <= l - 1
  BY <1>5, <1>8, <1>3
<1>10. PICK m : m \in Int /\ m = (s + 2) + c - 1
  BY <1>6, <1>9
<1>11. p[m] = ":"
  BY <1>5, <1>7, <1>8, <1>10 DEF Piece
<1>12. /\ m \in 1..n /\ e \in 1..n /\ s + 2 < m /\ m + 1 < e
      /\ s + 2 + 1 - 1 = s + 2 /\ s + 2 + (c - 1) - 1 = m - 1
      /\ s + 2 + (c + 1) - 1 = m + 1 /\ s + 2 + l - 1 = e - 1
      /\ 1 \in 1..(l + 1) /\ c - 1 \in (1 - 1)..l /\ c + 1 \in 1..(l + 1) /\ l \in (c + 1 - 1)..l
      /\ s + 2 \in 1..(n + 1) /\ m - 1 \in (s + 2 - 1)..n /\ (m - 1) - (s + 2) + 1 > 0
      /\ m + 1 \in 1..(n + 1) /\ e - 1 \in (m + 1 - 1)..n /\ (e - 1) - (m + 1) + 1 > 0
  <2>1. ColonInside(n, s, e, c, m, l)
    BY <1>5, <1>6, <1>9, <1>10, ColonBetween
  <2> QED BY <2>1 DEF ColonInside
<1>13. source = SubSeq(p, s + 2, m - 1)
  <2>1. PICK i, j, k, h : i = s + 2 /\ j = e - 1 /\ k = 1 /\ h = c - 1
    OBVIOUS
  <2>2. k \in 1..(l + 1) /\ h \in (k - 1)..l
    BY <1>12, <2>1
  <2>3. i \in 1..(n + 1) /\ j \in (i - 1)..n /\ raw = SubSeq(p, i, j) /\ l = j - i + 1
    BY <1>5, <1>6, <1>1, <2>1
  <2>4. j - i + 2 = l + 1
    BY <1>5, <1>6, <2>1
  <2>5. SubSeq(raw, k, h) = SubSeq(p, i + k - 1, i + h - 1)
    BY <2>2, <2>3, <2>4, PieceOfPiece
  <2>6. i + k - 1 = s + 2 /\ i + h - 1 = m - 1
    BY <1>12, <2>1
  <2> QED BY <1>1, <2>1, <2>5, <2>6, Zenon
<1>14. key = SubSeq(p, m + 1, e - 1)
  <2>1. PICK i, j, k, h : i = s + 2 /\ j = e - 1 /\ k = c + 1 /\ h = l
    OBVIOUS
  <2>2. k \in 1..(l + 1) /\ h \in (k - 1)..l
    BY <1>12, <2>1
  <2>3. i \in 1..(n + 1) /\ j \in (i - 1)..n /\ raw = SubSeq(p, i, j) /\ l = j - i + 1
    BY <1>5, <1>6, <1>1, <2>1
  <2>4. j - i + 2 = l + 1
    BY <1>5, <1>6, <2>1
  <2>5. SubSeq(raw, k, h) = SubSeq(p, i + k - 1, i + h - 1)
    BY <2>2, <2>3, <2>4, PieceOfPiece
  <2>6. i + k - 1 = m + 1 /\ i + h - 1 = e - 1
    BY <1>12, <2>1
  <2> QED BY <1>5, <1>1, <2>1, <2>5, <2>6, Zenon
<1>15. source \in Seq(C) /\ source # <<>>
  <2>1. PICK i, j : i = s + 2 /\ j = m - 1
    OBVIOUS
  <2>2. i \in 1..(n + 1) /\ j \in (i - 1)..n /\ j - i + 1 > 0
    BY <1>12, <2>1
  <2>3. source \in Seq(C) /\ Piece(source, p, i, j)
    BY <1>13, <2>1, <2>2, PieceIs
  <2>4. Len(source) # 0
    BY <2>2, <2>3 DEF Piece
  <2> QED BY <2>3, <2>4, EmptySeq
<1>16. PICK i, j : i = m + 1 /\ j = e - 1
  OBVIOUS
<1>17. i \in 1..(n + 1) /\ j \in (i - 1)..n /\ j - i + 1 > 0
  BY <1>12, <1>16
<1>18. key \in Seq(C) /\ Piece(key, p, i, j)
  BY <1>14, <1>16, <1>17, PieceIs
<1>19. key # <<>>
  <2>1. Len(key) # 0
    BY <1>17, <1>18 DEF Piece
  <2> QED BY <2>1, EmptySeq
<1>20. "}" \notin ToSet(key)
  <2>1. Piece(key, p, m + 1, e - 1)
    BY <1>16, <1>18, Zenon
  <2> QED BY <1>6, <1>10, <1>12, <1>4, <2>1, KeyClean
<1>21. Written(part) = SubSeq(p, s, e)
  <2>1. p[s] = "$" /\ p[s + 1] = "{" /\ p[e] = "}"
    BY <1>4 DEF Opens, ClosesAt
  <2>2. Spells(p, s, m, e)
    BY <1>11, <2>1 DEF Spells
  <2>3. part.source = SubSeq(p, s + 2, m - 1) /\ part.key = SubSeq(p, m + 1, e - 1)
    BY <1>13, <1>14, <1>1 DEF Placeholder
  <2>4. part.source # <<>>
    BY <1>15, <1>1 DEF Placeholder
  <2>5. PlaceholderAt(C, p, n, s, m, e)
    BY <1>12, <1>4, <2>2 DEF PlaceholderAt
  <2>6. Joined(p, s, m, e) /\ MarksSpelt(p, s, m, e)
    BY <2>5, PlaceholderJoined, PlaceholderMarks
  <2>7. Written(part) = <<"$", "{">> \o part.source \o <<":">> \o part.key \o <<"}">>
    BY <2>4 DEF Written
  <2> QED BY <2>3, <2>6, <2>7, Zenon DEF Joined, MarksSpelt
<1>22. part \in PartsOver(C)
  <2>1. <<>> \in Seq(C)
    BY EmptySeq
  <2> QED BY <1>15, <1>18, <1>1, <2>1 DEF PartsOver, Placeholder
<1>23. part.source # <<>> /\ PartRead(part, sources)
  <2>1. part.source # <<>> /\ part.source = source /\ part.key = key
    BY <1>15, <1>1 DEF Placeholder
  <2> QED BY <1>19, <1>20, <1>3, <2>1 DEF PartRead
<1> QED BY <1>21, <1>22, <1>2, <1>23 DEF PartAt

NoneOpens(p, i, j) == \A k \in i..(j - 1) : ~Opens(p, k)

LEMMA InsideLiteral ==
  ASSUME NEW n \in Int, NEW i \in Int, NEW j \in Int, NEW k \in Int, j <= n, 1 <= k, k < j - i + 1
  PROVE  /\ i + k - 1 \in i..(j - 1) /\ k + 1 \in 1..(j - i + 1) /\ k \in 1..(j - i + 1)
         /\ i + (k + 1) - 1 = i + k - 1 + 1 /\ i + k - 1 < n
OBVIOUS

LEMMA LiteralClean ==
  ASSUME NEW p, NEW n \in Int, n = Len(p), NEW i \in Int, NEW j \in Int, j <= n,
         NEW q, Piece(q, p, i, j), NoneOpens(p, i, j)
  PROVE  \A k \in DOMAIN q : ~Opens(q, k)
<1>1. PICK a, b : a = "$" /\ b = "{"
  OBVIOUS
<1>2. \A t, k : Opens(t, k) <=> k < Len(t) /\ t[k] = a /\ t[k + 1] = b
  BY <1>1 DEF Opens
<1>3. /\ DOMAIN q = 1..(j - i + 1) /\ Len(q) = j - i + 1
      /\ \A k \in 1..(j - i + 1) : q[k] = p[i + k - 1]
  BY DEF Piece
<1>4. ASSUME NEW k \in DOMAIN q PROVE ~Opens(q, k)
  <2>1. k \in Int /\ 1 <= k
    BY <1>3
  <2> SUFFICES ASSUME k < j - i + 1, q[k] = a, q[k + 1] = b PROVE FALSE
    BY <1>2, <1>3
  <2>2. /\ i + k - 1 \in i..(j - 1) /\ k + 1 \in 1..(j - i + 1) /\ k \in 1..(j - i + 1)
        /\ i + (k + 1) - 1 = i + k - 1 + 1 /\ i + k - 1 < n
    BY <2>1, InsideLiteral
  <2>3. p[i + k - 1] = a
    BY <1>3, <2>2
  <2>4. p[i + k - 1 + 1] = b
    <3>1. PICK h, m : h = k + 1 /\ m = i + k - 1 + 1
      OBVIOUS
    <3>2. h \in 1..(j - i + 1) /\ i + h - 1 = m /\ q[h] = b
      BY <2>2, <3>1, Zenon
    <3>3. q[h] = p[i + h - 1]
      BY <1>3, <3>2, Zenon
    <3> QED BY <3>1, <3>2, <3>3, Zenon
  <2>5. Opens(p, i + k - 1)
    BY <1>2, <2>2, <2>3, <2>4
  <2> QED BY <2>2, <2>5 DEF NoneOpens
<1> QED BY <1>4

(* Text without a placeholder.                                              *)
LEMMA LiteralRead ==
  ASSUME NEW C, NEW p \in Seq(C), NEW n \in Nat, n = Len(p), NEW sources,
         NEW i, i \in 1..n, NEW j, j \in i..n, NoneOpens(p, i, j)
  PROVE  /\ PartAt(C, p, sources, i, j, Literal(SubSeq(p, i, j)))
         /\ Literal(SubSeq(p, i, j)).source = <<>>
<1>1. PICK part : part = Literal(SubSeq(p, i, j))
  OBVIOUS
<1>2. PICK q : q = SubSeq(p, i, j)
  OBVIOUS
<1>3. i \in 1..(n + 1) /\ j \in (i - 1)..n /\ i \in Int /\ j \in Int /\ n \in Int /\ j <= n
  OBVIOUS
<1>4. q \in Seq(C) /\ Piece(q, p, i, j)
  BY <1>2, <1>3, PieceIs
<1>5. Len(q) # 0
  BY <1>4 DEF Piece
<1>6. q # <<>>
  BY <1>5, EmptySeq
<1>7. \A k \in DOMAIN q : ~Opens(q, k)
  BY <1>3, <1>4, LiteralClean
<1>8. part.literal = q /\ part.source = <<>>
  BY <1>2, <1>1 DEF Literal
<1>9. part \in PartsOver(C)
  <2>1. <<>> \in Seq(C)
    BY EmptySeq
  <2> QED BY <1>2, <1>4, <1>1, <2>1 DEF PartsOver, Literal
<1>10. Written(part) = q /\ PartRead(part, sources)
  BY <1>6, <1>7, <1>8 DEF Written, PartRead
<1> QED BY <1>2, <1>8, <1>9, <1>10, <1>1 DEF PartAt

(* A step of the loop: what it puts in front of a reading of the rest is    *)
(* one of the pattern from i.                                               *)
LEMMA LastStep ==
  ASSUME NEW C, NEW p \in Seq(C), NEW n \in Nat, n = Len(p), NEW sources,
         NEW i, i \in 1..n, Opening(p, i) = 0
  PROVE  Reads(p, i, C, sources, <<Literal(SubSeq(p, i, n))>>)
<1>1. NoneOpens(p, i, n)
  <2>1. i \in Nat \ {0}
    OBVIOUS
  <2>2. \A j \in i..n : ~Opens(p, j)
    BY <2>1, OpeningPosition
  <2> QED BY <2>2 DEF NoneOpens
<1>2. PICK j, k, nothing, part :
        j = n /\ k = j + 1 /\ nothing = <<>> /\ part = Literal(SubSeq(p, i, j))
  OBVIOUS
<1>3. j \in i..n /\ j \in (i - 1)..n /\ k = n + 1 /\ i \in 1..(n + 1)
  BY <1>2
<1>4. NoneOpens(p, i, j)
  BY <1>1, <1>2
<1>5. PartAt(C, p, sources, i, j, part) /\ part.source = <<>>
  BY <1>2, <1>3, <1>4, LiteralRead
<1>6. Reads(p, k, C, sources, nothing)
  <2>1. Reads(p, n + 1, C, sources, <<>>)
    BY ReadsNothing
  <2> QED BY <1>2, <1>3, <2>1, Zenon
<1>7. Reads(p, i, C, sources, <<part>> \o nothing)
  BY <1>2, <1>3, <1>5, <1>6, ReadsMore
<1>8. <<part>> \o nothing = <<part>>
  <2>1. PICK x : x = <<part>>
    OBVIOUS
  <2>2. x \in Seq({part})
    BY <2>1
  <2>3. x \o <<>> = x
    BY <2>2, ConcatEmptySeq
  <2> QED BY <1>2, <2>1, <2>3
<1> QED BY <1>2, <1>7, <1>8

LEMMA PlaceholderStep ==
  ASSUME NEW C, NEW p \in Seq(C), NEW n \in Nat, n = Len(p), NEW sources,
         NEW i, i \in 1..n, NEW s, s = Opening(p, i), s # 0, NEW e, e = Closing(p, i), e # 0,
         NEW k, k = e + 1, NEW parts, Reads(p, k, C, sources, parts),
         NEW part, PartAt(C, p, sources, s, e, part), part.source # <<>>
  PROVE  Reads(p, i, C, sources, TextBefore(p, i, s) \o <<part>> \o parts)
<1>1. i \in Nat \ {0}
  OBVIOUS
<1>2. s \in i..n /\ \A j \in i..n : Opens(p, j) => s <= j
  BY <1>1, OpeningPosition
<1>3. e \in (s + 2)..n
  BY <1>1, ClosingPosition
<1>4. PICK P : P = PartsOver(C)
  OBVIOUS
<1>5. parts \in Seq(P) /\ part \in P
  BY <1>4 DEF Reads, PartAt
<1>6. PICK a, whole : a = <<part>> /\ whole = a \o parts
  OBVIOUS
<1>7. a \in Seq(P)
  BY <1>5, <1>6
<1>8. Reads(p, s, C, sources, whole)
  <2>1. s \in 1..(n + 1) /\ e \in (s - 1)..n
    BY <1>2, <1>3
  <2>2. Reads(p, s, C, sources, <<part>> \o parts)
    BY <2>1, ReadsMore
  <2> QED BY <1>6, <2>2
<1>9. whole \in Seq(P) /\ whole[1] = part
  <2>1. PICK l : l = Len(parts)
    OBVIOUS
  <2>2. l \in Nat
    BY <1>5, <2>1, LenProperties
  <2>3. whole = <<part>> \o parts
    BY <1>6
  <2> QED BY <1>5, <2>1, <2>2, <2>3, InFront
<1>10. CASE s > i
  <2>1. PICK j : j = s - 1
    OBVIOUS
  <2>2. j \in i..n /\ s = j + 1 /\ i \in 1..(n + 1) /\ j \in (i - 1)..n
    BY <1>2, <1>10, <2>1
  <2>3. NoneOpens(p, i, j)
    <3>1. \A h \in i..(j - 1) : h \in i..n /\ ~(s <= h)
      BY <1>2, <2>1
    <3> QED BY <1>2, <3>1 DEF NoneOpens
  <2>4. PICK lit : lit = Literal(SubSeq(p, i, j))
    OBVIOUS
  <2>5. PartAt(C, p, sources, i, j, lit)
    BY <2>2, <2>3, <2>4, LiteralRead
  <2>6. whole[1].source # <<>>
    BY <1>9
  <2>7. Reads(p, i, C, sources, <<lit>> \o whole)
    BY <1>8, <2>2, <2>5, <2>6, ReadsMore
  <2>8. TextBefore(p, i, s) = <<lit>>
    BY <1>10, <2>1, <2>4 DEF TextBefore
  <2>9. PICK b : b = <<lit>>
    OBVIOUS
  <2>10. b \in Seq(P)
    BY <1>4, <2>5, <2>9 DEF PartAt
  <2>11. (b \o a) \o parts = b \o whole
    <3>1. a \in Seq(P) /\ parts \in Seq(P)
      BY <1>5, <1>6, <1>7
    <3>2. Regroups(b, a, parts)
      BY <2>10, <3>1, Regrouped
    <3> QED BY <1>6, <3>2, Zenon DEF Regroups
  <2> QED BY <1>6, <2>7, <2>8, <2>9, <2>11, Zenon
<1>11. CASE ~(s > i)
  <2>1. s = i
    BY <1>2, <1>11
  <2>2. TextBefore(p, i, s) = <<>>
    BY <1>11 DEF TextBefore
  <2>3. <<>> \o a = a
    BY <1>7, ConcatEmptySeq
  <2> QED BY <1>6, <1>8, <2>1, <2>2, <2>3, Zenon
<1> QED BY <1>10, <1>11

Read(p, sources, i, rest, parts) ==
  /\ Closing(p, i) # 0 /\ Accepted(p, sources, Opening(p, i), Closing(p, i)) /\ rest.ok
  /\ parts = TextBefore(p, i, Opening(p, i)) \o <<PartBetween(p, Opening(p, i), Closing(p, i))>>
               \o rest.parts

LEMMA ParseFromPlaceholder ==
  ASSUME NEW p, NEW sources, NEW n \in Nat, n = Len(p), NEW i, i \in 1..n, NEW rest,
         Opening(p, i) # 0, ParseFrom(p, sources, i, rest).ok
  PROVE  Read(p, sources, i, rest, ParseFrom(p, sources, i, rest).parts)
<1>1. PICK s, e, raw, c, source, part, res, taken, l :
        /\ s = Opening(p, i) /\ e = Closing(p, i) /\ raw = SubSeq(p, s + 2, e - 1)
        /\ l = Len(raw) /\ c = Colon(raw) /\ source = SubSeq(raw, 1, c - 1)
        /\ part = Placeholder(source, SubSeq(raw, c + 1, l))
        /\ res = ParseFrom(p, sources, i, rest)
        /\ taken = TextBefore(p, i, s) \o <<part>> \o rest.parts
  OBVIOUS
<1>2. ~(i > n) /\ i <= n /\ s # 0
  BY <1>1
<1>3. res = IF e = 0 \/ c \in {0, 1, l} \/ source \notin sources \/ ~rest.ok
              THEN Invalid
              ELSE Parsed(taken)
  BY <1>1, <1>2, Zenon DEF ParseFrom
<1>4. Invalid.ok = FALSE /\ Parsed(taken).parts = taken
  BY DEF Invalid, Parsed
<1>5. res.ok
  BY <1>1
<1>6. e # 0 /\ c \notin {0, 1, l} /\ source \in sources /\ rest.ok /\ res.parts = taken
  BY <1>3, <1>4, <1>5
<1>7. raw = RawBetween(p, s, e) /\ source = SourceBetween(p, s, e) /\ part = PartBetween(p, s, e)
  BY <1>1, Zenon DEF RawBetween, SourceBetween, PartBetween
<1>8. Accepted(p, sources, s, e)
  BY <1>1, <1>6, <1>7 DEF Accepted
<1> QED BY <1>1, <1>6, <1>7, <1>8, Zenon DEF Read

LEMMA ParseStep ==
  ASSUME NEW C, NEW p \in Seq(C), NEW n \in Nat, n = Len(p), NEW sources,
         NEW i, i \in 1..(n + 1), NEW rest,
         ~Done(p, i) /\ rest.ok => Reads(p, Closing(p, i) + 1, C, sources, rest.parts),
         ParseFrom(p, sources, i, rest).ok
  PROVE  Reads(p, i, C, sources, ParseFrom(p, sources, i, rest).parts)
<1>1. CASE i > n
  <2>1. i = n + 1
    BY <1>1
  <2>2. ParseFrom(p, sources, i, rest) = Parsed(<<>>)
    BY <1>1 DEF ParseFrom
  <2>3. ParseFrom(p, sources, i, rest).parts = <<>>
    BY <2>2 DEF Parsed
  <2>4. Reads(p, n + 1, C, sources, <<>>)
    BY ReadsNothing
  <2> QED BY <2>1, <2>3, <2>4, Zenon
<1>2. CASE i <= n /\ Opening(p, i) = 0
  <2>1. PICK x : x = <<Literal(SubSeq(p, i, n))>>
    OBVIOUS
  <2>2. i \in 1..n /\ ~(i > n)
    BY <1>2
  <2>3. ParseFrom(p, sources, i, rest) = Parsed(x)
    BY <1>2, <2>1, <2>2 DEF ParseFrom
  <2>4. Reads(p, i, C, sources, x)
    BY <1>2, <2>1, <2>2, LastStep
  <2>5. Parsed(x).parts = x
    BY DEF Parsed
  <2> QED BY <2>3, <2>4, <2>5, Zenon
<1>3. CASE i <= n /\ Opening(p, i) # 0
  <2>1. PICK s, e, k, part :
          s = Opening(p, i) /\ e = Closing(p, i) /\ k = e + 1 /\ part = PartBetween(p, s, e)
    OBVIOUS
  <2>2. i \in 1..n /\ i \in Nat \ {0} /\ s # 0 /\ ~(i > n)
    BY <1>3, <2>1
  <2>3. /\ e # 0 /\ Accepted(p, sources, s, e) /\ rest.ok
        /\ ParseFrom(p, sources, i, rest).parts = TextBefore(p, i, s) \o <<part>> \o rest.parts
    <3>1. Read(p, sources, i, rest, ParseFrom(p, sources, i, rest).parts)
      BY <1>3, <2>2, ParseFromPlaceholder
    <3> QED BY <2>1, <3>1, Zenon DEF Read
  <2>4. s \in i..n /\ Opens(p, s)
    BY <2>1, <2>2, OpeningPosition
  <2>5. e \in (s + 2)..n /\ ClosesAt(p, s, e, n)
    BY <2>1, <2>2, <2>3, ClosingPosition DEF ClosesAt
  <2>6. Braces(p, n, s, e)
    BY <2>2, <2>4, <2>5 DEF Braces
  <2>7. ~Done(p, i)
    BY <2>1, <2>2, <2>3 DEF Done
  <2>8. Reads(p, k, C, sources, rest.parts)
    BY <2>1, <2>3, <2>7, Zenon
  <2>9. PartAt(C, p, sources, s, e, part) /\ part.source # <<>>
    BY <2>1, <2>3, <2>6, PlaceholderRead
  <2>10. PICK parts : parts = rest.parts
    OBVIOUS
  <2>11. Reads(p, i, C, sources, TextBefore(p, i, s) \o <<part>> \o parts)
    BY <2>1, <2>2, <2>3, <2>8, <2>9, <2>10, PlaceholderStep
  <2> QED BY <2>3, <2>10, <2>11, Zenon
<1> QED BY <1>1, <1>2, <1>3

ReadFrom(p, C, sources, f, n, m) ==
  \A i \in 1..(n + 1) :
    i >= n + 1 - m /\ f[i].ok => Reads(p, i, C, sources, f[i].parts)

LEMMA ReadsAgain ==
  ASSUME NEW C, NEW p \in Seq(C), NEW n \in Nat, n = Len(p), NEW sources, NEW f,
         Unrolls(p, sources, f), NEW m \in Nat, NEW l, ReadFrom(p, C, sources, f, n, l),
         l = m - 1 \/ m = 0
  PROVE  ReadFrom(p, C, sources, f, n, m)
<1> SUFFICES ASSUME NEW i \in 1..(n + 1), i >= n + 1 - m, f[i].ok
             PROVE  Reads(p, i, C, sources, f[i].parts)
  BY DEF ReadFrom
<1>1. PICK k, rest : k = Closing(p, i) + 1 /\ rest = f[k]
  OBVIOUS
<1>2. f[i] = ParseFrom(p, sources, i, rest)
  BY <1>1 DEF Unrolls
<1>3. ASSUME ~Done(p, i), rest.ok PROVE Reads(p, k, C, sources, rest.parts)
  <2>1. PICK s, e : s = Opening(p, i) /\ e = Closing(p, i)
    OBVIOUS
  <2>2. s # 0 /\ e # 0 /\ i \in Nat \ {0}
    BY <1>3, <2>1 DEF Done
  <2>3. s \in i..n
    BY <2>1, <2>2, OpeningPosition
  <2>4. e \in (s + 2)..n
    BY <2>1, <2>2, ClosingPosition
  <2>5. k \in 1..(n + 1) /\ k >= n + 1 - l
    BY <1>1, <2>1, <2>3, <2>4
  <2> QED BY <1>1, <1>3, <2>5 DEF ReadFrom
<1>4. i \in 1..(n + 1)
  OBVIOUS
<1>5. Reads(p, i, C, sources, ParseFrom(p, sources, i, rest).parts)
  BY <1>1, <1>2, <1>3, <1>4, ParseStep
<1> QED BY <1>2, <1>5

LEMMA ParseReads ==
  ASSUME NEW C, NEW p \in Seq(C), NEW sources, Parse(p, sources).ok
  PROVE  Reads(p, 1, C, sources, Parse(p, sources).parts)
<1>1. PICK n : n = Len(p)
  OBVIOUS
<1>2. n \in Nat
  BY <1>1
<1>3. PICK f : Unrolls(p, sources, f) /\ Parse(p, sources) = f[1]
  BY <1>1, <1>2, ParseUnrolls
<1> DEFINE T == {m \in Nat : ReadFrom(p, C, sources, f, n, m)}
<1>4. 0 \in T
  <2>1. PICK l : l = -1
    OBVIOUS
  <2>2. ReadFrom(p, C, sources, f, n, l)
    <3>1. \A i \in 1..(n + 1) : ~(i >= n + 1 - l)
      BY <1>2, <2>1
    <3> QED BY <3>1 DEF ReadFrom
  <2> QED BY <1>1, <1>2, <1>3, <2>2, ReadsAgain
<1>5. ASSUME NEW m \in Nat, m \in T PROVE m + 1 \in T
  <2>1. PICK k : k = m + 1
    OBVIOUS
  <2>2. k \in Nat /\ m = k - 1
    BY <2>1
  <2>3. ReadFrom(p, C, sources, f, n, k)
    BY <1>1, <1>2, <1>3, <1>5, <2>2, ReadsAgain
  <2> QED BY <2>1, <2>2, <2>3
<1>6. n \in T
  <2> HIDE DEF T
  <2> QED BY <1>2, <1>4, <1>5, NatSetInduction
<1>7. 1 \in 1..(n + 1) /\ 1 >= n + 1 - n
  BY <1>2
<1> QED BY <1>3, <1>6, <1>7 DEF ReadFrom

(* Whatever the characters and the length of an accepted pattern, its       *)
(* parts, written out, are the pattern, and they are the only reading: no   *)
(* literal is empty, next to another one or holds a placeholder, every      *)
(* source is known and no key holds a brace.                                *)
THEOREM PatternsRead == AlgorithmsSpec => []ParseReadsPattern
<1>1. InputType => ParseReadsPattern
  <2> SUFFICES ASSUME InputType, input.of = "template", Parse(input.pattern, Sources).ok
               PROVE  LET parts == Parse(input.pattern, Sources).parts IN
                      /\ FlattenSeq([i \in DOMAIN parts |-> Written(parts[i])]) = input.pattern
                      /\ \A i \in DOMAIN parts :
                           IF parts[i].source = <<>>
                             THEN /\ parts[i].literal # <<>>
                                  /\ \A j \in DOMAIN parts[i].literal : ~Opens(parts[i].literal, j)
                                  /\ i > 1 => parts[i - 1].source # <<>>
                             ELSE /\ parts[i].source \in Sources /\ parts[i].key # <<>>
                                  /\ "}" \notin ToSet(parts[i].key)
    BY DEF ParseReadsPattern
  <2>1. PICK p, parts : p = input.pattern /\ parts = Parse(p, Sources).parts
    OBVIOUS
  <2>2. p \in Seq(Chars)
    BY <2>1 DEF InputType
  <2>3. Reads(p, 1, Chars, Sources, parts)
    BY <2>1, <2>2, ParseReads
  <2>4. FlattenSeq(Texts(parts)) = p
    BY <2>2, <2>3, SubSeqFull DEF Reads
  <2>5. PartsRead(parts, Sources)
    BY <2>3 DEF Reads
  <2> QED BY <2>1, <2>4, <2>5 DEF Texts, PartsRead, PartRead
<1> QED BY AlgorithmsInputs, <1>1, PTL
==============================================================================
