------------------------- MODULE ReplicationProofs -------------------------
(***************************************************************************)
(* What Replication promises, proved for any finite set of peers, any      *)
(* entities, attributes, values and workloads.                             *)
(***************************************************************************)
EXTENDS Replication, FunctionTheorems, FiniteSetTheorems, SequenceTheorems,
        WellFoundedInduction, TLAPS

-----------------------------------------------------------------------------
(* Kept: the rows of a sequence that are in a set, in their order.         *)

Places(s, X) == {i \in DOMAIN s : s[i] \in X}

Rank(I) == [i \in I |-> Cardinality({j \in I : j <= i})]

Enumerated(s, I) ==
    [k \in 1..Cardinality(I) |-> s[CHOOSE i \in I : Cardinality({j \in I : j <= i}) = k]]

LEMMA KeptIsEnumerated ==
    ASSUME NEW s, NEW X
    PROVE  Kept(s, X) = Enumerated(s, Places(s, X))
BY DEF Kept, Enumerated, Places

(* Counting the members up to each one numbers a finite set of numbers. *)
LEMMA RankNumbers ==
    ASSUME NEW I \in SUBSET Nat, IsFiniteSet(I)
    PROVE  /\ Cardinality(I) \in Nat
           /\ Rank(I) \in [I -> 1..Cardinality(I)]
           /\ \A i, j \in I : Rank(I)[i] = Rank(I)[j] => i = j
           /\ \A k \in 1..Cardinality(I) : \E i \in I : Rank(I)[i] = k
<1> DEFINE upTo(i) == {j \in I : j <= i}
<1>1. Cardinality(I) \in Nat
    BY FS_CardinalityType
<1>2. ASSUME NEW i \in I
      PROVE  IsFiniteSet(upTo(i)) /\ Cardinality(upTo(i)) \in 1..Cardinality(I)
    <2>1. upTo(i) \in SUBSET I /\ i \in upTo(i)
        OBVIOUS
    <2>2. IsFiniteSet(upTo(i)) /\ Cardinality(upTo(i)) <= Cardinality(I)
        BY <2>1, FS_Subset
    <2>3. Cardinality(upTo(i)) \in Nat
        BY <2>2, FS_CardinalityType
    <2>4. Cardinality(upTo(i)) # 0
        BY <2>1, <2>2, FS_EmptySet
    <2> QED
        BY <1>1, <2>2, <2>3, <2>4
<1>3. Rank(I) \in [I -> 1..Cardinality(I)]
    BY <1>2 DEF Rank
<1>4. ASSUME NEW i \in I, NEW j \in I, Rank(I)[i] = Rank(I)[j], i < j
      PROVE  FALSE
    <2>0. \A k \in I : k <= i => k <= j
        <3>1. i \in Nat /\ j \in Nat /\ \A k \in I : k \in Nat
            OBVIOUS
        <3> QED
            BY <3>1, <1>4
    <2>1. upTo(i) \in SUBSET upTo(j)
        BY <2>0
    <2>2. Cardinality(upTo(j)) = Cardinality(upTo(i))
        BY <1>4 DEF Rank
    <2>3. upTo(j) = upTo(i)
        BY <2>1, <2>2, <1>2, FS_Subset
    <2> QED
        BY <2>3, <1>4
<1>5. \A i, j \in I : Rank(I)[i] = Rank(I)[j] => i = j
    BY <1>4
<1>6. Rank(I) \in Injection(I, 1..Cardinality(I))
    BY <1>3, <1>5, Fun_IsInj
<1>7. IsFiniteSet(1..Cardinality(I)) /\ Cardinality(1..Cardinality(I)) = Cardinality(I)
    BY <1>1, FS_Interval
<1>8. Rank(I) \in Surjection(I, 1..Cardinality(I))
    BY <1>6, <1>7, FS_Injection
<1> QED
    BY <1>1, <1>3, <1>5, <1>8 DEF Surjection

LEMMA KeptEnumerates ==
    ASSUME NEW S, NEW s \in Seq(S), NEW X
    PROVE  /\ Cardinality(Places(s, X)) \in Nat
           /\ \E at \in [1..Cardinality(Places(s, X)) -> Places(s, X)] :
                /\ Kept(s, X) = [k \in 1..Cardinality(Places(s, X)) |-> s[at[k]]]
                /\ \A k, l \in 1..Cardinality(Places(s, X)) : at[k] = at[l] => k = l
                /\ \A i \in Places(s, X) : \E k \in 1..Cardinality(Places(s, X)) : at[k] = i
<1> DEFINE I == Places(s, X)
           n == Cardinality(I)
           at == [k \in 1..n |-> CHOOSE i \in I : Cardinality({j \in I : j <= i}) = k]
<1>1. DOMAIN s = 1..Len(s) /\ Len(s) \in Nat
    BY LenProperties
<1>2. I \in SUBSET Nat /\ \A i \in I : i <= Len(s)
    BY <1>1 DEF Places
<1>3. IsFiniteSet(I)
    BY <1>1, <1>2, FS_BoundedSetOfNaturals
<1>4. /\ n \in Nat
      /\ Rank(I) \in [I -> 1..n]
      /\ \A i, j \in I : Rank(I)[i] = Rank(I)[j] => i = j
      /\ \A k \in 1..n : \E i \in I : Rank(I)[i] = k
    <2> HIDE DEF I
    <2> QED BY <1>2, <1>3, RankNumbers
<1>5. \A k \in 1..n : at[k] \in I /\ Rank(I)[at[k]] = k
    <2> HIDE DEF I
    <2>1. \A i \in I : Rank(I)[i] = Cardinality({j \in I : j <= i})
        BY DEF Rank
    <2> QED BY <1>4, <2>1
<1>6. Kept(s, X) = [k \in 1..n |-> s[at[k]]]
    BY DEF Kept, Places
<1>7. \A i \in I : Rank(I)[i] \in 1..n /\ at[Rank(I)[i]] = i
    <2> HIDE DEF I, at
    <2> QED BY <1>4, <1>5
<1>8. at \in [1..n -> I]
    BY <1>5
<1> HIDE DEF at
<1>9. \A k, l \in 1..n : at[k] = at[l] => k = l
    BY <1>5
<1> QED
    BY <1>4, <1>6, <1>7, <1>8, <1>9

(* No two rows of a sequence of facts are in one cell. *)
OnePerCell(facts) ==
    \A i, j \in DOMAIN facts : SameCell(facts[i], facts[j]) => i = j

LEMMA ToSetSeq ==
    ASSUME NEW S, NEW s \in Seq(S)
    PROVE  /\ ToSet(s) = {s[i] : i \in DOMAIN s}
           /\ ToSet(s) \subseteq S
           /\ DOMAIN s = 1..Len(s) /\ Len(s) \in Nat
           /\ \A i \in DOMAIN s : s[i] \in S
<1>1. DOMAIN s = 1..Len(s) /\ Len(s) \in Nat
    BY LenProperties
<1>2. \A i \in DOMAIN s : s[i] \in S
    BY <1>1, ElementOfSeq
<1> QED
    BY <1>1, <1>2 DEF ToSet

LEMMA ToSetConcat ==
    ASSUME NEW S, NEW s \in Seq(S), NEW t \in Seq(S)
    PROVE  ToSet(s \o t) = ToSet(s) \cup ToSet(t)
<1>1. /\ s \o t \in Seq(S)
      /\ Len(s \o t) = Len(s) + Len(t)
      /\ \A i \in 1..(Len(s) + Len(t)) :
            (s \o t)[i] = IF i <= Len(s) THEN s[i] ELSE t[i - Len(s)]
    BY ConcatProperties
<1>2. /\ DOMAIN s = 1..Len(s) /\ Len(s) \in Nat
      /\ DOMAIN t = 1..Len(t) /\ Len(t) \in Nat
      /\ DOMAIN (s \o t) = 1..(Len(s) + Len(t))
    BY <1>1, LenProperties
<1>3. ASSUME NEW x \in ToSet(s \o t) PROVE x \in ToSet(s) \cup ToSet(t)
    <2>1. PICK i \in 1..(Len(s) + Len(t)) : (s \o t)[i] = x
        BY <1>2 DEF ToSet
    <2>2. CASE i <= Len(s)
        <3>1. i \in DOMAIN s /\ s[i] = x
            BY <1>1, <1>2, <2>1, <2>2
        <3> QED BY <3>1 DEF ToSet
    <2>3. CASE ~(i <= Len(s))
        <3>1. i - Len(s) \in DOMAIN t /\ t[i - Len(s)] = x
            BY <1>1, <1>2, <2>1, <2>3
        <3> QED BY <3>1 DEF ToSet
    <2> QED BY <2>2, <2>3
<1>4. ASSUME NEW x \in ToSet(s) PROVE x \in ToSet(s \o t)
    <2>1. PICK i \in 1..Len(s) : s[i] = x
        BY <1>2 DEF ToSet
    <2>2. i \in DOMAIN (s \o t) /\ (s \o t)[i] = x
        BY <1>1, <1>2, <2>1
    <2> QED BY <2>2 DEF ToSet
<1>5. ASSUME NEW x \in ToSet(t) PROVE x \in ToSet(s \o t)
    <2>1. PICK i \in 1..Len(t) : t[i] = x
        BY <1>2 DEF ToSet
    <2>2. Len(s) + i \in DOMAIN (s \o t) /\ (s \o t)[Len(s) + i] = x
        BY <1>1, <1>2, <2>1
    <2> QED BY <2>2 DEF ToSet
<1> QED BY <1>3, <1>4, <1>5

LEMMA KeptFacts ==
    ASSUME NEW S, NEW s \in Seq(S), NEW X
    PROVE  /\ Kept(s, X) \in Seq(S)
           /\ ToSet(Kept(s, X)) = ToSet(s) \cap X
<1> DEFINE n == Cardinality(Places(s, X))
<1>1. PICK at \in [1..n -> Places(s, X)] :
          /\ Kept(s, X) = [k \in 1..n |-> s[at[k]]]
          /\ \A i \in Places(s, X) : \E k \in 1..n : at[k] = i
    BY KeptEnumerates
<1>2. n \in Nat
    BY KeptEnumerates
<1> HIDE DEF n
<1>3. \A k \in 1..n : at[k] \in DOMAIN s /\ s[at[k]] \in X
    BY <1>1 DEF Places
<1>4. Kept(s, X) \in [1..n -> S]
    BY <1>1, <1>3, ToSetSeq
<1>5. Kept(s, X) \in Seq(S)
    BY <1>2, <1>4, SeqDef
<1>6. ASSUME NEW x \in ToSet(s) \cap X PROVE x \in ToSet(Kept(s, X))
    <2>1. PICK i \in DOMAIN s : s[i] = x
        BY DEF ToSet
    <2>2. i \in Places(s, X)
        BY <2>1 DEF Places
    <2>3. PICK k \in 1..n : at[k] = i
        BY <1>1, <2>2
    <2>4. k \in DOMAIN Kept(s, X) /\ Kept(s, X)[k] = x
        BY <1>1, <2>1, <2>3
    <2> QED
        BY <2>4 DEF ToSet
<1>7. ASSUME NEW x \in ToSet(Kept(s, X)) PROVE x \in ToSet(s) \cap X
    <2>1. PICK k \in DOMAIN Kept(s, X) : Kept(s, X)[k] = x
        BY DEF ToSet
    <2>2. k \in 1..n /\ x = s[at[k]]
        BY <1>1, <2>1
    <2> QED
        BY <1>3, <2>2 DEF ToSet
<1> QED
    BY <1>5, <1>6, <1>7

LEMMA KeptOnePerCell ==
    ASSUME NEW S, NEW s \in Seq(S), NEW X, OnePerCell(s)
    PROVE  OnePerCell(Kept(s, X))
<1> DEFINE n == Cardinality(Places(s, X))
<1>1. PICK at \in [1..n -> Places(s, X)] :
          /\ Kept(s, X) = [k \in 1..n |-> s[at[k]]]
          /\ \A k, l \in 1..n : at[k] = at[l] => k = l
    BY KeptEnumerates
<1> HIDE DEF n
<1>2. \A k \in 1..n : at[k] \in DOMAIN s /\ Kept(s, X)[k] = s[at[k]]
    BY <1>1 DEF Places
<1>3. DOMAIN Kept(s, X) = 1..n
    BY <1>1
<1> QED
    BY <1>1, <1>2, <1>3 DEF OnePerCell

LEMMA ConcatOnePerCell ==
    ASSUME NEW s \in Seq(Fact), NEW t \in Seq(Fact), OnePerCell(s), OnePerCell(t),
           \A f \in ToSet(s) : \A g \in ToSet(t) : ~SameCell(f, g)
    PROVE  OnePerCell(s \o t)
<1> DEFINE m == Len(s)
           n == Len(t)
<1>1. /\ m \in Nat /\ n \in Nat
      /\ DOMAIN s = 1..m /\ DOMAIN t = 1..n /\ DOMAIN (s \o t) = 1..(m + n)
      /\ \A i \in 1..(m + n) : (s \o t)[i] = IF i <= m THEN s[i] ELSE t[i - m]
    BY LenProperties, ConcatProperties
<1> HIDE DEF m, n
<1>2. SUFFICES ASSUME NEW i \in 1..(m + n), NEW j \in 1..(m + n),
                      SameCell((s \o t)[i], (s \o t)[j])
               PROVE  i = j
    BY <1>1 DEF OnePerCell
<1>3. CASE i <= m /\ j <= m
    BY <1>1, <1>2, <1>3 DEF OnePerCell
<1>4. CASE i > m /\ j > m
    <2>1. i - m \in 1..n /\ j - m \in 1..n /\ SameCell(t[i - m], t[j - m])
        BY <1>1, <1>2, <1>4
    <2>2. i - m = j - m
        BY <1>1, <2>1 DEF OnePerCell
    <2> QED
        BY <1>1, <2>2
<1>5. CASE i <= m /\ j > m
    <2>1. i \in 1..m /\ j - m \in 1..n /\ SameCell(s[i], t[j - m])
        BY <1>1, <1>2, <1>5
    <2> QED
        BY <1>1, <2>1 DEF ToSet
<1>6. CASE i > m /\ j <= m
    <2>1. j \in 1..m /\ i - m \in 1..n /\ SameCell(t[i - m], s[j])
        BY <1>1, <1>2, <1>6
    <2>2. SameCell(s[j], t[i - m])
        BY <2>1 DEF SameCell
    <2> QED
        BY <1>1, <2>1, <2>2 DEF ToSet
<1> QED
    BY <1>1, <1>3, <1>4, <1>5, <1>6

LEMMA KeptSame ==
    ASSUME NEW S, NEW s \in Seq(S), NEW X, NEW Y, ToSet(s) \cap X = ToSet(s) \cap Y
    PROVE  Kept(s, X) = Kept(s, Y)
<1>1. \A i \in DOMAIN s : s[i] \in ToSet(s)
    BY DEF ToSet
<1>2. Places(s, X) = Places(s, Y)
    BY <1>1 DEF Places
<1> QED
    BY <1>2, KeptIsEnumerated

LEMMA KeptAll ==
    ASSUME NEW S, NEW s \in Seq(S), NEW X, ToSet(s) \subseteq X
    PROVE  Kept(s, X) = s
<1> DEFINE n == Len(s)
           I == 1..n
<1>1. DOMAIN s = I /\ n \in Nat
    BY LenProperties
<1>2. Places(s, X) = I
    BY <1>1, ToSetSeq DEF Places
<1>3. \A i \in I : {j \in I : j <= i} = 1..i
    BY <1>1
<1>4. \A i \in I : Cardinality(1..i) = i
    BY <1>1, FS_Interval
<1>5. Cardinality(I) = n
    BY <1>1, FS_Interval
<1> DEFINE at(k) == CHOOSE i \in I : Cardinality({j \in I : j <= i}) = k
<1>6. \A k \in I : at(k) = k
    <2> TAKE k \in I
    <2>1. \A i \in I : Cardinality({j \in I : j <= i}) = i
        BY <1>3, <1>4
    <2> HIDE DEF I
    <2> QED
        BY <2>1
<1>7. Enumerated(s, I) = [k \in 1..Cardinality(I) |-> s[k]]
    <2>1. 1..Cardinality(I) = I
        BY <1>5
    <2>2. Enumerated(s, I) = [k \in 1..Cardinality(I) |-> s[at(k)]]
        BY DEF Enumerated
    <2> HIDE DEF I, at
    <2> QED
        BY <1>6, <2>1, <2>2
<1>8. Kept(s, X) = [k \in I |-> s[k]]
    <2>1. Kept(s, X) = Enumerated(s, I)
        <3> HIDE DEF I
        <3> QED BY <1>2, KeptIsEnumerated
    <2> QED BY <1>5, <1>7, <2>1
<1>9. s = [k \in I |-> s[k]]
    <2>1. s \in [1..n -> S]
        BY <1>1, SeqDef
    <2> QED
        BY <2>1
<1> QED
    BY <1>8, <1>9

-----------------------------------------------------------------------------
(* One transaction at one store.                                           *)

(* What a store holds besides its log. *)
Content == [live : Seq(Fact), names : SUBSET Name]

EventSet == [uuid : Peer \X Nat, kind : {"change", "excision"}, created : SUBSET Name,
             asserted : Seq(Fact), retracted : Seq(Fact), redacted : Nat]

(* The live facts that requests to retract and to assert remove. *)
Leaving(live, retracts, asserts) ==
    {f \in ToSet(live) \ ToSet(asserts) :
        \/ f \in ToSet(retracts)
        \/ \E g \in ToSet(asserts) : SameCell(f, g)}

LEMMA EffectIs ==
    ASSUME NEW c, NEW pre, NEW retracts, NEW asserts
    PROVE  Effect(c, pre, retracts, asserts) =
               [created |-> (pre \cup NamesIn(ToSet(asserts))) \ c.names,
                asserted |-> Kept(asserts, ToSet(asserts) \ ToSet(c.live)),
                retracted |-> Kept(c.live, Leaving(c.live, retracts, asserts))]
BY DEF Effect, Leaving

(* An effect and its members, as sets. *)
EffectOf(c, pre, retracts, asserts, eff) ==
    /\ eff.created \subseteq Name /\ eff.asserted \in Seq(Fact) /\ eff.retracted \in Seq(Fact)
    /\ OnePerCell(eff.asserted)
    /\ eff.created = (pre \cup NamesIn(ToSet(asserts))) \ c.names
    /\ ToSet(eff.asserted) = ToSet(asserts) \ ToSet(c.live)
    /\ ToSet(eff.retracted) = Leaving(c.live, retracts, asserts)

LEMMA EffectFacts ==
    ASSUME NEW c, c.live \in Seq(Fact), c.names \subseteq Name, NEW pre \in SUBSET Name,
           NEW retracts \in Seq(Fact), NEW asserts \in Seq(Fact), OnePerCell(asserts),
           NEW eff, eff = Effect(c, pre, retracts, asserts)
    PROVE  EffectOf(c, pre, retracts, asserts, eff)
<1> DEFINE fresh == ToSet(asserts) \ ToSet(c.live)
<1>1. /\ eff.created = (pre \cup NamesIn(ToSet(asserts))) \ c.names
      /\ eff.asserted = Kept(asserts, fresh)
      /\ eff.retracted = Kept(c.live, Leaving(c.live, retracts, asserts))
    BY EffectIs
<1>2. /\ Kept(asserts, fresh) \in Seq(Fact)
      /\ ToSet(Kept(asserts, fresh)) = ToSet(asserts) \cap fresh
    <2> HIDE DEF fresh
    <2> QED BY KeptFacts
<1>3. /\ eff.retracted \in Seq(Fact)
      /\ ToSet(eff.retracted) = ToSet(c.live) \cap Leaving(c.live, retracts, asserts)
    BY <1>1, KeptFacts
<1>4. OnePerCell(Kept(asserts, fresh))
    <2> HIDE DEF fresh
    <2> QED BY KeptOnePerCell
<1>5. NamesIn(ToSet(asserts)) \subseteq Name
    <2>1. ToSet(asserts) \subseteq Fact
        BY ToSetSeq
    <2> QED
        BY <2>1 DEF NamesIn, Fact, Name
<1>6. ToSet(eff.asserted) = fresh
    BY <1>1, <1>2
<1>7. Leaving(c.live, retracts, asserts) \subseteq ToSet(c.live)
    BY DEF Leaving
<1> QED
    BY <1>1, <1>2, <1>3, <1>4, <1>5, <1>6, <1>7 DEF EffectOf

(* The members of a sequence with one row per cell are in different cells. *)
LEMMA CellsDiffer ==
    ASSUME NEW facts, OnePerCell(facts),
           NEW f \in ToSet(facts), NEW g \in ToSet(facts), SameCell(f, g)
    PROVE  f = g
BY DEF OnePerCell, ToSet

Repeats(c, eff) == Effect(c, eff.created, eff.retracted, eff.asserted) = eff

(* Replaying what a transaction did on the state it did it on does the same:
   the change event is a fixpoint of the pipeline that wrote it. *)
LEMMA EffectReplays ==
    ASSUME NEW c, c.live \in Seq(Fact), c.names \subseteq Name, NEW pre \in SUBSET Name,
           NEW retracts \in Seq(Fact), NEW asserts \in Seq(Fact), OnePerCell(asserts),
           NEW eff, eff = Effect(c, pre, retracts, asserts)
    PROVE  Repeats(c, eff)
<1> DEFINE leaving == Leaving(c.live, retracts, asserts)
           again == Leaving(c.live, eff.retracted, eff.asserted)
           fresh == ToSet(eff.asserted) \ ToSet(c.live)
<1>1. /\ eff.created = (pre \cup NamesIn(ToSet(asserts))) \ c.names
      /\ ToSet(eff.asserted) = ToSet(asserts) \ ToSet(c.live)
      /\ ToSet(eff.retracted) = leaving
      /\ eff.asserted \in Seq(Fact)
    <2>1. EffectOf(c, pre, retracts, asserts, eff)
        BY EffectFacts
    <2> QED
        BY <2>1 DEF EffectOf
<1>2. /\ eff = [created |-> eff.created, asserted |-> eff.asserted, retracted |-> eff.retracted]
      /\ eff.retracted = Kept(c.live, leaving)
    BY EffectIs
<1>3. Effect(c, eff.created, eff.retracted, eff.asserted) =
          [created |-> (eff.created \cup NamesIn(ToSet(eff.asserted))) \ c.names,
           asserted |-> Kept(eff.asserted, fresh),
           retracted |-> Kept(c.live, again)]
    BY EffectIs
<1>4. (eff.created \cup NamesIn(ToSet(eff.asserted))) \ c.names = eff.created
    BY <1>1 DEF NamesIn
<1>5. Kept(eff.asserted, fresh) = eff.asserted
    <2>1. ToSet(eff.asserted) \subseteq fresh
        BY <1>1
    <2> HIDE DEF fresh
    <2> QED
        BY <1>1, <2>1, KeptAll
<1>6. again = leaving
    <2>1. ASSUME NEW f \in again PROVE f \in leaving
        <3>1. CASE f \in ToSet(eff.retracted)
            BY <3>1, <1>1
        <3>2. ASSUME NEW g \in ToSet(eff.asserted), SameCell(f, g) PROVE f \in leaving
            <4>1. g \in ToSet(asserts) /\ g \notin ToSet(c.live) /\ f \in ToSet(c.live)
                BY <1>1 DEF Leaving
            <4>2. f \notin ToSet(asserts)
                BY <4>1, <3>2, CellsDiffer
            <4> QED
                BY <4>1, <4>2, <3>2 DEF Leaving
        <3> QED
            BY <3>1, <3>2 DEF Leaving
    <2>2. leaving \subseteq again
        BY <1>1 DEF Leaving
    <2> QED
        BY <2>1, <2>2
<1> QED
    BY <1>2, <1>3, <1>4, <1>5, <1>6 DEF Repeats

-----------------------------------------------------------------------------
(* What every store satisfies by itself, and so does every import's copy.  *)

(* The events that assert, and that retract, a fact. *)
AssertedBy(s, f) ==
    {s.log[i].uuid : i \in {k \in DOMAIN s.log : f \in ToSet(s.log[k].asserted)}}
RetractedBy(s, f) ==
    {s.log[i].uuid : i \in {k \in DOMAIN s.log : f \in ToSet(s.log[k].retracted)}}

CreatedIn(s) == UNION {s.log[i].created : i \in DOMAIN s.log}

Once(live, f) == IF f \in ToSet(live) THEN 1 ELSE 0

(* Without excisions the state is a function of the set of events: a name is
   registered when an event created it, and a fact is live when one more
   event asserted than retracted it. *)
Balanced(s) ==
    Excisions(s) = {} =>
        /\ s.names = CreatedIn(s)
        /\ \A f \in Fact :
              /\ IsFiniteSet(AssertedBy(s, f)) /\ IsFiniteSet(RetractedBy(s, f))
              /\ Cardinality(AssertedBy(s, f))
                    = Cardinality(RetractedBy(s, f)) + Once(s.live, f)

(* The states a store went through, up to its first excision: each event is
   one that replays on the state before it. *)
After(c, e) ==
    [live |-> Kept(c.live, ToSet(c.live) \ ToSet(e.retracted)) \o e.asserted,
     names |-> c.names \cup e.created]

StepsTo(c, e, d) == d = After(c, e) /\ Reproduces(e, Replayed(c, e))

ChangesUpTo(s, n) == \A j \in 1..n : s.log[j].kind = "change"

IsTrace(tr, s) ==
    /\ tr[0] = [live |-> <<>>, names |-> {}]
    /\ \A i \in 1..Len(s.log) : ChangesUpTo(s, i) => StepsTo(tr[i - 1], s.log[i], tr[i])
    /\ Excisions(s) = {} => tr[Len(s.log)] = [live |-> s.live, names |-> s.names]

Traced(s) == \E tr \in [0..Len(s.log) -> Content] : IsTrace(tr, s)

StoreSet == [log : Seq(EventSet), live : Seq(Fact), names : SUBSET Name]

OneUuidEach(s) ==
    \A i, j \in DOMAIN s.log : s.log[i].uuid = s.log[j].uuid => i = j

WellFormed(s) ==
    /\ s \in StoreSet
    /\ OnePerCell(s.live) /\ NamesIn(ToSet(s.live)) \subseteq s.names
    /\ OneUuidEach(s)
    /\ \A i \in DOMAIN s.log : s.log[i].redacted <= Len(s.log)
    /\ Balanced(s)
    /\ Traced(s)

LEMMA Appended ==
    ASSUME NEW S, NEW s \in Seq(S), NEW r \in S
    PROVE  /\ Append(s, r) \in Seq(S)
           /\ Len(Append(s, r)) = Len(s) + 1 /\ Len(s) \in Nat
           /\ DOMAIN s = 1..Len(s)
           /\ DOMAIN Append(s, r) = 1..(Len(s) + 1)
           /\ \A i \in 1..Len(s) : Append(s, r)[i] = s[i]
           /\ Append(s, r)[Len(s) + 1] = r
<1>1. /\ Append(s, r) \in Seq(S)
      /\ Len(Append(s, r)) = Len(s) + 1
      /\ \A i \in 1..Len(s) : Append(s, r)[i] = s[i]
      /\ Append(s, r)[Len(s) + 1] = r
    BY AppendProperties
<1> QED
    BY <1>1, LenProperties

(* What Transacted does, piece by piece. *)
TransactedAs(s, uuid, eff, t) ==
    /\ t \in StoreSet
    /\ Change(uuid, eff.created, eff.asserted, eff.retracted) \in EventSet
    /\ t.log = Append(s.log, Change(uuid, eff.created, eff.asserted, eff.retracted))
    /\ t.live = After(s, eff).live
    /\ t.names = After(s, eff).names

LEMMA TransactedFacts ==
    ASSUME NEW s \in StoreSet, NEW pre \in SUBSET Name,
           NEW retracts \in Seq(Fact), NEW asserts \in Seq(Fact), OnePerCell(asserts),
           NEW eff, eff = Effect(s, pre, retracts, asserts), NEW uuid \in Peer \X Nat,
           NEW t, t = Transacted(s, uuid, eff)
    PROVE  TransactedAs(s, uuid, eff, t)
<1>1. s.log \in Seq(EventSet) /\ s.live \in Seq(Fact) /\ s.names \in SUBSET Name
    BY DEF StoreSet
<1>2. EffectOf(s, pre, retracts, asserts, eff)
    BY <1>1, EffectFacts
<1>3. eff.created \subseteq Name /\ eff.asserted \in Seq(Fact) /\ eff.retracted \in Seq(Fact)
    BY <1>2 DEF EffectOf
<1>4. Change(uuid, eff.created, eff.asserted, eff.retracted) \in EventSet
    BY <1>3 DEF Change, EventSet
<1> DEFINE kept == Kept(s.live, ToSet(s.live) \ ToSet(eff.retracted))
<1>5. kept \in Seq(Fact)
    BY <1>1, KeptFacts
<1> HIDE DEF kept
<1>6. kept \o eff.asserted \in Seq(Fact)
    BY <1>3, <1>5, ConcatProperties
<1>7. t = [log |-> Append(s.log, Change(uuid, eff.created, eff.asserted, eff.retracted)),
           live |-> kept \o eff.asserted, names |-> s.names \cup eff.created]
    BY DEF Transacted, kept
<1>8. Append(s.log, Change(uuid, eff.created, eff.asserted, eff.retracted)) \in Seq(EventSet)
    BY <1>1, <1>4, Appended
<1>9. t \in StoreSet
    BY <1>1, <1>3, <1>6, <1>7, <1>8 DEF StoreSet
<1>10. After(s, eff) = [live |-> kept \o eff.asserted, names |-> s.names \cup eff.created]
    BY DEF After, kept
<1> QED
    BY <1>4, <1>7, <1>9, <1>10 DEF TransactedAs

(* The live facts after a transaction. *)
LEMMA LiveAfter ==
    ASSUME NEW c, c.live \in Seq(Fact), NEW e, e.asserted \in Seq(Fact)
    PROVE  ToSet(After(c, e).live) = (ToSet(c.live) \ ToSet(e.retracted)) \cup ToSet(e.asserted)
<1> DEFINE kept == Kept(c.live, ToSet(c.live) \ ToSet(e.retracted))
<1>1. kept \in Seq(Fact) /\ ToSet(kept) = ToSet(c.live) \ ToSet(e.retracted)
    <2> DEFINE X == ToSet(c.live) \ ToSet(e.retracted)
    <2>1. Kept(c.live, X) \in Seq(Fact) /\ ToSet(Kept(c.live, X)) = ToSet(c.live) \cap X
        <3> HIDE DEF X
        <3> QED BY KeptFacts
    <2> QED BY <2>1
<1>2. After(c, e).live = kept \o e.asserted
    BY DEF After
<1> HIDE DEF kept
<1>3. ToSet(kept \o e.asserted) = ToSet(kept) \cup ToSet(e.asserted)
    BY <1>1, ToSetConcat
<1> QED
    BY <1>1, <1>2, <1>3

(* What one more event r adds to the sets of events of s. *)
Adds(s, t, r, f) ==
    /\ AssertedBy(t, f) = AssertedBy(s, f) \cup
          (IF f \in ToSet(r.asserted) THEN {r.uuid} ELSE {})
    /\ RetractedBy(t, f) = RetractedBy(s, f) \cup
          (IF f \in ToSet(r.retracted) THEN {r.uuid} ELSE {})
    /\ AssertedBy(s, f) \subseteq Uuids(s) /\ RetractedBy(s, f) \subseteq Uuids(s)
    /\ CreatedIn(t) = CreatedIn(s) \cup r.created
    /\ Uuids(t) = Uuids(s) \cup {r.uuid}

LEMMA EventAdds ==
    ASSUME NEW s \in StoreSet, NEW r \in EventSet, NEW t, t.log = Append(s.log, r), NEW f
    PROVE  Adds(s, t, r, f)
<1> DEFINE n == Len(s.log)
<1>1. /\ DOMAIN t.log = 1..(n + 1) /\ DOMAIN s.log = 1..n /\ n \in Nat
      /\ \A i \in 1..n : t.log[i] = s.log[i]
      /\ t.log[n + 1] = r
    <2>1. s.log \in Seq(EventSet)
        BY DEF StoreSet
    <2> QED
        BY <2>1, Appended
<1>2. DOMAIN t.log = DOMAIN s.log \cup {n + 1} /\ n + 1 \notin DOMAIN s.log
    BY <1>1
<1>3. \A i \in DOMAIN s.log : t.log[i] = s.log[i]
    BY <1>1
<1> HIDE DEF n
<1>4. AssertedBy(t, f) = AssertedBy(s, f) \cup
          (IF f \in ToSet(r.asserted) THEN {r.uuid} ELSE {})
    BY <1>1, <1>2, <1>3 DEF AssertedBy
<1>5. RetractedBy(t, f) = RetractedBy(s, f) \cup
          (IF f \in ToSet(r.retracted) THEN {r.uuid} ELSE {})
    BY <1>1, <1>2, <1>3 DEF RetractedBy
<1>6. AssertedBy(s, f) \subseteq Uuids(s) /\ RetractedBy(s, f) \subseteq Uuids(s)
    BY DEF AssertedBy, RetractedBy, Uuids
<1>7. CreatedIn(t) = CreatedIn(s) \cup r.created
    BY <1>1, <1>2, <1>3 DEF CreatedIn
<1>8. Uuids(t) = Uuids(s) \cup {r.uuid}
    BY <1>1, <1>2, <1>3 DEF Uuids
<1> QED
    BY <1>4, <1>5, <1>6, <1>7, <1>8 DEF Adds

LEMMA NewElement ==
    ASSUME NEW S, IsFiniteSet(S), NEW x, x \notin S
    PROVE  IsFiniteSet(S \cup {x}) /\ Cardinality(S \cup {x}) = Cardinality(S) + 1
BY FS_AddElement, Zenon

(* One more event keeps the balance, when its uuid is new. *)
LEMMA BalanceKept ==
    ASSUME NEW s \in StoreSet, NEW t, Balanced(s), Excisions(t) = {} => Excisions(s) = {},
           NEW r \in EventSet, r.uuid \notin Uuids(s), t.log = Append(s.log, r),
           t.names = s.names \cup r.created,
           ToSet(t.live) = (ToSet(s.live) \ ToSet(r.retracted)) \cup ToSet(r.asserted),
           ToSet(r.asserted) \cap ToSet(s.live) = {}, ToSet(r.retracted) \subseteq ToSet(s.live)
    PROVE  Balanced(t)
<1> SUFFICES ASSUME Excisions(t) = {}
             PROVE  /\ t.names = CreatedIn(t)
                    /\ \A f \in Fact :
                          /\ IsFiniteSet(AssertedBy(t, f)) /\ IsFiniteSet(RetractedBy(t, f))
                          /\ Cardinality(AssertedBy(t, f))
                                = Cardinality(RetractedBy(t, f)) + Once(t.live, f)
    BY DEF Balanced
<1>1. /\ s.names = CreatedIn(s)
      /\ \A f \in Fact :
            /\ IsFiniteSet(AssertedBy(s, f)) /\ IsFiniteSet(RetractedBy(s, f))
            /\ Cardinality(AssertedBy(s, f))
                  = Cardinality(RetractedBy(s, f)) + Once(s.live, f)
    BY DEF Balanced
<1>2. t.names = CreatedIn(t)
    <2>1. CreatedIn(t) = CreatedIn(s) \cup r.created
        BY EventAdds DEF Adds
    <2> QED
        BY <1>1, <2>1
<1>3. ASSUME NEW f \in Fact
      PROVE  /\ IsFiniteSet(AssertedBy(t, f)) /\ IsFiniteSet(RetractedBy(t, f))
             /\ Cardinality(AssertedBy(t, f))
                   = Cardinality(RetractedBy(t, f)) + Once(t.live, f)
    <2> DEFINE A == AssertedBy(s, f)
               R == RetractedBy(s, f)
    <2>1. /\ AssertedBy(t, f) = A \cup (IF f \in ToSet(r.asserted) THEN {r.uuid} ELSE {})
          /\ RetractedBy(t, f) = R \cup (IF f \in ToSet(r.retracted) THEN {r.uuid} ELSE {})
          /\ A \subseteq Uuids(s) /\ R \subseteq Uuids(s)
        <3>1. Adds(s, t, r, f)
            BY EventAdds
        <3> QED
            BY <3>1 DEF Adds
    <2>2. /\ IsFiniteSet(A) /\ IsFiniteSet(R)
          /\ Cardinality(A) = Cardinality(R) + Once(s.live, f)
        BY <1>1
    <2> HIDE DEF A, R
    <2>3. r.uuid \notin A /\ r.uuid \notin R
        BY <2>1
    <2>4. /\ IsFiniteSet(A \cup {r.uuid}) /\ Cardinality(A \cup {r.uuid}) = Cardinality(A) + 1
          /\ IsFiniteSet(R \cup {r.uuid}) /\ Cardinality(R \cup {r.uuid}) = Cardinality(R) + 1
        <3>1. IsFiniteSet(A) /\ IsFiniteSet(R)
            BY <2>2
        <3>2. IsFiniteSet(A \cup {r.uuid}) /\ Cardinality(A \cup {r.uuid}) = Cardinality(A) + 1
            BY <3>1, <2>3, NewElement, Zenon
        <3>3. IsFiniteSet(R \cup {r.uuid}) /\ Cardinality(R \cup {r.uuid}) = Cardinality(R) + 1
            BY <3>1, <2>3, NewElement, Zenon
        <3> QED
            BY <3>2, <3>3
    <2>5. Cardinality(A) \in Nat /\ Cardinality(R) \in Nat
        BY <2>2, FS_CardinalityType
    <2>6. CASE f \in ToSet(r.asserted)
        <3>1. f \notin ToSet(r.retracted) /\ f \notin ToSet(s.live) /\ f \in ToSet(t.live)
            BY <2>6
        <3>2. AssertedBy(t, f) = A \cup {r.uuid} /\ RetractedBy(t, f) = R
            BY <3>1, <2>1, <2>6
        <3>3. Once(s.live, f) = 0 /\ Once(t.live, f) = 1
            BY <3>1 DEF Once
        <3> QED
            BY <2>2, <2>4, <2>5, <3>2, <3>3
    <2>7. CASE f \in ToSet(r.retracted)
        <3>1. f \notin ToSet(r.asserted) /\ f \in ToSet(s.live) /\ f \notin ToSet(t.live)
            BY <2>7
        <3>2. AssertedBy(t, f) = A /\ RetractedBy(t, f) = R \cup {r.uuid}
            BY <3>1, <2>1, <2>7
        <3>3. Once(s.live, f) = 1 /\ Once(t.live, f) = 0
            BY <3>1 DEF Once
        <3> QED
            BY <2>2, <2>4, <2>5, <3>2, <3>3
    <2>8. CASE f \notin ToSet(r.asserted) /\ f \notin ToSet(r.retracted)
        <3>1. AssertedBy(t, f) = A /\ RetractedBy(t, f) = R
            BY <2>1, <2>8
        <3>2. Once(s.live, f) = Once(t.live, f)
            BY <2>8 DEF Once
        <3> QED
            BY <2>2, <3>1, <3>2
    <2> QED
        BY <2>6, <2>7, <2>8
<1> QED
    BY <1>2, <1>3

SameEvent(r, e) ==
    /\ r.uuid = e.uuid /\ r.kind = e.kind /\ r.created = e.created
    /\ r.asserted = e.asserted /\ r.retracted = e.retracted

(* The hash tells everything about an event but its local redaction. *)
LEMMA HashFields ==
    ASSUME NEW r \in EventSet, NEW e \in EventSet
    PROVE  /\ Hash(r) \in EventSet /\ SameEvent(Hash(r), r) /\ Hash(r).redacted = 0
           /\ Hash(r) = Hash(e) <=> SameEvent(r, e)
<1>1. Hash(r) \in EventSet /\ SameEvent(Hash(r), r) /\ Hash(r).redacted = 0
    BY DEF EventSet, Hash, SameEvent
<1>2. Hash(e) \in EventSet /\ SameEvent(Hash(e), e) /\ Hash(e).redacted = 0
    BY DEF EventSet, Hash, SameEvent
<1>3. SameEvent(r, e) => Hash(r) = Hash(e)
    BY <1>1, <1>2 DEF EventSet, SameEvent
<1>4. Hash(r) = Hash(e) => SameEvent(r, e)
    BY <1>1, <1>2 DEF SameEvent
<1> QED
    BY <1>1, <1>3, <1>4

LEMMA StepsSame ==
    ASSUME NEW c, NEW d, NEW r, NEW e, SameEvent(r, e), StepsTo(c, e, d)
    PROVE  StepsTo(c, r, d)
BY DEF SameEvent, StepsTo, After, Reproduces, Replayed

LEMMA TraceKept ==
    ASSUME NEW s \in StoreSet, Traced(s), NEW t \in StoreSet,
           Len(t.log) = Len(s.log) + 1,
           \A i \in 1..Len(s.log) : SameEvent(t.log[i], s.log[i]),
           t.log[Len(s.log) + 1].kind = "change" /\ Excisions(s) = {} =>
               StepsTo([live |-> s.live, names |-> s.names], t.log[Len(s.log) + 1],
                       [live |-> t.live, names |-> t.names])
    PROVE  Traced(t)
<1> DEFINE n == Len(s.log)
           d == [live |-> t.live, names |-> t.names]
<1>1. PICK tr \in [0..n -> Content] : IsTrace(tr, s)
    BY DEF Traced
<1>2. n \in Nat /\ DOMAIN s.log = 1..n /\ DOMAIN t.log = 1..(n + 1)
    BY LenProperties DEF StoreSet
<1>3. d \in Content
    BY DEF StoreSet, Content
<1> DEFINE ext == [k \in 0..(n + 1) |-> IF k <= n THEN tr[k] ELSE d]
<1>4. ext \in [0..(n + 1) -> Content]
    BY <1>2, <1>3
<1>5. ext[0] = tr[0] /\ ext[n] = tr[n] /\ ext[n + 1] = d /\ \A k \in 0..n : ext[k] = tr[k]
    BY <1>2
<1> HIDE DEF ext, n, d
<1>6. ext[0] = [live |-> <<>>, names |-> {}]
    BY <1>1, <1>5 DEF IsTrace
<1>7. ASSUME NEW i \in 1..(n + 1), ChangesUpTo(t, i)
      PROVE  StepsTo(ext[i - 1], t.log[i], ext[i])
    <2>1. CASE i \in 1..n
        <3>1. ChangesUpTo(s, i)
            BY <1>2, <1>7, <2>1 DEF ChangesUpTo, SameEvent, n
        <3>2. StepsTo(tr[i - 1], s.log[i], tr[i])
            BY <1>1, <2>1, <3>1 DEF IsTrace, n
        <3>3. ext[i - 1] = tr[i - 1] /\ ext[i] = tr[i]
            BY <1>2, <1>5, <2>1
        <3>4. SameEvent(t.log[i], s.log[i])
            BY <2>1 DEF n
        <3> QED
            BY <3>2, <3>3, <3>4, StepsSame
    <2>2. CASE i = n + 1
        <3>1. t.log[n + 1].kind = "change"
            BY <1>2, <1>7, <2>2 DEF ChangesUpTo
        <3>2. Excisions(s) = {}
            BY <1>2, <1>7, <2>2 DEF ChangesUpTo, Excisions, SameEvent, n
        <3>3. tr[n] = [live |-> s.live, names |-> s.names]
            BY <1>1, <3>2 DEF IsTrace, n
        <3>4. StepsTo(tr[n], t.log[n + 1], d)
            BY <3>1, <3>2, <3>3 DEF n, d
        <3> QED
            BY <1>2, <1>5, <2>2, <3>4
    <2> QED
        BY <1>2, <2>1, <2>2
<1>8. IsTrace(ext, t)
    <2>1. Len(t.log) = n + 1
        BY DEF n
    <2> QED
        BY <1>5, <1>6, <1>7, <2>1 DEF IsTrace, d
<1> QED
    BY <1>4, <1>8 DEF Traced, n

(* A transaction keeps a store well formed, when its event is new there. *)
LEMMA TransactedWellFormed ==
    ASSUME NEW s, WellFormed(s), NEW pre \in SUBSET Name,
           NEW retracts \in Seq(Fact), NEW asserts \in Seq(Fact), OnePerCell(asserts),
           NEW eff, eff = Effect(s, pre, retracts, asserts),
           NEW uuid \in Peer \X Nat, uuid \notin Uuids(s),
           NEW t, t = Transacted(s, uuid, eff)
    PROVE  WellFormed(t)
<1> DEFINE r == Change(uuid, eff.created, eff.asserted, eff.retracted)
           n == Len(s.log)
<1>1. s \in StoreSet /\ s.log \in Seq(EventSet) /\ s.live \in Seq(Fact) /\ s.names \in SUBSET Name
    BY DEF WellFormed, StoreSet
<1>2. /\ eff.created \subseteq Name /\ eff.asserted \in Seq(Fact) /\ eff.retracted \in Seq(Fact)
      /\ OnePerCell(eff.asserted)
      /\ eff.created = (pre \cup NamesIn(ToSet(asserts))) \ s.names
      /\ ToSet(eff.asserted) = ToSet(asserts) \ ToSet(s.live)
      /\ ToSet(eff.retracted) = Leaving(s.live, retracts, asserts)
    <2>1. EffectOf(s, pre, retracts, asserts, eff)
        BY <1>1, EffectFacts
    <2> QED
        BY <2>1 DEF EffectOf
<1>3. /\ t \in StoreSet /\ r \in EventSet
      /\ t.log = Append(s.log, r)
      /\ t.live = After(s, eff).live
      /\ t.names = After(s, eff).names
    <2>1. TransactedAs(s, uuid, eff, t)
        BY <1>1, TransactedFacts
    <2> QED
        BY <2>1 DEF TransactedAs
<1>4. /\ r.uuid = uuid /\ r.kind = "change" /\ r.created = eff.created
      /\ r.asserted = eff.asserted /\ r.retracted = eff.retracted /\ r.redacted = 0
    BY DEF Change
<1> HIDE DEF r
<1>5. ToSet(t.live) = (ToSet(s.live) \ ToSet(r.retracted)) \cup ToSet(r.asserted)
    <2>1. ToSet(After(s, eff).live) = (ToSet(s.live) \ ToSet(eff.retracted)) \cup ToSet(eff.asserted)
        BY <1>1, <1>2, LiveAfter
    <2> QED
        BY <1>3, <1>4, <2>1
<1>6. t.names = s.names \cup r.created
    BY <1>3, <1>4 DEF After
<1>7. /\ Len(t.log) = n + 1 /\ n \in Nat /\ DOMAIN s.log = 1..n /\ DOMAIN t.log = 1..(n + 1)
      /\ \A i \in 1..n : t.log[i] = s.log[i]
      /\ t.log[n + 1] = r
    BY <1>1, <1>3, Appended
<1>s. \A i \in 1..(n + 1) : i \in 1..n \/ i = n + 1
    BY <1>7
<1>8. \A f \in ToSet(s.live) \ ToSet(eff.retracted) : \A g \in ToSet(eff.asserted) : ~SameCell(f, g)
    <2>1. SUFFICES ASSUME NEW f \in ToSet(s.live) \ ToSet(eff.retracted),
                          NEW g \in ToSet(eff.asserted), SameCell(f, g)
                   PROVE  FALSE
        OBVIOUS
    <2>2. g \in ToSet(asserts) /\ g \notin ToSet(s.live)
        BY <1>2
    <2>3. f \notin ToSet(asserts)
        BY <2>1, <2>2, CellsDiffer
    <2>4. f \in Leaving(s.live, retracts, asserts)
        BY <2>1, <2>2, <2>3 DEF Leaving
    <2> QED
        BY <1>2, <2>4
<1>9. OnePerCell(t.live)
    <2> DEFINE X == ToSet(s.live) \ ToSet(eff.retracted)
               kept == Kept(s.live, X)
    <2>1. kept \in Seq(Fact) /\ ToSet(kept) = ToSet(s.live) \cap X /\ OnePerCell(kept)
        <3>1. OnePerCell(s.live)
            BY DEF WellFormed
        <3> HIDE DEF X
        <3> QED BY <1>1, <3>1, KeptFacts, KeptOnePerCell
    <2>2. t.live = kept \o eff.asserted
        BY <1>3 DEF After
    <2>3. \A f \in ToSet(kept) : \A g \in ToSet(eff.asserted) : ~SameCell(f, g)
        BY <1>8, <2>1
    <2> HIDE DEF kept, X
    <2> QED
        BY <1>2, <2>1, <2>2, <2>3, ConcatOnePerCell
<1>10. NamesIn(ToSet(t.live)) \subseteq t.names
    <2>1. NamesIn(ToSet(s.live)) \subseteq s.names
        BY DEF WellFormed
    <2>2. ToSet(t.live) \subseteq ToSet(s.live) \cup ToSet(asserts)
        BY <1>2, <1>4, <1>5
    <2>3. NamesIn(ToSet(asserts)) \subseteq s.names \cup r.created
        BY <1>2, <1>4
    <2> QED
        BY <1>6, <2>1, <2>2, <2>3 DEF NamesIn
<1>11. OneUuidEach(t)
    <2>1. OneUuidEach(s)
        BY DEF WellFormed
    <2>2. \A i \in 1..n : t.log[i].uuid # t.log[n + 1].uuid
        BY <1>4, <1>7 DEF Uuids
    <2>3. SUFFICES ASSUME NEW i \in 1..(n + 1), NEW j \in 1..(n + 1),
                          t.log[i].uuid = t.log[j].uuid
                   PROVE  i = j
        BY <1>7 DEF OneUuidEach
    <2>4. CASE i \in 1..n /\ j \in 1..n
        BY <1>7, <2>1, <2>3, <2>4 DEF OneUuidEach
    <2>5. CASE i = n + 1 \/ j = n + 1
        BY <1>s, <2>2, <2>3, <2>5
    <2> QED
        BY <1>s, <2>4, <2>5
<1>12. \A i \in DOMAIN t.log : t.log[i].redacted <= Len(t.log)
    <2>1. \A i \in 1..n : s.log[i].redacted <= n /\ s.log[i].redacted \in Nat
        <3>1. \A i \in 1..n : s.log[i] \in EventSet
            BY <1>1, <1>7, ToSetSeq
        <3> QED
            BY <3>1, <1>7 DEF WellFormed, EventSet
    <2> HIDE DEF n
    <2> QED
        BY <1>4, <1>7, <1>s, <2>1
<1>13. Excisions(t) = {} => Excisions(s) = {}
    <2> SUFFICES ASSUME NEW i \in Excisions(s) PROVE i \in Excisions(t)
        OBVIOUS
    <2>1. i \in 1..n /\ s.log[i].kind = "excision"
        BY <1>7 DEF Excisions
    <2>2. i \in DOMAIN t.log /\ t.log[i] = s.log[i]
        BY <1>7, <2>1
    <2> QED
        BY <2>1, <2>2 DEF Excisions
<1>14. Balanced(t)
    <2>1. ToSet(r.asserted) \cap ToSet(s.live) = {} /\ ToSet(r.retracted) \subseteq ToSet(s.live)
        BY <1>2, <1>4 DEF Leaving
    <2>2. Balanced(s) /\ r.uuid \notin Uuids(s)
        BY <1>4 DEF WellFormed
    <2> QED
        BY <1>1, <1>3, <1>5, <1>6, <1>13, <2>1, <2>2, BalanceKept
<1>15. Traced(t)
    <2> DEFINE c == [live |-> s.live, names |-> s.names]
    <2>1. c.live = s.live /\ c.names = s.names
        OBVIOUS
    <2>2. [live |-> t.live, names |-> t.names] = After(c, r)
        BY <1>3, <1>4 DEF After
    <2>a. s.live \in Seq(Fact) /\ s.names \subseteq Name
        BY <1>1
    <2>b. Repeats(s, eff)
        BY <2>a, EffectReplays
    <2>3. Effect(s, eff.created, eff.retracted, eff.asserted) = eff
        BY <2>b DEF Repeats
    <2>4. Effect(c, eff.created, eff.retracted, eff.asserted) = eff
        BY <2>1, <2>3, EffectIs
    <2>5. Reproduces(r, Replayed(c, r))
        BY <1>4, <2>4 DEF Reproduces, Replayed
    <2>6. StepsTo(c, t.log[n + 1], [live |-> t.live, names |-> t.names])
        BY <1>7, <2>2, <2>5 DEF StepsTo
    <2>7. \A i \in 1..n : SameEvent(t.log[i], s.log[i])
        BY <1>7 DEF SameEvent
    <2>8. Traced(s)
        BY DEF WellFormed
    <2> QED
        BY <1>1, <1>3, <1>7, <2>6, <2>7, <2>8, TraceKept
<1> QED
    BY <1>3, <1>9, <1>10, <1>11, <1>12, <1>14, <1>15 DEF WellFormed

LEMMA RedactedFacts ==
    ASSUME NEW r \in EventSet, NEW x, NEW tx \in Nat
    PROVE  Redacted(r, x, tx) \in EventSet /\ SameEvent(Redacted(r, x, tx), r)
<1>1. [r EXCEPT !.redacted = tx] \in EventSet /\ SameEvent([r EXCEPT !.redacted = tx], r)
    BY DEF EventSet, SameEvent
<1>2. SameEvent(r, r)
    BY DEF SameEvent
<1>3. Redacted(r, x, tx) = [r EXCEPT !.redacted = tx] \/ Redacted(r, x, tx) = r
    BY DEF Redacted
<1> QED
    BY <1>1, <1>2, <1>3

(* So does an excision: it erases rows and payloads, and no identity. *)
LEMMA ExcisedWellFormed ==
    ASSUME NEW s, WellFormed(s), NEW x, NEW uuid \in Peer \X Nat, uuid \notin Uuids(s),
           NEW t, t = Excised(s, x, uuid)
    PROVE  /\ WellFormed(t)
           /\ Len(t.log) = Len(s.log) + 1
           /\ \A i \in 1..Len(s.log) : Hash(t.log[i]) = Hash(s.log[i])
           /\ \A i \in 1..Len(s.log) : s.log[i].redacted # 0 => t.log[i] = s.log[i]
           /\ t.log[Len(s.log) + 1] = Excision(uuid)
<1> DEFINE n == Len(s.log)
           red == [i \in DOMAIN s.log |-> Redacted(s.log[i], x, n + 1)]
           X == {f \in ToSet(s.live) : x \notin {f.e, f.a}}
<1>1. s \in StoreSet /\ s.log \in Seq(EventSet) /\ s.live \in Seq(Fact) /\ s.names \in SUBSET Name
    BY DEF WellFormed, StoreSet
<1>2. n \in Nat /\ DOMAIN s.log = 1..n /\ \A i \in 1..n : s.log[i] \in EventSet
    BY <1>1, ToSetSeq
<1>3. ASSUME NEW i \in 1..n
      PROVE  /\ red[i] \in EventSet /\ Hash(red[i]) = Hash(s.log[i])
             /\ SameEvent(red[i], s.log[i])
             /\ red[i].redacted <= n + 1
             /\ s.log[i].redacted # 0 => red[i] = s.log[i]
    <2>1. red[i] = Redacted(s.log[i], x, n + 1) /\ s.log[i] \in EventSet
        BY <1>2
    <2>2. s.log[i].redacted <= n /\ s.log[i].redacted \in Nat
        BY <1>2 DEF WellFormed, EventSet
    <2>3. red[i] \in EventSet /\ SameEvent(red[i], s.log[i])
        BY <1>2, <2>1, RedactedFacts
    <2>4. Hash(red[i]) = Hash(s.log[i])
        BY <2>1, <2>3, HashFields
    <2>5. red[i].redacted <= n + 1
        BY <1>2, <2>1, <2>2 DEF Redacted, EventSet
    <2>6. s.log[i].redacted # 0 => red[i] = s.log[i]
        BY <2>1 DEF Redacted
    <2> QED
        BY <2>3, <2>4, <2>5, <2>6
<1>4. red \in Seq(EventSet) /\ Len(red) = n
    <2>1. red \in [1..n -> EventSet]
        BY <1>2, <1>3
    <2>2. DOMAIN red = 1..n
        BY <1>2
    <2> HIDE DEF red
    <2>3. red \in Seq(EventSet)
        BY <1>2, <2>1, SeqDef
    <2> QED
        BY <1>2, <2>2, <2>3, LenProperties
<1>5. Excision(uuid) \in EventSet /\ Excision(uuid).uuid = uuid /\ Excision(uuid).kind = "excision"
      /\ Excision(uuid).redacted = 0
    BY EmptySeq DEF Excision, EventSet
<1>6. Kept(s.live, X) \in Seq(Fact) /\ ToSet(Kept(s.live, X)) = ToSet(s.live) \cap X
      /\ OnePerCell(Kept(s.live, X))
    <2>1. OnePerCell(s.live)
        BY DEF WellFormed
    <2> HIDE DEF X
    <2> QED BY <1>1, <2>1, KeptFacts, KeptOnePerCell
<1>7. t = [log |-> Append(red, Excision(uuid)), live |-> Kept(s.live, X), names |-> s.names]
    BY DEF Excised
<1> HIDE DEF red, X
<1>8. /\ Append(red, Excision(uuid)) \in Seq(EventSet)
      /\ Len(Append(red, Excision(uuid))) = n + 1
      /\ DOMAIN Append(red, Excision(uuid)) = 1..(n + 1)
      /\ \A i \in 1..n : Append(red, Excision(uuid))[i] = red[i]
      /\ Append(red, Excision(uuid))[n + 1] = Excision(uuid)
    BY <1>4, <1>5, Appended
<1>9. /\ t \in StoreSet
      /\ Len(t.log) = n + 1 /\ DOMAIN t.log = 1..(n + 1)
      /\ \A i \in 1..n : t.log[i] = red[i]
      /\ t.log[n + 1] = Excision(uuid)
      /\ t.live = Kept(s.live, X) /\ t.names = s.names
    BY <1>1, <1>6, <1>7, <1>8 DEF StoreSet
<1>10. \A i \in 1..(n + 1) : i \in 1..n \/ i = n + 1
    BY <1>2
<1>11. OneUuidEach(t)
    <2>1. OneUuidEach(s)
        BY DEF WellFormed
    <2>2. \A i \in 1..n : t.log[i].uuid = s.log[i].uuid
        BY <1>3, <1>9 DEF SameEvent
    <2>3. \A i \in 1..n : t.log[i].uuid # t.log[n + 1].uuid
        BY <1>2, <1>5, <1>9, <2>2 DEF Uuids
    <2>4. SUFFICES ASSUME NEW i \in 1..(n + 1), NEW j \in 1..(n + 1),
                          t.log[i].uuid = t.log[j].uuid
                   PROVE  i = j
        BY <1>9 DEF OneUuidEach
    <2>5. CASE i \in 1..n /\ j \in 1..n
        BY <1>2, <2>1, <2>2, <2>4, <2>5 DEF OneUuidEach
    <2>6. CASE i = n + 1 \/ j = n + 1
        BY <1>10, <2>3, <2>4, <2>6
    <2> QED
        BY <1>10, <2>5, <2>6
<1>12. \A i \in DOMAIN t.log : t.log[i].redacted <= Len(t.log)
    <2> HIDE DEF n
    <2> QED
        BY <1>2, <1>3, <1>5, <1>9, <1>10
<1>13. OnePerCell(t.live) /\ NamesIn(ToSet(t.live)) \subseteq t.names
    <2>1. NamesIn(ToSet(s.live)) \subseteq s.names
        BY DEF WellFormed
    <2> QED
        BY <1>6, <1>9, <2>1 DEF NamesIn
<1>14. Excisions(t) # {}
    <2>1. n + 1 \in DOMAIN t.log /\ t.log[n + 1].kind = "excision"
        BY <1>2, <1>5, <1>9
    <2> QED
        BY <2>1 DEF Excisions
<1>15. Balanced(t)
    BY <1>14 DEF Balanced
<1>16. Traced(t)
    <2>1. Traced(s)
        BY DEF WellFormed
    <2>2. \A i \in 1..n : SameEvent(t.log[i], s.log[i])
        BY <1>3, <1>9
    <2>3. t.log[n + 1].kind # "change"
        BY <1>5, <1>9
    <2> QED
        BY <1>1, <1>9, <2>1, <2>2, <2>3, TraceKept
<1>17. WellFormed(t)
    BY <1>9, <1>11, <1>12, <1>13, <1>15, <1>16 DEF WellFormed
<1> QED
    BY <1>3, <1>9, <1>17

-----------------------------------------------------------------------------
(* The inductive invariant.  Every event any log, working copy or file     *)
(* holds is an event of some store, and there is one per uuid.             *)

Events == UNION {{Hash(store[p].log[i]) : i \in DOMAIN store[p].log} : p \in Peer}

AllUuids == UNION {Uuids(store[p]) : p \in Peer}

JobSet == [file : Seq([event : EventSet, known : BOOLEAN]), done : Nat, work : StoreSet]

(* An event was written by the peer its uuid names, as one of its first. *)
EventOK(e) ==
    /\ e \in EventSet /\ e.redacted = 0 /\ OnePerCell(e.asserted)
    /\ e.uuid[2] \in 1..Len(store[e.uuid[1]].log)

(* An import works on a copy that extends its store by events of its file. *)
JobOK(q, j) ==
    /\ j \in JobSet
    /\ j.done <= Len(j.file)
    /\ \A i \in DOMAIN j.file : /\ j.file[i].event \in Events
                                /\ j.file[i].known => j.file[i].event.kind = "change"
    /\ WellFormed(j.work)
    /\ \A i \in DOMAIN j.work.log : Hash(j.work.log[i]) \in Events
    /\ \A i \in 1..j.done : j.file[i].event.uuid \in Uuids(j.work)
    /\ \A i \in DOMAIN store[q].log :
          i \in DOMAIN j.work.log /\ j.work.log[i] = store[q].log[i]

IInv ==
    /\ load \in Workloads
    /\ store \in [Peer -> StoreSet] /\ job \in [Peer -> JobSet \cup {Idle}]
    /\ \A p \in Peer : WellFormed(store[p])
    /\ \A e \in Events : EventOK(e)
    /\ \A d, e \in Events : d.uuid = e.uuid => d = e
    /\ IsFiniteSet(AllUuids) /\ Cardinality(AllUuids) <= load.maxEvents
    /\ \A q \in Peer : job[q] # Idle => JobOK(q, job[q])

LEMMA LoadOK ==
    ASSUME load \in Workloads
    PROVE  /\ load.maxEvents \in Nat /\ load.peers \subseteq Peer
           /\ \A r \in load.requests : /\ r.retract \in Seq(Fact) /\ r.assert \in Seq(Fact)
                                       /\ OnePerCell(r.assert)
<1>1. load \in Workload
    BY WorkloadsAssumption
<1>2. \A r \in load.requests : OnePerCell(r.assert)
    BY WorkloadsAssumption DEF OnePerCell
<1>3. \A r \in load.requests : r \in [retract : Seq(Fact), assert : Seq(Fact)]
    BY <1>1 DEF Workload
<1> QED
    BY <1>1, <1>2, <1>3 DEF Workload

LEMMA IsEvent ==
    ASSUME NEW p \in Peer, NEW i \in DOMAIN store[p].log
    PROVE  Hash(store[p].log[i]) \in Events
BY DEF Events

LEMMA EventIn ==
    ASSUME NEW e \in Events
    PROVE  \E p \in Peer : \E i \in DOMAIN store[p].log : e = Hash(store[p].log[i])
BY DEF Events

LEMMA StoreTypes ==
    ASSUME IInv, NEW p \in Peer
    PROVE  /\ store[p] \in StoreSet /\ store[p].log \in Seq(EventSet)
           /\ DOMAIN store[p].log = 1..Len(store[p].log) /\ Len(store[p].log) \in Nat
           /\ \A i \in DOMAIN store[p].log : store[p].log[i] \in EventSet
<1>1. store[p] \in StoreSet /\ store[p].log \in Seq(EventSet)
    BY DEF IInv, StoreSet
<1> QED
    BY <1>1, ToSetSeq

LEMMA UuidsOfEvents ==
    ASSUME IInv
    PROVE  /\ \A e \in Events : e.uuid \in AllUuids
           /\ \A u \in AllUuids : \E e \in Events : e.uuid = u
<1>1. ASSUME NEW e \in Events PROVE e.uuid \in AllUuids
    <2>0. PICK p \in Peer : \E i \in DOMAIN store[p].log : e = Hash(store[p].log[i])
        BY EventIn
    <2>1. PICK i \in DOMAIN store[p].log : e = Hash(store[p].log[i])
        BY <2>0
    <2>2. e.uuid = store[p].log[i].uuid
        BY <2>1, StoreTypes, HashFields DEF SameEvent
    <2> QED
        BY <2>2 DEF AllUuids, Uuids
<1>2. ASSUME NEW u \in AllUuids PROVE \E e \in Events : e.uuid = u
    <2>0. PICK p \in Peer : \E i \in DOMAIN store[p].log : u = store[p].log[i].uuid
        BY DEF AllUuids, Uuids
    <2>1. PICK i \in DOMAIN store[p].log : u = store[p].log[i].uuid
        BY <2>0
    <2>2. Hash(store[p].log[i]).uuid = u
        BY <2>1, StoreTypes, HashFields DEF SameEvent
    <2> QED
        BY <2>2, IsEvent
<1> QED
    BY <1>1, <1>2

(* A uuid drawn at p was never drawn before. *)
LEMMA FreshIsNew ==
    ASSUME IInv, NEW p \in Peer
    PROVE  FreshUuid(p) \in Peer \X Nat /\ FreshUuid(p) \notin AllUuids
<1>1. Len(store[p].log) \in Nat
    BY StoreTypes
<1>2. FreshUuid(p) \in Peer \X Nat /\ FreshUuid(p)[1] = p /\ FreshUuid(p)[2] = Len(store[p].log) + 1
    BY <1>1 DEF FreshUuid
<1>3. ASSUME FreshUuid(p) \in AllUuids PROVE FALSE
    <2>1. PICK e \in Events : e.uuid = FreshUuid(p)
        BY <1>3, UuidsOfEvents
    <2>2. e.uuid[2] \in 1..Len(store[e.uuid[1]].log)
        BY DEF IInv, EventOK
    <2> QED
        BY <1>1, <1>2, <2>1, <2>2
<1> QED
    BY <1>2, <1>3

(* A log is as long as it has uuids, so no longer than the bound. *)
LEMMA LogBounded ==
    ASSUME NEW s \in StoreSet, OneUuidEach(s), NEW U, IsFiniteSet(U), Uuids(s) \subseteq U
    PROVE  Len(s.log) <= Cardinality(U)
<1> DEFINE n == Len(s.log)
           at == [i \in 1..n |-> s.log[i].uuid]
<1>1. n \in Nat /\ DOMAIN s.log = 1..n
    BY LenProperties DEF StoreSet
<1>2. at \in [1..n -> U] /\ \A i, j \in 1..n : at[i] = at[j] => i = j
    BY <1>1 DEF OneUuidEach, Uuids
<1> HIDE DEF at
<1>3. at \in Injection(1..n, U)
    BY <1>2, Fun_IsInj
<1>4. Cardinality(1..n) <= Cardinality(U)
    BY <1>3, FS_Injection
<1>5. Cardinality(1..n) = n
    BY <1>1, FS_Interval
<1> QED
    BY <1>4, <1>5

(* A step that adds one new event to one store keeps the invariant. *)
LEMMA WritesOne ==
    ASSUME IInv, NEW p \in Peer, job[p] = Idle, Room,
           NEW t, WellFormed(t), Len(t.log) = Len(store[p].log) + 1,
           \A i \in 1..Len(store[p].log) : Hash(t.log[i]) = Hash(store[p].log[i]),
           t.log[Len(store[p].log) + 1].uuid = FreshUuid(p),
           t.log[Len(store[p].log) + 1].redacted = 0,
           OnePerCell(t.log[Len(store[p].log) + 1].asserted),
           store' = [store EXCEPT ![p] = t], load' = load, job' = job
    PROVE  IInv'
<1> DEFINE s == store[p]
           n == Len(store[p].log)
           r == t.log[Len(store[p].log) + 1]
<1>1. /\ s \in StoreSet /\ DOMAIN s.log = 1..n /\ n \in Nat
      /\ \A i \in 1..n : s.log[i] \in EventSet
    BY StoreTypes
<1>2. /\ t \in StoreSet /\ DOMAIN t.log = 1..(n + 1)
      /\ \A i \in 1..(n + 1) : t.log[i] \in EventSet
    <2>1. t \in StoreSet /\ t.log \in Seq(EventSet)
        BY DEF WellFormed, StoreSet
    <2> QED
        BY <2>1, ToSetSeq
<1>3. \A i \in 1..(n + 1) : i \in 1..n \/ i = n + 1
    BY <1>1
<1>4. store \in [Peer -> StoreSet] /\ load \in Workloads /\ job \in [Peer -> JobSet \cup {Idle}]
    BY DEF IInv
<1>5. store' \in [Peer -> StoreSet] /\ store'[p] = t /\ \A q \in Peer : q # p => store'[q] = store[q]
    BY <1>2, <1>4
<1>6. r \in EventSet /\ Hash(r) \in EventSet /\ SameEvent(Hash(r), r) /\ Hash(r).redacted = 0
    <2>1. r \in EventSet
        BY <1>1, <1>2
    <2> QED
        BY <2>1, HashFields
<1>7. \A q \in Peer : \A i \in DOMAIN store[q].log :
          i \in DOMAIN store'[q].log /\ Hash(store'[q].log[i]) = Hash(store[q].log[i])
    BY <1>1, <1>2, <1>5
<1>8. \A q \in Peer : Len(store[q].log) <= Len(store'[q].log) /\ Len(store[q].log) \in Nat
                      /\ Len(store'[q].log) \in Nat
    <2>1. \A q \in Peer : Len(store[q].log) \in Nat
        BY StoreTypes
    <2>2. Len(t.log) = n + 1 /\ n \in Nat
        BY <1>1
    <2> QED
        BY <1>5, <2>1, <2>2
<1>9. Events \subseteq Events'
    <2>1. SUFFICES ASSUME NEW e \in Events PROVE e \in Events'
        OBVIOUS
    <2>2. PICK q \in Peer : \E i \in DOMAIN store[q].log : e = Hash(store[q].log[i])
        BY EventIn
    <2>3. \E i \in DOMAIN store'[q].log : e = Hash(store'[q].log[i])
        BY <1>7, <2>2
    <2> QED
        BY <2>3 DEF Events
<1>10. Events' \subseteq Events \cup {Hash(r)}
    <2>1. SUFFICES ASSUME NEW e \in Events' PROVE e \in Events \cup {Hash(r)}
        OBVIOUS
    <2>2. PICK q \in Peer : \E i \in DOMAIN store'[q].log : e = Hash(store'[q].log[i])
        BY DEF Events
    <2>3. PICK i \in DOMAIN store'[q].log : e = Hash(store'[q].log[i])
        BY <2>2
    <2>4. CASE q = p /\ i = n + 1
        BY <1>5, <2>3, <2>4
    <2>5. CASE q = p /\ i # n + 1
        <3>1. i \in DOMAIN s.log /\ e = Hash(s.log[i])
            BY <1>1, <1>2, <1>3, <1>5, <2>3, <2>5
        <3> QED
            BY <3>1, IsEvent
    <2>6. CASE q # p
        BY <1>5, <2>3, <2>6, IsEvent
    <2> QED
        BY <2>4, <2>5, <2>6
<1>11. FreshUuid(p) \in Peer \X Nat /\ FreshUuid(p) \notin AllUuids
    BY FreshIsNew
<1>12. Hash(r).uuid = FreshUuid(p)
    BY <1>6 DEF SameEvent
<1>13. \A q \in Peer : WellFormed(store'[q])
    BY <1>5 DEF IInv
<1>14. \A e \in Events' : EventOK(e)'
    <2>1. ASSUME NEW e \in Events PROVE EventOK(e)'
        <3>1. EventOK(e)
            BY DEF IInv
        <3>2. e.uuid[1] \in Peer
            BY <3>1 DEF EventOK, EventSet
        <3>3. e.uuid[2] \in 1..Len(store'[e.uuid[1]].log)
            BY <1>8, <3>1, <3>2 DEF EventOK
        <3> QED
            BY <3>1, <3>3 DEF EventOK
    <2>2. ASSUME NEW h, h = Hash(r) PROVE EventOK(h)'
        <3>1. OnePerCell(h.asserted)
            BY <1>6, <2>2 DEF SameEvent
        <3>2. h.uuid[1] = p /\ h.uuid[2] = n + 1
            BY <1>12, <2>2 DEF FreshUuid
        <3>3. h.uuid[2] \in 1..Len(store'[h.uuid[1]].log)
            BY <1>1, <1>5, <3>2
        <3>4. h \in EventSet /\ h.redacted = 0
            BY <1>6, <2>2
        <3> QED
            BY <3>1, <3>3, <3>4 DEF EventOK
    <2> QED
        BY <1>10, <2>1, <2>2
<1>15. \A d, e \in Events' : d.uuid = e.uuid => d = e
    <2>1. \A d, e \in Events : d.uuid = e.uuid => d = e
        BY DEF IInv
    <2>2. \A e \in Events : e.uuid # Hash(r).uuid
        BY <1>11, <1>12, UuidsOfEvents
    <2> QED
        BY <1>10, <2>1, <2>2
<1>16. IsFiniteSet(AllUuids') /\ Cardinality(AllUuids') <= load'.maxEvents
    <2>1. AllUuids' = AllUuids \cup {FreshUuid(p)}
        <3>1. ASSUME NEW q \in Peer, q # p PROVE Uuids(store'[q]) = Uuids(store[q])
            BY <1>5, <3>1
        <3>2. Uuids(t) = Uuids(s) \cup {FreshUuid(p)}
            <4>1. ASSUME NEW i \in 1..n PROVE t.log[i].uuid = s.log[i].uuid
                <5>1. t.log[i] \in EventSet /\ s.log[i] \in EventSet
                    BY <1>1, <1>2
                <5>2. SameEvent(t.log[i], s.log[i])
                    BY <5>1, HashFields
                <5> QED
                    BY <5>2 DEF SameEvent
            <4>2. n + 1 \in 1..(n + 1) /\ t.log[n + 1].uuid = FreshUuid(p)
                BY <1>1
            <4>3. DOMAIN t.log = DOMAIN s.log \cup {n + 1}
                BY <1>1, <1>2
            <4> HIDE DEF n, s
            <4> QED
                BY <1>1, <1>2, <1>3, <4>1, <4>2, <4>3 DEF Uuids
        <3>3. Uuids(store'[p]) = Uuids(store[p]) \cup {FreshUuid(p)}
            BY <1>5, <3>2
        <3> QED
            BY <3>1, <3>3 DEF AllUuids
    <2>2. IsFiniteSet(AllUuids) /\ Cardinality(AllUuids) < load.maxEvents
        BY DEF IInv, Room, AllUuids
    <2>3. IsFiniteSet(AllUuids \cup {FreshUuid(p)})
          /\ Cardinality(AllUuids \cup {FreshUuid(p)}) = Cardinality(AllUuids) + 1
        BY <1>11, <2>2, NewElement, Zenon
    <2>4. load.maxEvents \in Nat /\ Cardinality(AllUuids) \in Nat
        BY <1>4, <2>2, LoadOK, FS_CardinalityType
    <2> QED
        BY <2>1, <2>2, <2>3, <2>4
<1>17. ASSUME NEW q \in Peer, job'[q] # Idle PROVE JobOK(q, job[q])'
    <2>1. q # p /\ job[q] # Idle /\ job'[q] = job[q] /\ store'[q] = store[q]
        BY <1>5, <1>17
    <2>2. JobOK(q, job[q])
        BY <2>1 DEF IInv
    <2> QED
        BY <1>9, <2>1, <2>2 DEF JobOK
<1> QED
    BY <1>4, <1>5, <1>13, <1>14, <1>15, <1>16, <1>17 DEF IInv

LEMMA WriteStep ==
    ASSUME IInv, NEW p \in load.peers, NEW req \in load.requests, Write(p, req)
    PROVE  IInv'
<1>1. load \in Workloads
    BY DEF IInv
<1>2. p \in Peer /\ req.retract \in Seq(Fact) /\ req.assert \in Seq(Fact) /\ OnePerCell(req.assert)
    BY <1>1, LoadOK
<1>3. PICK s : s = store[p]
    OBVIOUS
<1>4. PICK eff : eff = Effect(s, {}, req.retract, req.assert)
    OBVIOUS
<1>5. PICK uuid : uuid = FreshUuid(p)
    OBVIOUS
<1>6. PICK t : t = Transacted(s, uuid, eff)
    OBVIOUS
<1>7. /\ job[p] = Idle /\ Room /\ load' = load /\ job' = job
      /\ store' = [store EXCEPT ![p] = t]
    BY <1>3, <1>4, <1>5, <1>6 DEF Write
<1>8. WellFormed(s) /\ s \in StoreSet /\ s.log \in Seq(EventSet)
    BY <1>2, <1>3, StoreTypes DEF IInv
<1>9. uuid \in Peer \X Nat /\ uuid \notin Uuids(s)
    BY <1>2, <1>3, <1>5, FreshIsNew DEF AllUuids
<1>10. {} \in SUBSET Name
    OBVIOUS
<1>11. WellFormed(t)
    BY <1>2, <1>4, <1>6, <1>8, <1>9, <1>10, TransactedWellFormed
<1> DEFINE r == Change(uuid, eff.created, eff.asserted, eff.retracted)
<1>12. r \in EventSet /\ t.log = Append(s.log, r)
    <2>1. TransactedAs(s, uuid, eff, t)
        BY <1>2, <1>4, <1>6, <1>8, <1>9, <1>10, TransactedFacts
    <2> QED
        BY <2>1 DEF TransactedAs
<1>13. r.uuid = uuid /\ r.redacted = 0 /\ r.asserted = eff.asserted
    BY DEF Change
<1>14. OnePerCell(eff.asserted)
    <2>1. s.live \in Seq(Fact) /\ s.names \subseteq Name
        BY <1>8 DEF StoreSet
    <2>2. EffectOf(s, {}, req.retract, req.assert, eff)
        BY <1>2, <1>4, <1>10, <2>1, EffectFacts
    <2> QED
        BY <2>2 DEF EffectOf
<1> HIDE DEF r
<1>15. /\ Len(t.log) = Len(s.log) + 1
       /\ \A i \in 1..Len(s.log) : t.log[i] = s.log[i]
       /\ t.log[Len(s.log) + 1] = r
    BY <1>8, <1>12, Appended
<1> QED
    BY <1>2, <1>3, <1>5, <1>7, <1>11, <1>13, <1>14, <1>15, WritesOne

LEMMA ExciseStep ==
    ASSUME IInv, NEW p \in load.peers, NEW x \in Name, Excise(p, x)
    PROVE  IInv'
<1>1. load \in Workloads
    BY DEF IInv
<1>2. p \in Peer
    BY <1>1, LoadOK
<1>3. PICK s : s = store[p]
    OBVIOUS
<1>5. PICK uuid : uuid = FreshUuid(p)
    OBVIOUS
<1>6. PICK t : t = Excised(s, x, uuid)
    OBVIOUS
<1>7. /\ job[p] = Idle /\ Room /\ load' = load /\ job' = job
      /\ store' = [store EXCEPT ![p] = t]
    BY <1>3, <1>5, <1>6 DEF Excise
<1>8. WellFormed(s)
    BY <1>2, <1>3 DEF IInv
<1>9. uuid \in Peer \X Nat /\ uuid \notin Uuids(s)
    BY <1>2, <1>3, <1>5, FreshIsNew DEF AllUuids
<1>10. /\ WellFormed(t)
       /\ Len(t.log) = Len(s.log) + 1
       /\ \A i \in 1..Len(s.log) : Hash(t.log[i]) = Hash(s.log[i])
       /\ t.log[Len(s.log) + 1] = Excision(uuid)
    BY <1>6, <1>8, <1>9, ExcisedWellFormed
<1>11. Excision(uuid).uuid = uuid /\ Excision(uuid).redacted = 0 /\ OnePerCell(Excision(uuid).asserted)
    BY DEF Excision, OnePerCell
<1> QED
    BY <1>2, <1>3, <1>5, <1>7, <1>10, <1>11, WritesOne

(* A step that only touches one import keeps the invariant, when the import
   is as it should be afterwards. *)
LEMMA JobStep ==
    ASSUME IInv, NEW q \in Peer, NEW j, j = Idle \/ JobOK(q, j),
           job' = [job EXCEPT ![q] = j], store' = store, load' = load
    PROVE  IInv'
<1>1. job \in [Peer -> JobSet \cup {Idle}]
    BY DEF IInv
<1>2. j \in JobSet \cup {Idle}
    BY DEF JobOK
<1>3. job' \in [Peer -> JobSet \cup {Idle}] /\ job'[q] = j /\ \A p \in Peer : p # q => job'[p] = job[p]
    BY <1>1, <1>2
<1>4. Events' = Events /\ AllUuids' = AllUuids
    BY DEF Events, AllUuids
<1>5. ASSUME NEW p \in Peer, job'[p] # Idle PROVE JobOK(p, job[p])'
    <2>0. PICK k : k = job'[p]
        OBVIOUS
    <2>1. JobOK(p, k)
        BY <1>3, <1>5, <2>0 DEF IInv
    <2>2. JobOK(p, k)'
        BY <1>4, <2>1 DEF JobOK
    <2> QED
        BY <2>0, <2>2
<1>6. \A e \in Events' : EventOK(e)'
    BY <1>4 DEF IInv, EventOK
<1> QED
    BY <1>3, <1>4, <1>5, <1>6 DEF IInv

LEMMA BeginStep ==
    ASSUME IInv, NEW q \in load.peers, NEW p \in load.peers,
           NEW since \in 0..load.maxEvents, NEW basis \in 0..load.maxEvents,
           BeginApply(q, p, since, basis)
    PROVE  IInv'
<1>1. load \in Workloads
    BY DEF IInv
<1>2. p \in Peer /\ q \in Peer /\ since \in Nat /\ basis \in Nat
    BY <1>1, LoadOK
<1> DEFINE n == basis - since
<1>3. n \in Nat /\ basis <= Len(store[p].log)
    BY <1>2 DEF BeginApply
<1>4. \A i \in 1..n : since + i \in DOMAIN store[p].log
    BY <1>2, <1>3, StoreTypes
<1>5. PICK file : file = TailFile(p, since, basis)
    OBVIOUS
<1>6. file = [i \in 1..n |-> Line(store[p].log[since + i], basis)]
    BY <1>5 DEF TailFile
<1> HIDE DEF n
<1>7. ASSUME NEW i \in 1..n
      PROVE  /\ file[i] \in [event : EventSet, known : BOOLEAN]
             /\ file[i].event \in Events
             /\ file[i].known => file[i].event.kind = "change"
    <2>1. PICK r : r = store[p].log[since + i]
        OBVIOUS
    <2>2. r \in EventSet /\ Hash(r) \in EventSet /\ SameEvent(Hash(r), r)
        BY <1>2, <1>4, <2>1, StoreTypes, HashFields
    <2>3. file[i] = [event |-> Hash(r), known |-> r.kind = "change" /\ r.redacted \notin 1..basis]
        BY <1>6, <2>1 DEF Line
    <2>4. Hash(r) \in Events
        BY <1>2, <1>4, <2>1, IsEvent
    <2>5. PICK known \in BOOLEAN : known = (r.kind = "change" /\ r.redacted \notin 1..basis)
        OBVIOUS
    <2>6. file[i] = [event |-> Hash(r), known |-> known]
        BY <2>3, <2>5
    <2>7. file[i] \in [event : EventSet, known : BOOLEAN]
        BY <2>2, <2>5, <2>6
    <2>8. file[i].event = Hash(r) /\ file[i].known = known
        BY <2>6
    <2>9. known => Hash(r).kind = "change"
        BY <2>2, <2>5 DEF SameEvent
    <2> QED
        BY <2>4, <2>7, <2>8, <2>9
<1>8. file \in Seq([event : EventSet, known : BOOLEAN]) /\ DOMAIN file = 1..n /\ Len(file) = n
    <2>1. file \in [1..n -> [event : EventSet, known : BOOLEAN]]
        BY <1>6, <1>7
    <2>2. file \in Seq([event : EventSet, known : BOOLEAN])
        BY <1>3, <2>1, SeqDef
    <2>3. DOMAIN file = 1..n
        BY <1>6
    <2>4. DOMAIN file = 1..Len(file) /\ Len(file) \in Nat
        BY <2>2, LenProperties
    <2> QED
        BY <1>3, <2>2, <2>3, <2>4
<1>9. PICK j : j = [file |-> file, done |-> 0, work |-> store[q]]
    OBVIOUS
<1>10. job' = [job EXCEPT ![q] = j] /\ store' = store /\ load' = load
    BY <1>5, <1>9 DEF BeginApply
<1>11. j.file = file /\ j.done = 0 /\ j.work = store[q]
    BY <1>9
<1>12. WellFormed(store[q]) /\ store[q] \in StoreSet
    BY <1>2, StoreTypes DEF IInv
<1>13. j \in JobSet
    BY <1>8, <1>9, <1>12 DEF JobSet
<1>14. \A i \in DOMAIN store[q].log : Hash(store[q].log[i]) \in Events
    BY <1>2, IsEvent
<1>15. JobOK(q, j)
    BY <1>3, <1>7, <1>8, <1>11, <1>12, <1>13, <1>14 DEF JobOK
<1> QED
    BY <1>2, <1>10, <1>15, JobStep

(* The import of a busy peer, its file and its next line. *)
LEMMA BusyFacts ==
    ASSUME IInv, NEW q \in Peer, Busy(q), NEW j, j = job[q]
    PROVE  /\ JobOK(q, j) /\ j \in JobSet
           /\ j.done \in Nat /\ Len(j.file) \in Nat
           /\ j.done + 1 \in 1..Len(j.file) /\ DOMAIN j.file = 1..Len(j.file)
           /\ Current(q) = j.file[j.done + 1]
           /\ Current(q).event \in Events
           /\ Current(q).known => Current(q).event.kind = "change"
<1>1. JobOK(q, j) /\ j.done < Len(j.file)
    BY DEF IInv, Busy
<1>2. j \in JobSet /\ j.done \in Nat /\ j.file \in Seq([event : EventSet, known : BOOLEAN])
    BY <1>1 DEF JobOK, JobSet
<1>3. Len(j.file) \in Nat /\ DOMAIN j.file = 1..Len(j.file)
    BY <1>2, LenProperties
<1>4. j.done + 1 \in 1..Len(j.file)
    BY <1>1, <1>2, <1>3
<1> QED
    BY <1>1, <1>2, <1>3, <1>4 DEF Current, JobOK

LEMMA AlreadyStep ==
    ASSUME IInv, NEW q \in load.peers, AlreadyApplied(q)
    PROVE  IInv'
<1>1. q \in Peer /\ Busy(q)
    BY LoadOK DEF IInv, AlreadyApplied
<1>2. PICK j : j = job[q]
    OBVIOUS
<1>3. /\ JobOK(q, j) /\ j \in JobSet
      /\ j.done \in Nat /\ Len(j.file) \in Nat
      /\ j.done + 1 \in 1..Len(j.file)
      /\ Current(q) = j.file[j.done + 1]
    BY <1>1, <1>2, BusyFacts
<1>4. PICK k : k = [j EXCEPT !.done = j.done + 1]
    OBVIOUS
<1>5. job' = [job EXCEPT ![q] = k] /\ store' = store /\ load' = load
    BY <1>2, <1>4 DEF AlreadyApplied
<1>6. k \in JobSet /\ k.file = j.file /\ k.work = j.work /\ k.done = j.done + 1
    BY <1>3, <1>4 DEF JobSet
<1>7. j.file[j.done + 1].event.uuid \in Uuids(j.work)
    <2>1. Receipt(j.work, Current(q).event) # {}
        BY <1>2 DEF AlreadyApplied
    <2>2. PICK r \in ToSet(j.work.log) : r.uuid = Current(q).event.uuid
        BY <2>1 DEF Receipt
    <2> QED
        BY <1>3, <2>2 DEF ToSet, Uuids
<1>8. \A i \in 1..k.done : i \in 1..j.done \/ i = j.done + 1
    BY <1>3, <1>6
<1>9. JobOK(q, k)
    BY <1>3, <1>6, <1>7, <1>8 DEF JobOK
<1> QED
    BY <1>1, <1>5, <1>9, JobStep

LEMMA AbortStep ==
    ASSUME IInv, NEW q \in load.peers, Abort(q)
    PROVE  IInv'
<1>1. q \in Peer
    BY LoadOK DEF IInv
<1> QED
    BY <1>1, JobStep DEF Abort

LEMMA HashSelf ==
    ASSUME NEW e \in EventSet, e.redacted = 0
    PROVE  Hash(e) = e
BY DEF Hash, EventSet

LEMMA ApplyStep ==
    ASSUME IInv, NEW q \in load.peers, ApplyLine(q)
    PROVE  IInv'
<1>1. q \in Peer /\ Busy(q)
    BY LoadOK DEF IInv, ApplyLine
<1>2. PICK j : j = job[q]
    OBVIOUS
<1>3. /\ JobOK(q, j) /\ j \in JobSet
      /\ j.done \in Nat /\ Len(j.file) \in Nat
      /\ j.done + 1 \in 1..Len(j.file) /\ DOMAIN j.file = 1..Len(j.file)
      /\ Current(q) = j.file[j.done + 1]
      /\ Current(q).event \in Events
      /\ Current(q).known => Current(q).event.kind = "change"
    BY <1>1, <1>2, BusyFacts
<1>4. PICK e : e = Current(q).event
    OBVIOUS
<1>5. PICK w : w = j.work
    OBVIOUS
<1>6. PICK eff : eff = Effect(w, e.created, e.retracted, e.asserted)
    OBVIOUS
<1>7. PICK t : t = Transacted(w, e.uuid, eff)
    OBVIOUS
<1>8. PICK k : k = [j EXCEPT !.done = j.done + 1, !.work = t]
    OBVIOUS
<1>9. /\ Current(q).known /\ Receipt(w, e) = {} /\ Reproduces(e, eff)
      /\ job' = [job EXCEPT ![q] = k] /\ store' = store /\ load' = load
    BY <1>2, <1>4, <1>5, <1>6, <1>7, <1>8 DEF ApplyLine, Replayed
<1>10. /\ e \in Events /\ e \in EventSet /\ e.redacted = 0 /\ OnePerCell(e.asserted)
       /\ e.kind = "change"
    <2>1. e \in Events /\ e.kind = "change"
        BY <1>3, <1>4, <1>9
    <2> QED
        BY <2>1 DEF IInv, EventOK
<1>11. /\ e.uuid \in Peer \X Nat /\ e.created \in SUBSET Name
       /\ e.retracted \in Seq(Fact) /\ e.asserted \in Seq(Fact)
    BY <1>10 DEF EventSet
<1>12. WellFormed(w) /\ w \in StoreSet /\ w.log \in Seq(EventSet)
    BY <1>3, <1>5 DEF JobOK, WellFormed, StoreSet
<1>13. e.uuid \notin Uuids(w)
    BY <1>9 DEF Receipt, Uuids, ToSet
<1>14. WellFormed(t)
    BY <1>6, <1>7, <1>10, <1>11, <1>12, <1>13, TransactedWellFormed
<1> DEFINE r == Change(e.uuid, eff.created, eff.asserted, eff.retracted)
<1>15. r \in EventSet /\ t.log = Append(w.log, r) /\ t \in StoreSet
    <2>1. TransactedAs(w, e.uuid, eff, t)
        BY <1>6, <1>7, <1>10, <1>11, <1>12, TransactedFacts
    <2> QED
        BY <2>1 DEF TransactedAs
<1>16. Hash(r) = e /\ r.uuid = e.uuid
    <2>1. SameEvent(r, e)
        BY <1>9, <1>10 DEF SameEvent, Change, Reproduces
    <2> HIDE DEF r
    <2>2. Hash(r) = Hash(e)
        BY <1>10, <1>15, <2>1, HashFields
    <2> QED
        BY <1>10, <2>1, <2>2, HashSelf DEF SameEvent
<1> HIDE DEF r
<1> DEFINE n == Len(w.log)
<1>17. /\ DOMAIN w.log = 1..n /\ n \in Nat /\ DOMAIN t.log = 1..(n + 1)
       /\ \A i \in 1..n : t.log[i] = w.log[i]
       /\ t.log[n + 1] = r
    BY <1>12, <1>15, Appended
<1> HIDE DEF n
<1>18. \A i \in DOMAIN t.log : Hash(t.log[i]) \in Events
    <2>1. \A i \in 1..n : Hash(w.log[i]) \in Events
        BY <1>3, <1>5, <1>17 DEF JobOK
    <2>2. \A i \in 1..(n + 1) : i \in 1..n \/ i = n + 1
        BY <1>17
    <2> QED
        BY <1>10, <1>16, <1>17, <2>1, <2>2
<1>19. Uuids(w) \subseteq Uuids(t) /\ e.uuid \in Uuids(t)
    <2>1. DOMAIN w.log \subseteq DOMAIN t.log /\ n + 1 \in DOMAIN t.log
        BY <1>17
    <2> QED
        BY <1>16, <1>17, <2>1 DEF Uuids
<1>20. k \in JobSet /\ k.file = j.file /\ k.work = t /\ k.done = j.done + 1
    <2>1. j.file \in Seq([event : EventSet, known : BOOLEAN])
        BY <1>3 DEF JobSet
    <2>2. k = [file |-> j.file, done |-> j.done + 1, work |-> t]
        BY <1>3, <1>8 DEF JobSet
    <2> QED
        BY <1>3, <1>15, <2>1, <2>2 DEF JobSet
<1>21. \A i \in 1..k.done : k.file[i].event.uuid \in Uuids(k.work)
    <2>1. \A i \in 1..k.done : i \in 1..j.done \/ i = j.done + 1
        BY <1>3, <1>20
    <2>2. \A i \in 1..j.done : j.file[i].event.uuid \in Uuids(w)
        BY <1>3, <1>5 DEF JobOK
    <2>3. j.file[j.done + 1].event.uuid = e.uuid
        BY <1>3, <1>4
    <2> QED
        BY <1>19, <1>20, <2>1, <2>2, <2>3
<1>22. \A i \in DOMAIN store[q].log :
           i \in DOMAIN k.work.log /\ k.work.log[i] = store[q].log[i]
    <2>1. \A i \in DOMAIN store[q].log : i \in DOMAIN w.log /\ w.log[i] = store[q].log[i]
        BY <1>3, <1>5 DEF JobOK
    <2>2. DOMAIN w.log \subseteq DOMAIN t.log
        BY <1>17
    <2> QED
        BY <1>17, <1>20, <2>1, <2>2
<1>23. \A i \in DOMAIN k.file : /\ k.file[i].event \in Events
                                /\ k.file[i].known => k.file[i].event.kind = "change"
    BY <1>3, <1>20 DEF JobOK
<1>24. k.done <= Len(k.file)
    BY <1>3, <1>20
<1>25. JobOK(q, k)
    BY <1>14, <1>18, <1>20, <1>21, <1>22, <1>23, <1>24 DEF JobOK
<1> QED
    BY <1>1, <1>9, <1>25, JobStep

LEMMA CommitStep ==
    ASSUME IInv, NEW q \in load.peers, CommitStream(q)
    PROVE  IInv'
<1>1. q \in Peer
    BY LoadOK DEF IInv
<1>2. PICK w : w = job[q].work
    OBVIOUS
<1>3. /\ job[q] # Idle /\ store' = [store EXCEPT ![q] = w]
      /\ job' = [job EXCEPT ![q] = Idle] /\ load' = load
    BY <1>2 DEF CommitStream
<1>4. JobOK(q, job[q])
    BY <1>1, <1>3 DEF IInv
<1>5. /\ WellFormed(w) /\ w \in StoreSet /\ w.log \in Seq(EventSet)
      /\ \A i \in DOMAIN w.log : Hash(w.log[i]) \in Events
      /\ \A i \in DOMAIN store[q].log : i \in DOMAIN w.log /\ w.log[i] = store[q].log[i]
    BY <1>2, <1>4 DEF JobOK, WellFormed, StoreSet
<1>6. /\ store \in [Peer -> StoreSet] /\ load \in Workloads
      /\ job \in [Peer -> JobSet \cup {Idle}]
    BY DEF IInv
<1>7. /\ store' \in [Peer -> StoreSet] /\ store'[q] = w
      /\ \A p \in Peer : p # q => store'[p] = store[p]
    BY <1>1, <1>3, <1>5, <1>6
<1>8. /\ job' \in [Peer -> JobSet \cup {Idle}] /\ job'[q] = Idle
      /\ \A p \in Peer : p # q => job'[p] = job[p]
    BY <1>1, <1>3, <1>6
<1>9. Events' = Events
    <2>1. ASSUME NEW e \in Events PROVE e \in Events'
        <3>1. PICK p \in Peer : \E i \in DOMAIN store[p].log : e = Hash(store[p].log[i])
            BY EventIn
        <3>2. \E i \in DOMAIN store'[p].log : e = Hash(store'[p].log[i])
            BY <1>5, <1>7, <3>1
        <3> QED
            BY <3>2 DEF Events
    <2>2. ASSUME NEW e \in Events' PROVE e \in Events
        <3>1. PICK p \in Peer : \E i \in DOMAIN store'[p].log : e = Hash(store'[p].log[i])
            BY DEF Events
        <3> QED
            BY <1>5, <1>7, <3>1, IsEvent
    <2> QED
        BY <2>1, <2>2
<1>10. AllUuids' = AllUuids
    <2>1. Uuids(store[q]) \subseteq Uuids(w)
        BY <1>5 DEF Uuids
    <2>2. Uuids(w) \subseteq AllUuids
        <3>1. ASSUME NEW i \in DOMAIN w.log PROVE w.log[i].uuid \in AllUuids
            <4>1. Hash(w.log[i]) \in Events /\ w.log[i] \in EventSet
                BY <1>5, ToSetSeq
            <4>2. Hash(w.log[i]).uuid = w.log[i].uuid
                BY <4>1, HashFields DEF SameEvent
            <4> QED
                BY <4>1, <4>2, UuidsOfEvents
        <3> QED
            BY <3>1 DEF Uuids
    <2>3. \A p \in Peer : Uuids(store[p]) \subseteq Uuids(store'[p]) /\ Uuids(store'[p]) \subseteq AllUuids
        BY <1>7, <2>1, <2>2 DEF AllUuids
    <2> QED
        BY <2>3 DEF AllUuids
<1>11. \A p \in Peer : Len(store[p].log) <= Len(store'[p].log) /\ Len(store[p].log) \in Nat
                       /\ Len(store'[p].log) \in Nat
    <2>1. \A p \in Peer : Len(store[p].log) \in Nat /\ DOMAIN store[p].log = 1..Len(store[p].log)
        BY StoreTypes
    <2>2. Len(w.log) \in Nat /\ DOMAIN w.log = 1..Len(w.log)
        BY <1>5, LenProperties
    <2>3. \A i \in 1..Len(store[q].log) : i \in 1..Len(w.log)
        BY <1>1, <1>5, <2>1, <2>2
    <2>4. Len(store[q].log) <= Len(w.log)
        <3>1. CASE Len(store[q].log) = 0
            BY <2>2, <3>1
        <3>2. CASE Len(store[q].log) # 0
            <4>1. Len(store[q].log) \in 1..Len(store[q].log)
                BY <1>1, <2>1, <3>2
            <4>2. Len(store[q].log) \in 1..Len(w.log)
                BY <2>3, <4>1
            <4> QED
                BY <2>2, <4>2
        <3> QED
            BY <3>1, <3>2
    <2> QED
        BY <1>7, <2>1, <2>2, <2>4
<1>12. ASSUME NEW e \in Events' PROVE EventOK(e)'
    <2>1. EventOK(e)
        BY <1>9 DEF IInv
    <2>2. e.uuid[1] \in Peer
        BY <2>1 DEF EventOK, EventSet
    <2>3. e.uuid[2] \in 1..Len(store'[e.uuid[1]].log)
        BY <1>11, <2>1, <2>2 DEF EventOK
    <2> QED
        BY <2>1, <2>3 DEF EventOK
<1>13. ASSUME NEW p \in Peer, job'[p] # Idle PROVE JobOK(p, job[p])'
    <2>1. p # q /\ job'[p] = job[p] /\ store'[p] = store[p]
        BY <1>7, <1>8, <1>13
    <2>2. JobOK(p, job[p])
        BY <1>13, <2>1 DEF IInv
    <2> QED
        BY <1>9, <2>1, <2>2 DEF JobOK
<1>14. \A p \in Peer : WellFormed(store'[p])
    BY <1>5, <1>7 DEF IInv
<1>15. \A d, e \in Events' : d.uuid = e.uuid => d = e
    BY <1>9 DEF IInv
<1>16. IsFiniteSet(AllUuids') /\ Cardinality(AllUuids') <= load'.maxEvents
    BY <1>3, <1>10 DEF IInv
<1> QED
    BY <1>3, <1>6, <1>7, <1>8, <1>12, <1>13, <1>14, <1>15, <1>16 DEF IInv

LEMMA EmptyWellFormed == WellFormed([log |-> <<>>, live |-> <<>>, names |-> {}])
<1> DEFINE s == [log |-> <<>>, live |-> <<>>, names |-> {}]
<1>1. s.log = <<>> /\ s.live = <<>> /\ s.names = {} /\ Len(s.log) = 0 /\ DOMAIN s.log = {}
    OBVIOUS
<1>2. s \in StoreSet
    BY EmptySeq DEF StoreSet
<1> HIDE DEF s
<1>3. OnePerCell(s.live) /\ NamesIn(ToSet(s.live)) \subseteq s.names
    <2>1. ToSet(s.live) = {}
        BY <1>1 DEF ToSet
    <2> QED
        BY <1>1, <2>1 DEF OnePerCell, NamesIn
<1>4. OneUuidEach(s) /\ \A i \in DOMAIN s.log : s.log[i].redacted <= Len(s.log)
    BY <1>1 DEF OneUuidEach
<1>5. Balanced(s)
    <2>1. CreatedIn(s) = {}
        BY <1>1 DEF CreatedIn
    <2>2. ASSUME NEW f \in Fact
          PROVE  AssertedBy(s, f) = {} /\ RetractedBy(s, f) = {} /\ Once(s.live, f) = 0
        BY <1>1 DEF AssertedBy, RetractedBy, Once, ToSet
    <2>3. IsFiniteSet({}) /\ Cardinality({}) = 0
        BY FS_EmptySet
    <2>4. ASSUME NEW f \in Fact
          PROVE  /\ IsFiniteSet(AssertedBy(s, f)) /\ IsFiniteSet(RetractedBy(s, f))
                 /\ Cardinality(AssertedBy(s, f)) = 0
                 /\ Cardinality(RetractedBy(s, f)) + Once(s.live, f) = 0
        <3>1. Cardinality(AssertedBy(s, f)) = 0 /\ Cardinality(RetractedBy(s, f)) = 0
            BY <2>2, <2>3, Zenon
        <3>2. IsFiniteSet(AssertedBy(s, f)) /\ IsFiniteSet(RetractedBy(s, f))
            BY <2>2, <2>3, Zenon
        <3> QED
            BY <2>2, <3>1, <3>2
    <2> QED
        BY <1>1, <2>1, <2>4 DEF Balanced
<1>6. Traced(s)
    <2> DEFINE tr == [k \in 0..0 |-> [live |-> <<>>, names |-> {}]]
    <2>1. tr \in [0..Len(s.log) -> Content] /\ tr[0] = [live |-> <<>>, names |-> {}]
        BY <1>1, EmptySeq DEF Content
    <2>2. IsTrace(tr, s)
        BY <1>1, <2>1 DEF IsTrace
    <2> QED
        BY <2>1, <2>2 DEF Traced
<1>7. WellFormed(s)
    BY <1>2, <1>3, <1>4, <1>5, <1>6 DEF WellFormed
<1> QED
    BY <1>7 DEF s

LEMMA InitInv ==
    ASSUME Init
    PROVE  IInv
<1>1. \A p \in Peer : store[p] = [log |-> <<>>, live |-> <<>>, names |-> {}]
    BY DEF Init
<1>2. \A p \in Peer : WellFormed(store[p])
    BY <1>1, EmptyWellFormed
<1>3. \A p \in Peer : store[p] \in StoreSet /\ DOMAIN store[p].log = {}
    <2>1. \A p \in Peer : store[p] \in StoreSet
        BY <1>2 DEF WellFormed
    <2>2. \A p \in Peer : store[p].log = <<>>
        BY <1>1
    <2> QED
        BY <2>1, <2>2
<1>4. store \in [Peer -> StoreSet] /\ job \in [Peer -> JobSet \cup {Idle}] /\ load \in Workloads
    BY <1>3 DEF Init
<1>5. Events = {} /\ AllUuids = {}
    BY <1>3 DEF Events, AllUuids, Uuids
<1>6. IsFiniteSet(AllUuids) /\ Cardinality(AllUuids) <= load.maxEvents
    BY <1>4, <1>5, LoadOK, FS_EmptySet
<1>7. \A q \in Peer : job[q] = Idle
    BY DEF Init
<1> QED
    BY <1>2, <1>4, <1>5, <1>6, <1>7 DEF IInv

LEMMA NextInv ==
    ASSUME IInv, [Next]_vars
    PROVE  IInv'
<1>1. CASE Next
    <2>1. PICK p \in load.peers :
              \/ \E req \in load.requests : Write(p, req)
              \/ \E x \in Name : Excise(p, x)
              \/ \E q \in load.peers, since, basis \in 0..load.maxEvents : BeginApply(p, q, since, basis)
              \/ AlreadyApplied(p)
              \/ ApplyLine(p)
              \/ CommitStream(p)
              \/ Abort(p)
        BY <1>1 DEF Next
    <2>2. CASE \E req \in load.requests : Write(p, req)
        BY <2>2, WriteStep
    <2>3. CASE \E x \in Name : Excise(p, x)
        BY <2>3, ExciseStep
    <2>4. CASE \E q \in load.peers, since, basis \in 0..load.maxEvents : BeginApply(p, q, since, basis)
        BY <2>4, BeginStep
    <2>5. CASE AlreadyApplied(p)
        BY <2>5, AlreadyStep
    <2>6. CASE ApplyLine(p)
        BY <2>6, ApplyStep
    <2>7. CASE CommitStream(p)
        BY <2>7, CommitStep
    <2>8. CASE Abort(p)
        BY <2>8, AbortStep
    <2> QED
        BY <2>1, <2>2, <2>3, <2>4, <2>5, <2>6, <2>7, <2>8
<1>2. CASE UNCHANGED vars
    <2>1. load' = load /\ store' = store /\ job' = job
        BY <1>2 DEF vars
    <2>2. Events' = Events /\ AllUuids' = AllUuids
        BY <2>1 DEF Events, AllUuids
    <2>3. \A e \in Events : EventOK(e)' = EventOK(e)
        BY <2>1 DEF EventOK
    <2>4. ASSUME NEW q \in Peer, job'[q] # Idle PROVE JobOK(q, job[q])'
        <3>1. JobOK(q, job[q])
            BY <2>1, <2>4 DEF IInv
        <3> QED
            BY <2>1, <2>2, <3>1 DEF JobOK
    <2> QED
        BY <2>1, <2>2, <2>3, <2>4 DEF IInv
<1> QED
    BY <1>1, <1>2

THEOREM Invariance == Spec => []IInv
<1>1. Init => IInv
    BY InitInv
<1>2. IInv /\ [Next]_vars => IInv'
    BY NextInv
<1> QED
    BY <1>1, <1>2, PTL DEF Spec

-----------------------------------------------------------------------------
(* The properties.                                                         *)

(* However often and in whatever order files are applied, no log holds an
   event twice. *)
THEOREM EventsAppliedOnce == Spec => []AppliedOnce
<1>1. IInv => AppliedOnce
    BY DEF IInv, WellFormed, OneUuidEach, AppliedOnce
<1> QED
    BY <1>1, Invariance, PTL

LEMMA StoreTyped ==
    ASSUME IInv, NEW s, WellFormed(s), \A i \in DOMAIN s.log : Hash(s.log[i]) \in Events
    PROVE  StoreOK(s)
<1> DEFINE n == Len(s.log)
           m == load.maxEvents
<1>1. /\ s \in StoreSet /\ s.log \in Seq(EventSet)
      /\ s.live \in Seq(Fact) /\ s.names \subseteq Name
    BY DEF WellFormed, StoreSet
<1>2. n \in Nat /\ DOMAIN s.log = 1..n /\ \A i \in 1..n : s.log[i] \in EventSet
    BY <1>1, ToSetSeq
<1>3. m \in Nat
    BY LoadOK DEF IInv
<1>4. \A i \in 1..n : Hash(s.log[i]).uuid = s.log[i].uuid /\ s.log[i].uuid \in AllUuids
    BY <1>2, HashFields, UuidsOfEvents DEF SameEvent
<1>5. \A t \in StoreSet : OneUuidEach(t) /\ Uuids(t) \subseteq AllUuids => Len(t.log) <= m
    <2>1. SUFFICES ASSUME NEW t \in StoreSet, OneUuidEach(t), Uuids(t) \subseteq AllUuids
                   PROVE  Len(t.log) <= m
        OBVIOUS
    <2>2. IsFiniteSet(AllUuids) /\ Cardinality(AllUuids) <= m
        BY DEF IInv
    <2>3. Len(t.log) <= Cardinality(AllUuids)
        BY <2>1, <2>2, LogBounded
    <2>4. Cardinality(AllUuids) \in Nat /\ Len(t.log) \in Nat
        BY <2>2, FS_CardinalityType, LenProperties DEF StoreSet
    <2> QED
        BY <1>3, <2>2, <2>3, <2>4
<1>6. n <= m
    <2>1. Uuids(s) \subseteq AllUuids
        BY <1>2, <1>4 DEF Uuids
    <2> QED
        BY <1>1, <1>5, <2>1 DEF WellFormed
<1>7. \A p \in Peer : Len(store[p].log) <= m
    <2>1. \A p \in Peer : Uuids(store[p]) \subseteq AllUuids
        BY DEF AllUuids
    <2> QED
        BY <1>5, <2>1, StoreTypes DEF IInv, WellFormed
<1>8. ASSUME NEW i \in 1..n PROVE s.log[i] \in Record
    <2>1. PICK r : r = s.log[i]
        OBVIOUS
    <2>2. r \in EventSet /\ r.redacted <= n
        BY <1>2, <2>1 DEF WellFormed
    <2>3. EventOK(Hash(r)) /\ Hash(r).uuid = r.uuid
        BY <1>2, <1>4, <2>1 DEF IInv
    <2>4. r.uuid \in Peer \X Nat /\ r.redacted \in Nat
        BY <2>2 DEF EventSet
    <2>5. r.uuid[1] \in Peer /\ r.uuid[2] \in 1..Len(store[r.uuid[1]].log)
        BY <2>3, <2>4 DEF EventOK
    <2>6. r.uuid[2] \in 1..m
        BY <1>3, <1>7, <2>5, StoreTypes
    <2>7. r.uuid \in Peer \X (1..m)
        BY <2>4, <2>5, <2>6
    <2>8. r.redacted \in 0..m
        BY <1>2, <1>3, <1>6, <2>2, <2>4
    <2>9. r \in Record
        BY <2>2, <2>7, <2>8 DEF Record, EventSet
    <2> QED
        BY <2>1, <2>9
<1>9. s.log \in Seq(Record)
    <2>1. s.log \in [1..n -> EventSet]
        BY <1>1, LenProperties
    <2>2. s.log \in [1..n -> Record]
        BY <1>8, <2>1
    <2> QED
        BY <1>2, <2>2, SeqDef
<1> QED
    BY <1>1, <1>6, <1>9 DEF StoreOK

LEMMA TypesOK ==
    ASSUME IInv
    PROVE  TypeOK
<1>1. ASSUME NEW s, WellFormed(s), \A i \in DOMAIN s.log : Hash(s.log[i]) \in Events
      PROVE  /\ StoreOK(s)
             /\ \A i, j \in DOMAIN s.live : SameCell(s.live[i], s.live[j]) => i = j
             /\ NamesIn(ToSet(s.live)) \subseteq s.names
    BY <1>1, StoreTyped DEF WellFormed, OnePerCell
<1>2. ASSUME NEW p \in Peer
      PROVE  WellFormed(store[p]) /\ \A i \in DOMAIN store[p].log : Hash(store[p].log[i]) \in Events
    BY IsEvent DEF IInv
<1>3. ASSUME NEW p \in Peer, job[p] # Idle
      PROVE  /\ WellFormed(job[p].work)
             /\ \A i \in DOMAIN job[p].work.log : Hash(job[p].work.log[i]) \in Events
    BY <1>3 DEF IInv, JobOK
<1> QED
    BY <1>1, <1>2, <1>3 DEF TypeOK

LEMMA Agreement ==
    ASSUME IInv, NEW p \in Peer, NEW q \in Peer,
           NEW i \in DOMAIN store[p].log, NEW j \in DOMAIN store[q].log,
           store[p].log[i].uuid = store[q].log[j].uuid
    PROVE  /\ Hash(store[p].log[i]) = Hash(store[q].log[j])
           /\ SameEvent(store[p].log[i], store[q].log[j])
<1>1. /\ store[p].log[i] \in EventSet /\ store[q].log[j] \in EventSet
    BY StoreTypes
<1>2. /\ Hash(store[p].log[i]).uuid = store[p].log[i].uuid
      /\ Hash(store[q].log[j]).uuid = store[q].log[j].uuid
    BY <1>1, HashFields DEF SameEvent
<1>3. Hash(store[p].log[i]) = Hash(store[q].log[j])
    BY <1>2, IsEvent DEF IInv
<1> QED
    BY <1>1, <1>3, HashFields

(* A store with the same events has them assert, retract and create the same. *)
LEMMA SameSets ==
    ASSUME IInv, NEW p \in Peer, NEW q \in Peer, Uuids(store[p]) \subseteq Uuids(store[q])
    PROVE  /\ \A f : AssertedBy(store[p], f) \subseteq AssertedBy(store[q], f)
           /\ \A f : RetractedBy(store[p], f) \subseteq RetractedBy(store[q], f)
           /\ CreatedIn(store[p]) \subseteq CreatedIn(store[q])
<1>1. ASSUME NEW i \in DOMAIN store[p].log
      PROVE  \E j \in DOMAIN store[q].log : SameEvent(store[p].log[i], store[q].log[j])
    <2>1. store[p].log[i].uuid \in Uuids(store[q])
        BY DEF Uuids
    <2>2. PICK j \in DOMAIN store[q].log : store[p].log[i].uuid = store[q].log[j].uuid
        BY <2>1 DEF Uuids
    <2> QED
        BY <2>2, Agreement
<1>2. \A f : AssertedBy(store[p], f) \subseteq AssertedBy(store[q], f)
    BY <1>1 DEF AssertedBy, SameEvent
<1>3. \A f : RetractedBy(store[p], f) \subseteq RetractedBy(store[q], f)
    BY <1>1 DEF RetractedBy, SameEvent
<1>4. CreatedIn(store[p]) \subseteq CreatedIn(store[q])
    BY <1>1 DEF CreatedIn, SameEvent
<1> QED
    BY <1>2, <1>3, <1>4

LEMMA SameState ==
    ASSUME IInv, NEW p \in Peer, NEW q \in Peer,
           Unexcised(p), Unexcised(q), Uuids(store[p]) = Uuids(store[q])
    PROVE  ToSet(store[p].live) = ToSet(store[q].live) /\ store[p].names = store[q].names
<1>1. Balanced(store[p]) /\ Balanced(store[q])
    BY DEF IInv, WellFormed
<1>2. /\ \A f : AssertedBy(store[p], f) = AssertedBy(store[q], f)
      /\ \A f : RetractedBy(store[p], f) = RetractedBy(store[q], f)
      /\ CreatedIn(store[p]) = CreatedIn(store[q])
    <2>1. /\ \A f : AssertedBy(store[p], f) \subseteq AssertedBy(store[q], f)
          /\ \A f : RetractedBy(store[p], f) \subseteq RetractedBy(store[q], f)
          /\ CreatedIn(store[p]) \subseteq CreatedIn(store[q])
        BY SameSets
    <2>2. /\ \A f : AssertedBy(store[q], f) \subseteq AssertedBy(store[p], f)
          /\ \A f : RetractedBy(store[q], f) \subseteq RetractedBy(store[p], f)
          /\ CreatedIn(store[q]) \subseteq CreatedIn(store[p])
        <3>1. Uuids(store[q]) \subseteq Uuids(store[p])
            OBVIOUS
        <3> QED
            BY <3>1, SameSets
    <2> QED
        BY <2>1, <2>2
<1>3. store[p].names = store[q].names
    BY <1>1, <1>2 DEF Balanced, Unexcised
<1>4. ASSUME NEW f \in Fact PROVE f \in ToSet(store[p].live) <=> f \in ToSet(store[q].live)
    <2> DEFINE A == AssertedBy(store[p], f)
               R == RetractedBy(store[p], f)
    <2>1. /\ IsFiniteSet(A) /\ IsFiniteSet(R)
          /\ Cardinality(A) = Cardinality(R) + Once(store[p].live, f)
        BY <1>1 DEF Balanced, Unexcised
    <2>2. Cardinality(AssertedBy(store[q], f))
              = Cardinality(RetractedBy(store[q], f)) + Once(store[q].live, f)
        BY <1>1 DEF Balanced, Unexcised
    <2>3. Cardinality(AssertedBy(store[q], f)) = Cardinality(A)
          /\ Cardinality(RetractedBy(store[q], f)) = Cardinality(R)
        BY <1>2, Zenon
    <2>4. Cardinality(A) \in Nat /\ Cardinality(R) \in Nat
        BY <2>1, FS_CardinalityType
    <2>5. Once(store[p].live, f) \in {0, 1} /\ Once(store[q].live, f) \in {0, 1}
        BY DEF Once
    <2> HIDE DEF A, R
    <2>6. Once(store[p].live, f) = Once(store[q].live, f)
        BY <2>1, <2>2, <2>3, <2>4, <2>5
    <2> QED
        BY <2>6 DEF Once
<1>5. ToSet(store[p].live) \subseteq Fact /\ ToSet(store[q].live) \subseteq Fact
    <2>1. store[p].live \in Seq(Fact) /\ store[q].live \in Seq(Fact)
        BY StoreTypes DEF StoreSet
    <2> QED
        BY <2>1, ToSetSeq
<1> QED
    BY <1>3, <1>4, <1>5

(* Stores stay well formed, an event is the same wherever it is held, and
   peers with the same events have the same facts and names: replication by
   files in any order, with gaps and repeats, converges. *)
THEOREM Convergence == Spec => []Converged
<1>1. IInv => Converged
    <2> SUFFICES ASSUME IInv PROVE Converged
        OBVIOUS
    <2>1. EventsAgree
        BY Agreement DEF EventsAgree
    <2>2. SameEventsSameState
        BY SameState DEF SameEventsSameState
    <2> QED
        BY TypesOK, <2>1, <2>2 DEF Converged
<1> QED
    BY <1>1, Invariance, PTL

(* Induction on the naturals, by a least counterexample. *)
LEMMA LeastNumber ==
    ASSUME NEW T \in SUBSET Nat, T # {}
    PROVE  \E n \in T : \A m \in T : n <= m
<1>1. PICK n \in T : \A m \in T : <<m, n>> \notin OpToRel(<, Nat)
    BY NatLessThanWellFounded, WFMin
<1>2. \A m \in T : ~(m < n)
    BY <1>1 DEF OpToRel
<1> QED
    BY <1>2

SamePrefix(s, t, n) == \A i \in 1..n : SameEvent(s.log[i], t.log[i])

SameStates(trs, trt, n) == \A i \in 0..n : trs[i] = trt[i]

(* Stores that begin with the same changes went through the same states. *)
LEMMA TracesAgree ==
    ASSUME NEW s \in StoreSet, NEW t \in StoreSet, NEW n \in Nat,
           n <= Len(s.log), n <= Len(t.log), ChangesUpTo(t, n),
           SamePrefix(s, t, n),
           NEW trs, IsTrace(trs, s), NEW trt, IsTrace(trt, t)
    PROVE  SameStates(trs, trt, n)
<1> DEFINE T == {i \in 0..n : trs[i] # trt[i]}
<1>1. SUFFICES ASSUME T # {} PROVE FALSE
    BY DEF SameStates
<1>2. PICK i \in T : \A m \in T : i <= m
    <2>1. T \in SUBSET Nat
        OBVIOUS
    <2> HIDE DEF T
    <2> QED
        BY <1>1, <2>1, LeastNumber
<1>3. i # 0
    BY DEF IsTrace
<1>4. i \in 1..n /\ i - 1 \in 0..n /\ i \in 1..Len(s.log) /\ i \in 1..Len(t.log)
    <2>1. Len(s.log) \in Nat /\ Len(t.log) \in Nat
        BY LenProperties DEF StoreSet
    <2> QED
        BY <1>3, <2>1
<1>5. trs[i - 1] = trt[i - 1]
    BY <1>2, <1>4
<1>6. ChangesUpTo(t, i) /\ ChangesUpTo(s, i)
    BY <1>4 DEF ChangesUpTo, SameEvent, SamePrefix
<1>7. StepsTo(trs[i - 1], s.log[i], trs[i]) /\ StepsTo(trt[i - 1], t.log[i], trt[i])
    BY <1>4, <1>6 DEF IsTrace
<1>8. SameEvent(s.log[i], t.log[i])
    BY <1>4 DEF SamePrefix
<1>9. StepsTo(trs[i - 1], s.log[i], trt[i])
    BY <1>5, <1>7, <1>8, StepsSame
<1>10. trs[i] = trt[i]
    BY <1>7, <1>9 DEF StepsTo
<1> QED
    BY <1>10

(* A replica whose log is a prefix of a source's can take its next change. *)
LEMMA Continues ==
    ASSUME IInv, NEW p \in Peer, NEW q \in Peer, NEW n \in 0..load.maxEvents,
           Mirrors(p, q, n), store[p].log[n + 1].kind = "change",
           NEW event, event = Hash(store[p].log[n + 1])
    PROVE  Reproduces(event, Replayed(store[q], event))
<1>0. load.maxEvents \in Nat
    BY LoadOK DEF IInv
<1>1. /\ store[p] \in StoreSet /\ DOMAIN store[p].log = 1..Len(store[p].log)
      /\ store[q] \in StoreSet /\ DOMAIN store[q].log = 1..Len(store[q].log)
      /\ Len(store[p].log) \in Nat /\ Len(store[q].log) \in Nat
    BY StoreTypes
<1>2. n \in Nat /\ n = Len(store[q].log) /\ n < Len(store[p].log)
    BY <1>0 DEF Mirrors
<1>3. \A i \in 1..n : i \in DOMAIN store[p].log /\ i \in DOMAIN store[q].log
    BY <1>1, <1>2
<1>4. n + 1 \in DOMAIN store[p].log /\ n + 1 \in 1..Len(store[p].log)
    BY <1>1, <1>2
<1>5. \A i \in 1..n : SameEvent(store[p].log[i], store[q].log[i]) /\ store[q].log[i].kind = "change"
    BY <1>3, Agreement DEF Mirrors
<1>6. ChangesUpTo(store[q], n)
    BY <1>5 DEF ChangesUpTo
<1>7. ChangesUpTo(store[p], n + 1)
    <2>1. \A j \in 1..(n + 1) : j \in 1..n \/ j = n + 1
        BY <1>2
    <2> QED
        BY <1>5, <2>1 DEF ChangesUpTo, SameEvent
<1>8. Excisions(store[q]) = {}
    BY <1>1, <1>2, <1>5 DEF Excisions
<1>9. PICK trp \in [0..Len(store[p].log) -> Content] : IsTrace(trp, store[p])
    BY DEF IInv, WellFormed, Traced
<1>10. PICK trq \in [0..Len(store[q].log) -> Content] : IsTrace(trq, store[q])
    BY DEF IInv, WellFormed, Traced
<1>11. trp[n] = trq[n]
    <2>1. n <= Len(store[p].log) /\ n <= Len(store[q].log) /\ n \in 0..n
        BY <1>1, <1>2
    <2>2. SamePrefix(store[p], store[q], n)
        BY <1>5 DEF SamePrefix
    <2>3. store[p] \in StoreSet /\ store[q] \in StoreSet /\ n \in Nat
        BY <1>1, <1>2
    <2>4. SameStates(trp, trq, n)
        BY <1>6, <1>9, <1>10, <2>1, <2>2, <2>3, TracesAgree, Zenon
    <2> QED
        BY <2>1, <2>4 DEF SameStates
<1> DEFINE c == [live |-> store[q].live, names |-> store[q].names]
<1>12. trq[n] = c
    BY <1>2, <1>8, <1>10 DEF IsTrace
<1>13. StepsTo(trp[(n + 1) - 1], store[p].log[n + 1], trp[n + 1])
    BY <1>4, <1>7, <1>9 DEF IsTrace
<1>14. (n + 1) - 1 = n
    BY <1>2
<1>15. store[p].log[n + 1] \in EventSet
    BY <1>4, StoreTypes
<1>16. SameEvent(event, store[p].log[n + 1])
    BY <1>15, HashFields
<1>17. StepsTo(c, event, trp[n + 1])
    BY <1>11, <1>12, <1>13, <1>14, <1>16, StepsSame
<1>18. Reproduces(event, Replayed(c, event))
    BY <1>17 DEF StepsTo
<1>19. Replayed(c, event) = Replayed(store[q], event)
    <2>1. c.live = store[q].live /\ c.names = store[q].names
        OBVIOUS
    <2> HIDE DEF c
    <2> QED
        BY <2>1, EffectIs DEF Replayed
<1> QED
    BY <1>18, <1>19

(* A replica that holds a prefix of a log and nothing else can always take
   the next event of it. *)
THEOREM ReplicasContinue == Spec => []ReplicaContinues
<1>1. IInv => ReplicaContinues
    BY Continues DEF ReplicaContinues
<1> QED
    BY <1>1, Invariance, PTL

-----------------------------------------------------------------------------
(* Logs only grow, and an import commits as a whole.                       *)

(* The steps that change a store. *)
LEMMA StoreSteps ==
    ASSUME IInv, Next, NEW p \in Peer, store'[p] # store[p]
    PROVE  \/ p \in load.peers /\ \E req \in load.requests : Write(p, req)
           \/ p \in load.peers /\ \E x \in Name : Excise(p, x)
           \/ CommitStream(p)
<1>1. store \in [Peer -> StoreSet] /\ load.peers \subseteq Peer
    BY LoadOK DEF IInv
<1>2. PICK r \in load.peers :
              \/ \E req \in load.requests : Write(r, req)
              \/ \E x \in Name : Excise(r, x)
              \/ \E q \in load.peers, since, basis \in 0..load.maxEvents : BeginApply(r, q, since, basis)
              \/ AlreadyApplied(r)
              \/ ApplyLine(r)
              \/ CommitStream(r)
              \/ Abort(r)
    BY DEF Next
<1>3. CASE \E req \in load.requests : Write(r, req)
    <2>1. r = p
        BY <1>1, <1>3 DEF Write
    <2> QED
        BY <1>3, <2>1
<1>4. CASE \E x \in Name : Excise(r, x)
    <2>1. r = p
        BY <1>1, <1>4 DEF Excise
    <2> QED
        BY <1>4, <2>1
<1>5. CASE CommitStream(r)
    <2>1. r = p
        BY <1>1, <1>5 DEF CommitStream
    <2> QED
        BY <1>5, <2>1
<1>6. ASSUME \/ \E q \in load.peers, since, basis \in 0..load.maxEvents : BeginApply(r, q, since, basis)
             \/ AlreadyApplied(r) \/ ApplyLine(r) \/ Abort(r)
      PROVE  FALSE
    BY <1>6 DEF BeginApply, AlreadyApplied, ApplyLine, Abort
<1> QED
    BY <1>2, <1>3, <1>4, <1>5, <1>6

LEMMA WriteGrows ==
    ASSUME IInv, NEW p \in load.peers, NEW req \in load.requests, Write(p, req)
    PROVE  \A i \in DOMAIN store[p].log :
              i \in DOMAIN store'[p].log /\ store'[p].log[i] = store[p].log[i]
<1>1. p \in Peer /\ req.retract \in Seq(Fact) /\ req.assert \in Seq(Fact) /\ OnePerCell(req.assert)
    BY LoadOK DEF IInv
<1>2. store \in [Peer -> StoreSet] /\ store[p] \in StoreSet /\ store[p].log \in Seq(EventSet)
    BY <1>1, StoreTypes DEF IInv
<1>3. PICK eff : eff = Effect(store[p], {}, req.retract, req.assert)
    OBVIOUS
<1>4. PICK t : t = Transacted(store[p], FreshUuid(p), eff)
    OBVIOUS
<1>5. store'[p] = t
    BY <1>1, <1>2, <1>3, <1>4 DEF Write
<1> DEFINE r == Change(FreshUuid(p), eff.created, eff.asserted, eff.retracted)
<1>6. r \in EventSet /\ t.log = Append(store[p].log, r)
    <2>1. FreshUuid(p) \in Peer \X Nat /\ {} \in SUBSET Name
        BY <1>1, FreshIsNew
    <2>2. TransactedAs(store[p], FreshUuid(p), eff, t)
        BY <1>1, <1>2, <1>3, <1>4, <2>1, TransactedFacts
    <2> QED
        BY <2>2 DEF TransactedAs
<1> HIDE DEF r
<1>7. /\ DOMAIN store[p].log = 1..Len(store[p].log) /\ Len(store[p].log) \in Nat
      /\ DOMAIN t.log = 1..(Len(store[p].log) + 1)
      /\ \A i \in 1..Len(store[p].log) : t.log[i] = store[p].log[i]
    BY <1>2, <1>6, Appended
<1> QED
    BY <1>5, <1>7

LEMMA ExciseGrows ==
    ASSUME IInv, NEW p \in load.peers, NEW x \in Name, Excise(p, x)
    PROVE  \A i \in DOMAIN store[p].log :
              /\ i \in DOMAIN store'[p].log
              /\ Hash(store'[p].log[i]) = Hash(store[p].log[i])
              /\ store[p].log[i].redacted # 0 => store'[p].log[i] = store[p].log[i]
<1>1. p \in Peer
    BY LoadOK DEF IInv
<1>2. /\ store \in [Peer -> StoreSet] /\ WellFormed(store[p])
      /\ DOMAIN store[p].log = 1..Len(store[p].log) /\ Len(store[p].log) \in Nat
    BY <1>1, StoreTypes DEF IInv
<1>3. PICK t : t = Excised(store[p], x, FreshUuid(p))
    OBVIOUS
<1>4. store'[p] = t
    BY <1>1, <1>2, <1>3 DEF Excise
<1>5. FreshUuid(p) \in Peer \X Nat /\ FreshUuid(p) \notin Uuids(store[p])
    BY <1>1, FreshIsNew DEF AllUuids
<1>6. /\ WellFormed(t) /\ Len(t.log) = Len(store[p].log) + 1
      /\ \A i \in 1..Len(store[p].log) : Hash(t.log[i]) = Hash(store[p].log[i])
      /\ \A i \in 1..Len(store[p].log) : store[p].log[i].redacted # 0 => t.log[i] = store[p].log[i]
    BY <1>2, <1>3, <1>5, ExcisedWellFormed
<1>7. DOMAIN t.log = 1..Len(t.log)
    BY <1>6, LenProperties DEF WellFormed, StoreSet
<1>8. \A i \in 1..Len(store[p].log) : i \in DOMAIN t.log
    BY <1>2, <1>6, <1>7
<1> QED
    BY <1>2, <1>4, <1>6, <1>8

(* A committing import: its copy extends the store and has its whole file. *)
LEMMA CommitGrows ==
    ASSUME IInv, NEW q \in Peer, CommitStream(q)
    PROVE  /\ \A i \in DOMAIN store[q].log :
                 i \in DOMAIN store'[q].log /\ store'[q].log[i] = store[q].log[i]
           /\ \A i \in DOMAIN job[q].file : job[q].file[i].event.uuid \in Uuids(store'[q])
<1>1. JobOK(q, job[q]) /\ store \in [Peer -> StoreSet]
    BY DEF IInv, CommitStream
<1>2. store'[q] = job[q].work /\ job[q].done = Len(job[q].file)
    BY <1>1 DEF CommitStream
<1>3. DOMAIN job[q].file = 1..Len(job[q].file)
    BY <1>1, LenProperties DEF JobOK, JobSet
<1> QED
    BY <1>1, <1>2, <1>3 DEF JobOK

(* An import commits with every event of its file or not at all, and no
   store loses, reorders or restores an event. *)
THEOREM LogsAreSafe == Spec => LogsSafe
<1> DEFINE A == \A q \in Peer :
                    job[q] # Idle /\ store'[q] # store[q] =>
                        \A i \in DOMAIN job[q].file :
                            job[q].file[i].event.uuid \in Uuids(store'[q])
           G == \A p \in Peer : \A i \in DOMAIN store[p].log :
                    /\ i \in DOMAIN store'[p].log
                    /\ Hash(store'[p].log[i]) = Hash(store[p].log[i])
                    /\ store[p].log[i].redacted # 0 =>
                          store'[p].log[i].redacted = store[p].log[i].redacted
<1>1. IInv /\ [Next]_vars => [A]_vars
    <2> SUFFICES ASSUME IInv, Next PROVE A
        OBVIOUS
    <2>1. SUFFICES ASSUME NEW q \in Peer, job[q] # Idle, store'[q] # store[q]
                   PROVE  \A i \in DOMAIN job[q].file :
                              job[q].file[i].event.uuid \in Uuids(store'[q])
        OBVIOUS
    <2>2. CommitStream(q)
        BY <2>1, StoreSteps DEF Write, Excise
    <2> QED
        BY <2>2, CommitGrows
<1>2. IInv /\ [Next]_vars => [G]_vars
    <2> SUFFICES ASSUME IInv, Next PROVE G
        OBVIOUS
    <2>1. SUFFICES ASSUME NEW p \in Peer
                   PROVE  \A i \in DOMAIN store[p].log :
                            /\ i \in DOMAIN store'[p].log
                            /\ Hash(store'[p].log[i]) = Hash(store[p].log[i])
                            /\ store[p].log[i].redacted # 0 =>
                                  store'[p].log[i].redacted = store[p].log[i].redacted
        OBVIOUS
    <2>2. CASE store'[p] = store[p]
        BY <2>2
    <2>3. CASE store'[p] # store[p]
        <3>1. CASE p \in load.peers /\ \E req \in load.requests : Write(p, req)
            BY <3>1, WriteGrows
        <3>2. CASE p \in load.peers /\ \E x \in Name : Excise(p, x)
            BY <3>2, ExciseGrows
        <3>3. CASE CommitStream(p)
            BY <3>3, CommitGrows
        <3> QED
            BY <2>3, <3>1, <3>2, <3>3, StoreSteps
    <2> QED
        BY <2>2, <2>3
<1>3. Spec => [][A]_vars
    BY <1>1, Invariance, PTL DEF Spec
<1>4. Spec => [][G]_vars
    BY <1>2, Invariance, PTL DEF Spec
<1> QED
    BY <1>3, <1>4 DEF LogsSafe, StreamAtomic, LogGrows
=============================================================================
