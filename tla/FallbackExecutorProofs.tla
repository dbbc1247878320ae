----------------------- MODULE FallbackExecutorProofs -----------------------
(***************************************************************************)
(* Theorems about FallbackExecutor for every registry, ranking, request    *)
(* and number of cancellations.                                            *)
(***************************************************************************)
EXTENDS FallbackExecutor, FiniteSetTheorems, SequenceTheorems,
        WellFoundedInduction, TLAPS

----------------------------------------------------------------------------
(* Compatibility.  What CapabilityProfile's constructor guarantees.        *)
ValidProfile(p) ==
    /\ p.status \in {"verified", "unknown"}
    /\ p.maxInput \in Nat /\ p.maxOutput \in Nat
    /\ p.maxTotal # Unlimited => p.maxTotal \in Nat

(* The list of gaps is complete: without a gap the profile offers          *)
(* everything the request needs (capabilities.py:332-486).                 *)
THEOREM NoGapMeansSuitable ==
    ASSUME NEW p, NEW req, ValidProfile(p), ValidRequirements(req),
           Compatible(p, req)
    PROVE  Suits(p, req)
<1>1. \A code \in DOMAIN GapOf(p, req) : ~GapOf(p, req)[code]
  BY DEF Compatible, Gaps
<1>2. /\ p.status # "unknown"
      /\ req.tools \subseteq p.tools
      /\ req.inputs \subseteq p.inputs
      /\ req.outputs \subseteq p.outputs
      /\ req.stream \in p.streams
      /\ req.experimental \subseteq p.experimental
      /\ p.maturity \in req.maturities
  BY <1>1 DEF GapOf
<1>3. \A s \in Schemas(req) : /\ s.mode \in p.modes
                              /\ s.dialects \subseteq p.dialects
                              /\ s.keywords \subseteq p.keywords
  BY <1>1 DEF GapOf
<1>4. /\ ~(req.minInput > p.maxInput)
      /\ ~(req.minOutput > p.maxOutput)
      /\ p.maxTotal = Unlimited \/ ~(req.minInput + req.minOutput > p.maxTotal)
  BY <1>1 DEF GapOf
<1>5. Needs(req) \subseteq Offers(p)
  <2> SUFFICES ASSUME NEW x \in Needs(req) PROVE x \in Offers(p)
    OBVIOUS
  <2>1. CASE x \in UNION { {<<"mode", s.mode>>}
                             \cup { <<"dialect", d>> : d \in s.dialects }
                             \cup { <<"keyword", k>> : k \in s.keywords }
                           : s \in Schemas(req) }
    BY <2>1, <1>3 DEF Offers
  <2>2. CASE x \in {<<"status", "verified">>, <<"stream", req.stream>>}
    BY <2>2, <1>2 DEF Offers, ValidProfile
  <2>3. CASE x \in { <<"tool", t>> : t \in req.tools }
                   \cup { <<"input", m>> : m \in req.inputs }
                   \cup { <<"output", m>> : m \in req.outputs }
                   \cup { <<"feature", f>> : f \in req.experimental }
    BY <2>3, <1>2 DEF Offers
  <2> QED BY <2>1, <2>2, <2>3 DEF Needs
<1> QED
  BY <1>2, <1>4, <1>5 DEF Suits, ValidProfile, ValidRequirements

(* The registry's profiles are valid.                                      *)
ProfilesAreValid == \A r \in Routes : ValidProfile(Profile[r])

----------------------------------------------------------------------------
(* The walk over a schema.  Two inductions, each as a counterexample that  *)
(* is least by its length: no value is both a subschema and a container of *)
(* subschemas, and the walk gives every value the role its place gives it. *)
(* A path is cut from its end: what IsSubschema asks of a path it asks of  *)
(* the path less its last jump, and of that jump.                          *)

(* A non-empty set of natural numbers has a least element.                 *)
LEMMA SmallestExists ==
    ASSUME NEW S \in SUBSET Nat, S # {}
    PROVE  \E n \in S : \A m \in S : n <= m
<1> DEFINE R == { ss \in Nat \X Nat : ss[1] < ss[2] }
<1>1. IsWellFoundedOn(R, Nat)
  BY NatLessThanWellFounded DEF OpToRel
<1>2. PICK n \in S : \A m \in S : <<m, n>> \notin R
  BY <1>1, WFMin
<1>3. ASSUME NEW m \in S PROVE n <= m
  <2>1. m \in Nat /\ n \in Nat /\ <<m, n>> \notin R
    BY <1>2
  <2> QED BY <2>1
<1> QED BY <1>3

LEMMA LargestBelow ==
    ASSUME NEW n \in Nat, NEW S \in SUBSET (0..n), S # {}
    PROVE  \E a \in S : \A c \in S : c <= a
<1> DEFINE T == { n - c : c \in S }
<1>1. T \in SUBSET Nat /\ T # {}
  <2>1. \A c \in S : n - c \in Nat
    OBVIOUS
  <2> QED BY <2>1
<1>2. PICK t \in T : \A u \in T : t <= u
  BY <1>1, SmallestExists
<1>3. PICK a \in S : t = n - a
  BY <1>2
<1>4. \A c \in S : n - c \in T
  OBVIOUS
<1> HIDE DEF T
<1> QED BY <1>2, <1>3, <1>4

(* One jump of a cut path, from one object of the schema to a subschema.   *)
Hop(schema, path, a, b) ==
    /\ Applies(SubSeq(path, a + 1, b))
    /\ KindFits(schema, SubSeq(path, 1, a), SubSeq(path, a + 1, b))

LEMMA ShortestExists ==
    ASSUME NEW T, T # {}, \A p \in T : Len(p) \in Nat
    PROVE  \E p \in T : \A q \in T : Len(p) <= Len(q)
<1> DEFINE S == { Len(p) : p \in T }
<1>1. S \in SUBSET Nat /\ S # {}
  OBVIOUS
<1>2. PICK n \in S : \A m \in S : n <= m
  BY <1>1, SmallestExists
<1>3. PICK p \in T : n = Len(p)
  OBVIOUS
<1>4. \A q \in T : Len(q) \in S
  OBVIOUS
<1> HIDE DEF S
<1> QED BY <1>2, <1>3, <1>4

LEMMA Prefixes ==
    ASSUME NEW p \in Seq(STRING), NEW k \in 0..Len(p)
    PROVE  /\ SubSeq(p, 1, k) \in Seq(STRING) /\ Len(SubSeq(p, 1, k)) = k
           /\ \A c \in 0..k : SubSeq(SubSeq(p, 1, k), 1, c) = SubSeq(p, 1, c)
           /\ \A a, b \in 0..k :
                 SubSeq(SubSeq(p, 1, k), a + 1, b) = SubSeq(p, a + 1, b)
<1>1. SubSeq(p, 1, k) \in Seq(STRING) /\ Len(SubSeq(p, 1, k)) = k
  OBVIOUS
<1>2. ASSUME NEW a \in 0..k, NEW b \in 0..k
      PROVE  SubSeq(SubSeq(p, 1, k), a + 1, b) = SubSeq(p, a + 1, b)
  OBVIOUS
<1>3. \A c \in 0..k : SubSeq(SubSeq(p, 1, k), 0 + 1, c) = SubSeq(p, 0 + 1, c)
  BY <1>2
<1> QED BY <1>1, <1>2, <1>3

(* The last jump of a path.                                                *)
LEMMA SubschemaLast ==
    ASSUME NEW schema, NEW p \in Seq(STRING), p # <<>>
    PROVE  IsSubschema(schema, p) <=>
               /\ schema.value[p] = "object"
               /\ \E k \in 0..(Len(p) - 1) :
                     IsSubschema(schema, SubSeq(p, 1, k)) /\ Hop(schema, p, k, Len(p))
<1> DEFINE n == Len(p)
           IsCut(q, C) ==
               /\ {0, Len(q)} \subseteq C
               /\ \A c \in C : schema.value[SubSeq(q, 1, c)] = "object"
               /\ \A a, b \in C : a < b /\ (\A c \in C : c <= a \/ b <= c)
                                     => Hop(schema, q, a, b)
<1>1. n \in Nat \ {0} /\ SubSeq(p, 1, n) = p
  OBVIOUS
<1>2. \A q : IsSubschema(schema, q) <=> \E C \in SUBSET (0..Len(q)) : IsCut(q, C)
  BY DEF IsSubschema, Hop
<1>4. ASSUME NEW C \in SUBSET (0..n), IsCut(p, C)
      PROVE  /\ schema.value[p] = "object"
             /\ \E k \in 0..(n - 1) :
                   IsSubschema(schema, SubSeq(p, 1, k)) /\ Hop(schema, p, k, n)
  <2> DEFINE D == C \ {n}
  <2>1. D \in SUBSET (0..n) /\ 0 \in D /\ n \in C
    BY <1>1, <1>4
  <2>2. PICK k \in D : \A c \in D : c <= k
    BY <1>1, <2>1, LargestBelow
  <2>3. /\ n \in Nat /\ k \in Nat /\ k < n /\ k \in C /\ k \in 0..(n - 1)
        /\ \A c \in D : c \in Nat /\ c <= k /\ c \in 0..k
        /\ \A c \in C : c \in D \/ c = n
    <3>1. \A c \in D : c \in 0..n /\ c # n
      OBVIOUS
    <3> HIDE DEF D
    <3>2. \A c \in D : c \in Nat /\ c < n
      BY <1>1, <3>1
    <3>3. k \in C /\ \A c \in C : c \in D \/ c = n
      BY DEF D
    <3>4. n \in Nat /\ k \in Nat /\ k < n
      BY <1>1, <2>2, <3>2
    <3>5. \A c \in D : c \in Nat /\ c <= k
      BY <2>2, <3>2
    <3> HIDE DEF n
    <3>6. k \in 0..(n - 1) /\ \A c \in D : c \in 0..k
      BY <3>4, <3>5
    <3> QED BY <3>3, <3>4, <3>5, <3>6
  <2>4. Hop(schema, p, k, n)
    <3>1. \A c \in C : c <= k \/ n <= c
      BY <2>3
    <3> QED BY <1>4, <2>1, <2>3, <3>1
  <2>5. IsCut(SubSeq(p, 1, k), D)
    <3>1. Len(SubSeq(p, 1, k)) = k
      BY <2>3, Prefixes
    <3>2. \A c \in D : schema.value[SubSeq(SubSeq(p, 1, k), 1, c)] = "object"
      BY <1>4, <2>3, Prefixes
    <3>3. ASSUME NEW a \in D, NEW b \in D, a < b, \A c \in D : c <= a \/ b <= c
          PROVE  Hop(schema, SubSeq(p, 1, k), a, b)
      <4>1. \A c \in C : c <= a \/ b <= c
        <5>1. b <= n
          BY <2>3
        <5> QED BY <2>3, <3>3, <5>1
      <4>2. Hop(schema, p, a, b)
        BY <1>4, <3>3, <4>1
      <4>3. /\ SubSeq(SubSeq(p, 1, k), a + 1, b) = SubSeq(p, a + 1, b)
            /\ SubSeq(SubSeq(p, 1, k), 1, a) = SubSeq(p, 1, a)
        BY <2>3, Prefixes
      <4> QED BY <4>2, <4>3 DEF Hop
    <3> QED BY <2>1, <2>2, <3>1, <3>2, <3>3
  <2>6. IsSubschema(schema, SubSeq(p, 1, k))
    BY <1>2, <2>3, <2>5, Prefixes
  <2> QED BY <1>1, <1>4, <2>3, <2>4, <2>6
<1>5. ASSUME NEW k \in 0..(n - 1), schema.value[p] = "object",
             IsSubschema(schema, SubSeq(p, 1, k)), Hop(schema, p, k, n)
      PROVE  IsSubschema(schema, p)
  <2>1. Len(SubSeq(p, 1, k)) = k
    BY <1>1, Prefixes
  <2>2. PICK D \in SUBSET (0..k) : IsCut(SubSeq(p, 1, k), D)
    BY <1>2, <1>5, <2>1
  <2> DEFINE C == D \cup {n}
  <2>3. /\ \A c \in D : c \in 0..k /\ c \in Nat /\ c < n
        /\ n \in Nat /\ k \in Nat /\ k < n
    BY <1>1
  <2>4. C \in SUBSET (0..n) /\ {0, n} \subseteq C /\ k \in D
    <3>1. 0 \in D /\ k \in D
      BY <2>1, <2>2
    <3>2. \A c \in C : c \in 0..n
      BY <2>3
    <3> QED BY <3>1, <3>2
  <2>5. \A c \in C : schema.value[SubSeq(p, 1, c)] = "object"
    <3>1. ASSUME NEW c \in D PROVE schema.value[SubSeq(p, 1, c)] = "object"
      <4>1. SubSeq(SubSeq(p, 1, k), 1, c) = SubSeq(p, 1, c)
        BY <1>1, Prefixes
      <4> QED BY <2>2, <4>1
    <3> QED BY <1>1, <1>5, <3>1
  <2>6. ASSUME NEW a \in C, NEW b \in C, a < b, \A c \in C : c <= a \/ b <= c
        PROVE  Hop(schema, p, a, b)
    <3>1. a \in D
      BY <2>3, <2>6
    <3>2. CASE b = n
      <4>1. k <= a
        BY <2>3, <2>4, <2>6, <3>2
      <4>2. a = k
        BY <2>3, <3>1, <4>1
      <4> QED BY <1>5, <3>2, <4>2
    <3>3. CASE b # n
      <4>1. b \in D
        BY <3>3
      <4>2. \A c \in D : c <= a \/ b <= c
        BY <2>6
      <4>3. Hop(schema, SubSeq(p, 1, k), a, b)
        BY <2>2, <2>6, <3>1, <4>1, <4>2
      <4>4. a \in 0..k /\ b \in 0..k /\ k \in 0..Len(p)
        BY <2>3, <3>1, <4>1
      <4>5. /\ SubSeq(SubSeq(p, 1, k), a + 1, b) = SubSeq(p, a + 1, b)
            /\ SubSeq(SubSeq(p, 1, k), 1, a) = SubSeq(p, 1, a)
        BY <4>4, Prefixes
      <4> QED BY <4>3, <4>5 DEF Hop
    <3> QED BY <3>2, <3>3
  <2>7. IsCut(p, C)
    BY <2>4, <2>5, <2>6
  <2> HIDE DEF IsCut
  <2> QED BY <1>2, <2>4, <2>7
<1> HIDE DEF IsCut
<1> QED BY <1>1, <1>2, <1>4, <1>5

(* The keywords of each kind.                                              *)
LEMMA KeywordKinds ==
    ASSUME NEW keyword, NEW kind
    PROVE  /\ UnderKeyword(keyword, kind) \in {"schema", "schemas", "data"}
           /\ UnderKeyword(keyword, kind) = "schema" <=>
                 /\ keyword \in SingleContainers \cup FlexibleContainers
                 /\ kind = "object"
           /\ UnderKeyword(keyword, kind) = "schemas" <=>
                 /\ keyword \in MapContainers \cup SequenceContainers
                                   \cup FlexibleContainers
                 /\ kind = (IF keyword \in MapContainers THEN "object" ELSE "array")
<1>1. /\ MapContainers \cap (SingleContainers \cup FlexibleContainers) = {}
      /\ MapContainers \cap SequenceContainers = {}
  BY DEF MapContainers, SingleContainers, SequenceContainers, FlexibleContainers
<1> QED BY <1>1 DEF UnderKeyword

(* The last keys of a path.                                                *)
LEMMA LastKeys ==
    ASSUME NEW p \in Seq(STRING), p # <<>>
    PROVE  /\ Len(p) \in Nat \ {0} /\ SubSeq(p, 1, Len(p)) = p
           /\ Parent(p) \in Seq(STRING) /\ Len(Parent(p)) = Len(p) - 1
           /\ Parent(p) \o <<Key(p)>> = p
           /\ Len(SubSeq(p, Len(p), Len(p))) = 1
           /\ SubSeq(p, Len(p), Len(p))[1] = Key(p)
           /\ Parent(p) # <<>> <=> Len(p) >= 2
           /\ Len(p) >= 2 =>
                 /\ SubSeq(p, 1, Len(p) - 2) = Parent(Parent(p))
                 /\ Len(SubSeq(p, Len(p) - 1, Len(p))) = 2
                 /\ SubSeq(p, Len(p) - 1, Len(p))[1] = Key(Parent(p))
<1>1. Len(p) \in Nat \ {0} /\ SubSeq(p, 1, Len(p)) = p
  BY EmptySeq, SubSeqFull
<1>2. Parent(p) \in Seq(STRING) /\ Len(Parent(p)) = Len(p) - 1
  BY <1>1 DEF Parent
<1>3. Parent(p) \o <<Key(p)>> = p
  <2>1. 1 \in 1..Len(p) /\ Len(p) \in 1..Len(p)
    BY <1>1
  <2>2. SubSeq(p, 1, Len(p)) = SubSeq(p, 1, Len(p) - 1) \o <<p[Len(p)]>>
    BY <2>1, SubSeqRecursiveSecond
  <2> QED BY <1>1, <2>2 DEF Parent, Key
<1>4. Len(SubSeq(p, Len(p), Len(p))) = 1 /\ SubSeq(p, Len(p), Len(p))[1] = Key(p)
  BY <1>1 DEF Key
<1>5. Parent(p) # <<>> <=> Len(p) >= 2
  BY <1>1, <1>2, EmptySeq
<1>6. ASSUME Len(p) >= 2
      PROVE  /\ SubSeq(p, 1, Len(p) - 2) = Parent(Parent(p))
             /\ Len(SubSeq(p, Len(p) - 1, Len(p))) = 2
             /\ SubSeq(p, Len(p) - 1, Len(p))[1] = Key(Parent(p))
  <2>1. SubSeq(p, 1, Len(p) - 2) = Parent(Parent(p))
    <3>1. Len(p) - 1 \in 0..Len(p) /\ Len(p) - 2 \in 0..(Len(p) - 1)
      BY <1>1, <1>6
    <3>2. SubSeq(SubSeq(p, 1, Len(p) - 1), 1, Len(p) - 2) = SubSeq(p, 1, Len(p) - 2)
      BY <3>1, Prefixes
    <3>3. (Len(p) - 1) - 1 = Len(p) - 2
      BY <1>1
    <3> QED BY <1>2, <3>2, <3>3 DEF Parent
  <2>2. Key(Parent(p)) = p[Len(p) - 1]
    BY <1>1, <1>2, <1>6 DEF Parent, Key
  <2> QED BY <1>1, <1>6, <2>1, <2>2
<1> QED BY <1>1, <1>2, <1>3, <1>4, <1>5, <1>6

(* The last jump is one or two keys long: either the value of a keyword    *)
(* that holds a schema, or a member of the value of one that holds schemas.*)
LEMMA SubschemaStep ==
    ASSUME NEW schema, NEW p \in Seq(STRING), p # <<>>
    PROVE  IsSubschema(schema, p) <=>
               /\ schema.value[p] = "object"
               /\ \/ /\ IsSubschema(schema, Parent(p))
                     /\ UnderKeyword(Key(p), schema.value[p]) = "schema"
                  \/ /\ Parent(p) # <<>>
                     /\ IsSubschema(schema, Parent(Parent(p)))
                     /\ UnderKeyword(Key(Parent(p)), schema.value[Parent(p)])
                            = "schemas"
<1> DEFINE n == Len(p)
<1>0. n \in Nat /\ n >= 1 /\ n = Len(p)
  BY LastKeys
<1>1. ASSUME NEW k \in 0..(n - 1), Applies(SubSeq(p, k + 1, n))
      PROVE  k = n - 1 \/ (k = n - 2 /\ n >= 2)
  <2>1. Len(SubSeq(p, k + 1, n)) = n - k
    OBVIOUS
  <2>2. n - k = 1 \/ n - k = 2
    BY <1>1, <2>1 DEF Applies
  <2> QED BY <1>0, <2>2
<1>2. ASSUME schema.value[p] = "object"
      PROVE  Hop(schema, p, n - 1, n) <=>
                 UnderKeyword(Key(p), schema.value[p]) = "schema"
  <2> DEFINE piece == SubSeq(p, n, n)
  <2>1. n - 1 + 1 = n /\ Len(piece) = 1 /\ piece[1] = Key(p)
    <3>1. n - 1 + 1 = n
      BY <1>0
    <3> QED BY <3>1, LastKeys
  <2> HIDE DEF piece
  <2>2. Applies(piece) /\ KindFits(schema, SubSeq(p, 1, n - 1), piece)
        <=> Key(p) \in SingleContainers \cup FlexibleContainers
    BY <2>1 DEF Applies, KindFits
  <2>3. Hop(schema, p, n - 1, n) <=>
            Key(p) \in SingleContainers \cup FlexibleContainers
    BY <2>1, <2>2 DEF Hop, piece
  <2> QED BY <1>2, <2>3, KeywordKinds
<1>3. ASSUME n >= 2
      PROVE  Hop(schema, p, n - 2, n) <=>
                 UnderKeyword(Key(Parent(p)), schema.value[Parent(p)]) = "schemas"
  <2> DEFINE piece == SubSeq(p, n - 1, n)
  <2>1. n - 2 + 1 = n - 1 /\ Len(piece) = 2 /\ piece[1] = Key(Parent(p))
    <3>1. n - 2 + 1 = n - 1
      BY <1>0
    <3> QED BY <1>3, <3>1, LastKeys
  <2>2. /\ SubSeq(p, 1, n - 2) = Parent(Parent(p))
        /\ Parent(Parent(p)) \o <<Key(Parent(p))>> = Parent(p)
    <3>1. Parent(p) \in Seq(STRING) /\ Parent(p) # <<>>
      BY <1>3, LastKeys
    <3> QED BY <1>3, <3>1, LastKeys
  <2> HIDE DEF piece
  <2>3. Applies(piece) /\ KindFits(schema, SubSeq(p, 1, n - 2), piece)
        <=> /\ Key(Parent(p)) \in MapContainers \cup SequenceContainers
                                       \cup FlexibleContainers
            /\ schema.value[Parent(p)] =
                   (IF Key(Parent(p)) \in MapContainers THEN "object" ELSE "array")
    <3>1. Applies(piece) <=>
              Key(Parent(p)) \in MapContainers \cup SequenceContainers
                                     \cup FlexibleContainers
      BY <2>1 DEF Applies
    <3>2. KindFits(schema, SubSeq(p, 1, n - 2), piece) <=>
              schema.value[Parent(p)] =
                 (IF Key(Parent(p)) \in MapContainers THEN "object" ELSE "array")
      <4>1. SubSeq(p, 1, n - 2) \o <<piece[1]>> = Parent(p)
        BY <2>1, <2>2
      <4> QED BY <2>1, <4>1 DEF KindFits
    <3> QED BY <3>1, <3>2
  <2>4. Hop(schema, p, n - 2, n) <=>
            Applies(piece) /\ KindFits(schema, SubSeq(p, 1, n - 2), piece)
    BY <2>1 DEF Hop, piece
  <2> QED BY <2>3, <2>4, KeywordKinds
<1>4. SubSeq(p, 1, n - 1) = Parent(p) /\ n - 1 \in 0..(n - 1)
  BY <1>0 DEF Parent
<1>5. n >= 2 => SubSeq(p, 1, n - 2) = Parent(Parent(p)) /\ n - 2 \in 0..(n - 1)
  <2>1. n >= 2 => SubSeq(p, 1, n - 2) = Parent(Parent(p))
    BY LastKeys
  <2> QED BY <1>0, <2>1
<1>6. Parent(p) # <<>> <=> n >= 2
  BY LastKeys
<1> HIDE DEF n
<1>7. (\E k \in 0..(n - 1) :
          IsSubschema(schema, SubSeq(p, 1, k)) /\ Hop(schema, p, k, n))
      <=> \/ IsSubschema(schema, Parent(p)) /\ Hop(schema, p, n - 1, n)
          \/ /\ n >= 2
             /\ IsSubschema(schema, Parent(Parent(p)))
             /\ Hop(schema, p, n - 2, n)
  BY <1>1, <1>4, <1>5 DEF Hop
<1> QED BY <1>0, <1>2, <1>3, <1>6, <1>7, SubschemaLast

(* The root of a schema is a schema.                                       *)
LEMMA RootIsSubschema ==
    ASSUME NEW schema, IsSchema(schema)
    PROVE  IsSubschema(schema, <<>>)
<1>1. ASSUME NEW e, Len(e) = 0, SubSeq(e, 1, 0) = e, schema.value[e] = "object"
      PROVE  IsSubschema(schema, e)
  <2>1. {0} \in SUBSET (0..Len(e)) /\ {0, Len(e)} \subseteq {0}
    BY <1>1
  <2>2. \A c \in {0} : schema.value[SubSeq(e, 1, c)] = "object"
    BY <1>1
  <2>3. \A a, b \in {0} : ~(a < b)
    OBVIOUS
  <2> QED BY <2>1, <2>2, <2>3 DEF IsSubschema
<1>2. Len(<<>>) = 0 /\ SubSeq(<<>>, 1, 0) = <<>>
  OBVIOUS
<1>3. schema.value[<<>>] = "object"
  BY DEF IsSchema
<1> QED BY <1>1, <1>2, <1>3

(* No value is both a subschema and a container of subschemas.             *)
LEMMA RolesExclude ==
    ASSUME NEW schema, IsSchema(schema), NEW p \in DOMAIN schema.value, p # <<>>,
           IsSubschema(schema, p), IsSubschema(schema, Parent(p))
    PROVE  UnderKeyword(Key(p), schema.value[p]) # "schemas"
<1> DEFINE Both(q) == /\ q # <<>>
                      /\ IsSubschema(schema, q) /\ IsSubschema(schema, Parent(q))
                      /\ UnderKeyword(Key(q), schema.value[q]) = "schemas"
           Paths == { q \in DOMAIN schema.value : Both(q) }
<1> SUFFICES ASSUME Both(p) PROVE FALSE
  OBVIOUS
<1>1. \A q \in DOMAIN schema.value : q \in Seq(STRING) /\ Len(q) \in Nat
  BY DEF IsSchema
<1>2. Paths # {} /\ \A q \in Paths : Len(q) \in Nat
  BY <1>1
<1> HIDE DEF Paths
<1>3. PICK q \in Paths : \A r \in Paths : Len(q) <= Len(r)
  BY <1>2, ShortestExists
<1>4. q \in DOMAIN schema.value /\ q \in Seq(STRING) /\ Both(q)
  BY <1>1 DEF Paths
<1>5. /\ Parent(q) # <<>>
      /\ IsSubschema(schema, Parent(Parent(q)))
      /\ UnderKeyword(Key(Parent(q)), schema.value[Parent(q)]) = "schemas"
  BY <1>4, SubschemaStep
<1>6. Parent(q) \in DOMAIN schema.value /\ Both(Parent(q))
  BY <1>4, <1>5 DEF IsSchema
<1>7. Len(q) <= Len(Parent(q))
  BY <1>3, <1>6 DEF Paths
<1>8. Len(q) \in Nat /\ Len(Parent(q)) = Len(q) - 1
  BY <1>4, LastKeys
<1> QED BY <1>7, <1>8

(* What each value is, by where it stands.                                 *)
RoleOf(schema, p) ==
    IF IsSubschema(schema, p) THEN "schema"
    ELSE IF /\ p # <<>> /\ IsSubschema(schema, Parent(p))
            /\ UnderKeyword(Key(p), schema.value[p]) = "schemas"
         THEN "schemas" ELSE "data"

RoleFrom(schema, parent, p) ==
    CASE parent = "schema" -> UnderKeyword(Key(p), schema.value[p])
      [] parent = "schemas" /\ schema.value[p] = "object" -> "schema"
      [] OTHER -> "data"

LEMMA RoleOfStep ==
    ASSUME NEW schema, IsSchema(schema), NEW p \in DOMAIN schema.value, p # <<>>
    PROVE  RoleOf(schema, p) = RoleFrom(schema, RoleOf(schema, Parent(p)), p)
<1> DEFINE q == Parent(p)
           kind(r) == UnderKeyword(Key(r), schema.value[r])
<1>1. p \in Seq(STRING) /\ q \in DOMAIN schema.value /\ q \in Seq(STRING)
  BY DEF IsSchema
<1>2. IsSubschema(schema, p) <=>
          /\ schema.value[p] = "object"
          /\ \/ IsSubschema(schema, q) /\ kind(p) = "schema"
             \/ q # <<>> /\ IsSubschema(schema, Parent(q)) /\ kind(q) = "schemas"
  BY <1>1, SubschemaStep
<1>3. IsSubschema(schema, p) /\ IsSubschema(schema, q) => kind(p) # "schemas"
  BY RolesExclude
<1>4. q # <<>> /\ IsSubschema(schema, q) /\ IsSubschema(schema, Parent(q))
      => kind(q) # "schemas"
  BY <1>1, RolesExclude
<1>5. /\ kind(p) \in {"schema", "schemas", "data"}
      /\ kind(p) = "schema" => schema.value[p] = "object"
  BY KeywordKinds
<1> HIDE DEF q, kind
<1>6. CASE IsSubschema(schema, q)
  <2>1. RoleOf(schema, q) = "schema"
    BY <1>6 DEF RoleOf
  <2>2. RoleOf(schema, p) = kind(p)
    BY <1>2, <1>3, <1>4, <1>5, <1>6 DEF RoleOf, kind, q
  <2> QED BY <2>1, <2>2 DEF RoleFrom, kind, q
<1>7. CASE ~IsSubschema(schema, q) /\ q # <<>> /\ IsSubschema(schema, Parent(q))
           /\ kind(q) = "schemas"
  <2>1. RoleOf(schema, q) = "schemas"
    BY <1>7 DEF RoleOf, kind
  <2>2. RoleOf(schema, p) = IF schema.value[p] = "object" THEN "schema" ELSE "data"
    BY <1>2, <1>7 DEF RoleOf, q
  <2> QED BY <2>1, <2>2 DEF RoleFrom, q
<1>8. CASE ~IsSubschema(schema, q) /\ ~(q # <<>> /\ IsSubschema(schema, Parent(q))
           /\ kind(q) = "schemas")
  <2>1. RoleOf(schema, q) = "data"
    BY <1>8 DEF RoleOf, kind
  <2>2. RoleOf(schema, p) = "data"
    BY <1>2, <1>8 DEF RoleOf, q
  <2> QED BY <2>1, <2>2 DEF RoleFrom, q
<1> QED BY <1>6, <1>7, <1>8

(* The walk gives every value the role its place gives it.                 *)
LEMMA RolesByPlace ==
    ASSUME NEW schema, IsSchema(schema)
    PROVE  \A p \in DOMAIN schema.value : Roles(schema)[p] = RoleOf(schema, p)
<1> DEFINE D == DOMAIN schema.value
           Walk(f) == [p \in D |-> IF p = <<>> THEN "schema"
                                   ELSE RoleFrom(schema, f[Parent(p)], p)]
           g == [p \in D |-> RoleOf(schema, p)]
<1>1. \A p \in D : /\ p \in Seq(STRING) /\ Len(p) \in Nat
                   /\ p # <<>> => Parent(p) \in D /\ Len(Parent(p)) < Len(p)
  <2>1. ASSUME NEW p \in D
        PROVE  p \in Seq(STRING) /\ (p # <<>> => Parent(p) \in D)
    BY DEF IsSchema
  <2>2. ASSUME NEW p \in D, p # <<>> PROVE Len(Parent(p)) < Len(p)
    <3>1. Len(p) \in Nat /\ Len(Parent(p)) = Len(p) - 1
      BY <2>1, <2>2, LastKeys
    <3> QED BY <3>1
  <2>3. \A p \in D : Len(p) \in Nat
    BY <2>1
  <2> QED BY <2>1, <2>2, <2>3
<1>2. g = Walk(g)
  <2>1. \A p \in D : p = <<>> => RoleOf(schema, p) = "schema"
    BY RootIsSubschema DEF RoleOf
  <2>2. \A p \in D : p # <<>> =>
            RoleOf(schema, p) = RoleFrom(schema, RoleOf(schema, Parent(p)), p)
    BY RoleOfStep
  <2>3. \A p \in D : p # <<>> => g[Parent(p)] = RoleOf(schema, Parent(p))
    BY <1>1
  <2> QED BY <2>1, <2>2, <2>3
<1>3. Roles(schema) = CHOOSE f : f = Walk(f)
  BY DEF Roles, RoleFrom
<1> DEFINE role == Roles(schema)
<1>4. role = Walk(role)
  BY <1>2, <1>3
<1> DEFINE Wrong == { p \in D : role[p] # RoleOf(schema, p) }
<1> SUFFICES ASSUME Wrong # {} PROVE FALSE
  OBVIOUS
<1>5. \A p \in Wrong : Len(p) \in Nat
  BY <1>1
<1> HIDE DEF Wrong
<1>6. PICK p \in Wrong : \A r \in Wrong : Len(p) <= Len(r)
  BY <1>5, ShortestExists
<1> USE DEF Wrong
<1>7. p # <<>>
  BY <1>4, RootIsSubschema DEF RoleOf
<1>8. Parent(p) \notin Wrong /\ Parent(p) \in D
  BY <1>1, <1>6, <1>7
<1>9. role[p] = RoleFrom(schema, role[Parent(p)], p)
  BY <1>4, <1>7
<1> QED BY <1>7, <1>8, <1>9, RoleOfStep

(* The walk collects exactly the keywords that the schema uses             *)
(* (routing.py:193-228).                                                   *)
THEOREM WalkIsExact ==
    ASSUME NEW schema, IsSchema(schema)
    PROVE  CollectedKeywords(schema) = UsedKeywords(schema)
<1>1. ASSUME NEW q \in DOMAIN schema.value \ {<<>>}
      PROVE  Roles(schema)[Parent(q)] = "schema" <=> IsSubschema(schema, Parent(q))
  <2>1. Parent(q) \in DOMAIN schema.value
    BY DEF IsSchema
  <2>2. Roles(schema)[Parent(q)] = RoleOf(schema, Parent(q))
    BY <2>1, RolesByPlace
  <2> QED BY <2>2 DEF RoleOf
<1> QED BY <1>1 DEF CollectedKeywords, UsedKeywords

----------------------------------------------------------------------------
(* The inductive invariant, by topic.                                      *)

(* A child runs only while the executor waits for it.                      *)
ChildrenInv ==
    /\ ClientLive => pc \in {"wait", "abort"}
    /\ TimerLive => pc \in Awaits
    /\ pc = "wait" => /\ client \in {"created", "running"} \cup Results
                      /\ timer \in {"armed", "fired"}
    /\ pc = "settle" => client \in Results /\ timer \in {"cancelling", "stopped"}
    /\ pc = "abort" => ending # "none"

(* The routes are taken in ranking order.                                  *)
RankInv ==
    /\ excluded \subseteq Suitable
    /\ \A x \in excluded, c \in Suitable \ excluded : Before(x, c)
    /\ route # NoRoute =>
          /\ route \in Suitable
          /\ \A s \in Suitable : Before(s, route) => s \in excluded
    /\ pc \in {"planned"} \cup Awaits => route \in Candidates
    /\ pc = "begin" => attempts = <<>>

(* The attempt log is the history of the excluded routes.                  *)
LogInv ==
    /\ \A i \in DOMAIN attempts :
          pc # "done" \/ outcome.kind # "response" => attempts[i].route \in excluded
    /\ \A x \in excluded : \E i \in DOMAIN attempts : attempts[i].route = x
    /\ \A i, j \in DOMAIN attempts :
          i < j => Before(attempts[i].route, attempts[j].route)
    /\ outcome.kind = "no_route" => Suitable \subseteq excluded

(* Only the provider of the current attempt can have taken the request up. *)
EffectInv ==
    /\ generated \subseteq {route} \cap Suitable
    /\ generated \cap excluded = {}
    /\ pc \in {"begin", "check", "planned"} => generated = {}
    /\ pc \in Awaits /\ client = "effect_free" => generated = {}
    /\ pc \in Awaits /\ client \in {"answer", "foreign"} => route \in generated

OutcomeInv ==
    /\ pc # "done" => outcome = NoOutcome
    /\ stops > 0 => \/ pc = "abort" /\ ending = "cancelled"
                    \/ pc = "done" /\ outcome.kind = "cancelled"

IInv == TypeOK /\ ChildrenInv /\ RankInv /\ LogInv /\ EffectInv /\ OutcomeInv

LEMMA BeforeIsTotal ==
    ASSUME NEW r \in Routes, NEW s \in Routes
    PROVE  /\ ~(Before(r, s) /\ Before(s, r))
           /\ r # s => Before(r, s) \/ Before(s, r)
BY FallbackAssumption DEF Before

LEMMA Initially == Init => IInv
BY FallbackAssumption DEF Init, IInv, TypeOK, ChildrenInv, RankInv, LogInv,
   EffectInv, OutcomeInv, Points, Awaits, Results, Kinds, NoOutcome, ClientLive,
   TimerLive, Candidates

LEMMA TypeStep == IInv /\ [Next]_vars => TypeOK'
<1> SUFFICES ASSUME IInv, [Next]_vars PROVE TypeOK'
  OBVIOUS
<1> USE FallbackAssumption
    DEF IInv, TypeOK, Points, Awaits, Results, Kinds, NoOutcome, Finish, plan
<1>1. CASE Begin \/ Expire \/ GiveUp
  <2>1. CASE Begin
    BY <2>1 DEF Begin
  <2>2. CASE Expire
    BY <2>2 DEF Expire
  <2>3. CASE GiveUp
    BY <2>3 DEF GiveUp
  <2> QED BY <1>1, <2>1, <2>2, <2>3
<1>2. CASE Plan \/ StartAttempt
  BY <1>2 DEF Plan, StartAttempt, Candidates, Suitable
<1>3. CASE LoseRace \/ WinRace
  BY <1>3 DEF LoseRace, WinRace, CancelClient, CancelTimer
<1>4. CASE EndAbort
  BY <1>4 DEF EndAbort, ChildrenInv
<1>5. CASE FallBack \/ Return
  <2>1. route \in Routes
    BY <1>5 DEF FallBack, Return, Settled, RankInv, Candidates, Suitable
  <2>2. \A ended \in {"effect_free_failure", "succeeded"} :
          Record(ended) => attempts' \in Seq([route : Routes,
                                   ended : {"effect_free_failure", "succeeded"}])
    BY <2>1 DEF Record
  <2>3. CASE FallBack
    BY <2>1, <2>2, <2>3 DEF FallBack, Settled
  <2>4. CASE Return
    BY <2>1, <2>2, <2>4 DEF Return, Settled
  <2> QED BY <1>5, <2>3, <2>4
<1>6. CASE Raise
  BY <1>6 DEF Raise, Settled
<1>7. CASE CallerCancels
  BY <1>7 DEF CallerCancels, CancelClient, CancelTimer
<1>8. CASE ProviderGenerates
  BY <1>8 DEF ProviderGenerates, ChildrenInv, ClientLive, RankInv, Candidates,
      Suitable
<1>9. CASE ClientStarts \/ ClientAnswers \/ ClientFails \/ ClientClaims
           \/ ClientStops \/ TimerFires \/ TimerStops \/ DeadlinePasses
  <2>1. CASE ClientStarts
    BY <2>1 DEF ClientStarts
  <2>2. CASE ClientAnswers
    BY <2>2 DEF ClientAnswers
  <2>3. CASE ClientFails
    BY <2>3 DEF ClientFails
  <2>4. CASE ClientClaims
    BY <2>4 DEF ClientClaims
  <2>5. CASE ClientStops
    BY <2>5 DEF ClientStops
  <2>6. CASE TimerFires
    BY <2>6 DEF TimerFires
  <2>7. CASE TimerStops
    BY <2>7 DEF TimerStops
  <2>8. CASE DeadlinePasses
    BY <2>8 DEF DeadlinePasses
  <2> QED BY <1>9, <2>1, <2>2, <2>3, <2>4, <2>5, <2>6, <2>7, <2>8
<1>10. CASE UNCHANGED vars
  BY <1>10 DEF vars
<1> QED
  BY <1>1, <1>2, <1>3, <1>4, <1>5, <1>6, <1>7, <1>8, <1>9, <1>10
  DEF Next, Complete, Environment
LEMMA ChildrenStep == IInv /\ [Next]_vars => ChildrenInv'
<1> SUFFICES ASSUME IInv, [Next]_vars PROVE ChildrenInv'
  OBVIOUS
<1>t. TypeOK'
  BY TypeStep
<1> USE FallbackAssumption
    DEF IInv, TypeOK, ChildrenInv, ClientLive, TimerLive, Awaits, Points,
        Results, Finish, plan
<1>1. CASE Begin
  BY <1>1, <1>t DEF Begin
<1>2. CASE Expire
  BY <1>2, <1>t DEF Expire
<1>3. CASE Plan
  BY <1>3, <1>t DEF Plan
<1>4. CASE GiveUp
  BY <1>4, <1>t DEF GiveUp
<1>5. CASE StartAttempt
  BY <1>5, <1>t DEF StartAttempt
<1>6. CASE LoseRace
  BY <1>6, <1>t DEF LoseRace, CancelClient
<1>7. CASE WinRace
  BY <1>7, <1>t DEF WinRace, CancelTimer
<1>8. CASE EndAbort
  BY <1>8, <1>t DEF EndAbort
<1>9. CASE FallBack
  BY <1>9, <1>t DEF FallBack, Settled, Record
<1>10. CASE Return
  BY <1>10, <1>t DEF Return, Settled, Record
<1>11. CASE Raise
  BY <1>11, <1>t DEF Raise, Settled
<1>12. CASE CallerCancels
  BY <1>12, <1>t DEF CallerCancels, CancelClient, CancelTimer
<1>13. CASE ClientStarts
  BY <1>13, <1>t DEF ClientStarts
<1>14. CASE ProviderGenerates
  BY <1>14, <1>t DEF ProviderGenerates
<1>15. CASE ClientAnswers
  BY <1>15, <1>t DEF ClientAnswers
<1>16. CASE ClientFails
  BY <1>16, <1>t DEF ClientFails
<1>17. CASE ClientClaims
  BY <1>17, <1>t DEF ClientClaims
<1>18. CASE ClientStops
  BY <1>18, <1>t DEF ClientStops
<1>19. CASE TimerFires
  BY <1>19, <1>t DEF TimerFires
<1>20. CASE TimerStops
  BY <1>20, <1>t DEF TimerStops
<1>21. CASE DeadlinePasses
  BY <1>21, <1>t DEF DeadlinePasses
<1>22. CASE UNCHANGED vars
  BY <1>22 DEF vars
<1> QED
  BY <1>1, <1>2, <1>3, <1>4, <1>5, <1>6, <1>7, <1>8, <1>9, <1>10,
     <1>11, <1>12, <1>13, <1>14, <1>15, <1>16, <1>17, <1>18, <1>19,
     <1>20, <1>21, <1>22
  DEF Next, Complete, Environment

LEMMA RankStep == IInv /\ [Next]_vars => RankInv'
<1> SUFFICES ASSUME IInv, [Next]_vars PROVE RankInv'
  OBVIOUS
<1>t. TypeOK'
  BY TypeStep
<1> USE FallbackAssumption
    DEF IInv, TypeOK, RankInv, Suitable, Candidates, Awaits, Points, Finish,
        plan
<1>1. CASE Begin
  BY <1>1, <1>t DEF Begin
<1>2. CASE Expire
  BY <1>2, <1>t DEF Expire
<1>3. CASE Plan
  <2>1. PICK r \in Candidates :
            route' = r /\ \A s \in Candidates \ {r} : Before(r, s)
    BY <1>3 DEF Plan
  <2>2. ASSUME NEW s \in Suitable, Before(s, r) PROVE s \in excluded
    BY <2>1, <2>2, BeforeIsTotal
  <2>3. /\ Suitable' = Suitable /\ UNCHANGED <<excluded, attempts>>
        /\ pc' = "planned"
    BY <1>3 DEF Plan
  <2>4. \A x, c : Before(x, c)' <=> Before(x, c)
    BY DEF Before
  <2> HIDE DEF Suitable
  <2> QED BY <2>1, <2>2, <2>3, <2>4
<1>4. CASE GiveUp
  BY <1>4, <1>t DEF GiveUp
<1>5. CASE StartAttempt
  BY <1>5, <1>t DEF StartAttempt
<1>6. CASE LoseRace
  BY <1>6, <1>t DEF LoseRace, CancelClient
<1>7. CASE WinRace
  BY <1>7, <1>t DEF WinRace, CancelTimer
<1>8. CASE EndAbort
  BY <1>8, <1>t DEF EndAbort
<1>9. CASE FallBack
  <2>1. /\ route \in Candidates /\ route # NoRoute
        /\ excluded' = excluded \cup {route} /\ route' = route
        /\ Suitable' = Suitable /\ pc' = "check"
    BY <1>9 DEF FallBack, Settled
  <2>2. \A s \in Suitable : Before(s, route) => s \in excluded
    BY <2>1
  <2>3. ASSUME NEW c \in Suitable \ excluded' PROVE Before(route, c)
    BY <2>1, <2>2, <2>3, BeforeIsTotal
  <2> HIDE DEF Suitable
  <2>4. ASSUME NEW x \in excluded', NEW c \in (Suitable \ excluded)'
        PROVE  Before(x, c)
    BY <2>1, <2>3, <2>4
  <2> QED BY <2>1, <2>2, <2>4 DEF Before
<1>10. CASE Return
  BY <1>10, <1>t DEF Return, Settled, Record
<1>11. CASE Raise
  BY <1>11, <1>t DEF Raise, Settled
<1>12. CASE CallerCancels
  BY <1>12, <1>t DEF CallerCancels, CancelClient, CancelTimer
<1>13. CASE ClientStarts
  BY <1>13, <1>t DEF ClientStarts
<1>14. CASE ProviderGenerates
  BY <1>14, <1>t DEF ProviderGenerates
<1>15. CASE ClientAnswers
  BY <1>15, <1>t DEF ClientAnswers
<1>16. CASE ClientFails
  BY <1>16, <1>t DEF ClientFails
<1>17. CASE ClientClaims
  BY <1>17, <1>t DEF ClientClaims
<1>18. CASE ClientStops
  BY <1>18, <1>t DEF ClientStops
<1>19. CASE TimerFires
  BY <1>19, <1>t DEF TimerFires
<1>20. CASE TimerStops
  BY <1>20, <1>t DEF TimerStops
<1>21. CASE DeadlinePasses
  BY <1>21, <1>t DEF DeadlinePasses
<1>22. CASE UNCHANGED vars
  BY <1>22 DEF vars
<1> QED
  BY <1>1, <1>2, <1>3, <1>4, <1>5, <1>6, <1>7, <1>8, <1>9, <1>10,
     <1>11, <1>12, <1>13, <1>14, <1>15, <1>16, <1>17, <1>18, <1>19,
     <1>20, <1>21, <1>22
  DEF Next, Complete, Environment

LEMMA EffectStep == IInv /\ [Next]_vars => EffectInv'
<1> SUFFICES ASSUME IInv, [Next]_vars PROVE EffectInv'
  OBVIOUS
<1>t. TypeOK'
  BY TypeStep
<1> USE FallbackAssumption
    DEF IInv, TypeOK, EffectInv, ChildrenInv, RankInv, ClientLive, Candidates,
        Suitable, Awaits, Points, Results, Finish, plan
<1>1. CASE Begin
  BY <1>1, <1>t DEF Begin
<1>2. CASE Expire
  BY <1>2, <1>t DEF Expire
<1>3. CASE Plan
  BY <1>3, <1>t DEF Plan
<1>4. CASE GiveUp
  BY <1>4, <1>t DEF GiveUp
<1>5. CASE StartAttempt
  BY <1>5, <1>t DEF StartAttempt
<1>6. CASE LoseRace
  BY <1>6, <1>t DEF LoseRace, CancelClient
<1>7. CASE WinRace
  BY <1>7, <1>t DEF WinRace, CancelTimer
<1>8. CASE EndAbort
  BY <1>8, <1>t DEF EndAbort
<1>9. CASE FallBack
  BY <1>9, <1>t DEF FallBack, Settled, Record
<1>10. CASE Return
  BY <1>10, <1>t DEF Return, Settled, Record
<1>11. CASE Raise
  BY <1>11, <1>t DEF Raise, Settled
<1>12. CASE CallerCancels
  BY <1>12, <1>t DEF CallerCancels, CancelClient, CancelTimer
<1>13. CASE ClientStarts
  BY <1>13, <1>t DEF ClientStarts
<1>14. CASE ProviderGenerates
  BY <1>14, <1>t DEF ProviderGenerates
<1>15. CASE ClientAnswers
  BY <1>15, <1>t DEF ClientAnswers
<1>16. CASE ClientFails
  BY <1>16, <1>t DEF ClientFails
<1>17. CASE ClientClaims
  <2>1. route \in generated => client' = "failure"
    BY <1>17 DEF ClientClaims, EvidenceAccepted
  <2>2. UNCHANGED <<request, pc, plan, generated>>
    BY <1>17 DEF ClientClaims
  <2>3. client' \in {"effect_free", "failure"}
    BY <1>17 DEF ClientClaims
  <2> QED BY <2>1, <2>2, <2>3
<1>18. CASE ClientStops
  BY <1>18, <1>t DEF ClientStops
<1>19. CASE TimerFires
  BY <1>19, <1>t DEF TimerFires
<1>20. CASE TimerStops
  BY <1>20, <1>t DEF TimerStops
<1>21. CASE DeadlinePasses
  BY <1>21, <1>t DEF DeadlinePasses
<1>22. CASE UNCHANGED vars
  BY <1>22 DEF vars
<1> QED
  BY <1>1, <1>2, <1>3, <1>4, <1>5, <1>6, <1>7, <1>8, <1>9, <1>10,
     <1>11, <1>12, <1>13, <1>14, <1>15, <1>16, <1>17, <1>18, <1>19,
     <1>20, <1>21, <1>22
  DEF Next, Complete, Environment

LEMMA OutcomeStep == IInv /\ [Next]_vars => OutcomeInv'
<1> SUFFICES ASSUME IInv, [Next]_vars PROVE OutcomeInv'
  OBVIOUS
<1>t. TypeOK'
  BY TypeStep
<1> USE FallbackAssumption
    DEF IInv, TypeOK, OutcomeInv, NoOutcome, Awaits, Points, Finish, plan
<1>1. CASE Begin
  BY <1>1, <1>t DEF Begin
<1>2. CASE Expire
  BY <1>2, <1>t DEF Expire
<1>3. CASE Plan
  BY <1>3, <1>t DEF Plan
<1>4. CASE GiveUp
  BY <1>4, <1>t DEF GiveUp
<1>5. CASE StartAttempt
  BY <1>5, <1>t DEF StartAttempt
<1>6. CASE LoseRace
  BY <1>6, <1>t DEF LoseRace, CancelClient
<1>7. CASE WinRace
  BY <1>7, <1>t DEF WinRace, CancelTimer
<1>8. CASE EndAbort
  BY <1>8, <1>t DEF EndAbort
<1>9. CASE FallBack
  BY <1>9, <1>t DEF FallBack, Settled, Record
<1>10. CASE Return
  BY <1>10, <1>t DEF Return, Settled, Record
<1>11. CASE Raise
  BY <1>11, <1>t DEF Raise, Settled
<1>12. CASE CallerCancels
  BY <1>12, <1>t DEF CallerCancels, CancelClient, CancelTimer
<1>13. CASE ClientStarts
  BY <1>13, <1>t DEF ClientStarts
<1>14. CASE ProviderGenerates
  BY <1>14, <1>t DEF ProviderGenerates
<1>15. CASE ClientAnswers
  BY <1>15, <1>t DEF ClientAnswers
<1>16. CASE ClientFails
  BY <1>16, <1>t DEF ClientFails
<1>17. CASE ClientClaims
  BY <1>17, <1>t DEF ClientClaims
<1>18. CASE ClientStops
  BY <1>18, <1>t DEF ClientStops
<1>19. CASE TimerFires
  BY <1>19, <1>t DEF TimerFires
<1>20. CASE TimerStops
  BY <1>20, <1>t DEF TimerStops
<1>21. CASE DeadlinePasses
  BY <1>21, <1>t DEF DeadlinePasses
<1>22. CASE UNCHANGED vars
  BY <1>22 DEF vars
<1> QED
  BY <1>1, <1>2, <1>3, <1>4, <1>5, <1>6, <1>7, <1>8, <1>9, <1>10,
     <1>11, <1>12, <1>13, <1>14, <1>15, <1>16, <1>17, <1>18, <1>19,
     <1>20, <1>21, <1>22
  DEF Next, Complete, Environment

(* What appending the current attempt does to the log.                     *)
LEMMA AppendedLog ==
    ASSUME IInv, pc \in Awaits, NEW e, e.route = route,
           attempts' = Append(attempts, e), outcome = NoOutcome
    PROVE  /\ \A i \in DOMAIN attempts' :
                  attempts'[i].route \in excluded \cup {route}
           /\ \A x \in excluded \cup {route} :
                  \E i \in DOMAIN attempts' : attempts'[i].route = x
           /\ \A i, j \in DOMAIN attempts' :
                  i < j => Before(attempts'[i].route, attempts'[j].route)
<1> DEFINE n == Len(attempts)
<1>1. /\ DOMAIN attempts = 1..n /\ n \in Nat
      /\ DOMAIN attempts' = 1..n + 1
      /\ \A i \in 1..n : attempts'[i] = attempts[i]
      /\ attempts'[n + 1] = e
  BY DEF IInv, TypeOK
<1>2. \A i \in 1..n : attempts[i].route \in excluded
  BY <1>1 DEF IInv, LogInv, NoOutcome
<1>3. \A x \in excluded : Before(x, route)
  BY DEF IInv, RankInv, Candidates
<1>4. \A x \in excluded : \E i \in 1..n : attempts[i].route = x
  BY <1>1 DEF IInv, LogInv
<1>5. \A i, j \in 1..n : i < j => Before(attempts[i].route, attempts[j].route)
  BY <1>1 DEF IInv, LogInv
<1> HIDE DEF n
<1>6. \A i \in 1..n + 1 : i \in 1..n \/ i = n + 1
  BY <1>1
<1>7. \A i, j \in 1..n + 1 : i < j => i \in 1..n
  BY <1>1
<1>8. \A x \in excluded \cup {route} : \E i \in 1..n + 1 : attempts'[i].route = x
  <2>1. n + 1 \in 1..n + 1 /\ 1..n \subseteq 1..n + 1
    BY <1>1
  <2> QED BY <1>1, <1>4, <2>1
<1> QED BY <1>1, <1>2, <1>3, <1>5, <1>6, <1>7, <1>8

LEMMA LogStep == IInv /\ [Next]_vars => LogInv'
<1> SUFFICES ASSUME IInv, [Next]_vars PROVE LogInv'
  OBVIOUS
<1>t. TypeOK'
  BY TypeStep
<1> USE FallbackAssumption
    DEF IInv, TypeOK, LogInv, RankInv, OutcomeInv, NoOutcome, Suitable, Candidates,
        Awaits, Points, Finish, plan
<1>1. CASE Begin
  BY <1>1, <1>t DEF Begin
<1>2. CASE Expire
  BY <1>2, <1>t DEF Expire
<1>3. CASE Plan
  BY <1>3, <1>t DEF Plan
<1>4. CASE GiveUp
  BY <1>4, <1>t DEF GiveUp
<1>5. CASE StartAttempt
  BY <1>5, <1>t DEF StartAttempt
<1>6. CASE LoseRace
  BY <1>6, <1>t DEF LoseRace, CancelClient
<1>7. CASE WinRace
  BY <1>7, <1>t DEF WinRace, CancelTimer
<1>8. CASE EndAbort
  BY <1>8, <1>t DEF EndAbort
<1>9. CASE FallBack
  <2>1. /\ route \in Candidates /\ pc = "settle" /\ outcome = NoOutcome
        /\ attempts' = Append(attempts, [route |-> route,
                                        ended |-> "effect_free_failure"])
        /\ excluded' = excluded \cup {route}
        /\ outcome'.kind = "none" /\ Suitable' = Suitable
    BY <1>9 DEF FallBack, Settled, Record
  <2>2. \A x, c : Before(x, c)' <=> Before(x, c)
    BY DEF Before
  <2>3. /\ \A i \in DOMAIN attempts' :
              attempts'[i].route \in excluded \cup {route}
        /\ \A x \in excluded \cup {route} :
              \E i \in DOMAIN attempts' : attempts'[i].route = x
        /\ \A i, j \in DOMAIN attempts' :
              i < j => Before(attempts'[i].route, attempts'[j].route)
    BY <2>1, AppendedLog
  <2> QED BY <2>1, <2>2, <2>3
<1>10. CASE Return
  <2>1. /\ route \in Candidates /\ pc = "settle" /\ outcome = NoOutcome
        /\ attempts' = Append(attempts, [route |-> route, ended |-> "succeeded"])
        /\ UNCHANGED excluded
        /\ pc' = "done" /\ outcome'.kind = "response"
    BY <1>10 DEF Return, Settled, Record
  <2>2. \A x, c : Before(x, c)' <=> Before(x, c)
    BY DEF Before
  <2>3. /\ \A i \in DOMAIN attempts' :
              attempts'[i].route \in excluded \cup {route}
        /\ \A x \in excluded \cup {route} :
              \E i \in DOMAIN attempts' : attempts'[i].route = x
        /\ \A i, j \in DOMAIN attempts' :
              i < j => Before(attempts'[i].route, attempts'[j].route)
    BY <2>1, AppendedLog
  <2> QED BY <2>1, <2>2, <2>3
<1>11. CASE Raise
  BY <1>11, <1>t DEF Raise, Settled
<1>12. CASE CallerCancels
  BY <1>12, <1>t DEF CallerCancels, CancelClient, CancelTimer
<1>13. CASE ClientStarts
  BY <1>13, <1>t DEF ClientStarts
<1>14. CASE ProviderGenerates
  BY <1>14, <1>t DEF ProviderGenerates
<1>15. CASE ClientAnswers
  BY <1>15, <1>t DEF ClientAnswers
<1>16. CASE ClientFails
  BY <1>16, <1>t DEF ClientFails
<1>17. CASE ClientClaims
  BY <1>17, <1>t DEF ClientClaims
<1>18. CASE ClientStops
  BY <1>18, <1>t DEF ClientStops
<1>19. CASE TimerFires
  BY <1>19, <1>t DEF TimerFires
<1>20. CASE TimerStops
  BY <1>20, <1>t DEF TimerStops
<1>21. CASE DeadlinePasses
  BY <1>21, <1>t DEF DeadlinePasses
<1>22. CASE UNCHANGED vars
  BY <1>22 DEF vars
<1> QED
  BY <1>1, <1>2, <1>3, <1>4, <1>5, <1>6, <1>7, <1>8, <1>9, <1>10,
     <1>11, <1>12, <1>13, <1>14, <1>15, <1>16, <1>17, <1>18, <1>19,
     <1>20, <1>21, <1>22
  DEF Next, Complete, Environment

----------------------------------------------------------------------------
(* The theorems.                                                           *)

(* Every behaviour stays within the inductive invariant.                   *)
THEOREM FallbackInvariance == Spec => []IInv
<1>1. IInv /\ [Next]_vars => IInv'
  BY TypeStep, ChildrenStep, RankStep, LogStep, EffectStep, OutcomeStep DEF IInv
<1> QED BY <1>1, Initially, PTL DEF Spec

(* Every variable keeps its type, and the call ends exactly when it has an *)
(* outcome.                                                                *)
THEOREM FallbackTypes == Spec => []TypeOK
BY FallbackInvariance, PTL DEF IInv

(* No provider that may have acted is ever fallen back from                *)
(* (routing.py:393-428, 581-593).                                          *)
THEOREM NoFallbackFromAnEffect == Spec => []FallbacksAreEffectFree
<1>1. IInv => FallbacksAreEffectFree
  BY DEF IInv, EffectInv, FallbacksAreEffectFree
<1> QED BY <1>1, FallbackInvariance, PTL

(* A request reaches only models that have all it needs                    *)
(* (routing.py:316-333, capabilities.py:332-486).                          *)
THEOREM OnlySuitableModels ==
    ASSUME ProfilesAreValid
    PROVE  Spec => []OnlySuitableRoutes
<1>1. IInv => OnlySuitableRoutes
  <2> SUFFICES ASSUME IInv, NEW r \in generated
               PROVE  Suits(Profile[r], request)
    BY DEF OnlySuitableRoutes
  <2>1. r \in Routes /\ Compatible(Profile[r], request)
    BY DEF IInv, EffectInv, Suitable
  <2>2. ValidProfile(Profile[r]) /\ ValidRequirements(request)
    BY <2>1, ProfilesAreValid, FallbackAssumption
    DEF IInv, TypeOK, ProfilesAreValid
  <2> HIDE DEF Compatible, ValidProfile, ValidRequirements, Suits
  <2> QED BY <2>1, <2>2, NoGapMeansSuitable
<1> QED BY <1>1, FallbackInvariance, PTL

(* The request is one that RoutingRequest has accepted, and stays it.      *)
THEOREM RequestsAreAccepted == Spec => []Accepted(request)
<1>1. Init => Accepted(request)
  BY DEF Init
<1>2. Accepted(request) /\ [Next]_vars => Accepted(request)'
  <2> SUFFICES ASSUME Accepted(request), [Next]_vars PROVE request' = request
    BY DEF Accepted, Arguments, Declared
  <2> QED
    BY DEF Next, Complete, Environment, Begin, Expire, Plan, GiveUp,
       StartAttempt, LoseRace, WinRace, EndAbort, FallBack, Return, Raise,
       CallerCancels, ClientStarts, ProviderGenerates, ClientAnswers,
       ClientFails, ClientClaims, ClientStops, TimerFires, TimerStops,
       DeadlinePasses, vars
<1> QED BY <1>1, <1>2, PTL DEF Spec

(* The declaration stands between the schemas and the profile: whatever a  *)
(* template carries has been declared, and what was declared is offered by *)
(* every route that takes the request up (routing.py:82-190).              *)
THEOREM SchemasAreDeclared == Spec => []SchemasDeclared
<1>1. IInv /\ Accepted(request) => SchemasDeclared
  <2> SUFFICES ASSUME IInv, Accepted(request), NEW r \in generated,
                      NEW schema \in Carried(request)
               PROVE  /\ schema.dialect \in Profile[r].dialects
                      /\ CollectedKeywords(schema) \subseteq Profile[r].keywords
    BY DEF SchemasDeclared
  <2>1. \A code \in DOMAIN GapOf(Profile[r], request) :
            ~GapOf(Profile[r], request)[code]
    BY DEF IInv, EffectInv, Suitable, Compatible, Gaps
  <2>2. \A s \in Schemas(request) : /\ s.dialects \subseteq Profile[r].dialects
                                    /\ s.keywords \subseteq Profile[r].keywords
    BY <2>1 DEF GapOf
  <2>3. \E s \in Schemas(request) : Declared(schema, s)
    <3>1. CASE schema \in request.answer
      BY <3>1 DEF Accepted, Schemas
    <3>2. CASE schema \in Arguments(request)
      <4>1. request.tools # {}
        BY <3>2 DEF Arguments, Accepted
      <4>2. PICK s \in request.toolSchemas : TRUE
        BY <4>1, FallbackAssumption DEF IInv, TypeOK, ValidRequirements
      <4> QED BY <3>2, <4>2 DEF Accepted, Schemas
    <3> QED BY <3>1, <3>2 DEF Carried
  <2> QED BY <2>2, <2>3 DEF Declared
<1> QED BY <1>1, FallbackInvariance, RequestsAreAccepted, PTL

(* No provider is sent a keyword it has not been verified to understand    *)
(* (routing.py:82-228, capabilities.py:379-429).                           *)
THEOREM SchemasAreUnderstood == Spec => []SchemasUnderstood
<1>1. IInv /\ SchemasDeclared => SchemasUnderstood
  <2> SUFFICES ASSUME IInv, SchemasDeclared, NEW r \in generated,
                      NEW schema \in Carried(request)
               PROVE  /\ schema.dialect \in Profile[r].dialects
                      /\ UsedKeywords(schema) \subseteq Profile[r].keywords
    BY DEF SchemasUnderstood
  <2>1. /\ schema.dialect \in Profile[r].dialects
        /\ CollectedKeywords(schema) \subseteq Profile[r].keywords
    BY DEF SchemasDeclared
  <2>2. IsSchema(schema)
    BY FallbackAssumption DEF IInv, TypeOK
  <2> QED BY <2>1, <2>2, WalkIsExact
<1> QED BY <1>1, FallbackInvariance, SchemasAreDeclared, PTL

(* Routes get their turn in ranking order, each once, and "no eligible     *)
(* route" means that every suitable one has had its turn                   *)
(* (routing.py:556-593).                                                   *)
THEOREM RoutesAreTakenInOrder == Spec => []BestUntriedFirst
<1>1. IInv => BestUntriedFirst
  BY DEF IInv, RankInv, LogInv, BestUntriedFirst
<1> QED BY <1>1, FallbackInvariance, PTL

(* No child task outlives its attempt (routing.py:633-662).                *)
THEOREM ChildrenAreSettled == Spec => []ChildrenSettled
<1>1. IInv => ChildrenSettled
  BY DEF IInv, ChildrenInv, ChildrenSettled, Awaits
<1> QED BY <1>1, FallbackInvariance, PTL

(* A cancellation is what the caller sees (routing.py:642-655).            *)
THEOREM CancellationsAreHeard == Spec => []CancellationHeard
<1>1. IInv => CancellationHeard
  BY DEF IInv, OutcomeInv, CancellationHeard
<1> QED BY <1>1, FallbackInvariance, PTL

(* Nothing is recorded after the deadline fired (routing.py:646-655).      *)
THEOREM DeadlineAlwaysWinsTie == Spec => DeadlineWinsTie
<1>1. IInv /\ [Next]_vars => [attempts' # attempts => timer = "stopped"]_vars
  <2> SUFFICES ASSUME IInv, Next, attempts' # attempts PROVE timer = "stopped"
    OBVIOUS
  <2>1. FallBack \/ Return
    BY DEF Next, Complete, Environment, Begin, Expire, Plan, GiveUp,
       StartAttempt, LoseRace, WinRace, EndAbort, Raise, CallerCancels,
       ClientStarts, ProviderGenerates, ClientAnswers, ClientFails,
       ClientClaims, ClientStops, TimerFires, TimerStops, DeadlinePasses, plan
  <2> QED BY <2>1 DEF FallBack, Return, Settled, IInv, ChildrenInv, TimerLive
<1> QED BY <1>1, FallbackInvariance, PTL DEF Spec, DeadlineWinsTie

(* FallbackExecutor implements SingleGeneration: at most one provider      *)
(* takes the request up, and only while the call runs.                     *)
THEOREM FallbackRefinement == Spec => ImplementsSingleGeneration
<1>1. Init => Caller!Init
  BY DEF Init, Caller!Init, Suitable
<1>2. ASSUME IInv, [Next]_vars PROVE [Caller!Next]_(Caller!vars)
  <2> USE DEF Caller!vars
  <2>1. CASE UNCHANGED vars
    BY <2>1 DEF vars, Suitable
  <2>2. CASE ProviderGenerates
    <3>1. pc \in Awaits /\ outcome = NoOutcome
      BY <1>2, <2>2 DEF ProviderGenerates, IInv, ChildrenInv, OutcomeInv, ClientLive,
         Awaits
    <3>2. route \in Suitable
      BY <1>2, <3>1 DEF IInv, RankInv, Candidates
    <3>3. UNCHANGED <<Suitable, outcome>> /\ generated' = generated \cup {route}
      BY <2>2 DEF ProviderGenerates, Suitable
    <3>4. generated \subseteq {route}
      BY <1>2 DEF IInv, EffectInv
    <3> QED
      BY <3>1, <3>2, <3>3, <3>4 DEF Caller!Next, Caller!Generate, Caller!Running
  <2>3. CASE Return
    <3>1. outcome = NoOutcome /\ route \in generated
      BY <1>2, <2>3 DEF Return, Settled, IInv, EffectInv, OutcomeInv, Awaits
    <3>2. /\ UNCHANGED <<Suitable, generated>>
          /\ outcome' = [kind |-> "response", route |-> route]
      BY <2>3 DEF Return, Finish, Suitable
    <3> QED BY <3>1, <3>2 DEF Caller!Next, Caller!Answer, Caller!Running
  <2>4. CASE GiveUp
    <3>1. outcome = NoOutcome /\ generated = {}
      BY <1>2, <2>4 DEF GiveUp, IInv, EffectInv, OutcomeInv
    <3>2. UNCHANGED <<Suitable, generated>> /\ outcome'.kind = "no_route"
      BY <2>4 DEF GiveUp, Finish, Suitable
    <3> QED BY <3>1, <3>2 DEF Caller!Next, Caller!Exhaust, Caller!Running
  <2>5. CASE Expire \/ EndAbort \/ Raise
    <3>1. outcome = NoOutcome
      BY <1>2, <2>5 DEF Expire, EndAbort, Raise, Settled, IInv, OutcomeInv
    <3>2. UNCHANGED <<Suitable, generated>>
      BY <2>5 DEF Expire, EndAbort, Raise, Suitable
    <3>3. outcome'.kind \in {"timeout", "cancelled", "failed", "protocol"}
      BY <1>2, <2>5 DEF Expire, EndAbort, Raise, Finish, IInv, TypeOK, ChildrenInv
    <3> QED BY <3>1, <3>2, <3>3 DEF Caller!Next, Caller!Fail, Caller!Running
  <2>6. CASE Begin
    <3>1. outcome = NoOutcome /\ UNCHANGED <<Suitable, generated>>
      BY <1>2, <2>6 DEF Begin, IInv, OutcomeInv, Suitable
    <3>2. UNCHANGED outcome \/ outcome'.kind = "refused"
      BY <2>6 DEF Begin, Finish
    <3> QED BY <3>1, <3>2 DEF Caller!Next, Caller!Fail, Caller!Running
  <2>7. CASE Plan \/ StartAttempt \/ LoseRace \/ WinRace \/ FallBack
    BY <2>7 DEF Plan, StartAttempt, LoseRace, WinRace, FallBack, Suitable
  <2>8. CASE \/ CallerCancels \/ ClientStarts \/ ClientAnswers \/ ClientFails
             \/ ClientClaims \/ ClientStops \/ TimerFires \/ TimerStops
             \/ DeadlinePasses
    BY <2>8 DEF CallerCancels, ClientStarts, ClientAnswers, ClientFails,
       ClientClaims, ClientStops, TimerFires, TimerStops, DeadlinePasses,
       Suitable
  <2> QED
    BY <1>2, <2>1, <2>2, <2>3, <2>4, <2>5, <2>6, <2>7, <2>8
    DEF Next, Complete, Environment
<1> QED BY <1>1, <1>2, FallbackInvariance, PTL DEF Spec, Caller!Spec,
   ImplementsSingleGeneration

----------------------------------------------------------------------------
(* How long a call can go on.                                              *)

LEMMA OnlySuitableAttempts ==
    Spec => [](\A i \in DOMAIN attempts : attempts[i].route \in Suitable)
<1> DEFINE Inv == \A i \in DOMAIN attempts : attempts[i].route \in Suitable
<1>1. Init => Inv
  BY DEF Init
<1>2. ASSUME IInv, Inv, [Next]_vars PROVE Inv'
  <2>1. Suitable' = Suitable
    BY <1>2 DEF Next, Complete, Environment, Begin, Expire, Plan, GiveUp,
       StartAttempt, LoseRace, WinRace, EndAbort, FallBack, Return, Raise,
       CallerCancels, ClientStarts, ProviderGenerates, ClientAnswers,
       ClientFails, ClientClaims, ClientStops, TimerFires, TimerStops,
       DeadlinePasses, vars, Suitable
  <2>2. CASE UNCHANGED attempts
    BY <1>2, <2>1, <2>2
  <2>3. CASE FallBack \/ Return
    <3>1. /\ route \in Suitable /\ route \in Routes
          /\ attempts \in Seq([route : Routes,
                              ended : {"effect_free_failure", "succeeded"}])
      BY <1>2, <2>3 DEF FallBack, Return, Settled, IInv, TypeOK, RankInv,
         Candidates, Suitable, Awaits
    <3>2. PICK e \in {"effect_free_failure", "succeeded"} :
              attempts' = Append(attempts, [route |-> route, ended |-> e])
      BY <2>3 DEF FallBack, Return, Record
    <3> QED BY <1>2, <2>1, <3>1, <3>2
  <2> QED
    BY <1>2, <2>2, <2>3 DEF Next, Complete, Environment, Begin, Expire, Plan,
       GiveUp, StartAttempt, LoseRace, WinRace, EndAbort, Raise, CallerCancels,
       ClientStarts, ProviderGenerates, ClientAnswers, ClientFails,
       ClientClaims, ClientStops, TimerFires, TimerStops, DeadlinePasses, vars,
       plan
<1> QED BY <1>1, <1>2, FallbackInvariance, PTL DEF Spec

(* No call makes more attempts than there are suitable routes: the loop's  *)
(* only bound is that each turn excludes a route (routing.py:549-593).     *)
THEOREM AttemptsAreBounded ==
    ASSUME IsFiniteSet(Routes)
    PROVE  Spec => [](Len(attempts) <= Cardinality(Suitable))
<1>1. ASSUME IInv, \A i \in DOMAIN attempts : attempts[i].route \in Suitable
      PROVE  Len(attempts) <= Cardinality(Suitable)
  <2> DEFINE f == [i \in 1..Len(attempts) |-> attempts[i].route]
  <2>1. Len(attempts) \in Nat /\ DOMAIN attempts = 1..Len(attempts)
    BY <1>1 DEF IInv, TypeOK
  <2>2. \A i, j \in 1..Len(attempts) : i < j => f[i] # f[j]
    BY <1>1, <2>1, BeforeIsTotal DEF IInv, LogInv, Suitable
  <2>3. f \in Injection(1..Len(attempts), Suitable)
    <3>1. f \in [1..Len(attempts) -> Suitable]
      BY <1>1, <2>1
    <3>2. ASSUME NEW i \in 1..Len(attempts), NEW j \in 1..Len(attempts), i # j
          PROVE  f[i] # f[j]
      <4>1. i < j \/ j < i
        BY <2>1, <3>2
      <4> QED BY <2>2, <4>1
    <3> HIDE DEF f
    <3> QED BY <3>1, <3>2 DEF Injection, IsInjective
  <2>4. IsFiniteSet(Suitable)
    BY FS_Subset DEF Suitable
  <2>5. Cardinality(1..Len(attempts)) = Len(attempts)
    <3>1. ASSUME NEW n \in Nat PROVE Cardinality(1..n) = n
      <4>1. Cardinality(1..n) = IF 1 > n THEN 0 ELSE n - 1 + 1
        BY FS_Interval
      <4> QED BY <4>1
    <3> QED BY <2>1, <3>1
  <2> QED BY <2>3, <2>4, <2>5, FS_Injection
<1> QED BY <1>1, FallbackInvariance, OnlySuitableAttempts, PTL

(* Every step of a call uses up some of a bounded supply: routes that have *)
(* not failed yet, points of the loop, of the client's and of the timer's  *)
(* life, cancellations, the provider's move and the deadline.              *)
Untried == Cardinality(Candidates)
PointsLeft == CASE pc = "begin" -> 12 [] pc = "check" -> 11
                [] pc = "planned" -> 10 [] pc = "wait" -> 3
                [] pc = "settle" -> 2 [] pc = "abort" -> 1 [] OTHER -> 0
ClientLeft == CASE client = "created" -> 3 [] client = "running" -> 2
                [] client \in {"dropped", "unwinding"} -> 1 [] OTHER -> 0
TimerLeft == CASE timer = "armed" -> 2 [] timer = "cancelling" -> 1 [] OTHER -> 0
StopsLeft == MaxStops - stops
EventsLeft == (IF generated = {} THEN 1 ELSE 0) + (IF late THEN 0 ELSE 1)

Weight(u, p, c, t, n, e) == 10 * u + p + c + t + n + e
Fuel == Weight(Untried, PointsLeft, ClientLeft, TimerLeft, StopsLeft, EventsLeft)

(* What each kind of step uses up outweighs what it brings.                *)
Uses(u, p, c, t, n, e, v, q, d, s, m, f) ==
    \/ /\ v = u /\ q <= p /\ d <= c /\ s <= t /\ m <= n /\ f <= e
       /\ q < p \/ d < c \/ s < t \/ m < n \/ f < e
    \/ v = u /\ q = p - 7 /\ m = n /\ f = e
    \/ v = u - 1 /\ q = p + 9 /\ d = c /\ s = t /\ m = n /\ f = e

LEMMA Less ==
    ASSUME NEW u \in Nat, NEW p \in 0..12, NEW c \in 0..3, NEW t \in 0..2,
           NEW n \in Nat, NEW e \in 0..2,
           NEW v \in Nat, NEW q \in 0..12, NEW d \in 0..3, NEW s \in 0..2,
           NEW m \in Nat, NEW f \in 0..2,
           Uses(u, p, c, t, n, e, v, q, d, s, m, f)
    PROVE  /\ Weight(v, q, d, s, m, f) \in Nat
           /\ Weight(v, q, d, s, m, f) < Weight(u, p, c, t, n, e)
<1> DEFINE U == 10 * u
           V == 10 * v
<1>1. U \in Nat /\ V \in Nat
  OBVIOUS
<1>2. v = u - 1 => V = U - 10
  OBVIOUS
<1>3. v = u => V = U
  OBVIOUS
<1> HIDE DEF U, V
<1>4. V + q + d + s + m + f \in Nat
  BY <1>1
<1>5. V + q + d + s + m + f < U + p + c + t + n + e
  BY <1>1, <1>2, <1>3 DEF Uses
<1> QED BY <1>4, <1>5 DEF Weight, U, V

Supply ==
    /\ Untried \in Nat
    /\ PointsLeft \in 0..12 /\ ClientLeft \in 0..3 /\ TimerLeft \in 0..2
    /\ StopsLeft \in Nat /\ EventsLeft \in 0..2

LEMMA Supplies ==
    ASSUME IsFiniteSet(Routes)
    PROVE  TypeOK => Supply
<1> SUFFICES ASSUME TypeOK PROVE Supply
  OBVIOUS
<1>1. Untried \in Nat
  <2>1. IsFiniteSet(Candidates)
    BY FS_Subset DEF Candidates, Suitable
  <2> QED BY <2>1, FS_CardinalityType DEF Untried
<1>2. PointsLeft \in 0..12 /\ ClientLeft \in 0..3 /\ TimerLeft \in 0..2
  BY DEF PointsLeft, ClientLeft, TimerLeft
<1>3. StopsLeft \in Nat
  BY FallbackAssumption DEF TypeOK, StopsLeft
<1>4. EventsLeft \in 0..2
  BY DEF EventsLeft
<1> QED BY <1>1, <1>2, <1>3, <1>4 DEF Supply

(* A failure that lets the call go on costs it a route.                    *)
LEMMA RouteSpent ==
    ASSUME IsFiniteSet(Routes), IInv, FallBack
    PROVE  Untried' = Untried - 1
<1>1. route \in Candidates /\ Candidates' = Candidates \ {route}
  BY DEF FallBack, Settled, IInv, RankInv, Candidates, Suitable, Awaits
<1>2. IsFiniteSet(Candidates)
  BY FS_Subset DEF Candidates, Suitable
<1>3. Cardinality(Candidates \ {route}) = Cardinality(Candidates) - 1
  BY <1>1, <1>2, FS_RemoveElement
<1> QED BY <1>1, <1>3 DEF Untried

(* A call cannot go on for ever: it takes at most as many steps as it has  *)
(* fuel, whatever the clients, the timers and the caller do.  What remains *)
(* is that it might stop short of its end (routing.py:549-662).            *)
THEOREM CallsAreFinite ==
    ASSUME IsFiniteSet(Routes)
    PROVE  Spec => [][Fuel' \in Nat /\ Fuel' < Fuel]_vars
<1> DEFINE Used == Uses(Untried, PointsLeft, ClientLeft, TimerLeft, StopsLeft,
                        EventsLeft, Untried', PointsLeft', ClientLeft',
                        TimerLeft', StopsLeft', EventsLeft')
<1>1. ASSUME IInv, Supply, Supply', Next, vars' # vars PROVE Used
  <2>1. CASE Begin \/ Expire \/ Plan \/ GiveUp
    <3>1. /\ UNCHANGED <<Untried, ClientLeft, TimerLeft, StopsLeft, EventsLeft>>
          /\ PointsLeft' < PointsLeft
      BY <2>1 DEF Begin, Expire, Plan, GiveUp, Finish, plan, Untried, Candidates,
         Suitable, ClientLeft, TimerLeft, StopsLeft, EventsLeft, PointsLeft
    <3> QED BY <1>1, <3>1 DEF Uses, Supply
  <2>2. CASE StartAttempt
    <3>1. /\ UNCHANGED <<Untried, StopsLeft, EventsLeft>>
          /\ PointsLeft' = PointsLeft - 7
      BY <2>2 DEF StartAttempt, plan, Untried, Candidates, Suitable, StopsLeft,
         EventsLeft, PointsLeft
    <3> QED BY <3>1 DEF Uses
  <2>3. CASE LoseRace \/ WinRace
    <3>1. UNCHANGED <<Untried, StopsLeft, EventsLeft>>
      BY <2>3 DEF LoseRace, WinRace, plan, Untried, Candidates, Suitable, StopsLeft,
         EventsLeft
    <3>2. PointsLeft' < PointsLeft
      BY <2>3 DEF LoseRace, WinRace, PointsLeft
    <3>3. ClientLeft' <= ClientLeft /\ TimerLeft' <= TimerLeft
      BY <2>3 DEF LoseRace, WinRace, CancelClient, CancelTimer, ClientLeft,
         TimerLeft
    <3> QED BY <1>1, <3>1, <3>2, <3>3 DEF Uses, Supply
  <2>4. CASE EndAbort \/ Return \/ Raise
    <3>1. UNCHANGED <<Untried, ClientLeft, TimerLeft, StopsLeft, EventsLeft>>
      BY <2>4 DEF EndAbort, Return, Raise, Finish, plan, Untried, Candidates, Suitable,
         ClientLeft, TimerLeft, StopsLeft, EventsLeft
    <3>2. PointsLeft' < PointsLeft
      BY <2>4 DEF EndAbort, Return, Raise, Settled, Finish, PointsLeft
    <3> QED BY <1>1, <3>1, <3>2 DEF Uses, Supply
  <2>5. CASE FallBack
    <3>1. UNCHANGED <<ClientLeft, TimerLeft, StopsLeft, EventsLeft>>
      BY <2>5 DEF FallBack, ClientLeft, TimerLeft, StopsLeft, EventsLeft
    <3>2. PointsLeft' = PointsLeft + 9
      BY <2>5 DEF FallBack, Settled, PointsLeft
    <3> QED BY <1>1, <2>5, <3>1, <3>2, RouteSpent DEF Uses
  <2>6. CASE CallerCancels
    <3>1. UNCHANGED <<Untried, EventsLeft>>
      BY <2>6 DEF CallerCancels, plan, Untried, Candidates, Suitable, EventsLeft
    <3>2. /\ PointsLeft' <= PointsLeft
          /\ ClientLeft' <= ClientLeft /\ TimerLeft' <= TimerLeft
      BY <2>6 DEF CallerCancels, CancelClient, CancelTimer, ClientLeft, TimerLeft,
         PointsLeft, Awaits
    <3>3. StopsLeft' < StopsLeft
      BY <1>1, <2>6, FallbackAssumption DEF CallerCancels, StopsLeft, IInv, TypeOK
    <3> QED BY <1>1, <3>1, <3>2, <3>3 DEF Uses, Supply
  <2>7. CASE ProviderGenerates \/ DeadlinePasses
    <3>1. UNCHANGED <<Untried, PointsLeft, ClientLeft, TimerLeft, StopsLeft>>
      BY <2>7 DEF ProviderGenerates, DeadlinePasses, plan, Untried, Candidates,
         Suitable, PointsLeft, ClientLeft, TimerLeft, StopsLeft
    <3>2. EventsLeft' < EventsLeft
      <4>1. ProviderGenerates => generated = {} /\ generated' # {} /\ late' = late
        <5>1. ProviderGenerates => generated' # generated
          BY <1>1 DEF ProviderGenerates, vars, plan
        <5> QED BY <1>1, <5>1 DEF ProviderGenerates, IInv, EffectInv
      <4>2. DeadlinePasses => generated' = generated /\ ~late /\ late'
        BY DEF DeadlinePasses
      <4> QED BY <2>7, <4>1, <4>2 DEF EventsLeft
    <3> QED BY <1>1, <3>1, <3>2 DEF Uses, Supply
  <2>8. CASE ClientStarts \/ ClientAnswers \/ ClientFails \/ ClientClaims \/ ClientStops
    <3>1. UNCHANGED <<Untried, PointsLeft, TimerLeft, StopsLeft, EventsLeft>>
      BY <2>8 DEF ClientStarts, ClientAnswers, ClientFails, ClientClaims,
         ClientStops, plan, Untried, Candidates, Suitable, PointsLeft, TimerLeft,
         StopsLeft, EventsLeft
    <3>2. ClientLeft' < ClientLeft
      BY <2>8 DEF ClientStarts, ClientAnswers, ClientFails, ClientClaims,
         ClientStops, ClientLeft
    <3> QED BY <1>1, <3>1, <3>2 DEF Uses, Supply
  <2>9. CASE TimerFires \/ TimerStops
    <3>1. UNCHANGED <<Untried, PointsLeft, ClientLeft, StopsLeft, EventsLeft>>
      BY <2>9 DEF TimerFires, TimerStops, plan, Untried, Candidates, Suitable,
         PointsLeft, ClientLeft, StopsLeft, EventsLeft
    <3>2. TimerLeft' < TimerLeft
      BY <2>9 DEF TimerFires, TimerStops, TimerLeft
    <3> QED BY <1>1, <3>1, <3>2 DEF Uses, Supply
  <2> QED
    BY <1>1, <2>1, <2>2, <2>3, <2>4, <2>5, <2>6, <2>7, <2>8, <2>9
    DEF Next, Complete, Environment
<1>2. ASSUME Supply, Supply', Used PROVE Fuel' \in Nat /\ Fuel' < Fuel
  <2>1. Fuel' = Weight(Untried', PointsLeft', ClientLeft', TimerLeft',
                       StopsLeft', EventsLeft')
    BY DEF Fuel, Weight
  <2> QED BY <1>2, <2>1, Less DEF Supply, Fuel
<1>3. IInv /\ Supply /\ Supply' /\ [Next]_vars => [Fuel' \in Nat /\ Fuel' < Fuel]_vars
  BY <1>1, <1>2
<1>4. IInv => Supply
  BY Supplies DEF IInv
<1> QED BY <1>3, <1>4, FallbackInvariance, PTL DEF Spec
=============================================================================
