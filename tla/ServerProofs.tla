---------------------------- MODULE ServerProofs ----------------------------
(***************************************************************************)
(* Proofs about the Server: its registries, for any names, any number of   *)
(* language classes, however they inherit and declare executers, and the   *)
(* negotiation and the answers, for any Accept header.                     *)
(***************************************************************************)
EXTENDS Server, NumberLemmas, FiniteSetTheorems, TLAPS

\* What every step of loading keeps: beside the two properties, an executer is
\* bound to a definition that has it.
RegistryInv ==
  /\ classes \in Seq(Classes)
  /\ \A key \in DOMAIN definitions : definitions[key] \in 1..Len(classes)
  /\ \A e \in DOMAIN df : df[e] \in 1..Len(classes) /\ classes[df[e]].executer = e
  /\ RegistriesAgree
  /\ LookupIsNewest

\* Whatever a class statement declares or inherits is an executer of its own or
\* one of an earlier class.
LEMMA ExecuterInRange ==
  ASSUME RegistryInv, NEW n, n = Len(classes), n + 1 <= MaxClasses, NEW parent \in 0..n,
         NEW declared \in Declarable, NEW registered \in BOOLEAN,
         NEW executer, executer = ExecuterOf(n + 1, parent, declared, registered)
  PROVE  /\ n \in Nat /\ MaxClasses \in Nat
         /\ declared \in 0..MaxClasses /\ executer \in 0..MaxClasses
         /\ registered => executer # 0
         /\ executer # 0 => \/ executer \in {n + 1, declared}
                            \/ parent \in 1..n /\ executer = classes[parent].executer
  <1>1. /\ classes \in Seq(Classes) /\ n \in Nat /\ MaxClasses \in Nat
        /\ DOMAIN classes = 1..n
    BY RegistryAssumption DEF RegistryInv
  <1>2. ASSUME NEW c \in 1..n PROVE classes[c].executer \in 0..MaxClasses
    <2>1. classes[c] \in Classes
      BY <1>1
    <2> QED BY <2>1 DEF Classes
  <1>3. declared \in 0..MaxClasses
    BY <1>1, <1>2 DEF Declarable
  <1>4. executer \in {0, n + 1, declared} \/ (parent \in 1..n /\ executer = classes[parent].executer)
    BY <1>1 DEF ExecuterOf, Executer
  <1>5. registered => executer # 0
    BY <1>1 DEF ExecuterOf, Executer
  <1> QED BY <1>1, <1>2, <1>3, <1>4, <1>5

LEMMA DefineKeeps ==
  ASSUME RegistryInv, NEW name \in Names, NEW parent \in 0..Len(classes),
         NEW declared \in Declarable, NEW registered \in BOOLEAN,
         Define(name, parent, declared, registered)
  PROVE  RegistryInv'
  <1> DEFINE class == Len(classes) + 1
             executer == ExecuterOf(class, parent, declared, registered)
             new == [name |-> name, parent |-> parent, declared |-> declared,
                     executer |-> executer, registered |-> registered]
             key == name.key
  <1>1. /\ classes \in Seq(Classes) /\ Len(classes) \in Nat /\ class <= MaxClasses
        /\ MaxClasses \in Nat
    BY RegistryAssumption DEF RegistryInv, Define
  <1>2. executer \in 0..MaxClasses /\ declared \in 0..MaxClasses
    <2>1. PICK n : n = Len(classes)
      OBVIOUS
    <2>2. PICK e : e = ExecuterOf(n + 1, parent, declared, registered)
      OBVIOUS
    <2>3. e \in 0..MaxClasses /\ declared \in 0..MaxClasses
      BY <1>1, <2>1, <2>2, ExecuterInRange
    <2> QED BY <2>1, <2>2, <2>3
  <1>3. new \in Classes
    BY <1>1, <1>2 DEF Classes
  <1>4. classes' = Append(classes, new)
    BY DEF Define
  <1> HIDE DEF executer
  <1>5. /\ classes' \in Seq(Classes) /\ Len(classes') = class /\ classes'[class] = new
        /\ \A c \in 1..Len(classes) : classes'[c] = classes[c]
    BY <1>1, <1>3, <1>4
  <1>6. CASE ~ registered
    <2>1. UNCHANGED <<definitions, executers, df>>
      BY <1>6 DEF Define
    <2>2. RegistriesAgree'
      BY <1>1, <1>5, <2>1 DEF RegistriesAgree, RegistryInv
    <2>3. LookupIsNewest'
      BY <1>1, <1>5, <1>6, <2>1 DEF LookupIsNewest, RegistryInv
    <2> QED BY <1>1, <1>5, <2>1, <2>2, <2>3 DEF RegistryInv
  <1>7. CASE registered
    <2>1. /\ definitions' = Put(definitions, key, class)
          /\ executers' = Put(executers, key, executer)
          /\ df' = Put(df, executer, class)
      BY <1>7 DEF Define, Enter, executer
    <2>2. /\ DOMAIN definitions' = DOMAIN definitions \cup {key} /\ definitions'[key] = class
          /\ \A k \in DOMAIN definitions : k # key => definitions'[k] = definitions[k]
      BY <2>1 DEF Put
    <2>3. /\ DOMAIN executers' = DOMAIN executers \cup {key} /\ executers'[key] = executer
          /\ \A k \in DOMAIN executers : k # key => executers'[k] = executers[k]
      BY <2>1 DEF Put
    <2>4. /\ DOMAIN df' = DOMAIN df \cup {executer} /\ df'[executer] = class
          /\ \A e \in DOMAIN df : e # executer => df'[e] = df[e]
      BY <2>1 DEF Put
    <2>5. \A e \in DOMAIN df' : df'[e] \in 1..Len(classes') /\ classes'[df'[e]].executer = e
      BY <1>1, <1>5, <2>4 DEF RegistryInv
    <2>6. \A k \in DOMAIN definitions' : definitions'[k] \in 1..Len(classes')
      BY <1>1, <1>5, <2>2 DEF RegistryInv
    <2>7. RegistriesAgree'
      BY <1>1, <1>5, <2>2, <2>3, <2>4, <2>5 DEF RegistriesAgree, RegistryInv
    <2>8. LookupIsNewest'
      BY <1>1, <1>5, <1>7, <2>2 DEF LookupIsNewest, RegistryInv
    <2> QED BY <1>5, <2>5, <2>6, <2>7, <2>8 DEF RegistryInv
  <1> QED BY <1>6, <1>7

LEMMA RegistryInductive == Spec => []RegistryInv
  <1>1. Init => RegistryInv
    BY DEF Init, RegistryInit, RegistryInv, RegistriesAgree, LookupIsNewest
  <1>2. RegistryInv /\ [Next]_vars => RegistryInv'
    <2> SUFFICES ASSUME RegistryInv, [Next]_vars PROVE RegistryInv'
      OBVIOUS
    <2>1. CASE Load
      BY <2>1, DefineKeeps DEF Load, DefineSome
    <2>2. CASE UNCHANGED <<classes, definitions, executers, df>>
      BY <2>2 DEF RegistryInv, RegistriesAgree, LookupIsNewest
    <2>3. Next => Load \/ UNCHANGED <<classes, definitions, executers, df>>
      BY DEF Next, Serve, Receive, ReadBody, RunMalformed, RunHandler, TestHandler,
             LanguagesHandler, SystemHandler, KeepRegistry
    <2> QED BY <2>1, <2>2, <2>3 DEF vars
  <1> QED BY <1>1, <1>2, PTL DEF Spec

(* models.py:155-200: whatever classes are defined, in whatever order and
   however they inherit, the two registries agree. *)
THEOREM RegistriesAlwaysAgree == Spec => []RegistriesAgree
  BY RegistryInductive, PTL DEF RegistryInv

(* models.py:167-182: a name always leads to its newest definition. *)
THEOREM NewestDefinitionWins == Spec => []LookupIsNewest
  BY RegistryInductive, PTL DEF RegistryInv

-----------------------------------------------------------------------------
(* Inheritance. *)

\* A class inherits from an earlier one, and has its executer by right; a
\* registered class has one.
FamilyInv ==
  \A c \in DOMAIN classes :
    /\ classes[c].parent \in 0..Len(classes)
    /\ classes[c].executer # 0 => Has(c, classes[c].executer)
    /\ classes[c].registered => classes[c].executer # 0

\* A class statement takes nobody's executer and gives its own class those of
\* its parent, a new one and the one it declares.
LEMMA LineageGrows ==
  ASSUME RegistryInv, FamilyInv, NEW new \in Classes, NEW n, n = Len(classes),
         new.parent \in 0..n, classes' = Append(classes, new)
  PROVE  /\ \A c \in 1..n : \A e : Has(c, e) => Has(c, e)'
         /\ \A e : Has(new.parent, e) /\ new.parent # 0 => Has(n + 1, e)'
         /\ Has(n + 1, n + 1)' /\ Has(n + 1, new.declared)'
  <1>1. /\ n \in Nat /\ DOMAIN classes = 1..n /\ DOMAIN classes' = 1..n + 1
        /\ classes'[n + 1] = new
        /\ \A c \in 1..n : classes'[c] = classes[c]
    BY DEF RegistryInv
  <1>2. \A c \in 1..n : classes[c].parent \in 0..n
    BY <1>1 DEF FamilyInv
  <1>3. ASSUME NEW S \in Families' PROVE S \cap 1..n \in Families
    <2>1. S \in SUBSET (1..n + 1) /\ \A c \in S : classes'[c].parent \in S \cup {0}
      BY <1>1, <1>3 DEF Families
    <2>2. ASSUME NEW c \in S \cap 1..n PROVE classes[c].parent \in (S \cap 1..n) \cup {0}
      <3>1. classes[c].parent \in S \cup {0} /\ classes[c].parent \in 0..n
        BY <1>1, <1>2, <2>1
      <3> QED BY <1>1, <3>1
    <2> QED BY <1>1, <2>2 DEF Families
  <1>4. ASSUME NEW c \in 1..n, NEW a, Descends(c, a) PROVE Descends(c, a)'
    <2>1. \A S \in Families' : c \in S => a \in S \cap 1..n
      BY <1>3, <1>4 DEF Descends
    <2> QED BY <2>1 DEF Descends
  <1>5. ASSUME NEW a, Descends(new.parent, a), new.parent # 0
        PROVE  Descends(n + 1, a)'
    <2>1. new.parent \in 1..n
      BY <1>1, <1>5
    <2>2. Descends(new.parent, a)'
      BY <1>4, <1>5, <2>1
    <2>3. ASSUME NEW S \in Families', n + 1 \in S PROVE a \in S
      <3>1. new.parent \in S
        BY <1>1, <1>5, <2>3 DEF Families
      <3> QED BY <2>2, <2>3, <3>1 DEF Descends
    <2> QED BY <2>3 DEF Descends
  <1>6. Descends(n + 1, n + 1)'
    BY DEF Descends
  <1>7. ASSUME NEW c \in 1..n, NEW e, Has(c, e) PROVE Has(c, e)'
    <2>1. PICK a \in 1..n : Descends(c, a) /\ e \in {a, classes[a].declared}
      BY <1>1, <1>7 DEF Has
    <2>2. a \in DOMAIN classes' /\ Descends(c, a)' /\ e \in {a, classes'[a].declared}
      BY <1>1, <1>4, <2>1
    <2> QED BY <2>2 DEF Has
  <1>8. ASSUME NEW e, Has(new.parent, e), new.parent # 0 PROVE Has(n + 1, e)'
    <2>1. PICK a \in 1..n : Descends(new.parent, a) /\ e \in {a, classes[a].declared}
      BY <1>1, <1>8 DEF Has
    <2>2. a \in DOMAIN classes' /\ Descends(n + 1, a)' /\ e \in {a, classes'[a].declared}
      BY <1>1, <1>5, <1>8, <2>1
    <2> QED BY <2>2 DEF Has
  <1>9. Has(n + 1, n + 1)' /\ Has(n + 1, new.declared)'
    <2>1. n + 1 \in DOMAIN classes' /\ classes'[n + 1].declared = new.declared
      BY <1>1
    <2> QED BY <1>6, <2>1 DEF Has
  <1> QED BY <1>7, <1>8, <1>9

LEMMA DefineKeepsFamily ==
  ASSUME RegistryInv, FamilyInv, NEW name \in Names, NEW parent \in 0..Len(classes),
         NEW declared \in Declarable, NEW registered \in BOOLEAN,
         Define(name, parent, declared, registered)
  PROVE  FamilyInv'
  <1>1. PICK n \in Nat : n = Len(classes)
    BY DEF RegistryInv
  <1>2. /\ classes \in Seq(Classes) /\ n + 1 <= MaxClasses /\ DOMAIN classes = 1..n
    BY <1>1 DEF RegistryInv, Define
  <1>3. PICK executer : executer = ExecuterOf(n + 1, parent, declared, registered)
    OBVIOUS
  <1>4. /\ MaxClasses \in Nat /\ declared \in 0..MaxClasses /\ executer \in 0..MaxClasses
        /\ registered => executer # 0
        /\ executer # 0 => \/ executer \in {n + 1, declared}
                           \/ parent \in 1..n /\ executer = classes[parent].executer
    BY <1>1, <1>2, <1>3, ExecuterInRange
  <1>5. PICK new : new = [name |-> name, parent |-> parent, declared |-> declared,
                          executer |-> executer, registered |-> registered]
    OBVIOUS
  <1>6. parent \in 0..n /\ parent \in 0..MaxClasses
    BY <1>1, <1>2, <1>4
  <1>7. new \in Classes /\ new.parent = parent /\ new.executer = executer
        /\ new.registered = registered /\ new.declared = declared
    BY <1>4, <1>5, <1>6 DEF Classes
  <1>8. classes' = Append(classes, new)
    BY <1>1, <1>3, <1>5 DEF Define
  <1>9. /\ \A c \in 1..n : \A e : Has(c, e) => Has(c, e)'
        /\ \A e : Has(parent, e) /\ parent # 0 => Has(n + 1, e)'
        /\ Has(n + 1, n + 1)' /\ Has(n + 1, declared)'
    <2>1. new.parent \in 0..n
      BY <1>6, <1>7
    <2>2. /\ \A c \in 1..n : \A e : Has(c, e) => Has(c, e)'
          /\ \A e : Has(new.parent, e) /\ new.parent # 0 => Has(n + 1, e)'
          /\ Has(n + 1, n + 1)' /\ Has(n + 1, new.declared)'
      BY <1>1, <1>7, <1>8, <2>1, LineageGrows, Zenon
    <2> QED BY <1>7, <2>2, Zenon
  <1>10. /\ DOMAIN classes' = 1..n + 1 /\ Len(classes') = n + 1 /\ classes'[n + 1] = new
         /\ \A c \in 1..n : classes'[c] = classes[c]
    BY <1>1, <1>2, <1>7, <1>8
  <1>11. ASSUME NEW c \in 1..n + 1, NEW e, e = classes'[c].executer
         PROVE  /\ classes'[c].parent \in 0..n + 1
                /\ e # 0 => Has(c, e)'
                /\ classes'[c].registered => e # 0
    <2>1. CASE c \in 1..n
      <3>1. /\ classes[c].parent \in 0..n
            /\ e # 0 => Has(c, e)
            /\ classes[c].registered => e # 0
        BY <1>1, <1>2, <1>10, <1>11, <2>1 DEF FamilyInv
      <3>2. e # 0 => Has(c, e)'
        BY <1>9, <2>1, <3>1, Zenon
      <3> QED BY <1>10, <2>1, <3>1, <3>2
    <2>2. CASE c = n + 1
      <3>1. e = executer
        BY <1>7, <1>10, <1>11, <2>2
      <3>2. parent \in 1..n /\ e = classes[parent].executer /\ e # 0 => Has(parent, e)
        BY <1>2 DEF FamilyInv
      <3>3. e # 0 => Has(c, e)'
        <4> SUFFICES ASSUME e # 0 PROVE Has(n + 1, e)'
          BY <2>2
        <4>1. CASE e \in {n + 1, declared}
          BY <1>9, <4>1
        <4>2. CASE parent \in 1..n /\ e = classes[parent].executer
          <5>1. Has(parent, e) /\ parent # 0
            BY <3>2, <4>2
          <5> QED BY <1>9, <5>1, Zenon
        <4> QED BY <1>4, <3>1, <4>1, <4>2
      <3>4. registered => e # 0
        BY <1>4, <3>1
      <3>5. new.parent \in 0..n + 1
        BY <1>6, <1>7
      <3> QED BY <1>7, <1>10, <2>2, <3>3, <3>4, <3>5
    <2> QED BY <2>1, <2>2
  <1> QED BY <1>10, <1>11 DEF FamilyInv

LEMMA FamilyInductive == Spec => []FamilyInv
  <1>1. Init => FamilyInv
    BY DEF Init, RegistryInit, FamilyInv
  <1>2. RegistryInv /\ FamilyInv /\ [Next]_vars => FamilyInv'
    <2> SUFFICES ASSUME RegistryInv, FamilyInv, [Next]_vars PROVE FamilyInv'
      OBVIOUS
    <2>1. CASE Load
      BY <2>1, DefineKeepsFamily DEF Load, DefineSome
    <2>2. CASE UNCHANGED <<classes, definitions, executers, df>>
      BY <2>2 DEF FamilyInv, Has, Descends, Families
    <2>3. Next => Load \/ UNCHANGED <<classes, definitions, executers, df>>
      BY DEF Next, Serve, Receive, ReadBody, RunMalformed, RunHandler, TestHandler,
             LanguagesHandler, SystemHandler, KeepRegistry
    <2> QED BY <2>1, <2>2, <2>3 DEF vars
  <1> QED BY <1>1, <1>2, RegistryInductive, PTL DEF Spec

(* models.py:98, 184-200: whatever classes are defined, in whatever order, and
   whatever executers they inherit or declare, nobody gets that of an
   unrelated one. *)
THEOREM SharedOnlyByRight == Spec => []SharedByRight
  <1>1. RegistryInv /\ FamilyInv => SharedByRight
    <2> SUFFICES ASSUME RegistryInv, FamilyInv, NEW key \in DOMAIN definitions,
                        NEW e, e = executers[key]
                 PROVE  Has(definitions[key], e) /\ Has(df[e], e)
      BY DEF SharedByRight
    <2>1. definitions[key] \in DOMAIN classes /\ classes[definitions[key]].registered
      BY DEF RegistryInv, LookupIsNewest
    <2>2. e = classes[definitions[key]].executer /\ e \in DOMAIN df
      BY DEF RegistryInv, RegistriesAgree
    <2>3. e # 0 /\ Has(definitions[key], e)
      BY <2>1, <2>2 DEF FamilyInv
    <2>4. df[e] \in DOMAIN classes /\ classes[df[e]].executer = e
      BY <2>2 DEF RegistryInv
    <2>5. Has(df[e], e)
      BY <2>3, <2>4 DEF FamilyInv
    <2> QED BY <2>3, <2>5
  <1> QED BY <1>1, RegistryInductive, FamilyInductive, PTL

-----------------------------------------------------------------------------
(* The Accept header: the sort.                                             *)

LEMMA HeaderFacts ==
  ASSUME NEW h \in Headers
  PROVE  /\ h \in Seq(Ranges) /\ Len(h) \in Nat /\ DOMAIN h = 1..Len(h)
         /\ Good(h) \in SUBSET (1..Len(h)) /\ IsFiniteSet(Good(h))
         /\ \A i \in Good(h) : h[i].weight \in Nat /\ h[i].matches \subseteq Types
  <1>1. PICK m \in 0..MaxRanges : h \in [1..m -> Ranges]
    BY DEF Headers, BoundedSeq, SeqOf
  <1>2. m \in Nat
    BY NegotiationAssumption
  <1>3. h \in Seq(Ranges) /\ Len(h) \in Nat /\ DOMAIN h = 1..Len(h)
    BY <1>1, <1>2
  <1>4. Good(h) \in SUBSET (1..Len(h))
    BY <1>3 DEF Good
  <1>5. IsFiniteSet(1..Len(h))
    BY <1>3, FS_Interval
  <1>6. IsFiniteSet(Good(h))
    BY <1>4, <1>5, FS_Subset
  <1>7. ASSUME NEW i \in Good(h) PROVE h[i].weight \in Nat /\ h[i].matches \subseteq Types
    <2>1. h[i] \in Ranges /\ h[i].kind = "good"
      BY <1>3, <1>4 DEF Good
    <2> QED BY <2>1, NegotiationAssumption DEF Ranges
  <1> QED BY <1>3, <1>4, <1>6, <1>7

\* The order of the sort is a strict total order.
LEMMA HeavierOrders ==
  ASSUME NEW h \in Headers
  PROVE  /\ \A i \in Good(h) : ~ Heavier(h, i, i)
         /\ \A i, j \in Good(h) : i = j \/ Heavier(h, i, j) \/ Heavier(h, j, i)
         /\ \A i, j \in Good(h) : ~ (Heavier(h, i, j) /\ Heavier(h, j, i))
         /\ \A i, j, k \in Good(h) : Heavier(h, i, j) /\ Heavier(h, j, k) => Heavier(h, i, k)
  <1>1. \A i \in Good(h) : i \in Nat /\ h[i].weight \in Nat
    BY HeaderFacts
  <1> QED BY <1>1 DEF Heavier

\* Sorted lists every good range once, the heaviest first.
LEMMA SortedSorts ==
  ASSUME NEW h \in Headers
  PROVE  /\ Cardinality(Good(h)) \in Nat
         /\ Sorted(h) \in [1..Cardinality(Good(h)) -> Good(h)]
         /\ Len(Sorted(h)) = Cardinality(Good(h))
         /\ \A i \in Good(h) : \E k \in 1..Cardinality(Good(h)) : Sorted(h)[k] = i
         /\ \A k, l \in 1..Cardinality(Good(h)) :
              k < l => Heavier(h, Sorted(h)[k], Sorted(h)[l])
  <1> DEFINE G == Good(h)
             n == Cardinality(G)
             before(i) == {j \in G : Heavier(h, j, i)}
             rank == [i \in G |-> Cardinality(before(i)) + 1]
  <1>1. IsFiniteSet(G) /\ n \in Nat
    BY HeaderFacts, FS_CardinalityType
  <1>2. ASSUME NEW i \in G
        PROVE  IsFiniteSet(before(i)) /\ Cardinality(before(i)) \in 0..n - 1
    <2>1. before(i) \in SUBSET (G \ {i})
      BY HeavierOrders
    <2>2. IsFiniteSet(G \ {i}) /\ Cardinality(G \ {i}) = n - 1
      BY <1>1, FS_RemoveElement
    <2> HIDE DEF before, G, n
    <2>3. IsFiniteSet(before(i)) /\ Cardinality(before(i)) <= Cardinality(G \ {i})
      BY <2>1, <2>2, FS_Subset
    <2>4. Cardinality(before(i)) \in Nat
      BY <2>3, FS_CardinalityType
    <2> QED BY <1>1, <2>2, <2>3, <2>4
  <1>3. ASSUME NEW i \in G, NEW j \in G, Heavier(h, i, j)
        PROVE  Cardinality(before(i)) < Cardinality(before(j))
    <2>1. before(i) \in SUBSET before(j) /\ i \in before(j) /\ i \notin before(i)
      BY <1>3, HeavierOrders
    <2>2. /\ Cardinality(before(i)) <= Cardinality(before(j))
          /\ Cardinality(before(i)) # Cardinality(before(j))
      BY <1>2, <2>1, FS_Subset
    <2> HIDE DEF before, G, n
    <2> QED BY <1>1, <1>2, <2>2
  <1>4. \A i \in G : rank[i] = Cardinality(before(i)) + 1 /\ rank[i] \in 1..n
    <2>1. ASSUME NEW i \in G PROVE Cardinality(before(i)) + 1 \in 1..n
      <3>1. Cardinality(before(i)) \in 0..n - 1
        BY <1>2
      <3> HIDE DEF before, G, n
      <3> QED BY <1>1, <3>1
    <2> QED BY <2>1
  <1>5. \A i, j \in G : Heavier(h, i, j) => rank[i] < rank[j]
    <2>1. ASSUME NEW i \in G, NEW j \in G, Heavier(h, i, j) PROVE rank[i] < rank[j]
      <3>1. Cardinality(before(i)) < Cardinality(before(j))
        BY <1>3, <2>1
      <3>2. Cardinality(before(i)) \in 0..n - 1 /\ Cardinality(before(j)) \in 0..n - 1
        BY <1>2
      <3>3. rank[i] = Cardinality(before(i)) + 1 /\ rank[j] = Cardinality(before(j)) + 1
        BY <1>4
      <3> HIDE DEF before, G, n, rank
      <3> QED BY <1>1, <3>1, <3>2, <3>3
    <2> QED BY <2>1
  <1>6. rank \in [G -> 1..n]
    BY <1>4
  <1> HIDE DEF before, rank
  <1>7. \A i, j \in G : rank[i] = rank[j] => i = j
    <2>1. \A i \in G : rank[i] \in Nat
      BY <1>4, <1>1
    <2> QED BY <1>5, <2>1, HeavierOrders
  <1>8. \A k \in 1..n : \E i \in G : rank[i] = k
    <2>1. rank \in Injection(G, 1..n)
      BY <1>6, <1>7 DEF Injection, IsInjective
    <2>2. IsFiniteSet(1..n) /\ Cardinality(1..n) = n
      BY <1>1, FS_Interval
    <2>3. rank \in Surjection(G, 1..n)
      BY <2>1, <2>2, FS_Injection
    <2> QED BY <2>3 DEF Surjection
  <1>9. Sorted(h) = [k \in 1..n |-> CHOOSE i \in G : Cardinality(before(i)) = k - 1]
    BY DEF Sorted, before
  <1>10. ASSUME NEW k \in 1..n
         PROVE  Sorted(h)[k] \in G /\ rank[Sorted(h)[k]] = k
    <2>1. \A i \in G : Cardinality(before(i)) \in Nat
      BY <1>1, <1>2
    <2>2. \A i \in G : Cardinality(before(i)) = k - 1 <=> rank[i] = k
      BY <1>1, <1>4, <2>1
    <2>3. \E i \in G : Cardinality(before(i)) = k - 1
      BY <1>8, <2>2
    <2>4. Sorted(h)[k] \in G /\ Cardinality(before(Sorted(h)[k])) = k - 1
      BY <1>9, <2>3
    <2> QED BY <2>2, <2>4
  <1>11. Sorted(h) \in [1..n -> G]
    BY <1>9, <1>10
  <1>12. Len(Sorted(h)) = n
    BY <1>1, <1>11
  <1>13. \A i \in G : \E k \in 1..n : Sorted(h)[k] = i
    <2> TAKE i \in G
    <2>1. rank[i] \in 1..n
      BY <1>4
    <2>2. Sorted(h)[rank[i]] = i
      BY <1>7, <1>10, <2>1
    <2> QED BY <2>1, <2>2
  <1>14. ASSUME NEW k \in 1..n, NEW l \in 1..n, k < l
         PROVE  Heavier(h, Sorted(h)[k], Sorted(h)[l])
    <2>1. ~ (l < k) /\ k # l
      BY <1>1, <1>14
    <2>2. Sorted(h)[k] # Sorted(h)[l] /\ ~ Heavier(h, Sorted(h)[l], Sorted(h)[k])
      BY <1>5, <1>10, <2>1
    <2> QED BY <1>10, <2>2, HeavierOrders
  <1> QED BY <1>1, <1>11, <1>12, <1>13, <1>14

-----------------------------------------------------------------------------
(* The Accept header: the choice of the types.                              *)

\* Does the k-th of the sorted ranges match the type, and is it the first?
Fits(h, k, type) == k \in DOMAIN Sorted(h) /\ type \in h[Sorted(h)[k]].matches

First(h, k, type) == Fits(h, k, type) /\ \A e \in 1..k - 1 : ~ Fits(h, e, type)

Occurs(list, type) == \E i \in 1..Len(list) : list[i] = type

\* Both types are matched, and x by an earlier range than y or, json before
\* msgpack, by the same one.
Before(h, x, y) ==
  \E k, l \in Nat \ {0} : /\ First(h, k, x) /\ First(h, l, y)
                          /\ k < l \/ (k = l /\ x = "json" /\ y = "msgpack")

Ordered(h, list) == \A a, b \in 1..Len(list) : a < b => Before(h, list[a], list[b])

\* What list holds once json was offered to the first j ranges and msgpack to
\* the first m: the types that one of them matches, by the first that does.
Offered(h, list, j, m) ==
  /\ list \in Seq(Types)
  /\ Occurs(list, "json") <=> \E k \in 1..j : Fits(h, k, "json")
  /\ Occurs(list, "msgpack") <=> \E k \in 1..m : Fits(h, k, "msgpack")
  /\ Ordered(h, list)

\* A type that some range matches has a first one.
LEMMA FirstExists ==
  ASSUME NEW h, NEW n \in Nat, NEW type, \E k \in 1..n : Fits(h, k, type)
  PROVE  \E k \in 1..n : First(h, k, type)
  <1> DEFINE S == {k \in 1..n : Fits(h, k, type)}
  <1>1. S \in SUBSET Nat /\ S # {}
    OBVIOUS
  <1>2. PICK k \in S : \A e \in S : k <= e
    <2> HIDE DEF S
    <2> QED BY <1>1, Least
  <1>3. k \in 1..n /\ Fits(h, k, type)
    BY <1>2
  <1>4. ASSUME NEW e \in 1..k - 1 PROVE ~ Fits(h, e, type)
    <2>1. e \in 1..n /\ ~ (k <= e)
      BY <1>3
    <2>2. e \notin S
      <3> HIDE DEF S
      <3> QED BY <1>2, <2>1
    <2> QED BY <2>1, <2>2
  <1> QED BY <1>3, <1>4 DEF First

\* An offer refused, or one taken: the type was not there, and comes last.
LEMMA OfferCases ==
  ASSUME NEW range, NEW list \in Seq(Types), NEW type \in Types, NEW u, u = Offer(range, list, type)
  PROVE  \/ u = list /\ (type \in range.matches => Occurs(list, type))
         \/ /\ type \in range.matches /\ ~ Occurs(list, type)
            /\ u \in Seq(Types) /\ Len(u) = Len(list) + 1 /\ u[Len(u)] = type
            /\ \A i \in 1..Len(list) : u[i] = list[i]
  <1>1. Contains(list, type) <=> Occurs(list, type)
    BY DEF Contains, Occurs, ToSet
  <1>2. CASE type \in range.matches /\ ~ Contains(list, type)
    <2>1. u = Append(list, type)
      BY <1>2 DEF Offer
    <2> QED BY <1>1, <1>2, <2>1
  <1>3. CASE ~ (type \in range.matches /\ ~ Contains(list, type))
    BY <1>1, <1>3 DEF Offer
  <1> QED BY <1>2, <1>3

\* The order of a list that grows by a type that comes last.
LEMMA OrderGrows ==
  ASSUME NEW h, NEW list \in Seq(Types), NEW u \in Seq(Types), NEW type,
         Len(u) = Len(list) + 1, \A i \in 1..Len(list) : u[i] = list[i], u[Len(u)] = type,
         \A a \in 1..Len(list) : Before(h, list[a], type),
         Ordered(h, list)
  PROVE  Ordered(h, u)
  <1> SUFFICES ASSUME NEW a \in 1..Len(u), NEW b \in 1..Len(u), a < b
               PROVE  Before(h, u[a], u[b])
    BY DEF Ordered
  <1>1. /\ Len(list) \in Nat /\ a \in 1..Len(list) /\ u[a] = list[a]
        /\ b \in 1..Len(list) \/ b = Len(u)
    OBVIOUS
  <1>2. CASE b \in 1..Len(list)
    BY <1>1, <1>2 DEF Ordered
  <1>3. CASE b = Len(u)
    BY <1>1, <1>3
  <1> QED BY <1>1, <1>2, <1>3

\* The list still holds what it held, and the new type.
LEMMA OccursGrows ==
  ASSUME NEW list \in Seq(Types), NEW u \in Seq(Types), NEW type, NEW other,
         Len(u) = Len(list) + 1, \A i \in 1..Len(list) : u[i] = list[i], u[Len(u)] = type,
         other # type
  PROVE  Occurs(u, type) /\ (Occurs(u, other) <=> Occurs(list, other))
  <1>1. Len(list) \in Nat /\ Len(u) \in 1..Len(u)
    OBVIOUS
  <1>2. \A i \in 1..Len(u) : i = Len(u) \/ i \in 1..Len(list)
    BY <1>1
  <1>3. \A i \in 1..Len(list) : i \in 1..Len(u)
    BY <1>1
  <1> QED BY <1>1, <1>2, <1>3 DEF Occurs

\* One turn offers json, then msgpack.
LEMMA JsonOffered ==
  ASSUME NEW h, NEW k \in Nat \ {0}, k \in DOMAIN Sorted(h), NEW list, Offered(h, list, k - 1, k - 1), NEW u,
         u = Offer(h[Sorted(h)[k]], list, "json")
  PROVE  Offered(h, u, k, k - 1)
  <1>1. list \in Seq(Types) /\ "json" \in Types /\ "msgpack" \in Types
    BY DEF Offered, Types
  <1>2. \A e \in 1..k : e = k \/ e \in 1..k - 1
    OBVIOUS
  <1>3. k \in 1..k /\ \A e \in 1..k - 1 : e \in 1..k
    OBVIOUS
  <1>4. CASE u = list /\ (Fits(h, k, "json") => Occurs(list, "json"))
    <2>1. Occurs(u, "json") <=> \E e \in 1..k : Fits(h, e, "json")
      BY <1>2, <1>3, <1>4 DEF Offered
    <2> QED BY <1>4, <2>1 DEF Offered
  <1>5. CASE /\ Fits(h, k, "json") /\ ~ Occurs(list, "json")
             /\ u \in Seq(Types) /\ Len(u) = Len(list) + 1 /\ u[Len(u)] = "json"
             /\ \A i \in 1..Len(list) : u[i] = list[i]
    <2>1. First(h, k, "json")
      BY <1>5 DEF Offered, First
    <2>2. "json" \in Types /\ "msgpack" # "json"
      BY <1>1
    <2>3. Occurs(u, "json") /\ (Occurs(u, "msgpack") <=> Occurs(list, "msgpack"))
      BY <1>1, <1>5, <2>2, OccursGrows, Zenon
    <2>4. ASSUME NEW a \in 1..Len(list) PROVE Before(h, list[a], "json")
      <3>1. list[a] = "msgpack"
        BY <1>1, <1>5 DEF Occurs, Types
      <3>2. k - 1 \in Nat /\ \E e \in 1..k - 1 : Fits(h, e, "msgpack")
        BY <3>1 DEF Offered, Occurs
      <3>3. PICK e \in 1..k - 1 : First(h, e, "msgpack")
        BY <3>2, FirstExists, Zenon
      <3> QED BY <2>1, <3>1, <3>3 DEF Before
    <2>5. Ordered(h, u)
      <3>1. Ordered(h, list)
        BY DEF Offered
      <3> QED BY <1>1, <1>5, <2>4, <3>1, OrderGrows, Zenon
    <2>6. Occurs(u, "msgpack") <=> \E e \in 1..k - 1 : Fits(h, e, "msgpack")
      BY <2>3 DEF Offered
    <2> QED BY <1>3, <1>5, <2>3, <2>5, <2>6 DEF Offered
  <1>6. Fits(h, k, "json") <=> "json" \in h[Sorted(h)[k]].matches
    BY DEF Fits
  <1> QED BY <1>1, <1>4, <1>5, <1>6, OfferCases

LEMMA MsgpackOffered ==
  ASSUME NEW h, NEW k \in Nat \ {0}, k \in DOMAIN Sorted(h), NEW list, Offered(h, list, k, k - 1), NEW u,
         u = Offer(h[Sorted(h)[k]], list, "msgpack")
  PROVE  Offered(h, u, k, k)
  <1>1. list \in Seq(Types) /\ "json" \in Types /\ "msgpack" \in Types
    BY DEF Offered, Types
  <1>2. \A e \in 1..k : e = k \/ e \in 1..k - 1
    OBVIOUS
  <1>3. k \in 1..k /\ \A e \in 1..k - 1 : e \in 1..k
    OBVIOUS
  <1>4. CASE u = list /\ (Fits(h, k, "msgpack") => Occurs(list, "msgpack"))
    <2>1. Occurs(u, "msgpack") <=> \E e \in 1..k : Fits(h, e, "msgpack")
      BY <1>2, <1>3, <1>4 DEF Offered
    <2> QED BY <1>4, <2>1 DEF Offered
  <1>5. CASE /\ Fits(h, k, "msgpack") /\ ~ Occurs(list, "msgpack")
             /\ u \in Seq(Types) /\ Len(u) = Len(list) + 1 /\ u[Len(u)] = "msgpack"
             /\ \A i \in 1..Len(list) : u[i] = list[i]
    <2>1. First(h, k, "msgpack")
      BY <1>5 DEF Offered, First
    <2>2. "msgpack" \in Types /\ "json" # "msgpack"
      BY <1>1
    <2>3. Occurs(u, "msgpack") /\ (Occurs(u, "json") <=> Occurs(list, "json"))
      BY <1>1, <1>5, <2>2, OccursGrows, Zenon
    <2>4. ASSUME NEW a \in 1..Len(list) PROVE Before(h, list[a], "msgpack")
      <3>1. list[a] = "json"
        BY <1>1, <1>5 DEF Occurs, Types
      <3>2. k \in Nat /\ \E e \in 1..k : Fits(h, e, "json")
        BY <3>1 DEF Offered, Occurs
      <3>3. PICK e \in 1..k : First(h, e, "json")
        BY <3>2, FirstExists, Zenon
      <3> QED BY <2>1, <3>1, <3>3 DEF Before
    <2>5. Ordered(h, u)
      <3>1. Ordered(h, list)
        BY DEF Offered
      <3> QED BY <1>1, <1>5, <2>4, <3>1, OrderGrows, Zenon
    <2>6. Occurs(u, "json") <=> \E e \in 1..k : Fits(h, e, "json")
      BY <2>3 DEF Offered
    <2> QED BY <1>3, <1>5, <2>3, <2>5, <2>6 DEF Offered
  <1>6. Fits(h, k, "msgpack") <=> "msgpack" \in h[Sorted(h)[k]].matches
    BY DEF Fits
  <1> QED BY <1>1, <1>4, <1>5, <1>6, OfferCases

LEMMA OfferType ==
  ASSUME NEW range, NEW list \in Seq(Types), NEW type \in Types
  PROVE  Offer(range, list, type) \in Seq(Types)
  BY DEF Offer

\* The recursion of Taken has a solution, and Taken is one.
LEMMA TakenFollows ==
  ASSUME NEW h \in Headers
  PROVE  /\ Taken(h)[0] = <<>>
         /\ \A k \in 1..Len(Sorted(h)) :
              Taken(h)[k] = Offer(h[Sorted(h)[k]],
                                  Offer(h[Sorted(h)[k]], Taken(h)[k - 1], "json"), "msgpack")
  <1> DEFINE turn(p, k) == Offer(h[Sorted(h)[k]], Offer(h[Sorted(h)[k]], p, "json"), "msgpack")
             n == Len(Sorted(h))
             step == [pk \in Seq(Types) \X (1..n) |-> turn(pk[1], pk[2])]
  <1>1. n \in Nat /\ <<>> \in Seq(Types) /\ "json" \in Types /\ "msgpack" \in Types
    BY SortedSorts DEF Types
  <1>2. ASSUME NEW p \in Seq(Types), NEW k PROVE turn(p, k) \in Seq(Types)
    BY <1>1, OfferType
  <1> HIDE DEF turn
  <1>3. /\ step \in [Seq(Types) \X (1..n) -> Seq(Types)]
        /\ \A p \in Seq(Types), k \in 1..n : step[<<p, k>>] = turn(p, k)
    BY <1>2
  <1> HIDE DEF step, n
  <1>4. PICK f \in [0..n -> Seq(Types)] : Follows(f, n, <<>>, step)
    BY <1>1, <1>3, Recursion, Zenon
  <1>5. f[0] = <<>> /\ \A k \in 1..n : f[k] = turn(f[k - 1], k)
    <2>1. f[0] = <<>> /\ \A k \in 1..n : f[k] = step[<<f[k - 1], k>>]
      BY <1>4 DEF Follows
    <2>2. \A k \in 1..n : f[k - 1] \in Seq(Types)
      BY <1>1, <1>4
    <2> QED BY <1>3, <2>1, <2>2
  <1>6. f = [k \in 0..n |-> IF k = 0 THEN <<>> ELSE turn(f[k - 1], k)]
    <2>1. \A k \in 0..n : f[k] = IF k = 0 THEN <<>> ELSE turn(f[k - 1], k)
      BY <1>1, <1>5
    <2> QED BY <1>4, <2>1
  <1> DEFINE Solves(g) == g = [k \in 0..n |-> IF k = 0 THEN <<>> ELSE turn(g[k - 1], k)]
  <1>7. Taken(h) = CHOOSE g : Solves(g)
    BY Zenon DEF Taken, turn, n, CONTENT_TYPES
  <1>8. Solves(f)
    BY <1>6
  <1> HIDE DEF Solves
  <1>9. Solves(Taken(h))
    BY <1>7, <1>8, Zenon
  <1>10. ASSUME NEW g, Solves(g)
         PROVE  g[0] = <<>> /\ \A k \in 1..n : g[k] = turn(g[k - 1], k)
    BY <1>1, <1>10 DEF Solves
  <1> QED BY <1>9, <1>10 DEF turn, n

\* After every turn: the turn with the least number after which it is wrong
\* cannot be the first one, and not a later one either.
LEMMA TakenOffered ==
  ASSUME NEW h \in Headers, NEW n \in 0..Len(Sorted(h))
  PROVE  Offered(h, Taken(h)[n], n, n)
  <1> DEFINE wrong == {k \in 0..Len(Sorted(h)) : ~ Offered(h, Taken(h)[k], k, k)}
  <1>1. Len(Sorted(h)) \in Nat
    BY SortedSorts
  <1>2. SUFFICES ASSUME wrong # {} PROVE FALSE
    OBVIOUS
  <1>3. wrong \in SUBSET Nat
    BY <1>1
  <1>4. PICK k \in wrong : \A e \in wrong : k <= e
    <2> HIDE DEF wrong
    <2> QED BY <1>2, <1>3, Least
  <1>5. k \in 0..Len(Sorted(h)) /\ ~ Offered(h, Taken(h)[k], k, k)
    BY <1>4
  <1>6. CASE k = 0
    <2>1. Taken(h)[k] = <<>>
      BY <1>6, TakenFollows
    <2>2. Offered(h, <<>>, 0, 0)
      BY DEF Offered, Occurs, Ordered
    <2> QED BY <1>5, <1>6, <2>1, <2>2
  <1>7. CASE k # 0
    <2>1. k - 1 \in 0..Len(Sorted(h)) /\ k \in 1..Len(Sorted(h)) /\ k \in Nat \ {0} /\ ~ (k <= k - 1)
      BY <1>1, <1>5, <1>7
    <2>0. k \in DOMAIN Sorted(h)
      BY <2>1, SortedSorts
    <2>2. k - 1 \notin wrong
      <3> HIDE DEF wrong
      <3> QED BY <1>4, <2>1
    <2>3. Offered(h, Taken(h)[k - 1], k - 1, k - 1)
      BY <2>1, <2>2
    <2> DEFINE half == Offer(h[Sorted(h)[k]], Taken(h)[k - 1], "json")
    <2>4. Offered(h, half, k, k - 1)
      BY <2>0, <2>1, <2>3, JsonOffered, Zenon
    <2>5. Taken(h)[k] = Offer(h[Sorted(h)[k]], half, "msgpack")
      BY <2>1, TakenFollows, Zenon
    <2> HIDE DEF half
    <2>6. Offered(h, Taken(h)[k], k, k)
      BY <2>0, <2>1, <2>4, <2>5, MsgpackOffered, Zenon
    <2> QED BY <1>5, <2>6
  <1> QED BY <1>6, <1>7

\* The best range for a type is the first of the sorted ones that matches it.
LEMMA BestIsFirst ==
  ASSUME header \in Headers, NEW k \in Nat \ {0}, NEW type, First(header, k, type)
  PROVE  Best(type) = Sorted(header)[k] /\ Sorted(header)[k] \in Good(header)
  <1> DEFINE n == Cardinality(Good(header))
             best == Sorted(header)[k]
             fits == {i \in DOMAIN header : header[i].kind = "good" /\ type \in header[i].matches}
             heaviest(i) == \A j \in fits : \/ header[i].weight > header[j].weight
                                            \/ header[i].weight = header[j].weight /\ i <= j
  <1>1. /\ n \in Nat /\ Sorted(header) \in [1..n -> Good(header)]
        /\ \A i \in Good(header) : \E l \in 1..n : Sorted(header)[l] = i
        /\ \A l, m \in 1..n : l < m => Heavier(header, Sorted(header)[l], Sorted(header)[m])
    BY SortedSorts
  <1>2. k \in 1..n /\ type \in header[best].matches /\ best \in Good(header)
    BY <1>1 DEF First, Fits
  <1>3. fits = {i \in Good(header) : type \in header[i].matches}
    BY DEF Good
  <1>4. \A i \in Good(header) : i \in Nat /\ header[i].weight \in Nat
    BY HeaderFacts
  <1> HIDE DEF n, fits
  <1>5. ASSUME NEW j \in fits PROVE j = best \/ Heavier(header, best, j)
    <2>1. PICK l \in 1..n : Sorted(header)[l] = j
      BY <1>1, <1>3
    <2>2. Fits(header, l, type)
      BY <1>1, <1>3, <2>1 DEF Fits
    <2>3. ~ (l \in 1..k - 1)
      BY <2>2 DEF First
    <2>4. l = k \/ k < l
      BY <1>1, <1>2, <2>3
    <2> QED BY <1>1, <1>2, <2>1, <2>4
  <1>6. best \in fits /\ heaviest(best)
    <2>1. ASSUME NEW j \in fits
          PROVE  \/ header[best].weight > header[j].weight
                 \/ header[best].weight = header[j].weight /\ best <= j
      BY <1>2, <1>3, <1>4, <1>5 DEF Heavier
    <2> QED BY <1>2, <1>3, <2>1
  <1>7. ASSUME NEW i \in fits, heaviest(i) PROVE i = best
    BY <1>2, <1>3, <1>4, <1>5, <1>6, <1>7 DEF Heavier
  <1>8. Best(type) = CHOOSE i \in fits : heaviest(i)
    BY DEF Best, fits
  <1> HIDE DEF heaviest
  <1> QED BY <1>2, <1>6, <1>7, <1>8

\* The client prefers what is taken before.
LEMMA PrefersFollowsOrder ==
  ASSUME header \in Headers, NEW x, NEW y, Before(header, x, y)
  PROVE  Prefers(x, y)
  <1>1. PICK k, l \in Nat \ {0} : /\ First(header, k, x) /\ First(header, l, y)
                                  /\ k < l \/ (k = l /\ x = "json" /\ y = "msgpack")
    BY DEF Before
  <1>2. /\ Best(x) = Sorted(header)[k] /\ Best(y) = Sorted(header)[l]
    BY <1>1, BestIsFirst
  <1>3. CASE k < l
    <2>1. k \in 1..Cardinality(Good(header)) /\ l \in 1..Cardinality(Good(header))
      BY <1>1, SortedSorts DEF First, Fits
    <2>2. Heavier(header, Best(x), Best(y))
      BY <1>2, <1>3, <2>1, SortedSorts
    <2> QED BY <2>2 DEF Heavier, Prefers
  <1>4. CASE k = l /\ x = "json" /\ y = "msgpack"
    BY <1>2, <1>4 DEF Prefers
  <1> QED BY <1>1, <1>3, <1>4

LEMMA AcceptedTyped ==
  ASSUME NEW h \in Headers
  PROVE  AcceptedTypes(h) \in Seq(Types)
  <1>1. Len(Sorted(h)) \in 0..Len(Sorted(h))
    BY SortedSorts
  <1> QED BY <1>1, TakenOffered DEF AcceptedTypes, Offered

LEMMA AcceptedAreBest ==
  ASSUME header \in Headers, NEW list, list = AcceptedTypes(header)
  PROVE  /\ list \in Seq(Types)
         /\ ToSet(list) = {type \in Types : Matched(type)}
         /\ \A i, j \in DOMAIN list : i < j => Prefers(list[i], list[j])
  <1> DEFINE n == Len(Sorted(header))
  <1>1. /\ n \in Nat /\ n = Cardinality(Good(header))
        /\ Sorted(header) \in [1..n -> Good(header)]
        /\ \A i \in Good(header) : \E l \in 1..n : Sorted(header)[l] = i
    BY SortedSorts
  <1>2. Offered(header, list, n, n)
    BY <1>1, TakenOffered DEF AcceptedTypes
  <1>3. list \in Seq(Types) /\ Len(list) \in Nat /\ DOMAIN list = 1..Len(list)
    BY <1>2 DEF Offered
  <1> HIDE DEF n
  <1>4. ASSUME NEW type \in Types
        PROVE  (\E k \in 1..n : Fits(header, k, type)) <=> Matched(type)
    BY <1>1 DEF Fits, Matched, Good
  <1>5. ASSUME NEW type \in Types PROVE Occurs(list, type) <=> Matched(type)
    BY <1>2, <1>4 DEF Offered, Types
  <1>6. \A type : type \in ToSet(list) <=> type \in Types /\ Occurs(list, type)
    BY <1>3 DEF ToSet, Occurs
  <1>7. ASSUME NEW i \in DOMAIN list, NEW j \in DOMAIN list, i < j
        PROVE  Prefers(list[i], list[j])
    BY <1>2, <1>3, <1>7, PrefersFollowsOrder DEF Offered, Ordered
  <1> QED BY <1>3, <1>5, <1>6, <1>7

-----------------------------------------------------------------------------
(* What is answered. *)

LEMMA ResponseFits ==
  ASSUME NEW list \in Seq(Types), NEW encodable \in SUBSET Types,
         NEW status \in {200, 400, 413, 500}, NEW body \in {"result", "error"},
         NEW response, response = Respond(list, encodable, status, body)
  PROVE  /\ response \in Answers /\ response # NoAnswer
         /\ response.type \in Types => response.type \in ToSet(list)
         /\ response.body = "explanation" =>
              response.type = "json" /\ "msgpack" \notin ToSet(list)
  <1> DEFINE possible == {i \in DOMAIN list : list[i] \in encodable}
  <1>1. /\ Len(list) \in Nat /\ DOMAIN list = 1..Len(list)
        /\ \A i \in 1..Len(list) : list[i] \in Types
        /\ ToSet(list) = {list[i] : i \in 1..Len(list)}
    BY DEF ToSet
  <1>2. CASE possible # {}
    <2>1. possible \in SUBSET Nat
      BY <1>1
    <2>2. Min(possible) \in possible
      <3> HIDE DEF possible
      <3> QED BY <1>2, <2>1, Least
    <2> DEFINE first == Min(possible)
    <2>3. first \in 1..Len(list)
      BY <1>1, <2>2
    <2>4. response = Answer(status, list[first], body)
      BY <1>2 DEF Respond
    <2> HIDE DEF first
    <2>5. list[first] \in Types /\ list[first] \in ToSet(list)
      BY <1>1, <2>3
    <2> QED BY <2>4, <2>5 DEF Answer, Answers, NoAnswer
  <1>3. CASE possible = {} /\ "msgpack" \in ToSet(list)
    <2>1. response = Answer(406, "none", "none")
      BY <1>3 DEF Respond
    <2> QED BY <2>1 DEF Answer, Answers, NoAnswer, Types
  <1>4. CASE possible = {} /\ "msgpack" \notin ToSet(list) /\ list # <<>>
    <2>1. response = Answer(406, list[1], "explanation")
      BY <1>4 DEF Respond
    <2>2. 1 \in 1..Len(list)
      BY <1>1, <1>4
    <2>3. list[1] \in Types /\ list[1] \in ToSet(list)
      BY <1>1, <2>2
    <2>4. list[1] = "json"
      BY <1>4, <2>3 DEF Types
    <2> QED BY <1>4, <2>1, <2>3, <2>4 DEF Answer, Answers, NoAnswer
  <1>5. CASE possible = {} /\ "msgpack" \notin ToSet(list) /\ list = <<>>
    <2>1. response = Uncaught
      BY <1>5 DEF Respond
    <2> QED BY <2>1 DEF Uncaught, Answer, Answers, NoAnswer, Types
  <1> QED BY <1>2, <1>3, <1>4, <1>5

\* Until the body is read, the accepted types are those of the header; beside
\* that, the types that TypeOK gives to what the request keeps.
RequestInv ==
  /\ phase \in {"loading", "idle", "negotiated", "decoded", "answered"}
  /\ header \in Headers
  /\ accepted \in Seq(Types)
  /\ answer \in Answers \cup {NoAnswer}
  /\ phase = "answered" <=> answer # NoAnswer
  /\ phase = "negotiated" => accepted = AcceptedTypes(header)
  /\ AnswersInAcceptedType

LEMMA EmptyHeader == <<>> \in Headers
  <1>1. <<>> \in [1..0 -> Ranges] /\ 0 \in 0..MaxRanges
    BY NegotiationAssumption
  <1> QED BY <1>1 DEF Headers, BoundedSeq, SeqOf

LEMMA StepServes == RequestInv /\ [Next]_vars => RequestInv'
  <1> SUFFICES ASSUME RequestInv, [Next]_vars PROVE RequestInv'
    OBVIOUS
  <1>1. CASE Load \/ Serve \/ UNCHANGED vars
    BY <1>1 DEF Load, Serve, vars, RequestInv, AnswersInAcceptedType
  <1>2. CASE Receive
    <2>1. header' \in Headers /\ answer = NoAnswer
      BY <1>2 DEF Receive, RequestInv
    <2>2. CASE HeaderRaises(header')
      <3>1. phase' = "answered" /\ answer' = Uncaught /\ UNCHANGED accepted
        BY <1>2, <2>2 DEF Receive, Send
      <3> QED BY <2>1, <3>1 DEF RequestInv, AnswersInAcceptedType, Uncaught, Answer,
                                Answers, NoAnswer, Types
    <2>3. CASE ~ HeaderRaises(header')
      <3>1. accepted' = AcceptedTypes(header') /\ phase' = "negotiated" /\ UNCHANGED answer
        BY <1>2, <2>3 DEF Receive
      <3>2. accepted' \in Seq(Types)
        BY <2>1, <3>1, AcceptedTyped
      <3> QED BY <2>1, <3>1, <3>2 DEF RequestInv, AnswersInAcceptedType
    <2> QED BY <2>2, <2>3
  <1>3. ASSUME NEW encodable \in SUBSET Types, NEW status \in {200, 400, 413, 500},
               NEW body \in {"result", "error"},
               Reply(encodable, status, body), header' \in Headers, accepted' = accepted
        PROVE  RequestInv'
    <2>1. phase' = "answered" /\ answer' = Respond(accepted, encodable, status, body)
      BY <1>3 DEF Reply, Send
    <2>2. accepted \in Seq(Types)
      BY DEF RequestInv
    <2>3. /\ answer' \in Answers /\ answer' # NoAnswer
          /\ answer'.type \in Types => answer'.type \in ToSet(accepted)
          /\ answer'.body = "explanation" =>
               answer'.type = "json" /\ "msgpack" \notin ToSet(accepted)
      BY <1>3, <2>1, <2>2, ResponseFits
    <2>4. AnswersInAcceptedType'
      BY <1>3, <2>3 DEF AnswersInAcceptedType
    <2> QED BY <1>3, <2>1, <2>2, <2>3, <2>4 DEF RequestInv, NoAnswer
  <1>4. CASE ReadBody
    <2>1. header' \in Headers /\ accepted' = accepted /\ answer = NoAnswer
      BY <1>4, EmptyHeader DEF ReadBody, RequestInv
    <2>2. CASE phase' = "decoded" /\ UNCHANGED answer
      BY <2>1, <2>2 DEF RequestInv, AnswersInAcceptedType
    <2>3. CASE \E status \in {400, 413, 500} : Reply(Types, status, "error")
      BY <1>3, <2>1, <2>3
    <2> QED BY <1>4, <2>2, <2>3 DEF ReadBody
  <1>5. CASE RunMalformed \/ RunHandler \/ TestHandler \/ LanguagesHandler \/ SystemHandler
    <2>1. header' \in Headers /\ accepted' = accepted
      BY <1>5 DEF RunMalformed, RunHandler, TestHandler, LanguagesHandler, SystemHandler,
                  KeepRegistry, RequestInv
    <2>2. Failed \/ \E encodable \in SUBSET Types : Reply(encodable, 200, "result")
      <3>1. Types \in SUBSET Types /\ {"json"} \in SUBSET Types
        BY DEF Types
      <3>2. CASE RunMalformed
        BY <3>1, <3>2 DEF RunMalformed
      <3>3. CASE RunHandler
        BY <3>3 DEF RunHandler, Started, Done
      <3>4. CASE TestHandler
        BY <3>4, Zenon DEF TestHandler, Started, Done
      <3>5. CASE LanguagesHandler \/ SystemHandler
        BY <3>1, <3>5 DEF LanguagesHandler, SystemHandler
      <3> QED BY <1>5, <3>2, <3>3, <3>4, <3>5
    <2>3. CASE Failed
      <3>1. Types \in SUBSET Types /\ {"json"} \in SUBSET Types
        BY DEF Types
      <3> QED BY <1>3, <2>1, <2>3, <3>1 DEF Failed
    <2>4. CASE \E encodable \in SUBSET Types : Reply(encodable, 200, "result")
      BY <1>3, <2>1, <2>4
    <2> QED BY <2>2, <2>3, <2>4
  <1> QED BY <1>1, <1>2, <1>4, <1>5 DEF Next

LEMMA RequestInductive == Spec => []RequestInv
  <1>1. Init => RequestInv
    BY EmptyHeader DEF Init, RequestInv, AnswersInAcceptedType
  <1> QED BY <1>1, StepServes, PTL DEF Spec

(* utils.py:177-199, doc/usage.rst:203-207: whatever the header, however many
   ranges it has and whatever their weights, the accepted types are those that
   a range matches, in the order of the best range of each. *)
THEOREM AcceptsTheBest == Spec => []BestAcceptable
  <1>1. RequestInv => BestAcceptable
    <2> SUFFICES ASSUME header \in Headers, accepted = AcceptedTypes(header) PROVE BestAcceptable
      BY DEF RequestInv, BestAcceptable
    <2> QED BY AcceptedAreBest DEF BestAcceptable
  <1> QED BY <1>1, RequestInductive, PTL

(* httpserver.py:53-87: an answer that has a type has one that the client
   accepts, and only a client that does not accept msgpack is told to. *)
THEOREM AnswersAsAccepted == Spec => []AnswersInAcceptedType
  BY RequestInductive, PTL DEF RequestInv

\* What the types of the registries need beside RegistryInv.
SizeInv == Len(classes) <= MaxClasses /\ DOMAIN df \subseteq 1..MaxClasses

LEMMA StepSize == RegistryInv /\ SizeInv /\ [Next]_vars => SizeInv'
  <1> SUFFICES ASSUME RegistryInv, SizeInv, [Next]_vars PROVE SizeInv'
    OBVIOUS
  <1>1. ASSUME NEW name \in Names, NEW parent \in 0..Len(classes), NEW declared \in Declarable,
               NEW registered \in BOOLEAN, Define(name, parent, declared, registered)
        PROVE  SizeInv'
    <2>1. PICK n, executer : n = Len(classes) /\ executer = ExecuterOf(n + 1, parent, declared, registered)
      OBVIOUS
    <2>2. classes \in Seq(Classes) /\ n + 1 <= MaxClasses
      BY <1>1, <2>1 DEF RegistryInv, Define
    <2>3. n \in Nat /\ MaxClasses \in Nat /\ (registered => executer \in 1..MaxClasses)
      BY <2>1, <2>2, ExecuterInRange
    <2>4. /\ classes' = Append(classes, [name |-> name, parent |-> parent, declared |-> declared,
                                         executer |-> executer, registered |-> registered])
          /\ IF registered THEN df' = Put(df, executer, n + 1) ELSE df' = df
      BY <1>1, <2>1 DEF Define, Enter
    <2>5. Len(classes') = n + 1
      BY <2>1, <2>2, <2>4
    <2>6. DOMAIN df' \subseteq 1..MaxClasses
      BY <2>3, <2>4 DEF SizeInv, Put
    <2> QED BY <2>2, <2>3, <2>5, <2>6 DEF SizeInv
  <1>2. CASE Load
    BY <1>1, <1>2 DEF Load, DefineSome
  <1>3. CASE UNCHANGED <<classes, definitions, executers, df>>
    BY <1>3 DEF SizeInv
  <1>4. Next => Load \/ UNCHANGED <<classes, definitions, executers, df>>
    BY DEF Next, Serve, Receive, ReadBody, RunMalformed, RunHandler, TestHandler,
           LanguagesHandler, SystemHandler, KeepRegistry
  <1> QED BY <1>2, <1>3, <1>4 DEF vars

(* The types of the server. *)
THEOREM ServerTypes == Spec => []TypeOK
  <1>1. Init => SizeInv
    BY RegistryAssumption DEF Init, RegistryInit, SizeInv
  <1>2. Spec => []SizeInv
    BY <1>1, StepSize, RegistryInductive, PTL DEF Spec
  <1>3. RegistryInv /\ SizeInv /\ RequestInv => TypeOK
    <2> SUFFICES ASSUME RegistryInv, SizeInv, RequestInv PROVE TypeOK
      OBVIOUS
    <2>1. \A key \in DOMAIN definitions : key \in Key
      <3> TAKE key \in DOMAIN definitions
      <3>1. definitions[key] \in 1..Len(classes) /\ classes \in Seq(Classes)
        BY DEF RegistryInv
      <3>2. classes[definitions[key]] \in Classes
        BY <3>1
      <3>3. classes[definitions[key]].name.key \in Key
        BY <3>2 DEF Classes, Names
      <3> QED BY <3>3 DEF RegistryInv, LookupIsNewest
    <2>2. RegistryTypeOK
      BY <2>1 DEF RegistryInv, SizeInv, RegistryTypeOK
    <2> QED BY <2>2 DEF RequestInv, TypeOK
  <1> QED BY <1>2, <1>3, RegistryInductive, RequestInductive, PTL
=============================================================================
