-------------------------- MODULE DeltaWalkProofs --------------------------
(***************************************************************************)
(* The walk finds what it should, for every reference graph (cyclic ones   *)
(* included), every store and every order of looking at the paths; and the *)
(* sum it compares with the ceiling is that of what it found, whatever the *)
(* sizes.                                                                  *)
(***************************************************************************)
EXTENDS DeltaWalk, FiniteSetTheorems, WellFoundedInduction, TLAPS

-----------------------------------------------------------------------------
(***************************************************************************)
(* Sums over finite sets.  SumFunctionOnSet is a recursive function whose  *)
(* order of summation is a CHOOSE; that it has a value at all, and one     *)
(* that does not depend on the order, is shown on a smallest subset for    *)
(* which it fails.                                                         *)
(***************************************************************************)

(* The sum over a set takes the elements in the order of a CHOOSE.         *)
OneOf(s) == CHOOSE x \in s : TRUE
Rest(s) == s \ {OneOf(s)}

IsFold(g, fun, S) ==
    g = [s \in SUBSET S |-> IF s = {} THEN 0 ELSE fun[OneOf(s)] + g[Rest(s)]]

FoldOf(fun, S) == CHOOSE g : IsFold(g, fun, S)

LEMMA SumIsFold ==
    ASSUME NEW fun, NEW S
    PROVE  SumFunctionOnSet(fun, S) = FoldOf(fun, S)[S]
BY DEF SumFunctionOnSet, FoldFunctionOnSet, MapThenFoldSet, FoldOf, IsFold, OneOf, Rest

LEMMA OneOfIsIn ==
    ASSUME NEW s, s # {}
    PROVE  OneOf(s) \in s
BY DEF OneOf

LEMMA SmallestSet ==
    ASSUME NEW S, IsFiniteSet(S), NEW bad \in SUBSET SUBSET S, bad # {}
    PROVE  \E T \in bad : \A U \in bad : ~(U \subseteq T /\ U # T)
<1>1. IsWellFoundedOn(StrictSubsetOrdering(S), SUBSET S)
  BY FS_StrictSubsetOrderingWellFounded, FS_FiniteSubsetsOfFinite
<1>2. PICK T \in bad : \A U \in bad : ~(<<U, T>> \in StrictSubsetOrdering(S))
  BY <1>1, WFMin
<1> QED
  BY <1>2 DEF StrictSubsetOrdering

LEMMA FoldUnique ==
    ASSUME NEW S, IsFiniteSet(S), NEW T \in SUBSET S, NEW fun,
           NEW g, IsFold(g, fun, S), NEW h, IsFold(h, fun, T)
    PROVE  \A U \in SUBSET T : h[U] = g[U]
<1> DEFINE bad == {U \in SUBSET T : h[U] # g[U]}
<1> SUFFICES ASSUME bad # {} PROVE FALSE
  OBVIOUS
<1>0. bad \in SUBSET SUBSET S
  OBVIOUS
<1> HIDE DEF bad
<1>1. PICK U \in bad : \A V \in bad : ~(V \subseteq U /\ V # U)
  BY <1>0, SmallestSet
<1> USE DEF bad
<1>2. CASE U = {}
  BY <1>2 DEF IsFold
<1>3. CASE U # {}
  <2>1. /\ Rest(U) \in SUBSET T /\ Rest(U) \subseteq U /\ Rest(U) # U
    BY <1>3, OneOfIsIn DEF Rest
  <2>2. h[Rest(U)] = g[Rest(U)]
    BY <1>1, <2>1
  <2>3. /\ h[U] = fun[OneOf(U)] + h[Rest(U)]
        /\ g[U] = fun[OneOf(U)] + g[Rest(U)]
    BY <1>3 DEF IsFold
  <2> QED
    BY <2>2, <2>3
<1> QED
  BY <1>2, <1>3

LEMMA FoldExists ==
    ASSUME NEW S, IsFiniteSet(S), NEW fun
    PROVE  IsFold(FoldOf(fun, S), fun, S)
<1> DEFINE bad == {T \in SUBSET S : ~IsFold(FoldOf(fun, T), fun, T)}
<1> SUFFICES ASSUME bad # {} PROVE FALSE
  OBVIOUS
<1>0. bad \in SUBSET SUBSET S
  OBVIOUS
<1> HIDE DEF bad
<1>1. PICK T \in bad : \A U \in bad : ~(U \subseteq T /\ U # T)
  BY <1>0, SmallestSet
<1>2. \A U \in SUBSET T : U # T => IsFold(FoldOf(fun, U), fun, U)
  BY <1>1 DEF bad
<1> DEFINE Top(U) == FoldOf(fun, U)[U]
           g == [U \in SUBSET T |-> IF U = {} THEN 0 ELSE fun[OneOf(U)] + Top(Rest(U))]
<1>3. ASSUME NEW V \in SUBSET T, V # T
      PROVE  Top(V) = g[V]
  <2>1. FoldOf(fun, V)[V]
          = IF V = {} THEN 0 ELSE fun[OneOf(V)] + FoldOf(fun, V)[Rest(V)]
    <3>1. IsFold(FoldOf(fun, V), fun, V)
      BY <1>2, <1>3
    <3> QED
      BY <3>1 DEF IsFold
  <2>2. CASE V = {}
    BY <2>1, <2>2
  <2>3. CASE V # {}
    <3>1. Rest(V) \subseteq V /\ Rest(V) \in SUBSET T /\ Rest(V) # T
      BY <1>3 DEF Rest
    <3>2. IsFold(FoldOf(fun, V), fun, V) /\ IsFold(FoldOf(fun, Rest(V)), fun, Rest(V))
      BY <1>2, <1>3, <3>1
    <3>3. IsFiniteSet(V)
      BY <1>1, FS_Subset DEF bad
    <3>4. FoldOf(fun, Rest(V))[Rest(V)] = FoldOf(fun, V)[Rest(V)]
      BY <3>1, <3>2, <3>3, FoldUnique
    <3> QED
      BY <2>1, <2>3, <3>4
  <2> QED
    BY <2>2, <2>3
<1>4. \A U \in SUBSET T : U # {} => Top(Rest(U)) = g[Rest(U)]
  <2>1. \A U \in SUBSET T : U # {} => Rest(U) \in SUBSET T /\ Rest(U) # T
    BY OneOfIsIn DEF Rest
  <2> HIDE DEF Top, g
  <2> QED
    BY <1>3, <2>1
<1>5. IsFold(g, fun, T)
  <2>1. \A U \in SUBSET T :
           g[U] = IF U = {} THEN 0 ELSE fun[OneOf(U)] + g[Rest(U)]
    BY <1>4
  <2> QED
    BY <2>1 DEF IsFold
<1>6. IsFold(FoldOf(fun, T), fun, T)
  BY <1>5 DEF FoldOf
<1> QED
  BY <1>6 DEF bad

LEMMA SumStep ==
    ASSUME NEW S, IsFiniteSet(S), NEW fun
    PROVE  /\ S = {} => SumFunctionOnSet(fun, S) = 0
           /\ S # {} => SumFunctionOnSet(fun, S)
                          = fun[OneOf(S)] + SumFunctionOnSet(fun, Rest(S))
<1>1. IsFiniteSet(Rest(S)) /\ Rest(S) \in SUBSET S
  BY FS_Subset DEF Rest
<1>2. IsFold(FoldOf(fun, S), fun, S) /\ IsFold(FoldOf(fun, Rest(S)), fun, Rest(S))
  BY <1>1, FoldExists
<1>3. FoldOf(fun, Rest(S))[Rest(S)] = FoldOf(fun, S)[Rest(S)]
  BY <1>1, <1>2, FoldUnique
<1>4. FoldOf(fun, S)[S] = IF S = {} THEN 0 ELSE fun[OneOf(S)] + FoldOf(fun, S)[Rest(S)]
  BY <1>2 DEF IsFold
<1> QED
  BY <1>3, <1>4, SumIsFold

(* The order does not matter: any element can be taken out of the sum.     *)
LEMMA SumWithout ==
    ASSUME NEW P, NEW fun \in [P -> Nat], NEW S \in SUBSET P, IsFiniteSet(S)
    PROVE  /\ SumFunctionOnSet(fun, S) \in Nat
           /\ \A x \in S : SumFunctionOnSet(fun, S)
                             = fun[x] + SumFunctionOnSet(fun, S \ {x})
<1> DEFINE Sum(T) == SumFunctionOnSet(fun, T)
           Good(T) == /\ Sum(T) \in Nat
                      /\ \A x \in T : Sum(T) = fun[x] + Sum(T \ {x})
           bad == {T \in SUBSET S : ~Good(T)}
<1> SUFFICES ASSUME bad # {} PROVE FALSE
  OBVIOUS
<1>0. bad \in SUBSET SUBSET S
  OBVIOUS
<1> HIDE DEF bad
<1>1. PICK T \in bad : \A U \in bad : ~(U \subseteq T /\ U # T)
  BY <1>0, SmallestSet
<1>2. \A U \in SUBSET T : U # T => Good(U)
  BY <1>1 DEF bad
<1>3. \A U \in SUBSET T : /\ U = {} => Sum(U) = 0
                          /\ U # {} => Sum(U) = fun[OneOf(U)] + Sum(Rest(U))
  BY <1>1, SumStep, FS_Subset DEF bad
<1> HIDE DEF Sum
<1>4. T \in SUBSET S
  BY <1>1 DEF bad
<1>5. CASE T = {}
  <2>1. Good(T)
    BY <1>3, <1>5
  <2> QED
    BY <1>1, <2>1 DEF bad
<1>6. CASE T # {}
  <2> DEFINE y == OneOf(T)
  <2>1. y \in T /\ Rest(T) = T \ {y}
    BY <1>6, OneOfIsIn DEF Rest
  <2> HIDE DEF y
  <2>2. Good(T \ {y})
    BY <1>2, <2>1
  <2>3. Sum(T) = fun[y] + Sum(T \ {y})
    BY <1>3, <1>6, <2>1 DEF y
  <2>4. \A x \in T : fun[x] \in Nat
    BY <1>4
  <2>5. Sum(T) \in Nat
    BY <2>1, <2>2, <2>3, <2>4
  <2>6. ASSUME NEW x \in T, x # y
        PROVE  Sum(T) = fun[x] + Sum(T \ {x})
    <3> DEFINE U == T \ {x, y}
    <3>1. /\ Sum(T \ {y}) = fun[x] + Sum((T \ {y}) \ {x})
          /\ x \in T \ {y}
      BY <2>2, <2>6
    <3>2. Good(T \ {x}) /\ y \in T \ {x}
      BY <1>2, <2>1, <2>6
    <3>3. Sum(T \ {x}) = fun[y] + Sum((T \ {x}) \ {y})
      BY <3>2
    <3>4. (T \ {x}) \ {y} = (T \ {y}) \ {x}
      OBVIOUS
    <3>5. Good((T \ {y}) \ {x})
      BY <1>2, <2>1
    <3> HIDE DEF Good
    <3>6. Sum((T \ {y}) \ {x}) \in Nat
      BY <3>5 DEF Good
    <3>7. fun[x] \in Nat /\ fun[y] \in Nat
      BY <2>1, <2>4
    <3> QED
      BY <2>3, <3>1, <3>3, <3>4, <3>6, <3>7
  <2>7. Good(T)
    BY <2>3, <2>5, <2>6
  <2> QED
    BY <1>1, <2>7 DEF bad
<1> QED
  BY <1>5, <1>6

(* More paths, more bytes.                                                 *)
LEMMA SumGrows ==
    ASSUME NEW P, NEW fun \in [P -> Nat],
           NEW B \in SUBSET P, IsFiniteSet(B), NEW A \in SUBSET B
    PROVE  SumFunctionOnSet(fun, A) <= SumFunctionOnSet(fun, B)
<1> DEFINE Sum(T) == SumFunctionOnSet(fun, T)
           bad == {T \in SUBSET B : A \subseteq T /\ ~(Sum(A) <= Sum(T))}
<1>1. \A T \in SUBSET B : /\ Sum(T) \in Nat
                          /\ \A x \in T : Sum(T) = fun[x] + Sum(T \ {x})
  BY SumWithout, FS_Subset
<1> HIDE DEF Sum
<1> SUFFICES ASSUME bad # {} PROVE FALSE
  BY DEF Sum
<1>0. bad \in SUBSET SUBSET B
  OBVIOUS
<1> HIDE DEF bad
<1>2. PICK T \in bad : \A U \in bad : ~(U \subseteq T /\ U # T)
  BY <1>0, SmallestSet
<1> USE DEF bad
<1>3. T # A
  BY <1>1, <1>2
<1>4. PICK x \in T : x \notin A
  BY <1>2, <1>3
<1>5. Sum(A) <= Sum(T \ {x})
  BY <1>2, <1>4
<1>6. /\ Sum(T) = fun[x] + Sum(T \ {x})
      /\ fun[x] \in Nat
      /\ Sum(T \ {x}) \in Nat /\ Sum(A) \in Nat
  BY <1>1, <1>2, <1>4
<1> QED
  BY <1>2, <1>5, <1>6

-----------------------------------------------------------------------------
(* The walk.                                                               *)

LEMMA ClosureIsLeast ==
    ASSUME NEW p \in Paths, NEW set \in SUBSET Paths, p \in set, ClosedUnder(set)
    PROVE  ClosureOf(p) \subseteq set
BY DEF ClosureOf

LEMMA ClosureIsClosed ==
    ASSUME NEW p \in Paths, NEW q \in ClosureOf(p),
           references \in [Paths -> SUBSET Paths]
    PROVE  references[q] \subseteq ClosureOf(p)
<1>1. q \in Paths
  BY DEF ClosureOf
<1>2. \A r \in references[q] : r \in Paths
  BY <1>1
<1>3. ASSUME NEW r \in references[q], NEW set \in SUBSET Paths,
             p \in set, ClosedUnder(set)
      PROVE  r \in set
  BY <1>3 DEF ClosureOf, ClosedUnder
<1> QED
  BY <1>2, <1>3 DEF ClosureOf

LEMMA ClosureHasItsPath ==
    ASSUME NEW p \in Paths
    PROVE  p \in ClosureOf(p)
BY DEF ClosureOf

(***************************************************************************)
(* Pruning loses nothing: in a complete store, the paths that are looked   *)
(* up cover the closure together with those that are there.                *)
(***************************************************************************)
LEMMA PruningIsLossless ==
    ASSUME references \in [Paths -> SUBSET Paths],
           NEW there \in SUBSET Paths, ClosedUnder(there),
           NEW found \in SUBSET Paths,
           NEW p \in found \union there,
           \A q \in found : references[q] \subseteq found \union there
    PROVE  ClosureOf(p) \ there \subseteq found
<1>1. ClosedUnder(found \union there)
  BY DEF ClosedUnder
<1> QED
  BY <1>1, ClosureIsLeast

(***************************************************************************)
(* The closure and the completeness of sets depend on the graph alone.     *)
(***************************************************************************)
LEMMA SameGraph ==
    ASSUME UNCHANGED references
    PROVE  /\ ClosureOf(Target)' = ClosureOf(Target)
           /\ \A set : ClosedUnder(set)' <=> ClosedUnder(set)
BY DEF ClosureOf, ClosedUnder

LEMMA InitStep ==
    ASSUME Init
    PROVE  IInv
<1>1. TypeOK
  BY PathsAssumption, ReferencesAssumption, BytesAssumption, CeilingsAssumption,
     SubstitutersAssumption DEF Init, TypeOK, Steps, Verdicts
<1>2. SeenIsClosure
  BY PathsAssumption, ClosureHasItsPath DEF Init, SeenIsClosure
<1>3. TotalIsBytes
  BY SumStep, FS_EmptySet, BytesAssumption DEF Init, TotalIsBytes, Bytes
<1> QED
  BY <1>1, <1>2, <1>3, PathsAssumption
     DEF Init, IInv, StoreIsComplete, SeenIsAccounted, CountedOnce,
         MissingWasLacking, BlindStops, OneAtATime, Measured,
         VerdictIsOfTotal, Steps

(***************************************************************************)
(* A step that leaves the machine alone keeps the store complete.          *)
(***************************************************************************)
LEMMA StoreStays ==
    ASSUME StoreIsComplete, UNCHANGED machine, UNCHANGED present
    PROVE  StoreIsComplete'
BY SameGraph DEF StoreIsComplete, machine, ClosedUnder

(* One that counts nothing keeps the sum, and one that judges nothing the  *)
(* verdict.                                                                *)
LEMMA SumStays ==
    ASSUME TotalIsBytes, UNCHANGED <<size, missing, total>>
    PROVE  TotalIsBytes'
BY DEF TotalIsBytes, Bytes

LEMMA VerdictStays ==
    ASSUME VerdictIsOfTotal, UNCHANGED <<ceiling, total>>,
           pc' = pc \/ pc' \notin {"inPlace", "overCeiling"}
    PROVE  VerdictIsOfTotal'
BY DEF VerdictIsOfTotal, Exceeds

(* Everything before the walk, and every failure.                          *)
LEMMA OutsideTheWalk ==
    ASSUME IInv, AskConfig \/ AskShowConfig \/ TestQuery \/ LookupFails
                 \/ \E p \in Paths : QueryFails(p)
    PROVE  IInv'
<1> USE DEF IInv
<1>1. /\ UNCHANGED <<references, size, current, ceiling, blind, before, present>>
      /\ UNCHANGED <<queue, seen, hand, asked, missing, total>>
  BY DEF AskConfig, AskShowConfig, TestQuery, LookupFails, QueryFails, machine, walk
<1>2. TypeOK'
  BY <1>1, SubstitutersAssumption
     DEF AskConfig, AskShowConfig, TestQuery, LookupFails, QueryFails, TypeOK,
              Steps, Verdicts, OneAtATime
<1>3. StoreIsComplete'
  BY <1>1, StoreStays DEF machine
<1>4. SeenIsAccounted' /\ CountedOnce' /\ MissingWasLacking'
  BY <1>1 DEF SeenIsAccounted, CountedOnce, MissingWasLacking,
              AskConfig, AskShowConfig, TestQuery, LookupFails, QueryFails
<1>5. SeenIsClosure'
  BY <1>1, SameGraph DEF SeenIsClosure
<1>6. BlindStops' /\ OneAtATime'
  BY <1>1 DEF BlindStops, OneAtATime, Measured, ReadsPresent,
              AskConfig, AskShowConfig, TestQuery, LookupFails, QueryFails
<1>7. TotalIsBytes'
  BY <1>1, SumStays
<1>8. VerdictIsOfTotal'
  <2>1. pc' \notin {"inPlace", "overCeiling"}
    BY DEF AskConfig, AskShowConfig, TestQuery, LookupFails, QueryFails
  <2> QED
    BY <1>1, <2>1, VerdictStays
<1> QED
  BY <1>2, <1>3, <1>4, <1>5, <1>6, <1>7, <1>8

LEMMA AskNextStep ==
    ASSUME IInv, AskNextSubstituter
    PROVE  IInv'
<1> USE DEF IInv
<1>1. /\ UNCHANGED <<references, size, current, ceiling, blind, before, present>>
      /\ UNCHANGED <<pc, substituters, queue, seen, hand, missing, total>>
      /\ pc = "narinfo"
      /\ asked < substituters
      /\ asked' = asked + 1
  BY DEF AskNextSubstituter, machine
<1>2. TypeOK'
  BY <1>1, SubstitutersAssumption DEF TypeOK
<1>3. StoreIsComplete'
  BY <1>1, StoreStays DEF machine
<1>4. SeenIsClosure'
  BY <1>1, SameGraph DEF SeenIsClosure
<1>8. TotalIsBytes' /\ VerdictIsOfTotal'
  BY <1>1, SumStays, VerdictStays
<1> QED
  BY <1>1, <1>2, <1>3, <1>4, <1>8 DEF SeenIsAccounted, CountedOnce,
     MissingWasLacking, BlindStops, OneAtATime, Measured

LEMMA SkipPresentStep ==
    ASSUME IInv, NEW p \in Paths, SkipPresent(p)
    PROVE  IInv'
<1> USE DEF IInv
<1>1. /\ UNCHANGED <<references, size, current, ceiling, blind, before, present>>
      /\ UNCHANGED <<pc, substituters, seen, hand, asked, missing, total>>
      /\ pc = "walk"
      /\ p \in present
      /\ queue' = queue \ {p}
  BY DEF SkipPresent, ReadsPresent, machine
<1>2. TypeOK'
  BY <1>1 DEF TypeOK
<1>3. StoreIsComplete'
  BY <1>1, StoreStays DEF machine
<1>4. SeenIsAccounted'
  BY <1>1 DEF SeenIsAccounted
<1>5. SeenIsClosure'
  BY <1>1, SameGraph DEF SeenIsClosure
<1>8. TotalIsBytes' /\ VerdictIsOfTotal'
  BY <1>1, SumStays, VerdictStays
<1> QED
  BY <1>1, <1>2, <1>3, <1>4, <1>5, <1>8 DEF CountedOnce,
     MissingWasLacking, BlindStops, OneAtATime, Measured

LEMMA LookUpMissingStep ==
    ASSUME IInv, NEW p \in Paths, LookUpMissing(p)
    PROVE  IInv'
<1> USE DEF IInv
<1>1. /\ UNCHANGED <<references, size, current, ceiling, blind, before, present>>
      /\ UNCHANGED <<substituters, seen, missing, total>>
      /\ pc = "walk" /\ pc' = "narinfo"
      /\ hand = NoPath /\ hand' = p
      /\ asked' = 0
      /\ p \in queue
      /\ queue' = queue \ {p}
      /\ ~blind => p \notin present
  BY DEF LookUpMissing, TakeInHand, ReadsPresent, machine, OneAtATime
<1>2. TypeOK'
  BY <1>1 DEF TypeOK, Steps, Verdicts
<1>3. StoreIsComplete'
  BY <1>1, StoreStays DEF machine
<1>4. SeenIsAccounted'
  BY <1>1, PathsAssumption DEF SeenIsAccounted, TypeOK
<1>5. SeenIsClosure'
  BY <1>1, SameGraph DEF SeenIsClosure
<1>6. CountedOnce' /\ MissingWasLacking'
  BY <1>1 DEF CountedOnce, MissingWasLacking, StoreIsComplete
<1>7. BlindStops' /\ OneAtATime'
  BY <1>1, PathsAssumption DEF BlindStops, OneAtATime, Measured
<1>8. TotalIsBytes' /\ VerdictIsOfTotal'
  BY <1>1, SumStays, VerdictStays
<1> QED
  BY <1>1, <1>2, <1>3, <1>4, <1>5, <1>6, <1>7, <1>8

LEMMA CountMissingStep ==
    ASSUME IInv, CountMissing
    PROVE  IInv'
<1> USE DEF IInv
<1>1. /\ UNCHANGED <<references, size, current, ceiling, blind, before, present>>
      /\ UNCHANGED substituters
      /\ pc = "narinfo" /\ pc' = "walk"
      /\ total' = SaturatingAdd(total, size[hand])
      /\ missing' = missing \union {hand}
      /\ queue' = queue \union (references[hand] \ seen)
      /\ seen' = seen \union references[hand]
      /\ hand' = NoPath
      /\ asked' = 0
  BY DEF CountMissing, Discovered, machine
<1>2. /\ hand \in Paths
      /\ hand \in seen
      /\ hand \notin queue \union missing
      /\ references[hand] \subseteq Paths
      /\ size[hand] \in 0..MaxBytes
  BY <1>1 DEF OneAtATime, TypeOK, SeenIsAccounted, CountedOnce
<1>3. /\ total' \in 0..MaxBytes
      /\ total <= total'
      /\ size[hand] <= total'
  BY <1>1, <1>2, BytesAssumption DEF SaturatingAdd, TypeOK
<1>4. TypeOK'
  BY <1>1, <1>2, <1>3, SubstitutersAssumption DEF TypeOK, Steps, Verdicts
<1>5. StoreIsComplete'
  BY <1>1, StoreStays DEF machine
<1>6. SeenIsAccounted'
  <2>1. seen' \subseteq queue' \union missing' \union present'
    BY <1>1 DEF SeenIsAccounted
  <2>2. \A q \in missing' : references'[q] \subseteq seen'
    BY <1>1 DEF SeenIsAccounted
  <2> QED
    BY <1>1, <1>2, <2>1, <2>2 DEF SeenIsAccounted
<1>7. SeenIsClosure'
  <2>1. references[hand] \subseteq ClosureOf(Target)
    BY <1>2, ClosureIsClosed, PathsAssumption DEF SeenIsClosure, TypeOK
  <2> QED
    BY <1>1, <2>1, SameGraph DEF SeenIsClosure
<1>8. CountedOnce' /\ MissingWasLacking'
  <2>1. NoPath \notin queue' \union missing' \union before'
    BY <1>1, <1>2, PathsAssumption DEF TypeOK
  <2>2. queue' \intersect missing' = {}
    BY <1>1, <1>2 DEF CountedOnce, SeenIsAccounted
  <2> QED
    BY <1>1, <2>1, <2>2 DEF CountedOnce, MissingWasLacking
<1>9. TotalIsBytes' /\ VerdictIsOfTotal'
  <2>1. size \in [Paths -> Nat]
    BY BytesAssumption DEF TypeOK
  <2>2. missing' \in SUBSET Paths /\ IsFiniteSet(missing')
    BY <1>4, PathsAssumption, FS_Subset DEF TypeOK
  <2>3. missing' \ {hand} = missing
    BY <1>1, <1>2
  <2>4. /\ SumFunctionOnSet(size, missing') = size[hand] + SumFunctionOnSet(size, missing)
        /\ SumFunctionOnSet(size, missing) \in Nat
    <3>1. hand \in missing'
      BY <1>1
    <3>2. IsFiniteSet(missing) /\ missing \in SUBSET Paths
      BY PathsAssumption, FS_Subset DEF TypeOK
    <3> QED
      BY <2>1, <2>2, <2>3, <3>1, <3>2, SumWithout
  <2>5. TotalIsBytes'
    BY <1>1, <1>2, <2>4, BytesAssumption DEF TotalIsBytes, Bytes, SaturatingAdd
  <2> QED
    BY <1>1, <2>5 DEF VerdictIsOfTotal
<1>10. BlindStops' /\ OneAtATime'
  BY <1>1 DEF BlindStops, OneAtATime, Measured
<1> QED
  BY <1>4, <1>5, <1>6, <1>7, <1>8, <1>9, <1>10

LEMMA DecideStep ==
    ASSUME IInv, Decide
    PROVE  IInv'
<1> USE DEF IInv
<1>1. /\ UNCHANGED <<references, size, current, ceiling, blind, before, present>>
      /\ UNCHANGED <<substituters, queue, seen, hand, asked, missing, total>>
      /\ pc = "walk" /\ pc' \in {"overCeiling", "inPlace"}
      /\ queue = {}
  BY DEF Decide, machine, walk
<1>2. TypeOK'
  BY <1>1 DEF TypeOK, Steps, Verdicts
<1>3. StoreIsComplete'
  BY <1>1, StoreStays DEF machine
<1>4. SeenIsClosure'
  BY <1>1, SameGraph DEF SeenIsClosure
<1>8. TotalIsBytes' /\ VerdictIsOfTotal'
  BY <1>1, SumStays DEF Decide, VerdictIsOfTotal, Exceeds
<1> QED
  BY <1>1, <1>2, <1>3, <1>4, <1>8 DEF SeenIsAccounted, CountedOnce,
     MissingWasLacking, BlindStops, OneAtATime, Measured

LEMMA StoreGainsStep ==
    ASSUME IInv, StoreGains
    PROVE  IInv'
<1> USE DEF IInv
<1>1. /\ UNCHANGED <<references, size, current, ceiling, blind, before>>
      /\ UNCHANGED <<pc, substituters, queue, seen, hand, asked, missing, total>>
      /\ present \subseteq present'
      /\ present' \in SUBSET Paths
      /\ ClosedUnder(present')
  BY DEF StoreGains, machine, walk
<1>2. TypeOK'
  BY <1>1 DEF TypeOK
<1>3. StoreIsComplete'
  BY <1>1 DEF StoreIsComplete, ClosedUnder
<1>4. SeenIsClosure'
  BY <1>1, SameGraph DEF SeenIsClosure
<1>8. TotalIsBytes' /\ VerdictIsOfTotal'
  BY <1>1, SumStays, VerdictStays
<1> QED
  BY <1>1, <1>2, <1>3, <1>4, <1>8 DEF SeenIsAccounted, CountedOnce,
     MissingWasLacking, BlindStops, OneAtATime, Measured

LEMMA NextStep ==
    ASSUME IInv, [Next]_vars
    PROVE  IInv'
<1>1. CASE Next
  BY <1>1, OutsideTheWalk, AskNextStep, SkipPresentStep, LookUpMissingStep,
     CountMissingStep, DecideStep, StoreGainsStep DEF Next, Sizing
<1>2. CASE UNCHANGED vars
  <2>1. /\ UNCHANGED <<references, size, current, ceiling, blind, before, present>>
        /\ UNCHANGED <<pc, substituters, queue, seen, hand, asked, missing, total>>
    BY <1>2 DEF vars, machine, walk
  <2>2. StoreIsComplete' /\ SeenIsClosure'
    BY <2>1, StoreStays, SameGraph DEF IInv, machine, SeenIsClosure
  <2>3. TotalIsBytes' /\ VerdictIsOfTotal'
    BY <2>1, SumStays, VerdictStays DEF IInv
  <2> QED
    BY <2>1, <2>2, <2>3 DEF IInv, TypeOK, SeenIsAccounted, CountedOnce,
       MissingWasLacking, BlindStops, OneAtATime, Measured
<1> QED
  BY <1>1, <1>2

(***************************************************************************)
(* In every reachable state each discovered path is queued, in hand,       *)
(* counted once or present, the total is the saturated sum of what was     *)
(* counted, and no machine inside the store walks with a blind query       *)
(* (delta.rs, compute; receive.rs, store_query_is_unreliable).             *)
(***************************************************************************)
THEOREM WalkInvariant == Spec => []IInv
<1>1. Init => IInv
  BY InitStep
<1>2. IInv /\ [Next]_vars => IInv'
  BY NextStep
<1> QED
  BY <1>1, <1>2, PTL DEF Spec

(***************************************************************************)
(* The u64 of the sum stays one, and every other variable its type.        *)
(***************************************************************************)
THEOREM WalkTypes == Spec => []TypeOK
<1>1. IInv => TypeOK
  BY DEF IInv
<1> QED
  BY <1>1, WalkInvariant, PTL

(***************************************************************************)
(* delta.rs, compute: a walk that does not descend into what is there      *)
(* counts exactly what the store lacks of the target's closure, between    *)
(* the store at the beginning of the run and the store at its verdict.     *)
(***************************************************************************)
THEOREM PrunedWalkIsExact == Spec => []WalkIsExact
<1>1. ASSUME IInv, Measured
      PROVE  Lacking(present) \subseteq missing
  <2>1. seen \subseteq missing \union present
    BY <1>1, PathsAssumption DEF IInv, OneAtATime, SeenIsAccounted, Measured, TypeOK, CountedOnce
  <2>2. ClosureOf(Target) \ present \subseteq missing
    BY <1>1, <2>1, PruningIsLossless
       DEF IInv, TypeOK, SeenIsAccounted, StoreIsComplete
  <2> QED
    BY <2>2 DEF Lacking
<1>2. IInv => missing \subseteq ClosureOf(Target)
  BY DEF IInv, SeenIsAccounted, SeenIsClosure
<1>3. IInv /\ ~blind => missing \subseteq Lacking(before)
  BY <1>2 DEF IInv, MissingWasLacking, Lacking
<1>4. IInv => WalkIsExact
  BY <1>1, <1>2, <1>3 DEF WalkIsExact
<1> QED
  BY <1>4, WalkInvariant, PTL

(***************************************************************************)
(* receive.rs: whatever the sizes, and however far beyond a u64 they add   *)
(* up, a machine that changes in place lacks no more than its ceiling, and *)
(* one that is to be replaced lacked more than that when the run began.    *)
(***************************************************************************)
THEOREM VerdictsAreRight == Spec => []VerdictIsRight
<1>1. ASSUME IInv, WalkIsExact, ceiling # NoCeiling, ceiling < MaxBytes
      PROVE  /\ pc = "inPlace" => Bytes(Lacking(present)) <= ceiling
             /\ pc = "overCeiling" /\ (blind => current # NoPath)
                  => Bytes(Lacking(before)) > ceiling
  <2> USE <1>1
  <2>1. /\ size \in [Paths -> Nat]
        /\ ceiling \in Nat /\ MaxBytes \in Nat
    BY CeilingsAssumption, BytesAssumption DEF IInv, TypeOK
  <2>2. \A set \in SUBSET Paths : /\ IsFiniteSet(set)
                                  /\ Bytes(set) \in Nat
    BY <2>1, PathsAssumption, FS_Subset, SumWithout DEF Bytes
  <2>3. /\ missing \in SUBSET Paths
        /\ Lacking(before) \in SUBSET Paths
        /\ Lacking(present) \in SUBSET Paths
    BY DEF IInv, TypeOK, Lacking, ClosureOf
  <2>4. total = IF Bytes(missing) > MaxBytes THEN MaxBytes ELSE Bytes(missing)
    BY DEF IInv, TotalIsBytes
  <2>5. ASSUME pc = "inPlace"
        PROVE  Bytes(Lacking(present)) <= ceiling
    <3>1. Lacking(present) \subseteq missing
      BY <2>5 DEF WalkIsExact, Measured
    <3>2. Bytes(Lacking(present)) <= Bytes(missing)
      BY <2>1, <2>2, <2>3, <3>1, SumGrows DEF Bytes
    <3>3. ~(total > ceiling)
      BY <2>5 DEF IInv, VerdictIsOfTotal, Exceeds
    <3> QED
      BY <2>1, <2>2, <2>3, <2>4, <3>2, <3>3
  <2>6. ASSUME pc = "overCeiling", blind => current # NoPath
        PROVE  Bytes(Lacking(before)) > ceiling
    <3>1. ~blind
      BY <2>6 DEF IInv, BlindStops
    <3>2. missing \subseteq Lacking(before)
      BY <2>6, <3>1 DEF WalkIsExact, Measured
    <3>3. Bytes(missing) <= Bytes(Lacking(before))
      BY <2>1, <2>2, <2>3, <3>2, SumGrows DEF Bytes
    <3>4. total > ceiling
      BY <2>6 DEF IInv, VerdictIsOfTotal, Exceeds
    <3> QED
      BY <2>1, <2>2, <2>3, <2>4, <3>3, <3>4
  <2> QED
    BY <2>5, <2>6
<1>2. IInv /\ WalkIsExact => VerdictIsRight
  BY <1>1 DEF VerdictIsRight
<1> QED
  BY <1>2, WalkInvariant, PrunedWalkIsExact, PTL

-----------------------------------------------------------------------------
(***************************************************************************)
(* How much of a sizing is left: what comes before the walk, the paths     *)
(* that are queued or not yet met, each with its requests, and the         *)
(* substituters still to be asked for the path in hand.                    *)
(***************************************************************************)
Phase ==
    CASE pc = "config" -> 4
      [] pc = "showConfig" -> 3
      [] pc = "backstop" -> 2
      [] pc \in {"walk", "narinfo"} -> 1
      [] OTHER -> 0

Ahead == Cardinality(Paths \ seen) + Cardinality(queue)

StillToAsk == IF pc = "narinfo" THEN (MaxSubstituters + 1) - asked ELSE 0

(* A path costs taking it in hand and a request to each substituter.       *)
Cost(n) == n * (MaxSubstituters + 2)

Left == Cost(Ahead) + StillToAsk + Phase

LEMMA PhaseIsNat == TypeOK => Phase \in 0..4
BY DEF TypeOK, Steps, Verdicts, Phase

LEMMA AheadIsNat ==
    TypeOK => /\ Ahead \in Nat
              /\ Cardinality(Paths \ seen) \in Nat /\ Cardinality(queue) \in Nat
              /\ IsFiniteSet(Paths \ seen) /\ IsFiniteSet(queue)
<1> SUFFICES ASSUME TypeOK
             PROVE  /\ Ahead \in Nat
                    /\ Cardinality(Paths \ seen) \in Nat /\ Cardinality(queue) \in Nat
                    /\ IsFiniteSet(Paths \ seen) /\ IsFiniteSet(queue)
  OBVIOUS
<1>1. Paths \ seen \in SUBSET Paths /\ queue \in SUBSET Paths
  BY DEF TypeOK
<1>2. IsFiniteSet(Paths \ seen) /\ IsFiniteSet(queue)
  BY <1>1, PathsAssumption, FS_Subset
<1> QED
  BY <1>2, FS_CardinalityType DEF Ahead

LEMMA StillToAskIsNat == TypeOK => StillToAsk \in 0..(MaxSubstituters + 1)
BY SubstitutersAssumption DEF TypeOK, StillToAsk

LEMMA LeftIsNat == TypeOK => Left \in Nat
<1> SUFFICES ASSUME TypeOK PROVE Left \in Nat
  OBVIOUS
<1>1. Cost(Ahead) \in Nat
  BY AheadIsNat, SubstitutersAssumption DEF Cost
<1> QED
  BY <1>1, PhaseIsNat, StillToAskIsNat, SubstitutersAssumption DEF Left

(* One path less ahead pays for all the requests about it.                 *)
LEMMA OnePathLess ==
    ASSUME NEW n \in Nat
    PROVE  /\ Cost(n) \in Nat
           /\ Cost(n + 1) = Cost(n) + MaxSubstituters + 2
BY SubstitutersAssumption DEF Cost

(* The same of the next state.                                             *)
LEMMA NextIsNat ==
    (TypeOK => /\ Ahead \in Nat
               /\ StillToAsk \in 0..(MaxSubstituters + 1)
               /\ Phase \in 0..4
               /\ Left \in Nat)'
<1>1. TypeOK => /\ Ahead \in Nat
                /\ StillToAsk \in 0..(MaxSubstituters + 1)
                /\ Phase \in 0..4
                /\ Left \in Nat
  BY AheadIsNat, StillToAskIsNat, PhaseIsNat, LeftIsNat
<1> QED
  BY <1>1, PTL

LEMMA UnqueuedPath ==
    ASSUME TypeOK, NEW p \in queue, queue' = queue \ {p}, seen' = seen
    PROVE  Ahead' + 1 = Ahead
<1>1. Cardinality(queue \ {p}) = Cardinality(queue) - 1
  BY AheadIsNat, FS_RemoveElement
<1> QED
  BY <1>1, AheadIsNat DEF Ahead

(* What is met moves from the paths not met to the queue.                  *)
LEMMA MetPaths ==
    ASSUME TypeOK, NEW refs \in SUBSET Paths, queue \subseteq seen,
           queue' = queue \union (refs \ seen), seen' = seen \union refs
    PROVE  Ahead' = Ahead
<1> DEFINE met == refs \ seen
           unmet == Paths \ seen
<1>1. IsFiniteSet(met) /\ IsFiniteSet(unmet) /\ IsFiniteSet(queue)
  BY AheadIsNat, PathsAssumption, FS_Subset
<1>2. /\ met \in SUBSET Paths
      /\ queue \intersect met = {}
      /\ unmet \intersect met = met
      /\ Paths \ (seen \union refs) = unmet \ met
  OBVIOUS
<1>3. Cardinality(queue \union met) = Cardinality(queue) + Cardinality(met)
  <2>1. Cardinality(queue \union met)
          = Cardinality(queue) + Cardinality(met) - Cardinality(queue \intersect met)
    BY <1>1, FS_Union
  <2>2. Cardinality(queue \intersect met) = 0
    BY <1>2, FS_EmptySet
  <2> HIDE DEF met
  <2> QED
    BY <1>1, <2>1, <2>2, FS_CardinalityType
<1>4. Cardinality(unmet \ met) = Cardinality(unmet) - Cardinality(met)
  <2>1. Cardinality(unmet \ met) = Cardinality(unmet) - Cardinality(unmet \intersect met)
    BY <1>1, FS_Difference
  <2> QED
    BY <1>2, <2>1
<1>5. /\ Cardinality(met) \in Nat /\ Cardinality(unmet) \in Nat
      /\ Cardinality(queue) \in Nat
  BY <1>1, FS_CardinalityType
<1>6. Ahead' = Cardinality(unmet \ met) + Cardinality(queue \union met)
  BY <1>2 DEF Ahead
<1> HIDE DEF met
<1>7. Ahead = Cardinality(unmet) + Cardinality(queue)
  BY DEF Ahead
<1> HIDE DEF unmet
<1> QED
  BY <1>3, <1>4, <1>5, <1>6, <1>7

(***************************************************************************)
(* A step of the sizing leaves less to do, one of the store the same.      *)
(***************************************************************************)
LEMMA SizingLeavesLess ==
    ASSUME IInv, Sizing
    PROVE  Left' < Left
<1> TypeOK /\ TypeOK'
  BY NextStep DEF IInv, Next
<1>0. /\ Ahead \in Nat /\ Ahead' \in Nat
      /\ StillToAsk \in 0..(MaxSubstituters + 1)
      /\ StillToAsk' \in 0..(MaxSubstituters + 1)
      /\ Phase \in 0..4 /\ Phase' \in 0..4
      /\ MaxSubstituters \in Nat
      /\ Cost(Ahead) \in Nat /\ Cost(Ahead') \in Nat
      /\ Left = Cost(Ahead) + StillToAsk + Phase
      /\ Left' = Cost(Ahead') + StillToAsk' + Phase'
  <2>1. Ahead \in Nat /\ Phase \in 0..4 /\ StillToAsk \in 0..(MaxSubstituters + 1)
    BY AheadIsNat, PhaseIsNat, StillToAskIsNat
  <2>2. Ahead' \in Nat /\ Phase' \in 0..4 /\ StillToAsk' \in 0..(MaxSubstituters + 1)
    BY NextIsNat
  <2>3. /\ Left = Cost(Ahead) + StillToAsk + Phase
        /\ Left' = Cost(Ahead') + StillToAsk' + Phase'
    BY DEF Left, Cost
  <2> QED
    BY <2>1, <2>2, <2>3, OnePathLess, SubstitutersAssumption
<1>1. CASE AskConfig \/ AskShowConfig \/ TestQuery \/ LookupFails
           \/ Decide \/ \E p \in Paths : QueryFails(p)
  <2>1. Ahead' = Ahead
    BY <1>1 DEF AskConfig, AskShowConfig, TestQuery, LookupFails, Decide, QueryFails,
                walk, Ahead
  <2>2. StillToAsk' = 0 /\ Phase' < Phase
    BY <1>1 DEF AskConfig, AskShowConfig, TestQuery, LookupFails, Decide, QueryFails,
                StillToAsk, Phase
  <2> QED
    BY <1>0, <2>1, <2>2
<1>2. ASSUME NEW p \in Paths, SkipPresent(p) \/ LookUpMissing(p)
      PROVE  Left' < Left
  <2>1. Ahead' + 1 = Ahead
    BY <1>2, UnqueuedPath DEF SkipPresent, LookUpMissing, TakeInHand
  <2>2. StillToAsk = 0 /\ Phase' = Phase
    BY <1>2 DEF SkipPresent, LookUpMissing, TakeInHand, StillToAsk, Phase
  <2>3. Cost(Ahead) = Cost(Ahead') + MaxSubstituters + 2
    BY <1>0, <2>1, OnePathLess
  <2> QED
    BY <1>0, <2>2, <2>3
<1>3. CASE CountMissing
  <2>1. Ahead' = Ahead
    <3>1. references[hand] \in SUBSET Paths /\ queue \subseteq seen
      BY <1>3 DEF CountMissing, IInv, TypeOK, OneAtATime, SeenIsAccounted
    <3> QED
      BY <1>3, <3>1, MetPaths DEF CountMissing, Discovered
  <2>2. StillToAsk' = 0 /\ StillToAsk > 0 /\ Phase' = Phase
    BY <1>3, SubstitutersAssumption DEF CountMissing, StillToAsk, Phase, TypeOK
  <2> QED
    BY <1>0, <2>1, <2>2
<1>4. CASE AskNextSubstituter
  <2>1. Ahead' = Ahead
    BY <1>4 DEF AskNextSubstituter, Ahead
  <2>2. StillToAsk' < StillToAsk /\ Phase' = Phase
    BY <1>4, SubstitutersAssumption DEF AskNextSubstituter, StillToAsk, Phase, TypeOK
  <2> QED
    BY <1>0, <2>1, <2>2
<1> QED
  BY <1>1, <1>2, <1>3, <1>4 DEF Sizing

(* At first every path is ahead.                                           *)
LEMMA AllIsAhead ==
    ASSUME Init
    PROVE  Left = Cost(Cardinality(Paths)) + 4
<1>1. Cardinality(Paths \ {Target}) = Cardinality(Paths) - 1
  BY PathsAssumption, FS_RemoveElement
<1>2. Cardinality({Target}) = 1 /\ Cardinality(Paths) \in Nat
  BY PathsAssumption, FS_Singleton, FS_CardinalityType
<1>3. Ahead = Cardinality(Paths)
  BY <1>1, <1>2 DEF Init, Ahead
<1>4. StillToAsk = 0 /\ Phase = 4
  BY DEF Init, StillToAsk, Phase
<1> QED
  BY <1>2, <1>3, <1>4, OnePathLess DEF Left

(***************************************************************************)
(* delta.rs queues each path once, and so a sizing is finite however the   *)
(* references run and whatever the store gains meanwhile: each of its      *)
(* steps leaves less to do, and nobody else gives it more.                 *)
(***************************************************************************)
SizingIsFinite ==
    /\ Left = Cost(Cardinality(Paths)) + 4
    /\ [][/\ Left' \in Nat /\ Left \in Nat
          /\ Sizing => Left' < Left
          /\ Left' <= Left]_vars

(***************************************************************************)
(* A sizing takes no more steps than there are paths, times the            *)
(* substituters and two, and four more: what VerdictReached needs besides  *)
(* fairness, for every reference graph.                                    *)
(***************************************************************************)
THEOREM EverySizingIsFinite == Spec => SizingIsFinite
<1> DEFINE Less == /\ Left' \in Nat /\ Left \in Nat
                   /\ Sizing => Left' < Left
                   /\ Left' <= Left
<1>1. ASSUME IInv, IInv', Next
      PROVE  Less
  <2>1. Left \in Nat
    BY <1>1, LeftIsNat DEF IInv
  <2>2. Left' \in Nat
    BY <1>1, NextIsNat DEF IInv
  <2>3. CASE Sizing
    BY <1>1, <2>1, <2>2, <2>3, SizingLeavesLess
  <2>4. CASE StoreGains /\ ~Sizing
    <3>1. Left' = Left
      BY <2>4 DEF StoreGains, walk, Left, Cost, Ahead, StillToAsk, Phase
    <3> QED
      BY <2>1, <2>2, <2>4, <3>1
  <2> QED
    BY <1>1, <2>3, <2>4 DEF Next
<1>2. IInv /\ IInv' /\ [Next]_vars => [Less]_vars
  BY <1>1
<1> DEFINE Start == Left = Cost(Cardinality(Paths)) + 4
<1>3. SizingIsFinite <=> Start /\ [][Less]_vars
  BY DEF SizingIsFinite
<1>4. Init => Start
  BY AllIsAhead
<1> HIDE DEF Less, Start
<1> QED
  BY <1>2, <1>3, <1>4, WalkInvariant, PTL DEF Spec
=============================================================================
