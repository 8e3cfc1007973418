---------------------------- MODULE TypesProofs ----------------------------
(***************************************************************************)
(* Proofs about the types of expressions: for all types, the analyzer's     *)
(* answer does not depend on the order in which it meets arms, items and    *)
(* uses (YQLTypes); and for every configuration, the registry accepts no    *)
(* two signatures that match one call (Overloads, Registry).                *)
(***************************************************************************)
EXTENDS Registry, SequenceTheorems, WellFoundedInduction, TLAPS

\* What the analyzer builds: one element in an Optional, and nothing else in
\* the types that stand for numbers.
IsType(t) ==
    /\ IsOptional(t) => t = Optional(t.Items[1])
    /\ t.Kind \in IntegerKinds \cup {"Float", "Double"} => t = Scalar(t.Kind)

\* A kind yields to the wider one and, of two equally wide, to the signed one.
Yields(a, b) ==
    \/ integerBits[a] < integerBits[b]
    \/ integerBits[a] = integerBits[b] /\ (isSigned(a) => isSigned(b))

-----------------------------------------------------------------------------
LEMMA IntegerBits ==
    ASSUME NEW k \in IntegerKinds
    PROVE  /\ integerBits[k] \in Nat
           /\ integerBits[k] = CASE k \in {"Int8", "Uint8"} -> 8
                                 [] k \in {"Int16", "Uint16"} -> 16
                                 [] k \in {"Int32", "Uint32"} -> 32
                                 [] k \in {"Int64", "Uint64"} -> 64
BY DEF integerBits, IntegerKinds, SignedKinds, UnsignedKinds

\* Yields is a total order of the kinds.
LEMMA YieldsAntisymmetric ==
    ASSUME NEW a \in IntegerKinds, NEW b \in IntegerKinds, Yields(a, b), Yields(b, a)
    PROVE  a = b
BY IntegerBits DEF Yields, isSigned, IntegerKinds, SignedKinds, UnsignedKinds

LEMMA YieldsTransitive ==
    ASSUME NEW a \in IntegerKinds, NEW b \in IntegerKinds, NEW c \in IntegerKinds,
           Yields(a, b), Yields(b, c)
    PROVE  Yields(a, c)
<1>1. /\ integerBits[a] \in Nat /\ integerBits[b] \in Nat /\ integerBits[c] \in Nat
  BY IntegerBits
<1> QED BY <1>1 DEF Yields

\* commonInteger returns the greater of its arguments.
LEMMA CommonIntegerIsGreatest ==
    ASSUME NEW a \in IntegerKinds, NEW b \in IntegerKinds
    PROVE  /\ commonInteger(a, b) \in {a, b}
           /\ Yields(a, commonInteger(a, b)) /\ Yields(b, commonInteger(a, b))
<1>1. integerBits[a] \in Nat /\ integerBits[b] \in Nat
  BY IntegerBits
<1> QED BY <1>1 DEF commonInteger, Yields, isSigned

\* The common type of integers (commonInteger in arithmetic, CASE, COALESCE
\* and UNION) does not depend on the order of the operands or on how they are
\* grouped.
THEOREM CommonIntegerOrderFree ==
    ASSUME NEW a \in IntegerKinds, NEW b \in IntegerKinds, NEW c \in IntegerKinds
    PROVE  /\ commonInteger(a, b) = commonInteger(b, a)
           /\ commonInteger(commonInteger(a, b), c) = commonInteger(a, commonInteger(b, c))
<1>1. commonInteger(a, b) = commonInteger(b, a)
  BY CommonIntegerIsGreatest, YieldsAntisymmetric
<1>2. commonInteger(commonInteger(a, b), c) = commonInteger(a, commonInteger(b, c))
  <2> DEFINE ab == commonInteger(a, b)
             bc == commonInteger(b, c)
             l == commonInteger(ab, c)
             r == commonInteger(a, bc)
  <2>1. /\ ab \in IntegerKinds /\ ab \in {a, b} /\ Yields(a, ab) /\ Yields(b, ab)
        /\ bc \in IntegerKinds /\ bc \in {b, c} /\ Yields(b, bc) /\ Yields(c, bc)
    BY CommonIntegerIsGreatest
  <2> HIDE DEF ab, bc
  <2>2. /\ l \in {a, b, c} /\ Yields(ab, l) /\ Yields(c, l)
        /\ r \in {a, b, c} /\ Yields(a, r) /\ Yields(bc, r)
    BY <2>1, CommonIntegerIsGreatest
  <2> HIDE DEF l, r
  <2>3. Yields(a, l) /\ Yields(b, l) /\ Yields(b, r) /\ Yields(c, r)
    BY <2>1, <2>2, YieldsTransitive
  <2>4. Yields(l, r) /\ Yields(r, l)
    BY <2>2, <2>3
  <2> QED BY <2>2, <2>4, YieldsAntisymmetric DEF l, r, ab, bc
<1> QED BY <1>1, <1>2

-----------------------------------------------------------------------------
\* castMayFail and CanWidenInteger, written independently for CAST and for
\* VALUES and assignments, agree: between required integers a value is
\* assigned without a cast exactly when its cast is never NULL.
THEOREM WideningIsTotalCast ==
    ASSUME NEW a \in IntegerKinds, NEW b \in IntegerKinds
    PROVE  CanWidenInteger(Scalar(a), Scalar(b)) <=> ~castMayFail(Scalar(a), Scalar(b))
<1>1. integerBits[a] \in Nat /\ integerBits[b] \in Nat
  BY IntegerBits
<1>2. /\ Scalar(a).Kind = a /\ Scalar(b).Kind = b
      /\ a \notin {"Optional", "Float", "Double", "Decimal", "String", "Utf8"}
      /\ b \notin {"Optional", "Float", "Double", "Decimal", "String", "Utf8",
                    "Timestamp", "Json"}
      /\ Scalar(a) = Scalar(b) <=> a = b
  BY DEF Scalar, Type, IntegerKinds, SignedKinds, UnsignedKinds
<1>3. castMayFail(Scalar(a), Scalar(b)) <=> a # b /\ ~totalIntegerCast(a, b)
  BY <1>2 DEF castMayFail, isInteger, isFloating, isString, isPrimitiveNumber
<1>4. CanWidenInteger(Scalar(a), Scalar(b))
      <=> \/ isSigned(a) = isSigned(b) /\ integerBits[a] <= integerBits[b]
          \/ ~isSigned(a) /\ isSigned(b) /\ integerBits[a] < integerBits[b]
  BY <1>2 DEF CanWidenInteger, UnwrapOptional, IsOptional, isInteger
<1>5. totalIntegerCast(a, b)
      <=> \/ isSigned(a) = isSigned(b) /\ integerBits[a] <= integerBits[b]
          \/ ~isSigned(a) /\ isSigned(b) /\ integerBits[a] < integerBits[b]
  BY <1>1 DEF totalIntegerCast, isSigned
<1>6. a = b => totalIntegerCast(a, b)
  BY <1>1 DEF totalIntegerCast
<1> QED BY <1>3, <1>4, <1>5, <1>6

-----------------------------------------------------------------------------
Number(t) == isInteger(t) \/ isFloating(t)

\* commonConcreteType by cases: integers, other numbers, and the rest.
LEMMA CommonOfIntegers ==
    ASSUME NEW x, NEW y, IsType(x), IsType(y), isInteger(x), isInteger(y)
    PROVE  commonConcreteType(x, y) = Scalar(commonInteger(x.Kind, y.Kind))
<1>1. CASE x = y
  <2>1. commonInteger(x.Kind, y.Kind) = x.Kind
    BY <1>1, CommonIntegerIsGreatest DEF isInteger
  <2> QED BY <1>1, <2>1 DEF commonConcreteType, IsType, isInteger
<1> QED BY <1>1 DEF commonConcreteType

LEMMA CommonOfNumbers ==
    ASSUME NEW x, NEW y, IsType(x), IsType(y), Number(x), Number(y),
           ~(isInteger(x) /\ isInteger(y))
    PROVE  commonConcreteType(x, y)
           = Scalar(IF "Double" \in {x.Kind, y.Kind} THEN "Double" ELSE "Float")
<1>1. isPrimitiveNumber(x) /\ isPrimitiveNumber(y) /\ "Decimal" \notin {x.Kind, y.Kind}
  BY DEF Number, isPrimitiveNumber, isInteger, isFloating, IntegerKinds, SignedKinds, UnsignedKinds
<1>2. CASE x = y
  BY <1>2 DEF commonConcreteType, IsType, Number, isFloating
<1> QED BY <1>1, <1>2 DEF commonConcreteType

LEMMA CommonOfOthers ==
    ASSUME NEW x, NEW y, ~(Number(x) /\ Number(y))
    PROVE  commonConcreteType(x, y) = IF x = y THEN x ELSE ZeroType
BY DEF commonConcreteType, Number, isPrimitiveNumber

LEMMA ScalarNumbers ==
    /\ ~Number(ZeroType)
    /\ \A k \in IntegerKinds : isInteger(Scalar(k)) /\ IsType(Scalar(k)) /\ Scalar(k).Kind = k
    /\ \A k \in {"Float", "Double"} :
          /\ isFloating(Scalar(k)) /\ ~isInteger(Scalar(k)) /\ IsType(Scalar(k))
          /\ Scalar(k).Kind = k
BY DEF Number, isInteger, isFloating, IsType, IsOptional, Scalar, Type, ZeroType,
       IntegerKinds, SignedKinds, UnsignedKinds

\* The common type of arms and arguments (UNION, CASE, COALESCE, lists) is the
\* same in any order and any grouping, failures to find one included.
THEOREM CommonTypeOrderFree ==
    ASSUME NEW x, NEW y, NEW z, IsType(x), IsType(y), IsType(z)
    PROVE  /\ commonConcreteType(x, y) = commonConcreteType(y, x)
           /\ commonConcreteType(commonConcreteType(x, y), z)
              = commonConcreteType(x, commonConcreteType(y, z))
<1>1. commonConcreteType(x, y) = commonConcreteType(y, x)
  <2>1. CASE isInteger(x) /\ isInteger(y)
    BY <2>1, CommonOfIntegers, CommonIntegerOrderFree DEF isInteger
  <2>2. CASE Number(x) /\ Number(y) /\ ~(isInteger(x) /\ isInteger(y))
    BY <2>2, CommonOfNumbers
  <2>3. CASE ~(Number(x) /\ Number(y))
    BY <2>3, CommonOfOthers
  <2> QED BY <2>1, <2>2, <2>3
<1> DEFINE xy == commonConcreteType(x, y)
           yz == commonConcreteType(y, z)
<1>2. CASE isInteger(x) /\ isInteger(y) /\ isInteger(z)
  <2>1. xy = Scalar(commonInteger(x.Kind, y.Kind)) /\ yz = Scalar(commonInteger(y.Kind, z.Kind))
    BY <1>2, CommonOfIntegers
  <2>2. /\ x.Kind \in IntegerKinds /\ y.Kind \in IntegerKinds /\ z.Kind \in IntegerKinds
        /\ commonInteger(x.Kind, y.Kind) \in IntegerKinds
        /\ commonInteger(y.Kind, z.Kind) \in IntegerKinds
    BY <1>2, CommonIntegerIsGreatest DEF isInteger
  <2>3. /\ isInteger(xy) /\ IsType(xy) /\ xy.Kind = commonInteger(x.Kind, y.Kind)
        /\ isInteger(yz) /\ IsType(yz) /\ yz.Kind = commonInteger(y.Kind, z.Kind)
    BY <2>1, <2>2, ScalarNumbers
  <2> HIDE DEF xy, yz
  <2>4. /\ commonConcreteType(xy, z) = Scalar(commonInteger(xy.Kind, z.Kind))
        /\ commonConcreteType(x, yz) = Scalar(commonInteger(x.Kind, yz.Kind))
    BY <1>2, <2>3, CommonOfIntegers
  <2>5. commonConcreteType(xy, z) = commonConcreteType(x, yz)
    BY <2>2, <2>3, <2>4, CommonIntegerOrderFree
  <2> QED BY <1>1, <2>5 DEF xy, yz
<1>3. CASE /\ Number(x) /\ Number(y) /\ Number(z)
           /\ ~(isInteger(x) /\ isInteger(y) /\ isInteger(z))
  <2> DEFINE Joined(a, b) == Scalar(IF "Double" \in {a.Kind, b.Kind} THEN "Double" ELSE "Float")
  <2>1. \A k \in IntegerKinds : k \notin {"Float", "Double"}
    BY DEF IntegerKinds, SignedKinds, UnsignedKinds
  <2>2. ASSUME NEW a, NEW b, IsType(a), IsType(b), Number(a), Number(b)
        PROVE  /\ Number(commonConcreteType(a, b)) /\ IsType(commonConcreteType(a, b))
               /\ isInteger(commonConcreteType(a, b)) <=> isInteger(a) /\ isInteger(b)
               /\ commonConcreteType(a, b).Kind = "Double" <=> "Double" \in {a.Kind, b.Kind}
    <3>1. CASE isInteger(a) /\ isInteger(b)
      <4>1. commonInteger(a.Kind, b.Kind) \in IntegerKinds
        BY <3>1, CommonIntegerIsGreatest DEF isInteger
      <4> QED BY <2>1, <2>2, <3>1, <4>1, CommonOfIntegers, ScalarNumbers DEF Number, isInteger
    <3>2. CASE ~(isInteger(a) /\ isInteger(b))
      BY <2>2, <3>2, CommonOfNumbers, ScalarNumbers DEF Number
    <3> QED BY <3>1, <3>2
  <2>3. /\ IsType(xy) /\ Number(xy) /\ (isInteger(xy) <=> isInteger(x) /\ isInteger(y))
        /\ xy.Kind = "Double" <=> "Double" \in {x.Kind, y.Kind}
        /\ IsType(yz) /\ Number(yz) /\ (isInteger(yz) <=> isInteger(y) /\ isInteger(z))
        /\ yz.Kind = "Double" <=> "Double" \in {y.Kind, z.Kind}
    BY <1>3, <2>2
  <2> HIDE DEF xy, yz
  <2>4. commonConcreteType(xy, z) = Joined(xy, z) /\ commonConcreteType(x, yz) = Joined(x, yz)
    BY <1>3, <2>3, CommonOfNumbers
  <2>5. commonConcreteType(xy, z) = commonConcreteType(x, yz)
    BY <2>3, <2>4
  <2> QED BY <1>1, <2>5 DEF xy, yz
<1>4. CASE ~(Number(x) /\ Number(y) /\ Number(z))
  <2>1. \A a : Number(a) => a # ZeroType
    BY ScalarNumbers
  <2>2. ASSUME NEW a PROVE commonConcreteType(a, ZeroType) = ZeroType /\ commonConcreteType(ZeroType, a) = ZeroType
    BY CommonOfOthers, ScalarNumbers
  <2>3. CASE Number(x) /\ Number(y) /\ ~Number(z)
    <3>1. yz = ZeroType
      BY <2>3, CommonOfOthers
    <3>2. commonConcreteType(xy, z) = IF xy = z THEN xy ELSE ZeroType
      BY <2>3, CommonOfOthers
    <3>3. xy # z
      <4>1. CASE isInteger(x) /\ isInteger(y)
        <5>1. commonInteger(x.Kind, y.Kind) \in IntegerKinds
          BY <4>1, CommonIntegerIsGreatest DEF isInteger
        <5> QED BY <2>3, <4>1, <5>1, CommonOfIntegers, ScalarNumbers DEF Number
      <4>2. CASE ~(isInteger(x) /\ isInteger(y))
        BY <2>3, <4>2, CommonOfNumbers, ScalarNumbers DEF Number
      <4> QED BY <4>1, <4>2
    <3> QED BY <1>1, <2>2, <3>1, <3>2, <3>3
  <2>4. CASE ~Number(x) /\ Number(y) /\ Number(z)
    <3>1. xy = ZeroType
      BY <2>4, CommonOfOthers
    <3>2. commonConcreteType(x, yz) = IF x = yz THEN x ELSE ZeroType
      BY <2>4, CommonOfOthers
    <3>3. yz # x
      <4>1. CASE isInteger(y) /\ isInteger(z)
        <5>1. commonInteger(y.Kind, z.Kind) \in IntegerKinds
          BY <4>1, CommonIntegerIsGreatest DEF isInteger
        <5> QED BY <2>4, <4>1, <5>1, CommonOfIntegers, ScalarNumbers DEF Number
      <4>2. CASE ~(isInteger(y) /\ isInteger(z))
        BY <2>4, <4>2, CommonOfNumbers, ScalarNumbers DEF Number
      <4> QED BY <4>1, <4>2
    <3> QED BY <1>1, <2>2, <3>1, <3>2, <3>3
  <2>5. CASE ~Number(y) \/ (~Number(x) /\ ~Number(z))
    <3>1. xy = (IF x = y THEN x ELSE ZeroType) /\ yz = (IF y = z THEN y ELSE ZeroType)
      BY <2>5, CommonOfOthers
    <3>2. CASE x = y /\ y = z
      BY <2>5, <3>1, <3>2
    <3>3. CASE x # y /\ y = z
      BY <1>1, <2>2, <3>1, <3>3
    <3>4. CASE x = y /\ y # z
      BY <1>1, <2>2, <3>1, <3>4
    <3>5. CASE x # y /\ y # z
      BY <1>1, <2>2, <3>1, <3>5
    <3> QED BY <1>1, <3>2, <3>3, <3>4, <3>5
  <2> QED BY <1>4, <2>3, <2>4, <2>5
<1> QED BY <1>2, <1>3, <1>4

-----------------------------------------------------------------------------
\* Two types with the same base are the base and its Optional.
LEMMA SameBase ==
    ASSUME NEW t, NEW u, IsType(t), IsType(u), UnwrapOptional(t) = UnwrapOptional(u),
           IsOptional(t) <=> IsOptional(u)
    PROVE  t = u
BY DEF IsType, UnwrapOptional, IsOptional, Optional, Type

\* narrowed returns one of its arguments or the zero type.
LEMMA NarrowedIsOneOf ==
    ASSUME NEW t, NEW u
    PROVE  narrowed(t, u) \in {t, u, ZeroType}
BY DEF narrowed

LEMMA ZeroIsType == IsType(ZeroType) /\ ~IsOptional(ZeroType) /\ UnwrapOptional(ZeroType) = ZeroType
BY DEF IsType, ZeroType, Scalar, Type, IsOptional, UnwrapOptional, IntegerKinds, SignedKinds, UnsignedKinds

\* What narrowed does by the bases and the optionality of its arguments.
LEMMA NarrowedByBase ==
    ASSUME NEW t, NEW u, IsType(t), IsType(u)
    PROVE  /\ IsType(narrowed(t, u))
           /\ UnwrapOptional(t) # UnwrapOptional(u) => narrowed(t, u) = ZeroType
           /\ UnwrapOptional(t) = UnwrapOptional(u) =>
                 /\ UnwrapOptional(narrowed(t, u)) = UnwrapOptional(t)
                 /\ IsOptional(narrowed(t, u)) <=> IsOptional(t) /\ IsOptional(u)
<1>1. CASE t = u
  BY <1>1 DEF narrowed
<1>2. CASE t = ZeroType /\ t # u
  BY <1>2, ZeroIsType DEF narrowed
<1>3. CASE t # u /\ t # ZeroType /\ UnwrapOptional(t) = UnwrapOptional(u)
  BY <1>3, SameBase DEF narrowed
<1>4. CASE t # u /\ t # ZeroType /\ UnwrapOptional(t) # UnwrapOptional(u)
  BY <1>4, ZeroIsType DEF narrowed
<1> QED BY <1>1, <1>2, <1>3, <1>4

\* A type is known by its base and by whether it is optional.
LEMMA NarrowedSymmetric ==
    ASSUME NEW t, NEW u, IsType(t), IsType(u)
    PROVE  narrowed(t, u) = narrowed(u, t)
BY NarrowedByBase, SameBase

\* inferParameter: the type that a parameter has after two more uses, and so
\* after any number of them, does not depend on the order in which the uses
\* are met, whichever statement or expression they stand in.
THEOREM NarrowingOrderFree ==
    ASSUME NEW p, NEW t, NEW u, IsType(p), IsType(t), IsType(u)
    PROVE  narrowed(narrowed(p, t), u) = narrowed(narrowed(p, u), t)
<1> DEFINE a == narrowed(p, t)
           b == narrowed(p, u)
<1>1. IsType(a) /\ IsType(b)
  BY NarrowedByBase
<1>2. CASE UnwrapOptional(p) = UnwrapOptional(t) /\ UnwrapOptional(p) = UnwrapOptional(u)
  <2>1. /\ UnwrapOptional(a) = UnwrapOptional(p)
        /\ UnwrapOptional(b) = UnwrapOptional(p)
        /\ IsOptional(a) <=> IsOptional(p) /\ IsOptional(t)
        /\ IsOptional(b) <=> IsOptional(p) /\ IsOptional(u)
    BY <1>2, NarrowedByBase
  <2> HIDE DEF a, b
  <2>2. /\ IsType(narrowed(a, u))
        /\ UnwrapOptional(narrowed(a, u)) = UnwrapOptional(p)
        /\ IsOptional(narrowed(a, u)) <=> IsOptional(a) /\ IsOptional(u)
    <3>1. UnwrapOptional(a) = UnwrapOptional(u)
      BY <1>2, <2>1
    <3> QED BY <1>1, <2>1, <3>1, NarrowedByBase
  <2>3. /\ IsType(narrowed(b, t))
        /\ UnwrapOptional(narrowed(b, t)) = UnwrapOptional(p)
        /\ IsOptional(narrowed(b, t)) <=> IsOptional(b) /\ IsOptional(t)
    <3>1. UnwrapOptional(b) = UnwrapOptional(t)
      BY <1>2, <2>1
    <3> QED BY <1>1, <2>1, <3>1, NarrowedByBase
  <2>4. narrowed(a, u) = narrowed(b, t)
    BY <2>1, <2>2, <2>3, SameBase
  <2> QED BY <2>4 DEF a, b
<1>3. CASE UnwrapOptional(p) # UnwrapOptional(t) \/ UnwrapOptional(p) # UnwrapOptional(u)
  <2>1. \A x : narrowed(ZeroType, x) = ZeroType
    BY DEF narrowed
  <2>2. /\ UnwrapOptional(p) # UnwrapOptional(t) => a = ZeroType
        /\ UnwrapOptional(p) # UnwrapOptional(u) => b = ZeroType
        /\ UnwrapOptional(p) = UnwrapOptional(t) => UnwrapOptional(a) = UnwrapOptional(p)
        /\ UnwrapOptional(p) = UnwrapOptional(u) => UnwrapOptional(b) = UnwrapOptional(p)
    BY NarrowedByBase
  <2> HIDE DEF a, b
  <2>3. /\ UnwrapOptional(a) # UnwrapOptional(u) => narrowed(a, u) = ZeroType
        /\ UnwrapOptional(b) # UnwrapOptional(t) => narrowed(b, t) = ZeroType
    BY <1>1, NarrowedByBase
  <2>4. narrowed(a, u) = ZeroType /\ narrowed(b, t) = ZeroType
    BY <1>3, <2>1, <2>2, <2>3
  <2> QED BY <2>4 DEF a, b
<1> QED BY <1>2, <1>3

\* The maps of two uses, of one parameter or of two, are the same in either
\* order.
THEOREM UsesCommute ==
    ASSUME NEW inferred, NEW m, NEW n, NEW t, NEW u, IsType(t), IsType(u),
           \A k \in DOMAIN inferred : IsType(inferred[k])
    PROVE  inferParameter(inferParameter(inferred, m, t), n, u)
           = inferParameter(inferParameter(inferred, n, u), m, t)
<1> DEFINE both == DOMAIN inferred \cup {m, n}
           l == inferParameter(inferParameter(inferred, m, t), n, u)
           r == inferParameter(inferParameter(inferred, n, u), m, t)
<1>1. l = [k \in both |-> l[k]] /\ r = [k \in both |-> r[k]]
  BY DEF inferParameter
<1>2. ASSUME NEW k \in both PROVE l[k] = r[k]
  <2>1. CASE k = m /\ k = n
    BY <2>1, <1>2, NarrowingOrderFree, NarrowedSymmetric DEF inferParameter
  <2>2. CASE k # m \/ k # n
    BY <2>2, <1>2 DEF inferParameter
  <2> QED BY <2>1, <2>2
<1> HIDE DEF l, r
<1>3. l = r
  BY <1>1, <1>2
<1> QED BY <1>3 DEF l, r

\* A parameter whose uses do not conflict can be used where each of them
\* expects it: its type is assigned to the one of either use.
THEOREM NarrowedFitsEveryUse ==
    ASSUME NEW t, NEW u, IsType(t), IsType(u), narrowed(t, u) # ZeroType
    PROVE  compatibleTypes(narrowed(t, u), t) /\ compatibleTypes(narrowed(t, u), u)
<1>1. UnwrapOptional(t) = UnwrapOptional(u)
  BY NarrowedByBase
<1>2. IsOptional(t) /\ IsOptional(u) => t = u
  BY <1>1, SameBase
<1> QED BY <1>1, <1>2 DEF narrowed, compatibleTypes, UnwrapOptional

-----------------------------------------------------------------------------
(***************************************************************************)
(* The registry: two signatures that match one call overlap.                *)
(***************************************************************************)
LEMMA LeastExists ==
    ASSUME NEW S \in SUBSET Nat, S # {}
    PROVE  Min(S) \in S /\ \A n \in S : Min(S) <= n
<1> DEFINE Less == {ss \in Nat \X Nat : ss[1] < ss[2]}
<1>1. Less = OpToRel(<, Nat)
  BY Zenon DEF OpToRel
<1>2. IsWellFoundedOn(Less, Nat)
  BY <1>1, NatLessThanWellFounded
<1>3. \A i, j \in Nat : i < j => <<i, j>> \in Less
  OBVIOUS
<1> HIDE DEF Less
<1>4. PICK least \in S : \A n \in S : ~(<<n, least>> \in Less)
  BY <1>2, WFMin
<1>5. \A n \in S : least <= n
  <2> TAKE n \in S
  <2>1. n \in Nat /\ least \in Nat /\ ~(n < least)
    BY <1>3, <1>4
  <2> QED BY <2>1
<1> QED BY <1>5 DEF Min

\* Arguments and parameters are slices.
IsList(s) == s \in Seq(ToSet(s))

LEMMA ListFacts ==
    ASSUME NEW s, IsList(s)
    PROVE  Len(s) \in Nat /\ DOMAIN s = 1 .. Len(s)
BY LenProperties DEF IsList

\* parameterIndex finds a parameter of the name.
LEMMA IndexIsNamed ==
    ASSUME NEW parameters, IsList(parameters), NEW name,
           parameterIndex(parameters, name) # 0
    PROVE  /\ parameterIndex(parameters, name) \in DOMAIN parameters
           /\ parameters[parameterIndex(parameters, name)].Name = name
<1> DEFINE found == {i \in DOMAIN parameters : parameters[i].Name = name}
<1>1. found # {} /\ parameterIndex(parameters, name) = Min(found)
  BY DEF parameterIndex
<1>2. found \in SUBSET Nat
  BY ListFacts
<1>3. Min(found) \in found
  BY <1>1, <1>2, LeastExists
<1> QED BY <1>1, <1>3

LEMMA NoLiteralFits ==
    ASSUME NEW kind PROVE ~integerLiteralFits(<<>>, kind)
BY Zenon DEF integerLiteralFits

\* What binds a typed argument has its base.
LEMMA TypedMatchesBase ==
    ASSUME NEW argument, NEW parameter, matchParameter(argument, parameter),
           argument.IntegerLiteral = <<>>, argument.StringLiteral = FALSE,
           UnwrapOptional(argument.Type) # Null
    PROVE  UnwrapOptional(argument.Type) = UnwrapOptional(parameter.Type)
BY NoLiteralFits, Zenon DEF matchParameter

\* The first prefix arguments, of n, are positional, and the next one is not.
Positional(args, n, prefix) ==
    /\ prefix \in 0 .. n
    /\ \A i \in 1 .. prefix : ~HasName(args[i])
    /\ prefix < n => HasName(args[prefix + 1])

LEMMA PositionalPrefix ==
    ASSUME NEW args, NEW n \in Nat, DOMAIN args = 1 .. n
    PROVE  \E prefix : Positional(args, n, prefix)
<1> DEFINE named == {i \in 1 .. n : HasName(args[i])}
<1>1. CASE named = {}
  <2>1. \A i \in 1 .. n : ~HasName(args[i])
    BY <1>1
  <2>2. n \in 0 .. n /\ ~(n < n)
    OBVIOUS
  <2> QED BY <2>1, <2>2 DEF Positional
<1>2. CASE named # {}
  <2>1. named \in SUBSET Nat
    OBVIOUS
  <2>2. Min(named) \in named /\ \A i \in named : Min(named) <= i
    BY <1>2, <2>1, LeastExists
  <2>3. PICK first \in named : \A i \in named : first <= i
    BY <2>2
  <2>4. first \in 1 .. n /\ HasName(args[first])
    BY <2>3
  <2>5. \A i \in 1 .. first - 1 : ~HasName(args[i])
    BY <2>3, <2>4
  <2>6. first - 1 \in 0 .. n /\ (first - 1) + 1 = first
    BY <2>4
  <2> QED BY <2>4, <2>5, <2>6 DEF Positional
<1> QED BY <1>1, <1>2

\* How a call with a prefix of positional arguments is bound.
LEMMA BoundArguments ==
    ASSUME NEW args, NEW n \in Nat, DOMAIN args = 1 .. n,
           NEW parameters, Len(parameters) \in Nat,
           0 \notin ToSet(Bound(args, parameters)),
           NEW prefix, Positional(args, n, prefix)
    PROVE  /\ prefix <= Len(parameters)
           /\ DOMAIN Bound(args, parameters) = 1 .. n
           /\ \A i \in 1 .. prefix : Bound(args, parameters)[i] = i
           /\ \A i \in prefix + 1 .. n :
                 /\ HasName(args[i])
                 /\ Bound(args, parameters)[i] = parameterIndex(parameters, args[i].Name)
                 /\ Bound(args, parameters)[i] # 0
<1> DEFINE bound == Bound(args, parameters)
<1> USE DEF Positional
<1>1. DOMAIN bound = 1 .. n
  BY DEF Bound
<1>2. \A i \in 1 .. n : bound[i] # 0
  BY <1>1, Zenon DEF ToSet
<1>3. \A i \in 1 .. n :
         bound[i] = IF HasName(args[i]) THEN parameterIndex(parameters, args[i].Name)
                    ELSE IF i > Len(parameters) \/ \E j \in 1 .. i : HasName(args[j])
                    THEN 0 ELSE i
  BY Zenon DEF Bound
<1> HIDE DEF bound
<1>4. \A i \in 1 .. prefix : i \in 1 .. n
  OBVIOUS
<1>5. \A i \in 1 .. prefix : bound[i] = i /\ ~(i > Len(parameters))
  BY <1>2, <1>3, <1>4
<1>6. \A i \in prefix + 1 .. n : i \in 1 .. n /\ prefix + 1 \in 1 .. i /\ prefix < n
  OBVIOUS
<1>7. \A i \in prefix + 1 .. n : HasName(args[i])
  BY <1>2, <1>3, <1>6
<1>8. \A i \in prefix + 1 .. n :
         bound[i] = parameterIndex(parameters, args[i].Name) /\ bound[i] # 0
  BY <1>2, <1>3, <1>6, <1>7
<1>9. prefix <= Len(parameters)
  <2>1. CASE prefix = 0
    BY <2>1
  <2>2. CASE prefix # 0
    <3>1. prefix \in 1 .. prefix
      BY <2>2
    <3> QED BY <3>1, <1>5
  <2> QED BY <2>1, <2>2
<1> QED BY <1>1, <1>5, <1>7, <1>8, <1>9 DEF bound

LEMMA MatchFacts ==
    ASSUME NEW args, NEW s, Matches(args, s)
    PROVE  /\ 0 \notin ToSet(Bound(args, s.Arguments)) /\ IsInjective(Bound(args, s.Arguments))
           /\ \A p \in DOMAIN s.Arguments \ ToSet(Bound(args, s.Arguments)) : s.Arguments[p].Optional
           /\ \A i \in DOMAIN args :
                 matchParameter(args[i], s.Arguments[Bound(args, s.Arguments)[i]])
BY Zenon DEF Matches

\* One half of the overlap: what left requires beyond the prefix, right has by
\* name beyond it, with the type of the argument.
LEMMA RequiredByName ==
    ASSUME NEW args, NEW n \in Nat, DOMAIN args = 1 .. n, Typed(args),
           NEW left, IsList(left.Arguments), Matches(args, left),
           NEW right, IsList(right.Arguments), Matches(args, right),
           NEW prefix, Positional(args, n, prefix)
    PROVE  requiredNamesOverlap(left.Arguments, right.Arguments, prefix)
<1>0. prefix \in 0 .. n
  BY DEF Positional
<1> DEFINE l == left.Arguments
           r == right.Arguments
           toLeft == Bound(args, l)
           toRight == Bound(args, r)
<1>1. /\ 0 \notin ToSet(toLeft) /\ 0 \notin ToSet(toRight)
      /\ IsInjective(toRight)
      /\ \A p \in DOMAIN l \ ToSet(toLeft) : l[p].Optional
      /\ \A i \in 1 .. n : matchParameter(args[i], l[toLeft[i]])
      /\ \A i \in 1 .. n : matchParameter(args[i], r[toRight[i]])
  BY MatchFacts
<1>2. /\ Len(l) \in Nat /\ DOMAIN l = 1 .. Len(l)
      /\ Len(r) \in Nat /\ DOMAIN r = 1 .. Len(r)
  BY ListFacts
<1>3. /\ DOMAIN toLeft = 1 .. n /\ DOMAIN toRight = 1 .. n
      /\ \A i \in 1 .. prefix : toLeft[i] = i /\ toRight[i] = i
      /\ \A i \in prefix + 1 .. n :
            /\ HasName(args[i]) /\ toRight[i] # 0 /\ toLeft[i] # 0
            /\ toLeft[i] = parameterIndex(l, args[i].Name)
            /\ toRight[i] = parameterIndex(r, args[i].Name)
  <2>1. /\ DOMAIN toLeft = 1 .. n
        /\ \A i \in 1 .. prefix : toLeft[i] = i
        /\ \A i \in prefix + 1 .. n :
              HasName(args[i]) /\ toLeft[i] = parameterIndex(l, args[i].Name) /\ toLeft[i] # 0
    BY <1>1, <1>2, BoundArguments
  <2>2. /\ DOMAIN toRight = 1 .. n
        /\ \A i \in 1 .. prefix : toRight[i] = i
        /\ \A i \in prefix + 1 .. n :
              HasName(args[i]) /\ toRight[i] = parameterIndex(r, args[i].Name) /\ toRight[i] # 0
    BY <1>1, <1>2, BoundArguments
  <2> QED BY <2>1, <2>2, Zenon
<1>4. \A i \in 1 .. n : i \in 1 .. prefix \/ i \in prefix + 1 .. n
  BY <1>0
<1>5. \A i \in prefix + 1 .. n :
         /\ l[toLeft[i]].Name = args[i].Name
         /\ toRight[i] \in DOMAIN r
  BY <1>2, <1>3, IndexIsNamed
<1> HIDE DEF toLeft, toRight
<1> SUFFICES ASSUME NEW p \in prefix + 1 .. Len(l), ~l[p].Optional
             PROVE  LET index == parameterIndex(r, l[p].Name)
                    IN  /\ HasName(l[p]) /\ index > prefix
                        /\ parametersOverlap(l[p], r[index])
  BY Zenon DEF requiredNamesOverlap
<1>6. p \in DOMAIN l /\ p > prefix /\ p \in Nat
  BY <1>0, <1>2
<1>7. PICK i \in 1 .. n : toLeft[i] = p
  BY <1>1, <1>3, <1>6, Zenon DEF ToSet
<1>8. i \in prefix + 1 .. n
  BY <1>0, <1>3, <1>4, <1>6, <1>7
<1>9. /\ HasName(args[i]) /\ l[p].Name = args[i].Name
      /\ toRight[i] = parameterIndex(r, l[p].Name) /\ toRight[i] \in 1 .. Len(r)
  BY <1>2, <1>3, <1>5, <1>7, <1>8
<1>12. HasName(l[p])
  BY <1>9, Zenon DEF HasName
<1>10. toRight[i] > prefix
  <2> SUFFICES ASSUME toRight[i] \in 1 .. prefix PROVE FALSE
    BY <1>0, <1>2, <1>9
  <2>1. toRight[toRight[i]] = toRight[i] /\ toRight[i] \in 1 .. n
    BY <1>0, <1>3
  <2>2. toRight[i] = i
    BY <2>1, <1>1, <1>3, <1>7, Zenon DEF IsInjective
  <2> QED BY <2>2, <1>0, <1>8
<1>11. parametersOverlap(l[p], r[toRight[i]])
  <2>1. matchParameter(args[i], l[p]) /\ matchParameter(args[i], r[toRight[i]])
    BY <1>1, <1>7
  <2>2. /\ args[i].IntegerLiteral = <<>> /\ args[i].StringLiteral = FALSE
        /\ UnwrapOptional(args[i].Type) # Null
    BY <1>7, Zenon DEF Typed
  <2> QED BY <2>1, <2>2, TypedMatchesBase, Zenon DEF parametersOverlap
<1> QED BY <1>9, <1>10, <1>11, <1>12

\* Two signatures that match one call with typed arguments overlap.
LEMMA MatchingSignaturesOverlap ==
    ASSUME NEW args, NEW n \in Nat, DOMAIN args = 1 .. n, Typed(args),
           NEW left, IsList(left.Arguments), Matches(args, left),
           NEW right, IsList(right.Arguments), Matches(args, right)
    PROVE  signaturesOverlap(left, right)
<1> DEFINE l == left.Arguments
           r == right.Arguments
<1>1. PICK prefix : Positional(args, n, prefix)
  BY PositionalPrefix
<1>0. prefix \in 0 .. n
  BY <1>1 DEF Positional
<1>2. /\ 0 \notin ToSet(Bound(args, l)) /\ 0 \notin ToSet(Bound(args, r))
      /\ \A i \in 1 .. n : matchParameter(args[i], l[Bound(args, l)[i]])
      /\ \A i \in 1 .. n : matchParameter(args[i], r[Bound(args, r)[i]])
  BY MatchFacts
<1>3. Len(l) \in Nat /\ Len(r) \in Nat
  BY ListFacts
<1>4. /\ prefix <= Len(l) /\ prefix <= Len(r)
      /\ \A i \in 1 .. prefix : Bound(args, l)[i] = i /\ Bound(args, r)[i] = i
  <2>1. prefix <= Len(l) /\ \A i \in 1 .. prefix : Bound(args, l)[i] = i
    BY <1>1, <1>2, <1>3, BoundArguments
  <2>2. prefix <= Len(r) /\ \A i \in 1 .. prefix : Bound(args, r)[i] = i
    BY <1>1, <1>2, <1>3, BoundArguments
  <2> QED BY <2>1, <2>2, Zenon
<1>5. \A i \in 1 .. prefix : parametersOverlap(l[i], r[i])
  <2> TAKE i \in 1 .. prefix
  <2>1. i \in 1 .. n
    BY <1>0
  <2>2. matchParameter(args[i], l[i]) /\ matchParameter(args[i], r[i])
    BY <1>2, <1>4, <2>1
  <2>3. /\ args[i].IntegerLiteral = <<>> /\ args[i].StringLiteral = FALSE
        /\ UnwrapOptional(args[i].Type) # Null
    BY <2>1, Zenon DEF Typed
  <2> QED BY <2>2, <2>3, TypedMatchesBase, Zenon DEF parametersOverlap
<1>6. requiredNamesOverlap(l, r, prefix) /\ requiredNamesOverlap(r, l, prefix)
  BY <1>1, RequiredByName
<1>7. prefix \in 0 .. Min({Len(l), Len(r)})
  <2>1. {Len(l), Len(r)} \in SUBSET Nat /\ {Len(l), Len(r)} # {}
    BY <1>3
  <2>2. Min({Len(l), Len(r)}) \in {Len(l), Len(r)}
    BY <2>1, LeastExists
  <2> QED BY <2>2, <1>0, <1>3, <1>4
<1> QED BY <1>5, <1>6, <1>7, Zenon DEF signaturesOverlap


-----------------------------------------------------------------------------
(***************************************************************************)
(* The registry itself.                                                     *)
(***************************************************************************)

\* The functions of a name were accepted one after the other.
RegistryInv ==
    /\ pending \subseteq Signatures
    /\ \A name \in DOMAIN functions :
          /\ functions[name] \in Seq(Signatures)
          /\ \A i, j \in DOMAIN functions[name] :
                i < j => ~signaturesOverlap(functions[name][i], functions[name][j])

LEMMA RegistryInvHolds == RegistrySpec => []RegistryInv
<1>1. RegistryInit => RegistryInv
  <2> SUFFICES ASSUME RegistryInit PROVE RegistryInv
    OBVIOUS
  <2>1. DOMAIN functions = {} /\ pending \subseteq Signatures
    BY DEF RegistryInit
  <2> QED BY <2>1, Zenon DEF RegistryInv
<1>2. RegistryInv /\ [RegisterSignature]_<<functions, pending>> => RegistryInv'
  <2> SUFFICES ASSUME RegistryInv, [RegisterSignature]_<<functions, pending>>
               PROVE  RegistryInv'
    OBVIOUS
  <2>1. CASE UNCHANGED <<functions, pending>>
    BY <2>1 DEF RegistryInv
  <2>2. CASE RegisterSignature
    <3>1. PICK s \in pending :
             /\ pending' = pending \ {s}
             /\ \/ /\ AcceptsSignature(s)
                   /\ functions' = [name \in DOMAIN functions \cup {s.Name} |->
                                        IF name = s.Name THEN Append(Custom(name), s) ELSE functions[name]]
                \/ UNCHANGED functions
      BY <2>2, Zenon DEF RegisterSignature
    <3>2. s \in Signatures /\ pending' \subseteq Signatures
      BY <3>1 DEF RegistryInv
    <3>3. CASE UNCHANGED functions
      BY <3>2, <3>3, Zenon DEF RegistryInv
    <3>4. CASE /\ AcceptsSignature(s)
               /\ functions' = [name \in DOMAIN functions \cup {s.Name} |->
                                    IF name = s.Name THEN Append(Custom(name), s) ELSE functions[name]]
      <4> DEFINE custom == Custom(s.Name)
                 more == Append(custom, s)
      <4>1. /\ custom \in Seq(Signatures)
            /\ \A i, j \in DOMAIN custom :
                  i < j => ~signaturesOverlap(custom[i], custom[j])
        <5>1. CASE s.Name \in DOMAIN functions
          <6>1. custom = functions[s.Name]
            BY <5>1 DEF Custom
          <6> QED BY <5>1, <6>1, Zenon DEF RegistryInv
        <5>2. CASE s.Name \notin DOMAIN functions
          <6>1. custom = <<>>
            BY <5>2 DEF Custom
          <6> QED BY <6>1
        <5> QED BY <5>1, <5>2
      <4>2. \A i \in DOMAIN custom : ~signaturesOverlap(custom[i], s)
        BY <3>4, Zenon DEF AcceptsSignature
      <4> HIDE DEF custom
      <4>3. /\ more \in Seq(Signatures) /\ DOMAIN custom = 1 .. Len(custom) /\ Len(custom) \in Nat
            /\ DOMAIN more = 1 .. Len(custom) + 1
            /\ more[Len(custom) + 1] = s
            /\ \A i \in 1 .. Len(custom) : more[i] = custom[i]
        BY <3>2, <4>1, AppendProperties, LenProperties
      <4> HIDE DEF more
      <4>4. \A i, j \in DOMAIN more : i < j => ~signaturesOverlap(more[i], more[j])
        <5> SUFFICES ASSUME NEW i \in DOMAIN more, NEW j \in DOMAIN more, i < j
                     PROVE  ~signaturesOverlap(more[i], more[j])
          OBVIOUS
        <5>1. i \in 1 .. Len(custom) /\ more[i] = custom[i]
          BY <4>3
        <5>2. CASE j = Len(custom) + 1
          BY <5>1, <5>2, <4>2, <4>3
        <5>3. CASE j # Len(custom) + 1
          <6>1. j \in 1 .. Len(custom) /\ more[j] = custom[j]
            BY <5>3, <4>3
          <6> QED BY <5>1, <6>1, <4>1, <4>3
        <5> QED BY <5>2, <5>3
      <4>5. DOMAIN functions' = {s.Name} \cup DOMAIN functions
        BY <3>4 DEF custom, more
      <4>6. functions'[s.Name] = more
        BY <3>4 DEF custom, more
      <4>7. \A name \in DOMAIN functions : name # s.Name => functions'[name] = functions[name]
        BY <3>4
      <4>8. \A name \in DOMAIN functions' :
               /\ functions'[name] \in Seq(Signatures)
               /\ \A i, j \in DOMAIN functions'[name] :
                     i < j => ~signaturesOverlap(functions'[name][i], functions'[name][j])
        <5> TAKE name \in DOMAIN functions'
        <5>1. CASE name = s.Name
          BY <5>1, <4>3, <4>4, <4>6, Zenon
        <5>2. CASE name # s.Name
          <6>1. name \in DOMAIN functions /\ functions'[name] = functions[name]
            BY <5>2, <4>5, <4>7
          <6> QED BY <6>1, Zenon DEF RegistryInv
        <5> QED BY <5>1, <5>2
      <4> QED BY <3>2, <4>8, Zenon DEF RegistryInv
    <3> QED BY <3>1, <3>3, <3>4
  <2> QED BY <2>1, <2>2
<1> QED BY <1>1, <1>2, PTL DEF RegistrySpec

LEMMA TypedCallsAreUnambiguous ==
    ASSUME RegistryInv, NEW name \in DOMAIN functions,
           NEW args, NEW n \in Nat, DOMAIN args = 1 .. n, Typed(args)
    PROVE  Unambiguous(args, functions[name])
<1> DEFINE custom == functions[name]
<1>1. /\ custom \in Seq(Signatures)
      /\ \A i, j \in DOMAIN custom : i < j => ~signaturesOverlap(custom[i], custom[j])
  BY Zenon DEF RegistryInv
<1> HIDE DEF custom
<1>2. DOMAIN custom \subseteq Nat /\ \A i \in DOMAIN custom : custom[i] \in Signatures
  BY <1>1
<1>3. \A i \in DOMAIN custom : IsList(custom[i].Arguments)
  BY <1>2, ParametersAreSequences DEF IsList
<1>4. ASSUME NEW i \in DOMAIN custom, NEW j \in DOMAIN custom,
             Matches(args, custom[i]), Matches(args, custom[j])
      PROVE  i = j
  <2>1. signaturesOverlap(custom[i], custom[j]) /\ signaturesOverlap(custom[j], custom[i])
    BY <1>3, <1>4, MatchingSignaturesOverlap
  <2>2. ~(i < j) /\ ~(j < i)
    BY <1>1, <2>1
  <2> QED BY <1>2, <2>2
<1> QED BY <1>4, Zenon DEF Unambiguous, custom

\* No call with typed arguments, however long, by position or by name, matches
\* two of the signatures that NewRegistry has accepted (signaturesOverlap).
THEOREM TypedCallsMatchOnce ==
    RegistrySpec => [](\A name \in DOMAIN functions : \A args :
                          IsList(args) /\ Typed(args) => Unambiguous(args, functions[name]))
<1>1. RegistryInv => \A name \in DOMAIN functions : \A args :
                        IsList(args) /\ Typed(args) => Unambiguous(args, functions[name])
  BY ListFacts, TypedCallsAreUnambiguous
<1> QED BY <1>1, RegistryInvHolds, PTL

\* The same for the calls that TLC makes.
THEOREM OverlapIsExactHolds == RegistrySpec => []OverlapIsExact
<1>1. RegistryInv => OverlapIsExact
  <2> SUFFICES ASSUME RegistryInv, NEW name \in DOMAIN functions,
                      NEW args \in CallsOf(ToSet(functions[name])), Typed(args)
               PROVE  Unambiguous(args, functions[name])
    BY Zenon DEF OverlapIsExact
  <2>1. \E n \in Nat : DOMAIN args = 1 .. n
    <3> DEFINE calls == CallArguments(ToSet(functions[name]))
    <3> HIDE DEF calls
    <3>1. \/ args = <<>>
          \/ \E a \in calls : args = <<a>>
          \/ \E a, b \in calls : args = <<a, b>>
      BY DEF CallsOf, calls
    <3>2. args = <<>> => DOMAIN args = 1 .. 0
      OBVIOUS
    <3>3. ASSUME NEW a, args = <<a>> PROVE DOMAIN args = 1 .. 1
      BY <3>3
    <3>4. ASSUME NEW a, NEW b, args = <<a, b>> PROVE DOMAIN args = 1 .. 2
      BY <3>4
    <3> QED BY <3>1, <3>2, <3>3, <3>4
  <2> QED BY <2>1, TypedCallsAreUnambiguous
<1> QED BY <1>1, RegistryInvHolds, PTL
=============================================================================
