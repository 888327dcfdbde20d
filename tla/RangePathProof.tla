---------------------------- MODULE RangePathProof ----------------------------
(***************************************************************************)
(* What the operations of src/lib/int_interval.ml compute, for ranges of   *)
(* any size, and that the range analysis built from them is sound along    *)
(* every path, for every width of the program's integers and of the        *)
(* machine's.                                                              *)
(***************************************************************************)
EXTENDS RangePath, NatRecursion, TLAPS

\* The kinds of bounds: values are integers, infinities have one form each.
LEMMA BoundKinds ==
  ASSUME NEW b \in Bounds
  PROVE  /\ b.val \in Int
         /\ b.kind \in {"PInf", "NInf", "Int64", "EInt"}
         /\ b.kind = "PInf" <=> b = PInf
         /\ b.kind = "NInf" <=> b = NInf
         /\ b.kind = "Int64" => Fits(b.val)
BY DEF Bounds, PInf, NInf

\* The fields of a range that mk_range made.
LEMMA RangeFields ==
  ASSUME NEW r \in Ranges
  PROVE  /\ r.lb \in Bounds /\ r.ub \in Bounds /\ r.li \in BOOLEAN /\ r.ui \in BOOLEAN
         /\ r # Bottom
         /\ r.lb.kind = "Int64" => r.li
         /\ r.ub.kind = "Int64" => r.ui
BY DEF Ranges, Bottom

\* An integer is above a lower bound, below an upper bound.
Above(b, closed, x) == b = NInf \/ (IsFinite(b) /\ (b.val < x \/ (closed /\ b.val = x)))
Below(b, closed, x) == b = PInf \/ (IsFinite(b) /\ (x < b.val \/ (closed /\ b.val = x)))

\* What a range covers, bound by bound.
LEMMA CoversDef ==
  ASSUME NEW r \in Ranges, NEW x \in Int
  PROVE  Covers(r, x) <=> Above(r.lb, r.li, x) /\ Below(r.ub, r.ui, x)
BY RangeFields DEF Covers, Above, Below

\* Closing a bound that is a machine integer does not overflow.
CanClose(b, closed, n) == b.kind = "Int64" /\ ~closed => Fits(b.val + n)

\* mk_range changes the form of a range, not what it covers.
LEMMA MkRange ==
  ASSUME NEW lb \in Bounds, NEW li \in BOOLEAN, NEW ub \in Bounds, NEW ui \in BOOLEAN,
         CanClose(lb, li, 1), CanClose(ub, ui, -1)
  PROVE  /\ mk_range(lb, li, ub, ui) \in Ranges
         /\ \A x \in Int : Covers(mk_range(lb, li, ub, ui), x) <=>
                            Above(lb, li, x) /\ Below(ub, ui, x)
<1> DEFINE r == mk_range(lb, li, ub, ui)
<1> USE MaxIntAssumption
<1>1. r.lb = (IF lb.kind = "Int64" /\ ~li THEN Int64(lb.val + 1) ELSE lb)
  BY DEF mk_range
<1>2. r.ub = (IF ub.kind = "Int64" /\ ~ui THEN Int64(ub.val - 1) ELSE ub)
  BY DEF mk_range
<1>3. r.li = (li \/ lb.kind = "Int64") /\ r.ui = (ui \/ ub.kind = "Int64")
  BY DEF mk_range
<1>4. r.lb \in Bounds
  BY <1>1, BoundKinds DEF CanClose, Int64, Wrap, Bounds
<1>5. r.ub \in Bounds
  BY <1>2, BoundKinds DEF CanClose, Int64, Wrap, Bounds
<1>6. r \in Ranges
  <2>1. r.lb.kind = "Int64" => r.li
    BY <1>1, <1>3 DEF Int64
  <2>2. r.ub.kind = "Int64" => r.ui
    BY <1>2, <1>3 DEF Int64
  <2>3. r \in [kind : {"Range"}, lb : Bounds, li : BOOLEAN, ub : Bounds, ui : BOOLEAN]
    BY <1>4, <1>5 DEF mk_range
  <2> QED
    BY <2>1, <2>2, <2>3 DEF Ranges
<1>7. ASSUME NEW x \in Int
      PROVE  Above(r.lb, r.li, x) <=> Above(lb, li, x)
  <2>1. CASE lb.kind = "Int64" /\ ~li
    <3>1. r.lb = [kind |-> "Int64", val |-> lb.val + 1] /\ r.li
      BY <1>1, <1>3, <2>1 DEF CanClose, Int64, Wrap
    <3>2. Above(r.lb, r.li, x) <=> lb.val + 1 < x \/ lb.val + 1 = x
      BY <3>1 DEF Above, NInf, IsFinite
    <3>3. Above(lb, li, x) <=> lb.val < x
      BY <2>1, BoundKinds DEF Above, NInf, IsFinite
    <3>4. lb.val \in Int
      BY BoundKinds
    <3> QED
      BY <3>2, <3>3, <3>4
  <2>2. CASE ~(lb.kind = "Int64" /\ ~li)
    BY <1>1, <1>3, <2>2 DEF Above
  <2> QED
    BY <2>1, <2>2
<1>8. ASSUME NEW x \in Int
      PROVE  Below(r.ub, r.ui, x) <=> Below(ub, ui, x)
  <2>1. CASE ub.kind = "Int64" /\ ~ui
    <3>1. ub.val \in Int
      BY BoundKinds
    <3>2. r.ub = [kind |-> "Int64", val |-> ub.val - 1] /\ r.ui
      BY <1>2, <1>3, <2>1, <3>1 DEF CanClose, Int64, Wrap
    <3>3. Below(r.ub, r.ui, x) <=> x < ub.val - 1 \/ ub.val - 1 = x
      BY <3>2 DEF Below, PInf, IsFinite
    <3>4. Below(ub, ui, x) <=> x < ub.val
      BY <2>1, BoundKinds DEF Below, PInf, IsFinite
    <3> QED
      BY <3>1, <3>3, <3>4
  <2>2. CASE ~(ub.kind = "Int64" /\ ~ui)
    BY <1>2, <1>3, <2>2 DEF Below
  <2> QED
    BY <2>1, <2>2
<1> QED
  BY <1>6, <1>7, <1>8, CoversDef

\* The bounds of a range that mk_range made need no closing.
LEMMA CloseClosed ==
  ASSUME NEW r \in Ranges
  PROVE  CanClose(r.lb, r.li, 1) /\ CanClose(r.ub, r.ui, -1)
BY RangeFields DEF CanClose

\* The order of bounds is total.
LEMMA BoundOrder ==
  ASSUME NEW a \in Bounds, NEW b \in Bounds
  PROVE  /\ lequal_bound(a, b) \/ lequal_bound(b, a)
         /\ less_bound(a, b) => lequal_bound(a, b)
BY BoundKinds DEF less_bound, lequal_bound, IsFinite, PInf, NInf

\* Moving a lower bound down, or an upper bound up, covers more.
LEMMA BoundMoves ==
  ASSUME NEW a \in Bounds, NEW b \in Bounds, NEW x \in Int,
         NEW i \in BOOLEAN, NEW j \in BOOLEAN
  PROVE  /\ less_bound(a, b) /\ Above(b, j, x) => Above(a, i, x)
         /\ less_bound(a, b) /\ Below(a, j, x) => Below(b, i, x)
         /\ lequal_bound(a, b) /\ Above(b, j, x) => Above(a, j, x)
         /\ lequal_bound(a, b) /\ Below(a, j, x) => Below(b, j, x)
BY BoundKinds DEF less_bound, lequal_bound, Above, Below, IsFinite, PInf, NInf

\* The smaller of two lower bounds is below whatever one of them is below.
LEMMA LowerAbove ==
  ASSUME NEW b1 \in Bounds, NEW i1 \in BOOLEAN, NEW b2 \in Bounds, NEW i2 \in BOOLEAN,
         NEW x \in Int, SameFlag(b1, i1, b2, i2), Above(b1, i1, x) \/ Above(b2, i2, x),
         CanClose(b1, i1, 1), CanClose(b2, i2, 1)
  PROVE  LET l == Lower(b1, i1, b2, i2, i1 /\ i2)
         IN  l[1] \in Bounds /\ l[2] \in BOOLEAN /\ Above(l[1], l[2], x) /\ CanClose(l[1], l[2], 1)
<1>1. CASE less_bound(b1, b2)
  BY <1>1, BoundMoves DEF Lower
<1>2. CASE ~less_bound(b1, b2) /\ less_bound(b2, b1)
  BY <1>2, BoundMoves DEF Lower
<1>3. CASE ~less_bound(b1, b2) /\ ~less_bound(b2, b1)
  <2>1. lequal_bound(b1, b2) /\ lequal_bound(b2, b1)
    BY <1>3 DEF less_bound
  <2>2. Above(b1, i1, x)
    <3>1. CASE IsFinite(b1)
      BY <2>1, <3>1, BoundMoves DEF SameFlag
    <3>2. CASE ~IsFinite(b1)
      BY <2>1, <3>2, BoundKinds DEF lequal_bound, Above, IsFinite, PInf, NInf
    <3> QED
      BY <3>1, <3>2
  <2>3. Above(b1, i1 /\ i2, x) /\ CanClose(b1, i1 /\ i2, 1)
    <3>1. CASE IsFinite(b1)
      BY <2>1, <2>2, <3>1 DEF SameFlag
    <3>2. CASE ~IsFinite(b1)
      BY <2>2, <3>2 DEF Above, CanClose, IsFinite
    <3> QED
      BY <3>1, <3>2
  <2> QED
    BY <1>3, <2>3 DEF Lower
<1> QED
  BY <1>1, <1>2, <1>3

\* The larger of two upper bounds is above whatever one of them is above.
LEMMA UpperBelow ==
  ASSUME NEW b1 \in Bounds, NEW i1 \in BOOLEAN, NEW b2 \in Bounds, NEW i2 \in BOOLEAN,
         NEW x \in Int, SameFlag(b1, i1, b2, i2), Below(b1, i1, x) \/ Below(b2, i2, x),
         CanClose(b1, i1, -1), CanClose(b2, i2, -1)
  PROVE  LET u == Upper(b1, i1, b2, i2, i1 /\ i2)
         IN  u[1] \in Bounds /\ u[2] \in BOOLEAN /\ Below(u[1], u[2], x) /\ CanClose(u[1], u[2], -1)
<1>1. CASE less_bound(b2, b1)
  BY <1>1, BoundMoves DEF Upper
<1>2. CASE ~less_bound(b2, b1) /\ less_bound(b1, b2)
  BY <1>2, BoundMoves DEF Upper
<1>3. CASE ~less_bound(b1, b2) /\ ~less_bound(b2, b1)
  <2>1. lequal_bound(b1, b2) /\ lequal_bound(b2, b1)
    BY <1>3 DEF less_bound
  <2>2. Below(b1, i1, x)
    <3>1. CASE IsFinite(b1)
      BY <2>1, <3>1, BoundMoves DEF SameFlag
    <3>2. CASE ~IsFinite(b1)
      BY <2>1, <3>2, BoundKinds DEF lequal_bound, Below, IsFinite, PInf, NInf
    <3> QED
      BY <3>1, <3>2
  <2>3. Below(b1, i1 /\ i2, x) /\ CanClose(b1, i1 /\ i2, -1)
    <3>1. CASE IsFinite(b1)
      BY <2>1, <2>2, <3>1 DEF SameFlag
    <3>2. CASE ~IsFinite(b1)
      BY <2>2, <3>2 DEF Below, CanClose, IsFinite
    <3> QED
      BY <3>1, <3>2
  <2> QED
    BY <1>3, <2>3 DEF Upper
<1> QED
  BY <1>1, <1>2, <1>3

\* union_range, which merges the data of two blocks and joins the operands of a phi node,
\* loses no integer, unless the ranges end at the same integer and one end is open.
THEOREM UnionCovers ==
  ASSUME NEW a \in Ranges, NEW b \in Ranges, NEW x \in Int,
         SameFlag(a.lb, a.li, b.lb, b.li), SameFlag(a.ub, a.ui, b.ub, b.ui),
         Covers(a, x) \/ Covers(b, x)
  PROVE  union_range(a, b) \in Ranges /\ Covers(union_range(a, b), x)
<1> DEFINE l == Lower(a.lb, a.li, b.lb, b.li, a.li /\ b.li)
           u == Upper(a.ub, a.ui, b.ub, b.ui, a.ui /\ b.ui)
<1>1. /\ Above(a.lb, a.li, x) \/ Above(b.lb, b.li, x)
      /\ Below(a.ub, a.ui, x) \/ Below(b.ub, b.ui, x)
  BY CoversDef
<1>2. l[1] \in Bounds /\ l[2] \in BOOLEAN /\ Above(l[1], l[2], x) /\ CanClose(l[1], l[2], 1)
  BY <1>1, LowerAbove, RangeFields, CloseClosed
<1>3. u[1] \in Bounds /\ u[2] \in BOOLEAN /\ Below(u[1], u[2], x) /\ CanClose(u[1], u[2], -1)
  BY <1>1, UpperBelow, RangeFields, CloseClosed
<1>4. union_range(a, b) = mk_range(l[1], l[2], u[1], u[2])
  BY DEF union_range, Between
<1> HIDE DEF l, u
<1> QED
  BY <1>2, <1>3, <1>4, MkRange

\* widen_range, which replaces the union in loops, loses no integer.
THEOREM WidenCovers ==
  ASSUME NEW a \in Ranges, NEW b \in Ranges, NEW x \in Int,
         SameFlag(a.lb, a.li, b.lb, b.li), SameFlag(a.ub, a.ui, b.ub, b.ui),
         Covers(a, x) \/ Covers(b, x)
  PROVE  widen_range(a, b) \in Ranges /\ Covers(widen_range(a, b), x)
<1> DEFINE l == IF lequal_bound(a.lb, b.lb) THEN <<a.lb, a.li>> ELSE <<NInf, FALSE>>
           u == IF lequal_bound(b.ub, a.ub) THEN <<a.ub, a.ui>> ELSE <<PInf, FALSE>>
<1>1. /\ Above(a.lb, a.li, x) \/ Above(b.lb, b.li, x)
      /\ Below(a.ub, a.ui, x) \/ Below(b.ub, b.ui, x)
  BY CoversDef
<1>2. l[1] \in Bounds /\ l[2] \in BOOLEAN /\ Above(l[1], l[2], x) /\ CanClose(l[1], l[2], 1)
  <2>1. CASE lequal_bound(a.lb, b.lb)
    <3>1. Above(a.lb, a.li, x)
      <4>1. CASE lequal_bound(b.lb, a.lb)
        <5>1. CASE IsFinite(a.lb)
          BY <1>1, <2>1, <4>1, <5>1, BoundMoves, RangeFields DEF SameFlag
        <5>2. CASE ~IsFinite(a.lb)
          BY <1>1, <2>1, <4>1, <5>2, BoundKinds, RangeFields
             DEF lequal_bound, Above, IsFinite, PInf, NInf
        <5> QED
          BY <5>1, <5>2
      <4>2. CASE less_bound(a.lb, b.lb)
        BY <1>1, <4>2, BoundMoves, RangeFields
      <4> QED
        BY <4>1, <4>2 DEF less_bound
    <3> QED
      BY <2>1, <3>1, RangeFields, CloseClosed
  <2>2. CASE ~lequal_bound(a.lb, b.lb)
    BY <2>2 DEF Bounds, Above, CanClose, NInf
  <2> QED
    BY <2>1, <2>2
<1>3. u[1] \in Bounds /\ u[2] \in BOOLEAN /\ Below(u[1], u[2], x) /\ CanClose(u[1], u[2], -1)
  <2>1. CASE lequal_bound(b.ub, a.ub)
    <3>1. Below(a.ub, a.ui, x)
      <4>1. CASE lequal_bound(a.ub, b.ub)
        <5>1. CASE IsFinite(a.ub)
          BY <1>1, <2>1, <4>1, <5>1, BoundMoves, RangeFields DEF SameFlag
        <5>2. CASE ~IsFinite(a.ub)
          BY <1>1, <2>1, <4>1, <5>2, BoundKinds, RangeFields
             DEF lequal_bound, Below, IsFinite, PInf, NInf
        <5> QED
          BY <5>1, <5>2
      <4>2. CASE less_bound(b.ub, a.ub)
        BY <1>1, <4>2, BoundMoves, RangeFields
      <4> QED
        BY <4>1, <4>2 DEF less_bound
    <3> QED
      BY <2>1, <3>1, RangeFields, CloseClosed
  <2>2. CASE ~lequal_bound(b.ub, a.ub)
    BY <2>2 DEF Bounds, Below, CanClose, PInf
  <2> QED
    BY <2>1, <2>2
<1>4. widen_range(a, b) = mk_range(l[1], l[2], u[1], u[2])
  BY DEF widen_range, Between
<1> HIDE DEF l, u
<1> QED
  BY <1>2, <1>3, <1>4, MkRange

\* The sum of two bounds, neither of them the wrong infinity.
LEMMA AddBound ==
  ASSUME NEW a \in Bounds, NEW b \in Bounds, NEW i \in BOOLEAN, NEW j \in BOOLEAN,
         NEW x \in Int, NEW y \in Int,
         a.kind = "Int64" /\ b.kind = "Int64" => Fits(a.val + b.val)
  PROVE  /\ Above(a, i, x) /\ Above(b, j, y) =>
              add_bound(a, b) \in Bounds /\ Above(add_bound(a, b), i /\ j, x + y)
         /\ Below(a, i, x) /\ Below(b, j, y) =>
              add_bound(a, b) \in Bounds /\ Below(add_bound(a, b), i /\ j, x + y)
<1>1. CASE IsFinite(a) /\ IsFinite(b)
  <2>1. add_bound(a, b) = [kind |-> IF a.kind = "Int64" /\ b.kind = "Int64" THEN "Int64" ELSE "EInt",
                           val |-> a.val + b.val]
    BY <1>1, BoundKinds DEF add_bound, IsFinite, PInf, NInf, Result, Int64, EInt, Wrap
  <2>2. a.val \in Int /\ b.val \in Int
    BY BoundKinds
  <2>3. add_bound(a, b) \in Bounds
    BY <2>1, <2>2 DEF Bounds
  <2>4. a # NInf /\ b # NInf /\ a # PInf /\ b # PInf
    BY <1>1 DEF IsFinite, NInf, PInf
  <2>5. Above(add_bound(a, b), i /\ j, x + y) <=>
          a.val + b.val < x + y \/ ((i /\ j) /\ a.val + b.val = x + y)
    BY <2>1 DEF Above, IsFinite, NInf
  <2>6. Below(add_bound(a, b), i /\ j, x + y) <=>
          x + y < a.val + b.val \/ ((i /\ j) /\ a.val + b.val = x + y)
    BY <2>1 DEF Below, IsFinite, PInf
  <2>7. Above(a, i, x) /\ Above(b, j, y) => Above(add_bound(a, b), i /\ j, x + y)
    BY <1>1, <2>2, <2>4, <2>5 DEF Above
  <2>8. Below(a, i, x) /\ Below(b, j, y) => Below(add_bound(a, b), i /\ j, x + y)
    BY <1>1, <2>2, <2>4, <2>6 DEF Below
  <2> QED
    BY <2>3, <2>7, <2>8
<1>2. CASE ~(IsFinite(a) /\ IsFinite(b))
  BY <1>2, BoundKinds DEF add_bound, Above, Below, Bounds, IsFinite, PInf, NInf
<1> QED
  BY <1>1, <1>2

\* The negation of a bound turns a lower bound into an upper bound.
LEMMA NegBound ==
  ASSUME NEW b \in Bounds, NEW i \in BOOLEAN, NEW x \in Int,
         b.kind = "Int64" => Fits(-b.val)
  PROVE  /\ neg_bound(b) \in Bounds
         /\ neg_bound(b).kind = "Int64" <=> b.kind = "Int64"
         /\ b.kind = "Int64" => neg_bound(b).val = -b.val
         /\ Above(b, i, x) => Below(neg_bound(b), i, -x)
         /\ Below(b, i, x) => Above(neg_bound(b), i, -x)
<1>1. CASE IsFinite(b)
  <2>1. b.val \in Int /\ b # NInf /\ b # PInf
    BY <1>1, BoundKinds DEF IsFinite, NInf, PInf
  <2>2. neg_bound(b) = [kind |-> IF b.kind = "Int64" THEN "Int64" ELSE "EInt", val |-> -b.val]
    BY <2>1 DEF neg_bound, Result, Int64, EInt, Wrap
  <2>3. neg_bound(b) \in Bounds
    BY <2>1, <2>2 DEF Bounds
  <2>4. Below(neg_bound(b), i, -x) <=> -x < -b.val \/ (i /\ -b.val = -x)
    BY <2>2 DEF Below, IsFinite, PInf
  <2>5. Above(neg_bound(b), i, -x) <=> -b.val < -x \/ (i /\ -b.val = -x)
    BY <2>2 DEF Above, IsFinite, NInf
  <2>6. Above(b, i, x) <=> b.val < x \/ (i /\ b.val = x)
    BY <1>1, <2>1 DEF Above
  <2>7. Below(b, i, x) <=> x < b.val \/ (i /\ b.val = x)
    BY <1>1, <2>1 DEF Below
  <2>8. Above(b, i, x) => Below(neg_bound(b), i, -x)
    BY <2>1, <2>4, <2>6
  <2>9. Below(b, i, x) => Above(neg_bound(b), i, -x)
    BY <2>1, <2>5, <2>7
  <2> QED
    BY <2>2, <2>3, <2>8, <2>9
<1>2. CASE ~IsFinite(b)
  BY <1>2, BoundKinds DEF neg_bound, Above, Below, Bounds, IsFinite, PInf, NInf
<1> QED
  BY <1>1, <1>2

\* The sum and the difference of bounds that are machine integers stay in their range.
SumFits(a, b) == a.kind = "Int64" /\ b.kind = "Int64" => Fits(a.val + b.val)
DifferenceFits(a, b) ==
  /\ b.kind = "Int64" => Fits(-b.val)
  /\ a.kind = "Int64" /\ b.kind = "Int64" => Fits(a.val - b.val)

\* A bound of a sum that is a machine integer is closed: so are both its parts.
LEMMA SumClosed ==
  ASSUME NEW a \in Bounds, NEW b \in Bounds, NEW i \in BOOLEAN, NEW j \in BOOLEAN, NEW n \in Int,
         a.kind = "Int64" => i, b.kind = "Int64" => j
  PROVE  CanClose(add_bound(a, b), i /\ j, n)
<1>1. add_bound(a, b).kind = "Int64" => a.kind = "Int64" /\ b.kind = "Int64"
  BY BoundKinds DEF add_bound, Result, Undefined, PInf, NInf, Int64, EInt
<1> QED
  BY <1>1 DEF CanClose

\* add_range covers the sum of any two integers of its operands, if the sums of the
\* machine integers among their bounds do not wrap around.
THEOREM AddCovers ==
  ASSUME NEW a \in Ranges, NEW b \in Ranges, NEW x \in Int, NEW y \in Int,
         SumFits(a.lb, b.lb), SumFits(a.ub, b.ub),
         Covers(a, x), Covers(b, y)
  PROVE  add_range(a, b) \in Ranges /\ Covers(add_range(a, b), x + y)
<1> DEFINE l == add_bound(a.lb, b.lb)
           u == add_bound(a.ub, b.ub)
<1>1. /\ Above(a.lb, a.li, x) /\ Above(b.lb, b.li, y)
      /\ Below(a.ub, a.ui, x) /\ Below(b.ub, b.ui, y)
  BY CoversDef
<1>2. l \in Bounds /\ Above(l, a.li /\ b.li, x + y)
  BY <1>1, AddBound, RangeFields DEF SumFits
<1>3. u \in Bounds /\ Below(u, a.ui /\ b.ui, x + y)
  BY <1>1, AddBound, RangeFields DEF SumFits
<1>4. CanClose(l, a.li /\ b.li, 1)
  BY SumClosed, RangeFields
<1>5. CanClose(u, a.ui /\ b.ui, -1)
  BY SumClosed, RangeFields
<1>6. add_range(a, b) = mk_range(l, a.li /\ b.li, u, a.ui /\ b.ui)
  BY DEF add_range
<1>7. (a.li /\ b.li) \in BOOLEAN /\ (a.ui /\ b.ui) \in BOOLEAN /\ x + y \in Int
  OBVIOUS
<1> HIDE DEF l, u
<1> QED
  BY <1>2, <1>3, <1>4, <1>5, <1>6, <1>7, MkRange

\* sub_range covers the difference of any two integers of its operands, if the
\* differences of the machine integers among their bounds do not wrap around.
THEOREM SubCovers ==
  ASSUME NEW a \in Ranges, NEW b \in Ranges, NEW x \in Int, NEW y \in Int,
         DifferenceFits(a.lb, b.ub), DifferenceFits(a.ub, b.lb),
         Covers(a, x), Covers(b, y)
  PROVE  sub_range(a, b) \in Ranges /\ Covers(sub_range(a, b), x - y)
<1> DEFINE nl == neg_bound(b.ub)
           nu == neg_bound(b.lb)
           l  == add_bound(a.lb, nl)
           u  == add_bound(a.ub, nu)
<1>1. /\ Above(a.lb, a.li, x) /\ Above(b.lb, b.li, y)
      /\ Below(a.ub, a.ui, x) /\ Below(b.ub, b.ui, y)
  BY CoversDef
<1>2. nl \in Bounds /\ Above(nl, b.ui, -y) /\ SumFits(a.lb, nl) /\ (nl.kind = "Int64" => b.ui)
  <2>1. nl \in Bounds /\ Above(nl, b.ui, -y) /\ (nl.kind = "Int64" <=> b.ub.kind = "Int64")
        /\ (b.ub.kind = "Int64" => nl.val = -b.ub.val)
    BY <1>1, NegBound, RangeFields DEF DifferenceFits
  <2>2. a.lb.val \in Int /\ b.ub.val \in Int
    BY BoundKinds, RangeFields
  <2>3. SumFits(a.lb, nl)
    BY <2>1, <2>2 DEF SumFits, DifferenceFits, Fits
  <2> QED
    BY <2>1, <2>3, RangeFields
<1>3. nu \in Bounds /\ Below(nu, b.li, -y) /\ SumFits(a.ub, nu) /\ (nu.kind = "Int64" => b.li)
  <2>1. nu \in Bounds /\ Below(nu, b.li, -y) /\ (nu.kind = "Int64" <=> b.lb.kind = "Int64")
        /\ (b.lb.kind = "Int64" => nu.val = -b.lb.val)
    BY <1>1, NegBound, RangeFields DEF DifferenceFits
  <2>2. a.ub.val \in Int /\ b.lb.val \in Int
    BY BoundKinds, RangeFields
  <2>3. SumFits(a.ub, nu)
    BY <2>1, <2>2 DEF SumFits, DifferenceFits, Fits
  <2> QED
    BY <2>1, <2>3, RangeFields
<1> HIDE DEF nl, nu
<1>4. l \in Bounds /\ Above(l, a.li /\ b.ui, x + (-y))
  BY <1>1, <1>2, AddBound, RangeFields DEF SumFits
<1>5. u \in Bounds /\ Below(u, a.ui /\ b.li, x + (-y))
  BY <1>1, <1>3, AddBound, RangeFields DEF SumFits
<1>6. CanClose(l, a.li /\ b.ui, 1)
  <2>1. a.lb \in Bounds /\ a.li \in BOOLEAN /\ b.ui \in BOOLEAN /\ (a.lb.kind = "Int64" => a.li)
    BY RangeFields
  <2> QED
    BY <1>2, <2>1, SumClosed
<1>7. CanClose(u, a.ui /\ b.li, -1)
  <2>1. a.ub \in Bounds /\ a.ui \in BOOLEAN /\ b.li \in BOOLEAN /\ (a.ub.kind = "Int64" => a.ui)
    BY RangeFields
  <2> QED
    BY <1>3, <2>1, SumClosed
<1>8. sub_range(a, b) = mk_range(l, a.li /\ b.ui, u, a.ui /\ b.li)
  BY DEF sub_range, sub_bound, nl, nu
<1>9. (a.li /\ b.ui) \in BOOLEAN /\ (a.ui /\ b.li) \in BOOLEAN /\ x - y \in Int /\ x + (-y) = x - y
  OBVIOUS
<1> HIDE DEF l, u
<1> QED
  BY <1>4, <1>5, <1>6, <1>7, <1>8, <1>9, MkRange

\* A bound that is a machine integer is closed.
IsClosed(b, closed) == b.kind = "Int64" => closed

\* The larger of two lower bounds is below a machine integer that both are below.
LEMMA UpperAbove ==
  ASSUME NEW b1 \in Bounds, NEW i1 \in BOOLEAN, NEW b2 \in Bounds, NEW i2 \in BOOLEAN,
         NEW x \in Int, Fits(x), Above(b1, i1, x), Above(b2, i2, x),
         IsClosed(b1, i1), IsClosed(b2, i2)
  PROVE  LET e == Upper(b1, i1, b2, i2, i1 /\ i2)
         IN  e[1] \in Bounds /\ e[2] \in BOOLEAN /\ Above(e[1], e[2], x) /\ CanClose(e[1], e[2], 1)
<1>1. CASE less_bound(b2, b1) \/ less_bound(b1, b2)
  BY <1>1 DEF Upper, CanClose, IsClosed
<1>2. CASE ~less_bound(b2, b1) /\ ~less_bound(b1, b2)
  <2>1. lequal_bound(b1, b2) /\ lequal_bound(b2, b1)
    BY <1>2 DEF less_bound
  <2>2. Above(b1, i1 /\ i2, x)
    BY <2>1, BoundMoves
  <2>3. CanClose(b1, i1 /\ i2, 1)
    <3>1. ASSUME b1.kind = "Int64", ~(i1 /\ i2)
          PROVE  Fits(b1.val + 1)
      <4>1. b1.val \in Int /\ Fits(b1.val) /\ b1 # NInf /\ b1 # PInf
        BY <3>1, BoundKinds DEF NInf, PInf
      <4>2. b1.val < x
        BY <2>2, <3>1, <4>1 DEF Above
      <4> QED
        BY <4>1, <4>2, MaxIntAssumption DEF Fits, MinInt
    <3> QED
      BY <3>1 DEF CanClose
  <2> QED
    BY <1>2, <2>2, <2>3 DEF Upper
<1> QED
  BY <1>1, <1>2

\* The smaller of two upper bounds is above a machine integer that both are above.
LEMMA LowerBelow ==
  ASSUME NEW b1 \in Bounds, NEW i1 \in BOOLEAN, NEW b2 \in Bounds, NEW i2 \in BOOLEAN,
         NEW x \in Int, Fits(x), Below(b1, i1, x), Below(b2, i2, x),
         IsClosed(b1, i1), IsClosed(b2, i2)
  PROVE  LET e == Lower(b1, i1, b2, i2, i1 /\ i2)
         IN  e[1] \in Bounds /\ e[2] \in BOOLEAN /\ Below(e[1], e[2], x) /\ CanClose(e[1], e[2], -1)
<1>1. CASE less_bound(b2, b1) \/ less_bound(b1, b2)
  BY <1>1 DEF Lower, CanClose, IsClosed
<1>2. CASE ~less_bound(b2, b1) /\ ~less_bound(b1, b2)
  <2>1. lequal_bound(b1, b2) /\ lequal_bound(b2, b1)
    BY <1>2 DEF less_bound
  <2>2. Below(b1, i1 /\ i2, x)
    BY <2>1, BoundMoves
  <2>3. CanClose(b1, i1 /\ i2, -1)
    <3>1. ASSUME b1.kind = "Int64", ~(i1 /\ i2)
          PROVE  Fits(b1.val + -1)
      <4>1. b1.val \in Int /\ Fits(b1.val) /\ b1 # NInf /\ b1 # PInf
        BY <3>1, BoundKinds DEF NInf, PInf
      <4>2. x < b1.val
        BY <2>2, <3>1, <4>1 DEF Below
      <4> QED
        BY <4>1, <4>2, MaxIntAssumption DEF Fits, MinInt
    <3> QED
      BY <3>1 DEF CanClose
  <2> QED
    BY <1>2, <2>2, <2>3 DEF Lower
<1> QED
  BY <1>1, <1>2

\* intersect_interval, by which a branch condition and __assume_range refine the data,
\* keeps every machine integer that both ranges cover: such an integer also shows that the
\* result is not Bottom, which would declare the code behind the branch dead.
THEOREM IntersectCovers ==
  ASSUME NEW a \in Ranges, NEW b \in Ranges, NEW x \in Int, Fits(x),
         Covers(a, x), Covers(b, x)
  PROVE  intersect_interval(a, b) \in Ranges /\ Covers(intersect_interval(a, b), x)
<1> DEFINE l == Upper(a.lb, a.li, b.lb, b.li, a.li /\ b.li)
           u == Lower(a.ub, a.ui, b.ub, b.ui, a.ui /\ b.ui)
<1>1. /\ Above(a.lb, a.li, x) /\ Above(b.lb, b.li, x)
      /\ Below(a.ub, a.ui, x) /\ Below(b.ub, b.ui, x)
  BY CoversDef
<1>2. l[1] \in Bounds /\ l[2] \in BOOLEAN /\ Above(l[1], l[2], x) /\ CanClose(l[1], l[2], 1)
  <2>1. a.lb \in Bounds /\ a.li \in BOOLEAN /\ IsClosed(a.lb, a.li)
    BY RangeFields DEF IsClosed
  <2>2. b.lb \in Bounds /\ b.li \in BOOLEAN /\ IsClosed(b.lb, b.li)
    BY RangeFields DEF IsClosed
  <2> QED
    BY <1>1, <2>1, <2>2, UpperAbove
<1>3. u[1] \in Bounds /\ u[2] \in BOOLEAN /\ Below(u[1], u[2], x) /\ CanClose(u[1], u[2], -1)
  <2>1. a.ub \in Bounds /\ a.ui \in BOOLEAN /\ IsClosed(a.ub, a.ui)
    BY RangeFields DEF IsClosed
  <2>2. b.ub \in Bounds /\ b.ui \in BOOLEAN /\ IsClosed(b.ub, b.ui)
    BY RangeFields DEF IsClosed
  <2> QED
    BY <1>1, <2>1, <2>2, LowerBelow
<1>4. intersect_interval(a, b) = IF less_bound(u[1], l[1]) THEN Bottom ELSE mk_range(l[1], l[2], u[1], u[2])
  BY RangeFields DEF intersect_interval, Between
<1> HIDE DEF l, u
<1>5. ~less_bound(u[1], l[1])
  BY <1>2, <1>3, BoundKinds DEF less_bound, lequal_bound, Above, Below, IsFinite, PInf, NInf
<1> QED
  BY <1>2, <1>3, <1>4, <1>5, MkRange

\* lequal_range, by which the engine decides that the data of a block no longer grow, is
\* sound: the larger range covers what the smaller one does.
THEOREM LequalCovers ==
  ASSUME NEW a \in Ranges, NEW b \in Ranges, NEW x \in Int,
         lequal_range(a, b), Covers(a, x)
  PROVE  Covers(b, x)
<1>1. Above(a.lb, a.li, x) /\ Below(a.ub, a.ui, x)
  BY CoversDef
<1>2. Above(b.lb, b.li, x)
  BY <1>1, BoundMoves, RangeFields DEF lequal_range
<1>3. Below(b.ub, b.ui, x)
  BY <1>1, BoundMoves, RangeFields DEF lequal_range
<1> QED
  BY <1>2, <1>3, CoversDef
------------------------------------------------------------------------------
(* Every operation returns an interval, Undefined apart *)

LEMMA WrapFits ==
  ASSUME NEW n \in Int
  PROVE  Wrap(n) \in Int /\ Fits(Wrap(n))
<1> USE MaxIntAssumption
<1>1. CASE Fits(n)
  BY <1>1 DEF Wrap
<1>2. CASE ~Fits(n)
  <2> DEFINE m == n - MinInt
             k == 2 * (MaxInt + 1)
  <2>1. m \in Int /\ k \in Nat \ {0}
    BY DEF MinInt
  <2>2. m % k \in 0 .. (k - 1)
    <3> HIDE DEF m, k
    <3> QED
      BY <2>1
  <2>3. Wrap(n) = (m % k) + MinInt
    BY <1>2 DEF Wrap
  <2> HIDE DEF m
  <2> QED
    BY <2>2, <2>3 DEF Fits, MinInt
<1> QED
  BY <1>1, <1>2

LEMMA FiniteBounds ==
  ASSUME NEW n \in Int
  PROVE  /\ Int64(n) \in Bounds /\ EInt(n) \in Bounds
         /\ Int64(n).kind = "Int64" /\ EInt(n).kind = "EInt" /\ EInt(n).val = n
         /\ Fits(n) => Int64(n).val = n
<1>1. Wrap(n) \in Int /\ Fits(Wrap(n)) /\ (Fits(n) => Wrap(n) = n)
  BY WrapFits DEF Wrap
<1> QED
  BY <1>1 DEF Bounds, Int64, EInt

\* The bounds, and the exception.
Results == Bounds \union {Undefined}

LEMMA RangeRecord ==
  ASSUME NEW l \in Bounds, NEW i \in BOOLEAN, NEW u \in Bounds, NEW j \in BOOLEAN,
         l.kind = "Int64" => i, u.kind = "Int64" => j
  PROVE  [kind |-> "Range", lb |-> l, li |-> i, ub |-> u, ui |-> j] \in Ranges
BY DEF Ranges

LEMMA MkRangeType ==
  ASSUME NEW lb \in Results, NEW ub \in Results, NEW li \in BOOLEAN, NEW ui \in BOOLEAN
  PROVE  LET r == mk_range(lb, li, ub, ui)
         IN  (r \in Ranges /\ lb \in Bounds /\ ub \in Bounds) \/ IsUndefined(r)
<1> DEFINE r == mk_range(lb, li, ub, ui)
<1>1. /\ r.lb = IF lb.kind = "Int64" /\ ~li THEN Int64(lb.val + 1) ELSE lb
      /\ r.ub = IF ub.kind = "Int64" /\ ~ui THEN Int64(ub.val - 1) ELSE ub
      /\ r # Bottom
  BY DEF mk_range, Bottom
<1>2. CASE lb = Undefined \/ ub = Undefined
  BY <1>1, <1>2 DEF IsUndefined, Undefined
<1>3. CASE lb \in Bounds /\ ub \in Bounds
  <2>1. r.lb \in Bounds /\ (r.lb.kind = "Int64" => li \/ lb.kind = "Int64")
    <3>1. CASE lb.kind = "Int64" /\ ~li
      <4>1. lb.val + 1 \in Int
        BY <1>3, BoundKinds
      <4> QED
        BY <1>1, <3>1, <4>1, FiniteBounds
    <3>2. CASE ~(lb.kind = "Int64" /\ ~li)
      BY <1>1, <1>3, <3>2
    <3> QED
      BY <3>1, <3>2
  <2>2. r.ub \in Bounds /\ (r.ub.kind = "Int64" => ui \/ ub.kind = "Int64")
    <3>1. CASE ub.kind = "Int64" /\ ~ui
      <4>1. ub.val - 1 \in Int
        BY <1>3, BoundKinds
      <4> QED
        BY <1>1, <3>1, <4>1, FiniteBounds
    <3>2. CASE ~(ub.kind = "Int64" /\ ~ui)
      BY <1>1, <1>3, <3>2
    <3> QED
      BY <3>1, <3>2
  <2>3. r = [kind |-> "Range", lb |-> r.lb, li |-> li \/ lb.kind = "Int64",
             ub |-> r.ub, ui |-> ui \/ ub.kind = "Int64"]
    BY DEF mk_range
  <2>4. (li \/ lb.kind = "Int64") \in BOOLEAN /\ (ui \/ ub.kind = "Int64") \in BOOLEAN
    OBVIOUS
  <2>5. r \in Ranges
    <3> HIDE DEF r
    <3> QED
      BY <2>1, <2>2, <2>3, <2>4, RangeRecord
  <2> QED
    BY <1>3, <2>5
<1> QED
  BY <1>2, <1>3 DEF Results

LEMMA ResultType ==
  ASSUME NEW a, NEW b, NEW n \in Int
  PROVE  /\ Result(a, b, n) \in Bounds /\ IsFinite(Result(a, b, n))
         /\ (a.kind = "Int64" /\ b.kind = "Int64" => Fits(n)) => Result(a, b, n).val = n
BY FiniteBounds DEF Result, IsFinite

\* A bound that is not an infinity is an integer.
LEMMA NotInfinite ==
  ASSUME NEW b \in Bounds
  PROVE  /\ IsFinite(b) <=> b # PInf /\ b # NInf
         /\ PInf \in Bounds /\ NInf \in Bounds /\ PInf # NInf
         /\ ~IsFinite(PInf) /\ ~IsFinite(NInf)
         /\ Undefined # b
BY DEF Bounds, IsFinite, PInf, NInf, Undefined

LEMMA QuotientType ==
  ASSUME NEW x \in Int, NEW y \in Int, y # 0
  PROVE  Quotient(x, y) \in Int
<1>1. Abs(x) \in Nat /\ Abs(y) \in Nat \ {0}
  BY DEF Abs
<1>2. Abs(x) \div Abs(y) \in Int
  BY <1>1
<1> QED
  BY <1>2 DEF Quotient

LEMMA BoundResults ==
  ASSUME NEW a \in Bounds, NEW b \in Bounds
  PROVE  /\ add_bound(a, b) \in Results
         /\ neg_bound(a) \in Bounds
         /\ sub_bound(a, b) \in Results
         /\ mult_bound(a, b) \in Results
         /\ udiv_bound(a, b) \in Results
         /\ sdiv_bound(a, b) \in Results
<1>1. a.val \in Int /\ b.val \in Int
  BY BoundKinds
<1>2. ASSUME NEW c \in Bounds PROVE add_bound(a, c) \in Results
  <2>1. c.val \in Int
    BY BoundKinds
  <2>2. Result(a, c, a.val + c.val) \in Bounds
    BY <1>1, <2>1, ResultType
  <2> QED
    BY <2>2, NotInfinite DEF add_bound, Results
<1>3. ASSUME NEW c \in Bounds PROVE neg_bound(c) \in Bounds
  <2>1. c.val \in Int
    BY BoundKinds
  <2>2. Result(c, c, -c.val) \in Bounds
    BY <2>1, ResultType
  <2> QED
    BY <2>2, NotInfinite DEF neg_bound
<1>4. mult_bound(a, b) \in Results
  <2>1. Result(a, b, a.val * b.val) \in Bounds
    BY <1>1, ResultType
  <2> QED
    BY <2>1, NotInfinite DEF mult_bound, Results, Inf
<1>5. Int64(0) \in Bounds
  BY FiniteBounds
<1>6. b.val # 0 => Result(a, b, Quotient(a.val, b.val)) \in Bounds
  BY <1>1, ResultType, QuotientType
<1>7. udiv_bound(a, b) \in Results
  BY <1>5, <1>6, NotInfinite DEF udiv_bound, Results
<1>8. sdiv_bound(a, b) \in Results
  BY <1>5, <1>6, NotInfinite DEF sdiv_bound, Results, Inf
<1> QED
  BY <1>2, <1>3, <1>4, <1>7, <1>8 DEF sub_bound

\* Bounds are compared in a total order.
LEMMA LessOrder ==
  ASSUME NEW a \in Bounds, NEW b \in Bounds, NEW c \in Bounds
  PROVE  /\ less_bound(a, b) => ~less_bound(b, a)
         /\ less_bound(a, c) => less_bound(a, b) \/ less_bound(b, c)
         /\ lequal_bound(a, b) /\ lequal_bound(b, c) => lequal_bound(a, c)
<1>1. /\ a.val \in Int /\ b.val \in Int /\ c.val \in Int
      /\ a.kind \in {"PInf", "NInf", "Int64", "EInt"}
      /\ b.kind \in {"PInf", "NInf", "Int64", "EInt"}
      /\ c.kind \in {"PInf", "NInf", "Int64", "EInt"}
  BY BoundKinds
<1>2. /\ (a = PInf <=> a.kind = "PInf") /\ (a = NInf <=> a.kind = "NInf")
      /\ (b = PInf <=> b.kind = "PInf") /\ (b = NInf <=> b.kind = "NInf")
      /\ (c = PInf <=> c.kind = "PInf") /\ (c = NInf <=> c.kind = "NInf")
  BY BoundKinds
<1>3. lequal_bound(a, b) /\ lequal_bound(b, c) => lequal_bound(a, c)
  BY <1>1, <1>2 DEF lequal_bound, IsFinite
<1>4. lequal_bound(c, b) /\ lequal_bound(b, a) => lequal_bound(c, a)
  BY <1>1, <1>2 DEF lequal_bound, IsFinite
<1> QED
  BY <1>3, <1>4, BoundOrder DEF less_bound

\* Of finitely many elements in an order there is a last least one.
IsLastLeast(q, lt, m, i) ==
  \A j \in 1 .. m : <<q[i], q[j]>> \in lt \/ (j <= i /\ <<q[j], q[i]>> \notin lt)

HasLastLeast(q, lt, m) == \E i \in 1 .. m : IsLastLeast(q, lt, m, i)

LEMMA LastLeastIndex ==
  ASSUME NEW S, NEW lt,
         \A a, b, c \in S : /\ <<a, b>> \in lt => <<b, a>> \notin lt
                            /\ <<a, c>> \in lt => <<a, b>> \in lt \/ <<b, c>> \in lt,
         NEW n \in Nat \ {0}, NEW q \in [1 .. n -> S]
  PROVE  HasLastLeast(q, lt, n)
<1> DEFINE P == {m \in Nat : m \in 1 .. n => HasLastLeast(q, lt, m)}
<1>1. 0 \in P
  OBVIOUS
<1>2. ASSUME NEW m \in Nat, m \in P PROVE m + 1 \in P
  <2> SUFFICES ASSUME m + 1 \in 1 .. n PROVE HasLastLeast(q, lt, m + 1)
    OBVIOUS
  <2>1. CASE m = 0
    <3>1. q[1] \in S /\ <<q[1], q[1]>> \notin lt
      OBVIOUS
    <3>2. \A j \in 1 .. m + 1 : j = 1
      BY <2>1
    <3>3. IsLastLeast(q, lt, m + 1, 1)
      BY <3>1, <3>2 DEF IsLastLeast
    <3> QED
      BY <2>1, <3>3 DEF HasLastLeast
  <2>2. CASE m # 0
    <3>1. PICK i \in 1 .. m : IsLastLeast(q, lt, m, i)
      BY <1>2, <2>2 DEF HasLastLeast
    <3>2. i \in 1 .. n /\ m + 1 \in 1 .. n /\ q[i] \in S /\ q[m + 1] \in S
      BY <3>1
    <3>3. \A j \in 1 .. m + 1 : j \in 1 .. m \/ j = m + 1
      OBVIOUS
    <3>4. CASE <<q[i], q[m + 1]>> \in lt
      <4>1. IsLastLeast(q, lt, m + 1, i)
        BY <3>1, <3>3, <3>4 DEF IsLastLeast
      <4> QED
        BY <3>1, <4>1 DEF HasLastLeast
    <3>5. CASE <<q[i], q[m + 1]>> \notin lt
      <4>1. ASSUME NEW j \in 1 .. m PROVE <<q[j], q[m + 1]>> \notin lt
        <5>1. q[j] \in S
          BY <3>2
        <5>2. <<q[i], q[j]>> \in lt \/ <<q[j], q[i]>> \notin lt
          BY <3>1 DEF IsLastLeast
        <5> QED
          BY <3>2, <3>5, <5>1, <5>2
      <4>2. <<q[m + 1], q[m + 1]>> \notin lt
        BY <3>2
      <4>3. \A j \in 1 .. m + 1 : j <= m + 1
        OBVIOUS
      <4>4. IsLastLeast(q, lt, m + 1, m + 1)
        BY <3>3, <4>1, <4>2, <4>3 DEF IsLastLeast
      <4> QED
        BY <4>4 DEF HasLastLeast
    <3> QED
      BY <3>4, <3>5
  <2> QED
    BY <2>1, <2>2
<1>3. Nat \subseteq P
  <2> HIDE DEF P
  <2> QED
    BY <1>1, <1>2, SetInduction
<1>4. n \in P
  BY <1>3
<1> QED
  BY <1>4

\* LastLeast finds the least and the greatest of several bounds.
LEMMA LastLeastBound ==
  ASSUME NEW n \in Nat \ {0}, NEW q \in [1 .. n -> Bounds]
  PROVE  LET more_bound(x, y) == less_bound(y, x)
             l == LastLeast(q, less_bound)
             u == LastLeast(q, more_bound)
         IN  /\ l \in Bounds /\ u \in Bounds
             /\ \A j \in 1 .. n : lequal_bound(l, q[j]) /\ lequal_bound(q[j], u)
<1> DEFINE lt == {p \in Bounds \X Bounds : less_bound(p[1], p[2])}
           gt == {p \in Bounds \X Bounds : less_bound(p[2], p[1])}
           L(i) == \A j \in DOMAIN q : less_bound(q[i], q[j]) \/ (j <= i /\ ~less_bound(q[j], q[i]))
           U(i) == \A j \in DOMAIN q : less_bound(q[j], q[i]) \/ (j <= i /\ ~less_bound(q[i], q[j]))
<1>1. \A a, b \in Bounds : /\ <<a, b>> \in lt <=> less_bound(a, b)
                           /\ <<a, b>> \in gt <=> less_bound(b, a)
  OBVIOUS
<1>2. DOMAIN q = 1 .. n /\ \A i \in 1 .. n : q[i] \in Bounds
  OBVIOUS
<1> HIDE DEF lt, gt
<1>3. \E i \in DOMAIN q : L(i)
  <2>1. \A a, b, c \in Bounds : /\ <<a, b>> \in lt => <<b, a>> \notin lt
                                /\ <<a, c>> \in lt => <<a, b>> \in lt \/ <<b, c>> \in lt
    BY <1>1, LessOrder
  <2>2. HasLastLeast(q, lt, n)
    BY <2>1, LastLeastIndex
  <2>3. PICK i \in 1 .. n : IsLastLeast(q, lt, n, i)
    BY <2>2 DEF HasLastLeast
  <2>4. L(i)
    BY <1>1, <1>2, <2>3 DEF IsLastLeast
  <2> QED
    BY <1>2, <2>4
<1>4. \E i \in DOMAIN q : U(i)
  <2>1. \A a, b, c \in Bounds : /\ <<a, b>> \in gt => <<b, a>> \notin gt
                                /\ <<a, c>> \in gt => <<a, b>> \in gt \/ <<b, c>> \in gt
    BY <1>1, LessOrder
  <2>2. HasLastLeast(q, gt, n)
    BY <2>1, LastLeastIndex
  <2>3. PICK i \in 1 .. n : IsLastLeast(q, gt, n, i)
    BY <2>2 DEF HasLastLeast
  <2>4. U(i)
    BY <1>1, <1>2, <2>3 DEF IsLastLeast
  <2> QED
    BY <1>2, <2>4
<1> DEFINE i0 == CHOOSE i \in DOMAIN q : L(i)
           i1 == CHOOSE i \in DOMAIN q : U(i)
           more_bound(x, y) == less_bound(y, x)
<1>5. LastLeast(q, less_bound) = q[i0] /\ LastLeast(q, more_bound) = q[i1]
  BY DEF LastLeast
<1>6. i0 \in DOMAIN q /\ L(i0)
  BY <1>3
<1>7. i1 \in DOMAIN q /\ U(i1)
  BY <1>4
<1> HIDE DEF i0, i1
<1>8. ASSUME NEW j \in 1 .. n PROVE lequal_bound(q[i0], q[j])
  BY <1>2, <1>6, LessOrder DEF less_bound
<1>9. ASSUME NEW j \in 1 .. n PROVE lequal_bound(q[j], q[i1])
  BY <1>2, <1>7, LessOrder DEF less_bound
<1> QED
  BY <1>2, <1>5, <1>6, <1>7, <1>8, <1>9

LEMMA SmallInts == Fits(0) /\ Fits(1) /\ Fits(-1)
BY MaxIntAssumption DEF Fits, MinInt

\* The ends of a range as closed bounds.
LEMMA ClosedBounds ==
  ASSUME NEW a \in Ranges
  PROVE  /\ ClosedLb(a) \in Bounds /\ ClosedUb(a) \in Bounds
         /\ ClosedLb(a).kind = "Int64" => ClosedLb(a) = a.lb
         /\ ClosedUb(a).kind = "Int64" => ClosedUb(a) = a.ub
         /\ \A x \in Int : Covers(a, x) => Above(ClosedLb(a), TRUE, x) /\ Below(ClosedUb(a), TRUE, x)
<1>1. /\ a.lb \in Bounds /\ a.ub \in Bounds /\ a.li \in BOOLEAN /\ a.ui \in BOOLEAN
      /\ a.lb.kind = "Int64" => a.li
      /\ a.ub.kind = "Int64" => a.ui
  BY RangeFields
<1>2. /\ Int64(1) \in Bounds /\ Int64(1).kind = "Int64" /\ Int64(1).val = 1
      /\ Int64(-1) \in Bounds /\ Int64(-1).kind = "Int64" /\ Int64(-1).val = -1
  BY FiniteBounds, SmallInts
<1>3. ASSUME NEW b \in Bounds, b.kind # "Int64", NEW n \in {1, -1}
      PROVE  add_bound(b, Int64(n)) = IF IsFinite(b) THEN EInt(b.val + n) ELSE b
  <2>1. Int64(n) # PInf /\ Int64(n) # NInf /\ Int64(n).val = n
    BY <1>2 DEF PInf, NInf
  <2> QED
    BY <1>3, <2>1, NotInfinite DEF add_bound, Result
<1>4. a.lb.val \in Int /\ a.ub.val \in Int
  BY <1>1, BoundKinds
<1>5. /\ ClosedLb(a) \in Bounds
      /\ ClosedLb(a).kind = "Int64" => ClosedLb(a) = a.lb
      /\ \A x \in Int : Above(a.lb, a.li, x) => Above(ClosedLb(a), TRUE, x)
  <2>1. CASE a.li
    BY <1>1, <2>1 DEF ClosedLb, Above
  <2>2. CASE ~a.li /\ ~IsFinite(a.lb)
    <3>1. ClosedLb(a) = a.lb
      BY <1>1, <1>3, <2>2 DEF ClosedLb
    <3> QED
      BY <1>1, <2>2, <3>1 DEF Above
  <2>3. CASE ~a.li /\ IsFinite(a.lb)
    <3>1. ClosedLb(a) = EInt(a.lb.val + 1)
      BY <1>1, <1>3, <2>3 DEF ClosedLb
    <3>2. a.lb # NInf
      BY <1>1, <2>3, NotInfinite
    <3> QED
      BY <1>4, <2>3, <3>1, <3>2, FiniteBounds DEF Above, IsFinite
  <2> QED
    BY <1>1, <2>1, <2>2, <2>3
<1>6. /\ ClosedUb(a) \in Bounds
      /\ ClosedUb(a).kind = "Int64" => ClosedUb(a) = a.ub
      /\ \A x \in Int : Below(a.ub, a.ui, x) => Below(ClosedUb(a), TRUE, x)
  <2>1. CASE a.ui
    BY <1>1, <2>1 DEF ClosedUb, Below
  <2>2. CASE ~a.ui /\ ~IsFinite(a.ub)
    <3>1. ClosedUb(a) = a.ub
      BY <1>1, <1>3, <2>2 DEF ClosedUb
    <3> QED
      BY <1>1, <2>2, <3>1 DEF Below
  <2>3. CASE ~a.ui /\ IsFinite(a.ub)
    <3>1. ClosedUb(a) = EInt(a.ub.val + (-1))
      BY <1>1, <1>3, <2>3 DEF ClosedUb
    <3>2. a.ub # PInf
      BY <1>1, <2>3, NotInfinite
    <3> QED
      BY <1>4, <2>3, <3>1, <3>2, FiniteBounds DEF Below, IsFinite
  <2> QED
    BY <1>1, <2>1, <2>2, <2>3
<1> QED
  BY <1>5, <1>6, CoversDef

IsIn(d, s) == \E k \in 1 .. Len(s) : s[k] = d

LEMMA InConcat ==
  ASSUME NEW S, NEW s \in Seq(S), NEW t \in Seq(S), NEW d
  PROVE  s \o t \in Seq(S) /\ (IsIn(d, s) \/ IsIn(d, t) => IsIn(d, s \o t))
<1>1. s \o t \in Seq(S) /\ Len(s \o t) = Len(s) + Len(t) /\ Len(s) \in Nat /\ Len(t) \in Nat
  OBVIOUS
<1>2. ASSUME NEW k \in 1 .. Len(s) PROVE k \in 1 .. Len(s \o t) /\ (s \o t)[k] = s[k]
  BY <1>1
<1>3. ASSUME NEW k \in 1 .. Len(t)
      PROVE  Len(s) + k \in 1 .. Len(s \o t) /\ (s \o t)[Len(s) + k] = t[k]
  BY <1>1
<1> QED
  BY <1>1, <1>2, <1>3 DEF IsIn

\* The divisors of sdiv_range: the ends that are not zero, and 1 and -1 if they are inside.
LEMMA DivisorsOf ==
  ASSUME NEW b \in Ranges
  PROVE  LET l == ClosedLb(b)
             u == ClosedUb(b)
             ds == Divisors(b)
         IN  /\ ds \in Seq(Bounds)
             /\ ~(IsFinite(l) /\ l.val = 0) => IsIn(l, ds)
             /\ ~(IsFinite(u) /\ u.val = 0) => IsIn(u, ds)
             /\ lequal_bound(l, Int64(1)) /\ lequal_bound(Int64(1), u) => IsIn(Int64(1), ds)
             /\ lequal_bound(l, Int64(-1)) /\ lequal_bound(Int64(-1), u) => IsIn(Int64(-1), ds)
<1> DEFINE l == ClosedLb(b)
           u == ClosedUb(b)
           inside(d) == lequal_bound(l, d) /\ lequal_bound(d, u)
           s1 == IF ~(IsFinite(l) /\ l.val = 0) THEN <<l>> ELSE <<>>
           s2 == IF ~(IsFinite(u) /\ u.val = 0) THEN <<u>> ELSE <<>>
           s3 == IF inside(Int64(1)) THEN <<Int64(1)>> ELSE <<>>
           s4 == IF inside(Int64(-1)) THEN <<Int64(-1)>> ELSE <<>>
<1>1. Divisors(b) = s1 \o s2 \o s3 \o s4
  BY DEF Divisors
<1>2. l \in Bounds /\ u \in Bounds /\ Int64(1) \in Bounds /\ Int64(-1) \in Bounds
  <2>1. Int64(1) \in Bounds
    BY FiniteBounds
  <2>2. Int64(-1) \in Bounds
    BY FiniteBounds
  <2> QED
    BY <2>1, <2>2, ClosedBounds
<1>3. \A d \in Bounds : <<d>> \in Seq(Bounds) /\ Len(<<d>>) = 1 /\ <<d>>[1] = d
  OBVIOUS
<1>4. \A d \in Bounds : IsIn(d, <<d>>)
  BY <1>3 DEF IsIn
<1>5. <<>> \in Seq(Bounds)
  OBVIOUS
<1>6. s1 \in Seq(Bounds) /\ (~(IsFinite(l) /\ l.val = 0) => IsIn(l, s1))
  BY <1>2, <1>3, <1>4, <1>5
<1>7. s2 \in Seq(Bounds) /\ (~(IsFinite(u) /\ u.val = 0) => IsIn(u, s2))
  BY <1>2, <1>3, <1>4, <1>5
<1>8. s3 \in Seq(Bounds) /\ (inside(Int64(1)) => IsIn(Int64(1), s3))
  BY <1>2, <1>3, <1>4, <1>5
<1>9. s4 \in Seq(Bounds) /\ (inside(Int64(-1)) => IsIn(Int64(-1), s4))
  BY <1>2, <1>3, <1>4, <1>5
<1> HIDE DEF s1, s2, s3, s4
<1>10. s1 \o s2 \in Seq(Bounds) /\ \A d : IsIn(d, s1) \/ IsIn(d, s2) => IsIn(d, s1 \o s2)
  BY <1>6, <1>7, InConcat
<1>11. /\ s1 \o s2 \o s3 \in Seq(Bounds)
       /\ \A d : IsIn(d, s1 \o s2) \/ IsIn(d, s3) => IsIn(d, s1 \o s2 \o s3)
  BY <1>8, <1>10, InConcat
<1>12. /\ s1 \o s2 \o s3 \o s4 \in Seq(Bounds)
       /\ \A d : IsIn(d, s1 \o s2 \o s3) \/ IsIn(d, s4) => IsIn(d, s1 \o s2 \o s3 \o s4)
  BY <1>9, <1>11, InConcat
<1> HIDE DEF l, u
<1>13. /\ Divisors(b) \in Seq(Bounds)
       /\ ~(IsFinite(l) /\ l.val = 0) => IsIn(l, Divisors(b))
       /\ ~(IsFinite(u) /\ u.val = 0) => IsIn(u, Divisors(b))
       /\ inside(Int64(1)) => IsIn(Int64(1), Divisors(b))
       /\ inside(Int64(-1)) => IsIn(Int64(-1), Divisors(b))
  BY <1>1, <1>6, <1>7, <1>8, <1>9, <1>10, <1>11, <1>12
<1> QED
  BY <1>13 DEF l, u

\* What sdiv_range returns: nothing, an exception, or a range around the quotients of the
\* ends by the divisors.
SdivQuotients(a, b, l, u) ==
  \A d \in Bounds, e \in {ClosedLb(a), ClosedUb(a)} : IsIn(d, Divisors(b)) =>
    /\ sdiv_bound(e, d) \in Bounds
    /\ lequal_bound(l, sdiv_bound(e, d)) /\ lequal_bound(sdiv_bound(e, d), u)

LEMMA SdivRange ==
  ASSUME NEW a \in Ranges, NEW b \in Ranges
  PROVE  \/ Divisors(b) = <<>> /\ sdiv_range(a, b) = mk_range(PInf, FALSE, NInf, FALSE)
         \/ sdiv_range(a, b) = mk_range(Undefined, TRUE, Undefined, TRUE)
         \/ \E l, u \in Bounds : sdiv_range(a, b) = mk_range(l, TRUE, u, TRUE) /\ SdivQuotients(a, b, l, u)
<1> DEFINE ds == Divisors(b)
           n == 2 * Len(ds)
           q == [i \in 1 .. n |->
                   sdiv_bound(IF i % 2 = 1 THEN ClosedLb(a) ELSE ClosedUb(a), ds[(i + 1) \div 2])]
           more_bound(x, y) == less_bound(y, x)
           l == LastLeast(q, less_bound)
           u == LastLeast(q, more_bound)
           failing == \E i \in DOMAIN q : q[i] = Undefined
<1>1. sdiv_range(a, b) =
        IF ds = <<>> THEN mk_range(PInf, FALSE, NInf, FALSE)
        ELSE IF failing THEN mk_range(Undefined, TRUE, Undefined, TRUE)
        ELSE mk_range(l, TRUE, u, TRUE)
  BY DEF sdiv_range
<1>2. ds \in Seq(Bounds) /\ Len(ds) \in Nat
  BY DivisorsOf
<1>3. ClosedLb(a) \in Bounds /\ ClosedUb(a) \in Bounds
  BY ClosedBounds
<1>4. SUFFICES ASSUME ds # <<>>, ~failing PROVE SdivQuotients(a, b, l, u) /\ l \in Bounds /\ u \in Bounds
  <2> HIDE DEF l, u, failing
  <2> QED
    BY <1>1
<1>5. n \in Nat \ {0}
  <2> HIDE DEF ds
  <2> QED
    BY <1>2, <1>4
<1>6. ASSUME NEW i \in 1 .. n PROVE (i + 1) \div 2 \in 1 .. Len(ds)
  <2> HIDE DEF ds
  <2> QED
    BY <1>2
<1>7. \A i \in 1 .. n : q[i] \in Bounds
  <2> SUFFICES ASSUME NEW i \in 1 .. n PROVE q[i] \in Bounds
    OBVIOUS
  <2> DEFINE d == ds[(i + 1) \div 2]
             e == IF i % 2 = 1 THEN ClosedLb(a) ELSE ClosedUb(a)
  <2>1. d \in Bounds
    BY <1>2, <1>6
  <2>2. e \in Bounds
    BY <1>3
  <2>3. q[i] = sdiv_bound(e, d)
    OBVIOUS
  <2>4. q[i] # Undefined
    BY <1>4
  <2> HIDE DEF d, e, q
  <2> QED
    BY <2>1, <2>2, <2>3, <2>4, BoundResults DEF Results
<1>8. q \in [1 .. n -> Bounds]
  BY <1>7
<1>9. /\ l \in Bounds /\ u \in Bounds
      /\ \A j \in 1 .. n : lequal_bound(l, q[j]) /\ lequal_bound(q[j], u)
  <2> HIDE DEF q, n
  <2> QED
    BY <1>5, <1>8, LastLeastBound
<1>10. ASSUME NEW d \in Bounds, NEW e \in {ClosedLb(a), ClosedUb(a)}, IsIn(d, ds)
       PROVE  \E i \in 1 .. n : q[i] = sdiv_bound(e, d)
  <2>1. PICK k \in 1 .. Len(ds) : ds[k] = d
    BY <1>10 DEF IsIn
  <2>2. k \in Nat /\ 2 * k - 1 \in 1 .. n /\ 2 * k \in 1 .. n
    <3> HIDE DEF ds
    <3> QED
      BY <1>2, <2>1
  <2>3. /\ (2 * k - 1) % 2 = 1 /\ ((2 * k - 1) + 1) \div 2 = k
        /\ (2 * k) % 2 # 1 /\ (2 * k + 1) \div 2 = k
    BY <2>2
  <2>4. q[2 * k - 1] = sdiv_bound(ClosedLb(a), d) /\ q[2 * k] = sdiv_bound(ClosedUb(a), d)
    <3> HIDE DEF n, ds
    <3> QED
      BY <2>1, <2>2, <2>3
  <2> HIDE DEF q, n
  <2> QED
    BY <1>10, <2>2, <2>4
<1> HIDE DEF q, l, u, n
<1>11. SdivQuotients(a, b, l, u)
  BY <1>7, <1>9, <1>10 DEF SdivQuotients
<1> QED
  BY <1>9, <1>11

\* An interval, or the exception.
IsResult(r) == r \in Intervals \/ IsUndefined(r)

LEMMA MkRangeResult ==
  ASSUME NEW lb \in Results, NEW ub \in Results, NEW li \in BOOLEAN, NEW ui \in BOOLEAN
  PROVE  /\ IsResult(mk_range(lb, li, ub, ui))
         /\ lb \in Bounds /\ ub \in Bounds => mk_range(lb, li, ub, ui) \in Ranges
<1>1. lb \in Bounds /\ ub \in Bounds => mk_range(lb, li, ub, ui) \in Ranges
  <2> SUFFICES ASSUME lb \in Bounds, ub \in Bounds PROVE mk_range(lb, li, ub, ui) \in Ranges
    OBVIOUS
  <2> DEFINE r == mk_range(lb, li, ub, ui)
  <2>1. r \in Ranges \/ IsUndefined(r)
    BY MkRangeType
  <2>2. \A b \in Bounds : b # Undefined
    BY NotInfinite
  <2>3. ~IsUndefined(r)
    <3>1. /\ r.lb = IF lb.kind = "Int64" /\ ~li THEN Int64(lb.val + 1) ELSE lb
          /\ r.ub = IF ub.kind = "Int64" /\ ~ui THEN Int64(ub.val - 1) ELSE ub
      BY DEF mk_range
    <3>2. Int64(lb.val + 1) # Undefined /\ Int64(ub.val - 1) # Undefined
      BY DEF Int64, Undefined
    <3> HIDE DEF r
    <3> QED
      BY <2>2, <3>1, <3>2 DEF IsUndefined
  <2> QED
    BY <2>1, <2>3
<1> QED
  BY <1>1, MkRangeType DEF IsResult, Intervals

LEMMA ExtremeType ==
  ASSUME NEW b1 \in Bounds, NEW i1 \in BOOLEAN, NEW b2 \in Bounds, NEW i2 \in BOOLEAN, NEW tie \in BOOLEAN
  PROVE  /\ Lower(b1, i1, b2, i2, tie) \in Bounds \X BOOLEAN
         /\ Upper(b1, i1, b2, i2, tie) \in Bounds \X BOOLEAN
BY DEF Lower, Upper

LEMMA BetweenType ==
  ASSUME NEW l \in Bounds \X BOOLEAN, NEW u \in Bounds \X BOOLEAN
  PROVE  Between(l, u) \in Ranges
<1>1. l[1] \in Bounds /\ l[2] \in BOOLEAN /\ u[1] \in Bounds /\ u[2] \in BOOLEAN
  OBVIOUS
<1> QED
  BY <1>1, MkRangeResult DEF Between, Results

\* The four pairs of bounds of mult_range, and the least and the largest of their products.
Product(x, i, y, j) == <<mult_bound(x, y), i /\ j>>
LowerPair(p, q) == Lower(p[1], p[2], q[1], q[2], p[2] \/ q[2])
UpperPair(p, q) == Upper(p[1], p[2], q[1], q[2], p[2] \/ q[2])

LEMMA MultRange ==
  ASSUME NEW a \in Ranges, NEW b \in Ranges
  PROVE  LET p4 == Product(a.ub, a.ui, b.ub, b.ui)
             p3 == Product(a.ub, a.ui, b.lb, b.li)
             p2 == Product(a.lb, a.li, b.ub, b.ui)
             p1 == Product(a.lb, a.li, b.lb, b.li)
         IN  \/ mult_range(a, b) = mk_range(Undefined, TRUE, Undefined, TRUE)
             \/ /\ {p1, p2, p3, p4} \subseteq Bounds \X BOOLEAN
                /\ mult_range(a, b) = Between(LowerPair(p4, LowerPair(p3, LowerPair(p2, p1))),
                                              UpperPair(p4, UpperPair(p3, UpperPair(p2, p1))))
<1> DEFINE p4 == Product(a.ub, a.ui, b.ub, b.ui)
           p3 == Product(a.ub, a.ui, b.lb, b.li)
           p2 == Product(a.lb, a.li, b.ub, b.ui)
           p1 == Product(a.lb, a.li, b.lb, b.li)
<1>1. mult_range(a, b) =
        IF Undefined \in {p1[1], p2[1], p3[1], p4[1]} THEN mk_range(Undefined, TRUE, Undefined, TRUE)
        ELSE Between(LowerPair(p4, LowerPair(p3, LowerPair(p2, p1))),
                     UpperPair(p4, UpperPair(p3, UpperPair(p2, p1))))
  BY DEF mult_range, Product, LowerPair, UpperPair
<1>2. ASSUME NEW x \in Bounds, NEW y \in Bounds, NEW i \in BOOLEAN, NEW j \in BOOLEAN
      PROVE  Product(x, i, y, j)[1] # Undefined => Product(x, i, y, j) \in Bounds \X BOOLEAN
  BY BoundResults DEF Product, Results
<1>3. /\ a.lb \in Bounds /\ a.ub \in Bounds /\ a.li \in BOOLEAN /\ a.ui \in BOOLEAN
      /\ b.lb \in Bounds /\ b.ub \in Bounds /\ b.li \in BOOLEAN /\ b.ui \in BOOLEAN
  BY RangeFields
<1>4. /\ p1[1] # Undefined => p1 \in Bounds \X BOOLEAN
      /\ p2[1] # Undefined => p2 \in Bounds \X BOOLEAN
      /\ p3[1] # Undefined => p3 \in Bounds \X BOOLEAN
      /\ p4[1] # Undefined => p4 \in Bounds \X BOOLEAN
  BY <1>2, <1>3
<1> HIDE DEF p1, p2, p3, p4
<1>5. CASE Undefined \in {p1[1], p2[1], p3[1], p4[1]}
  BY <1>1, <1>5
<1>6. CASE Undefined \notin {p1[1], p2[1], p3[1], p4[1]}
  <2>1. {p1, p2, p3, p4} \subseteq Bounds \X BOOLEAN
    BY <1>4, <1>6
  <2> QED
    BY <1>1, <1>6, <2>1 DEF p1, p2, p3, p4
<1> QED
  BY <1>5, <1>6

LEMMA PairType ==
  ASSUME NEW p \in Bounds \X BOOLEAN, NEW q \in Bounds \X BOOLEAN
  PROVE  LowerPair(p, q) \in Bounds \X BOOLEAN /\ UpperPair(p, q) \in Bounds \X BOOLEAN
<1>1. /\ p[1] \in Bounds /\ p[2] \in BOOLEAN /\ q[1] \in Bounds /\ q[2] \in BOOLEAN
      /\ (p[2] \/ q[2]) \in BOOLEAN
  OBVIOUS
<1> QED
  BY <1>1, ExtremeType DEF LowerPair, UpperPair

\* Every operation of the analysis returns an interval or raises the exception, whatever
\* its operands, those of a side that the run does not take included.
LEMMA RangeResults ==
  ASSUME NEW a \in Ranges, NEW b \in Ranges
  PROVE  /\ IsResult(add_range(a, b)) /\ IsResult(sub_range(a, b)) /\ IsResult(mult_range(a, b))
         /\ IsResult(udiv_range(a, b)) /\ IsResult(sdiv_range(a, b))
         /\ union_range(a, b) \in Ranges /\ widen_range(a, b) \in Ranges
         /\ intersect_interval(a, b) \in Intervals
<1>1. /\ a.lb \in Bounds /\ a.ub \in Bounds /\ a.li \in BOOLEAN /\ a.ui \in BOOLEAN
      /\ b.lb \in Bounds /\ b.ub \in Bounds /\ b.li \in BOOLEAN /\ b.ui \in BOOLEAN
      /\ a # Bottom /\ b # Bottom
      /\ (a.li /\ b.li) \in BOOLEAN /\ (a.ui /\ b.ui) \in BOOLEAN
      /\ (a.li /\ b.ui) \in BOOLEAN /\ (a.ui /\ b.li) \in BOOLEAN
  BY RangeFields
<1>2. IsResult(add_range(a, b))
  BY <1>1, BoundResults, MkRangeResult DEF add_range
<1>3. IsResult(sub_range(a, b))
  BY <1>1, BoundResults, MkRangeResult DEF sub_range
<1>4. IsResult(udiv_range(a, b))
  BY <1>1, BoundResults, MkRangeResult DEF udiv_range
<1>5. IsResult(mk_range(Undefined, TRUE, Undefined, TRUE))
  BY MkRangeResult DEF Results
<1>6. IsResult(mult_range(a, b))
  <2> DEFINE p4 == Product(a.ub, a.ui, b.ub, b.ui)
             p3 == Product(a.ub, a.ui, b.lb, b.li)
             p2 == Product(a.lb, a.li, b.ub, b.ui)
             p1 == Product(a.lb, a.li, b.lb, b.li)
  <2>1. \/ mult_range(a, b) = mk_range(Undefined, TRUE, Undefined, TRUE)
        \/ /\ {p1, p2, p3, p4} \subseteq Bounds \X BOOLEAN
           /\ mult_range(a, b) = Between(LowerPair(p4, LowerPair(p3, LowerPair(p2, p1))),
                                         UpperPair(p4, UpperPair(p3, UpperPair(p2, p1))))
    BY MultRange
  <2> HIDE DEF p1, p2, p3, p4
  <2>2. CASE {p1, p2, p3, p4} \subseteq Bounds \X BOOLEAN
    <3>1. LowerPair(p2, p1) \in Bounds \X BOOLEAN /\ UpperPair(p2, p1) \in Bounds \X BOOLEAN
      BY <2>2, PairType
    <3>2. /\ LowerPair(p3, LowerPair(p2, p1)) \in Bounds \X BOOLEAN
          /\ UpperPair(p3, UpperPair(p2, p1)) \in Bounds \X BOOLEAN
      BY <2>2, <3>1, PairType
    <3>3. /\ LowerPair(p4, LowerPair(p3, LowerPair(p2, p1))) \in Bounds \X BOOLEAN
          /\ UpperPair(p4, UpperPair(p3, UpperPair(p2, p1))) \in Bounds \X BOOLEAN
      BY <2>2, <3>2, PairType
    <3> QED
      BY <1>5, <2>1, <3>3, BetweenType DEF IsResult, Intervals
  <2> QED
    BY <1>5, <2>1, <2>2
<1>7. IsResult(sdiv_range(a, b))
  <2>1. PInf \in Results /\ NInf \in Results
    BY NotInfinite, <1>1 DEF Results
  <2>2. \A l, u \in Bounds : IsResult(mk_range(l, TRUE, u, TRUE))
    BY MkRangeResult DEF Results
  <2>3. IsResult(mk_range(PInf, FALSE, NInf, FALSE))
    BY <2>1, MkRangeResult
  <2> QED
    BY <1>5, <2>2, <2>3, SdivRange
<1>8. union_range(a, b) \in Ranges
  BY <1>1, ExtremeType, BetweenType DEF union_range
<1>9. widen_range(a, b) \in Ranges
  BY <1>1, NotInfinite, BetweenType DEF widen_range
<1>10. intersect_interval(a, b) \in Intervals
  BY <1>1, ExtremeType, BetweenType DEF intersect_interval, Intervals
<1> QED
  BY <1>2, <1>3, <1>4, <1>6, <1>7, <1>8, <1>9, <1>10

LEMMA IntervalResults ==
  ASSUME NEW a \in Intervals, NEW b \in Intervals, NEW widen \in BOOLEAN
  PROVE  /\ IsResult(add_interval(a, b)) /\ IsResult(sub_interval(a, b))
         /\ IsResult(mult_interval(a, b)) /\ IsResult(udiv_interval(a, b))
         /\ IsResult(sdiv_interval(a, b))
         /\ combine_interval(widen, a, b) \in Intervals
         /\ intersect_interval(a, b) \in Intervals
<1>1. CASE a \in Ranges /\ b \in Ranges
  <2>1. a # Bottom /\ b # Bottom
    BY <1>1, RangeFields
  <2>2. IsResult(Bottom)
    BY DEF IsResult, Intervals
  <2> QED
    BY <1>1, <2>1, <2>2, RangeResults
       DEF add_interval, sub_interval, mult_interval, udiv_interval, sdiv_interval, OnRanges,
           combine_interval, Intervals
<1>2. CASE a = Bottom \/ b = Bottom
  BY <1>2 DEF add_interval, sub_interval, mult_interval, udiv_interval, sdiv_interval, OnRanges,
              combine_interval, intersect_interval, Intervals, IsResult
<1> QED
  BY <1>1, <1>2 DEF Intervals

------------------------------------------------------------------------------
(* Products *)

LEMMA TimesMonotone ==
  ASSUME NEW a \in Int, NEW b \in Int, NEW c \in Int, a <= b
  PROVE  /\ c >= 0 => a * c <= b * c /\ c * a <= c * b
         /\ c <= 0 => b * c <= a * c /\ c * b <= c * a
<1>1. CASE c >= 0
  BY <1>1
<1>2. CASE c <= 0
  BY <1>2
<1> QED
  BY <1>1, <1>2

LEMMA MultBound ==
  ASSUME NEW a \in Bounds, NEW b \in Bounds, mult_bound(a, b) # Undefined,
         a.kind = "Int64" /\ b.kind = "Int64" => Fits(a.val * b.val)
  PROVE  LET m == mult_bound(a, b)
         IN  /\ m \in Bounds
             /\ IsFinite(m) <=> IsFinite(a) /\ IsFinite(b)
             /\ IsFinite(a) /\ IsFinite(b) => m.val = a.val * b.val
             /\ ~IsFinite(a) /\ IsFinite(b) => b.val # 0 /\ m = Inf((b.val > 0) = (a = PInf))
             /\ IsFinite(a) /\ ~IsFinite(b) => a.val # 0 /\ m = Inf((a.val > 0) = (b = PInf))
             /\ ~IsFinite(a) /\ ~IsFinite(b) => a = b /\ m = PInf
<1>1. a.val \in Int /\ b.val \in Int
  BY BoundKinds
<1>2. CASE IsFinite(a) /\ IsFinite(b)
  <2>1. a # PInf /\ a # NInf /\ b # PInf /\ b # NInf
    BY <1>2, NotInfinite
  <2>2. mult_bound(a, b) = Result(a, b, a.val * b.val)
    BY <1>2, <2>1 DEF mult_bound
  <2>3. a.val * b.val \in Int
    BY <1>1
  <2> QED
    BY <1>2, <2>2, <2>3, ResultType
<1>3. CASE ~IsFinite(a) /\ ~IsFinite(b)
  BY <1>3, NotInfinite DEF mult_bound
<1>4. CASE ~IsFinite(a) /\ IsFinite(b)
  BY <1>4, NotInfinite DEF mult_bound, Inf
<1>5. CASE IsFinite(a) /\ ~IsFinite(b)
  BY <1>5, NotInfinite DEF mult_bound, Inf
<1> QED
  BY <1>2, <1>3, <1>4, <1>5

\* The products of two bounds of one operand each are defined and do not wrap around.
ProductsFit(al, au, bl, bu) ==
  \A p \in {al, au}, q \in {bl, bu} :
    /\ mult_bound(p, q) # Undefined
    /\ p.kind = "Int64" /\ q.kind = "Int64" => Fits(p.val * q.val)

IsInside(l, u, x) == Above(l, TRUE, x) /\ Below(u, TRUE, x)

SomeAbove(al, au, bl, bu, z) == \E p \in {al, au}, q \in {bl, bu} : Above(mult_bound(p, q), TRUE, z)
SomeBelow(al, au, bl, bu, z) == \E p \in {al, au}, q \in {bl, bu} : Below(mult_bound(p, q), TRUE, z)

\* One of the four products is below the product of any two integers between the bounds.
LEMMA ProductAbove ==
  ASSUME NEW al \in Bounds, NEW au \in Bounds, NEW bl \in Bounds, NEW bu \in Bounds,
         ProductsFit(al, au, bl, bu), NEW x \in Int, NEW y \in Int, NEW z \in Int,
         z = x * y, IsInside(al, au, x), IsInside(bl, bu, y)
  PROVE  SomeAbove(al, au, bl, bu, z)
<1> SUFFICES \E p \in {al, au}, q \in {bl, bu} : Above(mult_bound(p, q), TRUE, z)
  BY DEF SomeAbove
<1>1. al.val \in Int /\ au.val \in Int /\ bl.val \in Int /\ bu.val \in Int
  BY BoundKinds
<1>2. /\ al = NInf \/ (IsFinite(al) /\ al.val <= x)
      /\ au = PInf \/ (IsFinite(au) /\ x <= au.val)
      /\ bl = NInf \/ (IsFinite(bl) /\ bl.val <= y)
      /\ bu = PInf \/ (IsFinite(bu) /\ y <= bu.val)
  BY <1>1 DEF IsInside, Above, Below
<1>3. \A b \in Bounds, w \in Int : b = NInf \/ (IsFinite(b) /\ b.val <= w) => Above(b, TRUE, w)
  BY BoundKinds DEF Above
<1>4. ~IsFinite(NInf) /\ ~IsFinite(PInf) /\ NInf # PInf
  BY NotInfinite
<1>5. ASSUME NEW p \in {al, au}, NEW q \in {bl, bu}
      PROVE  LET m == mult_bound(p, q)
             IN  /\ m \in Bounds
                 /\ IsFinite(m) <=> IsFinite(p) /\ IsFinite(q)
                 /\ IsFinite(p) /\ IsFinite(q) => m.val = p.val * q.val
                 /\ ~IsFinite(p) /\ IsFinite(q) => q.val # 0 /\ m = Inf((q.val > 0) = (p = PInf))
                 /\ IsFinite(p) /\ ~IsFinite(q) => p.val # 0 /\ m = Inf((p.val > 0) = (q = PInf))
                 /\ ~IsFinite(p) /\ ~IsFinite(q) => p = q /\ m = PInf
  BY MultBound DEF ProductsFit
<1>6. ASSUME NEW p \in {al, au}, IsFinite(p), p.val * y <= z
      PROVE  \E q \in {bl, bu} : Above(mult_bound(p, q), TRUE, z)
  <2>1. p.val \in Int
    BY <1>1
  <2>2. CASE p.val >= 0
    <3>1. CASE bl = NInf
      <4>1. p.val > 0 /\ mult_bound(p, bl) = NInf
        BY <1>4, <1>5, <1>6, <2>1, <2>2, <3>1 DEF Inf
      <4> QED
        BY <4>1 DEF Above
    <3>2. CASE IsFinite(bl) /\ bl.val <= y
      <4>1. p.val * bl.val <= p.val * y
        BY <1>1, <2>1, <2>2, <3>2, TimesMonotone
      <4>2. p.val * bl.val <= z
        BY <1>1, <1>6, <2>1, <4>1
      <4> QED
        BY <1>1, <1>3, <1>5, <1>6, <3>2, <4>2
    <3> QED
      BY <1>2, <3>1, <3>2
  <2>3. CASE p.val < 0
    <3>1. CASE bu = PInf
      <4>1. mult_bound(p, bu) = NInf
        BY <1>4, <1>5, <1>6, <2>1, <2>3, <3>1 DEF Inf
      <4> QED
        BY <4>1 DEF Above
    <3>2. CASE IsFinite(bu) /\ y <= bu.val
      <4>1. p.val * bu.val <= p.val * y
        BY <1>1, <2>1, <2>3, <3>2, TimesMonotone
      <4>2. p.val * bu.val <= z
        BY <1>1, <1>6, <2>1, <4>1
      <4> QED
        BY <1>1, <1>3, <1>5, <1>6, <3>2, <4>2
    <3> QED
      BY <1>2, <3>1, <3>2
  <2>4. p.val >= 0 \/ p.val < 0
    BY <2>1
  <2> QED
    BY <2>2, <2>3, <2>4
<1>7. CASE y >= 0
  <2>1. CASE al = NInf
    <3>1. IsFinite(bu) /\ bu.val > 0
      BY <1>1, <1>2, <1>4, <1>5, <1>7, <2>1
    <3>2. mult_bound(al, bu) = NInf
      BY <1>4, <1>5, <2>1, <3>1 DEF Inf
    <3> QED
      BY <3>2 DEF Above
  <2>2. CASE IsFinite(al) /\ al.val <= x
    <3>1. al.val * y <= z
      BY <1>1, <1>7, <2>2, TimesMonotone
    <3> QED
      BY <1>6, <2>2, <3>1
  <2> QED
    BY <1>2, <2>1, <2>2
<1>8. CASE y < 0
  <2>1. CASE au = PInf
    <3>1. IsFinite(bl) /\ bl.val < 0
      BY <1>1, <1>2, <1>4, <1>5, <1>8, <2>1
    <3>2. mult_bound(au, bl) = NInf
      BY <1>1, <1>4, <1>5, <2>1, <3>1 DEF Inf
    <3> QED
      BY <3>2 DEF Above
  <2>2. CASE IsFinite(au) /\ x <= au.val
    <3>1. au.val * y <= z
      BY <1>1, <1>8, <2>2, TimesMonotone
    <3> QED
      BY <1>6, <2>2, <3>1
  <2> QED
    BY <1>2, <2>1, <2>2
<1>9. y >= 0 \/ y < 0
  OBVIOUS
<1> QED
  BY <1>7, <1>8, <1>9

\* And one of them is above it.
LEMMA ProductBelow ==
  ASSUME NEW al \in Bounds, NEW au \in Bounds, NEW bl \in Bounds, NEW bu \in Bounds,
         ProductsFit(al, au, bl, bu), NEW x \in Int, NEW y \in Int, NEW z \in Int,
         z = x * y, IsInside(al, au, x), IsInside(bl, bu, y)
  PROVE  SomeBelow(al, au, bl, bu, z)
<1> SUFFICES \E p \in {al, au}, q \in {bl, bu} : Below(mult_bound(p, q), TRUE, z)
  BY DEF SomeBelow
<1>1. al.val \in Int /\ au.val \in Int /\ bl.val \in Int /\ bu.val \in Int
  BY BoundKinds
<1>2. /\ al = NInf \/ (IsFinite(al) /\ al.val <= x)
      /\ au = PInf \/ (IsFinite(au) /\ x <= au.val)
      /\ bl = NInf \/ (IsFinite(bl) /\ bl.val <= y)
      /\ bu = PInf \/ (IsFinite(bu) /\ y <= bu.val)
  BY <1>1 DEF IsInside, Above, Below
<1>3. \A b \in Bounds, w \in Int : b = PInf \/ (IsFinite(b) /\ w <= b.val) => Below(b, TRUE, w)
  BY BoundKinds DEF Below
<1>4. ~IsFinite(NInf) /\ ~IsFinite(PInf) /\ NInf # PInf
  BY NotInfinite
<1>5. ASSUME NEW p \in {al, au}, NEW q \in {bl, bu}
      PROVE  LET m == mult_bound(p, q)
             IN  /\ m \in Bounds
                 /\ IsFinite(m) <=> IsFinite(p) /\ IsFinite(q)
                 /\ IsFinite(p) /\ IsFinite(q) => m.val = p.val * q.val
                 /\ ~IsFinite(p) /\ IsFinite(q) => q.val # 0 /\ m = Inf((q.val > 0) = (p = PInf))
                 /\ IsFinite(p) /\ ~IsFinite(q) => p.val # 0 /\ m = Inf((p.val > 0) = (q = PInf))
                 /\ ~IsFinite(p) /\ ~IsFinite(q) => p = q /\ m = PInf
  BY MultBound DEF ProductsFit
<1>6. ASSUME NEW p \in {al, au}, IsFinite(p), z <= p.val * y
      PROVE  \E q \in {bl, bu} : Below(mult_bound(p, q), TRUE, z)
  <2>1. p.val \in Int
    BY <1>1
  <2>2. CASE p.val >= 0
    <3>1. CASE bu = PInf
      <4>1. p.val > 0 /\ mult_bound(p, bu) = PInf
        BY <1>4, <1>5, <1>6, <2>1, <2>2, <3>1 DEF Inf
      <4> QED
        BY <4>1 DEF Below
    <3>2. CASE IsFinite(bu) /\ y <= bu.val
      <4>1. p.val * y <= p.val * bu.val
        BY <1>1, <2>1, <2>2, <3>2, TimesMonotone
      <4>2. z <= p.val * bu.val
        BY <1>1, <1>6, <2>1, <4>1
      <4> QED
        BY <1>1, <1>3, <1>5, <1>6, <3>2, <4>2
    <3> QED
      BY <1>2, <3>1, <3>2
  <2>3. CASE p.val < 0
    <3>1. CASE bl = NInf
      <4>1. mult_bound(p, bl) = PInf
        BY <1>4, <1>5, <1>6, <2>1, <2>3, <3>1 DEF Inf
      <4> QED
        BY <4>1 DEF Below
    <3>2. CASE IsFinite(bl) /\ bl.val <= y
      <4>1. p.val * y <= p.val * bl.val
        BY <1>1, <2>1, <2>3, <3>2, TimesMonotone
      <4>2. z <= p.val * bl.val
        BY <1>1, <1>6, <2>1, <4>1
      <4> QED
        BY <1>1, <1>3, <1>5, <1>6, <3>2, <4>2
    <3> QED
      BY <1>2, <3>1, <3>2
  <2>4. p.val >= 0 \/ p.val < 0
    BY <2>1
  <2> QED
    BY <2>2, <2>3, <2>4
<1>7. CASE y >= 0
  <2>1. CASE au = PInf
    <3>1. bu = PInf \/ (IsFinite(bu) /\ bu.val > 0)
      BY <1>1, <1>2, <1>4, <1>5, <1>7, <2>1
    <3>2. mult_bound(au, bu) = PInf
      BY <1>1, <1>4, <1>5, <2>1, <3>1 DEF Inf
    <3> QED
      BY <3>2 DEF Below
  <2>2. CASE IsFinite(au) /\ x <= au.val
    <3>1. z <= au.val * y
      BY <1>1, <1>7, <2>2, TimesMonotone
    <3> QED
      BY <1>6, <2>2, <3>1
  <2> QED
    BY <1>2, <2>1, <2>2
<1>8. CASE y < 0
  <2>1. CASE al = NInf
    <3>1. bl = NInf \/ (IsFinite(bl) /\ bl.val < 0)
      BY <1>1, <1>2, <1>4, <1>5, <1>8, <2>1
    <3>2. mult_bound(al, bl) = PInf
      BY <1>1, <1>4, <1>5, <2>1, <3>1 DEF Inf
    <3> QED
      BY <3>2 DEF Below
  <2>2. CASE IsFinite(al) /\ al.val <= x
    <3>1. z <= al.val * y
      BY <1>1, <1>8, <2>2, TimesMonotone
    <3> QED
      BY <1>6, <2>2, <3>1
  <2> QED
    BY <1>2, <2>1, <2>2
<1>9. y >= 0 \/ y < 0
  OBVIOUS
<1> QED
  BY <1>7, <1>8, <1>9

\* A bound with its flag that is not open.
NotOpen(p) == p \in Bounds \X BOOLEAN /\ (IsFinite(p[1]) => p[2])

LEMMA PairCovers ==
  ASSUME NEW p, NEW q, NotOpen(p), NotOpen(q), NEW z \in Int
  PROVE  /\ NotOpen(LowerPair(p, q)) /\ NotOpen(UpperPair(p, q))
         /\ Above(p[1], TRUE, z) \/ Above(q[1], TRUE, z) => Above(LowerPair(p, q)[1], TRUE, z)
         /\ Below(p[1], TRUE, z) \/ Below(q[1], TRUE, z) => Below(UpperPair(p, q)[1], TRUE, z)
<1>1. /\ p[1] \in Bounds /\ p[2] \in BOOLEAN /\ q[1] \in Bounds /\ q[2] \in BOOLEAN
      /\ IsFinite(p[1]) => p[2]
      /\ IsFinite(q[1]) => q[2]
  BY DEF NotOpen
<1>2. NotOpen(LowerPair(p, q)) /\ NotOpen(UpperPair(p, q))
  <2>1. LowerPair(p, q) \in Bounds \X BOOLEAN /\ UpperPair(p, q) \in Bounds \X BOOLEAN
    BY PairType DEF NotOpen
  <2>2. IsFinite(LowerPair(p, q)[1]) => LowerPair(p, q)[2]
    BY <1>1 DEF LowerPair, Lower
  <2>3. IsFinite(UpperPair(p, q)[1]) => UpperPair(p, q)[2]
    BY <1>1 DEF UpperPair, Upper
  <2> QED
    BY <2>1, <2>2, <2>3 DEF NotOpen
<1>3. lequal_bound(LowerPair(p, q)[1], p[1]) /\ lequal_bound(LowerPair(p, q)[1], q[1])
  BY <1>1, BoundOrder, LessOrder DEF LowerPair, Lower, less_bound
<1>4. lequal_bound(p[1], UpperPair(p, q)[1]) /\ lequal_bound(q[1], UpperPair(p, q)[1])
  BY <1>1, BoundOrder, LessOrder DEF UpperPair, Upper, less_bound
<1>5. LowerPair(p, q)[1] \in Bounds /\ UpperPair(p, q)[1] \in Bounds
  BY <1>2 DEF NotOpen
<1>6. Above(p[1], TRUE, z) \/ Above(q[1], TRUE, z) => Above(LowerPair(p, q)[1], TRUE, z)
  BY <1>1, <1>3, <1>5, BoundMoves
<1>7. Below(p[1], TRUE, z) \/ Below(q[1], TRUE, z) => Below(UpperPair(p, q)[1], TRUE, z)
  BY <1>1, <1>4, <1>5, BoundMoves
<1> QED
  BY <1>2, <1>6, <1>7

LEMMA UndefinedRange == IsUndefined(mk_range(Undefined, TRUE, Undefined, TRUE))
BY DEF IsUndefined, mk_range, Undefined, Bottom

\* A range between two bounds that are not open covers what is between them.
LEMMA BetweenCovers ==
  ASSUME NEW l, NEW u, NotOpen(l), NotOpen(u), NEW z \in Int,
         Above(l[1], TRUE, z), Below(u[1], TRUE, z)
  PROVE  Between(l, u) \in Ranges /\ Covers(Between(l, u), z)
<1>1. /\ l[1] \in Bounds /\ l[2] \in BOOLEAN /\ u[1] \in Bounds /\ u[2] \in BOOLEAN
      /\ IsFinite(l[1]) => l[2]
      /\ IsFinite(u[1]) => u[2]
  BY DEF NotOpen
<1>2. CanClose(l[1], l[2], 1) /\ CanClose(u[1], u[2], -1)
  BY <1>1 DEF CanClose, IsFinite
<1>3. Above(l[1], l[2], z) /\ Below(u[1], u[2], z)
  BY <1>1 DEF Above, Below
<1> QED
  BY <1>1, <1>2, <1>3, MkRange DEF Between

\* mult_range covers the product of any two integers of its operands, if these have no open
\* ends and the products of the machine integers among their bounds do not wrap around: an
\* infinity times zero, where the code raises an exception, apart.
THEOREM MultCovers ==
  ASSUME NEW a \in Ranges, NEW b \in Ranges, NEW x \in Int, NEW y \in Int,
         ClosedEnds(a), ClosedEnds(b), NoWrap(Times, a, b), ~IsUndefined(mult_range(a, b)),
         Covers(a, x), Covers(b, y)
  PROVE  mult_range(a, b) \in Ranges /\ Covers(mult_range(a, b), x * y)
<1> DEFINE p4 == Product(a.ub, a.ui, b.ub, b.ui)
           p3 == Product(a.ub, a.ui, b.lb, b.li)
           p2 == Product(a.lb, a.li, b.ub, b.ui)
           p1 == Product(a.lb, a.li, b.lb, b.li)
           l == LowerPair(p4, LowerPair(p3, LowerPair(p2, p1)))
           u == UpperPair(p4, UpperPair(p3, UpperPair(p2, p1)))
<1>1. /\ {p1, p2, p3, p4} \subseteq Bounds \X BOOLEAN
      /\ mult_range(a, b) = Between(l, u)
  BY MultRange, UndefinedRange
<1>2. /\ a.lb \in Bounds /\ a.ub \in Bounds /\ a.li \in BOOLEAN /\ a.ui \in BOOLEAN
      /\ b.lb \in Bounds /\ b.ub \in Bounds /\ b.li \in BOOLEAN /\ b.ui \in BOOLEAN
      /\ a # Bottom /\ b # Bottom
  BY RangeFields
<1>3. /\ IsFinite(a.lb) => a.li
      /\ IsFinite(a.ub) => a.ui
      /\ IsFinite(b.lb) => b.li
      /\ IsFinite(b.ub) => b.ui
  BY <1>2 DEF ClosedEnds
<1>4. /\ p1[1] = mult_bound(a.lb, b.lb) /\ p2[1] = mult_bound(a.lb, b.ub)
      /\ p3[1] = mult_bound(a.ub, b.lb) /\ p4[1] = mult_bound(a.ub, b.ub)
      /\ p1[2] = (a.li /\ b.li) /\ p2[2] = (a.li /\ b.ui)
      /\ p3[2] = (a.ui /\ b.li) /\ p4[2] = (a.ui /\ b.ui)
  BY DEF Product
<1> HIDE DEF p1, p2, p3, p4
<1>5. p1[1] \in Bounds /\ p2[1] \in Bounds /\ p3[1] \in Bounds /\ p4[1] \in Bounds
  BY <1>1
<1>6. ProductsFit(a.lb, a.ub, b.lb, b.ub)
  <2>1. \A p \in {a.lb, a.ub}, q \in {b.lb, b.ub} : mult_bound(p, q) # Undefined
    BY <1>4, <1>5, NotInfinite
  <2> QED
    BY <2>1 DEF ProductsFit, NoWrap, Times
<1>7. \A p \in {a.lb, a.ub}, q \in {b.lb, b.ub} :
        IsFinite(mult_bound(p, q)) => IsFinite(p) /\ IsFinite(q)
  BY <1>2, <1>6, MultBound DEF ProductsFit
<1>8. NotOpen(p1) /\ NotOpen(p2) /\ NotOpen(p3) /\ NotOpen(p4)
  BY <1>1, <1>3, <1>4, <1>7 DEF NotOpen
<1> DEFINE z == x * y
<1>9. /\ \E p \in {a.lb, a.ub}, q \in {b.lb, b.ub} : Above(mult_bound(p, q), TRUE, z)
      /\ \E p \in {a.lb, a.ub}, q \in {b.lb, b.ub} : Below(mult_bound(p, q), TRUE, z)
  <2>1. IsInside(a.lb, a.ub, x) /\ IsInside(b.lb, b.ub, y)
    BY <1>2, CoversDef DEF IsInside, Above, Below
  <2>2. z \in Int /\ z = x * y
    OBVIOUS
  <2> HIDE DEF z
  <2>3. SomeAbove(a.lb, a.ub, b.lb, b.ub, z)
    BY <1>2, <1>6, <2>1, <2>2, ProductAbove
  <2>4. SomeBelow(a.lb, a.ub, b.lb, b.ub, z)
    BY <1>2, <1>6, <2>1, <2>2, ProductBelow
  <2> QED
    BY <2>3, <2>4 DEF SomeAbove, SomeBelow
<1>10. x * y \in Int
  OBVIOUS
<1> DEFINE l21 == LowerPair(p2, p1)
           u21 == UpperPair(p2, p1)
           l321 == LowerPair(p3, l21)
           u321 == UpperPair(p3, u21)
<1>11. \/ Above(p1[1], TRUE, z) \/ Above(p2[1], TRUE, z)
       \/ Above(p3[1], TRUE, z) \/ Above(p4[1], TRUE, z)
  <2>1. PICK p \in {a.lb, a.ub}, q \in {b.lb, b.ub} : Above(mult_bound(p, q), TRUE, z)
    BY <1>9
  <2> HIDE DEF z
  <2>2. mult_bound(p, q) \in {p1[1], p2[1], p3[1], p4[1]}
    BY <1>4
  <2> QED
    BY <2>1, <2>2
<1>12. \/ Below(p1[1], TRUE, z) \/ Below(p2[1], TRUE, z)
       \/ Below(p3[1], TRUE, z) \/ Below(p4[1], TRUE, z)
  <2>1. PICK p \in {a.lb, a.ub}, q \in {b.lb, b.ub} : Below(mult_bound(p, q), TRUE, z)
    BY <1>9
  <2> HIDE DEF z
  <2>2. mult_bound(p, q) \in {p1[1], p2[1], p3[1], p4[1]}
    BY <1>4
  <2> QED
    BY <2>1, <2>2
<1>13. z \in Int
  BY <1>10
<1> HIDE DEF z
<1>14. /\ NotOpen(l21) /\ NotOpen(u21)
       /\ Above(p1[1], TRUE, z) \/ Above(p2[1], TRUE, z) => Above(l21[1], TRUE, z)
       /\ Below(p1[1], TRUE, z) \/ Below(p2[1], TRUE, z) => Below(u21[1], TRUE, z)
  BY <1>8, <1>13, PairCovers
<1> HIDE DEF l21, u21
<1>15. Above(p3[1], TRUE, z) \/ Above(l21[1], TRUE, z) => Above(l321[1], TRUE, z)
  BY <1>8, <1>13, <1>14, PairCovers
<1>16. Below(p3[1], TRUE, z) \/ Below(u21[1], TRUE, z) => Below(u321[1], TRUE, z)
  BY <1>8, <1>13, <1>14, PairCovers
<1>17. NotOpen(l321) /\ NotOpen(u321)
  <2>1. NotOpen(l321)
    BY <1>8, <1>13, <1>14, PairCovers
  <2>2. NotOpen(u321)
    BY <1>8, <1>13, <1>14, PairCovers
  <2> QED
    BY <2>1, <2>2
<1>18. /\ l = LowerPair(p4, l321) /\ u = UpperPair(p4, u321)
  BY DEF l21, u21
<1>19. Above(l321[1], TRUE, z) \/ Above(p4[1], TRUE, z)
  BY <1>11, <1>14, <1>15
<1>20. Below(u321[1], TRUE, z) \/ Below(p4[1], TRUE, z)
  BY <1>12, <1>14, <1>16
<1> HIDE DEF l, u, l321, u321
<1>21. NotOpen(l) /\ Above(l[1], TRUE, z)
  BY <1>8, <1>13, <1>17, <1>18, <1>19, PairCovers
<1>22. NotOpen(u) /\ Below(u[1], TRUE, z)
  BY <1>8, <1>13, <1>17, <1>18, <1>20, PairCovers
<1>23. Between(l, u) \in Ranges /\ Covers(Between(l, u), z)
  BY <1>13, <1>21, <1>22, BetweenCovers
<1> QED
  BY <1>1, <1>23 DEF z

------------------------------------------------------------------------------
(* Quotients *)

LEMMA DivBetween ==
  ASSUME NEW x \in Nat, NEW y \in Nat \ {0}
  PROVE  x \div y \in Nat /\ (x \div y) * y <= x /\ x < ((x \div y) + 1) * y
<1>1. x \div y \in Int /\ x % y \in Int /\ x = y * (x \div y) + (x % y) /\ 0 <= x % y /\ x % y < y
  OBVIOUS
<1> QED
  BY <1>1

LEMMA DivMonotone ==
  ASSUME NEW x1 \in Nat, NEW x2 \in Nat, NEW y1 \in Nat \ {0}, NEW y2 \in Nat \ {0},
         x1 <= x2, y2 <= y1
  PROVE  x1 \div y1 <= x2 \div y2
<1> DEFINE d1 == x1 \div y1
           d2 == x2 \div y2
<1>1. d1 \in Nat /\ d1 * y1 <= x1
  BY DivBetween
<1>2. d2 \in Nat /\ x2 < (d2 + 1) * y2
  BY DivBetween
<1> HIDE DEF d1, d2
<1>3. SUFFICES ASSUME d2 + 1 <= d1 PROVE FALSE
  BY <1>1, <1>2 DEF d1, d2
<1>4. (d2 + 1) * y2 <= d1 * y2
  BY <1>1, <1>2, <1>3, TimesMonotone
<1>5. d1 * y2 <= d1 * y1
  BY <1>1, TimesMonotone
<1> QED
  BY <1>1, <1>2, <1>4, <1>5

LEMMA DivSmaller ==
  ASSUME NEW x \in Nat, NEW y \in Nat \ {0}
  PROVE  x \div y \in Nat /\ x \div y <= x
<1>1. x \div 1 = x
  OBVIOUS
<1>2. x \div y <= x \div 1
  BY DivMonotone
<1> QED
  BY <1>1, <1>2, DivBetween

LEMMA QuotientSign ==
  ASSUME NEW x \in Int, NEW y \in Int, y > 0
  PROVE  /\ x >= 0 => Quotient(x, y) = x \div y
         /\ x <= 0 => Quotient(x, y) = -((-x) \div y)
         /\ Quotient(x, -y) = -Quotient(x, y)
         /\ Quotient(x, y) \in Int
         /\ x >= 0 => 0 <= Quotient(x, y) /\ Quotient(x, y) <= x
         /\ x <= 0 => Quotient(x, y) <= 0 /\ x <= Quotient(x, y)
<1>1. y \in Nat \ {0} /\ -y < 0 /\ Abs(y) = y /\ Abs(-y) = y
  BY DEF Abs
<1>2. CASE x > 0
  <2>1. x \in Nat /\ Abs(x) = x /\ ~(x < 0)
    BY <1>2 DEF Abs
  <2>2. x \div y \in Nat /\ x \div y <= x
    BY <1>1, <2>1, DivSmaller
  <2>3. Quotient(x, y) = x \div y /\ Quotient(x, -y) = -(x \div y)
    BY <1>1, <2>1 DEF Quotient
  <2> QED
    BY <1>2, <2>2, <2>3
<1>3. CASE x = 0
  <2>1. 0 \div y = 0
    BY <1>1, DivSmaller
  <2>2. Quotient(x, y) = 0 /\ Quotient(x, -y) = 0
    BY <1>1, <1>3, <2>1 DEF Quotient, Abs
  <2> QED
    BY <1>3, <2>1, <2>2
<1>4. CASE x < 0
  <2>1. -x \in Nat /\ Abs(x) = -x
    BY <1>4 DEF Abs
  <2>2. (-x) \div y \in Nat /\ (-x) \div y <= -x
    BY <1>1, <2>1, DivSmaller
  <2>3. Quotient(x, y) = -((-x) \div y)
    BY <1>1, <1>4, <2>1 DEF Quotient
  <2>4. Quotient(x, -y) = (-x) \div y
    BY <1>1, <1>4, <2>1 DEF Quotient
  <2> QED
    BY <1>4, <2>2, <2>3, <2>4
<1> QED
  BY <1>2, <1>3, <1>4

\* Quotients by positive divisors: between those of the ends by the nearest and the farthest
\* divisor.
LEMMA QuotientBetween ==
  ASSUME NEW x \in Int, NEW y \in Int, y > 0, NEW e \in Int, NEW d \in Int, d > 0
  PROVE  /\ e <= x /\ e <= 0 /\ d <= y => Quotient(e, d) <= Quotient(x, y)
         /\ e <= x /\ e >= 0 /\ y <= d => Quotient(e, d) <= Quotient(x, y)
         /\ x <= e /\ e >= 0 /\ d <= y => Quotient(x, y) <= Quotient(e, d)
         /\ x <= e /\ e <= 0 /\ y <= d => Quotient(x, y) <= Quotient(e, d)
<1>1. /\ y \in Nat \ {0} /\ d \in Nat \ {0}
      /\ x >= 0 => x \in Nat
      /\ e >= 0 => e \in Nat
      /\ x <= 0 => -x \in Nat
      /\ e <= 0 => -e \in Nat
  OBVIOUS
<1>2. Quotient(x, y) \in Int /\ Quotient(e, d) \in Int
  BY QuotientSign
<1>3. ASSUME e <= x, e <= 0, d <= y PROVE Quotient(e, d) <= Quotient(x, y)
  <2>1. CASE x >= 0
    BY <1>2, <1>3, <2>1, QuotientSign
  <2>2. CASE x < 0
    <3>1. (-x) \div y <= (-e) \div d
      BY <1>1, <1>3, <2>2, DivMonotone
    <3>2. (-x) \div y \in Int /\ (-e) \div d \in Int
      BY <1>1, <1>3, <2>2, DivSmaller
    <3>3. Quotient(x, y) = -((-x) \div y) /\ Quotient(e, d) = -((-e) \div d)
      BY <1>3, <2>2, QuotientSign
    <3> QED
      BY <3>1, <3>2, <3>3
  <2> QED
    BY <2>1, <2>2
<1>4. ASSUME e <= x, e >= 0, y <= d PROVE Quotient(e, d) <= Quotient(x, y)
  <2>1. x >= 0
    BY <1>4
  <2>2. e \div d <= x \div y
    BY <1>1, <1>4, <2>1, DivMonotone
  <2> QED
    BY <1>4, <2>1, <2>2, QuotientSign
<1>5. ASSUME x <= e, e >= 0, d <= y PROVE Quotient(x, y) <= Quotient(e, d)
  <2>1. CASE x <= 0
    BY <1>2, <1>5, <2>1, QuotientSign
  <2>2. CASE x > 0
    <3>1. x \div y <= e \div d
      BY <1>1, <1>5, <2>2, DivMonotone
    <3> QED
      BY <1>5, <2>2, <3>1, QuotientSign
  <2> QED
    BY <2>1, <2>2
<1>6. ASSUME x <= e, e <= 0, y <= d PROVE Quotient(x, y) <= Quotient(e, d)
  <2>1. x <= 0
    BY <1>6
  <2>2. (-e) \div d <= (-x) \div y
    BY <1>1, <1>6, <2>1, DivMonotone
  <2>3. (-x) \div y \in Int /\ (-e) \div d \in Int
    BY <1>1, <1>6, <2>1, DivSmaller
  <2>4. Quotient(x, y) = -((-x) \div y) /\ Quotient(e, d) = -((-e) \div d)
    BY <1>6, <2>1, QuotientSign
  <2> QED
    BY <2>2, <2>3, <2>4
<1> QED
  BY <1>3, <1>4, <1>5, <1>6

LEMMA SdivBound ==
  ASSUME NEW e \in Bounds, NEW d \in Bounds, sdiv_bound(e, d) \in Bounds,
         e.kind = "Int64" => Fits(-e.val)
  PROVE  LET c == sdiv_bound(e, d)
         IN  /\ IsFinite(d) => d.val # 0
             /\ IsFinite(e) /\ IsFinite(d) => IsFinite(c) /\ c.val = Quotient(e.val, d.val)
             /\ ~IsFinite(e) => IsFinite(d) /\ c = Inf((d.val > 0) = (e = PInf))
             /\ IsFinite(e) /\ ~IsFinite(d) => IsFinite(c) /\ c.val = 0
<1>1. e.val \in Int /\ d.val \in Int /\ (e.kind = "Int64" => Fits(e.val))
  BY BoundKinds
<1>2. sdiv_bound(e, d) # Undefined
  BY NotInfinite
<1>3. /\ IsFinite(d) => d.val # 0
      /\ ~IsFinite(e) => IsFinite(d) /\ sdiv_bound(e, d) = Inf((d.val > 0) = (e = PInf))
  BY <1>2 DEF sdiv_bound
<1>4. ASSUME IsFinite(e), ~IsFinite(d) PROVE sdiv_bound(e, d) = Int64(0)
  BY <1>4 DEF sdiv_bound
<1>5. IsFinite(Int64(0)) /\ Int64(0).val = 0
  BY FiniteBounds, SmallInts DEF IsFinite
<1>6. ASSUME IsFinite(e), IsFinite(d)
      PROVE  IsFinite(sdiv_bound(e, d)) /\ sdiv_bound(e, d).val = Quotient(e.val, d.val)
  <2>1. sdiv_bound(e, d) = Result(e, d, Quotient(e.val, d.val))
    BY <1>3, <1>6 DEF sdiv_bound
  <2>2. Quotient(e.val, d.val) \in Int
    BY <1>1, <1>3, <1>6, QuotientType
  <2>3. ASSUME e.kind = "Int64" PROVE Fits(Quotient(e.val, d.val))
    <3>1. -MaxInt <= e.val /\ e.val <= MaxInt
      BY <1>1, <2>3, MaxIntAssumption DEF Fits, MinInt
    <3>2. CASE d.val > 0
      <4>1. /\ Quotient(e.val, d.val) \in Int
            /\ e.val >= 0 => 0 <= Quotient(e.val, d.val) /\ Quotient(e.val, d.val) <= e.val
            /\ e.val <= 0 => Quotient(e.val, d.val) <= 0 /\ e.val <= Quotient(e.val, d.val)
        BY <1>1, <3>2, QuotientSign
      <4> QED
        BY <1>1, <3>1, <4>1, MaxIntAssumption DEF Fits, MinInt
    <3>3. CASE d.val < 0
      <4> DEFINE n == -d.val
      <4>1. n \in Int /\ n > 0 /\ -n = d.val
        BY <1>1, <3>3
      <4> HIDE DEF n
      <4>2. Quotient(e.val, -n) = -Quotient(e.val, n)
        BY <1>1, <4>1, QuotientSign
      <4>3. /\ Quotient(e.val, n) \in Int
            /\ e.val >= 0 => 0 <= Quotient(e.val, n) /\ Quotient(e.val, n) <= e.val
            /\ e.val <= 0 => Quotient(e.val, n) <= 0 /\ e.val <= Quotient(e.val, n)
        BY <1>1, <4>1, QuotientSign
      <4>4. -MaxInt <= Quotient(e.val, n) /\ Quotient(e.val, n) <= MaxInt
        BY <1>1, <3>1, <4>3, MaxIntAssumption
      <4> QED
        BY <4>1, <4>2, <4>3, <4>4, MaxIntAssumption DEF Fits, MinInt
    <3>4. d.val > 0 \/ d.val < 0
      BY <1>1, <1>3, <1>6
    <3> QED
      BY <3>2, <3>3, <3>4
  <2> QED
    BY <2>1, <2>2, <2>3, ResultType
<1> QED
  BY <1>3, <1>4, <1>5, <1>6

\* The quotients of the bounds L and U by d are between l and u.
QuotientsInside(L, U, d, l, u) ==
  \A e \in {L, U} :
    /\ sdiv_bound(e, d) \in Bounds
    /\ lequal_bound(l, sdiv_bound(e, d)) /\ lequal_bound(sdiv_bound(e, d), u)

CanNegate(b) == b.kind = "Int64" => Fits(-b.val)

LEMMA InsideMoves ==
  ASSUME NEW l \in Bounds, NEW u \in Bounds, NEW c \in Bounds, NEW q \in Int
  PROVE  /\ lequal_bound(l, c) /\ (c = NInf \/ (IsFinite(c) /\ c.val <= q)) => Above(l, TRUE, q)
         /\ lequal_bound(c, u) /\ (c = PInf \/ (IsFinite(c) /\ q <= c.val)) => Below(u, TRUE, q)
<1>1. c.val \in Int
  BY BoundKinds
<1>2. c = NInf \/ (IsFinite(c) /\ c.val <= q) => Above(c, TRUE, q)
  BY <1>1 DEF Above
<1>3. c = PInf \/ (IsFinite(c) /\ q <= c.val) => Below(c, TRUE, q)
  BY <1>1 DEF Below
<1> QED
  BY <1>2, <1>3, BoundMoves

LEMMA PositiveQuotient ==
  ASSUME NEW L \in Bounds, NEW U \in Bounds, NEW l \in Bounds, NEW u \in Bounds,
         NEW d1 \in Bounds, NEW d2 \in Bounds, NEW x \in Int, NEW y \in Int, y > 0,
         IsInside(L, U, x), CanNegate(L), CanNegate(U),
         IsFinite(d1), d1.val > 0, d1.val <= y, d2 = PInf \/ (IsFinite(d2) /\ y <= d2.val),
         QuotientsInside(L, U, d1, l, u), QuotientsInside(L, U, d2, l, u)
  PROVE  IsInside(l, u, Quotient(x, y))
<1> DEFINE q == Quotient(x, y)
<1>1. L.val \in Int /\ U.val \in Int /\ d1.val \in Int /\ d2.val \in Int
  BY BoundKinds
<1>2. /\ L = NInf \/ (IsFinite(L) /\ L.val <= x)
      /\ U = PInf \/ (IsFinite(U) /\ x <= U.val)
  BY <1>1 DEF IsInside, Above, Below
<1>3. q \in Int /\ (x >= 0 => 0 <= q) /\ (x <= 0 => q <= 0)
  BY QuotientSign
<1>4. ~IsFinite(NInf) /\ ~IsFinite(PInf) /\ NInf # PInf
  BY NotInfinite
<1>5. ASSUME NEW d \in {d1, d2}, NEW e \in {L, U}
      PROVE  LET c == sdiv_bound(e, d)
             IN  /\ c \in Bounds /\ lequal_bound(l, c) /\ lequal_bound(c, u)
                 /\ IsFinite(e) /\ IsFinite(d) => IsFinite(c) /\ c.val = Quotient(e.val, d.val)
                 /\ ~IsFinite(e) => c = Inf((d.val > 0) = (e = PInf))
                 /\ IsFinite(e) /\ ~IsFinite(d) => IsFinite(c) /\ c.val = 0
  <2>1. d \in Bounds /\ e \in Bounds /\ CanNegate(e)
    OBVIOUS
  <2>2. /\ sdiv_bound(e, d) \in Bounds
        /\ lequal_bound(l, sdiv_bound(e, d)) /\ lequal_bound(sdiv_bound(e, d), u)
    BY DEF QuotientsInside
  <2> QED
    BY <2>1, <2>2, SdivBound DEF CanNegate
<1>6. Above(l, TRUE, q)
  <2>1. CASE L = NInf
    <3>1. sdiv_bound(L, d1) = NInf
      BY <1>1, <1>4, <1>5, <2>1 DEF Inf
    <3> QED
      BY <1>3, <1>5, <3>1, InsideMoves
  <2>2. CASE IsFinite(L) /\ L.val <= x /\ L.val <= 0
    <3>1. Quotient(L.val, d1.val) <= q
      BY <1>1, <2>2, QuotientBetween
    <3> QED
      BY <1>3, <1>5, <2>2, <3>1, InsideMoves
  <2>3. CASE IsFinite(L) /\ L.val <= x /\ L.val > 0
    <3>1. CASE d2 = PInf
      <4>1. 0 <= q
        BY <1>1, <1>3, <2>3
      <4> QED
        BY <1>3, <1>4, <1>5, <2>3, <3>1, <4>1, InsideMoves
    <3>2. CASE IsFinite(d2) /\ y <= d2.val
      <4>1. d2.val > 0
        BY <1>1, <3>2
      <4>2. Quotient(L.val, d2.val) <= q
        BY <1>1, <2>3, <3>2, <4>1, QuotientBetween
      <4> QED
        BY <1>3, <1>5, <2>3, <3>2, <4>2, InsideMoves
    <3> QED
      BY <3>1, <3>2
  <2>4. L.val <= 0 \/ L.val > 0
    BY <1>1
  <2> QED
    BY <1>2, <2>1, <2>2, <2>3, <2>4
<1>7. Below(u, TRUE, q)
  <2>1. CASE U = PInf
    <3>1. sdiv_bound(U, d1) = PInf
      BY <1>1, <1>4, <1>5, <2>1 DEF Inf
    <3> QED
      BY <1>3, <1>5, <3>1, InsideMoves
  <2>2. CASE IsFinite(U) /\ x <= U.val /\ U.val >= 0
    <3>1. q <= Quotient(U.val, d1.val)
      BY <1>1, <2>2, QuotientBetween
    <3> QED
      BY <1>3, <1>5, <2>2, <3>1, InsideMoves
  <2>3. CASE IsFinite(U) /\ x <= U.val /\ U.val < 0
    <3>1. CASE d2 = PInf
      <4>1. q <= 0
        BY <1>1, <1>3, <2>3
      <4> QED
        BY <1>3, <1>4, <1>5, <2>3, <3>1, <4>1, InsideMoves
    <3>2. CASE IsFinite(d2) /\ y <= d2.val
      <4>1. d2.val > 0
        BY <1>1, <3>2
      <4>2. q <= Quotient(U.val, d2.val)
        BY <1>1, <2>3, <3>2, <4>1, QuotientBetween
      <4> QED
        BY <1>3, <1>5, <2>3, <3>2, <4>2, InsideMoves
    <3> QED
      BY <3>1, <3>2
  <2>4. U.val >= 0 \/ U.val < 0
    BY <1>1
  <2> QED
    BY <1>2, <2>1, <2>2, <2>3, <2>4
<1> QED
  BY <1>6, <1>7 DEF IsInside

\* Quotients by negative divisors, from those by positive ones.
LEMMA NegativeBetween ==
  ASSUME NEW x \in Int, NEW y \in Int, y < 0, NEW e \in Int, NEW d \in Int, d < 0
  PROVE  /\ x <= e /\ e >= 0 /\ y <= d => Quotient(e, d) <= Quotient(x, y)
         /\ x <= e /\ e <= 0 /\ d <= y => Quotient(e, d) <= Quotient(x, y)
         /\ e <= x /\ e <= 0 /\ y <= d => Quotient(x, y) <= Quotient(e, d)
         /\ e <= x /\ e >= 0 /\ d <= y => Quotient(x, y) <= Quotient(e, d)
         /\ Quotient(x, y) \in Int
         /\ x >= 0 => Quotient(x, y) <= 0
         /\ x <= 0 => 0 <= Quotient(x, y)
<1> DEFINE m == -y
           n == -d
<1>1. m \in Int /\ m > 0 /\ -m = y /\ n \in Int /\ n > 0 /\ -n = d
  OBVIOUS
<1>2. (y <= d <=> n <= m) /\ (d <= y <=> m <= n)
  OBVIOUS
<1> HIDE DEF m, n
<1>3. /\ Quotient(x, -m) = -Quotient(x, m) /\ Quotient(x, m) \in Int
      /\ x >= 0 => 0 <= Quotient(x, m)
      /\ x <= 0 => Quotient(x, m) <= 0
  BY <1>1, QuotientSign
<1>4. Quotient(e, -n) = -Quotient(e, n) /\ Quotient(e, n) \in Int
  BY <1>1, QuotientSign
<1>5. /\ e <= x /\ e <= 0 /\ n <= m => Quotient(e, n) <= Quotient(x, m)
      /\ e <= x /\ e >= 0 /\ m <= n => Quotient(e, n) <= Quotient(x, m)
      /\ x <= e /\ e >= 0 /\ n <= m => Quotient(x, m) <= Quotient(e, n)
      /\ x <= e /\ e <= 0 /\ m <= n => Quotient(x, m) <= Quotient(e, n)
  BY <1>1, QuotientBetween
<1>6. Quotient(x, y) = -Quotient(x, m) /\ Quotient(e, d) = -Quotient(e, n)
  BY <1>1, <1>3, <1>4
<1> QED
  BY <1>2, <1>3, <1>4, <1>5, <1>6

LEMMA NegativeQuotient ==
  ASSUME NEW L \in Bounds, NEW U \in Bounds, NEW l \in Bounds, NEW u \in Bounds,
         NEW d1 \in Bounds, NEW d2 \in Bounds, NEW x \in Int, NEW y \in Int, y < 0,
         IsInside(L, U, x), CanNegate(L), CanNegate(U),
         IsFinite(d1), d1.val < 0, y <= d1.val, d2 = NInf \/ (IsFinite(d2) /\ d2.val <= y),
         QuotientsInside(L, U, d1, l, u), QuotientsInside(L, U, d2, l, u)
  PROVE  IsInside(l, u, Quotient(x, y))
<1> DEFINE q == Quotient(x, y)
<1>1. L.val \in Int /\ U.val \in Int /\ d1.val \in Int /\ d2.val \in Int
  BY BoundKinds
<1>2. /\ L = NInf \/ (IsFinite(L) /\ L.val <= x)
      /\ U = PInf \/ (IsFinite(U) /\ x <= U.val)
  BY <1>1 DEF IsInside, Above, Below
<1>3. q \in Int /\ (x >= 0 => q <= 0) /\ (x <= 0 => 0 <= q)
  BY NegativeBetween
<1>4. ~IsFinite(NInf) /\ ~IsFinite(PInf) /\ NInf # PInf
  BY NotInfinite
<1>5. ASSUME NEW d \in {d1, d2}, NEW e \in {L, U}
      PROVE  LET c == sdiv_bound(e, d)
             IN  /\ c \in Bounds /\ lequal_bound(l, c) /\ lequal_bound(c, u)
                 /\ IsFinite(e) /\ IsFinite(d) => IsFinite(c) /\ c.val = Quotient(e.val, d.val)
                 /\ ~IsFinite(e) => c = Inf((d.val > 0) = (e = PInf))
                 /\ IsFinite(e) /\ ~IsFinite(d) => IsFinite(c) /\ c.val = 0
  <2>1. d \in Bounds /\ e \in Bounds /\ CanNegate(e)
    OBVIOUS
  <2>2. /\ sdiv_bound(e, d) \in Bounds
        /\ lequal_bound(l, sdiv_bound(e, d)) /\ lequal_bound(sdiv_bound(e, d), u)
    BY DEF QuotientsInside
  <2> QED
    BY <2>1, <2>2, SdivBound DEF CanNegate
<1>0. ~(d1.val > 0)
  BY <1>1
<1>6. Above(l, TRUE, q)
  <2>1. CASE U = PInf
    <3>1. sdiv_bound(U, d1) = NInf
      BY <1>0, <1>4, <1>5, <2>1 DEF Inf
    <3> QED
      BY <1>3, <1>5, <3>1, InsideMoves
  <2>2. CASE IsFinite(U) /\ x <= U.val /\ U.val >= 0
    <3>1. Quotient(U.val, d1.val) <= q
      BY <1>1, <2>2, NegativeBetween
    <3> QED
      BY <1>3, <1>5, <2>2, <3>1, InsideMoves
  <2>3. CASE IsFinite(U) /\ x <= U.val /\ U.val < 0
    <3>1. CASE d2 = NInf
      <4>1. 0 <= q
        BY <1>1, <1>3, <2>3
      <4> QED
        BY <1>3, <1>4, <1>5, <2>3, <3>1, <4>1, InsideMoves
    <3>2. CASE IsFinite(d2) /\ d2.val <= y
      <4>1. d2.val < 0
        BY <1>1, <3>2
      <4>2. Quotient(U.val, d2.val) <= q
        BY <1>1, <2>3, <3>2, <4>1, NegativeBetween
      <4> QED
        BY <1>3, <1>5, <2>3, <3>2, <4>2, InsideMoves
    <3> QED
      BY <3>1, <3>2
  <2>4. U.val >= 0 \/ U.val < 0
    BY <1>1
  <2> QED
    BY <1>2, <2>1, <2>2, <2>3, <2>4
<1>7. Below(u, TRUE, q)
  <2>1. CASE L = NInf
    <3>1. sdiv_bound(L, d1) = PInf
      BY <1>0, <1>4, <1>5, <2>1 DEF Inf
    <3> QED
      BY <1>3, <1>5, <3>1, InsideMoves
  <2>2. CASE IsFinite(L) /\ L.val <= x /\ L.val <= 0
    <3>1. q <= Quotient(L.val, d1.val)
      BY <1>1, <2>2, NegativeBetween
    <3> QED
      BY <1>3, <1>5, <2>2, <3>1, InsideMoves
  <2>3. CASE IsFinite(L) /\ L.val <= x /\ L.val > 0
    <3>1. CASE d2 = NInf
      <4>1. q <= 0
        BY <1>1, <1>3, <2>3
      <4> QED
        BY <1>3, <1>4, <1>5, <2>3, <3>1, <4>1, InsideMoves
    <3>2. CASE IsFinite(d2) /\ d2.val <= y
      <4>1. d2.val < 0
        BY <1>1, <3>2
      <4>2. q <= Quotient(L.val, d2.val)
        BY <1>1, <2>3, <3>2, <4>1, NegativeBetween
      <4> QED
        BY <1>3, <1>5, <2>3, <3>2, <4>2, InsideMoves
    <3> QED
      BY <3>1, <3>2
  <2>4. L.val <= 0 \/ L.val > 0
    BY <1>1
  <2> QED
    BY <1>2, <2>1, <2>2, <2>3, <2>4
<1> QED
  BY <1>6, <1>7 DEF IsInside

\* sdiv_range covers the quotient of any two integers of its operands, the divisor not
\* being zero, if the negations of the dividend's bounds do not wrap around: the divisors at
\* which it looks, the ends and 1 and -1, are enough.
THEOREM SdivCovers ==
  ASSUME NEW a \in Ranges, NEW b \in Ranges, NEW x \in Int, NEW y \in Int, y # 0,
         CanNegate(a.lb), CanNegate(a.ub), ~IsUndefined(sdiv_range(a, b)),
         Covers(a, x), Covers(b, y)
  PROVE  /\ sdiv_range(a, b) \in Ranges /\ Covers(sdiv_range(a, b), Quotient(x, y))
         /\ ~(sdiv_range(a, b).lb = PInf /\ sdiv_range(a, b).ub = NInf)
<1> DEFINE L == ClosedLb(a)
           U == ClosedUb(a)
           dl == ClosedLb(b)
           du == ClosedUb(b)
           ds == Divisors(b)
<1>1. /\ L \in Bounds /\ U \in Bounds /\ dl \in Bounds /\ du \in Bounds
      /\ CanNegate(L) /\ CanNegate(U) /\ IsInside(L, U, x) /\ IsInside(dl, du, y)
  BY ClosedBounds DEF CanNegate, IsInside
<1>2. /\ ~(IsFinite(dl) /\ dl.val = 0) => IsIn(dl, ds)
      /\ ~(IsFinite(du) /\ du.val = 0) => IsIn(du, ds)
      /\ lequal_bound(dl, Int64(1)) /\ lequal_bound(Int64(1), du) => IsIn(Int64(1), ds)
      /\ lequal_bound(dl, Int64(-1)) /\ lequal_bound(Int64(-1), du) => IsIn(Int64(-1), ds)
  BY DivisorsOf
<1>3. /\ Int64(1) \in Bounds /\ IsFinite(Int64(1)) /\ Int64(1).val = 1
      /\ Int64(-1) \in Bounds /\ IsFinite(Int64(-1)) /\ Int64(-1).val = -1
  BY FiniteBounds, SmallInts DEF IsFinite
<1>4. ~IsFinite(NInf) /\ ~IsFinite(PInf) /\ NInf # PInf
  BY <1>1, NotInfinite
<1>5. dl.val \in Int /\ du.val \in Int
  BY <1>1, BoundKinds
<1>6. /\ dl = NInf \/ (IsFinite(dl) /\ dl.val <= y)
      /\ du = PInf \/ (IsFinite(du) /\ y <= du.val)
  BY <1>1, <1>5 DEF IsInside, Above, Below
<1>7. ASSUME y > 0
      PROVE  \E d1, d2 \in Bounds :
               /\ IsIn(d1, ds) /\ IsFinite(d1) /\ d1.val > 0 /\ d1.val <= y
               /\ IsIn(d2, ds) /\ (d2 = PInf \/ (IsFinite(d2) /\ y <= d2.val))
  <2>1. IsIn(du, ds)
    BY <1>2, <1>4, <1>5, <1>6, <1>7
  <2>2. CASE IsFinite(dl) /\ dl.val > 0
    BY <1>1, <1>2, <1>4, <1>6, <2>1, <2>2
  <2>3. CASE ~(IsFinite(dl) /\ dl.val > 0)
    <3>1. lequal_bound(dl, Int64(1)) /\ lequal_bound(Int64(1), du)
      BY <1>3, <1>4, <1>5, <1>6, <1>7, <2>3 DEF lequal_bound
    <3> QED
      BY <1>1, <1>2, <1>3, <1>6, <1>7, <2>1, <3>1
  <2> QED
    BY <2>2, <2>3
<1>8. ASSUME y < 0
      PROVE  \E d1, d2 \in Bounds :
               /\ IsIn(d1, ds) /\ IsFinite(d1) /\ d1.val < 0 /\ y <= d1.val
               /\ IsIn(d2, ds) /\ (d2 = NInf \/ (IsFinite(d2) /\ d2.val <= y))
  <2>1. IsIn(dl, ds)
    BY <1>2, <1>4, <1>5, <1>6, <1>8
  <2>2. CASE IsFinite(du) /\ du.val < 0
    BY <1>1, <1>2, <1>4, <1>6, <2>1, <2>2
  <2>3. CASE ~(IsFinite(du) /\ du.val < 0)
    <3>1. lequal_bound(dl, Int64(-1)) /\ lequal_bound(Int64(-1), du)
      BY <1>3, <1>4, <1>5, <1>6, <1>8, <2>3 DEF lequal_bound
    <3> QED
      BY <1>1, <1>2, <1>3, <1>6, <1>8, <2>1, <3>1
  <2> QED
    BY <2>2, <2>3
<1>9. y > 0 \/ y < 0
  OBVIOUS
<1>10. ds # <<>>
  <2>1. \E d : IsIn(d, ds)
    BY <1>7, <1>8, <1>9
  <2> HIDE DEF ds
  <2> QED
    BY <2>1 DEF IsIn
<1>11. PICK l, u \in Bounds : sdiv_range(a, b) = mk_range(l, TRUE, u, TRUE) /\ SdivQuotients(a, b, l, u)
  BY <1>10, SdivRange, UndefinedRange
<1>12. ASSUME NEW d \in Bounds, IsIn(d, ds) PROVE QuotientsInside(L, U, d, l, u)
  BY <1>11, <1>12 DEF SdivQuotients, QuotientsInside
<1> DEFINE q == Quotient(x, y)
<1>13. q \in Int
  BY QuotientType
<1> HIDE DEF L, U, dl, du, ds
<1>14. IsInside(l, u, Quotient(x, y))
  <2>1. CASE y > 0
    <3>1. PICK d1, d2 \in Bounds :
               /\ IsIn(d1, ds) /\ IsFinite(d1) /\ d1.val > 0 /\ d1.val <= y
               /\ IsIn(d2, ds) /\ (d2 = PInf \/ (IsFinite(d2) /\ y <= d2.val))
      BY <1>7, <2>1
    <3>2. QuotientsInside(L, U, d1, l, u) /\ QuotientsInside(L, U, d2, l, u)
      BY <1>12, <3>1
    <3> QED
      BY <1>1, <1>11, <2>1, <3>1, <3>2, PositiveQuotient
  <2>2. CASE y < 0
    <3>1. PICK d1, d2 \in Bounds :
               /\ IsIn(d1, ds) /\ IsFinite(d1) /\ d1.val < 0 /\ y <= d1.val
               /\ IsIn(d2, ds) /\ (d2 = NInf \/ (IsFinite(d2) /\ d2.val <= y))
      BY <1>8, <2>2
    <3>2. QuotientsInside(L, U, d1, l, u) /\ QuotientsInside(L, U, d2, l, u)
      BY <1>12, <3>1
    <3> QED
      BY <1>1, <1>11, <2>2, <3>1, <3>2, NegativeQuotient
  <2> QED
    BY <1>9, <2>1, <2>2
<1>15. Above(l, TRUE, q) /\ Below(u, TRUE, q)
  BY <1>14 DEF IsInside
<1> HIDE DEF q
<1>16. CanClose(l, TRUE, 1) /\ CanClose(u, TRUE, -1)
  BY DEF CanClose
<1>17. sdiv_range(a, b) \in Ranges /\ Covers(sdiv_range(a, b), q)
  BY <1>11, <1>13, <1>15, <1>16, MkRange
<1>18. sdiv_range(a, b).lb # PInf
  BY <1>4, <1>17 DEF Covers
<1> QED
  BY <1>17, <1>18 DEF q

------------------------------------------------------------------------------
(* Unsigned quotients *)

\* The only integer in a range whose ends are equal.
LEMMA PointCovers ==
  ASSUME NEW a \in Ranges, NEW x \in Int, IsPoint(a), Covers(a, x)
  PROVE  IsFinite(a.lb) /\ IsFinite(a.ub) /\ a.lb.val = x /\ a.ub.val = x
<1>1. IsFinite(a.lb) /\ IsFinite(a.ub) /\ a.lb.val = a.ub.val
  BY DEF IsPoint
<1>2. a.lb \in Bounds /\ a.ub \in Bounds
  BY RangeFields
<1>3. a.lb.val \in Int /\ a.ub.val \in Int /\ a.lb # NInf /\ a.ub # PInf
  BY <1>1, <1>2, BoundKinds, NotInfinite
<1>4. a.lb.val <= x /\ x <= a.ub.val
  BY <1>3 DEF Covers
<1> QED
  BY <1>1, <1>3, <1>4

\* One end of the dividend by the divisor.
LEMMA UdivBound ==
  ASSUME NEW e \in Bounds, NEW d \in Bounds, IsFinite(d), d.val > 0, udiv_bound(e, d) \in Bounds,
         e.kind = "Int64" /\ d.kind = "Int64" => Fits(Quotient(e.val, d.val)), NEW x \in Int
  PROVE  /\ Above(e, TRUE, x) => Above(udiv_bound(e, d), TRUE, Quotient(x, d.val))
         /\ Below(e, TRUE, x) => Below(udiv_bound(e, d), TRUE, Quotient(x, d.val))
<1>1. e.val \in Int /\ d.val \in Int
  BY BoundKinds
<1>2. d # PInf /\ d # NInf
  BY NotInfinite
<1>3. CASE ~IsFinite(e)
  BY <1>2, <1>3, NotInfinite DEF udiv_bound, Above, Below
<1>4. CASE IsFinite(e)
  <2> DEFINE q == Quotient(e.val, d.val)
             r == Quotient(x, d.val)
  <2>1. q \in Int /\ r \in Int
    BY <1>1, QuotientType
  <2>2. udiv_bound(e, d) = Result(e, d, q)
    BY <1>1, <1>2, <1>4, NotInfinite DEF udiv_bound
  <2>3. /\ e.val <= x => q <= r
        /\ x <= e.val => r <= q
    BY <1>1, QuotientBetween
  <2>4. udiv_bound(e, d).val = q /\ IsFinite(udiv_bound(e, d))
    BY <2>1, <2>2, ResultType
  <2>5. e # PInf /\ e # NInf
    BY <1>4, NotInfinite
  <2> HIDE DEF q, r
  <2>6. /\ Above(e, TRUE, x) => e.val <= x
        /\ Below(e, TRUE, x) => x <= e.val
    BY <1>1, <2>5 DEF Above, Below
  <2>7. /\ q <= r => Above(udiv_bound(e, d), TRUE, r)
        /\ r <= q => Below(udiv_bound(e, d), TRUE, r)
    BY <2>1, <2>4 DEF Above, Below
  <2> QED
    BY <2>3, <2>6, <2>7 DEF r
<1> QED
  BY <1>3, <1>4

\* udiv_range covers the quotient if there is only one divisor, which is positive, and
\* the quotients of the machine integers do not wrap around.
THEOREM UdivCovers ==
  ASSUME NEW a \in Ranges, NEW b \in Ranges, NEW x \in Int, NEW y \in Int, y > 0,
         IsPoint(b), NoWrap(Over, a, b), ~IsUndefined(udiv_range(a, b)),
         Covers(a, x), Covers(b, y)
  PROVE  udiv_range(a, b) \in Ranges /\ Covers(udiv_range(a, b), Quotient(x, y))
<1> DEFINE l == udiv_bound(a.lb, b.ub)
           u == udiv_bound(a.ub, b.ub)
           q == Quotient(x, y)
<1>1. /\ a.lb \in Bounds /\ a.ub \in Bounds /\ b.ub \in Bounds
      /\ a.li \in BOOLEAN /\ a.ui \in BOOLEAN
  BY RangeFields
<1>2. IsFinite(b.ub) /\ b.ub.val = y
  BY PointCovers
<1>3. l \in Results /\ u \in Results
  BY <1>1, BoundResults
<1>4. l \in Bounds /\ u \in Bounds /\ udiv_range(a, b) \in Ranges
  BY <1>3, MkRangeType DEF udiv_range
<1>5. ASSUME NEW e \in {a.lb, a.ub}, e.kind = "Int64", b.ub.kind = "Int64"
      PROVE  Fits(Quotient(e.val, b.ub.val))
  BY <1>2, <1>5 DEF NoWrap, Over
<1>6. Above(a.lb, TRUE, x) /\ Below(a.ub, TRUE, x)
  BY <1>1, CoversDef DEF Above, Below
<1>7. Above(l, TRUE, q)
  BY <1>1, <1>2, <1>4, <1>5, <1>6, UdivBound
<1>8. Below(u, TRUE, q)
  BY <1>1, <1>2, <1>4, <1>5, <1>6, UdivBound
<1>9. q \in Int
  BY QuotientType
<1>10. CanClose(l, TRUE, 1) /\ CanClose(u, TRUE, -1)
  BY DEF CanClose
<1>11. udiv_range(a, b) = mk_range(l, TRUE, u, TRUE)
  BY DEF udiv_range
<1> HIDE DEF l, u, q
<1>12. Covers(udiv_range(a, b), q)
  BY <1>4, <1>7, <1>8, <1>9, <1>10, <1>11, MkRange
<1> QED
  BY <1>4, <1>12 DEF q

------------------------------------------------------------------------------
(* The operations on intervals *)

\* An interval that covers an integer is a range.
LEMMA CoveringRange ==
  ASSUME NEW a \in Intervals, NEW x, Covers(a, x)
  PROVE  a \in Ranges /\ a # Bottom
BY DEF Intervals, Covers

LEMMA AddIntervalCovers ==
  ASSUME NEW a \in Intervals, NEW b \in Intervals, NEW x \in Int, NEW y \in Int,
         Covers(a, x), Covers(b, y), BoundsFit(Plus, a, b)
  PROVE  Covers(add_interval(a, b), x + y)
<1>1. a \in Ranges /\ a # Bottom /\ b \in Ranges /\ b # Bottom
  BY CoveringRange
<1>2. NoWrap(Plus, a, b)
  BY <1>1 DEF BoundsFit
<1>3. SumFits(a.lb, b.lb) /\ SumFits(a.ub, b.ub)
  BY <1>2 DEF NoWrap, SumFits, Plus
<1>4. add_interval(a, b) = add_range(a, b)
  BY <1>1 DEF add_interval, OnRanges
<1> QED
  BY <1>1, <1>3, <1>4, AddCovers

LEMMA SubIntervalCovers ==
  ASSUME NEW a \in Intervals, NEW b \in Intervals, NEW x \in Int, NEW y \in Int,
         Covers(a, x), Covers(b, y), NegationFits(b), BoundsFit(Minus, a, b)
  PROVE  Covers(sub_interval(a, b), x - y)
<1>1. a \in Ranges /\ a # Bottom /\ b \in Ranges /\ b # Bottom
  BY CoveringRange
<1>2. NoWrap(Minus, a, b) /\ \A p \in {b.lb, b.ub} : p.kind = "Int64" => Fits(-p.val)
  BY <1>1 DEF BoundsFit, NegationFits
<1>3. DifferenceFits(a.lb, b.ub) /\ DifferenceFits(a.ub, b.lb)
  BY <1>2 DEF NoWrap, DifferenceFits, Minus
<1>4. sub_interval(a, b) = sub_range(a, b)
  BY <1>1 DEF sub_interval, OnRanges
<1> QED
  BY <1>1, <1>3, <1>4, SubCovers

LEMMA MultIntervalCovers ==
  ASSUME NEW a \in Intervals, NEW b \in Intervals, NEW x \in Int, NEW y \in Int,
         Covers(a, x), Covers(b, y), ClosedEnds(a), ClosedEnds(b), BoundsFit(Times, a, b),
         ~IsUndefined(mult_interval(a, b))
  PROVE  Covers(mult_interval(a, b), x * y)
<1>1. a \in Ranges /\ a # Bottom /\ b \in Ranges /\ b # Bottom
  BY CoveringRange
<1>2. NoWrap(Times, a, b)
  BY <1>1 DEF BoundsFit
<1>3. mult_interval(a, b) = mult_range(a, b)
  BY <1>1 DEF mult_interval, OnRanges
<1> QED
  BY <1>1, <1>2, <1>3, MultCovers

LEMMA SdivIntervalCovers ==
  ASSUME NEW a \in Intervals, NEW b \in Intervals, NEW x \in Int, NEW y \in Int, y # 0,
         Covers(a, x), Covers(b, y), NegationFits(a), ~IsUndefined(sdiv_interval(a, b))
  PROVE  Covers(sdiv_interval(a, b), Quotient(x, y))
<1>1. a \in Ranges /\ a # Bottom /\ b \in Ranges /\ b # Bottom
  BY CoveringRange
<1>2. CanNegate(a.lb) /\ CanNegate(a.ub)
  BY <1>1 DEF NegationFits, CanNegate
<1> DEFINE q == sdiv_range(a, b)
<1>3. sdiv_interval(a, b) = IF q # Bottom /\ q.lb = PInf /\ q.ub = NInf THEN Bottom ELSE q
  BY <1>1 DEF sdiv_interval, OnRanges
<1>4. ~IsUndefined(q)
  <2>1. IsUndefined(q) => ~(q.lb = PInf /\ q.ub = NInf)
    BY DEF IsUndefined, Undefined, PInf, NInf
  <2> HIDE DEF q
  <2> QED
    BY <1>3, <2>1
<1> QED
  BY <1>1, <1>2, <1>3, <1>4, SdivCovers

LEMMA UdivIntervalCovers ==
  ASSUME NEW a \in Intervals, NEW b \in Intervals, NEW x \in Int, NEW y \in Int, y > 0,
         Covers(a, x), Covers(b, y), IsPoint(b), BoundsFit(Over, a, b),
         ~IsUndefined(udiv_interval(a, b))
  PROVE  Covers(udiv_interval(a, b), Quotient(x, y))
<1>1. a \in Ranges /\ a # Bottom /\ b \in Ranges /\ b # Bottom
  BY CoveringRange
<1>2. NoWrap(Over, a, b)
  BY <1>1 DEF BoundsFit
<1>3. udiv_interval(a, b) = udiv_range(a, b)
  BY <1>1 DEF udiv_interval, OnRanges
<1> QED
  BY <1>1, <1>2, <1>3, UdivCovers

LEMMA CombineIntervalCovers ==
  ASSUME NEW a \in Intervals, NEW b \in Intervals, NEW x \in Int, NEW widen \in BOOLEAN,
         Covers(a, x) \/ Covers(b, x), EndsAgree(a, b)
  PROVE  Covers(combine_interval(widen, a, b), x)
<1>1. CASE a = Bottom \/ b = Bottom
  BY <1>1 DEF combine_interval, Covers
<1>2. CASE a # Bottom /\ b # Bottom
  <2>1. a \in Ranges /\ b \in Ranges
    BY <1>2 DEF Intervals
  <2>2. SameFlag(a.lb, a.li, b.lb, b.li) /\ SameFlag(a.ub, a.ui, b.ub, b.ui)
    BY <1>2 DEF EndsAgree
  <2>3. Covers(union_range(a, b), x) /\ Covers(widen_range(a, b), x)
    BY <2>1, <2>2, UnionCovers, WidenCovers
  <2> QED
    BY <1>2, <2>3 DEF combine_interval
<1> QED
  BY <1>1, <1>2

LEMMA IntersectIntervalCovers ==
  ASSUME NEW a \in Intervals, NEW b \in Intervals, NEW x \in Int, Fits(x),
         Covers(a, x), Covers(b, x)
  PROVE  Covers(intersect_interval(a, b), x)
BY CoveringRange, IntersectCovers

------------------------------------------------------------------------------
(* Comparisons *)

LEMMA Comparisons ==
  ASSUME NEW cmp \in Cmps, NEW x \in Int, NEW y \in Int
  PROVE  /\ negate_icmp(cmp) \in Cmps /\ Mirror(cmp) \in Cmps
         /\ Compare(negate_icmp(cmp), x, y) <=> ~Compare(cmp, x, y)
         /\ Compare(Mirror(cmp), y, x) <=> Compare(cmp, x, y)
<1>1. CASE cmp = "Eq"
  BY <1>1 DEF Cmps, negate_icmp, Mirror, Compare
<1>2. CASE cmp = "Ne"
  BY <1>2 DEF Cmps, negate_icmp, Mirror, Compare
<1>3. CASE cmp = "Gt"
  BY <1>3 DEF Cmps, negate_icmp, Mirror, Compare
<1>4. CASE cmp = "Ge"
  BY <1>4 DEF Cmps, negate_icmp, Mirror, Compare
<1>5. CASE cmp = "Lt"
  BY <1>5 DEF Cmps, negate_icmp, Mirror, Compare
<1>6. CASE cmp = "Le"
  BY <1>6 DEF Cmps, negate_icmp, Mirror, Compare
<1> QED
  BY <1>1, <1>2, <1>3, <1>4, <1>5, <1>6 DEF Cmps

LEMMA FromConstType ==
  ASSUME NEW cmp \in Cmps, NEW b \in Bounds
  PROVE  FromConst(cmp, b) \in Intervals \union {None}
<1>1. PInf \in Bounds /\ NInf \in Bounds
  BY NotInfinite
<1>2. \A c, d \in Bounds, i, j \in BOOLEAN : mk_range(c, i, d, j) \in Intervals
  BY MkRangeResult DEF Results, Intervals
<1>3. (cmp = "Ge") \in BOOLEAN /\ (cmp = "Le") \in BOOLEAN
  OBVIOUS
<1> QED
  BY <1>1, <1>2, <1>3 DEF FromConst, interval_of_bound, Cmps

LEMMA FromIntervalType ==
  ASSUME NEW cmp \in Cmps, NEW a \in Intervals
  PROVE  FromInterval(cmp, a) \in Intervals \union {None}
<1>1. a # Bottom => a.lb \in Bounds /\ a.ub \in Bounds
  BY RangeFields DEF Intervals
<1> QED
  BY <1>1, FromConstType DEF FromInterval

\* What a comparison with an integer says of a value for which it holds.
LEMMA FromConstCovers ==
  ASSUME NEW cmp \in Cmps, NEW b \in Bounds, IsFinite(b), NEW x \in Int, Fits(x),
         Compare(cmp, x, b.val)
  PROVE  FromConst(cmp, b) = None \/ Covers(FromConst(cmp, b), x)
<1>1. b.val \in Int /\ PInf \in Bounds /\ NInf \in Bounds
  BY BoundKinds, NotInfinite
<1>2. b # PInf /\ b # NInf /\ (b.kind = "Int64" => Fits(b.val))
  BY BoundKinds, NotInfinite
<1>3. CASE cmp = "Eq"
  <2>1. CanClose(b, TRUE, 1) /\ CanClose(b, TRUE, -1) /\ Above(b, TRUE, x) /\ Below(b, TRUE, x)
    BY <1>3 DEF CanClose, Above, Below, Compare
  <2>2. FromConst(cmp, b) = mk_range(b, TRUE, b, TRUE)
    BY <1>3 DEF FromConst, interval_of_bound
  <2> QED
    BY <2>1, <2>2, MkRange
<1>4. CASE cmp = "Ne"
  BY <1>4 DEF FromConst
<1>5. CASE cmp \in {"Gt", "Ge"}
  <2> DEFINE i == (cmp = "Ge")
  <2>0. i \in BOOLEAN /\ (b.val < x \/ (i /\ b.val = x))
    <3>1. CASE cmp = "Gt"
      BY <3>1 DEF Compare
    <3>2. CASE cmp = "Ge"
      BY <1>1, <3>2 DEF Compare
    <3> QED
      BY <1>5, <3>1, <3>2
  <2>1. Above(b, i, x)
    BY <2>0 DEF Above
  <2>2. CanClose(b, i, 1)
    <3> HIDE DEF i
    <3>1. ASSUME ~i, Fits(b.val) PROVE Fits(b.val + (1))
      BY <1>1, <2>0, <3>1, MaxIntAssumption DEF Fits, MinInt
    <3> QED
      BY <1>2, <3>1 DEF CanClose
  <2>3. CanClose(PInf, FALSE, -1) /\ Below(PInf, FALSE, x)
    BY DEF CanClose, PInf, Below
  <2>4. FromConst(cmp, b) = mk_range(b, i, PInf, FALSE)
    BY <1>5 DEF FromConst
  <2> HIDE DEF i
  <2> QED
    BY <1>1, <2>0, <2>1, <2>2, <2>3, <2>4, MkRange
<1>6. CASE cmp \in {"Lt", "Le"}
  <2> DEFINE i == (cmp = "Le")
  <2>0. i \in BOOLEAN /\ (x < b.val \/ (i /\ b.val = x))
    <3>1. CASE cmp = "Lt"
      BY <3>1 DEF Compare
    <3>2. CASE cmp = "Le"
      BY <1>1, <3>2 DEF Compare
    <3> QED
      BY <1>6, <3>1, <3>2
  <2>1. Below(b, i, x)
    BY <2>0 DEF Below
  <2>2. CanClose(b, i, -1)
    <3> HIDE DEF i
    <3>1. ASSUME ~i, Fits(b.val) PROVE Fits(b.val + (-1))
      BY <1>1, <2>0, <3>1, MaxIntAssumption DEF Fits, MinInt
    <3> QED
      BY <1>2, <3>1 DEF CanClose
  <2>3. CanClose(NInf, FALSE, 1) /\ Above(NInf, FALSE, x)
    BY DEF CanClose, NInf, Above
  <2>4. FromConst(cmp, b) = mk_range(NInf, FALSE, b, i)
    BY <1>6 DEF FromConst
  <2> HIDE DEF i
  <2> QED
    BY <1>1, <2>0, <2>1, <2>2, <2>3, <2>4, MkRange
<1> QED
  BY <1>3, <1>4, <1>5, <1>6 DEF Cmps

\* And a comparison with a variable that has one value.
LEMMA FromIntervalCovers ==
  ASSUME NEW cmp \in Cmps, NEW a \in Intervals, IsPoint(a), NEW x \in Int, Fits(x),
         NEW y \in Int, Covers(a, y), Compare(cmp, x, y)
  PROVE  FromInterval(cmp, a) = None \/ Covers(FromInterval(cmp, a), x)
<1>1. a \in Ranges /\ a # Bottom
  BY CoveringRange
<1>2. IsFinite(a.lb) /\ IsFinite(a.ub) /\ a.lb.val = y /\ a.ub.val = y
  BY <1>1, PointCovers
<1>3. a.lb \in Bounds /\ a.ub \in Bounds
  BY <1>1, RangeFields
<1>4. CASE cmp = "Ne"
  BY <1>4 DEF FromInterval
<1>5. CASE cmp = "Eq"
  BY <1>5 DEF FromInterval, Compare
<1>6. CASE cmp \notin {"Ne", "Eq"}
  BY <1>1, <1>2, <1>3, <1>6, FromConstCovers DEF FromInterval
<1> QED
  BY <1>4, <1>5, <1>6

------------------------------------------------------------------------------
(* Data *)

IsData(d) == d \in [Expr -> Intervals \union {None}]

\* What the data d say of expression e holds for the integer x.
DataCovers(d, e, x) == Covers(get_interval(d, e), x)

LEMMA MaxIntervalType == compute_int_max_interval(MaxVal) \in Ranges
<1>1. EInt(-MaxVal - 1) \in Bounds /\ EInt(MaxVal) \in Bounds
  BY RangeAssumption, FiniteBounds
<1> QED
  BY <1>1, MkRangeResult DEF compute_int_max_interval, Results

LEMMA GetInterval ==
  ASSUME NEW d, IsData(d), NEW e \in Expr
  PROVE  get_interval(d, e) \in Intervals /\ (d[e] # None => d[e] \in Intervals)
BY MaxIntervalType DEF IsData, get_interval, Intervals

LEMMA WidthFits ==
  ASSUME NEW n \in Int, InWidth(n)
  PROVE  Fits(n)
BY RangeAssumption, MaxIntAssumption DEF InWidth, Fits, MinInt

\* A predicate says what holds: it covers the integer, or says nothing.
Says(p, e, x) == e \notin DOMAIN p \/ p[e] = None \/ Covers(p[e], x)

IsPredicate(p) == \A e \in DOMAIN p : p[e] \in Intervals \union {None}

LEMMA RefineType ==
  ASSUME NEW d, IsData(d), NEW p, IsPredicate(p)
  PROVE  IsData(Refine(d, p))
<1>1. ASSUME NEW e \in Expr
      PROVE  (IF d[e] = None \/ e \notin DOMAIN p \/ p[e] = None THEN d[e]
              ELSE intersect_interval(d[e], p[e])) \in Intervals \union {None}
  BY IntervalResults DEF IsData, IsPredicate
<1> QED
  BY <1>1 DEF IsData, Refine

\* refine_data_by_predicate keeps what the data say of a value, if the predicate holds.
LEMMA RefineCovers ==
  ASSUME NEW d, IsData(d), NEW p, IsPredicate(p), NEW e \in Expr, NEW x \in Int, Fits(x),
         DataCovers(d, e, x), Says(p, e, x)
  PROVE  DataCovers(Refine(d, p), e, x)
<1>1. CASE d[e] = None \/ e \notin DOMAIN p \/ p[e] = None
  <2>1. Refine(d, p)[e] = d[e]
    BY <1>1 DEF Refine
  <2> QED
    BY <2>1 DEF DataCovers, get_interval
<1>2. CASE ~(d[e] = None \/ e \notin DOMAIN p \/ p[e] = None)
  <2>1. Refine(d, p)[e] = intersect_interval(d[e], p[e])
    BY <1>2 DEF Refine
  <2>2. d[e] \in Intervals /\ p[e] \in Intervals
    BY <1>2 DEF IsData, IsPredicate
  <2>3. Covers(d[e], x) /\ Covers(p[e], x)
    BY <1>2 DEF DataCovers, get_interval, Says
  <2>4. Covers(intersect_interval(d[e], p[e]), x)
    BY <2>2, <2>3, IntersectIntervalCovers
  <2>5. intersect_interval(d[e], p[e]) \in Intervals
    BY <2>2, IntervalResults
  <2>6. intersect_interval(d[e], p[e]) # None
    BY <2>5, RangeAssumption
  <2> QED
    BY <2>1, <2>4, <2>6 DEF DataCovers, get_interval
<1> QED
  BY <1>1, <1>2

LEMMA MergeType ==
  ASSUME NEW d1, IsData(d1), NEW d2, IsData(d2)
  PROVE  IsData(merge_data(d1, d2))
<1>1. ASSUME NEW e \in Expr
      PROVE  (IF d1[e] = None THEN d2[e] ELSE IF d2[e] = None THEN d1[e]
              ELSE combine_interval(FALSE, d1[e], d2[e])) \in Intervals \union {None}
  <2>1. d1[e] \in Intervals \union {None} /\ d2[e] \in Intervals \union {None}
    BY DEF IsData
  <2> QED
    BY <2>1, IntervalResults
<1> QED
  BY <1>1 DEF IsData, merge_data

\* merge_data keeps what either side says, if the side has an entry wherever the other one
\* does and the ends agree.
LEMMA MergeCovers ==
  ASSUME NEW d1, IsData(d1), NEW d2, IsData(d2), NEW e \in Expr, NEW x \in Int,
         NEW d \in {d1, d2}, DataCovers(d, e, x),
         d[e] = None => merge_data(d1, d2)[e] = None,
         None \in {d1[e], d2[e]} \/ EndsAgree(d1[e], d2[e])
  PROVE  DataCovers(merge_data(d1, d2), e, x)
<1> DEFINE m == merge_data(d1, d2)[e]
<1>1. m = IF d1[e] = None THEN d2[e] ELSE IF d2[e] = None THEN d1[e]
          ELSE combine_interval(FALSE, d1[e], d2[e])
  BY DEF merge_data
<1> HIDE DEF m
<1>2. CASE d[e] = None
  <2>1. m = None
    BY <1>2 DEF m
  <2> QED
    BY <1>2, <2>1 DEF DataCovers, get_interval, m
<1>3. CASE d[e] # None /\ None \in {d1[e], d2[e]}
  <2>1. m = d[e]
    BY <1>1, <1>3
  <2> QED
    BY <1>3, <2>1 DEF DataCovers, get_interval, m
<1>4. CASE None \notin {d1[e], d2[e]}
  <2>1. d1[e] \in Intervals /\ d2[e] \in Intervals
    BY <1>4 DEF IsData
  <2>2. Covers(d1[e], x) \/ Covers(d2[e], x)
    BY <1>4 DEF DataCovers, get_interval
  <2>3. m = combine_interval(FALSE, d1[e], d2[e])
    BY <1>1, <1>4
  <2>4. Covers(m, x) /\ m \in Intervals
    BY <1>4, <2>1, <2>2, <2>3, CombineIntervalCovers, IntervalResults
  <2>5. m # None
    BY <2>4, RangeAssumption
  <2> QED
    BY <2>4, <2>5 DEF DataCovers, get_interval, m
<1> QED
  BY <1>2, <1>3, <1>4

------------------------------------------------------------------------------
(* The invariant *)

\* The analysis leaves the side of the run only at a branch, whose other side it keeps.
RangeInv ==
  /\ IsData(data)
  /\ other # None => IsData(other)
  /\ val \in [Expr -> Int]
  /\ here \in BOOLEAN
  /\ here \/ other # None
  /\ Sound

LEMMA RangeInit ==
  ASSUME Init
  PROVE  RangeInv
<1>1. IsData(data)
  BY MaxIntervalType DEF Init, IsData, Intervals
<1>2. val \in [Expr -> Int] /\ \A e \in Expr : InWidth(val[e])
  BY RangeAssumption DEF Init, InWidth
<1>3. Sound
  <2> DEFINE m == compute_int_max_interval(MaxVal)
  <2>1. ASSUME NEW x \in Int, InWidth(x) PROVE Covers(m, x)
    <3> DEFINE l == EInt(-MaxVal - 1)
               u == EInt(MaxVal)
    <3>1. /\ l \in Bounds /\ u \in Bounds /\ CanClose(l, TRUE, 1) /\ CanClose(u, TRUE, -1)
          /\ IsFinite(l) /\ IsFinite(u) /\ l.val = -MaxVal - 1 /\ u.val = MaxVal
      BY RangeAssumption, FiniteBounds DEF CanClose, IsFinite
    <3>2. m = mk_range(l, TRUE, u, TRUE)
      BY DEF compute_int_max_interval
    <3> HIDE DEF l, u, m
    <3>3. Above(l, TRUE, x) /\ Below(u, TRUE, x)
      BY <2>1, <3>1, RangeAssumption DEF Above, Below, InWidth
    <3> QED
      BY <3>1, <3>2, <3>3, MkRange
  <2>2. \A e \in Expr : get_interval(data, e) = m
    BY DEF Init, get_interval
  <2> HIDE DEF m
  <2> QED
    BY <1>2, <2>1, <2>2 DEF Init, Sound, Known
<1> QED
  BY <1>1, <1>2, <1>3 DEF RangeInv, Init

\* Before every step but the last one, all values fit and are covered.
LEMMA RunningFacts ==
  ASSUME RangeInv, Running
  PROVE  /\ \A e \in Expr : val[e] \in Int /\ InWidth(val[e]) /\ Fits(val[e])
         /\ \A e \in Expr : DataCovers(Known, e, val[e])
         /\ here => \A e \in Expr : DataCovers(data, e, val[e])
<1>1. \A e \in Expr : val[e] \in Int /\ InWidth(val[e])
  BY DEF RangeInv, Running
<1>2. \A e \in Expr : DataCovers(Known, e, val[e])
  BY DEF RangeInv, Running, Sound, DataCovers
<1> QED
  BY <1>1, <1>2, WidthFits DEF Known

\* A step that records an interval for one expression and gives it a value.
LEMMA RecordStep ==
  ASSUME RangeInv, Running, NEW d \in Expr, NEW itv, IsResult(itv), NEW n \in Int,
         Record(d, itv), Execute(d, n), UNCHANGED <<other, here>>,
         claimed' /\ here /\ ~IsUndefined(itv) => Covers(itv, n)
  PROVE  RangeInv'
<1>1. val' \in [Expr -> Int]
  BY DEF RangeInv, Execute
<1>2. CASE IsUndefined(itv)
  <2>1. failed' /\ data' = data
    BY <1>2 DEF Record
  <2> QED
    BY <1>1, <2>1 DEF RangeInv, Sound, IsData
<1>3. CASE ~IsUndefined(itv)
  <2>1. data' = [data EXCEPT ![d] = itv] /\ itv \in Intervals
    BY <1>3 DEF Record, IsResult
  <2>2. IsData(data')
    BY <2>1 DEF IsData, RangeInv
  <2>3. itv # None
    BY <2>1, RangeAssumption
  <2>4. ASSUME claimed', ~failed', NEW e \in Expr PROVE Covers(get_interval(Known', e), val'[e])
    <3>1. CASE ~here
      BY <2>4, <3>1, RunningFacts DEF Known, Execute, DataCovers
    <3>2. CASE here /\ e = d
      <4>1. val'[e] = n
        BY <3>2 DEF Execute, RangeInv
      <4>2. get_interval(Known', e) = itv
        BY <2>1, <2>3, <3>2 DEF Known, get_interval, RangeInv, IsData
      <4> QED
        BY <1>3, <2>4, <3>2, <4>1, <4>2
    <3>3. CASE here /\ e # d
      <4>1. val'[e] = val[e]
        BY <3>3 DEF Execute, RangeInv
      <4>2. get_interval(Known', e) = get_interval(data, e)
        BY <2>1, <3>3 DEF Known, get_interval, RangeInv, IsData
      <4> QED
        BY <3>3, <4>1, <4>2, RunningFacts DEF DataCovers
    <3> QED
      BY <3>1, <3>2, <3>3
  <2>5. Sound'
    BY <2>4 DEF Sound, get_interval
  <2> QED
    BY <1>1, <2>2, <2>5 DEF RangeInv, IsData
<1> QED
  BY <1>2, <1>3

\* A variable is an expression; its interval is one and covers its value on the side of the run.
LEMMA Operand ==
  ASSUME RangeInv, Running, NEW e \in Expr
  PROVE  /\ get_interval(data, e) \in Intervals /\ val[e] \in Int
         /\ here => Covers(get_interval(data, e), val[e])
BY RunningFacts, GetInterval DEF RangeInv, DataCovers

LEMMA BinaryStep ==
  ASSUME RangeInv, analyze_instr_binary
  PROVE  RangeInv'
<1>1. Running /\ UNCHANGED <<other, here>>
  BY DEF analyze_instr_binary
<1>2. PICK d \in Var, e \in Var, f \in Var :
        LET a == get_interval(data, e)
            b == get_interval(data, f)
        IN  \/ Compute(d, add_interval(a, b), val[e] + val[f], BoundsFit(Plus, a, b))
            \/ Compute(d, sub_interval(a, b), val[e] - val[f],
                     NegationFits(b) /\ BoundsFit(Minus, a, b))
            \/ Compute(d, mult_interval(a, b), val[e] * val[f],
                     ClosedEnds(a) /\ ClosedEnds(b) /\ BoundsFit(Times, a, b))
            \/ /\ here => val[f] # 0
               /\ Compute(d, sdiv_interval(a, b), Over(val[e], val[f]), NegationFits(a))
  BY DEF analyze_instr_binary
<1> DEFINE a == get_interval(data, e)
           b == get_interval(data, f)
           x == val[e]
           y == val[f]
<1>3. /\ a \in Intervals /\ b \in Intervals /\ x \in Int /\ y \in Int
      /\ here => Covers(a, x) /\ Covers(b, y)
  BY <1>1, Operand DEF Expr
<1>4. d \in Expr
  BY DEF Expr
<1>5. \/ Compute(d, add_interval(a, b), x + y, BoundsFit(Plus, a, b))
      \/ Compute(d, sub_interval(a, b), x - y, NegationFits(b) /\ BoundsFit(Minus, a, b))
      \/ Compute(d, mult_interval(a, b), x * y,
                 ClosedEnds(a) /\ ClosedEnds(b) /\ BoundsFit(Times, a, b))
      \/ /\ here => y # 0
         /\ Compute(d, sdiv_interval(a, b), Over(x, y), NegationFits(a))
  BY <1>2
<1> HIDE DEF a, b, x, y
<1>6. /\ IsResult(add_interval(a, b)) /\ IsResult(sub_interval(a, b))
      /\ IsResult(mult_interval(a, b)) /\ IsResult(sdiv_interval(a, b))
  BY <1>3, IntervalResults
<1>7. CASE Compute(d, add_interval(a, b), x + y, BoundsFit(Plus, a, b))
  <2>1. claimed' /\ here => Covers(add_interval(a, b), x + y)
    BY <1>3, <1>7, AddIntervalCovers DEF Compute
  <2>2. x + y \in Int
    BY <1>3
  <2> QED
    BY <1>1, <1>4, <1>6, <1>7, <2>1, <2>2, RecordStep DEF Compute
<1>8. CASE Compute(d, sub_interval(a, b), x - y, NegationFits(b) /\ BoundsFit(Minus, a, b))
  <2>1. claimed' /\ here => Covers(sub_interval(a, b), x - y)
    BY <1>3, <1>8, SubIntervalCovers DEF Compute
  <2>2. x - y \in Int
    BY <1>3
  <2> QED
    BY <1>1, <1>4, <1>6, <1>8, <2>1, <2>2, RecordStep DEF Compute
<1>9. CASE Compute(d, mult_interval(a, b), x * y,
                   ClosedEnds(a) /\ ClosedEnds(b) /\ BoundsFit(Times, a, b))
  <2> DEFINE z == x * y
  <2>1. claimed' /\ here /\ ~IsUndefined(mult_interval(a, b)) => Covers(mult_interval(a, b), z)
    BY <1>3, <1>9, MultIntervalCovers DEF Compute
  <2>2. z \in Int
    BY <1>3
  <2>3. Record(d, mult_interval(a, b)) /\ Execute(d, z)
    BY <1>9 DEF Compute
  <2> HIDE DEF z
  <2> QED
    BY <1>1, <1>4, <1>6, <2>1, <2>2, <2>3, RecordStep
<1>10. CASE (here => y # 0) /\ Compute(d, sdiv_interval(a, b), Over(x, y), NegationFits(a))
  <2>1. claimed' /\ here /\ ~IsUndefined(sdiv_interval(a, b)) => Covers(sdiv_interval(a, b), Over(x, y))
    BY <1>3, <1>10, SdivIntervalCovers DEF Compute, Over
  <2>2. Over(x, y) \in Int
    BY <1>3, QuotientType DEF Over
  <2> QED
    BY <1>1, <1>4, <1>6, <1>10, <2>1, <2>2, RecordStep DEF Compute
<1> QED
  BY <1>7, <1>8, <1>9, <1>10, <1>5

LEMMA UdivStep ==
  ASSUME RangeInv, analyze_instr_udiv
  PROVE  RangeInv'
<1>1. Running /\ UNCHANGED <<other, here>>
  BY DEF analyze_instr_udiv
<1>2. PICK d \in Var, e \in Var, f \in Var :
        LET a == get_interval(data, e)
            b == get_interval(data, f)
        IN  /\ here => val[f] > 0 /\ val[e] >= 0
            /\ Compute(d, udiv_interval(a, b), Over(val[e], val[f]),
                     IsPoint(b) /\ BoundsFit(Over, a, b))
  BY DEF analyze_instr_udiv
<1> DEFINE a == get_interval(data, e)
           b == get_interval(data, f)
           x == val[e]
           y == val[f]
<1>3. /\ a \in Intervals /\ b \in Intervals /\ x \in Int /\ y \in Int
      /\ here => Covers(a, x) /\ Covers(b, y)
  BY <1>1, Operand DEF Expr
<1>4. d \in Expr
  BY DEF Expr
<1>5. /\ here => y > 0
      /\ Compute(d, udiv_interval(a, b), Over(x, y), IsPoint(b) /\ BoundsFit(Over, a, b))
  BY <1>2
<1> HIDE DEF a, b, x, y
<1>6. claimed' /\ here /\ ~IsUndefined(udiv_interval(a, b)) => Covers(udiv_interval(a, b), Over(x, y))
  <2> SUFFICES ASSUME claimed', here, ~IsUndefined(udiv_interval(a, b))
               PROVE  Covers(udiv_interval(a, b), Over(x, y))
    OBVIOUS
  <2>1. IsPoint(b) /\ BoundsFit(Over, a, b)
    BY <1>5 DEF Compute
  <2>2. y > 0 /\ Covers(a, x) /\ Covers(b, y)
    BY <1>3, <1>5
  <2>3. Covers(udiv_interval(a, b), Quotient(x, y))
    BY <1>3, <2>1, <2>2, UdivIntervalCovers
  <2>4. Over(x, y) = Quotient(x, y)
    BY <1>3, <2>2 DEF Over
  <2> QED
    BY <2>3, <2>4
<1>7. Over(x, y) \in Int
  BY <1>3, QuotientType DEF Over
<1>8. IsResult(udiv_interval(a, b))
  BY <1>3, IntervalResults
<1> QED
  BY <1>1, <1>4, <1>5, <1>6, <1>7, <1>8, RecordStep DEF Compute

LEMMA PhiStep ==
  ASSUME RangeInv, analyze_instr_phi
  PROVE  RangeInv'
<1>1. Running /\ UNCHANGED <<other, here>>
  BY DEF analyze_instr_phi
<1>2. PICK d, e, f \in Var, widen \in BOOLEAN, first \in BOOLEAN :
        LET a == get_interval(data, e)
            b == get_interval(data, f)
        IN  Compute(d, combine_interval(widen, a, b), IF first THEN val[e] ELSE val[f],
                  EndsAgree(a, b))
  BY DEF analyze_instr_phi
<1> DEFINE a == get_interval(data, e)
           b == get_interval(data, f)
           n == IF first THEN val[e] ELSE val[f]
<1>3. /\ a \in Intervals /\ b \in Intervals /\ n \in Int
      /\ here => Covers(a, n) \/ Covers(b, n)
  BY <1>1, Operand DEF Expr
<1>4. d \in Expr
  BY DEF Expr
<1>5. Compute(d, combine_interval(widen, a, b), n, EndsAgree(a, b))
  BY <1>2
<1> HIDE DEF a, b, n
<1>6. claimed' /\ here => Covers(combine_interval(widen, a, b), n)
  BY <1>3, <1>5, CombineIntervalCovers DEF Compute
<1>7. IsResult(combine_interval(widen, a, b))
  BY <1>3, IntervalResults DEF IsResult
<1> QED
  BY <1>1, <1>3, <1>4, <1>5, <1>6, <1>7, RecordStep DEF Compute

LEMMA Literal ==
  ASSUME NEW c \in Const
  PROVE  /\ c \in Int /\ InWidth(c) /\ Fits(c)
         /\ Int64(c) \in Bounds /\ IsFinite(Int64(c)) /\ Int64(c).val = c
<1>1. c \in Int /\ InWidth(c)
  BY RangeAssumption
<1>2. Fits(c)
  BY <1>1, WidthFits
<1> QED
  BY <1>1, <1>2, FiniteBounds DEF IsFinite

LEMMA ConstStep ==
  ASSUME RangeInv, analyze_instr_const
  PROVE  RangeInv'
<1>1. Running /\ UNCHANGED <<other, here>>
  BY DEF analyze_instr_const
<1>2. PICK d \in Expr, c \in Const : Record(d, interval_of_bound(Int64(c))) /\ Execute(d, c)
  BY DEF analyze_instr_const
<1>3. c \in Int /\ Int64(c) \in Bounds /\ IsFinite(Int64(c)) /\ Int64(c).val = c
  BY Literal
<1> DEFINE b == Int64(c)
<1> HIDE DEF b
<1>4. CanClose(b, TRUE, 1) /\ CanClose(b, TRUE, -1) /\ Above(b, TRUE, c) /\ Below(b, TRUE, c)
  BY <1>3 DEF CanClose, Above, Below, b
<1>5. interval_of_bound(b) \in Ranges /\ Covers(interval_of_bound(b), c)
  BY <1>3, <1>4, MkRange DEF interval_of_bound, b
<1>6. IsResult(interval_of_bound(b))
  BY <1>5 DEF IsResult, Intervals
<1> QED
  BY <1>1, <1>2, <1>3, <1>5, <1>6, RecordStep DEF b

LEMMA CopyStep ==
  ASSUME RangeInv, analyze_instr_copy
  PROVE  RangeInv'
<1>1. Running /\ UNCHANGED <<other, here>>
  BY DEF analyze_instr_copy
<1>2. PICK d, e \in Expr : Record(d, get_interval(data, e)) /\ Execute(d, val[e])
  BY DEF analyze_instr_copy
<1>3. /\ get_interval(data, e) \in Intervals /\ val[e] \in Int
      /\ here => Covers(get_interval(data, e), val[e])
  BY <1>1, Operand
<1>4. IsResult(get_interval(data, e))
  BY <1>3 DEF IsResult
<1> QED
  BY <1>1, <1>2, <1>3, <1>4, RecordStep

LEMMA ZextStep ==
  ASSUME RangeInv, analyze_instr_zext
  PROVE  RangeInv'
<1>1. Running /\ UNCHANGED <<other, here>> /\ ~claimed'
  BY DEF analyze_instr_zext
<1>2. PICK d, e \in Var : /\ Record(d, get_interval(data, e))
                          /\ Execute(d, val[e] + 2 * (MaxVal + 1))
  BY DEF analyze_instr_zext
<1>3. d \in Expr /\ e \in Expr
  BY DEF Expr
<1>4. get_interval(data, e) \in Intervals /\ val[e] \in Int
  BY <1>1, <1>3, Operand
<1>5. IsResult(get_interval(data, e)) /\ val[e] + 2 * (MaxVal + 1) \in Int
  BY <1>4, RangeAssumption DEF IsResult
<1> QED
  BY <1>1, <1>2, <1>3, <1>5, RecordStep

LEMMA AssumeStep ==
  ASSUME RangeInv, analyze_instr_assume
  PROVE  RangeInv'
<1>1. Running /\ UNCHANGED <<other, val, here>>
  BY DEF analyze_instr_assume
<1> DEFINE assumed(l, u) ==
             IF None \in {l, u} THEN Bottom ELSE mk_range(Int64(l), TRUE, Int64(u), TRUE)
<1>2. PICK e \in Var, l, u \in Const \union {None} :
        /\ None \notin {l, u} /\ here => l <= val[e] /\ val[e] <= u
        /\ Record(e, intersect_interval(get_interval(data, e), assumed(l, u)))
        /\ claimed' = (None \notin {l, u})
  BY DEF analyze_instr_assume
<1> DEFINE a == get_interval(data, e)
           r == assumed(l, u)
           x == val[e]
<1>3. e \in Expr
  BY DEF Expr
<1>4. a \in Intervals /\ x \in Int /\ Fits(x) /\ (here => Covers(a, x))
  BY <1>1, <1>3, Operand, RunningFacts
<1>5. None \notin {l, u} => l \in Const /\ u \in Const
  OBVIOUS
<1>6. r \in Intervals
  <2>1. CASE None \in {l, u}
    BY <2>1 DEF Intervals
  <2>2. CASE None \notin {l, u}
    <3>1. Int64(l) \in Bounds /\ Int64(u) \in Bounds
      BY <1>5, <2>2, Literal
    <3> QED
      BY <2>2, <3>1, MkRangeResult DEF Intervals, Results
  <2> QED
    BY <2>1, <2>2
<1>7. ASSUME None \notin {l, u}, here PROVE Covers(r, x)
  <2> DEFINE lb == Int64(l)
             ub == Int64(u)
  <2>1. /\ lb \in Bounds /\ IsFinite(lb) /\ lb.val = l
        /\ ub \in Bounds /\ IsFinite(ub) /\ ub.val = u
        /\ l \in Int /\ u \in Int
    BY <1>5, <1>7, Literal
  <2>2. r = mk_range(lb, TRUE, ub, TRUE)
    BY <1>7
  <2>3. l <= x /\ x <= u
    BY <1>2, <1>7
  <2> HIDE DEF lb, ub, r, x
  <2>4. /\ CanClose(lb, TRUE, 1) /\ CanClose(ub, TRUE, -1)
        /\ Above(lb, TRUE, x) /\ Below(ub, TRUE, x)
    BY <1>4, <2>1, <2>3 DEF CanClose, Above, Below
  <2> QED
    BY <1>4, <2>1, <2>2, <2>4, MkRange
<1>8. Record(e, intersect_interval(a, r)) /\ claimed' = (None \notin {l, u})
  BY <1>2
<1>9. Execute(e, x)
  BY <1>1, <1>3 DEF Execute, RangeInv
<1> HIDE DEF a, r, x, assumed
<1>10. claimed' /\ here => Covers(intersect_interval(a, r), x)
  BY <1>4, <1>6, <1>7, <1>8, IntersectIntervalCovers
<1>11. IsResult(intersect_interval(a, r))
  BY <1>4, <1>6, IntervalResults DEF IsResult
<1> QED
  BY <1>1, <1>3, <1>4, <1>8, <1>9, <1>10, <1>11, RecordStep

\* At a branch: each side is refined by a predicate, and the one of the side the run takes
\* holds for all values.
LEMMA BranchStep ==
  ASSUME RangeInv, Running, NEW p, NEW q, NEW t \in BOOLEAN, Branch(p, q, t),
         IsPredicate(p), IsPredicate(q),
         claimed' => \A e \in Expr : IF t THEN Says(p, e, val[e]) ELSE Says(q, e, val[e])
  PROVE  RangeInv'
<1>1. /\ other = None /\ data' = Refine(data, p) /\ other' = Refine(data, q)
      /\ here' = (here /\ t) /\ val' = val
  BY DEF Branch
<1>2. here /\ IsData(data)
  BY <1>1 DEF RangeInv
<1>3. IsData(data') /\ IsData(other')
  BY <1>1, <1>2, RefineType
<1>4. other' # None
  BY <1>3, RangeAssumption DEF IsData
<1>5. ASSUME claimed', NEW e \in Expr PROVE Covers(get_interval(Known', e), val[e])
  <2>1. val[e] \in Int /\ Fits(val[e]) /\ DataCovers(data, e, val[e])
    BY <1>2, RunningFacts
  <2>2. CASE t
    <3>1. DataCovers(Refine(data, p), e, val[e])
      BY <1>2, <1>5, <2>1, <2>2, RefineCovers
    <3>2. Known' = Refine(data, p)
      BY <1>1, <1>2, <2>2 DEF Known
    <3> QED
      BY <3>1, <3>2 DEF DataCovers
  <2>3. CASE ~t
    <3>1. DataCovers(Refine(data, q), e, val[e])
      BY <1>2, <1>5, <2>1, <2>3, RefineCovers
    <3>2. Known' = Refine(data, q)
      BY <1>1, <1>2, <2>3 DEF Known
    <3> QED
      BY <3>1, <3>2 DEF DataCovers
  <2> QED
    BY <2>2, <2>3
<1>6. Sound'
  BY <1>1, <1>5 DEF Sound, get_interval
<1> QED
  BY <1>1, <1>3, <1>4, <1>6 DEF RangeInv, IsData

LEMMA CompareBoolean ==
  ASSUME NEW cmp \in Cmps, NEW x \in Int, NEW y \in Int
  PROVE  Compare(cmp, x, y) \in BOOLEAN
<1>1. CASE cmp \in {"Eq", "Ne"}
  BY <1>1 DEF Compare
<1>2. CASE cmp = "Gt"
  BY <1>2 DEF Compare
<1>3. CASE cmp = "Ge"
  BY <1>3 DEF Compare
<1>4. CASE cmp = "Lt"
  BY <1>4 DEF Compare
<1>5. CASE cmp = "Le"
  BY <1>5 DEF Compare
<1> QED
  BY <1>1, <1>2, <1>3, <1>4, <1>5 DEF Cmps

\* Unsigned comparisons are the signed ones of equality, and of integers that are not
\* negative.
LEMMA UnsignedCompare ==
  ASSUME NEW cmp \in Cmps, NEW x \in Int, NEW y \in Int, InWidth(x), InWidth(y)
  PROVE  /\ Compare(cmp, Unsigned(x), Unsigned(y)) \in BOOLEAN
         /\ cmp \in {"Eq", "Ne"} \/ (x >= 0 /\ y >= 0) =>
              (Compare(cmp, Unsigned(x), Unsigned(y)) <=> Compare(cmp, x, y))
<1>1. Unsigned(x) \in Int /\ Unsigned(y) \in Int
  BY RangeAssumption DEF Unsigned
<1>2. Unsigned(x) = Unsigned(y) <=> x = y
  BY RangeAssumption DEF Unsigned, InWidth
<1>3. x >= 0 /\ y >= 0 => Unsigned(x) = x /\ Unsigned(y) = y
  BY DEF Unsigned
<1>4. cmp \in {"Eq", "Ne"} => (Compare(cmp, Unsigned(x), Unsigned(y)) <=> Compare(cmp, x, y))
  <2>1. CASE cmp = "Eq"
    BY <1>2, <2>1 DEF Compare
  <2>2. CASE cmp = "Ne"
    BY <1>2, <2>2 DEF Compare
  <2> QED
    BY <2>1, <2>2
<1> QED
  BY <1>1, <1>3, <1>4, CompareBoolean

LEMMA ConstPredicateSays ==
  ASSUME NEW e \in Expr, NEW cmp \in Cmps, NEW c \in Const
  PROVE  /\ IsPredicate(ConstPredicate(e, cmp, c))
         /\ \A f \in Expr, x \in Int :
              Fits(x) /\ (f = e => Compare(cmp, x, c)) => Says(ConstPredicate(e, cmp, c), f, x)
<1>1. Int64(c) \in Bounds /\ IsFinite(Int64(c)) /\ Int64(c).val = c
  BY Literal
<1>2. FromConst(cmp, Int64(c)) \in Intervals \union {None}
  BY <1>1, FromConstType
<1>3. \A x \in Int : Fits(x) /\ Compare(cmp, x, c) =>
        FromConst(cmp, Int64(c)) = None \/ Covers(FromConst(cmp, Int64(c)), x)
  BY <1>1, FromConstCovers
<1> QED
  BY <1>2, <1>3 DEF IsPredicate, ConstPredicate, Says

LEMMA BranchOnConstStep ==
  ASSUME RangeInv, branch_on_const
  PROVE  RangeInv'
<1>1. Running
  BY DEF branch_on_const
<1>2. PICK e \in Var, cmp \in Cmps, c \in Const, signed \in BOOLEAN :
        /\ Branch(ConstPredicate(e, cmp, c), ConstPredicate(e, negate_icmp(cmp), c),
                  IF signed THEN Compare(cmp, val[e], c)
                  ELSE Compare(cmp, Unsigned(val[e]), Unsigned(c)))
        /\ claimed' = (signed \/ cmp \in {"Eq", "Ne"} \/ (val[e] >= 0 /\ c >= 0))
  BY DEF branch_on_const
<1> DEFINE t == IF signed THEN Compare(cmp, val[e], c)
                ELSE Compare(cmp, Unsigned(val[e]), Unsigned(c))
           p == ConstPredicate(e, cmp, c)
           q == ConstPredicate(e, negate_icmp(cmp), c)
<1>3. e \in Expr /\ negate_icmp(cmp) \in Cmps /\ c \in Int /\ InWidth(c)
  BY Comparisons, Literal DEF Expr
<1>4. \A f \in Expr : val[f] \in Int /\ InWidth(val[f]) /\ Fits(val[f])
  BY <1>1, RunningFacts
<1>5. IsPredicate(p) /\ IsPredicate(q)
  BY <1>3, ConstPredicateSays
<1>6. t \in BOOLEAN /\ (claimed' => (t <=> Compare(cmp, val[e], c)))
  <2>1. Compare(cmp, val[e], c) \in BOOLEAN
    BY <1>3, <1>4, CompareBoolean
  <2>2. /\ Compare(cmp, Unsigned(val[e]), Unsigned(c)) \in BOOLEAN
        /\ cmp \in {"Eq", "Ne"} \/ (val[e] >= 0 /\ c >= 0) =>
             (Compare(cmp, Unsigned(val[e]), Unsigned(c)) <=> Compare(cmp, val[e], c))
    BY <1>3, <1>4, UnsignedCompare
  <2>3. CASE signed
    BY <2>1, <2>3
  <2>4. CASE ~signed
    BY <1>2, <2>2, <2>4
  <2> QED
    BY <2>3, <2>4
<1>7. Branch(p, q, t)
  BY <1>2
<1> HIDE DEF t
<1>8. ASSUME claimed', NEW f \in Expr
      PROVE  IF t THEN Says(p, f, val[f]) ELSE Says(q, f, val[f])
  <2>1. CASE t
    <3>1. Compare(cmp, val[e], c)
      BY <1>6, <1>8, <2>1
    <3> QED
      BY <1>3, <1>4, <2>1, <3>1, ConstPredicateSays
  <2>2. CASE ~t
    <3>1. Compare(negate_icmp(cmp), val[e], c)
      BY <1>3, <1>4, <1>6, <1>8, <2>2, Comparisons
    <3> QED
      BY <1>3, <1>4, <2>2, <3>1, ConstPredicateSays
  <2> QED
    BY <2>1, <2>2
<1> HIDE DEF p, q
<1> QED
  BY <1>1, <1>5, <1>6, <1>7, <1>8, BranchStep

LEMMA VarPredicateSays ==
  ASSUME RangeInv, NEW e \in Expr, NEW cmp \in Cmps, NEW f \in Expr, e # f
  PROVE  /\ IsPredicate(VarPredicate(e, cmp, f))
         /\ \A x, y \in Int :
              /\ IsPoint(get_interval(data, e)) /\ IsPoint(get_interval(data, f))
              /\ DataCovers(data, e, x) /\ DataCovers(data, f, y)
              /\ Fits(x) /\ Fits(y) /\ Compare(cmp, x, y)
              => /\ Says(VarPredicate(e, cmp, f), e, x)
                 /\ Says(VarPredicate(e, cmp, f), f, y)
         /\ \A g \in Expr \ {e, f} : \A z : Says(VarPredicate(e, cmp, f), g, z)
<1> DEFINE a == get_interval(data, e)
           b == get_interval(data, f)
           p == VarPredicate(e, cmp, f)
<1>1. a \in Intervals /\ b \in Intervals
  BY GetInterval DEF RangeInv
<1>2. /\ DOMAIN p = {e, f}
      /\ p[e] = FromInterval(cmp, b)
      /\ p[f] = FromInterval(Mirror(cmp), a)
  BY DEF VarPredicate
<1> HIDE DEF p, a, b
<1>3. Mirror(cmp) \in Cmps
  BY Comparisons, 0 \in Int
<1>4. IsPredicate(p)
  BY <1>1, <1>2, <1>3, FromIntervalType DEF IsPredicate
<1>5. ASSUME NEW x \in Int, NEW y \in Int, IsPoint(a), IsPoint(b), Covers(a, x), Covers(b, y),
             Fits(x), Fits(y), Compare(cmp, x, y)
      PROVE  Says(p, e, x) /\ Says(p, f, y)
  <2>1. Compare(Mirror(cmp), y, x)
    BY <1>5, Comparisons
  <2>2. FromInterval(cmp, b) = None \/ Covers(FromInterval(cmp, b), x)
    BY <1>1, <1>5, FromIntervalCovers
  <2>3. FromInterval(Mirror(cmp), a) = None \/ Covers(FromInterval(Mirror(cmp), a), y)
    BY <1>1, <1>3, <1>5, <2>1, FromIntervalCovers
  <2> QED
    BY <1>2, <2>2, <2>3 DEF Says
<1>6. \A g \in Expr \ {e, f} : \A z : Says(p, g, z)
  BY <1>2 DEF Says
<1> QED
  BY <1>4, <1>5, <1>6 DEF p, a, b, DataCovers

LEMMA BranchOnVarStep ==
  ASSUME RangeInv, branch_on_var
  PROVE  RangeInv'
<1>1. Running
  BY DEF branch_on_var
<1>2. PICK e, f \in Var, cmp \in Cmps :
        /\ e # f
        /\ Branch(VarPredicate(e, cmp, f), VarPredicate(e, negate_icmp(cmp), f),
                  Compare(cmp, val[e], val[f]))
        /\ claimed' = (IsPoint(get_interval(data, e)) /\ IsPoint(get_interval(data, f)))
  BY DEF branch_on_var
<1> DEFINE t == Compare(cmp, val[e], val[f])
           p == VarPredicate(e, cmp, f)
           q == VarPredicate(e, negate_icmp(cmp), f)
<1>3. e \in Expr /\ f \in Expr
  BY DEF Expr
<1>4. \A g \in Expr : val[g] \in Int /\ Fits(val[g])
  BY <1>1, RunningFacts
<1>5. /\ negate_icmp(cmp) \in Cmps
      /\ Compare(negate_icmp(cmp), val[e], val[f]) <=> ~t
      /\ t \in BOOLEAN
  BY <1>3, <1>4, Comparisons, CompareBoolean
<1>6. IsPredicate(p) /\ IsPredicate(q)
  BY <1>2, <1>3, <1>5, VarPredicateSays
<1>7. Branch(p, q, t)
  BY <1>2
<1>8. here
  BY <1>2 DEF Branch, RangeInv
<1>9. DataCovers(data, e, val[e]) /\ DataCovers(data, f, val[f])
  BY <1>1, <1>3, <1>8, RunningFacts
<1>10. ASSUME claimed', NEW g \in Expr
       PROVE  IF t THEN Says(p, g, val[g]) ELSE Says(q, g, val[g])
  <2>1. IsPoint(get_interval(data, e)) /\ IsPoint(get_interval(data, f))
    BY <1>2, <1>10
  <2>2. CASE g \notin {e, f}
    BY <1>2, <1>3, <1>5, <2>2, VarPredicateSays
  <2>3. CASE g \in {e, f} /\ t
    BY <1>2, <1>3, <1>4, <1>9, <2>1, <2>3, VarPredicateSays
  <2>4. CASE g \in {e, f} /\ ~t
    BY <1>2, <1>3, <1>4, <1>5, <1>9, <2>1, <2>4, VarPredicateSays
  <2> QED
    BY <2>2, <2>3, <2>4
<1> HIDE DEF p, q, t
<1> QED
  BY <1>1, <1>5, <1>6, <1>7, <1>10, BranchStep

LEMMA OtherSideStep ==
  ASSUME RangeInv, OtherSide
  PROVE  RangeInv'
<1>1. /\ Running /\ other # None /\ data' = other /\ other' = data
      /\ here' = ~here /\ val' = val /\ claimed' = claimed /\ failed' = failed
  BY DEF OtherSide
<1>2. IsData(data) /\ data # None
  BY RangeAssumption DEF RangeInv, IsData
<1>3. Known' = Known
  BY <1>1 DEF Known, RangeInv
<1>4. Sound'
  BY <1>1, <1>3 DEF Sound, RangeInv, get_interval
<1> QED
  BY <1>1, <1>2, <1>4 DEF RangeInv, IsData

LEMMA MergeStep ==
  ASSUME RangeInv, Merge
  PROVE  RangeInv'
<1>1. /\ Running /\ other # None /\ data' = merge_data(data, other) /\ other' = None
      /\ here' = TRUE /\ val' = val
  BY DEF Merge
<1>2. IsData(data) /\ IsData(other)
  BY <1>1 DEF RangeInv
<1>3. IsData(merge_data(data, other))
  BY <1>2, MergeType
<1>4. ASSUME claimed', NEW e \in Expr PROVE Covers(get_interval(data', e), val[e])
  <2>1. val[e] \in Int /\ DataCovers(Known, e, val[e])
    BY <1>1, RunningFacts
  <2>2. Known \in {data, other} /\ Known = (IF here THEN data ELSE other)
    BY DEF Known
  <2>3. /\ Known[e] = None => merge_data(data, other)[e] = None
        /\ None \in {data[e], other[e]} \/ EndsAgree(data[e], other[e])
    BY <1>4, <2>2 DEF Merge, EntryMissing
  <2>4. DataCovers(merge_data(data, other), e, val[e])
    BY <1>2, <2>1, <2>2, <2>3, MergeCovers
  <2> QED
    BY <1>1, <2>4 DEF DataCovers
<1>5. Sound'
  BY <1>1, <1>4 DEF Sound, Known, get_interval
<1> QED
  BY <1>1, <1>3, <1>5 DEF RangeInv, IsData

LEMMA RangeStep ==
  ASSUME RangeInv, [Next]_vars
  PROVE  RangeInv'
<1>1. CASE Stop \/ UNCHANGED vars
  BY <1>1 DEF Stop, vars, RangeInv, IsData, Sound, Known, get_interval
<1> QED
  BY <1>1, BinaryStep, UdivStep, ConstStep, CopyStep, ZextStep, PhiStep, AssumeStep,
     BranchOnConstStep, BranchOnVarStep, OtherSideStep, MergeStep DEF Next

LEMMA RangeInvCorrect == Spec => []RangeInv
BY RangeInit, RangeStep, PTL DEF Spec

\* Along every path, of any length, and for integers of any width, every value of the run
\* is in the interval that the analysis keeps for it, at whichever side of a branch the
\* analysis is, as long as every step was one the intervals are made for.
THEOREM SoundCorrect == Spec => []Sound
<1>1. RangeInv => Sound
  BY DEF RangeInv
<1> QED
  BY <1>1, RangeInvCorrect, PTL

\* An interval that lequal_interval puts below another, upon which the engine stops,
\* covers no value of the run that the other does not.
THEOREM OrderSoundCorrect == Spec => []OrderSound
<1>1. RangeInv => OrderSound
  <2> SUFFICES ASSUME RangeInv, claimed, ~failed, NEW e \in Expr, NEW f \in Expr,
                      lequal_interval(get_interval(Known, e), get_interval(Known, f))
               PROVE  Covers(get_interval(Known, f), val[e])
    BY DEF OrderSound
  <2> DEFINE a == get_interval(Known, e)
             b == get_interval(Known, f)
  <2>1. IsData(Known)
    BY DEF RangeInv, Known
  <2>2. a \in Intervals /\ b \in Intervals /\ val[e] \in Int
    BY <2>1, GetInterval DEF RangeInv
  <2>3. Covers(a, val[e])
    BY DEF RangeInv, Sound
  <2> HIDE DEF a, b
  <2>4. a \in Ranges /\ a # Bottom
    BY <2>2, <2>3, CoveringRange
  <2>5. lequal_range(a, b) /\ b \in Ranges
    BY <2>2, <2>4 DEF lequal_interval, Intervals, a, b
  <2>6. Covers(b, val[e])
    BY <2>2, <2>3, <2>4, <2>5, LequalCovers
  <2> QED
    BY <2>6 DEF b
<1> QED
  BY <1>1, RangeInvCorrect, PTL

\* A range that covers a large integer has a large upper end.
LEMMA UpperEnd ==
  ASSUME NEW a \in Intervals, NEW x \in Int, Covers(a, x), NEW n \in Int
  PROVE  /\ x > n => less_bound(EInt(n), a.ub)
         /\ x >= n => UpperAtLeast(a, n)
<1>1. a \in Ranges /\ a # Bottom
  BY CoveringRange
<1>2. a.ub \in Bounds /\ a.ui \in BOOLEAN
  BY <1>1, RangeFields
<1>3. a.ub.val \in Int /\ Below(a.ub, a.ui, x)
  BY <1>1, <1>2, BoundKinds, CoversDef
<1>4. EInt(n) \in Bounds /\ IsFinite(EInt(n)) /\ EInt(n).val = n
  BY FiniteBounds DEF IsFinite
<1>5. EInt(n) # PInf
  BY <1>4, NotInfinite
<1>6. CASE a.ub = PInf
  BY <1>1, <1>5, <1>6, <1>4, <1>2, NotInfinite DEF less_bound, lequal_bound, UpperAtLeast
<1>7. CASE a.ub # PInf
  <2>1. IsFinite(a.ub) /\ (x < a.ub.val \/ (a.ui /\ a.ub.val = x)) /\ a.ub # NInf
    BY <1>2, <1>3, <1>7, NotInfinite DEF Below
  <2>2. x > n => ~(a.ub.val <= n)
    BY <1>3, <2>1
  <2>3. x >= n => (IF a.ui THEN a.ub.val ELSE a.ub.val - 1) >= n
    <3>1. CASE a.ui
      BY <1>3, <2>1, <3>1
    <3>2. CASE ~a.ui
      BY <1>3, <2>1, <3>2
    <3> QED
      BY <3>1, <3>2
  <2> QED
    BY <1>1, <1>4, <1>5, <2>1, <2>2, <2>3 DEF less_bound, lequal_bound, UpperAtLeast
<1> QED
  BY <1>6, <1>7

\* check_bug_integer_overflow reports every result too large for its type, and
\* check_bug_buffer_overflow every index behind the end of an array, whatever the path.
THEOREM NoOverflowMissedCorrect == Spec => []NoOverflowMissed
<1>1. RangeInv => NoOverflowMissed
  <2> SUFFICES ASSUME RangeInv, claimed, ~failed, NEW e \in Expr
               PROVE  LET a == get_interval(Known, e)
                      IN  /\ val[e] > MaxVal => check_bug_integer_overflow(a)
                          /\ \A n \in Const : val[e] >= n => check_bug_buffer_overflow(a, n)
    BY DEF NoOverflowMissed
  <2> DEFINE a == get_interval(Known, e)
  <2>1. IsData(Known)
    BY DEF RangeInv, Known
  <2>2. a \in Intervals /\ val[e] \in Int
    BY <2>1, GetInterval DEF RangeInv
  <2>3. Covers(a, val[e])
    BY DEF RangeInv, Sound
  <2> HIDE DEF a
  <2>4. a # Bottom
    BY <2>2, <2>3, CoveringRange
  <2>5. val[e] > MaxVal => check_bug_integer_overflow(a)
    BY <2>2, <2>3, <2>4, UpperEnd, RangeAssumption DEF check_bug_integer_overflow
  <2>6. ASSUME NEW n \in Const, val[e] >= n PROVE check_bug_buffer_overflow(a, n)
    BY <2>2, <2>3, <2>6, UpperEnd, RangeAssumption DEF check_bug_buffer_overflow
  <2> QED
    BY <2>5, <2>6 DEF a
<1> QED
  BY <1>1, RangeInvCorrect, PTL

===============================================================================
