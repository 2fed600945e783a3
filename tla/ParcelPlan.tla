------------------------------- MODULE ParcelPlan -------------------------------
(***************************************************************************)
(* How an order becomes parcels and its cash on delivery the sum each of   *)
(* them collects.  Money is counted in grosze, goods in half-packs of six  *)
(* bottles.                                                                *)
(***************************************************************************)
EXTENDS Bottles, FiniteSets

ParcelType == {"3-pak", "2-pak", "1-pak", "half", "glass", "glass2"}
GlassType == {"glass", "glass2"}

\* a box's sides, shortest first, in centimetres, and its weight
Box(a, b, c, kg) == [sides |-> <<a, b, c>>, kg |-> kg]
ParcelSpec ==
    [t \in ParcelType |->
        CASE t = "3-pak" -> Box(20, 40, 40, 18)
          [] t = "2-pak" -> Box(20, 30, 40, 12)
          [] t = "1-pak" -> Box(20, 20, 30, 6)
          [] t = "half"  -> Box(15, 20, 20, 3)
          [] OTHER       -> Box(20, 30, 30, 9)]

\* half-packs a box holds
Room == [t \in ParcelType |->
            CASE t = "3-pak" -> 6 [] t \in {"2-pak", "glass2"} -> 4
              [] t = "half" -> 1 [] OTHER -> 2]

(***************************************************************************)
(* A line of an order: what it is, how many, what all of them cost.        *)
(***************************************************************************)
NoValue == -1
OrderLine == [name : Name, qty : Nat, value : Nat \cup {NoValue}]
LineTotal(price, qty, discount) ==
    IF price = NoValue \/ price * qty < discount THEN NoValue
    ELSE price * qty - discount

\* what the customer pays for delivery: of each shipping line the discounted
\* price, or the price when there is none; an unreadable one counts nothing
ShippingPrice(charges) ==
    Sum([k \in DOMAIN charges |->
            IF charges[k].discounted # NoValue THEN charges[k].discounted
            ELSE IF charges[k].price # NoValue THEN charges[k].price ELSE 0])

HalfPacks(line) ==
    LET bottles == BottlesPerUnit(line.name) * line.qty
    IN IF BottlesPerUnit(line.name) > 0 THEN (bottles + 5) \div 6 ELSE 2 * line.qty

Packable(lines) == {i \in DOMAIN lines : ~lines[i].name.skip /\ HalfPacks(lines[i]) > 0}

\* half-packs of glass, or of the rest, in the lines before line n
GoodsBefore(lines, glass, n) ==
    Sum([i \in 1..(n - 1) |->
            IF i \in Packable(lines) /\ lines[i].name.glass = glass
            THEN HalfPacks(lines[i]) ELSE 0])
Goods(lines, glass) == GoodsBefore(lines, glass, Len(lines) + 1)

\* lines somebody has to look at: named, and no number of bottles to be read
Unreadable(lines) ==
    {i \in Packable(lines) : BottlesPerUnit(lines[i].name) = 0}

\* plastic into the largest boxes there are, glass in boxes of one pack
CalcPackages(lines) ==
    LET plastic == Goods(lines, FALSE)
        whole == plastic \div 2
        Row(t, n) == IF n > 0 THEN <<[type |-> t, qty |-> n]>> ELSE <<>>
    IN Row("3-pak", whole \div 3) \o Row("2-pak", (whole % 3) \div 2)
       \o Row("1-pak", (whole % 3) % 2) \o Row("half", plastic % 2)
       \o Row("glass", (Goods(lines, TRUE) + 1) \div 2)

\* a row of the suspended type stands for twice as many boxes of the other
BoxType(row) == IF row.type = "glass2" THEN "glass" ELSE row.type
Boxed(row) == IF row.type = "glass2" THEN 2 * row.qty ELSE row.qty

\* the boxes of a plan, each by its row and its number there, and their order
Boxes(plan) == UNION {{<<r, k>> : k \in 1..Boxed(plan[r])} : r \in DOMAIN plan}
Earlier(b, c) == b[1] < c[1] \/ (b[1] = c[1] /\ b[2] < c[2])

\* one parcel for each box, in their order; of no box at all, one
PhysicalParcels(plan) ==
    LET boxes == Boxes(plan)
        At(p) == CHOOSE b \in boxes : Cardinality({c \in boxes : Earlier(c, b)}) = p - 1
        Packed(b) == [type |-> BoxType(plan[b[1]]), number |-> b[2], of |-> Boxed(plan[b[1]])]
    IN IF boxes = {} THEN <<[type |-> "1-pak", number |-> 1, of |-> 1]>>
       ELSE Listed([p \in 1..Cardinality(boxes) |-> Packed(At(p))])

\* what the courier's label says of a parcel
Reference(parcel) ==
    [glass |-> parcel.type \in GlassType, size |-> parcel.type,
     number |-> IF parcel.of > 1 THEN parcel.number ELSE 0,
     of |-> IF parcel.of > 1 THEN parcel.of ELSE 0]

\* the sides of each carrier's largest slot, shortest first, and its limit
LargeSlot == [c \in {"inpost", "orlen", "dpd_automat", "dpd_punkt"} |->
                CASE c = "inpost"      -> Box(38, 41, 64, 25)
                  [] c = "orlen"       -> Box(38, 41, 60, 20)
                  [] c = "dpd_automat" -> Box(44, 50, 59, 20)
                  [] OTHER             -> Box(38, 41, 64, 20)]

\* rows a carrier's locker cannot take
FitWarnings(plan, carrier) ==
    {r \in DOMAIN plan :
        \/ \E s \in 1..3 :
              ParcelSpec[plan[r].type].sides[s] > LargeSlot[carrier].sides[s]
        \/ ParcelSpec[plan[r].type].kg > LargeSlot[carrier].kg}

\* total in parts as large as the weights, the spare grosze to the largest
\* fractions, of equal ones to the earlier
LargestRemainder(total, weight) ==
    LET all == Sum(weight)
        part == Listed([p \in DOMAIN weight |-> (total * weight[p]) \div all])
        left == Listed([p \in DOMAIN weight |-> (total * weight[p]) % all])
        spare == total - Sum(part)
        ahead(p) == {q \in DOMAIN weight :
                        left[q] > left[p] \/ (left[q] = left[p] /\ q < p)}
    IN Listed([p \in DOMAIN weight |->
            IF total > 0 /\ Cardinality(ahead(p)) < spare THEN part[p] + 1 ELSE part[p]])

Overlap(a, b, c, d) ==
    LET from == IF a > c THEN a ELSE c
        to == IF b < d THEN b ELSE d
    IN IF to > from THEN to - from ELSE 0

(***************************************************************************)
(* Half-packs of line i in parcel p.  Lines fill the boxes of their        *)
(* material in order; what the boxes cannot hold is in the last of them,   *)
(* or in the last parcel when none is of that material.                    *)
(***************************************************************************)
Taken(lines, parcels, p, i) ==
    LET glass == lines[i].name.glass
        boxes == {q \in DOMAIN parcels : (parcels[q].type \in GlassType) = glass}
        start == GoodsBefore(lines, glass, i)
        before == Sum([q \in 1..(p - 1) |->
                        IF q \in boxes THEN Room[parcels[q].type] ELSE 0])
        end == IF \E q \in boxes : q > p THEN before + Room[parcels[p].type]
               ELSE Goods(lines, glass)
    IN IF p \in boxes THEN Overlap(start, start + HalfPacks(lines[i]), before, end)
       ELSE IF boxes = {} /\ p = Len(parcels) THEN HalfPacks(lines[i])
       ELSE 0

\* what the goods in each parcel are worth, times the product of all the
\* lines' sizes; no value known, or nothing of value: all alike
Weights(lines, parcels) ==
    LET packed == Packable(lines)
        size == [i \in DOMAIN lines |-> IF i \in packed THEN HalfPacks(lines[i]) ELSE 1]
        product[n \in 0..Len(lines)] == IF n = 0 THEN 1 ELSE product[n - 1] * size[n]
        scale == product[Len(lines)]
        worth == Listed([p \in DOMAIN parcels |->
                    Sum([i \in DOMAIN lines |->
                            IF i \in packed
                            THEN lines[i].value * Taken(lines, parcels, p, i)
                                    * (scale \div size[i])
                            ELSE 0])])
    IN IF (\E i \in packed : lines[i].value = NoValue) \/ Sum(worth) = 0
       THEN [p \in DOMAIN parcels |-> 1] ELSE worth

\* what each parcel collects; <<>> when that cannot be said
CodAllocation(order, plan) ==
    LET parcels == PhysicalParcels(plan)
        delivery == LargestRemainder(order.shipping, [p \in DOMAIN parcels |-> 1])
        goods == LargestRemainder(order.cod - order.shipping, Weights(order.lines, parcels))
        parts == Listed([p \in DOMAIN parcels |-> delivery[p] + goods[p]])
    IN IF order.shipping > order.cod \/ \E p \in DOMAIN parts : parts[p] = 0
       THEN <<>> ELSE parts
=============================================================================
