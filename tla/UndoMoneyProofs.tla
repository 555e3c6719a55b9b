---------------------------- MODULE UndoMoneyProofs ----------------------------
(***************************************************************************)
(* More proofs about UndoTower: that no order of edits, time, undos and     *)
(* redos takes back at its full price a build that was used.                *)
(***************************************************************************)
EXTENDS UndoTowerProofs, Induction

-----------------------------------------------------------------------------
(* What a build must have cost.                                            *)

Most(a, b) == IF a > b THEN a ELSE b

(* The least that a build of kind k with c cars must have cost by now, of  *)
(* which u was used: while it stands, and once it is gone; and the most a  *)
(* sale pays back for it.                                                  *)
Stand(k, c, u) ==
    Price[k] + IF k = "shaft" THEN More(c, 1) * CarPrice
                                   + More(u, Most(c, 1)) * (CarPrice - CarRefund)
               ELSE 0
Gone(k, u) ==
    IF u = 0 THEN 0
    ELSE Price[k] - Refund(k)
         + IF k = "shaft" THEN More(u, 1) * (CarPrice - CarRefund) ELSE 0
Back(k, c) == Refund(k) + IF k = "shaft" THEN More(c, 1) * CarRefund ELSE 0

LEMMA Times ==
    ASSUME NEW a \in Nat, NEW b \in Nat, NEW p \in Nat
    PROVE  /\ a * p \in Nat /\ (a + b) * p = a * p + b * p
           /\ a <= b => a * p <= b * p
           /\ 0 * p = 0 /\ 1 * p = p
<1>1. ASSUME a <= b PROVE a * p <= b * p
  <2>1. b - a \in Nat /\ b = a + (b - a)
    BY <1>1
  <2>2. (b - a) * p \in Nat
    BY <2>1
  <2>3. b * p = a * p + (b - a) * p
    OBVIOUS
  <2>4. a * p \in Nat /\ b * p \in Nat
    OBVIOUS
  <2> QED BY <2>2, <2>3, <2>4
<1> QED BY <1>1

\* Half of a price comes back.
LEMMA Halves ==
    /\ CarRefund \in Nat /\ CarPrice \in Nat /\ CarPrice - CarRefund \in Nat
    /\ \A k \in Kinds : /\ Price[k] \in Nat /\ Refund(k) \in Nat
                        /\ Price[k] - Refund(k) \in Nat
BY NumberAssumption DEF Refund, CarRefund

LEMMA CostTypes ==
    ASSUME NEW k \in Kinds, NEW c \in Nat, NEW u \in Nat
    PROVE  /\ Stand(k, c, u) \in Nat /\ Gone(k, u) \in Nat /\ Back(k, c) \in Nat
           /\ Gone(k, 0) = 0 /\ Refund(k) <= Back(k, c)
<1>1. More(c, 1) \in Nat /\ More(u, Most(c, 1)) \in Nat /\ More(u, 1) \in Nat
  BY DEF More, Most
<1>2. /\ More(c, 1) * CarPrice \in Nat /\ More(c, 1) * CarRefund \in Nat
      /\ More(u, Most(c, 1)) * (CarPrice - CarRefund) \in Nat
      /\ More(u, 1) * (CarPrice - CarRefund) \in Nat
  BY <1>1, Halves, Times
<1> QED BY <1>2, Halves DEF Stand, Gone, Back

\* What d - c more cars add: the price of those bought above the first, less what
\* was lost already on cars used before.
Adding(c, d)    == More(d, Most(c, 1))
Losing(c, d, u) == More(u, Most(c, 1)) - More(u, Most(d, 1))

LEMMA CarsAdd ==
    ASSUME NEW c \in Nat, NEW d \in Nat, c <= d, NEW u \in Nat
    PROVE  /\ Adding(c, d) \in Nat /\ Losing(c, d, u) \in Nat
           /\ Losing(c, d, u) <= Adding(c, d) /\ Adding(c, d) <= d - c
           /\ \A v \in Nat : u <= v => Losing(c, d, u) <= Losing(c, d, v)
           /\ \A k \in Kinds :
                /\ k = "shaft" =>
                     /\ Stand(k, d, u) - Stand(k, c, u)
                          = Adding(c, d) * CarPrice
                            - Losing(c, d, u) * (CarPrice - CarRefund)
                     /\ Back(k, d) - Back(k, c) = Adding(c, d) * CarRefund
                /\ k # "shaft" =>
                     Stand(k, d, u) = Stand(k, c, u) /\ Back(k, d) = Back(k, c)
<1>1. /\ Adding(c, d) \in Nat /\ Losing(c, d, u) \in Nat
      /\ Losing(c, d, u) <= Adding(c, d) /\ Adding(c, d) <= d - c
      /\ More(d, 1) = More(c, 1) + Adding(c, d)
      /\ More(c, 1) \in Nat /\ More(u, Most(d, 1)) \in Nat
      /\ More(u, Most(c, 1)) = More(u, Most(d, 1)) + Losing(c, d, u)
  BY DEF Adding, Losing, More, Most
<1>2. \A v \in Nat : u <= v => Losing(c, d, u) <= Losing(c, d, v)
  BY DEF Losing, More, Most
<1> DEFINE D == CarPrice - CarRefund
<1>3. D \in Nat /\ CarPrice \in Nat /\ CarRefund \in Nat
  BY Halves
<1>4. /\ More(d, 1) * CarPrice = More(c, 1) * CarPrice + Adding(c, d) * CarPrice
      /\ More(d, 1) * CarRefund = More(c, 1) * CarRefund + Adding(c, d) * CarRefund
      /\ More(u, Most(c, 1)) * D = More(u, Most(d, 1)) * D + Losing(c, d, u) * D
  BY <1>1, <1>3, Times
<1>5. /\ More(c, 1) * CarPrice \in Nat /\ Adding(c, d) * CarPrice \in Nat
      /\ More(c, 1) * CarRefund \in Nat /\ Adding(c, d) * CarRefund \in Nat
      /\ More(u, Most(d, 1)) * D \in Nat /\ Losing(c, d, u) * D \in Nat
  BY <1>1, <1>3, Times
<1>6. ASSUME NEW k \in Kinds, k = "shaft"
      PROVE  /\ Stand(k, d, u) - Stand(k, c, u)
                  = Adding(c, d) * CarPrice - Losing(c, d, u) * D
             /\ Back(k, d) - Back(k, c) = Adding(c, d) * CarRefund
  <2>1. /\ Stand(k, d, u) = Price[k] + (More(d, 1) * CarPrice + More(u, Most(d, 1)) * D)
        /\ Stand(k, c, u) = Price[k] + (More(c, 1) * CarPrice + More(u, Most(c, 1)) * D)
        /\ Back(k, d) = Refund(k) + More(d, 1) * CarRefund
        /\ Back(k, c) = Refund(k) + More(c, 1) * CarRefund
    BY <1>6 DEF Stand, Back
  <2>2. Price[k] \in Nat /\ Refund(k) \in Nat
    BY Halves
  <2> HIDE DEF D
  <2> QED BY <1>4, <1>5, <2>1, <2>2
<1>7. \A k \in Kinds : k # "shaft" =>
         Stand(k, d, u) = Stand(k, c, u) /\ Back(k, d) = Back(k, c)
  BY DEF Stand, Back
<1> QED BY <1>1, <1>2, <1>6, <1>7

\* What more cars cost, whatever was used before: no less than a sale pays back,
\* no more than their price, and the less the more was used.
LEMMA MoreCars ==
    ASSUME NEW k \in Kinds, NEW c \in Nat, NEW d \in Nat, c <= d, NEW u \in Nat
    PROVE  /\ Back(k, d) - Back(k, c) <= Stand(k, d, u) - Stand(k, c, u)
           /\ Back(k, c) <= Back(k, d) /\ Stand(k, c, u) <= Stand(k, d, u)
           /\ \A v \in Nat : u <= v =>
                Stand(k, d, v) - Stand(k, c, v) <= Stand(k, d, u) - Stand(k, c, u)
           /\ d = c + 1 => Stand(k, d, u) - Stand(k, c, u) <= CarPrice
           /\ d = c + 1 /\ c > 0 /\ k = "shaft" => Back(k, d) - Back(k, c) = CarRefund
<1> DEFINE e == Adding(c, d)
           D == CarPrice - CarRefund
           f(v) == Losing(c, d, v)
<1>1. e \in Nat /\ f(u) \in Nat /\ f(u) <= e /\ e <= d - c
      /\ \A v \in Nat : u <= v => f(v) \in Nat /\ f(u) <= f(v)
  BY CarsAdd
<1>2. D \in Nat /\ CarPrice \in Nat /\ CarRefund \in Nat
  BY Halves
<1>3. ASSUME NEW v \in Nat
      PROVE  /\ Stand(k, d, v) \in Nat /\ Stand(k, c, v) \in Nat
             /\ Back(k, d) \in Nat /\ Back(k, c) \in Nat
  BY CostTypes
<1>4. CASE k # "shaft"
  <2>1. ASSUME NEW v \in Nat
        PROVE  Stand(k, d, v) = Stand(k, c, v) /\ Back(k, d) = Back(k, c)
    BY <1>4, CarsAdd
  <2> QED BY <1>2, <1>3, <1>4, <2>1
<1>5. CASE k = "shaft"
  <2>1. /\ \A v \in Nat : Stand(k, d, v) - Stand(k, c, v) = e * CarPrice - f(v) * D
        /\ Back(k, d) - Back(k, c) = e * CarRefund
    BY <1>5, CarsAdd
  <2>2. d = c + 1 /\ c > 0 => e = 1
    BY DEF Adding, More, Most
  <2> HIDE DEF e, f
  <2>3. /\ e * CarPrice \in Nat /\ e * CarRefund \in Nat /\ e * D \in Nat
        /\ f(u) * D \in Nat /\ f(u) * D <= e * D
        /\ \A v \in Nat : u <= v => f(v) * D \in Nat /\ f(u) * D <= f(v) * D
    BY <1>1, <1>2, Times
  <2>4. e * CarPrice = e * D + e * CarRefund
    BY <1>1, <1>2
  <2>5. d = c + 1 => e * CarPrice <= CarPrice
    <3>1. d = c + 1 => e <= 1
      BY <1>1
    <3> QED BY <1>1, <1>2, <3>1, Times
  <2>6. e = 1 => e * CarRefund = CarRefund
    BY <1>2
  <2> HIDE DEF D
  <2> QED BY <1>2, <1>3, <2>1, <2>2, <2>3, <2>4, <2>5, <2>6
<1> QED BY <1>4, <1>5

\* A sale leaves at least what it pays back to be had.
LEMMA SaleCost ==
    ASSUME NEW k \in Kinds, NEW c \in Nat, NEW u \in Nat
    PROVE  Back(k, c) <= Stand(k, c, u) - Gone(k, u)
<1> DEFINE D == CarPrice - CarRefund
           m == More(c, 1)
           n == More(u, Most(c, 1))
<1>1. /\ m \in Nat /\ n \in Nat /\ More(u, 1) \in Nat /\ More(u, 1) <= m + n
  BY DEF More, Most
<1>2. D \in Nat /\ CarPrice \in Nat /\ CarRefund \in Nat
      /\ Price[k] \in Nat /\ Refund(k) \in Nat /\ Price[k] - Refund(k) \in Nat
  BY Halves
<1>3. CASE k # "shaft"
  BY <1>2, <1>3 DEF Stand, Gone, Back
<1>4. CASE k = "shaft"
  <2>1. Stand(k, c, u) = Price[k] + (m * CarPrice + n * D)
    BY <1>4 DEF Stand
  <2>2. Back(k, c) = Refund(k) + m * CarRefund
    BY <1>4 DEF Back
  <2>3. Gone(k, u) = 0 \/ Gone(k, u) = Price[k] - Refund(k) + More(u, 1) * D
    BY <1>4 DEF Gone
  <2> HIDE DEF m, n
  <2>4. /\ m + n \in Nat /\ More(u, 1) * D \in Nat /\ More(u, 1) * D <= (m + n) * D
        /\ (m + n) * D = m * D + n * D /\ m * D \in Nat /\ n * D \in Nat
        /\ m * CarPrice \in Nat /\ m * CarRefund \in Nat
    BY <1>1, <1>2, Times
  <2>5. m * CarPrice = m * D + m * CarRefund
    BY <1>1, <1>2
  <2> HIDE DEF D
  <2> QED BY <1>2, <2>1, <2>2, <2>3, <2>4, <2>5
<1> QED BY <1>3, <1>4

\* Use up to the cars that stand costs nothing more, and neither does use of what
\* is no shaft.
LEMMA UseCost ==
    ASSUME NEW k \in Kinds, NEW c \in Nat, NEW u \in Nat, NEW v \in Nat,
           u <= v, k = "shaft" => v <= u \/ v <= c
    PROVE  Stand(k, c, u) = Stand(k, c, v)
<1>1. k = "shaft" => More(u, Most(c, 1)) = More(v, Most(c, 1))
  BY DEF More, Most
<1> QED BY <1>1 DEF Stand

-----------------------------------------------------------------------------
(* The costs of a tower, and what a step would make of them.               *)

(* The cost of an item, or of its absence, by its entry in the ledger.     *)
CostOf(x, e) ==
    IF e = None THEN 0
    ELSE IF x = None THEN Gone(Kind[e.site], e.used)
    ELSE Stand(Kind[e.site], x.cars, e.used)
CostSum(t, led) == SumTo(MaxId, [i \in Id |-> CostOf(t[i], led[i])])
UsedOf(e) == IF e = None THEN 0 ELSE e.used

(* The change of an item's cost that a step allows for: exactly what it is *)
(* to be, but that a build taken back is one that was not used, and that   *)
(* what leaves, else, leaves at what a sale pays.                          *)
BillOf(image, u) ==
    LET k == KindOf(image.want)
        a == image.left.cars
        b == image.want.cars
    IN  IF image = None THEN 0
        ELSE IF image.do = "takeOut"
             THEN IF image.built THEN -Stand(k, a, 0) ELSE -Back(k, a)
        ELSE IF image.do = "putBack" THEN Stand(k, b, u) - Gone(k, u)
        ELSE IF b < a /\ ~image.built THEN Back(k, b) - Back(k, a)
        ELSE Stand(k, b, u) - Stand(k, a, u)

(* What a sale took off the costs more than it paid, which its step keeps. *)
GainOf(image, u) ==
    LET k == KindOf(image.want)
        a == image.left.cars
        b == image.want.cars
    IN  IF image = None THEN 0
        ELSE IF image.do = "takeOut" THEN 0
        ELSE IF image.do = "putBack"
             THEN IF image.built THEN 0 ELSE Stand(k, b, u) - Gone(k, u) - Back(k, b)
        ELSE IF a < b /\ image.built
             THEN Stand(k, b, u) - Stand(k, a, u) - (Back(k, b) - Back(k, a))
        ELSE 0

Bills(step, led) == SumTo(MaxId, [i \in Id |-> BillOf(step.images[i], UsedOf(led[i]))])
Gains(step, led) == SumTo(MaxId, [i \in Id |-> GainOf(step.images[i], UsedOf(led[i]))])

(* What a step may take back of an item's use is compared with the item in *)
(* hand: the one that stands, or the one a gesture or a step took out.     *)
WearOf(x) == <<x.use, x.sold, x.rides>>
InHand(t, tk, a, b, i) ==
    {x \in Item : \/ x = t[i] \/ x = tk[i]
                  \/ \E m \in DOMAIN a : Does(a[m], i, "putBack") /\ x = Want(a[m], i)
                  \/ \E m \in DOMAIN b : Does(b[m], i, "putBack") /\ x = Want(b[m], i)}
Hands(t, tk, a, b) == [i \in Id |-> {WearOf(x) : x \in InHand(t, tk, a, b, i)}]

(* A step that cannot apply any more, whatever is done: what it takes back *)
(* was used.                                                               *)
TakesBuilt(step, i) == Does(step, i, "takeOut") /\ step.images[i].built
DropsCars(step, i) ==
    /\ Does(step, i, "restore") /\ step.images[i].built /\ OfShaft(step, i)
    /\ TakesCars(Left(step, i), Want(step, i))
Spent(step, led, w, hr) ==
    \/ step.searched \/ step.usedInGesture
    \/ \E i \in Id : TakesBuilt(step, i) /\ UsedOf(led[i]) > 0
    \/ \E i \in Id : /\ DropsCars(step, i)
                     /\ hr # step.hour \/ \A y \in w[i] : y[3] # Left(step, i).rides

(* What a step holds back of the balance: with it, the balance covers what *)
(* the step takes, and what the step that reverses it would take.          *)
Reserve(step, led, w, hr) ==
    IF Spent(step, led, w, hr) THEN 0
    ELSE Most(step.money + Bills(step, led), Gains(step, led))
Total(stack, led, w, hr) ==
    SumTo(Len(stack), [m \in 1..Len(stack) |-> Reserve(stack[m], led, w, hr)])

Ledgers == [Id -> Entry \cup {None}]

\* Kinds and numbers of cars.
LEMMA ItemFacts ==
    /\ \A x \in Item : /\ x.site \in Site /\ KindOf(x) \in Kinds /\ x.cars \in Nat
                       /\ x.rides \in Nat /\ x # None
    /\ \A e \in Entry : Kind[e.site] \in Kinds /\ e.used \in Nat /\ e # None
    /\ \A e \in Entry \cup {None} : UsedOf(e) \in Nat
    /\ MaxId \in Nat
BY GeometryAssumption, NumberAssumption, FactAssumption DEF Item, Entry, KindOf, UsedOf

LEMMA CostOfType ==
    ASSUME NEW x \in Item \cup {None}, NEW e \in Entry \cup {None}
    PROVE  CostOf(x, e) \in Nat
<1>1. CASE e = None
  BY <1>1 DEF CostOf
<1>2. CASE e # None
  <2>1. e \in Entry /\ Kind[e.site] \in Kinds /\ e.used \in Nat
    BY <1>2, ItemFacts
  <2>2. Gone(Kind[e.site], e.used) \in Nat
    BY <2>1, CostTypes
  <2>3. x # None => Stand(Kind[e.site], x.cars, e.used) \in Nat
    BY <2>1, CostTypes, ItemFacts
  <2> QED BY <1>2, <2>2, <2>3 DEF CostOf
<1> QED BY <1>1, <1>2

LEMMA CostTerms ==
    ASSUME NEW t \in [Id -> Item \cup {None}], NEW led \in Ledgers
    PROVE  [i \in Id |-> CostOf(t[i], led[i])] \in Terms(MaxId)
<1>1. \A i \in Id : CostOf(t[i], led[i]) \in Int
  BY CostOfType DEF Ledgers
<1> QED BY <1>1 DEF Terms, Id

\* What an image may change of the costs.
LEMMA BillCases ==
    ASSUME NEW image \in Image, NEW u \in Nat, NEW k, k = KindOf(image.want),
           NEW a, a = image.left.cars, NEW b, b = image.want.cars
    PROVE  /\ image # None /\ image.built \in BOOLEAN
           /\ image.do \in {"takeOut", "putBack", "restore"}
           /\ k \in Kinds /\ a \in Nat /\ b \in Nat
           /\ image.do = "takeOut" =>
                 /\ image.built => BillOf(image, u) = -Stand(k, a, 0)
                 /\ ~image.built => BillOf(image, u) = -Back(k, a)
                 /\ GainOf(image, u) = 0
           /\ image.do = "putBack" =>
                 /\ BillOf(image, u) = Stand(k, b, u) - Gone(k, u)
                 /\ image.built => GainOf(image, u) = 0
                 /\ ~image.built =>
                       GainOf(image, u) = Stand(k, b, u) - Gone(k, u) - Back(k, b)
           /\ image.do = "restore" =>
                 /\ b < a /\ ~image.built => BillOf(image, u) = Back(k, b) - Back(k, a)
                 /\ ~(b < a /\ ~image.built) =>
                       BillOf(image, u) = Stand(k, b, u) - Stand(k, a, u)
                 /\ a < b /\ image.built =>
                       GainOf(image, u) = Stand(k, b, u) - Stand(k, a, u)
                                          - (Back(k, b) - Back(k, a))
                 /\ ~(a < b /\ image.built) => GainOf(image, u) = 0
<1>1. image # None /\ image.built \in BOOLEAN
      /\ image.do \in {"takeOut", "putBack", "restore"}
      /\ image.want \in Item /\ image.left \in Item
  BY FactAssumption DEF Image
<1>2. k \in Kinds /\ a \in Nat /\ b \in Nat
  BY <1>1, ItemFacts
<1>3. CASE image.do = "takeOut"
  BY <1>1, <1>2, <1>3 DEF BillOf, GainOf
<1>4. CASE image.do = "putBack"
  BY <1>1, <1>2, <1>4 DEF BillOf, GainOf
<1>5. CASE image.do = "restore"
  <2>1. BillOf(image, u) = IF b < a /\ ~image.built THEN Back(k, b) - Back(k, a)
                           ELSE Stand(k, b, u) - Stand(k, a, u)
    BY <1>1, <1>5 DEF BillOf
  <2>2. GainOf(image, u) = IF a < b /\ image.built
                           THEN Stand(k, b, u) - Stand(k, a, u) - (Back(k, b) - Back(k, a))
                           ELSE 0
    BY <1>1, <1>5 DEF GainOf
  <2> QED BY <1>1, <1>2, <1>5, <2>1, <2>2
<1> QED BY <1>1, <1>2, <1>3, <1>4, <1>5

LEMMA NoBill == \A u : BillOf(None, u) = 0 /\ GainOf(None, u) = 0
BY DEF BillOf, GainOf

LEMMA BillTypes ==
    ASSUME NEW image \in Image \cup {None}, NEW u \in Nat
    PROVE  BillOf(image, u) \in Int /\ GainOf(image, u) \in Nat
<1>1. CASE image = None
  BY <1>1, NoBill
<1>2. CASE image \in Image
  <2> DEFINE k == KindOf(image.want)
             a == image.left.cars
             b == image.want.cars
  <2>1. k \in Kinds /\ a \in Nat /\ b \in Nat
    BY <1>2, ItemFacts DEF Image
  <2>2. /\ Stand(k, a, 0) \in Nat /\ Stand(k, a, u) \in Nat /\ Stand(k, b, u) \in Nat
        /\ Gone(k, u) \in Nat
    BY <2>1, CostTypes
  <2>3. Back(k, a) \in Nat /\ Back(k, b) \in Nat
    BY <2>1, CostTypes
  <2>4. Back(k, b) <= Stand(k, b, u) - Gone(k, u)
    BY <2>1, SaleCost
  <2>5. a <= b => Back(k, b) - Back(k, a) <= Stand(k, b, u) - Stand(k, a, u)
    BY <2>1, MoreCars
  <2>6. k = KindOf(image.want) /\ a = image.left.cars /\ b = image.want.cars
    OBVIOUS
  <2> HIDE DEF k, a, b
  <2>7. CASE image.do = "takeOut"
    <3>1. /\ GainOf(image, u) = 0
          /\ BillOf(image, u) = -Stand(k, a, 0) \/ BillOf(image, u) = -Back(k, a)
      BY <1>2, <2>6, <2>7, BillCases
    <3> QED BY <2>1, <2>2, <2>3, <3>1
  <2>8. CASE image.do = "putBack"
    <3>1. BillOf(image, u) = Stand(k, b, u) - Gone(k, u)
      BY <1>2, <2>6, <2>8, BillCases
    <3>2. \/ GainOf(image, u) = 0
          \/ GainOf(image, u) = Stand(k, b, u) - Gone(k, u) - Back(k, b)
      BY <1>2, <2>6, <2>8, BillCases
    <3> QED BY <2>1, <2>2, <2>3, <2>4, <3>1, <3>2
  <2>9. CASE image.do = "restore"
    <3>1. \/ BillOf(image, u) = Back(k, b) - Back(k, a)
          \/ BillOf(image, u) = Stand(k, b, u) - Stand(k, a, u)
      BY <1>2, <2>6, <2>9, BillCases
    <3>2. \/ GainOf(image, u) = 0
          \/ a < b /\ GainOf(image, u) = Stand(k, b, u) - Stand(k, a, u)
                                         - (Back(k, b) - Back(k, a))
      BY <1>2, <2>6, <2>9, BillCases
    <3> QED BY <2>1, <2>2, <2>3, <2>5, <3>1, <3>2
  <2>10. image.do \in {"takeOut", "putBack", "restore"}
    BY <1>2 DEF Image
  <2> QED BY <2>7, <2>8, <2>9, <2>10
<1> QED BY <1>1, <1>2

LEMMA StepTerms ==
    ASSUME NEW step \in Step, NEW led \in Ledgers
    PROVE  /\ step.money \in Int /\ step.hour \in Nat
           /\ \A i \in Id : step.images[i] \in Image \cup {None} /\ UsedOf(led[i]) \in Nat
           /\ [i \in Id |-> BillOf(step.images[i], UsedOf(led[i]))] \in Terms(MaxId)
           /\ [i \in Id |-> GainOf(step.images[i], UsedOf(led[i]))] \in Terms(MaxId)
           /\ Bills(step, led) \in Int /\ Gains(step, led) \in Nat
<1>1. /\ step.money \in Int /\ step.hour \in Nat
      /\ \A i \in Id : step.images[i] \in Image \cup {None}
  BY NumberAssumption DEF Step
<1>2. \A i \in Id : UsedOf(led[i]) \in Nat
  BY ItemFacts DEF Ledgers
<1> DEFINE f == [i \in Id |-> BillOf(step.images[i], UsedOf(led[i]))]
           g == [i \in Id |-> GainOf(step.images[i], UsedOf(led[i]))]
           z == [i \in Id |-> 0]
<1>3. \A i \in Id : BillOf(step.images[i], UsedOf(led[i])) \in Int
                    /\ GainOf(step.images[i], UsedOf(led[i])) \in Nat
  BY <1>1, <1>2, BillTypes
<1>4. f \in Terms(MaxId) /\ g \in Terms(MaxId) /\ z \in Terms(MaxId)
  BY <1>3 DEF Terms, Id
<1>5. \A i \in 1..MaxId : z[i] = 0 /\ z[i] <= g[i] /\ f[i] <= f[i]
  BY <1>3, <1>4 DEF Terms, Id
<1>6. Bills(step, led) = SumTo(MaxId, f) /\ Gains(step, led) = SumTo(MaxId, g)
  BY DEF Bills, Gains
<1> HIDE DEF f, g, z
<1>7. SumTo(MaxId, z) = 0
  BY <1>4, <1>5, ItemFacts, SumNone
<1>8. SumTo(MaxId, f) \in Int /\ SumTo(MaxId, g) \in Int /\ SumTo(MaxId, z) <= SumTo(MaxId, g)
  BY <1>4, <1>5, ItemFacts, SumLess
<1> QED BY <1>1, <1>2, <1>4, <1>6, <1>7, <1>8 DEF f, g

LEMMA ReserveType ==
    ASSUME NEW step \in Step, NEW led \in Ledgers, NEW w, NEW hr
    PROVE  Reserve(step, led, w, hr) \in Nat
<1>1. step.money \in Int /\ Bills(step, led) \in Int /\ Gains(step, led) \in Nat
  BY StepTerms
<1> QED BY <1>1 DEF Reserve, Most

Towers == [Id -> Item \cup {None}]

\* Less is held back where the step allows for less, or is spent.
LEMMA ReserveLess ==
    ASSUME NEW step \in Step, NEW then \in Step, NEW led \in Ledgers, NEW now \in Ledgers,
           NEW w, NEW v, NEW hr, NEW h,
           Spent(step, led, w, hr) => Spent(then, now, v, h),
           ~Spent(then, now, v, h) =>
              /\ then.money = step.money
              /\ \A i \in Id :
                    /\ BillOf(then.images[i], UsedOf(now[i]))
                         <= BillOf(step.images[i], UsedOf(led[i]))
                    /\ GainOf(then.images[i], UsedOf(now[i]))
                         <= GainOf(step.images[i], UsedOf(led[i]))
    PROVE  Reserve(then, now, v, h) <= Reserve(step, led, w, hr)
<1> DEFINE f(s, l) == [i \in Id |-> BillOf(s.images[i], UsedOf(l[i]))]
           g(s, l) == [i \in Id |-> GainOf(s.images[i], UsedOf(l[i]))]
<1>1. /\ f(step, led) \in Terms(MaxId) /\ g(step, led) \in Terms(MaxId)
      /\ f(then, now) \in Terms(MaxId) /\ g(then, now) \in Terms(MaxId)
      /\ step.money \in Int /\ Bills(step, led) \in Int /\ Gains(step, led) \in Nat
  BY StepTerms
<1>2. /\ Reserve(step, led, w, hr) \in Nat /\ Reserve(then, now, v, h) \in Nat
  BY ReserveType
<1>3. CASE Spent(then, now, v, h)
  BY <1>2, <1>3 DEF Reserve
<1>4. CASE ~Spent(then, now, v, h)
  <2>1. \A i \in 1..MaxId : f(then, now)[i] <= f(step, led)[i]
                            /\ g(then, now)[i] <= g(step, led)[i]
    BY <1>4 DEF Id
  <2>2. /\ Bills(then, now) = SumTo(MaxId, f(then, now))
        /\ Bills(step, led) = SumTo(MaxId, f(step, led))
        /\ Gains(then, now) = SumTo(MaxId, g(then, now))
        /\ Gains(step, led) = SumTo(MaxId, g(step, led))
    BY DEF Bills, Gains
  <2> HIDE DEF f, g
  <2>3. /\ Bills(then, now) \in Int /\ Bills(then, now) <= Bills(step, led)
        /\ Gains(then, now) \in Int /\ Gains(then, now) <= Gains(step, led)
    BY <1>1, <2>1, <2>2, ItemFacts, SumLess
  <2> QED BY <1>1, <1>4, <2>3 DEF Reserve, Most
<1> QED BY <1>3, <1>4

LEMMA CostSumType ==
    ASSUME NEW t \in Towers, NEW led \in Ledgers
    PROVE  CostSum(t, led) \in Int
<1>1. [i \in Id |-> CostOf(t[i], led[i])] \in Terms(MaxId)
  BY CostTerms DEF Towers
<1> HIDE DEF Terms
<1>2. [i \in Id |-> CostOf(t[i], led[i])] \in Terms(MaxId) =>
         \A i \in 1..MaxId : [k \in Id |-> CostOf(t[k], led[k])][i]
                               <= [k \in Id |-> CostOf(t[k], led[k])][i]
  BY DEF Terms, Id
<1> QED BY <1>1, <1>2, ItemFacts, SumLess DEF CostSum

\* An edit pays what it changes of the costs and of its own step's allowance.
LEMMA ReserveMoves ==
    ASSUME NEW step \in Step, NEW then \in Step, NEW led \in Ledgers, NEW now \in Ledgers,
           NEW t \in Towers, NEW u \in Towers, NEW amount \in Int,
           NEW w, NEW v, NEW hr, NEW h,
           Spent(step, led, w, hr) => Spent(then, now, v, h),
           amount + CostSum(u, now) <= CostSum(t, led),
           ~Spent(then, now, v, h) =>
              /\ then.money = step.money - amount
              /\ \A i \in Id : BillOf(then.images[i], UsedOf(now[i])) + CostOf(u[i], now[i])
                               <= BillOf(step.images[i], UsedOf(led[i])) + CostOf(t[i], led[i])
              /\ Gains(then, now) + amount + CostSum(u, now)
                   <= Gains(step, led) + CostSum(t, led)
    PROVE  amount + CostSum(u, now) + Reserve(then, now, v, h)
             <= CostSum(t, led) + Reserve(step, led, w, hr)
<1> DEFINE f(s, l) == [i \in Id |-> BillOf(s.images[i], UsedOf(l[i]))]
           c(a, l) == [i \in Id |-> CostOf(a[i], l[i])]
<1>1. /\ f(step, led) \in Terms(MaxId) /\ f(then, now) \in Terms(MaxId)
      /\ step.money \in Int /\ Bills(step, led) \in Int /\ Gains(step, led) \in Nat
      /\ Bills(then, now) \in Int /\ Gains(then, now) \in Nat
  BY StepTerms
<1>2. c(t, led) \in Terms(MaxId) /\ c(u, now) \in Terms(MaxId)
  BY CostTerms DEF Towers
<1>3. CostSum(t, led) \in Int /\ CostSum(u, now) \in Int
  BY CostSumType
<1>4. Reserve(step, led, w, hr) \in Nat
  BY ReserveType
<1>5. CASE Spent(then, now, v, h)
  <2>1. Reserve(then, now, v, h) = 0
    BY <1>5 DEF Reserve
  <2> QED BY <1>3, <1>4, <2>1
<1>6. CASE ~Spent(then, now, v, h)
  <2>1. \A i \in 1..MaxId : f(then, now)[i] + c(u, now)[i] <= f(step, led)[i] + c(t, led)[i]
    BY <1>6 DEF Id
  <2>2. /\ Bills(then, now) = SumTo(MaxId, f(then, now))
        /\ Bills(step, led) = SumTo(MaxId, f(step, led))
        /\ CostSum(u, now) = SumTo(MaxId, c(u, now))
        /\ CostSum(t, led) = SumTo(MaxId, c(t, led))
    BY DEF Bills, CostSum
  <2> HIDE DEF f, c
  <2>3. Bills(then, now) + CostSum(u, now) <= Bills(step, led) + CostSum(t, led)
    BY <1>1, <1>2, <2>1, <2>2, ItemFacts, SumPairs
  <2>4. /\ then.money = step.money - amount
        /\ Gains(then, now) + amount + CostSum(u, now) <= Gains(step, led) + CostSum(t, led)
    BY <1>6
  <2>5. /\ Reserve(then, now, v, h) = Most(then.money + Bills(then, now), Gains(then, now))
        /\ Reserve(step, led, w, hr) = Most(step.money + Bills(step, led), Gains(step, led))
    BY <1>6 DEF Reserve
  <2>6. CASE then.money + Bills(then, now) > Gains(then, now)
    BY <1>1, <1>3, <2>3, <2>4, <2>5, <2>6 DEF Most
  <2>7. CASE ~(then.money + Bills(then, now) > Gains(then, now))
    BY <1>1, <1>3, <2>3, <2>4, <2>5, <2>7 DEF Most
  <2> QED BY <2>6, <2>7
<1> QED BY <1>5, <1>6

\* A step taken leaves what it changes to the step that reverses it.
LEMMA ReserveTurns ==
    ASSUME NEW step \in Step, NEW back \in Step, NEW led \in Ledgers,
           NEW t \in Towers, NEW u \in Towers, NEW w, NEW v, NEW hr, NEW h,
           ~Spent(step, led, w, hr), back.money = -step.money,
           \A i \in Id :
              /\ BillOf(back.images[i], UsedOf(led[i])) + CostOf(u[i], led[i])
                   <= GainOf(step.images[i], UsedOf(led[i])) + CostOf(t[i], led[i])
              /\ GainOf(back.images[i], UsedOf(led[i])) + CostOf(u[i], led[i])
                   <= BillOf(step.images[i], UsedOf(led[i])) + CostOf(t[i], led[i])
    PROVE  step.money + CostSum(u, led) + Reserve(back, led, v, h)
             <= CostSum(t, led) + Reserve(step, led, w, hr)
<1> DEFINE f(s) == [i \in Id |-> BillOf(s.images[i], UsedOf(led[i]))]
           g(s) == [i \in Id |-> GainOf(s.images[i], UsedOf(led[i]))]
           c(a) == [i \in Id |-> CostOf(a[i], led[i])]
<1>1. /\ f(step) \in Terms(MaxId) /\ f(back) \in Terms(MaxId)
      /\ g(step) \in Terms(MaxId) /\ g(back) \in Terms(MaxId)
      /\ step.money \in Int /\ Bills(step, led) \in Int /\ Gains(step, led) \in Nat
      /\ Bills(back, led) \in Int /\ Gains(back, led) \in Nat
  BY StepTerms
<1>2. c(t) \in Terms(MaxId) /\ c(u) \in Terms(MaxId)
  BY CostTerms DEF Towers
<1>3. CostSum(t, led) \in Int /\ CostSum(u, led) \in Int
  BY CostSumType
<1>4. \A i \in 1..MaxId : /\ f(back)[i] + c(u)[i] <= g(step)[i] + c(t)[i]
                          /\ g(back)[i] + c(u)[i] <= f(step)[i] + c(t)[i]
  BY DEF Id
<1>5. /\ Bills(back, led) = SumTo(MaxId, f(back)) /\ Bills(step, led) = SumTo(MaxId, f(step))
      /\ Gains(back, led) = SumTo(MaxId, g(back)) /\ Gains(step, led) = SumTo(MaxId, g(step))
      /\ CostSum(u, led) = SumTo(MaxId, c(u)) /\ CostSum(t, led) = SumTo(MaxId, c(t))
  BY DEF Bills, Gains, CostSum
<1> HIDE DEF f, g, c
<1>6. /\ Bills(back, led) + CostSum(u, led) <= Gains(step, led) + CostSum(t, led)
      /\ Gains(back, led) + CostSum(u, led) <= Bills(step, led) + CostSum(t, led)
  <2>1. SumTo(MaxId, f(back)) + SumTo(MaxId, c(u)) <= SumTo(MaxId, g(step)) + SumTo(MaxId, c(t))
    BY <1>1, <1>2, <1>4, ItemFacts, SumPairs
  <2>2. SumTo(MaxId, g(back)) + SumTo(MaxId, c(u)) <= SumTo(MaxId, f(step)) + SumTo(MaxId, c(t))
    BY <1>1, <1>2, <1>4, ItemFacts, SumPairs
  <2> QED BY <1>5, <2>1, <2>2
<1>7. Reserve(step, led, w, hr) = Most(step.money + Bills(step, led), Gains(step, led))
  BY DEF Reserve
<1>8. \/ Reserve(back, led, v, h) = 0
      \/ Reserve(back, led, v, h) = -step.money + Bills(back, led)
      \/ Reserve(back, led, v, h) = Gains(back, led)
  BY DEF Reserve, Most
<1>9. /\ Reserve(step, led, w, hr) >= step.money + Bills(step, led)
      /\ Reserve(step, led, w, hr) >= Gains(step, led) /\ Reserve(step, led, w, hr) \in Int
  BY <1>1, <1>7 DEF Most
<1> QED BY <1>1, <1>3, <1>6, <1>8, <1>9

-----------------------------------------------------------------------------
(* What the steps of a stack hold back.                                    *)

LEMMA StackTerms ==
    ASSUME NEW stack \in Seq(Step), NEW led \in Ledgers, NEW w, NEW hr
    PROVE  /\ Len(stack) \in Nat
           /\ \A m \in 1..Len(stack) : stack[m] \in Step /\ Reserve(stack[m], led, w, hr) \in Nat
           /\ [m \in 1..Len(stack) |-> Reserve(stack[m], led, w, hr)] \in Terms(Len(stack))
<1>1. Len(stack) \in Nat /\ \A m \in 1..Len(stack) : stack[m] \in Step
  OBVIOUS
<1>2. \A m \in 1..Len(stack) : Reserve(stack[m], led, w, hr) \in Nat
  BY <1>1, ReserveType
<1> QED BY <1>1, <1>2 DEF Terms

LEMMA TotalLess ==
    ASSUME NEW stack \in Seq(Step), NEW led \in Ledgers, NEW now \in Ledgers,
           NEW w, NEW v, NEW hr, NEW h,
           \A m \in DOMAIN stack : Reserve(stack[m], now, v, h) <= Reserve(stack[m], led, w, hr)
    PROVE  Total(stack, now, v, h) <= Total(stack, led, w, hr)
<1> DEFINE f == [m \in 1..Len(stack) |-> Reserve(stack[m], now, v, h)]
           g == [m \in 1..Len(stack) |-> Reserve(stack[m], led, w, hr)]
<1>1. Len(stack) \in Nat /\ f \in Terms(Len(stack)) /\ g \in Terms(Len(stack))
  BY StackTerms
<1>2. \A m \in 1..Len(stack) : f[m] <= g[m]
  OBVIOUS
<1>3. /\ Total(stack, now, v, h) = SumTo(Len(stack), f)
      /\ Total(stack, led, w, hr) = SumTo(Len(stack), g)
  BY DEF Total
<1> HIDE DEF f, g
<1> QED BY <1>1, <1>2, <1>3, SumLess

LEMMA TotalType ==
    ASSUME NEW stack \in Seq(Step), NEW led \in Ledgers, NEW w, NEW hr
    PROVE  Total(stack, led, w, hr) \in Nat
<1> DEFINE f == [m \in 1..Len(stack) |-> 0]
           g == [m \in 1..Len(stack) |-> Reserve(stack[m], led, w, hr)]
<1>1. /\ Len(stack) \in Nat /\ g \in Terms(Len(stack))
      /\ \A m \in 1..Len(stack) : g[m] \in Nat
  BY StackTerms
<1>2. f \in Terms(Len(stack)) /\ \A m \in 1..Len(stack) : f[m] = 0 /\ f[m] <= g[m]
  BY <1>1 DEF Terms
<1>3. Total(stack, led, w, hr) = SumTo(Len(stack), g)
  BY DEF Total
<1> HIDE DEF f, g
<1>4. SumTo(Len(stack), f) = 0
  BY <1>1, <1>2, SumNone
<1>5. SumTo(Len(stack), g) \in Int /\ SumTo(Len(stack), f) <= SumTo(Len(stack), g)
  BY <1>1, <1>2, SumLess
<1> QED BY <1>3, <1>4, <1>5

LEMMA TotalNone ==
    ASSUME NEW led \in Ledgers, NEW w, NEW hr
    PROVE  Total(<<>>, led, w, hr) = 0
<1> DEFINE f == [m \in 1..Len(<<>>) |-> Reserve((<<>>)[m], led, w, hr)]
<1>1. f \in Terms(Len(<<>>)) /\ Len(<<>>) = 0 /\ \A k \in 1..Len(<<>>) : f[k] = 0
  BY DEF Terms
<1>2. Total(<<>>, led, w, hr) = SumTo(Len(<<>>), f)
  BY DEF Total
<1> HIDE DEF f
<1> QED BY <1>1, <1>2, SumNone

\* The newest step, and those below it.
LEMMA TotalNewest ==
    ASSUME NEW stack \in Seq(Step), stack # <<>>, NEW led \in Ledgers, NEW w, NEW hr
    PROVE  /\ Newest(stack) \in Step /\ Older(stack) \in Seq(Step)
           /\ Total(stack, led, w, hr)
                = Total(Older(stack), led, w, hr) + Reserve(Newest(stack), led, w, hr)
<1> DEFINE n == Len(stack) - 1
           f == [m \in 1..Len(Older(stack)) |-> Reserve(Older(stack)[m], led, w, hr)]
           g == [m \in 1..Len(stack) |-> Reserve(stack[m], led, w, hr)]
<1>1. /\ Newest(stack) \in Step /\ Older(stack) \in Seq(Step)
      /\ Len(Older(stack)) = Len(stack) - 1
      /\ \A m \in DOMAIN Older(stack) : m \in DOMAIN stack /\ Older(stack)[m] = stack[m]
  BY NewestType
<1>2. /\ Len(stack) \in Nat /\ Len(stack) # 0 /\ n \in Nat /\ n + 1 = Len(stack)
      /\ Len(Older(stack)) = n /\ n + 1 \in 1..Len(stack)
  BY <1>1
<1>3. f \in Terms(n) /\ g \in Terms(n + 1)
  BY <1>1, <1>2, StackTerms
<1>4. (\A k \in 1..n : f[k] = g[k]) /\ g[n + 1] = Reserve(Newest(stack), led, w, hr)
  BY <1>1, <1>2 DEF Newest
<1>5. /\ Total(stack, led, w, hr) = SumTo(n + 1, g)
      /\ Total(Older(stack), led, w, hr) = SumTo(n, f)
  BY <1>2 DEF Total
<1>6. SumTo(n + 1, g) = SumTo(n, f) + g[n + 1]
  <2> HIDE DEF f, g, n
  <2> QED BY <1>2, <1>3, <1>4, SumLast
<1> QED BY <1>1, <1>4, <1>5, <1>6

\* A step pushed, and perhaps the oldest dropped.
LEMMA TotalAppended ==
    ASSUME NEW stack \in Seq(Step), NEW step \in Step, NEW led \in Ledgers, NEW w, NEW hr
    PROVE  Total(Append(stack, step), led, w, hr)
             = Total(stack, led, w, hr) + Reserve(step, led, w, hr)
<1> DEFINE more == Append(stack, step)
<1>1. more \in Seq(Step) /\ more # <<>> /\ Newest(more) = step /\ Older(more) = stack
  BY DEF Newest, Older
<1> HIDE DEF more
<1>2. Total(more, led, w, hr) = Total(Older(more), led, w, hr) + Reserve(Newest(more), led, w, hr)
  BY <1>1, TotalNewest
<1> QED BY <1>1, <1>2 DEF more

LEMMA TotalTail ==
    ASSUME NEW stack \in Seq(Step), stack # <<>>, NEW led \in Ledgers, NEW w, NEW hr
    PROVE  Tail(stack) \in Seq(Step) /\ Total(Tail(stack), led, w, hr) <= Total(stack, led, w, hr)
<1> DEFINE n == Len(stack) - 1
           f == [m \in 1..Len(Tail(stack)) |-> Reserve(Tail(stack)[m], led, w, hr)]
           g == [m \in 1..Len(stack) |-> Reserve(stack[m], led, w, hr)]
<1>1. /\ Tail(stack) \in Seq(Step) /\ Len(Tail(stack)) = n /\ n \in Nat
      /\ n + 1 = Len(stack) /\ 1 \in 1..Len(stack)
      /\ \A m \in 1..n : Tail(stack)[m] = stack[m + 1] /\ m + 1 \in 1..Len(stack)
  OBVIOUS
<1>2. f \in Terms(n) /\ g \in Terms(n + 1)
  BY <1>1, StackTerms
<1>3. \A k \in 1..n : f[k] = g[k + 1]
  BY <1>1
<1>4. g[1] \in Nat
  BY <1>1, StackTerms
<1>5. /\ Total(stack, led, w, hr) = SumTo(n + 1, g)
      /\ Total(Tail(stack), led, w, hr) = SumTo(n, f)
  BY <1>1 DEF Total
<1>6. SumTo(n + 1, g) = g[1] + SumTo(n, f)
  <2> HIDE DEF f, g, n
  <2> QED BY <1>1, <1>2, <1>3, SumFirst
<1>7. Total(Tail(stack), led, w, hr) \in Nat
  BY <1>1, TotalType
<1> QED BY <1>1, <1>4, <1>5, <1>6, <1>7

LEMMA TotalPushed ==
    ASSUME NEW stack \in Seq(Step), NEW step \in Step, NEW led \in Ledgers, NEW w, NEW hr
    PROVE  Total(Pushed(stack, step), led, w, hr)
             <= Total(stack, led, w, hr) + Reserve(step, led, w, hr)
<1>1. Total(stack, led, w, hr) \in Nat /\ Reserve(step, led, w, hr) \in Nat
  BY TotalType, ReserveType
<1>2. CASE Len(stack) < UndoCap
  BY <1>1, <1>2, TotalAppended DEF Pushed
<1>3. CASE ~(Len(stack) < UndoCap)
  <2>1. stack # <<>>
    BY <1>3, NumberAssumption
  <2> DEFINE rest == Tail(stack)
  <2>2. rest \in Seq(Step) /\ Total(rest, led, w, hr) <= Total(stack, led, w, hr)
    BY <2>1, TotalTail
  <2>3. Pushed(stack, step) = Append(rest, step)
    BY <1>3 DEF Pushed
  <2> HIDE DEF rest
  <2>4. Total(rest, led, w, hr) \in Nat
    BY <2>2, TotalType
  <2>5. Total(Append(rest, step), led, w, hr)
          = Total(rest, led, w, hr) + Reserve(step, led, w, hr)
    BY <2>2, TotalAppended
  <2> QED BY <1>1, <2>2, <2>3, <2>4, <2>5
<1> QED BY <1>2, <1>3

-----------------------------------------------------------------------------
(* The invariant.                                                          *)

(* A room that is not built yet: what a gesture builds.                    *)
Unopened(y) == y[1] = "building" /\ ~y[2]

(* What is known of the use of a build that a step may take back, from what *)
(* it left, the use the ledger counts and the item in hand: a floor tile   *)
(* used is used for an hour, a shaft for an hour or a ride, a room by its  *)
(* opening.                                                                *)
TakeKnows(k, left, u, worn, since, hr) ==
    /\ k = "floor" /\ u > 0 => since < hr
    /\ k = "shaft" => /\ \A y \in worn : y[3] >= left.rides
                      /\ u > 0 => since < hr \/ \A y \in worn : y[3] > left.rides
    /\ k \in {"room", "condo"} =>
          /\ ~Unopened(WearOf(left)) => worn = {}
          /\ u > 0 => \A y \in worn : ~Unopened(y)

Knows(step, led, w, hr) ==
    /\ step.hour <= hr
    /\ ~step.searched /\ ~step.usedInGesture =>
          \A i \in Id :
             /\ TakesBuilt(step, i) =>
                   TakeKnows(KindOf(Want(step, i)), Left(step, i), UsedOf(led[i]),
                             w[i], step.hour, hr)
             /\ Does(step, i, "putBack") /\ step.images[i].built =>
                   /\ UsedOf(led[i]) = 0
                   /\ IsRoom(Want(step, i)) => Unopened(WearOf(Want(step, i)))
             /\ DropsCars(step, i) => \A y \in w[i] : y[3] >= Left(step, i).rides

StackKnows(stack, led, w, hr) == \A m \in DOMAIN stack : Knows(stack[m], led, w, hr)

(* A room in hand that opened was used, and nothing else changes its use.  *)
HandsKnow(led, w) ==
    \A i \in Id : \A y \in w[i] :
        IF Kind[led[i].site] \in {"room", "condo"}
        THEN ~Unopened(y) => UsedOf(led[i]) > 0
        ELSE y[1] = "idle" /\ ~y[2]

(* The open gesture's notes.                                               *)
NoteKnows(seen, x, e) ==
    /\ seen.how = "added" => UseOf(seen.item) = UseOf(Placed(seen.item.site))
    /\ seen.how = "addedAndUsed" => x = None /\ UsedOf(e) > 0 /\ IsRoom(seen.item)
    /\ seen.how = "was" /\ x # None => seen.item.rides <= x.rides
NotesKnow ==
    journal.open => \A i \in Id : journal.touched[i] # None =>
                       NoteKnows(journal.touched[i], tower[i], ledger[i])

TookOf == [i \in Id |-> IF Took(i) THEN journal.touched[i].item ELSE None]
Worn   == Hands(tower, TookOf, undo, redo)

Open == IF journal.open THEN Reserve(StepOf(journal), ledger, Worn, hours) ELSE 0

(* The balance, with the costs and all that the steps hold back, is no     *)
(* more than the money that came from outside.                             *)
Covered ==
    money + CostSum(tower, ledger) + Total(undo, ledger, Worn, hours)
          + Total(redo, ledger, Worn, hours) + Open
      <= StartMoney + outside + Begins

MoneyInv ==
    /\ Covered
    /\ StackKnows(undo, ledger, Worn, hours) /\ StackKnows(redo, ledger, Worn, hours)
    /\ journal.open => Knows(StepOf(journal), ledger, Worn, hours)
    /\ HandsKnow(ledger, Worn) /\ NotesKnow

-----------------------------------------------------------------------------
(* The costs of the model, and of the tower it begins with.                *)

\* The cost of an item is that of its entry.
LEMMA CostIs ==
    ASSUME TypeOK, NEW i \in Id
    PROVE  Cost(i) = CostOf(tower[i], ledger[i])
<1> DEFINE e == ledger[i]
           k == Kind[e.site]
           x == tower[i]
           D == CarPrice - CarRefund
<1>1. CASE e = None
  BY <1>1 DEF Cost, CostOf
<1>2. CASE e # None /\ x = None
  <2>1. e \in Entry /\ k \in Kinds /\ e.used \in Nat
    BY <1>2, ItemFacts DEF TypeOK
  <2>2. More(0, 1) = 0 /\ 0 * CarPrice = 0
    BY Halves DEF More
  <2>3. More(e.used, 1) * D \in Nat
    BY <2>1, Halves, Times DEF More
  <2>4. Cost(i) = IF e.used = 0 THEN 0
                  ELSE (Price[k] - Refund(k))
                       + (IF k = "shaft" THEN More(0, 1) * CarPrice + More(e.used, 1) * D
                          ELSE 0)
    BY <1>2, <2>1 DEF Cost
  <2>5. CostOf(x, e) = Gone(k, e.used)
    BY <1>2 DEF CostOf
  <2> HIDE DEF D
  <2> QED BY <2>1, <2>2, <2>3, <2>4, <2>5, Halves DEF Gone, D
<1>3. CASE e # None /\ x # None
  <2>1. x.cars \in Nat /\ Most(x.cars, 1) = IF x.cars > 1 THEN x.cars ELSE 1
    BY <1>3, ItemFacts DEF TypeOK, Most
  <2>2. Cost(i) = Price[k] + (IF k = "shaft"
                              THEN More(x.cars, 1) * CarPrice
                                   + More(e.used, IF x.cars > 1 THEN x.cars ELSE 1) * D
                              ELSE 0)
    BY <1>3 DEF Cost
  <2> QED BY <1>3, <2>1, <2>2 DEF CostOf, Stand
<1> QED BY <1>1, <1>2, <1>3

LEMMA CostsAre == TypeOK => Costs = CostSum(tower, ledger)
<1> SUFFICES ASSUME TypeOK PROVE Costs = CostSum(tower, ledger)
  OBVIOUS
<1> DEFINE f == [i \in Id |-> CostOf(tower[i], ledger[i])]
           Made(g) == g = [i \in 0..MaxId |-> IF i = 0 THEN 0 ELSE g[i - 1] + Cost(i)]
           upto == CHOOSE g : Made(g)
<1>1. f \in Terms(MaxId) /\ MaxId \in Nat
  BY CostTerms, ItemFacts DEF TypeOK, Ledgers
<1>2. \A i \in 0..MaxId : i # 0 => f[i] = Cost(i)
  BY <1>1, CostIs DEF Id
<1>3. Costs = upto[MaxId] /\ CostSum(tower, ledger) = SumTo(MaxId, f)
  BY DEF Costs, CostSum
<1>4. \A g : Made(g) <=> AddsUp(g, MaxId, f)
  <2> HIDE DEF f
  <2> QED BY <1>2 DEF AddsUp
<1> HIDE DEF f, Made
<1>5. Made(upto)
  BY <1>1, <1>4, SumMade
<1> HIDE DEF upto
<1> QED BY <1>1, <1>3, <1>4, <1>5, SumMade

\* A new item costs its price, used or not.
LEMMA NewCost ==
    ASSUME NEW s \in Site, NEW u \in {0, 1}
    PROVE  /\ Kind[s] \in Kinds /\ Price[Kind[s]] \in Nat
           /\ Stand(Kind[s], Placed(s).cars, u) = Price[Kind[s]]
<1>1. Kind[s] \in Kinds /\ Price[Kind[s]] \in Nat
  BY GeometryAssumption, NumberAssumption
<1>2. CASE Kind[s] = "shaft"
  <2>1. Placed(s).cars = 1
    BY <1>2 DEF Placed
  <2>2. More(1, 1) = 0 /\ More(u, Most(1, 1)) = 0
    BY DEF More, Most
  <2>3. 0 * CarPrice = 0 /\ 0 * (CarPrice - CarRefund) = 0
    BY Halves
  <2> QED BY <1>1, <1>2, <2>1, <2>2, <2>3 DEF Stand
<1>3. CASE Kind[s] # "shaft"
  BY <1>1, <1>3 DEF Stand
<1> QED BY <1>1, <1>2, <1>3

LEMMA StartTypes == StartTower \in Towers /\ StartLedger \in Ledgers
<1>1. \A i \in Id : i <= Len(Begun) => i \in DOMAIN Begun /\ Begun[i] \in Site
  BY GeometryAssumption DEF Id
<1>2. StartTower \in Towers
  BY <1>1, PlacedType DEF StartTower, Towers
<1>3. StartLedger \in Ledgers
  BY <1>1 DEF StartLedger, Ledgers, Entry
<1> QED BY <1>2, <1>3

\* The tower begun has cost the prices of what stands there.
LEMMA BeginsType ==
    /\ Begins \in Int
    /\ CostSum(StartTower, StartLedger) = Begins
<1> DEFINE n == Len(Begun)
           f == [m \in 1..n |-> Price[Kind[Begun[m]]]]
           g == [i \in Id |-> CostOf(StartTower[i], StartLedger[i])]
           Made(z) == z = [m \in 0..n |-> IF m = 0 THEN 0
                                          ELSE z[m - 1] + Price[Kind[Begun[m]]]]
<1>1. n \in 0..MaxId /\ n \in Nat /\ MaxId \in Nat
  BY GeometryAssumption, NumberAssumption
<1>2. \A m \in 1..n : Begun[m] \in Site /\ Kind[Begun[m]] \in Kinds /\ Price[Kind[Begun[m]]] \in Nat
  <2>1. \A m \in 1..n : Begun[m] \in Site
    BY <1>1, GeometryAssumption
  <2> QED BY <2>1, GeometryAssumption, NumberAssumption
<1>3. f \in Terms(n)
  BY <1>2 DEF Terms
<1>4. \A z : Made(z) <=> AddsUp(z, n, f)
  <2>1. \A z : [m \in 0..n |-> IF m = 0 THEN 0 ELSE z[m - 1] + Price[Kind[Begun[m]]]]
                = [m \in 0..n |-> IF m = 0 THEN 0 ELSE z[m - 1] + f[m]]
    BY <1>1
  <2> QED BY <2>1 DEF AddsUp
<1>5. Begins = (CHOOSE z : Made(z))[n]
  BY DEF Begins
<1>6. PICK z : AddsUp(z, n, f)
  BY <1>1, <1>3, SumMade
<1>7. Made(CHOOSE y : Made(y))
  BY <1>4, <1>6
<1>8. Begins = SumTo(n, f)
  <2> HIDE DEF f, Made
  <2> QED BY <1>1, <1>3, <1>4, <1>5, <1>7, SumMade
<1>9. SumTo(n, f) \in Int
  <2> HIDE DEF f
  <2>1. \A m \in 1..n : f[m] <= f[m]
    BY <1>1, <1>3 DEF Terms
  <2> QED BY <1>1, <1>3, <2>1, SumLess
<1>10. StartTower \in Towers /\ StartLedger \in Ledgers
  BY StartTypes
<1>11. g \in Terms(MaxId)
  BY <1>10, CostTerms DEF Towers
<1>12. ASSUME NEW i \in 1..MaxId PROVE g[i] = IF i <= n THEN f[i] ELSE 0
  <2>1. i \in Id /\ g[i] = CostOf(StartTower[i], StartLedger[i])
    BY DEF Id
  <2>2. CASE i <= n
    <3>1. i \in 1..n /\ Begun[i] \in Site /\ Kind[Begun[i]] \in Kinds
      BY <1>1, <1>2, <2>2
    <3>2. /\ StartTower[i] = Placed(Begun[i])
          /\ StartLedger[i] = [site |-> Begun[i], used |-> 1, sale |-> None]
      BY <1>1, <2>1, <2>2 DEF StartTower, StartLedger
    <3>3. Placed(Begun[i]) # None /\ StartLedger[i] # None
      BY <1>10, <2>1, <3>1, <3>2, PlacedType, ItemFacts DEF Ledgers, Entry
    <3>4. g[i] = Stand(Kind[Begun[i]], Placed(Begun[i]).cars, 1)
      BY <2>1, <3>2, <3>3 DEF CostOf
    <3>5. Stand(Kind[Begun[i]], Placed(Begun[i]).cars, 1) = Price[Kind[Begun[i]]]
      BY <3>1, NewCost
    <3> QED BY <2>2, <3>1, <3>4, <3>5
  <2>3. CASE ~(i <= n)
    <3>1. StartLedger[i] = None
      BY <1>1, <2>1, <2>3 DEF StartLedger
    <3> QED BY <2>1, <2>3, <3>1 DEF CostOf
  <2> QED BY <2>2, <2>3
<1>13. SumTo(MaxId, g) = SumTo(n, f)
  <2> HIDE DEF f, g
  <2> QED BY <1>1, <1>3, <1>11, <1>12, SumEarly
<1> QED BY <1>8, <1>9, <1>13 DEF CostSum

-----------------------------------------------------------------------------
(* Time and other steps.                                                   *)

(* The same step, but for what the rooms it restores look like, and that   *)
(* the gesture's own use may have come to light.                           *)
Plain(image) == image = None \/ (image.do = "restore" /\ ~IsShaft(image.want))
Alike(step, then) ==
    /\ then.money = step.money /\ then.hour = step.hour
    /\ then.searched = step.searched /\ (step.usedInGesture => then.usedInGesture)
    /\ \A i \in Id : \/ then.images[i] = step.images[i]
                     \/ Plain(step.images[i]) /\ Plain(then.images[i])

(* Use only grows: an item in hand comes from one that was, with no fewer  *)
(* rides and no less opened, and what was used since shows it.             *)
AgesItem(k, u, r, worn, then, hr, h) ==
    /\ u <= r
    /\ \A y \in worn : y[3] \in Nat
    /\ \A y \in then : y[3] \in Nat /\ \E x \in worn : x[3] <= y[3]
                                                       /\ (Unopened(y) => Unopened(x))
    /\ r # u => /\ k = "floor" => hr < h
                /\ k = "shaft" => hr < h \/ \A y \in then : \E x \in worn : x[3] < y[3]
                /\ k \in {"room", "condo"} => \A y \in then : ~Unopened(y)
Ages(led, now, w, v, hr, h) ==
    /\ hr \in Nat /\ h \in Nat /\ hr <= h
    /\ \A i \in Id : led[i] # None =>
          AgesItem(Kind[led[i].site], UsedOf(led[i]), UsedOf(now[i]), w[i], v[i], hr, h)

\* What is known of a build's use stays known.
LEMMA TakeAges ==
    ASSUME NEW k, NEW left \in Item, NEW u \in Nat, NEW r \in Nat, NEW worn, NEW then,
           NEW hr \in Nat, NEW h \in Nat, hr <= h, NEW since \in Nat, since <= hr,
           AgesItem(k, u, r, worn, then, hr, h), TakeKnows(k, left, u, worn, since, hr)
    PROVE  TakeKnows(k, left, r, then, since, h)
<1>1. left.rides \in Nat
  BY ItemFacts
<1>2. ASSUME k = "floor", r > 0 PROVE since < h
  BY <1>2 DEF TakeKnows, AgesItem
<1>3. ASSUME k = "shaft", NEW y \in then PROVE y[3] >= left.rides
  <2>1. PICK x \in worn : x[3] <= y[3] /\ x[3] \in Nat /\ y[3] \in Nat
    BY DEF AgesItem
  <2>2. x[3] >= left.rides
    BY <1>3 DEF TakeKnows
  <2> QED BY <1>1, <2>1, <2>2
<1>4. ASSUME k = "shaft", r > 0, ~(since < h), NEW y \in then PROVE y[3] > left.rides
  <2>1. ~(hr < h) /\ ~(since < hr)
    BY <1>4
  <2>2. PICK x \in worn : x[3] <= y[3] /\ x[3] \in Nat /\ y[3] \in Nat
    BY DEF AgesItem
  <2>3. CASE r = u
    <3>1. x[3] > left.rides
      BY <1>4, <2>1, <2>3 DEF TakeKnows
    <3> QED BY <1>1, <2>2, <3>1
  <2>4. CASE r # u
    <3>1. PICK z \in worn : z[3] < y[3] /\ z[3] \in Nat
      BY <1>4, <2>1, <2>4 DEF AgesItem
    <3>2. z[3] >= left.rides
      BY <1>4 DEF TakeKnows
    <3> QED BY <1>1, <2>2, <3>1, <3>2
  <2> QED BY <2>3, <2>4
<1>5. ASSUME k \in {"room", "condo"}, ~Unopened(WearOf(left)) PROVE then = {}
  BY <1>5 DEF TakeKnows, AgesItem
<1>6. ASSUME k \in {"room", "condo"}, r > 0, NEW y \in then PROVE ~Unopened(y)
  BY <1>6 DEF TakeKnows, AgesItem
<1> QED BY <1>2, <1>3, <1>4, <1>5, <1>6 DEF TakeKnows

\* What is no shaft costs and pays back the same whatever cars its record has.
LEMMA UnitCost ==
    ASSUME NEW k \in Kinds, k # "shaft", NEW c \in Nat, NEW d \in Nat,
           NEW u \in Nat, NEW r \in Nat
    PROVE  /\ Stand(k, c, u) = Stand(k, d, r) /\ Back(k, c) = Back(k, d)
           /\ Back(k, c) = Refund(k) /\ Stand(k, c, u) = Price[k]
  BY Halves DEF Stand, Back

\* A restore of a unit changes no cost, and of a shaft the less the more it was
\* used, unless it takes cars that were built.
LEMMA UseBills ==
    ASSUME NEW image \in Image, NEW u \in Nat, NEW r \in Nat, u <= r
    PROVE  /\ image.do = "takeOut" => /\ BillOf(image, r) = BillOf(image, u)
                                      /\ GainOf(image, r) = GainOf(image, u)
           /\ image.do = "restore" /\ ~IsShaft(image.want) =>
                 /\ BillOf(image, u) = 0 /\ GainOf(image, u) = 0
           /\ image.do = "restore" /\ ~(image.built /\ image.want.cars < image.left.cars) =>
                 /\ BillOf(image, r) <= BillOf(image, u)
                 /\ GainOf(image, r) <= GainOf(image, u)
<1> DEFINE k == KindOf(image.want)
           a == image.left.cars
           b == image.want.cars
<1>1. k \in Kinds /\ a \in Nat /\ b \in Nat /\ image.do \in {"takeOut", "putBack", "restore"}
      /\ image.built \in BOOLEAN
  BY BillCases
<1>2. ASSUME NEW x \in Nat
      PROVE  /\ image.do = "takeOut" => /\ image.built => BillOf(image, x) = -Stand(k, a, 0)
                                        /\ ~image.built => BillOf(image, x) = -Back(k, a)
                                        /\ GainOf(image, x) = 0
             /\ image.do = "restore" =>
                 /\ b < a /\ ~image.built => BillOf(image, x) = Back(k, b) - Back(k, a)
                 /\ ~(b < a /\ ~image.built) => BillOf(image, x) = Stand(k, b, x) - Stand(k, a, x)
                 /\ a < b /\ image.built =>
                       GainOf(image, x) = Stand(k, b, x) - Stand(k, a, x) - (Back(k, b) - Back(k, a))
                 /\ ~(a < b /\ image.built) => GainOf(image, x) = 0
  BY BillCases
<1>3. (k = "shaft") = IsShaft(image.want)
  BY DEF IsShaft
<1> HIDE DEF k, a, b
<1>4. /\ Stand(k, a, u) \in Nat /\ Stand(k, b, u) \in Nat /\ Stand(k, a, r) \in Nat
      /\ Stand(k, b, r) \in Nat /\ Back(k, a) \in Nat /\ Back(k, b) \in Nat
  BY <1>1, CostTypes
<1>5. image.do = "takeOut" => /\ BillOf(image, r) = BillOf(image, u)
                              /\ GainOf(image, r) = GainOf(image, u)
  BY <1>1, <1>2
<1>6. image.do = "restore" /\ k # "shaft" => BillOf(image, u) = 0 /\ GainOf(image, u) = 0
  <2>1. k # "shaft" => Stand(k, b, u) = Stand(k, a, u) /\ Back(k, b) = Back(k, a)
    BY <1>1, UnitCost
  <2> QED BY <1>1, <1>2, <1>4, <2>1
<1>7. a <= b => Stand(k, b, r) - Stand(k, a, r) <= Stand(k, b, u) - Stand(k, a, u)
  BY <1>1, MoreCars
<1>8. image.do = "restore" /\ ~(image.built /\ b < a) =>
         BillOf(image, r) <= BillOf(image, u) /\ GainOf(image, r) <= GainOf(image, u)
  <2>1. CASE b < a
    BY <1>1, <1>2, <1>4, <2>1
  <2>2. CASE ~(b < a)
    <3>1. a <= b
      BY <1>1, <2>2
    <3>2. image.do = "restore" =>
             /\ BillOf(image, u) = Stand(k, b, u) - Stand(k, a, u)
             /\ BillOf(image, r) = Stand(k, b, r) - Stand(k, a, r)
      BY <1>2, <2>2
    <3> QED BY <1>1, <1>2, <1>4, <1>7, <2>2, <3>1
  <2> QED BY <2>1, <2>2
<1> QED BY <1>1, <1>3, <1>5, <1>6, <1>8 DEF k, a, b

\* What is known of a step stays known, and it holds back no more.
LEMMA StepAges ==
    ASSUME NEW step \in Step, NEW then \in Step, Alike(step, then),
           NEW led \in Ledgers, NEW now \in Ledgers, NEW w, NEW v, NEW hr, NEW h,
           Ages(led, now, w, v, hr, h), StepSited(step, led), Knows(step, led, w, hr),
           \A i \in Id : Does(step, i, "putBack") => UsedOf(now[i]) = UsedOf(led[i])
    PROVE  /\ Knows(then, now, v, h)
           /\ Reserve(then, now, v, h) <= Reserve(step, led, w, hr)
<1> DEFINE known == ~step.searched /\ ~step.usedInGesture
<1>1. /\ hr \in Nat /\ h \in Nat /\ hr <= h /\ step.hour \in Nat /\ step.hour <= hr
      /\ then.hour = step.hour /\ then.money = step.money
      /\ \A i \in Id : /\ UsedOf(led[i]) \in Nat /\ UsedOf(now[i]) \in Nat
                       /\ step.images[i] \in Image \cup {None}
                       /\ then.images[i] \in Image \cup {None}
  BY StepTerms DEF Ages, Knows, Alike
<1>2. ~then.searched /\ ~then.usedInGesture => known
  BY DEF Alike
<1>3. ASSUME NEW i \in Id, Named(step, i)
      PROVE  /\ led[i] # None /\ KindOf(Want(step, i)) = Kind[led[i].site]
             /\ AgesItem(KindOf(Want(step, i)), UsedOf(led[i]), UsedOf(now[i]), w[i], v[i], hr, h)
             /\ Want(step, i) \in Item /\ Left(step, i) \in Item
             /\ Left(step, i).rides \in Nat
  <2>1. led[i] # None /\ KindOf(Want(step, i)) = Kind[led[i].site]
    BY <1>3 DEF StepSited, SitedIn, KindOf
  <2>2. Want(step, i) \in Item /\ Left(step, i) \in Item
    BY <1>1, <1>3 DEF Named, Want, Left, Image
  <2> QED BY <2>1, <2>2, ItemFacts DEF Ages
<1>4. ASSUME NEW i \in Id, \/ TakesBuilt(then, i) \/ TakesBuilt(step, i) \/ DropsCars(then, i)
                           \/ DropsCars(step, i) \/ Does(then, i, "putBack")
      PROVE  then.images[i] = step.images[i] /\ Named(step, i)
  <2>1. ~(Plain(step.images[i]) /\ Plain(then.images[i]))
    BY <1>4 DEF TakesBuilt, DropsCars, Does, Plain, OfShaft, Want
  <2>2. then.images[i] = step.images[i]
    BY <2>1 DEF Alike
  <2> QED BY <1>4, <2>2 DEF TakesBuilt, DropsCars, Does, Named
<1>5. ASSUME NEW i \in Id, known, TakesBuilt(then, i)
      PROVE  TakeKnows(KindOf(Want(then, i)), Left(then, i), UsedOf(now[i]), v[i], then.hour, h)
  <2>1. /\ then.images[i] = step.images[i] /\ Named(step, i) /\ TakesBuilt(step, i)
        /\ Want(then, i) = Want(step, i) /\ Left(then, i) = Left(step, i)
    BY <1>4, <1>5 DEF TakesBuilt, Does, Want, Left
  <2>2. TakeKnows(KindOf(Want(step, i)), Left(step, i), UsedOf(led[i]), w[i], step.hour, hr)
    BY <1>5, <2>1 DEF Knows
  <2> QED BY <1>1, <1>3, <2>1, <2>2, TakeAges
<1>6. ASSUME NEW i \in Id, known, Does(then, i, "putBack"), then.images[i].built
      PROVE  UsedOf(now[i]) = 0 /\ (IsRoom(Want(then, i)) => Unopened(WearOf(Want(then, i))))
  BY <1>4, <1>6 DEF Knows, Does, Want
<1>7. ASSUME NEW i \in Id, known, DropsCars(step, i), NEW y \in v[i]
      PROVE  \E x \in w[i] : x[3] \in Nat /\ y[3] \in Nat /\ x[3] <= y[3] /\ x[3] >= Left(step, i).rides
                             /\ (UsedOf(now[i]) # UsedOf(led[i]) => hr < h \/ y[3] > Left(step, i).rides)
  <2>1. Named(step, i) /\ KindOf(Want(step, i)) = "shaft"
    BY <1>4, <1>7 DEF DropsCars, OfShaft, IsShaft
  <2>2. PICK x \in w[i] : x[3] \in Nat /\ y[3] \in Nat /\ x[3] <= y[3]
    BY <1>3, <1>7, <2>1 DEF AgesItem
  <2>3. \A z \in w[i] : z[3] \in Nat /\ z[3] >= Left(step, i).rides
    BY <1>3, <1>7, <2>1 DEF Knows, AgesItem
  <2>4. UsedOf(now[i]) # UsedOf(led[i]) => hr < h \/ \E z \in w[i] : z[3] < y[3]
    BY <1>3, <1>7, <2>1 DEF AgesItem
  <2>5. UsedOf(now[i]) # UsedOf(led[i]) => hr < h \/ y[3] > Left(step, i).rides
    BY <1>3, <2>1, <2>2, <2>3, <2>4
  <2> QED BY <2>2, <2>3, <2>5
<1>8. ASSUME NEW i \in Id, known, DropsCars(then, i), NEW y \in v[i]
      PROVE  y[3] >= Left(then, i).rides
  <2>1. /\ Named(step, i) /\ DropsCars(step, i) /\ Left(then, i) = Left(step, i)
    BY <1>4, <1>8 DEF DropsCars, Does, Want, Left, OfShaft
  <2>2. PICK x \in w[i] : x[3] \in Nat /\ y[3] \in Nat /\ x[3] <= y[3]
                          /\ x[3] >= Left(step, i).rides
    BY <1>7, <1>8, <2>1
  <2> QED BY <1>3, <2>1, <2>2
<1>9. Knows(then, now, v, h)
  <2>1. then.hour <= h
    BY <1>1
  <2>2. ~then.searched /\ ~then.usedInGesture => known
    BY <1>2
  <2> HIDE DEF known
  <2> QED BY <2>1, <2>2, <1>5, <1>6, <1>8 DEF Knows
<1>10. Spent(step, led, w, hr) => Spent(then, now, v, h)
  <2>1. CASE step.searched \/ step.usedInGesture
    BY <2>1 DEF Alike, Spent
  <2>2. ASSUME NEW i \in Id, TakesBuilt(step, i), UsedOf(led[i]) > 0
        PROVE  Spent(then, now, v, h)
    <3>1. TakesBuilt(then, i) /\ UsedOf(now[i]) > 0
      BY <1>1, <1>3, <1>4, <2>2 DEF TakesBuilt, Does, AgesItem
    <3> QED BY <3>1 DEF Spent
  <2>3. ASSUME known, NEW i \in Id, DropsCars(step, i),
               hr # step.hour \/ \A y \in w[i] : y[3] # Left(step, i).rides
        PROVE  Spent(then, now, v, h)
    <3>1. DropsCars(then, i) /\ Left(then, i) = Left(step, i) /\ Left(step, i).rides \in Nat
      BY <1>3, <1>4, <2>3 DEF DropsCars, Does, Want, Left, OfShaft
    <3>2. h # then.hour \/ \A y \in v[i] : y[3] # Left(then, i).rides
      <4>1. CASE hr # step.hour
        BY <1>1, <4>1
      <4>2. ASSUME hr = step.hour, NEW y \in v[i] PROVE y[3] # Left(then, i).rides
        <5>1. PICK x \in w[i] : x[3] \in Nat /\ y[3] \in Nat /\ x[3] <= y[3]
                                /\ x[3] >= Left(step, i).rides
          BY <1>7, <2>3
        <5>2. x[3] # Left(step, i).rides
          BY <2>3, <4>2
        <5> QED BY <3>1, <5>1, <5>2
      <4> QED BY <4>1, <4>2
    <3> QED BY <3>1, <3>2 DEF Spent
  <2> QED BY <2>1, <2>2, <2>3 DEF Spent
<1>11. ASSUME ~Spent(then, now, v, h), NEW i \in Id
       PROVE  /\ BillOf(then.images[i], UsedOf(now[i])) <= BillOf(step.images[i], UsedOf(led[i]))
              /\ GainOf(then.images[i], UsedOf(now[i])) <= GainOf(step.images[i], UsedOf(led[i]))
  <2>1. CASE then.images[i] # step.images[i]
    <3>1. Plain(step.images[i]) /\ Plain(then.images[i])
      BY <2>1 DEF Alike
    <3>2. \A image \in Image \cup {None} : \A u \in Nat :
             Plain(image) => BillOf(image, u) = 0 /\ GainOf(image, u) = 0
      BY UseBills, NoBill DEF Plain
    <3> QED BY <1>1, <3>1, <3>2
  <2>2. CASE then.images[i] = step.images[i] /\ ~Named(step, i)
    BY <2>2, NoBill DEF Named
  <2>3. CASE then.images[i] = step.images[i] /\ Named(step, i)
    <3> DEFINE image == step.images[i]
    <3>1. /\ image \in Image /\ image # None /\ UsedOf(led[i]) <= UsedOf(now[i])
          /\ image.do \in {"takeOut", "putBack", "restore"}
      BY <1>1, <1>3, <2>3 DEF Named, AgesItem, Image
    <3>7. BillOf(image, UsedOf(led[i])) \in Int /\ GainOf(image, UsedOf(led[i])) \in Nat
      BY <1>1, <3>1, BillTypes
    <3>2. CASE image.do = "putBack"
      <4>1. UsedOf(now[i]) = UsedOf(led[i])
        BY <3>1, <3>2 DEF Does
      <4> QED BY <2>3, <3>7, <4>1
    <3>3. CASE image.do = "restore" /\ image.built /\ image.want.cars < image.left.cars
               /\ IsShaft(image.want)
      <4>1. DropsCars(step, i)
        BY <3>1, <3>3 DEF DropsCars, Does, OfShaft, Want, Left, TakesCars
      <4>2. DropsCars(then, i) /\ Left(then, i) = Left(step, i)
        BY <2>3, <4>1 DEF DropsCars, Does, OfShaft, Want, Left
      <4>3. h = step.hour /\ \E y \in v[i] : y[3] = Left(step, i).rides
        BY <1>1, <1>11, <4>2 DEF Spent
      <4>4. known /\ hr = h
        BY <1>1, <1>2, <1>11, <4>3 DEF Spent
      <4>5. UsedOf(now[i]) = UsedOf(led[i])
        <5>1. PICK y \in v[i] : y[3] = Left(step, i).rides
          BY <4>3
        <5>2. UsedOf(now[i]) # UsedOf(led[i]) => hr < h \/ y[3] > Left(step, i).rides
          BY <1>7, <4>1, <4>4
        <5> QED BY <1>1, <1>3, <2>3, <4>4, <5>1, <5>2
      <4> QED BY <2>3, <3>7, <4>5
    <3>4. CASE image.do = "restore" /\ ~(image.built /\ image.want.cars < image.left.cars)
      BY <1>1, <2>3, <3>1, <3>4, UseBills
    <3>5. CASE image.do = "restore" /\ ~IsShaft(image.want)
      <4>1. \A u \in Nat : BillOf(image, u) = 0 /\ GainOf(image, u) = 0
        BY <3>1, <3>5, UseBills
      <4> HIDE DEF image
      <4> QED BY <1>1, <2>3, <4>1 DEF image
    <3>6. CASE image.do = "takeOut"
      <4>1. /\ BillOf(image, UsedOf(now[i])) = BillOf(image, UsedOf(led[i]))
            /\ GainOf(image, UsedOf(now[i])) = GainOf(image, UsedOf(led[i]))
        BY <1>1, <3>1, <3>6, UseBills
      <4> QED BY <2>3, <3>7, <4>1
    <3> QED BY <3>1, <3>2, <3>3, <3>4, <3>5, <3>6
  <2> QED BY <2>1, <2>2, <2>3
<1> QED BY <1>1, <1>9, <1>10, <1>11, ReserveLess

\* The same of a stack.
LEMMA StackAges ==
    ASSUME NEW stack \in Seq(Step), NEW led \in Ledgers, NEW now \in Ledgers,
           NEW w, NEW v, NEW hr, NEW h, Ages(led, now, w, v, hr, h),
           GoodSteps(stack, led), StackKnows(stack, led, w, hr),
           \A i \in Id : Puts(stack, i) => UsedOf(now[i]) = UsedOf(led[i])
    PROVE  /\ StackKnows(stack, now, v, h)
           /\ Total(stack, now, v, h) <= Total(stack, led, w, hr)
<1>1. ASSUME NEW m \in DOMAIN stack
      PROVE  /\ Knows(stack[m], now, v, h)
             /\ Reserve(stack[m], now, v, h) <= Reserve(stack[m], led, w, hr)
  <2>1. stack[m] \in Step /\ StepSited(stack[m], led) /\ Knows(stack[m], led, w, hr)
    BY DEF GoodSteps, StackKnows
  <2>2. Alike(stack[m], stack[m])
    BY DEF Alike
  <2>3. \A i \in Id : Does(stack[m], i, "putBack") => UsedOf(now[i]) = UsedOf(led[i])
    BY DEF Puts
  <2> QED BY <2>1, <2>2, <2>3, StepAges
<1>2. StackKnows(stack, now, v, h)
  BY <1>1 DEF StackKnows
<1>3. Total(stack, now, v, h) <= Total(stack, led, w, hr)
  BY <1>1, TotalLess
<1> QED BY <1>2, <1>3

\* What the items in hand look like.
LEMMA HandsType ==
    ASSUME NEW t, NEW tk, NEW a, NEW b, NEW i \in Id
    PROVE  /\ \A y \in Hands(t, tk, a, b)[i] : y[3] \in Nat
           /\ \A y : y \in Hands(t, tk, a, b)[i] <=>
                        \E x \in Item : y = WearOf(x) /\ x \in InHand(t, tk, a, b, i)
<1>1. Hands(t, tk, a, b)[i] = {WearOf(x) : x \in InHand(t, tk, a, b, i)}
  BY DEF Hands
<1>2. InHand(t, tk, a, b, i) \subseteq Item
  BY DEF InHand
<1>3. \A x \in Item : WearOf(x)[3] \in Nat
  BY ItemFacts DEF WearOf
<1> QED BY <1>1, <1>2, <1>3

\* With fewer items in hand, nothing else changed.
LEMMA FewerHands ==
    ASSUME NEW led \in Ledgers, NEW w, NEW v, NEW hr \in Nat,
           \A i \in Id : led[i] # None => v[i] \subseteq w[i] /\ \A y \in w[i] : y[3] \in Nat
    PROVE  Ages(led, led, w, v, hr, hr)
<1>1. \A i \in Id : UsedOf(led[i]) \in Nat
  BY ItemFacts DEF Ledgers
<1>2. ASSUME NEW i \in Id, led[i] # None
      PROVE  AgesItem(Kind[led[i].site], UsedOf(led[i]), UsedOf(led[i]), w[i], v[i], hr, hr)
  <2>1. \A y \in v[i] : y \in w[i] /\ y[3] \in Nat /\ y[3] <= y[3]
    BY <1>2
  <2> QED BY <1>1, <1>2, <2>1 DEF AgesItem
<1> QED BY <1>2 DEF Ages

-----------------------------------------------------------------------------
(* Closing a gesture.                                                      *)

(* The items in hand once no gesture is open.                              *)
ShutHands(t, a, b) == Hands(t, [i \in Id |-> None], a, b)

(* The balance covers what two stacks hold back with no gesture open.      *)
Settled(t, cash, a, b, w) ==
    /\ cash + CostSum(t, ledger) + Total(a, ledger, w, hours) + Total(b, ledger, w, hours)
         <= StartMoney + outside + Begins
    /\ StackKnows(a, ledger, w, hours) /\ StackKnows(b, ledger, w, hours)
    /\ HandsKnow(ledger, w)

\* A gesture closed leaves its items in hand in the step it closes into.
LEMMA ClosedHands ==
    ASSUME Inv, NEW i \in Id
    PROVE  ShutHands(tower, UndoCommitted, RedoCommitted)[i] \subseteq Worn[i]
<1> DEFINE a == UndoCommitted
           b == RedoCommitted
<1>1. /\ undo \in Seq(Step) /\ redo \in Seq(Step) /\ journal \in Journal
      /\ tower \in [Id -> Item \cup {None}]
  BY DEF Inv, TypeOK
<1>2. ASSUME NEW m \in DOMAIN a, Does(a[m], i, "putBack")
      PROVE  \/ Want(a[m], i) = TookOf[i]
             \/ \E n \in DOMAIN undo : Does(undo[n], i, "putBack") /\ Want(a[m], i) = Want(undo[n], i)
  <2>1. \/ \E n \in DOMAIN undo : a[m] = undo[n]
        \/ journal.open /\ a[m] = StepOf(journal)
    BY <1>1, CommittedHolds, PushedHolds
  <2>2. ASSUME journal.open, a[m] = StepOf(journal)
        PROVE  Want(a[m], i) = TookOf[i]
    <3>1. a[m].images[i] = ImageOf(journal.touched[i], tower[i])
      BY <2>2 DEF StepOf
    <3>2. journal.touched[i] # None /\ ImageOf(journal.touched[i], tower[i]) # None
      BY <1>2, <3>1 DEF Does, ImageOf
    <3>3. journal.touched[i] \in Touch /\ tower[i] \in Item \cup {None}
      BY <1>1, <3>2 DEF Journal
    <3>4. journal.touched[i].how = "was" /\ tower[i] = None
      BY <1>2, <3>1, <3>2, <3>3, PutBackOf DEF Does
    <3>5. a[m].images[i].want = journal.touched[i].item
      BY <3>1, <3>2, <3>3, ImageOfWants
    <3> QED BY <2>2, <3>2, <3>4, <3>5 DEF TookOf, Took, Want
  <2> QED BY <1>2, <2>1, <2>2
<1>3. \A m \in DOMAIN b : \E n \in DOMAIN redo : b[m] = redo[n]
  BY <1>1, CommittedHolds
<1>4. InHand(tower, [k \in Id |-> None], a, b, i) \subseteq InHand(tower, TookOf, undo, redo, i)
  <2>1. ASSUME NEW x \in InHand(tower, [k \in Id |-> None], a, b, i)
        PROVE  x \in InHand(tower, TookOf, undo, redo, i)
    <3>1. x \in Item /\ x # None
      BY ItemFacts DEF InHand
    <3>2. \/ x = tower[i]
          \/ \E m \in DOMAIN a : Does(a[m], i, "putBack") /\ x = Want(a[m], i)
          \/ \E m \in DOMAIN b : Does(b[m], i, "putBack") /\ x = Want(b[m], i)
      BY <3>1 DEF InHand
    <3>3. CASE \E m \in DOMAIN a : Does(a[m], i, "putBack") /\ x = Want(a[m], i)
      BY <1>2, <3>1, <3>3 DEF InHand
    <3>4. CASE \E m \in DOMAIN b : Does(b[m], i, "putBack") /\ x = Want(b[m], i)
      BY <1>3, <3>1, <3>4 DEF InHand
    <3> QED BY <3>1, <3>2, <3>3, <3>4 DEF InHand
  <2> QED BY <2>1
<1> HIDE DEF a, b
<1>5. \A y : y \in ShutHands(tower, a, b)[i] <=>
                \E x \in Item : y = WearOf(x) /\ x \in InHand(tower, [k \in Id |-> None], a, b, i)
  BY HandsType DEF ShutHands
<1>6. \A y : y \in Worn[i] <=>
                \E x \in Item : y = WearOf(x) /\ x \in InHand(tower, TookOf, undo, redo, i)
  BY HandsType DEF Worn
<1> QED BY <1>4, <1>5, <1>6 DEF a, b

\* The step a gesture closes into holds back what the open gesture did.
LEMMA Closed ==
    ASSUME Inv, MoneyInv
    PROVE  Settled(tower, money, UndoCommitted, RedoCommitted,
                   ShutHands(tower, UndoCommitted, RedoCommitted))
<1> DEFINE a == UndoCommitted
           b == RedoCommitted
           s == StepOf(journal)
           w == ShutHands(tower, a, b)
<1>1. /\ undo \in Seq(Step) /\ redo \in Seq(Step) /\ ledger \in Ledgers /\ hours \in Nat
      /\ tower \in Towers /\ money \in Int /\ outside \in Int
  BY NumberAssumption DEF Inv, TypeOK, Ledgers, Towers
<1>2. a \in Seq(Step) /\ b \in Seq(Step) /\ GoodSteps(a, ledger) /\ GoodSteps(b, ledger)
  BY CommittedGood
<1>3. /\ StackKnows(a, ledger, Worn, hours) /\ StackKnows(b, ledger, Worn, hours)
      /\ Total(a, ledger, Worn, hours) + Total(b, ledger, Worn, hours)
           <= Total(undo, ledger, Worn, hours) + Total(redo, ledger, Worn, hours) + Open
  <2>1. CASE Kept
    <3>1. s \in Step /\ journal.open /\ a = Pushed(undo, s) /\ b = <<>>
      BY <2>1, CommittedHolds
    <3>2. StackKnows(a, ledger, Worn, hours)
      <4>1. ASSUME NEW m \in DOMAIN a PROVE Knows(a[m], ledger, Worn, hours)
        <5>1. a[m] = s \/ \E n \in DOMAIN undo : a[m] = undo[n]
          BY <1>1, <3>1, PushedHolds
        <5> QED BY <3>1, <5>1 DEF MoneyInv, StackKnows
      <4> QED BY <4>1 DEF StackKnows
    <3>3. StackKnows(b, ledger, Worn, hours)
      BY <3>1 DEF StackKnows
    <3>4. Total(a, ledger, Worn, hours) <= Total(undo, ledger, Worn, hours) + Open
      BY <1>1, <3>1, TotalPushed DEF Open
    <3>5. Total(b, ledger, Worn, hours) = 0 /\ Total(redo, ledger, Worn, hours) \in Nat
      BY <1>1, <3>1, TotalNone, TotalType
    <3>6. /\ Total(undo, ledger, Worn, hours) \in Nat /\ Total(a, ledger, Worn, hours) \in Nat
          /\ Open \in Nat
      BY <1>1, <1>2, <3>1, TotalType, ReserveType DEF Open
    <3> QED BY <3>2, <3>3, <3>4, <3>5, <3>6
  <2>2. CASE ~Kept
    <3>1. a = undo /\ b = redo
      BY <2>2, CommittedHolds
    <3>2. Open \in Nat
      <4>1. journal.open => s \in Step
        BY StepOfType DEF Inv
      <4> QED BY <1>1, <4>1, ReserveType DEF Open
    <3>3. /\ Total(undo, ledger, Worn, hours) \in Nat
          /\ Total(redo, ledger, Worn, hours) \in Nat
      BY <1>1, TotalType
    <3> QED BY <3>1, <3>2, <3>3 DEF MoneyInv
  <2> QED BY <2>1, <2>2
<1>4. ASSUME NEW i \in Id PROVE w[i] \subseteq Worn[i] /\ \A y \in Worn[i] : y[3] \in Nat
  BY ClosedHands, HandsType DEF Worn
<1>5. Ages(ledger, ledger, Worn, w, hours, hours)
  <2> HIDE DEF w
  <2> QED BY <1>1, <1>4, FewerHands
<1>6. /\ StackKnows(a, ledger, w, hours)
      /\ Total(a, ledger, w, hours) <= Total(a, ledger, Worn, hours)
  <2> HIDE DEF w, a
  <2> QED BY <1>1, <1>2, <1>3, <1>5, StackAges
<1>7. /\ StackKnows(b, ledger, w, hours)
      /\ Total(b, ledger, w, hours) <= Total(b, ledger, Worn, hours)
  <2> HIDE DEF w, b
  <2> QED BY <1>1, <1>2, <1>3, <1>5, StackAges
<1>8. HandsKnow(ledger, w)
  <2> HIDE DEF w
  <2> QED BY <1>4 DEF MoneyInv, HandsKnow
<1>9. money + CostSum(tower, ledger) + Total(a, ledger, w, hours) + Total(b, ledger, w, hours)
        <= StartMoney + outside + Begins
  <2>1. /\ Total(a, ledger, w, hours) \in Nat /\ Total(b, ledger, w, hours) \in Nat
        /\ Total(a, ledger, Worn, hours) \in Nat /\ Total(b, ledger, Worn, hours) \in Nat
        /\ Total(undo, ledger, Worn, hours) \in Nat /\ Total(redo, ledger, Worn, hours) \in Nat
    BY <1>1, <1>2, TotalType
  <2>2. Open \in Nat /\ CostSum(tower, ledger) \in Int
    <3>1. journal.open => s \in Step
      BY StepOfType DEF Inv
    <3> QED BY <1>1, <3>1, ReserveType, CostSumType DEF Open
  <2>3. StartMoney \in Int /\ Begins \in Int
    BY BeginsType, NumberAssumption
  <2>4. Covered
    BY DEF MoneyInv
  <2> DEFINE cs == CostSum(tower, ledger)
             aw == Total(a, ledger, w, hours)
             bw == Total(b, ledger, w, hours)
             ao == Total(a, ledger, Worn, hours)
             bo == Total(b, ledger, Worn, hours)
             u == Total(undo, ledger, Worn, hours)
             r == Total(redo, ledger, Worn, hours)
             o == Open
             g == Begins
  <2>5. aw <= ao /\ bw <= bo /\ ao + bo <= u + r + o
    BY <1>3, <1>6, <1>7
  <2>6. money + cs + u + r + o <= StartMoney + outside + g
    BY <2>4 DEF Covered
  <2>7. /\ aw \in Nat /\ bw \in Nat /\ ao \in Nat /\ bo \in Nat /\ u \in Nat /\ r \in Nat
        /\ o \in Nat /\ cs \in Int /\ g \in Int /\ StartMoney \in Int /\ money \in Int
        /\ outside \in Int
    BY <1>1, <2>1, <2>2, <2>3
  <2> HIDE DEF a, b, w, s, cs, aw, bw, ao, bo, u, r, o, g
  <2>8. money + cs + aw + bw <= StartMoney + outside + g
    <3>1. aw + bw <= u + r + o
      BY <2>5, <2>7
    <3> QED BY <2>6, <2>7, <3>1
  <2> QED BY <2>8 DEF cs, aw, bw, g
<1> QED BY <1>6, <1>7, <1>8, <1>9 DEF Settled

(* The step a gesture j would close into, on tower t at hour hr.           *)
StepFrom(j, t, hr) ==
    [images |-> [i \in Id |-> ImageOf(j.touched[i], t[i])],
     money |-> -j.cash, searched |-> j.searched, hour |-> j.hour,
     usedInGesture |-> j.usedThenTaken \/ (j.tookOwn /\ hr # j.hour),
     held |-> [k \in Kinds |-> Count(t, k)]]

LEMMA StepIs ==
    /\ StepOf(journal) = StepFrom(journal, tower, hours)
    /\ StepOf(journal)' = StepFrom(journal', tower', hours')
  BY DEF StepOf, StepFrom, Count, Standing
LEMMA StepFromType ==
    ASSUME NEW j \in Journal, NEW t \in Towers, NEW hr
    PROVE  /\ StepFrom(j, t, hr) \in Step
           /\ StepFrom(j, t, hr).money = -j.cash /\ StepFrom(j, t, hr).searched = j.searched
           /\ StepFrom(j, t, hr).hour = j.hour
           /\ StepFrom(j, t, hr).usedInGesture = (j.usedThenTaken \/ (j.tookOwn /\ hr # j.hour))
           /\ \A i \in Id : StepFrom(j, t, hr).images[i] = ImageOf(j.touched[i], t[i])
<1>1. /\ j.touched \in [Id -> Touch \cup {None}] /\ j.cash \in Int /\ j.searched \in BOOLEAN
      /\ j.tookOwn \in BOOLEAN /\ j.usedThenTaken \in BOOLEAN /\ j.hour \in 0..MaxHour
  BY DEF Journal
<1>2. [i \in Id |-> ImageOf(j.touched[i], t[i])] \in [Id -> Image \cup {None}]
  BY <1>1, ImageOfType DEF Towers
<1>3. [k \in Kinds |-> Count(t, k)] \in [Kinds -> 0..MaxId]
  BY CountType DEF Towers
<1>4. (j.usedThenTaken \/ (j.tookOwn /\ hr # j.hour)) \in BOOLEAN /\ -j.cash \in Int
  BY <1>1
<1>5. StepFrom(j, t, hr) \in Step
  BY <1>1, <1>2, <1>3, <1>4 DEF StepFrom, Step
<1> QED BY <1>5 DEF StepFrom

LEMMA NewJournal ==
    /\ NoJournal.cash = 0 /\ ~NoJournal.searched /\ ~NoJournal.tookOwn
    /\ ~NoJournal.usedThenTaken /\ ~NoJournal.open
    /\ OpenJournal.cash = 0 /\ ~OpenJournal.searched /\ ~OpenJournal.tookOwn
    /\ ~OpenJournal.usedThenTaken /\ OpenJournal.open /\ OpenJournal.hour = hours
    /\ \A i \in Id : NoJournal.touched[i] = None /\ OpenJournal.touched[i] = None
<1>1. /\ OpenJournal.cash = NoJournal.cash /\ OpenJournal.searched = NoJournal.searched
      /\ OpenJournal.tookOwn = NoJournal.tookOwn /\ OpenJournal.touched = NoJournal.touched
      /\ OpenJournal.usedThenTaken = NoJournal.usedThenTaken
      /\ OpenJournal.open = TRUE /\ OpenJournal.hour = hours
  BY DEF OpenJournal, NoJournal
<1> QED BY <1>1 DEF NoJournal

\* With nothing touched, only the stacks and the tower count.
LEMMA Shut ==
    ASSUME Inv', UNCHANGED <<ledger, hours, outside>>,
           \A i \in Id : journal'.touched[i] = None,
           journal' = NoJournal \/ journal' = OpenJournal,
           Settled(tower', money', undo', redo', ShutHands(tower', undo', redo'))
    PROVE  MoneyInv'
<1> DEFINE w == ShutHands(tower', undo', redo')
           s == StepOf(journal)'
<1>1. /\ journal' \in Journal /\ tower' \in Towers /\ ledger \in Ledgers /\ hours \in Nat
      /\ money' \in Int /\ undo' \in Seq(Step) /\ redo' \in Seq(Step) /\ outside \in Int
  BY NumberAssumption DEF Inv, TypeOK, Towers, Ledgers
<1>2. TookOf' = [i \in Id |-> None]
  BY DEF TookOf, Took
<1>3. Worn' = w
  BY <1>2 DEF Worn, ShutHands
<1>4. /\ s \in Step /\ s.money = 0 /\ ~s.searched /\ ~s.usedInGesture
      /\ \A i \in Id : s.images[i] = None
      /\ journal'.open => s.hour = hours
  <2>1. s = StepFrom(journal', tower', hours')
    BY StepIs
  <2>2. journal'.cash = 0 /\ ~journal'.searched /\ ~journal'.tookOwn /\ ~journal'.usedThenTaken
        /\ (journal'.open => journal'.hour = hours)
    BY NewJournal
  <2>3. \A i \in Id : ImageOf(journal'.touched[i], tower'[i]) = None
    BY DEF ImageOf
  <2> DEFINE f == StepFrom(journal', tower', hours')
  <2>4. /\ f \in Step /\ f.money = -journal'.cash /\ f.searched = journal'.searched
        /\ f.hour = journal'.hour
        /\ f.usedInGesture = (journal'.usedThenTaken \/ (journal'.tookOwn /\ hours' # journal'.hour))
        /\ \A i \in Id : f.images[i] = ImageOf(journal'.touched[i], tower'[i])
    BY <1>1, StepFromType
  <2> HIDE DEF s, f
  <2>5. f.money = 0 /\ (\A i \in Id : f.images[i] = None) /\ (journal'.open => f.hour = hours)
    <3>1. f.money = 0
      <4>1. f.money = -journal'.cash
        BY <2>4, Zenon
      <4>2. journal'.cash = 0
        BY <2>2, Zenon
      <4>3. \A c \in Int : -c \in Int /\ -c + c = 0
        OBVIOUS
      <4>4. f.money \in Int /\ f.money + 0 = 0
        BY <4>1, <4>2, <4>3
      <4> QED BY <4>4
    <3>2. \A i \in Id : f.images[i] = None
      BY <2>3, <2>4, Zenon
    <3>3. journal'.open => f.hour = hours
      BY <2>2, <2>4, Zenon
    <3> QED BY <3>1, <3>2, <3>3
  <2>6. ~f.searched /\ ~f.usedInGesture
    BY <2>2, <2>4, Zenon
  <2> QED BY <2>1, <2>4, <2>5, <2>6 DEF f
<1>5. /\ \A i \in Id : ~TakesBuilt(s, i) /\ ~Does(s, i, "putBack") /\ ~DropsCars(s, i)
      /\ \A u : \A i \in Id : BillOf(s.images[i], u) = 0 /\ GainOf(s.images[i], u) = 0
  BY <1>4, NoBill DEF TakesBuilt, DropsCars, Does
<1> HIDE DEF s, w
<1>6. journal'.open => Knows(s, ledger, w, hours)
  BY <1>1, <1>4, <1>5 DEF Knows
<1>7. Reserve(s, ledger, w, hours) = 0
  <2>1. Bills(s, ledger) = 0 /\ Gains(s, ledger) = 0
    <3>1. /\ [i \in Id |-> BillOf(s.images[i], UsedOf(ledger[i]))] \in Terms(MaxId)
          /\ [i \in Id |-> GainOf(s.images[i], UsedOf(ledger[i]))] \in Terms(MaxId)
      BY <1>1, <1>4, StepTerms
    <3> QED BY <3>1, <1>5, SumNone, ItemFacts DEF Bills, Gains, Id
  <2> QED BY <1>4, <2>1 DEF Reserve, Most
<1>8. Open' = 0
  BY <1>3, <1>7 DEF Open, s
<1>9. Covered'
  <2>1. /\ CostSum(tower', ledger) \in Int /\ Total(undo', ledger, w, hours) \in Nat
        /\ Total(redo', ledger, w, hours) \in Nat
    BY <1>1, CostSumType, TotalType
  <2>2. money' + CostSum(tower', ledger) + Total(undo', ledger, w, hours)
              + Total(redo', ledger, w, hours) <= StartMoney + outside + Begins
    BY DEF Settled, w
  <2> QED BY <1>1, <1>3, <1>8, <2>1, <2>2 DEF Covered
<1>10. /\ StackKnows(undo, ledger, Worn, hours)' /\ StackKnows(redo, ledger, Worn, hours)'
       /\ HandsKnow(ledger, Worn)'
  BY <1>3 DEF Settled, w
<1>11. NotesKnow'
  BY DEF NotesKnow
<1>12. (journal.open => Knows(StepOf(journal), ledger, Worn, hours))'
  BY <1>3, <1>6 DEF s
<1> QED BY <1>9, <1>10, <1>11, <1>12 DEF MoneyInv

LEMMA CloseMoney ==
    ASSUME Inv, Inv', MoneyInv, Capture \/ Commit
    PROVE  MoneyInv'
<1>1. /\ undo' = UndoCommitted /\ redo' = RedoCommitted
      /\ UNCHANGED <<tower, money, hours, ledger, outside>>
      /\ journal' = NoJournal \/ journal' = OpenJournal
  BY DEF Capture, Commit, world
<1>2. \A i \in Id : journal'.touched[i] = None
  BY <1>1, NewJournal
<1>3. Settled(tower', money', undo', redo', ShutHands(tower', undo', redo'))
  BY <1>1, Closed
<1> QED BY <1>1, <1>2, <1>3, Shut

-----------------------------------------------------------------------------
(* A step taken.                                                           *)

\* A step that applies takes back nothing that was used.
LEMMA Unspent ==
    ASSUME Inv, NEW step \in Step, StepSited(step, ledger), Applies(step), NEW w,
           Knows(step, ledger, w, hours),
           \A i \in Id : tower[i] # None => WearOf(tower[i]) \in w[i]
    PROVE  /\ ~Spent(step, ledger, w, hours)
           /\ \A i \in Id : TakesBuilt(step, i) =>
                 /\ UsedOf(ledger[i]) = 0
                 /\ IsRoom(tower[i]) => Unopened(WearOf(tower[i]))
<1>1. ~step.searched /\ ~step.usedInGesture
  BY DEF Applies, Lasting
<1>2. step.hour <= hours /\ step.hour \in Nat /\ hours \in Nat
  BY NumberAssumption DEF Inv, TypeOK, Knows, Step
<1>3. ASSUME NEW i \in Id, Named(step, i)
      PROVE  /\ Want(step, i) \in Item /\ Left(step, i) \in Item /\ Left(step, i).rides \in Nat
             /\ ledger[i] # None /\ KindOf(Want(step, i)) = Kind[ledger[i].site]
             /\ ledger[i] \in Entry /\ UsedOf(ledger[i]) \in Nat
             /\ Kind[ledger[i].site] \in Kinds
             /\ tower[i] # None => KindOf(tower[i]) = KindOf(Want(step, i)) /\ tower[i] \in Item
             /\ ~Barred(step, i) /\ Expected(step, i)
  <2>1. Want(step, i) \in Item /\ Left(step, i) \in Item
    BY <1>3 DEF Named, Want, Left, Image, Step
  <2>2. ledger[i] # None /\ KindOf(Want(step, i)) = Kind[ledger[i].site]
    BY <1>3 DEF StepSited, SitedIn, KindOf
  <2>3. tower[i] # None => KindOf(tower[i]) = Kind[ledger[i].site] /\ tower[i] \in Item
    BY DEF Inv, TypeOK, TowerSited, SitedIn, KindOf
  <2>4. ledger[i] \in Entry
    BY <2>2 DEF Inv, TypeOK
  <2> QED BY <1>3, <2>1, <2>2, <2>3, <2>4, ItemFacts, AppliesExpected
<1>4. ASSUME NEW i \in Id, TakesBuilt(step, i)
      PROVE  UsedOf(ledger[i]) = 0 /\ (IsRoom(tower[i]) => Unopened(WearOf(tower[i])))
  <2> DEFINE x == tower[i]
             left == Left(step, i)
             k == KindOf(Want(step, i))
             u == UsedOf(ledger[i])
  <2>1. /\ Named(step, i) /\ Does(step, i, "takeOut") /\ step.images[i].built
        /\ ~Does(step, i, "putBack")
    BY <1>4 DEF TakesBuilt, Does, Named
  <2>2. x # None /\ x \in Item /\ KindOf(x) = k /\ WearOf(x) \in w[i]
    BY <1>3, <2>1 DEF Expected
  <2>3. TakeKnows(k, left, u, w[i], step.hour, hours)
    BY <1>1, <1>4 DEF Knows
  <2>4. x.rides \in Nat /\ left.rides \in Nat /\ u \in Nat /\ k \in Kinds
    BY <1>3, <2>1, <2>2, ItemFacts
  <2>5. ~OnFire(step, i)
    BY DEF Applies, Passing
  <2>6. IF IsShaft(Want(step, i)) THEN ~UsedShaft(step, i) ELSE ~UsedUnit(step, i)
    BY <1>3, <2>1, <2>5 DEF Barred, OfShaft
  <2>7. CASE k = "floor"
    <3>1. hours = step.hour
      BY <2>1, <2>2, <2>6, <2>7 DEF UsedUnit, IsShaft, IsFloor
    <3> QED BY <1>2, <2>2, <2>3, <2>4, <2>7, <3>1 DEF TakeKnows, IsRoom
  <2>8. CASE k = "shaft"
    <3>1. hours = step.hour /\ x.rides = left.rides
      BY <2>1, <2>6, <2>8 DEF UsedShaft, IsShaft
    <3>2. WearOf(x)[3] = x.rides
      BY DEF WearOf
    <3>3. ~(u > 0)
      BY <1>2, <2>2, <2>3, <2>4, <2>8, <3>1, <3>2 DEF TakeKnows
    <3> QED BY <2>2, <2>4, <2>8, <3>3 DEF IsRoom
  <2>9. CASE k \in {"room", "condo"}
    <3>1. UseOf(x) = UseOf(left)
      BY <2>1, <2>2, <2>6, <2>9 DEF UsedUnit, IsShaft, IsFloor
    <3>2. Unopened(WearOf(left))
      BY <2>2, <2>3, <2>9 DEF TakeKnows
    <3>3. Unopened(WearOf(x))
      BY <3>1, <3>2 DEF UseOf, WearOf, Unopened
    <3>4. ~(u > 0)
      BY <2>2, <2>3, <2>9, <3>3 DEF TakeKnows
    <3> QED BY <2>4, <3>3, <3>4
  <2> QED BY <2>4, <2>7, <2>8, <2>9 DEF Kinds
<1>5. ASSUME NEW i \in Id, DropsCars(step, i)
      PROVE  hours = step.hour /\ \E y \in w[i] : y[3] = Left(step, i).rides
  <2>1. /\ Named(step, i) /\ Does(step, i, "restore") /\ step.images[i].built
        /\ ~Does(step, i, "putBack") /\ OfShaft(step, i)
        /\ TakesCars(Left(step, i), Want(step, i))
    BY <1>5 DEF DropsCars, Does, Named
  <2>2. tower[i] # None /\ WearOf(tower[i]) \in w[i]
    BY <1>3, <2>1 DEF Expected
  <2>3. ~UsedShaft(step, i)
    BY <1>3, <2>1 DEF Barred
  <2>4. hours = step.hour /\ tower[i].rides = Left(step, i).rides
    BY <2>1, <2>3 DEF UsedShaft
  <2>5. WearOf(tower[i])[3] = Left(step, i).rides
    BY <2>4 DEF WearOf
  <2> QED BY <2>2, <2>4, <2>5
<1>6. \A i \in Id : UsedOf(ledger[i]) \in Nat
  BY ItemFacts DEF Inv, TypeOK
<1>7. ~Spent(step, ledger, w, hours)
  BY <1>1, <1>4, <1>5, <1>6 DEF Spent
<1> QED BY <1>4, <1>7

\* The image that reverses one.
LEMMA BackIs ==
    ASSUME Inv, NEW step \in Step, StepSited(step, ledger), Applies(step), NEW i \in Id
    PROVE  LET back == Opposite(step).images[i]
               image == step.images[i]
           IN  /\ image = None => back = None
               /\ image # None => image \in Image /\ back \in Image
               /\ image # None /\ image.do = "takeOut" =>
                     /\ back.do = "putBack" /\ back.want = tower[i] /\ back.built = image.built
               /\ image # None /\ image.do = "putBack" =>
                     /\ back.do = "takeOut" /\ back.want = image.want /\ back.left = image.want
                     /\ back.built = image.built
               /\ image # None /\ image.do = "restore" =>
                     /\ back.do = "restore" /\ back.want = tower[i]
                     /\ back.left = AfterStep(step)[i]
                     /\ back.built = IF OfShaft(step, i) THEN ~image.built ELSE image.built
<1> DEFINE back == Opposite(step).images[i]
           image == step.images[i]
<1>1. back = BackImage(step, i)
  BY DEF Opposite
<1>2. Opposite(step) \in Step /\ step \in Step
  BY OppositeType DEF Inv
<1>3. image \in Image \cup {None} /\ back \in Image \cup {None}
  BY <1>2 DEF Step
<1>4. CASE image = None
  BY <1>1, <1>4 DEF BackImage, Named
<1>5. CASE image # None
  <2>1. image \in Image /\ image.do \in {"takeOut", "putBack", "restore"} /\ image.built \in BOOLEAN
    BY <1>3, <1>5, BillCases DEF Image
  <2>2. DOMAIN image = {"do", "want", "left", "built"}
    BY <2>1 DEF Image
  <2>3. CASE image.do = "takeOut"
    <3>1. back = [image EXCEPT !.do = "putBack", !.want = tower[i], !.left = tower[i]]
      BY <1>1, <1>5, <2>3 DEF BackImage, Named
    <3>2. back.do = "putBack" /\ back.want = tower[i] /\ back.built = image.built
      BY <2>1, <3>1 DEF Image
    <3>3. tower[i] # None /\ tower[i] \in Item
      <4>1. Does(step, i, "takeOut")
        BY <1>5, <2>3 DEF Does
      <4> QED BY <4>1, AfterStepSites DEF Inv, TypeOK
    <3>4. back # None
      <4>1. back \in Image
        BY <2>1, <3>1, <3>3 DEF Image
      <4> QED BY <4>1, FactAssumption
    <3> QED BY <1>3, <1>5, <2>1, <2>3, <3>2, <3>4
  <2>4. CASE image.do = "putBack"
    <3>1. back = [image EXCEPT !.do = "takeOut", !.left = image.want]
      BY <1>1, <1>5, <2>4 DEF BackImage, Named
    <3>2. /\ back.do = "takeOut" /\ back.want = image.want /\ back.left = image.want
          /\ back.built = image.built
      BY <2>1, <3>1 DEF Image
    <3>4. back # None
      <4>1. back \in Image
        BY <2>1, <3>1 DEF Image
      <4> QED BY <4>1, FactAssumption
    <3> QED BY <1>3, <1>5, <2>1, <2>4, <3>2, <3>4
  <2>5. CASE image.do = "restore"
    <3>1. back = [image EXCEPT !.want = tower[i], !.left = AfterStep(step)[i],
                              !.built = IF OfShaft(step, i) THEN ~@ ELSE @]
      BY <1>1, <1>5, <2>5 DEF BackImage, Named
    <3>2. /\ back.do = "restore" /\ back.want = tower[i] /\ back.left = AfterStep(step)[i]
          /\ back.built = IF OfShaft(step, i) THEN ~image.built ELSE image.built
      BY <2>1, <2>5, <3>1 DEF Image
    <3>3. tower[i] \in Item /\ AfterStep(step)[i] \in Item
      <4>1. Does(step, i, "restore")
        BY <1>5, <2>5 DEF Does
      <4>2. tower[i] # None /\ AfterStep(step)[i].site = tower[i].site
        BY <4>1, AfterStepSites
      <4>3. AfterStep(step)[i] = Restored(tower[i], Want(step, i), Left(step, i))
        BY <4>1, <2>5 DEF AfterStep, Does, Named
      <4>4. tower[i] \in Item /\ Want(step, i) \in Item /\ Left(step, i) \in Item
        BY <2>1, <4>2 DEF Inv, TypeOK, Want, Left, Image
      <4> QED BY <4>3, <4>4, RestoredTwice
    <3>4. back # None
      <4>1. back \in Image
        BY <2>1, <3>1, <3>3 DEF Image
      <4> QED BY <4>1, FactAssumption
    <3> QED BY <1>3, <1>5, <2>1, <2>5, <3>2, <3>4
  <2> QED BY <2>1, <2>3, <2>4, <2>5
<1> QED BY <1>4, <1>5

\* What a step changes of an item's cost is what it allows for, and what the
\* opposite step allows for the other way.
LEMMA TurnedItem ==
    ASSUME Inv, NEW step \in Step, StepSited(step, ledger), Applies(step), NEW i \in Id,
           NEW back, back = Opposite(step).images[i],
           NEW u, u = UsedOf(ledger[i]),
           TakesBuilt(step, i) => u = 0,
           Does(step, i, "putBack") /\ step.images[i].built => u = 0
    PROVE  /\ BillOf(back, u) + CostOf(AfterStep(step)[i], ledger[i])
                <= GainOf(step.images[i], u) + CostOf(tower[i], ledger[i])
           /\ GainOf(back, u) + CostOf(AfterStep(step)[i], ledger[i])
                <= BillOf(step.images[i], u) + CostOf(tower[i], ledger[i])
<1> DEFINE image == step.images[i]
           x == tower[i]
           y == AfterStep(step)[i]
           e == ledger[i]
           k == KindOf(image.want)
           cx == CostOf(x, e)
           cy == CostOf(y, e)
<1>1. /\ image = None => back = None
      /\ image # None => image \in Image /\ back \in Image
      /\ image # None /\ image.do = "takeOut" =>
            back.do = "putBack" /\ back.want = x /\ back.built = image.built
      /\ image # None /\ image.do = "putBack" =>
            /\ back.do = "takeOut" /\ back.want = image.want /\ back.left = image.want
            /\ back.built = image.built
      /\ image # None /\ image.do = "restore" =>
            /\ back.do = "restore" /\ back.want = x /\ back.left = y
            /\ back.built = IF OfShaft(step, i) THEN ~image.built ELSE image.built
  BY BackIs
<1>2. x \in Item \cup {None} /\ y \in Item \cup {None} /\ e \in Entry \cup {None} /\ u \in Nat
  <2>1. x \in Item \cup {None} /\ e \in Entry \cup {None}
    BY DEF Inv, TypeOK
  <2>2. AfterStep(step) \in [Id -> Item \cup {None}]
    BY AfterStepType DEF Inv
  <2> QED BY <2>1, <2>2, ItemFacts
<1>3. CASE image = None
  <2>1. y = x
    BY <1>3, AfterStepSites DEF Named
  <2> QED BY <1>1, <1>2, <1>3, <2>1, NoBill, CostOfType
<1>4. CASE image # None
  <2>1. /\ image \in Image /\ back \in Image /\ Named(step, i)
        /\ image.do \in {"takeOut", "putBack", "restore"} /\ image.built \in BOOLEAN
        /\ image.want \in Item /\ image.left \in Item
    BY <1>1, <1>4 DEF Named, Image
  <2>2. /\ e # None /\ e \in Entry /\ Kind[e.site] = k /\ u = e.used /\ k \in Kinds
        /\ Expected(step, i)
    <3>1. e # None /\ Kind[e.site] = k /\ Expected(step, i)
      BY <2>1, AppliesExpected DEF StepSited, SitedIn, Want, KindOf
    <3> QED BY <1>2, <2>1, <3>1, BillCases DEF UsedOf
  <2>3. /\ x # None => x \in Item /\ KindOf(x) = k /\ x.cars \in Nat
        /\ y # None => y \in Item /\ KindOf(y) = k /\ y.cars \in Nat
    <3>1. x # None => x.site = e.site
      BY DEF Inv, TowerSited, SitedIn
    <3>2. y # None => y.site = e.site
      BY AfterStepSites DEF SitedIn
    <3> QED BY <1>2, <2>2, <3>1, <3>2, ItemFacts DEF KindOf
  <2>4. /\ cx = IF x = None THEN Gone(k, u) ELSE Stand(k, x.cars, u)
        /\ cy = IF y = None THEN Gone(k, u) ELSE Stand(k, y.cars, u)
    BY <2>2 DEF CostOf
  <2>5. Gone(k, u) \in Nat /\ Gone(k, 0) = 0
    BY <1>2, <2>2, CostTypes
  <2> HIDE DEF cx, cy, x, y, e, k, image
  <2>6. CASE image.do = "takeOut"
    <3>1. x # None /\ y = None /\ Does(step, i, "takeOut")
          /\ (image.built => TakesBuilt(step, i))
      <4>1. Does(step, i, "takeOut")
        BY <2>6, <1>4 DEF image, Does
      <4> QED BY <4>1, AfterStepSites DEF x, y, TakesBuilt, image
    <3> DEFINE a == image.left.cars
               c == x.cars
    <3>2. a \in Nat /\ c \in Nat
      BY <2>1, <2>3, <3>1, ItemFacts
    <3>3. k = "shaft" => a = c
      <4>1. k = "shaft" => OfShaft(step, i)
        BY DEF k, image, OfShaft, IsShaft, Want
      <4> QED BY <2>2, <3>1, <4>1 DEF Expected, Left, image, x
    <3>4. /\ image.built => BillOf(image, u) = -Stand(k, a, 0)
          /\ ~image.built => BillOf(image, u) = -Back(k, a)
          /\ GainOf(image, u) = 0
      BY <1>2, <2>1, <2>6, BillCases DEF k
    <3>5. /\ BillOf(back, u) = Stand(k, c, u) - Gone(k, u)
          /\ image.built => GainOf(back, u) = 0
          /\ ~image.built => GainOf(back, u) = Stand(k, c, u) - Gone(k, u) - Back(k, c)
      <4>1. back \in Image /\ back.do = "putBack" /\ back.built = image.built
            /\ KindOf(back.want) = k /\ back.want.cars = c
        BY <1>1, <1>4, <2>1, <2>3, <2>6, <3>1 DEF image, x
      <4> QED BY <1>2, <4>1, BillCases
    <3>6. Stand(k, a, 0) = Stand(k, c, 0) /\ Back(k, a) = Back(k, c)
      <4>1. k # "shaft" => Stand(k, a, 0) = Stand(k, c, 0) /\ Back(k, a) = Back(k, c)
        BY <2>2, <3>2, UnitCost
      <4> QED BY <3>3, <4>1
    <3>7. image.built => u = 0
      BY <3>1
    <3>8. cx = Stand(k, c, u) /\ cy = Gone(k, u)
      BY <2>4, <3>1
    <3>9. Stand(k, c, u) \in Nat /\ Back(k, c) \in Nat
      BY <1>2, <2>2, <3>2, CostTypes
    <3> HIDE DEF a, c
    <3>10. CASE image.built
      BY <2>5, <3>4, <3>5, <3>6, <3>7, <3>8, <3>9, <3>10 DEF cx, cy, x, y, e, image
    <3>11. CASE ~image.built
      BY <2>5, <3>4, <3>5, <3>6, <3>8, <3>9, <3>11 DEF cx, cy, x, y, e, image
    <3> QED BY <3>10, <3>11
  <2>7. CASE image.do = "putBack"
    <3>1. x = None /\ y = image.want /\ (image.built => u = 0)
      <4>1. Does(step, i, "putBack")
        BY <2>7, <1>4 DEF image, Does
      <4> QED BY <4>1, AfterStepSites DEF x, y, image, Want
    <3> DEFINE b == image.want.cars
    <3>2. b \in Nat /\ y # None
      BY <2>1, <3>1, ItemFacts
    <3>3. /\ BillOf(image, u) = Stand(k, b, u) - Gone(k, u)
          /\ image.built => GainOf(image, u) = 0
          /\ ~image.built => GainOf(image, u) = Stand(k, b, u) - Gone(k, u) - Back(k, b)
      BY <1>2, <2>1, <2>7, BillCases DEF k
    <3>4. /\ image.built => BillOf(back, u) = -Stand(k, b, 0)
          /\ ~image.built => BillOf(back, u) = -Back(k, b)
          /\ GainOf(back, u) = 0
      <4>1. back \in Image /\ back.do = "takeOut" /\ back.built = image.built
            /\ KindOf(back.want) = k /\ back.left.cars = b
        BY <1>1, <1>4, <2>1, <2>7 DEF image, k
      <4> QED BY <1>2, <4>1, BillCases
    <3>5. cx = Gone(k, u) /\ cy = Stand(k, b, u)
      BY <2>4, <3>1, <3>2
    <3>6. Stand(k, b, u) \in Nat /\ Back(k, b) \in Nat
      BY <1>2, <2>2, <3>2, CostTypes
    <3> HIDE DEF b
    <3>7. CASE image.built
      BY <2>5, <3>1, <3>3, <3>4, <3>5, <3>6, <3>7 DEF cx, cy, x, y, e, image
    <3>8. CASE ~image.built
      BY <2>5, <3>3, <3>4, <3>5, <3>6, <3>8 DEF cx, cy, x, y, e, image
    <3> QED BY <3>7, <3>8
  <2>8. CASE image.do = "restore"
    <3> DEFINE a == x.cars
               b == image.want.cars
               l == image.left.cars
    <3>1. /\ x # None /\ y # None /\ y.cars = b
      <4>1. Does(step, i, "restore")
        BY <2>8, <1>4 DEF image, Does
      <4>2. x # None /\ y.site = x.site
        BY <4>1, AfterStepSites DEF x, y
      <4>3. y = Restored(x, image.want, image.left)
        BY <4>1, <1>4, <2>8 DEF AfterStep, Does, Named, x, y, image, Want, Left
      <4>4. y.cars = b
        BY <2>3, <4>2, <4>3 DEF Restored, Item
      <4>5. y \in Item
        BY <2>1, <2>3, <4>2, <4>3, RestoredTwice
      <4> QED BY <4>2, <4>4, <4>5, ItemFacts
    <3>2. a \in Nat /\ b \in Nat /\ l \in Nat
      BY <2>1, <2>3, <3>1, ItemFacts
    <3>3. k = "shaft" => l = a
      <4>1. k = "shaft" => OfShaft(step, i)
        BY DEF k, image, OfShaft, IsShaft, Want
      <4> QED BY <2>2, <3>1, <4>1 DEF Expected, Left, image, x
    <3>4. /\ back \in Image /\ back.do = "restore" /\ KindOf(back.want) = k
          /\ back.want.cars = a /\ back.left.cars = b
          /\ k = "shaft" => back.built = ~image.built
      BY <1>1, <1>4, <2>1, <2>3, <2>8, <3>1 DEF image, x, y, k, OfShaft, IsShaft, Want
    <3>5. cx = Stand(k, a, u) /\ cy = Stand(k, b, u)
      BY <2>4, <3>1
    <3>6. /\ Stand(k, a, u) \in Nat /\ Stand(k, b, u) \in Nat
          /\ Back(k, a) \in Nat /\ Back(k, b) \in Nat
      BY <1>2, <2>2, <3>2, CostTypes
    <3>7. CASE k # "shaft"
      <4>1. Stand(k, a, u) = Stand(k, b, u)
        BY <1>2, <2>2, <3>2, <3>7, UnitCost
      <4>2. BillOf(image, u) = 0 /\ GainOf(image, u) = 0
        BY <1>2, <2>1, <2>8, <3>7, UseBills DEF IsShaft, k
      <4>3. BillOf(back, u) = 0 /\ GainOf(back, u) = 0
        BY <1>2, <3>4, <3>7, UseBills DEF IsShaft
      <4> HIDE DEF a, b, l
      <4> QED BY <3>5, <3>6, <4>1, <4>2, <4>3 DEF cx, cy, x, y, e, image
    <3>8. CASE k = "shaft"
      <4>1. /\ b < a /\ ~image.built => BillOf(image, u) = Back(k, b) - Back(k, a)
            /\ ~(b < a /\ ~image.built) => BillOf(image, u) = Stand(k, b, u) - Stand(k, a, u)
            /\ a < b /\ image.built =>
                  GainOf(image, u) = Stand(k, b, u) - Stand(k, a, u) - (Back(k, b) - Back(k, a))
            /\ ~(a < b /\ image.built) => GainOf(image, u) = 0
        BY <1>2, <2>1, <2>8, <3>3, <3>8, BillCases DEF k
      <4>2. /\ a < b /\ image.built => BillOf(back, u) = Back(k, a) - Back(k, b)
            /\ ~(a < b /\ image.built) => BillOf(back, u) = Stand(k, a, u) - Stand(k, b, u)
            /\ b < a /\ ~image.built =>
                  GainOf(back, u) = Stand(k, a, u) - Stand(k, b, u) - (Back(k, a) - Back(k, b))
            /\ ~(b < a /\ ~image.built) => GainOf(back, u) = 0
        BY <1>2, <2>1, <3>4, <3>8, BillCases
      <4> HIDE DEF a, b, l
      <4>3. CASE b < a /\ ~image.built
        BY <3>2, <3>5, <3>6, <4>1, <4>2, <4>3 DEF cx, cy, x, y, e, image
      <4>4. CASE a < b /\ image.built
        BY <3>2, <3>5, <3>6, <4>1, <4>2, <4>4 DEF cx, cy, x, y, e, image
      <4>5. CASE ~(b < a /\ ~image.built) /\ ~(a < b /\ image.built)
        BY <3>2, <3>5, <3>6, <4>1, <4>2, <4>5 DEF cx, cy, x, y, e, image
      <4> QED BY <4>3, <4>4, <4>5
    <3> QED BY <3>7, <3>8
  <2> QED BY <2>1, <2>6, <2>7, <2>8
<1> QED BY <1>3, <1>4

\* The opposite step knows the use of what it may take back.
LEMMA TurnedKnows ==
    ASSUME Inv, NEW step \in Step, StepSited(step, ledger), Applies(step), NEW w, NEW v,
           Knows(step, ledger, w, hours),
           \A i \in Id : tower[i] # None => WearOf(tower[i]) \in w[i],
           \A i \in Id : AfterStep(step)[i] # None => v[i] = {WearOf(AfterStep(step)[i])}
    PROVE  Knows(Opposite(step), ledger, v, hours)
<1> DEFINE back == Opposite(step)
<1>1. hours \in Nat /\ back.hour = hours
  BY NumberAssumption DEF Inv, TypeOK, Opposite
<1>2. ~step.searched /\ ~step.usedInGesture
  BY DEF Applies, Lasting
<1>3. ASSUME NEW i \in Id, Named(back, i)
      PROVE  /\ step.images[i] # None /\ step.images[i] \in Image
             /\ step.images[i].do \in {"takeOut", "putBack", "restore"}
             /\ back.images[i] \in Image
  BY <1>3, BackIs, BillCases DEF Named
<1>4. ASSUME NEW i \in Id, AfterStep(step)[i] # None
      PROVE  /\ AfterStep(step)[i] \in Item /\ AfterStep(step)[i].rides \in Nat
             /\ \A y \in v[i] : y = WearOf(AfterStep(step)[i])
                                /\ y[3] = AfterStep(step)[i].rides
  <2>1. AfterStep(step)[i] \in Item
    BY <1>4, AfterStepType DEF Inv
  <2> QED BY <1>4, <2>1, ItemFacts DEF WearOf
<1>5. ASSUME NEW i \in Id, TakesBuilt(back, i)
      PROVE  TakeKnows(KindOf(Want(back, i)), Left(back, i), UsedOf(ledger[i]), v[i], hours, hours)
  <2>1. Named(back, i) /\ back.images[i].do = "takeOut" /\ back.images[i].built
    BY <1>5 DEF TakesBuilt, Does, Named
  <2>2. Does(step, i, "putBack") /\ step.images[i].built
        /\ Want(back, i) = Want(step, i) /\ Left(back, i) = Want(step, i)
    <3>1. step.images[i].do = "putBack"
      BY <1>3, <2>1, BackIs
    <3> QED BY <1>3, <2>1, <3>1, BackIs DEF Does, Want, Left
  <2>3. UsedOf(ledger[i]) = 0 /\ (IsRoom(Want(step, i)) => Unopened(WearOf(Want(step, i))))
    BY <1>2, <2>2 DEF Knows
  <2>4. AfterStep(step)[i] = Want(step, i) /\ Want(step, i) # None
    <3>1. Want(step, i) \in Item
      BY <1>3, <2>1 DEF Want, Image
    <3> QED BY <2>2, <3>1, AfterStepSites, ItemFacts
  <2>5. Want(step, i).rides \in Nat /\ \A y \in v[i] : y[3] = Want(step, i).rides
    BY <1>4, <2>4
  <2>6. 0 > 0 <=> FALSE
    OBVIOUS
  <2> QED BY <2>2, <2>3, <2>5, <2>6 DEF TakeKnows, IsRoom
<1>6. ASSUME NEW i \in Id, Does(back, i, "putBack"), back.images[i].built
      PROVE  UsedOf(ledger[i]) = 0 /\ (IsRoom(Want(back, i)) => Unopened(WearOf(Want(back, i))))
  <2>1. Named(back, i) /\ back.images[i].do = "putBack"
    BY <1>6 DEF Does, Named
  <2>2. TakesBuilt(step, i) /\ Want(back, i) = tower[i]
    <3>1. step.images[i].do = "takeOut"
      BY <1>3, <2>1, BackIs
    <3> QED BY <1>3, <1>6, <3>1, BackIs DEF Does, Want, TakesBuilt
  <2> QED BY <2>2, Unspent
<1>7. ASSUME NEW i \in Id, DropsCars(back, i), NEW y \in v[i]
      PROVE  y[3] >= Left(back, i).rides
  <2>1. Named(back, i) /\ back.images[i].do = "restore"
    BY <1>7 DEF DropsCars, Does, Named
  <2>2. Does(step, i, "restore") /\ Left(back, i) = AfterStep(step)[i]
    <3>1. step.images[i].do = "restore"
      BY <1>3, <2>1, BackIs
    <3>2. back.images[i].left = AfterStep(step)[i]
      BY <1>3, <2>1, <3>1, BackIs
    <3> QED BY <1>3, <2>1, <3>1, <3>2 DEF Does, Left
  <2>3. AfterStep(step)[i] # None
    <3>1. back.images[i].left \in Item
      BY <1>3, <2>1 DEF Image
    <3> QED BY <2>2, <3>1, ItemFacts DEF Left
  <2> QED BY <1>4, <2>2, <2>3
<1> HIDE DEF back
<1>8. Knows(back, ledger, v, hours)
  BY <1>1, <1>5, <1>6, <1>7 DEF Knows
<1> QED BY <1>8 DEF back

\* A step taken from one stack leaves its opposite on the other, and what the
\* two hold back and the balance covers.
LEMMA TakenMoney ==
    ASSUME Inv, NEW from \in Seq(Step), NEW onto \in Seq(Step), from # <<>>,
           GoodSteps(from, ledger), GoodSteps(onto, ledger),
           Held(from, onto, tower, ledger), SoldInv,
           NEW step \in Step, step = Newest(from), StepSited(step, ledger), Applies(step),
           NEW w, NEW v,
           \A i \in Id : w[i] = {WearOf(x) : x \in InHand(tower, [k \in Id |-> None], from, onto, i)},
           \A i \in Id : v[i] = {WearOf(x) :
              x \in InHand(AfterStep(step), [k \in Id |-> None], Older(from), 
                           Pushed(onto, Opposite(step)), i)},
           Settled(tower, money, from, onto, w)
    PROVE  Settled(AfterStep(step), money + step.money, Older(from),
                   Pushed(onto, Opposite(step)), v)
<1> DEFINE back == Opposite(step)
           t == AfterStep(step)
           older == Older(from)
           pushed == Pushed(onto, back)
<1>1. /\ tower \in Towers /\ ledger \in Ledgers /\ hours \in Nat /\ t \in Towers
      /\ back \in Step /\ money \in Int /\ outside \in Int /\ Begins \in Int
      /\ StartMoney \in Int /\ step.money \in Int
  <2>1. TypeOK
    BY DEF Inv
  <2>2. t \in Towers /\ back \in Step
    BY <2>1, AfterStepType, OppositeType DEF Towers
  <2>3. tower \in Towers /\ ledger \in Ledgers /\ hours \in Nat /\ money \in Int /\ outside \in Int
    BY <2>1, NumberAssumption DEF TypeOK, Towers, Ledgers
  <2>4. Begins \in Int /\ StartMoney \in Int /\ step.money \in Int
    BY BeginsType, NumberAssumption DEF Step
  <2> QED BY <2>2, <2>3, <2>4
<1>2. /\ older \in Seq(Step) /\ \A m \in DOMAIN older : m \in DOMAIN from /\ older[m] = from[m]
      /\ Len(from) \in DOMAIN from /\ step = from[Len(from)]
  <2>1. Len(from) \in DOMAIN from /\ step = from[Len(from)]
    BY DEF Newest
  <2> QED BY <2>1, NewestType
<1>3. pushed \in Seq(Step) /\ Held(older, pushed, t, ledger)
  BY <1>1, TakenHeld, PushedType DEF SoldInv
<1>4. /\ \A m \in DOMAIN pushed : pushed[m] = back \/ \E n \in DOMAIN onto : pushed[m] = onto[n]
      /\ \E m \in DOMAIN pushed : pushed[m] = back
  <2>1. \E m \in DOMAIN pushed : pushed[m] = back
    <3>1. Len(pushed) \in Nat \ {0} /\ pushed[Len(pushed)] = back
      BY <1>1, PushedAt
    <3>2. Len(pushed) \in DOMAIN pushed
      BY <1>3, <3>1
    <3> QED BY <3>1, <3>2
  <2> QED BY <1>1, <2>1, PushedHolds
<1>5. ASSUME NEW i \in Id PROVE /\ tower[i] # None => WearOf(tower[i]) \in w[i]
                                /\ \A y \in w[i] : y[3] \in Nat
  <2>1. tower[i] # None => tower[i] \in InHand(tower, [k \in Id |-> None], from, onto, i)
    BY <1>1 DEF InHand, Towers
  <2>2. \A x \in InHand(tower, [k \in Id |-> None], from, onto, i) : WearOf(x)[3] \in Nat
    BY ItemFacts DEF InHand, WearOf
  <2> QED BY <2>1, <2>2
<1>6. Knows(step, ledger, w, hours)
  BY <1>2 DEF Settled, StackKnows
<1>7. ~Spent(step, ledger, w, hours)
  BY <1>5, <1>6, Unspent
<1>8. ASSUME NEW i \in Id, t[i] # None PROVE v[i] = {WearOf(t[i])}
  <2>1. ~Puts(older, i) /\ ~Puts(pushed, i)
    BY <1>3, <1>8 DEF Held
  <2>2. t[i] \in Item
    BY <1>1, <1>8 DEF Towers
  <2>3. InHand(t, [k \in Id |-> None], older, pushed, i) = {t[i]}
    BY <2>1, <2>2, ItemFacts DEF InHand, Puts
  <2> QED BY <2>3
<1>9. ASSUME NEW i \in Id PROVE v[i] \subseteq w[i]
  <2>1. ASSUME NEW x \in InHand(t, [k \in Id |-> None], older, pushed, i)
        PROVE  \E z \in InHand(tower, [k \in Id |-> None], from, onto, i) : WearOf(z) = WearOf(x)
    <3>1. x \in Item /\ x # None
      BY ItemFacts DEF InHand
    <3>2. \/ x = t[i]
          \/ \E m \in DOMAIN older : Does(older[m], i, "putBack") /\ x = Want(older[m], i)
          \/ \E m \in DOMAIN pushed : Does(pushed[m], i, "putBack") /\ x = Want(pushed[m], i)
      BY <3>1 DEF InHand
    <3>3. CASE x = t[i]
      <4>1. CASE ~Named(step, i)
        <5>1. x = tower[i]
          BY <3>3, <4>1, AfterStepSites
        <5> QED BY <3>1, <5>1 DEF InHand
      <4>2. CASE Does(step, i, "putBack")
        <5>1. x = Want(step, i)
          BY <3>3, <4>2, AfterStepSites
        <5> QED BY <1>2, <3>1, <4>2, <5>1 DEF InHand
      <4>3. CASE Does(step, i, "restore")
        <5>1. tower[i] \in Item
          BY <1>1, <4>3, AfterStepSites DEF Towers
        <5>2. x = Restored(tower[i], Want(step, i), Left(step, i))
          BY <3>3, <4>3 DEF AfterStep, Does, Named
        <5>3. WearOf(x) = WearOf(tower[i])
          BY <5>1, <5>2 DEF Restored, WearOf, Item
        <5> QED BY <5>1, <5>3 DEF InHand
      <4>4. CASE Does(step, i, "takeOut")
        BY <3>1, <3>3, <4>4, AfterStepSites
      <4> QED BY <4>1, <4>2, <4>3, <4>4, AfterStepSites
    <3>4. CASE \E m \in DOMAIN older : Does(older[m], i, "putBack") /\ x = Want(older[m], i)
      BY <1>2, <3>1, <3>4 DEF InHand
    <3>5. CASE \E m \in DOMAIN pushed : Does(pushed[m], i, "putBack") /\ x = Want(pushed[m], i)
      <4>1. PICK m \in DOMAIN pushed : Does(pushed[m], i, "putBack") /\ x = Want(pushed[m], i)
        BY <3>5
      <4>2. CASE pushed[m] = back
        <5>1. x = tower[i]
          <6>1. Does(back, i, "putBack") /\ x = Want(back, i)
            BY <4>1, <4>2
          <6>2. step.images[i] # None /\ step.images[i].do = "takeOut"
            <7>1. back.images[i] # None /\ back.images[i].do = "putBack"
              BY <6>1 DEF Does
            <7>2. step.images[i] # None
              BY <7>1, BackIs
            <7>3. step.images[i].do \in {"takeOut", "putBack", "restore"}
              <8>1. step.images[i] \in Image
                BY <7>2, BackIs
              <8> QED BY <8>1 DEF Image
            <7> QED BY <7>1, <7>2, <7>3, BackIs
          <6> QED BY <6>1, <6>2, BackIs DEF Want
        <5> QED BY <3>1, <5>1 DEF InHand
      <4>3. CASE \E n \in DOMAIN onto : pushed[m] = onto[n]
        BY <3>1, <4>1, <4>3 DEF InHand
      <4> QED BY <1>4, <4>2, <4>3
    <3> QED BY <3>2, <3>3, <3>4, <3>5
  <2> QED BY <2>1
<1>10. Ages(ledger, ledger, w, v, hours, hours)
  BY <1>1, <1>5, <1>9, FewerHands
<1>11. Knows(back, ledger, v, hours)
  BY <1>5, <1>6, <1>8, TurnedKnows
<1>12. ASSUME NEW i \in Id
       PROVE  /\ BillOf(back.images[i], UsedOf(ledger[i])) + CostOf(t[i], ledger[i])
                   <= GainOf(step.images[i], UsedOf(ledger[i])) + CostOf(tower[i], ledger[i])
              /\ GainOf(back.images[i], UsedOf(ledger[i])) + CostOf(t[i], ledger[i])
                   <= BillOf(step.images[i], UsedOf(ledger[i])) + CostOf(tower[i], ledger[i])
  <2>1. UsedOf(ledger[i]) \in Nat
    BY <1>1, ItemFacts DEF Ledgers
  <2>2. TakesBuilt(step, i) => UsedOf(ledger[i]) = 0
    BY <1>5, <1>6, Unspent
  <2>3. Does(step, i, "putBack") /\ step.images[i].built => UsedOf(ledger[i]) = 0
    BY <1>6 DEF Knows, Applies, Lasting
  <2> QED BY <2>2, <2>3, TurnedItem
<1>13. back.money = -step.money
  BY DEF Opposite
<1>14. GoodSteps(older, ledger)
  BY NewestGood
<1> HIDE DEF older, pushed, t, back
<1>15. step.money + CostSum(t, ledger) + Reserve(back, ledger, v, hours)
         <= CostSum(tower, ledger) + Reserve(step, ledger, w, hours)
  BY <1>1, <1>7, <1>12, <1>13, ReserveTurns DEF Towers
<1>16. /\ StackKnows(older, ledger, w, hours)
       /\ Total(from, ledger, w, hours) = Total(older, ledger, w, hours) + Reserve(step, ledger, w, hours)
  <2>1. StackKnows(from, ledger, w, hours)
    BY DEF Settled
  <2>2. StackKnows(older, ledger, w, hours)
    BY <1>2, <2>1 DEF StackKnows
  <2> QED BY <1>1, <2>2, TotalNewest DEF older
<1>17. /\ StackKnows(older, ledger, v, hours)
       /\ Total(older, ledger, v, hours) <= Total(older, ledger, w, hours)
  BY <1>1, <1>2, <1>10, <1>14, <1>16, StackAges
<1>18. /\ StackKnows(onto, ledger, v, hours)
       /\ Total(onto, ledger, v, hours) <= Total(onto, ledger, w, hours)
  <2>1. StackKnows(onto, ledger, w, hours)
    BY DEF Settled
  <2> QED BY <1>1, <1>10, <2>1, StackAges
<1>19. StackKnows(pushed, ledger, v, hours)
  BY <1>4, <1>11, <1>18 DEF StackKnows, back
<1>20. Total(pushed, ledger, v, hours)
         <= Total(onto, ledger, v, hours) + Reserve(back, ledger, v, hours)
  BY <1>1, TotalPushed DEF pushed, back
<1>21. HandsKnow(ledger, v)
  BY <1>9 DEF Settled, HandsKnow
<1>22. money + step.money + CostSum(t, ledger) + Total(older, ledger, v, hours)
             + Total(pushed, ledger, v, hours) <= StartMoney + outside + Begins
  <2>1. /\ Total(older, ledger, v, hours) \in Nat /\ Total(pushed, ledger, v, hours) \in Nat
        /\ Total(older, ledger, w, hours) \in Nat /\ Total(onto, ledger, v, hours) \in Nat
        /\ Total(onto, ledger, w, hours) \in Nat /\ Total(from, ledger, w, hours) \in Nat
    BY <1>1, <1>2, <1>3, TotalType
  <2>2. /\ Reserve(back, ledger, v, hours) \in Nat /\ Reserve(step, ledger, w, hours) \in Nat
        /\ CostSum(t, ledger) \in Int /\ CostSum(tower, ledger) \in Int
    BY <1>1, ReserveType, CostSumType
  <2>3. money + CostSum(tower, ledger) + Total(from, ledger, w, hours) + Total(onto, ledger, w, hours)
          <= StartMoney + outside + Begins
    BY DEF Settled
  <2>4. Total(older, ledger, v, hours) + Total(pushed, ledger, v, hours)
          <= Total(older, ledger, w, hours) + Total(onto, ledger, w, hours)
             + Reserve(back, ledger, v, hours)
    BY <1>17, <1>18, <1>20, <2>1, <2>2
  <2>5. money \in Int /\ step.money \in Int /\ StartMoney + outside + Begins \in Int
    BY <1>1
  <2>6. /\ Total(from, ledger, w, hours)
             = Total(older, ledger, w, hours) + Reserve(step, ledger, w, hours)
        /\ step.money + CostSum(t, ledger) + Reserve(back, ledger, v, hours)
             <= CostSum(tower, ledger) + Reserve(step, ledger, w, hours)
    BY <1>15, <1>16
  <2> DEFINE am == step.money
             cs == CostSum(t, ledger)
             ct == CostSum(tower, ledger)
             tov == Total(older, ledger, v, hours)
             tp == Total(pushed, ledger, v, hours)
             tow == Total(older, ledger, w, hours)
             tn == Total(onto, ledger, w, hours)
             tf == Total(from, ledger, w, hours)
             rs == Reserve(step, ledger, w, hours)
             rb == Reserve(back, ledger, v, hours)
             top == StartMoney + outside + Begins
  <2> HIDE DEF am, cs, ct, tov, tp, tow, tn, tf, rs, rb, top
  <2>7. /\ tov \in Nat /\ tp \in Nat /\ tow \in Nat /\ tn \in Nat /\ tf \in Nat
        /\ rs \in Nat /\ rb \in Nat /\ cs \in Int /\ ct \in Int /\ am \in Int /\ top \in Int
        /\ money \in Int
    BY <2>1, <2>2, <2>5 DEF am, cs, ct, tov, tp, tow, tn, tf, rs, rb, top
  <2>8. tov + tp <= tow + tn + rb /\ tf = tow + rs /\ am + cs + rb <= ct + rs
        /\ money + ct + tf + tn <= top
    BY <2>3, <2>4, <2>6 DEF am, cs, ct, tov, tp, tow, tn, tf, rs, rb, top
  <2>9. money + am + cs + tov + tp <= top
    <3>1. am + cs + tov + tp <= ct + rs + tow + tn
      BY <2>7, <2>8
    <3>2. money + (ct + rs + tow + tn) <= top
      BY <2>7, <2>8
    <3> QED BY <2>7, <3>1, <3>2
  <2> QED BY <2>9 DEF am, cs, tov, tp, top
<1> QED BY <1>17, <1>19, <1>21, <1>22 DEF Settled, older, pushed, t, back

\* The stacks in the other order, and with fewer steps.
LEMMA SettledTurned ==
    ASSUME NEW t \in Towers, NEW a \in Seq(Step), NEW b \in Seq(Step), NEW cash \in Int, NEW w,
           Inv, Settled(t, cash, a, b, w)
    PROVE  Settled(t, cash, b, a, w)
<1>1. ledger \in Ledgers
  BY DEF Inv, TypeOK, Ledgers
<1>2. /\ Total(a, ledger, w, hours) \in Nat /\ Total(b, ledger, w, hours) \in Nat
      /\ CostSum(t, ledger) \in Int
  BY <1>1, TotalType, CostSumType
<1>3. cash + CostSum(t, ledger) + Total(b, ledger, w, hours) + Total(a, ledger, w, hours)
        = cash + CostSum(t, ledger) + Total(a, ledger, w, hours) + Total(b, ledger, w, hours)
  BY <1>2
<1> QED BY <1>3 DEF Settled

LEMMA FewerSettled ==
    ASSUME Inv, NEW t \in Towers, NEW a \in Seq(Step), NEW b \in Seq(Step), NEW cash \in Int,
           NEW c \in Seq(Step), NEW d \in Seq(Step),
           GoodSteps(c, ledger), GoodSteps(d, ledger),
           \A m \in DOMAIN c : \E n \in DOMAIN a : c[m] = a[n],
           \A m \in DOMAIN d : \E n \in DOMAIN b : d[m] = b[n],
           \A w : /\ Total(c, ledger, w, hours) <= Total(a, ledger, w, hours)
                  /\ Total(d, ledger, w, hours) <= Total(b, ledger, w, hours),
           Settled(t, cash, a, b, ShutHands(t, a, b))
    PROVE  Settled(t, cash, c, d, ShutHands(t, c, d))
<1> DEFINE w == ShutHands(t, a, b)
           v == ShutHands(t, c, d)
<1>1. ledger \in Ledgers /\ hours \in Nat /\ outside \in Int /\ Begins \in Int /\ StartMoney \in Int
  BY NumberAssumption, BeginsType DEF Inv, TypeOK, Ledgers
<1>2. ASSUME NEW i \in Id PROVE v[i] \subseteq w[i] /\ \A y \in w[i] : y[3] \in Nat
  <2>1. InHand(t, [k \in Id |-> None], c, d, i) \subseteq InHand(t, [k \in Id |-> None], a, b, i)
    BY DEF InHand
  <2> QED BY <2>1, HandsType DEF ShutHands
<1>3. StackKnows(c, ledger, w, hours) /\ StackKnows(d, ledger, w, hours)
  BY DEF Settled, StackKnows
<1>4. HandsKnow(ledger, v)
  BY <1>2 DEF Settled, HandsKnow
<1>5. cash + CostSum(t, ledger) + Total(a, ledger, w, hours) + Total(b, ledger, w, hours)
        <= StartMoney + outside + Begins
  BY DEF Settled
<1> HIDE DEF w, v
<1>6. Ages(ledger, ledger, w, v, hours, hours)
  BY <1>1, <1>2, FewerHands
<1>7. /\ StackKnows(c, ledger, v, hours)
      /\ Total(c, ledger, v, hours) <= Total(c, ledger, w, hours)
  BY <1>1, <1>3, <1>6, StackAges
<1>8. /\ StackKnows(d, ledger, v, hours)
      /\ Total(d, ledger, v, hours) <= Total(d, ledger, w, hours)
  BY <1>1, <1>3, <1>6, StackAges
<1>9. cash + CostSum(t, ledger) + Total(c, ledger, v, hours) + Total(d, ledger, v, hours)
        <= StartMoney + outside + Begins
  <2>1. /\ Total(a, ledger, w, hours) \in Nat /\ Total(b, ledger, w, hours) \in Nat
        /\ Total(c, ledger, w, hours) \in Nat /\ Total(d, ledger, w, hours) \in Nat
        /\ Total(c, ledger, v, hours) \in Nat /\ Total(d, ledger, v, hours) \in Nat
        /\ CostSum(t, ledger) \in Int
    BY <1>1, TotalType, CostSumType
  <2>2. /\ Total(c, ledger, w, hours) <= Total(a, ledger, w, hours)
        /\ Total(d, ledger, w, hours) <= Total(b, ledger, w, hours)
    OBVIOUS
  <2>3. Total(c, ledger, v, hours) + Total(d, ledger, v, hours)
          <= Total(a, ledger, w, hours) + Total(b, ledger, w, hours)
    BY <1>7, <1>8, <2>1, <2>2
  <2> DEFINE cs == CostSum(t, ledger)
             aw == Total(a, ledger, w, hours)
             bw == Total(b, ledger, w, hours)
             cv == Total(c, ledger, v, hours)
             dv == Total(d, ledger, v, hours)
             top == StartMoney + outside + Begins
  <2>4. /\ aw \in Nat /\ bw \in Nat /\ cv \in Nat /\ dv \in Nat /\ cs \in Int /\ top \in Int
        /\ cv + dv <= aw + bw /\ cash + cs + aw + bw <= top
    BY <1>1, <1>5, <2>1, <2>3
  <2> HIDE DEF cs, aw, bw, cv, dv, top
  <2>5. cash + cs + cv + dv <= top
    BY <2>4
  <2> QED BY <2>5 DEF cs, cv, dv, top
<1> QED BY <1>4, <1>7, <1>8, <1>9 DEF Settled, v

\* An undo or a redo takes back nothing that was used.
LEMMA UndoRedoMoney ==
    ASSUME Inv, Inv', SoldInv, MoneyInv, Undo \/ Redo
    PROVE  MoneyInv'
<1> DEFINE a == UndoCommitted
           b == RedoCommitted
<1>1. Settled(tower, money, a, b, ShutHands(tower, a, b))
  BY Closed
<1>2. /\ a \in Seq(Step) /\ b \in Seq(Step) /\ GoodSteps(a, ledger) /\ GoodSteps(b, ledger)
  BY CommittedGood
<1>3. Held(a, b, tower, ledger)
  BY CommittedHeld
<1>4. journal' = NoJournal /\ UNCHANGED <<hours, ledger, outside>>
  BY UndoRedoShape
<1>5. tower \in Towers /\ money \in Int /\ ledger \in Ledgers
  BY DEF Inv, TypeOK, Towers, Ledgers
<1>6. \A s, z, t : \A i \in Id :
         /\ ShutHands(t, s, z)[i] = {WearOf(x) : x \in InHand(t, [k \in Id |-> None], s, z, i)}
         /\ InHand(t, [k \in Id |-> None], s, z, i) = InHand(t, [k \in Id |-> None], z, s, i)
  BY DEF ShutHands, Hands, InHand
<1>7. CASE \E step \in Step :
             /\ StepSited(step, ledger) /\ Applies(step) /\ Take(step)
             /\ \/ /\ a # <<>> /\ step = Newest(a)
                   /\ undo' = Older(a) /\ redo' = Pushed(b, Opposite(step))
                \/ /\ b # <<>> /\ step = Newest(b)
                   /\ redo' = Older(b) /\ undo' = Pushed(a, Opposite(step))
  <2>1. PICK step \in Step :
             /\ StepSited(step, ledger) /\ Applies(step) /\ Take(step)
             /\ \/ /\ a # <<>> /\ step = Newest(a)
                   /\ undo' = Older(a) /\ redo' = Pushed(b, Opposite(step))
                \/ /\ b # <<>> /\ step = Newest(b)
                   /\ redo' = Older(b) /\ undo' = Pushed(a, Opposite(step))
    BY <1>7
  <2>2. tower' = AfterStep(step) /\ money' = money + step.money
    BY <2>1 DEF Take
  <2>3. tower' \in Towers /\ money' \in Int /\ undo' \in Seq(Step) /\ redo' \in Seq(Step)
    BY DEF Inv, TypeOK, Towers
  <2> HIDE DEF a, b
  <2>4. CASE /\ a # <<>> /\ step = Newest(a)
             /\ undo' = Older(a) /\ redo' = Pushed(b, Opposite(step))
    <3>1. Settled(tower', money', undo', redo', ShutHands(tower', undo', redo'))
      <4>1. \A i \in Id :
              /\ ShutHands(tower, a, b)[i]
                   = {WearOf(x) : x \in InHand(tower, [k \in Id |-> None], a, b, i)}
              /\ ShutHands(tower', undo', redo')[i]
                   = {WearOf(x) : x \in InHand(tower', [k \in Id |-> None], undo', redo', i)}
        BY <1>6
      <4> QED BY <1>1, <1>2, <1>3, <2>1, <2>2, <2>4, <4>1, TakenMoney
    <3> QED BY <1>4, <3>1, Shut, NewJournal
  <2>5. CASE /\ b # <<>> /\ step = Newest(b)
             /\ redo' = Older(b) /\ undo' = Pushed(a, Opposite(step))
    <3>1. Settled(tower, money, b, a, ShutHands(tower, a, b))
      BY <1>1, <1>2, <1>5, SettledTurned
    <3>2. Held(b, a, tower, ledger)
      BY <1>3 DEF Held
    <3>3. \A i \in Id : /\ ShutHands(tower, a, b)[i]
                             = {WearOf(x) : x \in InHand(tower, [k \in Id |-> None], b, a, i)}
                        /\ ShutHands(tower', undo', redo')[i]
                             = {WearOf(x) : x \in InHand(tower', [k \in Id |-> None], redo', undo', i)}
      BY <1>6
    <3>4. Settled(tower', money', redo', undo', ShutHands(tower', undo', redo'))
      BY <1>2, <2>1, <2>2, <2>5, <3>1, <3>2, <3>3, TakenMoney
    <3>5. Settled(tower', money', undo', redo', ShutHands(tower', undo', redo'))
      BY <2>3, <3>4, SettledTurned
    <3> QED BY <1>4, <3>5, Shut, NewJournal
  <2> QED BY <2>1, <2>4, <2>5
<1>8. CASE /\ UNCHANGED <<tower, money>>
           /\ undo' = a \/ (a # <<>> /\ undo' = Older(a))
           /\ redo' = b \/ redo' = <<>>
  <2>1. undo' \in Seq(Step) /\ redo' \in Seq(Step)
        /\ GoodSteps(undo', ledger) /\ GoodSteps(redo', ledger)
    BY <1>4 DEF Inv, TypeOK
  <2> HIDE DEF a, b
  <2>2. /\ \A m \in DOMAIN undo' : \E n \in DOMAIN a : undo'[m] = a[n]
        /\ \A w : Total(undo', ledger, w, hours) <= Total(a, ledger, w, hours)
    <3>1. CASE undo' = a
      <4>1. \A w : Total(a, ledger, w, hours) \in Nat
        BY <1>2, <1>5, TotalType
      <4>2. \A w : Total(a, ledger, w, hours) <= Total(a, ledger, w, hours)
        BY <4>1
      <4> QED BY <3>1, <4>2
    <3>2. CASE a # <<>> /\ undo' = Older(a)
      <4>1. \A m \in DOMAIN undo' : m \in DOMAIN a /\ undo'[m] = a[m]
        BY <1>2, <3>2, NewestType
      <4>2. ASSUME NEW w PROVE Total(undo', ledger, w, hours) <= Total(a, ledger, w, hours)
        <5>1. /\ Newest(a) \in Step
              /\ Total(a, ledger, w, hours)
                   = Total(undo', ledger, w, hours) + Reserve(Newest(a), ledger, w, hours)
          BY <1>2, <1>5, <3>2, TotalNewest
        <5>2. Total(undo', ledger, w, hours) \in Nat /\ Reserve(Newest(a), ledger, w, hours) \in Nat
          BY <1>5, <2>1, <5>1, TotalType, ReserveType
        <5> QED BY <5>1, <5>2
      <4> QED BY <4>1, <4>2
    <3> QED BY <1>8, <3>1, <3>2
  <2>3. /\ \A m \in DOMAIN redo' : \E n \in DOMAIN b : redo'[m] = b[n]
        /\ \A w : Total(redo', ledger, w, hours) <= Total(b, ledger, w, hours)
    <3>1. \A w : Total(b, ledger, w, hours) \in Nat /\ Total(<<>>, ledger, w, hours) = 0
      BY <1>2, <1>5, TotalType, TotalNone
    <3>2. \A w : /\ Total(b, ledger, w, hours) <= Total(b, ledger, w, hours)
                 /\ Total(<<>>, ledger, w, hours) <= Total(b, ledger, w, hours)
      BY <3>1
    <3> QED BY <1>8, <3>2
  <2>4. Settled(tower, money, undo', redo', ShutHands(tower, undo', redo'))
    BY <1>1, <1>2, <1>5, <2>1, <2>2, <2>3, FewerSettled
  <2> QED BY <1>4, <1>8, <2>4, Shut, NewJournal
<1> QED BY <1>7, <1>8, UndoRedoShape

-----------------------------------------------------------------------------
(* The other actions.                                                      *)

LEMMA StartHands ==
    HandsKnow(StartLedger, Hands(StartTower, [i \in Id |-> None], <<>>, <<>>))
<1> DEFINE w == Hands(StartTower, [i \in Id |-> None], <<>>, <<>>)
<1>1. ASSUME NEW i \in Id, NEW y \in w[i]
      PROVE  IF Kind[StartLedger[i].site] \in {"room", "condo"}
             THEN ~Unopened(y) => UsedOf(StartLedger[i]) > 0
             ELSE y[1] = "idle" /\ ~y[2]
  <2>1. PICK x \in Item : y = WearOf(x)
           /\ x \in InHand(StartTower, [k \in Id |-> None], <<>>, <<>>, i)
    BY HandsType
  <2>2. x = StartTower[i] /\ x # None
    BY <2>1, ItemFacts DEF InHand
  <2>3. /\ i <= Len(Begun) /\ x = Placed(Begun[i])
        /\ StartLedger[i] = [site |-> Begun[i], used |-> 1, sale |-> None]
    BY <2>2 DEF StartTower, StartLedger
  <2>4. StartLedger[i] \in Entry /\ StartLedger[i] # None
    <3>1. i \in 1..Len(Begun) /\ Begun[i] \in Site
      BY <2>3, GeometryAssumption DEF Id
    <3> QED BY <2>3, <3>1, ItemFacts DEF Entry
  <2>5. UsedOf(StartLedger[i]) = 1 /\ StartLedger[i].site = Begun[i]
    BY <2>3, <2>4 DEF UsedOf
  <2>6. Kind[Begun[i]] \notin {"room", "condo"} => x.use = "idle" /\ ~x.sold
    BY <2>3 DEF Placed
  <2> QED BY <2>1, <2>5, <2>6 DEF WearOf
<1> HIDE DEF w
<1>2. HandsKnow(StartLedger, w)
  BY <1>1 DEF HandsKnow
<1> QED BY <1>2 DEF w

LEMMA InitMoney == Init => MoneyInv
<1> SUFFICES ASSUME Init PROVE MoneyInv
  OBVIOUS
<1>1. /\ tower = StartTower /\ ledger = StartLedger /\ undo = <<>> /\ redo = <<>>
      /\ money = StartMoney /\ outside = 0 /\ journal = NoJournal
  BY DEF Init
<1>2. ~journal.open /\ TookOf = [i \in Id |-> None]
  BY <1>1, NewJournal DEF TookOf, Took
<1>3. Worn = Hands(StartTower, [i \in Id |-> None], <<>>, <<>>)
  BY <1>1, <1>2 DEF Worn
<1>4. Total(undo, ledger, Worn, hours) = 0 /\ Total(redo, ledger, Worn, hours) = 0 /\ Open = 0
  BY <1>1, <1>2, StartTypes, TotalNone DEF Open
<1>5. Covered
  BY <1>1, <1>4, BeginsType, NumberAssumption DEF Covered
<1>6. /\ StackKnows(undo, ledger, Worn, hours) /\ StackKnows(redo, ledger, Worn, hours)
      /\ NotesKnow
  BY <1>1, <1>2 DEF StackKnows, NotesKnow
<1>7. HandsKnow(ledger, Worn)
  BY <1>1, <1>3, StartHands
<1> QED BY <1>2, <1>5, <1>6, <1>7 DEF MoneyInv

LEMMA AdoptMoney == Adopt => MoneyInv'
<1> SUFFICES ASSUME Adopt PROVE MoneyInv'
  OBVIOUS
<1>1. /\ tower' = StartTower /\ ledger' = StartLedger /\ undo' = <<>> /\ redo' = <<>>
      /\ money' = StartMoney /\ outside' = 0 /\ journal' = NoJournal
  BY DEF Adopt
<1>2. ~journal'.open /\ TookOf' = [i \in Id |-> None]
  BY <1>1, NewJournal DEF TookOf, Took
<1>3. Worn' = Hands(StartTower, [i \in Id |-> None], <<>>, <<>>)
  BY <1>1, <1>2 DEF Worn
<1>4. /\ Total(undo', ledger', Worn', hours') = 0 /\ Total(redo', ledger', Worn', hours') = 0
      /\ Open' = 0
  BY <1>1, <1>2, StartTypes, TotalNone DEF Open
<1>5. Covered'
  BY <1>1, <1>4, BeginsType, NumberAssumption DEF Covered
<1>6. StackKnows(undo, ledger, Worn, hours)' /\ StackKnows(redo, ledger, Worn, hours)' /\ NotesKnow'
  BY <1>1, <1>2 DEF StackKnows, NotesKnow
<1>7. HandsKnow(ledger, Worn)'
  BY <1>1, <1>3, StartHands
<1> QED BY <1>2, <1>5, <1>6, <1>7 DEF MoneyInv

\* What stands is all there is of it in hand.
LEMMA StandingHands ==
    ASSUME NEW t, NEW tk, NEW a, NEW b, NEW i \in Id, t[i] \in Item, tk[i] = None,
           ~Puts(a, i), ~Puts(b, i)
    PROVE  Hands(t, tk, a, b)[i] = {WearOf(t[i])}
<1>1. InHand(t, tk, a, b, i) = {t[i]}
  BY ItemFacts DEF InHand, Puts
<1> QED BY <1>1 DEF Hands

LEMMA SameHands ==
    ASSUME NEW t, NEW u, NEW tk, NEW sk, NEW a, NEW b, NEW i \in Id, t[i] = u[i], tk[i] = sk[i]
    PROVE  Hands(t, tk, a, b)[i] = Hands(u, sk, a, b)[i]
<1>1. InHand(t, tk, a, b, i) = InHand(u, sk, a, b, i)
  BY DEF InHand
<1> QED BY <1>1 DEF Hands

\* The stacks hold back no more, and what they know stays known.
LEMMA StacksAge ==
    ASSUME Inv, Inv', SoldInv, MoneyInv, UNCHANGED <<undo, redo>>,
           Ages(ledger, ledger', Worn, Worn', hours, hours'),
           \A i \in Id : ledger[i] # None /\ tower[i] = None => ledger'[i] = ledger[i]
    PROVE  /\ StackKnows(undo, ledger, Worn, hours)' /\ StackKnows(redo, ledger, Worn, hours)'
           /\ Total(undo, ledger, Worn, hours)' <= Total(undo, ledger, Worn, hours)
           /\ Total(redo, ledger, Worn, hours)' <= Total(redo, ledger, Worn, hours)
<1>1. /\ ledger \in Ledgers /\ ledger' \in Ledgers /\ undo \in Seq(Step) /\ redo \in Seq(Step)
      /\ GoodSteps(undo, ledger) /\ GoodSteps(redo, ledger)
  BY DEF Inv, TypeOK, Ledgers
<1>2. StackKnows(undo, ledger, Worn, hours) /\ StackKnows(redo, ledger, Worn, hours)
  BY DEF MoneyInv
<1>3. ASSUME NEW i \in Id, Puts(undo, i) \/ Puts(redo, i)
      PROVE  UsedOf(ledger'[i]) = UsedOf(ledger[i])
  <2>1. tower[i] = None
    BY <1>3 DEF SoldInv, Held
  <2>2. ledger[i] # None
    BY <1>1, <1>3 DEF Puts, GoodSteps, StepSited, SitedIn, Named, Does
  <2> QED BY <2>1, <2>2
<1> DEFINE w == Worn
           v == Worn'
           h == hours'
<1> HIDE DEF w, v, h
<1>4. Ages(ledger, ledger', w, v, hours, h)
  BY DEF w, v, h
<1>5. StackKnows(undo, ledger, w, hours) /\ StackKnows(redo, ledger, w, hours)
  BY <1>2 DEF w
<1>6. /\ StackKnows(undo, ledger', v, h)
      /\ Total(undo, ledger', v, h) <= Total(undo, ledger, w, hours)
  BY <1>1, <1>3, <1>4, <1>5, StackAges
<1>7. /\ StackKnows(redo, ledger', v, h)
      /\ Total(redo, ledger', v, h) <= Total(redo, ledger, w, hours)
  BY <1>1, <1>3, <1>4, <1>5, StackAges
<1> QED BY <1>6, <1>7 DEF w, v, h

LEMMA OpenTypes ==
    ASSUME Inv, Inv'
    PROVE  Open \in Nat /\ Open' \in Nat
<1>1. /\ ledger \in Ledgers /\ ledger' \in Ledgers /\ tower \in Towers /\ tower' \in Towers
      /\ journal \in Journal /\ journal' \in Journal
  BY DEF Inv, TypeOK, Ledgers, Towers
<1>2. StepOf(journal) \in Step /\ StepOf(journal)' \in Step
  BY <1>1, StepIs, StepFromType
<1>3. Open \in Nat
  BY <1>1, <1>2, ReserveType DEF Open
<1>4. Open' \in Nat
  <2> DEFINE s == StepOf(journal)'
             w == Worn'
             h == hours'
  <2> HIDE DEF s, w, h
  <2>1. s \in Step
    BY <1>2 DEF s
  <2>2. Reserve(s, ledger', w, h) \in Nat
    BY <1>1, <2>1, ReserveType
  <2>3. Open' = IF journal'.open THEN Reserve(s, ledger', w, h) ELSE 0
    BY DEF Open, s, w, h
  <2> QED BY <2>2, <2>3
<1> QED BY <1>3, <1>4

\* The invariant, where the stacks stay and the balance pays for the rest.
LEMMA Moves ==
    ASSUME Inv, Inv', SoldInv, MoneyInv, UNCHANGED <<undo, redo>>,
           Ages(ledger, ledger', Worn, Worn', hours, hours'),
           \A i \in Id : ledger[i] # None /\ tower[i] = None => ledger'[i] = ledger[i],
           NEW amount \in Int, NEW flow \in Int,
           money' = money + amount + flow, outside' = outside + flow,
           amount + CostSum(tower', ledger') + Open' <= CostSum(tower, ledger) + Open,
           journal'.open => Knows(StepOf(journal)', ledger', Worn', hours'),
           HandsKnow(ledger', Worn'), NotesKnow'
    PROVE  MoneyInv'
<1>1. /\ ledger \in Ledgers /\ ledger' \in Ledgers /\ undo \in Seq(Step) /\ redo \in Seq(Step)
      /\ tower \in Towers /\ tower' \in Towers /\ money \in Int /\ outside \in Int
      /\ journal \in Journal /\ journal' \in Journal
  BY DEF Inv, TypeOK, Ledgers, Towers
<1>2. /\ StackKnows(undo, ledger, Worn, hours)' /\ StackKnows(redo, ledger, Worn, hours)'
      /\ Total(undo, ledger, Worn, hours)' <= Total(undo, ledger, Worn, hours)
      /\ Total(redo, ledger, Worn, hours)' <= Total(redo, ledger, Worn, hours)
  BY StacksAge
<1>3. StartMoney \in Int /\ Begins \in Int
  BY BeginsType, NumberAssumption
<1>5. Open \in Nat /\ Open' \in Nat
  BY OpenTypes
<1> DEFINE c == CostSum(tower, ledger)
           d == CostSum(tower', ledger')
           tu == Total(undo, ledger, Worn, hours)
           tr == Total(redo, ledger, Worn, hours)
           su == Total(undo, ledger, Worn, hours)'
           sr == Total(redo, ledger, Worn, hours)'
           top == StartMoney + outside + Begins
           oo == Open
           on == Open'
<1>7. c \in Int /\ d \in Int /\ tu \in Nat /\ tr \in Nat /\ top \in Int
  BY <1>1, <1>3, CostSumType, TotalType
<1>8. su \in Nat /\ sr \in Nat
  <2> DEFINE w == Worn'
             h == hours'
  <2> HIDE DEF w, h
  <2>1. Total(undo, ledger', w, h) \in Nat /\ Total(redo, ledger', w, h) \in Nat
    BY <1>1, TotalType
  <2> QED BY <2>1 DEF w, h
<1>9. money + c + tu + tr + oo <= top
  BY DEF MoneyInv, Covered
<1>10. su <= tu /\ sr <= tr /\ amount + d + on <= c + oo /\ oo \in Nat /\ on \in Nat
  BY <1>2, <1>5
<1>11. StartMoney + outside' + Begins = top + flow
  BY <1>1, <1>3
<1> HIDE DEF c, d, tu, tr, su, sr, top, oo, on
<1>12. money' + d + su + sr + on <= top + flow
  BY <1>1, <1>7, <1>8, <1>9, <1>10
<1>13. Covered'
  BY <1>11, <1>12 DEF Covered, d, su, sr, on
<1> QED BY <1>2, <1>13 DEF MoneyInv

-----------------------------------------------------------------------------
(* Time.                                                                   *)

\* What time does to an item: a room opens and stays open, a shaft is ridden.
LEMMA MovedWear ==
    ASSUME NEW x \in Item, NEW hourly \in BOOLEAN, NEW y \in Moved(x, hourly)
    PROVE  /\ y \in Item /\ y.site = x.site /\ y.cars = x.cars
           /\ IsRoom(x) => y.use # "building" /\ y.rides = x.rides
           /\ ~IsRoom(x) => /\ IsShaft(x) /\ y.use = x.use /\ y.sold = x.sold
                            /\ y.rides = x.rides + 1 /\ y = [x EXCEPT !.rides = y.rides]
<1>1. y \in Item /\ y.site = x.site
  BY MovedType
<1>2. x.rides \in Nat /\ x.use \in Uses
  BY ItemFacts DEF Item
<1>3. CASE IsShaft(x)
  <2>1. ~IsRoom(x) /\ y = [x EXCEPT !.rides = x.rides + 1]
    BY <1>3 DEF Moved, Ridden, IsShaft, IsRoom
  <2>2. /\ y.cars = x.cars /\ y.use = x.use /\ y.sold = x.sold /\ y.rides = x.rides + 1
    BY <2>1 DEF Item
  <2> QED BY <1>1, <1>3, <2>1, <2>2
<1>4. CASE IsRoom(x) /\ ~IsShaft(x)
  <2>1. y \in Lived(x, hourly)
    BY <1>4 DEF Moved
  <2>2. y.cars = x.cars /\ y.rides = x.rides /\ y.use # "building"
    <3>1. CASE x.use = "building"
      BY <2>1, <3>1 DEF Lived, Item
    <3>2. CASE x.use = "idle"
      BY <2>1, <3>2 DEF Lived, Item
    <3>3. CASE x.use = "let"
      BY <2>1, <3>3 DEF Lived, Item
    <3>4. CASE x.use = "busy"
      BY <2>1, <3>4 DEF Lived, Item
    <3>5. CASE x.use = "fire"
      BY <2>1, <3>5 DEF Lived, Item
    <3>6. CASE x.use = "gutted"
      BY <2>1, <3>6 DEF Lived
    <3> QED BY <1>2, <3>1, <3>2, <3>3, <3>4, <3>5, <3>6 DEF Uses
  <2> QED BY <1>1, <1>4, <2>2
<1>5. CASE ~IsRoom(x) /\ ~IsShaft(x)
  BY <1>5 DEF Moved
<1> QED BY <1>3, <1>4, <1>5

\* The ledger counts use up to the cars that stand.
LEMMA UsedGrows ==
    ASSUME NEW e \in Entry, NEW was \in Item, NEW now \in Item, NEW hourly \in BOOLEAN,
           NEW n, n = Used(e, was, now, hourly),
           NEW used, used = ((IF IsRoom(now) THEN now.use # "building" ELSE hourly) \/ was # now)
    PROVE  /\ n \in Entry /\ n.site = e.site /\ e.used \in Nat /\ n.used \in Nat
           /\ e.used <= n.used
           /\ n.used # e.used => used /\ n.used = IF IsShaft(now) THEN now.cars ELSE 1
           /\ used /\ ~IsShaft(now) => n.used > 0
<1>1. n \in Entry /\ n.site = e.site
  BY UsedType
<1>2. e.used \in Nat /\ now.cars \in Nat /\ n.used \in Nat
  BY <1>1, ItemFacts DEF Entry
<1> DEFINE extent == IF IsShaft(now) THEN now.cars ELSE 1
<1>3. n.used = IF used /\ extent > e.used THEN extent ELSE e.used
  BY DEF Used, Entry
<1>4. extent \in Nat /\ (~IsShaft(now) => extent = 1)
  BY <1>2
<1> HIDE DEF extent
<1>5. e.used <= n.used /\ (n.used # e.used => used /\ n.used = extent)
      /\ (used /\ ~IsShaft(now) => n.used > 0)
  BY <1>2, <1>3, <1>4
<1> QED BY <1>1, <1>2, <1>5 DEF extent

\* What an advance makes of what stands, and of its entry.
TimeMoves(x, y, e, n, k, u, r, hr, h) ==
    /\ x \in Item /\ y \in Item /\ y.cars = x.cars /\ x.rides <= y.rides
    /\ e \in Entry /\ n \in Entry /\ n.site = e.site
    /\ KindOf(x) = k /\ k \in Kinds /\ u \in Nat /\ r \in Nat /\ u <= r
    /\ Unopened(WearOf(y)) => Unopened(WearOf(x))
    /\ k = "floor" => y = x /\ (r # u => hr < h)
    /\ k = "shaft" => /\ y.use = x.use /\ y.sold = x.sold
                      /\ y = [x EXCEPT !.rides = y.rides]
                      /\ r # u => r = x.cars /\ (hr < h \/ x.rides < y.rides)
    /\ k \in {"room", "condo"} =>
          /\ r # u => ~Unopened(WearOf(y))
          /\ (~Unopened(WearOf(x)) => u > 0) => (~Unopened(WearOf(y)) => r > 0)

LEMMA AdvanceItem ==
    ASSUME Inv, Inv', Advance, NEW i \in Id, tower[i] # None,
           NEW x, x = tower[i], NEW y, y = tower'[i],
           NEW k, k = Kind[ledger[i].site],
           NEW u, u = UsedOf(ledger[i]), NEW r, r = UsedOf(ledger'[i])
    PROVE  TimeMoves(x, y, ledger[i], ledger'[i], k, u, r, hours, hours')
<1>1. PICK hourly \in BOOLEAN :
         /\ hours' = IF hourly THEN hours + 1 ELSE hours
         /\ \/ \E j \in Standing(tower) : \E z \in Moved(tower[j], hourly) :
                  tower' = [tower EXCEPT ![j] = z]
            \/ hourly /\ tower' = tower
         /\ ledger' = [j \in Id |-> IF tower'[j] = None THEN ledger[j]
                                     ELSE Used(ledger[j], tower[j], tower'[j], hourly)]
  BY DEF Advance
<1>2. /\ tower \in [Id -> Item \cup {None}] /\ hours \in Nat /\ x \in Item
      /\ ledger[i] \in Entry /\ x.site = ledger[i].site
  BY NumberAssumption DEF Inv, TypeOK, TowerSited, SitedIn
<1>3. KindOf(x) = k /\ k \in Kinds /\ x.rides \in Nat /\ x.use \in Uses
  BY <1>2, ItemFacts DEF KindOf, Item
<1>4. \/ y = x
      \/ y \in Moved(x, hourly)
  <2>1. ASSUME NEW j \in Standing(tower), NEW z \in Moved(tower[j], hourly),
               tower' = [tower EXCEPT ![j] = z]
        PROVE  y = x \/ y \in Moved(x, hourly)
    BY <1>2, <2>1 DEF Standing
  <2> QED BY <1>1, <2>1
<1>5. /\ y \in Item /\ y.site = x.site /\ y.cars = x.cars /\ x.rides <= y.rides
      /\ y # x => /\ IsRoom(x) => y.use # "building"
                  /\ ~IsRoom(x) => /\ IsShaft(x) /\ y.use = x.use /\ y.sold = x.sold
                                   /\ y.rides = x.rides + 1 /\ y = [x EXCEPT !.rides = y.rides]
  <2>1. CASE y = x
    BY <1>2, <1>3, <2>1
  <2>2. CASE y \in Moved(x, hourly)
    BY <1>2, <1>3, <2>2, MovedWear
  <2> QED BY <1>4, <2>1, <2>2
<1>6. ledger'[i] = Used(ledger[i], x, y, hourly)
  <2>1. y # None
    BY <1>5, ItemFacts
  <2> QED BY <1>1, <2>1
<1> DEFINE used == (IF IsRoom(y) THEN y.use # "building" ELSE hourly) \/ x # y
<1>7. /\ ledger'[i] \in Entry /\ ledger'[i].site = ledger[i].site
      /\ u \in Nat /\ r \in Nat /\ u <= r
      /\ r # u => used /\ r = IF IsShaft(y) THEN y.cars ELSE 1
      /\ used /\ ~IsShaft(y) => r > 0
  <2>1. /\ ledger'[i] \in Entry /\ ledger'[i].site = ledger[i].site
        /\ ledger[i].used \in Nat /\ ledger'[i].used \in Nat
        /\ ledger[i].used <= ledger'[i].used
        /\ ledger'[i].used # ledger[i].used => used /\ ledger'[i].used = IF IsShaft(y) THEN y.cars ELSE 1
        /\ used /\ ~IsShaft(y) => ledger'[i].used > 0
    <3>1. \A n, d : n = Used(ledger[i], x, y, hourly) /\ d = used =>
        /\ n \in Entry /\ n.site = ledger[i].site /\ ledger[i].used \in Nat /\ n.used \in Nat
        /\ ledger[i].used <= n.used
        /\ n.used # ledger[i].used => d /\ n.used = IF IsShaft(y) THEN y.cars ELSE 1
        /\ d /\ ~IsShaft(y) => n.used > 0
      BY <1>2, <1>5, UsedGrows
    <3> QED BY <1>6, <3>1
  <2>2. u = ledger[i].used /\ r = ledger'[i].used
    BY <1>2, <2>1, ItemFacts DEF UsedOf
  <2> QED BY <2>1, <2>2
<1>8. KindOf(y) = k /\ (IsShaft(y) <=> k = "shaft") /\ (IsShaft(x) <=> k = "shaft")
      /\ (IsRoom(y) <=> k \in {"room", "condo"}) /\ (IsRoom(x) <=> k \in {"room", "condo"})
  BY <1>3, <1>5 DEF KindOf, IsShaft, IsRoom
<1>9. CASE k \in {"room", "condo"}
  <2>1. used <=> y.use # "building"
    BY <1>5, <1>8, <1>9
  <2>2. y.use = "building" => y = x
    BY <1>5, <1>8, <1>9
  <2>3. Unopened(WearOf(y)) <=> y.use = "building" /\ ~y.sold
    BY DEF Unopened, WearOf
  <2>4. Unopened(WearOf(x)) <=> x.use = "building" /\ ~x.sold
    BY DEF Unopened, WearOf
  <2>5. (~Unopened(WearOf(x)) => u > 0) => (~Unopened(WearOf(y)) => r > 0)
    <3>1. CASE y.use = "building"
      BY <1>7, <2>2, <3>1
    <3>2. CASE y.use # "building"
      BY <1>7, <1>8, <1>9, <2>1, <3>2
    <3> QED BY <3>1, <3>2
  <2>6. r # u => ~Unopened(WearOf(y))
    BY <1>7, <2>1, <2>3
  <2>7. Unopened(WearOf(y)) => Unopened(WearOf(x))
    BY <2>2, <2>3, <2>4
  <2> HIDE DEF used
  <2> QED BY <1>2, <1>3, <1>5, <1>7, <1>9, <2>5, <2>6, <2>7 DEF TimeMoves
<1>10. CASE k = "shaft"
  <2>1. y.use = x.use /\ y.sold = x.sold /\ y = [x EXCEPT !.rides = y.rides]
    <3>1. x = [x EXCEPT !.rides = x.rides]
      BY <1>2 DEF Item
    <3> QED BY <1>5, <1>8, <1>10, <3>1
  <2>2. Unopened(WearOf(y)) => Unopened(WearOf(x))
    BY <2>1 DEF Unopened, WearOf
  <2>3. r # u => r = x.cars /\ (hours < hours' \/ x.rides < y.rides)
    BY <1>1, <1>2, <1>3, <1>5, <1>7, <1>8, <1>10
  <2> HIDE DEF used
  <2> QED BY <1>2, <1>3, <1>5, <1>7, <1>10, <2>1, <2>2, <2>3 DEF TimeMoves
<1>11. CASE k = "floor"
  <2>1. y = x /\ (r # u => hours < hours')
    BY <1>1, <1>2, <1>5, <1>7, <1>8, <1>11
  <2> HIDE DEF used
  <2> QED BY <1>2, <1>3, <1>5, <1>7, <1>11, <2>1 DEF TimeMoves
<1> HIDE DEF used
<1> QED BY <1>3, <1>9, <1>10, <1>11 DEF Kinds

\* What is in hand of a standing item, and of one that is not.
LEMMA WornOf ==
    ASSUME Inv, SoldInv, NEW i \in Id
    PROVE  /\ \A y \in Worn[i] : y[3] \in Nat
           /\ tower[i] # None => Worn[i] = {WearOf(tower[i])}
<1>1. ASSUME tower[i] # None PROVE Worn[i] = {WearOf(tower[i])}
  <2>1. tower[i] \in Item /\ ~Puts(undo, i) /\ ~Puts(redo, i) /\ TookOf[i] = None
    BY <1>1 DEF Inv, TypeOK, SoldInv, Held, TookOf, Took
  <2> QED BY <2>1, StandingHands DEF Worn
<1> QED BY <1>1, HandsType DEF Worn
LEMMA WornThen ==
    ASSUME Inv', SoldInv', NEW i \in Id
    PROVE  /\ \A y \in Worn'[i] : y[3] \in Nat
           /\ tower'[i] # None => Worn'[i] = {WearOf(tower'[i])}
<1>1. ASSUME tower'[i] # None PROVE Worn'[i] = {WearOf(tower'[i])}
  <2>1. tower'[i] \in Item /\ ~Puts(undo', i) /\ ~Puts(redo', i) /\ TookOf'[i] = None
    BY <1>1 DEF Inv, TypeOK, SoldInv, Held, TookOf, Took
  <2>2. Hands(tower', TookOf', undo', redo')[i] = {WearOf(tower'[i])}
    BY <2>1, StandingHands
  <2> QED BY <2>2 DEF Worn
<1>2. \A y \in Hands(tower', TookOf', undo', redo')[i] : y[3] \in Nat
  BY HandsType
<1> QED BY <1>1, <1>2 DEF Worn

LEMMA AdvanceAges ==
    ASSUME Inv, Inv', SoldInv, SoldInv', MoneyInv, Advance
    PROVE  /\ Ages(ledger, ledger', Worn, Worn', hours, hours')
           /\ HandsKnow(ledger', Worn') /\ NotesKnow'
           /\ \A i \in Id : CostOf(tower'[i], ledger'[i]) = CostOf(tower[i], ledger[i])
<1>1. /\ UNCHANGED <<journal, undo, redo>> /\ hours \in Nat /\ hours' \in Nat /\ hours <= hours'
      /\ \A i \in Id : /\ (tower'[i] = None) = (tower[i] = None)
                       /\ tower[i] = None => ledger'[i] = ledger[i]
      /\ ledger \in Ledgers /\ ledger' \in Ledgers
  <2>1. hours \in Nat /\ hours' \in Nat /\ ledger \in Ledgers /\ ledger' \in Ledgers
    BY NumberAssumption DEF Inv, TypeOK, Ledgers
  <2>2. hours' = hours \/ hours' = hours + 1
    BY DEF Advance
  <2> QED BY <2>1, <2>2, AdvanceShape
<1>2. ASSUME NEW i \in Id, tower[i] = None
      PROVE  /\ Worn'[i] = Worn[i] /\ ledger'[i] = ledger[i] /\ tower'[i] = tower[i]
  <2>1. tower'[i] = None /\ TookOf'[i] = TookOf[i]
    BY <1>1, <1>2 DEF TookOf, Took
  <2>2. Hands(tower', TookOf', undo', redo')[i] = Hands(tower, TookOf, undo, redo)[i]
    BY <1>1, <1>2, <2>1, SameHands
  <2> QED BY <1>1, <1>2, <2>1, <2>2 DEF Worn
<1>3. ASSUME NEW i \in Id, tower[i] # None
      PROVE  /\ AgesItem(Kind[ledger[i].site], UsedOf(ledger[i]), UsedOf(ledger'[i]),
                         Worn[i], Worn'[i], hours, hours')
             /\ CostOf(tower'[i], ledger'[i]) = CostOf(tower[i], ledger[i])
             /\ tower'[i] # None /\ tower[i].rides <= tower'[i].rides
             /\ \A y \in Worn'[i] :
                   IF Kind[ledger'[i].site] \in {"room", "condo"}
                   THEN ~Unopened(y) => UsedOf(ledger'[i]) > 0
                   ELSE y[1] = "idle" /\ ~y[2]
  <2> DEFINE x == tower[i]
             y == tower'[i]
             k == Kind[ledger[i].site]
             u == UsedOf(ledger[i])
             r == UsedOf(ledger'[i])
             wx == WearOf(x)
             wy == WearOf(y)
  <2>1. /\ x \in Item /\ y \in Item /\ y.cars = x.cars /\ x.rides <= y.rides
        /\ ledger[i] \in Entry /\ ledger'[i] \in Entry /\ ledger'[i].site = ledger[i].site
        /\ KindOf(x) = k /\ k \in Kinds /\ u \in Nat /\ r \in Nat /\ u <= r
        /\ Unopened(wy) => Unopened(wx)
        /\ k = "floor" => y = x /\ (r # u => hours < hours')
        /\ k = "shaft" => /\ y.use = x.use /\ y.sold = x.sold
                          /\ y = [x EXCEPT !.rides = y.rides]
                          /\ r # u => r = x.cars /\ (hours < hours' \/ x.rides < y.rides)
        /\ k \in {"room", "condo"} =>
              /\ r # u => ~Unopened(wy)
              /\ (~Unopened(wx) => u > 0) => (~Unopened(wy) => r > 0)
    <3>1. TimeMoves(tower[i], tower'[i], ledger[i], ledger'[i], Kind[ledger[i].site],
                    UsedOf(ledger[i]), UsedOf(ledger'[i]), hours, hours')
      BY <1>3, AdvanceItem
    <3> QED BY <3>1 DEF TimeMoves
  <2>2. Worn[i] = {wx} /\ Worn'[i] = {wy} /\ y # None
    <3>1. y # None
      BY <2>1, ItemFacts
    <3> QED BY <1>3, <3>1, WornOf, WornThen
  <2>3. /\ wx[3] = x.rides /\ wy[3] = y.rides /\ x.rides \in Nat /\ y.rides \in Nat
        /\ wx[1] = x.use /\ wy[1] = y.use /\ wx[2] = x.sold /\ wy[2] = y.sold
    BY <2>1, ItemFacts DEF WearOf
  <2>4. IF k \in {"room", "condo"} THEN ~Unopened(wx) => u > 0 ELSE wx[1] = "idle" /\ ~wx[2]
    BY <2>2 DEF MoneyInv, HandsKnow
  <2>5. CostOf(y, ledger'[i]) = CostOf(x, ledger[i])
    <3>1. /\ ledger[i] # None /\ ledger'[i] # None /\ x # None
          /\ u = ledger[i].used /\ r = ledger'[i].used /\ x.cars \in Nat
      BY <2>1, ItemFacts DEF UsedOf
    <3>2. CostOf(x, ledger[i]) = Stand(k, x.cars, u) /\ CostOf(y, ledger'[i]) = Stand(k, x.cars, r)
      BY <2>1, <2>2, <3>1 DEF CostOf
    <3>3. k = "shaft" => r <= u \/ r <= x.cars
      BY <2>1, <3>1
    <3>4. Stand(k, x.cars, u) = Stand(k, x.cars, r)
      BY <2>1, <3>1, <3>3, UseCost
    <3> QED BY <3>2, <3>4
  <2> HIDE DEF x, y, k, u, r, wx, wy
  <2>6. AgesItem(k, u, r, {wx}, {wy}, hours, hours')
    BY <2>1, <2>3 DEF AgesItem
  <2>7. Kind[ledger'[i].site] = k
    BY <2>1 DEF k
  <2>8. IF k \in {"room", "condo"} THEN ~Unopened(wy) => r > 0 ELSE wy[1] = "idle" /\ ~wy[2]
    BY <2>1, <2>3, <2>4 DEF Kinds
  <2> QED BY <2>1, <2>2, <2>5, <2>6, <2>7, <2>8 DEF x, y, k, u, r
<1>4. ASSUME NEW i \in Id, ledger[i] # None
      PROVE  AgesItem(Kind[ledger[i].site], UsedOf(ledger[i]), UsedOf(ledger'[i]),
                      Worn[i], Worn'[i], hours, hours')
  <2>1. CASE tower[i] # None
    BY <1>3, <2>1
  <2>2. CASE tower[i] = None
    <3>1. \A y \in Worn[i] : y[3] \in Nat /\ y[3] <= y[3]
      BY WornOf
    <3>2. UsedOf(ledger[i]) \in Nat
      BY <1>1, ItemFacts DEF Ledgers
    <3> QED BY <1>2, <2>2, <3>1, <3>2 DEF AgesItem
  <2> QED BY <2>1, <2>2
<1>5. Ages(ledger, ledger', Worn, Worn', hours, hours')
  BY <1>1, <1>4 DEF Ages
<1>6. HandsKnow(ledger', Worn')
  BY <1>2, <1>3 DEF HandsKnow, MoneyInv
<1>7. NotesKnow'
  <2>1. ASSUME journal.open, NEW i \in Id, journal.touched[i] # None
        PROVE  NoteKnows(journal.touched[i], tower'[i], ledger'[i])
    <3>1. NoteKnows(journal.touched[i], tower[i], ledger[i])
      BY <2>1 DEF MoneyInv, NotesKnow
    <3>2. CASE tower[i] = None
      BY <1>2, <3>1, <3>2
    <3>3. CASE tower[i] # None
      <4>1. /\ tower[i].rides \in Nat /\ tower'[i].rides \in Nat
            /\ journal.touched[i].item.rides \in Nat
        BY <1>3, <2>1, <3>3, ItemFacts DEF Inv, TypeOK, Journal, Touch
      <4> QED BY <1>3, <3>1, <3>3, <4>1 DEF NoteKnows
    <3> QED BY <3>2, <3>3
  <2> QED BY <1>1, <2>1 DEF NotesKnow
<1> QED BY <1>2, <1>3, <1>5, <1>6, <1>7

\* The open gesture's step, where it stays alike.
LEMMA OpenAges ==
    ASSUME Inv, Inv', MoneyInv, journal.open, journal'.open,
           Alike(StepOf(journal), StepOf(journal)'),
           Ages(ledger, ledger', Worn, Worn', hours, hours'),
           \A i \in Id : ledger[i] # None /\ tower[i] = None => ledger'[i] = ledger[i]
    PROVE  Knows(StepOf(journal)', ledger', Worn', hours') /\ Open' <= Open
<1> DEFINE s == StepOf(journal)
           z == StepOf(journal)'
           w == Worn
           v == Worn'
           h == hours'
<1>1. /\ ledger \in Ledgers /\ ledger' \in Ledgers /\ s \in Step /\ z \in Step
      /\ tower \in Towers /\ journal \in Journal
  <2>1. /\ journal \in Journal /\ journal' \in Journal /\ tower \in Towers /\ tower' \in Towers
        /\ ledger \in Ledgers /\ ledger' \in Ledgers
    BY DEF Inv, TypeOK, Ledgers, Towers
  <2> QED BY <2>1, StepIs, StepFromType
<1>2. StepSited(s, ledger)
  BY StepOfGood
<1>3. Knows(s, ledger, w, hours)
  BY DEF MoneyInv
<1>4. ASSUME NEW i \in Id, Does(s, i, "putBack") PROVE UsedOf(ledger'[i]) = UsedOf(ledger[i])
  <2>1. s.images[i] = ImageOf(journal.touched[i], tower[i])
    BY DEF StepOf
  <2>2. journal.touched[i] \in Touch /\ tower[i] \in Item \cup {None}
    BY <1>1, <1>4, <2>1 DEF Journal, Towers, ImageOf, Does
  <2>3. tower[i] = None
    BY <1>4, <2>1, <2>2, PutBackOf DEF Does
  <2>4. ledger[i] # None
    BY <1>2, <1>4 DEF StepSited, SitedIn, Named, Does
  <2> QED BY <2>3, <2>4
<1>5. Alike(s, z) /\ Ages(ledger, ledger', w, v, hours, h)
  OBVIOUS
<1>6. Open = Reserve(s, ledger, w, hours) /\ Open' = Reserve(z, ledger', v, h)
  BY DEF Open
<1> HIDE DEF s, z, w, v, h
<1>7. Knows(z, ledger', v, h) /\ Reserve(z, ledger', v, h) <= Reserve(s, ledger, w, hours)
  BY <1>1, <1>2, <1>3, <1>4, <1>5, StepAges
<1> QED BY <1>6, <1>7 DEF z, v, h

\* What time makes of a touched item changes its image only where the image is
\* of a room's facts.
LEMMA ImageAges ==
    ASSUME NEW seen \in Touch \cup {None}, NEW x \in Item \cup {None}, NEW y \in Item \cup {None},
           (x = None) = (y = None),
           seen # None /\ IsShaft(seen.item) /\ x # None => y = [x EXCEPT !.rides = y.rides]
    PROVE  \/ ImageOf(seen, y) = ImageOf(seen, x)
           \/ Plain(ImageOf(seen, x)) /\ Plain(ImageOf(seen, y))
<1>1. CASE seen = None \/ x = None
  BY <1>1 DEF ImageOf
<1>2. CASE seen # None /\ x # None /\ IsShaft(seen.item)
  <2>1. x \in Item /\ y \in Item /\ y = [x EXCEPT !.rides = y.rides] /\ y # None
    BY <1>2
  <2>2. y.cars = x.cars /\ y.rent = x.rent /\ y.name = x.name
    BY <2>1 DEF Item
  <2>3. \A n : [y EXCEPT !.rides = n] = [x EXCEPT !.rides = n]
    <3> DEFINE m == y.rides
    <3> HIDE DEF m
    <3>1. y = [x EXCEPT !.rides = m]
      BY <2>1 DEF m
    <3>2. \A n : [[x EXCEPT !.rides = m] EXCEPT !.rides = n] = [x EXCEPT !.rides = n]
      BY <2>1 DEF Item
    <3> QED BY <3>1, <3>2
  <2>4. SameConfig(seen.item, y) = SameConfig(seen.item, x)
    BY <2>2 DEF SameConfig
  <2>5. ShaftImage(seen, y) = ShaftImage(seen, x)
    BY <1>2, <2>1, <2>3, <2>4 DEF ShaftImage
  <2> QED BY <1>2, <2>5 DEF ImageOf
<1>3. CASE seen # None /\ x # None /\ ~IsShaft(seen.item)
  <2>1. ImageOf(seen, x) = UnitImage(seen, x) /\ ImageOf(seen, y) = UnitImage(seen, y) /\ y # None
    BY <1>3 DEF ImageOf
  <2>2. CASE seen.how = "was"
    <3>1. ASSUME NEW z, z # None PROVE Plain(UnitImage(seen, z))
      <4>1. \/ UnitImage(seen, z) = None
            \/ UnitImage(seen, z).do = "restore" /\ UnitImage(seen, z).want = seen.item
        BY <2>2, <3>1 DEF UnitImage
      <4> QED BY <1>3, <4>1 DEF Plain
    <3> QED BY <1>3, <2>1, <3>1
  <2>3. CASE seen.how # "was"
    BY <1>3, <2>1, <2>3 DEF UnitImage
  <2> QED BY <2>2, <2>3
<1> QED BY <1>1, <1>2, <1>3

\* Time makes nothing that was used free.
LEMMA AdvanceMoney ==
    ASSUME Inv, Inv', SoldInv, SoldInv', MoneyInv, Advance
    PROVE  MoneyInv'
<1>1. /\ Ages(ledger, ledger', Worn, Worn', hours, hours')
      /\ HandsKnow(ledger', Worn') /\ NotesKnow'
      /\ \A i \in Id : CostOf(tower'[i], ledger'[i]) = CostOf(tower[i], ledger[i])
  BY AdvanceAges
<1>2. /\ UNCHANGED <<journal, undo, redo>>
      /\ \A i \in Id : /\ (tower'[i] = None) = (tower[i] = None)
                       /\ tower[i] = None => ledger'[i] = ledger[i]
  BY AdvanceShape
<1>3. /\ ledger \in Ledgers /\ ledger' \in Ledgers /\ tower \in Towers /\ tower' \in Towers
      /\ journal \in Journal /\ hours \in Nat /\ hours' \in Nat
  BY NumberAssumption DEF Inv, TypeOK, Ledgers, Towers
<1>4. CostSum(tower', ledger') = CostSum(tower, ledger)
  <2>1. /\ [i \in Id |-> CostOf(tower'[i], ledger'[i])] \in Terms(MaxId)
        /\ [i \in Id |-> CostOf(tower[i], ledger[i])] \in Terms(MaxId)
    BY <1>3, CostTerms DEF Towers
  <2> QED BY <1>1, <2>1, SumSame, ItemFacts DEF CostSum, Id
<1>5. PICK flow \in Int : money' = money + flow /\ outside' = outside + flow
  <2>1. Flows \subseteq Int /\ 0 \in Int
    BY NumberAssumption
  <2> QED BY <2>1 DEF Advance
<1>6. ASSUME journal.open PROVE Alike(StepOf(journal), StepOf(journal)')
  <2>1. /\ StepOf(journal) = StepFrom(journal, tower, hours)
        /\ StepOf(journal)' = StepFrom(journal, tower', hours')
    BY <1>2, StepIs
  <2>2. ASSUME NEW i \in Id
        PROVE  \/ ImageOf(journal.touched[i], tower'[i]) = ImageOf(journal.touched[i], tower[i])
               \/ /\ Plain(ImageOf(journal.touched[i], tower[i]))
                  /\ Plain(ImageOf(journal.touched[i], tower'[i]))
    <3>1. journal.touched[i] \in Touch \cup {None}
      BY <1>3 DEF Journal
    <3>2. tower[i] \in Item \cup {None} /\ tower'[i] \in Item \cup {None}
      BY <1>3 DEF Towers
    <3>3. ASSUME journal.touched[i] # None, IsShaft(journal.touched[i].item), tower[i] # None
          PROVE  tower'[i] = [tower[i] EXCEPT !.rides = tower'[i].rides]
      <4>1. Kind[ledger[i].site] = "shaft"
        BY <3>3 DEF Inv, JournalSited, SitedIn, IsShaft, KindOf
      <4>2. TimeMoves(tower[i], tower'[i], ledger[i], ledger'[i], Kind[ledger[i].site],
                      UsedOf(ledger[i]), UsedOf(ledger'[i]), hours, hours')
        BY <3>3, AdvanceItem
      <4> QED BY <4>1, <4>2 DEF TimeMoves
    <3> QED BY <1>2, <3>1, <3>2, <3>3, ImageAges
  <2>3. journal.hour <= hours /\ journal.hour \in Nat /\ hours <= hours'
    <3>1. Knows(StepOf(journal), ledger, Worn, hours)
      BY <1>6 DEF MoneyInv
    <3>2. StepOf(journal).hour = journal.hour
      BY DEF StepOf
    <3> QED BY <1>1, <1>3, <3>1, <3>2, NumberAssumption DEF Knows, Ages, Journal
  <2>4. hours # journal.hour => hours' # journal.hour
    BY <1>3, <2>3
  <2> DEFINE s == StepFrom(journal, tower, hours)
             z == StepFrom(journal, tower', hours')
  <2>5. /\ s.money = -journal.cash /\ s.searched = journal.searched /\ s.hour = journal.hour
        /\ s.usedInGesture = (journal.usedThenTaken \/ (journal.tookOwn /\ hours # journal.hour))
        /\ \A i \in Id : s.images[i] = ImageOf(journal.touched[i], tower[i])
    BY <1>3, StepFromType
  <2>6. /\ z.money = -journal.cash /\ z.searched = journal.searched /\ z.hour = journal.hour
        /\ z.usedInGesture = (journal.usedThenTaken \/ (journal.tookOwn /\ hours' # journal.hour))
        /\ \A i \in Id : z.images[i] = ImageOf(journal.touched[i], tower'[i])
    BY <1>3, StepFromType
  <2> HIDE DEF s, z
  <2>7. Alike(s, z)
    BY <2>2, <2>4, <2>5, <2>6, Zenon DEF Alike
  <2> QED BY <2>1, <2>7 DEF s, z
<1>7. ASSUME journal.open
      PROVE  Knows(StepOf(journal)', ledger', Worn', hours') /\ Open' <= Open
  BY <1>1, <1>2, <1>6, <1>7, OpenAges
<1>8. CostSum(tower', ledger') + Open' <= CostSum(tower, ledger) + Open
  <2>1. Open \in Nat /\ Open' \in Nat /\ CostSum(tower, ledger) \in Int
    BY <1>3, OpenTypes, CostSumType
  <2>2. ~journal.open => Open' = 0 /\ Open = 0
    BY <1>2 DEF Open
  <2> QED BY <1>4, <1>7, <2>1, <2>2
<1>9. /\ money' = money + 0 + flow /\ 0 \in Int
      /\ 0 + CostSum(tower', ledger') + Open' <= CostSum(tower, ledger) + Open
  <2>1. /\ CostSum(tower', ledger') \in Int /\ Open' \in Nat /\ money \in Int
    BY <1>3, OpenTypes, CostSumType DEF Inv, TypeOK
  <2> QED BY <1>5, <1>8, <2>1
<1>10. \A i \in Id : ledger[i] # None /\ tower[i] = None => ledger'[i] = ledger[i]
  BY <1>2
<1> QED BY <1>1, <1>2, <1>5, <1>7, <1>9, <1>10, Moves

-----------------------------------------------------------------------------
(* Edits.                                                                  *)

(* What a step knows and spends, by its image of one item.                 *)
DropsAt(image) ==
    /\ image # None /\ image.do = "restore" /\ image.built /\ IsShaft(image.want)
    /\ image.want.cars < image.left.cars
SpentAt(image, u, worn, since, hr) ==
    \/ image # None /\ image.do = "takeOut" /\ image.built /\ u > 0
    \/ DropsAt(image) /\ (hr # since \/ \A y \in worn : y[3] # image.left.rides)
KnownAt(image, u, worn, since, hr) ==
    /\ image # None /\ image.do = "takeOut" /\ image.built =>
          TakeKnows(KindOf(image.want), image.left, u, worn, since, hr)
    /\ image # None /\ image.do = "putBack" /\ image.built =>
          u = 0 /\ (IsRoom(image.want) => Unopened(WearOf(image.want)))
    /\ DropsAt(image) => \A y \in worn : y[3] >= image.left.rides

LEMMA KnowsAt ==
    ASSUME NEW step, NEW led, NEW w, NEW hr
    PROVE  /\ Knows(step, led, w, hr) <=>
                /\ step.hour <= hr
                /\ ~step.searched /\ ~step.usedInGesture =>
                      \A i \in Id : KnownAt(step.images[i], UsedOf(led[i]), w[i], step.hour, hr)
           /\ Spent(step, led, w, hr) <=>
                \/ step.searched \/ step.usedInGesture
                \/ \E i \in Id : SpentAt(step.images[i], UsedOf(led[i]), w[i], step.hour, hr)
<1>1. ASSUME NEW i \in Id
      PROVE  /\ DropsCars(step, i) = DropsAt(step.images[i])
             /\ TakesBuilt(step, i) = (/\ step.images[i] # None /\ step.images[i].do = "takeOut"
                                       /\ step.images[i].built)
  <2>1. DropsCars(step, i) <=> DropsAt(step.images[i])
    BY DEF DropsCars, DropsAt, Does, OfShaft, TakesCars, Want, Left
  <2>2. TakesBuilt(step, i) <=> /\ step.images[i] # None /\ step.images[i].do = "takeOut"
                                /\ step.images[i].built
    BY DEF TakesBuilt, Does
  <2> QED BY <2>1, <2>2 DEF DropsCars, DropsAt, TakesBuilt, Does
<1>2. \A i \in Id : Left(step, i) = step.images[i].left /\ Want(step, i) = step.images[i].want
  BY DEF Left, Want
<1>3. ASSUME NEW i \in Id
      PROVE  /\ KnownAt(step.images[i], UsedOf(led[i]), w[i], step.hour, hr) <=>
                   /\ TakesBuilt(step, i) =>
                        TakeKnows(KindOf(Want(step, i)), Left(step, i), UsedOf(led[i]),
                                  w[i], step.hour, hr)
                   /\ Does(step, i, "putBack") /\ step.images[i].built =>
                        /\ UsedOf(led[i]) = 0
                        /\ IsRoom(Want(step, i)) => Unopened(WearOf(Want(step, i)))
                   /\ DropsCars(step, i) => \A y \in w[i] : y[3] >= Left(step, i).rides
             /\ SpentAt(step.images[i], UsedOf(led[i]), w[i], step.hour, hr) <=>
                   \/ TakesBuilt(step, i) /\ UsedOf(led[i]) > 0
                   \/ /\ DropsCars(step, i)
                      /\ hr # step.hour \/ \A y \in w[i] : y[3] # Left(step, i).rides
  BY <1>1, <1>2, Zenon DEF KnownAt, SpentAt, Does
<1>4. Knows(step, led, w, hr) <=>
        /\ step.hour <= hr
        /\ ~step.searched /\ ~step.usedInGesture =>
              \A i \in Id : KnownAt(step.images[i], UsedOf(led[i]), w[i], step.hour, hr)
  BY <1>3, Zenon DEF Knows
<1>5. Spent(step, led, w, hr) <=>
        \/ step.searched \/ step.usedInGesture
        \/ \E i \in Id : SpentAt(step.images[i], UsedOf(led[i]), w[i], step.hour, hr)
  BY <1>3, Zenon DEF Spent
<1> QED BY <1>4, <1>5

\* What the journal notes of an item an edit changes.
LEMMA NotedEdit ==
    ASSUME NEW j \in Journal, j.open, NEW i \in Id, NEW x \in Item,
           NEW n, n = NoteEdit(j, i, x), NEW seen, seen = j.touched[i]
    PROVE  /\ n \in Journal /\ n.open /\ n.cash = j.cash /\ n.searched = j.searched
           /\ n.hour = j.hour /\ (j.tookOwn => n.tookOwn)
           /\ (j.usedThenTaken => n.usedThenTaken)
           /\ \A k \in Id : k # i => n.touched[k] = j.touched[k]
           /\ seen = None => n.touched[i] = [how |-> "was", item |-> x]
           /\ seen # None => n.touched[i] = seen
           /\ seen # None /\ IsShaft(x) /\ seen.how = "was" /\ seen.item.cars < x.cars =>
                 n.tookOwn /\ (x.rides # seen.item.rides => n.usedThenTaken)
<1>1. n \in Journal
  BY NoteEditType
<1>2. CASE seen = None
  <2>1. n = [j EXCEPT !.touched[i] = [how |-> "was", item |-> x]]
    BY <1>2 DEF NoteEdit
  <2> QED BY <1>1, <1>2, <2>1 DEF Journal
<1>3. CASE seen # None /\ IsShaft(x) /\ seen.how = "was"
  <2>1. n = NoteBought(j, seen.item, x)
    BY <1>3 DEF NoteEdit
  <2>2. CASE seen.item.cars < x.cars
    <3>1. n = [j EXCEPT !.tookOwn = TRUE,
                        !.usedThenTaken = @ \/ x.rides # seen.item.rides]
      BY <2>1, <2>2 DEF NoteBought, TakesCars
    <3> QED BY <1>1, <1>3, <3>1 DEF Journal
  <2>3. CASE ~(seen.item.cars < x.cars)
    <3>1. n = j
      BY <2>1, <2>3 DEF NoteBought, TakesCars
    <3> QED BY <1>1, <1>3, <2>3, <3>1
  <2> QED BY <2>2, <2>3
<1>4. CASE seen # None /\ ~(IsShaft(x) /\ seen.how = "was")
  <2>1. n = j
    BY <1>4 DEF NoteEdit
  <2> QED BY <1>1, <1>4, <2>1
<1> QED BY <1>2, <1>3, <1>4

\* What it notes of an item that is sold.
LEMMA NotedOut ==
    ASSUME NEW j \in Journal, j.open, NEW i \in Id, NEW x \in Item,
           NEW n, n = NoteOut(j, i, x), NEW seen, seen = j.touched[i],
           NEW then, then = n.touched[i]
    PROVE  /\ n \in Journal /\ n.open /\ n.cash = j.cash /\ n.searched = j.searched
           /\ n.hour = j.hour /\ (j.tookOwn => n.tookOwn)
           /\ (j.usedThenTaken => n.usedThenTaken)
           /\ \A k \in Id : k # i => n.touched[k] = j.touched[k]
           /\ seen = None => then = [how |-> "was", item |-> x]
           /\ seen # None /\ seen.how = "was" =>
                 /\ then = [how |-> "was", item |-> Leaving(x, seen.item)]
                 /\ IsShaft(x) /\ seen.item.cars < x.cars =>
                       n.tookOwn /\ (x.rides # seen.item.rides => n.usedThenTaken)
           /\ seen # None /\ seen.how = "added" /\ IsShaft(x) =>
                 then = seen /\ n.tookOwn /\ (x.rides > 0 => n.usedThenTaken)
           /\ seen # None /\ seen.how = "added" /\ ~IsShaft(x) =>
                 /\ then = IF UseOf(x) = UseOf(seen.item) THEN seen
                           ELSE [how |-> "addedAndUsed", item |-> x]
                 /\ IsFloor(x) => n.tookOwn
<1>1. n \in Journal
  BY NoteOutType
<1>2. CASE seen = None
  <2>1. n = [j EXCEPT !.touched[i] = [how |-> "was", item |-> x]]
    BY <1>2 DEF NoteOut
  <2> QED BY <1>1, <1>2, <2>1 DEF Journal
<1> SUFFICES ASSUME seen # None
             PROVE  /\ n.open /\ n.cash = j.cash /\ n.searched = j.searched
                    /\ n.hour = j.hour /\ (j.tookOwn => n.tookOwn)
                    /\ (j.usedThenTaken => n.usedThenTaken)
                    /\ \A k \in Id : k # i => n.touched[k] = j.touched[k]
                    /\ seen.how = "was" =>
                         /\ then = [how |-> "was", item |-> Leaving(x, seen.item)]
                         /\ IsShaft(x) /\ seen.item.cars < x.cars =>
                               n.tookOwn /\ (x.rides # seen.item.rides => n.usedThenTaken)
                    /\ seen.how = "added" /\ IsShaft(x) =>
                          then = seen /\ n.tookOwn /\ (x.rides > 0 => n.usedThenTaken)
                    /\ seen.how = "added" /\ ~IsShaft(x) =>
                         /\ then = IF UseOf(x) = UseOf(seen.item) THEN seen
                                   ELSE [how |-> "addedAndUsed", item |-> x]
                         /\ IsFloor(x) => n.tookOwn
  BY <1>1, <1>2
<1>3. seen \in Touch /\ seen.how \in {"was", "added", "addedAndUsed"} /\ seen.item \in Item
  BY DEF Journal, Touch
<1>4. CASE seen.how = "was"
  <2> DEFINE m == IF IsShaft(x) THEN NoteBought(j, seen.item, x) ELSE j
  <2>1. n = [m EXCEPT !.touched[i].item = Leaving(x, seen.item)]
    BY <1>4 DEF NoteOut
  <2>2. /\ m \in Journal /\ m.touched = j.touched
        /\ m.open /\ m.cash = j.cash /\ m.searched = j.searched
        /\ m.hour = j.hour /\ (j.tookOwn => m.tookOwn)
        /\ (j.usedThenTaken => m.usedThenTaken)
        /\ IsShaft(x) /\ seen.item.cars < x.cars =>
                m.tookOwn /\ (x.rides # seen.item.rides => m.usedThenTaken)
    <3>1. CASE IsShaft(x) /\ seen.item.cars < x.cars
      <4>1. m = [j EXCEPT !.tookOwn = TRUE,
                          !.usedThenTaken = @ \/ x.rides # seen.item.rides]
        BY <3>1 DEF NoteBought, TakesCars
      <4>2. m \in Journal
        BY NoteBoughtType
      <4> HIDE DEF m
      <4> QED BY <3>1, <4>1, <4>2 DEF Journal
    <3>2. CASE ~(IsShaft(x) /\ seen.item.cars < x.cars)
      <4>1. m = j
        BY <3>2 DEF NoteBought, TakesCars
      <4> HIDE DEF m
      <4> QED BY <3>2, <4>1
    <3> QED BY <3>1, <3>2
  <2> HIDE DEF m
  <2>3. n.touched[i] = [seen EXCEPT !.item = Leaving(x, seen.item)]
    BY <2>1, <2>2 DEF Journal
  <2>4. [seen EXCEPT !.item = Leaving(x, seen.item)]
          = [how |-> "was", item |-> Leaving(x, seen.item)]
    BY <1>3, <1>4 DEF Touch
  <2>5. /\ n.open = m.open /\ n.cash = m.cash /\ n.searched = m.searched /\ n.hour = m.hour
        /\ n.tookOwn = m.tookOwn /\ n.usedThenTaken = m.usedThenTaken
        /\ \A k \in Id : k # i => n.touched[k] = m.touched[k]
    BY <2>1, <2>2 DEF Journal
  <2> QED BY <1>4, <2>2, <2>3, <2>4, <2>5
<1>5. CASE seen.how = "added" /\ IsShaft(x)
  <2>1. n = [j EXCEPT !.tookOwn = TRUE, !.usedThenTaken = @ \/ x.rides > 0]
    BY <1>5 DEF NoteOut
  <2> QED BY <1>5, <2>1 DEF Journal
<1>6. CASE seen.how = "added" /\ ~IsShaft(x)
  <2>1. n = [j EXCEPT !.touched[i] = IF UseOf(x) = UseOf(@.item) THEN @
                                     ELSE [how |-> "addedAndUsed", item |-> x],
                      !.tookOwn = @ \/ IsFloor(x)]
    BY <1>6 DEF NoteOut
  <2> QED BY <1>6, <2>1 DEF Journal
<1>7. CASE seen.how = "addedAndUsed"
  <2>1. n = j
    BY <1>7 DEF NoteOut
  <2> QED BY <1>7, <2>1
<1> QED BY <1>3, <1>4, <1>5, <1>6, <1>7

\* An image made.
Made(image, do, want, left, built) ==
    /\ image \in Image /\ image # None
    /\ image.do = do /\ image.want = want /\ image.left = left /\ image.built = built
LEMMA MadeImage ==
    ASSUME NEW want \in Item, NEW left \in Item, NEW image
    PROVE  /\ image = [do |-> "takeOut", want |-> want, left |-> left, built |-> TRUE] =>
                Made(image, "takeOut", want, left, TRUE)
           /\ image = [do |-> "restore", want |-> want, left |-> left, built |-> TRUE] =>
                Made(image, "restore", want, left, TRUE)
           /\ image = [do |-> "restore", want |-> want, left |-> left, built |-> FALSE] =>
                Made(image, "restore", want, left, FALSE)
           /\ image = [do |-> "putBack", want |-> want, left |-> left, built |-> FALSE] =>
                Made(image, "putBack", want, left, FALSE)
<1>1. ASSUME image = [do |-> "takeOut", want |-> want, left |-> left, built |-> TRUE]
      PROVE  Made(image, "takeOut", want, left, TRUE)
  <2>1. image \in Image
    BY <1>1 DEF Image
  <2> QED BY <1>1, <2>1, FactAssumption DEF Made
<1>2. ASSUME image = [do |-> "restore", want |-> want, left |-> left, built |-> TRUE]
      PROVE  Made(image, "restore", want, left, TRUE)
  <2>1. image \in Image
    BY <1>2 DEF Image
  <2> QED BY <1>2, <2>1, FactAssumption DEF Made
<1>3. ASSUME image = [do |-> "restore", want |-> want, left |-> left, built |-> FALSE]
      PROVE  Made(image, "restore", want, left, FALSE)
  <2>1. image \in Image
    BY <1>3 DEF Image
  <2> QED BY <1>3, <2>1, FactAssumption DEF Made
<1>4. ASSUME image = [do |-> "putBack", want |-> want, left |-> left, built |-> FALSE]
      PROVE  Made(image, "putBack", want, left, FALSE)
  <2>1. image \in Image
    BY <1>4 DEF Image
  <2> QED BY <1>4, <2>1, FactAssumption DEF Made
<1> QED BY <1>1, <1>2, <1>3, <1>4

\* What the images of the open gesture allow for, spend and know: of nothing
\* touched, of a shaft that was found or added, of a unit, and of what is gone.
LEMMA NoImage ==
    ASSUME NEW u, NEW worn, NEW since, NEW hr
    PROVE  /\ BillOf(None, u) = 0 /\ GainOf(None, u) = 0
           /\ ~SpentAt(None, u, worn, since, hr) /\ KnownAt(None, u, worn, since, hr)
  BY DEF BillOf, GainOf, SpentAt, KnownAt, DropsAt

LEMMA ShaftFound ==
    ASSUME NEW seen \in Touch, seen.how = "was", IsShaft(seen.item), NEW x \in Item,
           NEW u \in Nat, NEW worn, NEW since, NEW hr,
           NEW image, image = ImageOf(seen, x),
           NEW f, f = seen.item.cars, NEW c, c = x.cars
    PROVE  /\ BillOf(image, u) = Stand("shaft", f, u) - Stand("shaft", c, u)
           /\ c < f => GainOf(image, u) = Stand("shaft", f, u) - Stand("shaft", c, u)
                                          - (Back("shaft", f) - Back("shaft", c))
           /\ f <= c => GainOf(image, u) = 0
           /\ SpentAt(image, u, worn, since, hr) <=>
                 f < c /\ (hr # since \/ \A y \in worn : y[3] # seen.item.rides)
           /\ KnownAt(image, u, worn, since, hr) <=>
                 (f < c => \A y \in worn : y[3] >= seen.item.rides)
<1>1. /\ seen.item \in Item /\ f \in Nat /\ c \in Nat /\ x # None /\ seen # None
      /\ image \in Image \cup {None} /\ seen.item.rides \in Nat
  BY ItemFacts, ImageOfType, FactAssumption DEF Touch
<1>2. Stand("shaft", f, u) \in Nat /\ Stand("shaft", c, u) \in Nat /\ "shaft" \in Kinds
  BY <1>1, CostTypes DEF Kinds
<1>3. CASE SameConfig(seen.item, x)
  <2>1. image = None
    BY <1>1, <1>3 DEF ImageOf, ShaftImage
  <2>2. f = c
    BY <1>3 DEF SameConfig
  <2> QED BY <1>1, <1>2, <2>1, <2>2, NoImage
<1>4. CASE ~SameConfig(seen.item, x)
  <2>1. image = [do |-> "restore", want |-> seen.item,
                 left |-> [x EXCEPT !.rides = seen.item.rides], built |-> TRUE]
    BY <1>1, <1>4 DEF ImageOf, ShaftImage
  <2> DEFINE left == [x EXCEPT !.rides = seen.item.rides]
  <2>2. left \in Item /\ left.cars = c /\ left.rides = seen.item.rides
    BY <1>1 DEF Item
  <2>3. image = [do |-> "restore", want |-> seen.item, left |-> left, built |-> TRUE]
    BY <2>1
  <2> HIDE DEF left
  <2>4. /\ image.do = "restore" /\ image.want = seen.item /\ image.left.cars = c
        /\ image.left.rides = seen.item.rides /\ image.built
        /\ image \in Image /\ image # None
    <3>1. Made(image, "restore", seen.item, left, TRUE)
      BY <1>1, <2>2, <2>3, MadeImage
    <3> QED BY <2>2, <3>1 DEF Made
  <2>5. KindOf(image.want) = "shaft"
    BY <2>4 DEF IsShaft
  <2>6. DropsAt(image) <=> f < c
    BY <2>4 DEF DropsAt
  <2>7. /\ BillOf(image, u) = Stand("shaft", f, u) - Stand("shaft", c, u)
        /\ c < f => GainOf(image, u) = Stand("shaft", f, u) - Stand("shaft", c, u)
                                          - (Back("shaft", f) - Back("shaft", c))
        /\ f <= c => GainOf(image, u) = 0
    BY <1>1, <2>4, <2>5, BillCases
  <2>8. SpentAt(image, u, worn, since, hr) <=>
                 f < c /\ (hr # since \/ \A y \in worn : y[3] # seen.item.rides)
    BY <2>4, <2>6 DEF SpentAt
  <2>9. KnownAt(image, u, worn, since, hr) <=>
                 (f < c => \A y \in worn : y[3] >= seen.item.rides)
    BY <2>4, <2>6 DEF KnownAt
  <2> QED BY <2>7, <2>8, <2>9
<1> QED BY <1>3, <1>4

LEMMA ShaftAdded ==
    ASSUME NEW seen \in Touch, seen.how = "added", IsShaft(seen.item), NEW x \in Item,
           NEW u \in Nat, NEW worn, NEW since, NEW hr,
           NEW image, image = ImageOf(seen, x)
    PROVE  /\ BillOf(image, u) = -Stand("shaft", x.cars, 0) /\ GainOf(image, u) = 0
           /\ SpentAt(image, u, worn, since, hr) <=> u > 0
           /\ KnownAt(image, u, worn, since, hr) <=>
                 /\ \A y \in worn : y[3] >= 0
                 /\ u > 0 => since < hr \/ \A y \in worn : y[3] > 0
<1>1. /\ seen.item \in Item /\ x # None /\ seen # None /\ x.cars \in Nat
  BY ItemFacts, FactAssumption DEF Touch
<1>2. image = [do |-> "takeOut", want |-> seen.item,
               left |-> [x EXCEPT !.rides = 0], built |-> TRUE]
  BY <1>1 DEF ImageOf, ShaftImage
<1> DEFINE left == [x EXCEPT !.rides = 0]
<1>3. left \in Item /\ left.cars = x.cars /\ left.rides = 0
  BY NumberAssumption DEF Item
<1>4. image = [do |-> "takeOut", want |-> seen.item, left |-> left, built |-> TRUE]
  BY <1>2
<1> HIDE DEF left
<1>5. /\ image.do = "takeOut" /\ image.want = seen.item /\ image.left.cars = x.cars
      /\ image.left.rides = 0 /\ image.built
      /\ image \in Image /\ image # None
  <2>1. Made(image, "takeOut", seen.item, left, TRUE)
    BY <1>1, <1>3, <1>4, MadeImage
  <2> QED BY <1>3, <2>1 DEF Made
<1>6. KindOf(image.want) = "shaft"
  BY <1>5 DEF IsShaft
<1>7. BillOf(image, u) = -Stand("shaft", x.cars, 0) /\ GainOf(image, u) = 0
  BY <1>1, <1>5, <1>6, BillCases
<1>8. SpentAt(image, u, worn, since, hr) <=> u > 0
  BY <1>5 DEF SpentAt, DropsAt
<1>9. KnownAt(image, u, worn, since, hr) <=>
        TakeKnows("shaft", image.left, u, worn, since, hr)
  BY <1>5, <1>6 DEF KnownAt, DropsAt
<1>10. TakeKnows("shaft", image.left, u, worn, since, hr) <=>
                 /\ \A y \in worn : y[3] >= 0
                 /\ u > 0 => since < hr \/ \A y \in worn : y[3] > 0
  BY <1>5 DEF TakeKnows
<1> QED BY <1>7, <1>8, <1>9, <1>10

LEMMA UnitFound ==
    ASSUME NEW seen \in Touch, seen.how = "was", ~IsShaft(seen.item), NEW x \in Item,
           NEW u \in Nat, NEW worn, NEW since, NEW hr,
           NEW image, image = ImageOf(seen, x)
    PROVE  /\ BillOf(image, u) = 0 /\ GainOf(image, u) = 0
           /\ ~SpentAt(image, u, worn, since, hr) /\ KnownAt(image, u, worn, since, hr)
<1>1. /\ seen.item \in Item /\ x # None /\ seen # None
  BY ItemFacts, FactAssumption DEF Touch
<1>2. CASE SameConfig(seen.item, x)
  <2>1. image = None
    BY <1>1, <1>2 DEF ImageOf, UnitImage
  <2> QED BY <2>1, NoImage
<1>3. CASE ~SameConfig(seen.item, x)
  <2>1. image = [do |-> "restore", want |-> seen.item, left |-> x, built |-> FALSE]
    BY <1>1, <1>3 DEF ImageOf, UnitImage
  <2>2. /\ image.do = "restore" /\ image.want = seen.item /\ ~image.built
    BY <2>1
  <2>3. image \in Image /\ image # None
    <3>1. Made(image, "restore", seen.item, x, FALSE)
      BY <1>1, <2>1, MadeImage
    <3> QED BY <3>1 DEF Made
  <2>4. BillOf(image, u) = 0 /\ GainOf(image, u) = 0
    BY <2>2, <2>3, UseBills
  <2>5. ~SpentAt(image, u, worn, since, hr) /\ KnownAt(image, u, worn, since, hr)
    BY <2>2 DEF SpentAt, KnownAt, DropsAt
  <2> QED BY <2>4, <2>5
<1> QED BY <1>2, <1>3

LEMMA UnitAdded ==
    ASSUME NEW seen \in Touch, seen.how # "was", ~IsShaft(seen.item),
           NEW x \in Item \cup {None}, x = None => seen.how # "added",
           NEW u \in Nat, NEW worn, NEW since, NEW hr,
           NEW image, image = ImageOf(seen, x), NEW k, k = KindOf(seen.item)
    PROVE  /\ BillOf(image, u) = -Price[k] /\ GainOf(image, u) = 0
           /\ SpentAt(image, u, worn, since, hr) <=> u > 0
           /\ KnownAt(image, u, worn, since, hr) <=>
                 TakeKnows(k, seen.item, u, worn, since, hr)
<1>1. seen.item \in Item /\ seen # None /\ k \in Kinds /\ k # "shaft" /\ seen.item.cars \in Nat
  BY ItemFacts, FactAssumption DEF Touch, IsShaft
<1>2. image = [do |-> "takeOut", want |-> seen.item, left |-> seen.item, built |-> TRUE]
  BY <1>1 DEF ImageOf, UnitImage
<1>3. /\ image.do = "takeOut" /\ image.want = seen.item /\ image.left = seen.item /\ image.built
  BY <1>2
<1>4. image \in Image /\ image # None
  <2>1. Made(image, "takeOut", seen.item, seen.item, TRUE)
    BY <1>1, <1>2, MadeImage
  <2> QED BY <2>1 DEF Made
<1>5. Stand(k, seen.item.cars, 0) = Price[k]
  BY <1>1, UnitCost
<1>6. BillOf(image, u) = -Stand(k, seen.item.cars, 0) /\ GainOf(image, u) = 0
  BY <1>3, <1>4, BillCases
<1>7. SpentAt(image, u, worn, since, hr) <=> u > 0
  BY <1>3, <1>4 DEF SpentAt, DropsAt
<1>8. KnownAt(image, u, worn, since, hr) <=>
        TakeKnows(k, seen.item, u, worn, since, hr)
  BY <1>3, <1>4 DEF KnownAt, DropsAt
<1> QED BY <1>5, <1>6, <1>7, <1>8

LEMMA FoundGone ==
    ASSUME NEW seen \in Touch, seen.how = "was", NEW u \in Nat, NEW worn, NEW since, NEW hr,
           NEW image, image = ImageOf(seen, None), NEW k, k = KindOf(seen.item),
           NEW f, f = seen.item.cars
    PROVE  /\ BillOf(image, u) = Stand(k, f, u) - Gone(k, u)
           /\ GainOf(image, u) = Stand(k, f, u) - Gone(k, u) - Back(k, f)
           /\ ~SpentAt(image, u, worn, since, hr) /\ KnownAt(image, u, worn, since, hr)
<1>1. seen.item \in Item /\ seen # None
  BY FactAssumption DEF Touch
<1>2. image = [do |-> "putBack", want |-> seen.item, left |-> seen.item, built |-> FALSE]
  <2>1. CASE IsShaft(seen.item)
    BY <1>1, <2>1 DEF ImageOf, ShaftImage
  <2>2. CASE ~IsShaft(seen.item)
    BY <1>1, <2>2 DEF ImageOf, UnitImage
  <2> QED BY <2>1, <2>2
<1>3. /\ image.do = "putBack" /\ image.want = seen.item /\ ~image.built
  BY <1>2
<1>4. image \in Image /\ image # None
  <2>1. Made(image, "putBack", seen.item, seen.item, FALSE)
    BY <1>1, <1>2, MadeImage
  <2> QED BY <2>1 DEF Made
<1>5. /\ BillOf(image, u) = Stand(k, f, u) - Gone(k, u)
      /\ GainOf(image, u) = Stand(k, f, u) - Gone(k, u) - Back(k, f)
  BY <1>3, <1>4, BillCases
<1>6. ~SpentAt(image, u, worn, since, hr) /\ KnownAt(image, u, worn, since, hr)
  BY <1>3 DEF SpentAt, KnownAt, DropsAt
<1> QED BY <1>5, <1>6

\* What an edit leaves of a gesture's image of the item it changes, from x to y:
\* what was spent is, what is known is, and what it pays the image allows for.
Pays(a, b, x, y, e, amount, w, v, since, hr) ==
    LET u == UsedOf(e) IN
    /\ SpentAt(a, u, w, since, hr) => SpentAt(b, u, v, since, hr)
    /\ ~SpentAt(b, u, v, since, hr) =>
          /\ BillOf(b, u) + CostOf(y, e) <= BillOf(a, u) + CostOf(x, e)
          /\ GainOf(b, u) + amount + CostOf(y, e) <= GainOf(a, u) + CostOf(x, e)
    /\ KnownAt(b, u, v, since, hr)

\* A car bought or sold.
CarMoved(x, y, amount) ==
    /\ x \in Item /\ y \in Item /\ y.site = x.site /\ WearOf(y) = WearOf(x)
    /\ y.rent = x.rent /\ y.name = x.name /\ amount \in Int
    /\ \/ y.cars = x.cars + 1 /\ amount = -CarPrice
       \/ x.cars = y.cars + 1 /\ y.cars > 0 /\ amount = CarRefund

LEMMA CarCost ==
    ASSUME NEW x, NEW y, NEW amount, CarMoved(x, y, amount), IsShaft(x),
           NEW e \in Entry, x.site = e.site, NEW u, u = UsedOf(e)
    PROVE  /\ u \in Nat /\ x.cars \in Nat /\ y.cars \in Nat
           /\ CostOf(x, e) = Stand("shaft", x.cars, u)
           /\ CostOf(y, e) = Stand("shaft", y.cars, u)
           /\ amount + Stand("shaft", y.cars, u) <= Stand("shaft", x.cars, u)
           /\ x.cars < y.cars =>
                 Back("shaft", y.cars) + amount <= Back("shaft", x.cars)
           /\ y.cars < x.cars =>
                 /\ x.cars = y.cars + 1
                 /\ Back("shaft", x.cars) = Back("shaft", y.cars) + amount
<1>1. /\ x \in Item /\ y \in Item /\ y.site = x.site /\ x.cars \in Nat /\ y.cars \in Nat
      /\ x # None /\ y # None /\ e # None /\ e.used \in Nat /\ u = e.used
  BY ItemFacts DEF CarMoved, UsedOf
<1>2. Kind[e.site] = "shaft" /\ "shaft" \in Kinds
  BY DEF IsShaft, KindOf, Kinds
<1>3. /\ CostOf(x, e) = Stand("shaft", x.cars, u)
      /\ CostOf(y, e) = Stand("shaft", y.cars, u)
  BY <1>1, <1>2 DEF CostOf
<1> DEFINE a == x.cars
           b == y.cars
           sa == Stand("shaft", a, u)
           sb == Stand("shaft", b, u)
           ba == Back("shaft", a)
           bb == Back("shaft", b)
<1>4. sa \in Nat /\ sb \in Nat /\ ba \in Nat /\ bb \in Nat /\ u \in Nat
  BY <1>1, <1>2, CostTypes
<1>5. CarPrice \in Nat /\ CarRefund \in Nat
  BY Halves
<1>6. CASE b = a + 1 /\ amount = -CarPrice
  <2>1. sb - sa <= CarPrice /\ bb - ba <= sb - sa
    BY <1>1, <1>2, <1>6, MoreCars
  <2> HIDE DEF a, b, sa, sb, ba, bb
  <2>2. amount + sb <= sa /\ bb + amount <= ba /\ ~(b < a)
    BY <1>1, <1>4, <1>5, <1>6, <2>1 DEF a
  <2> QED BY <1>1, <1>3, <1>4, <2>2 DEF a, b, sa, sb, ba, bb
<1>7. CASE a = b + 1 /\ b > 0 /\ amount = CarRefund
  <2>1. ba - bb <= sa - sb /\ ba - bb = CarRefund
    BY <1>1, <1>2, <1>7, MoreCars
  <2> HIDE DEF a, b, sa, sb, ba, bb
  <2>2. amount + sb <= sa /\ ba = bb + amount /\ ~(a < b)
    BY <1>1, <1>4, <1>5, <1>7, <2>1 DEF b
  <2> QED BY <1>1, <1>3, <1>4, <1>7, <2>2 DEF a, b, sa, sb, ba, bb
<1> QED BY <1>6, <1>7 DEF CarMoved

LEMMA CarPays ==
    ASSUME NEW x, NEW y, NEW amount, CarMoved(x, y, amount), IsShaft(x),
           NEW e \in Entry, x.site = e.site,
           NEW seen \in Touch \cup {None}, NEW then \in Touch,
           seen # None => seen.item.site = e.site /\ NoteKnows(seen, x, e) /\ then = seen,
           seen = None => then = [how |-> "was", item |-> x],
           NEW since, NEW hr,
           seen # None /\ seen.how = "was" /\ seen.item.cars < x.cars =>
              hr = since /\ x.rides = seen.item.rides,
           KnownAt(ImageOf(seen, x), UsedOf(e), {WearOf(x)}, since, hr)
    PROVE  Pays(ImageOf(seen, x), ImageOf(then, y), x, y, e, amount,
                {WearOf(x)}, {WearOf(x)}, since, hr)
<1> DEFINE u == UsedOf(e)
           c == x.cars
           d == y.cars
           sc == Stand("shaft", c, u)
           sd == Stand("shaft", d, u)
           bc == Back("shaft", c)
           bd == Back("shaft", d)
           w == {WearOf(x)}
           p == ImageOf(seen, x)
           q == ImageOf(then, y)
<1>1. /\ u \in Nat /\ c \in Nat /\ d \in Nat
      /\ CostOf(x, e) = sc /\ CostOf(y, e) = sd
      /\ amount + sd <= sc /\ (c < d => bd + amount <= bc)
      /\ d < c => c = d + 1 /\ bc = bd + amount
      /\ x \in Item /\ y \in Item /\ amount \in Int /\ c # d
  <2>1. x.cars # y.cars /\ x \in Item /\ y \in Item /\ amount \in Int
        /\ x.cars \in Nat /\ y.cars \in Nat
    BY ItemFacts DEF CarMoved
  <2> QED BY <2>1, CarCost
<1>2. sc \in Nat /\ sd \in Nat /\ bc \in Nat /\ bd \in Nat /\ "shaft" \in Kinds
  BY <1>1, CostTypes DEF Kinds
<1>3. \A z \in w : z[3] = x.rides
  BY DEF WearOf
<1>4. CASE seen # None /\ seen.how = "was"
  <2> DEFINE f == seen.item.cars
             sf == Stand("shaft", f, u)
             bf == Back("shaft", f)
  <2>1. /\ seen \in Touch /\ seen.item \in Item /\ then = seen /\ f \in Nat
        /\ seen.item.rides \in Nat /\ x.rides \in Nat
    BY <1>1, <1>4, ItemFacts DEF Touch
  <2>2. sf \in Nat /\ bf \in Nat
    BY <1>1, <1>2, <2>1, CostTypes
  <2>3. IsShaft(seen.item) /\ seen.item.rides <= x.rides
    BY <1>1, <1>4, ItemFacts DEF IsShaft, KindOf, NoteKnows
  <2>4. /\ BillOf(p, u) = sf - sc
        /\ c < f => GainOf(p, u) = sf - sc - (bf - bc)
        /\ f <= c => GainOf(p, u) = 0
        /\ SpentAt(p, u, w, since, hr) <=>
              f < c /\ (hr # since \/ \A z \in w : z[3] # seen.item.rides)
    BY <1>1, <1>4, <2>1, <2>3, ShaftFound
  <2>5. /\ BillOf(q, u) = sf - sd
        /\ d < f => GainOf(q, u) = sf - sd - (bf - bd)
        /\ f <= d => GainOf(q, u) = 0
        /\ KnownAt(q, u, w, since, hr) <=>
              (f < d => \A z \in w : z[3] >= seen.item.rides)
    <3>1. q = ImageOf(seen, y)
      BY <2>1
    <3> HIDE DEF q
    <3> QED BY <1>1, <1>4, <2>1, <2>3, <3>1, ShaftFound
  <2>6. ~SpentAt(p, u, w, since, hr)
    <3>1. WearOf(x) \in w
      OBVIOUS
    <3> QED BY <1>3, <1>4, <2>4, <3>1
  <2>7. KnownAt(q, u, w, since, hr)
    BY <1>3, <2>1, <2>3, <2>5
  <2>8. BillOf(q, u) + sd <= BillOf(p, u) + sc
        /\ GainOf(q, u) + amount + sd <= GainOf(p, u) + sc
    <3>1. c < d /\ c < f => d <= f
      BY <1>1, <2>1 DEF CarMoved
    <3>2. bf = bd \/ d < f \/ f < d
      BY <1>1, <2>1
    <3>3. f = d => sf = sd
      OBVIOUS
    <3>4. f = c => sf = sc /\ bf = bc
      OBVIOUS
    <3> DEFINE gp == GainOf(p, u)
               gq == GainOf(q, u)
               bp == BillOf(p, u)
               bq == BillOf(q, u)
    <3>5. /\ bp = sf - sc /\ bq = sf - sd
          /\ c < f => gp = sf - sc - (bf - bc)
          /\ f <= c => gp = 0
          /\ d < f => gq = sf - sd - (bf - bd)
          /\ f <= d => gq = 0
      BY <2>4, <2>5
    <3>6. c \in Nat /\ d \in Nat /\ f \in Nat /\ sc \in Nat /\ sd \in Nat /\ sf \in Nat
          /\ bc \in Nat /\ bd \in Nat /\ bf \in Nat
      BY <1>1, <1>2, <2>1, <2>2
    <3>7. /\ amount \in Int /\ c # d
          /\ amount + sd <= sc /\ (c < d => bd + amount <= bc)
          /\ d < c => c = d + 1 /\ bc = bd + amount
      BY <1>1
    <3>8. f = d => bf = bd
      OBVIOUS
    <3> HIDE DEF c, d, f, sc, sd, sf, bc, bd, bf, gp, gq, bp, bq
    <3>9. bq + sd <= bp + sc
      BY <3>5, <3>6
    <3>10. gq + amount + sd <= gp + sc
      BY <3>1, <3>3, <3>4, <3>5, <3>6, <3>7, <3>8
    <3> QED BY <3>9, <3>10 DEF gp, gq, bp, bq
  <2> QED BY <1>1, <2>6, <2>7, <2>8 DEF Pays
<1>5. CASE seen # None /\ seen.how = "added"
  <2>1. /\ seen \in Touch /\ seen.item \in Item /\ then = seen /\ IsShaft(seen.item)
    BY <1>1, <1>5, ItemFacts DEF Touch, IsShaft, KindOf
  <2>2. /\ BillOf(p, u) = -Stand("shaft", c, 0) /\ GainOf(p, u) = 0
        /\ SpentAt(p, u, w, since, hr) <=> u > 0
        /\ KnownAt(p, u, w, since, hr) <=>
              /\ \A z \in w : z[3] >= 0
              /\ u > 0 => since < hr \/ \A z \in w : z[3] > 0
    BY <1>1, <1>5, <2>1, ShaftAdded
  <2>3. /\ BillOf(q, u) = -Stand("shaft", d, 0) /\ GainOf(q, u) = 0
        /\ SpentAt(q, u, w, since, hr) <=> u > 0
        /\ KnownAt(q, u, w, since, hr) <=>
              /\ \A z \in w : z[3] >= 0
              /\ u > 0 => since < hr \/ \A z \in w : z[3] > 0
    BY <1>1, <1>5, <2>1, ShaftAdded
  <2>4. KnownAt(q, u, w, since, hr) /\ (SpentAt(p, u, w, since, hr) => SpentAt(q, u, w, since, hr))
    BY <2>2, <2>3
  <2>5. ASSUME u = 0
        PROVE  /\ BillOf(q, u) + sd <= BillOf(p, u) + sc
               /\ GainOf(q, u) + amount + sd <= GainOf(p, u) + sc
    <3>1. BillOf(q, u) = -sd /\ BillOf(p, u) = -sc
      BY <2>2, <2>3, <2>5
    <3>2. -sd + sd = 0 /\ -sc + sc = 0
      BY <1>2
    <3> QED BY <1>1, <1>2, <2>2, <2>3, <3>1, <3>2
  <2> QED BY <1>1, <2>3, <2>4, <2>5 DEF Pays
<1>6. CASE seen = None
  <2>1. /\ then = [how |-> "was", item |-> x] /\ then.how = "was" /\ then.item = x
        /\ x.rides \in Nat
    BY <1>1, <1>6, ItemFacts
  <2>2. BillOf(p, u) = 0 /\ GainOf(p, u) = 0 /\ ~SpentAt(p, u, w, since, hr)
    BY <1>6, NoImage DEF ImageOf
  <2>3. /\ BillOf(q, u) = sc - sd
        /\ d < c => GainOf(q, u) = sc - sd - (bc - bd)
        /\ c <= d => GainOf(q, u) = 0
        /\ KnownAt(q, u, w, since, hr) <=>
              (c < d => \A z \in w : z[3] >= x.rides)
    BY <1>1, <2>1, ShaftFound
  <2>4. KnownAt(q, u, w, since, hr)
    BY <1>3, <2>1, <2>3
  <2>5. BillOf(q, u) + sd <= BillOf(p, u) + sc
        /\ GainOf(q, u) + amount + sd <= GainOf(p, u) + sc
    <3> HIDE DEF c, d, sc, sd, bc, bd, p, q
    <3> QED BY <1>1, <1>2, <2>2, <2>3
  <2> QED BY <1>1, <2>2, <2>4, <2>5 DEF Pays
<1>7. seen # None => seen.how # "addedAndUsed" /\ seen.how \in {"was", "added", "addedAndUsed"}
  BY <1>1, ItemFacts DEF NoteKnows, Touch
<1> QED BY <1>4, <1>5, <1>6, <1>7

\* An item sold.
LEMMA SaleTaken ==
    ASSUME NEW x \in Item, NEW e \in Entry, x.site = e.site, NEW k, k = KindOf(x),
           NEW amount \in Nat, amount <= Refund(k), NEW u, u = UsedOf(e)
    PROVE  /\ k \in Kinds /\ u \in Nat /\ x.cars \in Nat
           /\ CostOf(x, e) = Stand(k, x.cars, u) /\ CostOf(None, e) = Gone(k, u)
           /\ Stand(k, x.cars, u) \in Nat /\ Gone(k, u) \in Nat
           /\ amount + Gone(k, u) <= Stand(k, x.cars, u)
           /\ \A c \in Nat : amount <= Back(k, c)
<1>1. /\ k \in Kinds /\ x.cars \in Nat /\ x # None /\ e # None /\ e.used \in Nat /\ u = e.used
      /\ k = Kind[e.site]
  BY ItemFacts DEF UsedOf, KindOf
<1>2. CostOf(x, e) = Stand(k, x.cars, u) /\ CostOf(None, e) = Gone(k, u)
  BY <1>1 DEF CostOf
<1>3. Refund(k) \in Nat /\ \A c \in Nat : Back(k, c) \in Nat /\ Refund(k) <= Back(k, c)
  BY <1>1, Halves, CostTypes
<1>4. Stand(k, x.cars, u) \in Nat /\ Gone(k, u) \in Nat
  BY <1>1, CostTypes
<1>5. Back(k, x.cars) <= Stand(k, x.cars, u) - Gone(k, u)
  BY <1>1, SaleCost
<1>6. \A c \in Nat : amount <= Back(k, c)
  BY <1>3
<1>7. amount + Gone(k, u) <= Stand(k, x.cars, u)
  <2>1. amount <= Back(k, x.cars) /\ Back(k, x.cars) \in Nat
    BY <1>1, <1>3, <1>6
  <2> QED BY <1>4, <1>5, <2>1
<1> QED BY <1>1, <1>2, <1>4, <1>6, <1>7

\* The image of what the gesture found and sold.
LEMMA FoundSold ==
    ASSUME NEW x \in Item, NEW e \in Entry, x.site = e.site,
           NEW amount \in Nat, amount <= Refund(KindOf(x)),
           NEW seen \in Touch \cup {None}, NEW then \in Touch, then.how = "was",
           then.item.site = e.site,
           seen = None => then.item = x,
           seen # None => /\ seen.how = "was" /\ seen.item.site = e.site
                          /\ then.item.cars = seen.item.cars,
           NEW since, NEW hr, NEW v,
           seen # None /\ IsShaft(x) /\ seen.item.cars < x.cars =>
              hr = since /\ x.rides = seen.item.rides
    PROVE  Pays(ImageOf(seen, x), ImageOf(then, None), x, None, e, amount,
                {WearOf(x)}, v, since, hr)
<1> DEFINE u == UsedOf(e)
           k == KindOf(x)
           c == x.cars
           f == then.item.cars
           sc == Stand(k, c, u)
           sf == Stand(k, f, u)
           g == Gone(k, u)
           bc == Back(k, c)
           bf == Back(k, f)
           w == {WearOf(x)}
           p == ImageOf(seen, x)
           q == ImageOf(then, None)
<1>1. /\ k \in Kinds /\ u \in Nat /\ c \in Nat
      /\ CostOf(x, e) = sc /\ CostOf(None, e) = g
      /\ amount + g <= sc /\ \A n \in Nat : amount <= Back(k, n)
  BY SaleTaken
<1>2. /\ then.item \in Item /\ f \in Nat /\ k = KindOf(then.item) /\ x.rides \in Nat
      /\ seen # None => seen \in Touch /\ seen.item \in Item /\ KindOf(seen.item) = k
                        /\ seen.item.cars = f
  BY ItemFacts DEF Touch, KindOf
<1>3. /\ sc \in Nat /\ sf \in Nat /\ g \in Nat /\ bc \in Nat /\ bf \in Nat
      /\ amount <= bc /\ amount <= bf
  BY <1>1, <1>2, CostTypes
<1>4. /\ BillOf(q, u) = sf - g /\ GainOf(q, u) = sf - g - bf
      /\ KnownAt(q, u, v, since, hr)
  <2>1. /\ then \in Touch /\ then.how = "was" /\ u \in Nat /\ q = ImageOf(then, None)
        /\ k = KindOf(then.item) /\ f = then.item.cars
    BY <1>1, <1>2
  <2>2. sf = Stand(k, f, u) /\ g = Gone(k, u) /\ bf = Back(k, f)
    OBVIOUS
  <2> HIDE DEF u, k, f, sf, g, bf, q
  <2> QED BY <2>1, <2>2, FoundGone
<1>5. /\ BillOf(p, u) = sf - sc /\ ~SpentAt(p, u, w, since, hr)
      /\ sf - bf <= GainOf(p, u) + sc - amount /\ GainOf(p, u) \in Int
  <2>1. CASE seen = None
    <3>1. BillOf(p, u) = 0 /\ GainOf(p, u) = 0 /\ ~SpentAt(p, u, w, since, hr)
      BY <2>1, NoImage DEF ImageOf
    <3>2. f = c
      BY <2>1
    <3>3. sf = sc /\ bf = bc
      BY <3>2
    <3> HIDE DEF sf, sc, bf, bc, p, w, u
    <3> QED BY <1>3, <3>1, <3>3
  <2>2. CASE seen # None /\ ~IsShaft(x)
    <3>1. k # "shaft" /\ ~IsShaft(seen.item)
      BY <1>2, <2>2 DEF IsShaft
    <3>2. BillOf(p, u) = 0 /\ GainOf(p, u) = 0 /\ ~SpentAt(p, u, w, since, hr)
      BY <1>1, <1>2, <2>2, <3>1, UnitFound
    <3>3. sf = sc
      BY <1>1, <1>2, <3>1, UnitCost
    <3> HIDE DEF sf, sc, bf, bc, p, w, u
    <3> QED BY <1>3, <3>2, <3>3
  <2>3. CASE seen # None /\ IsShaft(x)
    <3>1. k = "shaft" /\ IsShaft(seen.item)
      BY <1>2, <2>3 DEF IsShaft
    <3>2. /\ BillOf(p, u) = sf - sc
          /\ c < f => GainOf(p, u) = sf - sc - (bf - bc)
          /\ f <= c => GainOf(p, u) = 0
          /\ SpentAt(p, u, w, since, hr) <=>
                f < c /\ (hr # since \/ \A z \in w : z[3] # seen.item.rides)
      <4> DEFINE ss == Stand("shaft", f, u)
                 st == Stand("shaft", c, u)
                 hs == Back("shaft", f)
                 ht == Back("shaft", c)
      <4>1. seen \in Touch /\ seen.how = "was" /\ IsShaft(seen.item) /\ seen.item.cars = f
        BY <1>2, <2>3, <3>1
      <4>2. /\ BillOf(p, u) = ss - st
            /\ c < f => GainOf(p, u) = ss - st - (hs - ht)
            /\ f <= c => GainOf(p, u) = 0
            /\ SpentAt(p, u, w, since, hr) <=>
                  f < c /\ (hr # since \/ \A z \in w : z[3] # seen.item.rides)
        <5>1. u \in Nat /\ x \in Item /\ p = ImageOf(seen, x)
          BY <1>1
        <5>2. f = seen.item.cars /\ c = x.cars
          BY <4>1
        <5> HIDE DEF u, f, c, w, p
        <5> QED BY <4>1, <5>1, <5>2, ShaftFound
      <4>3. ss = sf /\ st = sc /\ hs = bf /\ ht = bc
        BY <3>1
      <4> HIDE DEF ss, st, hs, ht, sf, sc, bf, bc, f, c, p, w
      <4> QED BY <4>2, <4>3
    <3>3. WearOf(x) \in w /\ WearOf(x)[3] = x.rides
      BY DEF WearOf
    <3>4. ~SpentAt(p, u, w, since, hr)
      BY <1>2, <2>3, <3>2, <3>3
    <3>5. f <= c => sf <= sc
      BY <1>1, <1>2, MoreCars
    <3>6. CASE c < f
      <4> HIDE DEF sf, sc, bf, bc, p, w, u
      <4> QED BY <1>3, <3>2, <3>4, <3>6
    <3>7. CASE f <= c
      <4> HIDE DEF sf, sc, bf, bc, p, w, u
      <4> QED BY <1>3, <3>2, <3>4, <3>5, <3>7
    <3> QED BY <1>1, <1>2, <3>6, <3>7
  <2> QED BY <2>1, <2>2, <2>3
<1>6. BillOf(q, u) + g <= BillOf(p, u) + sc /\ GainOf(q, u) + amount + g <= GainOf(p, u) + sc
  <2> HIDE DEF sf, sc, bf, bc, g, p, q, w, u
  <2> QED BY <1>3, <1>4, <1>5
<1> QED BY <1>1, <1>4, <1>5, <1>6 DEF Pays

\* The image of what the gesture added and sold.
LEMMA AddedSold ==
    ASSUME NEW x \in Item, NEW e \in Entry, x.site = e.site,
           NEW amount \in Nat, amount <= Refund(KindOf(x)),
           NEW seen \in Touch, seen.how = "added", seen.item.site = e.site,
           NoteKnows(seen, x, e),
           NEW then \in Touch,
           then = IF IsShaft(x) \/ UseOf(x) = UseOf(seen.item) THEN seen
                  ELSE [how |-> "addedAndUsed", item |-> x],
           NEW since \in Nat, NEW hr,
           ~IsRoom(x) => hr = since /\ (IsShaft(x) => x.rides = 0),
           IsRoom(x) /\ ~Unopened(WearOf(x)) => UsedOf(e) > 0,
           ~IsRoom(x) => x.use = "idle" /\ ~x.sold,
           KnownAt(ImageOf(seen, x), UsedOf(e), {WearOf(x)}, since, hr)
    PROVE  Pays(ImageOf(seen, x), ImageOf(then, None), x, None, e, amount,
                {WearOf(x)}, {}, since, hr)
<1> DEFINE u == UsedOf(e)
           k == KindOf(x)
           c == x.cars
           sc == Stand(k, c, u)
           g == Gone(k, u)
           w == {WearOf(x)}
           p == ImageOf(seen, x)
           q == ImageOf(then, None)
<1>1. /\ k \in Kinds /\ u \in Nat /\ c \in Nat
      /\ CostOf(x, e) = sc /\ CostOf(None, e) = g
      /\ amount + g <= sc /\ sc \in Nat /\ g \in Nat
  BY SaleTaken
<1>2. /\ seen.item \in Item /\ KindOf(seen.item) = k /\ x.rides \in Nat
      /\ (k = "shaft") = IsShaft(x) /\ (k \in {"room", "condo"}) = IsRoom(x)
      /\ IsShaft(seen.item) = IsShaft(x) /\ IsRoom(seen.item) = IsRoom(x)
  BY ItemFacts DEF Touch, KindOf, IsShaft, IsRoom
<1>3. UseOf(seen.item) = <<IF IsRoom(x) THEN "building" ELSE "idle", FALSE>>
  BY <1>2 DEF NoteKnows, UseOf, Placed, IsRoom, KindOf
<1>4. /\ BillOf(p, u) = -Stand(k, c, 0) /\ GainOf(p, u) = 0
      /\ SpentAt(p, u, w, since, hr) <=> u > 0
  <2>1. CASE IsShaft(x)
    <3>1. /\ BillOf(p, u) = -Stand("shaft", x.cars, 0) /\ GainOf(p, u) = 0
          /\ SpentAt(p, u, w, since, hr) <=> u > 0
      <4>1. u \in Nat /\ x \in Item /\ p = ImageOf(seen, x) /\ IsShaft(seen.item)
        BY <1>1, <1>2, <2>1
      <4> HIDE DEF u, w, p
      <4> QED BY <4>1, ShaftAdded
    <3>2. k = "shaft"
      BY <2>1 DEF IsShaft
    <3> QED BY <3>1, <3>2
  <2>2. CASE ~IsShaft(x)
    <3>1. BillOf(p, u) = -Price[k] /\ GainOf(p, u) = 0 /\ (SpentAt(p, u, w, since, hr) <=> u > 0)
      BY <1>1, <1>2, <2>2, UnitAdded, ItemFacts
    <3>2. Stand(k, c, 0) = Price[k]
      <4>1. k # "shaft" /\ 0 \in Nat
        BY <2>2 DEF IsShaft
      <4> HIDE DEF k, c
      <4> QED BY <1>1, <4>1, UnitCost
    <3> QED BY <3>1, <3>2
  <2> QED BY <2>1, <2>2
<1>5. CASE then = seen
  <2>1. u = 0
    <3>1. CASE IsShaft(x)
      <4>1. ~IsRoom(x)
        BY <3>1 DEF IsRoom, IsShaft
      <4>2. u > 0 => since < hr \/ \A y \in w : y[3] > 0
        <5>1. KnownAt(p, u, w, since, hr)
          OBVIOUS
        <5> HIDE DEF w, u
        <5>2. KnownAt(p, u, w, since, hr) <=>
                 /\ \A y \in w : y[3] >= 0
                 /\ u > 0 => since < hr \/ \A y \in w : y[3] > 0
          <6>1. u \in Nat /\ x \in Item /\ p = ImageOf(seen, x) /\ IsShaft(seen.item)
            BY <1>1, <1>2, <3>1 DEF u
          <6> HIDE DEF p
          <6> QED BY <6>1, ShaftAdded
        <5> QED BY <5>1, <5>2
      <4>3. WearOf(x) \in w /\ WearOf(x)[3] = 0
        BY <3>1, <4>1 DEF WearOf
      <4> QED BY <1>1, <4>1, <4>2, <4>3
    <3>2. CASE ~IsShaft(x)
      <4>1. TakeKnows(k, seen.item, u, w, since, hr)
        BY <1>1, <1>2, <3>2, UnitAdded, ItemFacts
      <4>2. CASE IsRoom(x)
        <5>1. UseOf(x) = <<"building", FALSE>>
          <6>1. UseOf(x) = UseOf(seen.item)
            <7>1. [how |-> "addedAndUsed", item |-> x].how = "addedAndUsed"
              OBVIOUS
            <7> QED BY <1>5, <3>2, <7>1
          <6> QED BY <1>3, <4>2, <6>1
        <5>2. Unopened(WearOf(x)) /\ WearOf(x) \in w
          BY <5>1 DEF Unopened, WearOf, UseOf
        <5>3. k \in {"room", "condo"}
          BY <4>2 DEF IsRoom
        <5>4. u > 0 => \A y \in w : ~Unopened(y)
          <6> HIDE DEF w, u, k
          <6> QED BY <4>1, <5>3 DEF TakeKnows
        <5> QED BY <1>1, <5>2, <5>4
      <4>3. CASE ~IsRoom(x)
        <5>1. k = "floor"
          BY <1>1, <1>2, <3>2, <4>3 DEF Kinds
        <5> QED BY <1>1, <4>1, <4>3, <5>1 DEF TakeKnows
      <4> QED BY <4>2, <4>3
    <3> QED BY <3>1, <3>2
  <2>2. q = None
    <3>1. seen # None
      BY FactAssumption
    <3> QED BY <1>5, <3>1 DEF ImageOf, ShaftImage, UnitImage
  <2>3. BillOf(q, u) = 0 /\ GainOf(q, u) = 0 /\ KnownAt(q, u, {}, since, hr)
    BY <2>2, NoImage
  <2>4. g = 0 /\ BillOf(p, u) = -sc
    BY <1>1, <1>4, <2>1, CostTypes
  <2>5. BillOf(q, u) + g <= BillOf(p, u) + sc /\ GainOf(q, u) + amount + g <= GainOf(p, u) + sc
    <3>1. -sc + sc = 0 /\ 0 + 0 = 0
      BY <1>1
    <3> HIDE DEF sc, g, p, q, u
    <3> QED BY <1>1, <1>4, <2>3, <2>4, <3>1
  <2>6. ~SpentAt(p, u, w, since, hr)
    BY <1>4, <2>1
  <2> QED BY <1>1, <2>3, <2>5, <2>6 DEF Pays
<1>6. CASE then # seen
  <2>1. ~IsShaft(x) /\ UseOf(x) # UseOf(seen.item)
        /\ then = [how |-> "addedAndUsed", item |-> x]
    BY <1>6
  <2>2. IsRoom(x)
    <3>1. ~IsRoom(x) => UseOf(x) = <<"idle", FALSE>>
      <4>1. x.sold \in BOOLEAN
        BY DEF Item
      <4> QED BY <4>1 DEF UseOf
    <3> QED BY <1>3, <2>1, <3>1
  <2>3. ~Unopened(WearOf(x))
    <3>1. x.sold \in BOOLEAN
      BY DEF Item
    <3>2. UseOf(x) # <<"building", FALSE>>
      BY <1>3, <2>1, <2>2
    <3>3. ~(x.use = "building" /\ ~x.sold)
      BY <3>1, <3>2 DEF UseOf
    <3> QED BY <3>3 DEF Unopened, WearOf
  <2>4. u > 0
    BY <2>2, <2>3
  <2>5. then.how = "addedAndUsed" /\ then.item = x
    BY <2>1
  <2>6. /\ SpentAt(q, u, {}, since, hr) <=> u > 0
        /\ KnownAt(q, u, {}, since, hr) <=> TakeKnows(k, x, u, {}, since, hr)
    BY <1>1, <2>1, <2>5, UnitAdded
  <2>7. TakeKnows(k, x, u, {}, since, hr)
    <3>1. k # "floor" /\ k # "shaft"
      BY <2>2 DEF IsRoom
    <3> QED BY <3>1 DEF TakeKnows
  <2> QED BY <2>4, <2>6, <2>7 DEF Pays
<1> QED BY <1>5, <1>6

\* What is in hand after an edit of one item.
EditsItem(i) ==
    /\ UNCHANGED <<hours, undo, redo, ledger, outside>> /\ tower[i] # None
    /\ journal'.open = journal.open
    /\ \A k \in Id : k # i => /\ tower'[k] = tower[k]
                              /\ journal'.touched[k] = journal.touched[k]
    /\ tower'[i] # None => WearOf(tower'[i]) = WearOf(tower[i])
    /\ tower'[i] = None /\ journal.open =>
          /\ journal'.touched[i] # None
          /\ journal'.touched[i].how = "was" =>
                WearOf(journal'.touched[i].item) = WearOf(tower[i])

LEMMA EditHands ==
    ASSUME Inv, Inv', SoldInv, SoldInv', NEW i \in Id, EditsItem(i)
    PROVE  /\ \A k \in Id : k # i => Worn'[k] = Worn[k]
           /\ Worn[i] = {WearOf(tower[i])}
           /\ tower'[i] # None => Worn'[i] = {WearOf(tower[i])}
           /\ tower'[i] = None => Worn'[i] \subseteq {WearOf(tower[i])}
           /\ tower'[i] = None /\ journal.open /\ journal'.touched[i].how # "was" =>
                 Worn'[i] = {}
<1>1. ASSUME NEW k \in Id, k # i PROVE Worn'[k] = Worn[k]
  <2>1. tower'[k] = tower[k] /\ TookOf'[k] = TookOf[k]
    BY <1>1 DEF TookOf, Took, EditsItem
  <2>2. Hands(tower', TookOf', undo', redo')[k] = Hands(tower, TookOf, undo, redo)[k]
    BY <2>1, SameHands DEF EditsItem
  <2> QED BY <2>2 DEF Worn
<1>2. Worn[i] = {WearOf(tower[i])}
  BY WornOf DEF EditsItem
<1>3. tower'[i] # None => Worn'[i] = {WearOf(tower[i])}
  BY WornThen DEF EditsItem
<1>4. ASSUME tower'[i] = None
      PROVE  /\ Worn'[i] \subseteq {WearOf(tower[i])}
             /\ journal.open /\ journal'.touched[i].how # "was" => Worn'[i] = {}
  <2>1. ~Puts(undo', i) /\ ~Puts(redo', i)
    BY DEF SoldInv, Held, EditsItem
  <2>2. TookOf'[i] # None =>
          /\ TookOf'[i] = journal'.touched[i].item /\ journal.open
          /\ journal'.touched[i].how = "was"
    BY DEF TookOf, Took, EditsItem
  <2>3. ASSUME NEW y \in Worn'[i] PROVE TookOf'[i] # None /\ y = WearOf(TookOf'[i])
    <3>1. y \in Hands(tower', TookOf', undo', redo')[i]
      BY <2>3 DEF Worn
    <3>2. PICK x \in Item : y = WearOf(x) /\ x \in InHand(tower', TookOf', undo', redo', i)
      BY <3>1, HandsType
    <3>3. x # None
      BY FactAssumption
    <3> QED BY <1>4, <2>1, <3>2, <3>3 DEF InHand, Puts
  <2> QED BY <1>4, <2>2, <2>3 DEF EditsItem
<1> QED BY <1>1, <1>2, <1>3, <1>4

\* What the journal notes of the edit, but for the item.
EditsNotes(amount) ==
    /\ journal'.cash = journal.cash + amount /\ journal'.searched = journal.searched
    /\ journal'.hour = journal.hour
    /\ journal.tookOwn => journal'.tookOwn
    /\ journal.usedThenTaken => journal'.usedThenTaken

\* The open gesture's step after an edit holds back what the edit leaves it.
LEMMA EditOpen ==
    ASSUME Inv, Inv', SoldInv, SoldInv', MoneyInv, NEW i \in Id, EditsItem(i),
           NEW amount \in Int, journal.open, EditsNotes(amount),
           ~journal.searched
           /\ ~(journal'.usedThenTaken \/ (journal'.tookOwn /\ hours # journal.hour)) =>
              Pays(ImageOf(journal.touched[i], tower[i]),
                   ImageOf(journal'.touched[i], tower'[i]), tower[i], tower'[i], ledger[i],
                   amount, Worn[i], Worn'[i], journal.hour, hours),
           amount + CostSum(tower', ledger) <= CostSum(tower, ledger)
    PROVE  /\ Knows(StepOf(journal)', ledger, Worn', hours)
           /\ amount + CostSum(tower', ledger) + Open' <= CostSum(tower, ledger) + Open
<1> DEFINE s == StepFrom(journal, tower, hours)
           z == StepFrom(journal', tower', hours')
           w == Worn
           v == Worn'
<1>1. StepOf(journal) = s /\ StepOf(journal)' = z
  BY StepIs
<1>2. /\ ledger \in Ledgers /\ tower \in Towers /\ tower' \in Towers
      /\ journal \in Journal /\ journal' \in Journal /\ hours' = hours
      /\ journal.cash \in Int
  BY DEF Inv, TypeOK, Ledgers, Towers, Journal, EditsItem
<1>3. /\ s \in Step /\ s.money = -journal.cash /\ s.searched = journal.searched
      /\ s.hour = journal.hour
      /\ s.usedInGesture = (journal.usedThenTaken \/ (journal.tookOwn /\ hours # journal.hour))
      /\ \A k \in Id : s.images[k] = ImageOf(journal.touched[k], tower[k])
  BY <1>2, StepFromType
<1>4. /\ z \in Step /\ z.money = -journal'.cash /\ z.searched = journal.searched
      /\ z.hour = journal.hour
      /\ z.usedInGesture
           = (journal'.usedThenTaken \/ (journal'.tookOwn /\ hours # journal.hour))
      /\ \A k \in Id : z.images[k] = ImageOf(journal'.touched[k], tower'[k])
  BY <1>2, StepFromType DEF EditsNotes
<1>5. s.usedInGesture => z.usedInGesture
  BY <1>3, <1>4 DEF EditsNotes
<1>6. \A k \in Id : k # i => z.images[k] = s.images[k] /\ v[k] = w[k] /\ tower'[k] = tower[k]
  BY <1>3, <1>4, EditHands DEF EditsItem
<1>7. z.money = s.money - amount
  BY <1>2, <1>3, <1>4 DEF EditsNotes
<1>8. ~z.searched /\ ~z.usedInGesture =>
        Pays(s.images[i], z.images[i], tower[i], tower'[i], ledger[i],
             amount, w[i], v[i], s.hour, hours)
  BY <1>3, <1>4
<1>9. Knows(s, ledger, w, hours)
  BY <1>1 DEF MoneyInv
<1>10. /\ Open = Reserve(s, ledger, w, hours) /\ Open' = Reserve(z, ledger, v, hours)
  <2>1. journal'.open /\ ledger' = ledger /\ hours' = hours
    BY DEF EditsItem
  <2>2. Open' = Reserve(StepOf(journal)', ledger', Worn', hours')
    BY <2>1 DEF Open
  <2> QED BY <1>1, <2>1, <2>2 DEF Open
<1> HIDE DEF s, z, w, v
<1>11. s.searched = z.searched /\ s.hour = z.hour
  BY <1>3, <1>4
<1>12. Knows(z, ledger, v, hours)
  <2>1. ASSUME ~z.searched, ~z.usedInGesture, NEW k \in Id
        PROVE  KnownAt(z.images[k], UsedOf(ledger[k]), v[k], z.hour, hours)
    <3>1. CASE k = i
      BY <1>8, <1>11, <2>1, <3>1 DEF Pays
    <3>2. CASE k # i
      <4>1. KnownAt(s.images[k], UsedOf(ledger[k]), w[k], s.hour, hours)
        BY <1>5, <1>9, <1>11, <2>1, KnowsAt
      <4> QED BY <1>6, <1>11, <3>2, <4>1
    <3> QED BY <3>1, <3>2
  <2>2. z.hour <= hours
    BY <1>9, <1>11 DEF Knows
  <2> QED BY <2>1, <2>2, KnowsAt
<1>13. ASSUME Spent(s, ledger, w, hours) PROVE Spent(z, ledger, v, hours)
  <2>1. CASE s.searched \/ s.usedInGesture \/ z.usedInGesture
    BY <1>5, <1>11, <2>1, KnowsAt
  <2>2. CASE ~(s.searched \/ s.usedInGesture \/ z.usedInGesture)
    <3>1. PICK k \in Id : SpentAt(s.images[k], UsedOf(ledger[k]), w[k], s.hour, hours)
      BY <1>13, <2>2, KnowsAt
    <3>2. SpentAt(z.images[k], UsedOf(ledger[k]), v[k], z.hour, hours)
      <4>1. CASE k = i
        BY <1>8, <1>11, <2>2, <3>1, <4>1 DEF Pays
      <4>2. CASE k # i
        BY <1>6, <1>11, <3>1, <4>2
      <4> QED BY <4>1, <4>2
    <3> QED BY <3>2, KnowsAt
  <2> QED BY <2>1, <2>2
<1> DEFINE B(k) == BillOf(s.images[k], UsedOf(ledger[k]))
           C(k) == BillOf(z.images[k], UsedOf(ledger[k]))
           G(k) == GainOf(s.images[k], UsedOf(ledger[k]))
           H(k) == GainOf(z.images[k], UsedOf(ledger[k]))
           c(k) == CostOf(tower[k], ledger[k])
           d(k) == CostOf(tower'[k], ledger[k])
<1>14. \A k \in Id : /\ B(k) \in Int /\ C(k) \in Int /\ G(k) \in Int /\ H(k) \in Int
                     /\ c(k) \in Int /\ d(k) \in Int
  <2> TAKE k \in Id
  <2>1. /\ s.images[k] \in Image \cup {None} /\ z.images[k] \in Image \cup {None}
        /\ UsedOf(ledger[k]) \in Nat
    BY <1>2, <1>3, <1>4, StepTerms
  <2>2. B(k) \in Int /\ C(k) \in Int /\ G(k) \in Nat /\ H(k) \in Nat
    BY <2>1, BillTypes
  <2>3. c(k) \in Nat /\ d(k) \in Nat
    BY <1>2, CostOfType DEF Towers, Ledgers
  <2> QED BY <2>2, <2>3
<1>15. \A k \in Id : k # i => C(k) = B(k) /\ H(k) = G(k) /\ d(k) = c(k)
  BY <1>6
<1>16. ASSUME ~Spent(z, ledger, v, hours)
       PROVE  C(i) + d(i) <= B(i) + c(i) /\ H(i) + amount + d(i) <= G(i) + c(i)
  <2>1. ~z.searched /\ ~z.usedInGesture
    BY <1>16, KnowsAt
  <2>2. ~SpentAt(z.images[i], UsedOf(ledger[i]), v[i], z.hour, hours)
    BY <1>16, KnowsAt
  <2> QED BY <1>8, <1>11, <2>1, <2>2 DEF Pays
<1>17. /\ CostSum(tower', ledger) = CostSum(tower, ledger) + (d(i) - c(i))
       /\ Gains(z, ledger) = Gains(s, ledger) + (H(i) - G(i))
       /\ CostSum(tower', ledger) \in Int /\ CostSum(tower, ledger) \in Int
       /\ Gains(z, ledger) \in Int /\ Gains(s, ledger) \in Int
  <2> DEFINE fc == [k \in Id |-> c(k)]
             fd == [k \in Id |-> d(k)]
             fg == [k \in Id |-> G(k)]
             fh == [k \in Id |-> H(k)]
  <2>1. /\ fc \in Terms(MaxId) /\ fd \in Terms(MaxId) /\ fg \in Terms(MaxId)
        /\ fh \in Terms(MaxId) /\ MaxId \in Nat /\ i \in 1..MaxId
    BY <1>14, ItemFacts DEF Terms, Id
  <2>2. \A k \in 1..MaxId : k # i => fc[k] = fd[k] /\ fg[k] = fh[k]
    BY <1>15 DEF Id
  <2>3. fc[i] = c(i) /\ fd[i] = d(i) /\ fg[i] = G(i) /\ fh[i] = H(i)
    OBVIOUS
  <2>4. /\ CostSum(tower, ledger) = SumTo(MaxId, fc) /\ CostSum(tower', ledger) = SumTo(MaxId, fd)
        /\ Gains(s, ledger) = SumTo(MaxId, fg) /\ Gains(z, ledger) = SumTo(MaxId, fh)
    BY DEF CostSum, Gains
  <2> HIDE DEF fc, fd, fg, fh
  <2>5. SumTo(MaxId, fd) = SumTo(MaxId, fc) + (fd[i] - fc[i])
    BY <2>1, <2>2, SumShift
  <2>6. SumTo(MaxId, fh) = SumTo(MaxId, fg) + (fh[i] - fg[i])
    BY <2>1, <2>2, SumShift
  <2>7. /\ CostSum(tower', ledger) \in Int /\ CostSum(tower, ledger) \in Int
        /\ Gains(z, ledger) \in Int /\ Gains(s, ledger) \in Int
    <3>1. CostSum(tower', ledger) \in Int /\ CostSum(tower, ledger) \in Int
      BY <1>2, CostSumType
    <3>2. Gains(z, ledger) \in Nat /\ Gains(s, ledger) \in Nat
      BY <1>2, <1>3, <1>4, StepTerms
    <3> QED BY <3>1, <3>2
  <2> QED BY <2>3, <2>4, <2>5, <2>6, <2>7
<1>18. ASSUME ~Spent(z, ledger, v, hours)
       PROVE  /\ \A k \in Id : C(k) + d(k) <= B(k) + c(k)
              /\ Gains(z, ledger) + amount + CostSum(tower', ledger)
                   <= Gains(s, ledger) + CostSum(tower, ledger)
  <2>1. ASSUME NEW k \in Id PROVE C(k) + d(k) <= B(k) + c(k)
    <3>1. CASE k = i
      BY <1>16, <1>18, <3>1
    <3>2. CASE k # i
      <4>1. C(k) = B(k) /\ d(k) = c(k) /\ B(k) \in Int /\ c(k) \in Int
        BY <1>14, <1>15, <3>2
      <4> QED BY <4>1
    <3> QED BY <3>1, <3>2
  <2>2. Gains(z, ledger) + amount + CostSum(tower', ledger)
                   <= Gains(s, ledger) + CostSum(tower, ledger)
    <3>1. H(i) + amount + d(i) <= G(i) + c(i)
      BY <1>16, <1>18
    <3>2. H(i) \in Int /\ G(i) \in Int /\ c(i) \in Int /\ d(i) \in Int
      BY <1>14
    <3> HIDE DEF H, G, c, d
    <3> QED BY <1>17, <3>1, <3>2
  <2> QED BY <2>1, <2>2
<1>19. amount + CostSum(tower', ledger) + Reserve(z, ledger, v, hours)
         <= CostSum(tower, ledger) + Reserve(s, ledger, w, hours)
  BY <1>2, <1>3, <1>4, <1>7, <1>13, <1>18, ReserveMoves
<1>20. Knows(StepOf(journal)', ledger, Worn', hours)
  BY <1>1, <1>12 DEF v
<1> QED BY <1>10, <1>19, <1>20

LEMMA EditAges ==
    ASSUME Inv, Inv', SoldInv, SoldInv', MoneyInv, NEW i \in Id, EditsItem(i)
    PROVE  /\ Ages(ledger, ledger', Worn, Worn', hours, hours')
           /\ HandsKnow(ledger', Worn')
<1>1. \A k \in Id : Worn'[k] \subseteq Worn[k]
  BY EditHands
<1>2. ledger' = ledger /\ hours' = hours /\ hours \in Nat /\ ledger \in Ledgers
  BY NumberAssumption DEF EditsItem, Inv, TypeOK, Ledgers
<1>3. \A k \in Id : \A y \in Worn[k] : y[3] \in Nat
  BY WornOf
<1> DEFINE w == Worn
           v == Worn'
<1> HIDE DEF w, v
<1>4. Ages(ledger, ledger, w, v, hours, hours)
  <2>1. \A k \in Id : ledger[k] # None => v[k] \subseteq w[k] /\ \A y \in w[k] : y[3] \in Nat
    BY <1>1, <1>3 DEF w, v
  <2> QED BY <1>2, <2>1, FewerHands
<1>5. HandsKnow(ledger, v)
  <2>1. HandsKnow(ledger, w)
    BY DEF MoneyInv, w
  <2>2. \A k \in Id : v[k] \subseteq w[k]
    BY <1>1 DEF w, v
  <2> QED BY <2>1, <2>2 DEF HandsKnow
<1> QED BY <1>2, <1>4, <1>5 DEF w, v

LEMMA EditCosts ==
    ASSUME Inv, Inv', NEW i \in Id, EditsItem(i), NEW amount \in Int,
           amount + CostOf(tower'[i], ledger[i]) <= CostOf(tower[i], ledger[i])
    PROVE  amount + CostSum(tower', ledger) <= CostSum(tower, ledger)
<1> DEFINE fc == [k \in Id |-> CostOf(tower[k], ledger[k])]
           fd == [k \in Id |-> CostOf(tower'[k], ledger[k])]
<1>1. ledger \in Ledgers /\ tower \in Towers /\ tower' \in Towers
  BY DEF Inv, TypeOK, Ledgers, Towers, EditsItem
<1>2. /\ fc \in Terms(MaxId) /\ fd \in Terms(MaxId) /\ MaxId \in Nat /\ i \in 1..MaxId
  BY <1>1, CostTerms, ItemFacts DEF Towers, Id
<1>3. \A k \in 1..MaxId : k # i => fc[k] = fd[k]
  BY DEF EditsItem, Id
<1>4. /\ CostSum(tower, ledger) = SumTo(MaxId, fc) /\ CostSum(tower', ledger) = SumTo(MaxId, fd)
      /\ CostSum(tower, ledger) \in Int /\ CostSum(tower', ledger) \in Int
  BY <1>1, CostSumType DEF CostSum
<1>5. /\ amount + fd[i] <= fc[i] /\ fc[i] \in Int /\ fd[i] \in Int
  BY <1>2 DEF Terms
<1> HIDE DEF fc, fd
<1>6. SumTo(MaxId, fd) = SumTo(MaxId, fc) + (fd[i] - fc[i])
  BY <1>2, <1>3, SumShift
<1> QED BY <1>4, <1>5, <1>6

\* The invariant after an edit.
LEMMA EditMoves ==
    ASSUME Inv, Inv', SoldInv, SoldInv', MoneyInv, NEW i \in Id, EditsItem(i),
           NEW amount \in Int, money' = money + amount,
           amount + CostOf(tower'[i], ledger[i]) <= CostOf(tower[i], ledger[i]),
           journal.open => NoteKnows(journal'.touched[i], tower'[i], ledger[i]),
           journal.open =>
              /\ Knows(StepOf(journal)', ledger, Worn', hours)
              /\ amount + CostSum(tower', ledger) + Open' <= CostSum(tower, ledger) + Open
    PROVE  MoneyInv'
<1>1. /\ ledger' = ledger /\ hours' = hours /\ outside' = outside + 0
      /\ UNCHANGED <<undo, redo>> /\ 0 \in Int /\ money' = money + amount + 0
      /\ journal'.open = journal.open
  BY DEF EditsItem, Inv, TypeOK
<1>2. Ages(ledger, ledger', Worn, Worn', hours, hours') /\ HandsKnow(ledger', Worn')
  BY EditAges
<1>3. amount + CostSum(tower', ledger') + Open' <= CostSum(tower, ledger) + Open
  <2>1. CASE ~journal.open
    <3>1. Open = 0 /\ Open' = 0
      BY <1>1, <2>1 DEF Open
    <3>2. CostSum(tower', ledger) \in Int /\ CostSum(tower, ledger) \in Int
      BY <1>1, CostSumType DEF Inv, TypeOK, Ledgers, Towers
    <3>3. amount + CostSum(tower', ledger) <= CostSum(tower, ledger)
      BY EditCosts
    <3> QED BY <1>1, <3>1, <3>2, <3>3
  <2> QED BY <1>1, <2>1
<1>4. NotesKnow'
  <2>1. ASSUME journal.open, NEW k \in Id, journal'.touched[k] # None
        PROVE  NoteKnows(journal'.touched[k], tower'[k], ledger'[k])
    <3>1. CASE k = i
      BY <1>1, <2>1, <3>1
    <3>2. CASE k # i
      BY <1>1, <2>1, <3>2 DEF EditsItem, MoneyInv, NotesKnow
    <3> QED BY <3>1, <3>2
  <2> QED BY <1>1, <2>1 DEF NotesKnow
<1>5. journal'.open => Knows(StepOf(journal)', ledger', Worn', hours')
  BY <1>1
<1>6. \A k \in Id : ledger[k] # None /\ tower[k] = None => ledger'[k] = ledger[k]
  BY <1>1
<1> QED BY <1>1, <1>2, <1>3, <1>4, <1>5, <1>6, Moves

\* What the items in hand, and the notes of the item, show.
LEMMA EditKnows ==
    ASSUME Inv, SoldInv, MoneyInv, NEW i \in Id, tower[i] # None
    PROVE  /\ tower[i] \in Item /\ ledger[i] \in Entry /\ tower[i].site = ledger[i].site
           /\ IsRoom(tower[i]) /\ ~Unopened(WearOf(tower[i])) => UsedOf(ledger[i]) > 0
           /\ ~IsRoom(tower[i]) => tower[i].use = "idle" /\ ~tower[i].sold
           /\ journal \in Journal /\ hours \in Nat /\ journal.hour \in Nat
           /\ journal.touched[i] \in Touch \cup {None}
           /\ journal.open /\ journal.touched[i] # None =>
                 /\ journal.touched[i].item.site = ledger[i].site
                 /\ NoteKnows(journal.touched[i], tower[i], ledger[i])
           /\ journal.open /\ ~journal.searched
              /\ ~(journal.usedThenTaken \/ (journal.tookOwn /\ hours # journal.hour)) =>
                 KnownAt(ImageOf(journal.touched[i], tower[i]), UsedOf(ledger[i]),
                         {WearOf(tower[i])}, journal.hour, hours)
<1>1. /\ tower[i] \in Item /\ ledger[i] \in Entry /\ tower[i].site = ledger[i].site
      /\ journal \in Journal /\ hours \in Nat /\ tower \in Towers
      /\ Worn[i] = {WearOf(tower[i])}
  BY NumberAssumption, WornOf DEF Inv, TypeOK, TowerSited, SitedIn, Towers
<1>2. journal.touched[i] \in Touch \cup {None} /\ journal.hour \in Nat
  BY <1>1, NumberAssumption DEF Journal
<1>3. WearOf(tower[i]) \in Worn[i]
  BY <1>1
<1>4. IF IsRoom(tower[i])
      THEN ~Unopened(WearOf(tower[i])) => UsedOf(ledger[i]) > 0
      ELSE WearOf(tower[i])[1] = "idle" /\ ~WearOf(tower[i])[2]
  <2>1. IsRoom(tower[i]) <=> Kind[ledger[i].site] \in {"room", "condo"}
    BY <1>1 DEF IsRoom, KindOf
  <2> QED BY <1>3, <2>1 DEF MoneyInv, HandsKnow
<1>5. ~IsRoom(tower[i]) => tower[i].use = "idle" /\ ~tower[i].sold
  BY <1>4 DEF WearOf
<1>6. journal.open /\ journal.touched[i] # None =>
                 /\ journal.touched[i].item.site = ledger[i].site
                 /\ NoteKnows(journal.touched[i], tower[i], ledger[i])
  BY DEF Inv, JournalSited, SitedIn, MoneyInv, NotesKnow
<1>7. ASSUME journal.open, ~journal.searched,
             ~(journal.usedThenTaken \/ (journal.tookOwn /\ hours # journal.hour))
      PROVE  KnownAt(ImageOf(journal.touched[i], tower[i]), UsedOf(ledger[i]),
                     {WearOf(tower[i])}, journal.hour, hours)
  <2> DEFINE s == StepFrom(journal, tower, hours)
  <2>1. StepOf(journal) = s /\ Knows(StepOf(journal), ledger, Worn, hours)
    BY <1>7, StepIs DEF MoneyInv
  <2>2. /\ s.searched = journal.searched /\ s.hour = journal.hour
        /\ s.usedInGesture = (journal.usedThenTaken \/ (journal.tookOwn /\ hours # journal.hour))
        /\ s.images[i] = ImageOf(journal.touched[i], tower[i])
    BY <1>1, StepFromType
  <2> HIDE DEF s
  <2>3. KnownAt(s.images[i], UsedOf(ledger[i]), Worn[i], s.hour, hours)
    BY <1>7, <2>1, <2>2, KnowsAt
  <2> QED BY <1>1, <2>2, <2>3
<1> QED BY <1>1, <1>2, <1>4, <1>5, <1>6, <1>7

\* The cash of the edit is all that Paid adds to what is noted.
LEMMA PaidNotes ==
    ASSUME NEW n \in Journal, NEW amount \in Int, NEW then, then = Paid(n, amount)
    PROVE  /\ then.open = n.open /\ then.touched = n.touched
           /\ then.searched = n.searched /\ then.hour = n.hour
           /\ then.tookOwn = n.tookOwn /\ then.usedThenTaken = n.usedThenTaken
           /\ n.open => then.cash = n.cash + amount
  BY DEF Paid, Journal

\* An edit notes the item it changes, and no other.
LEMMA EditItemShape ==
    ASSUME Inv, NEW i \in Id,
           Sell(i) \/ AddCar(i) \/ RemoveCar(i) \/ Reprice(i) \/ Rename(i),
           tower'[i] # None => WearOf(tower'[i]) = WearOf(tower[i]),
           tower'[i] = None /\ journal.open /\ journal'.touched[i].how = "was" =>
              WearOf(journal'.touched[i].item) = WearOf(tower[i])
    PROVE  EditsItem(i)
<1>1. tower[i] # None
  BY DEF Sell, AddCar, RemoveCar, Reprice, Rename
<1>2. /\ UNCHANGED <<nextId, hours, dug, treasuresFound, undo, redo, ledger, outside>>
      /\ \A k \in Id : k # i => /\ tower'[k] = tower[k]
                                /\ journal'.touched[k] = journal.touched[k]
      /\ journal'.open = journal.open
      /\ journal.open => journal'.touched[i] # None
  BY EditShape
<1> QED BY <1>1, <1>2 DEF EditsItem

LEMMA CarMoney ==
    ASSUME Inv, Inv', SoldInv, SoldInv', MoneyInv, NEW i \in Id, AddCar(i) \/ RemoveCar(i)
    PROVE  MoneyInv'
<1> DEFINE x == tower[i]
           e == ledger[i]
           seen == journal.touched[i]
           n == NoteEdit(journal, i, x)
<1>1. /\ x \in Item /\ e \in Entry /\ x.site = e.site
      /\ journal \in Journal /\ hours \in Nat /\ journal.hour \in Nat
      /\ seen \in Touch \cup {None} /\ tower[i] # None /\ IsShaft(x)
      /\ journal.open /\ seen # None => seen.item.site = e.site /\ NoteKnows(seen, x, e)
  <2>1. tower[i] # None /\ IsShaft(x)
    BY DEF AddCar, RemoveCar
  <2> QED BY <2>1, EditKnows
<1>2. PICK y \in Item, amount \in Int :
        /\ Edited(i, y, n, amount) /\ CarMoved(x, y, amount)
  <2>1. CarPrice \in Nat /\ CarRefund \in Nat /\ -CarPrice \in Int /\ MaxCars \in Nat
    BY Halves, NumberAssumption
  <2>2. ASSUME AddCar(i) PROVE \E y \in Item, amount \in Int : Edited(i, y, n, amount) /\ CarMoved(x, y, amount)
    <3> DEFINE y == [x EXCEPT !.cars = @ + 1]
    <3>1. x.cars < MaxCars /\ Edited(i, y, n, -CarPrice)
      BY <2>2 DEF AddCar
    <3>2. x.cars \in 0..MaxCars
      BY <1>1 DEF Item
    <3>3. x.cars + 1 \in 0..MaxCars
      BY <2>1, <3>1, <3>2
    <3>4. y \in Item /\ y.cars = x.cars + 1 /\ y.site = x.site /\ WearOf(y) = WearOf(x)
          /\ y.rent = x.rent /\ y.name = x.name
      BY <1>1, <3>3 DEF Item, WearOf
    <3>5. CarMoved(x, y, -CarPrice)
      BY <1>1, <2>1, <3>4 DEF CarMoved
    <3> QED BY <2>1, <3>1, <3>4, <3>5
  <2>3. ASSUME RemoveCar(i) PROVE \E y \in Item, amount \in Int : Edited(i, y, n, amount) /\ CarMoved(x, y, amount)
    <3> DEFINE y == [x EXCEPT !.cars = @ - 1]
    <3>1. x.cars > 1 /\ Edited(i, y, n, CarRefund)
      BY <2>3 DEF RemoveCar
    <3>2. x.cars \in 0..MaxCars
      BY <1>1 DEF Item
    <3>3. x.cars - 1 \in 0..MaxCars
      BY <2>1, <3>1, <3>2
    <3>4. y \in Item /\ y.cars = x.cars - 1 /\ y.site = x.site /\ WearOf(y) = WearOf(x)
          /\ y.rent = x.rent /\ y.name = x.name
      BY <1>1, <3>3 DEF Item, WearOf
    <3>5. x.cars = y.cars + 1 /\ y.cars > 0
      BY <3>1, <3>2, <3>4
    <3>6. CarMoved(x, y, CarRefund)
      BY <1>1, <2>1, <3>4, <3>5 DEF CarMoved
    <3> QED BY <2>1, <3>1, <3>4, <3>6
  <2> QED BY <2>2, <2>3
<1>3. /\ tower'[i] = y /\ journal' = Paid(n, amount) /\ money' = money + amount
      /\ y \in Item /\ WearOf(y) = WearOf(x) /\ y # None /\ y.rides = x.rides
  <2>1. tower' = [tower EXCEPT ![i] = y] /\ journal' = Paid(n, amount) /\ money' = money + amount
    BY <1>2 DEF Edited
  <2>2. tower'[i] = y
    BY <2>1 DEF Inv, TypeOK
  <2>3. y \in Item /\ WearOf(y) = WearOf(x) /\ y.rides = x.rides
    BY <1>2 DEF CarMoved, WearOf
  <2> QED BY <2>1, <2>2, <2>3, FactAssumption
<1>4. EditsItem(i)
  BY <1>3, EditItemShape
<1>5. amount + CostOf(y, e) <= CostOf(x, e)
  BY <1>1, <1>2, CarCost
<1> DEFINE then == journal'.touched[i]
<1>6. ASSUME journal.open
      PROVE  /\ EditsNotes(amount) /\ then \in Touch
             /\ seen = None => then = [how |-> "was", item |-> x]
             /\ seen # None => then = seen
             /\ seen # None /\ seen.how = "was" /\ seen.item.cars < x.cars =>
                   journal'.tookOwn /\ (x.rides # seen.item.rides => journal'.usedThenTaken)
  <2>1. /\ n \in Journal /\ n.open /\ n.cash = journal.cash /\ n.searched = journal.searched
        /\ n.hour = journal.hour /\ (journal.tookOwn => n.tookOwn)
        /\ (journal.usedThenTaken => n.usedThenTaken)
        /\ seen = None => n.touched[i] = [how |-> "was", item |-> x]
        /\ seen # None => n.touched[i] = seen
        /\ seen # None /\ IsShaft(x) /\ seen.how = "was" /\ seen.item.cars < x.cars =>
              n.tookOwn /\ (x.rides # seen.item.rides => n.usedThenTaken)
    BY <1>1, <1>6, NotedEdit
  <2>2. /\ journal'.open = n.open /\ journal'.touched = n.touched
        /\ journal'.searched = n.searched /\ journal'.hour = n.hour
        /\ journal'.tookOwn = n.tookOwn /\ journal'.usedThenTaken = n.usedThenTaken
        /\ n.open => journal'.cash = n.cash + amount
    <3>1. n \in Journal /\ amount \in Int /\ journal' = Paid(n, amount)
      BY <1>2, <1>3, <2>1
    <3> HIDE DEF n
    <3> QED BY <3>1, PaidNotes
  <2>3. then \in Touch
    <3>1. [how |-> "was", item |-> x] \in Touch
      BY <1>1 DEF Touch
    <3> QED BY <1>1, <2>1, <2>2, <3>1
  <2> HIDE DEF n
  <2> QED BY <1>1, <2>1, <2>2, <2>3 DEF EditsNotes
<1>7. journal.open => NoteKnows(then, y, e)
  <2>1. CASE journal.open /\ seen = None
    <3>1. then.how = "was" /\ then.item = x
      BY <1>6, <2>1
    <3>2. x.rides \in Nat
      BY <1>1, ItemFacts
    <3> QED BY <1>3, <3>1, <3>2 DEF NoteKnows
  <2>2. CASE journal.open /\ seen # None
    <3>1. then = seen /\ NoteKnows(seen, x, e) /\ x # None
      BY <1>1, <1>6, <2>2
    <3> QED BY <1>3, <3>1 DEF NoteKnows
  <2> QED BY <2>1, <2>2
<1>8. ASSUME journal.open, ~journal.searched,
             ~(journal'.usedThenTaken \/ (journal'.tookOwn /\ hours # journal.hour))
      PROVE  Pays(ImageOf(seen, x), ImageOf(then, y), x, y, e, amount,
                  Worn[i], Worn'[i], journal.hour, hours)
  <2>1. ~(journal.usedThenTaken \/ (journal.tookOwn /\ hours # journal.hour))
    BY <1>6, <1>8 DEF EditsNotes
  <2>2. KnownAt(ImageOf(seen, x), UsedOf(e), {WearOf(x)}, journal.hour, hours)
    BY <1>1, <1>8, <2>1, EditKnows
  <2>3. Worn[i] = {WearOf(x)} /\ Worn'[i] = {WearOf(x)}
    BY <1>3, <1>4, EditHands
  <2>4. seen # None /\ seen.how = "was" /\ seen.item.cars < x.cars =>
          hours = journal.hour /\ x.rides = seen.item.rides
    BY <1>6, <1>8
  <2> HIDE DEF x, e, seen, then
  <2>5. Pays(ImageOf(seen, x), ImageOf(then, y), x, y, e, amount,
             {WearOf(x)}, {WearOf(x)}, journal.hour, hours)
    BY <1>1, <1>2, <1>6, <1>8, <2>2, <2>4, CarPays
  <2> QED BY <2>3, <2>5
<1>9. amount + CostSum(tower', ledger) <= CostSum(tower, ledger)
  BY <1>2, <1>3, <1>4, <1>5, EditCosts
<1>10. journal.open =>
         /\ Knows(StepOf(journal)', ledger, Worn', hours)
         /\ amount + CostSum(tower', ledger) + Open' <= CostSum(tower, ledger) + Open
  BY <1>2, <1>3, <1>4, <1>6, <1>8, <1>9, EditOpen
<1> QED BY <1>2, <1>3, <1>4, <1>5, <1>7, <1>10, EditMoves

LEMMA LeavingWear ==
    ASSUME NEW x \in Item, NEW found \in Item
    PROVE  /\ Leaving(x, found) \in Item /\ WearOf(Leaving(x, found)) = WearOf(x)
           /\ Leaving(x, found).site = x.site /\ Leaving(x, found).cars = found.cars
<1>1. Leaving(x, found) \in Item
  BY LeavingType
<1>2. /\ Leaving(x, found).use = x.use /\ Leaving(x, found).sold = x.sold
      /\ Leaving(x, found).rides = x.rides
      /\ Leaving(x, found).site = x.site /\ Leaving(x, found).cars = found.cars
  BY DEF Leaving, Item
<1> QED BY <1>1, <1>2 DEF WearOf

LEMMA SellMoney ==
    ASSUME Inv, Inv', SoldInv, SoldInv', MoneyInv, NEW i \in Id, Sell(i)
    PROVE  MoneyInv'
<1> DEFINE x == tower[i]
           e == ledger[i]
           seen == journal.touched[i]
           n == NoteOut(journal, i, x)
           then == journal'.touched[i]
           amount == IF x.use = "gutted" THEN 0 ELSE Refund(KindOf(x))
           used == journal'.usedThenTaken \/ (journal'.tookOwn /\ hours # journal.hour)
<1>1. /\ x \in Item /\ e \in Entry /\ x.site = e.site
      /\ journal \in Journal /\ hours \in Nat /\ journal.hour \in Nat
      /\ seen \in Touch \cup {None} /\ tower[i] # None
      /\ journal.open /\ seen # None => seen.item.site = e.site /\ NoteKnows(seen, x, e)
      /\ IsRoom(x) /\ ~Unopened(WearOf(x)) => UsedOf(e) > 0
      /\ ~IsRoom(x) => x.use = "idle" /\ ~x.sold
  <2>1. tower[i] # None
    BY DEF Sell
  <2> QED BY <2>1, EditKnows
<1>2. /\ tower'[i] = None /\ journal' = Paid(n, amount) /\ money' = money + amount
  <2>1. tower' = [tower EXCEPT ![i] = None] /\ journal' = Paid(n, amount) /\ money' = money + amount
    BY DEF Sell, Edited
  <2>2. tower'[i] = None
    BY <2>1 DEF Inv, TypeOK
  <2> QED BY <2>1, <2>2
<1>3. amount \in Nat /\ amount \in Int /\ amount <= Refund(KindOf(x))
  <2>1. Refund(KindOf(x)) \in Nat
    BY <1>1, Halves, ItemFacts
  <2> QED BY <2>1
<1>4. amount + CostOf(None, e) <= CostOf(x, e)
  <2> HIDE DEF x, e, amount
  <2> QED BY <1>1, <1>3, SaleTaken
<1>5. ASSUME journal.open
      PROVE  /\ EditsNotes(amount)
             /\ seen = None => then = [how |-> "was", item |-> x]
             /\ seen # None /\ seen.how = "was" =>
                   /\ then = [how |-> "was", item |-> Leaving(x, seen.item)]
                   /\ IsShaft(x) /\ seen.item.cars < x.cars =>
                         journal'.tookOwn /\ (x.rides # seen.item.rides => journal'.usedThenTaken)
             /\ seen # None /\ seen.how = "added" =>
                   /\ then = IF IsShaft(x) \/ UseOf(x) = UseOf(seen.item) THEN seen
                             ELSE [how |-> "addedAndUsed", item |-> x]
                   /\ ~IsRoom(x) => journal'.tookOwn
                   /\ IsShaft(x) /\ x.rides > 0 => journal'.usedThenTaken
             /\ seen # None => seen \in Touch /\ seen.item \in Item /\ seen.how \in {"was", "added"}
  <2>1. /\ n \in Journal /\ n.open /\ n.cash = journal.cash /\ n.searched = journal.searched
        /\ n.hour = journal.hour /\ (journal.tookOwn => n.tookOwn)
        /\ (journal.usedThenTaken => n.usedThenTaken)
        /\ seen = None => n.touched[i] = [how |-> "was", item |-> x]
        /\ seen # None /\ seen.how = "was" =>
              /\ n.touched[i] = [how |-> "was", item |-> Leaving(x, seen.item)]
              /\ IsShaft(x) /\ seen.item.cars < x.cars =>
                    n.tookOwn /\ (x.rides # seen.item.rides => n.usedThenTaken)
        /\ seen # None /\ seen.how = "added" /\ IsShaft(x) =>
              n.touched[i] = seen /\ n.tookOwn /\ (x.rides > 0 => n.usedThenTaken)
        /\ seen # None /\ seen.how = "added" /\ ~IsShaft(x) =>
              /\ n.touched[i] = IF UseOf(x) = UseOf(seen.item) THEN seen
                                ELSE [how |-> "addedAndUsed", item |-> x]
              /\ IsFloor(x) => n.tookOwn
    BY <1>1, <1>5, NotedOut
  <2>2. /\ journal'.open = n.open /\ journal'.touched = n.touched
        /\ journal'.searched = n.searched /\ journal'.hour = n.hour
        /\ journal'.tookOwn = n.tookOwn /\ journal'.usedThenTaken = n.usedThenTaken
        /\ n.open => journal'.cash = n.cash + amount
    <3>1. n \in Journal /\ amount \in Int /\ journal' = Paid(n, amount)
      BY <1>2, <1>3, <2>1
    <3> HIDE DEF n, amount
    <3> QED BY <3>1, PaidNotes
  <2>3. ~IsRoom(x) => IsShaft(x) \/ IsFloor(x)
    BY <1>1, ItemFacts DEF IsRoom, IsShaft, IsFloor, Kinds
  <2>4. seen # None => /\ seen \in Touch /\ seen.item \in Item
                       /\ seen.how \in {"was", "added"}
    BY <1>1, <1>5 DEF NoteKnows, Touch
  <2> HIDE DEF n, amount, x, e, seen
  <2>5. EditsNotes(amount)
    BY <2>1, <2>2 DEF EditsNotes
  <2>6. seen = None => then = [how |-> "was", item |-> x]
    BY <2>1, <2>2
  <2>7. seen # None /\ seen.how = "was" =>
                   /\ then = [how |-> "was", item |-> Leaving(x, seen.item)]
                   /\ IsShaft(x) /\ seen.item.cars < x.cars =>
                         journal'.tookOwn /\ (x.rides # seen.item.rides => journal'.usedThenTaken)
    BY <2>1, <2>2
  <2>8. seen # None /\ seen.how = "added" =>
                   /\ then = IF IsShaft(x) \/ UseOf(x) = UseOf(seen.item) THEN seen
                             ELSE [how |-> "addedAndUsed", item |-> x]
                   /\ ~IsRoom(x) => journal'.tookOwn
                   /\ IsShaft(x) /\ x.rides > 0 => journal'.usedThenTaken
    BY <2>1, <2>2, <2>3
  <2> QED BY <2>4, <2>5, <2>6, <2>7, <2>8
<1>6. ASSUME journal.open
      PROVE  /\ then \in Touch
             /\ then.how = "was" => WearOf(then.item) = WearOf(x) /\ then.item.site = e.site
             /\ NoteKnows(then, None, e)
             /\ seen = None => then.how = "was" /\ then.item = x
             /\ seen # None /\ seen.how = "was" =>
                   then.how = "was" /\ then.item.cars = seen.item.cars
             /\ seen # None /\ seen.how = "added" => then.how # "was"
  <2> HIDE DEF x, e, seen, then, amount, n
  <2>1. CASE seen = None
    <3>1. then = [how |-> "was", item |-> x]
      BY <1>5, <1>6, <2>1
    <3>2. then \in Touch /\ then.how = "was" /\ then.item = x
      BY <1>1, <3>1 DEF Touch
    <3> QED BY <1>1, <2>1, <3>2 DEF NoteKnows
  <2>2. CASE seen # None /\ seen.how = "was"
    <3>1. then = [how |-> "was", item |-> Leaving(x, seen.item)] /\ seen.item \in Item
      BY <1>5, <1>6, <2>2
    <3> DEFINE gone == Leaving(x, seen.item)
    <3>2. gone \in Item /\ WearOf(gone) = WearOf(x) /\ gone.site = x.site /\ gone.cars = seen.item.cars
      BY <1>1, <3>1, LeavingWear
    <3> HIDE DEF gone
    <3>3. then \in Touch /\ then.how = "was" /\ then.item = gone
      BY <3>1, <3>2 DEF Touch, gone
    <3> QED BY <1>1, <2>2, <3>2, <3>3 DEF NoteKnows
  <2>3. CASE seen # None /\ seen.how = "added"
    <3>1. /\ then = IF IsShaft(x) \/ UseOf(x) = UseOf(seen.item) THEN seen
                    ELSE [how |-> "addedAndUsed", item |-> x]
          /\ seen \in Touch /\ NoteKnows(seen, x, e)
      BY <1>1, <1>5, <1>6, <2>3
    <3>2. CASE then = seen
      BY <2>3, <3>1, <3>2 DEF NoteKnows
    <3>3. CASE then = [how |-> "addedAndUsed", item |-> x] /\ ~IsShaft(x)
               /\ UseOf(x) # UseOf(seen.item)
      <4>1. then \in Touch /\ then.how = "addedAndUsed" /\ then.item = x
        BY <1>1, <3>3 DEF Touch
      <4>2. UseOf(seen.item) = <<IF IsRoom(x) THEN "building" ELSE "idle", FALSE>>
        <5>1. seen.item.site = x.site
          BY <1>1, <1>6, <2>3
        <5> QED BY <2>3, <3>1, <5>1 DEF NoteKnows, UseOf, Placed, IsRoom, KindOf
      <4>3. x.sold \in BOOLEAN
        BY <1>1 DEF Item
      <4>4. IsRoom(x)
        <5>1. ~IsRoom(x) => UseOf(x) = <<"idle", FALSE>>
          BY <1>1, <4>3 DEF UseOf
        <5> QED BY <3>3, <4>2, <5>1
      <4>5. ~Unopened(WearOf(x))
        <5>1. ~(x.use = "building" /\ ~x.sold)
          BY <3>3, <4>2, <4>3, <4>4 DEF UseOf
        <5> QED BY <5>1 DEF Unopened, WearOf
      <4>6. UsedOf(e) > 0
        BY <1>1, <4>4, <4>5
      <4> QED BY <2>3, <4>1, <4>4, <4>6 DEF NoteKnows
    <3> QED BY <3>1, <3>2, <3>3
  <2> QED BY <1>5, <1>6, <2>1, <2>2, <2>3
<1>7. EditsItem(i)
  BY <1>2, <1>6, EditItemShape
<1>8. ASSUME journal.open, ~journal.searched, ~used
      PROVE  Pays(ImageOf(seen, x), ImageOf(then, None), x, None, e, amount,
                  Worn[i], Worn'[i], journal.hour, hours)
  <2>1. ~(journal.usedThenTaken \/ (journal.tookOwn /\ hours # journal.hour))
    BY <1>5, <1>8 DEF EditsNotes
  <2>2. KnownAt(ImageOf(seen, x), UsedOf(e), {WearOf(x)}, journal.hour, hours)
    BY <1>1, <1>8, <2>1, EditKnows
  <2>3. Worn[i] = {WearOf(x)} /\ (then.how # "was" => Worn'[i] = {})
    BY <1>2, <1>7, <1>8, EditHands
  <2>4. /\ journal'.tookOwn => hours = journal.hour
        /\ ~journal'.usedThenTaken
    BY <1>8
  <2> HIDE DEF x, e, seen, then, amount, n, used
  <2>5. CASE seen = None \/ seen.how = "was"
    <3>1. seen # None /\ IsShaft(x) /\ seen.item.cars < x.cars =>
              hours = journal.hour /\ x.rides = seen.item.rides
      BY <1>5, <1>8, <2>4, <2>5
    <3>2. /\ then \in Touch /\ then.how = "was" /\ then.item.site = e.site
          /\ seen = None => then.item = x
          /\ seen # None => /\ seen.how = "was" /\ seen.item.site = e.site
                            /\ then.item.cars = seen.item.cars
      BY <1>1, <1>6, <1>8, <2>5
    <3>3. Pays(ImageOf(seen, x), ImageOf(then, None), x, None, e, amount,
                  {WearOf(x)}, Worn'[i], journal.hour, hours)
      BY <1>1, <1>3, <3>1, <3>2, FoundSold
    <3> QED BY <2>3, <3>3
  <2>6. CASE seen # None /\ seen.how = "added"
    <3>1. /\ then = IF IsShaft(x) \/ UseOf(x) = UseOf(seen.item) THEN seen
                    ELSE [how |-> "addedAndUsed", item |-> x]
          /\ ~IsRoom(x) => hours = journal.hour /\ (IsShaft(x) => x.rides = 0)
      <4>1. x.rides \in Nat
        BY <1>1, ItemFacts
      <4> QED BY <1>5, <1>8, <2>4, <2>6, <4>1
    <3>2. then \in Touch /\ then.how # "was" /\ seen \in Touch /\ seen.item.site = e.site
          /\ NoteKnows(seen, x, e)
      BY <1>1, <1>5, <1>6, <1>8, <2>6
    <3>3. Pays(ImageOf(seen, x), ImageOf(then, None), x, None, e, amount,
                  {WearOf(x)}, {}, journal.hour, hours)
      BY <1>1, <1>3, <2>2, <2>6, <3>1, <3>2, AddedSold
    <3> QED BY <2>3, <3>2, <3>3
  <2> QED BY <1>5, <1>8, <2>5, <2>6
<1> HIDE DEF amount
<1>9. amount + CostSum(tower', ledger) <= CostSum(tower, ledger)
  BY <1>2, <1>3, <1>4, <1>7, EditCosts
<1>10. journal.open =>
         /\ Knows(StepOf(journal)', ledger, Worn', hours)
         /\ amount + CostSum(tower', ledger) + Open' <= CostSum(tower, ledger) + Open
  BY <1>2, <1>3, <1>5, <1>7, <1>8, <1>9, EditOpen
<1> QED BY <1>2, <1>3, <1>4, <1>6, <1>7, <1>10, EditMoves

LEMMA PlainFound ==
    ASSUME NEW seen \in Touch, seen.how = "was", ~IsShaft(seen.item), NEW x \in Item
    PROVE  Plain(ImageOf(seen, x))
<1>1. /\ seen.item \in Item /\ x # None /\ seen # None
  BY ItemFacts, FactAssumption DEF Touch
<1> DEFINE image == ImageOf(seen, x)
<1>2. image = IF SameConfig(seen.item, x) THEN None
              ELSE [do |-> "restore", want |-> seen.item, left |-> x, built |-> FALSE]
  BY <1>1 DEF ImageOf, UnitImage
<1> HIDE DEF image
<1>3. image = None \/ (image.do = "restore" /\ image.want = seen.item)
  BY <1>2
<1> QED BY <1>3 DEF Plain, image

LEMMA FactMoney ==
    ASSUME Inv, Inv', SoldInv, SoldInv', MoneyInv, NEW i \in Id, Reprice(i) \/ Rename(i)
    PROVE  MoneyInv'
<1> DEFINE x == tower[i]
           y == tower'[i]
           e == ledger[i]
           seen == journal.touched[i]
           n == NoteEdit(journal, i, x)
           then == journal'.touched[i]
<1>1. /\ x \in Item /\ e \in Entry /\ x.site = e.site
      /\ journal \in Journal /\ hours \in Nat /\ journal.hour \in Nat
      /\ seen \in Touch \cup {None} /\ tower[i] # None /\ IsRoom(x)
      /\ journal.open /\ seen # None => seen.item.site = e.site /\ NoteKnows(seen, x, e)
  <2>1. tower[i] # None /\ IsRoom(x)
    BY DEF Reprice, Rename
  <2> QED BY <2>1, EditKnows
<1>2. /\ y \in Item /\ y # None /\ WearOf(y) = WearOf(x) /\ y.site = x.site /\ y.cars = x.cars
      /\ y.rides = x.rides /\ journal' = Paid(n, 0) /\ money' = money + 0
  <2>1. CASE Reprice(i)
    <3>1. PICK rent \in Rents : Edited(i, [x EXCEPT !.rent = rent], n, 0)
      BY <2>1 DEF Reprice
    <3>2. y = [x EXCEPT !.rent = rent] /\ journal' = Paid(n, 0) /\ money' = money + 0
      BY <3>1 DEF Edited, Inv, TypeOK
    <3> HIDE DEF x, y, n
    <3>3. y \in Item /\ WearOf(y) = WearOf(x) /\ y.site = x.site /\ y.cars = x.cars
          /\ y.rides = x.rides
      BY <1>1, <3>2 DEF Item, WearOf
    <3> QED BY <3>2, <3>3, FactAssumption
  <2>2. CASE Rename(i)
    <3>1. PICK name \in Names : Edited(i, [x EXCEPT !.name = name], n, 0)
      BY <2>2 DEF Rename
    <3>2. y = [x EXCEPT !.name = name] /\ journal' = Paid(n, 0) /\ money' = money + 0
      BY <3>1 DEF Edited, Inv, TypeOK
    <3> HIDE DEF x, y, n
    <3>3. y \in Item /\ WearOf(y) = WearOf(x) /\ y.site = x.site /\ y.cars = x.cars
          /\ y.rides = x.rides
      BY <1>1, <3>2 DEF Item, WearOf
    <3> QED BY <3>2, <3>3, FactAssumption
  <2> QED BY <2>1, <2>2
<1>3. EditsItem(i)
  BY <1>2, EditItemShape
<1>4. 0 + CostOf(y, e) <= CostOf(x, e)
  <2>1. CostOf(y, e) = CostOf(x, e) /\ CostOf(x, e) \in Nat
    BY <1>1, <1>2, CostOfType DEF CostOf
  <2> QED BY <2>1
<1>5. ASSUME journal.open
      PROVE  /\ EditsNotes(0)
             /\ journal'.tookOwn = journal.tookOwn
             /\ journal'.usedThenTaken = journal.usedThenTaken
             /\ seen = None => then = [how |-> "was", item |-> x]
             /\ seen # None => then = seen
  <2>1. ~IsShaft(x)
    BY <1>1 DEF IsShaft, IsRoom
  <2>2. n = IF seen = None THEN [journal EXCEPT !.touched[i] = [how |-> "was", item |-> x]]
            ELSE journal
    BY <1>5, <2>1 DEF NoteEdit
  <2>3. /\ n \in Journal /\ n.open /\ n.cash = journal.cash /\ n.searched = journal.searched
        /\ n.hour = journal.hour
        /\ seen = None => n.touched[i] = [how |-> "was", item |-> x]
        /\ seen # None => n.touched[i] = seen
    BY <1>1, <1>5, NotedEdit
  <2>4. n.tookOwn = journal.tookOwn /\ n.usedThenTaken = journal.usedThenTaken
    BY <1>1, <2>2 DEF Journal
  <2>5. /\ journal'.open = n.open /\ journal'.touched = n.touched
        /\ journal'.searched = n.searched /\ journal'.hour = n.hour
        /\ journal'.tookOwn = n.tookOwn /\ journal'.usedThenTaken = n.usedThenTaken
        /\ journal'.cash = n.cash + 0
    <3> DEFINE amount == 0
    <3>1. n \in Journal /\ journal' = Paid(n, amount) /\ amount \in Int
      BY <1>2, <2>3
    <3> HIDE DEF n, amount
    <3>2. /\ journal'.open = n.open /\ journal'.touched = n.touched
          /\ journal'.searched = n.searched /\ journal'.hour = n.hour
          /\ journal'.tookOwn = n.tookOwn /\ journal'.usedThenTaken = n.usedThenTaken
          /\ n.open => journal'.cash = n.cash + amount
      BY <3>1, PaidNotes
    <3> QED BY <2>3, <3>2 DEF amount
  <2> HIDE DEF n
  <2> QED BY <2>3, <2>4, <2>5 DEF EditsNotes
<1>6. journal.open => NoteKnows(then, y, e)
  <2>1. CASE journal.open /\ seen = None
    <3>1. then.how = "was" /\ then.item = x
      BY <1>5, <2>1
    <3>2. x.rides \in Nat
      BY <1>1, ItemFacts
    <3> QED BY <1>2, <3>1, <3>2 DEF NoteKnows
  <2>2. CASE journal.open /\ seen # None
    <3>1. then = seen /\ NoteKnows(seen, x, e) /\ x # None
      BY <1>1, <1>5, <2>2
    <3> QED BY <1>2, <3>1 DEF NoteKnows
  <2> QED BY <2>1, <2>2
<1>7. ASSUME journal.open
      PROVE  \/ ImageOf(then, y) = ImageOf(seen, x)
             \/ Plain(ImageOf(seen, x)) /\ Plain(ImageOf(then, y))
  <2>1. ~IsShaft(x)
    BY <1>1 DEF IsShaft, IsRoom
  <2>2. CASE seen = None
    <3>1. then = [how |-> "was", item |-> x]
      BY <1>5, <1>7, <2>2
    <3>2. then \in Touch /\ then.how = "was" /\ then.item = x
      BY <1>1, <3>1 DEF Touch
    <3>3. Plain(ImageOf(then, y))
      BY <1>2, <2>1, <3>2, PlainFound
    <3>4. Plain(ImageOf(seen, x))
      BY <2>2 DEF ImageOf, Plain
    <3> QED BY <3>3, <3>4
  <2>3. CASE seen # None
    <3>1. then = seen /\ seen \in Touch /\ ~IsShaft(seen.item)
      BY <1>1, <1>5, <1>7, <2>1, <2>3 DEF IsShaft, KindOf
    <3>2. CASE seen.how = "was"
      BY <1>1, <1>2, <3>1, <3>2, PlainFound
    <3>3. CASE seen.how # "was"
      <4>1. ImageOf(seen, y) = ImageOf(seen, x)
        BY <1>1, <1>2, <2>3, <3>1, <3>3, Zenon DEF ImageOf, UnitImage
      <4> QED BY <3>1, <4>1
    <3> QED BY <3>2, <3>3
  <2> QED BY <2>2, <2>3
<1>8. ASSUME journal.open PROVE Alike(StepOf(journal), StepOf(journal)')
  <2> DEFINE s == StepFrom(journal, tower, hours)
             z == StepFrom(journal', tower', hours')
  <2>1. StepOf(journal) = s /\ StepOf(journal)' = z
    BY StepIs
  <2>2. /\ tower \in Towers /\ tower' \in Towers /\ journal' \in Journal /\ hours' = hours
        /\ journal.cash \in Int
    BY <1>1, <1>3 DEF Inv, TypeOK, Towers, Journal, EditsItem
  <2>3. /\ s.money = -journal.cash /\ s.searched = journal.searched /\ s.hour = journal.hour
        /\ s.usedInGesture = (journal.usedThenTaken \/ (journal.tookOwn /\ hours # journal.hour))
        /\ \A k \in Id : s.images[k] = ImageOf(journal.touched[k], tower[k])
    BY <1>1, <2>2, StepFromType
  <2>4. /\ z.money = -journal'.cash /\ z.searched = journal'.searched /\ z.hour = journal'.hour
        /\ z.usedInGesture
             = (journal'.usedThenTaken \/ (journal'.tookOwn /\ hours' # journal'.hour))
        /\ \A k \in Id : z.images[k] = ImageOf(journal'.touched[k], tower'[k])
    BY <2>2, StepFromType
  <2> HIDE DEF s, z
  <2>5. /\ journal'.cash = journal.cash /\ journal'.searched = journal.searched
        /\ journal'.hour = journal.hour /\ journal'.tookOwn = journal.tookOwn
        /\ journal'.usedThenTaken = journal.usedThenTaken
    BY <1>5, <1>8, <2>2 DEF EditsNotes
  <2>6. /\ z.money = s.money /\ z.hour = s.hour /\ z.searched = s.searched
        /\ z.usedInGesture = s.usedInGesture
    BY <2>2, <2>3, <2>4, <2>5
  <2>7. ASSUME NEW k \in Id
        PROVE  z.images[k] = s.images[k] \/ (Plain(s.images[k]) /\ Plain(z.images[k]))
    <3>1. CASE k = i
      BY <1>7, <1>8, <2>3, <2>4, <3>1
    <3>2. CASE k # i
      BY <1>3, <2>3, <2>4, <3>2 DEF EditsItem
    <3> QED BY <3>1, <3>2
  <2> QED BY <2>1, <2>6, <2>7 DEF Alike
<1>9. 0 + CostSum(tower', ledger) <= CostSum(tower, ledger) /\ 0 \in Int
  BY <1>3, <1>4, EditCosts
<1>10. ASSUME journal.open
       PROVE  /\ Knows(StepOf(journal)', ledger, Worn', hours)
              /\ 0 + CostSum(tower', ledger) + Open' <= CostSum(tower, ledger) + Open
  <2>1. Ages(ledger, ledger', Worn, Worn', hours, hours')
    BY <1>3, EditAges
  <2>2. journal'.open /\ ledger' = ledger /\ hours' = hours
    BY <1>3, <1>10 DEF EditsItem
  <2>3. Knows(StepOf(journal)', ledger', Worn', hours') /\ Open' <= Open
    BY <1>8, <1>10, <2>1, <2>2, OpenAges
  <2>4. /\ CostSum(tower', ledger) \in Int /\ CostSum(tower, ledger) \in Int
        /\ Open \in Nat /\ Open' \in Nat
    BY <2>2, OpenTypes, CostSumType DEF Inv, TypeOK, Ledgers, Towers
  <2> QED BY <1>9, <2>2, <2>3, <2>4
<1> QED BY <1>2, <1>3, <1>4, <1>6, <1>9, <1>10, EditMoves

-----------------------------------------------------------------------------
(* Builds.                                                                 *)

(* What a build of place s leaves of an id: it stays, or it is new.        *)
Stayed(i) == /\ tower'[i] = tower[i] /\ ledger'[i] = ledger[i]
             /\ journal'.touched[i] = journal.touched[i]
Built(i, s) ==
    /\ tower[i] = None /\ ledger[i] = None /\ journal.touched[i] = None
    /\ ledger'[i] \in Entry /\ tower'[i] = Placed(ledger'[i].site) /\ tower'[i] \in Item
    /\ tower'[i].site = ledger'[i].site
    /\ ledger'[i].used \in {0, 1} /\ (ledger'[i].used = 1 => Searches(s))
    /\ journal.open => journal'.touched[i] = [how |-> "added", item |-> tower'[i]]

\* What it adds to the costs: the price of the place at the last id, and of floor
\* at those before it.
Floors(i, m, c) == IF i \in m + 1..m + c THEN Price["floor"] ELSE 0
Main(i, m, c, s) == IF i = m + c + 1 THEN Price[Kind[s]] ELSE 0

LEMMA BuildItems ==
    ASSUME Inv, Inv', NEW s \in Site, Build(s), NEW c, c = Cardinality(Missing(s)),
           NEW cost, cost = Price[Kind[s]] + c * Price["floor"]
    PROVE  /\ UNCHANGED <<hours, undo, redo>> /\ journal'.open = journal.open
           /\ c \in Nat /\ nextId \in Nat \ {0} /\ nextId + c <= MaxId
           /\ \E gold \in Int : /\ money' = money - cost + gold
                                /\ outside' = outside + gold
           /\ journal.open =>
                 /\ journal'.cash = journal.cash - cost /\ journal'.hour = journal.hour
                 /\ journal'.searched = (journal.searched \/ Searches(s))
                 /\ journal'.tookOwn = journal.tookOwn
                 /\ journal'.usedThenTaken = journal.usedThenTaken
           /\ \A i \in Id :
                 \/ Stayed(i)
                 \/ /\ Built(i, s)
                    /\ Price[Kind[ledger'[i].site]]
                         <= Floors(i, nextId - 1, c) + Main(i, nextId - 1, c, s)
<1>1. /\ TypeOK /\ nextId + c <= MaxId /\ UNCHANGED <<hours, undo, redo>>
      /\ nextId \in Nat \ {0} /\ money \in Int /\ outside \in Int /\ journal \in Journal
      /\ ledger' \in Ledgers
  <2>1. /\ TypeOK /\ nextId \in Nat \ {0} /\ money \in Int /\ outside \in Int
        /\ journal \in Journal /\ ledger' \in Ledgers
    BY NumberAssumption DEF Inv, TypeOK, Ledgers
  <2>2. UNCHANGED <<hours, undo, redo>> /\ nextId + Cardinality(Missing(s)) <= MaxId
    BY Zenon DEF Build
  <2> QED BY <2>1, <2>2
<1>2. PICK at \in Layouts(s), gold \in (IF Searches(s) THEN Treasures ELSE {0}) :
        /\ tower' = [i \in Id |-> IF Added(at)[i] = None THEN tower[i] ELSE Added(at)[i]]
        /\ journal' = [NoteIn(Paid(journal, -cost), Added(at))
                         EXCEPT !.searched = @ \/ (journal.open /\ Searches(s))]
        /\ money' = money - cost + gold /\ outside' = outside + gold
        /\ ledger' = [i \in Id |->
              IF Added(at)[i] = None THEN ledger[i]
              ELSE [site |-> PlaceOf(at, i), sale |-> None,
                    used |-> IF Searches(PlaceOf(at, i)) THEN 1 ELSE 0]]
  BY Zenon DEF Build
<1>3. /\ c \in Nat /\ DOMAIN at = Missing(s) \cup {s}
      /\ \A p \in DOMAIN at :
            /\ at[p] \in Id /\ at[p] >= nextId /\ at[p] <= nextId + c /\ p \in Site
            /\ PlaceOf(at, at[p]) = p
            /\ Added(at)[at[p]] = Placed(p) /\ Placed(p) # None
      /\ \A i \in Id : Added(at)[i] = None \/ \E p \in DOMAIN at : at[p] = i
  <2>1. TypeOK /\ nextId + Cardinality(Missing(s)) <= MaxId /\ at \in Layouts(s)
    BY <1>1
  <2>2. /\ Cardinality(Missing(s)) \in Nat
        /\ DOMAIN at = Missing(s) \cup {s}
        /\ \A p \in DOMAIN at :
              /\ p \in Site /\ at[p] \in Id /\ at[p] >= nextId
              /\ at[p] <= nextId + Cardinality(Missing(s))
              /\ PlaceOf(at, at[p]) = p
              /\ Added(at)[at[p]] = Placed(p) /\ Placed(p) # None
        /\ \A i \in Id : \/ Added(at)[i] = None
                         \/ \E p \in DOMAIN at : at[p] = i
    BY <2>1, BuildIds, Zenon
  <2> QED BY <2>2
<1>4. /\ at[s] = nextId + c /\ \A p, q \in DOMAIN at : at[p] = at[q] => p = q
  BY DEF Layouts
<1>5. cost \in Int /\ -cost \in Int /\ Price["floor"] \in Nat /\ Price[Kind[s]] \in Nat
  <2>1. Price["floor"] \in Nat /\ Price[Kind[s]] \in Nat
    BY NewCost, Halves DEF Kinds
  <2>2. c * Price["floor"] \in Nat
    BY <1>3, <2>1, Times
  <2> QED BY <2>1, <2>2
<1>6. gold \in Int
  BY NumberAssumption
<1>7. Added(at) \in [Id -> Item \cup {None}]
  BY <1>1, AddedType
<1>8. /\ journal'.open = journal.open
      /\ \A i \in Id : journal'.touched[i] =
             IF journal.open /\ Added(at)[i] # None
             THEN [how |-> "added", item |-> Added(at)[i]] ELSE journal.touched[i]
      /\ journal.open =>
            /\ journal'.cash = journal.cash + -cost /\ journal'.hour = journal.hour
            /\ journal'.searched = (journal.searched \/ Searches(s))
            /\ journal'.tookOwn = journal.tookOwn
            /\ journal'.usedThenTaken = journal.usedThenTaken
  <2> DEFINE j == Paid(journal, -cost)
             n == NoteIn(j, Added(at))
  <2>1. /\ j \in Journal /\ n \in Journal
    BY <1>1, <1>5, <1>7, PaidType, NoteInType
  <2>2. /\ j.open = journal.open /\ j.touched = journal.touched
        /\ j.searched = journal.searched /\ j.hour = journal.hour
        /\ j.tookOwn = journal.tookOwn /\ j.usedThenTaken = journal.usedThenTaken
        /\ journal.open => j.cash = journal.cash + -cost
    BY <1>1, <1>5, PaidNotes
  <2> HIDE DEF j
  <2>3. /\ n.open = j.open /\ n.searched = j.searched /\ n.hour = j.hour /\ n.cash = j.cash
        /\ n.tookOwn = j.tookOwn /\ n.usedThenTaken = j.usedThenTaken
        /\ \A i \in Id : n.touched[i] =
             IF j.open /\ Added(at)[i] # None
             THEN [how |-> "added", item |-> Added(at)[i]] ELSE j.touched[i]
    BY <2>1 DEF NoteIn, Journal
  <2> HIDE DEF n
  <2>4. journal' = [n EXCEPT !.searched = @ \/ (journal.open /\ Searches(s))]
    BY <1>2 DEF n, j
  <2>5. /\ journal'.open = n.open /\ journal'.hour = n.hour /\ journal'.cash = n.cash
        /\ journal'.tookOwn = n.tookOwn /\ journal'.usedThenTaken = n.usedThenTaken
        /\ journal'.touched = n.touched
        /\ journal'.searched = (n.searched \/ (journal.open /\ Searches(s)))
    BY <2>1, <2>4 DEF Journal
  <2> QED BY <2>2, <2>3, <2>5
<1>9. ASSUME NEW i \in Id, Added(at)[i] = None PROVE Stayed(i)
  BY <1>2, <1>8, <1>9 DEF Stayed
<1>10. ASSUME NEW i \in Id, Added(at)[i] # None
       PROVE  /\ Built(i, s)
              /\ Price[Kind[ledger'[i].site]]
                   <= Floors(i, nextId - 1, c) + Main(i, nextId - 1, c, s)
  <2>1. PICK p \in DOMAIN at : at[p] = i
    BY <1>3, <1>10
  <2>2. /\ tower'[i] = Placed(p) /\ PlaceOf(at, i) = p /\ p \in Site
        /\ ledger'[i].site = p
        /\ ledger'[i].used = IF Searches(p) THEN 1 ELSE 0
    BY <1>2, <1>3, <1>10, <2>1
  <2>3. ledger'[i] \in Entry
    <3>1. ledger'[i] # None
      <4>1. tower'[i] # None
        BY <1>3, <2>2
      <4> QED BY <4>1 DEF Inv, TowerSited, SitedIn
    <3> QED BY <1>1, <3>1 DEF Ledgers
  <2>4. Placed(p) \in Item /\ Placed(p).site = p
    BY <2>2, PlacedType
  <2>5. ledger[i] = None
    BY <1>3, <2>1 DEF Inv
  <2>6. tower[i] = None /\ journal.touched[i] = None
    BY <2>5 DEF Inv, TowerSited, JournalSited, SitedIn
  <2>7. Kind[p] = "floor" \/ p = s
    <3>1. p \in Missing(s) => p \in Rests[s]
      BY DEF Missing
    <3> QED BY <1>3, <3>1, GeometryAssumption
  <2>8. ledger'[i].used \in {0, 1} /\ (ledger'[i].used = 1 => Searches(s))
    <3>1. p \in Buried => Kind[p] \in {"room", "condo"}
      BY GeometryAssumption
    <3> QED BY <2>2, <2>7, <3>1 DEF Searches
  <2>9. journal.open => journal'.touched[i] = [how |-> "added", item |-> tower'[i]]
    BY <1>8, <1>10, <1>2
  <2>10. Price[Kind[p]] <= Floors(i, nextId - 1, c) + Main(i, nextId - 1, c, s)
    <3> DEFINE m == nextId - 1
    <3>1. m \in Nat /\ m + 1 = nextId /\ m + c + 1 = nextId + c /\ i \in Int
      <4>1. i \in Int
        BY ItemFacts DEF Id
      <4> QED BY <1>1, <1>3, <4>1
    <3>2. i >= nextId /\ i <= nextId + c
      BY <1>3, <2>1
    <3>3. CASE p = s
      <4>1. i = m + c + 1
        BY <1>4, <2>1, <3>1, <3>3
      <4>2. ~(i \in m + 1..m + c)
        BY <1>3, <3>1, <4>1
      <4>3. Floors(i, m, c) = 0 /\ Main(i, m, c, s) = Price[Kind[s]]
        BY <4>1, <4>2 DEF Floors, Main
      <4> QED BY <1>5, <3>3, <4>3
    <3>4. CASE p # s
      <4>1. i # nextId + c
        BY <1>3, <1>4, <2>1, <3>4
      <4>2. i \in m + 1..m + c
        BY <1>1, <1>3, <3>1, <3>2, <4>1
      <4>3. i # m + c + 1
        BY <3>1, <4>1
      <4>4. Floors(i, m, c) = Price["floor"] /\ Main(i, m, c, s) = 0
        BY <4>2, <4>3 DEF Floors, Main
      <4> QED BY <1>5, <2>7, <3>4, <4>4
    <3> QED BY <3>3, <3>4
  <2> QED BY <2>2, <2>3, <2>4, <2>5, <2>6, <2>8, <2>9, <2>10 DEF Built
<1>11. journal.open => journal'.cash = journal.cash - cost
  BY <1>1, <1>5, <1>8 DEF Journal
<1>12. \E g \in Int : money' = money - cost + g /\ outside' = outside + g
  BY <1>2, <1>6
<1> QED BY <1>1, <1>3, <1>8, <1>9, <1>10, <1>11, <1>12

\* A build costs no less than it adds.
LEMMA BuildCosts ==
    ASSUME Inv, Inv', NEW s \in Site, Build(s), NEW c, c = Cardinality(Missing(s)),
           NEW cost, cost = Price[Kind[s]] + c * Price["floor"]
    PROVE  /\ cost \in Int /\ -cost \in Int
           /\ CostSum(tower', ledger') \in Int /\ CostSum(tower, ledger) \in Int
           /\ -cost + CostSum(tower', ledger') <= CostSum(tower, ledger)
<1> DEFINE m == nextId - 1
           i == m + c + 1
           p == Price["floor"]
           q == Price[Kind[s]]
<1>1. /\ c \in Nat /\ nextId \in Nat \ {0} /\ nextId + c <= MaxId
      /\ \A k \in Id : \/ Stayed(k)
                       \/ /\ Built(k, s)
                          /\ Price[Kind[ledger'[k].site]] <= Floors(k, m, c) + Main(k, m, c, s)
  BY BuildItems
<1>2. /\ ledger \in Ledgers /\ ledger' \in Ledgers /\ tower \in Towers /\ tower' \in Towers
      /\ MaxId \in Nat
  BY ItemFacts DEF Inv, TypeOK, Ledgers, Towers
<1>3. p \in Nat /\ q \in Nat /\ c * p \in Nat
  <2>1. p \in Nat /\ q \in Nat
    BY NewCost, Halves DEF Kinds
  <2> HIDE DEF p
  <2> QED BY <1>1, <2>1, Times
<1>4. m \in 0..MaxId /\ c \in 0..MaxId - m /\ i \in 1..MaxId /\ m \in Nat
  BY <1>1, <1>2
<1> DEFINE fc == [k \in Id |-> CostOf(tower[k], ledger[k])]
           fd == [k \in Id |-> CostOf(tower'[k], ledger'[k])]
           ff == [k \in Id |-> Floors(k, m, c)]
           fm == [k \in Id |-> Main(k, m, c, s)]
           fa == [k \in Id |-> fc[k] + ff[k]]
           fb == [k \in Id |-> fa[k] + fm[k]]
<1>5. \A k \in Id : /\ fc[k] \in Int /\ fd[k] \in Int /\ ff[k] \in Nat /\ fm[k] \in Nat
                    /\ fa[k] = fc[k] + ff[k] /\ fb[k] = fa[k] + fm[k]
  <2> TAKE k \in Id
  <2>1. CostOf(tower[k], ledger[k]) \in Nat /\ CostOf(tower'[k], ledger'[k]) \in Nat
    BY <1>2, CostOfType DEF Towers, Ledgers
  <2>2. Floors(k, m, c) \in Nat /\ Main(k, m, c, s) \in Nat
    BY <1>3 DEF Floors, Main
  <2> QED BY <2>1, <2>2
<1>6. \A k \in Id : fd[k] <= fb[k]
  <2> TAKE k \in Id
  <2>1. /\ fc[k] = CostOf(tower[k], ledger[k]) /\ fd[k] = CostOf(tower'[k], ledger'[k])
        /\ ff[k] = Floors(k, m, c) /\ fm[k] = Main(k, m, c, s)
    OBVIOUS
  <2> HIDE DEF fc, fd, ff, fm, fa, fb, m
  <2>2. CASE Stayed(k)
    <3>1. fd[k] = fc[k]
      BY <2>1, <2>2 DEF Stayed
    <3> QED BY <1>5, <3>1
  <2>3. CASE Built(k, s) /\ Price[Kind[ledger'[k].site]] <= ff[k] + fm[k]
    <3>1. fc[k] = 0
      BY <2>1, <2>3 DEF Built, CostOf
    <3>2. fd[k] = Price[Kind[ledger'[k].site]]
      <4> DEFINE e == ledger'[k]
                 x == tower'[k]
      <4>1. /\ e \in Entry /\ x = Placed(e.site) /\ x \in Item /\ e.used \in {0, 1}
        BY <2>3 DEF Built
      <4> HIDE DEF e, x
      <4>2. e.site \in Site /\ e # None /\ x # None
        BY <4>1, ItemFacts DEF Entry
      <4>3. CostOf(x, e) = Stand(Kind[e.site], x.cars, e.used)
        BY <4>2 DEF CostOf
      <4>4. Stand(Kind[e.site], Placed(e.site).cars, e.used) = Price[Kind[e.site]]
        BY <4>1, <4>2, NewCost
      <4>5. CostOf(x, e) = Price[Kind[e.site]]
        BY <4>1, <4>3, <4>4
      <4> QED BY <2>1, <4>5 DEF e, x
    <3> QED BY <1>5, <2>3, <3>1, <3>2
  <2> QED BY <1>1, <2>1, <2>2, <2>3
<1>7. /\ fc \in Terms(MaxId) /\ fd \in Terms(MaxId) /\ ff \in Terms(MaxId)
      /\ fm \in Terms(MaxId) /\ fa \in Terms(MaxId) /\ fb \in Terms(MaxId)
  <2>1. \A k \in Id : /\ fc[k] \in Int /\ fd[k] \in Int /\ ff[k] \in Int /\ fm[k] \in Int
                      /\ fa[k] \in Int /\ fb[k] \in Int
    <3> HIDE DEF fc, fd, ff, fm, fa, fb
    <3> QED BY <1>5
  <2>2. /\ fc = [k \in Id |-> fc[k]] /\ fd = [k \in Id |-> fd[k]] /\ ff = [k \in Id |-> ff[k]]
        /\ fm = [k \in Id |-> fm[k]] /\ fa = [k \in Id |-> fa[k]] /\ fb = [k \in Id |-> fb[k]]
    OBVIOUS
  <2> HIDE DEF fc, fd, ff, fm, fa, fb
  <2> QED BY <2>1, <2>2 DEF Terms, Id
<1>8. \A k \in 1..MaxId : /\ ff[k] = IF k \in m + 1..m + c THEN p ELSE 0
                          /\ k # i => fm[k] = 0
  BY DEF Floors, Main, Id
<1>9. fm[i] = q
  BY <1>4 DEF Main, Id
<1>10. CostSum(tower, ledger) = SumTo(MaxId, fc) /\ CostSum(tower', ledger') = SumTo(MaxId, fd)
  BY DEF CostSum
<1>11. \A k \in 1..MaxId : fa[k] = fc[k] + ff[k] /\ fb[k] = fa[k] + fm[k] /\ fd[k] <= fb[k]
  BY <1>5, <1>6 DEF Id
<1> HIDE DEF fc, fd, ff, fm, fa, fb
<1>12. cost = q + c * p
  OBVIOUS
<1> HIDE DEF m, i, p, q
<1>13. SumTo(MaxId, fa) = SumTo(MaxId, fc) + SumTo(MaxId, ff)
  BY <1>2, <1>7, <1>11, SumPlus
<1>14. SumTo(MaxId, fb) = SumTo(MaxId, fa) + SumTo(MaxId, fm)
  BY <1>2, <1>7, <1>11, SumPlus
<1>15. SumTo(MaxId, ff) = c * p
  <2> DEFINE n == MaxId
  <2>1. n \in Nat /\ m \in 0..n /\ c \in 0..n - m /\ p \in Nat /\ ff \in Terms(n)
    BY <1>2, <1>3, <1>4, <1>7
  <2>2. \A k \in 1..n : ff[k] = IF k \in m + 1..m + c THEN p ELSE 0
    BY <1>8
  <2> HIDE DEF n
  <2>3. SumTo(n, ff) = c * p
    BY <2>1, <2>2, SumEqual, ZenonT(60)
  <2> QED BY <2>3 DEF n
<1>16. SumTo(MaxId, fm) = fm[i]
  BY <1>2, <1>4, <1>7, <1>8, SumOnly
<1>17. /\ SumTo(MaxId, fd) \in Int /\ SumTo(MaxId, fb) \in Int
       /\ SumTo(MaxId, fd) <= SumTo(MaxId, fb)
  BY <1>2, <1>7, <1>11, SumLess
<1>18. SumTo(MaxId, fc) \in Int
  BY <1>2, <1>10, CostSumType
<1> DEFINE cp == c * p
<1> HIDE DEF cp
<1>19. /\ cp \in Nat /\ cost = q + cp /\ SumTo(MaxId, ff) = cp /\ SumTo(MaxId, fm) = q
       /\ SumTo(MaxId, fc) = CostSum(tower, ledger)
       /\ SumTo(MaxId, fd) = CostSum(tower', ledger')
  BY <1>3, <1>9, <1>10, <1>12, <1>15, <1>16 DEF cp
<1>20. cost \in Int /\ -cost \in Int
  BY <1>3, <1>19
<1>21. SumTo(MaxId, fb) = CostSum(tower, ledger) + cp + q
  BY <1>13, <1>14, <1>19
<1> QED BY <1>3, <1>10, <1>17, <1>18, <1>19, <1>20, <1>21

\* What is in hand after a build.
LEMMA BuildAges ==
    ASSUME Inv, Inv', SoldInv, SoldInv', MoneyInv, NEW s \in Site, Build(s)
    PROVE  /\ Ages(ledger, ledger', Worn, Worn', hours, hours')
           /\ HandsKnow(ledger', Worn') /\ NotesKnow'
           /\ \A i \in Id : \/ Stayed(i) /\ Worn'[i] = Worn[i]
                            \/ Built(i, s) /\ Worn'[i] = {WearOf(tower'[i])}
<1>1. /\ \A i \in Id : Stayed(i) \/ Built(i, s)
      /\ UNCHANGED <<hours, undo, redo>> /\ journal'.open = journal.open
  BY BuildItems
<1>2. ASSUME NEW i \in Id, Stayed(i) PROVE Worn'[i] = Worn[i]
  <2> DEFINE tk == TookOf
             sk == TookOf'
             u == tower'
  <2>1. tk[i] = sk[i]
    BY <1>1, <1>2 DEF TookOf, Took, Stayed
  <2>2. tower[i] = u[i]
    BY <1>2 DEF Stayed
  <2>3. Worn' = Hands(u, sk, undo, redo) /\ Worn = Hands(tower, tk, undo, redo)
    BY <1>1 DEF Worn
  <2> HIDE DEF tk, sk, u
  <2>4. Hands(tower, tk, undo, redo)[i] = Hands(u, sk, undo, redo)[i]
    BY <2>1, <2>2, SameHands
  <2> QED BY <2>3, <2>4
<1>3. ASSUME NEW i \in Id, Built(i, s) PROVE Worn'[i] = {WearOf(tower'[i])}
  <2>1. tower'[i] # None
    BY <1>3, ItemFacts DEF Built
  <2> QED BY <2>1, WornThen
<1> DEFINE w == Worn
           v == Worn'
<1>4. /\ \A i \in Id : Stayed(i) => v[i] = w[i]
      /\ \A i \in Id : Built(i, s) => v[i] = {WearOf(tower'[i])}
      /\ \A i \in Id : \A y \in w[i] : y[3] \in Nat
      /\ HandsKnow(ledger, w)
  BY <1>2, <1>3, WornOf DEF MoneyInv
<1> HIDE DEF w, v
<1>5. Ages(ledger, ledger', w, v, hours, hours')
  <2>1. hours' = hours /\ hours \in Nat
    BY <1>1, NumberAssumption DEF Inv, TypeOK
  <2>2. ASSUME NEW i \in Id, ledger[i] # None
        PROVE  AgesItem(Kind[ledger[i].site], UsedOf(ledger[i]), UsedOf(ledger'[i]),
                        w[i], v[i], hours, hours')
    <3>1. Stayed(i)
      BY <1>1, <2>2 DEF Built
    <3>2. ledger'[i] = ledger[i] /\ v[i] = w[i]
      BY <1>4, <3>1 DEF Stayed
    <3>3. UsedOf(ledger[i]) \in Nat
      BY ItemFacts DEF Inv, TypeOK
    <3>4. \A y \in v[i] : y[3] \in Nat /\ y \in w[i]
      BY <1>4, <3>2
    <3> DEFINE k == Kind[ledger[i].site]
               n == UsedOf(ledger[i])
    <3>5. UsedOf(ledger'[i]) = n /\ n \in Nat
      BY <3>2, <3>3
    <3> HIDE DEF k, n
    <3>6. AgesItem(k, n, n, w[i], v[i], hours, hours')
      BY <1>4, <3>4, <3>5 DEF AgesItem
    <3> QED BY <3>5, <3>6 DEF k, n
  <2> QED BY <2>1, <2>2 DEF Ages
<1>6. HandsKnow(ledger', v)
  <2>1. ASSUME NEW i \in Id, NEW y \in v[i]
        PROVE  IF Kind[ledger'[i].site] \in {"room", "condo"}
               THEN ~Unopened(y) => UsedOf(ledger'[i]) > 0
               ELSE y[1] = "idle" /\ ~y[2]
    <3>1. CASE Stayed(i)
      <4>1. ledger'[i] = ledger[i] /\ y \in w[i]
        BY <1>4, <2>1, <3>1 DEF Stayed
      <4> QED BY <1>4, <4>1 DEF HandsKnow
    <3>2. CASE Built(i, s)
      <4> DEFINE p == ledger'[i].site
      <4>1. y = WearOf(Placed(p))
        BY <1>4, <2>1, <3>2 DEF Built
      <4> HIDE DEF p
      <4>2. IF Kind[p] \in {"room", "condo"} THEN Unopened(y) ELSE y[1] = "idle" /\ ~y[2]
        BY <4>1 DEF WearOf, Placed, Unopened
      <4> QED BY <4>2 DEF p
    <3> QED BY <1>1, <3>1, <3>2
  <2> QED BY <2>1 DEF HandsKnow
<1>7. NotesKnow'
  <2>1. ASSUME journal.open, NEW i \in Id, journal'.touched[i] # None
        PROVE  NoteKnows(journal'.touched[i], tower'[i], ledger'[i])
    <3>1. CASE Stayed(i)
      BY <2>1, <3>1 DEF Stayed, MoneyInv, NotesKnow
    <3>2. CASE Built(i, s)
      <4> DEFINE seen == journal'.touched[i]
                 x == tower'[i]
                 p == ledger'[i].site
      <4>1. seen = [how |-> "added", item |-> x] /\ x = Placed(p) /\ x.site = p
        BY <2>1, <3>2 DEF Built
      <4> HIDE DEF seen, x, p
      <4>2. NoteKnows(seen, x, ledger'[i])
        BY <4>1 DEF NoteKnows
      <4> QED BY <4>2 DEF seen, x
    <3> QED BY <1>1, <3>1, <3>2
  <2> QED BY <1>1, <2>1 DEF NotesKnow
<1> QED BY <1>1, <1>2, <1>3, <1>5, <1>6, <1>7 DEF w, v

\* The image of what the gesture built.
LEMMA PlacedImage ==
    ASSUME NEW e \in Entry, e.used \in {0, 1}, NEW x \in Item, x = Placed(e.site),
           NEW seen, seen = [how |-> "added", item |-> x],
           NEW since, NEW hr, NEW image, image = ImageOf(seen, x), NEW u, u = UsedOf(e)
    PROVE  /\ BillOf(image, u) + CostOf(x, e) = 0 /\ GainOf(image, u) = 0
           /\ SpentAt(image, u, {WearOf(x)}, since, hr) <=> u > 0
           /\ u = 0 => KnownAt(image, u, {WearOf(x)}, since, hr)
<1>1. e.site \in Site /\ e # None /\ x # None /\ u = e.used /\ u \in Nat
  BY ItemFacts DEF Entry, UsedOf
<1> DEFINE k == Kind[e.site]
<1>2. /\ k \in Kinds /\ Price[k] \in Nat
      /\ Stand(k, x.cars, u) = Price[k] /\ Stand(k, x.cars, 0) = Price[k]
  BY <1>1, NewCost
<1>3. CostOf(x, e) = Price[k]
  BY <1>1, <1>2 DEF CostOf
<1>4. seen \in Touch /\ seen.how = "added" /\ seen.item = x /\ x.site = e.site
  <2>1. x.site = e.site
    BY DEF Placed
  <2> QED BY <2>1 DEF Touch
<1>5. KindOf(x) = k /\ (IsShaft(x) <=> k = "shaft")
  BY <1>4 DEF KindOf, IsShaft
<1> DEFINE worn == {WearOf(x)}
<1> HIDE DEF worn
<1>6. /\ BillOf(image, u) = -Price[k] /\ GainOf(image, u) = 0
      /\ SpentAt(image, u, worn, since, hr) <=> u > 0
      /\ u = 0 => KnownAt(image, u, worn, since, hr)
  <2>1. CASE k = "shaft"
    <3>1. IsShaft(seen.item)
      BY <1>4, <1>5, <2>1
    <3>2. /\ BillOf(image, u) = -Stand("shaft", x.cars, 0) /\ GainOf(image, u) = 0
          /\ SpentAt(image, u, worn, since, hr) <=> u > 0
          /\ KnownAt(image, u, worn, since, hr) <=>
                /\ \A y \in worn : y[3] >= 0
                /\ u > 0 => since < hr \/ \A y \in worn : y[3] > 0
      BY <1>1, <1>4, <3>1, ShaftAdded
    <3>3. \A y \in worn : y[3] >= 0
      BY ItemFacts DEF worn, WearOf
    <3> QED BY <1>1, <1>2, <2>1, <3>2, <3>3
  <2>2. CASE k # "shaft"
    <3>1. ~IsShaft(seen.item) /\ KindOf(seen.item) = k /\ x \in Item \cup {None}
          /\ seen.how # "was" /\ (x = None => seen.how # "added")
      BY <1>1, <1>4, <1>5, <2>2
    <3>2. /\ BillOf(image, u) = -Price[k] /\ GainOf(image, u) = 0
          /\ SpentAt(image, u, worn, since, hr) <=> u > 0
          /\ KnownAt(image, u, worn, since, hr) <=>
                TakeKnows(k, seen.item, u, worn, since, hr)
      BY <1>1, <1>4, <3>1, UnitAdded
    <3>3. u = 0 => TakeKnows(k, seen.item, u, worn, since, hr)
      <4>1. k \in {"room", "condo"} => Unopened(WearOf(x))
        BY DEF Placed, WearOf, Unopened
      <4> QED BY <1>4, <2>2, <4>1 DEF TakeKnows
    <3> QED BY <3>2, <3>3
  <2> QED BY <2>1, <2>2
<1>7. BillOf(image, u) + CostOf(x, e) = 0
  BY <1>2, <1>3, <1>6
<1> QED BY <1>6, <1>7 DEF worn

\* The open gesture's step after a build holds back what it built.
LEMMA BuildOpen ==
    ASSUME Inv, Inv', SoldInv, SoldInv', MoneyInv, NEW s \in Site, Build(s), journal.open,
           NEW cost, cost = Price[Kind[s]] + Cardinality(Missing(s)) * Price["floor"]
    PROVE  /\ Knows(StepOf(journal)', ledger', Worn', hours')
           /\ -cost + CostSum(tower', ledger') + Open' <= CostSum(tower, ledger) + Open
<1> DEFINE c == Cardinality(Missing(s))
           a == StepFrom(journal, tower, hours)
           z == StepFrom(journal', tower', hours')
           w == Worn
           v == Worn'
           now == ledger'
           t == tower'
           fresh == Searches(s)
<1>1. StepOf(journal) = a /\ StepOf(journal)' = z
  BY StepIs
<1>2. /\ ledger \in Ledgers /\ now \in Ledgers /\ tower \in Towers /\ t \in Towers
      /\ journal \in Journal /\ journal' \in Journal /\ hours' = hours
      /\ journal.cash \in Int
  <2>1. hours' = hours
    BY BuildItems
  <2> QED BY <2>1 DEF Inv, TypeOK, Ledgers, Towers, Journal
<1>3. /\ a \in Step /\ a.money = -journal.cash /\ a.searched = journal.searched
      /\ a.hour = journal.hour
      /\ a.usedInGesture = (journal.usedThenTaken \/ (journal.tookOwn /\ hours # journal.hour))
      /\ \A k \in Id : a.images[k] = ImageOf(journal.touched[k], tower[k])
  BY <1>2, StepFromType
<1>4. /\ z \in Step /\ z.money = -journal'.cash /\ z.searched = journal'.searched
      /\ z.hour = journal'.hour
      /\ z.usedInGesture
           = (journal'.usedThenTaken \/ (journal'.tookOwn /\ hours # journal'.hour))
      /\ \A k \in Id : z.images[k] = ImageOf(journal'.touched[k], t[k])
  BY <1>2, StepFromType
<1>5. /\ journal'.open /\ journal'.cash = journal.cash - cost /\ journal'.hour = journal.hour
      /\ journal'.searched = (journal.searched \/ fresh)
      /\ journal'.tookOwn = journal.tookOwn
      /\ journal'.usedThenTaken = journal.usedThenTaken
  BY BuildItems
<1>6. cost \in Int /\ -cost \in Int
      /\ CostSum(t, now) \in Int /\ CostSum(tower, ledger) \in Int
      /\ -cost + CostSum(t, now) <= CostSum(tower, ledger)
  BY BuildCosts
<1>7. \A k \in Id : \/ Stayed(k) /\ v[k] = w[k]
                    \/ Built(k, s) /\ v[k] = {WearOf(t[k])}
  BY BuildAges
<1>8. \A k \in Id :
         \/ z.images[k] = a.images[k] /\ v[k] = w[k] /\ now[k] = ledger[k] /\ t[k] = tower[k]
         \/ /\ v[k] = {WearOf(t[k])} /\ tower[k] = None /\ ledger[k] = None
            /\ a.images[k] = None
            /\ now[k] \in Entry /\ t[k] = Placed(now[k].site) /\ t[k] \in Item
            /\ now[k].used \in {0, 1} /\ (now[k].used = 1 => fresh)
            /\ z.images[k] = ImageOf([how |-> "added", item |-> t[k]], t[k])
  <2> TAKE k \in Id
  <2>1. CASE Stayed(k) /\ v[k] = w[k]
    BY <1>3, <1>4, <2>1 DEF Stayed
  <2>2. CASE Built(k, s) /\ v[k] = {WearOf(t[k])}
    <3>1. a.images[k] = None
      BY <1>3, <2>2 DEF Built, ImageOf
    <3>2. z.images[k] = ImageOf([how |-> "added", item |-> t[k]], t[k])
      BY <1>4, <2>2 DEF Built
    <3>3. /\ now[k] \in Entry /\ t[k] = Placed(now[k].site) /\ t[k] \in Item
          /\ now[k].used \in {0, 1} /\ (now[k].used = 1 => fresh)
          /\ tower[k] = None /\ ledger[k] = None
      BY <2>2 DEF Built
    <3> QED BY <2>2, <3>1, <3>2, <3>3
  <2> QED BY <1>7, <2>1, <2>2
<1>9. Knows(a, ledger, w, hours)
  BY <1>1 DEF MoneyInv
<1>10. Open = Reserve(a, ledger, w, hours) /\ Open' = Reserve(z, now, v, hours)
  <2>1. Open' = Reserve(StepOf(journal)', ledger', Worn', hours')
    BY <1>5 DEF Open
  <2> QED BY <1>1, <1>2, <2>1 DEF Open
<1>11. /\ z.money = a.money - (-cost) /\ z.searched = (a.searched \/ fresh)
       /\ z.hour = a.hour /\ z.usedInGesture = a.usedInGesture
  BY <1>2, <1>3, <1>4, <1>5, <1>6
<1> HIDE DEF a, z, w, v, now, t, fresh, c
<1>12. ASSUME NEW k \in Id, a.images[k] = None, v[k] = {WearOf(t[k])},
              tower[k] = None, ledger[k] = None,
              now[k] \in Entry, t[k] = Placed(now[k].site), t[k] \in Item,
              now[k].used \in {0, 1}, now[k].used = 1 => fresh,
              z.images[k] = ImageOf([how |-> "added", item |-> t[k]], t[k])
       PROVE  /\ BillOf(z.images[k], UsedOf(now[k])) + CostOf(t[k], now[k]) = 0
              /\ GainOf(z.images[k], UsedOf(now[k])) = 0
              /\ BillOf(a.images[k], UsedOf(ledger[k])) = 0
              /\ GainOf(a.images[k], UsedOf(ledger[k])) = 0
              /\ CostOf(tower[k], ledger[k]) = 0
              /\ ~SpentAt(a.images[k], UsedOf(ledger[k]), w[k], a.hour, hours)
              /\ ~fresh => KnownAt(z.images[k], UsedOf(now[k]), v[k], z.hour, hours)
  <2> DEFINE e == now[k]
             x == t[k]
             seen == [how |-> "added", item |-> x]
             image == z.images[k]
             u == UsedOf(e)
  <2>1. /\ e \in Entry /\ e.used \in {0, 1} /\ x \in Item /\ x = Placed(e.site)
        /\ image = ImageOf(seen, x) /\ (e.used = 1 => fresh)
    BY <1>12
  <2>2. u = e.used
    BY <2>1, ItemFacts DEF UsedOf
  <2> DEFINE since == z.hour
  <2> HIDE DEF e, x, seen, image, u, since
  <2>3. /\ BillOf(image, u) + CostOf(x, e) = 0 /\ GainOf(image, u) = 0
        /\ u = 0 => KnownAt(image, u, {WearOf(x)}, since, hours)
    BY <2>1, PlacedImage DEF seen, u
  <2>4. ~fresh => KnownAt(image, u, {WearOf(x)}, since, hours)
    BY <2>1, <2>2, <2>3
  <2>5. /\ BillOf(a.images[k], UsedOf(ledger[k])) = 0
        /\ GainOf(a.images[k], UsedOf(ledger[k])) = 0
        /\ ~SpentAt(a.images[k], UsedOf(ledger[k]), w[k], a.hour, hours)
    BY <1>12, NoImage
  <2>6. CostOf(tower[k], ledger[k]) = 0
    BY <1>12 DEF CostOf
  <2> QED BY <1>12, <2>3, <2>4, <2>5, <2>6 DEF e, x, image, u, since
<1>13. Knows(z, now, v, hours)
  <2>1. ASSUME ~z.searched, ~z.usedInGesture, NEW k \in Id
        PROVE  KnownAt(z.images[k], UsedOf(now[k]), v[k], z.hour, hours)
    <3>1. KnownAt(a.images[k], UsedOf(ledger[k]), w[k], a.hour, hours)
      BY <1>9, <1>11, <2>1, KnowsAt
    <3>2. ~fresh
      BY <1>11, <2>1
    <3> QED BY <1>8, <1>11, <1>12, <3>1, <3>2
  <2>2. z.hour <= hours
    BY <1>9, <1>11 DEF Knows
  <2> QED BY <2>1, <2>2, KnowsAt
<1>14. ASSUME Spent(a, ledger, w, hours) PROVE Spent(z, now, v, hours)
  <2>1. CASE a.searched \/ a.usedInGesture
    BY <1>11, <2>1, KnowsAt
  <2>2. CASE ~(a.searched \/ a.usedInGesture)
    <3>1. PICK k \in Id : SpentAt(a.images[k], UsedOf(ledger[k]), w[k], a.hour, hours)
      BY <1>14, <2>2, KnowsAt
    <3>2. SpentAt(z.images[k], UsedOf(now[k]), v[k], z.hour, hours)
      BY <1>8, <1>11, <1>12, <3>1
    <3> QED BY <3>2, KnowsAt
  <2> QED BY <2>1, <2>2
<1> DEFINE B(k) == BillOf(a.images[k], UsedOf(ledger[k]))
           C(k) == BillOf(z.images[k], UsedOf(now[k]))
           G(k) == GainOf(a.images[k], UsedOf(ledger[k]))
           H(k) == GainOf(z.images[k], UsedOf(now[k]))
           f(k) == CostOf(tower[k], ledger[k])
           d(k) == CostOf(t[k], now[k])
<1>15. \A k \in Id : /\ B(k) \in Int /\ C(k) \in Int /\ G(k) \in Int /\ H(k) \in Int
                     /\ f(k) \in Int /\ d(k) \in Int
  <2> TAKE k \in Id
  <2>1. /\ a.images[k] \in Image \cup {None} /\ z.images[k] \in Image \cup {None}
        /\ UsedOf(ledger[k]) \in Nat /\ UsedOf(now[k]) \in Nat
    BY <1>2, <1>3, <1>4, StepTerms
  <2>2. B(k) \in Int /\ C(k) \in Int /\ G(k) \in Nat /\ H(k) \in Nat
    BY <2>1, BillTypes
  <2>3. f(k) \in Nat /\ d(k) \in Nat
    BY <1>2, CostOfType DEF Towers, Ledgers
  <2> QED BY <2>2, <2>3
<1>16. ASSUME NEW k \in Id PROVE H(k) = G(k) /\ C(k) + d(k) <= B(k) + f(k)
  <2>1. CASE z.images[k] = a.images[k] /\ now[k] = ledger[k] /\ t[k] = tower[k]
    <3>1. H(k) = G(k) /\ C(k) = B(k) /\ d(k) = f(k)
      BY <2>1
    <3>2. B(k) \in Int /\ f(k) \in Int
      BY <1>15
    <3> HIDE DEF B, C, G, H, f, d
    <3> QED BY <3>1, <3>2
  <2>2. CASE ~(z.images[k] = a.images[k] /\ now[k] = ledger[k] /\ t[k] = tower[k])
    <3>1. C(k) + d(k) = 0 /\ H(k) = 0 /\ B(k) = 0 /\ G(k) = 0 /\ f(k) = 0
      BY <1>8, <1>12, <2>2
    <3> HIDE DEF B, C, G, H, f, d
    <3> QED BY <3>1
  <2> QED BY <2>1, <2>2
<1>17. Gains(z, now) = Gains(a, ledger) /\ Gains(a, ledger) \in Int
  <2> DEFINE fg == [k \in Id |-> G(k)]
             fh == [k \in Id |-> H(k)]
  <2>1. /\ fg \in Terms(MaxId) /\ fh \in Terms(MaxId) /\ MaxId \in Nat
    BY <1>15, ItemFacts DEF Terms, Id
  <2>2. \A k \in 1..MaxId : fh[k] = fg[k]
    BY <1>16 DEF Id
  <2>3. Gains(a, ledger) = SumTo(MaxId, fg) /\ Gains(z, now) = SumTo(MaxId, fh)
    BY DEF Gains
  <2> HIDE DEF fg, fh
  <2>4. SumTo(MaxId, fh) = SumTo(MaxId, fg)
    BY <2>1, <2>2, SumSame
  <2>5. Gains(a, ledger) \in Nat
    BY <1>2, <1>3, StepTerms
  <2> QED BY <2>3, <2>4, <2>5
<1> DEFINE amount == -cost
<1>18. /\ amount \in Int /\ amount + CostSum(t, now) <= CostSum(tower, ledger)
       /\ z.money = a.money - amount
  BY <1>6, <1>11
<1>19. Gains(z, now) + amount + CostSum(t, now) <= Gains(a, ledger) + CostSum(tower, ledger)
  <2> HIDE DEF amount
  <2> QED BY <1>6, <1>17, <1>18
<1> HIDE DEF amount
<1>20. amount + CostSum(t, now) + Reserve(z, now, v, hours)
         <= CostSum(tower, ledger) + Reserve(a, ledger, w, hours)
  <2>1. \A k \in Id : C(k) + d(k) <= B(k) + f(k)
    BY <1>16
  <2> QED BY <1>2, <1>3, <1>4, <1>14, <1>18, <1>19, <2>1, ReserveMoves
<1>21. Knows(StepOf(journal)', ledger', Worn', hours')
  BY <1>1, <1>2, <1>13 DEF v, now
<1> QED BY <1>10, <1>20, <1>21 DEF amount, t, now

\* A build pays for what it builds.
LEMMA BuildMoney ==
    ASSUME Inv, Inv', SoldInv, SoldInv', MoneyInv, NEW s \in Site, Build(s)
    PROVE  MoneyInv'
<1> DEFINE cost == Price[Kind[s]] + Cardinality(Missing(s)) * Price["floor"]
           amount == -cost
<1>1. UNCHANGED <<hours, undo, redo>> /\ journal'.open = journal.open
  BY BuildItems
<1>2. PICK gold \in Int : money' = money - cost + gold /\ outside' = outside + gold
  BY BuildItems
<1>3. /\ amount \in Int /\ cost \in Int
      /\ CostSum(tower', ledger') \in Int /\ CostSum(tower, ledger) \in Int
      /\ amount + CostSum(tower', ledger') <= CostSum(tower, ledger)
  BY BuildCosts
<1>4. journal.open =>
         /\ Knows(StepOf(journal)', ledger', Worn', hours')
         /\ amount + CostSum(tower', ledger') + Open' <= CostSum(tower, ledger) + Open
  BY BuildOpen
<1>5. money' = money + amount + gold
  <2>1. money \in Int /\ amount = -cost
    BY DEF Inv, TypeOK
  <2> HIDE DEF cost, amount
  <2> QED BY <1>2, <1>3, <2>1
<1> HIDE DEF cost, amount
<1>6. amount + CostSum(tower', ledger') + Open' <= CostSum(tower, ledger) + Open
  <2>1. CASE ~journal.open
    <3>1. Open = 0 /\ Open' = 0
      BY <1>1, <2>1 DEF Open
    <3> QED BY <1>3, <3>1
  <2> QED BY <1>4, <2>1
<1>7. /\ Ages(ledger, ledger', Worn, Worn', hours, hours')
      /\ HandsKnow(ledger', Worn') /\ NotesKnow'
  BY BuildAges
<1>8. \A i \in Id : ledger[i] # None /\ tower[i] = None => ledger'[i] = ledger[i]
  <2> TAKE i \in Id
  <2>1. Stayed(i) \/ Built(i, s)
    BY BuildAges
  <2> QED BY <2>1 DEF Stayed, Built
<1>9. journal'.open => Knows(StepOf(journal)', ledger', Worn', hours')
  BY <1>1, <1>4
<1> QED BY <1>1, <1>2, <1>3, <1>5, <1>6, <1>7, <1>8, <1>9, Moves

-----------------------------------------------------------------------------
(* The theorem.                                                            *)

LEMMA StillMoney == UNCHANGED vars /\ MoneyInv => MoneyInv'
<1> SUFFICES ASSUME UNCHANGED vars, MoneyInv PROVE MoneyInv'
  OBVIOUS
<1>1. UNCHANGED <<tower, money, hours, journal, undo, redo, ledger, outside>>
  BY DEF vars
<1>2. Worn' = Worn
  BY <1>1 DEF Worn, TookOf, Took
<1>3. StepOf(journal)' = StepOf(journal)
  BY <1>1 DEF StepOf, Count, Standing
<1>4. Open' = Open
  BY <1>1, <1>2, <1>3 DEF Open
<1> QED BY <1>1, <1>2, <1>3, <1>4 DEF MoneyInv, Covered, NotesKnow

LEMMA KeepsMoney ==
    Inv /\ Inv' /\ SoldInv /\ SoldInv' /\ MoneyInv /\ [Next]_vars => MoneyInv'
<1> SUFFICES ASSUME Inv, Inv', SoldInv, SoldInv', MoneyInv, [Next]_vars PROVE MoneyInv'
  OBVIOUS
<1>1. CASE Capture \/ Commit
  BY <1>1, CloseMoney
<1>2. CASE \E s \in Site : Build(s)
  BY <1>2, BuildMoney
<1>3. CASE \E i \in Id : Sell(i) \/ AddCar(i) \/ RemoveCar(i) \/ Reprice(i) \/ Rename(i)
  <2>1. PICK i \in Id : Sell(i) \/ AddCar(i) \/ RemoveCar(i) \/ Reprice(i) \/ Rename(i)
    BY <1>3
  <2>2. CASE Sell(i)
    BY <2>2, SellMoney
  <2>3. CASE AddCar(i) \/ RemoveCar(i)
    BY <2>3, CarMoney
  <2>4. CASE Reprice(i) \/ Rename(i)
    BY <2>4, FactMoney
  <2> QED BY <2>1, <2>2, <2>3, <2>4
<1>4. CASE Advance
  BY <1>4, AdvanceMoney
<1>5. CASE Undo \/ Redo
  BY <1>5, UndoRedoMoney
<1>6. CASE Adopt
  BY <1>6, AdoptMoney
<1>7. CASE UNCHANGED vars
  BY <1>7, StillMoney
<1> QED BY <1>1, <1>2, <1>3, <1>4, <1>5, <1>6, <1>7 DEF Next

\* What the balance covers leaves no more of it than the builds allow.
LEMMA CoveredPays == Inv /\ MoneyInv => NoFreeUse
<1> SUFFICES ASSUME Inv, MoneyInv PROVE NoFreeUse
  OBVIOUS
<1>1. /\ ledger \in Ledgers /\ tower \in Towers /\ undo \in Seq(Step) /\ redo \in Seq(Step)
      /\ journal \in Journal
  BY DEF Inv, TypeOK, Ledgers, Towers
<1> DEFINE a == Total(undo, ledger, Worn, hours)
           b == Total(redo, ledger, Worn, hours)
           c == CostSum(tower, ledger)
<1>2. a \in Nat /\ b \in Nat /\ c \in Int
  BY <1>1, TotalType, CostSumType
<1>3. Open \in Nat
  <2>1. StepOf(journal) \in Step
    BY <1>1, StepIs, StepFromType
  <2> QED BY <1>1, <2>1, ReserveType DEF Open
<1>4. /\ money \in Int /\ StartMoney \in Int /\ outside \in Int /\ Begins \in Int
  BY NumberAssumption, BeginsType DEF Inv, TypeOK
<1>5. money + c + a + b + Open <= StartMoney + outside + Begins
  BY DEF MoneyInv, Covered
<1>6. Costs = c
  BY CostsAre DEF Inv
<1> HIDE DEF a, b, c
<1>7. money + c <= StartMoney + outside + Begins
  BY <1>2, <1>3, <1>4, <1>5
<1> QED BY <1>6, <1>7 DEF NoFreeUse

(* Whatever the lot, the prices and the caps, no order of edits, undos and *)
(* redos, with time between them, takes back at its full price a build     *)
(* that was used: what a build must have cost by now, and half the price   *)
(* of what was used and sold, stays spent (undo.rs:27-35).                 *)
THEOREM UseIsPaid == Spec => []NoFreeUse
<1>1. Init => SoldInv /\ MoneyInv
  BY InitSold, InitMoney
<1>2. Inv /\ SoldInv /\ [Next]_vars => SoldInv'
  BY KeepsSold
<1>3. Inv /\ Inv' /\ SoldInv /\ SoldInv' /\ MoneyInv /\ [Next]_vars => MoneyInv'
  BY KeepsMoney
<1>4. Inv /\ MoneyInv => NoFreeUse
  BY CoveredPays
<1> QED BY <1>1, <1>2, <1>3, <1>4, Invariant, PTL DEF Spec
==============================================================================
