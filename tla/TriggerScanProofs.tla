------------------------- MODULE TriggerScanProofs -------------------------
(***************************************************************************)
(* Theorems about TriggerScan: the types of its rows, that a tick that     *)
(* gets through has seen every steady row, and that a protection set anew  *)
(* has a fresh revision.                                                   *)
(***************************************************************************)
EXTENDS TriggerScan, FiniteSetTheorems, SequenceTheorems, WellFoundedInduction, TLAPS

(* A revision is counted by commands, a position has none before it is open, and *)
(* nothing refers to a revision that was not given yet.                          *)
RevisionsKnown ==
    /\ \A p \in Position : protection[p].revision <= moves
    /\ \A p \in Position : status[p] = "none" => protection[p] = NoProtection
    /\ opening # <<>> => /\ moves > 0
                         /\ status[opening[1]] # "none"
                         /\ protection[opening[1]] = NoProtection
    /\ \A k \in raised : /\ k.position \in Position
                         /\ k.revision \in 1..protection[k.position].revision
    /\ phase = "positions" =>
         \A c \in todo : c.is.revision <= protection[c.row].revision

(* The rows a page has copied and not looked at yet. *)
Ahead == {c.row : c \in todo}

Unvisited == steady \ visited

(* What the cursor may not pass over.  Orders: an unvisited one is still listed, *)
(* and on a page of orders among the copies; the tick reaches the positions only *)
(* when none is left.  Positions: an unvisited one lies behind the anchor.       *)
OrdersCovered ==
    /\ Unvisited \cap Order \subseteq Range(book)
    /\ passed \subseteq visited
    /\ phase = "orders" => passed \cap Position = {}
    /\ ~ misread =>
         /\ phase = "orders" => Unvisited \cap Order \subseteq Ahead
         /\ phase = "positions" => Unvisited \cap Order = {}
         /\ phase = "page" /\ passed \cap Position # {} => Unvisited \cap Order = {}

PositionsCovered ==
    /\ steady \cap Position \subseteq Protected
    /\ ~ misread =>
         /\ phase = "positions" => Unvisited \cap Position \subseteq Ahead
         /\ \A p \in Unvisited \cap Position, q \in passed \cap Position : q < p

(* Copies have a place in their list: for a position, its own. *)
Placed ==
    /\ \A c \in todo : c.at \in Nat
    /\ phase = "positions" => \A c \in todo : c.at = c.row

IdleIsClear ==
    phase = "idle" => passed = {} /\ steady = {} /\ visited = {} /\ ~ misread

ScanInv ==
    TypeOK /\ RevisionsKnown /\ OrdersCovered /\ PositionsCovered /\ Placed /\ IdleIsClear
-----------------------------------------------------------------------------
(* Operators *)

LEMMA WithoutIs ==
    ASSUME NEW list \in Seq(Order), IsInjective(list), NEW o
    PROVE  /\ Without(list, o) \in Seq(Order)
           /\ IsInjective(Without(list, o))
           /\ Range(Without(list, o)) = Range(list) \ {o}
<1>1. CASE o \notin Range(list) BY <1>1 DEF Without
<1>2. CASE o \in Range(list)
  <2> DEFINE i == CHOOSE i \in DOMAIN list : list[i] = o
             r == RemoveAt(list, i)
  <2>1. i \in 1..Len(list) /\ list[i] = o BY <1>2 DEF Range
  <2>2. Without(list, o) = r BY <1>2 DEF Without
  <2> HIDE DEF i
  <2> DEFINE A == SubSeq(list, 1, i - 1)
             B == SubSeq(list, i + 1, Len(list))
  <2>a. A \in Seq(Order) /\ Len(A) = i - 1 /\ \A k \in 1..(i - 1) : A[k] = list[k]
    BY <2>1
  <2>b. B \in Seq(Order) /\ Len(B) = Len(list) - i BY <2>1
  <2>c. \A k \in 1..(Len(list) - i) : B[k] = list[k + i] BY <2>1
  <2>d. r = A \o B BY DEF RemoveAt
  <2> HIDE DEF A, B
  <2>e. A \o B \in Seq(Order) /\ Len(A \o B) = Len(A) + Len(B)
    BY <2>a, <2>b, ConcatProperties
  <2>f. \A k \in 1..(Len(A) + Len(B)) :
          (A \o B)[k] = IF k <= Len(A) THEN A[k] ELSE B[k - Len(A)]
    BY <2>a, <2>b, ConcatProperties
  <2> HIDE DEF r
  <2>g. Len(list) \in Nat OBVIOUS
  <2>3. r \in Seq(Order) /\ Len(r) = Len(list) - 1 BY <2>1, <2>a, <2>b, <2>d, <2>e, <2>g
  <2>4. \A k \in 1..Len(r) : r[k] = IF k < i THEN list[k] ELSE list[k + 1]
    <3> SUFFICES ASSUME NEW k \in 1..Len(r)
                 PROVE  r[k] = IF k < i THEN list[k] ELSE list[k + 1]
      OBVIOUS
    <3>1. CASE k < i BY <2>1, <2>3, <2>a, <2>b, <2>d, <2>f, <2>g, <3>1
    <3>2. CASE k >= i
      <4>1. (k - (i - 1)) \in 1..(Len(list) - i) /\ (k - (i - 1)) + i = k + 1
        BY <2>1, <2>3, <2>g, <3>2
      <4>2. r[k] = B[k - (i - 1)] BY <2>1, <2>3, <2>a, <2>b, <2>d, <2>f, <2>g, <3>2
      <4> QED BY <2>1, <2>c, <3>2, <4>1, <4>2
    <3> QED BY <2>1, <2>3, <2>g, <3>1, <3>2
  <2> HIDE DEF r
  <2>5. IsInjective(r)
    <3> SUFFICES ASSUME NEW j \in 1..Len(r), NEW k \in 1..Len(r), r[j] = r[k] PROVE j = k
      BY <2>3 DEF IsInjective
    <3> DEFINE J == IF j < i THEN j ELSE j + 1
                 K == IF k < i THEN k ELSE k + 1
    <3>2. J \in 1..Len(list) /\ K \in 1..Len(list) BY <2>1, <2>3
    <3>3. list[J] = list[K] BY <2>4
    <3>4. J = K BY <3>2, <3>3 DEF IsInjective
    <3> QED BY <3>4, <2>1
  <2>6. Range(r) \subseteq Range(list) \ {o}
    <3> SUFFICES ASSUME NEW k \in 1..Len(r) PROVE r[k] \in Range(list) /\ r[k] # o
      BY <2>3 DEF Range
    <3> DEFINE K == IF k < i THEN k ELSE k + 1
    <3>2. K \in 1..Len(list) /\ K # i BY <2>1, <2>3
    <3>3. r[k] = list[K] BY <2>4
    <3> HIDE DEF K
    <3> QED BY <2>1, <3>2, <3>3 DEF IsInjective, Range
  <2>7. Range(list) \ {o} \subseteq Range(r)
    <3> SUFFICES ASSUME NEW k \in 1..Len(list), list[k] # o PROVE list[k] \in Range(r)
      BY DEF Range
    <3>1. k # i BY <2>1
    <3>2. CASE k < i
      <4>1. k \in 1..Len(r) /\ r[k] = list[k] BY <2>1, <2>3, <2>4, <3>2
      <4> QED BY <4>1, <2>3 DEF Range
    <3>3. CASE k > i
      <4>1. k - 1 \in 1..Len(r) /\ r[k - 1] = list[k] BY <2>1, <2>3, <2>4, <3>3
      <4> QED BY <4>1, <2>3 DEF Range
    <3> QED BY <2>1, <3>1, <3>2, <3>3
  <2> QED BY <2>2, <2>3, <2>5, <2>6, <2>7
<1> QED BY <1>1, <1>2

LEMMA AppendedIs ==
    ASSUME NEW list \in Seq(Order), IsInjective(list), NEW o \in Order, o \notin Range(list)
    PROVE  /\ Append(list, o) \in Seq(Order)
           /\ IsInjective(Append(list, o))
           /\ Range(Append(list, o)) = Range(list) \cup {o}
<1> DEFINE r == Append(list, o)
<1>1. r \in Seq(Order) /\ Len(r) = Len(list) + 1 OBVIOUS
<1>2. \A k \in 1..Len(r) : r[k] = IF k <= Len(list) THEN list[k] ELSE o OBVIOUS
<1>3. \A k \in 1..Len(list) : list[k] # o BY DEF Range
<1> HIDE DEF r
<1>4. IsInjective(r) BY <1>1, <1>2, <1>3 DEF IsInjective
<1>5. Range(r) \subseteq Range(list) \cup {o}
  <2> SUFFICES ASSUME NEW k \in 1..Len(r) PROVE r[k] \in Range(list) \cup {o}
    BY <1>1 DEF Range
  <2> QED BY <1>1, <1>2 DEF Range
<1>6. Range(list) \cup {o} \subseteq Range(r)
  <2>1. \A k \in 1..Len(list) : k \in 1..Len(r) /\ r[k] = list[k] BY <1>1, <1>2
  <2>2. Len(r) \in 1..Len(r) /\ r[Len(r)] = o BY <1>1, <1>2
  <2> QED BY <1>1, <2>1, <2>2 DEF Range
<1> QED BY <1>1, <1>4, <1>5, <1>6 DEF r

(* A sequence of all orders, each at one place, lists all of them. *)
LEMMA AllListed ==
    ASSUME NEW b \in SetToSeqs(Order)
    PROVE  b \in Seq(Order) /\ IsInjective(b) /\ Range(b) = Order
<1> DEFINE n == Cardinality(Order)
<1>1. n \in Nat BY FS_CardinalityType, ScanAssumption
<1>2. b \in [1..n -> Order] /\ \A i, j \in 1..n : i # j => b[i] # b[j] BY DEF SetToSeqs
<1> HIDE DEF n
<1>3. b \in Seq(Order) /\ IsInjective(b) BY <1>1, <1>2 DEF IsInjective
<1>4. IsFiniteSet(1..n) /\ Cardinality(1..n) = n BY <1>1, FS_Interval
<1>5. b \in Injection(1..n, Order) BY <1>2, <1>3 DEF Injection
<1>6. b \in Surjection(1..n, Order) BY <1>4, <1>5, FS_Injection, ScanAssumption DEF n
<1>7. Range(b) = Order BY <1>2, <1>6 DEF Range, Surjection
<1> QED BY <1>3, <1>7

LEMMA Least ==
    ASSUME NEW T \in SUBSET Nat, T # {}
    PROVE  \E k \in T : \A m \in T : k <= m
<1> DEFINE R == {ss \in Nat \X Nat : ss[1] < ss[2]}
<1>1. IsWellFoundedOn(R, Nat) BY NatLessThanWellFounded DEF OpToRel
<1>2. PICK k \in T : \A m \in T : <<m, k>> \notin R
  <2> HIDE DEF R
  <2> QED BY <1>1, WFMin
<1>3. ASSUME NEW m \in T PROVE k <= m
  <2>1. <<m, k>> \in Nat \X Nat /\ <<m, k>>[1] = m /\ <<m, k>>[2] = k OBVIOUS
  <2>2. ~ (m < k) BY <1>2, <2>1
  <2> QED BY <2>2
<1> QED BY <1>3

LEMMA FirstIs ==
    ASSUME Placed, todo # {}
    PROVE  First \in todo /\ \A d \in todo : First.at <= d.at
<1> DEFINE T == {c.at : c \in todo}
<1>1. T \in SUBSET Nat /\ T # {} BY DEF Placed
<1>2. PICK k \in T : \A m \in T : k <= m BY <1>1, Least
<1>3. PICK c \in todo : c.at = k BY <1>2
<1>4. \A d \in todo : c.at <= d.at BY <1>2, <1>3
<1> QED BY <1>4 DEF First

(* A raised trigger names its position and the revision it was raised under. *)
LEMMA HitsAre ==
    \A p, pr, price, day : \A k \in Hits(p, pr, price, day) :
        k.position = p /\ k.revision = pr.revision
BY DEF Hits, PriceKey, TimeKey
-----------------------------------------------------------------------------
(* Steps *)

LEMMA RevisionTyped ==
    ASSUME TypeOK
    PROVE  /\ moves \in Nat
           /\ \A p \in Position : protection[p].revision \in Nat
           /\ \A p \in Position : protection[p] # NoProtection => protection[p] \in Protection
BY ScanAssumption DEF TypeOK, Protection, NoProtection

BookTyped ==
    /\ DOMAIN left = Order /\ \A o \in Order : left[o] \in 0..Quantity[o]
    /\ book \in Seq(Order) /\ IsInjective(book)
    /\ Range(book) = {o \in Order : left[o] > 0}

RowsTyped ==
    /\ today \in 1..MaxDay
    /\ status \in [Position -> {"none", "open", "closed"}]
    /\ protection \in [Position -> {NoProtection} \cup Protection]
    /\ quote \in [Position -> Price \cup {NoPrice}]
    /\ opening \in {<<>>} \cup (Position \X Condition)
    /\ moves \in 0..MaxMoves

TickTyped ==
    /\ phase \in {"idle", "page", "orders", "positions"}
    /\ phase \in {"idle", "page"} => todo = {}
    /\ phase = "orders" => \A c \in todo : c.row \in Order /\ c.left \in 1..Quantity[c.row]
    /\ phase = "positions" => todo \subseteq [row : Position, at : Position, is : Protection]
    /\ processed \in 0..BatchSize
    /\ batches \in 0..DrainBatches
    /\ passed \cup steady \cup visited \subseteq Order \cup Position
    /\ faults \in 0..MaxFaults

LEMMA TypeParts ==
    /\ TypeOK <=> BookTyped /\ RowsTyped /\ TickTyped
    /\ TypeOK' <=> BookTyped' /\ RowsTyped' /\ TickTyped'
<1>1. TypeOK <=> BookTyped /\ RowsTyped /\ TickTyped
  BY DEF TypeOK, BookTyped, RowsTyped, TickTyped
<1>2. TypeOK' <=> BookTyped' /\ RowsTyped' /\ TickTyped'
  BY DEF TypeOK, BookTyped, RowsTyped, TickTyped
<1> QED BY <1>1, <1>2

LEMMA Bounds ==
    /\ MaxMoves \in Nat /\ MaxFaults \in Nat /\ MaxDay \in Nat
    /\ BatchSize \in Nat \ {0} /\ DrainBatches \in Nat \ {0}
BY ScanAssumption

(* An order that ends leaves the list, one that is filled in part moves to its end. *)
LEMMA BookKept ==
    ASSUME TypeOK, NEW o \in Order, NEW n \in 0..Quantity[o],
           left' = [left EXCEPT ![o] = n],
           book' = IF n = 0 THEN Without(book, o) ELSE Append(Without(book, o), o)
    PROVE  BookTyped' /\ Range(book) \ {o} \subseteq Range(book')
<1> DEFINE w == Without(book, o)
<1>1. book \in Seq(Order) /\ IsInjective(book) BY DEF TypeOK
<1>2. w \in Seq(Order) /\ IsInjective(w) /\ Range(w) = Range(book) \ {o}
  BY <1>1, WithoutIs
<1>3. DOMAIN left' = Order /\ \A q \in Order : left'[q] = IF q = o THEN n ELSE left[q]
  BY DEF TypeOK
<1>4. n \in Nat /\ \A q \in Order : left'[q] \in 0..Quantity[q]
  BY <1>3, ScanAssumption DEF TypeOK
<1> HIDE DEF w
<1>5. CASE n = 0
  <2>1. book' = w BY <1>5 DEF w
  <2>2. Range(w) = {q \in Order : left'[q] > 0} BY <1>2, <1>3, <1>5 DEF TypeOK
  <2> QED BY <1>2, <1>3, <1>4, <2>1, <2>2 DEF BookTyped
<1>6. CASE n # 0
  <2>1. book' = Append(w, o) BY <1>6 DEF w
  <2>2. /\ Append(w, o) \in Seq(Order) /\ IsInjective(Append(w, o))
        /\ Range(Append(w, o)) = Range(w) \cup {o}
    BY <1>2, AppendedIs
  <2>3. n > 0 BY <1>4, <1>6
  <2>4. Range(w) \cup {o} = {q \in Order : left'[q] > 0} BY <1>2, <1>3, <2>3 DEF TypeOK
  <2> QED BY <1>2, <1>3, <1>4, <2>1, <2>2, <2>4 DEF BookTyped
<1> QED BY <1>5, <1>6

(* Steps that give no protection and copy none. *)
LEMMA RevisionsKept ==
    ASSUME ScanInv, moves' \in {moves, moves + 1}, UNCHANGED <<protection, raised>>,
           opening' \in {<<>>, opening},
           \A p \in Position : status'[p] = "none" => status[p] = "none",
           opening' # <<>> => UNCHANGED status,
           phase' = "positions" => phase = "positions" /\ todo' \subseteq todo
    PROVE  RevisionsKnown'
<1>1. \A p \in Position : protection'[p].revision <= moves'
  <2> SUFFICES ASSUME NEW p \in Position PROVE protection[p].revision <= moves'
    OBVIOUS
  <2>1. moves \in Nat /\ protection[p].revision \in Nat BY RevisionTyped DEF ScanInv
  <2>2. protection[p].revision <= moves BY DEF ScanInv, RevisionsKnown
  <2> QED BY <2>1, <2>2
<1>2. moves > 0 => moves' > 0 BY RevisionTyped DEF ScanInv
<1> QED BY <1>1, <1>2 DEF ScanInv, RevisionsKnown

LEMMA CancelOrderKeeps ==
    ASSUME ScanInv, NEW o \in Order, CancelOrder(o)
    PROVE  ScanInv'
<1>a. BookTyped' /\ Range(book) \ {o} \subseteq Range(book')
  <2>1. 0 \in 0..Quantity[o] BY ScanAssumption
  <2> QED BY <2>1, BookKept DEF ScanInv, CancelOrder
<1>1. TypeOK'
  <2>1. RowsTyped'
    BY TypeParts, Bounds DEF ScanInv, RowsTyped, CancelOrder, Command
  <2>2. TickTyped' BY TypeParts DEF ScanInv, TickTyped, CancelOrder, tick
  <2> QED BY <1>a, <2>1, <2>2, TypeParts
<1>2. RevisionsKnown' BY RevisionsKept DEF CancelOrder, Command, tick
<1>3. OrdersCovered'
  BY <1>a DEF ScanInv, OrdersCovered, Unvisited, Ahead, CancelOrder, tick
<1>4. PositionsCovered'
  BY ScanAssumption
     DEF ScanInv, PositionsCovered, Unvisited, Ahead, Protected, TypeOK, CancelOrder, tick
<1>5. Placed' BY DEF ScanInv, Placed, CancelOrder, tick
<1>6. IdleIsClear' BY DEF ScanInv, IdleIsClear, CancelOrder, tick
<1> QED BY <1>1, <1>2, <1>3, <1>4, <1>5, <1>6 DEF ScanInv

LEMMA OpenPositionKeeps ==
    ASSUME ScanInv, NEW p \in Position, OpenPosition(p)
    PROVE  ScanInv'
<1>1. TypeOK'
  <2>1. BookTyped' BY TypeParts DEF ScanInv, BookTyped, OpenPosition, Command, rows
  <2>2. RowsTyped' BY TypeParts, Bounds DEF ScanInv, RowsTyped, OpenPosition, Command, rows
  <2>3. TickTyped' BY TypeParts, Bounds DEF ScanInv, TickTyped, OpenPosition, Command, tick, history
  <2> QED BY <2>1, <2>2, <2>3, TypeParts
<1>2. RevisionsKnown'
  <2>1. moves' = moves + 1 /\ UNCHANGED <<protection, raised, phase, todo>>
    BY DEF OpenPosition, Command, tick
  <2>2. \A q \in Position : protection'[q].revision <= moves'
    <3> SUFFICES ASSUME NEW q \in Position PROVE protection[q].revision <= moves + 1
      BY <2>1
    <3>1. moves \in Nat /\ protection[q].revision \in Nat BY RevisionTyped DEF ScanInv
    <3>2. protection[q].revision <= moves BY DEF ScanInv, RevisionsKnown
    <3> QED BY <3>1, <3>2
  <2>3. moves' > 0 BY <2>1, RevisionTyped DEF ScanInv
  <2>4. status' = [status EXCEPT ![p] = "open"] /\ status[p] = "none" BY DEF OpenPosition
  <2>5. opening' # <<>> => opening'[1] = p BY DEF OpenPosition, Command
  <2>6. status \in [Position -> {"none", "open", "closed"}] BY DEF ScanInv, TypeOK
  <2> QED BY <2>1, <2>2, <2>3, <2>4, <2>5, <2>6 DEF ScanInv, RevisionsKnown
<1>3. OrdersCovered'
  BY ScanAssumption
     DEF ScanInv, OrdersCovered, Unvisited, Ahead, TypeOK,
         OpenPosition, Command, rows, tick, history
<1>4. PositionsCovered'
  BY ScanAssumption
     DEF ScanInv, PositionsCovered, Unvisited, Ahead, Protected, TypeOK,
         OpenPosition, Command, rows, tick, history
<1>5. Placed'
  BY ScanAssumption
     DEF ScanInv, Placed, TypeOK,
         OpenPosition, Command, rows, tick, history
<1>6. IdleIsClear'
  BY ScanAssumption
     DEF ScanInv, IdleIsClear,
         OpenPosition, Command, rows, tick, history
<1> QED BY <1>1, <1>2, <1>3, <1>4, <1>5, <1>6 DEF ScanInv

LEMMA ApplyInitialProtectionKeeps ==
    ASSUME ScanInv, ApplyInitialProtection
    PROVE  ScanInv'
<1>1. TypeOK'
  <2>1. BookTyped' BY TypeParts DEF ScanInv, BookTyped, ApplyInitialProtection, rows
  <2>2. RowsTyped' 
    <3>1. moves \in 1..MaxMoves /\ 1 \in 1..MaxMoves
      BY Bounds DEF ScanInv, TypeOK, RevisionsKnown, ApplyInitialProtection
    <3>2. [revision |-> 1, is |-> opening[2], enabled |-> TRUE] \in Protection
      BY <3>1 DEF ScanInv, TypeOK, ApplyInitialProtection, Protection
    <3> QED BY <3>2, TypeParts DEF ScanInv, RowsTyped, ApplyInitialProtection
  <2>3. TickTyped'
    BY TypeParts, Bounds DEF ScanInv, TickTyped, ApplyInitialProtection, tick, history
  <2> QED BY <2>1, <2>2, <2>3, TypeParts
<1>2. RevisionsKnown'
  <2>1. UNCHANGED <<moves, status, raised, phase, todo>> /\ opening' = <<>>
    BY DEF ApplyInitialProtection, tick
  <2>2. \A q \in Position : protection[q].revision \in Nat /\ moves \in Nat
    BY RevisionTyped DEF ScanInv
  <2>3. /\ moves > 0 /\ status[opening[1]] # "none"
        /\ protection[opening[1]].revision = 0
    BY DEF ScanInv, RevisionsKnown, ApplyInitialProtection, NoProtection
  <2>4. \A q \in Position : protection'[q] = protection[q] \/
           (q = opening[1] /\ protection'[q].revision = 1)
    BY DEF ScanInv, TypeOK, ApplyInitialProtection
  <2>5. \A q \in Position :
          protection[q].revision <= protection'[q].revision /\ protection'[q].revision <= moves
    BY <2>2, <2>3, <2>4 DEF ScanInv, RevisionsKnown
  <2>6. \A q \in Position : protection'[q].revision \in Nat BY <2>2, <2>4
  <2>7. \A k \in raised' :
          k.position \in Position /\ k.revision \in 1..protection'[k.position].revision
    BY <2>1, <2>2, <2>5, <2>6 DEF ScanInv, RevisionsKnown
  <2>8. phase' = "positions" => \A c \in todo' : c.is.revision <= protection'[c.row].revision
    <3> SUFFICES ASSUME phase = "positions", NEW c \in todo
                 PROVE  c.is.revision <= protection'[c.row].revision
      BY <2>1
    <3>1. c.row \in Position /\ c.is.revision \in Nat
      BY Bounds DEF ScanInv, TypeOK, Protection
    <3>2. c.is.revision <= protection[c.row].revision BY DEF ScanInv, RevisionsKnown
    <3> QED BY <2>2, <2>5, <2>6, <3>1, <3>2
  <2>9. \A q \in Position : status'[q] = "none" => protection'[q] = NoProtection
    BY <2>1, <2>3, <2>4 DEF ScanInv, RevisionsKnown
  <2> QED BY <2>1, <2>5, <2>7, <2>8, <2>9 DEF RevisionsKnown
<1>3. OrdersCovered'
  BY ScanAssumption
     DEF ScanInv, OrdersCovered, Unvisited, Ahead, TypeOK,
         ApplyInitialProtection, rows, tick, history
<1>4. PositionsCovered'
  <2>1. /\ UNCHANGED <<status, phase, todo, passed, steady, visited, misread>>
        /\ protection[opening[1]] = NoProtection
    BY DEF ScanInv, RevisionsKnown, ApplyInitialProtection, tick, history
  <2>2. \A q \in Position : protection[q] # NoProtection => protection'[q] = protection[q]
    BY <2>1 DEF ScanInv, TypeOK, ApplyInitialProtection
  <2>3. Protected \subseteq Protected' BY <2>1, <2>2 DEF Protected
  <2> QED BY <2>1, <2>3 DEF ScanInv, PositionsCovered, Unvisited, Ahead
<1>5. Placed'
  BY ScanAssumption
     DEF ScanInv, Placed, TypeOK,
         ApplyInitialProtection, rows, tick, history
<1>6. IdleIsClear'
  BY ScanAssumption
     DEF ScanInv, IdleIsClear,
         ApplyInitialProtection, rows, tick, history
<1> QED BY <1>1, <1>2, <1>3, <1>4, <1>5, <1>6 DEF ScanInv

LEMMA AdjustProtectionKeeps ==
    ASSUME ScanInv, NEW p \in Position, NEW c \in Condition, NEW enabled \in BOOLEAN,
           AdjustProtection(p, c, enabled)
    PROVE  ScanInv'
<1>1. TypeOK'
  <2>1. BookTyped' BY TypeParts DEF ScanInv, BookTyped, AdjustProtection, Command, rows
  <2>2. RowsTyped' 
    <3>1. protection[p].revision + 1 \in 1..MaxMoves
      BY Bounds, RevisionTyped DEF ScanInv, TypeOK, RevisionsKnown, AdjustProtection, Command
    <3>2. [revision |-> protection[p].revision + 1, is |-> c, enabled |-> enabled] \in Protection
      BY <3>1 DEF Protection
    <3>3. protection' = [protection EXCEPT ![p] =
             [revision |-> protection[p].revision + 1, is |-> c, enabled |-> enabled]]
      BY DEF AdjustProtection, NextRevision
    <3>4. protection' \in [Position -> {NoProtection} \cup Protection]
      BY <3>2, <3>3 DEF ScanInv, TypeOK
    <3> QED BY <3>4, TypeParts, Bounds DEF ScanInv, RowsTyped, AdjustProtection, Command
  <2>3. TickTyped'
    BY TypeParts, Bounds DEF ScanInv, TickTyped, AdjustProtection, Command, tick, history
  <2> QED BY <2>1, <2>2, <2>3, TypeParts
<1>2. RevisionsKnown'
  <2>1. UNCHANGED <<status, raised, phase, todo>> /\ opening' = <<>> /\ moves' = moves + 1
    BY DEF AdjustProtection, Command, tick
  <2>2. \A q \in Position : protection[q].revision \in Nat /\ moves \in Nat
    BY RevisionTyped DEF ScanInv
  <2>3. \A q \in Position : protection'[q] = protection[q] \/
           (q = p /\ protection'[q].revision = protection[q].revision + 1)
    BY DEF ScanInv, TypeOK, AdjustProtection, NextRevision
  <2>4. \A q \in Position :
          protection[q].revision <= protection'[q].revision /\ protection'[q].revision <= moves'
    BY <2>1, <2>2, <2>3 DEF ScanInv, RevisionsKnown
  <2>5. \A q \in Position : protection'[q].revision \in Nat BY <2>2, <2>3
  <2>6. \A k \in raised' :
          k.position \in Position /\ k.revision \in 1..protection'[k.position].revision
    BY <2>1, <2>2, <2>4, <2>5 DEF ScanInv, RevisionsKnown
  <2>7. phase' = "positions" => \A d \in todo' : d.is.revision <= protection'[d.row].revision
    <3> SUFFICES ASSUME phase = "positions", NEW d \in todo
                 PROVE  d.is.revision <= protection'[d.row].revision
      BY <2>1
    <3>1. d.row \in Position /\ d.is.revision \in Nat
      BY Bounds DEF ScanInv, TypeOK, Protection
    <3>2. d.is.revision <= protection[d.row].revision BY DEF ScanInv, RevisionsKnown
    <3> QED BY <2>2, <2>4, <2>5, <3>1, <3>2
  <2>8. \A q \in Position : status'[q] = "none" => protection'[q] = NoProtection
    BY <2>1 DEF ScanInv, TypeOK, RevisionsKnown, AdjustProtection
  <2> QED BY <2>1, <2>4, <2>6, <2>7, <2>8 DEF RevisionsKnown
<1>3. OrdersCovered'
  BY ScanAssumption
     DEF ScanInv, OrdersCovered, Unvisited, Ahead, TypeOK,
         AdjustProtection, Command, NextRevision, rows, tick, history
<1>4. PositionsCovered'
  BY ScanAssumption
     DEF ScanInv, PositionsCovered, Unvisited, Ahead, Protected, TypeOK,
         AdjustProtection, Command, NextRevision, rows, tick, history
<1>5. Placed'
  BY ScanAssumption
     DEF ScanInv, Placed, TypeOK,
         AdjustProtection, Command, NextRevision, rows, tick, history
<1>6. IdleIsClear'
  BY ScanAssumption
     DEF ScanInv, IdleIsClear,
         AdjustProtection, Command, NextRevision, rows, tick, history
<1> QED BY <1>1, <1>2, <1>3, <1>4, <1>5, <1>6 DEF ScanInv

LEMMA RecordSignalKeeps ==
    ASSUME ScanInv, NEW p \in Position, NEW s \in Signal, RecordSignal(p, s)
    PROVE  ScanInv'
<1>1. TypeOK'
  BY ScanAssumption
     DEF ScanInv, TypeOK, Protection,
         RecordSignal, Command, SignalKey, rows, tick, history
<1>2. RevisionsKnown'
  <2>1. /\ UNCHANGED <<protection, status, phase, todo>>
        /\ opening' = <<>> /\ moves' = moves + 1
    BY DEF RecordSignal, Command, tick
  <2>2. \A q \in Position : protection[q].revision \in Nat /\ moves \in Nat
    BY RevisionTyped DEF ScanInv
  <2>3. protection[p].revision \in 1..protection[p].revision
    BY RevisionTyped, Bounds DEF ScanInv, RecordSignal, Protected, Protection
  <2>4. \A k \in raised' :
          k.position \in Position /\ k.revision \in 1..protection[k.position].revision
    BY <2>3 DEF ScanInv, RevisionsKnown, RecordSignal, SignalKey
  <2>5. \A q \in Position : protection[q].revision <= moves'
    BY <2>1, <2>2 DEF ScanInv, RevisionsKnown
  <2> QED BY <2>1, <2>4, <2>5 DEF ScanInv, RevisionsKnown
<1>3. OrdersCovered'
  BY ScanAssumption
     DEF ScanInv, OrdersCovered, Unvisited, Ahead, TypeOK,
         RecordSignal, Command, SignalKey, rows, tick, history
<1>4. PositionsCovered'
  BY ScanAssumption
     DEF ScanInv, PositionsCovered, Unvisited, Ahead, Protected, TypeOK,
         RecordSignal, Command, SignalKey, rows, tick, history
<1>5. Placed'
  BY ScanAssumption
     DEF ScanInv, Placed, TypeOK,
         RecordSignal, Command, SignalKey, rows, tick, history
<1>6. IdleIsClear'
  BY ScanAssumption
     DEF ScanInv, IdleIsClear,
         RecordSignal, Command, SignalKey, rows, tick, history
<1> QED BY <1>1, <1>2, <1>3, <1>4, <1>5, <1>6 DEF ScanInv

LEMMA ClosePositionKeeps ==
    ASSUME ScanInv, NEW p \in Position, ClosePosition(p)
    PROVE  ScanInv'
<1>1. TypeOK'
  BY ScanAssumption
     DEF ScanInv, TypeOK, Protection,
         ClosePosition, Command, rows, tick, history
<1>2. RevisionsKnown'
  BY ScanAssumption
     DEF ScanInv, RevisionsKnown, TypeOK, Protection, NoProtection,
         ClosePosition, Command, rows, tick, history
<1>3. OrdersCovered'
  BY ScanAssumption
     DEF ScanInv, OrdersCovered, Unvisited, Ahead, TypeOK,
         ClosePosition, Command, rows, tick, history
<1>4. PositionsCovered'
  BY ScanAssumption
     DEF ScanInv, PositionsCovered, Unvisited, Ahead, Protected, TypeOK,
         ClosePosition, Command, rows, tick, history
<1>5. Placed'
  BY ScanAssumption
     DEF ScanInv, Placed, TypeOK,
         ClosePosition, Command, rows, tick, history
<1>6. IdleIsClear'
  BY ScanAssumption
     DEF ScanInv, IdleIsClear,
         ClosePosition, Command, rows, tick, history
<1> QED BY <1>1, <1>2, <1>3, <1>4, <1>5, <1>6 DEF ScanInv

LEMMA QuoteChangesKeeps ==
    ASSUME ScanInv, NEW p \in Position, QuoteChanges(p)
    PROVE  ScanInv'
<1>1. TypeOK'
  <2>1. BookTyped' BY TypeParts DEF ScanInv, BookTyped, QuoteChanges, rows
  <2>2. RowsTyped' BY TypeParts, Bounds DEF ScanInv, RowsTyped, QuoteChanges, rows
  <2>3. TickTyped' BY TypeParts, Bounds DEF ScanInv, TickTyped, QuoteChanges, tick, history
  <2> QED BY <2>1, <2>2, <2>3, TypeParts
<1>2. RevisionsKnown' BY RevisionsKept DEF QuoteChanges, tick
<1>3. OrdersCovered'
  BY ScanAssumption
     DEF ScanInv, OrdersCovered, Unvisited, Ahead, TypeOK,
         QuoteChanges, rows, tick, history
<1>4. PositionsCovered'
  BY ScanAssumption
     DEF ScanInv, PositionsCovered, Unvisited, Ahead, Protected, TypeOK,
         QuoteChanges, rows, tick, history
<1>5. Placed'
  BY ScanAssumption
     DEF ScanInv, Placed, TypeOK,
         QuoteChanges, rows, tick, history
<1>6. IdleIsClear'
  BY ScanAssumption
     DEF ScanInv, IdleIsClear,
         QuoteChanges, rows, tick, history
<1> QED BY <1>1, <1>2, <1>3, <1>4, <1>5, <1>6 DEF ScanInv

LEMMA NextDayKeeps ==
    ASSUME ScanInv, NextDay
    PROVE  ScanInv'
<1>1. TypeOK'
  BY ScanAssumption
     DEF ScanInv, TypeOK, Protection,
         NextDay, rows, tick, history
<1>2. RevisionsKnown'
  BY ScanAssumption
     DEF ScanInv, RevisionsKnown, TypeOK, Protection, NoProtection,
         NextDay, rows, tick, history
<1>3. OrdersCovered'
  BY ScanAssumption
     DEF ScanInv, OrdersCovered, Unvisited, Ahead, TypeOK,
         NextDay, rows, tick, history
<1>4. PositionsCovered'
  BY ScanAssumption
     DEF ScanInv, PositionsCovered, Unvisited, Ahead, Protected, TypeOK,
         NextDay, rows, tick, history
<1>5. Placed'
  BY ScanAssumption
     DEF ScanInv, Placed, TypeOK,
         NextDay, rows, tick, history
<1>6. IdleIsClear'
  BY ScanAssumption
     DEF ScanInv, IdleIsClear,
         NextDay, rows, tick, history
<1> QED BY <1>1, <1>2, <1>3, <1>4, <1>5, <1>6 DEF ScanInv

LEMMA StartTickKeeps ==
    ASSUME ScanInv, StartTick
    PROVE  ScanInv'
<1>1. TypeOK'
  <2>1. BookTyped' BY TypeParts DEF ScanInv, BookTyped, StartTick, rows
  <2>2. RowsTyped' BY TypeParts, Bounds DEF ScanInv, RowsTyped, StartTick, rows
  <2>3. TickTyped' 
    <3>1. Range(book) \subseteq Order /\ Protected \subseteq Position
      BY DEF ScanInv, TypeOK, Protected
    <3> QED BY <3>1, TypeParts DEF ScanInv, TickTyped, StartTick, history
  <2> QED BY <2>1, <2>2, <2>3, TypeParts
<1>2. RevisionsKnown'
  BY ScanAssumption
     DEF ScanInv, RevisionsKnown, TypeOK, Protection, NoProtection,
         StartTick, rows, tick, history
<1>3. OrdersCovered'
  <2>1. Protected \cap Order = {} BY ScanAssumption DEF Protected
  <2>2. phase' = "page" /\ passed' = {} /\ book' = book
    BY DEF ScanInv, IdleIsClear, StartTick, rows
  <2> QED BY <2>1, <2>2 DEF OrdersCovered, Unvisited, Ahead, StartTick
<1>4. PositionsCovered'
  <2>1. Range(book) \cap Position = {} BY ScanAssumption DEF ScanInv, TypeOK
  <2>2. phase' = "page" /\ passed' = {} /\ Protected' = Protected
    BY DEF ScanInv, IdleIsClear, StartTick, rows, Protected
  <2> QED BY <2>1, <2>2 DEF PositionsCovered, Unvisited, Ahead, StartTick
<1>5. Placed'
  BY ScanAssumption
     DEF ScanInv, Placed, TypeOK,
         StartTick, rows, tick, history
<1>6. IdleIsClear'
  BY ScanAssumption
     DEF ScanInv, IdleIsClear,
         StartTick, rows, tick, history
<1> QED BY <1>1, <1>2, <1>3, <1>4, <1>5, <1>6 DEF ScanInv

LEMMA RebuildFailsKeeps ==
    ASSUME ScanInv, RebuildFails
    PROVE  ScanInv'
<1>1. TypeOK'
  BY ScanAssumption
     DEF ScanInv, TypeOK, Protection,
         RebuildFails, EndTick, rows, tick, history
<1>2. RevisionsKnown'
  BY ScanAssumption
     DEF ScanInv, RevisionsKnown, TypeOK, Protection, NoProtection,
         RebuildFails, EndTick, rows, tick, history
<1>3. OrdersCovered'
  BY ScanAssumption
     DEF ScanInv, OrdersCovered, Unvisited, Ahead, TypeOK,
         RebuildFails, EndTick, rows, tick, history
<1>4. PositionsCovered'
  BY ScanAssumption
     DEF ScanInv, PositionsCovered, Unvisited, Ahead, Protected, TypeOK,
         RebuildFails, EndTick, rows, tick, history
<1>5. Placed'
  BY ScanAssumption
     DEF ScanInv, Placed, TypeOK,
         RebuildFails, EndTick, rows, tick, history
<1>6. IdleIsClear'
  BY ScanAssumption
     DEF ScanInv, IdleIsClear,
         RebuildFails, EndTick, rows, tick, history
<1> QED BY <1>1, <1>2, <1>3, <1>4, <1>5, <1>6 DEF ScanInv

(* The copies of a page: one of each row past the anchor. *)
LEMMA OrderCopiesAre ==
    ASSUME TypeOK
    PROVE  /\ \A c \in OrderCopies :
                c.row \in Order /\ c.left \in 1..Quantity[c.row] /\ c.at \in Nat
           /\ \A o \in Range(book) \ passed : \E c \in OrderCopies : c.row = o
<1>1. \A i \in DOMAIN book : i \in Nat /\ book[i] \in Range(book) BY DEF TypeOK, Range
<1>2. \A o \in Range(book) : o \in Order /\ left[o] \in 1..Quantity[o]
  BY ScanAssumption DEF TypeOK
<1>3. \A c \in OrderCopies : \E i \in DOMAIN book :
        c.row = book[i] /\ c.left = left[book[i]] /\ c.at = i
  BY DEF OrderCopies
<1>4. \A c \in OrderCopies : c.row \in Order /\ c.left \in 1..Quantity[c.row] /\ c.at \in Nat
  BY <1>1, <1>2, <1>3
<1>5. ASSUME NEW o \in Range(book) \ passed PROVE \E c \in OrderCopies : c.row = o
  <2>1. PICK i \in DOMAIN book : book[i] = o BY DEF Range
  <2>2. [row |-> book[i], at |-> i, left |-> left[book[i]]] \in OrderCopies
    BY <2>1 DEF OrderCopies
  <2> QED BY <2>1, <2>2
<1> QED BY <1>4, <1>5

LEMMA PositionCopiesAre ==
    ASSUME TypeOK
    PROVE  /\ PositionCopies \subseteq [row : Position, at : Position, is : Protection]
           /\ \A c \in PositionCopies : c.at = c.row /\ c.is = protection[c.row]
           /\ \A p \in Protected : (\A q \in passed \cap Position : q < p) =>
                \E c \in PositionCopies : c.row = p
<1>1. \A p \in Protected : p \in Position /\ protection[p] \in Protection
  BY RevisionTyped DEF Protected
<1>2. \A c \in PositionCopies : \E p \in Protected :
        c = [row |-> p, at |-> p, is |-> protection[p]]
  BY DEF PositionCopies, ProtectionCopies
<1>3. ASSUME NEW p \in Protected, \A q \in passed \cap Position : q < p
      PROVE  \E c \in PositionCopies : c.row = p
  <2>1. [row |-> p, at |-> p, is |-> protection[p]] \in PositionCopies
    BY <1>3 DEF PositionCopies, ProtectionCopies
  <2> QED BY <2>1
<1> QED BY <1>1, <1>2, <1>3

LEMMA PositionNat == Position \subseteq Nat BY DEF Position

(* A page of positions begins when no steady order is left unvisited. *)
LEMMA PositionsReadKeeps ==
    ASSUME ScanInv, Read(PositionCopies), phase' = "positions", phase \in {"page", "orders"},
           ~ misread => Unvisited \cap Order = {},
           UNCHANGED <<moves, rows, processed, batches, passed, outcome, steady, visited>>
    PROVE  ScanInv'
<1>d. /\ todo' \subseteq PositionCopies
      /\ ~ misread' => ~ misread /\ todo' = PositionCopies
  BY DEF Read
<1>a. TypeOK BY DEF ScanInv
<1>b. UNCHANGED <<today, left, book, status, protection, opening, quote, raised>> BY DEF rows
<1>c. Unvisited' = Unvisited /\ Protected' = Protected BY <1>b DEF Unvisited, Protected
<1>1. TypeOK'
  <2>1. BookTyped' BY <1>b, TypeParts DEF ScanInv, BookTyped
  <2>2. RowsTyped' BY <1>b, TypeParts DEF ScanInv, RowsTyped
  <2>3. todo' \subseteq [row : Position, at : Position, is : Protection]
    BY <1>d, <1>a, PositionCopiesAre
  <2>4. faults' \in 0..MaxFaults BY Bounds DEF ScanInv, TypeOK, Read
  <2>5. TickTyped' BY <2>3, <2>4, TypeParts DEF ScanInv, TickTyped
  <2> QED BY <2>1, <2>2, <2>5, TypeParts
<1>2. RevisionsKnown'
  <2>1. \A c \in todo' : c.row \in Position /\ c.is = protection[c.row]
    BY <1>d, <1>a, PositionCopiesAre
  <2>2. \A c \in todo' : c.is.revision <= protection[c.row].revision
    BY <2>1, <1>a, RevisionTyped
  <2> QED BY <1>b, <2>2 DEF ScanInv, RevisionsKnown
<1>3. OrdersCovered' BY <1>d, <1>b, <1>c DEF ScanInv, OrdersCovered
<1>4. PositionsCovered'
  <2>1. ASSUME ~ misread', NEW p \in Unvisited \cap Position PROVE p \in Ahead'
    <3>1. \A q \in passed \cap Position : q < p
      BY <1>d, <2>1 DEF ScanInv, PositionsCovered
    <3>2. p \in Protected BY DEF ScanInv, PositionsCovered, Unvisited
    <3>3. PICK c \in PositionCopies : c.row = p BY <1>a, <3>1, <3>2, PositionCopiesAre
    <3> QED BY <1>d, <2>1, <3>3 DEF Ahead
  <2> QED BY <1>d, <1>c, <2>1 DEF ScanInv, PositionsCovered
<1>5. Placed'
  <2>1. \A c \in todo' : c.at = c.row /\ c.row \in Position
    BY <1>d, <1>a, PositionCopiesAre
  <2> QED BY <2>1, PositionNat DEF Placed
<1>6. IdleIsClear' BY DEF IdleIsClear
<1> QED BY <1>1, <1>2, <1>3, <1>4, <1>5, <1>6 DEF ScanInv

LEMMA OrdersDoneKeeps ==
    ASSUME ScanInv, OrdersDone
    PROVE  ScanInv'
<1>1. ~ misread => Unvisited \cap Order = {}
  BY DEF ScanInv, OrdersCovered, OrdersDone, Ahead
<1> QED BY <1>1, PositionsReadKeeps DEF OrdersDone

LEMMA StartPageKeeps ==
    ASSUME ScanInv, StartPage
    PROVE  ScanInv'
<1>1. CASE passed \cap Position # {}
  <2>1. ~ misread => Unvisited \cap Order = {}
    BY <1>1 DEF ScanInv, OrdersCovered, StartPage
  <2> QED BY <1>1, <2>1, PositionsReadKeeps DEF StartPage
<1>2. CASE passed \cap Position = {}
  <2>d. /\ phase = "page" /\ phase' = "orders"
        /\ todo' \subseteq OrderCopies
        /\ ~ misread' => ~ misread /\ todo' = OrderCopies
    BY <1>2 DEF StartPage, Read
  <2>a. UNCHANGED <<today, left, book, status, protection, opening, quote, raised, moves,
                     processed, batches, passed, outcome, steady, visited>>
    BY DEF StartPage, rows
  <2>b. Unvisited' = Unvisited /\ Protected' = Protected BY <2>a DEF Unvisited, Protected
  <2>c. TypeOK BY DEF ScanInv
  <2>1. TypeOK'
    <3>1. BookTyped' BY <2>a, TypeParts DEF ScanInv, BookTyped
    <3>2. RowsTyped' BY <2>a, TypeParts DEF ScanInv, RowsTyped
    <3>3. \A c \in todo' : c.row \in Order /\ c.left \in 1..Quantity[c.row]
      BY <2>d, <2>c, OrderCopiesAre
    <3>4. faults' \in 0..MaxFaults BY <1>2, Bounds DEF ScanInv, TypeOK, StartPage, Read
    <3>5. TickTyped' BY <2>d, <2>a, <3>3, <3>4, TypeParts DEF ScanInv, TickTyped
    <3> QED BY <3>1, <3>2, <3>5, TypeParts
  <2>2. RevisionsKnown' BY <2>d, <2>a DEF ScanInv, RevisionsKnown
  <2>3. OrdersCovered'
    <3>1. ASSUME ~ misread', NEW o \in Unvisited \cap Order PROVE o \in Ahead'
      <4>1. o \in Range(book) \ passed BY DEF ScanInv, OrdersCovered, Unvisited
      <4>2. PICK c \in OrderCopies : c.row = o BY <2>c, <4>1, OrderCopiesAre
      <4> QED BY <2>d, <3>1, <4>2 DEF Ahead
    <3> QED BY <1>2, <2>d, <2>a, <2>b, <3>1 DEF ScanInv, OrdersCovered
  <2>4. PositionsCovered' BY <2>d, <2>a, <2>b DEF ScanInv, PositionsCovered
  <2>5. Placed' BY <2>d, <2>c, OrderCopiesAre DEF Placed
  <2>6. IdleIsClear' BY <2>d DEF IdleIsClear
  <2> QED BY <2>1, <2>2, <2>3, <2>4, <2>5, <2>6 DEF ScanInv
<1> QED BY <1>1, <1>2

LEMMA VisitOrderKeeps ==
    ASSUME ScanInv, VisitOrder
    PROVE  ScanInv'
<1> DEFINE o == First.row
           rest == First.left
<1>1. First \in todo BY FirstIs DEF ScanInv, VisitOrder
<1>2. o \in Order /\ rest \in 1..Quantity[o] /\ Quantity[o] \in Nat
  BY <1>1, ScanAssumption DEF ScanInv, TypeOK, VisitOrder
<1>3. /\ phase = "orders" /\ todo' = todo \ {First}
      /\ processed < BatchSize /\ processed' = processed + 1
      /\ visited' = visited \cup {o}
      /\ UNCHANGED <<moves, today, status, protection, opening, quote, phase, batches, outcome,
                     steady, misread>>
  BY DEF VisitOrder, Visit
<1>4. /\ passed' \subseteq passed \cup {o}
      /\ raised' = raised
      /\ faults' = faults \/ (faults < MaxFaults /\ faults' = faults + 1)
      /\ \/ left' = left /\ book' = book
         \/ \E n \in 0..rest : /\ left' = [left EXCEPT ![o] = n]
                              /\ book' = IF n = 0 THEN Without(book, o)
                                         ELSE Append(Without(book, o), o)
  <2>1. CASE CommitOrder(o, 0)
    <3>1. 0 \in 0..rest BY <1>2
    <3> QED BY <2>1, <3>1 DEF CommitOrder
  <2>2. CASE \E filled \in 1..rest : CommitOrder(o, rest - filled)
    <3>1. PICK filled \in 1..rest : CommitOrder(o, rest - filled) BY <2>2
    <3>2. rest - filled \in 0..rest BY <1>2
    <3> QED BY <3>1, <3>2 DEF CommitOrder
  <2>3. CASE passed' = passed \cup {o} /\ UNCHANGED <<left, book, raised>>
             /\ (faults' = faults \/ (faults < MaxFaults /\ faults' = faults + 1))
    BY <2>3
  <2> QED BY <2>1, <2>2, <2>3 DEF VisitOrder
<1>5. BookTyped' /\ Range(book) \ {o} \subseteq Range(book')
  <2>1. CASE left' = left /\ book' = book BY <2>1, TypeParts DEF ScanInv, BookTyped
  <2>2. ASSUME NEW n \in 0..rest, left' = [left EXCEPT ![o] = n],
               book' = IF n = 0 THEN Without(book, o) ELSE Append(Without(book, o), o)
        PROVE  BookTyped' /\ Range(book) \ {o} \subseteq Range(book')
    <3>1. n \in 0..Quantity[o] BY <1>2
    <3> QED BY <1>2, <2>2, <3>1, BookKept DEF ScanInv
  <2> QED BY <1>4, <2>1, <2>2
<1>6. Unvisited' = Unvisited \ {o} BY <1>3 DEF Unvisited
<1>7. Ahead \ {o} \subseteq Ahead' BY <1>3 DEF Ahead
<1>8. o \notin Position BY <1>2, ScanAssumption
<1> HIDE DEF o, rest
<1>9. TypeOK'
  <2>1. RowsTyped' BY <1>3, TypeParts DEF ScanInv, RowsTyped
  <2>2. processed' \in 0..BatchSize BY <1>3, Bounds DEF ScanInv, TypeOK
  <2>3. faults' \in 0..MaxFaults BY <1>4, Bounds DEF ScanInv, TypeOK
  <2>4. TickTyped' BY <1>2, <1>3, <1>4, <2>2, <2>3, TypeParts DEF ScanInv, TickTyped
  <2> QED BY <1>5, <2>1, <2>4, TypeParts
<1>10. RevisionsKnown' BY <1>3, <1>4 DEF ScanInv, RevisionsKnown
<1>11. OrdersCovered' BY <1>3, <1>4, <1>5, <1>6, <1>7, <1>8 DEF ScanInv, OrdersCovered
<1>12. PositionsCovered'
  <2>1. Protected' = Protected BY <1>3 DEF Protected
  <2>2. passed' \cap Position \subseteq passed BY <1>4, <1>8
  <2> QED BY <1>3, <1>6, <2>1, <2>2 DEF ScanInv, PositionsCovered
<1>13. Placed' BY <1>3 DEF ScanInv, Placed
<1>14. IdleIsClear' BY <1>3 DEF IdleIsClear
<1> QED BY <1>9, <1>10, <1>11, <1>12, <1>13, <1>14 DEF ScanInv

LEMMA VisitPositionKeeps ==
    ASSUME ScanInv, VisitPosition
    PROVE  ScanInv'
<1> DEFINE p == First.row
           hits == Hits(p, First.is, quote[p], today)
<1>1. First \in todo /\ \A d \in todo : First.at <= d.at
  BY FirstIs DEF ScanInv, VisitPosition
<1>2. phase = "positions" /\ First \in [row : Position, at : Position, is : Protection]
  BY <1>1 DEF ScanInv, TypeOK, VisitPosition
<1>3. /\ todo' = todo \ {First}
      /\ processed < BatchSize /\ processed' = processed + 1
      /\ visited' = visited \cup {p}
      /\ UNCHANGED <<moves, today, status, protection, opening, quote, phase, batches, outcome,
                     steady, misread>>
      /\ passed' = passed \cup {p}
      /\ UNCHANGED <<left, book>>
      /\ raised' \subseteq raised \cup hits
      /\ faults' = faults \/ (faults < MaxFaults /\ faults' = faults + 1)
  BY DEF VisitPosition, Visit
<1>4. p \in Position /\ First.is \in Protection BY <1>2
<1>5. \A k \in hits : k.position = p /\ k.revision = First.is.revision BY HitsAre
<1>6. First.at = p BY <1>1, <1>2 DEF ScanInv, Placed
<1>7. Unvisited' = Unvisited \ {p} BY <1>3 DEF Unvisited
<1>8. Ahead \ {p} \subseteq Ahead' BY <1>3 DEF Ahead
<1>e. First.is.revision <= protection[p].revision
  BY <1>1, <1>2 DEF ScanInv, RevisionsKnown
<1> HIDE DEF hits
<1>9. TypeOK'
  <2>1. BookTyped' BY <1>3, TypeParts DEF ScanInv, BookTyped
  <2>2. RowsTyped' BY <1>3, TypeParts DEF ScanInv, RowsTyped
  <2>3. processed' \in 0..BatchSize BY <1>3, Bounds DEF ScanInv, TypeOK
  <2>4. faults' \in 0..MaxFaults BY <1>3, Bounds DEF ScanInv, TypeOK
  <2>5. TickTyped' BY <1>2, <1>3, <1>4, <2>3, <2>4, TypeParts DEF ScanInv, TickTyped
  <2> QED BY <2>1, <2>2, <2>5, TypeParts
<1>10. RevisionsKnown'
  <2>1. First.is.revision \in 1..protection[p].revision
    BY <1>4, <1>e, RevisionTyped, Bounds DEF ScanInv, Protection
  <2>2. \A k \in raised' :
          k.position \in Position /\ k.revision \in 1..protection[k.position].revision
    BY <1>3, <1>4, <1>5, <2>1 DEF ScanInv, RevisionsKnown
  <2> QED BY <1>3, <2>2 DEF ScanInv, RevisionsKnown
<1>11. OrdersCovered' BY <1>2, <1>3, <1>7 DEF ScanInv, OrdersCovered
<1>12. PositionsCovered'
  <2>1. Protected' = Protected BY <1>3 DEF Protected
  <2>2. ASSUME ~ misread, NEW q \in Unvisited' \cap Position PROVE p < q
    <3>1. PICK d \in todo : d.row = q
      BY <1>2, <1>7, <2>2 DEF ScanInv, PositionsCovered, Ahead
    <3>2. d.at = q BY <1>2, <3>1 DEF ScanInv, Placed
    <3>3. p <= q /\ p # q BY <1>1, <1>6, <1>7, <3>2
    <3>4. p \in Nat /\ q \in Nat BY <1>4, <2>2, PositionNat
    <3> HIDE DEF p
    <3> QED BY <3>3, <3>4
  <2>3. ASSUME ~ misread', NEW r \in Unvisited' \cap Position, NEW q \in passed' \cap Position
        PROVE  q < r
    BY <1>3, <1>7, <2>2, <2>3 DEF ScanInv, PositionsCovered
  <2> QED BY <1>3, <1>7, <1>8, <2>1, <2>3 DEF ScanInv, PositionsCovered
<1>13. Placed' BY <1>3 DEF ScanInv, Placed
<1>14. IdleIsClear' BY <1>2, <1>3 DEF IdleIsClear
<1> QED BY <1>9, <1>10, <1>11, <1>12, <1>13, <1>14 DEF ScanInv

LEMMA EndPageKeeps ==
    ASSUME ScanInv, EndPage
    PROVE  ScanInv'
<1>1. TypeOK'
  BY ScanAssumption
     DEF ScanInv, TypeOK, Protection,
         EndPage, EndTick, HasMore, rows, tick, history
<1>2. RevisionsKnown'
  BY ScanAssumption
     DEF ScanInv, RevisionsKnown, TypeOK, Protection, NoProtection,
         EndPage, EndTick, HasMore, rows, tick, history
<1>3. OrdersCovered'
  BY ScanAssumption
     DEF ScanInv, OrdersCovered, Unvisited, Ahead, TypeOK,
         EndPage, EndTick, HasMore, rows, tick, history
<1>4. PositionsCovered'
  BY ScanAssumption
     DEF ScanInv, PositionsCovered, Unvisited, Ahead, Protected, TypeOK,
         EndPage, EndTick, HasMore, rows, tick, history
<1>5. Placed'
  BY ScanAssumption
     DEF ScanInv, Placed, TypeOK,
         EndPage, EndTick, HasMore, rows, tick, history
<1>6. IdleIsClear'
  BY ScanAssumption
     DEF ScanInv, IdleIsClear,
         EndPage, EndTick, HasMore, rows, tick, history
<1> QED BY <1>1, <1>2, <1>3, <1>4, <1>5, <1>6 DEF ScanInv

LEMMA StutterKeeps ==
    ASSUME ScanInv, UNCHANGED vars
    PROVE  ScanInv'
<1>1. TypeOK'
  BY ScanAssumption
     DEF ScanInv, TypeOK, Protection,
         vars, rows, tick, history
<1>2. RevisionsKnown'
  BY ScanAssumption
     DEF ScanInv, RevisionsKnown, TypeOK, Protection, NoProtection,
         vars, rows, tick, history
<1>3. OrdersCovered'
  BY ScanAssumption
     DEF ScanInv, OrdersCovered, Unvisited, Ahead, TypeOK,
         vars, rows, tick, history
<1>4. PositionsCovered'
  BY ScanAssumption
     DEF ScanInv, PositionsCovered, Unvisited, Ahead, Protected, TypeOK,
         vars, rows, tick, history
<1>5. Placed'
  BY ScanAssumption
     DEF ScanInv, Placed, TypeOK,
         vars, rows, tick, history
<1>6. IdleIsClear'
  BY ScanAssumption
     DEF ScanInv, IdleIsClear,
         vars, rows, tick, history
<1> QED BY <1>1, <1>2, <1>3, <1>4, <1>5, <1>6 DEF ScanInv
-----------------------------------------------------------------------------
LEMMA InitScan == Init => ScanInv
<1> SUFFICES ASSUME Init PROVE ScanInv OBVIOUS
<1>1. TypeOK
  <2>1. book \in Seq(Order) /\ IsInjective(book) /\ Range(book) = Order
    BY AllListed DEF Init
  <2>2. BookTyped BY <2>1, ScanAssumption DEF Init, BookTyped
  <2>3. RowsTyped BY ScanAssumption DEF Init, RowsTyped
  <2>4. TickTyped BY Bounds DEF Init, TickTyped
  <2> QED BY <2>2, <2>3, <2>4, TypeParts
<1>2. RevisionsKnown BY DEF Init, RevisionsKnown, NoProtection
<1>3. OrdersCovered BY DEF Init, OrdersCovered, Unvisited
<1>4. PositionsCovered BY DEF Init, PositionsCovered, Unvisited
<1>5. Placed BY DEF Init, Placed
<1>6. IdleIsClear BY DEF Init, IdleIsClear
<1> QED BY <1>1, <1>2, <1>3, <1>4, <1>5, <1>6 DEF ScanInv

LEMMA ScanStep == ScanInv /\ [Next]_vars => ScanInv'
BY CancelOrderKeeps, OpenPositionKeeps, ClosePositionKeeps, QuoteChangesKeeps,
   AdjustProtectionKeeps, RecordSignalKeeps, ApplyInitialProtectionKeeps, NextDayKeeps,
   StartTickKeeps, RebuildFailsKeeps, StartPageKeeps, VisitOrderKeeps, OrdersDoneKeeps,
   VisitPositionKeeps, EndPageKeeps, StutterKeeps
   DEF Next, Page

LEMMA ScanInvHolds == Spec => []ScanInv
BY InitScan, ScanStep, PTL DEF Spec

(* The rows and the tick keep their types, and the list of active orders holds each *)
(* order that has something left to fill exactly once.                              *)
THEOREM ScanTyping == Spec => []TypeOK
<1>1. ScanInv => TypeOK BY DEF ScanInv
<1> QED BY <1>1, ScanInvHolds, PTL

(* A tick that ends as drained, none of whose reads failed, has evaluated every      *)
(* order and protected position that was there, unchanged, from its start: whatever *)
(* the page size, the fills and the commands in between.                            *)
THEOREM NoRowPassedOver == Spec => DrainedVisitsAll
<1>1. ASSUME ScanInv, [Next]_vars
      PROVE  [outcome = "running" /\ outcome' = "drained" /\ ~ misread
                => steady \subseteq visited]_vars
  <2> SUFFICES ASSUME outcome = "running", outcome' = "drained", ~ misread
               PROVE  steady \subseteq visited
    OBVIOUS
  <2>1. EndPage
    BY <1>1
       DEF Next, Page, vars, history, CancelOrder, OpenPosition, ClosePosition, QuoteChanges,
           AdjustProtection, RecordSignal, ApplyInitialProtection, NextDay, StartTick,
           RebuildFails, StartPage, VisitOrder, Visit, OrdersDone, VisitPosition
  <2>2. phase = "positions" /\ todo = {} BY <2>1 DEF EndPage, HasMore, history
  <2>3. Unvisited \cap Order = {} /\ Unvisited \cap Position = {}
    BY <1>1, <2>2 DEF ScanInv, OrdersCovered, PositionsCovered, Ahead
  <2>4. steady \subseteq Order \cup Position BY <1>1 DEF ScanInv, TypeOK
  <2> QED BY <2>3, <2>4 DEF Unvisited
<1> QED BY <1>1, ScanInvHolds, PTL DEF Spec, DrainedVisitsAll

(* No trigger has been raised under the revision a protection is set with, by the *)
(* opening of its position or by an adjustment.                                   *)
THEOREM RevisionsAreFresh == Spec => FreshRevision
<1>1. ASSUME ScanInv, [Next]_vars
      PROVE  [\A p \in Position : protection'[p] # protection[p] =>
               \A k \in raised' : k.position = p => k.revision < protection'[p].revision]_vars
  <2> SUFFICES ASSUME NEW p \in Position, protection'[p] # protection[p],
                      NEW k \in raised', k.position = p
               PROVE  k.revision < protection'[p].revision
    OBVIOUS
  <2>0. protection[p].revision \in Nat BY <1>1, RevisionTyped DEF ScanInv
  <2>1. CASE ApplyInitialProtection
    <3>1. raised' = raised /\ p = opening[1]
      BY <1>1, <2>1 DEF ApplyInitialProtection, ScanInv, TypeOK
    <3>2. protection[p].revision = 0
      BY <1>1, <2>1, <3>1 DEF ApplyInitialProtection, ScanInv, RevisionsKnown, NoProtection
    <3>3. k.revision \in 1..0 BY <1>1, <3>1, <3>2 DEF ScanInv, RevisionsKnown
    <3> QED BY <3>3
  <2>2. CASE \E q \in Position, c \in Condition, enabled \in BOOLEAN :
               AdjustProtection(q, c, enabled)
    <3>1. raised' = raised /\ protection'[p].revision = protection[p].revision + 1
      BY <1>1, <2>2 DEF AdjustProtection, NextRevision, ScanInv, TypeOK
    <3>2. k.revision \in 1..protection[p].revision
      BY <1>1, <3>1 DEF ScanInv, RevisionsKnown
    <3> QED BY <2>0, <3>1, <3>2
  <2>3. ApplyInitialProtection \/ \E q \in Position, c \in Condition, enabled \in BOOLEAN :
               AdjustProtection(q, c, enabled)
    BY <1>1
       DEF Next, Page, vars, rows, CancelOrder, OpenPosition, ClosePosition, QuoteChanges,
           RecordSignal, NextDay, StartTick, RebuildFails, StartPage, VisitOrder, Visit,
           OrdersDone, VisitPosition, EndPage
  <2> QED BY <2>1, <2>2, <2>3
<1> QED BY <1>1, ScanInvHolds, PTL DEF Spec, FreshRevision
=============================================================================
