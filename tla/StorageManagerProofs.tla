------------------------ MODULE StorageManagerProofs ------------------------
(***************************************************************************)
(* The safety of the renter's freelist, for any contracts, estimates,      *)
(* clients and block sizes.  The parts of the invariant:                   *)
(*                                                                         *)
(*   ListOK      the list has no empty blob and one for a contract at      *)
(*               most: ManagerTypes, OneBlob;                              *)
(*   ConfirmInv  of the requests that confirm an estimate one gets past    *)
(*               its first contract, and none does once it was added: the  *)
(*               space of an estimate comes in once;                       *)
(*   CountsOK    the blobs that callers have are counted.                  *)
(*                                                                         *)
(* What a search does is said of lists, not of the state: AddBlobsOf, what *)
(* blobs do that come back one by one; SearchInv, what the turns of a      *)
(* search keep, from which it is exact (FindsWhatFits); Spread, that they  *)
(* go around (SearchesSpread).  The ledger is refined step by step         *)
(* (LedgerKept), and with it the bytes are conserved (BytesConserved).     *)
(***************************************************************************)
EXTENDS StorageManager, DataLemmas, TLAPS

-----------------------------------------------------------------------------
(* Blobs that come back to a list.                                         *)

\* What a list of the manager holds.
Part == [contract : Contracts, amount : Nat]

OnePer(list) ==
    \A i, j \in DOMAIN list : list[i].contract = list[j].contract => i = j

Full(list) == \A i \in DOMAIN list : list[i].amount > 0

FreeIn(list, c) ==
    SumFunctionOnSet([i \in DOMAIN list |-> list[i].amount],
                     {i \in DOMAIN list : list[i].contract = c})

\* What blob b gives to contract c.
Gives(b, c) == IF b.contract = c THEN b.amount ELSE 0

\* What the first m of some blobs give to contract c.
Share(blobs, c) == [k \in DOMAIN blobs |-> Gives(blobs[k], c)]

GivenBy(blobs, m, c) == SumFunctionOnSet(Share(blobs, c), 1..m)

\* A list with one blob per contract has of a contract what its blob has.
LEMMA FreeOfOne ==
    ASSUME NEW list \in Seq(Part), OnePer(list), NEW c
    PROVE  /\ \A i \in DOMAIN list : list[i].contract = c => FreeIn(list, c) = list[i].amount
           /\ (\A i \in DOMAIN list : list[i].contract # c) => FreeIn(list, c) = 0
           /\ FreeIn(list, c) \in Nat
<1> DEFINE f == [i \in DOMAIN list |-> list[i].amount]
           S == {i \in DOMAIN list : list[i].contract = c}
<1>1. FreeIn(list, c) = SumFunctionOnSet(f, S)
    BY DEF FreeIn
<1>2. \A i \in DOMAIN list : list[i] \in Part
    OBVIOUS
<1>3. ASSUME NEW i \in DOMAIN list, list[i].contract = c
      PROVE  FreeIn(list, c) = list[i].amount
  <2>1. S = {i}
    BY <1>3 DEF OnePer
  <2>2. f[i] = list[i].amount /\ f[i] \in Nat
    BY <1>2 DEF Part
  <2> HIDE DEF f, S
  <2>3. IsFiniteSet({i}) /\ {i} \ {i} = {}
    BY FS_Singleton
  <2>4. SumFunctionOnSet(f, {i}) = f[i] + SumFunctionOnSet(f, {i} \ {i})
    BY <2>2, <2>3, SumTakesOut
  <2>5. SumFunctionOnSet(f, {}) = 0
    BY SumOfNone
  <2>6. SumFunctionOnSet(f, {i}) = f[i] + 0
    BY <2>3, <2>4, <2>5
  <2>7. f[i] + 0 = f[i]
    BY <2>2
  <2>8. FreeIn(list, c) = f[i]
    BY <1>1, <2>1, <2>6, <2>7
  <2> QED  BY <2>2, <2>8
<1>4. ASSUME \A i \in DOMAIN list : list[i].contract # c
      PROVE  FreeIn(list, c) = 0
  <2>1. S = {}
    BY <1>4
  <2> QED  BY <1>1, <2>1, SumOfNone
<1> QED
    BY <1>2, <1>3, <1>4 DEF Part

\* What list r has when blob b was put on the list.
Added(list, b, r) ==
    /\ r \in Seq(Part) /\ OnePer(r)
    /\ Len(list) <= Len(r)
    /\ \A i \in DOMAIN list : r[i].contract = list[i].contract
    /\ (\E i \in DOMAIN list : list[i].contract = b.contract) => Len(r) = Len(list)
    /\ \A c : FreeIn(r, c) = FreeIn(list, c) + Gives(b, c)
    /\ Full(list) /\ b.amount > 0 => Full(r)

\* A blob adds what it has to its contract, and to no other.
LEMMA AddBlobOf ==
    ASSUME NEW list \in Seq(Part), OnePer(list), NEW b \in Part,
           NEW r, r = AddBlob(list, b)
    PROVE  Added(list, b, r)
<1> DEFINE same == {i \in DOMAIN list : list[i].contract = b.contract}
<1>1. PICK n \in Nat : n = Len(list) /\ DOMAIN list = 1..n
    OBVIOUS
<1>2. \A i \in 1..n : list[i] \in Part
    BY <1>1
<1>3. b.contract \in Contracts /\ b.amount \in Nat
    BY DEF Part
<1>4. CASE same = {}
  <2>1. r = Append(list, b)
    BY <1>4 DEF AddBlob
  <2>2. /\ r \in Seq(Part) /\ Len(r) = n + 1 /\ DOMAIN r = 1..(n + 1)
        /\ \A i \in 1..n : r[i] = list[i]
        /\ r[n + 1] = b
    BY <1>1, <2>1
  <2>3. OnePer(r)
    BY <1>1, <1>4, <2>2 DEF OnePer
  <2>4. ASSUME NEW c
        PROVE  FreeIn(r, c) = FreeIn(list, c) + Gives(b, c)
    <3>1. CASE b.contract = c
      <4>1. FreeIn(r, c) = b.amount
        BY <2>2, <2>3, <3>1, FreeOfOne
      <4>2. FreeIn(list, c) = 0
        BY <1>4, <3>1, FreeOfOne
      <4> QED  BY <1>3, <3>1, <4>1, <4>2 DEF Gives
    <3>2. CASE b.contract # c /\ \E i \in 1..n : list[i].contract = c
      <4>1. PICK i \in 1..n : list[i].contract = c
        BY <3>2
      <4>2. FreeIn(list, c) = list[i].amount /\ FreeIn(list, c) \in Nat
        BY <1>1, <4>1, FreeOfOne
      <4>3. i \in DOMAIN r /\ r[i] = list[i]
        BY <2>2
      <4>4. FreeIn(r, c) = list[i].amount
        BY <2>2, <2>3, <4>1, <4>3, FreeOfOne
      <4> QED  BY <3>2, <4>2, <4>4 DEF Gives
    <3>3. CASE b.contract # c /\ \A i \in 1..n : list[i].contract # c
      <4>1. FreeIn(list, c) = 0
        BY <1>1, <3>3, FreeOfOne
      <4>2. \A i \in DOMAIN r : r[i].contract # c
        BY <2>2, <3>3
      <4>3. FreeIn(r, c) = 0
        BY <2>2, <2>3, <4>2, FreeOfOne
      <4> QED  BY <3>3, <4>1, <4>3 DEF Gives
    <3> QED  BY <3>1, <3>2, <3>3
  <2>5. Full(list) /\ b.amount > 0 => Full(r)
    BY <1>1, <2>2 DEF Full
  <2> QED  BY <1>1, <1>4, <2>2, <2>3, <2>4, <2>5 DEF Added
<1>5. CASE same # {}
  <2>1. PICK p \in 1..n : list[p].contract = b.contract
    BY <1>1, <1>5
  <2>2. same = {p}
    BY <1>1, <2>1 DEF OnePer
  <2>3. Min(same) = p
    <3>1. \A y \in {p} : p <= y
      BY <1>1
    <3> QED  BY <2>2, <3>1 DEF Min
  <2>4. r = [list EXCEPT ![p].amount = @ + b.amount]
    BY <1>5, <2>3 DEF AddBlob
  <2>5. list[p] \in Part /\ list[p].amount \in Nat
    BY <1>2 DEF Part
  <2>6. [list[p] EXCEPT !.amount = @ + b.amount] \in Part
    BY <1>3, <2>5 DEF Part
  <2>7. /\ r = [list EXCEPT ![p] = [list[p] EXCEPT !.amount = @ + b.amount]]
        /\ DOMAIN r = 1..n
    BY <1>1, <2>4
  <2>8. r \in Seq(Part) /\ Len(r) = n
    BY <1>1, <2>6, <2>7
  <2>9. /\ r[p].contract = b.contract /\ r[p].amount = list[p].amount + b.amount
        /\ \A i \in 1..n : i # p => r[i] = list[i]
    BY <1>1, <2>1, <2>5, <2>7 DEF Part
  <2>10. \A i \in 1..n : r[i].contract = list[i].contract
    BY <2>1, <2>9
  <2>11. OnePer(r)
    BY <1>1, <2>7, <2>10 DEF OnePer
  <2>12. ASSUME NEW c
         PROVE  FreeIn(r, c) = FreeIn(list, c) + Gives(b, c)
    <3>1. CASE b.contract = c
      <4>1. FreeIn(r, c) = list[p].amount + b.amount
        <5>1. p \in DOMAIN r /\ r[p].contract = c
          BY <2>7, <2>9, <3>1
        <5>2. FreeIn(r, c) = r[p].amount
          BY <2>8, <2>11, <5>1, FreeOfOne
        <5> QED  BY <2>9, <5>2
      <4>2. FreeIn(list, c) = list[p].amount
        BY <1>1, <2>1, <3>1, FreeOfOne
      <4> QED  BY <1>3, <3>1, <4>1, <4>2 DEF Gives
    <3>2. CASE b.contract # c /\ \E i \in 1..n : list[i].contract = c
      <4>1. PICK i \in 1..n : list[i].contract = c
        BY <3>2
      <4>2. FreeIn(list, c) = list[i].amount /\ FreeIn(list, c) \in Nat
        BY <1>1, <4>1, FreeOfOne
      <4>3. r[i] = list[i]
        BY <2>1, <2>9, <3>2, <4>1
      <4>4. FreeIn(r, c) = list[i].amount
        <5>1. i \in DOMAIN r /\ r[i].contract = c
          BY <2>7, <4>1, <4>3
        <5>2. FreeIn(r, c) = r[i].amount
          BY <2>8, <2>11, <5>1, FreeOfOne
        <5> QED  BY <4>3, <5>2
      <4> QED  BY <3>2, <4>2, <4>4 DEF Gives
    <3>3. CASE b.contract # c /\ \A i \in 1..n : list[i].contract # c
      <4>1. FreeIn(list, c) = 0
        BY <1>1, <3>3, FreeOfOne
      <4>2. FreeIn(r, c) = 0
        <5>1. \A i \in DOMAIN r : r[i].contract # c
          BY <2>7, <2>10, <3>3
        <5> QED  BY <2>8, <2>11, <5>1, FreeOfOne
      <4> QED  BY <3>3, <4>1, <4>2 DEF Gives
    <3> QED  BY <3>1, <3>2, <3>3
  <2>13. Full(list) /\ b.amount > 0 => Full(r)
    <3> SUFFICES ASSUME Full(list)  PROVE Full(r)
      OBVIOUS
    <3>1. ASSUME NEW i \in 1..n  PROVE r[i].amount > 0
      <4>1. list[i].amount > 0
        BY <1>1 DEF Full
      <4> QED  BY <1>3, <2>5, <2>9, <4>1
    <3> QED  BY <2>7, <3>1 DEF Full
  <2> QED  BY <1>1, <2>8, <2>10, <2>11, <2>12, <2>13 DEF Added
<1> QED
    BY <1>4, <1>5

\* The first blobs give what the ones before the last give, and the last.
LEMMA GivenByNext ==
    ASSUME NEW blobs \in Seq(Part), NEW c
    PROVE  /\ GivenBy(blobs, 0, c) = 0
           /\ \A m \in 0..Len(blobs) : GivenBy(blobs, m, c) \in Nat
           /\ \A m \in 0..Len(blobs) : m < Len(blobs) =>
                 GivenBy(blobs, m + 1, c) = GivenBy(blobs, m, c)
                    + Gives(blobs[m + 1], c)
<1>1. PICK n \in Nat : n = Len(blobs) /\ DOMAIN blobs = 1..n
    OBVIOUS
<1>2. \A k \in 1..n : blobs[k] \in Part
    BY <1>1
<1>3. \A k \in 1..n : /\ Share(blobs, c)[k] = Gives(blobs[k], c)
                      /\ Share(blobs, c)[k] \in Nat
    BY <1>1, <1>2 DEF Share, Part, Gives
<1>4. GivenBy(blobs, 0, c) = 0
  <2>1. 1..0 = {}
    OBVIOUS
  <2> QED  BY <2>1, SumOfNone DEF GivenBy
<1>5. ASSUME NEW m \in 0..n  PROVE GivenBy(blobs, m, c) \in Nat
  <2>0. IsFiniteSet(1..m)
    BY FS_Interval
  <2>1. IsFiniteSet(1..m) /\ \A k \in 1..m : Share(blobs, c)[k] \in Nat
    BY <1>3, <2>0
  <2> QED  BY <2>1, SumType DEF GivenBy
<1>6. ASSUME NEW m \in 0..n, m < n
      PROVE  GivenBy(blobs, m + 1, c) = GivenBy(blobs, m, c)
                + Gives(blobs[m + 1], c)
  <2>0. IsFiniteSet(1..m)
    BY FS_Interval
  <2>1. IsFiniteSet(1..m) /\ m + 1 \notin 1..m /\ 1..(m + 1) = (1..m) \cup {m + 1}
    BY <2>0
  <2>2. \A k \in (1..m) \cup {m + 1} : Share(blobs, c)[k] \in Int
    BY <1>1, <1>3, <1>6
  <2>3. SumFunctionOnSet(Share(blobs, c), (1..m) \cup {m + 1}) =
           Share(blobs, c)[m + 1] + SumFunctionOnSet(Share(blobs, c), 1..m)
    BY <2>1, <2>2, SumPutsIn
  <2>4. GivenBy(blobs, m + 1, c) = Share(blobs, c)[m + 1] + GivenBy(blobs, m, c)
    BY <2>1, <2>3 DEF GivenBy
  <2>5. GivenBy(blobs, m, c) \in Nat /\ Share(blobs, c)[m + 1] \in Nat
    BY <1>1, <1>3, <1>5, <1>6
  <2>6. Share(blobs, c)[m + 1] = Gives(blobs[m + 1], c)
    BY <1>1, <1>3, <1>6
  <2> QED  BY <2>4, <2>5, <2>6
<1> QED
    BY <1>1, <1>4, <1>5, <1>6

\* The definition of AddBlobs as a function over the prefixes of the blobs.
AddedTo(f, list, blobs, m) ==
    f = [k \in 0..m |-> IF k = 0 THEN list ELSE AddBlob(f[k - 1], blobs[k])]

\* There is one for each prefix.
LEMMA AddedToExists ==
    ASSUME NEW list, NEW blobs, NEW N \in Nat
    PROVE  \E f : AddedTo(f, list, blobs, N)
<1> DEFINE G == {m \in 0..N : \E f : AddedTo(f, list, blobs, m)}
<1>1. 0 \in G
  <2>1. AddedTo([k \in 0..0 |-> list], list, blobs, 0)
    BY DEF AddedTo
  <2> QED  BY <2>1
<1>2. ASSUME NEW m \in 0..N, m \in G, m < N  PROVE m + 1 \in G
  <2>1. PICK f : AddedTo(f, list, blobs, m)
    BY <1>2
  <2> DEFINE g == [k \in 0..(m + 1) |-> IF k <= m THEN f[k] ELSE AddBlob(f[k - 1], blobs[k])]
  <2>2. ASSUME NEW k \in 0..(m + 1)
        PROVE  g[k] = IF k = 0 THEN list ELSE AddBlob(g[k - 1], blobs[k])
    <3>1. CASE k <= m
      <4>1. k \in 0..m /\ g[k] = f[k] /\ (k # 0 => g[k - 1] = f[k - 1])
        BY <3>1
      <4> HIDE DEF g
      <4>2. f[k] = IF k = 0 THEN list ELSE AddBlob(f[k - 1], blobs[k])
        BY <2>1, <4>1 DEF AddedTo
      <4> QED  BY <4>1, <4>2
    <3>2. CASE ~(k <= m)
      <4>1. k # 0 /\ k - 1 \in 0..m /\ k - 1 <= m /\ k - 1 \in 0..(m + 1)
        BY <3>2
      <4>2. g[k - 1] = f[k - 1]
        BY <4>1
      <4>3. g[k] = AddBlob(f[k - 1], blobs[k])
        BY <3>2
      <4> QED  BY <4>1, <4>2, <4>3
    <3> QED  BY <3>1, <3>2
  <2>3. g = [k \in 0..(m + 1) |-> g[k]]
    OBVIOUS
  <2> HIDE DEF g
  <2>4. AddedTo(g, list, blobs, m + 1)
    BY <2>2, <2>3 DEF AddedTo
  <2> QED  BY <1>2, <2>4
<1> HIDE DEF G
<1>3. N \in G
    BY <1>1, <1>2, CountUp
<1> QED
    BY <1>3 DEF G

\* Blobs that are put on a list, one after the other, keep one blob per
\* contract, and give their contracts what they have.
LEMMA AddBlobsOf ==
    ASSUME NEW list \in Seq(Part), OnePer(list), NEW blobs \in Seq(Part),
           NEW r, r = AddBlobs(list, blobs)
    PROVE  /\ r \in Seq(Part) /\ OnePer(r)
           /\ Len(list) <= Len(r)
           /\ \A i \in DOMAIN list : r[i].contract = list[i].contract
           /\ (\A k \in DOMAIN blobs : \E i \in DOMAIN list : list[i].contract = blobs[k].contract)
              => Len(r) = Len(list)
           /\ \A c : FreeIn(r, c) = FreeIn(list, c) + GivenBy(blobs, Len(blobs), c)
           /\ Full(list) /\ Full(blobs) => Full(r)
<1>1. PICK n \in Nat : n = Len(blobs) /\ DOMAIN blobs = 1..n
    OBVIOUS
<1>2. PICK l \in Nat : l = Len(list) /\ DOMAIN list = 1..l
    OBVIOUS
<1>3. PICK f : AddedTo(f, list, blobs, n) /\ r = f[n]
  <2> DEFINE f == CHOOSE f : AddedTo(f, list, blobs, n)
  <2>1. AddedTo(f, list, blobs, n)
    BY AddedToExists
  <2>2. r = f[n]
    BY <1>1 DEF AddBlobs, AddedTo
  <2> QED  BY <2>1, <2>2
<1> DEFINE Known == \A k \in 1..n : \E i \in 1..l : list[i].contract = blobs[k].contract
           G == {m \in 0..n :
                   /\ f[m] \in Seq(Part) /\ OnePer(f[m])
                   /\ l <= Len(f[m])
                   /\ \A i \in 1..l : f[m][i].contract = list[i].contract
                   /\ Known => Len(f[m]) = l
                   /\ \A c : FreeIn(f[m], c) = FreeIn(list, c) + GivenBy(blobs, m, c)
                   /\ Full(list) /\ Full(blobs) => Full(f[m])}
<1>4. 0 \in G
  <2>1. f[0] = list
    BY <1>3 DEF AddedTo
  <2>2. ASSUME NEW c  PROVE FreeIn(list, c) = FreeIn(list, c) + GivenBy(blobs, 0, c)
    <3>1. FreeIn(list, c) \in Nat
      BY FreeOfOne
    <3> QED  BY <3>1, GivenByNext
  <2> QED  BY <1>2, <2>1, <2>2
<1>5. ASSUME NEW m \in 0..n, m \in G, m < n  PROVE m + 1 \in G
  <2>1. m + 1 \in 0..n /\ m + 1 # 0 /\ (m + 1) - 1 = m
    BY <1>5
  <2>2. f[m + 1] = AddBlob(f[m], blobs[m + 1])
    BY <1>3, <2>1 DEF AddedTo
  <2>3. PICK t \in Seq(Part) : t = f[m]
    BY <1>5
  <2>4. PICK b \in Part : b = blobs[m + 1]
    BY <1>1, <2>1
  <2>5. PICK u : u = AddBlob(t, b)
    OBVIOUS
  <2>6. /\ OnePer(t) /\ l <= Len(t)
        /\ \A i \in 1..l : t[i].contract = list[i].contract
        /\ Known => Len(t) = l
        /\ \A c : FreeIn(t, c) = FreeIn(list, c) + GivenBy(blobs, m, c)
        /\ Full(list) /\ Full(blobs) => Full(t)
    BY <1>5, <2>3
  <2>7. PICK k \in Nat : k = Len(t) /\ DOMAIN t = 1..k
    BY <2>3
  <2> HIDE DEF Known, G
  <2>8. /\ u \in Seq(Part) /\ OnePer(u)
        /\ Len(t) <= Len(u)
        /\ \A i \in DOMAIN t : u[i].contract = t[i].contract
        /\ (\E i \in DOMAIN t : t[i].contract = b.contract) => Len(u) = Len(t)
        /\ \A c : FreeIn(u, c) = FreeIn(t, c) + Gives(b, c)
        /\ Full(t) /\ b.amount > 0 => Full(u)
    <3>1. Added(t, b, u)
      BY <2>3, <2>4, <2>5, <2>6, AddBlobOf
    <3> QED  BY <3>1, Zenon DEF Added
  <2>9. PICK j \in Nat : j = Len(u)
    BY <2>8
  <2>10. l <= Len(u) /\ \A i \in 1..l : u[i].contract = list[i].contract
    <3>1. l <= k /\ k <= j
      BY <2>6, <2>7, <2>8, <2>9
    <3>2. \A i \in 1..l : i \in DOMAIN t
      BY <2>7, <3>1
    <3>3. l <= Len(u)
      BY <2>7, <2>9, <3>1
    <3> QED  BY <2>6, <2>8, <3>2, <3>3
  <2>11. Known => Len(u) = l
    <3> SUFFICES ASSUME Known  PROVE Len(u) = l
      OBVIOUS
    <3>1. PICK i \in 1..l : list[i].contract = b.contract
      <4>1. m + 1 \in 1..n
        BY <1>5
      <4>2. \E i \in 1..l : list[i].contract = blobs[m + 1].contract
        BY <1>1, <4>1 DEF Known
      <4> QED  BY <2>4, <4>2
    <3>2. i \in DOMAIN t /\ t[i].contract = b.contract
      BY <2>6, <2>7, <3>1
    <3> QED  BY <2>6, <2>8, <3>2
  <2>12. ASSUME NEW c  PROVE FreeIn(u, c) = FreeIn(list, c) + GivenBy(blobs, m + 1, c)
    <3>1. FreeIn(list, c) \in Nat
      BY FreeOfOne
    <3>2. GivenBy(blobs, m, c) \in Nat
      BY <1>1, GivenByNext
    <3>3. GivenBy(blobs, m + 1, c) =
             GivenBy(blobs, m, c) + Gives(b, c)
      BY <1>1, <1>5, <2>4, GivenByNext
    <3>4. Gives(b, c) \in Nat
      BY <2>4 DEF Part, Gives
    <3>5. FreeIn(t, c) = FreeIn(list, c) + GivenBy(blobs, m, c)
      BY <2>6
    <3>6. FreeIn(u, c) = FreeIn(t, c) + Gives(b, c)
      BY <2>8
    <3> QED  BY <3>1, <3>2, <3>3, <3>4, <3>5, <3>6
  <2>13. Full(list) /\ Full(blobs) => Full(u)
    <3> SUFFICES ASSUME Full(list), Full(blobs)  PROVE Full(u)
      OBVIOUS
    <3>1. b.amount > 0
      BY <1>1, <1>5, <2>1, <2>4 DEF Full
    <3> QED  BY <2>6, <2>8, <3>1
  <2>14. u = f[m + 1]
    BY <2>2, <2>3, <2>4, <2>5
  <2> QED  BY <2>1, <2>8, <2>10, <2>11, <2>12, <2>13, <2>14 DEF G
<1> HIDE DEF G
<1>6. n \in G
    BY <1>4, <1>5, CountUp
<1> QED
    BY <1>1, <1>2, <1>3, <1>6 DEF G

-----------------------------------------------------------------------------
(* The positions of a list, from one on and around.                        *)

\* A position past the end by less than a round is one round on.
LEMMA OnceAround ==
    ASSUME NEW n \in Nat \ {0}, NEW v \in Nat, v < 2 * n
    PROVE  v % n = IF v < n THEN v ELSE v - n
<1>1. v < n => v % n = v
    OBVIOUS
<1>2. v >= n => v % n = v - n
    OBVIOUS
<1> QED
    BY <1>1, <1>2

\* The positions from start on and around are all positions, each once.
LEMMA AroundOf ==
    ASSUME NEW list \in Seq(Part), NEW start, list # <<>> => start \in DOMAIN list
    PROVE  /\ Around(list, start) \in Seq(DOMAIN list)
           /\ IsInjective(Around(list, start))
           /\ ToSet(Around(list, start)) = DOMAIN list
<1>1. PICK n \in Nat : n = Len(list) /\ DOMAIN list = 1..n
    OBVIOUS
<1>2. CASE list = <<>>
  <2>1. n = 0 /\ DOMAIN list = {}
    BY <1>1, <1>2
  <2>2. Around(list, start) = <<>>
    BY <2>1 DEF Around
  <2> QED  BY <2>1, <2>2 DEF IsInjective, ToSet
<1>3. CASE list # <<>>
  <2>1. n # 0 /\ start \in 1..n
    BY <1>1, <1>3
  <2> DEFINE A == Around(list, start)
             At(k) == IF start + k - 2 < n THEN start + k - 1 ELSE start + k - 1 - n
  <2>2. ASSUME NEW k \in 1..n  PROVE A[k] = At(k) /\ At(k) \in 1..n
    <3>1. PICK v \in Nat : v = start + k - 2
      BY <2>1
    <3>2. A[k] = (v % n) + 1
      BY <1>1, <3>1 DEF Around
    <3>3. v < 2 * n /\ n \in Nat \ {0}
      BY <2>1, <3>1
    <3>4. v % n = IF v < n THEN v ELSE v - n
      BY <3>1, <3>3, OnceAround
    <3>5. A[k] = IF v < n THEN v + 1 ELSE v - n + 1
      BY <3>1, <3>2, <3>4
    <3> HIDE DEF A
    <3> QED  BY <2>1, <3>1, <3>3, <3>5
  <2>3. DOMAIN A = 1..n
    BY <1>1 DEF Around
  <2>4. A = [k \in 1..n |-> A[k]]
    BY <1>1 DEF Around
  <2> HIDE DEF A
  <2>5. A \in Seq(1..n) /\ Len(A) = n
    <3>1. \A k \in 1..n : A[k] \in 1..n
      BY <2>2
    <3>2. A \in [1..n -> 1..n]
      BY <2>4, <3>1
    <3> QED  BY <3>2
  <2>6. ASSUME NEW i \in 1..n, NEW j \in 1..n, A[i] = A[j]  PROVE i = j
    <3>1. At(i) = At(j)
      BY <2>2, <2>6
    <3> QED  BY <2>1, <3>1
  <2>7. ASSUME NEW p \in 1..n  PROVE \E k \in 1..n : A[k] = p
    <3> DEFINE k == IF p >= start THEN p - start + 1 ELSE p - start + 1 + n
    <3>1. k \in 1..n /\ At(k) = p
      BY <2>1
    <3> QED  BY <2>2, <3>1
  <2>8. IsInjective(A)
      BY <2>3, <2>6 DEF IsInjective
  <2>9. ToSet(A) = 1..n
    <3>1. \A k \in 1..n : A[k] \in 1..n
      BY <2>2
    <3> QED  BY <2>3, <2>7, <3>1 DEF ToSet
  <2> QED  BY <1>1, <2>5, <2>8, <2>9 DEF A
<1> QED
    BY <1>2, <1>3

\* The positions that can be asked for a block.
Fits(list, size, excluded) ==
    {i \in DOMAIN list : /\ list[i].amount >= size
                         /\ ProviderOf[list[i].contract] \notin excluded}

\* The candidates are these positions, each once.
LEMMA CandidatesOf ==
    ASSUME NEW list \in Seq(Part), NEW start, list # <<>> => start \in DOMAIN list,
           NEW size, NEW excluded
    PROVE  /\ Candidates(list, size, excluded, start) \in Seq(DOMAIN list)
           /\ IsInjective(Candidates(list, size, excluded, start))
           /\ ToSet(Candidates(list, size, excluded, start)) = Fits(list, size, excluded)
<1>1. PICK A : A = Around(list, start)
    OBVIOUS
<1>2. A \in Seq(DOMAIN list) /\ IsInjective(A) /\ ToSet(A) = DOMAIN list
    BY <1>1, AroundOf
<1>3. PICK S : S = Fits(list, size, excluded)
    OBVIOUS
<1>4. Candidates(list, size, excluded, start) = Those(A, S)
    BY <1>1, <1>3 DEF Candidates, Fits
<1>5. S \subseteq DOMAIN list
    BY <1>3 DEF Fits
<1>6. Those(A, S) \in Seq(DOMAIN list) /\ ToSet(Those(A, S)) = ToSet(A) \cap S /\ IsInjective(Those(A, S))
    BY <1>2, ThoseOf
<1> QED
    BY <1>2, <1>3, <1>4, <1>5, <1>6

\* A list without its empty blobs has of every contract what it had.
LEMMA WithoutEmptyOf ==
    ASSUME NEW list \in Seq(Part), OnePer(list), NEW r, r = WithoutEmpty(list)
    PROVE  /\ r \in Seq(Part) /\ OnePer(r) /\ Full(r)
           /\ \A c : FreeIn(r, c) = FreeIn(list, c)
<1>1. PICK n \in Nat : n = Len(list) /\ DOMAIN list = 1..n
    OBVIOUS
<1>2. PICK S : S = {b \in ToSet(list) : b.amount >= 1}
    OBVIOUS
<1>3. r = Those(list, S)
    BY <1>2 DEF WithoutEmpty, MinBlobSize
<1>4. IsInjective(list)
    BY DEF IsInjective, OnePer
<1>5. r \in Seq(Part) /\ ToSet(r) = ToSet(list) \cap S /\ IsInjective(r)
    BY <1>3, <1>4, ThoseOf
<1>6. PICK m \in Nat : m = Len(r) /\ DOMAIN r = 1..m
    BY <1>5
<1>7. ASSUME NEW k \in 1..m
      PROVE  /\ r[k] \in Part /\ r[k].amount > 0
             /\ \E i \in 1..n : list[i] = r[k]
  <2>1. r[k] \in ToSet(r)
    BY <1>6 DEF ToSet
  <2>2. r[k] \in ToSet(list) /\ r[k].amount >= 1
    BY <1>2, <1>5, <2>1
  <2>3. \E i \in 1..n : list[i] = r[k]
    BY <1>1, <2>2 DEF ToSet
  <2>4. r[k] \in Part
    BY <1>5, <1>6
  <2> QED  BY <2>2, <2>3, <2>4 DEF Part
<1>8. ASSUME NEW i \in 1..n, list[i].amount > 0  PROVE \E k \in 1..m : r[k] = list[i]
  <2>0. list[i] \in Part
    BY <1>1
  <2>1. list[i] \in ToSet(list) /\ list[i].amount \in Nat
    BY <1>1, <2>0 DEF ToSet, Part
  <2>2. list[i] \in ToSet(r)
    BY <1>2, <1>5, <1>8, <2>1
  <2> QED  BY <1>6, <2>2 DEF ToSet
<1>9. OnePer(r)
  <2> SUFFICES ASSUME NEW k \in 1..m, NEW l \in 1..m, r[k].contract = r[l].contract
               PROVE  k = l
    BY <1>6 DEF OnePer
  <2>1. PICK i \in 1..n : list[i] = r[k]
    BY <1>7
  <2>2. PICK j \in 1..n : list[j] = r[l]
    BY <1>7
  <2>3. i = j
    BY <1>1, <2>1, <2>2 DEF OnePer
  <2>4. r[k] = r[l]
    BY <2>1, <2>2, <2>3
  <2> QED  BY <1>5, <1>6, <2>4 DEF IsInjective
<1>10. Full(r)
    BY <1>6, <1>7 DEF Full
<1>11. ASSUME NEW c  PROVE FreeIn(r, c) = FreeIn(list, c)
  <2>1. CASE \E k \in 1..m : r[k].contract = c
    <3>1. PICK k \in 1..m : r[k].contract = c
      BY <2>1
    <3>2. PICK i \in 1..n : list[i] = r[k]
      BY <1>7
    <3>3. FreeIn(r, c) = r[k].amount
      BY <1>5, <1>6, <1>9, <3>1, FreeOfOne
    <3>4. FreeIn(list, c) = list[i].amount
      BY <1>1, <3>1, <3>2, FreeOfOne
    <3> QED  BY <3>2, <3>3, <3>4
  <2>2. CASE ~\E k \in 1..m : r[k].contract = c
    <3>1. FreeIn(r, c) = 0
      BY <1>5, <1>6, <1>9, <2>2, FreeOfOne
    <3>2. CASE \E i \in 1..n : list[i].contract = c
      <4>1. PICK i \in 1..n : list[i].contract = c
        BY <3>2
      <4>2. ~(list[i].amount > 0)
        BY <1>8, <2>2, <4>1
      <4>3. list[i].amount \in Nat
        <5>1. list[i] \in Part
          BY <1>1
        <5> QED  BY <5>1 DEF Part
      <4>4. FreeIn(list, c) = list[i].amount
        BY <1>1, <4>1, FreeOfOne
      <4> QED  BY <3>1, <4>2, <4>3, <4>4
    <3>3. CASE ~\E i \in 1..n : list[i].contract = c
      <4>1. FreeIn(list, c) = 0
        BY <1>1, <3>3, FreeOfOne
      <4> QED  BY <3>1, <4>1
    <3> QED  BY <3>2, <3>3
  <2> QED  BY <2>1, <2>2
<1> QED
    BY <1>5, <1>9, <1>10, <1>11

\* What is left of a list that has each element once, without one of them.
LEMMA RemoveAtSet ==
    ASSUME NEW S, NEW s \in Seq(S), IsInjective(s), NEW i \in DOMAIN s
    PROVE  /\ IsInjective(RemoveAt(s, i))
           /\ ToSet(RemoveAt(s, i)) = ToSet(s) \ {s[i]}
<1>1. PICK n \in Nat : n = Len(s) /\ DOMAIN s = 1..n
    OBVIOUS
<1>2. PICK r : r = RemoveAt(s, i)
    OBVIOUS
<1>3. DOMAIN r = 1..(n - 1) /\ \A j \in 1..(n - 1) : r[j] = s[IF j < i THEN j ELSE j + 1]
    BY <1>1, <1>2, RemoveAtOf
<1>4. ASSUME NEW j \in 1..(n - 1)  PROVE r[j] \in ToSet(s) /\ r[j] # s[i]
  <2>1. PICK k \in 1..n : k = (IF j < i THEN j ELSE j + 1) /\ k # i
    BY <1>1
  <2>2. r[j] = s[k]
    BY <1>3, <2>1
  <2>3. s[k] # s[i]
    BY <1>1, <2>1 DEF IsInjective
  <2> QED  BY <1>1, <2>2, <2>3 DEF ToSet
<1>5. ASSUME NEW k \in 1..n, k # i  PROVE \E j \in 1..(n - 1) : r[j] = s[k]
  <2> DEFINE j == IF k < i THEN k ELSE k - 1
  <2>1. j \in 1..(n - 1) /\ (IF j < i THEN j ELSE j + 1) = k
    BY <1>1, <1>5
  <2> QED  BY <1>3, <2>1
<1>6. ToSet(r) \subseteq ToSet(s) \ {s[i]}
    BY <1>3, <1>4 DEF ToSet
<1>7. ToSet(s) \ {s[i]} \subseteq ToSet(r)
  <2> SUFFICES ASSUME NEW x \in ToSet(s), x # s[i]  PROVE x \in ToSet(r)
    OBVIOUS
  <2>1. PICK k \in 1..n : s[k] = x
    BY <1>1 DEF ToSet
  <2>2. \E j \in 1..(n - 1) : r[j] = x
    BY <1>5, <2>1
  <2> QED  BY <1>3, <2>2 DEF ToSet
<1>8. IsInjective(r)
    BY <1>2, ShorterLists
<1> QED
    BY <1>2, <1>6, <1>7, <1>8

\* A list with another i-th element.
LEMMA ExceptOf ==
    ASSUME NEW S, NEW s \in Seq(S), NEW i \in DOMAIN s, NEW e \in S,
           NEW r, r = [s EXCEPT ![i] = e]
    PROVE  /\ r \in Seq(S) /\ Len(r) = Len(s) /\ DOMAIN r = DOMAIN s
           /\ r[i] = e /\ \A j \in DOMAIN s : j # i => r[j] = s[j]
<1>1. PICK n \in Nat : n = Len(s) /\ DOMAIN s = 1..n
    OBVIOUS
<1>2. DOMAIN r = 1..n /\ r[i] = e /\ \A j \in 1..n : j # i => r[j] = s[j]
    BY <1>1
<1>3. \A j \in 1..n : r[j] \in S
    BY <1>1, <1>2
<1>4. r = [j \in 1..n |-> r[j]]
    BY <1>1
<1>5. r \in [1..n -> S]
    BY <1>3, <1>4
<1>6. r \in Seq(S) /\ Len(r) = n
    BY <1>2, <1>5
<1> QED
    BY <1>1, <1>2, <1>6

\* The blocks of size b that fit in a bytes.
LEMMA Fitting ==
    ASSUME NEW a \in Nat, NEW b \in Nat \ {0}
    PROVE  /\ a \div b \in Nat
           /\ a < b => a \div b = 0
           /\ a >= b => a - b \in Nat /\ a \div b = ((a - b) \div b) + 1
<1>1. a \div b \in Nat
    OBVIOUS
<1>2. a < b => a \div b = 0
    OBVIOUS
<1>3. a >= b => a \div b = ((a - b) \div b) + 1
  <2> SUFFICES ASSUME a >= b  PROVE a \div b = ((a - b) \div b) + 1
    OBVIOUS
  <2>1. PICK q \in Nat, m \in Nat : q = a \div b /\ m = a % b
    OBVIOUS
  <2>2. PICK p \in Nat, l \in Nat : p = (a - b) \div b /\ l = (a - b) % b
    OBVIOUS
  <2>3. a = b * q + m /\ m < b
    BY <2>1
  <2>4. a - b = b * p + l /\ l < b
    BY <2>2
  <2>5. b * q + m = b * (p + 1) + l
    BY <2>3, <2>4
  <2>6. CASE q > p + 1
    <3>1. b * q >= b * (p + 2)
      BY <2>6
    <3> QED  BY <2>3, <2>4, <2>5, <3>1
  <2>7. CASE q < p + 1
    <3>1. b * (p + 1) >= b * (q + 1)
      BY <2>7
    <3> QED  BY <2>3, <2>4, <2>5, <3>1
  <2> QED  BY <2>1, <2>2, <2>6, <2>7
<1> QED
    BY <1>1, <1>2, <1>3

-----------------------------------------------------------------------------
(* The turns of a search.                                                  *)

\* The fields of a search.
SearchType(list, s) ==
    /\ s.list \in Seq(Part) /\ Len(s.list) = Len(list)
    /\ \A i \in DOMAIN list : s.list[i].contract = list[i].contract
    /\ s.cand \in Seq(DOMAIN list)
    /\ s.next \in Nat
    /\ s.blobs \in Seq(Part)

\* The candidates of a search are the positions that can still give a block.
SearchCand(size, excluded, s) ==
    /\ IsInjective(s.cand)
    /\ ToSet(s.cand) = Fits(s.list, size, excluded)
    /\ s.cand # <<>> => s.next \in 1..Len(s.cand)

\* Turn: position i gives a block, and search s becomes u.
Turn(list, size, excluded, s, u, i) ==
    /\ i = s.cand[s.next] /\ i \in DOMAIN list /\ s.next \in DOMAIN s.cand
    /\ s.list[i].amount >= size
    /\ ProviderOf[list[i].contract] \notin excluded
    /\ u.list = [s.list EXCEPT ![i] = [contract |-> list[i].contract, amount |-> s.list[i].amount - size]]
    /\ u.blobs = Append(s.blobs, [contract |-> list[i].contract, amount |-> size])
    /\ s.list[i].amount - size < size => u.cand = RemoveAt(s.cand, s.next)
    /\ s.list[i].amount - size >= size => u.cand = s.cand
    /\ u.cand # <<>> => u.next = (s.next % Len(u.cand)) + 1
    /\ u.cand = <<>> => u.next = 1

\* A turn of the loop is one.
LEMMA TakeOneIsTurn ==
    ASSUME NEW list \in Seq(Part), NEW size \in Nat \ {0}, NEW excluded,
           NEW s, SearchType(list, s), SearchCand(size, excluded, s), s.cand # <<>>,
           NEW u, u = TakeOne(s, size)
    PROVE  \E i : Turn(list, size, excluded, s, u, i)
<1>1. PICK n \in Nat : n = Len(list) /\ DOMAIN list = 1..n
    OBVIOUS
<1>2. PICK sl \in Seq(Part), sc \in Seq(1..n), x \in Nat :
          /\ sl = s.list /\ sc = s.cand /\ x = s.next
          /\ Len(sl) = n /\ DOMAIN sl = 1..n
          /\ \A i \in 1..n : sl[i].contract = list[i].contract
  <2>1. /\ s.list \in Seq(Part) /\ Len(s.list) = n /\ s.cand \in Seq(1..n) /\ s.next \in Nat
        /\ \A i \in 1..n : s.list[i].contract = list[i].contract
    BY <1>1 DEF SearchType
  <2>2. DOMAIN s.list = 1..n
    BY <2>1
  <2> QED  BY <2>1, <2>2
<1>3. x \in 1..Len(sc) /\ x \in DOMAIN sc
    BY <1>2 DEF SearchCand
<1>4. PICK i \in 1..n : i = sc[x]
    BY <1>2, <1>3
<1>5. i \in Fits(s.list, size, excluded)
  <2>1. i \in ToSet(sc)
    BY <1>3, <1>4 DEF ToSet
  <2> QED  BY <1>2, <2>1 DEF SearchCand
<1>6. /\ sl[i].amount >= size /\ ProviderOf[list[i].contract] \notin excluded
      /\ sl[i].contract = list[i].contract
    BY <1>1, <1>2, <1>5 DEF Fits
<1>7. sl[i] \in Part
    BY <1>2
<1>8. PICK left : left = sl[i].amount - size
    OBVIOUS
<1>9. PICK uc : uc = IF left < size THEN RemoveAt(sc, x) ELSE sc
    OBVIOUS
<1>10. u = [list |-> [sl EXCEPT ![i].amount = left],
            cand |-> uc,
            next |-> IF uc = <<>> THEN 1 ELSE (x % Len(uc)) + 1,
            blobs |-> Append(s.blobs, [contract |-> sl[i].contract, amount |-> size])]
    BY <1>2, <1>4, <1>8, <1>9 DEF TakeOne, NextTurn
<1>11. [sl EXCEPT ![i].amount = left] = [sl EXCEPT ![i] = [contract |-> list[i].contract, amount |-> left]]
  <2>1. PICK p \in Part : p = sl[i]
    BY <1>7
  <2>2. PICK c, a : p = [contract |-> c, amount |-> a] /\ c = list[i].contract
    BY <1>6, <2>1 DEF Part
  <2>3. [p EXCEPT !.amount = left] = [contract |-> c, amount |-> left]
    BY <2>2
  <2>4. [sl EXCEPT ![i].amount = left] = [sl EXCEPT ![i] = [p EXCEPT !.amount = left]]
    BY <1>2, <2>1
  <2> QED  BY <2>2, <2>3, <2>4
<1>12. /\ u.list = [sl EXCEPT ![i] = [contract |-> list[i].contract, amount |-> left]]
       /\ u.cand = uc
       /\ u.next = IF uc = <<>> THEN 1 ELSE (x % Len(uc)) + 1
       /\ u.blobs = Append(s.blobs, [contract |-> list[i].contract, amount |-> size])
    BY <1>6, <1>10, <1>11
<1>13. left \in Int /\ size \in Int
    BY <1>7, <1>8 DEF Part
<1>14. /\ i = s.cand[s.next] /\ i \in DOMAIN list /\ s.next \in DOMAIN s.cand
       /\ s.list[i].amount >= size
       /\ ProviderOf[list[i].contract] \notin excluded
    BY <1>1, <1>2, <1>3, <1>4, <1>6
<1>15. u.list = [s.list EXCEPT ![i] = [contract |-> list[i].contract, amount |-> s.list[i].amount - size]]
    BY <1>2, <1>8, <1>12
<1>16. /\ s.list[i].amount - size < size => u.cand = RemoveAt(s.cand, s.next)
       /\ s.list[i].amount - size >= size => u.cand = s.cand
  <2>1. left < size => u.cand = RemoveAt(sc, x)
    BY <1>9, <1>12
  <2>2. left >= size => u.cand = sc
    BY <1>9, <1>12, <1>13
  <2> QED  BY <1>2, <1>8, <2>1, <2>2
<1>17. /\ u.cand # <<>> => u.next = (s.next % Len(u.cand)) + 1
       /\ u.cand = <<>> => u.next = 1
    BY <1>2, <1>12
<1> QED
    BY <1>12, <1>14, <1>15, <1>16, <1>17 DEF Turn

\* A turn keeps the types of a search, and its candidates.
LEMMA TurnKeepsSearch ==
    ASSUME NEW list \in Seq(Part), NEW size \in Nat \ {0}, NEW excluded,
           NEW s, SearchType(list, s), SearchCand(size, excluded, s),
           NEW u, NEW i, Turn(list, size, excluded, s, u, i)
    PROVE  /\ SearchType(list, u) /\ SearchCand(size, excluded, u)
           /\ u.list[i].amount = s.list[i].amount - size
           /\ \A j \in DOMAIN list : j # i => u.list[j] = s.list[j]
<1>1. PICK n \in Nat : n = Len(list) /\ DOMAIN list = 1..n
    OBVIOUS
<1>2. PICK sl \in Seq(Part), sc \in Seq(1..n), x \in Nat, sb \in Seq(Part) :
          /\ sl = s.list /\ sc = s.cand /\ x = s.next /\ sb = s.blobs
          /\ Len(sl) = n /\ DOMAIN sl = 1..n
          /\ \A j \in 1..n : sl[j].contract = list[j].contract
  <2>1. /\ s.list \in Seq(Part) /\ Len(s.list) = n
        /\ \A j \in 1..n : s.list[j].contract = list[j].contract
        /\ s.cand \in Seq(1..n) /\ s.next \in Nat /\ s.blobs \in Seq(Part)
    BY <1>1 DEF SearchType
  <2>2. DOMAIN s.list = 1..n
    BY <2>1
  <2> QED  BY <2>1, <2>2
<1>3. PICK left \in Nat : left = sl[i].amount - size
  <2>1. i \in 1..n /\ sl[i].amount >= size
    BY <1>1, <1>2 DEF Turn
  <2>2. sl[i] \in Part
    BY <1>2, <2>1
  <2>3. sl[i].amount \in Nat /\ size \in Nat
    BY <2>2 DEF Part
  <2> QED  BY <2>1, <2>3
<1>4. /\ i \in 1..n /\ x \in DOMAIN sc /\ i = sc[x] /\ x \in 1..Len(sc)
      /\ ProviderOf[list[i].contract] \notin excluded
    BY <1>1, <1>2 DEF Turn
<1>5. PICK blob \in Part, part \in Part :
          /\ blob = [contract |-> list[i].contract, amount |-> size]
          /\ part = [contract |-> list[i].contract, amount |-> left]
  <2>1. list[i] \in Part
    BY <1>1, <1>4
  <2>2. list[i].contract \in Contracts
    BY <2>1 DEF Part
  <2> QED  BY <1>3, <2>2 DEF Part
<1>6. /\ u.list = [sl EXCEPT ![i] = part]
      /\ u.blobs = Append(sb, blob)
      /\ left < size => u.cand = RemoveAt(sc, x)
      /\ left >= size => u.cand = sc
      /\ u.cand # <<>> => u.next = (x % Len(u.cand)) + 1
      /\ u.cand = <<>> => u.next = 1
    BY <1>2, <1>3, <1>5 DEF Turn
<1>7. PICK ul \in Seq(Part) :
        /\ ul = u.list
        /\ Len(ul) = n /\ DOMAIN ul = 1..n
        /\ ul[i] = part /\ ul[i].amount = left /\ ul[i].contract = list[i].contract
        /\ \A j \in 1..n : j # i => ul[j] = sl[j]
  <2>0. i \in DOMAIN sl
    BY <1>2, <1>4
  <2>1. PICK ul : ul = [sl EXCEPT ![i] = part]
    OBVIOUS
  <2>2. /\ ul \in Seq(Part) /\ Len(ul) = Len(sl) /\ DOMAIN ul = DOMAIN sl
        /\ ul[i] = part /\ \A j \in DOMAIN sl : j # i => ul[j] = sl[j]
    BY <1>2, <1>5, <2>0, <2>1, ExceptOf
  <2>3. Len(ul) = n /\ DOMAIN ul = 1..n /\ \A j \in 1..n : j # i => ul[j] = sl[j]
    BY <1>2, <2>2
  <2>4. part.amount = left /\ part.contract = list[i].contract
    BY <1>5
  <2> QED  BY <1>6, <2>1, <2>2, <2>3, <2>4
<1>8. \A j \in 1..n : ul[j].contract = list[j].contract
    BY <1>2, <1>7
<1>9. u.blobs \in Seq(Part)
    BY <1>5, <1>6
<1>10. left \in Int /\ size \in Int /\ (left < size \/ left >= size)
    BY <1>3
<1>11. PICK uc \in Seq(1..n) : /\ uc = u.cand /\ IsInjective(uc)
                               /\ ToSet(uc) = IF left < size THEN ToSet(sc) \ {i} ELSE ToSet(sc)
  <2>1. IsInjective(sc)
    BY <1>2 DEF SearchCand
  <2>2. CASE left < size
    <3>1. RemoveAt(sc, x) \in Seq(1..n)
      BY <1>4, RemoveAtOf
    <3>2. IsInjective(RemoveAt(sc, x)) /\ ToSet(RemoveAt(sc, x)) = ToSet(sc) \ {i}
      BY <1>4, <2>1, RemoveAtSet
    <3> QED  BY <1>6, <2>2, <3>1, <3>2
  <2>3. CASE left >= size
    <3>1. ~(left < size)
      BY <1>3, <2>3
    <3> QED  BY <1>6, <2>1, <2>3, <3>1
  <2> QED  BY <1>10, <2>2, <2>3
<1>12. u.next \in Nat /\ (uc # <<>> => u.next \in 1..Len(uc))
  <2>1. CASE uc = <<>>
    BY <1>6, <1>11, <2>1
  <2>2. CASE uc # <<>>
    <3>1. PICK k \in Nat \ {0} : k = Len(uc)
      BY <2>2
    <3>2. x % k \in 0..(k - 1)
      BY <3>1
    <3>3. u.next = (x % k) + 1
      BY <1>6, <1>11, <2>2, <3>1
    <3> QED  BY <3>1, <3>2, <3>3
  <2> QED  BY <2>1, <2>2
<1>13. SearchType(list, u)
    BY <1>1, <1>7, <1>8, <1>9, <1>11, <1>12 DEF SearchType
<1>14. ToSet(uc) = Fits(ul, size, excluded)
  <2>1. ToSet(sc) = {j \in 1..n : sl[j].amount >= size /\ ProviderOf[sl[j].contract] \notin excluded}
    BY <1>2 DEF SearchCand, Fits
  <2>2. i \in ToSet(sc)
    BY <1>4 DEF ToSet
  <2>3. \A j \in 1..n : j # i => (j \in Fits(ul, size, excluded) <=> j \in ToSet(sc))
    BY <1>7, <2>1 DEF Fits
  <2>4. i \in Fits(ul, size, excluded) <=> left >= size
    BY <1>4, <1>7 DEF Fits
  <2>5. Fits(ul, size, excluded) \subseteq 1..n /\ ToSet(sc) \subseteq 1..n
    BY <1>7, <2>1 DEF Fits
  <2>6. left < size <=> ~(left >= size)
    BY <1>3
  <2>7. CASE left < size
    BY <1>11, <2>3, <2>4, <2>5, <2>6, <2>7
  <2>8. CASE ~(left < size)
    <3>1. ToSet(uc) = ToSet(sc)
      BY <1>11, <2>8
    <3>2. \A j \in 1..n : j \in Fits(ul, size, excluded) <=> j \in ToSet(sc)
      BY <2>2, <2>3, <2>4, <2>6, <2>8
    <3> QED  BY <2>5, <3>1, <3>2
  <2> QED  BY <2>7, <2>8
<1>15. SearchCand(size, excluded, u)
    BY <1>7, <1>11, <1>12, <1>14 DEF SearchCand
<1> QED
    BY <1>1, <1>2, <1>3, <1>7, <1>13, <1>15

\* The blocks of a size that fit a list, not counting the excluded providers.
RoomIn(list, size, excluded) ==
    SumFunctionOnSet([i \in DOMAIN list |-> list[i].amount \div size],
                     {i \in DOMAIN list : ProviderOf[list[i].contract] \notin excluded})

\* One more blob gives its contract what it has.
LEMMA GivenByAppend ==
    ASSUME NEW blobs \in Seq(Part), NEW b \in Part, NEW c
    PROVE  GivenBy(Append(blobs, b), Len(Append(blobs, b)), c) =
              GivenBy(blobs, Len(blobs), c) + Gives(b, c)
<1>1. PICK n \in Nat : n = Len(blobs) /\ DOMAIN blobs = 1..n
    OBVIOUS
<1>0. PICK more : more = Append(blobs, b)
    OBVIOUS
<1>2. /\ more \in Seq(Part) /\ Len(more) = n + 1 /\ DOMAIN more = 1..(n + 1)
      /\ \A k \in 1..n : more[k] = blobs[k]
      /\ more[n + 1] = b
    BY <1>0, <1>1
<1>3. GivenBy(more, n, c) = GivenBy(blobs, n, c)
  <2>1. IsFiniteSet(1..n)
    BY FS_Interval
  <2>2. \A k \in 1..n : Share(more, c)[k] = Share(blobs, c)[k]
    BY <1>1, <1>2 DEF Share
  <2> QED  BY <2>1, <2>2, SumAgrees DEF GivenBy
<1>4. GivenBy(more, n + 1, c) = GivenBy(more, n, c)
          + Gives(more[n + 1], c)
  <2>1. n \in 0..Len(more) /\ n < Len(more)
    BY <1>2
  <2> QED  BY <1>2, <2>1, GivenByNext
<1>5. GivenBy(more, Len(more), c) = GivenBy(blobs, Len(blobs), c) + Gives(b, c)
    BY <1>1, <1>2, <1>3, <1>4
<1> QED
    BY <1>0, <1>5

\* What a turn takes off the list it adds to the blobs.
LEMMA TurnMoves ==
    ASSUME NEW list \in Seq(Part), OnePer(list), NEW size \in Nat \ {0}, NEW excluded,
           NEW s, SearchType(list, s), SearchCand(size, excluded, s),
           NEW u, NEW i, Turn(list, size, excluded, s, u, i)
    PROVE  /\ Len(u.blobs) = Len(s.blobs) + 1
           /\ RoomIn(u.list, size, excluded) + 1 = RoomIn(s.list, size, excluded)
           /\ \A c : FreeIn(u.list, c) + GivenBy(u.blobs, Len(u.blobs), c)
                       = FreeIn(s.list, c) + GivenBy(s.blobs, Len(s.blobs), c)
<1>1. PICK n \in Nat : n = Len(list) /\ DOMAIN list = 1..n
    OBVIOUS
<1>2. /\ SearchType(list, u)
      /\ u.list[i].amount = s.list[i].amount - size
      /\ \A j \in DOMAIN list : j # i => u.list[j] = s.list[j]
    BY TurnKeepsSearch
<1>3. PICK sl \in Seq(Part) : /\ sl = s.list /\ Len(sl) = n /\ DOMAIN sl = 1..n
                              /\ \A j \in 1..n : sl[j].contract = list[j].contract
  <2>1. /\ s.list \in Seq(Part) /\ Len(s.list) = n
        /\ \A j \in 1..n : s.list[j].contract = list[j].contract
    BY <1>1 DEF SearchType
  <2>2. DOMAIN s.list = 1..n
    BY <2>1
  <2> QED  BY <2>1, <2>2
<1>4. PICK ul \in Seq(Part) : /\ ul = u.list /\ Len(ul) = n /\ DOMAIN ul = 1..n
                              /\ \A j \in 1..n : ul[j].contract = list[j].contract
  <2>1. /\ u.list \in Seq(Part) /\ Len(u.list) = n
        /\ \A j \in 1..n : u.list[j].contract = list[j].contract
    BY <1>1, <1>2 DEF SearchType
  <2>2. DOMAIN u.list = 1..n
    BY <2>1
  <2> QED  BY <2>1, <2>2
<1>5. PICK sb \in Seq(Part) : sb = s.blobs
    BY DEF SearchType
<1>6. /\ i \in 1..n /\ sl[i].amount >= size
      /\ ProviderOf[list[i].contract] \notin excluded
      /\ u.blobs = Append(sb, [contract |-> list[i].contract, amount |-> size])
    BY <1>1, <1>3, <1>5 DEF Turn
<1>7. PICK b \in Part : b = [contract |-> list[i].contract, amount |-> size]
  <2>1. list[i] \in Part
    BY <1>1, <1>6
  <2>2. list[i].contract \in Contracts
    BY <2>1 DEF Part
  <2> QED  BY <2>2 DEF Part
<1>8. \A j \in 1..n : sl[j].amount \in Nat /\ ul[j].amount \in Nat
  <2>1. \A j \in 1..n : sl[j] \in Part /\ ul[j] \in Part
    BY <1>3, <1>4
  <2> QED  BY <2>1 DEF Part
<1>9. /\ ul[i].amount = sl[i].amount - size
      /\ \A j \in 1..n : j # i => ul[j] = sl[j]
    BY <1>1, <1>2, <1>3, <1>4
<1>10. RoomIn(ul, size, excluded) + 1 = RoomIn(sl, size, excluded)
  <2> DEFINE S == {j \in 1..n : ProviderOf[list[j].contract] \notin excluded}
             f == [j \in 1..n |-> sl[j].amount \div size]
             g == [j \in 1..n |-> ul[j].amount \div size]
  <2>1. {j \in DOMAIN sl : ProviderOf[sl[j].contract] \notin excluded} = S
    BY <1>3
  <2>2. {j \in DOMAIN ul : ProviderOf[ul[j].contract] \notin excluded} = S
    BY <1>4
  <2>3. RoomIn(sl, size, excluded) = SumFunctionOnSet(f, S)
    BY <1>3, <2>1 DEF RoomIn
  <2>4. RoomIn(ul, size, excluded) = SumFunctionOnSet(g, S)
    BY <1>4, <2>2 DEF RoomIn
  <2>5. IsFiniteSet(1..n)
    BY FS_Interval
  <2>6. IsFiniteSet(S) /\ i \in S /\ S \subseteq 1..n
    BY <1>6, <2>5, FS_Subset
  <2>7. \A j \in 1..n : f[j] \in Nat /\ g[j] \in Nat
    <3> SUFFICES ASSUME NEW j \in 1..n  PROVE f[j] \in Nat /\ g[j] \in Nat
      OBVIOUS
    <3>1. sl[j].amount \in Nat /\ ul[j].amount \in Nat
      BY <1>8
    <3>2. sl[j].amount \div size \in Nat /\ ul[j].amount \div size \in Nat
      BY <3>1, Fitting
    <3> QED  BY <3>2
  <2>8. f[i] = g[i] + 1
    <3>1. PICK a \in Nat : a = sl[i].amount
      BY <1>6, <1>8
    <3>2. a \div size = ((a - size) \div size) + 1
      BY <1>6, <3>1, Fitting
    <3> QED  BY <1>6, <1>9, <3>1, <3>2
  <2>9. \A j \in S \ {i} : g[j] = f[j]
    BY <1>9
  <2>10. PICK aa \in Int : aa = f[i] /\ aa = g[i] + 1
    BY <1>6, <2>7, <2>8
  <2> HIDE DEF f, g, S
  <2>11. (\A j \in S : f[j] \in Int) /\ (\A j \in S : g[j] \in Int)
    BY <2>6, <2>7
  <2>12. SumFunctionOnSet(g, S) = SumFunctionOnSet(f, S) - f[i] + g[i]
    <3>1. PICK R, d, e : R = S /\ d = f /\ e = g
      OBVIOUS
    <3>2. /\ IsFiniteSet(R) /\ i \in R /\ (\A j \in R \ {i} : e[j] = d[j])
          /\ (\A j \in R : d[j] \in Int) /\ (\A j \in R : e[j] \in Int)
      BY <2>6, <2>9, <2>11, <3>1
    <3>3. SumFunctionOnSet(e, R) = SumFunctionOnSet(d, R) - d[i] + e[i]
      BY <3>2, SumChanges
    <3> QED  BY <3>1, <3>3
  <2>13. SumFunctionOnSet(f, S) \in Int /\ SumFunctionOnSet(g, S) \in Int /\ f[i] \in Int /\ g[i] \in Int
    BY <2>6, <2>11, SumType
  <2> QED  BY <2>3, <2>4, <2>8, <2>12, <2>13
<1>11. OnePer(sl) /\ OnePer(ul)
  <2>1. OnePer(sl)
    BY <1>1, <1>3 DEF OnePer
  <2>2. OnePer(ul)
    BY <1>1, <1>4 DEF OnePer
  <2> QED  BY <2>1, <2>2
<1>12. ASSUME NEW c
       PROVE  FreeIn(ul, c) + Gives(b, c) = FreeIn(sl, c)
  <2>1. b.contract = list[i].contract /\ b.amount = size
    BY <1>7
  <2>2. CASE \E j \in 1..n : list[j].contract = c
    <3>1. PICK j \in 1..n : list[j].contract = c
      BY <2>2
    <3>2. FreeIn(ul, c) = ul[j].amount
      <4>1. ul \in Seq(Part) /\ OnePer(ul) /\ j \in DOMAIN ul /\ ul[j].contract = c
        BY <1>4, <1>11, <3>1
      <4> QED  BY <4>1, FreeOfOne
    <3>3. FreeIn(sl, c) = sl[j].amount
      <4>1. sl \in Seq(Part) /\ OnePer(sl) /\ j \in DOMAIN sl /\ sl[j].contract = c
        BY <1>3, <1>11, <3>1
      <4> QED  BY <4>1, FreeOfOne
    <3>4. j = i <=> b.contract = c
      BY <1>1, <1>6, <2>1, <3>1 DEF OnePer
    <3>5. PICK x \in Nat, y \in Nat : x = sl[j].amount /\ y = ul[j].amount
      BY <1>8
    <3>6. j # i => x = y
      BY <1>9, <3>5
    <3>7. j = i => y = x - size
      BY <1>9, <3>5
    <3> QED  BY <2>1, <3>2, <3>3, <3>4, <3>5, <3>6, <3>7 DEF Gives
  <2>3. CASE ~\E j \in 1..n : list[j].contract = c
    <3>1. FreeIn(ul, c) = 0
      <4>1. ul \in Seq(Part) /\ OnePer(ul) /\ \A j \in DOMAIN ul : ul[j].contract # c
        BY <1>4, <1>11, <2>3
      <4> QED  BY <4>1, FreeOfOne
    <3>2. FreeIn(sl, c) = 0
      <4>1. sl \in Seq(Part) /\ OnePer(sl) /\ \A j \in DOMAIN sl : sl[j].contract # c
        BY <1>3, <1>11, <2>3
      <4> QED  BY <4>1, FreeOfOne
    <3>3. b.contract # c
      BY <1>6, <2>1, <2>3
    <3> QED  BY <3>1, <3>2, <3>3 DEF Gives
  <2> QED  BY <2>2, <2>3
<1>13. ASSUME NEW c
       PROVE  FreeIn(ul, c) + GivenBy(u.blobs, Len(u.blobs), c) = FreeIn(sl, c) + GivenBy(sb, Len(sb), c)
  <2>1. GivenBy(u.blobs, Len(u.blobs), c) =
           GivenBy(sb, Len(sb), c) + Gives(b, c)
    <3>1. sb \in Seq(Part) /\ b \in Part /\ u.blobs = Append(sb, b)
      BY <1>5, <1>6, <1>7
    <3>2. GivenBy(Append(sb, b), Len(Append(sb, b)), c) = GivenBy(sb, Len(sb), c) + Gives(b, c)
      BY <3>1, GivenByAppend, Zenon
    <3> QED  BY <3>1, <3>2
  <2>2. GivenBy(sb, Len(sb), c) \in Nat
    <3>1. sb \in Seq(Part) /\ Len(sb) \in 0..Len(sb)
      BY <1>5
    <3> QED  BY <3>1, GivenByNext
  <2>3. FreeIn(ul, c) \in Nat
    BY <1>4, <1>11, FreeOfOne
  <2>4. FreeIn(ul, c) + Gives(b, c) = FreeIn(sl, c)
    BY <1>12
  <2>5. Gives(b, c) \in Nat
    BY <1>7 DEF Part, Gives
  <2>6. PICK d \in Nat : d = Gives(b, c)
    BY <2>5
  <2>7. /\ GivenBy(u.blobs, Len(u.blobs), c) = GivenBy(sb, Len(sb), c) + d
        /\ FreeIn(ul, c) + d = FreeIn(sl, c)
    BY <2>1, <2>4, <2>6
  <2> QED  BY <2>2, <2>3, <2>6, <2>7
<1>14. Len(u.blobs) = Len(sb) + 1
    BY <1>5, <1>6, <1>7
<1> QED
    BY <1>3, <1>4, <1>5, <1>10, <1>13, <1>14

\* Where a search starts.
FirstTurn(list, size, excluded, start) ==
    [list |-> list, cand |-> Candidates(list, size, excluded, start), next |-> 1, blobs |-> <<>>]

\* The search after a turn, if there is one.
AfterTurn(s, size) == IF s.cand = <<>> THEN s ELSE TakeOne(s, size)

\* The definition of Search as a function over the numbers of turns.
SearchedTo(f, list, size, excluded, start, m) ==
    f = [k \in 0..m |-> IF k = 0 THEN FirstTurn(list, size, excluded, start)
                        ELSE AfterTurn(f[k - 1], size)]

\* There is one for each number.
LEMMA SearchedToExists ==
    ASSUME NEW list, NEW size, NEW excluded, NEW start, NEW N \in Nat
    PROVE  \E f : SearchedTo(f, list, size, excluded, start, N)
<1> DEFINE G == {m \in 0..N : \E f : SearchedTo(f, list, size, excluded, start, m)}
           first == FirstTurn(list, size, excluded, start)
<1>1. 0 \in G
  <2>1. SearchedTo([k \in 0..0 |-> first], list, size, excluded, start, 0)
    BY DEF SearchedTo
  <2> QED  BY <2>1
<1>2. ASSUME NEW m \in 0..N, m \in G, m < N  PROVE m + 1 \in G
  <2>1. PICK f : SearchedTo(f, list, size, excluded, start, m)
    BY <1>2
  <2> DEFINE g == [k \in 0..(m + 1) |-> IF k <= m THEN f[k] ELSE AfterTurn(f[k - 1], size)]
  <2> HIDE DEF first
  <2>2. ASSUME NEW k \in 0..(m + 1)
        PROVE  g[k] = IF k = 0 THEN first ELSE AfterTurn(g[k - 1], size)
    <3>1. CASE k <= m
      <4>1. k \in 0..m /\ g[k] = f[k] /\ (k # 0 => g[k - 1] = f[k - 1])
        BY <3>1
      <4> HIDE DEF g
      <4>2. f[k] = IF k = 0 THEN first ELSE AfterTurn(f[k - 1], size)
        BY <2>1, <4>1 DEF SearchedTo, first
      <4> QED  BY <4>1, <4>2
    <3>2. CASE ~(k <= m)
      <4>1. k # 0 /\ k - 1 \in 0..m /\ k - 1 <= m /\ k - 1 \in 0..(m + 1)
        BY <3>2
      <4>2. g[k - 1] = f[k - 1]
        BY <4>1
      <4>3. g[k] = AfterTurn(f[k - 1], size)
        BY <3>2
      <4> QED  BY <4>1, <4>2, <4>3
    <3> QED  BY <3>1, <3>2
  <2>3. g = [k \in 0..(m + 1) |-> g[k]]
    OBVIOUS
  <2> HIDE DEF g
  <2>4. SearchedTo(g, list, size, excluded, start, m + 1)
    BY <2>2, <2>3 DEF SearchedTo, first
  <2> QED  BY <1>2, <2>4
<1> HIDE DEF G
<1>3. N \in G
    BY <1>1, <1>2, CountUp
<1> QED
    BY <1>3 DEF G

\* f[m]: the search after m turns.
TurnsOf(f, list, n, size, excluded, start) ==
    /\ f[0] = FirstTurn(list, size, excluded, start)
    /\ f[n] = Search(list, n, size, excluded, start)
    /\ \A m \in 0..n : m < n => f[m + 1] = AfterTurn(f[m], size)

\* A search is the result of its turns.
LEMMA SearchTurns ==
    ASSUME NEW list, NEW size, NEW excluded, NEW start, NEW n \in Nat
    PROVE  \E f : TurnsOf(f, list, n, size, excluded, start)
<1> DEFINE f == CHOOSE f : SearchedTo(f, list, size, excluded, start, n)
<1>1. SearchedTo(f, list, size, excluded, start, n)
    BY SearchedToExists
<1>2. f[n] = Search(list, n, size, excluded, start)
    BY DEF Search, SearchedTo, AfterTurn, FirstTurn
<1> HIDE DEF f
<1>3. f[0] = FirstTurn(list, size, excluded, start)
    BY <1>1 DEF SearchedTo
<1>4. ASSUME NEW m \in 0..n, m < n  PROVE f[m + 1] = AfterTurn(f[m], size)
  <2>1. m + 1 \in 0..n /\ m + 1 # 0 /\ (m + 1) - 1 = m
    BY <1>4
  <2> QED  BY <1>1, <2>1 DEF SearchedTo
<1> QED
    BY <1>2, <1>3, <1>4 DEF TurnsOf

\* The blobs of a search are what was asked for, of the contracts of the list.
GoodBlobs(list, size, excluded, blobs) ==
    \A m \in DOMAIN blobs :
        /\ blobs[m].amount = size
        /\ \E i \in DOMAIN list : /\ list[i].contract = blobs[m].contract
                                  /\ ProviderOf[list[i].contract] \notin excluded

\* What the turns of a search keep: the room there was is the room that is left
\* and the blobs, contract by contract too, and there are as many blobs as
\* turns while there are candidates.
SearchInv(list, size, excluded, k, s) ==
    /\ SearchType(list, s) /\ SearchCand(size, excluded, s)
    /\ GoodBlobs(list, size, excluded, s.blobs)
    /\ Len(s.blobs) <= k /\ (s.cand # <<>> => Len(s.blobs) = k)
    /\ RoomIn(s.list, size, excluded) + Len(s.blobs) = RoomIn(list, size, excluded)
    /\ \A c : FreeIn(s.list, c) + GivenBy(s.blobs, Len(s.blobs), c) = FreeIn(list, c)

\* The room is a number.
LEMMA RoomType ==
    ASSUME NEW list \in Seq(Part), NEW size \in Nat \ {0}, NEW excluded
    PROVE  RoomIn(list, size, excluded) \in Nat
<1>1. PICK n \in Nat : n = Len(list) /\ DOMAIN list = 1..n
    OBVIOUS
<1> DEFINE S == {i \in DOMAIN list : ProviderOf[list[i].contract] \notin excluded}
           f == [i \in DOMAIN list |-> list[i].amount \div size]
<1>2. IsFiniteSet(1..n)
    BY FS_Interval
<1>3. IsFiniteSet(S)
    BY <1>1, <1>2, FS_Subset
<1>4. ASSUME NEW i \in S  PROVE f[i] \in Nat
  <2>1. list[i] \in Part
    OBVIOUS
  <2>2. list[i].amount \in Nat
    BY <2>1 DEF Part
  <2>3. list[i].amount \div size \in Nat
    BY <2>2, Fitting
  <2> QED  BY <2>3
<1>5. RoomIn(list, size, excluded) = SumFunctionOnSet(f, S)
    BY DEF RoomIn
<1> HIDE DEF f, S
<1> QED
    BY <1>3, <1>4, <1>5, SumType

\* It holds where a search starts.
LEMMA SearchStarts ==
    ASSUME NEW list \in Seq(Part), OnePer(list), NEW size \in Nat \ {0}, NEW excluded,
           NEW start, list # <<>> => start \in DOMAIN list
    PROVE  SearchInv(list, size, excluded, 0, FirstTurn(list, size, excluded, start))
<1>1. PICK C : C = Candidates(list, size, excluded, start)
    OBVIOUS
<1>2. C \in Seq(DOMAIN list) /\ IsInjective(C) /\ ToSet(C) = Fits(list, size, excluded)
    BY <1>1, CandidatesOf
<1>3. PICK s : s = FirstTurn(list, size, excluded, start)
    OBVIOUS
<1>4. s.list = list /\ s.cand = C /\ s.next = 1 /\ s.blobs = <<>>
    BY <1>1, <1>3 DEF FirstTurn
<1>5. <<>> \in Seq(Part) /\ Len(<<>>) = 0 /\ DOMAIN <<>> = {}
    OBVIOUS
<1>6. SearchType(list, s)
    BY <1>2, <1>4, <1>5 DEF SearchType
<1>7. C # <<>> => 1 \in 1..Len(C)
    BY <1>2
<1>8. SearchCand(size, excluded, s)
    BY <1>2, <1>4, <1>7 DEF SearchCand
<1>9. GoodBlobs(list, size, excluded, s.blobs)
    BY <1>4, <1>5 DEF GoodBlobs
<1>10. RoomIn(s.list, size, excluded) + Len(s.blobs) = RoomIn(list, size, excluded)
  <2>1. RoomIn(list, size, excluded) \in Nat
    BY RoomType
  <2> QED  BY <1>4, <1>5, <2>1
<1>11. Len(s.blobs) = 0
    BY <1>4, <1>5
<1> QED
  <2>1. ASSUME NEW c  PROVE GivenBy(s.blobs, Len(s.blobs), c) = 0
    <3>1. 1..0 = {}
      OBVIOUS
    <3> QED  BY <1>11, <3>1, SumOfNone DEF GivenBy
  <2>2. ASSUME NEW c
        PROVE  FreeIn(s.list, c) + GivenBy(s.blobs, Len(s.blobs), c) = FreeIn(list, c)
    <3>1. FreeIn(list, c) \in Nat
      BY FreeOfOne
    <3> QED  BY <1>4, <2>1, <3>1
  <2>3. Len(s.blobs) <= 0 /\ (s.cand # <<>> => Len(s.blobs) = 0)
    BY <1>11
  <2>4. SearchInv(list, size, excluded, 0, s)
    BY <1>6, <1>8, <1>9, <1>10, <2>2, <2>3 DEF SearchInv
  <2> QED  BY <1>3, <2>4

\* A turn keeps it.
LEMMA SearchNext ==
    ASSUME NEW list \in Seq(Part), OnePer(list), NEW size \in Nat \ {0}, NEW excluded,
           NEW k \in Nat, NEW s, SearchInv(list, size, excluded, k, s),
           NEW u, u = AfterTurn(s, size)
    PROVE  SearchInv(list, size, excluded, k + 1, u)
<1>0. SearchType(list, s) /\ SearchCand(size, excluded, s)
    BY DEF SearchInv
<1>1. PICK b \in Nat : b = Len(s.blobs)
  <2>1. s.blobs \in Seq(Part)
    BY <1>0 DEF SearchType
  <2> QED  BY <2>1
<1>2. CASE s.cand = <<>>
  <2>1. u = s
    BY <1>2 DEF AfterTurn
  <2>2. b <= k
    BY <1>1 DEF SearchInv
  <2>3. b <= k + 1
    BY <2>2
  <2> QED  BY <1>1, <1>2, <2>1, <2>3 DEF SearchInv
<1>3. CASE s.cand # <<>>
  <2>1. u = TakeOne(s, size)
    BY <1>3 DEF AfterTurn
  <2>2. PICK i : Turn(list, size, excluded, s, u, i)
    BY <1>0, <1>3, <2>1, TakeOneIsTurn
  <2>3. SearchType(list, u) /\ SearchCand(size, excluded, u)
    BY <1>0, <2>2, TurnKeepsSearch
  <2>4. /\ Len(u.blobs) = Len(s.blobs) + 1
        /\ RoomIn(u.list, size, excluded) + 1 = RoomIn(s.list, size, excluded)
        /\ \A c : FreeIn(u.list, c) + GivenBy(u.blobs, Len(u.blobs), c)
                    = FreeIn(s.list, c) + GivenBy(s.blobs, Len(s.blobs), c)
    BY <1>0, <2>2, TurnMoves
  <2>5. b = k /\ Len(u.blobs) = k + 1
    BY <1>1, <1>3, <2>4 DEF SearchInv
  <2>6. RoomIn(u.list, size, excluded) + Len(u.blobs) = RoomIn(list, size, excluded)
    <3>1. RoomIn(s.list, size, excluded) + b = RoomIn(list, size, excluded)
      BY <1>1 DEF SearchInv
    <3>2. RoomIn(u.list, size, excluded) \in Nat
      <4>1. u.list \in Seq(Part)
        BY <2>3 DEF SearchType
      <4> QED  BY <4>1, RoomType
    <3>3. PICK r \in Nat : r = RoomIn(u.list, size, excluded)
      BY <3>2
    <3>4. RoomIn(s.list, size, excluded) = r + 1 /\ Len(u.blobs) = b + 1
      BY <1>1, <2>4, <3>3
    <3>5. RoomIn(list, size, excluded) = (r + 1) + b
      BY <3>1, <3>4
    <3> QED  BY <3>3, <3>4, <3>5
  <2>7. ASSUME NEW c
        PROVE  FreeIn(u.list, c) + GivenBy(u.blobs, Len(u.blobs), c) = FreeIn(list, c)
    <3>1. FreeIn(s.list, c) + GivenBy(s.blobs, Len(s.blobs), c) = FreeIn(list, c)
      BY DEF SearchInv
    <3>2. FreeIn(u.list, c) + GivenBy(u.blobs, Len(u.blobs), c)
            = FreeIn(s.list, c) + GivenBy(s.blobs, Len(s.blobs), c)
      BY <2>4
    <3> QED  BY <3>1, <3>2, Zenon
  <2>8. GoodBlobs(list, size, excluded, u.blobs)
    <3>1. /\ i \in DOMAIN list /\ ProviderOf[list[i].contract] \notin excluded
          /\ u.blobs = Append(s.blobs, [contract |-> list[i].contract, amount |-> size])
      BY <2>2 DEF Turn
    <3>2. PICK sb, e : sb = s.blobs /\ e = [contract |-> list[i].contract, amount |-> size]
      OBVIOUS
    <3>3. sb \in Seq(Part) /\ Len(sb) = k /\ DOMAIN sb = 1..k
      <4>1. sb \in Seq(Part)
        BY <1>0, <3>2 DEF SearchType
      <4>2. Len(sb) = k
        BY <1>1, <2>5, <3>2
      <4> QED  BY <4>1, <4>2
    <3>4. list[i] \in Part
      BY <3>1
    <3>5. e \in Part
      BY <3>2, <3>4 DEF Part
    <3>6. PICK ub : ub = Append(sb, e)
      OBVIOUS
    <3>7. DOMAIN ub = 1..(k + 1) /\ ub[k + 1] = e /\ \A m \in 1..k : ub[m] = sb[m]
      BY <3>3, <3>5, <3>6
    <3>8. GoodBlobs(list, size, excluded, sb)
      BY <3>2 DEF SearchInv
    <3>9. ASSUME NEW m \in 1..(k + 1)
          PROVE  /\ ub[m].amount = size
                 /\ \E j \in DOMAIN list : /\ list[j].contract = ub[m].contract
                                           /\ ProviderOf[list[j].contract] \notin excluded
      <4>1. CASE m = k + 1
        <5>1. ub[m].amount = size /\ ub[m].contract = list[i].contract
          BY <3>2, <3>7, <4>1
        <5> QED  BY <3>1, <5>1
      <4>2. CASE m # k + 1
        <5>1. m \in 1..k
          BY <4>2
        <5>2. m \in DOMAIN sb /\ ub[m] = sb[m]
          BY <3>3, <3>7, <5>1
        <5> QED  BY <3>8, <5>2 DEF GoodBlobs
      <4> QED  BY <4>1, <4>2
    <3>10. GoodBlobs(list, size, excluded, ub)
      BY <3>7, <3>9 DEF GoodBlobs
    <3> QED  BY <3>1, <3>2, <3>6, <3>10
  <2>9. Len(u.blobs) <= k + 1 /\ (u.cand # <<>> => Len(u.blobs) = k + 1)
    BY <2>5
  <2> QED  BY <2>3, <2>6, <2>7, <2>8, <2>9 DEF SearchInv
<1> QED
    BY <1>2, <1>3

\* So it holds of a search.
LEMMA SearchOf ==
    ASSUME NEW list \in Seq(Part), OnePer(list), NEW size \in Nat \ {0}, NEW excluded,
           NEW start, list # <<>> => start \in DOMAIN list, NEW n \in Nat
    PROVE  SearchInv(list, size, excluded, n, Search(list, n, size, excluded, start))
<1>1. PICK f : TurnsOf(f, list, n, size, excluded, start)
    BY SearchTurns
<1> DEFINE G == {m \in 0..n : SearchInv(list, size, excluded, m, f[m])}
<1>2. 0 \in G
  <2>1. f[0] = FirstTurn(list, size, excluded, start)
    BY <1>1 DEF TurnsOf
  <2>2. SearchInv(list, size, excluded, 0, FirstTurn(list, size, excluded, start))
    BY SearchStarts
  <2> QED  BY <2>1, <2>2
<1>3. ASSUME NEW m \in 0..n, m \in G, m < n  PROVE m + 1 \in G
  <2>1. SearchInv(list, size, excluded, m, f[m]) /\ f[m + 1] = AfterTurn(f[m], size)
    BY <1>1, <1>3 DEF TurnsOf
  <2>2. SearchInv(list, size, excluded, m + 1, f[m + 1])
    BY <2>1, SearchNext
  <2> QED  BY <1>3, <2>2
<1> HIDE DEF G
<1>4. n \in G
    BY <1>2, <1>3, CountUp
<1> QED
    BY <1>1, <1>4 DEF G, TurnsOf

\* A list without candidates has no room.
LEMMA NoRoom ==
    ASSUME NEW list \in Seq(Part), NEW size \in Nat \ {0}, NEW excluded,
           Fits(list, size, excluded) = {}
    PROVE  RoomIn(list, size, excluded) = 0
<1>1. PICK n \in Nat : n = Len(list) /\ DOMAIN list = 1..n
    OBVIOUS
<1> DEFINE S == {i \in DOMAIN list : ProviderOf[list[i].contract] \notin excluded}
           f == [i \in DOMAIN list |-> list[i].amount \div size]
<1>2. IsFiniteSet(1..n)
    BY FS_Interval
<1>3. IsFiniteSet(S)
    BY <1>1, <1>2, FS_Subset
<1>4. ASSUME NEW i \in S  PROVE f[i] = 0
  <2>1. list[i] \in Part
    OBVIOUS
  <2>2. PICK a \in Nat : a = list[i].amount
    BY <2>1 DEF Part
  <2>3. ~(a >= size)
    BY <2>2 DEF Fits
  <2>5. a < size
    BY <2>2, <2>3
  <2>4. a \div size = 0
    BY <2>5, Fitting
  <2> QED  BY <2>2, <2>4
<1>5. RoomIn(list, size, excluded) = SumFunctionOnSet(f, S)
    BY DEF RoomIn
<1> HIDE DEF f, S
<1> QED
    BY <1>3, <1>4, <1>5, SumOfZeros

\* Lists with the same contracts in the same order, one blob for each, and as
\* much of each, are the same.
LEMMA SameLists ==
    ASSUME NEW r \in Seq(Part), NEW list \in Seq(Part), OnePer(r), OnePer(list),
           Len(r) = Len(list),
           \A i \in DOMAIN list : r[i].contract = list[i].contract,
           \A c : FreeIn(r, c) = FreeIn(list, c)
    PROVE  r = list
<1>1. PICK n \in Nat : n = Len(list) /\ DOMAIN list = 1..n /\ DOMAIN r = 1..n /\ Len(r) = n
    OBVIOUS
<1>2. ASSUME NEW i \in 1..n  PROVE r[i] = list[i]
  <2>1. PICK c : c = list[i].contract /\ c = r[i].contract
    BY <1>1
  <2>2. FreeIn(r, c) = r[i].amount /\ FreeIn(list, c) = list[i].amount
    BY <1>1, <2>1, FreeOfOne
  <2>3. PICK p \in Part, q \in Part : p = r[i] /\ q = list[i]
    BY <1>1
  <2>4. p.amount = q.amount /\ p.contract = q.contract
    BY <2>1, <2>2, <2>3
  <2>5. p = q
    BY <2>4 DEF Part
  <2> QED  BY <2>3, <2>5
<1> QED
    BY <1>1, <1>2

-----------------------------------------------------------------------------
(* What findStorage promises.                                              *)

\* What findStorage promises: all of it while there is room, and else nothing.
Found(list, n, size, excluded, r) ==
    /\ RoomIn(list, size, excluded) < n => ~r.ok /\ r.blobs = <<>> /\ r.list = list
    /\ RoomIn(list, size, excluded) >= n =>
         /\ r.ok /\ r.blobs \in Seq(Part) /\ Len(r.blobs) = n
         /\ GoodBlobs(list, size, excluded, r.blobs)
         /\ r.list \in Seq(Part) /\ OnePer(r.list) /\ Full(r.list)
         /\ \A c : FreeIn(r.list, c) + GivenBy(r.blobs, Len(r.blobs), c) = FreeIn(list, c)

\* It keeps the promise: a search ends early only when nothing fits any more,
\* and then its blobs, put back, make the list it started from.
LEMMA FindStorageOf ==
    ASSUME NEW list \in Seq(Part), OnePer(list), NEW size \in Nat \ {0}, NEW excluded,
           NEW start, list # <<>> => start \in DOMAIN list, NEW n \in Nat \ {0}
    PROVE  Found(list, n, size, excluded, FindStorage(list, n, size, excluded, start))
<1>1. PICK end : end = Search(list, n, size, excluded, start)
    OBVIOUS
<1>2. SearchInv(list, size, excluded, n, end)
  <2>1. n \in Nat
    OBVIOUS
  <2>2. SearchInv(list, size, excluded, n, Search(list, n, size, excluded, start))
    BY <2>1, SearchOf
  <2> QED  BY <1>1, <2>2
<1>3. SearchType(list, end) /\ SearchCand(size, excluded, end)
    BY <1>2 DEF SearchInv
<1>4. PICK el, eb : el = end.list /\ eb = end.blobs
    OBVIOUS
<1>5. /\ el \in Seq(Part) /\ Len(el) = Len(list) /\ DOMAIN el = DOMAIN list
      /\ \A i \in DOMAIN list : el[i].contract = list[i].contract
      /\ eb \in Seq(Part)
  <2>1. /\ el \in Seq(Part) /\ Len(el) = Len(list)
        /\ \A i \in DOMAIN list : el[i].contract = list[i].contract
        /\ eb \in Seq(Part)
    BY <1>3, <1>4 DEF SearchType
  <2>2. DOMAIN el = DOMAIN list
    BY <2>1
  <2> QED  BY <2>1, <2>2
<1>6. OnePer(el)
    BY <1>5 DEF OnePer
<1>7. PICK b \in Nat, room \in Nat :
          b = Len(eb) /\ room = RoomIn(list, size, excluded)
  <2>1. Len(eb) \in Nat /\ RoomIn(list, size, excluded) \in Nat
    BY <1>5, RoomType
  <2> QED  BY <2>1
<1>8. PICK rest \in Nat : rest = RoomIn(el, size, excluded)
    BY <1>5, RoomType
<1>9. /\ rest + b = room /\ b <= n /\ (end.cand # <<>> => b = n)
      /\ GoodBlobs(list, size, excluded, eb)
      /\ \A c : FreeIn(el, c) + GivenBy(eb, Len(eb), c) = FreeIn(list, c)
    BY <1>2, <1>4, <1>7, <1>8 DEF SearchInv
<1>10. PICK r : r = FindStorage(list, n, size, excluded, start)
    OBVIOUS
<1>11. r = IF Len(eb) < n
           THEN [ok |-> FALSE, blobs |-> <<>>, list |-> AddBlobs(el, eb)]
           ELSE [ok |-> TRUE, blobs |-> eb, list |-> WithoutEmpty(el)]
    BY <1>1, <1>4, <1>10 DEF FindStorage
<1>12. CASE b < n
  <2>1. end.cand = <<>>
    BY <1>7, <1>9, <1>12
  <2>2. Fits(el, size, excluded) = {}
    <3>1. ToSet(<<>>) = {}
      BY DEF ToSet
    <3> QED  BY <1>3, <1>4, <2>1, <3>1 DEF SearchCand
  <2>3. rest = 0
    BY <1>5, <1>8, <2>2, NoRoom
  <2>4. room < n
    BY <1>9, <1>12, <2>3
  <2>5. PICK back : back = AddBlobs(el, eb)
    OBVIOUS
  <2>6. \A k \in DOMAIN eb : \E i \in DOMAIN el : el[i].contract = eb[k].contract
    BY <1>5, <1>9 DEF GoodBlobs
  <2>7. /\ back \in Seq(Part) /\ OnePer(back) /\ Len(back) = Len(el)
        /\ \A i \in DOMAIN el : back[i].contract = el[i].contract
        /\ \A c : FreeIn(back, c) = FreeIn(el, c) + GivenBy(eb, Len(eb), c)
    BY <1>5, <1>6, <2>5, <2>6, AddBlobsOf
  <2>8. ASSUME NEW c  PROVE FreeIn(back, c) = FreeIn(list, c)
    BY <1>9, <2>7, Zenon
  <2>9. back = list
    BY <1>5, <2>7, <2>8, SameLists
  <2>10. ~r.ok /\ r.blobs = <<>> /\ r.list = list
    BY <1>7, <1>11, <1>12, <2>5, <2>9
  <2>11. ~(room >= n)
    BY <2>4
  <2> QED  BY <1>7, <1>10, <2>10, <2>11 DEF Found
<1>13. CASE ~(b < n)
  <2>1. b = n
    BY <1>9, <1>13
  <2>2. room >= n /\ ~(room < n)
    BY <1>9, <2>1
  <2>3. r.ok /\ r.blobs = eb /\ r.list = WithoutEmpty(el)
    BY <1>7, <1>11, <1>13
  <2>4. PICK w : w = WithoutEmpty(el)
    OBVIOUS
  <2>5. /\ w \in Seq(Part) /\ OnePer(w) /\ Full(w)
        /\ \A c : FreeIn(w, c) = FreeIn(el, c)
    BY <1>5, <1>6, <2>4, WithoutEmptyOf
  <2>6. ASSUME NEW c  PROVE FreeIn(w, c) + GivenBy(eb, Len(eb), c) = FreeIn(list, c)
    BY <1>9, <2>5, Zenon
  <2> QED  BY <1>5, <1>7, <1>9, <1>10, <2>1, <2>2, <2>3, <2>4, <2>5, <2>6 DEF Found
<1> QED
    BY <1>12, <1>13

\* The manager's list is one of blobs that are not empty, one for a contract.
ListOK == freelist \in Seq(Part) /\ Full(freelist) /\ OnePer(freelist)

\* What a search of the manager's list finds.
LEMMA FindIsExactHere ==
    ASSUME StorageAssumption, ListOK  PROVE FindIsExact
<1>1. freelist \in Seq(Part) /\ OnePer(freelist)
    BY DEF ListOK
<1> SUFFICES ASSUME NEW n \in 1..MaxBlobs, NEW size \in BlobSizes,
                    NEW excluded \in SUBSET Providers, NEW start \in DOMAIN freelist
             PROVE  LET found == FindStorage(freelist, n, size, excluded, start)
                    IN  IF Room(size, excluded) < n
                        THEN ~found.ok /\ found.list = freelist
                        ELSE /\ found.ok
                             /\ Len(found.blobs) = n
                             /\ \A k \in DOMAIN found.blobs :
                                   /\ found.blobs[k].amount = size
                                   /\ ProviderOf[found.blobs[k].contract] \notin excluded
    BY DEF FindIsExact
<1> DEFINE found == FindStorage(freelist, n, size, excluded, start)
<1> HIDE DEF found
<1>2. size \in Nat \ {0} /\ n \in Nat \ {0}
    BY DEF StorageAssumption
<1>3. Found(freelist, n, size, excluded, found)
    BY <1>1, <1>2, FindStorageOf DEF found
<1>4. PICK room \in Nat : room = Room(size, excluded) /\ room = RoomIn(freelist, size, excluded)
  <2>1. Room(size, excluded) = RoomIn(freelist, size, excluded)
    BY DEF Room, RoomIn
  <2> QED  BY <1>1, <1>2, <2>1, RoomType
<1>5. CASE room < n
    BY <1>3, <1>4, <1>5 DEF Found, found
<1>6. CASE ~(room < n)
  <2>1. room >= n
    BY <1>2, <1>6
  <2>2. found.ok /\ Len(found.blobs) = n /\ GoodBlobs(freelist, size, excluded, found.blobs)
    BY <1>3, <1>4, <2>1 DEF Found
  <2>3. ASSUME NEW k \in DOMAIN found.blobs
        PROVE  /\ found.blobs[k].amount = size
               /\ ProviderOf[found.blobs[k].contract] \notin excluded
    BY <2>2 DEF GoodBlobs
  <2> QED  BY <1>4, <1>6, <2>2, <2>3 DEF found
<1> QED
    BY <1>5, <1>6

-----------------------------------------------------------------------------
(* The turns of a search are spread.                                       *)

\* The blobs of a list that are of the contract at position p.
Given(list, blobs, p) == Cardinality({k \in DOMAIN blobs : blobs[k].contract = list[p].contract})

\* The positions but two that blobs used up.
Drained(list, size, blobs, i, j) ==
    {k \in DOMAIN list \ {i, j} : /\ Given(list, blobs, k) > 0
                                  /\ list[k].amount - Given(list, blobs, k) * size < size}

\* One more blob is one more for its contract.
LEMMA GivenNext ==
    ASSUME NEW list \in Seq(Part), OnePer(list), NEW blobs \in Seq(Part), NEW e \in Part,
           NEW i \in DOMAIN list, e.contract = list[i].contract, NEW p \in DOMAIN list
    PROVE  /\ Given(list, blobs, p) \in Nat /\ Given(list, blobs, p) <= Len(blobs)
           /\ p = i => Given(list, Append(blobs, e), p) = Given(list, blobs, p) + 1
           /\ p # i => Given(list, Append(blobs, e), p) = Given(list, blobs, p)
<1>1. PICK n \in Nat : n = Len(blobs) /\ DOMAIN blobs = 1..n
    OBVIOUS
<1>2. PICK more : more = Append(blobs, e)
    OBVIOUS
<1>5. DOMAIN more = 1..(n + 1) /\ more[n + 1] = e /\ \A k \in 1..n : more[k] = blobs[k]
    BY <1>1, <1>2
<1> DEFINE K == {k \in 1..n : blobs[k].contract = list[p].contract}
<1>6. IsFiniteSet(1..n) /\ Cardinality(1..n) = n
  <2>1. IsFiniteSet(1..n)
    BY FS_Interval
  <2>2. Cardinality(1..n) = IF 1 > n THEN 0 ELSE n - 1 + 1
    BY FS_Interval
  <2> QED  BY <2>1, <2>2
<1>7. IsFiniteSet(K) /\ Cardinality(K) \in Nat /\ Cardinality(K) <= n
  <2>1. K \subseteq 1..n
    OBVIOUS
  <2> HIDE DEF K
  <2> QED  BY <1>6, <2>1, FS_Subset, FS_CardinalityType
<1>8. Given(list, blobs, p) = Cardinality(K)
    BY <1>1 DEF Given
<1>9. Given(list, more, p) = Cardinality({k \in 1..(n + 1) : more[k].contract = list[p].contract})
    BY <1>5 DEF Given
<1>10. CASE p = i
  <2>1. {k \in 1..(n + 1) : more[k].contract = list[p].contract} = K \cup {n + 1}
    BY <1>5, <1>10
  <2>2. n + 1 \notin K
    OBVIOUS
  <2> HIDE DEF K
  <2>3. Cardinality(K \cup {n + 1}) = Cardinality(K) + 1
    BY <1>7, <2>2, FS_AddElement
  <2> QED  BY <1>1, <1>2, <1>7, <1>8, <1>9, <1>10, <2>1, <2>3
<1>11. CASE p # i
  <2>1. list[p].contract # list[i].contract
    BY <1>11 DEF OnePer
  <2>2. {k \in 1..(n + 1) : more[k].contract = list[p].contract} = K
    BY <1>5, <2>1
  <2> HIDE DEF K
  <2>3. PICK x \in Nat : x = Cardinality(K)
    BY <1>7
  <2>4. Given(list, blobs, p) = x /\ Given(list, more, p) = x
    BY <1>8, <1>9, <2>2, <2>3
  <2> QED  BY <1>1, <1>2, <1>7, <1>11, <2>3, <2>4
<1> QED
    BY <1>2, <1>10, <1>11

\* What a search took from a position it gave as blobs.
TakenFrom(list, size, s) ==
    \A p \in DOMAIN list :
        list[p].amount = s.list[p].amount + Given(list, s.blobs, p) * size

\* The position of i is a and that of j is b: j is met first from x on.
MetFirst(x, a, b) ==
    \/ x <= b /\ b < a
    \/ b < a /\ a < x
    \/ a < x /\ x <= b

\* What the turns keep: j may be one ahead of i, and one more for each other
\* position that was used up; and if j is the next of the two to be met, it
\* is not even that one ahead.
Spread(list, size, s, i, j) ==
    LET others == Cardinality(Drained(list, size, s.blobs, i, j))
        give(p) == Given(list, s.blobs, p)
    IN  /\ TakenFrom(list, size, s)
        /\ give(j) <= give(i) + 1 + others
        /\ \A a, b \in DOMAIN s.cand :
              s.cand[a] = i /\ s.cand[b] = j /\ MetFirst(s.next, a, b) => give(j) <= give(i) + others

\* The drained positions are a finite set.
LEMMA DrainedFinite ==
    ASSUME NEW list \in Seq(Part), NEW size, NEW blobs, NEW i, NEW j
    PROVE  /\ IsFiniteSet(Drained(list, size, blobs, i, j))
           /\ Cardinality(Drained(list, size, blobs, i, j)) \in Nat
<1>1. PICK n \in Nat : n = Len(list) /\ DOMAIN list = 1..n
    OBVIOUS
<1>2. IsFiniteSet(1..n)
    BY FS_Interval
<1>3. Drained(list, size, blobs, i, j) \subseteq 1..n
    BY <1>1 DEF Drained
<1> QED
    BY <1>2, <1>3, FS_Subset, FS_CardinalityType

\* A position that can give all that is asked for stays a candidate.
LEMMA Enough ==
    ASSUME NEW n \in Nat, NEW g \in Nat, g < n, NEW size \in Nat, NEW left \in Nat,
           NEW all \in Nat, all = left + g * size, all >= n * size
    PROVE  left >= size
<1>1. PICK e \in Nat : n = g + e + 1
  <2>1. n - g - 1 \in Nat /\ n = g + (n - g - 1) + 1
    OBVIOUS
  <2> QED  BY <2>1
<1>2. n * size = g * size + e * size + size
    BY <1>1
<1>3. PICK x \in Nat, y \in Nat : x = g * size /\ y = e * size
  <2>1. g * size \in Nat /\ e * size \in Nat
    OBVIOUS
  <2> QED  BY <2>1
<1>4. all = left + x /\ all >= x + y + size
    BY <1>2, <1>3
<1> QED
    BY <1>3, <1>4

\* One more turn takes one more block.
LEMMA OneMore ==
    ASSUME NEW g \in Nat, NEW size \in Nat, NEW left \in Nat, NEW all \in Nat,
           all = left + g * size
    PROVE  /\ all = (left - size) + (g + 1) * size
           /\ (all - g * size < size <=> left < size)
           /\ (all - (g + 1) * size < size <=> left - size < size)
<1>1. (g + 1) * size = g * size + size /\ g * size \in Nat
    OBVIOUS
<1>2. PICK x \in Nat : x = g * size
    BY <1>1
<1> QED
    BY <1>1, <1>2

\* What a turn of position p does: p has given one more, and it is drained if
\* it is not a candidate any more.
Drains(list, size, s, u, p, i, j) ==
    LET drops == p \notin {i, j} /\ u.cand # s.cand
        drained(blobs) == Cardinality(Drained(list, size, blobs, i, j))
    IN  /\ TakenFrom(list, size, u)
        /\ \A q \in DOMAIN list :
              /\ Given(list, s.blobs, q) \in Nat
              /\ q = p => Given(list, u.blobs, q) = Given(list, s.blobs, q) + 1
              /\ q # p => Given(list, u.blobs, q) = Given(list, s.blobs, q)
        /\ drops => drained(u.blobs) = drained(s.blobs) + 1
        /\ ~drops => drained(u.blobs) = drained(s.blobs)

\* And so it does.
LEMMA TurnDrains ==
    ASSUME NEW list \in Seq(Part), OnePer(list), NEW size \in Nat \ {0}, NEW excluded,
           NEW s, SearchType(list, s), SearchCand(size, excluded, s), TakenFrom(list, size, s),
           NEW u, NEW p, Turn(list, size, excluded, s, u, p), NEW i, NEW j
    PROVE  Drains(list, size, s, u, p, i, j)
<1>1. PICK sb, ub : sb = s.blobs /\ ub = u.blobs
    OBVIOUS
<1>2. /\ sb \in Seq(Part) /\ p \in DOMAIN list
      /\ ub = Append(sb, [contract |-> list[p].contract, amount |-> size])
    BY <1>1 DEF SearchType, Turn
<1>3. ASSUME NEW q \in DOMAIN list
      PROVE  /\ Given(list, sb, q) \in Nat
             /\ q = p => Given(list, ub, q) = Given(list, sb, q) + 1
             /\ q # p => Given(list, ub, q) = Given(list, sb, q)
  <2>1. PICK e : e = [contract |-> list[p].contract, amount |-> size]
    OBVIOUS
  <2>2. list[p] \in Part
    BY <1>2
  <2>3. e \in Part /\ e.contract = list[p].contract
    BY <2>1, <2>2 DEF Part
  <2>4. ub = Append(sb, e)
    BY <1>2, <2>1
  <2>5. /\ Given(list, sb, q) \in Nat
        /\ q = p => Given(list, Append(sb, e), q) = Given(list, sb, q) + 1
        /\ q # p => Given(list, Append(sb, e), q) = Given(list, sb, q)
    BY <1>2, <2>3, GivenNext
  <2> QED  BY <2>4, <2>5
<1>4. /\ u.list[p].amount = s.list[p].amount - size
      /\ \A q \in DOMAIN list : q # p => u.list[q] = s.list[q]
    BY TurnKeepsSearch
<1>5. ASSUME NEW q \in DOMAIN list
      PROVE  list[q].amount \in Nat /\ s.list[q].amount \in Nat
  <2>1. list[q] \in Part
    OBVIOUS
  <2>2. DOMAIN s.list = DOMAIN list /\ s.list \in Seq(Part)
    BY DEF SearchType
  <2>3. s.list[q] \in Part
    BY <2>2
  <2> QED  BY <2>1, <2>3 DEF Part
<1>6. PICK g \in Nat, a \in Nat, all \in Nat :
          g = Given(list, sb, p) /\ a = s.list[p].amount /\ all = list[p].amount
    BY <1>2, <1>3, <1>5
<1>7. all = a + g * size /\ a >= size
    BY <1>1, <1>2, <1>6 DEF TakenFrom, Turn
<1>8. /\ all = (a - size) + (g + 1) * size
      /\ (all - g * size < size <=> a < size)
      /\ (all - (g + 1) * size < size <=> a - size < size)
    BY <1>7, OneMore
<1>9. Given(list, ub, p) = g + 1
    BY <1>2, <1>3, <1>6
<1>10. TakenFrom(list, size, u)
  <2> SUFFICES ASSUME NEW q \in DOMAIN list
               PROVE  list[q].amount = u.list[q].amount + Given(list, ub, q) * size
    BY <1>1 DEF TakenFrom
  <2>1. CASE q = p
    BY <1>4, <1>6, <1>8, <1>9, <2>1
  <2>2. CASE q # p
    <3>1. Given(list, ub, q) = Given(list, sb, q)
      BY <1>3, <2>2
    <3> QED  BY <1>1, <1>4, <2>2, <3>1 DEF TakenFrom
  <2> QED  BY <2>1, <2>2
<1> DEFINE S == Drained(list, size, sb, i, j)
           U == Drained(list, size, ub, i, j)
<1>11. ASSUME NEW q \in DOMAIN list, q # p  PROVE q \in U <=> q \in S
  <2>1. Given(list, ub, q) = Given(list, sb, q)
    BY <1>3, <1>11
  <2> QED  BY <2>1 DEF Drained
<1>12. p \notin S
  <2> SUFFICES ASSUME p \in S  PROVE FALSE
    OBVIOUS
  <2>1. list[p].amount - Given(list, sb, p) * size < size
    BY DEF Drained
  <2>2. all - g * size < size
    BY <1>6, <2>1, Zenon
  <2>3. a < size
    BY <1>8, <2>2, Zenon
  <2> QED  BY <1>6, <1>7, <2>3
<1>13. p \in U <=> p \notin {i, j} /\ a - size < size
  <2>1. p \in U <=> /\ p \notin {i, j} /\ Given(list, ub, p) > 0
                    /\ list[p].amount - Given(list, ub, p) * size < size
    BY <1>2 DEF Drained
  <2>2. p \in U <=> p \notin {i, j} /\ Given(list, ub, p) > 0 /\ all - (g + 1) * size < size
    BY <1>6, <1>9, <2>1, Zenon
  <2>3. Given(list, ub, p) > 0
    BY <1>6, <1>9
  <2> QED  BY <1>8, <2>2, <2>3, Zenon
<1>14. a - size < size <=> u.cand # s.cand
  <2>1. CASE a - size < size
    <3>1. u.cand = RemoveAt(s.cand, s.next)
      BY <1>6, <2>1 DEF Turn
    <3>2. PICK sc, x : /\ sc = s.cand /\ x = s.next
                        /\ sc \in Seq(DOMAIN list) /\ x \in DOMAIN sc
      BY DEF SearchType, Turn
    <3>3. Len(RemoveAt(sc, x)) = Len(sc) - 1
      <4>1. sc \in Seq(DOMAIN list) /\ x \in DOMAIN sc
        BY <3>2
      <4> QED  BY <4>1, RemoveAtOf, Zenon
    <3>5. Len(sc) \in Nat
      BY <3>2
    <3>4. RemoveAt(sc, x) # sc
      BY <3>3, <3>5
    <3> QED  BY <2>1, <3>1, <3>2, <3>4
  <2>2. CASE ~(a - size < size)
    <3>1. a - size >= size
      BY <1>6, <2>2
    <3> QED  BY <1>6, <2>2, <3>1 DEF Turn
  <2> QED  BY <2>1, <2>2
<1>15. /\ S \subseteq DOMAIN list /\ U \subseteq DOMAIN list
       /\ IsFiniteSet(S) /\ Cardinality(S) \in Nat
    BY DrainedFinite DEF Drained
<1> HIDE DEF S, U
<1>16. /\ p \notin {i, j} /\ u.cand # s.cand => Cardinality(U) = Cardinality(S) + 1
       /\ ~(p \notin {i, j} /\ u.cand # s.cand) => Cardinality(U) = Cardinality(S)
  <2>1. CASE p \in U
    <3>1. U = S \cup {p}
      BY <1>11, <1>15, <2>1
    <3>2. Cardinality(S \cup {p}) = Cardinality(S) + 1
      BY <1>12, <1>15, FS_AddElement
    <3> QED  BY <1>13, <1>14, <2>1, <3>1, <3>2
  <2>2. CASE p \notin U
    <3>1. U = S
      <4>1. \A q \in DOMAIN list : q \in U <=> q \in S
        BY <1>11, <1>12, <2>2
      <4> QED  BY <1>15, <4>1
    <3>2. ~(p \notin {i, j} /\ u.cand # s.cand)
      BY <1>13, <1>14, <2>2
    <3> QED  BY <1>15, <3>1, <3>2
  <2> QED  BY <2>1, <2>2
<1> QED
    BY <1>1, <1>3, <1>10, <1>16 DEF S, U, Drains

\* After a turn that drops no candidate the same position is met first, unless
\* it was its turn; then it is the other.
LEMMA MetNext ==
    ASSUME NEW n \in Nat, NEW x \in 1..n, NEW y, y = (x % n) + 1,
           NEW a \in 1..n, NEW b \in 1..n, a # b, MetFirst(y, a, b)
    PROVE  x = a \/ (x # b /\ MetFirst(x, a, b))
<1>1. y = IF x = n THEN 1 ELSE x + 1
  <2>1. CASE x = n
    <3>1. x % n = 0
      BY <2>1, OnceAround
    <3> QED  BY <2>1, <3>1
  <2>2. CASE x # n
    <3>1. n \in Nat \ {0} /\ x \in Nat /\ x < 2 * n /\ x < n
      BY <2>2
    <3>2. x % n = x
      BY <3>1, OnceAround
    <3> QED  BY <2>2, <3>2
  <2> QED  BY <2>1, <2>2
<1> QED
    BY <1>1 DEF MetFirst

\* A turn that changes the candidates drops the one it was the turn of.
LEMMA TurnDrops ==
    ASSUME NEW list \in Seq(Part), NEW size \in Nat \ {0}, NEW excluded,
           NEW s, SearchType(list, s), NEW u, NEW p, Turn(list, size, excluded, s, u, p),
           u.cand # s.cand
    PROVE  u.cand = RemoveAt(s.cand, s.next)
<1>1. s.list[p] \in Part
    BY DEF SearchType, Turn
<1>2. PICK left \in Int : left = s.list[p].amount - size
    BY <1>1 DEF Part
<1>3. left < size \/ left >= size
    BY <1>2
<1> QED
    BY <1>2, <1>3 DEF Turn

\* A turn keeps the blobs spread, as long as i is a candidate.
LEMMA SpreadNext ==
    ASSUME NEW list \in Seq(Part), OnePer(list), NEW size \in Nat \ {0}, NEW excluded,
           NEW s, SearchType(list, s), SearchCand(size, excluded, s),
           NEW u, NEW p, Turn(list, size, excluded, s, u, p),
           NEW i \in DOMAIN list, NEW j \in DOMAIN list, i # j, i \in ToSet(s.cand),
           Spread(list, size, s, i, j)
    PROVE  Spread(list, size, u, i, j)
<1>1. TakenFrom(list, size, s)
    BY DEF Spread
<1>2. /\ TakenFrom(list, size, u)
      /\ \A q \in DOMAIN list :
            /\ Given(list, s.blobs, q) \in Nat
            /\ q = p => Given(list, u.blobs, q) = Given(list, s.blobs, q) + 1
            /\ q # p => Given(list, u.blobs, q) = Given(list, s.blobs, q)
      /\ p \notin {i, j} /\ u.cand # s.cand =>
            Cardinality(Drained(list, size, u.blobs, i, j))
               = Cardinality(Drained(list, size, s.blobs, i, j)) + 1
      /\ ~(p \notin {i, j} /\ u.cand # s.cand) =>
            Cardinality(Drained(list, size, u.blobs, i, j))
               = Cardinality(Drained(list, size, s.blobs, i, j))
  <2>1. Drains(list, size, s, u, p, i, j)
    BY <1>1, TurnDrains
  <2> QED  BY <2>1 DEF Drains
<1>3. Cardinality(Drained(list, size, s.blobs, i, j)) \in Nat
    BY DrainedFinite
<1>4. PICK gi \in Nat, gj \in Nat, d \in Nat :
          /\ gi = Given(list, s.blobs, i) /\ gj = Given(list, s.blobs, j)
          /\ d = Cardinality(Drained(list, size, s.blobs, i, j))
    BY <1>2, <1>3
<1>5. PICK hi, hj, e :
          /\ hi = Given(list, u.blobs, i) /\ hj = Given(list, u.blobs, j)
          /\ e = Cardinality(Drained(list, size, u.blobs, i, j))
    OBVIOUS
<1>6. /\ i = p => hi = gi + 1
      /\ i # p => hi = gi
      /\ j = p => hj = gj + 1
      /\ j # p => hj = gj
      /\ p \notin {i, j} /\ u.cand # s.cand => e = d + 1
      /\ ~(p \notin {i, j} /\ u.cand # s.cand) => e = d
    BY <1>2, <1>4, <1>5
<1>7. PICK sc, x : /\ sc = s.cand /\ x = s.next /\ sc \in Seq(DOMAIN list)
                   /\ x \in DOMAIN sc /\ p = sc[x] /\ IsInjective(sc)
    BY DEF SearchType, Turn, SearchCand
<1>8. PICK n \in Nat : n = Len(sc) /\ DOMAIN sc = 1..n
    BY <1>7
<1>9. PICK a \in 1..n : sc[a] = i
    BY <1>7, <1>8 DEF ToSet
<1>10. /\ gj <= gi + 1 + d
       /\ \A b \in 1..n : sc[b] = j /\ MetFirst(x, a, b) => gj <= gi + d
    BY <1>4, <1>7, <1>8, <1>9 DEF Spread
<1>11. \A k, l \in 1..n : sc[k] = sc[l] => k = l
    BY <1>7, <1>8 DEF IsInjective
<1>12. x \in 1..n
    BY <1>7, <1>8
\* When j is met it is not ahead.
<1>13. CASE p = j
  <2>1. a # x
    BY <1>7, <1>9, <1>13
  <2>2. MetFirst(x, a, x)
    BY <1>12, <2>1 DEF MetFirst
  <2>3. gj <= gi + d
    BY <1>7, <1>10, <1>12, <1>13, <2>2
  <2>4. hj = gj + 1 /\ hi = gi /\ e = d
    BY <1>6, <1>13
  <2>5. hj <= hi + 1 + e
    BY <1>4, <2>3, <2>4
  <2>6. ASSUME NEW k \in DOMAIN u.cand, NEW l \in DOMAIN u.cand,
               u.cand[k] = i, u.cand[l] = j, MetFirst(u.next, k, l)
        PROVE  hj <= hi + e
    <3>1. CASE u.cand = sc
      <4>1. k \in 1..n /\ l \in 1..n /\ l = x /\ k # l
        BY <1>7, <1>8, <1>11, <1>12, <1>13, <2>6, <3>1
      <4>2. sc # <<>>
        BY <1>8, <1>12
      <4>3. u.next = (x % n) + 1
        BY <1>7, <1>8, <3>1, <4>2 DEF Turn
      <4>4. x = k \/ x # l
        BY <1>12, <2>6, <4>1, <4>3, MetNext
      <4> QED  BY <4>1, <4>4
    <3>2. CASE u.cand # sc
      <4>1. u.cand = RemoveAt(sc, x)
        BY <1>7, <3>2, TurnDrops
      <4>2. j \notin ToSet(RemoveAt(sc, x))
        BY <1>7, <1>13, RemoveAtSet
      <4> QED  BY <2>6, <4>1, <4>2 DEF ToSet
    <3> QED  BY <3>1, <3>2
  <2> QED  BY <1>2, <1>5, <2>5, <2>6 DEF Spread
<1>14. CASE p = i
  <2>1. hi = gi + 1 /\ hj = gj /\ e = d
    BY <1>6, <1>14
  <2>2. hj <= hi + e /\ hj <= hi + 1 + e
    BY <1>4, <1>10, <2>1
  <2> QED  BY <1>2, <1>5, <2>2 DEF Spread
<1>15. CASE p \notin {i, j} /\ u.cand # s.cand
  <2>1. hi = gi /\ hj = gj /\ e = d + 1
    BY <1>6, <1>15
  <2>2. hj <= hi + e /\ hj <= hi + 1 + e
    BY <1>4, <1>10, <2>1
  <2> QED  BY <1>2, <1>5, <2>2 DEF Spread
<1>16. CASE p \notin {i, j} /\ u.cand = s.cand
  <2>1. hi = gi /\ hj = gj /\ e = d
    BY <1>6, <1>16
  <2>2. hj <= hi + 1 + e
    BY <1>10, <2>1
  <2>3. ASSUME NEW k \in DOMAIN u.cand, NEW l \in DOMAIN u.cand,
               u.cand[k] = i, u.cand[l] = j, MetFirst(u.next, k, l)
        PROVE  hj <= hi + e
    <3>1. k \in 1..n /\ l \in 1..n /\ k # l /\ k = a /\ sc[l] = j
      BY <1>7, <1>8, <1>9, <1>11, <1>16, <2>3
    <3>2. x # k /\ x # l
      BY <1>7, <1>16, <2>3
    <3>3. sc # <<>>
      BY <1>8, <1>12
    <3>4. u.next = (x % n) + 1
      BY <1>7, <1>8, <1>16, <3>3 DEF Turn
    <3>5. MetFirst(x, k, l)
      BY <1>12, <2>3, <3>1, <3>2, <3>4, MetNext
    <3> QED  BY <1>10, <2>1, <3>1, <3>5
  <2> QED  BY <1>2, <1>5, <2>2, <2>3 DEF Spread
<1> QED
    BY <1>13, <1>14, <1>15, <1>16

\* A search starts with no blobs.
LEMMA SpreadStarts ==
    ASSUME NEW list \in Seq(Part), NEW size \in Nat \ {0}, NEW excluded, NEW start,
           NEW i \in DOMAIN list, NEW j \in DOMAIN list
    PROVE  Spread(list, size, FirstTurn(list, size, excluded, start), i, j)
<1>1. PICK s : s = FirstTurn(list, size, excluded, start)
    OBVIOUS
<1>2. s.list = list /\ s.blobs = <<>>
    BY <1>1 DEF FirstTurn
<1>3. ASSUME NEW p  PROVE Given(list, s.blobs, p) = 0
  <2>1. {k \in DOMAIN <<>> : <<>>[k].contract = list[p].contract} = {}
    OBVIOUS
  <2> QED  BY <1>2, <2>1, FS_EmptySet DEF Given
<1>4. TakenFrom(list, size, s)
  <2> SUFFICES ASSUME NEW p \in DOMAIN list
               PROVE  list[p].amount = s.list[p].amount + Given(list, s.blobs, p) * size
    BY DEF TakenFrom
  <2>1. list[p] \in Part
    OBVIOUS
  <2>2. list[p].amount \in Nat /\ 0 * size = 0
    BY <2>1 DEF Part
  <2> QED  BY <1>2, <1>3, <2>2
<1>5. PICK d \in Nat : d = Cardinality(Drained(list, size, s.blobs, i, j))
    BY DrainedFinite
<1>6. 0 <= 0 + 1 + d /\ 0 <= 0 + d
    OBVIOUS
<1>7. Spread(list, size, s, i, j)
    BY <1>3, <1>4, <1>5, <1>6 DEF Spread
<1> QED
    BY <1>1, <1>7

\* A position with all that is asked for is a candidate at every turn.
LEMMA StillOpen ==
    ASSUME NEW list \in Seq(Part), OnePer(list), NEW size \in Nat \ {0}, NEW excluded,
           NEW n \in Nat, NEW m \in Nat, m < n,
           NEW s, SearchInv(list, size, excluded, m, s), TakenFrom(list, size, s),
           NEW i \in DOMAIN list, ProviderOf[list[i].contract] \notin excluded,
           list[i].amount >= n * size
    PROVE  i \in ToSet(s.cand)
<1>1. SearchType(list, s) /\ SearchCand(size, excluded, s)
    BY DEF SearchInv
<1>2. PICK sl \in Seq(Part), sb \in Seq(Part) :
          /\ sl = s.list /\ sb = s.blobs /\ DOMAIN sl = DOMAIN list
          /\ sl[i].contract = list[i].contract
  <2>1. s.list \in Seq(Part) /\ DOMAIN s.list = DOMAIN list /\ s.blobs \in Seq(Part)
    BY <1>1 DEF SearchType
  <2> QED  BY <1>1, <2>1 DEF SearchType
<1>3. list[i] \in Part /\ sl[i] \in Part
    BY <1>2
<1>4. PICK a \in Nat, all \in Nat : a = sl[i].amount /\ all = list[i].amount
    BY <1>3 DEF Part
<1>5. Given(list, sb, i) \in Nat /\ Given(list, sb, i) <= Len(sb)
    BY <1>2, <1>3, GivenNext
<1>6. Len(sb) <= m /\ Len(sb) \in Nat
    BY <1>2 DEF SearchInv
<1>7. PICK g \in Nat : g = Given(list, sb, i) /\ g < n
  <2>1. Given(list, sb, i) < n
    BY <1>5, <1>6
  <2> QED  BY <1>5, <2>1
<1>8. all = a + g * size /\ all >= n * size
    BY <1>2, <1>4, <1>7 DEF TakenFrom
<1>9. a >= size
    BY <1>7, <1>8, Enough
<1>10. i \in Fits(s.list, size, excluded)
    BY <1>2, <1>4, <1>9 DEF Fits
<1> QED
    BY <1>1, <1>10 DEF SearchCand

\* The blobs of a search are spread.
LEMMA SpreadOf ==
    ASSUME NEW list \in Seq(Part), OnePer(list), NEW size \in Nat \ {0}, NEW excluded,
           NEW start, list # <<>> => start \in DOMAIN list, NEW n \in Nat,
           NEW i \in DOMAIN list, NEW j \in DOMAIN list, i # j,
           ProviderOf[list[i].contract] \notin excluded, list[i].amount >= n * size
    PROVE  Spread(list, size, Search(list, n, size, excluded, start), i, j)
<1>1. PICK f : TurnsOf(f, list, n, size, excluded, start)
    BY SearchTurns
<1> DEFINE G == {m \in 0..n : /\ SearchInv(list, size, excluded, m, f[m])
                              /\ Spread(list, size, f[m], i, j)}
<1>2. 0 \in G
  <2>1. f[0] = FirstTurn(list, size, excluded, start)
    BY <1>1 DEF TurnsOf
  <2>2. SearchInv(list, size, excluded, 0, FirstTurn(list, size, excluded, start))
    BY SearchStarts
  <2>3. Spread(list, size, FirstTurn(list, size, excluded, start), i, j)
    BY SpreadStarts
  <2> QED  BY <2>1, <2>2, <2>3
<1>3. ASSUME NEW m \in 0..n, m \in G, m < n  PROVE m + 1 \in G
  <2>1. PICK s, u : s = f[m] /\ u = f[m + 1]
    OBVIOUS
  <2>2. /\ SearchInv(list, size, excluded, m, s) /\ Spread(list, size, s, i, j)
        /\ u = AfterTurn(s, size)
    BY <1>1, <1>3, <2>1 DEF TurnsOf
  <2>3. SearchInv(list, size, excluded, m + 1, u)
    BY <2>2, SearchNext
  <2>4. SearchType(list, s) /\ SearchCand(size, excluded, s) /\ TakenFrom(list, size, s)
    BY <2>2 DEF SearchInv, Spread
  <2>5. i \in ToSet(s.cand)
    <3>1. m \in Nat /\ n \in Nat /\ m < n
      BY <1>3
    <3> QED  BY <2>2, <2>4, <3>1, StillOpen
  <2>6. s.cand # <<>>
    BY <2>5 DEF ToSet
  <2>7. u = TakeOne(s, size)
    BY <2>2, <2>6 DEF AfterTurn
  <2>8. PICK p : Turn(list, size, excluded, s, u, p)
    BY <2>4, <2>6, <2>7, TakeOneIsTurn
  <2>9. Spread(list, size, u, i, j)
    BY <2>2, <2>4, <2>5, <2>8, SpreadNext
  <2> QED  BY <1>3, <2>1, <2>3, <2>9
<1> HIDE DEF G
<1>4. n \in G
    BY <1>2, <1>3, CountUp
<1> QED
    BY <1>1, <1>4 DEF G, TurnsOf

-----------------------------------------------------------------------------
(* The confirmations.                                                      *)

\* Where the confirmation of estimate e may be: its contracts from the k-th on
\* are still to be posted, or all of them are to be added.
From(e, k) == SubSeq(e, k, Len(e))
PostingAt(s, e, k) == s = [pc |-> "post", contracts |-> e, todo |-> From(e, k)]
AddingAt(s, e) == s = [pc |-> "add", contracts |-> e]
StateOK(s) ==
    \/ s = [pc |-> "idle"]
    \/ \E e \in Estimates : AddingAt(s, e) \/ \E k \in DOMAIN e : PostingAt(s, e, k)

\* Some of its contracts were posted by the request itself.
AheadAt(s, e) == AddingAt(s, e) \/ \E k \in DOMAIN e : k # 1 /\ PostingAt(s, e, k)

\* They are paid.
PaidBy(s, paid) ==
    \A e \in Estimates :
        /\ AddingAt(s, e) => Range(e) \subseteq paid
        /\ \A k \in DOMAIN e : PostingAt(s, e, k) => \A i \in 1..(k - 1) : e[i] \in paid

\* Of the requests that confirm an estimate one gets past its first contract,
\* and no request does once the contracts were added.
ConfirmInv ==
    /\ confirm = [t \in Clients |-> confirm[t]]
    /\ \A t \in Clients : StateOK(confirm[t]) /\ PaidBy(confirm[t], payments)
    /\ \A e \in Estimates : \A t, u \in Clients :
          AheadAt(confirm[t], e) /\ AheadAt(confirm[u], e) => t = u
    /\ \A e \in Estimates : \A t \in Clients :
          AheadAt(confirm[t], e) => Range(e) \cap signed = {}
    /\ \A e \in Estimates : Range(e) \cap signed # {} => e[1] \in payments
    /\ signed \subseteq payments /\ payments \subseteq Contracts

\* The contracts of an estimate.
LEMMA EstimateOf ==
    ASSUME StorageAssumption, NEW e \in Estimates
    PROVE  /\ e \in Seq(Contracts) /\ Len(e) \in Nat \ {0} /\ DOMAIN e = 1..Len(e)
           /\ 1 \in DOMAIN e /\ IsInjective(e)
           /\ Range(e) = {e[i] : i \in 1..Len(e)} /\ Range(e) \subseteq Contracts
           /\ \A f \in Estimates : Range(e) \cap Range(f) # {} => e = f
<1>1. e \in Seq(Contracts) /\ e # <<>> /\ IsInjective(e)
    BY DEF StorageAssumption
<1>2. PICK n \in Nat : n = Len(e) /\ DOMAIN e = 1..n
    BY <1>1
<1>3. n # 0
    BY <1>1, <1>2
<1>4. Range(e) = {e[i] : i \in 1..n}
    BY <1>2 DEF Range
<1>5. \A i \in 1..n : e[i] \in Contracts
    BY <1>1, <1>2
<1>6. \A f \in Estimates : Range(e) \cap Range(f) # {} => e = f
    BY DEF StorageAssumption
<1> QED
    BY <1>1, <1>2, <1>3, <1>4, <1>5, <1>6

\* What is still to be posted.
LEMMA TodoOf ==
    ASSUME StorageAssumption, NEW e \in Estimates, NEW k \in DOMAIN e
    PROVE  /\ From(e, k) # <<>>
           /\ Head(From(e, k)) = e[k]
           /\ k = Len(e) => Tail(From(e, k)) = <<>>
           /\ k # Len(e) => /\ k + 1 \in DOMAIN e
                            /\ Tail(From(e, k)) = From(e, k + 1)
                            /\ Tail(From(e, k)) # <<>>
           /\ Len(From(e, k)) = Len(e) - k + 1
<1>1. PICK n \in Nat \ {0} : n = Len(e) /\ DOMAIN e = 1..n /\ e \in Seq(Contracts)
    BY EstimateOf
<1>2. k \in 1..n /\ n \in k..n /\ k \in Int /\ n \in Int /\ k + 1 \in Int
    BY <1>1
<1>3. /\ Head(SubSeq(e, k, n)) = e[k]
      /\ Tail(SubSeq(e, k, n)) = SubSeq(e, k + 1, n)
    BY <1>1, <1>2, HeadTailOfSubSeq
<1>4. \A m \in 1..(n + 1) : /\ SubSeq(e, m, n) \in Seq(Contracts)
                            /\ Len(SubSeq(e, m, n)) = IF m <= n THEN n - m + 1 ELSE 0
  <2> SUFFICES ASSUME NEW m \in 1..(n + 1)
               PROVE  /\ SubSeq(e, m, n) \in Seq(Contracts)
                      /\ Len(SubSeq(e, m, n)) = IF m <= n THEN n - m + 1 ELSE 0
    OBVIOUS
  <2>1. \A i \in m..n : e[i] \in Contracts
    BY <1>1
  <2>2. m \in Int
    OBVIOUS
  <2>3. SubSeq(e, m, n) \in Seq(Contracts) /\ Len(SubSeq(e, m, n)) = IF m <= n THEN n - m + 1 ELSE 0
    BY <1>2, <2>1, <2>2, SubSeqProperties
  <2> QED  BY <2>3
<1>5. PICK q : q = SubSeq(e, k, n) /\ q \in Seq(Contracts) /\ Len(q) = n - k + 1
  <2>1. k \in 1..(n + 1) /\ k <= n
    BY <1>1, <1>2
  <2> QED  BY <1>4, <2>1
<1>6. q # <<>>
  <2>1. Len(q) > 0
    BY <1>1, <1>2, <1>5
  <2> QED  BY <2>1
<1>7. k = n => SubSeq(e, k + 1, n) = <<>>
    BY <1>2, SubSeqEmpty
<1>8. ASSUME k # n  PROVE k + 1 \in 1..n /\ SubSeq(e, k + 1, n) # <<>>
  <2>1. k + 1 \in 1..n /\ k + 1 \in 1..(n + 1) /\ k + 1 <= n
    BY <1>1, <1>2, <1>8
  <2>2. PICK p : p = SubSeq(e, k + 1, n) /\ p \in Seq(Contracts) /\ Len(p) = n - (k + 1) + 1
    BY <1>4, <2>1
  <2>3. Len(p) > 0
    BY <1>1, <1>2, <2>1, <2>2
  <2>4. p # <<>>
    BY <2>3
  <2> QED  BY <2>1, <2>2, <2>4
<1> QED
    BY <1>1, <1>3, <1>5, <1>6, <1>7, <1>8 DEF From

\* A confirmation is in one place.
LEMMA OnePlace ==
    ASSUME StorageAssumption, NEW s, NEW e \in Estimates, NEW f \in Estimates
    PROVE  /\ AddingAt(s, e) => s.pc = "add" /\ s.contracts = e
           /\ \A k \in DOMAIN e : PostingAt(s, e, k) =>
                 s.pc = "post" /\ s.contracts = e /\ s.todo = From(e, k)
           /\ s = [pc |-> "idle"] => ~AheadAt(s, e)
           /\ AddingAt(s, e) /\ AddingAt(s, f) => e = f
           /\ \A k \in DOMAIN f : ~(AddingAt(s, e) /\ PostingAt(s, f, k))
           /\ \A k \in DOMAIN e, l \in DOMAIN f :
                 PostingAt(s, e, k) /\ PostingAt(s, f, l) => e = f /\ k = l
           /\ AheadAt(s, e) /\ AheadAt(s, f) => e = f
<1>1. AddingAt(s, e) => s.pc = "add" /\ s.contracts = e
    BY DEF AddingAt
<1>2. AddingAt(s, f) => s.pc = "add" /\ s.contracts = f
    BY DEF AddingAt
<1>3. \A k \in DOMAIN e : PostingAt(s, e, k) =>
                 s.pc = "post" /\ s.contracts = e /\ s.todo = From(e, k)
    BY DEF PostingAt
<1>4. \A k \in DOMAIN f : PostingAt(s, f, k) =>
                 s.pc = "post" /\ s.contracts = f /\ s.todo = From(f, k)
    BY DEF PostingAt
<1>5. s = [pc |-> "idle"] => s.pc = "idle"
    OBVIOUS
<1>6. "idle" # "add" /\ "idle" # "post" /\ "add" # "post"
    OBVIOUS
<1>7. ASSUME NEW k \in DOMAIN e, NEW l \in DOMAIN f, PostingAt(s, e, k), PostingAt(s, f, l)
      PROVE  e = f /\ k = l
  <2>1. e = f /\ From(e, k) = From(f, l)
    BY <1>3, <1>4, <1>7
  <2>2. PICK n \in Nat \ {0} : n = Len(e) /\ DOMAIN e = 1..n
    BY EstimateOf
  <2>3. Len(From(e, k)) = n - k + 1
    BY <2>2, TodoOf
  <2>4. Len(From(f, l)) = n - l + 1
    BY <2>1, <2>2, TodoOf
  <2>5. k \in 1..n /\ l \in 1..n /\ n - k + 1 = n - l + 1
    BY <2>1, <2>2, <2>3, <2>4
  <2> QED  BY <2>1, <2>5
<1>8. s = [pc |-> "idle"] => ~AheadAt(s, e)
    BY <1>1, <1>3, <1>5, <1>6 DEF AheadAt
<1>9. AheadAt(s, e) => s.contracts = e
    BY <1>1, <1>3 DEF AheadAt
<1>10. AheadAt(s, f) => s.contracts = f
    BY <1>2, <1>4 DEF AheadAt
<1> QED
    BY <1>1, <1>2, <1>3, <1>4, <1>6, <1>7, <1>8, <1>9, <1>10

\* A client that goes to a state in which it is ahead with no estimate but one,
\* with which nobody else is.
LEMMA GotoKeeps ==
    ASSUME StorageAssumption, ConfirmInv, NEW t \in Clients, NEW s,
           confirm' = [confirm EXCEPT ![t] = s],
           signed' = signed, payments \subseteq payments', payments' \subseteq Contracts,
           StateOK(s), PaidBy(s, payments'),
           \A e \in Estimates : AheadAt(s, e) =>
               /\ Range(e) \cap signed = {}
               /\ \A u \in Clients : AheadAt(confirm[u], e) => u = t
    PROVE  ConfirmInv'
<1>1. confirm'[t] = s /\ \A u \in Clients : u # t => confirm'[u] = confirm[u]
    BY DEF ConfirmInv
<1>2. confirm' = [u \in Clients |-> confirm'[u]]
    BY DEF ConfirmInv
<1>3. ASSUME NEW u \in Clients  PROVE StateOK(confirm'[u]) /\ PaidBy(confirm'[u], payments')
  <2>1. CASE u = t
    BY <1>1, <2>1
  <2>2. CASE u # t
    <3>1. StateOK(confirm[u]) /\ PaidBy(confirm[u], payments)
      BY DEF ConfirmInv
    <3>2. PaidBy(confirm[u], payments')
      BY <3>1 DEF PaidBy
    <3> QED  BY <1>1, <2>2, <3>1, <3>2
  <2> QED  BY <2>1, <2>2
<1>4. ASSUME NEW e \in Estimates, NEW u \in Clients, NEW v \in Clients,
             AheadAt(confirm'[u], e), AheadAt(confirm'[v], e)
      PROVE  u = v
    BY <1>1, <1>4 DEF ConfirmInv
<1>5. ASSUME NEW e \in Estimates, NEW u \in Clients, AheadAt(confirm'[u], e)
      PROVE  Range(e) \cap signed' = {}
    BY <1>1, <1>5 DEF ConfirmInv
<1>6. ASSUME NEW e \in Estimates, Range(e) \cap signed' # {}  PROVE e[1] \in payments'
    BY <1>6 DEF ConfirmInv
<1>7. signed' \subseteq payments'
    BY DEF ConfirmInv
<1> QED
    BY <1>2, <1>3, <1>4, <1>5, <1>6, <1>7 DEF ConfirmInv

\* A client starts to confirm an estimate.
LEMMA ReserveKeeps ==
    ASSUME StorageAssumption, ConfirmInv, NEW t \in Clients, ReserveStorage(t)
    PROVE  ConfirmInv'
<1>1. PICK e \in Estimates : confirm' = [confirm EXCEPT ![t] = [pc |-> "post", contracts |-> e, todo |-> e]]
    BY DEF ReserveStorage, Goto
<1>2. PICK s : s = [pc |-> "post", contracts |-> e, todo |-> e]
    OBVIOUS
<1>3. PostingAt(s, e, 1) /\ 1 \in DOMAIN e
  <2>1. e \in Seq(Contracts) /\ 1 \in DOMAIN e
    BY EstimateOf
  <2>2. From(e, 1) = e
    BY <2>1, SubSeqFull DEF From
  <2> QED  BY <1>2, <2>1, <2>2 DEF PostingAt
<1>4. StateOK(s)
    BY <1>3 DEF StateOK
<1>5. ASSUME NEW f \in Estimates  PROVE ~AddingAt(s, f) /\ ~AheadAt(s, f)
  <2>1. ~AddingAt(s, f) /\ \A k \in DOMAIN f : PostingAt(s, f, k) => k = 1
    BY <1>3, OnePlace
  <2> QED  BY <2>1 DEF AheadAt
<1>6. PaidBy(s, payments)
  <2> SUFFICES ASSUME NEW f \in Estimates, NEW k \in DOMAIN f, PostingAt(s, f, k), NEW i \in 1..(k - 1)
               PROVE  f[i] \in payments
    BY <1>5 DEF PaidBy
  <2>1. k = 1
    BY <1>3, OnePlace
  <2> QED  BY <2>1
<1>7. signed' = signed /\ payments' = payments /\ payments \subseteq Contracts
    BY DEF ReserveStorage, ConfirmInv
<1> QED
    BY <1>1, <1>2, <1>4, <1>5, <1>6, <1>7, GotoKeeps

\* A client gives up.
LEMMA FinishKeeps ==
    ASSUME StorageAssumption, ConfirmInv, NEW t \in Clients, Finish(t),
           signed' = signed, payments \subseteq payments', payments' \subseteq Contracts
    PROVE  ConfirmInv'
<1>1. PICK s : s = [pc |-> "idle"]
    OBVIOUS
<1>2. confirm' = [confirm EXCEPT ![t] = s]
    BY <1>1 DEF Finish, Goto
<1>3. \A e \in Estimates : ~AheadAt(s, e)
    BY <1>1, OnePlace
<1>4. StateOK(s)
    BY <1>1 DEF StateOK
<1>5. PaidBy(s, payments')
  <2>1. s.pc = "idle" /\ "idle" # "add" /\ "idle" # "post"
    BY <1>1
  <2>2. \A e \in Estimates : ~AddingAt(s, e) /\ \A k \in DOMAIN e : ~PostingAt(s, e, k)
    BY <2>1, OnePlace
  <2> QED  BY <2>2 DEF PaidBy
<1> QED
    BY <1>2, <1>3, <1>4, <1>5, GotoKeeps

\* A payment is made: the first of an estimate by one client only.
LEMMA PostKeeps ==
    ASSUME StorageAssumption, ConfirmInv, NEW t \in Clients, PostContract(t)
    PROVE  ConfirmInv'
<1>1. StateOK(confirm[t]) /\ PaidBy(confirm[t], payments) /\ confirm[t].pc = "post"
      /\ payments \subseteq Contracts /\ signed' = signed
    BY DEF ConfirmInv, PostContract
<1>2. PICK e \in Estimates : \E k \in DOMAIN e : PostingAt(confirm[t], e, k)
  <2>1. "idle" # "post" /\ "add" # "post"
    OBVIOUS
  <2>2. confirm[t] # [pc |-> "idle"]
    BY <1>1, <2>1
  <2>3. \A e \in Estimates : ~AddingAt(confirm[t], e)
    BY <1>1, <2>1, OnePlace
  <2> QED  BY <1>1, <2>2, <2>3 DEF StateOK
<1>3. PICK k \in DOMAIN e : PostingAt(confirm[t], e, k)
    BY <1>2
<1>4. PICK n \in Nat \ {0} : /\ n = Len(e) /\ DOMAIN e = 1..n /\ e \in Seq(Contracts)
                             /\ Range(e) = {e[i] : i \in 1..n} /\ Range(e) \subseteq Contracts
                             /\ IsInjective(e)
    BY EstimateOf
<1>5. k \in 1..n /\ e[k] \in Contracts /\ e[k] \in Range(e)
    BY <1>4
<1>6. /\ confirm[t].contracts = e /\ confirm[t].todo = From(e, k)
      /\ confirm[t] = [pc |-> "post", contracts |-> e, todo |-> From(e, k)]
    BY <1>3, OnePlace DEF PostingAt
<1>7. /\ Head(From(e, k)) = e[k]
      /\ k = n => Tail(From(e, k)) = <<>>
      /\ k # n => /\ k + 1 \in DOMAIN e
                  /\ Tail(From(e, k)) = From(e, k + 1)
                  /\ Tail(From(e, k)) # <<>>
    BY <1>3, <1>4, TodoOf
<1>8. CASE Finish(t) /\ UNCHANGED payments
    BY <1>1, <1>8, FinishKeeps
<1>9. ASSUME Payable(e[k]), payments' = payments \cup {e[k]}, Finish(t)
      PROVE  ConfirmInv'
  <2>1. payments \subseteq payments' /\ payments' \subseteq Contracts
    BY <1>1, <1>5, <1>9
  <2> QED  BY <1>1, <1>9, <2>1, FinishKeeps
<1>10. ASSUME Payable(e[k]), payments' = payments \cup {e[k]}, NEW s,
              confirm' = [confirm EXCEPT ![t] = s],
              \/ k = n /\ AddingAt(s, e)
              \/ k # n /\ PostingAt(s, e, k + 1)
       PROVE  ConfirmInv'
  <2>1. payments \subseteq payments' /\ payments' \subseteq Contracts
    BY <1>1, <1>5, <1>10
  <2>2. StateOK(s)
    BY <1>7, <1>10 DEF StateOK
  <2>3. ASSUME NEW i \in 1..k  PROVE e[i] \in payments'
    <3>1. i # k => i \in 1..(k - 1)
      BY <1>5
    <3>2. \A j \in 1..(k - 1) : e[j] \in payments
      BY <1>1, <1>3 DEF PaidBy
    <3> QED  BY <1>10, <3>1, <3>2
  <2>4. ASSUME NEW f \in Estimates, AddingAt(s, f)  PROVE Range(f) \subseteq payments'
    <3>1. k = n /\ f = e
      <4>1. AddingAt(s, e) => f = e
        BY <2>4, OnePlace
      <4>2. k # n => k + 1 \in DOMAIN e
        BY <1>7
      <4>3. k # n => ~PostingAt(s, e, k + 1)
        BY <2>4, <4>2, OnePlace
      <4> QED  BY <1>10, <4>1, <4>3
    <3> QED  BY <1>4, <2>3, <3>1
  <2>5. ASSUME NEW f \in Estimates, NEW l \in DOMAIN f, PostingAt(s, f, l), NEW i \in 1..(l - 1)
        PROVE  f[i] \in payments'
    <3>1. k # n
      BY <1>10, <2>5, OnePlace
    <3>2. k + 1 \in DOMAIN e /\ PostingAt(s, e, k + 1)
      BY <1>7, <1>10, <3>1
    <3>3. f = e /\ l = k + 1
      BY <2>5, <3>2, OnePlace
    <3>4. i \in 1..k
      BY <1>5, <3>3
    <3> QED  BY <2>3, <3>3, <3>4
  <2>6. PaidBy(s, payments')
    BY <2>4, <2>5 DEF PaidBy
  <2>7. AheadAt(s, e)
    <3>1. k + 1 # 1
      BY <1>5
    <3> QED  BY <1>7, <1>10, <3>1 DEF AheadAt
  <2>8. ASSUME NEW f \in Estimates, AheadAt(s, f)
        PROVE  /\ Range(f) \cap signed = {}
               /\ \A u \in Clients : AheadAt(confirm[u], f) => u = t
    <3>1. f = e
      BY <2>7, <2>8, OnePlace
    <3>2. CASE k = 1
      <4>1. e[1] \notin payments
        BY <1>10, <3>2 DEF Payable
      <4>2. Range(e) \cap signed = {}
        BY <4>1 DEF ConfirmInv
      <4>3. ASSUME NEW u \in Clients, AheadAt(confirm[u], e)  PROVE FALSE
        <5>1. PaidBy(confirm[u], payments)
          BY DEF ConfirmInv
        <5>2. CASE AddingAt(confirm[u], e)
          <6>1. e[1] \in Range(e)
            BY <1>5, <3>2
          <6> QED  BY <4>1, <5>1, <5>2, <6>1 DEF PaidBy
        <5>3. CASE \E l \in DOMAIN e : l # 1 /\ PostingAt(confirm[u], e, l)
          <6>1. PICK l \in DOMAIN e : l # 1 /\ PostingAt(confirm[u], e, l)
            BY <5>3
          <6>2. 1 \in 1..(l - 1)
            BY <1>4, <6>1
          <6> QED  BY <4>1, <5>1, <6>1, <6>2 DEF PaidBy
        <5> QED  BY <4>3, <5>2, <5>3 DEF AheadAt
      <4> QED  BY <3>1, <4>2, <4>3
    <3>3. CASE k # 1
      <4>1. AheadAt(confirm[t], e)
        BY <1>3, <3>3 DEF AheadAt
      <4> QED  BY <3>1, <4>1 DEF ConfirmInv
    <3> QED  BY <3>2, <3>3
  <2> QED  BY <1>1, <1>10, <2>1, <2>2, <2>6, <2>8, GotoKeeps
<1>11. CASE /\ Payable(e[k]) /\ payments' = payments \cup {e[k]}
            /\ Goto(t, IF Tail(From(e, k)) = <<>> THEN [pc |-> "add", contracts |-> e]
                       ELSE [confirm[t] EXCEPT !.todo = Tail(From(e, k))])
  <2>1. CASE k = n
    <3>1. confirm' = [confirm EXCEPT ![t] = [pc |-> "add", contracts |-> e]]
      BY <1>7, <1>11, <2>1 DEF Goto
    <3>2. AddingAt([pc |-> "add", contracts |-> e], e)
      BY DEF AddingAt
    <3> QED  BY <1>10, <1>11, <2>1, <3>1, <3>2
  <2>2. CASE k # n
    <3>1. confirm' = [confirm EXCEPT ![t] = [confirm[t] EXCEPT !.todo = From(e, k + 1)]]
      BY <1>7, <1>11, <2>2 DEF Goto
    <3>2. [confirm[t] EXCEPT !.todo = From(e, k + 1)]
            = [pc |-> "post", contracts |-> e, todo |-> From(e, k + 1)]
      BY <1>6
    <3>3. PICK s : s = [pc |-> "post", contracts |-> e, todo |-> From(e, k + 1)]
      OBVIOUS
    <3>4. PostingAt(s, e, k + 1)
      BY <3>3 DEF PostingAt
    <3>5. confirm' = [confirm EXCEPT ![t] = s]
      BY <3>1, <3>2, <3>3
    <3> QED  BY <1>10, <1>11, <2>2, <3>4, <3>5
  <2> QED  BY <2>1, <2>2
<1>12. \/ /\ Payable(e[k]) /\ payments' = payments \cup {e[k]}
          /\ \/ Goto(t, IF Tail(From(e, k)) = <<>> THEN [pc |-> "add", contracts |-> e]
                        ELSE [confirm[t] EXCEPT !.todo = Tail(From(e, k))])
             \/ Finish(t)
       \/ Finish(t) /\ UNCHANGED payments
    BY <1>6, <1>7 DEF PostContract
<1> QED
    BY <1>8, <1>9, <1>11, <1>12

-----------------------------------------------------------------------------
(* The contracts of an estimate.                                           *)

\* The blobs that contracts come in with.
BlobsOf(e) == [k \in DOMAIN e |-> [contract |-> e[k], amount |-> Capacity[e[k]]]]

\* They bring the capacity of each contract once.
LEMMA NewBlobs ==
    ASSUME StorageAssumption, NEW e \in Estimates
    PROVE  /\ BlobsOf(e) \in Seq(Part) /\ Full(BlobsOf(e))
           /\ \A c : GivenBy(BlobsOf(e), Len(BlobsOf(e)), c) = IF c \in Range(e) THEN Capacity[c] ELSE 0
<1>1. PICK n \in Nat \ {0} : /\ n = Len(e) /\ DOMAIN e = 1..n /\ e \in Seq(Contracts)
                             /\ Range(e) = {e[i] : i \in 1..n} /\ IsInjective(e)
    BY EstimateOf
<1>2. PICK b : b = BlobsOf(e)
    OBVIOUS
<1>3. DOMAIN b = 1..n /\ \A k \in 1..n : b[k] = [contract |-> e[k], amount |-> Capacity[e[k]]]
    BY <1>1, <1>2 DEF BlobsOf
<1>4. ASSUME NEW k \in 1..n
      PROVE  /\ b[k] \in Part /\ b[k].contract = e[k] /\ b[k].amount = Capacity[e[k]]
             /\ e[k] \in Contracts /\ Capacity[e[k]] \in Nat \ {0}
  <2>1. e[k] \in Contracts
    BY <1>1
  <2>2. Capacity[e[k]] \in Nat \ {0}
    BY <2>1 DEF StorageAssumption
  <2> QED  BY <1>3, <2>1, <2>2 DEF Part
<1>5. b = [k \in 1..n |-> b[k]]
    BY <1>1, <1>2 DEF BlobsOf
<1>6. b \in [1..n -> Part]
    BY <1>4, <1>5
<1>7. b \in Seq(Part) /\ Len(b) = n
    BY <1>3, <1>6
<1>8. Full(b)
    BY <1>3, <1>4 DEF Full
<1>9. ASSUME NEW c
      PROVE  GivenBy(b, n, c) = IF c \in Range(e) THEN Capacity[c] ELSE 0
  <2>1. PICK f : f = Share(b, c)
    OBVIOUS
  <2>2. \A k \in 1..n : f[k] = IF e[k] = c THEN Capacity[c] ELSE 0
    BY <1>3, <1>4, <2>1 DEF Share, Gives
  <2>3. GivenBy(b, n, c) = SumFunctionOnSet(f, 1..n)
    BY <2>1 DEF GivenBy
  <2>4. IsFiniteSet(1..n)
    BY FS_Interval
  <2>5. CASE c \in Range(e)
    <3>1. PICK p \in 1..n : e[p] = c
      BY <1>1, <2>5
    <3>2. \A k \in (1..n) \ {p} : f[k] = 0
      BY <1>1, <2>2, <3>1 DEF IsInjective
    <3>3. f[p] = Capacity[c] /\ Capacity[c] \in Nat
      BY <1>4, <2>2, <3>1
    <3>4. \A k \in 1..n : f[k] \in Int
      BY <3>2, <3>3
    <3>5. SumFunctionOnSet(f, 1..n) = f[p] + SumFunctionOnSet(f, (1..n) \ {p})
      BY <2>4, <3>4, SumTakesOut
    <3>6. IsFiniteSet((1..n) \ {p})
      BY <2>4, FS_Subset
    <3>7. SumFunctionOnSet(f, (1..n) \ {p}) = 0
      BY <3>2, <3>6, SumOfZeros
    <3> QED  BY <2>3, <2>5, <3>3, <3>5, <3>7
  <2>6. CASE c \notin Range(e)
    <3>1. \A k \in 1..n : f[k] = 0
      BY <1>1, <2>2, <2>6
    <3>2. SumFunctionOnSet(f, 1..n) = 0
      BY <2>4, <3>1, SumOfZeros
    <3> QED  BY <2>3, <2>6, <3>2
  <2> QED  BY <2>5, <2>6
<1> QED
    BY <1>2, <1>7, <1>8, <1>9

\* What a client adds: contracts that nobody added before.
LEMMA AddContractsOf ==
    ASSUME StorageAssumption, ConfirmInv, NEW t \in Clients, AddContracts(t)
    PROVE  \E e \in Estimates :
              /\ freelist' = AddBlobs(freelist, BlobsOf(e))
              /\ signed' = signed \cup Range(e) /\ Range(e) \cap signed = {}
              /\ AheadAt(confirm[t], e) /\ Range(e) \subseteq payments
<1>1. StateOK(confirm[t]) /\ PaidBy(confirm[t], payments) /\ confirm[t].pc = "add"
    BY DEF ConfirmInv, AddContracts
<1>2. PICK e \in Estimates : AddingAt(confirm[t], e)
  <2>1. "idle" # "add" /\ "post" # "add"
    OBVIOUS
  <2>2. confirm[t] # [pc |-> "idle"]
    BY <1>1, <2>1
  <2>3. \A e \in Estimates : \A k \in DOMAIN e : ~PostingAt(confirm[t], e, k)
    BY <1>1, <2>1, OnePlace
  <2> QED  BY <1>1, <2>2, <2>3 DEF StateOK
<1>3. confirm[t].contracts = e
    BY <1>2, OnePlace
<1>4. freelist' = AddBlobs(freelist, BlobsOf(e)) /\ signed' = signed \cup Range(e)
    BY <1>3 DEF AddContracts, BlobsOf
<1>5. AheadAt(confirm[t], e)
    BY <1>2 DEF AheadAt
<1>6. Range(e) \cap signed = {}
    BY <1>5 DEF ConfirmInv
<1>7. Range(e) \subseteq payments
    BY <1>1, <1>2 DEF PaidBy
<1> QED
    BY <1>4, <1>5, <1>6, <1>7

\* Adding keeps the confirmations right.
LEMMA AddKeeps ==
    ASSUME StorageAssumption, ConfirmInv, NEW t \in Clients, AddContracts(t)
    PROVE  ConfirmInv'
<1>1. PICK e \in Estimates :
              /\ signed' = signed \cup Range(e)
              /\ AheadAt(confirm[t], e) /\ Range(e) \subseteq payments
    BY AddContractsOf
<1>2. PICK s : s = [pc |-> "idle"]
    OBVIOUS
<1>3. confirm' = [confirm EXCEPT ![t] = s] /\ payments' = payments
    BY <1>2 DEF AddContracts, Finish, Goto
<1>4. confirm'[t] = s /\ \A u \in Clients : u # t => confirm'[u] = confirm[u]
    BY <1>3 DEF ConfirmInv
<1>5. confirm' = [u \in Clients |-> confirm'[u]]
    BY <1>3 DEF ConfirmInv
<1>6. \A f \in Estimates : ~AheadAt(s, f)
    BY <1>2, OnePlace
<1>7. StateOK(s)
    BY <1>2 DEF StateOK
<1>8. PaidBy(s, payments)
  <2>1. s.pc = "idle" /\ "idle" # "add" /\ "idle" # "post"
    BY <1>2
  <2>2. \A f \in Estimates : ~AddingAt(s, f) /\ \A k \in DOMAIN f : ~PostingAt(s, f, k)
    BY <2>1, OnePlace
  <2> QED  BY <2>2 DEF PaidBy
<1>9. \A u \in Clients : StateOK(confirm'[u]) /\ PaidBy(confirm'[u], payments')
    BY <1>3, <1>4, <1>7, <1>8 DEF ConfirmInv
<1>10. ASSUME NEW f \in Estimates, NEW u \in Clients, NEW v \in Clients,
              AheadAt(confirm'[u], f), AheadAt(confirm'[v], f)
       PROVE  u = v
  <2>1. u # t /\ v # t
    BY <1>4, <1>6, <1>10
  <2> QED  BY <1>4, <1>10, <2>1 DEF ConfirmInv
<1>11. \A f \in Estimates : Range(e) \cap Range(f) # {} => e = f
    BY EstimateOf
<1>12. ASSUME NEW f \in Estimates, NEW u \in Clients, AheadAt(confirm'[u], f)
       PROVE  Range(f) \cap signed' = {}
  <2>1. u # t
    BY <1>4, <1>6, <1>12
  <2>2. AheadAt(confirm[u], f)
    BY <1>4, <1>12, <2>1
  <2>3. Range(f) \cap signed = {}
    BY <2>2 DEF ConfirmInv
  <2>4. f # e
    BY <1>1, <2>1, <2>2 DEF ConfirmInv
  <2>5. Range(e) \cap Range(f) = {}
    BY <1>11, <2>4
  <2> QED  BY <1>1, <2>3, <2>5
<1>13. ASSUME NEW f \in Estimates, Range(f) \cap signed' # {}
       PROVE  f[1] \in payments'
  <2>1. CASE Range(f) \cap signed # {}
    BY <1>3, <2>1 DEF ConfirmInv
  <2>2. CASE Range(f) \cap signed = {}
    <3>1. f = e
      BY <1>1, <1>11, <1>13, <2>2
    <3>2. 1 \in DOMAIN e /\ DOMAIN e = 1..Len(e) /\ Range(e) = {e[i] : i \in 1..Len(e)}
      BY EstimateOf
    <3> QED  BY <1>1, <1>3, <3>1, <3>2
  <2> QED  BY <2>1, <2>2
<1>14. signed' \subseteq payments' /\ payments' \subseteq Contracts
    BY <1>1, <1>3 DEF ConfirmInv
<1> QED
    BY <1>5, <1>9, <1>10, <1>12, <1>13, <1>14 DEF ConfirmInv

-----------------------------------------------------------------------------
(* The invariant.                                                          *)

\* How often something is in a list is a number.
LEMMA OccursType ==
    ASSUME NEW S, NEW seq \in Seq(S), NEW e
    PROVE  Occurrences(seq, e) \in Nat
<1>1. PICK n \in Nat : n = Len(seq) /\ DOMAIN seq = 1..n
    OBVIOUS
<1>2. IsFiniteSet(1..n)
    BY FS_Interval
<1>3. IsFiniteSet({i \in DOMAIN seq : seq[i] = e})
    BY <1>1, <1>2, FS_Subset
<1> QED
    BY <1>3, FS_CardinalityType DEF Occurrences

\* The blobs of uploads and stored blocks are counted.
CountsOK == held \in [Blob -> Nat] /\ used \in [Blob -> Nat]

\* The inductive invariant of the storage manager.
ManagerInv == ListOK /\ CountsOK /\ ConfirmInv

\* A blob is not empty.
LEMMA BlobIsPart ==
    ASSUME StorageAssumption
    PROVE  Blob \subseteq Part /\ \A b \in Blob : b.amount > 0
<1>1. \A z \in BlobSizes : z \in Nat /\ z > 0
    BY DEF StorageAssumption
<1> QED
    BY <1>1 DEF Blob, Part

\* Blobs of a size in use are blobs of uploads.
LEMMA GoodBlobsAre ==
    ASSUME StorageAssumption, NEW list \in Seq(Part), NEW size \in BlobSizes, NEW excluded,
           NEW blobs \in Seq(Part), GoodBlobs(list, size, excluded, blobs)
    PROVE  blobs \in Seq(Blob)
<1>1. PICK n \in Nat : n = Len(blobs) /\ DOMAIN blobs = 1..n
    OBVIOUS
<1>2. ASSUME NEW k \in 1..n  PROVE blobs[k] \in Blob
  <2>1. blobs[k] \in Part /\ blobs[k].amount = size
    BY <1>1 DEF GoodBlobs
  <2> QED  BY <2>1 DEF Part, Blob
<1>3. blobs = [k \in 1..n |-> blobs[k]]
    BY <1>1
<1>4. blobs \in [1..n -> Blob]
    BY <1>2, <1>3
<1> QED
    BY <1>4

\* A search takes blobs off the list and holds them.
LEMMA FindMoves ==
    ASSUME StorageAssumption, ListOK, FindStorageExclude
    PROVE  /\ ListOK' /\ UNCHANGED <<confirm, payments, signed, used>>
           /\ \E blobs \in Seq(Blob) :
                 /\ held' = [b \in Blob |-> held[b] + Occurrences(blobs, b)]
                 /\ \A c : FreeIn(freelist', c) + GivenBy(blobs, Len(blobs), c) = FreeIn(freelist, c)
<1>1. PICK n \in 1..MaxBlobs, size \in BlobSizes, excluded \in SUBSET Providers :
          \E start \in IF freelist = <<>> THEN {1} ELSE DOMAIN freelist :
             LET found == FindStorage(freelist, n, size, excluded, start)
             IN  /\ freelist' = found.list
                 /\ held' = [b \in Blob |-> held[b] + Occurrences(found.blobs, b)]
                 /\ UNCHANGED <<confirm, payments, signed, used>>
    BY DEF FindStorageExclude
<1>2. PICK start \in IF freelist = <<>> THEN {1} ELSE DOMAIN freelist :
             LET found == FindStorage(freelist, n, size, excluded, start)
             IN  /\ freelist' = found.list
                 /\ held' = [b \in Blob |-> held[b] + Occurrences(found.blobs, b)]
                 /\ UNCHANGED <<confirm, payments, signed, used>>
    BY <1>1
<1>3. PICK found : found = FindStorage(freelist, n, size, excluded, start)
    OBVIOUS
<1>4. /\ freelist' = found.list
      /\ held' = [b \in Blob |-> held[b] + Occurrences(found.blobs, b)]
      /\ UNCHANGED <<confirm, payments, signed, used>>
    BY <1>2, <1>3
<1>5. size \in Nat \ {0} /\ n \in Nat \ {0} /\ (freelist # <<>> => start \in DOMAIN freelist)
    BY DEF StorageAssumption
<1>6. freelist \in Seq(Part) /\ OnePer(freelist) /\ Full(freelist)
    BY DEF ListOK
<1>7. Found(freelist, n, size, excluded, found)
  <2>1. Found(freelist, n, size, excluded, FindStorage(freelist, n, size, excluded, start))
    BY <1>5, <1>6, FindStorageOf
  <2> QED  BY <1>3, <2>1
<1>8. PICK room \in Nat : room = RoomIn(freelist, size, excluded)
    BY <1>5, <1>6, RoomType
<1>9. /\ found.list \in Seq(Part) /\ OnePer(found.list) /\ Full(found.list)
      /\ found.blobs \in Seq(Blob)
      /\ \A c : FreeIn(found.list, c) + GivenBy(found.blobs, Len(found.blobs), c) = FreeIn(freelist, c)
  <2>1. CASE room < n
    <3>1. found.list = freelist /\ found.blobs = <<>>
      BY <1>7, <1>8, <2>1 DEF Found
    <3>2. <<>> \in Seq(Part) /\ <<>> \in Seq(Blob) /\ Len(<<>>) = 0
      OBVIOUS
    <3>3. ASSUME NEW c  PROVE FreeIn(freelist, c) + GivenBy(<<>>, 0, c) = FreeIn(freelist, c)
      <4>1. FreeIn(freelist, c) \in Nat
        BY <1>6, FreeOfOne
      <4>2. GivenBy(<<>>, 0, c) = 0
        BY <3>2, GivenByNext
      <4> QED  BY <4>1, <4>2
    <3> QED  BY <1>6, <3>1, <3>2, <3>3
  <2>2. CASE ~(room < n)
    <3>1. room >= n
      BY <1>5, <1>8, <2>2
    <3>2. /\ found.list \in Seq(Part) /\ OnePer(found.list) /\ Full(found.list)
          /\ found.blobs \in Seq(Part) /\ GoodBlobs(freelist, size, excluded, found.blobs)
          /\ \A c : FreeIn(found.list, c) + GivenBy(found.blobs, Len(found.blobs), c) = FreeIn(freelist, c)
      BY <1>7, <1>8, <3>1 DEF Found
    <3>3. found.blobs \in Seq(Blob)
      BY <1>6, <3>2, GoodBlobsAre
    <3> QED  BY <3>2, <3>3
  <2> QED  BY <2>1, <2>2
<1>10. ListOK'
    BY <1>4, <1>9 DEF ListOK
<1>11. PICK blobs \in Seq(Blob) : blobs = found.blobs
    BY <1>9
<1>12. held' = [b \in Blob |-> held[b] + Occurrences(blobs, b)]
    BY <1>4, <1>11
<1>13. \A c : FreeIn(freelist', c) + GivenBy(blobs, Len(blobs), c) = FreeIn(freelist, c)
    BY <1>4, <1>9, <1>11
<1> QED
    BY <1>4, <1>10, <1>12, <1>13

\* So it keeps the list in order and the counts.
LEMMA FindKeeps ==
    ASSUME StorageAssumption, ManagerInv, FindStorageExclude
    PROVE  ListOK' /\ CountsOK'
<1>1. ListOK /\ CountsOK
    BY DEF ManagerInv
<1>2. PICK blobs \in Seq(Blob) : held' = [b \in Blob |-> held[b] + Occurrences(blobs, b)]
    BY <1>1, FindMoves
<1>3. ListOK' /\ used' = used
    BY <1>1, FindMoves
<1>4. ASSUME NEW b \in Blob  PROVE held[b] + Occurrences(blobs, b) \in Nat
  <2>1. Occurrences(blobs, b) \in Nat
    BY OccursType
  <2>2. held[b] \in Nat
    BY <1>1 DEF CountsOK
  <2> QED  BY <2>1, <2>2
<1> QED
    BY <1>1, <1>2, <1>3, <1>4 DEF CountsOK

\* Blobs that come back keep the list in order.
LEMMA ReturnsKeep ==
    ASSUME ListOK, NEW blobs \in Seq(Part), Full(blobs), freelist' = AddBlobs(freelist, blobs)
    PROVE  ListOK'
<1>1. freelist \in Seq(Part) /\ OnePer(freelist) /\ Full(freelist)
    BY DEF ListOK
<1>2. PICK r : r = AddBlobs(freelist, blobs)
    OBVIOUS
<1>3. r \in Seq(Part) /\ OnePer(r) /\ Full(r)
    BY <1>1, <1>2, AddBlobsOf
<1> QED
    BY <1>2, <1>3 DEF ListOK

\* What an upload returns.
LEMMA ReturnedBlobs ==
    ASSUME StorageAssumption, NEW blobs \in SeqOf(Blob, 2)
    PROVE  blobs \in Seq(Blob) /\ blobs \in Seq(Part) /\ Full(blobs)
<1>1. PICK m \in 0..2 : blobs \in [1..m -> Blob]
    BY DEF SeqOf
<1>2. \A i \in 1..m : blobs[i] \in Part /\ blobs[i].amount > 0
    BY <1>1, BlobIsPart
<1>3. blobs \in Seq(Blob) /\ DOMAIN blobs = 1..m
    BY <1>1
<1>4. blobs \in [1..m -> Part]
    BY <1>1, <1>2
<1> QED
    BY <1>2, <1>3, <1>4 DEF Full

\* The invariant is inductive.
LEMMA ManagerInductive ==
    ASSUME StorageAssumption
    PROVE  /\ Init => ManagerInv
           /\ ManagerInv /\ [Next]_vars => ManagerInv'
<1>1. ASSUME Init  PROVE ManagerInv
  <2>1. <<>> \in Seq(Part) /\ DOMAIN <<>> = {}
    OBVIOUS
  <2>2. ListOK
    BY <1>1, <2>1 DEF Init, ListOK, Full, OnePer
  <2>3. CountsOK
    BY <1>1 DEF Init, CountsOK
  <2>4. \A t \in Clients : confirm[t] = [pc |-> "idle"]
    BY <1>1 DEF Init
  <2>5. ASSUME NEW t \in Clients, NEW e \in Estimates
        PROVE  /\ ~AheadAt(confirm[t], e) /\ ~AddingAt(confirm[t], e)
               /\ \A k \in DOMAIN e : ~PostingAt(confirm[t], e, k)
    <3>1. confirm[t].pc = "idle" /\ "idle" # "add" /\ "idle" # "post"
      BY <2>4
    <3> QED  BY <2>4, <3>1, OnePlace
  <2>6. \A t \in Clients : StateOK(confirm[t]) /\ PaidBy(confirm[t], payments)
    BY <2>4, <2>5 DEF StateOK, PaidBy
  <2>7. confirm = [t \in Clients |-> confirm[t]]
    BY <1>1 DEF Init
  <2>8. ConfirmInv
    BY <1>1, <2>5, <2>6, <2>7 DEF Init, ConfirmInv
  <2> QED  BY <2>2, <2>3, <2>8 DEF ManagerInv
<1>2. ASSUME ManagerInv, [Next]_vars  PROVE ManagerInv'
  <2>0. ListOK /\ CountsOK /\ ConfirmInv
    BY <1>2 DEF ManagerInv
  <2>1. ASSUME NEW t \in Clients, ReserveStorage(t)  PROVE ManagerInv'
    <3>1. freelist' = freelist /\ held' = held /\ used' = used
      BY <2>1 DEF ReserveStorage
    <3>2. ConfirmInv'
      BY <2>0, <2>1, ReserveKeeps
    <3> QED  BY <2>0, <3>1, <3>2 DEF ManagerInv, ListOK, CountsOK
  <2>2. ASSUME NEW t \in Clients, PostContract(t)  PROVE ManagerInv'
    <3>1. freelist' = freelist /\ held' = held /\ used' = used
      BY <2>2 DEF PostContract
    <3>2. ConfirmInv'
      BY <2>0, <2>2, PostKeeps
    <3> QED  BY <2>0, <3>1, <3>2 DEF ManagerInv, ListOK, CountsOK
  <2>3. ASSUME NEW t \in Clients, AddContracts(t)  PROVE ManagerInv'
    <3>1. PICK e \in Estimates : freelist' = AddBlobs(freelist, BlobsOf(e))
      BY <2>0, <2>3, AddContractsOf
    <3>2. BlobsOf(e) \in Seq(Part) /\ Full(BlobsOf(e))
      BY NewBlobs
    <3>3. ListOK'
      BY <2>0, <3>1, <3>2, ReturnsKeep
    <3>4. held' = held /\ used' = used
      BY <2>3 DEF AddContracts
    <3>5. ConfirmInv'
      BY <2>0, <2>3, AddKeeps
    <3> QED  BY <2>0, <3>3, <3>4, <3>5 DEF ManagerInv, CountsOK
  <2>4. CASE FindStorageExclude
    <3>1. ListOK' /\ CountsOK'
      BY <1>2, <2>4, FindKeeps
    <3>2. UNCHANGED <<confirm, payments, signed>>
      BY <2>4 DEF FindStorageExclude
    <3> QED  BY <2>0, <3>1, <3>2 DEF ManagerInv, ConfirmInv
  <2>5. CASE ReturnBlobs
    <3>1. PICK blobs \in SeqOf(Blob, 2) :
              /\ \A b \in Blob : Occurrences(blobs, b) <= held[b]
              /\ freelist' = AddBlobs(freelist, blobs)
              /\ held' = [b \in Blob |-> held[b] - Occurrences(blobs, b)]
              /\ UNCHANGED <<confirm, payments, signed, used>>
      BY <2>5 DEF ReturnBlobs
    <3>2. blobs \in Seq(Blob) /\ blobs \in Seq(Part) /\ Full(blobs)
      BY ReturnedBlobs
    <3>3. ListOK'
      BY <2>0, <3>1, <3>2, ReturnsKeep
    <3>4. ASSUME NEW b \in Blob  PROVE held[b] - Occurrences(blobs, b) \in Nat
      <4>1. Occurrences(blobs, b) \in Nat
        BY <3>2, OccursType
      <4>2. held[b] \in Nat /\ Occurrences(blobs, b) <= held[b]
        BY <2>0, <3>1 DEF CountsOK
      <4> QED  BY <4>1, <4>2
    <3>5. CountsOK'
      BY <2>0, <3>1, <3>4 DEF CountsOK
    <3> QED  BY <2>0, <3>1, <3>3, <3>5 DEF ManagerInv, ConfirmInv
  <2>6. CASE KeepBlob
    <3>1. PICK b \in Blob :
              /\ held[b] > 0
              /\ held' = [held EXCEPT ![b] = @ - 1]
              /\ used' = [used EXCEPT ![b] = @ + 1]
              /\ UNCHANGED <<freelist, confirm, payments, signed>>
      BY <2>6 DEF KeepBlob
    <3>2. CountsOK'
      <4>1. held[b] - 1 \in Nat /\ used[b] + 1 \in Nat
        BY <2>0, <3>1 DEF CountsOK
      <4> QED  BY <2>0, <3>1, <4>1 DEF CountsOK
    <3> QED  BY <2>0, <3>1, <3>2 DEF ManagerInv, ConfirmInv, ListOK
  <2>7. CASE RemoveBlock
    <3>1. PICK b \in Blob :
              /\ used[b] > 0
              /\ freelist' = AddBlob(freelist, b)
              /\ used' = [used EXCEPT ![b] = @ - 1]
              /\ UNCHANGED <<confirm, payments, signed, held>>
      BY <2>7 DEF RemoveBlock
    <3>2. b \in Part /\ b.amount > 0
      BY BlobIsPart
    <3>3. PICK r : r = AddBlob(freelist, b)
      OBVIOUS
    <3>4. Added(freelist, b, r)
      BY <2>0, <3>2, <3>3, AddBlobOf DEF ListOK
    <3>5. r \in Seq(Part) /\ OnePer(r) /\ Full(r)
      BY <2>0, <3>2, <3>4 DEF Added, ListOK
    <3>6. ListOK'
      BY <3>1, <3>3, <3>5 DEF ListOK
    <3>7. CountsOK'
      <4>1. used[b] - 1 \in Nat
        BY <2>0, <3>1 DEF CountsOK
      <4> QED  BY <2>0, <3>1, <4>1 DEF CountsOK
    <3> QED  BY <2>0, <3>1, <3>6, <3>7 DEF ManagerInv, ConfirmInv
  <2>8. CASE UNCHANGED vars
    BY <2>0, <2>8 DEF vars, ManagerInv, ListOK, CountsOK, ConfirmInv
  <2> QED
    BY <1>2, <2>1, <2>2, <2>3, <2>4, <2>5, <2>6, <2>7, <2>8 DEF Next, ConfirmStorageEstimate
<1> QED
    BY <1>1, <1>2

\* So it always holds.
LEMMA ManagerAlways == ASSUME StorageAssumption PROVE Spec => []ManagerInv
    BY ManagerInductive, PTL DEF Spec

\* The list and the counts have their types, and what was added is paid.
THEOREM ManagerTypes == Spec => []TypeOK
<1>1. ASSUME ManagerInv  PROVE TypeOK
  <2>1. freelist \in Seq([contract : Contracts, amount : Nat \ {0}])
    <3>1. freelist \in Seq(Part) /\ Full(freelist)
      BY <1>1 DEF ManagerInv, ListOK
    <3>2. PICK n \in Nat : n = Len(freelist) /\ DOMAIN freelist = 1..n
      BY <3>1
    <3>3. ASSUME NEW i \in 1..n
          PROVE  freelist[i] \in [contract : Contracts, amount : Nat \ {0}]
      <4>1. freelist[i] \in Part /\ freelist[i].amount > 0
        BY <3>1, <3>2 DEF Full
      <4> QED  BY <4>1 DEF Part
    <3>4. freelist = [i \in 1..n |-> freelist[i]]
      BY <3>1, <3>2
    <3>5. PICK T : T = [contract : Contracts, amount : Nat \ {0}]
      OBVIOUS
    <3>6. freelist \in [1..n -> T]
      BY <3>3, <3>4, <3>5
    <3>7. freelist \in Seq(T)
      BY <3>6
    <3> QED  BY <3>5, <3>7
  <2>2. signed \subseteq payments /\ payments \subseteq Contracts
    BY <1>1 DEF ManagerInv, ConfirmInv
  <2>3. ASSUME NEW t \in Clients  PROVE confirm[t].pc \in {"idle", "post", "add"}
    <3>1. StateOK(confirm[t])
      BY <1>1 DEF ManagerInv, ConfirmInv
    <3>2. CASE confirm[t] = [pc |-> "idle"]
      BY <3>2
    <3>3. CASE \E e \in Estimates : AddingAt(confirm[t], e) \/ \E k \in DOMAIN e : PostingAt(confirm[t], e, k)
      <4>1. PICK e \in Estimates : AddingAt(confirm[t], e) \/ \E k \in DOMAIN e : PostingAt(confirm[t], e, k)
        BY <3>3
      <4> QED  BY <4>1, StorageAssumption, OnePlace
    <3> QED  BY <3>1, <3>2, <3>3 DEF StateOK
  <2>4. held \in [Blob -> Nat] /\ used \in [Blob -> Nat]
    BY <1>1 DEF ManagerInv, CountsOK
  <2> QED  BY <2>1, <2>2, <2>3, <2>4 DEF TypeOK
<1> QED
    BY <1>1, StorageAssumption, ManagerAlways, PTL

\* A contract has one blob on the list, in whatever order blobs come back.
THEOREM OneBlob == Spec => []OneBlobPerContract
<1>1. ManagerInv => OneBlobPerContract
    BY DEF ManagerInv, ListOK, OnePer, OneBlobPerContract
<1> QED
    BY <1>1, StorageAssumption, ManagerAlways, PTL

\* A search fails only when the blobs do not fit.
THEOREM FindsWhatFits == Spec => []FindIsExact
<1>1. ManagerInv => FindIsExact
    BY StorageAssumption, FindIsExactHere DEF ManagerInv
<1> QED
    BY <1>1, StorageAssumption, ManagerAlways, PTL

-----------------------------------------------------------------------------
(* The searches of the manager are spread.                                 *)

\* What a search of the manager's list gives is spread.
LEMMA FindSpreadsHere ==
    ASSUME StorageAssumption, ListOK  PROVE FindSpreads
<1>1. freelist \in Seq(Part) /\ OnePer(freelist)
    BY DEF ListOK
<1> SUFFICES ASSUME NEW n \in 1..MaxBlobs, NEW size \in BlobSizes,
                    NEW excluded \in SUBSET Providers, NEW start \in DOMAIN freelist
             PROVE  LET found == FindStorage(freelist, n, size, excluded, start)
                        given(i) == Cardinality({k \in DOMAIN found.blobs :
                                       found.blobs[k].contract = freelist[i].contract})
                        usedUp(i) == given(i) > 0 /\ freelist[i].amount - given(i) * size < size
                    IN  found.ok =>
                          \A i, j \in DOMAIN freelist :
                              /\ ProviderOf[freelist[i].contract] \notin excluded
                              /\ freelist[i].amount >= n * size
                              => given(j) <= given(i) + 1
                                   + Cardinality({k \in DOMAIN freelist \ {i, j} : usedUp(k)})
    BY DEF FindSpreads
<1> DEFINE found == FindStorage(freelist, n, size, excluded, start)
<1> SUFFICES ASSUME found.ok, NEW i \in DOMAIN freelist, NEW j \in DOMAIN freelist,
                    ProviderOf[freelist[i].contract] \notin excluded,
                    freelist[i].amount >= n * size
             PROVE  Given(freelist, found.blobs, j) <= Given(freelist, found.blobs, i) + 1
                       + Cardinality(Drained(freelist, size, found.blobs, i, j))
  <2> HIDE DEF found
  <2> QED  BY DEF Given, Drained, found
<1> HIDE DEF found
<1>2. n \in Nat /\ size \in Nat \ {0}
    BY StorageAssumption
<1>3. PICK end : end = Search(freelist, n, size, excluded, start)
    OBVIOUS
<1>4. found.ok /\ found = IF Len(end.blobs) < n
                          THEN [ok |-> FALSE, blobs |-> <<>>, list |-> AddBlobs(end.list, end.blobs)]
                          ELSE [ok |-> TRUE, blobs |-> end.blobs, list |-> WithoutEmpty(end.list)]
    BY <1>3 DEF FindStorage, found
<1>5. found.blobs = end.blobs
    BY <1>4
<1>6. SearchInv(freelist, size, excluded, n, end)
    BY <1>1, <1>2, <1>3, SearchOf
<1>7. end.blobs \in Seq(Part)
    BY <1>6 DEF SearchInv, SearchType
<1>8. CASE i # j
  <2>1. Spread(freelist, size, end, i, j)
    BY <1>1, <1>2, <1>3, <1>8, SpreadOf
  <2> QED  BY <1>3, <1>5, <2>1 DEF Spread
<1>9. CASE i = j
  <2>1. freelist[i] \in Part
    BY <1>1
  <2>2. Given(freelist, end.blobs, i) \in Nat
    BY <1>1, <1>7, <2>1, GivenNext
  <2>3. Cardinality(Drained(freelist, size, end.blobs, i, j)) \in Nat
    BY <1>1, DrainedFinite
  <2>4. PICK g \in Nat, d \in Nat :
           /\ g = Given(freelist, end.blobs, i)
           /\ d = Cardinality(Drained(freelist, size, end.blobs, i, j))
    BY <2>2, <2>3
  <2>5. g <= g + 1 + d
    BY <2>4
  <2> QED  BY <1>3, <1>5, <1>9, <2>4, <2>5
<1> QED
    BY <1>8, <1>9

\* A file's blocks are spread (storage.go:139-175): whatever the list, the
\* turns of a contract that could take every block stay within one of those of
\* any other, and one more for each other contract that was used up.
THEOREM SearchesSpread == Spec => []FindSpreads
<1>1. ManagerInv => FindSpreads
    BY StorageAssumption, FindSpreadsHere DEF ManagerInv
<1> QED
    BY <1>1, StorageAssumption, ManagerAlways, PTL

-----------------------------------------------------------------------------
(* The ledger: the bytes of each contract.                                 *)

\* The blobs of a contract.
BlobsWith(c) == {b \in Blob : b.contract = c}

\* They are finitely many: blobs come in the block sizes.
LEMMA BlobsFinite ==
    ASSUME StorageAssumption, NEW c
    PROVE  IsFiniteSet(BlobsWith(c))
<1>1. IsFiniteSet(BlobSizes)
    BY DEF StorageAssumption
<1>2. ASSUME NEW b \in BlobsWith(c)
      PROVE  b.amount \in BlobSizes /\ b = [contract |-> c, amount |-> b.amount]
  <2>1. b \in [contract : Contracts, amount : BlobSizes] /\ b.contract = c
    BY DEF BlobsWith, Blob
  <2> QED  BY <2>1
<1> DEFINE size == [b \in BlobsWith(c) |-> b.amount]
<1>3. size \in Injection(BlobsWith(c), BlobSizes)
  <2>1. size \in [BlobsWith(c) -> BlobSizes]
    BY <1>2
  <2>2. \A x, y \in BlobsWith(c) : size[x] = size[y] => x = y
    BY <1>2
  <2> QED  BY <2>1, <2>2 DEF Injection, IsInjective
<1> HIDE DEF size
<1> QED
    BY <1>1, <1>3, FS_Injection

\* The amounts of some blobs.
Worth(bag) == [b \in Blob |-> b.amount * bag[b]]

\* Counts of blobs, and a count that is the sum of two.
Bags == [Blob -> Nat]
SumOf(h, f, g) == \A b \in Blob : h[b] = f[b] + g[b]

\* The bytes of a contract in a bag of blobs are a number, 0 if there is no
\* blob, and two bags have the bytes of both.
LEMMA AmountsAdd ==
    ASSUME StorageAssumption, NEW c
    PROVE  /\ \A f \in Bags : AmountOf(f, c) \in Nat
           /\ AmountOf([b \in Blob |-> 0], c) = 0
           /\ \A f, g, h \in Bags :
                 SumOf(h, f, g) => AmountOf(h, c) = AmountOf(f, c) + AmountOf(g, c)
<1>1. IsFiniteSet(BlobsWith(c)) /\ BlobsWith(c) \subseteq Blob
    BY BlobsFinite DEF BlobsWith
<1>2. \A f : AmountOf(f, c) = SumFunctionOnSet(Worth(f), BlobsWith(c))
    BY DEF AmountOf, Worth, BlobsWith
<1>3. \A b \in Blob : b.amount \in Nat
    BY BlobIsPart DEF Part
<1>4. ASSUME NEW f \in [Blob -> Nat], NEW b \in Blob  PROVE Worth(f)[b] \in Nat
  <2>1. PICK x \in Nat, y \in Nat : x = b.amount /\ y = f[b]
    BY <1>3
  <2>2. x * y \in Nat
    OBVIOUS
  <2> QED  BY <2>1, <2>2 DEF Worth
<1>5. ASSUME NEW f \in [Blob -> Nat]  PROVE AmountOf(f, c) \in Nat
  <2>1. \A b \in BlobsWith(c) : Worth(f)[b] \in Nat
    BY <1>1, <1>4
  <2> QED  BY <1>1, <1>2, <2>1, SumType
<1>6. AmountOf([b \in Blob |-> 0], c) = 0
  <2>1. ASSUME NEW b \in BlobsWith(c)  PROVE Worth([x \in Blob |-> 0])[b] = 0
    <3>1. b \in Blob /\ b.amount \in Nat
      BY <1>1, <1>3
    <3>2. b.amount * 0 = 0
      BY <3>1
    <3> QED  BY <3>1, <3>2 DEF Worth
  <2> QED  BY <1>1, <1>2, <2>1, SumOfZeros
<1>7. ASSUME NEW f \in [Blob -> Nat], NEW g \in [Blob -> Nat], NEW h \in [Blob -> Nat],
             \A b \in Blob : h[b] = f[b] + g[b]
      PROVE  AmountOf(h, c) = AmountOf(f, c) + AmountOf(g, c)
  <2>1. ASSUME NEW b \in BlobsWith(c)
        PROVE  /\ Worth(f)[b] \in Int /\ Worth(g)[b] \in Int
               /\ Worth(h)[b] = Worth(f)[b] + Worth(g)[b]
    <3>1. PICK x \in Nat, y \in Nat, z \in Nat : x = b.amount /\ y = f[b] /\ z = g[b]
      BY <1>1, <1>3
    <3>2. x * (y + z) = x * y + x * z /\ x * y \in Int /\ x * z \in Int
      OBVIOUS
    <3>3. Worth(f)[b] = x * y /\ Worth(g)[b] = x * z /\ Worth(h)[b] = x * (y + z)
      BY <1>1, <1>7, <3>1 DEF Worth
    <3> QED  BY <3>2, <3>3
  <2>2. PICK wf, wg, wh : wf = Worth(f) /\ wg = Worth(g) /\ wh = Worth(h)
    OBVIOUS
  <2>3. \A b \in BlobsWith(c) : wf[b] \in Int /\ wg[b] \in Int /\ wh[b] = wf[b] + wg[b]
    BY <2>1, <2>2
  <2>4. SumFunctionOnSet(wh, BlobsWith(c)) =
           SumFunctionOnSet(wf, BlobsWith(c)) + SumFunctionOnSet(wg, BlobsWith(c))
    BY <1>1, <2>3, SumAdds
  <2> QED  BY <1>2, <2>2, <2>4
<1> QED
    BY <1>5, <1>6, <1>7 DEF Bags, SumOf

\* One blob.
One(e) == [b \in Blob |-> IF b = e THEN 1 ELSE 0]

\* Its bytes are those of its contract.
LEMMA AmountOfOne ==
    ASSUME StorageAssumption, NEW e \in Blob, NEW c
    PROVE  One(e) \in Bags /\ AmountOf(One(e), c) = Gives(e, c)
<1>1. IsFiniteSet(BlobsWith(c)) /\ BlobsWith(c) \subseteq Blob
    BY BlobsFinite DEF BlobsWith
<1>2. PICK w : w = Worth(One(e))
    OBVIOUS
<1>3. AmountOf(One(e), c) = SumFunctionOnSet(w, BlobsWith(c))
    BY <1>2 DEF AmountOf, Worth, BlobsWith
<1>4. \A b \in Blob : b.amount \in Nat
    BY BlobIsPart DEF Part
<1>5. ASSUME NEW b \in Blob
      PROVE  w[b] = IF b = e THEN e.amount ELSE 0
  <2>1. PICK x \in Nat : x = b.amount
    BY <1>4
  <2>2. x * 1 = x /\ x * 0 = 0
    OBVIOUS
  <2> QED  BY <1>2, <2>1, <2>2 DEF Worth, One
<1>6. \A b \in BlobsWith(c) : w[b] \in Int
    BY <1>1, <1>4, <1>5
<1>7. CASE e.contract = c
  <2>1. e \in BlobsWith(c)
    BY <1>7 DEF BlobsWith
  <2>2. SumFunctionOnSet(w, BlobsWith(c)) = w[e] + SumFunctionOnSet(w, BlobsWith(c) \ {e})
    BY <1>1, <1>6, <2>1, SumTakesOut
  <2>3. IsFiniteSet(BlobsWith(c) \ {e}) /\ \A b \in BlobsWith(c) \ {e} : w[b] = 0
    BY <1>1, <1>5, FS_Subset
  <2>4. SumFunctionOnSet(w, BlobsWith(c) \ {e}) = 0
    BY <2>3, SumOfZeros
  <2>5. w[e] = e.amount /\ e.amount \in Nat
    BY <1>4, <1>5
  <2> QED  BY <1>3, <1>7, <2>2, <2>4, <2>5 DEF Gives, One, Bags
<1>8. CASE e.contract # c
  <2>1. e \notin BlobsWith(c)
    BY <1>8 DEF BlobsWith
  <2>2. \A b \in BlobsWith(c) : w[b] = 0
    BY <1>1, <1>5, <2>1
  <2>3. SumFunctionOnSet(w, BlobsWith(c)) = 0
    BY <1>1, <2>2, SumOfZeros
  <2> QED  BY <1>3, <1>8, <2>3 DEF Gives, One, Bags
<1> QED
    BY <1>7, <1>8

\* How often a blob is among the first m of some.
Among(blobs, m, b) == Cardinality({i \in 1..m : blobs[i] = b})

\* The bytes of the blobs of a list, counted, are what the list gives.
LEMMA AmountOfList ==
    ASSUME StorageAssumption, NEW blobs \in Seq(Blob), NEW c
    PROVE  /\ [b \in Blob |-> Occurrences(blobs, b)] \in Bags
           /\ AmountOf([b \in Blob |-> Occurrences(blobs, b)], c) = GivenBy(blobs, Len(blobs), c)
<1>1. PICK n \in Nat : n = Len(blobs) /\ DOMAIN blobs = 1..n
    OBVIOUS
<1>2. blobs \in Seq(Part)
  <2>1. \A i \in 1..n : blobs[i] \in Part
    BY <1>1, BlobIsPart
  <2>2. blobs = [i \in 1..n |-> blobs[i]]
    BY <1>1
  <2>3. blobs \in [1..n -> Part]
    BY <2>1, <2>2
  <2> QED  BY <2>3
<1> DEFINE bag(m) == [b \in Blob |-> Among(blobs, m, b)]
<1>3. ASSUME NEW m \in 0..n  PROVE \A b \in Blob : Among(blobs, m, b) \in Nat
  <2>1. IsFiniteSet(1..m)
    BY FS_Interval
  <2>2. \A b \in Blob : IsFiniteSet({i \in 1..m : blobs[i] = b})
    BY <2>1, FS_Subset
  <2> QED  BY <2>2, FS_CardinalityType DEF Among
<1>4. ASSUME NEW m \in 0..n, m < n, NEW b \in Blob
      PROVE  Among(blobs, m + 1, b) = Among(blobs, m, b) + One(blobs[m + 1])[b]
  <2>1. PICK S, T : S = {i \in 1..m : blobs[i] = b} /\ T = {i \in 1..(m + 1) : blobs[i] = b}
    OBVIOUS
  <2>2. IsFiniteSet(1..m)
    BY FS_Interval
  <2>3. IsFiniteSet(S) /\ m + 1 \notin S
    BY <2>1, <2>2, FS_Subset
  <2>4. Cardinality(S) \in Nat
    BY <2>3, FS_CardinalityType
  <2>5. CASE blobs[m + 1] = b
    <3>1. T = S \cup {m + 1}
      BY <2>1, <2>5
    <3>2. Cardinality(T) = Cardinality(S) + 1
      BY <2>3, <3>1, FS_AddElement
    <3> QED  BY <2>1, <2>5, <3>2 DEF Among, One
  <2>6. CASE blobs[m + 1] # b
    <3>1. T = S
      BY <2>1, <2>6
    <3>2. Cardinality(T) = Cardinality(S) + 0
      BY <2>4, <3>1
    <3> QED  BY <2>1, <2>6, <3>2 DEF Among, One
  <2> QED  BY <2>5, <2>6
<1> DEFINE G == {m \in 0..n : AmountOf(bag(m), c) = GivenBy(blobs, m, c)}
<1>5. 0 \in G
  <2>1. ASSUME NEW b \in Blob  PROVE Among(blobs, 0, b) = 0
    <3>1. {i \in 1..0 : blobs[i] = b} = {}
      OBVIOUS
    <3> QED  BY <3>1, FS_EmptySet DEF Among
  <2>2. bag(0) = [b \in Blob |-> 0]
    BY <2>1
  <2>3. AmountOf(bag(0), c) = 0
    BY <2>2, AmountsAdd
  <2>4. GivenBy(blobs, 0, c) = 0
    BY <1>2, GivenByNext
  <2> QED  BY <2>3, <2>4
<1>6. ASSUME NEW m \in 0..n, m \in G, m < n  PROVE m + 1 \in G
  <2>1. m + 1 \in 0..n /\ m + 1 \in 1..n
    BY <1>6
  <2>2. PICK e \in Blob : e = blobs[m + 1]
    BY <1>1, <2>1
  <2>3. bag(m) \in [Blob -> Nat] /\ bag(m + 1) \in [Blob -> Nat]
    BY <1>3, <2>1
  <2>4. One(e) \in Bags /\ AmountOf(One(e), c) = Gives(e, c)
    BY AmountOfOne
  <2>5. \A b \in Blob : bag(m + 1)[b] = bag(m)[b] + One(e)[b]
    BY <1>4, <1>6, <2>2
  <2>6. PICK f, g, h : f = bag(m) /\ g = One(e) /\ h = bag(m + 1)
    OBVIOUS
  <2>7. AmountOf(h, c) = AmountOf(f, c) + AmountOf(g, c)
    <3>1. f \in Bags /\ g \in Bags /\ h \in Bags
      BY <2>3, <2>4, <2>6 DEF Bags
    <3>2. SumOf(h, f, g)
      BY <2>5, <2>6 DEF SumOf
    <3> HIDE DEF bag, G
    <3> QED  BY <3>1, <3>2, AmountsAdd, Zenon
  <2>8. AmountOf(f, c) = GivenBy(blobs, m, c)
    BY <1>6, <2>6
  <2>9. GivenBy(blobs, m + 1, c) = GivenBy(blobs, m, c) + Gives(blobs[m + 1], c)
    BY <1>1, <1>2, <1>6, GivenByNext
  <2> QED  BY <2>1, <2>2, <2>4, <2>6, <2>7, <2>8, <2>9
<1> HIDE DEF G
<1>7. n \in G
    BY <1>5, <1>6, CountUp
<1>8. bag(n) = [b \in Blob |-> Occurrences(blobs, b)]
    BY <1>1 DEF Among, Occurrences
<1>9. bag(n) \in [Blob -> Nat]
    BY <1>3
<1> QED
    BY <1>1, <1>7, <1>8, <1>9 DEF G, Bags

-----------------------------------------------------------------------------
(* The ledger: its steps.                                                  *)

\* The accounts of the ledger, said of the list and the counts.
Booked ==
    /\ FreeBytes \in [Contracts -> Nat] /\ HeldBytes \in [Contracts -> Nat]
    /\ UsedBytes \in [Contracts -> Nat]
    /\ \A c \in Contracts : /\ FreeBytes[c] = FreeIn(freelist, c)
                            /\ HeldBytes[c] = AmountOf(held, c)
                            /\ UsedBytes[c] = AmountOf(used, c)

\* They are in order.
LEMMA Books == ManagerInv => Booked
<1> SUFFICES ASSUME ManagerInv  PROVE Booked
    OBVIOUS
<1>1. ASSUME NEW c \in Contracts
      PROVE  /\ FreeBytes[c] = FreeIn(freelist, c) /\ HeldBytes[c] = AmountOf(held, c)
             /\ UsedBytes[c] = AmountOf(used, c)
             /\ FreeIn(freelist, c) \in Nat /\ AmountOf(held, c) \in Nat /\ AmountOf(used, c) \in Nat
  <2>1. FreeOf(c) = FreeIn(freelist, c)
    BY DEF FreeOf, FreeIn
  <2>2. FreeIn(freelist, c) \in Nat
    BY FreeOfOne DEF ManagerInv, ListOK
  <2>3. AmountOf(held, c) \in Nat /\ AmountOf(used, c) \in Nat
    BY StorageAssumption, AmountsAdd DEF ManagerInv, CountsOK, Bags
  <2> QED  BY <2>1, <2>2, <2>3 DEF FreeBytes, HeldBytes, UsedBytes
<1>2. /\ FreeBytes = [c \in Contracts |-> FreeBytes[c]]
      /\ HeldBytes = [c \in Contracts |-> HeldBytes[c]]
      /\ UsedBytes = [c \in Contracts |-> UsedBytes[c]]
    BY DEF FreeBytes, HeldBytes, UsedBytes
<1> QED
    BY <1>1, <1>2 DEF Booked

\* The uses of a step that changes the bytes of one account to another's.
LEMMA BooksMove ==
    ASSUME Booked, Booked',
           \A c \in Contracts :
              FreeIn(freelist', c) + AmountOf(held', c) + AmountOf(used', c)
                 = FreeIn(freelist, c) + AmountOf(held, c) + AmountOf(used, c)
    PROVE  Ledger!Moved
    BY DEF Booked, Ledger!Moved, Ledger!Account

\* What a list of blobs adds to a count.
LEMMA CountsList ==
    ASSUME StorageAssumption, NEW f \in Bags, NEW g \in Bags,
           NEW blobs \in Seq(Blob), SumOf(g, f, [b \in Blob |-> Occurrences(blobs, b)]), NEW c
    PROVE  AmountOf(g, c) = AmountOf(f, c) + GivenBy(blobs, Len(blobs), c)
<1>1. PICK h : h = [b \in Blob |-> Occurrences(blobs, b)]
    OBVIOUS
<1>2. h \in Bags /\ AmountOf(h, c) = GivenBy(blobs, Len(blobs), c)
    BY <1>1, AmountOfList
<1>3. SumOf(g, f, h)
    BY <1>1
<1>4. AmountOf(g, c) = AmountOf(f, c) + AmountOf(h, c)
    BY <1>2, <1>3, AmountsAdd, Zenon
<1> QED
    BY <1>2, <1>4

\* What one blob adds.
LEMMA CountsOne ==
    ASSUME StorageAssumption, NEW f \in Bags, NEW g \in Bags,
           NEW e \in Blob, SumOf(g, f, One(e)), NEW c
    PROVE  AmountOf(g, c) = AmountOf(f, c) + Gives(e, c)
<1>1. PICK h : h = One(e)
    OBVIOUS
<1>2. h \in Bags /\ AmountOf(h, c) = Gives(e, c)
    BY <1>1, AmountOfOne
<1>3. SumOf(g, f, h)
    BY <1>1
<1>4. AmountOf(g, c) = AmountOf(f, c) + AmountOf(h, c)
    BY <1>2, <1>3, AmountsAdd, Zenon
<1> QED
    BY <1>2, <1>4

\* What blobs give is a number.
LEMMA GivenType ==
    ASSUME StorageAssumption, NEW blobs \in Seq(Blob), NEW c
    PROVE  GivenBy(blobs, Len(blobs), c) \in Nat
<1>1. [b \in Blob |-> Occurrences(blobs, b)] \in Bags
    BY AmountOfList
<1>2. AmountOf([b \in Blob |-> Occurrences(blobs, b)], c) = GivenBy(blobs, Len(blobs), c)
    BY AmountOfList
<1>3. AmountOf([b \in Blob |-> Occurrences(blobs, b)], c) \in Nat
    BY <1>1, AmountsAdd
<1> QED
    BY <1>2, <1>3

\* A search finds.
LEMMA LedgerFinds ==
    ASSUME StorageAssumption, ManagerInv, ManagerInv', FindStorageExclude
    PROVE  Ledger!Find
<1>1. Booked /\ Booked'
    BY Books, PTL
<1>2. ListOK /\ CountsOK /\ CountsOK'
    BY DEF ManagerInv
<1>3. PICK blobs \in Seq(Blob) :
          /\ held' = [b \in Blob |-> held[b] + Occurrences(blobs, b)]
          /\ \A c : FreeIn(freelist', c) + GivenBy(blobs, Len(blobs), c) = FreeIn(freelist, c)
    BY <1>2, FindMoves
<1>4. UNCHANGED <<confirm, payments, signed, used>>
    BY <1>2, FindMoves
<1>5. ASSUME NEW c \in Contracts
      PROVE  /\ FreeIn(freelist', c) + AmountOf(held', c) + AmountOf(used', c)
                   = FreeIn(freelist, c) + AmountOf(held, c) + AmountOf(used, c)
             /\ FreeIn(freelist', c) <= FreeIn(freelist, c)
  <2>1. PICK f, g : f = held /\ g = held'
    OBVIOUS
  <2>2. f \in Bags /\ g \in Bags /\ SumOf(g, f, [b \in Blob |-> Occurrences(blobs, b)])
    BY <1>2, <1>3, <2>1 DEF CountsOK, Bags, SumOf
  <2>3. AmountOf(g, c) = AmountOf(f, c) + GivenBy(blobs, Len(blobs), c)
    BY StorageAssumption, <1>3, <2>2, CountsList
  <2>4. PICK fr \in Nat, fr1 \in Nat, h \in Nat, h1 \in Nat, u \in Nat, x \in Nat :
          /\ fr = FreeIn(freelist, c) /\ fr1 = FreeIn(freelist', c) /\ h = AmountOf(held, c)
          /\ h1 = AmountOf(held', c) /\ u = AmountOf(used, c) /\ x = GivenBy(blobs, Len(blobs), c)
    <3>1. GivenBy(blobs, Len(blobs), c) \in Nat
      BY GivenType
    <3> QED  BY <1>1, <3>1 DEF Booked
  <2>5. h1 = h + x /\ fr1 + x = fr
    BY <1>3, <2>1, <2>3, <2>4
  <2>6. AmountOf(used', c) = u
    BY <1>4, <2>4
  <2>7. fr1 + h1 + u = fr + h + u /\ fr1 <= fr
    BY <2>4, <2>5
  <2> QED  BY <2>4, <2>6, <2>7
<1>6. Ledger!Moved
    BY <1>1, <1>5, BooksMove
<1>7. UNCHANGED <<signed, UsedBytes>>
    BY <1>4 DEF UsedBytes
<1>8. \A c \in Contracts : FreeBytes'[c] <= FreeBytes[c]
    BY <1>1, <1>5 DEF Booked
<1> QED
    BY <1>6, <1>7, <1>8 DEF Ledger!Find

\* Returned blobs are free.
LEMMA LedgerReturns ==
    ASSUME StorageAssumption, ManagerInv, ManagerInv', ReturnBlobs
    PROVE  Ledger!Settle
<1>1. Booked /\ Booked'
    BY Books, PTL
<1>2. ListOK /\ CountsOK /\ CountsOK'
    BY DEF ManagerInv
<1>3. PICK blobs \in SeqOf(Blob, 2) :
          /\ freelist' = AddBlobs(freelist, blobs)
          /\ \A b \in Blob : Occurrences(blobs, b) <= held[b]
          /\ held' = [b \in Blob |-> held[b] - Occurrences(blobs, b)]
          /\ UNCHANGED <<confirm, payments, signed, used>>
    BY DEF ReturnBlobs
<1>4. blobs \in Seq(Blob) /\ blobs \in Seq(Part)
    BY ReturnedBlobs
<1>5. \A c : FreeIn(freelist', c) = FreeIn(freelist, c) + GivenBy(blobs, Len(blobs), c)
  <2>1. freelist \in Seq(Part) /\ OnePer(freelist)
    BY <1>2 DEF ListOK
  <2>2. PICK r : r = AddBlobs(freelist, blobs)
    OBVIOUS
  <2>3. \A c : FreeIn(r, c) = FreeIn(freelist, c) + GivenBy(blobs, Len(blobs), c)
    BY <1>4, <2>1, <2>2, AddBlobsOf
  <2> QED  BY <1>3, <2>2, <2>3
<1>6. ASSUME NEW c \in Contracts
      PROVE  /\ FreeIn(freelist', c) + AmountOf(held', c) + AmountOf(used', c)
                   = FreeIn(freelist, c) + AmountOf(held, c) + AmountOf(used, c)
             /\ FreeIn(freelist, c) <= FreeIn(freelist', c)
  <2>1. PICK f, g : f = held' /\ g = held
    OBVIOUS
  <2>2. f \in Bags /\ g \in Bags
    BY <1>2, <2>1 DEF CountsOK, Bags
  <2>3. ASSUME NEW b \in Blob  PROVE g[b] = f[b] + Occurrences(blobs, b)
    <3>1. PICK o \in Nat, y \in Nat : o = Occurrences(blobs, b) /\ y = g[b]
      BY <1>4, <2>2, OccursType DEF Bags
    <3>2. f[b] = y - o
      BY <1>3, <2>1, <2>3, <3>1
    <3> QED  BY <3>1, <3>2
  <2>4. AmountOf(g, c) = AmountOf(f, c) + GivenBy(blobs, Len(blobs), c)
    <3>1. PICK bs \in Seq(Blob) : bs = blobs
      BY <1>4
    <3>2. SumOf(g, f, [b \in Blob |-> Occurrences(bs, b)])
      BY <2>3, <3>1 DEF SumOf
    <3>3. AmountOf(g, c) = AmountOf(f, c) + GivenBy(bs, Len(bs), c)
      BY StorageAssumption, <2>2, <3>1, <3>2, CountsList
    <3> QED  BY <3>1, <3>3
  <2>5. PICK fr \in Nat, fr1 \in Nat, h \in Nat, h1 \in Nat, u \in Nat, x \in Nat :
          /\ fr = FreeIn(freelist, c) /\ fr1 = FreeIn(freelist', c) /\ h = AmountOf(held, c)
          /\ h1 = AmountOf(held', c) /\ u = AmountOf(used, c) /\ x = GivenBy(blobs, Len(blobs), c)
    <3>1. GivenBy(blobs, Len(blobs), c) \in Nat
      BY <1>4, GivenType
    <3> QED  BY <1>1, <3>1 DEF Booked
  <2>6. h = h1 + x /\ fr1 = fr + x
    BY <1>5, <2>1, <2>4, <2>5
  <2>7. AmountOf(used', c) = u
    BY <1>3, <2>5
  <2>9. h1 + x = h /\ fr + x = fr1 /\ x \in Nat /\ fr \in Nat /\ u \in Nat /\ h1 \in Nat
    BY <2>5, <2>6, Zenon
  <2>8. fr1 + h1 + u = fr + h + u /\ fr <= fr1
    BY <2>9
  <2> QED  BY <2>5, <2>7, <2>8
<1>7. Ledger!Moved
    BY <1>1, <1>6, BooksMove
<1>8. signed' = signed /\ UsedBytes' = UsedBytes
    BY <1>3 DEF UsedBytes
<1>9. \A c \in Contracts : FreeBytes[c] <= FreeBytes'[c] /\ UsedBytes[c] <= UsedBytes'[c]
  <2>1. \A c \in Contracts : UsedBytes[c] \in Nat
    BY <1>1 DEF Booked
  <2> QED  BY <1>1, <1>6, <1>8, <2>1 DEF Booked
<1> QED
    BY <1>7, <1>8, <1>9 DEF Ledger!Settle

\* A stored block is used.
LEMMA LedgerStores ==
    ASSUME StorageAssumption, ManagerInv, ManagerInv', KeepBlob
    PROVE  Ledger!Settle
<1>1. Booked /\ Booked'
    BY Books, PTL
<1>2. CountsOK /\ CountsOK'
    BY DEF ManagerInv
<1>3. PICK e \in Blob :
          /\ held[e] > 0
          /\ held' = [held EXCEPT ![e] = @ - 1]
          /\ used' = [used EXCEPT ![e] = @ + 1]
          /\ UNCHANGED <<freelist, confirm, payments, signed>>
    BY DEF KeepBlob
<1>4. ASSUME NEW c \in Contracts
      PROVE  /\ FreeIn(freelist', c) + AmountOf(held', c) + AmountOf(used', c)
                   = FreeIn(freelist, c) + AmountOf(held, c) + AmountOf(used, c)
             /\ AmountOf(used, c) <= AmountOf(used', c)
  <2>1. PICK h, h1, u, u1 : h = held /\ h1 = held' /\ u = used /\ u1 = used'
    OBVIOUS
  <2>2. h \in Bags /\ h1 \in Bags /\ u \in Bags /\ u1 \in Bags
    BY <1>2, <2>1 DEF CountsOK, Bags
  <2>3. SumOf(h, h1, One(e)) /\ SumOf(u1, u, One(e))
    BY <1>3, <2>1, <2>2 DEF One, SumOf, Bags
  <2>4. AmountOf(h, c) = AmountOf(h1, c) + Gives(e, c)
    BY StorageAssumption, <1>3, <2>2, <2>3, CountsOne
  <2>5. AmountOf(u1, c) = AmountOf(u, c) + Gives(e, c)
    BY StorageAssumption, <1>3, <2>2, <2>3, CountsOne
  <2>6. PICK fr \in Nat, ha \in Nat, hb \in Nat, ua \in Nat, ub \in Nat, x \in Nat :
          /\ fr = FreeIn(freelist, c) /\ ha = AmountOf(held, c) /\ hb = AmountOf(held', c)
          /\ ua = AmountOf(used, c) /\ ub = AmountOf(used', c) /\ x = Gives(e, c)
    <3>1. Gives(e, c) \in Nat
      BY BlobIsPart DEF Gives, Part
    <3> QED  BY <1>1, <3>1 DEF Booked
  <2>7. ha = hb + x /\ ub = ua + x
    BY <2>1, <2>4, <2>5, <2>6
  <2> QED  BY <1>3, <2>6, <2>7
<1>5. Ledger!Moved
    BY <1>1, <1>4, BooksMove
<1>6. signed' = signed /\ FreeBytes' = FreeBytes
    BY <1>3 DEF FreeBytes, FreeOf
<1>7. \A c \in Contracts : FreeBytes[c] <= FreeBytes'[c] /\ UsedBytes[c] <= UsedBytes'[c]
  <2>1. \A c \in Contracts : FreeBytes[c] \in Nat
    BY <1>1 DEF Booked
  <2> QED  BY <1>1, <1>4, <1>6, <2>1 DEF Booked
<1> QED
    BY <1>5, <1>6, <1>7 DEF Ledger!Settle

\* A removed block is free again.
LEMMA LedgerReclaims ==
    ASSUME StorageAssumption, ManagerInv, ManagerInv', RemoveBlock
    PROVE  Ledger!Reclaim
<1>1. Booked /\ Booked'
    BY Books, PTL
<1>2. ListOK /\ CountsOK /\ CountsOK'
    BY DEF ManagerInv
<1>3. PICK e \in Blob :
          /\ used[e] > 0
          /\ freelist' = AddBlob(freelist, e)
          /\ used' = [used EXCEPT ![e] = @ - 1]
          /\ UNCHANGED <<confirm, payments, signed, held>>
    BY DEF RemoveBlock
<1>4. \A c : FreeIn(freelist', c) = FreeIn(freelist, c) + Gives(e, c)
  <2>1. freelist \in Seq(Part) /\ OnePer(freelist) /\ e \in Part
    BY <1>2, BlobIsPart DEF ListOK
  <2>2. PICK r : r = AddBlob(freelist, e)
    OBVIOUS
  <2>3. Added(freelist, e, r)
    BY <2>1, <2>2, AddBlobOf
  <2> QED  BY <1>3, <2>2, <2>3 DEF Added
<1>5. ASSUME NEW c \in Contracts
      PROVE  /\ FreeIn(freelist', c) + AmountOf(held', c) + AmountOf(used', c)
                   = FreeIn(freelist, c) + AmountOf(held, c) + AmountOf(used, c)
             /\ AmountOf(used', c) <= AmountOf(used, c)
  <2>1. PICK u, u1 : u = used /\ u1 = used'
    OBVIOUS
  <2>2. u \in Bags /\ u1 \in Bags
    BY <1>2, <2>1 DEF CountsOK, Bags
  <2>3. SumOf(u, u1, One(e))
    BY <1>3, <2>1, <2>2 DEF One, SumOf, Bags
  <2>4. AmountOf(u, c) = AmountOf(u1, c) + Gives(e, c)
    BY StorageAssumption, <1>3, <2>2, <2>3, CountsOne
  <2>5. PICK fr \in Nat, fr1 \in Nat, h \in Nat, ua \in Nat, ub \in Nat, x \in Nat :
          /\ fr = FreeIn(freelist, c) /\ fr1 = FreeIn(freelist', c) /\ h = AmountOf(held, c)
          /\ ua = AmountOf(used, c) /\ ub = AmountOf(used', c) /\ x = Gives(e, c)
    <3>1. Gives(e, c) \in Nat
      BY BlobIsPart DEF Gives, Part
    <3> QED  BY <1>1, <3>1 DEF Booked
  <2>6. ua = ub + x /\ fr1 = fr + x
    BY <1>4, <2>1, <2>4, <2>5
  <2> QED  BY <1>3, <2>5, <2>6
<1>6. Ledger!Moved
    BY <1>1, <1>5, BooksMove
<1>7. signed' = signed /\ HeldBytes' = HeldBytes
    BY <1>3 DEF HeldBytes
<1>8. \A c \in Contracts : UsedBytes'[c] <= UsedBytes[c]
    BY <1>1, <1>5 DEF Booked
<1> QED
    BY <1>6, <1>7, <1>8 DEF Ledger!Reclaim

\* The contracts of an estimate come in once.
LEMMA LedgerReserves ==
    ASSUME StorageAssumption, ManagerInv, ManagerInv', NEW t \in Clients, AddContracts(t)
    PROVE  Ledger!Reserve
<1>1. Booked /\ Booked'
    BY Books, PTL
<1>2. ListOK /\ ConfirmInv
    BY DEF ManagerInv
<1>3. PICK e \in Estimates :
              /\ freelist' = AddBlobs(freelist, BlobsOf(e))
              /\ signed' = signed \cup Range(e) /\ Range(e) \cap signed = {}
    BY <1>2, AddContractsOf
<1>4. Range(e) \subseteq Contracts
    BY EstimateOf
<1>5. signed' \ signed = Range(e) /\ signed \subseteq signed' /\ signed' \subseteq Contracts
    BY <1>2, <1>3, <1>4 DEF ConfirmInv
<1>6. ASSUME NEW c \in Contracts
      PROVE  FreeBytes'[c] = IF c \in Range(e) THEN FreeBytes[c] + Capacity[c] ELSE FreeBytes[c]
  <2>1. PICK blobs : blobs = BlobsOf(e)
    OBVIOUS
  <2>2. /\ blobs \in Seq(Part)
        /\ GivenBy(blobs, Len(blobs), c) = IF c \in Range(e) THEN Capacity[c] ELSE 0
    BY <2>1, NewBlobs
  <2>3. freelist \in Seq(Part) /\ OnePer(freelist)
    BY <1>2 DEF ListOK
  <2>4. PICK r : r = AddBlobs(freelist, blobs)
    OBVIOUS
  <2>5. FreeIn(r, c) = FreeIn(freelist, c) + GivenBy(blobs, Len(blobs), c)
    BY <2>2, <2>3, <2>4, AddBlobsOf
  <2>6. FreeBytes'[c] = FreeIn(r, c) /\ FreeBytes[c] = FreeIn(freelist, c) /\ FreeBytes[c] \in Nat
    BY <1>1, <1>3, <2>1, <2>4 DEF Booked
  <2> QED  BY <2>2, <2>5, <2>6
<1>7. FreeBytes' = [c \in Contracts |->
                      IF c \in signed' \ signed THEN FreeBytes[c] + Capacity[c] ELSE FreeBytes[c]]
  <2>1. FreeBytes' = [c \in Contracts |-> FreeBytes'[c]]
    BY DEF FreeBytes
  <2> QED  BY <1>5, <1>6, <2>1
<1>8. UNCHANGED <<HeldBytes, UsedBytes>>
    BY DEF AddContracts, HeldBytes, UsedBytes
<1> QED
    BY <1>5, <1>7, <1>8 DEF Ledger!Reserve

\* Every step is one of the ledger, or none that it sees.
LEMMA LedgerStep ==
    ASSUME StorageAssumption, ManagerInv, ManagerInv', [Next]_vars
    PROVE  [Ledger!Next]_(Ledger!ledger)
<1>1. ASSUME UNCHANGED <<signed, freelist, held, used>>  PROVE UNCHANGED Ledger!ledger
    BY <1>1 DEF Ledger!ledger, FreeBytes, FreeOf, HeldBytes, UsedBytes
<1>2. ASSUME NEW t \in Clients, ConfirmStorageEstimate(t)
      PROVE  Ledger!Next \/ UNCHANGED Ledger!ledger
  <2>1. CASE ReserveStorage(t)
    BY <1>1, <2>1 DEF ReserveStorage
  <2>2. CASE PostContract(t)
    BY <1>1, <2>2 DEF PostContract
  <2>3. CASE AddContracts(t)
    BY <2>3, LedgerReserves DEF Ledger!Next
  <2> QED  BY <1>2, <2>1, <2>2, <2>3 DEF ConfirmStorageEstimate
<1>3. CASE FindStorageExclude
    BY <1>3, LedgerFinds DEF Ledger!Next
<1>4. CASE ReturnBlobs
    BY <1>4, LedgerReturns DEF Ledger!Next
<1>5. CASE KeepBlob
    BY <1>5, LedgerStores DEF Ledger!Next
<1>6. CASE RemoveBlock
    BY <1>6, LedgerReclaims DEF Ledger!Next
<1>7. CASE UNCHANGED vars
    BY <1>1, <1>7 DEF vars
<1> QED
    BY <1>2, <1>3, <1>4, <1>5, <1>6, <1>7 DEF Next

\* Nothing was reserved.
LEMMA LedgerStarts == Init => Ledger!Init
<1> SUFFICES ASSUME Init  PROVE Ledger!Init
    OBVIOUS
<1>1. ManagerInv
    BY StorageAssumption, ManagerInductive
<1>2. Booked
    BY <1>1, Books
<1>3. ASSUME NEW c \in Contracts  PROVE FreeBytes[c] = 0 /\ HeldBytes[c] = 0 /\ UsedBytes[c] = 0
  <2>1. FreeIn(freelist, c) = 0
    <3>1. freelist \in Seq(Part) /\ OnePer(freelist)
      BY <1>1 DEF ManagerInv, ListOK
    <3>2. \A i \in DOMAIN freelist : freelist[i].contract # c
      BY DEF Init
    <3> QED  BY <3>1, <3>2, FreeOfOne
  <2>2. AmountOf(held, c) = 0 /\ AmountOf(used, c) = 0
    BY StorageAssumption, AmountsAdd DEF Init
  <2> QED  BY <1>2, <2>1, <2>2 DEF Booked
<1>4. /\ FreeBytes = [c \in Contracts |-> IF c \in signed THEN Capacity[c] ELSE 0]
      /\ HeldBytes = [c \in Contracts |-> 0] /\ UsedBytes = [c \in Contracts |-> 0]
    BY <1>3 DEF FreeBytes, HeldBytes, UsedBytes, Init
<1> QED
    BY <1>4 DEF Ledger!Init, Init

\* The storage manager implements the ledger: however estimates are confirmed
\* and searches, returns and removals overlap, the space of a contract comes in
\* once and no byte is lost or found twice (storage.go, reserve.go).
THEOREM LedgerKept == Spec => ImplementsLedger
<1>1. ManagerInv /\ ManagerInv' /\ [Next]_vars => [Ledger!Next]_(Ledger!ledger)
    BY StorageAssumption, LedgerStep
<1> QED
    BY <1>1, LedgerStarts, StorageAssumption, ManagerAlways, PTL DEF Spec, ImplementsLedger, Ledger!Spec

-----------------------------------------------------------------------------
(* The bytes are conserved.                                                *)

\* What the accounts of every contract add up to.
InAll(c) == FreeBytes[c] + HeldBytes[c] + UsedBytes[c]

\* A step of the ledger keeps the sums: bytes move within their contract, and a
\* new contract, which had nothing, brings its capacity.
LEMMA LedgerConserves ==
    ASSUME StorageAssumption, Booked, Booked', signed \subseteq Contracts,
           Ledger!Conserved, [Ledger!Next]_(Ledger!ledger)
    PROVE  Ledger!Conserved'
<1>1. ASSUME NEW c \in Contracts
      PROVE  InAll(c)' = IF c \in signed' THEN Capacity[c] ELSE 0
  <2>1. PICK f \in Nat, h \in Nat, u \in Nat, cap \in Nat :
           f = FreeBytes[c] /\ h = HeldBytes[c] /\ u = UsedBytes[c] /\ cap = Capacity[c]
    BY StorageAssumption DEF Booked
  <2>2. PICK f1 \in Nat, h1 \in Nat, u1 \in Nat :
           f1 = FreeBytes'[c] /\ h1 = HeldBytes'[c] /\ u1 = UsedBytes'[c]
    BY DEF Booked
  <2>3. f + h + u = IF c \in signed THEN cap ELSE 0
    BY <2>1 DEF Ledger!Conserved
  <2>4. CASE Ledger!Reserve
    <3>1. h1 = h /\ u1 = u /\ (c \in signed => c \in signed')
      BY <2>1, <2>2, <2>4 DEF Ledger!Reserve
    <3>2. f1 = IF c \in signed' \ signed THEN f + cap ELSE f
      BY <2>1, <2>2, <2>4 DEF Ledger!Reserve
    <3>3. f1 + h1 + u1 = IF c \in signed' THEN cap ELSE 0
      BY <2>3, <3>1, <3>2
    <3> QED  BY <2>1, <2>2, <3>3 DEF InAll
  <2>5. CASE Ledger!Moved /\ UNCHANGED signed
    <3>1. f1 + h1 + u1 = f + h + u
      BY <2>1, <2>2, <2>5 DEF Ledger!Moved
    <3> QED  BY <2>1, <2>2, <2>3, <2>5, <3>1 DEF InAll
  <2>6. CASE UNCHANGED Ledger!ledger
    <3>1. f1 = f /\ h1 = h /\ u1 = u /\ signed' = signed
      BY <2>1, <2>2, <2>6 DEF Ledger!ledger
    <3> QED  BY <2>1, <2>2, <2>3, <3>1 DEF InAll
  <2> QED
    BY <2>4, <2>5, <2>6 DEF Ledger!Next, Ledger!Find, Ledger!Settle, Ledger!Reclaim
<1> QED
    BY <1>1 DEF Ledger!Conserved, InAll

\* The bytes of every contract that are free, held by uploads or under stored
\* blocks add up to the space it was reserved with, once it was added, and to
\* none before (storage.go, reserve.go:74-92).
THEOREM BytesConserved == Spec => []Ledger!Conserved
<1>1. Init => Ledger!Conserved
  <2> SUFFICES ASSUME Init, NEW c \in Contracts
               PROVE  InAll(c) = IF c \in signed THEN Capacity[c] ELSE 0
    BY DEF Ledger!Conserved, InAll
  <2>1. Ledger!Init
    BY LedgerStarts
  <2>2. FreeBytes[c] = 0 /\ HeldBytes[c] = 0 /\ UsedBytes[c] = 0 /\ c \notin signed
    BY <2>1 DEF Ledger!Init, Init
  <2> QED  BY <2>2 DEF InAll
<1>2. ManagerInv /\ ManagerInv' /\ Ledger!Conserved /\ [Next]_vars => Ledger!Conserved'
  <2> SUFFICES ASSUME ManagerInv, ManagerInv', Ledger!Conserved, [Next]_vars
               PROVE  Ledger!Conserved'
    OBVIOUS
  <2>1. [Ledger!Next]_(Ledger!ledger)
    BY StorageAssumption, LedgerStep
  <2>2. Booked /\ Booked'
    BY Books, PTL
  <2>3. signed \subseteq Contracts
    BY DEF ManagerInv, ConfirmInv
  <2> QED  BY StorageAssumption, <2>1, <2>2, <2>3, LedgerConserves
<1> QED
    BY <1>1, <1>2, StorageAssumption, ManagerAlways, PTL DEF Spec
=============================================================================
