--------------------------- MODULE Delivery_proofs ---------------------------
(***************************************************************************)
(* For any devices, messages and limits, and any crashes, cuts, refusals   *)
(* and comings and goings: no history holds a message twice, what an       *)
(* engine shows is on its disk, receipts are true, and an own message      *)
(* somebody waits for is not lost while the window can keep it.            *)
(***************************************************************************)
EXTENDS Delivery, Subsequences_proofs

-----------------------------------------------------------------------------
(* The rolling window.                                                     *)

Own(s, d) == {i \in DOMAIN s : Awaiting(s[i], d)}
Free(s, d) == DOMAIN s \ Protected(s, d)
Evicted(s, d) == {i \in Free(s, d) : Place(Free(s, d), i) <= Len(s) - MaxStored}
Kept(s, d) == DOMAIN s \ Evicted(s, d)

LEMMA Positions ==
  ASSUME NEW S, NEW s \in Seq(S)
  PROVE  /\ Len(s) \in Nat /\ DOMAIN s = 1..Len(s) /\ DOMAIN s \in SUBSET Int
         /\ IsFiniteSet(DOMAIN s) /\ Cardinality(DOMAIN s) = Len(s)
<1>1. Len(s) \in Nat /\ DOMAIN s = 1..Len(s)
  OBVIOUS
<1>2. IsFiniteSet(1..Len(s)) /\ Cardinality(1..Len(s)) = IF 1 > Len(s) THEN 0 ELSE Len(s) - 1 + 1
  BY <1>1, FS_Interval
<1>3. Cardinality(1..Len(s)) = Len(s)
  BY <1>1, <1>2
<1> QED
  BY <1>1, <1>2, <1>3

LEMMA Limits ==
  /\ MaxStored \in Nat /\ MaxOutbox \in Nat /\ Batch \in Nat /\ Buffer \in Nat
  /\ 0 < MaxOutbox /\ MaxOutbox < MaxStored
BY WindowAssumption DEF WindowAssumption

(* Once MaxOutbox or more wait, the last MaxOutbox of them are protected.    *)
LEMMA ProtectedFacts ==
  ASSUME NEW S, NEW s \in Seq(S), NEW d
  PROVE  /\ Protected(s, d) \subseteq Own(s, d) /\ Own(s, d) \in SUBSET (DOMAIN s)
         /\ IsFiniteSet(Own(s, d)) /\ Cardinality(Own(s, d)) \in Nat
         /\ Cardinality(Protected(s, d)) \in 0..MaxOutbox
         /\ Cardinality(Own(s, d)) >= MaxOutbox => Cardinality(Protected(s, d)) = MaxOutbox
<1> DEFINE P == Own(s, d)
           n == Cardinality(P)
<1>1. P \in SUBSET (DOMAIN s) /\ IsFiniteSet(P) /\ P \in SUBSET Int
  <2>1. P \in SUBSET (DOMAIN s)
    BY DEF Own
  <2> QED
    BY <2>1, Positions, FS_Subset
<1>2. n \in Nat /\ \A i \in P : Place(P, i) \in 1..n
  BY <1>1, NthFacts
<1>3. Protected(s, d) = {i \in P : n - Place(P, i) < MaxOutbox}
  BY DEF Protected, Own
<1>4. IsFiniteSet(Protected(s, d)) /\ Cardinality(Protected(s, d)) \in Nat
      /\ Cardinality(Protected(s, d)) <= n
  <2>1. Protected(s, d) \subseteq P
    BY <1>3
  <2> QED
    BY <1>1, <2>1, FS_Subset, FS_CardinalityType
<1>5. CASE n >= MaxOutbox
  <2>1. n - MaxOutbox \in 0..n
    BY <1>2, <1>5, Limits
  <2>2. \A i \in P : n - Place(P, i) < MaxOutbox <=> Place(P, i) > n - MaxOutbox
    BY <1>2, Limits
  <2> HIDE DEF P, n
  <2>3. Protected(s, d) = {i \in P : Place(P, i) > n - MaxOutbox}
    BY <1>3, <2>2
  <2>4. Cardinality({i \in P : Place(P, i) > n - MaxOutbox}) = n - (n - MaxOutbox)
    BY <1>1, <2>1, LastPlaces DEF n
  <2>5. Cardinality(Protected(s, d)) = MaxOutbox
    BY <1>2, <2>3, <2>4, Limits
  <2> QED
    BY <1>1, <1>2, <1>3, <2>5, Limits DEF P, n
<1>6. CASE ~(n >= MaxOutbox)
  <2> HIDE DEF P, n
  <2>1. Cardinality(Protected(s, d)) \in 0..MaxOutbox
    BY <1>2, <1>4, <1>6, Limits
  <2> QED
    BY <1>1, <1>2, <1>3, <1>6, <2>1 DEF P, n
<1> QED
  BY <1>5, <1>6

LEMMA WindowFacts ==
  ASSUME NEW S, NEW s \in Seq(S), NEW d
  PROVE  /\ Window(s, d) = At(s, Kept(s, d))
         /\ Kept(s, d) \in SUBSET (DOMAIN s) /\ Protected(s, d) \subseteq Kept(s, d)
         /\ Window(s, d) \in Seq(S)
         /\ Len(Window(s, d)) <= MaxStored
<1> DEFINE F == Free(s, d)
           e == Len(s) - MaxStored
<1>1. Window(s, d) = At(s, Kept(s, d))
  BY DEF Window, Kept, Evicted, Free
<1>2. Kept(s, d) \in SUBSET (DOMAIN s) /\ Protected(s, d) \subseteq Kept(s, d)
  <2>1. Protected(s, d) \subseteq DOMAIN s
    BY DEF Protected
  <2> QED
    BY <2>1 DEF Kept, Evicted, Free
<1>3. /\ Window(s, d) \in Seq(S) /\ Len(Window(s, d)) = Cardinality(Kept(s, d))
      /\ Cardinality(Kept(s, d)) \in 0..Len(s)
  BY <1>1, <1>2, AtSeq
<1>4. Len(s) \in Nat /\ IsFiniteSet(DOMAIN s) /\ Cardinality(DOMAIN s) = Len(s)
      /\ DOMAIN s \in SUBSET Int
  BY Positions
<1>5. CASE e > 0
  <2>1. F \in SUBSET (DOMAIN s) /\ F \in SUBSET Int /\ IsFiniteSet(F)
    BY <1>4, FS_Subset DEF Free
  <2>2. /\ Protected(s, d) \subseteq DOMAIN s
        /\ Cardinality(Protected(s, d)) \in 0..MaxOutbox
    BY ProtectedFacts
  <2>3. Cardinality(F) = Len(s) - Cardinality(Protected(s, d))
    <3>1. DOMAIN s \cap Protected(s, d) = Protected(s, d)
      BY <2>2
    <3>2. Cardinality(F) = Cardinality(DOMAIN s) - Cardinality(DOMAIN s \cap Protected(s, d))
      BY <1>4, FS_Difference DEF Free
    <3> QED
      BY <1>4, <3>1, <3>2
  <2>4. e \in 0..Cardinality(F)
    BY <1>4, <1>5, <2>2, <2>3, Limits
  <2> HIDE DEF F, e
  <2>5. Cardinality({i \in F : Place(F, i) <= e}) = e
    BY <2>1, <2>4, FirstPlaces
  <2>6. Evicted(s, d) = {i \in F : Place(F, i) <= e}
    BY DEF Evicted, F, e
  <2>7. DOMAIN s \cap Evicted(s, d) = Evicted(s, d)
    BY <2>1, <2>6
  <2>8. Cardinality(Kept(s, d)) = Cardinality(DOMAIN s) - Cardinality(DOMAIN s \cap Evicted(s, d))
    BY <1>4, FS_Difference DEF Kept
  <2>9. Cardinality(Kept(s, d)) = Len(s) - e
    BY <1>4, <2>5, <2>6, <2>7, <2>8
  <2>10. Len(s) - e = MaxStored
    BY <1>4, Limits DEF e
  <2> QED
    BY <1>1, <1>2, <1>3, <2>9, <2>10, Limits
<1>6. CASE ~(e > 0)
  <2>1. Cardinality(Kept(s, d)) <= MaxStored
    BY <1>3, <1>4, <1>6, Limits
  <2> QED
    BY <1>1, <1>2, <1>3, <2>1
<1> QED
  BY <1>5, <1>6

-----------------------------------------------------------------------------
(* The inductive invariant.                                                *)

(* No history holds a message twice.                                         *)
Distinct(s) == \A i, j \in DOMAIN s : s[i].id = s[j].id => i = j

(* What device d has in a history it did store, and so did whoever a receipt *)
(* in it names.                                                              *)
Honest(s, d, sn) ==
  \A i \in DOMAIN s : /\ s[i].id \in sn[d]
                      /\ \A t \in s[i].receipts : t \in s[i].targets /\ s[i].id \in sn[t]

(* A receipt on its way is one for a message its sender did store.           *)
TrueReceipts(w, sn) ==
  \A x \in Pair : \A i \in DOMAIN w[x] : w[x][i].kind = "receipt" => w[x][i].id \in sn[x[1]]

RoomTypes ==
  /\ room \subseteq Device /\ up \subseteq Device
  /\ view \in [Device -> SUBSET Device]
  /\ link \subseteq {{x[1], x[2]} : x \in Pair}
  /\ faults \in 0..MaxFaults

HistoryInv ==
  /\ mem \in [Device -> Seq(Entry)] /\ disk \in [Device -> Seq(Entry)]
  /\ seen \in [Device -> SUBSET Message]
  /\ \A d \in Device : /\ Len(mem[d]) <= MaxStored /\ Len(disk[d]) <= MaxStored
                       /\ Distinct(mem[d]) /\ Distinct(disk[d])
                       /\ Honest(mem[d], d, seen) /\ Honest(disk[d], d, seen)

WireInv ==
  /\ wire \in [Pair -> Seq(Packet)] /\ sent \in [Pair -> SUBSET Message]
  /\ TrueReceipts(wire, seen)

(* An engine that does not run shows nothing and knows of nobody.            *)
Asleep == \A d \in Device \ up : mem[d] = <<>> /\ view[d] = {}

DeliveryInv == RoomTypes /\ HistoryInv /\ WireInv /\ Asleep /\ ShownIsStored

SeenGrows == \A d \in Device : seen[d] \subseteq seen'[d]

LEMMA HonestGrows ==
  ASSUME NEW s \in Seq(Entry), NEW d \in Device, Honest(s, d, seen), SeenGrows
  PROVE  Honest(s, d, seen')
<1>1. \A i \in DOMAIN s : s[i] \in Entry
  OBVIOUS
<1>2. \A i \in DOMAIN s : s[i].receipts \subseteq Device
  BY <1>1 DEF Entry
<1> QED
  BY <1>2 DEF Honest, SeenGrows

LEMMA ReceiptsGrow ==
  ASSUME NEW w, TrueReceipts(w, seen), SeenGrows
  PROVE  TrueReceipts(w, seen')
<1>1. \A x \in Pair : x[1] \in Device
  BY DEF Pair
<1> QED
  BY <1>1 DEF TrueReceipts, SeenGrows

(* What a list keeps of another stays distinct and honest.                   *)
LEMMA AtKeeps ==
  ASSUME NEW s \in Seq(Entry), NEW P \in SUBSET (DOMAIN s)
  PROVE  /\ At(s, P) \in Seq(Entry)
         /\ Distinct(s) => Distinct(At(s, P))
         /\ \A d, sn : Honest(s, d, sn) => Honest(At(s, P), d, sn)
         /\ \A i \in P : \E k \in DOMAIN At(s, P) : At(s, P)[k] = s[i]
         /\ \A k \in DOMAIN At(s, P) : \E i \in P : At(s, P)[k] = s[i]
<1> DEFINE h == At(s, P)
           n == Cardinality(P)
<1>1. h \in Seq(Entry)
  BY AtSeq
<1>2. Len(s) \in Nat /\ P \in SUBSET (1..Len(s))
  OBVIOUS
<1>3. /\ n \in 0..Len(s) /\ DOMAIN h = 1..n
      /\ \A k \in 1..n : Nth(P, k) \in P /\ h[k] = s[Nth(P, k)]
      /\ \A i \in P : Place(P, i) \in 1..n /\ h[Place(P, i)] = s[i]
      /\ \A j, k \in 1..n : j < k <=> Nth(P, j) < Nth(P, k)
  BY <1>2, AtFacts
<1> HIDE DEF h, n
<1>4. ASSUME Distinct(s) PROVE Distinct(h)
  <2>1. ASSUME NEW j \in DOMAIN h, NEW k \in DOMAIN h, h[j].id = h[k].id PROVE j = k
    <3>0. \A i \in P : i \in DOMAIN s /\ i \in Nat
      OBVIOUS
    <3>1. j \in 1..n /\ k \in 1..n /\ h[j] = s[Nth(P, j)] /\ h[k] = s[Nth(P, k)]
          /\ Nth(P, j) \in P /\ Nth(P, k) \in P
      BY <1>3
    <3>2. Nth(P, j) = Nth(P, k)
      BY <1>4, <2>1, <3>0, <3>1 DEF Distinct
    <3>3. ~(j < k) /\ ~(k < j)
      BY <1>3, <3>0, <3>1, <3>2
    <3> QED
      BY <1>3, <3>1, <3>3
  <2> QED
    BY <2>1 DEF Distinct
<1>5. ASSUME NEW d, NEW sn, Honest(s, d, sn) PROVE Honest(h, d, sn)
  <2>1. \A k \in DOMAIN h : Nth(P, k) \in DOMAIN s /\ h[k] = s[Nth(P, k)]
    BY <1>3
  <2> QED
    BY <1>5, <2>1 DEF Honest
<1>6. \A i \in P : \E k \in DOMAIN h : h[k] = s[i]
  BY <1>3
<1>7. \A k \in DOMAIN h : \E i \in P : h[k] = s[i]
  BY <1>3
<1> QED
  BY <1>1, <1>4, <1>5, <1>6, <1>7 DEF h

LEMMA AppendFacts ==
  ASSUME NEW S, NEW s \in Seq(S), NEW e \in S
  PROVE  /\ Append(s, e) \in Seq(S) /\ Len(Append(s, e)) = Len(s) + 1
         /\ \A i \in DOMAIN s : i \in DOMAIN Append(s, e) /\ Append(s, e)[i] = s[i]
         /\ Append(s, e)[Len(s) + 1] = e
         /\ \A i \in DOMAIN Append(s, e) : i \in DOMAIN s \/ i = Len(s) + 1
OBVIOUS

-----------------------------------------------------------------------------
(* Storing.                                                                *)

LEMMA SaveKeeps ==
  ASSUME HistoryInv, NEW d \in Device, NEW e \in Entry,
         \A i \in DOMAIN mem[d] : mem[d][i].id # e.id, e.receipts = {}, Save(d, e)
  PROVE  /\ HistoryInv' /\ SeenGrows
         /\ mem'[d] = disk'[d]
         /\ \A c \in Device \ {d} : mem'[c] = mem[c] /\ disk'[c] = disk[c]
         /\ e.id \in seen'[d]
<1> DEFINE s == Append(mem[d], e)
           w == Stored(d, e)
<1>1. mem[d] \in Seq(Entry)
  BY DEF HistoryInv
<1>2. /\ mem' = [mem EXCEPT ![d] = w] /\ disk' = [disk EXCEPT ![d] = w]
      /\ seen' = [seen EXCEPT ![d] = @ \cup {e.id}]
  BY DEF Save
<1> HIDE DEF w
<1>3. e.id \in Message
  BY DEF Entry
<1>4. /\ seen' \in [Device -> SUBSET Message] /\ SeenGrows
      /\ e.id \in seen'[d]
  BY <1>2, <1>3 DEF HistoryInv, SeenGrows
<1>5. s \in Seq(Entry) /\ Distinct(s) /\ Honest(s, d, seen')
  <2>1. /\ s \in Seq(Entry) /\ s[Len(mem[d]) + 1] = e
        /\ \A i \in DOMAIN mem[d] : s[i] = mem[d][i]
        /\ \A i \in DOMAIN s : i \in DOMAIN mem[d] \/ i = Len(mem[d]) + 1
    BY <1>1, AppendFacts
  <2> HIDE DEF s
  <2>2. Distinct(s)
    <3>1. Distinct(mem[d])
      BY DEF HistoryInv
    <3>2. ASSUME NEW i \in DOMAIN s, NEW j \in DOMAIN s, s[i].id = s[j].id PROVE i = j
      <4>1. CASE i \in DOMAIN mem[d] /\ j \in DOMAIN mem[d]
        BY <2>1, <3>1, <3>2, <4>1 DEF Distinct
      <4>2. CASE ~(i \in DOMAIN mem[d] /\ j \in DOMAIN mem[d])
        BY <2>1, <3>2, <4>2
      <4> QED
        BY <4>1, <4>2
    <3> QED
      BY <3>2 DEF Distinct
  <2>3. Honest(mem[d], d, seen')
    BY <1>1, <1>4, HonestGrows DEF HistoryInv
  <2>4. Honest(s, d, seen')
    BY <1>4, <2>1, <2>3 DEF Honest
  <2> QED
    BY <2>1, <2>2, <2>4
<1>6. w = At(s, Kept(s, d)) /\ Kept(s, d) \in SUBSET (DOMAIN s) /\ Len(w) <= MaxStored
  BY <1>5, WindowFacts DEF w, Stored
<1> HIDE DEF s
<1>7. w \in Seq(Entry) /\ Distinct(w) /\ Honest(w, d, seen')
  BY <1>5, <1>6, AtKeeps
<1>8. ASSUME NEW c \in Device
      PROVE  /\ Len(mem'[c]) <= MaxStored /\ Len(disk'[c]) <= MaxStored
             /\ Distinct(mem'[c]) /\ Distinct(disk'[c])
             /\ Honest(mem'[c], c, seen') /\ Honest(disk'[c], c, seen')
             /\ mem'[c] \in Seq(Entry) /\ disk'[c] \in Seq(Entry)
  <2>1. CASE c = d
    BY <1>2, <1>6, <1>7, <2>1 DEF HistoryInv
  <2>2. CASE c # d
    <3>1. mem'[c] = mem[c] /\ disk'[c] = disk[c] /\ mem[c] \in Seq(Entry) /\ disk[c] \in Seq(Entry)
      BY <1>2, <2>2 DEF HistoryInv
    <3>2. Honest(mem[c], c, seen') /\ Honest(disk[c], c, seen')
      BY <1>4, <3>1, HonestGrows DEF HistoryInv
    <3> QED
      BY <3>1, <3>2 DEF HistoryInv
  <2> QED
    BY <2>1, <2>2
<1>9. mem' \in [Device -> Seq(Entry)] /\ disk' \in [Device -> Seq(Entry)]
  BY <1>2, <1>7 DEF HistoryInv
<1>10. mem'[d] = disk'[d] /\ \A c \in Device \ {d} : mem'[c] = mem[c] /\ disk'[c] = disk[c]
  BY <1>2 DEF HistoryInv
<1> QED
  BY <1>4, <1>8, <1>9, <1>10 DEF HistoryInv

(* An engine whose history was just stored shows what is stored.             *)
LEMMA SaveShown ==
  ASSUME HistoryInv, Asleep, ShownIsStored, up \subseteq Device, NEW d \in up,
         mem'[d] = disk'[d],
         \A c \in Device \ {d} : mem'[c] = mem[c] /\ disk'[c] = disk[c],
         UNCHANGED <<up, view>>
  PROVE  Asleep' /\ ShownIsStored'
<1>1. Asleep'
  BY DEF Asleep
<1>2. ASSUME NEW c \in up', c \in Device
      PROVE  /\ Len(mem'[c]) = Len(disk'[c])
             /\ \A i \in DOMAIN mem'[c] :
                  mem'[c][i].id = disk'[c][i].id /\ disk'[c][i].receipts \subseteq mem'[c][i].receipts
  <2>1. CASE c = d
    BY <2>1
  <2>2. CASE c # d
    BY <1>2, <2>2 DEF ShownIsStored
  <2> QED
    BY <2>1, <2>2
<1> QED
  BY <1>1, <1>2 DEF ShownIsStored

-----------------------------------------------------------------------------
(* Packets on their way.                                                   *)

LEMMA DueFacts ==
  ASSUME NEW x, NEW s \in Seq(Entry), NEW w, NEW lately
  PROVE  Due(x, s, w, lately) \in Seq(Entry)
<1> DEFINE P == {i \in Unconfirmed(x, s, lately) :
                   /\ Place(Unconfirmed(x, s, lately), i) <= Batch
                   /\ Len(w) + Place(Unconfirmed(x, s, lately), i) <= Buffer}
<1>1. P \in SUBSET (DOMAIN s)
  BY DEF Unconfirmed
<1>2. Due(x, s, w, lately) = At(s, P)
  BY DEF Due
<1> HIDE DEF P
<1> QED
  BY <1>1, <1>2, AtSeq

Messages(es) == [i \in DOMAIN es |-> [kind |-> "message", id |-> es[i].id]]

LEMMA MessagesFacts ==
  ASSUME NEW es \in Seq(Entry)
  PROVE  /\ Messages(es) \in Seq(Packet) /\ Ids(es) \subseteq Message
         /\ \A i \in DOMAIN Messages(es) : Messages(es)[i].kind = "message"
<1>1. Len(es) \in Nat /\ DOMAIN es = 1..Len(es) /\ \A i \in 1..Len(es) : es[i] \in Entry
  OBVIOUS
<1>2. \A i \in 1..Len(es) : es[i].id \in Message
  BY <1>1 DEF Entry
<1>3. Messages(es) \in [1..Len(es) -> Packet]
  BY <1>1, <1>2 DEF Messages, Packet
<1>4. Messages(es) \in Seq(Packet)
  BY <1>1, <1>3
<1>5. \A i \in DOMAIN Messages(es) : Messages(es)[i].kind = "message"
  BY DEF Messages
<1> QED
  BY <1>1, <1>2, <1>4, <1>5 DEF Ids

(* What follows in a channel adds no receipt.                                *)
LEMMA SendingTrue ==
  ASSUME NEW a \in Seq(Packet), NEW b \in Seq(Packet), NEW S,
         \A i \in DOMAIN a : a[i].kind = "receipt" => a[i].id \in S,
         \A i \in DOMAIN b : b[i].kind = "receipt" => b[i].id \in S
  PROVE  /\ a \o b \in Seq(Packet)
         /\ \A i \in DOMAIN (a \o b) : (a \o b)[i].kind = "receipt" => (a \o b)[i].id \in S
<1> DEFINE u == a \o b
<1>1. u \in Seq(Packet)
  BY ConcatFacts
<1>2. DOMAIN u = 1..(Len(a) + Len(b))
  BY ConcatFacts
<1>3. \A i \in 1..Len(a) : u[i] = a[i]
  BY ConcatFacts
<1>4. ASSUME NEW i \in 1..Len(b) PROVE u[Len(a) + i] = b[i]
  BY ConcatFacts
<1>5. Len(a) \in Nat /\ Len(b) \in Nat /\ DOMAIN a = 1..Len(a) /\ DOMAIN b = 1..Len(b)
  OBVIOUS
<1> HIDE DEF u
<1>6. ASSUME NEW i \in DOMAIN u, u[i].kind = "receipt" PROVE u[i].id \in S
  <2>1. CASE i \in 1..Len(a)
    BY <1>3, <1>5, <1>6, <2>1
  <2>2. CASE i \notin 1..Len(a)
    <3>1. (i - Len(a)) \in 1..Len(b) /\ Len(a) + (i - Len(a)) = i
      BY <1>2, <1>5, <2>2
    <3>2. u[i] = b[i - Len(a)]
      BY <1>4, <3>1
    <3> QED
      BY <1>5, <1>6, <3>1, <3>2
  <2> QED
    BY <2>1, <2>2
<1> QED
  BY <1>1, <1>6 DEF u

LEMMA FlushKeeps ==
  ASSUME NEW ds, NEW l, NEW sn, NEW s \in [Device -> Seq(Entry)], NEW w \in [Pair -> Seq(Packet)],
         NEW lately \in [Pair -> SUBSET Message],
         TrueReceipts(w, sn), Flush(ds, s, l, w, lately)
  PROVE  /\ wire' \in [Pair -> Seq(Packet)] /\ sent' \in [Pair -> SUBSET Message]
         /\ TrueReceipts(wire', sn)
<1> DEFINE due(x) == IF x[1] \in ds /\ {x[1], x[2]} \in l
                     THEN Due(x, s[x[1]], w[x], lately[x]) ELSE <<>>
<1>1. ASSUME NEW x \in Pair PROVE due(x) \in Seq(Entry)
  <2>1. x[1] \in Device
    BY DEF Pair
  <2>2. s[x[1]] \in Seq(Entry)
    BY <2>1
  <2> QED
    BY <2>2, DueFacts
<1>2. /\ wire' = [x \in Pair |-> w[x] \o Messages(due(x))]
      /\ sent' = [x \in Pair |-> lately[x] \cup Ids(due(x))]
  BY DEF Flush, Messages
<1> HIDE DEF due
<1>3. ASSUME NEW x \in Pair
      PROVE  /\ w[x] \o Messages(due(x)) \in Seq(Packet)
             /\ Ids(due(x)) \subseteq Message
             /\ \A i \in DOMAIN (w[x] \o Messages(due(x))) :
                  (w[x] \o Messages(due(x)))[i].kind = "receipt"
                    => (w[x] \o Messages(due(x)))[i].id \in sn[x[1]]
  <2>1. /\ Messages(due(x)) \in Seq(Packet) /\ Ids(due(x)) \subseteq Message
        /\ \A i \in DOMAIN Messages(due(x)) : Messages(due(x))[i].kind = "message"
    BY <1>1, MessagesFacts
  <2>2. w[x] \in Seq(Packet) /\ \A i \in DOMAIN w[x] : w[x][i].kind = "receipt" => w[x][i].id \in sn[x[1]]
    BY DEF TrueReceipts
  <2>3. \A i \in DOMAIN Messages(due(x)) :
          Messages(due(x))[i].kind = "receipt" => Messages(due(x))[i].id \in sn[x[1]]
    BY <2>1
  <2> DEFINE b == Messages(due(x))
             a == w[x]
  <2> HIDE DEF a, b
  <2>4. /\ a \o b \in Seq(Packet)
        /\ \A i \in DOMAIN (a \o b) : (a \o b)[i].kind = "receipt" => (a \o b)[i].id \in sn[x[1]]
    <3>1. a \in Seq(Packet) /\ b \in Seq(Packet)
      BY <2>1, <2>2 DEF a, b
    <3>2. \A i \in DOMAIN a : a[i].kind = "receipt" => a[i].id \in sn[x[1]]
      BY <2>2 DEF a
    <3>3. \A i \in DOMAIN b : b[i].kind = "receipt" => b[i].id \in sn[x[1]]
      BY <2>3 DEF b
    <3> QED
      BY <3>1, <3>2, <3>3, SendingTrue
  <2> QED
    BY <2>1, <2>4 DEF a, b
<1>4. wire' \in [Pair -> Seq(Packet)]
  BY <1>2, <1>3
<1>5. sent' \in [Pair -> SUBSET Message]
  BY <1>2, <1>3
<1>6. TrueReceipts(wire', sn)
  BY <1>2, <1>3 DEF TrueReceipts
<1> QED
  BY <1>4, <1>5, <1>6

(* What a closed channel loses, and what is taken out of one.                *)
LEMMA DroppedKeeps ==
  ASSUME WireInv, NEW gone
  PROVE  /\ Dropped(wire, gone, <<>>) \in [Pair -> Seq(Packet)]
         /\ Dropped(sent, gone, {}) \in [Pair -> SUBSET Message]
         /\ TrueReceipts(Dropped(wire, gone, <<>>), seen)
<1>1. \A x \in Pair : Dropped(wire, gone, <<>>)[x] \in {<<>>, wire[x]}
  BY DEF Dropped
<1>2. <<>> \in Seq(Packet) /\ DOMAIN <<>> = {}
  OBVIOUS
<1>3. Dropped(wire, gone, <<>>) \in [Pair -> Seq(Packet)]
  BY DEF Dropped, WireInv
<1>4. Dropped(sent, gone, {}) \in [Pair -> SUBSET Message]
  BY DEF Dropped, WireInv
<1>5. TrueReceipts(Dropped(wire, gone, <<>>), seen)
  BY <1>1, <1>2 DEF TrueReceipts, WireInv
<1> QED
  BY <1>3, <1>4, <1>5

LEMMA HandledKeeps ==
  ASSUME WireInv, NEW d, NEW p, <<p, d>> \in Pair, Arrives(d, p)
  PROVE  /\ Received(d, p) \in Packet
         /\ Received(d, p).kind = "receipt" => Received(d, p).id \in seen[p]
         /\ Handled(d, p) \in [Pair -> Seq(Packet)]
         /\ TrueReceipts(Handled(d, p), seen)
<1> DEFINE w == wire[<<p, d>>]
<1>1. w \in Seq(Packet) /\ w # <<>>
  BY DEF WireInv, Arrives
<1> HIDE DEF w
<1>2. /\ Head(w) \in Packet /\ Head(w) = w[1] /\ 1 \in DOMAIN w
      /\ Tail(w) \in Seq(Packet)
      /\ \A i \in DOMAIN Tail(w) : i + 1 \in DOMAIN w /\ Tail(w)[i] = w[i + 1]
  BY <1>1
<1>3. \A i \in DOMAIN w : w[i].kind = "receipt" => w[i].id \in seen[p]
  BY DEF TrueReceipts, WireInv, w
<1>4. Handled(d, p) = [wire EXCEPT ![<<p, d>>] = Tail(w)]
  BY DEF Handled, w
<1>5. Handled(d, p) \in [Pair -> Seq(Packet)]
  BY <1>2, <1>4 DEF WireInv
<1>6. TrueReceipts(Handled(d, p), seen)
  <2>1. ASSUME NEW x \in Pair, NEW i \in DOMAIN Handled(d, p)[x],
               Handled(d, p)[x][i].kind = "receipt"
        PROVE  Handled(d, p)[x][i].id \in seen[x[1]]
    <3>1. CASE x = <<p, d>>
      <4>1. Handled(d, p)[x] = Tail(w) /\ x[1] = p
        BY <1>4, <3>1 DEF WireInv
      <4> QED
        BY <1>2, <1>3, <2>1, <4>1
    <3>2. CASE x # <<p, d>>
      <4>1. Handled(d, p)[x] = wire[x]
        BY <1>4, <3>2 DEF WireInv
      <4> QED
        BY <2>1, <4>1 DEF TrueReceipts, WireInv
    <3> QED
      BY <3>1, <3>2
  <2> QED
    BY <2>1 DEF TrueReceipts
<1>7. Received(d, p) = Head(w)
  BY DEF Received, w
<1> QED
  BY <1>2, <1>3, <1>5, <1>6, <1>7

(* A confirmation is a receipt for a message its sender did store.           *)
LEMMA ConfirmedKeeps ==
  ASSUME WireInv, NEW d \in Device, NEW p \in Device, d # p, Arrives(d, p),
         NEW sn, TrueReceipts(Handled(d, p), sn), Received(d, p).id \in sn[d]
  PROVE  /\ Confirmed(d, p) \in [Pair -> Seq(Packet)]
         /\ TrueReceipts(Confirmed(d, p), sn)
<1> DEFINE h == Handled(d, p)
           r == [kind |-> "receipt", id |-> Received(d, p).id]
<1>1. <<d, p>> \in Pair /\ <<p, d>> \in Pair
  BY DEF Pair
<1>2. h \in [Pair -> Seq(Packet)] /\ r \in Packet
  <2>1. Received(d, p) \in Packet /\ h \in [Pair -> Seq(Packet)]
    BY <1>1, HandledKeeps
  <2> QED
    BY <2>1 DEF Packet
<1>3. Confirmed(d, p) = [h EXCEPT ![<<d, p>>] = Append(@, r)]
  BY DEF Confirmed
<1> HIDE DEF h, r
<1>4. h[<<d, p>>] \in Seq(Packet)
  BY <1>1, <1>2
<1> DEFINE a == h[<<d, p>>]
           u == Append(a, r)
<1>5. /\ u \in Seq(Packet) /\ u[Len(a) + 1] = r
      /\ \A i \in DOMAIN a : i \in DOMAIN u /\ u[i] = a[i]
      /\ \A i \in DOMAIN u : i \in DOMAIN a \/ i = Len(a) + 1
  BY <1>2, <1>4, AppendFacts
<1> HIDE DEF u
<1>6. Confirmed(d, p) = [h EXCEPT ![<<d, p>>] = u]
  BY <1>3 DEF u
<1>7. Confirmed(d, p) \in [Pair -> Seq(Packet)]
  BY <1>1, <1>2, <1>5, <1>6
<1>8. ASSUME NEW x \in Pair, NEW i \in DOMAIN Confirmed(d, p)[x],
             Confirmed(d, p)[x][i].kind = "receipt"
      PROVE  Confirmed(d, p)[x][i].id \in sn[x[1]]
  <2>1. CASE x = <<d, p>>
    <3>1. Confirmed(d, p)[x] = u /\ x[1] = d
      BY <1>2, <1>6, <2>1
    <3>2. CASE i \in DOMAIN a
      <4>1. a[i].kind = "receipt" => a[i].id \in sn[d]
        BY <1>1, <3>2 DEF TrueReceipts, h
      <4> QED
        BY <1>5, <1>8, <3>1, <3>2, <4>1
    <3>3. CASE i = Len(a) + 1
      BY <1>5, <3>1, <3>3 DEF r
    <3> QED
      BY <1>5, <1>8, <3>1, <3>2, <3>3
  <2>2. CASE x # <<d, p>>
    <3>1. Confirmed(d, p)[x] = h[x]
      BY <1>2, <1>6, <2>2
    <3> QED
      BY <1>8, <3>1 DEF TrueReceipts, h
  <2> QED
    BY <2>1, <2>2
<1> QED
  BY <1>7, <1>8 DEF TrueReceipts

-----------------------------------------------------------------------------
(* Every step keeps the invariant.                                         *)

LEMMA DeliveryStart == Init => DeliveryInv
<1> SUFFICES ASSUME Init PROVE DeliveryInv
  OBVIOUS
<1> USE DEF Init
<1>1. RoomTypes /\ Asleep
  BY Limits, WindowAssumption DEF RoomTypes, Asleep, WindowAssumption
<1>2. HistoryInv
  <2>1. <<>> \in Seq(Entry) /\ Len(<<>>) = 0 /\ DOMAIN <<>> = {}
    OBVIOUS
  <2>2. Len(<<>>) <= MaxStored
    BY <2>1, Limits
  <2> QED
    BY <2>1, <2>2 DEF HistoryInv, Distinct, Honest
<1>3. WireInv
  <2>1. <<>> \in Seq(Packet) /\ DOMAIN <<>> = {}
    OBVIOUS
  <2> QED
    BY <2>1 DEF WireInv, TrueReceipts
<1>4. ShownIsStored
  BY DEF ShownIsStored
<1> QED
  BY <1>1, <1>2, <1>3, <1>4 DEF DeliveryInv

LEMMA SendKeeps ==
  ASSUME DeliveryInv, NEW m \in Message, Send(m)
  PROVE  DeliveryInv'
<1> DEFINE d == Author[m]
           e == [id |-> m, targets |-> view[d] \ {d}, receipts |-> {}]
<1>0. RoomTypes /\ HistoryInv /\ WireInv /\ Asleep /\ ShownIsStored
  BY DEF DeliveryInv
<1>1. d \in Device
  BY AuthorAssumption DEF AuthorAssumption
<1>2. /\ d \in up /\ m \notin seen[d] /\ Save(d, e)
      /\ Flush({d}, mem', link, wire, sent) /\ UNCHANGED <<room, view, up, link, faults>>
  BY DEF Send
<1>3. e \in Entry /\ e.receipts = {} /\ e.id = m
  BY <1>0, <1>1 DEF Entry, RoomTypes
<1>4. \A i \in DOMAIN mem[d] : mem[d][i].id # m
  BY <1>0, <1>1, <1>2 DEF HistoryInv, Honest
<1> HIDE DEF d, e
<1>5. /\ HistoryInv' /\ SeenGrows /\ mem'[d] = disk'[d]
      /\ \A c \in Device \ {d} : mem'[c] = mem[c] /\ disk'[c] = disk[c]
  BY <1>0, <1>1, <1>2, <1>3, <1>4, SaveKeeps
<1>6. Asleep' /\ ShownIsStored'
  BY <1>0, <1>2, <1>5, SaveShown DEF RoomTypes
<1>7. WireInv'
  <2>1. TrueReceipts(wire, seen')
    BY <1>0, <1>5, ReceiptsGrow DEF WireInv
  <2>2. mem' \in [Device -> Seq(Entry)] /\ wire \in [Pair -> Seq(Packet)]
        /\ sent \in [Pair -> SUBSET Message]
    BY <1>0, <1>5 DEF HistoryInv, WireInv
  <2>3. /\ wire' \in [Pair -> Seq(Packet)] /\ sent' \in [Pair -> SUBSET Message]
        /\ TrueReceipts(wire', seen')
    BY <1>2, <2>1, <2>2, FlushKeeps
  <2> QED
    BY <2>3 DEF WireInv
<1>8. RoomTypes'
  BY <1>0, <1>2 DEF RoomTypes
<1> QED
  BY <1>5, <1>6, <1>7, <1>8 DEF DeliveryInv

(* Histories left alone keep what is known of them.                          *)
LEMMA HistoriesStay ==
  ASSUME DeliveryInv, UNCHANGED <<mem, disk, seen>>
  PROVE  HistoryInv'
BY DEF DeliveryInv, HistoryInv

LEMMA PollKeeps ==
  ASSUME DeliveryInv, NEW d \in Device, Poll(d)
  PROVE  DeliveryInv'
<1> DEFINE now == IF d \in room THEN room ELSE {}
           gone == {l \in link : d \in l /\ ~ l \subseteq now}
<1>0. RoomTypes /\ HistoryInv /\ WireInv /\ Asleep /\ ShownIsStored
  BY DEF DeliveryInv
<1>1. /\ d \in up /\ view' = [view EXCEPT ![d] = now] /\ link' = link \ gone
      /\ Flush({d}, mem, link', Dropped(wire, gone, <<>>), Dropped(sent, gone, {}))
      /\ UNCHANGED <<room, up, mem, disk, seen, faults>>
  BY DEF Poll
<1>2. RoomTypes'
  BY <1>0, <1>1 DEF RoomTypes
<1>3. HistoryInv'
  BY <1>1, HistoriesStay
<1> HIDE DEF gone
<1>4. WireInv'
  <2>1. /\ Dropped(wire, gone, <<>>) \in [Pair -> Seq(Packet)]
        /\ Dropped(sent, gone, {}) \in [Pair -> SUBSET Message]
        /\ TrueReceipts(Dropped(wire, gone, <<>>), seen)
    BY <1>0, DroppedKeeps
  <2>2. mem \in [Device -> Seq(Entry)]
    BY <1>0 DEF HistoryInv
  <2>3. /\ wire' \in [Pair -> Seq(Packet)] /\ sent' \in [Pair -> SUBSET Message]
        /\ TrueReceipts(wire', seen)
    BY <1>1, <2>1, <2>2, FlushKeeps
  <2> QED
    BY <1>1, <2>3 DEF WireInv
<1>5. Asleep' /\ ShownIsStored'
  BY <1>0, <1>1 DEF Asleep, ShownIsStored, RoomTypes
<1> QED
  BY <1>2, <1>3, <1>4, <1>5 DEF DeliveryInv

LEMMA ConnectKeeps ==
  ASSUME DeliveryInv, NEW x \in Pair, Connect(x[1], x[2])
  PROVE  DeliveryInv'
<1>0. RoomTypes /\ HistoryInv /\ WireInv /\ Asleep /\ ShownIsStored
  BY DEF DeliveryInv
<1>1. /\ link' = link \cup {{x[1], x[2]}} /\ Flush({x[1], x[2]}, mem, link', wire, sent)
      /\ UNCHANGED <<room, view, up, mem, disk, seen, faults>>
  BY DEF Connect
<1>2. RoomTypes'
  BY <1>0, <1>1 DEF RoomTypes
<1>3. WireInv'
  <2>1. mem \in [Device -> Seq(Entry)]
    BY <1>0 DEF HistoryInv
  <2>2. /\ wire' \in [Pair -> Seq(Packet)] /\ sent' \in [Pair -> SUBSET Message]
        /\ TrueReceipts(wire', seen)
    BY <1>0, <1>1, <2>1, FlushKeeps DEF WireInv
  <2> QED
    BY <1>1, <2>2 DEF WireInv
<1> QED
  BY <1>0, <1>1, <1>2, <1>3, HistoriesStay DEF DeliveryInv, Asleep, ShownIsStored

LEMMA TakeMessageKeeps ==
  ASSUME DeliveryInv, NEW d \in Device, NEW p \in Device, d # p, TakeMessage(d, p)
  PROVE  DeliveryInv'
<1> DEFINE m == Received(d, p).id
           e == [id |-> m, targets |-> {}, receipts |-> {}]
<1>0. RoomTypes /\ HistoryInv /\ WireInv /\ Asleep /\ ShownIsStored
  BY DEF DeliveryInv
<1>1. /\ Arrives(d, p) /\ wire' = Confirmed(d, p) /\ UNCHANGED <<room, view, up, link, sent, faults>>
      /\ IF Held(d, m) THEN UNCHANGED <<mem, disk, seen>> ELSE Save(d, e)
  BY DEF TakeMessage
<1>2. <<p, d>> \in Pair
  BY DEF Pair
<1>3. Received(d, p) \in Packet /\ TrueReceipts(Handled(d, p), seen)
  BY <1>0, <1>1, <1>2, HandledKeeps
<1>4. m \in Message
  BY <1>3 DEF Packet
<1>5. d \in up
  BY <1>0, <1>1 DEF Arrives, Asleep
<1> HIDE DEF m
<1>6. HistoryInv' /\ SeenGrows /\ Asleep' /\ ShownIsStored' /\ m \in seen'[d]
  <2>1. CASE Held(d, m)
    <3>1. m \in seen[d]
      BY <1>0, <2>1 DEF Held, Ids, HistoryInv, Honest
    <3> QED
      BY <1>0, <1>1, <2>1, <3>1, HistoriesStay DEF SeenGrows, Asleep, ShownIsStored
  <2>2. CASE ~Held(d, m)
    <3>1. e \in Entry /\ e.receipts = {} /\ e.id = m
      BY <1>4 DEF Entry
    <3>2. \A i \in DOMAIN mem[d] : mem[d][i].id # m
      BY <2>2 DEF Held, Ids
    <3> HIDE DEF e
    <3>3. /\ HistoryInv' /\ SeenGrows /\ mem'[d] = disk'[d]
          /\ \A c \in Device \ {d} : mem'[c] = mem[c] /\ disk'[c] = disk[c]
          /\ m \in seen'[d]
      BY <1>0, <1>1, <2>2, <3>1, <3>2, SaveKeeps
    <3>4. Asleep' /\ ShownIsStored'
      BY <1>0, <1>1, <1>5, <3>3, SaveShown DEF RoomTypes
    <3> QED
      BY <3>3, <3>4
  <2> QED
    BY <2>1, <2>2
<1>7. TrueReceipts(Handled(d, p), seen')
  BY <1>3, <1>6, ReceiptsGrow
<1>8. Confirmed(d, p) \in [Pair -> Seq(Packet)] /\ TrueReceipts(Confirmed(d, p), seen')
  <2>1. Received(d, p).id \in seen'[d]
    BY <1>6 DEF m
  <2> QED
    BY <1>0, <1>1, <1>7, <2>1, ConfirmedKeeps
<1>9. WireInv'
  BY <1>0, <1>1, <1>8 DEF WireInv
<1>10. RoomTypes'
  BY <1>0, <1>1 DEF RoomTypes
<1> QED
  BY <1>6, <1>9, <1>10 DEF DeliveryInv

LEMMA RefuseKeeps ==
  ASSUME DeliveryInv, NEW d \in Device, NEW p \in Device, d # p, Refuse(d, p)
  PROVE  DeliveryInv'
<1>0. RoomTypes /\ HistoryInv /\ WireInv /\ Asleep /\ ShownIsStored
  BY DEF DeliveryInv
<1>1. /\ Arrives(d, p) /\ wire' = Handled(d, p) /\ Fault
      /\ UNCHANGED <<room, view, up, mem, disk, link, sent, seen>>
  BY DEF Refuse
<1>2. <<p, d>> \in Pair
  BY DEF Pair
<1>3. Handled(d, p) \in [Pair -> Seq(Packet)] /\ TrueReceipts(Handled(d, p), seen)
  BY <1>0, <1>1, <1>2, HandledKeeps
<1>4. WireInv'
  BY <1>0, <1>1, <1>3 DEF WireInv
<1>5. faults' \in 0..MaxFaults
  BY <1>0, <1>1, WindowAssumption DEF Fault, RoomTypes, WindowAssumption
<1> QED
  BY <1>0, <1>1, <1>4, <1>5, HistoriesStay DEF DeliveryInv, Asleep, ShownIsStored, RoomTypes

(* A receipt is noted at its message, and nothing else of a history changes. *)
Recorded(s, d, p, m) ==
  [i \in DOMAIN s |-> IF s[i].id = m /\ Author[m] = d /\ p \in s[i].targets
                      THEN [s[i] EXCEPT !.receipts = @ \cup {p}] ELSE s[i]]

(* Noted as the receipt of p for m in s, and otherwise what it was.          *)
Noted(r, s, p, m) ==
  /\ r \in Seq(Entry) /\ Len(r) = Len(s) /\ DOMAIN r = DOMAIN s
  /\ \A i \in DOMAIN s :
       /\ r[i].id = s[i].id /\ r[i].targets = s[i].targets
       /\ s[i].receipts \subseteq r[i].receipts
       /\ \A t \in r[i].receipts :
            t \in s[i].receipts \/ (t = p /\ s[i].id = m /\ p \in s[i].targets)

LEMMA RecordedFacts ==
  ASSUME NEW s \in Seq(Entry), NEW d, NEW p \in Device, NEW m
  PROVE  Noted(Recorded(s, d, p, m), s, p, m)
<1> DEFINE r == Recorded(s, d, p, m)
<1>1. DOMAIN r = DOMAIN s /\ DOMAIN s = 1..Len(s) /\ Len(s) \in Nat
  BY DEF Recorded
<1>2. ASSUME NEW i \in DOMAIN s
      PROVE  /\ r[i] \in Entry /\ r[i].id = s[i].id /\ r[i].targets = s[i].targets
             /\ s[i].receipts \subseteq r[i].receipts
             /\ \A t \in r[i].receipts :
                  t \in s[i].receipts \/ (t = p /\ s[i].id = m /\ p \in s[i].targets)
  <2>1. s[i] \in Entry
    OBVIOUS
  <2>2. CASE s[i].id = m /\ Author[m] = d /\ p \in s[i].targets
    <3>1. r[i] = [s[i] EXCEPT !.receipts = @ \cup {p}]
      BY <2>2 DEF Recorded
    <3> HIDE DEF r
    <3> QED
      BY <2>1, <2>2, <3>1 DEF Entry
  <2>3. CASE ~(s[i].id = m /\ Author[m] = d /\ p \in s[i].targets)
    <3>1. r[i] = s[i]
      BY <2>3 DEF Recorded
    <3> HIDE DEF r
    <3> QED
      BY <2>1, <3>1
  <2> QED
    BY <2>2, <2>3
<1>3. r \in Seq(Entry) /\ Len(r) = Len(s)
  <2>1. r \in [1..Len(s) -> Entry]
    BY <1>1, <1>2 DEF Recorded
  <2> HIDE DEF r
  <2> QED
    BY <1>1, <2>1
<1> HIDE DEF r
<1>4. Noted(r, s, p, m)
  BY <1>1, <1>2, <1>3 DEF Noted
<1> QED
  BY <1>4 DEF r

LEMMA TakeReceiptKeeps ==
  ASSUME DeliveryInv, NEW d \in Device, NEW p \in Device, d # p, TakeReceipt(d, p)
  PROVE  DeliveryInv'
<1> DEFINE m == Received(d, p).id
           r == Recorded(mem[d], d, p, m)
<1>0. RoomTypes /\ HistoryInv /\ WireInv /\ Asleep /\ ShownIsStored
  BY DEF DeliveryInv
<1>1. /\ Arrives(d, p) /\ Received(d, p).kind = "receipt"
      /\ mem' = [mem EXCEPT ![d] = r] /\ wire' = Handled(d, p)
      /\ UNCHANGED <<room, view, up, disk, link, sent, seen, faults>>
  BY DEF TakeReceipt, Recorded
<1>2. <<p, d>> \in Pair
  BY DEF Pair
<1>3. /\ Handled(d, p) \in [Pair -> Seq(Packet)] /\ TrueReceipts(Handled(d, p), seen)
      /\ m \in seen[p]
  BY <1>0, <1>1, <1>2, HandledKeeps
<1>4. WireInv'
  BY <1>0, <1>1, <1>3 DEF WireInv
<1>5. d \in up
  BY <1>0, <1>1 DEF Arrives, Asleep
<1>6. mem[d] \in Seq(Entry)
  BY <1>0 DEF HistoryInv
<1> HIDE DEF m
<1>7. Noted(r, mem[d], p, m)
  BY <1>6, RecordedFacts
<1> HIDE DEF r
<1>8. Distinct(r) /\ Honest(r, d, seen)
  <2>1. Distinct(mem[d]) /\ Honest(mem[d], d, seen)
    BY <1>0 DEF HistoryInv
  <2>2. Distinct(r)
    BY <1>7, <2>1 DEF Distinct, Noted
  <2>3. ASSUME NEW i \in DOMAIN r
        PROVE  /\ r[i].id \in seen[d]
               /\ \A t \in r[i].receipts : t \in r[i].targets /\ r[i].id \in seen[t]
    BY <1>3, <1>7, <2>1 DEF Honest, Noted
  <2> QED
    BY <2>2, <2>3 DEF Honest
<1>9. /\ mem'[d] = r /\ \A c \in Device \ {d} : mem'[c] = mem[c]
      /\ mem' \in [Device -> Seq(Entry)]
  BY <1>0, <1>1, <1>7 DEF HistoryInv, Noted
<1>10. HistoryInv'
  <2>1. ASSUME NEW c \in Device
        PROVE  Len(mem'[c]) <= MaxStored /\ Distinct(mem'[c]) /\ Honest(mem'[c], c, seen)
    <3>1. CASE c = d
      BY <1>0, <1>7, <1>8, <1>9, <3>1 DEF HistoryInv, Noted
    <3>2. CASE c # d
      BY <1>0, <1>9, <3>2 DEF HistoryInv
    <3> QED
      BY <3>1, <3>2
  <2> QED
    BY <1>0, <1>1, <1>9, <2>1 DEF HistoryInv
<1>11. Asleep'
  BY <1>0, <1>1, <1>5, <1>9 DEF Asleep
<1>12. ShownIsStored'
  <2>1. ASSUME NEW c \in up
        PROVE  /\ Len(mem'[c]) = Len(disk[c])
               /\ \A i \in DOMAIN mem'[c] :
                    mem'[c][i].id = disk[c][i].id /\ disk[c][i].receipts \subseteq mem'[c][i].receipts
    <3>0. c \in Device
      BY <1>0 DEF RoomTypes
    <3>1. CASE c = d
      BY <1>0, <1>7, <1>9, <3>1 DEF ShownIsStored, Noted
    <3>2. CASE c # d
      BY <1>0, <1>9, <3>0, <3>2 DEF ShownIsStored
    <3> QED
      BY <3>1, <3>2
  <2> QED
    BY <1>1, <2>1 DEF ShownIsStored
<1>13. RoomTypes'
  BY <1>0, <1>1 DEF RoomTypes
<1> QED
  BY <1>4, <1>10, <1>11, <1>12, <1>13 DEF DeliveryInv
LEMMA WriteReceiptsKeeps ==
  ASSUME DeliveryInv, NEW d \in Device, WriteReceipts(d)
  PROVE  DeliveryInv'
<1>0. RoomTypes /\ HistoryInv /\ WireInv /\ Asleep /\ ShownIsStored
  BY DEF DeliveryInv
<1>1. /\ d \in up /\ disk' = [disk EXCEPT ![d] = mem[d]]
      /\ UNCHANGED <<room, view, up, mem, link, wire, sent, seen, faults>>
  BY DEF WriteReceipts
<1>2. /\ disk'[d] = mem[d] /\ \A c \in Device \ {d} : disk'[c] = disk[c]
      /\ disk' \in [Device -> Seq(Entry)]
  BY <1>0, <1>1 DEF HistoryInv
<1>3. HistoryInv'
  <2>1. ASSUME NEW c \in Device
        PROVE  Len(disk'[c]) <= MaxStored /\ Distinct(disk'[c]) /\ Honest(disk'[c], c, seen)
    <3>1. CASE c = d
      BY <1>0, <1>2, <3>1 DEF HistoryInv
    <3>2. CASE c # d
      BY <1>0, <1>2, <3>2 DEF HistoryInv
    <3> QED
      BY <3>1, <3>2
  <2> QED
    BY <1>0, <1>1, <1>2, <2>1 DEF HistoryInv
<1>4. ShownIsStored'
  <2>1. ASSUME NEW c \in up
        PROVE  /\ Len(mem[c]) = Len(disk'[c])
               /\ \A i \in DOMAIN mem[c] :
                    mem[c][i].id = disk'[c][i].id /\ disk'[c][i].receipts \subseteq mem[c][i].receipts
    <3>0. c \in Device
      BY <1>0 DEF RoomTypes
    <3>1. CASE c = d
      BY <1>2, <3>1
    <3>2. CASE c # d
      BY <1>0, <1>2, <3>0, <3>2 DEF ShownIsStored
    <3> QED
      BY <3>1, <3>2
  <2> QED
    BY <1>1, <2>1 DEF ShownIsStored
<1>5. RoomTypes' /\ WireInv' /\ Asleep'
  BY <1>0, <1>1 DEF RoomTypes, WireInv, Asleep
<1> QED
  BY <1>3, <1>4, <1>5 DEF DeliveryInv

LEMMA FaultCounted ==
  ASSUME RoomTypes, Fault
  PROVE  faults' \in 0..MaxFaults
BY WindowAssumption DEF Fault, RoomTypes, WindowAssumption

LEMMA CutKeeps ==
  ASSUME DeliveryInv, NEW l, Cut(l)
  PROVE  DeliveryInv'
<1>0. RoomTypes /\ HistoryInv /\ WireInv /\ Asleep /\ ShownIsStored
  BY DEF DeliveryInv
<1>1. /\ link' = link \ {l} /\ wire' = Dropped(wire, {l}, <<>>) /\ sent' = Dropped(sent, {l}, {})
      /\ UNCHANGED <<room, view, up, mem, disk, seen>>
  BY DEF Cut, Close
<1>2. faults' \in 0..MaxFaults
  BY <1>0, FaultCounted DEF Cut
<1>3. RoomTypes'
  BY <1>0, <1>1, <1>2 DEF RoomTypes
<1>4. WireInv'
  BY <1>0, <1>1, DroppedKeeps DEF WireInv
<1> QED
  BY <1>0, <1>1, <1>3, <1>4, HistoriesStay DEF DeliveryInv, Asleep, ShownIsStored

(* An engine that starts shows what is stored, one that dies nothing.        *)
LEMMA CrashKeeps ==
  ASSUME DeliveryInv, NEW d \in Device, Crash(d)
  PROVE  DeliveryInv'
<1> DEFINE gone == {l \in link : d \in l}
<1>0. RoomTypes /\ HistoryInv /\ WireInv /\ Asleep /\ ShownIsStored
  BY DEF DeliveryInv
<1>1. /\ up' = up \ {d} /\ link' = link \ gone
      /\ wire' = Dropped(wire, gone, <<>>) /\ sent' = Dropped(sent, gone, {})
      /\ view' = [view EXCEPT ![d] = {}] /\ mem' = [mem EXCEPT ![d] = <<>>]
      /\ UNCHANGED <<room, disk, seen>>
  BY DEF Crash, Close
<1> HIDE DEF gone
<1>2. faults' \in 0..MaxFaults
  BY <1>0, FaultCounted DEF Crash
<1>3. RoomTypes'
  BY <1>0, <1>1, <1>2 DEF RoomTypes
<1>4. WireInv'
  BY <1>0, <1>1, DroppedKeeps DEF WireInv
<1>5. <<>> \in Seq(Entry) /\ Len(<<>>) = 0 /\ DOMAIN <<>> = {}
  OBVIOUS
<1>6. /\ mem'[d] = <<>> /\ \A c \in Device \ {d} : mem'[c] = mem[c]
      /\ mem' \in [Device -> Seq(Entry)]
  BY <1>0, <1>1, <1>5 DEF HistoryInv
<1>7. HistoryInv'
  <2>1. ASSUME NEW c \in Device
        PROVE  Len(mem'[c]) <= MaxStored /\ Distinct(mem'[c]) /\ Honest(mem'[c], c, seen)
    <3>1. CASE c = d
      <4>1. Len(<<>>) <= MaxStored
        BY <1>5, Limits
      <4>2. Distinct(<<>>) /\ Honest(<<>>, c, seen)
        BY <1>5 DEF Distinct, Honest
      <4> QED
        BY <1>6, <3>1, <4>1, <4>2
    <3>2. CASE c # d
      BY <1>0, <1>6, <3>2 DEF HistoryInv
    <3> QED
      BY <3>1, <3>2
  <2> QED
    BY <1>0, <1>1, <1>6, <2>1 DEF HistoryInv
<1>8. Asleep'
  <2>1. view'[d] = {} /\ \A c \in Device \ {d} : view'[c] = view[c]
    BY <1>0, <1>1 DEF RoomTypes
  <2> QED
    BY <1>0, <1>1, <1>6, <2>1 DEF Asleep
<1>9. ShownIsStored'
  <2>1. \A c \in up' : c \in up /\ mem'[c] = mem[c]
    BY <1>0, <1>1, <1>6 DEF RoomTypes
  <2> QED
    BY <1>0, <1>1, <2>1 DEF ShownIsStored
<1> QED
  BY <1>3, <1>4, <1>7, <1>8, <1>9 DEF DeliveryInv

LEMMA RestartKeeps ==
  ASSUME DeliveryInv, NEW d \in Device, Restart(d)
  PROVE  DeliveryInv'
<1>0. RoomTypes /\ HistoryInv /\ WireInv /\ Asleep /\ ShownIsStored
  BY DEF DeliveryInv
<1>1. /\ up' = up \cup {d} /\ mem' = [mem EXCEPT ![d] = disk[d]]
      /\ UNCHANGED <<room, view, disk, link, wire, sent, seen, faults>>
  BY DEF Restart
<1>2. /\ mem'[d] = disk[d] /\ \A c \in Device \ {d} : mem'[c] = mem[c]
      /\ mem' \in [Device -> Seq(Entry)]
  BY <1>0, <1>1 DEF HistoryInv
<1>3. HistoryInv'
  <2>1. ASSUME NEW c \in Device
        PROVE  Len(mem'[c]) <= MaxStored /\ Distinct(mem'[c]) /\ Honest(mem'[c], c, seen)
    <3>1. CASE c = d
      BY <1>0, <1>2, <3>1 DEF HistoryInv
    <3>2. CASE c # d
      BY <1>0, <1>2, <3>2 DEF HistoryInv
    <3> QED
      BY <3>1, <3>2
  <2> QED
    BY <1>0, <1>1, <1>2, <2>1 DEF HistoryInv
<1>4. ShownIsStored'
  <2>1. ASSUME NEW c \in up'
        PROVE  /\ Len(mem'[c]) = Len(disk[c])
               /\ \A i \in DOMAIN mem'[c] :
                    mem'[c][i].id = disk[c][i].id /\ disk[c][i].receipts \subseteq mem'[c][i].receipts
    <3>0. c \in Device /\ (c = d \/ c \in up)
      BY <1>0, <1>1 DEF RoomTypes
    <3>1. CASE c = d
      BY <1>2, <3>1
    <3>2. CASE c # d
      BY <1>0, <1>2, <3>0, <3>2 DEF ShownIsStored
    <3> QED
      BY <3>1, <3>2
  <2> QED
    BY <1>1, <2>1 DEF ShownIsStored
<1>5. RoomTypes' /\ WireInv'
  BY <1>0, <1>1 DEF RoomTypes, WireInv
<1>6. Asleep'
  BY <1>0, <1>1, <1>2 DEF Asleep
<1> QED
  BY <1>3, <1>4, <1>5, <1>6 DEF DeliveryInv

LEMMA ExpireKeeps ==
  ASSUME DeliveryInv, NEW x \in Pair, Expire(x[1], x[2])
  PROVE  DeliveryInv'
<1>0. RoomTypes /\ HistoryInv /\ WireInv /\ Asleep /\ ShownIsStored
  BY DEF DeliveryInv
<1>1. /\ sent' = [sent EXCEPT ![<<x[1], x[2]>>] = {}]
      /\ UNCHANGED <<room, view, up, mem, disk, link, wire, seen>>
      /\ UNCHANGED faults \/ Fault
  BY DEF Expire
<1>2. faults' \in 0..MaxFaults
  BY <1>0, <1>1, FaultCounted DEF RoomTypes
<1>3. RoomTypes'
  BY <1>0, <1>1, <1>2 DEF RoomTypes
<1>4. WireInv'
  BY <1>0, <1>1 DEF WireInv
<1> QED
  BY <1>0, <1>1, <1>3, <1>4, HistoriesStay DEF DeliveryInv, Asleep, ShownIsStored

LEMMA ComingsKeep ==
  ASSUME DeliveryInv, NEW d \in Device, Leave(d) \/ Join(d)
  PROVE  DeliveryInv'
<1>0. RoomTypes /\ HistoryInv /\ WireInv /\ Asleep /\ ShownIsStored
  BY DEF DeliveryInv
<1>1. /\ Fault /\ room' \subseteq Device
      /\ UNCHANGED <<view, up, mem, disk, link, wire, sent, seen>>
  BY <1>0 DEF Leave, Join, RoomTypes
<1>2. faults' \in 0..MaxFaults
  BY <1>0, <1>1, FaultCounted
<1>3. RoomTypes' /\ WireInv'
  BY <1>0, <1>1, <1>2 DEF RoomTypes, WireInv
<1> QED
  BY <1>0, <1>1, <1>3, HistoriesStay DEF DeliveryInv, Asleep, ShownIsStored

LEMMA DeliveryStep ==
  ASSUME DeliveryInv, [Next]_vars
  PROVE  DeliveryInv'
<1>1. CASE \E m \in Message : Send(m)
  BY <1>1, SendKeeps
<1>2. CASE \E d \in Device : Poll(d)
  BY <1>2, PollKeeps
<1>3. CASE \E d \in Device : WriteReceipts(d)
  BY <1>3, WriteReceiptsKeeps
<1>4. CASE \E d \in Device : Crash(d)
  BY <1>4, CrashKeeps
<1>5. CASE \E d \in Device : Restart(d)
  BY <1>5, RestartKeeps
<1>6. CASE \E d \in Device : Leave(d) \/ Join(d)
  BY <1>6, ComingsKeep
<1>7. CASE \E x \in Pair : Handle(x[1], x[2]) \/ Refuse(x[1], x[2])
  <2>1. PICK x \in Pair : Handle(x[1], x[2]) \/ Refuse(x[1], x[2])
    BY <1>7
  <2>2. x[1] \in Device /\ x[2] \in Device /\ x[1] # x[2]
    BY DEF Pair
  <2> QED
    BY <2>1, <2>2, TakeMessageKeeps, TakeReceiptKeeps, RefuseKeeps DEF Handle
<1>8. CASE \E x \in Pair : Connect(x[1], x[2])
  BY <1>8, ConnectKeeps
<1>9. CASE \E x \in Pair : Expire(x[1], x[2])
  BY <1>9, ExpireKeeps
<1>10. CASE \E l \in link : Cut(l)
  BY <1>10, CutKeeps
<1>11. CASE UNCHANGED vars
  BY <1>11, HistoriesStay
     DEF vars, DeliveryInv, RoomTypes, WireInv, Asleep, ShownIsStored
<1> QED
  BY <1>1, <1>2, <1>3, <1>4, <1>5, <1>6, <1>7, <1>8, <1>9, <1>10, <1>11 DEF Next

LEMMA DeliveryHolds == Spec => []DeliveryInv
<1>1. Init => DeliveryInv
  BY DeliveryStart
<1>2. DeliveryInv /\ [Next]_vars => DeliveryInv'
  BY DeliveryStep
<1> QED
  BY <1>1, <1>2, PTL DEF Spec

(* No history holds a message twice, what an engine shows is on its disk,    *)
(* and every receipt in a history names a device that stored the message     *)
(* (connectChannel: a message is stored before it is confirmed).             *)
THEOREM MessagesAreSound == Spec => []MessagesSound
<1>1. ASSUME DeliveryInv PROVE MessagesSound
  <2>0. RoomTypes /\ HistoryInv /\ WireInv /\ ShownIsStored
    BY <1>1 DEF DeliveryInv
  <2>1. TypeOK
    BY <2>0 DEF TypeOK, RoomTypes, HistoryInv, WireInv
  <2>2. NoDuplicates
    BY <2>0 DEF NoDuplicates, HistoryInv, Distinct
  <2>3. ReceiptsAreTrue
    <3>1. ASSUME NEW d \in Device, NEW e \in Range(mem[d]) \cup Range(disk[d]), NEW t \in e.receipts
          PROVE  t \in e.targets /\ e.id \in seen[t]
      <4>1. Honest(mem[d], d, seen) /\ Honest(disk[d], d, seen)
        BY <2>0 DEF HistoryInv
      <4>2. \/ \E i \in DOMAIN mem[d] : e = mem[d][i]
            \/ \E i \in DOMAIN disk[d] : e = disk[d][i]
        BY DEF Range
      <4> QED
        BY <3>1, <4>1, <4>2 DEF Honest
    <3> QED
      BY <3>1 DEF ReceiptsAreTrue
  <2> QED
    BY <2>0, <2>1, <2>2, <2>3 DEF MessagesSound, HistoriesSound
<1>2. DeliveryInv => MessagesSound
  BY <1>1
<1> QED
  BY <1>2, DeliveryHolds, PTL
-----------------------------------------------------------------------------
(* The outbox is kept.                                                     *)

(* What one message more pushes out of the window.  Positions below i in the *)
(* list are of messages no newer than that at i.                             *)
LEMMA PushedOut ==
  ASSUME NEW s \in Seq(Entry), NEW d, NEW i \in Own(s, d), i \notin Kept(s, d)
  PROVE  /\ Cardinality(Protected(s, d)) = MaxOutbox
         /\ \A j \in Protected(s, d) : i < j
<1> DEFINE P == Own(s, d)
           n == Cardinality(P)
<1>1. /\ P \in SUBSET (DOMAIN s) /\ IsFiniteSet(P) /\ n \in Nat
      /\ Protected(s, d) \subseteq P
      /\ n >= MaxOutbox => Cardinality(Protected(s, d)) = MaxOutbox
  BY ProtectedFacts
<1>2. P \in SUBSET Int /\ \A j \in P : j \in Int
  <2>1. DOMAIN s \in SUBSET Int
    BY Positions
  <2> QED
    BY <1>1, <2>1
<1>3. \A j \in P : Place(P, j) \in 1..n
  BY <1>1, <1>2, NthFacts
<1>4. Protected(s, d) = {j \in P : n - Place(P, j) < MaxOutbox}
  BY DEF Protected, Own
<1>5. i \notin Protected(s, d)
  BY WindowFacts
<1> HIDE DEF P, n
<1>6. i \in P
  BY DEF P
<1>7. n - Place(P, i) >= MaxOutbox
  BY <1>1, <1>3, <1>4, <1>5, <1>6, Limits
<1>8. n >= MaxOutbox
  BY <1>1, <1>3, <1>6, <1>7, Limits
<1>9. ASSUME NEW j \in Protected(s, d) PROVE i < j
  <2>1. j \in P /\ n - Place(P, j) < MaxOutbox
    BY <1>4
  <2>2. ~(j < i)
    <3>1. ASSUME j < i PROVE FALSE
      <4>1. Place(P, j) < Place(P, i)
        BY <1>1, <1>2, <1>6, <2>1, <3>1, PlaceGrows
      <4> QED
        BY <1>1, <1>3, <1>6, <1>7, <2>1, <4>1, Limits
    <3> QED
      BY <3>1
  <2>3. i # j
    BY <1>5
  <2> QED
    BY <1>2, <1>6, <2>1, <2>2, <2>3
<1> QED
  BY <1>1, <1>8, <1>9

(* Different messages of a list, each at a place of its own: as many as the  *)
(* places they are at.                                                       *)
LEMMA AsMany ==
  ASSUME NEW s \in Seq(Entry), Distinct(s), NEW P \in SUBSET (DOMAIN s), NEW T, IsFiniteSet(T),
         \A j \in P : s[j] \in T
  PROVE  IsFiniteSet(P) /\ Cardinality(P) <= Cardinality(T)
<1> DEFINE f == [j \in P |-> s[j]]
<1>1. f \in [P -> T] /\ DOMAIN f = P
  OBVIOUS
<1>2. \A j, k \in P : f[j] = f[k] => j = k
  BY DEF Distinct
<1> HIDE DEF f
<1>3. f \in Injection(P, T)
  BY <1>1, <1>2 DEF Injection, IsInjective
<1> QED
  BY <1>3, FS_Injection

LEMMA RangeFinite ==
  ASSUME NEW s \in Seq(Entry)
  PROVE  IsFiniteSet(Range(s))
<1>1. IsFiniteSet(DOMAIN s)
  BY Positions
<1>2. s \in Surjection(DOMAIN s, Range(s))
  <2>1. s \in [DOMAIN s -> Range(s)]
    BY DEF Range
  <2>2. \A t \in Range(s) : \E i \in DOMAIN s : s[i] = t
    BY DEF Range
  <2> QED
    BY <2>1, <2>2 DEF Surjection
<1> QED
  BY <1>1, <1>2, FS_Surjection

(* Of d: what was there is still there, or nobody waits for it, or MaxOutbox *)
(* newer ones wait.                                                          *)
Newer(d, i) ==
  {e \in Range(mem'[d]) : Awaiting(e, d) /\ e.id \notin Ids(SubSeq(mem[d], 1, i))}
OutboxOf(d) ==
  \A i \in DOMAIN mem[d] : \/ mem[d][i].id \in Ids(mem'[d])
                           \/ ~ Awaiting(mem[d][i], d)
                           \/ Cardinality(Newer(d, i)) >= MaxOutbox

LEMMA SaveKeepsOutbox ==
  ASSUME HistoryInv, NEW d \in Device, NEW e \in Entry,
         \A i \in DOMAIN mem[d] : mem[d][i].id # e.id, Save(d, e)
  PROVE  OutboxOf(d)
<1> DEFINE s == Append(mem[d], e)
<1>1. mem[d] \in Seq(Entry) /\ Distinct(mem[d])
  BY DEF HistoryInv
<1>2. /\ s \in Seq(Entry) /\ s[Len(mem[d]) + 1] = e
      /\ \A i \in DOMAIN mem[d] : i \in DOMAIN s /\ s[i] = mem[d][i]
      /\ \A i \in DOMAIN s : i \in DOMAIN mem[d] \/ i = Len(mem[d]) + 1
  BY <1>1, AppendFacts
<1>3. mem'[d] = Window(s, d)
  BY DEF Save, Stored, HistoryInv
<1> HIDE DEF s
<1>4. Distinct(s)
  <2>1. ASSUME NEW i \in DOMAIN s, NEW j \in DOMAIN s, s[i].id = s[j].id PROVE i = j
    <3>1. CASE i \in DOMAIN mem[d] /\ j \in DOMAIN mem[d]
      BY <1>1, <1>2, <2>1, <3>1 DEF Distinct
    <3>2. CASE ~(i \in DOMAIN mem[d] /\ j \in DOMAIN mem[d])
      BY <1>2, <2>1, <3>2
    <3> QED
      BY <3>1, <3>2
  <2> QED
    BY <2>1 DEF Distinct
<1>5. /\ mem'[d] = At(s, Kept(s, d)) /\ Kept(s, d) \in SUBSET (DOMAIN s)
      /\ Protected(s, d) \subseteq Kept(s, d) /\ mem'[d] \in Seq(Entry)
  BY <1>2, <1>3, WindowFacts
<1>6. \A k \in Kept(s, d) : \E n \in DOMAIN mem'[d] : mem'[d][n] = s[k]
  BY <1>2, <1>5, AtKeeps
<1>7. ASSUME NEW i \in DOMAIN mem[d], mem[d][i].id \notin Ids(mem'[d]), Awaiting(mem[d][i], d)
      PROVE  Cardinality(Newer(d, i)) >= MaxOutbox
  <2>1. i \in DOMAIN s /\ s[i] = mem[d][i]
    BY <1>2
  <2>2. i \in Own(s, d) /\ i \notin Kept(s, d)
    BY <1>6, <1>7, <2>1 DEF Own, Ids
  <2>3. /\ Cardinality(Protected(s, d)) = MaxOutbox
        /\ \A j \in Protected(s, d) : i < j
    BY <1>2, <2>2, PushedOut
  <2>4. ASSUME NEW j \in Protected(s, d) PROVE s[j] \in Newer(d, i)
    <3>1. j \in DOMAIN s /\ i < j
      BY <1>5, <2>3
    <3>2. s[j] \in Range(mem'[d])
      BY <1>5, <1>6 DEF Range
    <3>3. Awaiting(s[j], d)
      BY DEF Protected
    <3>4. ASSUME s[j].id \in Ids(SubSeq(mem[d], 1, i)) PROVE FALSE
      <4>1. i \in 1..Len(mem[d])
        BY <1>1
      <4>2. \A k \in DOMAIN SubSeq(mem[d], 1, i) :
              k \in 1..i /\ k \in DOMAIN mem[d] /\ SubSeq(mem[d], 1, i)[k] = mem[d][k]
        BY <1>1, <4>1
      <4>3. PICK k \in 1..i : k \in DOMAIN mem[d] /\ s[j].id = mem[d][k].id
        BY <3>4, <4>2 DEF Ids
      <4>4. k \in DOMAIN s /\ s[k].id = s[j].id
        BY <1>2, <4>3
      <4>5. k = j
        BY <1>4, <3>1, <4>4 DEF Distinct
      <4> QED
        BY <3>1, <4>1, <4>5
    <3> QED
      BY <3>2, <3>3, <3>4 DEF Newer
  <2>5. IsFiniteSet(Newer(d, i))
    <3>1. IsFiniteSet(Range(mem'[d]))
      BY <1>5, RangeFinite
    <3> QED
      BY <3>1, FS_Subset DEF Newer
  <2>6. Cardinality(Protected(s, d)) <= Cardinality(Newer(d, i))
    <3>1. Protected(s, d) \in SUBSET (DOMAIN s)
      BY <1>5
    <3> QED
      BY <1>2, <1>4, <2>4, <2>5, <3>1, AsMany
  <2>7. Cardinality(Newer(d, i)) \in Nat
    BY <2>5, FS_CardinalityType
  <2> QED
    BY <2>3, <2>6, <2>7, Limits
<1> QED
  BY <1>7 DEF OutboxOf

(* The messages of a history that keeps its ids are kept.                    *)
LEMMA SameIdsKept ==
  ASSUME NEW d, DOMAIN mem'[d] = DOMAIN mem[d],
         \A i \in DOMAIN mem[d] : mem'[d][i].id = mem[d][i].id
  PROVE  OutboxOf(d)
BY DEF OutboxOf, Ids

LEMMA SameHistoriesKept ==
  ASSUME mem' = mem
  PROVE  \A d : OutboxOf(d)
BY DEF OutboxOf, Ids

LEMMA SendKeepsOutbox ==
  ASSUME DeliveryInv, NEW m \in Message, Send(m), NEW c \in Device
  PROVE  OutboxOf(c)
<1> DEFINE d == Author[m]
           e == [id |-> m, targets |-> view[d] \ {d}, receipts |-> {}]
<1>0. RoomTypes /\ HistoryInv
  BY DEF DeliveryInv
<1>1. d \in Device
  BY AuthorAssumption DEF AuthorAssumption
<1>2. m \notin seen[d] /\ Save(d, e)
  BY DEF Send
<1>3. e \in Entry /\ e.id = m
  BY <1>0, <1>1 DEF Entry, RoomTypes
<1>4. \A i \in DOMAIN mem[d] : mem[d][i].id # m
  BY <1>0, <1>1, <1>2 DEF HistoryInv, Honest
<1> HIDE DEF d, e
<1>5. CASE c = d
  BY <1>0, <1>1, <1>2, <1>3, <1>4, <1>5, SaveKeepsOutbox
<1>6. CASE c # d
  <2>1. mem'[c] = mem[c]
    BY <1>0, <1>2, <1>6 DEF Save, HistoryInv
  <2> QED
    BY <2>1, SameIdsKept
<1> QED
  BY <1>5, <1>6

LEMMA TakeMessageKeepsOutbox ==
  ASSUME DeliveryInv, NEW d \in Device, NEW p \in Device, d # p, TakeMessage(d, p), NEW c \in Device
  PROVE  OutboxOf(c)
<1> DEFINE m == Received(d, p).id
           e == [id |-> m, targets |-> {}, receipts |-> {}]
<1>0. RoomTypes /\ HistoryInv /\ WireInv
  BY DEF DeliveryInv
<1>1. Arrives(d, p) /\ IF Held(d, m) THEN UNCHANGED <<mem, disk, seen>> ELSE Save(d, e)
  BY DEF TakeMessage
<1>2. <<p, d>> \in Pair
  BY DEF Pair
<1>3. Received(d, p) \in Packet
  BY <1>0, <1>1, <1>2, HandledKeeps
<1>4. m \in Message
  BY <1>3 DEF Packet
<1> HIDE DEF m
<1>5. e \in Entry /\ e.id = m
  BY <1>4 DEF Entry
<1>6. CASE Held(d, m)
  BY <1>1, <1>6, SameHistoriesKept
<1>7. CASE ~Held(d, m)
  <2>1. \A i \in DOMAIN mem[d] : mem[d][i].id # m
    BY <1>7 DEF Held, Ids
  <2> HIDE DEF e
  <2>2. CASE c = d
    BY <1>0, <1>1, <1>5, <1>7, <2>1, <2>2, SaveKeepsOutbox
  <2>3. CASE c # d
    <3>1. mem'[c] = mem[c]
      BY <1>0, <1>1, <1>7, <2>3 DEF Save, HistoryInv
    <3> QED
      BY <3>1, SameIdsKept
  <2> QED
    BY <2>2, <2>3
<1> QED
  BY <1>6, <1>7

LEMMA TakeReceiptKeepsOutbox ==
  ASSUME DeliveryInv, NEW d \in Device, NEW p \in Device, d # p, TakeReceipt(d, p), NEW c \in Device
  PROVE  OutboxOf(c)
<1> DEFINE m == Received(d, p).id
           r == Recorded(mem[d], d, p, m)
<1>0. HistoryInv
  BY DEF DeliveryInv
<1>1. mem' = [mem EXCEPT ![d] = r]
  BY DEF TakeReceipt, Recorded
<1>2. mem[d] \in Seq(Entry)
  BY <1>0 DEF HistoryInv
<1> HIDE DEF m
<1>3. Noted(r, mem[d], p, m)
  BY <1>2, RecordedFacts
<1> HIDE DEF r
<1>4. mem'[d] = r /\ \A b \in Device \ {d} : mem'[b] = mem[b]
  BY <1>0, <1>1 DEF HistoryInv
<1>5. DOMAIN mem'[c] = DOMAIN mem[c] /\ \A i \in DOMAIN mem[c] : mem'[c][i].id = mem[c][i].id
  <2>1. CASE c = d
    BY <1>3, <1>4, <2>1 DEF Noted
  <2>2. CASE c # d
    BY <1>4, <2>2
  <2> QED
    BY <2>1, <2>2
<1> QED
  BY <1>5, SameIdsKept

LEMMA OutboxStep ==
  ASSUME DeliveryInv, [Next]_vars, NEW c \in up', c \in Device
  PROVE  OutboxOf(c)
<1>0. HistoryInv /\ Asleep /\ RoomTypes
  BY DEF DeliveryInv
<1>1. CASE \E m \in Message : Send(m)
  BY <1>1, SendKeepsOutbox
<1>2. CASE \E d \in Device : Poll(d) \/ WriteReceipts(d) \/ Leave(d) \/ Join(d)
  <2>1. mem' = mem
    BY <1>2 DEF Poll, WriteReceipts, Leave, Join
  <2> QED
    BY <2>1, SameHistoriesKept
<1>3. CASE \E d \in Device : Crash(d)
  <2>1. PICK d \in Device : Crash(d)
    BY <1>3
  <2>2. mem'[c] = mem[c]
    BY <1>0, <2>1 DEF Crash, HistoryInv
  <2> QED
    BY <2>2, SameIdsKept
<1>4. CASE \E d \in Device : Restart(d)
  <2>1. PICK d \in Device : Restart(d)
    BY <1>4
  <2>2. CASE c = d
    <3>1. mem[c] = <<>>
      BY <1>0, <2>1, <2>2 DEF Restart, Asleep
    <3>2. DOMAIN mem[c] = {}
      BY <3>1
    <3> QED
      BY <3>2 DEF OutboxOf
  <2>3. CASE c # d
    <3>1. mem'[c] = mem[c]
      BY <1>0, <2>1, <2>3 DEF Restart, HistoryInv
    <3> QED
      BY <3>1, SameIdsKept
  <2> QED
    BY <2>2, <2>3
<1>5. CASE \E x \in Pair : Handle(x[1], x[2])
  <2>1. PICK x \in Pair : Handle(x[1], x[2])
    BY <1>5
  <2>2. x[1] \in Device /\ x[2] \in Device /\ x[1] # x[2]
    BY DEF Pair
  <2> QED
    BY <2>1, <2>2, TakeMessageKeepsOutbox, TakeReceiptKeepsOutbox DEF Handle
<1>6. CASE \E x \in Pair : Refuse(x[1], x[2]) \/ Connect(x[1], x[2]) \/ Expire(x[1], x[2])
  <2>1. mem' = mem
    BY <1>6 DEF Refuse, Connect, Expire
  <2> QED
    BY <2>1, SameHistoriesKept
<1>7. CASE \E l \in link : Cut(l)
  <2>1. mem' = mem
    BY <1>7 DEF Cut
  <2> QED
    BY <2>1, SameHistoriesKept
<1>8. CASE UNCHANGED vars
  <2>1. mem' = mem
    BY <1>8 DEF vars
  <2> QED
    BY <2>1, SameHistoriesKept
<1> QED
  BY <1>1, <1>2, <1>3, <1>4, <1>5, <1>6, <1>7, <1>8 DEF Next

(* An own message somebody in the room still waits for leaves a history only *)
(* when MaxOutbox newer ones wait as well (windowHistory), whatever arrives. *)
THEOREM OutboxIsKept == Spec => OutboxKept
<1>1. ASSUME DeliveryInv, [Next]_vars
      PROVE  [\A d \in up' : \A i \in DOMAIN mem[d] :
                LET older == Ids(SubSeq(mem[d], 1, i))
                    newer == {e \in Range(mem'[d]) : Awaiting(e, d) /\ e.id \notin older}
                IN \/ mem[d][i].id \in Ids(mem'[d])
                   \/ ~ Awaiting(mem[d][i], d)
                   \/ Cardinality(newer) >= MaxOutbox]_vars
  <2>1. up' \subseteq Device
    <3>1. DeliveryInv'
      BY <1>1, DeliveryStep
    <3> QED
      BY <3>1 DEF DeliveryInv, RoomTypes
  <2>2. \A d \in up' : OutboxOf(d)
    BY <1>1, <2>1, OutboxStep
  <2> QED
    BY <2>2 DEF OutboxOf, Newer
<1>2. DeliveryInv /\ [Next]_vars =>
        [\A d \in up' : \A i \in DOMAIN mem[d] :
           LET older == Ids(SubSeq(mem[d], 1, i))
               newer == {e \in Range(mem'[d]) : Awaiting(e, d) /\ e.id \notin older}
           IN \/ mem[d][i].id \in Ids(mem'[d])
              \/ ~ Awaiting(mem[d][i], d)
              \/ Cardinality(newer) >= MaxOutbox]_vars
  BY <1>1
<1> QED
  BY <1>2, DeliveryHolds, PTL DEF Spec, OutboxKept
=============================================================================
