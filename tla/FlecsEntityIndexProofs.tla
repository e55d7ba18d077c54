----------------------- MODULE FlecsEntityIndexProofs -----------------------
(***************************************************************************)
(* Theorems about FlecsEntityIndex, for every number of ids and every set of *)
(* ranges, where the application forces only ids of the active range.        *)
(***************************************************************************)
EXTENDS FlecsEntityIndex, SequenceTheorems, TLAPS

-----------------------------------------------------------------------------
(* The inductive invariant.                                                  *)

\* The last id that was issued of a range that was created
LastId(r) == IF r = active_range THEN max_id ELSE cur[r]

\* An id is in the index, or in the list of a range that is not active.
Known(id) ==
    \/ index_of[id] # 0
    \/ \E r \in ranges \ {active_range} :
          \E k \in 1 .. Len(recycled[r]) : recycled[r][k].id = id

\* One range is active once there are any; they share no id; what was issued of
\* a range is its own.
RangesSound ==
    /\ ranges = {} <=> active_range = NoRange
    /\ \A r, s \in ranges : r # s => ~Overlaps(r, s)
    /\ \A r \in ranges : r.min - 1 <= LastId(r) /\ LastId(r) <= r.max

\* What can be recycled from the dense vector is of the active range.
NotAliveInRange ==
    ranges # {} => \A i \in alive_count .. Len(dense) : In(active_range, dense[i].id)

\* The list of a range: ids that were issued of it, once each, that are not in
\* the index.  The active range's is in the dense vector.
ListsEmpty == \A r \in Ranges : r \notin ranges \/ r = active_range => recycled[r] = <<>>
ListsSound ==
    \A r \in ranges \ {active_range} : \A k \in 1 .. Len(recycled[r]) :
        /\ In(r, recycled[r][k].id) /\ recycled[r][k].id <= cur[r]
        /\ index_of[recycled[r][k].id] = 0
        /\ \A j \in 1 .. Len(recycled[r]) : recycled[r][j].id = recycled[r][k].id => j = k

\* Every id in the index was issued: before there were ranges, or of its range.
Issued(id) ==
    IF ranges = {} THEN id <= max_id ELSE \E r \in ranges : In(r, id) /\ id <= LastId(r)
IndexIssued == \A id \in Ids : index_of[id] # 0 => Issued(id)

\* The last id that was issued of a range is still known.
LastKnown ==
    /\ \A r \in ranges : r.min <= LastId(r) => Known(LastId(r))
    /\ ranges = {} /\ max_id > 0 => index_of[max_id] # 0

DeadKnown == \A e \in dead : Known(e.id)

IInv ==
    /\ TypeOK /\ IndexConsistent
    /\ RangesSound /\ NotAliveInRange /\ ListsEmpty /\ ListsSound
    /\ IndexIssued /\ LastKnown /\ DeadKnown

-----------------------------------------------------------------------------
(* The dense vector and the records.                                         *)

\* Vector d and records x point at each other.
Consistent(d, x) ==
    /\ d \in Seq(Entity)
    /\ x \in [Ids -> 0 .. Len(d)]
    /\ \A k \in 1 .. Len(d) : x[d[k].id] = k
    /\ \A id \in Ids : x[id] # 0 => d[x[id]].id = id

\* What is in the vector and the records are within bounds, and no id is in
\* the vector twice.
LEMMA ConsistentFacts ==
    ASSUME NEW d, NEW x, Consistent(d, x)
    PROVE  /\ Len(d) \in Nat
           /\ \A k \in 1 .. Len(d) : d[k] \in Entity /\ d[k].id \in Ids
           /\ \A id \in Ids : x[id] \in 0 .. Len(d)
           /\ \A k, j \in 1 .. Len(d) : d[k].id = d[j].id => k = j
<1>1. Len(d) \in Nat /\ \A k \in 1 .. Len(d) : d[k] \in Entity
  BY LenProperties, ElementOfSeq DEF Consistent
<1>2. \A en \in Entity : en.id \in Ids
  BY DEF Entity
<1>3. \A id \in Ids : x[id] \in 0 .. Len(d)
  BY DEF Consistent
<1>4. \A k, j \in 1 .. Len(d) : d[k].id = d[j].id => k = j
  BY DEF Consistent
<1> QED
  BY <1>1, <1>2, <1>3, <1>4

\* An id that is appended is found at the end.
LEMMA AppendConsistent ==
    ASSUME NEW d, NEW x, Consistent(d, x), NEW e \in Entity, x[e.id] = 0
    PROVE  Consistent(Append(d, e), [x EXCEPT ![e.id] = Len(d) + 1])
<1> DEFINE D == Append(d, e)
           X == [x EXCEPT ![e.id] = Len(d) + 1]
<1>1. /\ Len(d) \in Nat
      /\ \A k \in 1 .. Len(d) : d[k] \in Entity /\ d[k].id \in Ids
      /\ \A id \in Ids : x[id] \in 0 .. Len(d)
  BY ConsistentFacts
<1>2. /\ D \in Seq(Entity) /\ Len(D) = Len(d) + 1
      /\ \A k \in 1 .. Len(d) : D[k] = d[k]
      /\ D[Len(d) + 1] = e
  BY AppendProperties DEF Consistent
<1>3. e.id \in Ids
  BY DEF Entity
<1>4. /\ DOMAIN x = Ids
      /\ \A id \in Ids : X[id] = IF id = e.id THEN Len(d) + 1 ELSE x[id]
  BY <1>3 DEF Consistent
<1>5. X \in [Ids -> 0 .. Len(D)]
  BY <1>1, <1>2, <1>3 DEF Consistent
<1> HIDE DEF D, X
<1>6. ASSUME NEW k \in 1 .. Len(D) PROVE X[D[k].id] = k
  <2>1. CASE k = Len(d) + 1
    BY <1>2, <1>3, <1>4, <2>1
  <2>2. CASE k \in 1 .. Len(d)
    <3>1. x[d[k].id] = k /\ k # 0
      BY <1>1, <2>2 DEF Consistent
    <3> QED
      BY <1>1, <1>2, <1>4, <2>2, <3>1
  <2> QED
    BY <1>1, <1>2, <2>1, <2>2
<1>7. ASSUME NEW id \in Ids, X[id] # 0 PROVE D[X[id]].id = id
  <2>1. CASE id = e.id
    BY <1>2, <1>4, <2>1
  <2>2. CASE id # e.id
    <3>1. X[id] = x[id] /\ x[id] \in 1 .. Len(d)
      BY <1>1, <1>4, <1>7, <2>2
    <3>2. d[x[id]].id = id
      BY <3>1 DEF Consistent
    <3> QED
      BY <1>2, <3>1, <3>2
  <2> QED
    BY <2>1, <2>2
<1> QED
  BY <1>2, <1>5, <1>6, <1>7 DEF Consistent, D, X

\* Elements i and j of vector d change places, and what was element i becomes e;
\* x are the records.
Swap(d, i, j, e) == [[d EXCEPT ![i] = d[j]] EXCEPT ![j] = e]
SwapIndex(d, x, i, j, e) == [[x EXCEPT ![d[j].id] = i] EXCEPT ![e.id] = j]

\* Two elements change places, and one of them gets another generation.
LEMMA SwapConsistent ==
    ASSUME NEW d, NEW x, Consistent(d, x),
           NEW i \in 1 .. Len(d), NEW j \in 1 .. Len(d),
           NEW e \in Entity, e.id = d[i].id
    PROVE  LET D == Swap(d, i, j, e)
               X == SwapIndex(d, x, i, j, e)
           IN  /\ Consistent(D, X)
               /\ Len(D) = Len(d)
               /\ \A k \in 1 .. Len(d) : D[k] = IF k = j THEN e ELSE IF k = i THEN d[j] ELSE d[k]
               /\ \A id \in Ids : X[id] # 0 <=> x[id] # 0
<1> DEFINE C == [d EXCEPT ![i] = d[j]]
           D == [C EXCEPT ![j] = e]
           Y == [x EXCEPT ![d[j].id] = i]
           X == [Y EXCEPT ![e.id] = j]
<1>1. /\ Len(d) \in Nat
      /\ \A k \in 1 .. Len(d) : d[k] \in Entity /\ d[k].id \in Ids
      /\ \A id \in Ids : x[id] \in 0 .. Len(d)
      /\ \A k, m \in 1 .. Len(d) : d[k].id = d[m].id => k = m
  BY ConsistentFacts
<1>2. /\ C \in Seq(Entity) /\ Len(C) = Len(d)
      /\ \A k \in 1 .. Len(d) : C[k] = IF k = i THEN d[j] ELSE d[k]
  BY <1>1, ExceptSeq DEF Consistent
<1> HIDE DEF C
<1>3. /\ D \in Seq(Entity) /\ Len(D) = Len(d)
      /\ \A k \in 1 .. Len(d) : D[k] = IF k = j THEN e ELSE C[k]
  BY <1>2, ExceptSeq
<1>4. \A k \in 1 .. Len(d) : D[k] = IF k = j THEN e ELSE IF k = i THEN d[j] ELSE d[k]
  BY <1>2, <1>3
<1>5. e.id \in Ids /\ d[j].id \in Ids
  BY <1>1
<1>6. \A id \in Ids : X[id] = IF id = e.id THEN j ELSE IF id = d[j].id THEN i ELSE x[id]
  BY <1>5 DEF Consistent
<1>7. X \in [Ids -> 0 .. Len(D)]
  BY <1>1, <1>3, <1>5 DEF Consistent
<1> HIDE DEF D, X, Y
<1>8. ASSUME NEW k \in 1 .. Len(D) PROVE X[D[k].id] = k
  <2>1. CASE k = j
    BY <1>3, <1>4, <1>5, <1>6, <2>1
  <2>2. CASE k # j /\ k = i
    BY <1>1, <1>3, <1>4, <1>5, <1>6, <2>2
  <2>3. CASE k # j /\ k # i
    <3>1. D[k] = d[k] /\ d[k].id # e.id /\ d[k].id # d[j].id /\ d[k].id \in Ids
      BY <1>1, <1>3, <1>4, <2>3
    <3>2. x[d[k].id] = k
      BY <1>3 DEF Consistent
    <3> QED
      BY <1>6, <3>1, <3>2
  <2> QED
    BY <2>1, <2>2, <2>3
<1>9. ASSUME NEW id \in Ids, X[id] # 0 PROVE D[X[id]].id = id
  <2>1. CASE id = e.id
    BY <1>4, <1>6, <2>1
  <2>2. CASE id # e.id /\ id = d[j].id
    BY <1>1, <1>4, <1>6, <2>2
  <2>3. CASE id # e.id /\ id # d[j].id
    <3>1. X[id] = x[id] /\ x[id] \in 1 .. Len(d)
      BY <1>1, <1>6, <1>9, <2>3
    <3>2. d[x[id]].id = id
      BY <3>1 DEF Consistent
    <3> QED
      BY <1>4, <2>3, <3>1, <3>2
  <2> QED
    BY <2>1, <2>2, <2>3
<1>10. ASSUME NEW id \in Ids PROVE X[id] # 0 <=> x[id] # 0
  <2>1. x[d[i].id] = i /\ x[d[j].id] = j /\ i # 0 /\ j # 0
    BY <1>1 DEF Consistent
  <2> QED
    BY <1>6, <2>1
<1>11. Consistent(D, X)
  BY <1>3, <1>7, <1>8, <1>9 DEF Consistent
<1> QED
  BY <1>3, <1>4, <1>10, <1>11 DEF C, D, X, Y, Swap, SwapIndex

\* Element i of vector d, whose id is given, is taken out, and the last takes its
\* place; x are the records.
Drop(d, i) == SubSeq([d EXCEPT ![i] = d[Len(d)]], 1, Len(d) - 1)
DropIndex(d, x, i, id) == [[x EXCEPT ![d[Len(d)].id] = i] EXCEPT ![id] = 0]

\* An element is taken out, and the last takes its place.
LEMMA DropConsistent ==
    ASSUME NEW d, NEW x, Consistent(d, x), NEW i \in 1 .. Len(d), NEW id \in Ids,
           id = d[i].id
    PROVE  LET last == d[Len(d)]
               D == Drop(d, i)
               X == DropIndex(d, x, i, id)
           IN  /\ Consistent(D, X)
               /\ Len(D) = Len(d) - 1
               /\ \A k \in 1 .. Len(d) - 1 : D[k] = IF k = i THEN last ELSE d[k]
               /\ \A other \in Ids : X[other] # 0 <=> x[other] # 0 /\ other # id
<1> DEFINE last == d[Len(d)]
           C == [d EXCEPT ![i] = last]
           D == SubSeq(C, 1, Len(d) - 1)
           Y == [x EXCEPT ![last.id] = i]
           X == [Y EXCEPT ![id] = 0]
<1>1. /\ Len(d) \in Nat /\ Len(d) \in 1 .. Len(d)
      /\ \A k \in 1 .. Len(d) : d[k] \in Entity /\ d[k].id \in Ids
      /\ \A other \in Ids : x[other] \in 0 .. Len(d)
      /\ \A k, m \in 1 .. Len(d) : d[k].id = d[m].id => k = m
  BY ConsistentFacts
<1>2. /\ C \in Seq(Entity) /\ Len(C) = Len(d)
      /\ \A k \in 1 .. Len(d) : C[k] = IF k = i THEN last ELSE d[k]
  BY <1>1, ExceptSeq DEF Consistent
<1> HIDE DEF C
<1>3. \A k \in 1 .. Len(d) - 1 : C[k] \in Entity
  BY <1>1, <1>2
<1>4. /\ D \in Seq(Entity) /\ Len(D) = Len(d) - 1
      /\ \A k \in 1 .. Len(d) - 1 : D[k] = C[k]
  <2>1. /\ D \in Seq(Entity) /\ Len(D) = IF 1 <= Len(d) - 1 THEN Len(d) - 1 - 1 + 1 ELSE 0
        /\ \A k \in 1 .. Len(d) - 1 - 1 + 1 : D[k] = C[1 + k - 1]
    BY <1>1, <1>3, SubSeqProperties
  <2>2. Len(d) - 1 - 1 + 1 = Len(d) - 1 /\ (1 <= Len(d) - 1 \/ Len(d) - 1 = 0)
    BY <1>1, SMTT(30)
  <2> HIDE DEF D
  <2>3. Len(D) = Len(d) - 1
    BY <2>1, <2>2
  <2>4. ASSUME NEW k \in 1 .. Len(d) - 1 PROVE D[k] = C[k]
    <3>1. k \in 1 .. Len(d) - 1 - 1 + 1 /\ 1 + k - 1 = k
      BY <2>2
    <3> QED
      BY <2>1, <3>1
  <2> QED
    BY <2>1, <2>3, <2>4
<1>5. \A k \in 1 .. Len(d) - 1 : D[k] = IF k = i THEN last ELSE d[k]
  BY <1>1, <1>2, <1>4
<1>6. \A other \in Ids : X[other] = IF other = id THEN 0
                                    ELSE IF other = last.id THEN i ELSE x[other]
  BY <1>1 DEF Consistent
<1>7. \A other \in Ids : x[other] = Len(d) => other = last.id
  BY <1>1 DEF Consistent
<1>8. X \in [Ids -> 0 .. Len(D)]
  <2>1. X = [other \in Ids |-> X[other]]
    BY DEF Consistent
  <2> HIDE DEF D, X, Y
  <2>2. ASSUME NEW other \in Ids PROVE X[other] \in 0 .. Len(D)
    <3>1. CASE other = id
      BY <1>1, <1>4, <1>6, <3>1
    <3>2. CASE other # id /\ other = last.id
      <4>1. i # Len(d)
        BY <3>2
      <4> QED
        BY <1>1, <1>4, <1>6, <3>2, <4>1
    <3>3. CASE other # id /\ other # last.id
      BY <1>1, <1>4, <1>6, <1>7, <3>3
    <3> QED
      BY <3>1, <3>2, <3>3
  <2> QED
    BY <2>1, <2>2
<1> HIDE DEF D, X, Y
<1>9. ASSUME NEW k \in 1 .. Len(D) PROVE X[D[k].id] = k
  <2>1. k \in 1 .. Len(d) - 1 /\ k \in 1 .. Len(d) /\ k # Len(d)
    BY <1>1, <1>4
  <2>2. CASE k = i
    BY <1>1, <1>5, <1>6, <2>1, <2>2
  <2>3. CASE k # i
    <3>1. D[k] = d[k] /\ d[k].id # id /\ d[k].id # last.id /\ d[k].id \in Ids
      BY <1>1, <1>5, <2>1, <2>3
    <3>2. x[d[k].id] = k
      BY <2>1 DEF Consistent
    <3> QED
      BY <1>6, <3>1, <3>2
  <2> QED
    BY <2>2, <2>3
<1>10. ASSUME NEW other \in Ids, X[other] # 0 PROVE D[X[other]].id = other
  <2>1. CASE other = id
    BY <1>6, <1>10, <2>1
  <2>2. CASE other # id /\ other = last.id
    <3>1. i \in 1 .. Len(d) - 1
      BY <1>1, <2>2
    <3> QED
      BY <1>5, <1>6, <2>2, <3>1
  <2>3. CASE other # id /\ other # last.id
    <3>1. X[other] = x[other] /\ x[other] \in 1 .. Len(d) - 1
      BY <1>1, <1>6, <1>7, <1>10, <2>3
    <3>2. d[x[other]].id = other
      BY <1>1, <3>1 DEF Consistent
    <3> QED
      BY <1>5, <2>3, <3>1, <3>2
  <2> QED
    BY <2>1, <2>2, <2>3
<1>11. ASSUME NEW other \in Ids PROVE X[other] # 0 <=> x[other] # 0 /\ other # id
  <2>1. x[last.id] = Len(d) /\ Len(d) # 0 /\ i # 0
    BY <1>1 DEF Consistent
  <2> QED
    BY <1>6, <2>1
<1>12. Consistent(D, X)
  BY <1>4, <1>8, <1>9, <1>10 DEF Consistent
<1> QED
  BY <1>4, <1>5, <1>11, <1>12 DEF C, D, X, Y, Drop, DropIndex


\* The n ids after m are those of list l, and records X find them behind those
\* of vector d, whose records are x.
Follow(d, x, m, n, l, X) ==
    /\ m \in Nat /\ n \in Nat /\ m + n <= MaxId
    /\ \A id \in m + 1 .. m + n : x[id] = 0
    /\ l \in Seq(Entity) /\ Len(l) = n /\ \A k \in 1 .. n : l[k].id = m + k
    /\ X \in [Ids -> Int]
    /\ \A id \in Ids : X[id] = IF id \in m + 1 .. m + n THEN Len(d) + id - m ELSE x[id]

\* New ids are appended, and are found behind the others.
LEMMA ConcatConsistent ==
    ASSUME NEW d, NEW x, NEW m, NEW n, NEW l, NEW X,
           Consistent(d, x), Follow(d, x, m, n, l, X)
    PROVE  /\ Consistent(d \o l, X)
           /\ Len(d \o l) = Len(d) + n
           /\ \A k \in 1 .. Len(d) : (d \o l)[k] = d[k]
           /\ \A id \in Ids : X[id] # 0 <=> x[id] # 0 \/ id \in m + 1 .. m + n
<1> DEFINE D == d \o l
<1> USE DEF Follow
<1>1. /\ Len(d) \in Nat
      /\ \A k \in 1 .. Len(d) : d[k] \in Entity /\ d[k].id \in Ids
      /\ \A id \in Ids : x[id] \in 0 .. Len(d)
  BY ConsistentFacts
<1>3. /\ D \in Seq(Entity) /\ Len(D) = Len(d) + n
      /\ \A k \in 1 .. Len(d) : D[k] = d[k]
      /\ \A k \in 1 .. n : D[Len(d) + k].id = m + k
  <2>1. /\ D \in Seq(Entity) /\ Len(D) = Len(d) + n
        /\ \A k \in 1 .. Len(d) + n : D[k] = IF k <= Len(d) THEN d[k] ELSE l[k - Len(d)]
    <3>1. d \in Seq(Entity) /\ l \in Seq(Entity) /\ Len(l) = n
      BY DEF Consistent
    <3> QED
      BY ONLY <3>1, ConcatProperties
  <2> HIDE DEF D
  <2>2. ASSUME NEW k \in 1 .. n PROVE D[Len(d) + k].id = m + k
    <3>1. Len(d) + k \in 1 .. Len(d) + n /\ ~(Len(d) + k <= Len(d)) /\ (Len(d) + k) - Len(d) = k
      BY <1>1
    <3> QED
      BY <2>1, <3>1
  <2>3. \A k \in 1 .. Len(d) : D[k] = d[k]
    BY <1>1, <2>1
  <2> QED
    BY <2>1, <2>2, <2>3
<1> HIDE DEF D
<1>5. ASSUME NEW id \in Ids PROVE X[id] \in 0 .. Len(D)
  BY <1>1, <1>3 DEF Ids
<1>6. ASSUME NEW k \in 1 .. Len(D) PROVE X[D[k].id] = k
  <2>1. CASE k \in 1 .. Len(d)
    <3>1. x[d[k].id] = k /\ d[k].id \in Ids /\ D[k] = d[k] /\ k # 0
      BY <1>1, <1>3, <2>1 DEF Consistent
    <3> QED
      BY <3>1
  <2>2. CASE k \notin 1 .. Len(d)
    <3> DEFINE h == k - Len(d)
    <3>1. h \in 1 .. n /\ Len(d) + h = k
      BY <1>1, <1>3, <2>2
    <3> HIDE DEF h
    <3>2. D[Len(d) + h].id = m + h
      BY <1>3, <3>1
    <3>3. m + h \in Ids /\ m + h \in m + 1 .. m + n /\ Len(d) + (m + h) - m = Len(d) + h
      BY <1>1, <3>1, MaxIdAssumption DEF Ids
    <3> QED
      BY <3>1, <3>2, <3>3
  <2> QED
    BY <2>1, <2>2
<1>7. ASSUME NEW id \in Ids, X[id] # 0 PROVE D[X[id]].id = id
  <2>1. CASE id \in m + 1 .. m + n
    <3> DEFINE h == id - m
    <3>1. h \in 1 .. n /\ Len(d) + id - m = Len(d) + h /\ m + h = id
      BY <1>1, <2>1
    <3> HIDE DEF h
    <3>2. D[Len(d) + h].id = m + h
      BY <1>3, <3>1
    <3>3. X[id] = Len(d) + h
      BY <2>1, <3>1
    <3> QED
      BY <3>1, <3>2, <3>3
  <2>2. CASE id \notin m + 1 .. m + n
    <3>1. X[id] = x[id] /\ x[id] \in 1 .. Len(d)
      BY <1>1, <1>7, <2>2
    <3>2. d[x[id]].id = id
      BY <3>1 DEF Consistent
    <3> QED
      BY <1>3, <3>1, <3>2
  <2> QED
    BY <2>1, <2>2
<1>8. ASSUME NEW id \in Ids PROVE X[id] # 0 <=> x[id] # 0 \/ id \in m + 1 .. m + n
  BY <1>1
<1>9. X \in [Ids -> 0 .. Len(D)]
  BY <1>5
<1>10. Consistent(D, X)
  BY <1>3, <1>6, <1>7, <1>9 DEF Consistent
<1> QED
  BY <1>3, <1>8, <1>10 DEF D

\* Records X find the ids of list l behind the first n elements of vector d,
\* whose records are x, and no other id there.
Load(d, x, n, l, X) ==
    /\ n \in 0 .. Len(d) /\ l \in Seq(Entity)
    /\ \A k, j \in 1 .. Len(l) : l[k].id = l[j].id => k = j
    /\ \A k \in 1 .. Len(l) : x[l[k].id] = 0 \/ x[l[k].id] > n
    /\ X \in [Ids -> Int]
    /\ \A k \in 1 .. Len(l) : X[l[k].id] = n + k
    /\ \A id \in Ids : (~\E k \in 1 .. Len(l) : l[k].id = id) =>
                          X[id] = IF x[id] > n THEN 0 ELSE x[id]

\* The elements of d behind the first n are replaced by those of list l.
Loaded(d, n, l) == SubSeq(d, 1, n) \o l

\* The elements behind the first n are replaced by those of list l.
LEMMA LoadConsistent ==
    ASSUME NEW d, NEW x, NEW n, NEW l, NEW X,
           Consistent(d, x), Load(d, x, n, l, X)
    PROVE  /\ Consistent(Loaded(d, n, l), X)
           /\ Len(Loaded(d, n, l)) = n + Len(l)
           /\ \A k \in 1 .. n : Loaded(d, n, l)[k] = d[k]
           /\ \A k \in 1 .. Len(l) : Loaded(d, n, l)[n + k] = l[k]
           /\ \A id \in Ids : X[id] # 0 <=> \/ x[id] \in 1 .. n
                                            \/ \E k \in 1 .. Len(l) : l[k].id = id
<1> USE DEF Load
<1> DEFINE P == SubSeq(d, 1, n)
           D == P \o l
<1>1. /\ Len(d) \in Nat
      /\ \A k \in 1 .. Len(d) : d[k] \in Entity /\ d[k].id \in Ids
      /\ \A id \in Ids : x[id] \in 0 .. Len(d)
  BY ConsistentFacts
<1>2. /\ Len(l) \in Nat /\ DOMAIN l = 1 .. Len(l)
      /\ \A k \in 1 .. Len(l) : l[k] \in Entity /\ l[k].id \in Ids
  <2>1. \A en \in Entity : en.id \in Ids
    BY DEF Entity
  <2> QED
    BY <2>1, LenProperties, ElementOfSeq
<1>3. /\ P \in Seq(Entity) /\ Len(P) = n
      /\ \A k \in 1 .. n : P[k] = d[k]
  <2>1. \A k \in 1 .. n : d[k] \in Entity
    BY <1>1
  <2>2. /\ P \in Seq(Entity) /\ Len(P) = IF 1 <= n THEN n - 1 + 1 ELSE 0
        /\ \A k \in 1 .. n - 1 + 1 : P[k] = d[1 + k - 1]
    BY <1>1, <2>1, SubSeqProperties
  <2> HIDE DEF P
  <2>3. n - 1 + 1 = n /\ (1 <= n \/ n = 0)
    BY <1>1
  <2>4. Len(P) = n
    BY <2>2, <2>3
  <2>5. ASSUME NEW k \in 1 .. n PROVE P[k] = d[k]
    <3>1. k \in 1 .. n - 1 + 1 /\ 1 + k - 1 = k
      BY <2>3
    <3> QED
      BY <2>2, <3>1
  <2> QED
    BY <2>2, <2>4, <2>5
<1> HIDE DEF P
<1>4. /\ D \in Seq(Entity) /\ Len(D) = n + Len(l)
      /\ \A k \in 1 .. n : D[k] = d[k]
      /\ \A k \in 1 .. Len(l) : D[n + k] = l[k]
  <2>1. /\ D \in Seq(Entity) /\ Len(D) = n + Len(l)
        /\ \A k \in 1 .. n + Len(l) : D[k] = IF k <= n THEN P[k] ELSE l[k - n]
    <3>1. l \in Seq(Entity)
      OBVIOUS
    <3> QED
      BY ONLY <1>3, <3>1, ConcatProperties
  <2> HIDE DEF D
  <2>2. ASSUME NEW k \in 1 .. Len(l) PROVE D[n + k] = l[k]
    <3>1. n + k \in 1 .. n + Len(l) /\ ~(n + k <= n) /\ (n + k) - n = k
      BY <1>1, <1>2
    <3> QED
      BY <2>1, <3>1
  <2>3. ASSUME NEW k \in 1 .. n PROVE D[k] = d[k]
    <3>1. k \in 1 .. n + Len(l) /\ k <= n
      BY <1>1, <1>2
    <3> QED
      BY <1>3, <2>1, <3>1
  <2> QED
    BY <2>1, <2>2, <2>3
<1> HIDE DEF D
<1>9. ASSUME NEW id \in Ids, ~\E k \in 1 .. Len(l) : l[k].id = id
      PROVE  X[id] = IF x[id] > n THEN 0 ELSE x[id]
  BY <1>9
<1>10. ASSUME NEW id \in Ids PROVE X[id] \in 0 .. Len(D)
  <2>1. CASE \E k \in 1 .. Len(l) : l[k].id = id
    <3>1. PICK k \in 1 .. Len(l) : l[k].id = id
      BY <2>1
    <3> QED
      BY <1>1, <1>2, <1>4, <3>1
  <2>2. CASE ~\E k \in 1 .. Len(l) : l[k].id = id
    <3>1. X[id] = IF x[id] > n THEN 0 ELSE x[id]
      BY <1>9, <2>2
    <3>2. x[id] \in Int /\ x[id] >= 0 /\ n \in Nat /\ Len(l) \in Nat /\ Len(D) = n + Len(l)
      BY <1>1, <1>2, <1>4
    <3> QED
      BY ONLY <3>1, <3>2
  <2> QED
    BY <2>1, <2>2
<1>11. ASSUME NEW k \in 1 .. Len(D) PROVE X[D[k].id] = k
  <2>1. CASE k \in 1 .. n
    <3>1. k \in 1 .. Len(d) /\ k # 0 /\ ~(k > n)
      BY <1>1, <2>1
    <3>2. x[d[k].id] = k /\ d[k].id \in Ids /\ D[k] = d[k]
      BY <1>1, <1>4, <2>1, <3>1 DEF Consistent
    <3>3. ASSUME NEW j \in 1 .. Len(l), l[j].id = d[k].id PROVE FALSE
      <4>1. x[l[j].id] = 0 \/ x[l[j].id] > n
        OBVIOUS
      <4> QED
        BY ONLY <3>1, <3>2, <3>3, <4>1
    <3> QED
      BY <1>9, <3>1, <3>2, <3>3
  <2>2. CASE k \notin 1 .. n
    <3> DEFINE h == k - n
    <3>1. h \in 1 .. Len(l) /\ n + h = k
      BY <1>1, <1>2, <1>4, <2>2
    <3> HIDE DEF h
    <3> QED
      BY <1>4, <3>1
  <2> QED
    BY <2>1, <2>2
<1>12. ASSUME NEW id \in Ids, X[id] # 0 PROVE D[X[id]].id = id
  <2>1. CASE \E k \in 1 .. Len(l) : l[k].id = id
    <3>1. PICK k \in 1 .. Len(l) : l[k].id = id
      BY <2>1
    <3> QED
      BY <1>4, <3>1
  <2>2. CASE ~\E k \in 1 .. Len(l) : l[k].id = id
    <3>1. X[id] = x[id] /\ x[id] \in 1 .. n
      BY <1>1, <1>9, <1>12, <2>2
    <3>2. d[x[id]].id = id
      BY <3>1 DEF Consistent
    <3> QED
      BY <1>4, <3>1, <3>2
  <2> QED
    BY <2>1, <2>2
<1>13. ASSUME NEW id \in Ids
       PROVE  X[id] # 0 <=> x[id] \in 1 .. n \/ \E k \in 1 .. Len(l) : l[k].id = id
  <2>1. CASE \E k \in 1 .. Len(l) : l[k].id = id
    <3>1. PICK k \in 1 .. Len(l) : l[k].id = id
      BY <2>1
    <3> QED
      BY <1>1, <1>2, <3>1
  <2>2. CASE ~\E k \in 1 .. Len(l) : l[k].id = id
    BY <1>1, <1>9, <2>2
  <2> QED
    BY <2>1, <2>2
<1>14. X \in [Ids -> 0 .. Len(D)]
  BY <1>10
<1>15. Consistent(D, X)
  BY <1>4, <1>11, <1>12, <1>14 DEF Consistent
<1> QED
  BY <1>4, <1>13, <1>15 DEF P, D, Loaded

-----------------------------------------------------------------------------
(* The ranges and their lists.                                               *)

\* The ids of the ranges are within bounds, the ranges share none, and one is
\* active once there are any.
LEMMA RangeFacts ==
    ASSUME TypeOK, RangesSound
    PROVE  /\ \A id \in Ids : id \in Int /\ 1 <= id /\ id <= MaxId
           /\ \A r \in Ranges : r.min \in Ids /\ r.max \in Ids /\ r.min <= r.max
           /\ ranges \subseteq Ranges
           /\ \/ ranges = {} /\ active_range = NoRange
              \/ active_range \in ranges /\ active_range # NoRange
           /\ max_id \in 0 .. MaxId
           /\ \A r \in Ranges : cur[r] \in 0 .. MaxId /\ LastId(r) \in 0 .. MaxId
           /\ \A r, s \in ranges : \A id \in Ids : In(r, id) /\ In(s, id) => r = s
<1>1. \A id \in Ids : id \in Int /\ 1 <= id /\ id <= MaxId
  BY MaxIdAssumption DEF Ids
<1>2. \A r \in Ranges : r.min \in Ids /\ r.max \in Ids /\ r.min <= r.max
  BY RangesAssumption
<1>3. ranges \subseteq Ranges /\ max_id \in 0 .. MaxId /\ active_range \in ranges \cup {NoRange}
  BY DEF TypeOK
<1>4. NoRange \notin ranges
  <2>1. NoRange.min = 0
    BY DEF NoRange
  <2> QED
    BY <1>1, <1>2, <1>3, <2>1
<1>5. \A r \in Ranges : cur[r] \in 0 .. MaxId /\ LastId(r) \in 0 .. MaxId
  BY DEF TypeOK, LastId
<1>6. ASSUME NEW r \in ranges, NEW s \in ranges, NEW id \in Ids, In(r, id), In(s, id)
      PROVE  r = s
  <2>1. Overlaps(r, s)
    BY <1>1, <1>2, <1>3, <1>6 DEF In, Overlaps
  <2> QED
    BY <2>1 DEF RangesSound
<1> QED
  BY <1>1, <1>2, <1>3, <1>4, <1>5, <1>6 DEF RangesSound

\* The lists hold entities.
LEMMA ListFacts ==
    ASSUME TypeOK, NEW r \in Ranges
    PROVE  /\ recycled[r] \in Seq(Entity) /\ Len(recycled[r]) \in Nat
           /\ DOMAIN recycled[r] = 1 .. Len(recycled[r])
           /\ \A k \in 1 .. Len(recycled[r]) : recycled[r][k] \in Entity /\ recycled[r][k].id \in Ids
<1>1. recycled[r] \in Seq(Entity)
  BY DEF TypeOK
<1>2. \A en \in Entity : en.id \in Ids
  BY DEF Entity
<1> QED
  BY <1>1, <1>2, LenProperties, ElementOfSeq

\* A step that leaves the ranges alone, loses no id of the index, and adds to it
\* none but ids of the active range up to the last that is issued then, keeps
\* what is said of ranges, lists and issued ids.
LEMMA GrowthKeeps ==
    ASSUME IInv, TypeOK', UNCHANGED rangeVars,
           \A id \in Ids : index_of[id] # 0 => index_of'[id] # 0,
           \A id \in Ids : index_of'[id] # 0 =>
               index_of[id] # 0 \/ (id <= max_id' /\ InActiveRange(id)),
           max_id <= max_id',
           \/ max_id' = max_id
           \/ max_id' \in Ids /\ InActiveRange(max_id') /\ index_of'[max_id'] # 0,
           \A e \in dead' : e \in dead \/ index_of'[e.id] # 0
    PROVE  /\ RangesSound' /\ ListsEmpty' /\ ListsSound'
           /\ IndexIssued' /\ LastKnown' /\ DeadKnown'
<1> USE DEF rangeVars
<1>1. /\ \A id \in Ids : id \in Int /\ 1 <= id /\ id <= MaxId
      /\ \A r \in Ranges : r.min \in Ids /\ r.max \in Ids /\ r.min <= r.max
      /\ ranges \subseteq Ranges
      /\ \/ ranges = {} /\ active_range = NoRange
         \/ active_range \in ranges /\ active_range # NoRange
      /\ max_id \in 0 .. MaxId
      /\ \A r \in Ranges : cur[r] \in 0 .. MaxId /\ LastId(r) \in 0 .. MaxId
      /\ \A r, s \in ranges : \A id \in Ids : In(r, id) /\ In(s, id) => r = s
  BY RangeFacts DEF IInv
<1>2. max_id' \in 0 .. MaxId /\ dead \subseteq Entity /\ dead' \subseteq Entity
  BY DEF IInv, TypeOK
<1>3. \A r \in ranges : LastId(r)' = IF r = active_range THEN max_id' ELSE LastId(r)
  BY DEF LastId
<1>4. \A id \in Ids : Known(id) => Known(id)'
  BY DEF Known
<1>5. RangesSound'
  <2>1. ASSUME NEW r \in ranges PROVE r.min - 1 <= LastId(r)' /\ LastId(r)' <= r.max
    <3>1. r.min - 1 <= LastId(r) /\ LastId(r) <= r.max
      BY DEF IInv, RangesSound
    <3>2. CASE r = active_range
      <4>1. LastId(r) = max_id /\ LastId(r)' = max_id'
        BY <3>2 DEF LastId
      <4>2. max_id' = max_id \/ max_id' <= r.max
        BY <1>1, <3>2 DEF InActiveRange, In
      <4> QED
        BY <1>1, <1>2, <3>1, <4>1, <4>2
    <3>3. CASE r # active_range
      BY <1>3, <3>1, <3>3
    <3> QED
      BY <3>2, <3>3
  <2>2. ranges = {} <=> active_range = NoRange
    BY DEF IInv, RangesSound
  <2>3. \A r, s \in ranges : r # s => ~Overlaps(r, s)
    BY DEF IInv, RangesSound
  <2> QED
    BY <2>1, <2>2, <2>3 DEF RangesSound
<1>6. ListsEmpty'
  BY DEF IInv, ListsEmpty
<1>7. ListsSound'
  <2> SUFFICES ASSUME NEW r \in ranges \ {active_range}, NEW k \in 1 .. Len(recycled[r])
               PROVE  /\ In(r, recycled[r][k].id) /\ recycled[r][k].id <= cur[r]
                      /\ index_of'[recycled[r][k].id] = 0
                      /\ \A j \in 1 .. Len(recycled[r]) :
                            recycled[r][j].id = recycled[r][k].id => j = k
    BY DEF ListsSound
  <2>1. /\ In(r, recycled[r][k].id) /\ recycled[r][k].id <= cur[r]
        /\ index_of[recycled[r][k].id] = 0
        /\ \A j \in 1 .. Len(recycled[r]) : recycled[r][j].id = recycled[r][k].id => j = k
    BY DEF IInv, ListsSound
  <2>2. recycled[r][k].id \in Ids
    BY <1>1, ListFacts DEF IInv
  <2>3. ~InActiveRange(recycled[r][k].id)
    BY <1>1, <2>1, <2>2 DEF InActiveRange
  <2> QED
    BY <2>1, <2>2, <2>3
<1>8. IndexIssued'
  <2> SUFFICES ASSUME NEW id \in Ids, index_of'[id] # 0 PROVE Issued(id)'
    BY DEF IndexIssued
  <2>1. CASE index_of[id] # 0
    <3>1. Issued(id)
      BY <2>1 DEF IInv, IndexIssued
    <3>2. \A r \in ranges : LastId(r) <= LastId(r)'
      BY <1>1, <1>2, <1>3 DEF LastId
    <3>3. \A r \in ranges : LastId(r) \in Int /\ LastId(r)' \in Int
      BY <1>1, <1>2, <1>3
    <3>4. CASE ranges = {}
      BY <1>1, <1>2, <3>1, <3>4 DEF Issued
    <3>5. CASE ranges # {}
      <4>1. PICK r \in ranges : In(r, id) /\ id <= LastId(r)
        BY <3>1, <3>5 DEF Issued
      <4>2. In(r, id)' /\ id <= LastId(r)'
        BY <1>1, <3>2, <3>3, <4>1 DEF In
      <4> QED
        BY <3>5, <4>2 DEF Issued
    <3> QED
      BY <3>4, <3>5
  <2>2. CASE id <= max_id' /\ InActiveRange(id)
    <3>1. CASE ranges = {}
      BY <2>2, <3>1 DEF Issued
    <3>2. CASE ranges # {}
      <4>1. active_range \in ranges /\ In(active_range, id) /\ id <= LastId(active_range)'
        BY <1>1, <1>3, <2>2, <3>2 DEF InActiveRange
      <4> QED
        BY <3>2, <4>1 DEF Issued, In
    <3> QED
      BY <3>1, <3>2
  <2> QED
    BY <2>1, <2>2
<1>9. LastKnown'
  <2>1. ASSUME NEW r \in ranges, r.min <= LastId(r)' PROVE Known(LastId(r))'
    <3>1. CASE LastId(r)' = LastId(r)
      <4>1. LastId(r) \in Ids
        BY <1>1, <2>1, <3>1 DEF Ids
      <4>2. Known(LastId(r))
        BY <2>1, <3>1 DEF IInv, LastKnown
      <4> QED
        BY <1>4, <3>1, <4>1, <4>2 DEF Known
    <3>2. CASE LastId(r)' # LastId(r)
      <4>1. LastId(r)' = max_id' /\ max_id' # max_id
        BY <1>3, <3>2 DEF LastId
      <4> QED
        BY <4>1 DEF Known
    <3> QED
      BY <3>1, <3>2
  <2>2. ASSUME ranges = {}, max_id' > 0 PROVE index_of'[max_id'] # 0
    <3>1. CASE max_id' = max_id
      <4>1. max_id \in Ids /\ max_id > 0
        BY <1>1, <2>2, <3>1 DEF Ids
      <4>2. index_of[max_id] # 0
        BY <2>2, <4>1 DEF IInv, LastKnown
      <4> QED
        BY <3>1, <4>1, <4>2
    <3> QED
      BY <3>1
  <2> QED
    BY <2>1, <2>2 DEF LastKnown
<1>10. DeadKnown'
  <2> SUFFICES ASSUME NEW e \in dead' PROVE Known(e.id)'
    BY DEF DeadKnown
  <2>1. e.id \in Ids
    BY <1>2 DEF Entity
  <2>2. CASE e \in dead
    BY <1>4, <2>1, <2>2 DEF IInv, DeadKnown
  <2>3. CASE index_of'[e.id] # 0
    BY <2>3 DEF Known
  <2> QED
    BY <2>2, <2>3
<1> QED
  BY <1>5, <1>6, <1>7, <1>8, <1>9, <1>10

-----------------------------------------------------------------------------
(* Every action keeps the invariant.                                         *)

\* The records and the dense vector of a state in which the invariant holds.
LEMMA IndexFacts ==
    ASSUME IInv
    PROVE  /\ Consistent(dense, index_of)
           /\ Len(dense) \in Nat /\ alive_count \in 1 .. Len(dense) + 1
           /\ \A k \in 1 .. Len(dense) : dense[k] \in Entity /\ dense[k].id \in Ids
           /\ \A id \in Ids : index_of[id] \in 0 .. Len(dense)
<1>1. Consistent(dense, index_of)
  BY DEF IInv, TypeOK, IndexConsistent, Consistent
<1> QED
  BY <1>1, ConsistentFacts DEF IInv, TypeOK

\* The first id that was not issued is not in the index.
LEMMA NextIdsFree ==
    ASSUME IInv, NEW id \in Ids, id > max_id, ranges # {} => id <= active_range.max
    PROVE  index_of[id] = 0
<1>1. /\ \A i \in Ids : i \in Int /\ 1 <= i /\ i <= MaxId
      /\ \A r \in Ranges : r.min \in Ids /\ r.max \in Ids /\ r.min <= r.max
      /\ ranges \subseteq Ranges
      /\ \/ ranges = {} /\ active_range = NoRange
         \/ active_range \in ranges /\ active_range # NoRange
      /\ max_id \in 0 .. MaxId
      /\ \A r, s \in ranges : \A i \in Ids : In(r, i) /\ In(s, i) => r = s
  BY RangeFacts DEF IInv
<1> SUFFICES ASSUME index_of[id] # 0 PROVE FALSE
  OBVIOUS
<1>2. Issued(id)
  BY DEF IInv, IndexIssued
<1>3. CASE ranges = {}
  BY <1>1, <1>2, <1>3 DEF Issued
<1>4. CASE ranges # {}
  <2>1. PICK r \in ranges : In(r, id) /\ id <= LastId(r)
    BY <1>2, <1>4 DEF Issued
  <2>2. active_range.min - 1 <= max_id
    BY <1>1, <1>4 DEF IInv, RangesSound, LastId
  <2>3. In(active_range, id)
    BY <1>1, <1>4, <2>2 DEF In
  <2>4. r = active_range
    BY <1>1, <1>4, <2>1, <2>3
  <2> QED
    BY <1>1, <2>1, <2>4 DEF LastId
<1> QED
  BY <1>3, <1>4

\* New ids are those that follow the last one, after what can be recycled.
LEMMA NewIdsFacts ==
    ASSUME IInv, OwnIdsOnly, NEW count \in 1 .. MaxBulk, NewIds(count)
    PROVE  /\ Consistent(dense', index_of')
           /\ Len(dense) \in Nat /\ Len(dense') \in Nat /\ Len(dense) <= Len(dense')
           /\ \A k \in 1 .. Len(dense) : dense'[k] = dense[k]
           /\ alive_count' = alive_count + count /\ alive_count' \in 1 .. Len(dense') + 1
           /\ alive_count' > alive_count
           /\ Len(dense') > Len(dense) => alive_count' = Len(dense') + 1
           /\ \A id \in Ids : index_of[id] # 0 => index_of'[id] # 0
           /\ \A id \in Ids : index_of'[id] # 0 =>
                 index_of[id] # 0 \/ (id <= max_id' /\ InActiveRange(id))
           /\ max_id <= max_id' /\ max_id' \in 0 .. MaxId
           /\ \/ max_id' = max_id
              \/ max_id' \in Ids /\ InActiveRange(max_id') /\ index_of'[max_id'] # 0
           /\ UNCHANGED <<rangeVars, dead, forced>>
<1> DEFINE missing == alive_count + count - (Len(dense) + 1)
           n == IF missing > 0 THEN missing ELSE 0
<1>1. /\ Consistent(dense, index_of)
      /\ Len(dense) \in Nat /\ alive_count \in 1 .. Len(dense) + 1
      /\ \A k \in 1 .. Len(dense) : dense[k] \in Entity /\ dense[k].id \in Ids
      /\ \A id \in Ids : index_of[id] \in 0 .. Len(dense)
  BY IndexFacts
<1>2. /\ \A i \in Ids : i \in Int /\ 1 <= i /\ i <= MaxId
      /\ \A r \in Ranges : r.min \in Ids /\ r.max \in Ids /\ r.min <= r.max
      /\ ranges \subseteq Ranges
      /\ \/ ranges = {} /\ active_range = NoRange
         \/ active_range \in ranges /\ active_range # NoRange
      /\ max_id \in 0 .. MaxId
  BY RangeFacts DEF IInv
<1>3. count \in Nat /\ count >= 1 /\ MaxId \in Nat
  BY MaxBulkAssumption, MaxIdAssumption
<1>4. n \in Nat
  BY <1>1, <1>3
<1>5. /\ max_id + n <= MaxId
      /\ active_range # NoRange => max_id + n <= active_range.max
      /\ dense' = dense \o [k \in 1 .. n |-> [id |-> max_id + k, gen |-> 0]]
      /\ index_of' = [id \in Ids |-> IF id \in max_id + 1 .. max_id + n
                                     THEN Len(dense) + id - max_id ELSE index_of[id]]
      /\ alive_count' = alive_count + count
      /\ max_id' = max_id + n
      /\ UNCHANGED <<rangeVars, dead, forced>>
  BY DEF NewIds
<1>6. /\ alive_count + count <= Len(dense) + n + 1
      /\ n > 0 => alive_count + count = Len(dense) + n + 1
  BY <1>1, <1>3
<1> HIDE DEF n
<1>7. \A id \in max_id + 1 .. max_id + n : id \in Ids /\ index_of[id] = 0 /\ InActiveRange(id)
  <2> SUFFICES ASSUME NEW id \in max_id + 1 .. max_id + n
               PROVE  id \in Ids /\ index_of[id] = 0 /\ InActiveRange(id)
    OBVIOUS
  <2>1. id \in Ids /\ id > max_id
    BY <1>2, <1>3, <1>4, <1>5 DEF Ids
  <2>2. ASSUME active_range # NoRange PROVE id <= active_range.max
    <3>1. active_range.max \in Int /\ max_id + n <= active_range.max
      BY <1>2, <1>5, <2>2
    <3> QED
      BY <1>2, <1>4, <2>1, <3>1
  <2>3. index_of[id] = 0
    BY <1>2, <2>1, <2>2, NextIdsFree
  <2>4. ASSUME active_range # NoRange PROVE In(active_range, id)
    <3>1. active_range.min \in Int /\ active_range.min - 1 <= max_id
      BY <1>2, <2>4 DEF IInv, RangesSound, LastId
    <3> QED
      BY <1>2, <2>1, <2>2, <2>4, <3>1 DEF In
  <2> QED
    BY <2>1, <2>3, <2>4 DEF InActiveRange
<1>8. /\ Consistent(dense', index_of')
      /\ Len(dense') = Len(dense) + n
      /\ \A k \in 1 .. Len(dense) : dense'[k] = dense[k]
      /\ \A id \in Ids : index_of'[id] # 0 <=> index_of[id] # 0 \/ id \in max_id + 1 .. max_id + n
  <2> DEFINE l == [k \in 1 .. n |-> [id |-> max_id + k, gen |-> 0]]
  <2>1. \A k \in 1 .. n : [id |-> max_id + k, gen |-> 0] \in Entity
    BY <1>2, <1>4, <1>5, MaxIdAssumption, GenCountAssumption DEF Entity, Ids, Gens
  <2>2. l \in Seq(Entity)
    BY <1>4, <2>1, IsASeq
  <2>3. Len(l) = n /\ \A k \in 1 .. n : l[k].id = max_id + k
    BY <1>4, <2>2, LenProperties
  <2>4. dense' = dense \o l
    BY <1>5
  <2> HIDE DEF l
  <2>5. \A id \in Ids : index_of'[id] = IF id \in max_id + 1 .. max_id + n
                                       THEN Len(dense) + id - max_id ELSE index_of[id]
    BY <1>5
  <2>6. index_of' \in [Ids -> Int]
    <3>1. \A id \in Ids : Len(dense) + id - max_id \in Int /\ index_of[id] \in Int
      BY <1>1, <1>2
    <3> QED
      BY <1>5, <3>1
  <2>7. /\ max_id \in Nat /\ n \in Nat /\ max_id + n <= MaxId
        /\ \A id \in max_id + 1 .. max_id + n : index_of[id] = 0
        /\ Consistent(dense, index_of)
    BY <1>1, <1>2, <1>4, <1>5, <1>7
  <2> QED
    <3>1. /\ Consistent(dense \o l, index_of')
          /\ Len(dense \o l) = Len(dense) + n
          /\ \A k \in 1 .. Len(dense) : (dense \o l)[k] = dense[k]
          /\ \A id \in Ids : index_of'[id] # 0 <=>
                               index_of[id] # 0 \/ id \in max_id + 1 .. max_id + n
      <4>1. Follow(dense, index_of, max_id, n, l, index_of')
        BY <2>2, <2>3, <2>5, <2>6, <2>7 DEF Follow
      <4> QED
        BY ONLY <2>7, <4>1, ConcatConsistent
    <3> QED
      BY <2>4, <3>1
<1>9. /\ alive_count' \in 1 .. Len(dense') + 1 /\ max_id' \in 0 .. MaxId
      /\ Len(dense) <= Len(dense') /\ alive_count' > alive_count /\ Len(dense') \in Nat
      /\ Len(dense') > Len(dense) => alive_count' = Len(dense') + 1
  BY <1>1, <1>2, <1>3, <1>4, <1>5, <1>6, <1>8
<1>10. \A id \in Ids : index_of'[id] # 0 =>
          index_of[id] # 0 \/ (id <= max_id' /\ InActiveRange(id))
  BY <1>2, <1>4, <1>5, <1>7, <1>8
<1>11. max_id <= max_id'
  BY <1>2, <1>4, <1>5
<1>12. \/ max_id' = max_id
       \/ max_id' \in Ids /\ InActiveRange(max_id') /\ index_of'[max_id'] # 0
  <2>1. n = 0 \/ max_id + n \in max_id + 1 .. max_id + n
    BY <1>2, <1>4
  <2>2. n = 0 => max_id' = max_id
    BY <1>2, <1>5
  <2> QED
    BY <1>5, <1>7, <1>8, <2>1, <2>2
<1> QED
  BY <1>1, <1>5, <1>8, <1>9, <1>10, <1>11, <1>12

\* The dense vector and the records, where the number of living entities is
\* within bounds, are a sound index.
LEMMA ConsistentTyped ==
    ASSUME IInv, Consistent(dense', index_of'), alive_count' \in 1 .. Len(dense') + 1,
           max_id' \in 0 .. MaxId, UNCHANGED rangeVars,
           dead' \subseteq Entity, forced' \in BOOLEAN
    PROVE  TypeOK' /\ IndexConsistent'
BY DEF IInv, TypeOK, IndexConsistent, Consistent, rangeVars

\* New ids are issued.
LEMMA NewIdsKeeps ==
    ASSUME IInv, OwnIdsOnly, NEW count \in 1 .. MaxBulk, NewIds(count)
    PROVE  IInv'
<1>1. /\ Consistent(dense', index_of')
      /\ Len(dense) \in Nat /\ Len(dense') \in Nat /\ Len(dense) <= Len(dense')
      /\ \A k \in 1 .. Len(dense) : dense'[k] = dense[k]
      /\ alive_count' = alive_count + count /\ alive_count' \in 1 .. Len(dense') + 1
      /\ alive_count' > alive_count
      /\ Len(dense') > Len(dense) => alive_count' = Len(dense') + 1
      /\ \A id \in Ids : index_of[id] # 0 => index_of'[id] # 0
      /\ \A id \in Ids : index_of'[id] # 0 =>
            index_of[id] # 0 \/ (id <= max_id' /\ InActiveRange(id))
      /\ max_id <= max_id' /\ max_id' \in 0 .. MaxId
      /\ \/ max_id' = max_id
         \/ max_id' \in Ids /\ InActiveRange(max_id') /\ index_of'[max_id'] # 0
      /\ UNCHANGED <<rangeVars, dead, forced>>
  BY NewIdsFacts
<1>2. TypeOK' /\ IndexConsistent'
  <2>1. dead' \subseteq Entity /\ forced' \in BOOLEAN
    BY <1>1 DEF IInv, TypeOK
  <2> QED
    BY <1>1, <2>1, ConsistentTyped
<1>3. NotAliveInRange'
  <2> SUFFICES ASSUME ranges # {}, NEW i \in alive_count' .. Len(dense')
               PROVE  In(active_range, dense'[i].id)
    BY <1>1 DEF NotAliveInRange, rangeVars, In
  <2>1. alive_count \in Nat /\ alive_count >= 1
    BY IndexFacts
  <2>2. i \in alive_count .. Len(dense) /\ i \in 1 .. Len(dense)
    BY <1>1, <2>1
  <2> QED
    BY <1>1, <2>2 DEF IInv, NotAliveInRange
<1>4. /\ RangesSound' /\ ListsEmpty' /\ ListsSound'
      /\ IndexIssued' /\ LastKnown' /\ DeadKnown'
  BY <1>1, <1>2, GrowthKeeps
<1> QED
  BY <1>2, <1>3, <1>4 DEF IInv

\* An entity that is made alive takes the place of the first that is not, which
\* takes the place it had, or the one behind the last.
LEMMA MakeAliveFacts ==
    ASSUME IInv, NEW e \in Entity, MakeAlive(e)
    PROVE  /\ Consistent(dense', index_of') /\ Len(dense') \in Nat
           /\ alive_count' = alive_count + 1 /\ alive_count \in 1 .. Len(dense')
           /\ dense'[alive_count] = e
           /\ \A k \in 1 .. alive_count - 1 : k \in 1 .. Len(dense) /\ dense'[k] = dense[k]
           /\ \A k \in alive_count + 1 .. Len(dense') :
                 \E m \in alive_count .. Len(dense) : dense'[k] = dense[m]
           /\ \A id \in Ids : index_of'[id] # 0 <=> index_of[id] # 0 \/ id = e.id
           /\ max_id' = IF index_of[e.id] = 0 /\ e.id > max_id THEN e.id ELSE max_id
           /\ UNCHANGED <<rangeVars, dead>> /\ forced' = TRUE
<1> DEFINE known == index_of[e.id] # 0
           d == IF known THEN dense ELSE Append(dense, e)
           x == IF known THEN index_of ELSE [index_of EXCEPT ![e.id] = Len(dense) + 1]
           i == IF known THEN index_of[e.id] ELSE Len(d)
           D == Swap(d, i, alive_count, e)
           X == SwapIndex(d, x, i, alive_count, e)
<1>1. /\ Consistent(dense, index_of)
      /\ Len(dense) \in Nat /\ alive_count \in 1 .. Len(dense) + 1
      /\ \A k \in 1 .. Len(dense) : dense[k] \in Entity /\ dense[k].id \in Ids
      /\ \A id \in Ids : index_of[id] \in 0 .. Len(dense)
  BY IndexFacts
<1>2. e.id \in Ids
  BY DEF Entity
<1>3. /\ ~IsIdAlive(e.id)
      /\ dense' = D
      /\ index_of' = [[index_of EXCEPT ![d[alive_count].id] = i] EXCEPT ![e.id] = alive_count]
      /\ alive_count' = alive_count + 1
      /\ max_id' = IF ~known /\ e.id > max_id THEN e.id ELSE max_id
      /\ UNCHANGED <<rangeVars, dead>> /\ forced' = TRUE
  BY DEF MakeAlive, Swap
<1>4. /\ Consistent(d, x) /\ Len(d) \in Nat
      /\ Len(d) >= Len(dense)
      /\ i \in 1 .. Len(d) /\ alive_count \in 1 .. Len(d) /\ i >= alive_count
      /\ d[i].id = e.id
      /\ \A k \in 1 .. Len(dense) : d[k] = dense[k]
      /\ \A id \in Ids : x[id] # 0 <=> index_of[id] # 0 \/ id = e.id
      /\ Len(d) > Len(dense) => i = Len(d) /\ Len(d) = Len(dense) + 1
  <2>1. CASE known
    <3>1. d = dense /\ x = index_of /\ i = index_of[e.id]
      BY <2>1
    <3>2. index_of[e.id] >= alive_count /\ index_of[e.id] \in 1 .. Len(dense)
      BY <1>1, <1>2, <1>3, <2>1 DEF IsIdAlive
    <3>3. dense[index_of[e.id]].id = e.id
      BY <1>1, <1>2, <2>1 DEF Consistent
    <3> HIDE DEF d, x, i
    <3> QED
      BY <1>1, <1>2, <2>1, <3>1, <3>2, <3>3
  <2>2. CASE ~known
    <3>1. d = Append(dense, e) /\ i = Len(d) /\ x = [index_of EXCEPT ![e.id] = Len(dense) + 1]
      BY <2>2
    <3> HIDE DEF d, x, i
    <3>2. Consistent(d, x)
      BY <1>1, <2>2, <3>1, AppendConsistent
    <3>3. /\ Len(d) = Len(dense) + 1 /\ d[Len(d)] = e
          /\ \A k \in 1 .. Len(dense) : d[k] = dense[k]
      BY <1>1, <3>1, AppendProperties DEF Consistent
    <3>4. \A id \in Ids : x[id] = IF id = e.id THEN Len(dense) + 1 ELSE index_of[id]
      BY <1>1, <1>2, <3>1 DEF Consistent
    <3> QED
      BY <1>1, <2>2, <3>1, <3>2, <3>3, <3>4
  <2> QED
    BY <2>1, <2>2
<1>5. index_of' = X
  <2> USE DEF SwapIndex
  <2>1. CASE known
    BY <1>3, <2>1
  <2>2. CASE ~known
    <3>1. x = [index_of EXCEPT ![e.id] = Len(dense) + 1]
      BY <2>2
    <3> HIDE DEF x, d, i
    <3> DEFINE s == d[alive_count].id
    <3>2. DOMAIN index_of = Ids
      BY <1>1 DEF Consistent
    <3> HIDE DEF s
    <3> QED
      BY <1>2, <1>3, <3>1, <3>2 DEF s
  <2> QED
    BY <2>1, <2>2
<1> HIDE DEF d, x, i
<1>6. /\ Consistent(D, X)
      /\ Len(D) = Len(d)
      /\ \A k \in 1 .. Len(d) : D[k] = IF k = alive_count THEN e
                                       ELSE IF k = i THEN d[alive_count] ELSE d[k]
      /\ \A id \in Ids : X[id] # 0 <=> x[id] # 0
  <2>1. /\ Consistent(d, x) /\ i \in 1 .. Len(d) /\ alive_count \in 1 .. Len(d)
        /\ e \in Entity /\ e.id = d[i].id
    BY <1>4
  <2> QED
    BY ONLY <2>1, SwapConsistent
<1> HIDE DEF D, X
<1>7. Consistent(dense', index_of') /\ Len(dense') = Len(d)
  BY <1>3, <1>5, <1>6
<1>8. \A id \in Ids : index_of'[id] # 0 <=> index_of[id] # 0 \/ id = e.id
  BY <1>4, <1>5, <1>6
<1>9. /\ \A k \in 1 .. alive_count - 1 : k \in 1 .. Len(dense) /\ dense'[k] = dense[k]
      /\ dense'[alive_count] = e
  <2>1. \A k \in 1 .. alive_count - 1 :
           k \in 1 .. Len(dense) /\ k \in 1 .. Len(d) /\ k # alive_count /\ k # i
    BY <1>1, <1>4
  <2> QED
    BY <1>3, <1>4, <1>6, <2>1
<1>10. ASSUME NEW k \in alive_count + 1 .. Len(dense')
       PROVE  \E m \in alive_count .. Len(dense) : dense'[k] = dense[m]
  <2>1. k \in 1 .. Len(d) /\ k > alive_count
    BY <1>1, <1>4, <1>7
  <2>2. dense'[k] = IF k = i THEN d[alive_count] ELSE d[k]
    BY <1>3, <1>4, <1>6, <2>1
  <2>3. alive_count \in alive_count .. Len(dense) /\ d[alive_count] = dense[alive_count]
    BY <1>1, <1>4, <2>1
  <2>4. k = i \/ (k \in alive_count .. Len(dense) /\ d[k] = dense[k])
    BY <1>1, <1>4, <2>1
  <2> QED
    BY <2>2, <2>3, <2>4
<1> QED
  BY <1>3, <1>4, <1>7, <1>8, <1>9, <1>10

\* An entity is made alive.
LEMMA MakeAliveKeeps ==
    ASSUME IInv, OwnIdsOnly, NEW e \in Entity, MakeAlive(e)
    PROVE  IInv'
<1>1. /\ Consistent(dense', index_of') /\ Len(dense') \in Nat
      /\ alive_count' = alive_count + 1 /\ alive_count \in 1 .. Len(dense')
      /\ \A k \in alive_count + 1 .. Len(dense') :
            \E m \in alive_count .. Len(dense) : dense'[k] = dense[m]
      /\ \A id \in Ids : index_of'[id] # 0 <=> index_of[id] # 0 \/ id = e.id
      /\ max_id' = IF index_of[e.id] = 0 /\ e.id > max_id THEN e.id ELSE max_id
      /\ UNCHANGED <<rangeVars, dead>> /\ forced' = TRUE
  BY MakeAliveFacts
<1>2. InActiveRange(e.id) /\ e.id \in Ids
  BY DEF MakeAlive, Entity
<1>3. /\ max_id \in 0 .. MaxId /\ max_id' \in 0 .. MaxId /\ MaxId \in Nat
      /\ \A id \in Ids : id \in Int
      /\ dead' \subseteq Entity
  BY <1>1, <1>2, MaxIdAssumption DEF IInv, TypeOK, Ids
<1>4. TypeOK' /\ IndexConsistent'
  <2>1. alive_count' \in 1 .. Len(dense') + 1
    BY <1>1
  <2> QED
    BY <1>1, <1>3, <2>1, ConsistentTyped
<1>5. NotAliveInRange'
  <2> SUFFICES ASSUME ranges # {}, NEW k \in alive_count + 1 .. Len(dense')
               PROVE  In(active_range, dense'[k].id)
    BY <1>1 DEF NotAliveInRange, rangeVars, In
  <2> QED
    BY <1>1 DEF IInv, NotAliveInRange
<1>6. /\ RangesSound' /\ ListsEmpty' /\ ListsSound'
      /\ IndexIssued' /\ LastKnown' /\ DeadKnown'
  <2>1. index_of[e.id] = 0 => e.id <= max_id'
    BY <1>1, <1>2, <1>3
  <2>2. \A id \in Ids : index_of'[id] # 0 =>
            index_of[id] # 0 \/ (id <= max_id' /\ InActiveRange(id))
    BY <1>1, <1>2, <2>1
  <2>3. max_id <= max_id'
    BY <1>1, <1>2, <1>3
  <2>4. \/ max_id' = max_id
        \/ max_id' \in Ids /\ InActiveRange(max_id') /\ index_of'[max_id'] # 0
    BY <1>1, <1>2
  <2> QED
    BY <1>1, <1>4, <2>2, <2>3, <2>4, GrowthKeeps
<1> QED
  BY <1>4, <1>5, <1>6 DEF IInv

\* The generation of an id that is in the index may be set, also where the id
\* can be recycled.
LEMMA SetVersionKeeps ==
    ASSUME IInv, NEW e \in Entity, SetVersion(e)
    PROVE  IInv'
<1> DEFINE i == index_of[e.id]
<1>1. /\ Consistent(dense, index_of)
      /\ Len(dense) \in Nat /\ alive_count \in 1 .. Len(dense) + 1
      /\ \A k \in 1 .. Len(dense) : dense[k] \in Entity /\ dense[k].id \in Ids
      /\ \A id \in Ids : index_of[id] \in 0 .. Len(dense)
  BY IndexFacts
<1>2. e.id \in Ids /\ i \in 1 .. Len(dense) /\ dense[i].id = e.id
  <2>1. e.id \in Ids
    BY DEF Entity
  <2> QED
    BY <1>1, <2>1 DEF SetVersion, Consistent
<1>3. /\ dense' = [dense EXCEPT ![i] = e] /\ index_of' = index_of
      /\ alive_count' = alive_count /\ max_id' = max_id
      /\ UNCHANGED rangeVars /\ forced' = TRUE
      /\ \A f \in dead' : f \in dead \/ f = dense[i]
  BY DEF SetVersion
<1>4. /\ dense' \in Seq(Entity) /\ Len(dense') = Len(dense)
      /\ \A k \in 1 .. Len(dense) : dense'[k] = IF k = i THEN e ELSE dense[k]
  BY <1>1, <1>2, <1>3, ExceptSeq DEF Consistent
<1> HIDE DEF i
<1>5. \A k \in 1 .. Len(dense) : dense'[k].id = dense[k].id
  BY <1>2, <1>4
<1>6. Consistent(dense', index_of')
  <2>1. \A k \in 1 .. Len(dense') : index_of'[dense'[k].id] = k
    BY <1>1, <1>3, <1>4, <1>5 DEF Consistent
  <2>2. \A id \in Ids : index_of'[id] # 0 => dense'[index_of'[id]].id = id
    BY <1>1, <1>3, <1>5 DEF Consistent
  <2> QED
    BY <1>1, <1>3, <1>4, <2>1, <2>2 DEF Consistent
<1>7. TypeOK' /\ IndexConsistent'
  <2>1. max_id' \in 0 .. MaxId /\ dead' \subseteq Entity
    BY <1>1, <1>2, <1>3 DEF IInv, TypeOK
  <2> QED
    BY <1>1, <1>3, <1>4, <1>6, <2>1, ConsistentTyped
<1>8. NotAliveInRange'
  <2> SUFFICES ASSUME ranges # {}, NEW k \in alive_count .. Len(dense)
               PROVE  In(active_range, dense'[k].id)
    BY <1>3, <1>4 DEF NotAliveInRange, rangeVars, In
  <2>1. k \in 1 .. Len(dense)
    BY <1>1
  <2> QED
    BY <1>5, <2>1 DEF IInv, NotAliveInRange
<1>9. /\ RangesSound' /\ ListsEmpty' /\ ListsSound'
      /\ IndexIssued' /\ LastKnown' /\ DeadKnown'
  <2>1. \A f \in dead' : f \in dead \/ index_of'[f.id] # 0
    <3>1. index_of'[dense[i].id] # 0
      BY <1>1, <1>2, <1>3 DEF Consistent
    <3> QED
      BY <1>3, <3>1
  <2>2. max_id <= max_id'
    BY <1>3 DEF IInv, TypeOK
  <2> QED
    BY <1>3, <1>7, <2>1, <2>2, GrowthKeeps
<1> QED
  BY <1>7, <1>8, <1>9 DEF IInv

\* A deleted entity changes places with the last that is alive, and gets the
\* next generation.
LEMMA RemovedFacts ==
    ASSUME IInv, NEW e \in Entity, IsAlive(e)
    PROVE  /\ Consistent(RemovedDense(e), RemovedIndex(e))
           /\ Len(RemovedDense(e)) = Len(dense)
           /\ alive_count - 1 \in 1 .. Len(dense)
           /\ index_of[e.id] # 0
           /\ RemovedDense(e)[alive_count - 1].id = e.id
           /\ RemovedDense(e)[alive_count - 1] = NextGeneration(e)
           /\ \A k \in 1 .. Len(dense) : k # alive_count - 1 => RemovedDense(e)[k] =
                 IF k = index_of[e.id] THEN dense[alive_count - 1] ELSE dense[k]
           /\ index_of[e.id] \in 1 .. alive_count - 1 /\ dense[index_of[e.id]] = e
           /\ \A k \in alive_count .. Len(dense) : RemovedDense(e)[k] = dense[k]
           /\ \A id \in Ids : RemovedIndex(e)[id] # 0 <=> index_of[id] # 0
           /\ NextGeneration(e) \in Entity /\ NextGeneration(e).id = e.id
           /\ NextGeneration(e).gen = (e.gen + 1) % GenCount
<1> DEFINE i == index_of[e.id]
           j == alive_count - 1
           E == NextGeneration(e)
<1>1. /\ Consistent(dense, index_of)
      /\ Len(dense) \in Nat /\ alive_count \in 1 .. Len(dense) + 1
      /\ \A k \in 1 .. Len(dense) : dense[k] \in Entity /\ dense[k].id \in Ids
      /\ \A id \in Ids : index_of[id] \in 0 .. Len(dense)
  BY IndexFacts
<1>2. e.id \in Ids /\ i # 0 /\ i < alive_count /\ dense[i] = e
  BY DEF Entity, IsAlive
<1>3. E \in Entity /\ E.id = e.id /\ E.gen = (e.gen + 1) % GenCount
  <2>1. (e.gen + 1) % GenCount \in Gens
    BY GenCountAssumption DEF Entity, Gens
  <2> QED
    BY <2>1 DEF NextGeneration, Entity
<1>4. RemovedDense(e) = Swap(dense, i, j, E)
  BY DEF RemovedDense, Swap
<1>5. RemovedIndex(e) = SwapIndex(dense, index_of, i, j, E)
  BY <1>3 DEF RemovedIndex, SwapIndex
<1> HIDE DEF i, E
<1>6. i \in 1 .. Len(dense) /\ j \in 1 .. Len(dense) /\ i <= j
  BY <1>1, <1>2 DEF i
<1> HIDE DEF j
<1>7. /\ Consistent(Swap(dense, i, j, E), SwapIndex(dense, index_of, i, j, E))
      /\ Len(Swap(dense, i, j, E)) = Len(dense)
      /\ \A k \in 1 .. Len(dense) : Swap(dense, i, j, E)[k] =
             IF k = j THEN E ELSE IF k = i THEN dense[j] ELSE dense[k]
      /\ \A id \in Ids : SwapIndex(dense, index_of, i, j, E)[id] # 0 <=> index_of[id] # 0
  <2>1. Consistent(dense, index_of) /\ E \in Entity /\ E.id = dense[i].id
    BY <1>1, <1>2, <1>3
  <2> QED
    BY ONLY <1>6, <2>1, SwapConsistent
<1>8. \A k \in alive_count .. Len(dense) : k \in 1 .. Len(dense) /\ k # j /\ k # i
  BY <1>1, <1>6 DEF j
<1> QED
  BY <1>2, <1>3, <1>4, <1>5, <1>6, <1>7, <1>8 DEF i, j, E

\* An entity whose id is of the active range is deleted: its id can be recycled
\* from the dense vector.
LEMMA DeleteInRangeKeeps ==
    ASSUME IInv, NEW e \in Entity, Delete(e), InActiveRange(e.id)
    PROVE  IInv'
<1>1. /\ Consistent(dense, index_of)
      /\ Len(dense) \in Nat /\ alive_count \in 1 .. Len(dense) + 1
      /\ \A k \in 1 .. Len(dense) : dense[k] \in Entity /\ dense[k].id \in Ids
      /\ \A id \in Ids : index_of[id] \in 0 .. Len(dense)
  BY IndexFacts
<1>2. /\ dense' = RemovedDense(e) /\ index_of' = RemovedIndex(e)
      /\ alive_count' = alive_count - 1 /\ max_id' = max_id
      /\ dead' = dead \cup {e} /\ forced' = (forced \/ e.gen = GenCount - 1)
      /\ UNCHANGED rangeVars
      /\ IsAlive(e)
  BY DEF Delete, rangeVars
<1>3. /\ Consistent(dense', index_of')
      /\ Len(dense') = Len(dense)
      /\ alive_count - 1 \in 1 .. Len(dense)
      /\ index_of[e.id] # 0
      /\ dense'[alive_count - 1].id = e.id
      /\ \A k \in alive_count .. Len(dense) : dense'[k] = dense[k]
      /\ \A id \in Ids : index_of'[id] # 0 <=> index_of[id] # 0
  BY <1>2, RemovedFacts
<1>4. e.id \in Ids
  BY DEF Entity
<1>5. TypeOK' /\ IndexConsistent'
  <2>1. /\ max_id' \in 0 .. MaxId /\ dead' \subseteq Entity /\ forced' \in BOOLEAN
        /\ alive_count' \in 1 .. Len(dense') + 1
    BY <1>1, <1>2, <1>3 DEF IInv, TypeOK
  <2> QED
    BY <1>2, <1>3, <2>1, ConsistentTyped
<1>6. NotAliveInRange'
  <2> SUFFICES ASSUME ranges # {}, NEW k \in alive_count - 1 .. Len(dense)
               PROVE  In(active_range, dense'[k].id)
    BY <1>2, <1>3 DEF NotAliveInRange, rangeVars, In
  <2>1. CASE k = alive_count - 1
    <3>1. active_range # NoRange
      BY DEF IInv, RangesSound
    <3> QED
      BY <1>3, <2>1, <3>1 DEF InActiveRange
  <2>2. CASE k # alive_count - 1
    <3>1. k \in alive_count .. Len(dense)
      BY <1>1, <2>2
    <3> QED
      BY <1>3, <3>1 DEF IInv, NotAliveInRange
  <2> QED
    BY <2>1, <2>2
<1>7. /\ RangesSound' /\ ListsEmpty' /\ ListsSound'
      /\ IndexIssued' /\ LastKnown' /\ DeadKnown'
  <2>1. \A f \in dead' : f \in dead \/ index_of'[f.id] # 0
    BY <1>2, <1>3, <1>4
  <2>2. max_id <= max_id'
    BY <1>2 DEF IInv, TypeOK
  <2> QED
    BY <1>2, <1>3, <1>5, <2>1, <2>2, GrowthKeeps
<1> QED
  BY <1>5, <1>6, <1>7 DEF IInv

\* An entity whose id is of another range is deleted: its id leaves the index
\* for the list of its range.
LEMMA DeleteOutOfRangeKeeps ==
    ASSUME IInv, NEW e \in Entity, Delete(e), ~InActiveRange(e.id)
    PROVE  IInv'
<1> DEFINE j == alive_count - 1
           E == NextGeneration(e)
<1>1. /\ Consistent(dense, index_of)
      /\ Len(dense) \in Nat /\ alive_count \in 1 .. Len(dense) + 1
      /\ \A k \in 1 .. Len(dense) : dense[k] \in Entity /\ dense[k].id \in Ids
      /\ \A id \in Ids : index_of[id] \in 0 .. Len(dense)
  BY IndexFacts
<1>2. /\ \A id \in Ids : id \in Int /\ 1 <= id /\ id <= MaxId
      /\ \A r \in Ranges : r.min \in Ids /\ r.max \in Ids /\ r.min <= r.max
      /\ ranges \subseteq Ranges
      /\ \/ ranges = {} /\ active_range = NoRange
         \/ active_range \in ranges /\ active_range # NoRange
      /\ max_id \in 0 .. MaxId
      /\ \A r \in Ranges : cur[r] \in 0 .. MaxId /\ LastId(r) \in 0 .. MaxId
      /\ \A r, s \in ranges : \A id \in Ids : In(r, id) /\ In(s, id) => r = s
  BY RangeFacts DEF IInv
<1>3. /\ dense' = Drop(RemovedDense(e), j)
      /\ index_of' = DropIndex(RemovedDense(e), RemovedIndex(e), j, e.id)
      /\ recycled' = [r \in Ranges |-> IF r \in RangesOf(e.id) THEN Append(recycled[r], E)
                                       ELSE recycled[r]]
      /\ alive_count' = alive_count - 1 /\ max_id' = max_id
      /\ dead' = dead \cup {e} /\ forced' = (forced \/ e.gen = GenCount - 1)
      /\ UNCHANGED <<ranges, cur, active_range>>
      /\ IsAlive(e)
  BY DEF Delete, Drop, DropIndex
<1>4. e.id \in Ids
  BY DEF Entity
<1>5. /\ Consistent(RemovedDense(e), RemovedIndex(e))
      /\ Len(RemovedDense(e)) = Len(dense)
      /\ j \in 1 .. Len(dense)
      /\ index_of[e.id] # 0
      /\ RemovedDense(e)[j].id = e.id
      /\ \A k \in alive_count .. Len(dense) : RemovedDense(e)[k] = dense[k]
      /\ \A id \in Ids : RemovedIndex(e)[id] # 0 <=> index_of[id] # 0
      /\ E \in Entity /\ E.id = e.id
  BY <1>3, RemovedFacts
<1> HIDE DEF E
<1>6. /\ Consistent(dense', index_of')
      /\ Len(dense') = Len(dense) - 1
      /\ \A k \in 1 .. Len(dense) - 1 :
            dense'[k] = IF k = j THEN RemovedDense(e)[Len(dense)] ELSE RemovedDense(e)[k]
      /\ \A id \in Ids : index_of'[id] # 0 <=> index_of[id] # 0 /\ id # e.id
  <2>1. j \in 1 .. Len(RemovedDense(e))
    BY <1>5
  <2> HIDE DEF j
  <2>2. /\ Consistent(Drop(RemovedDense(e), j), DropIndex(RemovedDense(e), RemovedIndex(e), j, e.id))
        /\ Len(Drop(RemovedDense(e), j)) = Len(RemovedDense(e)) - 1
        /\ \A k \in 1 .. Len(RemovedDense(e)) - 1 : Drop(RemovedDense(e), j)[k] =
              IF k = j THEN RemovedDense(e)[Len(RemovedDense(e))] ELSE RemovedDense(e)[k]
        /\ \A id \in Ids : DropIndex(RemovedDense(e), RemovedIndex(e), j, e.id)[id] # 0 <=>
              RemovedIndex(e)[id] # 0 /\ id # e.id
    BY <1>4, <1>5, <2>1, DropConsistent
  <2> QED
    BY <1>3, <1>5, <2>2
<1>7. PICK o \in ranges : In(o, e.id) /\ e.id <= LastId(o)
  <2>1. ranges # {}
    BY <1>2 DEF InActiveRange
  <2> QED
    BY <1>4, <1>5, <2>1 DEF IInv, IndexIssued, Issued
<1>8. /\ o # active_range /\ LastId(o) = cur[o]
      /\ \A r \in Ranges : r \in RangesOf(e.id) <=> r = o
  <2>1. o # active_range
    BY <1>7 DEF InActiveRange
  <2> QED
    BY <1>2, <1>4, <1>7, <2>1 DEF LastId, RangesOf
<1>9. /\ recycled' \in [Ranges -> Seq(Entity)]
      /\ \A r \in Ranges : r # o => recycled'[r] = recycled[r]
      /\ Len(recycled'[o]) = Len(recycled[o]) + 1 /\ Len(recycled[o]) \in Nat
      /\ \A k \in 1 .. Len(recycled[o]) : recycled'[o][k] = recycled[o][k]
      /\ recycled'[o][Len(recycled[o]) + 1] = E
  <2>1. recycled' = [r \in Ranges |-> IF r = o THEN Append(recycled[r], E) ELSE recycled[r]]
    BY <1>3, <1>8
  <2>2. \A r \in Ranges : recycled[r] \in Seq(Entity)
    BY DEF IInv, TypeOK
  <2>3. recycled' \in [Ranges -> Seq(Entity)]
    BY <1>5, <2>1, <2>2, AppendProperties
  <2>4. \A r \in Ranges : r # o => recycled'[r] = recycled[r]
    BY <2>1
  <2>5. recycled'[o] = Append(recycled[o], E)
    BY <1>2, <2>1
  <2>6. recycled[o] \in Seq(Entity)
    BY <1>2, <2>2
  <2> QED
    BY <1>5, <2>3, <2>4, <2>5, <2>6, AppendProperties, LenProperties
<1>10. TypeOK' /\ IndexConsistent'
  <2>1. /\ max_id' \in 0 .. MaxId /\ dead' \subseteq Entity /\ forced' \in BOOLEAN
        /\ alive_count' \in 1 .. Len(dense') + 1
    BY <1>1, <1>3, <1>5, <1>6 DEF IInv, TypeOK
  <2> QED
    BY <1>3, <1>6, <1>9, <2>1 DEF IInv, TypeOK, IndexConsistent, Consistent
<1>11. \A r \in ranges : LastId(r)' = LastId(r)
  BY <1>3 DEF LastId
<1>12. RangesSound'
  BY <1>3, <1>11 DEF IInv, RangesSound
<1>13. NotAliveInRange'
  <2> SUFFICES ASSUME ranges # {}, NEW k \in j .. Len(dense) - 1
               PROVE  In(active_range, dense'[k].id)
    BY <1>3, <1>6 DEF NotAliveInRange, In
  <2>1. k \in 1 .. Len(dense) - 1
    BY <1>1, <1>5
  <2>2. \A h \in alive_count .. Len(dense) :
            RemovedDense(e)[h] = dense[h] /\ In(active_range, dense[h].id)
    BY <1>5 DEF IInv, NotAliveInRange
  <2>3. CASE k = j
    <3>1. Len(dense) \in alive_count .. Len(dense)
      BY <1>1, <2>1, <2>3
    <3> QED
      BY <1>6, <2>1, <2>2, <2>3, <3>1
  <2>4. CASE k # j
    <3>1. k \in alive_count .. Len(dense)
      BY <1>1, <2>1, <2>4
    <3> QED
      BY <1>6, <2>1, <2>2, <2>4, <3>1
  <2> QED
    BY <2>3, <2>4
<1>14. ListsEmpty'
  BY <1>2, <1>3, <1>8, <1>9 DEF IInv, ListsEmpty
<1>15. ListsSound'
  <2> SUFFICES ASSUME NEW r \in ranges \ {active_range}, NEW k \in 1 .. Len(recycled'[r])
               PROVE  /\ In(r, recycled'[r][k].id) /\ recycled'[r][k].id <= cur[r]
                      /\ index_of'[recycled'[r][k].id] = 0
                      /\ \A m \in 1 .. Len(recycled'[r]) :
                            recycled'[r][m].id = recycled'[r][k].id => m = k
    <3>1. ranges' = ranges /\ active_range' = active_range /\ cur' = cur
      BY <1>3
    <3> QED
      BY <3>1 DEF ListsSound, In
  <2>1. \A m \in 1 .. Len(recycled[r]) :
           /\ recycled[r][m].id \in Ids /\ recycled[r][m].id # e.id
           /\ In(r, recycled[r][m].id) /\ recycled[r][m].id <= cur[r]
           /\ index_of'[recycled[r][m].id] = 0
           /\ \A h \in 1 .. Len(recycled[r]) : recycled[r][h].id = recycled[r][m].id => h = m
    <3> SUFFICES ASSUME NEW m \in 1 .. Len(recycled[r])
                 PROVE  /\ recycled[r][m].id \in Ids /\ recycled[r][m].id # e.id
                        /\ In(r, recycled[r][m].id) /\ recycled[r][m].id <= cur[r]
                        /\ index_of'[recycled[r][m].id] = 0
                        /\ \A h \in 1 .. Len(recycled[r]) :
                              recycled[r][h].id = recycled[r][m].id => h = m
      OBVIOUS
    <3>1. recycled[r][m].id \in Ids
      BY <1>2, ListFacts DEF IInv
    <3>2. /\ In(r, recycled[r][m].id) /\ recycled[r][m].id <= cur[r]
          /\ index_of[recycled[r][m].id] = 0
          /\ \A h \in 1 .. Len(recycled[r]) : recycled[r][h].id = recycled[r][m].id => h = m
      BY DEF IInv, ListsSound
    <3> QED
      BY <1>5, <1>6, <3>1, <3>2
  <2>2. CASE r # o
    BY <1>2, <1>9, <2>1, <2>2
  <2>3. CASE r = o
    <3>1. index_of'[e.id] = 0
      BY <1>4, <1>6
    <3>2. \A m \in 1 .. Len(recycled'[r]) :
             m \in 1 .. Len(recycled[r]) \/ m = Len(recycled[r]) + 1
      BY <1>9, <2>3
    <3>3. \A m \in 1 .. Len(recycled[r]) : recycled'[r][m] = recycled[r][m]
      BY <1>9, <2>3
    <3>4. recycled'[r][Len(recycled[r]) + 1].id = e.id
      BY <1>5, <1>9, <2>3
    <3>5. CASE k \in 1 .. Len(recycled[r])
      BY <2>1, <3>2, <3>3, <3>4, <3>5
    <3>6. CASE k = Len(recycled[r]) + 1
      <4>1. In(r, e.id) /\ e.id <= cur[r]
        BY <1>7, <1>8, <2>3
      <4> QED
        BY <2>1, <3>1, <3>2, <3>3, <3>4, <3>6, <4>1
    <3> QED
      BY <3>2, <3>5, <3>6
  <2> QED
    BY <2>2, <2>3
<1>16. IndexIssued'
  <2> SUFFICES ASSUME NEW id \in Ids, index_of'[id] # 0 PROVE Issued(id)'
    BY DEF IndexIssued
  <2>1. Issued(id)
    BY <1>6 DEF IInv, IndexIssued
  <2> QED
    BY <1>3, <1>11, <2>1 DEF Issued, In
<1>17. \A id \in Ids : Known(id) => Known(id)'
  <2> SUFFICES ASSUME NEW id \in Ids, Known(id) PROVE Known(id)'
    OBVIOUS
  <2>1. CASE id = e.id
    <3>1. Len(recycled[o]) + 1 \in 1 .. Len(recycled'[o])
      BY <1>9
    <3>2. recycled'[o][Len(recycled[o]) + 1].id = id
      BY <1>5, <1>9, <2>1
    <3>3. o \in ranges' \ {active_range'}
      BY <1>3, <1>8
    <3> QED
      BY ONLY <3>1, <3>2, <3>3 DEF Known
  <2>2. CASE id # e.id /\ index_of[id] # 0
    BY <1>6, <2>2 DEF Known
  <2>3. CASE \E r \in ranges \ {active_range} :
                \E k \in 1 .. Len(recycled[r]) : recycled[r][k].id = id
    <3>1. PICK r \in ranges \ {active_range} :
                  \E k \in 1 .. Len(recycled[r]) : recycled[r][k].id = id
      BY <2>3
    <3>2. PICK k \in 1 .. Len(recycled[r]) : recycled[r][k].id = id
      BY <3>1
    <3>3. k \in 1 .. Len(recycled'[r]) /\ recycled'[r][k] = recycled[r][k]
      <4>1. CASE r = o
        BY <1>9, <4>1
      <4>2. CASE r # o
        BY <1>2, <1>9, <4>2
      <4> QED
        BY <4>1, <4>2
    <3> QED
      BY <1>3, <3>2, <3>3 DEF Known
  <2> QED
    BY <2>1, <2>2, <2>3 DEF Known
<1>18. LastKnown'
  <2>1. ASSUME NEW r \in ranges, r.min <= LastId(r) PROVE Known(LastId(r))'
    <3>1. LastId(r) \in Ids /\ LastId(r)' = LastId(r)
      BY <1>2, <1>11, <2>1 DEF Ids
    <3>2. Known(LastId(r))
      BY <2>1 DEF IInv, LastKnown
    <3> QED
      BY <1>17, <3>1, <3>2 DEF Known
  <2>2. ranges # {}
    BY <1>7
  <2> QED
    BY <1>3, <1>11, <2>1, <2>2 DEF LastKnown
<1>19. DeadKnown'
  <2>1. \A f \in dead : f.id \in Ids /\ Known(f.id)
    BY DEF IInv, DeadKnown, TypeOK, Entity
  <2>2. Known(e.id)
    BY <1>5 DEF Known
  <2> QED
    BY <1>3, <1>4, <1>17, <2>1, <2>2 DEF DeadKnown
<1> QED
  BY <1>10, <1>12, <1>13, <1>14, <1>15, <1>16, <1>18, <1>19 DEF IInv

\* What creating range r leaves: the ranges that were there, as they were, and
\* new ones, of which the one that is active, if there was none, begins with the
\* first id and holds all that were issued, and the others have issued none.
LEMMA RangeNewFacts ==
    ASSUME IInv, NEW r \in Ranges, RangeNew(r)
    PROVE  /\ ranges \subseteq ranges' /\ ranges' \subseteq Ranges
           /\ active_range' \in ranges'
           /\ cur' \in [Ranges -> 0 .. MaxId]
           /\ UNCHANGED <<indexVars, recycled, dead, forced>>
           /\ alive_count = Len(dense) + 1
           /\ \A s, t \in ranges' : s # t => ~Overlaps(s, t)
           /\ ranges # {} => active_range' = active_range
           /\ \A s \in ranges : ranges # {} /\ LastId(s)' = LastId(s) /\ cur'[s] = cur[s]
           /\ \A s \in ranges' \ ranges :
                 \/ /\ ranges = {} /\ s = active_range' /\ LastId(s)' = max_id
                    /\ s.min = 1 /\ max_id <= s.max
                 \/ s # active_range' /\ LastId(s)' = s.min - 1
<1> DEFINE default == [min |-> 1, max |-> r.min - 1]
<1>1. /\ \A id \in Ids : id \in Int /\ 1 <= id /\ id <= MaxId
      /\ \A s \in Ranges : s.min \in Ids /\ s.max \in Ids /\ s.min <= s.max
      /\ ranges \subseteq Ranges
      /\ \/ ranges = {} /\ active_range = NoRange
         \/ active_range \in ranges /\ active_range # NoRange
      /\ max_id \in 0 .. MaxId
      /\ \A s \in Ranges : cur[s] \in 0 .. MaxId
  BY RangeFacts DEF IInv
<1>2. /\ default.min = 1 /\ default.max = r.min - 1
      /\ r.min \in Int /\ r.min >= 1 /\ r.min <= r.max /\ r.max \in Int /\ MaxId \in Nat
      /\ r.min - 1 \in 0 .. MaxId /\ NewCur(r) = r.min - 1
  BY <1>1, MaxIdAssumption DEF NewCur
<1>3. cur \in [Ranges -> 0 .. MaxId]
  BY DEF IInv, TypeOK
<1>4. /\ r \notin ranges /\ alive_count = Len(dense) + 1
      /\ \A s \in ranges : ~Overlaps(r, s)
      /\ UNCHANGED <<indexVars, recycled, dead, forced>>
  BY DEF RangeNew
<1>5. CASE ranges = {} /\ r.min = 1
  <2>1. /\ ranges' = {r} /\ active_range' = r
        /\ cur' = [cur EXCEPT ![r] = max_id] /\ max_id <= r.max
    BY <1>1, <1>2, <1>5 DEF RangeNew
  <2>2. LastId(r)' = max_id
    BY <1>4, <2>1 DEF LastId, indexVars
  <2>3. cur' \in [Ranges -> 0 .. MaxId]
    BY <1>1, <1>3, <2>1
  <2> QED
    BY <1>4, <1>5, <2>1, <2>2, <2>3
<1>6. CASE ranges = {} /\ r.min > 1
  <2>1. /\ ranges' = {r, default} /\ active_range' = default /\ default \in Ranges
        /\ cur' = [[cur EXCEPT ![r] = NewCur(r)] EXCEPT ![default] = max_id]
        /\ max_id < r.min
    BY <1>2, <1>6 DEF RangeNew
  <2>2. r # default /\ max_id <= default.max
    BY <1>1, <1>2, <1>6, <2>1
  <2> HIDE DEF default
  <2>3. cur' \in [Ranges -> 0 .. MaxId] /\ cur'[r] = r.min - 1
    BY <1>1, <1>2, <1>3, <2>1, <2>2
  <2>4. LastId(r)' = r.min - 1 /\ LastId(default)' = max_id
    BY <1>4, <2>1, <2>2, <2>3 DEF LastId, indexVars
  <2>5. ~Overlaps(r, default) /\ ~Overlaps(default, r)
    BY <1>2 DEF Overlaps
  <2>6. \A s, t \in ranges' : s # t => ~Overlaps(s, t)
    BY <2>1, <2>5
  <2>7. \A s \in ranges' \ ranges :
           \/ /\ ranges = {} /\ s = active_range' /\ LastId(s)' = max_id
              /\ s.min = 1 /\ max_id <= s.max
           \/ s # active_range' /\ LastId(s)' = s.min - 1
    BY <1>2, <1>6, <2>1, <2>2, <2>4
  <2> QED
    BY <1>4, <1>6, <2>1, <2>3, <2>6, <2>7
<1>7. CASE ranges # {}
  <2>1. /\ ranges' = ranges \cup {r} /\ active_range' = active_range
        /\ cur' = [cur EXCEPT ![r] = NewCur(r)]
    BY <1>7 DEF RangeNew
  <2>2. cur' \in [Ranges -> 0 .. MaxId] /\ cur'[r] = r.min - 1
        /\ \A s \in ranges : cur'[s] = cur[s]
    BY <1>1, <1>2, <1>3, <1>4, <2>1
  <2>3. \A s \in ranges : LastId(s)' = LastId(s)
    BY <1>4, <2>1, <2>2 DEF LastId, indexVars
  <2>4. r # active_range /\ LastId(r)' = r.min - 1
    BY <1>1, <1>4, <1>7, <2>1, <2>2 DEF LastId
  <2>5. \A s \in ranges : ~Overlaps(s, r)
    BY <1>1, <1>4 DEF Overlaps
  <2>6. \A s, t \in ranges' : s # t => ~Overlaps(s, t)
    BY <1>4, <2>1, <2>5 DEF IInv, RangesSound
  <2> QED
    BY <1>1, <1>4, <1>7, <2>1, <2>2, <2>3, <2>4, <2>6
<1> QED
  BY <1>1, <1>2, <1>5, <1>6, <1>7

\* A range is created where nothing can be recycled.
LEMMA RangeNewKeeps ==
    ASSUME IInv, NEW r \in Ranges, RangeNew(r)
    PROVE  IInv'
<1>1. /\ \A id \in Ids : id \in Int /\ 1 <= id /\ id <= MaxId
      /\ \A s \in Ranges : s.min \in Ids /\ s.max \in Ids /\ s.min <= s.max
      /\ ranges \subseteq Ranges
      /\ \/ ranges = {} /\ active_range = NoRange
         \/ active_range \in ranges /\ active_range # NoRange
      /\ max_id \in 0 .. MaxId
      /\ \A s \in Ranges : cur[s] \in 0 .. MaxId /\ LastId(s) \in 0 .. MaxId
  BY RangeFacts DEF IInv
<1>2. /\ ranges \subseteq ranges' /\ ranges' \subseteq Ranges
      /\ active_range' \in ranges'
      /\ cur' \in [Ranges -> 0 .. MaxId]
      /\ UNCHANGED <<indexVars, recycled, dead, forced>>
      /\ alive_count = Len(dense) + 1
      /\ \A s, t \in ranges' : s # t => ~Overlaps(s, t)
      /\ ranges # {} => active_range' = active_range
      /\ \A s \in ranges : ranges # {} /\ LastId(s)' = LastId(s) /\ cur'[s] = cur[s]
      /\ \A s \in ranges' \ ranges :
            \/ /\ ranges = {} /\ s = active_range' /\ LastId(s)' = max_id
               /\ s.min = 1 /\ max_id <= s.max
            \/ s # active_range' /\ LastId(s)' = s.min - 1
  BY RangeNewFacts
<1>3. /\ dense' = dense /\ alive_count' = alive_count /\ index_of' = index_of
      /\ max_id' = max_id /\ recycled' = recycled /\ dead' = dead /\ forced' = forced
  BY <1>2 DEF indexVars
<1>4. TypeOK' /\ IndexConsistent'
  BY <1>2, <1>3 DEF IInv, TypeOK, IndexConsistent
<1>5. RangesSound'
  <2>1. ASSUME NEW s \in ranges' PROVE s.min - 1 <= LastId(s)' /\ LastId(s)' <= s.max
    <3>1. CASE s \in ranges
      BY <1>2, <3>1 DEF IInv, RangesSound
    <3>2. CASE s \notin ranges
      BY <1>1, <1>2, <3>2
    <3> QED
      BY <3>1, <3>2
  <2>2. active_range' # NoRange
    <3>1. NoRange.min = 0
      BY DEF NoRange
    <3> QED
      BY <1>1, <1>2, <3>1
  <2> QED
    BY <1>2, <2>1, <2>2 DEF RangesSound, Overlaps
<1>6. NotAliveInRange'
  <2>1. alive_count .. Len(dense) = {}
    BY <1>2, IndexFacts
  <2> QED
    BY <1>3, <2>1 DEF NotAliveInRange
<1>7. ListsEmpty'
  <2> SUFFICES ASSUME NEW s \in Ranges, s \notin ranges' \/ s = active_range'
               PROVE  recycled[s] = <<>>
    BY <1>3 DEF ListsEmpty
  <2>1. s \notin ranges \/ s = active_range
    BY <1>2
  <2> QED
    BY <2>1 DEF IInv, ListsEmpty
<1>8. ListsSound'
  <2> SUFFICES ASSUME NEW s \in ranges' \ {active_range'}, NEW k \in 1 .. Len(recycled[s])
               PROVE  /\ In(s, recycled[s][k].id) /\ recycled[s][k].id <= cur'[s]
                      /\ index_of[recycled[s][k].id] = 0
                      /\ \A m \in 1 .. Len(recycled[s]) :
                            recycled[s][m].id = recycled[s][k].id => m = k
    BY <1>3 DEF ListsSound, In
  <2>1. s \in ranges
    <3>1. s \notin ranges => recycled[s] = <<>>
      BY <1>2 DEF IInv, ListsEmpty
    <3>2. Len(<<>>) = 0
      BY EmptySeq
    <3> QED
      BY <3>1, <3>2
  <2>2. s \in ranges \ {active_range} /\ cur'[s] = cur[s]
    BY <1>2, <2>1
  <2> QED
    BY <2>2 DEF IInv, ListsSound
<1>9. IndexIssued'
  <2> SUFFICES ASSUME NEW id \in Ids, index_of[id] # 0
               PROVE  \E s \in ranges' : In(s, id) /\ id <= LastId(s)'
    BY <1>2, <1>3 DEF IndexIssued, Issued, In
  <2>1. Issued(id)
    BY DEF IInv, IndexIssued
  <2>2. CASE ranges = {}
    <3>1. PICK s \in ranges' : s = active_range'
      BY <1>2
    <3>2. LastId(s)' = max_id /\ s.min = 1 /\ max_id <= s.max
      BY <1>2, <2>2, <3>1
    <3>3. id <= max_id
      BY <2>1, <2>2 DEF Issued
    <3> QED
      BY <1>1, <1>2, <3>1, <3>2, <3>3 DEF In
  <2>3. CASE ranges # {}
    BY <1>2, <2>1, <2>3 DEF Issued
  <2> QED
    BY <2>2, <2>3
<1>10. \A id \in Ids : Known(id) => Known(id)'
  <2>1. CASE ranges = {}
    BY <1>3, <2>1 DEF Known
  <2>2. CASE ranges # {}
    BY <1>2, <1>3, <2>2 DEF Known
  <2> QED
    BY <2>1, <2>2
<1>11. LastKnown'
  <2>1. ASSUME NEW s \in ranges', s.min <= LastId(s)' PROVE Known(LastId(s))'
    <3>1. CASE s \in ranges
      <4>1. LastId(s) \in Ids /\ LastId(s)' = LastId(s)
        BY <1>1, <1>2, <2>1, <3>1 DEF Ids
      <4>2. Known(LastId(s))
        BY <2>1, <3>1, <4>1 DEF IInv, LastKnown
      <4> QED
        BY <1>10, <4>1, <4>2 DEF Known
    <3>2. CASE s \notin ranges
      <4>1. ranges = {} /\ LastId(s)' = max_id /\ s.min = 1
        BY <1>1, <1>2, <2>1, <3>2
      <4>2. index_of[max_id] # 0
        BY <1>1, <2>1, <4>1 DEF IInv, LastKnown
      <4> QED
        BY <1>3, <4>1, <4>2 DEF Known
    <3> QED
      BY <3>1, <3>2
  <2> QED
    BY <1>2, <2>1 DEF LastKnown
<1>12. DeadKnown'
  <2>1. \A f \in dead : f.id \in Ids /\ Known(f.id)
    BY DEF IInv, DeadKnown, TypeOK, Entity
  <2> QED
    BY <1>3, <1>10, <2>1 DEF DeadKnown
<1> QED
  BY <1>4, <1>5, <1>6, <1>7, <1>8, <1>9, <1>11, <1>12 DEF IInv

\* What can be recycled from the dense vector: its elements from alive_count.
LEMMA NotAliveFacts ==
    ASSUME IInv
    PROVE  /\ NotAlive \in Seq(Entity)
           /\ Len(NotAlive) = Len(dense) + 1 - alive_count
           /\ \A k \in 1 .. Len(NotAlive) : alive_count - 1 + k \in alive_count .. Len(dense)
           /\ \A k \in 1 .. Len(NotAlive) : NotAlive[k] = dense[alive_count - 1 + k]
           /\ \A id \in Ids : id \in NotAliveIds <=> index_of[id] > alive_count - 1
<1>1. /\ Consistent(dense, index_of)
      /\ Len(dense) \in Nat /\ alive_count \in 1 .. Len(dense) + 1
      /\ \A k \in 1 .. Len(dense) : dense[k] \in Entity /\ dense[k].id \in Ids
      /\ \A id \in Ids : index_of[id] \in 0 .. Len(dense)
  BY IndexFacts
<1> DEFINE P == SubSeq(dense, alive_count, Len(dense))
<1>2. /\ P \in Seq(Entity)
      /\ Len(P) = IF alive_count <= Len(dense) THEN Len(dense) - alive_count + 1 ELSE 0
      /\ \A k \in 1 .. Len(dense) - alive_count + 1 : P[k] = dense[alive_count + k - 1]
  <2>1. \A k \in alive_count .. Len(dense) : dense[k] \in Entity
    BY <1>1
  <2> QED
    BY <1>1, <2>1, SubSeqProperties
<1> HIDE DEF P
<1>3. Len(P) = Len(dense) + 1 - alive_count
  BY <1>1, <1>2
<1>4. ASSUME NEW k \in 1 .. Len(P)
      PROVE  /\ alive_count - 1 + k \in alive_count .. Len(dense)
             /\ P[k] = dense[alive_count - 1 + k]
  <2>1. /\ k \in 1 .. Len(dense) - alive_count + 1
        /\ alive_count + k - 1 = alive_count - 1 + k
        /\ alive_count - 1 + k \in alive_count .. Len(dense)
    BY <1>1, <1>3
  <2> QED
    BY <1>2, <2>1
<1>5. NotAlive = P /\ NotAliveIds = {P[k].id : k \in 1 .. Len(P)}
  <2>1. DOMAIN P = 1 .. Len(P)
    BY <1>2, LenProperties
  <2> QED
    BY <2>1 DEF NotAliveIds, NotAlive, P
<1>6. ASSUME NEW id \in Ids PROVE id \in NotAliveIds <=> index_of[id] > alive_count - 1
  <2>1. ASSUME NEW k \in 1 .. Len(P), P[k].id = id PROVE index_of[id] > alive_count - 1
    <3>1. alive_count - 1 + k \in 1 .. Len(dense)
      BY <1>1, <1>4
    <3>2. index_of[id] = alive_count - 1 + k
      BY <1>1, <1>4, <2>1, <3>1 DEF Consistent
    <3> QED
      BY <1>1, <3>2
  <2>2. ASSUME index_of[id] > alive_count - 1 PROVE \E k \in 1 .. Len(P) : P[k].id = id
    <3> DEFINE k == index_of[id] - alive_count + 1
    <3>1. /\ k \in 1 .. Len(P) /\ alive_count - 1 + k = index_of[id] /\ index_of[id] # 0
      BY <1>1, <1>3, <2>2
    <3> HIDE DEF k
    <3>2. P[k] = dense[index_of[id]]
      BY <1>4, <3>1
    <3>3. dense[index_of[id]].id = id
      BY <1>1, <3>1 DEF Consistent
    <3> QED
      BY <3>1, <3>2, <3>3
  <2> QED
    BY <1>5, <2>1, <2>2
<1> QED
  BY <1>2, <1>3, <1>4, <1>5, <1>6

\* Where range r is activated, its list takes the place of what can be recycled.
LEMMA LoadedFacts ==
    ASSUME IInv, NEW r \in Ranges, RangeSet(r)
    PROVE  /\ Saved[r] = IF r = active_range THEN NotAlive ELSE recycled[r]
           /\ Consistent(dense', index_of')
           /\ Len(dense') = alive_count - 1 + Len(Saved[r]) /\ Len(Saved[r]) \in Nat
           /\ \A k \in 1 .. alive_count - 1 : dense'[k] = dense[k]
           /\ \A k \in 1 .. Len(Saved[r]) :
                 /\ Saved[r][k].id \in Ids /\ In(r, Saved[r][k].id)
                 /\ dense'[alive_count - 1 + k] = Saved[r][k]
                 /\ r # active_range => index_of[Saved[r][k].id] = 0
           /\ \A id \in Ids : index_of'[id] # 0 <=>
                 \/ index_of[id] \in 1 .. alive_count - 1
                 \/ \E k \in 1 .. Len(Saved[r]) : Saved[r][k].id = id
<1> DEFINE l == Saved[r]
           n == alive_count - 1
           found(id) == CHOOSE k \in DOMAIN l : l[k].id = id
<1>1. /\ Consistent(dense, index_of)
      /\ Len(dense) \in Nat /\ alive_count \in 1 .. Len(dense) + 1
      /\ \A k \in 1 .. Len(dense) : dense[k] \in Entity /\ dense[k].id \in Ids
      /\ \A id \in Ids : index_of[id] \in 0 .. Len(dense)
      /\ \A k, j \in 1 .. Len(dense) : dense[k].id = dense[j].id => k = j
  BY IndexFacts, ConsistentFacts
<1>2. /\ NotAlive \in Seq(Entity)
      /\ Len(NotAlive) = Len(dense) + 1 - alive_count
      /\ \A k \in 1 .. Len(NotAlive) : alive_count - 1 + k \in alive_count .. Len(dense)
      /\ \A k \in 1 .. Len(NotAlive) : NotAlive[k] = dense[alive_count - 1 + k]
      /\ \A id \in Ids : id \in NotAliveIds <=> index_of[id] > alive_count - 1
  BY NotAliveFacts
<1>3. r \in ranges /\ active_range \in ranges /\ ranges \subseteq Ranges /\ active_range # NoRange
  BY RangeFacts DEF IInv, RangeSet
<1>4. /\ dense' = SubSeq(dense, 1, n) \o l
      /\ index_of' = [id \in Ids |->
              IF \E k \in DOMAIN l : l[k].id = id THEN n + found(id)
              ELSE IF id \in NotAliveIds THEN 0 ELSE index_of[id]]
  BY DEF RangeSet
<1>5. l = IF r = active_range THEN NotAlive ELSE recycled[r]
  <2>1. recycled \in [Ranges -> Seq(Entity)]
    BY DEF IInv, TypeOK
  <2> QED
    BY <1>3, <2>1 DEF Saved
<1>6. ASSUME NEW k \in 1 .. Len(l) PROVE index_of'[l[k].id] = n + found(l[k].id)
  <2>1. l \in Seq(Entity)
    BY <1>2, <1>5, ListFacts DEF IInv
  <2>2. DOMAIN l = 1 .. Len(l) /\ l[k].id \in Ids
    <3> HIDE DEF l
    <3>1. DOMAIN l = 1 .. Len(l) /\ l[k] \in Entity
      BY <2>1, LenProperties, ElementOfSeq
    <3> QED
      BY <3>1 DEF Entity
  <2> HIDE DEF l
  <2> QED
    BY <1>4, <2>2
<1> HIDE DEF l
<1>7. /\ l \in Seq(Entity) /\ Len(l) \in Nat /\ DOMAIN l = 1 .. Len(l)
      /\ \A k \in 1 .. Len(l) : l[k].id \in Ids
  <2>1. l \in Seq(Entity)
    BY <1>2, <1>5, ListFacts DEF IInv
  <2>2. \A en \in Entity : en.id \in Ids
    BY DEF Entity
  <2> QED
    BY <2>1, <2>2, LenProperties, ElementOfSeq
<1>8. /\ \A k \in 1 .. Len(l) : In(r, l[k].id)
      /\ \A k \in 1 .. Len(l) : index_of[l[k].id] = 0 \/ index_of[l[k].id] > n
      /\ \A k, j \in 1 .. Len(l) : l[k].id = l[j].id => k = j
      /\ r # active_range => \A k \in 1 .. Len(l) : index_of[l[k].id] = 0
  <2>1. CASE r = active_range
    <3>1. ASSUME NEW k \in 1 .. Len(l)
          PROVE  /\ In(r, l[k].id) /\ index_of[l[k].id] = n + k /\ n + k > n
      <4>1. /\ n + k \in alive_count .. Len(dense) /\ l[k] = dense[n + k]
            /\ n + k \in 1 .. Len(dense) /\ n + k > n
        BY <1>1, <1>2, <1>5, <2>1
      <4>2. index_of[dense[n + k].id] = n + k
        BY <1>1, <4>1 DEF Consistent
      <4>3. In(active_range, dense[n + k].id)
        BY <1>3, <4>1 DEF IInv, NotAliveInRange
      <4> QED
        BY <2>1, <4>1, <4>2, <4>3
    <3>2. \A k, j \in 1 .. Len(l) : n + k = n + j => k = j
      BY <1>1, <1>7
    <3> HIDE DEF n
    <3> QED
      BY <2>1, <3>1, <3>2
  <2>2. CASE r # active_range
    <3>1. l = recycled[r]
      BY <1>5, <2>2
    <3> QED
      BY <1>3, <2>2, <3>1 DEF IInv, ListsSound
  <2> QED
    BY <2>1, <2>2
<1>9. ASSUME NEW k \in 1 .. Len(l) PROVE found(l[k].id) = k
  <2>1. found(l[k].id) \in DOMAIN l /\ l[found(l[k].id)].id = l[k].id
    BY <1>7
  <2> HIDE DEF found
  <2> QED
    BY <1>7, <1>8, <2>1
<1>10. Load(dense, index_of, n, l, index_of')
  <2>1. n \in 0 .. Len(dense)
    BY <1>1
  <2>2. index_of' \in [Ids -> Int]
    <3> DEFINE value(id) == IF \E k \in DOMAIN l : l[k].id = id THEN n + found(id)
                            ELSE IF id \in NotAliveIds THEN 0 ELSE index_of[id]
    <3>1. ASSUME NEW id \in Ids PROVE value(id) \in Int
      <4>1. CASE \E k \in DOMAIN l : l[k].id = id
        <5>1. PICK k \in 1 .. Len(l) : l[k].id = id
          BY <1>7, <4>1
        <5>2. value(id) = n + k
          BY <1>9, <4>1, <5>1
        <5> QED
          BY <1>1, <5>2
      <4>2. CASE ~\E k \in DOMAIN l : l[k].id = id
        BY <1>1, <4>2
      <4> QED
        BY <4>1, <4>2
    <3>2. index_of' = [id \in Ids |-> value(id)]
      BY <1>4
    <3> HIDE DEF value
    <3> QED
      BY <3>1, <3>2
  <2>3. \A k \in 1 .. Len(l) : index_of'[l[k].id] = n + k
    BY <1>6, <1>9
  <2>4. \A id \in Ids : (~\E k \in 1 .. Len(l) : l[k].id = id) =>
                         index_of'[id] = IF index_of[id] > n THEN 0 ELSE index_of[id]
    BY <1>2, <1>4, <1>7
  <2> QED
    BY <1>7, <1>8, <2>1, <2>2, <2>3, <2>4 DEF Load
<1> HIDE DEF found, n
<1>11. /\ Consistent(Loaded(dense, n, l), index_of')
       /\ Len(Loaded(dense, n, l)) = n + Len(l)
       /\ \A k \in 1 .. n : Loaded(dense, n, l)[k] = dense[k]
       /\ \A k \in 1 .. Len(l) : Loaded(dense, n, l)[n + k] = l[k]
       /\ \A id \in Ids : index_of'[id] # 0 <=> \/ index_of[id] \in 1 .. n
                                                \/ \E k \in 1 .. Len(l) : l[k].id = id
  <2>1. Consistent(dense, index_of)
    BY <1>1
  <2> QED
    BY ONLY <1>10, <2>1, LoadConsistent
<1>12. /\ Consistent(dense', index_of')
       /\ Len(dense') = n + Len(l)
       /\ \A k \in 1 .. n : dense'[k] = dense[k]
       /\ \A k \in 1 .. Len(l) : dense'[n + k] = l[k]
       /\ \A id \in Ids : index_of'[id] # 0 <=> \/ index_of[id] \in 1 .. n
                                                \/ \E k \in 1 .. Len(l) : l[k].id = id
  BY <1>4, <1>11 DEF Loaded
<1> QED
  BY <1>5, <1>7, <1>8, <1>12 DEF l, n

\* The list of the range that is activated, and what can be recycled, change
\* places; no id is lost.
LEMMA RangeSetKeeps ==
    ASSUME IInv, NEW r \in Ranges, RangeSet(r)
    PROVE  IInv'
<1> DEFINE a == active_range
<1>1. /\ Consistent(dense, index_of)
      /\ Len(dense) \in Nat /\ alive_count \in 1 .. Len(dense) + 1
      /\ \A k \in 1 .. Len(dense) : dense[k] \in Entity /\ dense[k].id \in Ids
      /\ \A id \in Ids : index_of[id] \in 0 .. Len(dense)
      /\ \A k, j \in 1 .. Len(dense) : dense[k].id = dense[j].id => k = j
  BY IndexFacts, ConsistentFacts
<1>2. /\ \A id \in Ids : id \in Int /\ 1 <= id /\ id <= MaxId
      /\ \A s \in Ranges : s.min \in Ids /\ s.max \in Ids /\ s.min <= s.max
      /\ ranges \subseteq Ranges
      /\ r \in ranges /\ a \in ranges /\ a # NoRange
      /\ max_id \in 0 .. MaxId
      /\ \A s \in Ranges : cur[s] \in 0 .. MaxId /\ LastId(s) \in 0 .. MaxId
      /\ \A s, t \in ranges : \A id \in Ids : In(s, id) /\ In(t, id) => s = t
  BY RangeFacts DEF IInv, RangeSet
<1>3. /\ NotAlive \in Seq(Entity)
      /\ Len(NotAlive) = Len(dense) + 1 - alive_count
      /\ \A k \in 1 .. Len(NotAlive) : alive_count - 1 + k \in alive_count .. Len(dense)
      /\ \A k \in 1 .. Len(NotAlive) : NotAlive[k] = dense[alive_count - 1 + k]
      /\ \A id \in Ids : id \in NotAliveIds <=> index_of[id] > alive_count - 1
  BY NotAliveFacts
<1>4. /\ Saved[r] = IF r = a THEN NotAlive ELSE recycled[r]
      /\ Consistent(dense', index_of')
      /\ Len(dense') = alive_count - 1 + Len(Saved[r]) /\ Len(Saved[r]) \in Nat
      /\ \A k \in 1 .. Len(Saved[r]) :
            /\ Saved[r][k].id \in Ids /\ In(r, Saved[r][k].id)
            /\ dense'[alive_count - 1 + k] = Saved[r][k]
            /\ r # a => index_of[Saved[r][k].id] = 0
      /\ \A id \in Ids : index_of'[id] # 0 <=>
            \/ index_of[id] \in 1 .. alive_count - 1
            \/ \E k \in 1 .. Len(Saved[r]) : Saved[r][k].id = id
  BY LoadedFacts
<1>5. /\ recycled \in [Ranges -> Seq(Entity)] /\ cur \in [Ranges -> 0 .. MaxId]
      /\ dead \subseteq Entity
  BY DEF IInv, TypeOK
<1>6. /\ alive_count' = alive_count /\ ranges' = ranges /\ active_range' = r
      /\ dead' = dead /\ forced' = forced
      /\ cur' = [cur EXCEPT ![a] = max_id] /\ max_id' = cur'[r]
      /\ recycled' = [[recycled EXCEPT ![a] = NotAlive] EXCEPT ![r] = <<>>]
  BY <1>2 DEF RangeSet, Saved
<1>7. /\ recycled' \in [Ranges -> Seq(Entity)]
      /\ recycled'[r] = <<>>
      /\ r # a => recycled'[a] = NotAlive
      /\ \A s \in Ranges : s # r /\ s # a => recycled'[s] = recycled[s]
  <2>1. <<>> \in Seq(Entity)
    BY EmptySeq
  <2> QED
    BY <1>2, <1>3, <1>5, <1>6, <2>1
<1>8. /\ cur' \in [Ranges -> 0 .. MaxId]
      /\ cur'[a] = max_id /\ \A s \in Ranges : s # a => cur'[s] = cur[s]
  BY <1>2, <1>5, <1>6
<1>9. \A s \in Ranges : LastId(s)' = LastId(s) /\ (s # r => LastId(s) = cur'[s])
  BY <1>6, <1>8 DEF LastId
<1>10. \A id \in Ids : In(a, id) /\ index_of[id] # 0 => id <= max_id
  <2> SUFFICES ASSUME NEW id \in Ids, In(a, id), index_of[id] # 0 PROVE id <= max_id
    OBVIOUS
  <2>1. PICK s \in ranges : In(s, id) /\ id <= LastId(s)
    BY <1>2 DEF IInv, IndexIssued, Issued
  <2> QED
    BY <1>2, <2>1 DEF LastId
<1>11. \A k \in 1 .. Len(NotAlive) :
          /\ NotAlive[k].id \in Ids /\ In(a, NotAlive[k].id) /\ NotAlive[k].id <= max_id
          /\ index_of[NotAlive[k].id] = alive_count - 1 + k
          /\ index_of[NotAlive[k].id] > alive_count - 1
          /\ \A m \in 1 .. Len(NotAlive) : NotAlive[m].id = NotAlive[k].id => m = k
  <2> SUFFICES ASSUME NEW k \in 1 .. Len(NotAlive)
               PROVE  /\ NotAlive[k].id \in Ids /\ In(a, NotAlive[k].id)
                      /\ NotAlive[k].id <= max_id
                      /\ index_of[NotAlive[k].id] = alive_count - 1 + k
                      /\ index_of[NotAlive[k].id] > alive_count - 1
                      /\ \A m \in 1 .. Len(NotAlive) :
                            NotAlive[m].id = NotAlive[k].id => m = k
    OBVIOUS
  <2>1. \A m \in 1 .. Len(NotAlive) :
           /\ alive_count - 1 + m \in 1 .. Len(dense) /\ alive_count - 1 + m \in alive_count .. Len(dense)
           /\ NotAlive[m] = dense[alive_count - 1 + m]
           /\ m \in Int
    BY <1>1, <1>3
  <2>2. NotAlive[k].id \in Ids /\ index_of[NotAlive[k].id] = alive_count - 1 + k
    BY <1>1, <2>1 DEF Consistent
  <2>3. alive_count - 1 + k > alive_count - 1 /\ alive_count - 1 + k # 0
    BY <1>1, <2>1
  <2>4. In(a, NotAlive[k].id)
    BY <1>2, <2>1 DEF IInv, NotAliveInRange
  <2>5. NotAlive[k].id <= max_id
    BY <1>10, <2>2, <2>3, <2>4
  <2>6. ASSUME NEW m \in 1 .. Len(NotAlive), NotAlive[m].id = NotAlive[k].id PROVE m = k
    <3>1. alive_count - 1 + m = alive_count - 1 + k
      BY <1>1, <2>1, <2>6
    <3> QED
      BY <1>1, <2>1, <3>1
  <2> QED
    BY <2>2, <2>3, <2>4, <2>5, <2>6
<1>12. \A s \in ranges \ {a} : \A k \in 1 .. Len(recycled[s]) :
          /\ recycled[s][k].id \in Ids /\ In(s, recycled[s][k].id)
          /\ recycled[s][k].id <= cur[s]
          /\ index_of[recycled[s][k].id] = 0
          /\ \A m \in 1 .. Len(recycled[s]) : recycled[s][m].id = recycled[s][k].id => m = k
  <2> SUFFICES ASSUME NEW s \in ranges \ {a}, NEW k \in 1 .. Len(recycled[s])
               PROVE  /\ recycled[s][k].id \in Ids /\ In(s, recycled[s][k].id)
                      /\ recycled[s][k].id <= cur[s]
                      /\ index_of[recycled[s][k].id] = 0
                      /\ \A m \in 1 .. Len(recycled[s]) :
                            recycled[s][m].id = recycled[s][k].id => m = k
    OBVIOUS
  <2>1. recycled[s][k].id \in Ids
    BY <1>2, ListFacts DEF IInv
  <2> QED
    BY <2>1 DEF IInv, ListsSound
<1>13. TypeOK' /\ IndexConsistent'
  <2>1. /\ alive_count' \in 1 .. Len(dense') + 1 /\ max_id' \in 0 .. MaxId
        /\ active_range' \in ranges' \cup {NoRange} /\ ranges' \subseteq Ranges
    BY <1>1, <1>2, <1>4, <1>6, <1>8
  <2>2. dead' \subseteq Entity /\ forced' \in BOOLEAN
    BY <1>6 DEF IInv, TypeOK
  <2> QED
    BY <1>4, <1>7, <1>8, <2>1, <2>2 DEF TypeOK, IndexConsistent, Consistent
<1>14. RangesSound'
  <2>1. ASSUME NEW s \in ranges PROVE s.min - 1 <= LastId(s)' /\ LastId(s)' <= s.max
    BY <1>2, <1>9 DEF IInv, RangesSound
  <2>2. \A s, t \in ranges : s # t => ~Overlaps(s, t)
    BY DEF IInv, RangesSound
  <2>3. ranges # {} /\ r # NoRange
    BY <1>2, RangeFacts DEF IInv, NoRange, Ids
  <2>4. ranges' = ranges /\ active_range' = r
    BY <1>6
  <2> QED
    BY <2>1, <2>2, <2>3, <2>4 DEF RangesSound, Overlaps
<1>15. NotAliveInRange'
  <2> SUFFICES ASSUME NEW k \in alive_count .. Len(dense') PROVE In(r, dense'[k].id)
    BY <1>6 DEF NotAliveInRange, In
  <2> DEFINE h == k - (alive_count - 1)
  <2>1. h \in 1 .. Len(Saved[r]) /\ alive_count - 1 + h = k
    BY <1>1, <1>4
  <2> HIDE DEF h
  <2>2. dense'[alive_count - 1 + h] = Saved[r][h] /\ In(r, Saved[r][h].id)
    BY <1>4, <2>1
  <2> QED
    BY <2>1, <2>2
<1>16. ListsEmpty'
  <2> SUFFICES ASSUME NEW s \in Ranges, s \notin ranges \/ s = r PROVE recycled'[s] = <<>>
    BY <1>6 DEF ListsEmpty
  <2>1. CASE s = r
    BY <1>7, <2>1
  <2>2. CASE s # r
    BY <1>2, <1>7, <2>2 DEF IInv, ListsEmpty
  <2> QED
    BY <2>1, <2>2
<1>17. ListsSound'
  <2> SUFFICES ASSUME NEW s \in ranges \ {r}, NEW k \in 1 .. Len(recycled'[s])
               PROVE  /\ In(s, recycled'[s][k].id) /\ recycled'[s][k].id <= cur'[s]
                      /\ index_of'[recycled'[s][k].id] = 0
                      /\ \A m \in 1 .. Len(recycled'[s]) :
                            recycled'[s][m].id = recycled'[s][k].id => m = k
    <3>1. ranges' = ranges /\ active_range' = r
      BY <1>6
    <3> QED
      BY <3>1 DEF ListsSound, In
  <2>1. CASE s = a
    <3>1. recycled'[s] = NotAlive /\ cur'[s] = max_id
      BY <1>7, <1>8, <2>1
    <3>2. index_of'[NotAlive[k].id] = 0
      <4>1. NotAlive[k].id \in Ids /\ index_of[NotAlive[k].id] > alive_count - 1
        BY <1>11, <3>1
      <4>2. index_of[NotAlive[k].id] # 0 /\ index_of[NotAlive[k].id] \notin 1 .. alive_count - 1
        BY <1>1, <4>1
      <4>3. ~\E m \in 1 .. Len(Saved[r]) : Saved[r][m].id = NotAlive[k].id
        BY <1>4, <2>1, <4>2
      <4> QED
        BY <1>4, <4>1, <4>2, <4>3
    <3> QED
      BY <1>11, <2>1, <3>1, <3>2
  <2>2. CASE s # a
    <3>1. recycled'[s] = recycled[s] /\ cur'[s] = cur[s]
      BY <1>2, <1>7, <1>8, <2>2
    <3>2. /\ recycled[s][k].id \in Ids /\ In(s, recycled[s][k].id)
          /\ recycled[s][k].id <= cur[s]
          /\ index_of[recycled[s][k].id] = 0
          /\ \A m \in 1 .. Len(recycled[s]) : recycled[s][m].id = recycled[s][k].id => m = k
      BY <1>12, <2>2, <3>1
    <3>3. ~\E m \in 1 .. Len(Saved[r]) : Saved[r][m].id = recycled[s][k].id
      BY <1>2, <1>4, <3>2
    <3>4. index_of'[recycled[s][k].id] = 0
      BY <1>4, <3>2, <3>3
    <3> QED
      BY <3>1, <3>2, <3>4
  <2> QED
    BY <2>1, <2>2
<1>18. IndexIssued'
  <2> SUFFICES ASSUME NEW id \in Ids, index_of'[id] # 0
               PROVE  \E s \in ranges : In(s, id) /\ id <= LastId(s)
    BY <1>2, <1>6, <1>9 DEF IndexIssued, Issued, In
  <2>1. CASE index_of[id] # 0
    BY <1>2, <2>1 DEF IInv, IndexIssued, Issued
  <2>2. CASE index_of[id] = 0
    <3>1. PICK k \in 1 .. Len(Saved[r]) : Saved[r][k].id = id
      BY <1>4, <2>2
    <3>2. r # a
      BY <1>1, <1>4, <1>11, <2>2, <3>1
    <3>3. In(r, id) /\ id <= cur[r]
      BY <1>2, <1>4, <1>12, <3>1, <3>2
    <3> QED
      BY <1>2, <3>2, <3>3 DEF LastId
  <2> QED
    BY <2>1, <2>2
<1>19. \A id \in Ids : Known(id) => Known(id)'
  <2> SUFFICES ASSUME NEW id \in Ids, Known(id)
               PROVE  \/ index_of'[id] # 0
                      \/ \E s \in ranges \ {r} :
                            \E k \in 1 .. Len(recycled'[s]) : recycled'[s][k].id = id
    BY <1>6 DEF Known
  <2>1. CASE index_of[id] \in 1 .. alive_count - 1
    BY <1>4, <2>1
  <2>2. CASE index_of[id] > alive_count - 1
    <3> DEFINE k == index_of[id] - (alive_count - 1)
    <3>1. k \in 1 .. Len(NotAlive) /\ alive_count - 1 + k = index_of[id] /\ index_of[id] # 0
      BY <1>1, <1>3, <2>2
    <3> HIDE DEF k
    <3>2. NotAlive[k].id = id
      BY <1>1, <1>3, <3>1 DEF Consistent
    <3>3. CASE r = a
      BY <1>4, <3>1, <3>2, <3>3
    <3>4. CASE r # a
      BY <1>2, <1>7, <3>1, <3>2, <3>4
    <3> QED
      BY <3>3, <3>4
  <2>3. CASE \E s \in ranges \ {a} : \E k \in 1 .. Len(recycled[s]) : recycled[s][k].id = id
    <3>1. PICK s \in ranges \ {a} : \E k \in 1 .. Len(recycled[s]) : recycled[s][k].id = id
      BY <2>3
    <3>2. CASE s = r
      BY <1>4, <3>1, <3>2
    <3>3. CASE s # r
      BY <1>2, <1>7, <3>1, <3>3
    <3> QED
      BY <3>2, <3>3
  <2>4. index_of[id] # 0 => index_of[id] \in 1 .. alive_count - 1 \/ index_of[id] > alive_count - 1
    BY <1>1
  <2> QED
    BY <2>1, <2>2, <2>3, <2>4 DEF Known
<1>20. LastKnown'
  <2>1. ASSUME NEW s \in ranges, s.min <= LastId(s) PROVE Known(LastId(s))'
    <3>1. LastId(s) \in Ids /\ LastId(s)' = LastId(s)
      BY <1>2, <1>9, <2>1 DEF Ids
    <3>2. Known(LastId(s))
      BY <2>1 DEF IInv, LastKnown
    <3> QED
      BY <1>19, <3>1, <3>2 DEF Known
  <2> QED
    BY <1>2, <1>6, <1>9, <2>1 DEF LastKnown
<1>21. DeadKnown'
  <2>1. \A f \in dead : f.id \in Ids /\ Known(f.id)
    BY <1>5 DEF IInv, DeadKnown, Entity
  <2> QED
    BY <1>6, <1>19, <2>1 DEF DeadKnown
<1> QED
  BY <1>13, <1>14, <1>15, <1>16, <1>17, <1>18, <1>20, <1>21 DEF IInv

-----------------------------------------------------------------------------
(* The invariant, and what it implies.                                       *)

\* The invariant holds of the empty index, where there are no ranges.
LEMMA InitIInv == Init => IInv
<1> SUFFICES ASSUME Init PROVE IInv
  OBVIOUS
<1>1. <<>> \in Seq(Entity) /\ Len(<<>>) = 0
  BY EmptySeq
<1>2. TypeOK
  <2>1. alive_count \in 1 .. Len(dense) + 1 /\ dense \in Seq(Entity)
    BY <1>1 DEF Init
  <2>2. index_of \in [Ids -> 0 .. Len(dense)]
    BY <1>1 DEF Init
  <2>3. max_id \in 0 .. MaxId /\ cur \in [Ranges -> 0 .. MaxId]
    BY MaxIdAssumption DEF Init
  <2>4. recycled \in [Ranges -> Seq(Entity)]
    BY <1>1 DEF Init
  <2> QED
    BY <2>1, <2>2, <2>3, <2>4 DEF Init, TypeOK
<1>3. IndexConsistent
  BY <1>1 DEF Init, IndexConsistent
<1>4. RangesSound /\ NotAliveInRange
  BY <1>1 DEF Init, RangesSound, NotAliveInRange
<1>5. ListsEmpty /\ ListsSound
  BY DEF Init, ListsEmpty, ListsSound
<1>6. IndexIssued /\ LastKnown /\ DeadKnown
  BY DEF Init, IndexIssued, LastKnown, DeadKnown
<1> QED
  BY <1>2, <1>3, <1>4, <1>5, <1>6 DEF IInv

\* Every step keeps the invariant, where the application forces only ids of the
\* active range.
LEMMA NextIInv ==
    ASSUME IInv, OwnIdsOnly, [Next]_vars
    PROVE  IInv'
<1>1. ASSUME NEW count \in 1 .. MaxBulk, NewIds(count) PROVE IInv'
  BY <1>1, NewIdsKeeps
<1>2. ASSUME NEW e \in Entity, MakeAlive(e) PROVE IInv'
  BY <1>2, MakeAliveKeeps
<1>3. ASSUME NEW e \in Entity, SetVersion(e) PROVE IInv'
  BY <1>3, SetVersionKeeps
<1>4. ASSUME NEW e \in Entity, Delete(e) PROVE IInv'
  BY <1>4, DeleteInRangeKeeps, DeleteOutOfRangeKeeps
<1>5. ASSUME NEW r \in Ranges, RangeNew(r) PROVE IInv'
  BY <1>5, RangeNewKeeps
<1>6. ASSUME NEW r \in Ranges, RangeSet(r) PROVE IInv'
  BY <1>6, RangeSetKeeps
<1>7. CASE UNCHANGED vars
  <2>1. UNCHANGED <<dense, alive_count, index_of, max_id>>
    BY <1>7 DEF vars, indexVars
  <2>2. UNCHANGED <<ranges, cur, recycled, active_range, dead, forced>>
    BY <1>7 DEF vars, rangeVars
  <2>3. TypeOK' /\ IndexConsistent'
    BY <2>1, <2>2 DEF IInv, TypeOK, IndexConsistent
  <2>4. RangesSound' /\ NotAliveInRange' /\ ListsEmpty' /\ ListsSound'
    BY <2>1, <2>2
    DEF IInv, RangesSound, LastId, NotAliveInRange, In, Overlaps, ListsEmpty, ListsSound
  <2>5. IndexIssued' /\ LastKnown' /\ DeadKnown'
    BY <2>1, <2>2 DEF IInv, IndexIssued, Issued, LastKnown, DeadKnown, Known, LastId, In
  <2> QED
    BY <2>3, <2>4, <2>5 DEF IInv
<1> QED
  BY <1>1, <1>2, <1>3, <1>4, <1>5, <1>6, <1>7 DEF Next

\* The invariant holds in every reachable state.
LEMMA Invariance == ASSUME OwnIdsOnly PROVE Spec => []IInv
<1>1. Init => IInv
  BY InitIInv
<1>2. IInv /\ [Next]_vars => IInv'
  BY NextIInv
<1> QED
  BY <1>1, <1>2, PTL DEF Spec

\* The dense vector and the records are well typed and point at each other, for
\* every number of ids and generations and every set of ranges.
THEOREM IndexIsSound == ASSUME OwnIdsOnly PROVE Spec => []IndexSound
<1>1. IInv => IndexSound
  BY DEF IInv, IndexSound
<1> QED
  BY <1>1, Invariance, PTL

\* What the active range can issue next, from what can be recycled or as a new
\* id, is its own, and each other range keeps a list of its own.
THEOREM IdsStayInRange == ASSUME OwnIdsOnly PROVE Spec => []IdsInRange
<1>1. ASSUME IInv PROVE RecycledInRange
  <2>1. /\ Len(NotAlive) = Len(dense) + 1 - alive_count
        /\ DOMAIN NotAlive = 1 .. Len(NotAlive)
        /\ \A k \in 1 .. Len(NotAlive) : alive_count - 1 + k \in alive_count .. Len(dense)
        /\ \A k \in 1 .. Len(NotAlive) : NotAlive[k] = dense[alive_count - 1 + k]
    BY <1>1, NotAliveFacts, LenProperties
  <2>2. active_range # NoRange => ranges # {}
    BY <1>1 DEF IInv, RangesSound
  <2>3. \A r \in ranges : DOMAIN recycled[r] = 1 .. Len(recycled[r])
    BY <1>1, RangeFacts, ListFacts DEF IInv
  <2>4. active_range # NoRange => \A k \in DOMAIN NotAlive : In(active_range, NotAlive[k].id)
    BY <1>1, <2>1, <2>2 DEF IInv, NotAliveInRange
  <2>5. \A r \in ranges \ {active_range} : \A k \in DOMAIN recycled[r] :
           /\ In(r, recycled[r][k].id)
           /\ index_of[recycled[r][k].id] = 0
           /\ \A j \in DOMAIN recycled[r] : recycled[r][j].id = recycled[r][k].id => j = k
    BY <1>1, <2>3 DEF IInv, ListsSound
  <2> QED
    BY <2>4, <2>5 DEF RecycledInRange
<1>2. ASSUME IInv PROVE NewIdsInRange
  <2> SUFFICES ASSUME active_range # NoRange, index_of[active_range.max] = 0
               PROVE  In(active_range, max_id + 1)
    BY DEF NewIdsInRange
  <2>1. /\ \A r \in Ranges : r.min \in Ids /\ r.max \in Ids /\ r.min <= r.max
        /\ \A id \in Ids : id \in Int
        /\ ranges \subseteq Ranges /\ active_range \in ranges /\ max_id \in 0 .. MaxId
        /\ \A r, s \in ranges : \A id \in Ids : In(r, id) /\ In(s, id) => r = s
    BY <1>2, RangeFacts DEF IInv
  <2>2. active_range.min - 1 <= max_id /\ max_id <= active_range.max
    BY <1>2, <2>1 DEF IInv, RangesSound, LastId
  <2>3. max_id # active_range.max
    <3> SUFFICES ASSUME max_id = active_range.max PROVE FALSE
      OBVIOUS
    <3>1. Known(max_id)
      BY <1>2, <2>1 DEF IInv, LastKnown, LastId
    <3>2. PICK r \in ranges \ {active_range} :
                  \E k \in 1 .. Len(recycled[r]) : recycled[r][k].id = max_id
      BY <3>1 DEF Known
    <3>3. In(r, max_id)
      BY <1>2, <3>2 DEF IInv, ListsSound
    <3>4. max_id \in Ids /\ In(active_range, max_id)
      BY <2>1 DEF In
    <3> QED
      BY <2>1, <3>3, <3>4
  <2> QED
    BY <2>1, <2>2, <2>3 DEF In
<1>3. IInv => IdsInRange
  BY <1>1, <1>2 DEF IdsInRange
<1> QED
  BY <1>3, Invariance, PTL

\* The id of an entity that was alive is still in the index or in the list of a
\* range: deleting entities and changing ranges loses none.
THEOREM DeadStayRecyclable == ASSUME OwnIdsOnly PROVE Spec => []DeadAreRecyclable
<1>1. ASSUME IInv PROVE DeadAreRecyclable
  <2>1. \A r \in ranges : DOMAIN recycled[r] = 1 .. Len(recycled[r])
    BY <1>1, RangeFacts, ListFacts DEF IInv
  <2> QED
    BY <1>1, <2>1 DEF IInv, DeadKnown, Known, DeadAreRecyclable
<1> QED
  BY <1>1, Invariance, PTL

-----------------------------------------------------------------------------
(* The index implements FlecsEntities.                                       *)

\* An entity in the index or in the list of a range: it is alive, or is what its
\* id will be issued as.
Entry(en) ==
    \/ \E k \in 1 .. Len(dense) : dense[k] = en
    \/ \E r \in ranges \ {active_range} : \E k \in 1 .. Len(recycled[r]) : recycled[r][k] = en

\* Its generation is one that no entity which was alive has had.
Fresh == ~forced => \A f \in dead, en \in Entity : Entry(en) /\ en.id = f.id => en.gen > f.gen

\* An id of the active range that is not in the index is in no list.
LEMMA UnknownIds ==
    ASSUME IInv, NEW id \in Ids, index_of[id] = 0, InActiveRange(id)
    PROVE  ~Known(id)
<1> SUFFICES ASSUME Known(id) PROVE FALSE
  OBVIOUS
<1>1. PICK r \in ranges \ {active_range} :
              \E k \in 1 .. Len(recycled[r]) : recycled[r][k].id = id
  BY DEF Known
<1>2. In(r, id)
  BY <1>1 DEF IInv, ListsSound
<1>3. active_range \in ranges /\ In(active_range, id)
  BY <1>1, RangeFacts DEF IInv, InActiveRange
<1> QED
  BY <1>1, <1>2, <1>3, RangeFacts DEF IInv

\* New ids were not known.
LEMMA NewEntries ==
    ASSUME IInv, OwnIdsOnly, NEW count \in 1 .. MaxBulk, NewIds(count)
    PROVE  \A k \in Len(dense) + 1 .. Len(dense') :
              dense'[k] \in Entity /\ ~Known(dense'[k].id)
<1> SUFFICES ASSUME NEW k \in Len(dense) + 1 .. Len(dense')
             PROVE  dense'[k] \in Entity /\ ~Known(dense'[k].id)
  OBVIOUS
<1> DEFINE id == dense'[k].id
<1>1. /\ Consistent(dense', index_of')
      /\ Len(dense) \in Nat /\ Len(dense') \in Nat
      /\ \A m \in 1 .. Len(dense) : dense'[m] = dense[m]
      /\ \A i \in Ids : index_of'[i] # 0 => index_of[i] # 0 \/ (i <= max_id' /\ InActiveRange(i))
  BY NewIdsFacts
<1>2. k \in 1 .. Len(dense') /\ k \notin 1 .. Len(dense) /\ k # 0
  BY <1>1
<1>3. dense'[k] \in Entity /\ id \in Ids
  BY ONLY <1>1, <1>2, ConsistentFacts
<1>4. index_of'[id] = k
  BY <1>1, <1>2 DEF Consistent
<1> HIDE DEF id
<1>5. index_of[id] = 0
  <2> SUFFICES ASSUME index_of[id] # 0 PROVE FALSE
    OBVIOUS
  <2>1. index_of[id] \in 1 .. Len(dense) /\ dense[index_of[id]].id = id
    BY <1>1, <1>3, IndexFacts DEF Consistent
  <2>2. index_of[id] \in 1 .. Len(dense') /\ dense'[index_of[id]].id = id
    <3>1. Len(dense) <= Len(dense')
      BY NewIdsFacts
    <3> QED
      BY <1>1, <2>1, <3>1
  <2>3. index_of'[id] = index_of[id]
    BY <1>1, <2>2 DEF Consistent
  <2> QED
    BY <1>2, <1>4, <2>1, <2>3
<1>6. ~Known(id)
  BY <1>1, <1>2, <1>3, <1>4, <1>5, UnknownIds
<1> QED
  BY <1>3, <1>6 DEF id

\* A step that adds entries of unknown ids only leaves the entries fresh.
LEMMA EntriesKept ==
    ASSUME IInv, Fresh, dead' = dead, forced' = forced,
           \A en \in Entity : Entry(en)' => Entry(en) \/ ~Known(en.id)
    PROVE  Fresh'
<1> SUFFICES ASSUME ~forced, NEW f \in dead, NEW en \in Entity, Entry(en)', en.id = f.id
             PROVE  en.gen > f.gen
  BY DEF Fresh
<1>1. Known(en.id)
  BY DEF IInv, DeadKnown
<1> QED
  BY <1>1 DEF Fresh

\* New ids are issued with generations that their entities have not had.
LEMMA NewIdsFresh ==
    ASSUME IInv, Fresh, OwnIdsOnly, NEW count \in 1 .. MaxBulk, NewIds(count)
    PROVE  Fresh'
<1>1. /\ Len(dense) \in Nat /\ Len(dense') \in Nat
      /\ \A k \in 1 .. Len(dense) : dense'[k] = dense[k]
      /\ UNCHANGED <<rangeVars, dead, forced>>
  BY NewIdsFacts
<1>2. ASSUME NEW en \in Entity, Entry(en)' PROVE Entry(en) \/ ~Known(en.id)
  <2>1. CASE \E k \in 1 .. Len(dense') : dense'[k] = en
    <3>1. PICK k \in 1 .. Len(dense') : dense'[k] = en
      BY <2>1
    <3>2. k \in 1 .. Len(dense) \/ k \in Len(dense) + 1 .. Len(dense')
      BY <1>1
    <3> QED
      BY <1>1, <3>1, <3>2, NewEntries DEF Entry
  <2>2. CASE ~\E k \in 1 .. Len(dense') : dense'[k] = en
    BY <1>1, <1>2, <2>2 DEF Entry, rangeVars
  <2> QED
    BY <2>1, <2>2
<1> QED
  BY <1>1, <1>2, EntriesKept

\* What a deleted entity leaves is the next generation of its id, or was there
\* with another id.
LEMMA DeleteEntries ==
    ASSUME IInv, NEW e \in Entity, Delete(e), NEW en \in Entity, Entry(en)'
    PROVE  en = NextGeneration(e) \/ (Entry(en) /\ en.id # e.id)
<1> DEFINE i == index_of[e.id]
           j == alive_count - 1
           E == NextGeneration(e)
           R == RemovedDense(e)
<1>1. /\ Consistent(dense, index_of)
      /\ Len(dense) \in Nat /\ alive_count \in 1 .. Len(dense) + 1
      /\ \A k \in 1 .. Len(dense) : dense[k] \in Entity /\ dense[k].id \in Ids
      /\ \A k, m \in 1 .. Len(dense) : dense[k].id = dense[m].id => k = m
  BY IndexFacts, ConsistentFacts
<1>2. /\ Consistent(R, RemovedIndex(e)) /\ Len(R) = Len(dense)
      /\ j \in 1 .. Len(dense)
      /\ R[j] = E
      /\ \A k \in 1 .. Len(dense) : k # j => R[k] = IF k = i THEN dense[j] ELSE dense[k]
      /\ i \in 1 .. j /\ dense[i] = e
      /\ E.id = e.id
  BY RemovedFacts DEF Delete
<1> HIDE DEF R, E
<1>3. ASSUME NEW k \in 1 .. Len(dense) PROVE R[k] = E \/ (Entry(R[k]) /\ R[k].id # e.id)
  <2>1. CASE k = j
    BY <1>2, <2>1
  <2>2. CASE k # j
    <3>1. PICK m \in 1 .. Len(dense) : m # i /\ R[k] = dense[m]
      BY <1>1, <1>2, <2>2
    <3>2. i \in 1 .. Len(dense)
      BY <1>1, <1>2
    <3>3. dense[m].id # e.id
      BY <1>1, <1>2, <3>1, <3>2
    <3> QED
      BY <3>1, <3>3 DEF Entry
  <2> QED
    BY <2>1, <2>2
<1>4. \A r \in ranges \ {active_range} : \A k \in 1 .. Len(recycled[r]) :
         Entry(recycled[r][k]) /\ recycled[r][k].id # e.id
  <2>1. index_of[e.id] # 0
    BY RemovedFacts DEF Delete
  <2> QED
    BY <2>1 DEF Entry, IInv, ListsSound
<1>5. /\ ranges' = ranges /\ active_range' = active_range
  BY DEF Delete
<1>6. CASE InActiveRange(e.id)
  <2>1. dense' = R /\ recycled' = recycled
    BY <1>6 DEF Delete, R
  <2>2. CASE \E k \in 1 .. Len(dense') : dense'[k] = en
    BY <1>2, <1>3, <2>1, <2>2 DEF E
  <2>3. CASE ~\E k \in 1 .. Len(dense') : dense'[k] = en
    BY <1>4, <1>5, <2>1, <2>3 DEF Entry
  <2> QED
    BY <2>2, <2>3
<1>7. CASE ~InActiveRange(e.id)
  <2>1. /\ dense' = Drop(R, j)
        /\ recycled' = [r \in Ranges |-> IF r \in RangesOf(e.id) THEN Append(recycled[r], E)
                                         ELSE recycled[r]]
    BY <1>7 DEF Delete, Drop, R, E
  <2> HIDE DEF j
  <2>2. /\ Len(dense') = Len(dense) - 1
        /\ \A k \in 1 .. Len(dense) - 1 : dense'[k] = IF k = j THEN R[Len(dense)] ELSE R[k]
    <3>1. Consistent(R, RemovedIndex(e)) /\ j \in 1 .. Len(R) /\ e.id \in Ids /\ e.id = R[j].id
      BY <1>2 DEF Entity
    <3>2. /\ Len(Drop(R, j)) = Len(R) - 1
          /\ \A k \in 1 .. Len(R) - 1 : Drop(R, j)[k] = IF k = j THEN R[Len(R)] ELSE R[k]
      BY ONLY <3>1, DropConsistent
    <3> QED
      BY <1>2, <2>1, <3>2
  <2>3. CASE \E k \in 1 .. Len(dense') : dense'[k] = en
    <3>1. PICK k \in 1 .. Len(dense) - 1 : dense'[k] = en
      BY <2>2, <2>3
    <3>2. PICK m \in 1 .. Len(dense) : R[m] = en
      BY <1>1, <2>2, <3>1
    <3> QED
      BY <1>3, <3>2 DEF E
  <2>4. CASE ~\E k \in 1 .. Len(dense') : dense'[k] = en
    <3>1. PICK r \in ranges \ {active_range} :
                  \E k \in 1 .. Len(recycled'[r]) : recycled'[r][k] = en
      BY <1>5, <2>4 DEF Entry
    <3>2. PICK k \in 1 .. Len(recycled'[r]) : recycled'[r][k] = en
      BY <3>1
    <3>3. r \in Ranges
      BY DEF IInv, TypeOK
    <3>4. CASE r \notin RangesOf(e.id)
      BY <1>4, <2>1, <3>2, <3>3, <3>4
    <3>5. CASE r \in RangesOf(e.id)
      <4>1. recycled'[r] = Append(recycled[r], E)
        BY <2>1, <3>3, <3>5
      <4>2. recycled[r] \in Seq(Entity) /\ Len(recycled[r]) \in Nat
        BY <3>3, ListFacts DEF IInv
      <4>3. E \in Entity
        BY RemovedFacts DEF Delete, E
      <4>4. /\ Len(recycled'[r]) = Len(recycled[r]) + 1
            /\ recycled'[r][Len(recycled[r]) + 1] = E
            /\ \A m \in 1 .. Len(recycled[r]) : recycled'[r][m] = recycled[r][m]
        BY <4>1, <4>2, <4>3, AppendProperties
      <4>5. k \in 1 .. Len(recycled[r]) \/ k = Len(recycled[r]) + 1
        BY <4>2, <4>4
      <4> QED
        BY <1>4, <3>2, <4>4, <4>5 DEF E
    <3> QED
      BY <3>4, <3>5
  <2> QED
    BY <2>3, <2>4
<1> QED
  BY <1>6, <1>7

\* The next generation is one that no entity with the id has had, unless
\* generations start over.
LEMMA DeleteFresh ==
    ASSUME IInv, Fresh, NEW e \in Entity, Delete(e)
    PROVE  Fresh'
<1>1. dead' = dead \cup {e} /\ forced' = (forced \/ e.gen = GenCount - 1)
  BY DEF Delete
<1> SUFFICES ASSUME ~forced', NEW f \in dead', NEW en \in Entity, Entry(en)', en.id = f.id
             PROVE  en.gen > f.gen
  BY DEF Fresh
<1>2. ~forced /\ e.gen # GenCount - 1
  BY <1>1 DEF IInv, TypeOK
<1>3. /\ GenCount \in Nat /\ \A g \in Entity : g.gen \in 0 .. GenCount - 1
      /\ dead \subseteq Entity
  BY GenCountAssumption DEF Entity, Gens, IInv, TypeOK
<1>4. NextGeneration(e).gen = e.gen + 1 /\ NextGeneration(e).id = e.id
  <2>1. e.gen + 1 \in 0 .. GenCount - 1
    BY <1>2, <1>3
  <2>2. (e.gen + 1) % GenCount = e.gen + 1
    BY <1>3, <2>1
  <2>3. NextGeneration(e).gen = (e.gen + 1) % GenCount /\ NextGeneration(e).id = e.id
    BY RemovedFacts DEF Delete
  <2> QED
    BY <2>2, <2>3
<1>5. Entry(e)
  <2>1. IsAlive(e) /\ index_of[e.id] \in 1 .. alive_count - 1 /\ alive_count \in 1 .. Len(dense) + 1
    BY RemovedFacts, IndexFacts DEF Delete
  <2>2. index_of[e.id] \in 1 .. Len(dense) /\ dense[index_of[e.id]] = e
    BY <2>1, IndexFacts DEF IsAlive
  <2> QED
    BY <2>2 DEF Entry
<1>6. CASE en = NextGeneration(e)
  <2>1. f \in dead => e.gen > f.gen
    BY <1>2, <1>4, <1>5, <1>6 DEF Fresh
  <2>2. f \in Entity
    BY <1>1, <1>3
  <2> QED
    BY <1>1, <1>3, <1>4, <1>6, <2>1, <2>2
<1>7. CASE Entry(en) /\ en.id # e.id
  BY <1>1, <1>2, <1>7 DEF Fresh
<1> QED
  BY <1>6, <1>7, DeleteEntries

\* Creating and activating ranges adds no entry.
LEMMA RangesFresh ==
    ASSUME IInv, Fresh, NEW r \in Ranges, RangeNew(r) \/ RangeSet(r)
    PROVE  Fresh'
<1>1. CASE RangeNew(r)
  <2>1. /\ ranges' \subseteq Ranges /\ active_range' \in ranges'
        /\ UNCHANGED <<indexVars, recycled, dead, forced>>
        /\ ranges # {} => active_range' = active_range
    BY <1>1, RangeNewFacts
  <2>2. ASSUME NEW en \in Entity, Entry(en)' PROVE Entry(en)
    <3>1. CASE \E k \in 1 .. Len(dense') : dense'[k] = en
      BY <2>1, <3>1 DEF Entry, indexVars
    <3>2. CASE ~\E k \in 1 .. Len(dense') : dense'[k] = en
      <4>1. PICK s \in ranges' \ {active_range'} :
                    \E k \in 1 .. Len(recycled[s]) : recycled[s][k] = en
        BY <2>1, <2>2, <3>2 DEF Entry
      <4>2. s \in ranges
        <5>1. s \notin ranges => recycled[s] = <<>>
          BY <2>1 DEF IInv, ListsEmpty
        <5>2. Len(<<>>) = 0
          BY EmptySeq
        <5> QED
          BY <4>1, <5>1, <5>2
      <4> QED
        BY <2>1, <4>1, <4>2 DEF Entry
    <3> QED
      BY <3>1, <3>2
  <2> QED
    BY <2>1, <2>2, EntriesKept
<1>2. CASE RangeSet(r)
  <2>1. /\ Len(dense) \in Nat /\ alive_count \in 1 .. Len(dense) + 1
        /\ r \in ranges /\ ranges \subseteq Ranges /\ active_range \in ranges
        /\ active_range # NoRange
    BY <1>2, IndexFacts, RangeFacts DEF IInv, RangeSet
  <2>2. /\ Len(NotAlive) = Len(dense) + 1 - alive_count
        /\ \A k \in 1 .. Len(NotAlive) : alive_count - 1 + k \in alive_count .. Len(dense)
        /\ \A k \in 1 .. Len(NotAlive) : NotAlive[k] = dense[alive_count - 1 + k]
    BY NotAliveFacts
  <2>3. /\ Saved[r] = IF r = active_range THEN NotAlive ELSE recycled[r]
        /\ Len(dense') = alive_count - 1 + Len(Saved[r]) /\ Len(Saved[r]) \in Nat
        /\ \A k \in 1 .. alive_count - 1 : dense'[k] = dense[k]
        /\ \A k \in 1 .. Len(Saved[r]) : dense'[alive_count - 1 + k] = Saved[r][k]
    BY <1>2, LoadedFacts
  <2>4. /\ ranges' = ranges /\ active_range' = r /\ dead' = dead /\ forced' = forced
        /\ recycled' = [[recycled EXCEPT ![active_range] = NotAlive] EXCEPT ![r] = <<>>]
    BY <1>2, <2>1 DEF RangeSet, Saved
  <2>5. \A k \in 1 .. Len(NotAlive) : Entry(NotAlive[k])
    <3>1. \A k \in 1 .. Len(NotAlive) : alive_count - 1 + k \in 1 .. Len(dense)
      BY <2>1, <2>2
    <3> QED
      BY <2>2, <3>1 DEF Entry
  <2>6. \A k \in 1 .. Len(Saved[r]) : Entry(Saved[r][k])
    BY <2>1, <2>3, <2>5 DEF Entry
  <2>7. ASSUME NEW en \in Entity, Entry(en)' PROVE Entry(en)
    <3>1. CASE \E k \in 1 .. Len(dense') : dense'[k] = en
      <4>1. PICK k \in 1 .. Len(dense') : dense'[k] = en
        BY <3>1
      <4>2. CASE k \in 1 .. alive_count - 1
        <5>1. k \in 1 .. Len(dense)
          BY <2>1, <4>2
        <5> QED
          BY <2>3, <4>1, <4>2, <5>1 DEF Entry
      <4>3. CASE k \notin 1 .. alive_count - 1
        <5> DEFINE h == k - (alive_count - 1)
        <5>1. h \in 1 .. Len(Saved[r]) /\ alive_count - 1 + h = k
          BY <2>1, <2>3, <4>3
        <5> HIDE DEF h
        <5>2. dense'[alive_count - 1 + h] = Saved[r][h]
          BY <2>3, <5>1
        <5> QED
          BY <2>6, <4>1, <5>1, <5>2
      <4> QED
        BY <4>2, <4>3
    <3>2. CASE ~\E k \in 1 .. Len(dense') : dense'[k] = en
      <4>1. PICK s \in ranges \ {r} :
                    \E k \in 1 .. Len(recycled'[s]) : recycled'[s][k] = en
        BY <2>4, <2>7, <3>2 DEF Entry
      <4>2. recycled'[s] = IF s = active_range THEN NotAlive ELSE recycled[s]
        <5>1. recycled \in [Ranges -> Seq(Entity)]
          BY DEF IInv, TypeOK
        <5> QED
          BY <2>1, <2>4, <5>1
      <4> QED
        BY <2>5, <4>1, <4>2 DEF Entry
    <3> QED
      BY <3>1, <3>2
  <2> QED
    BY <2>4, <2>7, EntriesKept
<1> QED
  BY <1>1, <1>2

\* The elements of a consistent vector before element n are entities, one of
\* each id.
LEMMA OnePerIdBefore ==
    ASSUME NEW d, NEW x, NEW n, Consistent(d, x), n \in 1 .. Len(d) + 1
    PROVE  /\ {d[k] : k \in 1 .. n - 1} \in SUBSET Entity
           /\ Entities!OnePerId({d[k] : k \in 1 .. n - 1})
<1>1. /\ Len(d) \in Nat
      /\ \A k \in 1 .. Len(d) : d[k] \in Entity
      /\ \A k, m \in 1 .. Len(d) : d[k].id = d[m].id => k = m
  BY ConsistentFacts
<1>2. \A k \in 1 .. n - 1 : k \in 1 .. Len(d)
  BY <1>1
<1> QED
  BY <1>1, <1>2 DEF Entities!OnePerId

\* An entity is made alive that was not, or the generation of one is changed:
\* generations are forced from then on.
LEMMA MakeAliveRevives ==
    ASSUME IInv, NEW e \in Entity, MakeAlive(e)
    PROVE  Entities!Revive
<1>1. /\ Consistent(dense', index_of') /\ Len(dense') \in Nat
      /\ alive_count' = alive_count + 1 /\ alive_count \in 1 .. Len(dense')
      /\ dense'[alive_count] = e
      /\ \A k \in 1 .. alive_count - 1 : dense'[k] = dense[k]
      /\ UNCHANGED <<rangeVars, dead>> /\ forced' = TRUE
  BY MakeAliveFacts
<1>2. Living' = {dense'[k] : k \in 1 .. alive_count' - 1}
  BY DEF Living
<1>3. Entities!OnePerId(Living')
  <2>1. Consistent(dense', index_of') /\ alive_count' \in 1 .. Len(dense') + 1
    BY <1>1
  <2> QED
    BY <1>2, <2>1, OnePerIdBefore
<1>4. Living' = Living \cup {e}
  <2>1. 1 .. alive_count' - 1 = (1 .. alive_count - 1) \cup {alive_count}
    BY <1>1
  <2> QED
    BY <1>1, <1>2, <2>1 DEF Living
<1> QED
  BY <1>1, <1>3, <1>4 DEF Entities!Revive

\* Where an id is not alive, its next generation is chosen.
LEMMA SetVersionChanges ==
    ASSUME IInv, NEW e \in Entity, SetVersion(e)
    PROVE  Entities!ChangeVersion \/ Entities!ChooseVersion
<1> DEFINE i == index_of[e.id]
           f == dense[i]
<1>1. /\ Consistent(dense, index_of)
      /\ Len(dense) \in Nat /\ alive_count \in 1 .. Len(dense) + 1
      /\ \A k \in 1 .. Len(dense) : dense[k] \in Entity
      /\ \A k, m \in 1 .. Len(dense) : dense[k].id = dense[m].id => k = m
  BY IndexFacts, ConsistentFacts
<1>2. i \in 1 .. Len(dense) /\ f.id = e.id
  BY IndexFacts DEF SetVersion, Consistent, Entity
<1>3. /\ dense' = [dense EXCEPT ![i] = e]
      /\ dead' = dead \cup {g \in {f} \ {e} : IsAlive(g)}
      /\ alive_count' = alive_count /\ forced' = TRUE
  BY DEF SetVersion
<1>4. IsAlive(f) <=> i < alive_count
  BY <1>1, <1>2 DEF IsAlive
<1>5. \A k \in 1 .. Len(dense) : dense'[k] = IF k = i THEN e ELSE dense[k]
  BY <1>1, <1>2, <1>3, ExceptSeq DEF Consistent
<1>6. \A k \in 1 .. alive_count - 1 : k \in 1 .. Len(dense)
  BY <1>1
<1>7. Living = {dense[k] : k \in 1 .. alive_count - 1}
  BY DEF Living
<1>8. Living' = {dense'[k] : k \in 1 .. alive_count - 1}
  BY <1>3 DEF Living
<1> HIDE DEF i, f
<1>9. CASE i < alive_count
  <2>1. i \in 1 .. alive_count - 1 /\ f = dense[i]
    BY <1>1, <1>2, <1>9 DEF f
  <2>2. f \in Living
    BY <1>7, <2>1
  <2>3. Living' = (Living \ {f}) \cup {e}
    <3>1. \A k \in 1 .. alive_count - 1 : k # i => dense[k] # f
      BY <1>1, <1>2, <1>6, <2>1
    <3> QED
      BY <1>5, <1>6, <1>7, <1>8, <2>1, <3>1
  <2>4. dead' = dead \cup ({f} \ {e})
    BY <1>3, <1>4, <1>9
  <2> QED
    BY <1>2, <1>3, <2>2, <2>3, <2>4 DEF Entities!ChangeVersion
<1>10. CASE ~(i < alive_count)
  <2>1. \A k \in 1 .. alive_count - 1 : k # i
    BY <1>1, <1>10
  <2>2. Living' = Living
    BY <1>5, <1>6, <1>7, <1>8, <2>1
  <2>3. dead' = dead
    BY <1>3, <1>4, <1>10
  <2> QED
    BY <1>3, <2>2, <2>3 DEF Entities!ChooseVersion
<1> QED
  BY <1>9, <1>10

\* New entities are none that were alive, until generations are forced.
LEMMA NewIdsCreate ==
    ASSUME IInv, Fresh, OwnIdsOnly, NEW count \in 1 .. MaxBulk, NewIds(count)
    PROVE  Entities!Create
<1> DEFINE n == alive_count'
           len == Len(dense')
<1>1. /\ Consistent(dense', index_of')
      /\ Len(dense) \in Nat /\ len \in Nat
      /\ \A k \in 1 .. Len(dense) : dense'[k] = dense[k]
      /\ n \in 1 .. len + 1 /\ n > alive_count
      /\ UNCHANGED <<rangeVars, dead, forced>>
  BY NewIdsFacts
<1>2. alive_count \in 1 .. Len(dense) + 1
  BY IndexFacts
<1>3. Living' = {dense'[k] : k \in 1 .. n - 1}
  BY DEF Living
<1>4. Living' \in SUBSET Entity /\ Entities!OnePerId(Living')
  BY <1>1, <1>3, OnePerIdBefore
<1> HIDE DEF n, len
<1>5. Living \subseteq Living'
  <2>1. \A k \in 1 .. alive_count - 1 : k \in 1 .. n - 1 /\ k \in 1 .. Len(dense)
    BY <1>1, <1>2
  <2> QED
    BY <1>1, <1>3, <2>1 DEF Living
<1>6. ASSUME ~forced, NEW f \in Living' \ Living, f \in dead PROVE FALSE
  <2>1. PICK k \in 1 .. n - 1 : f = dense'[k]
    BY <1>3, <1>6
  <2>2. k \in 1 .. Len(dense) \/ k \in Len(dense) + 1 .. len
    BY <1>1
  <2>3. CASE k \in 1 .. Len(dense)
    <3>1. f \in Entity /\ f.gen \in Int /\ Entry(f)
      BY <1>1, <1>4, <1>6, <2>1, <2>3, GenCountAssumption DEF Entry, Entity, Gens
    <3>2. f.gen > f.gen
      BY <1>6, <3>1 DEF Fresh
    <3> QED
      BY <3>1, <3>2
  <2>4. CASE k \in Len(dense) + 1 .. len
    BY <1>6, <2>1, <2>4, NewEntries DEF IInv, DeadKnown, len
  <2> QED
    BY <2>2, <2>3, <2>4
<1> QED
  BY <1>1, <1>4, <1>5, <1>6 DEF Entities!Create

\* A deleted entity is no longer alive, and all others are.
LEMMA DeleteDestroys ==
    ASSUME IInv, NEW e \in Entity, Delete(e)
    PROVE  Entities!Destroy
<1> DEFINE i == index_of[e.id]
           j == alive_count - 1
           R == RemovedDense(e)
<1>1. /\ Len(dense) \in Nat /\ alive_count \in 1 .. Len(dense) + 1
      /\ \A k, m \in 1 .. Len(dense) : dense[k].id = dense[m].id => k = m
  BY IndexFacts, ConsistentFacts
<1>2. /\ Consistent(R, RemovedIndex(e)) /\ Len(R) = Len(dense)
      /\ j \in 1 .. Len(dense) /\ R[j].id = e.id
      /\ \A k \in 1 .. Len(dense) : k # j => R[k] = IF k = i THEN dense[j] ELSE dense[k]
      /\ i \in 1 .. j /\ dense[i] = e
  BY RemovedFacts DEF Delete
<1> HIDE DEF R
<1>3. alive_count' = alive_count - 1 /\ dead' = dead \cup {e} /\ (forced => forced')
  BY DEF Delete
<1>4. \A k \in 1 .. j - 1 : k \in 1 .. Len(dense) /\ k # j /\ dense'[k] = R[k]
  <2>1. CASE InActiveRange(e.id)
    <3>1. dense' = R
      BY <2>1 DEF Delete, R
    <3> QED
      BY <1>1, <1>2, <3>1
  <2>2. CASE ~InActiveRange(e.id)
    <3>1. dense' = Drop(R, j)
      BY <2>2 DEF Delete, Drop, R
    <3> HIDE DEF j
    <3>2. Consistent(R, RemovedIndex(e)) /\ j \in 1 .. Len(R) /\ e.id \in Ids /\ e.id = R[j].id
      BY <1>2 DEF Entity
    <3>3. \A k \in 1 .. Len(R) - 1 : Drop(R, j)[k] = IF k = j THEN R[Len(R)] ELSE R[k]
      BY ONLY <3>2, DropConsistent
    <3>4. \A k \in 1 .. j - 1 : k \in 1 .. Len(R) - 1 /\ k \in 1 .. Len(dense) /\ k # j
      BY <1>1, <1>2
    <3> QED
      BY <3>1, <3>3, <3>4
  <2> QED
    BY <2>1, <2>2
<1>5. Living = {dense[k] : k \in 1 .. j}
  BY DEF Living
<1>6. Living' = {dense'[k] : k \in 1 .. j - 1}
  BY <1>3 DEF Living
<1> HIDE DEF i, j
<1>7. i \in 1 .. j /\ \A k \in 1 .. j : k \in 1 .. Len(dense) /\ k \in Int
  BY <1>1, <1>2
<1>8. \A k \in 1 .. j : k # i => dense[k] # e
  BY <1>1, <1>2, <1>7
<1>9. ASSUME NEW g \in Living' PROVE g \in Living \ {e}
  <2>1. PICK k \in 1 .. j - 1 : g = dense'[k]
    BY <1>6
  <2>2. k \in 1 .. Len(dense) /\ k # j /\ k \in 1 .. j /\ j \in 1 .. j
    BY <1>1, <1>2, <1>4
  <2>3. g = IF k = i THEN dense[j] ELSE dense[k]
    BY <1>2, <1>4, <2>1, <2>2
  <2> QED
    BY <1>5, <1>8, <2>2, <2>3
<1>10. ASSUME NEW g \in Living \ {e} PROVE g \in Living'
  <2>1. PICK m \in 1 .. j : g = dense[m]
    BY <1>5
  <2>2. m # i /\ j \in Int /\ m \in Int /\ i \in Int
    BY <1>2, <1>7, <2>1
  <2>3. CASE m # j
    <3>1. m \in 1 .. j - 1
      BY <2>2, <2>3
    <3>2. dense'[m] = dense[m]
      BY <1>2, <1>4, <2>2, <2>3, <3>1
    <3> QED
      BY <1>6, <2>1, <3>1, <3>2
  <2>4. CASE m = j
    <3>1. i \in 1 .. j - 1
      BY <1>7, <2>2, <2>4
    <3>2. dense'[i] = dense[j]
      BY <1>2, <1>4, <3>1
    <3> QED
      BY <1>6, <2>1, <2>4, <3>1, <3>2
  <2> QED
    BY <2>3, <2>4
<1>11. e \in Living
  BY <1>2, <1>5, <1>7
<1> QED
  BY <1>3, <1>9, <1>10, <1>11 DEF Entities!Destroy

\* Ranges change no entity that is alive.
LEMMA RangesStutter ==
    ASSUME IInv, NEW r \in Ranges, RangeNew(r) \/ RangeSet(r)
    PROVE  UNCHANGED <<Living, dead, forced>>
<1>1. CASE RangeNew(r)
  BY <1>1 DEF RangeNew, indexVars, Living
<1>2. CASE RangeSet(r)
  <2>1. \A k \in 1 .. alive_count - 1 : dense'[k] = dense[k]
    BY <1>2, LoadedFacts
  <2>2. alive_count' = alive_count /\ dead' = dead /\ forced' = forced
    BY <1>2 DEF RangeSet
  <2> QED
    BY <2>1, <2>2 DEF Living
<1> QED
  BY <1>1, <1>2

\* A handle that was kept never names another entity until generations are
\* forced, for every number of ids and generations and every set of ranges: the
\* index implements FlecsEntities.
THEOREM IndexImplementsEntities == ASSUME OwnIdsOnly PROVE Spec => ImplementsEntities
<1>1. Init => Entities!FEInit /\ Fresh
  <2> SUFFICES ASSUME Init PROVE Entities!FEInit /\ Fresh
    OBVIOUS
  <2>1. 1 .. alive_count - 1 = {}
    BY DEF Init
  <2> QED
    BY <2>1 DEF Init, Entities!FEInit, Fresh, Living
<1>2. IInv /\ Fresh /\ [Next]_vars => Fresh'
  <2> SUFFICES ASSUME IInv, Fresh, [Next]_vars PROVE Fresh'
    OBVIOUS
  <2>1. ASSUME NEW count \in 1 .. MaxBulk, NewIds(count) PROVE Fresh'
    BY <2>1, NewIdsFresh
  <2>2. ASSUME NEW e \in Entity, MakeAlive(e) \/ SetVersion(e) PROVE Fresh'
    BY <2>2 DEF MakeAlive, SetVersion, Fresh
  <2>3. ASSUME NEW e \in Entity, Delete(e) PROVE Fresh'
    BY <2>3, DeleteFresh
  <2>4. ASSUME NEW r \in Ranges, RangeNew(r) \/ RangeSet(r) PROVE Fresh'
    BY <2>4, RangesFresh
  <2>5. CASE UNCHANGED vars
    BY <2>5 DEF vars, indexVars, rangeVars, Fresh, Entry
  <2> QED
    BY <2>1, <2>2, <2>3, <2>4, <2>5 DEF Next
<1>3. IInv /\ Fresh /\ [Next]_vars =>
        [\/ Entities!Create \/ Entities!Revive \/ Entities!Destroy
         \/ Entities!ChangeVersion \/ Entities!ChooseVersion]_(Entities!entitiesVars)
  <2> SUFFICES ASSUME IInv, Fresh, [Next]_vars
               PROVE  \/ Entities!Create \/ Entities!Revive \/ Entities!Destroy
                      \/ Entities!ChangeVersion \/ Entities!ChooseVersion
                      \/ UNCHANGED <<Living, dead, forced>>
    BY DEF Entities!entitiesVars
  <2>1. ASSUME NEW count \in 1 .. MaxBulk, NewIds(count) PROVE Entities!Create
    BY <2>1, NewIdsCreate
  <2>2. ASSUME NEW e \in Entity, MakeAlive(e) PROVE Entities!Revive
    BY <2>2, MakeAliveRevives
  <2>3. ASSUME NEW e \in Entity, SetVersion(e)
        PROVE  Entities!ChangeVersion \/ Entities!ChooseVersion
    BY <2>3, SetVersionChanges
  <2>4. ASSUME NEW e \in Entity, Delete(e) PROVE Entities!Destroy
    BY <2>4, DeleteDestroys
  <2>5. ASSUME NEW r \in Ranges, RangeNew(r) \/ RangeSet(r)
        PROVE  UNCHANGED <<Living, dead, forced>>
    BY <2>5, RangesStutter
  <2>6. CASE UNCHANGED vars
    BY <2>6 DEF vars, indexVars, Living
  <2> QED
    BY <2>1, <2>2, <2>3, <2>4, <2>5, <2>6 DEF Next
<1> QED
  BY <1>1, <1>2, <1>3, Invariance, PTL DEF Spec, ImplementsEntities, Entities!FESpec

=============================================================================
