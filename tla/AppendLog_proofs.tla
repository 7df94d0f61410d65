---------------------------- MODULE AppendLog_proofs ---------------------------
(* What AppendLog.merge returns, for every pair of logs.                       *)
EXTENDS AppendLog, FiniteSetTheorems, TLAPS

(* The records of one log are of one set R, with natural timestamps. *)
IsRecordSet(R) == \A r \in R : r.ts \in Nat

LEMMA KeptType ==
    ASSUME NEW R, IsRecordSet(R), NEW log \in Seq(R), NEW remote \in Seq(R)
    PROVE  /\ log \o remote \in Seq(R)
           /\ Len(log \o remote) = Len(log) + Len(remote)
           /\ \A i \in 1..Len(log \o remote) : (log \o remote)[i] \in R
           /\ Kept(log, remote) \subseteq 1..Len(log \o remote)
           /\ IsFiniteSet(Kept(log, remote))
           /\ Cardinality(Kept(log, remote)) \in Nat
<1>1. /\ log \o remote \in Seq(R)
      /\ Len(log \o remote) = Len(log) + Len(remote)
  OBVIOUS
<1>2. \A i \in 1..Len(log \o remote) : (log \o remote)[i] \in R
  BY <1>1
<1>3. Kept(log, remote) \subseteq 1..Len(log \o remote)
  BY DEF Kept
<1>4. IsFiniteSet(1..Len(log \o remote))
  BY <1>1, FS_Interval
<1>5. IsFiniteSet(Kept(log, remote))
  BY <1>3, <1>4, FS_Subset
<1>6. QED
  BY <1>1, <1>2, <1>3, <1>5, FS_CardinalityType

(* Sorting gives every kept position a rank of its own: the ranks are exactly  *)
(* the positions of the result.                                                *)
LEMMA RanksOntoPositions ==
    ASSUME NEW R, IsRecordSet(R), NEW log \in Seq(R), NEW remote \in Seq(R)
    PROVE  LET all  == log \o remote
               kept == Kept(log, remote)
           IN  /\ \A i \in kept : SortRank(all, kept, i) \in 1..Cardinality(kept)
               /\ \A i, j \in kept :
                     SortRank(all, kept, i) = SortRank(all, kept, j) => i = j
               /\ \A p \in 1..Cardinality(kept) :
                     \E i \in kept : SortRank(all, kept, i) = p
<1> DEFINE all  == log \o remote
           kept == Kept(log, remote)
           n    == Cardinality(kept)
           below(i) == {j \in kept : SortedBefore(all, j, i)}
           rank == [i \in kept |-> SortRank(all, kept, i)]
<1>1. /\ kept \subseteq 1..Len(all) /\ Len(all) \in Nat
      /\ IsFiniteSet(kept) /\ n \in Nat
      /\ \A i \in kept : all[i].ts \in Nat
  BY KeptType DEF IsRecordSet
<1> HIDE DEF all, kept
<1>2. ASSUME NEW i \in kept
      PROVE  /\ IsFiniteSet(below(i))
             /\ Cardinality(below(i)) \in Nat
             /\ Cardinality(below(i)) < n
  <2>1. below(i) \subseteq kept \ {i}
    BY <1>1 DEF SortedBefore
  <2>2. IsFiniteSet(kept \ {i}) /\ Cardinality(kept \ {i}) = n - 1
    BY <1>1, FS_RemoveElement
  <2>3. IsFiniteSet(below(i)) /\ Cardinality(below(i)) <= n - 1
    BY <2>1, <2>2, FS_Subset
  <2> HIDE DEF below
  <2>4. Cardinality(below(i)) \in Nat
    BY <2>3, FS_CardinalityType
  <2>5. QED
    BY <2>3, <2>4, <1>1
<1>3. \A i \in kept : SortRank(all, kept, i) = Cardinality(below(i)) + 1
  BY DEF SortRank
<1>4. \A i \in kept : SortRank(all, kept, i) \in 1..n
  <2> TAKE i \in kept
  <2> HIDE DEF below
  <2>1. QED
    BY <1>1, <1>2, <1>3
<1>5. ASSUME NEW i \in kept, NEW j \in kept, SortedBefore(all, i, j)
      PROVE  SortRank(all, kept, i) < SortRank(all, kept, j)
  <2>1. below(i) \cup {i} \subseteq below(j)
    <3>1. \A k \in kept : SortedBefore(all, k, i) => SortedBefore(all, k, j)
      BY <1>1, <1>5 DEF SortedBefore
    <3>2. QED
      BY <1>5, <3>1
  <2>2. i \notin below(i)
    BY <1>1 DEF SortedBefore
  <2> HIDE DEF below
  <2>3. IsFiniteSet(below(i) \cup {i}) /\ Cardinality(below(i) \cup {i}) = Cardinality(below(i)) + 1
    BY <1>2, <2>2, FS_AddElement
  <2>4. Cardinality(below(i) \cup {i}) <= Cardinality(below(j))
    BY <1>2, <2>1, FS_Subset
  <2>5. QED
    BY <1>2, <1>3, <2>3, <2>4
<1>6. ASSUME NEW i \in kept, NEW j \in kept,
             SortRank(all, kept, i) = SortRank(all, kept, j), i # j
      PROVE  FALSE
  <2>1. SortedBefore(all, i, j) \/ SortedBefore(all, j, i)
    BY <1>1, <1>6 DEF SortedBefore
  <2>2. SortRank(all, kept, i) \in Nat /\ SortRank(all, kept, j) \in Nat
    BY <1>4, <1>1
  <2>3. QED
    BY <1>5, <1>6, <2>1, <2>2
<1>7. rank \in Injection(kept, 1..n)
  BY <1>4, <1>6 DEF Injection, IsInjective
<1>8. IsFiniteSet(1..n) /\ Cardinality(1..n) = n
  BY <1>1, FS_Interval
<1>9. rank \in Surjection(kept, 1..n)
  BY <1>7, <1>8, FS_Injection
<1>10. \A p \in 1..n : \E i \in kept : SortRank(all, kept, i) = p
  BY <1>9 DEF Surjection
<1>11. QED
  BY <1>4, <1>6, <1>10 DEF all, kept

(* Where the record of a kept position goes, and where each position's record  *)
(* comes from.                                                                 *)
Rearranges(merged, all, kept) ==
    /\ DOMAIN merged = 1..Cardinality(kept)
    /\ \A i \in kept : /\ SortRank(all, kept, i) \in DOMAIN merged
                       /\ merged[SortRank(all, kept, i)] = all[i]
    /\ \A p \in DOMAIN merged :
          \E i \in kept : SortRank(all, kept, i) = p /\ merged[p] = all[i]

LEMMA LogMergedPositions ==
    ASSUME NEW R, IsRecordSet(R), NEW log \in Seq(R), NEW remote \in Seq(R)
    PROVE  /\ LogMerged(log, remote) \in Seq(R)
           /\ Rearranges(LogMerged(log, remote), log \o remote, Kept(log, remote))
<1> DEFINE all    == log \o remote
           kept   == Kept(log, remote)
           n      == Cardinality(kept)
           merged == LogMerged(log, remote)
           at(p)  == CHOOSE i \in kept : SortRank(all, kept, i) = p
<1>1. merged = [p \in 1..n |-> all[at(p)]]
  BY DEF LogMerged
<1>2. /\ n \in Nat
      /\ \A i \in kept : all[i] \in R
  BY KeptType
<1>3. /\ \A i \in kept : SortRank(all, kept, i) \in 1..n
      /\ \A i, j \in kept : SortRank(all, kept, i) = SortRank(all, kept, j) => i = j
      /\ \A p \in 1..n : \E i \in kept : SortRank(all, kept, i) = p
  BY RanksOntoPositions
<1> HIDE DEF all, kept, n, merged
<1>4. \A p \in 1..n : at(p) \in kept /\ SortRank(all, kept, at(p)) = p
  BY <1>3
<1>5. \A i \in kept : at(SortRank(all, kept, i)) = i
  BY <1>3, <1>4
<1> HIDE DEF at
<1>6. \A i \in kept : merged[SortRank(all, kept, i)] = all[i]
  BY <1>1, <1>3, <1>5
<1>7. \A p \in 1..n : \E i \in kept : SortRank(all, kept, i) = p /\ merged[p] = all[i]
  BY <1>1, <1>4
<1>8. DOMAIN merged = 1..n /\ merged \in [1..n -> R]
  BY <1>1, <1>2, <1>4
<1>9. merged \in Seq(R)
  BY <1>2, <1>8
<1>10. QED
  BY <1>3, <1>6, <1>7, <1>8, <1>9, Zenon DEF all, kept, n, merged, Rearranges

(* Merging gives a log again. *)
THEOREM LogMergedType ==
    ASSUME NEW R, IsRecordSet(R), NEW log \in Seq(R), NEW remote \in Seq(R)
    PROVE  LogMerged(log, remote) \in Seq(R)
  BY LogMergedPositions

(* Merging loses no record of the log merged into. *)
THEOREM LogMergedKeeps ==
    ASSUME NEW R, IsRecordSet(R), NEW log \in Seq(R), NEW remote \in Seq(R)
    PROVE  {log[i] : i \in DOMAIN log}
              \subseteq {LogMerged(log, remote)[p] : p \in DOMAIN LogMerged(log, remote)}
<1> DEFINE all    == log \o remote
           kept   == Kept(log, remote)
           merged == LogMerged(log, remote)
           at(i)  == SortRank(all, kept, i)
<1>1. \A i \in kept : at(i) \in DOMAIN merged /\ merged[at(i)] = all[i]
  <2>1. Rearranges(merged, all, kept)
    BY LogMergedPositions
  <2>2. QED
    BY <2>1, Zenon DEF Rearranges
<1>2. \A i \in DOMAIN log : i \in kept /\ all[i] = log[i]
  BY DEF Kept
<1> HIDE DEF all, kept, merged, at
<1>3. \A i \in DOMAIN log : \E p \in DOMAIN merged : merged[p] = log[i]
  BY <1>1, <1>2
<1>4. QED
  BY <1>3 DEF merged

(* A log only grows in a merge: positions handed out by append stay taken. *)
LEMMA LogMergedGrows ==
    ASSUME NEW R, IsRecordSet(R), NEW log \in Seq(R), NEW remote \in Seq(R)
    PROVE  Len(LogMerged(log, remote)) >= Len(log)
<1> DEFINE kept   == Kept(log, remote)
           merged == LogMerged(log, remote)
<1>1. /\ 1..Len(log) \subseteq kept /\ IsFiniteSet(kept)
      /\ Cardinality(kept) \in Nat /\ Len(log) \in Nat
  <2>1. Len(log) \in Nat /\ Len(remote) \in Nat
    OBVIOUS
  <2>2. Len(log \o remote) = Len(log) + Len(remote)
    BY KeptType
  <2>3. 1..Len(log) \subseteq kept
    BY <2>1, <2>2 DEF Kept
  <2>4. IsFiniteSet(kept) /\ Cardinality(kept) \in Nat
    BY KeptType
  <2>5. QED
    BY <2>1, <2>3, <2>4
<1>2. Cardinality(1..Len(log)) = Len(log)
  <2>1. 1 \in Int /\ Len(log) \in Int
    OBVIOUS
  <2>2. Cardinality(1..Len(log)) = IF 1 > Len(log) THEN 0 ELSE Len(log) - 1 + 1
    BY <2>1, FS_Interval
  <2>3. QED
    BY <1>1, <2>2
<1>3. Len(log) <= Cardinality(kept)
  BY <1>1, <1>2, FS_Subset
<1>4. merged \in Seq(R) /\ DOMAIN merged = 1..Cardinality(kept)
  BY LogMergedPositions DEF Rearranges
<1> HIDE DEF kept, merged
<1>5. Len(merged) = Cardinality(kept)
  <2>1. Len(merged) \in Nat /\ DOMAIN merged = 1..Len(merged)
    BY <1>4
  <2>2. QED
    BY <1>1, <1>4, <2>1
<1>6. QED
  BY <1>3, <1>5 DEF merged

(* Whatever the merge returns was in one of the two logs. *)
THEOREM LogMergedInvents ==
    ASSUME NEW R, IsRecordSet(R), NEW log \in Seq(R), NEW remote \in Seq(R),
           NEW p \in DOMAIN LogMerged(log, remote)
    PROVE  \/ \E i \in DOMAIN log : LogMerged(log, remote)[p] = log[i]
           \/ \E i \in DOMAIN remote : LogMerged(log, remote)[p] = remote[i]
<1>1. PICK i \in Kept(log, remote) : LogMerged(log, remote)[p] = (log \o remote)[i]
  <2>1. Rearranges(LogMerged(log, remote), log \o remote, Kept(log, remote))
    BY LogMergedPositions
  <2>2. QED
    BY <2>1, Zenon DEF Rearranges
<1>2. i \in 1..(Len(log) + Len(remote))
  BY KeptType
<1>3. CASE i <= Len(log)
  BY <1>1, <1>2, <1>3
<1>4. CASE i > Len(log)
  <2>1. i - Len(log) \in DOMAIN remote /\ (log \o remote)[i] = remote[i - Len(log)]
    BY <1>2, <1>4
  <2>2. QED
    BY <1>1, <2>1
<1>5. QED
  BY <1>2, <1>3, <1>4

(* Merging into a log without repeated identities repeats none, whatever the   *)
(* remote list repeats.                                                        *)
THEOREM LogMergedIdsUnique ==
    ASSUME NEW R, IsRecordSet(R), NEW log \in Seq(R), NEW remote \in Seq(R),
           \A i, j \in DOMAIN log : RecordId(log[i]) = RecordId(log[j]) => i = j
    PROVE  \A p, q \in DOMAIN LogMerged(log, remote) :
              RecordId(LogMerged(log, remote)[p]) = RecordId(LogMerged(log, remote)[q])
                 => p = q
<1> DEFINE all    == log \o remote
           kept   == Kept(log, remote)
           merged == LogMerged(log, remote)
<1>1. \A p \in DOMAIN merged :
         \E i \in kept : SortRank(all, kept, i) = p /\ merged[p] = all[i]
  <2>1. Rearranges(merged, all, kept)
    BY LogMergedPositions
  <2>2. QED
    BY <2>1, Zenon DEF Rearranges
<1>2. ASSUME NEW i \in kept, NEW j \in kept, RecordId(all[i]) = RecordId(all[j]), i < j
      PROVE  FALSE
  <2>1. i \in 1..Len(all) /\ j \in 1..Len(all) /\ Len(log) \in Nat
    BY KeptType
  <2>2. CASE j <= Len(log)
    <3>1. i \in DOMAIN log /\ j \in DOMAIN log /\ all[i] = log[i] /\ all[j] = log[j]
      BY <1>2, <2>1, <2>2
    <3>2. QED
      BY <1>2, <3>1
  <2>3. CASE j > Len(log)
    <3>1. \A h \in 1..(j - 1) : RecordId(all[h]) # RecordId(all[j])
      BY <2>1, <2>3 DEF Kept
    <3>2. i \in 1..(j - 1)
      BY <1>2, <2>1
    <3>3. QED
      BY <1>2, <3>1, <3>2
  <2>4. QED
    BY <2>1, <2>2, <2>3
<1>3. kept \subseteq Nat
  BY KeptType
<1> HIDE DEF all, kept, merged
<1>4. ASSUME NEW p \in DOMAIN merged, NEW q \in DOMAIN merged,
             RecordId(merged[p]) = RecordId(merged[q])
      PROVE  p = q
  <2>1. PICK i \in kept : SortRank(all, kept, i) = p /\ merged[p] = all[i]
    BY <1>1
  <2>2. PICK j \in kept : SortRank(all, kept, j) = q /\ merged[q] = all[j]
    BY <1>1
  <2>3. ~(i < j) /\ ~(j < i)
    BY <1>2, <1>4, <2>1, <2>2
  <2>4. i = j
    BY <1>3, <2>3
  <2>5. QED
    BY <2>1, <2>2, <2>4
<1>5. QED
  BY <1>4 DEF merged
-------------------------------------------------------------------------------
(* Logs that are beginnings of one log.                                        *)

BeginningOf(s, t) == Len(s) <= Len(t) /\ \A i \in DOMAIN s : s[i] = t[i]

(* s goes on where a copy of t's first n records ends, or starts before. *)
ContinuationOf(s, n, t) ==
    \E a \in 0..n : a + Len(s) <= Len(t) /\ \A i \in DOMAIN s : s[i] = t[a + i]

(* The records of a log's only writer, in the order it appended them. *)
AppendedBy(log, w) ==
    /\ \A i \in DOMAIN log : log[i].device = w /\ log[i].seq = i - 1
    /\ \A i, j \in DOMAIN log : i <= j => log[i].ts <= log[j].ts

LEMMA SizeOfInterval ==
    ASSUME NEW m \in Int, NEW n \in Int, m <= n + 1
    PROVE  IsFiniteSet(m..n) /\ Cardinality(m..n) = n - m + 1
<1>1. IsFiniteSet(m..n) /\ Cardinality(m..n) = IF m > n THEN 0 ELSE n - m + 1
  BY FS_Interval
<1>2. QED
  BY <1>1

(* A copy of the first p records of W merges what follows record a, a <= p:    *)
(* it keeps the part it has not got, in its place, and is a longer copy.       *)
THEOREM LogMergedExtends ==
    ASSUME NEW R, IsRecordSet(R), NEW W \in Seq(R), NEW w, AppendedBy(W, w),
           NEW log \in Seq(R), BeginningOf(log, W),
           NEW remote \in Seq(R), ContinuationOf(remote, Len(log), W)
    PROVE  BeginningOf(LogMerged(log, remote), W)
<1> DEFINE all    == log \o remote
           kept   == Kept(log, remote)
           merged == LogMerged(log, remote)
           p      == Len(log)
           n      == Len(all)
<1>1. PICK a \in 0..p : a + Len(remote) <= Len(W) /\ \A i \in DOMAIN remote : remote[i] = W[a + i]
  BY DEF ContinuationOf
<1> DEFINE place(i) == IF i <= p THEN i ELSE a + (i - p)
<1>2. /\ p \in Nat /\ n \in Nat /\ p <= n /\ a \in Nat /\ a <= p
      /\ p <= Len(W) /\ Len(W) \in Nat /\ a + (n - p) <= Len(W)
  <2>1. n = p + Len(remote) /\ p \in Nat /\ Len(remote) \in Nat /\ Len(W) \in Nat
    BY KeptType
  <2>2. QED
    BY <1>1, <2>1 DEF BeginningOf
<1>3. \A i \in 1..n : place(i) \in 1..Len(W) /\ all[i] = W[place(i)]
  <2>1. ASSUME NEW i \in 1..n, i <= p PROVE place(i) \in 1..Len(W) /\ all[i] = W[place(i)]
    <3>1. i \in DOMAIN log /\ all[i] = log[i]
      BY <1>2, <2>1
    <3>2. QED
      BY <1>2, <2>1, <3>1 DEF BeginningOf
  <2>2. ASSUME NEW i \in 1..n, i > p PROVE place(i) \in 1..Len(W) /\ all[i] = W[place(i)]
    <3>1. n = p + Len(remote) /\ Len(remote) \in Nat
      BY KeptType
    <3>2. i - p \in DOMAIN remote /\ all[i] = remote[i - p]
      BY <1>2, <2>2, <3>1
    <3>3. QED
      BY <1>1, <1>2, <2>2, <3>1, <3>2
  <2>3. QED
    BY <1>2, <2>1, <2>2
<1>4. \A i, j \in 1..n : RecordId(all[i]) = RecordId(all[j]) => place(i) = place(j)
  <2>1. \A i, j \in 1..Len(W) : RecordId(W[i]) = RecordId(W[j]) => i = j
    BY DEF AppendedBy, RecordId
  <2> HIDE DEF place, all, n
  <2>2. QED
    BY <1>3, <2>1
<1>5. kept = 1..p \cup (2 * p - a + 1)..n
  <2>1. \A i \in kept : i \in 1..p \/ i \in (2 * p - a + 1)..n
    <3>1. ASSUME NEW i \in 1..n, i > p, i < 2 * p - a + 1 PROVE i \notin kept
      <4>1. place(i) \in 1..p /\ place(i) < i
        BY <1>2, <3>1
      <4>2. place(i) \in 1..n /\ place(place(i)) = place(i)
        BY <1>2, <4>1
      <4>3. all[place(i)] = all[i]
        <5> HIDE DEF all, n
        <5>1. QED
          BY <1>3, <3>1, <4>2
      <4>4. place(i) \in 1..(i - 1)
        BY <1>2, <3>1, <4>1
      <4>5. QED
        <5> HIDE DEF place
        <5>1. QED
          BY <1>2, <3>1, <4>3, <4>4 DEF Kept
    <3>2. kept \subseteq 1..n
      BY KeptType
    <3>3. QED
      BY <1>2, <3>1, <3>2
  <2>2. 1..p \subseteq kept
    BY <1>2 DEF Kept
  <2>3. ASSUME NEW i \in (2 * p - a + 1)..n PROVE i \in kept
    <3>1. i \in 1..n /\ i > p
      BY <1>2
    <3>2. \A j \in 1..(i - 1) : j \in 1..n /\ place(j) # place(i)
      BY <1>2, <3>1
    <3>3. \A j \in 1..(i - 1) : RecordId(all[j]) # RecordId(all[i])
      <4> HIDE DEF place, all, n
      <4>1. QED
        BY <1>4, <3>1, <3>2
    <3>4. QED
      BY <3>1, <3>3 DEF Kept
  <2>4. QED
    BY <2>1, <2>2, <2>3
<1>6. \A i, j \in kept : SortedBefore(all, j, i) <=> j < i
  <2>1. kept \subseteq 1..n
    BY KeptType
  <2>2. \A i, j \in kept : j < i => place(j) <= place(i)
    BY <1>2, <1>5
  <2>3. \A i \in 1..Len(W) : W[i].ts \in Nat
    BY DEF IsRecordSet
  <2>4. \A i, j \in 1..Len(W) : i <= j => W[i].ts <= W[j].ts
    BY DEF AppendedBy
  <2> HIDE DEF place, all, n, kept
  <2>5. \A i, j \in kept : j < i => all[j].ts <= all[i].ts
    BY <1>3, <2>1, <2>2, <2>4
  <2>6. \A i \in kept : all[i].ts \in Nat /\ i \in Nat
    BY <1>3, <2>1, <2>3
  <2>7. QED
    BY <2>5, <2>6 DEF SortedBefore
<1>7. ASSUME NEW i \in kept PROVE SortRank(all, kept, i) = place(i)
  <2> DEFINE below == {j \in kept : SortedBefore(all, j, i)}
  <2>1. below = {j \in kept : j < i}
    BY <1>6, <1>7
  <2>2. CASE i <= p
    <3>1. below = 1..(i - 1) /\ i >= 1
      BY <1>2, <1>5, <2>1, <2>2
    <3>2. i \in Int /\ i - 1 \in Int
      BY <1>2, <1>5
    <3>3. Cardinality(1..(i - 1)) = i - 1 - 1 + 1
      BY <3>1, <3>2, SizeOfInterval
    <3>4. SortRank(all, kept, i) = Cardinality(below) + 1
      BY DEF SortRank
    <3> HIDE DEF below
    <3>5. QED
      BY <2>2, <3>1, <3>2, <3>3, <3>4
  <2>3. CASE i > p
    <3> DEFINE A == 1..p
               B == (2 * p - a + 1)..(i - 1)
    <3>1. below = A \cup B
      BY <1>2, <1>5, <2>1, <2>3
    <3>2. i \in (2 * p - a + 1)..n
      BY <1>2, <1>5, <1>7, <2>3
    <3>3. IsFiniteSet(A) /\ Cardinality(A) = p
      <4>1. 1 \in Int /\ p \in Int /\ 1 <= p + 1
        BY <1>2
      <4>2. IsFiniteSet(1..p) /\ Cardinality(1..p) = p - 1 + 1
        BY <4>1, SizeOfInterval
      <4>3. QED
        BY <1>2, <4>2
    <3>4. IsFiniteSet(B) /\ Cardinality(B) = i - 1 - (2 * p - a)
      <4>1. PICK low, high : low = 2 * p - a + 1 /\ high = i - 1
        OBVIOUS
      <4>2. low \in Int /\ high \in Int /\ low <= high + 1 /\ i \in Int
        BY <1>2, <3>2, <4>1
      <4>3. IsFiniteSet(low..high) /\ Cardinality(low..high) = high - low + 1
        BY <4>2, SizeOfInterval
      <4>4. QED
        BY <1>2, <4>1, <4>2, <4>3
    <3>5. A \cap B = {}
      BY <1>2
    <3> HIDE DEF A, B
    <3>6. Cardinality(A \cup B) = p + (i - 1 - (2 * p - a)) - 0
      BY <3>3, <3>4, <3>5, FS_Union, FS_EmptySet
    <3>7. Cardinality(below) = a + (i - p) - 1
      <4>1. i \in Int
        BY <1>2, <3>2
      <4> HIDE DEF below
      <4>2. QED
        BY <1>2, <3>1, <3>6, <4>1
    <3>8. SortRank(all, kept, i) = Cardinality(below) + 1
      BY DEF SortRank
    <3> HIDE DEF below
    <3>9. QED
      BY <1>2, <2>3, <3>2, <3>7, <3>8
  <2>4. QED
    BY <1>2, <1>5, <1>7, <2>2, <2>3
<1>8. /\ merged \in Seq(R)
      /\ \A q \in DOMAIN merged : \E i \in kept : SortRank(all, kept, i) = q /\ merged[q] = all[i]
  <2>1. merged \in Seq(R) /\ Rearranges(merged, all, kept)
    BY LogMergedPositions
  <2>2. QED
    BY <2>1, Zenon DEF Rearranges
<1>9. kept \subseteq 1..n
  BY KeptType
<1> HIDE DEF place, all, n, kept, merged
<1>10. \A q \in DOMAIN merged : q \in 1..Len(W) /\ merged[q] = W[q]
  BY <1>3, <1>7, <1>8, <1>9
<1>11. Len(merged) <= Len(W)
  <2>1. Len(merged) \in Nat /\ DOMAIN merged = 1..Len(merged)
    BY <1>8
  <2>2. CASE Len(merged) = 0
    BY <1>2, <2>2
  <2>3. CASE Len(merged) # 0
    <3>1. Len(merged) \in DOMAIN merged
      BY <2>1, <2>3
    <3>2. QED
      BY <1>10, <3>1
  <2>4. QED
    BY <2>2, <2>3
<1>12. QED
  BY <1>10, <1>11 DEF BeginningOf, merged
(* What continues a copy continues a longer copy of a longer log. *)
LEMMA ContinuationGrows ==
    ASSUME NEW R, NEW s \in Seq(R), NEW t \in Seq(R), NEW u \in Seq(R),
           NEW m \in Nat, NEW n \in Nat, m <= n, BeginningOf(t, u), ContinuationOf(s, m, t)
    PROVE  ContinuationOf(s, n, u)
<1>1. PICK a \in 0..m : a + Len(s) <= Len(t) /\ \A i \in DOMAIN s : s[i] = t[a + i]
  BY DEF ContinuationOf
<1>2. \A i \in DOMAIN s : a + i \in DOMAIN t
  BY <1>1
<1>3. /\ a \in 0..n /\ a + Len(s) <= Len(u)
      /\ \A i \in DOMAIN s : s[i] = u[a + i]
  BY <1>1, <1>2 DEF BeginningOf
<1>4. QED
  BY <1>3 DEF ContinuationOf

(* What a copy holds past record m continues every copy of m records or more. *)
LEMMA SinceContinues ==
    ASSUME NEW R, NEW log \in Seq(R), NEW t \in Seq(R), BeginningOf(log, t),
           NEW m \in Nat, m < Len(log), NEW n \in Nat, m <= n
    PROVE  ContinuationOf(Since(log, m), n, t)
<1>1. PICK since : since = SubSeq(log, m + 1, Len(log))
  OBVIOUS
<1>2. Len(since) = Len(log) - m /\ DOMAIN since = 1..(Len(log) - m) /\ Len(log) \in Nat
  BY <1>1
<1>3. \A i \in DOMAIN since : m + i \in DOMAIN log /\ since[i] = log[m + i]
  BY <1>1, <1>2
<1>4. /\ m \in 0..n /\ m + Len(since) <= Len(t)
      /\ \A i \in DOMAIN since : since[i] = t[m + i]
  BY <1>2, <1>3 DEF BeginningOf
<1>5. QED
  BY <1>1, <1>4 DEF ContinuationOf, Since

LEMMA EmptyContinues ==
    ASSUME NEW R, NEW t \in Seq(R), NEW n \in Nat
    PROVE  ContinuationOf(<<>>, n, t)
<1>1. 0 \in 0..n /\ 0 + Len(<<>>) <= Len(t)
  OBVIOUS
<1>2. QED
  BY <1>1 DEF ContinuationOf
================================================================================
