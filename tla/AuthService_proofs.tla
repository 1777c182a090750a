-------------------------- MODULE AuthService_proofs --------------------------
(****************************************************************************)
(* Web sessions and credentials, proved for any number of tokens and slots, *)
(* any limits, writes to NVS that fail and resets at any point.             *)
(*                                                                          *)
(* SlotsApart is what the table keeps true beyond its types: a session is   *)
(* in one slot, the numbers tell the remembered ones apart, and the next    *)
(* number is above them all, also after begin() has renumbered what it      *)
(* read.  With it every operation of the table is a step of OpenSessions,   *)
(* or none; and every request of AuthService is an operation of the table,  *)
(* since the session that changes the credentials is still honoured when    *)
(* the others are closed (CallerIn).                                        *)
(****************************************************************************)
EXTENDS AuthService, FiniteSetTheorems, FunctionTheorems, NaturalsInduction, TLAPS

\* No two of the given places hold the same session or the same number.
Apart(table, places) ==
    \A i, j \in places : i # j => /\ table[i].token # table[j].token
                                  /\ table[i].seq # table[j].seq

\* Every session is in one slot, the numbers tell the remembered ones apart,
\* and the next number is the highest.
SlotsApart ==
    /\ \A i, j \in Slot :
         i # j /\ slots[i].token # NoToken => slots[i].token # slots[j].token
    /\ \A i \in UsedPersistent : \A j \in Slot : persistent[i].token # slots[j].token
    /\ Apart(persistent, UsedPersistent)
    /\ Apart(blob, DOMAIN blob)
    /\ nextSeq # 0 => \A i \in UsedPersistent : persistent[i].seq < nextSeq

TableInv == TableTypeOK /\ SlotsApart

\* The window is closed but between the change of the credentials and the end of
\* the same request.
WindowUsedUp == usedWindow /\ pc \notin {"clear", "create"} => recovery = 0

\* Who changes the credentials is logged in until the request ends.
CallerIn == pc = "rotate" => caller \in Token /\ Honoured(caller)

AuthIInv ==
    /\ AuthTypeOK
    /\ SlotsApart
    /\ WindowUsedUp
    /\ CallerIn
    /\ cleared = {}

------------------------------------------------------------------------------
(* Smallest and largest elements, and the places of a set in their order.   *)

LEMMA Smallest ==
    ASSUME NEW S, S \subseteq Nat, S # {}
    PROVE  \E i \in S : \A j \in S : i <= j
<1> DEFINE R == OpToRel(<, Nat)
<1>1. IsWellFoundedOn(R, Nat)
  BY NatLessThanWellFounded
<1> HIDE DEF R
<1>2. PICK i \in S : \A j \in S : ~(<<j, i>> \in R)
  BY <1>1, WFMin
<1>3. \A j \in S : ~(j < i)
  BY <1>2 DEF R, OpToRel
<1>4. QED
  BY <1>3

LEMMA Largest ==
    ASSUME NEW n \in Nat, NEW S, S \subseteq 0..n, S # {}
    PROVE  \E i \in S : \A j \in S : j <= i
<1> DEFINE T == {n - i : i \in S}
<1>1. PICK k \in T : \A l \in T : k <= l
  <2>1. T \subseteq Nat /\ T # {}
    <3>1. \A i \in S : i \in Int /\ 0 <= i /\ i <= n
      OBVIOUS
    <3>2. \A i \in S : n - i \in Nat
      BY <3>1
    <3>3. QED
      BY <3>2
  <2>2. QED
    BY <2>1, Smallest
<1>2. PICK i \in S : k = n - i
  OBVIOUS
<1>3. \A j \in S : n - i <= n - j
  BY <1>1, <1>2
<1>4. QED
  BY <1>3

\* The k-th place of a set is one of its places, and each place has a number.
UpTo(S, i) == {j \in S : j <= i}

LEMMA UpToCount ==
    ASSUME NEW n \in Nat, NEW S \in SUBSET (1..n)
    PROVE  /\ IsFiniteSet(S)
           /\ Cardinality(S) \in 0..n
           /\ \A i \in S : Cardinality(UpTo(S, i)) \in 1..Cardinality(S)
           /\ \A i, j \in S : i < j => Cardinality(UpTo(S, i)) < Cardinality(UpTo(S, j))
<1> \A i \in S : i \in Nat /\ 1 <= i /\ i <= n
  OBVIOUS
<1>1. IsFiniteSet(1..n) /\ Cardinality(1..n) = n
  BY FS_Interval
<1>2. IsFiniteSet(S) /\ Cardinality(S) \in 0..n
  <2>1. IsFiniteSet(S) /\ Cardinality(S) <= n
    BY <1>1, FS_Subset
  <2>2. Cardinality(S) \in Nat
    BY <2>1, FS_CardinalityType
  <2>3. QED
    BY <2>1, <2>2
<1>3. \A i \in S : UpTo(S, i) \in SUBSET S /\ UpTo(S, i) # {}
  <2>1. \A i \in S : i \in UpTo(S, i)
    BY DEF UpTo
  <2>2. QED
    BY <2>1 DEF UpTo
<1>4. \A i \in S : /\ IsFiniteSet(UpTo(S, i))
                   /\ Cardinality(UpTo(S, i)) \in Nat
                   /\ Cardinality(UpTo(S, i)) <= Cardinality(S)
                   /\ Cardinality(UpTo(S, i)) # 0
  BY <1>2, <1>3, FS_Subset, FS_CardinalityType, FS_EmptySet
<1>5. ASSUME NEW i \in S, NEW j \in S, i < j
      PROVE  Cardinality(UpTo(S, i)) < Cardinality(UpTo(S, j))
  <2>1. UpTo(S, i) \in SUBSET UpTo(S, j) /\ UpTo(S, i) # UpTo(S, j)
    <3>1. \A k \in S : k <= i => k <= j
      BY <1>5
    <3>2. j \in UpTo(S, j) /\ j \notin UpTo(S, i)
      BY <1>5 DEF UpTo
    <3>3. QED
      BY <3>1, <3>2 DEF UpTo
  <2>2. QED
    BY <1>4, <2>1, FS_Subset
<1>6. QED
  BY <1>2, <1>4, <1>5

LEMMA NthPlaces ==
    ASSUME NEW n \in Nat, NEW S \in SUBSET (1..n)
    PROVE  /\ \A k \in 1..Cardinality(S) :
                Nth(S, k) \in S /\ Cardinality(UpTo(S, Nth(S, k))) = k
           /\ \A i \in S : Nth(S, Cardinality(UpTo(S, i))) = i
<1> DEFINE f == [i \in S |-> Cardinality(UpTo(S, i))]
           C == 1..Cardinality(S)
<1>1. IsFiniteSet(S) /\ Cardinality(S) \in Nat
  BY UpToCount
<1>2. f \in Injection(S, C)
  <2>1. f \in [S -> C]
    BY UpToCount
  <2>2. \A i, j \in S : f[i] = f[j] => i = j
    <3>1. \A i, j \in S : i < j => f[i] < f[j]
      BY UpToCount
    <3>2. \A i \in S : f[i] \in Nat /\ i \in Nat
      BY <2>1, <1>1
    <3> HIDE DEF f
    <3>3. QED
      BY <3>1, <3>2
  <2>3. QED
    BY <2>1, <2>2 DEF Injection, IsInjective
<1>3. f \in Surjection(S, C)
  <2>1. IsFiniteSet(C) /\ Cardinality(C) = Cardinality(S)
    BY <1>1, FS_Interval
  <2>2. QED
    BY <1>2, <2>1, FS_Injection
<1>4. ASSUME NEW k \in C
      PROVE  Nth(S, k) \in S /\ Cardinality(UpTo(S, Nth(S, k))) = k
  <2>1. PICK i \in S : f[i] = k
    BY <1>3 DEF Surjection
  <2>2. \E p \in S : Cardinality({j \in S : j <= p}) = k
    BY <2>1 DEF UpTo
  <2>3. QED
    BY <2>2 DEF UpTo, Nth
<1>5. ASSUME NEW i \in S
      PROVE  Nth(S, Cardinality(UpTo(S, i))) = i
  <2>1. Cardinality(UpTo(S, i)) \in C
    BY UpToCount
  <2>2. PICK p \in S : p = Nth(S, Cardinality(UpTo(S, i))) /\ f[p] = f[i]
    BY <1>4, <2>1
  <2>3. QED
    BY <1>2, <2>2 DEF Injection, IsInjective
<1>6. QED
  BY <1>4, <1>5

------------------------------------------------------------------------------
(* What saveSessions() writes, the slots that are picked, and renumbering.  *)

PersistentEntry == [token : Token \cup {NoToken}, seq : 0..MaxSeq]
StoredEntry == [token : Token, seq : 0..MaxSeq]
Values(table, places) == {table[i] : i \in places}

LEMMA EntriesOfTable ==
    ASSUME NEW table \in [PSlot -> PersistentEntry]
    PROVE  /\ Entries(table) \in Seq(StoredEntry)
           /\ Len(Entries(table)) <= MaxPersistentSessions
           /\ Values(Entries(table), DOMAIN Entries(table)) = Values(table, Used(table))
           /\ Apart(table, Used(table)) => Apart(Entries(table), DOMAIN Entries(table))
<1> DEFINE S == Used(table)
           E == Entries(table)
           C == Cardinality(S)
<1>1. MaxPersistentSessions \in Nat /\ S \in SUBSET (1..MaxPersistentSessions)
  BY SessionsAssumption DEF Used, PSlot
<1>2. /\ C \in 0..MaxPersistentSessions
      /\ \A k \in 1..C : Nth(S, k) \in S /\ Cardinality(UpTo(S, Nth(S, k))) = k
      /\ \A i \in S : Cardinality(UpTo(S, i)) \in 1..C /\ Nth(S, Cardinality(UpTo(S, i))) = i
  <2>1. C \in 0..MaxPersistentSessions
    BY <1>1, UpToCount
  <2>2. \A i \in S : Cardinality(UpTo(S, i)) \in 1..C
    BY <1>1, UpToCount
  <2> HIDE DEF S
  <2>3. QED
    BY <1>1, <2>1, <2>2, NthPlaces
<1>3. E = [k \in 1..C |-> table[Nth(S, k)]]
  BY DEF Entries
<1>4. \A i \in S : table[i] \in StoredEntry
  BY DEF Used, PersistentEntry, StoredEntry
<1> HIDE DEF E, C, S
<1>5. E \in Seq(StoredEntry) /\ Len(E) = C /\ DOMAIN E = 1..C
  <2>1. \A k \in 1..C : table[Nth(S, k)] \in StoredEntry
    BY <1>2, <1>4
  <2>2. C \in Nat
    BY <1>1, <1>2
  <2>3. QED
    BY <1>3, <2>1, <2>2
<1>6. Values(E, DOMAIN E) = Values(table, S)
  <2>1. \A k \in 1..C : \E i \in S : E[k] = table[i]
    BY <1>2, <1>3
  <2>2. \A i \in S : \E k \in 1..C : E[k] = table[i]
    BY <1>2, <1>3
  <2>3. QED
    BY <1>5, <2>1, <2>2 DEF Values
<1>7. ASSUME Apart(table, S) PROVE Apart(E, DOMAIN E)
  <2>1. \A k, l \in 1..C : k # l => Nth(S, k) # Nth(S, l)
    BY <1>2
  <2>2. \A k, l \in 1..C : k # l => /\ table[Nth(S, k)].token # table[Nth(S, l)].token
                                  /\ table[Nth(S, k)].seq # table[Nth(S, l)].seq
    BY <1>2, <1>7, <2>1 DEF Apart
  <2>3. QED
    BY <1>3, <1>5, <2>2 DEF Apart
<1>8. QED
  BY <1>1, <1>2, <1>5, <1>6, <1>7 DEF E, S

\* pickPersistentSlot(): a free slot, or the one of the oldest session.
LEMMA PickedPersistent ==
    ASSUME TableInv
    PROVE  /\ PickPersistentSlot \in PSlot
           /\ UsedPersistent # PSlot => PickPersistentSlot \notin UsedPersistent
           /\ UsedPersistent = PSlot =>
                \A j \in PSlot : persistent[PickPersistentSlot].seq <= persistent[j].seq
<1>1. PSlot \subseteq Nat /\ PSlot # {}
  BY SessionsAssumption DEF PSlot
<1>2. CASE UsedPersistent # PSlot
  <2>1. \E i \in PSlot \ UsedPersistent : \A j \in PSlot \ UsedPersistent : i <= j
    <3>1. PSlot \ UsedPersistent \subseteq Nat /\ PSlot \ UsedPersistent # {}
      BY <1>1, <1>2 DEF UsedPersistent, Used
    <3>2. QED
      BY <3>1, Smallest
  <2>2. QED
    BY <1>2, <2>1 DEF PickPersistentSlot
<1>3. CASE UsedPersistent = PSlot
  <2> DEFINE T == {persistent[i].seq : i \in PSlot}
  <2>1. \A i \in PSlot : persistent[i].seq \in Nat
    BY DEF TableInv, TableTypeOK
  <2>2. PICK s \in T : \A r \in T : s <= r
    <3>1. T \subseteq Nat /\ T # {}
      BY <1>1, <2>1
    <3>2. QED
      BY <3>1, Smallest
  <2>3. PICK i \in PSlot : \A j \in PSlot : persistent[i].seq <= persistent[j].seq
    BY <2>2
  <2>4. \A j \in PSlot : i # j => persistent[i].seq # persistent[j].seq
    BY <1>3 DEF TableInv, SlotsApart, Apart
  <2>5. \E p \in PSlot : \A j \in PSlot :
          \/ persistent[p].seq < persistent[j].seq
          \/ persistent[p].seq = persistent[j].seq /\ p <= j
    <3>1. \A j \in PSlot : \/ persistent[i].seq < persistent[j].seq
                           \/ persistent[i].seq = persistent[j].seq /\ i <= j
      BY <1>1, <2>1, <2>3, <2>4
    <3>2. QED
      BY <3>1
  <2> DEFINE p == PickPersistentSlot
  <2>6. p \in PSlot /\ \A j \in PSlot :
          \/ persistent[p].seq < persistent[j].seq
          \/ persistent[p].seq = persistent[j].seq /\ p <= j
    BY <1>3, <2>5 DEF PickPersistentSlot
  <2> HIDE DEF p
  <2>7. p \in PSlot /\ \A j \in PSlot : persistent[p].seq <= persistent[j].seq
    BY <2>1, <2>6
  <2>8. QED
    BY <1>3, <2>7 DEF p
<1>4. QED
  BY <1>2, <1>3

\* The slot of a session without "remember me": a free or expired one if there is.
Open == {i \in Slot : slots[i].token = NoToken \/ IsExpired(slots[i])}

LEMMA PickedSlot ==
    ASSUME TableTypeOK
    PROVE  PickSlot \in Slot /\ (Open # {} => PickSlot \in Open)
<1>1. Slot \subseteq Nat /\ Slot # {} /\ MaxSessions \in Nat /\ Slot \subseteq 0..MaxSessions
  BY SessionsAssumption DEF Slot
<1>2. CASE Open # {}
  <2>1. \E i \in Open : \A j \in Open : i <= j
    BY <1>1, <1>2, Smallest DEF Open
  <2>2. PickSlot = CHOOSE i \in Open : \A j \in Open : i <= j
    BY <1>2 DEF PickSlot, Open
  <2>3. QED
    BY <2>1, <2>2 DEF Open
<1>3. CASE Open = {}
  <2> DEFINE T == {slots[i].age : i \in Slot}
  <2>1. \A i \in Slot : slots[i].age \in 0..IdleTimeout
    BY DEF TableTypeOK
  <2>2. PICK a \in T : \A b \in T : b <= a
    <3>1. IdleTimeout \in Nat /\ T \subseteq 0..IdleTimeout /\ T # {}
      BY <1>1, <2>1, SessionsAssumption
    <3>2. QED
      BY <3>1, Largest
  <2> DEFINE L == {i \in Slot : slots[i].age = a}
  <2>3. PICK i \in L : \A j \in L : j <= i
    <3>1. L \subseteq 0..MaxSessions /\ L # {}
      BY <1>1, <2>2
    <3>2. QED
      BY <1>1, <3>1, Largest
  <2>4. \E k \in Slot : \A j \in Slot :
          \/ slots[k].age > slots[j].age
          \/ slots[k].age = slots[j].age /\ k >= j
    <3>1. \A j \in Slot :
            \/ slots[i].age > slots[j].age
            \/ slots[i].age = slots[j].age /\ i >= j
      BY <1>1, <2>1, <2>2, <2>3
    <3>2. i \in Slot
      OBVIOUS
    <3> HIDE DEF L, T
    <3>3. QED
      BY <3>1, <3>2
  <2>5. QED
    BY <1>3, <2>4 DEF PickSlot, Open
<1>4. QED
  BY <1>2, <1>3

\* The place in the order of seq follows seq.
Below(entries, i) ==
    {j \in DOMAIN entries :
       \/ entries[j].seq < entries[i].seq
       \/ entries[j].seq = entries[i].seq /\ j <= i}

LEMMA RankFollowsSeq ==
    ASSUME NEW entries \in Seq(StoredEntry), Apart(entries, DOMAIN entries)
    PROVE  \A i, j \in DOMAIN entries :
             /\ Rank(entries, i) \in 1..Len(entries)
             /\ entries[i].seq < entries[j].seq <=> Rank(entries, i) < Rank(entries, j)
<1> DEFINE D == DOMAIN entries
<1>1. /\ D = 1..Len(entries) /\ Len(entries) \in Nat
      /\ \A i \in D : i \in Nat /\ entries[i] \in StoredEntry
  OBVIOUS
<1>2. \A i \in D : entries[i].seq \in Nat
  BY <1>1 DEF StoredEntry
<1>3. IsFiniteSet(D) /\ Cardinality(D) = Len(entries)
  BY <1>1, FS_Interval
<1>4. \A i \in D : Below(entries, i) \in SUBSET D /\ i \in Below(entries, i)
  BY <1>1, <1>2 DEF Below
<1> HIDE DEF D
<1>5. \A i \in D : /\ IsFiniteSet(Below(entries, i))
                   /\ Cardinality(Below(entries, i)) \in Nat
                   /\ Cardinality(Below(entries, i)) <= Len(entries)
                   /\ Cardinality(Below(entries, i)) # 0
  <2>1. \A i \in D : IsFiniteSet(Below(entries, i)) /\ Cardinality(Below(entries, i)) <= Len(entries)
    BY <1>3, <1>4, FS_Subset
  <2>2. \A i \in D : Cardinality(Below(entries, i)) \in Nat /\ Cardinality(Below(entries, i)) # 0
    <3>1. \A i \in D : Below(entries, i) # {}
      BY <1>4
    <3>2. QED
      BY <2>1, <3>1, FS_CardinalityType, FS_EmptySet
  <2>3. QED
    BY <2>1, <2>2
<1>6. ASSUME NEW i \in D, NEW j \in D, entries[i].seq < entries[j].seq
      PROVE  Cardinality(Below(entries, i)) < Cardinality(Below(entries, j))
  <2>1. \A k \in Below(entries, i) : k \in D /\ entries[k].seq < entries[j].seq
    BY <1>2, <1>6 DEF Below, D
  <2>2. j \notin Below(entries, i)
    BY <1>2, <1>6 DEF Below, D
  <2>3. Below(entries, i) \in SUBSET Below(entries, j) /\ Below(entries, i) # Below(entries, j)
    <3>1. \A k \in Below(entries, i) : k \in Below(entries, j)
      BY <2>1 DEF Below, D
    <3>2. j \in Below(entries, j)
      BY <1>4
    <3>3. QED
      BY <2>2, <3>1, <3>2
  <2>4. QED
    BY <1>5, <2>3, FS_Subset
<1>7. \A i : Rank(entries, i) = Cardinality(Below(entries, i))
  BY DEF Rank, Below
<1>8. \A i, j \in D : i # j => entries[i].seq # entries[j].seq
  BY DEF Apart, D
<1>9. ASSUME NEW i \in D, NEW j \in D
      PROVE  /\ Rank(entries, i) \in 1..Len(entries)
             /\ entries[i].seq < entries[j].seq <=> Rank(entries, i) < Rank(entries, j)
  <2>1. Rank(entries, i) \in 1..Len(entries)
    BY <1>1, <1>5, <1>7
  <2>2. entries[i].seq < entries[j].seq => Rank(entries, i) < Rank(entries, j)
    BY <1>6, <1>7
  <2>3. entries[j].seq < entries[i].seq => Rank(entries, j) < Rank(entries, i)
    BY <1>6, <1>7
  <2>4. i = j \/ entries[i].seq < entries[j].seq \/ entries[j].seq < entries[i].seq
    BY <1>2, <1>8
  <2>5. Rank(entries, i) \in Nat /\ Rank(entries, j) \in Nat
    BY <1>5, <1>7
  <2>6. i = j => ~(entries[i].seq < entries[j].seq) /\ ~(Rank(entries, i) < Rank(entries, j))
    BY <1>2, <2>5
  <2>7. QED
    BY <2>1, <2>2, <2>3, <2>4, <2>5, <2>6
<1>10. QED
  BY <1>9 DEF D

\* Renumbering keeps the sessions, and which is older.
LEMMA RenumberingKeepsOrder ==
    ASSUME NEW entries \in Seq(StoredEntry), Apart(entries, DOMAIN entries),
           Len(entries) <= MaxPersistentSessions
    PROVE  /\ Renumbered(entries) \in Seq(StoredEntry)
           /\ Len(Renumbered(entries)) = Len(entries)
           /\ DOMAIN Renumbered(entries) = DOMAIN entries
           /\ Apart(Renumbered(entries), DOMAIN entries)
           /\ \A i \in DOMAIN entries : /\ Renumbered(entries)[i].token = entries[i].token
                                       /\ Renumbered(entries)[i].seq < MaxSeq
           /\ \A i, j \in DOMAIN entries :
                entries[i].seq < entries[j].seq <=>
                Renumbered(entries)[i].seq < Renumbered(entries)[j].seq
<1> DEFINE D == DOMAIN entries
           R == Renumbered(entries)
<1>1. D = 1..Len(entries) /\ Len(entries) \in Nat /\ \A i \in D : entries[i] \in StoredEntry
  OBVIOUS
<1> DEFINE rank == [i \in D |-> Rank(entries, i)]
<1>2. \A i, j \in D : /\ rank[i] \in 1..Len(entries)
                      /\ entries[i].seq < entries[j].seq <=> rank[i] < rank[j]
  BY RankFollowsSeq
<1>3. R = [i \in D |-> [entries[i] EXCEPT !.seq = rank[i]]]
  BY DEF Renumbered
<1> HIDE DEF R, D, rank
<1>4. \A i \in D : R[i].token = entries[i].token /\ R[i].seq = rank[i]
                  /\ R[i] = [token |-> entries[i].token, seq |-> rank[i]]
  BY <1>1, <1>3 DEF StoredEntry
<1>5. \A i \in D : rank[i] \in 0..MaxSeq /\ rank[i] < MaxSeq
  BY <1>1, <1>2, SessionsAssumption
<1>6. \A i \in D : R[i] \in StoredEntry /\ R[i].token = entries[i].token /\ R[i].seq < MaxSeq
  <2>1. \A i \in D : entries[i].token \in Token
    BY <1>1 DEF StoredEntry
  <2>2. \A i \in D : [token |-> entries[i].token, seq |-> rank[i]] \in StoredEntry
    BY <1>5, <2>1 DEF StoredEntry
  <2>3. QED
    BY <1>4, <1>5, <2>2
<1>7. R \in Seq(StoredEntry) /\ Len(R) = Len(entries) /\ DOMAIN R = D
  <2>1. R \in [1..Len(entries) -> StoredEntry]
    BY <1>1, <1>3, <1>6
  <2>2. QED
    BY <1>1, <2>1
<1>8. \A i, j \in D : entries[i].seq < entries[j].seq <=> R[i].seq < R[j].seq
  BY <1>2, <1>4
<1>9. Apart(R, D)
  <2>1. \A i \in D : R[i].seq \in Nat /\ entries[i].seq \in Nat
    BY <1>1, <1>6 DEF StoredEntry
  <2>2. \A i, j \in D : i # j => entries[i].token # entries[j].token
                               /\ entries[i].seq # entries[j].seq
    BY DEF Apart, D
  <2>3. \A i, j \in D : i # j => R[i].seq # R[j].seq
    BY <1>8, <2>1, <2>2
  <2>4. QED
    BY <1>6, <2>2, <2>3 DEF Apart
<1>10. QED
  BY <1>6, <1>7, <1>8, <1>9 DEF R, D

\* begin() counts on from the highest number.
LEMMA HighestIsLast ==
    ASSUME NEW entries \in Seq(StoredEntry),
           \A i \in DOMAIN entries : entries[i].seq < MaxSeq
    PROVE  /\ HighestSeq(entries) \in 0..(MaxSeq - 1)
           /\ \A i \in DOMAIN entries : entries[i].seq <= HighestSeq(entries)
<1> DEFINE T == {entries[i].seq : i \in DOMAIN entries}
<1>1. MaxSeq \in Nat /\ MaxSeq > 0
  BY SessionsAssumption
<1>2. \A i \in DOMAIN entries : entries[i].seq \in 0..MaxSeq
  <2>1. \A i \in DOMAIN entries : entries[i] \in StoredEntry
    OBVIOUS
  <2>2. QED
    BY <2>1 DEF StoredEntry
<1>3. CASE entries = <<>>
  BY <1>1, <1>3 DEF HighestSeq
<1>4. CASE entries # <<>>
  <2>1. PICK s \in T : \A r \in T : r <= s
    <3>1. T \subseteq 0..MaxSeq /\ T # {}
      BY <1>2, <1>4
    <3>2. QED
      BY <1>1, <3>1, Largest
  <2>2. \E r \in 0..MaxSeq : /\ \E i \in DOMAIN entries : entries[i].seq = r
                            /\ \A i \in DOMAIN entries : entries[i].seq <= r
    BY <1>2, <2>1
  <2> DEFINE h == HighestSeq(entries)
  <2>3. /\ h \in 0..MaxSeq
        /\ \E i \in DOMAIN entries : entries[i].seq = h
        /\ \A i \in DOMAIN entries : entries[i].seq <= h
    BY <1>4, <2>2 DEF HighestSeq
  <2> HIDE DEF h
  <2>4. h < MaxSeq
    BY <2>3
  <2>5. QED
    BY <1>1, <2>3, <2>4 DEF h
<1>5. QED
  BY <1>3, <1>4

------------------------------------------------------------------------------
(* The sessions by age, place by place.                                     *)

Tokens(table, places) == {table[i].token : i \in places}

Elders(table, places) ==
    {p \in Token \X Token : \E i, j \in places :
       table[i].token = p[1] /\ table[j].token = p[2] /\ table[i].seq < table[j].seq}

Aged(table, places) == [members |-> Tokens(table, places), before |-> Elders(table, places)]

LEMMA AgedPlaces ==
    ASSUME NEW table, NEW places
    PROVE  ByAge(Values(table, places)) = Aged(table, places)
<1> DEFINE V == Values(table, places)
<1>1. {e.token : e \in V} = Tokens(table, places)
  BY DEF Values, Tokens
<1>2. {p \in Token \X Token : \E d, e \in V :
         d.token = p[1] /\ e.token = p[2] /\ d.seq < e.seq} = Elders(table, places)
  BY DEF Values, Elders
<1>3. QED
  BY <1>1, <1>2 DEF ByAge, Aged

LEMMA PairsEqual ==
    ASSUME NEW A, NEW B, A \subseteq Token \X Token, B \subseteq Token \X Token,
           \A a, b \in Token : <<a, b>> \in A <=> <<a, b>> \in B
    PROVE  A = B
OBVIOUS

LEMMA ElderPairs ==
    ASSUME NEW table, NEW places
    PROVE  /\ Elders(table, places) \subseteq Token \X Token
           /\ \A a, b \in Token :
                <<a, b>> \in Elders(table, places) <=>
                \E i, j \in places : /\ table[i].token = a /\ table[j].token = b
                                    /\ table[i].seq < table[j].seq
BY DEF Elders

LEMMA SessionsByAge ==
    /\ Remembered = Aged(persistent, UsedPersistent)
    /\ Kept = Aged(blob, DOMAIN blob)
<1>1. ByAge({persistent[i] : i \in UsedPersistent}) = Aged(persistent, UsedPersistent)
  BY AgedPlaces DEF Values
<1>2. ByAge({blob[i] : i \in DOMAIN blob}) = Aged(blob, DOMAIN blob)
  BY AgedPlaces DEF Values
<1>3. QED
  BY <1>1, <1>2 DEF Remembered, Kept

\* As many sessions as places.
LEMMA CountTokens ==
    ASSUME NEW table, NEW places, IsFiniteSet(places),
           \A i, j \in places : i # j => table[i].token # table[j].token
    PROVE  IsFiniteSet(Tokens(table, places)) /\ Cardinality(Tokens(table, places)) = Cardinality(places)
<1> DEFINE f == [i \in places |-> table[i].token]
<1>1. f \in Bijection(places, Tokens(table, places))
  <2>1. f \in [places -> Tokens(table, places)]
    BY DEF Tokens
  <2>2. \A i, j \in places : f[i] = f[j] => i = j
    OBVIOUS
  <2>3. \A s \in Tokens(table, places) : \E i \in places : f[i] = s
    BY DEF Tokens
  <2>4. QED
    BY <2>1, <2>2, <2>3 DEF Bijection, Injection, Surjection, IsInjective
<1>2. QED
  BY <1>1, FS_Bijection DEF ExistsBijection

------------------------------------------------------------------------------
(* Every operation of the table keeps its invariant.                        *)

LEMMA NextNumber ==
    ASSUME NEW m \in Nat, NEW n \in 0..m
    PROVE  (n + 1) % (m + 1) = IF n = m THEN 0 ELSE n + 1
OBVIOUS

\* What Save() leaves in NVS is as good as the table it was given.
LEMMA SavedBlob ==
    ASSUME TableInv, NEW table \in [PSlot -> PersistentEntry], Apart(table, Used(table)),
           NEW saved \in BOOLEAN, Save(table, saved)
    PROVE  /\ blob' \in Seq(StoredEntry) /\ Len(blob') <= MaxPersistentSessions
           /\ Apart(blob', DOMAIN blob')
<1>1. CASE saved
  BY <1>1, EntriesOfTable DEF Save
<1>2. CASE ~saved
  BY <1>2 DEF Save, TableInv, TableTypeOK, SlotsApart, StoredEntry
<1>3. QED
  BY <1>1, <1>2

LEMMA CreatePersistentInv ==
    ASSUME TableInv, NEW t \in Token, NEW saved \in BOOLEAN, CreatePersistent(t, saved)
    PROVE  TableInv'
<1> DEFINE p == PickPersistentSlot
<1>1. /\ p \in PSlot
      /\ persistent' = [persistent EXCEPT ![p] = [token |-> t, seq |-> nextSeq]]
      /\ nextSeq \in 1..MaxSeq /\ MaxSeq \in Nat
      /\ nextSeq' = (nextSeq + 1) % (MaxSeq + 1)
      /\ slots' = slots
      /\ Save(persistent', saved)
      /\ persistent \in [PSlot -> PersistentEntry]
  BY PickedPersistent, SessionsAssumption
  DEF CreatePersistent, TableInv, TableTypeOK, PersistentEntry
<1> HIDE DEF p
<1>2. nextSeq' = IF nextSeq = MaxSeq THEN 0 ELSE nextSeq + 1
  BY <1>1, NextNumber
<1>3. /\ persistent' \in [PSlot -> PersistentEntry]
      /\ persistent'[p].token = t /\ persistent'[p].seq = nextSeq
      /\ \A i \in PSlot : i # p => persistent'[i] = persistent[i]
  <2>1. [token |-> t, seq |-> nextSeq] \in PersistentEntry
    BY <1>1 DEF PersistentEntry
  <2>2. QED
    BY <1>1, <2>1
<1>4. UsedPersistent' = UsedPersistent \cup {p} /\ t # NoToken
  BY <1>1, <1>3, SessionsAssumption DEF UsedPersistent, Used
<1>5. \A i \in UsedPersistent : /\ persistent[i].token # t
                               /\ persistent[i].seq \in Nat /\ persistent[i].seq < nextSeq
  BY <1>1 DEF CreatePersistent, Fresh, Found, TableInv, SlotsApart, UsedPersistent, Used, PersistentEntry
<1>6. UsedPersistent \subseteq PSlot
  BY DEF UsedPersistent, Used
<1>7. Apart(persistent', UsedPersistent')
  <2>1. Apart(persistent, UsedPersistent)
    BY DEF TableInv, SlotsApart
  <2>2. \A i \in UsedPersistent' : i # p => i \in UsedPersistent /\ persistent'[i] = persistent[i]
    BY <1>3, <1>4, <1>6
  <2>3. QED
    BY <1>1, <1>3, <1>5, <2>1, <2>2 DEF Apart
<1>8. /\ blob' \in Seq(StoredEntry) /\ Len(blob') <= MaxPersistentSessions
      /\ Apart(blob', DOMAIN blob')
  BY <1>1, <1>3, <1>7, SavedBlob DEF UsedPersistent
<1>9. TableTypeOK'
  BY <1>1, <1>2, <1>3, <1>8 DEF TableInv, TableTypeOK, StoredEntry, PersistentEntry
<1>10. SlotsApart'
  <2>1. \A i \in UsedPersistent' : \A j \in Slot : persistent'[i].token # slots'[j].token
    <3>1. \A j \in Slot : slots[j].token # t
      BY DEF CreatePersistent, Fresh, Found
    <3>2. \A i \in UsedPersistent : \A j \in Slot : persistent[i].token # slots[j].token
      BY DEF TableInv, SlotsApart
    <3>3. QED
      BY <1>1, <1>3, <1>4, <1>6, <3>1, <3>2
  <2>2. nextSeq' # 0 => \A i \in UsedPersistent' : persistent'[i].seq < nextSeq'
    <3>1. ASSUME nextSeq' # 0, NEW i \in UsedPersistent' PROVE persistent'[i].seq < nextSeq'
      <4>1. nextSeq' = nextSeq + 1
        BY <1>2, <3>1
      <4>2. CASE i = p
        BY <1>1, <1>3, <4>1, <4>2
      <4>3. CASE i # p
        BY <1>1, <1>3, <1>4, <1>5, <1>6, <4>1, <4>3
      <4>4. QED
        BY <4>2, <4>3
    <3>2. QED
      BY <3>1
  <2>3. \A i, j \in Slot :
          i # j /\ slots'[i].token # NoToken => slots'[i].token # slots'[j].token
    BY <1>1 DEF TableInv, SlotsApart
  <2>4. QED
    BY <1>7, <1>8, <2>1, <2>2, <2>3 DEF SlotsApart
<1>11. QED
  BY <1>9, <1>10 DEF TableInv

LEMMA CreateVolatileInv ==
    ASSUME TableInv, NEW t \in Token, CreateVolatile(t)
    PROVE  TableInv'
<1> DEFINE p == PickSlot
<1>1. p \in Slot /\ slots' = [slots EXCEPT ![p] = [token |-> t, age |-> 0]]
  BY PickedSlot DEF CreateVolatile, TableInv
<1> HIDE DEF p
<1>2. UNCHANGED <<persistent, nextSeq, blob>> /\ UsedPersistent' = UsedPersistent
  BY DEF CreateVolatile, UsedPersistent
<1>3. TableTypeOK'
  BY <1>1, <1>2, SessionsAssumption DEF TableInv, TableTypeOK
<1>4. \A j \in Slot : slots'[j].token = IF j = p THEN t ELSE slots[j].token
  BY <1>1 DEF TableInv, TableTypeOK
<1>5. \A i \in UsedPersistent : persistent[i].token # t
  BY DEF CreateVolatile, Fresh, Found
<1>6. \A j \in Slot : slots[j].token # t
  BY DEF CreateVolatile, Fresh, Found
<1>7. SlotsApart'
  BY <1>2, <1>4, <1>5, <1>6, SessionsAssumption DEF TableInv, SlotsApart
<1>8. QED
  BY <1>3, <1>7 DEF TableInv

\* Steps that only free slots or change ages.
LEMMA FewerSlotsInv ==
    ASSUME TableInv, TableTypeOK',
           \A i \in Slot : slots'[i].token \in {slots[i].token, NoToken},
           UNCHANGED <<persistent, nextSeq, blob>>
    PROVE  TableInv'
<1>1. UsedPersistent' = UsedPersistent
  BY DEF UsedPersistent
<1>2. \A i \in UsedPersistent : persistent[i].token # NoToken
  BY DEF UsedPersistent, Used
<1>3. SlotsApart'
  BY <1>1, <1>2 DEF TableInv, SlotsApart
<1>4. QED
  BY <1>3 DEF TableInv

LEMMA ValidateInv ==
    ASSUME TableInv, NEW t \in Token, Validate(t)
    PROVE  TableInv'
<1>1. slots' \in [Slot -> [token : Token \cup {NoToken}, age : 0..IdleTimeout]]
  <2> DEFINE R == [token : Token \cup {NoToken}, age : 0..IdleTimeout]
  <2>1. FreeSlot \in R /\ \A i \in Slot : slots[i] \in R /\ [slots[i] EXCEPT !.age = 0] \in R
    <3>1. 0 \in 0..IdleTimeout
      BY SessionsAssumption
    <3>2. FreeSlot \in R
      BY <3>1 DEF FreeSlot
    <3>3. QED
      BY <3>1, <3>2 DEF TableInv, TableTypeOK
  <2>2. ASSUME NEW i \in Slot PROVE slots'[i] \in {slots[i], FreeSlot, [slots[i] EXCEPT !.age = 0]}
    <3>1. CASE slots[i].token # t
      BY <3>1 DEF Validate
    <3>2. CASE slots[i].token = t /\ IsExpired(slots[i])
      BY <3>2 DEF Validate
    <3>3. CASE slots[i].token = t /\ ~IsExpired(slots[i])
      BY <3>3 DEF Validate
    <3>4. QED
      BY <3>1, <3>2, <3>3
  <2>3. slots' = [i \in Slot |-> slots'[i]]
    BY DEF Validate
  <2> HIDE DEF R
  <2>4. QED
    BY <2>1, <2>2, <2>3 DEF R
<1>2. \A i \in Slot : slots'[i].token \in {slots[i].token, NoToken}
  BY DEF TableInv, TableTypeOK, Validate, FreeSlot
<1>3. UNCHANGED <<persistent, nextSeq, blob>>
  BY DEF Validate
<1>4. TableTypeOK'
  BY <1>1, <1>3 DEF TableInv, TableTypeOK
<1>5. QED
  BY <1>2, <1>3, <1>4, FewerSlotsInv

LEMMA TableElapseInv ==
    ASSUME TableInv, TableElapse
    PROVE  TableInv'
<1>1. slots' \in [Slot -> [token : Token \cup {NoToken}, age : 0..IdleTimeout]]
  <2> DEFINE R == [token : Token \cup {NoToken}, age : 0..IdleTimeout]
  <2>1. \A i \in Slot : slots[i] \in R /\ slots[i].age \in 0..IdleTimeout /\ IdleTimeout \in Nat
    BY SessionsAssumption DEF TableInv, TableTypeOK
  <2>2. \A i \in Slot : [slots[i] EXCEPT !.age = Older(@, IdleTimeout)] \in R
    BY <2>1 DEF Older
  <2>3. QED
    BY <2>1, <2>2 DEF TableElapse
<1>2. \A i \in Slot : slots'[i].token \in {slots[i].token, NoToken}
  BY DEF TableInv, TableTypeOK, TableElapse
<1>3. UNCHANGED <<persistent, nextSeq, blob>>
  BY DEF TableElapse
<1>4. TableTypeOK'
  BY <1>1, <1>3 DEF TableInv, TableTypeOK
<1>5. QED
  BY <1>2, <1>3, <1>4, FewerSlotsInv

\* A table without sessions, and nothing wrong in NVS.
LEMMA EmptyTable ==
    /\ NoSlots \in [Slot -> [token : Token \cup {NoToken}, age : 0..IdleTimeout]]
    /\ \A i \in Slot : NoSlots[i].token = NoToken
    /\ NoPersistent \in [PSlot -> PersistentEntry]
    /\ Used(NoPersistent) = {}
<1>1. 0 \in 0..IdleTimeout /\ 0 \in 0..MaxSeq
  BY SessionsAssumption
<1>2. FreeSlot \in [token : Token \cup {NoToken}, age : 0..IdleTimeout]
  BY <1>1 DEF FreeSlot
<1>3. FreePersistent \in PersistentEntry
  BY <1>1 DEF FreePersistent, PersistentEntry
<1>4. QED
  BY <1>2, <1>3 DEF NoSlots, NoPersistent, FreeSlot, FreePersistent, Used

LEMMA EmptyBlob ==
    /\ <<>> \in Seq(StoredEntry) /\ Len(<<>>) <= MaxPersistentSessions
    /\ Apart(<<>>, DOMAIN <<>>)
BY SessionsAssumption DEF Apart

LEMMA InitTableInv == TableInit => TableInv
<1> SUFFICES ASSUME TableInit PROVE TableInv
  OBVIOUS
<1>1. UsedPersistent = {}
  BY EmptyTable DEF TableInit, UsedPersistent
<1>2. /\ blob \in Seq(StoredEntry) /\ Len(blob) <= MaxPersistentSessions
      /\ Apart(blob, DOMAIN blob)
  BY EmptyBlob DEF TableInit
<1>3. TableTypeOK
  BY <1>2, EmptyTable, SessionsAssumption DEF TableInit, TableTypeOK, StoredEntry, PersistentEntry
<1>4. SlotsApart
  <2>1. \A i \in Slot : slots[i].token = NoToken
    BY EmptyTable DEF TableInit
  <2>2. Apart(persistent, UsedPersistent)
    BY <1>1 DEF Apart
  <2>3. QED
    BY <1>1, <1>2, <2>1, <2>2 DEF SlotsApart
<1>5. QED
  BY <1>3, <1>4 DEF TableInv

LEMMA ClearInv ==
    ASSUME TableInv, NEW saved \in BOOLEAN, Clear(saved)
    PROVE  TableInv'
<1>1. CASE saved
  <2>1. /\ blob' = <<>> /\ slots' = NoSlots /\ persistent' = NoPersistent
        /\ nextSeq' = nextSeq
    BY <1>1 DEF Clear
  <2>2. UsedPersistent' = {}
    BY <2>1, EmptyTable DEF UsedPersistent
  <2>3. /\ blob' \in Seq(StoredEntry) /\ Len(blob') <= MaxPersistentSessions
        /\ Apart(blob', DOMAIN blob')
    BY <2>1, EmptyBlob
  <2>4. TableTypeOK'
    BY <2>1, <2>3, EmptyTable DEF TableInv, TableTypeOK, StoredEntry, PersistentEntry
  <2>5. SlotsApart'
    <3>1. \A i \in Slot : slots'[i].token = NoToken
      BY <2>1, EmptyTable
    <3>2. Apart(persistent', UsedPersistent')
      BY <2>2 DEF Apart
    <3>3. QED
      BY <2>2, <2>3, <3>1, <3>2 DEF SlotsApart
  <2>6. QED
    BY <2>4, <2>5 DEF TableInv
<1>2. CASE UNCHANGED tableVars
  BY <1>2 DEF TableInv, TableTypeOK, SlotsApart, tableVars, UsedPersistent
<1>3. QED
  BY <1>1, <1>2 DEF Clear

LEMMA RemoveInv ==
    ASSUME TableInv, NEW t \in Token, NEW saved \in BOOLEAN, Remove(t, saved)
    PROVE  TableInv'
<1>1. CASE InPersistent(t)
  <2>1. /\ persistent' = [i \in PSlot |->
                            IF persistent[i].token = t THEN FreePersistent ELSE persistent[i]]
        /\ Save(persistent', saved) /\ slots' = slots /\ nextSeq' = nextSeq
    BY <1>1 DEF Remove
  <2>2. persistent' \in [PSlot -> PersistentEntry]
    <3>1. 0 \in 0..MaxSeq
      BY SessionsAssumption
    <3>2. FreePersistent \in PersistentEntry
      BY <3>1 DEF FreePersistent, PersistentEntry
    <3>3. QED
      BY <2>1, <3>2 DEF TableInv, TableTypeOK, PersistentEntry
  <2>3. /\ UsedPersistent' \subseteq UsedPersistent
        /\ UsedPersistent \subseteq PSlot
        /\ \A i \in UsedPersistent' : persistent'[i] = persistent[i]
    BY <2>1 DEF UsedPersistent, Used, FreePersistent
  <2>4. Apart(persistent', UsedPersistent')
    BY <2>3 DEF TableInv, SlotsApart, Apart
  <2>5. /\ blob' \in Seq(StoredEntry) /\ Len(blob') <= MaxPersistentSessions
        /\ Apart(blob', DOMAIN blob')
    BY <2>1, <2>2, <2>4, SavedBlob DEF UsedPersistent
  <2>6. TableTypeOK'
    BY <2>1, <2>2, <2>5 DEF TableInv, TableTypeOK, StoredEntry, PersistentEntry
  <2>7. SlotsApart'
    BY <2>1, <2>3, <2>4, <2>5 DEF TableInv, SlotsApart
  <2>8. QED
    BY <2>6, <2>7 DEF TableInv
<1>2. CASE ~InPersistent(t)
  <2>1. /\ slots' = [i \in Slot |-> IF slots[i].token = t THEN FreeSlot ELSE slots[i]]
        /\ UNCHANGED <<persistent, nextSeq, blob>>
    BY <1>2 DEF Remove
  <2>2. \A i \in Slot : slots'[i].token \in {slots[i].token, NoToken}
    BY <2>1 DEF FreeSlot
  <2>3. TableTypeOK'
    <3>1. 0 \in 0..IdleTimeout
      BY SessionsAssumption
    <3>2. FreeSlot \in [token : Token \cup {NoToken}, age : 0..IdleTimeout]
      BY <3>1 DEF FreeSlot
    <3>3. QED
      BY <2>1, <3>2 DEF TableInv, TableTypeOK
  <2>4. QED
    BY <2>1, <2>2, <2>3, FewerSlotsInv
<1>3. QED
  BY <1>1, <1>2

LEMMA RotateInv ==
    ASSUME TableInv, NEW t \in Token, NEW n \in Token, NEW saved \in BOOLEAN,
           RotateExclusive(t, n, saved)
    PROVE  TableInv'
<1>1. CASE ~Found(t) /\ Clear(saved)
  BY <1>1, ClearInv
<1>2. CASE UNCHANGED tableVars
  BY <1>2 DEF TableInv, TableTypeOK, SlotsApart, tableVars, UsedPersistent
<1>3. CASE /\ InPersistent(t) /\ saved
           /\ nextSeq # 0
           /\ persistent' = [NoPersistent EXCEPT ![1] = [token |-> n, seq |-> nextSeq]]
           /\ slots' = NoSlots
           /\ nextSeq' = (nextSeq + 1) % (MaxSeq + 1)
           /\ blob' = <<[token |-> n, seq |-> nextSeq]>>
  <2> DEFINE e == [token |-> n, seq |-> nextSeq]
  <2>1. /\ nextSeq \in 1..MaxSeq /\ MaxSeq \in Nat
        /\ nextSeq' = IF nextSeq = MaxSeq THEN 0 ELSE nextSeq + 1
    BY <1>3, NextNumber, SessionsAssumption DEF TableInv, TableTypeOK
  <2>2. e \in StoredEntry /\ e \in PersistentEntry /\ e.token = n /\ e.seq = nextSeq
    BY <2>1 DEF StoredEntry, PersistentEntry
  <2>3. 1 \in PSlot
    BY SessionsAssumption DEF PSlot
  <2>4. blob' = <<e>> /\ persistent' = [NoPersistent EXCEPT ![1] = e]
    BY <1>3
  <2> HIDE DEF e
  <2>5. /\ persistent' \in [PSlot -> PersistentEntry]
        /\ persistent'[1] = e /\ \A i \in PSlot : i # 1 => persistent'[i].token = NoToken
    BY <2>2, <2>3, <2>4, EmptyTable DEF NoPersistent, FreePersistent
  <2>6. UsedPersistent' = {1}
    BY <2>2, <2>3, <2>5, SessionsAssumption DEF UsedPersistent, Used
  <2>7. blob' \in Seq(StoredEntry) /\ Len(blob') = 1 /\ DOMAIN blob' = {1}
    BY <2>2, <2>4
  <2>8. Apart(blob', DOMAIN blob') /\ Apart(persistent', UsedPersistent')
    BY <2>6, <2>7 DEF Apart
  <2>9. TableTypeOK'
    BY <1>3, <2>1, <2>5, <2>7, EmptyTable, SessionsAssumption
    DEF TableTypeOK, StoredEntry, PersistentEntry
  <2>10. SlotsApart'
    <3>1. \A i \in Slot : slots'[i].token = NoToken
      BY <1>3, EmptyTable
    <3>2. nextSeq' # 0 => \A i \in UsedPersistent' : persistent'[i].seq < nextSeq'
      BY <2>1, <2>2, <2>5, <2>6
    <3>3. \A i \in UsedPersistent' : persistent'[i].token # NoToken
      BY DEF UsedPersistent, Used
    <3>4. QED
      BY <2>8, <3>1, <3>2, <3>3 DEF SlotsApart
  <2>11. QED
    BY <2>9, <2>10 DEF TableInv
<1>4. CASE /\ Found(t) /\ ~InPersistent(t)
           /\ slots' = [NoSlots EXCEPT ![1] = [token |-> n, age |-> 0]]
           /\ persistent' = NoPersistent
           /\ blob' = IF RotationWrites(t) THEN <<>> ELSE blob
           /\ UNCHANGED nextSeq
  <2>1. UsedPersistent' = {}
    BY <1>4, EmptyTable DEF UsedPersistent
  <2>2. /\ blob' \in Seq(StoredEntry) /\ Len(blob') <= MaxPersistentSessions
        /\ Apart(blob', DOMAIN blob')
    <3>1. CASE RotationWrites(t)
      BY <1>4, <3>1, EmptyBlob
    <3>2. CASE ~RotationWrites(t)
      BY <1>4, <3>2 DEF TableInv, TableTypeOK, SlotsApart, StoredEntry
    <3>3. QED
      BY <3>1, <3>2
  <2>3. [token |-> n, age |-> 0] \in [token : Token \cup {NoToken}, age : 0..IdleTimeout]
    <3>1. 0 \in 0..IdleTimeout
      BY SessionsAssumption
    <3>2. QED
      BY <3>1
  <2>4. /\ slots' \in [Slot -> [token : Token \cup {NoToken}, age : 0..IdleTimeout]]
        /\ \A i \in Slot : i # 1 => slots'[i].token = NoToken
    BY <1>4, <2>3, EmptyTable
  <2>5. TableTypeOK'
    BY <1>4, <2>2, <2>4, EmptyTable DEF TableInv, TableTypeOK, StoredEntry, PersistentEntry
  <2>6. SlotsApart'
    <3>1. \A i, j \in Slot :
            i # j /\ slots'[i].token # NoToken => slots'[i].token # slots'[j].token
      BY <2>4
    <3>2. Apart(persistent', UsedPersistent')
      BY <2>1 DEF Apart
    <3>3. QED
      BY <2>1, <2>2, <3>1, <3>2 DEF SlotsApart
  <2>7. QED
    BY <2>5, <2>6 DEF TableInv
<1>5. QED
  BY <1>1, <1>2, <1>3, <1>4 DEF RotateExclusive

\* What begin() makes of the blob.
Loaded(loaded) == IF loaded THEN blob ELSE <<>>
Rebuilt(loaded) ==
    IF NeedsRenumbering(Loaded(loaded)) THEN Renumbered(Loaded(loaded)) ELSE Loaded(loaded)

LEMMA RebuiltTable ==
    ASSUME TableInv, NEW loaded \in BOOLEAN
    PROVE  LET read == Loaded(loaded)
               table == Rebuilt(loaded)
           IN  /\ table \in Seq(StoredEntry) /\ Len(table) <= MaxPersistentSessions
               /\ DOMAIN table = DOMAIN read /\ DOMAIN table = 1..Len(table)
               /\ Apart(read, DOMAIN table) /\ Apart(table, DOMAIN table)
               /\ \A i \in DOMAIN table : /\ table[i].token = read[i].token
                                          /\ table[i].token \in Token
                                          /\ table[i].seq < MaxSeq
               /\ \A i, j \in DOMAIN table :
                    read[i].seq < read[j].seq <=> table[i].seq < table[j].seq
<1> DEFINE read == Loaded(loaded)
           table == Rebuilt(loaded)
<1>1. /\ read \in Seq(StoredEntry) /\ Len(read) <= MaxPersistentSessions
      /\ Apart(read, DOMAIN read)
  <2>1. CASE loaded
    BY <2>1 DEF Loaded, TableInv, TableTypeOK, SlotsApart, StoredEntry
  <2>2. CASE ~loaded
    BY <2>2, EmptyBlob DEF Loaded
  <2>3. QED
    BY <2>1, <2>2
<1>2. table = IF NeedsRenumbering(read) THEN Renumbered(read) ELSE read
  BY DEF Rebuilt
<1> HIDE DEF read, table
<1>3. \A i \in DOMAIN read : read[i].token \in Token /\ read[i].seq \in 0..MaxSeq
  <2>1. \A i \in DOMAIN read : read[i] \in StoredEntry
    BY <1>1
  <2>2. QED
    BY <2>1 DEF StoredEntry
<1>4. CASE NeedsRenumbering(read)
  <2>1. table = Renumbered(read)
    BY <1>2, <1>4
  <2>2. /\ table \in Seq(StoredEntry) /\ Len(table) = Len(read)
        /\ DOMAIN table = DOMAIN read /\ Apart(table, DOMAIN read)
        /\ \A i \in DOMAIN read : table[i].token = read[i].token /\ table[i].seq < MaxSeq
        /\ \A i, j \in DOMAIN read : read[i].seq < read[j].seq <=> table[i].seq < table[j].seq
    BY <1>1, <2>1, RenumberingKeepsOrder
  <2>3. DOMAIN table = 1..Len(table)
    BY <2>2
  <2>4. QED
    BY <1>1, <1>3, <2>2, <2>3 DEF read, table
<1>5. CASE ~NeedsRenumbering(read)
  <2>1. table = read
    BY <1>2, <1>5
  <2>2. \A i \in DOMAIN read : read[i].seq # MaxSeq
    BY <1>5 DEF NeedsRenumbering
  <2>3. \A i \in DOMAIN read : read[i].seq < MaxSeq
    BY <1>3, <2>2, SessionsAssumption
  <2>4. DOMAIN table = 1..Len(table)
    BY <1>1, <2>1
  <2>5. QED
    BY <1>1, <1>3, <2>1, <2>3, <2>4 DEF read, table
<1>6. QED
  BY <1>4, <1>5

LEMMA BeginInv ==
    ASSUME TableInv, NEW loaded \in BOOLEAN, NEW saved \in BOOLEAN, Begin(loaded, saved)
    PROVE  /\ TableInv'
           /\ UsedPersistent' = DOMAIN Rebuilt(loaded)
           /\ \A i \in DOMAIN Rebuilt(loaded) : persistent'[i] = Rebuilt(loaded)[i]
<1> DEFINE table == Rebuilt(loaded)
<1>1. /\ slots' = NoSlots
      /\ persistent' = [i \in PSlot |-> IF i <= Len(table) THEN table[i] ELSE FreePersistent]
      /\ nextSeq' = HighestSeq(table) + 1
      /\ blob' = table \/ blob' = blob
  BY DEF Begin, Rebuilt, Loaded
<1>2. /\ table \in Seq(StoredEntry) /\ Len(table) <= MaxPersistentSessions
      /\ DOMAIN table = 1..Len(table) /\ Apart(table, DOMAIN table)
      /\ \A i \in DOMAIN table : table[i].token \in Token /\ table[i].seq < MaxSeq
  BY RebuiltTable
<1> HIDE DEF table
<1>3. /\ HighestSeq(table) \in 0..(MaxSeq - 1)
      /\ \A i \in DOMAIN table : table[i].seq <= HighestSeq(table)
  BY <1>2, HighestIsLast
<1> DEFINE h == HighestSeq(table)
<1>4. h \in 0..(MaxSeq - 1) /\ nextSeq' = h + 1 /\ \A i \in DOMAIN table : table[i].seq <= h
  BY <1>1, <1>3
<1> HIDE DEF h
<1>5. DOMAIN table \subseteq PSlot /\ Len(table) \in Nat /\ PSlot \subseteq Nat \ {0}
      /\ \A i \in DOMAIN table : table[i] \in StoredEntry
  BY <1>2, SessionsAssumption DEF PSlot
<1>6. \A i \in PSlot : persistent'[i] = IF i \in DOMAIN table THEN table[i] ELSE FreePersistent
  BY <1>1, <1>2, <1>5
<1>7. persistent' \in [PSlot -> PersistentEntry]
  <2>1. 0 \in 0..MaxSeq
    BY SessionsAssumption
  <2>2. FreePersistent \in PersistentEntry
    BY <2>1 DEF FreePersistent, PersistentEntry
  <2>3. \A i \in PSlot : persistent'[i] \in PersistentEntry
    BY <1>5, <1>6, <2>2 DEF StoredEntry, PersistentEntry
  <2>4. QED
    BY <1>1, <2>3
<1>8. UsedPersistent' = DOMAIN table /\ \A i \in DOMAIN table : persistent'[i] = table[i]
  <2>1. \A i \in DOMAIN table : persistent'[i] = table[i] /\ i \in PSlot
    BY <1>5, <1>6
  <2>2. \A i \in PSlot : persistent'[i].token # NoToken <=> i \in DOMAIN table
    <3>1. \A i \in DOMAIN table : persistent'[i].token # NoToken
      BY <1>2, <2>1, SessionsAssumption
    <3>2. \A i \in PSlot : i \notin DOMAIN table => persistent'[i].token = NoToken
      BY <1>6 DEF FreePersistent
    <3>3. QED
      BY <3>1, <3>2
  <2>3. UsedPersistent' = {i \in PSlot : persistent'[i].token # NoToken}
    BY DEF UsedPersistent, Used
  <2>4. QED
    BY <2>1, <2>2, <2>3
<1>9. /\ blob' \in Seq(StoredEntry) /\ Len(blob') <= MaxPersistentSessions
      /\ Apart(blob', DOMAIN blob')
  BY <1>1, <1>2 DEF TableInv, TableTypeOK, SlotsApart, StoredEntry
<1>10. TableTypeOK'
  <2>1. nextSeq' \in 0..MaxSeq
    BY <1>4, SessionsAssumption
  <2>2. QED
    BY <1>1, <1>7, <1>9, <2>1, EmptyTable DEF TableTypeOK, StoredEntry, PersistentEntry
<1>11. SlotsApart'
  <2>1. \A i \in Slot : slots'[i].token = NoToken
    BY <1>1, EmptyTable
  <2>2. \A i \in UsedPersistent' : persistent'[i].seq < nextSeq'
    <3>1. \A i \in DOMAIN table : table[i].seq \in Nat
      BY <1>5 DEF StoredEntry
    <3>2. QED
      BY <1>4, <1>8, <3>1
  <2>3. \A i \in UsedPersistent' : persistent'[i].token # NoToken
    BY DEF UsedPersistent, Used
  <2>4. Apart(persistent', UsedPersistent')
    BY <1>2, <1>8 DEF Apart
  <2>5. QED
    BY <1>9, <2>1, <2>2, <2>3, <2>4 DEF SlotsApart
<1>12. QED
  BY <1>8, <1>10, <1>11 DEF TableInv, table

LEMMA TableStepInv == TableInv /\ [TableNext]_tableVars => TableInv'
<1> SUFFICES ASSUME TableInv, [TableNext]_tableVars PROVE TableInv'
  OBVIOUS
<1>1. ASSUME NEW t \in Token, NEW isPersistent \in BOOLEAN, NEW saved \in BOOLEAN,
             Create(t, isPersistent, saved)
      PROVE  TableInv'
  BY <1>1, CreatePersistentInv, CreateVolatileInv DEF Create
<1>2. ASSUME NEW t \in Token, Validate(t) PROVE TableInv'
  BY <1>2, ValidateInv
<1>3. ASSUME NEW t \in Token, NEW saved \in BOOLEAN, Remove(t, saved) PROVE TableInv'
  BY <1>3, RemoveInv
<1>4. ASSUME NEW saved \in BOOLEAN, Clear(saved) PROVE TableInv'
  BY <1>4, ClearInv
<1>5. ASSUME NEW t \in Token, NEW n \in Token, NEW saved \in BOOLEAN, RotateExclusive(t, n, saved)
      PROVE  TableInv'
  BY <1>5, RotateInv
<1>6. ASSUME NEW loaded \in BOOLEAN, NEW saved \in BOOLEAN, Begin(loaded, saved)
      PROVE  TableInv'
  BY <1>6, BeginInv
<1>7. CASE TableElapse
  BY <1>7, TableElapseInv
<1>8. CASE UNCHANGED tableVars
  BY <1>8 DEF TableInv, TableTypeOK, SlotsApart, tableVars, UsedPersistent
<1>9. QED
  BY <1>1, <1>2, <1>3, <1>4, <1>5, <1>6, <1>7, <1>8 DEF TableNext

\* The table of sessions keeps its types, its sessions and numbers apart and the
\* next number above all others (SessionTable.cpp), for any number of slots and
\* tokens, writes that fail and resets.
THEOREM TableInvariant == TableSpec => []TableInv
<1>1. QED
  BY InitTableInv, TableStepInv, PTL DEF TableSpec

------------------------------------------------------------------------------
(* Every operation of the table is a step of OpenSessions, or none.         *)

LEMMA SameSessions ==
    /\ persistent' = persistent => Remembered' = Remembered
    /\ blob' = blob => Kept' = Kept
    /\ slots' = slots => Visiting' = Visiting
BY DEF Remembered, Kept, Visiting, UsedPersistent

LEMMA NoneLeft ==
    /\ UsedPersistent = {} => Remembered = Sessions!NoSession
    /\ UsedPersistent' = {} => Remembered' = Sessions!NoSession
    /\ blob' = <<>> => Kept' = Sessions!NoSession
<1>1. ByAge({}) = Sessions!NoSession
  BY DEF ByAge, Sessions!NoSession
<1>2. UsedPersistent = {} => {persistent[i] : i \in UsedPersistent} = {}
  OBVIOUS
<1>3. UsedPersistent' = {} => {persistent'[i] : i \in UsedPersistent'} = {}
  OBVIOUS
<1>4. blob' = <<>> => {blob'[i] : i \in DOMAIN blob'} = {}
  OBVIOUS
<1>5. QED
  BY <1>1, <1>2, <1>3, <1>4 DEF Remembered, Kept

LEMMA SavedKept ==
    ASSUME TableInv', NEW saved \in BOOLEAN, Save(persistent', saved)
    PROVE  Kept' = Remembered' \/ Kept' = Kept
<1>1. CASE saved
  <2>1. persistent' \in [PSlot -> PersistentEntry]
    BY DEF TableInv, TableTypeOK, PersistentEntry
  <2>2. blob' = Entries(persistent')
    BY <1>1 DEF Save
  <2>3. Values(blob', DOMAIN blob') = Values(persistent', UsedPersistent')
    BY <2>1, <2>2, EntriesOfTable DEF UsedPersistent
  <2>4. QED
    BY <2>3 DEF Kept, Remembered, Values
<1>2. CASE ~saved
  BY <1>2, SameSessions DEF Save
<1>3. QED
  BY <1>1, <1>2

\* The sessions in use, slot by slot.
LEMMA InUsePlaces ==
    ASSUME TableInv
    PROVE  /\ Remembered.members = Tokens(persistent, UsedPersistent)
           /\ Remembered.before = Elders(persistent, UsedPersistent)
           /\ Visiting = Tokens(slots, Slot \ Open)
           /\ \A t \in Token : t \in Remembered.members <=> InPersistent(t)
           /\ \A t \in Visiting : t \in Token /\ ~InPersistent(t) /\ InVolatile(t) /\ Honoured(t)
           /\ \A t \in Token : ~Found(t) => t \notin Sessions!InUse
           /\ \A t \in Token : Honoured(t) /\ ~InPersistent(t) => t \in Visiting
<1>1. Remembered.members = Tokens(persistent, UsedPersistent)
      /\ Remembered.before = Elders(persistent, UsedPersistent)
  BY SessionsByAge DEF Aged
<1>2. \A t \in Token : t \in Remembered.members <=> InPersistent(t)
  BY <1>1 DEF Tokens, InPersistent
<1>3. Visiting = Tokens(slots, Slot \ Open)
  BY DEF Visiting, Tokens, Open
<1>4. ASSUME NEW t \in Visiting
      PROVE  t \in Token /\ ~InPersistent(t) /\ InVolatile(t) /\ Honoured(t)
  <2>1. PICK i \in Slot : slots[i].token = t /\ t # NoToken /\ ~IsExpired(slots[i])
    BY DEF Visiting
  <2>2. t \in Token
    BY <2>1 DEF TableInv, TableTypeOK
  <2>3. ~InPersistent(t)
    BY <2>1 DEF TableInv, SlotsApart, InPersistent
  <2>4. QED
    BY <2>1, <2>2, <2>3 DEF InVolatile, Honoured
<1>5. \A t \in Token : ~Found(t) => t \notin Sessions!InUse
  BY <1>2, <1>4 DEF Found, InVolatile, InPersistent, Sessions!InUse
<1>6. \A t \in Token : Honoured(t) /\ ~InPersistent(t) => t \in Visiting
  BY SessionsAssumption DEF Honoured, Visiting
<1>7. QED
  BY <1>1, <1>2, <1>3, <1>4, <1>5, <1>6

LEMMA SameCount == ASSUME NEW S PROVE Sessions!Cardinality(S) = Cardinality(S)
BY DEF Sessions!Cardinality, Cardinality

LEMMA CreateVolatileMaps ==
    ASSUME TableInv, NEW t \in Token, CreateVolatile(t)
    PROVE  Sessions!OpenVisiting(t)
<1> DEFINE p == PickSlot
           live == Slot \ Open
<1>1. p \in Slot /\ (Open # {} => p \in Open)
  BY PickedSlot DEF TableInv
<1>2. slots' = [slots EXCEPT ![p] = [token |-> t, age |-> 0]]
  BY DEF CreateVolatile
<1>3. Visiting = Tokens(slots, live)
  BY InUsePlaces
<1> HIDE DEF p
<1>4. t \notin Sessions!InUse
  BY InUsePlaces DEF CreateVolatile, Fresh
<1>5. Remembered' = Remembered /\ Kept' = Kept
  BY SameSessions DEF CreateVolatile
<1>6. IsFiniteSet(Slot) /\ Cardinality(Slot) = MaxSessions
  BY FS_Interval, SessionsAssumption DEF Slot
<1>7. /\ live \subseteq Slot /\ IsFiniteSet(live)
      /\ Cardinality(live) \in Nat /\ Cardinality(live) <= MaxSessions
      /\ Cardinality(live) = MaxSessions => live = Slot
  <2>1. live \in SUBSET Slot
    OBVIOUS
  <2> HIDE DEF live
  <2>2. IsFiniteSet(live) /\ Cardinality(live) <= MaxSessions
        /\ (Cardinality(live) = MaxSessions => live = Slot)
    BY <1>6, <2>1, FS_Subset
  <2>3. QED
    BY <2>1, <2>2, FS_CardinalityType
<1>8. Cardinality(Visiting) = Cardinality(live)
  <2>1. \A i, j \in live : i # j => slots[i].token # slots[j].token
    BY DEF TableInv, SlotsApart, Open
  <2> HIDE DEF live
  <2>2. QED
    BY <1>3, <1>7, <2>1, CountTokens
<1>9. Visiting' = Tokens(slots, live \ {p}) \cup {t}
  <2>1. /\ slots'[p].token = t /\ slots'[p].age = 0 /\ t # NoToken
        /\ \A j \in Slot : j # p => slots'[j] = slots[j]
    BY <1>1, <1>2, SessionsAssumption DEF TableInv, TableTypeOK
  <2>2. ~IsExpired(slots'[p]) /\ ~(slots'[p].age >= IdleTimeout)
    BY <2>1, SessionsAssumption DEF IsExpired
  <2>3. {j \in Slot : slots'[j].token # NoToken /\ ~IsExpired(slots'[j])} = (live \ {p}) \cup {p}
    BY <1>1, <2>1, <2>2 DEF Open, IsExpired
  <2>4. Visiting' = {slots'[j].token : j \in (live \ {p}) \cup {p}}
    BY <2>3 DEF Visiting, IsExpired
  <2>5. QED
    BY <2>1, <2>4 DEF Tokens
<1>10. CASE Open # {}
  <2>1. p \notin live
    BY <1>1, <1>10
  <2>2. Visiting' = Visiting \cup {t}
    BY <1>3, <1>9, <2>1 DEF Tokens
  <2>3. Cardinality(Visiting) < MaxSessions
    <3>1. live # Slot
      BY <1>1, <2>1
    <3>2. MaxSessions \in Nat
      BY SessionsAssumption
    <3> HIDE DEF live
    <3>3. QED
      BY <1>7, <1>8, <3>1, <3>2
  <2>4. QED
    BY <1>4, <1>5, <2>2, <2>3, SameCount DEF Sessions!OpenVisiting
<1>11. CASE Open = {}
  <2>1. live = Slot
    BY <1>11 DEF Open
  <2>2. Cardinality(Visiting) = MaxSessions
    BY <1>6, <1>8, <2>1
  <2>3. slots[p].token \in Visiting
    BY <1>1, <1>3, <2>1 DEF Tokens
  <2>4. Visiting' = (Visiting \ {slots[p].token}) \cup {t}
    <3>1. \A i \in Slot : i # p => slots[i].token # slots[p].token
      BY <1>1, <1>11 DEF TableInv, SlotsApart, Open
    <3>2. Tokens(slots, Slot \ {p}) = Tokens(slots, Slot) \ {slots[p].token}
      BY <1>1, <3>1 DEF Tokens
    <3>3. QED
      BY <1>3, <1>9, <2>1, <3>2
  <2>5. QED
    BY <1>4, <1>5, <2>2, <2>3, <2>4, SameCount DEF Sessions!OpenVisiting
<1>12. QED
  BY <1>10, <1>11

\* Requests and the clock: nobody comes in, and only idle sessions go.
LEMMA ValidateMaps ==
    ASSUME TableInv, NEW t \in Token, Validate(t)
    PROVE  UNCHANGED Sessions!openVars
<1>1. ASSUME NEW i \in Slot
      PROVE  /\ slots'[i].token # NoToken /\ ~IsExpired(slots'[i])
                 <=> slots[i].token # NoToken /\ ~IsExpired(slots[i])
             /\ slots[i].token # NoToken /\ ~IsExpired(slots[i]) => slots'[i].token = slots[i].token
  <2>1. CASE slots[i].token # t
    BY <2>1 DEF Validate
  <2>2. CASE slots[i].token = t /\ IsExpired(slots[i])
    BY <2>2 DEF Validate, FreeSlot
  <2>3. CASE slots[i].token = t /\ ~IsExpired(slots[i])
    <3>1. slots'[i] = [slots[i] EXCEPT !.age = 0]
      BY <2>3 DEF Validate
    <3>2. slots'[i].token = slots[i].token /\ slots'[i].age = 0
      BY <3>1 DEF TableInv, TableTypeOK
    <3>3. QED
      BY <2>3, <3>2, SessionsAssumption DEF IsExpired
  <2>4. QED
    BY <2>1, <2>2, <2>3
<1>2. {j \in Slot : slots'[j].token # NoToken /\ ~IsExpired(slots'[j])}
      = {j \in Slot : slots[j].token # NoToken /\ ~IsExpired(slots[j])}
  BY <1>1
<1>3. Visiting' = Visiting
  BY <1>1, <1>2 DEF Visiting, IsExpired
<1>4. QED
  BY <1>3, SameSessions DEF Validate, Sessions!openVars

LEMMA TableElapseMaps ==
    ASSUME TableInv, TableElapse
    PROVE  Sessions!EndIdle
<1>1. ASSUME NEW i \in Slot, slots'[i].token # NoToken, ~IsExpired(slots'[i])
      PROVE  slots'[i].token = slots[i].token /\ slots[i].token # NoToken /\ ~IsExpired(slots[i])
  <2>1. slots[i].token # NoToken
    BY <1>1 DEF TableElapse
  <2>2. slots'[i] = [slots[i] EXCEPT !.age = Older(@, IdleTimeout)]
    BY <2>1 DEF TableElapse
  <2>3. slots'[i].token = slots[i].token /\ slots'[i].age = Older(slots[i].age, IdleTimeout)
    BY <2>2 DEF TableInv, TableTypeOK
  <2>4. slots[i].age \in 0..IdleTimeout /\ IdleTimeout \in Nat
    BY SessionsAssumption DEF TableInv, TableTypeOK
  <2>5. QED
    BY <1>1, <2>1, <2>3, <2>4 DEF IsExpired, Older
<1>2. Visiting' \in SUBSET Visiting
  BY <1>1 DEF Visiting, IsExpired
<1>3. QED
  BY <1>2, SameSessions DEF TableElapse, Sessions!EndIdle

LEMMA ClearMaps ==
    ASSUME TableInv, NEW saved \in BOOLEAN, Clear(saved)
    PROVE  Sessions!CloseAll \/ UNCHANGED Sessions!openVars
<1>1. CASE saved
  <2>1. blob' = <<>> /\ slots' = NoSlots /\ persistent' = NoPersistent
    BY <1>1 DEF Clear
  <2>2. UsedPersistent' = {}
    BY <2>1, EmptyTable DEF UsedPersistent
  <2>3. Visiting' = {}
    BY <2>1, EmptyTable DEF Visiting
  <2>4. QED
    BY <2>1, <2>2, <2>3, NoneLeft DEF Sessions!CloseAll
<1>2. CASE UNCHANGED tableVars
  BY <1>2, SameSessions DEF tableVars, Sessions!openVars
<1>3. QED
  BY <1>1, <1>2 DEF Clear

LEMMA RememberedAfter == Remembered' = Aged(persistent', UsedPersistent')
<1>1. ByAge(Values(persistent', UsedPersistent')) = Aged(persistent', UsedPersistent')
  BY AgedPlaces
<1>2. QED
  BY <1>1 DEF Remembered, Values

LEMMA KeptAfter == Kept' = Aged(blob', DOMAIN blob')
<1>1. ByAge(Values(blob', DOMAIN blob')) = Aged(blob', DOMAIN blob')
  BY AgedPlaces
<1>2. QED
  BY <1>1 DEF Kept, Values

\* Two tables whose places hold the same sessions in the same order.
LEMMA SameAge ==
    ASSUME NEW f, NEW g, NEW places,
           \A i \in places : f[i].token = g[i].token,
           \A i, j \in places : f[i].seq < f[j].seq <=> g[i].seq < g[j].seq
    PROVE  Aged(f, places) = Aged(g, places)
<1>1. Tokens(f, places) = Tokens(g, places)
  BY DEF Tokens
<1>2. Elders(f, places) = Elders(g, places)
  BY DEF Elders
<1>3. QED
  BY <1>1, <1>2 DEF Aged

LEMMA AgedWithout ==
    ASSUME NEW table, NEW places, NEW t
    PROVE  Aged(table, {i \in places : table[i].token # t})
           = Sessions!Without(Aged(table, places), t)
<1> DEFINE rest == {i \in places : table[i].token # t}
           A == Elders(table, rest)
           B == {p \in Elders(table, places) : t \notin {p[1], p[2]}}
<1>1. Tokens(table, rest) = Tokens(table, places) \ {t}
  BY DEF Tokens
<1>2. A = B
  <2>1. A \subseteq Token \X Token /\ B \subseteq Token \X Token
    BY DEF Elders
  <2>2. \A a, b \in Token : <<a, b>> \in B <=>
          <<a, b>> \in Elders(table, places) /\ a # t /\ b # t
    OBVIOUS
  <2>3. \A a, b \in Token : <<a, b>> \in A <=>
          \E i, j \in rest : /\ table[i].token = a /\ table[j].token = b
                            /\ table[i].seq < table[j].seq
    BY ElderPairs
  <2>4. \A a, b \in Token : <<a, b>> \in Elders(table, places) <=>
          \E i, j \in places : /\ table[i].token = a /\ table[j].token = b
                              /\ table[i].seq < table[j].seq
    BY ElderPairs
  <2>5. \A i : i \in rest <=> i \in places /\ table[i].token # t
    OBVIOUS
  <2> HIDE DEF A, B, rest
  <2>6. ASSUME NEW a \in Token, NEW b \in Token, <<a, b>> \in A PROVE <<a, b>> \in B
    BY <2>2, <2>3, <2>4, <2>5, <2>6
  <2>7. ASSUME NEW a \in Token, NEW b \in Token, <<a, b>> \in B PROVE <<a, b>> \in A
    BY <2>2, <2>3, <2>4, <2>5, <2>7
  <2>8. QED
    BY <2>1, <2>6, <2>7, PairsEqual
<1>3. QED
  BY <1>1, <1>2 DEF Aged, Sessions!Without

LEMMA RemoveMaps ==
    ASSUME TableInv, NEW t \in Token, NEW saved \in BOOLEAN, Remove(t, saved)
    PROVE  Sessions!Close(t) \/ UNCHANGED Sessions!openVars
<1>1. CASE InPersistent(t)
  <2>1. /\ persistent' = [i \in PSlot |->
                            IF persistent[i].token = t THEN FreePersistent ELSE persistent[i]]
        /\ Save(persistent', saved) /\ slots' = slots
    BY <1>1 DEF Remove
  <2>2. TableInv'
    BY RemoveInv
  <2>3. Kept' = Remembered' \/ Kept' = Kept
    BY <2>1, <2>2, SavedKept
  <2>4. t \in Remembered.members /\ t \in Sessions!InUse
    BY <1>1, InUsePlaces DEF Sessions!InUse
  <2>5. Visiting' = Visiting /\ Visiting = Visiting \ {t}
    <3>1. t \notin Visiting
      BY <1>1, InUsePlaces
    <3>2. QED
      BY <2>1, <3>1, SameSessions
  <2>6. /\ UsedPersistent' = {i \in UsedPersistent : persistent[i].token # t}
        /\ \A i \in UsedPersistent' : persistent'[i] = persistent[i]
    BY <2>1, SessionsAssumption DEF UsedPersistent, Used, FreePersistent
  <2>7. Remembered' = Sessions!Without(Remembered, t)
    <3>1. Aged(persistent', UsedPersistent') = Aged(persistent, UsedPersistent')
      BY <2>6, SameAge
    <3>2. Aged(persistent, UsedPersistent') = Sessions!Without(Aged(persistent, UsedPersistent), t)
      BY <2>6, AgedWithout
    <3>3. QED
      BY <3>1, <3>2, SessionsByAge, RememberedAfter
  <2>8. QED
    BY <2>3, <2>4, <2>5, <2>7 DEF Sessions!Close, Sessions!KeptFollows
<1>2. CASE ~InPersistent(t)
  <2>1. /\ slots' = [i \in Slot |-> IF slots[i].token = t THEN FreeSlot ELSE slots[i]]
        /\ UNCHANGED <<persistent, nextSeq, blob>>
    BY <1>2 DEF Remove
  <2>2. Remembered' = Remembered /\ Kept' = Kept
    BY <2>1, SameSessions
  <2>3. Visiting' = Visiting \ {t}
    <3>1. {j \in Slot : slots'[j].token # NoToken /\ ~IsExpired(slots'[j])}
          = {j \in Slot : slots[j].token # NoToken /\ ~IsExpired(slots[j]) /\ slots[j].token # t}
      BY <2>1 DEF FreeSlot
    <3>2. \A j \in Slot : slots[j].token # t => slots'[j] = slots[j]
      BY <2>1
    <3>3. QED
      BY <3>1, <3>2 DEF Visiting, IsExpired
  <2>4. t \notin Remembered.members
    BY <1>2, InUsePlaces
  <2>5. CASE t \in Visiting
    <3>1. Sessions!Without(Remembered, t) = Remembered
      <4>1. Remembered = Aged(persistent, UsedPersistent)
        BY SessionsByAge
      <4>2. t \notin Tokens(persistent, UsedPersistent)
        BY <2>4, <4>1 DEF Aged
      <4>3. \A p \in Elders(persistent, UsedPersistent) : t \notin {p[1], p[2]}
        BY <4>2 DEF Elders, Tokens
      <4>4. Tokens(persistent, UsedPersistent) \ {t} = Tokens(persistent, UsedPersistent)
        BY <4>2
      <4>5. {p \in Elders(persistent, UsedPersistent) : t \notin {p[1], p[2]}}
            = Elders(persistent, UsedPersistent)
        BY <4>3
      <4>6. QED
        BY <4>1, <4>4, <4>5 DEF Aged, Sessions!Without
    <3>2. t \in Sessions!InUse
      BY <2>5 DEF Sessions!InUse
    <3>3. QED
      BY <2>2, <2>3, <3>1, <3>2 DEF Sessions!Close, Sessions!KeptFollows
  <2>6. CASE t \notin Visiting
    BY <2>2, <2>3, <2>6 DEF Sessions!openVars
  <2>7. QED
    BY <2>5, <2>6
<1>3. QED
  BY <1>1, <1>2

\* A single session has none before it.
LEMMA AgedAlone ==
    ASSUME NEW table, NEW k, NEW n \in Token, table[k].token = n, table[k].seq \in Nat
    PROVE  Aged(table, {k}) = Sessions!Alone(n)
<1>1. Tokens(table, {k}) = {n}
  BY DEF Tokens
<1>2. Elders(table, {k}) = {}
  BY DEF Elders
<1>3. QED
  BY <1>1, <1>2 DEF Aged, Sessions!Alone

LEMMA RotateMaps ==
    ASSUME TableInv, NEW t \in Token, NEW n \in Token, NEW saved \in BOOLEAN,
           Honoured(t), RotateExclusive(t, n, saved)
    PROVE  Sessions!Rotate(t, n) \/ UNCHANGED Sessions!openVars
<1>1. Found(t)
  BY DEF Honoured, Found, InPersistent
<1>2. CASE UNCHANGED tableVars
  BY <1>2, SameSessions DEF tableVars, Sessions!openVars
<1>3. CASE /\ InPersistent(t) /\ saved
           /\ Fresh(n)
           /\ persistent' = [NoPersistent EXCEPT ![1] = [token |-> n, seq |-> nextSeq]]
           /\ slots' = NoSlots
           /\ blob' = <<[token |-> n, seq |-> nextSeq]>>
  <2>1. /\ t \in Remembered.members /\ t \notin Visiting
        /\ t \in Sessions!InUse /\ n \notin Sessions!InUse
    BY <1>3, InUsePlaces DEF Fresh, Sessions!InUse
  <2>2. Visiting' = {}
    BY <1>3, EmptyTable DEF Visiting
  <2>3. 1 \in PSlot /\ nextSeq \in Nat /\ n # NoToken
    BY SessionsAssumption DEF PSlot, TableInv, TableTypeOK
  <2>4. /\ persistent'[1].token = n /\ persistent'[1].seq = nextSeq
        /\ \A i \in PSlot : i # 1 => persistent'[i].token = NoToken
    BY <1>3, <2>3 DEF NoPersistent, FreePersistent
  <2>5. UsedPersistent' = {1}
    BY <2>3, <2>4 DEF UsedPersistent, Used
  <2>6. Remembered' = Sessions!Alone(n)
    <3>1. Aged(persistent', {1}) = Sessions!Alone(n)
      BY <2>3, <2>4, AgedAlone
    <3>2. QED
      BY <2>5, <3>1, RememberedAfter
  <2>7. Kept' = Sessions!Alone(n)
    <3>1. DOMAIN blob' = {1} /\ blob'[1].token = n /\ blob'[1].seq = nextSeq
      BY <1>3
    <3>2. Aged(blob', {1}) = Sessions!Alone(n)
      BY <2>3, <3>1, AgedAlone
    <3>3. QED
      BY <3>1, <3>2, KeptAfter
  <2>8. QED
    BY <2>1, <2>2, <2>6, <2>7 DEF Sessions!Rotate
<1>4. CASE /\ Found(t) /\ ~InPersistent(t)
           /\ Fresh(n)
           /\ slots' = [NoSlots EXCEPT ![1] = [token |-> n, age |-> 0]]
           /\ persistent' = NoPersistent
           /\ blob' = IF RotationWrites(t) THEN <<>> ELSE blob
  <2>1. t \in Visiting /\ t \in Sessions!InUse /\ n \notin Sessions!InUse
    BY <1>4, InUsePlaces DEF Fresh, Sessions!InUse
  <2>2. Remembered' = Sessions!NoSession
    BY <1>4, EmptyTable, NoneLeft DEF UsedPersistent
  <2>3. Visiting' = {n}
    <3>1. 1 \in Slot /\ n # NoToken /\ ~(0 >= IdleTimeout)
      BY SessionsAssumption DEF Slot
    <3>2. /\ slots'[1].token = n /\ slots'[1].age = 0
          /\ \A i \in Slot : i # 1 => slots'[i].token = NoToken
      BY <1>4, <3>1 DEF NoSlots, FreeSlot
    <3>3. {j \in Slot : slots'[j].token # NoToken /\ ~IsExpired(slots'[j])} = {1}
      BY <3>1, <3>2 DEF IsExpired
    <3>4. Visiting' = {slots'[j].token : j \in {1}}
      BY <3>3 DEF Visiting, IsExpired
    <3>5. QED
      BY <3>2, <3>4
  <2>4. Kept' = IF Remembered = Sessions!NoSession THEN Kept ELSE Sessions!NoSession
    <3>1. CASE UsedPersistent = {}
      <4>1. blob' = blob
        BY <1>4, <3>1 DEF RotationWrites
      <4>2. QED
        BY <3>1, <4>1, SameSessions, NoneLeft
    <3>2. CASE UsedPersistent # {}
      <4>1. blob' = <<>>
        BY <1>4, <3>2 DEF RotationWrites
      <4>2. Remembered.members # {}
        BY <3>2, InUsePlaces DEF Tokens
      <4>3. Remembered # Sessions!NoSession
        BY <4>2 DEF Sessions!NoSession
      <4>4. QED
        BY <4>1, <4>3, NoneLeft
    <3>3. QED
      BY <3>1, <3>2
  <2>5. QED
    BY <2>1, <2>2, <2>3, <2>4 DEF Sessions!Rotate
<1>5. QED
  BY <1>1, <1>2, <1>3, <1>4 DEF RotateExclusive

LEMMA BeginMaps ==
    ASSUME TableInv, NEW loaded \in BOOLEAN, NEW saved \in BOOLEAN, Begin(loaded, saved)
    PROVE  Sessions!Restart
<1> DEFINE table == Rebuilt(loaded)
           read == Loaded(loaded)
<1>1. /\ UsedPersistent' = DOMAIN table
      /\ \A i \in DOMAIN table : persistent'[i] = table[i]
  BY BeginInv
<1>2. /\ DOMAIN table = DOMAIN read
      /\ \A i \in DOMAIN table : table[i].token = read[i].token
      /\ \A i, j \in DOMAIN table : read[i].seq < read[j].seq <=> table[i].seq < table[j].seq
  BY RebuiltTable
<1>3. slots' = NoSlots /\ (blob' = blob \/ (loaded /\ blob' = table))
  <2>1. ~NeedsRenumbering(<<>>)
    BY DEF NeedsRenumbering
  <2>2. /\ slots' = NoSlots
        /\ blob' = IF NeedsRenumbering(read) /\ saved THEN table ELSE blob
    BY DEF Begin, Rebuilt, Loaded
  <2>3. NeedsRenumbering(read) => loaded
    <3>1. CASE loaded
      BY <3>1
    <3>2. CASE ~loaded
      BY <2>1, <3>2 DEF Loaded
    <3>3. QED
      BY <3>1, <3>2
  <2> HIDE DEF table, read
  <2>4. QED
    BY <2>2, <2>3
<1>4. loaded => read = blob
  BY DEF Loaded
<1>5. ~loaded => read = <<>>
  BY DEF Loaded
<1> HIDE DEF table, read
<1>6. Visiting' = {}
  BY <1>3, EmptyTable DEF Visiting
<1>7. Aged(table, DOMAIN table) = Aged(read, DOMAIN read)
  BY <1>2, SameAge
<1>8. Remembered' = Aged(read, DOMAIN read)
  <2>1. Aged(persistent', DOMAIN table) = Aged(table, DOMAIN table)
    BY <1>1, SameAge
  <2>2. QED
    BY <1>1, <1>7, <2>1, RememberedAfter
<1>9. Kept = Aged(blob, DOMAIN blob)
  BY SessionsByAge
<1>10. Kept' = Kept
  <2>1. CASE blob' = blob
    BY <2>1, SameSessions
  <2>2. CASE loaded /\ blob' = table
    BY <1>4, <1>7, <1>9, <2>2, KeptAfter
  <2>3. QED
    BY <1>3, <2>1, <2>2
<1>11. Remembered' \in {Kept, Sessions!NoSession}
  <2>1. CASE loaded
    BY <1>4, <1>8, <1>9, <2>1
  <2>2. CASE ~loaded
    <3>1. UsedPersistent' = {}
      BY <1>1, <1>2, <1>5, <2>2
    <3>2. QED
      BY <3>1, NoneLeft
  <2>3. QED
    BY <2>1, <2>2
<1>12. QED
  BY <1>6, <1>10, <1>11 DEF Sessions!Restart

\* A new place with the highest number is the newest session.
LEMMA AgedWith ==
    ASSUME NEW table, NEW places, NEW p, p \notin places, NEW t \in Token, table[p].token = t,
           \A i \in places : /\ table[i].token \in Token
                            /\ table[i].seq \in Nat /\ table[i].seq < table[p].seq,
           table[p].seq \in Nat
    PROVE  Aged(table, places \cup {p}) = Sessions!With(Aged(table, places), t)
<1> DEFINE all == places \cup {p}
           A == Elders(table, all)
           B == Elders(table, places) \cup (Tokens(table, places) \X {t})
<1>1. Tokens(table, all) = Tokens(table, places) \cup {t}
  BY DEF Tokens
<1>2. A = B
  <2>1. A \subseteq Token \X Token /\ B \subseteq Token \X Token
    BY DEF Elders, Tokens
  <2>2. \A a, b \in Token : <<a, b>> \in B <=>
          \/ <<a, b>> \in Elders(table, places)
          \/ b = t /\ \E i \in places : table[i].token = a
    BY DEF Tokens
  <2>3. \A i : i \in all <=> i \in places \/ i = p
    OBVIOUS
  <2> HIDE DEF all
  <2>4. \A a, b \in Token : <<a, b>> \in A <=>
          \E i, j \in all : /\ table[i].token = a /\ table[j].token = b
                           /\ table[i].seq < table[j].seq
    BY DEF Elders
  <2>5. \A a, b \in Token : <<a, b>> \in Elders(table, places) <=>
          \E i, j \in places : /\ table[i].token = a /\ table[j].token = b
                              /\ table[i].seq < table[j].seq
    BY ElderPairs
  <2> HIDE DEF A, B
  <2>6. ASSUME NEW a \in Token, NEW b \in Token, <<a, b>> \in A PROVE <<a, b>> \in B
    <3>1. PICK i, j \in all : /\ table[i].token = a /\ table[j].token = b
                             /\ table[i].seq < table[j].seq
      BY <2>4, <2>6
    <3>2. i # p
      BY <2>3, <3>1
    <3>3. CASE j = p
      BY <2>2, <2>3, <3>1, <3>2, <3>3
    <3>4. CASE j # p
      BY <2>2, <2>3, <2>5, <3>1, <3>2, <3>4
    <3>5. QED
      BY <3>3, <3>4
  <2>7. ASSUME NEW a \in Token, NEW b \in Token, <<a, b>> \in B PROVE <<a, b>> \in A
    BY <2>2, <2>3, <2>4, <2>5, <2>7
  <2>8. QED
    BY <2>1, <2>6, <2>7, PairsEqual
<1>3. QED
  BY <1>1, <1>2 DEF Aged, Sessions!With

\* The oldest session has the lowest number.
LEMMA OldestHasLowest ==
    ASSUME NEW table, NEW places, NEW p \in places,
           \A i \in places : table[i].token \in Token /\ table[i].seq \in Nat,
           Apart(table, places),
           \A i \in places : table[p].seq <= table[i].seq
    PROVE  Sessions!Oldest(Aged(table, places)) = table[p].token
<1> DEFINE M == Tokens(table, places)
           E == Elders(table, places)
<1>1. \A a, b \in Token : <<a, b>> \in E <=>
        \E i, j \in places : /\ table[i].token = a /\ table[j].token = b
                            /\ table[i].seq < table[j].seq
  BY ElderPairs
<1>2. \A i, j \in places : i # j => /\ table[i].token # table[j].token
                                  /\ table[i].seq # table[j].seq
  BY DEF Apart
<1>3. /\ \A s \in M : s \in Token /\ \E i \in places : table[i].token = s
      /\ table[p].token \in M
  BY DEF Tokens
<1>4. Sessions!Oldest(Aged(table, places)) = CHOOSE s \in M : \A o \in M : <<o, s>> \notin E
  BY DEF Sessions!Oldest, Aged
<1> HIDE DEF M, E
<1>5. \A o \in M : <<o, table[p].token>> \notin E
  <2>1. SUFFICES ASSUME NEW o \in M, <<o, table[p].token>> \in E PROVE FALSE
    OBVIOUS
  <2>2. PICK i, j \in places : /\ table[j].token = table[p].token
                              /\ table[i].seq < table[j].seq
    BY <1>1, <1>3, <2>1
  <2>3. j = p
    BY <1>2, <2>2
  <2>4. QED
    BY <2>2, <2>3
<1>6. ASSUME NEW s \in M, \A o \in M : <<o, s>> \notin E PROVE s = table[p].token
  <2>1. PICK k \in places : table[k].token = s
    BY <1>3
  <2>2. CASE k # p
    <3>1. table[p].seq < table[k].seq
      BY <1>2, <2>2
    <3>2. <<table[p].token, s>> \in E
      BY <1>1, <1>3, <2>1, <3>1
    <3>3. QED
      BY <1>3, <1>6, <3>2
  <2>3. QED
    BY <2>1, <2>2
<1>7. QED
  BY <1>3, <1>4, <1>5, <1>6

LEMMA CreatePersistentMaps ==
    ASSUME TableInv, NEW t \in Token, NEW saved \in BOOLEAN, CreatePersistent(t, saved)
    PROVE  Sessions!OpenRemembered(t)
<1> DEFINE p == PickPersistentSlot
           rest == UsedPersistent \ {p}
<1>1. /\ p \in PSlot
      /\ UsedPersistent # PSlot => p \notin UsedPersistent
      /\ UsedPersistent = PSlot => \A j \in PSlot : persistent[p].seq <= persistent[j].seq
  BY PickedPersistent
<1>2. /\ persistent' = [persistent EXCEPT ![p] = [token |-> t, seq |-> nextSeq]]
      /\ slots' = slots /\ nextSeq # 0 /\ Save(persistent', saved)
  BY DEF CreatePersistent
<1> HIDE DEF p
<1>3. t \notin Sessions!InUse /\ t # NoToken
  BY InUsePlaces, SessionsAssumption DEF CreatePersistent, Fresh
<1>4. Kept' = Remembered' \/ Kept' = Kept
  <2>1. TableInv'
    BY CreatePersistentInv
  <2>2. QED
    BY <1>2, <2>1, SavedKept
<1>5. Visiting' = Visiting
  BY <1>2, SameSessions
<1>6. \A i \in UsedPersistent : /\ i \in PSlot
                               /\ persistent[i].token \in Token
                               /\ persistent[i].seq \in Nat /\ persistent[i].seq < nextSeq
  BY <1>2 DEF TableInv, TableTypeOK, SlotsApart, UsedPersistent, Used
<1>7. /\ persistent'[p].token = t /\ persistent'[p].seq = nextSeq /\ nextSeq \in Nat
      /\ \A i \in PSlot : i # p => persistent'[i] = persistent[i]
  BY <1>1, <1>2 DEF TableInv, TableTypeOK
<1>8. UsedPersistent' = rest \cup {p}
  BY <1>1, <1>3, <1>7 DEF UsedPersistent, Used
<1>9. Remembered' = Sessions!With(Aged(persistent, rest), t)
  <2>1. Aged(persistent', rest) = Aged(persistent, rest)
    BY <1>6, <1>7, SameAge
  <2>2. Aged(persistent', rest \cup {p}) = Sessions!With(Aged(persistent', rest), t)
    <3>1. p \notin rest /\ \A i \in rest : /\ persistent'[i].token \in Token
                                          /\ persistent'[i].seq \in Nat
                                          /\ persistent'[i].seq < persistent'[p].seq
      BY <1>6, <1>7
    <3> HIDE DEF rest
    <3>2. QED
      BY <1>7, <3>1, AgedWith
  <2>3. QED
    BY <1>8, <2>1, <2>2, RememberedAfter
<1>10. /\ IsFiniteSet(UsedPersistent) /\ UsedPersistent \subseteq PSlot
       /\ Cardinality(Remembered.members) = Cardinality(UsedPersistent)
       /\ Cardinality(UsedPersistent) \in Nat
       /\ Cardinality(UsedPersistent) <= MaxPersistentSessions
       /\ Cardinality(UsedPersistent) = MaxPersistentSessions <=> UsedPersistent = PSlot
       /\ MaxPersistentSessions \in Nat
  <2>1. /\ IsFiniteSet(PSlot) /\ Cardinality(PSlot) = MaxPersistentSessions
        /\ MaxPersistentSessions \in Nat
    BY FS_Interval, SessionsAssumption DEF PSlot
  <2>2. UsedPersistent \in SUBSET PSlot
    BY DEF UsedPersistent, Used
  <2>3. /\ IsFiniteSet(UsedPersistent)
        /\ Cardinality(UsedPersistent) <= MaxPersistentSessions
        /\ Cardinality(UsedPersistent) = MaxPersistentSessions => UsedPersistent = PSlot
    BY <2>1, <2>2, FS_Subset
  <2>4. Cardinality(UsedPersistent) \in Nat
    BY <2>3, FS_CardinalityType
  <2>5. Cardinality(Remembered.members) = Cardinality(UsedPersistent)
    <3>1. \A i, j \in UsedPersistent : i # j => persistent[i].token # persistent[j].token
      BY DEF TableInv, SlotsApart, Apart
    <3>2. QED
      BY <2>3, <3>1, CountTokens, InUsePlaces
  <2>6. QED
    BY <2>1, <2>2, <2>3, <2>4, <2>5
<1>11. CASE UsedPersistent # PSlot
  <2>1. rest = UsedPersistent
    BY <1>1, <1>11
  <2>2. Remembered' = Sessions!With(Remembered, t)
    BY <1>9, <2>1, SessionsByAge
  <2>3. Cardinality(Remembered.members) < MaxPersistentSessions
    BY <1>10, <1>11
  <2>4. Remembered' = Sessions!Newest(Remembered, t)
    BY <2>2, <2>3, SameCount DEF Sessions!Newest
  <2>5. QED
    BY <1>3, <1>4, <1>5, <2>4 DEF Sessions!OpenRemembered, Sessions!KeptFollows
<1>12. CASE UsedPersistent = PSlot
  <2>1. Sessions!Oldest(Remembered) = persistent[p].token
    <3>1. Apart(persistent, UsedPersistent)
      BY DEF TableInv, SlotsApart
    <3>2. Sessions!Oldest(Aged(persistent, UsedPersistent)) = persistent[p].token
      BY <1>1, <1>6, <1>12, <3>1, OldestHasLowest
    <3>3. QED
      BY <3>2, SessionsByAge
  <2>2. rest = {i \in UsedPersistent : persistent[i].token # persistent[p].token}
    BY <1>1, <1>12 DEF TableInv, SlotsApart, Apart
  <2>3. Aged(persistent, rest) = Sessions!Without(Remembered, Sessions!Oldest(Remembered))
    <3>1. Aged(persistent, rest) = Sessions!Without(Aged(persistent, UsedPersistent), persistent[p].token)
      BY <2>2, AgedWithout
    <3>2. QED
      BY <2>1, <3>1, SessionsByAge
  <2>4. ~(Cardinality(Remembered.members) < MaxPersistentSessions)
    BY <1>10, <1>12
  <2>5. Remembered' = Sessions!Newest(Remembered, t)
    BY <1>9, <2>3, <2>4, SameCount DEF Sessions!Newest
  <2>6. QED
    BY <1>3, <1>4, <1>5, <2>5 DEF Sessions!OpenRemembered, Sessions!KeptFollows
<1>13. QED
  BY <1>11, <1>12

LEMMA InitMaps == TableInit => Sessions!OpenInit
<1> SUFFICES ASSUME TableInit PROVE Sessions!OpenInit
  OBVIOUS
<1>1. UsedPersistent = {}
  BY EmptyTable DEF TableInit, UsedPersistent
<1>2. Remembered = Sessions!NoSession
  BY <1>1, NoneLeft
<1>3. Kept = Sessions!NoSession
  <2>1. {blob[i] : i \in DOMAIN blob} = {}
    BY DEF TableInit
  <2>2. ByAge({}) = Sessions!NoSession
    BY DEF ByAge, Sessions!NoSession
  <2>3. QED
    BY <2>1, <2>2 DEF Kept
<1>4. Visiting = {}
  BY EmptyTable DEF TableInit, Visiting
<1>5. QED
  BY <1>2, <1>3, <1>4 DEF Sessions!OpenInit

LEMMA TableStepMaps ==
    TableInv /\ [TableNext]_tableVars => [Sessions!OpenNext]_Sessions!openVars
<1> SUFFICES ASSUME TableInv, [TableNext]_tableVars
             PROVE  Sessions!OpenNext \/ UNCHANGED Sessions!openVars
  OBVIOUS
<1>1. ASSUME NEW t \in Token, NEW isPersistent \in BOOLEAN, NEW saved \in BOOLEAN,
             Create(t, isPersistent, saved)
      PROVE  Sessions!OpenNext
  <2>1. Sessions!OpenRemembered(t) \/ Sessions!OpenVisiting(t)
    BY <1>1, CreatePersistentMaps, CreateVolatileMaps DEF Create
  <2>2. QED
    BY <2>1 DEF Sessions!OpenNext
<1>2. ASSUME NEW t \in Token, Validate(t) PROVE UNCHANGED Sessions!openVars
  BY <1>2, ValidateMaps
<1>3. ASSUME NEW t \in Token, NEW saved \in BOOLEAN, Remove(t, saved)
      PROVE  Sessions!OpenNext \/ UNCHANGED Sessions!openVars
  <2>1. Sessions!Close(t) \/ UNCHANGED Sessions!openVars
    BY <1>3, RemoveMaps
  <2>2. QED
    BY <2>1 DEF Sessions!OpenNext
<1>4. ASSUME NEW saved \in BOOLEAN, Clear(saved)
      PROVE  Sessions!OpenNext \/ UNCHANGED Sessions!openVars
  BY <1>4, ClearMaps DEF Sessions!OpenNext
<1>5. ASSUME NEW t \in Token, NEW n \in Token, NEW saved \in BOOLEAN,
             Honoured(t), RotateExclusive(t, n, saved)
      PROVE  Sessions!OpenNext \/ UNCHANGED Sessions!openVars
  <2>1. Sessions!Rotate(t, n) \/ UNCHANGED Sessions!openVars
    BY <1>5, RotateMaps
  <2>2. QED
    BY <2>1 DEF Sessions!OpenNext
<1>6. ASSUME NEW loaded \in BOOLEAN, NEW saved \in BOOLEAN, Begin(loaded, saved)
      PROVE  Sessions!OpenNext
  BY <1>6, BeginMaps DEF Sessions!OpenNext
<1>7. CASE TableElapse
  BY <1>7, TableElapseMaps DEF Sessions!OpenNext
<1>8. CASE UNCHANGED tableVars
  BY <1>8, SameSessions DEF tableVars, Sessions!openVars
<1>9. QED
  BY <1>1, <1>2, <1>3, <1>4, <1>5, <1>6, <1>7, <1>8 DEF TableNext

\* The table of sessions, with its slots, numbers, ages and writes that fail
\* (SessionTable.cpp), implements what the web interface promises (OpenSessions).
THEOREM TableImplementsSessions == TableSpec => SlotsImplementSessions
<1>1. TableInit => Sessions!OpenInit
  BY InitMaps
<1>2. TableInv /\ [TableNext]_tableVars => [Sessions!OpenNext]_Sessions!openVars
  BY TableStepMaps
<1>3. TableSpec => []TableInv
  BY TableInvariant
<1>4. QED
  BY <1>1, <1>2, <1>3, PTL DEF TableSpec, SlotsImplementSessions, Sessions!OpenSpec

------------------------------------------------------------------------------
(* The requests of AuthService are operations of the table.                 *)

LEMMA FoundWhenHonoured ==
    ASSUME NEW t \in Token, Honoured(t)
    PROVE  Found(t)
BY DEF Honoured, Found, InPersistent

LEMMA AuthStepsTable == AuthIInv /\ [AuthNext]_allVars => [TableNext]_tableVars
<1> SUFFICES ASSUME AuthIInv, [AuthNext]_allVars PROVE TableNext \/ UNCHANGED tableVars
  OBVIOUS
<1>1. ASSUME NEW t \in Token, NEW remember \in BOOLEAN, NEW right \in BOOLEAN,
             NEW saved \in BOOLEAN, Login(t, remember, right, saved)
      PROVE  TableNext \/ UNCHANGED tableVars
  BY <1>1 DEF Login, TableNext
<1>2. ASSUME NEW t \in Token, CreateInitialCredentials(t) PROVE TableNext
  <2>1. Create(t, FALSE, FALSE)
    BY <1>2 DEF CreateInitialCredentials, Create
  <2>2. QED
    BY <2>1 DEF TableNext
<1>3. ASSUME ReplaceForReset PROVE UNCHANGED tableVars
  BY <1>3 DEF ReplaceForReset
<1>4. ASSUME NEW saved \in BOOLEAN, ClearForReset(saved) PROVE TableNext
  BY <1>4 DEF ClearForReset, TableNext
<1>5. ASSUME NEW n \in Token, FinishReset(n) PROVE TableNext \/ UNCHANGED tableVars
  <2>1. UNCHANGED tableVars \/ Create(n, FALSE, FALSE)
    BY <1>5 DEF FinishReset, Create
  <2>2. QED
    BY <2>1 DEF TableNext
<1>6. ASSUME NEW t \in Token, NEW right \in BOOLEAN, NEW credSaved \in BOOLEAN,
             ReplaceForChange(t, right, credSaved)
      PROVE  TableNext
  BY <1>6 DEF ReplaceForChange, TableNext
<1>7. ASSUME NEW n \in Token, NEW saved \in BOOLEAN, FinishChange(n, saved)
      PROVE  TableNext
  <2>1. /\ caller \in Token /\ Honoured(caller)
        /\ RotateExclusive(caller, n, saved)
    BY <1>7 DEF FinishChange, AuthIInv, CallerIn
  <2>2. QED
    BY <2>1 DEF TableNext
<1>8. ASSUME NEW t \in Token, NEW saved \in BOOLEAN, Logout(t, saved) PROVE TableNext
  BY <1>8 DEF Logout, TableNext
<1>9. ASSUME NEW t \in Token, NEW saved \in BOOLEAN, LogoutAll(t, saved) PROVE TableNext
  BY <1>9 DEF LogoutAll, TableNext
<1>10. ASSUME NEW t \in Token, Request(t) PROVE TableNext
  BY <1>10 DEF Request, TableNext
<1>11. ASSUME NEW mode, NEW credLoaded \in BOOLEAN, NEW loaded \in BOOLEAN,
              NEW saved \in BOOLEAN, Boot(mode, credLoaded, loaded, saved)
       PROVE  TableNext
  BY <1>11 DEF Boot, TableNext
<1>12. ASSUME AuthElapse PROVE TableNext
  BY <1>12 DEF AuthElapse, TableNext
<1>13. ASSUME UNCHANGED allVars PROVE UNCHANGED tableVars
  BY <1>13 DEF allVars
<1>14. QED
  BY <1>1, <1>2, <1>3, <1>4, <1>5, <1>6, <1>7, <1>8, <1>9, <1>10, <1>11, <1>12, <1>13
  DEF AuthNext

\* Nothing is left of the sessions that were cleared.
LEMMA ClearedLeavesNone ==
    ASSUME Clear(TRUE)
    PROVE  Issued' = {}
<1>1. blob' = <<>> /\ slots' = NoSlots /\ persistent' = NoPersistent
  BY DEF Clear
<1>2. UsedPersistent' = {}
  BY <1>1, EmptyTable DEF UsedPersistent
<1>3. \A i \in Slot : slots'[i].token = NoToken
  BY <1>1, EmptyTable
<1>4. ASSUME NEW t \in Token PROVE Fresh(t)'
  BY <1>1, <1>2, <1>3, SessionsAssumption DEF Fresh, Found
<1>5. QED
  BY <1>4 DEF Issued

LEMMA AnsweredNone ==
    ASSUME NEW byRotation, Answered({}, byRotation), cleared = {}
    PROVE  cleared' = {} /\ rotatedOut' \subseteq Token
BY DEF Answered, Issued

LEMMA AnsweredClear ==
    ASSUME NEW saved \in BOOLEAN, saved => Clear(saved), cleared = {},
           Answered(IF saved THEN Issued ELSE {}, {})
    PROVE  cleared' = {} /\ rotatedOut' \subseteq Token
<1>1. CASE saved
  <2>1. Issued' = {}
    <3>1. saved = TRUE
      BY <1>1
    <3>2. Clear(TRUE)
      BY <1>1, <3>1
    <3>3. QED
      BY <3>2, ClearedLeavesNone
  <2>2. QED
    BY <2>1 DEF Answered
<1>2. CASE ~saved
  <2>1. Answered({}, {})
    BY <1>2
  <2>2. QED
    BY <2>1, AnsweredNone
<1>3. QED
  BY <1>1, <1>2

\* Types of what AuthService adds to the table.
ServiceTypeOK ==
    /\ configured \in BOOLEAN /\ record \in BOOLEAN /\ apMode \in BOOLEAN
    /\ recovery \in 0..RecoveryTime
    /\ failures \in 0..MaxFailures /\ sinceFailure \in 0..MaxDelay
    /\ pc \in {"ready", "clear", "create", "rotate"}
    /\ caller \in Token \cup {NoToken}
    /\ rotatedOut \subseteq Token
    /\ usedWindow \in BOOLEAN

ServiceInv == ServiceTypeOK /\ WindowUsedUp /\ CallerIn /\ cleared = {}

LEMMA AuthIInvParts == AuthIInv <=> TableInv /\ ServiceInv
<1>1. AuthTypeOK /\ cleared = {} <=> TableTypeOK /\ ServiceTypeOK /\ cleared = {}
  BY DEF AuthTypeOK, ServiceTypeOK
<1>2. QED
  BY <1>1 DEF AuthIInv, TableInv, ServiceInv

LEMMA ThrottleTypes ==
    ASSUME ServiceTypeOK
    PROVE  /\ RecordFailure => failures' \in 0..MaxFailures /\ sinceFailure' \in 0..MaxDelay
           /\ RecordSuccess => failures' \in 0..MaxFailures /\ sinceFailure' \in 0..MaxDelay
BY AuthAssumption DEF ServiceTypeOK, RecordFailure, RecordSuccess

\* A validated session stays honoured.
LEMMA ValidatedStays ==
    ASSUME TableInv, NEW t \in Token, Honoured(t), Validate(t)
    PROVE  Honoured(t)'
<1>1. UNCHANGED persistent /\ UsedPersistent' = UsedPersistent
  BY DEF Validate, UsedPersistent
<1>2. CASE InPersistent(t)
  BY <1>1, <1>2 DEF Honoured, InPersistent
<1>3. CASE ~InPersistent(t)
  <2>1. PICK i \in Slot : slots[i].token = t /\ ~IsExpired(slots[i])
    BY <1>3 DEF Honoured
  <2>2. slots'[i] = [slots[i] EXCEPT !.age = 0]
    BY <2>1 DEF Validate
  <2>3. slots'[i].token = t /\ slots'[i].age = 0
    BY <2>1, <2>2 DEF TableInv, TableTypeOK
  <2>4. ~(slots'[i].age >= IdleTimeout)
    BY <2>3, SessionsAssumption
  <2>5. QED
    BY <2>3, <2>4 DEF Honoured, IsExpired
<1>4. QED
  BY <1>2, <1>3

LEMMA AuthStepService == AuthIInv /\ [AuthNext]_allVars => ServiceInv'
<1> SUFFICES ASSUME AuthIInv, [AuthNext]_allVars PROVE ServiceInv'
  OBVIOUS
<1>0. ServiceInv /\ TableInv
  BY AuthIInvParts
<1> USE <1>0 DEF ServiceInv
<1>1. ASSUME NEW t \in Token, NEW remember \in BOOLEAN, NEW right \in BOOLEAN,
             NEW saved \in BOOLEAN, Login(t, remember, right, saved)
      PROVE  ServiceInv'
  <2>1. failures' \in 0..MaxFailures /\ sinceFailure' \in 0..MaxDelay
    BY <1>1, ThrottleTypes DEF Login
  <2>2. cleared' = {} /\ rotatedOut' \subseteq Token
    BY <1>1, AnsweredNone DEF Login, NotAnswered
  <2>3. QED
    BY <1>1, <2>1, <2>2 DEF Login, ServiceTypeOK, WindowUsedUp, CallerIn
<1>2. ASSUME NEW t \in Token, CreateInitialCredentials(t) PROVE ServiceInv'
  <2>1. cleared' = {} /\ rotatedOut' \subseteq Token
    BY <1>2, AnsweredNone DEF CreateInitialCredentials, NotAnswered
  <2>2. usedWindow' \in BOOLEAN
    BY <1>2 DEF CreateInitialCredentials, WindowOpen, ServiceTypeOK
  <2>3. 0 \in 0..RecoveryTime
    BY AuthAssumption
  <2>4. QED
    BY <1>2, <2>1, <2>2, <2>3
    DEF CreateInitialCredentials, CreateCredentials, MarkUsed, ServiceTypeOK, WindowUsedUp, CallerIn
<1>3. ASSUME ReplaceForReset PROVE ServiceInv'
  <2>1. cleared' = {} /\ rotatedOut' \subseteq Token
    BY <1>3, AnsweredNone DEF ReplaceForReset, NotAnswered
  <2>2. usedWindow' \in BOOLEAN
    BY <1>3 DEF ReplaceForReset, WindowOpen, ServiceTypeOK
  <2>3. QED
    BY <1>3, <2>1, <2>2
    DEF ReplaceForReset, ReplaceCredentials, ServiceTypeOK, WindowUsedUp, CallerIn
<1>4. ASSUME NEW saved \in BOOLEAN, ClearForReset(saved) PROVE ServiceInv'
  <2>1. cleared' = {} /\ rotatedOut' \subseteq Token
    BY <1>4, AnsweredClear DEF ClearForReset
  <2>2. QED
    BY <1>4, <2>1 DEF ClearForReset, ServiceTypeOK, WindowUsedUp, CallerIn
<1>5. ASSUME NEW n \in Token, FinishReset(n) PROVE ServiceInv'
  <2>1. cleared' = {} /\ rotatedOut' \subseteq Token
    BY <1>5, AnsweredNone DEF FinishReset, NotAnswered
  <2>2. 0 \in 0..RecoveryTime
    BY AuthAssumption
  <2>3. QED
    BY <1>5, <2>1, <2>2 DEF FinishReset, MarkUsed, ServiceTypeOK, WindowUsedUp, CallerIn
<1>6. ASSUME NEW t \in Token, NEW right \in BOOLEAN, NEW credSaved \in BOOLEAN,
             ReplaceForChange(t, right, credSaved)
      PROVE  ServiceInv'
  <2>1. failures' \in 0..MaxFailures /\ sinceFailure' \in 0..MaxDelay
    BY <1>6, ThrottleTypes DEF ReplaceForChange
  <2>2. cleared' = {} /\ rotatedOut' \subseteq Token
    BY <1>6, AnsweredNone DEF ReplaceForChange, NotAnswered
  <2>3. CASE right /\ credSaved
    <3>1. pc' = "rotate" /\ caller' = t /\ configured' = TRUE /\ record' = TRUE
      BY <1>6, <2>3 DEF ReplaceForChange, ReplaceCredentials
    <3>2. Honoured(t)'
      BY <1>6, ValidatedStays DEF ReplaceForChange
    <3>3. Honoured(caller)'
      BY <3>1, <3>2 DEF Honoured, InPersistent, IsExpired
    <3>4. CallerIn'
      BY <3>1, <3>3 DEF CallerIn
    <3>5. ServiceTypeOK'
      BY <1>6, <2>1, <2>2, <3>1 DEF ReplaceForChange, ServiceTypeOK
    <3>6. WindowUsedUp'
      BY <1>6, <3>1 DEF ReplaceForChange, WindowUsedUp
    <3>7. QED
      BY <2>2, <3>4, <3>5, <3>6
  <2>4. CASE ~(right /\ credSaved)
    BY <1>6, <2>1, <2>2, <2>4 DEF ReplaceForChange, ServiceTypeOK, WindowUsedUp, CallerIn
  <2>5. QED
    BY <2>3, <2>4
<1>7. ASSUME NEW n \in Token, NEW saved \in BOOLEAN, FinishChange(n, saved)
      PROVE  ServiceInv'
  <2>1. cleared' = {} /\ rotatedOut' \subseteq Token
    BY <1>7, AnsweredNone DEF FinishChange
  <2>2. QED
    BY <1>7, <2>1 DEF FinishChange, ServiceTypeOK, WindowUsedUp, CallerIn
<1>8. ASSUME NEW t \in Token, NEW saved \in BOOLEAN, Logout(t, saved) PROVE ServiceInv'
  <2>1. cleared' = {} /\ rotatedOut' \subseteq Token
    BY <1>8, AnsweredNone DEF Logout, NotAnswered
  <2>2. QED
    BY <1>8, <2>1 DEF Logout, authVars, ServiceTypeOK, WindowUsedUp, CallerIn
<1>9. ASSUME NEW t \in Token, NEW saved \in BOOLEAN, LogoutAll(t, saved) PROVE ServiceInv'
  <2>1. cleared' = {} /\ rotatedOut' \subseteq Token
    BY <1>9, AnsweredClear DEF LogoutAll
  <2>2. QED
    BY <1>9, <2>1 DEF LogoutAll, authVars, ServiceTypeOK, WindowUsedUp, CallerIn
<1>10. ASSUME NEW t \in Token, Request(t) PROVE ServiceInv'
  <2>1. cleared' = {} /\ rotatedOut' \subseteq Token
    BY <1>10, AnsweredNone DEF Request, NotAnswered
  <2>2. QED
    BY <1>10, <2>1 DEF Request, authVars, ServiceTypeOK, WindowUsedUp, CallerIn
<1>11. ASSUME NEW mode, NEW credLoaded \in BOOLEAN, NEW loaded \in BOOLEAN,
              NEW saved \in BOOLEAN, Boot(mode, credLoaded, loaded, saved)
       PROVE  ServiceInv'
  <2>1. cleared' = {} /\ rotatedOut' \subseteq Token
    BY <1>11, AnsweredNone DEF Boot, NotAnswered
  <2>2. configured' \in BOOLEAN /\ apMode' \in BOOLEAN /\ record' \in BOOLEAN
    BY <1>11 DEF Boot, LoadCredentials, ServiceTypeOK
  <2>3. recovery' \in 0..RecoveryTime /\ 0 \in 0..MaxFailures /\ 0 \in 0..MaxDelay
    <3>1. /\ 0 \in 0..RecoveryTime /\ RecoveryTime \in 0..RecoveryTime
          /\ 0 \in 0..MaxFailures /\ 0 \in 0..MaxDelay
      BY AuthAssumption
    <3>2. recovery' = RecoveryTime \/ recovery' = 0
      BY <1>11 DEF Boot
    <3>3. QED
      BY <3>1, <3>2
  <2>4. QED
    BY <1>11, <2>1, <2>2, <2>3 DEF Boot, ServiceTypeOK, WindowUsedUp, CallerIn
<1>12. ASSUME AuthElapse PROVE ServiceInv'
  <2>1. cleared' = {} /\ rotatedOut' \subseteq Token
    BY <1>12, AnsweredNone DEF AuthElapse, NotAnswered
  <2>2. /\ sinceFailure' \in 0..MaxDelay /\ recovery' \in 0..RecoveryTime
        /\ recovery = 0 => recovery' = 0
    BY <1>12, AuthAssumption DEF AuthElapse, WindowElapse, ServiceTypeOK
  <2>3. QED
    BY <1>12, <2>1, <2>2 DEF AuthElapse, ServiceTypeOK, WindowUsedUp, CallerIn
<1>13. ASSUME UNCHANGED allVars PROVE ServiceInv'
  BY <1>13 DEF allVars, tableVars, authVars, authObservers, ServiceTypeOK, WindowUsedUp,
     CallerIn, Honoured, InPersistent, UsedPersistent, IsExpired
<1>14. QED
  BY <1>1, <1>2, <1>3, <1>4, <1>5, <1>6, <1>7, <1>8, <1>9, <1>10, <1>11, <1>12, <1>13
  DEF AuthNext

LEMMA InitAuth == AuthInit => AuthIInv
<1> SUFFICES ASSUME AuthInit PROVE AuthIInv
  OBVIOUS
<1>1. TableInv
  BY InitTableInv DEF AuthInit
<1>2. /\ 0 \in 0..RecoveryTime /\ 0 \in 0..MaxFailures /\ 0 \in 0..MaxDelay
  BY AuthAssumption
<1>3. ServiceInv
  BY <1>2 DEF AuthInit, ServiceInv, ServiceTypeOK, WindowUsedUp, CallerIn
<1>4. QED
  BY <1>1, <1>3, AuthIInvParts

LEMMA AuthStepInv == AuthIInv /\ [AuthNext]_allVars => AuthIInv'
<1> SUFFICES ASSUME AuthIInv, [AuthNext]_allVars PROVE AuthIInv'
  OBVIOUS
<1>1. TableInv'
  BY AuthStepsTable, AuthIInvParts, TableStepInv
<1>2. ServiceInv'
  BY AuthStepService
<1>3. (AuthIInv <=> TableInv /\ ServiceInv)'
  BY AuthIInvParts, PTL
<1>4. QED
  BY <1>1, <1>2, <1>3

LEMMA AuthAlways == AuthSpec => []AuthIInv
BY InitAuth, AuthStepInv, PTL DEF AuthSpec

\* AuthService.cpp and its handlers keep their types, and the recovery window
\* serves one request: for any number of slots and tokens, any throttle and
\* window, writes that fail and resets between the steps of a request.
THEOREM AuthTypesAndWindow == AuthSpec => []AuthInv
<1>1. AuthIInv => AuthInv
  BY DEF AuthIInv, AuthInv, WindowUsedUp, WindowServesOnce
<1>2. QED
  BY <1>1, AuthAlways, PTL

\* A session that a logout-all or a reset of the credentials answered to have
\* closed is never honoured again: SessionTable::clear() writes NVS before the RAM,
\* so that nothing of it is left in either when the answer is given.
THEOREM ClearedStayClosed == AuthSpec => []ClearedIsFinal
<1>1. AuthIInv => ClearedIsFinal
  BY DEF AuthIInv, ClearedIsFinal
<1>2. QED
  BY <1>1, AuthAlways, PTL

\* The requests of AuthService, and the steps of a request that a reset tears
\* apart, use the table as TableSpec says: only a session that is still honoured
\* is rotated.
THEOREM AuthImplementsTable == AuthSpec => TableSpec
<1>1. AuthInit => TableInit
  BY DEF AuthInit
<1>2. QED
  BY <1>1, AuthAlways, AuthStepsTable, PTL DEF AuthSpec, TableSpec

\* The sessions of the web interface are what OpenSessions promises, under every
\* request, failed write and reset.
THEOREM AuthImplementsSessions == AuthSpec => SlotsImplementSessions
BY AuthImplementsTable, TableImplementsSessions, PTL

\* Whoever changes the credentials stays logged in (rotateExclusive()): with the new
\* session, or with the old one when nothing could be written.
LEMMA RotatedStaysIn ==
    ASSUME TableInv, NEW t \in Token, NEW n \in Token, NEW saved \in BOOLEAN,
           Honoured(t), RotateExclusive(t, n, saved)
    PROVE  Honoured(t)' \/ Honoured(n)'
<1>1. Found(t)
  BY FoundWhenHonoured
<1>2. CASE UNCHANGED tableVars
  BY <1>2 DEF tableVars, Honoured, InPersistent, UsedPersistent, IsExpired
<1>3. CASE persistent' = [NoPersistent EXCEPT ![1] = [token |-> n, seq |-> nextSeq]]
  <2>1. 1 \in PSlot /\ n # NoToken
    BY SessionsAssumption DEF PSlot
  <2>2. persistent'[1].token = n
    BY <1>3, <2>1 DEF NoPersistent
  <2>3. 1 \in UsedPersistent'
    BY <2>1, <2>2 DEF UsedPersistent, Used
  <2>4. QED
    BY <2>2, <2>3 DEF Honoured, InPersistent
<1>4. CASE slots' = [NoSlots EXCEPT ![1] = [token |-> n, age |-> 0]]
  <2>1. 1 \in Slot /\ ~(0 >= IdleTimeout)
    BY SessionsAssumption DEF Slot
  <2>2. slots'[1].token = n /\ slots'[1].age = 0
    BY <1>4, <2>1 DEF NoSlots
  <2>3. QED
    BY <2>1, <2>2 DEF Honoured, IsExpired
<1>5. QED
  BY <1>1, <1>2, <1>3, <1>4 DEF RotateExclusive

THEOREM ChangerLoggedIn == AuthSpec => ChangerStaysIn
<1>1. ASSUME AuthIInv, NEW t \in Token, NEW n \in Token, NEW saved \in BOOLEAN,
             caller = t, FinishChange(n, saved)
      PROVE  (Honoured(t) \/ Honoured(n))'
  <2>1. TableInv
    BY <1>1, AuthIInvParts
  <2>2. Honoured(t) /\ RotateExclusive(t, n, saved)
    BY <1>1 DEF AuthIInv, CallerIn, FinishChange
  <2>3. QED
    BY <2>1, <2>2, RotatedStaysIn
<1>2. AuthIInv /\ [AuthNext]_allVars =>
        [\A t, n \in Token : \A saved \in BOOLEAN :
           caller = t /\ FinishChange(n, saved) => (Honoured(t) \/ Honoured(n))']_allVars
  BY <1>1
<1>3. QED
  BY <1>2, AuthAlways, PTL DEF AuthSpec, ChangerStaysIn

==============================================================================
