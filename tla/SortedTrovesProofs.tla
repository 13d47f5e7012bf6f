------------------------- MODULE SortedTrovesProofs -------------------------
(***************************************************************************)
(* Proofs about SortedTroves, for any number of troves, any list size and  *)
(* any range of NICRs.                                                     *)
(***************************************************************************)
EXTENDS MCSortedTroves, Sums, SequenceTheorems

\* (prev, next) are neighbours in the chain, or its two ends.
Adjacent(d, prev, next) ==
  \/ prev = NullId /\ next = NullId /\ d.size = 0
  \/ prev = NullId /\ next \in d.exists /\ d.head = next
  \/ prev \in d.exists /\ next = NullId /\ d.tail = prev
  \/ prev \in d.exists /\ next \in d.exists /\ d.nextId[prev] = next

\* What a chain says of one node, without naming the sequence it represents.
LocalChain(d) ==
  /\ d.size = 0 <=> d.exists = {}
  /\ d.size = 0 => d.head = NullId /\ d.tail = NullId
  /\ d.size # 0 => d.head \in d.exists /\ d.tail \in d.exists
  /\ \A i, j \in d.exists : i # j => d.size > 1
  /\ \A i \in d.exists :
       /\ d.nextId[i] = NullId <=> i = d.tail
       /\ d.prevId[i] = NullId <=> i = d.head
       /\ d.nextId[i] # NullId => d.nextId[i] \in d.exists /\ d.prevId[d.nextId[i]] = i
       /\ d.prevId[i] # NullId => d.prevId[i] \in d.exists /\ d.nextId[d.prevId[i]] = i
  /\ \A i \in Nodes \ d.exists : d.nextId[i] = NullId /\ d.prevId[i] = NullId

\* The list d is sorted by the NICRs N.
SortedBy(d, N) ==
  \A i \in d.exists : d.nextId[i] # NullId => N[i] >= N[d.nextId[i]]

\* What the search for an insert position knows at each of its steps.
SearchInv ==
  /\ search.pc # "idle" =>
       search.id \in Ids \ data.exists /\ nicr[search.id] = search.NICR
  /\ search.pc = "descend" =>
       \/ /\ data.size = 0 /\ search.prevId = NullId /\ search.nextId = NullId
       \/ /\ search.prevId \in data.exists
          /\ search.nextId = data.nextId[search.prevId]
          /\ search.NICR <= nicr[search.prevId]
  /\ search.pc = "ascend" =>
       /\ search.nextId \in data.exists
       /\ search.prevId = data.prevId[search.nextId]
       /\ search.NICR >= nicr[search.nextId]
  /\ FoundIsValid

\* What holds of the search q for the insertion of id with NICR v into the list d.
Started(d, N, id, v, q) ==
  /\ q \in [pc : {"idle", "descend", "ascend", "found"}, id : Nodes,
             NICR : NICRs, prevId : Nodes, nextId : Nodes]
  /\ q.pc # "idle" /\ q.id = id /\ q.NICR = v
  /\ q.pc = "descend" =>
       \/ d.size = 0 /\ q.prevId = NullId /\ q.nextId = NullId
       \/ q.prevId \in d.exists /\ q.nextId = d.nextId[q.prevId] /\ v <= N[q.prevId]
  /\ q.pc = "ascend" =>
       q.nextId \in d.exists /\ q.prevId = d.prevId[q.nextId] /\ v >= N[q.nextId]
  /\ q.pc = "found" => _validInsertPosition(d, N, v, q.prevId, q.nextId)

\* The inductive invariant.
IInv == TypeOK /\ ListIntegrity /\ SearchInv /\ Sorted /\ SizeBounded

-----------------------------------------------------------------------------
\* A list that represents a sequence satisfies the local conditions.
LEMMA RepresentsLocal ==
  ASSUME NEW d \in Data, NEW s, Represents(d, s)
  PROVE  LocalChain(d)
<1> DEFINE n == d.size
<1>0. n \in Nat /\ s \in [1..n -> Ids] /\ d.exists = {s[i] : i \in 1..n}
  BY DEF Represents, Data
<1>1. d.size = 0 <=> d.exists = {}
  <2>1. n = 0 => d.exists = {}
    BY <1>0
  <2>2. n # 0 => s[1] \in d.exists
    BY <1>0
  <2> QED BY <2>1, <2>2
<1>2. d.size = 0 => d.head = NullId /\ d.tail = NullId
  BY DEF Represents
<1>3. d.size # 0 => d.head \in d.exists /\ d.tail \in d.exists
  BY <1>0 DEF Represents
<1>4. ASSUME NEW i \in d.exists
      PROVE  /\ d.nextId[i] = NullId <=> i = d.tail
             /\ d.prevId[i] = NullId <=> i = d.head
             /\ d.nextId[i] # NullId => d.nextId[i] \in d.exists /\ d.prevId[d.nextId[i]] = i
             /\ d.prevId[i] # NullId => d.prevId[i] \in d.exists /\ d.nextId[d.prevId[i]] = i
  <2>1. PICK k \in 1..n : i = s[k]
    BY <1>0
  <2>2. /\ d.nextId[i] = IF k = n THEN NullId ELSE s[k + 1]
        /\ d.prevId[i] = IF k = 1 THEN NullId ELSE s[k - 1]
        /\ n # 0 /\ d.head = s[1] /\ d.tail = s[n]
    BY <1>0, <2>1 DEF Represents
  <2>3. \A j \in 1..n : s[j] \in Ids /\ s[j] # NullId /\ (s[j] = s[k] => j = k)
    BY <1>0, IdsAssumption DEF Represents
  <2>4. d.nextId[i] = NullId <=> i = d.tail
    BY <1>0, <2>1, <2>2, <2>3
  <2>5. d.prevId[i] = NullId <=> i = d.head
    BY <1>0, <2>1, <2>2, <2>3
  <2>6. d.nextId[i] # NullId => d.nextId[i] \in d.exists /\ d.prevId[d.nextId[i]] = i
    <3> SUFFICES ASSUME k # n
                 PROVE  s[k + 1] \in d.exists /\ d.prevId[s[k + 1]] = s[k]
      BY <2>1, <2>2
    <3>1. k + 1 \in 1..n /\ k + 1 # 1 /\ (k + 1) - 1 = k
      BY <1>0
    <3> QED BY <1>0, <3>1 DEF Represents
  <2>7. d.prevId[i] # NullId => d.prevId[i] \in d.exists /\ d.nextId[d.prevId[i]] = i
    <3> SUFFICES ASSUME k # 1
                 PROVE  s[k - 1] \in d.exists /\ d.nextId[s[k - 1]] = s[k]
      BY <2>1, <2>2
    <3>1. k - 1 \in 1..n /\ k - 1 # n /\ (k - 1) + 1 = k
      BY <1>0
    <3> QED BY <1>0, <3>1 DEF Represents
  <2> QED BY <2>4, <2>5, <2>6, <2>7
<1>5. \A i \in Nodes \ d.exists : d.nextId[i] = NullId /\ d.prevId[i] = NullId
  BY DEF Represents
<1>6. \A i, j \in d.exists : i # j => d.size > 1
  BY <1>0
<1> QED BY <1>1, <1>2, <1>3, <1>4, <1>5, <1>6 DEF LocalChain

\* A position _validInsertPosition accepts lies between neighbours of the chain.
LEMMA ValidIsAdjacent ==
  ASSUME NEW d \in Data, LocalChain(d), NEW N, NEW v,
         NEW prev \in Nodes, NEW next \in Nodes,
         _validInsertPosition(d, N, v, prev, next)
  PROVE  Adjacent(d, prev, next)
<1>1. CASE prev = NullId /\ next = NullId
  BY <1>1 DEF _validInsertPosition, Adjacent
<1>2. CASE prev = NullId /\ next # NullId
  BY <1>2 DEF _validInsertPosition, Adjacent, LocalChain
<1>3. CASE prev # NullId /\ next = NullId
  BY <1>3 DEF _validInsertPosition, Adjacent, LocalChain
<1>4. CASE prev # NullId /\ next # NullId
  <2>1. d.nextId[prev] = next
    BY <1>4 DEF _validInsertPosition
  <2>2. prev \in d.exists
    BY <1>4, <2>1 DEF LocalChain
  <2> QED BY <1>4, <2>1, <2>2 DEF Adjacent, LocalChain
<1> QED BY <1>1, <1>2, <1>3, <1>4

-----------------------------------------------------------------------------
\* _remove keeps the list a chain.
LEMMA RemoveRepresents ==
  ASSUME NEW d \in Data, NEW s, Represents(d, s), NEW id \in d.exists
  PROVE  /\ _remove(d, id) \in Data
         /\ \E t \in [1.._remove(d, id).size -> Ids] : Represents(_remove(d, id), t)
         /\ \A k \in 1..d.size : s[k] = id =>
              Represents(_remove(d, id), [i \in 1..(d.size - 1) |-> IF i < k THEN s[i] ELSE s[i + 1]])
<1> DEFINE n == d.size
           e == _remove(d, id)
<1>0. n \in Nat /\ s \in [1..n -> Ids] /\ d.exists = {s[i] : i \in 1..n}
  BY DEF Represents, Data
<1>L. LocalChain(d)
  BY RepresentsLocal
<1>1. PICK k \in 1..n : id = s[k]
  BY <1>0
<1>2. /\ e.size = n - 1 /\ e.size \in Nat /\ e.exists = d.exists \ {id}
  BY <1>0, <1>1 DEF _remove
<1>3. e \in Data
  <2>1. d.prevId[id] \in Nodes /\ d.nextId[id] \in Nodes /\ d.head \in Nodes /\ d.tail \in Nodes
        /\ d.nextId \in [Nodes -> Nodes] /\ d.prevId \in [Nodes -> Nodes] /\ d.exists \subseteq Ids
    BY DEF Data, Nodes
  <2>2. e.head \in Nodes /\ e.tail \in Nodes
    BY <2>1 DEF _remove, Nodes
  <2>3. e.nextId \in [Nodes -> Nodes]
    BY <2>1 DEF _remove, Nodes
  <2>4. e.prevId \in [Nodes -> Nodes]
    BY <2>1 DEF _remove, Nodes
  <2>5. e = [head |-> e.head, tail |-> e.tail, size |-> e.size, exists |-> e.exists,
             nextId |-> e.nextId, prevId |-> e.prevId]
    BY DEF _remove
  <2>6. e.exists \subseteq Ids
    BY <1>2, <2>1
  <2> HIDE DEF e
  <2> QED BY <1>2, <2>2, <2>3, <2>4, <2>5, <2>6 DEF Data
<1> DEFINE t == [i \in 1..(n - 1) |-> IF i < k THEN s[i] ELSE s[i + 1]]
<1>4. t \in [1..e.size -> Ids]
  BY <1>0, <1>1, <1>2
<1>5. \A i, j \in 1..e.size : t[i] = t[j] => i = j
  <2>1. \A i, j \in 1..n : s[i] = s[j] => i = j
    BY DEF Represents
  <2> SUFFICES ASSUME NEW i \in 1..(n - 1), NEW j \in 1..(n - 1), t[i] = t[j]
               PROVE  i = j
    BY <1>2
  <2>2. i \in 1..n /\ j \in 1..n /\ i + 1 \in 1..n /\ j + 1 \in 1..n
    BY <1>0
  <2> QED BY <1>0, <1>1, <2>1, <2>2
<1>6. e.exists = {t[i] : i \in 1..e.size}
  <2>1. ASSUME NEW x \in e.exists PROVE x \in {t[i] : i \in 1..e.size}
    <3>1. PICK j \in 1..n : x = s[j] /\ j # k
      BY <1>0, <1>1, <1>2, <2>1
    <3>2. CASE j < k
      <4>1. j \in 1..(n - 1) /\ t[j] = x
        BY <1>0, <1>1, <3>1, <3>2
      <4> QED BY <4>1, <1>2
    <3>3. CASE j > k
      <4>1. j - 1 \in 1..(n - 1) /\ t[j - 1] = x
        BY <1>0, <1>1, <3>1, <3>3
      <4> QED BY <4>1, <1>2
    <3> QED BY <3>1, <3>2, <3>3, <1>0, <1>1
  <2>2. ASSUME NEW i \in 1..e.size PROVE t[i] \in e.exists
    <3>1. i \in 1..(n - 1) /\ i \in 1..n /\ i + 1 \in 1..n
      BY <1>0, <1>2, <2>2
    <3>2. t[i] \in d.exists /\ t[i] # id
      BY <1>0, <1>1, <3>1 DEF Represents
    <3> QED BY <3>2, <1>2
  <2> QED BY <2>1, <2>2
<1>P. /\ d.prevId[id] = IF k = 1 THEN NullId ELSE s[k - 1]
      /\ d.nextId[id] = IF k = n THEN NullId ELSE s[k + 1]
      /\ d.head = s[1] /\ d.tail = s[n]
      /\ id = d.head <=> k = 1
      /\ id = d.tail <=> k = n
  BY <1>0, <1>1 DEF Represents
<1>7. e.head = IF e.size = 0 THEN NullId ELSE t[1]
  BY <1>0, <1>1, <1>2, <1>P DEF _remove
<1>8. e.tail = IF e.size = 0 THEN NullId ELSE t[e.size]
  BY <1>0, <1>1, <1>2, <1>P DEF _remove
<1>9. ASSUME NEW i \in 1..e.size
      PROVE  /\ e.nextId[t[i]] = IF i = e.size THEN NullId ELSE t[i + 1]
             /\ e.prevId[t[i]] = IF i = 1 THEN NullId ELSE t[i - 1]
  <2> DEFINE m == IF i < k THEN i ELSE i + 1
  <2>1. i \in 1..(n - 1) /\ m \in 1..n /\ m # k /\ n > 1 /\ t[i] = s[m] /\ s[m] \in Nodes
    BY <1>0, <1>1, <1>2 DEF Nodes
  <2>2. \A j \in 1..n : s[j] \in Ids /\ s[j] # NullId
    BY <1>0, IdsAssumption
  <2>3. \A a, b \in 1..n : s[a] = s[b] => a = b
    BY DEF Represents
  <2>4. /\ d.nextId[s[m]] = IF m = n THEN NullId ELSE s[m + 1]
        /\ d.prevId[s[m]] = IF m = 1 THEN NullId ELSE s[m - 1]
    BY <2>1 DEF Represents
  <2>5. s[m] # id
    BY <1>1, <2>1, <2>3
  <2>6. e.nextId[s[m]] = IF k = n /\ n # 1 /\ m = k - 1 THEN NullId
                         ELSE IF k # n /\ k # 1 /\ m = k - 1 THEN s[k + 1]
                         ELSE d.nextId[s[m]]
    BY <1>0, <1>1, <1>P, <2>1, <2>2, <2>3, <2>5 DEF _remove
  <2>7. e.prevId[s[m]] = IF k = 1 /\ m = k + 1 THEN NullId
                         ELSE IF k # n /\ k # 1 /\ m = k + 1 THEN s[k - 1]
                         ELSE d.prevId[s[m]]
    BY <1>0, <1>1, <1>P, <2>1, <2>2, <2>3, <2>5 DEF _remove
  <2> HIDE DEF e
  <2>8. e.nextId[t[i]] = IF i = e.size THEN NullId ELSE t[i + 1]
    BY SMTT(20), <1>0, <1>1, <1>2, <2>1, <2>4, <2>6
  <2>9. e.prevId[t[i]] = IF i = 1 THEN NullId ELSE t[i - 1]
    BY <1>0, <1>1, <1>2, <2>1, <2>4, <2>7
  <2> QED BY <2>8, <2>9
<1>10. \A i \in Nodes \ e.exists : e.nextId[i] = NullId /\ e.prevId[i] = NullId
  <2> SUFFICES ASSUME NEW i \in Nodes \ e.exists
               PROVE  e.nextId[i] = NullId /\ e.prevId[i] = NullId
    OBVIOUS
  <2>1. CASE i = id
    BY <2>1 DEF _remove
  <2>2. CASE i # id
    <3>1. d.nextId[i] = NullId /\ d.prevId[i] = NullId /\ i \notin d.exists
      BY <2>2, <1>2 DEF Represents
    <3>2. id # d.head => d.prevId[id] \in d.exists
      BY <1>L DEF LocalChain
    <3>3. id # d.tail => d.nextId[id] \in d.exists
      BY <1>L DEF LocalChain
    <3> QED BY <2>2, <3>1, <3>2, <3>3 DEF _remove
  <2> QED BY <2>1, <2>2
<1>11. Represents(e, t)
  <2> HIDE DEF e, t
  <2> QED BY <1>4, <1>5, <1>6, <1>7, <1>8, <1>9, <1>10 DEF Represents
<1>12. \A j \in 1..n : s[j] = id => j = k
  BY <1>0, <1>1 DEF Represents
<1>13. ASSUME NEW j \in 1..n, s[j] = id
       PROVE  Represents(e, [i \in 1..(n - 1) |-> IF i < j THEN s[i] ELSE s[i + 1]])
  <2>1. j = k
    BY <1>12, <1>13
  <2> QED BY <1>11, <2>1, Zenon
<1> HIDE DEF t
<1> QED BY <1>3, <1>4, <1>11, <1>13, Zenon

\* The place k of a sequence of n lies between prev and next.
Around(s, n, k, prev, next) ==
  /\ prev = IF k = 1 THEN NullId ELSE s[k - 1]
  /\ next = IF k = n + 1 THEN NullId ELSE s[k]

\* The sequence with one more owner, at place k.
Splice(s, n, k, id) ==
  [i \in 1..(n + 1) |-> IF i < k THEN s[i] ELSE IF i = k THEN id ELSE s[i - 1]]

\* Writing the pointers of a new node between two neighbours keeps the list a chain.
LEMMA LinkRepresents ==
  ASSUME NEW d \in Data, NEW s, Represents(d, s), NEW id \in Ids \ d.exists,
         NEW prev \in Nodes, NEW next \in Nodes, Adjacent(d, prev, next)
  PROVE  /\ Linked(d, id, prev, next) \in Data
         /\ \E t \in [1..Linked(d, id, prev, next).size -> Ids] :
              Represents(Linked(d, id, prev, next), t)
         /\ \E k \in 1..(d.size + 1) :
              /\ Around(s, d.size, k, prev, next)
              /\ Represents(Linked(d, id, prev, next), Splice(s, d.size, k, id))
<1> DEFINE n == d.size
           e == Linked(d, id, prev, next)
<1>0. n \in Nat /\ s \in [1..n -> Ids] /\ d.exists = {s[i] : i \in 1..n}
  BY DEF Represents, Data
<1>L. LocalChain(d)
  BY RepresentsLocal
<1>N. NullId \notin d.exists /\ id # NullId
  BY IdsAssumption DEF Data
<1>1. PICK k \in 1..(n + 1) :
        /\ prev = IF k = 1 THEN NullId ELSE s[k - 1]
        /\ next = IF k = n + 1 THEN NullId ELSE s[k]
  <2>1. CASE prev = NullId /\ next = NullId /\ n = 0
    <3>1. 1 \in 1..(n + 1)
      BY <2>1
    <3> QED BY <2>1, <3>1
  <2>2. CASE prev = NullId /\ next \in d.exists /\ d.head = next
    <3>1. n # 0 /\ next = s[1]
      BY <1>L, <1>0, <2>2 DEF Represents, LocalChain
    <3>2. 1 \in 1..(n + 1) /\ 1 # n + 1
      BY <3>1, <1>0
    <3> QED BY <2>2, <3>1, <3>2
  <2>3. CASE prev \in d.exists /\ next = NullId /\ d.tail = prev
    <3>1. n # 0 /\ prev = s[n]
      BY <1>L, <1>0, <2>3 DEF Represents, LocalChain
    <3>2. n + 1 \in 1..(n + 1) /\ n + 1 # 1 /\ (n + 1) - 1 = n
      BY <3>1, <1>0
    <3> QED BY <2>3, <3>1, <3>2
  <2>4. CASE prev \in d.exists /\ next \in d.exists /\ d.nextId[prev] = next
    <3>1. PICK j \in 1..n : prev = s[j]
      BY <1>0, <2>4
    <3>2. next = s[j + 1] /\ j # n
      BY <3>1, <2>4, <1>N DEF Represents
    <3>3. j + 1 \in 1..(n + 1) /\ j + 1 # 1 /\ j + 1 # n + 1 /\ (j + 1) - 1 = j
      BY <3>2, <1>0
    <3> QED BY <3>1, <3>2, <3>3
  <2> QED BY <2>1, <2>2, <2>3, <2>4 DEF Adjacent
<1>2. /\ e.size = n + 1 /\ e.size \in Nat /\ e.exists = d.exists \cup {id}
  BY <1>0 DEF Linked
<1>K. \A j \in 1..n : s[j] \in Ids /\ s[j] # NullId /\ s[j] # id /\ s[j] \in d.exists
  BY <1>0, IdsAssumption
<1>U. \A a, b \in 1..n : s[a] = s[b] => a = b
  BY DEF Represents
<1>P. /\ prev = NullId <=> k = 1
      /\ next = NullId <=> k = n + 1
      /\ k # 1 => k - 1 \in 1..n
      /\ k # n + 1 => k \in 1..n
  BY <1>0, <1>1, <1>K
<1>E. n # 0 => d.head = s[1] /\ d.tail = s[n] /\ 1 \in 1..n /\ n \in 1..n
  BY <1>0 DEF Represents
\* The pointers Linked writes, with its special cases for the two ends resolved.
<1>X. ASSUME NEW i \in Nodes
      PROVE  /\ e.nextId[i] = IF i = id THEN next ELSE IF k # 1 /\ i = prev THEN id ELSE d.nextId[i]
             /\ e.prevId[i] = IF i = id THEN prev ELSE IF k # n + 1 /\ i = next THEN id ELSE d.prevId[i]
  <2>1. d.nextId[id] = NullId /\ d.prevId[id] = NullId /\ id \in Nodes
    BY <1>L DEF LocalChain, Nodes
  <2>2. prev = NullId /\ next = NullId => n = 0
    BY <1>P, <1>0
  <2>3. k = 1 /\ next # NullId => d.head = next /\ next # NullId /\ next # id
    BY <1>1, <1>P, <1>E, <1>K, <1>0
  <2>4. k = n + 1 /\ prev # NullId => d.tail = prev /\ prev # NullId /\ prev # id
    BY SMTT(20), <1>1, <1>P, <1>E, <1>K, <1>0
  <2>5. (k # 1 => prev # id) /\ (k # n + 1 => next # id)
    BY <1>1, <1>P, <1>K
  <2>6. CASE prev = NullId /\ next = NullId
    BY <2>1, <2>6, <1>P DEF Linked
  <2>7. CASE prev = NullId /\ next # NullId
    BY <2>1, <2>3, <2>5, <2>7, <1>P, <1>N DEF Linked
  <2>8. CASE prev # NullId /\ next = NullId
    BY <2>1, <2>4, <2>5, <2>8, <1>P, <1>N DEF Linked
  <2>9. CASE prev # NullId /\ next # NullId
    BY <2>1, <2>5, <2>9, <1>P, <1>N DEF Linked
  <2> QED BY <2>6, <2>7, <2>8, <2>9
<1>3. e \in Data
  <2>1. d.head \in Nodes /\ d.tail \in Nodes /\ d.exists \subseteq Ids
        /\ d.nextId \in [Nodes -> Nodes] /\ d.prevId \in [Nodes -> Nodes] /\ id \in Nodes
    BY DEF Data, Nodes
  <2>2. e.head \in Nodes /\ e.tail \in Nodes
    BY <2>1 DEF Linked
  <2>3. e.nextId \in [Nodes -> Nodes]
    BY <2>1 DEF Linked
  <2>4. e.prevId \in [Nodes -> Nodes]
    BY <2>1 DEF Linked
  <2>5. e = [head |-> e.head, tail |-> e.tail, size |-> e.size, exists |-> e.exists,
             nextId |-> e.nextId, prevId |-> e.prevId]
    BY DEF Linked
  <2>6. e.exists \subseteq Ids
    BY <1>2, <2>1
  <2> HIDE DEF e
  <2> QED BY <1>2, <2>2, <2>3, <2>4, <2>5, <2>6 DEF Data
<1> DEFINE t == [i \in 1..(n + 1) |-> IF i < k THEN s[i] ELSE IF i = k THEN id ELSE s[i - 1]]
<1>4. t \in [1..e.size -> Ids]
  BY <1>0, <1>1, <1>2
<1>T. ASSUME NEW i \in 1..(n + 1)
      PROVE  /\ i < k => i \in 1..n /\ t[i] = s[i]
             /\ i = k => t[i] = id
             /\ i > k => i - 1 \in 1..n /\ t[i] = s[i - 1]
  BY <1>0
<1>5. \A i, j \in 1..e.size : t[i] = t[j] => i = j
  <2> SUFFICES ASSUME NEW i \in 1..(n + 1), NEW j \in 1..(n + 1), t[i] = t[j]
               PROVE  i = j
    BY <1>2
  <2> HIDE DEF t
  <2>0. ASSUME NEW a \in 1..(n + 1), a # k PROVE t[a] # id
    <3>1. a < k \/ a > k
      BY <2>0, <1>0
    <3> QED BY <3>1, <1>T, <1>K
  <2>1. CASE i = k \/ j = k
    BY <2>0, <2>1, <1>T
  <2>2. CASE i # k /\ j # k
    BY <2>2, <1>T, <1>U, <1>0
  <2> QED BY <2>1, <2>2
<1>6. e.exists = {t[i] : i \in 1..e.size}
  <2>1. ASSUME NEW x \in e.exists PROVE x \in {t[i] : i \in 1..e.size}
    <3>1. CASE x = id
      <4>1. k \in 1..e.size /\ t[k] = x
        BY <3>1, <1>0, <1>1, <1>2
      <4> QED BY <4>1
    <3>2. CASE x # id
      <4>1. PICK j \in 1..n : x = s[j]
        BY <1>0, <1>2, <2>1, <3>2
      <4>2. CASE j < k
        <5>1. j \in 1..e.size /\ t[j] = x
          BY <4>1, <4>2, <1>0, <1>2
        <5> QED BY <5>1
      <4>3. CASE ~(j < k)
        <5>1. j + 1 \in 1..e.size /\ t[j + 1] = x
          BY <4>1, <4>3, <1>0, <1>1, <1>2
        <5> QED BY <5>1
      <4> QED BY <4>2, <4>3
    <3> QED BY <3>1, <3>2
  <2>2. ASSUME NEW i \in 1..e.size PROVE t[i] \in e.exists
    <3> HIDE DEF t, e
    <3>1. i \in 1..(n + 1)
      BY <1>2, <2>2
    <3>2. t[i] = id \/ t[i] \in d.exists
      <4>1. CASE i < k
        BY <4>1, <3>1, <1>T, <1>K
      <4>2. CASE i = k
        BY <4>2, <3>1, <1>T
      <4>3. CASE i > k
        BY <4>3, <3>1, <1>T, <1>K
      <4> QED BY <4>1, <4>2, <4>3, <3>1, <1>0
    <3> QED BY <3>2, <1>2
  <2> QED BY <2>1, <2>2
<1>7. e.head = IF e.size = 0 THEN NullId ELSE t[1]
  BY <1>0, <1>1, <1>2, <1>P, <1>E DEF Linked
<1>8. e.tail = IF e.size = 0 THEN NullId ELSE t[e.size]
  BY <1>0, <1>1, <1>2, <1>P, <1>E DEF Linked
<1>9. ASSUME NEW i \in 1..e.size
      PROVE  /\ e.nextId[t[i]] = IF i = e.size THEN NullId ELSE t[i + 1]
             /\ e.prevId[t[i]] = IF i = 1 THEN NullId ELSE t[i - 1]
  <2> HIDE DEF e
  <2>0. i \in 1..(n + 1)
    BY <1>2
  <2>1. CASE i = k
    <3>1. t[i] = id /\ id \in Nodes
      BY <2>0, <2>1 DEF Nodes
    <3>2. e.nextId[id] = next /\ e.prevId[id] = prev
      BY <3>1, <1>X
    <3>3. i # n + 1 => t[i + 1] = s[i]
      BY <2>0, <2>1, <1>0
    <3>4. i # 1 => t[i - 1] = s[i - 1]
      BY <2>0, <2>1, <1>0
    <3> QED BY <2>1, <3>1, <3>2, <3>3, <3>4, <1>1, <1>2
  <2>2. CASE i # k
    <3> DEFINE m == IF i < k THEN i ELSE i - 1
    <3>0. m \in 1..n
      BY <2>0, <2>2, <1>0
    <3>1. m \in 1..n /\ t[i] = s[m] /\ s[m] \in Nodes /\ s[m] # id
      <4>1. t[i] = s[m]
        BY <2>0, <2>2
      <4> QED BY <3>0, <4>1, <1>K DEF Nodes
    <3>2. /\ d.nextId[s[m]] = IF m = n THEN NullId ELSE s[m + 1]
          /\ d.prevId[s[m]] = IF m = 1 THEN NullId ELSE s[m - 1]
      BY <3>1 DEF Represents
    <3>3. (k # 1 /\ s[m] = prev <=> m = k - 1) /\ (k # n + 1 /\ s[m] = next <=> m = k)
      BY <3>1, <1>0, <1>1, <1>P, <1>U
    <3>4. e.nextId[s[m]] = IF m = k - 1 THEN id ELSE d.nextId[s[m]]
      BY <3>1, <3>3, <1>X
    <3>5. e.prevId[s[m]] = IF m = k THEN id ELSE d.prevId[s[m]]
      BY <3>1, <3>3, <1>X
    <3>6. e.nextId[t[i]] = IF i = e.size THEN NullId ELSE t[i + 1]
      BY <2>0, <2>2, <3>1, <3>2, <3>4, <1>0, <1>1, <1>2
    <3>7. e.prevId[t[i]] = IF i = 1 THEN NullId ELSE t[i - 1]
      BY <2>0, <2>2, <3>1, <3>2, <3>5, <1>0, <1>1, <1>2
    <3> QED BY <3>6, <3>7
  <2> QED BY <2>1, <2>2
<1>10. \A i \in Nodes \ e.exists : e.nextId[i] = NullId /\ e.prevId[i] = NullId
  <2> SUFFICES ASSUME NEW i \in Nodes \ e.exists
               PROVE  e.nextId[i] = NullId /\ e.prevId[i] = NullId
    OBVIOUS
  <2>1. i \notin d.exists /\ i # id /\ d.nextId[i] = NullId /\ d.prevId[i] = NullId
    BY <1>2 DEF Represents
  <2>2. (k # 1 => prev \in d.exists) /\ (k # n + 1 => next \in d.exists)
    BY <1>1, <1>P, <1>K
  <2> QED BY <2>1, <2>2, <1>X
<1>11. Represents(e, t)
  <2> HIDE DEF e, t
  <2> QED BY <1>4, <1>5, <1>6, <1>7, <1>8, <1>9, <1>10 DEF Represents
<1>12. Around(s, n, k, prev, next) /\ Represents(e, Splice(s, n, k, id))
  BY <1>1, <1>11, Zenon DEF Around, Splice
<1> HIDE DEF t
<1> QED BY <1>3, <1>4, <1>11, <1>12, Zenon

-----------------------------------------------------------------------------
\* Unhooking a node keeps the others in order.
LEMMA RemoveSorted ==
  ASSUME NEW d \in Data, LocalChain(d), NEW N \in [Nodes -> NICRs], SortedBy(d, N),
         NEW id \in d.exists, NEW v \in NICRs
  PROVE  SortedBy(_remove(d, id), [N EXCEPT ![id] = v])
<1> DEFINE e == _remove(d, id)
           M == [N EXCEPT ![id] = v]
<1>0. NullId \notin d.exists /\ d.exists \subseteq Nodes
  BY IdsAssumption DEF Data, Nodes
<1>1. SUFFICES ASSUME NEW i \in d.exists, i # id, e.nextId[i] # NullId
               PROVE  M[i] >= M[e.nextId[i]]
  BY DEF SortedBy, _remove
<1>2. \A j \in Nodes : N[j] \in Int
  BY DEF NICRs, Infinite
<1>3. CASE id # d.head /\ id # d.tail /\ i = d.prevId[id] /\ d.size > 1
  <2>1. e.nextId[i] = d.nextId[id]
    BY <1>0, <1>1, <1>3 DEF _remove
  <2>2. d.nextId[i] = id /\ d.nextId[id] \in d.exists /\ d.nextId[id] # id
    BY <1>0, <1>1, <1>3 DEF LocalChain
  <2>3. N[i] >= N[id] /\ N[id] >= N[d.nextId[id]]
    BY <1>0, <2>2 DEF SortedBy
  <2>4. N[i] \in Int /\ N[id] \in Int /\ N[d.nextId[id]] \in Int
    BY <1>0, <1>2, <2>2
  <2>5. N[i] >= N[d.nextId[id]]
    BY <2>3, <2>4
  <2>6. M[i] = N[i] /\ M[d.nextId[id]] = N[d.nextId[id]]
    BY <1>0, <1>1, <2>2
  <2> QED BY <2>1, <2>5, <2>6
<1>4. CASE ~(id # d.head /\ id # d.tail /\ i = d.prevId[id] /\ d.size > 1)
  <2>1. e.nextId[i] = d.nextId[i]
    BY <1>0, <1>1, <1>4 DEF _remove
  <2>2. d.nextId[i] \in d.exists /\ d.nextId[i] # id
    <3>1. d.nextId[i] \in d.exists
      BY <1>1, <2>1 DEF LocalChain
    <3>2. ASSUME d.nextId[i] = id PROVE FALSE
      <4>1. d.prevId[id] = i /\ id # d.head
        BY <1>0, <1>1, <2>1, <3>1, <3>2 DEF LocalChain
      <4>2. CASE id = d.tail /\ d.size > 1
        BY <4>1, <4>2, <1>0, <1>1 DEF _remove
      <4>3. d.size > 1
        BY <1>1 DEF LocalChain
      <4> QED BY <4>1, <4>2, <4>3, <1>4
    <3> QED BY <3>1, <3>2
  <2>3. N[i] >= N[d.nextId[i]]
    BY <1>1, <2>1 DEF SortedBy
  <2>4. M[i] = N[i] /\ M[d.nextId[i]] = N[d.nextId[i]]
    BY <1>0, <1>1, <2>2
  <2> QED BY <2>1, <2>3, <2>4
<1> QED BY <1>3, <1>4

\* Linking a node at a valid position keeps the list in order.
LEMMA LinkSorted ==
  ASSUME NEW d \in Data, LocalChain(d), NEW N \in [Nodes -> NICRs], SortedBy(d, N),
         NEW id \in Ids \ d.exists, NEW prev \in Nodes, NEW next \in Nodes,
         _validInsertPosition(d, N, N[id], prev, next)
  PROVE  SortedBy(Linked(d, id, prev, next), N)
<1> DEFINE e == Linked(d, id, prev, next)
<1>0. NullId \notin d.exists /\ d.exists \subseteq Nodes /\ id # NullId /\ id \in Nodes
  BY IdsAssumption DEF Data, Nodes
<1>1. Adjacent(d, prev, next)
  BY ValidIsAdjacent
<1>2. d.nextId[id] = NullId
  BY <1>0 DEF LocalChain
<1>3. SUFFICES ASSUME NEW i \in d.exists \cup {id}, e.nextId[i] # NullId
               PROVE  N[i] >= N[e.nextId[i]]
  BY DEF SortedBy, Linked
<1>4. CASE i = id
  <2>1. e.nextId[id] = next
    BY <1>0, <1>1, <1>2, <1>3, <1>4 DEF Adjacent, Linked
  <2>2. next # NullId
    BY <2>1, <1>3, <1>4
  <2> QED BY <1>4, <2>1, <2>2 DEF _validInsertPosition
<1>5. CASE i # id /\ i = prev
  <2>1. prev # NullId /\ N[prev] >= N[id]
    <3>1. prev # NullId
      BY <1>0, <1>3, <1>5
    <3>2. N[id] \in Int /\ N[prev] \in Int
      BY <1>0 DEF NICRs, Infinite
    <3> QED BY <3>1, <3>2 DEF _validInsertPosition
  <2>2. e.nextId[prev] = id
    BY <1>0, <1>1, <1>5, <2>1 DEF Adjacent, Linked
  <2> QED BY <1>5, <2>1, <2>2
<1>6. CASE i # id /\ i # prev
  <2>1. e.nextId[i] = d.nextId[i] /\ i \in d.exists
    BY <1>0, <1>1, <1>3, <1>6 DEF Adjacent, Linked
  <2> QED BY <2>1, <1>3 DEF SortedBy
<1> QED BY <1>4, <1>5, <1>6

\* A search that starts knows what SearchInv asks of it.
LEMMA StartInsertOK ==
  ASSUME NEW d \in Data, LocalChain(d), NEW N \in [Nodes -> NICRs],
         NEW id \in Ids \ d.exists, NEW v \in NICRs,
         NEW prev \in Nodes, NEW next \in Nodes
  PROVE  Started(d, N, id, v, StartInsert(d, N, id, v, prev, next))
<1>0. /\ NullId \notin d.exists /\ d.exists \subseteq Nodes /\ id \in Nodes /\ NullId \in Nodes
      /\ d.nextId \in [Nodes -> Nodes] /\ d.prevId \in [Nodes -> Nodes]
      /\ d.head \in Nodes /\ d.tail \in Nodes
  BY IdsAssumption DEF Data, Nodes
<1>N. v \in Int /\ \A j \in Nodes : N[j] \in Int
  BY DEF NICRs, Infinite
<1>1. ASSUME NEW p \in d.exists, v <= N[p] PROVE Started(d, N, id, v, _descendList(d, N, id, v, p))
  BY <1>0, <1>1 DEF Started, _descendList, At, _validInsertPosition
<1>2. ASSUME NEW p \in d.exists, v >= N[p] PROVE Started(d, N, id, v, _ascendList(d, N, id, v, p))
  BY <1>0, <1>2 DEF Started, _ascendList, At, _validInsertPosition
<1>3. Started(d, N, id, v, _descendList(d, N, id, v, d.head))
  <2>1. CASE d.size = 0
    <3>1. d.head = NullId /\ d.nextId[NullId] = NullId
      BY <1>0, <2>1 DEF LocalChain
    <3> QED BY <1>0, <2>1, <3>1 DEF Started, _descendList, At, _validInsertPosition
  <2>2. CASE d.size # 0
    <3>1. d.head \in d.exists
      BY <2>2 DEF LocalChain
    <3>2. CASE v >= N[d.head]
      BY <1>0, <3>1, <3>2 DEF Started, _descendList, At, _validInsertPosition
    <3>3. CASE v <= N[d.head]
      BY <3>1, <3>3, <1>1
    <3> QED BY <3>1, <3>2, <3>3, <1>0, <1>N
  <2> QED BY <2>1, <2>2
<1>4. Started(d, N, id, v, _findInsertPosition(d, N, id, v, prev, next))
  <2>1. CASE contains(d, prev) /\ v <= N[prev]
    BY <2>1, <1>1 DEF _findInsertPosition, contains
  <2>2. CASE ~(contains(d, prev) /\ v <= N[prev]) /\ contains(d, next) /\ v >= N[next]
    BY <2>2, <1>2 DEF _findInsertPosition, contains
  <2>3. CASE ~(contains(d, prev) /\ v <= N[prev]) /\ ~(contains(d, next) /\ v >= N[next])
    BY <2>3, <1>3 DEF _findInsertPosition
  <2> QED BY <2>1, <2>2, <2>3
<1>5. _validInsertPosition(d, N, v, prev, next) => Started(d, N, id, v, At("found", id, v, prev, next))
  BY <1>0 DEF Started, At
<1> QED BY <1>4, <1>5 DEF StartInsert

-----------------------------------------------------------------------------
\* The facts a started insertion leaves behind: used by insert and by reInsert.
LEMMA AfterStart ==
  ASSUME TypeOK, NEW d \in Data, NEW s, Represents(d, s), NEW id \in Ids \ d.exists,
         NEW v \in 1..MaxNICR, NEW prev \in Nodes, NEW next \in Nodes,
         d.size < MaxSize, ~drifted => SortedBy(d, nicr'),
         data' = d, nicr' = [nicr EXCEPT ![id] = v],
         search' = StartInsert(d, nicr', id, v, prev, next), drifted' = drifted
  PROVE  IInv'
<1>1. nicr' \in [Nodes -> NICRs] /\ v \in NICRs /\ nicr'[id] = v
  BY SizeAssumption DEF TypeOK, NICRs, Infinite, Nodes
<1>2. LocalChain(d)
  BY RepresentsLocal
<1>3. Started(d, nicr', id, v, search')
  <2>1. Started(d, nicr', id, v, StartInsert(d, nicr', id, v, prev, next))
    BY <1>1, <1>2, StartInsertOK
  <2> QED BY <2>1
<1>4. TypeOK'
  BY <1>1, <1>3 DEF TypeOK, Started
<1>5. ListIntegrity'
  <2>1. s \in [1..d.size -> Ids]
    BY DEF Represents
  <2> QED BY <2>1 DEF ListIntegrity
<1>6. SearchInv'
  BY <1>1, <1>3 DEF Started, SearchInv, FoundIsValid
<1>7. Sorted'
  BY DEF Sorted, SortedBy
<1>8. SizeBounded'
  BY <1>3, SizeAssumption DEF Started, SizeBounded, Data
<1> QED BY <1>4, <1>5, <1>6, <1>7, <1>8 DEF IInv

\* The initial list is empty.
LEMMA InitIInv == Init => IInv
<1> SUFFICES ASSUME Init PROVE IInv
  OBVIOUS
<1>1. data \in Data
  BY DEF Init, Data, EmptyList, Nodes
<1>2. nicr \in [Nodes -> NICRs]
  BY SizeAssumption DEF Init, NICRs, Infinite
<1>3. search \in [pc : {"idle", "descend", "ascend", "found"}, id : Nodes,
                  NICR : NICRs, prevId : Nodes, nextId : Nodes]
  BY SizeAssumption DEF Init, NICRs, Infinite, Idle, Nodes
<1>4. TypeOK
  BY <1>1, <1>2, <1>3 DEF Init, TypeOK
<1>5. ListIntegrity
  <2> DEFINE s == [i \in 1..0 |-> NullId]
  <2>1. s \in [1..data.size -> Ids]
    BY DEF Init, EmptyList
  <2>2. Represents(data, s)
    BY <2>1 DEF Init, EmptyList, Represents
  <2> QED BY <2>1, <2>2 DEF ListIntegrity
<1>6. SearchInv
  BY DEF Init, Idle, SearchInv, FoundIsValid
<1>7. Sorted /\ SizeBounded
  BY SizeAssumption DEF Init, EmptyList, Idle, Sorted, SizeBounded
<1> QED BY <1>4, <1>5, <1>6, <1>7 DEF IInv

\* Every step of the list and of its environment preserves the invariant.
LEMMA NextIInv == IInv /\ [Next]_vars => IInv'
<1> SUFFICES ASSUME IInv, [Next]_vars PROVE IInv'
  OBVIOUS
<1>0. TypeOK /\ ListIntegrity /\ SearchInv /\ Sorted /\ SizeBounded /\ data \in Data
  BY DEF IInv, TypeOK
<1>s. PICK s \in [1..data.size -> Ids] : Represents(data, s)
  BY <1>0 DEF ListIntegrity
<1>L. LocalChain(data)
  BY <1>0, <1>s, RepresentsLocal
<1>N. NullId \notin data.exists /\ data.exists \subseteq Ids /\ data.exists \subseteq Nodes
  BY <1>0, IdsAssumption DEF Data, Nodes
<1>I. \A j \in Nodes : nicr[j] \in Int
  BY <1>0 DEF TypeOK, NICRs, Infinite
<1>S. ~drifted => SortedBy(data, nicr)
  BY <1>0 DEF Sorted, SortedBy
<1>1. ASSUME NEW id \in Ids, NEW v \in 1..MaxNICR, NEW prev \in Nodes, NEW next \in Nodes,
             insert(id, v, prev, next)
      PROVE  IInv'
  <2>0. data' = data /\ id \notin data.exists /\ data.size # MaxSize /\ search.pc = "idle"
    BY <1>1 DEF insert, contains, isFull
  <2>1. data' = data /\ id \notin data.exists /\ data.size < MaxSize
    <3>1. data.size <= MaxSize
      BY <1>0, <2>0, SizeAssumption DEF SizeBounded, Data
    <3> QED BY <1>0, <2>0, <3>1, SizeAssumption DEF Data
  <2>2. nicr' = [nicr EXCEPT ![id] = v] /\ drifted' = drifted
    BY <1>1 DEF insert
  <2>3. \A i \in data.exists : nicr'[i] = nicr[i]
    BY <2>1, <2>2, <1>N, <1>0 DEF TypeOK
  <2>4. ~drifted => SortedBy(data, nicr')
    <3> SUFFICES ASSUME ~drifted, NEW i \in data.exists, data.nextId[i] # NullId
                 PROVE  nicr'[i] >= nicr'[data.nextId[i]]
      BY DEF SortedBy
    <3>1. data.nextId[i] \in data.exists /\ nicr[i] >= nicr[data.nextId[i]]
      BY <1>L, <1>S DEF LocalChain, SortedBy
    <3> QED BY <3>1, <2>3
  <2>5. search' = StartInsert(data, nicr', id, v, prev, next)
    BY <1>1 DEF insert
  <2>6. id \in Ids \ data.exists
    BY <2>1
  <2> QED BY <1>0, <1>s, <2>1, <2>2, <2>4, <2>5, <2>6, AfterStart
<1>2. ASSUME NEW id \in Ids, NEW v \in 1..MaxNICR, NEW prev \in Nodes, NEW next \in Nodes,
             reInsert(id, v, prev, next)
      PROVE  IInv'
  <2> DEFINE d == _remove(data, id)
  <2>1. id \in data.exists /\ data' = d /\ nicr' = [nicr EXCEPT ![id] = v] /\ drifted' = drifted
        /\ search' = StartInsert(d, nicr', id, v, prev, next) /\ search.pc = "idle"
    BY <1>2 DEF reInsert, contains
  <2>2. PICK t \in [1..d.size -> Ids] : d \in Data /\ Represents(d, t)
    BY <1>0, <1>s, <2>1, RemoveRepresents
  <2>3. id \in Ids \ d.exists /\ d.size < MaxSize
    <3>1. d.size = data.size - 1 /\ d.exists = data.exists \ {id}
      BY DEF _remove
    <3>2. data.size <= MaxSize
      BY <1>0, <2>1 DEF SizeBounded, Data
    <3> QED BY <1>0, <3>1, <3>2, SizeAssumption DEF Data
  <2>4. ~drifted => SortedBy(d, nicr')
    <3>1. v \in NICRs /\ nicr \in [Nodes -> NICRs]
      BY <1>0, SizeAssumption DEF TypeOK, NICRs, Infinite
    <3> QED BY <1>0, <1>L, <1>S, <2>1, <3>1, RemoveSorted
  <2> HIDE DEF d
  <2> QED BY <1>0, <2>1, <2>2, <2>3, <2>4, AfterStart
<1>3. ASSUME NEW id \in Ids, remove(id) PROVE IInv'
  <2> DEFINE d == _remove(data, id)
  <2>1. id \in data.exists /\ data' = d /\ search' = search /\ search.pc = "idle"
        /\ drifted' = drifted
    BY <1>3 DEF remove, contains
  <2>2. PICK v \in {nicr[id], Infinite} : nicr' = [nicr EXCEPT ![id] = v]
    BY <1>3 DEF remove
  <2>3. v \in NICRs /\ nicr \in [Nodes -> NICRs]
    BY <1>0, <1>N, <2>1, <2>2, SizeAssumption DEF TypeOK, NICRs, Infinite
  <2>4. PICK t \in [1..d.size -> Ids] : d \in Data /\ Represents(d, t)
    BY <1>0, <1>s, <2>1, RemoveRepresents
  <2>5. ~drifted => SortedBy(d, nicr')
    BY <1>0, <1>L, <1>S, <2>1, <2>2, <2>3, RemoveSorted
  <2>6. d.size = data.size - 1
    BY DEF _remove
  <2> HIDE DEF d
  <2>7. TypeOK'
    BY <1>0, <2>1, <2>2, <2>3, <2>4 DEF TypeOK
  <2>8. ListIntegrity'
    BY <2>1, <2>4 DEF ListIntegrity
  <2>9. SearchInv'
    BY <1>0, <2>1 DEF SearchInv, FoundIsValid
  <2>10. Sorted'
    BY <2>1, <2>5 DEF Sorted, SortedBy
  <2>11. SizeBounded'
    BY <1>0, <2>1, <2>4, <2>6, SizeAssumption DEF SizeBounded, Data
  <2> QED BY <2>7, <2>8, <2>9, <2>10, <2>11 DEF IInv
<1>4. CASE DescendStep
  <2>0. search.pc = "descend" /\ data' = data /\ nicr' = nicr /\ drifted' = drifted
    BY <1>4 DEF DescendStep
  <2>1. search \in [pc : {"idle", "descend", "ascend", "found"}, id : Nodes,
                    NICR : NICRs, prevId : Nodes, nextId : Nodes]
        /\ search.NICR \in Int /\ search.id \in Ids \ data.exists /\ nicr[search.id] = search.NICR
    BY <1>0, <2>0 DEF TypeOK, NICRs, Infinite, SearchInv
  <2>2. CASE search.prevId # NullId
             /\ ~_validInsertPosition(data, nicr, search.NICR, search.prevId, search.nextId)
    <3>1. search' = [search EXCEPT !.prevId = data.nextId[search.prevId],
                                   !.nextId = data.nextId[data.nextId[search.prevId]]]
      BY <1>4, <2>2 DEF DescendStep
    <3>2. /\ search.prevId \in data.exists /\ search.nextId = data.nextId[search.prevId]
          /\ search.NICR <= nicr[search.prevId]
      BY <1>0, <2>0, <2>2 DEF SearchInv
    <3>3. search.nextId # NullId
      BY <1>L, <2>2, <3>2 DEF LocalChain, _validInsertPosition
    <3>4. search.nextId \in data.exists
      BY <1>L, <3>2, <3>3 DEF LocalChain
    <3>5. nicr[search.prevId] \in Int /\ nicr[search.nextId] \in Int
      BY <1>I, <1>N, <3>2, <3>4
    <3>6. search.NICR <= nicr[search.nextId]
      BY <2>1, <2>2, <3>2, <3>3, <3>5 DEF _validInsertPosition
    <3>7. /\ search'.pc = "descend" /\ search'.id = search.id /\ search'.NICR = search.NICR
          /\ search'.prevId = search.nextId /\ search'.nextId = data.nextId[search.nextId]
      BY <2>0, <2>1, <3>1, <3>2
    <3>8. data.nextId[search.nextId] \in Nodes /\ search.nextId \in Nodes
      BY <1>0, <1>N, <3>4 DEF Data
    <3>9. TypeOK'
      BY <1>0, <2>0, <2>1, <3>1, <3>2, <3>8 DEF TypeOK
    <3>10. SearchInv'
      BY <2>0, <2>1, <3>4, <3>6, <3>7 DEF SearchInv, FoundIsValid
    <3>11. ListIntegrity' /\ Sorted' /\ SizeBounded'
      BY <1>0, <1>s, <2>0, <3>7 DEF ListIntegrity, Sorted, SizeBounded
    <3> QED BY <3>9, <3>10, <3>11 DEF IInv
  <2>3. CASE ~(search.prevId # NullId
               /\ ~_validInsertPosition(data, nicr, search.NICR, search.prevId, search.nextId))
    <3>1. search' = [search EXCEPT !.pc = "found"]
      BY <1>4, <2>3 DEF DescendStep
    <3>2. _validInsertPosition(data, nicr, search.NICR, search.prevId, search.nextId)
      <4>1. CASE search.prevId = NullId
        BY <1>0, <1>N, <2>0, <4>1 DEF SearchInv, _validInsertPosition
      <4> QED BY <4>1, <2>3
    <3>3. /\ search'.pc = "found" /\ search'.id = search.id /\ search'.NICR = search.NICR
          /\ search'.prevId = search.prevId /\ search'.nextId = search.nextId
      BY <2>1, <3>1
    <3>4. TypeOK'
      BY <1>0, <2>0, <2>1, <3>1 DEF TypeOK
    <3>5. SearchInv'
      BY <2>0, <2>1, <3>2, <3>3 DEF SearchInv, FoundIsValid
    <3>6. ListIntegrity' /\ Sorted' /\ SizeBounded'
      BY <1>0, <1>s, <2>0, <3>3 DEF ListIntegrity, Sorted, SizeBounded
    <3> QED BY <3>4, <3>5, <3>6 DEF IInv
  <2> QED BY <2>2, <2>3
<1>5. CASE AscendStep
  <2>0. search.pc = "ascend" /\ data' = data /\ nicr' = nicr /\ drifted' = drifted
    BY <1>5 DEF AscendStep
  <2>1. search \in [pc : {"idle", "descend", "ascend", "found"}, id : Nodes,
                    NICR : NICRs, prevId : Nodes, nextId : Nodes]
        /\ search.NICR \in Int /\ search.id \in Ids \ data.exists /\ nicr[search.id] = search.NICR
    BY <1>0, <2>0 DEF TypeOK, NICRs, Infinite, SearchInv
  <2>2. /\ search.nextId \in data.exists /\ search.prevId = data.prevId[search.nextId]
        /\ search.NICR >= nicr[search.nextId] /\ search.nextId # NullId
    BY <1>0, <1>N, <2>0 DEF SearchInv
  <2>3. CASE ~_validInsertPosition(data, nicr, search.NICR, search.prevId, search.nextId)
    <3>1. search' = [search EXCEPT !.nextId = data.prevId[search.nextId],
                                   !.prevId = data.prevId[data.prevId[search.nextId]]]
      BY <1>5, <2>2, <2>3 DEF AscendStep
    <3>2. search.prevId # NullId
      BY <1>L, <2>2, <2>3 DEF LocalChain, _validInsertPosition
    <3>3. search.prevId \in data.exists /\ data.nextId[search.prevId] = search.nextId
      BY <1>L, <2>2, <3>2 DEF LocalChain
    <3>4. nicr[search.prevId] \in Int /\ nicr[search.nextId] \in Int
      BY <1>I, <1>N, <2>2, <3>3
    <3>5. search.NICR >= nicr[search.prevId]
      BY <2>1, <2>2, <2>3, <3>2, <3>3, <3>4 DEF _validInsertPosition
    <3>6. /\ search'.pc = "ascend" /\ search'.id = search.id /\ search'.NICR = search.NICR
          /\ search'.nextId = search.prevId /\ search'.prevId = data.prevId[search.prevId]
      BY <2>0, <2>1, <2>2, <3>1
    <3>7. data.prevId[search.prevId] \in Nodes /\ search.prevId \in Nodes
      BY <1>0, <1>N, <3>3 DEF Data
    <3>8. TypeOK'
      BY <1>0, <2>0, <2>1, <2>2, <3>1, <3>7 DEF TypeOK
    <3>9. SearchInv'
      BY <2>0, <2>1, <3>3, <3>5, <3>6 DEF SearchInv, FoundIsValid
    <3>10. ListIntegrity' /\ Sorted' /\ SizeBounded'
      BY <1>0, <1>s, <2>0, <3>6 DEF ListIntegrity, Sorted, SizeBounded
    <3> QED BY <3>8, <3>9, <3>10 DEF IInv
  <2>4. CASE _validInsertPosition(data, nicr, search.NICR, search.prevId, search.nextId)
    <3>1. search' = [search EXCEPT !.pc = "found"]
      BY <1>5, <2>4 DEF AscendStep
    <3>2. /\ search'.pc = "found" /\ search'.id = search.id /\ search'.NICR = search.NICR
          /\ search'.prevId = search.prevId /\ search'.nextId = search.nextId
      BY <2>1, <3>1
    <3>3. TypeOK'
      BY <1>0, <2>0, <2>1, <3>1 DEF TypeOK
    <3>4. SearchInv'
      BY <2>0, <2>1, <2>4, <3>2 DEF SearchInv, FoundIsValid
    <3>5. ListIntegrity' /\ Sorted' /\ SizeBounded'
      BY <1>0, <1>s, <2>0, <3>2 DEF ListIntegrity, Sorted, SizeBounded
    <3> QED BY <3>3, <3>4, <3>5 DEF IInv
  <2> QED BY <2>3, <2>4
<1>6. CASE Link
  <2> DEFINE d == Linked(data, search.id, search.prevId, search.nextId)
  <2>0. search.pc = "found" /\ data' = d /\ search' = Idle /\ nicr' = nicr /\ drifted' = drifted
    BY <1>6 DEF Link
  <2>1. search.id \in Ids \ data.exists /\ search.prevId \in Nodes /\ search.nextId \in Nodes
    BY <1>0, <2>0 DEF TypeOK, SearchInv
  <2>2. _validInsertPosition(data, nicr, search.NICR, search.prevId, search.nextId)
    BY <1>0, <2>0 DEF SearchInv, FoundIsValid
  <2>3. Adjacent(data, search.prevId, search.nextId)
    BY <1>0, <1>L, <2>1, <2>2, ValidIsAdjacent
  <2>4. PICK t \in [1..d.size -> Ids] : d \in Data /\ Represents(d, t)
    BY <1>0, <1>s, <2>1, <2>3, LinkRepresents
  <2>5. ~drifted => SortedBy(d, nicr)
    <3>1. nicr[search.id] = search.NICR /\ nicr \in [Nodes -> NICRs]
      BY <1>0, <2>0 DEF TypeOK, SearchInv
    <3> QED BY <1>0, <1>L, <1>S, <2>1, <2>2, <3>1, LinkSorted
  <2>6. d.size = data.size + 1
    BY DEF Linked
  <2> HIDE DEF d
  <2>7. Idle \in [pc : {"idle", "descend", "ascend", "found"}, id : Nodes,
                  NICR : NICRs, prevId : Nodes, nextId : Nodes] /\ Idle.pc = "idle"
    BY SizeAssumption DEF Idle, NICRs, Infinite, Nodes
  <2>8. TypeOK'
    BY <1>0, <2>0, <2>4, <2>7 DEF TypeOK
  <2>9. ListIntegrity'
    BY <2>0, <2>4 DEF ListIntegrity
  <2>10. SearchInv'
    BY <2>0, <2>7 DEF SearchInv, FoundIsValid
  <2>11. Sorted'
    BY <2>0, <2>5 DEF Sorted, SortedBy
  <2>12. SizeBounded'
    BY <1>0, <2>0, <2>6, <2>7, SizeAssumption DEF SizeBounded, Data
  <2> QED BY <2>8, <2>9, <2>10, <2>11, <2>12 DEF IInv
<1>7. CASE Redistribute
  <2>0. search.pc = "idle" /\ data' = data /\ search' = search /\ drifted' = drifted
        /\ nicr' \in [Nodes -> NICRs]
    BY <1>7 DEF Redistribute
  <2>1. TypeOK'
    BY <1>0, <2>0 DEF TypeOK
  <2>2. Sorted'
    <3> SUFFICES ASSUME ~drifted, NEW i \in data.exists, data.nextId[i] # NullId
                 PROVE  nicr'[i] >= nicr'[data.nextId[i]]
      BY <2>0 DEF Sorted
    <3>1. data.nextId[i] \in data.exists /\ nicr[i] >= nicr[data.nextId[i]]
      BY <1>L, <1>S DEF LocalChain, SortedBy
    <3> QED BY <3>1, <1>7 DEF Redistribute
  <2>3. ListIntegrity' /\ SearchInv' /\ SizeBounded'
    BY <1>0, <1>s, <2>0 DEF ListIntegrity, SearchInv, FoundIsValid, SizeBounded
  <2> QED BY <2>1, <2>2, <2>3 DEF IInv
<1>8. ASSUME NEW id \in Ids, NEW v \in 0..MaxNICR, RedeemInPlace(id, v) PROVE IInv'
  <2>0. search.pc = "idle" /\ data' = data /\ search' = search /\ drifted' = TRUE
        /\ nicr' = [nicr EXCEPT ![id] = v]
    BY <1>8 DEF RedeemInPlace
  <2>1. TypeOK'
    <3>1. v \in NICRs
      BY SizeAssumption DEF NICRs, Infinite
    <3> QED BY <1>0, <2>0, <3>1 DEF TypeOK
  <2>2. ListIntegrity' /\ SearchInv' /\ Sorted' /\ SizeBounded'
    BY <1>0, <1>s, <2>0 DEF ListIntegrity, SearchInv, FoundIsValid, Sorted, SizeBounded
  <2> QED BY <2>1, <2>2 DEF IInv
<1>9. ASSUME NEW id \in Ids, NEW v \in NICRs, OtherListMoves(id, v) PROVE IInv'
  <2>0. /\ search.pc = "idle" /\ data' = data /\ search' = search /\ drifted' = drifted
        /\ nicr' = [nicr EXCEPT ![id] = v]
        /\ id \notin data.exists
    BY <1>9 DEF OtherListMoves, contains
  <2>1. TypeOK'
    BY <1>0, <2>0 DEF TypeOK
  <2>2. Sorted'
    <3> SUFFICES ASSUME ~drifted, NEW i \in data.exists, data.nextId[i] # NullId
                 PROVE  nicr'[i] >= nicr'[data.nextId[i]]
      BY <2>0 DEF Sorted
    <3>1. data.nextId[i] \in data.exists /\ nicr[i] >= nicr[data.nextId[i]]
      BY <1>L, <1>S DEF LocalChain, SortedBy
    <3>2. i \in Nodes /\ data.nextId[i] \in Nodes
      BY <1>0, <3>1 DEF Data, Nodes
    <3>3. nicr'[i] = nicr[i] /\ nicr'[data.nextId[i]] = nicr[data.nextId[i]]
      BY <1>0, <2>0, <3>1, <3>2 DEF TypeOK
    <3> QED BY <3>1, <3>3
  <2>3. ListIntegrity' /\ SearchInv' /\ SizeBounded'
    BY <1>0, <1>s, <2>0 DEF ListIntegrity, SearchInv, FoundIsValid, SizeBounded
  <2> QED BY <2>1, <2>2, <2>3 DEF IInv
<1>10. CASE UNCHANGED vars
  BY <1>0, <1>10 DEF vars, IInv, TypeOK, ListIntegrity, SearchInv, FoundIsValid, Sorted, SizeBounded
<1> QED BY <1>1, <1>2, <1>3, <1>4, <1>5, <1>6, <1>7, <1>8, <1>9, <1>10 DEF Next, SearchStep

-----------------------------------------------------------------------------
\* The inductive invariant holds in every reachable state.
THEOREM Invariance == Spec => []IInv
  BY InitIInv, NextIInv, PTL DEF Spec

\* Every variable of the list keeps its type: no pointer leaves the addresses in use.
THEOREM TypeCorrect == Spec => []TypeOK
<1>1. IInv => TypeOK
  BY DEF IInv
<1> QED BY <1>1, Invariance, PTL

\* insert, remove and reInsert keep the list one chain from head to tail, for any hints.
THEOREM ListIsChain == Spec => []ListIntegrity
<1>1. IInv => ListIntegrity
  BY DEF IInv
<1> QED BY <1>1, Invariance, PTL

\* The loops of _descendList and _ascendList never return a position off the list.
THEOREM SearchStaysOnList == Spec => []FoundIsValid
<1>1. IInv => FoundIsValid
  BY DEF IInv, SearchInv
<1> QED BY <1>1, Invariance, PTL

\* The list is sorted by NICR while no trove was changed in place.
THEOREM ListIsSorted == Spec => []Sorted
<1>1. IInv => Sorted
  BY DEF IInv
<1> QED BY <1>1, Invariance, PTL

\* The list never exceeds maxSize.
THEOREM ListIsBounded == Spec => []SizeBounded
<1>1. IInv => SizeBounded
  BY DEF IInv
<1> QED BY <1>1, Invariance, PTL

-----------------------------------------------------------------------------
(***************************************************************************)
(* The refinement of TroveOrder                                            *)
(***************************************************************************)

\* Walking the pointers of a list gives the sequence it represents.
LEMMA ChainIsSequence ==
  ASSUME NEW d \in Data, NEW s, Represents(d, s)
  PROVE  ChainOf(d) = s
<1> DEFINE n == d.size
           Walk(f) == [i \in 1..n |-> IF i = 1 THEN d.head ELSE d.nextId[f[i - 1]]]
           c == CHOOSE f : f = Walk(f)
<1>0. n \in Nat /\ s \in [1..n -> Ids]
  BY DEF Represents, Data
<1>1. s = Walk(s)
  <2>1. ASSUME NEW i \in 1..n
        PROVE  s[i] = IF i = 1 THEN d.head ELSE d.nextId[s[i - 1]]
    <3>1. CASE i = 1
      BY <1>0, <3>1 DEF Represents
    <3>2. CASE i # 1
      <4>1. i - 1 \in 1..n /\ i - 1 # n /\ (i - 1) + 1 = i
        BY <1>0, <3>2
      <4> QED BY <3>2, <4>1 DEF Represents
    <3> QED BY <3>1, <3>2
  <2> QED BY <1>0, <2>1
<1>2. c = Walk(c)
  BY <1>1, Zenon
<1>3. ChainOf(d) = [i \in 1..n |-> c[i]]
  BY Zenon DEF ChainOf
<1> HIDE DEF c
<1>4. \A i \in 1..n : c[i] = IF i = 1 THEN d.head ELSE d.nextId[c[i - 1]]
  BY <1>2
<1>5. \A i \in 1..n : c[i] = s[i]
  <2> DEFINE T == {i \in 1..n : c[i] # s[i]}
  <2>1. SUFFICES ASSUME T # {}
                 PROVE  FALSE
    OBVIOUS
  <2>2. PICK x \in T : \A y \in T : x <= y
    <3>1. T \in SUBSET Nat
      OBVIOUS
    <3> HIDE DEF T
    <3> QED BY <2>1, <3>1, LeastNat
  <2>3. CASE x = 1
    BY <1>1, <1>4, <2>2, <2>3
  <2>4. CASE x # 1
    <3>1. x - 1 \in 1..n /\ x - 1 \notin T
      BY <1>0, <2>2, <2>4
    <3>2. c[x - 1] = s[x - 1]
      BY <3>1
    <3>3. c[x] = d.nextId[c[x - 1]] /\ s[x] = d.nextId[s[x - 1]]
      BY <1>1, <1>4, <2>2, <2>4
    <3> QED BY <2>2, <3>2, <3>3
  <2> QED BY <2>3, <2>4
<1> QED BY <1>0, <1>3, <1>5

\* No insertion under way, nobody to insert.
RefInv == IInv /\ (search.pc = "idle" => search.id = NullId)

LEMMA InitRefInv == Init => RefInv
  BY InitIInv DEF RefInv, Init, Idle

LEMMA NextRefInv == RefInv /\ [Next]_vars => RefInv'
<1> SUFFICES ASSUME RefInv, [Next]_vars
             PROVE  RefInv'
  OBVIOUS
<1>1. IInv /\ IInv'
  BY NextIInv DEF RefInv
<1>2. search'.pc = "idle" => search'.id = NullId
  <2>1. search \in [pc : {"idle", "descend", "ascend", "found"}, id : Nodes,
                    NICR : NICRs, prevId : Nodes, nextId : Nodes]
    BY <1>1 DEF IInv, TypeOK
  <2>2. ASSUME NEW d, NEW N, NEW id, NEW v, NEW p, NEW q
        PROVE  StartInsert(d, N, id, v, p, q).pc # "idle"
    <3>1. /\ \A x : _descendList(d, N, id, v, x).pc # "idle"
          /\ \A x : _ascendList(d, N, id, v, x).pc # "idle"
      BY DEF _descendList, _ascendList, At
    <3>2. _findInsertPosition(d, N, id, v, p, q).pc # "idle"
      BY <3>1 DEF _findInsertPosition
    <3>3. At("found", id, v, p, q).pc # "idle"
      BY DEF At
    <3> QED BY <3>2, <3>3 DEF StartInsert
  <2>3. CASE \E id \in Ids, NICR \in 1..MaxNICR, prev, next \in Nodes :
               insert(id, NICR, prev, next) \/ reInsert(id, NICR, prev, next)
    BY <2>2, <2>3 DEF insert, reInsert
  <2>4. CASE DescendStep \/ AscendStep
    <3>1. search.pc # "idle"
      BY <2>4 DEF DescendStep, AscendStep
    <3>2. search'.pc = search.pc \/ search'.pc = "found"
      BY <2>1, <2>4 DEF DescendStep, AscendStep
    <3> QED BY <3>1, <3>2
  <2>5. CASE Link
    BY <2>5 DEF Link, Idle
  <2>6. CASE search' = search
    BY <2>6 DEF RefInv
  <2> QED
    BY <2>3, <2>4, <2>5, <2>6 DEF Next, SearchStep, remove, Redistribute, OtherListMoves,
       RedeemInPlace, vars
<1> QED BY <1>1, <1>2 DEF RefInv

\* What the sequence of owners is to the list.
LEMMA ChainFacts ==
  ASSUME IInv
  PROVE  /\ data \in Data /\ data.size \in Nat /\ Represents(data, Chain)
         /\ Chain \in [1..data.size -> Ids] /\ Chain \in Seq(Ids)
         /\ DOMAIN Chain = 1..data.size /\ Len(Chain) = data.size
         /\ Order!Members = data.exists
<1>1. data \in Data /\ ListIntegrity
  BY DEF IInv, TypeOK
<1>2. data.size \in Nat
  BY <1>1 DEF Data
<1>3. PICK s : Represents(data, s)
  BY <1>1 DEF ListIntegrity
<1>4. Chain = s
  BY <1>1, <1>3, ChainIsSequence DEF Chain
<1>5. Represents(data, Chain) /\ Chain \in [1..data.size -> Ids]
  BY <1>3, <1>4 DEF Represents
<1>6. DOMAIN Chain = 1..data.size
  BY <1>5
<1>7. Chain \in Seq(Ids) /\ Len(Chain) = data.size
  BY <1>2, <1>5, <1>6, LenProperties
<1>8. Order!Members = data.exists
  BY <1>5, <1>6, Zenon DEF Order!Members, Represents
<1> QED BY <1>1, <1>2, <1>5, <1>6, <1>7, <1>8

\* _remove takes one owner out of the sequence.
LEMMA RemovedChain ==
  ASSUME IInv, NEW id \in data.exists
  PROVE  ChainOf(_remove(data, id)) = Order!Without(id)
<1>1. /\ data \in Data /\ Represents(data, Chain) /\ DOMAIN Chain = 1..data.size
      /\ Len(Chain) = data.size /\ Order!Members = data.exists
  BY ChainFacts
<1> DEFINE k == CHOOSE i \in DOMAIN Chain : Chain[i] = id
           rest == [i \in 1..(data.size - 1) |-> IF i < k THEN Chain[i] ELSE Chain[i + 1]]
<1>2. \E i \in DOMAIN Chain : Chain[i] = id
  BY <1>1 DEF Represents
<1>3. k \in 1..data.size /\ Chain[k] = id
  BY <1>1, <1>2, Zenon
<1>4. Order!Without(id) = rest
  BY <1>1, Zenon DEF Order!Without
<1> HIDE DEF k
<1>5. _remove(data, id) \in Data /\ Represents(_remove(data, id), rest)
  BY <1>1, <1>3, RemoveRepresents
<1> QED BY <1>4, <1>5, ChainIsSequence

\* An owner put behind the first k - 1.
LEMMA Spliced ==
  ASSUME NEW n \in Nat, NEW s \in Seq(Ids), Len(s) = n, NEW k \in 1..(n + 1), NEW id \in Ids
  PROVE  Splice(s, n, k, id)
           = SubSeq(s, 1, k - 1) \o <<id>> \o SubSeq(s, (k - 1) + 1, Len(s))
<1> DEFINE a == SubSeq(s, 1, k - 1)
           b == SubSeq(s, k, n)
           c == a \o <<id>>
           e == c \o b
           t == [i \in 1..(n + 1) |-> IF i < k THEN s[i] ELSE IF i = k THEN id ELSE s[i - 1]]
<1>1. a \in Seq(Ids) /\ Len(a) = k - 1 /\ \A i \in 1..(k - 1) : a[i] = s[i]
  BY SubSeqProperties
<1>2. b \in Seq(Ids) /\ Len(b) = n - k + 1 /\ \A i \in 1..(n - k + 1) : b[i] = s[k + i - 1]
  BY SubSeqProperties
<1> HIDE DEF a, b
<1>3. /\ c \in Seq(Ids) /\ Len(c) = k
      /\ \A i \in 1..(k - 1) : c[i] = s[i]
      /\ c[k] = id
  <2>1. <<id>> \in Seq(Ids) /\ Len(<<id>>) = 1 /\ <<id>>[1] = id
    OBVIOUS
  <2> QED BY <1>1, <2>1, ConcatProperties
<1> HIDE DEF c
<1>4. /\ e \in Seq(Ids) /\ Len(e) = n + 1
      /\ \A i \in 1..k : e[i] = c[i]
      /\ \A i \in (k + 1)..(n + 1) : e[i] = b[i - k]
  BY <1>2, <1>3, ConcatProperties
<1> HIDE DEF e
<1>5. ASSUME NEW i \in 1..(n + 1)
      PROVE  e[i] = t[i]
  <2>1. CASE i < k
    BY <1>3, <1>4, <2>1
  <2>2. CASE i = k
    BY <1>3, <1>4, <2>2
  <2>3. CASE i > k
    <3>1. i \in (k + 1)..(n + 1) /\ i - k \in 1..(n - k + 1) /\ k + (i - k) - 1 = i - 1
      BY <2>3
    <3>2. e[i] = s[i - 1]
      BY <1>2, <1>4, <3>1
    <3> QED BY <2>3, <3>2
  <2> QED BY <2>1, <2>2, <2>3
<1>6. DOMAIN e = 1..(n + 1) /\ e = [i \in DOMAIN e |-> e[i]]
  BY <1>4
<1>7. e = t
  BY <1>5, <1>6
<1>8. (k - 1) + 1 = k
  OBVIOUS
<1> QED BY <1>7, <1>8 DEF Splice, e, c, b, a

\* The keys that callers see after one of the NICRs has changed.
LEMMA KeyChanges ==
  ASSUME nicr \in [Nodes -> NICRs], NEW id \in Ids, NEW v \in NICRs, nicr' = [nicr EXCEPT ![id] = v]
  PROVE  [i \in Ids |-> nicr'[i]] = [[i \in Ids |-> nicr[i]] EXCEPT ![id] = v]
<1>1. \A i \in Ids : nicr'[i] = IF i = id THEN v ELSE nicr[i]
  BY DEF Nodes
<1> QED BY <1>1

\* Every step of the list is a step of TroveOrder or none.
LEMMA StepIsOrdered ==
  ASSUME RefInv, [Next]_vars
  PROVE  [Order!OrderNext]_(Order!orderVars)
<1> DEFINE key == [i \in Ids |-> nicr[i]]
<1>0. /\ IInv /\ nicr \in [Nodes -> NICRs] /\ (search.pc = "idle" => search.id = NullId)
      /\ SearchInv /\ SizeBounded
  BY DEF RefInv, IInv, TypeOK
<1>C. /\ data \in Data /\ data.size \in Nat /\ Represents(data, Chain)
      /\ Chain \in [1..data.size -> Ids] /\ Chain \in Seq(Ids)
      /\ DOMAIN Chain = 1..data.size /\ Len(Chain) = data.size
      /\ Order!Members = data.exists
  BY <1>0, ChainFacts
<1>R. 1..MaxNICR \subseteq NICRs /\ 0..MaxNICR \subseteq NICRs /\ Infinite \in NICRs
  BY SizeAssumption DEF NICRs, Infinite
<1>T. \A d, N, id, v, p, q : StartInsert(d, N, id, v, p, q).id = id
  <2> SUFFICES ASSUME NEW d, NEW N, NEW id, NEW v, NEW p, NEW q
               PROVE  StartInsert(d, N, id, v, p, q).id = id
    OBVIOUS
  <2>1. /\ \A x : _descendList(d, N, id, v, x).id = id
        /\ \A x : _ascendList(d, N, id, v, x).id = id
    BY DEF _descendList, _ascendList, At
  <2>2. _findInsertPosition(d, N, id, v, p, q).id = id
    BY <2>1 DEF _findInsertPosition
  <2>3. At("found", id, v, p, q).id = id
    BY DEF At
  <2> QED BY <2>2, <2>3 DEF StartInsert
<1>1. ASSUME NEW id \in Ids, NEW v \in 1..MaxNICR, NEW prev \in Nodes, NEW next \in Nodes,
             insert(id, v, prev, next)
      PROVE  Order!Take(id, v)
  <2>1. /\ search.pc = "idle" /\ id \notin data.exists /\ data.size # MaxSize
        /\ data' = data /\ nicr' = [nicr EXCEPT ![id] = v]
        /\ search' = StartInsert(data, nicr', id, v, prev, next)
    BY <1>1 DEF insert, isFull, contains
  <2>2. search.id = NullId /\ search'.id = id
    BY <1>0, <1>T, <2>1
  <2>3. data.size < MaxSize
    BY <1>0, <1>C, <2>1, SizeAssumption DEF SizeBounded
  <2>4. Chain' = Chain /\ Order!Without(id) = Chain
    BY <1>C, <2>1, Zenon DEF Chain, Order!Without
  <2>5. key' = [key EXCEPT ![id] = v]
    BY <1>0, <1>R, <2>1, KeyChanges
  <2>6. Len(Chain) < MaxSize
    BY <1>C, <2>3
  <2> QED BY <2>2, <2>4, <2>5, <2>6, Zenon DEF Order!Take
<1>2. ASSUME NEW id \in Ids, NEW v \in 1..MaxNICR, NEW prev \in Nodes, NEW next \in Nodes,
             reInsert(id, v, prev, next)
      PROVE  Order!Take(id, v)
  <2>1. /\ search.pc = "idle" /\ id \in data.exists
        /\ data' = _remove(data, id) /\ nicr' = [nicr EXCEPT ![id] = v]
    BY <1>2, Zenon DEF reInsert, contains
  <2> DEFINE N == [nicr EXCEPT ![id] = v]
             d == _remove(data, id)
  <2>6. search' = StartInsert(d, N, id, v, prev, next)
    BY <1>2, Zenon DEF reInsert
  <2>2. search.id = NullId /\ search'.id = id
    <3> HIDE DEF N, d
    <3> QED BY <1>0, <1>T, <2>1, <2>6
  <2>3. Chain' = Order!Without(id)
    BY <1>0, <2>1, RemovedChain DEF Chain
  <2>4. key' = [key EXCEPT ![id] = v]
    BY <1>0, <1>R, <2>1, KeyChanges
  <2>5. id \in Order!Members
    BY <1>C, <2>1
  <2> QED BY <2>2, <2>3, <2>4, <2>5, Zenon DEF Order!Take
<1>3. ASSUME NEW id \in Ids, remove(id)
      PROVE  Order!Drop(id)
  <2>1. /\ search.pc = "idle" /\ id \in data.exists /\ data' = _remove(data, id) /\ search' = search
    BY <1>3, Zenon DEF remove, contains
  <2>2. PICK v \in {nicr[id], Infinite} : nicr' = [nicr EXCEPT ![id] = v]
    BY <1>3, Zenon DEF remove
  <2>3. v \in NICRs /\ v \in {key[id], Infinite}
    BY <1>0, <1>R, <2>2 DEF Nodes
  <2>4. key' = [key EXCEPT ![id] = v]
    BY <1>0, <2>2, <2>3, KeyChanges
  <2>5. Chain' = Order!Without(id)
    BY <1>0, <2>1, RemovedChain DEF Chain
  <2>6. search.id = NullId /\ search'.id = search.id /\ id \in Order!Members
    BY <1>0, <1>C, <2>1
  <2> QED BY <2>3, <2>4, <2>5, <2>6, Zenon DEF Order!Drop
<1>4. CASE DescendStep \/ AscendStep
  <2>1. data' = data /\ nicr' = nicr
    BY <1>4 DEF DescendStep, AscendStep
  <2>2. search \in [pc : {"idle", "descend", "ascend", "found"}, id : Nodes,
                    NICR : NICRs, prevId : Nodes, nextId : Nodes]
    BY <1>0 DEF IInv, TypeOK
  <2>3. search'.id = search.id
    BY <1>4, <2>2 DEF DescendStep, AscendStep
  <2>4. UNCHANGED Order!orderVars
    BY <2>1, <2>3, Zenon DEF Order!orderVars, Chain
  <2> QED BY <2>4, Zenon
<1>5. CASE Link
  <2> DEFINE id == search.id
             prev == search.prevId
             next == search.nextId
             n == data.size
  <2>1. search.pc = "found" /\ data' = Linked(data, id, prev, next) /\ search' = Idle /\ nicr' = nicr
    BY <1>5 DEF Link
  <2>2. /\ id \in Ids \ data.exists /\ nicr[id] = search.NICR
        /\ _validInsertPosition(data, nicr, search.NICR, prev, next)
        /\ prev \in Nodes /\ next \in Nodes
    BY <1>0, <2>1 DEF IInv, TypeOK, SearchInv, FoundIsValid
  <2>3. Adjacent(data, prev, next)
    BY <1>C, <2>2, RepresentsLocal, ValidIsAdjacent
  <2>4. PICK k \in 1..(n + 1) :
          /\ Around(Chain, n, k, prev, next)
          /\ Represents(Linked(data, id, prev, next), Splice(Chain, n, k, id))
    BY <1>C, <2>2, <2>3, LinkRepresents
  <2> DEFINE longer == Splice(Chain, n, k, id)
             j == k - 1
  <2>5. Chain' = longer
    <3>1. Linked(data, id, prev, next) \in Data
      BY <1>C, <2>2, <2>3, LinkRepresents
    <3> QED BY <2>1, <2>4, <3>1, ChainIsSequence DEF Chain
  <2>6. longer = SubSeq(Chain, 1, j) \o <<id>> \o SubSeq(Chain, j + 1, Len(Chain))
    BY <1>C, <2>2, Spliced
  <2>7. ASSUME j > 0
        PROVE  key[Chain[j]] >= key[id]
    <3>1. k # 1 /\ k - 1 \in 1..n
      BY <1>C, <2>7
    <3>2. prev = Chain[j] /\ prev \in Ids /\ prev # NullId
      BY <1>C, <2>4, <3>1, IdsAssumption DEF Around
    <3>3. nicr[prev] >= search.NICR
      <4>1. nicr[prev] \in Int /\ search.NICR \in Int
        BY <1>0, <2>2, <3>2 DEF Nodes, NICRs, Infinite
      <4> QED BY <2>2, <3>2, <4>1 DEF _validInsertPosition
    <3> QED BY <2>2, <3>2, <3>3
  <2>8. ASSUME j < Len(Chain)
        PROVE  key[id] >= key[Chain[j + 1]]
    <3>1. k # n + 1 /\ k \in 1..n /\ j + 1 = k
      BY <1>C, <2>8
    <3>2. next = Chain[k] /\ next \in Ids /\ next # NullId
      BY <1>C, <2>4, <3>1, IdsAssumption DEF Around
    <3>3. search.NICR >= nicr[next]
      BY <2>2, <3>2 DEF _validInsertPosition
    <3> QED BY <2>2, <3>1, <3>2, <3>3
  <2>9. id # NullId /\ search'.id = NullId /\ key' = key
    BY <2>1, <2>2, IdsAssumption DEF Idle
  <2>10. j \in 0..Len(Chain)
    BY <1>C
  <2> HIDE DEF longer, j
  <2>11. Order!Put(j)
    BY <2>5, <2>6, <2>7, <2>8, <2>9, Zenon DEF Order!Put
  <2> QED BY <2>10, <2>11, Zenon DEF Order!OrderNext
<1>6. CASE Redistribute
  <2>1. /\ search.pc = "idle" /\ nicr' \in [Nodes -> NICRs] /\ data' = data /\ search' = search
        /\ \A i, j \in data.exists : nicr[i] >= nicr[j] => nicr'[i] >= nicr'[j]
    BY <1>6, Zenon DEF Redistribute
  <2>2. search.id = NullId /\ search'.id = search.id /\ Chain' = Chain
    BY <1>0, <2>1 DEF Chain
  <2>3. key' \in [Ids -> NICRs]
    BY <2>1 DEF Nodes
  <2>4. \A i, j \in Order!Members : key[i] >= key[j] => key'[i] >= key'[j]
    <3>1. data.exists \subseteq Ids
      BY <1>C DEF Data
    <3> QED BY <1>C, <2>1, <3>1
  <2>5. Order!KeysMove
    BY <2>2, <2>3, <2>4, Zenon DEF Order!KeysMove
  <2> QED BY <2>5, Zenon DEF Order!OrderNext
<1>7. ASSUME NEW id \in Ids, NEW v \in NICRs, OtherListMoves(id, v) \/ RedeemInPlace(id, v)
      PROVE  Order!KeysMove
  <2>1. /\ search.pc = "idle" /\ data' = data /\ search' = search /\ nicr' = [nicr EXCEPT ![id] = v]
    BY <1>7, Zenon DEF OtherListMoves, RedeemInPlace
  <2>2. search.id = NullId /\ search'.id = search.id /\ Chain' = Chain
    BY <1>0, <2>1 DEF Chain
  <2>3. key' \in [Ids -> NICRs] /\ \A i \in Ids \ {id} : key'[i] = key[i]
    BY <1>0, <2>1 DEF Nodes
  <2> QED BY <2>2, <2>3, Zenon DEF Order!KeysMove
<1>8. CASE UNCHANGED vars
  <2>1. UNCHANGED Order!orderVars
    BY <1>8, Zenon DEF vars, Order!orderVars, Chain
  <2> QED BY <2>1, Zenon
<1>9. ASSUME \E id \in Ids : Order!Drop(id) \/ \E v \in NICRs : Order!Take(id, v)
      PROVE  Order!OrderNext
  BY <1>9, Zenon DEF Order!OrderNext
<1>10. ASSUME Order!KeysMove
       PROVE  Order!OrderNext
  BY <1>10, Zenon DEF Order!OrderNext
<1> QED
  BY <1>1, <1>2, <1>3, <1>4, <1>5, <1>6, <1>7, <1>8, <1>9, <1>10, <1>R DEF Next, SearchStep

(***************************************************************************)
(* SortedTroves implements TroveOrder for any owners, sizes and NICRs:     *)
(* with any hints, _insert places an owner between keys that enclose its   *)
(* own, _remove takes out the owner it is asked for, and no call moves     *)
(* anyone else.                                                            *)
(***************************************************************************)
THEOREM ListIsOrdered == Spec => ImplementsTroveOrder
<1>1. Init => Order!OrderInit
  <2> SUFFICES ASSUME Init
               PROVE  Order!OrderInit
    OBVIOUS
  <2>1. IInv /\ data.size = 0 /\ search.id = NullId
    BY InitIInv DEF Init, EmptyList, Idle
  <2>2. Chain = << >>
    BY <2>1, ChainFacts
  <2>3. [i \in Ids |-> nicr[i]] = [i \in Ids |-> Infinite]
    BY DEF Init, Nodes
  <2> QED BY <2>1, <2>2, <2>3, Zenon DEF Order!OrderInit
<1>2. RefInv /\ [Next]_vars => [Order!OrderNext]_(Order!orderVars)
  BY StepIsOrdered
<1> QED
  BY <1>1, <1>2, InitRefInv, NextRefInv, PTL DEF Spec, ImplementsTroveOrder, Order!OrderSpec
=============================================================================
