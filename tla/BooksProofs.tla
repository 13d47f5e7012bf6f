----------------------------- MODULE BooksProofs -----------------------------
(***************************************************************************)
(* Proofs about TroveRegistry, StabilityPool and FeeStaking, for any       *)
(* borrowers, stakers, users, amounts, fractions and precision, and the    *)
(* types of all the books.                                                 *)
(***************************************************************************)
EXTENDS MCBooks, Sums, FiniteSetTheorems, TLAPS

-----------------------------------------------------------------------------
(***************************************************************************)
(* The registry of troves.  The inductive invariant is the agreement of    *)
(* the four filings: each of them is kept only because the others hold     *)
(* before the step.                                                        *)
(***************************************************************************)

\* f files exactly the owners in A: each at the position its index names.
Filed(f, A) ==
  /\ f.array \in Seq(Borrowers) /\ f.index \in [Borrowers -> Nat]
  /\ \A i \in 1..Len(f.array) : f.array[i] \in A /\ f.index[f.array[i]] = i - 1
  /\ \A b \in A : f.index[b] + 1 \in 1..Len(f.array) /\ f.array[f.index[b] + 1] = b

Kind(s) == {b \in Active : shielded[b] = s}

IInv == RegistryTypeOK /\ OwnersIndexed /\ ListedIffActive

-----------------------------------------------------------------------------
\* A push files one more owner and leaves the index of every other owner alone.
LEMMA AddFiles ==
  ASSUME NEW f, NEW A \in SUBSET Borrowers, Filed(f, A), NEW b \in Borrowers, b \notin A
  PROVE  /\ Filed(_addTroveOwnerToArray(f, b), A \cup {b})
         /\ \A c \in Borrowers \ {b} : _addTroveOwnerToArray(f, b).index[c] = f.index[c]
<1> DEFINE g == _addTroveOwnerToArray(f, b)
<1>0. f.array \in Seq(Borrowers) /\ f.index \in [Borrowers -> Nat] /\ Len(f.array) \in Nat
  BY DEF Filed
<1>1. /\ g.array = Append(f.array, b) /\ g.index = [f.index EXCEPT ![b] = Len(f.array)]
      /\ g.array \in Seq(Borrowers) /\ g.index \in [Borrowers -> Nat]
      /\ Len(g.array) = Len(f.array) + 1
  BY <1>0 DEF _addTroveOwnerToArray
<1>2. \A i \in 1..Len(f.array) : g.array[i] = f.array[i]
  BY <1>0, <1>1
<1>3. g.array[Len(f.array) + 1] = b
  BY <1>0, <1>1
<1>4. ASSUME NEW i \in 1..Len(g.array)
      PROVE  g.array[i] \in A \cup {b} /\ g.index[g.array[i]] = i - 1
  <2>1. CASE i \in 1..Len(f.array)
    BY <1>0, <1>1, <1>2, <2>1 DEF Filed
  <2>2. CASE i = Len(f.array) + 1
    BY <1>0, <1>1, <1>3, <2>2
  <2> QED BY <1>0, <1>1, <1>4, <2>1, <2>2
<1>5. ASSUME NEW c \in A \cup {b}
      PROVE  g.index[c] + 1 \in 1..Len(g.array) /\ g.array[g.index[c] + 1] = c
  <2>1. CASE c = b
    BY <1>0, <1>1, <1>3, <2>1
  <2>2. CASE c # b
    <3>1. c \in A /\ g.index[c] = f.index[c] /\ f.index[c] + 1 \in 1..Len(f.array)
          /\ f.array[f.index[c] + 1] = c
      BY <1>0, <1>1, <1>5, <2>2 DEF Filed
    <3> QED BY <1>0, <1>1, <1>2, <3>1
  <2> QED BY <2>1, <2>2
<1>6. \A c \in Borrowers \ {b} : g.index[c] = f.index[c]
  BY <1>0, <1>1
<1> QED BY <1>1, <1>4, <1>5, <1>6 DEF Filed

\* Swap-and-pop takes out the owner it is asked to, keeps all the others filed, and
\* touches the index of nobody outside this array.
LEMMA RemoveFiles ==
  ASSUME NEW f, NEW A \in SUBSET Borrowers, Filed(f, A), NEW b \in A
  PROVE  /\ Filed(_removeTroveOwnerFromArray(f, b), A \ {b})
         /\ \A c \in Borrowers \ A : _removeTroveOwnerFromArray(f, b).index[c] = f.index[c]
<1> DEFINE g == _removeTroveOwnerFromArray(f, b)
<1>0. PICK arr \in Seq(Borrowers), idx \in [Borrowers -> Nat], last \in Nat :
        arr = f.array /\ idx = f.index /\ last = Len(arr)
  <2>1. f.array \in Seq(Borrowers) /\ f.index \in [Borrowers -> Nat] /\ Len(f.array) \in Nat
    BY DEF Filed
  <2> QED BY <2>1
<1>a. \A i \in 1..last : arr[i] \in A /\ idx[arr[i]] = i - 1
  BY <1>0 DEF Filed
<1>b. \A c \in A : idx[c] + 1 \in 1..last /\ arr[idx[c] + 1] = c
  BY <1>0 DEF Filed
<1>c. PICK k \in 1..last : k = idx[b] + 1 /\ arr[k] = b
  BY <1>b
<1>1. PICK moved \in A : moved = arr[last] /\ idx[moved] = last - 1
  BY <1>0, <1>a, <1>c
<1>2. PICK mid : mid = [arr EXCEPT ![k] = moved]
  OBVIOUS
<1>3. mid \in Seq(Borrowers) /\ Len(mid) = last
      /\ \A i \in 1..last : mid[i] = IF i = k THEN moved ELSE arr[i]
  BY <1>0, <1>1, <1>2
<1>4. PICK garr, gidx : garr = g.array /\ gidx = g.index
  OBVIOUS
<1>5. garr = SubSeq(mid, 1, last - 1) /\ gidx = [idx EXCEPT ![moved] = idx[b]]
  BY <1>0, <1>c, <1>1, <1>2, <1>4 DEF _removeTroveOwnerFromArray
<1>6. /\ garr \in Seq(Borrowers) /\ Len(garr) = last - 1
      /\ \A i \in 1..(last - 1) : garr[i] = IF i = k THEN moved ELSE arr[i]
  BY <1>c, <1>3, <1>5
<1>7. /\ gidx \in [Borrowers -> Nat] /\ gidx[moved] = k - 1
      /\ \A c \in Borrowers \ {moved} : gidx[c] = idx[c]
  BY <1>c, <1>5
<1> HIDE DEF g
<1>8. ASSUME NEW i \in 1..(last - 1)
      PROVE  garr[i] \in A \ {b} /\ gidx[garr[i]] = i - 1
  <2>1. CASE i = k
    <3>1. moved # b
      BY <1>c, <1>1, <2>1
    <3> QED BY <1>6, <1>7, <2>1, <3>1
  <2>2. CASE i # k
    <3>a. i \in 1..last
      OBVIOUS
    <3>b. garr[i] = arr[i]
      BY <1>6, <2>2
    <3>1. garr[i] = arr[i] /\ arr[i] \in A /\ idx[arr[i]] = i - 1
      BY <1>a, <3>a, <3>b
    <3>2. arr[i] # b /\ arr[i] # moved
      BY <1>c, <1>1, <2>2, <3>1
    <3> QED BY <1>7, <3>1, <3>2
  <2> QED BY <2>1, <2>2
<1>9. ASSUME NEW c \in A \ {b}
      PROVE  gidx[c] + 1 \in 1..(last - 1) /\ garr[gidx[c] + 1] = c
  <2>1. CASE c = moved
    <3>1. k # last
      BY <1>c, <1>1, <1>9, <2>1
    <3>2. k \in 1..(last - 1) /\ gidx[c] + 1 = k
      BY <1>7, <2>1, <3>1
    <3>3. garr[k] = moved
      BY <1>6, <3>2
    <3> QED BY <2>1, <3>2, <3>3
  <2>2. CASE c # moved
    <3>1. gidx[c] = idx[c] /\ idx[c] + 1 \in 1..last /\ arr[idx[c] + 1] = c
      BY <1>b, <1>7, <2>2
    <3>2. idx[c] + 1 # last /\ idx[c] + 1 # k
      BY <1>c, <1>1, <1>9, <2>2, <3>1
    <3>3. PICK m \in 1..(last - 1) : m = idx[c] + 1 /\ m # k
      BY <3>1, <3>2
    <3>4. garr[m] = arr[m]
      BY <1>6, <3>3
    <3> QED BY <3>1, <3>3, <3>4
  <2> QED BY <2>1, <2>2
<1>10. Filed(g, A \ {b})
  BY <1>4, <1>6, <1>7, <1>8, <1>9 DEF Filed
<1>11. \A c \in Borrowers \ A : g.index[c] = f.index[c]
  BY <1>0, <1>1, <1>4, <1>7
<1> QED BY <1>10, <1>11 DEF g

-----------------------------------------------------------------------------
\* OwnersIndexed says of each array that it files the active owners of its kind.
LEMMA IndexedIsFiled ==
  ASSUME RegistryTypeOK
  PROVE  OwnersIndexed <=> \A s \in BOOLEAN : Filed(File(s), Kind(s))
<1>1. \A s \in BOOLEAN : /\ owners[s] \in Seq(Borrowers) /\ DOMAIN owners[s] = 1..Len(owners[s])
                         /\ File(s).array = owners[s] /\ File(s).index = arrayIndex
                         /\ \A i \in 1..Len(owners[s]) : owners[s][i] \in Borrowers
  BY DEF RegistryTypeOK, File
<1>2. ASSUME OwnersIndexed, NEW s \in BOOLEAN PROVE Filed(File(s), Kind(s))
  <2>1. \A i \in 1..Len(owners[s]) : owners[s][i] \in Kind(s) /\ arrayIndex[owners[s][i]] = i - 1
    BY <1>1, <1>2 DEF OwnersIndexed, Kind, Active
  <2>2. \A b \in Kind(s) : arrayIndex[b] + 1 \in 1..Len(owners[s]) /\ owners[s][arrayIndex[b] + 1] = b
    BY <1>1, <1>2 DEF OwnersIndexed, Kind
  <2> QED BY <1>1, <2>1, <2>2 DEF Filed, RegistryTypeOK
<1>3. ASSUME \A s \in BOOLEAN : Filed(File(s), Kind(s)) PROVE OwnersIndexed
  <2>1. ASSUME NEW s \in BOOLEAN, NEW i \in DOMAIN owners[s]
        PROVE  /\ status[owners[s][i]] = "active" /\ shielded[owners[s][i]] = s
               /\ arrayIndex[owners[s][i]] = i - 1
    <3>1. i \in 1..Len(owners[s])
      BY <1>1, <2>1
    <3>2. owners[s][i] \in Kind(s) /\ arrayIndex[owners[s][i]] = i - 1
      BY <1>1, <1>3, <3>1 DEF Filed
    <3> QED BY <3>2 DEF Kind, Active
  <2>2. ASSUME NEW b \in Active
        PROVE  arrayIndex[b] + 1 \in DOMAIN owners[shielded[b]]
               /\ owners[shielded[b]][arrayIndex[b] + 1] = b
    <3>1. shielded[b] \in BOOLEAN /\ b \in Kind(shielded[b])
      BY <2>2 DEF Active, Kind, RegistryTypeOK
    <3> QED BY <1>1, <1>3, <3>1 DEF Filed
  <2> QED BY <2>1, <2>2 DEF OwnersIndexed
<1> QED BY <1>2, <1>3

\* A file stays good when indices of owners it does not hold are rewritten.
LEMMA OtherIndices ==
  ASSUME NEW f, NEW A \in SUBSET Borrowers, Filed(f, A), NEW index \in [Borrowers -> Nat],
         \A b \in A : index[b] = f.index[b]
  PROVE  Filed([array |-> f.array, index |-> index], A)
BY DEF Filed

\* Filed looks only at the two fields.
LEMMA FieldsOfFile ==
  ASSUME NEW f, NEW A, Filed(f, A)
  PROVE  Filed([array |-> f.array, index |-> f.index], A)
BY DEF Filed

-----------------------------------------------------------------------------
\* The registry starts with all filings empty.
LEMMA InitIInv == RegistryInit => IInv
<1> SUFFICES ASSUME RegistryInit PROVE IInv
  OBVIOUS
<1>1. Active = {}
  BY DEF RegistryInit, Active
<1>2. RegistryTypeOK
  <2>1. << >> \in Seq(Borrowers) /\ {} \in SUBSET Borrowers
    OBVIOUS
  <2>2. owners \in [BOOLEAN -> Seq(Borrowers)] /\ listed \in [BOOLEAN -> SUBSET Borrowers]
    BY <2>1 DEF RegistryInit
  <2>3. /\ status \in [Borrowers -> {"nonExistent", "active"} \cup Closed]
        /\ arrayIndex \in [Borrowers -> Nat]
    BY DEF RegistryInit
  <2>4. shielded \in [Borrowers -> BOOLEAN] /\ isShutdown \in BOOLEAN
    BY Zenon DEF RegistryInit
  <2> QED BY <2>2, <2>3, <2>4 DEF RegistryTypeOK
<1>3. \A s \in BOOLEAN : DOMAIN owners[s] = {}
  BY DEF RegistryInit
<1>4. OwnersIndexed
  BY <1>1, <1>3 DEF OwnersIndexed
<1>5. ListedIffActive
  BY <1>1 DEF RegistryInit, ListedIffActive
<1> QED BY <1>2, <1>4, <1>5 DEF IInv

\* What an operation does to the two files and to the other variables carries the
\* invariant over to the next state.
LEMMA Refiled ==
  ASSUME RegistryTypeOK',
         \A s \in BOOLEAN : Filed([array |-> owners'[s], index |-> arrayIndex'], Kind(s)'),
         \A s \in BOOLEAN : listed'[s] = Kind(s)'
  PROVE  IInv'
<1>1. \A s \in BOOLEAN : /\ owners'[s] \in Seq(Borrowers)
                         /\ DOMAIN owners'[s] = 1..Len(owners'[s])
                         /\ \A i \in 1..Len(owners'[s]) : owners'[s][i] \in Borrowers
  BY DEF RegistryTypeOK
<1>2. ASSUME NEW s \in BOOLEAN, NEW i \in DOMAIN owners'[s]
      PROVE  /\ status'[owners'[s][i]] = "active" /\ shielded'[owners'[s][i]] = s
             /\ arrayIndex'[owners'[s][i]] = i - 1
  <2>1. i \in 1..Len(owners'[s])
    BY <1>1, <1>2
  <2>2. owners'[s][i] \in Kind(s)' /\ arrayIndex'[owners'[s][i]] = i - 1
    BY <2>1 DEF Filed
  <2> QED BY <2>2 DEF Kind, Active
<1>3. ASSUME NEW b \in Active'
      PROVE  /\ arrayIndex'[b] + 1 \in DOMAIN owners'[shielded'[b]]
             /\ owners'[shielded'[b]][arrayIndex'[b] + 1] = b
  <2>1. PICK s \in BOOLEAN : s = shielded'[b]
    BY <1>3 DEF Active, RegistryTypeOK
  <2>2. b \in Kind(s)'
    BY <1>3, <2>1 DEF Kind
  <2> QED BY <1>1, <2>1, <2>2 DEF Filed
<1>4. OwnersIndexed'
  BY <1>2, <1>3 DEF OwnersIndexed
<1>5. ListedIffActive'
  BY DEF ListedIffActive, Kind
<1> QED BY <1>4, <1>5 DEF IInv

-----------------------------------------------------------------------------
\* createTrove files the new owner in all four places.
LEMMA CreateIInv ==
  ASSUME IInv, NEW b \in Borrowers, NEW t \in BOOLEAN, createTrove(b, t)
  PROVE  IInv'
<1>0. RegistryTypeOK /\ OwnersIndexed /\ ListedIffActive
  BY DEF IInv
<1>1. \A s \in BOOLEAN : Filed(File(s), Kind(s)) /\ listed[s] = Kind(s)
  BY <1>0, IndexedIsFiled DEF ListedIffActive, Kind
<1>2. PICK g : g = _addTroveOwnerToArray(File(t), b)
  OBVIOUS
<1>3. /\ owners' = [owners EXCEPT ![t] = g.array] /\ arrayIndex' = g.index
      /\ status' = [status EXCEPT ![b] = "active"] /\ shielded' = [shielded EXCEPT ![b] = t]
      /\ listed' = [listed EXCEPT ![t] = @ \cup {b}] /\ isShutdown' = isShutdown
      /\ status[b] # "active"
  BY <1>2 DEF createTrove
<1>4. \A s \in BOOLEAN : b \notin Kind(s) /\ Kind(s) \in SUBSET Borrowers
  BY <1>3 DEF Kind, Active
<1>5. Filed(g, Kind(t) \cup {b}) /\ \A c \in Borrowers \ {b} : g.index[c] = arrayIndex[c]
  BY <1>1, <1>2, <1>4, AddFiles DEF File
<1>6. g.array \in Seq(Borrowers) /\ g.index \in [Borrowers -> Nat]
  BY <1>5 DEF Filed
<1>7. \A s \in BOOLEAN : Kind(s)' = IF s = t THEN Kind(s) \cup {b} ELSE Kind(s)
  BY <1>0, <1>3 DEF Kind, Active, RegistryTypeOK
<1>8. RegistryTypeOK'
  BY <1>0, <1>3, <1>6 DEF RegistryTypeOK
<1>9. ASSUME NEW s \in BOOLEAN
      PROVE  Filed([array |-> owners'[s], index |-> arrayIndex'], Kind(s)') /\ listed'[s] = Kind(s)'
  <2>1. CASE s = t
    <3>1. owners'[s] = g.array /\ arrayIndex' = g.index /\ listed'[s] = listed[s] \cup {b}
      BY <1>0, <1>3, <2>1 DEF RegistryTypeOK
    <3>2. Filed([array |-> g.array, index |-> g.index], Kind(t) \cup {b})
      BY <1>5, FieldsOfFile
    <3> QED BY <1>1, <1>7, <2>1, <3>1, <3>2
  <2>2. CASE s # t
    <3>1. owners'[s] = owners[s] /\ listed'[s] = listed[s]
      BY <1>0, <1>3, <2>2 DEF RegistryTypeOK
    <3>a. Filed(File(s), Kind(s)) /\ File(s).index = arrayIndex
      BY <1>1 DEF File
    <3>b. \A c \in Kind(s) : arrayIndex'[c] = arrayIndex[c]
      BY <1>3, <1>4, <1>5
    <3>2. Filed([array |-> File(s).array, index |-> arrayIndex'], Kind(s))
      <4>1. Kind(s) \in SUBSET Borrowers /\ arrayIndex' \in [Borrowers -> Nat]
        BY <1>3, <1>4, <1>6
      <4>2. \A c \in Kind(s) : arrayIndex'[c] = File(s).index[c]
        BY <3>a, <3>b
      <4> QED BY <4>1, <4>2, <3>a, OtherIndices
    <3> QED BY <1>1, <1>7, <2>2, <3>1, <3>2 DEF File
  <2> QED BY <2>1, <2>2
<1> QED BY <1>8, <1>9, Refiled

\* _closeTrove takes the owner out of all four places.
LEMMA CloseIInv ==
  ASSUME IInv, NEW b \in Borrowers, NEW c \in Closed, status[b] = "active", _closeTrove(b, c)
  PROVE  IInv'
<1>0. RegistryTypeOK /\ OwnersIndexed /\ ListedIffActive
  BY DEF IInv
<1>1. \A s \in BOOLEAN : Filed(File(s), Kind(s)) /\ listed[s] = Kind(s)
  BY <1>0, IndexedIsFiled DEF ListedIffActive, Kind
<1>2. PICK t \in BOOLEAN : t = shielded[b]
  BY <1>0 DEF RegistryTypeOK
<1>a. PICK g : g = _removeTroveOwnerFromArray(File(t), b)
  OBVIOUS
<1>3. /\ owners' = [owners EXCEPT ![t] = g.array] /\ arrayIndex' = g.index
      /\ status' = [status EXCEPT ![b] = c] /\ shielded' = [shielded EXCEPT ![b] = FALSE]
      /\ listed' = [listed EXCEPT ![t] = @ \ {b}] /\ isShutdown' = isShutdown
  BY <1>2, <1>a DEF _closeTrove
<1>4. /\ b \in Kind(t)
      /\ \A s \in BOOLEAN : Kind(s) \in SUBSET Borrowers /\ (s # t => b \notin Kind(s))
      /\ \A s \in BOOLEAN : s # t => Kind(s) \cap Kind(t) = {}
  BY <1>2 DEF Kind, Active
<1>5. Filed(g, Kind(t) \ {b}) /\ \A d \in Borrowers \ Kind(t) : g.index[d] = arrayIndex[d]
  BY <1>1, <1>a, <1>4, RemoveFiles DEF File
<1>6. g.array \in Seq(Borrowers) /\ g.index \in [Borrowers -> Nat]
  BY <1>5 DEF Filed
<1>7. \A s \in BOOLEAN : Kind(s)' = Kind(s) \ {b}
  BY <1>0, <1>3 DEF Kind, Active, RegistryTypeOK, Closed
<1>8. RegistryTypeOK'
  BY <1>0, <1>3, <1>6 DEF RegistryTypeOK
<1>9. ASSUME NEW s \in BOOLEAN
      PROVE  Filed([array |-> owners'[s], index |-> arrayIndex'], Kind(s)') /\ listed'[s] = Kind(s)'
  <2>1. CASE s = t
    <3>1. owners'[s] = g.array /\ arrayIndex' = g.index /\ listed'[s] = listed[s] \ {b}
      BY <1>0, <1>3, <2>1 DEF RegistryTypeOK
    <3>2. Filed([array |-> g.array, index |-> g.index], Kind(t) \ {b})
      BY <1>5, FieldsOfFile
    <3> QED BY <1>1, <1>7, <2>1, <3>1, <3>2
  <2>2. CASE s # t
    <3>1. owners'[s] = owners[s] /\ listed'[s] = listed[s]
      BY <1>0, <1>3, <2>2 DEF RegistryTypeOK
    <3>a. Kind(s)' = Kind(s)
      <4>1. b \notin Kind(s) /\ Kind(s)' = Kind(s) \ {b}
        BY <1>4, <1>7, <2>2
      <4> QED BY <4>1
    <3>2. \A d \in Kind(s) : arrayIndex'[d] = arrayIndex[d]
      BY <1>3, <1>4, <1>5, <2>2
    <3>b. Filed(File(s), Kind(s)) /\ File(s).index = arrayIndex
      BY <1>1 DEF File
    <3>3. Filed([array |-> File(s).array, index |-> arrayIndex'], Kind(s))
      <4>1. Kind(s) \in SUBSET Borrowers /\ arrayIndex' \in [Borrowers -> Nat]
        BY <1>3, <1>4, <1>6
      <4>2. \A d \in Kind(s) : arrayIndex'[d] = File(s).index[d]
        BY <3>b, <3>2
      <4> QED BY <4>1, <4>2, <3>b, OtherIndices
    <3> QED BY <1>1, <3>1, <3>a, <3>3 DEF File
  <2> QED BY <2>1, <2>2
<1> QED BY <1>8, <1>9, Refiled

\* Toggling the shield moves the owner from one array and list to the other.
LEMMA ToggleIInv ==
  ASSUME IInv, NEW b \in Borrowers, NEW t \in BOOLEAN, toggleShield(b, t)
  PROVE  IInv'
<1>0. RegistryTypeOK /\ OwnersIndexed /\ ListedIffActive
  BY DEF IInv
<1>1. \A s \in BOOLEAN : Filed(File(s), Kind(s)) /\ listed[s] = Kind(s)
  BY <1>0, IndexedIsFiled DEF ListedIffActive, Kind
<1>2. PICK u \in BOOLEAN : u = ~t /\ u # t
  BY Zenon
<1>a. PICK f, g : /\ f = _removeTroveOwnerFromArray(File(u), b)
                  /\ g = _addTroveOwnerToArray([array |-> owners[t], index |-> f.index], b)
  OBVIOUS
<1>3. /\ owners' = [owners EXCEPT ![u] = f.array, ![t] = g.array] /\ arrayIndex' = g.index
      /\ status' = status /\ shielded' = [shielded EXCEPT ![b] = t]
      /\ listed' = [listed EXCEPT ![t] = @ \cup {b}, ![u] = @ \ {b}] /\ isShutdown' = isShutdown
      /\ status[b] = "active" /\ shielded[b] # t
  BY <1>2, <1>a DEF toggleShield
<1>b. shielded[b] = u /\ \A s \in BOOLEAN : s = t \/ s = u
  BY <1>0, <1>2, <1>3 DEF RegistryTypeOK
<1>4. /\ b \in Kind(u) /\ b \notin Kind(t) /\ Kind(u) \cap Kind(t) = {}
      /\ Kind(u) \in SUBSET Borrowers /\ Kind(t) \in SUBSET Borrowers
  BY <1>2, <1>3, <1>b DEF Kind, Active
<1>5. Filed(f, Kind(u) \ {b}) /\ \A d \in Borrowers \ Kind(u) : f.index[d] = arrayIndex[d]
  BY <1>1, <1>a, <1>4, RemoveFiles DEF File
<1>6. f.array \in Seq(Borrowers) /\ f.index \in [Borrowers -> Nat]
  BY <1>5 DEF Filed
<1>7. Filed([array |-> owners[t], index |-> f.index], Kind(t))
  <2>1. \A d \in Kind(t) : f.index[d] = arrayIndex[d]
    BY <1>4, <1>5
  <2>2. Filed(File(t), Kind(t)) /\ File(t).array = owners[t] /\ File(t).index = arrayIndex
    BY <1>1 DEF File
  <2>3. Filed([array |-> File(t).array, index |-> f.index], Kind(t))
    BY <1>4, <1>6, <2>1, <2>2, OtherIndices
  <2> QED BY <2>2, <2>3
<1>8. Filed(g, Kind(t) \cup {b}) /\ \A d \in Borrowers \ {b} : g.index[d] = f.index[d]
  BY <1>a, <1>4, <1>7, AddFiles
<1>9. g.array \in Seq(Borrowers) /\ g.index \in [Borrowers -> Nat]
  BY <1>8 DEF Filed
<1>10. Filed([array |-> f.array, index |-> g.index], Kind(u) \ {b})
  <2>1. \A d \in Kind(u) \ {b} : g.index[d] = f.index[d]
    BY <1>4, <1>8
  <2> QED BY <1>4, <1>5, <1>9, <2>1, OtherIndices
<1>11. Kind(t)' = Kind(t) \cup {b} /\ Kind(u)' = Kind(u) \ {b}
  BY <1>0, <1>2, <1>3, <1>b DEF Kind, Active, RegistryTypeOK
<1>12. RegistryTypeOK'
  <2>1. listed' \in [BOOLEAN -> SUBSET Borrowers] /\ owners' \in [BOOLEAN -> Seq(Borrowers)]
    BY <1>0, <1>3, <1>6, <1>9 DEF RegistryTypeOK
  <2> QED BY <1>0, <1>3, <1>9, <2>1 DEF RegistryTypeOK
<1>13. /\ owners'[t] = g.array /\ owners'[u] = f.array
       /\ listed'[t] = listed[t] \cup {b} /\ listed'[u] = listed[u] \ {b}
  BY <1>0, <1>2, <1>3 DEF RegistryTypeOK
<1>14. Filed([array |-> owners'[t], index |-> arrayIndex'], Kind(t)') /\ listed'[t] = Kind(t)'
  <2>1. Filed([array |-> g.array, index |-> g.index], Kind(t) \cup {b})
    BY <1>8, FieldsOfFile
  <2> QED BY <1>1, <1>3, <1>11, <1>13, <2>1
<1>15. Filed([array |-> owners'[u], index |-> arrayIndex'], Kind(u)') /\ listed'[u] = Kind(u)'
  BY <1>1, <1>3, <1>10, <1>11, <1>13
<1>16. \A s \in BOOLEAN : /\ Filed([array |-> owners'[s], index |-> arrayIndex'], Kind(s)')
                          /\ listed'[s] = Kind(s)'
  <2> TAKE s \in BOOLEAN
  <2>1. CASE s = t
    BY <1>14, <2>1
  <2>2. CASE s = u
    BY <1>15, <2>2
  <2> QED BY <1>b, <2>1, <2>2
<1> QED BY <1>12, <1>16, Refiled

\* Every operation of the registry keeps the filings in agreement.
LEMMA NextIInv == IInv /\ [RegistryNext]_registryVars => IInv'
<1> SUFFICES ASSUME IInv, [RegistryNext]_registryVars PROVE IInv'
  OBVIOUS
<1>1. ASSUME NEW b \in Borrowers, NEW s \in BOOLEAN, openTrove(b, s) PROVE IInv'
  BY <1>1, CreateIInv DEF openTrove
<1>2. ASSUME NEW b \in Borrowers, NEW s \in BOOLEAN, adjustShield(b, s) PROVE IInv'
  BY <1>2, ToggleIInv DEF adjustShield
<1>3. ASSUME NEW b \in Borrowers, NEW c \in Closed, close(b, c) PROVE IInv'
  BY <1>3, CloseIInv DEF close
<1>4. CASE shutdown
  BY <1>4 DEF shutdown, IInv, RegistryTypeOK, OwnersIndexed, ListedIffActive, Active
<1>5. CASE UNCHANGED registryVars
  BY <1>5 DEF registryVars, IInv, RegistryTypeOK, OwnersIndexed, ListedIffActive, Active
<1> QED BY <1>1, <1>2, <1>3, <1>4, <1>5 DEF RegistryNext

-----------------------------------------------------------------------------
\* The agreement of the filings holds in every reachable state.
THEOREM RegistryInvariance == RegistrySpec => []IInv
  BY InitIInv, NextIInv, PTL DEF RegistrySpec

\* The arrays, their indices, the flags and the statuses agree for any set of
\* borrowers and any sequence of opens, toggles and closes.
THEOREM OwnersStayIndexed == RegistrySpec => []OwnersIndexed
<1>1. IInv => OwnersIndexed
  BY DEF IInv
<1> QED BY <1>1, RegistryInvariance, PTL

\* The sorted lists hold the active troves, each in the list of its kind.
THEOREM ListsHoldActive == RegistrySpec => []ListedIffActive
<1>1. IInv => ListedIffActive
  BY DEF IInv
<1> QED BY <1>1, RegistryInvariance, PTL

\* Before a shutdown no step closes the last trove of the branch.
THEOREM LastTroveStays == RegistrySpec => NeverEmptied
<1>1. ASSUME IInv, [RegistryNext]_registryVars
      PROVE  [Active # {} /\ ~isShutdown => Active' # {}]_registryVars
  <2> SUFFICES ASSUME RegistryNext, NEW a \in Active, ~isShutdown PROVE Active' # {}
    BY <1>1
  <2>0. RegistryTypeOK /\ ListedIffActive
    BY <1>1 DEF IInv
  <2>1. ASSUME NEW b \in Borrowers, NEW s \in BOOLEAN, openTrove(b, s) PROVE Active' # {}
    <3>1. status' = [status EXCEPT ![b] = "active"]
      BY <2>1 DEF openTrove, createTrove
    <3>2. b \in Active'
      BY <2>0, <3>1 DEF Active, RegistryTypeOK
    <3> QED BY <3>2
  <2>2. CASE shutdown \/ \E b \in Borrowers, s \in BOOLEAN : adjustShield(b, s)
    <3>1. status' = status
      BY <2>2 DEF shutdown, adjustShield, toggleShield
    <3> QED BY <3>1 DEF Active
  <2>3. ASSUME NEW b \in Borrowers, NEW c \in Closed, close(b, c) PROVE Active' # {}
    <3>1. /\ status' = [status EXCEPT ![b] = c] /\ status[b] = "active"
          /\ Cardinality(listed[FALSE]) + Cardinality(listed[TRUE]) > 1
      BY <2>3 DEF close, _closeTrove, MoreThanOneTrove
    <3>2. Active' = Active \ {b}
      BY <2>0, <3>1 DEF Active, RegistryTypeOK, Closed
    <3>3. ASSUME Active = {b} PROVE FALSE
      <4>1. CASE shielded[b] = TRUE
        <5>1. listed[TRUE] = {b} /\ listed[FALSE] = {}
          BY <2>0, <3>3, <4>1 DEF ListedIffActive
        <5>2. Cardinality({b}) = 1 /\ Cardinality({}) = 0
          BY FS_Singleton, FS_EmptySet
        <5> QED BY <3>1, <5>1, <5>2
      <4>2. CASE shielded[b] = FALSE
        <5>1. listed[FALSE] = {b} /\ listed[TRUE] = {}
          BY <2>0, <3>3, <4>2 DEF ListedIffActive
        <5>2. Cardinality({b}) = 1 /\ Cardinality({}) = 0
          BY FS_Singleton, FS_EmptySet
        <5> QED BY <3>1, <5>1, <5>2
      <4> QED BY <2>0, <4>1, <4>2 DEF RegistryTypeOK
    <3> QED BY <3>2, <3>3
  <2> QED BY <2>1, <2>2, <2>3 DEF RegistryNext
<1> QED BY <1>1, RegistryInvariance, PTL DEF RegistrySpec, NeverEmptied

-----------------------------------------------------------------------------
(***************************************************************************)
(* Arithmetic                                                              *)
(***************************************************************************)

LEMMA MinPair ==
  ASSUME NEW a \in Int, NEW b \in Int
  PROVE  Min({a, b}) = IF a <= b THEN a ELSE b
BY DEF Min

\* The least of four.
LEMMA MinFour ==
  ASSUME NEW a \in Int, NEW b \in Int, NEW c \in Int, NEW d \in Int
  PROVE  LET m == Min({a, b, c, d})
         IN m \in {a, b, c, d} /\ m <= a /\ m <= b /\ m <= c /\ m <= d
<1> DEFINE T == {a, b, c, d}
<1>1. PICK x \in T : \A y \in T : x <= y
  OBVIOUS
<1>2. Min(T) \in T /\ \A y \in T : Min(T) <= y
  BY <1>1, Zenon DEF Min
<1> QED
  BY <1>2

-----------------------------------------------------------------------------
(***************************************************************************)
(* What a transaction works on                                             *)
(***************************************************************************)

Routers == [lp : Nat, staker : Nat, frac : lpAllocFracs, age : 0..distributionFreq]

Helds == [oracle : 0..oracleTargetBalance, lp : Nat, lqty : Nat]

Stakings == [F : Nat, total : Nat]

Works == [router : Routers, held : Helds, staking : Stakings, in : Nat]

\* What has come in and is still there.
There(w) == w.router.lp + w.router.staker + w.held.oracle + w.held.lp + w.held.lqty

LEMMA IncreaseFields ==
  ASSUME NEW w \in Works, NEW fee \in Nat
  PROVE  LET u == increaseF_LUSD(w, fee)
         IN /\ u \in Works /\ u.router = w.router /\ u.held = w.held /\ u.in = w.in
            /\ u.staking.total = w.staking.total /\ u.staking.F >= w.staking.F
            /\ w.staking.total * (u.staking.F - w.staking.F) <= fee * PRECISION
<1>1. w.staking \in Stakings /\ w.staking.total \in Nat /\ w.staking.F \in Nat
  BY DEF Works, Stakings
<1>2. fee * PRECISION \in Nat
  BY FeeAssumption
<1>3. CASE w.staking.total = 0
  BY <1>1, <1>2, <1>3 DEF increaseF_LUSD
<1>4. CASE w.staking.total # 0
  <2> DEFINE rise == (fee * PRECISION) \div w.staking.total
             F == w.staking.F + rise
             u == [w EXCEPT !.staking.F = F]
  <2>1. rise \in Nat /\ w.staking.total * rise <= fee * PRECISION
    BY <1>1, <1>2, <1>4, DivBounds
  <2>2. increaseF_LUSD(w, fee) = u
    BY <1>4, Zenon DEF increaseF_LUSD
  <2> HIDE DEF rise
  <2>3. F \in Nat /\ F >= w.staking.F /\ F - w.staking.F = rise
    BY <1>1, <2>1
  <2> HIDE DEF F
  <2>4. /\ u \in Works /\ u.router = w.router /\ u.held = w.held /\ u.in = w.in
        /\ u.staking.total = w.staking.total /\ u.staking.F = F
    BY <1>1, <2>3, Zenon DEF Works, Stakings
  <2> HIDE DEF u
  <2> QED
    BY <2>1, <2>2, <2>3, <2>4
<1> QED
  BY <1>3, <1>4

LEMMA DistributeFields ==
  ASSUME NEW w \in Works
  PROVE  LET u == _distributePending(w)
         IN /\ u \in Works /\ u.router.frac = w.router.frac /\ u.in = w.in
            /\ There(u) = There(w) /\ u.held.lqty = w.held.lqty + w.router.staker
            /\ u.staking.total = w.staking.total /\ u.staking.F >= w.staking.F
            /\ w.staking.total * (u.staking.F - w.staking.F) <= w.router.staker * PRECISION
<1>1. w.router \in Routers /\ w.held \in Helds
  BY DEF Works
<1>2. /\ w.router.lp \in Nat /\ w.router.staker \in Nat
      /\ w.held.oracle \in Nat /\ w.held.lp \in Nat /\ w.held.lqty \in Nat
  BY <1>1, FeeAssumption DEF Routers, Helds
<1> DEFINE i == increaseF_LUSD(w, w.router.staker)
           lp == w.held.lp + w.router.lp
           lqty == w.held.lqty + w.router.staker
           u == [i EXCEPT !.held.lp = lp, !.held.lqty = lqty,
                          !.router.lp = 0, !.router.staker = 0, !.router.age = 0]
<1>3. /\ i \in Works /\ i.router = w.router /\ i.held = w.held /\ i.in = w.in
      /\ i.staking.total = w.staking.total /\ i.staking.F >= w.staking.F
      /\ w.staking.total * (i.staking.F - w.staking.F) <= w.router.staker * PRECISION
  BY <1>2, IncreaseFields
<1>4. _distributePending(w) = u
  <2> HIDE DEF i
  <2>1. i.held.lp = w.held.lp /\ i.held.lqty = w.held.lqty
    BY <1>3
  <2> QED
    BY <2>1, Zenon DEF _distributePending, i
<1> HIDE DEF i
<1>5. lp \in Nat /\ lqty \in Nat /\ 0 \in Nat /\ 0 \in 0..distributionFreq
  BY <1>2, FeeAssumption
<1>6. lp = w.held.lp + w.router.lp /\ lqty = w.held.lqty + w.router.staker
  OBVIOUS
<1> HIDE DEF lp, lqty
<1>7. /\ u \in Works /\ u.in = i.in /\ u.staking = i.staking
      /\ u.router.lp = 0 /\ u.router.staker = 0 /\ u.router.frac = i.router.frac
      /\ u.held.lp = lp /\ u.held.lqty = lqty /\ u.held.oracle = i.held.oracle
  BY <1>3, <1>5, Zenon DEF Works, Routers, Helds
<1> HIDE DEF u
<1>8. There(u) = There(w)
  BY <1>2, <1>3, <1>6, <1>7 DEF There
<1> QED
  BY <1>3, <1>4, <1>6, <1>7, <1>8

\* What a fee changes: it is split, and stakers can claim no more than arrives for them.
LEMMA AllocateFields ==
  ASSUME NEW w \in Works, NEW fees \in [total : Nat, remaining : Nat], NEW frac \in lpAllocFracs
  PROVE  LET u == allocateFees(w, fees, frac)
         IN /\ u \in Works
            /\ u.in - There(u) = w.in - There(w) /\ u.held.lqty >= w.held.lqty
            /\ u.staking.total = w.staking.total /\ u.staking.F >= w.staking.F
            /\ w.staking.total * (u.staking.F - w.staking.F)
                 <= (u.held.lqty - w.held.lqty) * PRECISION
<1> DEFINE total == fees.total
           rest == fees.remaining
<1>0. total \in Nat /\ rest \in Nat
  OBVIOUS
<1>1. w.router \in Routers /\ w.held \in Helds /\ w.in \in Nat /\ w.staking \in Stakings
  BY DEF Works
<1>2. /\ w.router.lp \in Nat /\ w.router.staker \in Nat /\ w.router.frac \in 0..100
      /\ w.held.oracle \in 0..oracleTargetBalance /\ w.held.lp \in Nat /\ w.held.lqty \in Nat
      /\ w.staking.F \in Nat /\ w.staking.total \in Nat
  BY <1>1, FeeAssumption DEF Routers, Helds, Stakings
<1>3. CASE total = 0
  BY <1>1, <1>2, <1>3, FeeAssumption DEF allocateFees, There
<1>4. CASE total # 0
  <2> DEFINE toOracle == ToOracle(w, rest)
             toLP == Min({(total * w.router.frac) \div 100, rest - toOracle})
             lp == w.router.lp + toLP
             staker == w.router.staker + (rest - toOracle - toLP)
             oracle == w.held.oracle + toOracle
             in == w.in + rest
             u == [w EXCEPT !.router.lp = lp, !.router.staker = staker,
                            !.held.oracle = oracle, !.in = in]
             v == IF u.router.age >= distributionFreq THEN _distributePending(u) ELSE u
  <2>0. allocateFees(w, fees, frac) = [v EXCEPT !.router.frac = frac]
    BY <1>4, Zenon DEF allocateFees
  <2> HIDE DEF total, rest
  <2>1. toOracle \in 0..rest /\ oracle \in 0..oracleTargetBalance
    <3>1. CASE w.held.oracle >= oracleMinBalance
      BY <1>0, <1>2, <3>1, FeeAssumption DEF ToOracle
    <3>2. CASE ~(w.held.oracle >= oracleMinBalance)
      <4> DEFINE lack == oracleTargetBalance - w.held.oracle
      <4>1. lack \in Nat
        BY <1>2, FeeAssumption
      <4>2. toOracle = IF rest <= lack THEN rest ELSE lack
        BY <1>0, <3>2, <4>1, MinPair DEF ToOracle
      <4> QED
        BY <1>0, <1>2, <4>1, <4>2, FeeAssumption
    <3> QED
      BY <3>1, <3>2
  <2> HIDE DEF toOracle
  <2>2. toLP \in 0..(rest - toOracle)
    <3> DEFINE share == (total * w.router.frac) \div 100
    <3>1. share \in Nat
      <4>1. total * w.router.frac \in Nat
        BY <1>0, <1>2
      <4> QED
        BY <4>1, DivBounds
    <3> HIDE DEF share
    <3>2. toLP = IF share <= rest - toOracle THEN share ELSE rest - toOracle
      BY <1>0, <2>1, <3>1, MinPair DEF share
    <3> QED
      BY <1>0, <2>1, <3>1, <3>2
  <2> HIDE DEF toLP
  <2>3. lp \in Nat /\ staker \in Nat /\ in \in Nat
    BY <1>0, <1>1, <1>2, <2>1, <2>2
  <2>4. lp + staker + oracle = w.router.lp + w.router.staker + w.held.oracle + rest
    <3> DEFINE a == w.router.lp
               b == w.router.staker
               c == w.held.oracle
    <3>1. a \in Int /\ b \in Int /\ c \in Int /\ toOracle \in Int /\ toLP \in Int
      BY <1>2, <2>1, <2>2
    <3> HIDE DEF a, b, c
    <3>2. (a + toLP) + (b + (rest - toOracle - toLP)) + (c + toOracle) = a + b + c + rest
      BY <1>0, <3>1
    <3> QED
      BY <3>2 DEF a, b, c
  <2>5. in = w.in + rest
    OBVIOUS
  <2> HIDE DEF lp, staker, oracle, in
  <2>7. /\ u \in Works /\ u.router.lp = lp /\ u.router.staker = staker
        /\ u.held.oracle = oracle /\ u.held.lp = w.held.lp /\ u.held.lqty = w.held.lqty
        /\ u.in = in /\ u.staking = w.staking
    BY <2>1, <2>3, Zenon DEF Works, Routers, Helds
  <2> HIDE DEF u
  <2>8. There(u) = There(w) + rest /\ There(w) \in Nat
    BY <1>0, <1>2, <2>1, <2>3, <2>4, <2>7 DEF There
  <2>9. /\ v \in Works /\ v.in = u.in /\ There(v) = There(u) /\ v.held.lqty >= w.held.lqty
        /\ v.staking.total = w.staking.total /\ v.staking.F >= w.staking.F
        /\ w.staking.total * (v.staking.F - w.staking.F)
             <= (v.held.lqty - w.held.lqty) * PRECISION
    <3>1. CASE u.router.age >= distributionFreq
      <4> DEFINE p == _distributePending(u)
      <4>1. /\ p \in Works /\ p.in = u.in
            /\ There(p) = There(u) /\ p.held.lqty = u.held.lqty + u.router.staker
            /\ p.staking.total = u.staking.total /\ p.staking.F >= u.staking.F
            /\ u.staking.total * (p.staking.F - u.staking.F) <= u.router.staker * PRECISION
        BY <2>7, DistributeFields
      <4>2. v = p
        BY <3>1
      <4> HIDE DEF p, v
      <4>3. p.held.lqty - w.held.lqty = u.router.staker /\ p.held.lqty >= w.held.lqty
        BY <1>2, <2>3, <2>7, <4>1
      <4> QED
        BY <2>7, <4>1, <4>2, <4>3
    <3>2. CASE ~(u.router.age >= distributionFreq)
      <4>1. v = u
        BY <3>2
      <4> HIDE DEF v
      <4> QED
        BY <1>2, <2>7, <4>1, FeeAssumption
    <3> QED
      BY <3>1, <3>2
  <2> HIDE DEF v
  <2> DEFINE x == [v EXCEPT !.router.frac = frac]
  <2>10. /\ x \in Works /\ x.router.lp = v.router.lp /\ x.router.staker = v.router.staker
         /\ x.held = v.held /\ x.staking = v.staking /\ x.in = v.in
    BY <2>9, Zenon DEF Works, Routers
  <2> HIDE DEF x
  <2>11. There(x) = There(v)
    BY <2>10 DEF There
  <2>12. x.in - There(x) = w.in - There(w)
    BY <1>0, <1>1, <2>5, <2>7, <2>8, <2>9, <2>10, <2>11
  <2>13. allocateFees(w, fees, frac) = x
    BY <2>0 DEF x
  <2> QED
    BY <2>9, <2>10, <2>12, <2>13
<1> QED
  BY <1>3, <1>4

-----------------------------------------------------------------------------
(***************************************************************************)
(* The inductive invariant.  A staker's gain is rounded down when it is    *)
(* paid, and a distribution can raise it by more than its share of whole   *)
(* units; what is preserved is the bound on what is earned before the      *)
(* division.                                                               *)
(***************************************************************************)

Earned(stk, F) == [s \in Stakers |-> stk[s].value * (F - stk[s].F)]

Values(stk) == [s \in Stakers |-> stk[s].value]

EarningsHeld ==
  SumFunctionOnSet(Earned(stakes, staking.F), Stakers) <= held.lqty * PRECISION

FeeInv == FeeTypeOK /\ InterestMintedOnce /\ EarningsHeld

LEMMA NowFields ==
  ASSUME FeeTypeOK
  PROVE  /\ Now \in Works /\ Now.router = router /\ Now.held = held /\ Now.staking = staking
         /\ Now.in = flow.in
<1>1. router \in Routers /\ held \in Helds /\ staking \in Stakings /\ flow.in \in Nat
  BY DEF FeeTypeOK, Routers, Helds, Stakings
<1> QED
  BY <1>1, Zenon DEF Now, Works

\* The stakes of a state in which everybody's snapshot is no later than F.
Stks(F) == [Stakers -> [value : Nat, F : 0..F]]

\* A distribution: F grows, and what is earned with it by no more than the units staked.
LEMMA EarnedGrows ==
  ASSUME NEW F \in Nat, NEW G \in Nat, G >= F, NEW stk \in Stks(F)
  PROVE  /\ SumFunctionOnSet(Earned(stk, G), Stakers) =
              SumFunctionOnSet(Earned(stk, F), Stakers)
                + (G - F) * SumFunctionOnSet(Values(stk), Stakers)
         /\ SumFunctionOnSet(Earned(stk, F), Stakers) \in Nat
         /\ SumFunctionOnSet(Values(stk), Stakers) \in Nat
         /\ stk \in Stks(G)
<1>0. IsFiniteSet(Stakers)
  BY FeeAssumption
<1>1. ASSUME NEW s \in Stakers
      PROVE  stk[s].value \in Nat /\ stk[s].F \in 0..F
  BY DEF Stks
<1>2. ASSUME NEW s \in Stakers
      PROVE  /\ Values(stk)[s] \in Nat /\ Earned(stk, F)[s] \in Nat
             /\ Earned(stk, G)[s] = Earned(stk, F)[s] + (G - F) * Values(stk)[s]
  <2> DEFINE v == stk[s].value
             b == stk[s].F
  <2>1. v \in Nat /\ b \in 0..F
    BY <1>1
  <2>2. /\ Values(stk)[s] = v /\ Earned(stk, F)[s] = v * (F - b)
        /\ Earned(stk, G)[s] = v * (G - b)
    BY DEF Values, Earned
  <2> HIDE DEF v, b
  <2>3. F - b \in Nat
    BY <2>1
  <2>4. v * (F - b) \in Nat
    BY <2>1, <2>3
  <2>5. v * (G - b) = v * (F - b) + (G - F) * v
    BY <2>1
  <2> QED
    BY <2>1, <2>2, <2>4, <2>5
<1>3. SumFunctionOnSet(Earned(stk, G), Stakers) =
        SumFunctionOnSet(Earned(stk, F), Stakers)
          + (G - F) * SumFunctionOnSet(Values(stk), Stakers)
  <2>1. \A s \in Stakers : /\ Earned(stk, F)[s] \in Int /\ Values(stk)[s] \in Int
                           /\ Earned(stk, G)[s] = Earned(stk, F)[s] + (G - F) * Values(stk)[s]
    BY <1>2
  <2>2. G - F \in Int
    OBVIOUS
  <2> QED
    BY <1>0, <2>1, <2>2, SumLinear
<1>4. /\ SumFunctionOnSet(Earned(stk, F), Stakers) \in Nat
      /\ SumFunctionOnSet(Values(stk), Stakers) \in Nat
  BY <1>0, <1>2, SumNat
<1>5. stk \in Stks(G)
  BY DEF Stks
<1> QED
  BY <1>3, <1>4, <1>5

\* What allocateFees leaves satisfies the invariant, with the stakes as they were.
LEMMA AllocatedHeld ==
  ASSUME FeeInv, NEW w \in Works, w.staking.total = staking.total, w.staking.F >= staking.F,
         w.held.lqty >= held.lqty,
         staking.total * (w.staking.F - staking.F) <= (w.held.lqty - held.lqty) * PRECISION
  PROVE  /\ stakes \in Stks(w.staking.F)
         /\ SumFunctionOnSet(Earned(stakes, w.staking.F), Stakers) \in Nat
         /\ SumFunctionOnSet(Earned(stakes, w.staking.F), Stakers) <= w.held.lqty * PRECISION
<1> DEFINE F == staking.F
           G == w.staking.F
           E == SumFunctionOnSet(Earned(stakes, F), Stakers)
           V == SumFunctionOnSet(Values(stakes), Stakers)
<1>1. F \in Nat /\ G \in Nat /\ staking.total \in Nat /\ held.lqty \in Nat /\ w.held.lqty \in Nat
  BY DEF FeeInv, FeeTypeOK, Works, Stakings, Helds
<1>2. stakes \in Stks(F) /\ staking.total = V
  BY DEF FeeInv, FeeTypeOK, Stks, Values
<1>3. /\ SumFunctionOnSet(Earned(stakes, G), Stakers) = E + (G - F) * V
      /\ E \in Nat /\ V \in Nat /\ stakes \in Stks(G)
  <2> HIDE DEF F, G
  <2> QED
    BY <1>1, <1>2, EarnedGrows DEF F, G
<1>4. E <= held.lqty * PRECISION
  BY DEF FeeInv, EarningsHeld
<1> HIDE DEF E, V
<1>5. V * (G - F) <= (w.held.lqty - held.lqty) * PRECISION
  BY <1>2
<1>6. (w.held.lqty - held.lqty) * PRECISION = w.held.lqty * PRECISION - held.lqty * PRECISION
  BY <1>1, FeeAssumption
<1>7. (G - F) * V = V * (G - F) /\ V * (G - F) \in Nat
  BY <1>1, <1>3
<1>8. w.held.lqty * PRECISION \in Nat /\ held.lqty * PRECISION \in Nat
  BY <1>1, FeeAssumption
<1>9. /\ E + (G - F) * V <= w.held.lqty * PRECISION
      /\ E + (G - F) * V \in Nat
  <2> HIDE DEF F, G
  <2> QED
    BY <1>1, <1>3, <1>4, <1>5, <1>6, <1>7, <1>8
<1> QED
  BY <1>3, <1>9

\* w is where a transaction stands after its drip.
Dripped(w) ==
  /\ w \in Works /\ w.in - There(w) = Now.in - There(Now)
  /\ w.staking.total = staking.total /\ w.staking.F >= staking.F /\ w.held.lqty >= held.lqty
  /\ staking.total * (w.staking.F - staking.F) <= (w.held.lqty - held.lqty) * PRECISION

LEMMA AllocateDrips ==
  ASSUME FeeTypeOK, NEW fees \in Interest, NEW frac \in lpAllocFracs
  PROVE  Dripped(allocateFees(Now, fees, frac))
<1>1. fees \in [total : Nat, remaining : Nat]
  BY FeeAssumption
<1>2. Now \in Works /\ Now.held = held /\ Now.staking = staking
  BY NowFields
<1> QED
  BY <1>1, <1>2, AllocateFields DEF Dripped

\* What came in, with what is there and what went out.
LEMMA MintedOnce ==
  ASSUME FeeTypeOK
  PROVE  InterestMintedOnce <=> Now.in - There(Now) = flow.out
<1>1. /\ router.lp \in Nat /\ router.staker \in Nat /\ held.oracle \in Nat /\ held.lp \in Nat
      /\ held.lqty \in Nat /\ flow.in \in Nat /\ flow.out \in Nat
  BY FeeAssumption DEF FeeTypeOK
<1> QED
  BY <1>1, NowFields DEF InterestMintedOnce, There

\* What a staker is paid for its old stake is no more than what is earned with it.
LEMMA PaidStep ==
  ASSUME FeeInv, NEW w, Dripped(w), NEW s \in Stakers, NEW delta \in Int,
         stakes[s].value + delta \in Nat, txs' \in 0..MaxFees, Paid(w, s, delta)
  PROVE  FeeInv'
<1> DEFINE G == w.staking.F
           v == stakes[s].value
           b == stakes[s].F
           new == stakes[s].value + delta
           gain == _getPendingLUSDGain(w, stakes[s])
           E == SumFunctionOnSet(Earned(stakes, G), Stakers)
<1>0. IsFiniteSet(Stakers) /\ PRECISION \in Nat \ {0}
  BY FeeAssumption
<1>1. /\ w \in Works /\ w.router \in Routers /\ w.held \in Helds /\ w.staking \in Stakings
      /\ w.in \in Nat /\ G \in Nat /\ w.held.lqty \in Nat
  BY DEF Dripped, Works, Helds, Stakings
<1>2. stakes \in Stks(G) /\ E \in Nat /\ E <= w.held.lqty * PRECISION
  BY <1>1, AllocatedHeld DEF Dripped
<1>3. v \in Nat /\ b \in 0..G /\ new \in Nat
  BY <1>2 DEF Stks
<1>4. gain \in Nat /\ PRECISION * gain <= v * (G - b) /\ v * (G - b) \in Nat
  <2>1. gain = (v * (G - b)) \div PRECISION
    BY DEF _getPendingLUSDGain
  <2>2. G - b \in Nat
    BY <1>1, <1>3
  <2>3. v * (G - b) \in Nat
    BY <1>3, <2>2
  <2> HIDE DEF gain, v, G, b
  <2> QED
    BY <1>0, <2>1, <2>3, DivBounds
<1>5. gain <= w.held.lqty /\ router' = w.router /\ held' = [w.held EXCEPT !.lqty = @ - gain]
  BY DEF Paid
<1>6. /\ staking' = [w.staking EXCEPT !.total = @ + delta]
      /\ stakes' = [stakes EXCEPT ![s] = [value |-> new, F |-> G]]
      /\ flow' = [in |-> w.in, out |-> flow.out + gain]
  BY DEF Paid, _updateUserSnapshots
<1> HIDE DEF gain
<1>7. stakes' \in Stks(G) /\ stakes'[s] = [value |-> new, F |-> G]
      /\ \A t \in Stakers \ {s} : stakes'[t] = stakes[t]
  BY <1>1, <1>2, <1>3, <1>6 DEF Stks
<1>8. /\ staking'.F = G /\ staking'.total = w.staking.total + delta
      /\ held'.lqty = w.held.lqty - gain /\ held'.oracle = w.held.oracle /\ held'.lp = w.held.lp
      /\ held' \in Helds /\ flow'.in = w.in /\ flow'.out = flow.out + gain
  BY <1>1, <1>4, <1>5, <1>6 DEF Stakings, Helds
<1>9. staking'.total = SumFunctionOnSet(Values(stakes'), Stakers)
  <2>1. \A t \in Stakers : Values(stakes)[t] \in Int /\ Values(stakes')[t] \in Int
    BY <1>2, <1>7 DEF Values, Stks
  <2>2. \A t \in Stakers \ {s} : Values(stakes')[t] = Values(stakes)[t]
    BY <1>7 DEF Values
  <2>3. Values(stakes)[s] = v /\ Values(stakes')[s] = new
    BY <1>7 DEF Values
  <2>4. SumFunctionOnSet(Values(stakes'), Stakers) =
          SumFunctionOnSet(Values(stakes), Stakers) - v + new
    <3> DEFINE f == Values(stakes)
               g == Values(stakes')
    <3>1. /\ \A t \in Stakers : f[t] \in Int /\ g[t] \in Int
          /\ \A t \in Stakers \ {s} : g[t] = f[t]
      BY <2>1, <2>2
    <3> HIDE DEF f, g
    <3>2. SumFunctionOnSet(g, Stakers) = SumFunctionOnSet(f, Stakers) - f[s] + g[s]
      BY <1>0, <3>1, SumUpdate
    <3> QED
      BY <2>3, <3>2 DEF f, g
  <2>5. w.staking.total = SumFunctionOnSet(Values(stakes), Stakers)
    BY DEF Dripped, FeeInv, FeeTypeOK, Values
  <2>6. w.staking.total \in Nat
    BY <1>1 DEF Stakings
  <2> QED
    BY <1>3, <1>8, <2>4, <2>5, <2>6
<1>10. staking' \in Stakings
  <2>1. SumFunctionOnSet(Values(stakes'), Stakers) \in Nat
    BY <1>0, <1>7, SumNat DEF Values, Stks
  <2>2. w.staking.total + delta \in Nat
    BY <1>8, <1>9, <2>1
  <2> QED
    BY <1>1, <1>6, <2>2 DEF Stakings
<1>11. SumFunctionOnSet(Earned(stakes', G), Stakers) = E - v * (G - b)
  <2>1. \A t \in Stakers : Earned(stakes, G)[t] \in Int /\ Earned(stakes', G)[t] \in Int
    <3> SUFFICES ASSUME NEW t \in Stakers
                 PROVE  Earned(stakes, G)[t] \in Int /\ Earned(stakes', G)[t] \in Int
      OBVIOUS
    <3>1. /\ stakes[t].value \in Nat /\ stakes[t].F \in Nat
          /\ stakes'[t].value \in Nat /\ stakes'[t].F \in Nat
      BY <1>2, <1>7 DEF Stks
    <3>2. /\ stakes[t].value * (G - stakes[t].F) \in Int
          /\ stakes'[t].value * (G - stakes'[t].F) \in Int
      BY <1>1, <3>1
    <3> QED
      BY <3>2 DEF Earned
  <2>2. \A t \in Stakers \ {s} : Earned(stakes', G)[t] = Earned(stakes, G)[t]
    BY <1>7 DEF Earned
  <2>3. Earned(stakes, G)[s] = v * (G - b) /\ Earned(stakes', G)[s] = 0
    <3>1. new * (G - G) = 0
      BY <1>1, <1>3
    <3> QED
      BY <1>7, <3>1 DEF Earned
  <2>4. SumFunctionOnSet(Earned(stakes', G), Stakers) = E - v * (G - b) + 0
    <3> DEFINE f == Earned(stakes, G)
               g == Earned(stakes', G)
    <3>1. /\ \A t \in Stakers : f[t] \in Int /\ g[t] \in Int
          /\ \A t \in Stakers \ {s} : g[t] = f[t]
      BY <2>1, <2>2
    <3> HIDE DEF f, g
    <3>2. SumFunctionOnSet(g, Stakers) = SumFunctionOnSet(f, Stakers) - f[s] + g[s]
      BY <1>0, <3>1, SumUpdate
    <3> QED
      BY <2>3, <3>2 DEF f, g
  <2> QED
    BY <1>2, <1>4, <2>4
<1>12. EarningsHeld'
  <2>1. (w.held.lqty - gain) * PRECISION = w.held.lqty * PRECISION - PRECISION * gain
    BY <1>0, <1>1, <1>4
  <2>2. w.held.lqty * PRECISION \in Nat /\ PRECISION * gain \in Nat
    BY <1>0, <1>1, <1>4
  <2> HIDE DEF v, b, G, E
  <2>3. E - v * (G - b) <= (w.held.lqty - gain) * PRECISION
    BY <1>2, <1>4, <2>1, <2>2
  <2>4. SumFunctionOnSet(Earned(stakes', staking'.F), Stakers) <= held'.lqty * PRECISION
    BY <1>8, <1>11, <2>3
  <2>5. Earned(stakes, staking.F)' = Earned(stakes', staking'.F)
    BY DEF Earned
  <2> QED
    BY <2>4, <2>5 DEF EarningsHeld
<1>13. FeeTypeOK'
  <2>1. flow' \in [in : Nat, out : Nat]
    BY <1>1, <1>4, <1>6 DEF FeeInv, FeeTypeOK
  <2>2. stakes' \in [Stakers -> [value : Nat, F : 0..staking'.F]]
    BY <1>7, <1>8 DEF Stks
  <2> QED
    BY <1>1, <1>5, <1>8, <1>9, <1>10, <2>1, <2>2 DEF FeeTypeOK, Routers, Helds, Stakings, Values
<1>14. InterestMintedOnce'
  <2>1. w.in - There(w) = flow.out
    BY MintedOnce DEF FeeInv, Dripped
  <2>2. /\ w.router.lp \in Nat /\ w.router.staker \in Nat /\ w.held.oracle \in Nat
        /\ w.held.lp \in Nat /\ flow.out \in Nat
    BY <1>1, FeeAssumption DEF Routers, Helds, FeeInv, FeeTypeOK
  <2> QED
    BY <1>1, <1>4, <1>5, <1>8, <2>1, <2>2 DEF InterestMintedOnce, There
<1> QED
  BY <1>12, <1>13, <1>14 DEF FeeInv

LEMMA InitFees == FeeInit => FeeInv
<1> SUFFICES ASSUME FeeInit
             PROVE  FeeInv
  OBVIOUS
<1>0. IsFiniteSet(Stakers) /\ PRECISION \in Nat
  BY FeeAssumption
<1>1. /\ router.lp = 0 /\ router.staker = 0 /\ held.oracle = 0 /\ held.lp = 0 /\ held.lqty = 0
      /\ staking.F = 0 /\ staking.total = 0 /\ flow.in = 0 /\ flow.out = 0
  BY DEF FeeInit
<1>2. SumFunctionOnSet(Values(stakes), Stakers) = 0
  <2>1. \A s \in Stakers : Values(stakes)[s] = 0
    BY DEF FeeInit, Values
  <2> QED
    BY <1>0, <2>1, SumZero
<1>3. SumFunctionOnSet(Earned(stakes, staking.F), Stakers) = 0
  <2>1. \A s \in Stakers : Earned(stakes, staking.F)[s] = 0
    BY <1>1 DEF FeeInit, Earned
  <2> QED
    BY <1>0, <2>1, SumZero
<1>4. FeeTypeOK
  BY <1>1, <1>2, FeeAssumption DEF FeeInit, FeeTypeOK, Values
<1>5. InterestMintedOnce
  BY <1>1 DEF InterestMintedOnce
<1>6. EarningsHeld
  BY <1>0, <1>1, <1>3 DEF EarningsHeld
<1> QED
  BY <1>4, <1>5, <1>6 DEF FeeInv

LEMMA FeeStep ==
  ASSUME FeeInv, [FeeNext]_feeVars
  PROVE  FeeInv'
<1>0. ASSUME FeeTransaction
      PROVE  txs' \in 0..MaxFees
  <2>1. txs \in 0..MaxFees /\ MaxFees \in Nat
    BY FeeAssumption DEF FeeInv, FeeTypeOK
  <2> QED
    BY <1>0, <2>1 DEF FeeTransaction
<1>1. CASE Stake
  <2>1. PICK s \in Stakers, amount \in Stakes, fees \in Interest, frac \in lpAllocFracs :
          stake(s, amount, allocateFees(Now, fees, frac))
    BY <1>1 DEF Stake
  <2>2. amount \in Int /\ stakes[s].value + amount \in Nat
    BY FeeAssumption DEF FeeInv, FeeTypeOK
  <2>3. Dripped(allocateFees(Now, fees, frac))
    BY AllocateDrips DEF FeeInv
  <2>4. Paid(allocateFees(Now, fees, frac), s, amount) /\ txs' \in 0..MaxFees
    BY <1>0, <1>1, <2>1 DEF stake, Stake
  <2> QED
    BY <2>2, <2>3, <2>4, PaidStep
<1>2. CASE Unstake
  <2>1. PICK s \in Stakers, amount \in Stakes, fees \in Interest, frac \in lpAllocFracs :
          unstake(s, amount, allocateFees(Now, fees, frac))
    BY <1>2 DEF Unstake
  <2> DEFINE less == Min({amount, stakes[s].value})
  <2>2. amount \in Nat /\ stakes[s].value \in Nat
    BY FeeAssumption DEF FeeInv, FeeTypeOK
  <2>3. less = IF amount <= stakes[s].value THEN amount ELSE stakes[s].value
    BY <2>2, MinPair
  <2>4. Dripped(allocateFees(Now, fees, frac))
    BY AllocateDrips DEF FeeInv
  <2>5. Paid(allocateFees(Now, fees, frac), s, -less) /\ txs' \in 0..MaxFees
    BY <1>0, <1>2, <2>1 DEF unstake, Unstake
  <2> HIDE DEF less
  <2>6. -less \in Int /\ stakes[s].value + (-less) \in Nat
    BY <2>2, <2>3
  <2> QED
    BY <2>4, <2>5, <2>6, PaidStep
<1>3. CASE PassOn
  <2>1. PICK fees \in {i \in Interest : i.total > 0}, frac \in lpAllocFracs :
          LET w == allocateFees(Now, fees, frac)
          IN /\ router' = w.router /\ held' = w.held /\ staking' = w.staking
             /\ flow' = [flow EXCEPT !.in = w.in]
    BY <1>3 DEF PassOn
  <2> DEFINE w == allocateFees(Now, fees, frac)
  <2>2. Dripped(w)
    BY AllocateDrips DEF FeeInv
  <2>3. /\ router' = w.router /\ held' = w.held /\ staking' = w.staking
        /\ flow' = [flow EXCEPT !.in = w.in] /\ stakes' = stakes /\ txs' \in 0..MaxFees
    BY <1>0, <1>3, <2>1 DEF PassOn
  <2> HIDE DEF w
  <2>4. /\ stakes \in Stks(w.staking.F)
        /\ SumFunctionOnSet(Earned(stakes, w.staking.F), Stakers) <= w.held.lqty * PRECISION
    BY <2>2, AllocatedHeld DEF Dripped
  <2>5. /\ w.router \in Routers /\ w.held \in Helds /\ w.staking \in Stakings /\ w.in \in Nat
        /\ w.staking.total = staking.total
    BY <2>2 DEF Dripped, Works
  <2>6. flow \in [in : Nat, out : Nat]
    BY DEF FeeInv, FeeTypeOK
  <2>7. flow' \in [in : Nat, out : Nat] /\ flow'.in = w.in /\ flow'.out = flow.out
    BY <2>3, <2>5, <2>6
  <2>8. FeeTypeOK'
    <3>1. stakes' \in [Stakers -> [value : Nat, F : 0..staking'.F]]
      BY <2>3, <2>4 DEF Stks
    <3>2. staking'.total = SumFunctionOnSet([s \in Stakers |-> stakes'[s].value], Stakers)
      BY <2>3, <2>5 DEF FeeInv, FeeTypeOK
    <3> QED
      BY <2>3, <2>5, <2>7, <3>1, <3>2 DEF FeeTypeOK, Routers, Helds, Stakings
  <2>9. InterestMintedOnce'
    <3>1. w.in - There(w) = flow.out
      BY <2>2, MintedOnce DEF FeeInv, Dripped
    <3>2. /\ w.router.lp \in Nat /\ w.router.staker \in Nat /\ w.held.oracle \in Nat
          /\ w.held.lp \in Nat /\ w.held.lqty \in Nat /\ flow.out \in Nat
      BY <2>5, <2>6, FeeAssumption DEF Routers, Helds
    <3> QED
      BY <2>3, <2>5, <2>7, <3>1, <3>2 DEF InterestMintedOnce, There
  <2>10. EarningsHeld'
    BY <2>3, <2>4 DEF EarningsHeld, Earned
  <2> QED
    BY <2>8, <2>9, <2>10 DEF FeeInv
<1>4. CASE OraclePays
  <2>1. held \in Helds /\ flow \in [in : Nat, out : Nat]
    BY DEF FeeInv, FeeTypeOK, Helds
  <2>0. PICK amount \in 1..held.oracle : /\ held' = [held EXCEPT !.oracle = @ - amount]
                                         /\ flow' = [flow EXCEPT !.out = @ + amount]
    BY <1>4 DEF OraclePays
  <2>2. /\ held' \in Helds /\ held'.lp = held.lp /\ held'.lqty = held.lqty
        /\ held'.oracle = held.oracle - amount
        /\ flow' \in [in : Nat, out : Nat] /\ flow'.in = flow.in
        /\ flow'.out = flow.out + amount
    BY <2>0, <2>1, FeeAssumption DEF Helds
  <2>3. /\ router' = router /\ staking' = staking /\ stakes' = stakes /\ txs' = txs
    BY <1>4 DEF OraclePays
  <2>4. FeeTypeOK'
    BY <2>2, <2>3 DEF FeeInv, FeeTypeOK, Helds
  <2>5. InterestMintedOnce'
    <3>1. /\ router.lp \in Nat /\ router.staker \in Nat /\ held.oracle \in Nat
          /\ held.lp \in Nat /\ held.lqty \in Nat /\ flow.out \in Nat
      BY <2>1, FeeAssumption DEF FeeInv, FeeTypeOK, Helds
    <3> QED
      BY <2>2, <2>3, <3>1 DEF FeeInv, InterestMintedOnce
  <2>6. EarningsHeld'
    BY <2>2, <2>3 DEF FeeInv, EarningsHeld, Earned
  <2> QED
    BY <2>4, <2>5, <2>6 DEF FeeInv
<1>5. CASE Wait
  <2>1. router \in Routers
    BY DEF FeeInv, FeeTypeOK, Routers
  <2>2. router' \in Routers /\ router'.lp = router.lp /\ router'.staker = router.staker
    BY <1>5, <2>1, FeeAssumption DEF Wait, Routers
  <2>3. held' = held /\ staking' = staking /\ stakes' = stakes /\ flow' = flow /\ txs' = txs
    BY <1>5 DEF Wait
  <2> QED
    BY <2>2, <2>3 DEF FeeInv, FeeTypeOK, InterestMintedOnce, EarningsHeld, Earned, Routers
<1>6. CASE UNCHANGED feeVars
  BY <1>6 DEF feeVars, FeeInv, FeeTypeOK, InterestMintedOnce, EarningsHeld, Earned
<1> QED
  BY <1>1, <1>2, <1>3, <1>4, <1>5, <1>6 DEF FeeNext

LEMMA EarningsCover == FeeInv => StakersCovered
<1> SUFFICES ASSUME FeeInv
             PROVE  StakersCovered
  OBVIOUS
<1> DEFINE gains == [s \in Stakers |-> _getPendingLUSDGain(Now, stakes[s])]
           total == SumFunctionOnSet(gains, Stakers)
<1>0. IsFiniteSet(Stakers) /\ PRECISION \in Nat \ {0}
  BY FeeAssumption
<1>1. ASSUME NEW s \in Stakers
      PROVE  /\ gains[s] \in Int /\ Earned(stakes, staking.F)[s] \in Int
             /\ PRECISION * gains[s] <= Earned(stakes, staking.F)[s]
  <2> DEFINE e == stakes[s].value * (staking.F - stakes[s].F)
  <2>1. stakes[s].value \in Nat /\ staking.F - stakes[s].F \in Nat
    BY DEF FeeInv, FeeTypeOK
  <2>2. e \in Nat
    BY <2>1
  <2>3. gains[s] = e \div PRECISION
    BY NowFields DEF FeeInv, _getPendingLUSDGain
  <2>4. Earned(stakes, staking.F)[s] = e
    BY DEF Earned
  <2> HIDE DEF e, gains
  <2> QED
    BY <1>0, <2>2, <2>3, <2>4, DivBounds
<1>2. PRECISION * total <= SumFunctionOnSet(Earned(stakes, staking.F), Stakers)
  <2> DEFINE f == Earned(stakes, staking.F)
  <2>1. \A s \in Stakers : f[s] \in Int /\ gains[s] \in Int /\ PRECISION * gains[s] <= f[s]
    BY <1>1
  <2> HIDE DEF f, gains
  <2>2. PRECISION \in Int
    BY <1>0
  <2>3. PRECISION * SumFunctionOnSet(gains, Stakers) <= SumFunctionOnSet(f, Stakers)
    BY <1>0, <2>1, <2>2, SumMonotone
  <2> QED
    BY <2>3 DEF f
<1>3. total \in Int
  <2> HIDE DEF gains
  <2> QED
    BY <1>0, <1>1, SumRemove
<1>4. held.lqty \in Nat
  BY DEF FeeInv, FeeTypeOK
<1>5. SumFunctionOnSet(Earned(stakes, staking.F), Stakers) \in Int
  BY <1>0, <1>1, SumRemove
<1> HIDE DEF total
<1>6. PRECISION * total <= PRECISION * held.lqty
  BY <1>0, <1>2, <1>3, <1>4, <1>5 DEF FeeInv, EarningsHeld
<1>7. total <= held.lqty
  BY <1>0, <1>3, <1>4, <1>6, CancelFactor
<1> QED
  BY <1>7 DEF StakersCovered, total

(***************************************************************************)
(* The types of the fees' books, and totalLQTYStaked, which LQTYStaking    *)
(* only ever adjusts by differences, is the sum of the stakes.             *)
(***************************************************************************)
THEOREM FeesTyped == FeeSpec => []FeeTypeOK
BY InitFees, FeeStep, PTL DEF FeeSpec, FeeInv

(***************************************************************************)
(* Interest is minted once, whatever order deposits, payouts of the oracle *)
(* and distributions come in.                                              *)
(***************************************************************************)
THEOREM InterestIsMintedOnce == FeeSpec => []InterestMintedOnce
<1>1. FeeInv => InterestMintedOnce
  BY DEF FeeInv
<1> QED
  BY <1>1, InitFees, FeeStep, PTL DEF FeeSpec

(***************************************************************************)
(* LQTYStaking can pay every staker at once, at any precision and with any *)
(* distribution inside a stake or an unstake.                              *)
(***************************************************************************)
THEOREM StakersAreCovered == FeeSpec => []StakersCovered
BY InitFees, FeeStep, EarningsCover, PTL DEF FeeSpec

-----------------------------------------------------------------------------
(***************************************************************************)
(* The StabilityPool                                                       *)
(***************************************************************************)

Pools == [P : Nat, scale : 0..MaxScale, S : [0..MaxScale + 1 -> Nat],
          G : [0..MaxScale + 1 -> Nat], total : Nat, pending : Nat, balance : Nat,
          CT : Nat, lqtyError : Nat, collError : Nat, lossError : Nat, gainError : Nat]

\* The pool's own books: P is above the bound of its scale, and what is held and what is
\* promised are what is owed.
PoolBooks(s) == s \in Pools /\ s.P >= SCALE_FACTOR /\ s.balance + s.pending = s.total

DepositRecords == [value : Nat, tag : Users \cup {ZeroAddress}, P : Nat, S : Nat, G : Nat, scale : Nat]

StakeRecords == [value : Nat, P : Nat, G : Nat, scale : Nat]

\* A deposit was made at a scale the pool has reached, with the sum of that time.
DepositBooks(s, d) ==
  /\ d \in DepositRecords
  /\ d # NoDeposit =>
       /\ d.value > 0 /\ d.P >= SCALE_FACTOR /\ d.scale <= s.scale /\ d.S <= s.S[d.scale]
       /\ d.tag # ZeroAddress => frontEnds[d.tag] # Unregistered

StakeBooks(s, k) ==
  /\ k \in StakeRecords
  /\ k # NoStake => k.value > 0 /\ k.P >= SCALE_FACTOR /\ k.scale <= s.scale

\* The inductive invariant.
PoolInv ==
  /\ PoolBooks(sp)
  /\ DOMAIN deposits = Users /\ \A u \in Users : DepositBooks(sp, deposits[u])
  /\ DOMAIN frontEndStakes = Users \cup {ZeroAddress}
  /\ \A f \in Users \cup {ZeroAddress} : StakeBooks(sp, frontEndStakes[f])
  /\ frontEnds \in [Users -> KickbackRates \cup {Unregistered}]
  /\ ops \in 0..MaxOps

LEMMA PoolConstants ==
  /\ SCALE_FACTOR \in Nat \ {0, 1} /\ DECIMAL_PRECISION \in Nat \ {0} /\ MIN_LUSD_IN_SP \in Nat \ {0}
  /\ ZeroAddress \notin Users /\ MaxScale \in Nat /\ MaxOps \in Nat
  /\ Amounts \subseteq Nat /\ Debts \subseteq Nat /\ Colls \subseteq Nat /\ Fees \subseteq Nat
  /\ Issuances \subseteq Nat
<1>1. SCALE_FACTOR \in Nat \ {0, 1} /\ DECIMAL_PRECISION = SCALE_FACTOR * SCALE_FACTOR
  BY PoolAssumption
<1>2. SCALE_FACTOR * SCALE_FACTOR \in Nat \ {0}
  BY <1>1
<1> QED
  BY <1>1, <1>2, PoolAssumption

-----------------------------------------------------------------------------
\* A distribution of interest raises P, and what is owed and promised alike.
LEMMA DistributeBooks ==
  ASSUME NEW s, PoolBooks(s), NEW fees \in Nat, fees > 0 => s.total > 0
  PROVE  LET n == distributeFees(s, fees)
         IN /\ PoolBooks(n) /\ n.total = s.total + fees /\ n.scale = s.scale
            /\ n.S = s.S /\ n.G = s.G /\ n.CT = s.CT /\ n.lossError = s.lossError
<1>0. /\ s \in Pools /\ s.P \in Nat /\ s.total \in Nat /\ s.pending \in Nat /\ s.balance \in Nat
      /\ s.gainError \in Nat
  BY DEF PoolBooks, Pools
<1>1. CASE fees = 0
  BY <1>0, <1>1 DEF distributeFees
<1>2. CASE fees # 0
  <2> DEFINE numerator == fees * DECIMAL_PRECISION + s.gainError
             perUnit == numerator \div s.total
             P == (s.P * (DECIMAL_PRECISION + perUnit)) \div DECIMAL_PRECISION
             error == numerator - perUnit * s.total
             total == s.total + fees
             pending == s.pending + fees
             n == [s EXCEPT !.gainError = error, !.total = total, !.pending = pending, !.P = P]
  <2>1. distributeFees(s, fees) = n
    BY <1>2, Zenon DEF distributeFees
  <2>2. numerator \in Nat /\ s.total \in Nat \ {0}
    <3>1. fees * DECIMAL_PRECISION \in Nat
      BY PoolConstants
    <3> QED
      BY <1>0, <1>2, <3>1
  <2> HIDE DEF numerator
  <2>3. perUnit \in Nat /\ s.total * perUnit <= numerator
    BY <2>2, DivBounds
  <2>4. error \in Nat
    <3>1. s.total * perUnit = perUnit * s.total
      BY <2>2, <2>3
    <3>2. perUnit * s.total \in Nat
      BY <2>2, <2>3
    <3> QED
      BY <2>2, <2>3, <3>1, <3>2
  <2> HIDE DEF perUnit, error
  <2>5. P \in Nat /\ P >= s.P
    <3> DEFINE a == s.P * (DECIMAL_PRECISION + perUnit)
    <3>1. a \in Nat /\ s.P * perUnit \in Nat
      BY <1>0, <2>3, PoolConstants
    <3>2. a = DECIMAL_PRECISION * s.P + s.P * perUnit
      BY <1>0, <2>3, PoolConstants
    <3>3. DECIMAL_PRECISION * s.P \in Nat
      BY <1>0, PoolConstants
    <3> HIDE DEF a
    <3>4. DECIMAL_PRECISION * s.P <= a
      BY <3>1, <3>2, <3>3
    <3>5. a \div DECIMAL_PRECISION \in Nat /\ s.P <= a \div DECIMAL_PRECISION
      BY <1>0, <3>1, <3>4, PoolConstants, DivBounds, DivAtLeast
    <3> QED
      BY <3>5 DEF a
  <2> HIDE DEF P
  <2>8. total \in Nat /\ pending \in Nat
    BY <1>0
  <2> HIDE DEF total, pending
  <2>6. /\ n \in Pools /\ n.P = P /\ n.total = total /\ n.pending = pending
        /\ n.balance = s.balance /\ n.scale = s.scale /\ n.S = s.S /\ n.G = s.G /\ n.CT = s.CT
        /\ n.lossError = s.lossError
    BY <1>0, <2>4, <2>5, <2>8 DEF Pools
  <2> HIDE DEF n
  <2>7. n.P >= SCALE_FACTOR /\ n.balance + n.pending = n.total
    BY <1>0, <2>5, <2>6, PoolConstants DEF PoolBooks, total, pending
  <2> QED
    BY <2>1, <2>6, <2>7 DEF PoolBooks, total
<1> QED
  BY <1>1, <1>2

LEMMA MintBooks ==
  ASSUME NEW s, PoolBooks(s)
  PROVE  LET n == _mintPendingDeposits(s)
         IN /\ PoolBooks(n) /\ n.total = s.total /\ n.pending = 0 /\ n.scale = s.scale
            /\ n.S = s.S /\ n.G = s.G /\ n.CT = s.CT /\ n.lossError = s.lossError
<1>0. s \in Pools /\ s.pending \in Nat /\ s.balance \in Nat /\ s.total \in Nat /\ s.P \in Nat
  BY DEF PoolBooks, Pools
<1> DEFINE balance == s.balance + s.pending
           n == [s EXCEPT !.balance = balance, !.pending = 0]
<1>1. _mintPendingDeposits(s) = n
  BY Zenon DEF _mintPendingDeposits
<1>2. /\ n \in Pools /\ n.P = s.P /\ n.total = s.total /\ n.pending = 0
      /\ n.balance = balance
      /\ n.scale = s.scale /\ n.S = s.S /\ n.G = s.G /\ n.CT = s.CT /\ n.lossError = s.lossError
  <2>1. balance \in Nat
    BY <1>0
  <2> HIDE DEF balance
  <2> QED
    BY <1>0, <2>1 DEF Pools
<1> HIDE DEF n
<1>3. n.balance + n.pending = n.total
  BY <1>0, <1>2 DEF PoolBooks, balance
<1> QED
  BY <1>1, <1>2, <1>3 DEF PoolBooks

\* The sum of LQTY grows at the current scale only.
LEMMA IssueBooks ==
  ASSUME NEW s, PoolBooks(s), NEW issuance \in Nat
  PROVE  LET n == _updateG(s, issuance)
         IN /\ PoolBooks(n) /\ n.total = s.total /\ n.pending = s.pending /\ n.scale = s.scale
            /\ n.S = s.S /\ n.CT = s.CT /\ n.lossError = s.lossError
<1>0. /\ s \in Pools /\ s.P \in Nat /\ s.total \in Nat /\ s.lqtyError \in Nat /\ s.scale \in 0..MaxScale
      /\ s.G \in [0..MaxScale + 1 -> Nat]
  BY DEF PoolBooks, Pools
<1>1. CASE s.total = 0 \/ issuance = 0
  BY <1>0, <1>1 DEF _updateG
<1>2. CASE ~(s.total = 0 \/ issuance = 0)
  <2> DEFINE numerator == issuance * DECIMAL_PRECISION + s.lqtyError
             perUnit == numerator \div s.total
             error == numerator - perUnit * s.total
             sum == s.G[s.scale] + perUnit * s.P
             G == [s.G EXCEPT ![s.scale] = sum]
             n == [s EXCEPT !.lqtyError = error, !.G = G]
  <2>1. _updateG(s, issuance) = n
    BY <1>2, Zenon DEF _updateG
  <2>2. numerator \in Nat /\ s.total \in Nat \ {0}
    <3>1. issuance * DECIMAL_PRECISION \in Nat
      BY PoolConstants
    <3> QED
      BY <1>0, <1>2, <3>1
  <2> HIDE DEF numerator
  <2>3. perUnit \in Nat /\ s.total * perUnit <= numerator
    BY <2>2, DivBounds
  <2>4. error \in Nat
    <3>1. s.total * perUnit = perUnit * s.total
      BY <2>2, <2>3
    <3>2. perUnit * s.total \in Nat
      BY <2>2, <2>3
    <3> QED
      BY <2>2, <2>3, <3>1, <3>2
  <2> HIDE DEF perUnit, error
  <2>5. sum \in Nat
    <3>1. s.G[s.scale] \in Nat
      BY <1>0, PoolConstants
    <3>2. perUnit * s.P \in Nat
      BY <1>0, <2>3
    <3> QED
      BY <3>1, <3>2
  <2> HIDE DEF sum
  <2>6. G \in [0..MaxScale + 1 -> Nat]
    BY <1>0, <2>5
  <2> HIDE DEF G
  <2>7. /\ n \in Pools /\ n.P = s.P /\ n.total = s.total /\ n.pending = s.pending
        /\ n.balance = s.balance
        /\ n.scale = s.scale /\ n.S = s.S /\ n.CT = s.CT /\ n.lossError = s.lossError
    BY <1>0, <2>4, <2>6 DEF Pools
  <2> HIDE DEF n
  <2> QED
    BY <2>1, <2>7 DEF PoolBooks
<1> QED
  BY <1>1, <1>2

\* Where the depositors' transactions begin.
LEMMA RefreshedBooks ==
  ASSUME PoolInv, NEW t \in Since
  PROVE  LET n == Refreshed(t)
         IN /\ PoolBooks(n) /\ n.pending = 0 /\ n.scale = sp.scale /\ n.S = sp.S /\ n.CT = sp.CT
<1> DEFINE a == distributeFees(sp, t.fees)
           b == _mintPendingDeposits(a)
           n == _updateG(b, t.issuance)
<1>1. t.fees \in Nat /\ t.issuance \in Nat /\ (t.fees > 0 => sp.total > 0)
  BY PoolConstants DEF Since
<1>2. PoolBooks(a) /\ a.scale = sp.scale /\ a.S = sp.S /\ a.CT = sp.CT
  BY <1>1, DistributeBooks DEF PoolInv
<1> HIDE DEF a
<1>3. PoolBooks(b) /\ b.pending = 0 /\ b.scale = a.scale /\ b.S = a.S /\ b.CT = a.CT
  BY <1>2, MintBooks
<1> HIDE DEF b
<1>4. PoolBooks(n) /\ n.pending = b.pending /\ n.scale = b.scale /\ n.S = b.S /\ n.CT = b.CT
  BY <1>1, <1>3, IssueBooks
<1>5. Refreshed(t) = n
  BY Zenon DEF Refreshed, n, b, a
<1> HIDE DEF n
<1> QED
  BY <1>2, <1>3, <1>4, <1>5

\* The pool goes on: scales and sums only grow, and deposits and stakes stay what they are.
LEMMA BooksGrow ==
  ASSUME NEW s, NEW n, PoolBooks(s), PoolBooks(n), s.scale <= n.scale,
         \A i \in 0..MaxScale + 1 : s.S[i] <= n.S[i]
  PROVE  /\ \A d : DepositBooks(s, d) => DepositBooks(n, d)
         /\ \A k : StakeBooks(s, k) => StakeBooks(n, k)
<1>1. s.scale \in 0..MaxScale /\ n.scale \in 0..MaxScale
  BY DEF PoolBooks, Pools
<1>2. s.S \in [0..MaxScale + 1 -> Nat] /\ n.S \in [0..MaxScale + 1 -> Nat]
  BY DEF PoolBooks, Pools
<1>3. ASSUME NEW d, DepositBooks(s, d)
      PROVE  DepositBooks(n, d)
  <2>1. d.scale \in Nat /\ d.S \in Nat
    BY <1>3 DEF DepositBooks, DepositRecords
  <2>2. CASE d # NoDeposit
    <3>1. d.scale <= s.scale /\ d.S <= s.S[d.scale]
      BY <1>3, <2>2 DEF DepositBooks
    <3>2. d.scale \in 0..MaxScale + 1 /\ d.scale <= n.scale
      BY <1>1, <2>1, <3>1, PoolConstants
    <3>3. d.S <= n.S[d.scale]
      <4> DEFINE x == s.S[d.scale]
                 y == n.S[d.scale]
      <4>1. x \in Nat /\ y \in Nat /\ x <= y /\ d.S <= x
        BY <1>2, <3>1, <3>2
      <4> HIDE DEF x, y
      <4>2. d.S <= y
        BY <2>1, <4>1
      <4> QED
        BY <4>2 DEF y
    <3> QED
      BY <1>3, <3>2, <3>3 DEF DepositBooks
  <2> QED
    BY <1>3, <2>2 DEF DepositBooks
<1>4. ASSUME NEW k, StakeBooks(s, k)
      PROVE  StakeBooks(n, k)
  <2>1. k.scale \in Nat
    BY <1>4 DEF StakeBooks, StakeRecords
  <2> QED
    BY <1>1, <1>4, <2>1 DEF StakeBooks
<1> QED
  BY <1>3, <1>4

LEMMA NothingFields ==
  /\ NoDeposit \in DepositRecords /\ NoDeposit.value = 0
  /\ NoStake \in StakeRecords /\ NoStake.value = 0
<1>1. NoDeposit \in DepositRecords /\ NoDeposit.value = 0
  BY DEF NoDeposit, DepositRecords
<1>2. NoStake \in StakeRecords /\ NoStake.value = 0
  BY DEF NoStake, StakeRecords
<1> QED
  BY <1>1, <1>2

\* What a deposit or a stake has become is no less than zero.
LEMMA CompoundedTyped ==
  ASSUME NEW s, PoolBooks(s), NEW k, k.value \in Nat, k.P \in Nat, k.scale \in Nat,
         k.value > 0 => k.P >= SCALE_FACTOR
  PROVE  getCompounded(s, k) \in Nat
<1>1. CASE k.value = 0
  BY <1>1 DEF getCompounded
<1>2. CASE k.value # 0
  <2> DEFINE a == k.value * s.P
             d == a \div k.P
             e == d \div SCALE_FACTOR
             c == CASE s.scale = k.scale -> d
                    [] s.scale = k.scale + 1 -> e
                    [] OTHER -> 0
  <2>1. k.P \in Nat \ {0} /\ s.P \in Nat
    <3>1. k.value > 0 /\ k.P >= SCALE_FACTOR
      BY <1>2
    <3>2. s.P \in Nat
      BY DEF PoolBooks, Pools
    <3> QED
      BY <3>1, <3>2, PoolConstants
  <2>2. a \in Nat
    BY <2>1
  <2> HIDE DEF a
  <2>3. d \in Nat
    BY <2>1, <2>2, DivBounds
  <2> HIDE DEF d
  <2>4. e \in Nat
    BY <2>3, DivBounds, PoolConstants
  <2> HIDE DEF e
  <2>5. c \in Nat
    BY <2>3, <2>4
  <2>6. getCompounded(s, k) = IF c < k.value \div SCALE_FACTOR THEN 0 ELSE c
    BY <1>2, Zenon DEF getCompounded, _getCompoundedStakeFromSnapshots, c, d, e, a
  <2> HIDE DEF c
  <2> QED
    BY <2>5, <2>6
<1> QED
  BY <1>1, <1>2

LEMMA DepositCompounds ==
  ASSUME NEW s, PoolBooks(s), NEW d, DepositBooks(s, d)
  PROVE  getCompounded(s, d) \in Nat
<1>1. d.value \in Nat /\ d.P \in Nat /\ d.scale \in Nat
  BY DEF DepositBooks, DepositRecords
<1>2. d.value > 0 => d.P >= SCALE_FACTOR
  BY NothingFields DEF DepositBooks
<1> QED
  BY <1>1, <1>2, CompoundedTyped

LEMMA StakeCompounds ==
  ASSUME NEW s, PoolBooks(s), NEW k, StakeBooks(s, k)
  PROVE  getCompounded(s, k) \in Nat
<1>1. k.value \in Nat /\ k.P \in Nat /\ k.scale \in Nat
  BY DEF StakeBooks, StakeRecords
<1>2. k.value > 0 => k.P >= SCALE_FACTOR
  BY NothingFields DEF StakeBooks
<1> QED
  BY <1>1, <1>2, CompoundedTyped

\* A deposit has gained no less than nothing.
LEMMA GainTyped ==
  ASSUME NEW s, PoolBooks(s), NEW d, DepositBooks(s, d)
  PROVE  getDepositorCollateralGain(s, d) \in Nat
<1>1. CASE d.value = 0
  BY <1>1 DEF getDepositorCollateralGain
<1>2. CASE d.value # 0
  <2>0. d # NoDeposit
    BY <1>2, NothingFields
  <2>1. /\ d.value \in Nat /\ d.P \in Nat /\ d.scale \in Nat /\ d.S \in Nat
        /\ d.P >= SCALE_FACTOR /\ d.scale <= s.scale /\ d.S <= s.S[d.scale]
    BY <2>0 DEF DepositBooks, DepositRecords
  <2>2. s.scale \in 0..MaxScale /\ s.S \in [0..MaxScale + 1 -> Nat]
    BY DEF PoolBooks, Pools
  <2>3. d.scale \in 0..MaxScale + 1 /\ d.scale + 1 \in 0..MaxScale + 1 /\ d.P \in Nat \ {0}
    <3> DEFINE i == d.scale
               j == s.scale
    <3>1. i \in Nat /\ j \in 0..MaxScale /\ i <= j
      BY <2>1, <2>2
    <3> HIDE DEF i, j
    <3>2. i \in 0..MaxScale + 1 /\ i + 1 \in 0..MaxScale + 1
      BY <3>1, PoolConstants
    <3>3. d.P # 0
      BY <2>1, PoolConstants
    <3> QED
      BY <2>1, <3>2, <3>3 DEF i
  <2> DEFINE x == s.S[d.scale]
             y == s.S[d.scale + 1]
             z == y \div SCALE_FACTOR
             portion == x - d.S + z
             a == d.value * portion
             b == a \div d.P
  <2>4. x \in Nat /\ y \in Nat /\ d.S <= x
    BY <2>1, <2>2, <2>3
  <2> HIDE DEF x, y
  <2>5. z \in Nat
    BY <2>4, DivBounds, PoolConstants
  <2> HIDE DEF z
  <2>6. portion \in Nat
    BY <2>1, <2>4, <2>5
  <2> HIDE DEF portion
  <2>7. a \in Nat
    BY <2>1, <2>6
  <2> HIDE DEF a
  <2>8. b \in Nat
    BY <2>3, <2>7, DivBounds
  <2> HIDE DEF b
  <2>9. b \div DECIMAL_PRECISION \in Nat
    BY <2>8, DivBounds, PoolConstants
  <2>10. getDepositorCollateralGain(s, d) = b \div DECIMAL_PRECISION
    BY <1>2, Zenon DEF getDepositorCollateralGain, GainFromSnapshots, Portion, b, a, portion, z, y, x
  <2> QED
    BY <2>9, <2>10
<1> QED
  BY <1>1, <1>2

\* A new snapshot is of the pool as it is.
LEMMA SnapshotBooks ==
  ASSUME NEW s, PoolBooks(s), NEW value \in Nat, NEW tag \in Users \cup {ZeroAddress},
         tag # ZeroAddress => frontEnds[tag] # Unregistered
  PROVE  /\ DepositBooks(s, _updateDepositAndSnapshots(s, value, tag))
         /\ StakeBooks(s, _updateFrontEndStakeAndSnapshots(s, value))
<1>1. /\ s.P \in Nat /\ s.P >= SCALE_FACTOR /\ s.scale \in 0..MaxScale
      /\ s.S \in [0..MaxScale + 1 -> Nat] /\ s.G \in [0..MaxScale + 1 -> Nat]
  BY DEF PoolBooks, Pools
<1>2. s.S[s.scale] \in Nat /\ s.G[s.scale] \in Nat /\ s.scale \in Nat
  <2>1. s.scale \in 0..MaxScale + 1 /\ s.scale \in Nat
    BY <1>1, PoolConstants
  <2> QED
    BY <1>1, <2>1
<1>3. CASE value = 0
  BY <1>3, NothingFields DEF DepositBooks, StakeBooks, _updateDepositAndSnapshots,
     _updateFrontEndStakeAndSnapshots
<1>4. CASE value # 0
  <2> DEFINE S == s.S[s.scale]
             G == s.G[s.scale]
             d == [value |-> value, tag |-> tag, P |-> s.P, S |-> S, G |-> G, scale |-> s.scale]
             k == [value |-> value, P |-> s.P, G |-> G, scale |-> s.scale]
  <2>1. S \in Nat /\ G \in Nat /\ S <= s.S[s.scale]
    BY <1>2
  <2>2. _updateDepositAndSnapshots(s, value, tag) = d
    BY <1>4, Zenon DEF _updateDepositAndSnapshots
  <2>3. _updateFrontEndStakeAndSnapshots(s, value) = k
    BY <1>4, Zenon DEF _updateFrontEndStakeAndSnapshots
  <2> HIDE DEF S, G
  <2>4. /\ d \in DepositRecords /\ d.value = value /\ d.tag = tag /\ d.P = s.P /\ d.S = S
        /\ d.scale = s.scale
    BY <1>1, <1>2, <2>1 DEF DepositRecords
  <2>5. k \in StakeRecords /\ k.value = value /\ k.P = s.P /\ k.scale = s.scale
    BY <1>1, <1>2, <2>1 DEF StakeRecords
  <2> HIDE DEF d, k
  <2>6. value > 0
    BY <1>4
  <2> QED
    BY <1>1, <1>2, <2>1, <2>2, <2>3, <2>4, <2>5, <2>6 DEF DepositBooks, StakeBooks
<1> QED
  BY <1>3, <1>4

\* A depositor's transaction, with the deposit changed by an amount it can be changed by.
LEMMA SettleBooks ==
  ASSUME PoolInv, ops' \in 0..MaxOps, NEW u \in Users, NEW f \in Users \cup {ZeroAddress},
         f # ZeroAddress => frontEnds[f] # Unregistered,
         NEW s, PoolBooks(s), s.pending = 0, s.scale = sp.scale, s.S = sp.S,
         NEW delta \in Int, s.total + delta \in Nat,
         getCompounded(s, deposits[u]) + delta \in Nat,
         getCompounded(s, frontEndStakes[f]) + delta \in Nat,
         Settle(u, f, s, delta)
  PROVE  PoolInv'
<1> DEFINE coll == getDepositorCollateralGain(s, deposits[u])
           CT == s.CT - coll
           total == s.total + delta
           balance == s.balance + delta
           n == [s EXCEPT !.CT = CT, !.total = total, !.balance = balance]
           d == _updateDepositAndSnapshots(s, getCompounded(s, deposits[u]) + delta, f)
           k == _updateFrontEndStakeAndSnapshots(s, getCompounded(s, frontEndStakes[f]) + delta)
<1>1. /\ coll <= s.CT /\ sp' = n /\ deposits' = [deposits EXCEPT ![u] = d]
      /\ frontEndStakes' = [frontEndStakes EXCEPT ![f] = k] /\ frontEnds' = frontEnds
  BY Zenon DEF Settle
<1>2. /\ PoolBooks(sp) /\ DOMAIN deposits = Users /\ DOMAIN frontEndStakes = Users \cup {ZeroAddress}
      /\ \A v \in Users : DepositBooks(sp, deposits[v])
      /\ \A g \in Users \cup {ZeroAddress} : StakeBooks(sp, frontEndStakes[g])
  BY DEF PoolInv
<1>3. sp.scale \in Nat /\ \A i \in 0..MaxScale + 1 : sp.S[i] \in Nat
  <2>1. sp.scale \in 0..MaxScale /\ sp.S \in [0..MaxScale + 1 -> Nat]
    BY <1>2 DEF PoolBooks, Pools
  <2> QED
    BY <2>1, PoolConstants
<1>4. /\ \A e : DepositBooks(sp, e) => DepositBooks(s, e)
      /\ \A e : StakeBooks(sp, e) => StakeBooks(s, e)
  <2>1. sp.scale <= s.scale /\ \A i \in 0..MaxScale + 1 : sp.S[i] <= s.S[i]
    BY <1>3
  <2> QED
    BY <1>2, <2>1, BooksGrow
<1>5. DepositBooks(s, d) /\ StakeBooks(s, k)
  BY SnapshotBooks
<1> HIDE DEF d, k
<1>6. /\ s \in Pools /\ s.CT \in Nat /\ s.total \in Nat /\ s.balance \in Nat /\ s.balance = s.total
      /\ s.P >= SCALE_FACTOR
  BY DEF PoolBooks, Pools
<1>7. coll \in Nat
  BY <1>2, <1>4, GainTyped
<1> HIDE DEF coll
<1>8. CT \in Nat /\ total \in Nat /\ balance \in Nat /\ balance = total
  BY <1>1, <1>6, <1>7
<1> HIDE DEF CT, total, balance
<1>9. /\ n \in Pools /\ n.P = s.P /\ n.total = total /\ n.balance = balance /\ n.pending = s.pending
      /\ n.scale = s.scale /\ n.S = s.S
  BY <1>6, <1>8 DEF Pools
<1> HIDE DEF n
<1>10. PoolBooks(n)
  BY <1>6, <1>8, <1>9 DEF PoolBooks
<1>11. /\ \A e : DepositBooks(s, e) => DepositBooks(n, e)
       /\ \A e : StakeBooks(s, e) => StakeBooks(n, e)
  <2>1. s.scale <= n.scale /\ \A i \in 0..MaxScale + 1 : s.S[i] <= n.S[i]
    BY <1>3, <1>9
  <2> QED
    BY <1>10, <2>1, BooksGrow
<1>12. DOMAIN deposits' = Users /\ \A v \in Users : DepositBooks(sp, deposits[v])'
  <2>1. ASSUME NEW v \in Users
        PROVE  DepositBooks(n, deposits'[v])
    <3>1. deposits'[v] = d \/ deposits'[v] = deposits[v]
      BY <1>1, <1>2, Zenon
    <3> QED
      BY <1>2, <1>4, <1>5, <1>11, <3>1
  <2>2. DOMAIN deposits' = Users
    BY <1>1, <1>2, Zenon
  <2> QED
    BY <1>1, <2>1, <2>2 DEF DepositBooks
<1>13. /\ DOMAIN frontEndStakes' = Users \cup {ZeroAddress}
       /\ \A g \in Users \cup {ZeroAddress} : StakeBooks(sp, frontEndStakes[g])'
  <2>1. ASSUME NEW g \in Users \cup {ZeroAddress}
        PROVE  StakeBooks(n, frontEndStakes'[g])
    <3>1. frontEndStakes'[g] = k \/ frontEndStakes'[g] = frontEndStakes[g]
      BY <1>1, <1>2, Zenon
    <3> QED
      BY <1>2, <1>4, <1>5, <1>11, <3>1
  <2>2. DOMAIN frontEndStakes' = Users \cup {ZeroAddress}
    BY <1>1, <1>2, Zenon
  <2> QED
    BY <1>1, <2>1, <2>2 DEF StakeBooks
<1> QED
  BY <1>1, <1>10, <1>12, <1>13 DEF PoolInv, PoolBooks

\* P stays above the bound of its scale, however much is lost, if not all of it is.
LEMMA ShrinkBooks ==
  ASSUME NEW s, PoolBooks(s), NEW factor \in Nat
  PROVE  LET w == Shrink(s, factor)
         IN /\ w.P \in Nat /\ w.scale \in Nat /\ s.scale <= w.scale
            /\ w.P > 0 => w.P >= SCALE_FACTOR
            /\ factor > 0 => w.P > 0
<1> DEFINE a == s.P * factor
           b == a * SCALE_FACTOR
           inScale == a \div DECIMAL_PRECISION
           nextScale == b \div DECIMAL_PRECISION
<1>1. s.P \in Nat /\ s.P >= SCALE_FACTOR /\ s.scale \in Nat
  BY DEF PoolBooks, Pools
<1>2. a \in Nat
  BY <1>1
<1>3. factor # 0 => a >= s.P
  <2>1. ASSUME factor # 0
        PROVE  a >= s.P
    <3>1. 1 * s.P <= factor * s.P
      BY <1>1, <2>1, ProductMonotone
    <3>2. factor * s.P = a
      BY <1>1
    <3> QED
      BY <1>1, <3>1, <3>2
  <2> QED
    BY <2>1
<1>4. factor = 0 => a = 0
  BY <1>1
<1> HIDE DEF a
<1>5. b \in Nat
  BY <1>2, PoolConstants
<1> HIDE DEF b
<1>6. inScale \in Nat /\ nextScale \in Nat
  BY <1>2, <1>5, DivBounds, PoolConstants
<1> HIDE DEF inScale, nextScale
<1>7. Shrink(s, factor) = CASE inScale >= SCALE_FACTOR -> [P |-> inScale, scale |-> s.scale]
                            [] inScale < SCALE_FACTOR /\ nextScale >= SCALE_FACTOR ->
                                 [P |-> nextScale, scale |-> s.scale + 1]
                            [] OTHER -> [P |-> a, scale |-> s.scale + 2]
  BY Zenon DEF Shrink, nextScale, inScale, b, a
<1>8. CASE inScale >= SCALE_FACTOR
  <2>1. Shrink(s, factor) = [P |-> inScale, scale |-> s.scale]
    BY <1>6, <1>7, <1>8, PoolConstants
  <2> QED
    BY <1>1, <1>6, <1>8, <2>1, PoolConstants
<1>9. CASE inScale < SCALE_FACTOR /\ nextScale >= SCALE_FACTOR
  <2>1. Shrink(s, factor) = [P |-> nextScale, scale |-> s.scale + 1]
    BY <1>6, <1>7, <1>9, PoolConstants
  <2> QED
    BY <1>1, <1>6, <1>9, <2>1, PoolConstants
<1>10. CASE ~(inScale >= SCALE_FACTOR) /\ ~(inScale < SCALE_FACTOR /\ nextScale >= SCALE_FACTOR)
  <2>1. Shrink(s, factor) = [P |-> a, scale |-> s.scale + 2]
    BY <1>6, <1>7, <1>10, PoolConstants
  <2>2. factor > 0 => a > 0
    BY <1>1, <1>2, <1>3, PoolConstants
  <2>3. a > 0 => a >= SCALE_FACTOR
    BY <1>1, <1>2, <1>3, <1>4, PoolConstants
  <2> QED
    BY <1>1, <1>2, <2>1, <2>2, <2>3
<1> QED
  BY <1>8, <1>9, <1>10

\* The loss that is shared, rounded up.
LEMMA LossTyped ==
  ASSUME NEW s, PoolBooks(s), s.total > 0, NEW debt \in Nat
  PROVE  /\ LossNumerator(s, debt) \in Nat /\ LossPerUnitStaked(s, debt) \in Nat
         /\ LossPerUnitStaked(s, debt) * s.total - LossNumerator(s, debt) \in Nat
         /\ LossNumerator(s, debt) = IF debt * DECIMAL_PRECISION >= s.lossError
                                     THEN debt * DECIMAL_PRECISION - s.lossError ELSE 0
<1> DEFINE m == debt * DECIMAL_PRECISION - s.lossError
           num == LossNumerator(s, debt)
           q == num \div s.total
<1>1. s.total \in Nat \ {0} /\ s.lossError \in Nat
  BY DEF PoolBooks, Pools
<1>2. debt * DECIMAL_PRECISION \in Nat
  BY PoolConstants
<1>3. m \in Int
  BY <1>1, <1>2
<1>4. num = Max({0, m})
  BY Zenon DEF LossNumerator
<1>5. num = IF debt * DECIMAL_PRECISION >= s.lossError THEN m ELSE 0
  <2>1. \A y \in Int : Max({0, y}) = IF y >= 0 THEN y ELSE 0
    BY DEF Max
  <2>2. m >= 0 <=> debt * DECIMAL_PRECISION >= s.lossError
    BY <1>1, <1>2
  <2> HIDE DEF m, num
  <2> QED
    BY <1>3, <1>4, <2>1, <2>2
<1>6. num \in Nat
  BY <1>1, <1>2, <1>5
<1> HIDE DEF num
<1>7. q \in Nat /\ num < s.total * q + s.total
  BY <1>1, <1>6, DivBounds, DivAbove
<1> HIDE DEF q
<1>8. LossPerUnitStaked(s, debt) = q + 1
  BY DEF LossPerUnitStaked, q, num
<1>9. (q + 1) * s.total = s.total * q + s.total /\ s.total * q \in Nat
  BY <1>1, <1>7
<1>10. (q + 1) * s.total - num \in Nat
  BY <1>1, <1>6, <1>7, <1>9
<1> QED
  BY <1>5, <1>6, <1>7, <1>8, <1>10 DEF num, m

LEMMA OffsetBooks ==
  ASSUME NEW s, PoolBooks(s), s.pending = 0, NEW debt \in Nat, NEW coll \in Nat,
         OffsetAsserts(s, debt), OffsetBy(s, debt, coll).scale <= MaxScale
  PROVE  LET n == OffsetBy(s, debt, coll)
         IN PoolBooks(n) /\ s.scale <= n.scale /\ \A i \in 0..MaxScale + 1 : s.S[i] <= n.S[i]
<1> DEFINE loss == LossPerUnitStaked(s, debt)
           factor == DECIMAL_PRECISION - loss
           w == Shrink(s, factor)
           numerator == coll * DECIMAL_PRECISION + s.collError
           gain == numerator \div s.total
           sum == s.S[s.scale] + gain * s.P
           S == [s.S EXCEPT ![s.scale] = sum]
           P == w.P
           scale == w.scale
           lossError == loss * s.total - LossNumerator(s, debt)
           collError == numerator - gain * s.total
           total == s.total - debt
           balance == s.balance - debt
           CT == s.CT + coll
           m == [s EXCEPT !.S = S, !.P = P, !.scale = scale]
           n == [m EXCEPT !.lossError = lossError, !.collError = collError, !.total = total,
                          !.balance = balance, !.CT = CT]
<1>1. /\ s \in Pools /\ s.P \in Nat /\ s.total \in Nat /\ s.balance \in Nat /\ s.CT \in Nat
      /\ s.scale \in 0..MaxScale /\ s.S \in [0..MaxScale + 1 -> Nat] /\ s.collError \in Nat
      /\ s.balance = s.total
  BY DEF PoolBooks, Pools
<1>2. debt < s.total /\ loss <= DECIMAL_PRECISION /\ w.P > 0 /\ s.total \in Nat \ {0}
  BY <1>1 DEF OffsetAsserts
<1>3. loss \in Nat /\ lossError \in Nat
  BY <1>2, LossTyped
<1> HIDE DEF loss, lossError
<1>4. factor \in Nat
  BY <1>2, <1>3, PoolConstants
<1> HIDE DEF factor
<1>5. P \in Nat /\ P >= SCALE_FACTOR /\ scale \in Nat /\ s.scale <= scale
  BY <1>2, <1>4, ShrinkBooks
<1> HIDE DEF P, scale
<1>6. numerator \in Nat
  <2>1. coll * DECIMAL_PRECISION \in Nat
    BY PoolConstants
  <2> QED
    BY <1>1, <2>1
<1> HIDE DEF numerator
<1>7. gain \in Nat /\ s.total * gain <= numerator
  BY <1>2, <1>6, DivBounds
<1> HIDE DEF gain
<1>8. collError \in Nat
  <2>1. s.total * gain = gain * s.total /\ gain * s.total \in Nat
    BY <1>1, <1>7
  <2> QED
    BY <1>6, <1>7, <2>1
<1> HIDE DEF collError
<1>9. sum \in Nat /\ s.S[s.scale] <= sum /\ s.scale \in 0..MaxScale + 1
  <2>1. s.S[s.scale] \in Nat /\ s.scale \in 0..MaxScale + 1
    BY <1>1, PoolConstants
  <2>2. gain * s.P \in Nat
    BY <1>1, <1>7
  <2> QED
    BY <2>1, <2>2
<1> HIDE DEF sum
<1>10. S \in [0..MaxScale + 1 -> Nat] /\ \A i \in 0..MaxScale + 1 : s.S[i] <= S[i]
  <2> DEFINE old == s.S
             at == s.scale
  <2>1. old \in [0..MaxScale + 1 -> Nat] /\ at \in 0..MaxScale + 1 /\ old[at] <= sum /\ sum \in Nat
    BY <1>1, <1>9
  <2>2. S = [old EXCEPT ![at] = sum]
    OBVIOUS
  <2> HIDE DEF old, at, S
  <2>3. S \in [0..MaxScale + 1 -> Nat] /\ \A i \in 0..MaxScale + 1 : old[i] <= S[i]
    BY <2>1, <2>2
  <2> QED
    BY <2>3 DEF old
<1> HIDE DEF S
<1>11. total \in Nat /\ balance \in Nat /\ CT \in Nat /\ balance = total
  BY <1>1, <1>2
<1> HIDE DEF total, balance, CT
<1>12. OffsetBy(s, debt, coll) = n
  BY Zenon DEF OffsetBy, _updateRewardSumAndProduct, S, sum, gain, numerator, P, scale, factor,
     loss, lossError, collError, total, balance, CT
<1>13. m.scale = scale /\ n.scale = m.scale
  <2>1. m.scale = scale
    BY <1>1 DEF Pools
  <2>2. n.scale = m.scale
    BY <1>1 DEF Pools
  <2> QED
    BY <2>1, <2>2
<1>14. scale \in 0..MaxScale
  BY <1>5, <1>12, <1>13, PoolConstants
<1>15. m \in Pools /\ m.P = P /\ m.S = S /\ m.pending = s.pending
  BY <1>1, <1>5, <1>10, <1>14 DEF Pools
<1> HIDE DEF m
<1>16. /\ n \in Pools /\ n.P = m.P /\ n.S = m.S /\ n.pending = m.pending /\ n.balance = balance
       /\ n.total = total
  BY <1>3, <1>8, <1>11, <1>15 DEF Pools
<1> HIDE DEF n
<1>17. PoolBooks(n)
  BY <1>5, <1>11, <1>15, <1>16 DEF PoolBooks
<1> QED
  BY <1>5, <1>10, <1>12, <1>13, <1>15, <1>16, <1>17

-----------------------------------------------------------------------------
LEMMA InitPool == PoolInit => PoolInv
<1> SUFFICES ASSUME PoolInit
             PROVE  PoolInv
  OBVIOUS
<1> DEFINE zeros == NoSums
<1>1. zeros \in [0..MaxScale + 1 -> Nat]
  BY DEF NoSums
<1>2. sp = [P |-> DECIMAL_PRECISION, scale |-> 0, S |-> zeros, G |-> zeros,
            total |-> 0, pending |-> 0, balance |-> 0, CT |-> 0,
            lqtyError |-> 0, collError |-> 0, lossError |-> 0, gainError |-> 0]
  BY Zenon DEF PoolInit
<1> HIDE DEF zeros
<1>3. 0 \in 0..MaxScale /\ DECIMAL_PRECISION \in Nat
  BY PoolConstants
<1>4. sp \in Pools /\ sp.P = DECIMAL_PRECISION /\ sp.balance = 0 /\ sp.pending = 0 /\ sp.total = 0
  BY <1>1, <1>2, <1>3 DEF Pools
<1>5. DECIMAL_PRECISION >= SCALE_FACTOR
  <2>1. 1 * SCALE_FACTOR <= SCALE_FACTOR * SCALE_FACTOR
    BY ProductMonotone, PoolConstants
  <2> QED
    BY <2>1, PoolAssumption
<1>6. PoolBooks(sp)
  BY <1>4, <1>5 DEF PoolBooks
<1>7. DepositBooks(sp, NoDeposit) /\ StakeBooks(sp, NoStake)
  BY NothingFields DEF DepositBooks, StakeBooks
<1>8. DOMAIN deposits = Users /\ \A u \in Users : deposits[u] = NoDeposit
  BY Zenon DEF PoolInit
<1>9. /\ DOMAIN frontEndStakes = Users \cup {ZeroAddress}
      /\ \A f \in Users \cup {ZeroAddress} : frontEndStakes[f] = NoStake
  BY Zenon DEF PoolInit
<1>10. frontEnds \in [Users -> KickbackRates \cup {Unregistered}]
  BY Zenon DEF PoolInit
<1>11. ops \in 0..MaxOps
  BY PoolConstants DEF PoolInit
<1> QED
  BY <1>6, <1>7, <1>8, <1>9, <1>10, <1>11 DEF PoolInv

\* What a depositor's transaction starts from, for the deposit and the front end it is about.
LEMMA RefreshedDeposits ==
  ASSUME PoolInv, NEW t \in Since
  PROVE  /\ \A u \in Users : getCompounded(Refreshed(t), deposits[u]) \in Nat
         /\ \A f \in Users \cup {ZeroAddress} : getCompounded(Refreshed(t), frontEndStakes[f]) \in Nat
<1> DEFINE s == Refreshed(t)
<1>1. PoolBooks(s) /\ s.scale = sp.scale /\ s.S = sp.S
  BY RefreshedBooks
<1> HIDE DEF s
<1>2. PoolBooks(sp)
  BY DEF PoolInv
<1>3. sp.scale \in 0..MaxScale /\ sp.S \in [0..MaxScale + 1 -> Nat]
  BY <1>2 DEF PoolBooks, Pools
<1>4. sp.scale <= s.scale /\ \A i \in 0..MaxScale + 1 : sp.S[i] <= s.S[i]
  BY <1>1, <1>3, PoolConstants
<1>5. /\ \A e : DepositBooks(sp, e) => DepositBooks(s, e)
      /\ \A e : StakeBooks(sp, e) => StakeBooks(s, e)
  BY <1>1, <1>2, <1>4, BooksGrow
<1>6. ASSUME NEW u \in Users
      PROVE  getCompounded(s, deposits[u]) \in Nat
  BY <1>1, <1>5, DepositCompounds DEF PoolInv
<1>7. ASSUME NEW f \in Users \cup {ZeroAddress}
      PROVE  getCompounded(s, frontEndStakes[f]) \in Nat
  BY <1>1, <1>5, StakeCompounds DEF PoolInv
<1> QED
  BY <1>6, <1>7 DEF s

\* What an offset may take leaves the minimum in the pool.
LEMMA MostToOffset ==
  ASSUME NEW s, PoolBooks(s)
  PROVE  LET most == getMaxAmountToOffset(s)
         IN most \in Nat /\ (most > 0 => most = s.total - MIN_LUSD_IN_SP /\ s.total > MIN_LUSD_IN_SP)
<1> DEFINE kept == Min({MIN_LUSD_IN_SP, s.total})
           left == s.total - kept
<1>1. s.total \in Nat
  BY DEF PoolBooks, Pools
<1>2. kept = IF MIN_LUSD_IN_SP <= s.total THEN MIN_LUSD_IN_SP ELSE s.total
  BY <1>1, MinPair, PoolConstants
<1> HIDE DEF kept
<1>3. left \in Nat /\ (left > 0 => left = s.total - MIN_LUSD_IN_SP /\ s.total > MIN_LUSD_IN_SP)
  BY <1>1, <1>2, PoolConstants
<1>4. getMaxAmountToOffset(s) = left \/ getMaxAmountToOffset(s) = 0
  BY Zenon DEF getMaxAmountToOffset, kept
<1> HIDE DEF left
<1> QED
  BY <1>3, <1>4

LEMMA DistributedMost ==
  ASSUME PoolInv, NEW t \in Since
  PROVE  getMaxAmountToOffset(distributeFees(sp, t.fees)) \in Nat
<1>1. t.fees \in Nat /\ (t.fees > 0 => sp.total > 0)
  BY PoolConstants DEF Since
<1>2. PoolBooks(distributeFees(sp, t.fees))
  BY <1>1, DistributeBooks DEF PoolInv
<1> QED
  BY <1>2, MostToOffset

LEMMA PoolStep ==
  ASSUME PoolInv, [PoolNext]_poolVars
  PROVE  PoolInv'
<1>1. ops \in 0..MaxOps /\ frontEnds \in [Users -> KickbackRates \cup {Unregistered}] /\ PoolBooks(sp)
  BY DEF PoolInv
<1>2. ASSUME Transaction
      PROVE  ops' \in 0..MaxOps
  BY <1>1, <1>2, PoolConstants DEF Transaction
<1>3. ASSUME NEW u \in Users, deposits[u].value > 0
      PROVE  LET f == deposits[u].tag
             IN f \in Users \cup {ZeroAddress} /\ (f # ZeroAddress => frontEnds[f] # Unregistered)
  <2>1. DepositBooks(sp, deposits[u]) /\ deposits[u] # NoDeposit
    BY <1>3, NothingFields DEF PoolInv
  <2> QED
    BY <2>1 DEF DepositBooks, DepositRecords
<1>4. CASE Provide
  <2>1. PICK u \in Users, amount \in Amounts, tag \in Users \cup {ZeroAddress}, t \in Since :
          provideToSP(u, amount, tag, t)
    BY <1>4 DEF Provide
  <2> DEFINE f == IF deposits[u].value = 0 THEN tag ELSE deposits[u].tag
             s == Refreshed(t)
  <2>2. /\ Settle(u, f, s, amount) /\ amount \in Nat
        /\ (tag # ZeroAddress => frontEnds[tag] # Unregistered)
    BY <2>1, PoolConstants, Zenon DEF provideToSP
  <2>3. deposits[u].value \in Nat
    BY DEF PoolInv, DepositBooks, DepositRecords
  <2>4. f \in Users \cup {ZeroAddress} /\ (f # ZeroAddress => frontEnds[f] # Unregistered)
    <3>1. CASE deposits[u].value = 0
      BY <2>2, <3>1
    <3>2. CASE deposits[u].value # 0
      <4>1. deposits[u].value > 0 /\ f = deposits[u].tag
        BY <2>3, <3>2
      <4> QED
        BY <1>3, <4>1
    <3> QED
      BY <3>1, <3>2
  <2> HIDE DEF f
  <2>5. PoolBooks(s) /\ s.pending = 0 /\ s.scale = sp.scale /\ s.S = sp.S
    BY RefreshedBooks
  <2>6. getCompounded(s, deposits[u]) \in Nat /\ getCompounded(s, frontEndStakes[f]) \in Nat
    BY <2>4, RefreshedDeposits
  <2>7. s.total \in Nat
    BY <2>5 DEF PoolBooks, Pools
  <2> HIDE DEF s
  <2>8. /\ s.total + amount \in Nat /\ getCompounded(s, deposits[u]) + amount \in Nat
        /\ getCompounded(s, frontEndStakes[f]) + amount \in Nat /\ amount \in Int
    BY <2>2, <2>6, <2>7
  <2>9. ops' \in 0..MaxOps
    BY <1>2, <1>4 DEF Provide
  <2> QED
    BY <2>2, <2>4, <2>5, <2>8, <2>9, SettleBooks
<1>5. CASE Withdraw
  <2>1. PICK u \in Users, amount \in Amounts, t \in Since : withdrawFromSP(u, amount, t)
    BY <1>5 DEF Withdraw
  <2> DEFINE f == deposits[u].tag
             s == Refreshed(t)
             x == getCompounded(s, deposits[u])
             y == getCompounded(s, frontEndStakes[f])
             left == Available(s)
             withdrawn == Min({amount, left, x, y})
  <2>2. Settle(u, f, s, -withdrawn) /\ deposits[u].value > 0
    BY <2>1, Zenon DEF withdrawFromSP
  <2>3. f \in Users \cup {ZeroAddress} /\ (f # ZeroAddress => frontEnds[f] # Unregistered)
    BY <1>3, <2>2
  <2>4. PoolBooks(s) /\ s.pending = 0 /\ s.scale = sp.scale /\ s.S = sp.S
    BY RefreshedBooks
  <2>5. x \in Nat /\ y \in Nat
    BY <2>3, RefreshedDeposits
  <2>6. s.total \in Nat /\ amount \in Nat
    BY <2>4, PoolConstants DEF PoolBooks, Pools
  <2>7. left \in Nat /\ left <= s.total
    BY <2>6, PoolConstants DEF Available
  <2> HIDE DEF f, s, x, y, left
  <2>8. withdrawn \in Nat /\ withdrawn <= left /\ withdrawn <= x /\ withdrawn <= y
    <3>1. amount \in Int /\ left \in Int /\ x \in Int /\ y \in Int
      BY <2>5, <2>6, <2>7
    <3>2. /\ withdrawn \in {amount, left, x, y}
          /\ withdrawn <= left /\ withdrawn <= x /\ withdrawn <= y
      BY <3>1, MinFour, Zenon
    <3> QED
      BY <2>5, <2>6, <2>7, <3>2
  <2> DEFINE delta == -withdrawn
  <2> HIDE DEF withdrawn
  <2>9. delta \in Int /\ s.total + delta \in Nat /\ x + delta \in Nat /\ y + delta \in Nat
    BY <2>5, <2>6, <2>7, <2>8
  <2>10. Settle(u, f, s, delta)
    BY <2>2
  <2> HIDE DEF delta
  <2>11. getCompounded(s, deposits[u]) + delta \in Nat /\ getCompounded(s, frontEndStakes[f]) + delta \in Nat
    BY <2>9 DEF x, y
  <2>12. ops' \in 0..MaxOps
    BY <1>2, <1>5 DEF Withdraw
  <2> QED
    BY <2>3, <2>4, <2>9, <2>10, <2>11, <2>12, SettleBooks
<1>6. CASE GainToTrove
  <2>1. PICK u \in Users, t \in Since : withdrawCollateralGainToTrove(u, t)
    BY <1>6 DEF GainToTrove
  <2> DEFINE f == deposits[u].tag
             s == Refreshed(t)
  <2>2. Settle(u, f, s, 0) /\ deposits[u].value > 0
    BY <2>1, Zenon DEF withdrawCollateralGainToTrove
  <2>3. f \in Users \cup {ZeroAddress} /\ (f # ZeroAddress => frontEnds[f] # Unregistered)
    BY <1>3, <2>2
  <2>4. PoolBooks(s) /\ s.pending = 0 /\ s.scale = sp.scale /\ s.S = sp.S
    BY RefreshedBooks
  <2>5. getCompounded(s, deposits[u]) \in Nat /\ getCompounded(s, frontEndStakes[f]) \in Nat
    BY <2>3, RefreshedDeposits
  <2>6. s.total \in Nat
    BY <2>4 DEF PoolBooks, Pools
  <2> HIDE DEF f, s
  <2>7. /\ s.total + 0 \in Nat /\ getCompounded(s, deposits[u]) + 0 \in Nat
        /\ getCompounded(s, frontEndStakes[f]) + 0 \in Nat /\ 0 \in Int
    BY <2>5, <2>6
  <2>8. ops' \in 0..MaxOps
    BY <1>2, <1>6 DEF GainToTrove
  <2> QED
    BY <2>2, <2>3, <2>4, <2>7, <2>8, SettleBooks
<1>7. CASE Offset
  <2>1. PICK owed \in Debts, coll \in Colls, t \in Since : offset(owed, coll, t)
    BY <1>7 DEF Offset
  <2> DEFINE s == Refreshed(t)
             dripped == distributeFees(sp, t.fees)
             most == getMaxAmountToOffset(dripped)
             debt == Min({owed, most})
             m == _mintPendingDeposits(dripped)
             n == OffsetBy(s, debt, coll)
  <2>2. /\ \/ sp' = m
           \/ OffsetAsserts(s, debt) /\ n.scale <= MaxScale /\ sp' = n
        /\ deposits' = deposits /\ frontEndStakes' = frontEndStakes /\ frontEnds' = frontEnds
    BY <2>1, Zenon DEF offset
  <2>3. owed \in Nat /\ coll \in Nat
    BY PoolConstants
  <2>4. most \in Nat
    BY DistributedMost
  <2> HIDE DEF most
  <2>5. debt \in Nat
    BY <2>3, <2>4, MinPair
  <2> HIDE DEF debt
  <2>6. PoolBooks(s) /\ s.pending = 0 /\ s.scale = sp.scale /\ s.S = sp.S
    BY RefreshedBooks
  <2>7. PoolBooks(m) /\ m.scale = sp.scale /\ m.S = sp.S
    <3>1. t.fees \in Nat /\ (t.fees > 0 => sp.total > 0)
      BY PoolConstants DEF Since
    <3>2. PoolBooks(dripped) /\ dripped.scale = sp.scale /\ dripped.S = sp.S
      BY <1>1, <3>1, DistributeBooks
    <3> HIDE DEF dripped
    <3> QED
      BY <3>2, MintBooks
  <2> HIDE DEF s, m
  <2>8. PoolBooks(sp') /\ sp.scale <= sp'.scale /\ \A i \in 0..MaxScale + 1 : sp.S[i] <= sp'.S[i]
    <3>1. CASE sp' = m
      <4>1. sp.scale \in 0..MaxScale /\ sp.S \in [0..MaxScale + 1 -> Nat]
        BY <1>1 DEF PoolBooks, Pools
      <4> QED
        BY <2>7, <3>1, <4>1, PoolConstants
    <3>2. CASE OffsetAsserts(s, debt) /\ n.scale <= MaxScale /\ sp' = n
      <4>1. PoolBooks(n) /\ s.scale <= n.scale /\ \A i \in 0..MaxScale + 1 : s.S[i] <= n.S[i]
        BY <2>3, <2>5, <2>6, <3>2, OffsetBooks
      <4> HIDE DEF n
      <4> QED
        BY <2>6, <3>2, <4>1
    <3> QED
      BY <2>2, <3>1, <3>2
  <2>9. /\ \A e : DepositBooks(sp, e) => DepositBooks(sp', e)
        /\ \A e : StakeBooks(sp, e) => StakeBooks(sp', e)
    <3> DEFINE w == sp'
    <3>1. /\ PoolBooks(w) /\ sp.scale <= w.scale
          /\ \A i \in 0..MaxScale + 1 : sp.S[i] <= w.S[i]
      BY <2>8
    <3> HIDE DEF w
    <3>2. /\ \A e : DepositBooks(sp, e) => DepositBooks(w, e)
          /\ \A e : StakeBooks(sp, e) => StakeBooks(w, e)
      BY <1>1, <3>1, BooksGrow
    <3> QED
      BY <3>2 DEF w
  <2>10. \A u \in Users : DepositBooks(sp, deposits[u])'
    BY <2>2, <2>9 DEF PoolInv, DepositBooks
  <2>11. \A f \in Users \cup {ZeroAddress} : StakeBooks(sp, frontEndStakes[f])'
    BY <2>2, <2>9 DEF PoolInv, StakeBooks
  <2>12. PoolBooks(sp)'
    BY <2>2, <2>8 DEF PoolBooks
  <2>13. ops' \in 0..MaxOps
    BY <1>2, <1>7 DEF Offset
  <2> QED
    BY <2>2, <2>10, <2>11, <2>12, <2>13 DEF PoolInv
<1>8. CASE Register
  <2>1. PICK u \in Users, rate \in KickbackRates, t \in Since : registerFrontEnd(u, rate, t)
    BY <1>8 DEF Register
  <2> DEFINE n == distributeFees(sp, t.fees)
  <2>2. /\ sp' = n /\ frontEnds' = [frontEnds EXCEPT ![u] = rate]
        /\ deposits' = deposits /\ frontEndStakes' = frontEndStakes
    BY <2>1, Zenon DEF registerFrontEnd
  <2>3. t.fees \in Nat /\ (t.fees > 0 => sp.total > 0)
    BY PoolConstants DEF Since
  <2>4. PoolBooks(n) /\ n.scale = sp.scale /\ n.S = sp.S
    BY <1>1, <2>3, DistributeBooks
  <2> HIDE DEF n
  <2>5. sp.scale \in 0..MaxScale /\ sp.S \in [0..MaxScale + 1 -> Nat]
    BY <1>1 DEF PoolBooks, Pools
  <2>6. sp.scale <= n.scale /\ \A i \in 0..MaxScale + 1 : sp.S[i] <= n.S[i]
    BY <2>4, <2>5, PoolConstants
  <2>7. /\ \A e : DepositBooks(sp, e) => DepositBooks(n, e)
        /\ \A e : StakeBooks(sp, e) => StakeBooks(n, e)
    BY <1>1, <2>4, <2>6, BooksGrow
  <2>8. frontEnds' \in [Users -> KickbackRates \cup {Unregistered}]
    BY <1>1, <2>2
  <2>9. rate # Unregistered
    BY PoolAssumption DEF Unregistered
  <2>10. ASSUME NEW f \in Users, frontEnds[f] # Unregistered
         PROVE  frontEnds'[f] # Unregistered
    BY <1>1, <2>2, <2>9, <2>10, Zenon
  <2>11. ASSUME NEW v \in Users
         PROVE  DepositBooks(sp, deposits[v])'
    <3>1. DepositBooks(n, deposits[v]) /\ deposits'[v] = deposits[v] /\ sp' = n
      BY <2>2, <2>7 DEF PoolInv
    <3>2. deposits[v].tag \in Users \cup {ZeroAddress}
      BY <3>1 DEF DepositBooks, DepositRecords
    <3> QED
      BY <2>10, <3>1, <3>2 DEF DepositBooks
  <2>12. \A f \in Users \cup {ZeroAddress} : StakeBooks(sp, frontEndStakes[f])'
    BY <2>2, <2>7 DEF PoolInv, StakeBooks
  <2>13. PoolBooks(sp)'
    BY <2>2, <2>4 DEF PoolBooks
  <2>14. ops' \in 0..MaxOps
    BY <1>2, <1>8 DEF Register
  <2> QED
    BY <2>2, <2>8, <2>11, <2>12, <2>13, <2>14 DEF PoolInv
<1>9. CASE Drip
  <2>1. PICK t \in Since : drip(t)
    BY <1>9 DEF Drip
  <2> DEFINE n == distributeFees(sp, t.fees)
  <2>2. /\ sp' = n /\ deposits' = deposits /\ frontEndStakes' = frontEndStakes
        /\ frontEnds' = frontEnds
    BY <2>1, Zenon DEF drip
  <2>3. t.fees \in Nat /\ (t.fees > 0 => sp.total > 0)
    BY PoolConstants DEF Since
  <2>4. PoolBooks(n) /\ n.scale = sp.scale /\ n.S = sp.S
    BY <1>1, <2>3, DistributeBooks
  <2> HIDE DEF n
  <2>5. sp.scale \in 0..MaxScale /\ sp.S \in [0..MaxScale + 1 -> Nat]
    BY <1>1 DEF PoolBooks, Pools
  <2>6. sp.scale <= n.scale /\ \A i \in 0..MaxScale + 1 : sp.S[i] <= n.S[i]
    BY <2>4, <2>5, PoolConstants
  <2>7. /\ \A e : DepositBooks(sp, e) => DepositBooks(n, e)
        /\ \A e : StakeBooks(sp, e) => StakeBooks(n, e)
    BY <1>1, <2>4, <2>6, BooksGrow
  <2>8. \A u \in Users : DepositBooks(sp, deposits[u])'
    BY <2>2, <2>7 DEF PoolInv, DepositBooks
  <2>9. \A f \in Users \cup {ZeroAddress} : StakeBooks(sp, frontEndStakes[f])'
    BY <2>2, <2>7 DEF PoolInv, StakeBooks
  <2>10. PoolBooks(sp)'
    BY <2>2, <2>4 DEF PoolBooks
  <2>11. ops' \in 0..MaxOps
    BY <1>2, <1>9 DEF Drip
  <2> QED
    BY <2>2, <2>8, <2>9, <2>10, <2>11 DEF PoolInv
<1>10. CASE UNCHANGED poolVars
  BY <1>10 DEF poolVars, PoolInv, PoolBooks, DepositBooks, StakeBooks
<1> QED
  BY <1>4, <1>5, <1>6, <1>7, <1>8, <1>9, <1>10 DEF PoolNext

-----------------------------------------------------------------------------
LEMMA PoolTypesHold == PoolInv => PoolTypeOK
<1> SUFFICES ASSUME PoolInv
             PROVE  PoolTypeOK
  OBVIOUS
<1>1. /\ sp \in Pools /\ sp.P >= SCALE_FACTOR
      /\ frontEnds \in [Users -> KickbackRates \cup {Unregistered}] /\ ops \in 0..MaxOps
  BY DEF PoolInv, PoolBooks
<1>2. ASSUME NEW u \in {v \in Users : deposits[v] # NoDeposit}
      PROVE  /\ deposits[u].value > 0 /\ deposits[u].P >= SCALE_FACTOR
             /\ deposits[u].scale <= sp.scale
             /\ deposits[u].tag # ZeroAddress => frontEnds[deposits[u].tag] # Unregistered
  BY DEF PoolInv, DepositBooks
<1> QED
  BY <1>1, <1>2, Zenon DEF PoolTypeOK, Pools

(***************************************************************************)
(* Whatever is distributed, deposited, withdrawn, offset and issued, P     *)
(* stays above the bound of its scale, every remainder and every balance   *)
(* is no less than zero, and every deposit was made at a scale the pool    *)
(* has reached and under a front end that is registered (StabilityPool.sol *)
(* divides by the P of a snapshot and subtracts sums of snapshots).        *)
(***************************************************************************)
THEOREM PoolIsTyped == PoolSpec => []PoolTypeOK
  BY PoolTypesHold, InitPool, PoolStep, PTL DEF PoolSpec

(***************************************************************************)
(* The coins the pool has and the ones promised to it are what it owes.    *)
(***************************************************************************)
THEOREM BalanceIsOwed == PoolSpec => []BalanceAddsUp
<1>1. PoolInv => BalanceAddsUp
  BY DEF PoolInv, PoolBooks, BalanceAddsUp
<1> QED
  BY <1>1, InitPool, PoolStep, PTL DEF PoolSpec

(***************************************************************************)
(* A liquidation that takes no more than it may never runs into one of the *)
(* pool's assertions, as long as the pool holds less than the minimum      *)
(* times DECIMAL_PRECISION: beyond it, what is left of a unit is rounded   *)
(* down to nothing.  In the contract that is 10^36.                        *)
(***************************************************************************)
THEOREM OffsetsNeverAssert ==
  PoolSpec => [](sp.total < MIN_LUSD_IN_SP * DECIMAL_PRECISION => OffsetNeverAsserts)
<1>1. ASSUME PoolInv, sp.total < MIN_LUSD_IN_SP * DECIMAL_PRECISION
      PROVE  OffsetNeverAsserts
  <2>1. SUFFICES ASSUME NEW owed \in Debts, Min({owed, getMaxAmountToOffset(sp)}) > 0
                 PROVE  OffsetAsserts(sp, Min({owed, getMaxAmountToOffset(sp)}))
    BY Zenon DEF OffsetNeverAsserts
  <2> DEFINE most == getMaxAmountToOffset(sp)
             debt == Min({owed, most})
             D == DECIMAL_PRECISION
             T == sp.total
             lossNumerator == LossNumerator(sp, debt)
             q == lossNumerator \div T
  <2>2. PoolBooks(sp)
    BY <1>1 DEF PoolInv
  <2>3. T \in Nat /\ sp.lossError \in Nat /\ D \in Nat \ {0} /\ owed \in Nat
    BY <2>2, PoolConstants DEF PoolBooks, Pools
  <2>4. most \in Nat /\ (most > 0 => most = T - MIN_LUSD_IN_SP /\ T > MIN_LUSD_IN_SP)
    BY <2>2, MostToOffset
  <2>5. debt > 0
    BY <2>1
  <2> HIDE DEF most
  <2>6. debt \in Nat /\ debt <= most
    BY <2>3, <2>4, MinPair
  <2> HIDE DEF debt
  <2>7. most = T - MIN_LUSD_IN_SP /\ debt < T /\ T > 0 /\ MIN_LUSD_IN_SP \in Nat \ {0}
    BY <2>3, <2>4, <2>5, <2>6, PoolConstants
  <2>8. /\ lossNumerator \in Nat
        /\ lossNumerator = IF debt * D >= sp.lossError THEN debt * D - sp.lossError ELSE 0
    BY <2>2, <2>6, <2>7, LossTyped
  <2> HIDE DEF lossNumerator
  <2>9. lossNumerator <= most * D
    <3>1. debt * D <= most * D /\ debt * D \in Nat /\ most * D \in Nat
      BY <2>3, <2>4, <2>6, ProductMonotone
    <3> QED
      BY <2>3, <2>8, <3>1
  <2>10. most * D = T * D - MIN_LUSD_IN_SP * D
    BY <2>3, <2>7
  <2>11. q \in Nat /\ T * q <= lossNumerator
    BY <2>3, <2>7, <2>8, DivBounds
  <2> HIDE DEF q
  <2>12. q + 1 < D
    <3> SUFFICES ASSUME D <= q + 1
                 PROVE  FALSE
      BY <2>3, <2>11
    <3>1. D * T <= (q + 1) * T
      BY <2>3, <2>11, ProductMonotone
    <3>2. (q + 1) * T = T * q + T /\ D * T = T * D
      BY <2>3, <2>11
    <3>3. T < MIN_LUSD_IN_SP * D
      BY <1>1
    <3>4. T * q \in Int /\ T * D \in Int /\ MIN_LUSD_IN_SP * D \in Int /\ most * D \in Int
      BY <2>3, <2>4, <2>7, <2>11
    <3> QED
      BY <2>3, <2>8, <2>9, <2>10, <2>11, <3>1, <3>2, <3>3, <3>4
  <2>13. LossPerUnitStaked(sp, debt) = q + 1
    BY Zenon DEF LossPerUnitStaked, q, lossNumerator
  <2> DEFINE factor == D - LossPerUnitStaked(sp, debt)
  <2>14. factor \in Nat /\ factor > 0 /\ LossPerUnitStaked(sp, debt) <= D
    BY <2>3, <2>11, <2>12, <2>13
  <2>15. Shrink(sp, factor).P > 0
    BY <2>2, <2>14, ShrinkBooks
  <2>16. OffsetAsserts(sp, debt)
    BY <2>7, <2>14, <2>15, Zenon DEF OffsetAsserts
  <2> QED
    BY <2>16, Zenon DEF debt, most
<1>2. PoolInv => (sp.total < MIN_LUSD_IN_SP * DECIMAL_PRECISION => OffsetNeverAsserts)
  BY <1>1
<1> QED
  BY <1>2, InitPool, PoolStep, PTL DEF PoolSpec

-----------------------------------------------------------------------------
(***************************************************************************)
(* The books as a whole                                                    *)
(***************************************************************************)

BooksInv == IInv /\ PoolInv /\ FeeInv

\* A step of the books is a step of one of them, or none, of each.
LEMMA BooksSteps ==
  ASSUME [BooksNext]_booksVars
  PROVE  [RegistryNext]_registryVars /\ [PoolNext]_poolVars /\ [FeeNext]_feeVars
<1>1. CASE UNCHANGED booksVars
  BY <1>1, Zenon DEF booksVars
<1>2. CASE BooksNext
  BY <1>2, Zenon DEF BooksNext
<1> QED
  BY <1>1, <1>2

LEMMA BooksStart == BooksInit => BooksInv
  BY InitIInv, InitPool, InitFees DEF BooksInit, BooksInv

LEMMA BooksStep ==
  ASSUME BooksInv, [BooksNext]_booksVars
  PROVE  BooksInv'
  BY BooksSteps, NextIInv, PoolStep, FeeStep DEF BooksInv

(***************************************************************************)
(* Owners and lists, the pool's product, sums and remainders, and fees and *)
(* stakes keep their types together: no amount falls below zero, and P     *)
(* never below SCALE_FACTOR, whichever of the books is at work.            *)
(***************************************************************************)
THEOREM BooksAreTyped == BooksSpec => []BooksTypeOK
<1>1. BooksInv => BooksTypeOK
  BY PoolTypesHold DEF BooksInv, BooksTypeOK, IInv, FeeInv
<1> QED
  BY <1>1, BooksStart, BooksStep, PTL DEF BooksSpec
=============================================================================
