----------------------- MODULE JournalRecoveryProofs -----------------------
(***************************************************************************)
(* Crash atomicity and durability of Journal, for every size of the log,   *)
(* every set of blocks and batches, and any number of commits, errors,     *)
(* kills, power losses and repeated recoveries.                            *)
(***************************************************************************)
EXTENDS JournalProofs, FiniteSetTheorems, WellFoundedInduction

(* The errors and crashes the journal survives; for each one left out the   *)
(* README names the run or the configuration that breaks a property below.  *)
(* A batch of txn.c has no revokes.                                         *)
Survivable ==
  /\ ErrorSteps \subseteq {"body", "cblock", "cflush", "install", "settle"}
  /\ ReopenUsedLog = FALSE /\ PowerLossInRecovery = FALSE
  /\ \A b \in Batches : b.revoke = <<>>

-----------------------------------------------------------------------------
(* What recovery finds, with every piece of state a parameter: l is a       *)
(* content of the log, s a superblock, L a list of transactions and e the   *)
(* home contents they lead to.                                              *)

Distinct(d) == \A m, n \in DOMAIN d : d[m].target = d[n].target => m = n
Datas == {d \in Seq(Pending) : Distinct(d)}

Whole(t) == t.data \in Datas /\ t.revoke = <<>> /\ Len(t.data) <= MaxTags
IsEmpty(s) == s.start = LOGFS_JOURNAL_EMPTY

(* The transactions of L follow each other without a gap.                   *)
Tiled(L) ==
  \A n \in 1 .. Len(L) - 1 :
    /\ L[n + 1].desc_offset = L[n].desc_offset + Size(L[n])
    /\ L[n + 1].sequence = L[n].sequence + 1
EndOff(L) == L[Len(L)].desc_offset + Size(L[Len(L)])
EndSeq(L) == L[Len(L)].sequence + 1
IsList(L) == /\ L \in Seq(LoggedTxn) /\ Tiled(L)
             /\ \A n \in DOMAIN L : Whole(L[n])

(* Every block of t is what a read of log content l returns.                *)
Stored(l, t) == \A k \in 1 .. Size(t) : l[phys_of(t.desc_offset + k - 1)] = Image(t)[k]

(* The newest copy of a block in L is its content in e ...                  *)
LastWrites(L, e) ==
  \A n \in DOMAIN L : \A i \in DOMAIN L[n].data :
    (\A m \in DOMAIN L : m > n => ~Writes(L[m], L[n].data[i].target))
      => e[L[n].data[i].target] = L[n].data[i].data
(* ... and a block not in L has that content at home, where H[b] is what b  *)
(* may hold.                                                                *)
RestHome(H, L, e) ==
  \A b \in Blocks : (\A n \in DOMAIN L : ~Writes(L[n], b)) => \A v \in H[b] : v = e[b]

(* Block x is no commit block from seq on; or it is one of number seq that  *)
(* a commit of some data in lim tried to write.                             *)
Early(x, seq) == x.type = "commit" => x.sequence < seq
Plain(d, seq) == [data |-> d, revoke |-> <<>>, sequence |-> seq]
Late(x, seq, lim) ==
  x.type = "commit" /\ x.sequence >= seq =>
    x.sequence = seq /\ \E d \in lim : x.checksum = Body(Plain(d, seq))

(* The states a recovery may come back to, from acknowledged contents lg    *)
(* and unacknowledged batches lim.                                          *)
AllowedOf(lg, lim) == {lg} \cup {Apply(lg, d) : d \in lim}

(* Replaying L makes e of home contents H.  The log names all of L, and a   *)
(* whole transaction behind L in the log is one of lim on top of lg.        *)
Replays(H, l, s, L, e, lg, lim) ==
  /\ e \in AllowedOf(lg, lim)
  /\ IsList(L)
  /\ \A n \in DOMAIN L : Stored(l, L[n])
  /\ LastWrites(L, e)
  /\ RestHome(H, L, e)
  /\ IsEmpty(s) => L = <<>>
  /\ ~IsEmpty(s) =>
       /\ L # <<>> /\ s = Super(L[1].desc_offset, L[1].sequence)
       /\ \/ e = lg /\ \A a \in Slots : Late(l[a], EndSeq(L), lim)
          \/ \A a \in Slots : Early(l[a], EndSeq(L))

Recoverable(H, l, s, lg, lim) == \E L, e : Replays(H, l, s, L, e, lg, lim)

-----------------------------------------------------------------------------
(* Sets of indices, blocks of a transaction, lists. *)

(* A set of indices that is not empty has a greatest one.                   *)
LEMMA GreatestOf ==
  ASSUME NEW n \in Nat, NEW T \in SUBSET (1 .. n), T # {}
  PROVE  \E i \in T : \A k \in T : k <= i
<1> DEFINE Above(i) == {k \in T : k > i}
           Sets == {Above(i) : i \in T}
<1>1. IsWellFoundedOn(StrictSubsetOrdering(1 .. n), SUBSET (1 .. n))
  <2>1. IsFiniteSet(1 .. n)
    BY FS_Interval
  <2>2. FiniteSubsetsOf(1 .. n) = SUBSET (1 .. n)
    BY <2>1, FS_FiniteSubsetsOfFinite
  <2>3. QED
    BY <2>2, FS_StrictSubsetOrderingWellFounded
<1>2. Sets \subseteq SUBSET (1 .. n) /\ Sets # {}
  OBVIOUS
<1>3. \E U \in Sets : \A V \in Sets : <<V, U>> \notin StrictSubsetOrdering(1 .. n)
  <2> HIDE DEF Sets
  <2>1. QED
    BY <1>1, <1>2, WFMin
<1>4. PICK i \in T : \A k \in T : <<Above(k), Above(i)>> \notin StrictSubsetOrdering(1 .. n)
  BY <1>3
<1>5. ASSUME NEW k \in T, k > i PROVE FALSE
  <2>1. i \in Int /\ k \in Int /\ \A m \in T : m \in Int
    OBVIOUS
  <2>2. Above(k) \subseteq Above(i)
    <3>1. \A m \in T : m > k => m > i
      BY <1>5, <2>1
    <3>2. QED
      BY <3>1
  <2>3. k \in Above(i) /\ k \notin Above(k)
    BY <1>5, <2>1
  <2>4. <<Above(k), Above(i)>> \in StrictSubsetOrdering(1 .. n)
    BY <2>2, <2>3 DEF StrictSubsetOrdering
  <2>5. QED
    BY <1>4, <2>4
<1>6. \A k \in T : k \in Int
  OBVIOUS
<1>7. QED
  BY <1>5, <1>6

(* The blocks of a transaction without revokes: descriptor, data, commit.   *)
LEMMA PlainBody ==
  ASSUME NEW t, IsTxn(t), t.revoke = <<>>
  PROVE  /\ Len(t.data) \in Nat /\ DOMAIN t.data = 1 .. Len(t.data)
         /\ Size(t) = 2 + Len(t.data)
         /\ Body(t) \in Seq(BodyBlock) /\ Len(Body(t)) = 1 + Len(t.data)
         /\ Body(t)[1] = DescBlock(t)
         /\ \A i \in 1 .. Len(t.data) : Body(t)[i + 1] = DataBlock(t.data[i])
<1> DEFINE D == <<DescBlock(t)>>
           S == [i \in DOMAIN t.data |-> DataBlock(t.data[i])]
<1>1. Len(t.data) \in Nat /\ DOMAIN t.data = 1 .. Len(t.data)
  BY DEF IsTxn
<1>2. Body(t) \in Seq(BodyBlock) /\ Len(Body(t)) = Size(t) - 1 /\ Size(t) = 2 + Len(t.data)
  <2>1. Body(t) \in Seq(BodyBlock) /\ Len(Body(t)) = Size(t) - 1
    BY BodyProps
  <2>2. Size(t) = 2 + Len(t.data)
    BY <1>1 DEF Size
  <2>3. QED
    BY <2>1, <2>2
<1>3. D \o <<>> = D
  OBVIOUS
<1>4. Body(t) = D \o S
  BY <1>3 DEF Body
<1>5. S = [i \in 1 .. Len(t.data) |-> DataBlock(t.data[i])]
  BY <1>1
<1>6. /\ \E X : S \in Seq(X) /\ D \in Seq(X)
      /\ Len(S) = Len(t.data) /\ \A i \in 1 .. Len(t.data) : S[i] = DataBlock(t.data[i])
  <2> DEFINE X == {DataBlock(t.data[i]) : i \in 1 .. Len(t.data)} \cup {DescBlock(t)}
  <2>1. S \in Seq(X) /\ Len(S) = Len(t.data)
    BY <1>1, <1>5
  <2>2. D \in Seq(X)
    OBVIOUS
  <2>3. QED
    BY <1>1, <2>1, <2>2
<1>7. Len(D) = 1 /\ D[1] = DescBlock(t)
  OBVIOUS
<1> HIDE DEF D, S
<1>8. \A i \in 1 .. Len(D) + Len(S) : (D \o S)[i] = IF i <= Len(D) THEN D[i] ELSE S[i - Len(D)]
  BY <1>6, ConcatProperties
<1>9. Body(t)[1] = DescBlock(t)
  <2>1. 1 \in 1 .. Len(D) + Len(S) /\ 1 <= Len(D)
    BY <1>1, <1>6, <1>7
  <2>2. QED
    BY <1>4, <1>7, <1>8, <2>1
<1>10. ASSUME NEW i \in 1 .. Len(t.data) PROVE Body(t)[i + 1] = DataBlock(t.data[i])
  <2>1. i + 1 \in 1 .. Len(D) + Len(S) /\ ~(i + 1 <= Len(D)) /\ (i + 1) - Len(D) = i
    BY <1>1, <1>6, <1>7
  <2>2. QED
    BY <1>4, <1>6, <1>8, <2>1
<1>11. QED
  BY <1>1, <1>2, <1>9, <1>10

(* Where they are in a log that stores the transaction.                     *)
LEMMA StoredBlocks ==
  ASSUME NEW t, IsTxn(t), t.revoke = <<>>, t.desc_offset \in Nat, NEW l
  PROVE  Stored(l, t) <=>
           /\ l[phys_of(t.desc_offset)] = DescBlock(t)
           /\ \A i \in 1 .. Len(t.data) : l[phys_of(t.desc_offset + i)] = DataBlock(t.data[i])
           /\ l[phys_of(t.desc_offset + 1 + Len(t.data))] = CommitBlock(t)
<1> DEFINE n == Len(t.data)
           o == t.desc_offset
<1>1. /\ n \in Nat /\ Size(t) = 2 + n /\ Body(t)[1] = DescBlock(t)
      /\ \A i \in 1 .. n : Body(t)[i + 1] = DataBlock(t.data[i])
  BY PlainBody
<1>2. /\ \A k \in 1 .. Size(t) - 1 : Image(t)[k] = Body(t)[k]
      /\ Image(t)[Size(t)] = CommitBlock(t)
  BY ImageProps
<1> HIDE DEF n, o
<1>3. Image(t)[1] = DescBlock(t) /\ Image(t)[2 + n] = CommitBlock(t)
  BY <1>1, <1>2
<1>4. ASSUME NEW i \in 1 .. n PROVE i + 1 \in 1 .. Size(t) - 1 /\ Image(t)[i + 1] = DataBlock(t.data[i])
  <2>1. i + 1 \in 1 .. Size(t) - 1
    BY <1>1
  <2>2. QED
    BY <1>1, <1>2, <2>1
<1>5. o \in Nat
  BY DEF o
<1>6. ASSUME Stored(l, t)
      PROVE  /\ l[phys_of(o)] = DescBlock(t)
             /\ \A i \in 1 .. n : l[phys_of(o + i)] = DataBlock(t.data[i])
             /\ l[phys_of(o + 1 + n)] = CommitBlock(t)
  <2>1. \A k \in 1 .. 2 + n : l[phys_of(o + k - 1)] = Image(t)[k]
    BY <1>1, <1>6 DEF Stored, o
  <2>2. 1 \in 1 .. 2 + n /\ o + 1 - 1 = o /\ 2 + n \in 1 .. 2 + n /\ o + (2 + n) - 1 = o + 1 + n
    BY <1>1, <1>5
  <2>3. l[phys_of(o)] = DescBlock(t) /\ l[phys_of(o + 1 + n)] = CommitBlock(t)
    BY <1>3, <2>1, <2>2
  <2>4. ASSUME NEW i \in 1 .. n PROVE l[phys_of(o + i)] = DataBlock(t.data[i])
    <3>1. i + 1 \in 1 .. 2 + n /\ o + (i + 1) - 1 = o + i
      BY <1>1, <1>5
    <3>2. QED
      BY <1>4, <2>1, <3>1
  <2>5. QED
    BY <2>3, <2>4
<1>7. ASSUME l[phys_of(o)] = DescBlock(t),
             \A i \in 1 .. n : l[phys_of(o + i)] = DataBlock(t.data[i]),
             l[phys_of(o + 1 + n)] = CommitBlock(t), NEW k \in 1 .. Size(t)
      PROVE  l[phys_of(o + k - 1)] = Image(t)[k]
  <2>1. CASE k = 1
    <3>1. o + k - 1 = o
      BY <1>5, <2>1
    <3>2. QED
      BY <1>3, <1>7, <2>1, <3>1
  <2>2. CASE k = 2 + n
    <3>1. o + k - 1 = o + 1 + n
      BY <1>1, <1>5, <2>2
    <3>2. QED
      BY <1>3, <1>7, <2>2, <3>1
  <2>3. CASE k # 1 /\ k # 2 + n
    <3>1. k - 1 \in 1 .. n /\ (k - 1) + 1 = k /\ o + (k - 1) = o + k - 1
      BY <1>1, <1>5, <2>3
    <3>2. l[phys_of(o + (k - 1))] = DataBlock(t.data[k - 1]) /\ Image(t)[(k - 1) + 1] = DataBlock(t.data[k - 1])
      BY <1>4, <1>7, <3>1
    <3>3. QED
      BY <3>1, <3>2
  <2>4. QED
    BY <2>1, <2>2, <2>3
<1>8. QED
  BY <1>6, <1>7 DEF Stored, n, o

(* Apply changes the blocks of the batch, to what the batch says.           *)
LEMMA ApplyValues ==
  ASSUME NEW e, NEW d \in Datas
  PROVE  /\ DOMAIN Apply(e, d) = Blocks
         /\ \A i \in DOMAIN d : d[i].target \in Blocks /\ Apply(e, d)[d[i].target] = d[i].data
         /\ \A b \in Blocks : (\A i \in DOMAIN d : d[i].target # b) => Apply(e, d)[b] = e[b]
<1>1. d \in Seq(Pending) /\ \A m, n \in DOMAIN d : d[m].target = d[n].target => m = n
  BY DEF Datas, Distinct
<1>2. \A i \in DOMAIN d : d[i].target \in Blocks
  <2>1. \A i \in DOMAIN d : d[i] \in Pending
    BY <1>1
  <2>2. QED
    BY <2>1 DEF Pending
<1>3. ASSUME NEW i \in DOMAIN d PROVE Apply(e, d)[d[i].target] = d[i].data
  <2> DEFINE b == d[i].target
             c == CHOOSE m \in DOMAIN d : d[m].target = b
  <2>1. c \in DOMAIN d /\ d[c].target = b
    OBVIOUS
  <2>2. c = i
    BY <1>1, <2>1
  <2>3. b \in Blocks
    BY <1>2
  <2>4. Apply(e, d)[b] = d[c].data
    BY <2>3 DEF Apply
  <2> HIDE DEF b, c
  <2>5. QED
    BY <2>2, <2>4 DEF b
<1>4. \A b \in Blocks : (\A i \in DOMAIN d : d[i].target # b) => Apply(e, d)[b] = e[b]
  BY DEF Apply
<1>5. DOMAIN Apply(e, d) = Blocks
  BY DEF Apply
<1>6. QED
  BY <1>2, <1>3, <1>4, <1>5

(* The elements of a list are transactions without revokes.                 *)
LEMMA ListElements ==
  ASSUME NEW L, IsList(L)
  PROVE  /\ L \in Seq(LoggedTxn) /\ Len(L) \in Nat /\ DOMAIN L = 1 .. Len(L)
         /\ \A n \in DOMAIN L :
              /\ IsTxn(L[n]) /\ L[n].revoke = <<>> /\ L[n].data \in Datas
              /\ L[n] \in LoggedTxn /\ L[n].desc_offset \in Nat /\ L[n].sequence \in Nat
              /\ Len(L[n].data) \in Nat /\ DOMAIN L[n].data = 1 .. Len(L[n].data)
              /\ Size(L[n]) = 2 + Len(L[n].data) /\ Len(L[n].data) <= MaxTags
<1>1. L \in Seq(LoggedTxn) /\ Len(L) \in Nat /\ DOMAIN L = 1 .. Len(L)
  BY LenProperties DEF IsList
<1>2. ASSUME NEW n \in DOMAIN L
      PROVE  /\ IsTxn(L[n]) /\ L[n].revoke = <<>> /\ L[n].data \in Datas
             /\ L[n] \in LoggedTxn /\ L[n].desc_offset \in Nat /\ L[n].sequence \in Nat
             /\ Len(L[n].data) \in Nat /\ DOMAIN L[n].data = 1 .. Len(L[n].data)
             /\ Size(L[n]) = 2 + Len(L[n].data) /\ Len(L[n].data) <= MaxTags
  <2>1. L[n] \in LoggedTxn
    BY <1>1
  <2>2. IsTxn(L[n]) /\ L[n].desc_offset \in Nat
    BY <2>1, LoggedIsTxn
  <2>3. L[n].revoke = <<>> /\ L[n].data \in Datas /\ Len(L[n].data) <= MaxTags
    BY DEF IsList, Whole
  <2>4. L[n].sequence \in Nat
    BY <2>2 DEF IsTxn
  <2>5. /\ Len(L[n].data) \in Nat /\ DOMAIN L[n].data = 1 .. Len(L[n].data)
        /\ Size(L[n]) = 2 + Len(L[n].data)
    BY <2>2, <2>3, PlainBody
  <2>6. QED
    BY <2>1, <2>2, <2>3, <2>4, <2>5
<1>3. QED
  BY <1>1, <1>2

(* A transaction that starts at the end of a list extends the list.         *)
LEMMA ListAppend ==
  ASSUME NEW L, IsList(L), NEW t \in LoggedTxn, Whole(t),
         L # <<>> => t.desc_offset = EndOff(L) /\ t.sequence = EndSeq(L)
  PROVE  /\ IsList(Append(L, t)) /\ Append(L, t) # <<>>
         /\ Len(Append(L, t)) = Len(L) + 1 /\ DOMAIN Append(L, t) = 1 .. Len(L) + 1
         /\ \A n \in 1 .. Len(L) : Append(L, t)[n] = L[n]
         /\ Append(L, t)[Len(L) + 1] = t
         /\ EndOff(Append(L, t)) = t.desc_offset + Size(t)
         /\ EndSeq(Append(L, t)) = t.sequence + 1
         /\ Append(L, t)[1] = IF L = <<>> THEN t ELSE L[1]
<1> DEFINE K == Append(L, t)
<1>1. /\ L \in Seq(LoggedTxn) /\ Len(L) \in Nat /\ DOMAIN L = 1 .. Len(L)
      /\ \A n \in DOMAIN L : Whole(L[n])
  BY ListElements DEF IsList
<1>2. /\ K \in Seq(LoggedTxn) /\ Len(K) = Len(L) + 1 /\ DOMAIN K = 1 .. Len(L) + 1
      /\ \A n \in 1 .. Len(L) : K[n] = L[n]
      /\ K[Len(L) + 1] = t
  BY <1>1, AppendProperties
<1> HIDE DEF K
<1>3. K # <<>>
  BY <1>1, <1>2
<1>4. \A n \in DOMAIN K : Whole(K[n])
  <2>1. \A n \in 1 .. Len(L) + 1 : n \in 1 .. Len(L) \/ n = Len(L) + 1
    BY <1>1
  <2>2. QED
    BY <1>1, <1>2, <2>1
<1>5. Tiled(K)
  <2> SUFFICES ASSUME NEW n \in 1 .. Len(K) - 1
               PROVE  /\ K[n + 1].desc_offset = K[n].desc_offset + Size(K[n])
                      /\ K[n + 1].sequence = K[n].sequence + 1
    BY DEF Tiled
  <2>1. n \in 1 .. Len(L) /\ K[n] = L[n]
    BY <1>1, <1>2
  <2>2. CASE n = Len(L)
    <3>1. L # <<>>
      BY <1>1, <2>1
    <3>2. K[n + 1] = t
      BY <1>2, <2>2
    <3>3. QED
      BY <2>1, <2>2, <3>1, <3>2 DEF EndOff, EndSeq
  <2>3. CASE n # Len(L)
    <3> DEFINE q == Len(L)
    <3> HIDE DEF q
    <3>0. q \in Nat /\ n \in 1 .. q /\ n # q
      BY <1>1, <2>1, <2>3 DEF q
    <3>1. n \in 1 .. Len(L) - 1 /\ n + 1 \in 1 .. Len(L)
      <4>1. n \in 1 .. q - 1 /\ n + 1 \in 1 .. q
        BY <3>0
      <4>2. QED
        BY <4>1 DEF q
    <3>2. K[n + 1] = L[n + 1]
      BY <1>2, <3>1
    <3>3. QED
      BY <2>1, <3>1, <3>2 DEF IsList, Tiled
  <2>4. QED
    BY <2>2, <2>3
<1>6. EndOff(K) = t.desc_offset + Size(t) /\ EndSeq(K) = t.sequence + 1
  BY <1>2 DEF EndOff, EndSeq
<1>7. K[1] = IF L = <<>> THEN t ELSE L[1]
  <2>1. CASE L = <<>>
    BY <1>2, <2>1
  <2>2. CASE L # <<>>
    <3>1. 1 \in 1 .. Len(L)
      BY <1>1, <2>2, EmptySeq
    <3>2. QED
      BY <1>2, <2>2, <3>1
  <2>3. QED
    BY <2>1, <2>2
<1>8. QED
  BY <1>2, <1>3, <1>4, <1>5, <1>6, <1>7 DEF IsList, K

(* What a longer list leads to.                                             *)
LEMMA ContentAppend ==
  ASSUME NEW L, IsList(L), NEW t \in LoggedTxn, Whole(t), NEW e, NEW H,
         LastWrites(L, e), RestHome(H, L, e)
  PROVE  /\ LastWrites(Append(L, t), Apply(e, t.data))
         /\ RestHome(H, Append(L, t), Apply(e, t.data))
<1> DEFINE K == Append(L, t)
           f == Apply(e, t.data)
<1>1. /\ L \in Seq(LoggedTxn) /\ Len(L) \in Nat /\ DOMAIN L = 1 .. Len(L)
      /\ \A n \in DOMAIN L : L[n].data \in Datas
  BY ListElements
<1>2. /\ DOMAIN K = 1 .. Len(L) + 1
      /\ \A n \in 1 .. Len(L) : K[n] = L[n]
      /\ K[Len(L) + 1] = t
  BY <1>1, AppendProperties
<1>3. /\ \A i \in DOMAIN t.data : f[t.data[i].target] = t.data[i].data
      /\ \A b \in Blocks : ~Writes(t, b) => f[b] = e[b]
  BY ApplyValues DEF Whole, Writes
<1> HIDE DEF K, f
<1>4. /\ Len(L) + 1 \in DOMAIN K /\ \A n \in DOMAIN L : n \in DOMAIN K /\ Len(L) + 1 > n
      /\ \A n \in DOMAIN K : n \in DOMAIN L \/ n = Len(L) + 1
  BY <1>1, <1>2
<1>5. LastWrites(K, f)
  <2> SUFFICES ASSUME NEW n \in DOMAIN K, NEW i \in DOMAIN K[n].data,
                      \A m \in DOMAIN K : m > n => ~Writes(K[m], K[n].data[i].target)
               PROVE  f[K[n].data[i].target] = K[n].data[i].data
    BY DEF LastWrites
  <2>1. CASE n = Len(L) + 1
    BY <1>2, <1>3, <2>1
  <2>2. CASE n \in DOMAIN L
    <3> DEFINE b == L[n].data[i].target
    <3>1. K[n] = L[n] /\ i \in DOMAIN L[n].data
      BY <1>1, <1>2, <2>2
    <3>2. ~Writes(t, b)
      BY <1>2, <1>4, <2>2, <3>1
    <3>3. b \in Blocks
      BY <1>1, <2>2, <3>1, ApplyValues
    <3>4. \A m \in DOMAIN L : m > n => ~Writes(L[m], b)
      <4>1. \A m \in DOMAIN L : m \in DOMAIN K /\ K[m] = L[m]
        BY <1>1, <1>2, <1>4
      <4>2. QED
        BY <3>1, <4>1
    <3>5. e[b] = L[n].data[i].data
      BY <2>2, <3>1, <3>4 DEF LastWrites
    <3> HIDE DEF b
    <3>6. f[b] = e[b]
      BY <1>3, <3>2, <3>3
    <3>7. QED
      BY <3>1, <3>5, <3>6 DEF b
  <2>3. QED
    BY <1>4, <2>1, <2>2
<1>6. RestHome(H, K, f)
  <2> SUFFICES ASSUME NEW b \in Blocks, \A n \in DOMAIN K : ~Writes(K[n], b), NEW v \in H[b]
               PROVE  v = f[b]
    BY DEF RestHome
  <2>1. ~Writes(t, b)
    BY <1>2, <1>4
  <2>2. \A n \in DOMAIN L : ~Writes(L[n], b)
    <3>1. \A m \in DOMAIN L : m \in DOMAIN K /\ K[m] = L[m]
      BY <1>1, <1>2, <1>4
    <3>2. QED
      BY <3>1
  <2>3. v = e[b]
    BY <2>2 DEF RestHome
  <2>4. QED
    BY <1>3, <2>1, <2>3
<1>7. QED
  BY <1>5, <1>6 DEF K, f

(* A list without its oldest transaction is a list with the same end, and   *)
(* the newest copies in it are still the newest.                            *)
LEMMA ListTail ==
  ASSUME NEW K, IsList(K), NEW L \in Seq(LoggedTxn), Len(K) = Len(L) + 1,
         \A i \in 1 .. Len(L) : K[i + 1] = L[i], NEW e, LastWrites(K, e)
  PROVE  /\ IsList(L) /\ LastWrites(L, e)
         /\ L # <<>> => /\ EndOff(L) = EndOff(K) /\ EndSeq(L) = EndSeq(K)
                        /\ L[1].desc_offset = K[1].desc_offset + Size(K[1])
         /\ L = <<>> => EndOff(K) = K[1].desc_offset + Size(K[1])
<1>1. /\ Len(L) \in Nat /\ DOMAIN L = 1 .. Len(L) /\ DOMAIN K = 1 .. Len(L) + 1
  BY LenProperties, ListElements
<1>2. /\ \A i \in DOMAIN L : i + 1 \in DOMAIN K /\ K[i + 1] = L[i]
      /\ \A i \in DOMAIN K : i > 1 => i - 1 \in DOMAIN L /\ (i - 1) + 1 = i
  BY <1>1
<1>3. \A n \in DOMAIN L : Whole(L[n])
  BY <1>2 DEF IsList
<1>4. Tiled(L)
  <2> SUFFICES ASSUME NEW n \in 1 .. Len(L) - 1
               PROVE  /\ L[n + 1].desc_offset = L[n].desc_offset + Size(L[n])
                      /\ L[n + 1].sequence = L[n].sequence + 1
    BY DEF Tiled
  <2>1. n \in DOMAIN L /\ n + 1 \in DOMAIN L /\ n + 1 \in 1 .. Len(K) - 1
    BY <1>1
  <2>2. K[n + 1] = L[n] /\ K[(n + 1) + 1] = L[n + 1]
    BY <1>2, <2>1
  <2>3. QED
    BY <2>1, <2>2 DEF IsList, Tiled
<1>5. LastWrites(L, e)
  <2> SUFFICES ASSUME NEW n \in DOMAIN L, NEW i \in DOMAIN L[n].data,
                      \A m \in DOMAIN L : m > n => ~Writes(L[m], L[n].data[i].target)
               PROVE  e[L[n].data[i].target] = L[n].data[i].data
    BY DEF LastWrites
  <2>1. n + 1 \in DOMAIN K /\ K[n + 1] = L[n]
    BY <1>2
  <2>2. ASSUME NEW m \in DOMAIN K, m > n + 1 PROVE ~Writes(K[m], L[n].data[i].target)
    <3>1. m > 1 /\ m - 1 > n
      BY <1>1, <2>2
    <3>2. m - 1 \in DOMAIN L /\ K[m] = L[m - 1]
      BY <1>2, <3>1
    <3>3. QED
      BY <3>1, <3>2
  <2>3. QED
    BY <2>1, <2>2 DEF LastWrites
<1>6. ASSUME L # <<>>
      PROVE  /\ EndOff(L) = EndOff(K) /\ EndSeq(L) = EndSeq(K)
             /\ L[1].desc_offset = K[1].desc_offset + Size(K[1])
  <2>1. 1 \in DOMAIN L /\ Len(L) \in DOMAIN L
    BY <1>1, <1>6, EmptySeq
  <2>2. K[Len(K)] = L[Len(L)]
    BY <1>2, <2>1
  <2>3. 1 \in 1 .. Len(K) - 1 /\ K[1 + 1] = L[1]
    BY <1>1, <1>2, <2>1
  <2>4. QED
    BY <2>2, <2>3 DEF EndOff, EndSeq, IsList, Tiled
<1>7. L = <<>> => EndOff(K) = K[1].desc_offset + Size(K[1])
  BY DEF EndOff
<1>8. QED
  BY <1>3, <1>4, <1>5, <1>6, <1>7 DEF IsList

-----------------------------------------------------------------------------
(* What a crash leaves. *)

Only(f) == [b \in Blocks |-> {f[b]}]

(* l is a content that a power loss may leave of log region r.              *)
LeftOf(r, l) == l \in [Slots -> LogBlock] /\ \A a \in Slots : l[a] \in r.alt[a]

AllRecoverable(hm, lr, sb, lg, lim) ==
  \A l : LeftOf(lr, l) => \A s \in sb.alt : Recoverable(hm.alt, l, s, lg, lim)

(* Blocks copied home and the log or superblock they were replayed under    *)
(* are all unflushed (ReplayUnflushed).                                     *)
Quiet(lr, sb) == sb.alt = {sb.cur} /\ Unflushed(lr) = {}
Mixed(hm, lr, sb) == Unflushed(hm) # {} /\ ~Quiet(lr, sb)

(* A mount after a kill, and unless ReplayUnflushed one after a power loss, *)
(* comes back to a state the history allows.                                *)
CrashSafe(hm, lr, sb, lg, lim) ==
  /\ Recoverable(Only(hm.cur), lr.cur, sb.cur, lg, lim)
  /\ ~Mixed(hm, lr, sb) => AllRecoverable(hm, lr, sb, lg, lim)

(* A power loss leaves contents that each block may have.                   *)
LEMMA ImagesLeft ==
  ASSUME NEW A, NEW V, NEW r \in Region(A, V), \A a \in A : r.cur[a] \in r.alt[a],
         NEW f \in PowerLossImages(r)
  PROVE  f \in [A -> V] /\ \A a \in A : f[a] \in r.alt[a]
<1> DEFINE U == Unflushed(r)
           choices == {g \in [U -> UNION {r.alt[a] : a \in U}] :
                         \A a \in U : g[a] \in r.alt[a]}
<1>1. DOMAIN r.cur = A
  BY DEF Region
<1>2. PICK g \in choices : f = [a \in DOMAIN r.cur |-> IF a \in U THEN g[a] ELSE r.cur[a]]
  BY DEF PowerLossImages
<1>3. \A a \in U : g[a] \in r.alt[a]
  BY <1>2
<1> HIDE DEF U, choices
<1>4. \A a \in A : f[a] \in r.alt[a]
  BY <1>1, <1>2, <1>3
<1>5. QED
  BY <1>4, RegionImages

(* A write of one block leaves the others alone.                            *)
LEMMA WriteValues ==
  ASSUME NEW A, NEW V, NEW r \in Region(A, V), NEW a \in A, NEW v, NEW torn,
         NEW w, w = logfs_bdev_write(r, a, v, torn)
  PROVE  /\ \A b \in A : b # a => w.cur[b] = r.cur[b] /\ w.alt[b] = r.alt[b]
         /\ w.cur[a] = v /\ w.alt[a] = r.alt[a] \cup {v, torn}
         /\ DOMAIN w.cur = A /\ DOMAIN r.cur = A
<1>1. /\ w.cur = [r.cur EXCEPT ![a] = v]
      /\ w.alt = [r.alt EXCEPT ![a] = @ \cup {v, torn}]
  BY DEF logfs_bdev_write
<1>2. DOMAIN r.cur = A /\ DOMAIN r.alt = A
  BY DEF Region
<1>3. QED
  BY <1>1, <1>2

(* Fewer contents at home are no harder to recover from.                    *)
LEMMA ReplaysLess ==
  ASSUME NEW H, NEW G, NEW l, NEW s, NEW L, NEW e, NEW lg, NEW lim,
         Replays(H, l, s, L, e, lg, lim), \A b \in Blocks : G[b] \subseteq H[b]
  PROVE  Replays(G, l, s, L, e, lg, lim)
<1>1. RestHome(H, L, e)
  BY DEF Replays
<1>2. RestHome(G, L, e)
  BY <1>1 DEF RestHome
<1>3. QED
  BY <1>2 DEF Replays

(* The same for whatever list is replayed.                                  *)
LEMMA RecoverableLess ==
  ASSUME NEW H, NEW G, NEW l, NEW s, NEW lg, NEW lim,
         Recoverable(H, l, s, lg, lim), \A b \in Blocks : G[b] \subseteq H[b]
  PROVE  Recoverable(G, l, s, lg, lim)
BY ReplaysLess DEF Recoverable

(* The page cache is one of the contents a power loss may leave.            *)
LEMMA AllIsSafe ==
  ASSUME NEW hm \in Region(Blocks, Vals \cup {TornVal}), NEW lr \in Region(Slots, LogBlock),
         NEW sb, NEW lg, NEW lim, \A b \in Blocks : hm.cur[b] \in hm.alt[b],
         \A a \in Slots : lr.cur[a] \in lr.alt[a], sb.cur \in sb.alt,
         AllRecoverable(hm, lr, sb, lg, lim)
  PROVE  CrashSafe(hm, lr, sb, lg, lim)
<1>1. LeftOf(lr, lr.cur)
  BY DEF LeftOf, Region
<1>2. Recoverable(hm.alt, lr.cur, sb.cur, lg, lim)
  BY <1>1 DEF AllRecoverable
<1>3. \A b \in Blocks : Only(hm.cur)[b] \subseteq hm.alt[b]
  BY DEF Only
<1>4. Recoverable(Only(hm.cur), lr.cur, sb.cur, lg, lim)
  BY <1>2, <1>3, RecoverableLess
<1>5. QED
  BY <1>4 DEF CrashSafe

(* After a power loss what it left is all there is.                         *)
LEMMA LossIsSafe ==
  ASSUME NEW hm \in Region(Blocks, Vals \cup {TornVal}), NEW lr \in Region(Slots, LogBlock),
         NEW sb, NEW lg, NEW lim, \A b \in Blocks : hm.cur[b] \in hm.alt[b],
         \A a \in Slots : lr.cur[a] \in lr.alt[a], AllRecoverable(hm, lr, sb, lg, lim),
         NEW h \in PowerLossImages(hm), NEW l \in PowerLossImages(lr), NEW s \in sb.alt
  PROVE  CrashSafe(Settled(h), Settled(l), [cur |-> s, alt |-> {s}], lg, lim)
<1>1. h \in [Blocks -> Vals \cup {TornVal}] /\ \A b \in Blocks : h[b] \in hm.alt[b]
  BY ImagesLeft
<1>2. LeftOf(lr, l)
  BY ImagesLeft DEF LeftOf
<1>3. Recoverable(hm.alt, l, s, lg, lim)
  BY <1>2 DEF AllRecoverable
<1>4. /\ Settled(h).cur = h /\ Settled(l).cur = l
      /\ \A b \in Blocks : Settled(h).alt[b] = {h[b]}
      /\ \A a \in Slots : Settled(l).alt[a] = {l[a]}
  BY <1>1, <1>2 DEF Settled, LeftOf
<1>5. \A b \in Blocks : Only(h)[b] \subseteq hm.alt[b] /\ Settled(h).alt[b] \subseteq hm.alt[b]
  BY <1>1, <1>4 DEF Only
<1>6. Recoverable(Only(h), l, s, lg, lim) /\ Recoverable(Settled(h).alt, l, s, lg, lim)
  BY <1>3, <1>5, RecoverableLess
<1>7. ASSUME NEW k, LeftOf(Settled(l), k) PROVE k = l
  <2>1. k \in [Slots -> LogBlock] /\ l \in [Slots -> LogBlock] /\ \A a \in Slots : k[a] = l[a]
    BY <1>2, <1>4, <1>7 DEF LeftOf
  <2>2. QED
    BY <2>1
<1>8. AllRecoverable(Settled(h), Settled(l), [cur |-> s, alt |-> {s}], lg, lim)
  <2> DEFINE sc == [cur |-> s, alt |-> {s}]
  <2>1. \A x \in sc.alt : x = s
    OBVIOUS
  <2> HIDE DEF sc
  <2>2. AllRecoverable(Settled(h), Settled(l), sc, lg, lim)
    BY <1>6, <1>7, <2>1 DEF AllRecoverable
  <2>3. QED
    BY <2>2 DEF sc
<1>9. [cur |-> s, alt |-> {s}].cur = s
  OBVIOUS
<1>10. QED
  BY <1>4, <1>6, <1>8, <1>9 DEF CrashSafe

-----------------------------------------------------------------------------
(* The inductive invariant. *)

HomeCurInAlt == \A b \in Blocks : home.cur[b] \in home.alt[b]

(* A batch names no block twice; what is written to the log is in limbo.    *)
BatchInv ==
  /\ txn.data \in Datas /\ txn.revoke = <<>> /\ limbo \subseteq Datas
  /\ pc \in CommitSteps => txn.data \in limbo /\ Len(txn.data) <= MaxTags

(* The list L lies between offsets lo and hi and ends before number seq.    *)
ListAt(L, lo, hi, seq) ==
  /\ IsList(L)
  /\ L = <<>> => lo = hi
  /\ L # <<>> => L[1].desc_offset = lo /\ EndOff(L) = hi /\ EndSeq(L) = seq

(* The commit blocks in the log, whatever a power loss leaves of it: none   *)
(* is newer than the list, unless it is of an attempt to extend the list.   *)
TailAt(alt, L, seq, lim) ==
  \A a \in Slots : \A x \in alt[a] : IF L = <<>> THEN Early(x, seq + 1) ELSE Late(x, seq, lim)

Needed == IF pc \in {"cktail", "cktflush"} THEN ckpt ELSE Live

(* While mounted: the live transactions, the log behind them, the home      *)
(* blocks they do not replace.                                              *)
UpInv ==
  Up => /\ ListAt(Live, j.tail, LogEnd, LogEndSeq)
        /\ LastWrites(Live, logical)
        /\ TailAt(log.alt, Live, LogEndSeq, limbo)
        /\ RestHome(home.alt, Needed, logical)

(* Superblock s names the oldest transaction of L, or says there is none.   *)
Names(s, L) == IF L = <<>> THEN IsEmpty(s)
               ELSE s = Super(L[1].desc_offset, L[1].sequence)

(* Which superblocks may be on stable storage at each step.                 *)
SuperInv ==
  /\ jsb.cur \in jsb.alt
  /\ Up /\ pc \notin {"jflush", "publish", "cktflush"} =>
       jsb.alt = {jsb.cur} /\ Names(jsb.cur, Live)
  /\ pc \in Writing => (txn.was_empty <=> Live = <<>>)
  /\ pc = "jsuper" => Live = <<>>
  /\ pc = "jflush" => /\ Live = <<>> /\ jsb.cur = Super(txn.desc_offset, txn.sequence)
                      /\ \A s \in jsb.alt : s = jsb.cur \/ IsEmpty(s)
  /\ pc = "publish" => /\ jsb.alt = {jsb.cur}
                       /\ Live = <<>> => jsb.cur = Super(txn.desc_offset, txn.sequence)
                       /\ Live # <<>> => Names(jsb.cur, Live)
  /\ pc = "cktflush" => /\ Names(jsb.cur, ckpt)
                        /\ \A s \in jsb.alt : Names(s, Live) \/ Names(s, ckpt)

(* The blocks checkpoint_oldest has written are what reads return.          *)
CopyInv ==
  pc = "ckwrite" => \A i \in DOMAIN ck.t.data :
                      i < ck.i => home.cur[ck.t.data[i].target] = ck.t.data[i].data

CrashInv == ~Up => CrashSafe(home, log, jsb, logical, limbo)

(* What pass 1 of recovery has found is the beginning of L.                 *)
Found(txns, L) ==
  /\ Len(txns) <= Len(L)
  /\ \A n \in DOMAIN txns :
       /\ txns[n].sequence = L[n].sequence /\ txns[n].data_offset = L[n].desc_offset + 1
       /\ txns[n].tags = [i \in DOMAIN L[n].data |-> L[n].data[i].target]
NextOff(L, q) == IF q < Len(L) THEN L[q + 1].desc_offset ELSE EndOff(L)
NextSeq(L, q) == IF q < Len(L) THEN L[q + 1].sequence ELSE EndSeq(L)

(* Pass 2 has copied block i of transaction n when it is at position N, I.  *)
Behind(n, i, N, I) == n < N \/ (n = N /\ i < I)
Copied(h, L, N, I) ==
  \A n \in DOMAIN L : \A i \in DOMAIN L[n].data :
    /\ Behind(n, i, N, I)
    /\ \A m \in DOMAIN L : \A k \in DOMAIN L[m].data :
         m > n /\ Behind(m, k, N, I) => L[m].data[k].target # L[n].data[i].target
    => h[L[n].data[i].target] = L[n].data[i].data

(* Recovery is on its way to e through the list L.                          *)
Replaying(L, e) ==
  /\ Replays(Only(home.cur), log.cur, jsb.cur, L, e, logical, limbo)
  /\ Quiet(log, jsb) => Replays(home.alt, log.cur, jsb.cur, L, e, logical, limbo)
  /\ Found(rec.txns, L)
  /\ rec.scan = NextOff(L, Len(rec.txns)) /\ rec.expect_seq = NextSeq(L, Len(rec.txns))
  /\ pc = "scan" => rec.n = 1 /\ rec.i = 1
  /\ pc = "install" => Len(rec.txns) = Len(L) /\ Copied(home.cur, L, rec.n, rec.i)

RecInv ==
  /\ pc \in {"scan", "install"} =>
       ~IsEmpty(jsb.cur) /\ rec.revokes = {} /\ \E L, e : Replaying(L, e)
  /\ pc = "settle" =>
       IsEmpty(jsb.cur) /\ \A a \in Slots : Early(log.cur[a], j.next_sequence + 1)

RecoveryInv ==
  /\ LogInv /\ HomeCurInAlt /\ BatchInv
  /\ UpInv /\ SuperInv /\ CopyInv
  /\ CrashInv /\ RecInv

(* The transaction do_commit links to the checkpoint list.                  *)
Published(x) == [data |-> x.data, revoke |-> x.revoke,
                 sequence |-> x.sequence, desc_offset |-> x.desc_offset]

-----------------------------------------------------------------------------
(* While mounted every crash is recoverable. *)

(* A transaction that every power loss leaves whole is stored in what it    *)
(* leaves.                                                                  *)
LEMMA StoredLeft ==
  ASSUME NEW r, NEW l, LeftOf(r, l), NEW t, IsTxn(t), t.desc_offset \in Nat, InLogOf(r, t)
  PROVE  Stored(l, t)
<1> SUFFICES ASSUME NEW k \in 1 .. Size(t)
             PROVE  l[phys_of(t.desc_offset + k - 1)] = Image(t)[k]
  BY DEF Stored
<1> DEFINE a == t.desc_offset + k - 1
<1>1. Size(t) \in Nat
  BY BodyProps
<1>2. a \in Nat
  BY <1>1
<1>3. phys_of(a) \in Slots
  BY <1>2, PhysInSlots
<1>4. r.alt[phys_of(a)] = {Image(t)[k]}
  BY DEF InLogOf
<1> HIDE DEF a
<1>5. QED
  BY <1>3, <1>4 DEF LeftOf, a

(* A list that the superblock names leads to the acknowledged contents.     *)
LEMMA NamedIsRecoverable ==
  ASSUME NEW H, NEW l, NEW s, NEW L, NEW lg, NEW lim,
         IsList(L), \A n \in DOMAIN L : Stored(l, L[n]),
         LastWrites(L, lg), RestHome(H, L, lg), Names(s, L),
         L # <<>> => \A a \in Slots : Late(l[a], EndSeq(L), lim)
  PROVE  Recoverable(H, l, s, lg, lim)
<1>1. CASE L = <<>>
  <2>1. IsEmpty(s)
    BY <1>1 DEF Names
  <2>2. lg \in AllowedOf(lg, lim)
    BY DEF AllowedOf
  <2>3. Replays(H, l, s, L, lg, lg, lim)
    BY <1>1, <2>1, <2>2 DEF Replays
  <2>4. QED
    BY <2>3 DEF Recoverable
<1>2. CASE L # <<>>
  <2>1. s = Super(L[1].desc_offset, L[1].sequence)
    BY <1>2 DEF Names
  <2>2. 1 \in DOMAIN L /\ L[1].desc_offset \in Nat
    <3>1. 1 \in DOMAIN L
      BY <1>2, ListElements, EmptySeq
    <3>2. QED
      BY <3>1, ListElements
  <2>3. ~IsEmpty(s)
    BY <2>1, <2>2 DEF IsEmpty, Super, LOGFS_JOURNAL_EMPTY
  <2>4. lg \in AllowedOf(lg, lim)
    BY DEF AllowedOf
  <2>5. Replays(H, l, s, L, lg, lg, lim)
    BY <1>2, <2>1, <2>3, <2>4 DEF Replays
  <2>6. QED
    BY <2>5 DEF Recoverable
<1>3. QED
  BY <1>1, <1>2

(* A committed transaction that is alone in the log and that the superblock *)
(* names may be replayed before it is acknowledged.                         *)
LEMMA FirstIsRecoverable ==
  ASSUME NEW H, NEW l, NEW t \in LoggedTxn, Whole(t), Stored(l, t), NEW lg, NEW lim,
         t.data \in lim, RestHome(H, <<>>, lg),
         \A a \in Slots : Early(l[a], t.sequence + 1)
  PROVE  Recoverable(H, l, Super(t.desc_offset, t.sequence), lg, lim)
<1> DEFINE L == Append(<<>>, t)
           e == Apply(lg, t.data)
           s == Super(t.desc_offset, t.sequence)
<1>1. IsList(<<>>) /\ LastWrites(<<>>, lg)
  BY DEF IsList, Tiled, LastWrites
<1>2. /\ IsList(L) /\ L # <<>> /\ DOMAIN L = 1 .. 1 /\ L[1] = t /\ EndSeq(L) = t.sequence + 1
  <2>1. Len(<<>>) = 0 /\ 0 + 1 = 1
    OBVIOUS
  <2>2. /\ IsList(L) /\ L # <<>> /\ DOMAIN L = 1 .. Len(<<>>) + 1
        /\ L[1] = IF <<>> = <<>> THEN t ELSE <<>>[1]
        /\ EndSeq(L) = t.sequence + 1
    BY <1>1, ListAppend
  <2>3. QED
    BY <2>1, <2>2
<1>3. LastWrites(L, e) /\ RestHome(H, L, e)
  BY <1>1, ContentAppend
<1>4. e \in AllowedOf(lg, lim)
  BY DEF AllowedOf
<1>5. \A n \in DOMAIN L : Stored(l, L[n])
  BY <1>2
<1>6. ~IsEmpty(s)
  BY LoggedIsTxn DEF IsEmpty, Super, LOGFS_JOURNAL_EMPTY
<1>7. s = Super(L[1].desc_offset, L[1].sequence)
  BY <1>2
<1> HIDE DEF L, e, s
<1>8. Replays(H, l, s, L, e, lg, lim)
  BY <1>2, <1>3, <1>4, <1>5, <1>6, <1>7 DEF Replays
<1>9. QED
  BY <1>8 DEF Recoverable, s

(* The facts of the invariant about the mounted file system.                *)
LEMMA UpFacts ==
  ASSUME RecoveryInv, Up
  PROVE  /\ IsList(Live) /\ LastWrites(Live, logical) /\ RestHome(home.alt, Live, logical)
         /\ ListAt(Live, j.tail, LogEnd, LogEndSeq)
         /\ TailAt(log.alt, Live, LogEndSeq, limbo)
         /\ IsList(ckpt) /\ LastWrites(ckpt, logical)
         /\ ckpt # <<>> => EndSeq(ckpt) = LogEndSeq /\ EndOff(ckpt) = LogEnd /\ Live # <<>>
         /\ ck.caller = "none" => Live = ckpt
         /\ ck.caller # "none" =>
              /\ Live # <<>> /\ Len(Live) = Len(ckpt) + 1 /\ Live[1] = ck.t
              /\ \A i \in 1 .. Len(ckpt) : Live[i + 1] = ckpt[i]
              /\ ckpt # <<>> => ckpt[1].desc_offset = ck.t.desc_offset + Size(ck.t)
              /\ ckpt = <<>> => LogEnd = ck.t.desc_offset + Size(ck.t)
<1>1. /\ Live = LiveOf(ck, ckpt) /\ ckpt \in Seq(LoggedTxn) /\ ck.t \in LoggedTxn
      /\ Live \in Seq(LoggedTxn)
  BY LogFacts DEF RecoveryInv
<1>2. /\ ListAt(Live, j.tail, LogEnd, LogEndSeq) /\ LastWrites(Live, logical)
      /\ TailAt(log.alt, Live, LogEndSeq, limbo) /\ RestHome(home.alt, Needed, logical)
  BY DEF RecoveryInv, UpInv
<1>3. IsList(Live)
  BY <1>2 DEF ListAt
<1>4. CASE ck.caller = "none"
  <2>1. Live = ckpt
    BY <1>1, <1>4, LiveOfProps
  <2>2. Needed = Live
    BY <2>1 DEF Needed
  <2>3. QED
    BY <1>2, <1>3, <1>4, <2>1, <2>2 DEF ListAt
<1>5. CASE ck.caller # "none"
  <2>1. /\ Len(Live) = Len(ckpt) + 1 /\ Live[1] = ck.t
        /\ \A i \in 1 .. Len(ckpt) : Live[i + 1] = ckpt[i]
    BY <1>1, <1>5, LiveOfProps
  <2>2. Len(ckpt) \in Nat /\ DOMAIN ckpt = 1 .. Len(ckpt) /\ DOMAIN Live = 1 .. Len(Live)
    BY <1>1, LenProperties
  <2>3. Live # <<>>
    BY <2>1, <2>2
  <2>4. /\ IsList(ckpt) /\ LastWrites(ckpt, logical)
        /\ ckpt # <<>> => /\ EndOff(ckpt) = EndOff(Live) /\ EndSeq(ckpt) = EndSeq(Live)
                          /\ ckpt[1].desc_offset = Live[1].desc_offset + Size(Live[1])
        /\ ckpt = <<>> => EndOff(Live) = Live[1].desc_offset + Size(Live[1])
    BY <1>1, <1>2, <1>3, <2>1, ListTail
  <2>5. EndOff(Live) = LogEnd /\ EndSeq(Live) = LogEndSeq
    BY <1>2, <2>3 DEF ListAt
  <2>6. RestHome(home.alt, Live, logical)
    <3>1. CASE Needed = Live
      BY <1>2, <3>1
    <3>2. CASE Needed = ckpt
      <4>1. \A i \in DOMAIN ckpt : i + 1 \in DOMAIN Live /\ Live[i + 1] = ckpt[i]
        BY <2>1, <2>2
      <4>2. \A b \in Blocks : (\A n \in DOMAIN Live : ~Writes(Live[n], b))
                                => \A n \in DOMAIN ckpt : ~Writes(ckpt[n], b)
        BY <4>1
      <4>3. QED
        BY <1>2, <3>2, <4>2 DEF RestHome
    <3>3. QED
      BY <3>1, <3>2 DEF Needed
  <2>7. QED
    BY <1>2, <1>3, <1>5, <2>1, <2>3, <2>4, <2>5, <2>6
<1>6. QED
  BY <1>4, <1>5

(* While mounted, whatever a power loss leaves leads to an allowed state.   *)
LEMMA UpIsRecoverable ==
  ASSUME RecoveryInv, Up
  PROVE  AllRecoverable(home, log, jsb, logical, limbo)
<1> SUFFICES ASSUME NEW l, LeftOf(log, l), NEW s \in jsb.alt
             PROVE  Recoverable(home.alt, l, s, logical, limbo)
  BY DEF AllRecoverable
<1>1. LogInv
  BY DEF RecoveryInv
<1>2. \A n \in DOMAIN Live : Stored(l, Live[n])
  <2> SUFFICES ASSUME NEW n \in DOMAIN Live PROVE Stored(l, Live[n])
    OBVIOUS
  <2>1. InLogOf(log, Live[n])
    BY <1>1, LogFacts DEF AllInLog
  <2>2. IsTxn(Live[n]) /\ Live[n].desc_offset \in Nat
    BY UpFacts, ListElements
  <2>3. QED
    BY <2>1, <2>2, StoredLeft
<1>3. Live # <<>> => /\ EndSeq(Live) = LogEndSeq
                     /\ \A a \in Slots : Late(l[a], LogEndSeq, limbo)
  BY UpFacts DEF ListAt, TailAt, LeftOf
<1>4. CASE Names(s, Live)
  BY <1>2, <1>3, <1>4, UpFacts, NamedIsRecoverable
<1>5. CASE pc = "cktflush" /\ Names(s, ckpt)
  <2>1. ck.caller # "none"
    BY <1>1, <1>5 DEF LogInv, TypeInv, CkptSteps
  <2>2. Live # <<>> /\ Len(Live) = Len(ckpt) + 1 /\ \A i \in 1 .. Len(ckpt) : Live[i + 1] = ckpt[i]
    BY <2>1, UpFacts
  <2>3. RestHome(home.alt, ckpt, logical)
    BY <1>5 DEF RecoveryInv, UpInv, Needed
  <2>4. \A n \in DOMAIN ckpt : Stored(l, ckpt[n])
    <3>1. /\ DOMAIN ckpt = 1 .. Len(ckpt) /\ DOMAIN Live = 1 .. Len(Live)
          /\ Len(ckpt) \in Nat
      BY UpFacts, ListElements
    <3>2. \A i \in DOMAIN ckpt : i + 1 \in DOMAIN Live /\ Live[i + 1] = ckpt[i]
      BY <2>2, <3>1
    <3>3. QED
      BY <1>2, <3>2
  <2>5. ckpt # <<>> => \A a \in Slots : Late(l[a], EndSeq(ckpt), limbo)
    BY <1>3, UpFacts
  <2>6. QED
    BY <1>5, <2>3, <2>4, <2>5, UpFacts, NamedIsRecoverable
<1>6. CASE pc \in {"jflush", "publish"} /\ Live = <<>> /\ s = Super(txn.desc_offset, txn.sequence)
  <2> DEFINE t == Published(txn)
  <2>1. /\ t.data = txn.data /\ t.revoke = txn.revoke /\ t.sequence = txn.sequence
        /\ t.desc_offset = txn.desc_offset
    BY DEF Published
  <2>2. IsTxn(txn) /\ txn.desc_offset \in Nat
    BY <1>1, LogFacts
  <2>3. t \in LoggedTxn
    BY <2>2 DEF Published, LoggedTxn, IsTxn
  <2>4. txn.data \in Datas /\ txn.revoke = <<>> /\ txn.data \in limbo /\ Len(txn.data) <= MaxTags
    BY <1>6 DEF RecoveryInv, BatchInv, CommitSteps
  <2>5. Whole(t)
    BY <2>1, <2>4 DEF Whole
  <2>6. Image(t) = Image(txn) /\ Size(t) = Size(txn)
    BY <2>1, ImageOfSame
  <2>7. InLogOf(log, txn)
    BY <1>1, <1>6, <2>2, InLogIsOf DEF LogInv, CommittedInv, PostCommit
  <2>8. Stored(l, t)
    <3>1. Stored(l, txn)
      BY <2>2, <2>7, StoredLeft
    <3>2. QED
      BY <2>1, <2>6, <3>1 DEF Stored
  <2>9. \A a \in Slots : Early(l[a], txn.sequence + 1)
    <3>1. LogEndSeq = txn.sequence
      BY <1>6 DEF LogEndSeq, PostCommit
    <3>2. QED
      BY <1>6, <3>1, UpFacts DEF TailAt, LeftOf
  <2>10. RestHome(home.alt, <<>>, logical)
    BY <1>6, UpFacts
  <2> HIDE DEF t
  <2>11. QED
    BY <1>6, <2>1, <2>3, <2>4, <2>5, <2>8, <2>9, <2>10, FirstIsRecoverable
<1>7. CASE pc = "jflush" /\ Live = <<>> /\ IsEmpty(s)
  BY <1>4, <1>7 DEF Names
<1>8. \/ Names(s, Live)
      \/ pc = "cktflush" /\ Names(s, ckpt)
      \/ pc \in {"jflush", "publish"} /\ Live = <<>> /\ s = Super(txn.desc_offset, txn.sequence)
      \/ pc = "jflush" /\ Live = <<>> /\ IsEmpty(s)
  BY DEF RecoveryInv, SuperInv
<1>9. QED
  BY <1>4, <1>5, <1>6, <1>7, <1>8

(* So is a kill.                                                            *)
LEMMA UpIsSafe ==
  ASSUME RecoveryInv, Up
  PROVE  CrashSafe(home, log, jsb, logical, limbo)
<1>1. /\ home \in Region(Blocks, Vals \cup {TornVal}) /\ log \in Region(Slots, LogBlock)
      /\ \A b \in Blocks : home.cur[b] \in home.alt[b]
      /\ \A a \in Slots : log.cur[a] \in log.alt[a]
      /\ jsb.cur \in jsb.alt
  BY DEF RecoveryInv, LogInv, TypeInv, TypeOK, CurInAlt, HomeCurInAlt, SuperInv
<1>2. QED
  BY <1>1, UpIsRecoverable, AllIsSafe

-----------------------------------------------------------------------------
(* Pass 1 of recovery. *)

(* The descriptor of a transaction names its blocks in order.               *)
LEMMA DescTags ==
  ASSUME NEW t, IsTxn(t)
  PROVE  /\ DescBlock(t).type = "desc" /\ DescBlock(t).sequence = t.sequence
         /\ DescBlock(t).tags = [i \in DOMAIN t.data |-> t.data[i].target]
         /\ DescBlock(t).tags \in Seq(Blocks) /\ Len(DescBlock(t).tags) = Len(t.data)
         /\ DOMAIN DescBlock(t).tags = DOMAIN t.data
<1> DEFINE n == Len(t.data)
           g == [i \in DOMAIN t.data |-> t.data[i].target]
<1>1. n \in Nat /\ DOMAIN t.data = 1 .. n /\ \A i \in 1 .. n : t.data[i] \in Pending
  BY DEF IsTxn
<1>2. \A i \in 1 .. n : t.data[i].target \in Blocks
  BY <1>1 DEF Pending
<1>3. g = [i \in 1 .. n |-> t.data[i].target]
  BY <1>1
<1> HIDE DEF n
<1>4. [i \in 1 .. n |-> t.data[i].target] \in Seq(Blocks)
  BY <1>1, <1>2
<1>5. Len([i \in 1 .. n |-> t.data[i].target]) = n
  BY <1>1
<1>6. g \in Seq(Blocks) /\ Len(g) = n /\ DOMAIN g = DOMAIN t.data
  BY <1>3, <1>4, <1>5
<1>7. /\ DescBlock(t).type = "desc" /\ DescBlock(t).sequence = t.sequence
      /\ DescBlock(t).tags = g
  BY DEF DescBlock
<1>8. QED
  BY <1>6, <1>7 DEF n

(* The scan accepts a transaction that is stored whole where it looks.      *)
LEMMA ScanOfStored ==
  ASSUME NEW t, IsTxn(t), t.revoke = <<>>, t.desc_offset \in Nat, Len(t.data) <= MaxTags,
         Stored(log.cur, t), rec.expect_seq = t.sequence
  PROVE  /\ read_logical(t.desc_offset) = DescBlock(t)
         /\ ~HaveRevoke(DescBlock(t), t.desc_offset)
         /\ CommitOffset(DescBlock(t), t.desc_offset) + 1 = t.desc_offset + Size(t)
         /\ ScanValid(DescBlock(t), t.desc_offset)
<1> DEFINE n == Len(t.data)
           o == t.desc_offset
           d == DescBlock(t)
<1>1. /\ log.cur[phys_of(o)] = d
      /\ \A i \in 1 .. n : log.cur[phys_of(o + i)] = DataBlock(t.data[i])
      /\ log.cur[phys_of(o + 1 + n)] = CommitBlock(t)
  BY StoredBlocks
<1>2. n \in Nat /\ DOMAIN t.data = 1 .. n /\ Size(t) = 2 + n
  BY PlainBody
<1>3. d.type = "desc" /\ d.sequence = t.sequence /\ Len(d.tags) = n /\ DOMAIN d.tags = 1 .. n
  BY <1>2, DescTags
<1>4. /\ CommitBlock(t).type = "commit" /\ CommitBlock(t).sequence = t.sequence
      /\ CommitBlock(t).checksum = Body(t)
  BY DEF CommitBlock
<1>5. \A i \in 1 .. n : read_logical(o + i) = DataBlock(t.data[i])
  BY <1>1 DEF read_logical
<1>6. [i \in DOMAIN d.tags |-> read_logical(o + i)] = [i \in DOMAIN t.data |-> DataBlock(t.data[i])]
  BY <1>2, <1>3, <1>5
<1>7. o \in Nat
  OBVIOUS
<1>8. Body(t) = <<d>> \o <<>> \o [i \in DOMAIN t.data |-> DataBlock(t.data[i])]
  BY DEF Body
<1> HIDE DEF n, o, d
<1>9. read_logical(o + 1 + Len(d.tags)) = CommitBlock(t)
  BY <1>1, <1>3 DEF read_logical
<1>10. ~HaveRevoke(d, o)
  BY <1>4, <1>9 DEF HaveRevoke
<1>11. CommitOffset(d, o) = o + 1 + n
  BY <1>2, <1>3, <1>7, <1>10 DEF CommitOffset
<1>12. ScannedBody(d, o) = Body(t)
  BY <1>6, <1>8, <1>10 DEF ScannedBody
<1>13. read_logical(CommitOffset(d, o)) = CommitBlock(t)
  BY <1>1, <1>11 DEF read_logical
<1>14. Len(d.tags) <= MaxTags /\ d.sequence = rec.expect_seq
  BY <1>3 DEF n
<1>15. ScanValid(d, o)
  BY <1>3, <1>4, <1>12, <1>13, <1>14 DEF ScanValid
<1>16. CommitOffset(d, o) + 1 = o + Size(t)
  BY <1>2, <1>7, <1>11
<1>17. read_logical(o) = d
  BY <1>1 DEF read_logical
<1>18. QED
  BY <1>10, <1>15, <1>16, <1>17 DEF o, d

(* The type field tells the kinds of blocks in the log apart.               *)
LEMMA BlockKinds ==
  ASSUME NEW x \in LogBlock
  PROVE  /\ x.type = "desc" => x \in [type : {"desc"}, sequence : Nat, tags : Seq(Blocks)]
         /\ x.type = "commit" =>
              x \in [type : {"commit"}, sequence : Nat, checksum : Seq(BodyBlock)]
<1>1. CASE x \in {ZeroBlock, TornBlock}
  BY <1>1 DEF ZeroBlock, TornBlock
<1>2. CASE x \in [type : {"desc"}, sequence : Nat, tags : Seq(Blocks)]
  BY <1>2
<1>3. CASE x \in [type : {"revoke"}, sequence : Nat, blocks : Seq(Blocks)]
  BY <1>3
<1>4. CASE x \in [type : {"data"}, data : Vals]
  BY <1>4
<1>5. CASE x \in [type : {"commit"}, sequence : Nat, checksum : Seq(BodyBlock)]
  <2> HIDE DEF BodyBlock
  <2>1. QED
    BY <1>5
<1>6. QED
  BY <1>1, <1>2, <1>3, <1>4, <1>5 DEF LogBlock, BodyBlock

(* What the scan accepts behind the acknowledged transactions is a whole    *)
(* attempt: the checksum covers the descriptor and every data block.        *)
LEMMA ScanOfAttempt ==
  ASSUME log.cur \in [Slots -> LogBlock], NEW off \in Nat, rec.expect_seq \in Nat,
         NEW lim \in SUBSET Datas,
         \A a \in Slots : Late(log.cur[a], rec.expect_seq, lim),
         ScanValid(read_logical(off), off)
  PROVE  \E t \in LoggedTxn : /\ Whole(t) /\ Stored(log.cur, t) /\ t.data \in lim
                              /\ t.desc_offset = off /\ t.sequence = rec.expect_seq
<1> DEFINE desc == read_logical(off)
           seq == rec.expect_seq
           rv == read_logical(off + 1 + Len(desc.tags))
           cb == read_logical(CommitOffset(desc, off))
           R == IF HaveRevoke(desc, off) THEN <<rv>> ELSE <<>>
           S == [i \in DOMAIN desc.tags |-> read_logical(off + i)]
<1>1. \A o \in Nat : phys_of(o) \in Slots /\ read_logical(o) \in LogBlock
  BY PhysInSlots DEF read_logical
<1>2. /\ desc.type = "desc" /\ desc.sequence = seq /\ Len(desc.tags) <= MaxTags
      /\ cb.type = "commit" /\ cb.sequence = seq /\ cb.checksum = ScannedBody(desc, off)
  BY DEF ScanValid
<1>3. desc \in [type : {"desc"}, sequence : Nat, tags : Seq(Blocks)] /\ desc \in LogBlock
  BY <1>1, <1>2, BlockKinds
<1>4. desc.tags \in Seq(Blocks) /\ Len(desc.tags) \in Nat /\ DOMAIN desc.tags = 1 .. Len(desc.tags)
  BY <1>3
<1>5. ScannedBody(desc, off) = <<desc>> \o R \o S
  BY DEF ScannedBody
<1> DEFINE n == Len(desc.tags)
<1>6. CommitOffset(desc, off) \in Nat /\ off + 1 + Len(desc.tags) \in Nat
  <2>1. n \in Nat
    BY <1>4
  <2>2. CommitOffset(desc, off) = off + 1 + n + (IF HaveRevoke(desc, off) THEN 1 ELSE 0)
    BY DEF CommitOffset
  <2> HIDE DEF n, desc
  <2>3. off + 1 + n \in Nat /\ off + 1 + n + 1 \in Nat /\ off + 1 + n + 0 \in Nat
    BY <2>1
  <2>4. CommitOffset(desc, off) \in Nat
    BY <2>2, <2>3
  <2>5. QED
    BY <2>3, <2>4 DEF n
<1>7. cb \in [type : {"commit"}, sequence : Nat, checksum : Seq(BodyBlock)]
  BY <1>1, <1>2, <1>6, BlockKinds
<1>8. PICK d \in lim : cb.checksum = Body(Plain(d, seq))
  <2>1. Late(cb, seq, lim)
    BY <1>1, <1>6 DEF read_logical
  <2>2. QED
    BY <1>2, <2>1 DEF Late
<1> DEFINE u == Plain(d, seq)
           t == [data |-> d, revoke |-> <<>>, sequence |-> seq, desc_offset |-> off]
<1>9. d \in Datas /\ d \in Seq(Pending)
  BY DEF Datas
<1>10. IsTxn(u) /\ u.data = d /\ u.revoke = <<>> /\ u.sequence = seq
  BY <1>9 DEF Plain, IsTxn
<1>11. /\ Len(d) \in Nat /\ DOMAIN d = 1 .. Len(d) /\ Len(Body(u)) = 1 + Len(d)
       /\ Body(u)[1] = DescBlock(u) /\ \A i \in 1 .. Len(d) : Body(u)[i + 1] = DataBlock(d[i])
  BY <1>10, PlainBody
<1>12. /\ S \in Seq(LogBlock) /\ Len(S) = n
       /\ \A i \in 1 .. n : S[i] = read_logical(off + i)
  <2>1. S = [i \in 1 .. n |-> read_logical(off + i)]
    BY <1>4
  <2>2. \A i \in 1 .. n : read_logical(off + i) \in LogBlock
    BY <1>1, <1>4
  <2> HIDE DEF S, n, desc
  <2>3. n \in Nat
    BY <1>4 DEF n
  <2>4. QED
    BY <2>1, <2>2, <2>3
<1>13. /\ R \in Seq(LogBlock) /\ (HaveRevoke(desc, off) => Len(R) = 1)
       /\ (~HaveRevoke(desc, off) => R = <<>> /\ Len(R) = 0)
  <2>1. rv \in LogBlock
    BY <1>1, <1>6
  <2> HIDE DEF rv
  <2>2. CASE HaveRevoke(desc, off)
    <3>1. R = <<rv>>
      BY <2>2
    <3>2. QED
      BY <2>1, <2>2, <3>1
  <2>3. CASE ~HaveRevoke(desc, off)
    BY <2>3
  <2>4. QED
    BY <2>2, <2>3
<1>14. /\ (<<desc>> \o R) \o S = Body(u)
  BY <1>2, <1>5, <1>8
<1> DEFINE D == <<desc>>
<1>15. D \in Seq(LogBlock) /\ Len(D) = 1 /\ D[1] = desc
  BY <1>3
<1> HIDE DEF D, R, S, desc, cb, n, u
<1>16. /\ D \o R \in Seq(LogBlock) /\ Len(D \o R) = 1 + Len(R)
       /\ (D \o R)[1] = desc
  <2>1. /\ D \o R \in Seq(LogBlock) /\ Len(D \o R) = Len(D) + Len(R)
        /\ \A i \in 1 .. Len(D) + Len(R) : (D \o R)[i] = IF i <= Len(D) THEN D[i] ELSE R[i - Len(D)]
    BY <1>13, <1>15, ConcatProperties
  <2>2. Len(R) \in Nat /\ 1 \in 1 .. Len(D) + Len(R) /\ 1 <= Len(D)
    BY <1>13, <1>15
  <2>3. QED
    BY <1>15, <2>1, <2>2
<1>17. /\ Len(Body(u)) = 1 + Len(R) + n /\ Body(u)[1] = desc
       /\ \A i \in 1 .. (1 + Len(R)) + n :
            Body(u)[i] = IF i <= 1 + Len(R) THEN (D \o R)[i] ELSE S[i - (1 + Len(R))]
  <2>1. Body(u) = (D \o R) \o S
    BY <1>14 DEF D
  <2>2. /\ Len((D \o R) \o S) = Len(D \o R) + Len(S)
        /\ \A i \in 1 .. Len(D \o R) + Len(S) :
             ((D \o R) \o S)[i] = IF i <= Len(D \o R) THEN (D \o R)[i] ELSE S[i - Len(D \o R)]
    BY <1>12, <1>16, ConcatProperties
  <2>3. Len(R) \in Nat /\ n \in Nat
    BY <1>4, <1>13 DEF n
  <2>4. 1 \in 1 .. (1 + Len(R)) + n /\ 1 <= 1 + Len(R)
    BY <2>3
  <2>5. QED
    BY <1>12, <1>16, <2>1, <2>2, <2>3, <2>4
<1>18. desc = DescBlock(u) /\ n = Len(d)
  BY <1>10, <1>11, <1>17, DescTags DEF n
<1>19. ~HaveRevoke(desc, off) /\ R = <<>>
  <2>1. Len(R) = 0
    BY <1>4, <1>11, <1>13, <1>17, <1>18 DEF n
  <2>2. QED
    BY <1>13, <2>1
<1>20. \A i \in 1 .. Len(d) : read_logical(off + i) = DataBlock(d[i])
  <2> SUFFICES ASSUME NEW i \in 1 .. Len(d) PROVE read_logical(off + i) = DataBlock(d[i])
    OBVIOUS
  <2>1. Len(R) = 0
    BY <1>13, <1>19
  <2>2. i + 1 \in 1 .. (1 + Len(R)) + n /\ ~(i + 1 <= 1 + Len(R)) /\ (i + 1) - (1 + Len(R)) = i
    BY <1>11, <1>18, <2>1
  <2>3. Body(u)[i + 1] = S[i]
    BY <1>17, <2>2
  <2>4. QED
    BY <1>11, <1>12, <1>18, <2>3
<1>21. CommitOffset(desc, off) = off + 1 + Len(d)
  BY <1>11, <1>18, <1>19 DEF CommitOffset, n
<1>22. /\ t \in LoggedTxn /\ Whole(t) /\ IsTxn(t) /\ t.revoke = <<>> /\ t.data = d
       /\ t.desc_offset = off /\ t.sequence = seq
  BY <1>2, <1>9, <1>18 DEF LoggedTxn, Whole, IsTxn, n
<1>23. DescBlock(t) = DescBlock(u) /\ Body(t) = Body(u)
  BY <1>10, <1>22, ImageOfSame DEF DescBlock
<1> HIDE DEF t, seq
<1>24. cb = CommitBlock(t)
  <2>1. cb = [type |-> cb.type, sequence |-> cb.sequence, checksum |-> cb.checksum]
    BY <1>7
  <2>2. QED
    BY <1>2, <1>8, <1>22, <1>23, <2>1 DEF CommitBlock, u
<1>25. Stored(log.cur, t)
  <2>1. log.cur[phys_of(off)] = DescBlock(t)
    BY <1>18, <1>23 DEF desc, read_logical
  <2>2. \A i \in 1 .. Len(d) : log.cur[phys_of(off + i)] = DataBlock(d[i])
    BY <1>20 DEF read_logical
  <2>3. log.cur[phys_of(off + 1 + Len(d))] = CommitBlock(t)
    BY <1>21, <1>24 DEF cb, read_logical
  <2>4. QED
    BY <1>22, <2>1, <2>2, <2>3, StoredBlocks
<1>26. QED
  BY <1>8, <1>22, <1>25 DEF seq

(* A whole attempt behind the list extends what recovery leads to.          *)
LEMMA ReplaysAppend ==
  ASSUME NEW H, NEW l \in [Slots -> LogBlock], NEW s, NEW L, NEW lg, NEW lim,
         Replays(H, l, s, L, lg, lg, lim), ~IsEmpty(s),
         NEW t \in LoggedTxn, Whole(t), Stored(l, t), t.data \in lim,
         t.desc_offset = EndOff(L), t.sequence = EndSeq(L),
         \A a \in Slots : Late(l[a], EndSeq(L), lim)
  PROVE  Replays(H, l, s, Append(L, t), Apply(lg, t.data), lg, lim)
<1> DEFINE K == Append(L, t)
           f == Apply(lg, t.data)
<1>1. /\ IsList(L) /\ \A n \in DOMAIN L : Stored(l, L[n])
  BY DEF Replays
<1>2. /\ LastWrites(L, lg) /\ RestHome(H, L, lg)
      /\ L # <<>> /\ s = Super(L[1].desc_offset, L[1].sequence)
  BY DEF Replays
<1>3. /\ IsList(K) /\ K # <<>> /\ DOMAIN K = 1 .. Len(L) + 1
      /\ \A n \in 1 .. Len(L) : K[n] = L[n]
      /\ K[Len(L) + 1] = t /\ EndSeq(K) = t.sequence + 1 /\ K[1] = L[1]
  BY <1>1, <1>2, ListAppend
<1>4. LastWrites(K, f) /\ RestHome(H, K, f)
  BY <1>1, <1>2, ContentAppend
<1>5. f \in AllowedOf(lg, lim)
  BY DEF AllowedOf
<1> HIDE DEF K, f
<1>6. Len(L) \in Nat /\ DOMAIN L = 1 .. Len(L)
  BY <1>1, ListElements
<1>7. ASSUME NEW n \in DOMAIN K PROVE Stored(l, K[n])
  <2>1. n \in 1 .. Len(L) \/ n = Len(L) + 1
    BY <1>3, <1>6
  <2>2. QED
    BY <1>1, <1>3, <1>6, <2>1
<1>8. ASSUME NEW a \in Slots PROVE Early(l[a], EndSeq(K))
  <2>1. SUFFICES ASSUME l[a].type = "commit" PROVE l[a].sequence < EndSeq(K)
    BY DEF Early
  <2>2. l[a].sequence \in Nat
    BY <2>1, BlockKinds
  <2>3. t.sequence \in Nat
    BY LoggedIsTxn DEF IsTxn
  <2>4. l[a].sequence >= t.sequence => l[a].sequence = t.sequence
    BY <2>1 DEF Late
  <2>5. QED
    BY <1>3, <2>2, <2>3, <2>4
<1>9. QED
  BY <1>2, <1>3, <1>4, <1>5, <1>7, <1>8 DEF Replays, K, f

(* The types of what recovery reads.                                        *)
LEMMA RecTypes ==
  ASSUME RecoveryInv
  PROVE  /\ log.cur \in [Slots -> LogBlock] /\ log \in Region(Slots, LogBlock)
         /\ home \in Region(Blocks, Vals \cup {TornVal})
         /\ home.cur \in [Blocks -> Vals \cup {TornVal}]
         /\ jsb.cur \in SuperBlock /\ jsb.alt \subseteq SuperBlock /\ jsb.cur \in jsb.alt
         /\ rec.scan \in Nat /\ rec.expect_seq \in Nat
         /\ rec.n \in Nat \ {0} /\ rec.i \in Nat \ {0}
         /\ rec.txns \in Seq([sequence : Nat, tags : Seq(Blocks), data_offset : Nat])
         /\ Len(rec.txns) \in Nat /\ DOMAIN rec.txns = 1 .. Len(rec.txns)
         /\ limbo \subseteq Datas
         /\ \A b \in Blocks : home.cur[b] \in home.alt[b]
         /\ \A a \in Slots : log.cur[a] \in log.alt[a]
         /\ logical \in [Blocks -> Vals \cup {TornVal}]
<1>1. TypeOK
  BY DEF RecoveryInv, LogInv, TypeInv
<1>2. /\ log.cur \in [Slots -> LogBlock] /\ log \in Region(Slots, LogBlock)
      /\ home \in Region(Blocks, Vals \cup {TornVal})
      /\ home.cur \in [Blocks -> Vals \cup {TornVal}]
      /\ logical \in [Blocks -> Vals \cup {TornVal}]
  BY <1>1 DEF TypeOK, Region
<1>3. jsb.cur \in SuperBlock /\ jsb.alt \subseteq SuperBlock
  BY <1>1 DEF TypeOK
<1>4. /\ rec.scan \in Nat /\ rec.expect_seq \in Nat
      /\ rec.n \in Nat \ {0} /\ rec.i \in Nat \ {0}
      /\ rec.txns \in Seq([sequence : Nat, tags : Seq(Blocks), data_offset : Nat])
  BY <1>1 DEF TypeOK
<1>5. Len(rec.txns) \in Nat /\ DOMAIN rec.txns = 1 .. Len(rec.txns)
  BY <1>4, LenProperties
<1>6. jsb.cur \in jsb.alt /\ limbo \subseteq Datas
  BY DEF RecoveryInv, SuperInv, BatchInv
<1>7. (\A b \in Blocks : home.cur[b] \in home.alt[b]) /\ \A a \in Slots : log.cur[a] \in log.alt[a]
  BY DEF RecoveryInv, HomeCurInAlt, LogInv, CurInAlt
<1>8. QED
  BY <1>2, <1>3, <1>4, <1>5, <1>6, <1>7

(* What recovery leads to, with the part about a quiet device.              *)
LeadsTo(L, e) ==
  /\ Replays(Only(home.cur), log.cur, jsb.cur, L, e, logical, limbo)
  /\ Quiet(log, jsb) => Replays(home.alt, log.cur, jsb.cur, L, e, logical, limbo)

(* The scan accepts the next transaction exactly when there is one, in the  *)
(* list it is on or in a longer one.                                        *)
LEMMA ScanAccepts ==
  ASSUME RecoveryInv, NEW L, NEW e, Replaying(L, e), ~IsEmpty(jsb.cur),
         ScanValid(read_logical(rec.scan), rec.scan)
  PROVE  \E K, f : /\ LeadsTo(K, f) /\ Found(rec.txns, K) /\ Len(rec.txns) < Len(K)
                   /\ rec.scan = K[Len(rec.txns) + 1].desc_offset
                   /\ rec.expect_seq = K[Len(rec.txns) + 1].sequence
<1> DEFINE q == Len(rec.txns)
<1>1. /\ LeadsTo(L, e) /\ Found(rec.txns, L)
      /\ rec.scan = NextOff(L, q) /\ rec.expect_seq = NextSeq(L, q)
  BY DEF Replaying, LeadsTo
<1>2. IsList(L) /\ L # <<>>
  BY <1>1 DEF LeadsTo, Replays
<1>3. Len(L) \in Nat /\ DOMAIN L = 1 .. Len(L) /\ q \in Nat /\ DOMAIN rec.txns = 1 .. q
  BY <1>2, ListElements, RecTypes
<1>4. CASE q < Len(L)
  BY <1>1, <1>4 DEF NextOff, NextSeq
<1>5. CASE ~(q < Len(L))
  <2>1. q = Len(L) /\ rec.scan = EndOff(L) /\ rec.expect_seq = EndSeq(L)
    BY <1>1, <1>3, <1>5 DEF Found, NextOff, NextSeq
  <2>2. e = logical /\ \A a \in Slots : Late(log.cur[a], EndSeq(L), limbo)
    <3>1. SUFFICES ASSUME \A a \in Slots : Early(log.cur[a], EndSeq(L)) PROVE FALSE
      BY <1>1 DEF LeadsTo, Replays
    <3> DEFINE desc == read_logical(rec.scan)
               o == CommitOffset(desc, rec.scan)
    <3>2. /\ desc.type = "desc" /\ read_logical(o).type = "commit"
          /\ read_logical(o).sequence = rec.expect_seq
      BY DEF ScanValid
    <3>3. o \in Nat
      <4>1. desc \in LogBlock
        BY RecTypes, PhysInSlots DEF read_logical
      <4>2. desc.tags \in Seq(Blocks)
        BY <3>2, <4>1, BlockKinds
      <4> DEFINE n == Len(desc.tags)
                 c == rec.scan
      <4>3. n \in Nat /\ c \in Nat
        BY <4>2, RecTypes
      <4>4. o = c + 1 + n + (IF HaveRevoke(desc, rec.scan) THEN 1 ELSE 0)
        BY DEF CommitOffset
      <4> HIDE DEF n, c, desc, o
      <4>5. c + 1 + n + 1 \in Nat /\ c + 1 + n + 0 \in Nat
        BY <4>3
      <4>6. QED
        BY <4>4, <4>5
    <3> HIDE DEF desc, o
    <3>4. phys_of(o) \in Slots
      BY <3>3, PhysInSlots
    <3>5. log.cur[phys_of(o)].type = "commit" /\ log.cur[phys_of(o)].sequence = EndSeq(L)
      BY <2>1, <3>2 DEF read_logical
    <3>6. EndSeq(L) < EndSeq(L)
      BY <3>1, <3>4, <3>5 DEF Early
    <3>7. EndSeq(L) \in Nat
      BY <2>1, RecTypes
    <3>8. QED
      BY <3>6, <3>7
  <2>3. PICK t \in LoggedTxn : /\ Whole(t) /\ Stored(log.cur, t) /\ t.data \in limbo
                               /\ t.desc_offset = rec.scan /\ t.sequence = rec.expect_seq
    <3>1. /\ log.cur \in [Slots -> LogBlock] /\ rec.scan \in Nat /\ rec.expect_seq \in Nat
          /\ limbo \in SUBSET Datas
      BY RecTypes
    <3>2. \A a \in Slots : Late(log.cur[a], rec.expect_seq, limbo)
      BY <2>1, <2>2
    <3>3. QED
      BY <3>1, <3>2, ScanOfAttempt
  <2> DEFINE K == Append(L, t)
             f == Apply(logical, t.data)
  <2>4. /\ Len(K) = Len(L) + 1 /\ DOMAIN K = 1 .. Len(L) + 1
        /\ \A n \in 1 .. Len(L) : K[n] = L[n]
        /\ K[Len(L) + 1] = t
    BY <1>2, <2>1, <2>3, ListAppend
  <2>5. LeadsTo(K, f)
    <3>1. Replays(Only(home.cur), log.cur, jsb.cur, L, logical, logical, limbo)
      BY <1>1, <2>2 DEF LeadsTo
    <3>2. Quiet(log, jsb) => Replays(home.alt, log.cur, jsb.cur, L, logical, logical, limbo)
      BY <1>1, <2>2 DEF LeadsTo
    <3>3. Replays(Only(home.cur), log.cur, jsb.cur, K, f, logical, limbo)
      BY <2>1, <2>2, <2>3, <3>1, RecTypes, ReplaysAppend
    <3>4. Quiet(log, jsb) => Replays(home.alt, log.cur, jsb.cur, K, f, logical, limbo)
      BY <2>1, <2>2, <2>3, <3>2, RecTypes, ReplaysAppend
    <3>5. QED
      BY <3>3, <3>4 DEF LeadsTo
  <2> HIDE DEF K, f
  <2>6. Found(rec.txns, K)
    <3>1. \A n \in DOMAIN rec.txns : K[n] = L[n]
      BY <1>3, <2>1, <2>4
    <3>2. Len(rec.txns) <= Len(K)
      BY <1>3, <2>1, <2>4
    <3>3. QED
      BY <1>1, <3>1, <3>2 DEF Found
  <2>7. q < Len(K) /\ K[q + 1] = t
    BY <1>3, <2>1, <2>4
  <2>8. QED
    BY <2>3, <2>5, <2>6, <2>7
<1>6. QED
  BY <1>4, <1>5

(* One more transaction found.                                              *)
LEMMA FoundNext ==
  ASSUME RecoveryInv, pc = "scan", rec.revokes = {}, RecoverScan,
         NEW K, NEW f, LeadsTo(K, f), Found(rec.txns, K), Len(rec.txns) < Len(K),
         rec.scan = K[Len(rec.txns) + 1].desc_offset,
         rec.expect_seq = K[Len(rec.txns) + 1].sequence,
         rec.n = 1, rec.i = 1
  PROVE  Replaying(K, f)' /\ rec'.revokes = {}
<1> DEFINE q == Len(rec.txns)
           t == K[q + 1]
           desc == read_logical(rec.scan)
<1>1. IsList(K) /\ \A n \in DOMAIN K : Stored(log.cur, K[n])
  BY DEF LeadsTo, Replays
<1>2. Len(K) \in Nat /\ DOMAIN K = 1 .. Len(K) /\ q \in Nat /\ DOMAIN rec.txns = 1 .. q
  BY <1>1, ListElements, RecTypes
<1>3. q < Len(K) /\ q + 1 \in DOMAIN K
  BY <1>2
<1>4. /\ IsTxn(t) /\ t.revoke = <<>> /\ t.desc_offset \in Nat /\ Len(t.data) <= MaxTags
      /\ Stored(log.cur, t)
  BY <1>1, <1>3, ListElements
<1>5. /\ desc = DescBlock(t) /\ ~HaveRevoke(desc, rec.scan)
      /\ CommitOffset(desc, rec.scan) + 1 = t.desc_offset + Size(t)
  BY <1>4, ScanOfStored
<1> DEFINE r == [sequence |-> desc.sequence, tags |-> desc.tags, data_offset |-> rec.scan + 1]
<1>6. /\ rec'.txns = Append(rec.txns, r) /\ rec'.expect_seq = desc.sequence + 1
      /\ rec'.scan = CommitOffset(desc, rec.scan) + 1 /\ rec'.n = rec.n /\ rec'.i = rec.i
      /\ pc' = pc /\ UNCHANGED <<home, log, jsb, logical, limbo>>
  BY DEF RecoverScan, RecoveryInv, LogInv, TypeInv, TypeOK
<1>7. rec'.revokes = {}
  BY <1>5 DEF RecoverScan, RecoveryInv, LogInv, TypeInv, TypeOK
<1>8. /\ r.sequence = t.sequence /\ r.data_offset = t.desc_offset + 1
      /\ r.tags = [i \in DOMAIN t.data |-> t.data[i].target]
  BY <1>4, <1>5, DescTags
<1>9. /\ Len(rec'.txns) = q + 1 /\ DOMAIN rec'.txns = 1 .. q + 1
      /\ \A n \in 1 .. q : rec'.txns[n] = rec.txns[n]
      /\ rec'.txns[q + 1] = r
  <2>1. r \in [sequence : Nat, tags : Seq(Blocks), data_offset : Nat]
    <3>1. desc.sequence = t.sequence /\ desc.tags \in Seq(Blocks)
      BY <1>4, <1>5, DescTags
    <3>2. t.sequence \in Nat /\ rec.scan + 1 \in Nat
      BY <1>4, RecTypes DEF IsTxn
    <3>3. QED
      BY <3>1, <3>2
  <2> HIDE DEF r
  <2>2. rec.txns \in Seq([sequence : Nat, tags : Seq(Blocks), data_offset : Nat])
    BY RecTypes
  <2>3. QED
    BY <1>2, <1>6, <2>1, <2>2, AppendProperties
<1> HIDE DEF r
<1>10. Found(rec'.txns, K)
  <2>1. Len(rec'.txns) <= Len(K)
    BY <1>2, <1>9
  <2>2. ASSUME NEW n \in DOMAIN rec'.txns
        PROVE  /\ rec'.txns[n].sequence = K[n].sequence
               /\ rec'.txns[n].data_offset = K[n].desc_offset + 1
               /\ rec'.txns[n].tags = [i \in DOMAIN K[n].data |-> K[n].data[i].target]
    <3>1. CASE n = q + 1
      BY <1>8, <1>9, <3>1
    <3>2. CASE n \in 1 .. q
      BY <1>2, <1>9, <3>2 DEF Found
    <3>3. QED
      BY <1>2, <1>9, <3>1, <3>2
  <2>3. QED
    BY <2>1, <2>2 DEF Found
<1>11. rec'.scan = NextOff(K, q + 1) /\ rec'.expect_seq = NextSeq(K, q + 1)
  <2>1. rec'.scan = t.desc_offset + Size(t) /\ rec'.expect_seq = t.sequence + 1
    BY <1>4, <1>5, <1>6, DescTags
  <2>2. CASE q + 1 < Len(K)
    <3>1. q + 1 \in 1 .. Len(K) - 1
      BY <1>2, <2>2
    <3>2. /\ K[(q + 1) + 1].desc_offset = t.desc_offset + Size(t)
          /\ K[(q + 1) + 1].sequence = t.sequence + 1
      BY <1>1, <3>1 DEF IsList, Tiled
    <3>3. QED
      BY <2>1, <2>2, <3>2 DEF NextOff, NextSeq
  <2>3. CASE ~(q + 1 < Len(K))
    <3>1. q + 1 = Len(K)
      <4>1. \A x, y \in Nat : x < y /\ ~(x + 1 < y) => x + 1 = y
        OBVIOUS
      <4>2. q \in Nat /\ Len(K) \in Nat /\ q < Len(K)
        BY <1>2, <1>3
      <4> HIDE DEF q
      <4>3. QED
        BY <2>3, <4>1, <4>2
    <3>2. QED
      BY <2>1, <2>3, <3>1 DEF NextOff, NextSeq, EndOff, EndSeq
  <2>4. QED
    BY <2>2, <2>3
<1> HIDE DEF t, desc, q
<1>12. /\ Replays(Only(home'.cur), log'.cur, jsb'.cur, K, f, logical', limbo')
       /\ Quiet(log', jsb') => Replays(home'.alt, log'.cur, jsb'.cur, K, f, logical', limbo')
  BY <1>6 DEF LeadsTo
<1>13. Replaying(K, f)'
  BY <1>6, <1>9, <1>10, <1>11, <1>12 DEF Replaying
<1>14. QED
  BY <1>7, <1>13

-----------------------------------------------------------------------------
(* The steps of a mount. *)

(* A step to a state in which the file system is not mounted.               *)
LEMMA DownGoal ==
  ASSUME LogInv', pc' \in MountSteps \cup {"down"}, HomeCurInAlt', jsb'.cur \in jsb'.alt,
         txn'.data \in Datas, txn'.revoke = <<>>, limbo' \subseteq Datas,
         CrashSafe(home', log', jsb', logical', limbo'), RecInv'
  PROVE  RecoveryInv'
<1>1. ~Up' /\ pc' \notin CommitSteps \cup CkptSteps \cup Writing
  BY DEF Up, MountSteps, CommitSteps, CkptSteps, Writing
<1>2. BatchInv' /\ UpInv' /\ CopyInv' /\ CrashInv'
  BY <1>1 DEF BatchInv, UpInv, CopyInv, CkptSteps, CrashInv
<1>3. SuperInv'
  BY <1>1 DEF SuperInv, CommitSteps, CkptSteps
<1>4. QED
  BY <1>2, <1>3 DEF RecoveryInv

(* The facts that hold when the file system is not mounted.                 *)
LEMMA DownFacts ==
  ASSUME RecoveryInv, pc \in MountSteps \cup {"down"}
  PROVE  /\ CrashSafe(home, log, jsb, logical, limbo) /\ RecInv
         /\ txn.data \in Datas /\ txn.revoke = <<>> /\ limbo \subseteq Datas
<1>1. ~Up
  BY DEF Up
<1>2. QED
  BY <1>1 DEF RecoveryInv, CrashInv, BatchInv

(* A step that leaves the device and the history alone.                     *)
LEMMA DownSame ==
  ASSUME RecoveryInv, pc \in MountSteps \cup {"down"}, LogInv',
         pc' \in MountSteps \cup {"down"}, txn'.data \in Datas, txn'.revoke = <<>>,
         UNCHANGED <<home, log, jsb, logical, limbo>>, RecInv'
  PROVE  RecoveryInv'
<1>1. HomeCurInAlt' /\ jsb'.cur \in jsb'.alt
  BY RecTypes DEF HomeCurInAlt
<1>2. CrashSafe(home', log', jsb', logical', limbo') /\ limbo' \subseteq Datas
  BY DownFacts
<1>3. QED
  BY <1>1, <1>2, DownGoal

(* A quiet device has one content of the log.                               *)
LEMMA QuietLog ==
  ASSUME NEW r \in Region(Slots, LogBlock), Unflushed(r) = {}, NEW l, LeftOf(r, l)
  PROVE  l = r.cur
<1>1. DOMAIN r.cur = Slots /\ r.cur \in [Slots -> LogBlock]
  BY DEF Region
<1>2. \A a \in Slots : r.alt[a] = {r.cur[a]}
  BY <1>1 DEF Unflushed
<1>3. l \in [Slots -> LogBlock] /\ \A a \in Slots : l[a] = r.cur[a]
  BY <1>2 DEF LeftOf
<1>4. QED
  BY <1>1, <1>3

(* logfs_journal_open on a log that is in use.                              *)
LEMMA MountOpens ==
  ASSUME RecoveryInv, LogInv', OpenNonempty
  PROVE  RecoveryInv'
<1>1. /\ pc = "down" /\ pc' = "scan" /\ UNCHANGED <<home, log, jsb, logical, limbo, txn>>
      /\ ~IsEmpty(jsb.cur)
      /\ rec' = [NoRec EXCEPT !.scan = jsb.cur.start, !.expect_seq = jsb.cur.sequence]
  BY DEF OpenNonempty, IsEmpty
<1>2. CrashSafe(home, log, jsb, logical, limbo) /\ txn.data \in Datas /\ txn.revoke = <<>>
  BY <1>1, DownFacts
<1>3. \E L, e : LeadsTo(L, e)
  <2>1. CASE Quiet(log, jsb)
    <3>1. AllRecoverable(home, log, jsb, logical, limbo)
      BY <1>2, <2>1 DEF CrashSafe, Mixed
    <3>2. LeftOf(log, log.cur) /\ jsb.cur \in jsb.alt
      BY RecTypes DEF LeftOf
    <3>3. PICK L, e : Replays(home.alt, log.cur, jsb.cur, L, e, logical, limbo)
      BY <3>1, <3>2 DEF AllRecoverable, Recoverable
    <3>4. \A b \in Blocks : Only(home.cur)[b] \subseteq home.alt[b]
      BY RecTypes DEF Only
    <3>5. Replays(Only(home.cur), log.cur, jsb.cur, L, e, logical, limbo)
      BY <3>3, <3>4, ReplaysLess
    <3>6. QED
      BY <3>3, <3>5 DEF LeadsTo
  <2>2. CASE ~Quiet(log, jsb)
    <3>1. PICK L, e : Replays(Only(home.cur), log.cur, jsb.cur, L, e, logical, limbo)
      BY <1>2 DEF CrashSafe, Recoverable
    <3>2. QED
      BY <2>2, <3>1 DEF LeadsTo
  <2>3. QED
    BY <2>1, <2>2
<1>4. PICK L, e : LeadsTo(L, e)
  BY <1>3
<1>5. IsList(L) /\ L # <<>> /\ jsb.cur = Super(L[1].desc_offset, L[1].sequence)
  BY <1>1, <1>4 DEF LeadsTo, Replays
<1>6. Len(L) \in Nat /\ 0 < Len(L)
  BY <1>5, ListElements, EmptySeq
<1>7. /\ rec'.txns = <<>> /\ rec'.n = 1 /\ rec'.i = 1 /\ rec'.revokes = {}
      /\ rec'.scan = L[1].desc_offset /\ rec'.expect_seq = L[1].sequence
  BY <1>1, <1>5 DEF NoRec, Super
<1>8. Len(rec'.txns) = 0 /\ DOMAIN rec'.txns = {} /\ 0 + 1 = 1
  BY <1>7
<1>9. Found(rec'.txns, L)
  BY <1>6, <1>8 DEF Found
<1>10. rec'.scan = NextOff(L, Len(rec'.txns)) /\ rec'.expect_seq = NextSeq(L, Len(rec'.txns))
  BY <1>6, <1>7, <1>8 DEF NextOff, NextSeq
<1>11. Replaying(L, e)'
  BY <1>1, <1>4, <1>7, <1>9, <1>10 DEF Replaying, LeadsTo
<1>12. RecInv'
  BY <1>1, <1>7, <1>11 DEF RecInv
<1>13. QED
  BY <1>1, <1>2, <1>12, DownSame DEF MountSteps

(* Pass 1 of logfs_journal_recover.                                         *)
LEMMA MountScans ==
  ASSUME RecoveryInv, LogInv', RecoverScan \/ RecoverScanEnd
  PROVE  RecoveryInv'
<1>1. pc = "scan" /\ UNCHANGED <<home, log, jsb, logical, limbo, txn>>
  BY DEF RecoverScan, RecoverScanEnd
<1>2. ~IsEmpty(jsb.cur) /\ rec.revokes = {} /\ \E L, e : Replaying(L, e)
  BY <1>1 DEF RecoveryInv, RecInv
<1>3. PICK L, e : Replaying(L, e)
  BY <1>2
<1>4. txn.data \in Datas /\ txn.revoke = <<>>
  BY <1>1, DownFacts DEF MountSteps
<1>5. CASE RecoverScan
  <2>1. pc' = "scan" /\ ScanValid(read_logical(rec.scan), rec.scan)
    BY <1>1, <1>5 DEF RecoverScan
  <2>2. PICK K, f : /\ LeadsTo(K, f) /\ Found(rec.txns, K) /\ Len(rec.txns) < Len(K)
                    /\ rec.scan = K[Len(rec.txns) + 1].desc_offset
                    /\ rec.expect_seq = K[Len(rec.txns) + 1].sequence
    BY <1>2, <1>3, <2>1, ScanAccepts
  <2>3. rec.n = 1 /\ rec.i = 1
    BY <1>1, <1>3 DEF Replaying
  <2>4. Replaying(K, f)' /\ rec'.revokes = {}
    BY <1>1, <1>2, <1>5, <2>2, <2>3, FoundNext
  <2>5. RecInv'
    BY <1>1, <1>2, <2>1, <2>4 DEF RecInv
  <2>6. QED
    BY <1>1, <1>4, <2>1, <2>5, DownSame DEF MountSteps
<1>6. CASE RecoverScanEnd
  <2>1. pc' = "install" /\ rec' = rec /\ ~ScanValid(read_logical(rec.scan), rec.scan)
    BY <1>6 DEF RecoverScanEnd
  <2> DEFINE q == Len(rec.txns)
  <2>2. /\ LeadsTo(L, e) /\ Found(rec.txns, L) /\ rec.scan = NextOff(L, q)
        /\ rec.expect_seq = NextSeq(L, q) /\ rec.n = 1 /\ rec.i = 1
    BY <1>1, <1>3 DEF Replaying, LeadsTo
  <2>3. IsList(L) /\ \A n \in DOMAIN L : Stored(log.cur, L[n])
    BY <2>2 DEF LeadsTo, Replays
  <2>4. Len(L) \in Nat /\ DOMAIN L = 1 .. Len(L) /\ q \in Nat /\ q <= Len(L)
    BY <2>2, <2>3, ListElements, RecTypes DEF Found
  <2>5. ~(q < Len(L))
    <3>1. SUFFICES ASSUME q < Len(L) PROVE FALSE
      OBVIOUS
    <3>2. q + 1 \in DOMAIN L
      BY <2>4, <3>1
    <3>3. rec.scan = L[q + 1].desc_offset /\ rec.expect_seq = L[q + 1].sequence
      BY <2>2, <3>1 DEF NextOff, NextSeq
    <3>4. /\ IsTxn(L[q + 1]) /\ L[q + 1].revoke = <<>> /\ L[q + 1].desc_offset \in Nat
          /\ Len(L[q + 1].data) <= MaxTags /\ Stored(log.cur, L[q + 1])
      BY <2>3, <3>2, ListElements
    <3>5. /\ read_logical(rec.scan) = DescBlock(L[q + 1])
          /\ ScanValid(DescBlock(L[q + 1]), rec.scan)
      BY <3>3, <3>4, ScanOfStored
    <3>6. QED
      BY <2>1, <3>5
  <2>6. q = Len(L)
    <3>1. \A x, y \in Nat : x <= y /\ ~(x < y) => x = y
      OBVIOUS
    <3> HIDE DEF q
    <3>2. QED
      BY <2>4, <2>5, <3>1
  <2>7. Copied(home.cur, L, 1, 1)
    <3>1. ASSUME NEW n \in DOMAIN L, NEW i \in DOMAIN L[n].data PROVE ~Behind(n, i, 1, 1)
      <4>1. n \in Nat /\ n >= 1 /\ i \in Nat /\ i >= 1
        <5>1. DOMAIN L[n].data = 1 .. Len(L[n].data)
          BY <2>3, ListElements
        <5>2. QED
          BY <2>4, <5>1
      <4>2. QED
        BY <4>1 DEF Behind
    <3>2. QED
      BY <3>1 DEF Copied
  <2>8. Replaying(L, e)'
    BY <1>1, <2>1, <2>2, <2>6, <2>7 DEF Replaying, LeadsTo
  <2>9. RecInv'
    BY <1>1, <1>2, <2>1, <2>8 DEF RecInv
  <2>10. QED
    BY <1>1, <1>4, <2>1, <2>9, DownSame DEF MountSteps
<1>7. QED
  BY <1>5, <1>6

(* A copy to the home location of a block that is in the list, whole or     *)
(* torn, changes nothing that recovery relies on.                           *)
LEMMA InstallKeeps ==
  ASSUME RecoveryInv, pc = "install", NEW L, NEW e, LeadsTo(L, e),
         NEW n \in DOMAIN L, NEW i \in DOMAIN L[n].data, NEW v \in Vals \cup {TornVal},
         home' = logfs_bdev_write(home, L[n].data[i].target, v, TornVal)
  PROVE  /\ Replays(Only(home'.cur), log.cur, jsb.cur, L, e, logical, limbo)
         /\ Quiet(log, jsb) => Replays(home'.alt, log.cur, jsb.cur, L, e, logical, limbo)
         /\ CrashSafe(home', log, jsb, logical, limbo)
         /\ HomeCurInAlt'
<1> DEFINE b == L[n].data[i].target
<1>1. IsList(L)
  BY DEF LeadsTo, Replays
<1>2. b \in Blocks /\ Writes(L[n], b)
  <2>1. L[n].data \in Datas
    BY <1>1, ListElements
  <2>2. QED
    BY <2>1, ApplyValues DEF Writes
<1>3. home' = logfs_bdev_write(home, b, v, TornVal) /\ home \in Region(Blocks, Vals \cup {TornVal})
  BY RecTypes
<1> HIDE DEF b
<1>4. /\ \A a \in Blocks : a # b => home'.cur[a] = home.cur[a] /\ home'.alt[a] = home.alt[a]
      /\ home'.cur[b] = v /\ home'.alt[b] = home.alt[b] \cup {v, TornVal}
      /\ DOMAIN home'.cur = Blocks /\ DOMAIN home.cur = Blocks
  BY <1>2, <1>3, WriteValues
<1>5. HomeCurInAlt'
  BY <1>4, RecTypes DEF HomeCurInAlt
<1>6. ASSUME NEW H, NEW G, Replays(H, log.cur, jsb.cur, L, e, logical, limbo),
             \A a \in Blocks : a # b => G[a] = H[a]
      PROVE  Replays(G, log.cur, jsb.cur, L, e, logical, limbo)
  <2>1. RestHome(H, L, e)
    BY <1>6 DEF Replays
  <2>2. RestHome(G, L, e)
    <3>1. \A a \in Blocks : (\A m \in DOMAIN L : ~Writes(L[m], a)) => a # b
      BY <1>2
    <3>2. QED
      BY <1>6, <2>1, <3>1 DEF RestHome
  <2>3. QED
    BY <1>6, <2>2 DEF Replays
<1>7. Replays(Only(home'.cur), log.cur, jsb.cur, L, e, logical, limbo)
  <2>1. \A a \in Blocks : a # b => Only(home'.cur)[a] = Only(home.cur)[a]
    BY <1>4 DEF Only
  <2>2. QED
    BY <1>6, <2>1 DEF LeadsTo
<1>8. Quiet(log, jsb) => Replays(home'.alt, log.cur, jsb.cur, L, e, logical, limbo)
  BY <1>4, <1>6 DEF LeadsTo
<1>9. ASSUME ~Mixed(home', log, jsb) PROVE AllRecoverable(home', log, jsb, logical, limbo)
  <2>1. CASE Quiet(log, jsb)
    <3>1. jsb.alt = {jsb.cur} /\ Unflushed(log) = {}
      BY <2>1 DEF Quiet
    <3>2. \A l : LeftOf(log, l) => l = log.cur
      BY <3>1, RecTypes, QuietLog
    <3>3. Recoverable(home'.alt, log.cur, jsb.cur, logical, limbo)
      BY <1>8, <2>1 DEF Recoverable
    <3>4. QED
      BY <3>1, <3>2, <3>3 DEF AllRecoverable
  <2>2. CASE ~Quiet(log, jsb)
    <3>1. \A a \in Blocks : home'.alt[a] = {home'.cur[a]}
      BY <1>4, <1>9, <2>2 DEF Mixed, Unflushed
    <3>2. home.alt[b] = {home.cur[b]} /\ home'.alt[b] = home.alt[b]
      <4>1. home.alt[b] \cup {v, TornVal} = {v} /\ home.cur[b] \in home.alt[b]
        BY <1>2, <1>4, <3>1, RecTypes
      <4>2. home.alt[b] = {v} /\ home.cur[b] = v
        BY <4>1, Zenon
      <4>3. QED
        BY <1>4, <4>1, <4>2
    <3>3. Unflushed(home) = {} /\ \A a \in Blocks : home'.alt[a] \subseteq home.alt[a]
      BY <1>4, <3>1, <3>2 DEF Unflushed
    <3>4. AllRecoverable(home, log, jsb, logical, limbo)
      BY <3>3, DownFacts DEF MountSteps, CrashSafe, Mixed
    <3>5. QED
      BY <3>3, <3>4, RecoverableLess DEF AllRecoverable
  <2>3. QED
    BY <2>1, <2>2
<1>10. Recoverable(Only(home'.cur), log.cur, jsb.cur, logical, limbo)
  BY <1>7 DEF Recoverable
<1>11. QED
  BY <1>5, <1>7, <1>8, <1>9, <1>10 DEF CrashSafe

(* The n-th transaction found is copied from where its blocks are stored.   *)
LEMMA InstallSource ==
  ASSUME RecoveryInv, NEW L, NEW e, Replaying(L, e), pc = "install",
         rec.n <= Len(rec.txns)
  PROVE  /\ rec.n \in DOMAIN L /\ IsList(L) /\ LeadsTo(L, e)
         /\ Len(rec.txns[rec.n].tags) = Len(L[rec.n].data)
         /\ DOMAIN L[rec.n].data = 1 .. Len(L[rec.n].data) /\ Len(L[rec.n].data) \in Nat
         /\ rec.i <= Len(L[rec.n].data) =>
              /\ rec.i \in DOMAIN L[rec.n].data
              /\ rec.txns[rec.n].tags[rec.i] = L[rec.n].data[rec.i].target
              /\ Content(read_logical(rec.txns[rec.n].data_offset + rec.i - 1))
                   = L[rec.n].data[rec.i].data
              /\ L[rec.n].data[rec.i].data \in Vals
<1> DEFINE n == rec.n
           i == rec.i
           t == L[n]
<1>1. LeadsTo(L, e) /\ Found(rec.txns, L) /\ Len(rec.txns) = Len(L)
  BY DEF Replaying, LeadsTo
<1>2. IsList(L) /\ \A m \in DOMAIN L : Stored(log.cur, L[m])
  BY <1>1 DEF LeadsTo, Replays
<1>3. /\ n \in Nat \ {0} /\ i \in Nat \ {0} /\ Len(L) \in Nat /\ DOMAIN L = 1 .. Len(L)
      /\ DOMAIN rec.txns = 1 .. Len(L)
  BY <1>1, <1>2, ListElements, RecTypes
<1>4. n \in DOMAIN L /\ n \in DOMAIN rec.txns
  BY <1>1, <1>3
<1>5. /\ IsTxn(t) /\ t.revoke = <<>> /\ t.desc_offset \in Nat /\ t.data \in Datas
      /\ Len(t.data) \in Nat /\ DOMAIN t.data = 1 .. Len(t.data)
  BY <1>2, <1>4, ListElements
<1>6. /\ rec.txns[n].data_offset = t.desc_offset + 1
      /\ rec.txns[n].tags = [m \in DOMAIN t.data |-> t.data[m].target]
  BY <1>1, <1>4 DEF Found
<1>7. Len(rec.txns[n].tags) = Len(t.data)
  <2>1. DescBlock(t).tags = rec.txns[n].tags
    BY <1>6 DEF DescBlock
  <2>2. QED
    BY <1>5, <2>1, DescTags
<1>8. ASSUME i <= Len(t.data)
      PROVE  /\ i \in DOMAIN t.data /\ rec.txns[n].tags[i] = t.data[i].target
             /\ Content(read_logical(rec.txns[n].data_offset + i - 1)) = t.data[i].data
             /\ t.data[i].data \in Vals
  <2>1. i \in 1 .. Len(t.data)
    BY <1>3, <1>5, <1>8
  <2>2. rec.txns[n].tags[i] = t.data[i].target
    BY <1>5, <1>6, <2>1
  <2>3. log.cur[phys_of(t.desc_offset + i)] = DataBlock(t.data[i])
    BY <1>2, <1>4, <1>5, <2>1, StoredBlocks
  <2>4. (t.desc_offset + 1) + i - 1 = t.desc_offset + i
    BY <1>3, <1>5
  <2>5. read_logical(rec.txns[n].data_offset + i - 1) = DataBlock(t.data[i])
    BY <1>6, <2>3, <2>4 DEF read_logical
  <2>6. Content(DataBlock(t.data[i])) = t.data[i].data
    BY DEF Content, DataBlock
  <2>7. t.data[i].data \in Vals
    BY <1>5, <2>1, PendingData DEF IsTxn
  <2>8. QED
    BY <1>5, <2>1, <2>2, <2>5, <2>6, <2>7
<1>9. QED
  BY <1>1, <1>2, <1>4, <1>5, <1>7, <1>8

(* The next block copied is the newest copy of its block so far.            *)
LEMMA CopiedNext ==
  ASSUME NEW L, IsList(L), NEW h, NEW g, NEW N \in DOMAIN L, NEW I \in DOMAIN L[N].data,
         Copied(h, L, N, I),
         g[L[N].data[I].target] = L[N].data[I].data,
         \A b \in Blocks : b # L[N].data[I].target => g[b] = h[b]
  PROVE  Copied(g, L, N, I + 1)
<1> SUFFICES ASSUME NEW n \in DOMAIN L, NEW i \in DOMAIN L[n].data,
                    Behind(n, i, N, I + 1),
                    \A m \in DOMAIN L : \A k \in DOMAIN L[m].data :
                      m > n /\ Behind(m, k, N, I + 1)
                        => L[m].data[k].target # L[n].data[i].target
             PROVE  g[L[n].data[i].target] = L[n].data[i].data
  BY DEF Copied
<1>1. /\ Len(L) \in Nat /\ DOMAIN L = 1 .. Len(L)
      /\ \A m \in DOMAIN L : /\ L[m].data \in Datas /\ Len(L[m].data) \in Nat
                             /\ DOMAIN L[m].data = 1 .. Len(L[m].data)
  BY ListElements
<1>2. n \in Nat /\ N \in Nat /\ i \in Nat /\ I \in Nat
  <2>1. DOMAIN L[n].data = 1 .. Len(L[n].data) /\ DOMAIN L[N].data = 1 .. Len(L[N].data)
    BY <1>1
  <2>2. QED
    BY <1>1, <2>1
<1>3. CASE n = N /\ i = I
  BY <1>3
<1>4. CASE ~(n = N /\ i = I)
  <2>1. Behind(n, i, N, I)
    BY <1>2, <1>4 DEF Behind
  <2>2. L[n].data[i].target # L[N].data[I].target
    <3>1. CASE n = N
      <4>1. Distinct(L[N].data)
        BY <1>1 DEF Datas
      <4>2. QED
        BY <1>4, <3>1, <4>1 DEF Distinct
    <3>2. CASE n # N
      <4>1. N > n /\ Behind(N, I, N, I + 1)
        BY <1>2, <2>1, <3>2 DEF Behind
      <4>2. QED
        BY <4>1
    <3>3. QED
      BY <3>1, <3>2
  <2>3. ASSUME NEW m \in DOMAIN L, NEW k \in DOMAIN L[m].data, m > n, Behind(m, k, N, I)
        PROVE  L[m].data[k].target # L[n].data[i].target
    <3>1. k \in Nat
      <4>1. DOMAIN L[m].data = 1 .. Len(L[m].data)
        BY <1>1
      <4>2. QED
        BY <1>1, <4>1
    <3>2. Behind(m, k, N, I + 1)
      BY <1>2, <2>3, <3>1 DEF Behind
    <3>3. QED
      BY <2>3, <3>2
  <2>4. h[L[n].data[i].target] = L[n].data[i].data
    BY <2>1, <2>3 DEF Copied
  <2>5. L[n].data[i].target \in Blocks
    <3>1. L[n].data \in Datas
      BY <1>1
    <3>2. QED
      BY <3>1, ApplyValues
  <2>6. QED
    BY <2>2, <2>4, <2>5
<1>5. QED
  BY <1>3, <1>4

(* Going on to the next transaction copies nothing.                         *)
LEMMA CopiedTurn ==
  ASSUME NEW L, IsList(L), NEW h, NEW N \in DOMAIN L, NEW I \in Nat,
         I > Len(L[N].data), Copied(h, L, N, I)
  PROVE  Copied(h, L, N + 1, 1)
<1>1. /\ Len(L) \in Nat /\ DOMAIN L = 1 .. Len(L)
      /\ \A m \in DOMAIN L : Len(L[m].data) \in Nat /\ DOMAIN L[m].data = 1 .. Len(L[m].data)
  BY ListElements
<1>2. ASSUME NEW m \in DOMAIN L, NEW k \in DOMAIN L[m].data
      PROVE  Behind(m, k, N, I) <=> Behind(m, k, N + 1, 1)
  <2>1. Len(L[m].data) \in Nat /\ DOMAIN L[m].data = 1 .. Len(L[m].data)
    BY <1>1
  <2>2. k \in Nat /\ k >= 1 /\ k <= Len(L[m].data) /\ m \in Nat /\ N \in Nat
    BY <1>1, <2>1
  <2>3. CASE m = N
    <3>1. k < I
      <4>1. k <= Len(L[N].data) /\ Len(L[N].data) \in Nat
        BY <1>1, <2>2, <2>3
      <4>2. QED
        BY <2>2, <4>1
    <3>2. QED
      BY <2>2, <2>3, <3>1 DEF Behind
  <2>4. CASE m # N
    BY <2>2, <2>4 DEF Behind
  <2>5. QED
    BY <2>3, <2>4
<1>3. QED
  BY <1>2 DEF Copied

(* A block that some transaction of the list writes has a last writer.      *)
LEMMA LastWriter ==
  ASSUME NEW L, IsList(L), NEW b, \E n \in DOMAIN L : Writes(L[n], b)
  PROVE  \E n \in DOMAIN L : \E i \in DOMAIN L[n].data :
           /\ L[n].data[i].target = b
           /\ \A m \in DOMAIN L : m > n => ~Writes(L[m], b)
<1> DEFINE W == {n \in DOMAIN L : Writes(L[n], b)}
<1>1. Len(L) \in Nat /\ DOMAIN L = 1 .. Len(L)
  BY ListElements
<1>2. W \in SUBSET (1 .. Len(L)) /\ W # {}
  BY <1>1
<1>3. PICK n \in W : \A k \in W : k <= n
  <2> HIDE DEF W
  <2>1. QED
    BY <1>1, <1>2, GreatestOf
<1>4. PICK i \in DOMAIN L[n].data : L[n].data[i].target = b
  BY <1>3 DEF Writes
<1>5. ASSUME NEW m \in DOMAIN L, m > n, Writes(L[m], b) PROVE FALSE
  <2>1. m \in W /\ m \in Nat /\ n \in Nat
    BY <1>1, <1>2, <1>5
  <2>2. m <= n
    BY <1>3, <2>1
  <2>3. QED
    BY <1>5, <2>1, <2>2
<1>6. QED
  BY <1>3, <1>4, <1>5

(* When everything is copied, home holds what the list leads to.            *)
LEMMA AllCopied ==
  ASSUME NEW L, IsList(L), NEW e, LastWrites(L, e), NEW h, RestHome(Only(h), L, e),
         NEW N \in Nat, NEW I, N > Len(L), Copied(h, L, N, I), NEW b \in Blocks
  PROVE  h[b] = e[b]
<1>1. CASE \A n \in DOMAIN L : ~Writes(L[n], b)
  <2>1. h[b] \in Only(h)[b]
    BY DEF Only
  <2>2. QED
    BY <1>1, <2>1 DEF RestHome
<1>2. CASE \E n \in DOMAIN L : Writes(L[n], b)
  <2>1. PICK n \in DOMAIN L : \E i \in DOMAIN L[n].data :
          /\ L[n].data[i].target = b
          /\ \A m \in DOMAIN L : m > n => ~Writes(L[m], b)
    BY <1>2, LastWriter
  <2>2. PICK i \in DOMAIN L[n].data : L[n].data[i].target = b
    BY <2>1
  <2>3. \A m \in DOMAIN L : m > n => ~Writes(L[m], b)
    BY <2>1
  <2>4. Behind(n, i, N, I)
    <3>1. Len(L) \in Nat /\ DOMAIN L = 1 .. Len(L)
      BY ListElements
    <3>2. QED
      BY <3>1 DEF Behind
  <2>5. \A m \in DOMAIN L : \A k \in DOMAIN L[m].data :
          m > n => L[m].data[k].target # b
    BY <2>3 DEF Writes
  <2>6. h[b] = L[n].data[i].data
    BY <2>2, <2>4, <2>5 DEF Copied
  <2>7. e[b] = L[n].data[i].data
    BY <2>2, <2>3 DEF LastWrites
  <2>8. QED
    BY <2>6, <2>7
<1>3. QED
  BY <1>1, <1>2

(* Pass 2 of logfs_journal_recover.                                         *)
LEMMA MountInstalls ==
  ASSUME RecoveryInv, LogInv', RecoverInstall
  PROVE  RecoveryInv'
<1>1. /\ pc = "install" /\ pc' = "install" /\ rec.n <= Len(rec.txns)
      /\ UNCHANGED <<log, jsb, logical, limbo, txn>>
  BY DEF RecoverInstall
<1>2. ~IsEmpty(jsb.cur) /\ rec.revokes = {} /\ \E L, e : Replaying(L, e)
  BY <1>1 DEF RecoveryInv, RecInv
<1>3. PICK L, e : Replaying(L, e)
  BY <1>2
<1> DEFINE n == rec.n
           i == rec.i
<1>4. /\ n \in DOMAIN L /\ IsList(L) /\ LeadsTo(L, e)
      /\ Len(rec.txns[n].tags) = Len(L[n].data)
      /\ DOMAIN L[n].data = 1 .. Len(L[n].data) /\ Len(L[n].data) \in Nat
      /\ i <= Len(L[n].data) =>
           /\ i \in DOMAIN L[n].data
           /\ rec.txns[n].tags[i] = L[n].data[i].target
           /\ Content(read_logical(rec.txns[n].data_offset + i - 1)) = L[n].data[i].data
           /\ L[n].data[i].data \in Vals
  BY <1>1, <1>3, InstallSource
<1>5. i \in Nat /\ n \in Nat /\ rec.n \in Nat \ {0}
  BY RecTypes
<1>6. txn.data \in Datas /\ txn.revoke = <<>> /\ limbo \subseteq Datas
  BY <1>1, DownFacts DEF MountSteps
<1>7. /\ Found(rec.txns, L) /\ Len(rec.txns) = Len(L) /\ Copied(home.cur, L, n, i)
      /\ rec.scan = NextOff(L, Len(rec.txns)) /\ rec.expect_seq = NextSeq(L, Len(rec.txns))
  BY <1>1, <1>3 DEF Replaying
<1>8. CASE i > Len(rec.txns[n].tags)
  <2>1. rec' = [rec EXCEPT !.n = @ + 1, !.i = 1] /\ home' = home
    BY <1>8 DEF RecoverInstall
  <2>2. /\ rec'.n = n + 1 /\ rec'.i = 1 /\ rec'.txns = rec.txns /\ rec'.scan = rec.scan
        /\ rec'.expect_seq = rec.expect_seq /\ rec'.revokes = rec.revokes
    BY <2>1 DEF RecoveryInv, LogInv, TypeInv, TypeOK
  <2>3. Copied(home.cur, L, n + 1, 1)
    BY <1>4, <1>5, <1>7, <1>8, CopiedTurn
  <2>4. Replaying(L, e)'
    BY <1>1, <1>4, <1>7, <2>1, <2>2, <2>3 DEF Replaying, LeadsTo
  <2>5. RecInv'
    BY <1>1, <1>2, <2>2, <2>4 DEF RecInv
  <2>6. QED
    BY <1>1, <1>6, <2>1, <2>5, DownSame DEF MountSteps
<1>9. CASE ~(i > Len(rec.txns[n].tags))
  <2>1. i <= Len(L[n].data)
    BY <1>4, <1>5, <1>9
  <2>2. ~Revoked(rec.txns[n].tags[i], rec.txns[n].sequence)
    BY <1>2 DEF Revoked
  <2>3. /\ rec' = [rec EXCEPT !.i = @ + 1]
        /\ home' = logfs_bdev_write(home, rec.txns[n].tags[i],
                     Content(read_logical(rec.txns[n].data_offset + i - 1)), TornVal)
    BY <1>9, <2>2 DEF RecoverInstall
  <2> DEFINE b == L[n].data[i].target
             v == L[n].data[i].data
  <2>4. home' = logfs_bdev_write(home, b, v, TornVal) /\ v \in Vals /\ i \in DOMAIN L[n].data
    BY <1>4, <2>1, <2>3
  <2>5. /\ rec'.n = n /\ rec'.i = i + 1 /\ rec'.txns = rec.txns /\ rec'.scan = rec.scan
        /\ rec'.expect_seq = rec.expect_seq /\ rec'.revokes = rec.revokes
    BY <2>3 DEF RecoveryInv, LogInv, TypeInv, TypeOK
  <2>6. /\ Replays(Only(home'.cur), log.cur, jsb.cur, L, e, logical, limbo)
        /\ Quiet(log, jsb) => Replays(home'.alt, log.cur, jsb.cur, L, e, logical, limbo)
        /\ CrashSafe(home', log, jsb, logical, limbo)
        /\ HomeCurInAlt'
    <3>1. v \in Vals \cup {TornVal}
      BY <2>4
    <3>2. QED
      BY <1>1, <1>4, <2>4, <3>1, InstallKeeps
  <2>7. Copied(home'.cur, L, n, i + 1)
    <3>1. b \in Blocks
      <4>1. L[n].data \in Datas
        BY <1>4, ListElements
      <4>2. QED
        BY <2>4, <4>1, ApplyValues
    <3>2. home \in Region(Blocks, Vals \cup {TornVal})
      BY RecTypes
    <3>3. home'.cur[b] = v /\ \A a \in Blocks : a # b => home'.cur[a] = home.cur[a]
      <4> HIDE DEF b, v
      <4>1. QED
        BY <2>4, <3>1, <3>2, WriteValues
    <3>4. QED
      BY <1>4, <1>7, <2>4, <3>3, CopiedNext
  <2>8. Replaying(L, e)'
    BY <1>1, <1>7, <2>5, <2>6, <2>7 DEF Replaying
  <2>9. RecInv'
    BY <1>1, <1>2, <2>5, <2>8 DEF RecInv
  <2>10. jsb'.cur \in jsb'.alt /\ CrashSafe(home', log', jsb', logical', limbo')
    BY <1>1, <2>6, RecTypes
  <2>11. QED
    BY <1>1, <1>6, <2>6, <2>9, <2>10, DownGoal DEF MountSteps
<1>10. QED
  BY <1>8, <1>9

(* jsuper_write at the end of recovery: home holds everything by then.      *)
LEMMA MountEmpties ==
  ASSUME RecoveryInv, LogInv', RecoverEmpty
  PROVE  RecoveryInv'
<1> DEFINE z == Super(LOGFS_JOURNAL_EMPTY, 0)
<1>1. /\ pc = "install" /\ pc' = "settle" /\ rec.n > Len(rec.txns)
      /\ j'.next_sequence = rec.expect_seq
      /\ jsb'.cur = z /\ jsb'.alt = jsb.alt \cup {z}
      /\ UNCHANGED <<home, log, logical, limbo, txn>>
  BY DEF RecoverEmpty, jsuper_write
<1>2. ~IsEmpty(jsb.cur) /\ rec.revokes = {} /\ \E L, e : Replaying(L, e)
  BY <1>1 DEF RecoveryInv, RecInv
<1>3. PICK L, e : Replaying(L, e)
  BY <1>2
<1>4. /\ Replays(Only(home.cur), log.cur, jsb.cur, L, e, logical, limbo)
      /\ Len(rec.txns) = Len(L) /\ Copied(home.cur, L, rec.n, rec.i)
      /\ rec.expect_seq = NextSeq(L, Len(rec.txns))
  BY <1>1, <1>3 DEF Replaying
<1>5. /\ IsList(L) /\ LastWrites(L, e) /\ RestHome(Only(home.cur), L, e)
      /\ e \in AllowedOf(logical, limbo)
      /\ \/ \A a \in Slots : Late(log.cur[a], EndSeq(L), limbo)
         \/ \A a \in Slots : Early(log.cur[a], EndSeq(L))
  BY <1>2, <1>4 DEF Replays
<1>6. Len(L) \in Nat /\ rec.n \in Nat
  BY <1>5, ListElements, RecTypes
<1>7. \A b \in Blocks : home.cur[b] = e[b]
  BY <1>1, <1>4, <1>5, <1>6, AllCopied
<1>8. IsEmpty(z)
  BY DEF IsEmpty, Super
<1> HIDE DEF z
<1>9. ASSUME NEW H, NEW l, \A b \in Blocks : H[b] = {home.cur[b]}
      PROVE  Recoverable(H, l, z, logical, limbo)
  <2>1. IsList(<<>>) /\ LastWrites(<<>>, e) /\ \A n \in DOMAIN <<>> : Stored(l, <<>>[n])
    BY DEF IsList, Tiled, LastWrites
  <2>2. RestHome(H, <<>>, e)
    BY <1>7, <1>9 DEF RestHome
  <2>3. Replays(H, l, z, <<>>, e, logical, limbo)
    BY <1>5, <1>8, <2>1, <2>2 DEF Replays
  <2>4. QED
    BY <2>3 DEF Recoverable
<1>10. Recoverable(Only(home.cur), log.cur, z, logical, limbo)
  BY <1>9 DEF Only
<1>11. ASSUME ~Mixed(home, log, jsb') PROVE AllRecoverable(home, log, jsb', logical, limbo)
  <2>1. jsb.cur \in jsb.alt /\ jsb.cur # z
    BY <1>2, <1>8, RecTypes
  <2>2. ~Quiet(log, jsb')
    BY <1>1, <2>1 DEF Quiet
  <2>3. Unflushed(home) = {}
    BY <1>11, <2>2 DEF Mixed
  <2>4. AllRecoverable(home, log, jsb, logical, limbo)
    BY <1>1, <2>3, DownFacts DEF MountSteps, CrashSafe, Mixed
  <2>5. \A b \in Blocks : home.alt[b] = {home.cur[b]}
    <3>1. DOMAIN home.cur = Blocks
      BY RecTypes
    <3>2. QED
      BY <2>3, <3>1 DEF Unflushed
  <2>6. \A l : Recoverable(home.alt, l, z, logical, limbo)
    BY <1>9, <2>5
  <2>7. QED
    BY <1>1, <2>4, <2>6 DEF AllRecoverable
<1>12. CrashSafe(home', log', jsb', logical', limbo')
  BY <1>1, <1>10, <1>11 DEF CrashSafe
<1>13. \A a \in Slots : Early(log.cur[a], rec.expect_seq + 1)
  <2> SUFFICES ASSUME NEW a \in Slots, log.cur[a].type = "commit"
               PROVE  log.cur[a].sequence < rec.expect_seq + 1
    BY DEF Early
  <2>1. log.cur[a].sequence \in Nat
    BY BlockKinds, RecTypes
  <2>2. rec.expect_seq = EndSeq(L) /\ rec.expect_seq \in Nat
    BY <1>4, <1>6, RecTypes DEF NextSeq
  <2>3. log.cur[a].sequence < EndSeq(L) \/ log.cur[a].sequence = EndSeq(L)
                                       \/ ~(log.cur[a].sequence >= EndSeq(L))
    BY <1>5 DEF Late, Early
  <2>4. QED
    BY <2>1, <2>2, <2>3
<1>14. RecInv'
  BY <1>1, <1>8, <1>13 DEF RecInv
<1>15. /\ HomeCurInAlt' /\ jsb'.cur \in jsb'.alt
       /\ txn'.data \in Datas /\ txn'.revoke = <<>> /\ limbo' \subseteq Datas
  BY <1>1, DownFacts, RecTypes DEF MountSteps, HomeCurInAlt
<1>16. QED
  BY <1>1, <1>12, <1>14, <1>15, DownGoal DEF MountSteps

(* With an empty log home is one of the states the history allows.          *)
LEMMA EmptyIsAllowed ==
  ASSUME RecoveryInv, pc \in MountSteps \cup {"down"}, IsEmpty(jsb.cur)
  PROVE  home.cur \in Allowed
<1>1. PICK L, e : Replays(Only(home.cur), log.cur, jsb.cur, L, e, logical, limbo)
  BY DownFacts DEF CrashSafe, Recoverable
<1>2. L = <<>> /\ RestHome(Only(home.cur), L, e) /\ e \in AllowedOf(logical, limbo)
  BY <1>1 DEF Replays
<1>3. \A b \in Blocks : home.cur[b] = e[b]
  <2>1. \A b \in Blocks : home.cur[b] \in Only(home.cur)[b]
    BY DEF Only
  <2>2. QED
    BY <1>2, <2>1 DEF RestHome
<1>4. e = [b \in Blocks |-> e[b]]
  <2>1. CASE e = logical
    BY <2>1, RecTypes
  <2>2. CASE \E d \in limbo : e = Apply(logical, d)
    BY <2>2 DEF Apply
  <2>3. QED
    BY <1>2, <2>1, <2>2 DEF AllowedOf
<1>5. home.cur = [b \in Blocks |-> home.cur[b]]
  BY RecTypes
<1>6. home.cur = e
  BY <1>3, <1>4, <1>5
<1>7. QED
  BY <1>2, <1>6 DEF AllowedOf, Allowed

(* The end of a mount: nothing is live, home is what was committed.         *)
LEMMA MountEnds ==
  ASSUME RecoveryInv, LogInv', pc \in {"down", "settle"}, pc' = "ready", FlushAll,
         Mounted(home.cur), IsEmpty(jsb.cur), UNCHANGED <<txn, ckpt, ck>>,
         \A a \in Slots : Early(log.cur[a], j'.next_sequence + 1), j'.head = j'.tail
  PROVE  RecoveryInv'
<1>1. pc \in MountSteps \cup {"down"} /\ ~Up
  BY DEF MountSteps, Up
<1>2. /\ log' = logfs_bdev_flush(log) /\ home' = logfs_bdev_flush(home)
      /\ jsb' = [cur |-> jsb.cur, alt |-> {jsb.cur}]
  BY DEF FlushAll
<1>3. logical' = home.cur /\ limbo' = {}
  BY <1>1, EmptyIsAllowed DEF Mounted
<1>4. /\ \A b \in Blocks : home'.cur[b] = home.cur[b] /\ home'.alt[b] = {home.cur[b]}
      /\ \A a \in Slots : log'.alt[a] = {log.cur[a]}
      /\ jsb'.cur = jsb.cur /\ jsb'.alt = {jsb.cur}
  BY <1>2, RecTypes DEF logfs_bdev_flush, Settled
<1>5. ckpt = <<>> /\ ck.caller = "none" /\ ck.t \in LoggedTxn
  BY <1>1 DEF RecoveryInv, LogInv, IdleInv, TypeInv, TypeOK, MountSteps, CkptSteps
<1>6. Live' = <<>>
  <2>1. <<>> \in Seq(LoggedTxn)
    OBVIOUS
  <2>2. LiveOf(ck, <<>>) = <<>>
    BY <1>5, <2>1, LiveOfProps
  <2>3. QED
    BY <1>5, <2>2 DEF Live, LiveOf
<1>7. /\ LogEnd' = j'.head /\ LogEndSeq' = j'.next_sequence /\ Needed' = <<>>
  BY <1>6 DEF LogEnd, LogEndSeq, PostCommit, Needed
<1>8. UpInv'
  <2>1. IsList(<<>>) /\ LastWrites(<<>>, logical')
    BY DEF IsList, Tiled, LastWrites
  <2>2. ListAt(<<>>, j'.tail, LogEnd', LogEndSeq')
    BY <1>7, <2>1 DEF ListAt
  <2>3. TailAt(log'.alt, <<>>, LogEndSeq', limbo')
    BY <1>4, <1>7 DEF TailAt
  <2>4. RestHome(home'.alt, <<>>, logical')
    BY <1>3, <1>4 DEF RestHome
  <2>5. QED
    BY <1>6, <1>7, <2>1, <2>2, <2>3, <2>4 DEF UpInv
<1>9. HomeCurInAlt'
  BY <1>4 DEF HomeCurInAlt
<1>10. BatchInv'
  BY <1>1, <1>3, DownFacts DEF BatchInv, CommitSteps
<1>11. SuperInv'
  <2>1. Names(jsb'.cur, Live')
    BY <1>4, <1>6 DEF Names
  <2>2. QED
    BY <1>4, <2>1 DEF SuperInv, Writing
<1>12. CopyInv' /\ CrashInv' /\ RecInv'
  BY DEF CopyInv, CrashInv, RecInv, Up, MountSteps
<1>13. QED
  BY <1>8, <1>9, <1>10, <1>11, <1>12 DEF RecoveryInv

(* Both ways to the end of a mount: an empty log, and recovery's last flush. *)
LEMMA MountFinishes ==
  ASSUME Survivable, RecoveryInv, LogInv', OpenEmpty \/ RecoverFlush
  PROVE  RecoveryInv'
<1>1. CASE OpenEmpty
  <2>1. /\ pc = "down" /\ pc' = "ready" /\ FlushAll /\ Mounted(home.cur) /\ IsEmpty(jsb.cur)
        /\ UNCHANGED <<txn, ckpt, ck>> /\ ~UsedLog
        /\ j' = [head |-> 0, tail |-> 0, next_sequence |-> 1]
    BY <1>1 DEF OpenEmpty, IsEmpty, Survivable
  <2>2. j'.head = j'.tail /\ j'.next_sequence = 1
    BY <2>1
  <2>3. \A a \in Slots : Early(log.cur[a], j'.next_sequence + 1)
    <3> SUFFICES ASSUME NEW a \in Slots, log.cur[a].type = "commit"
                 PROVE  log.cur[a].sequence < j'.next_sequence + 1
      BY DEF Early
    <3>1. log.cur[a].sequence \in Nat
      BY BlockKinds, RecTypes
    <3>2. ~(log.cur[a].sequence > 1)
      BY <2>1 DEF UsedLog
    <3>3. QED
      BY <2>2, <3>1, <3>2
  <2>4. QED
    BY <2>1, <2>2, <2>3, MountEnds
<1>2. CASE RecoverFlush
  <2>1. /\ pc = "settle" /\ pc' = "ready" /\ FlushAll /\ Mounted(home.cur)
        /\ UNCHANGED <<txn, ckpt, ck, j>>
    BY <1>2 DEF RecoverFlush
  <2>2. IsEmpty(jsb.cur) /\ \A a \in Slots : Early(log.cur[a], j'.next_sequence + 1)
    BY <2>1 DEF RecoveryInv, RecInv
  <2>3. j'.head = j'.tail
    BY <2>1 DEF RecoveryInv, LogInv, IdleInv
  <2>4. QED
    BY <2>1, <2>2, <2>3, MountEnds
<1>3. QED
  BY <1>1, <1>2

(* No transaction at all is a batch that names no block twice.              *)
LEMMA NoTxnData ==
  NoTxn.data \in Datas /\ NoTxn.revoke = <<>>
<1>1. <<>> \in Datas
  BY DEF Datas, Distinct
<1>2. QED
  BY <1>1 DEF NoTxn

(* A mount that fails leaves a device that can be mounted again.            *)
LEMMA MountFails ==
  ASSUME Survivable, RecoveryInv, LogInv', RecoverError
  PROVE  RecoveryInv'
<1>1. /\ pc \in {"install", "settle"} /\ UNCHANGED <<log, jsb, logical, limbo, txn>>
  BY DEF RecoverError, Fault, MountSteps, Survivable
<1>2. pc' = "down" /\ RecInv'
  BY <1>1 DEF RecoverError, RecInv
<1>3. txn'.data \in Datas /\ txn'.revoke = <<>> /\ limbo' \subseteq Datas
  BY <1>1, DownFacts DEF MountSteps
<1>4. CASE home' = home
  BY <1>1, <1>2, <1>3, <1>4, DownSame DEF MountSteps
<1>5. CASE home' # home
  <2>1. /\ pc = "install" /\ rec.n <= Len(rec.txns) /\ rec.i <= Len(rec.txns[rec.n].tags)
        /\ home' = logfs_bdev_write(home, rec.txns[rec.n].tags[rec.i], TornVal, TornVal)
    BY <1>5 DEF RecoverError
  <2>2. PICK L, e : Replaying(L, e)
    BY <2>1 DEF RecoveryInv, RecInv
  <2>3. /\ rec.n \in DOMAIN L /\ LeadsTo(L, e)
        /\ Len(rec.txns[rec.n].tags) = Len(L[rec.n].data)
        /\ rec.i <= Len(L[rec.n].data) =>
             /\ rec.i \in DOMAIN L[rec.n].data
             /\ rec.txns[rec.n].tags[rec.i] = L[rec.n].data[rec.i].target
    BY <2>1, <2>2, InstallSource
  <2>4. /\ rec.i \in DOMAIN L[rec.n].data
        /\ home' = logfs_bdev_write(home, L[rec.n].data[rec.i].target, TornVal, TornVal)
    BY <2>1, <2>3
  <2>5. TornVal \in Vals \cup {TornVal}
    OBVIOUS
  <2>6. CrashSafe(home', log, jsb, logical, limbo) /\ HomeCurInAlt'
    BY <2>1, <2>3, <2>4, <2>5, InstallKeeps
  <2>7. jsb'.cur \in jsb'.alt /\ CrashSafe(home', log', jsb', logical', limbo')
    BY <1>1, <2>6, RecTypes
  <2>8. QED
    BY <1>2, <1>3, <2>6, <2>7, DownGoal DEF MountSteps
<1>6. QED
  BY <1>4, <1>5

-----------------------------------------------------------------------------
(* Crashes, and the unmount. *)

(* A kill, and the end of an unmount, leave the device as it is.            *)
LEMMA KillIsSafe ==
  ASSUME RecoveryInv, LogInv', Kill \/ Unmounted
  PROVE  RecoveryInv'
<1>1. /\ pc' = "down" /\ UNCHANGED <<home, log, jsb, logical, limbo>>
      /\ txn' = NoTxn \/ txn' = txn
  BY DEF Kill, LoseMemory, Unmounted
<1>2. txn'.data \in Datas /\ txn'.revoke = <<>> /\ limbo' \subseteq Datas
  BY <1>1, NoTxnData DEF RecoveryInv, BatchInv
<1>3. CrashSafe(home, log, jsb, logical, limbo)
  <2>1. CASE Up
    BY <2>1, UpIsSafe
  <2>2. CASE ~Up
    BY <2>2 DEF RecoveryInv, CrashInv
  <2>3. QED
    BY <2>1, <2>2
<1>4. HomeCurInAlt' /\ jsb'.cur \in jsb'.alt /\ CrashSafe(home', log', jsb', logical', limbo')
  BY <1>1, <1>3, RecTypes DEF HomeCurInAlt
<1>5. RecInv'
  BY <1>1 DEF RecInv
<1>6. QED
  BY <1>1, <1>2, <1>4, <1>5, DownGoal

(* A power loss leaves what some choice of unflushed writes makes of it.    *)
LEMMA LossOfPower ==
  ASSUME Survivable, RecoveryInv, LogInv', PowerLoss
  PROVE  RecoveryInv'
<1>1. pc' = "down" /\ txn' = NoTxn /\ UNCHANGED <<logical, limbo>> /\ ~ReplayUnflushed
  BY DEF PowerLoss, LoseMemory, Survivable
<1>2. PICK h \in PowerLossImages(home) : home' = Settled(h)
  BY DEF PowerLoss
<1>3. PICK l \in PowerLossImages(log) : log' = Settled(l)
  BY DEF PowerLoss
<1>4. PICK s \in jsb.alt : jsb' = [cur |-> s, alt |-> {s}]
  BY DEF PowerLoss
<1>5. AllRecoverable(home, log, jsb, logical, limbo)
  <2>1. CASE Up
    BY <2>1, UpIsRecoverable
  <2>2. CASE ~Up
    <3>1. ~Mixed(home, log, jsb)
      BY <1>1, <2>2 DEF ReplayUnflushed, Up, Mixed, Quiet
    <3>2. QED
      BY <2>2, <3>1 DEF RecoveryInv, CrashInv, CrashSafe
  <2>3. QED
    BY <2>1, <2>2
<1>6. CrashSafe(home', log', jsb', logical', limbo')
  <2>1. CrashSafe(Settled(h), Settled(l), [cur |-> s, alt |-> {s}], logical, limbo)
    BY <1>5, RecTypes, LossIsSafe
  <2>2. QED
    BY <1>1, <1>2, <1>3, <1>4, <2>1
<1>7. HomeCurInAlt' /\ jsb'.cur \in jsb'.alt
  <2>1. h \in [Blocks -> Vals \cup {TornVal}]
    BY RecTypes, RegionImages
  <2>2. QED
    BY <1>2, <1>4, <2>1 DEF HomeCurInAlt, Settled
<1>8. txn'.data \in Datas /\ txn'.revoke = <<>> /\ limbo' \subseteq Datas
  BY <1>1, NoTxnData, RecTypes
<1>9. RecInv'
  BY <1>1 DEF RecInv
<1>10. QED
  BY <1>1, <1>6, <1>7, <1>8, <1>9, DownGoal

-----------------------------------------------------------------------------
(* The steps of the mounted file system. *)

(* A step to a state in which the file system is mounted.                   *)
LEMMA UpGoal ==
  ASSUME LogInv', Up', HomeCurInAlt', BatchInv', UpInv', SuperInv', CopyInv'
  PROVE  RecoveryInv'
<1>1. CrashInv' /\ RecInv'
  BY DEF CrashInv, RecInv, Up, MountSteps
<1>2. QED
  BY <1>1 DEF RecoveryInv

(* Blocks that are no commit blocks, and more attempts, do not disturb the  *)
(* log behind the list.                                                     *)
LEMMA TailKept ==
  ASSUME NEW alt, NEW alt2, NEW L, NEW seq, NEW lim, NEW lim2, TailAt(alt, L, seq, lim),
         lim \subseteq lim2,
         \A a \in Slots : \A x \in alt2[a] : x \in alt[a] \/ x.type # "commit"
  PROVE  TailAt(alt2, L, seq, lim2)
<1> SUFFICES ASSUME NEW a \in Slots, NEW x \in alt2[a]
             PROVE  IF L = <<>> THEN Early(x, seq + 1) ELSE Late(x, seq, lim2)
  BY DEF TailAt
<1>1. CASE x.type # "commit"
  BY <1>1 DEF Early, Late
<1>2. CASE x \in alt[a]
  <2>1. IF L = <<>> THEN Early(x, seq + 1) ELSE Late(x, seq, lim)
    BY <1>2 DEF TailAt
  <2>2. Late(x, seq, lim) => Late(x, seq, lim2)
    BY DEF Late
  <2>3. QED
    BY <2>1, <2>2
<1>3. QED
  BY <1>1, <1>2

(* A step that leaves the list, its place in the log and the history alone. *)
LEMMA UpKeep ==
  ASSUME RecoveryInv, Up, Live' = Live, j'.tail = j.tail, LogEnd' = LogEnd,
         LogEndSeq' = LogEndSeq, logical' = logical, limbo \subseteq limbo',
         \A a \in Slots : \A x \in log'.alt[a] : x \in log.alt[a] \/ x.type # "commit",
         RestHome(home'.alt, Needed', logical)
  PROVE  UpInv'
<1>1. /\ ListAt(Live, j.tail, LogEnd, LogEndSeq) /\ LastWrites(Live, logical)
      /\ TailAt(log.alt, Live, LogEndSeq, limbo)
  BY UpFacts
<1>2. TailAt(log'.alt, Live, LogEndSeq, limbo')
  BY <1>1, TailKept
<1>3. QED
  BY <1>1, <1>2 DEF UpInv

(* Steps that change neither the device nor the list.                       *)
LEMMA UpSame ==
  ASSUME RecoveryInv, LogInv', UNCHANGED <<home, log, jsb, j, logical>>, Live' = Live,
         pc \in {"ready", "reserve", "jcommit", "lag", "drain"},
         pc' \in {"ready", "reserve", "lag", "drain", "body", "ckwrite"},
         limbo \subseteq limbo', BatchInv', CopyInv',
         pc' = "body" => (txn'.was_empty <=> Live = <<>>)
  PROVE  RecoveryInv'
<1>1. Up /\ Up'
  BY DEF Up, MountSteps
<1>2. /\ LogEnd = j.head /\ LogEndSeq = j.next_sequence
      /\ LogEnd' = j'.head /\ LogEndSeq' = j'.next_sequence
      /\ Needed' = Live'
  BY DEF LogEnd, LogEndSeq, PostCommit, Needed
<1>3. RestHome(home'.alt, Needed', logical)
  BY <1>1, <1>2, UpFacts
<1>4. UpInv'
  BY <1>1, <1>2, <1>3, UpKeep
<1>5. HomeCurInAlt'
  BY DEF RecoveryInv, HomeCurInAlt
<1>6. SuperInv'
  <2>1. jsb.cur \in jsb.alt /\ jsb.alt = {jsb.cur} /\ Names(jsb.cur, Live)
    BY <1>1 DEF RecoveryInv, SuperInv
  <2>2. QED
    BY <2>1 DEF SuperInv, Writing
<1>7. QED
  BY <1>1, <1>4, <1>5, <1>6, UpGoal

(* The caller of a checkpoint takes the oldest transaction off the list.    *)
LEMMA UpTake ==
  ASSUME RecoveryInv, LogInv', NEW caller \in {"reserve", "lag", "drain"}, TakeOldest(caller),
         pc \in {"reserve", "lag", "drain"}
  PROVE  RecoveryInv'
<1>1. /\ pc' = "ckwrite" /\ ckpt # <<>> /\ ckpt' = Tail(ckpt)
      /\ ck' = [t |-> Head(ckpt), i |-> 1, caller |-> caller]
      /\ UNCHANGED <<home, log, jsb, j, txn, logical, limbo>>
  BY DEF TakeOldest
<1>2. ck'.t = Head(ckpt) /\ ck'.caller # "none" /\ ck'.i = 1
  BY <1>1
<1>3. /\ ck.caller = "none" /\ ck.t \in LoggedTxn /\ ckpt \in Seq(LoggedTxn)
      /\ Live = LiveOf(ck, ckpt)
  <2>1. LogInv /\ Up
    BY DEF RecoveryInv, Up, MountSteps
  <2>2. ck.caller = "none"
    BY <2>1 DEF LogInv, TypeInv, CkptSteps
  <2>3. QED
    BY <2>1, <2>2, LogFacts
<1>4. Live' = Live
  <2>1. LiveOf(ck', Tail(ckpt)) = LiveOf(ck, ckpt)
    BY <1>1, <1>2, <1>3, LiveTaken
  <2>2. QED
    BY <1>1, <1>3, <2>1 DEF Live, LiveOf
<1>5. BatchInv'
  BY <1>1 DEF RecoveryInv, BatchInv, CommitSteps
<1>6. CopyInv'
  <2>1. Head(ckpt) \in LoggedTxn
    BY <1>1, <1>3
  <2>2. DOMAIN Head(ckpt).data = 1 .. Len(Head(ckpt).data)
    BY <2>1, LoggedIsTxn DEF IsTxn
  <2>3. \A i \in DOMAIN ck'.t.data : ~(i < ck'.i)
    BY <1>2, <2>2
  <2>4. QED
    BY <2>3 DEF CopyInv
<1>7. QED
  BY <1>1, <1>4, <1>5, <1>6, UpSame

(* The commit cycle up to its first write.                                  *)
LEMMA UpPrepare ==
  ASSUME Survivable, RecoveryInv, LogInv',
         \/ \E b \in Batches : DoCommit(b)
         \/ Reserve \/ CommitRejected \/ CommitBegin
         \/ EnforceLag \/ EndCycle \/ Shutdown \/ Drain
  PROVE  RecoveryInv'
<1>1. CASE Reserve
  BY <1>1, UpTake DEF Reserve
<1>2. CASE EnforceLag
  BY <1>2, UpTake DEF EnforceLag
<1>3. CASE Drain
  BY <1>3, UpTake DEF Drain
<1>4. CASE EndCycle \/ Shutdown
  <2>1. /\ pc \in {"lag", "ready"} /\ pc' \in {"ready", "drain"}
        /\ UNCHANGED <<home, log, jsb, j, logical, txn, ckpt, ck, limbo>>
    BY <1>4 DEF EndCycle, Shutdown
  <2>2. Live' = Live /\ CopyInv'
    BY <2>1 DEF Live, CopyInv
  <2>3. BatchInv'
    BY <2>1 DEF RecoveryInv, BatchInv, CommitSteps
  <2>4. QED
    BY <2>1, <2>2, <2>3, UpSame
<1>5. CASE \E b \in Batches : DoCommit(b)
  <2>1. PICK b \in Batches : DoCommit(b)
    BY <1>5
  <2>2. /\ pc = "ready" /\ pc' = "reserve" /\ txn' = [NoTxn EXCEPT !.data = b.data, !.revoke = b.revoke]
        /\ UNCHANGED <<home, log, jsb, j, logical, ckpt, ck, limbo>>
    BY <2>1 DEF DoCommit
  <2>3. Live' = Live /\ CopyInv'
    BY <2>2 DEF Live, CopyInv
  <2>4. txn'.data = b.data /\ txn'.revoke = b.revoke
    BY <2>2 DEF NoTxn
  <2>5. b.data \in Datas /\ b.revoke = <<>>
    <3>1. b \in Batch /\ b.revoke = <<>>
      BY JournalAssumption DEF Survivable
    <3>2. b.data \in Seq(Pending)
      BY <3>1 DEF Batch
    <3>3. QED
      BY <3>1, <3>2, JournalAssumption DEF Datas, Distinct
  <2>6. BatchInv'
    BY <2>2, <2>4, <2>5 DEF RecoveryInv, BatchInv, CommitSteps
  <2>7. QED
    BY <2>2, <2>3, <2>6, UpSame
<1>6. CASE CommitRejected
  <2>1. /\ pc \in {"reserve", "jcommit"} /\ pc' = "lag" /\ txn' = NoTxn
        /\ UNCHANGED <<home, log, jsb, j, logical, ckpt, ck, limbo>>
    BY <1>6 DEF CommitRejected
  <2>2. Live' = Live /\ CopyInv'
    BY <2>1 DEF Live, CopyInv
  <2>3. BatchInv'
    BY <2>1, NoTxnData DEF RecoveryInv, BatchInv, CommitSteps
  <2>4. QED
    BY <2>1, <2>2, <2>3, UpSame
<1>7. CASE CommitBegin
  <2>1. /\ pc \in {"reserve", "jcommit"} /\ pc' = "body" /\ Fits(txn)
        /\ txn' = [txn EXCEPT !.sequence = j.next_sequence, !.desc_offset = j.head,
                              !.was_empty = (j.tail = j.head)]
        /\ limbo' = limbo \cup {txn.data}
        /\ UNCHANGED <<home, log, jsb, j, logical, ckpt, ck>>
    BY <1>7 DEF CommitBegin
  <2>2. Live' = Live /\ CopyInv'
    BY <2>1 DEF Live, CopyInv
  <2>3. txn'.data = txn.data /\ txn'.revoke = txn.revoke /\ txn'.was_empty = (j.tail = j.head)
    BY <2>1 DEF RecoveryInv, LogInv, TypeInv, TypeOK
  <2>4. Len(txn.data) <= MaxTags
    <3>1. ~(Len(txn.data) > MaxTags)
      BY <2>1 DEF Fits, logfs_journal_space_needed
    <3>2. Len(txn.data) \in Nat /\ MaxTags \in Nat
      BY JournalAssumption, LenProperties DEF RecoveryInv, LogInv, TypeInv, TypeOK
    <3>3. QED
      BY <3>1, <3>2
  <2>5. BatchInv'
    BY <2>1, <2>3, <2>4 DEF RecoveryInv, BatchInv, CommitSteps
  <2>6. txn'.was_empty <=> Live = <<>>
    <3>1. Up /\ LogInv /\ LogEnd = j.head
      BY <2>1 DEF Up, MountSteps, RecoveryInv, LogEnd, PostCommit
    <3>2. ListAt(Live, j.tail, j.head, LogEndSeq) /\ IsList(Live)
      BY <3>1, UpFacts
    <3>3. Live = <<>> => j.tail = j.head
      BY <3>2 DEF ListAt
    <3>4. ASSUME Live # <<>> PROVE j.tail # j.head
      <4>1. 1 \in DOMAIN Live
        BY <3>2, <3>4, ListElements, EmptySeq
      <4>2. Chain(Live, j.tail, j.head, LogEndSeq)
        BY <3>1, LogFacts DEF Ordered
      <4>3. j.tail <= Live[1].desc_offset /\ Live[1].desc_offset + Size(Live[1]) <= j.head
        BY <4>1, <4>2 DEF Chain
      <4>4. /\ Live[1].desc_offset \in Nat /\ Size(Live[1]) = 2 + Len(Live[1].data)
            /\ Len(Live[1].data) \in Nat
        BY <3>2, <4>1, ListElements
      <4>5. j.tail \in Nat /\ j.head \in Nat
        BY <3>1, LogFacts
      <4>6. QED
        BY <4>3, <4>4, <4>5
    <3>5. QED
      BY <2>3, <3>3, <3>4
  <2>7. QED
    BY <2>1, <2>2, <2>5, <2>6, UpSame
<1>8. QED
  BY <1>1, <1>2, <1>3, <1>4, <1>5, <1>6, <1>7

(* A flush leaves what reads return as the only content.                    *)
LEMMA FlushFacts ==
  ASSUME RecoveryInv, FlushAll
  PROVE  /\ \A b \in Blocks : /\ home'.cur[b] = home.cur[b] /\ home'.alt[b] = {home.cur[b]}
                              /\ home'.alt[b] \subseteq home.alt[b]
         /\ \A a \in Slots : log'.alt[a] \subseteq log.alt[a]
         /\ jsb'.cur = jsb.cur /\ jsb'.alt = {jsb.cur}
         /\ HomeCurInAlt'
<1>1. /\ log' = logfs_bdev_flush(log) /\ home' = logfs_bdev_flush(home)
      /\ jsb' = [cur |-> jsb.cur, alt |-> {jsb.cur}]
  BY DEF FlushAll
<1>2. /\ \A b \in Blocks : home'.cur[b] = home.cur[b] /\ home'.alt[b] = {home.cur[b]}
      /\ \A a \in Slots : log'.alt[a] = {log.cur[a]}
      /\ jsb'.cur = jsb.cur /\ jsb'.alt = {jsb.cur}
  BY <1>1, RecTypes DEF logfs_bdev_flush, Settled
<1>3. \A b \in Blocks : home'.alt[b] \subseteq home.alt[b]
  BY <1>2, RecTypes
<1>4. \A a \in Slots : log'.alt[a] \subseteq log.alt[a]
  BY <1>2, RecTypes
<1>5. HomeCurInAlt'
  BY <1>2 DEF HomeCurInAlt
<1>6. QED
  BY <1>2, <1>3, <1>4, <1>5

(* Fewer contents at home, and fewer of the log.                            *)
LEMMA LessKept ==
  ASSUME NEW H, NEW G, NEW alt, NEW alt2, NEW L, NEW K, NEW e, NEW seq, NEW lim,
         RestHome(H, K, e), \A b \in Blocks : G[b] \subseteq H[b],
         TailAt(alt, L, seq, lim), \A a \in Slots : alt2[a] \subseteq alt[a]
  PROVE  RestHome(G, K, e) /\ TailAt(alt2, L, seq, lim)
BY DEF RestHome, TailAt

(* While a transaction is written the list and the superblock stay.         *)
LEMMA UpWriting ==
  ASSUME RecoveryInv, LogInv', pc \in Writing, pc' \in Writing \cup {"lag"},
         UNCHANGED <<j, ckpt, ck, logical, limbo>>, HomeCurInAlt',
         RestHome(home'.alt, Live, logical), jsb'.cur = jsb.cur, jsb'.alt = {jsb.cur},
         BatchInv', pc' \in Writing => txn'.was_empty = txn.was_empty,
         TailAt(log'.alt, Live, LogEndSeq, limbo)
  PROVE  RecoveryInv'
<1>1. Up /\ Up' /\ pc \notin CkptSteps /\ pc' \notin CkptSteps
  BY DEF Up, MountSteps, Writing, CkptSteps
<1>2. /\ LogEnd = j.head /\ LogEndSeq = j.next_sequence
      /\ LogEnd' = j'.head /\ LogEndSeq' = j'.next_sequence
      /\ Needed' = Live' /\ Live' = Live
  BY <1>1 DEF LogEnd, LogEndSeq, PostCommit, Needed, Live, Writing, CkptSteps
<1>3. UpInv'
  BY <1>1, <1>2, UpFacts DEF UpInv
<1>4. SuperInv'
  <2>1. Names(jsb.cur, Live) /\ (txn.was_empty <=> Live = <<>>)
    BY <1>1 DEF RecoveryInv, SuperInv, Writing
  <2>2. pc' \notin {"jflush", "publish", "cktflush", "jsuper"}
    BY DEF Writing
  <2>3. QED
    BY <1>2, <2>1, <2>2 DEF SuperInv
<1>5. CopyInv'
  BY <1>1 DEF CopyInv, CkptSteps
<1>6. QED
  BY <1>1, <1>3, <1>4, <1>5, UpGoal

(* The commit block of the transaction being written is one of an attempt.  *)
LEMMA AttemptIsLate ==
  ASSUME RecoveryInv, pc = "cblock"
  PROVE  /\ Early(CommitBlock(txn), LogEndSeq + 1)
         /\ Late(CommitBlock(txn), LogEndSeq, limbo)
<1>1. txn.sequence = j.next_sequence /\ LogEndSeq = j.next_sequence /\ j.next_sequence \in Nat
  BY LogFacts DEF RecoveryInv, LogInv, WritingInv, Writing, LogEndSeq, PostCommit, TypeInv, TypeOK
<1>2. txn.data \in limbo /\ txn.revoke = <<>>
  BY DEF RecoveryInv, BatchInv, CommitSteps
<1>3. Body(txn) = Body(Plain(txn.data, LogEndSeq))
  <2> DEFINE u == Plain(txn.data, LogEndSeq)
  <2>1. u.data = txn.data /\ u.revoke = txn.revoke /\ u.sequence = txn.sequence
    BY <1>1, <1>2 DEF Plain
  <2> HIDE DEF u
  <2>2. Body(txn) = Body(u)
    BY <2>1, ImageOfSame
  <2>3. QED
    BY <2>2 DEF u
<1>4. /\ CommitBlock(txn).sequence = LogEndSeq
      /\ CommitBlock(txn).checksum = Body(Plain(txn.data, LogEndSeq))
  BY <1>1, <1>3 DEF CommitBlock
<1>5. LogEndSeq < LogEndSeq + 1
  BY <1>1
<1>6. QED
  BY <1>2, <1>4, <1>5 DEF Early, Late

(* One more block in the log, or half of it.                                *)
LEMMA TailWrite ==
  ASSUME NEW r \in Region(Slots, LogBlock), NEW b \in Slots, NEW v, NEW w,
         w = logfs_bdev_write(r, b, v, TornBlock), NEW L, NEW seq, NEW lim,
         TailAt(r.alt, L, seq, lim), IF L = <<>> THEN Early(v, seq + 1) ELSE Late(v, seq, lim)
  PROVE  TailAt(w.alt, L, seq, lim)
<1>1. /\ \A a \in Slots : a # b => w.alt[a] = r.alt[a]
      /\ w.alt[b] = r.alt[b] \cup {v, TornBlock}
  BY WriteValues
<1>2. Early(TornBlock, seq + 1) /\ Late(TornBlock, seq, lim)
  BY DEF TornBlock, Early, Late
<1> SUFFICES ASSUME NEW a \in Slots, NEW x \in w.alt[a]
             PROVE  IF L = <<>> THEN Early(x, seq + 1) ELSE Late(x, seq, lim)
  BY DEF TailAt
<1>3. x \in r.alt[a] \/ x = v \/ x = TornBlock
  BY <1>1
<1>4. x \in r.alt[a] => IF L = <<>> THEN Early(x, seq + 1) ELSE Late(x, seq, lim)
  BY DEF TailAt
<1>5. QED
  BY <1>2, <1>3, <1>4

(* A write to the log while a transaction is written.                       *)
LEMMA UpWriteBlock ==
  ASSUME RecoveryInv, LogInv', pc \in {"body", "cblock"}, pc' \in Writing \cup {"lag"},
         UNCHANGED <<home, jsb, j, ckpt, ck, logical, limbo>>, BatchInv',
         pc' \in Writing => txn'.was_empty = txn.was_empty,
         NEW v, write_logical(txn.desc_offset + txn.k, v),
         v.type # "commit" \/ (pc = "cblock" /\ v = CommitBlock(txn))
  PROVE  RecoveryInv'
<1>1. Up /\ pc \in Writing /\ LogInv
  BY DEF Up, MountSteps, Writing, RecoveryInv
<1>2. txn.desc_offset + txn.k \in Nat /\ log \in Region(Slots, LogBlock)
  BY <1>1, LogFacts
<1>3. /\ phys_of(txn.desc_offset + txn.k) \in Slots
      /\ log' = logfs_bdev_write(log, phys_of(txn.desc_offset + txn.k), v, TornBlock)
  BY <1>2, PhysInSlots DEF write_logical
<1>4. Early(v, LogEndSeq + 1) /\ Late(v, LogEndSeq, limbo)
  <2>1. CASE v.type # "commit"
    BY <2>1 DEF Early, Late
  <2>2. CASE pc = "cblock" /\ v = CommitBlock(txn)
    BY <2>2, AttemptIsLate
  <2>3. QED
    BY <2>1, <2>2
<1>5. TailAt(log.alt, Live, LogEndSeq, limbo) /\ RestHome(home.alt, Live, logical)
  BY <1>1, UpFacts
<1>6. TailAt(log'.alt, Live, LogEndSeq, limbo)
  BY <1>2, <1>3, <1>4, <1>5, TailWrite
<1>7. jsb'.cur = jsb.cur /\ jsb'.alt = {jsb.cur} /\ HomeCurInAlt' /\ RestHome(home'.alt, Live, logical)
  BY <1>1, <1>5 DEF RecoveryInv, SuperInv, HomeCurInAlt, Writing
<1>8. QED
  BY <1>1, <1>6, <1>7, UpWriting

(* The blocks of a transaction, the flush before its commit block, and      *)
(* every failure up to the flush behind it.                                 *)
LEMMA UpWrites ==
  ASSUME Survivable, RecoveryInv, LogInv',
         CommitWriteBody \/ CommitWriteBlock \/ CommitPreflush \/ CommitError
  PROVE  RecoveryInv'
<1>1. ASSUME CommitWriteBody \/ CommitWriteBlock
      PROVE  /\ txn'.data = txn.data /\ txn'.revoke = txn.revoke
             /\ txn'.was_empty = txn.was_empty
  <2>1. txn' = [txn EXCEPT !.k = @ + 1]
    BY <1>1 DEF CommitWriteBody, CommitWriteBlock
  <2>2. QED
    BY <2>1 DEF RecoveryInv, LogInv, TypeInv, TypeOK
<1>2. CASE CommitWriteBody
  <2>1. /\ pc = "body" /\ pc' = "body" /\ txn.k < Len(Body(txn))
        /\ write_logical(txn.desc_offset + txn.k, Body(txn)[txn.k + 1])
        /\ UNCHANGED <<home, jsb, j, ckpt, ck, logical, limbo>>
    BY <1>2 DEF CommitWriteBody
  <2>2. Body(txn)[txn.k + 1].type # "commit"
    <3>1. Body(txn) \in Seq(BodyBlock) /\ txn.k \in Nat
      <4>1. Up /\ LogInv
        BY <2>1 DEF Up, MountSteps, RecoveryInv
      <4>2. QED
        BY <4>1, LogFacts, BodyProps
    <3>2. Len(Body(txn)) \in Nat /\ txn.k + 1 \in 1 .. Len(Body(txn))
      BY <2>1, <3>1
    <3>3. Body(txn)[txn.k + 1] \in BodyBlock
      BY <3>1, <3>2
    <3>4. \A x \in BodyBlock : x.type # "commit"
      BY DEF BodyBlock
    <3>5. QED
      BY <3>3, <3>4
  <2>3. BatchInv'
    BY <1>1, <1>2, <2>1 DEF RecoveryInv, BatchInv
  <2>4. QED
    BY <1>1, <1>2, <2>1, <2>2, <2>3, UpWriteBlock DEF Writing
<1>3. CASE CommitWriteBlock
  <2>1. /\ pc = "cblock" /\ pc' = "cflush"
        /\ write_logical(txn.desc_offset + txn.k, CommitBlock(txn))
        /\ UNCHANGED <<home, jsb, j, ckpt, ck, logical, limbo>>
    BY <1>3 DEF CommitWriteBlock
  <2>2. BatchInv'
    BY <1>1, <1>3, <2>1 DEF RecoveryInv, BatchInv, CommitSteps
  <2>3. QED
    BY <1>1, <1>3, <2>1, <2>2, UpWriteBlock DEF Writing
<1>4. CASE CommitPreflush
  <2>1. /\ pc = "body" /\ pc' = "cblock" /\ FlushAll
        /\ UNCHANGED <<j, txn, ckpt, ck, logical, limbo>>
    BY <1>4 DEF CommitPreflush
  <2>2. Up
    BY <2>1 DEF Up, MountSteps
  <2>3. /\ HomeCurInAlt' /\ jsb'.cur = jsb.cur /\ jsb'.alt = {jsb.cur}
        /\ \A b \in Blocks : home'.alt[b] \subseteq home.alt[b]
        /\ \A a \in Slots : log'.alt[a] \subseteq log.alt[a]
    BY <2>1, FlushFacts
  <2>4. RestHome(home'.alt, Live, logical) /\ TailAt(log'.alt, Live, LogEndSeq, limbo)
    BY <2>2, <2>3, UpFacts, LessKept
  <2>5. BatchInv'
    BY <2>1 DEF RecoveryInv, BatchInv, CommitSteps
  <2>6. QED
    BY <2>1, <2>3, <2>4, <2>5, UpWriting DEF Writing
<1>5. CASE CommitError
  <2>1. /\ pc \in Writing /\ pc' = "lag" /\ txn' = NoTxn
        /\ UNCHANGED <<home, jsb, j, ckpt, ck, logical, limbo>>
    BY <1>5 DEF CommitError, Fault, CommitSteps, Writing, Survivable
  <2>2. BatchInv'
    BY <2>1, NoTxnData DEF RecoveryInv, BatchInv, CommitSteps
  <2>3. pc' \notin Writing
    BY <2>1 DEF Writing
  <2>4. CASE UNCHANGED log
    <3>1. Up
      BY <2>1 DEF Up, MountSteps, Writing
    <3>2. /\ HomeCurInAlt' /\ jsb'.cur = jsb.cur /\ jsb'.alt = {jsb.cur}
      BY <2>1, <3>1 DEF RecoveryInv, SuperInv, HomeCurInAlt, Writing
    <3>3. RestHome(home'.alt, Live, logical) /\ TailAt(log'.alt, Live, LogEndSeq, limbo)
      BY <2>1, <2>4, <3>1, UpFacts
    <3>4. QED
      BY <2>1, <2>2, <2>3, <3>2, <3>3, UpWriting
  <2>5. CASE /\ pc \in {"body", "cblock"}
             /\ write_logical(txn.desc_offset + txn.k, TornBlock)
    <3>1. TornBlock.type # "commit"
      BY DEF TornBlock
    <3>2. QED
      BY <2>1, <2>2, <2>3, <2>5, <3>1, UpWriteBlock
  <2>6. QED
    BY <1>5, <2>4, <2>5 DEF CommitError
<1>6. QED
  BY <1>2, <1>3, <1>4, <1>5

(* The flush behind the commit block, and the superblock that names the     *)
(* first transaction of an empty log.                                       *)
LEMMA UpCommits ==
  ASSUME RecoveryInv, LogInv', CommitFlush \/ CommitSuperWrite \/ CommitSuperFlush
  PROVE  RecoveryInv'
<1>1. /\ pc \in {"cflush", "jsuper", "jflush"} /\ pc' \in PostCommit
      /\ UNCHANGED <<txn, ckpt, ck, logical, limbo>>
  BY DEF CommitFlush, CommitSuperWrite, CommitSuperFlush, PostCommit
<1>2. Up /\ Up' /\ Live' = Live /\ Needed' = Live /\ CopyInv' /\ LogInv
  BY <1>1 DEF Up, MountSteps, PostCommit, Live, Needed, CopyInv, RecoveryInv
<1>3. BatchInv'
  BY <1>1 DEF RecoveryInv, BatchInv, CommitSteps, PostCommit
<1>4. j'.tail = j.tail /\ LogEnd' = LogEnd /\ LogEndSeq' = LogEndSeq
  <2>1. CASE CommitFlush
    <3>1. /\ pc = "cflush" /\ pc \in Writing /\ pc \notin PostCommit
          /\ j' = [j EXCEPT !.head = txn.desc_offset + txn.k,
                            !.next_sequence = txn.sequence + 1]
      BY <2>1 DEF CommitFlush, Writing, PostCommit
    <3>2. txn.desc_offset = j.head /\ txn.sequence = j.next_sequence
      BY <1>2, <3>1 DEF LogInv, WritingInv
    <3>3. j'.tail = j.tail
      BY <1>2, <3>1 DEF LogInv, TypeInv, TypeOK
    <3>4. QED
      BY <1>1, <3>1, <3>2, <3>3 DEF LogEnd, LogEndSeq
  <2>2. CASE CommitSuperWrite \/ CommitSuperFlush
    BY <1>1, <2>2 DEF CommitSuperWrite, CommitSuperFlush, LogEnd, LogEndSeq, PostCommit
  <2>3. QED
    BY <2>1, <2>2
<1>5. /\ HomeCurInAlt'
      /\ \A b \in Blocks : home'.alt[b] \subseteq home.alt[b]
      /\ \A a \in Slots : log'.alt[a] \subseteq log.alt[a]
  <2>1. CASE CommitFlush \/ CommitSuperFlush
    BY <2>1, FlushFacts DEF CommitFlush, CommitSuperFlush
  <2>2. CASE CommitSuperWrite
    BY <2>2 DEF CommitSuperWrite, RecoveryInv, HomeCurInAlt
  <2>3. QED
    BY <2>1, <2>2
<1>6. UpInv'
  <2>1. RestHome(home'.alt, Live, logical)
    BY <1>2, <1>5, UpFacts, LessKept
  <2>2. \A a \in Slots : \A x \in log'.alt[a] : x \in log.alt[a] \/ x.type # "commit"
    BY <1>5
  <2>3. QED
    BY <1>1, <1>2, <1>4, <2>1, <2>2, UpKeep
<1>7. SuperInv'
  <2>1. CASE CommitFlush
    <3>1. /\ pc = "cflush" /\ pc' = IF txn.was_empty THEN "jsuper" ELSE "publish"
          /\ jsb'.cur = jsb.cur /\ jsb'.alt = {jsb.cur}
      BY <2>1, FlushFacts DEF CommitFlush
    <3>2. Names(jsb.cur, Live) /\ (txn.was_empty <=> Live = <<>>)
      BY <1>2, <3>1 DEF RecoveryInv, SuperInv, Writing
    <3>3. CASE txn.was_empty
      BY <1>2, <3>1, <3>2, <3>3 DEF SuperInv, Writing
    <3>4. CASE ~txn.was_empty
      BY <1>2, <3>1, <3>2, <3>4 DEF SuperInv, Writing
    <3>5. QED
      BY <3>3, <3>4
  <2>2. CASE CommitSuperWrite
    <3> DEFINE s == Super(txn.desc_offset, txn.sequence)
    <3>1. /\ pc = "jsuper" /\ pc' = "jflush"
          /\ jsb' = [cur |-> s, alt |-> jsb.alt \cup {s}]
      BY <2>2 DEF CommitSuperWrite, jsuper_write
    <3>2. jsb'.cur = s /\ jsb'.alt = jsb.alt \cup {s}
      BY <3>1
    <3>3. jsb.alt = {jsb.cur} /\ Names(jsb.cur, Live) /\ Live = <<>>
      BY <1>2, <3>1 DEF RecoveryInv, SuperInv
    <3>4. IsEmpty(jsb.cur)
      BY <3>3 DEF Names
    <3> HIDE DEF s
    <3>5. \A x \in jsb'.alt : x = jsb'.cur \/ IsEmpty(x)
      BY <3>2, <3>3, <3>4
    <3>6. jsb'.cur = Super(txn'.desc_offset, txn'.sequence) /\ jsb'.cur \in jsb'.alt
      BY <1>1, <3>2 DEF s
    <3>7. QED
      BY <1>2, <3>1, <3>3, <3>5, <3>6 DEF SuperInv, Writing
  <2>3. CASE CommitSuperFlush
    <3>1. /\ pc = "jflush" /\ pc' = "publish" /\ jsb'.cur = jsb.cur /\ jsb'.alt = {jsb.cur}
      BY <2>3, FlushFacts DEF CommitSuperFlush
    <3>2. Live = <<>> /\ jsb.cur = Super(txn.desc_offset, txn.sequence)
      BY <3>1 DEF RecoveryInv, SuperInv
    <3>3. QED
      BY <1>1, <1>2, <3>1, <3>2 DEF SuperInv, Writing
  <2>4. QED
    BY <2>1, <2>2, <2>3
<1>8. QED
  BY <1>2, <1>3, <1>5, <1>6, <1>7, UpGoal

(* An attempt that is acknowledged is one transaction more on the list.     *)
LEMMA TailPublished ==
  ASSUME NEW alt, NEW L, NEW seq \in Nat, NEW lim, TailAt(alt, L, seq, lim), NEW K, K # <<>>,
         \A a \in Slots : \A x \in alt[a] : x.type = "commit" => x.sequence \in Nat
  PROVE  TailAt(alt, K, seq + 1, {})
<1> SUFFICES ASSUME NEW a \in Slots, NEW x \in alt[a], x.type = "commit", x.sequence >= seq + 1
             PROVE  FALSE
  BY DEF TailAt, Late
<1>1. x.sequence \in Nat
  OBVIOUS
<1>2. IF L = <<>> THEN Early(x, seq + 1) ELSE Late(x, seq, lim)
  BY DEF TailAt
<1>3. x.sequence < seq + 1 \/ x.sequence < seq \/ x.sequence = seq
  <2>1. CASE L = <<>>
    BY <1>2, <2>1 DEF Early
  <2>2. CASE L # <<>>
    BY <1>1, <1>2, <2>2 DEF Late
  <2>3. QED
    BY <2>1, <2>2
<1>4. QED
  BY <1>1, <1>3

(* do_commit links the transaction and acknowledges it.                     *)
LEMMA UpPublishes ==
  ASSUME RecoveryInv, LogInv', Publish
  PROVE  RecoveryInv'
<1> DEFINE t == Published(txn)
<1>1. /\ pc = "publish" /\ pc' = "lag" /\ ckpt' = Append(ckpt, t)
      /\ logical' = Apply(logical, txn.data) /\ limbo' = {} /\ txn' = NoTxn
      /\ UNCHANGED <<home, log, jsb, j, ck>>
  BY DEF Publish, Published
<1>2. Up /\ Up' /\ LogInv /\ pc \in PostCommit /\ ck.caller = "none"
  <2>1. Up /\ Up' /\ LogInv /\ pc \in PostCommit
    BY <1>1 DEF Up, MountSteps, PostCommit, RecoveryInv
  <2>2. QED
    BY <1>1, <2>1 DEF LogInv, TypeInv, CkptSteps
<1>3. /\ t.data = txn.data /\ t.revoke = txn.revoke /\ t.sequence = txn.sequence
      /\ t.desc_offset = txn.desc_offset
  BY DEF Published
<1>4. t \in LoggedTxn
  <2>1. IsTxn(txn) /\ txn.desc_offset \in Nat
    BY <1>2, LogFacts
  <2>2. QED
    BY <2>1 DEF Published, LoggedTxn, IsTxn
<1>5. Whole(t)
  BY <1>1, <1>3 DEF RecoveryInv, BatchInv, CommitSteps, Whole
<1> HIDE DEF t
<1>6. /\ Live = ckpt /\ IsList(ckpt) /\ ListAt(ckpt, j.tail, LogEnd, LogEndSeq)
      /\ LastWrites(ckpt, logical) /\ RestHome(home.alt, ckpt, logical)
      /\ TailAt(log.alt, ckpt, LogEndSeq, limbo)
  BY <1>2, UpFacts
<1>7. LogEnd = t.desc_offset /\ LogEndSeq = t.sequence
  BY <1>2, <1>3 DEF LogEnd, LogEndSeq
<1>8. ckpt # <<>> => t.desc_offset = EndOff(ckpt) /\ t.sequence = EndSeq(ckpt)
  BY <1>6, <1>7 DEF ListAt
<1> DEFINE K == Append(ckpt, t)
<1>9. /\ IsList(K) /\ K # <<>> /\ EndOff(K) = t.desc_offset + Size(t)
      /\ EndSeq(K) = t.sequence + 1 /\ K[1] = IF ckpt = <<>> THEN t ELSE ckpt[1]
  BY <1>4, <1>5, <1>6, <1>8, ListAppend
<1>10. LastWrites(K, Apply(logical, t.data)) /\ RestHome(home.alt, K, Apply(logical, t.data))
  BY <1>4, <1>5, <1>6, ContentAppend
<1>11. ckpt' = K
  BY <1>1
<1> HIDE DEF K
<1>12. Live' = K
  <2>1. K \in Seq(LoggedTxn)
    BY <1>9 DEF IsList
  <2>2. LiveOf(ck, K) = K
    BY <1>2, <2>1, LogFacts, LiveOfProps
  <2>3. QED
    BY <1>1, <1>11, <2>2 DEF Live, LiveOf
<1>13. Size(t) = Size(txn) /\ t.desc_offset + Size(txn) = j.head /\ t.sequence + 1 = j.next_sequence
  <2>1. Size(t) = Size(txn)
    BY <1>3, ImageOfSame
  <2>2. QED
    BY <1>2, <1>3, <2>1 DEF LogInv, CommittedInv
<1>14. LogEnd' = j.head /\ LogEndSeq' = j.next_sequence /\ Needed' = K
  BY <1>1, <1>12 DEF LogEnd, LogEndSeq, PostCommit, Needed
<1>15. ListAt(K, j.tail, j.head, j.next_sequence)
  <2>1. ckpt = <<>> => j.tail = t.desc_offset
    BY <1>6, <1>7 DEF ListAt
  <2>2. ckpt # <<>> => ckpt[1].desc_offset = j.tail
    BY <1>6 DEF ListAt
  <2>3. QED
    BY <1>9, <1>13, <2>1, <2>2 DEF ListAt
<1>16. TailAt(log.alt, K, j.next_sequence, {})
  <2>1. \A a \in Slots : \A x \in log.alt[a] : x.type = "commit" => x.sequence \in Nat
    <3>1. \A a \in Slots : log.alt[a] \subseteq LogBlock
      BY RecTypes DEF Region
    <3>2. QED
      BY <3>1, BlockKinds
  <2>2. LogEndSeq \in Nat /\ LogEndSeq + 1 = j.next_sequence
    BY <1>2, <1>7, <1>13, LogFacts
  <2>3. TailAt(log.alt, K, LogEndSeq + 1, {})
    BY <1>6, <1>9, <2>1, <2>2, TailPublished
  <2>4. QED
    BY <2>2, <2>3
<1>17. UpInv'
  BY <1>1, <1>3, <1>10, <1>12, <1>14, <1>15, <1>16 DEF UpInv
<1>18. HomeCurInAlt' /\ CopyInv'
  BY <1>1 DEF RecoveryInv, HomeCurInAlt, CopyInv
<1>19. BatchInv'
  BY <1>1, NoTxnData DEF BatchInv, CommitSteps
<1>20. SuperInv'
  <2>1. /\ jsb.cur \in jsb.alt /\ jsb.alt = {jsb.cur}
        /\ ckpt = <<>> => jsb.cur = Super(t.desc_offset, t.sequence)
        /\ ckpt # <<>> => jsb.cur = Super(ckpt[1].desc_offset, ckpt[1].sequence)
    BY <1>1, <1>3, <1>6 DEF RecoveryInv, SuperInv, Names
  <2>2. Names(jsb.cur, K)
    BY <1>9, <2>1 DEF Names
  <2>3. QED
    BY <1>1, <1>12, <2>1, <2>2 DEF SuperInv, Writing
<1>21. QED
  BY <1>2, <1>17, <1>18, <1>19, <1>20, UpGoal

-----------------------------------------------------------------------------
(* The steps of checkpoint_oldest. *)

(* The transaction being checkpointed is the oldest live one, and whole.    *)
LEMMA CkptFacts ==
  ASSUME RecoveryInv, pc \in CkptSteps
  PROVE  /\ Up /\ LogInv /\ ck.caller \in {"reserve", "lag", "drain"} /\ ck.caller # "none"
         /\ LogEnd = j.head /\ LogEndSeq = j.next_sequence
         /\ 1 \in DOMAIN Live /\ Live[1] = ck.t /\ ck.t.data \in Datas
         /\ Len(ck.t.data) \in Nat /\ DOMAIN ck.t.data = 1 .. Len(ck.t.data)
         /\ ck.i \in Nat /\ ck.i >= 1
         /\ \A m \in DOMAIN Live : m > 1 => m - 1 \in DOMAIN ckpt /\ Live[m] = ckpt[m - 1]
<1>1. /\ Up /\ LogInv /\ ck.caller \in {"reserve", "lag", "drain"} /\ ck.caller # "none"
      /\ ck.i \in Nat /\ ck.i >= 1
  <2>1. Up /\ LogInv
    BY DEF RecoveryInv, Up, MountSteps, CkptSteps
  <2>2. QED
    BY <2>1 DEF LogInv, TypeInv, TypeOK
<1>2. LogEnd = j.head /\ LogEndSeq = j.next_sequence
  BY DEF LogEnd, LogEndSeq, PostCommit, CkptSteps
<1>3. /\ IsList(Live) /\ IsList(ckpt) /\ Live # <<>> /\ Len(Live) = Len(ckpt) + 1
      /\ Live[1] = ck.t /\ \A i \in 1 .. Len(ckpt) : Live[i + 1] = ckpt[i]
  BY <1>1, UpFacts
<1>4. /\ Len(ckpt) \in Nat /\ DOMAIN ckpt = 1 .. Len(ckpt)
      /\ DOMAIN Live = 1 .. Len(ckpt) + 1
  BY <1>3, ListElements
<1>5. 1 \in DOMAIN Live
  BY <1>4
<1>6. /\ ck.t.data \in Datas /\ Len(ck.t.data) \in Nat
      /\ DOMAIN ck.t.data = 1 .. Len(ck.t.data)
  BY <1>3, <1>5, ListElements
<1>7. ASSUME NEW m \in DOMAIN Live, m > 1 PROVE m - 1 \in DOMAIN ckpt /\ Live[m] = ckpt[m - 1]
  <2>1. m - 1 \in 1 .. Len(ckpt) /\ (m - 1) + 1 = m
    BY <1>4, <1>7
  <2>2. Live[(m - 1) + 1] = ckpt[m - 1]
    BY <1>3, <2>1
  <2>3. QED
    BY <1>4, <2>1, <2>2
<1>8. QED
  BY <1>1, <1>2, <1>3, <1>5, <1>6, <1>7

(* A block copied home replaces one that recovery would copy too.           *)
LEMMA CkptWrites ==
  ASSUME RecoveryInv, LogInv', CheckpointWrite
  PROVE  RecoveryInv'
<1>1. /\ pc = "ckwrite" /\ pc' = "ckwrite" /\ ck.i <= Len(ck.t.data)
      /\ home' = logfs_bdev_write(home, ck.t.data[ck.i].target, ck.t.data[ck.i].data, TornVal)
      /\ ck' = [ck EXCEPT !.i = @ + 1]
      /\ UNCHANGED <<log, jsb, j, txn, ckpt, logical, limbo>>
  BY DEF CheckpointWrite
<1>2. /\ Up /\ LogInv /\ LogEnd = j.head /\ LogEndSeq = j.next_sequence
      /\ 1 \in DOMAIN Live /\ Live[1] = ck.t /\ ck.t.data \in Datas
      /\ Len(ck.t.data) \in Nat /\ DOMAIN ck.t.data = 1 .. Len(ck.t.data)
      /\ ck.i \in Nat /\ ck.i >= 1
  BY <1>1, CkptFacts DEF CkptSteps
<1>3. ck'.t = ck.t /\ ck'.caller = ck.caller /\ ck'.i = ck.i + 1
  BY <1>1, <1>2 DEF LogInv, TypeInv, TypeOK
<1>4. /\ Up' /\ Live' = Live /\ Needed' = Live
      /\ LogEnd' = LogEnd /\ LogEndSeq' = LogEndSeq
  BY <1>1, <1>2, <1>3 DEF Up, MountSteps, Live, Needed, LogEnd, LogEndSeq, PostCommit
<1> DEFINE p == ck.t.data[ck.i]
<1>5. ck.i \in DOMAIN ck.t.data
  BY <1>1, <1>2
<1>6. /\ p.target \in Blocks
      /\ \A i \in DOMAIN ck.t.data : i # ck.i => ck.t.data[i].target # p.target
      /\ \A i \in DOMAIN ck.t.data : ck.t.data[i].target \in Blocks
  <2>1. /\ ck.t.data \in Seq(Pending)
        /\ \A m, n \in DOMAIN ck.t.data : ck.t.data[m].target = ck.t.data[n].target => m = n
    BY <1>2 DEF Datas, Distinct
  <2>2. \A i \in DOMAIN ck.t.data : ck.t.data[i] \in Pending
    BY <2>1
  <2>3. QED
    BY <1>5, <2>1, <2>2 DEF Pending
<1>7. Writes(Live[1], p.target)
  BY <1>2, <1>5 DEF Writes
<1> HIDE DEF p
<1>8. /\ \A b \in Blocks : b # p.target => home'.cur[b] = home.cur[b] /\ home'.alt[b] = home.alt[b]
      /\ home'.cur[p.target] = p.data
      /\ home'.alt[p.target] = home.alt[p.target] \cup {p.data, TornVal}
  <2>1. home' = logfs_bdev_write(home, p.target, p.data, TornVal)
    BY <1>1 DEF p
  <2>2. QED
    BY <1>6, <2>1, RecTypes, WriteValues
<1>9. RestHome(home'.alt, Live, logical)
  <2>1. RestHome(home.alt, Live, logical)
    BY <1>2, UpFacts
  <2>2. QED
    BY <1>2, <1>7, <1>8, <2>1 DEF RestHome
<1>10. UpInv'
  <2>1. \A a \in Slots : \A x \in log'.alt[a] : x \in log.alt[a] \/ x.type # "commit"
    BY <1>1
  <2>2. QED
    BY <1>1, <1>2, <1>4, <1>9, <2>1, UpKeep
<1>11. HomeCurInAlt'
  BY <1>6, <1>8 DEF RecoveryInv, HomeCurInAlt
<1>12. CopyInv'
  <2> SUFFICES ASSUME NEW i \in DOMAIN ck.t.data, i < ck.i + 1
               PROVE  home'.cur[ck.t.data[i].target] = ck.t.data[i].data
    BY <1>3 DEF CopyInv
  <2>1. CASE i = ck.i
    BY <1>8, <2>1 DEF p
  <2>2. CASE i # ck.i
    <3>1. i < ck.i
      BY <1>2, <2>2
    <3>2. home.cur[ck.t.data[i].target] = ck.t.data[i].data
      BY <1>1, <3>1 DEF RecoveryInv, CopyInv
    <3>3. QED
      BY <1>6, <1>8, <2>2, <3>2
  <2>3. QED
    BY <2>1, <2>2
<1>13. BatchInv'
  BY <1>1 DEF RecoveryInv, BatchInv, CommitSteps
<1>14. SuperInv'
  <2>1. jsb.cur \in jsb.alt /\ jsb.alt = {jsb.cur} /\ Names(jsb.cur, Live)
    BY <1>1, <1>2 DEF RecoveryInv, SuperInv
  <2>2. QED
    BY <1>1, <1>4, <2>1 DEF SuperInv, Writing
<1>15. QED
  BY <1>4, <1>10, <1>11, <1>12, <1>13, <1>14, UpGoal

(* Once its copies are flushed the oldest transaction is not needed.        *)
LEMMA CkptFlushes ==
  ASSUME RecoveryInv, LogInv', CheckpointFlush
  PROVE  RecoveryInv'
<1>1. /\ pc = "ckwrite" /\ pc' = "cktail" /\ ck.i > Len(ck.t.data) /\ FlushAll
      /\ UNCHANGED <<j, txn, ckpt, ck, logical, limbo>>
  BY DEF CheckpointFlush
<1>2. /\ Up /\ LogInv /\ LogEnd = j.head /\ LogEndSeq = j.next_sequence
      /\ 1 \in DOMAIN Live /\ Live[1] = ck.t /\ ck.t.data \in Datas
      /\ Len(ck.t.data) \in Nat /\ DOMAIN ck.t.data = 1 .. Len(ck.t.data)
      /\ ck.i \in Nat
      /\ \A m \in DOMAIN Live : m > 1 => m - 1 \in DOMAIN ckpt /\ Live[m] = ckpt[m - 1]
  BY <1>1, CkptFacts DEF CkptSteps
<1>3. /\ Up' /\ Live' = Live /\ Needed' = ckpt
      /\ LogEnd' = LogEnd /\ LogEndSeq' = LogEndSeq
  BY <1>1, <1>2 DEF Up, MountSteps, Live, Needed, LogEnd, LogEndSeq, PostCommit
<1>4. /\ \A b \in Blocks : /\ home'.alt[b] = {home.cur[b]}
                           /\ home'.alt[b] \subseteq home.alt[b]
      /\ \A a \in Slots : log'.alt[a] \subseteq log.alt[a]
      /\ jsb'.cur = jsb.cur /\ jsb'.alt = {jsb.cur}
      /\ HomeCurInAlt'
  BY <1>1, FlushFacts
<1>5. LastWrites(Live, logical) /\ RestHome(home.alt, Live, logical)
  BY <1>2, UpFacts
<1>6. RestHome(home'.alt, ckpt, logical)
  <2> SUFFICES ASSUME NEW b \in Blocks, \A n \in DOMAIN ckpt : ~Writes(ckpt[n], b)
               PROVE  home.cur[b] = logical[b]
    BY <1>4 DEF RestHome
  <2>1. \A m \in DOMAIN Live : m > 1 => ~Writes(Live[m], b)
    BY <1>2
  <2>2. CASE Writes(Live[1], b)
    <3>1. PICK i \in DOMAIN ck.t.data : ck.t.data[i].target = b
      BY <1>2, <2>2 DEF Writes
    <3>2. i < ck.i
      BY <1>1, <1>2
    <3>3. home.cur[b] = ck.t.data[i].data
      BY <1>1, <3>1, <3>2 DEF RecoveryInv, CopyInv
    <3>4. i \in DOMAIN Live[1].data /\ Live[1].data[i].target = b
      BY <1>2, <3>1
    <3>5. logical[b] = Live[1].data[i].data
      BY <1>2, <1>5, <2>1, <3>4 DEF LastWrites
    <3>6. QED
      BY <1>2, <3>3, <3>5
  <2>3. CASE ~Writes(Live[1], b)
    <3>1. \A m \in DOMAIN Live : ~Writes(Live[m], b)
      <4>1. DOMAIN Live = 1 .. Len(Live) /\ Len(Live) \in Nat
        BY <1>2, UpFacts, ListElements
      <4>2. \A m \in DOMAIN Live : m = 1 \/ m > 1
        BY <4>1
      <4>3. QED
        BY <2>1, <2>3, <4>2
    <3>2. home.cur[b] \in home.alt[b]
      BY RecTypes
    <3>3. QED
      BY <1>5, <3>1, <3>2 DEF RestHome
  <2>4. QED
    BY <2>2, <2>3
<1>7. UpInv'
  <2>1. \A a \in Slots : \A x \in log'.alt[a] : x \in log.alt[a] \/ x.type # "commit"
    BY <1>4
  <2>2. QED
    BY <1>1, <1>2, <1>3, <1>6, <2>1, UpKeep
<1>8. BatchInv' /\ CopyInv'
  BY <1>1 DEF RecoveryInv, BatchInv, CommitSteps, CopyInv
<1>9. SuperInv'
  <2>1. Names(jsb.cur, Live)
    BY <1>1, <1>2 DEF RecoveryInv, SuperInv
  <2>2. QED
    BY <1>1, <1>3, <1>4, <2>1 DEF SuperInv, Writing
<1>10. QED
  BY <1>3, <1>4, <1>7, <1>8, <1>9, UpGoal

(* logfs_journal_advance_tail writes a superblock that names the next one.  *)
LEMMA TailNamesNext ==
  ASSUME RecoveryInv, pc \in CkptSteps
  PROVE  /\ Names(Super(IF NewTail = j.head THEN LOGFS_JOURNAL_EMPTY ELSE NewTail, NewTailSeq), ckpt)
         /\ ListAt(ckpt, NewTail, j.head, j.next_sequence)
<1>1. /\ Up /\ LogInv /\ ck.caller # "none" /\ LogEnd = j.head /\ LogEndSeq = j.next_sequence
  BY CkptFacts
<1>2. /\ IsList(ckpt) /\ Len(Live) = Len(ckpt) + 1
      /\ \A i \in 1 .. Len(ckpt) : Live[i + 1] = ckpt[i]
      /\ ckpt # <<>> => EndSeq(ckpt) = LogEndSeq /\ EndOff(ckpt) = LogEnd
      /\ IsList(Live)
  BY <1>1, UpFacts
<1>3. CASE ckpt = <<>>
  <2>1. NewTail = j.head
    BY <1>3 DEF NewTail
  <2>2. QED
    BY <1>2, <1>3, <2>1 DEF Names, IsEmpty, Super, ListAt
<1>4. CASE ckpt # <<>>
  <2>1. ckpt \in Seq(LoggedTxn) /\ Len(ckpt) \in Nat /\ 1 \in 1 .. Len(ckpt) /\ 1 \in DOMAIN ckpt
    BY <1>2, <1>4, ListElements, EmptySeq
  <2>2. Head(ckpt) = ckpt[1]
    BY <2>1, HeadTailProperties
  <2>3. NewTail = ckpt[1].desc_offset /\ NewTailSeq = ckpt[1].sequence
    BY <1>4, <2>2 DEF NewTail, NewTailSeq
  <2>4. NewTail # j.head
    <3>1. 2 \in DOMAIN Live /\ Live[2] = ckpt[1]
      <4>1. DOMAIN Live = 1 .. Len(ckpt) + 1 /\ 1 + 1 = 2
        BY <1>2, ListElements
      <4>2. Live[1 + 1] = ckpt[1]
        BY <1>2, <2>1
      <4>3. QED
        BY <2>1, <4>1, <4>2
    <3>2. Chain(Live, j.tail, j.head, LogEndSeq)
      BY <1>1, LogFacts DEF Ordered
    <3>3. ckpt[1].desc_offset + Size(ckpt[1]) <= j.head
      BY <3>1, <3>2 DEF Chain
    <3>4. /\ ckpt[1].desc_offset \in Nat /\ Size(ckpt[1]) = 2 + Len(ckpt[1].data)
          /\ Len(ckpt[1].data) \in Nat /\ j.head \in Nat
      BY <1>1, <1>2, <2>1, ListElements, LogFacts
    <3>5. QED
      BY <2>3, <3>3, <3>4
  <2>5. QED
    BY <1>1, <1>2, <1>4, <2>3, <2>4 DEF Names, ListAt
<1>5. QED
  BY <1>3, <1>4

(* The new superblock may or may not be on stable storage.                  *)
LEMMA CkptNames ==
  ASSUME RecoveryInv, LogInv', AdvanceTailWrite
  PROVE  RecoveryInv'
<1> DEFINE s == Super(IF NewTail = j.head THEN LOGFS_JOURNAL_EMPTY ELSE NewTail, NewTailSeq)
<1>1. /\ pc = "cktail" /\ pc' = "cktflush" /\ jsb' = [cur |-> s, alt |-> jsb.alt \cup {s}]
      /\ UNCHANGED <<home, log, j, txn, ckpt, ck, logical, limbo>>
  BY DEF AdvanceTailWrite, jsuper_write
<1>2. jsb'.cur = s /\ jsb'.alt = jsb.alt \cup {s}
  BY <1>1
<1>3. Names(s, ckpt)
  BY <1>1, TailNamesNext DEF CkptSteps
<1> HIDE DEF s
<1>4. Up /\ Up' /\ Live' = Live /\ Needed' = ckpt /\ Needed = ckpt
  BY <1>1 DEF Up, MountSteps, Live, Needed
<1>5. LogEnd' = LogEnd /\ LogEndSeq' = LogEndSeq
  BY <1>1 DEF LogEnd, LogEndSeq, PostCommit
<1>6. UpInv'
  <2>1. RestHome(home'.alt, Needed', logical)
    BY <1>1, <1>4 DEF RecoveryInv, UpInv
  <2>2. \A a \in Slots : \A x \in log'.alt[a] : x \in log.alt[a] \/ x.type # "commit"
    BY <1>1
  <2>3. QED
    BY <1>1, <1>4, <1>5, <2>1, <2>2, UpKeep
<1>7. HomeCurInAlt' /\ BatchInv' /\ CopyInv'
  BY <1>1 DEF RecoveryInv, HomeCurInAlt, BatchInv, CommitSteps, CopyInv
<1>8. SuperInv'
  <2>1. jsb.alt = {jsb.cur} /\ Names(jsb.cur, Live)
    BY <1>1, <1>4 DEF RecoveryInv, SuperInv
  <2>2. \A x \in jsb'.alt : Names(x, Live) \/ Names(x, ckpt)
    BY <1>2, <1>3, <2>1
  <2>3. jsb'.cur \in jsb'.alt /\ Names(jsb'.cur, ckpt')
    BY <1>1, <1>2, <1>3
  <2>4. QED
    BY <1>1, <1>4, <2>2, <2>3 DEF SuperInv, Writing
<1>9. QED
  BY <1>4, <1>6, <1>7, <1>8, UpGoal

(* The oldest transaction leaves the log.                                   *)
LEMMA CkptAdvances ==
  ASSUME RecoveryInv, LogInv', AdvanceTailFlush
  PROVE  RecoveryInv'
<1>1. /\ pc = "cktflush" /\ pc' = ck.caller /\ FlushAll /\ j' = [j EXCEPT !.tail = NewTail]
      /\ ck' = NoCk /\ UNCHANGED <<txn, ckpt, logical, limbo>>
  BY DEF AdvanceTailFlush
<1>2. /\ Up /\ LogInv /\ ck.caller \in {"reserve", "lag", "drain"} /\ 1 \in DOMAIN Live
      /\ LogEnd = j.head /\ LogEndSeq = j.next_sequence
  BY <1>1, CkptFacts DEF CkptSteps
<1>3. j'.tail = NewTail /\ j'.head = j.head /\ j'.next_sequence = j.next_sequence
  BY <1>1, <1>2 DEF LogInv, TypeInv, TypeOK
<1>4. Live' = ckpt
  <2>1. ckpt \in Seq(LoggedTxn) /\ NoCk.t \in LoggedTxn /\ NoCk.caller = "none"
    BY <1>2, LogFacts, NoTypes DEF NoCk
  <2>2. LiveOf(NoCk, ckpt) = ckpt
    BY <2>1, LiveOfProps
  <2>3. QED
    BY <1>1, <2>2 DEF Live, LiveOf
<1>5. /\ Up' /\ Needed' = ckpt /\ LogEnd' = j.head /\ LogEndSeq' = j.next_sequence
  BY <1>1, <1>2, <1>3, <1>4 DEF Up, MountSteps, Needed, LogEnd, LogEndSeq, PostCommit
<1>6. /\ \A b \in Blocks : home'.alt[b] \subseteq home.alt[b]
      /\ \A a \in Slots : log'.alt[a] \subseteq log.alt[a]
      /\ jsb'.cur = jsb.cur /\ jsb'.alt = {jsb.cur}
      /\ HomeCurInAlt'
  BY <1>1, FlushFacts
<1>7. ListAt(ckpt, NewTail, j.head, j.next_sequence)
  BY <1>1, TailNamesNext DEF CkptSteps
<1>8. LastWrites(ckpt, logical) /\ TailAt(log.alt, Live, j.next_sequence, limbo) /\ Live # <<>>
  <2>1. LastWrites(ckpt, logical) /\ TailAt(log.alt, Live, j.next_sequence, limbo)
    BY <1>2, UpFacts
  <2>2. Live # <<>>
    BY <1>2
  <2>3. QED
    BY <2>1, <2>2
<1>9. RestHome(home.alt, ckpt, logical)
  BY <1>1, <1>2 DEF RecoveryInv, UpInv, Needed
<1>10. TailAt(log.alt, ckpt, j.next_sequence, limbo)
  <2> SUFFICES ASSUME NEW a \in Slots, NEW x \in log.alt[a]
               PROVE  /\ Late(x, j.next_sequence, limbo)
                      /\ Early(x, j.next_sequence + 1)
    BY DEF TailAt
  <2>1. Late(x, j.next_sequence, limbo)
    BY <1>8 DEF TailAt
  <2>2. x \in LogBlock
    BY RecTypes DEF Region
  <2>3. x.type = "commit" => x.sequence \in Nat
    BY <2>2, BlockKinds
  <2>4. j.next_sequence \in Nat
    BY <1>2, LogFacts
  <2>5. Early(x, j.next_sequence + 1)
    BY <2>1, <2>3, <2>4 DEF Early, Late
  <2>6. QED
    BY <2>1, <2>5
<1>11. RestHome(home'.alt, ckpt, logical) /\ TailAt(log'.alt, ckpt, j.next_sequence, limbo)
  BY <1>6, <1>9, <1>10, LessKept
<1>12. UpInv'
  BY <1>1, <1>3, <1>4, <1>5, <1>7, <1>8, <1>11 DEF UpInv
<1>13. BatchInv' /\ CopyInv'
  BY <1>1, <1>2 DEF RecoveryInv, BatchInv, CommitSteps, CopyInv
<1>14. SuperInv'
  <2>1. Names(jsb.cur, ckpt)
    BY <1>1 DEF RecoveryInv, SuperInv
  <2>2. pc' \notin {"jflush", "publish", "cktflush", "jsuper"} \cup Writing
    BY <1>1, <1>2 DEF Writing
  <2>3. QED
    BY <1>4, <1>6, <2>1, <2>2 DEF SuperInv
<1>15. QED
  BY <1>5, <1>6, <1>12, <1>13, <1>14, UpGoal

-----------------------------------------------------------------------------
(* The invariant, and what follows from it. *)

(* A freshly formatted journal satisfies the invariant.                     *)
LEMMA RecoveryInit == Init => RecoveryInv
<1> SUFFICES ASSUME Init PROVE RecoveryInv
  OBVIOUS
<1> DEFINE e == [b \in Blocks |-> InitVal]
           s == Super(LOGFS_JOURNAL_EMPTY, 0)
<1>1. LogInv
  BY LogInit
<1>2. /\ home = Settled(e) /\ jsb = [cur |-> s, alt |-> {s}] /\ logical = e /\ limbo = {}
      /\ pc = "down" /\ txn = NoTxn
  BY DEF Init
<1>3. home.cur = e /\ \A b \in Blocks : home.alt[b] = {e[b]}
  BY <1>2 DEF Settled
<1>4. jsb.cur = s /\ jsb.alt = {s}
  BY <1>2
<1>5. HomeCurInAlt
  BY <1>3 DEF HomeCurInAlt
<1>6. IsEmpty(s)
  BY DEF IsEmpty, Super
<1> HIDE DEF e, s
<1>7. AllRecoverable(home, log, jsb, logical, limbo)
  <2> SUFFICES ASSUME NEW l PROVE Recoverable(home.alt, l, s, e, limbo)
    BY <1>2, <1>4 DEF AllRecoverable
  <2>1. IsList(<<>>) /\ LastWrites(<<>>, e) /\ \A n \in DOMAIN <<>> : Stored(l, <<>>[n])
    BY DEF IsList, Tiled, LastWrites
  <2>2. RestHome(home.alt, <<>>, e)
    BY <1>3 DEF RestHome
  <2>3. QED
    BY <1>6, <2>1, <2>2, NamedIsRecoverable DEF Names
<1>8. CrashSafe(home, log, jsb, logical, limbo)
  <2>1. /\ home \in Region(Blocks, Vals \cup {TornVal}) /\ log \in Region(Slots, LogBlock)
        /\ \A b \in Blocks : home.cur[b] \in home.alt[b]
        /\ \A a \in Slots : log.cur[a] \in log.alt[a]
        /\ jsb.cur \in jsb.alt
    BY <1>1, <1>4, <1>5 DEF LogInv, TypeInv, TypeOK, CurInAlt, HomeCurInAlt
  <2>2. QED
    BY <1>7, <2>1, AllIsSafe
<1>9. ~Up
  BY <1>2 DEF Up
<1>10. BatchInv
  BY <1>2, NoTxnData DEF BatchInv, CommitSteps
<1>11. SuperInv
  BY <1>2, <1>4, <1>9 DEF SuperInv, Writing
<1>12. UpInv /\ CopyInv /\ CrashInv /\ RecInv
  BY <1>2, <1>8, <1>9 DEF UpInv, CopyInv, CrashInv, RecInv
<1>13. QED
  BY <1>1, <1>5, <1>10, <1>11, <1>12 DEF RecoveryInv

(* A step that changes nothing.                                             *)
LEMMA RecoveryStutter ==
  ASSUME RecoveryInv, LogInv', UNCHANGED vars
  PROVE  RecoveryInv'
<1>1. UNCHANGED <<home, log, jsb, j, pc, txn, ckpt, ck, rec, logical, limbo>>
  BY DEF vars
<1>2. /\ Live' = Live /\ LogEnd' = LogEnd /\ LogEndSeq' = LogEndSeq /\ Up' = Up
      /\ Needed' = Needed
  BY <1>1 DEF Live, LogEnd, LogEndSeq, Up, Needed
<1>3. CASE Up
  <2>1. UpInv'
    BY <1>1, <1>2 DEF RecoveryInv, UpInv
  <2>2. SuperInv'
    BY <1>1, <1>2 DEF RecoveryInv, SuperInv
  <2>3. HomeCurInAlt' /\ BatchInv' /\ CopyInv'
    BY <1>1 DEF RecoveryInv, HomeCurInAlt, BatchInv, CopyInv
  <2>4. QED
    BY <1>2, <1>3, <2>1, <2>2, <2>3, UpGoal
<1>4. CASE ~Up
  <2>1. pc \in MountSteps \cup {"down"} /\ pc' \in MountSteps \cup {"down"}
    BY <1>1, <1>4 DEF Up
  <2>2. RecInv'
    BY <1>1 DEF RecoveryInv, RecInv, Replaying
  <2>3. txn'.data \in Datas /\ txn'.revoke = <<>>
    BY <1>1, <2>1, DownFacts
  <2>4. QED
    BY <1>1, <2>1, <2>2, <2>3, DownSame
<1>5. QED
  BY <1>3, <1>4

(* Every step keeps the invariant.                                          *)
LEMMA RecoveryStep ==
  ASSUME Survivable, RecoveryInv, [Next]_vars
  PROVE  RecoveryInv'
<1>1. LogInv'
  BY LogStep DEF RecoveryInv
<1>2. CASE OpenNonempty
  BY <1>1, <1>2, MountOpens
<1>3. CASE RecoverScan \/ RecoverScanEnd
  BY <1>1, <1>3, MountScans
<1>4. CASE RecoverInstall
  BY <1>1, <1>4, MountInstalls
<1>5. CASE RecoverEmpty
  BY <1>1, <1>5, MountEmpties
<1>6. CASE OpenEmpty \/ RecoverFlush
  BY <1>1, <1>6, MountFinishes
<1>7. CASE \/ \E b \in Batches : DoCommit(b)
           \/ Reserve \/ CommitRejected \/ CommitBegin
           \/ EnforceLag \/ EndCycle \/ Shutdown \/ Drain
  BY <1>1, <1>7, UpPrepare
<1>8. CASE CommitWriteBody \/ CommitWriteBlock \/ CommitPreflush \/ CommitError
  BY <1>1, <1>8, UpWrites
<1>9. CASE CommitFlush \/ CommitSuperWrite \/ CommitSuperFlush
  BY <1>1, <1>9, UpCommits
<1>10. CASE Publish
  BY <1>1, <1>10, UpPublishes
<1>11. CASE CheckpointWrite
  BY <1>1, <1>11, CkptWrites
<1>12. CASE CheckpointFlush
  BY <1>1, <1>12, CkptFlushes
<1>13. CASE AdvanceTailWrite
  BY <1>1, <1>13, CkptNames
<1>14. CASE AdvanceTailFlush
  BY <1>1, <1>14, CkptAdvances
<1>15. ~CheckpointError
  BY DEF CheckpointError, Fault, CkptSteps, Survivable
<1>16. CASE RecoverError
  BY <1>1, <1>16, MountFails
<1>17. CASE Kill \/ Unmounted
  BY <1>1, <1>17, KillIsSafe
<1>18. CASE PowerLoss
  BY <1>1, <1>18, LossOfPower
<1>19. CASE UNCHANGED vars
  BY <1>1, <1>19, RecoveryStutter
<1>20. QED
  BY <1>2, <1>3, <1>4, <1>5, <1>6, <1>7, <1>8, <1>9, <1>10, <1>11, <1>12, <1>13, <1>14,
     <1>15, <1>16, <1>17, <1>18, <1>19 DEF Next, ThreadStep

(* The invariant holds of every behaviour.                                  *)
LEMMA RecoveryInvariant ==
  ASSUME Survivable
  PROVE  Spec => []RecoveryInv
<1>1. RecoveryInv /\ [Next]_vars => RecoveryInv'
  BY RecoveryStep
<1>2. QED
  BY <1>1, RecoveryInit, PTL DEF Spec

(* The newest copy of a block in a list that leads to the acknowledged      *)
(* contents is the acknowledged one; a block not in the list is at home.    *)
LEMMA NewestOf ==
  ASSUME NEW L, IsList(L), LastWrites(L, logical), NEW b \in Blocks
  PROVE  /\ (\E n \in DOMAIN L : Writes(L[n], b)) => Newest(L, b) = logical[b]
         /\ (\A n \in DOMAIN L : ~Writes(L[n], b)) => Newest(L, b) = home.cur[b]
<1> DEFINE W == {i \in DOMAIN L : Writes(L[i], b)}
           q == CHOOSE i \in W : \A m \in W : m <= i
<1>1. Len(L) \in Nat /\ DOMAIN L = 1 .. Len(L) /\ \A n \in DOMAIN L : L[n].data \in Datas
  BY ListElements
<1>2. Newest(L, b) = IF W = {} THEN home.cur[b] ELSE Apply(home.cur, L[q].data)[b]
  BY DEF Newest
<1>3. (\A n \in DOMAIN L : ~Writes(L[n], b)) => Newest(L, b) = home.cur[b]
  BY <1>2
<1>4. ASSUME W # {} PROVE Newest(L, b) = logical[b]
  <2>1. W \in SUBSET (1 .. Len(L))
    BY <1>1
  <2>2. \E i \in W : \A m \in W : m <= i
    <3> HIDE DEF W
    <3>1. QED
      BY <1>1, <1>4, <2>1, GreatestOf
  <2>3. q \in W /\ \A m \in W : m <= q
    BY <2>2
  <2>4. q \in DOMAIN L /\ Writes(L[q], b)
    BY <2>3
  <2>5. \A m \in DOMAIN L : m > q => ~Writes(L[m], b)
    <3>1. \A m \in DOMAIN L : Writes(L[m], b) => m <= q
      BY <2>3
    <3> HIDE DEF q
    <3>2. q \in Nat /\ \A m \in DOMAIN L : m \in Nat
      BY <1>1, <2>4
    <3>3. QED
      BY <3>1, <3>2
  <2> HIDE DEF q, W
  <2>6. PICK i \in DOMAIN L[q].data : L[q].data[i].target = b
    BY <2>4 DEF Writes
  <2>7. Apply(home.cur, L[q].data)[b] = L[q].data[i].data
    <3>1. L[q].data \in Datas
      BY <1>1, <2>4
    <3>2. QED
      BY <2>6, <3>1, ApplyValues
  <2>8. logical[b] = L[q].data[i].data
    BY <2>4, <2>5, <2>6 DEF LastWrites
  <2>9. QED
    BY <1>2, <1>4, <2>7, <2>8
<1>5. QED
  BY <1>3, <1>4

(* LoggedView is what the list leads to.                                    *)
LEMMA ViewOfList ==
  ASSUME RecoveryInv, Up
  PROVE  LoggedView = logical
<1>1. IsList(Live) /\ LastWrites(Live, logical) /\ RestHome(home.alt, Live, logical)
  BY UpFacts
<1>2. ASSUME NEW b \in Blocks PROVE Newest(Live, b) = logical[b]
  <2>1. CASE \E n \in DOMAIN Live : Writes(Live[n], b)
    BY <1>1, <2>1, NewestOf
  <2>2. CASE \A n \in DOMAIN Live : ~Writes(Live[n], b)
    <3>1. home.cur[b] \in home.alt[b]
      BY RecTypes
    <3>2. home.cur[b] = logical[b]
      BY <1>1, <2>2, <3>1 DEF RestHome
    <3>3. QED
      BY <1>1, <2>2, <3>2, NewestOf
  <2>3. QED
    BY <2>1, <2>2
<1>3. LoggedView = [b \in Blocks |-> Newest(Live, b)]
  BY DEF LoggedView
<1>4. logical = [b \in Blocks |-> logical[b]]
  BY RecTypes
<1>5. QED
  BY <1>2, <1>3, <1>4

(* A block that is neither on the checkpoint list nor still to be copied by *)
(* the checkpoint under way has its acknowledged content at home.           *)
LEMMA CopiedIsHome ==
  ASSUME RecoveryInv, Up, NEW b \in Blocks,
         \A n \in DOMAIN ckpt : ~Writes(ckpt[n], b), ~Uncopied(b)
  PROVE  home.cur[b] = logical[b]
<1>1. LastWrites(Live, logical) /\ RestHome(home.alt, Live, logical) /\ home.cur[b] \in home.alt[b]
  BY UpFacts, RecTypes
<1>2. CASE pc \notin CkptSteps
  <2>1. ck.caller = "none"
    BY <1>2 DEF RecoveryInv, LogInv, TypeInv
  <2>2. Live = ckpt
    BY <2>1, UpFacts
  <2>3. QED
    BY <1>1, <2>2 DEF RestHome
<1>3. CASE pc \in {"cktail", "cktflush"}
  <2>1. RestHome(home.alt, ckpt, logical)
    BY <1>3 DEF RecoveryInv, UpInv, Needed
  <2>2. QED
    BY <1>1, <2>1 DEF RestHome
<1>4. CASE pc = "ckwrite"
  <2>1. /\ 1 \in DOMAIN Live /\ Live[1] = ck.t
        /\ Len(ck.t.data) \in Nat /\ DOMAIN ck.t.data = 1 .. Len(ck.t.data) /\ ck.i \in Nat
        /\ \A m \in DOMAIN Live : m > 1 => m - 1 \in DOMAIN ckpt /\ Live[m] = ckpt[m - 1]
    BY <1>4, CkptFacts DEF CkptSteps
  <2>2. \A m \in DOMAIN Live : m > 1 => ~Writes(Live[m], b)
    BY <2>1
  <2>3. CASE Writes(ck.t, b)
    <3>1. PICK i \in DOMAIN ck.t.data : ck.t.data[i].target = b
      BY <2>3 DEF Writes
    <3>2. i < ck.i
      BY <1>4, <2>1, <3>1 DEF Uncopied
    <3>3. home.cur[b] = ck.t.data[i].data
      BY <1>4, <3>1, <3>2 DEF RecoveryInv, CopyInv
    <3>4. i \in DOMAIN Live[1].data /\ Live[1].data[i].target = b
      BY <2>1, <3>1
    <3>5. logical[b] = Live[1].data[i].data
      BY <1>1, <2>1, <2>2, <3>4 DEF LastWrites
    <3>6. QED
      BY <2>1, <3>3, <3>5
  <2>4. CASE ~Writes(ck.t, b)
    <3>1. \A m \in DOMAIN Live : m = 1 \/ m > 1
      <4>1. DOMAIN Live = 1 .. Len(Live) /\ Len(Live) \in Nat
        BY UpFacts, ListElements
      <4>2. QED
        BY <4>1
    <3>2. \A m \in DOMAIN Live : ~Writes(Live[m], b)
      BY <2>1, <2>2, <2>4, <3>1
    <3>3. QED
      BY <1>1, <3>2 DEF RestHome
  <2>5. QED
    BY <2>3, <2>4
<1>5. QED
  BY <1>2, <1>3, <1>4 DEF CkptSteps

(* Crash atomicity and durability: whenever the file system is mounted, the *)
(* contents its log and its device hold together (those a recovery would    *)
(* restore) are the acknowledged transactions applied in order (and at most *)
(* one whole unacknowledged one that a mount found), for every log size and *)
(* batch and after any number of failed commits, kills, power losses and    *)
(* recoveries.                                                              *)
THEOREM ViewStaysCommitted ==
  ASSUME Survivable
  PROVE  Spec => []ViewIsCommitted
<1>1. RecoveryInv => ViewIsCommitted
  BY ViewOfList DEF ViewIsCommitted
<1>2. QED
  BY <1>1, RecoveryInvariant, PTL

(* What logfs_txn_read_block finds on the checkpoint list or on the device  *)
(* is the acknowledged content of its block, at every step of commits,      *)
(* checkpoints, wraps, errors and recoveries, with one exception: a block   *)
(* of the transaction checkpoint_oldest has unlinked, not written by any    *)
(* later one, until the copy of this very block is made (txn.c:205).        *)
THEOREM ReadsStayCommitted ==
  ASSUME Survivable
  PROVE  Spec => []ReadsCommitted
<1>1. RecoveryInv => ReadsCommitted
  <2> SUFFICES ASSUME RecoveryInv, Up, NEW b \in Blocks
               PROVE  \/ logfs_txn_read_block(b) = logical[b]
                      \/ Uncopied(b) /\ \A n \in DOMAIN ckpt : ~Writes(ckpt[n], b)
    BY DEF ReadsCommitted
  <2>1. IsList(ckpt) /\ LastWrites(ckpt, logical)
    BY UpFacts
  <2>2. CASE \E n \in DOMAIN ckpt : Writes(ckpt[n], b)
    BY <2>1, <2>2, NewestOf DEF logfs_txn_read_block
  <2>3. CASE (\A n \in DOMAIN ckpt : ~Writes(ckpt[n], b)) /\ ~Uncopied(b)
    <3>1. home.cur[b] = logical[b]
      BY <2>3, CopiedIsHome
    <3>2. QED
      BY <2>1, <2>3, <3>1, NewestOf DEF logfs_txn_read_block
  <2>4. QED
    BY <2>2, <2>3
<1>2. QED
  BY <1>1, RecoveryInvariant, PTL

(* What a mount finds, by replay or in an empty log, is a committed state:  *)
(* the two passes of recovery install every acknowledged transaction and at *)
(* most one whole unacknowledged one, however often they are interrupted.   *)
THEOREM EveryMountRestores ==
  ASSUME Survivable
  PROVE  Spec => []MountRestores
<1>1. RecoveryInv => MountRestores
  <2> SUFFICES ASSUME RecoveryInv PROVE MountRestores
    OBVIOUS
  <2>1. pc = "settle" => home.cur \in Allowed
    <3>1. pc = "settle" => IsEmpty(jsb.cur)
      BY DEF RecoveryInv, RecInv
    <3>2. QED
      BY <3>1, EmptyIsAllowed DEF MountSteps
  <2>2. pc = "down" /\ jsb.cur.start = LOGFS_JOURNAL_EMPTY => home.cur \in Allowed
    BY EmptyIsAllowed DEF IsEmpty
  <2>3. QED
    BY <2>1, <2>2 DEF MountRestores
<1>2. QED
  BY <1>1, RecoveryInvariant, PTL

(* The live transactions follow each other without a gap from tail to head, *)
(* with consecutive sequence numbers: the scan of recovery, which stops at  *)
(* the first gap, would walk all of them.                                   *)
THEOREM LogStaysTiled ==
  ASSUME Survivable
  PROVE  Spec => []LogTiled
<1>1. RecoveryInv => LogTiled
  <2> SUFFICES ASSUME RecoveryInv, Up PROVE LogTiled
    BY DEF LogTiled
  <2>1. ListAt(Live, j.tail, LogEnd, LogEndSeq) /\ IsList(Live)
    BY UpFacts
  <2>2. Len(Live) \in Nat /\ Live \in Seq(LoggedTxn) /\ (Len(Live) = 0 <=> Live = <<>>)
    BY <2>1, ListElements, EmptySeq
  <2>3. j.tail <= j.head /\ j.head - j.tail <= MaxLen
    <3>1. LogInv
      BY DEF RecoveryInv
    <3>2. /\ j.tail <= LogEnd /\ LogEnd <= j.head /\ j.head - j.tail <= MaxLen
          /\ j.tail \in Nat /\ LogEnd \in Nat /\ j.head \in Nat
      BY <3>1, LogFacts DEF Ordered
    <3>3. QED
      BY <3>2
  <2>4. Len(Live) = 0 => j.tail = LogEnd
    BY <2>1, <2>2 DEF ListAt
  <2>5. Len(Live) > 0 => /\ Live[1].desc_offset = j.tail
                         /\ Live[Len(Live)].desc_offset + Size(Live[Len(Live)]) = LogEnd
                         /\ Live[Len(Live)].sequence + 1 = LogEndSeq
    <3>1. Len(Live) > 0 => Live # <<>>
      BY <2>2
    <3>2. QED
      BY <2>1, <3>1 DEF ListAt, EndOff, EndSeq
  <2>6. \A i \in 1 .. Len(Live) - 1 :
          /\ Live[i + 1].desc_offset = Live[i].desc_offset + Size(Live[i])
          /\ Live[i + 1].sequence = Live[i].sequence + 1
    BY <2>1 DEF IsList, Tiled
  <2>7. QED
    BY <2>3, <2>4, <2>5, <2>6 DEF LogTiled
<1>2. QED
  BY <1>1, RecoveryInvariant, PTL

(* Outside the steps that rewrite it, the superblock on stable storage      *)
(* names the oldest transaction recovery needs and says "empty" only when   *)
(* there is none.                                                           *)
THEOREM SuperStaysTrue ==
  ASSUME Survivable
  PROVE  Spec => []SuperNamesOldest
<1>1. RecoveryInv => SuperNamesOldest
  <2> SUFFICES ASSUME RecoveryInv, Up, pc \notin PostCommit \cup {"cktflush"}
               PROVE  /\ jsb.alt = {jsb.cur}
                      /\ IF Live = <<>> THEN jsb.cur.start = LOGFS_JOURNAL_EMPTY
                         ELSE jsb.cur = Super(Live[1].desc_offset, Live[1].sequence)
    BY DEF SuperNamesOldest
  <2>1. jsb.alt = {jsb.cur} /\ Names(jsb.cur, Live)
    BY DEF RecoveryInv, SuperInv, PostCommit
  <2>2. QED
    BY <2>1 DEF Names, IsEmpty
<1>2. QED
  BY <1>1, RecoveryInvariant, PTL

(* A block that recovery is not bound to replay has its committed content   *)
(* at home in every image a power loss could leave: checkpointing gives up  *)
(* the log space of a transaction only after all its copies are durable.    *)
THEOREM HomeStaysComplete ==
  ASSUME Survivable
  PROVE  Spec => []HomeHoldsRest
<1>1. RecoveryInv => HomeHoldsRest
  <2> SUFFICES ASSUME RecoveryInv, Up, NEW b \in Blocks,
                      \A n \in DOMAIN Needed : ~Writes(Needed[n], b)
               PROVE  home.alt[b] = {logical[b]}
    BY DEF HomeHoldsRest, Needed
  <2>1. RestHome(home.alt, Needed, logical)
    BY DEF RecoveryInv, UpInv
  <2>2. \A v \in home.alt[b] : v = logical[b]
    BY <2>1 DEF RestHome
  <2>3. home.cur[b] \in home.alt[b]
    BY RecTypes
  <2>4. QED
    BY <2>2, <2>3
<1>2. QED
  BY <1>1, RecoveryInvariant, PTL
=============================================================================
