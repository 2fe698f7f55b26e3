-------------------------- MODULE BlockPool_proofs --------------------------
(***************************************************************************)
(* The safety of the block pool, for any layout, any number of tasks, any  *)
(* mutex that times out and any free that is refused.                      *)
(*                                                                         *)
(* EachBlockOnce and SemCounts are not inductive by themselves: they need  *)
(* to know which call has a block between the list and the caller          *)
(* (NodeInv), and by how much the list and blk_free differ while the mutex *)
(* is held (ListCounts).                                                   *)
(***************************************************************************)
EXTENDS BlockPool, FiniteSetTheorems, TLAPS

(* A call has a block from the list to its return, or from its start to    *)
(* the list.                                                               *)
NodeInv ==
    \A t \in Tasks : /\ pc[t] \in {"count", "unlock"} => node[t] # NULL
                     /\ pc[t] \notin {"count", "unlock", "freelock", "link"} => node[t] = NULL

(* blk_free follows the list; there is room for the block being linked.    *)
ListCounts ==
    /\ \A t \in Tasks : pc[t] = "count" => blk_free = Len(free_list) + 1
    /\ \A t \in Tasks : pc[t] = "freecount" =>
            Len(free_list) = blk_free + 1 /\ blk_free < pool.blk_total
    /\ (\A t \in Tasks : pc[t] \notin {"count", "freecount"}) => blk_free = Len(free_list)

(* The claims on blocks and the puts that are due make up the difference.  *)
SemSum == blk_free = sem + Cardinality(Claims) + Cardinality(Owing)

(* The mutex of a free that was refused is never put. *)
RefusedKeeps == refused => mtx # NULL

IInv == TypeOK /\ MutexPut /\ RefusedKeeps /\ NodeInv /\ ListCounts /\ EachBlockOnce /\ SemSum
-----------------------------------------------------------------------------
(* The layout. *)

LEMMA AlignedProperties ==
    ASSUME NEW x \in Nat, NEW m \in Nat \ {0}
    PROVE  /\ Aligned(x, m) % m = 0
           /\ Aligned(x, m) \in Nat /\ x <= Aligned(x, m) /\ Aligned(x, m) < x + m
<1> DEFINE q == x \div m
<1>1. x = (m * q) + (x % m) /\ x % m \in 0..(m - 1) /\ q \in Nat
  OBVIOUS
<1>2. CASE x % m = 0
  BY <1>2 DEF Aligned
<1>3. CASE x % m # 0
  <2>1. Aligned(x, m) = (m * q) + m
    BY <1>1, <1>3 DEF Aligned
  <2>2. (m * q) + m = m * (q + 1) /\ q + 1 \in Nat
    BY <1>1
  <2>3. (m * (q + 1)) % m = 0
    BY <2>2
  <2> QED
    BY <1>1, <1>3, <2>1, <2>2, <2>3
<1> QED
  BY <1>2, <1>3

LEMMA AlignedBounds ==
    /\ \A x \in Nat \ {0}, m \in Nat \ {0} : Aligned(x, m) \in Nat \ {0}
    /\ \A x \in Nat, m \in Nat \ {0} : Aligned(x, m) \in Nat
    /\ \A x \in Nat, m \in Nat \ {0} : x <= Aligned(x, m)
    /\ \A x \in Nat, m \in Nat \ {0} : Aligned(x, m) < x + m
  BY AlignedProperties

LEMMA AlignedMultiple ==
    \A x \in Nat, m \in Nat \ {0} : Aligned(x, m) % m = 0
  BY AlignedProperties

LEMMA MultipleIsLarge ==
    ASSUME NEW x \in Nat \ {0}, NEW m \in Nat \ {0}, x % m = 0
    PROVE  m <= x
<1>1. x = (m * (x \div m)) + (x % m) /\ x \div m \in Nat
  OBVIOUS
<1>2. CASE x \div m = 0
  BY <1>1, <1>2
<1>3. CASE x \div m # 0
  BY <1>1, <1>3
<1> QED
  BY <1>2, <1>3

(* As many blocks with their pointers as the memory has room for. *)
LEMMA CountFits ==
    ASSUME NEW n \in Nat, NEW k \in Nat \ {0}
    PROVE  n \div k \in Nat /\ k * (n \div k) <= n
  OBVIOUS

(* One block less makes room for any alignment. *)
LEMMA OneLessFits ==
    ASSUME NEW size \in Nat, NEW align \in Nat, align <= size,
           NEW pointer \in Nat, NEW count \in Nat, NEW addr \in Nat, NEW bytes \in Nat,
           (pointer + size) * count <= bytes,
           NEW start \in Nat, start < (addr + pointer * (count - 1)) + align
    PROVE  start + (count - 1) * size <= addr + bytes
<1> DEFINE u == pointer * count
           v == count * size
           d == pointer * (count - 1)
           e == (count - 1) * size
           w == (pointer + size) * count
<1>1. d = u - pointer /\ e = v - size /\ w = u + v
  OBVIOUS
<1>2. u \in Nat /\ v \in Nat
  OBVIOUS
<1>3. w <= bytes /\ start < (addr + d) + align
  OBVIOUS
<1> SUFFICES start + e <= addr + bytes
  OBVIOUS
<1> HIDE DEF u, v, d, e, w
<1> QED
  BY <1>1, <1>2, <1>3

LEMMA CreatedProperties ==
    ASSUME NEW a \in Arguments
    PROVE  LET size  == Aligned(a.blk_size, a.align)
               total == BlockTotal(a, size) IN
           /\ Created(a) = [args |-> a, blk_size |-> size, blk_total |-> total,
                            blk_addr |-> BlockAddr(a, total)]
           /\ total \in Nat
           /\ size % a.align = 0 /\ a.blk_size <= size
           /\ BlockAddr(a, total) % a.align = 0
           /\ a.pool_addr + PointerSize * total <= BlockAddr(a, total)
           /\ total > 0 => BlockAddr(a, total) + total * size <= a.pool_addr + a.pool_size
<1> DEFINE size == Aligned(a.blk_size, a.align)
           total == BlockTotal(a, size)
<1>1. /\ a.blk_size \in Nat \ {0} /\ a.align \in Nat \ {0}
      /\ a.pool_addr \in Nat /\ a.pool_size \in Nat \ {0}
      /\ PointerSize \in Nat \ {0}
  BY BlockPoolAssumption DEF BlockPoolAssumption
<1>2. Created(a) = [args |-> a, blk_size |-> size, blk_total |-> total,
                    blk_addr |-> BlockAddr(a, total)]
  BY DEF Created
<1>3. size \in Nat \ {0} /\ size % a.align = 0 /\ a.blk_size <= size
  BY <1>1, AlignedBounds, AlignedMultiple
<1> HIDE DEF size
<1> DEFINE count == a.pool_size \div (PointerSize + size)
<1>4. count \in Nat /\ (PointerSize + size) * count <= a.pool_size
  <2>1. PointerSize + size \in Nat \ {0} /\ a.pool_size \in Nat
    BY <1>1, <1>3
  <2> QED
    BY <2>1, CountFits
<1>5. /\ count = 0 \/ FitsIn(a, size, count) => total = count
      /\ ~(count = 0 \/ FitsIn(a, size, count)) => total = count - 1
  BY DEF BlockTotal
<1> HIDE DEF count, total
<1>6. total \in Nat
  BY <1>4, <1>5
<1> DEFINE behind == a.pool_addr + PointerSize * total
<1>7. behind \in Nat
  <2>1. PointerSize * total \in Nat
    BY <1>1, <1>6
  <2> QED
    BY <1>1, <2>1
<1>8. BlockAddr(a, total) = Aligned(behind, a.align)
  BY DEF BlockAddr
<1> HIDE DEF behind
<1>9. /\ BlockAddr(a, total) \in Nat /\ BlockAddr(a, total) % a.align = 0
      /\ behind <= BlockAddr(a, total) /\ BlockAddr(a, total) < behind + a.align
  BY <1>1, <1>7, <1>8, AlignedBounds, AlignedMultiple
<1>10. ASSUME total > 0
       PROVE  BlockAddr(a, total) + total * size <= a.pool_addr + a.pool_size
  <2>1. CASE FitsIn(a, size, count)
    BY <2>1, <1>5 DEF FitsIn
  <2>2. CASE ~FitsIn(a, size, count)
    <3>1. total = count - 1
      BY <2>2, <1>4, <1>5, <1>10
    <3>2. a.align <= size
      BY <1>1, <1>3, MultipleIsLarge
    <3>3. BlockAddr(a, total) < (a.pool_addr + PointerSize * (count - 1)) + a.align
      BY <3>1, <1>9 DEF behind
    <3>4. a.align \in Nat /\ size \in Nat /\ PointerSize \in Nat /\ a.pool_size \in Nat
      BY <1>1, <1>3
    <3>5. BlockAddr(a, total) + (count - 1) * size <= a.pool_addr + a.pool_size
      BY <3>2, <3>3, <3>4, <1>1, <1>4, <1>9, OneLessFits
    <3> QED
      BY <3>1, <3>5
  <2> QED
    BY <2>1, <2>2
<1> QED
  BY <1>2, <1>3, <1>6, <1>9, <1>10 DEF size, total, behind

LEMMA CreatedType ==
    ASSUME NEW a \in Arguments
    PROVE  Created(a).blk_total \in Nat
  BY CreatedProperties
-----------------------------------------------------------------------------
(* The list. *)

LEMMA TailOfList ==
    ASSUME NEW S, NEW s \in Seq(S), s # <<>>,
           \A i, j \in DOMAIN s : s[i] = s[j] => i = j
    PROVE  /\ Head(s) \in S /\ Tail(s) \in Seq(S) /\ Len(Tail(s)) = Len(s) - 1
           /\ Len(s) \in Nat /\ Len(s) > 0
           /\ \A i, j \in DOMAIN Tail(s) : Tail(s)[i] = Tail(s)[j] => i = j
           /\ {Tail(s)[i] : i \in DOMAIN Tail(s)} = {s[i] : i \in DOMAIN s} \ {Head(s)}
           /\ Head(s) \in {s[i] : i \in DOMAIN s}
<1>1. Len(s) \in Nat /\ Len(s) > 0 /\ DOMAIN s = 1..Len(s) /\ Head(s) = s[1]
      /\ Head(s) \in S /\ Head(s) \in {s[i] : i \in DOMAIN s}
  OBVIOUS
<1>2. /\ Tail(s) \in Seq(S) /\ Len(Tail(s)) = Len(s) - 1
      /\ DOMAIN Tail(s) = 1..(Len(s) - 1)
      /\ \A i \in 1..(Len(s) - 1) : Tail(s)[i] = s[i + 1]
  OBVIOUS
<1>3. \A i, j \in DOMAIN Tail(s) : Tail(s)[i] = Tail(s)[j] => i = j
  BY <1>1, <1>2
<1>4. {Tail(s)[i] : i \in DOMAIN Tail(s)} = {s[i] : i \in DOMAIN s} \ {Head(s)}
  <2>1. ASSUME NEW i \in DOMAIN Tail(s)
        PROVE  Tail(s)[i] \in {s[k] : k \in DOMAIN s} \ {Head(s)}
    <3>1. i + 1 \in DOMAIN s /\ 1 \in DOMAIN s /\ i + 1 # 1 /\ Tail(s)[i] = s[i + 1]
      BY <1>1, <1>2
    <3> QED
      BY <3>1, <1>1
  <2>2. ASSUME NEW k \in DOMAIN s, s[k] # Head(s)
        PROVE  s[k] \in {Tail(s)[i] : i \in DOMAIN Tail(s)}
    <3>1. k # 1 /\ k - 1 \in DOMAIN Tail(s) /\ Tail(s)[k - 1] = s[k]
      BY <1>1, <1>2, <2>2
    <3> QED
      BY <3>1
  <2> QED
    BY <2>1, <2>2
<1> QED
  BY <1>1, <1>2, <1>3, <1>4

Linked(b, s) == <<b>> \o s
Elements(s) == {s[i] : i \in DOMAIN s}
NoneTwice(s) == \A i, j \in DOMAIN s : s[i] = s[j] => i = j

LEMMA LinkedList ==
    ASSUME NEW S, NEW s \in Seq(S), NEW b \in S, NoneTwice(s), b \notin Elements(s)
    PROVE  /\ Linked(b, s) \in Seq(S) /\ Len(Linked(b, s)) = Len(s) + 1
           /\ NoneTwice(Linked(b, s)) /\ Elements(Linked(b, s)) = Elements(s) \cup {b}
<1> USE DEF Elements, NoneTwice
<1> DEFINE r == Linked(b, s)
<1>1. Len(s) \in Nat /\ DOMAIN s = 1..Len(s)
  OBVIOUS
<1>2. /\ r \in Seq(S) /\ Len(r) = Len(s) + 1 /\ DOMAIN r = 1..(Len(s) + 1)
      /\ r[1] = b /\ \A i \in 2..(Len(s) + 1) : r[i] = s[i - 1]
  BY DEF Linked
<1> HIDE DEF r
<1>3. ASSUME NEW i \in 2..(Len(s) + 1) PROVE i - 1 \in DOMAIN s /\ r[i] = s[i - 1] /\ r[i] # b
  <2>1. i - 1 \in DOMAIN s /\ r[i] = s[i - 1]
    BY <1>1, <1>2
  <2> QED
    BY <2>1
<1>4. ASSUME NEW i \in DOMAIN r, NEW j \in DOMAIN r, r[i] = r[j] PROVE i = j
  <2>1. CASE i = 1 \/ j = 1
    BY <2>1, <1>1, <1>2, <1>3, <1>4
  <2>2. CASE i # 1 /\ j # 1
    <3>1. i \in 2..(Len(s) + 1) /\ j \in 2..(Len(s) + 1)
      BY <2>2, <1>1, <1>2
    <3>2. i - 1 \in DOMAIN s /\ j - 1 \in DOMAIN s /\ s[i - 1] = s[j - 1]
      BY <3>1, <1>3, <1>4
    <3>3. i - 1 = j - 1
      BY <3>2
    <3> QED
      BY <3>1, <3>3
  <2> QED
    BY <2>1, <2>2
<1>5. {r[i] : i \in DOMAIN r} = {s[i] : i \in DOMAIN s} \cup {b}
  <2>1. ASSUME NEW i \in DOMAIN r PROVE r[i] \in {s[k] : k \in DOMAIN s} \cup {b}
    <3>1. i = 1 \/ i \in 2..(Len(s) + 1)
      BY <1>1, <1>2
    <3> QED
      BY <3>1, <1>2, <1>3
  <2>2. ASSUME NEW k \in DOMAIN s PROVE s[k] \in {r[i] : i \in DOMAIN r}
    <3>1. k + 1 \in 2..(Len(s) + 1) /\ k + 1 \in DOMAIN r /\ (k + 1) - 1 = k
      BY <1>1, <1>2
    <3>2. r[k + 1] = s[k]
      BY <3>1, <1>2
    <3> QED
      BY <3>1, <3>2
  <2>3. b \in {r[i] : i \in DOMAIN r}
    BY <1>1, <1>2
  <2> QED
    BY <2>1, <2>2, <2>3
<1> QED
  BY <1>2, <1>4, <1>5 DEF r
-----------------------------------------------------------------------------
(* Tasks and their counts. *)

LEMMA TotalType ==
    ASSUME TypeOK
    PROVE  pool.blk_total \in Nat /\ NULL \notin Blocks /\ NULL \notin Tasks
  BY CreatedType, BlockPoolAssumption DEF TypeOK, Blocks, BlockPoolAssumption

(* One task's step changes the number of tasks at some points by one. *)
LEMMA CountMoves ==
    ASSUME NEW P, NEW f \in [Tasks -> Points], NEW t \in Tasks, NEW to \in Points,
           NEW g, g = [f EXCEPT ![t] = to]
    PROVE  LET before == {u \in Tasks : f[u] \in P}
               after  == {u \in Tasks : g[u] \in P} IN
           /\ Cardinality(before) \in Nat /\ Cardinality(after) \in Nat
           /\ (f[t] \in P <=> to \in P) => Cardinality(after) = Cardinality(before)
           /\ f[t] \in P /\ to \notin P => Cardinality(after) = Cardinality(before) - 1
           /\ f[t] \notin P /\ to \in P => Cardinality(after) = Cardinality(before) + 1
<1> DEFINE before == {u \in Tasks : f[u] \in P}
           after  == {u \in Tasks : g[u] \in P}
<1>1. g[t] = to /\ \A u \in Tasks : u # t => g[u] = f[u]
  OBVIOUS
<1>2. IsFiniteSet(Tasks) /\ before \subseteq Tasks /\ after \subseteq Tasks
  BY BlockPoolAssumption DEF BlockPoolAssumption
<1>3. IsFiniteSet(before) /\ IsFiniteSet(after)
  BY <1>2, FS_Subset
<1>4. Cardinality(before) \in Nat /\ Cardinality(after) \in Nat
  BY <1>3, FS_CardinalityType
<1>5. CASE f[t] \in P /\ to \notin P
  <2>1. after = before \ {t} /\ t \in before
    BY <1>1, <1>5
  <2> QED
    BY <2>1, <1>3, <1>4, <1>5, FS_RemoveElement
<1>6. CASE f[t] \notin P /\ to \in P
  <2>1. after = before \cup {t} /\ t \notin before
    BY <1>1, <1>6
  <2> QED
    BY <2>1, <1>3, <1>4, <1>6, FS_AddElement
<1>7. CASE f[t] \in P <=> to \in P
  <2>1. after = before
    BY <1>1, <1>7
  <2> QED
    BY <2>1, <1>4, <1>7
<1> QED
  BY <1>4, <1>5, <1>6, <1>7

LEMMA Moves ==
    ASSUME TypeOK, NEW t \in Tasks, NEW from, NEW to \in Points, Step(t, from, to)
    PROVE  /\ pc[t] = from /\ pc' \in [Tasks -> Points]
           /\ pc'[t] = to /\ \A u \in Tasks : u # t => pc'[u] = pc[u]
  BY DEF TypeOK, Step

ClaimPoints == {"check", "lock", "take", "count"}
OwingPoints == {"freeunlock", "semput"}

LEMMA ClaimsMove ==
    ASSUME TypeOK, NEW t \in Tasks, NEW from, NEW to \in Points, Step(t, from, to)
    PROVE  /\ Cardinality(Claims) \in Nat /\ Cardinality(Claims') \in Nat
           /\ (from \in ClaimPoints <=> to \in ClaimPoints)
                => Cardinality(Claims') = Cardinality(Claims)
           /\ from \in ClaimPoints /\ to \notin ClaimPoints
                => Cardinality(Claims') = Cardinality(Claims) - 1
           /\ from \notin ClaimPoints /\ to \in ClaimPoints
                => Cardinality(Claims') = Cardinality(Claims) + 1
<1>1. pc \in [Tasks -> Points] /\ pc' = [pc EXCEPT ![t] = to] /\ pc[t] = from
  BY DEF TypeOK, Step
<1>2. /\ Claims = {u \in Tasks : pc[u] \in ClaimPoints}
      /\ Claims' = {u \in Tasks : pc'[u] \in ClaimPoints}
  BY DEF Claims, ClaimPoints
<1> QED
  BY <1>1, <1>2, CountMoves

LEMMA OwingMove ==
    ASSUME TypeOK, NEW t \in Tasks, NEW from, NEW to \in Points, Step(t, from, to)
    PROVE  /\ Cardinality(Owing) \in Nat /\ Cardinality(Owing') \in Nat
           /\ (from \in OwingPoints <=> to \in OwingPoints)
                => Cardinality(Owing') = Cardinality(Owing)
           /\ from \in OwingPoints /\ to \notin OwingPoints
                => Cardinality(Owing') = Cardinality(Owing) - 1
           /\ from \notin OwingPoints /\ to \in OwingPoints
                => Cardinality(Owing') = Cardinality(Owing) + 1
<1>1. pc \in [Tasks -> Points] /\ pc' = [pc EXCEPT ![t] = to] /\ pc[t] = from
  BY DEF TypeOK, Step
<1>2. /\ Owing = {u \in Tasks : pc[u] \in OwingPoints}
      /\ Owing' = {u \in Tasks : pc'[u] \in OwingPoints}
  BY DEF Owing, OwingPoints
<1> QED
  BY <1>1, <1>2, CountMoves

(* There is at least one claim while a task claims. *)
LEMMA Counted ==
    ASSUME TypeOK
    PROVE  /\ Cardinality(Claims) \in Nat /\ Cardinality(Owing) \in Nat
           /\ \A t \in Tasks : pc[t] \in ClaimPoints => Cardinality(Claims) > 0
           /\ \A t \in Tasks : pc[t] \in OwingPoints => Cardinality(Owing) > 0
<1>1. IsFiniteSet(Tasks) /\ Claims \subseteq Tasks /\ Owing \subseteq Tasks
  BY BlockPoolAssumption DEF BlockPoolAssumption, Claims, Owing
<1>2. IsFiniteSet(Claims) /\ IsFiniteSet(Owing)
  BY <1>1, FS_Subset
<1>3. Cardinality(Claims) \in Nat /\ Cardinality(Owing) \in Nat
  BY <1>2, FS_CardinalityType
<1>4. ASSUME NEW t \in Tasks, pc[t] \in ClaimPoints PROVE Cardinality(Claims) > 0
  <2>1. Claims # {}
    BY <1>4 DEF Claims, ClaimPoints
  <2>2. Cardinality(Claims) # 0
    BY <2>1, <1>2, FS_EmptySet
  <2> QED
    BY <2>2, <1>3
<1>5. ASSUME NEW t \in Tasks, pc[t] \in OwingPoints PROVE Cardinality(Owing) > 0
  <2>1. Owing # {}
    BY <1>5 DEF Owing, OwingPoints
  <2>2. Cardinality(Owing) # 0
    BY <2>1, <1>2, FS_EmptySet
  <2> QED
    BY <2>2, <1>3
<1> QED
  BY <1>3, <1>4, <1>5

(* Who claims finds a block: the list is shorter than blk_free says only   *)
(* while another task has the mutex.                                       *)
LEMMA ClaimsFind ==
    ASSUME IInv
    PROVE  SemCounts
<1> USE DEF IInv
<1>1. /\ blk_free \in Nat /\ sem \in Nat /\ pc \in [Tasks -> Points]
      /\ free_list \in Seq(Blocks)
  BY TotalType DEF TypeOK
<1>2. ASSUME NEW t \in Tasks, pc[t] \in ClaimPoints PROVE blk_free > 0
  BY <1>1, <1>2, Counted DEF SemSum
<1>3. ASSUME NEW t \in Tasks, pc[t] = "take" PROVE free_list # <<>>
  <2>1. \A u \in Tasks : pc[u] \notin {"count", "freecount"}
    BY <1>3 DEF MutexPut, Critical
  <2>2. blk_free = Len(free_list) /\ blk_free > 0
    BY <2>1, <1>2, <1>3 DEF ListCounts, ClaimPoints
  <2> QED
    BY <2>2
<1> QED
  BY <1>2, <1>3 DEF SemCounts, SemSum, ClaimPoints
-----------------------------------------------------------------------------
(* The blocks in the hands of the calls. *)

OnePerCall == \A t, u \in Tasks : node[t] # NULL /\ node[t] = node[u] => t = u

LEMMA NodeDrops ==
    ASSUME NEW t \in Tasks, node \in [Tasks -> Blocks \cup {NULL}], OnePerCall,
           node' = [node EXCEPT ![t] = NULL]
    PROVE  /\ node' \in [Tasks -> Blocks \cup {NULL}] /\ OnePerCall'
           /\ InCalls' = InCalls \ {node[t]}
           /\ node'[t] = NULL /\ \A u \in Tasks : u # t => node'[u] = node[u]
<1>1. node'[t] = NULL /\ \A u \in Tasks : u # t => node'[u] = node[u]
  OBVIOUS
<1>2. node' \in [Tasks -> Blocks \cup {NULL}]
  OBVIOUS
<1>3. OnePerCall'
  BY <1>1 DEF OnePerCall
<1>4. InCalls' = InCalls \ {node[t]}
  <2>1. ASSUME NEW u \in Tasks, node'[u] # NULL
        PROVE  node'[u] \in InCalls \ {node[t]}
    BY <1>1, <2>1 DEF InCalls, OnePerCall
  <2>2. ASSUME NEW u \in Tasks, node[u] # NULL, node[u] # node[t]
        PROVE  node[u] \in InCalls'
    BY <1>1, <2>2 DEF InCalls
  <2> QED
    BY <2>1, <2>2 DEF InCalls
<1> QED
  BY <1>1, <1>2, <1>3, <1>4

LEMMA NodeTakes ==
    ASSUME NEW t \in Tasks, node \in [Tasks -> Blocks \cup {NULL}], OnePerCall,
           node[t] = NULL, NEW b \in Blocks, b \notin InCalls, b # NULL,
           node' = [node EXCEPT ![t] = b]
    PROVE  /\ node' \in [Tasks -> Blocks \cup {NULL}] /\ OnePerCall'
           /\ InCalls' = InCalls \cup {b}
           /\ node'[t] = b /\ \A u \in Tasks : u # t => node'[u] = node[u]
<1>1. node'[t] = b /\ \A u \in Tasks : u # t => node'[u] = node[u]
  OBVIOUS
<1>2. node' \in [Tasks -> Blocks \cup {NULL}]
  OBVIOUS
<1>3. \A u \in Tasks : node[u] # b
  BY DEF InCalls
<1>4. OnePerCall'
  BY <1>1, <1>3 DEF OnePerCall
<1>5. InCalls' = InCalls \cup {b}
  <2>1. ASSUME NEW u \in Tasks, node'[u] # NULL
        PROVE  node'[u] \in InCalls \cup {b}
    BY <1>1, <2>1 DEF InCalls
  <2>2. ASSUME NEW u \in Tasks, node[u] # NULL
        PROVE  node[u] \in InCalls'
    BY <1>1, <2>2 DEF InCalls
  <2>3. b \in InCalls'
    BY <1>1 DEF InCalls
  <2> QED
    BY <2>1, <2>2, <2>3 DEF InCalls
<1> QED
  BY <1>1, <1>2, <1>4, <1>5

(* A block of ours that comes back finds room: the list holds each block   *)
(* once, and not this one.                                                 *)
LEMMA OursHasRoom ==
    ASSUME IInv, NEW t \in Tasks, pc[t] = "link", node[t] # NULL
    PROVE  pool.blk_total # blk_free
<1> USE DEF IInv
<1>1. /\ pool.blk_total \in Nat /\ free_list \in Seq(Blocks)
      /\ node[t] \in Blocks /\ node[t] \in InCalls
  BY TotalType DEF TypeOK, InCalls
<1>2. \A u \in Tasks : pc[u] \notin {"count", "freecount"}
  BY DEF MutexPut, Critical
<1>3. blk_free = Len(free_list) /\ Len(free_list) \in Nat
  BY <1>1, <1>2 DEF ListCounts
<1> DEFINE others == Blocks \ {node[t]}
<1>4. IsFiniteSet(Blocks) /\ Cardinality(Blocks) = pool.blk_total
  <2>1. pool.blk_total - 1 \in Int /\ 0 \in Int
    BY <1>1
  <2>2. /\ IsFiniteSet(0..(pool.blk_total - 1))
        /\ Cardinality(0..(pool.blk_total - 1))
             = IF 0 > pool.blk_total - 1 THEN 0 ELSE (pool.blk_total - 1) - 0 + 1
    BY <2>1, FS_Interval, Zenon
  <2>3. (IF 0 > pool.blk_total - 1 THEN 0 ELSE (pool.blk_total - 1) - 0 + 1) = pool.blk_total
    BY <1>1
  <2> QED
    BY <2>2, <2>3 DEF Blocks
<1>5. IsFiniteSet(others) /\ Cardinality(others) = pool.blk_total - 1
  BY <1>1, <1>4, FS_RemoveElement
<1>6. \A i \in 1..Len(free_list) : free_list[i] \in others
  BY <1>1 DEF EachBlockOnce, InList
<1>7. free_list \in Injection(1..Len(free_list), others)
  <2>1. free_list \in [1..Len(free_list) -> others]
    BY <1>1, <1>6
  <2>2. \A i, j \in 1..Len(free_list) : free_list[i] = free_list[j] => i = j
    BY <1>1 DEF EachBlockOnce
  <2> QED
    BY <2>1, <2>2 DEF Injection, IsInjective
<1>8. Cardinality(1..Len(free_list)) <= Cardinality(others)
  BY <1>5, <1>7, FS_Injection
<1>9. Cardinality(1..Len(free_list)) = Len(free_list)
  <2>1. 1 \in Int /\ Len(free_list) \in Int
    BY <1>3
  <2>2. Cardinality(1..Len(free_list))
          = IF 1 > Len(free_list) THEN 0 ELSE Len(free_list) - 1 + 1
    BY <2>1, FS_Interval, Zenon
  <2> QED
    BY <2>2, <1>3
<1> QED
  BY <1>1, <1>3, <1>5, <1>8, <1>9
-----------------------------------------------------------------------------
(* The steps. *)

LEMMA InitInv ==
    ASSUME Init
    PROVE  IInv
<1> USE DEF Init
<1>1. PICK a \in Arguments : pool = Created(a) /\ pool.blk_total > 0
  OBVIOUS
<1>2. pool.blk_total \in Nat \ {0}
  BY <1>1, CreatedType
<1>3. /\ free_list \in [1..pool.blk_total -> Blocks] /\ free_list \in Seq(Blocks)
      /\ Len(free_list) = pool.blk_total /\ DOMAIN free_list = 1..pool.blk_total
      /\ \A i \in 1..pool.blk_total : free_list[i] = i - 1
  BY <1>2 DEF Blocks
<1>4. TypeOK
  <2>1. refused \in BOOLEAN
    BY Zenon
  <2> QED
    BY <1>1, <1>2, <1>3, <2>1 DEF TypeOK, Points
<1>5. MutexPut /\ RefusedKeeps /\ NodeInv /\ ListCounts
  BY <1>3, BlockPoolAssumption DEF MutexPut, RefusedKeeps, NodeInv, ListCounts,
    Critical, BlockPoolAssumption
<1>6. EachBlockOnce
  <2>1. InList = Blocks
    <3>1. ASSUME NEW b \in Blocks PROVE b \in InList
      <4>1. b + 1 \in 1..pool.blk_total /\ free_list[b + 1] = b
        BY <1>2, <1>3 DEF Blocks
      <4> QED
        BY <4>1, <1>3 DEF InList
    <3>2. InList \subseteq Blocks
      BY <1>3 DEF InList
    <3> QED
      BY <3>1, <3>2
  <2>2. InCalls = {} /\ used = {}
    BY DEF InCalls
  <2>3. \A i, j \in DOMAIN free_list : free_list[i] = free_list[j] => i = j
    BY <1>2, <1>3
  <2> QED
    BY <2>1, <2>2, <2>3 DEF EachBlockOnce
<1>7. SemSum
  <2>1. Claims = {} /\ Owing = {}
    BY DEF Claims, Owing
  <2> QED
    BY <2>1, <1>2, FS_EmptySet DEF SemSum
<1> QED
  BY <1>4, <1>5, <1>6, <1>7 DEF IInv

(* Takes one from the semaphore, and claims a block. *)
LEMMA SemGetInv ==
    ASSUME IInv, NEW t \in Tasks, SemGet(t)
    PROVE  IInv'
<1> USE DEF IInv
<1>1. /\ pc[t] = "idle" /\ pc' \in [Tasks -> Points] /\ pc'[t] = "check"
      /\ \A u \in Tasks : u # t => pc'[u] = pc[u]
  <2>1. Step(t, "idle", "check")
    BY DEF SemGet
  <2> QED
    BY <2>1, Moves DEF Points, AllocPoints, FreePoints
<1>2. /\ sem > 0 /\ sem' = sem - 1
      /\ UNCHANGED <<pool, free_list, blk_free, mtx, node, used, refused>>
  BY DEF SemGet
<1>3. /\ pool.blk_total \in Nat /\ NULL \notin Tasks /\ NULL \notin Blocks
      /\ blk_free \in 0..pool.blk_total /\ sem \in 0..pool.blk_total
      /\ free_list \in Seq(Blocks) /\ Blocks' = Blocks
  BY <1>2, TotalType DEF TypeOK, Blocks
<1>4. SemSum'
  <2>1. Step(t, "idle", "check") /\ "check" \in Points
    BY DEF SemGet, Points, AllocPoints, FreePoints
  <2>2. /\ Cardinality(Claims) \in Nat /\ Cardinality(Claims') \in Nat
        /\ Cardinality(Claims') = Cardinality(Claims) + 1
    BY <2>1, ClaimsMove DEF ClaimPoints
  <2>3. /\ Cardinality(Owing) \in Nat /\ Cardinality(Owing') \in Nat
        /\ Cardinality(Owing') = Cardinality(Owing)
    BY <2>1, OwingMove DEF OwingPoints
  <2> QED
    BY <1>2, <1>3, <2>2, <2>3 DEF SemSum
<1>5. MutexPut' /\ RefusedKeeps'
  BY <1>1, <1>2, <1>3 DEF MutexPut, RefusedKeeps, Critical
<1>6. NodeInv'
  BY <1>1, <1>2 DEF NodeInv
<1>7. ListCounts'
  BY <1>1, <1>2, <1>3 DEF ListCounts, MutexPut, Critical
<1>8. EachBlockOnce'
  BY <1>2 DEF EachBlockOnce, InList, InCalls, Blocks
<1>9. TypeOK'
  <2>1. refused' \in BOOLEAN
    BY <1>2, Zenon DEF TypeOK
  <2> QED
    BY <1>1, <1>2, <1>3, <2>1 DEF TypeOK
<1> QED
  BY <1>4, <1>5, <1>6, <1>7, <1>8, <1>9

(* A claim is good for a block: the call goes on. *)
LEMMA CheckFreeInv ==
    ASSUME IInv, NEW t \in Tasks, CheckFree(t)
    PROVE  IInv'
<1> USE DEF IInv
<1>1. /\ pc[t] = "check" /\ pc' \in [Tasks -> Points] /\ pc'[t] = "lock"
      /\ \A u \in Tasks : u # t => pc'[u] = pc[u]
  <2>1. Step(t, "check", "lock")
    BY ClaimsFind DEF CheckFree, SemCounts, Step
  <2> QED
    BY <2>1, Moves DEF Points, AllocPoints, FreePoints
<1>2. UNCHANGED <<pool, free_list, blk_free, sem, mtx, node, used, refused>>
  BY DEF CheckFree
<1>3. /\ pool.blk_total \in Nat /\ NULL \notin Tasks /\ NULL \notin Blocks
      /\ blk_free \in 0..pool.blk_total /\ sem \in 0..pool.blk_total
      /\ free_list \in Seq(Blocks) /\ Blocks' = Blocks
  BY <1>2, TotalType DEF TypeOK, Blocks
<1>4. SemSum'
  <2>1. Step(t, "check", "lock") /\ "lock" \in Points
    BY ClaimsFind DEF CheckFree, SemCounts, Step, Points, AllocPoints, FreePoints
  <2>2. /\ Cardinality(Claims) \in Nat /\ Cardinality(Claims') \in Nat
        /\ Cardinality(Claims') = Cardinality(Claims)
    BY <2>1, ClaimsMove DEF ClaimPoints
  <2>3. /\ Cardinality(Owing) \in Nat /\ Cardinality(Owing') \in Nat
        /\ Cardinality(Owing') = Cardinality(Owing)
    BY <2>1, OwingMove DEF OwingPoints
  <2> QED
    BY <1>2, <1>3, <2>2, <2>3 DEF SemSum
<1>5. MutexPut' /\ RefusedKeeps'
  BY <1>1, <1>2, <1>3 DEF MutexPut, RefusedKeeps, Critical
<1>6. NodeInv'
  BY <1>1, <1>2 DEF NodeInv
<1>7. ListCounts'
  BY <1>1, <1>2, <1>3 DEF ListCounts, MutexPut, Critical
<1>8. EachBlockOnce'
  BY <1>2 DEF EachBlockOnce, InList, InCalls, Blocks
<1>9. TypeOK'
  <2>1. refused' \in BOOLEAN
    BY <1>2, Zenon DEF TypeOK
  <2> QED
    BY <1>1, <1>2, <1>3, <2>1 DEF TypeOK
<1> QED
  BY <1>4, <1>5, <1>6, <1>7, <1>8, <1>9

(* The claim goes back. *)
LEMMA AllocTimeoutInv ==
    ASSUME IInv, NEW t \in Tasks, AllocTimeout(t)
    PROVE  IInv'
<1> USE DEF IInv
<1>1. /\ pc[t] = "lock" /\ pc' \in [Tasks -> Points] /\ pc'[t] = "idle"
      /\ \A u \in Tasks : u # t => pc'[u] = pc[u]
  <2>1. Step(t, "lock", "idle")
    BY DEF AllocTimeout
  <2> QED
    BY <2>1, Moves DEF Points, AllocPoints, FreePoints
<1>2. /\ sem' = sem + 1
      /\ UNCHANGED <<pool, free_list, blk_free, mtx, node, used, refused>>
  BY DEF AllocTimeout, GivesClaim
<1>3. /\ pool.blk_total \in Nat /\ NULL \notin Tasks /\ NULL \notin Blocks
      /\ blk_free \in 0..pool.blk_total /\ sem \in 0..pool.blk_total
      /\ free_list \in Seq(Blocks) /\ Blocks' = Blocks
  BY <1>2, TotalType DEF TypeOK, Blocks
<1>4. SemSum'
  <2>1. Step(t, "lock", "idle") /\ "idle" \in Points
    BY DEF AllocTimeout, Points, AllocPoints, FreePoints
  <2>2. /\ Cardinality(Claims) \in Nat /\ Cardinality(Claims') \in Nat
        /\ Cardinality(Claims') = Cardinality(Claims) - 1
    BY <2>1, ClaimsMove DEF ClaimPoints
  <2>3. /\ Cardinality(Owing) \in Nat /\ Cardinality(Owing') \in Nat
        /\ Cardinality(Owing') = Cardinality(Owing)
    BY <2>1, OwingMove DEF OwingPoints
  <2> QED
    BY <1>2, <1>3, <2>2, <2>3 DEF SemSum
<1>5. MutexPut' /\ RefusedKeeps'
  BY <1>1, <1>2, <1>3 DEF MutexPut, RefusedKeeps, Critical
<1>6. NodeInv'
  BY <1>1, <1>2 DEF NodeInv
<1>7. ListCounts'
  BY <1>1, <1>2, <1>3 DEF ListCounts, MutexPut, Critical
<1>8. EachBlockOnce'
  BY <1>2 DEF EachBlockOnce, InList, InCalls, Blocks
<1>9. TypeOK'
  <2>1. refused' \in BOOLEAN
    BY <1>2, Zenon DEF TypeOK
  <2>2. sem' \in 0..pool.blk_total
    <3>1. blk_free = sem + Cardinality(Claims) + Cardinality(Owing)
      BY DEF SemSum
    <3>2. Cardinality(Claims) \in Nat /\ Cardinality(Owing) \in Nat
      BY Counted
    <3>3. Cardinality(Claims) > 0 \/ Cardinality(Owing) > 0
      BY <1>1, Counted DEF ClaimPoints, OwingPoints
    <3> QED
      BY <1>2, <1>3, <3>1, <3>2, <3>3
  <2> QED
    BY <1>1, <1>2, <1>3, <2>1, <2>2 DEF TypeOK
<1> QED
  BY <1>4, <1>5, <1>6, <1>7, <1>8, <1>9

(* blk_free follows the list. *)
LEMMA CountInv ==
    ASSUME IInv, NEW t \in Tasks, Count(t)
    PROVE  IInv'
<1> USE DEF IInv
<1>1. /\ pc[t] = "count" /\ pc' \in [Tasks -> Points] /\ pc'[t] = "unlock"
      /\ \A u \in Tasks : u # t => pc'[u] = pc[u]
  <2>1. Step(t, "count", "unlock")
    BY DEF Count
  <2> QED
    BY <2>1, Moves DEF Points, AllocPoints, FreePoints
<1>2. /\ blk_free' = blk_free - 1
      /\ UNCHANGED <<pool, free_list, sem, mtx, node, used, refused>>
  BY DEF Count
<1>3. /\ pool.blk_total \in Nat /\ NULL \notin Tasks /\ NULL \notin Blocks
      /\ blk_free \in 0..pool.blk_total /\ sem \in 0..pool.blk_total
      /\ free_list \in Seq(Blocks) /\ Blocks' = Blocks
  BY <1>2, TotalType DEF TypeOK, Blocks
<1>4. SemSum'
  <2>1. Step(t, "count", "unlock") /\ "unlock" \in Points
    BY DEF Count, Points, AllocPoints, FreePoints
  <2>2. /\ Cardinality(Claims) \in Nat /\ Cardinality(Claims') \in Nat
        /\ Cardinality(Claims') = Cardinality(Claims) - 1
    BY <2>1, ClaimsMove DEF ClaimPoints
  <2>3. /\ Cardinality(Owing) \in Nat /\ Cardinality(Owing') \in Nat
        /\ Cardinality(Owing') = Cardinality(Owing)
    BY <2>1, OwingMove DEF OwingPoints
  <2> QED
    BY <1>2, <1>3, <2>2, <2>3 DEF SemSum
<1>5. MutexPut' /\ RefusedKeeps'
  BY <1>1, <1>2, <1>3 DEF MutexPut, RefusedKeeps, Critical
<1>6. NodeInv'
  BY <1>1, <1>2 DEF NodeInv
<1>7. ListCounts'
  BY <1>1, <1>2, <1>3 DEF ListCounts, MutexPut, Critical
<1>8. EachBlockOnce'
  BY <1>2 DEF EachBlockOnce, InList, InCalls, Blocks
<1>9. TypeOK'
  <2>1. refused' \in BOOLEAN
    BY <1>2, Zenon DEF TypeOK
  <2>2. blk_free' \in 0..pool.blk_total
    <3>1. blk_free = Len(free_list) + 1 /\ Len(free_list) \in Nat
      BY <1>1, <1>3 DEF ListCounts
    <3> QED
      BY <1>2, <1>3, <3>1
  <2> QED
    BY <1>1, <1>2, <1>3, <2>1, <2>2 DEF TypeOK
<1> QED
  BY <1>4, <1>5, <1>6, <1>7, <1>8, <1>9

(* blk_free follows the list. *)
LEMMA FreeCountInv ==
    ASSUME IInv, NEW t \in Tasks, FreeCount(t)
    PROVE  IInv'
<1> USE DEF IInv
<1>1. /\ pc[t] = "freecount" /\ pc' \in [Tasks -> Points] /\ pc'[t] = "freeunlock"
      /\ \A u \in Tasks : u # t => pc'[u] = pc[u]
  <2>1. Step(t, "freecount", "freeunlock")
    BY DEF FreeCount
  <2> QED
    BY <2>1, Moves DEF Points, AllocPoints, FreePoints
<1>2. /\ blk_free' = blk_free + 1
      /\ UNCHANGED <<pool, free_list, sem, mtx, node, used, refused>>
  BY DEF FreeCount
<1>3. /\ pool.blk_total \in Nat /\ NULL \notin Tasks /\ NULL \notin Blocks
      /\ blk_free \in 0..pool.blk_total /\ sem \in 0..pool.blk_total
      /\ free_list \in Seq(Blocks) /\ Blocks' = Blocks
  BY <1>2, TotalType DEF TypeOK, Blocks
<1>4. SemSum'
  <2>1. Step(t, "freecount", "freeunlock") /\ "freeunlock" \in Points
    BY DEF FreeCount, Points, AllocPoints, FreePoints
  <2>2. /\ Cardinality(Claims) \in Nat /\ Cardinality(Claims') \in Nat
        /\ Cardinality(Claims') = Cardinality(Claims)
    BY <2>1, ClaimsMove DEF ClaimPoints
  <2>3. /\ Cardinality(Owing) \in Nat /\ Cardinality(Owing') \in Nat
        /\ Cardinality(Owing') = Cardinality(Owing) + 1
    BY <2>1, OwingMove DEF OwingPoints
  <2> QED
    BY <1>2, <1>3, <2>2, <2>3 DEF SemSum
<1>5. MutexPut' /\ RefusedKeeps'
  BY <1>1, <1>2, <1>3 DEF MutexPut, RefusedKeeps, Critical
<1>6. NodeInv'
  BY <1>1, <1>2 DEF NodeInv
<1>7. ListCounts'
  BY <1>1, <1>2, <1>3 DEF ListCounts, MutexPut, Critical
<1>8. EachBlockOnce'
  BY <1>2 DEF EachBlockOnce, InList, InCalls, Blocks
<1>9. TypeOK'
  <2>1. refused' \in BOOLEAN
    BY <1>2, Zenon DEF TypeOK
  <2>2. blk_free' \in 0..pool.blk_total
    <3>1. blk_free < pool.blk_total
      BY <1>1 DEF ListCounts
    <3> QED
      BY <1>2, <1>3, <3>1
  <2> QED
    BY <1>1, <1>2, <1>3, <2>1, <2>2 DEF TypeOK
<1> QED
  BY <1>4, <1>5, <1>6, <1>7, <1>8, <1>9

(* The mutex is put before the semaphore. *)
LEMMA MtxPutInv ==
    ASSUME IInv, NEW t \in Tasks, MtxPut(t)
    PROVE  IInv'
<1> USE DEF IInv
<1>1. /\ pc[t] = "freeunlock" /\ pc' \in [Tasks -> Points] /\ pc'[t] = "semput"
      /\ \A u \in Tasks : u # t => pc'[u] = pc[u]
  <2>1. Step(t, "freeunlock", "semput")
    BY DEF MtxPut
  <2> QED
    BY <2>1, Moves DEF Points, AllocPoints, FreePoints
<1>2. /\ mtx' = NULL
      /\ UNCHANGED <<pool, free_list, blk_free, sem, node, used, refused>>
  BY DEF MtxPut
<1>3. /\ pool.blk_total \in Nat /\ NULL \notin Tasks /\ NULL \notin Blocks
      /\ blk_free \in 0..pool.blk_total /\ sem \in 0..pool.blk_total
      /\ free_list \in Seq(Blocks) /\ Blocks' = Blocks
  BY <1>2, TotalType DEF TypeOK, Blocks
<1>4. SemSum'
  <2>1. Step(t, "freeunlock", "semput") /\ "semput" \in Points
    BY DEF MtxPut, Points, AllocPoints, FreePoints
  <2>2. /\ Cardinality(Claims) \in Nat /\ Cardinality(Claims') \in Nat
        /\ Cardinality(Claims') = Cardinality(Claims)
    BY <2>1, ClaimsMove DEF ClaimPoints
  <2>3. /\ Cardinality(Owing) \in Nat /\ Cardinality(Owing') \in Nat
        /\ Cardinality(Owing') = Cardinality(Owing)
    BY <2>1, OwingMove DEF OwingPoints
  <2> QED
    BY <1>2, <1>3, <2>2, <2>3 DEF SemSum
<1>5. MutexPut' /\ RefusedKeeps'
  BY <1>1, <1>2, <1>3 DEF MutexPut, RefusedKeeps, Critical
<1>6. NodeInv'
  BY <1>1, <1>2 DEF NodeInv
<1>7. ListCounts'
  BY <1>1, <1>2, <1>3 DEF ListCounts, MutexPut, Critical
<1>8. EachBlockOnce'
  BY <1>2 DEF EachBlockOnce, InList, InCalls, Blocks
<1>9. TypeOK'
  <2>1. refused' \in BOOLEAN
    BY <1>2, Zenon DEF TypeOK
  <2> QED
    BY <1>1, <1>2, <1>3, <2>1 DEF TypeOK
<1> QED
  BY <1>4, <1>5, <1>6, <1>7, <1>8, <1>9

(* The put that was due. *)
LEMMA SemPutInv ==
    ASSUME IInv, NEW t \in Tasks, SemPut(t)
    PROVE  IInv'
<1> USE DEF IInv
<1>1. /\ pc[t] = "semput" /\ pc' \in [Tasks -> Points] /\ pc'[t] = "idle"
      /\ \A u \in Tasks : u # t => pc'[u] = pc[u]
  <2>1. Step(t, "semput", "idle")
    BY DEF SemPut
  <2> QED
    BY <2>1, Moves DEF Points, AllocPoints, FreePoints
<1>2. /\ sem' = sem + 1
      /\ UNCHANGED <<pool, free_list, blk_free, mtx, node, used, refused>>
  BY DEF SemPut
<1>3. /\ pool.blk_total \in Nat /\ NULL \notin Tasks /\ NULL \notin Blocks
      /\ blk_free \in 0..pool.blk_total /\ sem \in 0..pool.blk_total
      /\ free_list \in Seq(Blocks) /\ Blocks' = Blocks
  BY <1>2, TotalType DEF TypeOK, Blocks
<1>4. SemSum'
  <2>1. Step(t, "semput", "idle") /\ "idle" \in Points
    BY DEF SemPut, Points, AllocPoints, FreePoints
  <2>2. /\ Cardinality(Claims) \in Nat /\ Cardinality(Claims') \in Nat
        /\ Cardinality(Claims') = Cardinality(Claims)
    BY <2>1, ClaimsMove DEF ClaimPoints
  <2>3. /\ Cardinality(Owing) \in Nat /\ Cardinality(Owing') \in Nat
        /\ Cardinality(Owing') = Cardinality(Owing) - 1
    BY <2>1, OwingMove DEF OwingPoints
  <2> QED
    BY <1>2, <1>3, <2>2, <2>3 DEF SemSum
<1>5. MutexPut' /\ RefusedKeeps'
  BY <1>1, <1>2, <1>3 DEF MutexPut, RefusedKeeps, Critical
<1>6. NodeInv'
  BY <1>1, <1>2 DEF NodeInv
<1>7. ListCounts'
  BY <1>1, <1>2, <1>3 DEF ListCounts, MutexPut, Critical
<1>8. EachBlockOnce'
  BY <1>2 DEF EachBlockOnce, InList, InCalls, Blocks
<1>9. TypeOK'
  <2>1. refused' \in BOOLEAN
    BY <1>2, Zenon DEF TypeOK
  <2>2. sem' \in 0..pool.blk_total
    <3>1. blk_free = sem + Cardinality(Claims) + Cardinality(Owing)
      BY DEF SemSum
    <3>2. Cardinality(Claims) \in Nat /\ Cardinality(Owing) \in Nat
      BY Counted
    <3>3. Cardinality(Claims) > 0 \/ Cardinality(Owing) > 0
      BY <1>1, Counted DEF ClaimPoints, OwingPoints
    <3> QED
      BY <1>2, <1>3, <3>1, <3>2, <3>3
  <2> QED
    BY <1>1, <1>2, <1>3, <2>1, <2>2 DEF TypeOK
<1> QED
  BY <1>4, <1>5, <1>6, <1>7, <1>8, <1>9

(* A free without a block of ours. *)
LEMMA CallFreeForeignInv ==
    ASSUME IInv, NEW t \in Tasks, CallFreeForeign(t)
    PROVE  IInv'
<1> USE DEF IInv
<1>1. /\ pc[t] = "idle" /\ pc' \in [Tasks -> Points] /\ pc'[t] = "freelock"
      /\ \A u \in Tasks : u # t => pc'[u] = pc[u]
  <2>1. Step(t, "idle", "freelock")
    BY DEF CallFreeForeign
  <2> QED
    BY <2>1, Moves DEF Points, AllocPoints, FreePoints
<1>2. UNCHANGED <<pool, free_list, blk_free, sem, mtx, node, used, refused>>
  BY DEF CallFreeForeign
<1>3. /\ pool.blk_total \in Nat /\ NULL \notin Tasks /\ NULL \notin Blocks
      /\ blk_free \in 0..pool.blk_total /\ sem \in 0..pool.blk_total
      /\ free_list \in Seq(Blocks) /\ Blocks' = Blocks
  BY <1>2, TotalType DEF TypeOK, Blocks
<1>4. SemSum'
  <2>1. Step(t, "idle", "freelock") /\ "freelock" \in Points
    BY DEF CallFreeForeign, Points, AllocPoints, FreePoints
  <2>2. /\ Cardinality(Claims) \in Nat /\ Cardinality(Claims') \in Nat
        /\ Cardinality(Claims') = Cardinality(Claims)
    BY <2>1, ClaimsMove DEF ClaimPoints
  <2>3. /\ Cardinality(Owing) \in Nat /\ Cardinality(Owing') \in Nat
        /\ Cardinality(Owing') = Cardinality(Owing)
    BY <2>1, OwingMove DEF OwingPoints
  <2> QED
    BY <1>2, <1>3, <2>2, <2>3 DEF SemSum
<1>5. MutexPut' /\ RefusedKeeps'
  BY <1>1, <1>2, <1>3 DEF MutexPut, RefusedKeeps, Critical
<1>6. NodeInv'
  BY <1>1, <1>2 DEF NodeInv
<1>7. ListCounts'
  BY <1>1, <1>2, <1>3 DEF ListCounts, MutexPut, Critical
<1>8. EachBlockOnce'
  BY <1>2 DEF EachBlockOnce, InList, InCalls, Blocks
<1>9. TypeOK'
  <2>1. refused' \in BOOLEAN
    BY <1>2, Zenon DEF TypeOK
  <2> QED
    BY <1>1, <1>2, <1>3, <2>1 DEF TypeOK
<1> QED
  BY <1>4, <1>5, <1>6, <1>7, <1>8, <1>9

(* The mutex for a call that claims. *)
LEMMA AllocLocksInv ==
    ASSUME IInv, NEW t \in Tasks, MtxGet(t), Step(t, "lock", "take")
    PROVE  IInv'
<1> USE DEF IInv
<1>1. /\ pc[t] = "lock" /\ pc' \in [Tasks -> Points] /\ pc'[t] = "take"
      /\ \A u \in Tasks : u # t => pc'[u] = pc[u]
  <2>1. Step(t, "lock", "take")
    BY DEF MtxGet
  <2> QED
    BY <2>1, Moves DEF Points, AllocPoints, FreePoints
<1>2. /\ mtx = NULL /\ mtx' = t
      /\ UNCHANGED <<pool, free_list, blk_free, sem, node, used, refused>>
  BY DEF MtxGet, Available
<1>3. /\ pool.blk_total \in Nat /\ NULL \notin Tasks /\ NULL \notin Blocks
      /\ blk_free \in 0..pool.blk_total /\ sem \in 0..pool.blk_total
      /\ free_list \in Seq(Blocks) /\ Blocks' = Blocks
  BY <1>2, TotalType DEF TypeOK, Blocks
<1>4. SemSum'
  <2>1. Step(t, "lock", "take") /\ "take" \in Points
    BY DEF MtxGet, Points, AllocPoints, FreePoints
  <2>2. /\ Cardinality(Claims) \in Nat /\ Cardinality(Claims') \in Nat
        /\ Cardinality(Claims') = Cardinality(Claims)
    BY <2>1, ClaimsMove DEF ClaimPoints
  <2>3. /\ Cardinality(Owing) \in Nat /\ Cardinality(Owing') \in Nat
        /\ Cardinality(Owing') = Cardinality(Owing)
    BY <2>1, OwingMove DEF OwingPoints
  <2> QED
    BY <1>2, <1>3, <2>2, <2>3 DEF SemSum
<1>5. MutexPut' /\ RefusedKeeps'
  BY <1>1, <1>2, <1>3 DEF MutexPut, RefusedKeeps, Critical
<1>6. NodeInv'
  BY <1>1, <1>2 DEF NodeInv
<1>7. ListCounts'
  BY <1>1, <1>2, <1>3 DEF ListCounts, MutexPut, Critical
<1>8. EachBlockOnce'
  BY <1>2 DEF EachBlockOnce, InList, InCalls, Blocks
<1>9. TypeOK'
  <2>1. refused' \in BOOLEAN
    BY <1>2, Zenon DEF TypeOK
  <2> QED
    BY <1>1, <1>2, <1>3, <2>1 DEF TypeOK
<1> QED
  BY <1>4, <1>5, <1>6, <1>7, <1>8, <1>9

(* The mutex for a call that frees. *)
LEMMA FreeLocksInv ==
    ASSUME IInv, NEW t \in Tasks, MtxGet(t), Step(t, "freelock", "link")
    PROVE  IInv'
<1> USE DEF IInv
<1>1. /\ pc[t] = "freelock" /\ pc' \in [Tasks -> Points] /\ pc'[t] = "link"
      /\ \A u \in Tasks : u # t => pc'[u] = pc[u]
  <2>1. Step(t, "freelock", "link")
    BY DEF MtxGet
  <2> QED
    BY <2>1, Moves DEF Points, AllocPoints, FreePoints
<1>2. /\ mtx = NULL /\ mtx' = t
      /\ UNCHANGED <<pool, free_list, blk_free, sem, node, used, refused>>
  BY DEF MtxGet, Available
<1>3. /\ pool.blk_total \in Nat /\ NULL \notin Tasks /\ NULL \notin Blocks
      /\ blk_free \in 0..pool.blk_total /\ sem \in 0..pool.blk_total
      /\ free_list \in Seq(Blocks) /\ Blocks' = Blocks
  BY <1>2, TotalType DEF TypeOK, Blocks
<1>4. SemSum'
  <2>1. Step(t, "freelock", "link") /\ "link" \in Points
    BY DEF MtxGet, Points, AllocPoints, FreePoints
  <2>2. /\ Cardinality(Claims) \in Nat /\ Cardinality(Claims') \in Nat
        /\ Cardinality(Claims') = Cardinality(Claims)
    BY <2>1, ClaimsMove DEF ClaimPoints
  <2>3. /\ Cardinality(Owing) \in Nat /\ Cardinality(Owing') \in Nat
        /\ Cardinality(Owing') = Cardinality(Owing)
    BY <2>1, OwingMove DEF OwingPoints
  <2> QED
    BY <1>2, <1>3, <2>2, <2>3 DEF SemSum
<1>5. MutexPut' /\ RefusedKeeps'
  BY <1>1, <1>2, <1>3 DEF MutexPut, RefusedKeeps, Critical
<1>6. NodeInv'
  BY <1>1, <1>2 DEF NodeInv
<1>7. ListCounts'
  BY <1>1, <1>2, <1>3 DEF ListCounts, MutexPut, Critical
<1>8. EachBlockOnce'
  BY <1>2 DEF EachBlockOnce, InList, InCalls, Blocks
<1>9. TypeOK'
  <2>1. refused' \in BOOLEAN
    BY <1>2, Zenon DEF TypeOK
  <2> QED
    BY <1>1, <1>2, <1>3, <2>1 DEF TypeOK
<1> QED
  BY <1>4, <1>5, <1>6, <1>7, <1>8, <1>9

(* A block goes from the callers to a call. *)
LEMMA CallFreeInv ==
    ASSUME IInv, NEW t \in Tasks, CallFree(t)
    PROVE  IInv'
<1> USE DEF IInv
<1>1. /\ pc[t] = "idle" /\ pc' \in [Tasks -> Points] /\ pc'[t] = "freelock"
      /\ \A u \in Tasks : u # t => pc'[u] = pc[u]
  <2>1. Step(t, "idle", "freelock")
    BY DEF CallFree
  <2> QED
    BY <2>1, Moves DEF Points, AllocPoints, FreePoints
<1>2. UNCHANGED <<pool, free_list, blk_free, sem, mtx, refused>>
  BY DEF CallFree
<1>3. /\ pool.blk_total \in Nat /\ NULL \notin Tasks /\ NULL \notin Blocks
      /\ blk_free \in 0..pool.blk_total /\ sem \in 0..pool.blk_total
      /\ free_list \in Seq(Blocks) /\ Blocks' = Blocks
  BY <1>2, TotalType DEF TypeOK, Blocks
<1>10. PICK b \in used : node' = [node EXCEPT ![t] = b] /\ used' = used \ {b}
  BY DEF CallFree
<1>11. b \in Blocks /\ b \notin InCalls /\ b \notin InList /\ b # NULL /\ node[t] = NULL
  BY <1>1, <1>3, <1>10 DEF TypeOK, EachBlockOnce, NodeInv
<1>12. /\ node' \in [Tasks -> Blocks \cup {NULL}] /\ OnePerCall'
       /\ InCalls' = InCalls \cup {b}
       /\ node'[t] = b /\ \A u \in Tasks : u # t => node'[u] = node[u]
  BY <1>10, <1>11, NodeTakes DEF TypeOK, EachBlockOnce, OnePerCall
<1>4. SemSum'
  <2>1. Step(t, "idle", "freelock") /\ "freelock" \in Points
    BY DEF CallFree, Points, AllocPoints, FreePoints
  <2>2. /\ Cardinality(Claims) \in Nat /\ Cardinality(Claims') \in Nat
        /\ Cardinality(Claims') = Cardinality(Claims)
    BY <2>1, ClaimsMove DEF ClaimPoints
  <2>3. /\ Cardinality(Owing) \in Nat /\ Cardinality(Owing') \in Nat
        /\ Cardinality(Owing') = Cardinality(Owing)
    BY <2>1, OwingMove DEF OwingPoints
  <2> QED
    BY <1>2, <1>3, <2>2, <2>3 DEF SemSum
<1>5. MutexPut' /\ RefusedKeeps'
  BY <1>1, <1>2, <1>3 DEF MutexPut, RefusedKeeps, Critical
<1>6. NodeInv'
  BY <1>1, <1>2, <1>12 DEF NodeInv
<1>7. ListCounts'
  BY <1>1, <1>2, <1>3 DEF ListCounts, MutexPut, Critical
<1>8. EachBlockOnce'
  <2>1. InList' = InList /\ Blocks' = Blocks
    BY <1>2 DEF InList, Blocks
  <2> QED
    BY <1>2, <1>10, <1>11, <1>12, <2>1 DEF EachBlockOnce, OnePerCall
<1>9. TypeOK'
  <2>1. refused' \in BOOLEAN
    BY <1>2, Zenon DEF TypeOK
  <2> QED
    BY <1>1, <1>2, <1>3, <1>10, <1>12, <2>1 DEF TypeOK
<1> QED
  BY <1>4, <1>5, <1>6, <1>7, <1>8, <1>9

(* The block goes from the call to the callers. *)
LEMMA AllocReturnsInv ==
    ASSUME IInv, NEW t \in Tasks, AllocReturns(t)
    PROVE  IInv'
<1> USE DEF IInv
<1>1. /\ pc[t] = "unlock" /\ pc' \in [Tasks -> Points] /\ pc'[t] = "idle"
      /\ \A u \in Tasks : u # t => pc'[u] = pc[u]
  <2>1. Step(t, "unlock", "idle")
    BY DEF AllocReturns
  <2> QED
    BY <2>1, Moves DEF Points, AllocPoints, FreePoints
<1>2. /\ mtx' = NULL /\ used' = used \cup {node[t]} /\ node' = [node EXCEPT ![t] = NULL]
      /\ UNCHANGED <<pool, free_list, blk_free, sem, refused>>
  BY DEF AllocReturns
<1>3. /\ pool.blk_total \in Nat /\ NULL \notin Tasks /\ NULL \notin Blocks
      /\ blk_free \in 0..pool.blk_total /\ sem \in 0..pool.blk_total
      /\ free_list \in Seq(Blocks) /\ Blocks' = Blocks
  BY <1>2, TotalType DEF TypeOK, Blocks
<1>10. /\ node' \in [Tasks -> Blocks \cup {NULL}] /\ OnePerCall'
       /\ InCalls' = InCalls \ {node[t]}
       /\ node'[t] = NULL /\ \A u \in Tasks : u # t => node'[u] = node[u]
  BY <1>2, NodeDrops DEF TypeOK, EachBlockOnce, OnePerCall
<1>11. /\ node[t] \in Blocks \cup {NULL}
       /\ node[t] # NULL => node[t] \in Blocks /\ node[t] \in InCalls
       /\ NULL \notin InCalls
  BY DEF TypeOK, InCalls
<1>12. node[t] # NULL
  BY <1>1 DEF NodeInv
<1>4. SemSum'
  <2>1. Step(t, "unlock", "idle") /\ "idle" \in Points
    BY DEF AllocReturns, Points, AllocPoints, FreePoints
  <2>2. /\ Cardinality(Claims) \in Nat /\ Cardinality(Claims') \in Nat
        /\ Cardinality(Claims') = Cardinality(Claims)
    BY <2>1, ClaimsMove DEF ClaimPoints
  <2>3. /\ Cardinality(Owing) \in Nat /\ Cardinality(Owing') \in Nat
        /\ Cardinality(Owing') = Cardinality(Owing)
    BY <2>1, OwingMove DEF OwingPoints
  <2> QED
    BY <1>2, <1>3, <2>2, <2>3 DEF SemSum
<1>5. MutexPut' /\ RefusedKeeps'
  BY <1>1, <1>2, <1>3 DEF MutexPut, RefusedKeeps, Critical
<1>6. NodeInv'
  BY <1>1, <1>2, <1>10 DEF NodeInv
<1>7. ListCounts'
  BY <1>1, <1>2, <1>3 DEF ListCounts, MutexPut, Critical
<1>8. EachBlockOnce'
  <2>1. InList' = InList /\ Blocks' = Blocks
    BY <1>2 DEF InList, Blocks
  <2> QED
    BY <1>2, <1>10, <1>11, <1>12, <2>1 DEF EachBlockOnce, OnePerCall
<1>9. TypeOK'
  <2>1. refused' \in BOOLEAN
    BY <1>2, Zenon DEF TypeOK
  <2> QED
    BY <1>1, <1>2, <1>3, <1>10, <1>11, <1>12, <2>1 DEF TypeOK
<1> QED
  BY <1>4, <1>5, <1>6, <1>7, <1>8, <1>9

(* A free that fails leaves the block with the callers. *)
LEMMA FreeTimeoutInv ==
    ASSUME IInv, NEW t \in Tasks, FreeTimeout(t)
    PROVE  IInv'
<1> USE DEF IInv
<1>1. /\ pc[t] = "freelock" /\ pc' \in [Tasks -> Points] /\ pc'[t] = "idle"
      /\ \A u \in Tasks : u # t => pc'[u] = pc[u]
  <2>1. Step(t, "freelock", "idle")
    BY DEF FreeTimeout
  <2> QED
    BY <2>1, Moves DEF Points, AllocPoints, FreePoints
<1>2. /\ used' = IF node[t] = NULL THEN used ELSE used \cup {node[t]}
      /\ node' = [node EXCEPT ![t] = NULL]
      /\ UNCHANGED <<pool, free_list, blk_free, sem, mtx, refused>>
  BY DEF FreeTimeout, KeepsBlock
<1>3. /\ pool.blk_total \in Nat /\ NULL \notin Tasks /\ NULL \notin Blocks
      /\ blk_free \in 0..pool.blk_total /\ sem \in 0..pool.blk_total
      /\ free_list \in Seq(Blocks) /\ Blocks' = Blocks
  BY <1>2, TotalType DEF TypeOK, Blocks
<1>10. /\ node' \in [Tasks -> Blocks \cup {NULL}] /\ OnePerCall'
       /\ InCalls' = InCalls \ {node[t]}
       /\ node'[t] = NULL /\ \A u \in Tasks : u # t => node'[u] = node[u]
  BY <1>2, NodeDrops DEF TypeOK, EachBlockOnce, OnePerCall
<1>11. /\ node[t] \in Blocks \cup {NULL}
       /\ node[t] # NULL => node[t] \in Blocks /\ node[t] \in InCalls
       /\ NULL \notin InCalls
  BY DEF TypeOK, InCalls
<1>4. SemSum'
  <2>1. Step(t, "freelock", "idle") /\ "idle" \in Points
    BY DEF FreeTimeout, Points, AllocPoints, FreePoints
  <2>2. /\ Cardinality(Claims) \in Nat /\ Cardinality(Claims') \in Nat
        /\ Cardinality(Claims') = Cardinality(Claims)
    BY <2>1, ClaimsMove DEF ClaimPoints
  <2>3. /\ Cardinality(Owing) \in Nat /\ Cardinality(Owing') \in Nat
        /\ Cardinality(Owing') = Cardinality(Owing)
    BY <2>1, OwingMove DEF OwingPoints
  <2> QED
    BY <1>2, <1>3, <2>2, <2>3 DEF SemSum
<1>5. MutexPut' /\ RefusedKeeps'
  BY <1>1, <1>2, <1>3 DEF MutexPut, RefusedKeeps, Critical
<1>6. NodeInv'
  BY <1>1, <1>2, <1>10 DEF NodeInv
<1>7. ListCounts'
  BY <1>1, <1>2, <1>3 DEF ListCounts, MutexPut, Critical
<1>8. EachBlockOnce'
  <2>1. InList' = InList /\ Blocks' = Blocks
    BY <1>2 DEF InList, Blocks
  <2>2. CASE node[t] = NULL
    BY <2>2, <1>2, <1>10, <1>11, <2>1 DEF EachBlockOnce, OnePerCall
  <2>3. CASE node[t] # NULL
    BY <2>3, <1>2, <1>10, <1>11, <2>1 DEF EachBlockOnce, OnePerCall
  <2> QED
    BY <2>2, <2>3
<1>9. TypeOK'
  <2>1. refused' \in BOOLEAN
    BY <1>2, Zenon DEF TypeOK
  <2> QED
    BY <1>1, <1>2, <1>3, <1>10, <1>11, <2>1 DEF TypeOK
<1> QED
  BY <1>4, <1>5, <1>6, <1>7, <1>8, <1>9

(* Only an address that is not ours is refused: no block is lost. *)
LEMMA RefuseInv ==
    ASSUME IInv, NEW t \in Tasks, Refuse(t)
    PROVE  IInv'
<1> USE DEF IInv
<1>1. /\ pc[t] = "link" /\ pc' \in [Tasks -> Points] /\ pc'[t] = "idle"
      /\ \A u \in Tasks : u # t => pc'[u] = pc[u]
  <2>1. Step(t, "link", "idle")
    BY DEF Refuse
  <2> QED
    BY <2>1, Moves DEF Points, AllocPoints, FreePoints
<1>2. /\ refused' = TRUE /\ node' = [node EXCEPT ![t] = NULL]
      /\ UNCHANGED <<pool, free_list, blk_free, sem, mtx, used>>
  BY DEF Refuse
<1>3. /\ pool.blk_total \in Nat /\ NULL \notin Tasks /\ NULL \notin Blocks
      /\ blk_free \in 0..pool.blk_total /\ sem \in 0..pool.blk_total
      /\ free_list \in Seq(Blocks) /\ Blocks' = Blocks
  BY <1>2, TotalType DEF TypeOK, Blocks
<1>10. /\ node' \in [Tasks -> Blocks \cup {NULL}] /\ OnePerCall'
       /\ InCalls' = InCalls \ {node[t]}
       /\ node'[t] = NULL /\ \A u \in Tasks : u # t => node'[u] = node[u]
  BY <1>2, NodeDrops DEF TypeOK, EachBlockOnce, OnePerCall
<1>11. /\ node[t] \in Blocks \cup {NULL}
       /\ node[t] # NULL => node[t] \in Blocks /\ node[t] \in InCalls
       /\ NULL \notin InCalls
  BY DEF TypeOK, InCalls
<1>12. node[t] = NULL
  BY <1>1, OursHasRoom DEF Refuse, OurBlock
<1>4. SemSum'
  <2>1. Step(t, "link", "idle") /\ "idle" \in Points
    BY DEF Refuse, Points, AllocPoints, FreePoints
  <2>2. /\ Cardinality(Claims) \in Nat /\ Cardinality(Claims') \in Nat
        /\ Cardinality(Claims') = Cardinality(Claims)
    BY <2>1, ClaimsMove DEF ClaimPoints
  <2>3. /\ Cardinality(Owing) \in Nat /\ Cardinality(Owing') \in Nat
        /\ Cardinality(Owing') = Cardinality(Owing)
    BY <2>1, OwingMove DEF OwingPoints
  <2> QED
    BY <1>2, <1>3, <2>2, <2>3 DEF SemSum
<1>5. MutexPut' /\ RefusedKeeps'
  BY <1>1, <1>2, <1>3 DEF MutexPut, RefusedKeeps, Critical
<1>6. NodeInv'
  BY <1>1, <1>2, <1>10 DEF NodeInv
<1>7. ListCounts'
  BY <1>1, <1>2, <1>3 DEF ListCounts, MutexPut, Critical
<1>8. EachBlockOnce'
  <2>1. InList' = InList /\ Blocks' = Blocks
    BY <1>2 DEF InList, Blocks
  <2> QED
    BY <1>2, <1>10, <1>11, <1>12, <2>1 DEF EachBlockOnce, OnePerCall
<1>9. TypeOK'
  <2>1. refused' \in BOOLEAN
    BY <1>2, Zenon DEF TypeOK
  <2> QED
    BY <1>1, <1>2, <1>3, <1>10, <1>11, <2>1 DEF TypeOK
<1> QED
  BY <1>4, <1>5, <1>6, <1>7, <1>8, <1>9

(* The block goes from the call to the list. *)
LEMMA LinkInv ==
    ASSUME IInv, NEW t \in Tasks, Link(t)
    PROVE  IInv'
<1> USE DEF IInv
<1>1. /\ pc[t] = "link" /\ pc' \in [Tasks -> Points] /\ pc'[t] = "freecount"
      /\ \A u \in Tasks : u # t => pc'[u] = pc[u]
  <2>1. Step(t, "link", "freecount")
    BY DEF Link
  <2> QED
    BY <2>1, Moves DEF Points, AllocPoints, FreePoints
<1>2. /\ free_list' = <<node[t]>> \o free_list /\ node' = [node EXCEPT ![t] = NULL]
      /\ UNCHANGED <<pool, blk_free, sem, mtx, used, refused>>
  BY DEF Link
<1>3. /\ pool.blk_total \in Nat /\ NULL \notin Tasks /\ NULL \notin Blocks
      /\ blk_free \in 0..pool.blk_total /\ sem \in 0..pool.blk_total
      /\ free_list \in Seq(Blocks) /\ Blocks' = Blocks
  BY <1>2, TotalType DEF TypeOK, Blocks
<1>10. /\ node' \in [Tasks -> Blocks \cup {NULL}] /\ OnePerCall'
       /\ InCalls' = InCalls \ {node[t]}
       /\ node'[t] = NULL /\ \A u \in Tasks : u # t => node'[u] = node[u]
  BY <1>2, NodeDrops DEF TypeOK, EachBlockOnce, OnePerCall
<1>11. /\ node[t] \in Blocks \cup {NULL}
       /\ node[t] # NULL => node[t] \in Blocks /\ node[t] \in InCalls
       /\ NULL \notin InCalls
  BY DEF TypeOK, InCalls
<1>12. node[t] # NULL /\ blk_free < pool.blk_total
  BY <1>3 DEF Link, OurBlock
<1>13. /\ free_list' \in Seq(Blocks) /\ Len(free_list') = Len(free_list) + 1
       /\ \A i, j \in DOMAIN free_list' : free_list'[i] = free_list'[j] => i = j
       /\ InList' = InList \cup {node[t]}
  <2>1. node[t] \notin Elements(free_list)
    BY <1>11, <1>12 DEF EachBlockOnce, InList, Elements
  <2>2. free_list \in Seq(Blocks) /\ node[t] \in Blocks /\ NoneTwice(free_list)
    BY <1>3, <1>11, <1>12 DEF EachBlockOnce, NoneTwice
  <2>3. free_list' = Linked(node[t], free_list)
    BY <1>2 DEF Linked
  <2>4. /\ free_list' \in Seq(Blocks) /\ Len(free_list') = Len(free_list) + 1
        /\ NoneTwice(free_list') /\ Elements(free_list') = Elements(free_list) \cup {node[t]}
    BY <2>1, <2>2, <2>3, LinkedList
  <2> QED
    BY <2>4 DEF InList, Elements, NoneTwice
<1>14. blk_free = Len(free_list) /\ \A u \in Tasks : u # t => pc[u] \notin {"count", "freecount"}
  BY <1>1 DEF ListCounts, MutexPut, Critical
<1>4. SemSum'
  <2>1. Step(t, "link", "freecount") /\ "freecount" \in Points
    BY DEF Link, Points, AllocPoints, FreePoints
  <2>2. /\ Cardinality(Claims) \in Nat /\ Cardinality(Claims') \in Nat
        /\ Cardinality(Claims') = Cardinality(Claims)
    BY <2>1, ClaimsMove DEF ClaimPoints
  <2>3. /\ Cardinality(Owing) \in Nat /\ Cardinality(Owing') \in Nat
        /\ Cardinality(Owing') = Cardinality(Owing)
    BY <2>1, OwingMove DEF OwingPoints
  <2> QED
    BY <1>2, <1>3, <2>2, <2>3 DEF SemSum
<1>5. MutexPut' /\ RefusedKeeps'
  BY <1>1, <1>2, <1>3 DEF MutexPut, RefusedKeeps, Critical
<1>6. NodeInv'
  BY <1>1, <1>2, <1>10 DEF NodeInv
<1>7. ListCounts'
  BY <1>1, <1>2, <1>3, <1>12, <1>13, <1>14 DEF ListCounts, MutexPut, Critical
<1>8. EachBlockOnce'
  BY <1>2, <1>3, <1>10, <1>11, <1>12, <1>13 DEF EachBlockOnce, OnePerCall
<1>9. TypeOK'
  <2>1. refused' \in BOOLEAN
    BY <1>2, Zenon DEF TypeOK
  <2> QED
    BY <1>1, <1>2, <1>3, <1>10, <1>11, <1>13, <2>1 DEF TypeOK
<1> QED
  BY <1>4, <1>5, <1>6, <1>7, <1>8, <1>9

(* The block goes from the list to the call. *)
LEMMA TakeInv ==
    ASSUME IInv, NEW t \in Tasks, Take(t)
    PROVE  IInv'
<1> USE DEF IInv
<1>1. /\ pc[t] = "take" /\ pc' \in [Tasks -> Points] /\ pc'[t] = "count"
      /\ \A u \in Tasks : u # t => pc'[u] = pc[u]
  <2>1. Step(t, "take", "count")
    BY DEF Take
  <2> QED
    BY <2>1, Moves DEF Points, AllocPoints, FreePoints
<1>2. /\ free_list # <<>> /\ free_list' = Tail(free_list)
      /\ node' = [node EXCEPT ![t] = Head(free_list)]
      /\ UNCHANGED <<pool, blk_free, sem, mtx, used, refused>>
  BY DEF Take
<1>3. /\ pool.blk_total \in Nat /\ NULL \notin Tasks /\ NULL \notin Blocks
      /\ blk_free \in 0..pool.blk_total /\ sem \in 0..pool.blk_total
      /\ free_list \in Seq(Blocks) /\ Blocks' = Blocks
  BY <1>2, TotalType DEF TypeOK, Blocks
<1>10. /\ Head(free_list) \in Blocks /\ Head(free_list) \in InList
       /\ free_list' \in Seq(Blocks) /\ Len(free_list') = Len(free_list) - 1
       /\ Len(free_list) \in Nat
       /\ \A i, j \in DOMAIN free_list' : free_list'[i] = free_list'[j] => i = j
       /\ InList' = InList \ {Head(free_list)}
  <2>1. /\ free_list \in Seq(Blocks) /\ free_list # <<>>
        /\ \A i, j \in DOMAIN free_list : free_list[i] = free_list[j] => i = j
    BY <1>2, <1>3 DEF EachBlockOnce
  <2> DEFINE h == Head(free_list)
             r == Tail(free_list)
  <2>2. /\ h \in Blocks /\ h \in {free_list[i] : i \in DOMAIN free_list}
        /\ r \in Seq(Blocks) /\ Len(r) = Len(free_list) - 1 /\ Len(free_list) \in Nat
        /\ \A i, j \in DOMAIN r : r[i] = r[j] => i = j
        /\ {r[i] : i \in DOMAIN r} = {free_list[i] : i \in DOMAIN free_list} \ {h}
    BY <2>1, TailOfList
  <2>3. free_list' = r
    BY <1>2
  <2> HIDE DEF r
  <2> QED
    BY <2>2, <2>3 DEF InList
<1>11. Head(free_list) \notin InCalls /\ Head(free_list) # NULL /\ node[t] = NULL
  BY <1>1, <1>3, <1>10 DEF EachBlockOnce, NodeInv
<1>12. /\ node' \in [Tasks -> Blocks \cup {NULL}] /\ OnePerCall'
       /\ InCalls' = InCalls \cup {Head(free_list)}
       /\ node'[t] = Head(free_list) /\ \A u \in Tasks : u # t => node'[u] = node[u]
  BY <1>2, <1>10, <1>11, NodeTakes DEF TypeOK, EachBlockOnce, OnePerCall
<1>13. blk_free = Len(free_list) /\ \A u \in Tasks : u # t => pc[u] \notin {"count", "freecount"}
  BY <1>1 DEF ListCounts, MutexPut, Critical
<1>4. SemSum'
  <2>1. Step(t, "take", "count") /\ "count" \in Points
    BY DEF Take, Points, AllocPoints, FreePoints
  <2>2. /\ Cardinality(Claims) \in Nat /\ Cardinality(Claims') \in Nat
        /\ Cardinality(Claims') = Cardinality(Claims)
    BY <2>1, ClaimsMove DEF ClaimPoints
  <2>3. /\ Cardinality(Owing) \in Nat /\ Cardinality(Owing') \in Nat
        /\ Cardinality(Owing') = Cardinality(Owing)
    BY <2>1, OwingMove DEF OwingPoints
  <2> QED
    BY <1>2, <1>3, <2>2, <2>3 DEF SemSum
<1>5. MutexPut' /\ RefusedKeeps'
  BY <1>1, <1>2, <1>3 DEF MutexPut, RefusedKeeps, Critical
<1>6. NodeInv'
  BY <1>1, <1>2, <1>11, <1>12 DEF NodeInv
<1>7. ListCounts'
  BY <1>1, <1>2, <1>3, <1>10, <1>13 DEF ListCounts, MutexPut, Critical
<1>8. EachBlockOnce'
  BY <1>2, <1>3, <1>10, <1>11, <1>12 DEF EachBlockOnce, OnePerCall
<1>9. TypeOK'
  <2>1. refused' \in BOOLEAN
    BY <1>2, Zenon DEF TypeOK
  <2> QED
    BY <1>1, <1>2, <1>3, <1>10, <1>12, <2>1 DEF TypeOK
<1> QED
  BY <1>4, <1>5, <1>6, <1>7, <1>8, <1>9

LEMMA MtxGetInv ==
    ASSUME IInv, NEW t \in Tasks, MtxGet(t)
    PROVE  IInv'
<1>1. CASE Step(t, "lock", "take")
  BY <1>1, AllocLocksInv
<1>2. CASE Step(t, "freelock", "link")
  BY <1>2, FreeLocksInv
<1> QED
  BY <1>1, <1>2 DEF MtxGet

LEMMA StutterInv ==
    ASSUME IInv, UNCHANGED vars
    PROVE  IInv'
<1>1. refused' \in BOOLEAN
  BY Zenon DEF IInv, TypeOK, vars
<1>2. /\ Claims' = Claims /\ Owing' = Owing /\ InList' = InList /\ InCalls' = InCalls
      /\ Blocks' = Blocks
  BY DEF vars, Claims, Owing, InList, InCalls, Blocks
<1> QED
  BY <1>1, <1>2 DEF IInv, vars, TypeOK, MutexPut, RefusedKeeps, NodeInv, ListCounts,
         EachBlockOnce, SemSum,
         Critical

LEMMA NextInv ==
    ASSUME IInv, [Next]_vars
    PROVE  IInv'
<1>1. ASSUME NEW t \in Tasks, Call(t) PROVE IInv'
  BY <1>1, SemGetInv, CallFreeInv, CallFreeForeignInv DEF Call
<1>2. ASSUME NEW t \in Tasks, Continue(t) PROVE IInv'
  BY <1>2, CheckFreeInv, MtxGetInv, AllocTimeoutInv, TakeInv, CountInv, AllocReturnsInv,
     FreeTimeoutInv, RefuseInv, LinkInv, FreeCountInv, MtxPutInv, SemPutInv DEF Continue
<1> QED
  BY <1>1, <1>2, StutterInv DEF Next
-----------------------------------------------------------------------------
(* The theorems. *)

LEMMA Inductive == Spec => []IInv
<1>1. Init => IInv
  BY InitInv
<1>2. IInv /\ [Next]_vars => IInv'
  BY NextInv
<1> QED
  BY <1>1, <1>2, PTL DEF Spec

(* Every variable has its type: the counts stay within the number of       *)
(* blocks, and the list holds blocks of the pool only.                     *)
THEOREM TypeCorrect == Spec => []TypeOK
<1>1. IInv => TypeOK
  BY DEF IInv
<1> QED
  BY <1>1, Inductive, PTL

(* bflb_block_pool_alloc never hands out a block that is in use, and       *)
(* neither call loses one, whatever fails.                                 *)
THEOREM BlocksOnce == Spec => []EachBlockOnce
<1>1. IInv => EachBlockOnce
  BY DEF IInv
<1> QED
  BY <1>1, Inductive, PTL

(* The semaphore counts the blocks: who has it finds one in the list.      *)
THEOREM SemaphoreCounts == Spec => []SemCounts
<1>1. IInv => SemCounts
  BY ClaimsFind
<1> QED
  BY <1>1, Inductive, PTL

(* The mutex is put by every call but the one that refuses an address.     *)
THEOREM MutexHeld == Spec => []MutexPut
<1>1. IInv => MutexPut
  BY DEF IInv
<1> QED
  BY <1>1, Inductive, PTL

(* Every layout that bflb_block_pool_create computes fits its memory.      *)
THEOREM LayoutCorrect == Spec => []LayoutFits
<1>1. Init => LayoutFits
  <2> SUFFICES ASSUME Init PROVE LayoutFits
    OBVIOUS
  <2>1. PICK a \in Arguments : pool = Created(a) /\ pool.blk_total > 0
    BY DEF Init
  <2> DEFINE size == Aligned(a.blk_size, a.align)
             total == BlockTotal(a, size)
  <2>2. /\ pool = [args |-> a, blk_size |-> size, blk_total |-> total,
                   blk_addr |-> BlockAddr(a, total)]
        /\ size % a.align = 0 /\ a.blk_size <= size
        /\ BlockAddr(a, total) % a.align = 0
        /\ a.pool_addr + PointerSize * total <= BlockAddr(a, total)
        /\ total > 0 => BlockAddr(a, total) + total * size <= a.pool_addr + a.pool_size
    BY <2>1, CreatedProperties
  <2>3. /\ a.blk_size \in Nat \ {0} /\ size \in Nat \ {0}
    BY AlignedBounds, BlockPoolAssumption DEF BlockPoolAssumption
  <2> HIDE DEF size, total
  <2> QED
    BY <2>1, <2>2, <2>3 DEF LayoutFits
<1>2. LayoutFits /\ [Next]_vars => LayoutFits'
  <2>1. [Next]_vars => pool' = pool
    BY DEF Next, Call, Continue, vars, SemGet, CallFree, CallFreeForeign, CheckFree, MtxGet,
           AllocTimeout, Take, Count, AllocReturns, FreeTimeout, Refuse, Link, FreeCount,
           MtxPut, SemPut
  <2> QED
    BY <2>1 DEF LayoutFits
<1> QED
  BY <1>1, <1>2, PTL DEF Spec
=============================================================================
