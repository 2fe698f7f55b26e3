----------------------------- MODULE BlockPool -----------------------------
(***************************************************************************)
(* The pool of memory blocks, components/utils/bflb_block_pool: the layout *)
(* bflb_block_pool_create computes, and the calls of several tasks with    *)
(* the mutex and the counting semaphore that bflb_block_pool_add_mtx and   *)
(* _add_sem register.  Each access to the pool is a step.  The mutex may   *)
(* time out while another task has it.                                     *)
(*                                                                         *)
(* Callers free what they own, and now and then an address that is not in  *)
(* the pool.                                                               *)
(***************************************************************************)
EXTENDS Integers, Sequences, FiniteSets

CONSTANTS Tasks,
          NULL,
          PointerSize,      \* sizeof(void *)
          Arguments         \* the arguments of bflb_block_pool_create

ASSUME BlockPoolAssumption ==
    /\ IsFiniteSet(Tasks) /\ NULL \notin Tasks /\ NULL \notin Nat
    /\ PointerSize \in Nat \ {0}
    /\ Arguments \subseteq [blk_size : Nat \ {0}, align : Nat \ {0},
                            pool_addr : Nat, pool_size : Nat \ {0}]

VARIABLES
    pool,       \* blk_addr, blk_size and blk_total, with the arguments
    free_list,  \* the blocks in the order of the list
    blk_free,
    sem, mtx,   \* the count of the semaphore, the task that has the mutex
    pc, node,   \* of each task: the access that comes next, the block it is about
    used,       \* the blocks in the hands of the callers
    refused     \* history: has a free been refused?

vars == <<pool, free_list, blk_free, sem, mtx, pc, node, used, refused>>

Blocks == 0..(pool.blk_total - 1)

AllocPoints == {"check", "lock", "take", "count", "unlock"}
FreePoints  == {"freelock", "link", "freecount", "freeunlock", "semput"}
Points      == {"idle"} \cup AllocPoints \cup FreePoints
-----------------------------------------------------------------------------
(* x rounded up to a multiple of m. *)
Aligned(x, m) == IF x % m = 0 THEN x ELSE x - (x % m) + m

BlockAddr(a, total) == Aligned(a.pool_addr + PointerSize * total, a.align)

FitsIn(a, size, total) == BlockAddr(a, total) + total * size <= a.pool_addr + a.pool_size

(* Deviation: the blocks are counted before the alignment. *)
TotalUnaligned(a, size) == a.pool_size \div (PointerSize + size)

BlockTotal(a, size) ==
    LET count == a.pool_size \div (PointerSize + size) IN
    IF count = 0 \/ FitsIn(a, size, count) THEN count ELSE count - 1

(* bflb_block_pool_create, which fails when there is no room for a block. *)
Created(a) ==
    LET size == Aligned(a.blk_size, a.align)
        total == BlockTotal(a, size) IN
    [args |-> a, blk_size |-> size, blk_total |-> total, blk_addr |-> BlockAddr(a, total)]

Init ==
    /\ \E a \in Arguments : pool = Created(a) /\ pool.blk_total > 0
    /\ free_list = [i \in 1..pool.blk_total |-> i - 1]
    /\ blk_free = pool.blk_total
    /\ sem = pool.blk_total /\ mtx = NULL
    /\ pc = [t \in Tasks |-> "idle"] /\ node = [t \in Tasks |-> NULL]
    /\ used = {}
    /\ refused = FALSE
-----------------------------------------------------------------------------
Step(t, from, to) == pc[t] = from /\ pc' = [pc EXCEPT ![t] = to]

(* bflb_block_pool_alloc; a wait for the semaphore that times out changes  *)
(* nothing.                                                                *)
SemGet(t) ==
    /\ Step(t, "idle", "check")
    /\ sem > 0
    /\ sem' = sem - 1
    /\ UNCHANGED <<pool, free_list, blk_free, mtx, node, used, refused>>

(* A pool without a free block fails without giving the semaphore back.    *)
CheckFree(t) ==
    /\ Step(t, "check", IF blk_free = 0 THEN "idle" ELSE "lock")
    /\ UNCHANGED <<pool, free_list, blk_free, sem, mtx, node, used, refused>>

(* Deviation: the result of mtx_get is ignored. *)
Ignored == TRUE

Available == mtx = NULL

MtxGet(t) ==
    /\ Available
    /\ mtx' = t
    /\ Step(t, "lock", "take") \/ Step(t, "freelock", "link")
    /\ UNCHANGED <<pool, free_list, blk_free, sem, node, used, refused>>

(* Deviation: the claim on a block is kept. *)
KeepsClaim == sem' = sem

GivesClaim == sem' = sem + 1

AllocTimeout(t) ==
    /\ mtx # NULL
    /\ Step(t, "lock", "idle")
    /\ GivesClaim
    /\ UNCHANGED <<pool, free_list, blk_free, mtx, node, used, refused>>

Take(t) ==
    /\ Step(t, "take", "count")
    /\ free_list # <<>>
    /\ node' = [node EXCEPT ![t] = Head(free_list)]
    /\ free_list' = Tail(free_list)
    /\ UNCHANGED <<pool, blk_free, sem, mtx, used, refused>>

Count(t) ==
    /\ Step(t, "count", "unlock")
    /\ blk_free' = blk_free - 1
    /\ UNCHANGED <<pool, free_list, sem, mtx, node, used, refused>>

(* The mutex is put, and the caller has the block. *)
AllocReturns(t) ==
    /\ Step(t, "unlock", "idle")
    /\ mtx' = NULL
    /\ used' = used \cup {node[t]}
    /\ node' = [node EXCEPT ![t] = NULL]
    /\ UNCHANGED <<pool, free_list, blk_free, sem, refused>>
-----------------------------------------------------------------------------
(* bflb_block_pool_free *)
CallFree(t) ==
    /\ Step(t, "idle", "freelock")
    /\ \E b \in used : node' = [node EXCEPT ![t] = b] /\ used' = used \ {b}
    /\ UNCHANGED <<pool, free_list, blk_free, sem, mtx, refused>>

CallFreeForeign(t) ==   \* the address is neither in the pool nor just behind it
    /\ Step(t, "idle", "freelock")
    /\ UNCHANGED <<pool, free_list, blk_free, sem, mtx, node, used, refused>>

(* Deviation: the caller takes the block for free. *)
DropsBlock(t) == used' = used

KeepsBlock(t) == used' = IF node[t] = NULL THEN used ELSE used \cup {node[t]}

(* Deviation: free waits for the mutex as long as it takes. *)
NeverTimesOut(t) == FALSE

MayTimeOut(t) == mtx # NULL

FreeTimeout(t) ==
    /\ MayTimeOut(t)
    /\ Step(t, "freelock", "idle")
    /\ KeepsBlock(t)
    /\ node' = [node EXCEPT ![t] = NULL]
    /\ UNCHANGED <<pool, free_list, blk_free, sem, mtx, refused>>

(* Deviation: every address is a block of the pool. *)
AnyBlock(t) == TRUE

OurBlock(t) == pool.blk_total # blk_free /\ node[t] # NULL

(* "this is not our block": the call returns, and the mutex is not put.    *)
Refuse(t) ==
    /\ Step(t, "link", "idle")
    /\ ~OurBlock(t)
    /\ refused' = TRUE
    /\ node' = [node EXCEPT ![t] = NULL]
    /\ UNCHANGED <<pool, free_list, blk_free, sem, mtx, used>>

Link(t) ==
    /\ Step(t, "link", "freecount")
    /\ OurBlock(t)
    /\ free_list' = <<node[t]>> \o free_list
    /\ node' = [node EXCEPT ![t] = NULL]
    /\ UNCHANGED <<pool, blk_free, sem, mtx, used, refused>>

FreeCount(t) ==
    /\ Step(t, "freecount", "freeunlock")
    /\ blk_free' = blk_free + 1
    /\ UNCHANGED <<pool, free_list, sem, mtx, node, used, refused>>

MtxPut(t) ==
    /\ Step(t, "freeunlock", "semput")
    /\ mtx' = NULL
    /\ UNCHANGED <<pool, free_list, blk_free, sem, node, used, refused>>

SemPut(t) ==
    /\ Step(t, "semput", "idle")
    /\ sem' = sem + 1
    /\ UNCHANGED <<pool, free_list, blk_free, mtx, node, used, refused>>
-----------------------------------------------------------------------------
Call(t) == SemGet(t) \/ CallFree(t) \/ CallFreeForeign(t)

Continue(t) ==
    \/ CheckFree(t) \/ MtxGet(t) \/ AllocTimeout(t) \/ Take(t) \/ Count(t) \/ AllocReturns(t)
    \/ FreeTimeout(t) \/ Refuse(t) \/ Link(t) \/ FreeCount(t) \/ MtxPut(t) \/ SemPut(t)

Next == \E t \in Tasks : Call(t) \/ Continue(t)

Spec == Init /\ [][Next]_vars

(* Every task that has begun a call is scheduled. *)
FairSpec == Spec /\ \A t \in Tasks : WF_vars(Continue(t))
-----------------------------------------------------------------------------
(* Every variable has its type. *)
TypeOK ==
    /\ pool \in {Created(a) : a \in Arguments}
    /\ free_list \in Seq(Blocks)
    /\ blk_free \in 0..pool.blk_total /\ sem \in 0..pool.blk_total
    /\ mtx \in Tasks \cup {NULL}
    /\ pc \in [Tasks -> Points] /\ node \in [Tasks -> Blocks \cup {NULL}]
    /\ used \in SUBSET Blocks /\ refused \in BOOLEAN

(* The blocks are aligned, behind the list and inside the memory.          *)
LayoutFits ==
    /\ pool.blk_addr % pool.args.align = 0 /\ pool.blk_size % pool.args.align = 0
    /\ pool.args.pool_addr + PointerSize * pool.blk_total <= pool.blk_addr
    /\ pool.blk_size >= pool.args.blk_size
    /\ pool.blk_addr + pool.blk_total * pool.blk_size
         <= pool.args.pool_addr + pool.args.pool_size

(* A block is in one place: once in the list, or with one call, or with    *)
(* the callers.  None is handed out twice, and none is lost.               *)
InList == {free_list[i] : i \in DOMAIN free_list}
InCalls == {node[t] : t \in {u \in Tasks : node[u] # NULL}}

EachBlockOnce ==
    /\ Blocks = InList \cup InCalls \cup used
    /\ InList \cap InCalls = {} /\ InList \cap used = {} /\ InCalls \cap used = {}
    /\ \A i, j \in DOMAIN free_list : free_list[i] = free_list[j] => i = j
    /\ \A t, u \in Tasks : node[t] # NULL /\ node[t] = node[u] => t = u

(* A task that has the semaphore finds a block, and none ends up without   *)
(* one: the semaphore's count, and the calls between it and the pool's     *)
(* count, make up that count.                                              *)
Claims == {t \in Tasks : pc[t] \in {"check", "lock", "take", "count"}}
Owing  == {t \in Tasks : pc[t] \in {"freeunlock", "semput"}}

SemCounts ==
    /\ blk_free = sem + Cardinality(Claims) + Cardinality(Owing)
    /\ \A t \in Tasks : /\ pc[t] = "check" => blk_free # 0
                        /\ pc[t] = "take" => free_list # <<>>

(* A task has the mutex from get to put, until a free has been refused;    *)
(* then nobody enters.                                                     *)
Critical == {"take", "count", "unlock", "link", "freecount", "freeunlock"}

MutexPut ==
    \A t \in Tasks : /\ pc[t] \in Critical => mtx = t /\ ~refused
                     /\ mtx = t => pc[t] \in Critical \/ refused

(* Every call returns, even when the mutex is never put again. *)
EveryCallReturns == \A t \in Tasks : pc[t] # "idle" ~> pc[t] = "idle"
=============================================================================
