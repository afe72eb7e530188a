------------------------------ MODULE OsMempool ------------------------------
(***************************************************************************)
(* The memory pools of nimble-rs-sys/gen/glue/src/os_mempool.c, in the     *)
(* configuration gen/features.rs fixes (MP_RUNTIME_ALLOC and               *)
(* BLE_STATIC_TO_DYNAMIC off; no poison, no guard): the free list that     *)
(* runs through the free blocks, the block counts, and g_os_mempool_list,  *)
(* the list of all pools.                                                  *)
(*                                                                         *)
(* A block is an address; Layout[p] are the blocks of pool p in the order  *)
(* of their addresses.  A client that has a block writes over its link.    *)
(* The prefix Mem keeps names apart in DriverProofs.                       *)
(***************************************************************************)
EXTENDS Naturals, Sequences, SequencesExt, LinkedLists

CONSTANTS
  Pools, Blocks, Layout, NULL,
  Clients

ASSUME PoolAssumption ==
  /\ NULL \notin Pools \cup Blocks
  /\ Layout \in [Pools -> Seq(Blocks)]
  /\ \A p \in Pools : Distinct(Layout[p])
  /\ \A p, q \in Pools : p # q => Range(Layout[p]) \cap Range(Layout[q]) = {}

VARIABLES
  first, next,         \* per pool: SLIST_FIRST; per block: mb_next
  numFree, minFree,    \* mp_num_free, mp_min_free
  putCb,               \* OS_MEMPOOL_F_EXT is set and mpe_put_cb is not NULL
  qFirst, qLast, qNext,  \* g_os_mempool_list: the last pool, or NULL when
                         \* stqh_last points at the head
  started, ready,      \* a driver exists; the pools it has initialised
  owned,               \* per client: the blocks it has
  putting,             \* per client: its os_memblock_put underway
  misused,             \* history: a client freed what was not its own, or a pool
                       \* in use was cleared, since the driver started
  free, pools          \* history: the free blocks, most recently freed first;
                       \* the pools registered

blockVars == <<first, next, numFree, minFree, free>>
listVars  == <<qFirst, qLast, qNext, pools>>
sessionVars == <<started, ready>>
clientVars == <<owned, putting>>
memVars == <<blockVars, putCb, listVars, sessionVars, clientVars, misused>>

Idle == [pool |-> NULL, block |-> NULL, at |-> "idle"]

\* Before the first driver.
MemInit ==
  /\ first = [p \in Pools |-> NULL] /\ next = [b \in Blocks |-> NULL]
  /\ numFree = [p \in Pools |-> 0] /\ minFree = [p \in Pools |-> 0]
  /\ free = [p \in Pools |-> << >>]
  /\ putCb = [p \in Pools |-> FALSE]
  /\ qFirst = NULL /\ qLast = NULL /\ qNext = [p \in Pools |-> NULL]
  /\ pools = << >>
  /\ started = FALSE /\ ready = {}
  /\ owned = [c \in Clients |-> {}]
  /\ putting = [c \in Clients |-> Idle]
  /\ misused = FALSE

-----------------------------------------------------------------------------
(***************************************************************************)
(* Pools come and go.                                                      *)
(***************************************************************************)
BlocksOf(p) == Range(Layout[p])

\* Nobody has a block of the pool.
AllBack(p) ==
  \A c \in Clients : owned[c] \cap BlocksOf(p) = {} /\ putting[c].pool # p

\* Chain all the blocks to the free list.
Chain(p) ==
  /\ first' = [first EXCEPT ![p] = IF Layout[p] = << >> THEN NULL ELSE Layout[p][1]]
  /\ next' = [b \in Blocks |->
               IF b \notin BlocksOf(p) THEN next[b]
               ELSE LET i == CHOOSE i \in 1..Len(Layout[p]) : Layout[p][i] = b
                    IN  IF i = Len(Layout[p]) THEN NULL ELSE Layout[p][i + 1]]
  /\ numFree' = [numFree EXCEPT ![p] = Len(Layout[p])]
  /\ minFree' = [minFree EXCEPT ![p] = Len(Layout[p])]
  /\ free' = [free EXCEPT ![p] = Layout[p]]

\* Fault: no pool is taken off the list when a driver starts.
ModuleInitKeeps ==
  /\ ~started /\ started' = TRUE
  /\ pools' = << >>
  /\ UNCHANGED <<blockVars, putCb, qFirst, qLast, qNext, ready, clientVars, misused>>

\* os_mempool_module_init, first thing in port::init.  Pools of an earlier
\* driver may still be in the list.
ModuleInit ==
  /\ ~started /\ started' = TRUE
  /\ qFirst' = NULL /\ qLast' = NULL
  /\ pools' = << >>
  /\ UNCHANGED <<blockVars, putCb, qNext, ready, clientVars, misused>>

\* os_mempool_init and os_mempool_ext_init, for a pool the host has not
\* registered yet.  Parameters that are refused change nothing.
MempoolInit(p) ==
  /\ started /\ p \notin Range(pools) /\ AllBack(p)
  /\ Chain(p)
  /\ putCb' = [putCb EXCEPT ![p] = FALSE]
  /\ qNext' = IF qLast = NULL THEN [qNext EXCEPT ![p] = NULL]
                              ELSE [qNext EXCEPT ![p] = NULL, ![qLast] = p]
  /\ qFirst' = IF qLast = NULL THEN p ELSE qFirst
  /\ qLast' = p
  /\ pools' = Append(pools, p)
  /\ ready' = ready \cup {p}
  /\ UNCHANGED <<started, clientVars, misused>>

\* The host sets mpe_put_cb of an extended pool, the ACL pool (external).
SetPutCb(p) ==
  /\ p \in ready /\ ~putCb[p] /\ Layout[p] # << >>
  /\ putCb' = [putCb EXCEPT ![p] = TRUE]
  /\ UNCHANGED <<blockVars, listVars, sessionVars, clientVars, misused>>

QWalked == Walked(Pools, qFirst, qNext, NULL)

\* os_mempool_unregister; a pool that is not in the list changes nothing.
Unregister(p) ==
  /\ p \in ready /\ p \in QWalked
  /\ IF qFirst = p
     THEN /\ qFirst' = qNext[p]
          /\ qLast' = IF qNext[p] = NULL THEN NULL ELSE qLast
          /\ UNCHANGED qNext
     ELSE LET prev == CHOOSE x \in QWalked : qNext[x] = p
          IN  /\ qLast' = IF qNext[p] = NULL THEN prev ELSE qLast
              /\ qNext' = [qNext EXCEPT ![prev] = qNext[p]]
              /\ UNCHANGED qFirst
  /\ \E i \in DOMAIN pools : pools[i] = p /\ pools' = RemoveAt(pools, i)
  /\ UNCHANGED <<blockVars, putCb, sessionVars, clientVars, misused>>

\* os_mempool_clear.  The code writes through a null pointer for a pool
\* without blocks; such a pool is never cleared here.
MempoolClear(p) ==
  /\ p \in ready /\ Layout[p] # << >>
  /\ misused' = (misused \/ ~AllBack(p))
  /\ Chain(p)
  /\ UNCHANGED <<putCb, listVars, sessionVars, clientVars>>

\* os_mempool_ext_clear: the flag and the callback go too.
ExtClear(p) ==
  /\ p \in ready /\ putCb[p] /\ Layout[p] # << >>
  /\ misused' = (misused \/ ~AllBack(p))
  /\ Chain(p)
  /\ putCb' = [putCb EXCEPT ![p] = FALSE]
  /\ UNCHANGED <<listVars, sessionVars, clientVars>>

\* The driver is dropped, with whatever its host still has (external).
EndSession ==
  /\ started /\ started' = FALSE
  /\ ready' = {}
  /\ owned' = [c \in Clients |-> {}]
  /\ putting' = [c \in Clients |-> Idle]
  /\ misused' = FALSE
  /\ UNCHANGED <<blockVars, putCb, listVars>>

-----------------------------------------------------------------------------
(***************************************************************************)
(* Blocks.                                                                 *)
(***************************************************************************)

\* Fault: the head stays on the block that is handed out.
MemblockGetKeepsFirst(c, p) ==
  /\ p \in ready /\ putting[c] = Idle
  /\ numFree[p] > 0
  /\ numFree' = [numFree EXCEPT ![p] = @ - 1]
  /\ minFree' = [minFree EXCEPT ![p] = IF @ > numFree'[p] THEN numFree'[p] ELSE @]
  /\ owned' = [owned EXCEPT ![c] = @ \cup {first[p]}]
  /\ free' = [free EXCEPT ![p] = Tail(@)]
  /\ UNCHANGED <<first, next, putCb, listVars, sessionVars, putting, misused>>

\* os_memblock_get; with no block free it returns NULL and changes nothing.
MemblockGet(c, p) ==
  /\ p \in ready /\ putting[c] = Idle
  /\ numFree[p] > 0
  /\ first' = [first EXCEPT ![p] = next[first[p]]]
  /\ numFree' = [numFree EXCEPT ![p] = @ - 1]
  /\ minFree' = [minFree EXCEPT ![p] = IF @ > numFree'[p] THEN numFree'[p] ELSE @]
  /\ owned' = [owned EXCEPT ![c] = @ \cup {first[p]}]
  /\ free' = [free EXCEPT ![p] = Tail(@)]
  /\ UNCHANGED <<next, putCb, listVars, sessionVars, putting, misused>>

\* A client writes its data into a block it has (external).
ClientWrite(c, b) ==
  /\ putting[c] = Idle /\ b \in owned[c]
  /\ \A p \in Pools : b \notin Range(free[p])
  /\ \E v \in Blocks \cup {NULL} : next' = [next EXCEPT ![b] = v]
  /\ UNCHANGED <<first, numFree, minFree, free, putCb, listVars, sessionVars, clientVars, misused>>

\* os_memblock_put: an extended pool's callback is called instead of freeing
\* the block.
MemblockPut(c, p, b) ==
  /\ p \in ready /\ putting[c] = Idle
  /\ misused' = (misused \/ b \notin owned[c] \cap BlocksOf(p))
  /\ putting' = [putting EXCEPT ![c] =
       [pool |-> p, block |-> b, at |-> IF putCb[p] THEN "callback" ELSE "free"]]
  /\ owned' = [owned EXCEPT ![c] = @ \ {b}]
  /\ UNCHANGED <<blockVars, putCb, listVars, sessionVars>>

\* The host's callback frees the block with os_memblock_put_from_cb (external).
PutCallback(c) ==
  /\ putting[c].at = "callback"
  /\ putting' = [putting EXCEPT ![c].at = "free"]
  /\ UNCHANGED <<blockVars, putCb, listVars, sessionVars, owned, misused>>

FreeWalked(p) == Walked(Blocks, first[p], next, NULL)

\* Fault: a block that is free already is freed again while there is room.
PutFromCbTwice(c) ==
  /\ putting[c].at = "free"
  /\ putting' = [putting EXCEPT ![c] = Idle]
  /\ LET p == putting[c].pool
         b == putting[c].block
     IN  IF b \in BlocksOf(p) /\ numFree[p] < Len(Layout[p])
         THEN /\ next' = [next EXCEPT ![b] = first[p]]
              /\ first' = [first EXCEPT ![p] = b]
              /\ numFree' = [numFree EXCEPT ![p] = @ + 1]
              /\ free' = [free EXCEPT ![p] = <<b>> \o @]
         ELSE UNCHANGED <<next, first, numFree, free>>
  /\ UNCHANGED <<minFree, putCb, listVars, sessionVars, owned, misused>>

\* os_memblock_put_from_cb refuses a block of another pool, one that is free
\* already, and one too many.
PutFromCb(c) ==
  /\ putting[c].at = "free"
  /\ putting' = [putting EXCEPT ![c] = Idle]
  /\ LET p == putting[c].pool
         b == putting[c].block
     IN  IF b \in BlocksOf(p) /\ b \notin FreeWalked(p) /\ numFree[p] < Len(Layout[p])
         THEN /\ next' = [next EXCEPT ![b] = first[p]]
              /\ first' = [first EXCEPT ![p] = b]
              /\ numFree' = [numFree EXCEPT ![p] = @ + 1]
              /\ free' = [free EXCEPT ![p] = <<b>> \o @]
         ELSE UNCHANGED <<next, first, numFree, free>>
  /\ UNCHANGED <<minFree, putCb, listVars, sessionVars, owned, misused>>

-----------------------------------------------------------------------------
MemNext ==
  \/ ModuleInit \/ EndSession
  \/ \E p \in Pools : \/ MempoolInit(p) \/ SetPutCb(p) \/ Unregister(p)
                      \/ MempoolClear(p) \/ ExtClear(p)
  \/ \E c \in Clients :
       \/ PutCallback(c) \/ PutFromCb(c)
       \/ \E p \in Pools : MemblockGet(c, p) \/ \E b \in Blocks : MemblockPut(c, p, b)
       \/ \E b \in Blocks : ClientWrite(c, b)

MemSpec == MemInit /\ [][MemNext]_memVars

-----------------------------------------------------------------------------
MemTypeOK ==
  /\ first \in [Pools -> Blocks \cup {NULL}]
  /\ next \in [Blocks -> Blocks \cup {NULL}]
  /\ numFree \in [Pools -> Nat] /\ minFree \in [Pools -> Nat]
  /\ putCb \in [Pools -> BOOLEAN]
  /\ qFirst \in Pools \cup {NULL} /\ qLast \in Pools \cup {NULL}
  /\ qNext \in [Pools -> Pools \cup {NULL}]
  /\ started \in BOOLEAN /\ ready \in SUBSET Pools /\ misused \in BOOLEAN
  /\ owned \in [Clients -> SUBSET Blocks]
  /\ putting \in [Clients -> [pool : Pools \cup {NULL}, block : Blocks \cup {NULL},
                              at : {"idle", "callback", "free"}]]
  /\ \A c \in Clients :
       putting[c].at # "idle" => putting[c].pool \in Pools /\ putting[c].block \in Blocks
  /\ free \in [Pools -> Seq(Blocks)]
  /\ pools \in Seq(Pools)

(***************************************************************************)
(* The free list of every pool runs through mp_num_free different blocks   *)
(* of that pool and ends (os_mempool.c:518-531, 590-612), whatever blocks  *)
(* are freed twice or to the wrong pool, and whatever clients write into   *)
(* the blocks they have.                                                   *)
(***************************************************************************)
FreeListOK ==
  \A p \in ready :
    /\ Spells(free[p], first[p], next, NULL)
    /\ Distinct(free[p]) /\ Range(free[p]) \subseteq BlocksOf(p)
    /\ numFree[p] = Len(free[p])
    /\ minFree[p] <= numFree[p]

(***************************************************************************)
(* While clients free only what they have, a block is in one place: in the *)
(* free list of its pool, with one client, or in one put underway          *)
(* (os_mempool.c:444-672).                                                 *)
(***************************************************************************)
Freed(p, b) == b \in Range(free[p])
Has(c, b) == b \in owned[c] \/ putting[c].block = b

HandedOutOnce ==
  ~misused =>
    /\ \A c \in Clients : putting[c].at # "idle" => putting[c].block \notin owned[c]
    /\ \A c \in Clients, p \in ready : \A b \in BlocksOf(p) :
         Has(c, b) => ~Freed(p, b) /\ \A d \in Clients : Has(d, b) => d = c
    /\ \A p \in ready : \A b \in BlocksOf(p) : Freed(p, b) \/ \E c \in Clients : Has(c, b)

(***************************************************************************)
(* g_os_mempool_list holds the registered pools, each once, and stqh_last  *)
(* points at its end (os_mempool.c:238, 268-307, 703-711): a walk over it  *)
(* ends, although a new driver finds the links the last one left.          *)
(***************************************************************************)
PoolListOK ==
  /\ Spells(pools, qFirst, qNext, NULL)
  /\ Distinct(pools)
  /\ qLast = IF pools = << >> THEN NULL ELSE pools[Len(pools)]
==============================================================================
