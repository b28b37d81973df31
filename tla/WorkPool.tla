------------------------------ MODULE WorkPool ------------------------------
(***************************************************************************)
(* The static work items of nrf70_zephyr_shim/source/os/work.c, and the    *)
(* work queue of the kernel that runs those of type BH.  Nothing joins an  *)
(* item to its owner: an item given back may be handed out again while its *)
(* callback still runs.                                                    *)
(***************************************************************************)
EXTENDS Naturals, Sequences, FiniteSetsExt, SequencesExt

CONSTANTS
  MaxItems,   \* CONFIG_NRF70_WORKQ_MAX_ITEMS
  NoItem      \* NULL, or no item running

ASSUME PoolAssumption == MaxItems \in Nat /\ NoItem \notin 0 .. MaxItems - 1

Items == 0 .. MaxItems - 1
Types == {"IRQ", "BH"}

VARIABLES
  inUse, type,   \* the fields in_use and type of each item
  data,          \* what its callback is called with: the owner, 0 at first
  bhQueue,       \* zep_wifi_bh_q: the items submitted
  running,       \* the item whose callback the queue's thread runs
  runData        \* what that callback was called with

poolVars == <<inUse, type, data, bhQueue, running, runData>>

PoolInit ==
  /\ inUse = [i \in Items |-> FALSE]
  /\ type = [i \in Items |-> "IRQ"]
  /\ data = [i \in Items |-> 0]
  /\ bhQueue = <<>> /\ running = NoItem /\ runData = 0

FreeItems == {i \in Items : ~inUse[i]}

(* get_free_work_item_index, NULL of work_alloc included.                  *)
FreeItem == IF FreeItems = {} THEN NoItem ELSE Min(FreeItems)

(* work_alloc and work_init of the item it returned.                       *)
WorkAlloc(i, t, d) ==
  /\ i = FreeItem /\ i \in Items
  /\ inUse' = [inUse EXCEPT ![i] = TRUE]
  /\ type' = [type EXCEPT ![i] = t]
  /\ data' = [data EXCEPT ![i] = d]
  /\ UNCHANGED <<bhQueue, running, runData>>

(* Mutant: nor while its callback runs.                                    *)
SubmitIdle(q, i) == IF i \in Range(q) \cup {running} THEN q ELSE Append(q, i)

(* k_work_submit_to_queue does nothing while the item is in the queue.     *)
Submit(q, i) == IF i \in Range(q) THEN q ELSE Append(q, i)

WorkSchedule(i) ==
  /\ bhQueue' = IF type[i] = "BH" THEN Submit(bhQueue, i) ELSE bhQueue
  /\ UNCHANGED <<inUse, type, data, running, runData>>

(* Mutant: the item stays in the queue.                                    *)
WorkKillNothing(i) == i \in Items /\ UNCHANGED poolVars

(* k_work_cancel takes the item out of the queue and does not wait.        *)
WorkKill(i) ==
  /\ \/ \E k \in DOMAIN bhQueue : bhQueue[k] = i /\ bhQueue' = RemoveAt(bhQueue, k)
     \/ i \notin Range(bhQueue) /\ bhQueue' = bhQueue
  /\ UNCHANGED <<inUse, type, data, running, runData>>

(* Mutant: in_use is not reset.                                            *)
WorkFreeNothing(i) == i \in Items /\ UNCHANGED poolVars

WorkFree(i) ==
  /\ inUse' = [inUse EXCEPT ![i] = FALSE]
  /\ UNCHANGED <<type, data, bhQueue, running, runData>>

(* The thread of the queue: workqueue_callback, and its return.            *)
RunBegin ==
  /\ running = NoItem /\ bhQueue # <<>>
  /\ running' = Head(bhQueue)
  /\ runData' = data[Head(bhQueue)]
  /\ bhQueue' = Tail(bhQueue)
  /\ UNCHANGED <<inUse, type, data>>

RunEnd ==
  /\ running # NoItem
  /\ running' = NoItem /\ runData' = 0
  /\ UNCHANGED <<inUse, type, data, bhQueue>>
=============================================================================
