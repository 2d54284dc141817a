------------------------------- MODULE Queue --------------------------------
(***************************************************************************)
(* The queue of messages and of commands (lbp/include/lbp/queue.h): an     *)
(* array and two indices that only grow, until they wrap like any size_t.  *)
(***************************************************************************)
EXTENDS Integers, Sequences

CONSTANTS QueueCapacity,     \* Capacity
          IndexMod,          \* the number of values of a size_t
          Vacant             \* an item that was moved from, or never set

(* static_assert of queue.h; a size_t holds a power of two of values.      *)
ASSUME QueueAssumption ==
    /\ QueueCapacity \in Nat \ {0} /\ \E k \in 0..QueueCapacity : QueueCapacity = 2^k
    /\ IndexMod \in Nat /\ IndexMod > QueueCapacity /\ IndexMod % QueueCapacity = 0

VARIABLES slots,             \* m_data
          qhead, qtail       \* m_head, m_tail

queueVars == <<slots, qhead, qtail>>

QueueInit == /\ slots = [i \in 0..(QueueCapacity - 1) |-> Vacant]
             /\ qhead = 0 /\ qtail = 0

Index(i) == i % QueueCapacity          \* i & kModMask

(* Mutant: the indices are compared as if they never wrapped. *)
MutQueueSize == IF qhead >= qtail THEN qhead - qtail ELSE 0

QueueSize == (qhead - qtail) % IndexMod
FreeSpace == QueueCapacity - QueueSize
IsEmpty   == qhead = qtail

(* push(), which found room, and pop(): the item moves into out. *)
PushItem(item) == /\ FreeSpace # 0
                  /\ slots' = [slots EXCEPT ![Index(qhead)] = item]
                  /\ qhead' = (qhead + 1) % IndexMod
                  /\ UNCHANGED qtail

Front == slots[Index(qtail)]

PopItem == /\ ~IsEmpty
           /\ slots' = [slots EXCEPT ![Index(qtail)] = Vacant]
           /\ qtail' = (qtail + 1) % IndexMod
           /\ UNCHANGED qhead

ClearItems == qhead' = 0 /\ qtail' = 0 /\ UNCHANGED slots

(* The items in the queue, oldest first. *)
Items == [k \in 1..QueueSize |-> slots[Index(qtail + k - 1)]]
=============================================================================
