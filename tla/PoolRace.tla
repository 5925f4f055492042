------------------------------ MODULE PoolRace ------------------------------
(***************************************************************************)
(* alloc_buf and free_buf of src/src/memory.rs, access by access.          *)
(*                                                                         *)
(* free_stack is a Vec in a RefCell.  RefCell has a borrow flag that is    *)
(* read and written like any other word, Vec a length and its slots; no    *)
(* access is atomic, and MemPool is declared Sync all the same, so packets *)
(* of one pool can be allocated and dropped on several threads at once.    *)
(* On one thread the accesses add up to the atomic operations of MemPool,  *)
(* which the models of the queues are built on; on two threads they don't. *)
(***************************************************************************)
EXTENDS Integers, FiniteSets, Sequences

CONSTANTS
  Thread,      \* the threads that use the pool
  NumEntries   \* MemPool::num_entries, and the capacity of the Vec

ThreadAssumption ==
  Thread # {} /\ NumEntries \in Nat \ {0}

VARIABLES
  borrow,    \* the flag of the RefCell: 0 free, -1 mutably borrowed
  len,       \* the length of the Vec
  slots,     \* its memory
  owned,     \* owned[t]: the entries of the packets of thread t
  call,      \* call[t]: Alloc, or the entry that t is about to free
  pc,        \* pc[t]: the access that t is about to make
  seen,      \* seen[t]: the value that t loaded
  panicked

vars == <<borrow, len, slots, owned, call, pc, seen, panicked>>

Entry == 0 .. NumEntries - 1
Alloc == -1

\* The Vec grows when it is full, which only happens when threads race.
Slot == 0 .. 2 * NumEntries

\* MemPool::allocate: every entry is on the stack.
Init ==
  /\ borrow = 0
  /\ len = NumEntries
  /\ slots = [s \in Slot |-> IF s \in Entry THEN s ELSE 0]
  /\ owned = [t \in Thread |-> {}]
  /\ call = [t \in Thread |-> Alloc]
  /\ pc = [t \in Thread |-> "idle"]
  /\ seen = [t \in Thread |-> 0]
  /\ panicked = FALSE

\* Thread t goes on from one access to the next.
Step(t, from, to) ==
  /\ ~panicked
  /\ pc[t] = from
  /\ pc' = [pc EXCEPT ![t] = to]

\* The entries on the stack.
Stacked == {slots[s] : s \in 0 .. len - 1}

-----------------------------------------------------------------------------
(* borrow_mut: it panics if the flag shows a borrow, and sets the flag.    *)

\* alloc_buf if c is Alloc, otherwise free_buf of the entry c of a packet.
BorrowLoad(t, c) ==
  /\ c = Alloc \/ c \in owned[t]
  /\ call' = [call EXCEPT ![t] = c]
  /\ Step(t, "idle", IF borrow = 0 THEN "borrow" ELSE "idle")
  /\ panicked' = (borrow # 0)
  /\ UNCHANGED <<borrow, len, slots, owned, seen>>

BorrowStore(t) ==
  /\ Step(t, "borrow", IF call[t] = Alloc THEN "pop" ELSE "scan")
  /\ borrow' = -1
  /\ UNCHANGED <<len, slots, owned, call, seen, panicked>>

-----------------------------------------------------------------------------
(* Vec::pop.                                                               *)

\* Fault: an empty Vec is not noticed.
PopLoad_unchecked(t) ==
  /\ Step(t, "pop", "popped")
  /\ seen' = [seen EXCEPT ![t] = len]
  /\ UNCHANGED <<borrow, len, slots, owned, call, panicked>>

\* None if the Vec is empty.
PopLoad(t) ==
  /\ Step(t, "pop", IF len = 0 THEN "release" ELSE "popped")
  /\ seen' = [seen EXCEPT ![t] = len]
  /\ UNCHANGED <<borrow, len, slots, owned, call, panicked>>

PopStore(t) ==
  /\ Step(t, "popped", "take")
  /\ len' = seen[t] - 1
  /\ UNCHANGED <<borrow, slots, owned, call, seen, panicked>>

\* The entry becomes a packet of thread t.
PopTake(t) ==
  /\ Step(t, "take", "release")
  /\ owned' = [owned EXCEPT ![t] = @ \cup {slots[seen[t] - 1]}]
  /\ UNCHANGED <<borrow, len, slots, call, seen, panicked>>

-----------------------------------------------------------------------------
(* The rest of free_buf: the check for a double free and Vec::push.        *)

Scan(t) ==
  /\ Step(t, "scan", "push")
  /\ panicked' = (call[t] \in Stacked)
  /\ UNCHANGED <<borrow, len, slots, owned, call, seen>>

\* Fault: the top of the stack is overwritten.
PushSlot_on_top(t) ==
  /\ Step(t, "push", "pushed")
  /\ seen' = [seen EXCEPT ![t] = len]
  /\ slots' = [slots EXCEPT ![IF len = 0 THEN 0 ELSE len - 1] = call[t]]
  /\ UNCHANGED <<borrow, len, owned, call, panicked>>

PushSlot(t) ==
  /\ Step(t, "push", "pushed")
  /\ seen' = [seen EXCEPT ![t] = len]
  /\ slots' = [slots EXCEPT ![len] = call[t]]
  /\ UNCHANGED <<borrow, len, owned, call, panicked>>

PushStore(t) ==
  /\ Step(t, "pushed", "release")
  /\ len' = seen[t] + 1
  /\ owned' = [owned EXCEPT ![t] = @ \ {call[t]}]
  /\ UNCHANGED <<borrow, slots, call, seen, panicked>>

-----------------------------------------------------------------------------
(* The end of the borrow: the flag is counted up by one.                   *)

ReleaseLoad(t) ==
  /\ Step(t, "release", "released")
  /\ seen' = [seen EXCEPT ![t] = borrow]
  /\ UNCHANGED <<borrow, len, slots, owned, call, panicked>>

ReleaseStore(t) ==
  /\ Step(t, "released", "idle")
  /\ borrow' = seen[t] + 1
  /\ UNCHANGED <<len, slots, owned, call, seen, panicked>>

-----------------------------------------------------------------------------
Next ==
  \E t \in Thread :
    \/ \E c \in Entry \cup {Alloc} : BorrowLoad(t, c)
    \/ BorrowStore(t)
    \/ PopLoad(t) \/ PopStore(t) \/ PopTake(t)
    \/ Scan(t) \/ PushSlot(t) \/ PushStore(t)
    \/ ReleaseLoad(t) \/ ReleaseStore(t)

Spec == Init /\ [][Next]_vars

-----------------------------------------------------------------------------
(* Properties.                                                             *)

\* Every variable keeps to its type: the length to the capacity of the Vec,
\* the flag to the values of a mutable borrow.
TypeOK ==
  /\ borrow \in {-1, 0}
  /\ len \in 0 .. NumEntries
  /\ slots \in [Slot -> Entry]
  /\ owned \in [Thread -> SUBSET Entry]
  /\ call \in [Thread -> Entry \cup {Alloc}]
  /\ pc \in [Thread -> {"idle", "borrow", "pop", "popped", "take", "scan",
                        "push", "pushed", "release", "released"}]
  /\ seen \in [Thread -> -1 .. NumEntries]
  /\ panicked \in BOOLEAN

\* The entries that a thread has taken off the stack and not read yet.
InTransit == {slots[seen[t] - 1] : t \in {u \in Thread : pc[u] = "take"}}

\* The buffers of the packets of all threads.
Held == {"pool"} \X ((UNION {owned[t] : t \in Thread}) \cup InTransit)

\* The pool as MemPool has it.  The contents of buffers do not matter here.
Atomic == INSTANCE MemPool WITH
  Pool <- {"pool"}, NoPool <- "none", Frame <- {"frame"},
  MaxHeld <- NumEntries,
  free_stack <- [p \in {"pool"} |-> [k \in 1 .. len |-> slots[k - 1]]],
  held <- Held,
  payload <- [b \in {"pool"} \X Entry |-> "frame"]

AtomicNext ==
  \/ Atomic!AllocPkt("pool", "frame")
  \/ \E b \in Held : Atomic!DropPkt(b)

\* The accesses of a call take effect as one step of MemPool, which the models
\* of the queues take for granted: alloc_buf pops the top of the stack and
\* free_buf pushes, in between nothing can be observed.
ImplementsMemPool == [][AtomicNext]_(Atomic!poolVars)

\* "Returns the position of a free buffer in the memory pool": no entry is in
\* packets of two threads.
BuffersAreFree ==
  \A t, u \in Thread : t # u => owned[t] \cap owned[u] = {}
=============================================================================
