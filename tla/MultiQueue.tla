----------------------------- MODULE MultiQueue -----------------------------
(***************************************************************************)
(* The lock-free rings with several producers, several consumers or both:  *)
(* MPMC-, MPSC- and SPMCArrayLockfreeQueue (lockfree_queue.h) and MPMC-,   *)
(* MPSC- and SPMCEventTypeQueue (event_type_queue.h).  A shared end claims *)
(* an index with a compare-and-swap, works on its slot, and then adds one  *)
(* to the published index of that end (max_read_index_ for producers,      *)
(* min_write_index_ for consumers); an end with one thread has no          *)
(* published index and stores its own.                                     *)
(*                                                                         *)
(* Each step is one access to shared memory, under sequential consistency; *)
(* every compare-and-swap and load is relaxed in the code, so the compiler *)
(* could allow more.  An event is named by the index it was pushed at.     *)
(***************************************************************************)
EXTENDS Integers, FiniteSets

CONSTANTS Producers, Consumers,
          Kinds,     \* the queues considered: [mp |-> ..., mc |-> ...]
          Capacity,  \* array_.size(), a power of two
          MaxPush    \* bound on the number of pushes

MultiQueueAssumption ==
         /\ IsFiniteSet(Producers) /\ IsFiniteSet(Consumers)
         /\ Producers # {} /\ Consumers # {}
         /\ Kinds \subseteq [mp : BOOLEAN, mc : BOOLEAN]
         /\ Capacity \in Nat \ {0}
         /\ MaxPush \in Nat

VARIABLES kind,             \* which queue this is: mp = several producers,
                            \* mc = several consumers; never changes
          array,            \* per slot: the index of the event in it, or -1
          read_index, write_index, max_read_index, min_write_index,
          push_pc, push_index,   \* per producer: place in push(), write_index
          push_claim,            \* ... and the index it claimed (history)
          pop_pc, pop_index,     \* per consumer: place in pop(), read_index
          pop_claim              \* ... and the index it claimed (history)

indexes == <<read_index, write_index, max_read_index, min_write_index>>
pushVars == <<push_pc, push_index, push_claim>>
popVars == <<pop_pc, pop_index, pop_claim>>
vars == <<kind, array, indexes, pushVars, popVars>>

Offset(index) == index % Capacity

(* What push() measures the room from, and pop() the events to.            *)
Freed == IF kind.mc THEN min_write_index ELSE read_index
Readable == IF kind.mp THEN max_read_index ELSE write_index

(* write_index - ... < capacity in unsigned arithmetic: with a write index *)
(* loaded before the other end moved past it the difference is huge.       *)
RoomOneTooMany(index) == index - Freed \in 0 .. Capacity  \* mutant: <=
Room(index) == index - Freed \in 0 .. Capacity - 1

(* A queue with one producer is pushed to by one thread, and so on.        *)
Pushers == IF kind.mp THEN Producers ELSE {CHOOSE p \in Producers : TRUE}
Poppers == IF kind.mc THEN Consumers ELSE {CHOOSE c \in Consumers : TRUE}

Init == /\ kind \in Kinds
        /\ array = [i \in 0 .. Capacity - 1 |-> -1]
        /\ read_index = 0 /\ write_index = 0
        /\ max_read_index = 0 /\ min_write_index = 0
        /\ push_pc = [p \in Producers |-> "idle"]
        /\ push_index = [p \in Producers |-> 0]
        /\ push_claim = [p \in Producers |-> 0]
        /\ pop_pc = [c \in Consumers |-> "idle"]
        /\ pop_index = [c \in Consumers |-> 0]
        /\ pop_claim = [c \in Consumers |-> 0]

-----------------------------------------------------------------------------
(***************************************************************************)
(* push(t).  An iteration of the spin loop that fails goes back to "idle": *)
(* the next iteration and the next call both start with the same load, so  *)
(* the number of iterations left (SPIN_LOOP_TIMES) is not kept.            *)
(***************************************************************************)
PushLoad(p) == /\ push_pc[p] = "idle"
               /\ write_index < MaxPush
               /\ push_index' = [push_index EXCEPT ![p] = write_index]
               /\ push_pc' = [push_pc EXCEPT ![p] = "test"]
               /\ UNCHANGED <<kind, array, indexes, push_claim, popVars>>

PushTest(p) ==
  /\ push_pc[p] = "test"
  /\ push_pc' = [push_pc EXCEPT ![p] = IF ~Room(push_index[p]) THEN "idle"
                                       ELSE IF kind.mp THEN "cas" ELSE "write"]
  /\ push_claim' = [push_claim EXCEPT ![p] = push_index[p]]
  /\ UNCHANGED <<kind, array, indexes, push_index, popVars>>

PushCasBlind(p) ==  \* mutant: a store in place of the compare-and-swap
  /\ push_pc[p] = "cas"
  /\ write_index' = push_index[p] + 1
  /\ push_pc' = [push_pc EXCEPT ![p] = "write"]
  /\ UNCHANGED <<kind, array, read_index, max_read_index, min_write_index,
                 push_index, push_claim, popVars>>

PushCas(p) ==
  /\ push_pc[p] = "cas"
  /\ IF write_index = push_index[p]
     THEN /\ write_index' = write_index + 1
          /\ push_pc' = [push_pc EXCEPT ![p] = "write"]
     ELSE /\ push_pc' = [push_pc EXCEPT ![p] = "idle"]
          /\ UNCHANGED write_index
  /\ UNCHANGED <<kind, array, read_index, max_read_index, min_write_index,
                 push_index, push_claim, popVars>>

PushWrite(p) == /\ push_pc[p] = "write"
                /\ array' = [array EXCEPT ![Offset(push_index[p])] = push_claim[p]]
                /\ push_pc' = [push_pc EXCEPT ![p] = "publish"]
                /\ UNCHANGED <<kind, indexes, push_index, push_claim, popVars>>

(***************************************************************************)
(* while (!max_read_index_.compare_exchange_weak(write_index,              *)
(* write_index + 1)): a failure stores the value found into the local      *)
(* write_index, and the next try adds one to that value.                   *)
(***************************************************************************)
PushPublish(p) ==
  /\ push_pc[p] = "publish" /\ kind.mp
  /\ IF max_read_index = push_index[p]
     THEN /\ max_read_index' = max_read_index + 1
          /\ push_pc' = [push_pc EXCEPT ![p] = "idle"]
          /\ UNCHANGED push_index
     ELSE /\ push_index' = [push_index EXCEPT ![p] = max_read_index]
          /\ UNCHANGED <<push_pc, max_read_index>>
  /\ UNCHANGED <<kind, array, read_index, write_index, min_write_index,
                 push_claim, popVars>>

(* The only producer stores write_index_.                                  *)
PushStore(p) == /\ push_pc[p] = "publish" /\ ~kind.mp
                /\ write_index' = push_index[p] + 1
                /\ push_pc' = [push_pc EXCEPT ![p] = "idle"]
                /\ UNCHANGED <<kind, array, read_index, max_read_index,
                               min_write_index, push_index, push_claim, popVars>>

-----------------------------------------------------------------------------
(* pop(handler).                                                           *)
PopLoad(c) == /\ pop_pc[c] = "idle"
              /\ pop_index' = [pop_index EXCEPT ![c] = read_index]
              /\ pop_pc' = [pop_pc EXCEPT ![c] = "test"]
              /\ UNCHANGED <<kind, array, indexes, pop_claim, pushVars>>

PopTest(c) ==
  /\ pop_pc[c] = "test"
  /\ pop_pc' = [pop_pc EXCEPT ![c] = IF Readable <= pop_index[c] THEN "idle"
                                     ELSE IF kind.mc THEN "cas" ELSE "handle"]
  /\ pop_claim' = [pop_claim EXCEPT ![c] = pop_index[c]]
  /\ UNCHANGED <<kind, array, indexes, pop_index, pushVars>>

PopCas(c) ==
  /\ pop_pc[c] = "cas"
  /\ IF read_index = pop_index[c]
     THEN /\ read_index' = read_index + 1
          /\ pop_pc' = [pop_pc EXCEPT ![c] = "handle"]
     ELSE /\ pop_pc' = [pop_pc EXCEPT ![c] = "idle"]
          /\ UNCHANGED read_index
  /\ UNCHANGED <<kind, array, write_index, max_read_index, min_write_index,
                 pop_index, pop_claim, pushVars>>

(* The handler, which reads slot Offset(pop_claim[c]), returns.            *)
PopHandled(c) == /\ pop_pc[c] = "handle"
                 /\ pop_pc' = [pop_pc EXCEPT ![c] = "publish"]
                 /\ UNCHANGED <<kind, array, indexes, pop_index, pop_claim, pushVars>>

PopPublish(c) ==
  /\ pop_pc[c] = "publish" /\ kind.mc
  /\ IF min_write_index = pop_index[c]
     THEN /\ min_write_index' = min_write_index + 1
          /\ pop_pc' = [pop_pc EXCEPT ![c] = "idle"]
          /\ UNCHANGED pop_index
     ELSE /\ pop_index' = [pop_index EXCEPT ![c] = min_write_index]
          /\ UNCHANGED <<pop_pc, min_write_index>>
  /\ UNCHANGED <<kind, array, read_index, write_index, max_read_index,
                 pop_claim, pushVars>>

(* The only consumer stores read_index_.                                   *)
PopStore(c) == /\ pop_pc[c] = "publish" /\ ~kind.mc
               /\ read_index' = pop_index[c] + 1
               /\ pop_pc' = [pop_pc EXCEPT ![c] = "idle"]
               /\ UNCHANGED <<kind, array, write_index, max_read_index,
                              min_write_index, pop_index, pop_claim, pushVars>>

Push(p) == \/ PushLoad(p) \/ PushTest(p) \/ PushCas(p)
           \/ PushWrite(p) \/ PushPublish(p) \/ PushStore(p)
Pop(c) == \/ PopLoad(c) \/ PopTest(c) \/ PopCas(c)
          \/ PopHandled(c) \/ PopPublish(c) \/ PopStore(c)

Next == (\E p \in Pushers : Push(p)) \/ (\E c \in Poppers : Pop(c))

Spec == Init /\ [][Next]_vars

-----------------------------------------------------------------------------
TypeOK == /\ kind \in Kinds
          /\ array \in [0 .. Capacity - 1 -> Int]
          /\ read_index \in Nat /\ write_index \in Nat
          /\ max_read_index \in Nat /\ min_write_index \in Nat
          /\ push_pc \in [Producers -> {"idle", "test", "cas", "write", "publish"}]
          /\ push_index \in [Producers -> Nat]
          /\ push_claim \in [Producers -> Nat]
          /\ pop_pc \in [Consumers -> {"idle", "test", "cas", "handle", "publish"}]
          /\ pop_index \in [Consumers -> Nat]
          /\ pop_claim \in [Consumers -> Nat]

(* However the threads of both ends interleave, reading never overtakes    *)
(* what is published, writing never goes a whole round past what is freed, *)
(* so size() is at most capacity() and no end can lap the other.           *)
IndexChain == /\ TypeOK
              /\ Freed <= read_index
              /\ read_index <= Readable
              /\ Readable <= write_index
              /\ write_index <= Freed + Capacity

Writing == { p \in Producers : push_pc[p] \in {"write", "publish"} }
Reading == { c \in Consumers : pop_pc[c] \in {"handle", "publish"} }

(* The published index of a shared end lags its claimed index by exactly   *)
(* the calls in progress, which hold different indexes: when all calls     *)
(* have returned no slot stays unpublished and none stays occupied,        *)
(* although a call may publish in another one's place.                     *)
ClaimsAccounted ==
  /\ kind.mp => /\ write_index - max_read_index = Cardinality(Writing)
                /\ \A p, q \in Writing : p # q => push_claim[p] # push_claim[q]
  /\ kind.mc => /\ read_index - min_write_index = Cardinality(Reading)
                /\ \A c, d \in Reading : c # d => pop_claim[c] # pop_claim[d]

(* The indexes of a queue with a shared end never pass or lap each other,  *)
(* and the published one lags the claimed one by the calls in progress.    *)
IndexesAgree == IndexChain /\ ClaimsAccounted

(* One producer, several consumers: every event that no consumer has       *)
(* claimed is in its slot, whatever the consumers before it are doing.     *)
UnclaimedIntact ==
  ~kind.mp => \A i \in read_index .. write_index - 1 : array[Offset(i)] = i

(* A handler runs on the event that was pushed at the index it claimed.    *)
(* The comments at max_read_index_ ("updated once the write is complete")  *)
(* and in push() ("publish the position of the data just written") say so; *)
(* a push that publishes another push's index breaks it.                   *)
HandlerSeesOwnEvent ==
  \A c \in Consumers : pop_pc[c] = "handle" => array[Offset(pop_claim[c])] = pop_claim[c]
=============================================================================
