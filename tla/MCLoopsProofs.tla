--------------------------- MODULE MCLoopsProofs ---------------------------
(***************************************************************************)
(* Proofs about the SelectEventLoop: SetsAgree, NeverFreed and             *)
(* SleepsWhenIdle for any number of handlers, of descriptors and of calls, *)
(* from the inductive invariant LoopInv.  An operation that waits in       *)
(* temp_handlers_standby_ is what ties handlers_, which only the loop      *)
(* changes, to the registration, which any thread changes at once.         *)
(***************************************************************************)
EXTENDS MCLoops, WellFoundedInduction, FiniteSetTheorems, TLAPS

(* What the variables hold.  Nothing more is promised once emplace() has   *)
(* dropped an operation, and the steps end there: the parts that say       *)
(* ~clash hold until then.                                                 *)
Rows == [fd : Select!Fds \cup {0}, in_loop : BOOLEAN, mask : SUBSET {"read", "write"},
         pooled : BOOLEAN, connecting : BOOLEAN]

LoopStates == [pc : {"copy", "apply", "select", "handle", "written", "end"},
               todo : SUBSET Select!All, ready : Nat, current : Select!All]
SockStates == {"closed", "connecting", "quiet", "data", "broken", "event"}

SelectTypes ==
  /\ caller \in {"loop", "user"}
  /\ read \in SUBSET Select!Fds /\ write \in SUBSET Select!Fds
  /\ max_fd \in Select!Fds
  /\ out \in [read : SUBSET Select!Fds, write : SUBSET Select!Fds]
  /\ h \in [Select!All -> Rows]
  /\ DOMAIN standby \subseteq Select!All /\ DOMAIN active \subseteq Select!All
  /\ standby \in [DOMAIN standby -> Select!Ops]
  /\ active \in [DOMAIN active -> Select!Ops]
  /\ handlers \in SUBSET Select!All
  /\ select_loop \in LoopStates
  /\ wakeup_flag \in BOOLEAN /\ notified \in BOOLEAN /\ wake \in BOOLEAN
  /\ sock \in [Select!Fds -> SockStates]
  /\ clash \in BOOLEAN

(* wakeup_handler_ stays registered for READ.                              *)
WakeupInv ==
  /\ h[0] = [fd |-> 1, in_loop |-> TRUE, mask |-> {"read"}, pooled |-> FALSE,
             connecting |-> FALSE]
  /\ sock[1] = "event"

(* The loop goes through handlers_, which holds no handler that is back in *)
(* its pool.                                                               *)
RoundInv ==
  /\ \A x \in Select!All : h[x].pooled => x \notin handlers
  /\ select_loop.pc \in {"handle", "written"} => select_loop.todo \subseteq handlers
  /\ select_loop.pc = "written" =>
       select_loop.current \in handlers /\ select_loop.ready > 0

(* Each handler has a descriptor of its own, open while it has it, and a   *)
(* mask that goes with being registered.                                   *)
DescriptorInv ==
  /\ \A x \in Select!All : h[x].fd # 0 => sock[h[x].fd] # "closed"
  /\ \A x, y \in Select!All : h[x].fd = h[y].fd /\ h[x].fd # 0 => x = y
  /\ \A x \in Select!All :
       /\ h[x].in_loop => h[x].fd # 0
       /\ ~h[x].in_loop => h[x].mask = {}
       /\ h[x].in_loop => "read" \in h[x].mask \/ "write" \in h[x].mask
       /\ h[x].in_loop /\ h[x].connecting => h[x].mask = {"write"}
       /\ h[x].in_loop /\ ~h[x].connecting => "read" \in h[x].mask

(* The descriptor sets are those of the masks, max_fd_ is above them.      *)
SetsInv ==
  ~clash =>
    /\ \A f \in Select!Fds : f \in read <=>
         \E x \in Select!All : h[x].fd = f /\ "read" \in h[x].mask
    /\ \A f \in Select!Fds : f \in write <=>
         \E x \in Select!All : h[x].fd = f /\ "write" \in h[x].mask
    /\ read_size = Cardinality(read) /\ write_size = Cardinality(write)
    /\ \A f \in read \cup write : f <= max_fd

(* The operations that wait: whether x will be in handlers_ when they are  *)
(* applied, and whether it waits to be deleted.                            *)
Stays(x) == \/ x \in DOMAIN standby /\ standby[x] = "ADD"
            \/ /\ x \notin DOMAIN standby
               /\ x \in DOMAIN active /\ active[x] = "ADD"
            \/ x \notin DOMAIN standby /\ x \notin DOMAIN active /\ x \in handlers
Dels(x) == \/ x \in DOMAIN standby /\ standby[x] = "DEL"
           \/ x \in DOMAIN active /\ active[x] = "DEL"
OpsInv ==
  ~clash =>
    /\ \A x \in Select!All : h[x].in_loop <=> Stays(x)
    /\ \A x \in Select!All :
         h[x].pooled => /\ h[x].fd = 0 /\ ~h[x].in_loop
                        /\ x \notin DOMAIN standby /\ x \notin DOMAIN active
    /\ deleted \in SUBSET Select!All
    /\ \A x \in Select!All : x \in deleted <=> Dels(x)
    /\ \A x \in deleted : ~h[x].in_loop
    /\ \A x \in DOMAIN active : active[x] = "DEL" => x \notin DOMAIN standby
    /\ select_loop.pc # "apply" => DOMAIN active = {}

(* Nobody sleeps on an operation: before select() either wakeup_flag_ is   *)
(* set, so that whoever comes wakes the loop, or it is woken already.      *)
WakingInv ==
  ~clash =>
    /\ select_loop.pc \in {"copy", "apply", "select"} => wakeup_flag \/ notified
    /\ select_loop.pc \in {"apply", "select"} =>
         \A x \in DOMAIN standby : standby[x] # "REMOVE" => notified \/ wake

(* What the loop has copied has every bit of every registered handler,     *)
(* except for those whose addition waits and for the events added since.   *)
CopiedInv ==
  ~clash /\ select_loop.pc \in {"apply", "select"} =>
    /\ 1 \in out.read
    /\ \A x \in Select!All :
         h[x].in_loop =>
           \/ x \in DOMAIN standby /\ standby[x] = "ADD"
           \/ /\ "read" \in h[x].mask => h[x].fd \in out.read
              /\ "write" \in h[x].mask => x \in unseen \/ h[x].fd \in out.write

LoopInv == /\ SelectTypes /\ WakeupInv /\ RoundInv /\ DescriptorInv
           /\ SetsInv /\ OpsInv /\ WakingInv /\ CopiedInv

-----------------------------------------------------------------------------
(* A set of numbers has a least one, so Min of it is that one.             *)
Less == {ss \in Nat \X Nat : ss[1] < ss[2]}

LEMMA LessWF == IsWellFoundedOn(Less, Nat)
BY NatLessThanWellFounded DEF OpToRel, Less

LEMMA LeastExists ==
  ASSUME NEW T, T \subseteq Nat, T # {}
  PROVE  \E n \in T : \A m \in T : n <= m
<1>1. PICK n \in T : \A m \in T : ~(<<m, n>> \in Less)
  BY LessWF, WFMin
<1>2. \A m \in T : m < n => <<m, n>> \in Less
  BY DEF Less
<1>3. \A m \in T : n <= m
  <2> TAKE m \in T
  <2>1. ~(m < n)
    BY <1>1, <1>2
  <2> QED BY <2>1
<1> QED BY <1>3

LEMMA Least ==
  ASSUME NEW T, T \subseteq Nat, T # {}
  PROVE  Select!Min(T) \in T
BY LeastExists DEF Select!Min

(* A function after one of its values has changed.                         *)
LEMMA Changed ==
  ASSUME NEW S, NEW R, NEW a \in [S -> R], NEW x \in S, NEW r \in R,
         NEW b, b = [a EXCEPT ![x] = r]
  PROVE  b \in [S -> R] /\ b[x] = r /\ \A y \in S : y # x => b[y] = a[y]
OBVIOUS

(* The members of a handler, after some of them have changed.              *)
LEMMA RowUnregistered ==
  ASSUME NEW r \in Rows
  PROVE  LET s == [r EXCEPT !.in_loop = FALSE, !.mask = {}]
         IN  /\ s \in Rows /\ s.fd = r.fd /\ s.in_loop = FALSE /\ s.mask = {}
             /\ s.pooled = r.pooled /\ s.connecting = r.connecting
BY DEF Rows

LEMMA RowFreed ==
  ASSUME NEW r \in Rows
  PROVE  LET s == [r EXCEPT !.fd = 0, !.pooled = TRUE]
         IN  /\ s \in Rows /\ s.fd = 0 /\ s.in_loop = r.in_loop /\ s.mask = r.mask
             /\ s.pooled = TRUE /\ s.connecting = r.connecting
BY DEF Rows

LEMMA RowMask ==
  ASSUME NEW r \in Rows, NEW m \in SUBSET {"read", "write"}
  PROVE  LET s == [r EXCEPT !.mask = m]
         IN  /\ s \in Rows /\ s.fd = r.fd /\ s.in_loop = r.in_loop /\ s.mask = m
             /\ s.pooled = r.pooled /\ s.connecting = r.connecting
BY DEF Rows

LEMMA RowConnected ==
  ASSUME NEW r \in Rows, NEW m \in SUBSET {"read", "write"}
  PROVE  LET s == [r EXCEPT !.mask = m, !.connecting = FALSE]
         IN  /\ s \in Rows /\ s.fd = r.fd /\ s.in_loop = r.in_loop /\ s.mask = m
             /\ s.pooled = r.pooled /\ s.connecting = FALSE
BY DEF Rows

LEMMA RowClosed ==
  ASSUME NEW r \in Rows
  PROVE  LET s == [r EXCEPT !.fd = 0]
         IN  /\ s \in Rows /\ s.fd = 0 /\ s.in_loop = r.in_loop /\ s.mask = r.mask
             /\ s.pooled = r.pooled /\ s.connecting = r.connecting
BY DEF Rows

(* The sizes of sets of descriptors and of masks.                          *)
LEMMA OneMore ==
  ASSUME NEW S \in SUBSET Select!Fds, NEW f \in Select!Fds, Select!SelectAssumption
  PROVE  /\ Cardinality(S) \in Nat
         /\ f \notin S => Cardinality(S \cup {f}) = Cardinality(S) + 1
         /\ f \in S => Cardinality(S \ {f}) = Cardinality(S) - 1
         /\ f \in S => S \cup {f} = S
         /\ f \notin S => S \ {f} = S
<1>1. IsFiniteSet(Select!Fds)
  BY FS_Interval DEF Select!Fds, Select!SelectAssumption
<1>2. IsFiniteSet(S)
  BY <1>1, FS_Subset
<1> QED BY <1>2, FS_AddElement, FS_RemoveElement, FS_CardinalityType

LEMMA SameCardinality == \A S : Select!Cardinality(S) = Cardinality(S)
BY DEF Select!Cardinality, Cardinality

LEMMA Bit ==
  ASSUME NEW M, NEW e
  PROVE  Cardinality(M \cap {e}) = IF e \in M THEN 1 ELSE 0
<1>1. CASE e \in M
  <2> M \cap {e} = {e} BY <1>1
  <2> QED BY <1>1, FS_Singleton
<1>2. CASE e \notin M
  <2> M \cap {e} = {} BY <1>2
  <2> QED BY <1>2, FS_EmptySet
<1> QED BY <1>1, <1>2

(* What emplace() leaves.                                                  *)
LEMMA EmplaceEffects ==
  ASSUME SelectTypes, ~clash, NEW x \in Select!All, NEW op \in Select!Ops,
         Select!Emplace(x, op)
  PROVE  /\ DOMAIN standby' \subseteq Select!All
         /\ standby' \in [DOMAIN standby' -> Select!Ops]
         /\ clash' \in BOOLEAN
         /\ ~clash' => /\ x \notin DOMAIN standby
                       /\ DOMAIN standby' = DOMAIN standby \cup {x}
                       /\ standby'[x] = op
                       /\ \A y \in DOMAIN standby : standby'[y] = standby[y]
<1>1. CASE x \in DOMAIN standby
  BY <1>1 DEF SelectTypes, Select!Emplace
<1>2. CASE x \notin DOMAIN standby
  <2>1. standby' = [y \in DOMAIN standby \cup {x} |->
                      IF y = x THEN op ELSE standby[y]] /\ clash' = clash
    BY <1>2 DEF Select!Emplace
  <2>2. \A y \in DOMAIN standby : standby[y] \in Select!Ops
    BY DEF SelectTypes
  <2>3. DOMAIN standby' = DOMAIN standby \cup {x}
    BY <2>1
  <2>4. standby'[x] = op /\ \A y \in DOMAIN standby : standby'[y] = standby[y]
    BY <2>1, <1>2
  <2>5. standby' \in [DOMAIN standby' -> Select!Ops]
    BY <2>1, <2>2, <2>3
  <2> QED BY <1>2, <2>1, <2>3, <2>4, <2>5 DEF SelectTypes
<1> QED BY <1>1, <1>2

(* What the unregistering leaves: the sets without the handler's bits.     *)
LEMMA UnregisterEffects ==
  ASSUME Select!SelectAssumption, LoopInv, ~clash,
         NEW x \in Handlers, h[x].in_loop, Select!Unregister(x)
  PROVE  /\ h' \in [Select!All -> Rows]
         /\ h'[x].fd = h[x].fd /\ h'[x].in_loop = FALSE /\ h'[x].mask = {}
         /\ h'[x].pooled = h[x].pooled /\ h'[x].connecting = h[x].connecting
         /\ \A y \in Select!All : y # x => h'[y] = h[y]
         /\ read' \in SUBSET Select!Fds /\ write' \in SUBSET Select!Fds
         /\ max_fd' \in Select!Fds
         /\ \A y \in read' \cup write' : y <= max_fd'
         /\ \A f \in Select!Fds : f \in read' <=> f \in read /\ f # h[x].fd
         /\ \A f \in Select!Fds : f \in write' <=> f \in write /\ f # h[x].fd
         /\ read_size' = Cardinality(read') /\ write_size' = Cardinality(write')
<1> DEFINE fd == h[x].fd
<1>0. /\ x \in Select!All /\ x # 0 /\ 0 \in Select!All
      /\ h \in [Select!All -> Rows] /\ h[x] \in Rows
  BY DEF LoopInv, SelectTypes, Select!All, Select!Wakeup, Select!SelectAssumption
<1>1. fd \in Select!Fds /\ fd # 0 /\ fd # 1
  <2>1. fd # 0 /\ fd \in Select!Fds \cup {0}
    BY <1>0 DEF LoopInv, DescriptorInv, Rows
  <2>2. h[0].fd = 1
    BY DEF LoopInv, WakeupInv
  <2> QED BY <2>1, <2>2, <1>0 DEF LoopInv, DescriptorInv
<1>2. h' = [h EXCEPT ![x] = [h[x] EXCEPT !.in_loop = FALSE, !.mask = {}]]
  BY DEF Select!Unregister
<1>3. /\ h' \in [Select!All -> Rows]
      /\ h'[x] = [h[x] EXCEPT !.in_loop = FALSE, !.mask = {}]
      /\ \A y \in Select!All : y # x => h'[y] = h[y]
  BY <1>0, <1>2, Changed, RowUnregistered
<1>4. /\ h'[x].fd = h[x].fd /\ h'[x].in_loop = FALSE /\ h'[x].mask = {}
      /\ h'[x].pooled = h[x].pooled /\ h'[x].connecting = h[x].connecting
  BY <1>0, <1>3, RowUnregistered, ZenonT(60)
<1>5. /\ read \in SUBSET Select!Fds /\ write \in SUBSET Select!Fds
      /\ read_size = Cardinality(read) /\ write_size = Cardinality(write)
      /\ max_fd \in Select!Fds /\ \A y \in read \cup write : y <= max_fd
      /\ fd \in read <=> "read" \in h[x].mask
      /\ fd \in write <=> "write" \in h[x].mask
      /\ 1 \in read
  <2>1. \A y \in Select!All : h[y].fd = fd => y = x
    BY <1>0, <1>1 DEF LoopInv, DescriptorInv
  <2>2. /\ fd \in read <=> \E y \in Select!All : h[y].fd = fd /\ "read" \in h[y].mask
        /\ fd \in write <=>
             \E y \in Select!All : h[y].fd = fd /\ "write" \in h[y].mask
    BY <1>1 DEF LoopInv, SetsInv
  <2>3. h[0].fd = 1 /\ h[0].mask = {"read"} /\ 1 \in Select!Fds
    BY DEF LoopInv, WakeupInv, Select!Fds, Select!SelectAssumption
  <2>4. 1 \in read
    BY <2>3, <1>0 DEF LoopInv, SetsInv
  <2> QED BY <2>1, <2>2, <2>4, <1>0 DEF LoopInv, SelectTypes, SetsInv
<1>6. read' = read \ {fd} /\ write' = write \ {fd}
  BY <1>5 DEF Select!Unregister
<1>7. read_size' = Cardinality(read')
  <2>1. read_size' = read_size - Cardinality(h[x].mask \cap {"read"})
    BY SameCardinality DEF Select!Unregister
  <2>2. /\ fd \in read => Cardinality(h[x].mask \cap {"read"}) = 1
        /\ fd \notin read => Cardinality(h[x].mask \cap {"read"}) = 0
    BY <1>5, Bit
  <2>3. /\ Cardinality(read) \in Nat
        /\ fd \in read => Cardinality(read \ {fd}) = Cardinality(read) - 1
        /\ fd \notin read => read \ {fd} = read
    BY <1>1, <1>5, OneMore
  <2>4. CASE fd \in read
    BY <2>1, <2>2, <2>3, <2>4, <1>5, <1>6
  <2>5. CASE fd \notin read
    <3>1. read' = read
      BY <2>3, <2>5, <1>6
    <3>2. read_size' = read_size
      BY <2>1, <2>2, <2>3, <2>5, <1>5
    <3> QED BY <3>1, <3>2, <1>5
  <2> QED BY <2>4, <2>5
<1>8. write_size' = Cardinality(write')
  <2>1. write_size' = write_size - Cardinality(h[x].mask \cap {"write"})
    BY SameCardinality DEF Select!Unregister
  <2>2. /\ fd \in write => Cardinality(h[x].mask \cap {"write"}) = 1
        /\ fd \notin write => Cardinality(h[x].mask \cap {"write"}) = 0
    BY <1>5, Bit
  <2>3. /\ Cardinality(write) \in Nat
        /\ fd \in write => Cardinality(write \ {fd}) = Cardinality(write) - 1
        /\ fd \notin write => write \ {fd} = write
    BY <1>1, <1>5, OneMore
  <2>4. CASE fd \in write
    BY <2>1, <2>2, <2>3, <2>4, <1>5, <1>6
  <2>5. CASE fd \notin write
    <3>1. write' = write
      BY <2>3, <2>5, <1>6
    <3>2. write_size' = write_size
      BY <2>1, <2>2, <2>3, <2>5, <1>5
    <3> QED BY <3>1, <3>2, <1>5
  <2> QED BY <2>4, <2>5
<1>9. max_fd' \in Select!Fds /\ \A y \in read' \cup write' : y <= max_fd'
  <2>1. max_fd' = IF max_fd = fd THEN max_fd - 1 ELSE max_fd
    BY DEF Select!Unregister
  <2>2. \A y \in Select!Fds : y \in Nat
    BY DEF Select!Fds
  <2>3. 1 \in read' /\ 1 \in Select!Fds
    BY <1>1, <1>5, <1>6
  <2>4. \A y \in read' \cup write' : y <= max_fd /\ y # fd /\ y \in Nat
    BY <1>5, <1>6, <2>2
  <2>5. CASE max_fd = fd
    <3>1. max_fd' = max_fd - 1 /\ max_fd \in Nat
      BY <2>1, <2>2, <2>5, <1>5
    <3>2. \A y \in read' \cup write' : y <= max_fd - 1
      BY <2>4, <2>5, <3>1
    <3>3. 1 <= max_fd - 1
      BY <3>2, <2>3
    <3>4. max_fd - 1 \in Select!Fds
      BY <3>1, <3>3, <1>5 DEF Select!Fds, Select!SelectAssumption
    <3> QED BY <3>1, <3>2, <3>4
  <2>6. CASE max_fd # fd
    BY <2>1, <2>4, <2>6, <1>5
  <2> QED BY <2>5, <2>6
<1> QED BY <1>3, <1>4, <1>5, <1>6, <1>7, <1>8, <1>9

(* Where the loop is when it is about to call a handler.                   *)
LEMMA AtHandler ==
  ASSUME LoopInv, NEW x \in Select!All, Select!AtRead(x) \/ Select!AtWrite(x)
         \/ Select!PastRead(x)
  PROVE  /\ select_loop.pc \in {"handle", "written"} /\ select_loop.ready > 0
         /\ select_loop.todo \subseteq handlers /\ x \in handlers
BY DEF LoopInv, RoundInv, Select!AtRead, Select!AtWrite, Select!PastRead,
       Select!IsNext

(* Where it is after that.                                                 *)
LEMMA ProceedEffects ==
  ASSUME SelectTypes, NEW x \in Select!All, NEW pc \in {"handle", "written"},
         select_loop.ready > 0, select_loop.todo \subseteq handlers,
         Select!SelectAssumption, select_loop' = Select!Proceed(x, pc)
  PROVE  /\ select_loop' \in LoopStates
         /\ select_loop'.pc \in {"handle", "written", "end"}
         /\ select_loop'.todo \subseteq handlers
         /\ select_loop'.pc = "written" => /\ select_loop'.current = x
                                           /\ select_loop'.ready > 0
<1>1. /\ select_loop.todo \in SUBSET Select!All /\ select_loop.ready \in Nat
      /\ 0 \in Select!All
  BY DEF SelectTypes, LoopStates, Select!All, Select!Wakeup
<1>2. CASE select_loop.ready = 1
  BY <1>1, <1>2 DEF Select!Proceed, LoopStates, Select!None
<1>3. CASE select_loop.ready # 1
  <2>1. select_loop.ready - 1 \in Nat /\ select_loop.ready - 1 > 0
    BY <1>1, <1>3
  <2>2. select_loop' = [pc |-> pc, todo |-> select_loop.todo \ {x},
                        ready |-> select_loop.ready - 1,
                        current |-> IF pc = "written" THEN x ELSE 0]
    BY <1>3 DEF Select!Proceed, Select!None
  <2> QED BY <1>1, <2>1, <2>2 DEF LoopStates
<1> QED BY <1>2, <1>3

-----------------------------------------------------------------------------
(* A part holds on while the variables it speaks of stay the same.         *)
LEMMA SelectTypesFrame == SelectTypes
    /\ UNCHANGED <<caller, read, write, max_fd, out, h, standby, active, handlers,
    select_loop, wakeup_flag, notified, wake, sock, clash>> => SelectTypes'
BY DEF SelectTypes, Rows, LoopStates, SockStates

LEMMA WakeupInvFrame == WakeupInv /\ UNCHANGED <<h, sock>> => WakeupInv'
BY DEF WakeupInv

LEMMA RoundInvFrame == RoundInv /\ UNCHANGED <<h, handlers, select_loop>> => RoundInv'
BY DEF RoundInv

LEMMA DescriptorInvFrame == DescriptorInv /\ UNCHANGED <<h, sock>> => DescriptorInv'
BY DEF DescriptorInv

LEMMA SetsInvFrame == SetsInv
    /\ UNCHANGED <<clash, h, read, write, read_size, write_size, max_fd>> =>
    SetsInv'
BY DEF SetsInv

LEMMA OpsInvFrame == OpsInv
    /\ UNCHANGED <<clash, h, standby, active, handlers, deleted, select_loop>> =>
    OpsInv'
BY DEF OpsInv, Dels, Stays

LEMMA WakingInvFrame == WakingInv
    /\ UNCHANGED <<clash, select_loop, wakeup_flag, notified, standby, wake>> =>
    WakingInv'
BY DEF WakingInv

LEMMA CopiedInvFrame == CopiedInv
    /\ UNCHANGED <<clash, select_loop, out, h, standby, unseen>> => CopiedInv'
BY DEF CopiedInv

-----------------------------------------------------------------------------
(* One lemma per step: the network's, the calls', the loop's.              *)
LEMMA ChangeKeeps ==
  ASSUME Select!SelectAssumption, LoopInv, ~clash,
         NEW f \in Select!Fds \ {1}, NEW from \in {"quiet", "connecting"},
         NEW to \in {"quiet", "data", "broken"}, Select!Change(f, from, to)
  PROVE  LoopInv'
<1>1. SelectTypes'
  BY DEF LoopInv, SelectTypes, Rows, LoopStates, SockStates, Select!Ops,
         Select!All, Select!Change, Select!fd_sets, Select!waking
<1>2. WakeupInv'
  BY DEF LoopInv, SelectTypes, Rows, LoopStates, SockStates, Select!Ops,
         Select!All, WakeupInv, Select!Change, Select!fd_sets, Select!waking
<1>3. RoundInv'
  BY RoundInvFrame DEF LoopInv, Select!Change, Select!fd_sets, Select!waking
<1>4. DescriptorInv'
  BY DEF LoopInv, SelectTypes, Rows, LoopStates, SockStates, Select!Ops,
         Select!All, DescriptorInv, Select!Change, Select!fd_sets, Select!waking
<1>5. SetsInv'
  BY SetsInvFrame DEF LoopInv, Select!Change, Select!fd_sets, Select!waking
<1>6. OpsInv'
  BY OpsInvFrame DEF LoopInv, Select!Change, Select!fd_sets, Select!waking
<1>7. WakingInv'
  BY WakingInvFrame DEF LoopInv, Select!Change, Select!fd_sets, Select!waking
<1>8. CopiedInv'
  BY CopiedInvFrame DEF LoopInv, Select!Change, Select!fd_sets, Select!waking
<1> QED BY <1>1, <1>2, <1>3, <1>4, <1>5, <1>6, <1>7, <1>8 DEF LoopInv

LEMMA LoopWakeupKeeps ==
  ASSUME Select!SelectAssumption, LoopInv, ~clash,
         Select!LoopWakeup
  PROVE  LoopInv'
<1>1. SelectTypes'
  BY DEF LoopInv, SelectTypes, Rows, LoopStates, SockStates, Select!Ops,
         Select!All, Select!LoopWakeup, Select!Notify, Select!fd_sets
<1>2. WakeupInv'
  BY WakeupInvFrame DEF LoopInv, Select!LoopWakeup, Select!Notify, Select!fd_sets
<1>3. RoundInv'
  BY RoundInvFrame DEF LoopInv, Select!LoopWakeup, Select!Notify, Select!fd_sets
<1>4. DescriptorInv'
  BY DescriptorInvFrame DEF LoopInv, Select!LoopWakeup, Select!Notify, Select!fd_sets
<1>5. SetsInv'
  BY SetsInvFrame DEF LoopInv, Select!LoopWakeup, Select!Notify, Select!fd_sets
<1>6. OpsInv'
  BY OpsInvFrame DEF LoopInv, Select!LoopWakeup, Select!Notify, Select!fd_sets
<1>7. WakingInv'
  BY DEF LoopInv, SelectTypes, Rows, LoopStates, SockStates, Select!Ops,
         Select!All, WakingInv, Select!LoopWakeup, Select!Notify, Select!fd_sets
<1>8. CopiedInv'
  BY CopiedInvFrame DEF LoopInv, Select!LoopWakeup, Select!Notify, Select!fd_sets
<1> QED BY <1>1, <1>2, <1>3, <1>4, <1>5, <1>6, <1>7, <1>8 DEF LoopInv

LEMMA AddHandlerKeeps ==
  ASSUME Select!SelectAssumption, LoopInv, ~clash,
         NEW x \in Handlers, NEW events \in {{"read"}, {"write"}},
           Select!AddHandler(x, events)
  PROVE  LoopInv'
<1>0. /\ x \in Select!All /\ x # 0 /\ 0 \in Select!All
      /\ h \in [Select!All -> Rows] /\ h[x].fd = 0 /\ h[x].in_loop = FALSE
      /\ x \notin deleted
      /\ \E g \in Select!Fds : sock[g] = "closed"
  BY DEF LoopInv, SelectTypes, Rows, Select!All, Select!Wakeup,
         Select!SelectAssumption,
         Select!AddHandler, Select!MayAdd, Select!None
<1>a. PICK f \in Select!Fds :
             /\ f = Select!Min({ g \in Select!Fds : sock[g] = "closed" })
             /\ sock[f] = "closed"
  BY <1>0, Least DEF Select!Fds
<1>b. /\ sock' = [sock EXCEPT ![f] = IF events = {"write"} THEN "connecting"
                                     ELSE "quiet"]
      /\ read' = IF "read" \in events THEN read \cup {f} ELSE read
      /\ write' = IF "write" \in events THEN write \cup {f} ELSE write
      /\ max_fd' = IF max_fd < f THEN f ELSE max_fd
      /\ h' = [h EXCEPT ![x] = [fd |-> f, in_loop |-> TRUE, mask |-> events,
                                pooled |-> FALSE, connecting |-> events = {"write"}]]
  BY <1>a DEF Select!AddHandler, Select!Raised
<1>c. /\ h' \in [Select!All -> Rows]
      /\ h'[x].fd = f /\ h'[x].in_loop = TRUE /\ h'[x].mask = events
      /\ h'[x].pooled = FALSE /\ h'[x].connecting = (events = {"write"})
      /\ \A y \in Select!All : y # x => h'[y] = h[y]
  <2> DEFINE r == [fd |-> f, in_loop |-> TRUE, mask |-> events,
                   pooled |-> FALSE, connecting |-> events = {"write"}]
  <2>1. (events = {"write"}) \in BOOLEAN
    OBVIOUS
  <2>2. r \in Rows
    BY <2>1 DEF Rows
  <2>3. h' \in [Select!All -> Rows] /\ h'[x] = r
        /\ \A y \in Select!All : y # x => h'[y] = h[y]
    BY <2>2, <1>0, <1>b, Changed
  <2> QED BY <2>3
<1>d. /\ sock' \in [Select!Fds -> SockStates] /\ sock'[f] # "closed"
      /\ \A g \in Select!Fds : g # f => sock'[g] = sock[g]
  BY <1>b DEF LoopInv, SelectTypes, SockStates
<1>e. /\ DOMAIN standby' \subseteq Select!All
      /\ standby' \in [DOMAIN standby' -> Select!Ops]
      /\ clash' \in BOOLEAN
      /\ ~clash' => /\ x \notin DOMAIN standby
                    /\ DOMAIN standby' = DOMAIN standby \cup {x}
                    /\ standby'[x] = "ADD"
                    /\ \A y \in DOMAIN standby : standby'[y] = standby[y]
  <2>1. "ADD" \in Select!Ops /\ Select!Emplace(x, "ADD") /\ SelectTypes
    BY DEF Select!Ops, Select!AddHandler, LoopInv
  <2> QED BY <2>1, <1>0, EmplaceEffects
<1>g. /\ \A y \in Select!All : h[y].fd # f
      /\ f # 1 /\ f # 0 /\ f \notin read /\ f \notin write
  <2>1. \A y \in Select!All : h[y].fd # f
    BY <1>a DEF LoopInv, DescriptorInv, Select!Fds
  <2>2. h[0].fd = 1
    BY DEF LoopInv, WakeupInv
  <2> QED BY <2>1, <2>2, <1>0 DEF LoopInv, SetsInv, Select!Fds
<1>1. SelectTypes'
  <2>1. wakeup_flag' \in BOOLEAN /\ notified' \in BOOLEAN /\ wake' \in BOOLEAN
    BY DEF LoopInv, SelectTypes, Select!AddHandler, Select!WakeLater, Select!Notify
  <2>2. /\ read' \in SUBSET Select!Fds /\ write' \in SUBSET Select!Fds
        /\ max_fd' \in Select!Fds
    BY <1>b DEF LoopInv, SelectTypes
  <2>3. UNCHANGED <<caller, out, active, handlers, select_loop>>
    BY DEF Select!AddHandler
  <2> QED BY <2>1, <2>2, <2>3, <1>c, <1>d, <1>e DEF LoopInv, SelectTypes
<1>2. WakeupInv'
  <2>1. h'[0] = h[0] /\ sock'[1] = sock[1]
    BY <1>0, <1>c, <1>d, <1>g DEF Select!Fds, Select!SelectAssumption
  <2> QED BY <2>1 DEF LoopInv, WakeupInv
<1>3. RoundInv'
  BY DEF LoopInv, SelectTypes, Rows, LoopStates, SockStates, Select!Ops,
         Select!All, RoundInv, Select!AddHandler, Select!Emplace, Select!WakeLater,
         Select!MayCall, Select!MayAdd, Select!Raised, Select!Notify
<1>4. DescriptorInv'
  <2>1. \A y \in Select!All : h'[y].fd # 0 => sock'[h'[y].fd] # "closed"
    BY <1>0, <1>c, <1>d, <1>g DEF LoopInv, DescriptorInv, Rows
  <2>2. \A y, z \in Select!All : h'[y].fd = h'[z].fd /\ h'[y].fd # 0 => y = z
    BY <1>0, <1>c, <1>g DEF LoopInv, DescriptorInv
  <2>3. events = {"read"} \/ events = {"write"}
    OBVIOUS
  <2> QED BY <2>1, <2>2, <2>3, <1>0, <1>c, <1>g, ZenonT(60) DEF LoopInv, DescriptorInv
<1>5. SetsInv'
  <2>0. clash' \in BOOLEAN
    BY <1>e
  <2> SUFFICES ASSUME ~clash'
               PROVE  SetsInv'
    BY DEF SetsInv
  <2>1. \A y \in Select!All : y # x => h'[y] = h[y]
    BY <1>c
  <2>2. \A g \in Select!Fds :
          g \in read' <=> \E y \in Select!All : h'[y].fd = g /\ "read" \in h'[y].mask
    <3> TAKE g \in Select!Fds
    <3>1. g \in read' <=> g \in read \/ (g = f /\ "read" \in events)
      BY <1>b
    <3>2. g \in read <=> \E y \in Select!All : h[y].fd = g /\ "read" \in h[y].mask
      BY DEF LoopInv, SetsInv
    <3>3. h[x].mask = {}
      BY <1>0 DEF LoopInv, DescriptorInv
    <3> QED BY <3>1, <3>2, <3>3, <2>1, <1>0, <1>c, <1>g
  <2>3. \A g \in Select!Fds :
          g \in write' <=>
            \E y \in Select!All : h'[y].fd = g /\ "write" \in h'[y].mask
    <3> TAKE g \in Select!Fds
    <3>1. g \in write' <=> g \in write \/ (g = f /\ "write" \in events)
      BY <1>b
    <3>2. g \in write <=> \E y \in Select!All : h[y].fd = g /\ "write" \in h[y].mask
      BY DEF LoopInv, SetsInv
    <3>3. h[x].mask = {}
      BY <1>0 DEF LoopInv, DescriptorInv
    <3> QED BY <3>1, <3>2, <3>3, <2>1, <1>0, <1>c, <1>g
  <2>4. /\ read_size' = read_size + Cardinality(events \cap {"read"})
        /\ write_size' = write_size + Cardinality(events \cap {"write"})
    BY SameCardinality DEF Select!AddHandler
  <2>5. /\ read \in SUBSET Select!Fds /\ write \in SUBSET Select!Fds
        /\ read_size = Cardinality(read) /\ write_size = Cardinality(write)
        /\ max_fd \in Select!Fds /\ \A y \in read \cup write : y <= max_fd
    BY DEF LoopInv, SelectTypes, SetsInv
  <2>6. /\ Cardinality(read) \in Nat
        /\ Cardinality(read \cup {f}) = Cardinality(read) + 1
        /\ Cardinality(write) \in Nat
        /\ Cardinality(write \cup {f}) = Cardinality(write) + 1
    BY <2>5, <1>g, OneMore
  <2>7. read_size' = Cardinality(read') /\ write_size' = Cardinality(write')
    <3>1. CASE events = {"read"}
      <4>1. Cardinality(events \cap {"read"}) = 1
            /\ Cardinality(events \cap {"write"}) = 0
        BY <3>1, Bit
      <4>2. read' = read \cup {f} /\ write' = write
        BY <3>1, <1>b
      <4> QED BY <4>1, <4>2, <2>4, <2>5, <2>6
    <3>2. CASE events = {"write"}
      <4>1. Cardinality(events \cap {"read"}) = 0
            /\ Cardinality(events \cap {"write"}) = 1
        BY <3>2, Bit
      <4>2. read' = read /\ write' = write \cup {f}
        BY <3>2, <1>b
      <4> QED BY <4>1, <4>2, <2>4, <2>5, <2>6
    <3> QED BY <3>1, <3>2
  <2>8. \A y \in read' \cup write' : y <= max_fd'
    BY <2>5, <1>b DEF Select!Fds
  <2> QED BY <2>2, <2>3, <2>7, <2>8 DEF SetsInv
<1>6. OpsInv'
  <2>0. clash' \in BOOLEAN
    BY <1>e
  <2> SUFFICES ASSUME ~clash'
               PROVE  OpsInv'
    BY DEF OpsInv
  <2>1. UNCHANGED <<active, handlers, select_loop, deleted>>
    BY DEF Select!AddHandler
  <2>2. \A y \in Select!All : y # x =>
          /\ h'[y] = h[y]
          /\ y \in DOMAIN standby' <=> y \in DOMAIN standby
          /\ y \in DOMAIN standby => standby'[y] = standby[y]
    BY <1>c, <1>e
  <2>3. \A y \in Select!All : h'[y].in_loop <=> Stays(y)'
    <3> TAKE y \in Select!All
    <3>1. h[y].in_loop <=> Stays(y)
      BY DEF LoopInv, OpsInv
    <3>2. CASE y = x
      BY <3>2, <1>c, <1>e DEF Stays
    <3>3. CASE y # x
      BY <3>1, <3>3, <2>1, <2>2 DEF Stays
    <3> QED BY <3>2, <3>3
  <2>4. \A y \in Select!All : h'[y].pooled => /\ h'[y].fd = 0 /\ ~h'[y].in_loop
                                              /\ y \notin DOMAIN standby'
                                              /\ y \notin DOMAIN active'
    BY <2>1, <2>2, <1>c, <1>e DEF LoopInv, OpsInv
  <2>5. \A y \in Select!All : Dels(y)' = Dels(y)
    <3>1. x \notin DOMAIN active \/ active[x] # "DEL"
      BY <1>0 DEF LoopInv, OpsInv, Dels
    <3> QED BY <3>1, <2>1, <2>2, <1>e DEF Dels
  <2>6. \A y \in DOMAIN active' : active'[y] = "DEL" => y \notin DOMAIN standby'
    <3>1. x \notin DOMAIN active \/ active[x] # "DEL"
      BY <1>0 DEF LoopInv, OpsInv, Dels
    <3> QED BY <3>1, <2>1, <2>2, <1>e DEF LoopInv, OpsInv, SelectTypes
  <2>7. /\ deleted' \in SUBSET Select!All
        /\ \A y \in Select!All : y \in deleted' <=> Dels(y)'
        /\ \A y \in deleted' : ~h'[y].in_loop
    BY <2>1, <2>2, <2>5, <1>0 DEF LoopInv, OpsInv
  <2>8. select_loop'.pc # "apply" => DOMAIN active' = {}
    BY <2>1 DEF LoopInv, OpsInv
  <2> QED BY <2>3, <2>4, <2>6, <2>7, <2>8 DEF OpsInv
<1>7. WakingInv'
  BY DEF LoopInv, SelectTypes, Rows, LoopStates, SockStates, Select!Ops,
         Select!All, WakingInv, Select!AddHandler, Select!Emplace,
         Select!WakeLater, Select!MayCall, Select!MayAdd, Select!Raised,
         Select!Notify
<1>8. CopiedInv'
  BY DEF LoopInv, SelectTypes, Rows, LoopStates, SockStates, Select!Ops,
         Select!All, CopiedInv, Select!AddHandler, Select!Emplace,
         Select!WakeLater, Select!MayCall, Select!MayAdd, Select!Raised,
         Select!Notify
<1> QED BY <1>1, <1>2, <1>3, <1>4, <1>5, <1>6, <1>7, <1>8 DEF LoopInv

LEMMA DeleteHandlerKeeps ==
  ASSUME Select!SelectAssumption, LoopInv, ~clash,
         NEW x \in Handlers, Select!DeleteHandler(x)
  PROVE  LoopInv'
<1>0. /\ x \in Select!All /\ x # 0 /\ 0 \in Select!All
      /\ h \in [Select!All -> Rows] /\ h[x] \in Rows /\ h[x].in_loop
      /\ Select!Unregister(x)
  BY DEF LoopInv, SelectTypes, Select!All, Select!Wakeup, Select!SelectAssumption,
         Select!DeleteHandler
<1>a. /\ h' \in [Select!All -> Rows]
      /\ h'[x].fd = h[x].fd /\ h'[x].in_loop = FALSE /\ h'[x].mask = {}
      /\ h'[x].pooled = h[x].pooled /\ h'[x].connecting = h[x].connecting
      /\ \A y \in Select!All : y # x => h'[y] = h[y]
      /\ read' \in SUBSET Select!Fds /\ write' \in SUBSET Select!Fds
      /\ max_fd' \in Select!Fds
      /\ \A y \in read' \cup write' : y <= max_fd'
      /\ \A f \in Select!Fds : f \in read' <=> f \in read /\ f # h[x].fd
      /\ \A f \in Select!Fds : f \in write' <=> f \in write /\ f # h[x].fd
      /\ read_size' = Cardinality(read') /\ write_size' = Cardinality(write')
  BY <1>0, UnregisterEffects
<1>b. /\ DOMAIN standby' \subseteq Select!All
      /\ standby' \in [DOMAIN standby' -> Select!Ops]
      /\ clash' \in BOOLEAN
      /\ ~clash' => /\ x \notin DOMAIN standby
                    /\ DOMAIN standby' = DOMAIN standby \cup {x}
                    /\ standby'[x] = "DEL"
                    /\ \A y \in DOMAIN standby : standby'[y] = standby[y]
  <2>1. "DEL" \in Select!Ops /\ Select!Emplace(x, "DEL") /\ SelectTypes
    BY DEF Select!Ops, Select!DeleteHandler, LoopInv
  <2> QED BY <2>1, <1>0, EmplaceEffects
<1>c. UNCHANGED <<caller, out, active, handlers, sock, select_loop>>
  BY DEF Select!DeleteHandler
<1>1. SelectTypes'
  <2>1. wakeup_flag' \in BOOLEAN /\ notified' \in BOOLEAN /\ wake' \in BOOLEAN
    BY DEF LoopInv, SelectTypes, Select!DeleteHandler, Select!WakeLater, Select!Notify
  <2> QED BY <2>1, <1>a, <1>b, <1>c DEF LoopInv, SelectTypes
<1>2. WakeupInv'
  BY DEF LoopInv, SelectTypes, Rows, LoopStates, SockStates, Select!Ops,
         Select!All, WakeupInv, Select!DeleteHandler, Select!Emplace,
         Select!Unregister, Select!WakeLater, Select!MayCall, Select!Notify,
         DescriptorInv, Select!Fds, Select!Wakeup, Select!None,
         Select!SelectAssumption
<1>3. RoundInv'
  BY DEF LoopInv, SelectTypes, Rows, LoopStates, SockStates, Select!Ops,
         Select!All, RoundInv, Select!DeleteHandler, Select!Emplace,
         Select!Unregister, Select!WakeLater, Select!MayCall, Select!Notify
<1>4. DescriptorInv'
  BY DEF LoopInv, SelectTypes, Rows, LoopStates, SockStates, Select!Ops,
         Select!All, DescriptorInv, Select!DeleteHandler, Select!Emplace,
         Select!Unregister, Select!WakeLater, Select!MayCall, Select!Notify
<1>5. SetsInv'
  <2>1. \A y \in Select!All : h[y].fd = h[x].fd => y = x
    BY <1>0 DEF LoopInv, DescriptorInv
  <2>2. \A g \in Select!Fds :
          g \in read' <=> \E y \in Select!All : h'[y].fd = g /\ "read" \in h'[y].mask
    <3> TAKE g \in Select!Fds
    <3>2. g \in read <=> \E y \in Select!All : h[y].fd = g /\ "read" \in h[y].mask
      BY DEF LoopInv, SetsInv
    <3> QED BY <3>2, <2>1, <1>0, <1>a
  <2>3. \A g \in Select!Fds :
          g \in write' <=>
            \E y \in Select!All : h'[y].fd = g /\ "write" \in h'[y].mask
    <3> TAKE g \in Select!Fds
    <3>2. g \in write <=> \E y \in Select!All : h[y].fd = g /\ "write" \in h[y].mask
      BY DEF LoopInv, SetsInv
    <3> QED BY <3>2, <2>1, <1>0, <1>a
  <2> QED BY <2>2, <2>3, <1>a DEF SetsInv
<1>6. OpsInv'
  <2>0. clash' \in BOOLEAN
    BY <1>b
  <2> SUFFICES ASSUME ~clash'
               PROVE  OpsInv'
    BY DEF OpsInv
  <2>2. \A y \in Select!All : y # x =>
          /\ h'[y] = h[y]
          /\ y \in DOMAIN standby' <=> y \in DOMAIN standby
          /\ y \in DOMAIN standby => standby'[y] = standby[y]
    BY <1>a, <1>b
  <2>3. \A y \in Select!All : h'[y].in_loop <=> Stays(y)'
    <3> TAKE y \in Select!All
    <3>1. h[y].in_loop <=> Stays(y)
      BY DEF LoopInv, OpsInv
    <3>2. CASE y = x
      BY <3>2, <1>a, <1>b DEF Stays
    <3>3. CASE y # x
      BY <3>1, <3>3, <1>c, <2>2 DEF Stays
    <3> QED BY <3>2, <3>3
  <2>4. \A y \in Select!All : h'[y].pooled => /\ h'[y].fd = 0 /\ ~h'[y].in_loop
                                              /\ y \notin DOMAIN standby'
                                              /\ y \notin DOMAIN active'
    BY <2>2, <1>0, <1>a, <1>b, <1>c DEF LoopInv, OpsInv
  <2>5. x \notin deleted /\ ~Dels(x)
    BY <1>0 DEF LoopInv, OpsInv
  <2>6. \A y \in Select!All : Dels(y)' <=> Dels(y) \/ y = x
    BY <2>2, <2>5, <1>b, <1>c DEF Dels
  <2>7. \A y \in DOMAIN active' : active'[y] = "DEL" => y \notin DOMAIN standby'
    BY <2>2, <2>5, <1>b, <1>c DEF LoopInv, OpsInv, SelectTypes, Dels
  <2>8. /\ deleted' \in SUBSET Select!All
        /\ \A y \in Select!All : y \in deleted' <=> Dels(y)'
        /\ \A y \in deleted' : ~h'[y].in_loop
    BY <2>2, <2>6, <1>0, <1>a, <1>c DEF LoopInv, OpsInv, Select!DeleteHandler
  <2>9. select_loop'.pc # "apply" => DOMAIN active' = {}
    BY <1>c DEF LoopInv, OpsInv
  <2> QED BY <2>3, <2>4, <2>7, <2>8, <2>9 DEF OpsInv
<1>7. WakingInv'
  BY DEF LoopInv, SelectTypes, Rows, LoopStates, SockStates, Select!Ops,
         Select!All, WakingInv, Select!DeleteHandler, Select!Emplace,
         Select!Unregister, Select!WakeLater, Select!MayCall, Select!Notify
<1>8. CopiedInv'
  BY DEF LoopInv, SelectTypes, Rows, LoopStates, SockStates, Select!Ops,
         Select!All, CopiedInv, Select!DeleteHandler, Select!Emplace,
         Select!Unregister, Select!WakeLater, Select!MayCall, Select!Notify
<1> QED BY <1>1, <1>2, <1>3, <1>4, <1>5, <1>6, <1>7, <1>8 DEF LoopInv

LEMMA RemoveHandlerKeeps ==
  ASSUME Select!SelectAssumption, LoopInv, ~clash,
         NEW x \in Handlers, Select!RemoveHandler(x)
  PROVE  LoopInv'
<1>0. /\ x \in Select!All /\ x # 0 /\ 0 \in Select!All
      /\ h \in [Select!All -> Rows] /\ h[x] \in Rows /\ h[x].in_loop
      /\ Select!Unregister(x)
  BY DEF LoopInv, SelectTypes, Select!All, Select!Wakeup, Select!SelectAssumption,
         Select!RemoveHandler
<1>a. /\ h' \in [Select!All -> Rows]
      /\ h'[x].fd = h[x].fd /\ h'[x].in_loop = FALSE /\ h'[x].mask = {}
      /\ h'[x].pooled = h[x].pooled /\ h'[x].connecting = h[x].connecting
      /\ \A y \in Select!All : y # x => h'[y] = h[y]
      /\ read' \in SUBSET Select!Fds /\ write' \in SUBSET Select!Fds
      /\ max_fd' \in Select!Fds
      /\ \A y \in read' \cup write' : y <= max_fd'
      /\ \A f \in Select!Fds : f \in read' <=> f \in read /\ f # h[x].fd
      /\ \A f \in Select!Fds : f \in write' <=> f \in write /\ f # h[x].fd
      /\ read_size' = Cardinality(read') /\ write_size' = Cardinality(write')
  BY <1>0, UnregisterEffects
<1>b. /\ DOMAIN standby' \subseteq Select!All
      /\ standby' \in [DOMAIN standby' -> Select!Ops]
      /\ clash' \in BOOLEAN
      /\ ~clash' => /\ x \notin DOMAIN standby
                    /\ DOMAIN standby' = DOMAIN standby \cup {x}
                    /\ standby'[x] = "REMOVE"
                    /\ \A y \in DOMAIN standby : standby'[y] = standby[y]
  <2>1. "REMOVE" \in Select!Ops /\ Select!Emplace(x, "REMOVE") /\ SelectTypes
    BY DEF Select!Ops, Select!RemoveHandler, LoopInv
  <2> QED BY <2>1, <1>0, EmplaceEffects
<1>c. UNCHANGED <<caller, out, active, handlers, sock, select_loop, wakeup_flag,
        notified, wake, deleted>>
  BY DEF Select!RemoveHandler, Select!waking
<1>1. SelectTypes'
  <2>1. wakeup_flag' \in BOOLEAN /\ notified' \in BOOLEAN /\ wake' \in BOOLEAN
    BY DEF LoopInv, SelectTypes, Select!RemoveHandler, Select!waking
  <2> QED BY <2>1, <1>a, <1>b, <1>c DEF LoopInv, SelectTypes
<1>2. WakeupInv'
  BY DEF LoopInv, SelectTypes, Rows, LoopStates, SockStates, Select!Ops,
         Select!All, WakeupInv, Select!RemoveHandler, Select!Emplace,
         Select!Unregister, Select!MayCall, Select!waking, DescriptorInv,
         Select!Fds, Select!Wakeup, Select!None, Select!SelectAssumption
<1>3. RoundInv'
  BY DEF LoopInv, SelectTypes, Rows, LoopStates, SockStates, Select!Ops,
         Select!All, RoundInv, Select!RemoveHandler, Select!Emplace,
         Select!Unregister, Select!MayCall, Select!waking
<1>4. DescriptorInv'
  BY DEF LoopInv, SelectTypes, Rows, LoopStates, SockStates, Select!Ops,
         Select!All, DescriptorInv, Select!RemoveHandler, Select!Emplace,
         Select!Unregister, Select!MayCall, Select!waking
<1>5. SetsInv'
  <2>1. \A y \in Select!All : h[y].fd = h[x].fd => y = x
    BY <1>0 DEF LoopInv, DescriptorInv
  <2>2. \A g \in Select!Fds :
          g \in read' <=> \E y \in Select!All : h'[y].fd = g /\ "read" \in h'[y].mask
    <3> TAKE g \in Select!Fds
    <3>2. g \in read <=> \E y \in Select!All : h[y].fd = g /\ "read" \in h[y].mask
      BY DEF LoopInv, SetsInv
    <3> QED BY <3>2, <2>1, <1>0, <1>a
  <2>3. \A g \in Select!Fds :
          g \in write' <=>
            \E y \in Select!All : h'[y].fd = g /\ "write" \in h'[y].mask
    <3> TAKE g \in Select!Fds
    <3>2. g \in write <=> \E y \in Select!All : h[y].fd = g /\ "write" \in h[y].mask
      BY DEF LoopInv, SetsInv
    <3> QED BY <3>2, <2>1, <1>0, <1>a
  <2> QED BY <2>2, <2>3, <1>a DEF SetsInv
<1>6. OpsInv'
  <2>0. clash' \in BOOLEAN
    BY <1>b
  <2> SUFFICES ASSUME ~clash'
               PROVE  OpsInv'
    BY DEF OpsInv
  <2>2. \A y \in Select!All : y # x =>
          /\ h'[y] = h[y]
          /\ y \in DOMAIN standby' <=> y \in DOMAIN standby
          /\ y \in DOMAIN standby => standby'[y] = standby[y]
    BY <1>a, <1>b
  <2>3. \A y \in Select!All : h'[y].in_loop <=> Stays(y)'
    <3> TAKE y \in Select!All
    <3>1. h[y].in_loop <=> Stays(y)
      BY DEF LoopInv, OpsInv
    <3>2. CASE y = x
      BY <3>2, <1>a, <1>b DEF Stays
    <3>3. CASE y # x
      BY <3>1, <3>3, <1>c, <2>2 DEF Stays
    <3> QED BY <3>2, <3>3
  <2>4. \A y \in Select!All : h'[y].pooled => /\ h'[y].fd = 0 /\ ~h'[y].in_loop
                                              /\ y \notin DOMAIN standby'
                                              /\ y \notin DOMAIN active'
    BY <2>2, <1>0, <1>a, <1>b, <1>c DEF LoopInv, OpsInv
  <2>5. x \notin deleted /\ ~Dels(x)
    BY <1>0 DEF LoopInv, OpsInv
  <2>6. \A y \in Select!All : Dels(y)' <=> Dels(y) 
    BY <2>2, <2>5, <1>b, <1>c DEF Dels
  <2>7. \A y \in DOMAIN active' : active'[y] = "DEL" => y \notin DOMAIN standby'
    BY <2>2, <2>5, <1>b, <1>c DEF LoopInv, OpsInv, SelectTypes, Dels
  <2>8. /\ deleted' \in SUBSET Select!All
        /\ \A y \in Select!All : y \in deleted' <=> Dels(y)'
        /\ \A y \in deleted' : ~h'[y].in_loop
    BY <2>2, <2>6, <1>0, <1>a, <1>c DEF LoopInv, OpsInv
  <2>9. select_loop'.pc # "apply" => DOMAIN active' = {}
    BY <1>c DEF LoopInv, OpsInv
  <2> QED BY <2>3, <2>4, <2>7, <2>8, <2>9 DEF OpsInv
<1>7. WakingInv'
  BY DEF LoopInv, SelectTypes, Rows, LoopStates, SockStates, Select!Ops,
         Select!All, WakingInv, Select!RemoveHandler, Select!Emplace,
         Select!Unregister, Select!MayCall, Select!waking
<1>8. CopiedInv'
  BY DEF LoopInv, SelectTypes, Rows, LoopStates, SockStates, Select!Ops,
         Select!All, CopiedInv, Select!RemoveHandler, Select!Emplace,
         Select!Unregister, Select!MayCall, Select!waking
<1> QED BY <1>1, <1>2, <1>3, <1>4, <1>5, <1>6, <1>7, <1>8 DEF LoopInv

LEMMA CloseRemovedKeeps ==
  ASSUME Select!SelectAssumption, LoopInv, ~clash,
         NEW x \in Handlers, Select!CloseRemoved(x)
  PROVE  LoopInv'
<1>0. /\ x \in Select!All /\ x # 0 /\ 0 \in Select!All
      /\ h \in [Select!All -> Rows] /\ h[x] \in Rows
      /\ ~h[x].in_loop /\ h[x].fd # 0 /\ h[x].fd \in Select!Fds
  BY DEF LoopInv, SelectTypes, Rows, Select!All, Select!Wakeup,
         Select!SelectAssumption,
         Select!CloseRemoved, Select!None
<1>a. /\ h' \in [Select!All -> Rows]
      /\ h'[x].fd = 0 /\ h'[x].in_loop = h[x].in_loop /\ h'[x].mask = h[x].mask
      /\ h'[x].pooled = h[x].pooled /\ h'[x].connecting = h[x].connecting
      /\ \A y \in Select!All : y # x => h'[y] = h[y]
  <2>1. h' = [h EXCEPT ![x] = [h[x] EXCEPT !.fd = 0]]
    BY DEF Select!CloseRemoved, Select!None
  <2>2. /\ h' \in [Select!All -> Rows] /\ h'[x] = [h[x] EXCEPT !.fd = 0]
        /\ \A y \in Select!All : y # x => h'[y] = h[y]
    BY <2>1, <1>0, Changed, RowClosed
  <2> QED BY <2>2, <1>0, RowClosed
<1>b. sock' = [sock EXCEPT ![h[x].fd] = "closed"]
  BY DEF Select!CloseRemoved
<1>c. UNCHANGED <<caller, read, write, read_size, write_size, max_fd, out, standby,
                  active, handlers, select_loop, wakeup_flag, notified, wake,
                  deleted, clash, unseen>>
  BY DEF Select!CloseRemoved, Select!fd_sets, Select!waking
<1>1. SelectTypes'
  <2>1. sock' \in [Select!Fds -> SockStates]
    BY <1>b DEF LoopInv, SelectTypes, SockStates
  <2> QED BY <2>1, <1>a, <1>c DEF LoopInv, SelectTypes
<1>2. WakeupInv'
  <2>1. h'[0] = h[0] /\ h[x].fd # 1
    BY <1>0, <1>a DEF LoopInv, WakeupInv, DescriptorInv
  <2> QED BY <2>1, <1>b DEF LoopInv, WakeupInv
<1>3. RoundInv'
  BY DEF LoopInv, SelectTypes, Rows, LoopStates, SockStates, Select!Ops,
         Select!All, RoundInv, Select!CloseRemoved, Select!MayCall, Select!fd_sets,
         Select!waking
<1>4. DescriptorInv'
  BY DEF LoopInv, SelectTypes, Rows, LoopStates, SockStates, Select!Ops,
         Select!All, DescriptorInv, Select!CloseRemoved, Select!MayCall,
         Select!fd_sets, Select!waking, WakeupInv, Select!Fds, Select!Wakeup,
         Select!None, Select!SelectAssumption
<1>5. SetsInv'
  BY DEF LoopInv, SelectTypes, Rows, LoopStates, SockStates, Select!Ops,
         Select!All, SetsInv, Select!CloseRemoved, Select!MayCall, Select!fd_sets,
         Select!waking, WakeupInv, DescriptorInv, Select!Fds, Select!Wakeup,
         Select!None, Select!SelectAssumption
<1>6. OpsInv'
  BY DEF LoopInv, SelectTypes, Rows, LoopStates, SockStates, Select!Ops,
         Select!All, OpsInv, Dels, Stays, Select!CloseRemoved, Select!MayCall,
         Select!fd_sets, Select!waking, WakeupInv, DescriptorInv, Select!Fds,
         Select!Wakeup, Select!None, Select!SelectAssumption
<1>7. WakingInv'
  BY WakingInvFrame
     DEF LoopInv, Select!CloseRemoved, Select!MayCall, Select!fd_sets, Select!waking
<1>8. CopiedInv'
  BY DEF LoopInv, SelectTypes, Rows, LoopStates, SockStates, Select!Ops,
         Select!All, CopiedInv, Select!CloseRemoved, Select!MayCall,
         Select!fd_sets, Select!waking
<1> QED BY <1>1, <1>2, <1>3, <1>4, <1>5, <1>6, <1>7, <1>8 DEF LoopInv

LEMMA AddEventKeeps ==
  ASSUME Select!SelectAssumption, LoopInv, ~clash,
         NEW x \in Handlers, Select!AddEvent(x)
  PROVE  LoopInv'
<1>1. SelectTypes'
  BY SMTT(60) DEF LoopInv, SelectTypes, Rows, LoopStates, SockStates, Select!Ops,
         Select!All, Select!AddEvent, Select!MayCall, Select!waking, WakeupInv,
         DescriptorInv, Select!Fds, Select!Wakeup, Select!None,
         Select!SelectAssumption
<1>2. WakeupInv'
  BY DEF LoopInv, SelectTypes, Rows, LoopStates, SockStates, Select!Ops,
         Select!All, WakeupInv, Select!AddEvent, Select!MayCall, Select!waking,
         DescriptorInv, Select!Fds, Select!Wakeup, Select!None,
         Select!SelectAssumption
<1>3. RoundInv'
  BY DEF LoopInv, SelectTypes, Rows, LoopStates, SockStates, Select!Ops,
         Select!All, RoundInv, Select!AddEvent, Select!MayCall, Select!waking
<1>4. DescriptorInv'
  BY DEF LoopInv, SelectTypes, Rows, LoopStates, SockStates, Select!Ops,
         Select!All, DescriptorInv, Select!AddEvent, Select!MayCall, Select!waking
<1>5. SetsInv'
  <2>1. /\ x \in Select!All /\ h \in [Select!All -> Rows] /\ h[x].fd \in Select!Fds
        /\ h[x].fd # 0 /\ "write" \notin h[x].mask
        /\ h[x].mask \in SUBSET {"read", "write"}
        /\ h[x].in_loop /\ ~h[x].connecting
    BY DEF LoopInv, SelectTypes, DescriptorInv, Rows, Select!All, Select!AddEvent
  <2>2. h' = [h EXCEPT ![x] = [h[x] EXCEPT !.mask = h[x].mask \cup {"write"}]]
    BY DEF Select!AddEvent
  <2>3. /\ h'[x].fd = h[x].fd /\ h'[x].mask = h[x].mask \cup {"write"}
        /\ \A y \in Select!All : y # x => h'[y] = h[y]
    BY <2>1, <2>2 DEF Rows
  <2>4. /\ write' = write \cup {h[x].fd} /\ write_size' = write_size + 1
        /\ read' = read /\ read_size' = read_size /\ max_fd' = max_fd
        /\ clash' = clash
    BY DEF Select!AddEvent
  <2>5. \A y \in Select!All : h[y].fd = h[x].fd => y = x
    BY <2>1 DEF LoopInv, DescriptorInv
  <2>6. /\ \A g \in Select!Fds :
             g \in read <=> \E y \in Select!All : h[y].fd = g /\ "read" \in h[y].mask
        /\ \A g \in Select!Fds :
             g \in write <=>
               \E y \in Select!All : h[y].fd = g /\ "write" \in h[y].mask
        /\ read_size = Cardinality(read) /\ write_size = Cardinality(write)
        /\ \A f \in read \cup write : f <= max_fd
        /\ write \in SUBSET Select!Fds
    BY DEF LoopInv, SetsInv, SelectTypes
  <2>7. h[x].fd \notin write /\ h[x].fd \in read
    BY <2>1, <2>5, <2>6 DEF LoopInv, DescriptorInv
  <2>8. write_size' = Cardinality(write')
    BY <2>1, <2>4, <2>6, <2>7, OneMore
  <2>9. \A g \in Select!Fds :
          g \in read' <=> \E y \in Select!All : h'[y].fd = g /\ "read" \in h'[y].mask
    BY <2>1, <2>3, <2>4, <2>6
  <2>10. \A g \in Select!Fds :
           g \in write' <=>
             \E y \in Select!All : h'[y].fd = g /\ "write" \in h'[y].mask
    BY <2>1, <2>3, <2>4, <2>5, <2>6
  <2> QED BY <2>4, <2>6, <2>7, <2>8, <2>9, <2>10 DEF SetsInv
<1>6. OpsInv'
  BY DEF LoopInv, SelectTypes, Rows, LoopStates, SockStates, Select!Ops,
         Select!All, OpsInv, Dels, Stays, Select!AddEvent, Select!MayCall,
         Select!waking
<1>7. WakingInv'
  BY WakingInvFrame DEF LoopInv, Select!AddEvent, Select!MayCall, Select!waking
<1>8. CopiedInv'
  BY DEF LoopInv, SelectTypes, Rows, LoopStates, SockStates, Select!Ops,
         Select!All, CopiedInv, Select!AddEvent, Select!MayCall, Select!waking
<1> QED BY <1>1, <1>2, <1>3, <1>4, <1>5, <1>6, <1>7, <1>8 DEF LoopInv

LEMMA CopyKeeps ==
  ASSUME Select!SelectAssumption, LoopInv, ~clash,
         Select!Copy
  PROVE  LoopInv'
<1>1. SelectTypes'
  BY DEF LoopInv, SelectTypes, Rows, LoopStates, SockStates, Select!Ops,
         Select!All, Select!Copy, Select!Goto, Select!fd_sets, Select!waking
<1>2. WakeupInv'
  BY WakeupInvFrame
     DEF LoopInv, Select!Copy, Select!Goto, Select!fd_sets, Select!waking
<1>3. RoundInv'
  BY DEF LoopInv, SelectTypes, Rows, LoopStates, SockStates, Select!Ops,
         Select!All, RoundInv, Select!Copy, Select!Goto, Select!fd_sets,
         Select!waking
<1>4. DescriptorInv'
  BY DescriptorInvFrame
     DEF LoopInv, Select!Copy, Select!Goto, Select!fd_sets, Select!waking
<1>5. SetsInv'
  BY SetsInvFrame DEF LoopInv, Select!Copy, Select!Goto, Select!fd_sets, Select!waking
<1>6. OpsInv'
  BY DEF LoopInv, SelectTypes, Rows, LoopStates, SockStates, Select!Ops,
         Select!All, OpsInv, Dels, Stays, Select!Copy, Select!Goto, Select!fd_sets,
         Select!waking
<1>7. WakingInv'
  <2>1. DOMAIN standby' = {}
    BY DEF LoopInv, OpsInv, Select!Copy
  <2>2. UNCHANGED <<wakeup_flag, notified, wake>> /\ select_loop.pc = "copy"
    BY DEF Select!Copy, Select!waking
  <2> QED BY <2>1, <2>2 DEF LoopInv, WakingInv
<1>8. CopiedInv'
  <2>1. out' = [read |-> read, write |-> write] /\ UNCHANGED <<clash, h>>
    BY DEF Select!Copy
  <2>2. \A x \in Select!All : h[x].in_loop => h[x].fd \in Select!Fds
    BY DEF LoopInv, SelectTypes, DescriptorInv, Rows
  <2>3. \A x \in Select!All : h[x].in_loop =>
          /\ "read" \in h[x].mask => h[x].fd \in read
          /\ "write" \in h[x].mask => h[x].fd \in write
    BY <2>2 DEF LoopInv, SetsInv
  <2>4. 1 \in read
    <3>1. 0 \in Select!All /\ h[0].in_loop /\ h[0].fd = 1 /\ "read" \in h[0].mask
      BY DEF LoopInv, WakeupInv, Select!All, Select!Wakeup
    <3> QED BY <3>1, <2>3
  <2> QED BY <2>1, <2>3, <2>4 DEF CopiedInv
<1> QED BY <1>1, <1>2, <1>3, <1>4, <1>5, <1>6, <1>7, <1>8 DEF LoopInv

LEMMA ApplyKeeps ==
  ASSUME Select!SelectAssumption, LoopInv, ~clash,
         NEW x \in Select!All, Select!Apply(x)
  PROVE  LoopInv'
<1>0. /\ x \in Select!All /\ 0 \in Select!All /\ x \in DOMAIN active
      /\ h \in [Select!All -> Rows] /\ h[x] \in Rows /\ select_loop.pc = "apply"
  BY DEF LoopInv, SelectTypes, Select!All, Select!Wakeup, Select!Apply
<1>a. /\ DOMAIN active' = DOMAIN active \ {x}
      /\ \A y \in DOMAIN active' : active'[y] = active[y]
      /\ active' \in [DOMAIN active' -> Select!Ops]
  <2>1. active' = [y \in DOMAIN active \ {x} |-> active[y]]
    BY DEF Select!Apply
  <2>2. \A y \in DOMAIN active : active[y] \in Select!Ops
    BY DEF LoopInv, SelectTypes
  <2> QED BY <2>1, <2>2
<1>b. /\ active[x] = "ADD" => handlers' = handlers \cup {x}
      /\ active[x] # "ADD" => handlers' = handlers \ {x}
  BY DEF Select!Apply, Select!AppliedTo
<1>c. UNCHANGED <<caller, read, write, read_size, write_size, max_fd, out, standby,
                  select_loop, wakeup_flag, notified, wake, clash, unseen>>
  BY DEF Select!Apply, Select!fd_sets, Select!waking
<1>d. active[x] # "DEL" => h' = h /\ sock' = sock /\ deleted' = deleted
  BY DEF Select!Apply
<1>e. ASSUME active[x] = "DEL"
      PROVE  /\ h' \in [Select!All -> Rows]
             /\ h'[x].fd = 0 /\ h'[x].in_loop = FALSE /\ h'[x].mask = {}
             /\ h'[x].pooled = TRUE /\ h'[x].connecting = h[x].connecting
             /\ \A y \in Select!All : y # x => h'[y] = h[y]
             /\ sock' \in [Select!Fds -> SockStates]
             /\ \A g \in Select!Fds : g # h[x].fd => sock'[g] = sock[g]
             /\ deleted' = deleted \ {x}
             /\ x \in deleted /\ h[x].in_loop = FALSE /\ x \notin DOMAIN standby
             /\ x # 0 /\ h[x].fd # 1
  <2>1. h' = [h EXCEPT ![x] = [h[x] EXCEPT !.fd = 0, !.pooled = TRUE]]
        /\ deleted' = deleted \ {x}
    BY <1>e DEF Select!Apply, Select!None
  <2>2. /\ x \in deleted /\ h[x].in_loop = FALSE /\ x \notin DOMAIN standby
        /\ h[x].mask = {}
    BY <1>e, <1>0 DEF LoopInv, OpsInv, Dels, DescriptorInv, Rows
  <2>3. x # 0 /\ h[x].fd # 1
    BY <2>2, <1>0 DEF LoopInv, WakeupInv, DescriptorInv
  <2>4. /\ h' \in [Select!All -> Rows]
        /\ h'[x] = [h[x] EXCEPT !.fd = 0, !.pooled = TRUE]
        /\ \A y \in Select!All : y # x => h'[y] = h[y]
    BY <2>1, <1>0, Changed, RowFreed
  <2>5. /\ h'[x].fd = 0 /\ h'[x].in_loop = FALSE /\ h'[x].mask = {}
        /\ h'[x].pooled = TRUE /\ h'[x].connecting = h[x].connecting
    BY <2>2, <2>4, <1>0, RowFreed, ZenonT(60)
  <2>6. sock' = IF h[x].fd = 0 THEN sock ELSE [sock EXCEPT ![h[x].fd] = "closed"]
    BY <1>e DEF Select!Apply, Select!None
  <2>7. sock \in [Select!Fds -> SockStates] /\ "closed" \in SockStates
    BY DEF LoopInv, SelectTypes, SockStates
  <2>8. /\ sock' \in [Select!Fds -> SockStates]
        /\ \A g \in Select!Fds : g # h[x].fd => sock'[g] = sock[g]
    <3>1. CASE h[x].fd = 0
      BY <3>1, <2>6, <2>7
    <3>2. CASE h[x].fd # 0
      <4>1. sock' = [sock EXCEPT ![h[x].fd] = "closed"]
        BY <3>2, <2>6
      <4> QED BY <4>1, <2>7
    <3> QED BY <3>1, <3>2
  <2> QED BY <2>1, <2>2, <2>3, <2>4, <2>5, <2>8
<1>1. SelectTypes'
  <2>1. h' \in [Select!All -> Rows] /\ sock' \in [Select!Fds -> SockStates]
    BY <1>d, <1>e DEF LoopInv, SelectTypes
  <2>2. DOMAIN active' \subseteq Select!All /\ handlers' \in SUBSET Select!All
    BY <1>0, <1>a, <1>b DEF LoopInv, SelectTypes
  <2> QED BY <2>1, <2>2, <1>a, <1>c DEF LoopInv, SelectTypes
<1>2. WakeupInv'
  <2>1. h'[0] = h[0] /\ sock'[1] = sock[1]
    <3>1. 1 \in Select!Fds
      BY DEF Select!Fds, Select!SelectAssumption
    <3>2. CASE active[x] = "DEL"
      BY <3>1, <3>2, <1>0, <1>e
    <3>3. CASE active[x] # "DEL"
      BY <3>3, <1>d
    <3> QED BY <3>2, <3>3
  <2> QED BY <2>1 DEF LoopInv, WakeupInv
<1>3. RoundInv'
  <2>1. \A y \in Select!All : h'[y].pooled => y \notin handlers'
    <3> TAKE y \in Select!All
    <3>1. h[y].pooled => y \notin handlers /\ y \notin DOMAIN active
      BY DEF LoopInv, RoundInv, OpsInv
    <3>2. CASE active[x] = "DEL"
      BY <3>1, <3>2, <1>b, <1>e
    <3>3. CASE active[x] # "DEL"
      BY <3>1, <3>3, <1>0, <1>b, <1>d
    <3> QED BY <3>2, <3>3
  <2> QED BY <2>1, <1>0, <1>c DEF RoundInv
<1>4. DescriptorInv'
  <2>1. CASE active[x] # "DEL"
    BY <2>1, <1>d DEF LoopInv, DescriptorInv
  <2>2. CASE active[x] = "DEL"
    <3>1. \A y \in Select!All : y # x => h[y].fd # h[x].fd \/ h[y].fd = 0
      BY <1>0 DEF LoopInv, DescriptorInv
    <3>2. \A y \in Select!All : h[y].fd # 0 => h[y].fd \in Select!Fds
      BY DEF LoopInv, SelectTypes, Rows
    <3>3. \A y \in Select!All : h'[y].fd # 0 => sock'[h'[y].fd] # "closed"
      BY <2>2, <3>1, <3>2, <1>e DEF LoopInv, DescriptorInv
    <3>4. \A y, z \in Select!All : h'[y].fd = h'[z].fd /\ h'[y].fd # 0 => y = z
      BY <2>2, <1>e DEF LoopInv, DescriptorInv
    <3>5. \A y \in Select!All : /\ h'[y].in_loop = h[y].in_loop
                                /\ h'[y].mask = h[y].mask
                                /\ h'[y].connecting = h[y].connecting
                                /\ h[y].in_loop => h'[y].fd = h[y].fd
      BY <2>2, <1>e, <1>0 DEF LoopInv, DescriptorInv
    <3> QED BY <3>3, <3>4, <3>5 DEF LoopInv, DescriptorInv
  <2> QED BY <2>1, <2>2
<1>5. SetsInv'
  <2>1. CASE active[x] # "DEL"
    BY <2>1, <1>c, <1>d DEF LoopInv, SetsInv
  <2>2. CASE active[x] = "DEL"
    <3>1. h[x].mask = {}
      BY <2>2, <1>e, <1>0 DEF LoopInv, DescriptorInv
    <3>2. \A y \in Select!All : /\ h'[y].mask = h[y].mask
                                /\ h[y].mask # {} => h'[y].fd = h[y].fd
      BY <2>2, <3>1, <1>e
    <3> QED BY <3>2, <1>c DEF LoopInv, SetsInv
  <2> QED BY <2>1, <2>2
<1>6. OpsInv'
  <2>1. \A y \in Select!All : y # x =>
          /\ h'[y] = h[y]
          /\ y \in DOMAIN active' <=> y \in DOMAIN active
          /\ y \in DOMAIN active => active'[y] = active[y]
          /\ y \in handlers' <=> y \in handlers
    BY <1>a, <1>b, <1>d, <1>e
  <2>2. \A y \in Select!All : h'[y].in_loop <=> Stays(y)'
    <3> TAKE y \in Select!All
    <3>1. h[y].in_loop <=> Stays(y)
      BY DEF LoopInv, OpsInv
    <3>2. CASE y = x
      <4>1. h'[x].in_loop <=> h[x].in_loop
        BY <1>d, <1>e
      <4>2. x \notin DOMAIN active' /\ (x \in handlers' <=> active[x] = "ADD")
        BY <1>a, <1>b
      <4> QED BY <3>1, <3>2, <4>1, <4>2, <1>0, <1>c DEF Stays
    <3>3. CASE y # x
      BY <3>1, <3>3, <1>c, <2>1 DEF Stays
    <3> QED BY <3>2, <3>3
  <2>3. \A y \in Select!All : h'[y].pooled => /\ h'[y].fd = 0 /\ ~h'[y].in_loop
                                              /\ y \notin DOMAIN standby'
                                              /\ y \notin DOMAIN active'
    <3> TAKE y \in Select!All
    <3>1. CASE y = x /\ active[x] = "DEL"
      BY <3>1, <1>a, <1>c, <1>e
    <3>2. CASE ~(y = x /\ active[x] = "DEL")
      BY <3>2, <2>1, <1>a, <1>c, <1>d DEF LoopInv, OpsInv
    <3> QED BY <3>1, <3>2
  <2>4. \A y \in Select!All : y # x => (Dels(y)' <=> Dels(y))
    BY <2>1, <1>c DEF Dels
  <2>5. active[x] = "DEL" => ~Dels(x)'
    BY <1>0, <1>a, <1>c, <1>e DEF Dels
  <2>6. /\ deleted' \in SUBSET Select!All
        /\ \A y \in Select!All : y \in deleted' <=> Dels(y)'
        /\ \A y \in deleted' : ~h'[y].in_loop
    <3>1. CASE active[x] = "DEL"
      BY <3>1, <2>1, <2>4, <2>5, <1>e DEF LoopInv, OpsInv
    <3>2. CASE active[x] # "DEL"
      <4>1. \A y \in Select!All : Dels(y)' <=> Dels(y)
        BY <3>2, <2>4, <1>0, <1>a, <1>c DEF Dels
      <4> QED BY <3>2, <4>1, <1>d DEF LoopInv, OpsInv
    <3> QED BY <3>1, <3>2
  <2>7. \A y \in DOMAIN active' : active'[y] = "DEL" => y \notin DOMAIN standby'
    BY <1>a, <1>c DEF LoopInv, OpsInv
  <2>8. select_loop'.pc # "apply" => DOMAIN active' = {}
    BY <1>0, <1>c
  <2> QED BY <2>2, <2>3, <2>6, <2>7, <2>8 DEF OpsInv
<1>7. WakingInv'
  BY WakingInvFrame
     DEF LoopInv, Select!Apply, Select!AppliedTo, Select!fd_sets, Select!waking
<1>8. CopiedInv'
  <2>1. \A y \in Select!All : /\ h'[y].in_loop = h[y].in_loop
                              /\ h[y].in_loop => h'[y] = h[y]
    BY <1>d, <1>e
  <2> QED BY <2>1, <1>c DEF LoopInv, CopiedInv
<1> QED BY <1>1, <1>2, <1>3, <1>4, <1>5, <1>6, <1>7, <1>8 DEF LoopInv

LEMMA AppliedKeeps ==
  ASSUME Select!SelectAssumption, LoopInv, ~clash,
         Select!Applied
  PROVE  LoopInv'
<1>1. SelectTypes'
  BY DEF LoopInv, SelectTypes, Rows, LoopStates, SockStates, Select!Ops,
         Select!All, Select!Applied, Select!Goto, Select!fd_sets, Select!waking
<1>2. WakeupInv'
  BY WakeupInvFrame
     DEF LoopInv, Select!Applied, Select!Goto, Select!fd_sets, Select!waking
<1>3. RoundInv'
  BY DEF LoopInv, SelectTypes, Rows, LoopStates, SockStates, Select!Ops,
         Select!All, RoundInv, Select!Applied, Select!Goto, Select!fd_sets,
         Select!waking
<1>4. DescriptorInv'
  BY DescriptorInvFrame
     DEF LoopInv, Select!Applied, Select!Goto, Select!fd_sets, Select!waking
<1>5. SetsInv'
  BY SetsInvFrame
     DEF LoopInv, Select!Applied, Select!Goto, Select!fd_sets, Select!waking
<1>6. OpsInv'
  BY DEF LoopInv, SelectTypes, Rows, LoopStates, SockStates, Select!Ops,
         Select!All, OpsInv, Dels, Stays, Select!Applied, Select!Goto,
         Select!fd_sets, Select!waking
<1>7. WakingInv'
  BY DEF LoopInv, SelectTypes, Rows, LoopStates, SockStates, Select!Ops,
         Select!All, WakingInv, Select!Applied, Select!Goto, Select!fd_sets,
         Select!waking
<1>8. CopiedInv'
  BY DEF LoopInv, SelectTypes, Rows, LoopStates, SockStates, Select!Ops,
         Select!All, CopiedInv, Select!Applied, Select!Goto, Select!fd_sets,
         Select!waking
<1> QED BY <1>1, <1>2, <1>3, <1>4, <1>5, <1>6, <1>7, <1>8 DEF LoopInv

LEMMA SelectKeeps ==
  ASSUME Select!SelectAssumption, LoopInv, ~clash,
         Select!Select
  PROVE  LoopInv'
<1>1. SelectTypes'
  <2>1. /\ Select!ReadyRead \in SUBSET Select!Fds
        /\ Select!ReadyWrite \in SUBSET Select!Fds
        /\ out \in [read : SUBSET Select!Fds, write : SUBSET Select!Fds]
    BY DEF LoopInv, SelectTypes, Select!ReadyRead, Select!ReadyWrite
  <2>2. /\ Cardinality(Select!ReadyRead) \in Nat
        /\ Cardinality(Select!ReadyWrite) \in Nat
    <3>1. 1 \in Select!Fds
      BY DEF Select!Fds, Select!SelectAssumption
    <3> QED BY <2>1, <3>1, OneMore
  <2>3. select_loop' = [pc |-> "handle", todo |-> handlers, current |-> 0,
          ready |-> Cardinality(Select!ReadyRead) + Cardinality(Select!ReadyWrite)]
    BY SameCardinality DEF Select!Select, Select!None
  <2>4. select_loop' \in LoopStates
    BY <2>2, <2>3 DEF LoopInv, SelectTypes, LoopStates, Select!All, Select!Wakeup
  <2>5. out' \in [read : SUBSET Select!Fds, write : SUBSET Select!Fds]
    BY <2>1 DEF Select!Select
  <2>6. wakeup_flag' = FALSE
    BY DEF Select!Select
  <2>7. UNCHANGED <<caller, read, write, max_fd, h, standby, active, handlers,
                    notified, wake, sock, clash>>
    BY DEF Select!Select, Select!fd_sets
  <2> QED BY <2>4, <2>5, <2>6, <2>7 DEF LoopInv, SelectTypes
<1>2. WakeupInv'
  BY WakeupInvFrame DEF LoopInv, Select!Select, Select!fd_sets
<1>3. RoundInv'
  BY DEF LoopInv, SelectTypes, Rows, LoopStates, SockStates, Select!Ops,
         Select!All, RoundInv, Select!Select, Select!fd_sets
<1>4. DescriptorInv'
  BY DescriptorInvFrame DEF LoopInv, Select!Select, Select!fd_sets
<1>5. SetsInv'
  BY SetsInvFrame DEF LoopInv, Select!Select, Select!fd_sets
<1>6. OpsInv'
  BY DEF LoopInv, SelectTypes, Rows, LoopStates, SockStates, Select!Ops,
         Select!All, OpsInv, Dels, Stays, Select!Select, Select!fd_sets
<1>7. WakingInv'
  BY DEF LoopInv, SelectTypes, Rows, LoopStates, SockStates, Select!Ops,
         Select!All, WakingInv, Select!Select, Select!fd_sets
<1>8. CopiedInv'
  BY DEF LoopInv, SelectTypes, Rows, LoopStates, SockStates, Select!Ops,
         Select!All, CopiedInv, Select!Select, Select!fd_sets
<1> QED BY <1>1, <1>2, <1>3, <1>4, <1>5, <1>6, <1>7, <1>8 DEF LoopInv

LEMMA SelectFailsKeeps ==
  ASSUME Select!SelectAssumption, LoopInv, ~clash,
         Select!SelectFails
  PROVE  LoopInv'
<1>1. SelectTypes'
  BY ZenonT(60) DEF LoopInv, SelectTypes, Rows, LoopStates, SockStates, Select!Ops,
         Select!All, Select!SelectFails, Select!fd_sets, WakeupInv, DescriptorInv,
         Select!Fds, Select!Wakeup, Select!None, Select!SelectAssumption
<1>2. WakeupInv'
  BY WakeupInvFrame DEF LoopInv, Select!SelectFails, Select!fd_sets
<1>3. RoundInv'
  BY DEF LoopInv, SelectTypes, Rows, LoopStates, SockStates, Select!Ops,
         Select!All, RoundInv, Select!SelectFails, Select!fd_sets
<1>4. DescriptorInv'
  BY DescriptorInvFrame DEF LoopInv, Select!SelectFails, Select!fd_sets
<1>5. SetsInv'
  BY SetsInvFrame DEF LoopInv, Select!SelectFails, Select!fd_sets
<1>6. OpsInv'
  BY DEF LoopInv, SelectTypes, Rows, LoopStates, SockStates, Select!Ops,
         Select!All, OpsInv, Dels, Stays, Select!SelectFails, Select!fd_sets
<1>7. WakingInv'
  BY DEF LoopInv, SelectTypes, Rows, LoopStates, SockStates, Select!Ops,
         Select!All, WakingInv, Select!SelectFails, Select!fd_sets
<1>8. CopiedInv'
  BY DEF LoopInv, SelectTypes, Rows, LoopStates, SockStates, Select!Ops,
         Select!All, CopiedInv, Select!SelectFails, Select!fd_sets
<1> QED BY <1>1, <1>2, <1>3, <1>4, <1>5, <1>6, <1>7, <1>8 DEF LoopInv

LEMMA SkipKeeps ==
  ASSUME Select!SelectAssumption, LoopInv, ~clash,
         NEW x \in Select!All, Select!Skip(x)
  PROVE  LoopInv'
<1>1. SelectTypes'
  BY DEF LoopInv, SelectTypes, Rows, LoopStates, SockStates, Select!Ops,
         Select!All, Select!Skip, Select!PastRead, Select!fd_sets, Select!waking,
         Select!IsNext, WakeupInv, DescriptorInv, Select!Fds, Select!Wakeup,
         Select!None, Select!SelectAssumption
<1>2. WakeupInv'
  BY WakeupInvFrame
     DEF LoopInv, Select!Skip, Select!PastRead, Select!fd_sets, Select!waking,
         Select!IsNext
<1>3. RoundInv'
  BY DEF LoopInv, SelectTypes, Rows, LoopStates, SockStates, Select!Ops,
         Select!All, RoundInv, Select!Skip, Select!PastRead, Select!fd_sets,
         Select!waking, Select!IsNext
<1>4. DescriptorInv'
  BY DescriptorInvFrame
     DEF LoopInv, Select!Skip, Select!PastRead, Select!fd_sets, Select!waking,
         Select!IsNext
<1>5. SetsInv'
  BY SetsInvFrame
     DEF LoopInv, Select!Skip, Select!PastRead, Select!fd_sets, Select!waking,
         Select!IsNext
<1>6. OpsInv'
  BY DEF LoopInv, SelectTypes, Rows, LoopStates, SockStates, Select!Ops,
         Select!All, OpsInv, Dels, Stays, Select!Skip, Select!PastRead,
         Select!fd_sets, Select!waking, Select!IsNext
<1>7. WakingInv'
  BY DEF LoopInv, SelectTypes, Rows, LoopStates, SockStates, Select!Ops,
         Select!All, WakingInv, Select!Skip, Select!PastRead, Select!fd_sets,
         Select!waking, Select!IsNext
<1>8. CopiedInv'
  BY DEF LoopInv, SelectTypes, Rows, LoopStates, SockStates, Select!Ops,
         Select!All, CopiedInv, Select!Skip, Select!PastRead, Select!fd_sets,
         Select!waking, Select!IsNext
<1> QED BY <1>1, <1>2, <1>3, <1>4, <1>5, <1>6, <1>7, <1>8 DEF LoopInv

LEMMA HandleReadKeeps ==
  ASSUME Select!SelectAssumption, LoopInv, ~clash,
         NEW x \in Select!All, Select!HandleRead(x)
  PROVE  LoopInv'
<1>1. SelectTypes'
  <2>1. select_loop' \in LoopStates
    BY AtHandler, ProceedEffects DEF LoopInv, Select!HandleRead
  <2>2. sock' \in [Select!Fds -> SockStates]
    BY DEF LoopInv, SelectTypes, SockStates, Select!HandleRead
  <2>3. notified' \in BOOLEAN
    BY DEF LoopInv, SelectTypes, Select!HandleRead
  <2>4. UNCHANGED <<caller, read, write, max_fd, out, h, standby, active, handlers,
                    wakeup_flag, wake, clash>>
    BY DEF Select!HandleRead, Select!fd_sets
  <2> QED BY <2>1, <2>2, <2>3, <2>4 DEF LoopInv, SelectTypes
<1>2. WakeupInv'
  BY DEF LoopInv, SelectTypes, Rows, LoopStates, SockStates, Select!Ops,
         Select!All, WakeupInv, Select!HandleRead, Select!AtRead, Select!Proceed,
         Select!Fails, Select!fd_sets, Select!IsNext, Select!PastRead
<1>3. RoundInv'
  BY DEF LoopInv, SelectTypes, Rows, LoopStates, SockStates, Select!Ops,
         Select!All, RoundInv, Select!HandleRead, Select!AtRead, Select!Proceed,
         Select!Fails, Select!fd_sets, Select!IsNext, Select!PastRead
<1>4. DescriptorInv'
  BY DEF LoopInv, SelectTypes, Rows, LoopStates, SockStates, Select!Ops,
         Select!All, DescriptorInv, Select!HandleRead, Select!AtRead,
         Select!Proceed, Select!Fails, Select!fd_sets, Select!IsNext,
         Select!PastRead
<1>5. SetsInv'
  BY SetsInvFrame
     DEF LoopInv, Select!HandleRead, Select!AtRead, Select!Proceed, Select!Fails,
         Select!fd_sets, Select!IsNext, Select!PastRead
<1>6. OpsInv'
  BY DEF LoopInv, SelectTypes, Rows, LoopStates, SockStates, Select!Ops,
         Select!All, OpsInv, Dels, Stays, Select!HandleRead, Select!AtRead,
         Select!Proceed, Select!Fails, Select!fd_sets, Select!IsNext,
         Select!PastRead
<1>7. WakingInv'
  BY DEF LoopInv, SelectTypes, Rows, LoopStates, SockStates, Select!Ops,
         Select!All, WakingInv, Select!HandleRead, Select!AtRead, Select!Proceed,
         Select!Fails, Select!fd_sets, Select!IsNext, Select!PastRead
<1>8. CopiedInv'
  BY DEF LoopInv, SelectTypes, Rows, LoopStates, SockStates, Select!Ops,
         Select!All, CopiedInv, Select!HandleRead, Select!AtRead, Select!Proceed,
         Select!Fails, Select!fd_sets, Select!IsNext, Select!PastRead
<1> QED BY <1>1, <1>2, <1>3, <1>4, <1>5, <1>6, <1>7, <1>8 DEF LoopInv

(* A handler that fails is deleted by the loop, if it is registered.       *)
LEMMA FailedDeleted ==
  ASSUME Select!SelectAssumption, LoopInv, ~clash,
         NEW x \in Handlers, h[x].in_loop, Select!Unregister(x),
         Select!Emplace(x, "DEL"), Select!Notify, deleted' = deleted \cup {x},
         select_loop.pc \in {"handle", "written"}, select_loop' \in LoopStates,
         select_loop'.pc \in {"handle", "end"}, select_loop'.todo \subseteq handlers,
         UNCHANGED <<caller, out, active, handlers, wake, sock>>
  PROVE  LoopInv'
<1>0. /\ x \in Select!All /\ x # 0 /\ 0 \in Select!All
      /\ h \in [Select!All -> Rows] /\ h[x] \in Rows
  BY DEF LoopInv, SelectTypes, Select!All, Select!Wakeup, Select!SelectAssumption
<1>a. /\ h' \in [Select!All -> Rows]
      /\ h'[x].fd = h[x].fd /\ h'[x].in_loop = FALSE /\ h'[x].mask = {}
      /\ h'[x].pooled = h[x].pooled /\ h'[x].connecting = h[x].connecting
      /\ \A y \in Select!All : y # x => h'[y] = h[y]
      /\ read' \in SUBSET Select!Fds /\ write' \in SUBSET Select!Fds
      /\ max_fd' \in Select!Fds
      /\ \A y \in read' \cup write' : y <= max_fd'
      /\ \A f \in Select!Fds : f \in read' <=> f \in read /\ f # h[x].fd
      /\ \A f \in Select!Fds : f \in write' <=> f \in write /\ f # h[x].fd
      /\ read_size' = Cardinality(read') /\ write_size' = Cardinality(write')
  BY <1>0, UnregisterEffects
<1>b. /\ DOMAIN standby' \subseteq Select!All
      /\ standby' \in [DOMAIN standby' -> Select!Ops]
      /\ clash' \in BOOLEAN
      /\ ~clash' => /\ x \notin DOMAIN standby
                    /\ DOMAIN standby' = DOMAIN standby \cup {x}
                    /\ standby'[x] = "DEL"
                    /\ \A y \in DOMAIN standby : standby'[y] = standby[y]
  <2>1. "DEL" \in Select!Ops /\ SelectTypes
    BY DEF Select!Ops, LoopInv
  <2> QED BY <2>1, <1>0, EmplaceEffects
<1>c. UNCHANGED <<caller, out, active, handlers, sock>>
  OBVIOUS
<1>1. SelectTypes'
  <2>1. wakeup_flag' \in BOOLEAN /\ notified' \in BOOLEAN /\ wake' \in BOOLEAN
    BY DEF LoopInv, SelectTypes, Select!Notify
  <2> QED BY <2>1, <1>a, <1>b, <1>c DEF LoopInv, SelectTypes
<1>2. WakeupInv'
  BY <1>0, <1>a DEF LoopInv, WakeupInv
<1>3. RoundInv'
  BY <1>a DEF LoopInv, RoundInv
<1>4. DescriptorInv'
  <2>1. \A y \in Select!All : h'[y].fd = h[y].fd
    BY <1>a
  <2> QED BY <2>1, <1>a DEF LoopInv, DescriptorInv
<1>5. SetsInv'
  <2>1. \A y \in Select!All : h[y].fd = h[x].fd => y = x
    BY <1>0 DEF LoopInv, DescriptorInv
  <2>2. \A g \in Select!Fds :
          g \in read' <=> \E y \in Select!All : h'[y].fd = g /\ "read" \in h'[y].mask
    <3> TAKE g \in Select!Fds
    <3>2. g \in read <=> \E y \in Select!All : h[y].fd = g /\ "read" \in h[y].mask
      BY DEF LoopInv, SetsInv
    <3> QED BY <3>2, <2>1, <1>0, <1>a
  <2>3. \A g \in Select!Fds :
          g \in write' <=>
            \E y \in Select!All : h'[y].fd = g /\ "write" \in h'[y].mask
    <3> TAKE g \in Select!Fds
    <3>2. g \in write <=> \E y \in Select!All : h[y].fd = g /\ "write" \in h[y].mask
      BY DEF LoopInv, SetsInv
    <3> QED BY <3>2, <2>1, <1>0, <1>a
  <2> QED BY <2>2, <2>3, <1>a DEF SetsInv
<1>6. OpsInv'
  <2>0. clash' \in BOOLEAN
    BY <1>b
  <2> SUFFICES ASSUME ~clash'
               PROVE  OpsInv'
    BY DEF OpsInv
  <2>2. \A y \in Select!All : y # x =>
          /\ h'[y] = h[y]
          /\ y \in DOMAIN standby' <=> y \in DOMAIN standby
          /\ y \in DOMAIN standby => standby'[y] = standby[y]
    BY <1>a, <1>b
  <2>3. \A y \in Select!All : h'[y].in_loop <=> Stays(y)'
    <3> TAKE y \in Select!All
    <3>1. h[y].in_loop <=> Stays(y)
      BY DEF LoopInv, OpsInv
    <3>2. CASE y = x
      BY <3>2, <1>a, <1>b DEF Stays
    <3>3. CASE y # x
      BY <3>1, <3>3, <1>c, <2>2 DEF Stays
    <3> QED BY <3>2, <3>3
  <2>4. \A y \in Select!All : h'[y].pooled => /\ h'[y].fd = 0 /\ ~h'[y].in_loop
                                              /\ y \notin DOMAIN standby'
                                              /\ y \notin DOMAIN active'
    BY <2>2, <1>0, <1>a, <1>b, <1>c DEF LoopInv, OpsInv
  <2>5. x \notin deleted /\ ~Dels(x)
    BY <1>0 DEF LoopInv, OpsInv
  <2>6. \A y \in Select!All : Dels(y)' <=> Dels(y) \/ y = x
    BY <2>2, <2>5, <1>b, <1>c DEF Dels
  <2>7. \A y \in DOMAIN active' : active'[y] = "DEL" => y \notin DOMAIN standby'
    BY <2>2, <2>5, <1>b, <1>c DEF LoopInv, OpsInv, SelectTypes, Dels
  <2>8. /\ deleted' \in SUBSET Select!All
        /\ \A y \in Select!All : y \in deleted' <=> Dels(y)'
        /\ \A y \in deleted' : ~h'[y].in_loop
    BY <2>2, <2>6, <1>0, <1>a, <1>c DEF LoopInv, OpsInv
  <2>9. DOMAIN active' = {}
    BY <1>c DEF LoopInv, OpsInv
  <2> QED BY <2>3, <2>4, <2>7, <2>8, <2>9 DEF OpsInv
<1>7. WakingInv'
  BY DEF WakingInv
<1>8. CopiedInv'
  BY DEF CopiedInv
<1> QED BY <1>1, <1>2, <1>3, <1>4, <1>5, <1>6, <1>7, <1>8 DEF LoopInv

LEMMA HandleFailsKeeps ==
  ASSUME Select!SelectAssumption, LoopInv, ~clash,
         NEW x \in Select!All, Select!HandleFails(x)
  PROVE  LoopInv'
<1>1. /\ select_loop.pc \in {"handle", "written"} /\ select_loop.ready > 0
      /\ select_loop.todo \subseteq handlers
  BY AtHandler DEF Select!HandleFails
<1>2. /\ select_loop' \in LoopStates
      /\ select_loop'.pc \in {"handle", "end"}
      /\ select_loop'.todo \subseteq handlers
  <2>1. select_loop' = Select!Proceed(x, "handle") /\ SelectTypes
    BY DEF Select!HandleFails, LoopInv
  <2>2. select_loop'.pc \in {"handle", "end"}
    BY <2>1 DEF Select!Proceed
  <2> QED BY <1>1, <2>1, <2>2, ProceedEffects
<1>3. x \in Handlers
  <2>1. ~Select!Fails(0)
    BY DEF LoopInv, WakeupInv, Select!Fails, Select!None
  <2> QED BY <2>1 DEF Select!HandleFails, Select!All, Select!Wakeup
<1>4. UNCHANGED <<caller, out, active, handlers, wake, sock, unseen>>
  BY DEF Select!HandleFails
<1>5. CASE h[x].in_loop
  BY <1>1, <1>2, <1>3, <1>4, <1>5, FailedDeleted
     DEF Select!HandleFails, Select!DeleteFailed
<1>6. CASE ~h[x].in_loop
  <2>1. UNCHANGED <<read, write, read_size, write_size, max_fd, h, standby, clash,
                    wakeup_flag, notified, deleted>>
    BY <1>6 DEF Select!HandleFails, Select!DeleteFailed, Select!fd_sets
  <2>2. SelectTypes' /\ RoundInv' /\ OpsInv' /\ WakingInv' /\ CopiedInv'
    BY <2>1, <1>1, <1>2, <1>4 DEF LoopInv, SelectTypes, RoundInv, OpsInv, Dels, Stays,
       WakingInv, CopiedInv
  <2>3. WakeupInv' /\ DescriptorInv' /\ SetsInv'
    BY <2>1, <1>4, WakeupInvFrame, DescriptorInvFrame, SetsInvFrame DEF LoopInv
  <2> QED BY <2>2, <2>3 DEF LoopInv
<1> QED BY <1>5, <1>6

LEMMA HandleWriteKeeps ==
  ASSUME Select!SelectAssumption, LoopInv, ~clash,
         NEW x \in Select!All, Select!HandleWrite(x)
  PROVE  LoopInv'
<1>0. /\ select_loop' \in LoopStates
      /\ select_loop'.pc \in {"handle", "end"}
      /\ select_loop'.todo \subseteq handlers
      /\ select_loop.pc \in {"handle", "written"}
  <2>1. /\ select_loop.pc \in {"handle", "written"} /\ select_loop.ready > 0
        /\ select_loop.todo \subseteq handlers
    BY AtHandler DEF Select!HandleWrite
  <2>2. select_loop' = Select!Proceed(x, "handle") /\ SelectTypes
    BY DEF Select!HandleWrite, LoopInv
  <2>3. select_loop'.pc \in {"handle", "end"}
    BY <2>2 DEF Select!Proceed
  <2> QED BY <2>1, <2>2, <2>3, ProceedEffects
<1>a. UNCHANGED <<caller, read, read_size, max_fd, out, standby, active, handlers,
                  wakeup_flag, notified, wake, sock, deleted, clash, unseen>>
  BY DEF Select!HandleWrite, Select!waking
<1>b. h \in [Select!All -> Rows] /\ h[x] \in Rows /\ write \in SUBSET Select!Fds
  BY DEF LoopInv, SelectTypes
<1>c. CASE ~(h[x].in_loop /\ "write" \in h[x].mask)
  <2>1. UNCHANGED <<write, write_size, h>>
    BY <1>c DEF Select!HandleWrite
  <2>2. SelectTypes' /\ RoundInv' /\ OpsInv' /\ WakingInv' /\ CopiedInv'
    BY <2>1, <1>0, <1>a DEF LoopInv, SelectTypes, RoundInv, OpsInv, Dels, Stays,
       WakingInv, CopiedInv
  <2>3. WakeupInv' /\ DescriptorInv' /\ SetsInv'
    BY <2>1, <1>a, WakeupInvFrame, DescriptorInvFrame, SetsInvFrame DEF LoopInv
  <2> QED BY <2>2, <2>3 DEF LoopInv
<1>d. CASE h[x].in_loop /\ "write" \in h[x].mask
  <2>a. /\ write' = write \ {h[x].fd} /\ write_size' = write_size - 1
        /\ h' = [h EXCEPT ![x] = [h[x] EXCEPT !.mask = h[x].mask \ {"write"}]]
    BY <1>d DEF Select!HandleWrite
  <2>b. /\ h' \in [Select!All -> Rows]
        /\ h'[x].fd = h[x].fd /\ h'[x].in_loop = h[x].in_loop
        /\ h'[x].mask = h[x].mask \ {"write"}
        /\ h'[x].pooled = h[x].pooled /\ h'[x].connecting = h[x].connecting
        /\ \A y \in Select!All : y # x => h'[y] = h[y]
    <3>1. h[x].mask \ {"write"} \in SUBSET {"read", "write"}
      BY <1>b DEF Rows
    <3>2. [h[x] EXCEPT !.mask = h[x].mask \ {"write"}] \in Rows
      BY <3>1, <1>b, RowMask
    <3>3. /\ h' \in [Select!All -> Rows]
          /\ h'[x] = [h[x] EXCEPT !.mask = h[x].mask \ {"write"}]
          /\ \A y \in Select!All : y # x => h'[y] = h[y]
      BY <3>2, <2>a, <1>b, Changed
    <3> QED BY <3>1, <3>3, <1>b, RowMask
  <2>c. /\ h[x].fd \in Select!Fds /\ h[x].fd # 0 /\ ~h[x].connecting
        /\ "read" \in h[x].mask /\ x # 0
    BY <1>b, <1>d DEF LoopInv, DescriptorInv, WakeupInv, Rows, Select!HandleWrite
  <2>1. SelectTypes'
    BY <2>a, <2>b, <1>0, <1>a, <1>b DEF LoopInv, SelectTypes
  <2>2. WakeupInv'
    BY <2>b, <2>c, <1>a DEF LoopInv, WakeupInv, Select!All, Select!Wakeup
  <2>3. RoundInv'
    BY <2>b, <1>0, <1>a DEF LoopInv, RoundInv
  <2>4. DescriptorInv'
    <3>1. \A y \in Select!All : /\ h'[y].fd = h[y].fd /\ h'[y].in_loop = h[y].in_loop
                                /\ h'[y].connecting = h[y].connecting
                                /\ y # x => h'[y].mask = h[y].mask
      BY <2>b
    <3>2. h'[x].in_loop /\ ~h'[x].connecting /\ "read" \in h'[x].mask
      BY <2>b, <2>c, <1>d
    <3> QED BY <3>1, <3>2, <1>a DEF LoopInv, DescriptorInv
  <2>5. SetsInv'
    <3>1. \A y \in Select!All : h[y].fd = h[x].fd => y = x
      BY <2>c DEF LoopInv, DescriptorInv
    <3>2. /\ \A g \in Select!Fds :
               g \in read <=>
                 \E y \in Select!All : h[y].fd = g /\ "read" \in h[y].mask
          /\ \A g \in Select!Fds :
               g \in write <=>
                 \E y \in Select!All : h[y].fd = g /\ "write" \in h[y].mask
          /\ read_size = Cardinality(read) /\ write_size = Cardinality(write)
          /\ \A f \in read \cup write : f <= max_fd
      BY DEF LoopInv, SetsInv
    <3>3. h[x].fd \in write
      BY <3>2, <2>c, <1>d
    <3>4. write_size' = Cardinality(write')
      BY <3>2, <3>3, <2>a, <2>c, <1>b, OneMore
    <3>5. \A g \in Select!Fds :
            g \in read' <=>
              \E y \in Select!All : h'[y].fd = g /\ "read" \in h'[y].mask
      <4>1. \A y \in Select!All : /\ h'[y].fd = h[y].fd
                                  /\ "read" \in h'[y].mask <=> "read" \in h[y].mask
        BY <2>b
      <4> QED BY <4>1, <3>2, <1>a
    <3>6. \A g \in Select!Fds :
            g \in write' <=>
              \E y \in Select!All : h'[y].fd = g /\ "write" \in h'[y].mask
      <4>1. \A y \in Select!All :
              /\ h'[y].fd = h[y].fd
              /\ "write" \in h'[y].mask <=> "write" \in h[y].mask /\ y # x
        BY <2>b
      <4> QED BY <4>1, <3>1, <3>2, <2>a
    <3> QED BY <3>2, <3>4, <3>5, <3>6, <2>a, <1>a DEF SetsInv
  <2>6. OpsInv'
    <3>1. \A y \in Select!All : /\ h'[y].fd = h[y].fd /\ h'[y].in_loop = h[y].in_loop
                                /\ h'[y].pooled = h[y].pooled
      BY <2>b
    <3>2. DOMAIN active = {}
      BY <1>0 DEF LoopInv, OpsInv
    <3> QED BY <3>1, <3>2, <1>a DEF LoopInv, OpsInv, Dels, Stays
  <2>7. WakingInv' /\ CopiedInv'
    BY <1>0 DEF WakingInv, CopiedInv
  <2> QED BY <2>1, <2>2, <2>3, <2>4, <2>5, <2>6, <2>7 DEF LoopInv
<1> QED BY <1>c, <1>d

LEMMA ConnectedKeeps ==
  ASSUME Select!SelectAssumption, LoopInv, ~clash,
         NEW x \in Select!All, Select!Connected(x)
  PROVE  LoopInv'
<1>0. /\ select_loop' \in LoopStates
      /\ select_loop'.pc \in {"handle", "end"}
      /\ select_loop'.todo \subseteq handlers
      /\ select_loop.pc \in {"handle", "written"}
  <2>1. /\ select_loop.pc \in {"handle", "written"} /\ select_loop.ready > 0
        /\ select_loop.todo \subseteq handlers
    BY AtHandler DEF Select!Connected
  <2>2. select_loop' = Select!Proceed(x, "handle") /\ SelectTypes
    BY DEF Select!Connected, LoopInv
  <2>3. select_loop'.pc \in {"handle", "end"}
    BY <2>2 DEF Select!Proceed
  <2> QED BY <2>1, <2>2, <2>3, ProceedEffects
<1>a. UNCHANGED <<caller, max_fd, out, standby, active, handlers,
                  wakeup_flag, notified, wake, sock, deleted, clash, unseen>>
  BY DEF Select!Connected, Select!waking
<1>b. /\ h \in [Select!All -> Rows] /\ h[x] \in Rows
      /\ read \in SUBSET Select!Fds /\ write \in SUBSET Select!Fds
      /\ h[x].connecting /\ x # 0
  BY DEF LoopInv, SelectTypes, WakeupInv, Select!Connected
<1> DEFINE m == IF h[x].in_loop THEN {"read"} ELSE {}
<1>c. /\ h[x].mask = IF h[x].in_loop THEN {"write"} ELSE {}
      /\ h[x].in_loop => h[x].fd \in Select!Fds /\ h[x].fd # 0
  BY <1>b DEF LoopInv, DescriptorInv, Rows
<1>d. /\ h' \in [Select!All -> Rows]
      /\ h'[x].fd = h[x].fd /\ h'[x].in_loop = h[x].in_loop
      /\ h'[x].mask = m
      /\ h'[x].pooled = h[x].pooled /\ h'[x].connecting = FALSE
      /\ \A y \in Select!All : y # x => h'[y] = h[y]
  <2>0. (IF h[x].in_loop THEN {"read"} \ h[x].mask ELSE h[x].mask) = m
    BY <1>c
  <2>a. h' = [h EXCEPT ![x] = [h[x] EXCEPT
               !.mask = IF h[x].in_loop THEN {"read"} \ h[x].mask ELSE h[x].mask,
               !.connecting = FALSE]]
    BY DEF Select!Connected
  <2>2. m \in SUBSET {"read", "write"}
    OBVIOUS
  <2> HIDE DEF m
  <2>1. h' = [h EXCEPT ![x] = [h[x] EXCEPT !.mask = m, !.connecting = FALSE]]
    BY <2>0, <2>a
  <2>3. [h[x] EXCEPT !.mask = m, !.connecting = FALSE] \in Rows
    BY <2>2, <1>b, RowConnected
  <2>4. /\ h' \in [Select!All -> Rows]
        /\ h'[x] = [h[x] EXCEPT !.mask = m, !.connecting = FALSE]
        /\ \A y \in Select!All : y # x => h'[y] = h[y]
    BY <2>1, <2>3, <1>b, Changed
  <2>5. LET s == [h[x] EXCEPT !.mask = m, !.connecting = FALSE]
        IN  /\ s.fd = h[x].fd /\ s.in_loop = h[x].in_loop /\ s.mask = m
            /\ s.pooled = h[x].pooled /\ s.connecting = FALSE
    BY <2>2, <1>b, RowConnected
  <2> QED BY <2>4, <2>5
<1>e. \A y \in Select!All : /\ h'[y].fd = h[y].fd /\ h'[y].in_loop = h[y].in_loop
                            /\ h'[y].pooled = h[y].pooled
                            /\ y # x => h'[y] = h[y]
  BY <1>d
<1>f. /\ h[x].in_loop => /\ read' = read \cup {h[x].fd} /\ read_size' = read_size + 1
                         /\ write' = write \ {h[x].fd} /\ write_size' = write_size - 1
      /\ ~h[x].in_loop => UNCHANGED <<read, read_size, write, write_size>>
  <2>1. CASE h[x].in_loop
    <3>1. h[x].mask = {"write"} /\ {"read"} \ h[x].mask = {"read"}
      BY <1>c, <2>1
    <3>2. Cardinality({"read"} \ h[x].mask) = 1
      BY <3>1, FS_Singleton
    <3>3. h[x].mask \cap {"write"} = {"write"}
      BY <3>1
    <3>4. Cardinality(h[x].mask \cap {"write"}) = 1
      BY <3>3, FS_Singleton
    <3>5. /\ read' = read \cup {h[x].fd}
          /\ read_size' = read_size + Cardinality({"read"} \ h[x].mask)
          /\ write' = IF "write" \in h[x].mask THEN write \ {h[x].fd} ELSE write
          /\ write_size' = write_size - Cardinality(h[x].mask \cap {"write"})
      BY <2>1, SameCardinality DEF Select!Connected
    <3> QED BY <2>1, <3>1, <3>2, <3>4, <3>5
  <2>2. CASE ~h[x].in_loop
    BY <2>2 DEF Select!Connected
  <2> QED BY <2>1, <2>2
<1>1. SelectTypes'
  <2>1. read' \in SUBSET Select!Fds /\ write' \in SUBSET Select!Fds
    BY <1>b, <1>c, <1>f DEF Rows
  <2> QED BY <2>1, <1>0, <1>a, <1>d DEF LoopInv, SelectTypes
<1>2. WakeupInv'
  BY <1>a, <1>b, <1>e DEF LoopInv, WakeupInv, Select!All, Select!Wakeup
<1>3. RoundInv'
  BY <1>0, <1>a, <1>e DEF LoopInv, RoundInv
<1>4. DescriptorInv'
  BY <1>a, <1>d, <1>e DEF LoopInv, DescriptorInv
<1>5. SetsInv'
  <2>1. CASE ~h[x].in_loop
    <3>1. \A y \in Select!All : h'[y].fd = h[y].fd /\ h'[y].mask = h[y].mask
      BY <2>1, <1>c, <1>d
    <3> QED BY <2>1, <3>1, <1>a, <1>f DEF LoopInv, SetsInv
  <2>2. CASE h[x].in_loop
    <3>1. \A y \in Select!All : h[y].fd = h[x].fd => y = x
      BY <2>2, <1>c DEF LoopInv, DescriptorInv
    <3>2. /\ \A g \in Select!Fds :
               g \in read <=>
                 \E y \in Select!All : h[y].fd = g /\ "read" \in h[y].mask
          /\ \A g \in Select!Fds :
               g \in write <=>
                 \E y \in Select!All : h[y].fd = g /\ "write" \in h[y].mask
          /\ read_size = Cardinality(read) /\ write_size = Cardinality(write)
          /\ \A f \in read \cup write : f <= max_fd
      BY DEF LoopInv, SetsInv
    <3>3. h[x].mask = {"write"} /\ h[x].fd \in Select!Fds
      BY <2>2, <1>c
    <3>4. h[x].fd \in write /\ h[x].fd \notin read
      BY <3>1, <3>2, <3>3
    <3>5. read_size' = Cardinality(read') /\ write_size' = Cardinality(write')
      BY <2>2, <3>2, <3>3, <3>4, <1>b, <1>f, OneMore
    <3>6. \A g \in Select!Fds :
            g \in read' <=>
              \E y \in Select!All : h'[y].fd = g /\ "read" \in h'[y].mask
      <4>1. \A y \in Select!All :
              /\ h'[y].fd = h[y].fd
              /\ "read" \in h'[y].mask <=> "read" \in h[y].mask \/ y = x
        BY <2>2, <1>d
      <4>2. read' = read \cup {h[x].fd}
        BY <2>2, <1>f
      <4> QED BY <4>1, <4>2, <3>1, <3>2
    <3>7. \A g \in Select!Fds :
            g \in write' <=>
              \E y \in Select!All : h'[y].fd = g /\ "write" \in h'[y].mask
      <4>1. \A y \in Select!All :
              /\ h'[y].fd = h[y].fd
              /\ "write" \in h'[y].mask <=> "write" \in h[y].mask /\ y # x
        BY <2>2, <1>d
      <4>2. write' = write \ {h[x].fd}
        BY <2>2, <1>f
      <4> QED BY <4>1, <4>2, <3>1, <3>2
    <3>8. \A f \in read' \cup write' : f <= max_fd'
      BY <2>2, <3>2, <3>4, <1>a, <1>f
    <3> QED BY <3>5, <3>6, <3>7, <3>8 DEF SetsInv
  <2> QED BY <2>1, <2>2
<1>6. OpsInv'
  <2>1. DOMAIN active = {}
    BY <1>0 DEF LoopInv, OpsInv
  <2> QED BY <2>1, <1>a, <1>e DEF LoopInv, OpsInv, Dels, Stays
<1>7. WakingInv' /\ CopiedInv'
  BY <1>0 DEF WakingInv, CopiedInv
<1> QED BY <1>1, <1>2, <1>3, <1>4, <1>5, <1>6, <1>7 DEF LoopInv

LEMMA EndRoundKeeps ==
  ASSUME Select!SelectAssumption, LoopInv, ~clash,
         Select!EndRound
  PROVE  LoopInv'
<1>1. SelectTypes'
  BY DEF LoopInv, SelectTypes, Rows, LoopStates, SockStates, Select!Ops,
         Select!All, Select!EndRound, Select!fd_sets, WakeupInv, DescriptorInv,
         Select!Fds, Select!Wakeup, Select!None, Select!SelectAssumption
<1>2. WakeupInv'
  BY WakeupInvFrame DEF LoopInv, Select!EndRound, Select!fd_sets
<1>3. RoundInv'
  BY DEF LoopInv, SelectTypes, Rows, LoopStates, SockStates, Select!Ops,
         Select!All, RoundInv, Select!EndRound, Select!fd_sets
<1>4. DescriptorInv'
  BY DescriptorInvFrame DEF LoopInv, Select!EndRound, Select!fd_sets
<1>5. SetsInv'
  BY SetsInvFrame DEF LoopInv, Select!EndRound, Select!fd_sets
<1>6. OpsInv'
  BY DEF LoopInv, SelectTypes, Rows, LoopStates, SockStates, Select!Ops,
         Select!All, OpsInv, Dels, Stays, Select!EndRound, Select!fd_sets
<1>7. WakingInv'
  BY DEF LoopInv, SelectTypes, Rows, LoopStates, SockStates, Select!Ops,
         Select!All, WakingInv, Select!EndRound, Select!fd_sets
<1>8. CopiedInv'
  BY DEF LoopInv, SelectTypes, Rows, LoopStates, SockStates, Select!Ops,
         Select!All, CopiedInv, Select!EndRound, Select!fd_sets
<1> QED BY <1>1, <1>2, <1>3, <1>4, <1>5, <1>6, <1>7, <1>8 DEF LoopInv

-----------------------------------------------------------------------------
(* The loop and its handlers begin well, and every step keeps them so.     *)
LEMMA InitLoopInv == Select!SelectAssumption /\ Select!Init => LoopInv
<1> SUFFICES ASSUME Select!SelectAssumption, Select!Init
             PROVE  LoopInv
  OBVIOUS
<1>0. /\ 0 \in Select!All /\ 1 \in Select!Fds /\ h[0].fd = 1 /\ h[0].in_loop
      /\ h[0].mask = {"read"} /\ ~h[0].pooled /\ ~h[0].connecting
      /\ \A x \in Select!All : x # 0 => /\ h[x].fd = 0 /\ ~h[x].in_loop
                                        /\ h[x].mask = {} /\ ~h[x].connecting
  BY DEF Select!Init, Select!All, Select!Wakeup, Select!None, Select!Fds,
         Select!SelectAssumption
<1>1. SelectTypes
  <2>1. h \in [Select!All -> Rows]
    BY <1>0 DEF Select!Init, Select!None, Rows
  <2>2. sock \in [Select!Fds -> SockStates]
    BY DEF Select!Init, SockStates
  <2>3. select_loop \in LoopStates
    BY <1>0 DEF Select!Init, LoopStates, Select!None
  <2>4. /\ read \in SUBSET Select!Fds /\ write \in SUBSET Select!Fds
        /\ max_fd \in Select!Fds
        /\ out \in [read : SUBSET Select!Fds, write : SUBSET Select!Fds]
    BY <1>0 DEF Select!Init
  <2>5. /\ DOMAIN standby \subseteq Select!All /\ DOMAIN active \subseteq Select!All
        /\ standby \in [DOMAIN standby -> Select!Ops]
        /\ active \in [DOMAIN active -> Select!Ops]
    BY <1>0 DEF Select!Init, Select!Wakeup, Select!Ops
  <2> QED BY <2>1, <2>2, <2>3, <2>4, <2>5 DEF Select!Init, SelectTypes
<1>2. WakeupInv
  BY <1>0 DEF Select!Init, WakeupInv, Select!Wakeup
<1>3. RoundInv
  BY DEF Select!Init, RoundInv
<1>4. DescriptorInv
  BY <1>0 DEF Select!Init, DescriptorInv
<1>5. SetsInv
  <2>1. Cardinality({1}) = 1 /\ Cardinality({}) = 0
    BY FS_Singleton, FS_EmptySet
  <2> QED BY <2>1, <1>0 DEF Select!Init, SetsInv
<1>6. OpsInv
  <2>1. DOMAIN standby = {0} /\ standby[0] = "ADD" /\ DOMAIN active = {}
        /\ handlers = {} /\ deleted = {}
    BY DEF Select!Init, Select!Wakeup
  <2> QED BY <2>1, <1>0 DEF OpsInv, Stays, Dels
<1>7. WakingInv /\ CopiedInv
  BY DEF Select!Init, WakingInv, CopiedInv
<1> QED BY <1>1, <1>2, <1>3, <1>4, <1>5, <1>6, <1>7 DEF LoopInv

LEMMA StutterLoopInv == LoopInv /\ UNCHANGED selectVars => LoopInv'
BY SelectTypesFrame, WakeupInvFrame, RoundInvFrame, DescriptorInvFrame, SetsInvFrame,
   OpsInvFrame, WakingInvFrame, CopiedInvFrame DEF LoopInv, selectVars

LEMMA SelectStep ==
  ASSUME Select!SelectAssumption, LoopInv, Select!Next
  PROVE  LoopInv'
<1>0. ~clash
  BY DEF Select!Next, Select!Others, Select!LoopWakeup, Select!LoopThread
<1>1. CASE Select!LoopWakeup
  BY <1>0, <1>1, LoopWakeupKeeps
<1>2. CASE Select!Others
  <2>1. ASSUME NEW f \in Select!Fds \ {1}, Select!Network(f)
        PROVE  LoopInv'
    BY <2>1, <1>0, ChangeKeeps DEF Select!Network
  <2>2. ASSUME NEW x \in Handlers, Select!AddHandler(x, {"read"})
               \/ Select!AddHandler(x, {"write"})
        PROVE  LoopInv'
    BY <2>2, <1>0, AddHandlerKeeps
  <2>3. ASSUME NEW x \in Handlers, Select!DeleteHandler(x) \/ Select!RemoveHandler(x)
        PROVE  LoopInv'
    BY <2>3, <1>0, DeleteHandlerKeeps, RemoveHandlerKeeps
  <2>4. ASSUME NEW x \in Handlers, Select!CloseRemoved(x) \/ Select!AddEvent(x)
        PROVE  LoopInv'
    BY <2>4, <1>0, CloseRemovedKeeps, AddEventKeeps
  <2> QED BY <2>1, <2>2, <2>3, <2>4, <1>2 DEF Select!Others, Select!Calls
<1>3. CASE Select!LoopThread
  <2>1. CASE Select!Copy \/ Select!Applied
    BY <2>1, <1>0, CopyKeeps, AppliedKeeps
  <2>2. CASE Select!Select \/ Select!SelectFails \/ Select!EndRound
    BY <2>2, <1>0, SelectKeeps, SelectFailsKeeps, EndRoundKeeps
  <2>3. ASSUME NEW x \in Select!All, Select!Apply(x) \/ Select!Skip(x)
        PROVE  LoopInv'
    BY <2>3, <1>0, ApplyKeeps, SkipKeeps
  <2>4. ASSUME NEW x \in Select!All, Select!HandleRead(x) \/ Select!HandleFails(x)
        PROVE  LoopInv'
    BY <2>4, <1>0, HandleReadKeeps, HandleFailsKeeps
  <2>5. ASSUME NEW x \in Select!All, Select!HandleWrite(x) \/ Select!Connected(x)
        PROVE  LoopInv'
    BY <2>5, <1>0, HandleWriteKeeps, ConnectedKeeps
  <2> QED BY <2>1, <2>2, <2>3, <2>4, <2>5, <1>3 DEF Select!LoopThread
<1> QED BY <1>1, <1>2, <1>3 DEF Select!Next

LEMMA LoopInvariant == AllSpec => []LoopInv
<1>1. AllInit => LoopInv
  BY InitLoopInv, LoopsAssumption DEF AllInit, SelectStill
<1>2. LoopInv /\ [AllNext]_allVars => LoopInv'
  <2> SUFFICES ASSUME LoopInv, [AllNext]_allVars
               PROVE  LoopInv'
    OBVIOUS
  <2>1. CASE Select!Next
    BY <2>1, SelectStep, LoopsAssumption
  <2>2. CASE UNCHANGED selectVars
    BY <2>2, StutterLoopInv
  <2> QED BY <2>1, <2>2 DEF AllNext, allVars
<1> QED BY <1>1, <1>2, PTL DEF AllSpec

(* SetsAgree: whoever adds, deletes, removes and closes handlers, in       *)
(* whatever order and in the middle of a round, fd_set_in_, its counters,  *)
(* max_fd_ and the masks of the handlers agree, and handlers_ will be the  *)
(* set of the registered handlers.                                         *)
THEOREM SetsAlwaysAgree == AllSpec => []SetsAgree
<1>1. LoopInv => Select!SetsAgree
  <2> SUFFICES ASSUME LoopInv
               PROVE  Select!SetsAgree
    OBVIOUS
  <2>1. Select!TypeOK
    BY DEF LoopInv, SelectTypes, LoopStates, Select!TypeOK
  <2>2. ASSUME ~clash
        PROVE  /\ read = { h[x].fd : x \in Select!Watching("read") }
               /\ write = { h[x].fd : x \in Select!Watching("write") }
    <3>1. \A e \in {"read", "write"} : Select!Watching(e) =
            { x \in Select!All : h[x].in_loop /\ e \in h[x].mask }
      BY DEF Select!Watching
    <3>2. \A x \in Select!All : /\ h[x].fd \in Select!Fds \cup {0}
                                /\ h[x].mask # {} => h[x].in_loop /\ h[x].fd # 0
      BY DEF LoopInv, SelectTypes, Rows, DescriptorInv
    <3>3. read = { h[x].fd : x \in Select!Watching("read") }
      BY <2>2, <3>1, <3>2 DEF LoopInv, SelectTypes, SetsInv
    <3>4. write = { h[x].fd : x \in Select!Watching("write") }
      BY <2>2, <3>1, <3>2 DEF LoopInv, SelectTypes, SetsInv
    <3> QED BY <3>3, <3>4
  <2>3. ASSUME ~clash
        PROVE  /\ read_size = Select!Cardinality(read)
               /\ write_size = Select!Cardinality(write)
    BY <2>3, SameCardinality DEF LoopInv, SetsInv
  <2>4. ASSUME ~clash
        PROVE  \A f \in read \cup write : f <= max_fd /\ sock[f] # "closed"
    BY <2>4 DEF LoopInv, SelectTypes, SetsInv, DescriptorInv, Select!Fds
  <2>5. ASSUME ~clash, NEW x \in Select!All
        PROVE  h[x].in_loop = Select!WillBeIn(x)
    <3>1. Select!WillBeIn(x) <=> Stays(x)
      BY DEF Select!WillBeIn, Stays
    <3>2. Select!WillBeIn(x) \in BOOLEAN
      <4>1. /\ (standby[x] = "ADD") \in BOOLEAN /\ (active[x] = "ADD") \in BOOLEAN
            /\ (x \in handlers) \in BOOLEAN
        OBVIOUS
      <4> QED BY <4>1, Zenon DEF Select!WillBeIn
    <3>3. h[x].in_loop \in BOOLEAN /\ (h[x].in_loop <=> Stays(x))
      BY <2>5 DEF LoopInv, SelectTypes, Rows, OpsInv
    <3> QED BY <3>1, <3>2, <3>3
  <2> QED BY <2>1, <2>2, <2>3, <2>4, <2>5 DEF Select!SetsAgree
<1>2. LoopInv => SetsAgree
  BY <1>1 DEF SetsAgree
<1> QED BY <1>2, LoopInvariant, PTL

(* NeverFreed: a handler that delete_handler() was called for, by whichever*)
(* thread and in the middle of a round, goes back to its pool only when    *)
(* the loop has it no longer in handlers_.                                 *)
THEOREM FreedAreNotCalled == AllSpec => []NeverFreed
<1>1. LoopInv => Select!NeverFreed
  BY AtHandler DEF LoopInv, RoundInv, Select!NeverFreed
<1>2. LoopInv => NeverFreed
  BY <1>1 DEF NeverFreed
<1> QED BY <1>2, LoopInvariant, PTL

(* SleepsWhenIdle: when the loop sleeps in select(), every operation left  *)
(* in temp_handlers_standby_ is a removal, and no registered handler has   *)
(* anything to do but what add_event() asked for after the sets were       *)
(* copied.                                                                 *)
THEOREM SleepsOnlyIdle == AllSpec => []SleepsWhenIdle
<1>1. LoopInv => Select!SleepsWhenIdle
  <2> SUFFICES ASSUME LoopInv, Select!Asleep
               PROVE  /\ deleted = {}
                      /\ \A x \in DOMAIN standby : standby[x] = "REMOVE"
                      /\ \A x \in Handlers : h[x].in_loop =>
                           /\ "read" \in h[x].mask => ~Select!Readable(h[x].fd)
                           /\ ("write" \in h[x].mask /\ x \notin unseen)
                                => ~Select!Writable(h[x].fd)
    BY DEF Select!SleepsWhenIdle
  <2>1. /\ select_loop.pc = "select" /\ ~clash /\ ~wake
        /\ Select!ReadyRead = {} /\ Select!ReadyWrite = {}
    BY DEF Select!Asleep
  <2>2. 1 \in out.read /\ 1 \in Select!Fds /\ 1 <= max_fd /\ max_fd \in Nat
    BY <2>1 DEF LoopInv, SelectTypes, CopiedInv, Select!Fds, Select!SelectAssumption
  <2>3. ~notified
    BY <2>1, <2>2 DEF Select!ReadyRead, Select!Readable
  <2>4. \A x \in DOMAIN standby : standby[x] = "REMOVE"
    BY <2>1, <2>3 DEF LoopInv, WakingInv
  <2>5. deleted = {}
    BY <2>1, <2>4 DEF LoopInv, SelectTypes, OpsInv, Dels
  <2>6. ASSUME NEW x \in Handlers, h[x].in_loop
        PROVE  /\ "read" \in h[x].mask => ~Select!Readable(h[x].fd)
               /\ ("write" \in h[x].mask /\ x \notin unseen)
                    => ~Select!Writable(h[x].fd)
    <3>1. /\ x \in Select!All
          /\ "read" \in h[x].mask => h[x].fd \in out.read
          /\ "write" \in h[x].mask => x \in unseen \/ h[x].fd \in out.write
      BY <2>1, <2>4, <2>6 DEF LoopInv, CopiedInv, Select!All
    <3>2. h[x].fd \in Select!Fds
      BY <2>6, <3>1 DEF LoopInv, SelectTypes, Rows, DescriptorInv
    <3>3. h[x].mask # {} => h[x].fd <= max_fd
      BY <2>1, <3>1, <3>2 DEF LoopInv, SelectTypes, Rows, SetsInv
    <3> QED BY <2>1, <3>1, <3>3 DEF Select!ReadyRead, Select!ReadyWrite
  <2> QED BY <2>4, <2>5, <2>6
<1>2. LoopInv => SleepsWhenIdle
  BY <1>1 DEF SleepsWhenIdle
<1> QED BY <1>2, LoopInvariant, PTL
=============================================================================
