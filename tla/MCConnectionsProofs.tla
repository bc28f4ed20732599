------------------------- MODULE MCConnectionsProofs -------------------------
(***************************************************************************)
(* Theorems about the connections, as MCConnections combines them: the     *)
(* invariants of TcpServer and of TcpClient (Client!), each with the       *)
(* inductive invariant it needs, for every value of the constants.         *)
(***************************************************************************)
EXTENDS MCConnections, FiniteSetTheorems, WellFoundedInduction, TLAPS

(* A set of numbers has a least one, so Min of it is that one.             *)
Less == {ss \in Nat \X Nat : ss[1] < ss[2]}

LEMMA LessWF == IsWellFoundedOn(Less, Nat)
BY NatLessThanWellFounded DEF OpToRel, Less

LEMMA LeastExists ==
  ASSUME NEW T, T \subseteq Nat, T # {}
  PROVE  \E n \in T : \A m \in T : n <= m
<1>1. PICK n \in T : \A m \in T : ~(<<m, n>> \in Less)
  BY LessWF, WFMin
<1>2. \A m \in T : m < n => <<m, n>> \in Less
  BY DEF Less
<1>3. \A m \in T : n <= m
  <2> TAKE m \in T
  <2>1. ~(m < n)
    BY <1>1, <1>2
  <2> QED BY <2>1
<1> QED BY <1>3

LEMMA Least ==
  ASSUME NEW T, T \subseteq Nat, T # {}
  PROVE  Min(T) \in T /\ Client!Min(T) \in T
BY LeastExists DEF Min, Client!Min

-----------------------------------------------------------------------------
(* TcpClient.  What each place of a call relies on, all calls being made   *)
(* in the loop thread: Consistent between two of them, Unregistered with   *)
(* the descriptors in S still open while one opens or closes.              *)
States == {"closed", "connecting", "connected"}
Masks == SUBSET {"read", "write"}
CallPlaces == {"none", "connect", "start", "add_read", "add_write", "remove", "close",
           "forget", "delete", "handle_close", "handle_forget", "free"}
ConnStates == {"none", "opened", "connecting", "up", "failed", "closed"}

ClientTypes ==
  /\ caller \in Client!Threads /\ source_state \in States
  /\ auto_connected \in BOOLEAN
  /\ h \in [fd : Client!Fds \cup {0}, in_event_loop : BOOLEAN, mask : Masks]
  /\ client_sock \in [Client!Fds -> Client!Conns \cup {0}]
  /\ client_conn \in [Client!Conns -> ConnStates]
  /\ client_epoll \in [Client!Fds -> Masks]
  /\ call \in [Client!Threads -> CallPlaces]
  /\ fd \in [Client!Threads -> Client!Fds \cup {0}]
  /\ opens \in 0 .. MaxOpens

ClientRegistered == /\ h.fd \in Client!Fds /\ Client!OpenFds = {h.fd}
                    /\ client_epoll[h.fd] = h.mask /\ h.mask # {}
Unregistered(S) == ~h.in_event_loop /\ Client!OpenFds \subseteq S
Consistent ==
  IF h.in_event_loop
  THEN /\ ClientRegistered /\ source_state # "closed"
       /\ h.mask = IF source_state = "connecting" THEN {"write"} ELSE {"read"}
  ELSE Client!OpenFds = {}
Opening == /\ ~h.in_event_loop /\ fd["loop"] \in Client!Fds
           /\ Client!OpenFds = {fd["loop"]}

Placed ==
  /\ call["loop"] \in {"none", "connect", "delete"} => Consistent
  /\ call["loop"] = "start" => Opening /\ source_state = "connecting"
  /\ call["loop"] = "add_write" =>
       Opening /\ h.fd = fd["loop"] /\ source_state = "connecting"
  /\ call["loop"] = "add_read" =>
       Opening /\ h.fd = fd["loop"] /\ source_state = "connected"
  /\ call["loop"] = "remove" =>
       IF h.in_event_loop THEN ClientRegistered ELSE Client!OpenFds = {}
  /\ call["loop"] \in {"close", "handle_close"} => Unregistered({h.fd})
  /\ call["loop"] \in {"forget", "handle_forget", "free"} => Unregistered({})

ClientInv == /\ ClientTypes
             /\ caller = "loop" => call["user"] = "none" /\ Placed

LEMMA InitClientInv == Client!ClientAssumption /\ Client!Init => ClientInv
<1> SUFFICES ASSUME Client!ClientAssumption, Client!Init
             PROVE  ClientInv
  OBVIOUS
<1>1. ClientTypes
  BY DEF Client!ClientAssumption, Client!Init, ClientTypes, States, Masks, CallPlaces,
         ConnStates, Client!Threads, Client!None, Client!Fds, Client!Conns
<1>2. Client!OpenFds = {} /\ ~h.in_event_loop
  BY DEF Client!Init, Client!OpenFds, Client!None
<1>3. call["loop"] = "none" /\ call["user"] = "none"
  BY DEF Client!Init, Client!Threads
<1> QED BY <1>1, <1>2, <1>3 DEF ClientInv, Placed, Consistent

(* What closing a descriptor does.                                         *)
LEMMA CloseFdLemma ==
  ASSUME ClientTypes, NEW f \in Client!Fds \cup {0}, Client!CloseFd(f)
  PROVE  /\ client_sock' \in [Client!Fds -> Client!Conns \cup {0}]
         /\ client_conn' \in [Client!Conns -> ConnStates]
         /\ client_epoll' \in [Client!Fds -> Masks]
         /\ Client!OpenFds' = Client!OpenFds \ {f}
BY DEF ClientTypes, Client!CloseFd, Client!OpenFds, Client!None, Client!Fds,
       Client!Conns, ConnStates, Masks

(* Every step of the client, in turn: what it does to the types, and where *)
(* all calls are made in the loop thread, what it does to their places.    *)
ByPlace == call["user"] = "none" /\ Placed

LEMMA TwoParts ==
  ASSUME ClientTypes', (caller = "loop")' => ByPlace'
  PROVE  ClientInv'
BY DEF ClientInv, ByPlace

LEMMA OpenSocketInv ==
  ASSUME Client!ClientAssumption, ClientInv, NEW t \in Client!Threads,
           Client!OpenSocket(t)
  PROVE  ClientInv'
<1> DEFINE F == {g \in Client!Fds : client_sock[g] = 0}
           f == Client!Min(F)
           c == Client!Min(Client!Unused)
<1>0. ClientTypes
  BY DEF ClientInv
<1>1. f \in F /\ f \in Client!Fds
  <2>1. F \subseteq Nat /\ F # {}
    BY DEF Client!OpenSocket, Client!None, Client!Fds
  <2>2. Client!Min(F) \in F
    BY <2>1, Least
  <2> QED BY <2>2
<1>2. c \in Client!Conns
  <2>1. Client!Unused \subseteq Nat /\ Client!Unused # {}
    BY DEF Client!OpenSocket, Client!Unused, Client!Conns
  <2>2. Client!Min(Client!Unused) \in Client!Unused
    BY <2>1, Least
  <2> QED BY <2>2 DEF Client!Unused
<1>3. /\ client_sock' = [client_sock EXCEPT ![f] = c]
      /\ client_conn' = [client_conn EXCEPT ![c] = "opened"]
      /\ fd' = [fd EXCEPT ![t] = f]
      /\ source_state' = "connecting" /\ source_state = "closed"
      /\ call[t] = "connect" /\ call' = [call EXCEPT ![t] = "start"]
      /\ UNCHANGED <<caller, auto_connected, h, client_epoll, client_loop, opens>>
  BY DEF Client!OpenSocket, Client!None, Client!Goto, Client!history
<1> HIDE DEF f, c
<1>4. ClientTypes'
  BY <1>0, <1>1, <1>2, <1>3 DEF ClientTypes, States, CallPlaces, ConnStates
<1>5. ASSUME caller = "loop"
      PROVE  ByPlace'
  <2>1. t = "loop" /\ call["user"] = "none" /\ Client!OpenFds = {} /\ ~h.in_event_loop
    BY <1>3, <1>5 DEF ClientInv, Placed, Consistent, Client!Threads
  <2>2. Client!OpenFds' = {f}
    BY <1>0, <1>1, <1>2, <1>3, <2>1
       DEF ClientTypes, Client!OpenFds, Client!None, Client!Conns
  <2>3. call'["loop"] = "start" /\ call'["user"] = "none" /\ fd'["loop"] = f
    BY <1>0, <1>3, <2>1 DEF ClientTypes, Client!Threads
  <2> QED BY <1>1, <1>3, <2>1, <2>2, <2>3 DEF ByPlace, Placed, Opening
<1> QED BY <1>3, <1>4, <1>5, TwoParts

LEMMA ConnectInv ==
  ASSUME Client!ClientAssumption, ClientInv, NEW t \in Client!Threads,
           Client!Connect(t)
  PROVE  ClientInv'
<1> USE DEF ClientInv, ClientTypes, Placed, ClientRegistered, Unregistered,
            Consistent, Opening, States, Masks, CallPlaces, ConnStates,
            Client!Threads, Client!OpenFds,
            Client!None, Client!Goto, Client!kernel, Client!history
<1>1. CASE Client!ConnectNothing(t)
  BY <1>1 DEF Client!ConnectNothing
<1>2. CASE Client!NoSocket(t)
  BY <1>2 DEF Client!NoSocket
<1>3. CASE Client!OpenSocket(t)
  BY <1>3, OpenSocketInv
<1>4. ASSUME NEW b \in BOOLEAN, Client!Start(t, b)
      PROVE  ClientInv'
  <2>1. ClientTypes'
    BY <1>4 DEF Client!Start
  <2>2. caller' = "loop" => ByPlace'
    BY <1>4 DEF Client!Start, ByPlace
  <2> QED BY <2>1, <2>2, TwoParts
<1>5. ASSUME NEW b \in BOOLEAN, Client!StartFails(t, b)
      PROVE  ClientInv'
  <2>0. /\ client_sock' \in [Client!Fds -> Client!Conns \cup {0}]
        /\ client_conn' \in [Client!Conns -> ConnStates]
        /\ client_epoll' \in [Client!Fds -> Masks]
        /\ Client!OpenFds' = Client!OpenFds \ {fd[t]}
    BY <1>5, CloseFdLemma DEF Client!StartFails
  <2>1. ClientTypes'
    BY <1>5, <2>0 DEF Client!StartFails
  <2>2. caller' = "loop" => ByPlace'
    <3> HIDE DEF Client!OpenFds
    <3> QED BY <1>5, <2>0 DEF Client!StartFails, ByPlace
  <2> QED BY <2>1, <2>2, TwoParts
<1>6. CASE Client!AddHandler(t)
  <2>0. ASSUME Client!CloseFd(fd[t])
        PROVE  /\ client_sock' \in [Client!Fds -> Client!Conns \cup {0}]
               /\ client_conn' \in [Client!Conns -> ConnStates]
               /\ client_epoll' \in [Client!Fds -> Masks]
    BY <2>0, CloseFdLemma
  <2>1. ClientTypes'
    <3>1. CASE h.in_event_loop \/ h.fd = 0 \/ client_sock[h.fd] = 0
      BY <1>6, <2>0, <3>1 DEF Client!AddHandler
    <3>2. CASE ~(h.in_event_loop \/ h.fd = 0 \/ client_sock[h.fd] = 0)
      <4> DEFINE events == IF call[t] = "add_read" THEN {"read"} ELSE {"write"}
      <4>1. /\ client_epoll' = [client_epoll EXCEPT ![h.fd] = events]
            /\ h' = [h EXCEPT !.in_event_loop = TRUE, !.mask = events]
            /\ UNCHANGED <<source_state, client_sock, client_conn>>
        BY <1>6, <3>2 DEF Client!AddHandler
      <4>2. /\ call' = [call EXCEPT ![t] = "none"]
            /\ fd' = [fd EXCEPT ![t] = 0]
            /\ UNCHANGED <<caller, auto_connected, opens>>
        BY <1>6 DEF Client!AddHandler
      <4>3. events \in Masks
        OBVIOUS
      <4> HIDE DEF events
      <4> QED BY <4>1, <4>2, <4>3
    <3> QED BY <3>1, <3>2
  <2>2. ASSUME caller = "loop"
        PROVE  ByPlace'
    <3>1. /\ t = "loop" /\ call["user"] = "none" /\ Opening /\ h.fd = fd["loop"]
          /\ call'["loop"] = "none" /\ call'["user"] = "none"
          /\ client_sock[h.fd] # 0
          /\ source_state = IF call[t] = "add_read" THEN "connected" ELSE "connecting"
      BY <1>6, <2>2 DEF Client!AddHandler
    <3> DEFINE events == IF call[t] = "add_read" THEN {"read"} ELSE {"write"}
    <3>2. /\ client_epoll' = [client_epoll EXCEPT ![h.fd] = events]
          /\ h' = [h EXCEPT !.in_event_loop = TRUE, !.mask = events]
          /\ UNCHANGED <<source_state, client_sock>>
      <4>1. h.fd # 0 /\ ~h.in_event_loop
        BY <3>1 DEF Client!Fds
      <4> HIDE DEF Opening, Client!OpenFds
      <4> QED BY <1>6, <3>1, <4>1 DEF Client!AddHandler
    <3>3. h'.in_event_loop /\ h'.fd = h.fd /\ h'.mask = events /\ events # {}
      BY <3>2
    <3>4. client_epoll'[h.fd] = events /\ Client!OpenFds' = {h.fd}
      BY <3>1, <3>2
    <3>5. ClientRegistered'
      BY <3>1, <3>3, <3>4 DEF ClientRegistered
    <3>6. Consistent'
      BY <3>1, <3>2, <3>3, <3>5 DEF Consistent
    <3> QED BY <3>1, <3>6 DEF ByPlace, Placed
  <2>3. caller' = caller
    BY <1>6 DEF Client!AddHandler
  <2> QED BY <2>1, <2>2, <2>3, TwoParts
<1> QED BY <1>1, <1>2, <1>3, <1>4, <1>5, <1>6 DEF Client!Connect

LEMMA CallInv ==
  ASSUME Client!ClientAssumption, ClientInv, NEW t \in Client!Threads,
         Client!Remove(t) \/ Client!CloseSocket(t) \/ Client!Forget(t)
  PROVE  ClientInv'
<1> USE DEF ClientInv, ClientTypes, Placed, ClientRegistered, Unregistered,
            Consistent, Opening, States, Masks, CallPlaces, ConnStates,
            Client!Threads, Client!OpenFds,
            Client!None, Client!Goto, Client!kernel, Client!history
<1>1. CASE Client!Remove(t)
  <2>1. ClientTypes'
    BY <1>1, ZenonT(60) DEF Client!Remove
  <2>2. ASSUME caller = "loop"
        PROVE  ByPlace'
    <3>1. /\ t = "loop" /\ call["user"] = "none"
          /\ call'["loop"] = "close" /\ call'["user"] = "none"
          /\ Client!OpenFds' = Client!OpenFds
          /\ IF h.in_event_loop THEN ClientRegistered ELSE Client!OpenFds = {}
      BY <1>1, <2>2 DEF Client!Remove
    <3>2. ~h'.in_event_loop /\ h'.fd = h.fd
      <4>1. CASE h.in_event_loop
        <5>1. h.fd # 0 /\ client_epoll[h.fd] # {}
          BY <3>1, <4>1 DEF Client!Fds
        <5>2. h' = [h EXCEPT !.in_event_loop = FALSE, !.mask = {}]
          BY <1>1, <4>1, <5>1 DEF Client!Remove
        <5> QED BY <5>2
      <4>2. CASE ~h.in_event_loop
        BY <1>1, <4>2 DEF Client!Remove
      <4> QED BY <4>1, <4>2
    <3> QED BY <3>1, <3>2 DEF ByPlace
  <2>3. caller' = caller
    BY <1>1 DEF Client!Remove
  <2> QED BY <2>1, <2>2, <2>3, TwoParts
<1>2. CASE Client!CloseSocket(t)
  <2>0. /\ client_sock' \in [Client!Fds -> Client!Conns \cup {0}]
        /\ client_conn' \in [Client!Conns -> ConnStates]
        /\ client_epoll' \in [Client!Fds -> Masks]
        /\ Client!OpenFds' = Client!OpenFds \ {h.fd}
    <3>1. CASE h.fd = 0
      <4>1. UNCHANGED <<client_sock, client_conn, client_epoll>>
        BY <1>2, <3>1 DEF Client!CloseSocket
      <4> QED BY <4>1, <3>1 DEF Client!Fds
    <3>2. CASE h.fd # 0
      <4>1. Client!CloseFd(h.fd)
        BY <1>2, <3>2 DEF Client!CloseSocket
      <4> QED BY <4>1, CloseFdLemma
    <3> QED BY <3>1, <3>2
  <2>1. ClientTypes'
    BY <1>2, <2>0 DEF Client!CloseSocket
  <2>2. caller' = "loop" => ByPlace'
    <3> HIDE DEF Client!OpenFds
    <3> QED BY <1>2, <2>0 DEF Client!CloseSocket, ByPlace
  <2> QED BY <2>1, <2>2, TwoParts
<1>3. CASE Client!Forget(t)
  BY <1>3 DEF Client!Forget
<1> QED BY <1>1, <1>2, <1>3

LEMMA UserInv ==
  ASSUME Client!ClientAssumption, ClientInv,
         \/ Client!Open \/ Client!Close
         \/ \E c \in Client!Conns :
              Client!Break(c) \/ \E up \in BOOLEAN : Client!Answer(c, up)
  PROVE  ClientInv'
<1> USE DEF ClientInv, ClientTypes, Placed, ClientRegistered, Unregistered,
            Consistent, Opening, States, Masks, CallPlaces, ConnStates,
            Client!Threads, Client!OpenFds,
            Client!None, Client!Goto, Client!kernel, Client!history
<1>1. CASE Client!Open
  <2>1. opens' \in 0 .. MaxOpens
    BY <1>1 DEF Client!Open, Client!MayCall, Client!ClientAssumption
  <2>2. ClientTypes'
    BY <1>1, <2>1 DEF Client!Open, Client!MayCall
  <2>3. caller' = "loop" => ByPlace'
    BY <1>1 DEF Client!Open, Client!MayCall, ByPlace
  <2> QED BY <2>2, <2>3, TwoParts
<1>2. CASE Client!Close
  BY <1>2, ZenonT(60) DEF Client!Close, Client!MayCall
<1>3. ASSUME NEW c \in Client!Conns, NEW up \in BOOLEAN,
             Client!Break(c) \/ Client!Answer(c, up)
      PROVE  ClientInv'
  <2>1. ClientTypes'
    BY <1>3 DEF Client!Break, Client!Answer
  <2>2. UNCHANGED <<caller, source_state, h, client_sock, client_epoll, call, fd>>
    BY <1>3 DEF Client!Break, Client!Answer
  <2>3. caller' = "loop" => ByPlace'
    BY <2>2 DEF ByPlace
  <2> QED BY <2>1, <2>3, TwoParts
<1> QED BY <1>1, <1>2, <1>3

LEMMA LoopInv ==
  ASSUME Client!ClientAssumption, ClientInv,
         \/ Client!EpollWait \/ Client!HandleRead \/ Client!HandleWrite
         \/ Client!Connected \/ Client!DeleteHandler \/ Client!FreeHandler
  PROVE  ClientInv'
<1> USE DEF ClientInv, ClientTypes, Placed, ClientRegistered, Unregistered,
            Consistent, Opening, States, Masks, CallPlaces, ConnStates,
            Client!Threads, Client!OpenFds,
            Client!None, Client!Goto, Client!kernel, Client!history, Client!LoopGoesOn
<1>1. CASE Client!EpollWait
  BY <1>1 DEF Client!EpollWait
<1>2. CASE Client!HandleRead
  BY <1>2 DEF Client!HandleRead
<1>3. CASE Client!HandleWrite
  BY <1>3 DEF Client!HandleWrite
<1>4. CASE Client!Connected
  <2>1. ClientTypes'
    BY <1>4 DEF Client!Connected
  <2>2. ASSUME caller = "loop"
        PROVE  ByPlace'
    <3>1. /\ call["loop"] = "none" /\ call["user"] = "none" /\ Consistent
          /\ call' = call /\ Client!OpenFds' = Client!OpenFds
          /\ source_state' = "connected"
      BY <1>4, <2>2 DEF Client!Connected
    <3>2. CASE h.in_event_loop
      <4>1. /\ client_epoll' = [client_epoll EXCEPT ![h.fd] = {"read"}]
            /\ h' = [h EXCEPT !.mask = {"read"}]
        <5>1. h.fd # 0 /\ client_epoll[h.fd] # {}
          BY <3>1, <3>2 DEF Client!Fds
        <5> QED BY <1>4, <3>2, <5>1 DEF Client!Connected
      <4>2. h'.in_event_loop /\ h'.fd = h.fd /\ h'.mask = {"read"}
        BY <3>2, <4>1
      <4>3. client_epoll'[h.fd] = {"read"}
        BY <3>1, <3>2, <4>1
      <4> QED BY <3>1, <3>2, <4>2, <4>3 DEF ByPlace
    <3>3. CASE ~h.in_event_loop
      <4>1. UNCHANGED <<client_epoll, h>>
        BY <1>4, <3>3 DEF Client!Connected
      <4> QED BY <3>1, <3>3, <4>1 DEF ByPlace
    <3> QED BY <3>2, <3>3
  <2>3. caller' = caller
    BY <1>4 DEF Client!Connected
  <2> QED BY <2>1, <2>2, <2>3, TwoParts
<1>5. CASE Client!DeleteHandler
  <2> DEFINE found == h.in_event_loop /\ h.fd # 0 /\ client_epoll[h.fd] # {}
  <2>0. /\ call["loop"] = "delete" /\ client_sock' = client_sock
        /\ UNCHANGED <<caller, source_state, auto_connected, client_conn, fd, opens>>
    BY <1>5 DEF Client!DeleteHandler
  <2>1. CASE found
    <3>1. /\ client_epoll' = [client_epoll EXCEPT ![h.fd] = {}]
          /\ h' = [h EXCEPT !.in_event_loop = FALSE, !.mask = {}]
          /\ call' = [call EXCEPT !["loop"] = "handle_close"]
      BY <1>5, <2>1 DEF Client!DeleteHandler
    <3>2. ClientTypes'
      BY <2>0, <3>1
    <3>3. ASSUME caller = "loop"
          PROVE  ByPlace'
      <4>1. ~h'.in_event_loop /\ h'.fd = h.fd /\ call'["loop"] = "handle_close"
        BY <3>1
      <4>2. Client!OpenFds' = {h.fd} /\ call'["user"] = "none"
        BY <2>0, <2>1, <3>1, <3>3
      <4> QED BY <4>1, <4>2 DEF ByPlace
    <3> QED BY <2>0, <3>2, <3>3, TwoParts
  <2>2. CASE ~found
    <3>1. /\ UNCHANGED <<client_epoll, h>>
          /\ call' = [call EXCEPT !["loop"] = "none"]
      BY <1>5, <2>2 DEF Client!DeleteHandler
    <3>2. ClientTypes'
      BY <2>0, <3>1
    <3>3. caller = "loop" => ByPlace'
      BY <2>0, <3>1 DEF ByPlace
    <3> QED BY <2>0, <3>2, <3>3, TwoParts
  <2> QED BY <2>1, <2>2
<1>6. CASE Client!FreeHandler
  BY <1>6 DEF Client!FreeHandler
<1> QED BY <1>1, <1>2, <1>3, <1>4, <1>5, <1>6

LEMMA NextClientInv ==
  ASSUME Client!ClientAssumption, ClientInv, [Client!Next]_Client!vars
  PROVE  ClientInv'
<1>1. CASE Client!Next
  BY <1>1, ConnectInv, CallInv, UserInv, LoopInv
     DEF Client!Next, Client!LoopThread, Client!Calls, Client!Threads
<1>2. CASE UNCHANGED Client!vars
  <2>1. Client!OpenFds' = Client!OpenFds
    BY <1>2 DEF Client!vars, Client!OpenFds
  <2> QED BY <1>2, <2>1 DEF Client!vars, ClientInv, ClientTypes, Placed, Consistent,
             ClientRegistered, Unregistered, Opening
<1> QED BY <1>1, <1>2

LEMMA ClientInvConsistent == ClientInv => Client!ClientConsistent
<1> SUFFICES ASSUME ClientInv PROVE Client!ClientConsistent
  OBVIOUS
<1>1. Client!TypeOK
  BY DEF ClientInv, ClientTypes, Client!TypeOK, States, Masks, CallPlaces, ConnStates,
         Client!None
<1>2. ASSUME caller = "loop", call["loop"] = "none"
      PROVE  Consistent
  BY <1>2 DEF ClientInv, Placed
<1> QED BY <1>1, <1>2
           DEF Client!ClientConsistent, Consistent, ClientRegistered, ClientInv,
           ClientTypes, States

(* A client whose calls are all made in the loop thread has, between two   *)
(* calls, one descriptor at most, its handler's, registered for what       *)
(* source_state_ says (connect(), delete_handler(), close()).              *)
THEOREM OneDescriptor == AllSpec => []ClientConsistent
<1>1. AllInit => ClientInv
  BY ConnectionsAssumption, InitClientInv DEF AllInit, ClientStill
<1>2. ClientInv /\ [AllNext]_allVars => ClientInv'
  <2> SUFFICES ASSUME ClientInv, [AllNext]_allVars
               PROVE  ClientInv'
    OBVIOUS
  <2>1. [Client!Next]_Client!vars
    BY DEF AllNext, allVars, clientVars, Client!vars
  <2> QED BY <2>1, ConnectionsAssumption, NextClientInv
<1>3. ClientInv => ClientConsistent
  BY ClientInvConsistent DEF ClientConsistent
<1> QED BY <1>1, <1>2, <1>3, PTL DEF AllSpec

-----------------------------------------------------------------------------
(* TcpServer.  A handler that is not in the pool is in one place, and the  *)
(* descriptor it has is its own: sock, epoll and the flags of the handler  *)
(* follow it from the accepting thread to the loop and to the thread that  *)
(* deletes it.                                                             *)
HandlerStates == [fd : Fds \cup {0}, in_event_loop : BOOLEAN, event_loop : BOOLEAN,
                  in_object_pool : BOOLEAN, conn : Conns \cup {0}]
AccPlaces == {"idle", "alloc", "open", "add", "flags", "free", "close", "ended"}
LoopPlaces == {"wait", "batch", "accept", "read", "delete"}
DelStates == [pc : {"none", "lock", "close", "clear", "free"}, h : Handlers \cup {0}]

ServerTypes ==
  /\ free \in Seq(Handlers) /\ chunks \in 0 .. MaxChunks
  /\ handler \in [Handlers -> HandlerStates]
  /\ sock \in [Fds -> Conns \cup {0}] /\ epoll \in [Fds -> Handlers \cup {0}]
  /\ conn \in [Conns -> {"none", "queued", "up", "failed", "closed"}]
  /\ acc \in [pc : AccPlaces, fd : Fds \cup {0}, h : Handlers \cup {0}]
  /\ loop \in [pc : LoopPlaces, batch : SUBSET (Handlers \cup {Listener}),
               h : Handlers \cup {0, Listener}]
  /\ del \in [Threads -> DelStates]
  /\ live \subseteq Handlers /\ excused \subseteq Conns

Born == chunks * PerChunk
Out(x) == ~handler[x].in_object_pool
Own(x) == Out(x) /\ \A t \in Threads : ~Clearing(t, x)
Accepting(x) == acc.h = x /\ acc.pc \in {"open", "add", "flags", "free"}

PoolInv ==
  /\ IsInjective(free)
  /\ \A x \in Handlers : Pooled(x) => x <= Born
  /\ \A x \in Handlers : Out(x) <=> ~Pooled(x) /\ x <= Born

PlacesInv ==
  /\ acc.pc \in {"open", "add", "flags", "free"} => acc.h \in Handlers
  /\ \A t \in Threads : del[t].pc # "none" => del[t].h \in Handlers
  /\ \A x \in Handlers : Out(x) <=>
       \/ Accepting(x) \/ handler[x].in_event_loop \/ \E t \in Threads : Closing(t, x)
  /\ \A x \in Handlers : Accepting(x) => ~handler[x].in_event_loop
  /\ \A x \in Handlers : \A t \in Threads : Closing(t, x) =>
       /\ ~Accepting(x) /\ ~handler[x].in_event_loop
       /\ \A u \in Threads \ {t} : ~Closing(u, x)

OwnInv ==
  /\ \A x \in Handlers : Own(x) /\ handler[x].fd # 0 =>
       /\ handler[x].conn # 0 /\ sock[handler[x].fd] = handler[x].conn
       /\ \A g \in Handlers \ {x} : Own(g) => handler[g].fd # handler[x].fd
  /\ \A x \in Handlers : Accepting(x) => handler[x].fd = acc.fd /\ acc.fd # 0
  /\ acc.pc \in {"alloc", "close"} =>
       /\ acc.fd # 0 /\ sock[acc.fd] # 0
       /\ \A x \in Handlers : Own(x) => handler[x].fd # acc.fd
  /\ acc.pc \in {"idle", "ended"} => acc.fd = 0
  /\ \A t \in Threads : del[t].pc = "close" => handler[del[t].h].fd # 0
  /\ \A t \in Threads : del[t].pc = "free" => handler[del[t].h].fd = 0
  /\ accepts = "same_loop" /\ del["loop"].pc = "clear" =>
       \A k \in Fds : handler[del["loop"].h].fd = k => sock[k] = 0

RegisteredInv ==
  /\ \A x \in Handlers : handler[x].in_event_loop =>
       handler[x].event_loop /\ handler[x].fd # 0 /\ epoll[handler[x].fd] = x
  /\ \A f \in Fds : epoll[f] # 0 =>
       /\ handler[epoll[f]].fd = f
       /\ \/ handler[epoll[f]].in_event_loop
          \/ acc.pc = "flags" /\ acc.h = epoll[f]
  /\ acc.pc = "flags" => epoll[acc.fd] = acc.h

LoopInvariant ==
  /\ loop.pc # "delete" => del["loop"].pc = "none"
  /\ loop.pc \in {"read", "delete"} => loop.h \in Handlers
  /\ accepts = "same_loop" =>
       /\ acc.pc # "idle" => loop.pc = "accept"
       /\ \A x \in loop.batch \cap Handlers : handler[x].event_loop
       /\ loop.pc = "read" => handler[loop.h].event_loop

NoneLost ==
  accepts = "thread" => \A f \in Fds : sock[f] # 0 =>
    acc.fd = f \/ \E x \in Handlers : Own(x) /\ handler[x].fd = f

InLoop(x) == handler[x].in_event_loop \/ (acc.pc = "flags" /\ acc.h = x)
CauseInv ==
  /\ \A c \in Conns : conn[c] = "failed" => c \in excused
  /\ acc.pc = "free" => handler[acc.h].conn \in excused
  /\ acc.pc = "close" => sock[acc.fd] \in excused
  /\ ~sender =>
       /\ del["sender"].pc = "none"
       /\ \A x \in loop.batch \cap Handlers : InLoop(x)
       /\ loop.pc = "read" => InLoop(loop.h) /\ loop.h \notin loop.batch
       /\ loop.pc = "delete" => loop.h \notin loop.batch /\ del["loop"].h = loop.h
       /\ del["loop"].pc = "lock" => InLoop(del["loop"].h)
       /\ del["loop"].pc \in {"lock", "close"} =>
            handler[del["loop"].h].conn \in excused
       /\ ClosedForCause

ServerInv == /\ ServerTypes /\ PoolInv /\ PlacesInv /\ OwnInv /\ RegisteredInv
             /\ LoopInvariant /\ NoneLost /\ CauseInv

(* The pool as a list without repetition.                                  *)
In(y, q) == \E i \in DOMAIN q : q[i] = y

LEMMA AppendPool ==
  ASSUME NEW S, NEW q \in Seq(S), NEW x \in S, IsInjective(q), ~In(x, q)
  PROVE  /\ Append(q, x) \in Seq(S) /\ IsInjective(Append(q, x))
         /\ \A y : In(y, Append(q, x)) <=> In(y, q) \/ y = x
<1>1. /\ DOMAIN Append(q, x) = 1 .. Len(q) + 1 /\ DOMAIN q = 1 .. Len(q)
      /\ Append(q, x)[Len(q) + 1] = x
      /\ \A i \in 1 .. Len(q) : Append(q, x)[i] = q[i]
  OBVIOUS
<1>2. IsInjective(Append(q, x))
  BY <1>1 DEF IsInjective, In
<1>3. \A y : In(y, Append(q, x)) => In(y, q) \/ y = x
  BY <1>1 DEF In
<1>4. \A y : In(y, q) \/ y = x => In(y, Append(q, x))
  BY <1>1 DEF In
<1> QED BY <1>2, <1>3, <1>4

LEMMA PopPool ==
  ASSUME NEW S, NEW q \in Seq(S), IsInjective(q), q # << >>
  PROVE  /\ Front(q) \in Seq(S) /\ IsInjective(Front(q)) /\ Last(q) \in S
         /\ \A y : In(y, Front(q)) <=> In(y, q) /\ y # Last(q)
<1>1. /\ DOMAIN Front(q) = 1 .. Len(q) - 1 /\ DOMAIN q = 1 .. Len(q) /\ Len(q) > 0
      /\ Len(q) \in Nat
      /\ \A i \in 1 .. Len(q) - 1 : Front(q)[i] = q[i]
  BY DEF Front
<1>2. Front(q) \in Seq(S) /\ Last(q) \in S
  BY <1>1 DEF Front, Last
<1>3. IsInjective(Front(q))
  BY <1>1 DEF IsInjective
<1>4. \A y : In(y, Front(q)) => In(y, q) /\ y # Last(q)
  BY <1>1 DEF In, IsInjective, Last
<1>5. \A y : In(y, q) /\ y # Last(q) => In(y, Front(q))
  <2> SUFFICES ASSUME NEW y, NEW i \in 1 .. Len(q), q[i] = y, y # Last(q)
               PROVE  In(y, Front(q))
    BY <1>1 DEF In
  <2>1. i \in 1 .. Len(q) - 1
    BY <1>1 DEF Last
  <2> QED BY <1>1, <2>1 DEF In
<1> QED BY <1>2, <1>3, <1>4, <1>5

(* Another chunk brings the next PerChunk handlers.                        *)
LEMMA Arithmetic ==
  ASSUME NEW m \in Nat, NEW p \in Nat, NEW c \in 0 .. m, c # m, p > 0
  PROVE  /\ (c + 1) * p = c * p + p /\ (c + 1) * p <= m * p /\ c * p \in Nat
         /\ m * p \in Nat /\ c * p < m * p
<1>1. PICK d \in Nat : m = c + 1 + d
  <2>1. m - (c + 1) \in Nat /\ m = c + 1 + (m - (c + 1))
    OBVIOUS
  <2> QED BY <2>1
<1>2. m * p = c * p + p + d * p /\ d * p \in Nat /\ c * p \in Nat
  BY <1>1
<1> QED BY <1>1, <1>2

LEMMA NewChunk ==
  ASSUME ServerAssumption, chunks \in 0 .. MaxChunks, chunks < MaxChunks
  PROVE  /\ Chunk(chunks + 1) \in Seq(Handlers) /\ Chunk(chunks + 1) # << >>
         /\ IsInjective(Chunk(chunks + 1)) /\ Last(Chunk(chunks + 1)) \in Handlers
         /\ (chunks + 1) * PerChunk = Born + PerChunk /\ Born \in Nat
         /\ \A y : In(y, Chunk(chunks + 1)) <=> y \in Born + 1 .. Born + PerChunk
         /\ Last(Chunk(chunks + 1)) = Born + PerChunk
<1>0. MaxChunks \in Nat /\ PerChunk \in Nat /\ PerChunk > 0
  BY DEF ServerAssumption
<1>1. /\ (chunks + 1) * PerChunk = Born + PerChunk /\ Born \in Nat
      /\ Born + PerChunk <= MaxChunks * PerChunk /\ MaxChunks * PerChunk \in Nat
  BY <1>0, Arithmetic DEF Born
<1> DEFINE q == Chunk(chunks + 1)
<1>2. q = [i \in 1 .. PerChunk |-> Born + i]
  BY <1>0 DEF Chunk, Born
<1> HIDE DEF q
<1>3. q \in Seq(Handlers) /\ Len(q) = PerChunk /\ DOMAIN q = 1 .. PerChunk
  BY <1>0, <1>1, <1>2 DEF Handlers
<1>4. IsInjective(q)
  BY <1>1, <1>2 DEF IsInjective
<1>5. Last(q) = Born + PerChunk /\ q # << >>
  BY <1>0, <1>2, <1>3 DEF Last
<1>6. \A y : In(y, q) <=> y \in Born + 1 .. Born + PerChunk
  <2> SUFFICES ASSUME NEW y PROVE In(y, q) <=> y \in Born + 1 .. Born + PerChunk
    OBVIOUS
  <2>1. In(y, q) => y \in Born + 1 .. Born + PerChunk
    BY <1>0, <1>1, <1>2 DEF In
  <2>2. ASSUME y \in Born + 1 .. Born + PerChunk PROVE In(y, q)
    <3>1. y - Born \in 1 .. PerChunk /\ Born + (y - Born) = y
      BY <1>0, <1>1, <2>2
    <3> QED BY <1>2, <3>1 DEF In
  <2> QED BY <2>1, <2>2
<1>7. Last(q) \in Handlers
  BY <1>0, <1>1, <1>5 DEF Handlers
<1> QED BY <1>1, <1>3, <1>4, <1>5, <1>6, <1>7 DEF q

LEMMA ListenerIsNoHandler ==
  ASSUME ServerAssumption
  PROVE  Listener \notin Handlers /\ Listener # 0
<1> DEFINE N == MaxChunks * PerChunk
<1>1. N \in Nat /\ N > 0
  BY DEF ServerAssumption
<1> HIDE DEF N
<1>2. Handlers = 1 .. N
  BY DEF Handlers, N
<1>3. Max(Handlers) = N
  BY <1>1, <1>2 DEF Max
<1> QED BY <1>1, <1>2, <1>3 DEF Listener

LEMMA NoZeros == 0 \notin Fds /\ 0 \notin Conns /\ 0 \notin Handlers
BY DEF Fds, Conns, Handlers

(* A handler outside the pool that no thread is clearing.                  *)
LEMMA OwnPlaces ==
  ASSUME PlacesInv, NEW x \in Handlers
  PROVE  /\ Accepting(x) \/ handler[x].in_event_loop => Own(x)
         /\ \A t \in Threads : Closing(t, x) /\ del[t].pc # "clear" => Own(x)
         /\ ~Out(x) => ~Own(x) /\ \A t \in Threads : ~Clearing(t, x)
BY DEF PlacesInv, Own, Clearing, Closing

(* A whole handler at a time.                                              *)
LEMMA HandlerSet ==
  ASSUME handler \in [Handlers -> HandlerStates], NEW x \in Handlers,
         NEW s \in HandlerStates, handler' = [handler EXCEPT ![x] = s]
  PROVE  /\ handler' \in [Handlers -> HandlerStates] /\ handler'[x] = s
         /\ \A g \in Handlers \ {x} : handler'[g] = handler[g]
  OBVIOUS

LEMMA HandlerFields ==
  ASSUME NEW r \in HandlerStates, NEW f \in Fds \cup {0}, NEW c \in Conns \cup {0},
         NEW b \in BOOLEAN
  PROVE  /\ [r EXCEPT !.fd = f, !.conn = c,
           !.in_object_pool = FALSE] \in HandlerStates
         /\ [r EXCEPT !.in_event_loop = TRUE, !.event_loop = TRUE] \in HandlerStates
         /\ [r EXCEPT !.in_object_pool = TRUE] \in HandlerStates
         /\ [r EXCEPT !.in_event_loop = FALSE] \in HandlerStates
         /\ [r EXCEPT !.fd = f] \in HandlerStates
BY DEF HandlerStates

(* free_handler() of a handler that is not in the pool.                    *)
LEMMA Freed ==
  ASSUME ServerAssumption, ServerTypes, PoolInv, NEW x \in Handlers, Out(x),
           FreeHandler(x)
  PROVE  /\ free' \in Seq(Handlers) /\ chunks' = chunks /\ PoolInv'
         /\ \A g \in Handlers \ {x} : handler'[g] = handler[g]
         /\ handler'[x].fd = handler[x].fd /\ handler'[x].conn = handler[x].conn
         /\ handler'[x].in_event_loop = handler[x].in_event_loop
         /\ handler'[x].event_loop = handler[x].event_loop
         /\ ~Out(x)' /\ handler' \in [Handlers -> HandlerStates]
<1> DEFINE s == [handler[x] EXCEPT !.in_object_pool = TRUE]
<1>0. handler \in [Handlers -> HandlerStates] /\ handler[x] \in HandlerStates
  BY SMTT(60) DEF ServerTypes
<1>1. s \in HandlerStates
  BY <1>0, HandlerFields, NoZeros
<1>2. handler' = [handler EXCEPT ![x] = s]
  BY <1>0 DEF FreeHandler
<1>3. /\ handler' \in [Handlers -> HandlerStates] /\ handler'[x] = s
      /\ \A g \in Handlers \ {x} : handler'[g] = handler[g]
  BY <1>0, <1>1, <1>2, HandlerSet
<1>4. /\ s.fd = handler[x].fd /\ s.conn = handler[x].conn /\ s.in_object_pool = TRUE
      /\ s.in_event_loop = handler[x].in_event_loop
      /\ s.event_loop = handler[x].event_loop
  BY <1>0 DEF HandlerStates
<1> HIDE DEF s
<1>5. free' = Append(free, x) /\ chunks' = chunks
  BY DEF FreeHandler, Out
<1>6. \A g \in Handlers : Pooled(g) <=> In(g, free)
  BY DEF Pooled, In
<1>7. \A g \in Handlers : Pooled(g)' <=> In(g, free')
  BY DEF Pooled, In
<1>8. /\ free' \in Seq(Handlers) /\ IsInjective(free')
      /\ \A y : In(y, free') <=> In(y, free) \/ y = x
  BY <1>5, <1>6, AppendPool DEF ServerTypes, PoolInv
<1>9. x <= Born /\ Born' = Born
  BY <1>5 DEF PoolInv, Born
<1>10. \A g \in Handlers : Out(g)' <=> Out(g) /\ g # x
  BY <1>3, <1>4 DEF Out
<1>11. PoolInv'
  BY <1>6, <1>7, <1>8, <1>9, <1>10 DEF PoolInv
<1> QED BY <1>3, <1>4, <1>5, <1>8, <1>10, <1>11

LEMMA ServerTypesFrame == ServerTypes
    /\ UNCHANGED <<free, chunks, handler, sock, epoll, conn, acc, loop, del, live,
    excused>> => ServerTypes'
BY DEF ServerTypes, HandlerStates, AccPlaces, LoopPlaces, DelStates

LEMMA PoolInvFrame == PoolInv /\ UNCHANGED <<free, chunks, handler>> => PoolInv'
BY DEF PoolInv, Pooled, Born, Out

LEMMA PlacesInvFrame == PlacesInv /\ UNCHANGED <<acc, del, handler>> => PlacesInv'
BY DEF PlacesInv, Accepting, Out, Closing

LEMMA OwnInvFrame == OwnInv /\ UNCHANGED <<accepts, acc, del, handler, sock>> =>
    OwnInv'
BY DEF OwnInv, Accepting, Own, Out, Clearing

LEMMA RegisteredInvFrame == RegisteredInv /\ UNCHANGED <<acc, handler, epoll>> =>
    RegisteredInv'
BY DEF RegisteredInv

LEMMA LoopInvariantFrame == LoopInvariant
    /\ UNCHANGED <<accepts, loop, del, acc, handler>> => LoopInvariant'
BY DEF LoopInvariant

LEMMA NoneLostFrame ==
  ASSUME NoneLost, UNCHANGED <<accepts, sock, acc, handler>>,
         \A t \in Threads : \A x \in Handlers : Clearing(t, x)' <=> Clearing(t, x)
  PROVE  NoneLost'
BY DEF NoneLost, Own, Out

LEMMA CauseInvFrame == CauseInv
    /\ UNCHANGED <<conn, excused, acc, sock, handler, sender, del, loop>> =>
    CauseInv'
BY DEF CauseInv, InLoop, ClosedForCause

LEMMA ArriveInv ==
  ASSUME ServerAssumption, ServerInv, NEW c \in Conns, Arrive(c)
  PROVE  ServerInv'
<1>1. ServerTypes'
  BY DEF ServerInv, ServerTypes, HandlerStates, AccPlaces, LoopPlaces, DelStates,
         Arrive, pool
<1>2. PoolInv'
  BY PoolInvFrame DEF ServerInv, Arrive, pool
<1>3. PlacesInv'
  BY PlacesInvFrame DEF ServerInv, Arrive, pool
<1>4. OwnInv'
  BY OwnInvFrame DEF ServerInv, Arrive, pool
<1>5. RegisteredInv'
  BY RegisteredInvFrame DEF ServerInv, Arrive, pool
<1>6. LoopInvariant'
  BY LoopInvariantFrame DEF ServerInv, Arrive, pool
<1>7. NoneLost'
  BY NoneLostFrame DEF ServerInv, Clearing, Arrive, pool
<1>8. CauseInv'
  BY DEF ServerInv, CauseInv, InLoop, ClosedForCause, Arrive, pool
<1> QED BY <1>1, <1>2, <1>3, <1>4, <1>5, <1>6, <1>7, <1>8 DEF ServerInv

LEMMA BreakInv ==
  ASSUME ServerAssumption, ServerInv, NEW c \in Conns, Break(c)
  PROVE  ServerInv'
<1>1. ServerTypes'
  BY DEF ServerInv, ServerTypes, HandlerStates, AccPlaces, LoopPlaces, DelStates,
         Break, pool
<1>2. PoolInv'
  BY PoolInvFrame DEF ServerInv, Break, pool
<1>3. PlacesInv'
  BY PlacesInvFrame DEF ServerInv, Break, pool
<1>4. OwnInv'
  BY OwnInvFrame DEF ServerInv, Break, pool
<1>5. RegisteredInv'
  BY RegisteredInvFrame DEF ServerInv, Break, pool
<1>6. LoopInvariant'
  BY LoopInvariantFrame DEF ServerInv, Break, pool
<1>7. NoneLost'
  BY NoneLostFrame DEF ServerInv, Clearing, Break, pool
<1>8. CauseInv'
  BY DEF ServerInv, CauseInv, InLoop, ClosedForCause, Break, pool
<1> QED BY <1>1, <1>2, <1>3, <1>4, <1>5, <1>6, <1>7, <1>8 DEF ServerInv

LEMMA AcceptInv ==
  ASSUME ServerAssumption, ServerInv, Accept
  PROVE  ServerInv'
<1> DEFINE f == Min(FreeFds)
           c == Min(Queued)
<1>0. ServerTypes /\ OwnInv /\ PlacesInv /\ LoopInvariant /\ NoneLost
  BY DEF ServerInv
<1>a. f \in Fds /\ sock[f] = 0
  <2>1. FreeFds \subseteq Nat /\ FreeFds # {}
    BY DEF Accept, FreeFds, Fds
  <2>2. f \in FreeFds
    BY <2>1, Least
  <2> QED BY <2>2 DEF FreeFds, None
<1>b. c \in Conns /\ conn[c] = "queued"
  <2>1. Queued \subseteq Nat /\ Queued # {}
    BY DEF Accept, Queued, Conns
  <2>2. c \in Queued
    BY <2>1, Least
  <2> QED BY <2>2 DEF Queued
<1>c. /\ sock' = [sock EXCEPT ![f] = c] /\ conn' = [conn EXCEPT ![c] = "up"]
      /\ acc.pc = "idle" /\ acc' = [acc EXCEPT !.pc = "alloc", !.fd = f]
      /\ MayAccept
      /\ UNCHANGED <<accepts, free, chunks, handler, epoll, loop, del, sender,
           live, excused>>
  BY DEF Accept, pool
<1> HIDE DEF f, c
<1>d. acc'.pc = "alloc" /\ acc'.fd = f /\ acc'.h = acc.h
        /\ acc' \in [pc : AccPlaces, fd : Fds \cup {0}, h : Handlers \cup {0}]
  BY <1>0, <1>a, <1>c DEF ServerTypes, AccPlaces
<1>1. ServerTypes'
  BY <1>0, <1>a, <1>b, <1>c, <1>d DEF ServerTypes
<1>2. PoolInv'
  BY PoolInvFrame DEF ServerInv, Accept, pool
<1>3. PlacesInv'
  BY DEF ServerInv, PlacesInv, Accepting, Out, Closing, Accept, pool
<1>4. OwnInv'
  <2>1. \A x \in Handlers : Own(x) /\ handler[x].fd # 0 => handler[x].fd # f
    BY <1>0, <1>a, NoZeros DEF OwnInv
  <2>2. \A g \in Fds : g # f => sock'[g] = sock[g]
    BY <1>0, <1>a, <1>c DEF ServerTypes
  <2>3. \A x \in Handlers : handler[x].fd \in Fds \cup {0}
    BY <1>0 DEF ServerTypes, HandlerStates
  <2>4. f # 0 /\ sock'[f] # 0
    BY <1>0, <1>a, <1>b, <1>c, NoZeros DEF ServerTypes
  <2>5. \A g \in Handlers : Own(g)' = Own(g)
    BY <1>c DEF Own, Out, Clearing
  <2>6. accepts = "same_loop" => del["loop"].pc = "none"
    BY <1>0, <1>c DEF MayAccept, LoopInvariant
  <2> QED BY <1>0, <1>c, <1>d, <2>1, <2>2, <2>3, <2>4, <2>5, <2>6 DEF OwnInv, Accepting
<1>5. RegisteredInv'
  BY DEF ServerInv, RegisteredInv, Accept, pool
<1>6. LoopInvariant'
  BY <1>0, <1>c, <1>d DEF LoopInvariant, MayAccept
<1>7. NoneLost'
  <2>1. acc.fd = 0
    BY <1>0, <1>c DEF OwnInv
  <2>2. \A g \in Fds : g # f => sock'[g] = sock[g]
    BY <1>0, <1>a, <1>c DEF ServerTypes
  <2> QED BY <1>0, <1>c, <1>d, <2>1, <2>2, NoZeros DEF NoneLost, Own, Out, Clearing
<1>8. CauseInv'
  BY DEF ServerInv, CauseInv, InLoop, ClosedForCause, Accept, pool
<1> QED BY <1>1, <1>2, <1>3, <1>4, <1>5, <1>6, <1>7, <1>8 DEF ServerInv

LEMMA AcceptEndsInv ==
  ASSUME ServerAssumption, ServerInv, AcceptEnds
  PROVE  ServerInv'
<1>1. ServerTypes'
  BY DEF ServerInv, ServerTypes, HandlerStates, AccPlaces, LoopPlaces, DelStates,
         AcceptEnds, kernel, pool
<1>2. PoolInv'
  BY PoolInvFrame DEF ServerInv, AcceptEnds, kernel, pool
<1>3. PlacesInv'
  BY DEF ServerInv, PlacesInv, Accepting, Out, Closing, AcceptEnds, kernel, pool
<1>4. OwnInv'
  BY DEF ServerInv, OwnInv, Accepting, Own, Out, Clearing, AcceptEnds, kernel, pool
<1>5. RegisteredInv'
  BY DEF ServerInv, RegisteredInv, AcceptEnds, kernel, pool
<1>6. LoopInvariant'
  <2>1. CASE accepts = "same_loop"
    BY <2>1
       DEF ServerInv, ServerTypes, LoopInvariant, AcceptEnds, kernel, pool,
           MayAccept
  <2>2. CASE accepts # "same_loop"
    BY <2>2 DEF ServerInv, LoopInvariant, AcceptEnds, kernel, pool
  <2> QED BY <2>1, <2>2
<1>7. NoneLost'
  BY DEF ServerInv, NoneLost, Own, Out, Clearing, AcceptEnds, kernel, pool
<1>8. CauseInv'
  BY DEF ServerInv, CauseInv, InLoop, ClosedForCause, AcceptEnds, kernel, pool
<1> QED BY <1>1, <1>2, <1>3, <1>4, <1>5, <1>6, <1>7, <1>8 DEF ServerInv

LEMMA AllocHandlerInv ==
  ASSUME ServerAssumption, ServerInv, AllocHandler
  PROVE  ServerInv'
<1> DEFINE x == Last(Grown)
<1>0. /\ ServerTypes /\ PoolInv /\ PlacesInv /\ OwnInv /\ RegisteredInv /\ NoneLost
      /\ CauseInv
  BY DEF ServerInv
<1>a. /\ Grown # << >> /\ free' = Front(Grown)
      /\ chunks' = (IF Grown = free THEN chunks ELSE chunks + 1)
      /\ acc.pc = "alloc"
      /\ UNCHANGED <<accepts, sock, epoll, conn, loop, del, sender, live, excused>>
  BY DEF AllocHandler, PoolPop, kernel
<1>b. /\ Born \in Nat /\ Born' \in Nat /\ Born <= Born' /\ chunks' \in 0 .. MaxChunks
      /\ free' \in Seq(Handlers) /\ IsInjective(free') /\ x \in Handlers
      /\ ~Out(x) /\ x <= Born'
      /\ \A g \in Handlers \ {x} : Out(g) <=> ~In(g, free') /\ g <= Born'
      /\ \A g \in Handlers : In(g, free') => g <= Born' /\ g # x
  <2>0. MaxChunks \in Nat /\ PerChunk \in Nat /\ chunks \in 0 .. MaxChunks
          /\ PerChunk > 0
    BY <1>0 DEF ServerAssumption, ServerTypes
  <2>1. CASE Grown = free
    <3>1. chunks' = chunks /\ Born' = Born /\ Born \in Nat
      BY <1>a, <2>0, <2>1 DEF Born
    <3>2. /\ Front(free) \in Seq(Handlers) /\ IsInjective(Front(free))
          /\ Last(free) \in Handlers
          /\ \A y : In(y, Front(free)) <=> In(y, free) /\ y # Last(free)
      BY <1>0, <1>a, <2>1, PopPool DEF ServerTypes, PoolInv
    <3>3. In(Last(free), free)
      <4>1. Len(free) \in 1 .. Len(free)
        BY <1>0, <1>a, <2>1 DEF ServerTypes
      <4> QED BY <1>0, <4>1 DEF In, Last, ServerTypes
    <3>4. free' = Front(free) /\ x = Last(free)
      BY <1>a, <2>1
    <3>5. \A g \in Handlers : Pooled(g) <=> In(g, free)
      BY DEF Pooled, In
    <3>6. x <= Born /\ ~Out(x)
      BY <1>0, <3>2, <3>3, <3>4, <3>5 DEF PoolInv
    <3>7. \A g \in Handlers \ {x} : Out(g) <=> ~In(g, free') /\ g <= Born'
      BY <1>0, <3>1, <3>2, <3>4, <3>5 DEF PoolInv
    <3>8. \A g \in Handlers : In(g, free') => g <= Born' /\ g # x
      BY <1>0, <3>1, <3>2, <3>4, <3>5 DEF PoolInv
    <3> HIDE DEF x
    <3> QED BY <2>0, <3>1, <3>2, <3>4, <3>6, <3>7, <3>8
  <2>2. CASE Grown # free
    <3>1. free = << >> /\ chunks < MaxChunks /\ Grown = Chunk(chunks + 1)
      BY <2>0, <2>2 DEF Grown
    <3>2. /\ Chunk(chunks + 1) \in Seq(Handlers) /\ Chunk(chunks + 1) # << >>
          /\ IsInjective(Chunk(chunks + 1)) /\ x \in Handlers
          /\ (chunks + 1) * PerChunk = Born + PerChunk /\ Born \in Nat
          /\ \A y : In(y, Chunk(chunks + 1)) <=> y \in Born + 1 .. Born + PerChunk
          /\ x = Born + PerChunk
      BY <2>0, <3>1, NewChunk
    <3>3. /\ Front(Grown) \in Seq(Handlers) /\ IsInjective(Front(Grown))
          /\ \A y : In(y, Front(Grown)) <=> In(y, Grown) /\ y # x
      BY <3>1, <3>2, PopPool
    <3>4. chunks' = chunks + 1 /\ Born' = Born + PerChunk
      BY <1>a, <2>2, <3>2 DEF Born
    <3>5. \A g \in Handlers : ~Pooled(g) /\ g \in Nat
      BY <3>1 DEF Pooled, Handlers
    <3>6. \A g \in Handlers : Out(g) <=> g <= Born
      BY <1>0, <3>5 DEF PoolInv
    <3>7. \A g \in Handlers : In(g, free') <=>
            g \in Born + 1 .. Born + PerChunk /\ g # x
      BY <1>a, <3>1, <3>2, <3>3
    <3>8. \A g \in Handlers \ {x} : Out(g) <=> ~In(g, free') /\ g <= Born'
      BY <2>0, <3>2, <3>4, <3>5, <3>6, <3>7
    <3>9. ~Out(x) /\ x <= Born'
      BY <2>0, <3>2, <3>4, <3>6
    <3>10. Born <= Born' /\ chunks' \in 0 .. MaxChunks /\ Born' \in Nat
      BY <2>0, <3>1, <3>2, <3>4
    <3>11. \A g \in Handlers : In(g, free') => g <= Born' /\ g # x
      BY <2>0, <3>2, <3>4, <3>7
    <3> QED BY <1>a, <3>2, <3>3, <3>8, <3>9, <3>10, <3>11
  <2> QED BY <2>1, <2>2
<1>c. /\ handler' = [handler EXCEPT ![x] = [@ EXCEPT !.fd = acc.fd,
                                      !.conn = sock[acc.fd], !.in_object_pool = FALSE]]
      /\ acc' = [acc EXCEPT !.pc = "open", !.h = x]
  BY DEF AllocHandler
<1> HIDE DEF x
<1>d. acc'.pc = "open" /\ acc'.h = x /\ acc'.fd = acc.fd
      /\ acc' \in [pc : AccPlaces, fd : Fds \cup {0}, h : Handlers \cup {0}]
  BY <1>0, <1>b, <1>c DEF ServerTypes, AccPlaces
<1>e. acc.fd # 0 /\ sock[acc.fd] \in Conns /\ acc.fd \in Fds
  BY <1>0, <1>a DEF OwnInv, ServerTypes
<1>f. /\ \A g \in Handlers \ {x} : handler'[g] = handler[g]
      /\ handler'[x].fd = acc.fd /\ handler'[x].conn = sock[acc.fd]
      /\ handler'[x].in_object_pool = FALSE
      /\ handler'[x].in_event_loop = handler[x].in_event_loop
      /\ handler'[x].event_loop = handler[x].event_loop
      /\ handler' \in [Handlers -> HandlerStates]
  <2> DEFINE s == [handler[x] EXCEPT !.fd = acc.fd, !.conn = sock[acc.fd],
                                     !.in_object_pool = FALSE]
  <2>1. handler \in [Handlers -> HandlerStates] /\ handler[x] \in HandlerStates
    BY <1>0, <1>b, SMTT(60) DEF ServerTypes
  <2>2. s \in HandlerStates
    BY <2>1, <1>e, HandlerFields
  <2>3. handler' = [handler EXCEPT ![x] = s]
    BY <1>b, <1>c, <2>1
  <2>4. /\ s.fd = acc.fd /\ s.conn = sock[acc.fd] /\ s.in_object_pool = FALSE
        /\ s.in_event_loop = handler[x].in_event_loop
        /\ s.event_loop = handler[x].event_loop
    BY <2>1 DEF HandlerStates
  <2> HIDE DEF s
  <2>5. /\ handler' \in [Handlers -> HandlerStates] /\ handler'[x] = s
        /\ \A g \in Handlers \ {x} : handler'[g] = handler[g]
    BY <1>b, <2>1, <2>2, <2>3, HandlerSet
  <2> QED BY <2>4, <2>5
<1>g. ~handler[x].in_event_loop /\ ~Accepting(x) /\ \A t \in Threads : ~Closing(t, x)
  BY <1>0, <1>b DEF PlacesInv
<1>1. ServerTypes'
  BY <1>0, <1>a, <1>b, <1>d, <1>f DEF ServerTypes
<1>2. PoolInv'
  BY <1>b, <1>f, ZenonT(60) DEF PoolInv, Pooled, In, Out
<1>3. PlacesInv'
  BY <1>0, <1>a, <1>b, <1>d, <1>f, <1>g DEF PlacesInv, Accepting, Out, Closing
<1>4. OwnInv'
  <2>1. \A t \in Threads : del[t].pc \in {"close", "clear", "free"} =>
          del[t].h \in Handlers \ {x}
    BY <1>0, <1>g DEF PlacesInv, Closing
  <2>2. \A g \in Handlers : Own(g)' <=> Own(g) \/ g = x
    <3>1. \A t \in Threads : \A g \in Handlers : Clearing(t, g)' => g # x
      BY <1>a, <2>1 DEF Clearing
    <3>2. \A t \in Threads : \A g \in Handlers : Clearing(t, g)' <=> Clearing(t, g)
      BY <1>a DEF Clearing
    <3> QED BY <1>f, <3>1, <3>2 DEF Own, Out
  <2>3. sock' = sock /\ del' = del
    BY <1>a
  <2>4. \A g \in Handlers \ {x} : Own(g) => handler[g].fd # acc.fd
    BY <1>0, <1>a DEF OwnInv
  <2>5. \A g \in Handlers : Own(g)' /\ handler'[g].fd # 0 =>
          /\ handler'[g].conn # 0 /\ sock'[handler'[g].fd] = handler'[g].conn
          /\ \A k \in Handlers \ {g} : Own(k)' => handler'[k].fd # handler'[g].fd
    BY <1>0, <1>e, <1>f, <2>2, <2>3, <2>4, NoZeros DEF OwnInv
  <2>6. \A g \in Handlers : Accepting(g)' => handler'[g].fd = acc'.fd /\ acc'.fd # 0
    BY <1>d, <1>e, <1>f DEF Accepting
  <2>7. \A t \in Threads : /\ del'[t].pc = "close" => handler'[del'[t].h].fd # 0
                           /\ del'[t].pc = "free" => handler'[del'[t].h].fd = 0
    BY <1>0, <1>f, <2>1, <2>3 DEF OwnInv
  <2>8. accepts' = "same_loop" /\ del'["loop"].pc = "clear" =>
          \A k \in Fds : handler'[del'["loop"].h].fd = k => sock'[k] = 0
    BY <1>0, <1>a, <1>f, <2>1, <2>3 DEF OwnInv, Threads
  <2> QED BY <1>d, <2>5, <2>6, <2>7, <2>8 DEF OwnInv
<1>5. RegisteredInv'
  <2>1. \A k \in Fds : epoll[k] \in Handlers \cup {0} /\ epoll[k] # x
    BY <1>0, <1>a, <1>b, <1>g, NoZeros DEF RegisteredInv, ServerTypes
  <2>2. \A g \in Handlers : handler'[g].in_event_loop => g # x
    BY <1>f, <1>g
  <2> QED BY <1>0, <1>a, <1>d, <1>f, <2>1, <2>2 DEF RegisteredInv
<1>6. LoopInvariant'
  BY <1>a, <1>d, <1>f DEF ServerInv, LoopInvariant
<1>7. NoneLost'
  <2>1. \A g \in Handlers : Own(g) => g # x /\ Own(g)'
    BY <1>a, <1>b, <1>f DEF Own, Out, Clearing
  <2> QED BY <1>0, <1>a, <1>d, <1>f, <2>1 DEF NoneLost
<1>8. CauseInv'
  <2>1. \A t \in Threads : del[t].pc = "close" => del[t].h # x
    BY <1>g DEF Closing
  <2>2. \A g \in Handlers : InLoop(g) => g # x /\ InLoop(g)'
    BY <1>a, <1>d, <1>f, <1>g DEF InLoop
  <2>3. /\ UNCHANGED <<conn, excused, sender, del, loop, sock>>
        /\ \A g \in Handlers \ {x} : handler'[g] = handler[g]
    BY <1>a, <1>f
  <2>4. \A t \in Threads : del[t].pc # "none" => del[t].h \in Handlers
    BY <1>0 DEF PlacesInv
  <2>5. loop.pc \in {"read", "delete"} => loop.h \in Handlers
    BY DEF ServerInv, LoopInvariant
  <2>6. "loop" \in Threads
    BY DEF Threads
  <2> QED BY <1>0, <1>d, <2>1, <2>2, <2>3, <2>4, <2>5, <2>6
             DEF CauseInv, ClosedForCause
<1> QED BY <1>1, <1>2, <1>3, <1>4, <1>5, <1>6, <1>7, <1>8 DEF ServerInv

LEMMA AllocFailsInv ==
  ASSUME ServerAssumption, ServerInv, AllocFails
  PROVE  ServerInv'
<1>1. ServerTypes'
  <2>1. /\ acc.pc = "alloc" /\ excused' = excused \cup {sock[acc.fd]}
        /\ acc' = [acc EXCEPT !.pc = "close"]
        /\ UNCHANGED <<free, chunks, handler, sock, epoll, conn, loop, del, live>>
    BY DEF AllocFails, pool, kernel
  <2>2. ServerTypes /\ OwnInv
    BY DEF ServerInv
  <2>3. sock[acc.fd] \in Conns
    BY <2>1, <2>2 DEF OwnInv, ServerTypes
  <2> QED BY <2>1, <2>2, <2>3 DEF ServerTypes, AccPlaces
<1>2. PoolInv'
  BY PoolInvFrame DEF ServerInv, AllocFails, kernel, pool
<1>3. PlacesInv'
  BY DEF ServerInv, PlacesInv, Accepting, Out, Closing, AllocFails, kernel, pool
<1>4. OwnInv'
  BY DEF ServerInv, OwnInv, Accepting, Own, Out, Clearing, AllocFails, kernel, pool
<1>5. RegisteredInv'
  BY DEF ServerInv, RegisteredInv, AllocFails, kernel, pool
<1>6. LoopInvariant'
  BY DEF ServerInv, LoopInvariant, AllocFails, kernel, pool
<1>7. NoneLost'
  BY DEF ServerInv, NoneLost, Own, Out, Clearing, AllocFails, kernel, pool
<1>8. CauseInv'
  BY DEF ServerInv, CauseInv, InLoop, ClosedForCause, AllocFails, kernel, pool
<1> QED BY <1>1, <1>2, <1>3, <1>4, <1>5, <1>6, <1>7, <1>8 DEF ServerInv

LEMMA HandleOpenInv ==
  ASSUME ServerAssumption, ServerInv, NEW ok \in BOOLEAN, HandleOpen(ok)
  PROVE  ServerInv'
<1>1. ServerTypes'
  <2>1. /\ acc.pc = "open" /\ acc' = [acc EXCEPT !.pc = IF ok THEN "add" ELSE "free"]
        /\ live' = (IF ok THEN live \cup {acc.h} ELSE live)
        /\ excused' = (IF ok THEN excused ELSE excused \cup {handler[acc.h].conn})
        /\ UNCHANGED <<free, chunks, handler, sock, epoll, conn, loop, del>>
    BY DEF HandleOpen, pool, kernel
  <2>2. ServerTypes /\ OwnInv /\ PlacesInv
    BY DEF ServerInv
  <2>3. acc.h \in Handlers /\ Accepting(acc.h)
    BY <2>1, <2>2 DEF PlacesInv, Accepting
  <2>4. Own(acc.h) /\ handler[acc.h].fd # 0
    BY <2>2, <2>3, OwnPlaces DEF OwnInv
  <2>5. handler[acc.h].conn \in Conns
    BY <2>2, <2>3, <2>4 DEF OwnInv, ServerTypes, HandlerStates
  <2> QED BY <2>1, <2>2, <2>3, <2>5 DEF ServerTypes, AccPlaces
<1>2. PoolInv'
  BY PoolInvFrame DEF ServerInv, HandleOpen, kernel, pool
<1>3. PlacesInv'
  BY DEF ServerInv, PlacesInv, Accepting, Out, Closing, HandleOpen, kernel, pool
<1>4. OwnInv'
  BY DEF ServerInv, OwnInv, Accepting, Own, Out, Clearing, HandleOpen, kernel, pool
<1>5. RegisteredInv'
  BY DEF ServerInv, RegisteredInv, HandleOpen, kernel, pool
<1>6. LoopInvariant'
  BY DEF ServerInv, LoopInvariant, HandleOpen, kernel, pool
<1>7. NoneLost'
  BY DEF ServerInv, NoneLost, Own, Out, Clearing, HandleOpen, kernel, pool
<1>8. CauseInv'
  BY DEF ServerInv, CauseInv, InLoop, ClosedForCause, HandleOpen, kernel, pool
<1> QED BY <1>1, <1>2, <1>3, <1>4, <1>5, <1>6, <1>7, <1>8 DEF ServerInv

LEMMA AddCtlInv ==
  ASSUME ServerAssumption, ServerInv, AddCtl
  PROVE  ServerInv'
<1>0. ServerTypes /\ PlacesInv /\ OwnInv /\ RegisteredInv /\ CauseInv
  BY DEF ServerInv
<1>a. acc.pc = "add" /\ acc.h \in Handlers /\ Accepting(acc.h)
  BY <1>0 DEF AddCtl, PlacesInv, Accepting
<1>b. /\ ~handler[acc.h].in_event_loop /\ handler[acc.h].fd = acc.fd /\ Out(acc.h)
      /\ acc.fd # 0 /\ acc.fd \in Fds
  BY <1>0, <1>a DEF PlacesInv, OwnInv, ServerTypes
<1>c. /\ epoll' = [epoll EXCEPT ![acc.fd] = acc.h]
      /\ acc' = [acc EXCEPT !.pc = "flags"]
      /\ UNCHANGED <<accepts, free, chunks, handler, sock, conn, loop, del, sender,
                     live, excused>>
  BY <1>b DEF AddCtl, pool
<1>d. acc'.pc = "flags" /\ acc'.h = acc.h /\ acc'.fd = acc.fd
  BY <1>0, <1>c DEF ServerTypes
<1>e. epoll'[acc.fd] = acc.h /\ \A k \in Fds \ {acc.fd} : epoll'[k] = epoll[k]
  BY <1>0, <1>b, <1>c DEF ServerTypes
<1>1. ServerTypes'
  BY ZenonT(60) DEF ServerInv, ServerTypes, HandlerStates, AccPlaces, LoopPlaces, DelStates,
         AddCtl, pool
<1>2. PoolInv'
  BY PoolInvFrame DEF ServerInv, AddCtl, pool
<1>3. PlacesInv'
  BY <1>0, <1>a, <1>c, <1>d DEF PlacesInv, Accepting, Out, Closing
<1>4. OwnInv'
  BY <1>0, <1>a, <1>c, <1>d DEF OwnInv, Accepting, Own, Out, Clearing
<1>5. RegisteredInv'
  <2>1. \A g \in Handlers : handler[g].in_event_loop => handler[g].fd # acc.fd
    BY <1>0, <1>a, <1>b, OwnPlaces DEF OwnInv, PlacesInv
  <2>2. \A g \in Handlers : handler[g].fd \in Fds \cup {0}
    BY <1>0 DEF ServerTypes, HandlerStates
  <2> QED BY <1>0, <1>a, <1>b, <1>c, <1>d, <1>e, <2>1, <2>2 DEF RegisteredInv
<1>6. LoopInvariant'
  BY DEF ServerInv, LoopInvariant, AddCtl, pool
<1>7. NoneLost'
  BY <1>c, <1>d DEF ServerInv, NoneLost, Own, Out, Clearing
<1>8. CauseInv'
  <2>1. \A g : InLoop(g) => InLoop(g)'
    BY <1>a, <1>c DEF InLoop
  <2> QED BY <1>0, <1>c, <1>d, <2>1 DEF CauseInv, ClosedForCause
<1> QED BY <1>1, <1>2, <1>3, <1>4, <1>5, <1>6, <1>7, <1>8 DEF ServerInv

LEMMA AddFailsInv ==
  ASSUME ServerAssumption, ServerInv, AddFails
  PROVE  ServerInv'
<1>1. ServerTypes'
  <2>1. /\ acc.pc = "add" /\ acc' = [acc EXCEPT !.pc = "free"]
        /\ excused' = excused \cup {handler[acc.h].conn}
        /\ UNCHANGED <<free, chunks, handler, sock, epoll, conn, loop, del, live>>
    BY DEF AddFails, pool, kernel
  <2>2. ServerTypes /\ OwnInv /\ PlacesInv
    BY DEF ServerInv
  <2>3. acc.h \in Handlers /\ Accepting(acc.h)
    BY <2>1, <2>2 DEF PlacesInv, Accepting
  <2>4. Own(acc.h) /\ handler[acc.h].fd # 0
    BY <2>2, <2>3, OwnPlaces DEF OwnInv
  <2>5. handler[acc.h].conn \in Conns
    BY <2>2, <2>3, <2>4 DEF OwnInv, ServerTypes, HandlerStates
  <2> QED BY <2>1, <2>2, <2>3, <2>5 DEF ServerTypes, AccPlaces
<1>2. PoolInv'
  BY PoolInvFrame DEF ServerInv, AddFails, kernel, pool
<1>3. PlacesInv'
  BY DEF ServerInv, PlacesInv, Accepting, Out, Closing, AddFails, kernel, pool
<1>4. OwnInv'
  BY DEF ServerInv, OwnInv, Accepting, Own, Out, Clearing, AddFails, kernel, pool
<1>5. RegisteredInv'
  BY DEF ServerInv, RegisteredInv, AddFails, kernel, pool
<1>6. LoopInvariant'
  BY DEF ServerInv, LoopInvariant, AddFails, kernel, pool
<1>7. NoneLost'
  BY DEF ServerInv, NoneLost, Own, Out, Clearing, AddFails, kernel, pool
<1>8. CauseInv'
  BY DEF ServerInv, CauseInv, InLoop, ClosedForCause, AddFails, kernel, pool
<1> QED BY <1>1, <1>2, <1>3, <1>4, <1>5, <1>6, <1>7, <1>8 DEF ServerInv

LEMMA AddFlagsInv ==
  ASSUME ServerAssumption, ServerInv, AddFlags
  PROVE  ServerInv'
<1> DEFINE x == acc.h
<1>0. ServerTypes /\ PlacesInv /\ OwnInv /\ RegisteredInv /\ NoneLost /\ CauseInv
  BY DEF ServerInv
<1>a. acc.pc = "flags" /\ x \in Handlers /\ Accepting(x)
  BY <1>0 DEF AddFlags, PlacesInv, Accepting
<1>b. /\ ~handler[x].in_event_loop /\ handler[x].fd = acc.fd /\ Out(x)
      /\ acc.fd # 0 /\ acc.fd \in Fds
  BY <1>0, <1>a DEF PlacesInv, OwnInv, ServerTypes
<1>c. /\ acc' = [pc |-> "idle", fd |-> 0, h |-> 0]
      /\ UNCHANGED <<accepts, free, chunks, sock, epoll, conn, loop, del, sender,
                     live, excused>>
  BY DEF AddFlags, pool, kernel, None
<1>d. /\ \A g \in Handlers \ {x} : handler'[g] = handler[g]
      /\ handler'[x].fd = handler[x].fd /\ handler'[x].conn = handler[x].conn
      /\ handler'[x].in_object_pool = handler[x].in_object_pool
      /\ handler'[x].in_event_loop /\ handler'[x].event_loop
      /\ handler' \in [Handlers -> HandlerStates]
  <2> DEFINE s == [handler[x] EXCEPT !.in_event_loop = TRUE, !.event_loop = TRUE]
  <2>1. handler \in [Handlers -> HandlerStates] /\ handler[x] \in HandlerStates
    BY <1>0, <1>a, SMTT(60) DEF ServerTypes
  <2>2. s \in HandlerStates
    BY <2>1, HandlerFields, NoZeros
  <2>3. handler' = [handler EXCEPT ![x] = s]
    BY <1>a, <2>1 DEF AddFlags
  <2>4. /\ s.fd = handler[x].fd /\ s.conn = handler[x].conn
        /\ s.in_object_pool = handler[x].in_object_pool
        /\ s.in_event_loop = TRUE /\ s.event_loop = TRUE
    BY <2>1 DEF HandlerStates
  <2> HIDE DEF s
  <2>5. /\ handler' \in [Handlers -> HandlerStates] /\ handler'[x] = s
        /\ \A g \in Handlers \ {x} : handler'[g] = handler[g]
    BY <1>a, <2>1, <2>2, <2>3, HandlerSet
  <2> QED BY <2>4, <2>5
<1> HIDE DEF x
<1>e. \A g \in Handlers : Out(g)' = Out(g) /\ handler'[g].fd = handler[g].fd
        /\ handler'[g].conn = handler[g].conn
  BY <1>d DEF Out
<1>1. ServerTypes'
  BY <1>0, <1>c, <1>d DEF ServerTypes, AccPlaces
<1>2. PoolInv'
  BY <1>c, <1>e DEF ServerInv, PoolInv, Pooled, Born
<1>3. PlacesInv'
  BY <1>0, <1>a, <1>b, <1>c, <1>d, <1>e DEF PlacesInv, Accepting, Closing, x
<1>4. OwnInv'
  <2>1. \A t \in Threads : del[t].pc # "none" => del[t].h \in Handlers
    BY <1>0 DEF PlacesInv
  <2>2. \A g \in Handlers : Own(g)' = Own(g)
    BY <1>c, <1>e DEF Own, Clearing
  <2>3. "loop" \in Threads
    BY DEF Threads
  <2> QED BY <1>0, <1>c, <1>e, <2>1, <2>2, <2>3 DEF OwnInv, Accepting
<1>5. RegisteredInv'
  <2>1. epoll[acc.fd] = x /\ \A k \in Fds : epoll[k] \in Handlers \cup {0}
    BY <1>0, <1>a DEF RegisteredInv, ServerTypes, x
  <2>2. \A k \in Fds : epoll[k] # 0 => handler'[epoll[k]].in_event_loop
    BY <1>0, <1>a, <1>d, <2>1 DEF RegisteredInv, x
  <2>3. \A g \in Handlers : handler'[g].in_event_loop =>
          handler'[g].event_loop /\ handler'[g].fd # 0 /\ epoll[handler'[g].fd] = g
    BY <1>0, <1>b, <1>d, <1>e, <2>1 DEF RegisteredInv
  <2> QED BY <1>0, <1>c, <1>e, <2>1, <2>2, <2>3 DEF RegisteredInv
<1>6. LoopInvariant'
  BY <1>c, <1>d DEF ServerInv, LoopInvariant
<1>7. NoneLost'
  <2>1. \A g \in Handlers : Own(g)' = Own(g)
    BY <1>c, <1>e DEF Own, Clearing
  <2>2. Own(x)
    BY <1>0, <1>a, OwnPlaces
  <2> QED BY <1>0, <1>a, <1>b, <1>c, <1>e, <2>1, <2>2 DEF NoneLost
<1>8. CauseInv'
  <2>1. \A g \in Handlers : InLoop(g) => InLoop(g)'
    BY <1>a, <1>d DEF InLoop, x
  <2>2. \A t \in Threads : del[t].pc # "none" => del[t].h \in Handlers
    BY <1>0 DEF PlacesInv
  <2>3. loop.pc \in {"read", "delete"} => loop.h \in Handlers
    BY DEF ServerInv, LoopInvariant
  <2>4. "loop" \in Threads
    BY DEF Threads
  <2> QED BY <1>0, <1>c, <1>e, <2>1, <2>2, <2>3, <2>4 DEF CauseInv, ClosedForCause
<1> QED BY <1>1, <1>2, <1>3, <1>4, <1>5, <1>6, <1>7, <1>8 DEF ServerInv

LEMMA AcceptFreeInv ==
  ASSUME ServerAssumption, ServerInv, AcceptFree
  PROVE  ServerInv'
<1>0. /\ ServerTypes /\ PoolInv /\ PlacesInv /\ OwnInv /\ RegisteredInv /\ NoneLost
      /\ CauseInv
  BY DEF ServerInv
<1>a. PICK x \in Handlers : acc.pc = "free" /\ x = acc.h /\ Accepting(x)
  BY <1>0 DEF AcceptFree, PlacesInv, Accepting
<1>b. /\ ~handler[x].in_event_loop /\ handler[x].fd = acc.fd /\ Out(x)
      /\ acc.fd # 0 /\ acc.fd \in Fds /\ handler[x].conn = sock[acc.fd]
      /\ sock[acc.fd] # 0
      /\ Own(x) /\ \A t \in Threads : ~Closing(t, x)
  BY <1>0, <1>a, OwnPlaces DEF PlacesInv, OwnInv, ServerTypes
<1>c. /\ acc' = (IF accepts = "thread" THEN [acc EXCEPT !.pc = "close"]
                 ELSE [pc |-> "idle", fd |-> 0, h |-> 0])
      /\ UNCHANGED <<accepts, sock, epoll, conn, loop, del, sender, live, excused>>
  BY DEF AcceptFree, kernel, None
<1>d. /\ free' \in Seq(Handlers) /\ chunks' = chunks /\ PoolInv'
      /\ \A g \in Handlers \ {x} : handler'[g] = handler[g]
      /\ handler'[x].fd = handler[x].fd /\ handler'[x].conn = handler[x].conn
      /\ handler'[x].in_event_loop = handler[x].in_event_loop
      /\ handler'[x].event_loop = handler[x].event_loop
      /\ ~Out(x)' /\ handler' \in [Handlers -> HandlerStates]
  <2>1. FreeHandler(x)
    BY <1>a DEF AcceptFree
  <2> QED BY <1>0, <1>b, <2>1, Freed
<1>e. /\ acc' \in [pc : AccPlaces, fd : Fds \cup {0}, h : Handlers \cup {0}]
      /\ acc'.pc \in {"close", "idle"}
      /\ acc'.pc = "close" => acc'.fd = acc.fd
      /\ acc'.pc = "idle" => acc'.fd = 0
      /\ accepts = "thread" => acc'.pc = "close"
  BY <1>0, <1>c DEF ServerTypes, AccPlaces
<1>f. \A t \in Threads : del[t].pc # "none" => del[t].h \in Handlers
  BY <1>0 DEF PlacesInv
<1>g. \A g \in Handlers : (Out(g)' <=>
        Out(g) /\ g # x) /\ handler'[g].fd = handler[g].fd
                          /\ handler'[g].conn = handler[g].conn
                          /\ handler'[g].in_event_loop = handler[g].in_event_loop
                          /\ handler'[g].event_loop = handler[g].event_loop
  <2> TAKE g \in Handlers
  <2>1. CASE g = x
    BY <1>b, <1>d, <2>1
  <2>2. CASE g # x
    BY <1>d, <2>2 DEF Out
  <2> QED BY <2>1, <2>2
<1>h. \A g \in Handlers : Own(g)' <=> Own(g) /\ g # x
  BY <1>c, <1>g DEF Own, Clearing
<1>1. ServerTypes'
  BY <1>0, <1>c, <1>d, <1>e DEF ServerTypes
<1>2. PoolInv'
  BY <1>d
<1>3. PlacesInv'
  BY <1>0, <1>a, <1>b, <1>c, <1>e, <1>f, <1>g DEF PlacesInv, Accepting, Closing
<1>4. OwnInv'
  BY <1>0, <1>a, <1>b, <1>c, <1>e, <1>f, <1>g, <1>h DEF OwnInv, Accepting, Threads
<1>5. RegisteredInv'
  BY DEF ServerInv, RegisteredInv, AcceptFree, kernel, FreeHandler, None
<1>6. LoopInvariant'
  BY DEF ServerInv, LoopInvariant, AcceptFree, kernel, FreeHandler, None
<1>7. NoneLost'
  BY <1>0, <1>b, <1>c, <1>e, <1>g, <1>h DEF NoneLost
<1>8. CauseInv'
  <2>1. \A g \in Handlers : InLoop(g) => InLoop(g)'
    BY <1>a, <1>g DEF InLoop
  <2>2. loop.pc \in {"read", "delete"} => loop.h \in Handlers
    BY DEF ServerInv, LoopInvariant
  <2>3. "loop" \in Threads
    BY DEF Threads
  <2>4. acc'.pc = "close" => sock'[acc'.fd] \in excused
    BY <1>0, <1>a, <1>b, <1>c, <1>e DEF CauseInv
  <2>5. acc'.pc # "free"
    BY <1>e
  <2> QED BY <1>0, <1>c, <1>f, <1>g, <2>1, <2>2, <2>3, <2>4, <2>5
             DEF CauseInv, ClosedForCause
<1> QED BY <1>1, <1>2, <1>3, <1>4, <1>5, <1>6, <1>7, <1>8 DEF ServerInv

LEMMA AcceptCloseInv ==
  ASSUME ServerAssumption, ServerInv, AcceptClose
  PROVE  ServerInv'
<1>1. ServerTypes'
  BY DEF ServerInv, ServerTypes, HandlerStates, AccPlaces, LoopPlaces, DelStates,
         AcceptClose, pool, CloseFd, None
<1>2. PoolInv'
  BY PoolInvFrame DEF ServerInv, AcceptClose, pool
<1>3. PlacesInv'
  BY DEF ServerInv, PlacesInv, Accepting, Out, Closing, AcceptClose, pool, CloseFd,
         None
<1>4. OwnInv'
  BY DEF ServerInv, OwnInv, Accepting, Own, Out, Clearing, AcceptClose, pool, CloseFd,
         None
<1>5. RegisteredInv'
  <2>0. ServerTypes /\ OwnInv /\ PlacesInv /\ RegisteredInv
    BY DEF ServerInv
  <2>1. /\ acc.pc = "close" /\ acc'.pc = "idle" /\ handler' = handler
        /\ epoll' = [epoll EXCEPT ![acc.fd] = 0]
    BY DEF AcceptClose, CloseFd, None
  <2>2. acc.fd \in Fds /\ \A x \in Handlers : Own(x) => handler[x].fd # acc.fd
    BY <2>0, <2>1 DEF OwnInv, ServerTypes
  <2>3. \A x \in Handlers : handler[x].in_event_loop => Own(x)
    BY <2>0, OwnPlaces
  <2>4. \A x \in Handlers : handler[x].fd \in Fds \cup {0}
    BY <2>0 DEF ServerTypes, HandlerStates
  <2>5. epoll'[acc.fd] = 0 /\ \A k \in Fds \ {acc.fd} : epoll'[k] = epoll[k]
    BY <2>0, <2>1, <2>2 DEF ServerTypes
  <2> QED BY <2>0, <2>1, <2>2, <2>3, <2>4, <2>5 DEF RegisteredInv
<1>6. LoopInvariant'
  BY DEF ServerInv, LoopInvariant, AcceptClose, pool, CloseFd, None
<1>7. NoneLost'
  BY DEF ServerInv, ServerTypes, NoneLost, Own, Out, Clearing, AcceptClose, pool,
         CloseFd, None, Threads, HandlerStates, DelStates, AccPlaces, LoopPlaces
<1>8. CauseInv'
  BY DEF ServerInv, CauseInv, InLoop, ClosedForCause, AcceptClose, pool, CloseFd, None
<1> QED BY <1>1, <1>2, <1>3, <1>4, <1>5, <1>6, <1>7, <1>8 DEF ServerInv

LEMMA EpollWaitInv ==
  ASSUME ServerAssumption, ServerInv, EpollWait
  PROVE  ServerInv'
<1>0. ServerTypes /\ RegisteredInv /\ LoopInvariant /\ CauseInv
  BY SMTT(60) DEF ServerInv
<1>a. PICK data \in SUBSET (Registered \ Failed) :
        loop' = [loop EXCEPT !.pc = "batch",
                   !.batch = Listening \cup {epoll[k] : k \in Failed \cup data}]
  BY DEF EpollWait
<1> DEFINE batch == Listening \cup {epoll[k] : k \in Failed \cup data}
<1>b. \A x \in batch : x = Listener \/ (x \in Handlers /\ \E k \in Fds : epoll[k] = x)
  BY <1>0 DEF Listening, Registered, Failed, ServerTypes, None
<1> HIDE DEF batch
<1>c. /\ loop' \in [pc : LoopPlaces, batch : SUBSET (Handlers \cup {Listener}),
           h : Handlers \cup {0, Listener}]
      /\ loop'.pc = "batch" /\ loop'.batch = batch
  BY <1>0, <1>a, <1>b DEF ServerTypes, LoopPlaces, batch
<1>d. loop.pc = "wait"
        /\ UNCHANGED <<accepts, free, chunks, handler, sock, epoll, conn, acc,
        del, sender, live, excused>>
  BY DEF EpollWait, pool, kernel
<1>e. \A x \in batch \cap Handlers : \E k \in Fds : epoll[k] = x
  BY <1>b, ListenerIsNoHandler
<1>f. \A x \in batch \cap Handlers : InLoop(x)
  BY <1>0, <1>e, NoZeros DEF RegisteredInv, InLoop
<1>1. ServerTypes'
  BY <1>0, <1>c, <1>d DEF ServerTypes
<1>2. PoolInv'
  BY PoolInvFrame DEF ServerInv, EpollWait, kernel, pool
<1>3. PlacesInv'
  BY PlacesInvFrame DEF ServerInv, EpollWait, kernel, pool
<1>4. OwnInv'
  BY OwnInvFrame DEF ServerInv, EpollWait, kernel, pool
<1>5. RegisteredInv'
  BY RegisteredInvFrame DEF ServerInv, EpollWait, kernel, pool
<1>6. LoopInvariant'
  <2>1. accepts = "same_loop" => acc.pc = "idle"
    BY <1>0, <1>d DEF LoopInvariant
  <2>2. accepts = "same_loop" => \A x \in batch \cap Handlers : handler[x].event_loop
    BY <1>0, <1>f, <2>1 DEF InLoop, RegisteredInv
  <2> QED BY <1>0, <1>c, <1>d, <2>1, <2>2 DEF LoopInvariant
<1>7. NoneLost'
  BY NoneLostFrame DEF ServerInv, Clearing, EpollWait, kernel, pool
<1>8. CauseInv'
  <2>1. \A g : InLoop(g)' = InLoop(g)
    BY <1>d DEF InLoop
  <2> QED BY <1>0, <1>c, <1>d, <1>f, <2>1 DEF CauseInv, ClosedForCause
<1> QED BY <1>1, <1>2, <1>3, <1>4, <1>5, <1>6, <1>7, <1>8 DEF ServerInv

LEMMA BatchDoneInv ==
  ASSUME ServerAssumption, ServerInv, BatchDone
  PROVE  ServerInv'
<1>1. ServerTypes'
  BY DEF ServerInv, ServerTypes, HandlerStates, AccPlaces, LoopPlaces, DelStates,
         BatchDone, kernel, pool, None
<1>2. PoolInv'
  BY PoolInvFrame DEF ServerInv, BatchDone, kernel, pool
<1>3. PlacesInv'
  BY PlacesInvFrame DEF ServerInv, BatchDone, kernel, pool
<1>4. OwnInv'
  BY OwnInvFrame DEF ServerInv, BatchDone, kernel, pool
<1>5. RegisteredInv'
  BY RegisteredInvFrame DEF ServerInv, BatchDone, kernel, pool
<1>6. LoopInvariant'
  BY DEF ServerInv, LoopInvariant, BatchDone, kernel, pool, None
<1>7. NoneLost'
  BY NoneLostFrame DEF ServerInv, Clearing, BatchDone, kernel, pool
<1>8. CauseInv'
  BY DEF ServerInv, CauseInv, InLoop, ClosedForCause, BatchDone, kernel, pool, None
<1> QED BY <1>1, <1>2, <1>3, <1>4, <1>5, <1>6, <1>7, <1>8 DEF ServerInv

LEMMA DeletedInv ==
  ASSUME ServerAssumption, ServerInv, Deleted
  PROVE  ServerInv'
<1>1. ServerTypes'
  BY DEF ServerInv, ServerTypes, HandlerStates, AccPlaces, LoopPlaces, DelStates,
         Deleted, kernel, pool
<1>2. PoolInv'
  BY PoolInvFrame DEF ServerInv, Deleted, kernel, pool
<1>3. PlacesInv'
  BY PlacesInvFrame DEF ServerInv, Deleted, kernel, pool
<1>4. OwnInv'
  BY OwnInvFrame DEF ServerInv, Deleted, kernel, pool
<1>5. RegisteredInv'
  BY RegisteredInvFrame DEF ServerInv, Deleted, kernel, pool
<1>6. LoopInvariant'
  BY DEF ServerInv, LoopInvariant, Deleted, kernel, pool
<1>7. NoneLost'
  BY NoneLostFrame DEF ServerInv, Clearing, Deleted, kernel, pool
<1>8. CauseInv'
  BY DEF ServerInv, CauseInv, InLoop, ClosedForCause, Deleted, kernel, pool
<1> QED BY <1>1, <1>2, <1>3, <1>4, <1>5, <1>6, <1>7, <1>8 DEF ServerInv

LEMMA NextReadyInv ==
  ASSUME ServerAssumption, ServerInv, NEW x \in Handlers \cup {Listener}, NextReady(x)
  PROVE  ServerInv'
<1>1. ServerTypes'
  BY DEF ServerInv, ServerTypes, HandlerStates, AccPlaces, LoopPlaces, DelStates,
         NextReady, kernel, pool
<1>2. PoolInv'
  BY PoolInvFrame DEF ServerInv, NextReady, kernel, pool
<1>3. PlacesInv'
  BY PlacesInvFrame DEF ServerInv, NextReady, kernel, pool
<1>4. OwnInv'
  BY OwnInvFrame DEF ServerInv, NextReady, kernel, pool
<1>5. RegisteredInv'
  BY RegisteredInvFrame DEF ServerInv, NextReady, kernel, pool
<1>6. LoopInvariant'
  BY DEF ServerInv, LoopInvariant, NextReady, kernel, pool
<1>7. NoneLost'
  BY NoneLostFrame DEF ServerInv, Clearing, NextReady, kernel, pool
<1>8. CauseInv'
  BY DEF ServerInv, CauseInv, InLoop, ClosedForCause, NextReady, kernel, pool
<1> QED BY <1>1, <1>2, <1>3, <1>4, <1>5, <1>6, <1>7, <1>8 DEF ServerInv

LEMMA HandleReadInv ==
  ASSUME ServerAssumption, ServerInv, NEW r \in BOOLEAN, HandleRead(r)
  PROVE  ServerInv'
<1>0. ServerTypes /\ PlacesInv /\ OwnInv /\ RegisteredInv /\ LoopInvariant /\ CauseInv
  BY DEF ServerInv
<1>a. PICK x \in Handlers : loop.pc = "read" /\ x = loop.h /\ del["loop"].pc = "none"
  BY <1>0 DEF HandleRead, LoopInvariant
<1> DEFINE f == handler[x].fd
           fails == Broken(f) \/ r
<1>b. UNCHANGED <<accepts, free, chunks, handler, sock, epoll, conn, acc, sender,
        live>>
  BY DEF HandleRead, pool, kernel
<1>c. fails => /\ del' = [del EXCEPT !["loop"] = [pc |-> "lock", h |-> x]]
               /\ loop' = [loop EXCEPT !.pc = "delete"]
               /\ excused' = IF r
                               /\ ~Broken(f) THEN excused \cup {sock[f]} ELSE excused
  BY <1>a DEF HandleRead
<1>d. ~fails => loop' = [loop EXCEPT !.pc = "batch"] /\ UNCHANGED <<del, excused>>
  BY <1>a DEF HandleRead
<1>e. /\ f \in Fds \cup {0} /\ "loop" \in Threads /\ Threads = {"loop", "sender"}
      /\ handler[x].conn \in Conns \cup {0}
  BY <1>0 DEF ServerTypes, HandlerStates, Threads
<1>f. ~Broken(f) => f \in Fds /\ sock[f] \in Conns
  BY <1>0, <1>e DEF Broken, None, ServerTypes
<1>g. /\ fails => /\ del'["loop"].pc = "lock" /\ del'["loop"].h = x
                  /\ del'["sender"] = del["sender"]
                  /\ loop'.pc = "delete" /\ loop'.h = loop.h
                  /\ loop'.batch = loop.batch
      /\ ~fails => loop'.pc = "batch" /\ loop'.batch = loop.batch
  BY <1>0, <1>c, <1>d, <1>e DEF ServerTypes
<1> HIDE DEF f, fails
<1>1. ServerTypes'
  <2>1. excused' \subseteq Conns
    BY <1>0, <1>c, <1>d, <1>f DEF ServerTypes
  <2>2. del' \in [Threads -> DelStates]
    BY <1>0, <1>c, <1>d, <1>e DEF ServerTypes, DelStates
  <2>3. loop' \in [pc : LoopPlaces, batch : SUBSET (Handlers \cup {Listener}),
          h : Handlers \cup {0, Listener}]
    BY <1>0, <1>c, <1>d DEF ServerTypes, LoopPlaces
  <2> QED BY <1>0, <1>b, <2>1, <2>2, <2>3 DEF ServerTypes
<1>2. PoolInv'
  BY PoolInvFrame DEF ServerInv, HandleRead, kernel, pool
<1>3. PlacesInv'
  <2>1. \A t \in Threads : \A g \in Handlers : Closing(t, g)' <=> Closing(t, g)
    BY <1>a, <1>d, <1>e, <1>g DEF Closing
  <2>2. \A t \in Threads : del'[t].pc # "none" => del'[t].h \in Handlers
    BY <1>0, <1>a, <1>d, <1>e, <1>g DEF PlacesInv
  <2>3. \A g \in Handlers : Out(g)' = Out(g) /\ Accepting(g)' = Accepting(g)
    BY <1>b DEF Out, Accepting
  <2> QED BY <1>0, <1>b, <2>1, <2>2, <2>3 DEF PlacesInv
<1>4. OwnInv'
  <2>1. \A g \in Handlers : Own(g)' = Own(g)
    BY <1>a, <1>b, <1>d, <1>e, <1>g DEF Own, Out, Clearing
  <2> QED BY <1>0, <1>b, <1>d, <1>e, <1>g, <2>1 DEF OwnInv, Accepting
<1>5. RegisteredInv'
  BY RegisteredInvFrame DEF ServerInv, HandleRead, kernel, pool
<1>6. LoopInvariant'
  BY <1>0, <1>a, <1>b, <1>d, <1>g DEF LoopInvariant
<1>7. NoneLost'
  <2>1. \A t \in Threads : \A g \in Handlers : Clearing(t, g)' <=> Clearing(t, g)
    BY <1>a, <1>d, <1>e, <1>g DEF Clearing
  <2> QED BY <1>b, <2>1, NoneLostFrame DEF ServerInv
<1>8. CauseInv'
  <2>1. \A g : InLoop(g)' = InLoop(g)
    BY <1>b DEF InLoop
  <2>2. excused \subseteq excused'
    BY <1>c, <1>d
  <2>3. ASSUME ~sender, fails
        PROVE  InLoop(x) /\ x \notin loop.batch /\ handler[x].conn \in excused'
    <3>1. InLoop(x) /\ x \notin loop.batch
      BY <1>0, <1>a, <2>3 DEF CauseInv
    <3>2. f # 0 /\ Own(x)
      BY <1>0, <3>1, OwnPlaces DEF InLoop, RegisteredInv, OwnInv, Accepting, f
    <3>3. sock[f] = handler[x].conn /\ sock[f] # 0 /\ sock[f] \in Conns
      BY <1>0, <1>e, <3>2 DEF OwnInv, f, ServerTypes
    <3>4. CASE Broken(f)
      <4>1. conn[sock[f]] = "failed"
        BY <3>2, <3>3, <3>4 DEF Broken, None
      <4> QED BY <1>0, <2>2, <3>1, <3>3, <4>1 DEF CauseInv
    <3>5. CASE ~Broken(f)
      BY <1>c, <2>3, <3>1, <3>3, <3>5 DEF fails
    <3> QED BY <3>4, <3>5
  <2>4. (~sender => ClosedForCause) /\ \A c \in Conns : conn[c] = "failed" =>
          c \in excused
    BY <1>0 DEF CauseInv, ClosedForCause
  <2>5. ~sender => ClosedForCause'
    BY <1>b, <2>2, <2>4 DEF ClosedForCause
  <2>6. CASE fails
    BY <1>0, <1>a, <1>b, <1>g, <2>1, <2>2, <2>3, <2>4, <2>5, <2>6 DEF CauseInv
  <2>7. CASE ~fails
    BY <1>0, <1>a, <1>b, <1>d, <1>g, <2>1, <2>4, <2>5, <2>7 DEF CauseInv
  <2> QED BY <2>6, <2>7
<1> QED BY <1>1, <1>2, <1>3, <1>4, <1>5, <1>6, <1>7, <1>8 DEF ServerInv

LEMMA SendFailsInv ==
  ASSUME ServerAssumption, ServerInv, NEW x \in Handlers, SendFails(x)
  PROVE  ServerInv'
<1>1. ServerTypes'
  BY ZenonT(60) DEF ServerInv, ServerTypes, HandlerStates, AccPlaces, LoopPlaces, DelStates,
         SendFails, kernel, pool
<1>2. PoolInv'
  BY PoolInvFrame DEF ServerInv, SendFails, kernel, pool
<1>3. PlacesInv'
  BY DEF ServerInv, PlacesInv, Accepting, Out, Closing, SendFails, kernel, pool
<1>4. OwnInv'
  BY DEF ServerInv, OwnInv, Accepting, Own, Out, Clearing, SendFails, kernel, pool
<1>5. RegisteredInv'
  BY RegisteredInvFrame DEF ServerInv, SendFails, kernel, pool
<1>6. LoopInvariant'
  BY DEF ServerInv, LoopInvariant, SendFails, kernel, pool
<1>7. NoneLost'
  BY NoneLostFrame DEF ServerInv, Clearing, SendFails, kernel, pool
<1>8. CauseInv'
  BY DEF ServerInv, CauseInv, InLoop, ClosedForCause, SendFails, kernel, pool
<1> QED BY <1>1, <1>2, <1>3, <1>4, <1>5, <1>6, <1>7, <1>8 DEF ServerInv

LEMMA DeleteLockedInv ==
  ASSUME ServerAssumption, ServerInv, NEW t \in Threads, DeleteLocked(t)
  PROVE  ServerInv'
<1>0. /\ ServerTypes /\ PoolInv /\ PlacesInv /\ OwnInv /\ RegisteredInv
      /\ LoopInvariant /\ NoneLost /\ CauseInv
  BY DEF ServerInv
<1>a. PICK x \in Handlers : x = del[t].h
  BY <1>0 DEF DeleteLocked, PlacesInv
<1> DEFINE f == handler[x].fd
           found == handler[x].in_event_loop /\ f \in Fds /\ epoll[f] # 0
<1>b. /\ del[t].pc = "lock" /\ acc.pc # "flags"
      /\ UNCHANGED <<accepts, free, chunks, sock, conn, acc, loop, sender, live,
           excused>>
  BY DEF DeleteLocked, pool, LoopMutexFree
<1>c. found => /\ del' = [del EXCEPT ![t].pc = "close"]
               /\ epoll' = [epoll EXCEPT ![f] = 0]
               /\ handler' = [handler EXCEPT ![x].in_event_loop = FALSE]
  BY <1>a DEF DeleteLocked, None
<1>d. ~found => del' = [del EXCEPT ![t].pc = "none"] /\ UNCHANGED <<epoll, handler>>
  BY <1>a DEF DeleteLocked, None
<1>e. handler[x].in_event_loop => found
  BY <1>0, NoZeros DEF RegisteredInv, ServerTypes, HandlerStates
<1>f. /\ del' \in [Threads -> DelStates] /\ del'[t].h = del[t].h
      /\ del'[t].pc = IF found THEN "close" ELSE "none"
      /\ \A u \in Threads \ {t} : del'[u] = del[u]
  <2>1. del \in [Threads -> DelStates] /\ del[t] \in DelStates
    BY <1>0 DEF ServerTypes
  <2>2. \A p \in {"close", "none"} :
          /\ [del[t] EXCEPT !.pc = p] \in DelStates
          /\ [del[t] EXCEPT !.pc = p].pc = p /\ [del[t] EXCEPT !.pc = p].h = del[t].h
    BY <2>1 DEF DelStates
  <2> DEFINE p == IF found THEN "close" ELSE "none"
  <2>3. p \in {"close", "none"} /\ del' = [del EXCEPT ![t] = [del[t] EXCEPT !.pc = p]]
    BY <1>c, <1>d, <2>1
  <2> HIDE DEF p
  <2>4. \A u \in Threads \ {t} : del'[u] = del[u]
    BY <2>1, <2>3
  <2>5. del'[t] = [del[t] EXCEPT !.pc = p] /\ del' \in [Threads -> DelStates]
    BY <2>1, <2>2, <2>3
  <2>6. del'[t].h = del[t].h /\ del'[t].pc = p
    BY <2>2, <2>3, <2>5
  <2> QED BY <2>4, <2>5, <2>6 DEF p
<1>g. ~found => ~handler[x].in_event_loop
  BY <1>e
<1>h. found => /\ \A g \in Handlers \ {x} : handler'[g] = handler[g]
               /\ handler'[x].fd = handler[x].fd /\ handler'[x].conn = handler[x].conn
               /\ handler'[x].in_object_pool = handler[x].in_object_pool
               /\ ~handler'[x].in_event_loop
               /\ handler'[x].event_loop = handler[x].event_loop
               /\ handler' \in [Handlers -> HandlerStates]
  <2> SUFFICES ASSUME found
               PROVE  /\ \A g \in Handlers \ {x} : handler'[g] = handler[g]
                      /\ handler'[x].fd = handler[x].fd
                      /\ handler'[x].conn = handler[x].conn
                      /\ handler'[x].in_object_pool = handler[x].in_object_pool
                      /\ ~handler'[x].in_event_loop
                      /\ handler'[x].event_loop = handler[x].event_loop
                      /\ handler' \in [Handlers -> HandlerStates]
    OBVIOUS
  <2> DEFINE s == [handler[x] EXCEPT !.in_event_loop = FALSE]
  <2>1. handler \in [Handlers -> HandlerStates] /\ handler[x] \in HandlerStates
    BY <1>0, SMTT(60) DEF ServerTypes
  <2>2. s \in HandlerStates
    BY <2>1, HandlerFields, NoZeros
  <2>3. handler' = [handler EXCEPT ![x] = s]
    BY <1>c, <2>1
  <2>4. /\ s.fd = handler[x].fd /\ s.conn = handler[x].conn
        /\ s.in_object_pool = handler[x].in_object_pool
        /\ s.in_event_loop = FALSE /\ s.event_loop = handler[x].event_loop
    BY <2>1 DEF HandlerStates
  <2> HIDE DEF s
  <2>5. /\ handler' \in [Handlers -> HandlerStates] /\ handler'[x] = s
        /\ \A g \in Handlers \ {x} : handler'[g] = handler[g]
    BY <2>1, <2>2, <2>3, HandlerSet
  <2> QED BY <2>4, <2>5
<1> HIDE DEF found
<1>i. \A g \in Handlers : /\ handler'[g].fd = handler[g].fd
                          /\ handler'[g].conn = handler[g].conn
                          /\ handler'[g].event_loop = handler[g].event_loop
                          /\ Out(g)' = Out(g)
                          /\ handler'[g].in_event_loop <=>
                               handler[g].in_event_loop /\ g # x
  <2> TAKE g \in Handlers
  <2>1. CASE found /\ g = x
    BY <1>h, <2>1 DEF Out
  <2>2. CASE found /\ g # x
    BY <1>h, <2>2 DEF Out
  <2>3. CASE ~found
    BY <1>d, <1>g, <2>3 DEF Out
  <2> QED BY <2>1, <2>2, <2>3
<1>j. found => f \in Fds /\ handler[x].in_event_loop
  BY DEF found
<1> HIDE DEF f
<1>k. \A u \in Threads : \A g \in Handlers :
        Closing(u, g)' <=> Closing(u, g) \/ (found /\ u = t /\ g = x)
  BY <1>a, <1>b, <1>f DEF Closing
<1>l. \A k \in Fds : epoll'[k] = IF found /\ k = f THEN 0 ELSE epoll[k]
  BY <1>0, <1>c, <1>d, <1>j DEF ServerTypes
<1>1. ServerTypes'
  <2>1. epoll' \in [Fds -> Handlers \cup {0}]
    BY <1>0, <1>c, <1>d DEF ServerTypes
  <2>2. handler' \in [Handlers -> HandlerStates]
    BY <1>0, <1>d, <1>h DEF ServerTypes
  <2> QED BY <1>0, <1>b, <1>f, <2>1, <2>2 DEF ServerTypes
<1>2. PoolInv'
  BY <1>0, <1>b, <1>i DEF PoolInv, Pooled, Born
<1>3. PlacesInv'
  <2>1. \A g : Accepting(g)' = Accepting(g)
    BY <1>b DEF Accepting
  <2>2. \A u \in Threads : del'[u].pc # "none" => del'[u].h \in Handlers
    BY <1>0, <1>a, <1>f DEF PlacesInv
  <2>3. found => ~Accepting(x) /\ \A u \in Threads : ~Closing(u, x)
    BY <1>0, <1>j DEF PlacesInv
  <2>4. \A g \in Handlers : Out(g)' <=>
          \/ Accepting(g)' \/ handler'[g].in_event_loop
          \/ \E u \in Threads : Closing(u, g)'
    <3> TAKE g \in Handlers
    <3>1. CASE g = x
      BY <1>0, <1>g, <1>i, <1>j, <1>k, <2>1, <3>1 DEF PlacesInv
    <3>2. CASE g # x
      BY <1>0, <1>i, <1>k, <2>1, <3>2 DEF PlacesInv
    <3> QED BY <3>1, <3>2
  <2>5. \A g \in Handlers : \A u \in Threads : Closing(u, g)' =>
          /\ ~Accepting(g)' /\ ~handler'[g].in_event_loop
          /\ \A v \in Threads \ {u} : ~Closing(v, g)'
    BY <1>0, <1>i, <1>k, <2>1, <2>3 DEF PlacesInv
  <2>6. \A g \in Handlers : Accepting(g)' => ~handler'[g].in_event_loop
    BY <1>0, <1>i, <2>1 DEF PlacesInv
  <2> QED BY <1>0, <1>b, <2>2, <2>4, <2>5, <2>6 DEF PlacesInv
<1>4. OwnInv'
  <2>1. \A g : Accepting(g)' = Accepting(g)
    BY <1>b DEF Accepting
  <2>2. \A u \in Threads : del'[u].pc \in {"close", "free"} => del'[u].h \in Handlers
    BY <1>0, <1>a, <1>f DEF PlacesInv
  <2>3. \A u \in Threads : /\ del'[u].pc = "close" => handler'[del'[u].h].fd # 0
                           /\ del'[u].pc = "free" => handler'[del'[u].h].fd = 0
    BY <1>0, <1>a, <1>f, <1>i, <1>j, <2>2, NoZeros DEF OwnInv, f
  <2>4. \A g \in Handlers : Own(g)' = Own(g)
    BY <1>b, <1>f, <1>i DEF Own, Clearing
  <2>5. "loop" \in Threads /\ \A u \in Threads : del'[u].pc = "clear" =>
          del'[u] = del[u] /\ del[u].h \in Handlers
    BY <1>0, <1>f DEF Threads, PlacesInv
  <2> QED BY <1>0, <1>b, <1>i, <2>1, <2>3, <2>4, <2>5 DEF OwnInv
<1>5. RegisteredInv'
  <2>1. \A k \in Fds : epoll[k] \in Handlers \cup {0}
    BY <1>0 DEF ServerTypes
  <2>2. \A g \in Handlers : handler[g].fd \in Fds \cup {0}
    BY <1>0 DEF ServerTypes, HandlerStates
  <2>3. \A g \in Handlers : handler'[g].in_event_loop =>
          handler'[g].event_loop /\ handler'[g].fd # 0 /\ epoll'[handler'[g].fd] = g
    <3> TAKE g \in Handlers
    <3>1. ASSUME handler[g].in_event_loop, g # x, found
          PROVE  handler[g].fd # f
      BY <1>0, <1>j, <3>1 DEF RegisteredInv, f
    <3> QED BY <1>0, <1>i, <1>l, <2>2, <3>1 DEF RegisteredInv
  <2>4. \A k \in Fds : epoll'[k] # 0 =>
          handler'[epoll'[k]].fd = k /\ handler'[epoll'[k]].in_event_loop
    <3> SUFFICES ASSUME NEW k \in Fds, epoll'[k] # 0
                 PROVE  handler'[epoll'[k]].fd = k
                          /\ handler'[epoll'[k]].in_event_loop
      OBVIOUS
    <3>1. epoll'[k] = epoll[k] /\ ~(found /\ k = f) /\ epoll[k] \in Handlers
      BY <1>l, <2>1
    <3>2. handler[epoll[k]].fd = k /\ handler[epoll[k]].in_event_loop
      BY <1>0, <1>b, <3>1 DEF RegisteredInv
    <3>3. epoll[k] # x
      BY <1>g, <3>1, <3>2 DEF f
    <3> QED BY <1>i, <3>1, <3>2, <3>3
  <2> QED BY <1>b, <2>3, <2>4 DEF RegisteredInv
<1>6. LoopInvariant'
  <2>1. "loop" \in Threads /\ \A u \in Threads : del[u].pc = "none" =>
          del'[u].pc = "none"
    BY <1>b, <1>f DEF Threads
  <2>2. accepts = "same_loop" /\ loop.pc = "read" => handler'[loop.h].event_loop
    BY <1>0, <1>i DEF LoopInvariant
  <2> QED BY <1>0, <1>b, <1>i, <2>1, <2>2 DEF LoopInvariant
<1>7. NoneLost'
  <2>1. \A g \in Handlers : Own(g)' = Own(g)
    BY <1>b, <1>f, <1>i DEF Own, Clearing
  <2> QED BY <1>0, <1>b, <1>i, <2>1 DEF NoneLost
<1>8. CauseInv'
  <2>1. acc.pc = "free" => acc.h \in Handlers
    BY <1>0 DEF PlacesInv
  <2>2. ASSUME ~sender
        PROVE  t = "loop" /\ loop.pc = "delete" /\ x \notin loop.batch /\ loop.h = x
    BY <1>0, <1>a, <1>b, <2>2 DEF CauseInv, LoopInvariant, Threads
  <2>3. \A g \in Handlers \ {x} : InLoop(g) => InLoop(g)'
    BY <1>b, <1>i DEF InLoop
  <2>4. ASSUME ~sender
        PROVE  /\ \A g \in loop.batch \cap Handlers : InLoop(g)'
               /\ del'["sender"].pc = "none" /\ del'["loop"].pc \in {"close", "none"}
               /\ del'["loop"].h = x /\ handler'[x].conn \in excused
    <3>1. /\ \A g \in loop.batch \cap Handlers : InLoop(g)
          /\ del["sender"].pc = "none" /\ handler[x].conn \in excused
      BY <1>0, <1>a, <1>b, <2>2, <2>4 DEF CauseInv
    <3>2. \A g \in loop.batch \cap Handlers : g # x
      BY <2>2, <2>4
    <3>3. del'["sender"].pc = "none"
      BY <1>f, <2>2, <2>4, <3>1 DEF Threads
    <3>4. del'["loop"].pc \in {"close", "none"} /\ del'["loop"].h = x
      BY <1>a, <1>f, <2>2, <2>4
    <3> QED BY <1>i, <2>3, <3>1, <3>2, <3>3, <3>4
  <2>5. ~sender => ClosedForCause'
    BY <1>0, <1>b DEF CauseInv, ClosedForCause
  <2>6. /\ \A c \in Conns : conn'[c] = "failed" => c \in excused'
        /\ acc'.pc = "free" => handler'[acc'.h].conn \in excused'
        /\ acc'.pc = "close" => sock'[acc'.fd] \in excused'
    BY <1>0, <1>b, <1>i, <2>1 DEF CauseInv
  <2>7. ~sender' => /\ loop'.pc = "delete" /\ loop'.h \notin loop'.batch
                    /\ del'["loop"].h = loop'.h
    BY <1>b, <2>2, <2>4
  <2> QED BY <1>b, <2>4, <2>5, <2>6, <2>7 DEF CauseInv
<1> QED BY <1>1, <1>2, <1>3, <1>4, <1>5, <1>6, <1>7, <1>8 DEF ServerInv

LEMMA DeleteCloseInv ==
  ASSUME ServerAssumption, ServerInv, NEW t \in Threads, DeleteClose(t)
  PROVE  ServerInv'
<1>0. /\ ServerTypes /\ PoolInv /\ PlacesInv /\ OwnInv /\ RegisteredInv
      /\ LoopInvariant /\ NoneLost /\ CauseInv
  BY DEF ServerInv
<1>a. PICK x \in Handlers : x = del[t].h /\ Closing(t, x) /\ del[t].pc = "close"
  BY <1>0 DEF DeleteClose, PlacesInv, Closing
<1>b. PICK f \in Fds : f = handler[x].fd /\ f # 0
  BY <1>0, <1>a DEF OwnInv, ServerTypes, HandlerStates
<1>c. /\ UNCHANGED <<accepts, free, chunks, handler, acc, loop, sender, excused>>
      /\ CloseFd(f) /\ live' = live \ {x}
      /\ del' = [del EXCEPT ![t].pc = "clear"]
  BY <1>a, <1>b DEF DeleteClose, pool, None
<1>d. /\ ~Accepting(x) /\ ~handler[x].in_event_loop /\ Own(x)
      /\ \A u \in Threads \ {t} : ~Closing(u, x)
  BY <1>0, <1>a, OwnPlaces DEF PlacesInv
<1>e. sock[f] = handler[x].conn /\ sock[f] \in Conns
      /\ \A g \in Handlers \ {x} : Own(g) => handler[g].fd # f
  BY <1>0, <1>b, <1>d DEF OwnInv, ServerTypes
<1>f. /\ \A k \in Fds : sock'[k] = IF k = f THEN 0 ELSE sock[k]
      /\ \A k \in Fds : epoll'[k] = IF k = f THEN 0 ELSE epoll[k]
      /\ \A c \in Conns : conn'[c] = IF c = sock[f] THEN "closed" ELSE conn[c]
      /\ sock' \in [Fds -> Conns \cup {0}] /\ epoll' \in [Fds -> Handlers \cup {0}]
      /\ conn' \in [Conns -> {"none", "queued", "up", "failed", "closed"}]
  BY <1>0, <1>c, <1>e, NoZeros DEF CloseFd, None, ServerTypes
<1>i. /\ del' \in [Threads -> DelStates] /\ del'[t].h = x /\ del'[t].pc = "clear"
      /\ \A u \in Threads \ {t} : del'[u] = del[u]
  <2>1. del \in [Threads -> DelStates] /\ del[t] \in DelStates
    BY <1>0 DEF ServerTypes
  <2>2. /\ [del[t] EXCEPT !.pc = "clear"] \in DelStates
        /\ [del[t] EXCEPT !.pc = "clear"].pc = "clear"
        /\ [del[t] EXCEPT !.pc = "clear"].h = del[t].h
    BY <2>1 DEF DelStates
  <2>3. del' = [del EXCEPT ![t] = [del[t] EXCEPT !.pc = "clear"]]
    BY <1>c, <2>1
  <2> QED BY <1>a, <2>1, <2>2, <2>3
<1>j. \A u \in Threads : \A g \in Handlers : Closing(u, g)' <=> Closing(u, g)
  BY <1>a, <1>i DEF Closing
<1>k. \A u \in Threads : del[u].pc # "none" => del[u].h \in Handlers
  BY <1>0 DEF PlacesInv
<1>l. acc.pc \in {"alloc", "close"} => acc.fd # f
  BY <1>0, <1>b, <1>d DEF OwnInv
<1>m. \A g \in Handlers : Own(g)' <=> Own(g) /\ g # x
  BY <1>c, <1>i DEF Own, Out, Clearing
<1>1. ServerTypes'
  <2>1. live' \subseteq Handlers
    BY <1>0, <1>c DEF ServerTypes
  <2> QED BY <1>0, <1>c, <1>f, <1>i, <2>1 DEF ServerTypes
<1>2. PoolInv'
  BY <1>0, <1>c, PoolInvFrame
<1>3. PlacesInv'
  BY <1>0, <1>a, <1>c, <1>i, <1>j, <1>k DEF PlacesInv, Accepting, Out
<1>4. OwnInv'
  <2>1. \A g \in Handlers : handler[g].fd \in Fds \cup {0}
    BY <1>0 DEF ServerTypes, HandlerStates
  <2>2. \A g \in Handlers : Own(g)' /\ handler'[g].fd # 0 =>
          /\ handler'[g].conn # 0 /\ sock'[handler'[g].fd] = handler'[g].conn
          /\ \A k \in Handlers \ {g} : Own(k)' => handler'[k].fd # handler'[g].fd
    BY <1>0, <1>c, <1>e, <1>f, <1>m, <2>1 DEF OwnInv
  <2>4. \A u \in Threads : /\ del'[u].pc = "close" => handler'[del'[u].h].fd # 0
                           /\ del'[u].pc = "free" => handler'[del'[u].h].fd = 0
    BY <1>0, <1>c, <1>i, <1>k DEF OwnInv
  <2>5. \A g \in Handlers : Accepting(g)' => handler'[g].fd = acc'.fd /\ acc'.fd # 0
    BY <1>0, <1>c DEF OwnInv, Accepting
  <2>6. acc'.pc \in {"alloc", "close"} =>
       /\ acc'.fd # 0 /\ sock'[acc'.fd] # 0
       /\ \A g \in Handlers : Own(g)' => handler'[g].fd # acc'.fd
    BY <1>0, <1>c, <1>f, <1>l, <1>m DEF OwnInv, ServerTypes
  <2>7. accepts' = "same_loop" /\ del'["loop"].pc = "clear" =>
          \A k \in Fds : handler'[del'["loop"].h].fd = k => sock'[k] = 0
    BY <1>0, <1>b, <1>c, <1>f, <1>i DEF OwnInv, Threads
  <2> QED BY <1>0, <1>c, <2>2, <2>4, <2>5, <2>6, <2>7 DEF OwnInv
<1>5. RegisteredInv'
  <2>2. \A g \in Handlers : handler[g].fd \in Fds \cup {0}
    BY <1>0 DEF ServerTypes, HandlerStates
  <2>3. \A g \in Handlers : handler[g].in_event_loop => handler[g].fd # f
    BY <1>0, <1>d, <1>e, OwnPlaces
  <2>4. acc.pc = "flags" => acc.fd # f /\ acc.fd \in Fds
    <3>1. acc.pc = "flags" => acc.h \in Handlers /\ Accepting(acc.h)
      BY <1>0 DEF PlacesInv, Accepting
    <3> QED BY <1>0, <1>d, <1>e, <3>1, OwnPlaces DEF OwnInv, ServerTypes
  <2> QED BY <1>0, <1>c, <1>f, <2>2, <2>3, <2>4 DEF RegisteredInv
<1>6. LoopInvariant'
  <2>1. "loop" \in Threads /\ \A u \in Threads : del[u].pc = "none" =>
          del'[u].pc = "none"
    BY <1>a, <1>i DEF Threads
  <2> QED BY <1>0, <1>c, <2>1 DEF LoopInvariant
<1>7. NoneLost'
  BY <1>0, <1>b, <1>c, <1>f, <1>m DEF NoneLost
<1>8. CauseInv'
  <2>2. ASSUME ~sender
        PROVE  /\ t = "loop" /\ loop.pc = "delete" /\ loop.h = x
               /\ handler[x].conn \in excused /\ del["sender"].pc = "none"
    BY <1>0, <1>a, <2>2 DEF CauseInv, LoopInvariant, Threads
  <2>3. \A g : InLoop(g)' = InLoop(g)
    BY <1>c DEF InLoop
  <2>4. ~sender => ClosedForCause'
    BY <1>0, <1>c, <1>e, <1>f, <2>2 DEF CauseInv, ClosedForCause
  <2>5. \A c \in Conns : conn'[c] = "failed" => c \in excused'
    BY <1>0, <1>c, <1>f DEF CauseInv
  <2>6. acc'.pc = "free" => handler'[acc'.h].conn \in excused'
    BY <1>0, <1>c DEF CauseInv
  <2>7. acc'.pc = "close" => sock'[acc'.fd] \in excused'
    BY <1>0, <1>c, <1>f, <1>l DEF CauseInv, OwnInv, ServerTypes
  <2>8. ~sender => del'["sender"].pc = "none" /\ del'["loop"].pc = "clear"
          /\ del'["loop"].h = x
    BY <1>i, <2>2 DEF Threads
  <2>9. ~sender => /\ \A g \in loop.batch \cap Handlers : InLoop(g)'
                   /\ loop.h \notin loop.batch
    BY <1>0, <2>2, <2>3 DEF CauseInv
  <2> QED BY <1>c, <2>2, <2>4, <2>5, <2>6, <2>7, <2>8, <2>9 DEF CauseInv
<1> QED BY <1>1, <1>2, <1>3, <1>4, <1>5, <1>6, <1>7, <1>8 DEF ServerInv

LEMMA DeleteClearInv ==
  ASSUME ServerAssumption, ServerInv, NEW t \in Threads, DeleteClear(t)
  PROVE  ServerInv'
<1>0. /\ ServerTypes /\ PoolInv /\ PlacesInv /\ OwnInv /\ RegisteredInv
      /\ LoopInvariant /\ NoneLost /\ CauseInv
  BY DEF ServerInv
<1>a. PICK x \in Handlers : x = del[t].h /\ Closing(t, x) /\ del[t].pc = "clear"
  BY <1>0 DEF DeleteClear, PlacesInv, Closing
<1>c. /\ UNCHANGED <<accepts, free, chunks, sock, epoll, conn, acc, loop, sender,
                     live, excused>>
      /\ handler' = [handler EXCEPT ![x].fd = 0]
      /\ del' = [del EXCEPT ![t].pc = "free"]
  BY <1>a DEF DeleteClear, pool, kernel, None
<1>d. /\ ~Accepting(x) /\ ~handler[x].in_event_loop /\ Out(x) /\ ~Own(x)
      /\ \A u \in Threads \ {t} : ~Closing(u, x)
  BY <1>0, <1>a DEF PlacesInv, Own, Clearing
<1>g. /\ \A g \in Handlers \ {x} : handler'[g] = handler[g]
      /\ handler'[x].fd = 0 /\ handler'[x].conn = handler[x].conn
      /\ handler'[x].in_object_pool = handler[x].in_object_pool
      /\ handler'[x].in_event_loop = handler[x].in_event_loop
      /\ handler'[x].event_loop = handler[x].event_loop
      /\ handler' \in [Handlers -> HandlerStates]
  <2> DEFINE s == [handler[x] EXCEPT !.fd = 0]
  <2>1. handler \in [Handlers -> HandlerStates] /\ handler[x] \in HandlerStates
    BY <1>0, SMTT(60) DEF ServerTypes
  <2>2. s \in HandlerStates
    BY <2>1, HandlerFields
  <2>3. handler' = [handler EXCEPT ![x] = s]
    BY <1>c, <2>1
  <2>4. /\ s.fd = 0 /\ s.conn = handler[x].conn
        /\ s.in_object_pool = handler[x].in_object_pool
        /\ s.in_event_loop = handler[x].in_event_loop
        /\ s.event_loop = handler[x].event_loop
    BY <2>1 DEF HandlerStates
  <2> HIDE DEF s
  <2>5. /\ handler' \in [Handlers -> HandlerStates] /\ handler'[x] = s
        /\ \A g \in Handlers \ {x} : handler'[g] = handler[g]
    BY <2>1, <2>2, <2>3, HandlerSet
  <2> QED BY <2>4, <2>5
<1>h. \A g \in Handlers : /\ handler'[g].fd = IF g = x THEN 0 ELSE handler[g].fd
                          /\ handler'[g].conn = handler[g].conn
                          /\ handler'[g].event_loop = handler[g].event_loop
                          /\ handler'[g].in_event_loop = handler[g].in_event_loop
                          /\ Out(g)' = Out(g)
  <2> TAKE g \in Handlers
  <2>1. CASE g = x
    BY <1>g, <2>1 DEF Out
  <2>2. CASE g # x
    BY <1>g, <2>2 DEF Out
  <2> QED BY <2>1, <2>2
<1>i. /\ del' \in [Threads -> DelStates] /\ del'[t].h = x /\ del'[t].pc = "free"
      /\ \A u \in Threads \ {t} : del'[u] = del[u]
  <2>1. del \in [Threads -> DelStates] /\ del[t] \in DelStates
    BY <1>0 DEF ServerTypes
  <2>2. /\ [del[t] EXCEPT !.pc = "free"] \in DelStates
        /\ [del[t] EXCEPT !.pc = "free"].pc = "free"
        /\ [del[t] EXCEPT !.pc = "free"].h = del[t].h
    BY <2>1 DEF DelStates
  <2>3. del' = [del EXCEPT ![t] = [del[t] EXCEPT !.pc = "free"]]
    BY <1>c, <2>1
  <2> QED BY <1>a, <2>1, <2>2, <2>3
<1>j. \A u \in Threads : \A g \in Handlers : Closing(u, g)' <=> Closing(u, g)
  BY <1>a, <1>i DEF Closing
<1>k. \A u \in Threads : del[u].pc # "none" => del[u].h \in Handlers
  BY <1>0 DEF PlacesInv
<1>m. \A g \in Handlers \ {x} : Own(g)' <=> Own(g)
  <2>1. \A u \in Threads : \A g \in Handlers \ {x} : Clearing(u, g)' <=> Clearing(u, g)
    BY <1>a, <1>i DEF Clearing
  <2> QED BY <1>h, <2>1 DEF Own
<1>1. ServerTypes'
  BY <1>0, <1>c, <1>g, <1>i DEF ServerTypes
<1>2. PoolInv'
  BY <1>0, <1>c, <1>h DEF PoolInv, Pooled, Born
<1>3. PlacesInv'
  BY <1>0, <1>a, <1>c, <1>h, <1>i, <1>j, <1>k DEF PlacesInv, Accepting
<1>4. OwnInv'
  <2>2. \A g \in Handlers : Own(g)' /\ handler'[g].fd # 0 =>
          /\ handler'[g].conn # 0 /\ sock'[handler'[g].fd] = handler'[g].conn
          /\ \A k \in Handlers \ {g} : Own(k)' => handler'[k].fd # handler'[g].fd
    BY <1>0, <1>c, <1>h, <1>m DEF OwnInv
  <2>3. \A u \in Threads \ {t} : Closing(u, del[u].h) => del[u].h # x
    BY <1>d
  <2>4. \A u \in Threads : /\ del'[u].pc = "close" => handler'[del'[u].h].fd # 0
                           /\ del'[u].pc = "free" => handler'[del'[u].h].fd = 0
    BY <1>0, <1>h, <1>i, <1>k, <2>3 DEF OwnInv, Closing
  <2>5. \A g \in Handlers : Accepting(g)' => handler'[g].fd = acc'.fd /\ acc'.fd # 0
    BY <1>0, <1>c, <1>d, <1>h DEF OwnInv, Accepting
  <2>6. acc'.pc \in {"alloc", "close"} =>
       /\ acc'.fd # 0 /\ sock'[acc'.fd] # 0
       /\ \A g \in Handlers : Own(g)' => handler'[g].fd # acc'.fd
    BY <1>0, <1>c, <1>h, <1>m DEF OwnInv
  <2>7. accepts' = "same_loop" /\ del'["loop"].pc = "clear" =>
          \A k \in Fds : handler'[del'["loop"].h].fd = k => sock'[k] = 0
    BY <1>0, <1>c, <1>h, <1>i, <1>k, NoZeros DEF OwnInv, Threads
  <2> QED BY <1>0, <1>c, <2>2, <2>4, <2>5, <2>6, <2>7 DEF OwnInv
<1>5. RegisteredInv'
  <2>1. \A k \in Fds : epoll[k] \in Handlers \cup {0}
    BY <1>0 DEF ServerTypes
  <2>2. \A k \in Fds : epoll[k] # 0 => epoll[k] # x
    BY <1>0, <1>d, <2>1 DEF RegisteredInv, Accepting
  <2> QED BY <1>0, <1>c, <1>d, <1>h, <2>1, <2>2 DEF RegisteredInv
<1>6. LoopInvariant'
  <2>1. "loop" \in Threads /\ \A u \in Threads : del[u].pc = "none" =>
          del'[u].pc = "none"
    BY <1>a, <1>i DEF Threads
  <2>2. accepts = "same_loop" /\ loop.pc = "read" => handler'[loop.h].event_loop
    BY <1>0, <1>h DEF LoopInvariant
  <2> QED BY <1>0, <1>c, <1>h, <2>1, <2>2 DEF LoopInvariant
<1>7. NoneLost'
  BY <1>0, <1>c, <1>d, <1>h, <1>m DEF NoneLost
<1>8. CauseInv'
  <2>1. acc.pc = "free" => acc.h \in Handlers
    BY <1>0 DEF PlacesInv
  <2>2. ASSUME ~sender
        PROVE  /\ t = "loop" /\ loop.pc = "delete" /\ loop.h = x
               /\ del["sender"].pc = "none"
    BY <1>0, <1>a, <2>2 DEF CauseInv, LoopInvariant, Threads
  <2>3. \A g \in Handlers : InLoop(g)' = InLoop(g)
    BY <1>c, <1>h DEF InLoop
  <2>4. ~sender => ClosedForCause'
    BY <1>0, <1>c DEF CauseInv, ClosedForCause
  <2>6. acc'.pc = "free" => handler'[acc'.h].conn \in excused'
    BY <1>0, <1>c, <1>h, <2>1 DEF CauseInv
  <2>8. ~sender => del'["sender"].pc = "none" /\ del'["loop"].pc = "free"
          /\ del'["loop"].h = x
    BY <1>i, <2>2 DEF Threads
  <2>9. ~sender => /\ \A g \in loop.batch \cap Handlers : InLoop(g)'
                   /\ loop.h \notin loop.batch
    BY <1>0, <2>2, <2>3 DEF CauseInv
  <2> QED BY <1>0, <1>c, <2>2, <2>4, <2>6, <2>8, <2>9 DEF CauseInv
<1> QED BY <1>1, <1>2, <1>3, <1>4, <1>5, <1>6, <1>7, <1>8 DEF ServerInv

LEMMA DeleteFreeInv ==
  ASSUME ServerAssumption, ServerInv, NEW t \in Threads, DeleteFree(t)
  PROVE  ServerInv'
<1>0. /\ ServerTypes /\ PoolInv /\ PlacesInv /\ OwnInv /\ RegisteredInv
      /\ LoopInvariant /\ NoneLost /\ CauseInv
  BY DEF ServerInv
<1>a. PICK x \in Handlers : x = del[t].h /\ Closing(t, x) /\ del[t].pc = "free"
  BY <1>0 DEF DeleteFree, PlacesInv, Closing
<1>c. /\ UNCHANGED <<accepts, sock, epoll, conn, acc, loop, sender, live, excused>>
      /\ del' = [del EXCEPT ![t].pc = "none"]
  BY DEF DeleteFree, kernel
<1>d. /\ ~Accepting(x) /\ ~handler[x].in_event_loop /\ Out(x) /\ handler[x].fd = 0
      /\ \A u \in Threads \ {t} : ~Closing(u, x)
  BY <1>0, <1>a DEF PlacesInv, OwnInv
<1>e. /\ free' \in Seq(Handlers) /\ chunks' = chunks /\ PoolInv'
      /\ \A g \in Handlers \ {x} : handler'[g] = handler[g]
      /\ handler'[x].fd = handler[x].fd /\ handler'[x].conn = handler[x].conn
      /\ handler'[x].in_event_loop = handler[x].in_event_loop
      /\ handler'[x].event_loop = handler[x].event_loop
      /\ ~Out(x)' /\ handler' \in [Handlers -> HandlerStates]
  <2>1. FreeHandler(x)
    BY <1>a DEF DeleteFree
  <2> QED BY <1>0, <1>d, <2>1, Freed
<1>f. \A g \in Handlers : /\ handler'[g].fd = handler[g].fd
                          /\ handler'[g].conn = handler[g].conn
                          /\ handler'[g].event_loop = handler[g].event_loop
                          /\ handler'[g].in_event_loop = handler[g].in_event_loop
                          /\ Out(g)' <=> Out(g) /\ g # x
  <2> TAKE g \in Handlers
  <2>1. CASE g = x
    BY <1>e, <2>1
  <2>2. CASE g # x
    BY <1>e, <2>2 DEF Out
  <2> QED BY <2>1, <2>2
<1>g. /\ del' \in [Threads -> DelStates] /\ del'[t].h = x /\ del'[t].pc = "none"
      /\ \A u \in Threads \ {t} : del'[u] = del[u]
  <2>1. del \in [Threads -> DelStates] /\ del[t] \in DelStates
    BY <1>0 DEF ServerTypes
  <2>2. /\ [del[t] EXCEPT !.pc = "none"] \in DelStates
        /\ [del[t] EXCEPT !.pc = "none"].pc = "none"
        /\ [del[t] EXCEPT !.pc = "none"].h = del[t].h
    BY <2>1 DEF DelStates
  <2>3. del' = [del EXCEPT ![t] = [del[t] EXCEPT !.pc = "none"]]
    BY <1>c, <2>1
  <2> QED BY <1>a, <2>1, <2>2, <2>3
<1>h. \A u \in Threads : del[u].pc # "none" => del[u].h \in Handlers
  BY <1>0 DEF PlacesInv
<1>1. ServerTypes'
  BY <1>0, <1>c, <1>e, <1>g DEF ServerTypes
<1>2. PoolInv'
  BY <1>e
<1>3. PlacesInv'
  BY <1>0, <1>a, <1>c, <1>d, <1>f, <1>g, <1>h, SMTT(60) DEF PlacesInv, Accepting, Closing
<1>4. OwnInv'
  BY DEF ServerInv, OwnInv, Accepting, Own, Out, Clearing, DeleteFree, kernel, FreeHandler
<1>5. RegisteredInv'
  BY DEF ServerInv, RegisteredInv, DeleteFree, kernel, FreeHandler
<1>6. LoopInvariant'
  BY DEF ServerInv, LoopInvariant, DeleteFree, kernel, FreeHandler
<1>7. NoneLost'
  <2>1. \A g \in Handlers : Own(g) /\ g # x => Own(g)'
    BY <1>f, <1>g DEF Own, Clearing
  <2> QED BY <1>0, <1>c, <1>d, <1>f, <2>1, NoZeros DEF NoneLost
<1>8. CauseInv'
  BY DEF ServerInv, CauseInv, InLoop, ClosedForCause, DeleteFree, kernel, FreeHandler
<1> QED BY <1>1, <1>2, <1>3, <1>4, <1>5, <1>6, <1>7, <1>8 DEF ServerInv


LEMMA InitServerInv == ServerAssumption /\ Init => ServerInv
<1> SUFFICES ASSUME ServerAssumption, Init
             PROVE  ServerInv
  OBVIOUS
<1> USE DEF Init, Fresh, None
<1>1. ServerTypes
  <2>1. Fresh \in HandlerStates
    BY DEF HandlerStates
  <2>2. << >> \in Seq(Handlers) /\ 0 \in 0 .. MaxChunks
    BY DEF ServerAssumption
  <2> QED BY <2>1, <2>2 DEF ServerTypes, AccPlaces, LoopPlaces, DelStates
<1>2. Born = 0 /\ \A x \in Handlers : ~(x <= 0)
  BY DEF Born, ServerAssumption, Handlers
<1>3. PoolInv
  BY <1>2 DEF PoolInv, Pooled, Out, IsInjective
<1>4. PlacesInv /\ OwnInv
  BY DEF PlacesInv, OwnInv, Own, Out, Accepting, Closing, Clearing, Threads
<1>5. RegisteredInv /\ NoneLost
  BY DEF RegisteredInv, NoneLost
<1>6. LoopInvariant
  BY DEF LoopInvariant, Threads
<1>7. CauseInv
  BY DEF CauseInv, ClosedForCause, Threads
<1> QED BY <1>1, <1>3, <1>4, <1>5, <1>6, <1>7 DEF ServerInv

LEMMA NextServerInv ==
  ASSUME ServerAssumption, ServerInv, [Next]_vars
  PROVE  ServerInv'
<1>1. ASSUME NEW c \in Conns, Arrive(c) \/ Break(c)
      PROVE  ServerInv'
  BY <1>1, ArriveInv, BreakInv
<1>2. CASE Acceptor
  BY <1>2, AcceptInv, AcceptEndsInv, AllocHandlerInv, AllocFailsInv, HandleOpenInv,
     AddCtlInv, AddFailsInv, AddFlagsInv, AcceptFreeInv, AcceptCloseInv DEF Acceptor
<1>3. ASSUME NEW t \in Threads, DeleteHandler(t)
      PROVE  ServerInv'
  BY <1>3, DeleteLockedInv, DeleteCloseInv, DeleteClearInv, DeleteFreeInv
     DEF DeleteHandler
<1>4. CASE LoopThread
  BY <1>3, <1>4, EpollWaitInv, BatchDoneInv, DeletedInv, NextReadyInv, HandleReadInv
     DEF LoopThread, Threads
<1>5. ASSUME NEW x \in Handlers, SendFails(x)
      PROVE  ServerInv'
  BY <1>5, SendFailsInv
<1>6. CASE UNCHANGED vars
  BY <1>6, ServerTypesFrame, PoolInvFrame, PlacesInvFrame, OwnInvFrame,
     RegisteredInvFrame, LoopInvariantFrame, NoneLostFrame, CauseInvFrame
     DEF ServerInv, Clearing, vars
<1> QED BY <1>1, <1>2, <1>3, <1>4, <1>5, <1>6 DEF Next, Threads

(* What the invariant says in the words of the properties.                 *)
LEMMA InOnePlace ==
  ASSUME ServerInv, NEW x \in Handlers, x <= Born
  PROVE  Cardinality(Places(x)) = 1
<1> USE DEF ServerInv, PoolInv, PlacesInv
<1>1. \A p : Cardinality({p}) = 1
  BY FS_Singleton
<1>2. CASE Pooled(x)
  <2>1. ~Out(x)
    BY <1>2
  <2>2. Places(x) = {"pool"}
    BY <1>2, <2>1 DEF Places, Accepting, Threads
  <2> QED BY <1>1, <2>2
<1>3. CASE Accepting(x)
  <2>1. Out(x) /\ ~Pooled(x) /\ ~handler[x].in_event_loop
          /\ \A t \in Threads : ~Closing(t, x)
    BY <1>3
  <2>2. Places(x) = {"accepting"}
    BY <1>3, <2>1 DEF Places, Accepting, Threads
  <2> QED BY <1>1, <2>2
<1>4. CASE handler[x].in_event_loop
  <2>1. Out(x) /\ ~Pooled(x) /\ ~Accepting(x) /\ \A t \in Threads : ~Closing(t, x)
    BY <1>4
  <2>2. Places(x) = {"loop"}
    BY <1>4, <2>1 DEF Places, Accepting, Threads
  <2> QED BY <1>1, <2>2
<1>5. ASSUME NEW t \in Threads, Closing(t, x)
      PROVE  Cardinality(Places(x)) = 1
  <2>1. /\ Out(x) /\ ~Pooled(x) /\ ~handler[x].in_event_loop /\ ~Accepting(x)
        /\ \A u \in Threads \ {t} : ~Closing(u, x)
    BY <1>5
  <2>2. Places(x) = {t}
    BY <1>5, <2>1 DEF Places, Accepting, Threads
  <2> QED BY <1>1, <2>2
<1>6. Pooled(x) \/ Out(x)
  OBVIOUS
<1> QED BY <1>2, <1>3, <1>4, <1>5, <1>6

LEMMA ServerInvOwned == ServerAssumption /\ ServerInv => HandlersOwned
<1> SUFFICES ASSUME ServerAssumption, ServerInv
             PROVE  HandlersOwned
  OBVIOUS
<1>1. TypeOK
  BY DEF ServerInv, ServerTypes, AccPlaces, LoopPlaces, TypeOK, None
<1>2. \A x \in 1 .. chunks * PerChunk : x \in Handlers /\ x <= Born
  <2>1. MaxChunks \in Nat /\ PerChunk \in Nat /\ PerChunk > 0
          /\ chunks \in 0 .. MaxChunks
    BY DEF ServerAssumption, ServerInv, ServerTypes
  <2>2. chunks # MaxChunks => Born <= MaxChunks * PerChunk
    BY <2>1, Arithmetic DEF Born
  <2>3. Born \in Nat /\ MaxChunks * PerChunk \in Nat /\ Born <= MaxChunks * PerChunk
    BY <2>1, <2>2 DEF Born
  <2> QED BY <2>3 DEF Born, Handlers
<1>3. \A x \in 1 .. chunks * PerChunk :
        /\ Cardinality(Places(x)) = 1
        /\ handler[x].in_object_pool <=> Pooled(x)
        /\ handler[x].in_event_loop => epoll[handler[x].fd] = x
  BY <1>2, InOnePlace DEF ServerInv, PoolInv, RegisteredInv, Out
<1>4. OnePlace
  BY <1>1, <1>3 DEF OnePlace, ServerInv, PoolInv
<1>5. DescriptorsOwned
  <2>1. \A x \in Handlers : \A f \in Fds :
          Owns(x, f) <=> Own(x) /\ handler[x].fd = f
    BY DEF Owns, Own, Out
  <2>2. OwnInv /\ NoneLost
    BY DEF ServerInv
  <2>3. \A x \in Handlers : \A f \in Fds : Owns(x, f) => sock[f] = handler[x].conn
    BY <2>1, <2>2, NoZeros DEF OwnInv
  <2>4. \A x \in Handlers : handler[x].fd \in Fds \cup {0}
    BY DEF ServerInv, ServerTypes, HandlerStates
  <2>5. accepts = "same_loop" =>
          \A x \in Handlers : Clearing("loop", x) =>
            handler[x].fd = 0 \/ sock[handler[x].fd] = 0
    BY <2>2, <2>4 DEF OwnInv, Clearing
  <2>6. accepts = "thread" =>
          \A f \in Fds : sock[f] # 0 => acc.fd = f \/ \E x \in Handlers : Owns(x, f)
    BY <2>1, <2>2 DEF NoneLost
  <2> QED BY <2>3, <2>5, <2>6 DEF DescriptorsOwned, None
<1>6. LoopPointerSet
  BY DEF ServerInv, LoopInvariant, LoopPointerSet, Crashed
<1> QED BY <1>4, <1>5, <1>6 DEF HandlersOwned

LEMMA ServerStays ==
  ASSUME ServerInv, [AllNext]_allVars
  PROVE  ServerInv'
<1>1. [Next]_vars
  BY DEF AllNext, allVars
<1> QED BY <1>1, ServerAssumption, NextServerInv

LEMMA ServerBegins == AllInit => ServerInv
BY ServerAssumption, InitServerInv DEF AllInit, Still

(* A handler is in one place, its flags agree with the pool and with       *)
(* epoll, the descriptor it works on is that of its own connection, and    *)
(* with one loop handle_read() finds event_loop_ set: whatever threads     *)
(* accept, work through a batch and call delete_handler() in between.      *)
THEOREM OneOwner == AllSpec => []HandlersOwned
<1>1. ServerInv => HandlersOwned
  BY ServerAssumption, ServerInvOwned
<1> QED BY <1>1, ServerBegins, ServerStays, PTL DEF AllSpec

(* When only the loop thread deletes handlers, a stale entry of the batch  *)
(* closes no connection that neither broke nor was refused.                *)
THEOREM NoneClosedByMistake == AllSpec => []ClosedForCause
<1>1. ServerInv => ClosedForCause
  BY DEF ServerInv, CauseInv, ClosedForCause
<1> QED BY <1>1, ServerBegins, ServerStays, PTL DEF AllSpec
=============================================================================
