---------------------------- MODULE MCConnections ----------------------------
(***************************************************************************)
(* The connections of a TcpServer and that of a TcpClient, each by itself: *)
(* `part` says which of them takes its steps in a behaviour; the other     *)
(* stays as it begins.                                                     *)
(***************************************************************************)
EXTENDS TcpServer

CONSTANTS MaxOpens

VARIABLE part  \* the component whose steps the behaviour takes

VARIABLES caller, source_state, auto_connected, h, client_sock, client_conn,
          client_epoll, client_loop, call, fd, opens, refusal, reported

Client == INSTANCE TcpClient
      WITH sock <- client_sock, conn <- client_conn, epoll <- client_epoll,
           loop <- client_loop

clientVars == <<caller, source_state, auto_connected, h, client_sock,
                client_conn, client_epoll, client_loop, call, fd, opens,
                refusal, reported>>
allVars == <<part, vars, clientVars>>

(* The other components stay in one of their initial states.              *)
Still == Init /\ accepts = "thread" /\ sender
ClientStill == Client!Init /\ caller = "loop" /\ auto_connected

AllInit ==
  \/ /\ part = "server" /\ ClientStill /\ Init
  \/ /\ part = "client" /\ Still /\ Client!Init

AllNext ==
  \/ /\ part = "server" /\ Next
     /\ UNCHANGED <<part, clientVars>>
  \/ /\ part = "client" /\ Client!Next
     /\ UNCHANGED <<part, vars>>

AllFairness ==
  /\ WF_vars(part = "server" /\ LoopThread)
  /\ WF_vars(part = "server" /\ Acceptor)
  /\ WF_vars(part = "server" /\ DeleteHandler("sender"))
  /\ WF_clientVars(part = "client" /\ Client!LoopThread)
  /\ WF_clientVars(part = "client" /\ Client!Calls("user"))

AllSpec == AllInit /\ [][AllNext]_allVars /\ AllFairness

ASSUME ConnectionsAssumption == Client!ClientAssumption

-----------------------------------------------------------------------------
(* A handler of the server is in one place and works on the descriptor of  *)
(* its own connection; handle_read() finds its loop's pointer set if the   *)
(* loop's own thread added it.                                             *)
HandlersOwned == OnePlace /\ DescriptorsOwned /\ LoopPointerSet

(* A client's state, descriptor, mask and registration agree.              *)
ClientConsistent == part = "client" => Client!ClientConsistent

(* A client that reconnects by itself tries again after a failure.         *)
Reconnects == Client!Reconnects
=============================================================================
