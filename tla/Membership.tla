----------------------------- MODULE Membership -----------------------------
(***************************************************************************)
(* Server as far as it finds the other nodes (server.cpp, paxos/peer.h):   *)
(* pings that carry the known peers, the stable peer given on the command  *)
(* line, and the connections pings travel on.                              *)
(*                                                                         *)
(* Every process keeps two maps between addresses and the sockets it has   *)
(* opened; sockets[n] is what its container really holds, up telling       *)
(* whether anyone is at the other end.  A socket is a pointer, and that of *)
(* a closed socket may be used again.  A pong comes back on the socket of  *)
(* the ping and only updates a round-trip time that nothing reads: it is   *)
(* left out.  So are the sockets a process has accepted, which are in      *)
(* neither map.                                                            *)
(***************************************************************************)
EXTENDS ProposalID, FiniteSets

CONSTANTS Addr,
          FirstHome,    \* where each node listens at first
          StableAddr,   \* the destination each node is started with
          Socket,       \* pointers
          MaxFaults,    \* bound of the model: connections that fail
          MaxRestarts   \* bound of the model

ASSUME MembershipAssumption ==
  /\ Addr \subseteq Nat /\ Socket \subseteq Nat
  /\ IsFiniteSet(Node) /\ IsFiniteSet(Addr) /\ IsFiniteSet(Socket)
  /\ FirstHome \in [Node -> Addr]
  /\ \A n, m \in Node : FirstHome[n] = FirstHome[m] => n = m
  /\ StableAddr \in [Node -> Addr]
  /\ Cardinality(Socket) >= Cardinality(Addr)
  /\ MaxFaults \in Nat /\ MaxRestarts \in Nat

VARIABLES home,                          \* where each process listens
          m_peers, m_stablePeers,
          m_addr2socket, m_socket2addr,
          sockets,
          pings,                         \* pings on their way
          used,                          \* addresses anyone has listened at
          faults, restarts

serverVars == <<m_peers, m_stablePeers, m_addr2socket, m_socket2addr, sockets>>
vars == <<serverVars, home, pings, used, faults, restarts>>

Empty == [x \in {} |-> x]

Without(f, S) == [x \in DOMAIN f \ S |-> f[x]]

\* The entries of f, and those of g for what f does not map.
Over(f, g) ==
  [x \in DOMAIN f \cup DOMAIN g |-> IF x \in DOMAIN f THEN f[x] ELSE g[x]]

Listening == {home[n] : n \in Node}

PeerInfo == [addr : Addr, id : Node \cup {NoUID}]

NewStable(n) == [addr |-> StableAddr[n], id |-> NoUID]

-----------------------------------------------------------------------------
(***************************************************************************)
(* AddPeerInfo, for the sender of a ping and then for each peer it names.  *)
(* One address per UID, first come, first served.                          *)
(***************************************************************************)
\* Mutant of Newcomers: a peer that is known by another address is moved.
NewcomersMove(n, heard) == Without(heard, {n})

\* Mutant of Newcomers: a node may become its own peer.
NewcomersAndSelf(n, heard) == Without(heard, DOMAIN m_peers[n])

Newcomers(n, heard) == Without(heard, {n} \cup DOMAIN m_peers[n])

\* Mutant of updateStablePeers: a stable peer is never given its UID.
updateStablePeersNot(n, new) == m_stablePeers[n]

\* The stable peer gets the UID of the first newcomer at its address.
updateStablePeers(n, new) ==
  LET here == {p \in DOMAIN new : new[p] = m_stablePeers[n].addr} IN
  IF m_stablePeers[n].id = NoUID /\ here # {}
  THEN [m_stablePeers[n] EXCEPT !.id = CHOOSE p \in here : TRUE]
  ELSE m_stablePeers[n]

HandlePingMessage(n, ping) ==
  LET sender == [p \in {ping.from} |-> ping.addr]
      new == Newcomers(n, Over(sender, ping.peers))
  IN  /\ m_peers' = [m_peers EXCEPT ![n] = Over(new, @)]
      /\ m_stablePeers' = [m_stablePeers EXCEPT ![n] = updateStablePeers(n, new)]
      /\ UNCHANGED <<m_addr2socket, m_socket2addr, sockets>>

-----------------------------------------------------------------------------
(***************************************************************************)
(* SendMessageToAllPeer goes to the known peers, and to the stable peer    *)
(* unless its UID is one of them.                                          *)
(***************************************************************************)
\* Mutant of Destinations: the stable peer is not tried.
DestinationsKnown(n) == {m_peers[n][p] : p \in DOMAIN m_peers[n]}

Destinations(n) ==
       {m_peers[n][p] : p \in DOMAIN m_peers[n]}
  \cup (IF m_stablePeers[n].id \in DOMAIN m_peers[n] THEN {}
        ELSE {m_stablePeers[n].addr})

\* The pointers of k new sockets: the lowest that are free.
Allocated(n, k) ==
  LET free == Socket \ DOMAIN sockets[n] IN
  {S \in SUBSET free : Cardinality(S) = k /\ \A s \in S, t \in free \ S : s < t}

\* A socket is there as soon as Connect returns, whoever is at the other end.
Connect(n, addrs) ==
  \E pointers \in Allocated(n, Cardinality(addrs)) :
    \E back \in [pointers -> addrs] :
      LET forth == [a \in addrs |-> CHOOSE s \in pointers : back[s] = a]
          opened == [s \in pointers |->
                       [addr |-> back[s], up |-> back[s] \in Listening]]
      IN  /\ \A s, t \in pointers : s < t => back[s] < back[t]
          /\ m_addr2socket' = [m_addr2socket EXCEPT ![n] = Over(forth, @)]
          /\ m_socket2addr' = [m_socket2addr EXCEPT ![n] = Over(back, @)]
          /\ sockets' = [sockets EXCEPT ![n] = Over(opened, @)]

Connected(n, a) ==
  LET s == m_addr2socket[n][a] IN s \in DOMAIN sockets[n] /\ sockets[n][s].up

\* PingMessage, on its way from n to the process that listens at a.
Ping(n, a) == [from |-> n, addr |-> home[n], to |-> a, peers |-> m_peers[n]]

(***************************************************************************)
(* SendPingMessage.  For a destination without a connection one is opened, *)
(* and the ping itself is not sent; opening may fail.                      *)
(***************************************************************************)
SendPingMessage(n) ==
  LET old == Destinations(n) \cap DOMAIN m_addr2socket[n]
      new == Destinations(n) \ DOMAIN m_addr2socket[n]
  IN  /\ pings' = pings \cup {Ping(n, a) : a \in {d \in old : Connected(n, d)}}
      /\ \/ Connect(n, new) /\ UNCHANGED faults
         \/ \E a \in new : /\ faults < MaxFaults
                           /\ Connect(n, new \ {a})
                           /\ faults' = faults + 1
      /\ UNCHANGED <<m_peers, m_stablePeers>>

\* Mutant of HandleClose: the address keeps its socket.
HandleCloseHalf(n, s) ==
  /\ m_socket2addr' = [m_socket2addr EXCEPT ![n] = Without(@, {s})]
  /\ UNCHANGED <<m_peers, m_stablePeers, m_addr2socket>>

HandleClose(n, s) ==
  /\ IF s \in DOMAIN m_socket2addr[n]
     THEN /\ m_addr2socket' = [m_addr2socket EXCEPT ![n] =
                                 Without(@, {m_socket2addr[n][s]})]
          /\ m_socket2addr' = [m_socket2addr EXCEPT ![n] = Without(@, {s})]
     ELSE UNCHANGED <<m_addr2socket, m_socket2addr>>
  /\ UNCHANGED <<m_peers, m_stablePeers>>

-----------------------------------------------------------------------------
\* The timer.  Bound of the model: not while an earlier ping is on its way.
PingTimer(n) ==
  /\ \A ping \in pings : ping.from # n
  /\ SendPingMessage(n)
  /\ UNCHANGED <<home, used, restarts>>

PingArrives(m, n) ==
  \E ping \in pings :
    /\ ping.from = m /\ ping.to = home[n]
    /\ HandlePingMessage(n, ping)
    /\ pings' = pings \ {ping}
    /\ UNCHANGED <<home, used, faults, restarts>>

\* The container notices that nobody is at the other end.
DeadSocketCloses(n) ==
  \E s \in DOMAIN sockets[n] :
    /\ ~sockets[n][s].up
    /\ sockets' = [sockets EXCEPT ![n] = Without(@, {s})]
    /\ HandleClose(n, s)
    /\ UNCHANGED <<home, pings, used, faults, restarts>>

\* A connection breaks, and what was on its way may be lost.
ConnectionBreaks(n) ==
  \E s \in DOMAIN sockets[n] :
    /\ sockets[n][s].up
    /\ faults < MaxFaults
    /\ faults' = faults + 1
    /\ sockets' = [sockets EXCEPT ![n] = Without(@, {s})]
    /\ HandleClose(n, s)
    /\ \E lost \in {{}, {q \in pings : q.from = n /\ q.to = sockets[n][s].addr}} :
         pings' = pings \ lost
    /\ UNCHANGED <<home, used, restarts>>

(***************************************************************************)
(* n is sent a message of the consensus protocol.  HandleMessage knows     *)
(* these but answers false, HandlePacket then -1, and n closes the         *)
(* connection it came on: m is left with a dead socket, and what it sent   *)
(* behind that message is lost.                                            *)
(***************************************************************************)
ProtocolMessageArrives(m, n) ==
  \E s \in DOMAIN sockets[m] :
    /\ sockets[m][s] = [addr |-> home[n], up |-> TRUE]
    /\ faults < MaxFaults
    /\ faults' = faults + 1
    /\ sockets' = [sockets EXCEPT ![m][s].up = FALSE]
    /\ \E lost \in {{}, {q \in pings : q.from = m /\ q.to = home[n]}} :
         pings' = pings \ lost
    /\ UNCHANGED <<m_peers, m_stablePeers, m_addr2socket, m_socket2addr, home,
                   used, restarts>>

(***************************************************************************)
(* The process dies and a new one starts, at its old address or at one     *)
(* nobody has used yet.  Nothing is saved.                                 *)
(***************************************************************************)
Restart(n) ==
  \E addr \in {home[n]} \cup (Addr \ used) :
    /\ restarts < MaxRestarts
    /\ restarts' = restarts + 1
    /\ home' = [home EXCEPT ![n] = addr]
    /\ used' = used \cup {addr}
    /\ m_peers' = [m_peers EXCEPT ![n] = Empty]
    /\ m_stablePeers' = [m_stablePeers EXCEPT ![n] = NewStable(n)]
    /\ m_addr2socket' = [m_addr2socket EXCEPT ![n] = Empty]
    /\ m_socket2addr' = [m_socket2addr EXCEPT ![n] = Empty]
    /\ sockets' = [m \in Node |->
         IF m = n THEN Empty
         ELSE [s \in DOMAIN sockets[m] |->
                 IF sockets[m][s].addr = home[n]
                 THEN [sockets[m][s] EXCEPT !.up = FALSE] ELSE sockets[m][s]]]
    /\ pings' = {ping \in pings : ping.to # home[n]}
    /\ UNCHANGED faults

Init ==
  /\ home = FirstHome
  /\ m_peers = [n \in Node |-> Empty]
  /\ m_stablePeers = [n \in Node |-> NewStable(n)]
  /\ m_addr2socket = [n \in Node |-> Empty]
  /\ m_socket2addr = [n \in Node |-> Empty]
  /\ sockets = [n \in Node |-> Empty]
  /\ pings = {}
  /\ used = {FirstHome[n] : n \in Node}
  /\ faults = 0
  /\ restarts = 0

Next == \E n \in Node :
          \/ PingTimer(n)
          \/ \E m \in Node : PingArrives(m, n) \/ ProtocolMessageArrives(m, n)
          \/ DeadSocketCloses(n)
          \/ ConnectionBreaks(n)
          \/ Restart(n)

(***************************************************************************)
(* The event loop runs for ever: the timer fires again and again, what has *)
(* arrived is handled and dead sockets are noticed.  Nothing is assumed of *)
(* faults and restarts but that there are finitely many.                   *)
(***************************************************************************)
Fairness ==
  \A n \in Node : /\ WF_vars(PingTimer(n))
                  /\ \A m \in Node : WF_vars(PingArrives(m, n))
                  /\ WF_vars(DeadSocketCloses(n))

Spec == Init /\ [][Next]_vars /\ Fairness

-----------------------------------------------------------------------------
IsMap(f, S, T) == DOMAIN f \subseteq S /\ f \in [DOMAIN f -> T]

TypeOK ==
  /\ home \in [Node -> Addr]
  /\ used \subseteq Addr
  /\ \A n \in Node :
       /\ IsMap(m_peers[n], Node \ {n}, Addr)
       /\ m_stablePeers[n] \in PeerInfo
       /\ IsMap(m_addr2socket[n], Addr, Socket)
       /\ IsMap(m_socket2addr[n], Socket, Addr)
       /\ IsMap(sockets[n], Socket, [addr : Addr, up : BOOLEAN])
  /\ \A ping \in pings : /\ ping.from \in Node /\ ping.addr \in Addr
                         /\ ping.to \in Addr
                         /\ IsMap(ping.peers, Node, Addr)
  /\ faults \in 0..MaxFaults /\ restarts \in 0..MaxRestarts

(***************************************************************************)
(* The two maps are inverse to each other and name exactly the sockets     *)
(* that are open, to the addresses they were opened to, through any        *)
(* sequence of connects, failures, closes and reused pointers.  A socket   *)
(* left behind in m_addr2socket would be written to after it is gone.      *)
(***************************************************************************)
MapsMatchSockets ==
  \A n \in Node :
    /\ DOMAIN m_socket2addr[n] = DOMAIN sockets[n]
    /\ \A s \in DOMAIN sockets[n] : /\ m_socket2addr[n][s] = sockets[n][s].addr
                                    /\ m_socket2addr[n][s] \in DOMAIN m_addr2socket[n]
                                    /\ m_addr2socket[n][m_socket2addr[n][s]] = s
    /\ \A a \in DOMAIN m_addr2socket[n] :
         \E s \in DOMAIN sockets[n] : sockets[n][s].addr = a

(***************************************************************************)
(* A round of pings reaches no address twice: a stable peer that is known  *)
(* under its address carries its UID (SendMessageToAllPeer: "send only if  *)
(* it is not found among the present peers").                              *)
(***************************************************************************)
StablePeerIsNamed ==
  \A n \in Node : \A p \in DOMAIN m_peers[n] :
    m_peers[n][p] = m_stablePeers[n].addr => m_stablePeers[n].id = p

R == INSTANCE Roster WITH known <- m_peers

(***************************************************************************)
(* Server implements Roster, which is what Proposer builds on when it      *)
(* takes m_peers for a set of UIDs that only pings add to.                 *)
(***************************************************************************)
ImplementsRoster == R!Spec

Moved(n) == home[n] # FirstHome[n]

(***************************************************************************)
(* Unless a node comes back at another address, all nodes come to know     *)
(* all others, starting from stable peers that connect them, although the  *)
(* first ping to anyone is lost, connections break and processes restart   *)
(* with nothing.                                                           *)
(***************************************************************************)
EventuallyComplete == [](\A n \in Node : ~Moved(n)) => <>[]R!Complete
=============================================================================
