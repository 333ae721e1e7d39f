-------------------------- MODULE MembershipProofs --------------------------
(***************************************************************************)
(* Proofs about Server's membership: for any nodes, addresses and sockets, *)
(* any numbers of faults and restarts, and pings that are lost or late.    *)
(***************************************************************************)
EXTENDS Membership, FiniteSetTheorems, TLAPS

(***************************************************************************)
(* The inductive invariant.  TypeOK speaks of the maps of each node; that  *)
(* there is one of each for every node is added.                           *)
(***************************************************************************)
OnePerNode ==
  /\ m_peers = [n \in Node |-> m_peers[n]]
  /\ m_stablePeers = [n \in Node |-> m_stablePeers[n]]
  /\ m_addr2socket = [n \in Node |-> m_addr2socket[n]]
  /\ m_socket2addr = [n \in Node |-> m_socket2addr[n]]
  /\ sockets = [n \in Node |-> sockets[n]]

IInv == TypeOK /\ OnePerNode /\ MapsMatchSockets

\* MapsMatchSockets of one node: a2s and s2a are its maps, held its sockets.
Match(a2s, s2a, held) ==
  /\ DOMAIN s2a = DOMAIN held
  /\ \A s \in DOMAIN held : /\ s2a[s] = held[s].addr
                            /\ s2a[s] \in DOMAIN a2s
                            /\ a2s[s2a[s]] = s
  /\ \A a \in DOMAIN a2s : \E s \in DOMAIN held : held[s].addr = a

Held == [addr : Addr, up : BOOLEAN]

\* One node's maps, of their types and in step.
Kept(a2s, s2a, held) ==
  /\ IsMap(a2s, Addr, Socket)
  /\ IsMap(s2a, Socket, Addr)
  /\ IsMap(held, Socket, Held)
  /\ Match(a2s, s2a, held)

IsPing(ping) ==
  /\ ping.from \in Node /\ ping.addr \in Addr
  /\ ping.to \in Addr
  /\ IsMap(ping.peers, Node, Addr)

\* The parts of the invariant that different steps disturb.
PeersInv ==
  /\ home \in [Node -> Addr] /\ used \subseteq Addr
  /\ m_peers = [n \in Node |-> m_peers[n]]
  /\ m_stablePeers = [n \in Node |-> m_stablePeers[n]]
  /\ \A n \in Node : /\ IsMap(m_peers[n], Node \ {n}, Addr)
                     /\ m_stablePeers[n] \in PeerInfo
  /\ \A ping \in pings : IsPing(ping)
  /\ faults \in 0..MaxFaults /\ restarts \in 0..MaxRestarts

SocketsInv ==
  /\ m_addr2socket = [n \in Node |-> m_addr2socket[n]]
  /\ m_socket2addr = [n \in Node |-> m_socket2addr[n]]
  /\ sockets = [n \in Node |-> sockets[n]]
  /\ \A n \in Node : Kept(m_addr2socket[n], m_socket2addr[n], sockets[n])

LEMMA InvParts == IInv <=> PeersInv /\ SocketsInv
BY DEF IInv, TypeOK, OnePerNode, MapsMatchSockets, PeersInv, SocketsInv, Kept,
       Match, Held, IsPing

LEMMA Facts ==
  /\ Addr \subseteq Nat /\ Socket \subseteq Nat
  /\ IsFiniteSet(Node) /\ IsFiniteSet(Addr) /\ IsFiniteSet(Socket)
  /\ FirstHome \in [Node -> Addr] /\ StableAddr \in [Node -> Addr]
  /\ MaxFaults \in Nat /\ MaxRestarts \in Nat
BY MembershipAssumption DEF MembershipAssumption

-----------------------------------------------------------------------------
\* A map over a map of the same types is one.
LEMMA OverIsMap ==
  ASSUME NEW S, NEW T, NEW f, NEW g, IsMap(f, S, T), IsMap(g, S, T)
  PROVE  IsMap(Over(f, g), S, T)
BY DEF IsMap, Over

LEMMA WithoutIsMap ==
  ASSUME NEW S, NEW T, NEW f, IsMap(f, S, T), NEW R0
  PROVE  /\ IsMap(Without(f, R0), S, T)
         /\ DOMAIN Without(f, R0) = DOMAIN f \ R0
         /\ \A x \in DOMAIN f \ R0 : Without(f, R0)[x] = f[x]
BY DEF IsMap, Without

\* A map in the order of its keys, onto as many values, leaves none out.
LEMMA OrderedIsOnto ==
  ASSUME NEW S \in SUBSET Nat, NEW T \in SUBSET Nat, IsFiniteSet(S), IsFiniteSet(T),
         Cardinality(S) = Cardinality(T), NEW f \in [S -> T],
         \A s, t \in S : s < t => f[s] < f[t]
  PROVE  /\ \A s, t \in S : f[s] = f[t] => s = t
         /\ \A a \in T : \E s \in S : f[s] = a
<1>1. \A s, t \in S : f[s] = f[t] => s = t
  <2> SUFFICES ASSUME NEW s \in S, NEW t \in S, s # t
               PROVE  f[s] # f[t]
    OBVIOUS
  <2>1. s \in Nat /\ t \in Nat /\ f[s] \in Nat /\ f[t] \in Nat
    OBVIOUS
  <2>2. s < t \/ t < s
    BY <2>1
  <2> QED BY <2>1, <2>2
<1>2. ASSUME NEW a \in T, \A s \in S : f[s] # a
      PROVE  FALSE
  <2>1. IsFiniteSet(T \ {a}) /\ Cardinality(T \ {a}) = Cardinality(T) - 1
    BY FS_RemoveElement
  <2>2. Cardinality(T) \in Nat
    BY FS_CardinalityType
  <2>3. Cardinality(T \ {a}) < Cardinality(S)
    BY <2>1, <2>2
  <2>4. f \in [S -> T \ {a}]
    BY <1>2
  <2>5. \E s, t \in S : s # t /\ f[s] = f[t]
    BY <2>1, <2>3, <2>4, FS_PigeonHole
  <2> QED BY <1>1, <2>5
<1> QED BY <1>1, <1>2

-----------------------------------------------------------------------------
(***************************************************************************)
(* Sockets opened to addresses without one, under pointers that are free,  *)
(* keep the maps in step.                                                  *)
(***************************************************************************)
LEMMA OpeningKeeps ==
  ASSUME NEW a2s, NEW s2a, NEW held, Kept(a2s, s2a, held),
         NEW pointers \in SUBSET (Socket \ DOMAIN held),
         NEW addrs \in SUBSET (Addr \ DOMAIN a2s),
         NEW back \in [pointers -> addrs],
         \A s, t \in pointers : back[s] = back[t] => s = t,
         \A a \in addrs : \E s \in pointers : back[s] = a,
         NEW forth, forth = [a \in addrs |-> CHOOSE s \in pointers : back[s] = a],
         NEW opened \in [pointers -> Held],
         \A s \in pointers : opened[s].addr = back[s]
  PROVE  Kept(Over(forth, a2s), Over(back, s2a), Over(opened, held))
<1>1. \A s \in pointers : forth[back[s]] = s
  OBVIOUS
<1>2. /\ forth \in [addrs -> pointers]
      /\ DOMAIN forth = addrs /\ DOMAIN back = pointers /\ DOMAIN opened = pointers
  OBVIOUS
<1>3. /\ IsMap(forth, Addr, Socket) /\ IsMap(back, Socket, Addr)
      /\ IsMap(opened, Socket, Held)
  BY <1>2 DEF IsMap
<1>4. /\ IsMap(a2s, Addr, Socket) /\ IsMap(s2a, Socket, Addr)
      /\ IsMap(held, Socket, Held) /\ Match(a2s, s2a, held)
  BY DEF Kept
<1> DEFINE newA2S == Over(forth, a2s)
           newS2A == Over(back, s2a)
           newHeld == Over(opened, held)
<1>5. /\ IsMap(newA2S, Addr, Socket)
      /\ DOMAIN newA2S = addrs \cup DOMAIN a2s
      /\ \A a \in addrs : newA2S[a] = forth[a]
      /\ \A a \in DOMAIN a2s : newA2S[a] = a2s[a]
  <2>1. \A a \in DOMAIN a2s : a \notin DOMAIN forth
    BY <1>2
  <2>2. IsMap(newA2S, Addr, Socket)
    BY <1>3, <1>4, OverIsMap
  <2> QED BY <1>2, <2>1, <2>2 DEF Over
<1>6. /\ IsMap(newS2A, Socket, Addr)
      /\ DOMAIN newS2A = pointers \cup DOMAIN s2a
      /\ \A s \in pointers : newS2A[s] = back[s]
      /\ \A s \in DOMAIN s2a : newS2A[s] = s2a[s]
  <2>1. \A s \in DOMAIN s2a : s \notin DOMAIN back
    BY <1>2, <1>4 DEF Match
  <2>2. IsMap(newS2A, Socket, Addr)
    BY <1>3, <1>4, OverIsMap
  <2> QED BY <1>2, <2>1, <2>2 DEF Over
<1>7. /\ IsMap(newHeld, Socket, Held)
      /\ DOMAIN newHeld = pointers \cup DOMAIN held
      /\ \A s \in pointers : newHeld[s] = opened[s]
      /\ \A s \in DOMAIN held : newHeld[s] = held[s]
  <2>1. \A s \in DOMAIN held : s \notin DOMAIN opened
    BY <1>2
  <2>2. IsMap(newHeld, Socket, Held)
    BY <1>3, <1>4, OverIsMap
  <2> QED BY <1>2, <2>1, <2>2 DEF Over
<1> HIDE DEF newA2S, newS2A, newHeld
<1>8. Match(newA2S, newS2A, newHeld)
  <2>1. DOMAIN newS2A = DOMAIN newHeld
    BY <1>4, <1>6, <1>7 DEF Match
  <2>2. ASSUME NEW s \in pointers
        PROVE  /\ newS2A[s] = newHeld[s].addr /\ newS2A[s] \in DOMAIN newA2S
               /\ newA2S[newS2A[s]] = s
    BY <1>1, <1>5, <1>6, <1>7
  <2>3. ASSUME NEW s \in DOMAIN held
        PROVE  /\ newS2A[s] = newHeld[s].addr /\ newS2A[s] \in DOMAIN newA2S
               /\ newA2S[newS2A[s]] = s
    BY <1>4, <1>5, <1>6, <1>7 DEF Match
  <2>4. ASSUME NEW a \in addrs
        PROVE  \E s \in DOMAIN newHeld : newHeld[s].addr = a
    BY <1>7
  <2>5. ASSUME NEW a \in DOMAIN a2s
        PROVE  \E s \in DOMAIN newHeld : newHeld[s].addr = a
    BY <1>4, <1>7 DEF Match
  <2> QED BY <1>5, <1>7, <2>1, <2>2, <2>3, <2>4, <2>5 DEF Match
<1> QED BY <1>5, <1>6, <1>7, <1>8 DEF Kept, newA2S, newS2A, newHeld

\* HandleClose forgets a closed socket in both maps, and nothing else.
LEMMA ClosingKeeps ==
  ASSUME NEW a2s, NEW s2a, NEW held, Kept(a2s, s2a, held), NEW s \in DOMAIN held
  PROVE  Kept(Without(a2s, {s2a[s]}), Without(s2a, {s}), Without(held, {s}))
<1>1. /\ IsMap(a2s, Addr, Socket) /\ IsMap(s2a, Socket, Addr)
      /\ IsMap(held, Socket, Held) /\ Match(a2s, s2a, held)
  BY DEF Kept
<1>2. /\ IsMap(Without(a2s, {s2a[s]}), Addr, Socket)
      /\ IsMap(Without(s2a, {s}), Socket, Addr)
      /\ IsMap(Without(held, {s}), Socket, Held)
  BY <1>1, WithoutIsMap
<1>3. Match(Without(a2s, {s2a[s]}), Without(s2a, {s}), Without(held, {s}))
  BY <1>1 DEF Match, Without
<1> QED BY <1>2, <1>3 DEF Kept

\* Whether anyone is at the other end of a socket is in neither map.
LEMMA UpDownKeeps ==
  ASSUME NEW a2s, NEW s2a, NEW held, Kept(a2s, s2a, held),
         NEW other, IsMap(other, Socket, Held), DOMAIN other = DOMAIN held,
         \A s \in DOMAIN held : other[s].addr = held[s].addr
  PROVE  Kept(a2s, s2a, other)
BY DEF Kept, Match

-----------------------------------------------------------------------------
LEMMA DestinationsAreAddresses ==
  ASSUME PeersInv, NEW n \in Node
  PROVE  Destinations(n) \subseteq Addr
BY DEF PeersInv, Destinations, IsMap, PeerInfo

LEMMA ConnectKeeps ==
  ASSUME SocketsInv, NEW n \in Node, NEW addrs \in SUBSET (Addr \ DOMAIN m_addr2socket[n]),
         Connect(n, addrs)
  PROVE  SocketsInv'
<1> DEFINE Opened(pointers, back) ==
      [s \in pointers |-> [addr |-> back[s], up |-> back[s] \in Listening]]
           Forth(pointers, back) ==
      [a \in addrs |-> CHOOSE s \in pointers : back[s] = a]
<1>1. PICK pointers \in Allocated(n, Cardinality(addrs)) :
        \E back \in [pointers -> addrs] :
          /\ \A s, t \in pointers : s < t => back[s] < back[t]
          /\ m_addr2socket' = [m_addr2socket EXCEPT ![n] = Over(Forth(pointers, back), @)]
          /\ m_socket2addr' = [m_socket2addr EXCEPT ![n] = Over(back, @)]
          /\ sockets' = [sockets EXCEPT ![n] = Over(Opened(pointers, back), @)]
  BY DEF Connect
<1>2. PICK back \in [pointers -> addrs] :
          /\ \A s, t \in pointers : s < t => back[s] < back[t]
          /\ m_addr2socket' = [m_addr2socket EXCEPT ![n] = Over(Forth(pointers, back), @)]
          /\ m_socket2addr' = [m_socket2addr EXCEPT ![n] = Over(back, @)]
          /\ sockets' = [sockets EXCEPT ![n] = Over(Opened(pointers, back), @)]
  BY <1>1
<1>3. /\ pointers \in SUBSET (Socket \ DOMAIN sockets[n])
      /\ Cardinality(pointers) = Cardinality(addrs)
  BY DEF Allocated
<1>4. /\ IsFiniteSet(pointers) /\ IsFiniteSet(addrs)
      /\ pointers \in SUBSET Nat /\ addrs \in SUBSET Nat
  BY <1>3, Facts, FS_Subset
<1>5. /\ \A s, t \in pointers : back[s] = back[t] => s = t
      /\ \A a \in addrs : \E s \in pointers : back[s] = a
  <2>1. \A s, t \in pointers : s < t => back[s] < back[t]
    BY <1>2
  <2> HIDE DEF Opened, Forth
  <2> QED BY <1>3, <1>4, <2>1, OrderedIsOnto
<1>6. /\ Opened(pointers, back) \in [pointers -> Held]
      /\ \A s \in pointers : Opened(pointers, back)[s].addr = back[s]
  BY <1>3 DEF Held
<1>7. Kept(m_addr2socket[n], m_socket2addr[n], sockets[n])
  BY DEF SocketsInv
<1>8. Kept(Over(Forth(pointers, back), m_addr2socket[n]),
           Over(back, m_socket2addr[n]), Over(Opened(pointers, back), sockets[n]))
  <2> HIDE DEF Opened
  <2> QED BY <1>3, <1>5, <1>6, <1>7, OpeningKeeps
<1> HIDE DEF Opened, Forth
<1> QED BY <1>2, <1>8 DEF SocketsInv

LEMMA HandleCloseKeeps ==
  ASSUME SocketsInv, NEW n \in Node, NEW s \in DOMAIN sockets[n], HandleClose(n, s),
         sockets' = [sockets EXCEPT ![n] = Without(@, {s})]
  PROVE  SocketsInv'
<1>1. Kept(m_addr2socket[n], m_socket2addr[n], sockets[n])
  BY DEF SocketsInv
<1>2. s \in DOMAIN m_socket2addr[n]
  BY <1>1 DEF Kept, Match
<1>3. /\ m_addr2socket' = [m_addr2socket EXCEPT ![n] = Without(@, {m_socket2addr[n][s]})]
      /\ m_socket2addr' = [m_socket2addr EXCEPT ![n] = Without(@, {s})]
  BY <1>2 DEF HandleClose
<1>4. Kept(Without(m_addr2socket[n], {m_socket2addr[n][s]}),
           Without(m_socket2addr[n], {s}), Without(sockets[n], {s}))
  BY <1>1, ClosingKeeps
<1> QED BY <1>3, <1>4 DEF SocketsInv

-----------------------------------------------------------------------------
\* Newcomers are other nodes than those that are known.
LEMMA NewcomersAreNew ==
  ASSUME NEW n \in Node, NEW heard, IsMap(heard, Node, Addr)
  PROVE  /\ IsMap(Newcomers(n, heard), Node \ {n}, Addr)
         /\ \A p \in DOMAIN m_peers[n] : p \notin DOMAIN Newcomers(n, heard)
BY DEF Newcomers, Without, IsMap

LEMMA PingTeaches ==
  ASSUME PeersInv, NEW n \in Node, NEW ping \in pings, HandlePingMessage(n, ping)
  PROVE  /\ R!Learn(n)
         /\ m_peers' = [k \in Node |-> m_peers'[k]]
         /\ m_stablePeers' = [k \in Node |-> m_stablePeers'[k]]
         /\ \A k \in Node : /\ IsMap(m_peers'[k], Node \ {k}, Addr)
                            /\ m_stablePeers'[k] \in PeerInfo
<1> DEFINE heard == Over([p \in {ping.from} |-> ping.addr], ping.peers)
           new == Newcomers(n, heard)
<1>1. IsMap(heard, Node, Addr)
  <2>1. IsMap([p \in {ping.from} |-> ping.addr], Node, Addr) /\ IsMap(ping.peers, Node, Addr)
    BY DEF PeersInv, IsPing, IsMap
  <2> QED BY <2>1, OverIsMap
<1>2. /\ m_peers' = [m_peers EXCEPT ![n] = Over(new, m_peers[n])]
      /\ m_stablePeers' = [m_stablePeers EXCEPT ![n] = updateStablePeers(n, new)]
  BY DEF HandlePingMessage
<1> HIDE DEF heard
<1>3. /\ IsMap(new, Node \ {n}, Addr)
      /\ \A p \in DOMAIN m_peers[n] : p \notin DOMAIN new
  BY <1>1, NewcomersAreNew
<1> HIDE DEF new
<1>4. IsMap(m_peers[n], Node \ {n}, Addr) /\ m_stablePeers[n] \in PeerInfo
  BY DEF PeersInv
<1>5. /\ IsMap(Over(new, m_peers[n]), Node \ {n}, Addr)
      /\ DOMAIN Over(new, m_peers[n]) = DOMAIN new \cup DOMAIN m_peers[n]
      /\ \A p \in DOMAIN m_peers[n] : Over(new, m_peers[n])[p] = m_peers[n][p]
  <2>1. IsMap(Over(new, m_peers[n]), Node \ {n}, Addr)
    BY <1>3, <1>4, OverIsMap
  <2> QED BY <1>3, <2>1 DEF Over
<1>6. m_peers'[n] = Over(new, m_peers[n])
  BY <1>2 DEF PeersInv
<1>7. R!Learn(n)
  BY <1>2, <1>5, <1>6 DEF R!Learn, IsMap
<1>8. updateStablePeers(n, new) \in PeerInfo
  <2> DEFINE here == {p \in DOMAIN new : new[p] = m_stablePeers[n].addr}
  <2>1. here # {} => (CHOOSE p \in here : TRUE) \in Node
    BY <1>3 DEF IsMap
  <2> QED BY <1>4, <2>1 DEF updateStablePeers, PeerInfo
<1> QED BY <1>2, <1>5, <1>7, <1>8 DEF PeersInv

\* A ping that is sent tells what its sender knows.
LEMMA SentPings ==
  ASSUME PeersInv, NEW n \in Node, SendPingMessage(n)
  PROVE  \A ping \in pings' : IsPing(ping)
<1>1. Destinations(n) \subseteq Addr
  BY DestinationsAreAddresses
<1>2. \A a \in Destinations(n) : IsPing(Ping(n, a))
  BY <1>1 DEF PeersInv, IsPing, IsMap, Ping
<1> QED BY <1>2 DEF SendPingMessage, PeersInv

-----------------------------------------------------------------------------
LEMMA PingTimerKeeps ==
  ASSUME PeersInv, SocketsInv, NEW n \in Node, PingTimer(n)
  PROVE  PeersInv' /\ SocketsInv' /\ UNCHANGED m_peers
<1>1. /\ UNCHANGED <<home, used, restarts, m_peers, m_stablePeers>>
      /\ SendPingMessage(n)
  BY DEF PingTimer, SendPingMessage
<1>2. \A ping \in pings' : IsPing(ping)
  BY <1>1, SentPings
<1>3. faults' \in 0..MaxFaults
  <2>1. faults' = faults \/ (faults < MaxFaults /\ faults' = faults + 1)
    BY <1>1 DEF SendPingMessage
  <2>2. faults \in 0..MaxFaults /\ MaxFaults \in Nat
    BY Facts DEF PeersInv
  <2> QED BY <2>1, <2>2
<1>4. PeersInv'
  BY <1>1, <1>2, <1>3 DEF PeersInv, IsPing
<1>5. PICK addrs \in SUBSET (Destinations(n) \ DOMAIN m_addr2socket[n]) :
        Connect(n, addrs)
  BY <1>1 DEF SendPingMessage
<1>6. addrs \in SUBSET (Addr \ DOMAIN m_addr2socket[n])
  BY DestinationsAreAddresses
<1>7. SocketsInv'
  BY <1>5, <1>6, ConnectKeeps
<1> QED BY <1>1, <1>4, <1>7

LEMMA PingArrivesKeeps ==
  ASSUME PeersInv, SocketsInv, NEW m \in Node, NEW n \in Node, PingArrives(m, n)
  PROVE  PeersInv' /\ SocketsInv' /\ R!Learn(n)
<1>1. PICK ping \in pings : HandlePingMessage(n, ping)
  BY DEF PingArrives
<1>2. /\ UNCHANGED <<home, used, faults, restarts>> /\ pings' \subseteq pings
  BY DEF PingArrives
<1>3. UNCHANGED <<m_addr2socket, m_socket2addr, sockets>>
  BY <1>1 DEF HandlePingMessage
<1>4. SocketsInv'
  BY <1>3 DEF SocketsInv
<1> QED BY <1>1, <1>2, <1>4, PingTeaches DEF PeersInv, IsPing

\* Steps that only lose pings, and connections.
LEMMA LosingKeepsPeers ==
  ASSUME PeersInv, pings' \subseteq pings, faults' \in 0..MaxFaults,
         UNCHANGED <<home, used, restarts, m_peers, m_stablePeers>>
  PROVE  PeersInv'
BY DEF PeersInv, IsPing

LEMMA DeadSocketClosesKeeps ==
  ASSUME PeersInv, SocketsInv, NEW n \in Node, DeadSocketCloses(n)
  PROVE  PeersInv' /\ SocketsInv' /\ UNCHANGED m_peers
<1>1. PICK s \in DOMAIN sockets[n] :
        /\ sockets' = [sockets EXCEPT ![n] = Without(@, {s})]
        /\ HandleClose(n, s)
  BY DEF DeadSocketCloses
<1>2. SocketsInv'
  BY <1>1, HandleCloseKeeps
<1>3. /\ UNCHANGED <<home, used, restarts, m_peers, m_stablePeers>>
      /\ pings' = pings /\ faults' = faults
  BY <1>1 DEF DeadSocketCloses, HandleClose
<1>4. PeersInv'
  BY <1>3, LosingKeepsPeers DEF PeersInv
<1> QED BY <1>2, <1>3, <1>4

LEMMA ConnectionBreaksKeeps ==
  ASSUME PeersInv, SocketsInv, NEW n \in Node, ConnectionBreaks(n)
  PROVE  PeersInv' /\ SocketsInv' /\ UNCHANGED m_peers
<1>1. PICK s \in DOMAIN sockets[n] :
        /\ sockets' = [sockets EXCEPT ![n] = Without(@, {s})]
        /\ HandleClose(n, s)
  BY DEF ConnectionBreaks
<1>2. SocketsInv'
  BY <1>1, HandleCloseKeeps
<1>3. /\ UNCHANGED <<home, used, restarts, m_peers, m_stablePeers>>
      /\ pings' \subseteq pings
  BY <1>1 DEF ConnectionBreaks, HandleClose
<1>4. faults < MaxFaults /\ faults' = faults + 1
  BY DEF ConnectionBreaks
<1>5. faults' \in 0..MaxFaults
  BY <1>4, Facts DEF PeersInv
<1>6. PeersInv'
  BY <1>3, <1>5, LosingKeepsPeers
<1> QED BY <1>2, <1>3, <1>6

LEMMA ProtocolMessageArrivesKeeps ==
  ASSUME PeersInv, SocketsInv, NEW m \in Node, NEW n \in Node,
         ProtocolMessageArrives(m, n)
  PROVE  PeersInv' /\ SocketsInv' /\ UNCHANGED m_peers
<1>1. PICK s \in DOMAIN sockets[m] :
        /\ sockets[m][s] = [addr |-> home[n], up |-> TRUE]
        /\ sockets' = [sockets EXCEPT ![m][s].up = FALSE]
  BY DEF ProtocolMessageArrives
<1>2. /\ UNCHANGED <<home, used, restarts, m_peers, m_stablePeers>>
      /\ UNCHANGED <<m_addr2socket, m_socket2addr>>
      /\ pings' \subseteq pings /\ faults < MaxFaults /\ faults' = faults + 1
  BY DEF ProtocolMessageArrives
<1>3. PeersInv'
  <2>1. faults' \in 0..MaxFaults
    BY <1>2, Facts DEF PeersInv
  <2> QED BY <1>2, <2>1, LosingKeepsPeers
<1>4. Kept(m_addr2socket[m], m_socket2addr[m], sockets[m])
  BY DEF SocketsInv
<1> DEFINE other == [sockets[m] EXCEPT ![s].up = FALSE]
<1>5. /\ IsMap(other, Socket, Held) /\ DOMAIN other = DOMAIN sockets[m]
      /\ \A t \in DOMAIN sockets[m] : other[t].addr = sockets[m][t].addr
  <2>1. IsMap(sockets[m], Socket, Held)
    BY <1>4 DEF Kept
  <2> QED BY <1>1, <2>1 DEF IsMap, Held
<1>6. sockets' = [sockets EXCEPT ![m] = other]
  BY <1>1
<1> HIDE DEF other
<1>7. Kept(m_addr2socket[m], m_socket2addr[m], other)
  BY <1>4, <1>5, UpDownKeeps
<1>8. SocketsInv'
  BY <1>2, <1>6, <1>7 DEF SocketsInv
<1> QED BY <1>2, <1>3, <1>8

LEMMA RestartKeeps ==
  ASSUME PeersInv, SocketsInv, NEW n \in Node, Restart(n)
  PROVE  PeersInv' /\ SocketsInv' /\ R!Forget(n)
<1> DEFINE dead(m) == [s \in DOMAIN sockets[m] |->
                         IF sockets[m][s].addr = home[n]
                         THEN [sockets[m][s] EXCEPT !.up = FALSE] ELSE sockets[m][s]]
<1>1. PICK addr \in {home[n]} \cup (Addr \ used) :
        /\ home' = [home EXCEPT ![n] = addr]
        /\ used' = used \cup {addr}
        /\ m_peers' = [m_peers EXCEPT ![n] = Empty]
        /\ m_stablePeers' = [m_stablePeers EXCEPT ![n] = NewStable(n)]
        /\ pings' = {ping \in pings : ping.to # home[n]}
  BY DEF Restart
<1>2. /\ m_addr2socket' = [m_addr2socket EXCEPT ![n] = Empty]
      /\ m_socket2addr' = [m_socket2addr EXCEPT ![n] = Empty]
      /\ sockets' = [m \in Node |-> IF m = n THEN Empty ELSE dead(m)]
      /\ faults' = faults /\ restarts < MaxRestarts /\ restarts' = restarts + 1
  BY DEF Restart
<1>3. \A S, T : IsMap(Empty, S, T)
  BY DEF IsMap, Empty
<1>4. R!Forget(n)
  BY <1>1 DEF R!Forget, R!Nobody, Empty
<1>5. PeersInv'
  <2>1. addr \in Addr
    BY DEF PeersInv
  <2>2. NewStable(n) \in PeerInfo
    BY Facts DEF NewStable, PeerInfo
  <2>3. restarts' \in 0..MaxRestarts
    BY <1>2, Facts DEF PeersInv
  <2>4. home' \in [Node -> Addr] /\ used' \subseteq Addr
    BY <1>1, <2>1 DEF PeersInv
  <2>5. \A ping \in pings' : IsPing(ping)
    BY <1>1 DEF PeersInv
  <2> QED BY <1>1, <1>2, <1>3, <2>2, <2>3, <2>4, <2>5 DEF PeersInv, IsPing
<1>6. Kept(Empty, Empty, Empty)
  BY <1>3 DEF Kept, Match, Empty
<1>7. ASSUME NEW m \in Node
      PROVE  Kept(m_addr2socket[m], m_socket2addr[m], dead(m))
  <2>1. Kept(m_addr2socket[m], m_socket2addr[m], sockets[m])
    BY DEF SocketsInv
  <2>2. IsMap(sockets[m], Socket, Held)
    BY <2>1 DEF Kept
  <2>3. /\ IsMap(dead(m), Socket, Held) /\ DOMAIN dead(m) = DOMAIN sockets[m]
        /\ \A t \in DOMAIN sockets[m] : dead(m)[t].addr = sockets[m][t].addr
    BY <2>2 DEF IsMap, Held
  <2> HIDE DEF dead
  <2> QED BY <2>1, <2>3, UpDownKeeps
<1>8. SocketsInv'
  <2> HIDE DEF dead
  <2> QED BY <1>2, <1>6, <1>7 DEF SocketsInv
<1> QED BY <1>4, <1>5, <1>8

-----------------------------------------------------------------------------
LEMMA InitIInv == Init => IInv /\ R!Init
<1> SUFFICES ASSUME Init PROVE IInv /\ R!Init
  OBVIOUS
<1>1. \A S, T : IsMap(Empty, S, T)
  BY DEF IsMap, Empty
<1>2. PeersInv
  <2>1. \A n \in Node : NewStable(n) \in PeerInfo
    BY Facts DEF NewStable, PeerInfo
  <2>2. home \in [Node -> Addr] /\ used \subseteq Addr
    BY Facts DEF Init
  <2>3. faults \in 0..MaxFaults /\ restarts \in 0..MaxRestarts
    BY Facts DEF Init
  <2>4. /\ \A n \in Node : IsMap(m_peers[n], Node \ {n}, Addr)
        /\ \A n \in Node : m_stablePeers[n] \in PeerInfo
    BY <1>1, <2>1 DEF Init
  <2>5. DOMAIN m_peers = Node /\ DOMAIN m_stablePeers = Node /\ pings = {}
    BY DEF Init
  <2>6. m_peers = [n \in Node |-> m_peers[n]]
    BY <2>5 DEF Init
  <2>7. m_stablePeers = [n \in Node |-> m_stablePeers[n]]
    BY <2>5 DEF Init
  <2> QED BY <2>2, <2>3, <2>4, <2>5, <2>6, <2>7 DEF PeersInv
<1>3. Kept(Empty, Empty, Empty)
  BY <1>1 DEF Kept, Match, Empty
<1>4. SocketsInv
  BY <1>3 DEF Init, SocketsInv
<1>5. R!Init
  BY DEF Init, R!Init, R!Nobody, Empty
<1> QED BY <1>2, <1>4, <1>5, InvParts

LEMMA NextIInv == IInv /\ [Next]_vars => IInv' /\ [R!Next]_m_peers
<1> SUFFICES ASSUME PeersInv, SocketsInv, [Next]_vars
             PROVE  PeersInv' /\ SocketsInv' /\ [R!Next]_m_peers
  <2>1. IInv' <=> PeersInv' /\ SocketsInv'
    BY InvParts, PTL
  <2> QED BY <2>1, InvParts
<1>1. CASE UNCHANGED vars
  BY <1>1 DEF vars, serverVars, PeersInv, SocketsInv, IsPing
<1>2. CASE Next
  <2>1. PICK n \in Node :
          \/ PingTimer(n)
          \/ \E m \in Node : PingArrives(m, n) \/ ProtocolMessageArrives(m, n)
          \/ DeadSocketCloses(n)
          \/ ConnectionBreaks(n)
          \/ Restart(n)
    BY <1>2 DEF Next
  <2>2. /\ PeersInv' /\ SocketsInv'
        /\ UNCHANGED m_peers \/ R!Learn(n) \/ R!Forget(n)
    BY <2>1, PingTimerKeeps, PingArrivesKeeps, ProtocolMessageArrivesKeeps,
       DeadSocketClosesKeeps, ConnectionBreaksKeeps, RestartKeeps
  <2> QED BY <2>2 DEF R!Next
<1> QED BY <1>1, <1>2

\* What a server holds and sends about its peers and sockets is of its type.
THEOREM MembershipTypeCorrect == Spec => []TypeOK
<1>1. IInv => TypeOK
  BY DEF IInv
<1> QED BY <1>1, InitIInv, NextIInv, PTL DEF Spec

(***************************************************************************)
(* The two socket maps stay inverse to each other and in step with the     *)
(* sockets that are open, whatever connects, fails, closes or is reused.   *)
(***************************************************************************)
THEOREM SocketMapsAreExact == Spec => []MapsMatchSockets
<1>1. IInv => MapsMatchSockets
  BY DEF IInv
<1> QED BY <1>1, InitIInv, NextIInv, PTL DEF Spec

(***************************************************************************)
(* The server implements Roster: a node is never its own peer, and what a  *)
(* process has learned it keeps, addresses included, until it dies.        *)
(***************************************************************************)
THEOREM ServerKeepsRoster == Spec => ImplementsRoster
BY InitIInv, NextIInv, PTL DEF Spec, ImplementsRoster, R!Spec

-----------------------------------------------------------------------------
(***************************************************************************)
(* The inductive invariant for the names of stable peers.  Wherever a node *)
(* is heard of, at home, among known peers or in a ping on its way, it is  *)
(* at an address that only this node has used: addresses are not passed    *)
(* on.  Besides, the UID of a named stable peer is that of a known one.    *)
(***************************************************************************)
HeardAt(p, a) ==
  \/ a = home[p]
  \/ \E n \in Node : p \in DOMAIN m_peers[n] /\ m_peers[n][p] = a
  \/ \E ping \in pings : \/ ping.from = p /\ ping.addr = a
                         \/ p \in DOMAIN ping.peers /\ ping.peers[p] = a

HeardAtUsed == \A p \in Node, a \in Addr : HeardAt(p, a) => a \in used

HeardAtOwn ==
  \A p \in Node, q \in Node, a \in Addr : HeardAt(p, a) /\ HeardAt(q, a) => p = q

StableIsKnown(n) ==
  m_stablePeers[n].id # NoUID =>
    /\ m_stablePeers[n].id \in DOMAIN m_peers[n]
    /\ m_peers[n][m_stablePeers[n].id] = m_stablePeers[n].addr

StableIsNamed(n) ==
  \A p \in DOMAIN m_peers[n] :
    m_peers[n][p] = m_stablePeers[n].addr => m_stablePeers[n].id = p

NamesInv ==
  /\ HeardAtUsed /\ HeardAtOwn
  /\ \A n \in Node : StableIsKnown(n) /\ StableIsNamed(n)

\* Nothing is heard of but what was heard before.
LEMMA NoNewsKeepsOwners ==
  ASSUME NamesInv, used \subseteq used',
         \A p \in Node, a \in Addr : HeardAt(p, a)' => HeardAt(p, a)
  PROVE  HeardAtUsed' /\ HeardAtOwn'
BY DEF NamesInv, HeardAtUsed, HeardAtOwn

\* Steps that teach nobody anything; a ping that is sent says what is known.
LEMMA TeachingNobodyKeepsNames ==
  ASSUME PeersInv, NamesInv, UNCHANGED <<home, used, m_peers, m_stablePeers>>,
         \A ping \in pings' : ping \in pings \/ \E n \in Node : \E a : ping = Ping(n, a)
  PROVE  NamesInv'
<1>1. ASSUME NEW p \in Node, NEW a \in Addr, HeardAt(p, a)'
      PROVE  HeardAt(p, a)
  BY <1>1 DEF HeardAt, Ping
<1>2. HeardAtUsed' /\ HeardAtOwn'
  BY <1>1, NoNewsKeepsOwners
<1> QED BY <1>2 DEF NamesInv, StableIsKnown, StableIsNamed

LEMMA PingKeepsNames ==
  ASSUME PeersInv, NamesInv, NEW n \in Node, NEW ping \in pings,
         HandlePingMessage(n, ping), UNCHANGED <<home, used>>, pings' \subseteq pings
  PROVE  NamesInv'
<1> DEFINE heard == Over([p \in {ping.from} |-> ping.addr], ping.peers)
           new == Newcomers(n, heard)
<1>1. ASSUME NEW p \in DOMAIN heard
      PROVE  p \in Node /\ heard[p] \in Addr /\ HeardAt(p, heard[p])
  BY DEF PeersInv, IsPing, IsMap, Over, HeardAt
<1>2. /\ m_peers' = [m_peers EXCEPT ![n] = Over(new, m_peers[n])]
      /\ m_stablePeers' = [m_stablePeers EXCEPT ![n] = updateStablePeers(n, new)]
  BY DEF HandlePingMessage
<1>3. ASSUME NEW p \in DOMAIN new
      PROVE  /\ p \in Node /\ new[p] \in Addr /\ HeardAt(p, new[p])
             /\ p \notin DOMAIN m_peers[n]
  BY <1>1 DEF Newcomers, Without
<1> HIDE DEF heard, new
<1>4. /\ DOMAIN m_peers'[n] = DOMAIN new \cup DOMAIN m_peers[n]
      /\ \A p \in DOMAIN new : m_peers'[n][p] = new[p]
      /\ \A p \in DOMAIN m_peers[n] : m_peers'[n][p] = m_peers[n][p]
      /\ m_stablePeers'[n] = updateStablePeers(n, new)
      /\ \A q \in Node \ {n} : /\ m_peers'[q] = m_peers[q]
                               /\ m_stablePeers'[q] = m_stablePeers[q]
  <2>1. m_peers'[n] = Over(new, m_peers[n])
    BY <1>2 DEF PeersInv
  <2>2. /\ m_stablePeers'[n] = updateStablePeers(n, new)
        /\ \A q \in Node \ {n} : /\ m_peers'[q] = m_peers[q]
                                 /\ m_stablePeers'[q] = m_stablePeers[q]
    BY <1>2 DEF PeersInv
  <2> QED BY <1>3, <2>1, <2>2 DEF Over
<1>5. ASSUME NEW p \in Node, NEW a \in Addr, HeardAt(p, a)'
      PROVE  HeardAt(p, a)
  <2>1. CASE \E q \in Node : p \in DOMAIN m_peers'[q] /\ m_peers'[q][p] = a
    <3>1. PICK q \in Node : p \in DOMAIN m_peers'[q] /\ m_peers'[q][p] = a
      BY <2>1
    <3>2. CASE q = n /\ p \in DOMAIN new
      BY <1>3, <1>4, <3>1, <3>2
    <3>3. CASE p \in DOMAIN m_peers[q] /\ m_peers[q][p] = a
      BY <3>3 DEF HeardAt
    <3> QED BY <1>4, <3>1, <3>2, <3>3
  <2>2. CASE \/ a = home'[p]
             \/ \E t \in pings' : \/ t.from = p /\ t.addr = a
                                  \/ p \in DOMAIN t.peers /\ t.peers[p] = a
    BY <2>2 DEF HeardAt
  <2> QED BY <1>5, <2>1, <2>2 DEF HeardAt
<1>6. HeardAtUsed' /\ HeardAtOwn'
  BY <1>5, NoNewsKeepsOwners
<1>7. \A p \in DOMAIN m_peers[n] : p \in Node /\ m_peers[n][p] \in Addr
                                   /\ HeardAt(p, m_peers[n][p])
  BY DEF PeersInv, IsMap, HeardAt
<1> DEFINE here == {p \in DOMAIN new : new[p] = m_stablePeers[n].addr}
<1>8. m_stablePeers'[n].addr = m_stablePeers[n].addr
  BY <1>4 DEF updateStablePeers
\* The stable peer had no UID, and newcomers are at its address: it gets theirs.
<1>9. CASE m_stablePeers[n].id = NoUID /\ here # {}
  <2> DEFINE named == CHOOSE p \in here : TRUE
  <2>1. named \in here
    BY <1>9
  <2>2. m_stablePeers'[n].id = named
    BY <1>4, <1>9 DEF updateStablePeers, PeersInv, PeerInfo
  <2>3. named \in DOMAIN new /\ new[named] = m_stablePeers[n].addr
    BY <2>1
  <2> HIDE DEF named, here
  <2>4. StableIsKnown(n)'
    BY <1>4, <1>8, <2>2, <2>3 DEF StableIsKnown
  <2>5. ASSUME NEW p \in DOMAIN m_peers'[n], m_peers'[n][p] = m_stablePeers[n].addr
        PROVE  p = named
    <3>1. HeardAt(p, m_stablePeers[n].addr) /\ p \in Node
      BY <1>3, <1>4, <1>7, <2>5
    <3>2. HeardAt(named, m_stablePeers[n].addr) /\ named \in Node
          /\ m_stablePeers[n].addr \in Addr
      BY <1>3, <2>3
    <3> QED BY <3>1, <3>2 DEF NamesInv, HeardAtOwn
  <2>6. StableIsNamed(n)'
    BY <1>8, <2>2, <2>5 DEF StableIsNamed
  <2> QED BY <1>4, <1>6, <2>4, <2>6 DEF NamesInv, StableIsKnown, StableIsNamed
<1>10. CASE ~(m_stablePeers[n].id = NoUID /\ here # {})
  <2>1. m_stablePeers'[n] = m_stablePeers[n]
    BY <1>4, <1>10 DEF updateStablePeers
  <2>2. StableIsKnown(n)'
    BY <1>4, <2>1 DEF NamesInv, StableIsKnown
  <2>3. ASSUME NEW p \in DOMAIN new, new[p] = m_stablePeers[n].addr
        PROVE  FALSE
    <3> DEFINE id == m_stablePeers[n].id
    <3>1. id # NoUID
      BY <1>10, <2>3
    <3>2. id \in DOMAIN m_peers[n] /\ m_peers[n][id] = new[p]
      BY <2>3, <3>1 DEF NamesInv, StableIsKnown
    <3>3. p = id
      BY <1>3, <1>7, <3>2 DEF NamesInv, HeardAtOwn
    <3> QED BY <1>3, <3>2, <3>3
  <2>4. StableIsNamed(n)'
    BY <1>4, <2>1, <2>3 DEF NamesInv, StableIsNamed
  <2> QED BY <1>4, <1>6, <2>2, <2>4 DEF NamesInv, StableIsKnown, StableIsNamed
<1> QED BY <1>9, <1>10

\* A restarted process knows nobody, and is at home at its old address or at
\* one that nobody has used.
LEMMA RestartKeepsNames ==
  ASSUME PeersInv, NamesInv, NEW n \in Node, Restart(n)
  PROVE  NamesInv'
<1>1. PICK addr \in {home[n]} \cup (Addr \ used) :
        /\ home' = [home EXCEPT ![n] = addr]
        /\ used' = used \cup {addr}
        /\ m_peers' = [m_peers EXCEPT ![n] = Empty]
        /\ m_stablePeers' = [m_stablePeers EXCEPT ![n] = NewStable(n)]
        /\ pings' = {ping \in pings : ping.to # home[n]}
  BY DEF Restart
<1>2. /\ home'[n] = addr /\ DOMAIN m_peers'[n] = {}
      /\ m_stablePeers'[n].id = NoUID
      /\ \A q \in Node \ {n} : /\ home'[q] = home[q] /\ m_peers'[q] = m_peers[q]
                               /\ m_stablePeers'[q] = m_stablePeers[q]
  BY <1>1 DEF PeersInv, Empty, NewStable
<1>3. ASSUME NEW p \in Node, NEW a \in Addr, HeardAt(p, a)'
      PROVE  HeardAt(p, a) \/ (p = n /\ a = addr)
  BY <1>1, <1>2, <1>3 DEF HeardAt
<1>4. \A p \in Node : addr # home[n] => ~HeardAt(p, addr)
  BY DEF NamesInv, HeardAtUsed, PeersInv
<1>5. HeardAt(n, home[n])
  BY DEF HeardAt
<1>6. HeardAtUsed'
  BY <1>1, <1>3 DEF NamesInv, HeardAtUsed
<1>7. HeardAtOwn'
  BY <1>3, <1>4, <1>5 DEF NamesInv, HeardAtOwn
<1> QED BY <1>2, <1>6, <1>7 DEF NamesInv, StableIsKnown, StableIsNamed

LEMMA NextNames == IInv /\ NamesInv /\ [Next]_vars => NamesInv'
<1> SUFFICES ASSUME PeersInv, NamesInv, [Next]_vars
             PROVE  NamesInv'
  BY InvParts
<1>1. CASE UNCHANGED vars
  BY <1>1, TeachingNobodyKeepsNames DEF vars, serverVars
<1>2. ASSUME NEW n \in Node, PingTimer(n)
      PROVE  NamesInv'
  <2>1. /\ UNCHANGED <<home, used, m_peers, m_stablePeers>>
        /\ \A ping \in pings' : ping \in pings \/ \E a : ping = Ping(n, a)
    BY <1>2 DEF PingTimer, SendPingMessage
  <2> QED BY <2>1, TeachingNobodyKeepsNames
<1>3. ASSUME NEW n \in Node, NEW m \in Node, PingArrives(m, n)
      PROVE  NamesInv'
  BY <1>3, PingKeepsNames DEF PingArrives
<1>4. ASSUME NEW n \in Node, NEW m \in Node,
             ProtocolMessageArrives(m, n) \/ DeadSocketCloses(n) \/ ConnectionBreaks(n)
      PROVE  NamesInv'
  <2>1. /\ UNCHANGED <<home, used, m_peers, m_stablePeers>>
        /\ pings' \subseteq pings
    BY <1>4 DEF ProtocolMessageArrives, DeadSocketCloses, ConnectionBreaks, HandleClose
  <2> QED BY <2>1, TeachingNobodyKeepsNames
<1>5. ASSUME NEW n \in Node, Restart(n)
      PROVE  NamesInv'
  BY <1>5, RestartKeepsNames
<1> QED BY <1>1, <1>2, <1>3, <1>4, <1>5 DEF Next

LEMMA InitNames == Init => NamesInv
<1> SUFFICES ASSUME Init PROVE NamesInv
  OBVIOUS
<1>1. \A n \in Node : DOMAIN m_peers[n] = {} /\ m_stablePeers[n].id = NoUID
  BY DEF Init, Empty, NewStable
<1>2. \A p \in Node : \A a : HeardAt(p, a) => a = FirstHome[p]
  BY <1>1 DEF Init, HeardAt
<1>3. HeardAtUsed /\ HeardAtOwn
  BY <1>2, MembershipAssumption DEF Init, HeardAtUsed, HeardAtOwn, MembershipAssumption
<1> QED BY <1>1, <1>3 DEF NamesInv, StableIsKnown, StableIsNamed

(***************************************************************************)
(* A known peer at the stable peer's address is the one whose UID the      *)
(* stable peer carries, so that no round of pings reaches an address       *)
(* twice on its account, whoever restarts where and whatever is lost.      *)
(***************************************************************************)
THEOREM StablePeerIsRecognised == Spec => []StablePeerIsNamed
<1>1. NamesInv => StablePeerIsNamed
  BY DEF NamesInv, StableIsNamed, StablePeerIsNamed
<1> QED BY <1>1, InitIInv, NextIInv, InitNames, NextNames, PTL DEF Spec
=============================================================================
