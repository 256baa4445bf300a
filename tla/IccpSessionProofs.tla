------------------------- MODULE IccpSessionProofs -------------------------
(***************************************************************************)
(* Proofs about the ICCP session for every set of connections, every       *)
(* buffer size, every number of faults and every assignment of RG ids.     *)
(***************************************************************************)
EXTENDS IccpSession, SequenceTheorems, TLAPS

(* Other is an involution on the two switches. *)
LEMMA OtherPeer == \A p \in Peer : Other(p) \in Peer /\ Other(p) # p /\ Other(Other(p)) = p
  BY PeerAssumption DEF Other, Peer

(* iccp_csm_status_reset leaves a well-formed CSM. *)
LEMMA ResetIsCsm == ResetCsm \in Csm
  BY DEF ResetCsm, Csm, State, Role

(* Adding or removing a message at one end of a queue keeps it a queue. *)
LEMMA QueueSteps ==
    ASSUME NEW S, NEW s \in Seq(S)
    PROVE  /\ \A m \in S : Append(s, m) \in Seq(S)
           /\ s # <<>> => Head(s) \in S /\ Tail(s) \in Seq(S)
           /\ \A t \in Seq(S) : s \o t \in Seq(S)
           /\ <<>> \in Seq(S)
  OBVIOUS

(* Handling a message changes flags only. *)
LEMMA CorrespondIsCsm ==
    ASSUME NEW p \in Peer, NEW i \in Csm, NEW m \in Msg
    PROVE  /\ CheckId(p, i, m) \in Csm
           /\ Correspond(p, i, m) \in Csm
           /\ Correspond(p, i, m).queue = i.queue
           /\ Correspond(p, i, m).state = i.state
  <1>1. CheckId(p, i, m) \in Csm /\ CheckId(p, i, m).queue = i.queue
                                 /\ CheckId(p, i, m).state = i.state
    BY DEF CheckId, Csm, Msg
  <1>2. m.type = "CAP" => m.s \in BOOLEAN
    BY DEF Msg
  <1> QED BY <1>1, <1>2 DEF Correspond, Csm

(* The CSM a transit works on after it took a message off its queue. *)
LEMMA ReceivedIsCsm ==
    ASSUME TypeOK, NEW p \in Peer
    PROVE  /\ Received(p) \in Csm
           /\ Received(p).state = csm[p].state
  <1> DEFINE i == csm[p]
  <1>1. i \in Csm
    BY DEF TypeOK
  <1>2. CASE i.queue = <<>>
    BY <1>1, <1>2 DEF Received
  <1>3. CASE i.queue # <<>>
    <2>1. i.queue \in Seq(Msg)
      BY <1>1 DEF Csm
    <2>2. Head(i.queue) \in Msg /\ Tail(i.queue) \in Seq(Msg)
      BY <2>1, <1>3, QueueSteps
    <2>3. DEFINE j == Correspond(p, i, Head(i.queue))
    <2>4. j \in Csm /\ j.queue = i.queue /\ j.state = i.state
      BY <1>1, <2>2, CorrespondIsCsm
    <2>5. Received(p) = [j EXCEPT !.queue = Tail(i.queue)]
      BY <1>3, <2>4 DEF Received
    <2> HIDE DEF j
    <2> QED BY <2>2, <2>4, <2>5 DEF Csm
  <1> QED BY <1>2, <1>3

(* The state machine stays inside ICCP_CONNECTION_STATE_E. *)
LEMMA NextStateIsState ==
    ASSUME NEW i \in Csm
    PROVE  NextState(i) \in State
  BY DEF NextState, Csm, State

LEMMA EnteredIsCsm ==
    ASSUME NEW i \in Csm
    PROVE  /\ Entered(i) \in Csm
           /\ Entered(i).state = i.state
           /\ Entered(i).queue = i.queue
           /\ Entered(i).status = i.status
  BY DEF Entered, Csm

LEMMA TransitedIsCsm ==
    ASSUME TypeOK, NEW p \in Peer
    PROVE  Transited(p) \in Csm
  <1> DEFINE i == Received(p)
             j == [i EXCEPT !.state = NextState(i)]
             k == IF j.state # csm[p].state \/ csm[p].queue # <<>> THEN Entered(j) ELSE j
  <1>1. i \in Csm
    BY ReceivedIsCsm
  <1>2. j \in Csm
    <2> HIDE DEF i
    <2> QED BY <1>1, NextStateIsState DEF Csm
  <1>3. k \in Csm
    <2> HIDE DEF j
    <2> QED BY <1>2, EnteredIsCsm
  <1>4. Transited(p) = [k EXCEPT !.app = @ \/ k.state = "OPERATIONAL"]
    BY DEF Transited
  <1> HIDE DEF k
  <1> QED BY <1>3, <1>4 DEF Csm

LEMMA PreparedIsSeq ==
    ASSUME NEW p \in Peer, NEW i \in Csm
    PROVE  Prepared(p, i) \in Seq(Msg)
  <1>1. RgId[p] \in Nat
    BY RgAssumption
  <1>2. i.scap \in BOOLEAN
    BY DEF Csm
  <1>3. [type |-> "CAP", s |-> i.scap] \in Msg
    BY <1>2 DEF Msg
  <1>4. \A t \in {"RG_CONNECT", "RG_DISCONNECT", "NAK"} :
            [type |-> t, rg |-> RgId[p]] \in Msg
    BY <1>1 DEF Msg
  <1> QED BY <1>3, <1>4 DEF Prepared

(* Closing an end, and what is then left on the connection. *)
LEMMA ClosingTypes ==
    ASSUME TypeOK, NEW c \in Conn, NEW p \in Peer, NEW s \in EndState
    PROVE  /\ EndsAfter(c, p, s) \in [Peer -> EndState]
           /\ ChAfter(c, p) \in [Peer -> Seq(Msg)]
  <1>1. end[c] \in [Peer -> EndState] /\ ch[c] \in [Peer -> Seq(Msg)]
    BY DEF TypeOK
  <1>2. EndsAfter(c, p, s) \in [Peer -> EndState]
    BY <1>1 DEF EndsAfter, EndState
  <1>3. ChAfter(c, p) \in [Peer -> Seq(Msg)]
    BY <1>1, QueueSteps DEF ChAfter
  <1> QED BY <1>2, <1>3

LEMMA RoleType ==
    ASSUME TypeOK, NEW p \in Peer
    PROVE  CheckedRole(p) \in Role
  BY DEF TypeOK, Csm, Role, CheckedRole, CountedRole

LEMMA DisconnectType ==
    ASSUME TypeOK, NEW p \in Peer, Disconnect(p)
    PROVE  /\ sock' \in [Peer -> Conn \cup {NoConn}]
           /\ csm' \in [Peer -> Csm]
           /\ end' \in [Conn -> [Peer -> EndState]]
           /\ ch' \in [Conn -> [Peer -> Seq(Msg)]]
  <1>1. csm' \in [Peer -> Csm]
    BY ResetIsCsm DEF Disconnect, TypeOK
  <1>2. sock' \in [Peer -> Conn \cup {NoConn}]
    BY DEF Disconnect, TypeOK
  <1>3. CASE sock[p] = NoConn
    BY <1>1, <1>2, <1>3 DEF Disconnect, TypeOK
  <1>4. CASE sock[p] # NoConn
    <2>1. sock[p] \in Conn
      BY <1>4 DEF TypeOK
    <2>2. "closed" \in EndState
      BY DEF EndState
    <2>3. /\ EndsAfter(sock[p], p, "closed") \in [Peer -> EndState]
          /\ ChAfter(sock[p], p) \in [Peer -> Seq(Msg)]
      BY <2>1, <2>2, ClosingTypes
    <2>4. /\ end' = [end EXCEPT ![sock[p]] = EndsAfter(sock[p], p, "closed")]
          /\ ch' = [ch EXCEPT ![sock[p]] = ChAfter(sock[p], p)]
      BY <1>4 DEF Disconnect
    <2> QED BY <1>1, <1>2, <2>1, <2>3, <2>4 DEF TypeOK
  <1> QED BY <1>3, <1>4

-----------------------------------------------------------------------------
(* Type correctness. *)

LEMMA TypeInit == Init => TypeOK
  <1> SUFFICES ASSUME Init PROVE TypeOK
    OBVIOUS
  <1>1. csm \in [Peer -> Csm]
    BY ResetIsCsm DEF Init
  <1>2. <<>> \in Seq(Msg) /\ <<>> \in Seq(Conn) /\ 0 \in 0..MaxFaults
    BY BoundAssumption
  <1> QED BY <1>1, <1>2 DEF Init, TypeOK, EndState, Turn

(* The actions that end in the disconnect handler. *)
LEMMA TypeOfDisconnects ==
    ASSUME TypeOK, NEW p \in Peer,
           \/ ReadError(p) \/ Timeout(p) \/ PeerLinkMissing(p) \/ ChangePeerLink(p)
           \/ DelDomain(p) \/ \E a \in Address : UnsetAddress(p, a)
    PROVE  TypeOK'
  <1>1. Disconnect(p)
    BY DEF ReadError, Timeout, PeerLinkMissing, ChangePeerLink, DelDomain,
           UnsetAddress, CommandDisconnect
  <1>2. /\ sock' \in [Peer -> Conn \cup {NoConn}]
        /\ csm' \in [Peer -> Csm]
        /\ end' \in [Conn -> [Peer -> EndState]]
        /\ ch' \in [Conn -> [Peer -> Seq(Msg)]]
    BY <1>1, DisconnectType
  <1>3. turn' \in [Peer -> Turn]
    BY DEF TypeOK, Turn, ReadError, Timeout, PeerLinkMissing, ChangePeerLink,
           DelDomain, UnsetAddress, CommandDisconnect
  <1>4. cfg' \in [Peer -> SUBSET Attr]
    BY DEF TypeOK, Attr, ReadError, Timeout, PeerLinkMissing, ChangePeerLink,
           DelDomain, UnsetAddress
  <1>5. faults' \in 0..MaxFaults
    BY BoundAssumption DEF TypeOK, Spend, ReadError, Timeout, PeerLinkMissing,
           ChangePeerLink, DelDomain, UnsetAddress
  <1>6. alive' = alive /\ acceptq' = acceptq
    BY DEF ReadError, Timeout, PeerLinkMissing, ChangePeerLink, DelDomain, UnsetAddress
  <1> QED BY <1>2, <1>3, <1>4, <1>5, <1>6 DEF TypeOK

LEMMA TypeStep == TypeOK /\ [Next]_vars => TypeOK'
  <1> SUFFICES ASSUME TypeOK, [Next]_vars PROVE TypeOK'
    OBVIOUS
  <1>1. ASSUME NEW c \in Conn, Connect(c) PROVE TypeOK'
    <2>1. Low \in Peer
      BY DEF Peer
    <2> DEFINE i == [csm[Low] EXCEPT !.state = "INITIALIZED", !.role = CheckedRole(Low)]
    <2>2. i \in Csm
      BY ZenonT(60), <2>1, RoleType DEF TypeOK, Csm, State
    <2>3. csm' = [csm EXCEPT ![Low] = Entered(i)]
      BY <1>1 DEF Connect
    <2>4. csm' \in [Peer -> Csm]
      BY <2>2, <2>3, EnteredIsCsm DEF TypeOK
    <2>5. acceptq' \in Seq(Conn)
      BY <1>1 DEF Connect, TypeOK
    <2> QED BY <1>1, <2>4, <2>5 DEF Connect, TypeOK, EndState, Turn
  <1>2. CASE Accept
    <2>1. High \in Peer
      BY DEF Peer
    <2>2. Head(acceptq) \in Conn /\ Tail(acceptq) \in Seq(Conn)
      BY <1>2 DEF Accept, TypeOK
    <2>3. csm' \in [Peer -> Csm]
      <3>1. CheckedRole(High) \in Role
        BY <2>1, RoleType
      <3> DEFINE i == [csm[High] EXCEPT !.state = "NONEXISTENT", !.role = CheckedRole(High)]
      <3>2. i \in Csm
        BY ZenonT(60), <2>1, <3>1 DEF TypeOK, Csm, State
      <3>3. csm' = [csm EXCEPT ![High] = i]
        BY <1>2 DEF Accept
      <3> HIDE DEF i
      <3> QED BY <3>2, <3>3 DEF TypeOK
    <2>4. end' \in [Conn -> [Peer -> EndState]]
      BY <1>2, <2>2 DEF Accept, TypeOK, EndState
    <2> QED BY <1>2, <2>2, <2>3, <2>4 DEF Accept, TypeOK
  <1>3. CASE Reject
    <2>1. High \in Peer /\ "closed" \in EndState
      BY DEF Peer, EndState
    <2>2. Head(acceptq) \in Conn /\ Tail(acceptq) \in Seq(Conn)
      BY <1>3 DEF Reject, TypeOK
    <2>3. csm' \in [Peer -> Csm]
      BY ZenonT(60), <1>3, <2>1, RoleType DEF Reject, TypeOK, Csm
    <2>4. /\ EndsAfter(Head(acceptq), High, "closed") \in [Peer -> EndState]
          /\ ChAfter(Head(acceptq), High) \in [Peer -> Seq(Msg)]
      BY <2>1, <2>2, ClosingTypes
    <2> QED BY <1>3, <2>2, <2>3, <2>4 DEF Reject, TypeOK
  <1>4. ASSUME NEW p \in Peer, PrepareNothing(p) PROVE TypeOK'
    <2>1. csm' \in [Peer -> Csm]
      <3>1. CheckedRole(p) \in Role
        BY RoleType
      <3> QED BY ZenonT(60), <1>4, <3>1 DEF PrepareNothing, TypeOK, Csm
    <2> QED BY <1>4, <2>1 DEF PrepareNothing, TypeOK, Turn
  <1>5. ASSUME NEW p \in Peer, TransitAccepted(p) PROVE TypeOK'
    <2> DEFINE i == [csm[p] EXCEPT !.state = "INITIALIZED", !.role = CheckedRole(p),
                                   !.queue = <<>>]
    <2>1. i \in Csm
      <3>1. CheckedRole(p) \in Role /\ <<>> \in Seq(Msg)
        BY RoleType
      <3> QED BY ZenonT(60), <3>1 DEF TypeOK, Csm, State
    <2>2. csm' = [csm EXCEPT ![p] = Entered(i)]
      BY <1>5 DEF TransitAccepted
    <2>3. csm' \in [Peer -> Csm]
      BY <2>1, <2>2, EnteredIsCsm DEF TypeOK
    <2> QED BY <1>5, <2>3 DEF TransitAccepted, TypeOK, Turn
  <1>6. ASSUME NEW p \in Peer, Transit(p) PROVE TypeOK'
    <2> DEFINE out == Prepared(p, Received(p))
    <2>1. sock[p] \in Conn /\ Other(p) \in Peer
      BY <1>6, OtherPeer DEF Transit, TypeOK
    <2>2. csm' \in [Peer -> Csm]
      BY <1>6, TransitedIsCsm DEF Transit, TypeOK
    <2>3. out \in Seq(Msg)
      BY ReceivedIsCsm, PreparedIsSeq
    <2>4. ch[sock[p]] \in [Peer -> Seq(Msg)]
      BY <2>1 DEF TypeOK
    <2>5. ChWith(sock[p], p, out) \in [Peer -> Seq(Msg)]
      <3> HIDE DEF out
      <3> QED BY <2>1, <2>3, <2>4, QueueSteps DEF ChWith
    <2>6. ch' = [ch EXCEPT ![sock[p]] = ChWith(sock[p], p, out)]
      BY <1>6 DEF Transit
    <2> HIDE DEF out
    <2>7. ch' \in [Conn -> [Peer -> Seq(Msg)]]
      BY <2>1, <2>5, <2>6 DEF TypeOK
    <2> QED BY <1>6, <2>2, <2>7 DEF Transit, TypeOK, Turn
  <1>7. ASSUME NEW p \in Peer, Read(p) PROVE TypeOK'
    <2>1. sock[p] \in Conn
      BY <1>7 DEF Read, TypeOK
    <2>2. ch[sock[p]][p] \in Seq(Msg) /\ ch[sock[p]][p] # <<>> /\ csm[p].queue \in Seq(Msg)
      BY <1>7, <2>1 DEF Read, TypeOK, Csm
    <2>3. /\ Head(ch[sock[p]][p]) \in Msg
          /\ Tail(ch[sock[p]][p]) \in Seq(Msg)
          /\ Append(csm[p].queue, Head(ch[sock[p]][p])) \in Seq(Msg)
      BY <2>2, QueueSteps
    <2>4. csm' \in [Peer -> Csm]
      BY ZenonT(60), <1>7, <2>3 DEF Read, TypeOK, Csm
    <2>5. ch' \in [Conn -> [Peer -> Seq(Msg)]]
      BY <1>7, <2>1, <2>3 DEF Read, TypeOK
    <2> QED BY <1>7, <2>4, <2>5 DEF Read, TypeOK, Turn
  <1>8. ASSUME NEW p \in Peer, ReadError(p) \/ Timeout(p) PROVE TypeOK'
    BY <1>8, TypeOfDisconnects
  <1>9. ASSUME NEW p \in Peer, NEW s \in {"closed", "lost"}, Crash(p, s) PROVE TypeOK'
    <2>1. s \in EndState
      BY DEF EndState
    <2>2. \A c \in Conn : /\ EndsAfter(c, p, s) \in [Peer -> EndState]
                          /\ ChAfter(c, p) \in [Peer -> Seq(Msg)]
      BY <2>1, ClosingTypes
    <2>3. /\ end' \in [Conn -> [Peer -> EndState]]
          /\ ch' \in [Conn -> [Peer -> Seq(Msg)]]
      BY <1>9, <2>2 DEF Crash, TypeOK
    <2>4. csm' \in [Peer -> Csm]
      BY <1>9, ResetIsCsm DEF Crash, TypeOK
    <2>5. acceptq' \in Seq(Conn) /\ faults' \in 0..MaxFaults
      BY <1>9, BoundAssumption DEF Crash, Spend, TypeOK
    <2> QED BY <1>9, <2>3, <2>4, <2>5 DEF Crash, TypeOK, Turn
  <1>10. ASSUME NEW p \in Peer, Restart(p) PROVE TypeOK'
    BY <1>10 DEF Restart, TypeOK
  <1>11. ASSUME NEW p \in Peer, Configure(p) PROVE TypeOK'
    <2>1. ASSUME NEW attrs \in SUBSET Address, AddDomain(p, attrs) PROVE TypeOK'
      BY <2>1 DEF AddDomain, TypeOK, Address, Attr
    <2>2. ASSUME NEW a \in Address, SetAddress(p, a) PROVE TypeOK'
      BY <2>2 DEF SetAddress, TypeOK, Address, Attr
    <2>3. CASE PeerLinkPresent(p)
      BY <2>3 DEF PeerLinkPresent, TypeOK, Attr
    <2>4. Address \in SUBSET Address
      OBVIOUS
    <2> QED BY <1>11, <2>1, <2>2, <2>3, <2>4, TypeOfDisconnects DEF Configure
  <1>12. CASE UNCHANGED vars
    BY <1>12 DEF vars, TypeOK
  <1> QED BY <1>1, <1>2, <1>3, <1>4, <1>5, <1>6, <1>7, <1>8, <1>9, <1>10, <1>11, <1>12
          DEF Next

(* Every variable of the session keeps its type, for any number of         *)
(* connections and faults.                                                 *)
THEOREM TypeCorrect == Spec => []TypeOK
  BY TypeInit, TypeStep, PTL DEF Spec

-----------------------------------------------------------------------------
(* Sockets: a CSM that has left NONEXISTENT holds an open connection. *)

SocketInv == SocketsOpen /\ StateNeedsSocket /\ ListenQueue

(* When p closes its end, the open or queued end of the other side stays. *)
LEMMA ClosingKeepsOther ==
    ASSUME TypeOK, NEW c \in Conn, NEW p \in Peer, NEW s
    PROVE  /\ end[c][Other(p)] \in {"open", "queued"} =>
                  EndsAfter(c, p, s)[Other(p)] = end[c][Other(p)]
           /\ Other(p) \in Peer /\ Other(p) # p
  <1>1. Other(p) \in Peer /\ Other(p) # p
    BY OtherPeer
  <1>2. end[c] \in [Peer -> EndState]
    BY DEF TypeOK
  <1> QED BY <1>1, <1>2 DEF EndsAfter, Gone

LEMMA DisconnectKeepsSockets ==
    ASSUME TypeOK, SocketInv, NEW p \in Peer, Disconnect(p), acceptq' = acceptq
    PROVE  SocketInv'
  <1> DEFINE q == Other(p)
  <1>0. q \in Peer /\ q # p /\ Peer = {p, q} /\ sock[q] \in Conn \cup {NoConn}
    BY OtherPeer DEF Peer, Other, TypeOK
  <1>1. /\ sock' = [sock EXCEPT ![p] = NoConn]
        /\ csm' = [csm EXCEPT ![p] = ResetCsm]
    BY DEF Disconnect
  <1>2. csm'[p].state = "NONEXISTENT" /\ csm'[q] = csm[q]
    BY <1>0, <1>1 DEF TypeOK, ResetCsm
  <1>3. sock'[p] = NoConn /\ sock'[q] = sock[q]
    BY <1>0, <1>1 DEF TypeOK
  <1> HIDE DEF q
  <1>4. StateNeedsSocket'
    BY <1>0, <1>2, <1>3 DEF StateNeedsSocket, SocketInv
  <1>5. CASE sock[p] = NoConn
    <2>1. end' = end
      BY <1>5 DEF Disconnect
    <2> QED BY <1>0, <1>3, <1>4, <2>1 DEF SocketInv, SocketsOpen, ListenQueue
  <1>6. CASE sock[p] # NoConn
    <2> DEFINE d == sock[p]
    <2>1. d \in Conn /\ end[d][p] = "open"
      BY <1>6 DEF TypeOK, SocketInv, SocketsOpen
    <2>2. end' = [end EXCEPT ![d] = EndsAfter(d, p, "closed")]
      BY <1>6 DEF Disconnect
    <2> HIDE DEF d
    <2>3. \A c \in Conn : end[c][q] \in {"open", "queued"} => end'[c][q] = end[c][q]
      BY <2>1, <2>2, ClosingKeepsOther DEF TypeOK, q
    <2>4. SocketsOpen'
      BY <1>0, <1>3, <2>3 DEF SocketInv, SocketsOpen
    <2>5. \A n \in 1..Len(acceptq) : acceptq[n] \in Conn /\ end[acceptq[n]][High] = "queued"
      BY DEF TypeOK, SocketInv, ListenQueue
    <2>6. \A n \in 1..Len(acceptq) : end'[acceptq[n]][High] = "queued"
      <3>1. CASE p = High
        BY <2>1, <2>2, <2>5, <3>1 DEF TypeOK
      <3>2. CASE q = High
        BY <2>3, <2>5, <3>2
      <3> QED BY <1>0, <3>1, <3>2 DEF Peer
    <2>7. ListenQueue'
      BY <2>6 DEF SocketInv, ListenQueue
    <2> QED BY <1>4, <2>4, <2>7 DEF SocketInv
  <1> QED BY <1>5, <1>6

LEMMA SocketStep == TypeOK /\ SocketInv /\ [Next]_vars => SocketInv'
  <1> SUFFICES ASSUME TypeOK, SocketInv, [Next]_vars PROVE SocketInv'
    OBVIOUS
  <1> USE DEF SocketInv
  <1>1. ASSUME NEW c \in Conn, Connect(c) PROVE SocketInv'
    <2>1. /\ c # NoConn /\ Low \in Peer /\ High \in Peer /\ Low # High
          /\ \A p \in Peer : end[c][p] = "none"
      BY <1>1, ConnAssumption, PeerAssumption DEF Connect, Peer
    <2>2. /\ end'[c][Low] = "open" /\ end'[c][High] = "queued"
          /\ \A d \in Conn : d # c => end'[d] = end[d]
      BY <1>1, <2>1 DEF Connect, TypeOK
    <2>3. sock'[Low] = c /\ sock'[High] = sock[High] /\ sock[High] # c
      BY <1>1, <2>1 DEF Connect, TypeOK, SocketsOpen
    <2>4. SocketsOpen'
      BY <2>1, <2>2, <2>3 DEF SocketsOpen, Peer, TypeOK
    <2>5. csm'[High] = csm[High]
      BY <1>1, <2>1 DEF Connect, TypeOK
    <2>6. StateNeedsSocket'
      BY <2>1, <2>3, <2>5 DEF StateNeedsSocket, Peer
    <2>7. \A n \in 1..Len(acceptq) : acceptq[n] \in Conn /\ acceptq[n] # c
      BY <2>1 DEF TypeOK, ListenQueue
    <2>8. /\ Len(acceptq') = Len(acceptq) + 1
          /\ acceptq'[Len(acceptq) + 1] = c
          /\ \A n \in 1..Len(acceptq) : acceptq'[n] = acceptq[n]
          /\ Len(acceptq) \in Nat
      BY <1>1 DEF Connect, TypeOK
    <2>9. ListenQueue'
      BY <2>2, <2>7, <2>8 DEF ListenQueue
    <2> QED BY <2>4, <2>6, <2>9
  <1>2. CASE Accept \/ Reject
    <2>1. /\ High \in Peer /\ Low \in Peer /\ Low # High
          /\ acceptq \in Seq(Conn) /\ acceptq # <<>>
      BY <1>2, PeerAssumption DEF Peer, TypeOK, Accept, Reject
    <2> DEFINE h == Head(acceptq)
    <2>2. /\ h \in Conn /\ end[h][High] = "queued" /\ h = acceptq[1] /\ Len(acceptq) \in Nat
          /\ Len(acceptq) >= 1
      BY <2>1 DEF ListenQueue
    <2>3. /\ acceptq' = Tail(acceptq)
          /\ Len(acceptq') = Len(acceptq) - 1
          /\ \A n \in 1..Len(acceptq') : acceptq'[n] = acceptq[n + 1]
      BY <1>2, <2>1 DEF Accept, Reject
    <2>4. \A n \in 1..Len(acceptq') : acceptq'[n] \in Conn /\ acceptq'[n] # h
      BY <2>1, <2>2, <2>3 DEF ListenQueue
    <2> HIDE DEF h
    <2>5. \A d \in Conn : d # h => end'[d] = end[d]
      BY <1>2, <2>2 DEF Accept, Reject, TypeOK, h
    <2>6. ListenQueue'
      BY <2>2, <2>3, <2>4, <2>5 DEF ListenQueue
    <2>7. CASE Accept
      <3>1. /\ sock'[High] = h /\ sock'[Low] = sock[Low] /\ h # NoConn
            /\ end'[h][High] = "open" /\ end'[h][Low] = end[h][Low]
            /\ csm'[Low] = csm[Low]
        BY <2>1, <2>2, <2>7, ConnAssumption DEF Accept, TypeOK, h
      <3>2. SocketsOpen'
        BY <2>1, <2>5, <3>1 DEF SocketsOpen, Peer, TypeOK
      <3>3. StateNeedsSocket'
        BY <2>1, <3>1 DEF StateNeedsSocket, Peer
      <3> QED BY <2>6, <3>2, <3>3
    <2>8. CASE Reject
      <3>1. /\ sock' = sock
            /\ \A p \in Peer : csm'[p].state = csm[p].state
            /\ end' = [end EXCEPT ![h] = EndsAfter(h, High, "closed")]
        BY <2>1, <2>8 DEF Reject, TypeOK, Csm, h
      <3>2. Other(High) = Low
        BY PeerAssumption DEF Other
      <3>3. end[h][Low] = "open" => end'[h][Low] = "open"
        BY <2>1, <2>2, <3>1, <3>2, ClosingKeepsOther DEF TypeOK
      <3>4. sock[High] # h
        BY <2>1, <2>2, ConnAssumption DEF SocketsOpen
      <3>5. SocketsOpen'
        BY <2>1, <2>5, <3>1, <3>3, <3>4 DEF SocketsOpen, Peer, TypeOK
      <3>6. StateNeedsSocket'
        BY <3>1 DEF StateNeedsSocket
      <3> QED BY <2>6, <3>5, <3>6
    <2> QED BY <1>2, <2>7, <2>8
  <1>3. ASSUME NEW p \in Peer,
               PrepareNothing(p) \/ TransitAccepted(p) \/ Transit(p) \/ Read(p)
        PROVE  SocketInv'
    <2>1. sock' = sock /\ end' = end /\ acceptq' = acceptq
      BY <1>3 DEF PrepareNothing, TransitAccepted, Transit, Read
    <2>2. \A q \in Peer \ {p} : csm'[q] = csm[q]
      BY <1>3 DEF PrepareNothing, TransitAccepted, Transit, Read, TypeOK
    <2>3. \/ sock[p] # NoConn
          \/ csm'[p].state = csm[p].state
      BY <1>3 DEF PrepareNothing, TransitAccepted, Transit, Read, TypeOK, Csm
    <2>4. StateNeedsSocket'
      BY <2>1, <2>2, <2>3 DEF StateNeedsSocket
    <2> QED BY <2>1, <2>4 DEF SocketsOpen, ListenQueue
  <1>4. ASSUME NEW p \in Peer,
               \/ ReadError(p) \/ Timeout(p) \/ PeerLinkMissing(p) \/ ChangePeerLink(p)
               \/ DelDomain(p) \/ \E a \in Address : UnsetAddress(p, a)
        PROVE  SocketInv'
    <2>1. Disconnect(p) /\ acceptq' = acceptq
      BY <1>4 DEF ReadError, Timeout, PeerLinkMissing, ChangePeerLink, DelDomain,
                  UnsetAddress, CommandDisconnect
    <2> QED BY <2>1, DisconnectKeepsSockets
  <1>5. ASSUME NEW p \in Peer, NEW s \in {"closed", "lost"}, Crash(p, s) PROVE SocketInv'
    <2> DEFINE q == Other(p)
    <2>1. q \in Peer /\ q # p /\ Peer = {p, q} /\ sock[q] \in Conn \cup {NoConn}
      BY OtherPeer DEF Peer, Other, TypeOK
    <2>2. csm'[p].state = "NONEXISTENT" /\ csm'[q] = csm[q]
      BY <1>5, <2>1 DEF TypeOK, ResetCsm, Crash
    <2>3. sock'[p] = NoConn /\ sock'[q] = sock[q]
      BY <1>5, <2>1 DEF TypeOK, Crash
    <2>4. \A c \in Conn : end[c][q] \in {"open", "queued"} => end'[c][q] = end[c][q]
      BY <1>5, ClosingKeepsOther DEF Crash
    <2> HIDE DEF q
    <2>5. SocketsOpen' /\ StateNeedsSocket'
      BY <2>1, <2>2, <2>3, <2>4 DEF SocketsOpen, StateNeedsSocket
    <2>6. CASE p = High
      <3>1. acceptq' = <<>>
        BY <1>5, <2>6 DEF Crash
      <3>2. ListenQueue'
        BY <3>1 DEF ListenQueue
      <3> QED BY <2>5, <3>2
    <2>7. CASE q = High
      <3>1. acceptq' = acceptq /\ \A n \in 1..Len(acceptq) : acceptq[n] \in Conn
        BY <1>5, <2>1, <2>7 DEF Crash, TypeOK
      <3>2. ListenQueue'
        BY <2>4, <2>7, <3>1 DEF ListenQueue
      <3> QED BY <2>5, <3>2
    <2> QED BY <2>1, <2>6, <2>7 DEF Peer
  <1>6. CASE UNCHANGED <<sock, csm, end, acceptq>>
    BY <1>6 DEF SocketsOpen, StateNeedsSocket, ListenQueue
  <1>7. ASSUME NEW p \in Peer, Configure(p) PROVE SocketInv'
    <2>1. ASSUME NEW attrs, AddDomain(p, attrs) PROVE SocketInv'
      BY <1>6, <2>1 DEF AddDomain
    <2>2. ASSUME NEW a \in Address, SetAddress(p, a) PROVE SocketInv'
      BY <1>6, <2>2 DEF SetAddress
    <2>3. CASE PeerLinkPresent(p)
      BY <1>6, <2>3 DEF PeerLinkPresent
    <2> HIDE DEF SocketInv
    <2> QED BY <1>4, <1>7, <2>1, <2>2, <2>3 DEF Configure
  <1>8. ASSUME NEW p \in Peer, Restart(p) PROVE SocketInv'
    BY <1>6, <1>8 DEF Restart
  <1>9. CASE UNCHANGED vars
    BY <1>6, <1>9 DEF vars
  <1> HIDE DEF SocketInv
  <1> QED BY <1>1, <1>2, <1>3, <1>4, <1>5, <1>7, <1>8, <1>9 DEF Next

-----------------------------------------------------------------------------
(* Redundancy groups: what a message and the flags tell of the peer's group. *)

GroupInv == MessagesFromPeer /\ GroupKnown

(* All messages of a sequence received by p name the group of its peer. *)
AllFromPeer(p, s) == \A n \in 1..Len(s) : FromPeer(p, s[n])

LEMMA AllFromPeerSteps ==
    ASSUME NEW p \in Peer, NEW s \in Seq(Msg), AllFromPeer(p, s)
    PROVE  /\ \A t \in Seq(Msg) : AllFromPeer(p, t) => AllFromPeer(p, s \o t)
           /\ \A m \in Msg : FromPeer(p, m) => AllFromPeer(p, Append(s, m))
           /\ s # <<>> => FromPeer(p, Head(s)) /\ AllFromPeer(p, Tail(s))
           /\ AllFromPeer(p, <<>>)
  <1>1. \A t \in Seq(Msg) : AllFromPeer(p, t) => AllFromPeer(p, s \o t)
    BY DEF AllFromPeer
  <1>2. \A m \in Msg : FromPeer(p, m) => AllFromPeer(p, Append(s, m))
    BY DEF AllFromPeer
  <1>3. s # <<>> => FromPeer(p, Head(s)) /\ AllFromPeer(p, Tail(s))
    BY DEF AllFromPeer
  <1>4. AllFromPeer(p, <<>>)
    BY DEF AllFromPeer
  <1> QED BY <1>1, <1>2, <1>3, <1>4

LEMMA MessagesFromPeerIs ==
    MessagesFromPeer <=> \A p \in Peer : /\ \A c \in Conn : AllFromPeer(p, ch[c][p])
                                         /\ AllFromPeer(p, csm[p].queue)
  BY DEF MessagesFromPeer, AllFromPeer

(* A message from the peer leaves flags that tell its group. *)
LEMMA CorrespondTells ==
    ASSUME NEW p \in Peer, NEW i \in Csm, NEW m \in Msg,
           FromPeer(p, m), FlagsTellGroup(p, i)
    PROVE  LET j == Correspond(p, i, m)
           IN  /\ j.prg => j.status = (RgId[p] # RgId[Other(p)])
               /\ i.state = "OPERATIONAL" => j.prg /\ ~j.status
  <1>1. CASE m.type = "CAP"
    BY <1>1 DEF Correspond, CheckId, FlagsTellGroup, Csm
  <1>2. CASE m.type # "CAP"
    <2>1. m.rg = RgId[Other(p)]
      BY <1>2 DEF FromPeer
    <2> DEFINE k == [i EXCEPT !.status = (m.rg # RgId[p])]
    <2>2. CheckId(p, i, m) = k
      BY <1>2 DEF CheckId
    <2>3. /\ k.status = (RgId[p] # RgId[Other(p)]) /\ k.prg = i.prg
          /\ k \in Csm
      BY <2>1 DEF Csm
    <2>4. i.state = "OPERATIONAL" => RgId[p] = RgId[Other(p)]
      BY DEF FlagsTellGroup, Csm
    <2> HIDE DEF k
    <2>5. Correspond(p, i, m) = IF m.type = "RG_CONNECT" THEN [k EXCEPT !.prg = TRUE] ELSE k
      BY <1>2, <2>2 DEF Correspond
    <2> QED BY <2>3, <2>4, <2>5 DEF FlagsTellGroup, Csm
  <1> QED BY <1>1, <1>2

LEMMA TransitTells ==
    ASSUME TypeOK, GroupInv, NEW p \in Peer
    PROVE  /\ FlagsTellGroup(p, Transited(p))
           /\ AllFromPeer(p, Transited(p).queue)
  <1> DEFINE i == Received(p)
             j == [i EXCEPT !.state = NextState(i)]
             k == IF j.state # csm[p].state \/ csm[p].queue # <<>> THEN Entered(j) ELSE j
  <1>1. i \in Csm /\ i.state = csm[p].state /\ csm[p] \in Csm
    BY ReceivedIsCsm DEF TypeOK
  <1>2. csm[p].queue \in Seq(Msg) /\ AllFromPeer(p, csm[p].queue)
    BY <1>1, MessagesFromPeerIs DEF GroupInv, Csm
  <1>3. FlagsTellGroup(p, csm[p])
    BY DEF GroupInv, GroupKnown
  <1>4. /\ i.prg => i.status = (RgId[p] # RgId[Other(p)])
        /\ i.state = "OPERATIONAL" => i.prg /\ ~i.status
        /\ AllFromPeer(p, i.queue)
    <2>1. CASE csm[p].queue = <<>>
      BY <1>2, <1>3, <2>1 DEF Received, FlagsTellGroup
    <2>2. CASE csm[p].queue # <<>>
      <3> DEFINE m == Head(csm[p].queue)
                 l == Correspond(p, csm[p], m)
      <3>1. m \in Msg /\ FromPeer(p, m) /\ AllFromPeer(p, Tail(csm[p].queue))
        BY <1>2, <2>2, AllFromPeerSteps, QueueSteps
      <3>2. l \in Csm /\ l.queue = csm[p].queue /\ l.state = csm[p].state
        BY <1>1, <3>1, CorrespondIsCsm
      <3>3. /\ l.prg => l.status = (RgId[p] # RgId[Other(p)])
            /\ csm[p].state = "OPERATIONAL" => l.prg /\ ~l.status
        BY <1>1, <1>3, <3>1, CorrespondTells
      <3>4. i = [l EXCEPT !.queue = Tail(csm[p].queue)]
        BY <2>2, <3>2 DEF Received
      <3> HIDE DEF l
      <3> QED BY <3>1, <3>2, <3>3, <3>4 DEF Csm
    <2> QED BY <2>1, <2>2
  <1> HIDE DEF i
  <1>5. j \in Csm
    BY <1>1, NextStateIsState DEF Csm
  <1>6. FlagsTellGroup(p, j) /\ j.queue = i.queue
    BY <1>1, <1>4 DEF FlagsTellGroup, NextState, Csm
  <1> HIDE DEF j
  <1>7. FlagsTellGroup(p, k) /\ k.queue = i.queue /\ k \in Csm
    <2>1. Entered(j) \in Csm /\ Entered(j).queue = j.queue
      BY <1>5, EnteredIsCsm
    <2>2. FlagsTellGroup(p, Entered(j))
      BY <1>5, <1>6 DEF FlagsTellGroup, Entered, Csm
    <2> QED BY <1>5, <1>6, <2>1, <2>2
  <1>8. Transited(p) = [k EXCEPT !.app = @ \/ k.state = "OPERATIONAL"]
    BY DEF Transited, i, j
  <1> HIDE DEF k
  <1> QED BY <1>4, <1>7, <1>8 DEF FlagsTellGroup, Csm

(* What p sends names p's group. *)
LEMMA PreparedFromPeer ==
    ASSUME NEW p \in Peer, NEW i
    PROVE  AllFromPeer(Other(p), Prepared(p, i))
  <1>1. Other(Other(p)) = p
    BY OtherPeer
  <1>2. \A n \in 1..Len(Prepared(p, i)) : FromPeer(Other(p), Prepared(p, i)[n])
    BY <1>1 DEF Prepared, FromPeer
  <1> QED BY <1>2 DEF AllFromPeer

(* Closing an end only removes messages. *)
LEMMA ClosingKeepsMessages ==
    ASSUME TypeOK, GroupInv, NEW c \in Conn, NEW p \in Peer, NEW q \in Peer
    PROVE  AllFromPeer(q, ChAfter(c, p)[q])
  <1>1. ch[c] \in [Peer -> Seq(Msg)] /\ AllFromPeer(q, ch[c][q])
    BY MessagesFromPeerIs DEF TypeOK, GroupInv
  <1>2. AllFromPeer(q, <<>>)
    BY DEF AllFromPeer
  <1> QED BY <1>1, <1>2 DEF ChAfter

LEMMA ResetTells ==
    ASSUME NEW p
    PROVE  FlagsTellGroup(p, ResetCsm) /\ AllFromPeer(p, ResetCsm.queue)
  BY DEF FlagsTellGroup, AllFromPeer, ResetCsm

LEMMA GroupStep == TypeOK /\ GroupInv /\ [Next]_vars => GroupInv'
  <1> SUFFICES ASSUME TypeOK, GroupInv, [Next]_vars PROVE GroupInv'
    OBVIOUS
  <1>0. \A p \in Peer : /\ FlagsTellGroup(p, csm[p]) /\ csm[p] \in Csm
                        /\ AllFromPeer(p, csm[p].queue) /\ csm[p].queue \in Seq(Msg)
                        /\ \A c \in Conn : /\ AllFromPeer(p, ch[c][p])
                                           /\ ch[c][p] \in Seq(Msg)
    BY MessagesFromPeerIs DEF GroupInv, GroupKnown, TypeOK, Csm
  <1> DEFINE Goal == \A p \in Peer : /\ FlagsTellGroup(p, csm'[p])
                                     /\ AllFromPeer(p, csm'[p].queue)
                                     /\ \A c \in Conn : AllFromPeer(p, ch'[c][p])
  <1>a. Goal => GroupInv'
    BY DEF GroupInv, GroupKnown, MessagesFromPeer, AllFromPeer, FlagsTellGroup
  <1>1. ASSUME NEW c \in Conn, Connect(c) PROVE Goal
    <2> DEFINE i == [csm[Low] EXCEPT !.state = "INITIALIZED", !.role = CheckedRole(Low)]
    <2>1. Low \in Peer /\ ch' = ch /\ csm' = [csm EXCEPT ![Low] = Entered(i)]
      BY <1>1 DEF Connect, Peer
    <2>2. FlagsTellGroup(Low, Entered(i)) /\ Entered(i).queue = csm[Low].queue
      BY <1>0, <2>1 DEF FlagsTellGroup, Entered, Csm
    <2> HIDE DEF i
    <2> QED BY <1>0, <2>1, <2>2 DEF TypeOK
  <1>2. ASSUME Accept PROVE Goal
    <2> DEFINE i == [csm[High] EXCEPT !.state = "NONEXISTENT", !.role = CheckedRole(High)]
    <2>1. High \in Peer /\ ch' = ch /\ csm' = [csm EXCEPT ![High] = i]
      BY <1>2 DEF Accept, Peer
    <2>2. FlagsTellGroup(High, i) /\ i.queue = csm[High].queue
      BY <1>0, <2>1 DEF FlagsTellGroup, Csm
    <2> HIDE DEF i
    <2> QED BY <1>0, <2>1, <2>2 DEF TypeOK
  <1>3. ASSUME Reject PROVE Goal
    <2>1. Head(acceptq) \in Conn /\ High \in Peer
      BY <1>3 DEF Reject, TypeOK, Peer
    <2>2. \A c \in Conn : \A p \in Peer : AllFromPeer(p, ch'[c][p])
      BY <1>0, <1>3, <2>1, ClosingKeepsMessages DEF Reject, TypeOK
    <2>3. \A p \in Peer : /\ FlagsTellGroup(p, csm'[p])
                          /\ csm'[p].queue = csm[p].queue
      BY <1>0, <1>3, <2>1 DEF Reject, TypeOK, Csm, FlagsTellGroup
    <2> QED BY <1>0, <2>2, <2>3
  <1>4. ASSUME NEW p \in Peer, PrepareNothing(p) PROVE Goal
    <2>1. ch' = ch
      BY <1>4 DEF PrepareNothing
    <2>2. \A q \in Peer : /\ FlagsTellGroup(q, csm'[q])
                          /\ csm'[q].queue = csm[q].queue
      BY <1>0, <1>4 DEF PrepareNothing, TypeOK, Csm, FlagsTellGroup
    <2> QED BY <1>0, <2>1, <2>2
  <1>5. ASSUME NEW p \in Peer, TransitAccepted(p) PROVE Goal
    <2> DEFINE i == [csm[p] EXCEPT !.state = "INITIALIZED", !.role = CheckedRole(p),
                                   !.queue = <<>>]
    <2>1. ch' = ch /\ csm' = [csm EXCEPT ![p] = Entered(i)]
      BY <1>5 DEF TransitAccepted
    <2>2. FlagsTellGroup(p, Entered(i)) /\ Entered(i).queue = <<>>
      BY <1>0 DEF FlagsTellGroup, Entered, Csm
    <2>3. AllFromPeer(p, <<>>)
      BY DEF AllFromPeer
    <2> HIDE DEF i
    <2> QED BY <1>0, <2>1, <2>2, <2>3 DEF TypeOK
  <1>6. ASSUME NEW p \in Peer, Transit(p) PROVE Goal
    <2> DEFINE out == Prepared(p, Received(p))
    <2>1. sock[p] \in Conn /\ Other(p) \in Peer
      BY <1>6, OtherPeer DEF Transit, TypeOK
    <2>2. out \in Seq(Msg) /\ AllFromPeer(Other(p), out)
      BY ReceivedIsCsm, PreparedIsSeq, PreparedFromPeer
    <2>3. /\ ch' = [ch EXCEPT ![sock[p]] = ChWith(sock[p], p, out)]
          /\ csm' = [csm EXCEPT ![p] = Transited(p)]
      BY <1>6 DEF Transit
    <2> HIDE DEF out
    <2>4. AllFromPeer(Other(p), ch[sock[p]][Other(p)] \o out)
      BY <1>0, <2>1, <2>2, AllFromPeerSteps
    <2>5. \A q \in Peer : AllFromPeer(q, ChWith(sock[p], p, out)[q])
      BY <1>0, <2>1, <2>4 DEF ChWith, TypeOK
    <2>6. \A c \in Conn : \A q \in Peer : AllFromPeer(q, ch'[c][q])
      BY <1>0, <2>1, <2>3, <2>5 DEF TypeOK
    <2>7. FlagsTellGroup(p, Transited(p)) /\ AllFromPeer(p, Transited(p).queue)
      BY TransitTells
    <2> QED BY <1>0, <2>3, <2>6, <2>7 DEF TypeOK
  <1>7. ASSUME NEW p \in Peer, Read(p) PROVE Goal
    <2> DEFINE d == sock[p]
               m == Head(ch[d][p])
    <2>1. d \in Conn
      BY <1>7 DEF Read, TypeOK
    <2>2. ch[d][p] \in Seq(Msg) /\ ch[d][p] # <<>> /\ AllFromPeer(p, ch[d][p])
      BY <1>0, <1>7, <2>1 DEF Read
    <2>3. m \in Msg /\ FromPeer(p, m) /\ AllFromPeer(p, Tail(ch[d][p]))
      BY <2>2, AllFromPeerSteps, QueueSteps
    <2>4. AllFromPeer(p, Append(csm[p].queue, m))
      BY <1>0, <2>3, AllFromPeerSteps
    <2>5. /\ csm' = [csm EXCEPT ![p].queue = Append(csm[p].queue, m)]
          /\ ch' = [ch EXCEPT ![d][p] = Tail(ch[d][p])]
      BY <1>7, <2>1 DEF Read, TypeOK
    <2> HIDE DEF m
    <2> HIDE DEF d
    <2>6. \A c \in Conn : \A q \in Peer : AllFromPeer(q, ch'[c][q])
      BY <1>0, <2>1, <2>3, <2>5 DEF TypeOK
    <2>7. \A q \in Peer : /\ FlagsTellGroup(q, csm'[q])
                          /\ csm'[q].queue = IF q = p THEN Append(csm[p].queue, m)
                                                      ELSE csm[q].queue
      BY <1>0, <2>5 DEF TypeOK, Csm, FlagsTellGroup
    <2> QED BY <1>0, <2>4, <2>6, <2>7
  <1>8. ASSUME NEW p \in Peer, Disconnect(p) PROVE Goal
    <2>1. csm' = [csm EXCEPT ![p] = ResetCsm]
      BY <1>8 DEF Disconnect
    <2>2. \A c \in Conn : \A q \in Peer : AllFromPeer(q, ch'[c][q])
      BY ZenonT(60), <1>0, <1>8, ClosingKeepsMessages DEF Disconnect, TypeOK
    <2> QED BY <1>0, <2>1, <2>2, ResetTells DEF TypeOK
  <1>9. ASSUME NEW p \in Peer, NEW s \in {"closed", "lost"}, Crash(p, s) PROVE Goal
    <2>1. csm' = [csm EXCEPT ![p] = ResetCsm]
      BY <1>9 DEF Crash
    <2>2. \A c \in Conn : \A q \in Peer : AllFromPeer(q, ch'[c][q])
      BY <1>0, <1>9, ClosingKeepsMessages DEF Crash, TypeOK
    <2> QED BY <1>0, <2>1, <2>2, ResetTells DEF TypeOK
  <1>10. ASSUME UNCHANGED <<csm, ch>> PROVE Goal
    BY <1>0, <1>10
  <1>11. ASSUME NEW p \in Peer, Configure(p) PROVE Goal
    <2>1. \/ UNCHANGED <<csm, ch>>
          \/ Disconnect(p)
      BY <1>11 DEF Configure, AddDomain, SetAddress, PeerLinkPresent, UnsetAddress,
                  PeerLinkMissing, ChangePeerLink, DelDomain, CommandDisconnect
    <2> QED BY <1>8, <1>10, <2>1
  <1>12. ASSUME NEW p \in Peer, ReadError(p) \/ Timeout(p) PROVE Goal
    BY <1>8, <1>12 DEF ReadError, Timeout
  <1>13. ASSUME NEW p \in Peer, Restart(p) PROVE Goal
    BY <1>10, <1>13 DEF Restart
  <1>14. ASSUME UNCHANGED vars PROVE Goal
    BY <1>10, <1>14 DEF vars
  <1> HIDE DEF Goal
  <1> QED BY <1>a, <1>1, <1>2, <1>3, <1>4, <1>5, <1>6, <1>7, <1>9, <1>11, <1>12, <1>13,
             <1>14 DEF Next

-----------------------------------------------------------------------------
LEMMA SessionInit == Init => SessionInv
  <1> SUFFICES ASSUME Init PROVE SessionInv
    OBVIOUS
  <1>1. SocketsOpen /\ StateNeedsSocket /\ ListenQueue
    BY DEF Init, SocketsOpen, StateNeedsSocket, ListenQueue, ResetCsm
  <1>2. MessagesFromPeer /\ GroupKnown
    BY DEF Init, MessagesFromPeer, GroupKnown, FlagsTellGroup, ResetCsm
  <1> QED BY <1>1, <1>2, TypeInit DEF SessionInv

(* The session invariant is inductive. *)
THEOREM SessionInvariant == Spec => []SessionInv
  <1>1. SessionInv /\ [Next]_vars => SessionInv'
    BY TypeStep, SocketStep, GroupStep DEF SessionInv, SocketInv, GroupInv
  <1> QED BY SessionInit, <1>1, PTL DEF Spec

(* The branch of iccp_csm_transit that finalizes (frees) the CSM from      *)
(* inside the transit is never taken: whatever the interleaving of accept, *)
(* refusal, read errors, timeouts, crashes and commands, a CSM that has    *)
(* left NONEXISTENT has an open socket.                                    *)
THEOREM NeverOrphaned == Spec => []NoOrphanState
  <1>1. SessionInv => NoOrphanState
    BY DEF SessionInv, SocketsOpen, StateNeedsSocket, NoOrphanState
  <1> QED BY SessionInvariant, <1>1, PTL

(* No switch becomes operational with a switch of another redundancy group.*)
THEOREM GroupsAgree == Spec => []RgAgreement
  <1>1. SessionInv => RgAgreement
    <2> SUFFICES ASSUME SessionInv, NEW p \in Peer, Operational(p)
                 PROVE  RgId[Low] = RgId[High]
      BY DEF RgAgreement
    <2>1. csm[p] \in Csm /\ FlagsTellGroup(p, csm[p])
      BY DEF SessionInv, TypeOK, GroupKnown
    <2>2. RgId[p] = RgId[Other(p)]
      BY <2>1 DEF FlagsTellGroup, Operational, Csm
    <2> QED BY <2>2 DEF Peer, Other
  <1> QED BY SessionInvariant, <1>1, PTL

-----------------------------------------------------------------------------
(* What two switches that hear each other agree on: the connection, the      *)
(* capabilities, the redundancy group's connect, and so the session that     *)
(* IccpSession promises.                                                     *)

(* p and its peer are the two switches. *)
LEMMA TwoPeers ==
    ASSUME NEW p \in Peer
    PROVE  /\ Other(p) \in Peer /\ Other(p) # p /\ Other(Other(p)) = p
           /\ Peer = {p, Other(p)}
           /\ \A r \in Peer : Other(r) = IF r = p THEN Other(p) ELSE p
  BY PeerAssumption DEF Other, Peer

LEMMA RgConnectSteps ==
    ASSUME NEW s \in Seq(Msg)
    PROVE  /\ \A t \in Seq(Msg) : HasRgConnect(s \o t) <=> HasRgConnect(s) \/ HasRgConnect(t)
           /\ \A m \in Msg : HasRgConnect(Append(s, m)) <=>
                                 HasRgConnect(s) \/ m.type = "RG_CONNECT"
           /\ s # <<>> => (HasRgConnect(s) <=>
                               Head(s).type = "RG_CONNECT" \/ HasRgConnect(Tail(s)))
           /\ ~HasRgConnect(<<>>)
  <1>1. ASSUME NEW t \in Seq(Msg)
        PROVE  HasRgConnect(s \o t) <=> HasRgConnect(s) \/ HasRgConnect(t)
    <2>1. ASSUME HasRgConnect(s) PROVE HasRgConnect(s \o t)
      BY <2>1 DEF HasRgConnect
    <2>2. ASSUME HasRgConnect(t) PROVE HasRgConnect(s \o t)
      <3>1. PICK n \in 1..Len(t) : t[n].type = "RG_CONNECT"
        BY <2>2 DEF HasRgConnect
      <3>2. Len(s) + n \in 1..Len(s \o t) /\ (s \o t)[Len(s) + n] = t[n]
        OBVIOUS
      <3> QED BY <3>1, <3>2 DEF HasRgConnect
    <2>3. ASSUME HasRgConnect(s \o t) PROVE HasRgConnect(s) \/ HasRgConnect(t)
      <3>1. PICK n \in 1..Len(s \o t) : (s \o t)[n].type = "RG_CONNECT"
        BY <2>3 DEF HasRgConnect
      <3>2. CASE n <= Len(s)
        BY <3>1, <3>2 DEF HasRgConnect
      <3>3. CASE n > Len(s)
        <4>1. n - Len(s) \in 1..Len(t) /\ (s \o t)[n] = t[n - Len(s)]
          BY <3>3
        <4> QED BY <3>1, <4>1 DEF HasRgConnect
      <3> QED BY <3>2, <3>3
    <2> QED BY <2>1, <2>2, <2>3
  <1>2. ASSUME NEW m \in Msg
        PROVE  HasRgConnect(Append(s, m)) <=> HasRgConnect(s) \/ m.type = "RG_CONNECT"
    <2>1. Append(s, m) = s \o <<m>> /\ <<m>> \in Seq(Msg)
      OBVIOUS
    <2>2. HasRgConnect(<<m>>) <=> m.type = "RG_CONNECT"
      BY DEF HasRgConnect
    <2> QED BY ZenonT(60), <1>1, <2>1, <2>2
  <1>3. ASSUME s # <<>>
        PROVE  HasRgConnect(s) <=> Head(s).type = "RG_CONNECT" \/ HasRgConnect(Tail(s))
    <2>1. s = <<Head(s)>> \o Tail(s) /\ Head(s) \in Msg /\ Tail(s) \in Seq(Msg)
      BY <1>3
    <2>2. HasRgConnect(<<Head(s)>>) <=> Head(s).type = "RG_CONNECT"
      BY DEF HasRgConnect
    <2>3. ASSUME HasRgConnect(s)
          PROVE  Head(s).type = "RG_CONNECT" \/ HasRgConnect(Tail(s))
      <3>1. PICK n \in 1..Len(s) : s[n].type = "RG_CONNECT"
        BY <2>3 DEF HasRgConnect
      <3>2. CASE n = 1
        BY <1>3, <3>1, <3>2
      <3>3. CASE n # 1
        <4>1. n - 1 \in 1..Len(Tail(s)) /\ Tail(s)[n - 1] = s[n]
          BY <1>3, <3>3
        <4> QED BY <3>1, <4>1 DEF HasRgConnect
      <3> QED BY <3>2, <3>3
    <2>4. ASSUME Head(s).type = "RG_CONNECT" PROVE HasRgConnect(s)
      <3>1. 1 \in 1..Len(s) /\ s[1] = Head(s)
        BY <1>3
      <3> QED BY <2>4, <3>1 DEF HasRgConnect
    <2>5. ASSUME HasRgConnect(Tail(s)) PROVE HasRgConnect(s)
      <3>1. PICK n \in 1..Len(Tail(s)) : Tail(s)[n].type = "RG_CONNECT"
        BY <2>5 DEF HasRgConnect
      <3>2. n + 1 \in 1..Len(s) /\ s[n + 1] = Tail(s)[n]
        BY <1>3
      <3> QED BY <3>1, <3>2 DEF HasRgConnect
    <2> QED BY <2>3, <2>4, <2>5
  <1>4. ~HasRgConnect(<<>>)
    BY DEF HasRgConnect
  <1> QED BY <1>1, <1>2, <1>3, <1>4

-----------------------------------------------------------------------------
(* Closing ends: the disconnect handler and a crash. *)

KeptAt(c) == end'[c] = end[c] /\ ch'[c] = ch[c]

(* p's end of c goes, and with it the connection if it was the last end. *)
ClosedAt(p, c) ==
    IF Gone(end[c][Other(p)])
    THEN /\ end'[c][p] = "none" /\ end'[c][Other(p)] = "none"
         /\ ch'[c][p] = <<>> /\ ch'[c][Other(p)] = <<>>
    ELSE /\ Gone(end'[c][p]) /\ end'[c][Other(p)] = end[c][Other(p)]
         /\ ch'[c][p] = <<>> /\ ch'[c][Other(p)] = ch[c][Other(p)]

LEMMA EndsClose ==
    ASSUME TypeOK, NEW p \in Peer, NEW c \in Conn, NEW s \in {"closed", "lost"},
           end'[c] = EndsAfter(c, p, s), ch'[c] = ChAfter(c, p)
    PROVE  ClosedAt(p, c)
  <1>1. Other(p) \in Peer /\ Other(p) # p
    BY TwoPeers
  <1>2. end[c] \in [Peer -> EndState] /\ ch[c] \in [Peer -> Seq(Msg)]
    BY DEF TypeOK
  <1> QED BY <1>1, <1>2 DEF ClosedAt, EndsAfter, ChAfter, Gone

(* The ends of a connection, seen from p. *)
LEMMA EndsPaired ==
    ASSUME EndsInUse, NEW p \in Peer, NEW c \in Conn
    PROVE  /\ end[c][p] = "none" <=> end[c][Other(p)] = "none"
           /\ end[c][p] = "open" => sock[p] = c
           /\ ch[c][p] # <<>> => end[c][p] \in {"open", "queued"}
  <1>1. p = Low \/ p = High
    BY DEF Peer
  <1> QED BY <1>1 DEF EndsInUse, Other

(* p leaves its connection and forgets the session; High, in a crash, also *)
(* loses its listen queue.                                                 *)
LEMMA ClosingStep ==
    ASSUME TypeOK, SocketInv, AgreementInv, NEW p \in Peer,
           sock' = [sock EXCEPT ![p] = NoConn],
           csm' = [csm EXCEPT ![p] = ResetCsm],
           \A c \in Conn : IF end[c][p] = "open" THEN ClosedAt(p, c)
                           ELSE IF end[c][p] = "queued" THEN KeptAt(c) \/ ClosedAt(p, c)
                           ELSE KeptAt(c),
           \/ acceptq' = acceptq /\ \A c \in Conn : end[c][p] = "queued" => KeptAt(c)
           \/ p = Low
           \/ acceptq' = <<>> /\ \A c \in Conn : end[c][p] = "queued" => ClosedAt(p, c)
    PROVE  AgreementInv'
  <1> DEFINE q == Other(p)
  <1>0. /\ q \in Peer /\ q # p /\ Other(q) = p /\ Peer = {p, q}
        /\ p = Low \/ p = High
        /\ q = Low \/ q = High
    BY TwoPeers DEF Peer
  <1>1. /\ sock'[p] = NoConn /\ sock'[q] = sock[q]
        /\ csm'[p] = ResetCsm /\ csm'[q] = csm[q]
    BY <1>0 DEF TypeOK
  <1>2. \A c \in Conn : /\ end[c][p] = "none" <=> end[c][q] = "none"
                        /\ end[c][p] = "open" <=> sock[p] = c
                        /\ end[c][q] = "open" <=> sock[q] = c
                        /\ ch[c][p] # <<>> => end[c][p] \in {"open", "queued"}
                        /\ ch[c][q] # <<>> => end[c][q] \in {"open", "queued"}
                        /\ c # NoConn
    BY <1>0, EndsPaired, ConnAssumption DEF AgreementInv, SocketInv, SocketsOpen
  <1>3. \A c \in Conn : KeptAt(c) \/ (ClosedAt(p, c) /\ end[c][p] \in {"open", "queued"})
    OBVIOUS
  <1>4. \A c \in Conn : end[c][p] = "open" => ClosedAt(p, c)
    OBVIOUS
  <1>5. /\ ResetCsm.queue = <<>> /\ ~ResetCsm.pcap /\ ~ResetCsm.prg /\ ~ResetCsm.status
        /\ ResetCsm.state = "NONEXISTENT" /\ ~ResetCsm.scap /\ ~ResetCsm.srg
    BY DEF ResetCsm
  <1>6. sock[q] \in Conn \cup {NoConn} /\ sock[p] \in Conn \cup {NoConn}
    BY <1>0 DEF TypeOK
  <1>7. p = High => q = Low
    BY DEF Other
  <1> HIDE DEF q
  <1>a. EndsInUse'
    <2> SUFFICES ASSUME NEW c \in Conn
                 PROVE  /\ end'[c][p] = "none" <=> end'[c][q] = "none"
                        /\ \A r \in Peer :
                              /\ end'[c][r] = "open" => sock'[r] = c
                              /\ ch'[c][r] # <<>> => end'[c][r] \in {"open", "queued"}
      BY <1>0 DEF EndsInUse
    <2>1. CASE KeptAt(c)
      <3>1. end[c][p] # "open" \/ ClosedAt(p, c)
        BY <1>4
      <3>2. end[c][p] # "open"
        BY <2>1, <3>1 DEF KeptAt, ClosedAt, Gone, q
      <3> QED BY <1>0, <1>1, <1>2, <2>1, <3>2 DEF KeptAt
    <2>2. CASE ClosedAt(p, c) /\ end[c][p] \in {"open", "queued"}
      BY <1>0, <1>1, <1>2, <2>2 DEF ClosedAt, Gone, q
    <2> QED BY <1>3, <2>1, <2>2
  <1>b. LatestQueued'
    <2> SUFFICES ASSUME p = High, sock[Low] # NoConn
                 PROVE  IF end'[sock[Low]][High] = "queued"
                        THEN acceptq' # <<>> /\ acceptq'[Len(acceptq')] = sock[Low]
                        ELSE acceptq' = <<>>
      BY <1>0, <1>1, <1>7 DEF LatestQueued
    <2> DEFINE c == sock[Low]
    <2>1. c \in Conn /\ end[c][Low] = "open" /\ q = Low /\ Low # High
      BY <1>2, <1>6, <1>7, PeerAssumption
    <2>2. IF end[c][High] = "queued" THEN acceptq # <<>> /\ acceptq[Len(acceptq)] = c
                                     ELSE acceptq = <<>>
      BY DEF AgreementInv, LatestQueued
    <2>3. ClosedAt(p, c) => end'[c][High] # "queued"
      BY <2>1 DEF ClosedAt, Gone, q
    <2>4. KeptAt(c) => end'[c][High] = end[c][High]
      BY DEF KeptAt
    <2> HIDE DEF c
    <2>5. CASE end[c][High] = "queued"
      BY <2>1, <2>2, <2>3, <2>4, <2>5 DEF c
    <2>6. CASE end[c][High] # "queued"
      <3>1. acceptq' = <<>>
        BY <2>1, <2>2, <2>6
      <3>2. end'[c][High] # "queued"
        BY <1>3, <2>1, <2>3, <2>4, <2>6
      <3> QED BY <3>1, <3>2 DEF c
    <2> QED BY <2>5, <2>6
  <1>c. \A r \in Peer : FlagsOfState(r)'
    BY <1>0, <1>1, <1>5 DEF FlagsOfState, AgreementInv
  <1>d. HeardWasSaid'
    <2>1. ASSUME NEW c \in Conn, Heard(p, c)' PROVE Spoke(q, c)'
      <3>1. ch'[c][p] # <<>>
        BY <1>1, <1>5, <2>1 DEF Heard
      <3>2. KeptAt(c)
        BY <1>3, <3>1 DEF ClosedAt
      <3>3. Heard(p, c)
        BY <3>1, <3>2 DEF Heard, KeptAt
      <3>4. Spoke(q, c)
        BY <3>3 DEF AgreementInv, HeardWasSaid, q
      <3> QED BY <1>1, <3>2, <3>4 DEF Spoke, KeptAt
    <2>2. ASSUME NEW c \in Conn, Heard(q, c)' PROVE Spoke(p, c)'
      <3>1. Heard(q, c)
        BY <1>1, <1>3, <2>2 DEF Heard, KeptAt, ClosedAt, q
      <3>2. Spoke(p, c)
        BY <1>0, <3>1 DEF AgreementInv, HeardWasSaid
      <3>3. CASE Gone(end[c][p])
        BY <1>3, <3>3 DEF Spoke, KeptAt, Gone
      <3>4. CASE sock[p] = c
        <4>1. ClosedAt(p, c)
          BY <1>2, <1>4, <3>4
        <4>2. ~Gone(end[c][q])
          BY <1>1, <1>2, <2>2, <4>1 DEF Heard, ClosedAt, Gone, q
        <4> QED BY <4>1, <4>2 DEF ClosedAt, Spoke, q
      <3> QED BY <3>2, <3>3, <3>4 DEF Spoke
    <2> QED BY <1>0, <2>1, <2>2 DEF HeardWasSaid, q
  <1>e. ConnectSaid'
    <2>0. ~HasRgConnect(<<>>)
      BY DEF HasRgConnect
    <2>1. ASSUME NEW c \in Conn, HasRgConnect(ch'[c][p])
          PROVE  Gone(end'[c][q]) \/ (sock'[q] = c /\ csm'[q].pcap)
      <3>1. KeptAt(c)
        BY <1>3, <2>0, <2>1 DEF ClosedAt
      <3> QED BY <1>1, <2>1, <3>1 DEF AgreementInv, ConnectSaid, KeptAt, q
    <2>2. ASSUME NEW c \in Conn, HasRgConnect(ch'[c][q])
          PROVE  Gone(end'[c][p]) \/ (sock'[p] = c /\ csm'[p].pcap)
      <3>1. ch'[c][q] = ch[c][q] /\ (ClosedAt(p, c) => Gone(end'[c][p]))
        BY <1>3, <2>0, <2>2 DEF KeptAt, ClosedAt, q
      <3>2. Gone(end[c][p]) \/ sock[p] = c
        BY <1>0, <2>2, <3>1 DEF AgreementInv, ConnectSaid
      <3> QED BY <1>2, <1>3, <1>4, <3>1, <3>2 DEF KeptAt
    <2> QED BY <1>0, <2>1, <2>2 DEF ConnectSaid, q
  <1>f. HeardHolds'
    BY <1>0, <1>1 DEF HeardHolds
  <1>g. ConnectTold'
    BY <1>0, <1>1, <1>5 DEF AgreementInv, ConnectTold
  <1> QED BY <1>a, <1>b, <1>c, <1>d, <1>e, <1>f, <1>g DEF AgreementInv

-----------------------------------------------------------------------------
(* Opening and accepting a connection. *)

(* Two CSMs that differ at most in their role. *)
Alike(i, j) == /\ i.state = j.state /\ i.status = j.status /\ i.queue = j.queue
               /\ i.scap = j.scap /\ i.pcap = j.pcap /\ i.srg = j.srg /\ i.prg = j.prg

LEMMA RoleStep ==
    ASSUME AgreementInv, UNCHANGED <<sock, end, ch, acceptq>>,
           \A p \in Peer : Alike(csm'[p], csm[p])
    PROVE  AgreementInv'
  <1>0. Low \in Peer /\ High \in Peer /\ \A p \in Peer : Other(p) \in Peer
    BY TwoPeers DEF Peer
  <1>1. EndsInUse' /\ LatestQueued'
    BY DEF AgreementInv, EndsInUse, LatestQueued
  <1>2. \A p \in Peer : FlagsOfState(p)'
    BY DEF AgreementInv, FlagsOfState, Alike
  <1>3. \A p \in Peer, c \in Conn : /\ Heard(p, c)' <=> Heard(p, c)
                                    /\ Spoke(p, c)' <=> Spoke(p, c)
    BY DEF Heard, Spoke, Alike
  <1>4. HeardWasSaid'
    BY <1>0, <1>3 DEF AgreementInv, HeardWasSaid
  <1>5. ConnectSaid'
    BY <1>0 DEF AgreementInv, ConnectSaid, Alike
  <1>6. HeardHolds'
    BY <1>0 DEF AgreementInv, HeardHolds, Heard, Alike
  <1>7. ConnectTold'
    BY <1>0 DEF AgreementInv, ConnectTold, ConnectToCome, Alike
  <1> QED BY <1>1, <1>2, <1>4, <1>5, <1>6, <1>7 DEF AgreementInv

(* The last element of a queue, once an element is appended and once the   *)
(* first is removed.                                                       *)
LEMMA LastSteps ==
    ASSUME NEW S, NEW s \in Seq(S)
    PROVE  /\ \A e \in S : Append(s, e) # <<>> /\ Append(s, e)[Len(Append(s, e))] = e
           /\ s # <<>> => IF Len(s) = 1 THEN Tail(s) = <<>>
                          ELSE Tail(s) # <<>> /\ Tail(s)[Len(Tail(s))] = s[Len(s)]
  <1>1. ASSUME NEW e \in S
        PROVE  Append(s, e) # <<>> /\ Append(s, e)[Len(Append(s, e))] = e
    <2>1. /\ Append(s, e) \in Seq(S) /\ Len(Append(s, e)) = Len(s) + 1
          /\ Append(s, e)[Len(s) + 1] = e /\ Len(s) \in Nat
      BY AppendProperties, LenProperties
    <2> QED BY <2>1, EmptySeq
  <1>2. ASSUME s # <<>>
        PROVE  IF Len(s) = 1 THEN Tail(s) = <<>>
               ELSE Tail(s) # <<>> /\ Tail(s)[Len(Tail(s))] = s[Len(s)]
    <2>1. /\ Len(s) \in Nat \ {0} /\ Tail(s) \in Seq(S) /\ Len(Tail(s)) = Len(s) - 1
          /\ \A n \in 1..Len(Tail(s)) : Tail(s)[n] = s[n + 1]
      BY <1>2, HeadTailProperties, EmptySeq
    <2>2. CASE Len(s) = 1
      <3>1. Len(Tail(s)) = 0
        BY <2>1, <2>2
      <3>2. Tail(s) = <<>>
        BY <2>1, <3>1, EmptySeq
      <3> QED BY <2>2, <3>2
    <2>3. CASE Len(s) # 1
      <3>1. Len(Tail(s)) \in 1..Len(Tail(s)) /\ Len(Tail(s)) + 1 = Len(s)
        BY <2>1, <2>3
      <3>2. Tail(s)[Len(Tail(s))] = s[Len(s)]
        BY <2>1, <3>1
      <3>3. Tail(s) # <<>>
        <4>1. Len(Tail(s)) # 0
          BY <2>1, <2>3
        <4>2. Len(<<>>) = 0
          BY EmptySeq
        <4> QED BY <4>1, <4>2, Zenon
      <3> QED BY <2>3, <3>2, <3>3
    <2> QED BY <2>2, <2>3
  <1> QED BY <1>1, <1>2

(* The last connection of the listen queue once the first has left it. *)
LEMMA ListenQueueTail ==
    ASSUME TypeOK, ListenQueue, acceptq # <<>>
    PROVE  /\ Head(acceptq) \in Conn /\ Tail(acceptq) \in Seq(Conn)
           /\ end[Head(acceptq)][High] = "queued"
           /\ IF acceptq[Len(acceptq)] = Head(acceptq)
              THEN Tail(acceptq) = <<>>
              ELSE Tail(acceptq) # <<>> /\ Tail(acceptq)[Len(Tail(acceptq))] = acceptq[Len(acceptq)]
  <1>1. acceptq \in Seq(Conn) /\ Len(acceptq) \in Nat \ {0}
    BY EmptySeq DEF TypeOK
  <1>2. Head(acceptq) = acceptq[1]
    BY <1>1
  <1>3. /\ Head(acceptq) \in Conn /\ Tail(acceptq) \in Seq(Conn)
        /\ end[Head(acceptq)][High] = "queued"
    BY <1>1, <1>2, HeadTailProperties DEF ListenQueue
  <1>4. Len(acceptq) # 1 => acceptq[Len(acceptq)] # Head(acceptq)
    <2>1. 1 \in 1..Len(acceptq) /\ Len(acceptq) \in 1..Len(acceptq)
      BY <1>1
    <2> QED BY <1>2, <2>1 DEF ListenQueue
  <1> QED BY <1>1, <1>2, <1>3, <1>4, LastSteps

LEMMA AgreementConnect ==
    ASSUME TypeOK, SocketInv, AgreementInv, NEW c \in Conn, Connect(c)
    PROVE  AgreementInv'
  <1>0. /\ Low \in Peer /\ High \in Peer /\ Low # High /\ Peer = {Low, High}
        /\ Other(Low) = High /\ Other(High) = Low
    BY PeerAssumption DEF Peer, Other
  <1>1. /\ sock[Low] = NoConn /\ end[c][Low] = "none" /\ end[c][High] = "none"
        /\ csm[Low].state = "NONEXISTENT" /\ csm[Low] \in Csm
    BY <1>0 DEF Connect, TypeOK, SocketInv, StateNeedsSocket
  <1>2. /\ ~csm[Low].pcap /\ ~csm[Low].prg /\ ~csm[Low].srg /\ csm[Low].queue = <<>>
        /\ ch[c][Low] = <<>> /\ ch[c][High] = <<>>
    BY <1>0, <1>1 DEF AgreementInv, FlagsOfState, EndsInUse
  <1>3. sock[High] # c /\ c # NoConn
    BY <1>0, <1>1, ConnAssumption DEF SocketInv, SocketsOpen
  <1>4. /\ sock'[Low] = c /\ sock'[High] = sock[High]
        /\ csm'[High] = csm[High]
        /\ end'[c][Low] = "open" /\ end'[c][High] = "queued"
        /\ \A d \in Conn : d # c => end'[d] = end[d]
        /\ ch' = ch /\ acceptq' = Append(acceptq, c)
    BY <1>0, <1>3 DEF Connect, TypeOK
  <1>5. /\ csm'[Low].state = "INITIALIZED" /\ csm'[Low].scap
        /\ ~csm'[Low].pcap /\ ~csm'[Low].prg /\ ~csm'[Low].srg
        /\ csm'[Low].queue = <<>> /\ csm'[Low].status = csm[Low].status
    <2> DEFINE i == [csm[Low] EXCEPT !.state = "INITIALIZED", !.role = CheckedRole(Low)]
    <2>1. csm'[Low] = Entered(i)
      BY <1>0 DEF Connect, TypeOK
    <2> QED BY <1>1, <1>2, <2>1 DEF Entered, Csm
  <1>6. ~Heard(Low, c)'
    BY <1>2, <1>4, <1>5 DEF Heard
  <1>7. EndsInUse'
    <2> SUFFICES ASSUME NEW d \in Conn
                 PROVE  /\ end'[d][Low] = "none" <=> end'[d][High] = "none"
                        /\ \A p \in Peer :
                              /\ end'[d][p] = "open" => sock'[p] = d
                              /\ ch'[d][p] # <<>> => end'[d][p] \in {"open", "queued"}
      BY DEF EndsInUse
    <2>1. CASE d = c
      BY <1>0, <1>2, <1>4, <2>1
    <2>2. CASE d # c
      <3>1. end[d][Low] # "open"
        BY <1>0, <1>1, ConnAssumption DEF AgreementInv, EndsInUse
      <3> QED BY <1>0, <1>4, <2>2, <3>1 DEF AgreementInv, EndsInUse
    <2> QED BY <2>1, <2>2
  <1>8. LatestQueued'
    <2>0. acceptq \in Seq(Conn)
      BY DEF TypeOK
    <2>1. acceptq' # <<>> /\ acceptq'[Len(acceptq')] = c
      BY <1>4, <2>0, LastSteps
    <2> QED BY <1>4, <2>1 DEF LatestQueued
  <1>9. \A p \in Peer : FlagsOfState(p)'
    BY <1>0, <1>3, <1>4, <1>5 DEF AgreementInv, FlagsOfState
  <1>10. ASSUME NEW d \in Conn, d # c
         PROVE  /\ Heard(Low, d)' => Spoke(High, d)'
                /\ Heard(High, d)' => Spoke(Low, d)'
    <2>1. /\ Heard(Low, d) => Spoke(High, d)
          /\ Heard(High, d) => Spoke(Low, d)
      BY <1>0 DEF AgreementInv, HeardWasSaid
    <2>2. sock[Low] # d
      BY <1>1, ConnAssumption
    <2> QED BY <1>4, <1>10, <2>1, <2>2 DEF Heard, Spoke
  <1>11. ~Heard(High, c)'
    BY <1>2, <1>3, <1>4 DEF Heard
  <1>12. HeardWasSaid'
    BY <1>0, <1>6, <1>10, <1>11 DEF HeardWasSaid
  <1>13. ConnectSaid'
    <2>1. ~HasRgConnect(<<>>)
      BY DEF HasRgConnect
    <2>2. ASSUME NEW p \in Peer, NEW d \in Conn, HasRgConnect(ch'[d][p])
          PROVE  \/ Gone(end'[d][Other(p)])
                 \/ sock'[Other(p)] = d /\ csm'[Other(p)].pcap
      <3>1. d # c
        BY <1>0, <1>2, <1>4, <2>1, <2>2
      <3>2. Gone(end[d][Other(p)]) \/ (sock[Other(p)] = d /\ csm[Other(p)].pcap)
        BY <1>4, <2>2 DEF AgreementInv, ConnectSaid
      <3> QED BY <1>0, <1>2, <1>4, <3>1, <3>2
    <2> QED BY <2>2 DEF ConnectSaid
  <1>14. HeardHolds'
    BY <1>4, <1>6 DEF HeardHolds
  <1>15. ConnectTold'
    BY <1>0, <1>3, <1>4, <1>5 DEF AgreementInv, ConnectTold
  <1> QED BY <1>7, <1>8, <1>9, <1>12, <1>13, <1>14, <1>15 DEF AgreementInv

LEMMA AgreementAccept ==
    ASSUME TypeOK, SocketInv, AgreementInv, Accept
    PROVE  AgreementInv'
  <1> DEFINE c == Head(acceptq)
  <1>0. /\ Low \in Peer /\ High \in Peer /\ Low # High /\ Peer = {Low, High}
        /\ Other(Low) = High /\ Other(High) = Low
    BY PeerAssumption DEF Peer, Other
  <1>1. /\ c \in Conn /\ end[c][High] = "queued" /\ acceptq # <<>>
        /\ IF acceptq[Len(acceptq)] = c
           THEN Tail(acceptq) = <<>>
           ELSE Tail(acceptq) # <<>> /\ Tail(acceptq)[Len(Tail(acceptq))] = acceptq[Len(acceptq)]
    BY ListenQueueTail DEF Accept, SocketInv
  <1>2. /\ sock[High] = NoConn /\ csm[High].state = "NONEXISTENT" /\ csm[High] \in Csm
    BY <1>0 DEF Accept, SocketInv, StateNeedsSocket, TypeOK
  <1>3. /\ ~csm[High].pcap /\ ~csm[High].prg /\ csm[High].queue = <<>>
    BY <1>0, <1>2 DEF AgreementInv, FlagsOfState
  <1>4. /\ sock'[High] = c /\ sock'[Low] = sock[Low]
        /\ csm'[Low] = csm[Low] /\ Alike(csm'[High], csm[High])
        /\ end'[c][High] = "open" /\ end'[c][Low] = end[c][Low]
        /\ \A d \in Conn : d # c => end'[d] = end[d]
        /\ ch' = ch /\ acceptq' = Tail(acceptq)
    <2>1. csm'[High] = [csm[High] EXCEPT !.state = "NONEXISTENT", !.role = CheckedRole(High)]
      BY <1>0 DEF Accept, TypeOK
    <2>2. Alike(csm'[High], csm[High])
      BY <1>2, <2>1 DEF Alike, Csm
    <2> QED BY <1>0, <1>1, <2>2 DEF Accept, TypeOK
  <1> HIDE DEF c
  <1>5. \A d \in Conn : d # NoConn /\ (end[d][Low] = "open" <=> sock[Low] = d)
    BY <1>0, ConnAssumption DEF AgreementInv, EndsInUse, SocketInv, SocketsOpen
  <1>6. /\ \A d \in Conn : Heard(High, d)' <=> Heard(High, d)
        /\ \A d \in Conn : Heard(Low, d)' <=> Heard(Low, d)
    <2>1. \A d \in Conn : d # NoConn
      BY ConnAssumption
    <2> QED BY <1>2, <1>3, <1>4, <2>1 DEF Heard, Alike
  <1>7. \A d \in Conn : Heard(Low, d) => d # c /\ Gone(end[d][High])
    BY <1>0, <1>1, <1>2, <1>5 DEF AgreementInv, HeardWasSaid, Spoke, Gone
  <1>8. sock[Low] # NoConn =>
            /\ end[sock[Low]][High] = "queued" /\ acceptq[Len(acceptq)] = sock[Low]
            /\ ~Heard(Low, sock[Low])
    <2>1. sock[Low] # NoConn => sock[Low] \in Conn
      BY <1>0 DEF TypeOK
    <2> QED BY <1>1, <1>7, <2>1 DEF AgreementInv, LatestQueued, Gone
  <1>9. EndsInUse'
    BY <1>0, <1>1, <1>2, <1>4, <1>5 DEF AgreementInv, EndsInUse
  <1>10. LatestQueued'
    <2> SUFFICES ASSUME sock[Low] # NoConn
                 PROVE  IF end'[sock[Low]][High] = "queued"
                        THEN acceptq' # <<>> /\ acceptq'[Len(acceptq')] = sock[Low]
                        ELSE acceptq' = <<>>
      BY <1>4 DEF LatestQueued
    <2>1. sock[Low] \in Conn
      BY <1>0 DEF TypeOK
    <2> QED BY <1>1, <1>4, <1>8, <2>1
  <1>11. \A p \in Peer : FlagsOfState(p)'
    BY <1>0, <1>2, <1>3, <1>4 DEF AgreementInv, FlagsOfState, Alike
  <1>12. HeardWasSaid'
    <2>1. \A d \in Conn : Heard(High, d) => Spoke(Low, d)
      BY <1>0 DEF AgreementInv, HeardWasSaid
    <2>2. \A d \in Conn : Spoke(Low, d) => Spoke(Low, d)'
      BY <1>1, <1>4 DEF Spoke
    <2>3. \A d \in Conn : Heard(Low, d)' => Spoke(High, d)'
      BY <1>4, <1>6, <1>7 DEF Spoke
    <2> QED BY <1>0, <1>6, <2>1, <2>2, <2>3 DEF HeardWasSaid
  <1>13. ConnectSaid'
    <2>1. ASSUME NEW d \in Conn, HasRgConnect(ch'[d][High])
          PROVE  Gone(end'[d][Low]) \/ (sock'[Low] = d /\ csm'[Low].pcap)
      BY <1>0, <1>4, <2>1 DEF AgreementInv, ConnectSaid
    <2>2. ASSUME NEW d \in Conn, HasRgConnect(ch'[d][Low])
          PROVE  Gone(end'[d][High])
      <3>1. Gone(end[d][High])
        BY <1>0, <1>2, <1>4, <1>5, <2>2 DEF AgreementInv, ConnectSaid
      <3> QED BY <1>1, <1>4, <3>1 DEF Gone
    <2> QED BY <1>0, <2>1, <2>2 DEF ConnectSaid
  <1>14. HeardHolds'
    <2>1. sock[Low] # NoConn => sock[Low] \in Conn
      BY <1>0 DEF TypeOK
    <2> QED BY <1>4, <1>6, <1>8, <2>1 DEF HeardHolds
  <1>15. ConnectTold'
    <2> SUFFICES ASSUME RgId[Low] = RgId[High]
                 PROVE  /\ ~csm'[Low].status /\ ~csm'[High].status
                        /\ sock[Low] = c =>
                              /\ ~ConnectToCome(Low)' /\ ~ConnectToCome(High)'
                              /\ csm'[Low].state \notin {"CONNECTING", "OPERATIONAL"}
                              /\ csm'[High].state \notin {"CONNECTING", "OPERATIONAL"}
      BY <1>0, <1>4 DEF ConnectTold
    <2>1. ~csm'[Low].status /\ ~csm'[High].status
      BY <1>0, <1>4 DEF AgreementInv, ConnectTold, Alike
    <2>2. ASSUME sock[Low] = c
          PROVE  /\ ~ConnectToCome(Low)' /\ ~ConnectToCome(High)'
                 /\ csm'[Low].state \notin {"CONNECTING", "OPERATIONAL"}
      <3>1. ~Heard(Low, c) /\ end[c][Low] = "open"
        BY <1>1, <1>5, <1>8, <2>2
      <3>2. /\ ch[c][Low] = <<>> /\ csm[Low].queue = <<>>
            /\ ~csm[Low].pcap /\ ~csm[Low].prg
        BY <2>2, <3>1 DEF Heard
      <3>3. ~HasRgConnect(<<>>)
        BY DEF HasRgConnect
      <3>4. ~ConnectToCome(Low)'
        BY <1>4, <2>2, <3>2, <3>3 DEF ConnectToCome
      <3>5. ~HasRgConnect(ch[c][High])
        BY <1>0, <1>1, <3>1, <3>2 DEF AgreementInv, ConnectSaid, Gone
      <3>6. ~ConnectToCome(High)'
        BY <1>3, <1>4, <3>3, <3>5 DEF ConnectToCome, Alike
      <3>7. csm[Low].state \notin {"CONNECTING", "OPERATIONAL"}
        BY <1>0, <3>2 DEF AgreementInv, FlagsOfState
      <3> QED BY <1>4, <3>4, <3>6, <3>7
    <2> QED BY <1>2, <1>4, <2>1, <2>2 DEF Alike
  <1> QED BY <1>9, <1>10, <1>11, <1>12, <1>13, <1>14, <1>15 DEF AgreementInv

(* Nothing new is heard and the sockets stay: HeardHolds stays. *)
LEMMA StillHolds ==
    ASSUME TypeOK, AgreementInv, sock' = sock,
           \A d \in Conn : Heard(Low, d)' => Heard(Low, d)
    PROVE  HeardHolds'
  <1>1. Low \in Peer
    BY DEF Peer
  <1>2. sock[Low] # NoConn => sock[Low] \in Conn
    BY <1>1 DEF TypeOK
  <1>3. \A d \in Conn : sock[Low] = d /\ Heard(Low, d)' => sock[High] \in {d, NoConn}
    BY ConnAssumption DEF AgreementInv, HeardHolds
  <1> QED BY <1>2, <1>3 DEF HeardHolds, Heard

LEMMA AgreementReject ==
    ASSUME TypeOK, SocketInv, AgreementInv, Reject
    PROVE  AgreementInv'
  <1> DEFINE c == Head(acceptq)
  <1>0. /\ Low \in Peer /\ High \in Peer /\ Low # High /\ Peer = {Low, High}
        /\ Other(Low) = High /\ Other(High) = Low
    BY PeerAssumption DEF Peer, Other
  <1>1. /\ c \in Conn /\ end[c][High] = "queued" /\ acceptq # <<>>
        /\ IF acceptq[Len(acceptq)] = c
           THEN Tail(acceptq) = <<>>
           ELSE Tail(acceptq) # <<>> /\ Tail(acceptq)[Len(Tail(acceptq))] = acceptq[Len(acceptq)]
    BY ListenQueueTail DEF Reject, SocketInv
  <1>2. \A p \in Peer : Alike(csm'[p], csm[p])
    <2>1. csm[High] \in Csm /\ csm \in [Peer -> Csm]
      BY <1>0 DEF TypeOK
    <2>2. csm' = csm \/ csm' = [csm EXCEPT ![High].role = CheckedRole(High)]
      BY DEF Reject
    <2> QED BY <1>0, <2>1, <2>2 DEF Alike, Csm
  <1>3. /\ sock' = sock /\ acceptq' = Tail(acceptq)
        /\ \A d \in Conn : d # c => KeptAt(d)
        /\ end'[c] = EndsAfter(c, High, "closed") /\ ch'[c] = ChAfter(c, High)
    BY <1>1 DEF Reject, TypeOK, KeptAt
  <1> HIDE DEF c
  <1>4. ClosedAt(High, c)
    BY <1>0, <1>1, <1>3, EndsClose
  <1>5. \A d \in Conn : /\ d # NoConn
                        /\ \A p \in Peer : end[d][p] = "open" <=> sock[p] = d
    BY <1>0, ConnAssumption DEF AgreementInv, EndsInUse, SocketInv, SocketsOpen
  <1>6. /\ sock[High] # c /\ end'[c][High] # "queued"
        /\ end'[c][Low] = end[c][Low] \/ Gone(end[c][Low])
        /\ end[c][Low] = "open" => end'[c][Low] = "open" /\ Gone(end'[c][High])
        /\ ch'[c][High] = <<>> /\ (ch'[c][Low] = <<>> \/ ch'[c][Low] = ch[c][Low])
    BY <1>0, <1>1, <1>4, <1>5 DEF ClosedAt, Gone
  <1>7. EndsInUse'
    <2> SUFFICES ASSUME NEW d \in Conn
                 PROVE  /\ end'[d][Low] = "none" <=> end'[d][High] = "none"
                        /\ \A p \in Peer :
                              /\ end'[d][p] = "open" => sock[p] = d
                              /\ ch'[d][p] # <<>> => end'[d][p] \in {"open", "queued"}
      BY <1>3 DEF EndsInUse
    <2>1. CASE d = c
      <3>1. end[c][Low] # "none" /\ (ch[c][Low] # <<>> => end[c][Low] \in {"open", "queued"})
        BY <1>0, <1>1 DEF AgreementInv, EndsInUse
      <3> QED BY <1>0, <1>4, <1>5, <2>1, <3>1 DEF ClosedAt, Gone
    <2>2. CASE d # c
      BY <1>3, <2>2 DEF AgreementInv, EndsInUse, KeptAt
    <2> QED BY <2>1, <2>2
  <1>8. LatestQueued'
    <2> SUFFICES ASSUME sock[Low] # NoConn
                 PROVE  IF end'[sock[Low]][High] = "queued"
                        THEN acceptq' # <<>> /\ acceptq'[Len(acceptq')] = sock[Low]
                        ELSE acceptq' = <<>>
      BY <1>3 DEF LatestQueued
    <2>1. sock[Low] \in Conn
      BY <1>0 DEF TypeOK
    <2>2. end[sock[Low]][High] = "queued" /\ acceptq[Len(acceptq)] = sock[Low]
      BY <1>1 DEF AgreementInv, LatestQueued
    <2> QED BY <1>1, <1>3, <1>6, <2>1, <2>2 DEF KeptAt
  <1>9. \A p \in Peer : FlagsOfState(p)'
    BY <1>2, <1>3 DEF AgreementInv, FlagsOfState, Alike
  <1>10. \A p \in Peer, d \in Conn : Heard(p, d)' => Heard(p, d)
    BY <1>0, <1>2, <1>3, <1>6 DEF Heard, KeptAt, Alike
  <1>11. \A d \in Conn : Spoke(High, d) => Spoke(High, d)'
    BY <1>0, <1>1, <1>2, <1>3, <1>6 DEF Spoke, KeptAt, Alike, Gone
  <1>12. \A d \in Conn : Heard(High, d)' => d # c
    BY <1>0, <1>2, <1>3, <1>6 DEF Heard
  <1>13. \A d \in Conn : d # c /\ Spoke(Low, d) => Spoke(Low, d)'
    BY <1>0, <1>2, <1>3 DEF Spoke, KeptAt, Alike
  <1>14. HeardWasSaid'
    BY <1>0, <1>10, <1>11, <1>12, <1>13 DEF AgreementInv, HeardWasSaid
  <1>15. ConnectSaid'
    <2>0. ~HasRgConnect(<<>>)
      BY DEF HasRgConnect
    <2>1. ASSUME NEW d \in Conn, HasRgConnect(ch'[d][High])
          PROVE  Gone(end'[d][Low]) \/ (sock'[Low] = d /\ csm'[Low].pcap)
      <3>1. d # c /\ KeptAt(d)
        BY <1>3, <1>6, <2>0, <2>1
      <3> QED BY <1>0, <1>2, <1>3, <2>1, <3>1 DEF AgreementInv, ConnectSaid, KeptAt, Alike
    <2>2. ASSUME NEW d \in Conn, HasRgConnect(ch'[d][Low])
          PROVE  Gone(end'[d][High]) \/ (sock'[High] = d /\ csm'[High].pcap)
      <3>1. HasRgConnect(ch[d][Low])
        BY <1>3, <1>6, <2>0, <2>2 DEF KeptAt
      <3>2. Gone(end[d][High]) \/ (sock[High] = d /\ csm[High].pcap)
        BY <1>0, <3>1 DEF AgreementInv, ConnectSaid
      <3> QED BY <1>0, <1>1, <1>2, <1>3, <1>6, <3>2 DEF KeptAt, Alike, Gone
    <2> QED BY <1>0, <2>1, <2>2 DEF ConnectSaid
  <1>16. HeardHolds'
    BY <1>0, <1>3, <1>10, StillHolds
  <1>17. ConnectTold'
    <2>1. \A p \in Peer : sock[p] # NoConn /\ sock[Other(p)] = sock[p] =>
                              ch'[sock[p]] = ch[sock[p]]
      <3>1. \A p \in Peer : sock[p] # NoConn => sock[p] \in Conn
        BY DEF TypeOK
      <3> QED BY <1>0, <1>3, <1>6, <3>1 DEF KeptAt
    <2> QED BY <1>0, <1>2, <1>3, <2>1 DEF AgreementInv, ConnectTold, ConnectToCome, Alike
  <1> QED BY <1>7, <1>8, <1>9, <1>14, <1>15, <1>16, <1>17 DEF AgreementInv

-----------------------------------------------------------------------------
(* The state machine's own steps. *)

LEMMA AgreementAccepted ==
    ASSUME TypeOK, SocketInv, AgreementInv, NEW p \in Peer, TransitAccepted(p)
    PROVE  AgreementInv'
  <1> DEFINE q == Other(p)
             c == sock[p]
  <1>0. /\ q \in Peer /\ q # p /\ Other(q) = p /\ Peer = {p, q}
        /\ Low \in Peer /\ High \in Peer
    BY TwoPeers DEF Peer
  <1>1. /\ c \in Conn /\ end[c][p] = "open" /\ c # NoConn
        /\ csm[p].state = "NONEXISTENT" /\ csm[p] \in Csm
    BY ConnAssumption DEF TransitAccepted, TypeOK, SocketInv, SocketsOpen
  <1>2. ~csm[p].pcap /\ ~csm[p].prg /\ ~csm[p].srg
    BY <1>1 DEF AgreementInv, FlagsOfState
  <1>3. UNCHANGED <<sock, end, ch, acceptq>> /\ csm'[q] = csm[q]
    BY <1>0 DEF TransitAccepted, TypeOK
  <1>4. /\ csm'[p].state = "INITIALIZED" /\ csm'[p].scap
        /\ ~csm'[p].pcap /\ ~csm'[p].prg /\ ~csm'[p].srg
        /\ csm'[p].queue = <<>> /\ csm'[p].status = csm[p].status
    <2> DEFINE i == [csm[p] EXCEPT !.state = "INITIALIZED", !.role = CheckedRole(p),
                                   !.queue = <<>>]
    <2>1. csm'[p] = Entered(i)
      BY DEF TransitAccepted, TypeOK
    <2> QED BY <1>1, <1>2, <2>1 DEF Entered, Csm
  <1> HIDE DEF q, c
  <1>5. /\ \A d \in Conn : Heard(p, d)' => Heard(p, d)
        /\ \A d \in Conn : Heard(q, d)' <=> Heard(q, d)
        /\ \A d \in Conn : Spoke(q, d)' <=> Spoke(q, d)
        /\ \A d \in Conn : Spoke(p, d)' <=> Spoke(p, d)
    BY <1>1, <1>3, <1>4 DEF Heard, Spoke
  <1>6. ~Heard(q, c)
    <2>1. ~Spoke(p, c)
      BY <1>1 DEF Spoke, Gone
    <2> QED BY <1>0, <1>1, <2>1 DEF AgreementInv, HeardWasSaid
  <1>7. EndsInUse' /\ LatestQueued'
    BY <1>3 DEF AgreementInv, EndsInUse, LatestQueued
  <1>8. \A r \in Peer : FlagsOfState(r)'
    BY <1>0, <1>1, <1>3, <1>4 DEF AgreementInv, FlagsOfState, c
  <1>9. HeardWasSaid'
    BY <1>0, <1>5 DEF AgreementInv, HeardWasSaid, q
  <1>10. ConnectSaid'
    BY <1>0, <1>2, <1>3, <1>4 DEF AgreementInv, ConnectSaid, q
  <1>11. HeardHolds'
    BY <1>0, <1>3, <1>5, StillHolds
  <1>12. ConnectTold'
    <2> SUFFICES ASSUME RgId[Low] = RgId[High]
                 PROVE  /\ ~csm'[p].status /\ ~csm'[q].status
                        /\ sock[q] = c =>
                              /\ ~ConnectToCome(p)' /\ ~ConnectToCome(q)'
                              /\ csm'[p].state \notin {"CONNECTING", "OPERATIONAL"}
                              /\ csm'[q].state \notin {"CONNECTING", "OPERATIONAL"}
      BY <1>0, <1>3 DEF ConnectTold, q, c
    <2>1. ~csm[p].status /\ ~csm[q].status
      BY <1>0 DEF AgreementInv, ConnectTold
    <2>2. ASSUME sock[q] = c
          PROVE  /\ ~ConnectToCome(p)' /\ ~ConnectToCome(q)'
                 /\ csm[q].state \notin {"CONNECTING", "OPERATIONAL"}
      <3>1. csm[q].state \notin {"CONNECTING", "OPERATIONAL"}
        BY <1>0, <1>6, <2>2 DEF AgreementInv, FlagsOfState, Heard
      <3>2. ~ConnectToCome(p) /\ ~ConnectToCome(q)
        BY <1>0, <1>1, <2>2, <3>1 DEF AgreementInv, ConnectTold, q, c
      <3>3. ~HasRgConnect(<<>>)
        BY DEF HasRgConnect
      <3> QED BY <1>3, <1>4, <3>1, <3>2, <3>3 DEF ConnectToCome
    <2> QED BY <1>3, <1>4, <2>1, <2>2
  <1> QED BY <1>7, <1>8, <1>9, <1>10, <1>11, <1>12 DEF AgreementInv

LEMMA AgreementRead ==
    ASSUME TypeOK, SocketInv, AgreementInv, NEW p \in Peer, Read(p)
    PROVE  AgreementInv'
  <1> DEFINE q == Other(p)
             c == sock[p]
             m == Head(ch[c][p])
  <1>0. /\ q \in Peer /\ q # p /\ Other(q) = p /\ Peer = {p, q}
        /\ Low \in Peer /\ High \in Peer
    BY TwoPeers DEF Peer
  <1>1. /\ c \in Conn /\ end[c][p] = "open" /\ c # NoConn
        /\ ch[c][p] # <<>> /\ ch[c][p] \in Seq(Msg)
        /\ csm[p] \in Csm /\ csm[p].queue \in Seq(Msg)
    BY ConnAssumption DEF Read, TypeOK, SocketInv, SocketsOpen, Csm
  <1>2. UNCHANGED <<sock, end, acceptq>> /\ csm'[q] = csm[q]
    BY <1>0 DEF Read, TypeOK
  <1>3. /\ csm'[p] = [csm[p] EXCEPT !.queue = Append(csm[p].queue, m)]
        /\ ch'[c][p] = Tail(ch[c][p]) /\ ch'[c][q] = ch[c][q]
        /\ \A d \in Conn : d # c => ch'[d] = ch[d]
    BY <1>0, <1>1 DEF Read, TypeOK
  <1> HIDE DEF q, c, m
  <1>4. /\ csm'[p].state = csm[p].state /\ csm'[p].status = csm[p].status
        /\ csm'[p].scap = csm[p].scap /\ csm'[p].pcap = csm[p].pcap
        /\ csm'[p].srg = csm[p].srg /\ csm'[p].prg = csm[p].prg
        /\ csm'[p].queue = Append(csm[p].queue, m)
    BY <1>1, <1>3 DEF Csm
  <1>5. /\ HasRgConnect(csm'[p].queue) <=> HasRgConnect(csm[p].queue) \/ m.type = "RG_CONNECT"
        /\ HasRgConnect(ch[c][p]) <=> m.type = "RG_CONNECT" \/ HasRgConnect(ch'[c][p])
    <2>1. m \in Msg
      BY <1>1, QueueSteps DEF m
    <2> QED BY <1>1, <1>3, <1>4, <2>1, RgConnectSteps DEF m
  <1>6. /\ \A d \in Conn : Heard(p, d)' => Heard(p, d)
        /\ \A d \in Conn : Heard(q, d)' <=> Heard(q, d)
        /\ \A d \in Conn : Spoke(q, d)' <=> Spoke(q, d)
        /\ \A d \in Conn : Spoke(p, d)' <=> Spoke(p, d)
    BY <1>1, <1>2, <1>3, <1>4 DEF Heard, Spoke, c
  <1>7. EndsInUse'
    BY <1>0, <1>1, <1>2, <1>3 DEF AgreementInv, EndsInUse
  <1>8. LatestQueued'
    BY <1>2 DEF AgreementInv, LatestQueued
  <1>9. \A r \in Peer : FlagsOfState(r)'
    BY <1>0, <1>1, <1>2, <1>4 DEF AgreementInv, FlagsOfState, c
  <1>10. HeardWasSaid'
    BY <1>0, <1>6 DEF AgreementInv, HeardWasSaid, q
  <1>11. ConnectSaid'
    <2>1. \A r \in Peer, d \in Conn : HasRgConnect(ch'[d][r]) => HasRgConnect(ch[d][r])
      BY <1>0, <1>3, <1>5
    <2> QED BY <1>0, <1>2, <1>4, <2>1 DEF AgreementInv, ConnectSaid, q
  <1>12. HeardHolds'
    BY <1>0, <1>2, <1>6, StillHolds
  <1>13. ConnectTold'
    <2>1. ConnectToCome(p)' <=> ConnectToCome(p)
      BY <1>2, <1>4, <1>5 DEF ConnectToCome, c
    <2>2. sock[q] = c => (ConnectToCome(q)' <=> ConnectToCome(q))
      BY <1>2, <1>3 DEF ConnectToCome
    <2> QED BY <1>0, <1>2, <1>4, <2>1, <2>2 DEF AgreementInv, ConnectTold, q, c
  <1> QED BY <1>7, <1>8, <1>9, <1>10, <1>11, <1>12, <1>13 DEF AgreementInv

(* What handling the message at the head of the queue does to the flags. *)
LEMMA ReceivedFlags ==
    ASSUME TypeOK, NEW p \in Peer
    PROVE  LET i == csm[p]
               r == Received(p)
           IN  /\ r.state = i.state /\ r.scap = i.scap /\ r.srg = i.srg
               /\ i.pcap => r.pcap
               /\ r.pcap => i.pcap \/ i.queue # <<>>
               /\ r.prg <=> i.prg \/ (i.queue # <<>> /\ Head(i.queue).type = "RG_CONNECT")
               /\ r.queue = IF i.queue = <<>> THEN <<>> ELSE Tail(i.queue)
               /\ AllFromPeer(p, i.queue) /\ RgId[p] = RgId[Other(p)] /\ ~i.status => ~r.status
  <1> DEFINE i == csm[p]
             r == Received(p)
             m == Head(i.queue)
             l == Correspond(p, i, m)
  <1>1. i \in Csm /\ i.queue \in Seq(Msg)
    BY DEF TypeOK, Csm
  <1>2. CASE i.queue = <<>>
    BY <1>1, <1>2 DEF Received, Csm
  <1>3. CASE i.queue # <<>>
    <2>1. m \in Msg /\ (AllFromPeer(p, i.queue) => FromPeer(p, m)) /\ Tail(i.queue) \in Seq(Msg)
      BY <1>1, <1>3, QueueSteps, AllFromPeerSteps
    <2>2. r = [l EXCEPT !.queue = Tail(i.queue)]
      <3>1. l.queue = i.queue
        BY <1>1, <2>1, CorrespondIsCsm
      <3> QED BY <1>3, <3>1 DEF Received
    <2>3. l \in Csm
      BY <1>1, <2>1, CorrespondIsCsm
    <2> HIDE DEF m
    <2>4. /\ l.state = i.state /\ l.scap = i.scap /\ l.srg = i.srg
          /\ i.pcap => l.pcap
          /\ l.prg <=> i.prg \/ m.type = "RG_CONNECT"
          /\ FromPeer(p, m) /\ RgId[p] = RgId[Other(p)] /\ ~i.status => ~l.status
      <3>1. CASE m.type = "CAP"
        BY <1>1, <2>1, <3>1 DEF Correspond, CheckId, Csm, Msg
      <3>2. CASE m.type = "RG_CONNECT"
        BY <1>1, <3>2 DEF Correspond, CheckId, Csm, FromPeer
      <3>3. CASE m.type \notin {"CAP", "RG_CONNECT"}
        BY <1>1, <3>3 DEF Correspond, CheckId, Csm, FromPeer
      <3> QED BY <3>1, <3>2, <3>3
    <2> HIDE DEF l
    <2> HIDE DEF r
    <2>5. /\ r.state = l.state /\ r.scap = l.scap /\ r.srg = l.srg /\ r.pcap = l.pcap
          /\ r.prg = l.prg /\ r.status = l.status /\ r.queue = Tail(i.queue)
      BY <2>2, <2>3 DEF Csm
    <2> QED BY <1>3, <2>1, <2>4, <2>5 DEF m, r
  <1> QED BY <1>2, <1>3

(* The flags and the state after a transit, in terms of those before it. *)
FlagsAfter(i, t) ==
    /\ t.state \notin {"NONEXISTENT", "INITIALIZED"}
    /\ t.scap
    /\ t.state \in {"CAPREC", "CONNECTING", "OPERATIONAL"} => t.pcap
    /\ t.state = "CONNECTING" /\ ~t.status => ~t.prg
    /\ t.state = "OPERATIONAL" => t.srg /\ t.prg
    /\ i.pcap => t.pcap
    /\ t.pcap => i.pcap \/ i.queue # <<>>
    /\ t.prg <=> i.prg \/ (i.queue # <<>> /\ Head(i.queue).type = "RG_CONNECT")
    /\ t.queue = IF i.queue = <<>> THEN <<>> ELSE Tail(i.queue)
    /\ ~t.status => (t.state \in {"CONNECTING", "OPERATIONAL"} <=>
                         i.state \in {"CAPREC", "CONNECTING", "OPERATIONAL"})

LEMMA TransitFlags ==
    ASSUME TypeOK, NEW p \in Peer, FlagsOfState(p), csm[p].state # "NONEXISTENT"
    PROVE  /\ FlagsAfter(csm[p], Transited(p))
           /\ Transited(p).status = Received(p).status
  <1> DEFINE i == csm[p]
             r == Received(p)
             j == [r EXCEPT !.state = NextState(r)]
             k == IF j.state # i.state \/ i.queue # <<>> THEN Entered(j) ELSE j
  <1>1. i \in Csm /\ r \in Csm
    BY ReceivedIsCsm DEF TypeOK
  <1>2. /\ r.state = i.state /\ r.scap = i.scap /\ r.srg = i.srg
        /\ i.pcap => r.pcap
        /\ r.pcap => i.pcap \/ i.queue # <<>>
        /\ r.prg <=> i.prg \/ (i.queue # <<>> /\ Head(i.queue).type = "RG_CONNECT")
        /\ r.queue = IF i.queue = <<>> THEN <<>> ELSE Tail(i.queue)
    BY ReceivedFlags
  <1>3. /\ i.state # "NONEXISTENT" /\ i.scap
        /\ i.state \in {"CAPREC", "CONNECTING", "OPERATIONAL"} => i.pcap
        /\ i.state = "OPERATIONAL" => i.srg /\ i.prg
    BY <1>1 DEF FlagsOfState, Csm, State
  <1> HIDE DEF r
  <1>4. /\ j \in Csm /\ j.state = NextState(r) /\ j.status = r.status /\ j.queue = r.queue
        /\ j.scap = r.scap /\ j.pcap = r.pcap /\ j.srg = r.srg /\ j.prg = r.prg
    BY <1>1, NextStateIsState DEF Csm
  <1>5. /\ j.state \notin {"NONEXISTENT", "INITIALIZED"}
        /\ j.state \in {"CAPREC", "CONNECTING", "OPERATIONAL"} => j.pcap
        /\ j.state = "CONNECTING" /\ ~j.status => ~j.prg
        /\ j.state = "OPERATIONAL" => j.prg
        /\ j.state = "OPERATIONAL" /\ j.state = i.state => j.srg
        /\ ~j.status => (j.state \in {"CONNECTING", "OPERATIONAL"} <=>
                             i.state \in {"CAPREC", "CONNECTING", "OPERATIONAL"})
    BY <1>1, <1>2, <1>3, <1>4 DEF NextState, Csm, State
  <1> HIDE DEF j
  <1>6. /\ k \in Csm /\ k.state = j.state /\ k.status = j.status /\ k.queue = j.queue
        /\ j.scap => k.scap
        /\ k.pcap <=> j.pcap
        /\ k.prg <=> j.prg
        /\ k.state = "OPERATIONAL" => k.srg
    <2>1. /\ Entered(j) \in Csm /\ Entered(j).state = j.state
          /\ Entered(j).queue = j.queue /\ Entered(j).status = j.status
      BY <1>4, EnteredIsCsm
    <2>2. /\ j.scap => Entered(j).scap
          /\ Entered(j).pcap <=> j.pcap
          /\ Entered(j).prg <=> j.prg
          /\ j.state = "OPERATIONAL" => Entered(j).srg
      BY <1>4, <1>5 DEF Entered, Csm
    <2> QED BY <1>4, <1>5, <2>1, <2>2
  <1>7. Transited(p) = [k EXCEPT !.app = @ \/ k.state = "OPERATIONAL"]
    BY DEF Transited, r, j
  <1> HIDE DEF k
  <1> DEFINE t == Transited(p)
  <1>8. /\ t.state = k.state /\ t.status = k.status /\ t.queue = k.queue
        /\ t.scap = k.scap /\ t.pcap = k.pcap /\ t.srg = k.srg /\ t.prg = k.prg
    BY <1>6, <1>7 DEF Csm
  <1> HIDE DEF t
  <1>9. FlagsAfter(i, t)
    BY <1>2, <1>3, <1>4, <1>5, <1>6, <1>8 DEF FlagsAfter
  <1> QED BY <1>4, <1>6, <1>8, <1>9 DEF r, t

(* A transit sends RG_CONNECT only out of CAPREC, and there always unless  *)
(* the groups differ.                                                      *)
LEMMA PreparedConnect ==
    ASSUME NEW p \in Peer, NEW r \in Csm
    PROVE  /\ HasRgConnect(Prepared(p, r)) => r.state = "CAPREC"
           /\ r.state = "CAPREC" /\ ~r.status => HasRgConnect(Prepared(p, r))
  <1>1. CASE r.state = "CAPREC" /\ ~r.status
    <2>1. Prepared(p, r) = << [type |-> "RG_CONNECT", rg |-> RgId[p]] >>
      BY <1>1 DEF Prepared
    <2> QED BY <1>1, <2>1 DEF HasRgConnect
  <1>2. CASE ~(r.state = "CAPREC" /\ ~r.status)
    <2>1. \/ Prepared(p, r) = <<>>
          \/ Prepared(p, r) = << [type |-> "CAP", s |-> r.scap] >>
          \/ Prepared(p, r) = << [type |-> "NAK", rg |-> RgId[p]] >>
          \/ Prepared(p, r) = << [type |-> "RG_DISCONNECT", rg |-> RgId[p]] >>
      BY <1>2 DEF Prepared
    <2> QED BY <1>2, <2>1 DEF HasRgConnect
  <1> QED BY <1>1, <1>2

LEMMA AgreementTransit ==
    ASSUME TypeOK, SocketInv, MessagesFromPeer, AgreementInv, NEW p \in Peer, Transit(p)
    PROVE  AgreementInv'
  <1> DEFINE q == Other(p)
             c == sock[p]
             i == csm[p]
             t == Transited(p)
             out == Prepared(p, Received(p))
  <1>0. /\ q \in Peer /\ q # p /\ Other(q) = p /\ Peer = {p, q}
        /\ Low \in Peer /\ High \in Peer
    BY TwoPeers DEF Peer
  <1>1. /\ c \in Conn /\ end[c][p] = "open" /\ c # NoConn
        /\ i.state # "NONEXISTENT" /\ i \in Csm /\ i.queue \in Seq(Msg)
    BY ConnAssumption DEF Transit, TypeOK, SocketInv, SocketsOpen, Csm
  <1>2. FlagsOfState(p)
    BY DEF AgreementInv
  <1>3. FlagsAfter(i, t) /\ t.status = Received(p).status
    BY <1>1, <1>2, TransitFlags
  <1>4. RgId[Low] = RgId[High] => ~t.status /\ ~i.status
    <2>1. AllFromPeer(p, i.queue)
      BY MessagesFromPeerIs
    <2>2. RgId[Low] = RgId[High] => RgId[p] = RgId[Other(p)]
      BY DEF Peer, Other
    <2>3. RgId[Low] = RgId[High] => ~i.status
      BY DEF AgreementInv, ConnectTold
    <2> QED BY <1>3, <2>1, <2>2, <2>3, ReceivedFlags
  <1>5. /\ out \in Seq(Msg)
        /\ HasRgConnect(out) => i.state = "CAPREC"
        /\ i.state = "CAPREC" /\ ~t.status => HasRgConnect(out)
    BY <1>3, ReceivedIsCsm, PreparedIsSeq, PreparedConnect
  <1>6. /\ UNCHANGED <<sock, end, acceptq>> /\ csm'[q] = csm[q] /\ csm'[p] = t
        /\ \A d \in Conn : d # c => ch'[d] = ch[d]
        /\ ch'[c] = ChWith(c, p, out)
    BY <1>0, <1>1 DEF Transit, TypeOK
  <1> HIDE DEF t, out, i
  <1>7. /\ ch'[c][p] = ch[c][p]
        /\ ch'[c][q] = IF Gone(end[c][q]) THEN ch[c][q] ELSE ch[c][q] \o out
        /\ ch[c][q] \in Seq(Msg)
    BY <1>0, <1>1, <1>6 DEF ChWith, TypeOK
  <1> HIDE DEF q, c
  <1>8. /\ HasRgConnect(ch'[c][q]) => HasRgConnect(ch[c][q]) \/ HasRgConnect(out)
        /\ ~Gone(end[c][q]) =>
              (HasRgConnect(ch'[c][q]) <=> HasRgConnect(ch[c][q]) \/ HasRgConnect(out))
    BY <1>5, <1>7, RgConnectSteps
  <1>9. /\ \A d \in Conn : Heard(p, d)' => Heard(p, d)
        /\ \A d \in Conn : d # c => (Heard(q, d)' <=> Heard(q, d))
        /\ \A d \in Conn : Spoke(q, d)' <=> Spoke(q, d)
        /\ \A d \in Conn : Spoke(p, d) => Spoke(p, d)'
        /\ Spoke(p, c)'
    BY <1>1, <1>3, <1>6, <1>7 DEF Heard, Spoke, FlagsAfter, c, i
  <1>10. EndsInUse'
    <2>1. end[c][q] # "none"
      BY <1>1, EndsPaired DEF AgreementInv, q
    <2>2. ch'[c][q] # <<>> => end[c][q] \in {"open", "queued"}
      <3>1. CASE Gone(end[c][q])
        BY <1>0, <1>1, <1>7, <3>1 DEF AgreementInv, EndsInUse
      <3>2. CASE ~Gone(end[c][q])
        BY <1>0, <1>1, <2>1, <3>2 DEF TypeOK, EndState, Gone
      <3> QED BY <3>1, <3>2
    <2>3. ASSUME NEW d \in Conn, NEW r \in Peer, ch'[d][r] # <<>>
          PROVE  end[d][r] \in {"open", "queued"}
      <3>1. CASE d = c /\ r = q
        BY <2>2, <2>3, <3>1
      <3>2. CASE ~(d = c /\ r = q)
        <4>1. ch'[d][r] = ch[d][r]
          BY <1>0, <1>6, <1>7, <3>2
        <4> QED BY <2>3, <4>1 DEF AgreementInv, EndsInUse
      <3> QED BY <3>1, <3>2
    <2> QED BY <1>6, <2>3 DEF AgreementInv, EndsInUse
  <1>11. LatestQueued'
    BY <1>6 DEF AgreementInv, LatestQueued
  <1>12. \A r \in Peer : FlagsOfState(r)'
    BY <1>0, <1>1, <1>3, <1>6 DEF AgreementInv, FlagsOfState, FlagsAfter, c
  <1>13. HeardWasSaid'
    <2>1. \A d \in Conn : Heard(p, d)' => Spoke(q, d)'
      BY <1>9 DEF AgreementInv, HeardWasSaid, q
    <2>2. ASSUME NEW d \in Conn, Heard(q, d)' PROVE Spoke(p, d)'
      <3>1. CASE d = c
        <4>1. /\ sock'[p] = d
              /\ csm'[p].state \notin {"NONEXISTENT", "INITIALIZED"}
          BY <1>1, <1>3, <1>6, <3>1 DEF FlagsAfter, c, i
        <4> QED BY <4>1 DEF Spoke
      <3>2. CASE d # c
        <4>1. Heard(q, d)
          BY <1>9, <2>2, <3>2
        <4>2. Spoke(p, d)
          BY <1>0, <4>1 DEF AgreementInv, HeardWasSaid
        <4> QED BY <1>9, <4>2
      <3> QED BY <3>1, <3>2
    <2> QED BY <1>0, <2>1, <2>2 DEF HeardWasSaid, q
  <1>14. ConnectSaid'
    <2>1. ASSUME NEW d \in Conn, HasRgConnect(ch'[d][p])
          PROVE  Gone(end'[d][q]) \/ (sock'[q] = d /\ csm'[q].pcap)
      BY <1>6, <1>7, <2>1 DEF AgreementInv, ConnectSaid, q
    <2>2. ASSUME NEW d \in Conn, HasRgConnect(ch'[d][q])
          PROVE  Gone(end'[d][p]) \/ (sock'[p] = d /\ csm'[p].pcap)
      <3>1. CASE d # c
        BY <1>0, <1>6, <2>2, <3>1 DEF AgreementInv, ConnectSaid, c
      <3>2. CASE d = c
        <4>1. i.pcap
          <5>1. CASE HasRgConnect(ch[c][q])
            BY <1>0, <1>1, <5>1 DEF AgreementInv, ConnectSaid, Gone, i
          <5>2. CASE HasRgConnect(out)
            BY <1>2, <1>5, <5>2 DEF FlagsOfState, i
          <5> QED BY <1>8, <2>2, <3>2, <5>1, <5>2
        <4> QED BY <1>3, <1>6, <3>2, <4>1 DEF FlagsAfter, c
      <3> QED BY <3>1, <3>2
    <2> QED BY <1>0, <2>1, <2>2 DEF ConnectSaid, q
  <1>15. HeardHolds'
    <2>1. CASE p = Low
      BY <1>6, <1>9, <2>1, StillHolds
    <2>2. CASE p = High
      <3>1. q = Low
        BY <2>2, PeerAssumption DEF q, Other
      <3>2. sock[Low] # NoConn => sock[Low] \in Conn
        BY <1>0 DEF TypeOK
      <3>3. \A d \in Conn : sock[Low] = d /\ Heard(Low, d)' => sock[High] \in {d, NoConn}
        BY <1>9, <2>2, <3>1, ConnAssumption DEF AgreementInv, HeardHolds, c
      <3> QED BY <1>6, <3>2, <3>3 DEF HeardHolds, Heard
    <2> QED BY <2>1, <2>2 DEF Peer
  <1>16. ConnectTold'
    <2> SUFFICES ASSUME RgId[Low] = RgId[High]
                 PROVE  /\ ~t.status /\ ~csm[q].status
                        /\ sock[q] = c =>
                             /\ ConnectToCome(p)' <=> csm[q].state \in {"CONNECTING", "OPERATIONAL"}
                             /\ ConnectToCome(q)' <=> t.state \in {"CONNECTING", "OPERATIONAL"}
      BY <1>0, <1>6 DEF ConnectTold, q, c
    <2>1. ~t.status /\ ~csm[q].status
      BY <1>0, <1>4 DEF AgreementInv, ConnectTold
    <2>2. ASSUME sock[q] = c
          PROVE  /\ ConnectToCome(p)' <=> csm[q].state \in {"CONNECTING", "OPERATIONAL"}
                 /\ ConnectToCome(q)' <=> t.state \in {"CONNECTING", "OPERATIONAL"}
      <3>1. /\ ConnectToCome(p) <=> csm[q].state \in {"CONNECTING", "OPERATIONAL"}
            /\ ConnectToCome(q) <=> i.state \in {"CONNECTING", "OPERATIONAL"}
        BY <1>0, <1>1, <2>2 DEF AgreementInv, ConnectTold, q, c, i
      <3>2. ConnectToCome(p)' <=> ConnectToCome(p)
        <4>1. t.prg \/ HasRgConnect(t.queue) <=> i.prg \/ HasRgConnect(i.queue)
          BY <1>1, <1>3, RgConnectSteps DEF FlagsAfter
        <4> QED BY <1>6, <1>7, <4>1 DEF ConnectToCome, c, i
      <3>3. ConnectToCome(q)' <=> ConnectToCome(q) \/ HasRgConnect(out)
        <4>1. ~Gone(end[c][q])
          BY <1>0, <1>1, <2>2 DEF SocketInv, SocketsOpen, Gone
        <4> QED BY <1>6, <1>8, <2>2, <4>1 DEF ConnectToCome
      <3>4. HasRgConnect(out) <=> i.state = "CAPREC"
        BY <1>5, <2>1
      <3> QED BY <1>3, <2>1, <3>1, <3>2, <3>3, <3>4 DEF FlagsAfter
    <2> QED BY <2>1, <2>2
  <1> QED BY <1>10, <1>11, <1>12, <1>13, <1>14, <1>15, <1>16 DEF AgreementInv

-----------------------------------------------------------------------------
(* The disconnect handler and the crash close ends as ClosingStep has it. *)
LEMMA AgreementDisconnect ==
    ASSUME TypeOK, SocketInv, AgreementInv, NEW p \in Peer, Disconnect(p), acceptq' = acceptq
    PROVE  AgreementInv'
  <1>1. \A c \in Conn : end[c][p] = "open" <=> sock[p] = c
    BY ConnAssumption, EndsPaired DEF AgreementInv, SocketInv, SocketsOpen
  <1>2. ASSUME NEW c \in Conn
        PROVE  IF end[c][p] = "open" THEN ClosedAt(p, c) ELSE KeptAt(c)
    <2>1. CASE sock[p] = c
      <3>1. end'[c] = EndsAfter(c, p, "closed") /\ ch'[c] = ChAfter(c, p)
        BY <2>1, ConnAssumption DEF Disconnect, TypeOK
      <3> QED BY <1>1, <2>1, <3>1, EndsClose
    <2>2. CASE sock[p] # c
      BY <1>1, <2>2 DEF Disconnect, TypeOK, KeptAt
    <2> QED BY <2>1, <2>2
  <1>3. sock' = [sock EXCEPT ![p] = NoConn] /\ csm' = [csm EXCEPT ![p] = ResetCsm]
    BY DEF Disconnect
  <1> QED BY <1>2, <1>3, ClosingStep

LEMMA AgreementCrash ==
    ASSUME TypeOK, SocketInv, AgreementInv, NEW p \in Peer, NEW s \in {"closed", "lost"},
           Crash(p, s)
    PROVE  AgreementInv'
  <1>1. ASSUME NEW c \in Conn
        PROVE  IF end[c][p] \in {"open", "queued"} THEN ClosedAt(p, c) ELSE KeptAt(c)
    <2>1. CASE end[c][p] \in {"open", "queued"}
      <3>1. end'[c] = EndsAfter(c, p, s) /\ ch'[c] = ChAfter(c, p)
        BY <2>1 DEF Crash
      <3> QED BY <2>1, <3>1, EndsClose
    <2>2. CASE end[c][p] \notin {"open", "queued"}
      BY <2>2 DEF Crash, KeptAt
    <2> QED BY <2>1, <2>2
  <1>2. /\ sock' = [sock EXCEPT ![p] = NoConn] /\ csm' = [csm EXCEPT ![p] = ResetCsm]
        /\ p = Low \/ acceptq' = <<>>
    BY DEF Crash, Peer
  <1> QED BY <1>1, <1>2, ClosingStep

LEMMA AgreementStep ==
    TypeOK /\ SocketInv /\ MessagesFromPeer /\ AgreementInv /\ [Next]_vars => AgreementInv'
  <1> SUFFICES ASSUME TypeOK, SocketInv, MessagesFromPeer, AgreementInv, [Next]_vars
               PROVE  AgreementInv'
    OBVIOUS
  <1>1. ASSUME NEW c \in Conn, Connect(c) PROVE AgreementInv'
    BY <1>1, AgreementConnect
  <1>2. CASE Accept
    BY <1>2, AgreementAccept
  <1>3. CASE Reject
    BY <1>3, AgreementReject
  <1>4. ASSUME NEW p \in Peer, PrepareNothing(p) PROVE AgreementInv'
    <2>1. \A r \in Peer : Alike(csm'[r], csm[r])
      <3>1. csm \in [Peer -> Csm]
        BY DEF TypeOK
      <3>2. csm' = csm \/ csm' = [csm EXCEPT ![p].role = CheckedRole(p)]
        BY <1>4 DEF PrepareNothing
      <3>3. \A r \in Peer : \/ csm'[r] = csm[r]
                           \/ csm'[r] = [csm[r] EXCEPT !.role = CheckedRole(p)]
        BY <3>1, <3>2
      <3>4. \A i \in Csm : Alike(i, i) /\ \A x \in Role : Alike([i EXCEPT !.role = x], i)
        BY DEF Alike, Csm
      <3> QED BY ZenonT(60), <3>1, <3>3, <3>4, RoleType
    <2> QED BY <1>4, <2>1, RoleStep DEF PrepareNothing
  <1>5. ASSUME NEW p \in Peer, TransitAccepted(p) PROVE AgreementInv'
    BY <1>5, AgreementAccepted
  <1>6. ASSUME NEW p \in Peer, Transit(p) PROVE AgreementInv'
    BY <1>6, AgreementTransit
  <1>7. ASSUME NEW p \in Peer, Read(p) PROVE AgreementInv'
    BY <1>7, AgreementRead
  <1>8. ASSUME NEW p \in Peer, ReadError(p) \/ Timeout(p) PROVE AgreementInv'
    BY <1>8, AgreementDisconnect DEF ReadError, Timeout
  <1>9. ASSUME NEW p \in Peer, NEW s \in {"closed", "lost"}, Crash(p, s) PROVE AgreementInv'
    BY <1>9, AgreementCrash
  <1>10. ASSUME UNCHANGED <<sock, csm, end, ch, acceptq>> PROVE AgreementInv'
    BY <1>10, RoleStep DEF Alike
  <1>11. ASSUME NEW p \in Peer, Configure(p) PROVE AgreementInv'
    <2>1. \/ UNCHANGED <<sock, csm, end, ch, acceptq>>
          \/ Disconnect(p) /\ acceptq' = acceptq
      BY <1>11 DEF Configure, AddDomain, SetAddress, PeerLinkPresent, UnsetAddress,
                  PeerLinkMissing, ChangePeerLink, DelDomain, CommandDisconnect
    <2> QED BY <1>10, <2>1, AgreementDisconnect
  <1>12. ASSUME NEW p \in Peer, Restart(p) PROVE AgreementInv'
    BY <1>10, <1>12 DEF Restart
  <1>13. CASE UNCHANGED vars
    BY <1>10, <1>13 DEF vars
  <1> QED BY <1>1, <1>2, <1>3, <1>4, <1>5, <1>6, <1>7, <1>8, <1>9, <1>11, <1>12, <1>13
          DEF Next

LEMMA AgreementInit == Init => AgreementInv
  <1> SUFFICES ASSUME Init PROVE AgreementInv
    OBVIOUS
  <1>0. Low \in Peer /\ High \in Peer /\ \A p \in Peer : Other(p) \in Peer
    BY TwoPeers DEF Peer
  <1>1. EndsInUse /\ LatestQueued
    BY <1>0 DEF Init, EndsInUse, LatestQueued
  <1>2. \A p \in Peer : FlagsOfState(p)
    BY DEF Init, FlagsOfState, ResetCsm
  <1>3. \A p \in Peer, c \in Conn : ~Heard(p, c)
    BY ConnAssumption DEF Init, Heard, ResetCsm
  <1>4. HeardWasSaid /\ HeardHolds
    BY <1>0, <1>3 DEF Init, HeardWasSaid, HeardHolds
  <1>5. ConnectSaid
    BY DEF Init, ConnectSaid, HasRgConnect
  <1>6. ConnectTold
    BY DEF Init, ConnectTold, ResetCsm
  <1> QED BY <1>1, <1>2, <1>4, <1>5, <1>6 DEF AgreementInv

(* The agreement between the two ends of the connections is inductive      *)
(* together with the session invariant.                                    *)
THEOREM AgreementInvariant == Spec => []AgreementInv
  <1>1. SessionInv /\ AgreementInv /\ [Next]_vars => AgreementInv'
    BY AgreementStep DEF SessionInv, SocketInv
  <1> QED BY SessionInvariant, AgreementInit, <1>1, PTL DEF Spec

-----------------------------------------------------------------------------
(* A switch that has taken in what its peer said on a connection is on it. *)
LEMMA KnownIsHeard ==
    ASSUME SessionInv, AgreementInv, NEW p \in Peer, csm[p].pcap
    PROVE  /\ sock[p] \in Conn /\ end[sock[p]][p] = "open"
           /\ Heard(p, sock[p]) /\ Spoke(Other(p), sock[p])
  <1>1. csm[p].state # "NONEXISTENT"
    BY DEF AgreementInv, FlagsOfState
  <1>2. sock[p] \in Conn /\ end[sock[p]][p] = "open"
    BY <1>1 DEF SessionInv, StateNeedsSocket, SocketsOpen, TypeOK
  <1>3. Heard(p, sock[p])
    BY DEF Heard
  <1> QED BY <1>2, <1>3 DEF AgreementInv, HeardWasSaid

(* Two switches that have each other's capability use the same connection. *)
(* The client's refused and abandoned connections wait in the listen queue *)
(* in front of the one it uses, so a server that was heard on that one     *)
(* cannot be on an older one.                                              *)
THEOREM OneConnection == Spec => []SameConnection
  <1>1. SessionInv /\ AgreementInv => SameConnection
    <2> SUFFICES ASSUME SessionInv, AgreementInv, csm[Low].pcap, csm[High].pcap
                 PROVE  sock[Low] = sock[High]
      BY DEF SameConnection
    <2>1. Low \in Peer /\ High \in Peer
      BY DEF Peer
    <2>2. sock[Low] \in Conn /\ sock[High] \in Conn /\ Heard(Low, sock[Low])
      BY <2>1, KnownIsHeard
    <2> QED BY <2>2, ConnAssumption DEF AgreementInv, HeardHolds
  <1> QED BY SessionInvariant, AgreementInvariant, <1>1, PTL

(* What a switch believes about its peer was said on this connection.      *)
THEOREM CapabilityCurrent == Spec => []NoStaleCapability
  <1>1. SessionInv /\ AgreementInv => NoStaleCapability
    <2> SUFFICES ASSUME SessionInv, AgreementInv, NEW p \in Peer, csm[p].pcap,
                        sock[Other(p)] = sock[p]
                 PROVE  csm[Other(p)].state \notin {"NONEXISTENT", "INITIALIZED"}
      BY DEF NoStaleCapability
    <2>1. sock[p] \in Conn /\ Spoke(Other(p), sock[p])
      BY KnownIsHeard
    <2>2. end[sock[p]][Other(p)] = "open"
      BY <2>1, OtherPeer, ConnAssumption DEF SessionInv, SocketsOpen
    <2> QED BY <2>1, <2>2 DEF Spoke, Gone
  <1> QED BY SessionInvariant, AgreementInvariant, <1>1, PTL

(* No half-open session: an operational switch whose peer still has the    *)
(* connection has an operational peer, or one that is connecting and to    *)
(* which the RG_CONNECT that completes it is on its way.                   *)
THEOREM BothOperational == Spec => []OperationalTogether
  <1>1. SessionInv /\ AgreementInv => OperationalTogether
    <2> SUFFICES ASSUME SessionInv, AgreementInv, NEW p \in Peer, Operational(p),
                        sock[Other(p)] = sock[p], ~Operational(Other(p))
                 PROVE  /\ csm[Other(p)].state = "CONNECTING"
                        /\ LET coming == ch[sock[p]][Other(p)] \o csm[Other(p)].queue
                           IN  \E n \in DOMAIN coming : coming[n].type = "RG_CONNECT"
      BY DEF OperationalTogether
    <2> DEFINE q == Other(p)
               c == sock[p]
    <2>0. q \in Peer /\ Other(q) = p
      BY TwoPeers
    <2>1. RgId[Low] = RgId[High]
      <3>1. csm[p] \in Csm /\ FlagsTellGroup(p, csm[p])
        BY DEF SessionInv, TypeOK, GroupKnown
      <3>2. RgId[p] = RgId[Other(p)]
        BY <3>1 DEF FlagsTellGroup, Operational, Csm
      <3> QED BY <3>2 DEF Peer, Other
    <2>2. csm[p].pcap /\ csm[p].prg
      BY DEF AgreementInv, FlagsOfState, Operational
    <2>3. c \in Conn /\ c # NoConn
      BY <2>2, KnownIsHeard, ConnAssumption
    <2>4. /\ ConnectToCome(p) <=> csm[q].state \in {"CONNECTING", "OPERATIONAL"}
          /\ ConnectToCome(q) <=> csm[p].state \in {"CONNECTING", "OPERATIONAL"}
          /\ ~csm[q].status
      BY <2>0, <2>1, <2>3 DEF AgreementInv, ConnectTold
    <2>5. csm[q].state = "CONNECTING"
      BY <2>2, <2>4 DEF ConnectToCome, Operational
    <2>6. ~csm[q].prg
      BY <2>0, <2>4, <2>5 DEF AgreementInv, FlagsOfState
    <2>7. HasRgConnect(csm[q].queue) \/ HasRgConnect(ch[c][q])
      BY <2>4, <2>6 DEF ConnectToCome, Operational
    <2>8. csm[q].queue \in Seq(Msg) /\ ch[c][q] \in Seq(Msg)
      BY <2>0, <2>3 DEF SessionInv, TypeOK, Csm
    <2> DEFINE coming == ch[c][q] \o csm[q].queue
    <2>9. HasRgConnect(coming) /\ coming \in Seq(Msg)
      BY <2>7, <2>8, RgConnectSteps
    <2> HIDE DEF coming
    <2>10. \E n \in DOMAIN coming : coming[n].type = "RG_CONNECT"
      BY <2>9 DEF HasRgConnect
    <2> QED BY <2>5, <2>10 DEF coming
  <1> QED BY SessionInvariant, AgreementInvariant, <1>1, PTL

-----------------------------------------------------------------------------
(* IccpSession implements Session, the promise that MlacpSync, MacSync and   *)
(* NeighSync are built on; and the roles follow the addresses.               *)

(* Only its own transit moves a connection state machine forward. *)
LEMMA StateSteps ==
    ASSUME TypeOK, [Next]_vars, NEW p \in Peer
    PROVE  \/ Transit(p)
           \/ csm'[p].state \in {csm[p].state, "NONEXISTENT", "INITIALIZED"}
  <1> DEFINE Kept(r) == csm'[r].state \in {csm[r].state, "NONEXISTENT", "INITIALIZED"}
  <1>0. /\ csm \in [Peer -> Csm] /\ Low \in Peer /\ High \in Peer
        /\ ResetCsm.state = "NONEXISTENT"
    BY DEF TypeOK, Peer, ResetCsm
  <1>1. ASSUME NEW r \in Peer, NEW i \in Csm, csm' = [csm EXCEPT ![r] = i],
               i.state \in {csm[r].state, "NONEXISTENT", "INITIALIZED"}
        PROVE  Kept(p)
    BY <1>0, <1>1
  <1>2. ASSUME NEW c \in Conn, Connect(c) PROVE Kept(p)
    <2> DEFINE i == [csm[Low] EXCEPT !.state = "INITIALIZED", !.role = CheckedRole(Low)]
    <2>1. i \in Csm /\ i.state = "INITIALIZED"
      BY <1>0, RoleType DEF Csm, State
    <2>2. csm' = [csm EXCEPT ![Low] = Entered(i)]
      BY <1>0, <1>2 DEF Connect
    <2> HIDE DEF i
    <2> QED BY <1>0, <1>1, <2>1, <2>2, EnteredIsCsm
  <1>3. ASSUME Accept PROVE Kept(p)
    <2> DEFINE i == [csm[High] EXCEPT !.state = "NONEXISTENT", !.role = CheckedRole(High)]
    <2>1. i \in Csm /\ i.state = "NONEXISTENT"
      BY <1>0, RoleType DEF Csm, State
    <2>2. csm' = [csm EXCEPT ![High] = i]
      BY <1>0, <1>3 DEF Accept
    <2> HIDE DEF i
    <2> QED BY <1>0, <1>1, <2>1, <2>2
  <1>4. ASSUME NEW r \in Peer, TransitAccepted(r) PROVE Kept(p)
    <2> DEFINE i == [csm[r] EXCEPT !.state = "INITIALIZED", !.role = CheckedRole(r),
                                   !.queue = <<>>]
    <2>0. <<>> \in Seq(Msg) /\ CheckedRole(r) \in Role /\ csm[r] \in Csm
      BY <1>0, RoleType, QueueSteps
    <2>1. i \in Csm /\ i.state = "INITIALIZED"
      BY <2>0 DEF Csm, State
    <2>2. csm' = [csm EXCEPT ![r] = Entered(i)]
      BY <1>0, <1>4 DEF TransitAccepted
    <2> HIDE DEF i
    <2> QED BY <1>0, <1>1, <2>1, <2>2, EnteredIsCsm
  <1>5. ASSUME NEW r \in Peer, NEW x \in Role,
               csm' = [csm EXCEPT ![r].role = x]
        PROVE  Kept(p)
    <2> DEFINE i == [csm[r] EXCEPT !.role = x]
    <2>1. i \in Csm /\ i.state = csm[r].state /\ csm' = [csm EXCEPT ![r] = i]
      BY <1>0, <1>5 DEF Csm
    <2> HIDE DEF i
    <2> QED BY <1>1, <2>1
  <1>6. ASSUME NEW r \in Peer, Read(r) PROVE Kept(p)
    <2>1. csm'[p] = csm[p] \/ csm'[p] = [csm[p] EXCEPT !.queue = csm'[p].queue]
      BY <1>0, <1>6 DEF Read, Csm
    <2>2. csm[p] \in Csm
      BY <1>0
    <2>3. csm'[p].state = csm[p].state
      BY <2>1, <2>2 DEF Csm
    <2> QED BY <2>3
  <1>7. ASSUME NEW r \in Peer, csm' = [csm EXCEPT ![r] = ResetCsm] PROVE Kept(p)
    BY <1>0, <1>1, <1>7, ResetIsCsm
  <1>8. ASSUME csm' = csm PROVE Kept(p)
    BY <1>8
  <1>9. ASSUME NEW r \in Peer, Transit(r), r # p PROVE Kept(p)
    BY <1>0, <1>9 DEF Transit
  <1>10. ASSUME Reject PROVE Kept(p)
    BY <1>0, <1>5, <1>8, <1>10, RoleType DEF Reject
  <1>11. ASSUME NEW r \in Peer, PrepareNothing(r) PROVE Kept(p)
    BY <1>5, <1>8, <1>11, RoleType DEF PrepareNothing
  <1>12. ASSUME NEW r \in Peer, Configure(r) PROVE Kept(p)
    BY <1>7, <1>8, <1>12 DEF Configure, AddDomain, SetAddress, PeerLinkPresent, UnsetAddress,
                 PeerLinkMissing, ChangePeerLink, DelDomain, CommandDisconnect, Disconnect
  <1>13. ASSUME NEW r \in Peer, \/ ReadError(r) \/ Timeout(r) \/ Restart(r)
                                \/ \E s \in {"closed", "lost"} : Crash(r, s)
         PROVE  Kept(p)
    BY <1>7, <1>8, <1>13 DEF ReadError, Timeout, Restart, Crash, Disconnect
  <1> QED BY <1>2, <1>3, <1>4, <1>6, <1>8, <1>9, <1>10, <1>11, <1>12, <1>13 DEF Next, vars

(* A switch gets a socket only from connect() and accept(). *)
LEMMA SocketSteps ==
    ASSUME TypeOK, [Next]_vars
    PROVE  \/ \E c \in Conn : Connect(c)
           \/ Accept
           \/ \A p \in Peer : sock'[p] \in {sock[p], NoConn}
  <1>1. sock \in [Peer -> Conn \cup {NoConn}]
    BY DEF TypeOK
  <1>2. ASSUME NEW r \in Peer, sock' = [sock EXCEPT ![r] = NoConn]
        PROVE  \A p \in Peer : sock'[p] \in {sock[p], NoConn}
    BY <1>1, <1>2
  <1>3. ASSUME sock' = sock
        PROVE  \A p \in Peer : sock'[p] \in {sock[p], NoConn}
    BY <1>3
  <1>4. ASSUME NEW r \in Peer, Configure(r)
        PROVE  \A p \in Peer : sock'[p] \in {sock[p], NoConn}
    BY <1>2, <1>3, <1>4 DEF Configure, AddDomain, SetAddress, PeerLinkPresent, UnsetAddress,
                 PeerLinkMissing, ChangePeerLink, DelDomain, CommandDisconnect, Disconnect
  <1> QED BY <1>2, <1>3, <1>4 DEF Next, vars, Reject, PrepareNothing, TransitAccepted, Transit,
              Read, ReadError, Timeout, Crash, Restart, Disconnect

-----------------------------------------------------------------------------
(* Refinement: a step of IccpSession lets no switch into a session that    *)
(* the other one is still in.                                              *)

(* An operational switch knows its peer's capability, from the connection  *)
(* it is on.                                                               *)
LEMMA OperationalKnows ==
    ASSUME SessionInv, AgreementInv, NEW p \in Peer, Operational(p)
    PROVE  /\ csm[p].pcap /\ sock[p] \in Conn /\ sock[p] # NoConn
           /\ end[sock[p]][p] = "open" /\ Spoke(Other(p), sock[p])
  <1>1. csm[p].pcap
    BY DEF AgreementInv, FlagsOfState, Operational
  <1> QED BY <1>1, KnownIsHeard, ConnAssumption

LEMMA NoneComesBack ==
    ASSUME SessionInv, AgreementInv, [Next]_vars, SessionInv', AgreementInv',
           SameConnection', NEW r \in Peer, Operational(r), Joined(Other(r))'
    PROVE  Joined(Other(r))
  <1> DEFINE o == Other(r)
  <1>0. o \in Peer /\ o # r /\ Other(o) = r /\ Low # High
    BY TwoPeers, PeerAssumption
  <1>1. TypeOK /\ ListenQueue /\ SocketsOpen
    BY DEF SessionInv
  <1> SUFFICES ASSUME ~Operational(o), sock[o] # sock[r] PROVE FALSE
    BY <1>0 DEF Joined
  <1>2. /\ csm[r].pcap /\ sock[r] \in Conn /\ sock[r] # NoConn
        /\ end[sock[r]][r] = "open" /\ Spoke(o, sock[r])
    BY OperationalKnows
  <1>3. CASE Operational(o)'
    <2>1. Transit(o)
      BY <1>0, <1>1, <1>3, StateSteps DEF Operational
    <2>2. sock' = sock /\ csm'[r] = csm[r]
      BY <1>0, <1>1, <2>1 DEF Transit, TypeOK
    <2>3. csm'[o].pcap
      BY <1>0, <1>3 DEF AgreementInv, FlagsOfState, Operational
    <2>4. csm'[Low].pcap /\ csm'[High].pcap
      BY <1>0, <1>2, <2>2, <2>3 DEF Peer, Other
    <2>5. sock'[Low] = sock'[High]
      BY <2>4 DEF SameConnection
    <2> QED BY <1>0, <2>2, <2>5 DEF Peer, Other
  <1>4. CASE Operational(r)' /\ sock'[o] = sock'[r]
    <2>1. sock'[r] # NoConn
      BY <1>4 DEF SessionInv, StateNeedsSocket, Operational
    <2>2. ASSUME NEW c \in Conn, Connect(c) PROVE FALSE
      <3>1. /\ sock' = [sock EXCEPT ![Low] = c]
            /\ csm'[Low].state = "INITIALIZED"
            /\ end[c][High] = "none" /\ High \in Peer
        <4> DEFINE i == [csm[Low] EXCEPT !.state = "INITIALIZED", !.role = CheckedRole(Low)]
        <4>1. i \in Csm /\ i.state = "INITIALIZED" /\ Low \in Peer
          BY <1>1, RoleType DEF Csm, State, TypeOK, Peer
        <4>2. csm'[Low] = Entered(i)
          BY <1>1, <2>2, <4>1 DEF Connect, TypeOK
        <4> HIDE DEF i
        <4>3. csm'[Low].state = "INITIALIZED"
          BY <4>1, <4>2, EnteredIsCsm
        <4> QED BY <2>2, <4>3 DEF Connect, Peer
      <3>2. r = High /\ o = Low
        BY <1>4, <3>1 DEF Operational, Peer, Other
      <3>3. sock[High] = c
        BY <1>0, <1>1, <1>4, <3>1, <3>2 DEF TypeOK
      <3> QED BY <1>2, <3>1, <3>2, <3>3
    <2>3. CASE Accept
      <3>1. /\ sock[High] = NoConn /\ sock' = [sock EXCEPT ![High] = Head(acceptq)]
            /\ High \in Peer /\ Low \in Peer
        BY <2>3 DEF Accept, Peer
      <3>2. r = Low /\ o = High
        BY <1>2, <3>1 DEF Peer, Other
      <3>3. sock[Low] = Head(acceptq)
        BY <1>0, <1>1, <1>4, <3>1, <3>2 DEF TypeOK
      <3>4. end[Head(acceptq)][High] = "queued"
        BY <1>1, <2>3, ListenQueueTail DEF Accept
      <3> QED BY <1>2, <3>1, <3>2, <3>3, <3>4 DEF Spoke, Gone
    <2>4. CASE \A p \in Peer : sock'[p] \in {sock[p], NoConn}
      BY <1>0, <1>4, <2>1, <2>4
    <2> QED BY <1>1, <2>2, <2>3, <2>4, SocketSteps
  <1> QED BY <1>0, <1>3, <1>4 DEF Joined

(* While a switch is in the session, none can join it. *)
LEMMA OnlyLeaving ==
    ASSUME SessionInv, AgreementInv, [Next]_vars, SessionInv', AgreementInv',
           SameConnection', NEW p \in Peer, Joined(p), NEW q \in Peer, Joined(q)'
    PROVE  Joined(q)
  <1>1. PICK r \in Peer : Operational(r)
    BY TwoPeers DEF Joined
  <1>2. CASE q = r
    BY <1>1, <1>2 DEF Joined
  <1>3. CASE q = Other(r)
    BY <1>1, <1>3, NoneComesBack
  <1> QED BY <1>2, <1>3, TwoPeers

LEMMA SessionRefinedStep ==
    ASSUME SessionInv, AgreementInv, [Next]_vars, SessionInv', AgreementInv', SameConnection'
    PROVE  [TheSession!Next]_([p \in Peer |-> Joined(p)])
  <1> DEFINE now == [p \in Peer |-> Joined(p)]
             S == {p \in Peer : Joined(p)'}
             L == {p \in Peer : Joined(p) /\ ~(Joined(p)')}
  <1>0. /\ S \in SUBSET Peer /\ L \in SUBSET Peer
        /\ \A p \in Peer : Joined(p) \in BOOLEAN /\ Joined(p)' \in BOOLEAN
    BY DEF Joined
  <1>1. CASE \A p \in Peer : ~Joined(p)
    <2>1. now' = [p \in Peer |-> p \in S]
      <3>1. \A p \in Peer : Joined(p)' = (p \in S)
        BY <1>0
      <3> QED BY <3>1, Zenon
    <2>2. TheSession!Join(S)
      BY <1>1, <2>1 DEF TheSession!Join
    <2> QED BY <1>0, <2>2 DEF TheSession!Next
  <1>2. CASE \E p \in Peer : Joined(p)
    <2>1. \A q \in Peer : Joined(q)' => Joined(q)
      BY <1>2, OnlyLeaving
    <2>2. CASE L = {}
      <3>1. \A p \in Peer : Joined(p)' = Joined(p)
        BY <1>0, <2>1, <2>2
      <3>2. now' = now
        BY <3>1, Zenon
      <3> QED BY <3>2
    <2>3. CASE L # {}
      <3>0. \A p \in Peer : Joined(p)' = (now[p] /\ p \notin L)
        BY <1>0, <2>1
      <3>1. now' = [p \in Peer |-> now[p] /\ p \notin L]
        BY <3>0, Zenon
      <3>2. TheSession!Leave(L)
        BY <2>3, <3>1 DEF TheSession!Leave
      <3> QED BY <1>0, <3>2 DEF TheSession!Next
    <2> QED BY <2>2, <2>3
  <1> QED BY <1>1, <1>2

(* The session is what MlacpSync and MacSync take it for: it begins only   *)
(* when neither switch is in one, and no end comes back to a peer that     *)
(* still holds the old session.                                            *)
THEOREM SessionRefined == Spec => ImplementsSession
  <1>1. Init => TheSession!Init
    BY TwoPeers DEF Init, TheSession!Init, Joined, Operational, ResetCsm
  <1>2. /\ SessionInv /\ AgreementInv /\ [Next]_vars
        /\ SessionInv' /\ AgreementInv' /\ SameConnection'
        => [TheSession!Next]_([p \in Peer |-> Joined(p)])
    BY SessionRefinedStep
  <1> QED BY SessionInvariant, AgreementInvariant, OneConnection, <1>1, <1>2, PTL
          DEF Spec, ImplementsSession, TheSession!Spec
=============================================================================
