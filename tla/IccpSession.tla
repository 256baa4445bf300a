---------------------------- MODULE IccpSession ----------------------------
(***************************************************************************)
(* The ICCP session between the two switches of an MC-LAG domain: iccpd's  *)
(* scheduler loop (scheduler.c, iccp_netlink.c), the ICCP connection state *)
(* machine (iccp_csm.c), the application state machine (app_csm.c) and the *)
(* configuration commands that touch the session (iccp_cli.c).             *)
(*                                                                         *)
(* iccpd is single threaded.  One turn of scheduler_loop handles the ready *)
(* file descriptors (at most one message is read from the peer socket) and *)
(* then runs iccp_csm_transit and app_csm_transit once.  A turn touches    *)
(* the other switch only through TCP, so its parts are separate actions;   *)
(* turn[p] keeps their order (one read between two transits).              *)
(*                                                                         *)
(* TCP is external: a connection c has two ends and a FIFO per direction.  *)
(* The client's connect() succeeds in the kernel, before the server's      *)
(* accept() decides to keep or close the connection; a closed end is seen  *)
(* as EOF or reset, a lost one (power loss) only by the heartbeat timeout. *)
(***************************************************************************)
EXTENDS Naturals, Sequences, FiniteSets

CONSTANTS Low, High,  \* the switches; Low has the lower address: the client
          Conn,       \* identities of TCP connections, reused when both ends are gone
          NoConn,     \* csm->sock_fd <= 0
          RgId,       \* icc_rg_id of each switch (set_mc_lag_id)
          SockBuf,    \* bound: messages under way on a connection to one end
          MaxFaults   \* bound: crashes, premature timeouts and removals

Peer == {Low, High}

ASSUME PeerAssumption == Low # High
ASSUME ConnAssumption == NoConn \notin Conn
ASSUME RgAssumption == RgId \in [Peer -> Nat]
ASSUME BoundAssumption == /\ SockBuf \in Nat \ {0}
                          /\ MaxFaults \in Nat

VARIABLES alive,   \* the iccpd process of p runs
          cfg,     \* what p's CSM is configured with
          sock,    \* csm->sock_fd: the connection p uses
          csm,     \* the rest of p's CSM that the session depends on
          turn,    \* what p's turn of the loop has done to its peer socket
          end,     \* end[c][p]: p's end of connection c
          ch,      \* ch[c][p]: messages on connection c on their way to p
          acceptq, \* connections in High's listen queue
          faults   \* faults spent

vars == <<alive, cfg, sock, csm, turn, end, ch, acceptq, faults>>

Other(p) == IF p = Low THEN High ELSE Low

(* ICCP_CONNECTION_STATE_E *)
State == {"NONEXISTENT", "INITIALIZED", "CAPSENT", "CAPREC", "CONNECTING",
          "OPERATIONAL"}

(* "badlink": a peer-link is configured but its interface does not exist. *)
Attr == {"domain", "local", "peer", "badlink"}

Role == {"NONE", "ACTIVE", "STANDBY"}

(* Messages the connection state machine exchanges.  The capability TLV    *)
(* carries no RG id; a NAK's rejected_msg_id is not used by its receiver.  *)
Msg == [type : {"CAP"}, s : BOOLEAN]
         \cup [type : {"RG_CONNECT", "RG_DISCONNECT", "NAK"}, rg : Nat]

(* "stale": a command closed the socket in this turn, its event may remain. *)
Turn == {"idle", "read", "stale"}

EndState == {"none", "queued", "open", "closed", "lost"}

Csm == [state : State, scap : BOOLEAN, pcap : BOOLEAN, srg : BOOLEAN,
        prg : BOOLEAN, status : BOOLEAN, role : Role, app : BOOLEAN,
        queue : Seq(Msg)]

(* iccp_csm_status_reset (with app_csm_init): what every disconnect leaves. *)
ResetCsm == [state |-> "NONEXISTENT", scap |-> FALSE, pcap |-> FALSE,
             srg |-> FALSE, prg |-> FALSE, status |-> FALSE,
             role |-> "NONE", app |-> FALSE, queue |-> <<>>]

TypeOK ==
    /\ alive \in [Peer -> BOOLEAN]
    /\ cfg \in [Peer -> SUBSET Attr]
    /\ sock \in [Peer -> Conn \cup {NoConn}]
    /\ csm \in [Peer -> Csm]
    /\ turn \in [Peer -> Turn]
    /\ end \in [Conn -> [Peer -> EndState]]
    /\ ch \in [Conn -> [Peer -> Seq(Msg)]]
    /\ acceptq \in Seq(Conn)
    /\ faults \in 0..MaxFaults

Init ==
    /\ alive = [p \in Peer |-> TRUE]
    /\ cfg = [p \in Peer |-> {}]
    /\ sock = [p \in Peer |-> NoConn]
    /\ csm = [p \in Peer |-> ResetCsm]
    /\ turn = [p \in Peer |-> "idle"]
    /\ end = [c \in Conn |-> [p \in Peer |-> "none"]]
    /\ ch = [c \in Conn |-> [p \in Peer |-> <<>>]]
    /\ acceptq = <<>>
    /\ faults = 0

-----------------------------------------------------------------------------
(* Configuration and role. *)

(* scheduler_check_csm_config returns 1. *)
ConfigOk(p) == {"domain", "local", "peer"} \subseteq cfg[p] /\ "badlink" \notin cfg[p]

(* iccp_csm_stp_role_count: inet_addr(sender_ip) < inet_addr(peer_ip), where *)
(* the address of an empty string is INADDR_NONE, the largest one.           *)
LowerAddress(p) == /\ "local" \in cfg[p]
                   /\ "peer" \in cfg[p] => p = Low

CountedRole(p) == IF csm[p].role # "NONE" THEN csm[p].role
                  ELSE IF LowerAddress(p) THEN "ACTIVE" ELSE "STANDBY"

(* The role after scheduler_check_csm_config(csm): it is counted even when *)
(* an address is missing, but not when the peer-link interface is.         *)
CheckedRole(p) == IF "badlink" \in cfg[p] /\ {"local", "peer"} \subseteq cfg[p]
                  THEN csm[p].role ELSE CountedRole(p)

-----------------------------------------------------------------------------
(* TCP. *)

Gone(s) == s \in {"closed", "lost"}

(* p's end of c becomes s.  A connection without ends can be used again. *)
EndsAfter(c, p, s) ==
    IF Gone(end[c][Other(p)]) THEN [q \in Peer |-> "none"]
                              ELSE [end[c] EXCEPT ![p] = s]

ChAfter(c, p) ==
    IF Gone(end[c][Other(p)]) THEN [q \in Peer |-> <<>>]
                              ELSE [ch[c] EXCEPT ![p] = <<>>]

(* write(): what is sent to an end that is gone is lost. *)
ChWith(c, p, out) ==
    IF Gone(end[c][Other(p)]) THEN ch[c] ELSE [ch[c] EXCEPT ![Other(p)] = @ \o out]

(* Mutant: the socket is closed but the CSM is not reset. *)
Disconnect_NoReset(p) ==
    /\ sock' = [sock EXCEPT ![p] = NoConn]
    /\ UNCHANGED csm
    /\ IF sock[p] = NoConn
         THEN UNCHANGED <<end, ch>>
         ELSE /\ end' = [end EXCEPT ![sock[p]] = EndsAfter(sock[p], p, "closed")]
              /\ ch' = [ch EXCEPT ![sock[p]] = ChAfter(sock[p], p)]

(* Mutant: the reset forgets peer_capability_flag. *)
Disconnect_KeepsPeerFlag(p) ==
    /\ sock' = [sock EXCEPT ![p] = NoConn]
    /\ csm' = [csm EXCEPT ![p] = [ResetCsm EXCEPT !.pcap = csm[p].pcap]]
    /\ IF sock[p] = NoConn
         THEN UNCHANGED <<end, ch>>
         ELSE /\ end' = [end EXCEPT ![sock[p]] = EndsAfter(sock[p], p, "closed")]
              /\ ch' = [ch EXCEPT ![sock[p]] = ChAfter(sock[p], p)]

(* scheduler_session_disconnect_handler on a CSM with a socket. *)
Disconnect(p) ==
    /\ sock' = [sock EXCEPT ![p] = NoConn]
    /\ csm' = [csm EXCEPT ![p] = ResetCsm]
    /\ IF sock[p] = NoConn
         THEN UNCHANGED <<end, ch>>
         ELSE /\ end' = [end EXCEPT ![sock[p]] = EndsAfter(sock[p], p, "closed")]
              /\ ch' = [ch EXCEPT ![sock[p]] = ChAfter(sock[p], p)]

(* The same, by a command handled in this turn of the loop. *)
CommandDisconnect(p) ==
    /\ Disconnect(p)
    /\ turn' = IF sock[p] # NoConn /\ turn[p] = "idle"
               THEN [turn EXCEPT ![p] = "stale"] ELSE turn

-----------------------------------------------------------------------------
(* iccp_csm_transit, for a CSM that has a session. *)

(* Mutant: the RG id of a message is not compared. *)
CheckId_Any(p, i, m) == i

(* iccp_csm_check_id_from_msg *)
CheckId(p, i, m) == IF m.type = "CAP" THEN i
                    ELSE [i EXCEPT !.status = (m.rg # RgId[p])]

(* iccp_csm_correspond_from_msg.  A RG_DISCONNECT clears the flags only when *)
(* its code is RG_REMOVED, a status no code path sets.                       *)
Correspond(p, i, m) ==
    LET j == CheckId(p, i, m)
    IN  CASE m.type = "CAP"        -> [j EXCEPT !.pcap = @ \/ m.s]
          [] m.type = "RG_CONNECT" -> [j EXCEPT !.prg = TRUE]
          [] OTHER                 -> j

Received(p) == LET i == csm[p]
               IN  IF i.queue = <<>> THEN i
                   ELSE [Correspond(p, i, Head(i.queue)) EXCEPT !.queue = Tail(@)]

(* Mutant: no RG_CONNECT once the peer's has come. *)
Prepared_NoAnswer(p, i) ==
    CASE i.state = "INITIALIZED" -> << [type |-> "CAP", s |-> i.scap] >>
      [] i.state = "CAPREC" /\ ~i.status /\ ~i.prg ->
            << [type |-> "RG_CONNECT", rg |-> RgId[p]] >>
      [] OTHER -> <<>>

(* iccp_csm_prepare_iccp_msg: what the transit out of i.state sends. *)
Prepared(p, i) ==
    CASE i.state = "INITIALIZED" -> << [type |-> "CAP", s |-> i.scap] >>
      [] i.state = "CAPREC" /\ ~i.status -> << [type |-> "RG_CONNECT", rg |-> RgId[p]] >>
      [] i.state \in {"CAPREC", "CONNECTING"} /\ i.status ->
            << [type |-> "NAK", rg |-> RgId[p]] >>
      [] i.state = "OPERATIONAL" /\ ~i.prg ->
            << [type |-> "RG_DISCONNECT", rg |-> RgId[p]] >>
      [] OTHER -> <<>>

(* Mutant: the next state is one past the last. *)
NextState_Overrun(i) ==
    CASE i.state \in {"INITIALIZED", "CAPSENT"} /\ i.scap ->
            IF i.pcap THEN "CAPREC" ELSE "CAPSENT"
      [] i.state = "CAPREC" -> "CONNECTING"
      [] i.state = "CONNECTING" /\ i.prg -> "OPERATIONAL"
      [] i.state = "OPERATIONAL" -> "OPERATIONAL + 1"
      [] OTHER -> i.state

NextState(i) ==
    CASE i.state \in {"INITIALIZED", "CAPSENT"} /\ i.scap ->
            IF i.pcap THEN "CAPREC" ELSE "CAPSENT"
      [] i.state = "CAPREC" /\ ~i.status ->
            IF i.prg THEN "OPERATIONAL" ELSE "CONNECTING"
      [] i.state = "CONNECTING" /\ i.status -> "CAPREC"
      [] i.state = "CONNECTING" /\ i.prg /\ ~i.status -> "OPERATIONAL"
      [] i.state = "OPERATIONAL" /\ ~(i.srg /\ i.prg) -> "CAPREC"
      [] OTHER -> i.state

(* iccp_csm_enter_state_*: run when the state changed or a message came. *)
Entered(i) ==
    CASE i.state = "INITIALIZED" -> [i EXCEPT !.scap = TRUE]
      [] i.state = "CAPREC"      -> [i EXCEPT !.scap = TRUE, !.pcap = TRUE]
      [] i.state = "CONNECTING"  -> [i EXCEPT !.srg = TRUE]
      [] i.state = "OPERATIONAL" -> [i EXCEPT !.srg = TRUE, !.prg = TRUE]
      [] OTHER -> i

(* The CSM after iccp_csm_transit and app_csm_transit. *)
Transited(p) ==
    LET i == Received(p)
        j == [i EXCEPT !.state = NextState(i)]
        k == IF j.state # csm[p].state \/ csm[p].queue # <<>> THEN Entered(j) ELSE j
    IN  [k EXCEPT !.app = @ \/ k.state = "OPERATIONAL"]

(* One turn of the state machines.  SockBuf bounds what is under way; the   *)
(* real buffers, of megabytes, do not fill with these messages (the         *)
(* server's write() would block, the client's fail after SO_SNDTIMEO).      *)
Transit(p) ==
    LET c == sock[p]
        out == Prepared(p, Received(p))
    IN  /\ alive[p] /\ c # NoConn
        /\ csm[p].state # "NONEXISTENT"
        /\ out # <<>> => Len(ch[c][Other(p)]) < SockBuf
        /\ csm' = [csm EXCEPT ![p] = Transited(p)]
        /\ ch' = [ch EXCEPT ![c] = ChWith(c, p, out)]
        /\ turn' = [turn EXCEPT ![p] = "idle"]
        /\ UNCHANGED <<alive, cfg, sock, end, acceptq, faults>>

-----------------------------------------------------------------------------
(* iccp_csm_transit in NONEXISTENT, and the sockets. *)

(* A turn that ends without a socket: there is no domain, or               *)
(* scheduler_prepare_session finds the configuration incomplete, this is   *)
(* the server, or connect() fails.                                         *)
PrepareNothing(p) ==
    /\ alive[p] /\ sock[p] = NoConn
    /\ csm' = IF "domain" \in cfg[p]
              THEN [csm EXCEPT ![p].role = CheckedRole(p)] ELSE csm
    /\ turn' = [turn EXCEPT ![p] = "idle"]
    /\ UNCHANGED <<alive, cfg, sock, end, ch, acceptq, faults>>

(* scheduler_prepare_session and session_client_conn_handler: connect()   *)
(* completes with High's kernel; the CSM enters INITIALIZED at once.      *)
Connect(c) ==
    /\ alive[Low] /\ alive[High]
    /\ ConfigOk(Low) /\ sock[Low] = NoConn
    /\ end[c] = [p \in Peer |-> "none"]
    /\ sock' = [sock EXCEPT ![Low] = c]
    /\ csm' = [csm EXCEPT ![Low] = Entered([@ EXCEPT !.state = "INITIALIZED",
                                                     !.role = CheckedRole(Low)])]
    /\ turn' = [turn EXCEPT ![Low] = "idle"]
    /\ end' = [end EXCEPT ![c] = [p \in Peer |-> IF p = Low THEN "open" ELSE "queued"]]
    /\ acceptq' = Append(acceptq, c)
    /\ UNCHANGED <<alive, cfg, ch, faults>>

(* Mutant: the listen queue is not consumed. *)
Accept_Again ==
    /\ alive[High] /\ acceptq # <<>>
    /\ sock[High] = NoConn /\ ConfigOk(High)
    /\ sock' = [sock EXCEPT ![High] = Head(acceptq)]
    /\ csm' = [csm EXCEPT ![High] = [@ EXCEPT !.state = "NONEXISTENT",
                                              !.role = CheckedRole(High)]]
    /\ end' = [end EXCEPT ![Head(acceptq)][High] = "open"]
    /\ UNCHANGED <<alive, cfg, turn, ch, acceptq, faults>>

(* scheduler_server_accept keeps the connection. *)
Accept ==
    /\ alive[High] /\ acceptq # <<>>
    /\ sock[High] = NoConn /\ ConfigOk(High)
    /\ sock' = [sock EXCEPT ![High] = Head(acceptq)]
    /\ csm' = [csm EXCEPT ![High] = [@ EXCEPT !.state = "NONEXISTENT",
                                              !.role = CheckedRole(High)]]
    /\ end' = [end EXCEPT ![Head(acceptq)][High] = "open"]
    /\ acceptq' = Tail(acceptq)
    /\ UNCHANGED <<alive, cfg, turn, ch, faults>>

(* scheduler_server_accept closes it: no CSM has this peer address, the CSM *)
(* still has a socket, or its configuration is incomplete.                  *)
Reject ==
    /\ alive[High] /\ acceptq # <<>>
    /\ sock[High] # NoConn \/ ~ConfigOk(High)
    /\ csm' = IF {"domain", "peer"} \subseteq cfg[High] /\ sock[High] = NoConn
              THEN [csm EXCEPT ![High].role = CheckedRole(High)] ELSE csm
    /\ LET c == Head(acceptq)
       IN  /\ end' = [end EXCEPT ![c] = EndsAfter(c, High, "closed")]
           /\ ch' = [ch EXCEPT ![c] = ChAfter(c, High)]
    /\ acceptq' = Tail(acceptq)
    /\ UNCHANGED <<alive, cfg, sock, turn, faults>>

(* iccp_csm_transit in NONEXISTENT with an accepted socket.  A message that *)
(* was read before this transit is dequeued and dropped.                    *)
TransitAccepted(p) ==
    /\ alive[p] /\ sock[p] # NoConn /\ csm[p].state = "NONEXISTENT"
    /\ ConfigOk(p)
    /\ csm' = [csm EXCEPT ![p] = Entered([@ EXCEPT !.state = "INITIALIZED",
                                                   !.role = CheckedRole(p),
                                                   !.queue = <<>>])]
    /\ turn' = [turn EXCEPT ![p] = "idle"]
    /\ UNCHANGED <<alive, cfg, sock, end, ch, acceptq, faults>>

(* scheduler_csm_read_callback reads a message.  It can come before the    *)
(* first transit of an accepted socket when accept() reuses the number of  *)
(* a descriptor that a command closed earlier in this turn: epoll_wait has *)
(* already returned an event for that number.                              *)
Read(p) ==
    LET c == sock[p]
    IN  /\ alive[p] /\ c # NoConn
        /\ turn[p] = IF csm[p].state = "NONEXISTENT" THEN "stale" ELSE "idle"
        /\ ch[c][p] # <<>>
        /\ csm' = [csm EXCEPT ![p].queue = Append(@, Head(ch[c][p]))]
        /\ ch' = [ch EXCEPT ![c][p] = Tail(@)]
        /\ turn' = [turn EXCEPT ![p] = "read"]
        /\ UNCHANGED <<alive, cfg, sock, end, acceptq, faults>>

(* recv() fails.  The far end was closed: EOF once everything is read, or a *)
(* reset that discards it; or its host lost the connection and came back.   *)
ReadError(p) ==
    LET c == sock[p]
    IN  /\ alive[p] /\ c # NoConn /\ turn[p] = "idle"
        /\ \/ end[c][Other(p)] = "closed"
           \/ end[c][Other(p)] = "lost" /\ alive[Other(p)]
        /\ Disconnect(p)
        /\ turn' = [turn EXCEPT ![p] = "read"]
        /\ UNCHANGED <<alive, cfg, acceptq, faults>>

(* p is to hear nothing more on its connection: the far end is gone, or     *)
(* both state machines wait for a message and none is on its way.           *)
Silent(p) ==
    LET c == sock[p]
        q == Other(p)
    IN  /\ ch[c][p] = <<>> /\ csm[p].queue = <<>>
        /\ \/ Gone(end[c][q])
           \/ /\ sock[q] = c /\ ch[c][q] = <<>> /\ csm[q].queue = <<>>
              /\ \A r \in Peer : csm[r].state \in {"CAPSENT", "CONNECTING"}

Spend == faults < MaxFaults /\ faults' = faults + 1

(* Mutant: only an operational session is watched. *)
Timeout_OperationalOnly(p) ==
    /\ alive[p] /\ sock[p] # NoConn /\ csm[p].state = "OPERATIONAL"
    /\ IF Silent(p) THEN UNCHANGED faults ELSE Spend
    /\ Disconnect(p)
    /\ turn' = [turn EXCEPT ![p] = "idle"]
    /\ UNCHANGED <<alive, cfg, acceptq>>

(* heartbeat_check: nothing was read for session_timeout seconds.  Any      *)
(* message counts as a heartbeat, so a timeout is due when the far end is   *)
(* silent; a premature one (a stalled switch or network) is a fault.        *)
Timeout(p) ==
    /\ alive[p] /\ sock[p] # NoConn
    /\ IF Silent(p) THEN UNCHANGED faults ELSE Spend
    /\ Disconnect(p)
    /\ turn' = [turn EXCEPT ![p] = "idle"]
    /\ UNCHANGED <<alive, cfg, acceptq>>

-----------------------------------------------------------------------------
(* Crashes, and configuration from mclagsyncd (iccp_cli.c). *)

(* The process ends: killed, its sockets are closed; power loss, its ends   *)
(* are lost.  s is what the far side sees.                                  *)
Crash(p, s) ==
    /\ alive[p] /\ Spend
    /\ alive' = [alive EXCEPT ![p] = FALSE]
    /\ cfg' = [cfg EXCEPT ![p] = {}]
    /\ sock' = [sock EXCEPT ![p] = NoConn]
    /\ csm' = [csm EXCEPT ![p] = ResetCsm]
    /\ turn' = [turn EXCEPT ![p] = "idle"]
    /\ end' = [c \in Conn |-> IF end[c][p] \in {"open", "queued"}
                              THEN EndsAfter(c, p, s) ELSE end[c]]
    /\ ch' = [c \in Conn |-> IF end[c][p] \in {"open", "queued"}
                             THEN ChAfter(c, p) ELSE ch[c]]
    /\ acceptq' = IF p = High THEN <<>> ELSE acceptq

Restart(p) ==
    /\ ~alive[p]
    /\ alive' = [alive EXCEPT ![p] = TRUE]
    /\ UNCHANGED <<cfg, sock, csm, turn, end, ch, acceptq, faults>>

(* A domain is added (set_mc_lag_by_id) with the addresses that attr_bmap   *)
(* of the message names; the others come in later messages.                 *)
AddDomain(p, attrs) ==
    /\ alive[p] /\ "domain" \notin cfg[p]
    /\ cfg' = [cfg EXCEPT ![p] = {"domain"} \cup attrs]
    /\ UNCHANGED <<alive, sock, csm, turn, end, ch, acceptq, faults>>

(* set_local_address, set_peer_address with an attribute that is not set. *)
SetAddress(p, a) ==
    /\ alive[p] /\ "domain" \in cfg[p] /\ a \notin cfg[p]
    /\ cfg' = [cfg EXCEPT ![p] = @ \cup {a}]
    /\ UNCHANGED <<alive, sock, csm, turn, end, ch, acceptq, faults>>

(* unset_local_address, unset_peer_address *)
UnsetAddress(p, a) ==
    /\ alive[p] /\ "domain" \in cfg[p] /\ a \in cfg[p] /\ Spend
    /\ cfg' = [cfg EXCEPT ![p] = @ \ {a}]
    /\ CommandDisconnect(p)
    /\ UNCHANGED <<alive, acceptq>>

(* set_peer_link with an interface that is not there, or local_if_destroy   *)
(* of the peer-link: both disconnect.                                       *)
PeerLinkMissing(p) ==
    /\ alive[p] /\ "domain" \in cfg[p] /\ "badlink" \notin cfg[p] /\ Spend
    /\ cfg' = [cfg EXCEPT ![p] = @ \cup {"badlink"}]
    /\ CommandDisconnect(p)
    /\ UNCHANGED <<alive, acceptq>>

(* The peer-link interface appears (local_if_create). *)
PeerLinkPresent(p) ==
    /\ alive[p] /\ "badlink" \in cfg[p]
    /\ cfg' = [cfg EXCEPT ![p] = @ \ {"badlink"}]
    /\ UNCHANGED <<alive, sock, csm, turn, end, ch, acceptq, faults>>

(* set_peer_link to another existing interface and unset_peer_link: the     *)
(* session is reset and a missing peer-link no longer holds it down.        *)
ChangePeerLink(p) ==
    /\ alive[p] /\ "domain" \in cfg[p] /\ Spend
    /\ cfg' = [cfg EXCEPT ![p] = @ \ {"badlink"}]
    /\ CommandDisconnect(p)
    /\ UNCHANGED <<alive, acceptq>>

(* unset_mc_lag_id: iccp_csm_finalize frees the CSM. *)
DelDomain(p) ==
    /\ alive[p] /\ "domain" \in cfg[p] /\ Spend
    /\ cfg' = [cfg EXCEPT ![p] = {}]
    /\ CommandDisconnect(p)
    /\ UNCHANGED <<alive, acceptq>>

Address == {"local", "peer"}

Configure(p) ==
    \/ \E attrs \in SUBSET Address : AddDomain(p, attrs)
    \/ \E a \in Address : SetAddress(p, a) \/ UnsetAddress(p, a)
    \/ PeerLinkMissing(p)
    \/ PeerLinkPresent(p)
    \/ ChangePeerLink(p)
    \/ DelDomain(p)

Next ==
    \/ \E c \in Conn : Connect(c)
    \/ Accept
    \/ Reject
    \/ \E p \in Peer : \/ PrepareNothing(p)
                       \/ TransitAccepted(p)
                       \/ Transit(p)
                       \/ Read(p)
                       \/ ReadError(p)
                       \/ Timeout(p)
                       \/ \E s \in {"closed", "lost"} : Crash(p, s)
                       \/ Restart(p)
                       \/ Configure(p)

Spec == Init /\ [][Next]_vars
-----------------------------------------------------------------------------
(* Fairness: scheduler_loop never stops turning (epoll_wait returns after   *)
(* EPOLL_TIMEOUT_MSEC), a due timeout is found by heartbeat_check in some   *)
(* later turn, connect() is retried every CONNECT_INTERVAL_SEC, supervisord *)
(* restarts iccpd and mclagsyncd replays the configuration.                 *)
Fairness ==
    /\ WF_vars(\E c \in Conn : Connect(c))
    /\ WF_vars(Accept)
    /\ WF_vars(Reject)
    /\ \A p \in Peer :
          /\ WF_vars(TransitAccepted(p))
          /\ WF_vars(Transit(p))
          /\ WF_vars(Read(p))
          /\ WF_vars(ReadError(p))
          /\ WF_vars(Timeout(p) /\ UNCHANGED faults)
          /\ WF_vars(PrepareNothing(p))
          /\ WF_vars(Restart(p))
          /\ WF_vars(AddDomain(p, Address))
          /\ \A a \in Address : WF_vars(SetAddress(p, a))
          /\ WF_vars(PeerLinkPresent(p))

FairSpec == Spec /\ Fairness

Operational(p) == csm[p].state = "OPERATIONAL"

(* A CSM that has left NONEXISTENT has an open socket.  Otherwise          *)
(* iccp_csm_transit finalizes, that is frees, the CSM and                  *)
(* scheduler_transit_fsm goes on using it in the same turn.                *)
NoOrphanState ==
    \A p \in Peer : csm[p].state # "NONEXISTENT" =>
        sock[p] # NoConn /\ end[sock[p]][p] = "open"

(* Switches of different redundancy groups never become operational: a     *)
(* RG_CONNECT of another group sets status_code before the transit reads   *)
(* peer_rg_connect_flag, and nothing the peer sends clears it.             *)
RgAgreement ==
    \A p \in Peer : Operational(p) => RgId[Low] = RgId[High]

(* What a switch believes about its peer was said on this connection: a    *)
(* peer whose capability is known has sent it here, so nothing survives    *)
(* from a connection that was closed before (iccp_csm_status_reset).       *)
NoStaleCapability ==
    \A p \in Peer : LET q == Other(p)
        IN  csm[p].pcap /\ sock[q] = sock[p] =>
                csm[q].state \notin {"NONEXISTENT", "INITIALIZED"}

(* When one end is operational the other, if it still has the connection,  *)
(* is operational too or has the RG_CONNECT that will make it so before it.*)
OperationalTogether ==
    \A p \in Peer : LET q == Other(p)
                        coming == ch[sock[p]][q] \o csm[q].queue
        IN  Operational(p) /\ sock[q] = sock[p] =>
                \/ Operational(q)
                \/ /\ csm[q].state = "CONNECTING"
                   /\ \E n \in DOMAIN coming : coming[n].type = "RG_CONNECT"

(* Two switches that have each other's capability, operational ones among  *)
(* them, use the same connection, however many connections a client that   *)
(* was refused or timed out has opened meanwhile.                          *)
SameConnection == csm[Low].pcap /\ csm[High].pcap => sock[Low] = sock[High]

(* p is in the session: operational, or about to become so with the peer    *)
(* that already is.                                                         *)
Joined(p) == \/ Operational(p)
             \/ Operational(Other(p)) /\ sock[p] = sock[Other(p)]

TheSession == INSTANCE Session WITH joined <- [p \in Peer |-> Joined(p)]

(* The session is what MlacpSync and MacSync take it for: no end comes back *)
(* to a peer that still holds the old session, however the timeouts,        *)
(* refused connections and restarts of the two switches interleave.         *)
ImplementsSession == TheSession!Spec

(* "lower ip to be active & socket client" (iccp_csm_stp_role_count): in an *)
(* established session the client is the active switch and the server the   *)
(* standby one.  The stages need one of each (mlacp_stage_handler).  The    *)
(* code does not keep it: a role counted while an address is missing stays. *)
RoleByAddress ==
    (\A p \in Peer : Operational(p)) => csm[Low].role = "ACTIVE" /\ csm[High].role = "STANDBY"

(* Once faults stop the session comes up and stays up: no half-open        *)
(* connection, refused client or lost capability message wedges it.        *)
SessionRecovers == <>[](Operational(Low) /\ Operational(High))

-----------------------------------------------------------------------------
(* The inductive invariant behind NoOrphanState and RgAgreement. *)

(* The connection a switch uses is one whose end it holds open. *)
SocketsOpen == \A p \in Peer : sock[p] # NoConn => end[sock[p]][p] = "open"

(* A state other than NONEXISTENT needs a socket. *)
StateNeedsSocket ==
    \A p \in Peer : csm[p].state # "NONEXISTENT" => sock[p] # NoConn

(* The listen queue holds distinct connections not yet accepted. *)
ListenQueue ==
    /\ \A n \in 1..Len(acceptq) : end[acceptq[n]][High] = "queued"
    /\ \A m, n \in 1..Len(acceptq) : acceptq[m] = acceptq[n] => m = n

(* m, received by p, names the group of the other switch. *)
FromPeer(p, m) == m.type # "CAP" => m.rg = RgId[Other(p)]

MessagesFromPeer ==
    \A p \in Peer :
        /\ \A c \in Conn : \A n \in 1..Len(ch[c][p]) : FromPeer(p, ch[c][p][n])
        /\ \A n \in 1..Len(csm[p].queue) : FromPeer(p, csm[p].queue[n])

(* Once RG_CONNECT has come, status_code tells whether the groups differ;   *)
(* an operational CSM has seen it and has no error.                         *)
FlagsTellGroup(p, i) ==
    /\ i.prg => i.status = (RgId[p] # RgId[Other(p)])
    /\ i.state = "OPERATIONAL" => i.prg /\ ~i.status

GroupKnown == \A p \in Peer : FlagsTellGroup(p, csm[p])

SessionInv ==
    /\ TypeOK
    /\ SocketsOpen
    /\ StateNeedsSocket
    /\ ListenQueue
    /\ MessagesFromPeer
    /\ GroupKnown

-----------------------------------------------------------------------------
(* The inductive invariant behind SameConnection, NoStaleCapability,       *)
(* OperationalTogether and ImplementsSession, beyond SessionInv.           *)

HasRgConnect(s) == \E n \in 1..Len(s) : s[n].type = "RG_CONNECT"

(* q has run a transit on connection c, on which it is or was. *)
Spoke(q, c) ==
    \/ Gone(end[c][q])
    \/ sock[q] = c /\ csm[q].state \notin {"NONEXISTENT", "INITIALIZED"}

(* Something that was said on connection c is on its way to p or has been  *)
(* taken in by p.                                                          *)
Heard(p, c) ==
    \/ ch[c][p] # <<>>
    \/ sock[p] = c /\ (csm[p].queue # <<>> \/ csm[p].pcap \/ csm[p].prg)

(* An open end is the one in use, both ends are reused together, and only  *)
(* an end that still exists has messages waiting.                          *)
EndsInUse ==
    \A c \in Conn :
        /\ end[c][Low] = "none" <=> end[c][High] = "none"
        /\ \A p \in Peer : /\ end[c][p] = "open" => sock[p] = c
                           /\ ch[c][p] # <<>> => end[c][p] \in {"open", "queued"}

(* The connection that Low uses is the last one it opened: if High has not *)
(* accepted it, it is last in the listen queue, and otherwise the queue is *)
(* empty.                                                                  *)
LatestQueued ==
    sock[Low] # NoConn =>
        IF end[sock[Low]][High] = "queued"
        THEN acceptq # <<>> /\ acceptq[Len(acceptq)] = sock[Low]
        ELSE acceptq = <<>>

(* The flags a state stands for; without a session none is left. *)
FlagsOfState(p) ==
    LET i == csm[p]
    IN  /\ i.state = "NONEXISTENT" => ~i.scap /\ ~i.pcap /\ ~i.srg /\ ~i.prg
        /\ i.state = "INITIALIZED" => i.scap /\ ~i.pcap /\ ~i.srg /\ ~i.prg
        /\ i.state = "CAPSENT" => i.scap
        /\ i.state \in {"CAPREC", "CONNECTING", "OPERATIONAL"} => i.scap /\ i.pcap
        /\ i.state = "CONNECTING" /\ ~i.status => ~i.prg
        /\ i.state = "OPERATIONAL" => i.srg /\ i.prg
        /\ sock[p] = NoConn => i.queue = <<>>

(* What p has heard on a connection its peer has said there ... *)
HeardWasSaid == \A p \in Peer, c \in Conn : Heard(p, c) => Spoke(Other(p), c)

(* ... and a RG_CONNECT was said by a peer that knew p's capability. *)
ConnectSaid ==
    \A p \in Peer, c \in Conn :
        HasRgConnect(ch[c][p]) =>
            \/ Gone(end[c][Other(p)])
            \/ sock[Other(p)] = c /\ csm[Other(p)].pcap

(* A server that was heard by the client has not gone back to a connection *)
(* the client left.                                                        *)
HeardHolds ==
    sock[Low] # NoConn /\ Heard(Low, sock[Low]) => sock[High] \in {sock[Low], NoConn}

(* In one group, on one connection: RG_CONNECT has come to p, or will,     *)
(* exactly when the peer is connecting or operational.                     *)
ConnectToCome(p) ==
    csm[p].prg \/ HasRgConnect(csm[p].queue) \/ HasRgConnect(ch[sock[p]][p])

ConnectTold ==
    RgId[Low] = RgId[High] =>
        \A p \in Peer :
            /\ ~csm[p].status
            /\ sock[p] # NoConn /\ sock[Other(p)] = sock[p] =>
                  (ConnectToCome(p) <=> csm[Other(p)].state \in {"CONNECTING", "OPERATIONAL"})

(* What makes the two ends agree, in every state of the handshake of        *)
(* iccp_csm_transit: connections are used in the order they were made, the  *)
(* flags of a CSM are those of its state, and what an end knows of its peer  *)
(* is what the peer said on this connection or is about to say.             *)
AgreementInv ==
    /\ EndsInUse
    /\ LatestQueued
    /\ \A p \in Peer : FlagsOfState(p)
    /\ HeardWasSaid
    /\ ConnectSaid
    /\ HeardHolds
    /\ ConnectTold

=============================================================================
