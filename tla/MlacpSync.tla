----------------------------- MODULE MlacpSync -----------------------------
(***************************************************************************)
(* mLACP on top of an ICCP session: the staged synchronisation and the     *)
(* exchange of port-channel configuration and state between the switches   *)
(* of an MC-LAG domain (mlacp_fsm.c, mlacp_sync_update.c), and what each   *)
(* switch derives from it: the isolation of its MC-LAG interfaces from the *)
(* peer-link and the blocking of their traffic until the peer has          *)
(* acknowledged them (mlacp_link_handler.c, app_csm.c, port.c).            *)
(*                                                                         *)
(* iccpd is single threaded: netlink and mclagsyncd events come between    *)
(* two runs of mlacp_fsm_transit, any number of them in one turn of the    *)
(* loop; a turn reads at most one message from the peer.                   *)
(*                                                                         *)
(* The session is the one IccpSession describes: both switches join a new  *)
(* connection after both have left the old one; either may leave at any    *)
(* time.  Active has the lower address.  A peer-link is configured.        *)
(***************************************************************************)
EXTENDS Naturals, FiniteSets, SequencesExt

CONSTANTS Active, Standby, \* the switches, by role
          NPo,             \* number of port-channels on each switch
          Ops,             \* operations the environment performs in a run
          MaxEvents        \* bound: how many of them

Peer == {Active, Standby}
Po == 1..NPo

ASSUME PeerAssumption == Active # Standby
ASSUME OpsAssumption ==
    Ops \subseteq {"link", "config", "attach", "detach", "destroy", "leave"}
ASSUME BoundAssumption == NPo \in Nat /\ MaxEvents \in Nat

VARIABLES joined,  \* p's end of the session is operational
          sw,      \* the mLACP state of p
          ch,      \* messages on their way to p
          wanted,  \* MC-LAG interfaces mclagsyncd has configured on p
          events   \* events spent

vars == <<joined, sw, ch, wanted, events>>

Other(p) == IF p = Active THEN Standby ELSE Active

(* MLACP_APP_STATE_E *)
State == {"INIT", "STAGE1", "STAGE2", "EXCHANGE", "ERROR"}

(* struct PeerInterface: "up" and "down" are both its state and po_active. *)
PeerIf == {"none", "up", "down"}

UpDown(up) == IF up THEN "up" ELSE "down"

(* struct LocalInterface: up is state, active is po_active, sync is        *)
(* port_config_sync, blocked is is_traffic_disable, isolated is            *)
(* isolate_to_peer_link; bound means that csm is set.                      *)
LocalIf == [exists : BOOLEAN, bound : BOOLEAN, up : BOOLEAN, active : BOOLEAN,
            sync : BOOLEAN, changed : BOOLEAN, blocked : BOOLEAN,
            isolated : BOOLEAN]

(* local_if_create *)
NewIf(up) == [exists |-> TRUE, bound |-> FALSE, up |-> up, active |-> up,
              sync |-> FALSE, changed |-> TRUE, blocked |-> FALSE,
              isolated |-> FALSE]

NoIf == [exists |-> FALSE, bound |-> FALSE, up |-> FALSE, active |-> FALSE,
         sync |-> FALSE, changed |-> FALSE, blocked |-> FALSE,
         isolated |-> FALSE]

(* "INFO" stands for all that mlacp_sync_send_all_info_handler sends, up to *)
(* the SyncData message that ends it.                                       *)
Msg == [type : {"SYNC_REQ"}] \cup [type : {"INFO"}, po : [Po -> PeerIf]]
         \cup [type : {"CONF", "PURGE", "ACK"}, po : Po]
         \cup [type : {"STATE"}, po : Po, up : BOOLEAN]

(* An entry of lif_purge_list; a gone interface has been destroyed since, so *)
(* that it is no longer the one of that name.                                *)
Purged == [po : Po, gone : BOOLEAN]

(* struct MLACP; bind is the if_bind_list of the CSM. *)
Switch == [state : State, wait : BOOLEAN, need : BOOLEAN,
           lif : [Po -> LocalIf], pif : [Po -> PeerIf],
           purge : Seq(Purged), bind : SUBSET Po]

TypeOK ==
    /\ joined \in [Peer -> BOOLEAN]
    /\ sw \in [Peer -> Switch]
    /\ ch \in [Peer -> Seq(Msg)]
    /\ wanted \in [Peer -> SUBSET Po]
    /\ events \in 0..MaxEvents

Init ==
    /\ joined = [p \in Peer |-> FALSE]
    /\ sw \in [Peer -> [state : {"INIT"}, wait : {FALSE}, need : {FALSE},
                        lif : [Po -> {NewIf(up) : up \in BOOLEAN}],
                        pif : {[i \in Po |-> "none"]},
                        purge : {<<>>}, bind : {{}}]]
    /\ ch = [p \in Peer |-> <<>>]
    /\ wanted = [p \in Peer |-> {}]
    /\ events = 0

-----------------------------------------------------------------------------
(* Isolation, traffic and the local interfaces. *)

(* Mutant: an interface whose state is unchanged is skipped. *)
IsolatedFromLif_IfChanged(s, i, up) ==
    IF s.state = "EXCHANGE" /\ up /\ s.lif[i].active # up
    THEN s.pif[i] # "down" ELSE s.lif[i].isolated

(* update_peerlink_isolate_from_lif: an unknown peer interface counts as up. *)
IsolatedFromLif(s, i, up) ==
    IF s.state = "EXCHANGE" /\ up THEN s.pif[i] # "down" ELSE s.lif[i].isolated

(* update_peerlink_isolate_from_pif *)
IsolatedFromPif(s, i, up, new) ==
    IF /\ s.state = "EXCHANGE"
       /\ s.lif[i].bound /\ s.lif[i].active
       /\ new \/ s.pif[i] # UpDown(up)
    THEN up ELSE s.lif[i].isolated

(* mlacp_link_disable_traffic_distribution *)
TrafficDisabled(s, l) ==
    [l EXCEPT !.blocked = @ \/ (l.bound /\ ~l.active /\ s.state = "EXCHANGE")]

(* mlacp_link_enable_traffic_distribution: nothing without a CSM. *)
TrafficEnabled(l) == [l EXCEPT !.blocked = @ /\ ~l.bound]

(* update_po_if_info *)
PoInfo(l, up) == [l EXCEPT !.changed = @ \/ l.active # up, !.active = up]

(* mlacp_portchannel_state_handler *)
PoState(s, i, up) ==
    LET l == PoInfo([s.lif[i] EXCEPT !.isolated = IsolatedFromLif(s, i, up)], up)
    IN  IF up THEN l ELSE TrafficDisabled(s, l)

(* mlacp_peer_conn_handler *)
Connected(s) ==
    [s EXCEPT !.lif = [i \in Po |-> IF s.lif[i].bound THEN PoState(s, i, s.lif[i].up)
                                                     ELSE s.lif[i]]]

(* Mutant: port isolation is not cleaned up. *)
Disconnected_KeepsIsolation(s) ==
    [s EXCEPT !.state = "INIT", !.need = FALSE, !.purge = <<>>,
              !.pif = [i \in Po |-> "none"],
              !.lif = [i \in Po |-> TrafficEnabled(s.lif[i])]]

(* mlacp_peer_disconn_handler, for the interfaces of lif_list, and           *)
(* mlacp_init(csm, 0).                                                       *)
Disconnected(s) ==
    [s EXCEPT !.state = "INIT", !.need = FALSE, !.purge = <<>>,
              !.pif = [i \in Po |-> "none"],
              !.lif = [i \in Po |-> TrafficEnabled([s.lif[i] EXCEPT
                                                        !.isolated = @ /\ ~s.lif[i].bound])]]

(* Mutant: the pending purge stays. *)
Joined_KeepsPurge(s, i) ==
    IF s.lif[i].bound THEN s
    ELSE [s EXCEPT !.lif[i] = [@ EXCEPT !.bound = TRUE, !.sync = TRUE]]

(* Mutant: the configuration is not marked for the peer. *)
Joined_NoSync(s, i) ==
    IF s.lif[i].bound THEN s
    ELSE [s EXCEPT !.purge = RemoveFirst(@, [po |-> i, gone |-> FALSE]),
                   !.lif[i].bound = TRUE]

(* mlacp_bind_local_if: a pending purge of the interface is withdrawn. *)
Joined(s, i) ==
    IF s.lif[i].bound THEN s
    ELSE [s EXCEPT !.purge = RemoveFirst(@, [po |-> i, gone |-> FALSE]),
                   !.lif[i] = [@ EXCEPT !.bound = TRUE, !.sync = TRUE]]

(* mlacp_bind_port_channel_to_csm, with mlacp_mlag_link_add_handler *)
Bound(s, i) ==
    LET t == Joined(s, i)
    IN  [t EXCEPT !.lif[i].isolated = IsolatedFromLif(t, i, s.lif[i].active)]

(* mlacp_mlag_intf_detach_handler.  A peer-link is configured, so traffic    *)
(* that is blocked stays so.                                                 *)
Detached(s, i) == [s EXCEPT !.lif[i].isolated = @ /\ s.state # "EXCHANGE"]

(* mlacp_unbind_local_if: the peer will be told, in EXCHANGE. *)
Unbound(s, i) ==
    [s EXCEPT !.lif[i].bound = FALSE,
              !.purge = IF s.state = "EXCHANGE" THEN << [po |-> i, gone |-> FALSE] >> \o @ ELSE @]

-----------------------------------------------------------------------------
(* Synchronisation. *)

(* Mutant: the standby switch asks in both stages. *)
Requester_StandbyOnly(p, s) == s.state \in {"STAGE1", "STAGE2"} /\ p = Standby

(* mlacp_stage_handler: in STAGE1 the active switch answers, in STAGE2 the  *)
(* standby one.                                                             *)
Requester(p, s) == \/ s.state = "STAGE1" /\ p = Standby
                   \/ s.state = "STAGE2" /\ p = Active

Sender(p, s) == s.state \in {"STAGE1", "STAGE2"} /\ ~Requester(p, s)

(* Mutant: the increment leaves the enumeration. *)
Advanced_Overrun(s) ==
    CASE s.state = "STAGE1" -> [s EXCEPT !.state = "STAGE2"]
      [] s.state = "STAGE2" -> Connected([s EXCEPT !.state = "EXCHANGE"])
      [] OTHER -> [s EXCEPT !.state = "INVALID"]

(* current_state++; entering EXCHANGE runs mlacp_peer_conn_handler before   *)
(* anything else happens.                                                   *)
Advanced(s) ==
    CASE s.state = "STAGE1" -> [s EXCEPT !.state = "STAGE2"]
      [] s.state = "STAGE2" -> Connected([s EXCEPT !.state = "EXCHANGE"])
      [] OTHER -> [s EXCEPT !.state = "ERROR"]

Info(s) == [type |-> "INFO",
            po |-> [i \in Po |-> IF s.lif[i].bound THEN UpDown(s.lif[i].up) ELSE "none"]]

(* port_config_sync and changed are cleared for what was sent. *)
Marked(s) ==
    [i \in Po |-> IF s.lif[i].bound
                  THEN [s.lif[i] EXCEPT !.sync = FALSE, !.changed = FALSE]
                  ELSE s.lif[i]]

(* mlacp_sync_send_all_info_handler *)
SentAll(s) == Advanced([s EXCEPT !.wait = FALSE, !.lif = Marked(s)])

(* mlacp_fsm_update_Agg_conf: a new peer interface is up (PORT_STATE_UP is 0). *)
AggConf(s, i) ==
    LET new == s.pif[i] = "none"
        up == new \/ s.pif[i] = "up"
    IN  [s EXCEPT !.lif[i].isolated = IsolatedFromPif(s, i, up, new),
                  !.pif[i] = UpDown(up)]

(* The same, for a purge. *)
AggPurge(s, i) == IF s.pif[i] = "none" THEN [s EXCEPT !.need = TRUE]
                                       ELSE [s EXCEPT !.pif[i] = "none"]

(* mlacp_fsm_update_Aggport_state *)
AggState(s, i, up) ==
    IF s.pif[i] = "none" THEN s
    ELSE [s EXCEPT !.lif[i].isolated = IsolatedFromPif(s, i, up, FALSE),
                   !.pif[i] = UpDown(up)]

(* The configuration, then the state, of every interface of the peer. *)
Learned(s, po) ==
    LET t(i) == IF po[i] = "none" THEN s ELSE AggState(AggConf(s, i), i, po[i] = "up")
    IN  [s EXCEPT !.wait = FALSE,
                  !.pif = [i \in Po |-> t(i).pif[i]],
                  !.lif = [i \in Po |-> t(i).lif[i]]]

(* mlacp_fsm_recv_if_up_ack *)
Acked(s, i) == IF s.lif[i].active THEN [s EXCEPT !.lif[i] = TrafficEnabled(@)] ELSE s

(* mlacp_sync_receiver_handler *)
Received(s, m) ==
    CASE m.type = "SYNC_REQ" -> SentAll(s)
      [] m.type = "INFO"  -> Learned(s, m.po)
      [] m.type = "CONF"  -> AggConf(s, m.po)
      [] m.type = "PURGE" -> AggPurge(s, m.po)
      [] m.type = "STATE" -> AggState(s, m.po, m.up)
      [] m.type = "ACK"   -> Acked(s, m.po)

(* One pass of the loop in mlacp_fsm_transit with a message. *)
Handled(p, s, m) ==
    CASE Sender(p, s) ->
            IF ~s.wait /\ m.type = "SYNC_REQ" THEN SentAll(s) ELSE s
      [] Requester(p, s) ->
            IF ~s.wait THEN [s EXCEPT !.wait = TRUE]
            ELSE LET r == Received(s, m) IN IF r.wait THEN r ELSE Advanced(r)
      [] s.state = "EXCHANGE" -> Received(s, m)
      [] OTHER -> s

(* What that pass sends at once: the answer to a request. *)
Answer(p, s, m) ==
    IF /\ m.type = "SYNC_REQ"
       /\ \/ Sender(p, s) /\ ~s.wait
          \/ Requester(p, s) /\ s.wait
          \/ s.state = "EXCHANGE"
    THEN << Info(s) >> ELSE <<>>

(* Mutant: an update during EXCHANGE is not acknowledged. *)
Acks_InfoOnly(s, m) ==
    IF s.state # "EXCHANGE" \/ m.type # "INFO" THEN {}
    ELSE {[type |-> "ACK", po |-> i] : i \in {j \in Po : m.po[j] = "up"}}

(* mlacp_fsm_send_if_up_ack *)
Acks(s, m) ==
    IF s.state # "EXCHANGE" THEN {}
    ELSE CASE m.type = "STATE" -> {[type |-> "ACK", po |-> i] : i \in {m.po} \cap {j \in Po : m.up}}
           [] m.type = "INFO"  -> {[type |-> "ACK", po |-> i] : i \in {j \in Po : m.po[j] = "up"}}
           [] OTHER -> {}

(* Mutant: changed is cleared in every turn (local_if_change_flag_clear). *)
Started_ClearsChanged(s) ==
    LET t == [s EXCEPT !.lif = [i \in Po |-> [s.lif[i] EXCEPT !.changed = FALSE]]]
    IN  IF s.state = "INIT" THEN [t EXCEPT !.state = "STAGE1", !.wait = FALSE] ELSE t

(* Mutant: wait_for_sync_data is left as the old session had it. *)
Started_KeepsWait(s) == IF s.state = "INIT" THEN [s EXCEPT !.state = "STAGE1"] ELSE s

(* The first pass after the session came up: INIT to STAGE1. *)
Started(s) == IF s.state = "INIT" THEN [s EXCEPT !.state = "STAGE1", !.wait = FALSE] ELSE s

(* mlacp_stage_sync_request_handler without a message *)
MustRequest(p, s) == Requester(p, s) /\ ~s.wait

Requested(p, s) == IF MustRequest(p, s) THEN [s EXCEPT !.wait = TRUE] ELSE s

Request(p, s) == IF MustRequest(p, s) THEN << [type |-> "SYNC_REQ"] >> ELSE <<>>

AggportConfig(i) == [type |-> "CONF", po |-> i]
AggportPurge(i) == [type |-> "PURGE", po |-> i]
AggportState(s, i) == [type |-> "STATE", po |-> i, up |-> s.lif[i].up]

(* mlacp_exchange_handler sends a request, then the purges, then for each    *)
(* interface of the list, in an order that depends on how it was filled,     *)
(* configuration before state ...                                            *)
Updates(s, i) ==
    IF ~s.lif[i].bound THEN <<>>
    ELSE (IF s.lif[i].sync THEN << AggportConfig(i) >> ELSE <<>>)
           \o (IF s.lif[i].changed THEN << AggportState(s, i) >> ELSE <<>>)

Pending(s, order) ==
    (IF s.need THEN << [type |-> "SYNC_REQ"] >> ELSE <<>>)
      \o [k \in DOMAIN s.purge |-> AggportPurge(s.purge[k].po)]
      \o FlattenSeq([k \in DOMAIN order |-> Updates(s, order[k])])

(* ... marks them as sent, enables the traffic of a purged interface and     *)
(* disables that of a member that is down.                                   *)
Flushed(s) ==
    LET purged(i) == \E k \in DOMAIN s.purge : s.purge[k] = [po |-> i, gone |-> FALSE]
        traffic(i) == CASE purged(i) -> TrafficEnabled(s.lif[i])
                        [] s.lif[i].bound /\ s.lif[i].sync -> TrafficDisabled(s, s.lif[i])
                        [] OTHER -> s.lif[i]
    IN  [s EXCEPT !.need = FALSE, !.purge = <<>>,
                  !.lif = Marked([s EXCEPT !.lif = [i \in Po |-> traffic(i)]])]

(* One turn of the loop for p: mlacp_fsm_transit with n messages.  The last *)
(* pass has none.                                                           *)
Turn(p, n) ==
    LET s0 == Started(sw[p])
        s1 == Requested(p, s0)
        m == Head(ch[p])
        s2 == IF n = 0 THEN s1 ELSE Handled(p, s1, m)
        s3 == Requested(p, s2)
        answer == IF n = 0 THEN <<>> ELSE Answer(p, s1, m)
        acks == IF n = 0 THEN {} ELSE Acks(s1, m)
        flush == "EXCHANGE" \in {s1.state, s3.state}
    IN  /\ joined[p] /\ n <= Len(ch[p])
        /\ sw' = [sw EXCEPT ![p] = IF flush THEN Flushed(s3) ELSE s3]
        /\ \E a \in SetToSeqs(acks), o \in SetToSeqs(Po) :
              LET out == Request(p, s0) \o answer \o Request(p, s2) \o a
                           \o (IF flush THEN Pending(s3, o) ELSE <<>>)
              IN  ch' = [ch EXCEPT ![p] = IF n = 0 THEN @ ELSE Tail(@),
                                   ![Other(p)] = IF joined[Other(p)] THEN @ \o out ELSE @]
        /\ UNCHANGED <<joined, wanted, events>>

-----------------------------------------------------------------------------
(* The session and the environment. *)

Spend == events < MaxEvents /\ events' = events + 1

(* IccpSession reaches OPERATIONAL at both ends of a new connection. *)
Join ==
    /\ \A p \in Peer : ~joined[p]
    /\ joined' = [p \in Peer |-> TRUE]
    /\ UNCHANGED <<sw, ch, wanted, events>>

(* scheduler_session_disconnect_handler.  Once the peer has left, leaving   *)
(* is due: recv() fails or the heartbeat times out.                         *)
Leave(p) ==
    /\ joined[p]
    /\ IF joined[Other(p)] THEN "leave" \in Ops /\ Spend ELSE UNCHANGED events
    /\ joined' = [joined EXCEPT ![p] = FALSE]
    /\ sw' = [sw EXCEPT ![p] = Disconnected(@)]
    /\ ch' = [ch EXCEPT ![p] = <<>>]
    /\ UNCHANGED wanted

(* iccp_event_handler_obj_input_newlink: the carrier of i changes. *)
LinkChange(p, i) ==
    LET up == ~sw[p].lif[i].up
        s == [sw[p] EXCEPT !.lif[i].up = up]
    IN  /\ "link" \in Ops /\ Spend
        /\ s.lif[i].exists
        /\ sw' = [sw EXCEPT ![p] = IF s.lif[i].bound
                                   THEN [s EXCEPT !.lif[i] = PoState(s, i, up)]
                                   ELSE [s EXCEPT !.lif[i].active = up]]
        /\ UNCHANGED <<joined, ch, wanted>>

(* A new MAC address or VLAN of i: port_config_sync is set. *)
ConfigChange(p, i) ==
    /\ "config" \in Ops /\ Spend
    /\ sw[p].lif[i].exists
    /\ sw' = [sw EXCEPT ![p].lif[i].sync = TRUE]
    /\ UNCHANGED <<joined, ch, wanted>>

(* iccp_cli_attach_mclag_domain_to_port_channel *)
Attach(p, i) ==
    /\ "attach" \in Ops /\ Spend
    /\ i \notin wanted[p]
    /\ wanted' = [wanted EXCEPT ![p] = @ \cup {i}]
    /\ LET s == [sw[p] EXCEPT !.bind = @ \cup {i}]
       IN  sw' = [sw EXCEPT ![p] = IF s.lif[i].exists THEN Bound(s, i) ELSE s]
    /\ UNCHANGED <<joined, ch>>

(* iccp_cli_detach_mclag_domain_to_port_channel.  It returns at once when    *)
(* the interface does not exist.                                             *)
Detach(p, i) ==
    /\ "detach" \in Ops /\ Spend
    /\ i \in wanted[p]
    /\ wanted' = [wanted EXCEPT ![p] = @ \ {i}]
    /\ LET s == sw[p]
           left == Unbound(Detached(s, i), i)
       IN  sw' = [sw EXCEPT ![p] = IF s.lif[i].bound THEN [left EXCEPT !.bind = @ \ {i}] ELSE s]
    /\ UNCHANGED <<joined, ch>>

(* local_if_destroy *)
Destroy(p, i) ==
    LET s == sw[p]
        old == [k \in DOMAIN s.purge |-> IF s.purge[k].po = i THEN [po |-> i, gone |-> TRUE]
                                                              ELSE s.purge[k]]
    IN  /\ "destroy" \in Ops /\ Spend
        /\ s.lif[i].exists
        /\ sw' = [sw EXCEPT ![p].lif[i] = NoIf,
                            ![p].purge = IF s.lif[i].bound /\ s.state = "EXCHANGE"
                                         THEN <<[po |-> i, gone |-> TRUE]>> \o old ELSE old]
        /\ UNCHANGED <<joined, ch, wanted>>

(* local_if_create, which binds an interface of the if_bind_list. *)
Create(p, i, up) ==
    LET s == [sw[p] EXCEPT !.lif[i] = NewIf(up)]
    IN  /\ ~sw[p].lif[i].exists
        /\ sw' = [sw EXCEPT ![p] = IF i \in s.bind THEN Bound(s, i) ELSE s]
        /\ UNCHANGED <<joined, ch, wanted, events>>

Next ==
    \/ Join
    \/ \E p \in Peer :
          \/ \E n \in 0..1 : Turn(p, n)
          \/ Leave(p)
          \/ \E i \in Po : \/ LinkChange(p, i)
                           \/ ConfigChange(p, i)
                           \/ Attach(p, i)
                           \/ Detach(p, i)
                           \/ Destroy(p, i)
                           \/ \E up \in BOOLEAN : Create(p, i, up)

Spec == Init /\ [][Next]_vars

(* scheduler_loop keeps turning and reads what has come; the session is     *)
(* re-established (IccpSession's SessionRecovers).                          *)
Fairness ==
    /\ WF_vars(Join)
    /\ \A p \in Peer : /\ WF_vars(Turn(p, 1))
                       /\ WF_vars(Turn(p, 0))
                       /\ WF_vars(Leave(p) /\ UNCHANGED events)

FairSpec == Spec /\ Fairness
-----------------------------------------------------------------------------
BothIn(st) == \A p \in Peer : joined[p] /\ sw[p].state = st

(* Both switches exchange updates and nothing is pending or under way. *)
Quiescent ==
    /\ BothIn("EXCHANGE")
    /\ \A p \in Peer : /\ ch[p] = <<>>
                       /\ ~sw[p].need /\ sw[p].purge = <<>>
                       /\ \A i \in Po : Updates(sw[p], i) = <<>>

(* The two switches go through the stages in step: each answers in the      *)
(* stage in which the other asks, and the active switch starts exchanging   *)
(* only after the standby one.                                              *)
StagesInStep ==
    joined[Active] /\ joined[Standby] =>
        /\ sw[Active].state = "EXCHANGE" => sw[Standby].state \in {"EXCHANGE", "ERROR"}
        /\ sw[Standby].state = "STAGE2" => sw[Active].state = "STAGE2"
        /\ sw[Standby].state = "EXCHANGE" => sw[Active].state \in {"STAGE2", "EXCHANGE", "ERROR"}

(* In a quiescent state a switch knows of an interface of the peer exactly  *)
(* when the peer has it in the domain ...                                   *)
InterfacesKnown ==
    Quiescent => \A p \in Peer, i \in Po :
        sw[p].pif[i] # "none" <=> sw[Other(p)].lif[i].bound

(* ... and knows its state, whatever changed while the stages were running. *)
StatesKnown ==
    Quiescent => \A p \in Peer, i \in Po :
        LET l == sw[Other(p)].lif[i]
        IN  l.bound /\ sw[p].pif[i] # "none" => sw[p].pif[i] = UpDown(l.up)

(* In a quiescent state an interface that both switches have in the domain  *)
(* and that is up locally is isolated from the peer-link exactly when it is *)
(* up at the peer too: no duplicates, and no black hole for what the peer   *)
(* sends over the peer-link because its own link is down.                   *)
IsolationRight ==
    Quiescent => \A p \in Peer, i \in Po :
        LET l == sw[p].lif[i]
            r == sw[Other(p)].lif[i]
        IN  l.bound /\ l.up /\ r.bound => (l.isolated <=> r.up)

(* An interface that is up is not left blocked: in a quiescent state the    *)
(* acknowledgement of its coming up has arrived, and without a session      *)
(* nothing is blocked.                                                      *)
TrafficRestored ==
    \A p \in Peer, i \in Po : LET l == sw[p].lif[i]
        IN  l.bound /\ l.blocked => joined[p] /\ ~(Quiescent /\ l.up)

(* "Re-enable traffic distribution on MCLAG interface" when it is purged    *)
(* (mlacp_exchange_handler): an interface that has left the domain is not   *)
(* blocked.                                                                 *)
TrafficReleased ==
    \A p \in Peer, i \in Po : LET l == sw[p].lif[i]
        IN  l.blocked => l.bound \/ \E k \in DOMAIN sw[p].purge : sw[p].purge[k].po = i

(* A purge is pending only for an interface that is not in the domain, or    *)
(* for one that is gone and has perhaps been replaced, and only in the       *)
(* session in which the peer was told of it.                                 *)
PurgesCurrent ==
    \A p \in Peer : \A k \in DOMAIN sw[p].purge : LET e == sw[p].purge[k]
        IN  /\ joined[p] /\ sw[p].state = "EXCHANGE"
            /\ e.gone \/ ~sw[p].lif[e.po].bound

(* Isolation ends with the session, and with the membership. *)
IsolatedInSession ==
    \A p \in Peer, i \in Po : sw[p].lif[i].isolated => joined[p] /\ sw[p].lif[i].bound

(* MLACP_STATE_ERROR: "should not be here" (mlacp_fsm_transit).             *)
NeverError == \A p \in Peer : sw[p].state # "ERROR"

(* Once events stop both switches exchange, agree on the interfaces and     *)
(* their isolation, and block no interface that is up.                      *)
Converges ==
    <>[](Quiescent /\ InterfacesKnown /\ StatesKnown /\ IsolationRight /\ TrafficRestored)

-----------------------------------------------------------------------------
(* The inductive invariants behind StagesInStep and PurgesCurrent. *)

IsRequest(m) == m.type = "SYNC_REQ"
IsInfo(m) == m.type = "INFO"

(* Where the two switches of a session are, and what is under way between   *)
(* them.  The standby switch has not asked ...                              *)
NotAsked ==
    /\ sw[Active].state \in {"INIT", "STAGE1"} /\ sw[Standby].state = "INIT"
    /\ ch[Active] = <<>> /\ ch[Standby] = <<>>

(* ... it has asked ... *)
StandbyAsks ==
    /\ sw[Active].state \in {"INIT", "STAGE1"}
    /\ sw[Standby].state = "STAGE1" /\ sw[Standby].wait
    /\ Len(ch[Active]) = 1 /\ IsRequest(ch[Active][1]) /\ ch[Standby] = <<>>

(* ... it is answered, and asked back ... *)
ActiveAsks ==
    /\ sw[Active].state = "STAGE2" /\ sw[Active].wait
    /\ sw[Standby].state = "STAGE1" /\ sw[Standby].wait
    /\ ch[Active] = <<>>
    /\ Len(ch[Standby]) = 2 /\ IsInfo(ch[Standby][1]) /\ IsRequest(ch[Standby][2])

(* ... it has taken the answer ... *)
StandbyKnows ==
    /\ sw[Active].state = "STAGE2" /\ sw[Active].wait
    /\ sw[Standby].state = "STAGE2" /\ ~sw[Standby].wait
    /\ ch[Active] = <<>>
    /\ Len(ch[Standby]) = 1 /\ IsRequest(ch[Standby][1])

(* ... it has answered ... *)
StandbyExchanges ==
    /\ sw[Active].state = "STAGE2" /\ sw[Active].wait
    /\ sw[Standby].state = "EXCHANGE"
    /\ ch[Active] # <<>> /\ IsInfo(ch[Active][1]) /\ ch[Standby] = <<>>

(* ... and both exchange. *)
BothExchange == \A p \in Peer : sw[p].state \in {"EXCHANGE", "ERROR"}

Phase == \/ NotAsked \/ StandbyAsks \/ ActiveAsks \/ StandbyKnows
         \/ StandbyExchanges \/ BothExchange

(* Where the two state machines of mlacp_fsm_transit can be: outside a      *)
(* session in INIT with nothing to read, and in one in a phase above.       *)
StageInv ==
    /\ \A p \in Peer : ~joined[p] => sw[p].state = "INIT" /\ ch[p] = <<>>
    /\ sw[Active].state = "STAGE1" => ~sw[Active].wait
    /\ joined[Active] /\ joined[Standby] => Phase

(* lif_purge_list holds an interface at most once: it is linked through    *)
(* the interface itself, and a second insertion would tie it into a loop.  *)
PurgedOnce ==
    \A p \in Peer : \A k, l \in 1..Len(sw[p].purge) :
        sw[p].purge[k] = sw[p].purge[l] /\ ~sw[p].purge[k].gone => k = l

-----------------------------------------------------------------------------
(* The inductive invariant behind InterfacesKnown, StatesKnown,            *)
(* IsolationRight, TrafficRestored and IsolatedInSession, for a domain     *)
(* that interfaces only join.                                              *)

OnlyJoins == Ops \cap {"detach", "destroy"} = {}

(* m tells the peer that i exists ... *)
Introduces(m, i) == \/ m.type = "CONF" /\ m.po = i
                    \/ m.type = "INFO" /\ m.po[i] # "none"

(* ... and that it is up, or down. *)
Says(m, i, up) == \/ m.type = "STATE" /\ m.po = i /\ m.up = up
                  \/ m.type = "INFO" /\ m.po[i] = UpDown(up)

(* Once the messages of c are handled, an interface that is known as v is   *)
(* known to be up, or down.                                                 *)
WillKnow(c, i, v, up) ==
    \/ v = UpDown(up) /\ \A k \in 1..Len(c) : ~Says(c[k], i, ~up)
    \/ \E n \in 1..Len(c) : /\ Says(c[n], i, up)
                            /\ \A k \in n..Len(c) : ~Says(c[k], i, ~up)

(* p's answer has been sent in this session. *)
HasAnswered(p) == \/ sw[p].state = "EXCHANGE"
                  \/ p = Active /\ sw[p].state = "STAGE2"

(* An interface that was never in the domain has still to be announced; one *)
(* that is isolated or blocked is in it, and there is a session.            *)
InterfaceInv(p, i) ==
    LET l == sw[p].lif[i]
    IN  /\ l.exists /\ l.active = l.up
        /\ ~l.bound => l.changed
        /\ l.isolated => joined[p] /\ l.bound
        /\ l.blocked => joined[p] /\ l.bound /\ sw[p].state \in {"EXCHANGE", "ERROR"}
        /\ sw[p].state = "EXCHANGE" /\ l.bound /\ l.up =>
              (l.isolated <=> sw[p].pif[i] # "down")

(* What p knows of i, or will when it has read what is under way, is what   *)
(* its peer has in the domain, unless the peer still has to send it.        *)
KnowledgeInv(p, i) ==
    LET l == sw[Other(p)].lif[i]
        v == sw[p].pif[i]
        c == ch[p]
    IN  /\ ~l.bound => /\ v = "none"
                       /\ \A n \in 1..Len(c) : /\ ~Introduces(c[n], i)
                                               /\ ~Says(c[n], i, TRUE) /\ ~Says(c[n], i, FALSE)
        /\ \A n \in 1..Len(c) : Says(c[n], i, TRUE) \/ Says(c[n], i, FALSE) =>
              v # "none" \/ \E k \in 1..n : Introduces(c[k], i)
        /\ l.bound /\ HasAnswered(Other(p)) =>
              /\ l.sync \/ v # "none" \/ \E n \in 1..Len(c) : Introduces(c[n], i)
              /\ l.changed \/ WillKnow(c, i, v, l.up)

(* A blocked interface that is up is to be announced, or its announcement   *)
(* or the acknowledgement of it is under way.                               *)
ReleaseInv(p, i) ==
    LET l == sw[p].lif[i]
        to == ch[Other(p)]
    IN  l.blocked /\ l.up =>
            \/ l.changed
            \/ \E n \in 1..Len(to) : to[n] = [type |-> "STATE", po |-> i, up |-> TRUE]
            \/ \E n \in 1..Len(ch[p]) : ch[p][n] = [type |-> "ACK", po |-> i]

(* Nothing is withdrawn, so that nobody asks again. *)
NothingWithdrawn ==
    \A p \in Peer :
        /\ ~sw[p].need /\ sw[p].purge = <<>>
        /\ \A n \in 1..Len(ch[p]) : ch[p][n].type # "PURGE"
        /\ ~joined[p] => \A i \in Po : sw[p].pif[i] = "none"

(* In a session nobody asks once the standby switch exchanges. *)
NoLateRequest ==
    /\ \A p \in Peer : sw[p].state # "ERROR"
    /\ sw[Standby].state = "EXCHANGE" =>
          \A p \in Peer : \A n \in 1..Len(ch[p]) : ~IsRequest(ch[p][n])

(* While interfaces only join, whatever a switch has not told its peer is   *)
(* queued, marked as changed or part of the information still to be sent,   *)
(* and whatever is blocked will be released by an acknowledgement under     *)
(* way or to come (mlacp_exchange_handler, mlacp_fsm_recv_if_up_ack).       *)
SyncInv ==
    /\ NothingWithdrawn
    /\ \A p \in Peer, i \in Po : InterfaceInv(p, i)
    /\ joined[Active] /\ joined[Standby] =>
          /\ NoLateRequest
          /\ \A p \in Peer, i \in Po : KnowledgeInv(p, i) /\ ReleaseInv(p, i)

=============================================================================
