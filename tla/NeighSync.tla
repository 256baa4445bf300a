----------------------------- MODULE NeighSync -----------------------------
(***************************************************************************)
(* The synchronisation of ARP and ND entries between the two switches of   *)
(* an MC-LAG domain (iccp_ifm.c, mlacp_sync_update.c, mlacp_fsm.c,         *)
(* mlacp_link_handler.c).                                                  *)
(*                                                                         *)
(* Addresses do not interact, so the model follows one neighbour of the    *)
(* port-channel that is an MC-LAG interface of both switches, or of a VLAN *)
(* on it and on the peer-link.  iccpd keeps the neighbour in arp_list      *)
(* (ndisc_list); the kernel, which is external, has its own entry, kern.   *)
(* iccpd learns from the kernel's notifications, from replies it sees on   *)
(* the wire and from the peer, and sets the kernel's entry for the peer's. *)
(* The kernel notifies every change, those that iccpd asked for included.  *)
(*                                                                         *)
(* The stages are abstracted as in MacSync.                                *)
(***************************************************************************)
EXTENDS Naturals, SequencesExt

CONSTANTS Active, Standby, \* the switches, by role
          Mac,             \* hardware addresses the neighbour may have
          Families,        \* "arp", "nd": the choices
          Kinds,           \* "vlan", "l3": the interfaces; the choices
          Ops,             \* operations the environment performs in a run
          MaxEvents        \* bound: how many of them

Peer == {Active, Standby}

ASSUME PeerAssumption == Active # Standby
ASSUME OpsAssumption ==
    /\ Families \subseteq {"arp", "nd"}
    /\ Kinds \subseteq {"vlan", "l3"}
    /\ Ops \subseteq {"learn", "refresh", "reply", "age", "polink", "leave"}
ASSUME BoundAssumption == MaxEvents \in Nat
ASSUME MacAssumption == Mac \cap {"none", "down"} = {}

VARIABLES family, \* which of the two tables
          kind,   \* which interface the neighbour is on
          joined, \* p's end of the session is operational
          sw,     \* the state of p
          ch,     \* messages on their way to p
          shown,  \* history: the addresses the neighbour has had; "none": an
                  \* entry was deleted; "down": an L3 port-channel went down
          events  \* events spent

vars == <<family, kind, joined, sw, ch, shown, events>>

Other(p) == IF p = Active THEN Standby ELSE Active

(* MLACP_APP_STATE_E *)
State == {"INIT", "STAGE1", "STAGE2", "EXCHANGE"}

(* struct ARPMsg: op is "LIF" for what the kernel told or a reply, "ADD" for *)
(* what the peer told and what was sent again.                               *)
Entry == [mac : Mac, op : {"LIF", "ADD"}]
NoEntry == [mac |-> "none", op |-> "LIF"]

(* What arp_msg_list holds and the peer is told. *)
Item == [op : {"ADD"}, mac : Mac] \cup [op : {"DEL"}, mac : {"none"}]

(* INFO, the NEIGH that may follow it and DONE are what is sent in a stage.  *)
Msg == [type : {"INFO", "STATE"}, up : BOOLEAN] \cup [type : {"DONE"}]
         \cup [type : {"NEIGH"}, items : Seq(Item)]

(* note: notifications on their way from the kernel, "none" for a deletion;  *)
(* up: po_active of the port-channel; pif: that of the peer's; changed: its  *)
(* state is to be sent; seen: lif->mlacp_state.                              *)
Switch == [state : State, list : Entry \cup {NoEntry}, kern : Mac \cup {"none"},
           note : Seq(Mac \cup {"none"}), out : Seq(Item), up : BOOLEAN,
           pif : {"none", "up", "down"}, changed : BOOLEAN, seen : State]

TypeOK ==
    /\ family \in Families /\ kind \in Kinds
    /\ joined \in [Peer -> BOOLEAN]
    /\ sw \in [Peer -> Switch]
    /\ ch \in [Peer -> Seq(Msg)]
    /\ shown \subseteq Mac \cup {"none", "down"}
    /\ events \in 0..MaxEvents

Init ==
    /\ family \in Families /\ kind \in Kinds
    /\ joined = [p \in Peer |-> FALSE]
    /\ \E up \in [Peer -> BOOLEAN] :
          sw = [p \in Peer |->
                   [state |-> "INIT", list |-> NoEntry, kern |-> "none", note |-> <<>>,
                    out |-> <<>>, up |-> up[p], pif |-> "none", changed |-> TRUE,
                    seen |-> "INIT"]]
    /\ ch = [p \in Peer |-> <<>>]
    /\ shown = {}
    /\ events = 0

-----------------------------------------------------------------------------
(* The kernel's table, through iccp_netlink_neighbor_request. *)

Known(s) == s.list # NoEntry

(* RTM_NEWNEIGH with NLM_F_REPLACE.  What does not change anything is not    *)
(* notified.                                                                 *)
KernAdd(s, m) == IF s.kern = m THEN s ELSE [s EXCEPT !.kern = m, !.note = Append(@, m)]

(* RTM_DELNEIGH; it fails when there is no entry. *)
KernDel(s) == IF s.kern = "none" THEN s
              ELSE [s EXCEPT !.kern = "none", !.note = Append(@, "none")]

-----------------------------------------------------------------------------
(* What iccpd learns. *)

(* arp_msg_list is filled in EXCHANGE only. *)
Queued(s, op, m) ==
    IF s.state = "EXCHANGE" THEN [s EXCEPT !.out = Append(@, [op |-> op, mac |-> m])] ELSE s

(* Mutant: the comparison of the ND handler, in both handlers. *)
Differs_Itself(s, m) == FALSE

(* The entry is not what the kernel says; the ND handler compares it with    *)
(* itself, so that an entry that is there is never updated.                  *)
Differs(s, m) == family = "arp" /\ s.list # [mac |-> m, op |-> "LIF"]

(* do_arp_learn_from_kernel, do_ndisc_learn_from_kernel *)
FromKernel(s, m) ==
    IF m = "none"
    THEN IF Known(s) THEN Queued([s EXCEPT !.list = NoEntry], "DEL", "none") ELSE s
    ELSE IF Known(s) /\ ~Differs(s, m) THEN s
         ELSE Queued([s EXCEPT !.list = [mac |-> m, op |-> "LIF"]], "ADD", m)

(* do_arp_update_from_reply_packet, do_ndisc_update_from_reply_packet: the   *)
(* peer is told in any case.  An advertisement without an address (m =       *)
(* "none") is one with the address that is known.                            *)
FromReply(s, m) ==
    LET mac == IF m = "none" THEN s.list.mac ELSE m
        t == [s EXCEPT !.list = [mac |-> mac, op |-> "LIF"]]
    IN  IF mac = "none" THEN s
        ELSE Queued(IF family = "nd" THEN KernAdd(t, mac) ELSE t, "ADD", mac)

(* The kernel is to hold the peer's entry: the peer-link is a member of the  *)
(* VLAN, or the port-channel is active.                                      *)
Settable(s) == kind = "vlan" \/ s.up

(* Mutant: what the peer told is queued for the peer. *)
FromPeer_Forwards(s, i) ==
    Queued([KernAdd(s, i.mac) EXCEPT !.list = [mac |-> i.mac, op |-> "ADD"]], "ADD", i.mac)

(* mlacp_fsm_update_arp_entry, mlacp_fsm_update_ndisc_entry.  A deletion     *)
(* that the kernel refuses changes nothing.                                  *)
FromPeer(s, i) ==
    LET refused == i.op = "DEL" /\ Settable(s) /\ s.kern = "none"
        t == IF ~Settable(s) THEN s ELSE IF i.op = "ADD" THEN KernAdd(s, i.mac) ELSE KernDel(s)
        list == IF i.op = "DEL" THEN NoEntry
                ELSE [mac |-> i.mac, op |-> IF Known(s) THEN s.list.op ELSE "ADD"]
    IN  IF refused THEN s ELSE [t EXCEPT !.list = list, !.out = <<>>]

(* The entries of one message, in their order. *)
FromPeers(s, items) ==
    LET told[n \in 0..Len(items)] ==
            IF n = 0 THEN s ELSE FromPeer(told[n - 1], items[n])
    IN  told[Len(items)]

-----------------------------------------------------------------------------
(* Interfaces *)

(* set_l3_itf_state(ROUTE_DEL): arp_set_handler and ndisc_set_handler put    *)
(* the entries of the interface into the kernel.                             *)
NeighAdd(s) == IF s.state = "EXCHANGE" /\ Known(s) THEN KernAdd(s, s.list.mac) ELSE s

(* set_l3_itf_state(ROUTE_ADD): they take them out, unless the interface is  *)
(* a VLAN.  The request of ndisc_set_handler is an addition.                 *)
NeighDel(s) == IF kind = "vlan" \/ ~Known(s) THEN s
               ELSE IF family = "arp" THEN KernDel(s) ELSE KernAdd(s, s.list.mac)

(* Mutant: the entry is marked and not queued. *)
Resent_NotQueued(s) == IF Known(s) THEN [s EXCEPT !.list.op = "ADD"] ELSE s

(* syn_arp_info_to_peer, mlacp_resync_arp: the entry is sent again. *)
Resent(s) ==
    IF Known(s) THEN [s EXCEPT !.list.op = "ADD",
                               !.out = Append(@, [op |-> "ADD", mac |-> s.list.mac])]
    ELSE s

(* update_stp_peer_link: the peer's port-channel is new or its state is. *)
PeerPo(s, up, new) ==
    LET same == ~new /\ s.pif = IF up THEN "up" ELSE "down"
        t == IF same THEN s
             ELSE IF ~s.up THEN IF up THEN NeighDel(s) ELSE NeighAdd(s)
             ELSE IF up THEN Resent(s) ELSE s
    IN  [t EXCEPT !.pif = IF up THEN "up" ELSE "down"]

(* mlacp_fsm_update_Agg_conf, whose new peer interface counts as up, and     *)
(* mlacp_fsm_update_Aggport_state.                                           *)
PeerInfo(s, up) == PeerPo(IF s.pif = "none" THEN PeerPo(s, TRUE, TRUE) ELSE s, up, FALSE)

(* update_l2_po_state, update_l3_po_state, update_po_if_info *)
PoState(s, up) ==
    LET broken == /\ ~up /\ s.state = "EXCHANGE" /\ s.pif = "up"
                  /\ s.up \/ s.seen # "EXCHANGE"
        t == IF up /\ ~s.up THEN NeighAdd(s) ELSE IF broken THEN NeighDel(s) ELSE s
    IN  [t EXCEPT !.changed = @ \/ s.up # up, !.up = up, !.seen = s.state]

-----------------------------------------------------------------------------
(* The session. *)

(* Mutant: the messages are cleared after the entries were queued again. *)
Started_ThenCleared(s) == [Resent(s) EXCEPT !.state = "STAGE1", !.out = <<>>]

(* mlacp_fsm_transit in INIT, mlacp_resync_arp, mlacp_resync_ndisc *)
Started(s) == [Resent(s) EXCEPT !.state = "STAGE1"]

(* mlacp_peer_conn_handler *)
Connected(s) == PoState([s EXCEPT !.state = "EXCHANGE"], s.up)

(* mlacp_init(csm, 0): the messages go, the list stays. *)
Disconnected(s) == [s EXCEPT !.state = "INIT", !.out = <<>>, !.pif = "none"]

(* The stages end when all of the peer's information has come (Standby      *)
(* answers it, Active has sent its own before).                              *)
Received(p, s, m) ==
    IF m.type = "NEIGH" THEN FromPeers(s, m.items)
    ELSE IF m.type = "DONE"
    THEN IF p = Standby THEN [s EXCEPT !.state = "STAGE2"] ELSE Connected(s)
    ELSE PeerInfo(s, m.up)

(* mlacp_sync_send_syncArpInfo, mlacp_sync_send_syncNdiscInfo *)
NeighMsg(s) == IF s.out = <<>> THEN <<>> ELSE << [type |-> "NEIGH", items |-> s.out] >>

(* mlacp_exchange_handler *)
Pending(s) ==
    (IF s.changed THEN << [type |-> "STATE", up |-> s.up] >> ELSE <<>>) \o NeighMsg(s)

Flushed(s) == [s EXCEPT !.changed = FALSE, !.out = <<>>]

(* It is p's turn to send its information. *)
MustInform(p, s) == \/ p = Active /\ s.state = "STAGE1"
                    \/ p = Standby /\ s.state = "STAGE2"

(* Mutant: current_state is incremented once more. *)
Informed_Overrun(p, s) == IF p = Active THEN [Flushed(s) EXCEPT !.state = "STAGE2"]
                                        ELSE [Flushed(s) EXCEPT !.state = "ERROR"]

(* mlacp_sync_send_all_info_handler: the stage that follows. *)
Informed(p, s) == IF p = Active THEN [Flushed(s) EXCEPT !.state = "STAGE2"]
                                ELSE Connected(Flushed(s))

(* mlacp_sync_send_all_info_handler *)
Info(s) == << [type |-> "INFO", up |-> s.up] >> \o NeighMsg(s) \o << [type |-> "DONE"] >>

-----------------------------------------------------------------------------
(* The loop. *)

(* The turn of p ends: in EXCHANGE, what is pending is sent after out. *)
EndTurn(p, s, out, rest) ==
    LET up == s.state = "EXCHANGE"
    IN  /\ sw' = [sw EXCEPT ![p] = IF up THEN Flushed(s) ELSE s]
        /\ ch' = [ch EXCEPT ![p] = rest,
                            ![Other(p)] = IF joined[Other(p)]
                                          THEN @ \o out \o (IF up THEN Pending(s) ELSE <<>>)
                                          ELSE @]
        /\ UNCHANGED <<family, kind, joined, shown, events>>

(* A turn in which p answers with its information. *)
SendInfo(p) ==
    /\ joined[p] /\ MustInform(p, sw[p])
    /\ EndTurn(p, Informed(p, sw[p]), Info(sw[p]), ch[p])

(* A turn in which a message is handled. *)
Receive(p) ==
    /\ joined[p] /\ ch[p] # <<>> /\ ~MustInform(p, sw[p])
    /\ EndTurn(p, Received(p, sw[p], Head(ch[p])), <<>>, Tail(ch[p]))

(* A turn in EXCHANGE without a message. *)
Flush(p) ==
    /\ joined[p] /\ sw[p].state = "EXCHANGE"
    /\ EndTurn(p, sw[p], <<>>, ch[p])

(* do_one_neigh_request *)
Notified(p) ==
    /\ sw[p].note # <<>>
    /\ sw' = [sw EXCEPT ![p] = FromKernel([sw[p] EXCEPT !.note = Tail(@)], Head(@.note))]
    /\ UNCHANGED <<family, kind, joined, ch, shown, events>>

-----------------------------------------------------------------------------
(* The session and the environment. *)

Spend == events < MaxEvents /\ events' = events + 1

(* IccpSession reaches OPERATIONAL at both ends of a new connection. *)
Join ==
    /\ \A p \in Peer : ~joined[p]
    /\ joined' = [p \in Peer |-> TRUE]
    /\ sw' = [p \in Peer |-> Started(sw[p])]
    /\ UNCHANGED <<family, kind, ch, shown, events>>

(* Once the peer has left, leaving is due. *)
Leave(p) ==
    /\ joined[p]
    /\ IF joined[Other(p)] THEN "leave" \in Ops /\ Spend ELSE UNCHANGED events
    /\ joined' = [joined EXCEPT ![p] = FALSE]
    /\ sw' = [sw EXCEPT ![p] = Disconnected(@)]
    /\ ch' = [ch EXCEPT ![p] = <<>>]
    /\ UNCHANGED <<family, kind, shown>>

(* The kernel of p resolves the neighbour, or finds it gone. *)
Learn(p, m) ==
    /\ IF m = "none" THEN "age" \in Ops ELSE "learn" \in Ops
    /\ m # "none" /\ kind = "l3" => sw[p].up
    /\ sw[p].kern # m /\ Spend
    /\ sw' = [sw EXCEPT ![p] = IF m = "none" THEN KernDel(@) ELSE KernAdd(@, m)]
    /\ shown' = shown \cup {m}
    /\ UNCHANGED <<family, kind, joined, ch>>

(* The kernel notifies an entry whose NUD state changed (STALE, REACHABLE). *)
Refresh(p) ==
    /\ "refresh" \in Ops /\ sw[p].kern # "none" /\ Spend
    /\ sw' = [sw EXCEPT ![p].note = Append(@, sw[p].kern)]
    /\ UNCHANGED <<family, kind, joined, ch, shown>>

(* A reply is seen on the wire (iccp_receive_arp_packet_handler); the kernel *)
(* takes it when it has an entry (arp_accept is 0).                          *)
Reply(p, m) ==
    /\ "reply" \in Ops /\ Spend
    /\ kind = "l3" => sw[p].up
    /\ m = "none" => family = "nd"
    /\ LET s == IF sw[p].kern = "none" \/ m = "none" THEN sw[p] ELSE KernAdd(sw[p], m)
       IN  sw' = [sw EXCEPT ![p] = FromReply(s, m)]
    /\ shown' = shown \cup ({m} \ {"none"})
    /\ UNCHANGED <<family, kind, joined, ch>>

(* iccp_from_netlink_port_state_handler.  A kernel may flush the neighbours  *)
(* of an interface that loses its carrier.                                   *)
PoLink(p, flush) ==
    /\ "polink" \in Ops /\ Spend
    /\ flush => kind = "l3" /\ sw[p].up
    /\ sw' = [sw EXCEPT ![p] = PoState(IF flush THEN KernDel(@) ELSE @, ~@.up)]
    /\ shown' = IF kind = "l3" /\ sw[p].up THEN shown \cup {"down"} ELSE shown
    /\ UNCHANGED <<family, kind, joined, ch>>

Next ==
    \/ Join
    \/ \E p \in Peer :
          \/ SendInfo(p) \/ Receive(p) \/ Flush(p) \/ Notified(p)
          \/ Leave(p)
          \/ \E m \in Mac \cup {"none"} : Learn(p, m) \/ Reply(p, m)
          \/ Refresh(p)
          \/ \E flush \in BOOLEAN : PoLink(p, flush)

Spec == Init /\ [][Next]_vars

(* The loop turns, the kernel's notifications are read, a session that both  *)
(* switches have left is set up again, and a switch finds out that its peer  *)
(* has gone.                                                                 *)
Fairness ==
    /\ WF_vars(Join)
    /\ \A p \in Peer :
          /\ WF_vars(SendInfo(p))
          /\ WF_vars(Receive(p))
          /\ WF_vars(Flush(p))
          /\ WF_vars(Notified(p))
          /\ WF_vars(Leave(p) /\ UNCHANGED events)

FairSpec == Spec /\ Fairness

(* Nothing is under way and nothing is waiting to be sent. *)
Quiescent ==
    \A p \in Peer :
        /\ joined[p] /\ sw[p].state = "EXCHANGE"
        /\ ch[p] = <<>> /\ sw[p].note = <<>> /\ Pending(sw[p]) = <<>>

(* The neighbour has had one address and its entry was never deleted. *)
Steady == \E m \in Mac : shown \subseteq {m}

-----------------------------------------------------------------------------
(* Properties *)

(* Once its notifications are read, iccpd has for the neighbour the address  *)
(* the kernel has, whichever of the kernel, a reply and the peer changed it  *)
(* last: do_arp_learn_from_kernel corrects what crossed on the way.  Left    *)
(* out are an L3 port-channel that has been down, whose entries the kernel   *)
(* may hold alone, and an ND entry that changed, which                       *)
(* do_ndisc_learn_from_kernel compares with itself.                          *)
KernelFollowed ==
    "down" \notin shown /\ (family = "arp" \/ Steady) =>
        \A p \in Peer : sw[p].note = <<>> /\ Settable(sw[p]) /\ sw[p].kern # "none" =>
                           sw[p].list.mac = sw[p].kern

(* An entry that the peer told of or that was sent again (mlacp_resync_arp,  *)
(* syn_arp_info_to_peer) is in the peer's list when nothing is under way:    *)
(* the queue that a session leaves behind, or one cleared in the stages,     *)
(* loses no entry that counts as synchronised.                               *)
PeerKnows ==
    Quiescent /\ Steady =>
        \A p \in Peer : sw[p].list.op = "ADD" => sw[Other(p)].list.mac = sw[p].list.mac

(* A neighbour that keeps its address stops being talked about: what a       *)
(* switch sets in its kernel for the peer comes back as a notification, is   *)
(* learnt and told to the peer again, and this echo dies out, also when both *)
(* switches learnt the neighbour at once and after the session was lost.     *)
Settles == []Steady => <>[]Quiescent

-----------------------------------------------------------------------------
(* The inductive invariant behind KernelFollowed and PeerKnows. *)

(* The last notification tells what the kernel has. *)
LastNote(s) == s.note # <<>> => s.note[Len(s.note)] = s.kern

(* Once all are read, the list has it. *)
ListFollows(s) == s.note = <<>> /\ s.kern # "none" => s.list.mac = s.kern

HasNeigh(c) == \E n \in 1..Len(c) : c[n].type = "NEIGH"

(* m tells that the sender's port-channel is down. *)
SaysDown(m) == m.type \in {"INFO", "STATE"} /\ ~m.up

(* An L3 port-channel that has never been up: its kernel knows nobody, the  *)
(* list has what the peer told, and what the peer sent before its own was   *)
(* up came before any entry.                                                *)
NeverUp(p) ==
    LET s == sw[p]
        c == ch[p]
    IN  /\ s.kern = "none" /\ s.note = <<>>
        /\ ~sw[Other(p)].up => ~Known(s) /\ s.out = <<>> /\ ~HasNeigh(c)
        /\ \A k \in 1..Len(c) : SaysDown(c[k]) =>
              ~Known(s) /\ \A j \in 1..k : c[j].type # "NEIGH"

L3Inv == family = "arp" /\ kind = "l3" /\ "down" \notin shown =>
             \A p \in Peer : ~sw[p].up => NeverUp(p)

(* Additions of addresses that the neighbour has had. *)
Addition == [op : {"ADD"}, mac : shown]

(* A switch that tells of the neighbour has it. *)
ToldIsKnown(p) ==
    /\ sw[p].list.mac \in shown \cup {"none"} /\ sw[p].kern \in shown \cup {"none"}
    /\ \A n \in 1..Len(sw[p].note) : sw[p].note[n] \in shown
    /\ \A n \in 1..Len(sw[p].out) : sw[p].out[n] \in Addition
    /\ \A n \in 1..Len(ch[p]) : ch[p][n].type = "NEIGH" =>
          /\ ch[p][n].items # <<>>
          /\ \A k \in 1..Len(ch[p][n].items) : ch[p][n].items[k] \in Addition
    /\ sw[p].out # <<>> \/ HasNeigh(ch[Other(p)]) => Known(sw[p])

(* What counts as synchronised is known to the peer, or is under way. *)
UnderWay(p) ==
    joined[p] /\ joined[Other(p)] /\ sw[p].list.op = "ADD" =>
        Known(sw[Other(p)]) \/ sw[p].out # <<>> \/ HasNeigh(ch[Other(p)])

(* The kernel's last notification decides what iccpd lists; a neighbour that *)
(* keeps its address is never deleted anywhere, and is told or being told    *)
(* when it counts as synchronised, whatever sessions were lost in between    *)
(* (mlacp_resync_arp, mlacp_fsm_update_arp_entry).                           *)
NeighInv ==
    /\ \A p \in Peer : LastNote(sw[p])
    /\ "down" \notin shown /\ (family = "arp" \/ Steady) => \A p \in Peer : ListFollows(sw[p])
    /\ L3Inv
    /\ Steady => \A p \in Peer : ToldIsKnown(p) /\ UnderWay(p)
=============================================================================
