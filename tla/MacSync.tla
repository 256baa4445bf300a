------------------------------ MODULE MacSync ------------------------------
(***************************************************************************)
(* The synchronisation of learnt MAC addresses between the two switches of *)
(* an MC-LAG domain (mlacp_link_handler.c, mlacp_sync_update.c,            *)
(* mlacp_fsm.c), and the warm reboot of one of them (scheduler.c).         *)
(*                                                                         *)
(* The addresses do not interact, so the model follows one.  A switch has  *)
(* a port-channel "po" that is an MC-LAG interface of both switches, an    *)
(* orphan port "eth", and the peer-link "link".  It keeps the address in   *)
(* mac_rb with two age flags: whether it has aged out here and whether it  *)
(* has at the peer.  What iccpd asks the chip to hold is chip: the entry   *)
(* of MCLAG_FDB_TABLE.  learnt is the hardware's own entry, of which       *)
(* mclagsyncd, which is external, sends notifications.                     *)
(*                                                                         *)
(* The stages are those of MlacpSync, whose request for information is     *)
(* left out: Active sends first, then Standby.                             *)
(***************************************************************************)
EXTENDS Naturals, Sequences

CONSTANTS Active, Standby, \* the switches, by role
          PeerLinks,       \* whether a peer-link is configured: the choices
          Types,           \* the fdb_types an address may have: the choices
          Ops,             \* operations the environment performs in a run
          MaxEvents        \* bound: how many of them

Peer == {Active, Standby}

ASSUME PeerAssumption == Active # Standby
ASSUME OpsAssumption ==
    /\ PeerLinks \subseteq BOOLEAN
    /\ Types \subseteq {"dynamic", "static"}
    /\ Ops \subseteq {"po", "eth", "age", "polink", "ethlink", "peerlink",
                      "leave", "crash", "warm"}
ASSUME BoundAssumption == MaxEvents \in Nat

VARIABLES alive,   \* the iccpd process of p runs
          joined,  \* p's end of the session is operational
          sw,      \* the state of p
          learnt,  \* the port on which p's hardware has learnt the address
          note,    \* notifications of mclagsyncd on their way to p
          ch,      \* messages on their way to p
          events   \* events spent

vars == <<alive, joined, sw, learnt, note, ch, events>>

Other(p) == IF p = Active THEN Standby ELSE Active

Port == {"po", "eth", "link"}
HostPort == {"po", "eth"}

(* MLACP_APP_STATE_E *)
State == {"INIT", "STAGE1", "STAGE2", "EXCHANGE"}

Op == {"add", "del"}

(* struct MACMsg.  local and peer are the two bits of age_flag, pend is      *)
(* pending_local_del, synced add_to_syncd, op op_type; queued means that the *)
(* entry is in mac_msg_list; found that it is in mac_rb.  An empty           *)
(* peer_itf_name is "link" too: no interface has either name.                *)
Mac == [found : BOOLEAN, ifname : Port, origin : HostPort, type : Types,
        local : BOOLEAN, peer : BOOLEAN, pend : BOOLEAN, synced : BOOLEAN,
        op : Op, queued : BOOLEAN]

NoMac == [found |-> FALSE, ifname |-> "po", origin |-> "po",
          type |-> CHOOSE t \in Types : TRUE, local |-> FALSE, peer |-> FALSE,
          pend |-> FALSE, synced |-> FALSE, op |-> "add", queued |-> FALSE]

(* What a notification, or an item of mac_msg_list, says. *)
Item == [op : Op, port : HostPort, type : Types]

Msg == [type : {"INFO", "STATE"}, up : BOOLEAN]
         \cup [type : {"MAC"}, items : Seq(Item)] \cup [type : {"WARM"}]

(* detached: items of mac_msg_list that are no longer in mac_rb; the entry  *)
(* of mac_rb, if queued, comes after them.  ageing: the chip ages its entry *)
(* out; up: the state of a port; pif: the peer's port-channel; plif:        *)
(* csm->peer_link_if is set; timer: po_down_time; warm:                     *)
(* peer_warm_reboot_time; freed: mac_rb holds an entry that has been freed; *)
(* inherited: the chip's entry was set by an earlier process; kind: the     *)
(* address is learnt, or configured as static.                              *)
Switch == [state : State, mac : Mac, detached : Seq(Item),
           chip : Port \cup {"none"}, ageing : BOOLEAN, up : [Port -> BOOLEAN],
           pif : {"none", "up", "down"}, haslink : BOOLEAN, plif : BOOLEAN,
           timer : BOOLEAN, changed : BOOLEAN, warm : BOOLEAN, freed : BOOLEAN,
           inherited : BOOLEAN, kind : Types]

TypeOK ==
    /\ alive \in [Peer -> BOOLEAN]
    /\ joined \in [Peer -> BOOLEAN]
    /\ sw \in [Peer -> Switch]
    /\ learnt \in [Peer -> HostPort \cup {"none"}]
    /\ note \in [Peer -> Seq(Item)]
    /\ ch \in [Peer -> Seq(Msg)]
    /\ events \in 0..MaxEvents

(* A new process: only what the kernel and the chip hold is known. *)
Fresh(chip, up, haslink, kind) ==
    [state |-> "INIT", mac |-> NoMac, detached |-> <<>>, chip |-> chip,
     ageing |-> FALSE, up |-> up, pif |-> "none", haslink |-> haslink, plif |-> haslink,
     timer |-> FALSE, changed |-> TRUE, warm |-> FALSE, freed |-> FALSE,
     inherited |-> chip # "none", kind |-> kind]

Init ==
    /\ alive = [p \in Peer |-> TRUE]
    /\ joined = [p \in Peer |-> FALSE]
    /\ \E link \in PeerLinks, t \in Types, po \in [Peer -> BOOLEAN] :
          sw = [p \in Peer |-> Fresh("none", [i \in Port |-> i = "po" => po[p]], link, t)]
    /\ learnt = [p \in Peer |-> "none"]
    /\ note = [p \in Peer |-> <<>>]
    /\ ch = [p \in Peer |-> <<>>]
    /\ events = 0

-----------------------------------------------------------------------------
(* The entry, its queue and the chip. *)

LinkUp(s) == s.plif /\ s.up["link"]

(* TAILQ_INSERT_TAIL unless MAC_IN_MSG_LIST, with op_type set. *)
Queued(s, op) == [s EXCEPT !.mac.op = op, !.mac.queued = TRUE]

(* iccp_send_fdb_entry_to_syncd *)
Chip(s, port) == [s EXCEPT !.chip = port, !.ageing = FALSE, !.inherited = FALSE]

(* add_mac_to_chip, with the type of the entry or MAC_TYPE_DYNAMIC_LOCAL. *)
AddToChip(s) == [Chip(s, s.mac.ifname) EXCEPT !.mac.synced = TRUE]
AddAgeing(s) == [AddToChip(s) EXCEPT !.ageing = TRUE]

(* del_mac_from_chip *)
DelFromChip(s) == [Chip(s, "none") EXCEPT !.mac.synced = FALSE]

(* Mutant: the peer is not told. *)
SetLocalAge_Silent(s) == [s EXCEPT !.mac.local = TRUE]

(* set_mac_local_age_flag(csm, mac, 1, 1) *)
SetLocalAge(s) ==
    LET t == IF ~s.mac.local /\ s.state = "EXCHANGE" THEN Queued(s, "del") ELSE s
    IN  [t EXCEPT !.mac.local = TRUE]

(* set_mac_local_age_flag(csm, mac, 0, 1) *)
ClearLocalAge(s) ==
    LET t == IF s.mac.local /\ s.state = "EXCHANGE" THEN Queued(s, "add") ELSE s
    IN  [t EXCEPT !.mac.local = FALSE]

BothAged(s) == s.mac.local /\ s.mac.peer
OnlyLocal(s) == ~s.mac.local /\ s.mac.peer  \* age_flag == MAC_AGE_PEER
OnlyPeer(s) == s.mac.local /\ ~s.mac.peer   \* age_flag == MAC_AGE_LOCAL

ItemOf(m) == [op |-> m.op, port |-> m.origin, type |-> m.type]

(* MAC_RB_REMOVE; the entry is freed unless it is still to be sent. *)
Removed(s) ==
    [s EXCEPT !.mac = NoMac,
              !.detached = IF s.mac.queued THEN Append(@, ItemOf(s.mac)) ELSE @]

RemovedIf(s, cond) == IF cond THEN Removed(s) ELSE s

(* Mutant: while the peer-link is down the chip is left alone. *)
Redirected_Later(s) ==
    IF LinkUp(s) THEN AddToChip([s EXCEPT !.mac.ifname = "link"])
    ELSE [s EXCEPT !.mac.ifname = "link"]

(* The entry is pointed at the peer-link, or, while that is down, taken out *)
(* of the chip until it is up.                                              *)
Redirected(s) ==
    IF LinkUp(s) THEN AddToChip([s EXCEPT !.mac.ifname = "link"])
    ELSE [DelFromChip(s) EXCEPT !.mac.ifname = "link"]

(* The end of a pending entry: out of the chip, and of mac_rb unless static. *)
(* Nothing is queued for the peer.                                           *)
PendingCleared(s) ==
    LET t == DelFromChip(s)
    IN  IF s.mac.type = "static" THEN [t EXCEPT !.mac.pend = FALSE]
        ELSE Removed([t EXCEPT !.mac.op = "del"])

-----------------------------------------------------------------------------
(* do_mac_update_from_syncd *)

FromMclag(i) == i = "po"

(* An address that is in mac_rb is learnt on port i. *)
LearntKnown(s, i, t) ==
    LET pending == [s EXCEPT !.mac.pend = TRUE, !.mac.type = t, !.mac.origin = i,
                             !.mac.ifname = "link"]
        moved == ClearLocalAge([s EXCEPT !.mac.type = t, !.mac.ifname = i, !.mac.origin = i])
    IN  IF ~s.up[i] /\ FromMclag(i) /\ s.pif = "up" THEN AddToChip(pending)
        ELSE IF <<t, i, i>> # <<s.mac.type, s.mac.ifname, s.mac.origin>>
        THEN [Chip(moved, "none") EXCEPT !.mac.peer = TRUE]
        ELSE Chip(ClearLocalAge(s), "none")

(* It is not: MAC_AGE_PEER is set before it is sent to the peer.  Of an      *)
(* address on a port that is down only the copy on the stack is pointed at   *)
(* the peer-link and marked pending.                                         *)
LearntNew(s, i, t) ==
    LET new == [s EXCEPT !.mac = [NoMac EXCEPT !.found = TRUE, !.ifname = i, !.origin = i,
                                               !.type = t, !.peer = TRUE]]
    IN  CASE ~s.up[i] /\ FromMclag(i) /\ s.pif = "down" -> Chip(s, "none")
          [] ~s.up[i] /\ FromMclag(i) /\ s.pif = "up" -> Chip(new, "link")
          [] s.up[i] /\ s.state = "EXCHANGE" -> Queued(new, "add")
          [] OTHER -> new

(* The chip has aged out an entry that points to the peer-link. *)
AgedOnLink(s) ==
    LET t == SetLocalAge(s)
    IN  IF s.mac.pend THEN s
        ELSE IF BothAged(t) THEN Removed(IF t.mac.synced THEN DelFromChip(t) ELSE t)
        ELSE IF LinkUp(t) THEN AddToChip(t) ELSE t

(* The same, of an entry that points to a port; i is the port it left. *)
AgedOnPort(s, i) ==
    LET t == SetLocalAge(s)
        linked == [t EXCEPT !.mac.ifname = "link"]
    IN  CASE BothAged(t) -> Removed(IF t.mac.synced THEN DelFromChip(t) ELSE t)
          [] ~BothAged(t) /\ FromMclag(i) /\ ~t.up["po"] ->
                IF ~t.haslink THEN t
                ELSE IF LinkUp(t) THEN AddToChip(linked) ELSE linked
          [] OTHER -> IF t.up[t.mac.ifname] THEN AddToChip(t) ELSE t

FromSyncd(s, n) ==
    CASE n.op = "add" -> IF s.mac.found THEN LearntKnown(s, n.port, n.type)
                                        ELSE LearntNew(s, n.port, n.type)
      [] n.op = "del" -> IF ~s.mac.found THEN s
                         ELSE IF s.mac.ifname = "link" THEN AgedOnLink(s)
                         ELSE AgedOnPort(s, n.port)

-----------------------------------------------------------------------------
(* mlacp_fsm_update_mac_entry_from_peer *)

(* The peer has learnt on port i an address that is in mac_rb. *)
PeerAddKnown(s, i) ==
    LET confirmed == FromMclag(i) /\ s.mac.pend
        s1 == IF confirmed
              THEN Queued([s EXCEPT !.mac.pend = FALSE, !.mac.local = TRUE, !.mac.peer = FALSE], "del")
              ELSE [s EXCEPT !.mac.peer = FALSE]
        moved == [s1 EXCEPT !.mac.origin = i]
        away == SetLocalAge(moved)
        differs == s.mac.ifname # i \/ s.mac.origin # i
    IN  IF ~differs
        THEN IF FromMclag(i) \/ ~s.haslink THEN s1 ELSE AddToChip([s1 EXCEPT !.mac.ifname = "link"])
        ELSE IF s.mac.type = "static" THEN [s1 EXCEPT !.mac.peer = TRUE]
        ELSE IF FromMclag(i) /\ s.up[i] THEN AddToChip([moved EXCEPT !.mac.ifname = i])
        ELSE IF ~s.haslink
        THEN RemovedIf([DelFromChip(away) EXCEPT !.mac.ifname = i], ~FromMclag(i))
        ELSE IF s.mac.ifname = "link" THEN away
        ELSE AddToChip([away EXCEPT !.mac.ifname = "link"])

(* It is not in mac_rb.  It is the copy on the stack that is sent to the     *)
(* chip: add_to_syncd of the entry stays 0.                                  *)
PeerAddNew(s, i, t) ==
    LET away == ~FromMclag(i) \/ ~s.up[i]
        linked == away /\ s.haslink
        new == [s EXCEPT !.mac = [NoMac EXCEPT !.found = TRUE, !.origin = i, !.type = t,
                                               !.ifname = IF linked THEN "link" ELSE i,
                                               !.local = TRUE]]
    IN  CASE away /\ ~s.haslink /\ ~FromMclag(i) -> s
          [] linked -> IF LinkUp(s) THEN Chip(new, "link") ELSE new
          [] OTHER -> IF s.up[i] THEN Chip(new, i) ELSE new

(* Mutant: the entry stays although both have aged it. *)
PeerDel_Kept(s) == [s EXCEPT !.mac.peer = TRUE]

(* Mutant: the entry is removed and stays in the chip. *)
PeerDel_LeavesChip(s) ==
    LET t == [s EXCEPT !.mac.peer = TRUE]
    IN  IF BothAged(t) THEN Removed(t) ELSE t

PeerDel(s) ==
    LET t == [s EXCEPT !.mac.peer = TRUE]
    IN  IF BothAged(t) THEN Removed(DelFromChip(t)) ELSE t

FromPeer(s, m) ==
    CASE m.op = "add" -> IF s.mac.found THEN PeerAddKnown(s, m.port)
                                        ELSE PeerAddNew(s, m.port, m.type)
      [] OTHER -> IF s.mac.found THEN PeerDel(s) ELSE s

(* The entries of one message, in their order. *)
FromPeers(s, items) ==
    LET told[n \in 0..Len(items)] ==
            IF n = 0 THEN s ELSE FromPeer(told[n - 1], items[n])
    IN  told[Len(items)]

-----------------------------------------------------------------------------
(* Interfaces *)

(* update_l2_mac_state, the port-channel went down: an address learnt here   *)
(* only is pending, not aged, while the peer's port-channel is up.           *)
PoDown(s0) ==
    LET s == [s0 EXCEPT !.timer = TRUE]
        t == SetLocalAge(s)
    IN  IF ~s.mac.found \/ s.mac.origin # "po" THEN s
        ELSE IF OnlyLocal(s) /\ s.pif = "up" THEN [Redirected(s) EXCEPT !.mac.pend = TRUE]
        ELSE IF BothAged(t) THEN Removed(IF t.mac.type = "static" THEN t ELSE DelFromChip(t))
        ELSE IF t.haslink THEN Redirected(t) ELSE DelFromChip(t)

(* The same, it came up: an entry is taken back from the peer-link. *)
PoUp(s0) ==
    LET s == [s0 EXCEPT !.timer = FALSE]
        back == [s EXCEPT !.mac.pend = FALSE, !.mac.ifname = "po"]
    IN  IF ~s.mac.found \/ s.mac.origin # "po" THEN s
        ELSE IF s.mac.ifname = "link"
        THEN IF OnlyPeer(s) THEN AddToChip(back) ELSE AddAgeing(back)
        ELSE IF s.mac.pend THEN PendingCleared(s) ELSE s

(* mlacp_portchannel_state_handler *)
PoState(s) == IF s.up["po"] THEN PoUp(s) ELSE PoDown(s)

(* update_orphan_port_mac *)
OrphanUp(s) ==
    IF s.mac.found /\ s.mac.origin = "eth" /\ OnlyLocal(s) /\ s.state = "EXCHANGE"
    THEN Queued(s, "add") ELSE s

(* Mutant: only what was in the chip before is put back. *)
PeerLinkUp_Synced(s) ==
    IF s.mac.found /\ s.mac.ifname = "link" /\ s.mac.synced THEN AddToChip(s) ELSE s

(* mlacp_peerlink_up_handler *)
PeerLinkUp(s) == IF s.mac.found /\ s.mac.ifname = "link" THEN AddToChip(s) ELSE s

(* mlacp_peerlink_down_handler *)
PeerLinkDown(s) ==
    LET t == DelFromChip(IF s.mac.pend THEN s ELSE SetLocalAge(s))
    IN  IF s.mac.found /\ s.mac.ifname = "link" THEN RemovedIf(t, BothAged(t)) ELSE s

(* mlacp_local_lif_clear_pending_mac, MLACP_LOCAL_IF_DOWN_TIMER after the    *)
(* port-channel went down.                                                   *)
TimerExpired(s) ==
    [IF s.mac.found /\ s.mac.pend /\ s.mac.origin = "po" THEN PendingCleared(s) ELSE s
        EXCEPT !.timer = FALSE]

-----------------------------------------------------------------------------
(* The session. *)

(* mlacp_convert_remote_mac_to_local *)
RemoteToLocal(s) ==
    IF s.up["po"] /\ s.mac.found /\ s.mac.origin = "po" /\ OnlyPeer(s)
    THEN Queued(AddAgeing([s EXCEPT !.mac.local = FALSE, !.mac.peer = TRUE]), "add")
    ELSE s

(* mlacp_fsm_update_Aggport_state in EXCHANGE *)
PeerPo(s, up) ==
    LET t == [s EXCEPT !.pif = IF up THEN "up" ELSE "down"]
    IN  IF up \/ s.state # "EXCHANGE" THEN t ELSE RemoteToLocal(t)

(* mlacp_sync_mac *)
SyncMac(s) == IF s.mac.found /\ ~s.mac.local THEN Queued(s, "add") ELSE s

(* mlacp_peer_conn_handler, on entering EXCHANGE *)
Connected(s) == PoState(SyncMac([s EXCEPT !.state = "EXCHANGE"]))

(* mlacp_peer_disconn_fdb_handler *)
FdbDisconnected(s) ==
    LET aged == [s EXCEPT !.mac.peer = TRUE]
    IN  IF ~s.mac.found THEN s
        ELSE IF s.mac.ifname = "link"
        THEN IF BothAged(aged) \/ s.mac.pend THEN Removed(DelFromChip(aged)) ELSE aged
        ELSE IF OnlyPeer(s) THEN [AddAgeing(aged) EXCEPT !.mac.local = FALSE] ELSE aged

(* mlacp_mac_msg_queue_reinit: what was to be sent is dropped, and a deletion *)
(* is freed, whether or not it is still in mac_rb.                            *)
QueueReinit(s) ==
    [s EXCEPT !.detached = <<>>, !.mac.queued = FALSE,
              !.freed = @ \/ (s.mac.queued /\ s.mac.op = "del")]

(* scheduler_session_disconnect_handler: with a peer in warm reboot the FDB  *)
(* is left alone, and warm_reboot_disconn_time is set and, by                *)
(* iccp_csm_status_reset, cleared.                                           *)
Disconnected(s) ==
    [QueueReinit(IF s.warm THEN s ELSE FdbDisconnected(s))
        EXCEPT !.state = "INIT", !.pif = "none", !.plif = FALSE, !.warm = FALSE]

(* mlacp_fsm_update_warmboot *)
PeerWarm(s) == [s EXCEPT !.warm = TRUE]

(* What p does with a message: the stages end when the peer's information   *)
(* has come (Standby answers it, Active has sent its own before).           *)
Received(p, s, m) ==
    CASE m.type = "INFO"  -> IF p = Standby THEN [PeerPo(s, m.up) EXCEPT !.state = "STAGE2"]
                                            ELSE Connected(PeerPo(s, m.up))
      [] m.type = "STATE" -> PeerPo(s, m.up)
      [] m.type = "MAC"   -> FromPeers(s, m.items)
      [] m.type = "WARM"  -> PeerWarm(s)

(* mlacp_exchange_handler: the state of the port-channel if it changed, then *)
(* mlacp_sync_send_syncMacInfo.                                              *)
Pending(s) ==
    LET items == s.detached \o (IF s.mac.queued THEN << ItemOf(s.mac) >> ELSE <<>>)
    IN  (IF s.changed THEN << [type |-> "STATE", up |-> s.up["po"]] >> ELSE <<>>)
          \o (IF items = <<>> THEN <<>> ELSE << [type |-> "MAC", items |-> items] >>)

Flushed(s) == [s EXCEPT !.changed = FALSE, !.detached = <<>>, !.mac.queued = FALSE]

(* It is p's turn to send its information. *)
MustInform(p, s) == \/ p = Active /\ s.state = "STAGE1"
                    \/ p = Standby /\ s.state = "STAGE2"

(* Mutant: the state is incremented past the last one. *)
Informed_Overrun(p, s) == [s EXCEPT !.changed = FALSE,
                                    !.state = IF @ = "STAGE1" THEN "STAGE2" ELSE "ERROR"]

Informed(p, s) ==
    LET t == [s EXCEPT !.changed = FALSE]
    IN  IF p = Active THEN [t EXCEPT !.state = "STAGE2"] ELSE Connected(t)

Info(s) == << [type |-> "INFO", up |-> s.up["po"]] >>

-----------------------------------------------------------------------------
(* The loop. *)

Sent(p, out) ==
    ch' = [ch EXCEPT ![Other(p)] = IF joined[Other(p)] THEN @ \o out ELSE @]

(* mlacp_sync_send_all_info_handler, in the stage in which p answers. *)
SendInfo(p) ==
    /\ joined[p] /\ MustInform(p, sw[p])
    /\ LET s == Informed(p, sw[p])
           up == s.state = "EXCHANGE"
       IN  /\ sw' = [sw EXCEPT ![p] = IF up THEN Flushed(s) ELSE s]
           /\ Sent(p, Info(sw[p]) \o (IF up THEN Pending(s) ELSE <<>>))
    /\ UNCHANGED <<alive, joined, learnt, note, events>>

(* A turn in which a message is handled. *)
Receive(p) ==
    /\ joined[p] /\ ch[p] # <<>>
    /\ ~MustInform(p, sw[p])
    /\ LET s == Received(p, sw[p], Head(ch[p]))
           up == s.state = "EXCHANGE"
       IN  /\ sw' = [sw EXCEPT ![p] = IF up THEN Flushed(s) ELSE s]
           /\ ch' = [ch EXCEPT ![p] = Tail(@),
                               ![Other(p)] = IF up /\ joined[Other(p)] THEN @ \o Pending(s) ELSE @]
    /\ UNCHANGED <<alive, joined, learnt, note, events>>

(* A turn in EXCHANGE without a message. *)
Flush(p) ==
    /\ joined[p] /\ sw[p].state = "EXCHANGE"
    /\ sw' = [sw EXCEPT ![p] = Flushed(@)]
    /\ Sent(p, Pending(sw[p]))
    /\ UNCHANGED <<alive, joined, learnt, note, events>>

(* mlacp_local_lif_state_mac_handler: only with a session.  The timer is long *)
(* (600 s): what was under way when the port-channel went down has arrived.   *)
DownTimer(p) ==
    /\ joined[p] /\ sw[p].timer /\ ~sw[p].up["po"]
    /\ \A q \in Peer : ch[q] = <<>> /\ note[q] = <<>> /\ Pending(sw[q]) = <<>>
    /\ sw' = [sw EXCEPT ![p] = TimerExpired(@)]
    /\ UNCHANGED <<alive, joined, learnt, note, ch, events>>

(* The peer announced a warm reboot and for WARM_REBOOT_TIMEOUT the session  *)
(* was not seen to end: the peer went without closing its connection, and    *)
(* session_timeout is longer.                                                *)
WarmTimer(p) ==
    /\ joined[p] /\ sw[p].warm /\ sw[p].state = "EXCHANGE"
    /\ sw' = [sw EXCEPT ![p].warm = FALSE]
    /\ UNCHANGED <<alive, joined, learnt, note, ch, events>>

(* scheduler_prepare_session: peer_link_if is found again. *)
Prepare(p) ==
    /\ alive[p] /\ ~joined[p] /\ sw[p].haslink /\ ~sw[p].plif
    /\ sw' = [sw EXCEPT ![p].plif = TRUE]
    /\ UNCHANGED <<alive, joined, learnt, note, ch, events>>

(* iccp_mclagsyncd_msg_handler *)
Syncd(p) ==
    /\ alive[p] /\ note[p] # <<>>
    /\ sw' = [sw EXCEPT ![p] = FromSyncd(@, Head(note[p]))]
    /\ note' = [note EXCEPT ![p] = Tail(@)]
    /\ UNCHANGED <<alive, joined, learnt, ch, events>>

-----------------------------------------------------------------------------
(* The session and the environment. *)

Spend == events < MaxEvents /\ events' = events + 1

(* IccpSession reaches OPERATIONAL at both ends of a new connection. *)
Join ==
    /\ \A p \in Peer : alive[p] /\ ~joined[p] /\ (sw[p].haslink => sw[p].plif)
    /\ joined' = [p \in Peer |-> TRUE]
    /\ sw' = [p \in Peer |-> [sw[p] EXCEPT !.state = "STAGE1"]]
    /\ UNCHANGED <<alive, learnt, note, ch, events>>

(* Once the peer has left, leaving is due, when all it sent has been read or *)
(* a reset has discarded it.                                                 *)
Leave(p) ==
    /\ joined[p]
    /\ IF joined[Other(p)] THEN "leave" \in Ops /\ Spend ELSE UNCHANGED events
    /\ joined' = [joined EXCEPT ![p] = FALSE]
    /\ sw' = [sw EXCEPT ![p] = Disconnected(@)]
    /\ ch' = [ch EXCEPT ![p] = <<>>]
    /\ UNCHANGED <<alive, learnt, note>>

(* The process ends.  Before a warm reboot iccp_receive_signal_handler tells *)
(* the peer, and neither the chip nor the tables are touched.                *)
Exit(p, warm) ==
    /\ alive[p] /\ Spend
    /\ IF warm THEN "warm" \in Ops ELSE "crash" \in Ops
    /\ alive' = [alive EXCEPT ![p] = FALSE]
    /\ joined' = [joined EXCEPT ![p] = FALSE]
    /\ sw' = [sw EXCEPT ![p] = Fresh(@.chip, @.up, @.haslink, @.kind)]
    /\ note' = [note EXCEPT ![p] = <<>>]
    /\ LET out == IF warm /\ sw[p].state = "EXCHANGE"
                  THEN << [type |-> "WARM"] >> \o Pending(sw[p]) ELSE <<>>
       IN  ch' = [ch EXCEPT ![p] = <<>>,
                            ![Other(p)] = IF joined[Other(p)] THEN @ \o out ELSE @]
    /\ UNCHANGED learnt

(* The new process; mclagsyncd tells it what the hardware has learnt. *)
Restart(p) ==
    /\ ~alive[p]
    /\ alive' = [alive EXCEPT ![p] = TRUE]
    /\ note' = [note EXCEPT ![p] = IF learnt[p] = "none" THEN <<>>
                   ELSE << [op |-> "add", port |-> learnt[p], type |-> sw[p].kind] >>]
    /\ UNCHANGED <<joined, sw, learnt, ch, events>>

(* The hardware learns the address on port i, or it is configured there. *)
Learn(p, i) ==
    /\ alive[p] /\ i \in Ops /\ Spend
    /\ learnt[p] # i
    /\ sw[p].kind = "static" \/ sw[p].up[i]
    /\ learnt' = [learnt EXCEPT ![p] = i]
    /\ note' = [note EXCEPT ![p] = Append(@, [op |-> "add", port |-> i, type |-> sw[p].kind])]
    /\ UNCHANGED <<alive, joined, sw, ch>>

AgedNote(i) == [op |-> "del", port |-> i, type |-> NoMac.type]

(* The learnt entry ages out, or is displaced by the one iccpd has set. *)
Age(p) ==
    /\ alive[p] /\ learnt[p] # "none"
    /\ IF sw[p].chip # "none" THEN UNCHANGED events ELSE "age" \in Ops /\ Spend
    /\ learnt' = [learnt EXCEPT ![p] = "none"]
    /\ note' = [note EXCEPT ![p] = Append(@, AgedNote(learnt[p]))]
    /\ UNCHANGED <<alive, joined, sw, ch>>

(* An entry that iccpd has set with ageing ages out. *)
AgeChip(p) ==
    /\ alive[p] /\ sw[p].ageing /\ "age" \in Ops /\ Spend
    /\ sw' = [sw EXCEPT ![p].ageing = FALSE]
    /\ note' = [note EXCEPT ![p] = Append(@, AgedNote(sw[p].mac.origin))]
    /\ UNCHANGED <<alive, joined, learnt, ch>>

Toggled(s, i) == [s EXCEPT !.up[i] = ~@]

(* The hardware flushes what it has learnt on a port that goes down. *)
Unlearn(p, i) ==
    IF sw[p].up[i] /\ learnt[p] = i
    THEN /\ learnt' = [learnt EXCEPT ![p] = "none"]
         /\ note' = [note EXCEPT ![p] = Append(@, AgedNote(i))]
    ELSE UNCHANGED <<learnt, note>>

(* iccp_from_netlink_port_state_handler *)
PoLink(p) ==
    /\ alive[p] /\ "polink" \in Ops /\ Spend
    /\ sw' = [sw EXCEPT ![p] = PoState([Toggled(@, "po") EXCEPT !.changed = TRUE])]
    /\ Unlearn(p, "po")
    /\ UNCHANGED <<alive, joined, ch>>

EthLink(p) ==
    /\ alive[p] /\ "ethlink" \in Ops /\ Spend
    /\ sw' = [sw EXCEPT ![p] = IF @.up["eth"] THEN Toggled(@, "eth")
                               ELSE OrphanUp(Toggled(@, "eth"))]
    /\ Unlearn(p, "eth")
    /\ UNCHANGED <<alive, joined, ch>>

PeerLink(p) ==
    /\ alive[p] /\ "peerlink" \in Ops /\ sw[p].haslink /\ Spend
    /\ sw' = [sw EXCEPT ![p] = IF @.up["link"] THEN PeerLinkDown(Toggled(@, "link"))
                               ELSE PeerLinkUp(Toggled(@, "link"))]
    /\ UNCHANGED <<alive, joined, learnt, note, ch>>

Next ==
    \/ Join
    \/ \E p \in Peer :
          \/ SendInfo(p) \/ Receive(p) \/ Flush(p)
          \/ DownTimer(p) \/ WarmTimer(p)
          \/ Prepare(p) \/ Syncd(p)
          \/ Leave(p) \/ Restart(p)
          \/ \E warm \in BOOLEAN : Exit(p, warm)
          \/ \E i \in HostPort : Learn(p, i)
          \/ Age(p) \/ AgeChip(p)
          \/ PoLink(p) \/ EthLink(p) \/ PeerLink(p)

Spec == Init /\ [][Next]_vars

-----------------------------------------------------------------------------
(* Fairness: the loop keeps turning, mclagsyncd delivers, an entry that      *)
(* iccpd has set displaces the learnt one, timers that run expire, and the   *)
(* session comes back while both processes run.  Whether a process that went *)
(* down for a warm reboot returns is not iccpd's to promise.                 *)
Fairness ==
    /\ WF_vars(Join)
    /\ \A p \in Peer :
          /\ WF_vars(SendInfo(p))
          /\ WF_vars(Receive(p))
          /\ WF_vars(Flush(p))
          /\ WF_vars(DownTimer(p))
          /\ WF_vars(WarmTimer(p))
          /\ WF_vars(Prepare(p))
          /\ WF_vars(Syncd(p))
          /\ WF_vars(Leave(p) /\ UNCHANGED events)
          /\ WF_vars(Age(p) /\ UNCHANGED events)

FairSpec == Spec /\ Fairness

(* Both switches exchange updates, nothing is pending or under way, and the  *)
(* hardware has dropped what iccpd's entry displaced.                        *)
Quiescent ==
    \A p \in Peer :
        /\ joined[p] /\ sw[p].state = "EXCHANGE" /\ ~sw[p].freed
        /\ ch[p] = <<>> /\ note[p] = <<>> /\ Pending(sw[p]) = <<>> /\ ~sw[p].timer
        /\ sw[p].chip # "none" => learnt[p] = "none"

Dynamic(p) == sw[p].kind = "dynamic"

(* An address of which the switch has a choice where to send. *)
Tracked(s) == s.mac.found /\ s.haslink /\ s.kind = "dynamic"

(* Where the switch sends what is addressed to the host. *)
Forwards(p) == IF sw[p].chip # "none" THEN sw[p].chip ELSE learnt[p]

(* An address that is not marked MAC_AGE_PEER is one the peer has not aged:  *)
(* its ADDs and DELs, coalesced in mac_msg_list and cut by lost sessions,    *)
(* leave the age flags of the two tables in agreement.  Otherwise a switch   *)
(* keeps sending to the peer for a host that nobody knows.                   *)
PeerHasIt ==
    Quiescent =>
        \A p \in Peer : LET m == sw[p].mac
                            r == sw[Other(p)].mac
            IN  m.found /\ ~m.peer => r.found /\ ~r.local

(* A switch that sends over the peer-link sends to one that knows the host,  *)
(* and at a port of its own, whatever moves crossed: it does not send the    *)
(* frames back.  What the chip has from an earlier process is not iccpd's.   *)
LinkRemote ==
    Quiescent /\ (\A p \in Peer : Dynamic(p)) =>
        \A p \in Peer :
            sw[p].chip = "link" /\ ~sw[p].inherited => Forwards(Other(p)) \in HostPort

(* An entry that has aged on both switches is removed in the same step,      *)
(* whichever of the many places sets the second flag: ageing, a DEL of the   *)
(* peer, a port or the peer-link going down, the end of the session.         *)
NotBothAged ==
    \A p \in Peer : sw[p].mac.found /\ Dynamic(p) => ~(sw[p].mac.local /\ sw[p].mac.peer)

(* While switches exchange updates, iccpd never leaves the chip pointing to  *)
(* a port-channel that is down while there is a peer-link, in whatever order *)
(* carrier, learning and the peer's updates come, and whatever the last      *)
(* session left.  An entry of an earlier process is not its own.             *)
PortUp ==
    \A p \in Peer :
        sw[p].state = "EXCHANGE" /\ sw[p].haslink /\ Dynamic(p) /\ ~sw[p].inherited =>
            (sw[p].chip = "po" => sw[p].up["po"])

(* The same without a session: what mlacp_peer_disconn_fdb_handler converts  *)
(* to a local entry points to a port that is up.                             *)
PortUpAlone ==
    \A p \in Peer : sw[p].haslink /\ Dynamic(p) /\ ~sw[p].inherited =>
        (sw[p].chip = "po" => sw[p].up["po"])

(* The switch does with the address what iccpd believes: when it has heard   *)
(* all the hardware had to tell, an entry of mac_rb is in the chip, or learnt *)
(* by the hardware, at the interface it names, unless that is a peer-link    *)
(* that is down: no turn of events, such as a deletion by the chip, a flap,  *)
(* a move or a lost session, leaves an entry that nobody installs.           *)
Installed ==
    \A p \in Peer : LET s == sw[p]
        IN  Tracked(s) /\ s.state = "EXCHANGE" /\ note[p] = <<>>
              /\ (s.mac.ifname = "link" => LinkUp(s)) => s.mac.ifname \in {s.chip, learnt[p]}

(* mac_rb holds no entry that has been freed: a queued entry is freed only   *)
(* when it is no longer in the tree ("free mac_msg if marked for delete").   *)
NoFreed == \A p \in Peer : ~sw[p].freed

(* "After peer warm reboot and disconnect, if peer connection is not         *)
(* establised more than 90s, recover peer disconnection to normal process,   *)
(* such as add peer age flag for MACs" (mlacp_fsm_transit).                  *)
WarmRebootEnds ==
    \A p \in Peer :
        (alive[p] /\ ~joined[p] /\ ~alive[Other(p)])
            ~> (~alive[p] \/ alive[Other(p)] \/ ~sw[p].mac.found \/ sw[p].mac.peer)

-----------------------------------------------------------------------------
(* The inductive invariant behind NotBothAged and PortUp. *)

(* Both switches know the address with the type it has. *)
OfKind(s) ==
    /\ s.mac.found => s.mac.type = s.kind
    /\ s.mac.queued => s.mac.found
    /\ \A n \in 1..Len(s.detached) : s.detached[n].type = s.kind

(* An entry is where it was learnt, or redirected. *)
OnOrigin(s) == s.mac.found => s.mac.ifname \in {"link", s.mac.origin}

AgesApart(s) == s.mac.found /\ s.kind = "dynamic" => ~BothAged(s)

(* The chip points to the port-channel for an entry that does, and which is  *)
(* marked as installed or as the peer's; and the port-channel is up, or the  *)
(* entry is one that the end of the session left as learnt here.             *)
InstalledOnPo(s) ==
    /\ s.mac.found /\ s.mac.ifname = "po"
    /\ s.mac.synced \/ OnlyPeer(s)

ChipRight(s) ==
    s.kind = "dynamic" /\ s.haslink /\ ~s.inherited /\ s.chip = "po" =>
        /\ InstalledOnPo(s)
        /\ s.up["po"] \/ (s.state # "EXCHANGE" /\ OnlyLocal(s))

SwitchInv(s) == OfKind(s) /\ OnOrigin(s) /\ AgesApart(s) /\ ChipRight(s)

IsInfo(m) == m.type = "INFO"

NoInfo(c) == \A n \in 1..Len(c) : ~IsInfo(c[n])

(* Updates wait behind the information with which the stages end. *)
InfoFirst(c) == c # <<>> => IsInfo(c[1]) /\ NoInfo(Tail(c))

(* What a switch has to read in its stage, be its peer still there or not:   *)
(* a MAC message is handled in EXCHANGE only.                                *)
StageOf(p) ==
    CASE sw[p].state = "INIT" -> ~joined[p] /\ ch[p] = <<>>
      [] sw[p].state = "STAGE1" -> joined[p] /\ IF p = Active THEN ch[p] = <<>>
                                                ELSE ch[p] = <<>> \/ (Len(ch[p]) = 1 /\ IsInfo(ch[p][1]))
      [] sw[p].state = "STAGE2" -> joined[p] /\ IF p = Standby THEN ch[p] = <<>> ELSE InfoFirst(ch[p])
      [] sw[p].state = "EXCHANGE" -> joined[p] /\ NoInfo(ch[p])

(* In a session the two are never more than a stage apart. *)
StagesAgree ==
    joined[Active] /\ joined[Standby] =>
        \/ sw[Active].state = "STAGE1" /\ sw[Standby].state = "STAGE1" /\ ch[Standby] = <<>>
        \/ sw[Active].state = "STAGE2" /\ sw[Standby].state = "STAGE1" /\ ch[Active] = <<>>
        \/ sw[Active].state = "STAGE2" /\ sw[Standby].state = "STAGE2" /\ ch[Active] = <<>>
        \/ sw[Active].state = "STAGE2" /\ sw[Standby].state = "EXCHANGE" /\ ch[Active] # <<>>
        \/ sw[Active].state = "EXCHANGE" /\ sw[Standby].state = "EXCHANGE"

(* What is on its way to p is about the address as p knows it. *)
ToldKind(p) ==
    /\ \A n \in 1..Len(note[p]) : note[p][n].op = "add" => note[p][n].type = sw[p].kind
    /\ \A n \in 1..Len(ch[p]) : ch[p][n].type = "MAC" =>
          \A l \in 1..Len(ch[p][n].items) : ch[p][n].items[l].type = sw[p].kind

(* What keeps the age flags apart and the chip right: every entry and every  *)
(* update has the type of the address, an address never has both flags, the  *)
(* chip's entry for the port-channel belongs to an entry that says so, and   *)
(* updates of the peer are handled only after mlacp_peer_conn_handler has    *)
(* looked at every port-channel.                                             *)
AgesInv ==
    /\ sw[Active].kind = sw[Standby].kind
    /\ \A p \in Peer : SwitchInv(sw[p]) /\ StageOf(p) /\ ToldKind(p)
    /\ \A p \in Peer : ~alive[p] => ~joined[p] /\ note[p] = <<>>
    /\ StagesAgree

-----------------------------------------------------------------------------
(* The inductive invariant behind Installed. *)

(* What points to the orphan port was learnt there, and the peer has it not: *)
(* an address of the peer's orphan port is at the peer-link.                 *)
EthLearnt(s) == Tracked(s) /\ s.mac.ifname = "eth" => s.mac.peer

(* What points to the peer-link is in the chip while that is up.  Without a  *)
(* session a port-channel's may be missing until mlacp_peer_conn_handler     *)
(* looks at the port-channel.                                                *)
LinkInstalled(s) ==
    Tracked(s) /\ s.mac.ifname = "link" /\ s.up["link"]
      /\ (s.state = "EXCHANGE" \/ s.mac.origin = "eth") => s.chip = "link"

(* The entry says port i, and the chip does not. *)
Elsewhere(s, i) == Tracked(s) /\ s.mac.ifname = i /\ s.chip # i

(* The n-th notification of c, after which an entry of port i has moved or   *)
(* is in the chip.                                                           *)
Mends(c, n, i) == c[n].op = "add" \/ c[n].port = i

(* Then the hardware has learnt it there, or is about to tell iccpd more. *)
PortInstalled(p) ==
    \A i \in HostPort : Elsewhere(sw[p], i) =>
        learnt[p] = i \/ \E n \in 1..Len(note[p]) : Mends(note[p], n, i)

(* So has it of every address that it has yet to tell iccpd of. *)
NotesFollow(p) ==
    \A n \in 1..Len(note[p]) : note[p][n].op = "add" =>
        \/ learnt[p] = note[p][n].port
        \/ \E k \in n + 1..Len(note[p]) : Mends(note[p], k, note[p][n].port)

(* What keeps every entry installed. *)
ChipInv ==
    \A p \in Peer :
        /\ EthLearnt(sw[p]) /\ LinkInstalled(sw[p])
        /\ PortInstalled(p) /\ NotesFollow(p)
        /\ joined[p] /\ sw[p].haslink => sw[p].plif

MacInv == AgesInv /\ ChipInv

-----------------------------------------------------------------------------
(* The inductive invariant behind PeerHasIt and LinkRemote, while the        *)
(* port-channels stay as they are and no switch reboots warm.  Otherwise a   *)
(* pending entry is removed and the peer not told, or the peer keeps what    *)
(* the switch has forgotten.                                                 *)
NoFlaps == PeerLinks \subseteq {TRUE} /\ Ops \cap {"polink", "warm"} = {}

(* The address has not aged here. *)
Knows(s) == s.mac.found /\ ~s.mac.local

(* Nothing is to be sent about it. *)
Silent(s) == ~s.mac.queued /\ s.detached = <<>>

(* What is to be sent is true: an ADD of an address that is known, or DELs   *)
(* of what was removed.  Nothing is queued, or kept as the peer's, without a *)
(* session.                                                                  *)
QueueTrue(s) ==
    /\ s.mac.queued /\ s.mac.op = "add" => ~s.mac.local
    /\ \A n \in 1..Len(s.detached) : s.detached[n].op = "del"
    /\ s.state # "EXCHANGE" => Silent(s) /\ (s.mac.found => s.mac.peer)

(* An address of the port-channel is there while it is up and at the         *)
(* peer-link while it is down, so it is never pending; one of the orphan     *)
(* port is at the peer-link when the peer has learnt it too, and then in the *)
(* chip; and what the chip sends to the peer-link is an entry's.             *)
WellPlaced(s) ==
    /\ Tracked(s) /\ s.mac.origin = "po" => (s.mac.ifname = "po" <=> s.up["po"])
    /\ Tracked(s) /\ Knows(s) /\ s.mac.ifname = "link" =>
          s.mac.origin = "eth" /\ s.mac.synced /\ s.chip = "link"
    /\ s.kind = "dynamic" => ~s.mac.pend
    /\ s.kind = "dynamic" /\ ~s.inherited /\ s.chip = "link" =>
          s.mac.found /\ s.mac.ifname = "link"

(* What the hardware has learnt and the chip has not at that port: the       *)
(* hardware drops it when the chip's entry displaces it, and tells iccpd.    *)
Unset(s) == Tracked(s) /\ Knows(s) /\ s.mac.ifname # "po"

DropTold(p) == Unset(sw[p]) => learnt[p] # "none" \/ note[p] # <<>>

(* The hardware learns on the port-channel while that is up. *)
PoLearntUp(p) ==
    sw[p].kind = "dynamic" /\ ~sw[p].up["po"] =>
        /\ learnt[p] # "po"
        /\ \A n \in 1..Len(note[p]) : note[p][n].op = "add" => note[p][n].port # "po"

IsMac(m) == m.type = "MAC"

NoMacs(c) == \A n \in 1..Len(c) : ~IsMac(c[n])

(* A MAC message ends with an ADD, if it has one. *)
AddLast(m) ==
    /\ m.items # <<>>
    /\ \A n \in 1..Len(m.items) - 1 : m.items[n].op = "del"

EndsInAdd(m) == m.items[Len(m.items)].op = "add"

LastMac(c, n) == IsMac(c[n]) /\ \A k \in n + 1..Len(c) : ~IsMac(c[k])

(* The last that p has heard of the address, or is going to hear, is true,   *)
(* or its peer has more to say.                                              *)
HearsTrue(p) ==
    LET q == Other(p)
    IN  joined[p] /\ joined[q] =>
            /\ sw[q].state # "EXCHANGE" => NoMacs(ch[p]) /\ (sw[p].mac.found => sw[p].mac.peer)
            /\ Silent(sw[q]) =>
                  /\ \A n \in 1..Len(ch[p]) :
                        LastMac(ch[p], n) /\ EndsInAdd(ch[p][n]) => Knows(sw[q])
                  /\ NoMacs(ch[p]) /\ sw[p].mac.found /\ ~sw[p].mac.peer => Knows(sw[q])

AgreeInv ==
    \A p \in Peer :
        /\ sw[p].haslink /\ ~sw[p].warm /\ QueueTrue(sw[p]) /\ WellPlaced(sw[p])
        /\ DropTold(p) /\ PoLearntUp(p) /\ HearsTrue(p)
        /\ \A n \in 1..Len(ch[p]) :
              ch[p][n].type # "WARM" /\ (IsMac(ch[p][n]) => AddLast(ch[p][n]))
=============================================================================
