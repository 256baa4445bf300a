# TLA+ models of MC-LAG and of the container manager in SONiC

This directory holds TLA+ modules, TLC configurations and TLAPS proofs about two
systems of `sonic-buildimage`:

* `iccpd` (`src/iccpd`), the daemon that makes two switches act as one
  link-aggregation partner (multi-chassis LAG). It is the largest piece of
  protocol logic written in this repository, it runs on two machines that only
  share a TCP connection, and it has no tests of its own for what happens when
  the steps of the two machines interleave;
* `sonic-ctrmgrd` (`src/sonic-ctrmgrd`), where systemd commands, scripts inside
  containers, a daemon and Kubernetes hand a feature over to each other through
  fields of a database that nobody locks.

The rest of the repository is mostly build rules, device data and vendor drivers.

`PROJECT.json` lists the components, the runs, the mutants of every property,
the source lines of every definition, the findings, the hazards and the theorems.

## The system

    mclagsyncd  --configuration-->  iccpd A  <==== TCP (ICCP) ====>  iccpd B
    kernel      --netlink------->     |                                 |
                                      +--> isolation, traffic, FDB      +--> ...

| Part | State | Operations | Files (from `src/iccpd/src`) |
|---|---|---|---|
| ICCP session | one CSM per domain: socket, connection state, capability and RG flags, status code, role | connect, accept, refuse, transit, read, heartbeat timeout, disconnect | `iccp_csm.c`, `scheduler.c`, `app_csm.c` |
| Configuration | domain, addresses, peer-link, `if_bind_list` | set and unset of each; attach and detach of a port-channel | `iccp_cli.c`, `mlacp_link_handler.c` |
| mLACP state machine | stage, `wait_for_sync_data`, `need_to_sync`, purge list | staged synchronisation, exchange of updates, acknowledgements | `mlacp_fsm.c` |
| Interfaces | local and peer interfaces: carrier, `po_active`, membership, change flags | create, destroy, bind, unbind, carrier change | `port.c`, `app_csm.c`, `iccp_netlink.c` |
| Isolation and traffic | `isolate_to_peer_link`, `is_traffic_disable` | recomputed on every local or remote change, and on session up and down | `mlacp_link_handler.c` |
| MAC, ARP and ND synchronisation | trees and queues of entries with age flags | learn, age, move, replay | `mlacp_sync_update.c`, `mlacp_link_handler.c`, `iccp_ifm.c` |
| Warm reboot | `peer_warm_reboot_time`, `warm_reboot_disconn_time` | warmboot flag, two 90 s timers | `scheduler.c`, `mlacp_fsm.c` |
| Container manager | per feature: CONFIG_DB `set_owner`, STATE_DB owner, `remote_state`, container id, version; node labels | start, wait, stop, kill; start-up of a container; owner and state updates | `../../sonic-ctrmgrd/ctrmgr` |
| Show commands | none | `mclagdctl` queries | `mclagdctl/`, `iccp_cmd_show.c` |

Each daemon is one thread: `scheduler_loop` waits in `epoll_wait`, handles the
ready descriptors one after the other (netlink, mclagsyncd, the listening
socket, at most one message from the peer) and then runs the three state
machines once (`scheduler_transit_fsm`). Within a turn nothing interleaves;
between the turns of the two switches, the kernel's link events and the
configuration, everything does. What is hard:

* a connection is established by the client's kernel before the server's
  application decides whether to keep it, so clients come back while the server
  still holds the old socket;
* a peer that lost power leaves a half-open connection which only the heartbeat
  finds;
* every flag of a session must be gone before the next one starts;
* the synchronisation has stages, with one switch asking and the other answering,
  and interfaces change while it runs;
* isolation and traffic blocking are derived from the last known state of the
  peer, which may be old, missing or on its way;
* an address has two age flags, set and cleared in some ten places, by updates
  that cross on the wire and are coalesced in a queue which a lost session empties;
* what iccpd sets in the kernel comes back as a notification and is told to the
  peer again;
* a warm reboot suppresses the handling of the disconnect, and timers must make
  up for it.

The container manager's programs are separate processes: each reads the fields of
a feature, blocks (`docker`, `systemctl`, `time.sleep`) and writes some of them.

What makes it correct: no state survives its session; both ends become
operational on the same connection and only within one redundancy group; the
switch with the lower address is the active one; the session comes back after
faults; after the synchronisation each switch knows the other's interfaces and
their states, whatever changed meanwhile; an interface is isolated from the
peer-link exactly when it is up on both switches; no interface that is up stays
blocked; the MAC tables agree about who has an address, and no frame goes back and
forth over the peer-link; the list of neighbours follows the kernel's, and the
echoes die out. For the container manager: whatever happens to the remote
container, a feature that is meant to run does run, from the local image if
nothing else comes.

Other systems of the repository (BGP configuration daemon,
DHCP monitor, system health, FRR management framework, YANG and configuration
tools, systemd generator, build system) are listed in `PROJECT.json` with the
reason why they are not modelled.

## Modules

### `IccpSession`

Two switches, `Low` and `High` by address, so that `Low` is the TCP client.
A connection has two ends and a FIFO per direction; its identity is used again
when both ends are gone. Variables: `alive`, `cfg` (which attributes the domain
has), `sock` (`csm->sock_fd`), `csm` (state, the four flags, status code, role,
application state, message queue), `turn`, `end`, `ch`, `acceptq`, `faults`.

| Action | Code |
|---|---|
| `Connect` | `scheduler_prepare_session`, `session_client_conn_handler` |
| `Accept`, `Reject` | `scheduler_server_accept`, keeping or closing |
| `PrepareNothing` | a turn without a socket, which still counts the role |
| `TransitAccepted`, `Transit` | `iccp_csm_transit` and `app_csm_transit`, before and after INITIALIZED |
| `Read`, `ReadError` | `scheduler_csm_read_callback` |
| `Timeout` | `heartbeat_check` |
| `Crash`, `Restart` | the process ends, with its sockets closed or lost, and starts |
| `AddDomain`, `SetAddress`, `UnsetAddress`, `PeerLinkMissing`, `PeerLinkPresent`, `ChangePeerLink`, `DelDomain` | the commands of `iccp_cli.c` |

A turn of the loop is split into its read and its transit, because a turn touches
the other switch only through TCP; `turn` keeps one read between two transits.
`turn = "stale"` is the case in which a command closed the socket, `accept`
reused the descriptor's number and an event of the same `epoll_wait` still names
it: the message it reads is dropped by the first transit. A role is counted by
`CheckedRole` exactly where the code counts it, which includes incomplete
configurations. Heartbeats are not messages of the model: a timeout is *due* when
the switch will hear nothing more on its connection (`Silent`) and a premature
one is a fault. Message ids and the log of sent messages are left out; the
receiver of a NAK does not use what it names.

### `MlacpSync`

The layer above, for one domain with a peer-link. `joined` is the session as
`IccpSession` describes it: both ends join a new connection after both have left
the old one, and either may leave at any time. Variables: `sw[p]` (state, wait,
need, local interfaces, peer interfaces, purge list, bind list), `ch` (messages
to `p`), `wanted` (what mclagsyncd configured), `events`. One switch is active and
the other standby, here and in the models that follow, as they are when both addresses
are configured before the first turn; `session_roles` shows that otherwise they
need not be.

| Action | Code |
|---|---|
| `Turn(p, n)` | `mlacp_fsm_transit` with `n` messages, the passes of its loop one after the other, with everything that `mlacp_stage_handler` and `mlacp_exchange_handler` send |
| `Leave` | `scheduler_session_disconnect_handler` with `mlacp_peer_disconn_handler` and `mlacp_init(csm, 0)` |
| `LinkChange` | the carrier part of `iccp_event_handler_obj_input_newlink` with `mlacp_portchannel_state_handler` |
| `ConfigChange` | what sets `port_config_sync`: a MAC address or a VLAN |
| `Attach`, `Detach` | `iccp_cli_attach_`, `iccp_cli_detach_mclag_domain_to_port_channel` with bind, unbind and isolation |
| `Destroy`, `Create` | `local_if_destroy`, `local_if_create` |

Abstractions. All that `mlacp_sync_send_all_info_handler` sends is one message,
`INFO`: the sender writes it in one go, and a receiver that waits for it derives
nothing from it before its end (isolation is computed in EXCHANGE only). The
interfaces of an exchange are sent in any order of the list. A purge entry
remembers whether its interface is `gone`, because the code compares pointers and
a new interface of the same name is another one. `PORT_STATE_UP` is 0, so a new
peer interface, which is zeroed, is up. Requests to mclagsyncd succeed. MAC, ARP
and ND traffic, VLANs and warm reboot are not in this module.

### `Session`

What a session promises the protocols above it: it begins only when neither
switch is in one, and an end that has left never comes back to a peer that has
not. `Join` and `Leave` of `MlacpSync`, `MacSync` and `NeighSync` are its actions
(with `Join` of both ends; an end that is gone at once is a `Join` and a `Leave`).
`IccpSession` implements it: `ImplementsSession` instantiates `Session` with
`joined[p]` mapped to "`p` is operational, or on the connection on which its peer
already is", and `session`
checks it with crashes, half-open connections and refused clients.

### `MacSync`

One MAC address, since addresses do not interact, on a port-channel `po` that both
switches have in the domain, an orphan port `eth` and the peer-link `link`.
`sw[p]` is the state of `p`: its stage, the entry in `mac_rb` (`mac`: interface,
original interface, the two bits of `age_flag`, `pending_local_del`,
`add_to_syncd`, `op_type`, whether it is queued), the queued items that are no
longer in the tree, the carriers, what iccpd asked the chip to hold (`chip`) and
the timers. `learnt` is the hardware's own entry, `note` the notifications of
mclagsyncd, `ch` the messages.

| Action | Code |
|---|---|
| `Syncd` | `do_mac_update_from_syncd`: learnt (known, new) and aged (on the peer-link, on a port) |
| `Receive` | `mlacp_fsm_update_mac_entry_from_peer`, `mlacp_fsm_update_Aggport_state`, `mlacp_fsm_update_warmboot`, and the stages |
| `Flush`, `SendInfo` | the sending part of `mlacp_exchange_handler`, `mlacp_stage_sync_send_handler` |
| `PoLink`, `EthLink`, `PeerLink` | `iccp_from_netlink_port_state_handler` with `update_l2_mac_state`, `update_orphan_port_mac`, the peer-link handlers |
| `DownTimer`, `WarmTimer` | the 600 s of `mlacp_local_lif_state_mac_handler`, the 90 s of `mlacp_exchange_handler` |
| `Leave`, `Exit`, `Restart` | the disconnect handler with `mlacp_peer_disconn_fdb_handler` and the queue's reinitialisation; the end of the process, announced as a warm reboot or not; its new start |
| `Learn`, `Age`, `AgeChip`, `Unlearn` | the hardware (external) |

Abstractions and assumptions. The stages are those of `MlacpSync` without the
request. A port that loses carrier is flushed by the hardware. `DownTimer` fires
only when nothing else is under way (600 s are longer than any exchange) and
`WarmTimer` only in EXCHANGE. The address keeps its `fdb_type` within a behaviour;
`po` stays a member of the domain; messages are not split at
`MAX_MAC_ENTRY_NUM`. A freed entry that stays in the tree is not read further: the
model marks the switch (`freed`), since what the code reads then is undefined, and
the properties of settled states leave such a switch out.

### `NeighSync`

One neighbour, by ARP or by ND, on a VLAN or on an L3 port-channel. `sw[p]` has the
stage, the entry of `arp_list` or `ndisc_list` with its `op_type`, the kernel's
entry, the kernel's notifications, the queue to the peer and the port-channel's
state here and there; `shown` is history for the properties.

| Action | Code |
|---|---|
| `Notified` | `do_arp_learn_from_kernel`, `do_ndisc_learn_from_kernel` |
| `Reply` | `do_arp_update_from_reply_packet`, `do_ndisc_update_from_reply_packet` |
| `Receive` | `mlacp_fsm_update_arp_entry`, `mlacp_fsm_update_ndisc_entry`, the peer's port-channel state with `update_stp_peer_link`, the stages with `mlacp_resync_arp` and `mlacp_resync_ndisc` |
| `SendInfo`, `Flush` | the queues, `mlacp_sync_send_syncArpInfo`, `mlacp_sync_send_syncNdiscInfo` |
| `PoLink` | `update_l2_po_state`, `update_l3_po_state`, with `arp_set_handler`, `ndisc_set_handler` and `syn_arp_info_to_peer` |
| `Leave` | the disconnect handler and `mlacp_init` |
| `Learn`, `Refresh` | the kernel (external) |

Abstractions and assumptions. The kernel notifies changes only, those iccpd asked
for included; `Refresh` stands for a change of the neighbour's NUD state. A reply
does not create a kernel entry (`arp_accept` is 0). A carrier loss may or may not
flush the kernel's entry. Entries for the switch's own addresses, unique-IP
configuration and the acknowledgement flag are not modelled.

### `CtrMgr`

One feature of the container manager. Container 1 is the local image, the others
are what Kubernetes may deploy, with their versions. Variables: `cfg`
(CONFIG_DB), `st` (STATE_DB FEATURE), `label` (STATE_DB KUBE_LABELS), `unit` (the
systemd unit and where its command is), `ctr` (the containers and where
`container_startup.py` is in each), `mgr` (the caches of ctrmgrd and what it has to
pop), `api` (the node's label at the API server).

| Action | Code (`src/sonic-ctrmgrd/ctrmgr`) |
|---|---|
| `Start`, `Started` | `container_start` before and after docker (ExecStartPre) |
| `Wait`, `Poll`, `GiveUp` | `container_wait`: its beginning, a turn of its loop, its timeout (ExecStart) |
| `Stop`, `MarkDown` | `container_stop` before and after docker (ExecStop) |
| `Kill` | `container_kill` |
| `LocalUp`; `Arrive`, `Turn` | `container_up` of the local image; of a remote one, before and in its loop |
| `OnConfig`, `OnState` | `on_config_update`, `on_state_update` with `handle_update`, which waits in `systemctl restart` |
| `AutoRestart`, `SyncLabel`, `Deploy`, `Undeploy`, `Crash` | systemd, the API server, kubelet, docker (external) |
| `ChangeOwner`, `StopUnit`, `StartUnit`, `RestartMgr` | the operator, and a new ctrmgrd |

A step is what one process does between two calls that may block, except that
ctrmgrd's `systemctl is-active` and the beginning of the `systemctl restart` that
follows it at once are one step. Versions are
compared as `instance_higher` compares them; STATE_DB's version is never emptied
by `container_stop`, so a pod of the version that last ran freezes. The fallback
is on when `no_fallback_to_local` is unset, the only way to have it:
`read_config` takes `not` of a string. `unit` never fails for StartLimitBurst, and
docker's start, stop and kill succeed. The labels that name versions only block the
local one (`blocked`); kubelet's own use of them is not modelled.

### The proof modules

| Module | Extends | Proves |
|---|---|---|
| `IccpSessionProofs` | `IccpSession` | types, sockets and redundancy groups; what the two ends agree on; that `IccpSession` implements `Session` |
| `SequenceLemmas` | library modules | induction over numbers, for recursive functions and permutations |
| `MlacpSyncProofs` | `MlacpSync`, `SequenceLemmas` | types, stages and purges of `MlacpSync` |
| `MlacpAgreementProofs` | `MlacpSyncProofs` | what the switches know of each other's interfaces |
| `MacSyncProofs` | `MacSync`, `SequenceLemmas` | types, age flags and the chip's entry for the port-channel of `MacSync` |
| `MacAgreementProofs` | `MacSyncProofs` | that every entry is installed; what the two tables agree on |
| `NeighSyncProofs` | `NeighSync`, `SequenceLemmas` | types, the kernel's entry and the peer's knowledge of `NeighSync` |
| `CtrMgrProofs` | `CtrMgr` | types of `CtrMgr`; that nobody waits for what cannot come |

### The MC modules

The instances for TLC: redundancy-group ids, container versions, symmetry of
connection identities and of hardware addresses, which are interchangeable (not
used with liveness).

## Runs

| Run | Bounds | Shows |
|---|---|---|
| `session` | 3 connections, 2 faults, piecemeal configuration | type correctness; a CSM with a state has a socket (`NoOrphanState`); nothing of an old connection is believed (`NoStaleCapability`); both ends become operational together (`OperationalTogether`) and on the same connection (`SameConnection`); the inductive invariants `SessionInv` and `AgreementInv`; the refinement (`ImplementsSession`); once the faults stop, the session comes up and stays up (`SessionRecovers`) |
| `session_mismatch` | different RG ids, 2 connections, 3 faults, piecemeal configuration | `RgAgreement`, the inductive invariant where its group part matters |
| `session_roles` | 1 connection, no faults, piecemeal configuration | violation, see below |
| `sync_agreement` | 2 port-channels, 4 events: link, config, attach, leave | `InterfacesKnown`, `StatesKnown`, `IsolationRight`, `TrafficRestored` in every settled state, with the two updated in any order; `IsolatedInSession`; the inductive invariant `SyncInv` |
| `sync_operations` | 1 port-channel, 4 events of every kind | type correctness, `StagesInStep`, `PurgesCurrent`, `PurgedOnce`; the inductive invariant `StageInv` |
| `sync_converges` | 1 port-channel, 4 events | `Converges` |
| `mac_agreement` | 4 events: learning on either port, ageing, orphan-port and peer-link flaps, lost sessions; dynamic and static | settled tables agree (`PeerHasIt`); who sends over the peer-link sends to a switch that has the host at a port of its own, so no frame goes back and forth (`LinkRemote`); the inductive invariant `AgreeInv` |
| `mac_failures` | 4 events of every kind, with and without a peer-link | type correctness; an entry aged on both sides is gone (`NotBothAged`); while updates are exchanged the chip never points to a dead port-channel (`PortUp`); an entry is in the chip, or learnt, where it points (`Installed`); the inductive invariant `MacInv` |
| `mac_warm` | 2 events | violation, see below |
| `neigh_kernel` | 2 hardware addresses, 3 events of every kind, ARP and ND, VLAN and L3 | type correctness; iccpd's list follows the kernel (`KernelFollowed`); what counts as synchronised is known to the peer (`PeerKnows`); the inductive invariant `NeighInv` |
| `neigh_settles` | 1 hardware address, 3 events | `Settles`: the echoes die out |
| `ctr_served` | 1 pod, 3 events of every kind, with and without fallback | type correctness; the inductive invariant `CtrInv`: `docker wait` names a container that is there, and `systemctl restart` is waited for only while the unit is about to start; `Served`: a feature that is not stopped always runs a container again |

Bounds. Three connections let the client's current connection, one the server
still holds and one in the listen queue exist at once; more only lengthen the
queue. Two faults allow a crash, a premature timeout or a removal while the switches
recover from another; `IccpSession_faults.cfg` checks the safety properties with three. A socket buffer of two messages is enough for every message of the
handshake that can be under way; a switch that refuses the peer's group sends a NAK in
every turn, so some bound is needed. It is not the kernel's: the real buffers, of
megabytes, do not fill with these messages. For
`MlacpSync`, attaching on both switches takes two events; two or three more put a
change, a loss of the session and another change at every point of the stages.
Port-channels share nothing but the order of messages and the stage, so two show
what any number does. For `MacSync`, four events are an address learnt on both
switches, a failure and an age-out or a second move; ageing of what iccpd has
displaced, the timers and the reconnect cost none. For `NeighSync`, three are a
neighbour learnt on both sides, or learnt and changed, and a loss of the session or of
the port. For `CtrMgr`, three are an owner change, a crash and a stop in any
order, while all that kubelet and systemd do is free; `CtrMgr_two.cfg` checks the
same with two pods of different versions and one event.

Deadlock is checked in all runs but `ctr_served`: neither switch may stop, but the
container manager rests when a container runs and nobody changes anything.

Fairness. `epoll_wait` returns after a fixed time, so the loop of iccpd keeps
turning: weak fairness of `Transit`, `Read`, `ReadError`, `Accept`, `Reject` and
`Turn`, and of `SendInfo`, `Receive`, `Flush`, `Prepare`, `Syncd` and `Notified`,
which are the parts of a turn in `MacSync` and `NeighSync`. `connect` is retried every
`CONNECT_INTERVAL_SEC`; a *due* heartbeat timeout is found by a later turn;
supervisord restarts the process and mclagsyncd replays its configuration. No
fault is fair, and no premature timeout is. Above the session, `Join` is fair,
which is what `SessionRecovers` shows of `IccpSession`, and so is the `Leave` of an
end whose peer has gone; the timers of `MacSync` expire, and the hardware ages what
a chip entry has displaced.

In `CtrMgr` the commands of the unit go on, systemd restarts what has exited
(Restart=always), the timeout of `container_wait` expires, and started containers
run their script. `OnConfig`, `OnState` and `SyncLabel` are strongly fair: the
daemon pops one update of *every* table in each round of its loop, and its
`systemctl restart`, during which it pops nothing, returns. kubelet removes what
has lost its label; that it ever deploys is not assumed, nor that an operator
starts what was stopped.

Every property has a mutant: a definition changed the way a slip in that code
would change it (a flag that is not reset, a comparison swapped, the change flag
cleared in every turn as a line of `scheduler.c`, now commented out, once did),
under which TLC finds the property violated.

## Findings

* `session_roles`: the switch with the lower address is meant to be the active one
  ("lower ip to be active & socket client", `iccp_csm.c:849`). The role is decided from
  an address that is not set yet when the two come in different messages
  (`scheduler.c:806`), and not again before the session is reset, so a session is
  established between two standby switches (or two active ones, when the server
  gets its own address first).
* `mac_warm`: a peer that announces a warm reboot and does not come back is never
  treated as disconnected. `warm_reboot_disconn_time`, set by
  `mlacp_peer_disconn_handler`, is cleared by `iccp_csm_status_reset` in the same
  disconnect handler, and `mlacp_fsm_transit` returns before it looks at it.

Further configurations, not among the runs, show counterexamples to what comments
of the code say or a reader would expect; `tlc -config <cfg> <module>` prints them:

| Configuration | Property | What happens |
|---|---|---|
| `MlacpSync_error.cfg` | `NeverError` | attach and detach within one turn: the peer answers the purge of an unknown interface with a sync request, and serving one in EXCHANGE increments the state to ERROR |
| `MlacpSync_released.cfg` | `TrafficReleased` | a port-channel detached while its traffic is blocked stays blocked, as it has no CSM any more |
| `MlacpSync_ghost.cfg` | `InterfacesKnown` | the active switch detaches an interface in STAGE2, the standby keeps it |
| `MlacpSync_reattach.cfg` | `StatesKnown` | a port-channel that is down and attached again counts as up at the peer |
| `MacSync_freed.cfg` | `NoFreed` | `MLACP_MAC_MSG_QUEUE_REINIT` frees a queued deletion whose entry is still in `mac_rb` |
| `MacSync_dead.cfg` | `PortUpAlone` | a learn that updates an entry leaves `pending_local_del` set; with `po` down on both switches, a later addition by the peer marks that entry as aged here, although it points to the dead port-channel, and the loss of the session makes it a local entry and installs it there |
| `CtrMgr_owner.cfg` | `LocalServed` | the owner is set to local while ExecStartPre runs with the old one; ctrmgrd finds the unit inactive and does "nothing todo", and the remote container stays |
| `CtrMgr_pending.cfg` | `PendingServed` | a container asks to be let in while ExecStartPre runs; ctrmgrd finds the unit inactive and does nothing, `remote_state` stays pending, so no later request is a change: the local image runs on and the container waits for ever |
| `CtrMgr_alone.cfg` | `LocalAlone` | the unit is stopped when `remote_state` is already `ready`; the remote container comes up, and the next start runs the local image beside it |

`InterfacesKnown`, `StatesKnown` and `IsolationRight` hold while interfaces are
attached, configured, lose and gain carrier and sessions are lost; two of these
configurations say that they do not once interfaces are detached.
`TrafficRestored` and `IsolatedInSession` likewise are checked without `Detach`.
`PeerHasIt` and its companions are checked without port-channel failures: a pending
entry that is cleared when its port-channel comes up again is not reported to the
peer ("TBD do we need to send delete notification to peer", `mlacp_link_handler.c:1928`).
`KernelFollowed` leaves out an L3 port-channel that has been down, for which
`ndisc_set_handler` asks the kernel to add what it means to delete, and ND entries
that changed, which `do_ndisc_learn_from_kernel` compares with themselves. `Settles`
is about a neighbour that keeps one address and is not deleted: with two, each
switch can set what the other told and tell what it had, for ever.

## Proofs

The theorems hold for every set of connections and of port-channels, all bounds
on faults and events, all RG ids and all sets of operations, unless they say
otherwise. The assumptions are the named ones of the modules: two different
switches, a `NoConn` that is no connection, RG ids and bounds that
are numbers, hardware addresses that are none of the two marks of the history.
Every inductive invariant is first checked by a run.

### The session (`IccpSessionProofs`)

| Theorem | States | From |
|---|---|---|
| `TypeCorrect` | `Spec => []TypeOK` | itself |
| `SessionInvariant`, `NeverOrphaned`, `GroupsAgree` | `SessionInv`, `NoOrphanState`, `RgAgreement` | `SessionInv` |
| `AgreementInvariant`, `OneConnection`, `CapabilityCurrent`, `BothOperational` | `AgreementInv`, `SameConnection`, `NoStaleCapability`, `OperationalTogether` | `SessionInv /\ AgreementInv` |
| `SessionRefined` | `ImplementsSession` | `SessionInv /\ AgreementInv` |

`NoOrphanState` speaks of the state of a CSM and its socket; that closing one
connection leaves the socket of the *other* switch alone, and that accepting takes
one nobody uses, needs the ends of the connections (`SocketsOpen`), that a state
needs a socket (`StateNeedsSocket`) and that the listen queue holds different
connections that are not accepted (`ListenQueue`): accepting a connection twice
would give an end that can be closed under its owner. `RgAgreement` depends on what
is under way: every message that names a group names the sender's
(`MessagesFromPeer`), so once an RG-connect has come the status code tells whether
the groups differ, and an operational CSM has seen one and has no error
(`GroupKnown`). `SessionInv` is the conjunction.

`AgreementInv` relates the two ends. The client opens a connection only after it
has left the last one, so the one it uses is the newest in the listen queue or has
been accepted (`LatestQueued`), and a server that has spoken to the client on it
is not on an older one (`HeardHolds`): this is `SameConnection`, which neither end
can see for itself. `FlagsOfState` ties the four flags to the state,
`HeardWasSaid` and `ConnectSaid` say that whatever has been heard, or is in a
buffer, was said by the other end on this connection, which excludes flags of an
earlier session. `ConnectTold` counts an RG-connect wherever it is (flag, queue,
wire): it has come or will come to one end exactly when the other is connecting or
operational; hence `OperationalTogether`. The step has one case per action; the
lemmas on `Disconnect`, `Transited`, `EndsAfter` and `ChAfter` are shared.

`SessionRefined` is `Spec => ImplementsSession`, the abstract specification
`Session` under the mapping `Joined`. The initial states map to the initial one. While
neither switch is in the session any step maps to a `Join` or to a stutter. While one
is, no other can join (`OnlyLeaving`). Only its own transit makes a switch
operational (`StateSteps`), and then it is on its peer's connection already, by
`SameConnection`. Nor can it come onto a connection on which its peer is operational
(`NoneComesBack`): the client opens only connections that nobody uses, and the server
accepts only one on which it has not spoken yet, while an operational client has heard
it. So the step maps to a `Leave` or to a stutter. This is what justifies `Join` and
`Leave` as the environment of the three models above the session.

### Lemmas about sequences (`SequenceLemmas`)

The library's induction theorems have an operator as a parameter and cannot be
used here. `LeastElement` takes the least number of a *set* from
`WellFoundedInduction`; `SetInduction` follows. With them, what a recursive function on
`0..N` computes can be proved by describing the numbers for which it holds as a
set: that the function is defined and well typed and what it preserves step by step.
The other lemmas say what `SetToSeqs`, `RemoveFirst` and `FlattenSeq` of the community
modules return. The models write the handling of a list of messages or interfaces
with these.

### Synchronisation of interfaces (`MlacpSyncProofs`, `MlacpAgreementProofs`)

| Theorem | States | From |
|---|---|---|
| `MlacpTypeCorrect` | `TypeOK` | itself |
| `StageInvariant`, `StagesTogether` | `StageInv`, `StagesInStep` | `StageInv` |
| `PurgeListCurrent`, `PurgeListOnce` | `PurgesCurrent`, `PurgedOnce` | `StageInv` and the form of a purge list |
| `SyncInvariant`, `PeerInterfacesKnown`, `PeerStatesKnown`, `IsolationAgrees`, `TrafficComesBack`, `IsolationEnds` | `SyncInv`, `InterfacesKnown`, `StatesKnown`, `IsolationRight`, `TrafficRestored`, `IsolatedInSession` | `StageInv /\ SyncInv`, with `OnlyJoins` |

`StageInv` lists the six phases in which two switches of a session can be, each
with the messages under way in it; that a request is served once and only by a
switch that is in the stage for it is then a fact about each phase. It holds for
all operations, those that lead to `MLACP_STATE_ERROR` included.

`SyncInv` is what makes the settled states right. For each interface the knowledge
of the peer, the messages under way and what the switch will still send must add up
to the truth: `KnowledgeInv` says that the last word in the channel is the present
state, or else a change flag is set; `ReleaseInv` that a blocked interface that is up
is still to be announced, or its announcement or the acknowledgement is under way;
`InterfaceInv` that isolation follows from what is known of the peer from EXCHANGE on;
`NoLateRequest` that nobody asks when the stages are over. A turn reads several
messages and sends the changes of all interfaces in any order, so the lemmas follow
one interface through the recursive functions of `Turn`.

`OnlyJoins` (no detach and no destroy among the operations) is a hypothesis of the
last group and not of the others. It is not a convenience: `MlacpSync_ghost.cfg` and
`MlacpSync_reattach.cfg` show that the code does not keep `InterfacesKnown` and
`StatesKnown` when interfaces leave the domain. `sync_agreement` checks exactly
these operations.

### MAC addresses (`MacSyncProofs`, `MacAgreementProofs`)

| Theorem | States | From |
|---|---|---|
| `MacTypeCorrect`, `AgesInvariant` | `TypeOK`, `AgesInv` | `TypeOK /\ AgesInv` |
| `NeverBothAged`, `PortsUp` | `NotBothAged`, `PortUp` | `AgesInv` |
| `MacInvariant`, `AlwaysInstalled` | `MacInv`, `Installed` | `TypeOK /\ MacInv`, where `MacInv` is `AgesInv /\ ChipInv` |
| `AgreeInvariant`, `PeerHasAddress`, `NoLoop` | `AgreeInv`, `PeerHasIt`, `LinkRemote` | `TypeOK /\ MacInv /\ AgreeInv`, with `NoFlaps` |

`AgesInv` says of a switch that its entry has the type of the address and is where
it was learnt or on the peer-link, that a dynamic entry does not have both age flags
(`AgesApart`), and that a chip entry for the port-channel belongs to an entry that
points there and is marked as installed or as the peer's (`ChipRight`): without the
last part an ageing event or an update that changes the entry could leave the chip
behind. It also needs the stages: an update of the peer is handled in EXCHANGE only
(`StageOf`, `StagesAgree`), that is after `mlacp_peer_conn_handler` has looked at every
port-channel. Types and invariant are proved together, since the type of a queued
update depends on the type of its entry. Within an action the invariant is broken
and mended (a port goes down, and the handler then redirects what points to it);
`LooseInv` and `AloneInv` are what holds at those places.

The proof is what restricted `PortUp` to `EXCHANGE`. Outside a session the
invariant is not inductive for a reason that is in the code, and TLC found the
behaviour when it was asked for it: `MacSync_dead.cfg`, in the table above.

`Installed` says that an entry of a switch in EXCHANGE that has read its
notifications is where the chip, or the hardware's own learning, has the address.
Until they are read it may not be: the hardware learns and ages on its own, and iccpd
moves an entry when it is told. `ChipInv` therefore follows the notifications. An
entry that points to a port where the chip does not have it has been learnt there, or
some unread notification is an addition or a deletion of that port (`PortInstalled`,
`Mends`), and the same holds of every addition that is still unread, with what comes
after it (`NotesFollow`). Every handler that takes an entry out of the chip or moves
it elsewhere has to be matched with what the hardware will say of it. An entry at the
peer-link is in the chip while the peer-link is up, from EXCHANGE on for one of the
port-channel and always for one of the orphan port (`LinkInstalled`); an entry at the
orphan port is marked as not the peer's (`EthLearnt`), so that no update of the peer
changes where it is.

`Installed` says "in the chip or learnt" for a reason. That an entry which is aged here
and not at the peer is in the *chip*, as one would expect of what only the peer knows,
is false, six events deep, for the reason behind `MacSync_dead.cfg`: an entry that
becomes pending on the port-channel, moves to the orphan port and back keeps
`pending_local_del`, so an addition by the peer is taken for the confirmation that a
comment in `mlacp_fsm_update_mac_entry_from_peer` speaks of ("AS MAC was learned
locally and in pending state due to IF is down", `mlacp_sync_update.c:272`) and marks
as aged an address that the hardware has just learnt here.

`AgreeInv` is about both switches. The last that a switch has heard of the address, or
is going to hear from the channel, is what the peer knows, unless the peer still has
something queued (`HearsTrue`); what is queued is true (`QueueTrue`), and a message has
at most one addition, its last item (`AddLast`), so that "the last" can be read off the
last MAC message. `SetLocalAge` and the queue's coalescing keep this because a change
of the local flag is queued whenever it changes what the peer has been told. For
`LinkRemote` the place matters as well: an entry that has not aged here and points to
the peer-link would send frames back. That can only be an address of an orphan port
that both switches learnt (`WellPlaced`), and then the hardware drops what the chip's
entry displaces and will say so (`DropTold`): it is not a quiet state. The lemmas say
what each operator keeps of one switch (`Local`, `Stable`, `Tells`); `AgreeStep` and
`LocalStep` put the two switches together, and the actions are instances.

`NoFlaps` (a peer-link is configured, no port-channel changes state, no warm reboot) is
a hypothesis of the last group and not of the others; `mac_agreement` checks
exactly these operations. Without it the code does not keep `PeerHasIt`: a pending
entry is removed and the peer not told (`mlacp_link_handler.c:1928`), and after a
warm reboot the peer keeps what the switch has forgotten.

### Neighbours (`NeighSyncProofs`)

| Theorem | States | From |
|---|---|---|
| `NeighTypeCorrect`, `NeighInvariant` | `TypeOK`, `NeighInv` | `TypeOK /\ NeighInv` |
| `KernelIsFollowed` | `KernelFollowed` | `NeighInv` |
| `PeerIsTold` | `PeerKnows` | `TypeOK /\ NeighInv` |

Three arguments make up `NeighInv`. The list may differ from the kernel's table as
long as a notification is unread, and the *last* one tells what the kernel has
(`LastNote`); reading it makes the two agree (`ListFollows`), since everything else
that changes the list also asks the kernel, or comes with the address the kernel has.

That fails where iccpd may not set the kernel: an L3 port-channel that is down. One
that has never been up needs an argument of its own (`NeverUp`). Its kernel knows
nobody; the one message that would make the switch put a listed entry into the
kernel is the peer's "my port-channel is down", and the peer has nothing to tell
before its own port-channel is up. So such a message comes before any entry, which
is a fact about the order of the messages under way.

`PeerKnows` is about a neighbour that keeps one address and is never deleted
(`Steady`). Then every notification, queued item and message is an addition of that
address, a switch that tells of the neighbour lists it (`ToldIsKnown`), and an
entry marked as synchronised is known to the peer, queued, or on the wire
(`UnderWay`). A lost session empties queue and wire, and `UnderWay` is about two
switches of a session: it is restored by `mlacp_resync_arp` when the next one begins.
A message that clears the receiver's queue (`mlacp_fsm_update_arp_entry`) does no
harm because its sender has the entry.

The lemmas on the operators say what they keep of one switch (`Keeps`), those on
turns what is sent (`Tells`), and `StepInv` puts the two switches together; the
actions are instances. `FromPeers`, a recursive function over the entries of a
message, is handled with `RecursionExists` and `SetInduction`.

### The container manager (`CtrMgrProofs`)

| Theorem | States | From |
|---|---|---|
| `CtrTypeCorrect`, `CtrInvariant` | `TypeOK`, `CtrInv` | `TypeOK /\ CtrInv` |

`CtrInv` is the safety that `Served` rests on. A unit whose command is in `docker wait`
names a container that is there (`WaitsForOne`): every action that ends or removes a
container also ends the wait for it. ctrmgrd, which pops no update while `systemctl
restart` runs, is in it only while the unit is on its way to a start, at the end of
which the restart returns (`RestartReturns`): no crash, kill or restart meanwhile takes
the unit off that way. And the id in STATE_DB, by which
`container_stop` and `container_kill` find what they stop, is a container of the owner
that STATE_DB names (`IdOfOwner`), although the two fields are written by programs that
do not lock them.

### Only model-checked

Every invariant and every action property of a passing run, and the refinement, is
stated by a theorem. With TLC stay:

* the liveness properties `SessionRecovers`, `Converges`, `Settles` and `Served`
  (and `WarmRebootEnds` of `mac_warm`, which is violated), as liveness under fairness is out of
  the prover's reach;
* what `session_roles` and the configurations of the table above show false, which is a matter of a
  counterexample.

No module with theorems, and none below it, declares a RECURSIVE operator.

## Not modelled

* In `iccpd`: VLAN membership and IP address trees, the standby's switching of MAC
  addresses, unique IP, peer-link learning, session timer settings, the layout of
  TLVs, `mclagdctl` and the show commands, logging, the vendored red-black tree.
  The far end of the mclagsyncd channel is in a submodule that is empty here.
* In `sonic-ctrmgrd`: joining the master, and the retries that carry labels to it
  (`RemoteServerHandler`, `LabelsPendingHandler`, `kube_commands.py`), which are the
  one step `SyncLabel`.
* The other daemons of `src/`: the BGP and FRR configuration daemons, DHCP
  monitor, system health, YANG and configuration tools and the systemd generator
  translate data or poll; `PROJECT.json` gives the reason for each.
* Vendor code. Of the half million implementation lines of the repository nearly
  all are kernel modules and platform drivers of switch vendors (packet DMA of
  switch chips, transceiver and CPLD access through I2C and sysfs, the same driver
  again for each model of a switch), build rules and device data. Their behaviour is
  that of hardware whose side is not in the repository, so a model of them could
  not be held against anything; this is why the map covers a small share of the
  repository, although it covers most of the protocol code of `iccpd`.

## Plan

1. Done: `IccpSession`, `Session`, `MlacpSync`, `MacSync` with warm reboot,
   `NeighSync`, `CtrMgr`; the proofs of every safety invariant that a passing run
   checks, and of the refinement of `Session`.
2. Models: the standby's MAC addresses and peer-link learning
   (`mlacp_link_handler.c`), the label and server part of ctrmgrd.
3. Proofs: `MlacpSync` and `MacSync` as implementations of an abstract table that the
   two switches share, under `OnlyJoins` and `NoFlaps`.
