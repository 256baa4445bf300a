------------------------------- MODULE CtrMgr -------------------------------
(***************************************************************************)
(* The container manager (sonic-ctrmgrd): one feature whose container is   *)
(* either the local image or one that Kubernetes deploys, and what the     *)
(* programs that share its database entries do to it:                      *)
(*                                                                         *)
(*   - the feature's systemd unit, whose ExecStartPre, ExecStart and       *)
(*     ExecStop are "container start", "wait" and "stop";                  *)
(*   - container_startup.py, which every container runs before its         *)
(*     application;                                                        *)
(*   - FeatureTransitionHandler of ctrmgrd, which restarts the unit when   *)
(*     the owner changes or a remote container is pending;                 *)
(*   - kubelet, docker and systemd, which are external.                    *)
(*                                                                         *)
(* A step is what one of them does between two calls that may block        *)
(* (time.sleep, docker, systemctl).                                        *)
(***************************************************************************)
EXTENDS Naturals

CONSTANTS Version,     \* Version[c]: the version of container c; 1 is local
          Fallbacks,   \* whether no_fallback_to_local is unset: the choices
          Ops,         \* operations the environment performs in a run
          MaxEvents    \* bound: how many of them

Ctr == DOMAIN Version
Local == 1
Pod == Ctr \ {Local}
NoId == 0

ASSUME VersionAssumption ==
    /\ Ctr \subseteq Nat \ {NoId} /\ Local \in Ctr
    /\ Version \in [Ctr -> Nat \ {0}]
ASSUME OpsAssumption ==
    /\ Fallbacks \subseteq BOOLEAN
    /\ Ops \subseteq {"owner", "stop", "kill", "crash", "mgr"}
ASSUME BoundAssumption == MaxEvents \in Nat

VARIABLES cfg,    \* CONFIG_DB FEATURE: set_owner, and the fallback
          st,     \* STATE_DB FEATURE
          label,  \* STATE_DB KUBE_LABELS: <feature>_enabled
          unit,   \* the systemd unit and the "container" command it runs
          ctr,    \* the containers
          mgr,    \* ctrmgrd
          api,    \* the node's label at the API server
          events  \* events spent

vars == <<cfg, st, label, unit, ctr, mgr, api, events>>

Owner == {"local", "kube"}
Remote == {"none", "pending", "ready", "running", "stopped"}
Label == {"none", "true", "false"}

(* blocked: the label <feature>_<local version>_enabled is "false". *)
State == [owner : Owner \cup {"none"}, remote : Remote, id : Ctr \cup {NoId},
          version : {0} \cup {Version[c] : c \in Ctr}, up : BOOLEAN, blocked : BOOLEAN]

(* pc: "start", "docker" are ExecStartPre; "enter", "poll", "wait" ExecStart; *)
(* "stop", "mark" ExecStop; "auto" waits for RestartSec.  Local, kube: what   *)
(* is started; id: the container waited for; remote: what stop has read;      *)
(* next: what follows stop.                                                   *)
Active == {"enter", "poll", "wait"}
Unit == [pc : {"dead", "start", "docker", "stop", "mark", "auto"} \cup Active,
         local : BOOLEAN, kube : BOOLEAN, id : Ctr \cup {NoId}, remote : Remote,
         next : {"dead", "start", "auto"}]

(* container_up: "begin" before the checks, "wait" in the loop, "run" with   *)
(* the application started, "frozen" in do_freeze.                           *)
Container == {"off", "begin", "wait", "run", "frozen"}

(* owner, ct, remote: cfg_data and st_data, "unknown" before the first       *)
(* update; cfgnew, stnew: an update is to be popped; busy: in systemctl      *)
(* restart.                                                                  *)
Mgr == [owner : Owner \cup {"unknown"}, ct : Owner \cup {"none", "unknown"}, remote : Remote,
        cfgnew : BOOLEAN, stnew : BOOLEAN, busy : BOOLEAN]

TypeOK ==
    /\ cfg \in [owner : Owner, fallback : BOOLEAN]
    /\ st \in State
    /\ label \in Label /\ api \in Label
    /\ unit \in Unit
    /\ ctr \in [Ctr -> Container]
    /\ mgr \in Mgr
    /\ events \in 0..MaxEvents

(* A new ctrmgrd: every entry of the tables is delivered. *)
NewMgr ==
    [owner |-> "unknown", ct |-> "unknown", remote |-> "none", cfgnew |-> TRUE,
     stnew |-> TRUE, busy |-> FALSE]

(* After boot, with or without an entry of the feature in STATE_DB.          *)
(* container_id takes the feature's name, which is Local, for an id that has *)
(* never been written.                                                       *)
Init ==
    /\ cfg \in [owner : Owner, fallback : Fallbacks]
    /\ st = [owner |-> "none", remote |-> "none", id |-> Local, version |-> 0,
             up |-> FALSE, blocked |-> FALSE]
    /\ label = "none" /\ api = "none"
    /\ unit = [pc |-> "start", local |-> FALSE, kube |-> FALSE, id |-> NoId,
               remote |-> "none", next |-> "auto"]
    /\ ctr = [c \in Ctr |-> "off"]
    /\ \E entry \in BOOLEAN : mgr = [NewMgr EXCEPT !.stnew = entry]
    /\ events = 0

Running(c) == ctr[c] = "run"

-----------------------------------------------------------------------------
(* The "container" command (ctrmgr/container), run by the unit. *)

(* container_start, up to docker: what is to be started. *)
Start ==
    /\ unit.pc = "start"
    /\ LET kube == cfg.owner = "kube"
           local == ~kube \/ (cfg.fallback /\ st.remote = "none")
           s == [st EXCEPT !.up = TRUE, !.remote = IF kube THEN @ ELSE "none"]
       IN  /\ st' = IF local THEN [s EXCEPT !.owner = "local", !.id = Local] ELSE s
           /\ label' = IF kube THEN label ELSE "false"
           /\ mgr' = [mgr EXCEPT !.stnew = TRUE]
           /\ unit' = [unit EXCEPT !.pc = "docker", !.local = local, !.kube = kube]
    /\ UNCHANGED <<cfg, ctr, api, events>>

(* container_start, docker start and the label.  ExecStartPre is over: the   *)
(* unit is active, and a systemctl restart returns.                          *)
Started ==
    /\ unit.pc = "docker"
    /\ ctr' = IF unit.local /\ ctr[Local] = "off" THEN [ctr EXCEPT ![Local] = "begin"]
              ELSE ctr
    /\ label' = IF unit.kube THEN "true" ELSE label
    /\ unit' = [unit EXCEPT !.pc = "enter", !.local = FALSE, !.kube = FALSE]
    /\ mgr' = [mgr EXCEPT !.busy = FALSE]
    /\ UNCHANGED <<cfg, st, api, events>>

(* The process in the container id is there: the local one by its name, any *)
(* other once it has recorded its own.                                      *)
There(id) == IF id = Local THEN ctr[Local] # "off" ELSE Running(id)

Exit == [unit EXCEPT !.pc = "stop", !.id = NoId]

(* docker wait, which returns at once when there is no such container. *)
DockerWait(id) ==
    unit' = IF There(id) THEN [unit EXCEPT !.pc = "wait", !.id = id] ELSE Exit

ContainerId == IF st.owner = "local" THEN Local ELSE st.id

(* container_wait *)
Wait ==
    /\ unit.pc = "enter"
    /\ IF ContainerId = NoId THEN unit' = [unit EXCEPT !.pc = "poll"]
                             ELSE DockerWait(ContainerId)
    /\ UNCHANGED <<cfg, st, label, ctr, mgr, api, events>>

(* Its loop. *)
Poll ==
    /\ unit.pc = "poll" /\ (st.remote = "pending" \/ st.id # NoId)
    /\ IF st.remote = "pending"
       THEN /\ st' = [st EXCEPT !.remote = "ready"]
            /\ mgr' = [mgr EXCEPT !.stnew = TRUE]
       ELSE UNCHANGED <<st, mgr>>
    /\ IF st.id = NoId THEN UNCHANGED unit ELSE DockerWait(st.id)
    /\ UNCHANGED <<cfg, label, ctr, api, events>>

(* Mutant: remote_state is kept. *)
GiveUp_Keeps ==
    /\ unit.pc = "poll" /\ cfg.fallback
    /\ unit' = Exit
    /\ UNCHANGED <<cfg, st, label, ctr, mgr, api, events>>

(* Its end after revert_to_local_on_wait_seconds. *)
GiveUp ==
    /\ unit.pc = "poll" /\ cfg.fallback
    /\ st' = [st EXCEPT !.remote = "none"]
    /\ mgr' = [mgr EXCEPT !.stnew = TRUE]
    /\ unit' = Exit
    /\ UNCHANGED <<cfg, label, ctr, api, events>>

(* container_stop, up to the end of docker stop. *)
Stop ==
    /\ unit.pc = "stop"
    /\ label' = IF st.remote # "pending" \/ cfg.owner = "local" THEN "false" ELSE label
    /\ ctr' = IF ContainerId # NoId /\ There(ContainerId)
              THEN [ctr EXCEPT ![ContainerId] = "off"] ELSE ctr
    /\ unit' = [unit EXCEPT !.pc = "mark", !.remote = st.remote]
    /\ UNCHANGED <<cfg, st, mgr, api, events>>

(* Mutant: the remote state is marked down, too. *)
MarkDown_Remote ==
    /\ unit.pc = "mark"
    /\ st' = [st EXCEPT !.owner = "none", !.id = NoId, !.up = FALSE, !.remote = "down"]
    /\ mgr' = [mgr EXCEPT !.stnew = TRUE]
    /\ unit' = [unit EXCEPT !.pc = unit.next, !.next = "auto", !.remote = "none"]
    /\ UNCHANGED <<cfg, label, ctr, api, events>>

(* container_stop, the feature is marked down; remote_state is that of Stop. *)
MarkDown ==
    /\ unit.pc = "mark"
    /\ st' = [st EXCEPT !.owner = "none", !.id = NoId, !.up = FALSE,
                        !.remote = IF unit.remote = "running" THEN "stopped" ELSE @]
    /\ mgr' = [mgr EXCEPT !.stnew = TRUE]
    /\ unit' = [unit EXCEPT !.pc = unit.next, !.next = "auto", !.remote = "none"]
    /\ UNCHANGED <<cfg, label, ctr, api, events>>

(* systemd starts the unit again after RestartSec. *)
AutoRestart ==
    /\ unit.pc = "auto"
    /\ unit' = [unit EXCEPT !.pc = "start"]
    /\ UNCHANGED <<cfg, st, label, ctr, mgr, api, events>>

-----------------------------------------------------------------------------
(* container_startup.py, in the container c. *)

(* container_up of the local image, with update_state. *)
LocalUp ==
    /\ ctr[Local] = "begin"
    /\ st' = [st EXCEPT !.owner = "local", !.id = Local, !.version = Version[Local],
                        !.blocked = TRUE]
    /\ ctr' = [ctr EXCEPT ![Local] = "run"]
    /\ mgr' = [mgr EXCEPT !.stnew = TRUE]
    /\ UNCHANGED <<cfg, label, unit, api, events>>

(* check_version_blocked *)
Blocked(c) == st.blocked /\ Version[c] = Version[Local]

(* Mutant: the id of the container is not written. *)
Admitted_NoId(c, s) == [s EXCEPT !.owner = "kube", !.version = Version[c], !.remote = "running"]

(* update_state of a remote container. *)
Admitted(c, s) == [s EXCEPT !.owner = "kube", !.id = c, !.version = Version[c],
                            !.remote = "running"]

(* container_up of a remote one, up to its loop.  It writes its version and, *)
(* unless one is pending or ready, asks to be let in; one that reads "ready" *)
(* does not wait.                                                            *)
Arrive(c) ==
    /\ ctr[c] = "begin"
    /\ LET allowed == /\ cfg.owner = "kube" /\ st.up
                      /\ ~Blocked(c) /\ Version[c] > st.version
           ask == st.remote \in {"none", "running", "stopped"}
           s == [st EXCEPT !.version = Version[c], !.remote = IF ask THEN "pending" ELSE @]
           ready == st.remote = "ready"
       IN  IF allowed
           THEN /\ st' = IF ready THEN Admitted(c, s) ELSE s
                /\ ctr' = [ctr EXCEPT ![c] = IF ready THEN "run" ELSE "wait"]
                /\ mgr' = [mgr EXCEPT !.stnew = TRUE]
           ELSE ctr' = [ctr EXCEPT ![c] = "frozen"] /\ UNCHANGED <<st, mgr>>
    /\ UNCHANGED <<cfg, label, unit, api, events>>

(* A turn of its loop that ends it. *)
Turn(c) ==
    /\ ctr[c] = "wait"
    /\ \/ /\ st.version # Version[c]
          /\ ctr' = [ctr EXCEPT ![c] = "frozen"] /\ UNCHANGED <<st, mgr>>
       \/ /\ st.version = Version[c] /\ st.remote = "ready"
          /\ st' = Admitted(c, st)
          /\ ctr' = [ctr EXCEPT ![c] = "run"]
          /\ mgr' = [mgr EXCEPT !.stnew = TRUE]
    /\ UNCHANGED <<cfg, label, unit, api, events>>

-----------------------------------------------------------------------------
(* ctrmgrd *)

(* FeatureTransitionHandler.handle_update, with m the caches.  While the     *)
(* unit is restarted ctrmgrd waits for it.                                   *)
HandleUpdate(m) ==
    LET active == unit.pc \in Active
        restart == IF m.owner = "local" THEN m.ct # "local"
                   ELSE m.ct # "none" /\ m.remote = "pending"
    IN  IF active
        THEN /\ label' = IF m.owner = "kube" THEN "true" ELSE "false"
             /\ mgr' = [m EXCEPT !.busy = restart]
             /\ unit' = IF restart THEN [Exit EXCEPT !.next = "start"] ELSE unit
        ELSE mgr' = m /\ UNCHANGED <<label, unit>>

(* FeatureTransitionHandler.on_config_update *)
OnConfig ==
    /\ ~mgr.busy /\ mgr.cfgnew
    /\ LET m == [mgr EXCEPT !.cfgnew = FALSE, !.owner = cfg.owner]
       IN  IF mgr.owner # cfg.owner /\ mgr.ct # "unknown" THEN HandleUpdate(m)
           ELSE mgr' = m /\ UNCHANGED <<label, unit>>
    /\ UNCHANGED <<cfg, st, ctr, api, events>>

(* FeatureTransitionHandler.on_state_update *)
OnState ==
    /\ ~mgr.busy /\ mgr.stnew
    /\ LET m == [mgr EXCEPT !.stnew = FALSE, !.ct = st.owner, !.remote = st.remote]
           act == mgr.ct = "unknown" \/ (mgr.remote # st.remote /\ st.remote = "pending")
       IN  IF act /\ mgr.owner # "unknown" THEN HandleUpdate(m)
           ELSE mgr' = m /\ UNCHANGED <<label, unit>>
    /\ UNCHANGED <<cfg, st, ctr, api, events>>

-----------------------------------------------------------------------------
(* The environment. *)

Spend == events < MaxEvents /\ events' = events + 1

(* The label reaches the API server: LabelsPendingHandler, with its retries. *)
SyncLabel ==
    /\ api # label
    /\ api' = label
    /\ UNCHANGED <<cfg, st, label, unit, ctr, mgr, events>>

(* The process in container c ends; docker wait returns. *)
Ends(c) ==
    /\ ctr' = [ctr EXCEPT ![c] = "off"]
    /\ unit' = IF unit.pc = "wait" /\ unit.id = c /\ There(c) THEN Exit ELSE unit

(* kubelet runs the container of a pod while the node has the label. *)
Deploy(c) ==
    /\ api = "true" /\ ctr[c] = "off"
    /\ ctr' = [ctr EXCEPT ![c] = "begin"]
    /\ UNCHANGED <<cfg, st, label, unit, mgr, api, events>>

(* It removes the pod when the node has it no longer. *)
Undeploy(c) ==
    /\ api # "true" /\ ctr[c] # "off"
    /\ Ends(c)
    /\ UNCHANGED <<cfg, st, label, mgr, api, events>>

(* container_kill, for a feature that is enabled. *)
Kill ==
    /\ "kill" \in Ops /\ Spend
    /\ label' = IF cfg.owner # "local" \/ st.owner # "local" THEN "false" ELSE label
    /\ IF ContainerId # NoId /\ There(ContainerId) THEN Ends(ContainerId)
       ELSE UNCHANGED <<ctr, unit>>
    /\ UNCHANGED <<cfg, st, mgr, api>>

Crash(c) ==
    /\ "crash" \in Ops /\ Spend
    /\ ctr[c] # "off"
    /\ Ends(c)
    /\ UNCHANGED <<cfg, st, label, mgr, api>>

ChangeOwner ==
    /\ "owner" \in Ops /\ Spend
    /\ \E o \in Owner \ {cfg.owner} : cfg' = [cfg EXCEPT !.owner = o]
    /\ mgr' = [mgr EXCEPT !.cfgnew = TRUE]
    /\ UNCHANGED <<st, label, unit, ctr, api>>

(* systemctl stop and start. *)
StopUnit ==
    /\ "stop" \in Ops /\ Spend
    /\ unit.pc \in Active
    /\ unit' = [Exit EXCEPT !.next = "dead"]
    /\ UNCHANGED <<cfg, st, label, ctr, mgr, api>>

StartUnit ==
    /\ unit.pc = "dead"
    /\ unit' = [unit EXCEPT !.pc = "start"]
    /\ UNCHANGED <<cfg, st, label, ctr, mgr, api, events>>

(* ctrmgrd ends and is started again. *)
RestartMgr ==
    /\ "mgr" \in Ops /\ Spend
    /\ mgr' = NewMgr
    /\ UNCHANGED <<cfg, st, label, unit, ctr, api>>

UnitStep == Start \/ Started \/ Wait \/ Poll \/ Stop \/ MarkDown \/ AutoRestart
MgrStep == OnConfig \/ OnState
PodStep(c) == Arrive(c) \/ Turn(c)

Next ==
    \/ UnitStep \/ GiveUp
    \/ MgrStep
    \/ LocalUp \/ SyncLabel
    \/ \E c \in Pod : PodStep(c) \/ Deploy(c) \/ Undeploy(c)
    \/ \E c \in Ctr : Crash(c)
    \/ ChangeOwner \/ StopUnit \/ StartUnit \/ Kill \/ RestartMgr

Spec == Init /\ [][Next]_vars

(* Fairness: the commands of the unit go on, and systemd starts it again     *)
(* after it exits; a wait that can end by its timeout or by a container ends *)
(* by one of them; ctrmgrd pops every table in turn, and its restarts of the *)
(* unit return; the container that docker or kubelet started runs its        *)
(* script.  What an operator or kubelet may do is not fair, but that kubelet *)
(* removes what has lost its label.                                          *)
Fairness ==
    /\ WF_vars(UnitStep) /\ WF_vars(GiveUp) /\ WF_vars(LocalUp)
    /\ SF_vars(OnConfig) /\ SF_vars(OnState)
    /\ SF_vars(SyncLabel)
    /\ \A c \in Pod : WF_vars(PodStep(c)) /\ WF_vars(Undeploy(c))

FairSpec == Spec /\ Fairness

(* The fallback: a feature whose unit is not stopped has a container that    *)
(* runs, again and again whatever container, ctrmgrd or kubelet do: a pod    *)
(* that never comes, one that freezes because its version is not higher, a   *)
(* request that is overwritten, an owner that changes between the reads and  *)
(* the writes of the commands.  ("Clear remote state and exit.  systemd      *)
(* would restart and fallback to local.")                                    *)
Served == cfg.fallback => []<>(unit.pc = "dead" \/ \E c \in Ctr : Running(c))

(* "Handle Set_owner change: restart service" (ctrmgrd.py): a feature that   *)
(* is set to local for good runs the local image in the end.                 *)
LocalServed == <>[](cfg.owner = "local" /\ unit.pc # "dead") => <>[]Running(Local)

(* "it starts the local image using docker, which will run until kube        *)
(* deployment occurs" (container_start): a remote container that waits to be *)
(* let in does not wait for ever.                                            *)
PendingServed ==
    \A c \in Pod : ctr[c] = "wait" ~> (ctr[c] # "wait" \/ unit.pc = "dead")

(* The same line: the two do not run at once.                                *)
LocalAlone == \A c \in Pod : ~(Running(Local) /\ Running(c))

-----------------------------------------------------------------------------
(* Docker wait names a container that is there. *)
WaitsForOne == IF unit.pc = "wait" THEN unit.id # NoId /\ There(unit.id) ELSE unit.id = NoId

Stopping == unit.pc \in {"stop", "mark"}

(* While ctrmgrd restarts the unit, the unit is on its way to a start, at    *)
(* the end of which the restart returns.                                     *)
RestartReturns ==
    /\ mgr.busy => (Stopping /\ unit.next = "start") \/ unit.pc \in {"start", "docker"}
    /\ ~Stopping => unit.next = "auto"

(* The id in STATE_DB is a container of the owner that it has there; the     *)
(* local image does not wait to be let in.                                   *)
IdOfOwner ==
    /\ st.owner = "local" => st.id = Local
    /\ st.owner = "kube" => st.id \in Pod
    /\ ctr[Local] \in {"off", "begin", "run"}

(* Nobody waits for what cannot come, whatever ends, is removed, stopped or  *)
(* restarted meanwhile: the unit is in docker wait only while the container  *)
(* it names is there, and ctrmgrd in systemctl restart only while the unit   *)
(* is about to start.  And container_stop and container_kill find by the id  *)
(* in STATE_DB a container of the owner that they read.                      *)
CtrInv == WaitsForOne /\ RestartReturns /\ IdOfOwner
=============================================================================
