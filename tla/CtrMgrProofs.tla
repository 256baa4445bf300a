----------------------------- MODULE CtrMgrProofs -----------------------------
(***************************************************************************)
(* Proofs about the container manager, for every set of containers and     *)
(* versions, every choice of operations and every number of events.        *)
(***************************************************************************)
EXTENDS CtrMgr, TLAPS

(* What TypeOK says, field by field. *)
LEMMA CtrFields ==
    ASSUME TypeOK
    PROVE  /\ Local \in Ctr /\ NoId \notin Ctr /\ Local # NoId
           /\ \A c \in Ctr : Version[c] \in Nat /\ (c \in Pod <=> c # Local)
           /\ cfg.owner \in Owner /\ cfg.fallback \in BOOLEAN
           /\ st \in State /\ unit \in Unit /\ mgr \in Mgr
           /\ st.id \in Ctr \cup {NoId} /\ ContainerId \in Ctr \cup {NoId}
           /\ \A c \in Ctr : ctr[c] \in Container
           /\ events \in Nat /\ MaxEvents \in Nat
  BY VersionAssumption, BoundAssumption
  DEF TypeOK, State, Pod, Local, NoId, Ctr, ContainerId

(* Spending an event keeps within the bound. *)
LEMMA SpendOK ==
    ASSUME TypeOK, Spend
    PROVE  events' \in 0..MaxEvents
  BY BoundAssumption DEF TypeOK, Spend

LEMMA CtrInit == Init => TypeOK /\ CtrInv
  <1> SUFFICES ASSUME Init PROVE TypeOK /\ CtrInv
    OBVIOUS
  <1>1. Local \in Ctr /\ Local # NoId
    BY VersionAssumption DEF Local, NoId
  <1>2. st \in State
    BY <1>1 DEF Init, State, Owner, Remote
  <1>3. unit \in Unit
    BY DEF Init, Unit, Active, Remote
  <1>4. mgr \in Mgr
    BY DEF Init, NewMgr, Mgr, Owner, Remote
  <1>5. TypeOK
    BY <1>2, <1>3, <1>4, BoundAssumption, OpsAssumption
    DEF Init, TypeOK, Label, Container
  <1>6. CtrInv
    BY <1>1 DEF Init, CtrInv, WaitsForOne, RestartReturns, IdOfOwner, Stopping, NewMgr
  <1> QED BY <1>5, <1>6

-----------------------------------------------------------------------------
(* The "container" command *)

LEMMA StartOK == TypeOK /\ CtrInv /\ Start => TypeOK' /\ CtrInv'
  <1> SUFFICES ASSUME TypeOK, CtrInv, Start PROVE TypeOK' /\ CtrInv'
    OBVIOUS
  <1> USE CtrFields
  <1>1. st' \in State
    BY DEF Start, State, Owner, Remote
  <1>2. unit' \in Unit /\ mgr' \in Mgr
    BY DEF Start, Unit, Mgr, Active
  <1>3. TypeOK'
    BY <1>1, <1>2 DEF Start, TypeOK, Label
  <1>4. /\ unit.id = NoId /\ unit'.id = NoId /\ unit'.pc = "docker"
        /\ unit'.next = "auto"
    BY DEF Start, CtrInv, WaitsForOne, RestartReturns, Stopping, Unit
  <1>5. IdOfOwner'
    BY DEF Start, CtrInv, IdOfOwner, State
  <1>6. CtrInv'
    BY <1>4, <1>5 DEF CtrInv, WaitsForOne, RestartReturns, Stopping
  <1> QED BY <1>3, <1>6

LEMMA StartedOK == TypeOK /\ CtrInv /\ Started => TypeOK' /\ CtrInv'
  <1> SUFFICES ASSUME TypeOK, CtrInv, Started PROVE TypeOK' /\ CtrInv'
    OBVIOUS
  <1> USE CtrFields
  <1>1. unit' \in Unit /\ mgr' \in Mgr
    BY DEF Started, Unit, Mgr, Active
  <1>2. ctr' \in [Ctr -> Container]
    BY DEF Started, TypeOK, Container
  <1>3. TypeOK'
    BY <1>1, <1>2 DEF Started, TypeOK, Label
  <1>4. /\ unit'.id = NoId /\ unit'.pc = "enter" /\ unit'.next = "auto" /\ ~mgr'.busy
    BY DEF Started, CtrInv, WaitsForOne, RestartReturns, Stopping, Unit, Mgr
  <1>5. IdOfOwner'
    BY DEF Started, CtrInv, IdOfOwner, TypeOK
  <1> QED BY <1>3, <1>4, <1>5 DEF CtrInv, WaitsForOne, RestartReturns, Stopping

(* docker wait is entered, or returns. *)
LEMMA DockerWaitOK ==
    ASSUME TypeOK, NEW id \in Ctr, DockerWait(id), ctr' = ctr,
           unit.next = "auto"
    PROVE  /\ unit' \in Unit /\ WaitsForOne'
           /\ unit'.pc \in {"wait", "stop"} /\ unit'.next = "auto"
  <1>1. id # NoId /\ unit \in Unit
    BY CtrFields
  <1>2. CASE There(id)
    <2>1. unit' = [unit EXCEPT !.pc = "wait", !.id = id]
      BY <1>2 DEF DockerWait
    <2>2. unit' \in Unit /\ unit'.pc = "wait" /\ unit'.id = id /\ unit'.next = unit.next
      BY <1>1, <2>1 DEF Unit, Active
    <2>3. There(id)'
      BY <1>2 DEF There, Running
    <2> QED BY <1>1, <2>2, <2>3 DEF WaitsForOne, There, Running
  <1>3. CASE ~There(id)
    <2>1. unit' = [unit EXCEPT !.pc = "stop", !.id = NoId]
      BY <1>3 DEF DockerWait, Exit
    <2>2. unit' \in Unit /\ unit'.pc = "stop" /\ unit'.id = NoId /\ unit'.next = unit.next
      BY <1>1, <2>1 DEF Unit, Active
    <2> QED BY <2>2 DEF WaitsForOne
  <1> QED BY <1>2, <1>3

LEMMA WaitOK == TypeOK /\ CtrInv /\ Wait => TypeOK' /\ CtrInv'
  <1> SUFFICES ASSUME TypeOK, CtrInv, Wait PROVE TypeOK' /\ CtrInv'
    OBVIOUS
  <1> USE CtrFields
  <1>1. /\ unit.next = "auto" /\ unit.id = NoId /\ ~mgr.busy
    BY DEF Wait, CtrInv, WaitsForOne, RestartReturns, Stopping, Unit, Mgr
  <1>2. /\ unit' \in Unit /\ WaitsForOne'
        /\ unit'.pc \in {"poll", "wait", "stop"} /\ unit'.next = "auto"
    <2>1. CASE ContainerId = NoId
      BY <1>1, <2>1 DEF Wait, Unit, Active, WaitsForOne
    <2>2. CASE ContainerId # NoId
      BY <1>1, <2>2, DockerWaitOK DEF Wait
    <2> QED BY <2>1, <2>2
  <1>3. TypeOK'
    BY <1>2 DEF Wait, TypeOK
  <1>4. IdOfOwner' /\ ~mgr'.busy
    BY <1>1 DEF Wait, CtrInv, IdOfOwner
  <1> QED BY <1>2, <1>3, <1>4 DEF CtrInv, RestartReturns

LEMMA PollOK == TypeOK /\ CtrInv /\ Poll => TypeOK' /\ CtrInv'
  <1> SUFFICES ASSUME TypeOK, CtrInv, Poll PROVE TypeOK' /\ CtrInv'
    OBVIOUS
  <1> USE CtrFields
  <1>1. /\ unit.next = "auto" /\ unit.id = NoId /\ ~mgr.busy /\ unit.pc = "poll"
    BY DEF Poll, CtrInv, WaitsForOne, RestartReturns, Stopping, Unit, Mgr
  <1>2. /\ unit' \in Unit /\ WaitsForOne'
        /\ unit'.pc \in {"poll", "wait", "stop"} /\ unit'.next = "auto"
    <2>1. CASE st.id = NoId
      BY <1>1, <2>1 DEF Poll, WaitsForOne
    <2>2. CASE st.id # NoId
      BY <1>1, <2>2, DockerWaitOK DEF Poll
    <2> QED BY <2>1, <2>2
  <1>3. st' \in State /\ st'.owner = st.owner /\ st'.id = st.id
    BY DEF Poll, State, Remote
  <1>4. mgr' \in Mgr /\ ~mgr'.busy
    BY <1>1 DEF Poll, Mgr
  <1>5. TypeOK'
    BY <1>2, <1>3, <1>4 DEF Poll, TypeOK
  <1>6. IdOfOwner'
    BY <1>3 DEF Poll, CtrInv, IdOfOwner
  <1> QED BY <1>2, <1>4, <1>5, <1>6 DEF CtrInv, RestartReturns

(* The unit turns to its ExecStop. *)
LEMMA ExitOK ==
    ASSUME TypeOK
    PROVE  /\ Exit \in Unit /\ Exit.pc = "stop" /\ Exit.id = NoId /\ Exit.next = unit.next
           /\ \A n \in {"dead", "start"} : LET u == [Exit EXCEPT !.next = n]
                 IN  u \in Unit /\ u.pc = "stop" /\ u.id = NoId /\ u.next = n
  <1>1. unit \in Unit
    BY CtrFields
  <1>2. Exit \in Unit /\ Exit.pc = "stop" /\ Exit.id = NoId /\ Exit.next = unit.next
    BY <1>1 DEF Exit, Unit
  <1>3. ASSUME NEW e \in Unit, e.pc = "stop", e.id = NoId, NEW n \in {"dead", "start"}
        PROVE  LET u == [e EXCEPT !.next = n]
               IN  u \in Unit /\ u.pc = "stop" /\ u.id = NoId /\ u.next = n
    BY <1>3 DEF Unit
  <1> QED BY <1>2, <1>3

LEMMA GiveUpOK == TypeOK /\ CtrInv /\ GiveUp => TypeOK' /\ CtrInv'
  <1> SUFFICES ASSUME TypeOK, CtrInv, GiveUp PROVE TypeOK' /\ CtrInv'
    OBVIOUS
  <1> USE CtrFields
  <1>1. /\ unit.next = "auto" /\ ~mgr.busy
    BY DEF GiveUp, CtrInv, RestartReturns, Stopping
  <1>2. st' \in State /\ st'.owner = st.owner /\ st'.id = st.id
    BY DEF GiveUp, State, Remote
  <1>3. mgr' \in Mgr /\ ~mgr'.busy
    BY <1>1 DEF GiveUp, Mgr
  <1>4. unit' \in Unit /\ unit'.pc = "stop" /\ unit'.id = NoId
    BY ExitOK DEF GiveUp
  <1>5. TypeOK'
    BY <1>2, <1>3, <1>4 DEF GiveUp, TypeOK
  <1>6. IdOfOwner'
    BY <1>2 DEF GiveUp, CtrInv, IdOfOwner
  <1> QED BY <1>3, <1>4, <1>5, <1>6 DEF CtrInv, RestartReturns, WaitsForOne, Stopping

LEMMA StopOK == TypeOK /\ CtrInv /\ Stop => TypeOK' /\ CtrInv'
  <1> SUFFICES ASSUME TypeOK, CtrInv, Stop PROVE TypeOK' /\ CtrInv'
    OBVIOUS
  <1> USE CtrFields
  <1>1. unit' \in Unit /\ unit'.pc = "mark" /\ unit'.id = NoId /\ unit'.next = unit.next
    BY DEF Stop, CtrInv, WaitsForOne, Unit, State
  <1>2. /\ ctr' \in [Ctr -> Container]
        /\ ctr'[Local] \in {"off", ctr[Local]}
    BY DEF Stop, TypeOK, Container
  <1>3. TypeOK'
    BY <1>1, <1>2 DEF Stop, TypeOK, Label
  <1>4. IdOfOwner'
    BY <1>2 DEF Stop, CtrInv, IdOfOwner
  <1>5. RestartReturns'
    BY <1>1 DEF Stop, CtrInv, RestartReturns, Stopping
  <1> QED BY <1>1, <1>3, <1>4, <1>5 DEF CtrInv, WaitsForOne

LEMMA MarkDownOK == TypeOK /\ CtrInv /\ MarkDown => TypeOK' /\ CtrInv'
  <1> SUFFICES ASSUME TypeOK, CtrInv, MarkDown PROVE TypeOK' /\ CtrInv'
    OBVIOUS
  <1> USE CtrFields
  <1>1. unit' \in Unit /\ unit'.pc = unit.next /\ unit'.id = NoId /\ unit'.next = "auto"
    BY DEF MarkDown, CtrInv, WaitsForOne, Unit, Remote
  <1>2. st' \in State /\ st'.owner = "none"
    BY DEF MarkDown, State, Remote, Owner
  <1>3. mgr' \in Mgr /\ mgr'.busy = mgr.busy
    BY DEF MarkDown, Mgr
  <1>4. TypeOK'
    BY <1>1, <1>2, <1>3 DEF MarkDown, TypeOK
  <1>5. IdOfOwner'
    BY <1>2 DEF MarkDown, CtrInv, IdOfOwner
  <1>6. RestartReturns'
    BY <1>1, <1>3 DEF MarkDown, CtrInv, RestartReturns, Stopping
  <1>7. unit'.pc # "wait"
    BY <1>1 DEF Unit
  <1> QED BY <1>1, <1>4, <1>5, <1>6, <1>7 DEF CtrInv, WaitsForOne

(* Starts of the unit: only its pc changes. *)
LEMMA UnitStartsOK ==
    TypeOK /\ CtrInv /\ (AutoRestart \/ StartUnit) => TypeOK' /\ CtrInv'
  <1> SUFFICES ASSUME TypeOK, CtrInv, AutoRestart \/ StartUnit PROVE TypeOK' /\ CtrInv'
    OBVIOUS
  <1> USE CtrFields
  <1>1. /\ unit' \in Unit /\ unit'.pc = "start" /\ unit'.id = NoId /\ unit'.next = "auto"
    BY DEF AutoRestart, StartUnit, CtrInv, WaitsForOne, RestartReturns, Stopping, Unit
  <1>2. UNCHANGED <<cfg, st, label, ctr, mgr, api, events>>
    BY DEF AutoRestart, StartUnit
  <1>3. TypeOK'
    BY <1>1, <1>2 DEF TypeOK
  <1>4. IdOfOwner'
    BY <1>2 DEF CtrInv, IdOfOwner
  <1> QED BY <1>1, <1>3, <1>4 DEF CtrInv, WaitsForOne, RestartReturns, Stopping

-----------------------------------------------------------------------------
(* container_startup.py *)

(* A container that goes on is there as before. *)
LEMMA WaitsStill ==
    ASSUME TypeOK, CtrInv, NEW c \in Ctr, NEW x \in Container \ {"off"},
           ctr[c] # "run", ctr' = [ctr EXCEPT ![c] = x], unit' = unit
    PROVE  WaitsForOne'
  <1> USE CtrFields
  <1>1. \A d \in Ctr : There(d) => There(d)'
    BY DEF There, Running, TypeOK
  <1>2. unit.id \in Ctr \cup {NoId}
    BY DEF Unit
  <1> QED BY <1>1, <1>2 DEF CtrInv, WaitsForOne, There, Running

LEMMA LocalUpOK == TypeOK /\ CtrInv /\ LocalUp => TypeOK' /\ CtrInv'
  <1> SUFFICES ASSUME TypeOK, CtrInv, LocalUp PROVE TypeOK' /\ CtrInv'
    OBVIOUS
  <1> USE CtrFields
  <1>1. st' \in State /\ st'.owner = "local" /\ st'.id = Local
    BY DEF LocalUp, State, Owner
  <1>2. mgr' \in Mgr /\ mgr'.busy = mgr.busy
    BY DEF LocalUp, Mgr
  <1>3. ctr' \in [Ctr -> Container] /\ ctr'[Local] = "run"
    BY DEF LocalUp, TypeOK, Container
  <1>4. TypeOK'
    BY <1>1, <1>2, <1>3 DEF LocalUp, TypeOK
  <1>5. WaitsForOne'
    <2>1. "run" \in Container \ {"off"} /\ ctr[Local] # "run"
      BY DEF LocalUp, Container
    <2> QED BY <2>1, WaitsStill DEF LocalUp
  <1>6. IdOfOwner'
    BY <1>1, <1>3 DEF IdOfOwner
  <1>7. RestartReturns'
    BY <1>2 DEF LocalUp, CtrInv, RestartReturns, Stopping
  <1> QED BY <1>4, <1>5, <1>6, <1>7 DEF CtrInv

(* update_state of a pod. *)
LEMMA AdmittedIs ==
    ASSUME TypeOK, NEW c \in Pod, NEW s \in State
    PROVE  LET a == Admitted(c, s) IN a \in State /\ a.owner = "kube" /\ a.id = c
  <1>1. c \in Ctr
    BY DEF Pod
  <1> QED BY <1>1 DEF Admitted, State, Owner, Remote

(* A pod writes its version, a request or its admission. *)
LEMMA PodStepOK ==
    ASSUME TypeOK, CtrInv, NEW c \in Pod, PodStep(c)
    PROVE  TypeOK' /\ CtrInv'
  <1> USE CtrFields
  <1>0. c \in Ctr /\ c # Local
    BY DEF Pod
  <1>1. /\ UNCHANGED <<cfg, label, unit, api, events>>
        /\ ctr[c] # "run"
        /\ \E x \in {"run", "wait", "frozen"} : ctr' = [ctr EXCEPT ![c] = x]
    BY DEF PodStep, Arrive, Turn
  <1>2. mgr' \in Mgr /\ mgr'.busy = mgr.busy
    BY DEF PodStep, Arrive, Turn, Mgr
  <1>3. /\ st' \in State
        /\ \/ st'.owner = st.owner /\ st'.id = st.id
           \/ st'.owner = "kube" /\ st'.id = c
    <2>1. CASE Arrive(c)
      <3> DEFINE ask == st.remote \in {"none", "running", "stopped"}
                 s == [st EXCEPT !.version = Version[c],
                                 !.remote = IF ask THEN "pending" ELSE st.remote]
      <3>1. s \in State /\ s.owner = st.owner /\ s.id = st.id
        BY <1>0 DEF State, Remote
      <3>2. st' \in {st, s, Admitted(c, s)}
        BY <2>1 DEF Arrive
      <3> HIDE DEF s
      <3> QED BY <3>1, <3>2, AdmittedIs
    <2>2. CASE Turn(c)
      BY <2>2, AdmittedIs DEF Turn
    <2> QED BY <2>1, <2>2 DEF PodStep
  <1>4. ctr' \in [Ctr -> Container] /\ ctr'[Local] = ctr[Local]
    BY <1>0, <1>1 DEF TypeOK, Container
  <1>5. TypeOK'
    BY <1>1, <1>2, <1>3, <1>4 DEF TypeOK
  <1>6. WaitsForOne'
    <2>1. {"run", "wait", "frozen"} \subseteq Container \ {"off"}
      BY DEF Container
    <2> QED BY <1>0, <1>1, <2>1, WaitsStill
  <1>7. IdOfOwner'
    BY <1>3, <1>4 DEF CtrInv, IdOfOwner
  <1>8. RestartReturns'
    BY <1>1, <1>2 DEF CtrInv, RestartReturns, Stopping
  <1> QED BY <1>5, <1>6, <1>7, <1>8 DEF CtrInv

-----------------------------------------------------------------------------
(* ctrmgrd *)

(* The caches are updated, and the unit may be sent through a restart. *)
LEMMA MgrStepOK == TypeOK /\ CtrInv /\ MgrStep => TypeOK' /\ CtrInv'
  <1> SUFFICES ASSUME TypeOK, CtrInv, MgrStep PROVE TypeOK' /\ CtrInv'
    OBVIOUS
  <1> USE CtrFields
  <1>1. ~mgr.busy /\ UNCHANGED <<cfg, st, ctr, api, events>>
    BY DEF MgrStep, OnConfig, OnState
  <1>2. PICK m \in Mgr : /\ ~m.busy
                         /\ HandleUpdate(m) \/ (mgr' = m /\ UNCHANGED <<label, unit>>)
    <2>1. CASE OnConfig
      <3> DEFINE m == [mgr EXCEPT !.cfgnew = FALSE, !.owner = cfg.owner]
      <3>1. m \in Mgr /\ m.busy = mgr.busy
        BY DEF Mgr
      <3> QED BY <1>1, <2>1, <3>1 DEF OnConfig
    <2>2. CASE OnState
      <3> DEFINE m == [mgr EXCEPT !.stnew = FALSE, !.ct = st.owner, !.remote = st.remote]
      <3>1. m \in Mgr /\ m.busy = mgr.busy
        BY DEF Mgr, State
      <3> QED BY <1>1, <2>2, <3>1 DEF OnState
    <2> QED BY <2>1, <2>2 DEF MgrStep
  <1>3. \A b \in BOOLEAN : LET n == [m EXCEPT !.busy = b] IN n \in Mgr /\ n.busy = b
    BY DEF Mgr
  <1>4. \/ mgr' \in Mgr /\ ~mgr'.busy /\ unit' = unit /\ label' \in Label
        \/ /\ mgr' \in Mgr /\ unit' = [Exit EXCEPT !.next = "start"]
           /\ unit.pc \in Active /\ label' \in Label
    BY <1>2, <1>3 DEF HandleUpdate, TypeOK, Label
  <1>5. CASE mgr' \in Mgr /\ ~mgr'.busy /\ unit' = unit /\ label' \in Label
    <2>1. TypeOK'
      BY <1>1, <1>5 DEF TypeOK
    <2> QED BY <1>1, <1>5, <2>1 
            DEF CtrInv, WaitsForOne, RestartReturns, Stopping, IdOfOwner, There, Running
  <1>6. CASE /\ mgr' \in Mgr /\ unit' = [Exit EXCEPT !.next = "start"]
             /\ unit.pc \in Active /\ label' \in Label
    <2>1. unit' \in Unit /\ unit'.pc = "stop" /\ unit'.id = NoId /\ unit'.next = "start"
      BY <1>6, ExitOK
    <2>2. TypeOK'
      BY <1>1, <1>6, <2>1 DEF TypeOK
    <2> QED BY <1>1, <2>1, <2>2 DEF CtrInv, WaitsForOne, RestartReturns, Stopping, IdOfOwner
  <1> QED BY <1>4, <1>5, <1>6

-----------------------------------------------------------------------------
(* The environment *)

LEMMA EndsOK ==
    ASSUME TypeOK, CtrInv, NEW c \in Ctr, Ends(c)
    PROVE  /\ ctr' \in [Ctr -> Container] /\ ctr'[Local] \in {"off", ctr[Local]}
           /\ unit' \in Unit /\ WaitsForOne'
           /\ unit' = unit \/ (unit'.pc = "stop" /\ unit'.next = unit.next /\ unit.pc = "wait")
  <1> USE CtrFields
  <1>1. ctr' = [ctr EXCEPT ![c] = "off"]
    BY DEF Ends
  <1>2. ctr' \in [Ctr -> Container] /\ ctr'[Local] \in {"off", ctr[Local]}
    BY <1>1 DEF TypeOK, Container
  <1>3. CASE unit.pc = "wait" /\ unit.id = c /\ There(c)
    <2>1. unit' = Exit
      BY <1>3 DEF Ends
    <2> QED BY <1>2, <1>3, <2>1, ExitOK DEF WaitsForOne
  <1>4. CASE ~(unit.pc = "wait" /\ unit.id = c /\ There(c))
    <2>1. unit' = unit
      BY <1>4 DEF Ends
    <2>2. \A d \in Ctr : d # c /\ There(d) => There(d)'
      BY <1>1 DEF There, Running, TypeOK
    <2>3. unit.pc = "wait" => unit.id \in Ctr /\ unit.id # c /\ There(unit.id)
      BY <1>4 DEF CtrInv, WaitsForOne, Unit
    <2>4. WaitsForOne'
      BY <2>1, <2>2, <2>3 DEF CtrInv, WaitsForOne, There, Running
    <2> QED BY <1>2, <2>1, <2>4
  <1> QED BY <1>3, <1>4

LEMMA EndingsOK ==
    ASSUME TypeOK, CtrInv,
           \/ \E c \in Pod : Undeploy(c)
           \/ \E c \in Ctr : Crash(c)
           \/ Kill
    PROVE  TypeOK' /\ CtrInv'
  <1> USE CtrFields
  <1>1. /\ UNCHANGED <<cfg, st, mgr, api>>
        /\ label' \in Label /\ events' \in 0..MaxEvents
        /\ (\E c \in Ctr : Ends(c)) \/ UNCHANGED <<ctr, unit>>
    <2>1. CASE \E c \in Pod : Undeploy(c)
      BY <2>1 DEF Undeploy, Pod, TypeOK
    <2>2. CASE \E c \in Ctr : Crash(c)
      BY <2>2, SpendOK DEF Crash, TypeOK
    <2>3. CASE Kill
      <3>1. label' \in Label
        BY <2>3 DEF Kill, TypeOK, Label
      <3>2. (\E c \in Ctr : Ends(c)) \/ UNCHANGED <<ctr, unit>>
        BY <2>3 DEF Kill
      <3> QED BY <2>3, <3>1, <3>2, SpendOK DEF Kill
    <2> QED BY <2>1, <2>2, <2>3
  <1>2. /\ ctr' \in [Ctr -> Container] /\ ctr'[Local] \in {"off", ctr[Local]}
        /\ unit' \in Unit /\ WaitsForOne'
        /\ unit' = unit \/ (unit'.pc = "stop" /\ unit'.next = unit.next /\ unit.pc = "wait")
    <2>1. CASE \E c \in Ctr : Ends(c)
      BY <2>1, EndsOK
    <2>2. CASE UNCHANGED <<ctr, unit>>
      BY <2>2 DEF CtrInv, WaitsForOne, There, Running, TypeOK
    <2> QED BY <1>1, <2>1, <2>2
  <1>3. TypeOK'
    BY <1>1, <1>2 DEF TypeOK
  <1>4. IdOfOwner'
    BY <1>1, <1>2 DEF CtrInv, IdOfOwner
  <1>5. RestartReturns'
    BY <1>1, <1>2 DEF CtrInv, RestartReturns, Stopping
  <1> QED BY <1>2, <1>3, <1>4, <1>5 DEF CtrInv

LEMMA DeployOK ==
    ASSUME TypeOK, CtrInv, NEW c \in Pod, Deploy(c)
    PROVE  TypeOK' /\ CtrInv'
  <1> USE CtrFields
  <1>0. c \in Ctr /\ c # Local /\ "begin" \in Container \ {"off"}
    BY DEF Pod, Container
  <1>1. ctr' \in [Ctr -> Container] /\ ctr'[Local] = ctr[Local]
    BY <1>0 DEF Deploy, TypeOK
  <1>2. TypeOK'
    BY <1>1 DEF Deploy, TypeOK
  <1>3. WaitsForOne'
    BY <1>0, WaitsStill DEF Deploy
  <1>4. IdOfOwner' /\ RestartReturns'
    BY <1>1 DEF Deploy, CtrInv, IdOfOwner, RestartReturns, Stopping
  <1> QED BY <1>2, <1>3, <1>4 DEF CtrInv

(* An operator, the API server, and a new ctrmgrd. *)
LEMMA OperatorOK ==
    TypeOK /\ CtrInv /\ (SyncLabel \/ ChangeOwner \/ StopUnit \/ RestartMgr) => TypeOK' /\ CtrInv'
  <1> SUFFICES ASSUME TypeOK, CtrInv, SyncLabel \/ ChangeOwner \/ StopUnit \/ RestartMgr
               PROVE  TypeOK' /\ CtrInv'
    OBVIOUS
  <1> USE CtrFields
  <1>1. CASE SyncLabel
    BY <1>1 DEF SyncLabel, TypeOK, CtrInv, WaitsForOne, RestartReturns, Stopping, IdOfOwner,
                There, Running
  <1>2. CASE ChangeOwner
    <2>1. mgr' \in Mgr /\ mgr'.busy = mgr.busy
      BY <1>2 DEF ChangeOwner, Mgr
    <2>2. cfg' \in [owner : Owner, fallback : BOOLEAN]
      BY <1>2 DEF ChangeOwner, TypeOK
    <2>3. TypeOK'
      BY <1>2, <2>1, <2>2, SpendOK DEF ChangeOwner, TypeOK
    <2> QED BY <1>2, <2>1, <2>3
            DEF ChangeOwner, CtrInv, WaitsForOne, RestartReturns, Stopping, IdOfOwner, There, Running
  <1>3. CASE StopUnit
    <2>1. unit' \in Unit /\ unit'.pc = "stop" /\ unit'.id = NoId /\ unit'.next = "dead"
      BY <1>3, ExitOK DEF StopUnit
    <2>2. TypeOK'
      BY <1>3, <2>1, SpendOK DEF StopUnit, TypeOK
    <2>3. ~mgr.busy
      BY <1>3 DEF StopUnit, CtrInv, RestartReturns, Stopping, Active
    <2> QED BY <1>3, <2>1, <2>2, <2>3
            DEF StopUnit, CtrInv, WaitsForOne, RestartReturns, Stopping, IdOfOwner
  <1>4. CASE RestartMgr
    <2>1. mgr' \in Mgr /\ ~mgr'.busy
      BY <1>4 DEF RestartMgr, NewMgr, Mgr, Owner, Remote
    <2>2. TypeOK'
      BY <1>4, <2>1, SpendOK DEF RestartMgr, TypeOK
    <2> QED BY <1>4, <2>1, <2>2
            DEF RestartMgr, CtrInv, WaitsForOne, RestartReturns, Stopping, IdOfOwner, There, Running
  <1> QED BY <1>1, <1>2, <1>3, <1>4

-----------------------------------------------------------------------------
LEMMA CtrStep == TypeOK /\ CtrInv /\ [Next]_vars => TypeOK' /\ CtrInv'
  <1> SUFFICES ASSUME TypeOK, CtrInv, [Next]_vars PROVE TypeOK' /\ CtrInv'
    OBVIOUS
  <1>1. CASE UnitStep \/ GiveUp
    BY <1>1, StartOK, StartedOK, WaitOK, PollOK, GiveUpOK, StopOK, MarkDownOK, UnitStartsOK
    DEF UnitStep
  <1>2. CASE MgrStep
    BY <1>2, MgrStepOK
  <1>3. CASE LocalUp
    BY <1>3, LocalUpOK
  <1>4. CASE \E c \in Pod : PodStep(c) \/ Deploy(c) \/ Undeploy(c)
    BY <1>4, PodStepOK, DeployOK, EndingsOK
  <1>5. CASE (\E c \in Ctr : Crash(c)) \/ Kill
    BY <1>5, EndingsOK
  <1>6. CASE SyncLabel \/ ChangeOwner \/ StopUnit \/ RestartMgr
    BY <1>6, OperatorOK
  <1>7. CASE StartUnit
    BY <1>7, UnitStartsOK
  <1>8. CASE UNCHANGED vars
    BY <1>8 DEF vars, TypeOK, CtrInv, WaitsForOne, RestartReturns, Stopping, IdOfOwner,
                There, Running
  <1> QED BY <1>1, <1>2, <1>3, <1>4, <1>5, <1>6, <1>7, <1>8 DEF Next

(* The records of STATE_DB, of the unit and of ctrmgrd's caches stay         *)
(* well-formed, whatever the programs that share them write.                 *)
THEOREM CtrTypeCorrect == Spec => []TypeOK
  <1>1. Init => TypeOK /\ CtrInv
    BY CtrInit
  <1>2. TypeOK /\ CtrInv /\ [Next]_vars => (TypeOK /\ CtrInv)'
    BY CtrStep
  <1> QED BY <1>1, <1>2, PTL DEF Spec

(* docker wait names a container that is there, a restart by ctrmgrd is on   *)
(* its way to a start, and the id in STATE_DB is a container of its owner,   *)
(* for every number of pods and of failures.                                 *)
THEOREM CtrInvariant == Spec => []CtrInv
  <1>1. Init => TypeOK /\ CtrInv
    BY CtrInit
  <1>2. TypeOK /\ CtrInv /\ [Next]_vars => (TypeOK /\ CtrInv)'
    BY CtrStep
  <1> QED BY <1>1, <1>2, PTL DEF Spec
=============================================================================
