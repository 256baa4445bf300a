-------------------------- MODULE MlacpSyncProofs --------------------------
(***************************************************************************)
(* Types, stages and purges of MlacpSync, for any number of port-channels, *)
(* any set of operations and any number of events.                         *)
(***************************************************************************)
EXTENDS MlacpSync, SequenceLemmas

(* p and its peer are the two switches. *)
LEMMA TwoPeers ==
    ASSUME NEW p \in Peer
    PROVE  /\ Other(p) \in Peer /\ Other(p) # p /\ Other(Other(p)) = p
           /\ Peer = {p, Other(p)}
           /\ (p = Active /\ Other(p) = Standby) \/ (p = Standby /\ Other(p) = Active)
  BY PeerAssumption DEF Other, Peer

-----------------------------------------------------------------------------
(* Types of the operators. *)

LEMMA InterfaceTypes ==
    ASSUME NEW s \in Switch, NEW l \in LocalIf, NEW i \in Po, NEW up \in BOOLEAN, NEW new \in BOOLEAN
    PROVE  /\ s.lif[i] \in LocalIf /\ s.pif[i] \in PeerIf /\ UpDown(up) \in PeerIf
           /\ NewIf(up) \in LocalIf /\ NoIf \in LocalIf
           /\ IsolatedFromLif(s, i, up) \in BOOLEAN
           /\ IsolatedFromPif(s, i, up, new) \in BOOLEAN
           /\ TrafficDisabled(s, l) \in LocalIf
           /\ TrafficEnabled(l) \in LocalIf
           /\ PoInfo(l, up) \in LocalIf
  <1>1. s.lif[i] \in LocalIf /\ s.pif[i] \in PeerIf
    BY DEF Switch
  <1>2. UpDown(up) \in PeerIf /\ NewIf(up) \in LocalIf /\ NoIf \in LocalIf
    BY DEF UpDown, PeerIf, NewIf, NoIf, LocalIf
  <1>3. IsolatedFromLif(s, i, up) \in BOOLEAN
    BY <1>1 DEF IsolatedFromLif, LocalIf
  <1>4. IsolatedFromPif(s, i, up, new) \in BOOLEAN
    BY <1>1 DEF IsolatedFromPif, LocalIf
  <1>5. TrafficDisabled(s, l) \in LocalIf
    BY DEF TrafficDisabled, LocalIf
  <1>6. TrafficEnabled(l) \in LocalIf /\ PoInfo(l, up) \in LocalIf
    BY DEF TrafficEnabled, PoInfo, LocalIf
  <1> QED BY <1>1, <1>2, <1>3, <1>4, <1>5, <1>6

(* Replacing parts of a switch. *)
LEMMA SwitchParts ==
    ASSUME NEW s \in Switch
    PROVE  /\ \A f \in [Po -> LocalIf] : [s EXCEPT !.lif = f] \in Switch
           /\ \A i \in Po, l \in LocalIf : [s EXCEPT !.lif[i] = l] \in Switch
           /\ \A i \in Po, l \in LocalIf, v \in PeerIf :
                 [s EXCEPT !.lif[i] = l, !.pif[i] = v] \in Switch
           /\ \A i \in Po, b \in BOOLEAN : [s.lif[i] EXCEPT !.isolated = b] \in LocalIf
  <1>1. \A f \in [Po -> LocalIf] : [s EXCEPT !.lif = f] \in Switch
    BY DEF Switch
  <1>2. \A i \in Po, l \in LocalIf : [s EXCEPT !.lif[i] = l] \in Switch
    BY DEF Switch
  <1>3. \A i \in Po, l \in LocalIf, v \in PeerIf :
                 [s EXCEPT !.lif[i] = l, !.pif[i] = v] \in Switch
    BY DEF Switch
  <1>4. \A i \in Po, b \in BOOLEAN : [s.lif[i] EXCEPT !.isolated = b] \in LocalIf
    BY DEF Switch, LocalIf
  <1> QED BY <1>1, <1>2, <1>3, <1>4

(* Handling messages keeps the purges and who is in the domain. *)
SameMembers(r, s) ==
    /\ r.purge = s.purge /\ r.bind = s.bind
    /\ \A i \in Po : /\ r.lif[i].exists = s.lif[i].exists
                     /\ r.lif[i].bound = s.lif[i].bound
                     /\ r.lif[i].up = s.lif[i].up

LEMMA PoStateFields ==
    ASSUME NEW s \in Switch, NEW i \in Po, NEW up \in BOOLEAN
    PROVE  LET l == s.lif[i]
               r == PoState(s, i, up)
           IN  /\ r \in LocalIf
               /\ r.exists = l.exists /\ r.bound = l.bound /\ r.up = l.up /\ r.sync = l.sync
               /\ r.active = up
               /\ r.changed <=> l.changed \/ l.active # up
               /\ r.isolated <=> IsolatedFromLif(s, i, up)
               /\ r.blocked <=> l.blocked \/ (~up /\ l.bound /\ s.state = "EXCHANGE")
  <1> DEFINE l == s.lif[i]
             b == IsolatedFromLif(s, i, up)
             l1 == [l EXCEPT !.isolated = b]
             l2 == PoInfo(l1, up)
             r == PoState(s, i, up)
  <1>0. l \in LocalIf
    BY DEF Switch
  <1>1. b \in BOOLEAN
    BY <1>0 DEF IsolatedFromLif, LocalIf
  <1> HIDE DEF l, b
  <1>2. /\ l1 \in LocalIf /\ l1.exists = l.exists /\ l1.bound = l.bound /\ l1.up = l.up
        /\ l1.sync = l.sync /\ l1.changed = l.changed /\ l1.active = l.active
        /\ l1.isolated = b /\ l1.blocked = l.blocked
    BY <1>0, <1>1 DEF LocalIf
  <1> HIDE DEF l1
  <1>3. /\ l2 \in LocalIf /\ l2.exists = l1.exists /\ l2.bound = l1.bound /\ l2.up = l1.up
        /\ l2.sync = l1.sync /\ l2.active = up /\ l2.isolated = l1.isolated
        /\ l2.blocked = l1.blocked
        /\ l2.changed <=> l1.changed \/ l1.active # up
    BY <1>2 DEF LocalIf, PoInfo
  <1> HIDE DEF l2
  <1>4. r = IF up THEN l2 ELSE TrafficDisabled(s, l2)
    BY DEF PoState, l, l1, l2, b
  <1>5. /\ r \in LocalIf /\ r.exists = l2.exists /\ r.bound = l2.bound /\ r.up = l2.up
        /\ r.sync = l2.sync /\ r.active = l2.active /\ r.isolated = l2.isolated
        /\ r.changed = l2.changed
        /\ r.blocked <=> l2.blocked \/ (~up /\ l2.bound /\ ~l2.active /\ s.state = "EXCHANGE")
    BY <1>3, <1>4 DEF LocalIf, TrafficDisabled
  <1> HIDE DEF r
  <1>6. /\ r \in LocalIf /\ r.exists = l.exists /\ r.bound = l.bound /\ r.up = l.up
        /\ r.sync = l.sync /\ r.active = up
    BY <1>2, <1>3, <1>5
  <1>7. /\ r.changed <=> l.changed \/ l.active # up
        /\ r.isolated <=> b
        /\ r.blocked <=> l.blocked \/ (~up /\ l.bound /\ s.state = "EXCHANGE")
    BY <1>2, <1>3, <1>5
  <1> QED BY <1>6, <1>7 DEF r, l, b

LEMMA ConnectedFields ==
    ASSUME NEW s \in Switch
    PROVE  LET r == Connected(s)
           IN  /\ r \in Switch /\ SameMembers(r, s)
               /\ r.state = s.state /\ r.wait = s.wait /\ r.need = s.need /\ r.pif = s.pif
               /\ \A i \in Po : r.lif[i] = IF s.lif[i].bound THEN PoState(s, i, s.lif[i].up)
                                                             ELSE s.lif[i]
  <1> DEFINE f == [i \in Po |-> IF s.lif[i].bound THEN PoState(s, i, s.lif[i].up)
                                                  ELSE s.lif[i]]
             r == Connected(s)
  <1>0. \A i \in Po : s.lif[i] \in LocalIf /\ s.lif[i].up \in BOOLEAN
    BY DEF Switch, LocalIf
  <1>1. f \in [Po -> LocalIf]
    BY <1>0, PoStateFields
  <1>2. \A i \in Po : f[i] = IF s.lif[i].bound THEN PoState(s, i, s.lif[i].up) ELSE s.lif[i]
    OBVIOUS
  <1>3. \A i \in Po : /\ f[i].exists = s.lif[i].exists /\ f[i].bound = s.lif[i].bound
                      /\ f[i].up = s.lif[i].up
    BY <1>0, <1>2, PoStateFields
  <1>4. r = [s EXCEPT !.lif = f]
    BY DEF Connected
  <1> HIDE DEF f
  <1>5. /\ r \in Switch /\ r.lif = f /\ r.purge = s.purge /\ r.bind = s.bind
        /\ r.state = s.state /\ r.wait = s.wait /\ r.need = s.need /\ r.pif = s.pif
    BY <1>1, <1>4 DEF Switch
  <1> HIDE DEF r
  <1> QED BY <1>2, <1>3, <1>5 DEF SameMembers, r

LEMMA AdvancedFields ==
    ASSUME NEW s \in Switch
    PROVE  LET r == Advanced(s)
           IN  /\ r \in Switch /\ SameMembers(r, s)
               /\ r.wait = s.wait /\ r.need = s.need /\ r.pif = s.pif
               /\ r.state = CASE s.state = "STAGE1" -> "STAGE2"
                              [] s.state = "STAGE2" -> "EXCHANGE"
                              [] OTHER -> "ERROR"
               /\ r.state # "EXCHANGE" => r.lif = s.lif
               /\ r.state = "EXCHANGE" =>
                     LET t == [s EXCEPT !.state = "EXCHANGE"]
                     IN  /\ t \in Switch /\ t.lif = s.lif /\ t.pif = s.pif
                         /\ t.state = "EXCHANGE"
                         /\ \A i \in Po : r.lif[i] = IF s.lif[i].bound
                                                     THEN PoState(t, i, s.lif[i].up)
                                                     ELSE s.lif[i]
  <1> DEFINE r == Advanced(s)
             t == [s EXCEPT !.state = "EXCHANGE"]
  <1>1. CASE s.state = "STAGE1"
    BY <1>1 DEF Advanced, Switch, State, SameMembers
  <1>2. CASE s.state = "STAGE2"
    <2>1. /\ t \in Switch /\ t.lif = s.lif /\ t.pif = s.pif /\ t.state = "EXCHANGE"
          /\ t.wait = s.wait /\ t.need = s.need /\ t.purge = s.purge /\ t.bind = s.bind
      BY DEF Switch, State
    <2>2. r = Connected(t)
      BY <1>2 DEF Advanced
    <2> HIDE DEF t, r
    <2>3. /\ r \in Switch /\ SameMembers(r, t)
          /\ r.state = "EXCHANGE" /\ r.wait = s.wait /\ r.need = s.need /\ r.pif = s.pif
          /\ \A i \in Po : r.lif[i] = IF s.lif[i].bound THEN PoState(t, i, s.lif[i].up)
                                                        ELSE s.lif[i]
      BY <2>1, <2>2, ConnectedFields
    <2>4. SameMembers(r, s)
      BY <2>1, <2>3 DEF SameMembers
    <2> QED BY <1>2, <2>1, <2>3, <2>4 DEF t, r
  <1>3. CASE s.state \notin {"STAGE1", "STAGE2"}
    BY <1>3 DEF Advanced, Switch, State, SameMembers
  <1> QED BY <1>1, <1>2, <1>3

LEMMA RequestedFields ==
    ASSUME NEW s \in Switch, NEW p
    PROVE  LET r == Requested(p, s)
           IN  /\ r \in Switch /\ SameMembers(r, s)
               /\ r.state = s.state /\ r.need = s.need /\ r.pif = s.pif /\ r.lif = s.lif
               /\ r.wait <=> s.wait \/ MustRequest(p, s)
  <1>1. CASE MustRequest(p, s)
    BY <1>1 DEF Requested, Switch, SameMembers
  <1>2. CASE ~MustRequest(p, s)
    BY <1>2 DEF Requested, SameMembers
  <1> QED BY <1>1, <1>2

LEMMA StartedFields ==
    ASSUME NEW s \in Switch
    PROVE  LET r == Started(s)
           IN  /\ r \in Switch /\ SameMembers(r, s)
               /\ r.need = s.need /\ r.pif = s.pif /\ r.lif = s.lif
               /\ r.state = IF s.state = "INIT" THEN "STAGE1" ELSE s.state
               /\ r.wait <=> s.wait /\ s.state # "INIT"
  <1>1. CASE s.state = "INIT"
    BY <1>1 DEF Started, Switch, State, SameMembers
  <1>2. CASE s.state # "INIT"
    BY <1>2 DEF Started, Switch, SameMembers
  <1> QED BY <1>1, <1>2

LEMMA MarkedFields ==
    ASSUME NEW s \in Switch
    PROVE  LET f == Marked(s)
           IN  /\ f \in [Po -> LocalIf]
               /\ \A i \in Po :
                     LET k == f[i]
                         l == s.lif[i]
                     IN  /\ k.exists = l.exists /\ k.bound = l.bound /\ k.up = l.up
                         /\ k.active = l.active /\ k.blocked = l.blocked
                         /\ k.isolated = l.isolated
                         /\ k.sync <=> l.sync /\ ~l.bound
                         /\ k.changed <=> l.changed /\ ~l.bound
  <1> DEFINE f == Marked(s)
  <1>0. \A i \in Po : s.lif[i] \in LocalIf
    BY DEF Switch
  <1>1. f = [i \in Po |-> IF s.lif[i].bound
                          THEN [s.lif[i] EXCEPT !.sync = FALSE, !.changed = FALSE]
                          ELSE s.lif[i]]
    BY DEF Marked
  <1> HIDE DEF f
  <1>2. ASSUME NEW i \in Po
        PROVE  LET k == f[i]
                   l == s.lif[i]
               IN  /\ k \in LocalIf
                   /\ k.exists = l.exists /\ k.bound = l.bound /\ k.up = l.up
                   /\ k.active = l.active /\ k.blocked = l.blocked
                   /\ k.isolated = l.isolated
                   /\ k.sync <=> l.sync /\ ~l.bound
                   /\ k.changed <=> l.changed /\ ~l.bound
    <2> DEFINE k == f[i]
               l == s.lif[i]
    <2>1. l \in LocalIf /\ k = IF l.bound THEN [l EXCEPT !.sync = FALSE, !.changed = FALSE] ELSE l
      BY <1>0, <1>1
    <2> HIDE DEF k, l
    <2>2. /\ k \in LocalIf
          /\ k.exists = l.exists /\ k.bound = l.bound /\ k.up = l.up
          /\ k.active = l.active /\ k.blocked = l.blocked /\ k.isolated = l.isolated
      BY <2>1 DEF LocalIf
    <2>3. (k.sync <=> l.sync /\ ~l.bound) /\ (k.changed <=> l.changed /\ ~l.bound)
      BY <2>1 DEF LocalIf
    <2> QED BY <2>2, <2>3 DEF k, l
  <1>3. f \in [Po -> LocalIf]
    BY <1>1, <1>2
  <1> QED BY <1>2, <1>3 DEF f

LEMMA SentAllFields ==
    ASSUME NEW s \in Switch
    PROVE  LET r == SentAll(s)
           IN  /\ r \in Switch /\ SameMembers(r, s)
               /\ ~r.wait /\ r.need = s.need /\ r.pif = s.pif
               /\ r.state = CASE s.state = "STAGE1" -> "STAGE2"
                              [] s.state = "STAGE2" -> "EXCHANGE"
                              [] OTHER -> "ERROR"
               /\ \A i \in Po : ~s.lif[i].bound => r.lif[i] = s.lif[i]
               /\ \A i \in Po : s.lif[i].bound =>
                     LET k == r.lif[i]
                         l == s.lif[i]
                     IN  /\ ~k.sync
                         /\ k.active = IF r.state = "EXCHANGE" THEN l.up ELSE l.active
                         /\ k.changed <=> r.state = "EXCHANGE" /\ l.active # l.up
                         /\ k.blocked <=> l.blocked \/ (r.state = "EXCHANGE" /\ ~l.up)
                         /\ k.isolated <=> IF r.state = "EXCHANGE" /\ l.up
                                           THEN s.pif[i] # "down" ELSE l.isolated
  <1> DEFINE f == Marked(s)
             u == [s EXCEPT !.wait = FALSE, !.lif = f]
             r == SentAll(s)
             t == [u EXCEPT !.state = "EXCHANGE"]
  <1>0. \A i \in Po : s.lif[i] \in LocalIf
    BY DEF Switch
  <1>1. f \in [Po -> LocalIf]
    BY MarkedFields
  <1>2. \A i \in Po : f[i] \in LocalIf /\ (~s.lif[i].bound => f[i] = s.lif[i])
    BY <1>1 DEF Marked
  <1>3. \A i \in Po :
          LET k == f[i]
              l == s.lif[i]
          IN  /\ k.exists = l.exists /\ k.bound = l.bound /\ k.up = l.up
              /\ k.active = l.active /\ k.blocked = l.blocked
              /\ k.isolated = l.isolated
              /\ k.sync <=> l.sync /\ ~l.bound
              /\ k.changed <=> l.changed /\ ~l.bound
    BY MarkedFields
  <1>4. r = Advanced(u)
    BY DEF SentAll
  <1> HIDE DEF f
  <1>5. /\ u \in Switch /\ ~u.wait /\ u.lif = f /\ u.state = s.state /\ u.need = s.need
        /\ u.pif = s.pif /\ u.purge = s.purge /\ u.bind = s.bind
    BY <1>1 DEF Switch
  <1> HIDE DEF u, r
  <1>6. /\ r \in Switch /\ SameMembers(r, u)
        /\ r.wait = u.wait /\ r.need = u.need /\ r.pif = u.pif
        /\ r.state = CASE u.state = "STAGE1" -> "STAGE2"
                       [] u.state = "STAGE2" -> "EXCHANGE"
                       [] OTHER -> "ERROR"
    BY <1>4, <1>5, AdvancedFields
  <1>7. SameMembers(r, s)
    BY <1>3, <1>5, <1>6 DEF SameMembers
  <1>8. CASE r.state # "EXCHANGE"
    <2>1. r.lif = f
      BY <1>4, <1>5, <1>8, AdvancedFields
    <2> QED BY <1>2, <1>3, <1>5, <1>6, <1>7, <1>8, <2>1 DEF r
  <1>9. CASE r.state = "EXCHANGE"
    <2>1. /\ t \in Switch /\ t.lif = f /\ t.pif = s.pif /\ t.state = "EXCHANGE"
          /\ \A i \in Po : r.lif[i] = IF f[i].bound THEN PoState(t, i, f[i].up) ELSE f[i]
      BY <1>4, <1>5, <1>9, AdvancedFields
    <2> HIDE DEF t
    <2>2. \A i \in Po : ~s.lif[i].bound => r.lif[i] = s.lif[i]
      BY <1>2, <1>3, <2>1
    <2>3. ASSUME NEW i \in Po, s.lif[i].bound
          PROVE  LET k == r.lif[i]
                     l == s.lif[i]
                 IN  /\ ~k.sync /\ k.active = l.up
                     /\ k.changed <=> l.active # l.up
                     /\ k.blocked <=> l.blocked \/ ~l.up
                     /\ k.isolated <=> IF l.up THEN s.pif[i] # "down" ELSE l.isolated
      <3>1. /\ f[i].bound /\ ~f[i].sync /\ f[i].up = s.lif[i].up /\ ~f[i].changed
            /\ f[i].active = s.lif[i].active /\ f[i].isolated = s.lif[i].isolated
            /\ f[i].blocked = s.lif[i].blocked /\ f[i].up \in BOOLEAN
        BY <1>0, <1>2, <1>3, <2>3 DEF LocalIf
      <3>2. r.lif[i] = PoState(t, i, f[i].up)
        BY <2>1, <3>1
      <3>3. LET k == PoState(t, i, f[i].up)
            IN  /\ ~k.sync /\ k.active = f[i].up
                /\ k.changed <=> f[i].active # f[i].up
                /\ k.isolated <=> IsolatedFromLif(t, i, f[i].up)
                /\ k.blocked <=> f[i].blocked \/ (~f[i].up /\ f[i].bound /\ t.state = "EXCHANGE")
        BY <2>1, <3>1, PoStateFields
      <3>4. IsolatedFromLif(t, i, f[i].up) = IF f[i].up THEN s.pif[i] # "down" ELSE f[i].isolated
        BY <2>1 DEF IsolatedFromLif
      <3> QED BY <2>1, <3>1, <3>2, <3>3, <3>4
    <2> QED BY <1>5, <1>6, <1>7, <1>9, <2>2, <2>3 DEF r
  <1> QED BY <1>8, <1>9

(* k and l differ in the isolation only. *)
SameButIsolated(k, l) ==
    /\ k.exists = l.exists /\ k.bound = l.bound /\ k.up = l.up /\ k.active = l.active
    /\ k.sync = l.sync /\ k.changed = l.changed /\ k.blocked = l.blocked

(* r and s differ in what is known of i and in its isolation only. *)
SameBut(r, s, i) ==
    /\ r.state = s.state /\ r.wait = s.wait /\ r.purge = s.purge /\ r.bind = s.bind
    /\ r.need = s.need
    /\ SameButIsolated(r.lif[i], s.lif[i])
    /\ \A j \in Po : j # i => r.lif[j] = s.lif[j] /\ r.pif[j] = s.pif[j]

(* The isolation and the knowledge of i replaced. *)
WithPif(s, i, b, v) == [s EXCEPT !.lif[i].isolated = b, !.pif[i] = v]

LEMMA PifChange ==
    ASSUME NEW s \in Switch, NEW i \in Po, NEW b \in BOOLEAN, NEW v \in PeerIf
    PROVE  LET r == WithPif(s, i, b, v)
           IN  r \in Switch /\ SameBut(r, s, i) /\ r.lif[i].isolated = b /\ r.pif[i] = v
  <1> DEFINE l == [s.lif[i] EXCEPT !.isolated = b]
             r == [s EXCEPT !.lif[i] = l, !.pif[i] = v]
  <1>0. s.lif[i] \in LocalIf /\ s.lif \in [Po -> LocalIf] /\ s.pif \in [Po -> PeerIf]
    BY DEF Switch
  <1>1. l \in LocalIf /\ SameButIsolated(l, s.lif[i]) /\ l.isolated = b
    BY <1>0 DEF LocalIf, SameButIsolated
  <1>2. r = WithPif(s, i, b, v)
    BY <1>0 DEF Switch, WithPif
  <1> HIDE DEF l
  <1>3. /\ r \in Switch /\ r.state = s.state /\ r.wait = s.wait /\ r.purge = s.purge
        /\ r.bind = s.bind /\ r.need = s.need
        /\ r.lif = [s.lif EXCEPT ![i] = l] /\ r.pif = [s.pif EXCEPT ![i] = v]
    BY <1>0, <1>1 DEF Switch
  <1> HIDE DEF r
  <1>4. /\ r.lif[i] = l /\ r.pif[i] = v
        /\ \A j \in Po : j # i => r.lif[j] = s.lif[j] /\ r.pif[j] = s.pif[j]
    BY <1>0, <1>3
  <1> QED BY <1>1, <1>2, <1>3, <1>4 DEF SameBut, r

(* Only an interface that is in the domain and up, in EXCHANGE, has its      *)
(* isolation follow what is known of the peer's.                             *)
Follows(s, i) == s.state = "EXCHANGE" /\ s.lif[i].bound /\ s.lif[i].active

IsolationKept(r, s, i) ==
    /\ ~Follows(s, i) => r.lif[i].isolated = s.lif[i].isolated
    /\ Follows(s, i) /\ (s.lif[i].isolated <=> s.pif[i] # "down") =>
          (r.lif[i].isolated <=> r.pif[i] # "down")

LEMMA AggConfFields ==
    ASSUME NEW s \in Switch, NEW i \in Po
    PROVE  LET r == AggConf(s, i)
           IN  /\ r \in Switch /\ SameBut(r, s, i) /\ IsolationKept(r, s, i)
               /\ r.pif[i] = IF s.pif[i] = "none" THEN "up" ELSE s.pif[i]
  <1> DEFINE new == s.pif[i] = "none"
             up == new \/ s.pif[i] = "up"
             b == IsolatedFromPif(s, i, up, new)
             v == UpDown(up)
             r == AggConf(s, i)
  <1>1. s.pif[i] \in PeerIf /\ s.lif[i] \in LocalIf /\ v \in PeerIf
    BY DEF Switch, UpDown, PeerIf
  <1>2. b \in BOOLEAN
    BY <1>1 DEF IsolatedFromPif, LocalIf
  <1>3. v = IF s.pif[i] = "none" THEN "up" ELSE s.pif[i]
    BY <1>1 DEF UpDown, PeerIf
  <1>4. /\ ~Follows(s, i) => b = s.lif[i].isolated
        /\ Follows(s, i) /\ (s.lif[i].isolated <=> s.pif[i] # "down") => (b <=> v # "down")
    BY <1>1 DEF UpDown, PeerIf, IsolatedFromPif, Follows
  <1>5. r = WithPif(s, i, b, v)
    BY DEF AggConf, WithPif
  <1> HIDE DEF b, v, r
  <1>6. r \in Switch /\ SameBut(r, s, i) /\ r.lif[i].isolated = b /\ r.pif[i] = v
    BY <1>1, <1>2, <1>5, PifChange
  <1> QED BY <1>3, <1>4, <1>6 DEF r, IsolationKept

LEMMA AggStateFields ==
    ASSUME NEW s \in Switch, NEW i \in Po, NEW up \in BOOLEAN
    PROVE  LET r == AggState(s, i, up)
           IN  /\ r \in Switch /\ SameBut(r, s, i) /\ IsolationKept(r, s, i)
               /\ r.pif[i] = IF s.pif[i] = "none" THEN "none" ELSE UpDown(up)
  <1> DEFINE b == IsolatedFromPif(s, i, up, FALSE)
             v == UpDown(up)
             r == AggState(s, i, up)
  <1>1. s.pif[i] \in PeerIf /\ s.lif[i] \in LocalIf /\ v \in PeerIf
    BY DEF Switch, UpDown, PeerIf
  <1>2. CASE s.pif[i] = "none"
    BY <1>2 DEF AggState, SameBut, SameButIsolated, IsolationKept
  <1>3. CASE s.pif[i] # "none"
    <2>2. b \in BOOLEAN
      BY <1>1 DEF IsolatedFromPif, LocalIf
    <2>4. /\ ~Follows(s, i) => b = s.lif[i].isolated
          /\ Follows(s, i) /\ (s.lif[i].isolated <=> s.pif[i] # "down") => (b <=> v # "down")
      BY <1>1, <1>3 DEF UpDown, PeerIf, IsolatedFromPif, Follows
    <2>5. r = WithPif(s, i, b, v)
      BY <1>3 DEF AggState, WithPif
    <2> HIDE DEF b, v, r
    <2>6. r \in Switch /\ SameBut(r, s, i) /\ r.lif[i].isolated = b /\ r.pif[i] = v
      BY <1>1, <2>2, <2>5, PifChange
    <2> QED BY <1>3, <2>4, <2>6 DEF r, v, IsolationKept
  <1> QED BY <1>2, <1>3

LEMMA AggPurgeFields ==
    ASSUME NEW s \in Switch, NEW i \in Po
    PROVE  LET r == AggPurge(s, i)
           IN  /\ r \in Switch /\ SameMembers(r, s)
               /\ r.state = s.state /\ r.wait = s.wait /\ r.lif = s.lif
  <1>1. CASE s.pif[i] = "none"
    BY <1>1 DEF AggPurge, Switch, SameMembers
  <1>2. CASE s.pif[i] # "none"
    BY <1>2 DEF AggPurge, Switch, SameMembers, PeerIf
  <1> QED BY <1>1, <1>2

LEMMA AckedFields ==
    ASSUME NEW s \in Switch, NEW i \in Po
    PROVE  LET r == Acked(s, i)
           IN  /\ r \in Switch /\ SameMembers(r, s)
               /\ r.state = s.state /\ r.wait = s.wait /\ r.need = s.need /\ r.pif = s.pif
               /\ \A j \in Po : j # i => r.lif[j] = s.lif[j]
               /\ r.lif[i] = IF s.lif[i].active THEN TrafficEnabled(s.lif[i]) ELSE s.lif[i]
  <1> DEFINE l == TrafficEnabled(s.lif[i])
             r == Acked(s, i)
  <1>0. s.lif[i] \in LocalIf
    BY DEF Switch
  <1>1. CASE s.lif[i].active
    <2>1. l \in LocalIf /\ l.exists = s.lif[i].exists /\ l.bound = s.lif[i].bound /\ l.up = s.lif[i].up
      BY <1>0 DEF TrafficEnabled, LocalIf
    <2>2. r = [s EXCEPT !.lif[i] = l]
      BY <1>1 DEF Acked, Switch
    <2> HIDE DEF l, r
    <2>3. /\ r \in Switch /\ r.state = s.state /\ r.wait = s.wait /\ r.need = s.need
          /\ r.pif = s.pif /\ r.purge = s.purge /\ r.bind = s.bind
          /\ r.lif[i] = l /\ \A j \in Po : j # i => r.lif[j] = s.lif[j]
      BY <2>1, <2>2 DEF Switch
    <2> QED BY <1>1, <2>1, <2>3 DEF r, l, SameMembers
  <1>2. CASE ~s.lif[i].active
    BY <1>2 DEF Acked, SameMembers
  <1> QED BY <1>1, <1>2

(* What is known after a list of all interfaces. *)
LEMMA LearnedFields ==
    ASSUME NEW s \in Switch, NEW po \in [Po -> PeerIf]
    PROVE  LET r == Learned(s, po)
           IN  /\ r \in Switch /\ SameMembers(r, s)
               /\ r.state = s.state /\ ~r.wait /\ r.need = s.need
               /\ \A i \in Po : /\ SameButIsolated(r.lif[i], s.lif[i])
                                /\ IsolationKept(r, s, i)
                                /\ r.pif[i] = IF po[i] = "none" THEN s.pif[i] ELSE po[i]
  <1> DEFINE t(i) == IF po[i] = "none" THEN s ELSE AggState(AggConf(s, i), i, po[i] = "up")
             r == Learned(s, po)
             f == [i \in Po |-> t(i).lif[i]]
             g == [i \in Po |-> t(i).pif[i]]
  <1>1. ASSUME NEW i \in Po
        PROVE  /\ t(i) \in Switch /\ SameButIsolated(t(i).lif[i], s.lif[i])
               /\ IsolationKept(t(i), s, i)
               /\ t(i).pif[i] = IF po[i] = "none" THEN s.pif[i] ELSE po[i]
    <2>1. CASE po[i] = "none"
      BY <2>1 DEF SameButIsolated, IsolationKept
    <2>2. CASE po[i] # "none"
      <3> DEFINE c == AggConf(s, i)
                 up == po[i] = "up"
                 d == AggState(c, i, up)
      <3>1. /\ c \in Switch /\ SameBut(c, s, i) /\ IsolationKept(c, s, i) /\ c.pif[i] # "none"
        BY AggConfFields
      <3> HIDE DEF c
      <3>2. /\ d \in Switch /\ SameBut(d, c, i) /\ IsolationKept(d, c, i) /\ d.pif[i] = UpDown(up)
        BY <3>1, AggStateFields
      <3>3. t(i) = d
        BY <2>2 DEF c
      <3> HIDE DEF d, t
      <3>4. SameButIsolated(t(i).lif[i], s.lif[i])
        BY <3>1, <3>2, <3>3 DEF SameBut, SameButIsolated
      <3>5. IsolationKept(t(i), s, i)
        <4>1. Follows(c, i) <=> Follows(s, i)
          BY <3>1 DEF Follows, SameBut, SameButIsolated
        <4> QED BY <3>1, <3>2, <3>3, <4>1 DEF IsolationKept
      <3>6. UpDown(up) = po[i]
        BY <2>2 DEF UpDown, PeerIf
      <3> QED BY <2>2, <3>2, <3>3, <3>4, <3>5, <3>6
    <2> QED BY <2>1, <2>2
  <1>2. r = [s EXCEPT !.wait = FALSE, !.pif = g, !.lif = f]
    BY DEF Learned
  <1>3. f \in [Po -> LocalIf] /\ g \in [Po -> PeerIf]
    <2>1. \A i \in Po : t(i).lif[i] \in LocalIf /\ t(i).pif[i] \in PeerIf
      BY <1>1 DEF Switch
    <2> HIDE DEF t
    <2> QED BY <2>1
  <1>4. \A i \in Po : f[i] = t(i).lif[i] /\ g[i] = t(i).pif[i]
    OBVIOUS
  <1> HIDE DEF f, g, t
  <1>5. /\ r \in Switch /\ r.state = s.state /\ ~r.wait /\ r.need = s.need /\ r.purge = s.purge
        /\ r.bind = s.bind /\ r.pif = g /\ r.lif = f
    BY <1>2, <1>3 DEF Switch
  <1> HIDE DEF r
  <1>6. \A i \in Po : /\ SameButIsolated(r.lif[i], s.lif[i])
                      /\ IsolationKept(r, s, i)
                      /\ r.pif[i] = IF po[i] = "none" THEN s.pif[i] ELSE po[i]
    BY <1>1, <1>4, <1>5 DEF IsolationKept
  <1>7. SameMembers(r, s)
    BY <1>5, <1>6 DEF SameMembers, SameButIsolated
  <1> QED BY <1>5, <1>6, <1>7 DEF r

LEMMA MsgCases ==
    ASSUME NEW m \in Msg
    PROVE  \/ m.type = "SYNC_REQ"
           \/ m.type = "INFO" /\ m.po \in [Po -> PeerIf]
           \/ m.type \in {"CONF", "PURGE", "ACK"} /\ m.po \in Po
           \/ m.type = "STATE" /\ m.po \in Po /\ m.up \in BOOLEAN
  BY DEF Msg

LEMMA ReceivedFields ==
    ASSUME NEW s \in Switch, NEW m \in Msg
    PROVE  LET r == Received(s, m)
           IN  /\ r \in Switch /\ SameMembers(r, s)
               /\ r.state = IF m.type # "SYNC_REQ" THEN s.state
                            ELSE CASE s.state = "STAGE1" -> "STAGE2"
                                   [] s.state = "STAGE2" -> "EXCHANGE"
                                   [] OTHER -> "ERROR"
               /\ r.wait <=> s.wait /\ m.type \notin {"SYNC_REQ", "INFO"}
  <1> DEFINE r == Received(s, m)
  <1>1. CASE m.type = "SYNC_REQ"
    <2>1. r = SentAll(s)
      BY <1>1 DEF Received
    <2> HIDE DEF r
    <2> QED BY <1>1, <2>1, SentAllFields DEF r
  <1>2. CASE m.type = "INFO" /\ m.po \in [Po -> PeerIf]
    <2>1. r = Learned(s, m.po)
      BY <1>2 DEF Received
    <2> HIDE DEF r
    <2>2. r \in Switch /\ SameMembers(r, s) /\ r.state = s.state /\ ~r.wait
      BY <1>2, <2>1, LearnedFields
    <2> QED BY <1>2, <2>2 DEF r
  <1>3. CASE m.type = "CONF" /\ m.po \in Po
    <2>1. r = AggConf(s, m.po)
      BY <1>3 DEF Received
    <2> HIDE DEF r
    <2>2. r \in Switch /\ SameBut(r, s, m.po)
      BY <1>3, <2>1, AggConfFields
    <2> QED BY <1>3, <2>2 DEF r, SameBut, SameButIsolated, SameMembers, Switch
  <1>4. CASE m.type = "PURGE" /\ m.po \in Po
    <2>1. r = AggPurge(s, m.po)
      BY <1>4 DEF Received
    <2> HIDE DEF r
    <2>2. r \in Switch /\ SameMembers(r, s) /\ r.state = s.state /\ r.wait = s.wait
      BY <1>4, <2>1, AggPurgeFields
    <2> QED BY <1>4, <2>2 DEF r
  <1>5. CASE m.type = "STATE" /\ m.po \in Po /\ m.up \in BOOLEAN
    <2>1. r = AggState(s, m.po, m.up)
      BY <1>5 DEF Received
    <2> HIDE DEF r
    <2>2. r \in Switch /\ SameBut(r, s, m.po)
      BY <1>5, <2>1, AggStateFields
    <2> QED BY <1>5, <2>2 DEF r, SameBut, SameButIsolated, SameMembers, Switch
  <1>6. CASE m.type = "ACK" /\ m.po \in Po
    <2>1. r = Acked(s, m.po)
      BY <1>6 DEF Received
    <2> HIDE DEF r
    <2>2. r \in Switch /\ SameMembers(r, s) /\ r.state = s.state /\ r.wait = s.wait
      BY <1>6, <2>1, AckedFields
    <2> QED BY <1>6, <2>2 DEF r
  <1> QED BY <1>1, <1>2, <1>3, <1>4, <1>5, <1>6, MsgCases

(* A pass leaves the members and the purges alone, and EXCHANGE only for     *)
(* ERROR.                                                                    *)
LEMMA HandledFields ==
    ASSUME NEW s \in Switch, NEW m \in Msg, NEW p
    PROVE  LET r == Handled(p, s, m)
           IN  /\ r \in Switch /\ SameMembers(r, s)
               /\ s.state \in {"EXCHANGE", "ERROR"} => r.state \in {"EXCHANGE", "ERROR"}
               /\ s.state = "INIT" => r = s
  <1> DEFINE r == Handled(p, s, m)
  <1>0. SameMembers(s, s)
    BY DEF SameMembers
  <1>1. CASE Sender(p, s)
    <2>2. s.state \in {"STAGE1", "STAGE2"} /\ ~Requester(p, s)
      BY <1>1 DEF Sender
    <2>1. r = SentAll(s) \/ r = s
      BY <1>1, <2>2 DEF Handled
    <2> HIDE DEF r
    <2> QED BY <1>0, <2>1, <2>2, SentAllFields DEF r
  <1>2. CASE Requester(p, s)
    <2> DEFINE w == [s EXCEPT !.wait = TRUE]
               d == Received(s, m)
    <2>1. ~Sender(p, s) /\ s.state \in {"STAGE1", "STAGE2"}
      BY <1>2 DEF Sender, Requester
    <2>2. r = w \/ r = d \/ r = Advanced(d)
      BY <1>2, <2>1 DEF Handled
    <2>3. w \in Switch /\ SameMembers(w, s)
      BY DEF Switch, SameMembers
    <2>4. d \in Switch /\ SameMembers(d, s)
      BY ReceivedFields
    <2> HIDE DEF w, d, r
    <2>5. Advanced(d) \in Switch /\ SameMembers(Advanced(d), d)
      BY <2>4, AdvancedFields
    <2>6. SameMembers(Advanced(d), s)
      BY <2>4, <2>5 DEF SameMembers
    <2> QED BY <2>1, <2>2, <2>3, <2>4, <2>5, <2>6 DEF r
  <1>3. CASE s.state = "EXCHANGE"
    <2>1. r = Received(s, m)
      BY <1>3 DEF Handled, Sender, Requester
    <2> HIDE DEF r
    <2> QED BY <1>3, <2>1, ReceivedFields DEF r
  <1>4. CASE ~Sender(p, s) /\ ~Requester(p, s) /\ s.state # "EXCHANGE"
    <2>1. r = s
      BY <1>4 DEF Handled
    <2> QED BY <1>0, <1>4, <2>1
  <1> QED BY <1>1, <1>2, <1>3, <1>4

(* The traffic of a flushed interface. *)
PurgeOf(s, i) == \E k \in DOMAIN s.purge : s.purge[k] = [po |-> i, gone |-> FALSE]

FlushedTraffic(s, i) ==
    CASE PurgeOf(s, i) -> TrafficEnabled(s.lif[i])
      [] s.lif[i].bound /\ s.lif[i].sync -> TrafficDisabled(s, s.lif[i])
      [] OTHER -> s.lif[i]

LEMMA FlushedFields ==
    ASSUME NEW s \in Switch
    PROVE  LET r == Flushed(s)
           IN  /\ r \in Switch /\ r.state = s.state /\ r.wait = s.wait /\ r.pif = s.pif
               /\ r.bind = s.bind /\ ~r.need /\ r.purge = <<>>
               /\ \A i \in Po :
                     LET k == r.lif[i]
                         l == s.lif[i]
                     IN  /\ k.exists = l.exists /\ k.bound = l.bound /\ k.up = l.up
                         /\ k.active = l.active /\ k.isolated = l.isolated
                         /\ k.sync <=> l.sync /\ ~l.bound
                         /\ k.changed <=> l.changed /\ ~l.bound
                         /\ k.blocked = FlushedTraffic(s, i).blocked
  <1> DEFINE g == [i \in Po |-> FlushedTraffic(s, i)]
             u == [s EXCEPT !.lif = g]
             f == Marked(u)
             r == Flushed(s)
  <1>0. \A i \in Po : s.lif[i] \in LocalIf
    BY DEF Switch
  <1>1. ASSUME NEW i \in Po
        PROVE  LET k == FlushedTraffic(s, i)
                   l == s.lif[i]
               IN  /\ k \in LocalIf
                   /\ k.exists = l.exists /\ k.bound = l.bound /\ k.up = l.up
                   /\ k.active = l.active /\ k.isolated = l.isolated
                   /\ k.sync = l.sync /\ k.changed = l.changed
    <2> DEFINE k == FlushedTraffic(s, i)
               l == s.lif[i]
    <2>1. k = TrafficEnabled(l) \/ k = TrafficDisabled(s, l) \/ k = l
      BY DEF FlushedTraffic
    <2>2. l \in LocalIf
      BY <1>0
    <2> HIDE DEF k, l
    <2> QED BY <2>1, <2>2 DEF TrafficEnabled, TrafficDisabled, LocalIf, k, l
  <1>2. r = [s EXCEPT !.need = FALSE, !.purge = <<>>, !.lif = f]
    BY DEF Flushed, FlushedTraffic, PurgeOf
  <1>3. g \in [Po -> LocalIf] /\ \A i \in Po : g[i] = FlushedTraffic(s, i)
    BY <1>1
  <1> HIDE DEF g
  <1>4. u \in Switch /\ u.lif = g
    BY <1>3 DEF Switch
  <1> HIDE DEF u
  <1>5. f \in [Po -> LocalIf]
    BY <1>4, MarkedFields
  <1>6. \A i \in Po :
           LET k == f[i]
               l == u.lif[i]
           IN  /\ k.exists = l.exists /\ k.bound = l.bound /\ k.up = l.up
               /\ k.active = l.active /\ k.blocked = l.blocked
               /\ k.isolated = l.isolated
               /\ k.sync <=> l.sync /\ ~l.bound
               /\ k.changed <=> l.changed /\ ~l.bound
    BY <1>4, MarkedFields
  <1> HIDE DEF f
  <1>7. /\ r \in Switch /\ r.state = s.state /\ r.wait = s.wait /\ r.pif = s.pif
        /\ r.bind = s.bind /\ ~r.need /\ r.purge = <<>> /\ r.lif = f
    <2> DEFINE Purges == Seq(Purged)
    <2>1. <<>> \in Purges
      OBVIOUS
    <2>2. Switch = [state : State, wait : BOOLEAN, need : BOOLEAN, lif : [Po -> LocalIf],
                    pif : [Po -> PeerIf], purge : Purges, bind : SUBSET Po]
      BY DEF Switch
    <2> HIDE DEF Purges
    <2> QED BY <1>2, <1>5, <2>1, <2>2
  <1> HIDE DEF r
  <1> QED BY <1>1, <1>3, <1>4, <1>6, <1>7 DEF r

-----------------------------------------------------------------------------
(* What a turn sends. *)

AckOf(i) == [type |-> "ACK", po |-> i]

LEMMA PoFinite == IsFiniteSet(Po)
  BY BoundAssumption, FS_Interval DEF Po

(* The messages of the model are messages. *)
LEMMA InfoType ==
    ASSUME NEW s \in Switch
    PROVE  Info(s) \in Msg
  <1>1. [j \in Po |-> IF s.lif[j].bound THEN UpDown(s.lif[j].up) ELSE "none"] \in [Po -> PeerIf]
    BY DEF UpDown, PeerIf
  <1> QED BY <1>1 DEF Info, Msg

LEMMA MsgTypes ==
    ASSUME NEW s \in Switch, NEW i \in Po
    PROVE  /\ [type |-> "SYNC_REQ"] \in Msg /\ AckOf(i) \in Msg
           /\ AggportConfig(i) \in Msg /\ AggportPurge(i) \in Msg /\ AggportState(s, i) \in Msg
  <1>1. s.lif[i].up \in BOOLEAN
    BY DEF Switch, LocalIf
  <1> QED BY <1>1 DEF Msg, AckOf, AggportConfig, AggportPurge, AggportState

(* Acknowledgements are sent in EXCHANGE only, one for each interface the    *)
(* message says is up.                                                       *)
LEMMA AcksAre ==
    ASSUME NEW s \in Switch, NEW m \in Msg
    PROVE  /\ IsFiniteSet(Acks(s, m))
           /\ \A x \in Acks(s, m) : \E i \in Po : x = AckOf(i)
           /\ s.state # "EXCHANGE" => Acks(s, m) = {}
           /\ s.state = "EXCHANGE" =>
                 \A i \in Po : m = [type |-> "STATE", po |-> i, up |-> TRUE] => AckOf(i) \in Acks(s, m)
  <1> DEFINE A == Acks(s, m)
             T == {i \in Po : AckOf(i) \in A}
             f == [i \in T |-> AckOf(i)]
  <1>1. \A x \in A : \E i \in Po : x = AckOf(i)
    BY MsgCases DEF Acks, AckOf
  <1>2. s.state # "EXCHANGE" => A = {}
    BY DEF Acks
  <1>3. ASSUME s.state = "EXCHANGE", NEW i \in Po, m = [type |-> "STATE", po |-> i, up |-> TRUE]
        PROVE  AckOf(i) \in A
    <2>1. m.type = "STATE" /\ m.po = i /\ m.up
      BY <1>3
    <2>2. A = {[type |-> "ACK", po |-> k] : k \in {m.po} \cap {j \in Po : m.up}}
      BY <1>3, <2>1 DEF Acks
    <2>3. i \in {m.po} \cap {j \in Po : m.up}
      BY <2>1
    <2> QED BY <2>2, <2>3 DEF AckOf
  <1> HIDE DEF A
  <1>4. f \in Surjection(T, A)
    BY <1>1 DEF Surjection
  <1>5. IsFiniteSet(T)
    BY PoFinite, FS_Subset
  <1>6. IsFiniteSet(A)
    BY <1>4, <1>5, FS_Surjection
  <1> QED BY <1>1, <1>2, <1>3, <1>6 DEF A

LEMMA NoElements ==
    ASSUME NEW a \in SetToSeqs({})
    PROVE  a = <<>>
  <1>1. Cardinality({}) = 0
    BY FS_EmptySet
  <1> QED BY <1>1 DEF SetToSeqs

LEMMA UpdatesAre ==
    ASSUME NEW s \in Switch, NEW i \in Po
    PROVE  LET u == Updates(s, i)
               l == s.lif[i]
           IN  /\ u \in Seq(Msg)
               /\ \A n \in 1..Len(u) :
                     \/ u[n] = AggportConfig(i) /\ l.bound /\ l.sync
                     \/ u[n] = AggportState(s, i) /\ l.bound /\ l.changed
                           /\ (l.sync => n = 2 /\ u[1] = AggportConfig(i))
               /\ l.bound /\ l.sync => 1 \in 1..Len(u) /\ u[1] = AggportConfig(i)
               /\ l.bound /\ l.changed => \E n \in 1..Len(u) : u[n] = AggportState(s, i)
  <1> DEFINE u == Updates(s, i)
             l == s.lif[i]
             x == AggportConfig(i)
             y == AggportState(s, i)
  <1>0. x \in Msg /\ y \in Msg /\ l.bound \in BOOLEAN /\ l.sync \in BOOLEAN /\ l.changed \in BOOLEAN
    BY MsgTypes DEF Switch, LocalIf
  <1>1. u = IF ~l.bound THEN <<>>
            ELSE (IF l.sync THEN <<x>> ELSE <<>>) \o (IF l.changed THEN <<y>> ELSE <<>>)
    BY DEF Updates
  <1> HIDE DEF u, l, x, y
  <1>2. <<>> \o <<>> = <<>> /\ <<x>> \o <<>> = <<x>> /\ <<>> \o <<y>> = <<y>>
    <2>1. <<x>> \in Seq(Msg) /\ <<y>> \in Seq(Msg) /\ <<>> \in Seq(Msg)
      BY <1>0
    <2> QED BY <2>1, ConcatEmptySeq
  <1>3. CASE ~l.bound \/ (~l.sync /\ ~l.changed)
    <2>1. u = <<>>
      BY <1>1, <1>2, <1>3
    <2> QED BY <1>3, <2>1 DEF u, l, x, y
  <1>4. CASE l.bound /\ l.sync /\ l.changed
    <2>1. u = <<x>> \o <<y>>
      BY <1>1, <1>4
    <2>2. u \in Seq(Msg) /\ Len(u) = 2 /\ u[1] = x /\ u[2] = y
      BY <1>0, <2>1
    <2> QED BY <1>4, <2>2 DEF u, l, x, y
  <1>5. CASE l.bound /\ l.sync /\ ~l.changed
    <2>1. u = <<x>>
      BY <1>1, <1>2, <1>5
    <2>2. u \in Seq(Msg) /\ Len(u) = 1 /\ u[1] = x
      BY <1>0, <2>1
    <2> QED BY <1>5, <2>2 DEF u, l, x, y
  <1>6. CASE l.bound /\ ~l.sync /\ l.changed
    <2>1. u = <<y>>
      BY <1>1, <1>2, <1>6
    <2>2. u \in Seq(Msg) /\ Len(u) = 1 /\ u[1] = y
      BY <1>0, <2>1
    <2> QED BY <1>6, <2>2 DEF u, l, x, y
  <1> QED BY <1>0, <1>3, <1>4, <1>5, <1>6

(* The updates of all interfaces, in the order o. *)
UpdatesIn(s, o) == [k \in DOMAIN o |-> Updates(s, o[k])]

(* f holds the updates of the interfaces of s, configuration before state. *)
HoldsUpdates(f, s) ==
    /\ \A n \in 1..Len(f) : \E i \in Po :
          \/ f[n] = AggportConfig(i) /\ s.lif[i].bound /\ s.lif[i].sync
          \/ /\ f[n] = AggportState(s, i) /\ s.lif[i].bound /\ s.lif[i].changed
             /\ s.lif[i].sync => \E m \in 1..(n - 1) : f[m] = AggportConfig(i)
    /\ \A i \in Po : s.lif[i].bound =>
          /\ s.lif[i].sync => \E n \in 1..Len(f) : f[n] = AggportConfig(i)
          /\ s.lif[i].changed => \E n \in 1..Len(f) : f[n] = AggportState(s, i)

LEMMA UpdatesFlattened ==
    ASSUME NEW s \in Switch, NEW o \in SetToSeqs(Po)
    PROVE  LET f == FlattenSeq(UpdatesIn(s, o))
           IN  f \in Seq(Msg) /\ HoldsUpdates(f, s)
  <1> DEFINE ss == UpdatesIn(s, o)
             f == FlattenSeq(ss)
             Msgs == Seq(Msg)
  <1>1. o \in Seq(Po) /\ \A i \in Po : \E k \in 1..Len(o) : o[k] = i
    BY PoFinite, PermutationElements
  <1>2. /\ ss \in Seq(Msgs) /\ Len(ss) = Len(o)
        /\ \A k \in 1..Len(o) : o[k] \in Po /\ ss[k] = Updates(s, o[k])
    <2>1. \A i \in Po : Updates(s, i) \in Msgs
      BY UpdatesAre
    <2>2. DOMAIN o = 1..Len(o) /\ Len(o) \in Nat /\ \A k \in 1..Len(o) : o[k] \in Po
      BY <1>1
    <2> HIDE DEF Msgs
    <2>3. ss \in [1..Len(o) -> Msgs]
      BY <2>1, <2>2 DEF UpdatesIn
    <2>4. ss \in Seq(Msgs) /\ Len(ss) = Len(o)
      BY <2>2, <2>3
    <2> QED BY <2>2, <2>4 DEF UpdatesIn
  <1>3. f \in Seq(Msg) /\ FlatOf(f, ss, Len(ss))
    BY <1>2, FlattenElements
  <1> HIDE DEF f, ss
  <1>4. ASSUME NEW n \in 1..Len(f)
        PROVE  \E i \in Po :
                  \/ f[n] = AggportConfig(i) /\ s.lif[i].bound /\ s.lif[i].sync
                  \/ /\ f[n] = AggportState(s, i) /\ s.lif[i].bound /\ s.lif[i].changed
                     /\ s.lif[i].sync => \E m \in 1..(n - 1) : f[m] = AggportConfig(i)
    <2>1. PICK k \in 1..Len(ss) : \E j \in 1..Len(ss[k]) : TakenFrom(f, n, ss, k, j)
      BY <1>3 DEF FlatOf
    <2>2. PICK j \in 1..Len(ss[k]) : TakenFrom(f, n, ss, k, j)
      BY <2>1
    <2> DEFINE i == o[k]
               u == Updates(s, i)
    <2>3. i \in Po /\ ss[k] = u
      BY <1>2, <2>1
    <2>4. /\ f[n] = u[j]
          /\ \A q \in 1..(j - 1) : \E m \in 1..(n - 1) : f[m] = u[q]
      BY <2>2, <2>3 DEF TakenFrom
    <2> HIDE DEF i, u
    <2>5. \/ u[j] = AggportConfig(i) /\ s.lif[i].bound /\ s.lif[i].sync
          \/ u[j] = AggportState(s, i) /\ s.lif[i].bound /\ s.lif[i].changed
                           /\ (s.lif[i].sync => j = 2 /\ u[1] = AggportConfig(i))
      BY <2>2, <2>3, UpdatesAre DEF u
    <2>6. j = 2 => 1 \in 1..(j - 1)
      OBVIOUS
    <2> QED BY <2>3, <2>4, <2>5, <2>6
  <1>5. ASSUME NEW i \in Po, s.lif[i].bound
        PROVE  /\ s.lif[i].sync => \E n \in 1..Len(f) : f[n] = AggportConfig(i)
               /\ s.lif[i].changed => \E n \in 1..Len(f) : f[n] = AggportState(s, i)
    <2> DEFINE u == Updates(s, i)
    <2>1. PICK k \in 1..Len(o) : o[k] = i
      BY <1>1
    <2>2. k \in 1..Len(ss) /\ ss[k] = u
      BY <1>2, <2>1
    <2>3. \A j \in 1..Len(u) : \E n \in 1..Len(f) : f[n] = u[j]
      BY <1>3, <2>2 DEF FlatOf
    <2>4. /\ s.lif[i].sync => 1 \in 1..Len(u) /\ u[1] = AggportConfig(i)
          /\ s.lif[i].changed => \E j \in 1..Len(u) : u[j] = AggportState(s, i)
      BY <1>5, UpdatesAre
    <2> HIDE DEF u
    <2> QED BY <2>3, <2>4
  <1> QED BY <1>3, <1>4, <1>5 DEF HoldsUpdates, f, ss

LEMMA PendingIs ==
    ASSUME NEW s \in Switch, NEW o \in SetToSeqs(Po)
    PROVE  /\ Pending(s, o) \in Seq(Msg)
           /\ ~s.need /\ s.purge = <<>> => HoldsUpdates(Pending(s, o), s)
  <1> DEFINE f == FlattenSeq(UpdatesIn(s, o))
             g == [k \in DOMAIN s.purge |-> AggportPurge(s.purge[k].po)]
             h == IF s.need THEN << [type |-> "SYNC_REQ"] >> ELSE <<>>
  <1>1. f \in Seq(Msg) /\ HoldsUpdates(f, s)
    BY UpdatesFlattened
  <1>2. g \in Seq(Msg) /\ (s.purge = <<>> => g = <<>>)
    <2>1. s.purge \in Seq(Purged)
      BY DEF Switch
    <2>2. Len(s.purge) \in Nat /\ DOMAIN s.purge = 1..Len(s.purge)
      BY <2>1
    <2>3. \A k \in 1..Len(s.purge) : AggportPurge(s.purge[k].po) \in Msg
      <3>1. \A k \in 1..Len(s.purge) : s.purge[k] \in Purged
        BY <2>1
      <3>2. \A e \in Purged : AggportPurge(e.po) \in Msg
        BY DEF Purged, AggportPurge, Msg
      <3> QED BY <3>1, <3>2
    <2>4. g \in [1..Len(s.purge) -> Msg]
      BY <2>2, <2>3
    <2>5. g \in Seq(Msg)
      BY <2>2, <2>4
    <2>6. s.purge = <<>> => g = <<>>
      OBVIOUS
    <2> QED BY <2>5, <2>6
  <1>3. h \in Seq(Msg) /\ (~s.need => h = <<>>)
    <2>1. <<>> \in Seq(Msg) /\ << [type |-> "SYNC_REQ"] >> \in Seq(Msg)
      BY DEF Msg
    <2> QED BY <2>1
  <1>4. Pending(s, o) = h \o g \o f
    BY DEF Pending, UpdatesIn
  <1> HIDE DEF f, g, h
  <1>5. (h \o g) \o f \in Seq(Msg)
    BY <1>1, <1>2, <1>3
  <1>6. h = <<>> /\ g = <<>> => (h \o g) \o f = f
    <2>1. <<>> \in Seq(Msg)
      OBVIOUS
    <2>2. <<>> \o <<>> = <<>> /\ <<>> \o f = f
      BY <1>1, <2>1, ConcatEmptySeq
    <2> QED BY <2>2
  <1> QED BY <1>1, <1>2, <1>3, <1>4, <1>5, <1>6

LEMMA RequestIs ==
    ASSUME NEW s, NEW p
    PROVE  /\ Request(p, s) \in Seq(Msg)
           /\ MustRequest(p, s) => Request(p, s) = << [type |-> "SYNC_REQ"] >>
           /\ ~MustRequest(p, s) => Request(p, s) = <<>>
  <1>1. <<>> \in Seq(Msg) /\ << [type |-> "SYNC_REQ"] >> \in Seq(Msg)
    BY DEF Msg
  <1> QED BY <1>1 DEF Request

LEMMA AnswerIs ==
    ASSUME NEW s \in Switch, NEW p, NEW m
    PROVE  /\ Answer(p, s, m) \in Seq(Msg)
           /\ Answer(p, s, m) = <<>> \/ Answer(p, s, m) = << Info(s) >>
           /\ m.type # "SYNC_REQ" => Answer(p, s, m) = <<>>
  <1>1. Info(s) \in Msg
    BY InfoType
  <1>2. <<>> \in Seq(Msg) /\ << Info(s) >> \in Seq(Msg)
    BY <1>1
  <1> QED BY <1>2 DEF Answer

(* The parts of a turn of p that reads n messages. *)
Asked(p) == Requested(p, Started(sw[p]))
Read(p, n) == IF n = 0 THEN Asked(p) ELSE Handled(p, Asked(p), Head(ch[p]))
Done(p, n) == Requested(p, Read(p, n))
Flushes(p, n) == "EXCHANGE" \in {Asked(p).state, Done(p, n).state}
After(p, n) == IF Flushes(p, n) THEN Flushed(Done(p, n)) ELSE Done(p, n)
AnswerIn(p, n) == IF n = 0 THEN <<>> ELSE Answer(p, Asked(p), Head(ch[p]))
AcksIn(p, n) == IF n = 0 THEN {} ELSE Acks(Asked(p), Head(ch[p]))
PendingIn(p, n, o) == IF Flushes(p, n) THEN Pending(Done(p, n), o) ELSE <<>>
SentIn(p, n, a, o) ==
    Request(p, Started(sw[p])) \o AnswerIn(p, n) \o Request(p, Read(p, n)) \o a \o PendingIn(p, n, o)

LEMMA TurnParts ==
    ASSUME TypeOK, NEW p \in Peer, NEW n \in 0..1, Turn(p, n)
    PROVE  /\ joined[p] /\ UNCHANGED <<joined, wanted, events>>
           /\ n = 1 => ch[p] # <<>> /\ Head(ch[p]) \in Msg
           /\ sw' = [sw EXCEPT ![p] = After(p, n)]
           /\ \E a \in SetToSeqs(AcksIn(p, n)), o \in SetToSeqs(Po) :
                 ch' = [ch EXCEPT ![p] = IF n = 0 THEN ch[p] ELSE Tail(ch[p]),
                                  ![Other(p)] = IF joined[Other(p)]
                                                THEN ch[Other(p)] \o SentIn(p, n, a, o)
                                                ELSE ch[Other(p)]]
  <1>1. /\ joined[p] /\ UNCHANGED <<joined, wanted, events>> /\ n <= Len(ch[p])
        /\ sw' = [sw EXCEPT ![p] = After(p, n)]
    BY DEF Turn, After, Flushes, Done, Read, Asked
  <1>2. ch \in [Peer -> Seq(Msg)] /\ Other(p) \in Peer /\ Other(p) # p
    BY TwoPeers DEF TypeOK
  <1>3. n = 1 => ch[p] # <<>> /\ Head(ch[p]) \in Msg
    BY <1>1, <1>2
  <1>4. PICK a \in SetToSeqs(AcksIn(p, n)), o \in SetToSeqs(Po) :
           ch' = [ch EXCEPT ![p] = IF n = 0 THEN @ ELSE Tail(@),
                            ![Other(p)] = IF joined[Other(p)] THEN @ \o SentIn(p, n, a, o) ELSE @]
    BY Zenon DEF Turn, AcksIn, SentIn, PendingIn, AnswerIn, Flushes, Done, Read, Asked
  <1>5. ch' = [ch EXCEPT ![p] = IF n = 0 THEN ch[p] ELSE Tail(ch[p]),
                         ![Other(p)] = IF joined[Other(p)]
                                       THEN ch[Other(p)] \o SentIn(p, n, a, o)
                                       ELSE ch[Other(p)]]
    <2> DEFINE out == SentIn(p, n, a, o)
    <2> HIDE DEF out
    <2> QED BY <1>2, <1>4 DEF out
  <1> QED BY <1>1, <1>3, <1>5

(* Whatever p does in a turn, the result is a switch with the same members,  *)
(* and what it sends are messages.                                           *)
LEMMA TurnTypes ==
    ASSUME TypeOK, NEW p \in Peer, NEW n \in 0..1, n = 1 => Head(ch[p]) \in Msg
    PROVE  /\ Started(sw[p]) \in Switch /\ Asked(p) \in Switch /\ Read(p, n) \in Switch
           /\ Done(p, n) \in Switch /\ After(p, n) \in Switch
           /\ SameMembers(Done(p, n), sw[p])
           /\ \A a \in SetToSeqs(AcksIn(p, n)), o \in SetToSeqs(Po) : SentIn(p, n, a, o) \in Seq(Msg)
  <1>0. sw[p] \in Switch
    BY DEF TypeOK
  <1>1. Started(sw[p]) \in Switch /\ SameMembers(Started(sw[p]), sw[p])
    BY <1>0, StartedFields
  <1>2. Asked(p) \in Switch /\ SameMembers(Asked(p), Started(sw[p]))
    BY <1>1, RequestedFields DEF Asked
  <1>3. Read(p, n) \in Switch /\ SameMembers(Read(p, n), Asked(p))
    <2>1. CASE n = 0
      BY <1>2, <2>1 DEF Read, SameMembers
    <2>2. CASE n = 1
      BY <1>2, <2>2, HandledFields DEF Read
    <2> QED BY <2>1, <2>2
  <1>4. Done(p, n) \in Switch /\ SameMembers(Done(p, n), Read(p, n))
    BY <1>3, RequestedFields DEF Done
  <1>5. After(p, n) \in Switch
    BY <1>4, FlushedFields DEF After
  <1>6. SameMembers(Done(p, n), sw[p])
    BY <1>1, <1>2, <1>3, <1>4 DEF SameMembers
  <1>7. ASSUME NEW a \in SetToSeqs(AcksIn(p, n)), NEW o \in SetToSeqs(Po)
        PROVE  SentIn(p, n, a, o) \in Seq(Msg)
    <2> DEFINE Msgs == Seq(Msg)
               r1 == Request(p, Started(sw[p]))
               an == AnswerIn(p, n)
               r2 == Request(p, Read(p, n))
               pe == PendingIn(p, n, o)
    <2>0. <<>> \in Msgs
      OBVIOUS
    <2>1. r1 \in Msgs /\ r2 \in Msgs
      BY RequestIs
    <2>2. an \in Msgs
      BY <1>2, <2>0, AnswerIs DEF AnswerIn
    <2>3. a \in Msgs
      <3>1. CASE n = 0
        BY <3>1, <2>0, NoElements DEF AcksIn
      <3>2. CASE n = 1
        <4> DEFINE A == Acks(Asked(p), Head(ch[p]))
        <4>1. AcksIn(p, n) = A
          BY <3>2 DEF AcksIn
        <4>2. IsFiniteSet(A) /\ \A x \in A : \E i \in Po : x = AckOf(i)
          BY <1>2, <3>2, AcksAre
        <4>3. \A i \in Po : AckOf(i) \in Msg
          BY <1>0, MsgTypes
        <4> HIDE DEF A
        <4>4. a \in Seq(A)
          BY <4>1, <4>2, PermutationElements
        <4>5. A \subseteq Msg
          BY <4>2, <4>3
        <4> QED BY <4>4, <4>5
      <3> QED BY <3>1, <3>2
    <2>4. pe \in Msgs
      BY <1>4, <2>0, PendingIs DEF PendingIn
    <2> HIDE DEF r1, an, r2, pe
    <2>5. (((r1 \o an) \o r2) \o a) \o pe \in Seq(Msg)
      <3>1. \A x, y \in Msgs : x \o y \in Msgs
        OBVIOUS
      <3> HIDE DEF Msgs
      <3> QED BY <2>1, <2>2, <2>3, <2>4, <3>1 DEF Msgs
    <2> QED BY <2>5 DEF SentIn, r1, an, r2, pe
  <1> QED BY <1>1, <1>2, <1>3, <1>4, <1>5, <1>6, <1>7

-----------------------------------------------------------------------------
(* The environment. *)

LEMMA DisconnectedFields ==
    ASSUME NEW s \in Switch
    PROVE  LET r == Disconnected(s)
           IN  /\ r \in Switch /\ r.state = "INIT" /\ ~r.need /\ r.purge = <<>> /\ r.bind = s.bind
               /\ r.pif = [i \in Po |-> "none"]
               /\ \A i \in Po :
                     LET k == r.lif[i]
                         l == s.lif[i]
                     IN  /\ k.exists = l.exists /\ k.bound = l.bound /\ k.up = l.up
                         /\ k.active = l.active /\ k.sync = l.sync /\ k.changed = l.changed
                         /\ k.isolated <=> l.isolated /\ ~l.bound
                         /\ k.blocked <=> l.blocked /\ ~l.bound
  <1> DEFINE h(i) == TrafficEnabled([s.lif[i] EXCEPT !.isolated = @ /\ ~s.lif[i].bound])
             f == [i \in Po |-> h(i)]
             g == [i \in Po |-> "none"]
             r == Disconnected(s)
             Purges == Seq(Purged)
  <1>1. ASSUME NEW i \in Po
        PROVE  LET k == h(i)
                   l == s.lif[i]
               IN  /\ k \in LocalIf
                   /\ k.exists = l.exists /\ k.bound = l.bound /\ k.up = l.up
                   /\ k.active = l.active /\ k.sync = l.sync /\ k.changed = l.changed
                   /\ k.isolated <=> l.isolated /\ ~l.bound
                   /\ k.blocked <=> l.blocked /\ ~l.bound
    <2> DEFINE l == s.lif[i]
               l1 == [l EXCEPT !.isolated = l.isolated /\ ~l.bound]
               k == h(i)
    <2>1. l \in LocalIf
      BY DEF Switch
    <2>2. k = [l1 EXCEPT !.blocked = l1.blocked /\ ~l1.bound]
      BY <2>1 DEF TrafficEnabled, LocalIf
    <2> HIDE DEF l, k
    <2>3. /\ l1 \in LocalIf
          /\ l1.exists = l.exists /\ l1.bound = l.bound /\ l1.up = l.up
          /\ l1.active = l.active /\ l1.sync = l.sync /\ l1.changed = l.changed
          /\ l1.blocked = l.blocked
          /\ l1.isolated <=> l.isolated /\ ~l.bound
      BY <2>1 DEF LocalIf
    <2> HIDE DEF l1
    <2>4. /\ k \in LocalIf
          /\ k.exists = l1.exists /\ k.bound = l1.bound /\ k.up = l1.up
          /\ k.active = l1.active /\ k.sync = l1.sync /\ k.changed = l1.changed
          /\ k.isolated = l1.isolated
          /\ k.blocked <=> l1.blocked /\ ~l1.bound
      BY <2>2, <2>3 DEF LocalIf
    <2> QED BY <2>3, <2>4 DEF k, l
  <1>2. r = [s EXCEPT !.state = "INIT", !.need = FALSE, !.purge = <<>>, !.pif = g, !.lif = f]
    BY DEF Disconnected
  <1> HIDE DEF h
  <1>3. f \in [Po -> LocalIf] /\ g \in [Po -> PeerIf] /\ \A i \in Po : f[i] = h(i)
    BY <1>1 DEF PeerIf
  <1> HIDE DEF f, g
  <1>4. <<>> \in Purges
    OBVIOUS
  <1>5. Switch = [state : State, wait : BOOLEAN, need : BOOLEAN, lif : [Po -> LocalIf],
                  pif : [Po -> PeerIf], purge : Purges, bind : SUBSET Po]
    BY DEF Switch
  <1> HIDE DEF Purges
  <1>6. /\ r \in Switch /\ r.state = "INIT" /\ ~r.need /\ r.purge = <<>> /\ r.bind = s.bind
        /\ r.pif = g /\ r.lif = f
    BY <1>2, <1>3, <1>4, <1>5 DEF State
  <1> HIDE DEF r
  <1> QED BY <1>1, <1>3, <1>6 DEF r, g

(* r has another interface i, with the record l, and perhaps other purges. *)
WithLif(r, s, i, l) ==
    /\ r.state = s.state /\ r.wait = s.wait /\ r.need = s.need /\ r.pif = s.pif
    /\ r.lif = [s.lif EXCEPT ![i] = l]

PutLif(s, i, l) == [s EXCEPT !.lif[i] = l]
PutBoth(s, i, l, g) == [s EXCEPT !.purge = g, !.lif[i] = l]

LEMMA LifReplaced ==
    ASSUME NEW s \in Switch, NEW i \in Po, NEW l \in LocalIf, NEW g \in Seq(Purged)
    PROVE  /\ PutLif(s, i, l) \in Switch /\ WithLif(PutLif(s, i, l), s, i, l)
           /\ PutLif(s, i, l).purge = s.purge /\ PutLif(s, i, l).bind = s.bind
           /\ PutBoth(s, i, l, g) \in Switch /\ WithLif(PutBoth(s, i, l, g), s, i, l)
           /\ PutBoth(s, i, l, g).purge = g /\ PutBoth(s, i, l, g).bind = s.bind
  <1> DEFINE Purges == Seq(Purged)
  <1>1. g \in Purges
    OBVIOUS
  <1>2. Switch = [state : State, wait : BOOLEAN, need : BOOLEAN, lif : [Po -> LocalIf],
                  pif : [Po -> PeerIf], purge : Purges, bind : SUBSET Po]
    BY DEF Switch
  <1> HIDE DEF Purges
  <1> QED BY <1>1, <1>2 DEF WithLif, PutLif, PutBoth

(* What mlacp_bind_local_if makes of an interface that is not in the domain. *)
JoinedIf(l) == [l EXCEPT !.bound = TRUE, !.sync = TRUE]

LEMMA JoinedIfFields ==
    ASSUME NEW l \in LocalIf
    PROVE  LET k == JoinedIf(l)
           IN  /\ k \in LocalIf /\ k.bound /\ k.sync /\ k.exists = l.exists /\ k.up = l.up
               /\ k.active = l.active /\ k.changed = l.changed /\ k.isolated = l.isolated
               /\ k.blocked = l.blocked
  BY DEF JoinedIf, LocalIf

PurgeWithout(s, i) == RemoveFirst(s.purge, [po |-> i, gone |-> FALSE])

LEMMA BoundFields ==
    ASSUME NEW s \in Switch, NEW i \in Po
    PROVE  LET r == Bound(s, i)
               l == IF s.lif[i].bound THEN s.lif[i] ELSE JoinedIf(s.lif[i])
               b == IF s.state = "EXCHANGE" /\ s.lif[i].active THEN s.pif[i] # "down"
                                                               ELSE s.lif[i].isolated
           IN  /\ r \in Switch /\ r.bind = s.bind
               /\ WithLif(r, s, i, [l EXCEPT !.isolated = b])
               /\ r.purge = IF s.lif[i].bound THEN s.purge ELSE PurgeWithout(s, i)
  <1> DEFINE l == IF s.lif[i].bound THEN s.lif[i] ELSE JoinedIf(s.lif[i])
             g == IF s.lif[i].bound THEN s.purge ELSE PurgeWithout(s, i)
             t == Joined(s, i)
             b == IF s.state = "EXCHANGE" /\ s.lif[i].active THEN s.pif[i] # "down"
                                                             ELSE s.lif[i].isolated
             c == IsolatedFromLif(t, i, s.lif[i].active)
             r == Bound(s, i)
             k == [l EXCEPT !.isolated = b]
  <1>0. s.lif[i] \in LocalIf /\ s.lif \in [Po -> LocalIf] /\ s.purge \in Seq(Purged)
        /\ s.lif[i].active \in BOOLEAN
    BY DEF Switch, LocalIf
  <1>1. l \in LocalIf /\ l.isolated = s.lif[i].isolated
    BY <1>0, JoinedIfFields
  <1>2. g \in Seq(Purged)
    <2>1. [po |-> i, gone |-> FALSE] \in Purged
      BY DEF Purged
    <2>2. PurgeWithout(s, i) \in Seq(Purged)
      BY <1>0, <2>1, RemoveFirstElements DEF PurgeWithout
    <2> QED BY <1>0, <2>2
  <1>3. t \in Switch /\ WithLif(t, s, i, l) /\ t.bind = s.bind /\ t.purge = g
    <2>1. CASE s.lif[i].bound
      <3>1. t = s /\ l = s.lif[i] /\ g = s.purge
        BY <2>1 DEF Joined
      <3>2. [s.lif EXCEPT ![i] = s.lif[i]] = s.lif
        BY <1>0
      <3> HIDE DEF t, l, g
      <3> QED BY <3>1, <3>2 DEF WithLif
    <2>2. CASE ~s.lif[i].bound
      <3>1. t = [s EXCEPT !.purge = PurgeWithout(s, i), !.lif[i] = JoinedIf(s.lif[i])]
        BY <2>2 DEF Joined, PurgeWithout, JoinedIf
      <3>2. l = JoinedIf(s.lif[i]) /\ g = PurgeWithout(s, i)
        BY <2>2
      <3> HIDE DEF l, g
      <3>3. t = PutBoth(s, i, l, g)
        BY <3>1, <3>2 DEF PutBoth
      <3> HIDE DEF t
      <3> QED BY <1>1, <1>2, <3>3, LifReplaced
    <2> QED BY <2>1, <2>2
  <1> HIDE DEF t, g
  <1>4. t.lif[i] = l /\ t.state = s.state /\ t.pif = s.pif
    BY <1>0, <1>3 DEF WithLif
  <1>5. c = b
    BY <1>1, <1>4 DEF IsolatedFromLif
  <1>6. b \in BOOLEAN
    BY <1>0 DEF LocalIf
  <1>7. r = [t EXCEPT !.lif[i].isolated = c]
    BY DEF Bound, t
  <1> HIDE DEF l, b, c, r
  <1>8. k \in LocalIf
    BY <1>1, <1>6 DEF LocalIf
  <1>9. r = PutLif(t, i, k)
    BY <1>3, <1>4, <1>5, <1>7 DEF Switch, PutLif
  <1> HIDE DEF k
  <1>10. r \in Switch /\ WithLif(r, t, i, k) /\ r.purge = t.purge /\ r.bind = t.bind
    BY <1>3, <1>2, <1>8, <1>9, LifReplaced
  <1>11. WithLif(r, s, i, k)
    <2>1. [[s.lif EXCEPT ![i] = l] EXCEPT ![i] = k] = [s.lif EXCEPT ![i] = k]
      BY <1>0
    <2> QED BY <1>3, <1>10, <2>1 DEF WithLif
  <1> QED BY <1>3, <1>10, <1>11 DEF r, k, l, b, g

(* The purges of a switch: those of PurgesCurrent and PurgedOnce. *)
PurgeOk(s) ==
    /\ s.purge # <<>> => s.state = "EXCHANGE"
    /\ \A k \in 1..Len(s.purge) : s.purge[k].gone \/ ~s.lif[s.purge[k].po].bound
    /\ \A k, l \in 1..Len(s.purge) : s.purge[k] = s.purge[l] /\ ~s.purge[k].gone => k = l

LEMMA PurgeTypes ==
    ASSUME NEW s \in Switch
    PROVE  /\ s.purge \in Seq(Purged) /\ Len(s.purge) \in Nat /\ DOMAIN s.purge = 1..Len(s.purge)
           /\ \A k \in 1..Len(s.purge) :
                 /\ s.purge[k] \in Purged /\ s.purge[k].po \in Po /\ s.purge[k].gone \in BOOLEAN
                 /\ s.purge[k] = [po |-> s.purge[k].po, gone |-> s.purge[k].gone]
  <1>1. s.purge \in Seq(Purged)
    BY DEF Switch
  <1>2. \A e \in Purged : e.po \in Po /\ e.gone \in BOOLEAN /\ e = [po |-> e.po, gone |-> e.gone]
    BY DEF Purged
  <1> QED BY <1>1, <1>2

LEMMA BoundPurge ==
    ASSUME NEW s \in Switch, NEW i \in Po, PurgeOk(s)
    PROVE  PurgeOk(Bound(s, i))
  <1> DEFINE e == [po |-> i, gone |-> FALSE]
             r == Bound(s, i)
             l == IF s.lif[i].bound THEN s.lif[i] ELSE JoinedIf(s.lif[i])
             b == IF s.state = "EXCHANGE" /\ s.lif[i].active THEN s.pif[i] # "down"
                                                             ELSE s.lif[i].isolated
             k == [l EXCEPT !.isolated = b]
  <1>1. /\ r \in Switch /\ r.state = s.state /\ r.lif = [s.lif EXCEPT ![i] = k]
        /\ r.purge = IF s.lif[i].bound THEN s.purge ELSE PurgeWithout(s, i)
    BY BoundFields DEF WithLif
  <1>2. s.lif \in [Po -> LocalIf] /\ s.lif[i] \in LocalIf
    BY DEF Switch
  <1>3. k.bound
    BY <1>2, JoinedIfFields DEF LocalIf
  <1> HIDE DEF r, k
  <1>4. /\ r.lif[i] = k /\ \A j \in Po : j # i => r.lif[j] = s.lif[j]
    BY <1>1, <1>2
  <1>5. CASE s.lif[i].bound
    BY <1>1, <1>4, <1>5, PurgeTypes DEF PurgeOk, r
  <1>6. CASE ~s.lif[i].bound
    <2> DEFINE t == RemoveFirst(s.purge, e)
    <2>1. e \in Purged /\ s.purge \in Seq(Purged) /\ Len(s.purge) \in Nat
      BY PurgeTypes DEF Purged
    <2>2. \A m, n \in 1..Len(s.purge) : s.purge[m] = e /\ s.purge[n] = e => m = n
      BY DEF PurgeOk
    <2>3. r.purge = t
      BY <1>1, <1>6 DEF PurgeWithout
    <2>0. t \in Seq(Purged) /\ Without(t, s.purge, e)
      BY <2>1, RemoveFirstElements
    <2> HIDE DEF t, e
    <2>4. PICK h \in [1..Len(t) -> 1..Len(s.purge)] :
             /\ \A n \in 1..Len(t) : t[n] = s.purge[h[n]]
             /\ \A m, n \in 1..Len(t) : h[m] = h[n] => m = n
             /\ \A n \in 1..Len(t) : t[n] # e
      BY <2>0, <2>2 DEF Without
    <2>5. t \in Seq(Purged)
      BY <2>0
    <2>6. r.purge # <<>> => r.state = "EXCHANGE"
      <3> SUFFICES ASSUME t # <<>> PROVE s.state = "EXCHANGE"
        BY <1>1, <2>3
      <3>1. 1 \in 1..Len(t)
        BY <2>5
      <3>2. h[1] \in 1..Len(s.purge)
        BY <2>4, <3>1
      <3>3. s.purge # <<>>
        BY <3>2
      <3> QED BY <3>3 DEF PurgeOk
    <2>7. ASSUME NEW n \in 1..Len(t)
          PROVE  t[n].gone \/ ~r.lif[t[n].po].bound
      <3>1. h[n] \in 1..Len(s.purge) /\ t[n] = s.purge[h[n]] /\ t[n] # e
        BY <2>4
      <3>2. t[n].po \in Po /\ t[n].gone \in BOOLEAN /\ t[n] = [po |-> t[n].po, gone |-> t[n].gone]
        BY <3>1, PurgeTypes
      <3>3. t[n].gone \/ ~s.lif[t[n].po].bound
        BY <3>1 DEF PurgeOk
      <3> QED BY <1>4, <3>1, <3>2, <3>3 DEF e
    <2>8. \A m, n \in 1..Len(t) : t[m] = t[n] /\ ~t[m].gone => m = n
      BY <2>4 DEF PurgeOk
    <2> QED BY <2>3, <2>6, <2>7, <2>8 DEF PurgeOk, r
  <1> QED BY <1>5, <1>6

(* p's record becomes r, in the same state and with purges that are right. *)
Becomes(p, r) ==
    /\ sw' = [sw EXCEPT ![p] = r] /\ r \in Switch
    /\ r.state = sw[p].state /\ r.wait = sw[p].wait
    /\ PurgeOk(sw[p]) => PurgeOk(r)

(* An interface that stays in, or out of, the domain. *)
LEMMA PurgeKept ==
    ASSUME NEW s \in Switch, NEW i \in Po, NEW l \in LocalIf, NEW r,
           WithLif(r, s, i, l), r.purge = s.purge, l.bound = s.lif[i].bound
    PROVE  PurgeOk(s) => PurgeOk(r)
  <1>1. s.lif \in [Po -> LocalIf] /\ \A k \in 1..Len(s.purge) : s.purge[k].po \in Po
    BY PurgeTypes DEF Switch
  <1>2. \A j \in Po : r.lif[j].bound = s.lif[j].bound
    BY <1>1 DEF WithLif
  <1> QED BY <1>1, <1>2 DEF PurgeOk, WithLif

(* The carrier of an interface, and what follows from it. *)
LinkedIf(s, i) ==
    LET l == s.lif[i]
        up == ~l.up
        k == [l EXCEPT !.up = up]
        t == [s EXCEPT !.lif[i] = k]
    IN  IF l.bound THEN PoState(t, i, up) ELSE [k EXCEPT !.active = up]

LEMMA LinkedIfFields ==
    ASSUME NEW s \in Switch, NEW i \in Po
    PROVE  LET l == s.lif[i]
               r == LinkedIf(s, i)
               up == ~l.up
           IN  /\ r \in LocalIf
               /\ r.exists = l.exists /\ r.bound = l.bound /\ r.sync = l.sync
               /\ r.up = up /\ r.active = up
               /\ r.changed <=> l.changed \/ (l.bound /\ l.active # up)
               /\ r.isolated <=> IF l.bound /\ up /\ s.state = "EXCHANGE"
                                 THEN s.pif[i] # "down" ELSE l.isolated
               /\ r.blocked <=> l.blocked \/ (~up /\ l.bound /\ s.state = "EXCHANGE")
  <1> DEFINE l == s.lif[i]
             up == ~l.up
             k == [l EXCEPT !.up = up]
             t == PutLif(s, i, k)
             r == LinkedIf(s, i)
  <1>1. l \in LocalIf /\ s.purge \in Seq(Purged) /\ s.lif \in [Po -> LocalIf]
    BY DEF Switch
  <1>2. r = IF l.bound THEN PoState(t, i, up) ELSE [k EXCEPT !.active = up]
    BY DEF LinkedIf, PutLif
  <1> HIDE DEF l, r
  <1>3. /\ k \in LocalIf /\ k.exists = l.exists /\ k.bound = l.bound /\ k.sync = l.sync
        /\ k.up = up /\ k.active = l.active /\ k.changed = l.changed /\ k.isolated = l.isolated
        /\ k.blocked = l.blocked
    BY <1>1 DEF LocalIf
  <1> HIDE DEF k
  <1>4. t \in Switch /\ WithLif(t, s, i, k)
    BY <1>1, <1>3, LifReplaced
  <1>5. t.lif[i] = k /\ t.state = s.state /\ t.pif = s.pif
    BY <1>1, <1>4 DEF WithLif
  <1> HIDE DEF t
  <1>6. CASE l.bound
    <2>1. up \in BOOLEAN
      OBVIOUS
    <2> HIDE DEF up
    <2> DEFINE q == PoState(t, i, up)
    <2>2. r = q
      BY <1>2, <1>6
    <2>3. /\ q \in LocalIf
          /\ q.exists = k.exists /\ q.bound = k.bound /\ q.up = k.up /\ q.sync = k.sync
          /\ q.active = up
          /\ q.changed <=> k.changed \/ k.active # up
          /\ q.isolated <=> IsolatedFromLif(t, i, up)
          /\ q.blocked <=> k.blocked \/ (~up /\ k.bound /\ s.state = "EXCHANGE")
      BY <1>4, <1>5, <2>1, PoStateFields
    <2>4. IsolatedFromLif(t, i, up) = IF s.state = "EXCHANGE" /\ up THEN s.pif[i] # "down" ELSE k.isolated
      BY <1>5 DEF IsolatedFromLif
    <2> HIDE DEF q
    <2>5. /\ r \in LocalIf
          /\ r.exists = l.exists /\ r.bound = l.bound /\ r.sync = l.sync
          /\ r.up = up /\ r.active = up
      BY <1>3, <2>2, <2>3
    <2>6. /\ r.changed <=> l.changed \/ l.active # up
          /\ r.isolated <=> IF up /\ s.state = "EXCHANGE" THEN s.pif[i] # "down" ELSE l.isolated
          /\ r.blocked <=> l.blocked \/ (~up /\ l.bound /\ s.state = "EXCHANGE")
      BY <1>3, <2>2, <2>3, <2>4
    <2> QED BY <1>6, <2>5, <2>6 DEF l, r, up
  <1>7. CASE ~l.bound
    <2>1. r = [k EXCEPT !.active = up]
      BY <1>2, <1>7
    <2>2. /\ r \in LocalIf /\ r.exists = k.exists /\ r.bound = k.bound /\ r.sync = k.sync
          /\ r.up = k.up /\ r.active = up /\ r.changed = k.changed /\ r.isolated = k.isolated
          /\ r.blocked = k.blocked
      BY <1>3, <2>1 DEF LocalIf
    <2> QED BY <1>3, <1>7, <2>2 DEF l, r
  <1> QED BY <1>6, <1>7

LEMMA LinkChangeIs ==
    ASSUME TypeOK, NEW p \in Peer, NEW i \in Po, LinkChange(p, i)
    PROVE  Becomes(p, PutLif(sw[p], i, LinkedIf(sw[p], i)))
  <1> DEFINE s == sw[p]
             l == LinkedIf(s, i)
             r == PutLif(s, i, l)
  <1>1. s \in Switch /\ s.purge \in Seq(Purged) /\ s.lif[i] \in LocalIf
    BY DEF TypeOK, Switch
  <1>2. sw' = [sw EXCEPT ![p] = r]
    <2> DEFINE up == ~s.lif[i].up
               k == [s.lif[i] EXCEPT !.up = up]
               t == [s EXCEPT !.lif[i] = k]
    <2>1. t = [s EXCEPT !.lif[i].up = up]
      OBVIOUS
    <2>2. sw' = [sw EXCEPT ![p] = IF t.lif[i].bound THEN [t EXCEPT !.lif[i] = PoState(t, i, up)]
                                   ELSE [t EXCEPT !.lif[i].active = up]]
      BY <2>1 DEF LinkChange
    <2>3. t.lif[i] = k /\ k.bound = s.lif[i].bound
      BY <1>1 DEF Switch, LocalIf
    <2>4. \A q : [t EXCEPT !.lif[i] = q] = [s EXCEPT !.lif[i] = q]
      BY <1>1 DEF Switch
    <2>5. [t EXCEPT !.lif[i].active = up] = [t EXCEPT !.lif[i] = [k EXCEPT !.active = up]]
      BY <2>3
    <2>6. l = IF s.lif[i].bound THEN PoState(t, i, up) ELSE [k EXCEPT !.active = up]
      BY DEF LinkedIf
    <2> HIDE DEF l, k, t, s, up
    <2> QED BY <2>2, <2>3, <2>4, <2>5, <2>6 DEF r, PutLif
  <1>3. l \in LocalIf /\ l.bound = s.lif[i].bound
    BY <1>1, LinkedIfFields
  <1> HIDE DEF l, s
  <1>4. r \in Switch /\ WithLif(r, s, i, l) /\ r.purge = s.purge
    BY <1>1, <1>3, LifReplaced
  <1> HIDE DEF r
  <1>5. PurgeOk(s) => PurgeOk(r)
    BY <1>1, <1>3, <1>4, PurgeKept
  <1> QED BY <1>2, <1>4, <1>5 DEF Becomes, WithLif, r, l, s

LEMMA ConfigChangeIs ==
    ASSUME TypeOK, NEW p \in Peer, NEW i \in Po, ConfigChange(p, i)
    PROVE  LET l == [sw[p].lif[i] EXCEPT !.sync = TRUE]
           IN  l \in LocalIf /\ Becomes(p, PutLif(sw[p], i, l))
  <1> DEFINE s == sw[p]
             l == [s.lif[i] EXCEPT !.sync = TRUE]
             r == PutLif(s, i, l)
  <1>1. s \in Switch /\ s.purge \in Seq(Purged) /\ s.lif[i] \in LocalIf
    BY DEF TypeOK, Switch
  <1>2. sw' = [sw EXCEPT ![p] = r]
    BY <1>1 DEF ConfigChange, PutLif
  <1>3. l \in LocalIf /\ l.bound = s.lif[i].bound
    BY <1>1 DEF LocalIf
  <1> HIDE DEF l, s
  <1>4. r \in Switch /\ WithLif(r, s, i, l) /\ r.purge = s.purge
    BY <1>1, <1>3, LifReplaced
  <1> HIDE DEF r
  <1>5. PurgeOk(s) => PurgeOk(r)
    BY <1>1, <1>3, <1>4, PurgeKept
  <1> QED BY <1>2, <1>3, <1>4, <1>5 DEF Becomes, WithLif, r, l, s

WithBind(s, i) == [s EXCEPT !.bind = @ \cup {i}]

LEMMA AttachIs ==
    ASSUME TypeOK, NEW p \in Peer, NEW i \in Po, Attach(p, i)
    PROVE  LET t == WithBind(sw[p], i)
           IN  /\ t \in Switch /\ t.state = sw[p].state /\ t.wait = sw[p].wait /\ t.lif = sw[p].lif
               /\ t.pif = sw[p].pif /\ t.purge = sw[p].purge /\ t.need = sw[p].need
               /\ Becomes(p, IF sw[p].lif[i].exists THEN Bound(t, i) ELSE t)
  <1> DEFINE s == sw[p]
             t == WithBind(s, i)
             r == IF s.lif[i].exists THEN Bound(t, i) ELSE t
  <1>1. s \in Switch
    BY DEF TypeOK
  <1>2. /\ t \in Switch /\ t.state = s.state /\ t.wait = s.wait /\ t.lif = s.lif
        /\ t.pif = s.pif /\ t.purge = s.purge /\ t.need = s.need
    BY <1>1 DEF Switch, WithBind
  <1>3. sw' = [sw EXCEPT ![p] = r]
    BY <1>2 DEF Attach, WithBind
  <1> HIDE DEF t, s
  <1>4. PurgeOk(s) => PurgeOk(t)
    BY <1>2 DEF PurgeOk
  <1>5. Bound(t, i) \in Switch /\ Bound(t, i).state = t.state /\ Bound(t, i).wait = t.wait
    BY <1>2, BoundFields DEF WithLif
  <1>6. PurgeOk(t) => PurgeOk(Bound(t, i))
    BY <1>2, BoundPurge
  <1> QED BY <1>2, <1>3, <1>4, <1>5, <1>6 DEF Becomes, t, s

(* A member that leaves: e is put in front of the purges, and the purges of   *)
(* i that are there are gone ones.                                            *)
LEMMA PurgeAdded ==
    ASSUME NEW s \in Switch, NEW i \in Po, NEW l \in LocalIf, NEW r, NEW gone \in BOOLEAN,
           s.lif[i].bound, ~l.bound, WithLif(r, s, i, l),
           r.purge = IF s.state = "EXCHANGE" THEN << [po |-> i, gone |-> gone] >> \o s.purge
                                             ELSE s.purge
    PROVE  PurgeOk(s) => PurgeOk(r)
  <1> SUFFICES ASSUME PurgeOk(s) PROVE PurgeOk(r)
    OBVIOUS
  <1> DEFINE e == [po |-> i, gone |-> gone]
             t == << e >> \o s.purge
  <1>1. s.lif \in [Po -> LocalIf] /\ e \in Purged /\ e.po = i /\ e.gone = gone
    BY DEF Switch, Purged
  <1>2. /\ s.purge \in Seq(Purged) /\ Len(s.purge) \in Nat
        /\ \A k \in 1..Len(s.purge) : s.purge[k].po \in Po /\ s.purge[k].gone \in BOOLEAN
    BY PurgeTypes
  <1>3. \A j \in Po : r.lif[j].bound => s.lif[j].bound /\ j # i
    BY <1>1 DEF WithLif
  <1>4. r.state = s.state
    BY DEF WithLif
  <1>5. CASE s.state = "EXCHANGE"
    <2>1. r.purge = t
      BY <1>5
    <2> HIDE DEF e
    <2>2. << e >> \in Seq(Purged) /\ Len(<< e >>) = 1
      BY <1>1
    <2>3. /\ t \in Seq(Purged) /\ Len(t) = Len(s.purge) + 1 /\ t[1] = e
          /\ \A k \in 1..Len(s.purge) : t[k + 1] = s.purge[k]
      BY <1>2, <2>2
    <2> HIDE DEF t
    <2>4. \A k \in 1..Len(t) : k = 1 \/ (k - 1 \in 1..Len(s.purge) /\ t[k] = s.purge[k - 1])
      BY <1>2, <2>3
    <2>5. \A k \in 1..Len(t) : t[k].gone \/ ~r.lif[t[k].po].bound
      BY ZenonT(60), <1>1, <1>2, <1>3, <2>3, <2>4 DEF PurgeOk
    <2>6. \A k \in 1..Len(s.purge) : s.purge[k] = e => e.gone
      BY <1>1 DEF PurgeOk
    <2>7. ASSUME NEW k \in 1..Len(t), NEW m \in 1..Len(t), t[k] = t[m], ~t[k].gone PROVE k = m
      <3>1. CASE k = 1 /\ m # 1
        BY SMTT(30), <2>3, <2>4, <2>6, <2>7, <3>1
      <3>2. CASE m = 1 /\ k # 1
        BY <2>3, <2>4, <2>6, <2>7, <3>2
      <3>3. CASE m # 1 /\ k # 1
        <4>1. /\ k - 1 \in 1..Len(s.purge) /\ m - 1 \in 1..Len(s.purge)
              /\ s.purge[k - 1] = s.purge[m - 1] /\ ~s.purge[k - 1].gone
          BY <2>4, <2>7, <3>3
        <4>2. k - 1 = m - 1
          BY <4>1 DEF PurgeOk
        <4> QED BY <4>2
      <3> QED BY <3>1, <3>2, <3>3
    <2> QED BY <1>4, <1>5, <2>1, <2>5, <2>7 DEF PurgeOk
  <1>6. CASE s.state # "EXCHANGE"
    BY <1>2, <1>3, <1>4, <1>6 DEF PurgeOk
  <1> QED BY <1>5, <1>6

LEMMA DetachIs ==
    ASSUME TypeOK, NEW p \in Peer, NEW i \in Po, Detach(p, i)
    PROVE  \E r : Becomes(p, r)
  <1> DEFINE s == sw[p]
             e == [po |-> i, gone |-> FALSE]
             l == [s.lif[i] EXCEPT !.isolated = @ /\ s.state # "EXCHANGE", !.bound = FALSE]
             g == IF s.state = "EXCHANGE" THEN << e >> \o s.purge ELSE s.purge
             t == PutBoth(s, i, l, g)
             r == [t EXCEPT !.bind = @ \ {i}]
  <1>1. s \in Switch /\ s.purge \in Seq(Purged) /\ s.lif[i] \in LocalIf /\ s.lif \in [Po -> LocalIf]
    BY DEF TypeOK, Switch
  <1>2. CASE ~s.lif[i].bound
    <2>1. sw' = [sw EXCEPT ![p] = s]
      BY <1>2 DEF Detach
    <2> QED BY <1>1, <2>1 DEF Becomes
  <1>3. CASE s.lif[i].bound
    <2>1. l \in LocalIf /\ ~l.bound
      BY <1>1 DEF LocalIf
    <2>2. g \in Seq(Purged)
      <3>1. << e >> \in Seq(Purged)
        BY DEF Purged
      <3> QED BY <1>1, <3>1
    <2>3. Unbound(Detached(s, i), i) = t
      <3> DEFINE c == s.lif[i].isolated /\ s.state # "EXCHANGE"
                 d == [s.lif[i] EXCEPT !.isolated = c]
                 u == PutLif(s, i, d)
      <3>1. Detached(s, i) = u
        BY DEF Detached, PutLif
      <3>2. d \in LocalIf
        BY <1>1 DEF LocalIf
      <3>3. l = [d EXCEPT !.bound = FALSE]
        BY <1>1 DEF LocalIf
      <3> HIDE DEF d, l
      <3>4. u \in Switch /\ WithLif(u, s, i, d) /\ u.purge = s.purge
        BY <1>1, <3>2, LifReplaced
      <3>5. u.lif[i] = d /\ u.state = s.state
        BY <1>1, <3>4 DEF WithLif
      <3>6. Unbound(u, i) = [u EXCEPT !.lif[i] = l, !.purge = g]
        BY <3>3, <3>4, <3>5 DEF Unbound
      <3> HIDE DEF g
      <3>7. [u EXCEPT !.lif[i] = l, !.purge = g] = t
        BY <1>1 DEF PutLif, PutBoth, Switch
      <3> QED BY <3>1, <3>6, <3>7
    <2> HIDE DEF l, g
    <2>5. t \in Switch /\ WithLif(t, s, i, l) /\ t.purge = g
      BY <1>1, <2>1, <2>2, LifReplaced
    <2> HIDE DEF t
    <2>4. sw' = [sw EXCEPT ![p] = r]
      <3>1. sw' = [sw EXCEPT ![p] = IF s.lif[i].bound
                                    THEN [Unbound(Detached(s, i), i) EXCEPT !.bind = @ \ {i}]
                                    ELSE s]
        BY DEF Detach
      <3> QED BY <1>3, <2>3, <3>1
    <2>6. PurgeOk(s) => PurgeOk(t)
      <3>1. t.purge = IF s.state = "EXCHANGE" THEN << [po |-> i, gone |-> FALSE] >> \o s.purge
                                              ELSE s.purge
        BY <2>5 DEF g
      <3> QED BY <1>1, <1>3, <2>1, <2>5, <3>1, PurgeAdded
    <2>7. /\ r \in Switch /\ r.state = t.state /\ r.wait = t.wait /\ r.lif = t.lif
          /\ r.purge = t.purge
      BY <2>5 DEF Switch
    <2> HIDE DEF r
    <2>8. PurgeOk(t) => PurgeOk(r)
      BY <2>7 DEF PurgeOk
    <2>9. Becomes(p, r)
      BY <2>4, <2>5, <2>6, <2>7, <2>8 DEF Becomes, WithLif, s
    <2> QED BY <2>9
  <1> QED BY <1>2, <1>3

(* The purges once i is destroyed. *)
Replaced(s, i) ==
    [k \in DOMAIN s.purge |-> IF s.purge[k].po = i THEN [po |-> i, gone |-> TRUE] ELSE s.purge[k]]

LEMMA ReplacedPurge ==
    ASSUME NEW s \in Switch, NEW i \in Po
    PROVE  LET r == [s EXCEPT !.purge = Replaced(s, i)]
           IN  /\ r \in Switch /\ r.state = s.state /\ r.wait = s.wait /\ r.lif = s.lif
               /\ r.purge = Replaced(s, i) /\ (PurgeOk(s) => PurgeOk(r))
  <1> DEFINE g == Replaced(s, i)
             r == [s EXCEPT !.purge = g]
             Purges == Seq(Purged)
             e == [po |-> i, gone |-> TRUE]
  <1>1. /\ s.purge \in Seq(Purged) /\ Len(s.purge) \in Nat /\ DOMAIN s.purge = 1..Len(s.purge)
        /\ \A k \in 1..Len(s.purge) : s.purge[k] \in Purged
    BY PurgeTypes
  <1>2. e \in Purged /\ e.gone
    BY DEF Purged
  <1> HIDE DEF e
  <1>3. /\ g \in [1..Len(s.purge) -> Purged]
        /\ \A k \in 1..Len(s.purge) : g[k] = e \/ g[k] = s.purge[k]
    BY <1>1, <1>2 DEF Replaced, e
  <1>4. g \in Purges /\ Len(g) = Len(s.purge)
    BY <1>1, <1>3
  <1>5. Switch = [state : State, wait : BOOLEAN, need : BOOLEAN, lif : [Po -> LocalIf],
                  pif : [Po -> PeerIf], purge : Purges, bind : SUBSET Po]
    BY DEF Switch
  <1> HIDE DEF Purges, g
  <1>6. r \in Switch /\ r.state = s.state /\ r.wait = s.wait /\ r.lif = s.lif /\ r.purge = g
    BY <1>4, <1>5
  <1> HIDE DEF r
  <1>7. ASSUME PurgeOk(s) PROVE PurgeOk(r)
    <2>1. g # <<>> => s.state = "EXCHANGE"
      <3> SUFFICES ASSUME g # <<>> PROVE s.purge # <<>>
        BY <1>7 DEF PurgeOk
      <3>1. Len(g) # 0
        BY <1>4 DEF Purges
      <3> QED BY <1>1, <1>4, <3>1
    <2>2. \A k \in 1..Len(g) : g[k].gone \/ ~s.lif[g[k].po].bound
      BY <1>2, <1>3, <1>4, <1>7 DEF PurgeOk
    <2>3. \A k, m \in 1..Len(g) : g[k] = g[m] /\ ~g[k].gone => k = m
      BY <1>2, <1>3, <1>4, <1>7 DEF PurgeOk
    <2> QED BY <1>6, <2>1, <2>2, <2>3 DEF PurgeOk
  <1> QED BY <1>6, <1>7 DEF r, g

LEMMA DestroyIs ==
    ASSUME TypeOK, NEW p \in Peer, NEW i \in Po, Destroy(p, i)
    PROVE  \E r : Becomes(p, r)
  <1> DEFINE s == sw[p]
             t == [s EXCEPT !.purge = Replaced(s, i)]
             e == [po |-> i, gone |-> TRUE]
             g == IF s.lif[i].bound /\ s.state = "EXCHANGE" THEN << e >> \o Replaced(s, i)
                                                            ELSE Replaced(s, i)
             r == PutBoth(t, i, NoIf, g)
  <1>1. s \in Switch
    BY DEF TypeOK
  <1>2. /\ t \in Switch /\ t.state = s.state /\ t.wait = s.wait /\ t.lif = s.lif
        /\ t.purge = Replaced(s, i) /\ (PurgeOk(s) => PurgeOk(t))
    BY <1>1, ReplacedPurge
  <1>3. g \in Seq(Purged)
    <2>1. << e >> \in Seq(Purged)
      BY DEF Purged
    <2>2. Replaced(s, i) \in Seq(Purged)
      BY <1>2, PurgeTypes
    <2> QED BY <2>1, <2>2
  <1>4. NoIf \in LocalIf /\ ~NoIf.bound
    BY DEF NoIf, LocalIf
  <1>5. sw' = [sw EXCEPT ![p] = r]
    <2> DEFINE q == [sw[p] EXCEPT !.lif[i] = NoIf, !.purge = g]
    <2>1. sw' = [sw EXCEPT ![p].lif[i] = NoIf, ![p].purge = g]
      BY DEF Destroy, Replaced
    <2>2. q = r
      BY <1>1 DEF PutBoth, Switch
    <2> HIDE DEF r, g
    <2>3. sw' = [sw EXCEPT ![p] = q]
      BY <2>1 DEF TypeOK
    <2> QED BY <2>2, <2>3
  <1> HIDE DEF t
  <1>6. r \in Switch /\ WithLif(r, t, i, NoIf) /\ r.purge = g
    <2> HIDE DEF g
    <2> QED BY <1>2, <1>3, <1>4, LifReplaced
  <1>7. PurgeOk(t) => PurgeOk(r)
    <2>1. CASE t.lif[i].bound
      <3>1. r.purge = IF t.state = "EXCHANGE" THEN << [po |-> i, gone |-> TRUE] >> \o t.purge
                                              ELSE t.purge
        BY <1>2, <1>6, <2>1
      <3> HIDE DEF r
      <3> QED BY <1>2, <1>4, <1>6, <2>1, <3>1, PurgeAdded
    <2>2. CASE ~t.lif[i].bound
      <3>1. r.purge = t.purge /\ NoIf.bound = t.lif[i].bound
        BY <1>2, <1>4, <1>6, <2>2 DEF Switch, LocalIf, NoIf
      <3> HIDE DEF r
      <3> QED BY <1>2, <1>4, <1>6, <3>1, PurgeKept
    <2> QED BY <2>1, <2>2
  <1> HIDE DEF r
  <1>8. Becomes(p, r)
    BY <1>2, <1>5, <1>6, <1>7 DEF Becomes, WithLif
  <1> QED BY <1>8

LEMMA CreateIs ==
    ASSUME TypeOK, NEW p \in Peer, NEW i \in Po, NEW up \in BOOLEAN, Create(p, i, up)
    PROVE  \E r : Becomes(p, r)
  <1> DEFINE s == sw[p]
             t == PutLif(s, i, NewIf(up))
             r == IF i \in t.bind THEN Bound(t, i) ELSE t
  <1>1. s \in Switch /\ s.purge \in Seq(Purged) /\ s.lif \in [Po -> LocalIf]
    BY DEF TypeOK, Switch
  <1>2. NewIf(up) \in LocalIf /\ ~NewIf(up).bound
    BY DEF NewIf, LocalIf
  <1>3. t \in Switch /\ WithLif(t, s, i, NewIf(up)) /\ t.purge = s.purge
    BY <1>1, <1>2, LifReplaced
  <1>4. sw' = [sw EXCEPT ![p] = r]
    BY DEF Create, PutLif
  <1> HIDE DEF t, s
  <1>5. PurgeOk(s) => PurgeOk(t)
    <2>1. \A j \in Po : t.lif[j].bound => s.lif[j].bound
      BY <1>1, <1>2, <1>3 DEF WithLif
    <2>2. \A k \in 1..Len(s.purge) : s.purge[k].po \in Po
      BY <1>1, PurgeTypes
    <2> QED BY <1>3, <2>1, <2>2 DEF PurgeOk, WithLif
  <1>6. Bound(t, i) \in Switch /\ Bound(t, i).state = t.state /\ Bound(t, i).wait = t.wait
    BY <1>3, BoundFields DEF WithLif
  <1>7. PurgeOk(t) => PurgeOk(Bound(t, i))
    BY <1>3, BoundPurge
  <1>8. Becomes(p, r)
    BY <1>3, <1>4, <1>5, <1>6, <1>7 DEF Becomes, WithLif, s
  <1> QED BY <1>8

(* What the environment does to p. *)
Disturbs(p) ==
    \E i \in Po : \/ LinkChange(p, i) \/ ConfigChange(p, i) \/ Attach(p, i) \/ Detach(p, i)
                  \/ Destroy(p, i) \/ \E up \in BOOLEAN : Create(p, i, up)

LEMMA DisturbsIs ==
    ASSUME TypeOK, NEW p \in Peer, Disturbs(p)
    PROVE  /\ \E r : Becomes(p, r)
           /\ UNCHANGED <<joined, ch>>
           /\ wanted' \in [Peer -> SUBSET Po] /\ events' \in 0..MaxEvents
  <1>1. PICK i \in Po : \/ LinkChange(p, i) \/ ConfigChange(p, i) \/ Attach(p, i) \/ Detach(p, i)
                        \/ Destroy(p, i) \/ \E up \in BOOLEAN : Create(p, i, up)
    BY DEF Disturbs
  <1>2. UNCHANGED <<joined, ch>>
    BY <1>1 DEF LinkChange, ConfigChange, Attach, Detach, Destroy, Create
  <1>3. \E r : Becomes(p, r)
    BY <1>1, LinkChangeIs, ConfigChangeIs, AttachIs, DetachIs, DestroyIs, CreateIs
  <1>4. wanted \in [Peer -> SUBSET Po] /\ events \in 0..MaxEvents
    BY DEF TypeOK
  <1>5. wanted' \in [Peer -> SUBSET Po]
    <2>1. \/ wanted' = wanted \/ wanted' = [wanted EXCEPT ![p] = @ \cup {i}]
          \/ wanted' = [wanted EXCEPT ![p] = @ \ {i}]
      BY <1>1 DEF LinkChange, ConfigChange, Attach, Detach, Destroy, Create
    <2> QED BY <1>4, <2>1
  <1>6. events' \in 0..MaxEvents
    <2>1. Spend \/ events' = events
      BY <1>1 DEF LinkChange, ConfigChange, Attach, Detach, Destroy, Create
    <2> QED BY <1>4, <2>1, BoundAssumption DEF Spend
  <1> QED BY <1>2, <1>3, <1>5, <1>6

LEMMA NextCases ==
    ASSUME Next
    PROVE  \/ Join
           \/ \E p \in Peer : \E n \in 0..1 : Turn(p, n)
           \/ \E p \in Peer : Leave(p)
           \/ \E p \in Peer : Disturbs(p)
  BY DEF Next, Disturbs

-----------------------------------------------------------------------------
(* Type correctness. *)

LEMMA TypeInit ==
    ASSUME Init
    PROVE  TypeOK
  <1>1. \A up \in BOOLEAN : NewIf(up) \in LocalIf
    BY DEF NewIf, LocalIf
  <1> DEFINE Purges == Seq(Purged)
             Msgs == Seq(Msg)
  <1>2. <<>> \in Purges /\ <<>> \in Msgs
    OBVIOUS
  <1>3. Switch = [state : State, wait : BOOLEAN, need : BOOLEAN, lif : [Po -> LocalIf],
                  pif : [Po -> PeerIf], purge : Purges, bind : SUBSET Po]
    BY DEF Switch
  <1> HIDE DEF Purges
  <1>4. ASSUME NEW s \in [state : {"INIT"}, wait : {FALSE}, need : {FALSE},
                          lif : [Po -> {NewIf(up) : up \in BOOLEAN}],
                          pif : {[i \in Po |-> "none"]}, purge : {<<>>}, bind : {{}}]
        PROVE  s \in Switch
    <2>1. s.lif \in [Po -> LocalIf]
      BY <1>1
    <2>2. s.pif \in [Po -> PeerIf]
      BY DEF PeerIf
    <2> QED BY <1>2, <1>3, <2>1, <2>2 DEF State
  <1>5. sw \in [Peer -> Switch]
    <2> DEFINE T == [state : {"INIT"}, wait : {FALSE}, need : {FALSE},
                     lif : [Po -> {NewIf(up) : up \in BOOLEAN}],
                     pif : {[i \in Po |-> "none"]}, purge : {<<>>}, bind : {{}}]
    <2>1. sw \in [Peer -> T]
      BY DEF Init
    <2>2. \A s \in T : s \in Switch
      BY <1>4
    <2> HIDE DEF T
    <2> QED BY <2>1, <2>2
  <1> HIDE DEF Msgs
  <1>6. ch \in [Peer -> Msgs]
    BY <1>2 DEF Init
  <1> QED BY <1>5, <1>6, BoundAssumption DEF Init, TypeOK, Msgs

LEMMA TypeStep ==
    ASSUME TypeOK, [Next]_vars
    PROVE  TypeOK'
  <1> DEFINE Msgs == Seq(Msg)
  <1>0. /\ joined \in [Peer -> BOOLEAN] /\ sw \in [Peer -> Switch] /\ ch \in [Peer -> Msgs]
        /\ wanted \in [Peer -> SUBSET Po] /\ events \in 0..MaxEvents
    BY DEF TypeOK
  <1>1. CASE Join
    BY <1>0, <1>1 DEF Join, TypeOK
  <1>2. ASSUME NEW p \in Peer, NEW n \in 0..1, Turn(p, n) PROVE TypeOK'
    <2>1. /\ UNCHANGED <<joined, wanted, events>> /\ (n = 1 => ch[p] # <<>> /\ Head(ch[p]) \in Msg)
          /\ sw' = [sw EXCEPT ![p] = After(p, n)]
      BY <1>2, TurnParts
    <2>2. PICK a \in SetToSeqs(AcksIn(p, n)), o \in SetToSeqs(Po) :
                 ch' = [ch EXCEPT ![p] = IF n = 0 THEN ch[p] ELSE Tail(ch[p]),
                                  ![Other(p)] = IF joined[Other(p)]
                                                THEN ch[Other(p)] \o SentIn(p, n, a, o)
                                                ELSE ch[Other(p)]]
      BY <1>2, TurnParts
    <2>3. After(p, n) \in Switch /\ SentIn(p, n, a, o) \in Msgs
      BY <2>1, TurnTypes
    <2>4. sw' \in [Peer -> Switch]
      BY <1>0, <2>1, <2>3
    <2>5. (IF n = 0 THEN ch[p] ELSE Tail(ch[p])) \in Msgs
      BY <1>0, <2>1
    <2>6. (IF joined[Other(p)] THEN ch[Other(p)] \o SentIn(p, n, a, o) ELSE ch[Other(p)]) \in Msgs
      BY <1>0, <2>3, TwoPeers
    <2> HIDE DEF Msgs
    <2>7. ch' \in [Peer -> Msgs]
      BY <1>0, <2>2, <2>5, <2>6
    <2> QED BY <1>0, <2>1, <2>4, <2>7 DEF TypeOK, Msgs
  <1>3. ASSUME NEW p \in Peer, Leave(p) PROVE TypeOK'
    <2>1. Disconnected(sw[p]) \in Switch
      BY <1>0, DisconnectedFields
    <2>2. sw' \in [Peer -> Switch]
      BY <1>0, <1>3, <2>1 DEF Leave
    <2>3. <<>> \in Msgs
      OBVIOUS
    <2> HIDE DEF Msgs
    <2>4. ch' \in [Peer -> Msgs]
      BY <1>0, <1>3, <2>3 DEF Leave
    <2>5. events' \in 0..MaxEvents
      BY <1>0, <1>3, BoundAssumption DEF Leave, Spend
    <2>6. joined' \in [Peer -> BOOLEAN] /\ wanted' = wanted
      BY <1>0, <1>3 DEF Leave
    <2> QED BY <1>0, <2>2, <2>4, <2>5, <2>6 DEF TypeOK, Msgs
  <1>4. ASSUME NEW p \in Peer, Disturbs(p) PROVE TypeOK'
    <2>1. PICK r : Becomes(p, r)
      BY <1>4, DisturbsIs
    <2>2. sw' \in [Peer -> Switch]
      BY <1>0, <2>1 DEF Becomes
    <2> QED BY <1>0, <1>4, <2>2, DisturbsIs DEF TypeOK
  <1>5. CASE UNCHANGED vars
    BY <1>5 DEF TypeOK, vars
  <1> QED BY <1>1, <1>2, <1>3, <1>4, <1>5, NextCases

(* The types of TypeOK hold in every run, with whatever the two switches    *)
(* are sent and the environment does.                                       *)
THEOREM MlacpTypeCorrect == Spec => []TypeOK
  BY TypeInit, TypeStep, PTL DEF Spec

-----------------------------------------------------------------------------
(* The kinds of turn, by the state of p and by what it reads. *)

(* Nothing is added by an empty sequence. *)
LEMMA EmptyAdds ==
    /\ <<>> \in Seq(Msg)
    /\ \A x \in Seq(Msg) : x \o <<>> = x /\ <<>> \o x = x
  BY ConcatEmptySeq

LEMMA TailOfOne ==
    ASSUME NEW x \in Seq(Msg), Len(x) = 1
    PROVE  Tail(x) = <<>>
  <1>1. x # <<>>
    OBVIOUS
  <1>2. Tail(x) \in Seq(Msg) /\ Len(Tail(x)) = 0
    BY <1>1
  <1> QED BY <1>2, EmptySeq

LEMMA AskedFields ==
    ASSUME NEW p \in Peer, sw[p] \in Switch
    PROVE  LET s == sw[p]
               r == Asked(p)
           IN  /\ r \in Switch /\ SameMembers(r, s)
               /\ r.need = s.need /\ r.pif = s.pif /\ r.lif = s.lif
               /\ r.state = IF s.state = "INIT" THEN "STAGE1" ELSE s.state
               /\ MustRequest(p, Started(s)) =>
                     r.wait /\ ((s.state = "INIT" /\ p = Standby) \/ (Requester(p, s) /\ ~s.wait))
               /\ ~MustRequest(p, Started(s)) => r = Started(s) /\ (r.wait <=> s.wait /\ s.state # "INIT")
               /\ ~MustRequest(p, r)
  <1> DEFINE s == sw[p]
             t == Started(s)
             r == Asked(p)
  <1>1. /\ t \in Switch /\ SameMembers(t, s)
        /\ t.need = s.need /\ t.pif = s.pif /\ t.lif = s.lif
        /\ t.state = IF s.state = "INIT" THEN "STAGE1" ELSE s.state
        /\ t.wait <=> s.wait /\ s.state # "INIT"
    BY StartedFields
  <1>2. r = Requested(p, t)
    BY DEF Asked
  <1> HIDE DEF t, r
  <1>3. /\ r \in Switch /\ SameMembers(r, t)
        /\ r.state = t.state /\ r.need = t.need /\ r.pif = t.pif /\ r.lif = t.lif
        /\ r.wait <=> t.wait \/ MustRequest(p, t)
    BY <1>1, <1>2, RequestedFields
  <1>4. SameMembers(r, s)
    BY <1>1, <1>3 DEF SameMembers
  <1>5. ~MustRequest(p, t) => r = t
    BY <1>2 DEF Requested
  <1>6. MustRequest(p, t) => ((s.state = "INIT" /\ p = Standby) \/ (Requester(p, s) /\ ~s.wait))
    <2>1. CASE s.state = "INIT"
      BY <1>1, <2>1 DEF MustRequest, Requester
    <2>2. CASE s.state # "INIT"
      <3>1. t = s
        BY <2>2 DEF Started, t
      <3> QED BY <3>1 DEF MustRequest
    <2> QED BY <2>1, <2>2
  <1>7. ~MustRequest(p, r)
    BY <1>3 DEF MustRequest, Requester
  <1> QED BY <1>1, <1>3, <1>4, <1>5, <1>6, <1>7 DEF t, r

(* A turn that reads nothing, before EXCHANGE or in ERROR. *)
LEMMA IdleTurn ==
    ASSUME NEW p \in Peer, sw[p] \in Switch, sw[p].state # "EXCHANGE",
           NEW a \in SetToSeqs(AcksIn(p, 0)), NEW o
    PROVE  After(p, 0) = Asked(p) /\ SentIn(p, 0, a, o) = Request(p, Started(sw[p]))
  <1>1. /\ Asked(p) \in Switch /\ ~MustRequest(p, Asked(p)) /\ Asked(p).state # "EXCHANGE"
    BY AskedFields
  <1>2. Read(p, 0) = Asked(p) /\ Done(p, 0) = Asked(p)
    BY <1>1 DEF Read, Done, Requested
  <1>3. After(p, 0) = Asked(p) /\ ~Flushes(p, 0)
    BY <1>1, <1>2 DEF After, Flushes
  <1>4. /\ AnswerIn(p, 0) = <<>> /\ Request(p, Read(p, 0)) = <<>> /\ PendingIn(p, 0, o) = <<>>
        /\ a = <<>>
    BY <1>1, <1>2, <1>3, NoElements DEF AnswerIn, Request, PendingIn, AcksIn
  <1>5. Request(p, Started(sw[p])) \in Seq(Msg)
    BY RequestIs
  <1>6. SentIn(p, 0, a, o) = (((Request(p, Started(sw[p])) \o <<>>) \o <<>>) \o <<>>) \o <<>>
    BY <1>4 DEF SentIn
  <1> HIDE DEF SentIn
  <1>7. SentIn(p, 0, a, o) = Request(p, Started(sw[p]))
    BY <1>5, <1>6, EmptyAdds, Zenon
  <1> QED BY <1>3, <1>7

(* p answers the request of its peer, in STAGE1 or STAGE2. *)
LEMMA AnsweringTurn ==
    ASSUME NEW p \in Peer, sw[p] \in Switch, Sender(p, Started(sw[p])), ~Started(sw[p]).wait,
           Head(ch[p]) \in Msg, IsRequest(Head(ch[p])),
           NEW a \in SetToSeqs(AcksIn(p, 1)), NEW o \in SetToSeqs(Po)
    PROVE  LET s == Started(sw[p])
               r == SentAll(s)
               req == << [type |-> "SYNC_REQ"] >>
           IN  /\ s \in Switch /\ r \in Switch /\ Asked(p) = s /\ Info(s) \in Msg
               /\ p = Active => /\ s.state = "STAGE1" /\ r.state = "STAGE2"
                                /\ After(p, 1) = Requested(p, r) /\ MustRequest(p, r)
                                /\ SentIn(p, 1, a, o) = << Info(s) >> \o req
               /\ p = Standby => /\ s.state = "STAGE2" /\ r.state = "EXCHANGE"
                                 /\ After(p, 1) = Flushed(r)
                                 /\ SentIn(p, 1, a, o) = << Info(s) >> \o Pending(r, o)
  <1> DEFINE s == Started(sw[p])
             r == SentAll(s)
             m == Head(ch[p])
             req == << [type |-> "SYNC_REQ"] >>
  <1>0. /\ (p = Active <=> s.state = "STAGE1") /\ (p = Standby <=> s.state = "STAGE2")
        /\ s.state \in {"STAGE1", "STAGE2"} /\ ~Requester(p, s)
    BY PeerAssumption DEF Sender, Requester, Peer
  <1>1. s \in Switch /\ Asked(p) = s /\ ~MustRequest(p, s)
    <2>1. ~MustRequest(p, s)
      BY <1>0 DEF MustRequest
    <2>2. s \in Switch
      BY StartedFields
    <2> QED BY <2>1, <2>2 DEF Asked, Requested
  <1>2. Read(p, 1) = r /\ r \in Switch /\ ~r.wait
        /\ r.state = (IF s.state = "STAGE1" THEN "STAGE2" ELSE "EXCHANGE")
    <2>1. Read(p, 1) = Handled(p, s, m)
      BY <1>1 DEF Read
    <2>2. Handled(p, s, m) = r
      <3> HIDE DEF s
      <3> QED BY <1>0 DEF Handled, IsRequest, s
    <2> HIDE DEF s
    <2>3. r \in Switch /\ ~r.wait /\ r.state = (IF s.state = "STAGE1" THEN "STAGE2" ELSE "EXCHANGE")
      BY <1>0, <1>1, SentAllFields
    <2> QED BY <2>1, <2>2, <2>3
  <1>3. Acks(s, m) = {}
    BY <1>0, <1>1, AcksAre
  <1>4. a = <<>>
    BY <1>1, <1>3, NoElements DEF AcksIn
  <1>5. AnswerIn(p, 1) = << Info(s) >> /\ Info(s) \in Msg
    <2> HIDE DEF s
    <2>1. AnswerIn(p, 1) = Answer(p, s, m)
      BY <1>1 DEF AnswerIn
    <2>2. Answer(p, s, m) = << Info(s) >>
      BY DEF Answer, IsRequest, s
    <2> QED BY <1>1, <2>1, <2>2, InfoType
  <1>6. SentIn(p, 1, a, o) = (((<<>> \o << Info(s) >>) \o Request(p, r)) \o <<>>) \o PendingIn(p, 1, o)
    BY <1>1, <1>2, <1>4, <1>5, RequestIs DEF SentIn
  <1>7. req \in Seq(Msg) /\ << Info(s) >> \in Seq(Msg)
    BY <1>5 DEF Msg
  <1> HIDE DEF s, r, req
  <1>8. Flushes(p, 1) <=> s.state = "STAGE2"
    <2>1. Done(p, 1).state = r.state
      BY <1>2, RequestedFields DEF Done
    <2> QED BY <1>0, <1>1, <1>2, <2>1 DEF Flushes
  <1>9. CASE p = Active
    <2>1. MustRequest(p, r)
      BY <1>0, <1>2, <1>9 DEF MustRequest, Requester
    <2>2. After(p, 1) = Requested(p, r) /\ PendingIn(p, 1, o) = <<>>
      BY <1>0, <1>2, <1>8, <1>9 DEF After, Done, PendingIn
    <2>3. Request(p, r) = req
      BY <2>1, RequestIs DEF req
    <2>4. (((<<>> \o << Info(s) >>) \o req) \o <<>>) \o <<>> = << Info(s) >> \o req
      <3>1. << Info(s) >> \o req \in Seq(Msg)
        BY <1>7
      <3> QED BY <1>7, <3>1, EmptyAdds
    <2>5. SentIn(p, 1, a, o) = << Info(s) >> \o req
      BY <1>6, <2>2, <2>3, <2>4
    <2> QED BY <1>0, <1>1, <1>2, <1>5, <1>9, <2>1, <2>2, <2>5, PeerAssumption DEF s, r, req
  <1>10. CASE p = Standby
    <2>1. ~MustRequest(p, r)
      BY <1>0, <1>2, <1>10 DEF MustRequest, Requester
    <2>2. Done(p, 1) = r
      BY <1>2, <2>1 DEF Done, Requested
    <2>3. After(p, 1) = Flushed(r) /\ PendingIn(p, 1, o) = Pending(r, o)
      BY <1>0, <1>8, <1>10, <2>2 DEF After, PendingIn
    <2>4. Request(p, r) = <<>>
      BY <2>1, RequestIs
    <2>5. (((<<>> \o << Info(s) >>) \o <<>>) \o <<>>) \o Pending(r, o) = << Info(s) >> \o Pending(r, o)
      BY <1>7, EmptyAdds
    <2>6. SentIn(p, 1, a, o) = << Info(s) >> \o Pending(r, o)
      BY <1>6, <2>3, <2>4, <2>5
    <2> QED BY <1>0, <1>1, <1>2, <1>5, <1>10, <2>3, <2>6, PeerAssumption DEF s, r
  <1> QED BY <1>9, <1>10 DEF Peer

(* p takes the answer of its peer, in STAGE1 or STAGE2. *)
LEMMA LearningTurn ==
    ASSUME NEW p \in Peer, sw[p] \in Switch, Requester(p, sw[p]), sw[p].wait,
           Head(ch[p]) \in Msg, IsInfo(Head(ch[p])),
           NEW a \in SetToSeqs(AcksIn(p, 1)), NEW o \in SetToSeqs(Po)
    PROVE  LET s == sw[p]
               d == Learned(s, Head(ch[p]).po)
               r == Advanced(d)
           IN  /\ d \in Switch /\ r \in Switch /\ ~d.wait /\ ~r.wait /\ d.state = s.state
               /\ Asked(p) = s
               /\ p = Standby => /\ s.state = "STAGE1" /\ r.state = "STAGE2"
                                 /\ After(p, 1) = r /\ SentIn(p, 1, a, o) = <<>>
               /\ p = Active => /\ s.state = "STAGE2" /\ r.state = "EXCHANGE"
                                /\ After(p, 1) = Flushed(r)
                                /\ SentIn(p, 1, a, o) = Pending(r, o)
  <1> DEFINE s == sw[p]
             m == Head(ch[p])
             d == Learned(s, m.po)
             r == Advanced(d)
  <1>0. /\ (p = Active <=> s.state = "STAGE2") /\ (p = Standby <=> s.state = "STAGE1")
        /\ s.state \in {"STAGE1", "STAGE2"} /\ ~Sender(p, s)
    BY PeerAssumption DEF Sender, Requester, Peer
  <1>1. Started(s) = s /\ Asked(p) = s /\ ~MustRequest(p, s)
    BY <1>0 DEF Started, Asked, Requested, MustRequest
  <1>2. m.po \in [Po -> PeerIf] /\ m.type = "INFO"
    BY MsgCases DEF IsInfo
  <1>3. d \in Switch /\ d.state = s.state /\ ~d.wait
    BY <1>2, LearnedFields
  <1>4. r \in Switch /\ ~r.wait
        /\ r.state = (IF s.state = "STAGE1" THEN "STAGE2" ELSE "EXCHANGE")
    <2> HIDE DEF d
    <2>1. /\ r \in Switch /\ r.wait = d.wait
          /\ r.state = CASE d.state = "STAGE1" -> "STAGE2"
                         [] d.state = "STAGE2" -> "EXCHANGE"
                         [] OTHER -> "ERROR"
      BY <1>3, AdvancedFields
    <2> HIDE DEF r, s
    <2> QED BY <1>0, <1>3, <2>1
  <1>5. Read(p, 1) = r
    <2>1. Received(s, m) = d
      BY <1>2 DEF Received
    <2> HIDE DEF d
    <2>2. Handled(p, s, m) = r
      BY <1>0, <1>3, <2>1 DEF Handled
    <2> QED BY <1>1, <2>2 DEF Read
  <1>6. a = <<>>
    <2>1. Acks(s, m) = {}
      BY <1>0, AcksAre
    <2> QED BY <1>1, <2>1, NoElements DEF AcksIn
  <1>7. AnswerIn(p, 1) = <<>>
    BY <1>1, <1>2 DEF AnswerIn, Answer
  <1> HIDE DEF r, d, s
  <1>8. ~MustRequest(p, r)
    BY <1>0, <1>4, PeerAssumption DEF MustRequest, Requester
  <1>9. Done(p, 1) = r
    BY <1>5, <1>8 DEF Done, Requested
  <1>10. SentIn(p, 1, a, o) = (((<<>> \o <<>>) \o <<>>) \o <<>>) \o PendingIn(p, 1, o)
    BY <1>1, <1>5, <1>6, <1>7, <1>8, RequestIs DEF SentIn, s
  <1>11. /\ After(p, 1) = IF s.state = "STAGE2" THEN Flushed(r) ELSE r
         /\ PendingIn(p, 1, o) = IF s.state = "STAGE2" THEN Pending(r, o) ELSE <<>>
    BY <1>0, <1>1, <1>4, <1>9 DEF After, PendingIn, Flushes
  <1>12. PendingIn(p, 1, o) \in Seq(Msg)
    BY <1>4, <1>11, EmptyAdds, PendingIs
  <1>13. (((<<>> \o <<>>) \o <<>>) \o <<>>) \o PendingIn(p, 1, o) = PendingIn(p, 1, o)
    BY <1>12, EmptyAdds
  <1> QED BY <1>0, <1>1, <1>3, <1>4, <1>10, <1>11, <1>13 DEF r, d, s

(* A turn in EXCHANGE, without a message and with one. *)
LEMMA ExchangeTurn ==
    ASSUME NEW p \in Peer, sw[p] \in Switch, sw[p].state = "EXCHANGE", NEW n \in 0..1,
           n = 1 => Head(ch[p]) \in Msg,
           NEW a \in SetToSeqs(AcksIn(p, n)), NEW o \in SetToSeqs(Po)
    PROVE  LET s == sw[p]
               m == Head(ch[p])
               r == IF n = 0 THEN s ELSE Received(s, m)
           IN  /\ r \in Switch /\ r.state \in {"EXCHANGE", "ERROR"}
               /\ After(p, n) = Flushed(r)
               /\ n = 0 => SentIn(p, n, a, o) = Pending(r, o)
               /\ n = 1 => /\ a \in SetToSeqs(Acks(s, m))
                           /\ ~IsRequest(m) /\ a \in Seq(Msg) =>
                                 SentIn(p, n, a, o) = a \o Pending(r, o)
  <1> DEFINE s == sw[p]
             m == Head(ch[p])
             r == IF n = 0 THEN s ELSE Received(s, m)
  <1>1. Started(s) = s /\ Asked(p) = s /\ ~MustRequest(p, s) /\ ~Sender(p, s) /\ ~Requester(p, s)
    BY DEF Started, Asked, Requested, MustRequest, Requester, Sender
  <1>2. Read(p, n) = r
    BY <1>1 DEF Read, Handled
  <1>3. r \in Switch /\ r.state \in {"EXCHANGE", "ERROR"}
    <2>1. CASE n = 0
      BY <2>1
    <2>2. CASE n = 1
      <3>1. Received(s, m) \in Switch /\ Received(s, m).state \in {"EXCHANGE", "ERROR"}
        BY <2>2, ReceivedFields
      <3> QED BY <2>2, <3>1
    <2> QED BY <2>1, <2>2
  <1> HIDE DEF r
  <1>4. ~MustRequest(p, r)
    BY <1>3 DEF MustRequest, Requester
  <1>5. Done(p, n) = r /\ Flushes(p, n)
    BY <1>1, <1>2, <1>4 DEF Done, Requested, Flushes
  <1>6. After(p, n) = Flushed(r) /\ PendingIn(p, n, o) = Pending(r, o)
    BY <1>5 DEF After, PendingIn
  <1>7. Pending(r, o) \in Seq(Msg)
    BY <1>3, PendingIs
  <1>8. SentIn(p, n, a, o) = (((<<>> \o AnswerIn(p, n)) \o <<>>) \o a) \o Pending(r, o)
    BY <1>1, <1>2, <1>4, <1>6, RequestIs DEF SentIn
  <1>9. CASE n = 0
    <2>1. a = <<>> /\ AnswerIn(p, n) = <<>>
      BY <1>9, NoElements DEF AcksIn, AnswerIn
    <2>2. (((<<>> \o <<>>) \o <<>>) \o <<>>) \o Pending(r, o) = Pending(r, o)
      BY <1>7, EmptyAdds
    <2>3. SentIn(p, n, a, o) = Pending(r, o)
      BY <1>8, <2>1, <2>2
    <2> QED BY <1>3, <1>6, <1>9, <2>3 DEF r
  <1>10. CASE n = 1
    <2>1. a \in SetToSeqs(Acks(s, m))
      BY <1>1, <1>10 DEF AcksIn
    <2>2. ASSUME ~IsRequest(m), a \in Seq(Msg) PROVE SentIn(p, n, a, o) = a \o Pending(r, o)
      <3>1. AnswerIn(p, n) = <<>>
        BY <1>10, <2>2 DEF AnswerIn, Answer, IsRequest
      <3>2. (((<<>> \o <<>>) \o <<>>) \o a) = a
        BY <2>2, EmptyAdds
      <3> QED BY <1>8, <3>1, <3>2
    <2> QED BY <1>3, <1>6, <1>10, <2>1, <2>2 DEF r
  <1> QED BY <1>9, <1>10

(* Nobody leaves ERROR but with the session. *)
LEMMA ErrorTurn ==
    ASSUME NEW p \in Peer, sw[p] \in Switch, sw[p].state = "ERROR", NEW n \in 0..1
    PROVE  After(p, n) = sw[p]
  <1> DEFINE s == sw[p]
  <1>1. Asked(p) = s /\ ~MustRequest(p, s) /\ ~Sender(p, s) /\ ~Requester(p, s)
    BY DEF Started, Asked, Requested, MustRequest, Requester, Sender
  <1>2. Read(p, n) = s
    BY <1>1 DEF Read, Handled
  <1>3. Done(p, n) = s
    BY <1>1, <1>2 DEF Done, Requested
  <1> QED BY <1>1, <1>3 DEF After, Flushes

(* The active switch is never found waiting in STAGE1. *)
LEMMA ActiveAnswers ==
    ASSUME sw[Active] \in Switch, NEW n \in 0..1, n = 1 => Head(ch[Active]) \in Msg,
           sw[Active].state = "STAGE1" => ~sw[Active].wait
    PROVE  After(Active, n).state = "STAGE1" => ~After(Active, n).wait
  <1> DEFINE p == Active
             s == Asked(p)
             m == Head(ch[p])
             t == Read(p, n)
             r == Done(p, n)
  <1>1. /\ s \in Switch /\ p \in Peer /\ p # Standby
        /\ s.state = "STAGE1" => ~s.wait
    <2>1. p \in Peer /\ p # Standby
      BY PeerAssumption DEF Peer
    <2>2. /\ s \in Switch /\ s.state = IF sw[p].state = "INIT" THEN "STAGE1" ELSE sw[p].state
          /\ MustRequest(p, Started(sw[p])) =>
                ((sw[p].state = "INIT" /\ p = Standby) \/ (Requester(p, sw[p]) /\ ~sw[p].wait))
          /\ ~MustRequest(p, Started(sw[p])) => (s.wait <=> sw[p].wait /\ sw[p].state # "INIT")
      BY <2>1, AskedFields
    <2>3. s.state = "STAGE1" => ~MustRequest(p, Started(sw[p]))
      BY <2>1, <2>2 DEF Requester
    <2> QED BY <2>1, <2>2, <2>3
  <1> HIDE DEF s
  <1>2. t \in Switch /\ (t.state = "STAGE1" => ~t.wait)
    <2>1. CASE n = 0
      BY <1>1, <2>1 DEF Read, s
    <2>2. CASE n = 1
      <3>1. t = Handled(p, s, m)
        BY <2>2 DEF Read, s
      <3> HIDE DEF t
      <3>2. CASE Sender(p, s)
        <4>1. s.state \in {"STAGE1", "STAGE2"} /\ ~Requester(p, s)
          BY <3>2 DEF Sender
        <4>2. t = SentAll(s) \/ t = s
          BY <3>1, <3>2, <4>1 DEF Handled
        <4> QED BY <1>1, <4>2, SentAllFields
      <3>3. CASE Requester(p, s)
        <4> DEFINE w == [s EXCEPT !.wait = TRUE]
                   d == Received(s, m)
        <4>1. s.state = "STAGE2" /\ ~Sender(p, s)
          BY <1>1, <3>3 DEF Requester, Sender
        <4>2. t = w \/ t = d \/ t = Advanced(d)
          BY <3>1, <3>3, <4>1 DEF Handled
        <4>3. w \in Switch /\ w.state = "STAGE2"
          BY <1>1, <4>1 DEF Switch
        <4>4. d \in Switch /\ d.state \in {"STAGE2", "EXCHANGE"}
          BY <1>1, <2>2, <4>1, ReceivedFields
        <4> HIDE DEF w, d
        <4>5. Advanced(d) \in Switch /\ Advanced(d).state # "STAGE1"
          BY <4>4, AdvancedFields
        <4> QED BY <4>2, <4>3, <4>4, <4>5
      <3>4. CASE ~Sender(p, s) /\ ~Requester(p, s)
        <4>1. s.state # "STAGE1"
          BY <3>4 DEF Sender
        <4>2. s.state = "INIT" \/ s.state \in {"EXCHANGE", "ERROR"}
          BY <1>1, <3>4 DEF Sender, Switch, State
        <4>3. s.state # "INIT"
          BY <1>1, AskedFields DEF s
        <4> QED BY <1>1, <2>2, <3>1, <4>2, <4>3, HandledFields
      <3> QED BY <3>2, <3>3, <3>4
    <2> QED BY <2>1, <2>2
  <1> HIDE DEF t
  <1>3. r \in Switch /\ (r.state = "STAGE1" => ~r.wait)
    <2>1. /\ Requested(p, t) \in Switch /\ Requested(p, t).state = t.state
          /\ Requested(p, t).wait <=> t.wait \/ MustRequest(p, t)
      BY <1>2, RequestedFields
    <2>2. t.state = "STAGE1" => ~MustRequest(p, t)
      BY <1>1 DEF MustRequest, Requester
    <2> QED BY <1>2, <2>1, <2>2 DEF Done, t
  <1>4. After(p, n) = Flushed(r) \/ After(p, n) = r
    BY DEF After
  <1> HIDE DEF r
  <1> QED BY <1>3, <1>4, FlushedFields

-----------------------------------------------------------------------------
(* The stages. *)

(* What a turn does to the two switches and the two channels, for p and its *)
(* peer q in a session.                                                     *)
LEMMA TurnInSession ==
    ASSUME TypeOK, NEW p \in Peer, NEW q \in Peer, q # p, joined[q],
           NEW n \in 0..1, Turn(p, n)
    PROVE  /\ UNCHANGED joined /\ sw'[q] = sw[q]
           /\ n = 1 => ch[p] # <<>> /\ Head(ch[p]) \in Msg /\ Head(ch[p]) = ch[p][1]
           /\ ch'[p] = IF n = 0 THEN ch[p] ELSE Tail(ch[p])
           /\ sw'[p] = After(p, n)
           /\ \E a \in SetToSeqs(AcksIn(p, n)), o \in SetToSeqs(Po) :
                 ch'[q] = ch[q] \o SentIn(p, n, a, o)
  <1>1. /\ UNCHANGED <<joined, wanted, events>> /\ (n = 1 => ch[p] # <<>> /\ Head(ch[p]) \in Msg)
        /\ sw' = [sw EXCEPT ![p] = After(p, n)]
    BY TurnParts
  <1>2. PICK a \in SetToSeqs(AcksIn(p, n)), o \in SetToSeqs(Po) :
                 ch' = [ch EXCEPT ![p] = IF n = 0 THEN ch[p] ELSE Tail(ch[p]),
                                  ![Other(p)] = IF joined[Other(p)]
                                                THEN ch[Other(p)] \o SentIn(p, n, a, o)
                                                ELSE ch[Other(p)]]
    BY TurnParts
  <1>3. q = Other(p) /\ sw \in [Peer -> Switch] /\ ch \in [Peer -> Seq(Msg)]
    BY TwoPeers DEF TypeOK
  <1> DEFINE out == SentIn(p, n, a, o)
             rest == IF n = 0 THEN ch[p] ELSE Tail(ch[p])
  <1> HIDE DEF out, rest
  <1>4. ch'[p] = rest /\ ch'[q] = ch[q] \o out
    BY <1>2, <1>3 DEF out, rest
  <1>5. sw'[p] = After(p, n) /\ sw'[q] = sw[q]
    BY <1>1, <1>3
  <1>6. n = 1 => Head(ch[p]) = ch[p][1]
    BY <1>1, <1>3
  <1> QED BY <1>1, <1>4, <1>5, <1>6 DEF out, rest

LEMMA PhaseTurnActive ==
    ASSUME TypeOK, StageInv, NEW n \in 0..1, Turn(Active, n), joined[Standby]
    PROVE  Phase'
  <1> DEFINE p == Active
             q == Standby
  <1>0. /\ p \in Peer /\ q \in Peer /\ q # p /\ Peer = {p, q}
        /\ sw[p] \in Switch /\ sw[q] \in Switch
        /\ ch[p] \in Seq(Msg) /\ ch[q] \in Seq(Msg) /\ joined[p]
    BY PeerAssumption DEF TypeOK, Peer, Turn
  <1>1. Phase /\ (sw[p].state = "STAGE1" => ~sw[p].wait)
    BY <1>0 DEF StageInv
  <1>2. /\ sw'[q] = sw[q] /\ sw'[p] = After(p, n)
        /\ n = 1 => ch[p] # <<>> /\ Head(ch[p]) \in Msg /\ Head(ch[p]) = ch[p][1]
        /\ ch'[p] = IF n = 0 THEN ch[p] ELSE Tail(ch[p])
    BY <1>0, TurnInSession
  <1>3. PICK a \in SetToSeqs(AcksIn(p, n)), o \in SetToSeqs(Po) :
                 ch'[q] = ch[q] \o SentIn(p, n, a, o)
    BY <1>0, TurnInSession
  <1>4. ASSUME n = 0, sw[p].state # "EXCHANGE"
        PROVE  /\ sw'[p] = Asked(p) /\ ch'[p] = ch[p]
               /\ Asked(p).state = (IF sw[p].state = "INIT" THEN "STAGE1" ELSE sw[p].state)
               /\ sw[p].wait /\ sw[p].state # "INIT" => Asked(p) = sw[p]
               /\ sw[p].state \in {"INIT", "STAGE1"} \/ sw[p].wait => ch'[q] = ch[q]
    <2>1. After(p, n) = Asked(p) /\ SentIn(p, n, a, o) = Request(p, Started(sw[p]))
      BY <1>0, <1>4, IdleTurn
    <2>2. sw[p].state \in {"INIT", "STAGE1"} \/ sw[p].wait => ~MustRequest(p, Started(sw[p]))
      BY <1>0, <1>1 DEF MustRequest, Requester, Started
    <2>3. sw[p].state \in {"INIT", "STAGE1"} \/ sw[p].wait => ch'[q] = ch[q]
      <3>1. ~MustRequest(p, Started(sw[p])) => SentIn(p, n, a, o) = <<>>
        BY <2>1, RequestIs
      <3>2. ch[q] \o <<>> = ch[q]
        BY <1>0, EmptyAdds
      <3> QED BY <1>3, <2>2, <3>1, <3>2
    <2>4. sw[p].wait /\ sw[p].state # "INIT" => Asked(p) = sw[p]
      BY <2>2 DEF Asked, Requested, Started
    <2> QED BY <1>0, <1>2, <1>4, <2>1, <2>3, <2>4, AskedFields
  <1>5. CASE NotAsked
    <2>1. n = 0 /\ sw[p].state \in {"INIT", "STAGE1"}
      BY <1>2, <1>5 DEF NotAsked
    <2> QED BY <1>2, <1>4, <1>5, <2>1 DEF NotAsked, Phase
  <1>6. CASE StandbyAsks
    <2>0. sw[p].state \in {"INIT", "STAGE1"}
      BY <1>6 DEF StandbyAsks
    <2>1. CASE n = 0
      BY <1>2, <1>4, <1>6, <2>0, <2>1 DEF StandbyAsks, Phase
    <2>2. CASE n = 1
      <3> DEFINE s == Started(sw[p])
                 r == SentAll(s)
                 x == Info(s)
                 y == [type |-> "SYNC_REQ"]
      <3>1. s.state = "STAGE1" /\ ~s.wait
        BY <1>0, <1>1, <2>0, StartedFields
      <3>2. Sender(p, s)
        BY <1>0, <3>1 DEF Sender, Requester
      <3>3. IsRequest(Head(ch[p])) /\ Head(ch[p]) \in Msg
        BY <1>2, <1>6, <2>2 DEF StandbyAsks
      <3>4. /\ r \in Switch /\ r.state = "STAGE2" /\ After(p, n) = Requested(p, r)
            /\ MustRequest(p, r) /\ SentIn(p, n, a, o) = << x >> \o << y >> /\ x \in Msg
        BY <1>0, <2>2, <3>1, <3>2, <3>3, AnsweringTurn
      <3>5. sw'[p].state = "STAGE2" /\ sw'[p].wait
        <4> HIDE DEF r
        <4> QED BY <1>2, <3>4, RequestedFields
      <3>6. IsInfo(x) /\ IsRequest(y) /\ y \in Msg
        BY DEF IsInfo, Info, IsRequest, Msg
      <3> HIDE DEF x, y
      <3>7. ch'[q] = << x >> \o << y >>
        <4>1. << x >> \o << y >> \in Seq(Msg)
          BY <3>4, <3>6
        <4> QED BY <1>3, <1>6, <3>4, <4>1, EmptyAdds DEF StandbyAsks
      <3>8. Len(ch'[q]) = 2 /\ ch'[q][1] = x /\ ch'[q][2] = y
        BY <3>4, <3>6, <3>7
      <3>9. ch'[p] = <<>>
        <4>1. ch'[p] = Tail(ch[p]) /\ Len(ch[p]) = 1
          BY <1>2, <1>6, <2>2 DEF StandbyAsks
        <4> QED BY <1>0, <4>1, TailOfOne
      <3> QED BY <1>2, <1>6, <3>5, <3>6, <3>8, <3>9 DEF StandbyAsks, ActiveAsks, Phase
    <2> QED BY <2>1, <2>2
  <1>7. CASE ActiveAsks
    <2>1. n = 0 /\ sw[p].state = "STAGE2" /\ sw[p].wait
      BY <1>2, <1>7 DEF ActiveAsks
    <2> QED BY <1>2, <1>4, <1>7, <2>1 DEF ActiveAsks, Phase
  <1>8. CASE StandbyKnows
    <2>1. n = 0 /\ sw[p].state = "STAGE2" /\ sw[p].wait
      BY <1>2, <1>8 DEF StandbyKnows
    <2> QED BY <1>2, <1>4, <1>8, <2>1 DEF StandbyKnows, Phase
  <1>9. CASE StandbyExchanges
    <2>0. sw[p].state = "STAGE2" /\ sw[p].wait
      BY <1>9 DEF StandbyExchanges
    <2>1. CASE n = 0
      BY <1>2, <1>4, <1>9, <2>0, <2>1 DEF StandbyExchanges, Phase
    <2>2. CASE n = 1
      <3> DEFINE r == Advanced(Learned(sw[p], Head(ch[p]).po))
      <3>1. Requester(p, sw[p]) /\ IsInfo(Head(ch[p])) /\ Head(ch[p]) \in Msg
        BY <1>2, <1>9, <2>0, <2>2 DEF Requester, StandbyExchanges
      <3>2. r \in Switch /\ r.state = "EXCHANGE" /\ After(p, n) = Flushed(r)
        BY <1>0, <2>0, <2>2, <3>1, LearningTurn
      <3> HIDE DEF r
      <3>3. sw'[p].state = "EXCHANGE"
        BY <1>2, <3>2, FlushedFields
      <3> QED BY <1>0, <1>2, <1>9, <3>3 DEF StandbyExchanges, BothExchange, Phase
    <2> QED BY <2>1, <2>2
  <1>10. CASE BothExchange
    <2>1. CASE sw[p].state = "EXCHANGE"
      <3> DEFINE r == IF n = 0 THEN sw[p] ELSE Received(sw[p], Head(ch[p]))
      <3>1. r \in Switch /\ r.state \in {"EXCHANGE", "ERROR"} /\ After(p, n) = Flushed(r)
        BY <1>0, <1>2, <2>1, ExchangeTurn
      <3> HIDE DEF r
      <3>2. sw'[p].state \in {"EXCHANGE", "ERROR"}
        BY <1>2, <3>1, FlushedFields
      <3> QED BY <1>0, <1>2, <1>10, <3>2 DEF BothExchange, Phase
    <2>2. CASE sw[p].state = "ERROR"
      BY <1>0, <1>2, <1>10, <2>2, ErrorTurn DEF BothExchange, Phase
    <2> QED BY <1>0, <1>10, <2>1, <2>2 DEF BothExchange
  <1> QED BY <1>1, <1>5, <1>6, <1>7, <1>8, <1>9, <1>10 DEF Phase

LEMMA PhaseTurnStandby ==
    ASSUME TypeOK, StageInv, NEW n \in 0..1, Turn(Standby, n), joined[Active]
    PROVE  Phase'
  <1> DEFINE p == Standby
             q == Active
  <1>0. /\ p \in Peer /\ q \in Peer /\ q # p /\ Peer = {p, q}
        /\ sw[p] \in Switch /\ sw[q] \in Switch
        /\ ch[p] \in Seq(Msg) /\ ch[q] \in Seq(Msg) /\ joined[p]
    BY PeerAssumption DEF TypeOK, Peer, Turn
  <1>1. Phase
    BY <1>0 DEF StageInv
  <1>2. /\ sw'[q] = sw[q] /\ sw'[p] = After(p, n)
        /\ n = 1 => ch[p] # <<>> /\ Head(ch[p]) \in Msg /\ Head(ch[p]) = ch[p][1]
        /\ ch'[p] = IF n = 0 THEN ch[p] ELSE Tail(ch[p])
    BY <1>0, TurnInSession
  <1>3. PICK a \in SetToSeqs(AcksIn(p, n)), o \in SetToSeqs(Po) :
                 ch'[q] = ch[q] \o SentIn(p, n, a, o)
    BY <1>0, TurnInSession
  <1>4. ASSUME n = 0, sw[p].state # "EXCHANGE"
        PROVE  /\ sw'[p] = Asked(p) /\ ch'[p] = ch[p]
               /\ Asked(p).state = (IF sw[p].state = "INIT" THEN "STAGE1" ELSE sw[p].state)
               /\ MustRequest(p, Started(sw[p])) =>
                     Asked(p).wait /\ ch'[q] = ch[q] \o << [type |-> "SYNC_REQ"] >>
               /\ sw[p].state # "INIT" /\ (sw[p].wait \/ sw[p].state = "STAGE2") =>
                     Asked(p) = sw[p] /\ ch'[q] = ch[q]
    <2>1. After(p, n) = Asked(p) /\ SentIn(p, n, a, o) = Request(p, Started(sw[p]))
      BY <1>0, <1>4, IdleTurn
    <2>2. MustRequest(p, Started(sw[p])) => ch'[q] = ch[q] \o << [type |-> "SYNC_REQ"] >>
      BY <1>3, <2>1, RequestIs
    <2>3. ASSUME sw[p].state # "INIT", sw[p].wait \/ sw[p].state = "STAGE2"
          PROVE  Asked(p) = sw[p] /\ ch'[q] = ch[q]
      <3>1. Started(sw[p]) = sw[p] /\ ~MustRequest(p, sw[p])
        BY <1>0, <2>3 DEF MustRequest, Requester, Started
      <3>2. SentIn(p, n, a, o) = <<>>
        BY <2>1, <3>1, RequestIs
      <3>3. ch[q] \o <<>> = ch[q]
        BY <1>0, EmptyAdds
      <3> QED BY <1>3, <3>1, <3>2, <3>3 DEF Asked, Requested
    <2> QED BY <1>0, <1>2, <1>4, <2>1, <2>2, <2>3, AskedFields
  <1>5. CASE NotAsked
    <2>1. n = 0 /\ sw[p].state = "INIT"
      BY <1>2, <1>5 DEF NotAsked
    <2>2. MustRequest(p, Started(sw[p]))
      BY <1>0, <2>1, StartedFields DEF MustRequest, Requester
    <2> DEFINE y == [type |-> "SYNC_REQ"]
    <2>3. IsRequest(y) /\ y \in Msg
      BY DEF IsRequest, Msg
    <2>4. ch'[q] = ch[q] \o << y >>
      BY <1>4, <2>1, <2>2
    <2> HIDE DEF y
    <2>5. ch'[q] = << y >>
      <3>1. << y >> \in Seq(Msg)
        BY <2>3
      <3> QED BY <1>5, <2>4, <3>1, EmptyAdds DEF NotAsked
    <2>6. Len(ch'[q]) = 1 /\ ch'[q][1] = y
      BY <2>5
    <2> QED BY <1>2, <1>4, <1>5, <2>1, <2>2, <2>3, <2>6 DEF NotAsked, StandbyAsks, Phase
  <1>6. CASE StandbyAsks
    <2>1. n = 0 /\ sw[p].state = "STAGE1" /\ sw[p].wait
      BY <1>2, <1>6 DEF StandbyAsks
    <2> QED BY <1>2, <1>4, <1>6, <2>1 DEF StandbyAsks, Phase
  <1>7. CASE ActiveAsks
    <2>0. sw[p].state = "STAGE1" /\ sw[p].wait
      BY <1>7 DEF ActiveAsks
    <2>1. CASE n = 0
      BY <1>2, <1>4, <1>7, <2>0, <2>1 DEF ActiveAsks, Phase
    <2>2. CASE n = 1
      <3> DEFINE r == Advanced(Learned(sw[p], Head(ch[p]).po))
      <3>1. Requester(p, sw[p]) /\ IsInfo(Head(ch[p])) /\ Head(ch[p]) \in Msg
        BY <1>2, <1>7, <2>0, <2>2 DEF Requester, ActiveAsks
      <3>2. r \in Switch /\ ~r.wait /\ r.state = "STAGE2" /\ After(p, n) = r
            /\ SentIn(p, n, a, o) = <<>>
        BY <1>0, <2>0, <2>2, <3>1, LearningTurn
      <3> HIDE DEF r
      <3>3. sw'[p].state = "STAGE2" /\ ~sw'[p].wait
        BY <1>2, <3>2
      <3>4. ch'[q] = <<>>
        BY <1>3, <1>7, <3>2, EmptyAdds DEF ActiveAsks
      <3>5. Len(ch'[p]) = 1 /\ IsRequest(ch'[p][1])
        <4>1. ch'[p] = Tail(ch[p]) /\ Len(ch[p]) = 2 /\ IsRequest(ch[p][2])
          BY <1>2, <1>7, <2>2 DEF ActiveAsks
        <4>2. Len(Tail(ch[p])) = 1 /\ Tail(ch[p])[1] = ch[p][2]
          BY <1>0, <1>2, <2>2, <4>1
        <4> QED BY <4>1, <4>2
      <3> QED BY <1>2, <1>7, <3>3, <3>4, <3>5 DEF ActiveAsks, StandbyKnows, Phase
    <2> QED BY <2>1, <2>2
  <1>8. CASE StandbyKnows
    <2>0. sw[p].state = "STAGE2" /\ ~sw[p].wait
      BY <1>8 DEF StandbyKnows
    <2>1. CASE n = 0
      BY <1>2, <1>4, <1>8, <2>0, <2>1 DEF StandbyKnows, Phase
    <2>2. CASE n = 1
      <3> DEFINE s == Started(sw[p])
                 r == SentAll(s)
                 x == Info(s)
      <3>1. s = sw[p]
        BY <2>0 DEF Started
      <3>2. Sender(p, s) /\ ~s.wait
        BY <1>0, <2>0, <3>1 DEF Sender, Requester
      <3>3. IsRequest(Head(ch[p])) /\ Head(ch[p]) \in Msg
        BY <1>2, <1>8, <2>2 DEF StandbyKnows
      <3>4. /\ r \in Switch /\ r.state = "EXCHANGE" /\ After(p, n) = Flushed(r)
            /\ SentIn(p, n, a, o) = << x >> \o Pending(r, o) /\ x \in Msg
        BY <1>0, <2>2, <3>2, <3>3, AnsweringTurn
      <3>5. sw'[p].state = "EXCHANGE"
        <4> HIDE DEF r
        <4> QED BY <1>2, <3>4, FlushedFields
      <3>6. IsInfo(x)
        BY DEF IsInfo, Info
      <3>7. ch'[q] # <<>> /\ ch'[q][1] = x
        <4> DEFINE g == Pending(r, o)
        <4>1. g \in Seq(Msg)
          BY <3>4, PendingIs
        <4> HIDE DEF x, g
        <4>2. << x >> \o g \in Seq(Msg) /\ (<< x >> \o g)[1] = x /\ << x >> \o g # <<>>
          <5>1. << x >> \in Seq(Msg) /\ Len(<< x >>) = 1 /\ << x >>[1] = x
            BY <3>4
          <5>2. << x >> \o g \in Seq(Msg) /\ Len(<< x >> \o g) = 1 + Len(g) /\ Len(g) \in Nat
            BY <4>1, <5>1
          <5>3. (<< x >> \o g)[1] = x
            BY <4>1, <5>1
          <5> QED BY <5>2, <5>3
        <4>3. ch'[q] = << x >> \o g
          BY <1>3, <1>8, <3>4, <4>2, EmptyAdds DEF StandbyKnows, g
        <4> QED BY <4>2, <4>3
      <3>8. ch'[p] = <<>>
        <4>1. ch'[p] = Tail(ch[p]) /\ Len(ch[p]) = 1
          BY <1>2, <1>8, <2>2 DEF StandbyKnows
        <4> QED BY <1>0, <4>1, TailOfOne
      <3> QED BY <1>2, <1>8, <3>5, <3>6, <3>7, <3>8 DEF StandbyKnows, StandbyExchanges, Phase
    <2> QED BY <2>1, <2>2
  <1>9. CASE StandbyExchanges
    <2>1. n = 0 /\ sw[p].state = "EXCHANGE"
      BY <1>2, <1>9 DEF StandbyExchanges
    <2>2. sw[p] \in Switch /\ After(p, n) = Flushed(sw[p]) /\ SentIn(p, n, a, o) = Pending(sw[p], o)
      BY <1>0, <2>1, ExchangeTurn
    <2>3. sw'[p].state = "EXCHANGE"
      BY <1>2, <2>1, <2>2, FlushedFields
    <2>4. ch'[q] # <<>> /\ ch'[q][1] = ch[q][1]
      <3> DEFINE g == Pending(sw[p], o)
      <3>1. g \in Seq(Msg)
        BY <1>0, PendingIs
      <3> HIDE DEF g
      <3>2. ch'[q] = ch[q] \o g /\ ch[q] # <<>>
        BY <1>3, <1>9, <2>2 DEF g, StandbyExchanges
      <3> QED BY <1>0, <3>1, <3>2
    <2> QED BY <1>2, <1>9, <2>1, <2>3, <2>4 DEF StandbyExchanges, Phase
  <1>10. CASE BothExchange
    <2>1. CASE sw[p].state = "EXCHANGE"
      <3> DEFINE r == IF n = 0 THEN sw[p] ELSE Received(sw[p], Head(ch[p]))
      <3>1. r \in Switch /\ r.state \in {"EXCHANGE", "ERROR"} /\ After(p, n) = Flushed(r)
        BY <1>0, <1>2, <2>1, ExchangeTurn
      <3> HIDE DEF r
      <3>2. sw'[p].state \in {"EXCHANGE", "ERROR"}
        BY <1>2, <3>1, FlushedFields
      <3> QED BY <1>0, <1>2, <1>10, <3>2 DEF BothExchange, Phase
    <2>2. CASE sw[p].state = "ERROR"
      BY <1>0, <1>2, <1>10, <2>2, ErrorTurn DEF BothExchange, Phase
    <2> QED BY <1>0, <1>10, <2>1, <2>2 DEF BothExchange
  <1> QED BY <1>1, <1>5, <1>6, <1>7, <1>8, <1>9, <1>10 DEF Phase

LEMMA StageStep ==
    ASSUME TypeOK, StageInv, [Next]_vars
    PROVE  StageInv'
  <1>0. /\ Active \in Peer /\ Standby \in Peer /\ Active # Standby /\ Peer = {Active, Standby}
        /\ joined \in [Peer -> BOOLEAN] /\ sw \in [Peer -> Switch] /\ ch \in [Peer -> Seq(Msg)]
    BY PeerAssumption DEF TypeOK, Peer
  <1>1. CASE Join
    <2>1. UNCHANGED <<sw, ch>> /\ \A p \in Peer : sw[p].state = "INIT" /\ ch[p] = <<>> /\ joined'[p]
      BY <1>1 DEF Join, StageInv
    <2> QED BY <1>0, <2>1 DEF StageInv, Phase, NotAsked
  <1>2. ASSUME NEW p \in Peer, NEW n \in 0..1, Turn(p, n) PROVE StageInv'
    <2> DEFINE q == Other(p)
    <2>0. q \in Peer /\ q # p /\ Peer = {p, q}
      BY TwoPeers
    <2> HIDE DEF q
    <2>1. /\ joined[p] /\ joined' = joined /\ (n = 1 => ch[p] # <<>> /\ Head(ch[p]) \in Msg)
          /\ sw' = [sw EXCEPT ![p] = After(p, n)]
      BY <1>2, TurnParts
    <2>2. ~joined[q] => ch'[q] = ch[q]
      BY <1>0, <1>2, <2>0, TurnParts DEF q
    <2>3. \A x \in Peer : ~joined'[x] => sw'[x].state = "INIT" /\ ch'[x] = <<>>
      BY <1>0, <2>0, <2>1, <2>2 DEF StageInv
    <2>4. sw'[Active].state = "STAGE1" => ~sw'[Active].wait
      <3>1. CASE p = Active
        <4>1. sw'[Active] = After(Active, n)
          BY <1>0, <2>1, <3>1
        <4> QED BY <1>0, <2>1, <3>1, <4>1, ActiveAnswers DEF StageInv
      <3>2. CASE p # Active
        BY <1>0, <2>1, <3>2 DEF StageInv
      <3> QED BY <3>1, <3>2
    <2>5. joined'[Active] /\ joined'[Standby] => Phase'
      BY <1>0, <1>2, <2>1, PhaseTurnActive, PhaseTurnStandby
    <2> QED BY <2>3, <2>4, <2>5 DEF StageInv
  <1>3. ASSUME NEW p \in Peer, Leave(p) PROVE StageInv'
    <2>1. /\ joined' = [joined EXCEPT ![p] = FALSE] /\ sw' = [sw EXCEPT ![p] = Disconnected(sw[p])]
          /\ ch' = [ch EXCEPT ![p] = <<>>]
      BY <1>3 DEF Leave
    <2>2. Disconnected(sw[p]).state = "INIT"
      BY <1>0, DisconnectedFields
    <2>3. ~joined'[p] /\ sw'[p].state = "INIT" /\ ch'[p] = <<>>
      BY <1>0, <2>1, <2>2
    <2>4. \A x \in Peer : x # p => joined'[x] = joined[x] /\ sw'[x] = sw[x] /\ ch'[x] = ch[x]
      BY <1>0, <2>1
    <2>5. \A x \in Peer : ~joined'[x] => sw'[x].state = "INIT" /\ ch'[x] = <<>>
      BY <2>3, <2>4 DEF StageInv
    <2>6. sw'[Active].state = "STAGE1" => ~sw'[Active].wait
      BY <1>0, <2>3, <2>4 DEF StageInv
    <2>7. ~(joined'[Active] /\ joined'[Standby])
      BY <1>0, <2>3
    <2> QED BY <2>5, <2>6, <2>7 DEF StageInv
  <1>4. ASSUME NEW p \in Peer, Disturbs(p) PROVE StageInv'
    <2>1. PICK r : Becomes(p, r)
      BY <1>4, DisturbsIs
    <2>2. joined' = joined /\ ch' = ch
      BY <1>4, DisturbsIs
    <2>3. \A x \in Peer : sw'[x].state = sw[x].state /\ sw'[x].wait = sw[x].wait
      BY <1>0, <2>1 DEF Becomes
    <2>4. Phase => Phase'
      BY <1>0, <2>2, <2>3
         DEF Phase, NotAsked, StandbyAsks, ActiveAsks, StandbyKnows, StandbyExchanges, BothExchange
    <2> QED BY <1>0, <2>2, <2>3, <2>4 DEF StageInv
  <1>5. CASE UNCHANGED vars
    BY <1>5 DEF vars, StageInv, Phase, NotAsked, StandbyAsks, ActiveAsks, StandbyKnows,
                StandbyExchanges, BothExchange
  <1> QED BY <1>1, <1>2, <1>3, <1>4, <1>5, NextCases

LEMMA StageInit ==
    ASSUME Init
    PROVE  StageInv
  <1>1. \A p \in Peer : ~joined[p] /\ sw[p].state = "INIT" /\ ch[p] = <<>>
    BY DEF Init
  <1> QED BY <1>1 DEF StageInv, Peer

(* In every run the two switches of a session are in one of the six phases,  *)
(* and without a session mLACP is in INIT and has read everything.           *)
THEOREM StageInvariant == Spec => []StageInv
  <1>1. Init => StageInv
    BY StageInit
  <1>2. TypeOK /\ StageInv /\ [Next]_vars => StageInv'
    BY StageStep
  <1> QED BY <1>1, <1>2, MlacpTypeCorrect, PTL DEF Spec

(* The staged synchronisation of mlacp_fsm.c: each switch answers in the     *)
(* stage in which the other asks, and the active one exchanges last.         *)
THEOREM StagesTogether == Spec => []StagesInStep
  <1>1. StageInv => StagesInStep
    <2> SUFFICES ASSUME StageInv, joined[Active], joined[Standby] PROVE StagesInStep
      BY DEF StagesInStep
    <2>1. Phase /\ Active \in Peer /\ Standby \in Peer
      BY DEF StageInv, Peer
    <2> QED BY <2>1 DEF StagesInStep, Phase, NotAsked, StandbyAsks, ActiveAsks, StandbyKnows,
                        StandbyExchanges, BothExchange
  <1> QED BY <1>1, StageInvariant, PTL

-----------------------------------------------------------------------------
(* The purges. *)

PurgesOk == \A p \in Peer : PurgeOk(sw[p])

LEMMA PurgeStep ==
    ASSUME TypeOK, PurgesOk, [Next]_vars
    PROVE  PurgesOk'
  <1>0. sw \in [Peer -> Switch]
    BY DEF TypeOK
  <1>1. \A s : s.purge = <<>> => PurgeOk(s)
    BY DEF PurgeOk
  <1>2. ASSUME NEW p \in Peer, NEW n \in 0..1, Turn(p, n) PROVE PurgesOk'
    <2>1. /\ n = 1 => ch[p] # <<>> /\ Head(ch[p]) \in Msg
          /\ sw' = [sw EXCEPT ![p] = After(p, n)]
      BY <1>2, TurnParts
    <2>2. Done(p, n) \in Switch /\ SameMembers(Done(p, n), sw[p])
      BY <2>1, TurnTypes
    <2>3. CASE Flushes(p, n)
      <3>1. After(p, n).purge = <<>>
        BY <2>2, <2>3, FlushedFields DEF After
      <3> QED BY <1>0, <1>1, <2>1, <3>1 DEF PurgesOk
    <2>4. CASE ~Flushes(p, n)
      <3>1. Asked(p).state # "EXCHANGE"
        BY <2>4 DEF Flushes
      <3>2. sw[p].state # "EXCHANGE"
        BY <1>0, <3>1, AskedFields
      <3>3. sw[p].purge = <<>>
        BY <3>2 DEF PurgesOk, PurgeOk
      <3>4. After(p, n).purge = <<>>
        BY <2>2, <2>4, <3>3 DEF After, SameMembers
      <3> QED BY <1>0, <1>1, <2>1, <3>4 DEF PurgesOk
    <2> QED BY <2>3, <2>4
  <1>3. ASSUME NEW p \in Peer, Leave(p) PROVE PurgesOk'
    <2>1. sw' = [sw EXCEPT ![p] = Disconnected(sw[p])]
      BY <1>3 DEF Leave
    <2>2. Disconnected(sw[p]).purge = <<>>
      BY <1>0, DisconnectedFields
    <2> QED BY <1>0, <1>1, <2>1, <2>2 DEF PurgesOk
  <1>4. ASSUME NEW p \in Peer, Disturbs(p) PROVE PurgesOk'
    <2>1. PICK r : Becomes(p, r)
      BY <1>4, DisturbsIs
    <2> QED BY <1>0, <2>1 DEF Becomes, PurgesOk
  <1>5. CASE sw' = sw
    BY <1>5 DEF PurgesOk
  <1>6. Join \/ UNCHANGED vars => sw' = sw
    BY DEF Join, vars
  <1> QED BY <1>2, <1>3, <1>4, <1>5, <1>6, NextCases

LEMMA PurgesAlways == Spec => []PurgesOk
  <1>1. Init => PurgesOk
    <2> SUFFICES ASSUME Init, NEW p \in Peer PROVE PurgeOk(sw[p])
      BY DEF PurgesOk
    <2>1. sw[p].purge = <<>>
      BY DEF Init
    <2> QED BY <2>1 DEF PurgeOk
  <1>2. TypeOK /\ PurgesOk /\ [Next]_vars => PurgesOk'
    BY PurgeStep
  <1> QED BY <1>1, <1>2, MlacpTypeCorrect, PTL DEF Spec

(* lif_purge_list names only interfaces that have left the domain, in the    *)
(* session in which the peer was told of them, whatever joins, leaves, is    *)
(* destroyed and created again in between.                                   *)
THEOREM PurgeListCurrent == Spec => []PurgesCurrent
  <1>1. TypeOK /\ StageInv /\ PurgesOk => PurgesCurrent
    <2> SUFFICES ASSUME TypeOK, StageInv, PurgesOk, NEW p \in Peer, NEW k \in DOMAIN sw[p].purge
                 PROVE  LET e == sw[p].purge[k]
                        IN  /\ joined[p] /\ sw[p].state = "EXCHANGE"
                            /\ e.gone \/ ~sw[p].lif[e.po].bound
      BY DEF PurgesCurrent
    <2>1. k \in 1..Len(sw[p].purge) /\ sw[p].purge # <<>>
      BY PurgeTypes DEF TypeOK
    <2>2. PurgeOk(sw[p])
      BY DEF PurgesOk
    <2>3. sw[p].state = "EXCHANGE"
      BY <2>1, <2>2 DEF PurgeOk
    <2>4. joined[p]
      BY <2>3 DEF StageInv
    <2> QED BY <2>1, <2>2, <2>3, <2>4 DEF PurgeOk
  <1> QED BY <1>1, MlacpTypeCorrect, StageInvariant, PurgesAlways, PTL

(* An interface that exists is in lif_purge_list at most once, so that the   *)
(* intrusive list stays a list.                                              *)
THEOREM PurgeListOnce == Spec => []PurgedOnce
  <1>1. PurgesOk => PurgedOnce
    BY DEF PurgesOk, PurgeOk, PurgedOnce
  <1> QED BY <1>1, PurgesAlways, PTL

=============================================================================
