------------------------ MODULE MlacpAgreementProofs ------------------------
(***************************************************************************)
(* What the two switches know of each other's interfaces, and what they    *)
(* derive from it, in a domain that interfaces only join: SyncInv of       *)
(* MlacpSync is inductive, for any number of port-channels and any number  *)
(* of link changes, configuration changes, additions and lost sessions.    *)
(***************************************************************************)
EXTENDS MlacpSyncProofs

(* InterfaceInv and NothingWithdrawn, for one switch. *)
IfOk(s, i) ==
    LET l == s.lif[i]
    IN  /\ l.exists /\ l.active = l.up
        /\ ~l.bound => l.changed
        /\ l.isolated => l.bound
        /\ l.blocked => l.bound /\ s.state \in {"EXCHANGE", "ERROR"}
        /\ Follows(s, i) => (l.isolated <=> s.pif[i] # "down")

SwOk(s) == ~s.need /\ s.purge = <<>> /\ \A i \in Po : IfOk(s, i)

LEMMA StartedOk ==
    ASSUME NEW s \in Switch, NEW p, SwOk(s)
    PROVE  SwOk(Started(s)) /\ SwOk(Requested(p, s))
  <1>1. SwOk(Started(s))
    BY StartedFields DEF SwOk, IfOk, SameMembers, Follows
  <1>2. SwOk(Requested(p, s))
    BY RequestedFields DEF SwOk, IfOk, SameMembers, Follows
  <1> QED BY <1>1, <1>2

LEMMA AdvancedOk ==
    ASSUME NEW s \in Switch, SwOk(s), s.state \in {"STAGE1", "STAGE2"}
    PROVE  LET r == Advanced(s)
           IN  /\ SwOk(r)
               /\ \A i \in Po :
                     /\ r.lif[i].bound = s.lif[i].bound /\ r.lif[i].up = s.lif[i].up
                     /\ r.lif[i].sync = s.lif[i].sync /\ (r.lif[i].changed <=> s.lif[i].changed)
                     /\ r.lif[i].blocked => ~r.lif[i].up
  <1> DEFINE r == Advanced(s)
             t == [s EXCEPT !.state = "EXCHANGE"]
  <1>1. /\ r \in Switch /\ SameMembers(r, s) /\ r.need = s.need /\ r.pif = s.pif
        /\ r.state = CASE s.state = "STAGE1" -> "STAGE2"
                              [] s.state = "STAGE2" -> "EXCHANGE"
                              [] OTHER -> "ERROR"
        /\ r.state # "EXCHANGE" => r.lif = s.lif
        /\ r.state = "EXCHANGE" =>
              /\ t \in Switch /\ t.lif = s.lif /\ t.pif = s.pif /\ t.state = "EXCHANGE"
              /\ \A i \in Po : r.lif[i] = IF s.lif[i].bound THEN PoState(t, i, s.lif[i].up)
                                                            ELSE s.lif[i]
    BY AdvancedFields
  <1> HIDE DEF r, t
  <1>2. ~r.need /\ r.purge = <<>>
    BY <1>1 DEF SwOk, SameMembers
  <1>3. CASE r.state # "EXCHANGE"
    <2>1. r.lif = s.lif /\ r.state = "STAGE2"
      BY <1>1, <1>3
    <2>2. \A i \in Po : IfOk(r, i) /\ ~s.lif[i].blocked
      BY <1>1, <2>1 DEF SwOk, IfOk, Follows
    <2> QED BY <1>2, <2>1, <2>2 DEF SwOk, r
  <1>4. CASE r.state = "EXCHANGE"
    <2>1. ASSUME NEW i \in Po
          PROVE  /\ IfOk(r, i)
                 /\ r.lif[i].bound = s.lif[i].bound /\ r.lif[i].up = s.lif[i].up
                 /\ r.lif[i].sync = s.lif[i].sync /\ (r.lif[i].changed <=> s.lif[i].changed)
                 /\ r.lif[i].blocked => ~r.lif[i].up
      <3> DEFINE l == s.lif[i]
                 k == r.lif[i]
      <3>0. l \in LocalIf /\ l.up \in BOOLEAN
        BY DEF Switch, LocalIf
      <3>1. /\ l.exists /\ l.active = l.up /\ (~l.bound => l.changed) /\ (l.isolated => l.bound)
            /\ ~l.blocked
        BY DEF SwOk, IfOk
      <3>2. CASE ~l.bound
        <4>1. k = l
          BY <1>1, <1>4, <3>2
        <4> QED BY <1>4, <3>1, <3>2, <4>1 DEF IfOk, Follows
      <3>3. CASE l.bound
        <4>1. k = PoState(t, i, l.up) /\ t \in Switch /\ t.lif[i] = l /\ t.pif = r.pif
              /\ t.state = "EXCHANGE"
          BY <1>1, <1>4, <3>3
        <4>2. /\ k.exists = l.exists /\ k.bound = l.bound /\ k.up = l.up /\ k.sync = l.sync
              /\ k.active = l.up
              /\ k.changed <=> l.changed \/ l.active # l.up
              /\ k.isolated <=> IsolatedFromLif(t, i, l.up)
              /\ k.blocked <=> l.blocked \/ (~l.up /\ l.bound /\ t.state = "EXCHANGE")
          BY <3>0, <4>1, PoStateFields
        <4>3. IsolatedFromLif(t, i, l.up) = IF l.up THEN r.pif[i] # "down" ELSE l.isolated
          BY <4>1 DEF IsolatedFromLif
        <4> HIDE DEF l, k
        <4>4. /\ k.exists /\ k.active = k.up /\ k.bound /\ (k.blocked => ~k.up)
              /\ k.up => (k.isolated <=> r.pif[i] # "down")
          BY <3>1, <3>3, <4>2, <4>3
        <4> QED BY <1>4, <3>1, <4>2, <4>4 DEF IfOk, Follows, l, k
      <3> QED BY <3>2, <3>3
    <2> QED BY <1>2, <2>1 DEF SwOk, r
  <1> QED BY <1>3, <1>4

LEMMA SentAllOk ==
    ASSUME NEW s \in Switch, SwOk(s)
    PROVE  LET r == SentAll(s)
           IN  /\ SwOk(r)
               /\ \A i \in Po : s.lif[i].bound => ~r.lif[i].sync /\ ~r.lif[i].changed
               /\ \A i \in Po : /\ r.lif[i].bound = s.lif[i].bound /\ r.lif[i].up = s.lif[i].up
                                /\ s.state \in {"STAGE1", "STAGE2"} /\ r.lif[i].blocked => ~r.lif[i].up
  <1> DEFINE r == SentAll(s)
  <1>1. /\ r \in Switch /\ SameMembers(r, s) /\ r.need = s.need /\ r.pif = s.pif
        /\ r.state = CASE s.state = "STAGE1" -> "STAGE2"
                              [] s.state = "STAGE2" -> "EXCHANGE"
                              [] OTHER -> "ERROR"
        /\ \A i \in Po : ~s.lif[i].bound => r.lif[i] = s.lif[i]
    BY SentAllFields
  <1>2. \A i \in Po : s.lif[i].bound =>
                     LET k == r.lif[i]
                         l == s.lif[i]
                     IN  /\ ~k.sync
                         /\ k.active = IF r.state = "EXCHANGE" THEN l.up ELSE l.active
                         /\ k.changed <=> r.state = "EXCHANGE" /\ l.active # l.up
                         /\ k.blocked <=> l.blocked \/ (r.state = "EXCHANGE" /\ ~l.up)
                         /\ k.isolated <=> IF r.state = "EXCHANGE" /\ l.up
                                           THEN s.pif[i] # "down" ELSE l.isolated
    BY SentAllFields
  <1> HIDE DEF r
  <1>3. ~r.need /\ r.purge = <<>>
    BY <1>1 DEF SwOk, SameMembers
  <1>4. r.state = "EXCHANGE" => s.state = "STAGE2"
    BY <1>1
  <1>5. s.state \in {"EXCHANGE", "ERROR"} => r.state = "ERROR"
    BY <1>1
  <1>6. ASSUME NEW i \in Po
        PROVE  /\ IfOk(r, i) /\ r.lif[i].bound = s.lif[i].bound /\ r.lif[i].up = s.lif[i].up
               /\ s.lif[i].bound => ~r.lif[i].sync /\ ~r.lif[i].changed
               /\ s.state \in {"STAGE1", "STAGE2"} /\ r.lif[i].blocked => ~r.lif[i].up
    <2> DEFINE l == s.lif[i]
               k == r.lif[i]
    <2>0. k.bound = l.bound /\ k.up = l.up /\ k.exists = l.exists
      BY <1>1 DEF SameMembers
    <2>1. /\ l.exists /\ l.active = l.up /\ (~l.bound => l.changed) /\ (l.isolated => l.bound)
          /\ (l.blocked => l.bound /\ s.state \in {"EXCHANGE", "ERROR"})
      BY DEF SwOk, IfOk
    <2>2. CASE ~l.bound
      <3>1. k = l
        BY <1>1, <2>2
      <3> QED BY <2>1, <2>2, <3>1 DEF IfOk, Follows
    <2>3. CASE l.bound
      <3>1. /\ ~k.sync /\ k.active = l.up /\ ~k.changed
            /\ k.blocked <=> l.blocked \/ (r.state = "EXCHANGE" /\ ~l.up)
            /\ k.isolated <=> IF r.state = "EXCHANGE" /\ l.up THEN r.pif[i] # "down" ELSE l.isolated
        BY <1>1, <1>2, <2>1, <2>3
      <3> HIDE DEF k, l
      <3>2. k.blocked => r.state \in {"EXCHANGE", "ERROR"}
        BY <1>5, <2>1, <3>1
      <3>3. r.state = "EXCHANGE" /\ k.bound /\ k.active => (k.isolated <=> r.pif[i] # "down")
        BY <2>0, <2>1, <3>1
      <3>4. s.state \in {"STAGE1", "STAGE2"} /\ k.blocked => ~k.up
        BY <2>0, <2>1, <3>1
      <3> QED BY <2>0, <2>1, <2>3, <3>1, <3>2, <3>3, <3>4 DEF IfOk, Follows, k, l
    <2> QED BY <2>2, <2>3
  <1> QED BY <1>3, <1>6 DEF SwOk, r

(* What m makes of what is known of i. *)
Effect(v, m, i) ==
    CASE m.type = "CONF" /\ m.po = i -> IF v = "none" THEN "up" ELSE v
      [] m.type = "STATE" /\ m.po = i -> IF v = "none" THEN "none" ELSE UpDown(m.up)
      [] m.type = "INFO" /\ m.po[i] # "none" -> m.po[i]
      [] OTHER -> v

(* r and s have the same to send, and r blocks no more than s does. *)
SameToSend(r, s) ==
    \A i \in Po : /\ r.lif[i].bound = s.lif[i].bound /\ r.lif[i].up = s.lif[i].up
                  /\ r.lif[i].sync = s.lif[i].sync /\ r.lif[i].changed = s.lif[i].changed
                  /\ r.lif[i].blocked => s.lif[i].blocked

LEMMA SameButOk ==
    ASSUME NEW s \in Switch, NEW i \in Po, NEW r \in Switch, SwOk(s), SameBut(r, s, i),
           IsolationKept(r, s, i)
    PROVE  SwOk(r) /\ SameToSend(r, s)
  <1>1. ASSUME NEW j \in Po, j # i PROVE IfOk(r, j)
    <2>1. r.lif[j] = s.lif[j] /\ r.pif[j] = s.pif[j] /\ r.state = s.state
      BY <1>1 DEF SameBut
    <2>2. IfOk(s, j)
      BY DEF SwOk
    <2> QED BY <2>1, <2>2 DEF IfOk, Follows
  <1>2. IfOk(r, i)
    <2>1. SameButIsolated(r.lif[i], s.lif[i]) /\ r.state = s.state /\ IfOk(s, i)
      BY DEF SameBut, SwOk
    <2>2. Follows(r, i) <=> Follows(s, i)
      BY <2>1 DEF Follows, SameButIsolated
    <2> QED BY <2>1, <2>2 DEF IfOk, SameButIsolated, IsolationKept, Follows
  <1>3. SameToSend(r, s)
    BY DEF SameToSend, SameBut, SameButIsolated
  <1> QED BY <1>1, <1>2, <1>3 DEF SwOk, SameBut

LEMMA LearnedOk ==
    ASSUME NEW s \in Switch, NEW po \in [Po -> PeerIf], SwOk(s)
    PROVE  SwOk(Learned(s, po)) /\ SameToSend(Learned(s, po), s)
  <1> DEFINE r == Learned(s, po)
  <1>1. /\ r \in Switch /\ SameMembers(r, s) /\ r.state = s.state /\ r.need = s.need
        /\ \A i \in Po : SameButIsolated(r.lif[i], s.lif[i]) /\ IsolationKept(r, s, i)
    BY LearnedFields
  <1> HIDE DEF r
  <1>2. ASSUME NEW i \in Po PROVE IfOk(r, i)
    <2>1. SameButIsolated(r.lif[i], s.lif[i]) /\ IsolationKept(r, s, i) /\ IfOk(s, i)
      BY <1>1 DEF SwOk
    <2>2. Follows(r, i) <=> Follows(s, i)
      BY <1>1, <2>1 DEF Follows, SameButIsolated
    <2> QED BY <1>1, <2>1, <2>2 DEF IfOk, SameButIsolated, IsolationKept, Follows
  <1>3. SameToSend(r, s)
    BY <1>1 DEF SameToSend, SameButIsolated
  <1> QED BY <1>1, <1>2, <1>3 DEF SwOk, SameMembers, r

LEMMA ReceivedOk ==
    ASSUME NEW s \in Switch, NEW m \in Msg, SwOk(s), m.type # "PURGE"
    PROVE  LET r == Received(s, m)
           IN  /\ SwOk(r)
               /\ \A i \in Po : r.pif[i] = Effect(s.pif[i], m, i)
               /\ ~IsRequest(m) =>
                     /\ SameToSend(r, s)
                     /\ \A i \in Po : m = AckOf(i) /\ s.lif[i].up => ~r.lif[i].blocked
  <1> DEFINE r == Received(s, m)
  <1>1. CASE m.type = "SYNC_REQ"
    <2>1. r = SentAll(s)
      BY <1>1 DEF Received
    <2>2. SwOk(SentAll(s)) /\ SentAll(s).pif = s.pif
      BY SentAllOk, SentAllFields
    <2>3. \A i \in Po : Effect(s.pif[i], m, i) = s.pif[i]
      BY <1>1 DEF Effect
    <2> HIDE DEF r
    <2> QED BY <1>1, <2>1, <2>2, <2>3 DEF r, IsRequest
  <1>2. CASE m.type = "INFO" /\ m.po \in [Po -> PeerIf]
    <2>1. r = Learned(s, m.po)
      BY <1>2 DEF Received
    <2>2. SwOk(r) /\ SameToSend(r, s)
      BY <1>2, <2>1, LearnedOk
    <2>3. \A i \in Po : r.pif[i] = IF m.po[i] = "none" THEN s.pif[i] ELSE m.po[i]
      BY <1>2, <2>1, LearnedFields
    <2>4. \A i \in Po : m # AckOf(i)
      BY <1>2 DEF AckOf
    <2> HIDE DEF r
    <2>5. \A i \in Po : r.pif[i] = Effect(s.pif[i], m, i)
      BY <1>2, <2>3 DEF Effect
    <2> QED BY <2>2, <2>4, <2>5 DEF r
  <1>3. CASE m.type = "CONF" /\ m.po \in Po
    <2>1. r = AggConf(s, m.po)
      BY <1>3 DEF Received
    <2>2. /\ r \in Switch /\ SameBut(r, s, m.po) /\ IsolationKept(r, s, m.po)
          /\ r.pif[m.po] = IF s.pif[m.po] = "none" THEN "up" ELSE s.pif[m.po]
      BY <1>3, <2>1, AggConfFields
    <2> HIDE DEF r
    <2>3. SwOk(r) /\ SameToSend(r, s)
      BY <1>3, <2>2, SameButOk
    <2>4. \A i \in Po : m # AckOf(i)
      BY <1>3 DEF AckOf
    <2>5. \A i \in Po : r.pif[i] = Effect(s.pif[i], m, i)
      BY <1>3, <2>2 DEF Effect, SameBut
    <2> QED BY <2>3, <2>4, <2>5 DEF r
  <1>4. CASE m.type = "STATE" /\ m.po \in Po /\ m.up \in BOOLEAN
    <2>1. r = AggState(s, m.po, m.up)
      BY <1>4 DEF Received
    <2>2. /\ r \in Switch /\ SameBut(r, s, m.po) /\ IsolationKept(r, s, m.po)
          /\ r.pif[m.po] = IF s.pif[m.po] = "none" THEN "none" ELSE UpDown(m.up)
      BY <1>4, <2>1, AggStateFields
    <2> HIDE DEF r
    <2>3. SwOk(r) /\ SameToSend(r, s)
      BY <1>4, <2>2, SameButOk
    <2>4. \A i \in Po : m # AckOf(i)
      BY <1>4 DEF AckOf
    <2>5. \A i \in Po : r.pif[i] = Effect(s.pif[i], m, i)
      BY <1>4, <2>2 DEF Effect, SameBut
    <2> QED BY <2>3, <2>4, <2>5 DEF r
  <1>5. CASE m.type = "ACK" /\ m.po \in Po
    <2> DEFINE j == m.po
               l == s.lif[j]
               k == r.lif[j]
    <2>1. r = Acked(s, j)
      BY <1>5 DEF Received
    <2>2. /\ r \in Switch /\ SameMembers(r, s)
          /\ r.state = s.state /\ r.need = s.need /\ r.pif = s.pif
          /\ \A i \in Po : i # j => r.lif[i] = s.lif[i]
          /\ k = IF l.active THEN TrafficEnabled(l) ELSE l
      BY <1>5, <2>1, AckedFields
    <2>3. l \in LocalIf /\ IfOk(s, j)
      BY <1>5 DEF Switch, SwOk
    <2> HIDE DEF r, l, k
    <2>4. /\ k.exists = l.exists /\ k.active = l.active /\ k.bound = l.bound /\ k.up = l.up
          /\ k.sync = l.sync /\ k.changed = l.changed /\ k.isolated = l.isolated
          /\ k.blocked => l.blocked
          /\ l.active /\ l.bound => ~k.blocked
      BY <2>2, <2>3 DEF TrafficEnabled, LocalIf
    <2>5. IfOk(r, j)
      BY <2>2, <2>3, <2>4 DEF IfOk, Follows, l, k
    <2>6. \A i \in Po : i # j => IfOk(r, i)
      BY <2>2 DEF IfOk, Follows, SwOk
    <2>7. SameToSend(r, s)
      BY <2>2, <2>4 DEF SameToSend, l, k
    <2>8. \A i \in Po : m = AckOf(i) /\ s.lif[i].up => ~r.lif[i].blocked
      <3> SUFFICES ASSUME NEW i \in Po, m = AckOf(i), s.lif[i].up PROVE ~r.lif[i].blocked
        OBVIOUS
      <3>1. i = j
        BY DEF AckOf
      <3> QED BY <2>3, <2>4, <3>1 DEF IfOk, l, k
    <2>9. \A i \in Po : Effect(s.pif[i], m, i) = s.pif[i]
      BY <1>5 DEF Effect
    <2> QED BY <2>2, <2>5, <2>6, <2>7, <2>8, <2>9 DEF SwOk, SameMembers, r
  <1> QED BY <1>1, <1>2, <1>3, <1>4, <1>5, MsgCases

LEMMA FlushedOk ==
    ASSUME NEW s \in Switch, SwOk(s), s.state \in {"EXCHANGE", "ERROR"}
    PROVE  LET r == Flushed(s)
           IN  /\ SwOk(r)
               /\ \A i \in Po : /\ r.lif[i].bound = s.lif[i].bound /\ r.lif[i].up = s.lif[i].up
                                /\ r.lif[i].blocked /\ r.lif[i].up => s.lif[i].blocked
  <1> DEFINE r == Flushed(s)
  <1>1. /\ r \in Switch /\ r.state = s.state /\ r.pif = s.pif /\ ~r.need /\ r.purge = <<>>
    BY FlushedFields
  <1>2. \A i \in Po :
           LET k == r.lif[i]
               l == s.lif[i]
           IN  /\ k.exists = l.exists /\ k.bound = l.bound /\ k.up = l.up
               /\ k.active = l.active /\ k.isolated = l.isolated
               /\ k.sync <=> l.sync /\ ~l.bound
               /\ k.changed <=> l.changed /\ ~l.bound
               /\ k.blocked = FlushedTraffic(s, i).blocked
    BY FlushedFields
  <1> HIDE DEF r
  <1>3. ASSUME NEW i \in Po
        PROVE  /\ IfOk(r, i) /\ r.lif[i].bound = s.lif[i].bound /\ r.lif[i].up = s.lif[i].up
               /\ r.lif[i].blocked /\ r.lif[i].up => s.lif[i].blocked
    <2> DEFINE l == s.lif[i]
               k == r.lif[i]
               b == FlushedTraffic(s, i).blocked
    <2>1. l \in LocalIf /\ IfOk(s, i)
      BY DEF Switch, SwOk
    <2>2. ~PurgeOf(s, i)
      BY DEF SwOk, PurgeOf
    <2>3. b => l.blocked \/ (l.bound /\ ~l.active)
      BY <2>1, <2>2 DEF FlushedTraffic, TrafficDisabled, LocalIf
    <2>4. /\ k.exists = l.exists /\ k.bound = l.bound /\ k.up = l.up
          /\ k.active = l.active /\ k.isolated = l.isolated
          /\ k.changed <=> l.changed /\ ~l.bound
          /\ k.blocked = b
      BY <1>2
    <2> HIDE DEF l, k, b
    <2>5. k.blocked => k.bound /\ (l.blocked \/ ~k.up)
      BY <2>1, <2>3, <2>4 DEF IfOk, l
    <2> QED BY <1>1, <2>1, <2>4, <2>5 DEF IfOk, Follows, l, k
  <1> QED BY <1>1, <1>3 DEF SwOk, r

LEMMA HandledOk ==
    ASSUME NEW s \in Switch, NEW m \in Msg, NEW p, SwOk(s), m.type # "PURGE"
    PROVE  SwOk(Handled(p, s, m))
  <1> DEFINE r == Handled(p, s, m)
  <1>1. CASE Sender(p, s)
    <2>1. ~Requester(p, s) /\ s.state # "EXCHANGE"
      BY <1>1 DEF Sender
    <2>2. r = SentAll(s) \/ r = s
      BY <1>1, <2>1 DEF Handled
    <2> HIDE DEF r
    <2> QED BY <2>2, SentAllOk DEF r
  <1>2. CASE Requester(p, s)
    <2> DEFINE w == [s EXCEPT !.wait = TRUE]
               d == Received(s, m)
    <2>1. ~Sender(p, s) /\ s.state \in {"STAGE1", "STAGE2"}
      BY <1>2 DEF Sender, Requester
    <2>2. r = w \/ r = d \/ r = Advanced(d)
      BY <1>2, <2>1 DEF Handled
    <2>3. SwOk(w)
      <3>1. w.lif = s.lif /\ w.pif = s.pif /\ w.state = s.state /\ w.need = s.need /\ w.purge = s.purge
        BY DEF Switch
      <3> HIDE DEF w
      <3> QED BY <3>1 DEF SwOk, IfOk, Follows
    <2>4. d \in Switch /\ SwOk(d) /\ d.state \in {"STAGE1", "STAGE2", "EXCHANGE"}
      BY <2>1, ReceivedFields, ReceivedOk
    <2> HIDE DEF w, d, r
    <2>5. SwOk(Advanced(d))
      <3>1. CASE d.state \in {"STAGE1", "STAGE2"}
        BY <2>4, <3>1, AdvancedOk
      <3>2. CASE d.state = "EXCHANGE"
        <4> DEFINE e == Advanced(d)
        <4>1. e.lif = d.lif /\ e.state = "ERROR" /\ e.need = d.need /\ e.purge = d.purge
          BY <2>4, <3>2, AdvancedFields DEF SameMembers
        <4> HIDE DEF e
        <4>2. SwOk(e)
          BY <2>4, <3>2, <4>1 DEF SwOk, IfOk, Follows
        <4> QED BY <4>2 DEF e
      <3> QED BY <2>4, <3>1, <3>2
    <2> QED BY <2>2, <2>3, <2>4, <2>5 DEF r
  <1>3. CASE s.state = "EXCHANGE"
    <2>1. r = Received(s, m)
      BY <1>3 DEF Handled, Sender, Requester
    <2> HIDE DEF r
    <2> QED BY <2>1, ReceivedOk DEF r
  <1>4. CASE ~Sender(p, s) /\ ~Requester(p, s) /\ s.state # "EXCHANGE"
    <2>1. r = s
      BY <1>4 DEF Handled
    <2> QED BY <2>1
  <1> QED BY <1>1, <1>2, <1>3, <1>4

(* A turn keeps the switch right, with or without a peer. *)
LEMMA AfterOk ==
    ASSUME TypeOK, NEW p \in Peer, NEW n \in 0..1, SwOk(sw[p]),
           n = 1 => Head(ch[p]) \in Msg /\ Head(ch[p]).type # "PURGE"
    PROVE  SwOk(After(p, n))
  <1>0. sw[p] \in Switch
    BY DEF TypeOK
  <1>1. Asked(p) \in Switch /\ SwOk(Asked(p)) /\ Asked(p).state # "INIT"
    <2>1. Started(sw[p]) \in Switch /\ SwOk(Started(sw[p]))
      BY <1>0, StartedOk, StartedFields
    <2> QED BY <1>0, <2>1, StartedOk, RequestedFields, AskedFields DEF Asked
  <1>2. Read(p, n) \in Switch /\ SwOk(Read(p, n))
        /\ (Asked(p).state = "EXCHANGE" => Read(p, n).state \in {"EXCHANGE", "ERROR"})
    <2>1. CASE n = 0
      BY <1>1, <2>1 DEF Read
    <2>2. CASE n = 1
      BY <1>1, <2>2, HandledOk, HandledFields DEF Read
    <2> QED BY <2>1, <2>2
  <1>3. Done(p, n) \in Switch /\ SwOk(Done(p, n)) /\ Done(p, n).state = Read(p, n).state
    BY <1>2, StartedOk, RequestedFields DEF Done
  <1>4. CASE Flushes(p, n)
    <2>1. Done(p, n).state \in {"EXCHANGE", "ERROR"}
      BY <1>2, <1>3, <1>4 DEF Flushes
    <2> QED BY <1>3, <1>4, <2>1, FlushedOk DEF After
  <1>5. CASE ~Flushes(p, n)
    BY <1>3, <1>5 DEF After
  <1> QED BY <1>4, <1>5

-----------------------------------------------------------------------------
(* Knowledge: reading a message, and sending some. *)

(* KnowledgeInv, for what p's peer has (l, and whether it has answered), what *)
(* p knows (v) and what is under way to p (c).                                *)
Know(l, answered, v, c, i) ==
    /\ ~l.bound => /\ v = "none"
                   /\ \A n \in 1..Len(c) : /\ ~Introduces(c[n], i)
                                           /\ ~Says(c[n], i, TRUE) /\ ~Says(c[n], i, FALSE)
    /\ \A n \in 1..Len(c) : Says(c[n], i, TRUE) \/ Says(c[n], i, FALSE) =>
          v # "none" \/ \E k \in 1..n : Introduces(c[k], i)
    /\ l.bound /\ answered =>
          /\ l.sync \/ v # "none" \/ \E n \in 1..Len(c) : Introduces(c[n], i)
          /\ l.changed \/ WillKnow(c, i, v, l.up)

(* What a message says of i becomes known, if i is. *)
LEMMA EffectIs ==
    ASSUME NEW m \in Msg, NEW i \in Po, NEW v \in PeerIf
    PROVE  LET w == Effect(v, m, i)
           IN  /\ w \in PeerIf
               /\ v # "none" \/ Introduces(m, i) => w # "none"
               /\ \A up \in BOOLEAN :
                     Says(m, i, up) /\ (v # "none" \/ Introduces(m, i)) => w = UpDown(up)
               /\ ~Introduces(m, i) /\ ~Says(m, i, TRUE) /\ ~Says(m, i, FALSE) => w = v
               /\ \A up \in BOOLEAN : v = UpDown(up) /\ ~Says(m, i, ~up) => w = UpDown(up)
  <1> DEFINE w == Effect(v, m, i)
  <1>1. CASE m.type = "SYNC_REQ" \/ (m.type \in {"PURGE", "ACK"} /\ m.po \in Po)
    <2>1. w = v /\ ~Introduces(m, i) /\ \A up \in BOOLEAN : ~Says(m, i, up)
      BY <1>1 DEF Effect, Introduces, Says
    <2> HIDE DEF w
    <2> QED BY <2>1 DEF w
  <1>2. CASE m.type = "CONF" /\ m.po \in Po
    <2>1. /\ w = IF m.po = i /\ v = "none" THEN "up" ELSE v
          /\ (Introduces(m, i) <=> m.po = i) /\ \A up \in BOOLEAN : ~Says(m, i, up)
      BY <1>2 DEF Effect, Introduces, Says
    <2> HIDE DEF w
    <2>2. \A up \in BOOLEAN : UpDown(up) # "none"
      BY DEF UpDown
    <2> QED BY <2>1, <2>2 DEF w, PeerIf
  <1>3. CASE m.type = "STATE" /\ m.po \in Po /\ m.up \in BOOLEAN
    <2>1. /\ w = IF m.po = i /\ v # "none" THEN UpDown(m.up) ELSE v
          /\ ~Introduces(m, i) /\ \A up \in BOOLEAN : Says(m, i, up) <=> m.po = i /\ m.up = up
      BY <1>3 DEF Effect, Introduces, Says
    <2> HIDE DEF w
    <2>2. \A up \in BOOLEAN : UpDown(up) # "none" /\ UpDown(up) \in PeerIf
      BY DEF UpDown, PeerIf
    <2> QED BY <1>3, <2>1, <2>2 DEF w
  <1>4. CASE m.type = "INFO" /\ m.po \in [Po -> PeerIf]
    <2>1. /\ w = IF m.po[i] # "none" THEN m.po[i] ELSE v
          /\ (Introduces(m, i) <=> m.po[i] # "none")
          /\ \A up \in BOOLEAN : Says(m, i, up) <=> m.po[i] = UpDown(up)
      BY <1>4 DEF Effect, Introduces, Says
    <2>2. /\ \A up \in BOOLEAN : UpDown(up) # "none"
          /\ m.po[i] \in PeerIf
          /\ \A up \in BOOLEAN : m.po[i] = "none" \/ m.po[i] = UpDown(up) \/ m.po[i] = UpDown(~up)
      BY <1>4 DEF UpDown, PeerIf
    <2>3. ~Says(m, i, TRUE) /\ ~Says(m, i, FALSE) => m.po[i] = "none"
      BY <2>1, <2>2
    <2> HIDE DEF w
    <2> QED BY <1>4, <2>1, <2>2, <2>3 DEF w
  <1> QED BY <1>1, <1>2, <1>3, <1>4, MsgCases

(* Reading the first message of c ... *)
LEMMA KnowRead ==
    ASSUME NEW i \in Po, NEW l \in LocalIf, NEW a, NEW v \in PeerIf, NEW c \in Seq(Msg), c # <<>>,
           Know(l, a, v, c, i)
    PROVE  Know(l, a, Effect(v, Head(c), i), Tail(c), i)
  <1> DEFINE m == Head(c)
             t == Tail(c)
             w == Effect(v, m, i)
             up == l.up
  <1>1. /\ m \in Msg /\ m = c[1] /\ Len(c) \in Nat /\ Len(c) >= 1 /\ Len(t) = Len(c) - 1
        /\ \A k \in 1..Len(t) : t[k] = c[k + 1]
    OBVIOUS
  <1>2. up \in BOOLEAN /\ l.bound \in BOOLEAN /\ (~up) \in BOOLEAN
    BY DEF LocalIf
  <1>3. /\ v # "none" \/ Introduces(m, i) => w # "none"
        /\ Says(m, i, up) /\ (v # "none" \/ Introduces(m, i)) => w = UpDown(up)
        /\ ~Introduces(m, i) /\ ~Says(m, i, TRUE) /\ ~Says(m, i, FALSE) => w = v
        /\ v = UpDown(up) /\ ~Says(m, i, ~up) => w = UpDown(up)
    BY <1>1, <1>2, EffectIs
  <1> HIDE DEF m, t, w, up
  <1>4. ~l.bound => /\ w = "none"
                    /\ \A n \in 1..Len(t) : /\ ~Introduces(t[n], i)
                                            /\ ~Says(t[n], i, TRUE) /\ ~Says(t[n], i, FALSE)
    <2> SUFFICES ASSUME ~l.bound
                 PROVE  /\ w = "none"
                        /\ \A n \in 1..Len(t) : /\ ~Introduces(t[n], i)
                                                /\ ~Says(t[n], i, TRUE) /\ ~Says(t[n], i, FALSE)
      OBVIOUS
    <2>1. v = "none" /\ \A n \in 1..Len(c) : /\ ~Introduces(c[n], i)
                                             /\ ~Says(c[n], i, TRUE) /\ ~Says(c[n], i, FALSE)
      BY DEF Know
    <2>2. w = "none"
      <3>1. 1 \in 1..Len(c)
        BY <1>1
      <3>2. ~Introduces(c[1], i) /\ ~Says(c[1], i, TRUE) /\ ~Says(c[1], i, FALSE)
        BY <2>1, <3>1
      <3>3. ~Introduces(m, i) /\ ~Says(m, i, TRUE) /\ ~Says(m, i, FALSE)
        BY <1>1, <3>2
      <3>4. w = v
        BY <1>3, <3>3
      <3> QED BY <2>1, <3>4
    <2>3. \A n \in 1..Len(t) : n + 1 \in 1..Len(c)
      BY <1>1
    <2> QED BY <1>1, <2>1, <2>2, <2>3
  <1>5. ASSUME NEW n \in 1..Len(c), Introduces(c[n], i)
        PROVE  w # "none" \/ (n > 1 /\ n - 1 \in 1..Len(t) /\ Introduces(t[n - 1], i))
    BY <1>1, <1>3, <1>5
  <1>6. ASSUME NEW n \in 1..Len(t), Says(t[n], i, TRUE) \/ Says(t[n], i, FALSE)
        PROVE  w # "none" \/ \E k \in 1..n : Introduces(t[k], i)
    <2>1. n + 1 \in 1..Len(c) /\ t[n] = c[n + 1]
      BY <1>1
    <2>2. v # "none" \/ \E k \in 1..(n + 1) : Introduces(c[k], i)
      BY <1>6, <2>1 DEF Know
    <2>3. ASSUME NEW k \in 1..(n + 1), Introduces(c[k], i)
          PROVE  w # "none" \/ \E j \in 1..n : Introduces(t[j], i)
      <3>1. k \in 1..Len(c)
        BY <1>1
      <3>2. w # "none" \/ (k > 1 /\ k - 1 \in 1..Len(t) /\ Introduces(t[k - 1], i))
        BY <1>5, <2>3, <3>1
      <3>3. k > 1 => k - 1 \in 1..n
        OBVIOUS
      <3> QED BY <3>2, <3>3
    <2> QED BY <1>3, <2>2, <2>3
  <1>7. ASSUME l.bound, a
        PROVE  /\ l.sync \/ w # "none" \/ \E n \in 1..Len(t) : Introduces(t[n], i)
               /\ l.changed \/ WillKnow(t, i, w, up)
    <2>1. l.sync \/ w # "none" \/ \E n \in 1..Len(t) : Introduces(t[n], i)
      <3>1. l.sync \/ v # "none" \/ \E n \in 1..Len(c) : Introduces(c[n], i)
        BY <1>7 DEF Know
      <3> QED BY <1>3, <1>5, <3>1
    <2>2. l.changed \/ WillKnow(c, i, v, up)
      BY <1>7 DEF Know, up
    <2>3. CASE v = UpDown(up) /\ \A k \in 1..Len(c) : ~Says(c[k], i, ~up)
      <3>1. w = UpDown(up)
        BY <1>1, <1>3, <2>3
      <3>2. \A k \in 1..Len(t) : ~Says(t[k], i, ~up)
        BY <1>1, <2>3
      <3> QED BY <2>1, <3>1, <3>2 DEF WillKnow
    <2>4. ASSUME NEW n \in 1..Len(c), Says(c[n], i, up),
                 \A k \in n..Len(c) : ~Says(c[k], i, ~up)
          PROVE  WillKnow(t, i, w, up)
      <3>1. CASE n = 1
        <4>1. v # "none" \/ Introduces(m, i)
          <5>1. Says(c[n], i, TRUE) \/ Says(c[n], i, FALSE)
            BY <1>2, <2>4
          <5>2. v # "none" \/ \E k \in 1..n : Introduces(c[k], i)
            BY <5>1 DEF Know
          <5> QED BY <1>1, <3>1, <5>2
        <4>2. w = UpDown(up)
          BY <1>1, <1>3, <2>4, <3>1, <4>1
        <4>3. \A k \in 1..Len(t) : ~Says(t[k], i, ~up)
          BY <1>1, <2>4, <3>1
        <4> QED BY <4>2, <4>3 DEF WillKnow
      <3>2. CASE n > 1
        <4>1. n - 1 \in 1..Len(t) /\ t[n - 1] = c[n]
          BY <1>1, <3>2
        <4>2. \A k \in (n - 1)..Len(t) : ~Says(t[k], i, ~up)
          BY <1>1, <2>4, <3>2
        <4> QED BY <2>4, <4>1, <4>2 DEF WillKnow
      <3> QED BY <3>1, <3>2
    <2> QED BY <2>1, <2>2, <2>3, <2>4 DEF WillKnow
  <1> QED BY <1>4, <1>6, <1>7 DEF Know, m, t, w, up

(* ... and sending out: nothing of an interface that is not in the domain,    *)
(* and of one that is only the truth, after its configuration, and all of it. *)
Told(l, a, k, b, out, i) ==
    /\ k.bound = l.bound /\ k.up = l.up
    /\ ~l.bound => \A n \in 1..Len(out) : /\ ~Introduces(out[n], i)
                                          /\ ~Says(out[n], i, TRUE) /\ ~Says(out[n], i, FALSE)
    /\ l.bound => \A n \in 1..Len(out) :
          /\ ~Says(out[n], i, ~l.up)
          /\ Says(out[n], i, l.up) => (a /\ ~l.sync) \/ \E j \in 1..n : Introduces(out[j], i)
    /\ l.bound /\ b =>
          /\ \/ \E n \in 1..Len(out) : Introduces(out[n], i)
             \/ a /\ (l.sync => k.sync)
          /\ \/ \E n \in 1..Len(out) : Says(out[n], i, l.up)
             \/ a /\ (l.changed => k.changed)

LEMMA KnowSend ==
    ASSUME NEW i \in Po, NEW l \in LocalIf, NEW k \in LocalIf, NEW a \in BOOLEAN, NEW b \in BOOLEAN,
           NEW v \in PeerIf, NEW c \in Seq(Msg), NEW out \in Seq(Msg),
           Know(l, a, v, c, i), Told(l, a, k, b, out, i)
    PROVE  Know(k, b, v, c \o out, i)
  <1> DEFINE d == c \o out
             up == l.up
             N == Len(c)
             M == Len(out)
  <1>1. /\ N \in Nat /\ M \in Nat /\ Len(d) = N + M
        /\ \A n \in 1..N : d[n] = c[n] /\ n \in 1..Len(d)
        /\ \A n \in 1..M : d[N + n] = out[n] /\ N + n \in 1..Len(d)
    OBVIOUS
  <1>2. \A n \in 1..Len(d) : n \in 1..N \/ (n - N \in 1..M /\ d[n] = out[n - N])
    BY <1>1
  <1>3. up \in BOOLEAN /\ k.bound = l.bound /\ k.up = up /\ l.bound \in BOOLEAN
    BY DEF LocalIf, Told
  <1> HIDE DEF d, up, N, M
  <1>4. ASSUME NEW n \in 1..Len(d), ~l.bound
        PROVE  v = "none" /\ ~Introduces(d[n], i) /\ ~Says(d[n], i, TRUE) /\ ~Says(d[n], i, FALSE)
    <2>1. CASE n \in 1..N
      BY <1>1, <1>4, <2>1 DEF Know, N
    <2>2. CASE n - N \in 1..M /\ d[n] = out[n - N]
      BY <1>4, <2>2 DEF Told, M, Know
    <2> QED BY <1>2, <2>1, <2>2
  <1>5. ASSUME NEW n \in 1..Len(d), Says(d[n], i, TRUE) \/ Says(d[n], i, FALSE)
        PROVE  v # "none" \/ \E j \in 1..n : Introduces(d[j], i)
    <2>1. CASE n \in 1..N
      <3>1. v # "none" \/ \E j \in 1..n : Introduces(c[j], i)
        BY <1>1, <1>5, <2>1 DEF Know, N
      <3>2. \A j \in 1..n : d[j] = c[j]
        BY <1>1, <2>1
      <3> QED BY <3>1, <3>2
    <2>2. CASE n - N \in 1..M /\ d[n] = out[n - N]
      <3>1. l.bound
        BY <1>5, <2>2 DEF Told, M
      <3>2. Says(out[n - N], i, up)
        <4>1. ~Says(out[n - N], i, ~up)
          BY <2>2, <3>1 DEF Told, M, up
        <4> QED BY <1>3, <1>5, <2>2, <4>1
      <3>3. (a /\ ~l.sync) \/ \E j \in 1..(n - N) : Introduces(out[j], i)
        BY <2>2, <3>1, <3>2 DEF Told, M, up
      <3>4. ASSUME NEW j \in 1..(n - N), Introduces(out[j], i)
            PROVE  \E h \in 1..n : Introduces(d[h], i)
        <4>1. N + j \in 1..n /\ d[N + j] = out[j]
          BY <1>1, <2>2
        <4> QED BY <3>4, <4>1
      <3>5. ASSUME a, ~l.sync
            PROVE  v # "none" \/ \E j \in 1..n : Introduces(d[j], i)
        <4>1. v # "none" \/ \E j \in 1..N : Introduces(c[j], i)
          BY <3>1, <3>5 DEF Know, N
        <4>2. \A j \in 1..N : j \in 1..n /\ d[j] = c[j]
          BY <1>1, <2>2
        <4> QED BY <4>1, <4>2
      <3> QED BY <3>3, <3>4, <3>5
    <2> QED BY <1>2, <2>1, <2>2
  <1>6. ASSUME k.bound, b
        PROVE  /\ k.sync \/ v # "none" \/ \E n \in 1..Len(d) : Introduces(d[n], i)
               /\ k.changed \/ WillKnow(d, i, v, up)
    <2>0. l.bound
      BY <1>3, <1>6
    <2>1. k.sync \/ v # "none" \/ \E n \in 1..Len(d) : Introduces(d[n], i)
      <3>1. CASE \E n \in 1..M : Introduces(out[n], i)
        BY <1>1, <3>1
      <3>2. CASE a /\ (l.sync => k.sync)
        <4>1. l.sync \/ v # "none" \/ \E n \in 1..N : Introduces(c[n], i)
          BY <2>0, <3>2 DEF Know, N
        <4> QED BY <1>1, <3>2, <4>1
      <3> QED BY <1>6, <2>0, <3>1, <3>2 DEF Told, M
    <2>2. k.changed \/ WillKnow(d, i, v, up)
      <3>0. \A n \in 1..M : ~Says(out[n], i, ~up)
        BY <2>0 DEF Told, M, up
      <3>1. ASSUME NEW n \in 1..M, Says(out[n], i, up)
            PROVE  WillKnow(d, i, v, up)
        <4>1. N + n \in 1..Len(d) /\ Says(d[N + n], i, up)
          BY <1>1, <3>1
        <4>2. \A j \in (N + n)..Len(d) : ~Says(d[j], i, ~up)
          <5> SUFFICES ASSUME NEW j \in (N + n)..Len(d) PROVE ~Says(d[j], i, ~up)
            OBVIOUS
          <5>1. j - N \in 1..M /\ d[j] = out[j - N]
            <6>1. j \in 1..Len(d) /\ j \notin 1..N
              BY <1>1
            <6> QED BY <1>2, <6>1
          <5> QED BY <3>0, <5>1
        <4> QED BY <4>1, <4>2 DEF WillKnow
      <3>2. CASE a /\ (l.changed => k.changed)
        <4>1. l.changed \/ WillKnow(c, i, v, up)
          BY <2>0, <3>2 DEF Know, up
        <4>2. ASSUME v = UpDown(up), \A j \in 1..N : ~Says(c[j], i, ~up)
              PROVE  WillKnow(d, i, v, up)
          <5>1. \A j \in 1..Len(d) : ~Says(d[j], i, ~up)
            BY <1>1, <1>2, <3>0, <4>2
          <5> QED BY <4>2, <5>1 DEF WillKnow
        <4>3. ASSUME NEW n \in 1..N, Says(c[n], i, up), \A j \in n..N : ~Says(c[j], i, ~up)
              PROVE  WillKnow(d, i, v, up)
          <5>1. n \in 1..Len(d) /\ Says(d[n], i, up)
            BY <1>1, <4>3
          <5>2. ASSUME NEW j \in n..Len(d) PROVE ~Says(d[j], i, ~up)
            <6>1. j \in 1..Len(d)
              BY <1>1
            <6>2. CASE j \in 1..N
              BY <1>1, <4>3, <6>2
            <6>3. CASE j - N \in 1..M /\ d[j] = out[j - N]
              BY <3>0, <6>3
            <6> QED BY <1>2, <6>1, <6>2, <6>3
          <5> QED BY <5>1, <5>2 DEF WillKnow
        <4> QED BY <3>2, <4>1, <4>2, <4>3 DEF WillKnow, N
      <3> QED BY <1>6, <2>0, <3>1, <3>2 DEF Told, M, up
    <2> QED BY <2>1, <2>2
  <1>7. Know(k, b, v, d, i)
    BY <1>3, <1>4, <1>5, <1>6 DEF Know
  <1> QED BY <1>7 DEF d

-----------------------------------------------------------------------------
(* What a turn in a session sends. *)

ReqMsg == [type |-> "SYNC_REQ"]
UpOf(i) == [type |-> "STATE", po |-> i, up |-> TRUE]

(* m has nothing to say of i. *)
Silent(m, i) == ~Introduces(m, i) /\ ~Says(m, i, TRUE) /\ ~Says(m, i, FALSE)

LEMMA WhatIsSaid ==
    ASSUME NEW s \in Switch, NEW i \in Po
    PROVE  /\ Silent(ReqMsg, i) /\ \A j \in Po : Silent(AckOf(j), i)
           /\ \A j \in Po : Introduces(AggportConfig(j), i) <=> i = j
           /\ \A j \in Po, up \in BOOLEAN : ~Says(AggportConfig(j), i, up)
           /\ \A j \in Po : ~Introduces(AggportState(s, j), i)
           /\ \A j \in Po, up \in BOOLEAN :
                 Says(AggportState(s, j), i, up) <=> i = j /\ s.lif[j].up = up
           /\ Introduces(Info(s), i) <=> s.lif[i].bound
           /\ \A up \in BOOLEAN : Says(Info(s), i, up) <=> s.lif[i].bound /\ s.lif[i].up = up
           /\ s.lif[i].up => AggportState(s, i) = UpOf(i)
  <1>1. Silent(ReqMsg, i) /\ \A j \in Po : Silent(AckOf(j), i)
    BY DEF Silent, Introduces, Says, AckOf, ReqMsg
  <1>2. ASSUME NEW j \in Po, NEW up \in BOOLEAN
        PROVE  (Introduces(AggportConfig(j), i) <=> i = j) /\ ~Says(AggportConfig(j), i, up)
    BY DEF Introduces, Says, AggportConfig
  <1>3. ASSUME NEW j \in Po, NEW up \in BOOLEAN
        PROVE  /\ ~Introduces(AggportState(s, j), i)
               /\ Says(AggportState(s, j), i, up) <=> i = j /\ s.lif[j].up = up
    BY DEF Introduces, Says, AggportState
  <1>4. s.lif[i].up \in BOOLEAN /\ s.lif[i].bound \in BOOLEAN
    BY DEF Switch, LocalIf
  <1>5. Info(s).type = "INFO" /\ Info(s).po[i] = IF s.lif[i].bound THEN UpDown(s.lif[i].up) ELSE "none"
    BY DEF Info
  <1>6. ASSUME NEW up \in BOOLEAN
        PROVE  /\ Introduces(Info(s), i) <=> s.lif[i].bound
               /\ Says(Info(s), i, up) <=> s.lif[i].bound /\ s.lif[i].up = up
    <2>1. /\ UpDown(s.lif[i].up) # "none" /\ UpDown(up) # "none"
          /\ UpDown(s.lif[i].up) = UpDown(up) <=> s.lif[i].up = up
      BY <1>4 DEF UpDown
    <2> QED BY <1>5, <2>1 DEF Introduces, Says
  <1>7. s.lif[i].up => AggportState(s, i) = UpOf(i)
    BY <1>4 DEF AggportState, UpOf
  <1>8. TRUE \in BOOLEAN
    OBVIOUS
  <1> QED BY <1>1, <1>2, <1>3, <1>6, <1>7, <1>8, Zenon

(* Acknowledgements and updates: nobody is asked, nothing is withdrawn. *)
Plain(out) == \A k \in 1..Len(out) : out[k].type # "PURGE" /\ ~IsRequest(out[k])

(* The updates tell all there is to tell. *)
LEMMA PendingTold ==
    ASSUME NEW s \in Switch, NEW o \in SetToSeqs(Po), SwOk(s), NEW k \in LocalIf, NEW i \in Po,
           k.bound = s.lif[i].bound, k.up = s.lif[i].up
    PROVE  /\ Pending(s, o) \in Seq(Msg) /\ Plain(Pending(s, o))
           /\ Told(s.lif[i], TRUE, k, TRUE, Pending(s, o), i)
           /\ s.lif[i].bound /\ s.lif[i].changed /\ s.lif[i].up =>
                 \E n \in 1..Len(Pending(s, o)) : Pending(s, o)[n] = UpOf(i)
  <1> DEFINE f == Pending(s, o)
             l == s.lif[i]
  <1>1. f \in Seq(Msg) /\ HoldsUpdates(f, s)
    BY PendingIs DEF SwOk
  <1>2. l.up \in BOOLEAN /\ (~l.up) \in BOOLEAN
    BY DEF Switch, LocalIf
  <1> HIDE DEF f
  <1>3. ASSUME NEW n \in 1..Len(f)
        PROVE  /\ f[n].type # "PURGE" /\ ~IsRequest(f[n])
               /\ ~l.bound => Silent(f[n], i)
               /\ l.bound => /\ ~Says(f[n], i, ~l.up)
                             /\ Says(f[n], i, l.up) => ~l.sync \/ \E j \in 1..n : Introduces(f[j], i)
    <2>1. PICK j \in Po :
              \/ f[n] = AggportConfig(j) /\ s.lif[j].bound /\ s.lif[j].sync
              \/ /\ f[n] = AggportState(s, j) /\ s.lif[j].bound /\ s.lif[j].changed
                 /\ s.lif[j].sync => \E m \in 1..(n - 1) : f[m] = AggportConfig(j)
      BY <1>1 DEF HoldsUpdates
    <2>2. CASE f[n] = AggportConfig(j) /\ s.lif[j].bound
      <3>0. (Introduces(AggportConfig(j), i) <=> i = j)
            /\ \A up \in BOOLEAN : ~Says(AggportConfig(j), i, up)
        BY WhatIsSaid
      <3>1. (Introduces(f[n], i) <=> i = j) /\ \A up \in BOOLEAN : ~Says(f[n], i, up)
        BY <2>2, <3>0
      <3>2. f[n].type = "CONF"
        BY <2>2 DEF AggportConfig
      <3> QED BY <1>2, <2>2, <3>1, <3>2 DEF Silent, IsRequest
    <2>3. CASE /\ f[n] = AggportState(s, j) /\ s.lif[j].bound
               /\ s.lif[j].sync => \E m \in 1..(n - 1) : f[m] = AggportConfig(j)
      <3>1. /\ ~Introduces(f[n], i)
            /\ \A up \in BOOLEAN : Says(f[n], i, up) <=> i = j /\ s.lif[j].up = up
        <4>1. /\ ~Introduces(AggportState(s, j), i)
              /\ \A up \in BOOLEAN : Says(AggportState(s, j), i, up) <=> i = j /\ s.lif[j].up = up
          BY WhatIsSaid
        <4> QED BY <2>3, <4>1
      <3>2. f[n].type = "STATE"
        BY <2>3 DEF AggportState
      <3>3. i = j /\ l.sync => \E m \in 1..n : Introduces(f[m], i)
        <4> SUFFICES ASSUME i = j, l.sync PROVE \E m \in 1..n : Introduces(f[m], i)
          OBVIOUS
        <4>1. PICK m \in 1..(n - 1) : f[m] = AggportConfig(j)
          BY <2>3
        <4>2. Introduces(AggportConfig(i), i)
          BY WhatIsSaid
        <4>3. m \in 1..n /\ Introduces(f[m], i)
          BY <4>1, <4>2
        <4> QED BY <4>3
      <3>4. ~l.bound => i # j
        BY <2>3
      <3>5. ~Says(f[n], i, ~l.up)
        BY <1>2, <3>1
      <3>6. Says(f[n], i, l.up) => i = j
        BY <1>2, <3>1
      <3>7. ~l.bound => Silent(f[n], i)
        BY <3>1, <3>4 DEF Silent
      <3> QED BY <3>2, <3>3, <3>5, <3>6, <3>7 DEF IsRequest
    <2> QED BY <2>1, <2>2, <2>3
  <1>4. l.bound =>
          /\ l.sync => \E n \in 1..Len(f) : Introduces(f[n], i)
          /\ l.changed => \E n \in 1..Len(f) : f[n] = AggportState(s, i)
    <2>1. Introduces(AggportConfig(i), i)
      BY WhatIsSaid
    <2> QED BY <1>1, <2>1 DEF HoldsUpdates
  <1>5. Says(AggportState(s, i), i, l.up) /\ (l.up => AggportState(s, i) = UpOf(i))
    BY <1>2, WhatIsSaid
  <1> HIDE DEF l
  <1>6. Told(l, TRUE, k, TRUE, f, i)
    <2>1. k.bound = l.bound /\ k.up = l.up
      BY DEF l
    <2> QED BY <1>3, <1>4, <1>5, <2>1 DEF Told, Silent
  <1>7. l.bound /\ l.changed /\ l.up => \E n \in 1..Len(f) : f[n] = UpOf(i)
    BY <1>4, <1>5
  <1> QED BY <1>1, <1>3, <1>6, <1>7 DEF f, l, Plain

(* The answer tells all, too. *)
LEMMA AnswerTold ==
    ASSUME NEW s \in Switch, NEW k \in LocalIf, NEW i \in Po, NEW a \in BOOLEAN, NEW b \in BOOLEAN,
           k.bound = s.lif[i].bound, k.up = s.lif[i].up,
           NEW out \in Seq(Msg), Len(out) >= 1, out[1] = Info(s),
           \A n \in 1..Len(out) : n > 1 => Silent(out[n], i)
    PROVE  Told(s.lif[i], a, k, b, out, i)
  <1> DEFINE l == s.lif[i]
  <1>1. l.up \in BOOLEAN /\ (~l.up) \in BOOLEAN /\ Len(out) \in Nat /\ 1 \in 1..Len(out)
    BY DEF Switch, LocalIf
  <1>2. /\ Introduces(out[1], i) <=> l.bound
        /\ \A up \in BOOLEAN : Says(out[1], i, up) <=> l.bound /\ l.up = up
    BY WhatIsSaid
  <1> HIDE DEF l
  <1>3. \A n \in 1..Len(out) : n = 1 \/ Silent(out[n], i)
    BY <1>1
  <1>4. ~l.bound => \A n \in 1..Len(out) : Silent(out[n], i)
    BY <1>2, <1>3 DEF Silent
  <1>5. \A n \in 1..Len(out) : ~Says(out[n], i, ~l.up)
    <2> SUFFICES ASSUME NEW n \in 1..Len(out) PROVE ~Says(out[n], i, ~l.up)
      OBVIOUS
    <2>1. CASE n = 1
      BY <1>1, <1>2, <2>1
    <2>2. CASE Silent(out[n], i)
      BY <1>1, <2>2 DEF Silent
    <2> QED BY <1>3, <2>1, <2>2
  <1>6. l.bound => \A n \in 1..Len(out) : 1 \in 1..n /\ Introduces(out[1], i)
    BY <1>1, <1>2
  <1>7. l.bound => Says(out[1], i, l.up)
    BY <1>1, <1>2
  <1>8. k.bound = l.bound /\ k.up = l.up
    BY DEF l
  <1>9. Told(l, a, k, b, out, i)
    BY <1>1, <1>4, <1>5, <1>6, <1>7, <1>8 DEF Told, Silent
  <1> QED BY <1>9 DEF l

(* Acknowledgements before the updates change nothing. *)
LEMMA ToldAfterAcks ==
    ASSUME NEW l, NEW k, NEW a, NEW b, NEW i \in Po, NEW c \in Seq(Msg), NEW out \in Seq(Msg),
           Told(l, a, k, b, out, i), \A n \in 1..Len(c) : Silent(c[n], i), l.up \in BOOLEAN
    PROVE  Told(l, a, k, b, c \o out, i)
  <1> DEFINE d == c \o out
             N == Len(c)
             M == Len(out)
  <1>1. /\ N \in Nat /\ M \in Nat /\ Len(d) = N + M
        /\ \A n \in 1..N : d[n] = c[n] /\ n \in 1..Len(d)
        /\ \A n \in 1..M : d[N + n] = out[n] /\ N + n \in 1..Len(d)
    OBVIOUS
  <1>2. \A n \in 1..Len(d) : n \in 1..N \/ (n - N \in 1..M /\ d[n] = out[n - N])
    BY <1>1
  <1> HIDE DEF d, N, M
  <1>3. \A n \in 1..Len(d) : Silent(d[n], i) \/ (n - N \in 1..M /\ d[n] = out[n - N])
    BY <1>1, <1>2 DEF N
  <1>4. ~l.bound => \A n \in 1..Len(d) : Silent(d[n], i)
    <2>1. ~l.bound => \A n \in 1..M : Silent(out[n], i)
      BY DEF Told, Silent, M
    <2> QED BY <1>3, <2>1
  <1>5. ASSUME l.bound, NEW n \in 1..Len(d)
        PROVE  /\ ~Says(d[n], i, ~l.up)
               /\ Says(d[n], i, l.up) => (a /\ ~l.sync) \/ \E j \in 1..n : Introduces(d[j], i)
    <2>1. CASE Silent(d[n], i)
      BY <2>1 DEF Silent
    <2>2. CASE n - N \in 1..M /\ d[n] = out[n - N]
      <3>1. /\ ~Says(d[n], i, ~l.up)
            /\ Says(d[n], i, l.up) => (a /\ ~l.sync) \/ \E j \in 1..(n - N) : Introduces(out[j], i)
        BY <1>5, <2>2 DEF Told, M
      <3>2. \A j \in 1..(n - N) : N + j \in 1..n /\ d[N + j] = out[j]
        BY <1>1, <2>2
      <3> QED BY <3>1, <3>2
    <2> QED BY <1>3, <2>1, <2>2
  <1>6. l.bound /\ b =>
          /\ \/ \E n \in 1..Len(d) : Introduces(d[n], i)
             \/ a /\ (l.sync => k.sync)
          /\ \/ \E n \in 1..Len(d) : Says(d[n], i, l.up)
             \/ a /\ (l.changed => k.changed)
    BY <1>1 DEF Told, M
  <1>7. Told(l, a, k, b, d, i)
    <2>1. k.bound = l.bound /\ k.up = l.up
      BY DEF Told
    <2> QED BY <1>4, <1>5, <1>6, <2>1 DEF Told, Silent
  <1> QED BY <1>7 DEF d

(* p has answered in the session, in state s. *)
Answered(p, s) == s.state = "EXCHANGE" \/ (p = Active /\ s.state = "STAGE2")

(* A turn takes p from s to r, with the message m if n is 1, and sends out:  *)
(* it learns what m says, tells what it has to tell, releases what m         *)
(* acknowledges, and acknowledges what m announces.                          *)
Good(p, s, r, n, m, out) ==
    /\ r.state # "ERROR" /\ out \in Seq(Msg)
    /\ \A k \in 1..Len(out) : out[k].type # "PURGE"
    /\ "EXCHANGE" \in {s.state, r.state} \/ (s.state = "STAGE2" /\ s.wait) => Plain(out)
    /\ \A i \in Po :
          /\ r.pif[i] = IF n = 0 THEN s.pif[i] ELSE Effect(s.pif[i], m, i)
          /\ Told(s.lif[i], Answered(p, s), r.lif[i], Answered(p, r), out, i)
          /\ r.lif[i].blocked /\ r.lif[i].up =>
                /\ s.lif[i].blocked
                /\ n = 1 => m # AckOf(i)
                /\ s.lif[i].changed => \E k \in 1..Len(out) : out[k] = UpOf(i)
          /\ n = 1 /\ m = UpOf(i) => \E k \in 1..Len(out) : out[k] = AckOf(i)

LEMMA IdleGood ==
    ASSUME NEW p \in Peer, sw[p] \in Switch, SwOk(sw[p]), sw[p].state \notin {"EXCHANGE", "ERROR"},
           NEW a \in SetToSeqs(AcksIn(p, 0)), NEW o, NEW m
    PROVE  Good(p, sw[p], After(p, 0), 0, m, SentIn(p, 0, a, o))
  <1> DEFINE s == sw[p]
             r == After(p, 0)
             out == SentIn(p, 0, a, o)
  <1>1. r = Asked(p) /\ out = Request(p, Started(s))
    BY IdleTurn
  <1>2. /\ r.pif = s.pif /\ r.lif = s.lif
        /\ r.state = IF s.state = "INIT" THEN "STAGE1" ELSE s.state
        /\ MustRequest(p, Started(s)) =>
              ((s.state = "INIT" /\ p = Standby) \/ (Requester(p, s) /\ ~s.wait))
    BY <1>1, AskedFields
  <1>3. /\ out \in Seq(Msg)
        /\ MustRequest(p, Started(s)) => out = << ReqMsg >>
        /\ ~MustRequest(p, Started(s)) => out = <<>>
    BY <1>1, RequestIs DEF ReqMsg
  <1> HIDE DEF r, out
  <1>4. \A k \in 1..Len(out) : out[k] = ReqMsg
    BY <1>3
  <1>5. \A k \in 1..Len(out) : out[k].type # "PURGE"
    BY <1>4 DEF ReqMsg
  <1>6. "EXCHANGE" \in {s.state, r.state} \/ (s.state = "STAGE2" /\ s.wait) => Plain(out)
    <2>1. s.state = "STAGE2" /\ s.wait => ~MustRequest(p, Started(s))
      BY <1>2
    <2>2. s.state # "EXCHANGE" /\ r.state # "EXCHANGE"
      BY <1>2
    <2>3. out = <<>> => Plain(out)
      BY DEF Plain
    <2> QED BY <1>3, <2>1, <2>2, <2>3
  <1>7. ASSUME NEW i \in Po
        PROVE  /\ r.pif[i] = s.pif[i] /\ ~s.lif[i].blocked /\ r.lif[i] = s.lif[i]
               /\ Told(s.lif[i], Answered(p, s), r.lif[i], Answered(p, r), out, i)
    <2>1. \A k \in 1..Len(out) : Silent(out[k], i)
      BY <1>4, WhatIsSaid
    <2>2. s.lif[i].up \in BOOLEAN /\ ~s.lif[i].blocked
      BY DEF Switch, LocalIf, SwOk, IfOk
    <2>3. Answered(p, r) => Answered(p, s)
      BY <1>2 DEF Answered
    <2>4. \A k \in 1..Len(out) : \A up \in BOOLEAN : ~Says(out[k], i, up)
      BY <2>1 DEF Silent
    <2>5. (~s.lif[i].up) \in BOOLEAN
      BY <2>2
    <2> HIDE DEF s
    <2>6. Told(s.lif[i], Answered(p, s), s.lif[i], Answered(p, r), out, i)
      BY <2>1, <2>2, <2>3, <2>4, <2>5 DEF Told, Silent
    <2> QED BY <1>2, <2>2, <2>6
  <1>8. r.state # "ERROR"
    BY <1>2
  <1> QED BY <1>3, <1>5, <1>6, <1>7, <1>8 DEF Good, r, out

LEMMA RequestChangesNothing ==
    ASSUME NEW m \in Msg, IsRequest(m), NEW i \in Po, NEW v
    PROVE  Effect(v, m, i) = v /\ m # UpOf(i) /\ m # AckOf(i)
  BY DEF IsRequest, Effect, UpOf, AckOf

LEMMA AnsweringGood ==
    ASSUME NEW p \in Peer, sw[p] \in Switch, SwOk(sw[p]),
           Sender(p, Started(sw[p])), ~Started(sw[p]).wait,
           Head(ch[p]) \in Msg, IsRequest(Head(ch[p])),
           NEW a \in SetToSeqs(AcksIn(p, 1)), NEW o \in SetToSeqs(Po)
    PROVE  Good(p, sw[p], After(p, 1), 1, Head(ch[p]), SentIn(p, 1, a, o))
  <1> DEFINE s == sw[p]
             t == Started(s)
             d == SentAll(t)
             r == After(p, 1)
             m == Head(ch[p])
             out == SentIn(p, 1, a, o)
  <1>1. /\ t \in Switch /\ d \in Switch /\ Info(t) \in Msg
        /\ p = Active => /\ t.state = "STAGE1" /\ d.state = "STAGE2"
                         /\ r = Requested(p, d) /\ out = << Info(t) >> \o << ReqMsg >>
        /\ p = Standby => /\ t.state = "STAGE2" /\ d.state = "EXCHANGE"
                          /\ r = Flushed(d) /\ out = << Info(t) >> \o Pending(d, o)
    BY AnsweringTurn DEF ReqMsg
  <1>2. /\ t.pif = s.pif /\ t.lif = s.lif /\ t.state = IF s.state = "INIT" THEN "STAGE1" ELSE s.state
        /\ SwOk(t)
    BY StartedFields, StartedOk
  <1>3. (p = Active \/ p = Standby) /\ Active # Standby
    BY PeerAssumption DEF Peer
  <1>4. /\ SwOk(d) /\ d.pif = t.pif
        /\ \A i \in Po : t.lif[i].bound => ~d.lif[i].sync /\ ~d.lif[i].changed
        /\ \A i \in Po : /\ d.lif[i].bound = t.lif[i].bound /\ d.lif[i].up = t.lif[i].up
                         /\ d.lif[i].blocked => ~d.lif[i].up
    <2>1. t.state \in {"STAGE1", "STAGE2"}
      BY <1>1, <1>3
    <2> QED BY <1>1, <1>2, <2>1, SentAllOk, SentAllFields
  <1> HIDE DEF t, d, r, m, out
  <1>5. /\ r \in Switch /\ r.pif = s.pif /\ r.state = d.state
        /\ \A i \in Po : /\ r.lif[i].bound = s.lif[i].bound /\ r.lif[i].up = s.lif[i].up
                         /\ r.lif[i].blocked => ~r.lif[i].up
    <2>1. CASE p = Active
      BY <1>1, <1>2, <1>4, <2>1, RequestedFields
    <2>2. CASE p = Standby
      <3>1. r = Flushed(d) /\ d.state \in {"EXCHANGE", "ERROR"}
        BY <1>1, <2>2
      <3>2. /\ r \in Switch /\ r.pif = d.pif /\ r.state = d.state
        BY <1>1, <3>1, FlushedFields
      <3>3. \A i \in Po : /\ r.lif[i].bound = d.lif[i].bound /\ r.lif[i].up = d.lif[i].up
                          /\ r.lif[i].blocked /\ r.lif[i].up => d.lif[i].blocked
        BY <1>1, <1>4, <3>1, FlushedOk
      <3> QED BY <1>2, <1>4, <3>2, <3>3
    <2> QED BY <1>3, <2>1, <2>2
  <1>6. /\ out \in Seq(Msg) /\ Len(out) >= 1 /\ out[1] = Info(t)
        /\ \A k \in 1..Len(out) : k > 1 => out[k] = ReqMsg /\ p = Active
    <2>1. CASE p = Active
      <3>1. ReqMsg \in Msg
        BY DEF ReqMsg, Msg
      <3>2. out = << Info(t), ReqMsg >>
        BY <1>1, <2>1
      <3> QED BY <1>1, <2>1, <3>1, <3>2
    <2>2. CASE p = Standby
      <3> DEFINE f == Pending(d, o)
      <3>1. f \in Seq(Msg) /\ HoldsUpdates(f, d)
        BY <1>1, <1>4, PendingIs DEF SwOk
      <3> HIDE DEF f
      <3>2. f = <<>>
        <4>1. \A k \in 1..Len(f) : FALSE
          BY <1>4, <3>1 DEF HoldsUpdates
        <4> QED BY <3>1, <4>1
      <3>3. out = << Info(t) >>
        BY <1>1, <2>2, <3>2, EmptyAdds DEF f
      <3> QED BY <1>1, <3>3
    <2> QED BY <1>3, <2>1, <2>2
  <1>7. /\ \A k \in 1..Len(out) : out[k].type # "PURGE"
        /\ p = Standby => Plain(out)
    <2>1. Info(t).type = "INFO" /\ ReqMsg.type = "SYNC_REQ"
      BY DEF Info, ReqMsg
    <2>2. \A k \in 1..Len(out) : out[k] = Info(t) \/ (out[k] = ReqMsg /\ p = Active)
      BY <1>6
    <2> QED BY <1>3, <2>1, <2>2 DEF Plain, IsRequest
  <1>8. p = Active => ~("EXCHANGE" \in {s.state, r.state} \/ (s.state = "STAGE2" /\ s.wait))
    BY <1>1, <1>2, <1>5
  <1>9. ASSUME NEW i \in Po
        PROVE  /\ r.pif[i] = Effect(s.pif[i], m, i)
               /\ Told(s.lif[i], Answered(p, s), r.lif[i], Answered(p, r), out, i)
               /\ ~(r.lif[i].blocked /\ r.lif[i].up)
               /\ m # UpOf(i)
    <2>1. Effect(s.pif[i], m, i) = s.pif[i] /\ m # UpOf(i)
      BY RequestChangesNothing DEF m
    <2>2. r.lif[i] \in LocalIf /\ Answered(p, s) \in BOOLEAN /\ Answered(p, r) \in BOOLEAN
      BY <1>5 DEF Switch, Answered
    <2>3. Silent(ReqMsg, i)
      BY <1>1, WhatIsSaid
    <2>4. \A k \in 1..Len(out) : k > 1 => Silent(out[k], i)
      BY <1>6, <2>3
    <2>5. Told(t.lif[i], Answered(p, s), r.lif[i], Answered(p, r), out, i)
      BY <1>1, <1>2, <1>5, <1>6, <2>2, <2>4, AnswerTold
    <2> QED BY <1>2, <1>5, <2>1, <2>5
  <1>10. r.state # "ERROR"
    BY <1>1, <1>3, <1>5
  <1>11. "EXCHANGE" \in {s.state, r.state} \/ (s.state = "STAGE2" /\ s.wait) => Plain(out)
    BY <1>3, <1>7, <1>8
  <1> QED BY <1>6, <1>7, <1>9, <1>10, <1>11 DEF Good, r, m, out

LEMMA PendingPlain ==
    ASSUME NEW s \in Switch, NEW o \in SetToSeqs(Po), SwOk(s)
    PROVE  Pending(s, o) \in Seq(Msg) /\ Plain(Pending(s, o))
  <1> DEFINE f == Pending(s, o)
  <1>1. f \in Seq(Msg) /\ HoldsUpdates(f, s)
    BY PendingIs DEF SwOk
  <1> HIDE DEF f
  <1>2. ASSUME NEW n \in 1..Len(f) PROVE f[n].type # "PURGE" /\ ~IsRequest(f[n])
    <2>1. PICK j \in Po : f[n] = AggportConfig(j) \/ f[n] = AggportState(s, j)
      BY <1>1 DEF HoldsUpdates
    <2> QED BY <2>1 DEF AggportConfig, AggportState, IsRequest
  <1> QED BY <1>1, <1>2 DEF Plain, f

LEMMA LearningGood ==
    ASSUME NEW p \in Peer, sw[p] \in Switch, SwOk(sw[p]), Requester(p, sw[p]), sw[p].wait,
           Head(ch[p]) \in Msg, IsInfo(Head(ch[p])),
           NEW a \in SetToSeqs(AcksIn(p, 1)), NEW o \in SetToSeqs(Po)
    PROVE  Good(p, sw[p], After(p, 1), 1, Head(ch[p]), SentIn(p, 1, a, o))
  <1> DEFINE s == sw[p]
             m == Head(ch[p])
             d == Learned(s, m.po)
             e == Advanced(d)
             r == After(p, 1)
             out == SentIn(p, 1, a, o)
  <1>1. /\ d \in Switch /\ e \in Switch /\ d.state = s.state
        /\ p = Standby => /\ s.state = "STAGE1" /\ e.state = "STAGE2" /\ r = e /\ out = <<>>
        /\ p = Active => /\ s.state = "STAGE2" /\ e.state = "EXCHANGE"
                         /\ r = Flushed(e) /\ out = Pending(e, o)
    BY LearningTurn
  <1>2. m.type = "INFO" /\ m.po \in [Po -> PeerIf]
    BY MsgCases DEF IsInfo
  <1>3. (p = Active \/ p = Standby) /\ Active # Standby
    BY PeerAssumption DEF Peer
  <1>4. /\ SwOk(d) /\ SameToSend(d, s)
        /\ \A i \in Po : d.pif[i] = IF m.po[i] = "none" THEN s.pif[i] ELSE m.po[i]
    BY <1>2, LearnedOk, LearnedFields
  <1> HIDE DEF d, m
  <1>5. /\ SwOk(e) /\ e.pif = d.pif
        /\ \A i \in Po :
              /\ e.lif[i].bound = d.lif[i].bound /\ e.lif[i].up = d.lif[i].up
              /\ e.lif[i].sync = d.lif[i].sync /\ (e.lif[i].changed <=> d.lif[i].changed)
              /\ e.lif[i].blocked => ~e.lif[i].up
    <2>1. d.state \in {"STAGE1", "STAGE2"}
      BY <1>1, <1>3
    <2> QED BY <1>1, <1>4, <2>1, AdvancedOk, AdvancedFields
  <1> HIDE DEF e, r, out
  <1>6. /\ r \in Switch /\ r.pif = e.pif /\ r.state = e.state
        /\ \A i \in Po : /\ r.lif[i].bound = e.lif[i].bound /\ r.lif[i].up = e.lif[i].up
                         /\ r.lif[i].blocked => ~r.lif[i].up
    <2>1. CASE p = Standby
      BY <1>1, <1>5, <2>1
    <2>2. CASE p = Active
      <3>1. r = Flushed(e) /\ e.state \in {"EXCHANGE", "ERROR"}
        BY <1>1, <2>2
      <3>2. /\ r \in Switch /\ r.pif = e.pif /\ r.state = e.state
        BY <1>1, <3>1, FlushedFields
      <3>3. \A i \in Po : /\ r.lif[i].bound = e.lif[i].bound /\ r.lif[i].up = e.lif[i].up
                          /\ r.lif[i].blocked /\ r.lif[i].up => e.lif[i].blocked
        BY <1>1, <1>5, <3>1, FlushedOk
      <3> QED BY <1>5, <3>2, <3>3
    <2> QED BY <1>3, <2>1, <2>2
  <1>7. ASSUME NEW i \in Po
        PROVE  /\ r.pif[i] = Effect(s.pif[i], m, i)
               /\ ~(r.lif[i].blocked /\ r.lif[i].up)
               /\ m # UpOf(i)
    <2>1. m # UpOf(i)
      BY <1>2 DEF UpOf
    <2>2. Effect(s.pif[i], m, i) = IF m.po[i] = "none" THEN s.pif[i] ELSE m.po[i]
      BY <1>2 DEF Effect
    <2> QED BY <1>4, <1>5, <1>6, <2>1, <2>2
  <1>8. ASSUME NEW i \in Po
        PROVE  /\ out \in Seq(Msg) /\ Plain(out)
               /\ Told(s.lif[i], Answered(p, s), r.lif[i], Answered(p, r), out, i)
    <2>0. /\ e.lif[i].bound = s.lif[i].bound /\ e.lif[i].up = s.lif[i].up
          /\ e.lif[i].sync = s.lif[i].sync /\ (e.lif[i].changed <=> s.lif[i].changed)
      BY <1>4, <1>5 DEF SameToSend
    <2>1. CASE p = Standby
      <3>1. out = <<>> /\ ~Answered(p, r)
        BY <1>1, <1>3, <1>6, <2>1 DEF Answered
      <3>2. \A k \in 1..Len(out) : FALSE
        BY <3>1
      <3>3. out \in Seq(Msg)
        BY <3>1, EmptyAdds
      <3> HIDE DEF s
      <3> QED BY <1>6, <2>0, <3>1, <3>2, <3>3 DEF Told, Plain
    <2>2. CASE p = Active
      <3>1. r.lif[i] \in LocalIf /\ e.lif[i] \in LocalIf
        BY <1>1, <1>6 DEF Switch
      <3>2. Answered(p, s) = TRUE /\ Answered(p, r) = TRUE
        BY <1>1, <1>6, <2>2 DEF Answered
      <3>3. out \in Seq(Msg) /\ Plain(out) /\ Told(e.lif[i], TRUE, r.lif[i], TRUE, out, i)
        BY <1>1, <1>5, <1>6, <2>2, <3>1, PendingTold
      <3> HIDE DEF s
      <3>4. Told(s.lif[i], TRUE, r.lif[i], TRUE, out, i)
        BY <2>0, <3>3 DEF Told
      <3> QED BY <3>2, <3>3, <3>4
    <2> QED BY <1>3, <2>1, <2>2
  <1>9. out \in Seq(Msg) /\ Plain(out)
    <2>1. CASE p = Standby
      BY <1>1, <2>1, EmptyAdds DEF Plain
    <2>2. CASE p = Active
      BY <1>1, <1>5, <2>2, PendingPlain
    <2> QED BY <1>3, <2>1, <2>2
  <1>10. r.state # "ERROR"
    BY <1>1, <1>3, <1>6
  <1> QED BY <1>7, <1>8, <1>9, <1>10 DEF Good, Plain, r, m, out

LEMMA ExchangeGood ==
    ASSUME NEW p \in Peer, sw[p] \in Switch, SwOk(sw[p]), sw[p].state = "EXCHANGE", NEW n \in 0..1,
           n = 1 => /\ Head(ch[p]) \in Msg /\ ~IsRequest(Head(ch[p]))
                    /\ Head(ch[p]).type # "PURGE",
           NEW a \in SetToSeqs(AcksIn(p, n)), NEW o \in SetToSeqs(Po)
    PROVE  Good(p, sw[p], After(p, n), n, Head(ch[p]), SentIn(p, n, a, o))
  <1> DEFINE s == sw[p]
             m == Head(ch[p])
             d == IF n = 0 THEN s ELSE Received(s, m)
             r == After(p, n)
             out == SentIn(p, n, a, o)
             f == Pending(d, o)
  <1>1. /\ d \in Switch /\ r = Flushed(d)
        /\ n = 0 => out = f
        /\ n = 1 => /\ a \in SetToSeqs(Acks(s, m))
                    /\ a \in Seq(Msg) => out = a \o f
    BY ExchangeTurn
  <1>2. /\ SwOk(d) /\ SameToSend(d, s) /\ d.state = "EXCHANGE"
        /\ \A i \in Po : d.pif[i] = IF n = 0 THEN s.pif[i] ELSE Effect(s.pif[i], m, i)
        /\ \A i \in Po : n = 1 /\ m = AckOf(i) /\ s.lif[i].up => ~d.lif[i].blocked
    <2>1. CASE n = 0
      BY <2>1 DEF SameToSend
    <2>2. CASE n = 1
      <3> DEFINE e == Received(s, m)
      <3>1. d = e
        BY <2>2
      <3>2. /\ SwOk(e) /\ SameToSend(e, s)
            /\ \A i \in Po : e.pif[i] = Effect(s.pif[i], m, i)
            /\ \A i \in Po : m = AckOf(i) /\ s.lif[i].up => ~e.lif[i].blocked
        BY <2>2, ReceivedOk
      <3>3. e.state = "EXCHANGE"
        BY <2>2, ReceivedFields DEF IsRequest
      <3> HIDE DEF e, d
      <3> QED BY <2>2, <3>1, <3>2, <3>3
    <2> QED BY <2>1, <2>2
  <1> HIDE DEF d
  <1>3. n = 1 => /\ a \in Seq(Msg)
                 /\ \A k \in 1..Len(a) : \E i \in Po : a[k] = AckOf(i)
                 /\ \A i \in Po : m = UpOf(i) => \E k \in 1..Len(a) : a[k] = AckOf(i)
    <2> SUFFICES ASSUME n = 1
                 PROVE  /\ a \in Seq(Msg)
                        /\ \A k \in 1..Len(a) : \E i \in Po : a[k] = AckOf(i)
                        /\ \A i \in Po : m = UpOf(i) => \E k \in 1..Len(a) : a[k] = AckOf(i)
      OBVIOUS
    <2> DEFINE A == Acks(s, m)
    <2>1. /\ IsFiniteSet(A)
          /\ \A x \in A : \E i \in Po : x = AckOf(i)
          /\ \A i \in Po : m = UpOf(i) => AckOf(i) \in A
      BY AcksAre DEF UpOf
    <2>2. a \in SetToSeqs(A)
      BY <1>1
    <2> HIDE DEF A
    <2>3. a \in Seq(A) /\ \A x \in A : \E k \in 1..Len(a) : a[k] = x
      BY <2>1, <2>2, PermutationElements
    <2>4. \A x \in A : x \in Msg
      BY <2>1, MsgTypes
    <2>5. a \in Seq(Msg)
      BY <2>3, <2>4
    <2>6. \A k \in 1..Len(a) : a[k] \in A
      BY <2>3
    <2> QED BY <2>1, <2>3, <2>5, <2>6
  <1>4. /\ r \in Switch /\ r.pif = d.pif /\ r.state = d.state
        /\ \A i \in Po : /\ r.lif[i].bound = d.lif[i].bound /\ r.lif[i].up = d.lif[i].up
                         /\ r.lif[i].blocked /\ r.lif[i].up => d.lif[i].blocked
    BY <1>1, <1>2, FlushedFields, FlushedOk
  <1>5. f \in Seq(Msg) /\ Plain(f)
    BY <1>1, <1>2, PendingPlain
  <1> HIDE DEF r, out, f, m
  <1>6. /\ out \in Seq(Msg) /\ Plain(out)
        /\ \A k \in 1..Len(f) : \E j \in 1..Len(out) : out[j] = f[k]
        /\ n = 1 => \A k \in 1..Len(a) : \E j \in 1..Len(out) : out[j] = a[k]
    <2>1. CASE n = 0
      BY <1>1, <1>5, <2>1
    <2>2. CASE n = 1
      <3>1. out = a \o f /\ a \in Seq(Msg)
        BY <1>1, <1>3, <2>2
      <3>2. /\ out \in Seq(Msg)
            /\ \A k \in 1..Len(a) : k \in 1..Len(out) /\ out[k] = a[k]
            /\ \A k \in 1..Len(f) : Len(a) + k \in 1..Len(out) /\ out[Len(a) + k] = f[k]
            /\ \A j \in 1..Len(out) : \/ j \in 1..Len(a) /\ out[j] = a[j]
                                      \/ j - Len(a) \in 1..Len(f) /\ out[j] = f[j - Len(a)]
        <4>1. /\ Len(a) \in Nat /\ Len(f) \in Nat
              /\ out \in Seq(Msg) /\ Len(out) = Len(a) + Len(f)
              /\ \A j \in 1..Len(out) : out[j] = IF j <= Len(a) THEN a[j] ELSE f[j - Len(a)]
          BY <1>5, <3>1
        <4> QED BY SMTT(30), <4>1
      <3>3. \A k \in 1..Len(a) : a[k].type # "PURGE" /\ ~IsRequest(a[k])
        <4>1. \A i \in Po : AckOf(i).type # "PURGE" /\ ~IsRequest(AckOf(i))
          BY DEF AckOf, IsRequest
        <4>2. \A k \in 1..Len(a) : \E i \in Po : a[k] = AckOf(i)
          BY <1>3, <2>2
        <4> QED BY <4>1, <4>2
      <3>4. Plain(out)
        BY <1>5, <3>2, <3>3 DEF Plain
      <3> QED BY <3>2, <3>4
    <2> QED BY <2>1, <2>2
  <1>7. ASSUME NEW i \in Po
        PROVE  Told(s.lif[i], Answered(p, s), r.lif[i], Answered(p, r), out, i)
    <2>1. r.lif[i] \in LocalIf /\ d.lif[i] \in LocalIf /\ s.lif[i].up \in BOOLEAN
      BY <1>1, <1>4 DEF Switch, LocalIf
    <2>2. Answered(p, s) = TRUE /\ Answered(p, r) = TRUE
      BY <1>2, <1>4 DEF Answered
    <2>3. Told(d.lif[i], TRUE, r.lif[i], TRUE, f, i)
      BY <1>1, <1>2, <1>4, <2>1, PendingTold DEF f
    <2>4. /\ d.lif[i].bound = s.lif[i].bound /\ d.lif[i].up = s.lif[i].up
          /\ d.lif[i].sync = s.lif[i].sync /\ d.lif[i].changed = s.lif[i].changed
      BY <1>2 DEF SameToSend
    <2> HIDE DEF s
    <2>5. Told(s.lif[i], TRUE, r.lif[i], TRUE, f, i)
      BY <2>3, <2>4 DEF Told
    <2>6. CASE n = 0
      BY <1>1, <2>2, <2>5, <2>6
    <2>7. CASE n = 1
      <3>1. \A k \in 1..Len(a) : Silent(a[k], i)
        <4>1. \A j \in Po : Silent(AckOf(j), i)
          BY <1>1, WhatIsSaid
        <4> QED BY <1>3, <2>7, <4>1
      <3>2. Told(s.lif[i], TRUE, r.lif[i], TRUE, a \o f, i)
        BY <1>3, <1>5, <2>1, <2>5, <2>7, <3>1, ToldAfterAcks
      <3> QED BY <1>1, <1>3, <2>2, <2>7, <3>2
    <2> QED BY <2>6, <2>7
  <1>8. ASSUME NEW i \in Po, r.lif[i].blocked, r.lif[i].up
        PROVE  /\ s.lif[i].blocked
               /\ n = 1 => m # AckOf(i)
               /\ s.lif[i].changed => \E k \in 1..Len(out) : out[k] = UpOf(i)
    <2>1. /\ d.lif[i].blocked /\ d.lif[i].up /\ s.lif[i].up /\ s.lif[i].blocked
          /\ d.lif[i].changed = s.lif[i].changed
      BY <1>2, <1>4, <1>8 DEF SameToSend
    <2>2. n = 1 => m # AckOf(i)
      BY <1>2, <2>1
    <2>3. d.lif[i].bound
      BY <1>2, <2>1 DEF SwOk, IfOk
    <2>4. r.lif[i] \in LocalIf
      BY <1>4 DEF Switch
    <2>5. d.lif[i].changed => \E k \in 1..Len(f) : f[k] = UpOf(i)
      BY <1>1, <1>2, <1>4, <2>1, <2>3, <2>4, PendingTold DEF f
    <2> QED BY <1>6, <2>1, <2>2, <2>5
  <1>9. ASSUME NEW i \in Po, n = 1, m = UpOf(i)
        PROVE  \E k \in 1..Len(out) : out[k] = AckOf(i)
    BY <1>3, <1>6, <1>9
  <1>10. \A i \in Po : r.pif[i] = IF n = 0 THEN s.pif[i] ELSE Effect(s.pif[i], m, i)
    BY <1>2, <1>4
  <1>11. r.state # "ERROR"
    BY <1>2, <1>4
  <1> QED BY <1>6, <1>7, <1>8, <1>9, <1>10, <1>11 DEF Good, Plain, r, m, out

-----------------------------------------------------------------------------
(* SyncInv, one switch and one interface at a time. *)

(* What SyncInv says of p alone. *)
Alone(j, s, c) ==
    /\ SwOk(s)
    /\ ~j => \A i \in Po : ~s.lif[i].isolated /\ ~s.lif[i].blocked /\ s.pif[i] = "none"
    /\ \A n \in 1..Len(c) : c[n].type # "PURGE"

(* ReleaseInv, for an interface l, what is under way to the peer and from it. *)
Released(l, to, own, i) ==
    l.blocked /\ l.up =>
        \/ l.changed
        \/ \E n \in 1..Len(to) : to[n] = UpOf(i)
        \/ \E n \in 1..Len(own) : own[n] = AckOf(i)

(* What SyncInv says of p in a session with q. *)
Together(p, q) ==
    \A i \in Po :
        /\ Know(sw[q].lif[i], Answered(q, sw[q]), sw[p].pif[i], ch[p], i)
        /\ Released(sw[p].lif[i], ch[q], ch[p], i)

LEMMA AloneIs ==
    ASSUME TypeOK, NEW p \in Peer
    PROVE  Alone(joined[p], sw[p], ch[p]) <=>
              /\ \A i \in Po : InterfaceInv(p, i)
              /\ ~sw[p].need /\ sw[p].purge = <<>>
              /\ \A n \in 1..Len(ch[p]) : ch[p][n].type # "PURGE"
              /\ ~joined[p] => \A i \in Po : sw[p].pif[i] = "none"
  <1> DEFINE s == sw[p]
  <1>1. s \in Switch /\ joined[p] \in BOOLEAN
    BY DEF TypeOK
  <1>2. ASSUME NEW i \in Po
        PROVE  InterfaceInv(p, i) <=>
                  IfOk(s, i) /\ (~joined[p] => ~s.lif[i].isolated /\ ~s.lif[i].blocked)
    <2>1. s.lif[i] \in LocalIf
      BY <1>1 DEF Switch
    <2>2. s.lif[i].active = s.lif[i].up => (Follows(s, i) <=> s.state = "EXCHANGE" /\ s.lif[i].bound /\ s.lif[i].up)
      BY DEF Follows
    <2> QED BY <1>1, <2>1, <2>2 DEF InterfaceInv, IfOk, LocalIf
  <1> HIDE DEF s
  <1> QED BY <1>2 DEF Alone, SwOk, s

LEMMA TogetherIs ==
    ASSUME NEW p \in Peer, NEW q \in Peer, q = Other(p)
    PROVE  (\A i \in Po : KnowledgeInv(p, i) /\ ReleaseInv(p, i)) <=> Together(p, q)
  <1>1. \A i \in Po : KnowledgeInv(p, i) <=>
            Know(sw[q].lif[i], Answered(q, sw[q]), sw[p].pif[i], ch[p], i)
    BY DEF KnowledgeInv, Know, HasAnswered, Answered
  <1>2. \A i \in Po : ReleaseInv(p, i) <=> Released(sw[p].lif[i], ch[q], ch[p], i)
    BY DEF ReleaseInv, Released, UpOf, AckOf
  <1> QED BY <1>1, <1>2 DEF Together

(* SyncInv in these terms. *)
Agreed ==
    /\ \A p \in Peer : Alone(joined[p], sw[p], ch[p])
    /\ joined[Active] /\ joined[Standby] =>
          NoLateRequest /\ Together(Active, Standby) /\ Together(Standby, Active)

LEMMA SyncIsAgreed ==
    ASSUME TypeOK
    PROVE  SyncInv <=> Agreed
  <1>1. (\A p \in Peer : Alone(joined[p], sw[p], ch[p])) <=>
            NothingWithdrawn /\ \A p \in Peer, i \in Po : InterfaceInv(p, i)
    BY AloneIs DEF NothingWithdrawn
  <1>2. (\A p \in Peer, i \in Po : KnowledgeInv(p, i) /\ ReleaseInv(p, i)) <=>
            Together(Active, Standby) /\ Together(Standby, Active)
    <2>1. /\ Active \in Peer /\ Standby \in Peer /\ Standby = Other(Active)
          /\ Active = Other(Standby) /\ Peer = {Active, Standby}
      BY PeerAssumption DEF Peer, Other
    <2>2. (\A i \in Po : KnowledgeInv(Active, i) /\ ReleaseInv(Active, i)) <=> Together(Active, Standby)
      BY <2>1, TogetherIs
    <2>3. (\A i \in Po : KnowledgeInv(Standby, i) /\ ReleaseInv(Standby, i)) <=> Together(Standby, Active)
      BY <2>1, TogetherIs
    <2> QED BY <2>1, <2>2, <2>3
  <1> QED BY <1>1, <1>2 DEF SyncInv, Agreed

(* In a session every turn is of one of the four kinds above. *)
LEMMA TurnIsGood ==
    ASSUME TypeOK, StageInv, joined[Active], joined[Standby], NoLateRequest,
           NEW p \in Peer, NEW n \in 0..1, Alone(joined[p], sw[p], ch[p]),
           n = 1 => ch[p] # <<>> /\ Head(ch[p]) \in Msg /\ Head(ch[p]) = ch[p][1],
           NEW a \in SetToSeqs(AcksIn(p, n)), NEW o \in SetToSeqs(Po)
    PROVE  Good(p, sw[p], After(p, n), n, Head(ch[p]), SentIn(p, n, a, o))
  <1>0. /\ (p = Active \/ p = Standby) /\ Active # Standby /\ Active \in Peer /\ Standby \in Peer
        /\ sw[p] \in Switch /\ ch[p] \in Seq(Msg) /\ ch \in [Peer -> Seq(Msg)]
        /\ Phase /\ SwOk(sw[p]) /\ sw[p].state # "ERROR"
    BY PeerAssumption DEF TypeOK, Peer, StageInv, Alone, NoLateRequest
  <1>1. CASE sw[p].state = "EXCHANGE"
    <2>1. n = 1 => 1 \in 1..Len(ch[p])
      BY <1>0
    <2>2. n = 1 => Head(ch[p]).type # "PURGE"
      BY <2>1 DEF Alone
    <2>3. sw[Standby].state = "EXCHANGE"
      <3>1. p = Active => BothExchange
        BY <1>0, <1>1 DEF Phase, NotAsked, StandbyAsks, ActiveAsks, StandbyKnows, StandbyExchanges
      <3> QED BY <1>0, <1>1, <3>1 DEF BothExchange, NoLateRequest
    <2>4. n = 1 => ~IsRequest(Head(ch[p]))
      BY <2>1, <2>3 DEF NoLateRequest
    <2> QED BY <1>0, <1>1, <2>2, <2>4, ExchangeGood
  <1>2. CASE sw[p].state # "EXCHANGE" /\ n = 0
    BY <1>0, <1>2, IdleGood
  <1>3. CASE sw[p].state # "EXCHANGE" /\ n = 1
    <2> DEFINE s == sw[p]
               m == Head(ch[p])
    <2>0. ~BothExchange /\ ch[p] # <<>> /\ m \in Msg /\ m = ch[p][1]
      BY <1>0, <1>3 DEF BothExchange
    <2>1. \/ p = Active /\ StandbyAsks
          \/ p = Standby /\ StandbyKnows
          \/ p = Standby /\ ActiveAsks
          \/ p = Active /\ StandbyExchanges
      <3>1. CASE p = Active
        BY <1>0, <2>0, <3>1 DEF Phase, NotAsked, ActiveAsks, StandbyKnows
      <3>2. CASE p = Standby
        BY <1>0, <2>0, <3>2 DEF Phase, NotAsked, StandbyAsks, StandbyExchanges
      <3> QED BY <1>0, <3>1, <3>2
    <2>2. \/ IsRequest(m) /\ Sender(p, Started(s)) /\ ~Started(s).wait
          \/ IsInfo(m) /\ Requester(p, s) /\ s.wait
      <3>1. /\ Started(s).state = IF s.state = "INIT" THEN "STAGE1" ELSE s.state
            /\ Started(s).wait <=> s.wait /\ s.state # "INIT"
        BY <1>0, StartedFields
      <3>2. CASE p = Active /\ StandbyAsks
        BY <1>0, <2>0, <3>1, <3>2 DEF StandbyAsks, StageInv, Sender, Requester
      <3>3. CASE p = Standby /\ StandbyKnows
        BY <1>0, <2>0, <3>1, <3>3 DEF StandbyKnows, Sender, Requester
      <3>4. CASE p = Standby /\ ActiveAsks
        BY <1>0, <2>0, <3>1, <3>4 DEF ActiveAsks, Requester
      <3>5. CASE p = Active /\ StandbyExchanges
        BY <1>0, <2>0, <3>1, <3>5 DEF StandbyExchanges, Requester
      <3> QED BY <2>1, <3>2, <3>3, <3>4, <3>5
    <2>3. CASE IsRequest(m) /\ Sender(p, Started(s)) /\ ~Started(s).wait
      BY <1>0, <1>3, <2>0, <2>3, AnsweringGood
    <2>4. CASE IsInfo(m) /\ Requester(p, s) /\ s.wait
      BY <1>0, <1>3, <2>0, <2>4, LearningGood
    <2> QED BY <2>2, <2>3, <2>4
  <1> QED BY <1>1, <1>2, <1>3

(* Nobody asks once the standby switch exchanges. *)
LEMMA RequestsKept ==
    ASSUME TypeOK, StageInv, StageInv', NoLateRequest, NEW p \in Peer, NEW q \in Peer, p # q,
           joined[p], joined[q], UNCHANGED joined, sw'[q] = sw[q], sw'[p].state # "ERROR",
           NEW out \in Seq(Msg),
           "EXCHANGE" \in {sw[p].state, sw'[p].state} \/ (sw[p].state = "STAGE2" /\ sw[p].wait)
               => Plain(out),
           ch'[p] = ch[p] \/ (ch[p] # <<>> /\ ch'[p] = Tail(ch[p])), ch'[q] = ch[q] \o out
    PROVE  NoLateRequest'
  <1>0. /\ (p = Active /\ q = Standby) \/ (p = Standby /\ q = Active)
        /\ Peer = {p, q} /\ Peer = {Active, Standby} /\ Active # Standby
        /\ ch[p] \in Seq(Msg) /\ ch[q] \in Seq(Msg) /\ Phase /\ Phase'
    BY PeerAssumption DEF TypeOK, Peer, StageInv
  <1>1. \A x \in Peer : sw'[x].state # "ERROR"
    BY <1>0 DEF NoLateRequest
  <1>2. /\ \A n \in 1..Len(ch'[p]) : \E k \in 1..Len(ch[p]) : ch'[p][n] = ch[p][k]
    <2>1. CASE ch'[p] = ch[p]
      BY <2>1
    <2>2. CASE ch[p] # <<>> /\ ch'[p] = Tail(ch[p])
      <3> DEFINE c == ch[p]
                 t == Tail(c)
      <3>1. Len(c) \in Nat /\ Len(t) = Len(c) - 1 /\ \A n \in 1..Len(t) : t[n] = c[n + 1]
        BY <1>0, <2>2
      <3> HIDE DEF c, t
      <3>2. \A n \in 1..Len(t) : n + 1 \in 1..Len(c) /\ t[n] = c[n + 1]
        BY <3>1
      <3> QED BY <2>2, <3>2 DEF c, t
    <2> QED BY <2>1, <2>2
  <1>3. \A n \in 1..Len(ch'[q]) : \/ \E k \in 1..Len(ch[q]) : ch'[q][n] = ch[q][k]
                                  \/ \E k \in 1..Len(out) : ch'[q][n] = out[k]
    <2> DEFINE e == ch[q]
               d == e \o out
    <2>1. /\ Len(e) \in Nat /\ Len(out) \in Nat /\ Len(d) = Len(e) + Len(out)
          /\ \A n \in 1..Len(d) : d[n] = IF n <= Len(e) THEN e[n] ELSE out[n - Len(e)]
      BY <1>0
    <2> HIDE DEF e, d
    <2>2. \A n \in 1..Len(d) : \/ n \in 1..Len(e) /\ d[n] = e[n]
                               \/ n - Len(e) \in 1..Len(out) /\ d[n] = out[n - Len(e)]
      BY <2>1
    <2> QED BY <2>2 DEF e, d
  <1>4. ASSUME sw'[Standby].state = "EXCHANGE", NEW x \in Peer, NEW n \in 1..Len(ch'[x])
        PROVE  ~IsRequest(ch'[x][n])
    <2>1. CASE sw[Standby].state = "EXCHANGE"
      <3>1. Plain(out)
        <4>1. CASE p = Standby
          BY <2>1, <4>1
        <4>2. CASE p = Active
          <5>1. StandbyExchanges \/ BothExchange
            BY <1>0, <2>1 DEF Phase, NotAsked, StandbyAsks, ActiveAsks, StandbyKnows
          <5>2. BothExchange => sw[Active].state = "EXCHANGE"
            BY <1>0 DEF BothExchange, NoLateRequest
          <5> QED BY <4>2, <5>1, <5>2 DEF StandbyExchanges
        <4> QED BY <1>0, <4>1, <4>2
      <3>2. \A y \in Peer : \A k \in 1..Len(ch[y]) : ~IsRequest(ch[y][k])
        BY <2>1 DEF NoLateRequest
      <3>3. CASE x = p
        BY <1>2, <1>4, <3>2, <3>3
      <3>4. CASE x = q
        BY <1>3, <1>4, <3>1, <3>2, <3>4 DEF Plain
      <3> QED BY <1>0, <3>3, <3>4
    <2>2. CASE sw[Standby].state # "EXCHANGE"
      <3>1. p = Standby /\ q = Active /\ Plain(out)
        BY <1>0, <1>4, <2>2
      <3>2. ~BothExchange
        BY <1>0, <2>2 DEF BothExchange, NoLateRequest
      <3>3. sw[Active].state # "EXCHANGE" /\ sw[Active].state # "ERROR"
        BY <1>0, <3>2 DEF Phase, NotAsked, StandbyAsks, ActiveAsks, StandbyKnows, StandbyExchanges,
                          NoLateRequest
      <3>4. StandbyExchanges'
        BY <1>0, <1>4, <3>1, <3>3
           DEF Phase, NotAsked, StandbyAsks, ActiveAsks, StandbyKnows, BothExchange
      <3>5. ch'[Standby] = <<>> /\ sw[Active].state = "STAGE2"
        BY <3>1, <3>4 DEF StandbyExchanges
      <3>6. ch[Active] = <<>>
        BY <1>0, <2>2, <3>2, <3>5
           DEF Phase, NotAsked, StandbyAsks, ActiveAsks, StandbyKnows, StandbyExchanges
      <3>7. CASE x = p
        BY <1>4, <3>1, <3>5, <3>7
      <3>8. CASE x = q
        <4>1. \A k \in 1..Len(ch[q]) : FALSE
          BY <3>1, <3>6
        <4> QED BY <1>3, <1>4, <3>1, <3>8, <4>1 DEF Plain
      <3> QED BY <1>0, <3>7, <3>8
    <2> QED BY <2>1, <2>2
  <1> QED BY <1>1, <1>4 DEF NoLateRequest

LEMMA TurnTogether ==
    ASSUME TypeOK, StageInv, StageInv', Agreed, NEW p \in Peer, NEW q \in Peer, p # q,
           joined[p], joined[q], NEW n \in 0..1, Turn(p, n)
    PROVE  /\ NoLateRequest' /\ Together(p, q)' /\ Together(q, p)'
           /\ \A k \in 1..Len(ch'[q]) : ch'[q][k].type # "PURGE"
  <1> DEFINE s == sw[p]
             r == After(p, n)
             m == Head(ch[p])
             c == ch[p]
             e == ch[q]
  <1>0. /\ joined[Active] /\ joined[Standby] /\ Peer = {Active, Standby} /\ Peer = {p, q}
        /\ s \in Switch /\ sw[q] \in Switch /\ c \in Seq(Msg) /\ e \in Seq(Msg)
    BY PeerAssumption DEF TypeOK, Peer
  <1>1. /\ NoLateRequest /\ Together(p, q) /\ Together(q, p)
        /\ Alone(joined[p], s, c) /\ Alone(joined[q], sw[q], e)
    BY <1>0 DEF Agreed
  <1>2. /\ UNCHANGED joined /\ sw'[q] = sw[q]
        /\ n = 1 => c # <<>> /\ m \in Msg /\ m = c[1]
        /\ ch'[p] = IF n = 0 THEN c ELSE Tail(c)
        /\ sw'[p] = r
    BY TurnInSession
  <1>3. PICK a \in SetToSeqs(AcksIn(p, n)), o \in SetToSeqs(Po) : ch'[q] = e \o SentIn(p, n, a, o)
    BY SMTT(30), TurnInSession
  <1> DEFINE out == SentIn(p, n, a, o)
  <1>4. Good(p, s, r, n, m, out) /\ r \in Switch
    <2>1. r \in Switch
      BY <1>2, TurnTypes
    <2> QED BY <1>0, <1>1, <1>2, <2>1, TurnIsGood
  <1> HIDE DEF out, r, m, s, c, e
  <1>5. /\ out \in Seq(Msg) /\ r.state # "ERROR"
        /\ \A k \in 1..Len(out) : out[k].type # "PURGE"
        /\ "EXCHANGE" \in {s.state, r.state} \/ (s.state = "STAGE2" /\ s.wait) => Plain(out)
    BY <1>4 DEF Good
  <1>6. NoLateRequest'
    <2>1. ch'[p] = ch[p] \/ (ch[p] # <<>> /\ ch'[p] = Tail(ch[p]))
      BY <1>2 DEF c
    <2>2. ch'[q] = ch[q] \o out
      BY <1>3 DEF e, out
    <2>3. sw'[p].state = r.state /\ sw[p] = s
      BY <1>2 DEF s
    <2> QED BY <1>0, <1>1, <1>2, <1>5, <2>1, <2>2, <2>3, RequestsKept
  <1>7. /\ \A k \in 1..Len(e) : \E j \in 1..Len(ch'[q]) : ch'[q][j] = e[k]
        /\ \A k \in 1..Len(out) : \E j \in 1..Len(ch'[q]) : ch'[q][j] = out[k]
        /\ \A j \in 1..Len(ch'[q]) : \/ \E k \in 1..Len(e) : ch'[q][j] = e[k]
                                     \/ \E k \in 1..Len(out) : ch'[q][j] = out[k]
    <2> DEFINE d == e \o out
    <2>1. /\ Len(e) \in Nat /\ Len(out) \in Nat /\ Len(d) = Len(e) + Len(out)
          /\ \A k \in 1..Len(d) : d[k] = IF k <= Len(e) THEN e[k] ELSE out[k - Len(e)]
      BY <1>0, <1>5
    <2>2. ch'[q] = d
      BY <1>3 DEF out
    <2> HIDE DEF d
    <2>3. /\ \A k \in 1..Len(e) : k \in 1..Len(d) /\ d[k] = e[k]
          /\ \A k \in 1..Len(out) : Len(e) + k \in 1..Len(d) /\ d[Len(e) + k] = out[k]
          /\ \A k \in 1..Len(d) : \/ k \in 1..Len(e) /\ d[k] = e[k]
                                  \/ k - Len(e) \in 1..Len(out) /\ d[k] = out[k - Len(e)]
      BY <2>1
    <2> QED BY <2>2, <2>3
  <1>8. \A k \in 1..Len(c) : \/ n = 1 /\ c[k] = m
                             \/ \E j \in 1..Len(ch'[p]) : ch'[p][j] = c[k]
    <2>1. CASE n = 0
      BY <1>2, <2>1
    <2>2. CASE n = 1
      <3> DEFINE t == Tail(c)
      <3>1. /\ Len(c) \in Nat /\ Len(t) = Len(c) - 1 /\ \A k \in 1..Len(t) : t[k] = c[k + 1]
            /\ m = c[1] /\ ch'[p] = t
        BY <1>0, <1>2, <2>2
      <3> HIDE DEF t
      <3>2. \A k \in 1..Len(c) : k = 1 \/ (k - 1 \in 1..Len(t) /\ t[k - 1] = c[k])
        BY <3>1
      <3> QED BY <2>2, <3>1, <3>2
    <2> QED BY <2>1, <2>2
  <1>9. \A k \in 1..Len(ch'[q]) : ch'[q][k].type # "PURGE"
    <2>1. \A k \in 1..Len(e) : e[k].type # "PURGE"
      BY <1>1 DEF Alone
    <2> DEFINE d == ch'[q]
    <2>2. \A j \in 1..Len(d) : \/ \E k \in 1..Len(e) : d[j] = e[k]
                               \/ \E k \in 1..Len(out) : d[j] = out[k]
      BY <1>7
    <2> HIDE DEF d
    <2>3. \A j \in 1..Len(d) : d[j].type # "PURGE"
      <3> SUFFICES ASSUME NEW j \in 1..Len(d) PROVE d[j].type # "PURGE"
        OBVIOUS
      <3>1. CASE \E k \in 1..Len(e) : d[j] = e[k]
        BY <2>1, <3>1
      <3>2. CASE \E k \in 1..Len(out) : d[j] = out[k]
        BY <1>5, <3>2
      <3> QED BY <2>2, <3>1, <3>2
    <2> QED BY <2>3 DEF d
  <1>10. ASSUME NEW i \in Po
         PROVE  /\ Know(sw[q].lif[i], Answered(q, sw[q]), r.pif[i], ch'[p], i)
                /\ Know(r.lif[i], Answered(p, r), sw[q].pif[i], ch'[q], i)
    <2>0. /\ s.lif[i] \in LocalIf /\ r.lif[i] \in LocalIf /\ sw[q].lif[i] \in LocalIf
          /\ s.pif[i] \in PeerIf /\ sw[q].pif[i] \in PeerIf
          /\ Answered(p, s) \in BOOLEAN /\ Answered(p, r) \in BOOLEAN
      BY <1>0, <1>4 DEF Switch, Answered
    <2>1. /\ Know(sw[q].lif[i], Answered(q, sw[q]), s.pif[i], c, i)
          /\ Know(s.lif[i], Answered(p, s), sw[q].pif[i], e, i)
      BY <1>1 DEF Together, s, c, e
    <2>2. /\ r.pif[i] = IF n = 0 THEN s.pif[i] ELSE Effect(s.pif[i], m, i)
          /\ Told(s.lif[i], Answered(p, s), r.lif[i], Answered(p, r), out, i)
      BY <1>4 DEF Good
    <2>3. Know(sw[q].lif[i], Answered(q, sw[q]), r.pif[i], ch'[p], i)
      <3>1. CASE n = 0
        BY <1>2, <2>1, <2>2, <3>1
      <3>2. CASE n = 1
        <4>1. Know(sw[q].lif[i], Answered(q, sw[q]), Effect(s.pif[i], Head(c), i), Tail(c), i)
          BY <1>0, <1>2, <2>0, <2>1, <3>2, KnowRead
        <4> QED BY <1>2, <2>2, <3>2, <4>1 DEF m, c
      <3> QED BY <3>1, <3>2
    <2>4. Know(r.lif[i], Answered(p, r), sw[q].pif[i], e \o out, i)
      BY <1>0, <1>5, <2>0, <2>1, <2>2, KnowSend
    <2> QED BY <1>3, <2>3, <2>4 DEF out
  <1>11. ASSUME NEW i \in Po
         PROVE  /\ Released(r.lif[i], ch'[q], ch'[p], i)
                /\ Released(sw[q].lif[i], ch'[p], ch'[q], i)
    <2>1. Released(s.lif[i], e, c, i) /\ Released(sw[q].lif[i], c, e, i)
      BY <1>1 DEF Together, s, c, e
    <2>2. /\ r.lif[i].blocked /\ r.lif[i].up =>
                /\ s.lif[i].blocked
                /\ n = 1 => m # AckOf(i)
                /\ s.lif[i].changed => \E k \in 1..Len(out) : out[k] = UpOf(i)
          /\ n = 1 /\ m = UpOf(i) => \E k \in 1..Len(out) : out[k] = AckOf(i)
          /\ r.lif[i].up = s.lif[i].up
      BY <1>4 DEF Good, Told
    <2>3. Released(r.lif[i], ch'[q], ch'[p], i)
      <3> SUFFICES ASSUME r.lif[i].blocked, r.lif[i].up
                   PROVE  \/ \E k \in 1..Len(ch'[q]) : ch'[q][k] = UpOf(i)
                          \/ \E k \in 1..Len(ch'[p]) : ch'[p][k] = AckOf(i)
        BY DEF Released
      <3>1. \/ s.lif[i].changed
            \/ \E k \in 1..Len(e) : e[k] = UpOf(i)
            \/ \E k \in 1..Len(c) : c[k] = AckOf(i)
        BY <2>1, <2>2 DEF Released
      <3>2. CASE s.lif[i].changed
        BY <1>7, <2>2, <3>2
      <3>3. CASE \E k \in 1..Len(e) : e[k] = UpOf(i)
        BY <1>7, <3>3
      <3>4. CASE \E k \in 1..Len(c) : c[k] = AckOf(i)
        BY <1>8, <2>2, <3>4
      <3> QED BY <3>1, <3>2, <3>3, <3>4
    <2>4. Released(sw[q].lif[i], ch'[p], ch'[q], i)
      <3> SUFFICES ASSUME sw[q].lif[i].blocked, sw[q].lif[i].up, ~sw[q].lif[i].changed
                   PROVE  \/ \E k \in 1..Len(ch'[p]) : ch'[p][k] = UpOf(i)
                          \/ \E k \in 1..Len(ch'[q]) : ch'[q][k] = AckOf(i)
        BY DEF Released
      <3>1. \/ \E k \in 1..Len(c) : c[k] = UpOf(i)
            \/ \E k \in 1..Len(e) : e[k] = AckOf(i)
        BY <2>1 DEF Released
      <3>2. CASE \E k \in 1..Len(c) : c[k] = UpOf(i)
        <4>1. (n = 1 /\ m = UpOf(i)) \/ \E j \in 1..Len(ch'[p]) : ch'[p][j] = UpOf(i)
          BY <1>8, <3>2
        <4>2. n = 1 /\ m = UpOf(i) => \E k \in 1..Len(out) : out[k] = AckOf(i)
          BY <2>2
        <4>3. (\E k \in 1..Len(out) : out[k] = AckOf(i)) => \E k \in 1..Len(ch'[q]) : ch'[q][k] = AckOf(i)
          <5> DEFINE d == ch'[q]
          <5>1. \A k \in 1..Len(out) : \E j \in 1..Len(d) : d[j] = out[k]
            BY <1>7
          <5> HIDE DEF d
          <5>2. ASSUME NEW k \in 1..Len(out), out[k] = AckOf(i)
                PROVE  \E j \in 1..Len(d) : d[j] = AckOf(i)
            BY <5>1, <5>2
          <5> QED BY <5>2 DEF d
        <4>4. CASE n = 1 /\ m = UpOf(i)
          BY <4>2, <4>3, <4>4
        <4> QED BY <4>1, <4>4
      <3>3. CASE \E k \in 1..Len(e) : e[k] = AckOf(i)
        BY <1>7, <3>3
      <3> QED BY <3>1, <3>2, <3>3
    <2> QED BY <2>3, <2>4
  <1> QED BY <1>2, <1>6, <1>9, <1>10, <1>11 DEF Together

-----------------------------------------------------------------------------
(* What the environment does. *)

(* The interface i of a switch in state s becomes k: it does not leave the    *)
(* domain, what is to be sent stays so, and a new state is to be sent.        *)
Disturbed(k, s, i) ==
    LET l == s.lif[i]
    IN  /\ k.exists /\ k.active = k.up
        /\ ~k.bound => k.changed
        /\ k.isolated => k.bound
        /\ k.blocked => k.bound /\ s.state \in {"EXCHANGE", "ERROR"}
        /\ s.state = "EXCHANGE" /\ k.bound /\ k.active => (k.isolated <=> s.pif[i] # "down")
        /\ s.state # "EXCHANGE" => k.isolated = l.isolated
        /\ k.bound /\ ~l.bound => k.sync /\ k.changed
        /\ l.bound => /\ k.bound /\ (l.sync => k.sync) /\ (l.changed => k.changed)
                      /\ k.up # l.up => k.changed
        /\ k.blocked /\ k.up => k.changed \/ (l.blocked /\ l.up)

LEMMA LinkDisturbs ==
    ASSUME NEW s \in Switch, NEW i \in Po, IfOk(s, i)
    PROVE  LinkedIf(s, i) \in LocalIf /\ Disturbed(LinkedIf(s, i), s, i)
  <1> DEFINE l == s.lif[i]
             k == LinkedIf(s, i)
             up == ~l.up
  <1>1. /\ k \in LocalIf
        /\ k.exists = l.exists /\ k.bound = l.bound /\ k.sync = l.sync
        /\ k.up = up /\ k.active = up
        /\ k.changed <=> l.changed \/ (l.bound /\ l.active # up)
        /\ k.isolated <=> IF l.bound /\ up /\ s.state = "EXCHANGE"
                          THEN s.pif[i] # "down" ELSE l.isolated
        /\ k.blocked <=> l.blocked \/ (~up /\ l.bound /\ s.state = "EXCHANGE")
    BY LinkedIfFields
  <1>2. l \in LocalIf
    BY DEF Switch
  <1>3. /\ l.exists /\ l.active = l.up /\ (~l.bound => l.changed) /\ (l.isolated => l.bound)
        /\ l.blocked => l.bound /\ s.state \in {"EXCHANGE", "ERROR"}
    BY DEF IfOk
  <1> HIDE DEF k, l
  <1>4. l.bound => k.changed
    BY <1>1, <1>2, <1>3 DEF LocalIf
  <1>5. s.state # "EXCHANGE" => k.isolated = l.isolated
    BY <1>1, <1>2 DEF LocalIf
  <1>6. s.state = "EXCHANGE" /\ k.bound /\ k.active => (k.isolated <=> s.pif[i] # "down")
    BY <1>1
  <1>7. k.isolated => k.bound
    BY <1>1, <1>3
  <1>8. k.blocked => k.bound /\ s.state \in {"EXCHANGE", "ERROR"}
    BY <1>1, <1>3
  <1> QED BY <1>1, <1>3, <1>4, <1>5, <1>6, <1>7, <1>8 DEF Disturbed, k, l

LEMMA ConfigDisturbs ==
    ASSUME NEW s \in Switch, NEW i \in Po, IfOk(s, i), NEW k \in LocalIf,
           k = [s.lif[i] EXCEPT !.sync = TRUE]
    PROVE  Disturbed(k, s, i)
  <1> DEFINE l == s.lif[i]
  <1>1. l \in LocalIf
    BY DEF Switch
  <1>2. /\ k.exists = l.exists /\ k.bound = l.bound /\ k.up = l.up /\ k.active = l.active
        /\ k.sync /\ k.changed = l.changed /\ k.blocked = l.blocked /\ k.isolated = l.isolated
    BY <1>1 DEF LocalIf
  <1> QED BY <1>2 DEF Disturbed, IfOk, Follows

(* mlacp_bind_local_if, with nothing to withdraw. *)
LEMMA AttachDisturbs ==
    ASSUME NEW s \in Switch, NEW i \in Po, SwOk(s)
    PROVE  LET r == Bound(s, i)
           IN  /\ r \in Switch /\ r.purge = <<>>
               /\ \E k \in LocalIf : WithLif(r, s, i, k) /\ Disturbed(k, s, i)
  <1> DEFINE r == Bound(s, i)
             x == s.lif[i]
             l == IF x.bound THEN x ELSE JoinedIf(x)
             b == IF s.state = "EXCHANGE" /\ x.active THEN s.pif[i] # "down" ELSE x.isolated
             k == [l EXCEPT !.isolated = b]
  <1>1. /\ r \in Switch /\ WithLif(r, s, i, k)
        /\ r.purge = IF x.bound THEN s.purge ELSE PurgeWithout(s, i)
    BY BoundFields
  <1>2. x \in LocalIf /\ IfOk(s, i) /\ s.purge = <<>>
    BY DEF Switch, SwOk
  <1>3. PurgeWithout(s, i) = <<>>
    <2> DEFINE e == [po |-> i, gone |-> FALSE]
               t == RemoveFirst(s.purge, e)
    <2>1. e \in Purged /\ s.purge \in Seq(Purged)
      BY PurgeTypes DEF Purged
    <2> HIDE DEF e
    <2>2. t \in Seq(Purged) /\ Without(t, s.purge, e)
      BY <2>1, RemoveFirstElements
    <2> HIDE DEF t
    <2>3. PICK h \in [1..Len(t) -> 1..Len(s.purge)] : TRUE
      BY <2>2 DEF Without
    <2>4. \A n \in 1..Len(t) : h[n] \in 1..Len(s.purge)
      BY <2>3
    <2>5. Len(s.purge) = 0
      BY <1>2
    <2>6. \A n \in 1..Len(t) : FALSE
      BY <2>4, <2>5
    <2>7. t = <<>>
      BY <2>2, <2>6
    <2> QED BY <2>7 DEF t, e, PurgeWithout
  <1>4. /\ l \in LocalIf /\ l.bound /\ l.exists = x.exists /\ l.up = x.up
        /\ l.active = x.active /\ l.changed = x.changed /\ l.isolated = x.isolated
        /\ l.blocked = x.blocked
        /\ x.bound => l.sync = x.sync
        /\ ~x.bound => l.sync
    BY <1>2, JoinedIfFields
  <1>5. b \in BOOLEAN
    BY <1>2 DEF LocalIf
  <1> HIDE DEF l, b, r
  <1>6. /\ k \in LocalIf /\ k.bound = l.bound /\ k.exists = l.exists /\ k.up = l.up
        /\ k.active = l.active /\ k.changed = l.changed /\ k.isolated = b
        /\ k.blocked = l.blocked /\ k.sync = l.sync
    BY <1>4, <1>5 DEF LocalIf
  <1> HIDE DEF k
  <1>7. Disturbed(k, s, i)
    <2>1. /\ x.exists /\ x.active = x.up /\ (~x.bound => x.changed)
          /\ x.blocked => x.bound /\ s.state \in {"EXCHANGE", "ERROR"}
      BY <1>2 DEF IfOk
    <2>2. s.state # "EXCHANGE" => b = x.isolated
      BY DEF b
    <2>3. s.state = "EXCHANGE" /\ x.active => (b <=> s.pif[i] # "down")
      BY DEF b
    <2> QED BY <1>4, <1>6, <2>1, <2>2, <2>3 DEF Disturbed
  <1> QED BY <1>1, <1>2, <1>3, <1>6, <1>7 DEF r

(* What the peer of the switch knows, or will, is kept right ... *)
LEMMA KnowDisturbed ==
    ASSUME NEW s, NEW i \in Po, NEW k \in LocalIf, s.lif[i] \in LocalIf, NEW a, NEW v, NEW c,
           Disturbed(k, s, i), Know(s.lif[i], a, v, c, i)
    PROVE  Know(k, a, v, c, i)
  <1> DEFINE l == s.lif[i]
  <1>1. l \in LocalIf
    OBVIOUS
  <1>2. /\ k.bound /\ ~l.bound => k.sync /\ k.changed
        /\ l.bound => /\ k.bound /\ (l.sync => k.sync) /\ (l.changed => k.changed)
                      /\ k.up # l.up => k.changed
    BY DEF Disturbed
  <1> HIDE DEF l
  <1>3. ~k.bound => ~l.bound
    BY <1>2
  <1>4. CASE l.bound /\ k.up = l.up
    BY <1>2, <1>3, <1>4 DEF Know, l
  <1>5. CASE l.bound /\ k.up # l.up
    BY <1>2, <1>3, <1>5 DEF Know, l
  <1>6. CASE ~l.bound
    BY <1>2, <1>3, <1>6 DEF Know, l
  <1> QED BY <1>4, <1>5, <1>6

(* ... and the switch itself. *)
LEMMA AloneDisturbed ==
    ASSUME NEW s \in Switch, NEW r \in Switch, NEW i \in Po, NEW k \in LocalIf, NEW j \in BOOLEAN,
           NEW c, WithLif(r, s, i, k), r.purge = <<>>, Disturbed(k, s, i), Alone(j, s, c),
           ~j => s.state = "INIT"
    PROVE  Alone(j, r, c)
  <1>1. /\ r.state = s.state /\ r.need = s.need /\ r.pif = s.pif
        /\ r.lif[i] = k /\ \A x \in Po : x # i => r.lif[x] = s.lif[x]
    BY DEF WithLif, Switch
  <1>2. ASSUME NEW x \in Po PROVE IfOk(r, x)
    <2>1. CASE x = i
      BY <1>1, <2>1 DEF Disturbed, IfOk, Follows
    <2>2. CASE x # i
      <3>1. IfOk(s, x)
        BY DEF Alone, SwOk
      <3> QED BY <1>1, <2>2, <3>1 DEF IfOk, Follows
    <2> QED BY <2>1, <2>2
  <1>3. SwOk(r)
    BY <1>1, <1>2 DEF SwOk, Alone
  <1>4. ASSUME ~j, NEW x \in Po
        PROVE  ~r.lif[x].isolated /\ ~r.lif[x].blocked /\ r.pif[x] = "none"
    <2>1. ~s.lif[x].isolated /\ ~s.lif[x].blocked /\ s.pif[x] = "none"
      BY <1>4 DEF Alone
    <2>2. CASE x = i
      <3>1. k.isolated = s.lif[i].isolated /\ ~k.blocked
        BY <1>4 DEF Disturbed
      <3> QED BY <1>1, <2>1, <2>2, <3>1
    <2>3. CASE x # i
      BY <1>1, <2>1, <2>3
    <2> QED BY <2>2, <2>3
  <1> QED BY <1>3, <1>4 DEF Alone

(* In a domain that interfaces only join, the environment disturbs one       *)
(* interface of a switch.                                                    *)
LEMMA DisturbsOne ==
    ASSUME TypeOK, OnlyJoins, NEW p \in Peer, SwOk(sw[p]), Disturbs(p)
    PROVE  \E i \in Po, k \in LocalIf :
              /\ sw'[p] \in Switch /\ WithLif(sw'[p], sw[p], i, k) /\ sw'[p].purge = <<>>
              /\ Disturbed(k, sw[p], i)
              /\ \A q \in Peer : q # p => sw'[q] = sw[q]
  <1> DEFINE s == sw[p]
  <1>0. s \in Switch /\ s.purge = <<>> /\ sw \in [Peer -> Switch]
    BY DEF TypeOK, SwOk
  <1>1. PICK i \in Po : \/ LinkChange(p, i) \/ ConfigChange(p, i) \/ Attach(p, i) \/ Detach(p, i)
                        \/ Destroy(p, i) \/ \E up \in BOOLEAN : Create(p, i, up)
    BY DEF Disturbs
  <1>2. IfOk(s, i) /\ s.lif[i].exists
    BY DEF SwOk, IfOk
  <1>3. ~Detach(p, i) /\ ~Destroy(p, i) /\ ~\E up \in BOOLEAN : Create(p, i, up)
    BY <1>2 DEF OnlyJoins, Detach, Destroy, Create
  <1>4. \A r : Becomes(p, r) => sw'[p] = r /\ r \in Switch /\ \A q \in Peer : q # p => sw'[q] = sw[q]
    BY <1>0 DEF Becomes
  <1>5. CASE LinkChange(p, i)
    <2> DEFINE k == LinkedIf(s, i)
               r == PutLif(s, i, k)
    <2>1. k \in LocalIf /\ Disturbed(k, s, i)
      BY <1>0, <1>2, LinkDisturbs
    <2>2. Becomes(p, r)
      BY <1>5, LinkChangeIs
    <2>3. WithLif(r, s, i, k) /\ r.purge = s.purge
      <3>1. <<>> \in Seq(Purged)
        OBVIOUS
      <3> HIDE DEF k
      <3> QED BY <1>0, <2>1, <3>1, LifReplaced
    <2> HIDE DEF k, r
    <2> QED BY <1>0, <1>4, <2>1, <2>2, <2>3
  <1>6. CASE ConfigChange(p, i)
    <2> DEFINE k == [s.lif[i] EXCEPT !.sync = TRUE]
               r == PutLif(s, i, k)
    <2>1. k \in LocalIf /\ Becomes(p, r)
      BY <1>6, ConfigChangeIs
    <2>2. Disturbed(k, s, i)
      BY <1>0, <1>2, <2>1, ConfigDisturbs
    <2>3. WithLif(r, s, i, k) /\ r.purge = s.purge
      <3>1. <<>> \in Seq(Purged)
        OBVIOUS
      <3> HIDE DEF k
      <3> QED BY <1>0, <2>1, <3>1, LifReplaced
    <2> HIDE DEF k, r
    <2> QED BY <1>0, <1>4, <2>1, <2>2, <2>3
  <1>7. CASE Attach(p, i)
    <2> DEFINE t == WithBind(s, i)
               r == Bound(t, i)
    <2>1. /\ t \in Switch /\ t.state = s.state /\ t.wait = s.wait /\ t.lif = s.lif
          /\ t.pif = s.pif /\ t.purge = s.purge /\ t.need = s.need
          /\ Becomes(p, r)
      BY <1>2, <1>7, AttachIs
    <2> HIDE DEF t
    <2>2. SwOk(t)
      BY <2>1 DEF SwOk, IfOk, Follows
    <2>3. r \in Switch /\ r.purge = <<>>
      BY <2>1, <2>2, AttachDisturbs
    <2>4. PICK k \in LocalIf : WithLif(r, t, i, k) /\ Disturbed(k, t, i)
      BY <2>1, <2>2, AttachDisturbs
    <2> HIDE DEF r
    <2>5. WithLif(r, s, i, k) /\ Disturbed(k, s, i)
      BY <2>1, <2>4 DEF WithLif, Disturbed
    <2> QED BY <1>4, <2>1, <2>3, <2>5
  <1> QED BY <1>1, <1>3, <1>5, <1>6, <1>7

-----------------------------------------------------------------------------
(* SyncInv is an invariant. *)

LEMMA AgreedInit ==
    ASSUME Init
    PROVE  Agreed
  <1>1. \A p \in Peer : joined[p] = FALSE /\ ch[p] = <<>>
    BY DEF Init
  <1>2. ASSUME NEW p \in Peer PROVE Alone(joined[p], sw[p], ch[p])
    <2> DEFINE s == sw[p]
    <2>1. /\ s.state = "INIT" /\ s.need = FALSE /\ s.purge = <<>> /\ s.pif = [i \in Po |-> "none"]
          /\ s.lif \in [Po -> {NewIf(up) : up \in BOOLEAN}]
      BY DEF Init
    <2> HIDE DEF s
    <2>2. ASSUME NEW i \in Po
          PROVE  /\ IfOk(s, i)
                 /\ ~s.lif[i].isolated /\ ~s.lif[i].blocked /\ s.pif[i] = "none"
      <3>1. PICK up \in BOOLEAN : s.lif[i] = NewIf(up)
        BY <2>1
      <3> QED BY <2>1, <3>1 DEF IfOk, Follows, NewIf
    <2>3. SwOk(s)
      BY <2>1, <2>2 DEF SwOk
    <2>4. \A n \in 1..Len(ch[p]) : FALSE
      BY <1>1
    <2> QED BY <2>2, <2>3, <2>4 DEF Alone, s
  <1>3. ~joined[Active]
    BY <1>1 DEF Peer
  <1> QED BY <1>2, <1>3 DEF Agreed

LEMMA AgreedStep ==
    ASSUME TypeOK, TypeOK', StageInv, StageInv', OnlyJoins, Agreed, [Next]_vars
    PROVE  Agreed'
  <1>0. /\ Active \in Peer /\ Standby \in Peer /\ Active # Standby /\ Peer = {Active, Standby}
        /\ joined \in [Peer -> BOOLEAN] /\ sw \in [Peer -> Switch] /\ ch \in [Peer -> Seq(Msg)]
        /\ \A p \in Peer : Alone(joined[p], sw[p], ch[p])
    BY PeerAssumption DEF TypeOK, Peer, Agreed
  <1>1. CASE Join
    <2>1. /\ sw' = sw /\ ch' = ch
          /\ \A p \in Peer : ~joined[p] /\ sw[p].state = "INIT" /\ ch[p] = <<>> /\ joined'[p] = TRUE
      BY <1>1 DEF Join, StageInv
    <2>2. ASSUME NEW p \in Peer PROVE Alone(joined[p], sw[p], ch[p])'
      BY <1>0, <2>1 DEF Alone
    <2>3. NoLateRequest'
      BY <1>0, <2>1 DEF NoLateRequest
    <2>4. ASSUME NEW p \in Peer, NEW q \in Peer PROVE Together(p, q)'
      <3>1. \A n \in 1..Len(ch[p]) : FALSE
        BY <2>1
      <3>2. ~Answered(q, sw[q])
        BY <2>1 DEF Answered
      <3>3. ASSUME NEW i \in Po
            PROVE  /\ Know(sw[q].lif[i], Answered(q, sw[q]), sw[p].pif[i], ch[p], i)
                   /\ Released(sw[p].lif[i], ch[q], ch[p], i)
        <4>1. sw[p].pif[i] = "none" /\ ~sw[p].lif[i].blocked
          BY <1>0, <2>1 DEF Alone
        <4> QED BY <3>1, <3>2, <4>1 DEF Know, Released
      <3>4. Together(p, q)
        BY <3>3 DEF Together
      <3> QED BY <2>1, <3>4 DEF Together
    <2> QED BY <1>0, <2>2, <2>3, <2>4 DEF Agreed
  <1>2. ASSUME NEW p \in Peer, NEW n \in 0..1, Turn(p, n) PROVE Agreed'
    <2> DEFINE q == Other(p)
    <2>0. q \in Peer /\ q # p /\ Peer = {p, q}
      BY TwoPeers
    <2> HIDE DEF q
    <2>1. /\ joined[p] /\ joined' = joined /\ (n = 1 => ch[p] # <<>> /\ Head(ch[p]) \in Msg)
          /\ sw' = [sw EXCEPT ![p] = After(p, n)]
      BY <1>2, TurnParts
    <2>2. /\ sw'[p] = After(p, n) /\ sw'[q] = sw[q]
      BY <1>0, <2>0, <2>1
    <2>3. ch'[p] = (IF n = 0 THEN ch[p] ELSE Tail(ch[p])) /\ (~joined[q] => ch'[q] = ch[q])
      <3>1. PICK a \in SetToSeqs(AcksIn(p, n)), o \in SetToSeqs(Po) :
                     ch' = [ch EXCEPT ![p] = IF n = 0 THEN ch[p] ELSE Tail(ch[p]),
                                      ![Other(p)] = IF joined[Other(p)]
                                                    THEN ch[Other(p)] \o SentIn(p, n, a, o)
                                                    ELSE ch[Other(p)]]
        BY <1>2, TurnParts
      <3> DEFINE rest == IF n = 0 THEN ch[p] ELSE Tail(ch[p])
                 more == IF joined[q] THEN ch[q] \o SentIn(p, n, a, o) ELSE ch[q]
      <3>2. ch' = [ch EXCEPT ![p] = rest, ![q] = more]
        BY <3>1 DEF q
      <3>3. ~joined[q] => more = ch[q]
        OBVIOUS
      <3> HIDE DEF rest, more
      <3>4. ch'[p] = rest /\ ch'[q] = more
        BY <1>0, <2>0, <3>2
      <3> QED BY <3>3, <3>4 DEF rest
    <2>4. Alone(joined[p], sw[p], ch[p])'
      <3> DEFINE c == ch[p]
                 t == Tail(c)
      <3>1. c \in Seq(Msg) /\ SwOk(sw[p]) /\ \A k \in 1..Len(c) : c[k].type # "PURGE"
        BY <1>0 DEF Alone
      <3>2. n = 1 => Head(c).type # "PURGE" /\ \A k \in 1..Len(t) : t[k].type # "PURGE"
        <4> SUFFICES ASSUME n = 1
                     PROVE  Head(c).type # "PURGE" /\ \A k \in 1..Len(t) : t[k].type # "PURGE"
          OBVIOUS
        <4>1. /\ Len(c) \in Nat /\ Len(c) >= 1 /\ Len(t) = Len(c) - 1 /\ Head(c) = c[1]
              /\ \A k \in 1..Len(t) : t[k] = c[k + 1]
          BY <2>1, <3>1
        <4> HIDE DEF c, t
        <4>2. 1 \in 1..Len(c) /\ \A k \in 1..Len(t) : k + 1 \in 1..Len(c)
          BY <4>1
        <4> QED BY <3>1, <4>1, <4>2
      <3>3. SwOk(After(p, n))
        BY <2>1, <3>1, <3>2, AfterOk
      <3>4. joined'[p] = TRUE
        BY <1>0, <2>1
      <3>5. \A k \in 1..Len(ch'[p]) : ch'[p][k].type # "PURGE"
        BY <2>3, <3>1, <3>2
      <3> QED BY <2>2, <3>3, <3>4, <3>5 DEF Alone
    <2>5. CASE ~joined[q]
      <3>1. Alone(joined[q], sw[q], ch[q])'
        BY <1>0, <2>0, <2>1, <2>2, <2>3, <2>5 DEF Alone
      <3>2. ~(joined'[Active] /\ joined'[Standby])
        BY <1>0, <2>0, <2>1, <2>5
      <3> QED BY <2>0, <2>4, <3>1, <3>2 DEF Agreed
    <2>6. CASE joined[q]
      <3>1. /\ NoLateRequest' /\ Together(p, q)' /\ Together(q, p)'
            /\ \A k \in 1..Len(ch'[q]) : ch'[q][k].type # "PURGE"
        BY <1>2, <2>0, <2>1, <2>6, TurnTogether
      <3>2. joined'[q] = joined[q] /\ joined[q] = TRUE
        BY <1>0, <2>0, <2>1, <2>6
      <3>3. SwOk(sw[q])
        BY <1>0, <2>0 DEF Alone
      <3>4. Alone(joined[q], sw[q], ch[q])'
        BY <2>2, <3>1, <3>2, <3>3 DEF Alone
      <3>5. (p = Active /\ q = Standby) \/ (p = Standby /\ q = Active)
        BY <1>0, <2>0
      <3>6. Together(Active, Standby)' /\ Together(Standby, Active)'
        <4>1. CASE p = Active /\ q = Standby
          BY <3>1, <4>1
        <4>2. CASE p = Standby /\ q = Active
          BY <3>1, <4>2
        <4> QED BY <3>5, <4>1, <4>2
      <3> QED BY <2>0, <2>4, <3>1, <3>4, <3>6 DEF Agreed
    <2> QED BY <2>5, <2>6
  <1>3. ASSUME NEW p \in Peer, Leave(p) PROVE Agreed'
    <2>1. /\ joined' = [joined EXCEPT ![p] = FALSE] /\ sw' = [sw EXCEPT ![p] = Disconnected(sw[p])]
          /\ ch' = [ch EXCEPT ![p] = <<>>]
      BY <1>3 DEF Leave
    <2> DEFINE s == sw[p]
               r == Disconnected(s)
    <2>2. joined'[p] = FALSE /\ sw'[p] = r /\ ch'[p] = <<>>
      BY <1>0, <2>1
    <2>3. \A x \in Peer : x # p => joined'[x] = joined[x] /\ sw'[x] = sw[x] /\ ch'[x] = ch[x]
      BY <1>0, <2>1
    <2>4. /\ r.state = "INIT" /\ ~r.need /\ r.purge = <<>> /\ r.pif = [i \in Po |-> "none"]
          /\ \A i \in Po : /\ r.lif[i].exists = s.lif[i].exists /\ r.lif[i].bound = s.lif[i].bound
                           /\ r.lif[i].up = s.lif[i].up /\ r.lif[i].active = s.lif[i].active
                           /\ r.lif[i].changed = s.lif[i].changed
                           /\ r.lif[i].isolated <=> s.lif[i].isolated /\ ~s.lif[i].bound
                           /\ r.lif[i].blocked <=> s.lif[i].blocked /\ ~s.lif[i].bound
      BY <1>0, DisconnectedFields
    <2>5. SwOk(s)
      BY <1>0 DEF Alone
    <2> HIDE DEF r, s
    <2>6. \A i \in Po : IfOk(r, i) /\ ~r.lif[i].isolated /\ ~r.lif[i].blocked /\ r.pif[i] = "none"
      <3> SUFFICES ASSUME NEW i \in Po
                   PROVE  IfOk(r, i) /\ ~r.lif[i].isolated /\ ~r.lif[i].blocked /\ r.pif[i] = "none"
        OBVIOUS
      <3>1. /\ s.lif[i].exists /\ s.lif[i].active = s.lif[i].up
            /\ ~s.lif[i].bound => s.lif[i].changed
            /\ s.lif[i].isolated => s.lif[i].bound
            /\ s.lif[i].blocked => s.lif[i].bound
        BY <2>5 DEF SwOk, IfOk
      <3>2. ~r.lif[i].isolated /\ ~r.lif[i].blocked /\ r.pif[i] = "none"
        BY <2>4, <3>1
      <3>3. r.lif[i].exists /\ r.lif[i].active = r.lif[i].up /\ (~r.lif[i].bound => r.lif[i].changed)
        BY <2>4, <3>1
      <3> QED BY <2>4, <3>2, <3>3 DEF IfOk, Follows
    <2>7. Alone(joined[p], sw[p], ch[p])'
      <3>1. \A n \in 1..Len(ch'[p]) : FALSE
        BY <2>2
      <3> QED BY <2>2, <2>4, <2>6, <3>1 DEF Alone, SwOk
    <2>8. ASSUME NEW x \in Peer, x # p PROVE Alone(joined[x], sw[x], ch[x])'
      BY <1>0, <2>3, <2>8 DEF Alone
    <2>9. ~(joined'[Active] /\ joined'[Standby])
      BY <1>0, <2>2
    <2> QED BY <2>7, <2>8, <2>9 DEF Agreed
  <1>4. ASSUME NEW p \in Peer, Disturbs(p) PROVE Agreed'
    <2> DEFINE s == sw[p]
               r == sw'[p]
               q == Other(p)
    <2>0. q \in Peer /\ q # p /\ Peer = {p, q} /\ s \in Switch /\ sw[q] \in Switch
      BY <1>0, TwoPeers
    <2> HIDE DEF q
    <2>1. joined' = joined /\ ch' = ch
      BY <1>4, DisturbsIs
    <2>2. SwOk(s)
      BY <1>0 DEF Alone
    <2>3. PICK i \in Po, k \in LocalIf :
              /\ r \in Switch /\ WithLif(r, s, i, k) /\ r.purge = <<>>
              /\ Disturbed(k, s, i)
              /\ \A x \in Peer : x # p => sw'[x] = sw[x]
      BY <1>4, <2>2, DisturbsOne
    <2>4. sw'[q] = sw[q] /\ joined'[p] = joined[p] /\ ch'[p] = ch[p] /\ joined'[q] = joined[q] /\ ch'[q] = ch[q]
      BY <2>0, <2>1, <2>3
    <2>5. Alone(joined[p], sw[p], ch[p])'
      <3>1. Alone(joined[p], r, ch[p])
        BY <1>0, <2>0, <2>3, AloneDisturbed DEF StageInv
      <3> QED BY <2>4, <3>1
    <2>6. Alone(joined[q], sw[q], ch[q])'
      BY <1>0, <2>0, <2>4
    <2>7. ASSUME joined[Active], joined[Standby]
          PROVE  NoLateRequest' /\ Together(p, q)' /\ Together(q, p)'
      <3>0. /\ NoLateRequest /\ Together(p, q) /\ Together(q, p)
        BY <1>0, <2>0, <2>7 DEF Agreed
      <3>1. /\ r.state = s.state /\ r.pif = s.pif
            /\ r.lif[i] = k /\ \A x \in Po : x # i => r.lif[x] = s.lif[x]
        BY <2>0, <2>3 DEF WithLif, Switch
      <3>2. NoLateRequest'
        <4>1. \A x \in Peer : sw'[x].state = sw[x].state
          BY <2>0, <2>4, <3>1
        <4> QED BY <1>0, <2>1, <3>0, <4>1 DEF NoLateRequest
      <3>3. ASSUME NEW x \in Po
            PROVE  /\ Know(r.lif[x], Answered(p, r), sw[q].pif[x], ch[q], x)
                   /\ Released(r.lif[x], ch[q], ch[p], x)
        <4>1. /\ Know(s.lif[x], Answered(p, s), sw[q].pif[x], ch[q], x)
              /\ Released(s.lif[x], ch[q], ch[p], x)
          BY <3>0 DEF Together
        <4>2. Answered(p, r) = Answered(p, s)
          BY <3>1 DEF Answered
        <4>3. CASE x = i
          <5>1. s.lif[i] \in LocalIf
            BY <2>0 DEF Switch
          <5>2. Know(k, Answered(p, s), sw[q].pif[i], ch[q], i)
            BY <2>3, <4>1, <4>3, <5>1, KnowDisturbed
          <5>3. k.blocked /\ k.up => k.changed \/ (s.lif[i].blocked /\ s.lif[i].up)
            BY <2>3 DEF Disturbed
          <5>4. s.lif[i].changed => k.changed \/ ~k.blocked
            <6>1. IfOk(s, i)
              BY <2>2 DEF SwOk
            <6> QED BY <2>3, <6>1 DEF Disturbed, IfOk
          <5>5. Released(k, ch[q], ch[p], i)
            BY <4>1, <4>3, <5>3, <5>4 DEF Released
          <5> QED BY <3>1, <4>2, <4>3, <5>2, <5>5
        <4>4. CASE x # i
          BY <3>1, <4>1, <4>2, <4>4
        <4> QED BY <4>3, <4>4
      <3>4. ASSUME NEW x \in Po
            PROVE  /\ Know(sw[q].lif[x], Answered(q, sw[q]), r.pif[x], ch[p], x)
                   /\ Released(sw[q].lif[x], ch[p], ch[q], x)
        BY <3>0, <3>1 DEF Together
      <3> HIDE DEF r
      <3>5. sw'[p] = r
        BY DEF r
      <3> QED BY <2>4, <3>2, <3>3, <3>4, <3>5 DEF Together
    <2>8. joined'[Active] /\ joined'[Standby] =>
              NoLateRequest' /\ Together(Active, Standby)' /\ Together(Standby, Active)'
      <3>1. (p = Active /\ q = Standby) \/ (p = Standby /\ q = Active)
        BY <1>0, <2>0
      <3>2. CASE p = Active /\ q = Standby
        BY <2>1, <2>7, <3>2
      <3>3. CASE p = Standby /\ q = Active
        BY <2>1, <2>7, <3>3
      <3> QED BY <3>1, <3>2, <3>3
    <2> QED BY <2>0, <2>5, <2>6, <2>8 DEF Agreed
  <1>5. CASE UNCHANGED vars
    <2>1. joined' = joined /\ sw' = sw /\ ch' = ch
      BY <1>5 DEF vars
    <2> QED BY <2>1 DEF Agreed, Together, NoLateRequest
  <1> QED BY <1>1, <1>2, <1>3, <1>4, <1>5, NextCases

(* In a domain that interfaces only join, what a switch knows of the other's  *)
(* interfaces, or will when it has read what is under way, is what the other  *)
(* has, unless it still has to be sent; and a blocked interface that is up    *)
(* has its announcement or its acknowledgement on the way.                    *)
THEOREM SyncInvariant ==
    ASSUME OnlyJoins
    PROVE  Spec => []SyncInv
  <1>1. Init => Agreed
    BY AgreedInit
  <1>2. TypeOK /\ TypeOK' /\ StageInv /\ StageInv' /\ Agreed /\ [Next]_vars => Agreed'
    BY AgreedStep
  <1>3. TypeOK /\ Agreed => SyncInv
    BY SyncIsAgreed
  <1> QED BY <1>1, <1>2, <1>3, MlacpTypeCorrect, StageInvariant, PTL DEF Spec

-----------------------------------------------------------------------------
(* What it means once nothing is pending or under way. *)

LEMMA QuietSwitch ==
    ASSUME TypeOK, Quiescent, NEW p \in Peer
    PROVE  /\ joined[p] /\ sw[p].state = "EXCHANGE" /\ \A n \in 1..Len(ch[p]) : FALSE
           /\ \A i \in Po : sw[p].lif[i].bound => ~sw[p].lif[i].sync /\ ~sw[p].lif[i].changed
  <1>1. joined[p] /\ sw[p].state = "EXCHANGE" /\ ch[p] = <<>> /\ sw[p] \in Switch
    BY DEF Quiescent, BothIn, TypeOK
  <1>2. ASSUME NEW i \in Po, sw[p].lif[i].bound
        PROVE  ~sw[p].lif[i].sync /\ ~sw[p].lif[i].changed
    <2> DEFINE u == Updates(sw[p], i)
    <2>1. Len(u) = 0
      BY DEF Quiescent
    <2>2. /\ sw[p].lif[i].sync => 1 \in 1..Len(u)
          /\ sw[p].lif[i].changed => \E n \in 1..Len(u) : u[n] = AggportState(sw[p], i)
      BY <1>1, <1>2, UpdatesAre
    <2> HIDE DEF u
    <2>3. 1 \notin 1..Len(u) /\ ~\E n \in 1..Len(u) : u[n] = AggportState(sw[p], i)
      BY <2>1
    <2> QED BY <2>2, <2>3
  <1> QED BY <1>1, <1>2

LEMMA QuietKnows ==
    ASSUME TypeOK, SyncInv, Quiescent, NEW p \in Peer, NEW i \in Po
    PROVE  LET l == sw[Other(p)].lif[i]
               v == sw[p].pif[i]
           IN  /\ ~l.bound => v = "none"
               /\ l.bound => v = UpDown(l.up) /\ v # "none"
  <1> DEFINE q == Other(p)
             l == sw[q].lif[i]
             v == sw[p].pif[i]
  <1>1. q \in Peer /\ Active \in Peer /\ Standby \in Peer
    BY TwoPeers DEF Peer
  <1>2. /\ sw[q].state = "EXCHANGE" /\ (\A n \in 1..Len(ch[p]) : FALSE)
        /\ l.bound => ~l.sync /\ ~l.changed
    BY <1>1, QuietSwitch
  <1>3. joined[Active] /\ joined[Standby]
    BY <1>1, QuietSwitch
  <1>4. KnowledgeInv(p, i)
    BY <1>3 DEF SyncInv
  <1>5. HasAnswered(q)
    BY <1>2 DEF HasAnswered
  <1>6. /\ ~l.bound => v = "none"
        /\ l.bound => /\ l.sync \/ v # "none" \/ \E n \in 1..Len(ch[p]) : Introduces(ch[p][n], i)
                      /\ l.changed \/ WillKnow(ch[p], i, v, l.up)
    BY <1>4, <1>5 DEF KnowledgeInv
  <1>7. WillKnow(ch[p], i, v, l.up) => v = UpDown(l.up)
    BY <1>2 DEF WillKnow
  <1>8. l.bound => v # "none"
    BY <1>2, <1>6
  <1>9. l.bound => v = UpDown(l.up)
    BY <1>2, <1>6, <1>7
  <1> QED BY <1>6, <1>8, <1>9

(* Once nothing is pending a switch knows exactly the interfaces that its     *)
(* peer has in the domain, in a domain that interfaces only join.             *)
THEOREM PeerInterfacesKnown ==
    ASSUME OnlyJoins
    PROVE  Spec => []InterfacesKnown
  <1>1. TypeOK /\ SyncInv => InterfacesKnown
    <2> SUFFICES ASSUME TypeOK, SyncInv, Quiescent, NEW p \in Peer, NEW i \in Po
                 PROVE  sw[p].pif[i] # "none" <=> sw[Other(p)].lif[i].bound
      BY DEF InterfacesKnown
    <2>1. /\ ~sw[Other(p)].lif[i].bound => sw[p].pif[i] = "none"
          /\ sw[Other(p)].lif[i].bound => sw[p].pif[i] # "none"
      BY QuietKnows
    <2>2. sw[Other(p)].lif[i].bound \in BOOLEAN
      BY TwoPeers DEF TypeOK, Switch, LocalIf
    <2> QED BY <2>1, <2>2
  <1> QED BY <1>1, SyncInvariant, MlacpTypeCorrect, PTL

(* ... and knows their state, whatever changed while the stages were running *)
(* (mlacp_fsm_update_Aggport_state, mlacp_fsm_update_Agg_conf).              *)
THEOREM PeerStatesKnown ==
    ASSUME OnlyJoins
    PROVE  Spec => []StatesKnown
  <1>1. TypeOK /\ SyncInv => StatesKnown
    <2> SUFFICES ASSUME TypeOK, SyncInv, Quiescent, NEW p \in Peer, NEW i \in Po,
                        sw[Other(p)].lif[i].bound
                 PROVE  sw[p].pif[i] = UpDown(sw[Other(p)].lif[i].up)
      BY DEF StatesKnown
    <2> QED BY QuietKnows
  <1> QED BY <1>1, SyncInvariant, MlacpTypeCorrect, PTL

(* Then an interface that is up is isolated from the peer-link exactly when   *)
(* it is up at the peer too (update_peerlink_isolate_from_pif and _from_lif). *)
THEOREM IsolationAgrees ==
    ASSUME OnlyJoins
    PROVE  Spec => []IsolationRight
  <1>1. TypeOK /\ SyncInv => IsolationRight
    <2> SUFFICES ASSUME TypeOK, SyncInv, Quiescent, NEW p \in Peer, NEW i \in Po,
                        sw[p].lif[i].bound, sw[p].lif[i].up, sw[Other(p)].lif[i].bound
                 PROVE  sw[p].lif[i].isolated <=> sw[Other(p)].lif[i].up
      BY DEF IsolationRight
    <2>1. sw[p].state = "EXCHANGE"
      BY QuietSwitch
    <2>2. sw[p].lif[i].isolated <=> sw[p].pif[i] # "down"
      BY <2>1 DEF SyncInv, InterfaceInv
    <2>3. sw[p].pif[i] = UpDown(sw[Other(p)].lif[i].up)
      BY QuietKnows
    <2>4. sw[Other(p)].lif[i].up \in BOOLEAN
      BY TwoPeers DEF TypeOK, Switch, LocalIf
    <2>5. sw[p].pif[i] # "down" <=> sw[Other(p)].lif[i].up
      BY <2>3, <2>4 DEF UpDown
    <2> QED BY <2>2, <2>5
  <1> QED BY <1>1, SyncInvariant, MlacpTypeCorrect, PTL

(* An interface that is up is not left blocked: its acknowledgement has come  *)
(* (mlacp_fsm_recv_if_up_ack), and nothing is blocked without a session.      *)
THEOREM TrafficComesBack ==
    ASSUME OnlyJoins
    PROVE  Spec => []TrafficRestored
  <1>1. TypeOK /\ SyncInv => TrafficRestored
    <2> SUFFICES ASSUME TypeOK, SyncInv, NEW p \in Peer, NEW i \in Po,
                        sw[p].lif[i].bound, sw[p].lif[i].blocked
                 PROVE  joined[p] /\ ~(Quiescent /\ sw[p].lif[i].up)
      BY DEF TrafficRestored
    <2>1. joined[p]
      BY DEF SyncInv, InterfaceInv
    <2>2. ASSUME Quiescent, sw[p].lif[i].up PROVE FALSE
      <3>1. Other(p) \in Peer /\ Active \in Peer /\ Standby \in Peer
        BY TwoPeers DEF Peer
      <3>2. joined[Active] /\ joined[Standby]
        BY <2>2, <3>1, QuietSwitch
      <3>3. ReleaseInv(p, i)
        BY <3>2 DEF SyncInv
      <3>4. /\ \A n \in 1..Len(ch[p]) : FALSE
            /\ \A n \in 1..Len(ch[Other(p)]) : FALSE
            /\ ~sw[p].lif[i].changed
        BY <2>2, <3>1, QuietSwitch
      <3> QED BY <2>2, <3>3, <3>4 DEF ReleaseInv
    <2> QED BY <2>1, <2>2
  <1> QED BY <1>1, SyncInvariant, MlacpTypeCorrect, PTL

(* Isolation ends with the session (mlacp_peer_disconn_handler). *)
THEOREM IsolationEnds ==
    ASSUME OnlyJoins
    PROVE  Spec => []IsolatedInSession
  <1>1. SyncInv => IsolatedInSession
    BY DEF SyncInv, InterfaceInv, IsolatedInSession
  <1> QED BY <1>1, SyncInvariant, PTL

=============================================================================
