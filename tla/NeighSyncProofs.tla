--------------------------- MODULE NeighSyncProofs ---------------------------
(***************************************************************************)
(* Proofs about NeighSync: type correctness, that iccpd's list follows the *)
(* kernel, and that the peer knows what counts as synchronised.            *)
(***************************************************************************)
EXTENDS NeighSync, SequenceLemmas

(* p and its peer are the two switches. *)
LEMMA TwoPeers ==
    ASSUME NEW p \in Peer
    PROVE  /\ Other(p) \in Peer /\ Other(p) # p /\ Other(Other(p)) = p
           /\ Peer = {p, Other(p)}
  BY PeerAssumption DEF Other, Peer

-----------------------------------------------------------------------------
(* What the operators on a switch keep.  S stands for the addresses the     *)
(* neighbour has had.                                                       *)

(* Only the entries and the queues differ. *)
Fields(t, s) ==
    /\ t \in Switch
    /\ t.state = s.state /\ t.up = s.up /\ t.changed = s.changed /\ t.seen = s.seen

(* The kernel behind an L3 port-channel that has never been up knows nobody. *)
Calm(s) == kind = "l3" /\ family = "arp" /\ ~s.up => s.kern = "none" /\ s.note = <<>>

Sound(s) == LastNote(s) /\ ListFollows(s) /\ Calm(s)

One(S) == S \subseteq Mac /\ \A a, b \in S : a = b

Adds(S) == [op : {"ADD"}, mac : S]

SeenIn(s, S) ==
    /\ s.list.mac \in S \cup {"none"} /\ s.kern \in S \cup {"none"}
    /\ \A n \in 1..Len(s.note) : s.note[n] \in S
    /\ \A n \in 1..Len(s.out) : s.out[n] \in Adds(S)
    /\ s.out # <<>> => Known(s)

(* t is as sound as s. *)
Keeps(t, s, S) ==
    /\ LastNote(s) => LastNote(t)
    /\ family = "arp" /\ Sound(s) => Sound(t)
    /\ One(S) /\ SeenIn(s, S) /\ Sound(s) =>
          SeenIn(t, S) /\ Sound(t) /\ (Known(s) => Known(t))

LEMMA KeepsAgain ==
    ASSUME NEW s, NEW t, NEW u, NEW S, Keeps(t, s, S), Keeps(u, t, S)
    PROVE  Keeps(u, s, S)
  BY DEF Keeps

LEMMA EntryMac ==
    ASSUME NEW s \in Switch
    PROVE  /\ s.list \in Entry \cup {NoEntry}
           /\ Known(s) <=> s.list.mac \in Mac
           /\ Known(s) <=> s.list.mac # "none"
           /\ s.list.op = "ADD" => Known(s)
           /\ s.list.op \in {"LIF", "ADD"}
  BY MacAssumption DEF Switch, Known, Entry, NoEntry

-----------------------------------------------------------------------------
(* The kernel's table. *)

LEMMA KernAddOk ==
    ASSUME NEW s \in Switch, NEW m \in Mac
    PROVE  LET t == KernAdd(s, m)
           IN  /\ Fields(t, s) /\ t.list = s.list /\ t.out = s.out /\ t.pif = s.pif /\ t.kern = m
               /\ LastNote(s) => LastNote(t)
               /\ t.note = <<>> => s.note = <<>> /\ s.kern = m
               /\ \A S : m \in S /\ SeenIn(s, S) => SeenIn(t, S)
  <1> DEFINE t == KernAdd(s, m)
  <1>1. CASE s.kern = m
    BY <1>1 DEF KernAdd, Fields
  <1>2. CASE s.kern # m
    <2>1. t = [s EXCEPT !.kern = m, !.note = Append(s.note, m)]
      BY <1>2 DEF KernAdd
    <2>2. /\ s.note \in Seq(Mac \cup {"none"}) /\ Append(s.note, m) \in Seq(Mac \cup {"none"})
          /\ Append(s.note, m) # <<>> /\ Len(Append(s.note, m)) = Len(s.note) + 1
          /\ Append(s.note, m)[Len(s.note) + 1] = m
          /\ \A n \in 1..Len(s.note) : Append(s.note, m)[n] = s.note[n]
      BY DEF Switch
    <2>3. /\ Fields(t, s) /\ t.list = s.list /\ t.out = s.out /\ t.pif = s.pif /\ t.kern = m
          /\ t.note = Append(s.note, m)
      BY <2>1, <2>2 DEF Fields, Switch
    <2>4. LastNote(t) /\ t.note # <<>>
      BY <2>2, <2>3 DEF LastNote
    <2>5. ASSUME NEW S, m \in S, SeenIn(s, S) PROVE SeenIn(t, S)
      <3>1. \A n \in 1..Len(t.note) : t.note[n] \in S
        BY <2>2, <2>3, <2>5 DEF SeenIn
      <3> QED BY <2>3, <2>5, <3>1 DEF SeenIn, Known
    <2> QED BY <2>3, <2>4, <2>5
  <1> QED BY <1>1, <1>2

LEMMA KernDelOk ==
    ASSUME NEW s \in Switch
    PROVE  LET t == KernDel(s)
           IN  /\ Fields(t, s) /\ t.list = s.list /\ t.out = s.out /\ t.pif = s.pif
               /\ t.kern = "none"
               /\ LastNote(s) => LastNote(t)
               /\ s.kern = "none" => t = s
  <1> DEFINE t == KernDel(s)
  <1>1. CASE s.kern = "none"
    BY <1>1 DEF KernDel, Fields
  <1>2. CASE s.kern # "none"
    <2>1. t = [s EXCEPT !.kern = "none", !.note = Append(s.note, "none")]
      BY <1>2 DEF KernDel
    <2>2. /\ s.note \in Seq(Mac \cup {"none"}) /\ Append(s.note, "none") \in Seq(Mac \cup {"none"})
          /\ Append(s.note, "none") # <<>> /\ Len(Append(s.note, "none")) = Len(s.note) + 1
          /\ Append(s.note, "none")[Len(s.note) + 1] = "none"
      BY DEF Switch
    <2>3. /\ Fields(t, s) /\ t.list = s.list /\ t.out = s.out /\ t.pif = s.pif /\ t.kern = "none"
          /\ t.note = Append(s.note, "none")
      BY <2>1, <2>2 DEF Fields, Switch
    <2>4. LastNote(t)
      BY <2>2, <2>3 DEF LastNote
    <2> QED BY <1>2, <2>3, <2>4
  <1> QED BY <1>1, <1>2

(* The queue to the peer. *)
LEMMA QueuedOk ==
    ASSUME NEW s \in Switch, NEW op, NEW m, [op |-> op, mac |-> m] \in Item
    PROVE  LET t == Queued(s, op, m)
           IN  /\ Fields(t, s) /\ t.list = s.list /\ t.kern = s.kern /\ t.note = s.note
               /\ t.pif = s.pif
               /\ s.out # <<>> => t.out # <<>>
               /\ \A S : [op |-> op, mac |-> m] \in Adds(S) /\ SeenIn(s, S) /\ Known(s)
                            => SeenIn(t, S)
  <1> DEFINE t == Queued(s, op, m)
             e == [op |-> op, mac |-> m]
  <1>1. CASE s.state # "EXCHANGE"
    BY <1>1 DEF Queued, Fields
  <1>2. CASE s.state = "EXCHANGE"
    <2>1. t = [s EXCEPT !.out = Append(s.out, e)]
      BY <1>2 DEF Queued
    <2> HIDE DEF e
    <2>2. /\ s.out \in Seq(Item) /\ Append(s.out, e) \in Seq(Item) /\ Append(s.out, e) # <<>>
          /\ Len(Append(s.out, e)) = Len(s.out) + 1
          /\ Append(s.out, e)[Len(s.out) + 1] = e
          /\ \A n \in 1..Len(s.out) : Append(s.out, e)[n] = s.out[n]
      BY DEF Switch, e
    <2>3. /\ Fields(t, s) /\ t.list = s.list /\ t.kern = s.kern /\ t.note = s.note
          /\ t.pif = s.pif /\ t.out = Append(s.out, e)
      BY <2>1, <2>2 DEF Fields, Switch
    <2>4. ASSUME NEW S, e \in Adds(S), SeenIn(s, S), Known(s) PROVE SeenIn(t, S)
      <3>1. \A n \in 1..Len(t.out) : t.out[n] \in Adds(S)
        BY <2>2, <2>3, <2>4 DEF SeenIn
      <3> QED BY <2>3, <2>4, <3>1 DEF SeenIn, Known
    <2> QED BY <2>2, <2>3, <2>4 DEF e
  <1> QED BY <1>1, <1>2

LEMMA ResentOk ==
    ASSUME NEW s \in Switch
    PROVE  LET t == Resent(s)
           IN  /\ Fields(t, s) /\ t.kern = s.kern /\ t.note = s.note /\ t.pif = s.pif
               /\ t.list.mac = s.list.mac
               /\ Known(s) => Known(t) /\ t.out # <<>>
               /\ ~Known(s) => t = s
               /\ \A S : One(S) /\ SeenIn(s, S) => SeenIn(t, S)
  <1> DEFINE t == Resent(s)
  <1>1. CASE ~Known(s)
    BY <1>1 DEF Resent, Fields
  <1>2. CASE Known(s)
    <2> DEFINE e == [op |-> "ADD", mac |-> s.list.mac]
               l == [s.list EXCEPT !.op = "ADD"]
    <2>0. s.list \in Entry /\ s.list.mac \in Mac
      BY <1>2, EntryMac DEF Known
    <2>1. l \in Entry /\ l # NoEntry /\ l.mac = s.list.mac /\ e \in Item
      BY <2>0, MacAssumption DEF Entry, NoEntry, Item
    <2>2. t = [s EXCEPT !.list = l, !.out = Append(s.out, e)]
      BY <1>2 DEF Resent, Switch
    <2>e. \A S : s.list.mac \in S => e \in Adds(S)
      BY DEF Adds
    <2> HIDE DEF e, l
    <2>3. /\ s.out \in Seq(Item) /\ Append(s.out, e) \in Seq(Item) /\ Append(s.out, e) # <<>>
          /\ Len(Append(s.out, e)) = Len(s.out) + 1
          /\ Append(s.out, e)[Len(s.out) + 1] = e
          /\ \A n \in 1..Len(s.out) : Append(s.out, e)[n] = s.out[n]
      <3>1. e \in Item /\ s.out \in Seq(Item)
        BY <2>1 DEF Switch
      <3> QED BY <3>1
    <2>4. /\ Fields(t, s) /\ t.list = l /\ t.kern = s.kern /\ t.note = s.note
          /\ t.pif = s.pif /\ t.out = Append(s.out, e)
      BY <2>1, <2>2, <2>3 DEF Fields, Switch
    <2>5. Known(t)
      BY <2>1, <2>4 DEF Known
    <2>6. ASSUME NEW S, One(S), SeenIn(s, S) PROVE SeenIn(t, S)
      <3>0. s.list.mac \in S
        BY <2>0, <2>6, MacAssumption DEF SeenIn
      <3>1. \A n \in 1..Len(t.out) : t.out[n] \in Adds(S)
        BY <2>3, <2>4, <2>6, <2>e, <3>0 DEF SeenIn
      <3> QED BY <2>1, <2>4, <2>5, <2>6, <3>1 DEF SeenIn
    <2> QED BY <1>2, <2>1, <2>3, <2>4, <2>5, <2>6
  <1> QED BY <1>1, <1>2

-----------------------------------------------------------------------------
(* Interfaces: only the kernel's entry and its notifications change. *)

KernOnly(t, s) ==
    /\ t \in Switch /\ t.state = s.state /\ t.list = s.list /\ t.out = s.out /\ t.pif = s.pif
    /\ LastNote(s) => LastNote(t)

LEMMA NeighAddOk ==
    ASSUME NEW s \in Switch
    PROVE  LET t == NeighAdd(s)
           IN  /\ KernOnly(t, s) /\ Fields(t, s)
               /\ ~Known(s) => t = s
               /\ LastNote(s) /\ ListFollows(s) => ListFollows(t)
               /\ \A S : One(S) /\ SeenIn(s, S) => SeenIn(t, S)
  <1> DEFINE t == NeighAdd(s)
  <1>1. CASE ~(s.state = "EXCHANGE" /\ Known(s))
    BY <1>1 DEF NeighAdd, Fields, KernOnly
  <1>2. CASE s.state = "EXCHANGE" /\ Known(s)
    <2>1. s.list.mac \in Mac /\ t = KernAdd(s, s.list.mac)
      BY <1>2, EntryMac DEF NeighAdd
    <2>2. /\ KernOnly(t, s) /\ Fields(t, s) /\ t.kern = s.list.mac
          /\ \A S : s.list.mac \in S /\ SeenIn(s, S) => SeenIn(t, S)
      BY <2>1, KernAddOk DEF KernOnly, Fields
    <2>3. ListFollows(t)
      BY <2>2 DEF ListFollows, KernOnly
    <2>4. ASSUME NEW S, One(S), SeenIn(s, S) PROVE SeenIn(t, S)
      BY <2>1, <2>2, <2>4, MacAssumption DEF SeenIn
    <2> QED BY <1>2, <2>2, <2>3, <2>4
  <1> QED BY <1>1, <1>2

LEMMA NeighDelOk ==
    ASSUME NEW s \in Switch
    PROVE  LET t == NeighDel(s)
           IN  /\ KernOnly(t, s) /\ Fields(t, s)
               /\ ~Known(s) \/ kind = "vlan" => t = s
               /\ LastNote(s) /\ ListFollows(s) => ListFollows(t)
               /\ family = "arp" /\ s.kern = "none" => t = s
               /\ \A S : One(S) /\ SeenIn(s, S) /\ (family = "arp" => s.kern = "none")
                            => SeenIn(t, S)
  <1> DEFINE t == NeighDel(s)
  <1>1. CASE kind = "vlan" \/ ~Known(s)
    BY <1>1 DEF NeighDel, Fields, KernOnly
  <1>2. CASE ~(kind = "vlan" \/ ~Known(s)) /\ family = "arp"
    <2>1. t = KernDel(s)
      BY <1>2 DEF NeighDel
    <2>2. KernOnly(t, s) /\ Fields(t, s) /\ t.kern = "none" /\ (s.kern = "none" => t = s)
      BY <2>1, KernDelOk DEF KernOnly, Fields
    <2> QED BY <1>2, <2>2 DEF ListFollows
  <1>3. CASE ~(kind = "vlan" \/ ~Known(s)) /\ family # "arp"
    <2>1. s.list.mac \in Mac /\ t = KernAdd(s, s.list.mac)
      BY <1>3, EntryMac DEF NeighDel
    <2>2. /\ KernOnly(t, s) /\ Fields(t, s) /\ t.kern = s.list.mac
          /\ \A S : s.list.mac \in S /\ SeenIn(s, S) => SeenIn(t, S)
      BY <2>1, KernAddOk DEF KernOnly, Fields
    <2>3. ListFollows(t)
      BY <2>2 DEF ListFollows, KernOnly
    <2>4. ASSUME NEW S, One(S), SeenIn(s, S) PROVE SeenIn(t, S)
      BY <2>1, <2>2, <2>4, MacAssumption DEF SeenIn
    <2> QED BY <1>3, <2>2, <2>3, <2>4
  <1> QED BY <1>1, <1>2, <1>3

(* What SeenIn, Known, LastNote and the like do not look at. *)
LEMMA OtherFields ==
    ASSUME NEW t, NEW s, t.list = s.list, t.out = s.out, t.kern = s.kern, t.note = s.note
    PROVE  /\ LastNote(s) <=> LastNote(t)
           /\ ListFollows(s) <=> ListFollows(t)
           /\ Known(s) <=> Known(t)
           /\ \A S : SeenIn(s, S) <=> SeenIn(t, S)
  BY DEF LastNote, ListFollows, Known, SeenIn

(* A message of a port-channel that is down, at one that was never up, comes *)
(* before any entry.                                                         *)
Early(s, up) == ~up /\ kind = "l3" /\ family = "arp" /\ ~s.up => ~Known(s)

(* What a message about the peer's port-channel does to the entry. *)
Entries(t, s) ==
    /\ Known(s) <=> Known(t)
    /\ t.list.op = "ADD" => s.list.op = "ADD" \/ t.out # <<>>
    /\ s.out # <<>> => t.out # <<>>
    /\ ~Known(s) => t.list = s.list /\ t.out = s.out

LEMMA PeerPoOk ==
    ASSUME NEW s \in Switch, NEW up \in BOOLEAN, NEW new \in BOOLEAN, kind \in {"vlan", "l3"}
    PROVE  LET t == PeerPo(s, up, new)
           IN  /\ Fields(t, s) /\ Entries(t, s)
               /\ LastNote(s) => LastNote(t)
               /\ Early(s, up) => \A S : Keeps(t, s, S)
  <1> DEFINE same == ~new /\ s.pif = IF up THEN "up" ELSE "down"
             r == IF same THEN s
                  ELSE IF ~s.up THEN IF up THEN NeighDel(s) ELSE NeighAdd(s)
                  ELSE IF up THEN Resent(s) ELSE s
             t == PeerPo(s, up, new)
  <1>1. t = [r EXCEPT !.pif = IF up THEN "up" ELSE "down"]
    BY DEF PeerPo
  <1>2. \/ r = s
        \/ r = NeighDel(s) /\ ~s.up
        \/ r = NeighAdd(s) /\ ~s.up /\ ~up
        \/ r = Resent(s) /\ s.up
    OBVIOUS
  <1> HIDE DEF r, same
  <1>3. /\ Fields(r, s) /\ Entries(r, s) /\ (LastNote(s) => LastNote(r))
    BY <1>2, NeighDelOk, NeighAddOk, ResentOk, EntryMac DEF Fields, Entries, KernOnly, Known, LastNote
  <1>4. ASSUME Early(s, up), NEW S PROVE Keeps(r, s, S)
    <2>1. CASE r = s
      BY <2>1 DEF Keeps
    <2>2. CASE r = NeighDel(s) /\ ~s.up
      <3>1. KernOnly(r, s) /\ Fields(r, s) /\ (LastNote(s) /\ ListFollows(s) => ListFollows(r))
        BY <2>2, NeighDelOk
      <3>2. ASSUME Calm(s) PROVE Calm(r) /\ (One(S) /\ SeenIn(s, S) => SeenIn(r, S))
        <4>1. CASE kind = "vlan"
          BY <2>2, <4>1, NeighDelOk DEF Calm
        <4>2. CASE kind = "l3"
          <5>1. family = "arp" => s.kern = "none" /\ r = s
            BY <2>2, <3>2, <4>2, NeighDelOk DEF Calm
          <5>2. Calm(r)
            BY <3>2, <5>1 DEF Calm
          <5> QED BY <2>2, <5>1, <5>2, NeighDelOk
        <4> QED BY <4>1, <4>2
      <3> QED BY <3>1, <3>2 DEF Keeps, Sound, KernOnly, Known
    <2>3. CASE r = NeighAdd(s) /\ ~s.up /\ ~up
      <3>1. /\ KernOnly(r, s) /\ (LastNote(s) /\ ListFollows(s) => ListFollows(r))
            /\ One(S) /\ SeenIn(s, S) => SeenIn(r, S)
        BY <2>3, NeighAddOk
      <3>2. ASSUME Calm(s) PROVE Calm(r)
        <4>1. CASE kind = "l3" /\ family = "arp"
          BY <1>4, <2>3, <3>2, <4>1, NeighAddOk DEF Early
        <4> QED BY <4>1 DEF Calm
      <3> QED BY <3>1, <3>2 DEF Keeps, Sound, KernOnly, Known
    <2>4. CASE r = Resent(s) /\ s.up
      <3>1. /\ Fields(r, s) /\ r.kern = s.kern /\ r.note = s.note /\ r.list.mac = s.list.mac
            /\ (One(S) /\ SeenIn(s, S) => SeenIn(r, S)) /\ (Known(s) => Known(r))
        BY <2>4, ResentOk
      <3>2. /\ LastNote(s) => LastNote(r)
            /\ ListFollows(s) => ListFollows(r)
            /\ Calm(s) => Calm(r)
        BY <2>4, <3>1 DEF LastNote, ListFollows, Calm, Fields
      <3> QED BY <3>1, <3>2 DEF Keeps, Sound
    <2> QED BY <1>2, <2>1, <2>2, <2>3, <2>4
  <1>5. /\ Fields(t, r) /\ t.list = r.list /\ t.out = r.out /\ t.kern = r.kern /\ t.note = r.note
    BY <1>1, <1>3 DEF Fields, Switch
  <1>6. Entries(t, s) /\ Fields(t, s)
    BY <1>3, <1>5 DEF Entries, Known, Fields
  <1>7. \A S : Keeps(r, s, S) => Keeps(t, s, S)
    <2>1. Calm(r) => Calm(t)
      BY <1>5 DEF Calm, Fields
    <2> QED BY <1>5, <2>1, OtherFields DEF Keeps, Sound
  <1> QED BY <1>3, <1>4, <1>5, <1>6, <1>7, OtherFields

LEMMA PeerInfoOk ==
    ASSUME NEW s \in Switch, NEW up \in BOOLEAN, kind \in {"vlan", "l3"}
    PROVE  LET t == PeerInfo(s, up)
           IN  /\ Fields(t, s) /\ Entries(t, s)
               /\ LastNote(s) => LastNote(t)
               /\ Early(s, up) => \A S : Keeps(t, s, S)
  <1> DEFINE r == IF s.pif = "none" THEN PeerPo(s, TRUE, TRUE) ELSE s
             t == PeerPo(r, up, FALSE)
  <1>1. PeerInfo(s, up) = t
    BY DEF PeerInfo
  <1>2. /\ Fields(r, s) /\ Entries(r, s) /\ (LastNote(s) => LastNote(r))
        /\ \A S : Keeps(r, s, S)
    <2>1. CASE s.pif = "none"
      <3>1. Early(s, TRUE) /\ r = PeerPo(s, TRUE, TRUE)
        BY <2>1 DEF Early
      <3> QED BY <3>1, PeerPoOk
    <2>2. CASE s.pif # "none"
      BY <2>2, EntryMac DEF Fields, Entries, Keeps
    <2> QED BY <2>1, <2>2
  <1> HIDE DEF r
  <1>3. /\ Fields(t, r) /\ Entries(t, r) /\ (LastNote(r) => LastNote(t))
        /\ Early(r, up) => \A S : Keeps(t, r, S)
    BY <1>2, PeerPoOk DEF Fields
  <1> HIDE DEF t
  <1>4. Early(s, up) => Early(r, up)
    BY <1>2 DEF Early, Entries, Fields
  <1>5. Fields(t, s) /\ Entries(t, s)
    BY <1>2, <1>3 DEF Fields, Entries
  <1>6. ASSUME Early(s, up), NEW S PROVE Keeps(t, s, S)
    BY <1>2, <1>3, <1>4, <1>6, KeepsAgain
  <1> QED BY <1>1, <1>2, <1>3, <1>5, <1>6

LEMMA PoStateOk ==
    ASSUME NEW s \in Switch, NEW up \in BOOLEAN, kind \in {"vlan", "l3"}
    PROVE  LET t == PoState(s, up)
           IN  /\ KernOnly(t, s) /\ t.up = up
               /\ ~(kind = "l3" /\ s.up /\ ~up) => \A S : Keeps(t, s, S)
               /\ ~Known(s) => t.kern = s.kern /\ t.note = s.note
               /\ up = s.up => t.changed = s.changed
  <1> DEFINE broken == /\ ~up /\ s.state = "EXCHANGE" /\ s.pif = "up"
                       /\ s.up \/ s.seen # "EXCHANGE"
             r == IF up /\ ~s.up THEN NeighAdd(s) ELSE IF broken THEN NeighDel(s) ELSE s
             t == PoState(s, up)
  <1>1. t = [r EXCEPT !.changed = @ \/ s.up # up, !.up = up, !.seen = s.state]
    BY DEF PoState
  <1>2. \/ r = NeighAdd(s) /\ up
        \/ r = NeighDel(s) /\ ~up
        \/ r = s /\ ~(up /\ ~s.up)
    OBVIOUS
  <1> HIDE DEF r
  <1>3. KernOnly(r, s) /\ Fields(r, s)
    BY <1>2, NeighAddOk, NeighDelOk DEF KernOnly, Fields
  <1>4. /\ t \in Switch /\ t.state = s.state /\ t.pif = s.pif /\ t.up = up
        /\ t.list = r.list /\ t.out = r.out /\ t.kern = r.kern /\ t.note = r.note
        /\ t.list = s.list /\ t.out = s.out
        /\ up = s.up => t.changed = s.changed
    BY <1>1, <1>3 DEF KernOnly, Fields, Switch
  <1>5. KernOnly(t, s)
    BY <1>3, <1>4 DEF KernOnly, LastNote
  <1>6. ASSUME ~(kind = "l3" /\ s.up /\ ~up), NEW S PROVE Keeps(t, s, S)
    <2>1. Known(s) <=> Known(t)
      BY <1>4 DEF Known
    <2>2. CASE r = NeighAdd(s) /\ up
      <3>1. Calm(t)
        BY <1>4, <2>2 DEF Calm
      <3>2. /\ LastNote(s) /\ ListFollows(s) => ListFollows(r)
            /\ One(S) /\ SeenIn(s, S) => SeenIn(r, S)
        BY <2>2, NeighAddOk
      <3>3. /\ LastNote(s) /\ ListFollows(s) => ListFollows(t)
            /\ One(S) /\ SeenIn(s, S) => SeenIn(t, S)
        BY <1>4, <3>2, OtherFields
      <3> QED BY <1>5, <2>1, <3>1, <3>3 DEF Keeps, Sound, KernOnly
    <2>3. CASE r = NeighDel(s) /\ ~up
      <3>1. LastNote(s) /\ ListFollows(s) => ListFollows(t)
        BY <1>4, <2>3, NeighDelOk, OtherFields
      <3>2. ASSUME Calm(s) PROVE Calm(t) /\ (One(S) /\ SeenIn(s, S) => SeenIn(t, S))
        <4>1. CASE kind = "vlan"
          <5>1. r = s
            BY <2>3, <4>1, NeighDelOk
          <5> QED BY <1>4, <4>1, <5>1, OtherFields DEF Calm
        <4>2. CASE kind = "l3"
          <5>1. ~s.up
            BY <1>6, <2>3, <4>2
          <5>2. family = "arp" => s.kern = "none" /\ s.note = <<>> /\ r = s
            BY <2>3, <3>2, <4>2, <5>1, NeighDelOk DEF Calm
          <5>3. Calm(t)
            BY <1>4, <5>2 DEF Calm
          <5>4. One(S) /\ SeenIn(s, S) => SeenIn(r, S)
            BY <2>3, <5>2, NeighDelOk
          <5> QED BY <1>4, <5>3, <5>4, OtherFields
        <4> QED BY <4>1, <4>2
      <3> QED BY <1>5, <2>1, <3>1, <3>2 DEF Keeps, Sound, KernOnly
    <2>4. CASE r = s /\ ~(up /\ ~s.up)
      <3>1. Calm(s) => Calm(t)
        BY <1>4, <1>6, <2>4 DEF Calm, Switch
      <3> QED BY <1>4, <2>1, <2>4, <3>1, OtherFields DEF Keeps, Sound
    <2> QED BY <1>2, <2>2, <2>3, <2>4
  <1>7. ~Known(s) => t.kern = s.kern /\ t.note = s.note
    BY <1>2, <1>4, NeighAddOk, NeighDelOk
  <1> QED BY <1>4, <1>5, <1>6, <1>7

-----------------------------------------------------------------------------
(* The peer's entries. *)

LEMMA FromPeerOk ==
    ASSUME NEW s \in Switch, NEW i \in Item, kind \in {"vlan", "l3"}, family \in {"arp", "nd"}
    PROVE  LET t == FromPeer(s, i)
           IN  /\ Fields(t, s)
               /\ LastNote(s) => LastNote(t)
               /\ family = "arp" /\ Sound(s) => Sound(t)
               /\ \A S : One(S) /\ SeenIn(s, S) /\ Sound(s) /\ i \in Adds(S) =>
                           SeenIn(t, S) /\ Sound(t) /\ Known(t) /\ t.out = <<>>
  <1> DEFINE refused == i.op = "DEL" /\ Settable(s) /\ s.kern = "none"
             r == IF ~Settable(s) THEN s
                  ELSE IF i.op = "ADD" THEN KernAdd(s, i.mac) ELSE KernDel(s)
             l == IF i.op = "DEL" THEN NoEntry
                  ELSE [mac |-> i.mac, op |-> IF Known(s) THEN s.list.op ELSE "ADD"]
             t == FromPeer(s, i)
  <1>0. i.op \in {"ADD", "DEL"} /\ (i.op = "ADD" => i.mac \in Mac)
    BY DEF Item
  <1>1. CASE refused
    <2>1. t = s /\ i.op # "ADD"
      BY <1>1 DEF FromPeer
    <2>2. \A S : i \notin Adds(S)
      BY <2>1 DEF Adds
    <2> QED BY <2>1, <2>2 DEF Fields
  <1>2. CASE ~refused
    <2>1. t = [r EXCEPT !.list = l, !.out = <<>>]
      BY <1>2 DEF FromPeer
    <2>2. /\ l \in Entry \cup {NoEntry} /\ (i.op = "ADD" => l.mac = i.mac /\ l # NoEntry)
      BY <1>0, EntryMac, MacAssumption DEF Entry, NoEntry
    <2>3. /\ Fields(r, s) /\ r.pif = s.pif /\ (LastNote(s) => LastNote(r))
          /\ ~Settable(s) => r = s
          /\ Settable(s) => r.kern = IF i.op = "ADD" THEN i.mac ELSE "none"
      BY <1>0, KernAddOk, KernDelOk DEF Fields
    <2> HIDE DEF l
    <2>4. /\ Fields(t, s) /\ t.list = l /\ t.out = <<>> /\ t.kern = r.kern /\ t.note = r.note
      <3>1. r \in Switch /\ <<>> \in Seq(Item)
        BY <2>3 DEF Fields
      <3> HIDE DEF r
      <3> QED BY <2>1, <2>2, <2>3, <3>1 DEF Fields, Switch
    <2>5. LastNote(s) => LastNote(t)
      BY <2>3, <2>4 DEF LastNote
    <2>6. Sound(s) => Calm(t)
      BY <2>3, <2>4 DEF Sound, Calm, Fields, Settable
    <2>7. ASSUME family = "arp", Sound(s) PROVE ListFollows(t)
      <3>1. CASE ~Settable(s)
        <4>1. kind = "l3" /\ ~s.up
          BY <3>1 DEF Settable
        <4>2. t.kern = "none"
          BY <2>3, <2>4, <2>7, <3>1, <4>1 DEF Sound, Calm
        <4> QED BY <4>2 DEF ListFollows
      <3>2. CASE Settable(s)
        <4>1. t.kern = IF i.op = "ADD" THEN i.mac ELSE "none"
          BY <2>3, <2>4, <3>2
        <4>2. CASE i.op = "ADD"
          BY <2>2, <2>4, <4>1, <4>2 DEF ListFollows
        <4>3. CASE i.op # "ADD"
          BY <4>1, <4>3 DEF ListFollows
        <4> QED BY <4>2, <4>3
      <3> QED BY <3>1, <3>2
    <2>8. ASSUME NEW S, One(S), SeenIn(s, S), Sound(s), i \in Adds(S)
          PROVE  SeenIn(t, S) /\ Sound(t) /\ Known(t) /\ t.out = <<>>
      <3>1. i.op = "ADD" /\ i.mac \in S
        BY <2>8 DEF Adds
      <3>2. Known(t) /\ t.list.mac = i.mac
        BY <2>2, <2>4, <3>1 DEF Known
      <3>3. SeenIn(r, S)
        <4>1. CASE Settable(s)
          <5>1. r = KernAdd(s, i.mac)
            BY <3>1, <4>1
          <5> QED BY <1>0, <2>8, <3>1, <5>1, KernAddOk
        <4>2. CASE ~Settable(s)
          BY <2>3, <2>8, <4>2
        <4> QED BY <4>1, <4>2
      <3>4. SeenIn(t, S)
        BY <2>4, <3>1, <3>2, <3>3 DEF SeenIn
      <3>5. ListFollows(t)
        BY <2>8, <3>1, <3>2, <3>4 DEF SeenIn, One, ListFollows
      <3> QED BY <2>4, <2>5, <2>6, <2>8, <3>2, <3>4, <3>5 DEF Sound
    <2> QED BY <2>4, <2>5, <2>6, <2>7, <2>8 DEF Sound
  <1> QED BY <1>1, <1>2

LEMMA FromPeersIn ==
    ASSUME NEW S, NEW s, NEW items \in Seq(Item),
           \A t \in S \cup {s} : \A n \in 1..Len(items) : FromPeer(t, items[n]) \in S
    PROVE  FromPeers(s, items) \in S \/ (items = <<>> /\ FromPeers(s, items) = s)
  <1> DEFINE N == Len(items)
             U == S \cup {s}
             Step(f, n) == IF n = 0 THEN s ELSE FromPeer(f[n - 1], items[n])
             told == CHOOSE f : f = [n \in 0..N |-> Step(f, n)]
  <1>0. N \in Nat /\ (N = 0 => items = <<>>) /\ s \in U
        /\ \A t \in U : \A n \in 1..N : FromPeer(t, items[n]) \in S
    OBVIOUS
  <1>1. \E f : f = [n \in 0..N |-> Step(f, n)]
    <2> DEFINE g == [x \in (1..N) \X U |-> FromPeer(x[2], items[x[1]])]
    <2>1. g \in [(1..N) \X U -> U]
      <3>1. ASSUME NEW x \in (1..N) \X U PROVE FromPeer(x[2], items[x[1]]) \in U
        OBVIOUS
      <3> QED BY <3>1
    <2>2. \A k \in 1..N : \A y \in U : g[<<k, y>>] = FromPeer(y, items[k])
      OBVIOUS
    <2> HIDE DEF g, N, U
    <2>3. RecursionHas(N, U, s, g)
      BY <1>0, <2>1, RecursionExists DEF Steps
    <2>4. PICK h \in [0..N -> U] : h[0] = s /\ \A k \in 1..N : h[k] = g[<<k, h[k - 1]>>]
      BY <2>3 DEF RecursionHas
    <2>5. ASSUME NEW k \in 1..N PROVE h[k] = FromPeer(h[k - 1], items[k])
      <3>1. k - 1 \in 0..N
        BY <1>0
      <3>2. h[k - 1] \in U
        BY <3>1, <2>4
      <3> QED BY <2>2, <2>4, <3>2
    <2>6. \A n \in 0..N : h[n] = Step(h, n)
      <3>1. ASSUME NEW n \in 0..N PROVE h[n] = Step(h, n)
        <4>1. CASE n = 0
          BY <2>4, <4>1
        <4>2. CASE n # 0
          <5>1. n \in 1..N
            BY <1>0, <4>2
          <5> QED BY <2>5, <4>2, <5>1
        <4> QED BY <4>1, <4>2
      <3> QED BY <3>1
    <2>7. h = [n \in 0..N |-> Step(h, n)]
      BY <2>4, <2>6
    <2> QED BY <2>7
  <1>2. told = [n \in 0..N |-> Step(told, n)]
    BY <1>1, Zenon
  <1>3. FromPeers(s, items) = told[N]
    BY DEF FromPeers
  <1> HIDE DEF told, U
  <1>4. told[0] = s /\ \A n \in 1..N : told[n] = FromPeer(told[n - 1], items[n])
    BY <1>0, <1>2
  <1> DEFINE T == {n \in 0..N : told[n] \in U /\ (n # 0 => told[n] \in S)}
  <1>5. 0 \in T
    BY <1>0, <1>4
  <1>6. ASSUME NEW n \in 1..N, n - 1 \in T PROVE n \in T
    <2>1. told[n] \in S /\ n # 0
      BY <1>0, <1>4, <1>6
    <2> QED BY <2>1 DEF U
  <1> HIDE DEF T
  <1>7. \A n \in 0..N : n \in T
    BY <1>0, <1>5, <1>6, SetInduction
  <1>8. N \in 0..N
    BY <1>0
  <1>9. N # 0 => told[N] \in S
    BY <1>7, <1>8 DEF T
  <1> QED BY <1>0, <1>3, <1>4, <1>9

(* The entries of a message. *)
LEMMA FromPeersOk ==
    ASSUME NEW s \in Switch, NEW items \in Seq(Item), kind \in {"vlan", "l3"}, family \in {"arp", "nd"}
    PROVE  LET t == FromPeers(s, items)
           IN  /\ Fields(t, s)
               /\ LastNote(s) => LastNote(t)
               /\ family = "arp" /\ Sound(s) => Sound(t)
               /\ \A S : /\ One(S) /\ SeenIn(s, S) /\ Sound(s) /\ items # <<>>
                         /\ \A n \in 1..Len(items) : items[n] \in Adds(S)
                         => SeenIn(t, S) /\ Sound(t) /\ Known(t)
  <1>0. \A n \in 1..Len(items) : items[n] \in Item
    OBVIOUS
  <1>1. /\ Fields(FromPeers(s, items), s) /\ (LastNote(s) => LastNote(FromPeers(s, items)))
        /\ (family = "arp" /\ Sound(s) => Sound(FromPeers(s, items)))
    <2> DEFINE T == {t \in Switch : /\ Fields(t, s) /\ (LastNote(s) => LastNote(t))
                                    /\ (family = "arp" /\ Sound(s) => Sound(t))}
    <2>1. s \in T
      BY DEF Fields
    <2>2. ASSUME NEW t \in T, NEW n \in 1..Len(items) PROVE FromPeer(t, items[n]) \in T
      BY <1>0, <2>2, FromPeerOk DEF Fields
    <2> HIDE DEF T
    <2>3. \A t \in T \cup {s} : \A n \in 1..Len(items) : FromPeer(t, items[n]) \in T
      BY <2>1, <2>2
    <2>4. FromPeers(s, items) \in T
      BY <2>1, <2>3, FromPeersIn
    <2> QED BY <2>4 DEF T
  <1>2. ASSUME NEW S, One(S), SeenIn(s, S), Sound(s), items # <<>>,
               \A n \in 1..Len(items) : items[n] \in Adds(S)
        PROVE  LET t == FromPeers(s, items) IN SeenIn(t, S) /\ Sound(t) /\ Known(t)
    <2> DEFINE K == {t \in Switch : SeenIn(t, S) /\ Sound(t) /\ Known(t)}
    <2>1. ASSUME NEW t \in Switch, SeenIn(t, S), Sound(t), NEW n \in 1..Len(items)
          PROVE  FromPeer(t, items[n]) \in K
      BY <1>0, <1>2, <2>1, FromPeerOk DEF Fields
    <2>2. \A t \in K \cup {s} : \A n \in 1..Len(items) : FromPeer(t, items[n]) \in K
      BY <1>2, <2>1
    <2> HIDE DEF K
    <2>3. FromPeers(s, items) \in K
      BY <1>2, <2>2, FromPeersIn
    <2> QED BY <2>3 DEF K
  <1> QED BY <1>1, <1>2

-----------------------------------------------------------------------------
(* The kernel's notifications and the replies on the wire. *)

LEMMA TailSteps ==
    ASSUME NEW S, NEW c \in Seq(S), c # <<>>
    PROVE  /\ Tail(c) \in Seq(S) /\ Head(c) \in S /\ Head(c) = c[1]
           /\ Len(c) \in Nat /\ Len(c) # 0 /\ Len(Tail(c)) = Len(c) - 1
           /\ \A n \in 1..Len(Tail(c)) : Tail(c)[n] = c[n + 1]
           /\ Tail(c) = <<>> => Len(c) = 1 /\ c[Len(c)] = Head(c)
           /\ Tail(c) # <<>> => Tail(c)[Len(Tail(c))] = c[Len(c)]
  <1>1. Tail(c) \in Seq(S) /\ Head(c) \in S /\ Head(c) = c[1]
    OBVIOUS
  <1>2. /\ Len(c) \in Nat /\ Len(c) # 0 /\ Len(Tail(c)) = Len(c) - 1
        /\ \A n \in 1..Len(Tail(c)) : Tail(c)[n] = c[n + 1]
    OBVIOUS
  <1>3. Tail(c) = <<>> => Len(c) = 1 /\ c[Len(c)] = Head(c)
    BY <1>1, <1>2
  <1>4. Tail(c) # <<>> => Tail(c)[Len(Tail(c))] = c[Len(c)]
    <2> SUFFICES ASSUME Tail(c) # <<>> PROVE Tail(c)[Len(Tail(c))] = c[Len(c)]
      OBVIOUS
    <2>1. Len(Tail(c)) # 0 /\ Len(Tail(c)) \in Nat
      BY <1>1
    <2>2. Len(Tail(c)) \in 1..Len(Tail(c))
      BY <2>1
    <2> QED BY <1>2, <2>2
  <1> QED BY <1>1, <1>2, <1>3, <1>4

LEMMA NotifiedOk ==
    ASSUME NEW s \in Switch, s.note # <<>>, family \in {"arp", "nd"}
    PROVE  LET t == FromKernel([s EXCEPT !.note = Tail(@)], Head(s.note))
           IN  /\ Fields(t, s)
               /\ \A S : Keeps(t, s, S)
               /\ t.list.op = "ADD" => s.list.op = "ADD"
               /\ s.out # <<>> => t.out # <<>>
  <1> DEFINE r == [s EXCEPT !.note = Tail(@)]
             m == Head(s.note)
             t == FromKernel(r, m)
             none == [r EXCEPT !.list = NoEntry]
             new == [r EXCEPT !.list = [mac |-> m, op |-> "LIF"]]
  <1> SUFFICES /\ Fields(t, s)
               /\ \A S : Keeps(t, s, S)
               /\ t.list.op = "ADD" => s.list.op = "ADD"
               /\ s.out # <<>> => t.out # <<>>
    OBVIOUS
  <1>0. /\ s.note \in Seq(Mac \cup {"none"}) /\ Tail(s.note) \in Seq(Mac \cup {"none"})
        /\ m \in Mac \cup {"none"} /\ m = s.note[1]
        /\ Len(s.note) \in Nat /\ Len(s.note) # 0 /\ Len(Tail(s.note)) = Len(s.note) - 1
        /\ \A n \in 1..Len(Tail(s.note)) : Tail(s.note)[n] = s.note[n + 1]
        /\ Tail(s.note) = <<>> => s.note[Len(s.note)] = m
        /\ Tail(s.note) # <<>> => Tail(s.note)[Len(Tail(s.note))] = s.note[Len(s.note)]
    <2>1. s.note \in Seq(Mac \cup {"none"})
      BY DEF Switch
    <2> QED BY <2>1, TailSteps
  <1>1. /\ Fields(r, s) /\ r.list = s.list /\ r.out = s.out /\ r.kern = s.kern /\ r.note = Tail(s.note)
        /\ r.pif = s.pif
    BY <1>0 DEF Fields, Switch
  <1> HIDE DEF r, m
  <1>2. CASE m = "none" /\ Known(r)
    <2>1. /\ Fields(none, s) /\ none.list = NoEntry /\ none.out = r.out /\ none.kern = r.kern
          /\ none.note = r.note
      BY <1>1 DEF Fields, Switch
    <2>2. t = Queued(none, "DEL", "none") /\ [op |-> "DEL", mac |-> "none"] \in Item
      BY <1>2 DEF FromKernel, Item
    <2> HIDE DEF none
    <2>3. /\ Fields(t, s) /\ t.list = NoEntry /\ t.kern = s.kern /\ t.note = Tail(s.note)
          /\ s.out # <<>> => t.out # <<>>
      BY <1>1, <2>1, <2>2, QueuedOk DEF Fields
    <2>4. ASSUME LastNote(s) PROVE LastNote(t) /\ ListFollows(t)
      BY <1>0, <1>2, <2>3, <2>4 DEF LastNote, ListFollows
    <2>5. Calm(s) => Calm(t)
      BY <1>0, <2>3 DEF Calm, Fields
    <2>6. ASSUME NEW S, One(S), SeenIn(s, S) PROVE FALSE
      <3>1. 1 \in 1..Len(s.note)
        BY <1>0
      <3>2. m \in S
        BY <1>0, <2>6, <3>1 DEF SeenIn
      <3> QED BY <1>2, <2>6, <3>2, MacAssumption DEF One
    <2>7. t.list.op # "ADD"
      BY <2>3 DEF NoEntry
    <2>8. ASSUME NEW S PROVE Keeps(t, s, S)
      BY <2>4, <2>5, <2>6 DEF Keeps, Sound
    <2> QED BY <2>3, <2>7, <2>8
  <1>3. CASE ~(m = "none" /\ Known(r)) /\ (m = "none" \/ (Known(r) /\ ~Differs(r, m)))
    <2>1. t = r
      BY <1>3 DEF FromKernel
    <2>2. LastNote(s) => LastNote(t)
      BY <1>0, <1>1, <2>1 DEF LastNote
    <2>3. Calm(s) => Calm(t)
      BY <1>0, <1>1, <2>1 DEF Calm, Fields
    <2>4. ASSUME LastNote(s), family = "arp" PROVE ListFollows(t)
      <3>1. CASE Tail(s.note) = <<>>
        BY <1>0, <1>1, <1>3, <2>1, <2>4, <3>1 DEF LastNote, ListFollows, Differs
      <3>2. CASE Tail(s.note) # <<>>
        BY <1>1, <2>1, <3>2 DEF ListFollows
      <3> QED BY <3>1, <3>2
    <2>5. ASSUME NEW S, One(S), SeenIn(s, S), LastNote(s)
          PROVE  SeenIn(t, S) /\ ListFollows(t)
      <3>0. m \in S /\ m # "none"
        BY <1>0, <2>5, MacAssumption DEF SeenIn, One
      <3>1. \A n \in 1..Len(Tail(s.note)) : Tail(s.note)[n] \in S
        BY <1>0, <2>5 DEF SeenIn
      <3>2. SeenIn(t, S)
        BY <1>1, <2>1, <2>5, <3>1 DEF SeenIn, Known
      <3>3. t \in Switch /\ Known(t)
        BY <1>1, <1>3, <2>1, <3>0 DEF Fields
      <3>4. t.list.mac \in S
        BY <3>2, <3>3, EntryMac DEF SeenIn
      <3>5. ListFollows(t)
        BY <2>5, <3>2, <3>4 DEF ListFollows, One, SeenIn
      <3> QED BY <3>2, <3>5
    <2>6. (Known(s) => Known(t)) /\ Fields(t, s)
      BY <1>1, <2>1 DEF Known
    <2>7. ASSUME NEW S PROVE Keeps(t, s, S)
      BY <2>2, <2>3, <2>4, <2>5, <2>6 DEF Keeps, Sound
    <2>8. s.out # <<>> => t.out # <<>>
      BY <1>1, <2>1
    <2> QED BY <1>1, <2>1, <2>6, <2>7, <2>8
  <1>4. CASE m # "none" /\ ~(Known(r) /\ ~Differs(r, m))
    <2>0. m \in Mac /\ [mac |-> m, op |-> "LIF"] \in Entry /\ [mac |-> m, op |-> "LIF"] # NoEntry
          /\ [op |-> "ADD", mac |-> m] \in Item
      BY <1>0, <1>4, MacAssumption DEF Entry, NoEntry, Item
    <2>1. /\ Fields(new, s) /\ new.list = [mac |-> m, op |-> "LIF"] /\ new.out = r.out
          /\ new.kern = r.kern /\ new.note = r.note
      BY <1>1, <2>0 DEF Fields, Switch
    <2>2. t = Queued(new, "ADD", m)
      BY <1>4 DEF FromKernel
    <2> HIDE DEF new
    <2>3. /\ Fields(t, s) /\ t.list = new.list /\ t.kern = s.kern /\ t.note = Tail(s.note)
          /\ s.out # <<>> => t.out # <<>>
          /\ \A S : [op |-> "ADD", mac |-> m] \in Adds(S) /\ SeenIn(new, S) /\ Known(new)
                      => SeenIn(t, S)
      BY <1>1, <2>0, <2>1, <2>2, QueuedOk DEF Fields
    <2>4. ASSUME LastNote(s) PROVE LastNote(t) /\ ListFollows(t)
      BY <1>0, <2>1, <2>3, <2>4 DEF LastNote, ListFollows
    <2>5. Calm(s) => Calm(t)
      BY <1>0, <2>3 DEF Calm, Fields
    <2>6. Known(new) /\ Known(t)
      BY <2>0, <2>1, <2>3 DEF Known
    <2>7. ASSUME NEW S, One(S), SeenIn(s, S) PROVE SeenIn(t, S)
      <3>0. m \in S /\ [op |-> "ADD", mac |-> m] \in Adds(S)
        BY <1>0, <1>4, <2>7 DEF SeenIn, Adds
      <3>1. \A n \in 1..Len(new.note) : new.note[n] \in S
        BY <1>0, <1>1, <2>1, <2>7 DEF SeenIn
      <3>2. SeenIn(new, S)
        BY <1>1, <2>1, <2>6, <2>7, <3>0, <3>1 DEF SeenIn
      <3> QED BY <2>3, <2>6, <3>0, <3>2
    <2>8. ASSUME NEW S PROVE Keeps(t, s, S)
      BY <2>4, <2>5, <2>6, <2>7 DEF Keeps, Sound
    <2>9. t.list.op # "ADD"
      BY <2>1, <2>3
    <2> QED BY <2>3, <2>8, <2>9
  <1> QED BY <1>2, <1>3, <1>4

LEMMA ReplyOk ==
    ASSUME NEW s \in Switch, NEW m \in Mac \cup {"none"}, family \in {"arp", "nd"},
           kind = "l3" => s.up, m = "none" => family = "nd"
    PROVE  LET k == IF s.kern = "none" \/ m = "none" THEN s ELSE KernAdd(s, m)
               t == FromReply(k, m)
           IN  /\ Fields(t, s)
               /\ \A S : (m # "none" => m \in S) => Keeps(t, s, S)
               /\ t.list.op = "ADD" => s.list.op = "ADD"
               /\ s.out # <<>> => t.out # <<>>
  <1> DEFINE k == IF s.kern = "none" \/ m = "none" THEN s ELSE KernAdd(s, m)
             mac == IF m = "none" THEN k.list.mac ELSE m
             r == [k EXCEPT !.list = [mac |-> mac, op |-> "LIF"]]
             v == IF family = "nd" THEN KernAdd(r, mac) ELSE r
             t == FromReply(k, m)
  <1> SUFFICES /\ Fields(t, s)
               /\ \A S : (m # "none" => m \in S) => Keeps(t, s, S)
               /\ t.list.op = "ADD" => s.list.op = "ADD"
               /\ s.out # <<>> => t.out # <<>>
    OBVIOUS
  <1>1. /\ Fields(k, s) /\ k.list = s.list /\ k.out = s.out /\ k.pif = s.pif
        /\ LastNote(s) => LastNote(k)
        /\ k.kern = "none" \/ m = "none" \/ k.kern = m
        /\ m = "none" => k = s
        /\ \A S : (m # "none" => m \in S) /\ SeenIn(s, S) => SeenIn(k, S)
    BY KernAddOk DEF Fields
  <1> HIDE DEF k
  <1>2. CASE mac = "none"
    <2>1. t = k /\ k = s
      BY <1>1, <1>2 DEF FromReply
    <2>2. \A S : Keeps(t, s, S)
      BY <2>1 DEF Keeps
    <2> QED BY <1>1, <2>1, <2>2
  <1>3. CASE mac # "none"
    <2>0. mac \in Mac
      BY <1>1, <1>3, EntryMac DEF Fields
    <2>1. t = Queued(v, "ADD", mac)
      BY <1>3 DEF FromReply
    <2>2. \A S : (m # "none" => m \in S) /\ SeenIn(s, S) => mac \in S
      BY <1>1, <1>3 DEF SeenIn
    <2>3. m = mac \/ family = "nd"
      OBVIOUS
    <2> HIDE DEF mac
    <2>4. /\ [mac |-> mac, op |-> "LIF"] \in Entry /\ [mac |-> mac, op |-> "LIF"] # NoEntry
          /\ [op |-> "ADD", mac |-> mac] \in Item
      BY <2>0, MacAssumption DEF Entry, NoEntry, Item
    <2>5. /\ Fields(r, s) /\ r.list = [mac |-> mac, op |-> "LIF"] /\ r.out = s.out /\ r.kern = k.kern
          /\ r.note = k.note /\ Known(r)
      BY <1>1, <2>4 DEF Fields, Switch, Known
    <2>6. LastNote(s) => LastNote(r)
      BY <1>1, <2>5 DEF LastNote
    <2>7. ASSUME NEW S, m # "none" => m \in S, SeenIn(s, S) PROVE SeenIn(r, S)
      <3>1. SeenIn(k, S) /\ mac \in S
        BY <1>1, <2>2, <2>7
      <3> QED BY <1>1, <2>5, <3>1 DEF SeenIn
    <2> HIDE DEF r
    <2>8. /\ Fields(v, s) /\ v.list = r.list /\ v.out = s.out /\ (LastNote(s) => LastNote(v))
          /\ v.kern \in {"none", mac}
          /\ \A S : (m # "none" => m \in S) /\ SeenIn(s, S) => SeenIn(v, S)
      <3>1. CASE family = "nd"
        BY <2>0, <2>2, <2>5, <2>6, <2>7, <3>1, KernAddOk DEF Fields
      <3>2. CASE family # "nd"
        <4>1. v = r /\ m = mac
          BY <2>3, <3>2
        <4>2. k.kern \in {"none", mac}
          BY <1>1, <1>3, <4>1, <2>0, MacAssumption
        <4> QED BY <2>5, <2>6, <2>7, <4>1, <4>2
      <3> QED BY <3>1, <3>2
    <2> HIDE DEF v
    <2>9. Known(v)
      BY <2>5, <2>8 DEF Known
    <2>10. /\ Fields(t, s) /\ t.list = r.list /\ t.kern = v.kern /\ t.note = v.note
           /\ s.out # <<>> => t.out # <<>>
           /\ \A S : [op |-> "ADD", mac |-> mac] \in Adds(S) /\ SeenIn(v, S) /\ Known(v)
                      => SeenIn(t, S)
      BY <2>1, <2>4, <2>8, QueuedOk DEF Fields
    <2>11. /\ LastNote(s) => LastNote(t)
           /\ ListFollows(t) /\ Known(t) /\ t.list.op # "ADD"
      BY <2>4, <2>5, <2>8, <2>10 DEF LastNote, ListFollows, Known
    <2>12. Calm(t)
      BY <2>10 DEF Calm, Fields
    <2>13. ASSUME NEW S, m # "none" => m \in S PROVE Keeps(t, s, S)
      <3>1. ASSUME SeenIn(s, S) PROVE SeenIn(t, S)
        <4>1. [op |-> "ADD", mac |-> mac] \in Adds(S)
          BY <2>2, <2>13, <3>1 DEF Adds
        <4> QED BY <2>8, <2>9, <2>10, <2>13, <3>1, <4>1
      <3> QED BY <2>11, <2>12, <3>1 DEF Keeps, Sound
    <2> QED BY <2>10, <2>11, <2>13
  <1> QED BY <1>2, <1>3

LEMMA LearnOk ==
    ASSUME NEW s \in Switch, NEW m \in Mac \cup {"none"}, s.kern # m, m # "none" /\ kind = "l3" => s.up
    PROVE  LET t == IF m = "none" THEN KernDel(s) ELSE KernAdd(s, m)
           IN  /\ Fields(t, s) /\ t.list = s.list /\ t.out = s.out
               /\ \A S : m \in S => Keeps(t, s, S)
  <1> DEFINE t == IF m = "none" THEN KernDel(s) ELSE KernAdd(s, m)
  <1> SUFFICES /\ Fields(t, s) /\ t.list = s.list /\ t.out = s.out
               /\ \A S : m \in S => Keeps(t, s, S)
    OBVIOUS
  <1>1. CASE m = "none"
    <2>1. /\ Fields(t, s) /\ t.list = s.list /\ t.out = s.out /\ t.kern = "none"
          /\ (LastNote(s) => LastNote(t)) /\ (s.kern = "none" => t = s)
      BY <1>1, KernDelOk
    <2>2. ListFollows(t) /\ (Calm(s) => Calm(t))
      BY <2>1 DEF ListFollows, Calm, Fields
    <2>3. ASSUME NEW S, m \in S PROVE Keeps(t, s, S)
      <3>1. ~One(S)
        BY <1>1, <2>3, MacAssumption DEF One
      <3> QED BY <2>1, <2>2, <3>1 DEF Keeps, Sound
    <2> QED BY <2>1, <2>3
  <1>2. CASE m # "none"
    <2>0. m \in Mac
      BY <1>2
    <2>1. /\ Fields(t, s) /\ t.list = s.list /\ t.out = s.out /\ t.kern = m
          /\ (LastNote(s) => LastNote(t)) /\ t.note # <<>>
          /\ \A S : m \in S /\ SeenIn(s, S) => SeenIn(t, S)
      BY <1>2, <2>0, KernAddOk
    <2>2. ListFollows(t) /\ Calm(t) /\ (Known(s) => Known(t))
      BY <1>2, <2>1 DEF ListFollows, Calm, Fields, Known
    <2>3. ASSUME NEW S, m \in S PROVE Keeps(t, s, S)
      BY <2>1, <2>2, <2>3 DEF Keeps, Sound
    <2> QED BY <2>1, <2>3
  <1> QED BY <1>1, <1>2

LEMMA RefreshOk ==
    ASSUME NEW s \in Switch, s.kern # "none"
    PROVE  LET t == [s EXCEPT !.note = Append(@, s.kern)]
           IN  /\ Fields(t, s) /\ t.list = s.list /\ t.out = s.out
               /\ \A S : Keeps(t, s, S)
  <1> DEFINE n == Append(s.note, s.kern)
             t == [s EXCEPT !.note = n]
  <1> SUFFICES /\ Fields(t, s) /\ t.list = s.list /\ t.out = s.out
               /\ \A S : Keeps(t, s, S)
    OBVIOUS
  <1>1. /\ s.note \in Seq(Mac \cup {"none"}) /\ s.kern \in Mac \cup {"none"}
    BY DEF Switch
  <1>2. /\ n \in Seq(Mac \cup {"none"}) /\ n # <<>> /\ Len(n) = Len(s.note) + 1
        /\ n[Len(s.note) + 1] = s.kern
        /\ \A i \in 1..Len(s.note) : n[i] = s.note[i]
    BY <1>1
  <1> HIDE DEF n
  <1>3. /\ Fields(t, s) /\ t.list = s.list /\ t.out = s.out /\ t.kern = s.kern /\ t.note = n
    BY <1>2 DEF Fields, Switch
  <1> HIDE DEF t
  <1>4. LastNote(t) /\ ListFollows(t) /\ (Known(s) => Known(t))
    BY <1>2, <1>3 DEF LastNote, ListFollows, Known
  <1>5. Calm(s) => Calm(t)
    BY <1>3 DEF Calm, Fields
  <1>6. ASSUME NEW S PROVE Keeps(t, s, S)
    <2>1. ASSUME SeenIn(s, S) PROVE SeenIn(t, S)
      <3>1. s.kern \in S
        BY <2>1 DEF SeenIn
      <3>2. \A i \in 1..Len(t.note) : t.note[i] \in S
        BY <1>1, <1>2, <1>3, <2>1, <3>1 DEF SeenIn
      <3> QED BY <1>3, <2>1, <3>2 DEF SeenIn, Known
    <2> QED BY <1>4, <1>5, <2>1 DEF Keeps, Sound
  <1> QED BY <1>3, <1>6

-----------------------------------------------------------------------------
(* What is under way. *)

LEMMA HasNeighSteps ==
    ASSUME NEW c \in Seq(Msg), NEW d \in Seq(Msg)
    PROVE  /\ HasNeigh(c \o d) <=> HasNeigh(c) \/ HasNeigh(d)
           /\ ~HasNeigh(<<>>)
  <1>1. HasNeigh(c \o d) => HasNeigh(c) \/ HasNeigh(d)
    <2> SUFFICES ASSUME NEW n \in 1..Len(c \o d), (c \o d)[n].type = "NEIGH"
                 PROVE  HasNeigh(c) \/ HasNeigh(d)
      BY DEF HasNeigh
    <2>1. CASE n <= Len(c)
      BY <2>1 DEF HasNeigh
    <2>2. CASE n > Len(c)
      <3>1. n - Len(c) \in 1..Len(d) /\ (c \o d)[n] = d[n - Len(c)]
        BY <2>2
      <3> QED BY <3>1 DEF HasNeigh
    <2> QED BY <2>1, <2>2
  <1>2. HasNeigh(c) => HasNeigh(c \o d)
    BY DEF HasNeigh
  <1>3. HasNeigh(d) => HasNeigh(c \o d)
    <2> SUFFICES ASSUME NEW n \in 1..Len(d), d[n].type = "NEIGH" PROVE HasNeigh(c \o d)
      BY DEF HasNeigh
    <2>1. n + Len(c) \in 1..Len(c \o d) /\ (c \o d)[n + Len(c)] = d[n]
      OBVIOUS
    <2> QED BY <2>1 DEF HasNeigh
  <1>4. ~HasNeigh(<<>>)
    BY DEF HasNeigh
  <1> QED BY <1>1, <1>2, <1>3, <1>4

(* rest is what is left of c when at most one message has been read. *)
RestOf(rest, c) == rest = c \/ (c # <<>> /\ rest = Tail(c))

LEMMA RestSteps ==
    ASSUME NEW c \in Seq(Msg), NEW rest, RestOf(rest, c)
    PROVE  /\ rest \in Seq(Msg)
           /\ \E d \in {0, 1} : \A n \in 1..Len(rest) : n + d \in 1..Len(c) /\ rest[n] = c[n + d]
           /\ HasNeigh(rest) => HasNeigh(c)
  <1>1. rest \in Seq(Msg)
    BY TailSteps DEF RestOf
  <1>2. \E d \in {0, 1} : \A n \in 1..Len(rest) : n + d \in 1..Len(c) /\ rest[n] = c[n + d]
    <2>1. CASE rest = c
      <3>1. \A n \in 1..Len(rest) : n + 0 \in 1..Len(c) /\ rest[n] = c[n + 0]
        BY <2>1
      <3> QED BY <3>1
    <2>2. CASE c # <<>> /\ rest = Tail(c)
      <3>1. \A n \in 1..Len(rest) : n + 1 \in 1..Len(c) /\ rest[n] = c[n + 1]
        BY <2>2, TailSteps
      <3> QED BY <3>1
    <2> QED BY <2>1, <2>2 DEF RestOf
  <1>3. HasNeigh(rest) => HasNeigh(c)
    BY <1>2 DEF HasNeigh
  <1> QED BY <1>1, <1>2, <1>3

(* Every entry of c is an addition of an address in S. *)
NeighsIn(c, S) ==
    \A n \in 1..Len(c) : c[n].type = "NEIGH" =>
        /\ c[n].items # <<>>
        /\ \A k \in 1..Len(c[n].items) : c[n].items[k] \in Adds(S)

LEMMA NeighsInSteps ==
    ASSUME NEW c \in Seq(Msg), NEW d \in Seq(Msg), NEW S, NEW rest, RestOf(rest, c)
    PROVE  /\ NeighsIn(c, S) /\ NeighsIn(d, S) => NeighsIn(c \o d, S)
           /\ NeighsIn(c, S) => NeighsIn(rest, S)
           /\ \A T : S \subseteq T /\ NeighsIn(c, S) => NeighsIn(c, T)
           /\ NeighsIn(<<>>, S)
  <1> DEFINE Ok(m) == m.type = "NEIGH" => /\ m.items # <<>>
                                           /\ \A k \in 1..Len(m.items) : m.items[k] \in Adds(S)
  <1>0. \A e : NeighsIn(e, S) <=> \A n \in 1..Len(e) : Ok(e[n])
    BY DEF NeighsIn
  <1> HIDE DEF Ok
  <1>1. NeighsIn(c, S) /\ NeighsIn(d, S) => NeighsIn(c \o d, S)
    <2> SUFFICES ASSUME NeighsIn(c, S), NeighsIn(d, S), NEW n \in 1..Len(c \o d)
                 PROVE  Ok((c \o d)[n])
      BY <1>0
    <2>1. CASE n <= Len(c)
      BY <1>0, <2>1
    <2>2. CASE n > Len(c)
      <3>1. n - Len(c) \in 1..Len(d) /\ (c \o d)[n] = d[n - Len(c)]
        BY <2>2
      <3> QED BY <1>0, <3>1
    <2> QED BY <2>1, <2>2
  <1>2. NeighsIn(c, S) => NeighsIn(rest, S)
    BY <1>0, RestSteps
  <1>3. ASSUME NEW T, S \subseteq T, NeighsIn(c, S) PROVE NeighsIn(c, T)
    BY <1>3 DEF NeighsIn, Adds
  <1>4. NeighsIn(<<>>, S)
    BY DEF NeighsIn
  <1> QED BY <1>1, <1>2, <1>3, <1>4

-----------------------------------------------------------------------------
(* One switch takes a step to u, reads at most one message and sends X. *)

(* The port-channel that was never up. *)
StillFresh(p, u, X, rest) ==
    /\ sw[p].up => u.up
    /\ \A k \in 1..Len(X) : SaysDown(X[k]) => ~u.up
    /\ ~u.up /\ ~sw[Other(p)].up => ~Known(u) /\ u.out = <<>> /\ ~HasNeigh(X)
    /\ ~u.up /\ (\E k \in 1..Len(rest) : SaysDown(rest[k])) => ~Known(u)

(* What the two know. *)
StillTold(p, u, X, rest) ==
    joined[p] /\ joined[Other(p)] =>
        /\ u.list.op = "ADD" => \/ Known(sw[Other(p)]) \/ u.out # <<>>
                                \/ HasNeigh(X) \/ HasNeigh(ch[Other(p)])
        /\ sw[Other(p)].list.op = "ADD" => \/ Known(u) \/ sw[Other(p)].out # <<>>
                                           \/ HasNeigh(rest)

LEMMA StepInv ==
    ASSUME TypeOK, NeighInv, NEW p \in Peer, NEW u \in Switch, NEW X \in Seq(Msg), NEW rest,
           sw' = [sw EXCEPT ![p] = u],
           ch' \in [Peer -> Seq(Msg)], ch'[p] = rest,
           ch'[Other(p)] = IF joined[Other(p)] THEN ch[Other(p)] \o X ELSE ch[Other(p)],
           joined' = joined, family' = family, kind' = kind, shown \subseteq shown',
           RestOf(rest, ch[p]),
           LastNote(u),
           "down" \notin shown' /\ (family = "arp" \/ Steady') => Sound(u),
           kind = "l3" /\ family = "arp" /\ "down" \notin shown' => StillFresh(p, u, X, rest),
           Steady' => /\ SeenIn(u, shown') /\ NeighsIn(X, shown') /\ StillTold(p, u, X, rest)
                      /\ (HasNeigh(X) \/ Known(sw[p])) => Known(u)
    PROVE  NeighInv'
  <1> DEFINE q == Other(p)
  <1>0. /\ q \in Peer /\ q # p /\ Other(q) = p /\ Peer = {p, q}
        /\ sw'[p] = u /\ sw'[q] = sw[q] /\ sw[p] \in Switch /\ sw[q] \in Switch
        /\ ch[p] \in Seq(Msg) /\ ch[q] \in Seq(Msg)
        /\ Steady' => Steady
        /\ "down" \notin shown' => "down" \notin shown
    BY TwoPeers DEF TypeOK, Steady
  <1>1. (\A r \in Peer : LastNote(sw[r]))'
    BY <1>0 DEF NeighInv
  <1>2. ("down" \notin shown /\ (family = "arp" \/ Steady) => \A r \in Peer : ListFollows(sw[r]))'
    BY <1>0 DEF NeighInv, Sound
  <1>3. ASSUME family = "arp", kind = "l3", "down" \notin shown', NEW r \in Peer, ~sw'[r].up
        PROVE  NeverUp(r)'
    <2>0. StillFresh(p, u, X, rest) /\ Sound(u)
      BY <1>3
    <2>1. \A v \in Peer : ~sw[v].up => NeverUp(v)
      BY <1>0, <1>3 DEF NeighInv, L3Inv
    <2>2. CASE r = p
      <3>1. ~u.up /\ ~sw[p].up /\ NeverUp(p)
        BY <1>0, <1>3, <2>0, <2>1, <2>2 DEF StillFresh
      <3>2. u.kern = "none" /\ u.note = <<>>
        BY <1>3, <2>0, <3>1 DEF Sound, Calm
      <3>3. ~sw[q].up => ~Known(u) /\ u.out = <<>> /\ ~HasNeigh(rest)
        BY <1>0, <2>0, <3>1, RestSteps DEF StillFresh, NeverUp
      <3>4. ASSUME NEW k \in 1..Len(rest), SaysDown(rest[k])
            PROVE  ~Known(u) /\ \A j \in 1..k : rest[j].type # "NEIGH"
        <4>1. ~Known(u)
          BY <2>0, <3>1, <3>4 DEF StillFresh
        <4>2. PICK d \in {0, 1} : \A n \in 1..Len(rest) : n + d \in 1..Len(ch[p]) /\ rest[n] = ch[p][n + d]
          <5> DEFINE c == ch[p]
          <5>1. c \in Seq(Msg) /\ RestOf(rest, c)
            BY <1>0
          <5> HIDE DEF c
          <5>2. \E d \in {0, 1} : \A n \in 1..Len(rest) : n + d \in 1..Len(c) /\ rest[n] = c[n + d]
            BY <5>1, RestSteps
          <5> QED BY <5>2 DEF c
        <4>3. SaysDown(ch[p][k + d]) /\ k + d \in 1..Len(ch[p])
          BY <3>4, <4>2
        <4>4. \A j \in 1..(k + d) : ch[p][j].type # "NEIGH"
          BY <3>1, <4>3 DEF NeverUp
        <4>5. ASSUME NEW j \in 1..k PROVE rest[j].type # "NEIGH"
          <5>1. j \in 1..Len(rest) /\ j + d \in 1..(k + d)
            BY <1>0, RestSteps, <3>4
          <5> QED BY <4>2, <4>4, <5>1
        <4> QED BY <4>1, <4>5
      <3> QED BY <1>0, <2>2, <3>2, <3>3, <3>4 DEF NeverUp
    <2>3. CASE r = q
      <3>1. ~sw[q].up /\ NeverUp(q)
        BY <1>0, <1>3, <2>1, <2>3
      <3>2. sw[q].kern = "none" /\ sw[q].note = <<>>
        BY <3>1 DEF NeverUp
      <3>3. ~u.up => /\ ~Known(sw[q]) /\ sw[q].out = <<>> /\ ~HasNeigh(ch[q]) /\ ~HasNeigh(X)
                     /\ ~HasNeigh(ch[q] \o X)
        BY <1>0, <2>0, <3>1, HasNeighSteps DEF StillFresh, NeverUp
      <3>4. ~u.up => ~Known(sw[q]) /\ sw[q].out = <<>> /\ ~HasNeigh(ch'[q])
        BY <3>3
      <3>5. ASSUME NEW k \in 1..Len(ch'[q]), SaysDown(ch'[q][k])
            PROVE  ~Known(sw[q]) /\ \A j \in 1..k : ch'[q][j].type # "NEIGH"
        <4>1. CASE k \in 1..Len(ch[q]) /\ \A j \in 1..k : ch'[q][j] = ch[q][j]
          <5>1. SaysDown(ch[q][k])
            BY <3>5, <4>1
          <5> QED BY <3>1, <4>1, <5>1 DEF NeverUp
        <4>2. CASE ch'[q] = ch[q] \o X /\ k \notin 1..Len(ch[q])
          <5>1. k - Len(ch[q]) \in 1..Len(X) /\ ch'[q][k] = X[k - Len(ch[q])]
            BY <1>0, <3>5, <4>2
          <5>2. ~u.up
            BY <2>0, <3>5, <5>1 DEF StillFresh
          <5>3. \A j \in 1..k : j \in 1..Len(ch'[q])
            BY <1>0, <3>5
          <5> QED BY <3>4, <5>2, <5>3 DEF HasNeigh
        <4>3. CASE ch'[q] = ch[q]
          BY <1>0, <3>5, <4>1, <4>3
        <4>4. CASE ch'[q] = ch[q] \o X /\ k \in 1..Len(ch[q])
          <5>1. \A j \in 1..k : ch'[q][j] = ch[q][j]
            BY <1>0, <4>4
          <5> QED BY <4>1, <4>4, <5>1
        <4> QED BY <4>2, <4>3, <4>4
      <3> QED BY <1>0, <2>3, <3>2, <3>4, <3>5 DEF NeverUp
    <2> QED BY <1>0, <2>2, <2>3
  <1>4. ASSUME Steady', NEW r \in Peer PROVE ToldIsKnown(r)' /\ UnderWay(r)'
    <2>0. /\ SeenIn(u, shown') /\ NeighsIn(X, shown') /\ StillTold(p, u, X, rest)
          /\ (HasNeigh(X) \/ Known(sw[p])) => Known(u)
          /\ \A v \in Peer : ToldIsKnown(v) /\ UnderWay(v)
      BY <1>0, <1>4 DEF NeighInv
    <2>1. /\ SeenIn(sw[q], shown')
          /\ HasNeigh(ch[p]) => Known(sw[q])
          /\ HasNeigh(ch[q]) => Known(sw[p])
      BY <1>0, <2>0 DEF ToldIsKnown, Addition, SeenIn, Adds
    <2>2. NeighsIn(ch[p], shown') /\ NeighsIn(ch[q], shown')
      BY <1>0, <2>0 DEF ToldIsKnown, Addition, NeighsIn, Adds
    <2>3. NeighsIn(rest, shown') /\ NeighsIn(ch'[q], shown')
      <3>1. NeighsIn(rest, shown')
        BY <1>0, <2>2, NeighsInSteps
      <3>2. RestOf(ch[q], ch[q])
        BY DEF RestOf
      <3>3. NeighsIn(ch[q] \o X, shown')
        BY <1>0, <2>0, <2>2, <3>2, NeighsInSteps
      <3> QED BY <2>2, <3>1, <3>3
    <2>4. /\ HasNeigh(rest) => Known(sw[q])
          /\ HasNeigh(ch'[q]) => Known(u)
      BY <1>0, <2>0, <2>1, RestSteps, HasNeighSteps
    <2>5. ToldIsKnown(p)' /\ ToldIsKnown(q)'
      <3>1. \A v \in Peer : SeenIn(sw'[v], shown') /\ NeighsIn(ch'[v], shown')
        BY <1>0, <2>0, <2>1, <2>3
      <3>2. \A v \in Peer : sw'[v].out # <<>> \/ HasNeigh(ch'[Other(v)]) => Known(sw'[v])
        BY <1>0, <2>4, <3>1 DEF SeenIn
      <3> QED BY <1>0, <3>1, <3>2 DEF ToldIsKnown, Addition, NeighsIn, SeenIn, Adds
    <2>6. UnderWay(p)' /\ UnderWay(q)'
      <3>1. ASSUME joined[p], joined[q] PROVE HasNeigh(ch'[q]) <=> HasNeigh(ch[q]) \/ HasNeigh(X)
        BY <1>0, <3>1, HasNeighSteps
      <3> QED BY <1>0, <2>0, <3>1 DEF UnderWay, StillTold
    <2> QED BY <1>0, <2>5, <2>6
  <1> QED BY <1>1, <1>2, <1>3, <1>4 DEF NeighInv, L3Inv

-----------------------------------------------------------------------------
(* What the invariant says of one switch. *)

LEMMA SwitchFacts ==
    ASSUME TypeOK, NeighInv, NEW p \in Peer
    PROVE  /\ sw[p] \in Switch /\ ch[p] \in Seq(Msg)
           /\ family \in {"arp", "nd"} /\ kind \in {"vlan", "l3"}
           /\ LastNote(sw[p])
           /\ "down" \notin shown /\ (family = "arp" \/ Steady) => Sound(sw[p])
           /\ Steady => /\ "down" \notin shown /\ One(shown)
                        /\ SeenIn(sw[p], shown) /\ NeighsIn(ch[p], shown)
                        /\ ToldIsKnown(p) /\ UnderWay(p)
  <1>1. /\ sw[p] \in Switch /\ ch[p] \in Seq(Msg)
        /\ family \in {"arp", "nd"} /\ kind \in {"vlan", "l3"}
    BY OpsAssumption DEF TypeOK
  <1>2. LastNote(sw[p])
    BY DEF NeighInv
  <1>3. ASSUME "down" \notin shown, family = "arp" \/ Steady PROVE Sound(sw[p])
    <2>1. ListFollows(sw[p])
      BY <1>3 DEF NeighInv
    <2>2. Calm(sw[p])
      BY <1>3 DEF NeighInv, L3Inv, NeverUp, Calm
    <2> QED BY <1>2, <2>1, <2>2 DEF Sound
  <1>4. ASSUME Steady
        PROVE  /\ "down" \notin shown /\ One(shown) /\ SeenIn(sw[p], shown)
               /\ NeighsIn(ch[p], shown) /\ ToldIsKnown(p) /\ UnderWay(p)
    <2>1. "down" \notin shown /\ One(shown)
      BY <1>4, MacAssumption DEF Steady, One
    <2>2. ToldIsKnown(p) /\ UnderWay(p)
      BY <1>4 DEF NeighInv
    <2> QED BY <2>1, <2>2 DEF ToldIsKnown, Addition, SeenIn, NeighsIn, Adds
  <1> QED BY <1>1, <1>2, <1>3, <1>4

(* More addresses do no harm. *)
LEMMA SeenInMore ==
    ASSUME NEW s, NEW S, NEW T, S \subseteq T, SeenIn(s, S)
    PROVE  SeenIn(s, T)
  BY DEF SeenIn, Adds

LEMMA SteadyBefore ==
    ASSUME shown \subseteq shown', Steady'
    PROVE  Steady /\ One(shown') /\ "down" \notin shown'
  BY MacAssumption DEF Steady, One

(* A step that sends nothing and reads nothing from the peer. *)
LEMMA LocalStep ==
    ASSUME TypeOK, NeighInv, NEW p \in Peer, NEW u \in Switch,
           sw' = [sw EXCEPT ![p] = u], UNCHANGED <<family, kind, joined, ch>>,
           shown \subseteq shown', shown' \subseteq Mac \cup {"none", "down"},
           events' \in 0..MaxEvents,
           LastNote(u),
           "down" \notin shown' => Keeps(u, sw[p], shown'),
           kind = "l3" /\ "down" \notin shown' => (sw[p].up => u.up),
           family = "arp" /\ kind = "l3" /\ "down" \notin shown' /\ ~u.up =>
               u.list = sw[p].list /\ u.out = sw[p].out,
           u.list.op = "ADD" => sw[p].list.op = "ADD",
           sw[p].out # <<>> => u.out # <<>>
    PROVE  TypeOK' /\ NeighInv'
  <1>1. TypeOK'
    BY DEF TypeOK
  <1> DEFINE q == Other(p)
             c == ch[p]
  <1>2. /\ q \in Peer /\ q # p /\ Other(q) = p
        /\ c \in Seq(Msg) /\ ch[q] \in Seq(Msg) /\ ch[q] \o <<>> = ch[q] /\ <<>> \in Seq(Msg)
        /\ RestOf(c, c) /\ ~HasNeigh(<<>>) /\ NeighsIn(<<>>, shown')
    BY TwoPeers DEF TypeOK, RestOf, HasNeigh, NeighsIn
  <1>3. ASSUME "down" \notin shown', family = "arp" \/ Steady' PROVE Sound(u)
    <2>1. Sound(sw[p])
      BY <1>3, SwitchFacts, SteadyBefore
    <2>2. Keeps(u, sw[p], shown')
      BY <1>3
    <2>3. CASE family = "arp"
      BY <2>1, <2>2, <2>3 DEF Keeps
    <2>4. CASE Steady'
      <3>1. One(shown') /\ SeenIn(sw[p], shown')
        BY <2>4, SwitchFacts, SteadyBefore, SeenInMore
      <3> QED BY <2>1, <2>2, <3>1 DEF Keeps
    <2> QED BY <1>3, <2>3, <2>4
  <1>4. ASSUME kind = "l3", family = "arp", "down" \notin shown'
        PROVE  StillFresh(p, u, <<>>, c)
    <2>1. \A r \in Peer : ~sw[r].up => NeverUp(r)
      BY <1>4 DEF NeighInv, L3Inv
    <2>2. ASSUME ~u.up
          PROVE  /\ ~sw[p].up /\ NeverUp(p) /\ u.list = sw[p].list /\ u.out = sw[p].out
                 /\ (Known(u) <=> Known(sw[p]))
      BY <1>4, <2>1, <2>2 DEF Known
    <2>3. ~u.up /\ ~sw[q].up => ~Known(u) /\ u.out = <<>>
      BY <2>2 DEF NeverUp
    <2>4. ~u.up /\ (\E k \in 1..Len(c) : SaysDown(c[k])) => ~Known(u)
      BY <2>2 DEF NeverUp
    <2> QED BY <1>2, <1>4, <2>3, <2>4 DEF StillFresh
  <1>5. ASSUME Steady'
        PROVE  /\ SeenIn(u, shown') /\ StillTold(p, u, <<>>, c)
               /\ Known(sw[p]) => Known(u)
    <2>1. /\ SeenIn(sw[p], shown') /\ One(shown') /\ Sound(sw[p]) /\ Keeps(u, sw[p], shown')
          /\ UnderWay(p) /\ UnderWay(q)
      BY <1>2, <1>5, SwitchFacts, SteadyBefore, SeenInMore
    <2>2. SeenIn(u, shown') /\ (Known(sw[p]) => Known(u))
      BY <2>1 DEF Keeps
    <2>3. StillTold(p, u, <<>>, c)
      BY <1>2, <2>1, <2>2 DEF StillTold, UnderWay
    <2> QED BY <2>2, <2>3
  <1>6. ch' \in [Peer -> Seq(Msg)] /\ ch'[p] = c /\ ch'[q] = IF joined[q] THEN ch[q] \o <<>> ELSE ch[q]
    BY <1>2 DEF TypeOK
  <1> HIDE DEF c
  <1>7. NeighInv'
    <2>1. RestOf(c, ch[p])
      BY <1>2 DEF c
    <2> QED BY <1>2, <1>3, <1>4, <1>5, <1>6, <2>1, StepInv
  <1> QED BY <1>1, <1>7

-----------------------------------------------------------------------------
(* What is sent. *)

LEMMA NeighMsgOk ==
    ASSUME NEW s \in Switch
    PROVE  LET c == NeighMsg(s)
           IN  /\ c \in Seq(Msg)
               /\ HasNeigh(c) <=> s.out # <<>>
               /\ \A k \in 1..Len(c) : ~SaysDown(c[k])
               /\ \A S : SeenIn(s, S) => NeighsIn(c, S)
  <1>1. CASE s.out = <<>>
    BY <1>1 DEF NeighMsg, HasNeigh, NeighsIn
  <1>2. CASE s.out # <<>>
    <2> DEFINE m == [type |-> "NEIGH", items |-> s.out]
    <2>1. NeighMsg(s) = <<m>> /\ m \in Msg /\ m.type = "NEIGH" /\ m.items = s.out
      BY <1>2 DEF NeighMsg, Msg, Switch
    <2> HIDE DEF m
    <2>2. <<m>> \in Seq(Msg) /\ Len(<<m>>) = 1 /\ <<m>>[1] = m
      BY <2>1
    <2>3. HasNeigh(<<m>>) /\ \A k \in 1..Len(<<m>>) : ~SaysDown(<<m>>[k])
      BY <2>1, <2>2 DEF HasNeigh, SaysDown
    <2>4. ASSUME NEW S, SeenIn(s, S) PROVE NeighsIn(<<m>>, S)
      BY <1>2, <2>1, <2>2, <2>4 DEF NeighsIn, SeenIn
    <2> QED BY <1>2, <2>1, <2>2, <2>3, <2>4
  <1> QED BY <1>1, <1>2

(* c and then d, neither of which says that a port-channel is down ... *)
LEMMA SaysDownSteps ==
    ASSUME NEW c \in Seq(Msg), NEW d \in Seq(Msg), NEW k \in 1..Len(c \o d), SaysDown((c \o d)[k])
    PROVE  (\E j \in 1..Len(c) : SaysDown(c[j])) \/ (\E j \in 1..Len(d) : SaysDown(d[j]))
  <1>1. CASE k <= Len(c)
    BY <1>1
  <1>2. CASE k > Len(c)
    <2>1. k - Len(c) \in 1..Len(d) /\ (c \o d)[k] = d[k - Len(c)]
      BY <1>2
    <2> QED BY <2>1
  <1> QED BY <1>1, <1>2

(* The sender's own state, then its entries. *)
Tells(c, s) ==
    /\ c \in Seq(Msg)
    /\ HasNeigh(c) <=> s.out # <<>>
    /\ \A k \in 1..Len(c) : SaysDown(c[k]) => ~s.up
    /\ \A S : SeenIn(s, S) => NeighsIn(c, S)

LEMMA OneMessage ==
    ASSUME NEW m \in Msg, m.type # "NEIGH"
    PROVE  /\ <<m>> \in Seq(Msg) /\ ~HasNeigh(<<m>>) /\ \A S : NeighsIn(<<m>>, S)
           /\ \A k \in 1..Len(<<m>>) : SaysDown(<<m>>[k]) => SaysDown(m)
  <1>1. <<m>> \in Seq(Msg) /\ Len(<<m>>) = 1 /\ <<m>>[1] = m
    OBVIOUS
  <1> QED BY <1>1 DEF HasNeigh, NeighsIn

LEMMA PendingOk ==
    ASSUME NEW s \in Switch
    PROVE  Tells(Pending(s), s)
  <1> DEFINE m == [type |-> "STATE", up |-> s.up]
             c == IF s.changed THEN <<m>> ELSE <<>>
             d == NeighMsg(s)
  <1>1. m \in Msg /\ m.type # "NEIGH" /\ (SaysDown(m) => ~s.up)
    BY DEF Msg, Switch, SaysDown
  <1> HIDE DEF m
  <1>2. /\ c \in Seq(Msg) /\ ~HasNeigh(c) /\ (\A S : NeighsIn(c, S))
        /\ \A k \in 1..Len(c) : SaysDown(c[k]) => ~s.up
    <2>1. CASE s.changed
      BY <1>1, <2>1, OneMessage
    <2>2. CASE ~s.changed
      BY <2>2 DEF HasNeigh, NeighsIn
    <2> QED BY <2>1, <2>2
  <1>3. /\ d \in Seq(Msg) /\ (HasNeigh(d) <=> s.out # <<>>)
        /\ \A k \in 1..Len(d) : ~SaysDown(d[k])
        /\ \A S : SeenIn(s, S) => NeighsIn(d, S)
    BY NeighMsgOk
  <1>4. Pending(s) = c \o d
    BY DEF Pending, m
  <1> HIDE DEF c, d
  <1>5. c \o d \in Seq(Msg) /\ (HasNeigh(c \o d) <=> s.out # <<>>)
    BY <1>2, <1>3, HasNeighSteps
  <1>6. ASSUME NEW k \in 1..Len(c \o d), SaysDown((c \o d)[k]) PROVE ~s.up
    BY <1>2, <1>3, <1>6, SaysDownSteps
  <1>7. ASSUME NEW S, SeenIn(s, S) PROVE NeighsIn(c \o d, S)
    <2>1. RestOf(c, c)
      BY DEF RestOf
    <2> QED BY <1>2, <1>3, <1>7, <2>1, NeighsInSteps
  <1> QED BY <1>4, <1>5, <1>6, <1>7 DEF Tells

LEMMA InfoOk ==
    ASSUME NEW s \in Switch
    PROVE  Tells(Info(s), s)
  <1> DEFINE m == [type |-> "INFO", up |-> s.up]
             n == [type |-> "DONE"]
             c == <<m>>
             d == NeighMsg(s)
             e == <<n>>
  <1>1. /\ m \in Msg /\ m.type # "NEIGH" /\ (SaysDown(m) => ~s.up)
        /\ n \in Msg /\ n.type # "NEIGH" /\ ~SaysDown(n)
    BY DEF Msg, Switch, SaysDown
  <1> HIDE DEF m, n
  <1>2. /\ c \in Seq(Msg) /\ ~HasNeigh(c) /\ (\A S : NeighsIn(c, S))
        /\ \A k \in 1..Len(c) : SaysDown(c[k]) => ~s.up
    BY <1>1, OneMessage
  <1>3. /\ d \in Seq(Msg) /\ (HasNeigh(d) <=> s.out # <<>>)
        /\ \A k \in 1..Len(d) : ~SaysDown(d[k])
        /\ \A S : SeenIn(s, S) => NeighsIn(d, S)
    BY NeighMsgOk
  <1>4. /\ e \in Seq(Msg) /\ ~HasNeigh(e) /\ (\A S : NeighsIn(e, S))
        /\ \A k \in 1..Len(e) : ~SaysDown(e[k])
    BY <1>1, OneMessage
  <1>5. Info(s) = c \o d \o e
    BY DEF Info, m, n
  <1> HIDE DEF c, d, e
  <1>6. /\ c \o d \in Seq(Msg) /\ (HasNeigh(c \o d) <=> s.out # <<>>)
        /\ c \o d \o e \in Seq(Msg)
    BY <1>2, <1>3, <1>4, HasNeighSteps
  <1>7. HasNeigh(c \o d \o e) <=> s.out # <<>>
    BY <1>4, <1>6, HasNeighSteps
  <1>8. ASSUME NEW k \in 1..Len(c \o d \o e), SaysDown((c \o d \o e)[k]) PROVE ~s.up
    <2>1. \E j \in 1..Len(c \o d) : SaysDown((c \o d)[j])
      BY <1>4, <1>6, <1>8, SaysDownSteps
    <2> QED BY <1>2, <1>3, <2>1, SaysDownSteps
  <1>9. ASSUME NEW S, SeenIn(s, S) PROVE NeighsIn(c \o d \o e, S)
    <2>1. RestOf(c, c) /\ RestOf(c \o d, c \o d)
      BY DEF RestOf
    <2>2. NeighsIn(c \o d, S)
      BY <1>2, <1>3, <1>9, <2>1, NeighsInSteps
    <2> QED BY <1>4, <1>6, <2>1, <2>2, NeighsInSteps
  <1> QED BY <1>5, <1>6, <1>7, <1>8, <1>9 DEF Tells

-----------------------------------------------------------------------------
(* The turns of the loop. *)

(* A turn ends with t after it has read at most one message and sent out. *)
LEMMA TurnStep ==
    ASSUME TypeOK, NeighInv, NEW p \in Peer, NEW t \in Switch, NEW out \in Seq(Msg), NEW rest,
           EndTurn(p, t, out, rest), RestOf(rest, ch[p]),
           LastNote(t),
           "down" \notin shown /\ (family = "arp" \/ Steady) => Sound(t),
           kind = "l3" /\ family = "arp" /\ "down" \notin shown => StillFresh(p, t, out, rest),
           Steady => /\ SeenIn(t, shown) /\ NeighsIn(out, shown) /\ StillTold(p, t, out, rest)
                     /\ (HasNeigh(out) \/ Known(sw[p])) => Known(t)
    PROVE  TypeOK' /\ NeighInv'
  <1> DEFINE q == Other(p)
             up == t.state = "EXCHANGE"
             more == IF up THEN Pending(t) ELSE <<>>
             X == out \o more
             u == IF up THEN Flushed(t) ELSE t
             Y == IF joined[q] THEN ch[q] \o X ELSE ch[q]
  <1>0. q \in Peer /\ q # p /\ ch[p] \in Seq(Msg) /\ ch[q] \in Seq(Msg) /\ rest \in Seq(Msg)
    BY TwoPeers, RestSteps DEF TypeOK
  <1>1. /\ u \in Switch /\ u.list = t.list /\ u.kern = t.kern /\ u.note = t.note /\ u.up = t.up
        /\ u.out = IF up THEN <<>> ELSE t.out
    <2>1. CASE up
      <3>1. u = [t EXCEPT !.changed = FALSE, !.out = <<>>] /\ <<>> \in Seq(Item)
        BY <2>1 DEF Flushed
      <3> QED BY <2>1, <3>1 DEF Switch
    <2>2. CASE ~up
      BY <2>2
    <2> QED BY <2>1, <2>2
  <1>2. /\ more \in Seq(Msg)
        /\ HasNeigh(more) <=> up /\ t.out # <<>>
        /\ \A k \in 1..Len(more) : SaysDown(more[k]) => ~t.up
        /\ \A S : SeenIn(t, S) => NeighsIn(more, S)
    <2>1. CASE up
      BY <2>1, PendingOk DEF Tells
    <2>2. CASE ~up
      BY <2>2 DEF HasNeigh, NeighsIn
    <2> QED BY <2>1, <2>2
  <1> HIDE DEF more, u
  <1>3. /\ X \in Seq(Msg)
        /\ HasNeigh(X) <=> HasNeigh(out) \/ (up /\ t.out # <<>>)
        /\ \A S : SeenIn(t, S) /\ NeighsIn(out, S) => NeighsIn(X, S)
    <2>1. RestOf(out, out)
      BY DEF RestOf
    <2> QED BY <1>2, <2>1, HasNeighSteps, NeighsInSteps
  <1>4. ASSUME \A k \in 1..Len(out) : SaysDown(out[k]) => ~t.up
        PROVE  \A k \in 1..Len(X) : SaysDown(X[k]) => ~u.up
    <2> SUFFICES ASSUME NEW k \in 1..Len(X), SaysDown(X[k]) PROVE ~t.up
      BY <1>1
    <2> QED BY <1>2, <1>4, SaysDownSteps
  <1>5. /\ sw' = [sw EXCEPT ![p] = u] /\ ch' = [ch EXCEPT ![p] = rest, ![q] = Y]
        /\ UNCHANGED <<family, kind, joined, shown, events>>
    <2>1. ch[q] \o out \o more = ch[q] \o X
      <3> DEFINE c == ch[q]
      <3>1. c \in Seq(Msg)
        BY <1>0
      <3> HIDE DEF c
      <3>2. (c \o out) \o more = c \o (out \o more)
        BY <1>2, <3>1, ConcatAssociative
      <3> QED BY <3>2 DEF c
    <2>2. /\ sw' = [sw EXCEPT ![p] = u]
          /\ ch' = [ch EXCEPT ![p] = rest, ![q] = IF joined[q] THEN @ \o out \o more ELSE @]
          /\ UNCHANGED <<family, kind, joined, shown, events>>
      BY DEF EndTurn, more, u
    <2> HIDE DEF X
    <2>3. [ch EXCEPT ![p] = rest, ![q] = IF joined[q] THEN @ \o out \o more ELSE @]
            = [ch EXCEPT ![p] = rest, ![q] = Y]
      BY <1>0, <2>1
    <2> QED BY <2>2, <2>3
  <1> HIDE DEF X
  <1>6. ch' \in [Peer -> Seq(Msg)] /\ ch'[p] = rest /\ ch'[q] = Y
    <2>1. Y \in Seq(Msg)
      BY <1>0, <1>3
    <2> HIDE DEF Y
    <2> QED BY <1>0, <1>5, <2>1 DEF TypeOK
  <1>7. TypeOK'
    BY <1>1, <1>5, <1>6 DEF TypeOK
  <1>8. /\ LastNote(u) /\ (Known(u) <=> Known(t))
        /\ "down" \notin shown' /\ (family = "arp" \/ Steady') => Sound(u)
    <2>1. Steady' => Steady
      BY <1>5 DEF Steady
    <2>2. LastNote(u) /\ (Known(u) <=> Known(t)) /\ (Sound(t) => Sound(u))
      BY <1>1 DEF LastNote, Known, Sound, ListFollows, Calm
    <2> QED BY <1>5, <2>1, <2>2
  <1>9. ASSUME kind = "l3", family = "arp", "down" \notin shown' PROVE StillFresh(p, u, X, rest)
    <2>1. StillFresh(p, t, out, rest)
      BY <1>5, <1>9
    <2> QED BY <1>1, <1>3, <1>4, <1>8, <2>1 DEF StillFresh
  <1>10. ASSUME Steady'
         PROVE  /\ SeenIn(u, shown') /\ NeighsIn(X, shown') /\ StillTold(p, u, X, rest)
                /\ (HasNeigh(X) \/ Known(sw[p])) => Known(u)
    <2>1. /\ SeenIn(t, shown) /\ NeighsIn(out, shown) /\ StillTold(p, t, out, rest)
          /\ (HasNeigh(out) \/ Known(sw[p])) => Known(t)
      BY <1>5, <1>10 DEF Steady
    <2>2. SeenIn(u, shown)
      BY <1>1, <1>8, <2>1 DEF SeenIn
    <2>3. t.out # <<>> => Known(t)
      BY <2>1 DEF SeenIn
    <2>4. StillTold(p, u, X, rest)
      BY <1>1, <1>3, <1>8, <2>1 DEF StillTold
    <2> QED BY <1>3, <1>5, <1>8, <2>1, <2>2, <2>3, <2>4
  <1>11. NeighInv'
    <2>1. shown \subseteq shown' /\ joined' = joined /\ family' = family /\ kind' = kind
      BY <1>5
    <2> QED BY <1>1, <1>3, <1>5, <1>6, <1>8, <1>9, <1>10, <2>1, StepInv
  <1> QED BY <1>7, <1>11

(* What a switch knows does not change while it only changes its stage. *)
LEMMA SameKnowledge ==
    ASSUME TypeOK, NeighInv, NEW p \in Peer, NEW t \in Switch, NEW out \in Seq(Msg), NEW rest,
           RestOf(rest, ch[p]), HasNeigh(ch[p]) => HasNeigh(rest),
           t.up = sw[p].up, Entries(t, sw[p]) \/ (t.list = sw[p].list /\ Tells(out, sw[p]) /\ t.out = <<>>),
           \A k \in 1..Len(out) : SaysDown(out[k]) => ~t.up,
           HasNeigh(out) => sw[p].out # <<>>
    PROVE  /\ kind = "l3" /\ family = "arp" /\ "down" \notin shown => StillFresh(p, t, out, rest)
           /\ Steady => StillTold(p, t, out, rest) /\ ((HasNeigh(out) \/ Known(sw[p])) => Known(t))
  <1> DEFINE q == Other(p)
  <1>0. /\ q \in Peer /\ Other(q) = p /\ ch[p] \in Seq(Msg) /\ sw[p] \in Switch
        /\ Known(sw[p]) <=> Known(t)
    BY TwoPeers DEF TypeOK, Entries, Known
  <1>1. ASSUME kind = "l3", family = "arp", "down" \notin shown PROVE StillFresh(p, t, out, rest)
    <2>1. ~t.up => NeverUp(p)
      BY <1>1 DEF NeighInv, L3Inv
    <2>2. ASSUME ~t.up, ~sw[q].up PROVE ~Known(t) /\ t.out = <<>> /\ ~HasNeigh(out)
      <3>1. ~Known(sw[p]) /\ sw[p].out = <<>>
        BY <2>1, <2>2 DEF NeverUp
      <3> QED BY <1>0, <3>1 DEF Entries
    <2>3. ASSUME ~t.up, NEW k \in 1..Len(rest), SaysDown(rest[k]) PROVE ~Known(t)
      <3> DEFINE c == ch[p]
      <3>0. c \in Seq(Msg) /\ RestOf(rest, c)
        BY <1>0
      <3> HIDE DEF c
      <3>1. PICK d \in {0, 1} : \A n \in 1..Len(rest) : n + d \in 1..Len(c) /\ rest[n] = c[n + d]
        BY <3>0, RestSteps
      <3>2. k + d \in 1..Len(c) /\ SaysDown(c[k + d])
        BY <2>3, <3>1
      <3>3. ~Known(sw[p])
        BY <2>1, <2>3, <3>2 DEF NeverUp, c
      <3> QED BY <1>0, <3>3
    <2> QED BY <2>2, <2>3 DEF StillFresh
  <1>2. ASSUME Steady
        PROVE  StillTold(p, t, out, rest) /\ ((HasNeigh(out) \/ Known(sw[p])) => Known(t))
    <2>1. UnderWay(p) /\ UnderWay(q) /\ SeenIn(sw[p], shown)
      BY <1>0, <1>2, SwitchFacts
    <2>2. HasNeigh(out) => Known(sw[p])
      BY <2>1 DEF SeenIn
    <2>3. /\ t.list.op = "ADD" => sw[p].list.op = "ADD" \/ t.out # <<>>
          /\ sw[p].out # <<>> => t.out # <<>> \/ HasNeigh(out)
      BY DEF Entries, Tells
    <2> QED BY <1>0, <2>1, <2>2, <2>3 DEF StillTold, UnderWay
  <1> QED BY <1>1, <1>2

(* The stage changes, and mlacp_peer_conn_handler looks at the interface. *)
LEMMA ConnectedOk ==
    ASSUME NEW s \in Switch, kind \in {"vlan", "l3"}
    PROVE  LET t == Connected(s)
           IN  /\ t \in Switch /\ t.up = s.up /\ t.list = s.list /\ t.out = s.out
               /\ \A S : Keeps(t, s, S)
  <1> DEFINE r == [s EXCEPT !.state = "EXCHANGE"]
             t == PoState(r, s.up)
  <1>1. /\ r \in Switch /\ r.up = s.up /\ r.list = s.list /\ r.out = s.out /\ r.kern = s.kern
        /\ r.note = s.note /\ s.up \in BOOLEAN
    BY DEF Switch, State
  <1> HIDE DEF r
  <1>2. /\ t \in Switch /\ t.up = s.up /\ t.list = s.list /\ t.out = s.out
        /\ \A S : Keeps(t, r, S)
    BY <1>1, PoStateOk DEF KernOnly
  <1>3. (Calm(s) <=> Calm(r)) /\ \A S : Keeps(r, s, S)
    <2>1. Calm(s) <=> Calm(r)
      BY <1>1 DEF Calm
    <2> QED BY <1>1, <2>1, OtherFields DEF Keeps, Sound
  <1>4. \A S : Keeps(t, s, S)
    BY <1>2, <1>3, KeepsAgain
  <1> QED BY <1>2, <1>4 DEF Connected, r

(* The consequences of Keeps for the switch that takes the turn. *)
LEMMA KeptTurn ==
    ASSUME TypeOK, NeighInv, NEW p \in Peer, NEW t,
           LastNote(t), "down" \notin shown => Keeps(t, sw[p], shown)
    PROVE  /\ "down" \notin shown /\ (family = "arp" \/ Steady) => Sound(t)
           /\ Steady => SeenIn(t, shown) /\ NeighsIn(<<>>, shown)
  <1>1. NeighsIn(<<>>, shown)
    BY DEF NeighsIn
  <1> QED BY <1>1, SwitchFacts DEF Keeps

(* A turn that keeps what the switch knows. *)
LEMMA TurnKept ==
    ASSUME TypeOK, NeighInv, NEW p \in Peer, NEW t \in Switch, NEW out \in Seq(Msg), NEW rest,
           EndTurn(p, t, out, rest), RestOf(rest, ch[p]), HasNeigh(ch[p]) => HasNeigh(rest),
           t.up = sw[p].up, LastNote(t), "down" \notin shown => Keeps(t, sw[p], shown),
           \/ Entries(t, sw[p]) /\ out = <<>>
           \/ t.list = sw[p].list /\ Tells(out, sw[p]) /\ t.out = <<>>
    PROVE  TypeOK' /\ NeighInv'
  <1>1. /\ Entries(t, sw[p]) \/ (t.list = sw[p].list /\ Tells(out, sw[p]) /\ t.out = <<>>)
        /\ \A k \in 1..Len(out) : SaysDown(out[k]) => ~t.up
        /\ HasNeigh(out) => sw[p].out # <<>>
    <2>1. CASE Entries(t, sw[p]) /\ out = <<>>
      BY <2>1 DEF HasNeigh
    <2>2. CASE t.list = sw[p].list /\ Tells(out, sw[p]) /\ t.out = <<>>
      BY <2>2 DEF Tells
    <2> QED BY <2>1, <2>2
  <1>2. /\ kind = "l3" /\ family = "arp" /\ "down" \notin shown => StillFresh(p, t, out, rest)
        /\ Steady => StillTold(p, t, out, rest) /\ ((HasNeigh(out) \/ Known(sw[p])) => Known(t))
    BY <1>1, SameKnowledge
  <1>3. /\ "down" \notin shown /\ (family = "arp" \/ Steady) => Sound(t)
        /\ Steady => SeenIn(t, shown) /\ NeighsIn(<<>>, shown)
    BY KeptTurn
  <1>4. Steady => NeighsIn(out, shown)
    BY <1>3, SwitchFacts DEF Tells
  <1> QED BY <1>2, <1>3, <1>4, TurnStep

LEMMA FlushedOk ==
    ASSUME NEW s \in Switch
    PROVE  LET t == Flushed(s)
           IN  /\ t \in Switch /\ t.up = s.up /\ t.list = s.list /\ t.out = <<>>
               /\ t.kern = s.kern /\ t.note = s.note
               /\ \A S : Keeps(t, s, S)
  <1> DEFINE t == Flushed(s)
  <1>1. /\ t \in Switch /\ t.up = s.up /\ t.list = s.list /\ t.out = <<>>
        /\ t.kern = s.kern /\ t.note = s.note
    <2>1. t = [s EXCEPT !.changed = FALSE, !.out = <<>>] /\ <<>> \in Seq(Item)
      BY DEF Flushed
    <2> QED BY <2>1 DEF Switch
  <1> HIDE DEF t
  <1>2. /\ LastNote(s) => LastNote(t)
        /\ Sound(s) => Sound(t)
        /\ Known(s) <=> Known(t)
        /\ \A S : SeenIn(s, S) => SeenIn(t, S)
    BY <1>1 DEF LastNote, Sound, ListFollows, Calm, Known, SeenIn
  <1>3. \A S : Keeps(t, s, S)
    BY <1>2 DEF Keeps
  <1> QED BY <1>1, <1>3 DEF t

LEMMA SendInfoStep ==
    ASSUME TypeOK, NeighInv, NEW p \in Peer, SendInfo(p)
    PROVE  TypeOK' /\ NeighInv'
  <1> DEFINE s == sw[p]
             f == Flushed(s)
             t == Informed(p, s)
  <1>1. s \in Switch /\ kind \in {"vlan", "l3"} /\ LastNote(s)
    BY SwitchFacts
  <1>2. EndTurn(p, t, Info(s), ch[p])
    BY DEF SendInfo
  <1>3. Tells(Info(s), s) /\ Info(s) \in Seq(Msg)
    BY <1>1, InfoOk DEF Tells
  <1> HIDE DEF s
  <1>4. /\ f \in Switch /\ f.up = s.up /\ f.list = s.list /\ f.out = <<>>
        /\ \A S : Keeps(f, s, S)
    BY <1>1, FlushedOk
  <1> HIDE DEF f
  <1>5. /\ t \in Switch /\ t.up = s.up /\ t.list = s.list /\ t.out = <<>>
        /\ \A S : Keeps(t, s, S)
    <2>1. CASE p = Active
      <3>1. t = [f EXCEPT !.state = "STAGE2"]
        BY <2>1 DEF Informed, f
      <3>2. /\ t \in Switch /\ t.up = f.up /\ t.list = f.list /\ t.out = f.out
            /\ t.kern = f.kern /\ t.note = f.note
        BY <1>4, <3>1 DEF Switch, State
      <3> HIDE DEF t
      <3>3. Calm(f) <=> Calm(t)
        BY <3>2 DEF Calm
      <3>4. \A S : Keeps(t, f, S)
        BY <3>2, <3>3, OtherFields DEF Keeps, Sound
      <3> QED BY <1>4, <3>2, <3>4, KeepsAgain
    <2>2. CASE p # Active
      <3>1. t = Connected(f)
        BY <2>2 DEF Informed, f
      <3> HIDE DEF t
      <3>2. /\ t \in Switch /\ t.up = f.up /\ t.list = f.list /\ t.out = f.out
            /\ \A S : Keeps(t, f, S)
        BY <1>1, <1>4, <3>1, ConnectedOk
      <3> QED BY <1>4, <3>2, KeepsAgain
    <2> QED BY <2>1, <2>2
  <1> HIDE DEF t
  <1>6. LastNote(t)
    BY <1>1, <1>5 DEF Keeps
  <1>7. RestOf(ch[p], ch[p])
    BY DEF RestOf
  <1> QED BY <1>2, <1>3, <1>5, <1>6, <1>7, TurnKept DEF s

LEMMA FlushStep ==
    ASSUME TypeOK, NeighInv, NEW p \in Peer, Flush(p)
    PROVE  TypeOK' /\ NeighInv'
  <1>1. sw[p] \in Switch /\ LastNote(sw[p]) /\ <<>> \in Seq(Msg)
    BY SwitchFacts
  <1>2. EndTurn(p, sw[p], <<>>, ch[p]) /\ RestOf(ch[p], ch[p])
    BY DEF Flush, RestOf
  <1>3. Keeps(sw[p], sw[p], shown) /\ Entries(sw[p], sw[p])
    BY DEF Keeps, Entries
  <1> QED BY <1>1, <1>2, <1>3, TurnKept

(* Entries of the peer are read. *)
LEMMA ReceiveNeigh ==
    ASSUME TypeOK, NeighInv, NEW p \in Peer, Receive(p), Head(ch[p]).type = "NEIGH"
    PROVE  TypeOK' /\ NeighInv'
  <1> DEFINE q == Other(p)
             s == sw[p]
             c == ch[p]
             items == Head(c).items
             t == FromPeers(s, items)
  <1>0. /\ q \in Peer /\ Other(q) = p /\ s \in Switch /\ c \in Seq(Msg) /\ c # <<>>
        /\ kind \in {"vlan", "l3"} /\ family \in {"arp", "nd"} /\ LastNote(s)
    BY TwoPeers, SwitchFacts DEF Receive
  <1>1. EndTurn(p, t, <<>>, Tail(c)) /\ RestOf(Tail(c), c)
    BY <1>0 DEF Receive, Received, RestOf
  <1>2. /\ Tail(c) \in Seq(Msg) /\ Head(c) \in Msg /\ Head(c) = c[1] /\ 1 \in 1..Len(c)
        /\ Len(c) \in Nat /\ Len(Tail(c)) = Len(c) - 1
        /\ \A n \in 1..Len(Tail(c)) : Tail(c)[n] = c[n + 1]
    BY <1>0, TailSteps
  <1>3. items \in Seq(Item) /\ HasNeigh(c)
    <2>1. items \in Seq(Item)
      BY <1>2 DEF Msg
    <2>2. HasNeigh(c)
      BY <1>2 DEF HasNeigh
    <2> QED BY <2>1, <2>2
  <1>4. /\ Fields(t, s) /\ LastNote(t)
        /\ family = "arp" /\ Sound(s) => Sound(t)
        /\ \A S : /\ One(S) /\ SeenIn(s, S) /\ Sound(s) /\ items # <<>>
                  /\ \A n \in 1..Len(items) : items[n] \in Adds(S)
                  => SeenIn(t, S) /\ Sound(t) /\ Known(t)
    BY <1>0, <1>3, FromPeersOk
  <1> HIDE DEF t
  <1>5. ASSUME Steady
        PROVE  SeenIn(t, shown) /\ Sound(t) /\ Known(t) /\ Known(sw[q])
    <2>1. /\ One(shown) /\ SeenIn(s, shown) /\ Sound(s) /\ NeighsIn(c, shown)
          /\ ToldIsKnown(q)
      BY <1>0, <1>5, SwitchFacts
    <2>2. items # <<>> /\ \A n \in 1..Len(items) : items[n] \in Adds(shown)
      BY <1>2, <2>1 DEF NeighsIn
    <2>3. Known(sw[q])
      BY <1>0, <1>3, <2>1 DEF ToldIsKnown
    <2> QED BY <1>4, <2>1, <2>2, <2>3
  <1>6. "down" \notin shown /\ (family = "arp" \/ Steady) => Sound(t)
    BY <1>4, <1>5, SwitchFacts
  <1>7. ASSUME kind = "l3", family = "arp", "down" \notin shown
        PROVE  StillFresh(p, t, <<>>, Tail(c))
    <2>1. t.up = s.up
      BY <1>4 DEF Fields
    <2>2. ASSUME ~t.up PROVE NeverUp(p)
      BY <1>7, <2>1, <2>2 DEF NeighInv, L3Inv
    <2>3. ~t.up => sw[q].up
      BY <1>3, <2>2 DEF NeverUp
    <2>4. ASSUME ~t.up, NEW k \in 1..Len(Tail(c)), SaysDown(Tail(c)[k]) PROVE FALSE
      <3>1. k + 1 \in 1..Len(c) /\ SaysDown(c[k + 1]) /\ 1 \in 1..(k + 1)
        BY <1>2, <2>4
      <3>2. c[1].type # "NEIGH"
        BY <2>2, <2>4, <3>1 DEF NeverUp
      <3> QED BY <1>2, <3>2
    <2>5. \A k \in 1..Len(<<>>) : SaysDown(<<>>[k]) => ~t.up
      OBVIOUS
    <2>6. ~t.up /\ (\E k \in 1..Len(Tail(c)) : SaysDown(Tail(c)[k])) => ~Known(t)
      BY <2>4
    <2> HIDE DEF c
    <2> QED BY <2>1, <2>3, <2>5, <2>6 DEF StillFresh
  <1>8. <<>> \in Seq(Msg) /\ ~HasNeigh(<<>>) /\ NeighsIn(<<>>, shown)
    BY DEF HasNeigh, NeighsIn
  <1>9. Steady => StillTold(p, t, <<>>, Tail(c))
    BY <1>5 DEF StillTold
  <1> QED BY <1>1, <1>4, <1>5, <1>6, <1>7, <1>8, <1>9, TurnStep DEF Fields

LEMMA ReceiveStep ==
    ASSUME TypeOK, NeighInv, NEW p \in Peer, Receive(p)
    PROVE  TypeOK' /\ NeighInv'
  <1> DEFINE s == sw[p]
             c == ch[p]
             m == Head(c)
             t == Received(p, s, m)
  <1>0. /\ s \in Switch /\ c \in Seq(Msg) /\ c # <<>>
        /\ kind \in {"vlan", "l3"} /\ LastNote(s)
    BY SwitchFacts DEF Receive
  <1>1. EndTurn(p, t, <<>>, Tail(c)) /\ RestOf(Tail(c), c)
    BY <1>0 DEF Receive, RestOf
  <1>2. /\ m \in Msg /\ m = c[1] /\ 1 \in 1..Len(c) /\ Len(c) \in Nat /\ Len(Tail(c)) = Len(c) - 1
        /\ \A n \in 1..Len(Tail(c)) : Tail(c)[n] = c[n + 1]
    BY <1>0, TailSteps
  <1>3. CASE m.type = "NEIGH"
    BY <1>3, ReceiveNeigh
  <1>4. ASSUME m.type # "NEIGH" PROVE HasNeigh(c) => HasNeigh(Tail(c))
    <2> SUFFICES ASSUME NEW n \in 1..Len(c), c[n].type = "NEIGH" PROVE HasNeigh(Tail(c))
      BY DEF HasNeigh
    <2>1. n # 1
      BY <1>2, <1>4
    <2>2. n - 1 \in 1..Len(Tail(c)) /\ Tail(c)[n - 1] = c[n]
      BY <1>2, <2>1
    <2> QED BY <2>2 DEF HasNeigh
  <1>5. <<>> \in Seq(Msg)
    OBVIOUS
  <1> HIDE DEF c, m
  <1>6. CASE m.type = "DONE"
    <2>1. /\ t \in Switch /\ t.up = s.up /\ t.list = s.list /\ t.out = s.out
          /\ \A S : Keeps(t, s, S)
      <3>1. CASE p = Standby
        <4>1. t = [s EXCEPT !.state = "STAGE2"]
          BY <1>6, <3>1 DEF Received
        <4>2. /\ t \in Switch /\ t.up = s.up /\ t.list = s.list /\ t.out = s.out
              /\ t.kern = s.kern /\ t.note = s.note
          BY <1>0, <4>1 DEF Switch, State
        <4> HIDE DEF t, s
        <4>3. Calm(s) <=> Calm(t)
          BY <4>2 DEF Calm
        <4>4. \A S : Keeps(t, s, S)
          BY <4>2, <4>3, OtherFields DEF Keeps, Sound
        <4> QED BY <4>2, <4>4
      <3>2. CASE p # Standby
        <4>1. t = Connected(s)
          BY <1>6, <3>2 DEF Received
        <4> QED BY <1>0, <4>1, ConnectedOk
      <3> QED BY <3>1, <3>2
    <2> HIDE DEF t
    <2>2. LastNote(t)
      BY <1>0, <2>1 DEF Keeps
    <2>3. Entries(t, s)
      BY <2>1 DEF Entries, Known
    <2>4. HasNeigh(c) => HasNeigh(Tail(c))
      BY <1>4, <1>6
    <2> QED BY <1>1, <1>5, <2>1, <2>2, <2>3, <2>4, TurnKept DEF c
  <1>7. CASE m.type \notin {"NEIGH", "DONE"}
    <2>1. m.up \in BOOLEAN /\ m.type \in {"INFO", "STATE"}
      BY <1>2, <1>7 DEF Msg
    <2>2. t = PeerInfo(s, m.up)
      BY <1>7 DEF Received
    <2>3. /\ Fields(t, s) /\ Entries(t, s) /\ LastNote(t)
          /\ Early(s, m.up) => \A S : Keeps(t, s, S)
      BY <1>0, <2>1, <2>2, PeerInfoOk
    <2> HIDE DEF t
    <2>4. ASSUME "down" \notin shown PROVE Keeps(t, s, shown)
      <3>1. ASSUME ~m.up, kind = "l3", family = "arp", ~s.up PROVE ~Known(s)
        <4>1. NeverUp(p)
          BY <2>4, <3>1 DEF NeighInv, L3Inv
        <4>2. SaysDown(c[1])
          BY <1>2, <2>1, <3>1 DEF SaysDown
        <4> QED BY <1>2, <4>1, <4>2 DEF NeverUp, c
      <3>2. Early(s, m.up)
        BY <3>1 DEF Early
      <3> QED BY <2>3, <3>2
    <2>5. HasNeigh(c) => HasNeigh(Tail(c))
      BY <1>4, <1>7
    <2> QED BY <1>1, <1>5, <2>3, <2>4, <2>5, TurnKept DEF c, Fields
  <1> QED BY <1>3, <1>6, <1>7

-----------------------------------------------------------------------------
(* The kernel, the wire and the interface. *)

LEMMA SpendOk ==
    ASSUME TypeOK, Spend
    PROVE  events' \in 0..MaxEvents
  BY BoundAssumption DEF TypeOK, Spend

LEMMA NotifiedStep ==
    ASSUME TypeOK, NeighInv, NEW p \in Peer, Notified(p)
    PROVE  TypeOK' /\ NeighInv'
  <1> DEFINE s == sw[p]
             u == FromKernel([s EXCEPT !.note = Tail(@)], Head(s.note))
  <1>1. /\ s \in Switch /\ s.note # <<>> /\ family \in {"arp", "nd"} /\ LastNote(s)
    BY SwitchFacts DEF Notified
  <1>2. sw' = [sw EXCEPT ![p] = u] /\ UNCHANGED <<family, kind, joined, ch, shown, events>>
    BY DEF Notified
  <1>3. /\ Fields(u, s) /\ \A S : Keeps(u, s, S)
        /\ u.list.op = "ADD" => s.list.op = "ADD"
        /\ s.out # <<>> => u.out # <<>>
    BY <1>1, NotifiedOk
  <1> HIDE DEF u
  <1>4. LastNote(u) /\ u \in Switch /\ u.up = s.up
    BY <1>1, <1>3 DEF Keeps, Fields
  <1>5. ASSUME family = "arp", kind = "l3", "down" \notin shown, ~u.up PROVE FALSE
    BY <1>1, <1>4, <1>5 DEF NeighInv, L3Inv, NeverUp
  <1>6. /\ shown \subseteq shown' /\ shown' \subseteq Mac \cup {"none", "down"} /\ shown' = shown
        /\ events' \in 0..MaxEvents
    BY <1>2 DEF TypeOK
  <1> QED BY <1>2, <1>3, <1>4, <1>5, <1>6, LocalStep

LEMMA LearnStep ==
    ASSUME TypeOK, NeighInv, NEW p \in Peer, NEW m \in Mac \cup {"none"}, Learn(p, m)
    PROVE  TypeOK' /\ NeighInv'
  <1> DEFINE s == sw[p]
             u == IF m = "none" THEN KernDel(s) ELSE KernAdd(s, m)
  <1>1. s \in Switch /\ LastNote(s) /\ s.kern # m /\ (m # "none" /\ kind = "l3" => s.up)
    BY SwitchFacts DEF Learn
  <1>2. sw' = [sw EXCEPT ![p] = u] /\ shown' = shown \cup {m} /\ UNCHANGED <<family, kind, joined, ch>>
    BY DEF Learn, TypeOK
  <1>3. Fields(u, s) /\ u.list = s.list /\ u.out = s.out /\ \A S : m \in S => Keeps(u, s, S)
    BY <1>1, LearnOk
  <1> HIDE DEF u
  <1>4. LastNote(u) /\ u \in Switch /\ u.up = s.up /\ Keeps(u, s, shown')
    <2>1. Keeps(u, s, shown')
      BY <1>2, <1>3
    <2> QED BY <1>1, <1>3, <2>1 DEF Keeps, Fields
  <1>5. /\ shown \subseteq shown' /\ shown' \subseteq Mac \cup {"none", "down"}
        /\ events' \in 0..MaxEvents
    BY <1>2, SpendOk DEF TypeOK, Learn
  <1> QED BY <1>2, <1>3, <1>4, <1>5, LocalStep

LEMMA ReplyStep ==
    ASSUME TypeOK, NeighInv, NEW p \in Peer, NEW m \in Mac \cup {"none"}, Reply(p, m)
    PROVE  TypeOK' /\ NeighInv'
  <1> DEFINE s == sw[p]
             k == IF s.kern = "none" \/ m = "none" THEN s ELSE KernAdd(s, m)
             u == FromReply(k, m)
  <1>1. /\ s \in Switch /\ LastNote(s) /\ family \in {"arp", "nd"}
        /\ (kind = "l3" => s.up) /\ (m = "none" => family = "nd")
    BY SwitchFacts DEF Reply
  <1>2. /\ sw' = [sw EXCEPT ![p] = u] /\ shown' = shown \cup ({m} \ {"none"})
        /\ UNCHANGED <<family, kind, joined, ch>>
    BY DEF Reply
  <1>3. /\ Fields(u, s) /\ (\A S : (m # "none" => m \in S) => Keeps(u, s, S))
        /\ u.list.op = "ADD" => s.list.op = "ADD"
        /\ s.out # <<>> => u.out # <<>>
    BY <1>1, ReplyOk
  <1> HIDE DEF u
  <1>4. LastNote(u) /\ u \in Switch /\ u.up = s.up /\ Keeps(u, s, shown')
    <2>1. Keeps(u, s, shown')
      BY <1>2, <1>3
    <2> QED BY <1>1, <1>3, <2>1 DEF Keeps, Fields
  <1>5. /\ shown \subseteq shown' /\ shown' \subseteq Mac \cup {"none", "down"}
        /\ events' \in 0..MaxEvents
    BY <1>2, SpendOk DEF TypeOK, Reply
  <1>6. kind = "l3" => u.up
    BY <1>1, <1>4
  <1> HIDE DEF k
  <1> QED BY <1>2, <1>3, <1>4, <1>5, <1>6, LocalStep

LEMMA RefreshStep ==
    ASSUME TypeOK, NeighInv, NEW p \in Peer, Refresh(p)
    PROVE  TypeOK' /\ NeighInv'
  <1> DEFINE s == sw[p]
             u == [s EXCEPT !.note = Append(@, s.kern)]
  <1>1. s \in Switch /\ LastNote(s) /\ s.kern # "none"
    BY SwitchFacts DEF Refresh
  <1>2. sw' = [sw EXCEPT ![p] = u] /\ shown' = shown /\ UNCHANGED <<family, kind, joined, ch>>
    BY DEF Refresh, TypeOK
  <1>3. Fields(u, s) /\ u.list = s.list /\ u.out = s.out /\ \A S : Keeps(u, s, S)
    BY <1>1, RefreshOk
  <1> HIDE DEF u
  <1>4. LastNote(u) /\ u \in Switch /\ u.up = s.up
    BY <1>1, <1>3 DEF Keeps, Fields
  <1>5. /\ shown \subseteq shown' /\ shown' \subseteq Mac \cup {"none", "down"}
        /\ events' \in 0..MaxEvents
    BY <1>2, SpendOk DEF TypeOK, Refresh
  <1> QED BY <1>2, <1>3, <1>4, <1>5, LocalStep

LEMMA PoLinkStep ==
    ASSUME TypeOK, NeighInv, NEW p \in Peer, NEW flush \in BOOLEAN, PoLink(p, flush)
    PROVE  TypeOK' /\ NeighInv'
  <1> DEFINE s == sw[p]
             k == IF flush THEN KernDel(s) ELSE s
             u == PoState(k, ~s.up)
  <1>1. /\ s \in Switch /\ s.up \in BOOLEAN /\ LastNote(s) /\ kind \in {"vlan", "l3"}
        /\ flush => kind = "l3" /\ s.up
    BY SwitchFacts DEF PoLink, Switch
  <1>2. /\ sw' = [sw EXCEPT ![p] = u] /\ UNCHANGED <<family, kind, joined, ch>>
        /\ shown' = IF kind = "l3" /\ s.up THEN shown \cup {"down"} ELSE shown
    BY DEF PoLink, TypeOK
  <1>3. k \in Switch /\ LastNote(k) /\ k.list = s.list /\ k.out = s.out /\ (~flush => k = s)
    BY <1>1, KernDelOk DEF Fields
  <1> HIDE DEF k
  <1>4. /\ KernOnly(u, k) /\ u.up = ~s.up
        /\ ~(kind = "l3" /\ k.up /\ s.up) => \A S : Keeps(u, k, S)
    BY <1>1, <1>3, PoStateOk
  <1> HIDE DEF u
  <1>5. LastNote(u) /\ u \in Switch /\ u.list = s.list /\ u.out = s.out
    BY <1>3, <1>4 DEF KernOnly
  <1>6. ASSUME "down" \notin shown'
        PROVE  Keeps(u, s, shown') /\ (kind = "l3" => (s.up => u.up))
    <2>1. ~(kind = "l3" /\ s.up)
      BY <1>2, <1>6
    <2>2. k = s
      BY <1>1, <1>3, <2>1
    <2> QED BY <1>4, <2>1, <2>2
  <1>7. /\ shown \subseteq shown' /\ shown' \subseteq Mac \cup {"none", "down"}
        /\ events' \in 0..MaxEvents
    BY <1>2, SpendOk DEF TypeOK, PoLink
  <1> QED BY <1>2, <1>5, <1>6, <1>7, LocalStep

-----------------------------------------------------------------------------
(* The session. *)

LEMMA LeaveStep ==
    ASSUME TypeOK, NeighInv, NEW p \in Peer, Leave(p)
    PROVE  TypeOK' /\ NeighInv'
  <1> DEFINE q == Other(p)
             s == sw[p]
             u == Disconnected(s)
  <1>0. /\ q \in Peer /\ q # p /\ Other(q) = p /\ Peer = {p, q} /\ s \in Switch
    BY TwoPeers, SwitchFacts
  <1>1. /\ joined' = [joined EXCEPT ![p] = FALSE] /\ sw' = [sw EXCEPT ![p] = u]
        /\ ch' = [ch EXCEPT ![p] = <<>>] /\ UNCHANGED <<family, kind, shown>>
    BY DEF Leave, TypeOK
  <1>2. /\ u \in Switch /\ u.list = s.list /\ u.kern = s.kern /\ u.note = s.note /\ u.out = <<>>
        /\ u.up = s.up
    <2>1. u = [s EXCEPT !.state = "INIT", !.out = <<>>, !.pif = "none"] /\ <<>> \in Seq(Item)
      BY DEF Disconnected
    <2> QED BY <1>0, <2>1 DEF Switch, State
  <1> HIDE DEF u
  <1>3. TypeOK'
    <2>1. events' \in 0..MaxEvents
      BY SpendOk DEF Leave, TypeOK
    <2>2. <<>> \in Seq(Msg)
      OBVIOUS
    <2> QED BY <1>1, <1>2, <2>1, <2>2 DEF TypeOK
  <1>4. /\ sw'[p] = u /\ sw'[q] = sw[q] /\ ch'[p] = <<>> /\ ch'[q] = ch[q] /\ ~joined'[p]
        /\ (Known(u) <=> Known(s)) /\ (Steady' <=> Steady)
    BY <1>0, <1>1, <1>2 DEF TypeOK, Known, Steady
  <1>5. (\A r \in Peer : LastNote(sw[r]))'
    BY <1>0, <1>2, <1>4 DEF NeighInv, LastNote
  <1>6. ("down" \notin shown /\ (family = "arp" \/ Steady) => \A r \in Peer : ListFollows(sw[r]))'
    BY <1>0, <1>1, <1>2, <1>4 DEF NeighInv, ListFollows
  <1>7. L3Inv'
    <2> SUFFICES ASSUME family = "arp", kind = "l3", "down" \notin shown, NEW r \in Peer, ~sw'[r].up
                 PROVE  NeverUp(r)'
      BY <1>1 DEF L3Inv
    <2>1. \A v \in Peer : ~sw[v].up => NeverUp(v)
      BY DEF NeighInv, L3Inv
    <2>2. ~HasNeigh(<<>>) /\ Len(<<>>) = 0
      BY DEF HasNeigh
    <2>3. CASE r = p
      <3>1. NeverUp(p)
        BY <1>0, <1>2, <1>4, <2>1, <2>3
      <3> QED BY <1>0, <1>2, <1>4, <2>2, <2>3, <3>1 DEF NeverUp
    <2>4. CASE r = q
      <3>1. NeverUp(q)
        BY <1>0, <1>4, <2>1, <2>4
      <3> QED BY <1>0, <1>2, <1>4, <2>4, <3>1 DEF NeverUp
    <2> QED BY <1>0, <2>3, <2>4
  <1>8. ASSUME Steady', NEW r \in Peer PROVE ToldIsKnown(r)' /\ UnderWay(r)'
    <2>1. ToldIsKnown(p) /\ ToldIsKnown(q)
      BY <1>0, <1>4, <1>8 DEF NeighInv
    <2>2. ToldIsKnown(p)'
      <3>1. Len(<<>>) = 0
        OBVIOUS
      <3> QED BY <1>0, <1>1, <1>2, <1>4, <2>1, <3>1 DEF ToldIsKnown, Addition
    <2>3. ToldIsKnown(q)'
      <3>1. ~HasNeigh(<<>>)
        BY DEF HasNeigh
      <3> QED BY <1>0, <1>1, <1>4, <2>1, <3>1 DEF ToldIsKnown, Addition
    <2>4. UnderWay(p)' /\ UnderWay(q)'
      BY <1>0, <1>4 DEF UnderWay
    <2> QED BY <1>0, <2>2, <2>3, <2>4
  <1> QED BY <1>3, <1>5, <1>6, <1>7, <1>8 DEF NeighInv

LEMMA JoinStep ==
    ASSUME TypeOK, NeighInv, Join
    PROVE  TypeOK' /\ NeighInv'
  <1>0. /\ joined' = [r \in Peer |-> TRUE] /\ sw' = [r \in Peer |-> Started(sw[r])]
        /\ UNCHANGED <<family, kind, ch, shown, events>>
    BY DEF Join
  <1>1. ASSUME NEW r \in Peer
        PROVE  LET s == sw[r]
                   u == sw'[r]
               IN  /\ s \in Switch /\ u \in Switch /\ u.up = s.up
                   /\ u.kern = s.kern /\ u.note = s.note /\ u.list.mac = s.list.mac
                   /\ Known(u) <=> Known(s)
                   /\ Known(s) => u.out # <<>>
                   /\ ~Known(s) => u.out = s.out
                   /\ \A S : One(S) /\ SeenIn(s, S) => SeenIn(u, S)
    <2> DEFINE s == sw[r]
               t == Resent(s)
               u == sw'[r]
    <2>1. s \in Switch /\ u = [t EXCEPT !.state = "STAGE1"]
      BY <1>0, SwitchFacts DEF Started
    <2>2. /\ Fields(t, s) /\ t.kern = s.kern /\ t.note = s.note
          /\ t.list.mac = s.list.mac
          /\ Known(s) => Known(t) /\ t.out # <<>>
          /\ ~Known(s) => t = s
          /\ \A S : One(S) /\ SeenIn(s, S) => SeenIn(t, S)
      BY <2>1, ResentOk
    <2> HIDE DEF t
    <2>3. /\ u \in Switch /\ u.list = t.list /\ u.out = t.out /\ u.kern = t.kern /\ u.note = t.note
          /\ u.up = t.up
      BY <2>1, <2>2 DEF Fields, Switch, State
    <2> HIDE DEF u, s
    <2>4. (Known(u) <=> Known(t)) /\ \A S : SeenIn(t, S) => SeenIn(u, S)
      BY <2>3, OtherFields
    <2>5. u.up = s.up /\ (Known(u) <=> Known(s))
      BY <2>2, <2>3, <2>4 DEF Fields
    <2> QED BY <2>1, <2>2, <2>3, <2>4, <2>5 DEF u, s
  <1>2. TypeOK'
    BY <1>0, <1>1 DEF TypeOK
  <1>3. (\A r \in Peer : LastNote(sw[r]))'
    BY <1>1 DEF NeighInv, LastNote
  <1>4. ("down" \notin shown /\ (family = "arp" \/ Steady) => \A r \in Peer : ListFollows(sw[r]))'
    BY <1>0, <1>1 DEF NeighInv, ListFollows, Steady
  <1>5. L3Inv'
    <2> SUFFICES ASSUME family = "arp", kind = "l3", "down" \notin shown, NEW r \in Peer, ~sw'[r].up
                 PROVE  NeverUp(r)'
      BY <1>0 DEF L3Inv
    <2>1. NeverUp(r) /\ Other(r) \in Peer
      BY <1>1, TwoPeers DEF NeighInv, L3Inv
    <2> QED BY <1>0, <1>1, <2>1 DEF NeverUp
  <1>6. ASSUME Steady', NEW r \in Peer PROVE ToldIsKnown(r)' /\ UnderWay(r)'
    <2>0. Steady /\ Other(r) \in Peer
      BY <1>0, <1>6, TwoPeers DEF Steady
    <2>1. /\ One(shown) /\ SeenIn(sw[r], shown) /\ NeighsIn(ch[r], shown) /\ ToldIsKnown(r)
      BY <2>0, SwitchFacts
    <2>2. SeenIn(sw'[r], shown) /\ (HasNeigh(ch[Other(r)]) => Known(sw'[r]))
      BY <1>1, <2>1 DEF ToldIsKnown
    <2>3. ToldIsKnown(r)'
      BY <1>0, <2>1, <2>2 DEF ToldIsKnown, Addition, SeenIn, NeighsIn, Adds
    <2>4. UnderWay(r)'
      <3>1. sw'[r].list.op = "ADD" => sw'[r].out # <<>>
        BY <1>1, EntryMac
      <3> QED BY <3>1 DEF UnderWay
    <2> QED BY <2>3, <2>4
  <1> QED BY <1>2, <1>3, <1>4, <1>5, <1>6 DEF NeighInv

-----------------------------------------------------------------------------
(* The invariant. *)

LEMMA NeighInit ==
    ASSUME Init
    PROVE  TypeOK /\ NeighInv
  <1>1. PICK up \in [Peer -> BOOLEAN] :
             sw = [p \in Peer |->
                   [state |-> "INIT", list |-> NoEntry, kern |-> "none", note |-> <<>>,
                    out |-> <<>>, up |-> up[p], pif |-> "none", changed |-> TRUE,
                    seen |-> "INIT"]]
    BY DEF Init
  <1>2. /\ family \in Families /\ kind \in Kinds /\ joined = [p \in Peer |-> FALSE]
        /\ ch = [p \in Peer |-> <<>>] /\ shown = {} /\ events = 0
    BY DEF Init
  <1>3. /\ <<>> \in Seq(Item) /\ <<>> \in Seq(Mac \cup {"none"}) /\ <<>> \in Seq(Msg)
        /\ Len(<<>>) = 0
    OBVIOUS
  <1>4. ASSUME NEW p \in Peer
        PROVE  /\ sw[p] \in Switch /\ sw[p].list = NoEntry /\ sw[p].kern = "none"
               /\ sw[p].note = <<>> /\ sw[p].out = <<>> /\ ch[p] = <<>> /\ ~joined[p]
    BY <1>1, <1>2, <1>3 DEF Switch, State
  <1>5. TypeOK
    <2>1. sw \in [Peer -> Switch]
      BY <1>1, <1>4
    <2>2. events \in 0..MaxEvents
      BY <1>2, BoundAssumption
    <2>3. joined \in [Peer -> BOOLEAN] /\ ch \in [Peer -> Seq(Msg)]
      BY <1>2, <1>3
    <2> QED BY <1>2, <2>1, <2>2, <2>3 DEF TypeOK
  <1>6. /\ \A p \in Peer : LastNote(sw[p]) /\ ListFollows(sw[p])
    BY <1>4 DEF LastNote, ListFollows
  <1>7. L3Inv
    <2>1. \A p \in Peer : NeverUp(p)
      BY <1>3, <1>4, TwoPeers DEF NeverUp, HasNeigh, Known
    <2> QED BY <2>1 DEF L3Inv
  <1>8. ASSUME NEW p \in Peer PROVE ToldIsKnown(p) /\ UnderWay(p)
    <2>1. ch[Other(p)] = <<>> /\ ~HasNeigh(<<>>)
      BY <1>4, TwoPeers DEF HasNeigh
    <2> QED BY <1>3, <1>4, <2>1 DEF ToldIsKnown, UnderWay, NoEntry
  <1> QED BY <1>5, <1>6, <1>7, <1>8 DEF NeighInv

LEMMA NeighStep ==
    ASSUME TypeOK, NeighInv, [Next]_vars
    PROVE  TypeOK' /\ NeighInv'
  <1>1. CASE UNCHANGED vars
    <2>1. /\ family' = family /\ kind' = kind /\ joined' = joined /\ sw' = sw /\ ch' = ch
          /\ shown' = shown /\ events' = events
      BY <1>1 DEF vars
    <2>2. TypeOK'
      BY <2>1 DEF TypeOK
    <2>3. (Steady' <=> Steady) /\ L3Inv'
      BY <2>1 DEF NeighInv, Steady, L3Inv, NeverUp
    <2>4. ASSUME NEW p \in Peer, Steady PROVE ToldIsKnown(p)' /\ UnderWay(p)'
      BY <2>1, <2>4 DEF NeighInv, ToldIsKnown, Addition, UnderWay
    <2>5. NeighInv'
      BY <2>1, <2>3, <2>4 DEF NeighInv
    <2> QED BY <2>2, <2>5
  <1>2. CASE Join
    BY <1>2, JoinStep
  <1>3. ASSUME NEW p \in Peer, SendInfo(p) \/ Receive(p) \/ Flush(p) \/ Notified(p)
        PROVE  TypeOK' /\ NeighInv'
    BY <1>3, SendInfoStep, ReceiveStep, FlushStep, NotifiedStep
  <1>4. ASSUME NEW p \in Peer, Leave(p) \/ Refresh(p)
        PROVE  TypeOK' /\ NeighInv'
    BY <1>4, LeaveStep, RefreshStep
  <1>5. ASSUME NEW p \in Peer, NEW m \in Mac \cup {"none"}, Learn(p, m) \/ Reply(p, m)
        PROVE  TypeOK' /\ NeighInv'
    BY <1>5, LearnStep, ReplyStep
  <1>6. ASSUME NEW p \in Peer, NEW flush \in BOOLEAN, PoLink(p, flush)
        PROVE  TypeOK' /\ NeighInv'
    BY <1>6, PoLinkStep
  <1> QED BY <1>1, <1>2, <1>3, <1>4, <1>5, <1>6 DEF Next

-----------------------------------------------------------------------------
(* Every queue, list entry, message and interface state of the ARP and ND    *)
(* synchronisation stays what the code can represent, for any number of      *)
(* addresses and events: in particular a deletion carries no address, and an *)
(* addition one (mlacp_sync_send_syncArpInfo, mlacp_fsm_update_arp_entry).   *)
THEOREM NeighTypeCorrect == Spec => []TypeOK
  <1>1. Init => TypeOK /\ NeighInv
    BY NeighInit
  <1>2. TypeOK /\ NeighInv /\ [Next]_vars => (TypeOK /\ NeighInv)'
    BY NeighStep
  <1> QED BY <1>1, <1>2, PTL DEF Spec

(* The inductive invariant: the kernel's last notification decides what      *)
(* iccpd lists; the kernel behind an L3 port-channel that has never been up  *)
(* knows nobody, and what the peer says of its own port-channel being down   *)
(* comes before its entries; a neighbour that keeps its address is deleted   *)
(* nowhere, a switch that tells of it has it, and an entry that counts as    *)
(* synchronised is known to the peer or under way.                           *)
THEOREM NeighInvariant == Spec => []NeighInv
  <1>1. Init => TypeOK /\ NeighInv
    BY NeighInit
  <1>2. TypeOK /\ NeighInv /\ [Next]_vars => (TypeOK /\ NeighInv)'
    BY NeighStep
  <1> QED BY <1>1, <1>2, PTL DEF Spec

(* Once its notifications are read, iccpd has for the neighbour the address  *)
(* the kernel has, whichever of the kernel, a reply and the peer changed it  *)
(* last (do_arp_learn_from_kernel, do_arp_update_from_reply_packet,          *)
(* mlacp_fsm_update_arp_entry).                                              *)
THEOREM KernelIsFollowed == Spec => []KernelFollowed
  <1>1. NeighInv => KernelFollowed
    BY DEF NeighInv, KernelFollowed, ListFollows
  <1> QED BY <1>1, NeighInvariant, PTL

(* An entry that the peer told of or that was sent again is in the peer's    *)
(* list when nothing is under way, whatever sessions were lost in between    *)
(* (mlacp_resync_arp, syn_arp_info_to_peer).                                 *)
THEOREM PeerIsTold == Spec => []PeerKnows
  <1>1. TypeOK /\ NeighInv => PeerKnows
    <2> SUFFICES ASSUME TypeOK, NeighInv, Quiescent, Steady, NEW p \in Peer, sw[p].list.op = "ADD"
                 PROVE  sw[Other(p)].list.mac = sw[p].list.mac
      BY DEF PeerKnows
    <2> DEFINE q == Other(p)
    <2>1. /\ q \in Peer /\ Other(q) = p /\ sw[p] \in Switch /\ sw[q] \in Switch
          /\ joined[p] /\ joined[q] /\ ch[q] = <<>> /\ Pending(sw[p]) = <<>>
      BY TwoPeers, SwitchFacts DEF Quiescent
    <2>2. /\ UnderWay(p) /\ One(shown) /\ SeenIn(sw[p], shown) /\ SeenIn(sw[q], shown)
      BY <2>1, SwitchFacts
    <2>3. ~HasNeigh(<<>>)
      BY DEF HasNeigh
    <2>4. sw[p].out = <<>>
      <3>1. HasNeigh(Pending(sw[p])) <=> sw[p].out # <<>>
        BY <2>1, PendingOk DEF Tells
      <3> QED BY <2>1, <2>3, <3>1
    <2>5. Known(sw[p]) /\ Known(sw[q])
      BY <2>1, <2>2, <2>3, <2>4, EntryMac DEF UnderWay
    <2>6. sw[p].list.mac \in shown /\ sw[q].list.mac \in shown
      BY <2>1, <2>2, <2>5, EntryMac DEF SeenIn
    <2> QED BY <2>2, <2>6 DEF One
  <1> QED BY <1>1, NeighTypeCorrect, NeighInvariant, PTL

=============================================================================
