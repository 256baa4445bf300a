--------------------------- MODULE MacSyncProofs ---------------------------
(***************************************************************************)
(* Proofs about MacSync: type correctness, that an address never has both  *)
(* age flags, and that the chip never points to a dead port-channel while  *)
(* updates are exchanged.                                                  *)
(***************************************************************************)
EXTENDS MacSync, SequenceLemmas

(* What the operators on a switch leave alone. *)
Same(t, s) == t.kind = s.kind /\ t.haslink = s.haslink /\ t.state = s.state /\ t.up = s.up

Kept(t, s) == t \in Switch /\ Same(t, s)

-----------------------------------------------------------------------------
(* The entry, its queue and the chip. *)

LEMMA QueuedType ==
    ASSUME NEW s \in Switch, NEW op \in Op
    PROVE  Kept(Queued(s, op), s)
  BY DEF Kept, Same, Queued, Switch, Mac

LEMMA ChipType ==
    ASSUME NEW s \in Switch, NEW port \in Port \cup {"none"}
    PROVE  Kept(Chip(s, port), s)
  BY DEF Kept, Same, Chip, Switch

LEMMA AddToChipType ==
    ASSUME NEW s \in Switch
    PROVE  Kept(AddToChip(s), s)
  BY DEF Kept, Same, AddToChip, Chip, Switch, Mac

LEMMA NoMacType ==
    ASSUME NEW s \in Switch
    PROVE  NoMac \in Mac
  <1>1. s.kind \in Types
    BY DEF Switch
  <1>2. (CHOOSE t \in Types : TRUE) \in Types
    BY <1>1
  <1> QED BY <1>2 DEF NoMac, Mac, Port, HostPort, Op

LEMMA RemovedType ==
    ASSUME NEW s \in Switch
    PROVE  Kept(Removed(s), s)
  <1>1. NoMac \in Mac
    BY NoMacType
  <1>2. ItemOf(s.mac) \in Item
    BY DEF ItemOf, Item, Switch, Mac
  <1>3. s.detached \in Seq(Item) /\ Append(s.detached, ItemOf(s.mac)) \in Seq(Item)
    BY <1>2 DEF Switch
  <1> QED BY <1>1, <1>3 DEF Kept, Same, Removed, Switch

LEMMA DelFromChipType ==
    ASSUME NEW s \in Switch
    PROVE  Kept(DelFromChip(s), s)
  BY DEF Kept, Same, DelFromChip, Chip, Switch, Mac

LEMMA AddAgeingType ==
    ASSUME NEW s \in Switch
    PROVE  Kept(AddAgeing(s), s)
  BY DEF Kept, Same, AddAgeing, AddToChip, Chip, Switch, Mac

(* Entries and fields that are changed alone. *)
LEMMA EntryType ==
    ASSUME NEW s \in Switch, NEW m \in Mac
    PROVE  Kept([s EXCEPT !.mac = m], s)
  BY DEF Kept, Same, Switch

LEMMA FieldType ==
    ASSUME NEW s \in Switch
    PROVE  /\ \A i \in Port : Kept([s EXCEPT !.mac.ifname = i], s)
           /\ \A i \in HostPort : Kept([s EXCEPT !.mac.origin = i], s)
           /\ \A b \in BOOLEAN : /\ Kept([s EXCEPT !.mac.local = b], s)
                                 /\ Kept([s EXCEPT !.mac.peer = b], s)
                                 /\ Kept([s EXCEPT !.mac.pend = b], s)
                                 /\ Kept([s EXCEPT !.timer = b], s)
                                 /\ Kept([s EXCEPT !.changed = b], s)
           /\ \A op \in Op : Kept([s EXCEPT !.mac.op = op], s)
  <1>1. ASSUME NEW i \in Port PROVE Kept([s EXCEPT !.mac.ifname = i], s)
    BY DEF Kept, Same, Switch, Mac
  <1>2. ASSUME NEW i \in HostPort PROVE Kept([s EXCEPT !.mac.origin = i], s)
    BY DEF Kept, Same, Switch, Mac
  <1>3. ASSUME NEW b \in BOOLEAN PROVE Kept([s EXCEPT !.mac.local = b], s)
    BY DEF Kept, Same, Switch, Mac
  <1>4. ASSUME NEW b \in BOOLEAN PROVE Kept([s EXCEPT !.mac.peer = b], s)
    BY DEF Kept, Same, Switch, Mac
  <1>5. ASSUME NEW b \in BOOLEAN PROVE Kept([s EXCEPT !.mac.pend = b], s)
    BY DEF Kept, Same, Switch, Mac
  <1>6. ASSUME NEW b \in BOOLEAN
        PROVE  Kept([s EXCEPT !.timer = b], s) /\ Kept([s EXCEPT !.changed = b], s)
    BY DEF Kept, Same, Switch, Mac
  <1>7. ASSUME NEW op \in Op PROVE Kept([s EXCEPT !.mac.op = op], s)
    BY DEF Kept, Same, Switch, Mac
  <1> QED BY <1>1, <1>2, <1>3, <1>4, <1>5, <1>6, <1>7

LEMMA LocalAgeType ==
    ASSUME NEW s \in Switch
    PROVE  Kept(SetLocalAge(s), s) /\ Kept(ClearLocalAge(s), s)
  <1>1. Kept(Queued(s, "del"), s) /\ Kept(Queued(s, "add"), s)
    BY QueuedType DEF Op
  <1>2. \A t \in Switch : \A b \in BOOLEAN : Kept([t EXCEPT !.mac.local = b], t)
    BY FieldType
  <1> HIDE DEF Queued
  <1> QED BY ZenonT(60), <1>1, <1>2 DEF Kept, Same, SetLocalAge, ClearLocalAge

LEMMA KeptAgain ==
    ASSUME NEW s, NEW t, NEW u, Kept(t, s), Kept(u, t)
    PROVE  Kept(u, s)
  BY DEF Kept, Same

LEMMA RedirectedType ==
    ASSUME NEW s \in Switch
    PROVE  Kept(Redirected(s), s)
  <1>1. "link" \in Port
    BY DEF Port
  <1>2. \A t \in Switch : Kept([t EXCEPT !.mac.ifname = "link"], t)
    BY <1>1, FieldType
  <1>3. \A t \in Switch : Kept(AddToChip(t), t) /\ Kept(DelFromChip(t), t)
    BY AddToChipType, DelFromChipType
  <1> QED BY ZenonT(60), <1>2, <1>3 DEF Redirected, Kept, Same

LEMMA PendingClearedType ==
    ASSUME NEW s \in Switch
    PROVE  Kept(PendingCleared(s), s)
  <1> DEFINE t == DelFromChip(s)
             kept == [t EXCEPT !.mac.pend = FALSE]
             off == [t EXCEPT !.mac.op = "del"]
  <1>1. Kept(t, s)
    BY DelFromChipType
  <1> HIDE DEF t
  <1>2. Kept(kept, t) /\ Kept(off, t)
    BY <1>1, FieldType DEF Op, Kept
  <1> HIDE DEF kept, off
  <1>3. Kept(Removed(off), off)
    BY <1>2, RemovedType DEF Kept
  <1>4. PendingCleared(s) = kept \/ PendingCleared(s) = Removed(off)
    BY DEF PendingCleared, kept, off, t
  <1> QED BY <1>1, <1>2, <1>3, <1>4, KeptAgain

-----------------------------------------------------------------------------
(* Notifications of mclagsyncd. *)

LEMMA LearntKnownType ==
    ASSUME NEW s \in Switch, NEW i \in HostPort, NEW y \in Types
    PROVE  Kept(LearntKnown(s, i, y), s)
  <1> DEFINE pending == [s EXCEPT !.mac.pend = TRUE, !.mac.type = y, !.mac.origin = i,
                                  !.mac.ifname = "link"]
             set == [s EXCEPT !.mac.type = y, !.mac.ifname = i, !.mac.origin = i]
             moved == ClearLocalAge(set)
  <1>1. Kept(pending, s) /\ Kept(set, s)
    <2> DEFINE m == [s.mac EXCEPT !.pend = TRUE, !.type = y, !.origin = i, !.ifname = "link"]
               n == [s.mac EXCEPT !.type = y, !.ifname = i, !.origin = i]
    <2>1. s.mac \in Mac
      BY DEF Switch
    <2>2. m \in Mac /\ n \in Mac
      BY <2>1 DEF Mac, Port, HostPort
    <2>3. pending = [s EXCEPT !.mac = m] /\ set = [s EXCEPT !.mac = n]
      BY DEF Switch, Mac
    <2> HIDE DEF m, n
    <2> QED BY <2>2, <2>3, EntryType
  <1>2. Kept(AddToChip(pending), s)
    BY <1>1, AddToChipType, KeptAgain DEF Kept
  <1> HIDE DEF set
  <1>3. Kept(moved, s)
    BY <1>1, LocalAgeType, KeptAgain DEF Kept
  <1> HIDE DEF moved
  <1>4. ASSUME NEW t \in Switch
        PROVE  Kept(Chip(t, "none"), t) /\ Kept([Chip(t, "none") EXCEPT !.mac.peer = TRUE], t)
    <2>1. Kept(Chip(t, "none"), t)
      BY ChipType
    <2> QED BY <2>1, FieldType, KeptAgain DEF Kept
  <1>5. Kept(ClearLocalAge(s), s)
    BY LocalAgeType
  <1>6. /\ Kept([Chip(moved, "none") EXCEPT !.mac.peer = TRUE], s)
        /\ Kept(Chip(ClearLocalAge(s), "none"), s)
    BY <1>3, <1>4, <1>5, KeptAgain DEF Kept
  <1>7. \/ LearntKnown(s, i, y) = AddToChip(pending)
        \/ LearntKnown(s, i, y) = [Chip(moved, "none") EXCEPT !.mac.peer = TRUE]
        \/ LearntKnown(s, i, y) = Chip(ClearLocalAge(s), "none")
    BY DEF LearntKnown, moved, set
  <1> HIDE DEF pending
  <1> QED BY <1>2, <1>6, <1>7

LEMMA LearntNewType ==
    ASSUME NEW s \in Switch, NEW i \in HostPort, NEW y \in Types
    PROVE  Kept(LearntNew(s, i, y), s)
  <1> DEFINE m == [NoMac EXCEPT !.found = TRUE, !.ifname = i, !.origin = i,
                                !.type = y, !.peer = TRUE]
             new == [s EXCEPT !.mac = m]
  <1>1. m \in Mac
    BY NoMacType DEF Mac, Port, HostPort
  <1> HIDE DEF m
  <1>2. Kept(new, s)
    BY <1>1, EntryType
  <1> HIDE DEF new
  <1>3. new \in Switch
    BY <1>2 DEF Kept
  <1>4. Kept(Chip(s, "none"), s) /\ Kept(Chip(new, "link"), new) /\ Kept(Queued(new, "add"), new)
    BY <1>3, ChipType, QueuedType DEF Port, Op
  <1>5. LearntNew(s, i, y) \in {Chip(s, "none"), Chip(new, "link"), Queued(new, "add"), new}
    BY DEF LearntNew, new, m
  <1> QED BY <1>2, <1>4, <1>5, KeptAgain

LEMMA AgedType ==
    ASSUME NEW s \in Switch, NEW i \in HostPort
    PROVE  Kept(AgedOnLink(s), s) /\ Kept(AgedOnPort(s, i), s)
  <1> DEFINE t == SetLocalAge(s)
             linked == [t EXCEPT !.mac.ifname = "link"]
             out == IF t.mac.synced THEN DelFromChip(t) ELSE t
  <1>1. Kept(t, s)
    BY LocalAgeType
  <1> HIDE DEF t
  <1>2. Kept(linked, t) /\ Kept(AddToChip(t), t) /\ Kept(DelFromChip(t), t) /\ Kept(t, t)
    BY <1>1, FieldType, AddToChipType, DelFromChipType DEF Kept, Same, Port
  <1>3. Kept(out, t)
    BY <1>2
  <1> HIDE DEF linked, out
  <1>4. Kept(AddToChip(linked), linked) /\ Kept(Removed(out), out)
    BY <1>2, <1>3, AddToChipType, RemovedType DEF Kept
  <1>5. /\ AgedOnLink(s) \in {s, Removed(out), AddToChip(t), t}
        /\ AgedOnPort(s, i) \in {Removed(out), AddToChip(linked), linked, AddToChip(t), t}
    BY DEF AgedOnLink, AgedOnPort, linked, out, t
  <1>6. Kept(s, s)
    BY DEF Kept, Same
  <1>7. /\ Kept(Removed(out), s) /\ Kept(AddToChip(t), s)
        /\ Kept(AddToChip(linked), s) /\ Kept(linked, s)
    BY <1>1, <1>2, <1>3, <1>4, KeptAgain
  <1> QED BY <1>1, <1>5, <1>6, <1>7

LEMMA FromSyncdType ==
    ASSUME NEW s \in Switch, NEW n \in Item
    PROVE  Kept(FromSyncd(s, n), s)
  <1>1. n.port \in HostPort /\ n.type \in Types /\ n.op \in {"add", "del"}
    BY DEF Item, Op
  <1>2. Kept(s, s)
    BY DEF Kept, Same
  <1>3. CASE n.op = "add"
    BY <1>1, <1>3, LearntKnownType, LearntNewType DEF FromSyncd
  <1>4. CASE n.op = "del"
    BY <1>1, <1>2, <1>4, AgedType DEF FromSyncd
  <1> QED BY <1>1, <1>3, <1>4

-----------------------------------------------------------------------------
(* Updates of the peer. *)

LEMMA PeerAddKnownType ==
    ASSUME NEW s \in Switch, NEW i \in HostPort
    PROVE  Kept(PeerAddKnown(s, i), s)
  <1> DEFINE mine == [s EXCEPT !.mac.pend = FALSE, !.mac.local = TRUE, !.mac.peer = FALSE]
             s1 == IF FromMclag(i) /\ s.mac.pend THEN Queued(mine, "del")
                   ELSE [s EXCEPT !.mac.peer = FALSE]
             moved == [s1 EXCEPT !.mac.origin = i]
             away == SetLocalAge(moved)
             gone == [DelFromChip(away) EXCEPT !.mac.ifname = i]
             here == [moved EXCEPT !.mac.ifname = i]
             there == [away EXCEPT !.mac.ifname = "link"]
             orphan == [s1 EXCEPT !.mac.ifname = "link"]
             aged == [s1 EXCEPT !.mac.peer = TRUE]
  <1>0. i \in Port /\ "link" \in Port /\ "del" \in Op
    BY DEF Port, HostPort, Op
  <1>1. Kept(mine, s)
    <2> DEFINE m == [s.mac EXCEPT !.pend = FALSE, !.local = TRUE, !.peer = FALSE]
    <2>1. s.mac \in Mac
      BY DEF Switch
    <2>2. m \in Mac
      BY <2>1 DEF Mac
    <2>3. mine = [s EXCEPT !.mac = m]
      BY DEF Switch, Mac
    <2> HIDE DEF m
    <2> QED BY <2>2, <2>3, EntryType
  <1> HIDE DEF mine
  <1>2. Kept(s1, s)
    BY <1>0, <1>1, QueuedType, FieldType, KeptAgain DEF Kept
  <1> HIDE DEF s1
  <1>3. Kept(moved, s1) /\ Kept(orphan, s1) /\ Kept(aged, s1)
    BY <1>0, <1>2, FieldType DEF Kept
  <1> HIDE DEF moved, orphan, aged
  <1>4. Kept(away, moved) /\ Kept(here, moved)
    BY <1>0, <1>3, FieldType, LocalAgeType DEF Kept
  <1> HIDE DEF away, here
  <1>5. Kept(DelFromChip(away), away) /\ Kept(there, away)
    BY <1>0, <1>4, FieldType, DelFromChipType DEF Kept
  <1>6. Kept(gone, away)
    BY <1>0, <1>5, FieldType, KeptAgain DEF Kept
  <1> HIDE DEF gone, there
  <1>7. /\ Kept(Removed(gone), gone) /\ Kept(AddToChip(there), there)
        /\ Kept(AddToChip(here), here) /\ Kept(AddToChip(orphan), orphan)
    BY <1>3, <1>4, <1>5, <1>6, RemovedType, AddToChipType DEF Kept
  <1>8. /\ Kept(moved, s) /\ Kept(away, s) /\ Kept(gone, s) /\ Kept(aged, s)
        /\ Kept(Removed(gone), s)
        /\ Kept(AddToChip(there), s) /\ Kept(AddToChip(here), s) /\ Kept(AddToChip(orphan), s)
    BY <1>2, <1>3, <1>4, <1>5, <1>6, <1>7, KeptAgain
  <1>9. PeerAddKnown(s, i) \in {aged, AddToChip(here), away, AddToChip(there), gone,
                                Removed(gone), AddToChip(orphan), s1}
    BY DEF PeerAddKnown, RemovedIf, aged, here, away, there, gone, orphan, moved, s1, mine
  <1> QED BY <1>2, <1>8, <1>9

LEMMA FromPeerType ==
    ASSUME NEW s \in Switch, NEW m \in Item
    PROVE  Kept(FromPeer(s, m), s)
  <1> DEFINE i == m.port
             e(port) == [NoMac EXCEPT !.found = TRUE, !.origin = i, !.type = m.type,
                                      !.ifname = port, !.local = TRUE]
             new(port) == [s EXCEPT !.mac = e(port)]
             t == [s EXCEPT !.mac.peer = TRUE]
  <1>0. i \in HostPort /\ i \in Port /\ m.type \in Types /\ "link" \in Port
    BY DEF Item, HostPort, Port
  <1>1. Kept(s, s)
    BY DEF Kept, Same
  <1>2. ASSUME NEW port \in Port PROVE Kept(new(port), s) /\ Kept(Chip(new(port), port), s)
    <2>1. e(port) \in Mac
      BY <1>0, NoMacType DEF Mac
    <2> HIDE DEF e
    <2>2. Kept(new(port), s)
      BY <2>1, EntryType
    <2> HIDE DEF new
    <2>3. Kept(Chip(new(port), port), new(port))
      BY <2>2, ChipType DEF Kept
    <2> QED BY <2>2, <2>3, KeptAgain
  <1>3. PeerAddNew(s, i, m.type) \in
            {s, new("link"), Chip(new("link"), "link"), new(i), Chip(new(i), i)}
    BY DEF PeerAddNew
  <1> HIDE DEF new
  <1>4. Kept(PeerAddNew(s, i, m.type), s)
    BY <1>0, <1>1, <1>2, <1>3
  <1>5. Kept(t, s)
    BY FieldType
  <1> HIDE DEF t
  <1>6. Kept(Removed(DelFromChip(t)), s)
    BY <1>5, DelFromChipType, RemovedType, KeptAgain DEF Kept
  <1>7. Kept(PeerDel(s), s)
    BY <1>5, <1>6 DEF PeerDel, t
  <1> QED BY <1>0, <1>1, <1>4, <1>7, PeerAddKnownType DEF FromPeer

(* A message is handled entry by entry, within any set that its entries do  *)
(* not leave.                                                               *)
LEMMA FromPeersTold ==
    ASSUME NEW S, NEW s \in S, NEW items \in Seq(Item),
           \A t \in S : \A n \in 1..Len(items) : FromPeer(t, items[n]) \in S
    PROVE  /\ FromPeers(s, items) \in S
           /\ items # <<>> => \E t \in S : FromPeers(s, items) = FromPeer(t, items[Len(items)])
  <1> DEFINE N == Len(items)
             Step(f, n) == IF n = 0 THEN s ELSE FromPeer(f[n - 1], items[n])
             told == CHOOSE f : f = [n \in 0..N |-> Step(f, n)]
  <1>0. N \in Nat
    OBVIOUS
  <1>1. \E f : f = [n \in 0..N |-> Step(f, n)]
    <2> DEFINE g == [x \in (1..N) \X S |-> FromPeer(x[2], items[x[1]])]
    <2>1. g \in [(1..N) \X S -> S]
      <3>1. ASSUME NEW x \in (1..N) \X S PROVE FromPeer(x[2], items[x[1]]) \in S
        OBVIOUS
      <3> QED BY <3>1
    <2>2. \A k \in 1..N : \A y \in S : g[<<k, y>>] = FromPeer(y, items[k])
      OBVIOUS
    <2> HIDE DEF g, N
    <2>3. RecursionHas(N, S, s, g)
      BY <1>0, <2>1, RecursionExists DEF Steps
    <2>4. PICK h \in [0..N -> S] : h[0] = s /\ \A k \in 1..N : h[k] = g[<<k, h[k - 1]>>]
      BY <2>3 DEF RecursionHas
    <2>5. ASSUME NEW k \in 1..N PROVE h[k] = FromPeer(h[k - 1], items[k])
      <3>1. k - 1 \in 0..N
        BY <1>0
      <3>2. h[k - 1] \in S
        BY <3>1, <2>4
      <3> QED BY <2>2, <2>4, <3>2
    <2>6. \A n \in 0..N : h[n] = Step(h, n)
      <3>1. ASSUME NEW n \in 0..N PROVE h[n] = Step(h, n)
        <4>1. CASE n = 0
          BY <2>4, <4>1
        <4>2. CASE n # 0
          <5>1. n \in 1..N
            BY <1>0, <4>2
          <5> QED BY <2>5, <4>2, <5>1
        <4> QED BY <4>1, <4>2
      <3> QED BY <3>1
    <2>7. h = [n \in 0..N |-> Step(h, n)]
      BY <2>4, <2>6
    <2> QED BY <2>7
  <1>2. told = [n \in 0..N |-> Step(told, n)]
    BY <1>1, Zenon
  <1>3. FromPeers(s, items) = told[N]
    BY DEF FromPeers
  <1> HIDE DEF told
  <1>4. told[0] = s /\ \A n \in 1..N : told[n] = FromPeer(told[n - 1], items[n])
    BY <1>0, <1>2
  <1> DEFINE T == {n \in 0..N : told[n] \in S}
  <1>5. 0 \in T
    BY <1>0, <1>4
  <1>6. ASSUME NEW n \in 1..N, n - 1 \in T PROVE n \in T
    BY <1>0, <1>4, <1>6
  <1> HIDE DEF T
  <1>7. \A n \in 0..N : n \in T
    BY <1>0, <1>5, <1>6, SetInduction
  <1>8. N \in 0..N /\ told[N] \in S
    BY <1>0, <1>7 DEF T
  <1>9. ASSUME items # <<>> PROVE \E t \in S : told[N] = FromPeer(t, items[N])
    <2>1. N \in 1..N /\ N - 1 \in 0..N
      BY <1>9
    <2>2. told[N - 1] \in S /\ told[N] = FromPeer(told[N - 1], items[N])
      BY <1>4, <1>7, <2>1 DEF T
    <2> QED BY <2>2
  <1> QED BY <1>3, <1>8, <1>9

LEMMA FromPeersIn ==
    ASSUME NEW S, NEW s \in S, NEW items \in Seq(Item),
           \A t \in S : \A n \in 1..Len(items) : FromPeer(t, items[n]) \in S
    PROVE  FromPeers(s, items) \in S
  BY FromPeersTold

LEMMA FromPeersType ==
    ASSUME NEW s \in Switch, NEW items \in Seq(Item)
    PROVE  Kept(FromPeers(s, items), s)
  <1> DEFINE S == {t \in Switch : Kept(t, s)}
  <1>1. s \in S
    BY DEF Kept, Same
  <1>2. ASSUME NEW t \in S, NEW n \in 1..Len(items) PROVE FromPeer(t, items[n]) \in S
    BY FromPeerType, KeptAgain DEF Kept
  <1> HIDE DEF S
  <1>3. FromPeers(s, items) \in S
    BY <1>1, <1>2, FromPeersIn
  <1> QED BY <1>3 DEF S

-----------------------------------------------------------------------------
(* Interfaces and the session. *)

LEMMA PoStateType ==
    ASSUME NEW s \in Switch
    PROVE  Kept(PoState(s), s)
  <1> DEFINE down == [s EXCEPT !.timer = TRUE]
             t == SetLocalAge(down)
             up == [s EXCEPT !.timer = FALSE]
             pend == [Redirected(down) EXCEPT !.mac.pend = TRUE]
             back == [up EXCEPT !.mac.pend = FALSE, !.mac.ifname = "po"]
             out == IF t.mac.type = "static" THEN t ELSE DelFromChip(t)
  <1>1. Kept(down, s) /\ Kept(up, s)
    BY FieldType
  <1>2. PoDown(s) \in {down, pend, Removed(out), Redirected(t), DelFromChip(t)}
    BY DEF PoDown
  <1>3. PoUp(s) \in {up, AddToChip(back), AddAgeing(back), PendingCleared(up)}
    BY DEF PoUp
  <1> HIDE DEF down, up
  <1>4. Kept(t, down) /\ Kept(Redirected(down), down)
    BY <1>1, LocalAgeType, RedirectedType DEF Kept
  <1>5. Kept(pend, down)
    BY <1>4, FieldType, KeptAgain DEF Kept
  <1> HIDE DEF t, pend
  <1>6. Kept(out, t) /\ Kept(Redirected(t), t) /\ Kept(DelFromChip(t), t)
    BY <1>4, DelFromChipType, RedirectedType DEF Kept, Same
  <1> HIDE DEF out
  <1>7. Kept(Removed(out), out)
    BY <1>6, RemovedType DEF Kept
  <1>8. Kept(PoDown(s), s)
    <2>1. /\ Kept(pend, s) /\ Kept(Removed(out), s) /\ Kept(Redirected(t), s)
          /\ Kept(DelFromChip(t), s)
      BY <1>1, <1>4, <1>5, <1>6, <1>7, KeptAgain
    <2> QED BY <1>1, <1>2, <2>1
  <1>9. Kept(back, up)
    <2> DEFINE m == [up.mac EXCEPT !.pend = FALSE, !.ifname = "po"]
    <2>1. up \in Switch /\ up.mac \in Mac
      BY <1>1 DEF Kept, Switch
    <2>2. m \in Mac
      BY <2>1 DEF Mac, Port
    <2>3. back = [up EXCEPT !.mac = m]
      BY <2>1 DEF Switch, Mac
    <2> HIDE DEF m
    <2> QED BY <2>1, <2>2, <2>3, EntryType
  <1> HIDE DEF back
  <1>10. Kept(PoUp(s), s)
    <2>1. Kept(AddToChip(back), back) /\ Kept(AddAgeing(back), back) /\ Kept(PendingCleared(up), up)
      BY <1>1, <1>9, AddToChipType, AddAgeingType, PendingClearedType DEF Kept
    <2>2. Kept(AddToChip(back), s) /\ Kept(AddAgeing(back), s) /\ Kept(PendingCleared(up), s)
      BY <1>1, <1>9, <2>1, KeptAgain
    <2> QED BY <1>1, <1>3, <2>2
  <1> QED BY <1>8, <1>10 DEF PoState

LEMMA OrphanUpType ==
    ASSUME NEW s \in Switch
    PROVE  Kept(OrphanUp(s), s)
  BY QueuedType DEF OrphanUp, Op, Kept, Same

LEMMA PeerLinkType ==
    ASSUME NEW s \in Switch
    PROVE  Kept(PeerLinkUp(s), s) /\ Kept(PeerLinkDown(s), s)
  <1> DEFINE a == IF s.mac.pend THEN s ELSE SetLocalAge(s)
             t == DelFromChip(a)
  <1>1. Kept(s, s)
    BY DEF Kept, Same
  <1>2. Kept(a, s)
    BY <1>1, LocalAgeType
  <1> HIDE DEF a
  <1>3. Kept(t, s)
    BY <1>2, DelFromChipType, KeptAgain DEF Kept
  <1>4. PeerLinkDown(s) \in {s, t, Removed(t)}
    BY DEF PeerLinkDown, RemovedIf, a
  <1> HIDE DEF t
  <1>5. Kept(Removed(t), s)
    BY <1>3, RemovedType, KeptAgain DEF Kept
  <1> QED BY <1>1, <1>3, <1>4, <1>5, AddToChipType DEF PeerLinkUp

LEMMA TimerExpiredType ==
    ASSUME NEW s \in Switch
    PROVE  Kept(TimerExpired(s), s)
  <1> DEFINE t == IF s.mac.found /\ s.mac.pend /\ s.mac.origin = "po" THEN PendingCleared(s) ELSE s
  <1>1. Kept(t, s)
    BY PendingClearedType DEF Kept, Same
  <1>2. TimerExpired(s) = [t EXCEPT !.timer = FALSE]
    BY DEF TimerExpired
  <1> HIDE DEF t
  <1> QED BY ZenonT(60), <1>1, <1>2, FieldType, KeptAgain DEF Kept

LEMMA RemoteToLocalType ==
    ASSUME NEW s \in Switch
    PROVE  Kept(RemoteToLocal(s), s)
  <1> DEFINE t == [s EXCEPT !.mac.local = FALSE, !.mac.peer = TRUE]
  <1>1. Kept(t, s)
    <2> DEFINE m == [s.mac EXCEPT !.local = FALSE, !.peer = TRUE]
    <2>1. s.mac \in Mac
      BY DEF Switch
    <2>2. m \in Mac
      BY <2>1 DEF Mac
    <2>3. t = [s EXCEPT !.mac = m]
      BY DEF Switch, Mac
    <2> HIDE DEF m
    <2> QED BY <2>2, <2>3, EntryType
  <1>2. RemoteToLocal(s) \in {s, Queued(AddAgeing(t), "add")}
    BY DEF RemoteToLocal
  <1> HIDE DEF t
  <1>3. Kept(AddAgeing(t), s)
    BY <1>1, AddAgeingType, KeptAgain DEF Kept
  <1>4. Kept(Queued(AddAgeing(t), "add"), s)
    BY <1>3, QueuedType, KeptAgain DEF Kept, Op
  <1> QED BY <1>2, <1>4 DEF Kept, Same

LEMMA PeerPoType ==
    ASSUME NEW s \in Switch, NEW up \in BOOLEAN
    PROVE  Kept(PeerPo(s, up), s)
  <1> DEFINE t == [s EXCEPT !.pif = IF up THEN "up" ELSE "down"]
  <1>1. Kept(t, s)
    BY DEF Kept, Same, Switch
  <1>2. PeerPo(s, up) \in {t, RemoteToLocal(t)}
    BY DEF PeerPo
  <1> HIDE DEF t
  <1>3. Kept(RemoteToLocal(t), s)
    BY <1>1, RemoteToLocalType, KeptAgain DEF Kept
  <1> QED BY <1>1, <1>2, <1>3

LEMMA SyncMacType ==
    ASSUME NEW s \in Switch
    PROVE  Kept(SyncMac(s), s)
  BY QueuedType DEF SyncMac, Op, Kept, Same

(* t is s in stage x, with other tables. *)
Moved(t, s, x) == /\ t \in Switch /\ t.state = x
                  /\ t.kind = s.kind /\ t.haslink = s.haslink /\ t.up = s.up

LEMMA StateMoved ==
    ASSUME NEW s \in Switch, NEW x \in State
    PROVE  Moved([s EXCEPT !.state = x], s, x)
  BY DEF Moved, Switch

LEMMA ConnectedType ==
    ASSUME NEW s \in Switch
    PROVE  Moved(Connected(s), s, "EXCHANGE")
  <1> DEFINE t == [s EXCEPT !.state = "EXCHANGE"]
  <1>1. Moved(t, s, "EXCHANGE")
    BY StateMoved DEF State
  <1>2. Connected(s) = PoState(SyncMac(t))
    BY DEF Connected
  <1> HIDE DEF t
  <1>3. Kept(PoState(SyncMac(t)), t)
    BY <1>1, SyncMacType, PoStateType, KeptAgain DEF Moved, Kept
  <1> QED BY <1>1, <1>2, <1>3 DEF Moved, Kept, Same

LEMMA FdbDisconnectedType ==
    ASSUME NEW s \in Switch
    PROVE  Kept(FdbDisconnected(s), s)
  <1> DEFINE aged == [s EXCEPT !.mac.peer = TRUE]
             mine == [AddAgeing(aged) EXCEPT !.mac.local = FALSE]
  <1>1. Kept(aged, s) /\ Kept(s, s)
    BY FieldType DEF Kept, Same
  <1>2. FdbDisconnected(s) \in {s, aged, Removed(DelFromChip(aged)), mine}
    BY DEF FdbDisconnected
  <1> HIDE DEF aged
  <1>3. Kept(AddAgeing(aged), s)
    BY <1>1, AddAgeingType, KeptAgain DEF Kept
  <1>4. Kept(mine, s)
    BY <1>3, FieldType, KeptAgain DEF Kept
  <1> HIDE DEF mine
  <1>5. Kept(Removed(DelFromChip(aged)), s)
    BY <1>1, DelFromChipType, RemovedType, KeptAgain DEF Kept
  <1> QED BY <1>1, <1>2, <1>4, <1>5

LEMMA QueueReinitType ==
    ASSUME NEW s \in Switch
    PROVE  Kept(QueueReinit(s), s)
  <1>1. <<>> \in Seq(Item)
    BY EmptySeq
  <1>2. (s.freed \/ (s.mac.queued /\ s.mac.op = "del")) \in BOOLEAN
    OBVIOUS
  <1> QED BY ZenonT(60), <1>1, <1>2 DEF Kept, Same, QueueReinit, Switch, Mac

LEMMA DisconnectedType ==
    ASSUME NEW s \in Switch
    PROVE  Moved(Disconnected(s), s, "INIT")
  <1> DEFINE t == IF s.warm THEN s ELSE FdbDisconnected(s)
             u == QueueReinit(t)
  <1>1. Kept(t, s)
    BY FdbDisconnectedType DEF Kept, Same
  <1>2. Disconnected(s) = [u EXCEPT !.state = "INIT", !.pif = "none", !.plif = FALSE, !.warm = FALSE]
    BY DEF Disconnected
  <1> HIDE DEF t
  <1>3. Kept(u, s)
    BY <1>1, QueueReinitType, KeptAgain DEF Kept
  <1> HIDE DEF u
  <1> QED BY ZenonT(60), <1>2, <1>3 DEF Moved, Kept, Same, Switch, State

LEMMA FlushedType ==
    ASSUME NEW s \in Switch
    PROVE  Kept(Flushed(s), s)
  <1>1. <<>> \in Seq(Item)
    BY EmptySeq
  <1> QED BY <1>1 DEF Kept, Same, Flushed, Switch, Mac

-----------------------------------------------------------------------------
(* Messages *)

LEMMA PendingType ==
    ASSUME NEW s \in Switch
    PROVE  Pending(s) \in Seq(Msg)
  <1> DEFINE items == s.detached \o (IF s.mac.queued THEN << ItemOf(s.mac) >> ELSE <<>>)
             state == [type |-> "STATE", up |-> s.up["po"]]
             mac == [type |-> "MAC", items |-> items]
  <1>1. ItemOf(s.mac) \in Item /\ s.detached \in Seq(Item) /\ s.up["po"] \in BOOLEAN
    BY DEF ItemOf, Item, Switch, Mac, Port
  <1>2. items \in Seq(Item)
    BY <1>1
  <1> HIDE DEF items
  <1>3. state \in Msg /\ mac \in Msg
    BY <1>1, <1>2 DEF Msg
  <1>4. Pending(s) = (IF s.changed THEN << state >> ELSE <<>>)
                        \o (IF items = <<>> THEN <<>> ELSE << mac >>)
    BY DEF Pending, items
  <1> HIDE DEF state, mac
  <1> QED BY <1>3, <1>4

LEMMA InfoType ==
    ASSUME NEW s \in Switch
    PROVE  Info(s) \in Seq(Msg)
  <1>1. s.up["po"] \in BOOLEAN
    BY DEF Switch, Port
  <1>2. [type |-> "INFO", up |-> s.up["po"]] \in Msg
    BY <1>1 DEF Msg
  <1> QED BY <1>2 DEF Info

-----------------------------------------------------------------------------
(* The invariant of a switch. *)

(* What s needs for its entry to be removed. *)
Removable(s) ==
    /\ OfKind(s)
    /\ s.kind = "dynamic" /\ s.haslink /\ ~s.inherited => s.chip # "po"

LEMMA RemovedInv ==
    ASSUME NEW s \in Switch, Removable(s)
    PROVE  SwitchInv(Removed(s))
  <1> DEFINE r == Removed(s)
             d == s.detached
  <1>1. /\ r.kind = s.kind /\ r.mac = NoMac /\ r.chip = s.chip
        /\ r.inherited = s.inherited /\ r.haslink = s.haslink
        /\ r.detached = IF s.mac.queued THEN Append(d, ItemOf(s.mac)) ELSE d
    BY DEF Removed, Switch
  <1> HIDE DEF r
  <1>2. ~r.mac.found /\ ~r.mac.queued
    BY <1>1 DEF NoMac
  <1>3. d \in Seq(Item) /\ ItemOf(s.mac) \in Item
    BY DEF Switch, ItemOf, Item, Mac
  <1>4. s.mac.queued => ItemOf(s.mac).type = s.kind
    BY DEF Removable, OfKind, ItemOf
  <1>5. \A n \in 1..Len(d) : d[n].type = s.kind
    BY DEF Removable, OfKind
  <1> HIDE DEF d
  <1>6. \A n \in 1..Len(r.detached) : r.detached[n].type = s.kind
    BY <1>1, <1>3, <1>4, <1>5
  <1> QED BY <1>1, <1>2, <1>6 DEF r, SwitchInv, OfKind, OnOrigin, AgesApart, ChipRight, Removable

(* t is s with entry m, and c in the chip, inherited or not. *)
With(t, s, m, c, h) ==
    /\ t.kind = s.kind /\ t.haslink = s.haslink /\ t.state = s.state /\ t.up = s.up
    /\ t.detached = s.detached /\ t.mac = m /\ t.chip = c /\ t.inherited = h

LEMMA Basics ==
    ASSUME NEW s \in Switch
    PROVE  /\ \A port \in Port \cup {"none"} : With(Chip(s, port), s, s.mac, port, FALSE)
           /\ With(AddToChip(s), s, [s.mac EXCEPT !.synced = TRUE], s.mac.ifname, FALSE)
           /\ With(AddAgeing(s), s, [s.mac EXCEPT !.synced = TRUE], s.mac.ifname, FALSE)
           /\ With(DelFromChip(s), s, [s.mac EXCEPT !.synced = FALSE], "none", FALSE)
           /\ \A op \in Op : With(Queued(s, op), s, [s.mac EXCEPT !.op = op, !.queued = TRUE],
                                   s.chip, s.inherited)
  <1>1. ASSUME NEW port \in Port \cup {"none"} PROVE With(Chip(s, port), s, s.mac, port, FALSE)
    BY DEF With, Chip, Switch
  <1>2. With(AddToChip(s), s, [s.mac EXCEPT !.synced = TRUE], s.mac.ifname, FALSE)
    BY DEF With, AddToChip, Chip, Switch, Mac
  <1>3. With(AddAgeing(s), s, [s.mac EXCEPT !.synced = TRUE], s.mac.ifname, FALSE)
    BY DEF With, AddAgeing, AddToChip, Chip, Switch, Mac
  <1>4. With(DelFromChip(s), s, [s.mac EXCEPT !.synced = FALSE], "none", FALSE)
    BY DEF With, DelFromChip, Chip, Switch, Mac
  <1>5. ASSUME NEW op \in Op
        PROVE  With(Queued(s, op), s, [s.mac EXCEPT !.op = op, !.queued = TRUE], s.chip, s.inherited)
    BY DEF With, Queued, Switch, Mac
  <1> QED BY <1>1, <1>2, <1>3, <1>4, <1>5

(* t is s with the local age flag b, queued or not. *)
AgedTo(t, s, b) ==
    /\ With(t, s, t.mac, s.chip, s.inherited)
    /\ t.mac.found = s.mac.found /\ t.mac.ifname = s.mac.ifname /\ t.mac.origin = s.mac.origin
    /\ t.mac.type = s.mac.type /\ t.mac.peer = s.mac.peer /\ t.mac.pend = s.mac.pend
    /\ t.mac.synced = s.mac.synced /\ t.mac.local = b

LEMMA LocalAgeIs ==
    ASSUME NEW s \in Switch
    PROVE  AgedTo(SetLocalAge(s), s, TRUE) /\ AgedTo(ClearLocalAge(s), s, FALSE)
  <1>1. \A op \in Op : Kept(Queued(s, op), s)
    BY QueuedType
  <1>2. \A op \in Op : With(Queued(s, op), s, [s.mac EXCEPT !.op = op, !.queued = TRUE],
                            s.chip, s.inherited)
    BY Basics
  <1>3. s.mac \in Mac
    BY DEF Switch
  <1>4. ASSUME NEW t \in Switch, NEW b \in BOOLEAN
        PROVE  With([t EXCEPT !.mac.local = b], t, [t.mac EXCEPT !.local = b], t.chip, t.inherited)
    BY DEF With, Switch, Mac
  <1>5. ASSUME NEW t \in {s, Queued(s, "del"), Queued(s, "add")}, NEW b \in BOOLEAN
        PROVE  AgedTo([t EXCEPT !.mac.local = b], s, b)
    <2>1. t \in Switch
      BY <1>1 DEF Kept, Op
    <2>2. With([t EXCEPT !.mac.local = b], t, [t.mac EXCEPT !.local = b], t.chip, t.inherited)
      BY <1>4, <2>1
    <2>3. /\ t.mac \in Mac /\ With(t, s, t.mac, s.chip, s.inherited)
          /\ t.mac.found = s.mac.found /\ t.mac.ifname = s.mac.ifname
          /\ t.mac.origin = s.mac.origin /\ t.mac.type = s.mac.type
          /\ t.mac.peer = s.mac.peer /\ t.mac.pend = s.mac.pend /\ t.mac.synced = s.mac.synced
      <3>1. CASE t = s
        BY <1>3, <3>1 DEF With
      <3>2. CASE t # s
        <4>1. PICK op \in Op : t = Queued(s, op)
          BY <1>5, <3>2 DEF Op
        <4>2. With(t, s, [s.mac EXCEPT !.op = op, !.queued = TRUE], s.chip, s.inherited)
          BY <1>2, <4>1
        <4> QED BY <1>3, <4>2 DEF With, Mac
      <3> QED BY <3>1, <3>2
    <2>4. [t.mac EXCEPT !.local = b] \in Mac /\ [t.mac EXCEPT !.local = b].local = b
      BY <2>3 DEF Mac
    <2> DEFINE u == [t EXCEPT !.mac.local = b]
    <2> HIDE DEF u
    <2>5. u.mac = [t.mac EXCEPT !.local = b] /\ With(u, s, u.mac, s.chip, s.inherited)
      BY <2>2, <2>3 DEF u, With
    <2>6. AgedTo(u, s, b)
      BY <2>3, <2>4, <2>5 DEF AgedTo, Mac
    <2> QED BY <2>6 DEF u
  <1>6. \E t \in {s, Queued(s, "del"), Queued(s, "add")} : SetLocalAge(s) = [t EXCEPT !.mac.local = TRUE]
    BY DEF SetLocalAge
  <1>7. \E t \in {s, Queued(s, "del"), Queued(s, "add")} : ClearLocalAge(s) = [t EXCEPT !.mac.local = FALSE]
    BY DEF ClearLocalAge
  <1> QED BY <1>5, <1>6, <1>7

(* The invariant from its parts. *)
LEMMA InvFrom ==
    ASSUME NEW s, NEW t, OfKind(s), t.kind = s.kind, t.detached = s.detached,
           t.mac.found, t.mac.type = s.kind, t.mac.ifname \in {"link", t.mac.origin},
           t.kind = "dynamic" => ~(t.mac.local /\ t.mac.peer), ChipRight(t)
    PROVE  SwitchInv(t)
  BY DEF SwitchInv, OfKind, OnOrigin, AgesApart, BothAged

LEMMA LearntKnownInv ==
    ASSUME NEW s \in Switch, SwitchInv(s), s.mac.found, NEW i \in HostPort
    PROVE  SwitchInv(LearntKnown(s, i, s.kind))
  <1> DEFINE y == s.kind
             pending == [s EXCEPT !.mac.pend = TRUE, !.mac.type = y, !.mac.origin = i,
                                  !.mac.ifname = "link"]
             set == [s EXCEPT !.mac.type = y, !.mac.ifname = i, !.mac.origin = i]
             moved == ClearLocalAge(set)
             none == Chip(moved, "none")
  <1>0. OfKind(s) /\ OnOrigin(s) /\ AgesApart(s) /\ s.kind \in Types /\ s.mac \in Mac
    BY DEF SwitchInv, Switch
  <1>1. LearntKnown(s, i, s.kind) \in
            {AddToChip(pending), [none EXCEPT !.mac.peer = TRUE], Chip(ClearLocalAge(s), "none")}
    BY DEF LearntKnown
  <1>2. /\ pending \in Switch
        /\ With(pending, s, [s.mac EXCEPT !.pend = TRUE, !.type = y, !.origin = i, !.ifname = "link"],
                s.chip, s.inherited)
    <2> DEFINE m == [s.mac EXCEPT !.pend = TRUE, !.type = y, !.origin = i, !.ifname = "link"]
    <2>1. m \in Mac
      BY <1>0 DEF Mac, Port, HostPort
    <2>2. pending = [s EXCEPT !.mac = m]
      BY DEF Switch, Mac
    <2> HIDE DEF m
    <2>3. With(pending, s, m, s.chip, s.inherited)
      BY <2>1, <2>2 DEF With, Switch
    <2> QED BY <2>1, <2>2, <2>3, EntryType DEF m, Kept
  <1>3. /\ set \in Switch
        /\ With(set, s, [s.mac EXCEPT !.type = y, !.ifname = i, !.origin = i], s.chip, s.inherited)
    <2> DEFINE m == [s.mac EXCEPT !.type = y, !.ifname = i, !.origin = i]
    <2>1. m \in Mac
      BY <1>0 DEF Mac, Port, HostPort
    <2>2. set = [s EXCEPT !.mac = m]
      BY DEF Switch, Mac
    <2> HIDE DEF m
    <2>3. With(set, s, m, s.chip, s.inherited)
      BY <2>1, <2>2 DEF With, Switch
    <2> QED BY <2>1, <2>2, <2>3, EntryType DEF m, Kept
  <1> HIDE DEF pending, set
  <1>4. SwitchInv(AddToChip(pending))
    <2> DEFINE t == AddToChip(pending)
    <2>1. With(t, pending, [pending.mac EXCEPT !.synced = TRUE], pending.mac.ifname, FALSE)
      BY <1>2, Basics
    <2> HIDE DEF t
    <2>2. /\ t.kind = s.kind /\ t.detached = s.detached /\ t.chip = "link"
          /\ t.mac.found /\ t.mac.type = s.kind /\ t.mac.ifname = "link"
          /\ t.mac.local = s.mac.local /\ t.mac.peer = s.mac.peer
      BY <1>0, <1>2, <2>1 DEF With, Mac
    <2> QED BY <1>0, <2>2, InvFrom DEF t, ChipRight, AgesApart, BothAged
  <1>5. SwitchInv([none EXCEPT !.mac.peer = TRUE])
    <2> DEFINE t == [none EXCEPT !.mac.peer = TRUE]
    <2>1. AgedTo(moved, set, FALSE) /\ Kept(moved, set)
      BY <1>3, LocalAgeIs, LocalAgeType
    <2> HIDE DEF moved
    <2>2. With(none, moved, moved.mac, "none", FALSE) /\ none \in Switch
      BY <2>1, Basics, ChipType DEF Kept
    <2> HIDE DEF none
    <2>3. With(t, none, [none.mac EXCEPT !.peer = TRUE], none.chip, none.inherited)
      BY <2>2 DEF With, Switch, Mac
    <2> HIDE DEF t
    <2>4. none.mac \in Mac
      BY <2>2 DEF Switch
    <2>5. /\ t.kind = s.kind /\ t.detached = s.detached /\ t.chip = "none"
          /\ t.mac.found /\ t.mac.type = s.kind /\ ~t.mac.local
          /\ t.mac.ifname = i /\ t.mac.origin = i
      BY <1>0, <1>3, <2>1, <2>2, <2>3, <2>4 DEF With, AgedTo, Mac
    <2> QED BY <1>0, <2>5, InvFrom DEF t, ChipRight
  <1>6. SwitchInv(Chip(ClearLocalAge(s), "none"))
    <2> DEFINE c == ClearLocalAge(s)
               t == Chip(c, "none")
    <2>1. AgedTo(c, s, FALSE) /\ Kept(c, s)
      BY LocalAgeIs, LocalAgeType
    <2> HIDE DEF c
    <2>2. With(t, c, c.mac, "none", FALSE)
      BY <2>1, Basics DEF Kept
    <2> HIDE DEF t
    <2>3. /\ t.kind = s.kind /\ t.detached = s.detached /\ t.chip = "none"
          /\ t.mac.found /\ t.mac.type = s.kind /\ ~t.mac.local
          /\ t.mac.ifname \in {"link", t.mac.origin}
      BY <1>0, <2>1, <2>2 DEF With, AgedTo, OfKind, OnOrigin
    <2>4. SwitchInv(t)
      BY <1>0, <2>3, InvFrom DEF ChipRight
    <2> QED BY <2>4 DEF t, c
  <1> QED BY <1>1, <1>4, <1>5, <1>6

LEMMA LearntNewInv ==
    ASSUME NEW s \in Switch, SwitchInv(s), ~s.mac.found, NEW i \in HostPort
    PROVE  SwitchInv(LearntNew(s, i, s.kind))
  <1> DEFINE m == [NoMac EXCEPT !.found = TRUE, !.ifname = i, !.origin = i,
                                !.type = s.kind, !.peer = TRUE]
             new == [s EXCEPT !.mac = m]
  <1>0. /\ s.kind \in Types /\ OfKind(s)
        /\ s.kind = "dynamic" /\ s.haslink /\ ~s.inherited => s.chip # "po"
    BY DEF Switch, SwitchInv, ChipRight, InstalledOnPo
  <1>1. /\ m \in Mac /\ m.found /\ m.type = s.kind /\ ~m.local
        /\ m.ifname = i /\ m.origin = i
    <2>1. NoMac \in Mac /\ ~NoMac.local
      BY NoMacType DEF NoMac
    <2> QED BY <1>0, <2>1 DEF Mac, Port, HostPort
  <1>2. LearntNew(s, i, s.kind) \in {Chip(s, "none"), Chip(new, "link"), Queued(new, "add"), new}
    BY DEF LearntNew
  <1> HIDE DEF m
  <1>3. new \in Switch /\ With(new, s, m, s.chip, s.inherited)
    BY <1>1, EntryType DEF With, Switch, Kept
  <1> HIDE DEF new
  <1>4. SwitchInv(Chip(s, "none"))
    <2>1. With(Chip(s, "none"), s, s.mac, "none", FALSE)
      BY Basics
    <2> QED BY <2>1 DEF With, SwitchInv, OfKind, OnOrigin, AgesApart, BothAged, ChipRight
  <1>5. SwitchInv(new)
    BY <1>0, <1>1, <1>3, InvFrom DEF With, ChipRight
  <1>6. SwitchInv(Chip(new, "link"))
    <2>1. With(Chip(new, "link"), new, new.mac, "link", FALSE)
      BY <1>3, Basics DEF Port
    <2> QED BY <1>5, <2>1 DEF With, SwitchInv, OfKind, OnOrigin, AgesApart, BothAged, ChipRight
  <1>7. SwitchInv(Queued(new, "add"))
    <2> DEFINE t == Queued(new, "add")
    <2>1. With(t, new, [new.mac EXCEPT !.op = "add", !.queued = TRUE], new.chip, new.inherited)
      BY <1>3, Basics DEF Op
    <2> HIDE DEF t
    <2>2. /\ t.kind = s.kind /\ t.detached = s.detached /\ t.mac.found /\ t.mac.type = s.kind
          /\ ~t.mac.local /\ t.chip = s.chip /\ t.inherited = s.inherited /\ t.haslink = s.haslink
          /\ t.mac.ifname = i /\ t.mac.origin = i
      BY <1>1, <1>3, <2>1 DEF With, Mac
    <2>3. SwitchInv(t)
      BY <1>0, <2>2, InvFrom DEF ChipRight
    <2> QED BY <2>3 DEF t
  <1> QED BY <1>2, <1>4, <1>5, <1>6, <1>7

LEMMA AddInv ==
    ASSUME NEW s \in Switch, OfKind(s), OnOrigin(s), AgesApart(s), s.mac.found,
           s.mac.ifname = "po" => s.up["po"]
    PROVE  SwitchInv(AddToChip(s)) /\ SwitchInv(AddAgeing(s))
  <1>1. s.mac \in Mac
    BY DEF Switch
  <1>2. ASSUME NEW t, With(t, s, [s.mac EXCEPT !.synced = TRUE], s.mac.ifname, FALSE)
        PROVE  SwitchInv(t)
    <2>1. /\ t.mac.found /\ t.mac.type = s.mac.type /\ t.mac.ifname = s.mac.ifname
          /\ t.mac.origin = s.mac.origin /\ t.mac.local = s.mac.local
          /\ t.mac.peer = s.mac.peer /\ t.mac.synced
      BY <1>1, <1>2 DEF With, Mac
    <2>2. t.kind = s.kind /\ t.detached = s.detached /\ t.up = s.up /\ t.chip = s.mac.ifname
      BY <1>2 DEF With
    <2>3. ChipRight(t)
      BY <2>1, <2>2 DEF ChipRight, InstalledOnPo
    <2> QED BY <2>1, <2>2, <2>3, InvFrom DEF OfKind, OnOrigin, AgesApart, BothAged
  <1> QED BY <1>2, Basics

LEMMA DelInv ==
    ASSUME NEW s \in Switch, OfKind(s), OnOrigin(s), AgesApart(s)
    PROVE  SwitchInv(DelFromChip(s))
  <1> DEFINE t == DelFromChip(s)
  <1>1. s.mac \in Mac
    BY DEF Switch
  <1>2. With(t, s, [s.mac EXCEPT !.synced = FALSE], "none", FALSE)
    BY Basics
  <1> HIDE DEF t
  <1>3. /\ t.kind = s.kind /\ t.detached = s.detached /\ t.chip = "none"
        /\ t.mac.found = s.mac.found /\ t.mac.type = s.mac.type /\ t.mac.ifname = s.mac.ifname
        /\ t.mac.origin = s.mac.origin /\ t.mac.local = s.mac.local
        /\ t.mac.peer = s.mac.peer /\ t.mac.queued = s.mac.queued
    BY <1>1, <1>2 DEF With, Mac
  <1> QED BY <1>3 DEF t, SwitchInv, OfKind, OnOrigin, AgesApart, BothAged, ChipRight

LEMMA DelRemovable ==
    ASSUME NEW s \in Switch, OfKind(s)
    PROVE  Removable(DelFromChip(s))
  <1> DEFINE t == DelFromChip(s)
  <1>1. s.mac \in Mac
    BY DEF Switch
  <1>2. With(t, s, [s.mac EXCEPT !.synced = FALSE], "none", FALSE)
    BY Basics
  <1> HIDE DEF t
  <1>3. /\ t.kind = s.kind /\ t.detached = s.detached /\ t.chip = "none"
        /\ t.mac.found = s.mac.found /\ t.mac.type = s.mac.type /\ t.mac.queued = s.mac.queued
    BY <1>1, <1>2 DEF With, Mac
  <1> QED BY <1>3 DEF t, OfKind, Removable

LEMMA QueuedInv ==
    ASSUME NEW s \in Switch, SwitchInv(s), s.mac.found, NEW op \in Op
    PROVE  SwitchInv(Queued(s, op))
  <1> DEFINE t == Queued(s, op)
  <1>1. s.mac \in Mac
    BY DEF Switch
  <1>2. With(t, s, [s.mac EXCEPT !.op = op, !.queued = TRUE], s.chip, s.inherited)
    BY Basics
  <1> HIDE DEF t
  <1>3. /\ t.mac.found = s.mac.found /\ t.mac.type = s.mac.type /\ t.mac.ifname = s.mac.ifname
        /\ t.mac.origin = s.mac.origin /\ t.mac.local = s.mac.local
        /\ t.mac.peer = s.mac.peer /\ t.mac.synced = s.mac.synced
    BY <1>1, <1>2 DEF Mac, With
  <1> QED BY <1>2, <1>3 DEF t, With, SwitchInv, OfKind, OnOrigin, AgesApart, BothAged, ChipRight,
                             InstalledOnPo, OnlyLocal, OnlyPeer

(* An entry of s that has aged, before it is looked at. *)
LEMMA AgedParts ==
    ASSUME NEW s \in Switch, SwitchInv(s), s.mac.found
    PROVE  LET t == SetLocalAge(s)
           IN  t \in Switch /\ OfKind(t) /\ OnOrigin(t) /\ t.mac.found /\ AgedTo(t, s, TRUE)
  <1> DEFINE t == SetLocalAge(s)
  <1>1. Kept(t, s) /\ AgedTo(t, s, TRUE)
    BY LocalAgeType, LocalAgeIs
  <1> HIDE DEF t
  <1>2. t \in Switch /\ OfKind(t) /\ OnOrigin(t) /\ t.mac.found
    BY <1>1 DEF Kept, AgedTo, With, SwitchInv, OfKind, OnOrigin
  <1> QED BY <1>1, <1>2 DEF t

LEMMA AgedOnLinkInv ==
    ASSUME NEW s \in Switch, SwitchInv(s), s.mac.found, s.mac.ifname = "link"
    PROVE  SwitchInv(AgedOnLink(s))
  <1> DEFINE t == SetLocalAge(s)
             out == IF t.mac.synced THEN DelFromChip(t) ELSE t
  <1>1. t \in Switch /\ OfKind(t) /\ OnOrigin(t) /\ t.mac.found /\ AgedTo(t, s, TRUE)
    BY AgedParts
  <1>2. /\ t.mac.ifname = "link"
        /\ t.kind = "dynamic" /\ t.haslink /\ ~t.inherited => t.chip # "po"
    BY <1>1 DEF AgedTo, With, SwitchInv, ChipRight, InstalledOnPo
  <1>3. \/ AgedOnLink(s) = s
        \/ AgedOnLink(s) = Removed(out)
        \/ ~BothAged(t) /\ AgedOnLink(s) \in {AddToChip(t), t}
    <2>1. s.mac.pend \in BOOLEAN
      BY DEF Switch, Mac
    <2>2. CASE s.mac.pend
      BY <2>2 DEF AgedOnLink
    <2>3. CASE ~s.mac.pend
      BY <2>3 DEF AgedOnLink
    <2> QED BY <2>1, <2>2, <2>3
  <1> HIDE DEF t
  <1>4. SwitchInv(Removed(out))
    <2>1. Removable(t)
      BY <1>1, <1>2 DEF Removable
    <2>2. out \in Switch /\ Removable(out)
      BY <1>1, <2>1, DelRemovable, DelFromChipType DEF Kept
    <2> HIDE DEF out
    <2> QED BY <2>2, RemovedInv
  <1>5. ~BothAged(t) => SwitchInv(AddToChip(t)) /\ SwitchInv(t)
    BY <1>1, <1>2, AddInv DEF SwitchInv, AgesApart, ChipRight
  <1> QED BY <1>3, <1>4, <1>5

LEMMA AgedOnPortInv ==
    ASSUME NEW s \in Switch, SwitchInv(s), s.mac.found, s.mac.ifname # "link", NEW i \in HostPort
    PROVE  SwitchInv(AgedOnPort(s, i))
  <1> DEFINE t == SetLocalAge(s)
             linked == [t EXCEPT !.mac.ifname = "link"]
             out == IF t.mac.synced THEN DelFromChip(t) ELSE t
  <1>1. t \in Switch /\ OfKind(t) /\ OnOrigin(t) /\ t.mac.found /\ AgedTo(t, s, TRUE)
    BY AgedParts
  <1>2. /\ t.mac.local /\ t.mac.peer = s.mac.peer /\ t.mac.synced = s.mac.synced
        /\ t.mac.ifname = s.mac.ifname /\ t.chip = s.chip /\ t.inherited = s.inherited
        /\ t.kind = s.kind /\ t.haslink = s.haslink /\ t.up = s.up /\ t.state = s.state
    BY <1>1 DEF AgedTo, With
  <1>3. \/ BothAged(t) /\ AgedOnPort(s, i) = Removed(out)
        \/ ~BothAged(t) /\ AgedOnPort(s, i) \in {t, AddToChip(linked)}
        \/ ~BothAged(t) /\ AgedOnPort(s, i) = linked /\ ~t.up["po"]
        \/ ~BothAged(t) /\ AgedOnPort(s, i) = AddToChip(t) /\ t.up[t.mac.ifname]
    BY DEF AgedOnPort
  <1> HIDE DEF t
  <1>4. BothAged(t) => SwitchInv(Removed(out))
    <2> HAVE BothAged(t)
    <2>1. ~t.mac.synced => Removable(t)
      BY <1>1, <1>2 DEF Removable, BothAged, SwitchInv, ChipRight, InstalledOnPo, OnlyPeer
    <2>2. t.mac.synced => DelFromChip(t) \in Switch /\ Removable(DelFromChip(t))
      BY <1>1, DelRemovable, DelFromChipType DEF Kept
    <2>3. out \in Switch /\ Removable(out)
      BY <1>1, <2>1, <2>2
    <2> HIDE DEF out
    <2> QED BY <2>3, RemovedInv
  <1>5. ~BothAged(t) => SwitchInv(t)
    BY <1>1, <1>2 DEF SwitchInv, AgesApart, ChipRight, InstalledOnPo, OnlyLocal, OnlyPeer, BothAged
  <1>6. /\ linked \in Switch
        /\ With(linked, t, [t.mac EXCEPT !.ifname = "link"], t.chip, t.inherited)
    <2>1. linked \in Switch
      BY <1>1, FieldType DEF Kept, Port
    <2> QED BY <1>1, <2>1 DEF With, Switch, Mac
  <1>7. ~BothAged(t) => /\ OfKind(linked) /\ OnOrigin(linked) /\ AgesApart(linked)
                        /\ linked.mac.found /\ linked.mac.ifname = "link"
    <2>1. t.mac \in Mac
      BY <1>1 DEF Switch
    <2> HIDE DEF linked
    <2>2. /\ linked.mac.found = t.mac.found /\ linked.mac.type = t.mac.type
          /\ linked.mac.queued = t.mac.queued /\ linked.mac.ifname = "link"
          /\ linked.mac.local = t.mac.local /\ linked.mac.peer = t.mac.peer
          /\ linked.kind = t.kind /\ linked.detached = t.detached
      BY <1>6, <2>1 DEF With, Mac
    <2> QED BY <1>1, <2>2 DEF OfKind, OnOrigin, AgesApart, BothAged
  <1>8. ~BothAged(t) => SwitchInv(AddToChip(linked))
    BY <1>6, <1>7, AddInv
  <1>9. ~BothAged(t) /\ ~t.up["po"] => SwitchInv(linked)
    <2> HAVE ~BothAged(t) /\ ~t.up["po"]
    <2>1. linked.kind = "dynamic" /\ linked.haslink /\ ~linked.inherited => linked.chip # "po"
      BY <1>2, <1>5, <1>6 DEF With, SwitchInv, ChipRight, OnlyLocal
    <2> QED BY <1>7, <2>1 DEF SwitchInv, ChipRight
  <1>10. ~BothAged(t) /\ t.up[t.mac.ifname] => SwitchInv(AddToChip(t))
    BY <1>1, <1>5, AddInv DEF SwitchInv
  <1> QED BY <1>3, <1>4, <1>5, <1>8, <1>9, <1>10

LEMMA FromSyncdInv ==
    ASSUME NEW s \in Switch, SwitchInv(s), NEW n \in Item, n.op = "add" => n.type = s.kind
    PROVE  SwitchInv(FromSyncd(s, n))
  <1>1. n.port \in HostPort /\ n.op \in {"add", "del"}
    BY DEF Item, Op
  <1>2. CASE n.op = "add"
    BY <1>1, <1>2, LearntKnownInv, LearntNewInv DEF FromSyncd
  <1>3. CASE n.op = "del" /\ s.mac.found
    BY <1>1, <1>3, AgedOnLinkInv, AgedOnPortInv DEF FromSyncd
  <1>4. CASE n.op = "del" /\ ~s.mac.found
    BY <1>4 DEF FromSyncd
  <1> QED BY <1>1, <1>2, <1>3, <1>4

-----------------------------------------------------------------------------
(* Updates of the peer and the invariant. *)

LEMMA FieldIs ==
    ASSUME NEW s \in Switch
    PROVE  /\ \A x \in Port : With([s EXCEPT !.mac.ifname = x], s, [s.mac EXCEPT !.ifname = x],
                                   s.chip, s.inherited)
           /\ \A x \in HostPort : With([s EXCEPT !.mac.origin = x], s, [s.mac EXCEPT !.origin = x],
                                       s.chip, s.inherited)
           /\ \A b \in BOOLEAN :
                 /\ With([s EXCEPT !.mac.local = b], s, [s.mac EXCEPT !.local = b],
                         s.chip, s.inherited)
                 /\ With([s EXCEPT !.mac.peer = b], s, [s.mac EXCEPT !.peer = b],
                         s.chip, s.inherited)
                 /\ With([s EXCEPT !.mac.pend = b], s, [s.mac EXCEPT !.pend = b],
                         s.chip, s.inherited)
                 /\ With([s EXCEPT !.timer = b], s, s.mac, s.chip, s.inherited)
                 /\ With([s EXCEPT !.changed = b], s, s.mac, s.chip, s.inherited)
           /\ \A x \in Op : With([s EXCEPT !.mac.op = x], s, [s.mac EXCEPT !.op = x],
                                 s.chip, s.inherited)
  <1>1. ASSUME NEW x \in Port
        PROVE  With([s EXCEPT !.mac.ifname = x], s, [s.mac EXCEPT !.ifname = x], s.chip, s.inherited)
    BY DEF With, Switch
  <1>2. ASSUME NEW x \in HostPort
        PROVE  With([s EXCEPT !.mac.origin = x], s, [s.mac EXCEPT !.origin = x], s.chip, s.inherited)
    BY DEF With, Switch
  <1>3. ASSUME NEW b \in BOOLEAN
        PROVE  With([s EXCEPT !.mac.local = b], s, [s.mac EXCEPT !.local = b], s.chip, s.inherited)
    BY DEF With, Switch
  <1>4. ASSUME NEW b \in BOOLEAN
        PROVE  With([s EXCEPT !.mac.peer = b], s, [s.mac EXCEPT !.peer = b], s.chip, s.inherited)
    BY DEF With, Switch
  <1>5. ASSUME NEW b \in BOOLEAN
        PROVE  With([s EXCEPT !.mac.pend = b], s, [s.mac EXCEPT !.pend = b], s.chip, s.inherited)
    BY DEF With, Switch
  <1>6. ASSUME NEW b \in BOOLEAN
        PROVE  /\ With([s EXCEPT !.timer = b], s, s.mac, s.chip, s.inherited)
               /\ With([s EXCEPT !.changed = b], s, s.mac, s.chip, s.inherited)
    BY DEF With, Switch
  <1>7. ASSUME NEW x \in Op
        PROVE  With([s EXCEPT !.mac.op = x], s, [s.mac EXCEPT !.op = x], s.chip, s.inherited)
    BY DEF With, Switch
  <1> QED BY <1>1, <1>2, <1>3, <1>4, <1>5, <1>6, <1>7

(* Two switches that differ in nothing the invariant looks at. *)
LEMMA SameInv ==
    ASSUME NEW s, NEW t, With(t, s, s.mac, s.chip, s.inherited)
    PROVE  SwitchInv(t) <=> SwitchInv(s)
  BY DEF With, SwitchInv, OfKind, OnOrigin, AgesApart, BothAged, ChipRight, InstalledOnPo,
         OnlyLocal, OnlyPeer

LEMMA PeerAddKnownInv ==
    ASSUME NEW s \in Switch, SwitchInv(s), s.mac.found, s.state = "EXCHANGE", NEW i \in HostPort
    PROVE  SwitchInv(PeerAddKnown(s, i))
  <1> DEFINE mine == [s EXCEPT !.mac.pend = FALSE, !.mac.local = TRUE, !.mac.peer = FALSE]
             s1 == IF FromMclag(i) /\ s.mac.pend THEN Queued(mine, "del")
                   ELSE [s EXCEPT !.mac.peer = FALSE]
             moved == [s1 EXCEPT !.mac.origin = i]
             away == SetLocalAge(moved)
             gone == [DelFromChip(away) EXCEPT !.mac.ifname = i]
             here == [moved EXCEPT !.mac.ifname = i]
             there == [away EXCEPT !.mac.ifname = "link"]
             orphan == [s1 EXCEPT !.mac.ifname = "link"]
             aged == [s1 EXCEPT !.mac.peer = TRUE]
  <1>0. /\ i \in Port /\ "link" \in Port /\ "del" \in Op /\ s.mac \in Mac
        /\ OfKind(s) /\ OnOrigin(s) /\ AgesApart(s) /\ ChipRight(s)
    BY DEF Port, HostPort, Op, Switch, SwitchInv
  <1>1. \/ PeerAddKnown(s, i) = s1
        \/ PeerAddKnown(s, i) = AddToChip(orphan)
        \/ PeerAddKnown(s, i) = aged /\ s.mac.type = "static"
        \/ PeerAddKnown(s, i) = AddToChip(here) /\ i = "po" /\ s.up["po"]
        \/ PeerAddKnown(s, i) \in {gone, Removed(gone)} /\ ~s.haslink
        \/ PeerAddKnown(s, i) = away /\ s.mac.ifname = "link"
        \/ PeerAddKnown(s, i) = AddToChip(there)
    BY DEF PeerAddKnown, RemovedIf, FromMclag
  (* s1 is s, not aged by the peer. *)
  <1>2. /\ s1 \in Switch /\ s1.mac \in Mac /\ With(s1, s, s1.mac, s.chip, s.inherited)
        /\ s1.mac.found /\ s1.mac.type = s.mac.type /\ s1.mac.ifname = s.mac.ifname
        /\ s1.mac.origin = s.mac.origin /\ s1.mac.synced = s.mac.synced
        /\ ~s1.mac.peer /\ (s.mac.local => s1.mac.local)
    <2>1. /\ mine \in Switch
          /\ With(mine, s, [s.mac EXCEPT !.pend = FALSE, !.local = TRUE, !.peer = FALSE],
                  s.chip, s.inherited)
      <3> DEFINE m == [s.mac EXCEPT !.pend = FALSE, !.local = TRUE, !.peer = FALSE]
      <3>1. m \in Mac
        BY <1>0 DEF Mac
      <3>2. mine = [s EXCEPT !.mac = m]
        BY DEF Switch, Mac
      <3> HIDE DEF m
      <3>3. With(mine, s, m, s.chip, s.inherited)
        BY <3>1, <3>2 DEF With, Switch
      <3> QED BY <3>1, <3>2, <3>3, EntryType DEF m, Kept
    <2> HIDE DEF mine
    <2>2. CASE FromMclag(i) /\ s.mac.pend
      <3>1. s1 = Queued(mine, "del")
        BY <2>2
      <3> HIDE DEF s1
      <3>2. s1 \in Switch /\ With(s1, mine, [mine.mac EXCEPT !.op = "del", !.queued = TRUE],
                                  mine.chip, mine.inherited)
        BY <1>0, <2>1, <3>1, Basics, QueuedType DEF Kept
      <3>3. s1.mac \in Mac
        BY <3>2 DEF Switch
      <3> QED BY <1>0, <2>1, <3>2, <3>3 DEF With, Mac
    <2>3. CASE ~(FromMclag(i) /\ s.mac.pend)
      <3>1. s1 = [s EXCEPT !.mac.peer = FALSE]
        BY <2>3
      <3> HIDE DEF s1
      <3>2. s1 \in Switch /\ With(s1, s, [s.mac EXCEPT !.peer = FALSE], s.chip, s.inherited)
        BY <3>1, FieldType, FieldIs DEF Kept
      <3>3. s1.mac \in Mac
        BY <3>2 DEF Switch
      <3> QED BY <1>0, <3>2, <3>3 DEF With, Mac
    <2> QED BY <2>2, <2>3
  <1> HIDE DEF s1
  <1>3. OfKind(s1) /\ OnOrigin(s1) /\ AgesApart(s1)
    BY <1>0, <1>2 DEF OfKind, OnOrigin, AgesApart, BothAged, With
  <1>4. SwitchInv(s1)
    BY <1>0, <1>2, <1>3 DEF SwitchInv, ChipRight, InstalledOnPo, OnlyPeer, OnlyLocal, With
  <1>5. SwitchInv(AddToChip(orphan))
    <2>1. orphan \in Switch /\ With(orphan, s1, [s1.mac EXCEPT !.ifname = "link"], s1.chip, s1.inherited)
      BY <1>0, <1>2, FieldType, FieldIs DEF Kept
    <2> HIDE DEF orphan
    <2>2. OfKind(orphan) /\ OnOrigin(orphan) /\ AgesApart(orphan) /\ orphan.mac.found
          /\ orphan.mac.ifname = "link"
      BY <1>2, <1>3, <2>1 DEF OfKind, OnOrigin, AgesApart, BothAged, With, Mac
    <2> QED BY <2>1, <2>2, AddInv
  <1>6. s.mac.type = "static" => SwitchInv(aged)
    <2> HAVE s.mac.type = "static"
    <2>1. aged \in Switch /\ With(aged, s1, [s1.mac EXCEPT !.peer = TRUE], s1.chip, s1.inherited)
      BY <1>0, <1>2, FieldType, FieldIs DEF Kept
    <2> HIDE DEF aged
    <2>2. aged.kind = "static"
      BY <1>0, <1>2, <2>1 DEF With, OfKind
    <2>3. OfKind(aged) /\ OnOrigin(aged)
      BY <1>2, <1>3, <2>1 DEF OfKind, OnOrigin, With, Mac
    <2> QED BY <2>2, <2>3 DEF SwitchInv, AgesApart, ChipRight
  (* The entry moved to the peer's port. *)
  <1>7. moved \in Switch /\ With(moved, s1, [s1.mac EXCEPT !.origin = i], s1.chip, s1.inherited)
    BY <1>0, <1>2, FieldType, FieldIs DEF Kept
  <1> HIDE DEF moved
  <1>8. /\ moved.mac \in Mac /\ OfKind(moved) /\ AgesApart(moved) /\ moved.mac.found
        /\ moved.mac.origin = i /\ moved.mac.ifname = s.mac.ifname /\ ~moved.mac.peer
        /\ With(moved, s, moved.mac, s.chip, s.inherited)
    BY <1>2, <1>3, <1>7 DEF OfKind, AgesApart, BothAged, With, Mac, Switch
  <1>9. i = "po" /\ s.up["po"] => SwitchInv(AddToChip(here))
    <2> HAVE i = "po" /\ s.up["po"]
    <2>1. here \in Switch /\ With(here, moved, [moved.mac EXCEPT !.ifname = i], moved.chip, moved.inherited)
      BY <1>0, <1>7, FieldType, FieldIs DEF Kept
    <2> HIDE DEF here
    <2>2. OfKind(here) /\ OnOrigin(here) /\ AgesApart(here) /\ here.mac.found
      BY <1>8, <2>1 DEF OfKind, OnOrigin, AgesApart, BothAged, With, Mac
    <2>3. here.up["po"]
      BY <1>8, <2>1 DEF With
    <2> QED BY <2>1, <2>2, <2>3, AddInv
  <1>10. away \in Switch /\ AgedTo(away, moved, TRUE)
    BY <1>7, LocalAgeIs, LocalAgeType DEF Kept
  <1> HIDE DEF away
  <1>11. /\ away.mac \in Mac /\ OfKind(away) /\ AgesApart(away) /\ away.mac.found
         /\ away.mac.origin = i /\ away.mac.ifname = s.mac.ifname /\ ~away.mac.peer
         /\ With(away, s, away.mac, s.chip, s.inherited)
    BY <1>8, <1>10 DEF AgedTo, OfKind, AgesApart, BothAged, With, Switch
  <1>12. s.mac.ifname = "link" => SwitchInv(away)
    BY <1>0, <1>11 DEF SwitchInv, OnOrigin, ChipRight, InstalledOnPo, With
  <1>13. SwitchInv(AddToChip(there))
    <2>1. there \in Switch /\ With(there, away, [away.mac EXCEPT !.ifname = "link"], away.chip, away.inherited)
      BY <1>0, <1>10, FieldType, FieldIs DEF Kept
    <2> HIDE DEF there
    <2>2. OfKind(there) /\ OnOrigin(there) /\ AgesApart(there) /\ there.mac.found
          /\ there.mac.ifname = "link"
      BY <1>11, <2>1 DEF OfKind, OnOrigin, AgesApart, BothAged, With, Mac
    <2> QED BY <2>1, <2>2, AddInv
  <1>14. ~s.haslink => SwitchInv(gone) /\ SwitchInv(Removed(gone))
    <2> HAVE ~s.haslink
    <2> DEFINE d == DelFromChip(away)
    <2>1. d \in Switch /\ With(d, away, [away.mac EXCEPT !.synced = FALSE], "none", FALSE)
      BY <1>10, Basics, DelFromChipType DEF Kept
    <2>2. gone = [d EXCEPT !.mac.ifname = i]
      OBVIOUS
    <2> HIDE DEF d, gone
    <2>3. gone \in Switch /\ With(gone, d, [d.mac EXCEPT !.ifname = i], d.chip, d.inherited)
      BY <1>0, <2>1, <2>2, FieldType, FieldIs DEF Kept
    <2>4. d.mac \in Mac /\ gone.mac \in Mac
      BY <2>1, <2>3 DEF Switch
    <2>5. /\ gone.mac.found = away.mac.found /\ gone.mac.type = away.mac.type
          /\ gone.mac.queued = away.mac.queued /\ gone.mac.ifname = i
          /\ gone.mac.origin = away.mac.origin /\ gone.mac.peer = away.mac.peer
      BY ZenonT(60), <1>11, <2>1, <2>3, <2>4 DEF With, Mac
    <2>6. gone.kind = away.kind /\ gone.detached = away.detached /\ gone.haslink = s.haslink
          /\ gone.chip = "none"
      BY <1>11, <2>1, <2>3 DEF With
    <2>7. OfKind(gone) /\ OnOrigin(gone) /\ AgesApart(gone)
      BY <1>11, <2>5, <2>6 DEF OfKind, OnOrigin, AgesApart, BothAged
    <2>8. SwitchInv(gone)
      BY <2>6, <2>7 DEF SwitchInv, ChipRight
    <2>9. Removable(gone)
      BY <2>6, <2>7 DEF Removable
    <2> QED BY <2>3, <2>8, <2>9, RemovedInv
  <1> QED BY <1>1, <1>4, <1>5, <1>6, <1>9, <1>12, <1>13, <1>14

LEMMA PeerAddNewInv ==
    ASSUME NEW s \in Switch, SwitchInv(s), ~s.mac.found, NEW i \in HostPort
    PROVE  SwitchInv(PeerAddNew(s, i, s.kind))
  <1> DEFINE m(port) == [NoMac EXCEPT !.found = TRUE, !.origin = i, !.type = s.kind,
                                      !.ifname = port, !.local = TRUE]
             new(port) == [s EXCEPT !.mac = m(port)]
  <1>0. /\ s.kind \in Types /\ OfKind(s)
        /\ s.kind = "dynamic" /\ s.haslink /\ ~s.inherited => s.chip # "po"
    BY DEF Switch, SwitchInv, ChipRight, InstalledOnPo
  <1>1. \/ PeerAddNew(s, i, s.kind) \in {s, new("link"), Chip(new("link"), "link"), new(i)}
        \/ PeerAddNew(s, i, s.kind) = Chip(new(i), i) /\ s.up[i]
    BY DEF PeerAddNew
  <1>2. ASSUME NEW port \in {"link", i}
        PROVE  /\ SwitchInv(new(port))
               /\ port = "link" \/ s.up[port] => SwitchInv(Chip(new(port), port))
    <2> DEFINE e == m(port)
               n == new(port)
               c == Chip(n, port)
    <2>1. /\ e \in Mac /\ e.found /\ e.type = s.kind /\ e.local /\ ~e.peer
          /\ e.ifname = port /\ e.origin = i
      <3>1. NoMac \in Mac /\ ~NoMac.peer
        BY NoMacType DEF NoMac
      <3> QED BY <1>0, <1>2, <3>1 DEF Mac, Port, HostPort
    <2>2. n = [s EXCEPT !.mac = e]
      OBVIOUS
    <2> HIDE DEF e, n
    <2>3. n \in Switch /\ With(n, s, e, s.chip, s.inherited)
      BY <2>1, <2>2, EntryType DEF With, Switch, Kept
    <2>4. SwitchInv(n)
      BY <1>0, <1>2, <2>1, <2>3, InvFrom DEF With, ChipRight
    <2>5. port = "link" \/ s.up[port] => SwitchInv(c)
      <3> HAVE port = "link" \/ s.up[port]
      <3>1. With(c, n, n.mac, port, FALSE)
        BY <1>2, <2>3, Basics DEF Port, HostPort
      <3> HIDE DEF c
      <3>2. ChipRight(c)
        BY <2>1, <2>3, <3>1 DEF With, ChipRight, InstalledOnPo, OnlyPeer
      <3> QED BY <1>0, <1>2, <2>1, <2>3, <3>1, <3>2, InvFrom DEF With
    <2> QED BY <2>4, <2>5 DEF n, c
  <1> HIDE DEF new
  <1> QED BY <1>1, <1>2

LEMMA PeerDelInv ==
    ASSUME NEW s \in Switch, SwitchInv(s), s.mac.found, s.state = "EXCHANGE"
    PROVE  SwitchInv(PeerDel(s))
  <1> DEFINE t == [s EXCEPT !.mac.peer = TRUE]
  <1>0. s.mac \in Mac
    BY DEF Switch
  <1>1. t \in Switch /\ With(t, s, [s.mac EXCEPT !.peer = TRUE], s.chip, s.inherited)
    BY FieldType, FieldIs DEF Kept
  <1>2. PeerDel(s) = IF BothAged(t) THEN Removed(DelFromChip(t)) ELSE t
    BY DEF PeerDel
  <1> HIDE DEF t
  <1>3. /\ t.mac.found /\ t.mac.type = s.mac.type /\ t.mac.ifname = s.mac.ifname
        /\ t.mac.origin = s.mac.origin /\ t.mac.local = s.mac.local
        /\ t.mac.peer /\ t.mac.queued = s.mac.queued /\ t.mac.synced = s.mac.synced
    BY <1>0, <1>1 DEF With, Mac
  <1>4. OfKind(t) /\ OnOrigin(t)
    BY <1>1, <1>3 DEF With, SwitchInv, OfKind, OnOrigin
  <1>5. CASE BothAged(t)
    BY <1>1, <1>2, <1>4, <1>5, DelRemovable, DelFromChipType, RemovedInv DEF Kept
  <1>6. CASE ~BothAged(t)
    <2>1. ~s.mac.local
      BY <1>3, <1>6 DEF BothAged
    <2>2. ChipRight(t)
      BY <1>1, <1>3, <2>1 DEF With, SwitchInv, ChipRight, InstalledOnPo, OnlyPeer
    <2> QED BY <1>2, <1>4, <1>6, <2>2 DEF SwitchInv, AgesApart
  <1> QED BY <1>5, <1>6

LEMMA FromPeerInv ==
    ASSUME NEW s \in Switch, SwitchInv(s), s.state = "EXCHANGE", NEW m \in Item, m.type = s.kind
    PROVE  SwitchInv(FromPeer(s, m))
  <1>1. m.port \in HostPort
    BY DEF Item
  <1> QED BY <1>1, PeerAddKnownInv, PeerAddNewInv, PeerDelInv DEF FromPeer

LEMMA FromPeersInv ==
    ASSUME NEW s \in Switch, SwitchInv(s), s.state = "EXCHANGE", NEW items \in Seq(Item),
           \A n \in 1..Len(items) : items[n].type = s.kind
    PROVE  SwitchInv(FromPeers(s, items))
  <1> DEFINE S == {t \in Switch : Kept(t, s) /\ SwitchInv(t)}
  <1>1. s \in S
    BY DEF Kept, Same
  <1>2. ASSUME NEW t \in S, NEW n \in 1..Len(items) PROVE FromPeer(t, items[n]) \in S
    <2>1. t \in Switch /\ Kept(t, s) /\ SwitchInv(t) /\ items[n] \in Item
      OBVIOUS
    <2>2. t.kind = s.kind /\ t.state = "EXCHANGE"
      BY <2>1 DEF Kept, Same
    <2>3. Kept(FromPeer(t, items[n]), s)
      BY <2>1, FromPeerType, KeptAgain
    <2>4. SwitchInv(FromPeer(t, items[n]))
      BY <2>1, <2>2, FromPeerInv
    <2> QED BY <2>3, <2>4 DEF Kept
  <1> HIDE DEF S
  <1>3. FromPeers(s, items) \in S
    BY <1>1, <1>2, FromPeersIn
  <1> QED BY <1>3 DEF S

-----------------------------------------------------------------------------
(* Interfaces and the invariant. *)

(* The invariant but for the state of the port-channel. *)
LooseInv(s) ==
    /\ OfKind(s) /\ OnOrigin(s) /\ AgesApart(s)
    /\ s.kind = "dynamic" /\ s.haslink /\ ~s.inherited /\ s.chip = "po" => InstalledOnPo(s)

LEMMA PendInv ==
    ASSUME NEW s \in Switch, SwitchInv(s), NEW b \in BOOLEAN
    PROVE  SwitchInv([s EXCEPT !.mac.pend = b])
  <1> DEFINE t == [s EXCEPT !.mac.pend = b]
  <1>1. s.mac \in Mac
    BY DEF Switch
  <1>2. With(t, s, [s.mac EXCEPT !.pend = b], s.chip, s.inherited)
    BY FieldIs
  <1> HIDE DEF t
  <1>3. /\ t.mac.found = s.mac.found /\ t.mac.type = s.mac.type /\ t.mac.ifname = s.mac.ifname
        /\ t.mac.origin = s.mac.origin /\ t.mac.local = s.mac.local
        /\ t.mac.peer = s.mac.peer /\ t.mac.synced = s.mac.synced /\ t.mac.queued = s.mac.queued
    BY <1>1, <1>2 DEF Mac, With
  <1> QED BY <1>2, <1>3 DEF t, With, SwitchInv, OfKind, OnOrigin, AgesApart, BothAged, ChipRight,
                             InstalledOnPo, OnlyLocal, OnlyPeer

LEMMA RedirectedInv ==
    ASSUME NEW s \in Switch, OfKind(s), AgesApart(s), s.mac.found
    PROVE  SwitchInv(Redirected(s))
  <1> DEFINE linked == [s EXCEPT !.mac.ifname = "link"]
             d == DelFromChip(s)
             off == [d EXCEPT !.mac.ifname = "link"]
  <1>0. s.mac \in Mac /\ "link" \in Port
    BY DEF Switch, Port
  <1>1. Redirected(s) \in {AddToChip(linked), off}
    BY DEF Redirected
  <1>2. /\ linked \in Switch
        /\ With(linked, s, [s.mac EXCEPT !.ifname = "link"], s.chip, s.inherited)
    BY <1>0, FieldType, FieldIs DEF Kept
  <1> HIDE DEF linked
  <1>3. /\ OfKind(linked) /\ OnOrigin(linked) /\ AgesApart(linked) /\ linked.mac.found
        /\ linked.mac.ifname = "link"
    BY <1>0, <1>2 DEF OfKind, OnOrigin, AgesApart, BothAged, With, Mac
  <1>4. SwitchInv(AddToChip(linked))
    BY <1>2, <1>3, AddInv
  <1>5. d \in Switch /\ With(d, s, [s.mac EXCEPT !.synced = FALSE], "none", FALSE)
    BY Basics, DelFromChipType DEF Kept
  <1> HIDE DEF d
  <1>6. With(off, d, [d.mac EXCEPT !.ifname = "link"], d.chip, d.inherited) /\ d.mac \in Mac
    BY <1>0, <1>5, FieldIs DEF Switch
  <1> HIDE DEF off
  <1>7. /\ off.mac.found /\ off.mac.type = s.mac.type /\ off.mac.ifname = "link"
        /\ off.mac.local = s.mac.local /\ off.mac.peer = s.mac.peer
        /\ off.kind = s.kind /\ off.detached = s.detached /\ off.chip = "none"
    BY <1>0, <1>5, <1>6 DEF With, Mac
  <1>8. SwitchInv(off)
    BY <1>7, InvFrom DEF ChipRight, OfKind, AgesApart, BothAged
  <1> QED BY <1>1, <1>4, <1>8

LEMMA PendingClearedInv ==
    ASSUME NEW s \in Switch, OfKind(s), OnOrigin(s), AgesApart(s)
    PROVE  SwitchInv(PendingCleared(s))
  <1> DEFINE t == DelFromChip(s)
             kept == [t EXCEPT !.mac.pend = FALSE]
             off == [t EXCEPT !.mac.op = "del"]
  <1>1. t \in Switch /\ SwitchInv(t) /\ Removable(t)
    BY DelFromChipType, DelInv, DelRemovable DEF Kept
  <1>2. PendingCleared(s) \in {kept, Removed(off)}
    BY DEF PendingCleared
  <1> HIDE DEF t
  <1>3. SwitchInv(kept)
    BY <1>1, PendInv
  <1>4. off \in Switch /\ With(off, t, [t.mac EXCEPT !.op = "del"], t.chip, t.inherited)
    BY <1>1, FieldType, FieldIs DEF Kept, Op
  <1>5. t.mac \in Mac
    BY <1>1 DEF Switch
  <1> HIDE DEF off
  <1>6. Removable(off)
    BY <1>1, <1>4, <1>5 DEF Removable, OfKind, With, Mac
  <1> QED BY <1>2, <1>3, <1>4, <1>6, RemovedInv

LEMMA PoUpInv ==
    ASSUME NEW s0 \in Switch, LooseInv(s0), s0.up["po"]
    PROVE  SwitchInv(PoUp(s0))
  <1> DEFINE s == [s0 EXCEPT !.timer = FALSE]
             back == [s EXCEPT !.mac.pend = FALSE, !.mac.ifname = "po"]
  <1>1. s \in Switch /\ With(s, s0, s0.mac, s0.chip, s0.inherited)
    BY FieldType, FieldIs DEF Kept
  <1>2. \/ PoUp(s0) = s
        \/ s.mac.found /\ s.mac.origin = "po" /\ PoUp(s0) \in {AddToChip(back), AddAgeing(back)}
        \/ PoUp(s0) = PendingCleared(s)
    BY DEF PoUp
  <1> HIDE DEF s
  <1>3. LooseInv(s) /\ s.up["po"] /\ s.mac \in Mac
    BY <1>1 DEF With, LooseInv, OfKind, OnOrigin, AgesApart, BothAged, InstalledOnPo, OnlyPeer, Switch
  <1>4. SwitchInv(s)
    BY <1>3 DEF LooseInv, SwitchInv, ChipRight
  <1>5. SwitchInv(PendingCleared(s))
    BY <1>1, <1>3, PendingClearedInv DEF LooseInv
  <1>6. s.mac.found /\ s.mac.origin = "po" => SwitchInv(AddToChip(back)) /\ SwitchInv(AddAgeing(back))
    <2> HAVE s.mac.found /\ s.mac.origin = "po"
    <2> DEFINE m == [s.mac EXCEPT !.pend = FALSE, !.ifname = "po"]
    <2>1. /\ m \in Mac /\ m.found /\ m.type = s.mac.type /\ m.ifname = "po" /\ m.origin = "po"
          /\ m.local = s.mac.local /\ m.peer = s.mac.peer /\ m.queued = s.mac.queued
      BY <1>3 DEF Mac, Port
    <2>2. back = [s EXCEPT !.mac = m]
      BY <1>1 DEF Switch, Mac
    <2> HIDE DEF m, back
    <2>3. back \in Switch /\ With(back, s, m, s.chip, s.inherited)
      BY <1>1, <2>1, <2>2, EntryType DEF With, Switch, Kept
    <2>4. OfKind(back) /\ OnOrigin(back) /\ AgesApart(back) /\ back.mac.found /\ back.up["po"]
      BY <1>3, <2>1, <2>3 DEF With, LooseInv, OfKind, OnOrigin, AgesApart, BothAged
    <2> QED BY <2>3, <2>4, AddInv
  <1> QED BY <1>2, <1>4, <1>5, <1>6

LEMMA PoDownInv ==
    ASSUME NEW s0 \in Switch, LooseInv(s0), ~s0.up["po"]
    PROVE  SwitchInv(PoDown(s0))
  <1> DEFINE s == [s0 EXCEPT !.timer = TRUE]
             t == SetLocalAge(s)
             r == Redirected(s)
             out == IF t.mac.type = "static" THEN t ELSE DelFromChip(t)
  <1>1. s \in Switch /\ With(s, s0, s0.mac, s0.chip, s0.inherited)
    BY FieldType, FieldIs DEF Kept
  <1>2. \/ PoDown(s0) = s /\ ~(s.mac.found /\ s.mac.origin = "po")
        \/ s.mac.found /\ PoDown(s0) = [r EXCEPT !.mac.pend = TRUE]
        \/ s.mac.found /\ PoDown(s0) = Removed(out)
        \/ s.mac.found /\ ~BothAged(t) /\ PoDown(s0) \in {Redirected(t), DelFromChip(t)}
    BY DEF PoDown
  <1> HIDE DEF s
  <1>3. LooseInv(s) /\ s.mac \in Mac
    BY <1>1 DEF With, LooseInv, OfKind, OnOrigin, AgesApart, BothAged, InstalledOnPo, OnlyPeer, Switch
  <1>4. ~(s.mac.found /\ s.mac.origin = "po") => SwitchInv(s)
    BY <1>3 DEF LooseInv, SwitchInv, ChipRight, InstalledOnPo, OnOrigin
  <1>5. s.mac.found => SwitchInv([r EXCEPT !.mac.pend = TRUE])
    <2>1. s.mac.found => r \in Switch /\ SwitchInv(r)
      BY <1>1, <1>3, RedirectedInv, RedirectedType DEF LooseInv, Kept
    <2> HIDE DEF r
    <2> QED BY <2>1, PendInv
  <1>6. t \in Switch /\ AgedTo(t, s, TRUE)
    BY <1>1, LocalAgeIs, LocalAgeType DEF Kept
  <1> HIDE DEF t
  <1>7. s.mac.found => OfKind(t) /\ OnOrigin(t) /\ t.mac.found
    BY <1>3, <1>6 DEF AgedTo, With, LooseInv, OfKind, OnOrigin
  <1>8. s.mac.found => SwitchInv(Removed(out))
    <2> HAVE s.mac.found
    <2>1. t.mac.type = "static" => Removable(t)
      BY <1>7 DEF Removable, OfKind
    <2>2. DelFromChip(t) \in Switch /\ Removable(DelFromChip(t))
      BY <1>6, <1>7, DelRemovable, DelFromChipType DEF Kept
    <2>3. out \in Switch /\ Removable(out)
      BY <1>6, <2>1, <2>2
    <2> HIDE DEF out
    <2> QED BY <2>3, RemovedInv
  <1>9. s.mac.found /\ ~BothAged(t) => SwitchInv(Redirected(t)) /\ SwitchInv(DelFromChip(t))
    BY <1>6, <1>7, RedirectedInv, DelInv DEF AgesApart
  <1> QED BY <1>2, <1>4, <1>5, <1>8, <1>9

LEMMA PoStateInv ==
    ASSUME NEW s \in Switch, LooseInv(s)
    PROVE  SwitchInv(PoState(s))
  BY PoUpInv, PoDownInv DEF PoState

LEMMA OrphanUpInv ==
    ASSUME NEW s \in Switch, SwitchInv(s)
    PROVE  SwitchInv(OrphanUp(s))
  BY QueuedInv DEF OrphanUp, Op

LEMMA PeerLinkUpInv ==
    ASSUME NEW s \in Switch, SwitchInv(s)
    PROVE  SwitchInv(PeerLinkUp(s))
  BY AddInv DEF PeerLinkUp, SwitchInv

LEMMA PeerLinkDownInv ==
    ASSUME NEW s \in Switch, SwitchInv(s)
    PROVE  SwitchInv(PeerLinkDown(s))
  <1> DEFINE a == IF s.mac.pend THEN s ELSE SetLocalAge(s)
             t == DelFromChip(a)
  <1>1. \/ PeerLinkDown(s) = s
        \/ s.mac.found /\ PeerLinkDown(s) = IF BothAged(t) THEN Removed(t) ELSE t
    BY DEF PeerLinkDown, RemovedIf
  <1>2. ASSUME s.mac.found PROVE SwitchInv(IF BothAged(t) THEN Removed(t) ELSE t)
    <2>1. a \in Switch /\ OfKind(a) /\ OnOrigin(a)
      BY <1>2, AgedParts DEF SwitchInv
    <2> HIDE DEF a
    <2>2. t \in Switch /\ Removable(t)
      BY <2>1, DelRemovable, DelFromChipType DEF Kept
    <2>3. With(t, a, [a.mac EXCEPT !.synced = FALSE], "none", FALSE) /\ a.mac \in Mac
      BY <2>1, Basics DEF Switch
    <2> HIDE DEF t
    <2>4. ~BothAged(t) => AgesApart(a)
      BY <2>3 DEF With, Mac, BothAged, AgesApart
    <2>5. ~BothAged(t) => SwitchInv(t)
      BY <2>1, <2>4, DelInv DEF t
    <2> QED BY <2>2, <2>5, RemovedInv
  <1> QED BY <1>1, <1>2

LEMMA TimerExpiredInv ==
    ASSUME NEW s \in Switch, SwitchInv(s)
    PROVE  SwitchInv(TimerExpired(s))
  <1> DEFINE t == IF s.mac.found /\ s.mac.pend /\ s.mac.origin = "po" THEN PendingCleared(s) ELSE s
  <1>1. t \in Switch /\ SwitchInv(t)
    BY PendingClearedType, PendingClearedInv DEF Kept, SwitchInv
  <1>2. TimerExpired(s) = [t EXCEPT !.timer = FALSE]
    BY DEF TimerExpired
  <1> HIDE DEF t
  <1>3. With([t EXCEPT !.timer = FALSE], t, t.mac, t.chip, t.inherited)
    BY <1>1, FieldIs
  <1> QED BY <1>1, <1>2, <1>3, SameInv

(* A port other than the port-channel changes its state. *)
LEMMA ToggledInv ==
    ASSUME NEW s \in Switch, SwitchInv(s), NEW i \in Port, i # "po"
    PROVE  Toggled(s, i) \in Switch /\ SwitchInv(Toggled(s, i))
  <1> DEFINE t == Toggled(s, i)
  <1>1. t \in Switch
    BY DEF Toggled, Switch
  <1>2. /\ t.kind = s.kind /\ t.haslink = s.haslink /\ t.state = s.state /\ t.mac = s.mac
        /\ t.detached = s.detached /\ t.chip = s.chip /\ t.inherited = s.inherited
        /\ t.up["po"] = s.up["po"]
    BY DEF Toggled, Switch, Port
  <1> HIDE DEF t
  <1>3. SwitchInv(t)
    BY <1>2 DEF SwitchInv, OfKind, OnOrigin, AgesApart, BothAged, ChipRight, InstalledOnPo,
                OnlyLocal, OnlyPeer
  <1> QED BY <1>1, <1>3 DEF t

(* The port-channel does, and its entries have not been looked at. *)
LEMMA ToggledPo ==
    ASSUME NEW s \in Switch, SwitchInv(s)
    PROVE  LET t == [Toggled(s, "po") EXCEPT !.changed = TRUE]
           IN  /\ t \in Switch /\ LooseInv(t)
               /\ t.kind = s.kind /\ t.haslink = s.haslink /\ t.state = s.state
  <1> DEFINE t == [Toggled(s, "po") EXCEPT !.changed = TRUE]
  <1>1. t \in Switch
    BY DEF Toggled, Switch, Port
  <1>2. /\ t.kind = s.kind /\ t.haslink = s.haslink /\ t.state = s.state /\ t.mac = s.mac
        /\ t.detached = s.detached /\ t.chip = s.chip /\ t.inherited = s.inherited
    BY DEF Toggled, Switch
  <1> HIDE DEF t
  <1>3. LooseInv(t)
    BY <1>2 DEF SwitchInv, OfKind, OnOrigin, AgesApart, BothAged, ChipRight, InstalledOnPo,
                OnlyPeer, LooseInv
  <1> QED BY <1>1, <1>2, <1>3 DEF t

-----------------------------------------------------------------------------
(* The session and the invariant. *)

LEMMA RemoteToLocalInv ==
    ASSUME NEW s \in Switch, SwitchInv(s)
    PROVE  SwitchInv(RemoteToLocal(s))
  <1> DEFINE t == [s EXCEPT !.mac.local = FALSE, !.mac.peer = TRUE]
             a == AddAgeing(t)
  <1>1. \/ RemoteToLocal(s) = s
        \/ s.up["po"] /\ s.mac.found /\ RemoteToLocal(s) = Queued(a, "add")
    BY DEF RemoteToLocal
  <1>2. ASSUME s.up["po"], s.mac.found PROVE SwitchInv(Queued(a, "add"))
    <2> DEFINE m == [s.mac EXCEPT !.local = FALSE, !.peer = TRUE]
    <2>1. s.mac \in Mac
      BY DEF Switch
    <2>2. /\ m \in Mac /\ m.found /\ m.type = s.mac.type /\ m.ifname = s.mac.ifname
          /\ m.origin = s.mac.origin /\ ~m.local /\ m.queued = s.mac.queued
      BY <1>2, <2>1 DEF Mac
    <2>3. t = [s EXCEPT !.mac = m]
      BY DEF Switch, Mac
    <2> HIDE DEF m, t
    <2>4. t \in Switch /\ With(t, s, m, s.chip, s.inherited)
      BY <2>2, <2>3, EntryType DEF With, Switch, Kept
    <2>5. OfKind(t) /\ OnOrigin(t) /\ AgesApart(t) /\ t.mac.found /\ t.up["po"]
      BY <1>2, <2>2, <2>4 DEF With, SwitchInv, OfKind, OnOrigin, AgesApart, BothAged
    <2>6. a \in Switch /\ SwitchInv(a)
      BY <2>4, <2>5, AddInv, AddAgeingType DEF Kept
    <2>7. a.mac.found
      <3>1. With(a, t, [t.mac EXCEPT !.synced = TRUE], t.mac.ifname, FALSE) /\ t.mac \in Mac
        BY <2>4, Basics DEF Switch
      <3> HIDE DEF a
      <3> QED BY <2>5, <3>1 DEF With, Mac
    <2> HIDE DEF a
    <2> QED BY <2>6, <2>7, QueuedInv DEF Op
  <1> QED BY <1>1, <1>2

LEMMA PeerPoInv ==
    ASSUME NEW s \in Switch, SwitchInv(s), NEW up \in BOOLEAN
    PROVE  SwitchInv(PeerPo(s, up))
  <1> DEFINE t == [s EXCEPT !.pif = IF up THEN "up" ELSE "down"]
  <1>1. t \in Switch /\ With(t, s, s.mac, s.chip, s.inherited)
    BY DEF Switch, With
  <1>2. PeerPo(s, up) \in {t, RemoteToLocal(t)}
    BY DEF PeerPo
  <1> HIDE DEF t
  <1>3. SwitchInv(t)
    BY <1>1, SameInv
  <1> QED BY <1>1, <1>2, <1>3, RemoteToLocalInv

LEMMA ConnectedInv ==
    ASSUME NEW s \in Switch, SwitchInv(s)
    PROVE  SwitchInv(Connected(s))
  <1> DEFINE t == [s EXCEPT !.state = "EXCHANGE"]
             q == SyncMac(t)
  <1>1. t \in Switch
    BY StateMoved DEF State, Moved
  <1>2. /\ t.kind = s.kind /\ t.haslink = s.haslink /\ t.mac = s.mac /\ t.up = s.up
        /\ t.detached = s.detached /\ t.chip = s.chip /\ t.inherited = s.inherited
    BY DEF Switch
  <1>3. Connected(s) = PoState(q)
    BY DEF Connected
  <1> HIDE DEF t
  <1>4. LooseInv(t)
    BY <1>2 DEF SwitchInv, OfKind, OnOrigin, AgesApart, BothAged, ChipRight, InstalledOnPo,
                OnlyPeer, LooseInv
  <1>5. LooseInv(q)
    <2>1. CASE t.mac.found /\ ~t.mac.local
      <3>1. q = Queued(t, "add")
        BY <2>1 DEF SyncMac
      <3> HIDE DEF q
      <3>2. /\ With(q, t, [t.mac EXCEPT !.op = "add", !.queued = TRUE], t.chip, t.inherited)
            /\ t.mac \in Mac
        BY <1>1, <3>1, Basics DEF Op, Switch
      <3>3. /\ q.mac.found /\ q.mac.type = t.mac.type /\ q.mac.ifname = t.mac.ifname
            /\ q.mac.origin = t.mac.origin /\ q.mac.local = t.mac.local
            /\ q.mac.peer = t.mac.peer /\ q.mac.synced = t.mac.synced
        BY <2>1, <3>2 DEF With, Mac
      <3> QED BY <1>4, <3>2, <3>3 DEF With, OfKind, OnOrigin, AgesApart, BothAged, InstalledOnPo,
                                      OnlyPeer, LooseInv
    <2>2. CASE ~(t.mac.found /\ ~t.mac.local)
      BY <1>4, <2>2 DEF SyncMac
    <2> QED BY <2>1, <2>2
  <1>6. q \in Switch
    BY <1>1, SyncMacType DEF Kept
  <1> HIDE DEF q
  <1> QED BY <1>3, <1>5, <1>6, PoStateInv

(* The invariant of a switch without a session. *)
AloneInv(s) ==
    /\ OfKind(s) /\ OnOrigin(s) /\ AgesApart(s)
    /\ s.kind = "dynamic" /\ s.haslink /\ ~s.inherited /\ s.chip = "po" =>
          InstalledOnPo(s) /\ (s.up["po"] \/ OnlyLocal(s))

LEMMA InvAlone ==
    ASSUME NEW s, SwitchInv(s)
    PROVE  AloneInv(s)
  BY DEF AloneInv, SwitchInv, ChipRight

LEMMA StageSwitchInv ==
    ASSUME NEW s \in Switch, AloneInv(s), NEW x \in State, x # "EXCHANGE"
    PROVE  SwitchInv([s EXCEPT !.state = x])
  <1> DEFINE t == [s EXCEPT !.state = x]
  <1>1. /\ t.kind = s.kind /\ t.haslink = s.haslink /\ t.mac = s.mac /\ t.up = s.up
        /\ t.detached = s.detached /\ t.chip = s.chip /\ t.inherited = s.inherited /\ t.state = x
    BY DEF Switch
  <1> HIDE DEF t
  <1> QED BY <1>1 DEF t, AloneInv, SwitchInv, OfKind, OnOrigin, AgesApart, BothAged, ChipRight,
                       InstalledOnPo, OnlyPeer, OnlyLocal

LEMMA FdbDisconnectedInv ==
    ASSUME NEW s \in Switch, SwitchInv(s)
    PROVE  AloneInv(FdbDisconnected(s))
  <1> DEFINE aged == [s EXCEPT !.mac.peer = TRUE]
             a == AddAgeing(aged)
             mine == [a EXCEPT !.mac.local = FALSE]
  <1>0. s.mac \in Mac
    BY DEF Switch
  <1>1. /\ aged \in Switch
        /\ With(aged, s, [s.mac EXCEPT !.peer = TRUE], s.chip, s.inherited)
    BY FieldType, FieldIs DEF Kept
  <1>2. \/ FdbDisconnected(s) = s
        \/ s.mac.found /\ FdbDisconnected(s) = Removed(DelFromChip(aged))
        \/ s.mac.found /\ s.mac.ifname = "link" /\ ~BothAged(aged) /\ FdbDisconnected(s) = aged
        \/ s.mac.found /\ OnlyPeer(s) /\ FdbDisconnected(s) = mine
        \/ s.mac.found /\ ~OnlyPeer(s) /\ FdbDisconnected(s) = aged
    BY DEF FdbDisconnected
  <1> HIDE DEF aged
  <1>3. /\ aged.mac.found = s.mac.found /\ aged.mac.type = s.mac.type
        /\ aged.mac.ifname = s.mac.ifname /\ aged.mac.origin = s.mac.origin
        /\ aged.mac.local = s.mac.local /\ aged.mac.peer /\ aged.mac.synced = s.mac.synced
        /\ aged.mac.queued = s.mac.queued /\ aged.mac \in Mac
    BY <1>0, <1>1 DEF With, Mac
  <1>4. OfKind(aged) /\ OnOrigin(aged)
    BY <1>1, <1>3 DEF With, SwitchInv, OfKind, OnOrigin
  <1>5. AloneInv(Removed(DelFromChip(aged)))
    BY <1>1, <1>4, DelRemovable, DelFromChipType, RemovedInv, InvAlone DEF Kept
  <1>6. s.mac.ifname = "link" /\ ~BothAged(aged) => AloneInv(aged)
    BY <1>1, <1>3, <1>4 DEF With, AloneInv, AgesApart, SwitchInv, ChipRight, InstalledOnPo
  <1>7. s.mac.found /\ ~OnlyPeer(s) => AloneInv(aged)
    <2> HAVE s.mac.found /\ ~OnlyPeer(s)
    <2>1. s.kind = "dynamic" => ~s.mac.local
      BY DEF SwitchInv, AgesApart, BothAged, OnlyPeer
    <2>2. AgesApart(aged)
      BY <1>1, <1>3, <2>1 DEF With, AgesApart, BothAged
    <2>3. aged.kind = "dynamic" => OnlyLocal(aged)
      BY <1>1, <1>3, <2>1 DEF With, OnlyLocal
    <2>4. aged.kind = "dynamic" /\ aged.haslink /\ ~aged.inherited /\ aged.chip = "po"
             => InstalledOnPo(aged)
      <3> HAVE aged.kind = "dynamic" /\ aged.haslink /\ ~aged.inherited /\ aged.chip = "po"
      <3>1. InstalledOnPo(s)
        BY <1>1 DEF With, SwitchInv, ChipRight
      <3> QED BY <1>3, <3>1 DEF InstalledOnPo
    <2> QED BY <1>4, <2>2, <2>3, <2>4 DEF AloneInv
  <1>8. s.mac.found => AloneInv(mine)
    <2> HAVE s.mac.found
    <2>1. a \in Switch /\ With(a, aged, [aged.mac EXCEPT !.synced = TRUE], aged.mac.ifname, FALSE)
      BY <1>1, Basics, AddAgeingType DEF Kept
    <2> HIDE DEF a
    <2>2. With(mine, a, [a.mac EXCEPT !.local = FALSE], a.chip, a.inherited) /\ a.mac \in Mac
      BY <2>1, FieldIs DEF Switch
    <2> HIDE DEF mine
    <2>3. /\ mine.mac.found /\ mine.mac.type = s.mac.type /\ mine.mac.ifname = s.mac.ifname
          /\ mine.mac.origin = s.mac.origin /\ ~mine.mac.local /\ mine.mac.peer
          /\ mine.mac.synced
      <3>1. /\ a.mac.found = aged.mac.found /\ a.mac.type = aged.mac.type
            /\ a.mac.ifname = aged.mac.ifname /\ a.mac.origin = aged.mac.origin
            /\ a.mac.peer = aged.mac.peer /\ a.mac.synced
        BY <1>3, <2>1 DEF With, Mac
      <3>2. /\ mine.mac.found = a.mac.found /\ mine.mac.type = a.mac.type
            /\ mine.mac.ifname = a.mac.ifname /\ mine.mac.origin = a.mac.origin
            /\ mine.mac.peer = a.mac.peer /\ mine.mac.synced = a.mac.synced /\ ~mine.mac.local
        BY <2>2 DEF With, Mac
      <3> QED BY <1>3, <3>1, <3>2
    <2>4. mine.chip = s.mac.ifname /\ mine.kind = s.kind /\ mine.detached = s.detached
      BY <1>1, <1>3, <2>1, <2>2 DEF With
    <2> QED BY <2>3, <2>4 DEF AloneInv, SwitchInv, OfKind, OnOrigin, AgesApart, BothAged,
                              InstalledOnPo, OnlyLocal
  <1> QED BY <1>2, <1>5, <1>6, <1>7, <1>8, InvAlone

LEMMA QueueReinitInv ==
    ASSUME NEW s \in Switch, AloneInv(s)
    PROVE  AloneInv(QueueReinit(s))
  <1> DEFINE t == QueueReinit(s)
  <1>1. /\ t.kind = s.kind /\ t.haslink = s.haslink /\ t.up = s.up /\ t.chip = s.chip
        /\ t.inherited = s.inherited /\ t.detached = <<>>
        /\ t.mac = [s.mac EXCEPT !.queued = FALSE]
    BY DEF QueueReinit, Switch
  <1>2. s.mac \in Mac
    BY DEF Switch
  <1> HIDE DEF t
  <1>3. /\ t.mac.found = s.mac.found /\ t.mac.type = s.mac.type /\ t.mac.ifname = s.mac.ifname
        /\ t.mac.origin = s.mac.origin /\ t.mac.local = s.mac.local
        /\ t.mac.peer = s.mac.peer /\ t.mac.synced = s.mac.synced /\ ~t.mac.queued
    BY <1>1, <1>2 DEF Mac
  <1>4. Len(t.detached) = 0
    BY <1>1
  <1> QED BY <1>1, <1>3, <1>4 DEF t, AloneInv, OfKind, OnOrigin, AgesApart, BothAged,
                                  InstalledOnPo, OnlyPeer, OnlyLocal

LEMMA DisconnectedInv ==
    ASSUME NEW s \in Switch, SwitchInv(s)
    PROVE  SwitchInv(Disconnected(s))
  <1> DEFINE t == IF s.warm THEN s ELSE FdbDisconnected(s)
             u == QueueReinit(t)
             v == [u EXCEPT !.state = "INIT"]
  <1>1. t \in Switch /\ AloneInv(t)
    BY FdbDisconnectedType, FdbDisconnectedInv, InvAlone DEF Kept
  <1>2. Disconnected(s) = [u EXCEPT !.state = "INIT", !.pif = "none", !.plif = FALSE, !.warm = FALSE]
    BY DEF Disconnected
  <1> HIDE DEF t
  <1>3. u \in Switch /\ AloneInv(u)
    BY <1>1, QueueReinitType, QueueReinitInv DEF Kept
  <1> HIDE DEF u
  <1>4. SwitchInv(v)
    BY <1>3, StageSwitchInv DEF State
  <1>5. With(Disconnected(s), v, v.mac, v.chip, v.inherited)
    BY <1>2, <1>3 DEF With, Switch
  <1> QED BY <1>4, <1>5, SameInv

LEMMA FlushedInv ==
    ASSUME NEW s \in Switch, SwitchInv(s)
    PROVE  SwitchInv(Flushed(s))
  <1> DEFINE t == Flushed(s)
  <1>1. /\ t.kind = s.kind /\ t.haslink = s.haslink /\ t.up = s.up /\ t.chip = s.chip
        /\ t.inherited = s.inherited /\ t.detached = <<>> /\ t.state = s.state
        /\ t.mac = [s.mac EXCEPT !.queued = FALSE]
    BY DEF Flushed, Switch
  <1>2. s.mac \in Mac
    BY DEF Switch
  <1> HIDE DEF t
  <1>3. /\ t.mac.found = s.mac.found /\ t.mac.type = s.mac.type /\ t.mac.ifname = s.mac.ifname
        /\ t.mac.origin = s.mac.origin /\ t.mac.local = s.mac.local
        /\ t.mac.peer = s.mac.peer /\ t.mac.synced = s.mac.synced /\ ~t.mac.queued
    BY <1>1, <1>2 DEF Mac
  <1>4. Len(t.detached) = 0
    BY <1>1
  <1> QED BY <1>1, <1>3, <1>4 DEF t, SwitchInv, OfKind, OnOrigin, AgesApart, BothAged, ChipRight,
                                  InstalledOnPo, OnlyPeer, OnlyLocal

LEMMA FreshInv ==
    ASSUME NEW c \in Port \cup {"none"}, NEW up \in [Port -> BOOLEAN], NEW link \in BOOLEAN,
           NEW y \in Types
    PROVE  LET t == Fresh(c, up, link, y)
           IN  t \in Switch /\ SwitchInv(t) /\ t.state = "INIT" /\ t.kind = y
  <1> DEFINE t == Fresh(c, up, link, y)
  <1>1. NoMac \in Mac /\ ~NoMac.found /\ ~NoMac.queued
    <2>1. (CHOOSE x \in Types : TRUE) \in Types
      OBVIOUS
    <2> QED BY <2>1 DEF NoMac, Mac, Port, HostPort, Op
  <1>2. <<>> \in Seq(Item) /\ (c # "none") \in BOOLEAN
    BY EmptySeq
  <1>3. t \in Switch
    BY <1>1, <1>2 DEF Fresh, Switch, State
  <1>4. /\ t.mac = NoMac /\ t.detached = <<>> /\ t.state = "INIT" /\ t.kind = y /\ t.chip = c
        /\ t.inherited = (c # "none")
    BY DEF Fresh
  <1> HIDE DEF t
  <1>5. Len(t.detached) = 0
    BY <1>4
  <1>6. t.chip # "none" => t.inherited
    BY <1>4
  <1>7. SwitchInv(t)
    BY <1>1, <1>4, <1>5, <1>6 DEF SwitchInv, OfKind, OnOrigin, AgesApart, ChipRight
  <1> QED BY <1>3, <1>4, <1>7 DEF t

-----------------------------------------------------------------------------
(* Messages and the invariant. *)

NoteTold(c, y) == \A n \in 1..Len(c) : c[n].op = "add" => c[n].type = y

Telling(c, y) ==
    \A n \in 1..Len(c) : c[n].type = "MAC" =>
        \A l \in 1..Len(c[n].items) : c[n].items[l].type = y

LEMMA InformedIs ==
    ASSUME NEW p \in Peer, NEW s \in Switch, SwitchInv(s)
    PROVE  LET t == Informed(p, s)
           IN  /\ Moved(t, s, IF p = Active THEN "STAGE2" ELSE "EXCHANGE")
               /\ SwitchInv(t)
  <1> DEFINE u == [s EXCEPT !.changed = FALSE]
  <1>1. Kept(u, s) /\ With(u, s, s.mac, s.chip, s.inherited)
    BY FieldType, FieldIs
  <1>2. Informed(p, s) = IF p = Active THEN [u EXCEPT !.state = "STAGE2"] ELSE Connected(u)
    BY DEF Informed
  <1> HIDE DEF u
  <1>3. u \in Switch /\ SwitchInv(u) /\ AloneInv(u)
    BY <1>1, SameInv, InvAlone DEF Kept
  <1>4. /\ Moved([u EXCEPT !.state = "STAGE2"], u, "STAGE2")
        /\ Moved(Connected(u), u, "EXCHANGE")
    BY <1>3, StateMoved, ConnectedType DEF State
  <1>5. SwitchInv([u EXCEPT !.state = "STAGE2"]) /\ SwitchInv(Connected(u))
    BY <1>3, StageSwitchInv, ConnectedInv DEF State
  <1> QED BY <1>1, <1>2, <1>4, <1>5 DEF Moved, Kept, Same

LEMMA ReceivedIs ==
    ASSUME NEW p \in Peer, NEW s \in Switch, SwitchInv(s), NEW m \in Msg,
           m.type = "MAC" => /\ s.state = "EXCHANGE"
                             /\ \A l \in 1..Len(m.items) : m.items[l].type = s.kind
    PROVE  LET t == Received(p, s, m)
           IN  /\ Moved(t, s, IF m.type = "INFO"
                              THEN IF p = Standby THEN "STAGE2" ELSE "EXCHANGE" ELSE s.state)
               /\ SwitchInv(t)
  <1> DEFINE u == PeerPo(s, m.up)
  <1>1. /\ m.type \in {"INFO", "STATE", "MAC", "WARM"}
        /\ m.type \in {"INFO", "STATE"} => m.up \in BOOLEAN
        /\ m.type = "MAC" => m.items \in Seq(Item)
    BY DEF Msg
  <1>2. m.type \in {"INFO", "STATE"} => Kept(u, s) /\ u \in Switch /\ SwitchInv(u)
    BY <1>1, PeerPoType, PeerPoInv DEF Kept
  <1> HIDE DEF u
  <1>3. CASE m.type = "INFO"
    <2>1. Received(p, s, m) = IF p = Standby THEN [u EXCEPT !.state = "STAGE2"] ELSE Connected(u)
      BY <1>3 DEF Received, u
    <2>2. /\ Moved([u EXCEPT !.state = "STAGE2"], u, "STAGE2")
          /\ Moved(Connected(u), u, "EXCHANGE")
      BY <1>2, <1>3, StateMoved, ConnectedType DEF State
    <2>3. SwitchInv([u EXCEPT !.state = "STAGE2"]) /\ SwitchInv(Connected(u))
      BY <1>2, <1>3, InvAlone, StageSwitchInv, ConnectedInv DEF State
    <2> QED BY <1>2, <1>3, <2>1, <2>2, <2>3 DEF Moved, Kept, Same
  <1>4. CASE m.type = "STATE"
    <2>1. Received(p, s, m) = u
      BY <1>4 DEF Received, u
    <2> QED BY <1>2, <1>4, <2>1 DEF Moved, Kept, Same
  <1>5. CASE m.type = "MAC"
    <2>1. Received(p, s, m) = FromPeers(s, m.items)
      BY <1>5 DEF Received
    <2>2. Kept(FromPeers(s, m.items), s) /\ SwitchInv(FromPeers(s, m.items))
      BY <1>1, <1>5, FromPeersType, FromPeersInv
    <2> QED BY <1>5, <2>1, <2>2 DEF Moved, Kept, Same
  <1>6. CASE m.type = "WARM"
    <2> DEFINE w == [s EXCEPT !.warm = TRUE]
    <2>1. Received(p, s, m) = w
      BY <1>6 DEF Received, PeerWarm
    <2>2. Moved(w, s, s.state) /\ With(w, s, s.mac, s.chip, s.inherited)
      BY DEF Moved, With, Switch
    <2> HIDE DEF w
    <2> QED BY <1>6, <2>1, <2>2, SameInv
  <1> QED BY <1>1, <1>3, <1>4, <1>5, <1>6

LEMMA Appended ==
    ASSUME NEW c \in Seq(Msg), NEW d \in Seq(Msg), NEW y
    PROVE  /\ NoInfo(c) /\ NoInfo(d) => NoInfo(c \o d)
           /\ Telling(c, y) /\ Telling(d, y) => Telling(c \o d, y)
           /\ InfoFirst(c) /\ c # <<>> /\ NoInfo(d) => InfoFirst(c \o d) /\ c \o d # <<>>
  <1> DEFINE e == c \o d
  <1>1. /\ e \in Seq(Msg) /\ Len(e) = Len(c) + Len(d) /\ Len(c) \in Nat /\ Len(d) \in Nat
        /\ \A n \in 1..Len(e) : e[n] = IF n <= Len(c) THEN c[n] ELSE d[n - Len(c)]
    OBVIOUS
  <1> HIDE DEF e
  <1>2. \A n \in 1..Len(e) : \/ n \in 1..Len(c) /\ e[n] = c[n]
                             \/ n - Len(c) \in 1..Len(d) /\ e[n] = d[n - Len(c)]
    BY <1>1
  <1>3. NoInfo(c) /\ NoInfo(d) => NoInfo(e)
    BY <1>1, <1>2 DEF NoInfo
  <1>4. Telling(c, y) /\ Telling(d, y) => Telling(e, y)
    <2> HAVE Telling(c, y) /\ Telling(d, y)
    <2> SUFFICES ASSUME NEW n \in 1..Len(e), e[n].type = "MAC"
                 PROVE  \A l \in 1..Len(e[n].items) : e[n].items[l].type = y
      BY DEF Telling
    <2>1. CASE n \in 1..Len(c) /\ e[n] = c[n]
      BY <2>1 DEF Telling
    <2>2. CASE n - Len(c) \in 1..Len(d) /\ e[n] = d[n - Len(c)]
      BY <2>2 DEF Telling
    <2> QED BY <1>2, <2>1, <2>2
  <1>5. InfoFirst(c) /\ c # <<>> /\ NoInfo(d) => InfoFirst(e) /\ e # <<>>
    <2> HAVE InfoFirst(c) /\ c # <<>> /\ NoInfo(d)
    <2>1. Len(c) >= 1 /\ Len(Tail(c)) = Len(c) - 1 /\ \A n \in 1..Len(c) - 1 : Tail(c)[n] = c[n + 1]
      OBVIOUS
    <2>2. e # <<>> /\ e[1] = c[1]
      BY <1>1, <2>1
    <2>3. Len(Tail(e)) = Len(e) - 1 /\ \A n \in 1..Len(e) - 1 : Tail(e)[n] = e[n + 1]
      BY <1>1, <2>2
    <2>4. \A n \in 2..Len(c) : ~IsInfo(c[n])
      <3> SUFFICES ASSUME NEW n \in 2..Len(c) PROVE ~IsInfo(c[n])
        OBVIOUS
      <3>1. n - 1 \in 1..Len(Tail(c)) /\ Tail(c)[n - 1] = c[n]
        BY <1>1, <2>1
      <3> QED BY <3>1 DEF InfoFirst, NoInfo
    <2>5. \A n \in 2..Len(e) : ~IsInfo(e[n])
      <3> SUFFICES ASSUME NEW n \in 2..Len(e) PROVE ~IsInfo(e[n])
        OBVIOUS
      <3>1. CASE n <= Len(c)
        BY <1>1, <2>4, <3>1
      <3>2. CASE n > Len(c)
        <4>1. n - Len(c) \in 1..Len(d) /\ e[n] = d[n - Len(c)]
          BY <1>1, <3>2
        <4> QED BY <4>1 DEF NoInfo
      <3> QED BY <1>1, <3>1, <3>2
    <2>6. NoInfo(Tail(e))
      BY <1>1, <2>3, <2>5 DEF NoInfo
    <2> QED BY <2>2, <2>6 DEF InfoFirst
  <1> QED BY <1>3, <1>4, <1>5 DEF e

LEMMA PendingIs ==
    ASSUME NEW s \in Switch, OfKind(s)
    PROVE  Pending(s) \in Seq(Msg) /\ NoInfo(Pending(s)) /\ Telling(Pending(s), s.kind)
  <1> DEFINE last == IF s.mac.queued THEN << ItemOf(s.mac) >> ELSE <<>>
             items == s.detached \o last
             state == [type |-> "STATE", up |-> s.up["po"]]
             mac == [type |-> "MAC", items |-> items]
             a == IF s.changed THEN << state >> ELSE <<>>
             b == IF items = <<>> THEN <<>> ELSE << mac >>
  <1>1. ItemOf(s.mac) \in Item /\ s.detached \in Seq(Item) /\ s.up["po"] \in BOOLEAN
    BY DEF ItemOf, Item, Switch, Mac, Port
  <1>2. /\ last \in Seq(Item) /\ \A l \in 1..Len(last) : last[l].type = s.kind
    BY <1>1 DEF OfKind, ItemOf
  <1> HIDE DEF last
  <1>3. items \in Seq(Item) /\ \A l \in 1..Len(items) : items[l].type = s.kind
    <2>1. /\ items \in Seq(Item) /\ Len(items) = Len(s.detached) + Len(last)
          /\ Len(s.detached) \in Nat /\ Len(last) \in Nat
          /\ \A l \in 1..Len(items) : items[l] = IF l <= Len(s.detached) THEN s.detached[l]
                                                 ELSE last[l - Len(s.detached)]
      BY <1>1, <1>2
    <2> HIDE DEF items
    <2>2. \A l \in 1..Len(items) : \/ l \in 1..Len(s.detached) /\ items[l] = s.detached[l]
                                   \/ /\ l - Len(s.detached) \in 1..Len(last)
                                      /\ items[l] = last[l - Len(s.detached)]
      BY <2>1
    <2> QED BY <1>2, <2>1, <2>2 DEF OfKind
  <1>4. Pending(s) = a \o b
    BY DEF Pending, last
  <1> HIDE DEF items
  <1>5. state \in Msg /\ mac \in Msg /\ state.type = "STATE" /\ mac.type = "MAC" /\ mac.items = items
    BY <1>1, <1>3 DEF Msg
  <1> HIDE DEF state, mac
  <1>6. a \in Seq(Msg) /\ NoInfo(a) /\ Telling(a, s.kind)
    <2>1. CASE s.changed
      BY <1>5, <2>1 DEF NoInfo, IsInfo, Telling
    <2>2. CASE ~s.changed
      BY <2>2 DEF NoInfo, IsInfo, Telling
    <2> QED BY <2>1, <2>2
  <1>7. b \in Seq(Msg) /\ NoInfo(b) /\ Telling(b, s.kind)
    <2>1. CASE items = <<>>
      BY <2>1 DEF NoInfo, IsInfo, Telling
    <2>2. CASE items # <<>>
      BY <1>3, <1>5, <2>2 DEF NoInfo, IsInfo, Telling
    <2> QED BY <2>1, <2>2
  <1> HIDE DEF a, b
  <1> QED BY <1>4, <1>6, <1>7, Appended

-----------------------------------------------------------------------------
(* Steps of the system. *)

MacOK == TypeOK /\ AgesInv

StageFits(p, x, j, c) ==
    /\ x = "INIT" => ~j /\ c = <<>>
    /\ x = "STAGE1" => /\ j
                       /\ p = Active => c = <<>>
                       /\ p # Active => c = <<>> \/ (Len(c) = 1 /\ IsInfo(c[1]))
    /\ x = "STAGE2" => /\ j
                       /\ p = Standby => c = <<>>
                       /\ p # Standby => InfoFirst(c)
    /\ x = "EXCHANGE" => j /\ NoInfo(c)

LEMMA StageFitsIs ==
    ASSUME NEW p \in Peer
    PROVE  /\ sw[p].state \in State =>
                (StageOf(p) <=> StageFits(p, sw[p].state, joined[p], ch[p]))
           /\ sw'[p].state \in State =>
                (StageOf(p)' <=> StageFits(p, sw'[p].state, joined'[p], ch'[p]))
  BY DEF StageOf, StageFits, State, Peer

LEMMA Peers == \A p \in Peer : /\ Other(p) \in Peer /\ Other(p) # p /\ Other(Other(p)) = p
                               /\ \A q \in Peer : q = p \/ q = Other(p)
  BY PeerAssumption DEF Peer, Other

LEMMA Facts ==
    ASSUME MacOK, NEW p \in Peer
    PROVE  /\ sw[p] \in Switch /\ SwitchInv(sw[p]) /\ OfKind(sw[p]) /\ sw[p].state \in State
           /\ sw[p].kind \in Types /\ sw[p].kind = sw[Other(p)].kind
           /\ note[p] \in Seq(Item) /\ NoteTold(note[p], sw[p].kind)
           /\ ch[p] \in Seq(Msg) /\ Telling(ch[p], sw[p].kind)
           /\ StageFits(p, sw[p].state, joined[p], ch[p])
           /\ ~alive[p] => ~joined[p] /\ note[p] = <<>>
  <1>1. sw[p] \in Switch /\ note[p] \in Seq(Item) /\ ch[p] \in Seq(Msg)
    BY DEF MacOK, TypeOK
  <1>2. sw[p].state \in State /\ sw[p].kind \in Types
    BY <1>1 DEF Switch
  <1>3. SwitchInv(sw[p]) /\ StageOf(p) /\ ToldKind(p) /\ (~alive[p] => ~joined[p] /\ note[p] = <<>>)
    BY DEF MacOK, AgesInv
  <1>4. OfKind(sw[p])
    BY <1>3 DEF SwitchInv
  <1>5. sw[p].kind = sw[Other(p)].kind
    BY PeerAssumption DEF MacOK, AgesInv, Other, Peer
  <1>6. NoteTold(note[p], sw[p].kind) /\ Telling(ch[p], sw[p].kind)
    BY <1>3 DEF ToldKind, NoteTold, Telling
  <1>7. StageFits(p, sw[p].state, joined[p], ch[p])
    BY <1>2, <1>3, StageFitsIs
  <1> QED BY <1>1, <1>2, <1>3, <1>4, <1>5, <1>6, <1>7

(* The invariant after a step in which at most the switch of p changes. *)
LEMMA StepOK ==
    ASSUME MacOK, NEW p \in Peer, NEW t \in Switch, SwitchInv(t), t.kind = sw[p].kind,
           sw' = [sw EXCEPT ![p] = t],
           alive' \in [Peer -> BOOLEAN], joined' \in [Peer -> BOOLEAN],
           learnt' \in [Peer -> HostPort \cup {"none"}],
           note' \in [Peer -> Seq(Item)], ch' \in [Peer -> Seq(Msg)], events' \in 0..MaxEvents,
           \A q \in Peer : /\ NoteTold(note'[q], sw[q].kind) /\ Telling(ch'[q], sw[q].kind)
                           /\ ~alive'[q] => ~joined'[q] /\ note'[q] = <<>>
                           /\ StageFits(q, sw'[q].state, joined'[q], ch'[q]),
           StagesAgree'
    PROVE  TypeOK' /\ AgesInv'
  <1>1. sw \in [Peer -> Switch]
    BY DEF MacOK, TypeOK
  <1>2. sw' \in [Peer -> Switch]
    BY <1>1
  <1>3. TypeOK'
    BY <1>2 DEF TypeOK
  <1>4. \A q \in Peer : sw'[q] = IF q = p THEN t ELSE sw[q]
    BY <1>1
  <1>5. \A q \in Peer : sw'[q].kind = sw[q].kind
    BY <1>4
  <1>6. (sw[Active].kind = sw[Standby].kind)'
    BY <1>5 DEF MacOK, AgesInv, Peer
  <1>7. ASSUME NEW q \in Peer PROVE SwitchInv(sw'[q]) /\ StageOf(q)' /\ ToldKind(q)'
    <2>1. SwitchInv(sw'[q])
      BY <1>4, Facts
    <2>2. sw'[q].state \in State
      BY <1>2 DEF Switch
    <2>3. StageOf(q)'
      BY <2>2, StageFitsIs
    <2>4. ToldKind(q)'
      BY <1>5 DEF ToldKind, NoteTold, Telling
    <2> QED BY <2>1, <2>3, <2>4
  <1>8. AgesInv'
    BY <1>6, <1>7 DEF AgesInv, SwitchInv, OfKind, OnOrigin, AgesApart, ChipRight, BothAged,
                      InstalledOnPo, OnlyLocal, OnlyPeer
  <1> QED BY <1>3, <1>8

(* The same of one that concerns neither the session nor what is sent. *)
LEMMA QuietOK ==
    ASSUME MacOK, NEW p \in Peer, NEW t \in Switch, SwitchInv(t), t.kind = sw[p].kind,
           t.state = sw[p].state, sw' = [sw EXCEPT ![p] = t],
           alive' = alive, joined' = joined, ch' = ch, alive[p],
           learnt' \in [Peer -> HostPort \cup {"none"}],
           NEW c \in Seq(Item), NoteTold(c, sw[p].kind), note' = [note EXCEPT ![p] = c],
           events' \in 0..MaxEvents
    PROVE  TypeOK' /\ AgesInv'
  <1>1. /\ sw \in [Peer -> Switch] /\ note \in [Peer -> Seq(Item)] /\ ch \in [Peer -> Seq(Msg)]
        /\ alive \in [Peer -> BOOLEAN] /\ joined \in [Peer -> BOOLEAN]
    BY DEF MacOK, TypeOK
  <1>2. note' \in [Peer -> Seq(Item)]
    BY <1>1
  <1>3. \A q \in Peer : sw'[q].state = sw[q].state
    BY <1>1
  <1>4. \A q \in Peer : note'[q] = IF q = p THEN c ELSE note[q]
    BY <1>1
  <1>5. ASSUME NEW q \in Peer
        PROVE  /\ NoteTold(note'[q], sw[q].kind) /\ Telling(ch'[q], sw[q].kind)
               /\ ~alive'[q] => ~joined'[q] /\ note'[q] = <<>>
               /\ StageFits(q, sw'[q].state, joined'[q], ch'[q])
    BY <1>3, <1>4, Facts
  <1>6. StagesAgree'
    <2>1. StagesAgree
      BY DEF MacOK, AgesInv
    <2>2. sw'[Active].state = sw[Active].state /\ sw'[Standby].state = sw[Standby].state
      BY <1>3 DEF Peer
    <2> QED BY <2>1, <2>2 DEF StagesAgree
  <1> QED BY <1>1, <1>2, <1>5, <1>6, StepOK

LEMMA NoteAdded ==
    ASSUME NEW c \in Seq(Item), NEW y, NoteTold(c, y)
    PROVE  /\ \A n \in Item : (n.op = "add" => n.type = y) => NoteTold(Append(c, n), y)
           /\ c # <<>> => Tail(c) \in Seq(Item) /\ NoteTold(Tail(c), y)
  <1>1. ASSUME NEW n \in Item, n.op = "add" => n.type = y PROVE NoteTold(Append(c, n), y)
    BY <1>1 DEF NoteTold
  <1>2. c # <<>> => Tail(c) \in Seq(Item) /\ NoteTold(Tail(c), y)
    <2> HAVE c # <<>>
    <2>1. /\ Tail(c) \in Seq(Item) /\ Len(Tail(c)) = Len(c) - 1 /\ Len(c) \in Nat
          /\ \A n \in 1..Len(c) - 1 : Tail(c)[n] = c[n + 1]
      OBVIOUS
    <2>2. \A n \in 1..Len(Tail(c)) : n + 1 \in 1..Len(c) /\ Tail(c)[n] = c[n + 1]
      BY <2>1
    <2> QED BY <2>1, <2>2 DEF NoteTold
  <1> QED BY <1>1, <1>2

LEMMA Spent ==
    ASSUME MacOK
    PROVE  /\ Spend => events' \in 0..MaxEvents
           /\ UNCHANGED events => events' \in 0..MaxEvents
  BY BoundAssumption DEF MacOK, TypeOK, Spend

LEMMA AgedNoteIs ==
    ASSUME MacOK, NEW i \in HostPort
    PROVE  AgedNote(i) \in Item /\ AgedNote(i).op # "add"
  <1>1. Active \in Peer
    BY DEF Peer
  <1>2. NoMac \in Mac
    BY <1>1, Facts, NoMacType
  <1>3. NoMac.type \in Types
    BY <1>2 DEF Mac
  <1> QED BY <1>3 DEF AgedNote, Item, Op

LEMMA TimersOK ==
    ASSUME MacOK, NEW p \in Peer, DownTimer(p) \/ WarmTimer(p) \/ Prepare(p)
    PROVE  TypeOK' /\ AgesInv'
  <1> DEFINE s == sw[p]
             w == [s EXCEPT !.warm = FALSE]
             l == [s EXCEPT !.plif = TRUE]
  <1>0. s \in Switch /\ SwitchInv(s)
    BY Facts
  <1>1. \E t \in {TimerExpired(s), w, l} : sw' = [sw EXCEPT ![p] = t]
    BY DEF DownTimer, WarmTimer, Prepare
  <1>2. Kept(w, s) /\ With(w, s, s.mac, s.chip, s.inherited)
    BY <1>0 DEF Kept, Same, With, Switch
  <1>3. Kept(l, s) /\ With(l, s, s.mac, s.chip, s.inherited)
    BY <1>0 DEF Kept, Same, With, Switch
  <1> HIDE DEF w, l
  <1>4. SwitchInv(w) /\ SwitchInv(l)
    BY <1>0, <1>2, <1>3, SameInv
  <1>5. Kept(TimerExpired(s), s) /\ SwitchInv(TimerExpired(s))
    BY <1>0, TimerExpiredType, TimerExpiredInv
  <1>6. PICK t \in {TimerExpired(s), w, l} : sw' = [sw EXCEPT ![p] = t]
    BY <1>1
  <1>7. t \in Switch /\ SwitchInv(t) /\ t.kind = sw[p].kind /\ t.state = sw[p].state
    BY <1>2, <1>3, <1>4, <1>5, <1>6 DEF Kept, Same
  <1>8. /\ alive' = alive /\ joined' = joined /\ learnt' = learnt /\ note' = note /\ ch' = ch
        /\ events' = events /\ alive[p]
    BY Facts DEF DownTimer, WarmTimer, Prepare
  <1>9. note' = [note EXCEPT ![p] = note[p]] /\ learnt' \in [Peer -> HostPort \cup {"none"}]
    BY <1>8 DEF MacOK, TypeOK
  <1>10. note[p] \in Seq(Item) /\ NoteTold(note[p], sw[p].kind)
    BY Facts
  <1>11. events' \in 0..MaxEvents
    BY <1>8, Spent
  <1> QED BY <1>6, <1>7, <1>8, <1>9, <1>10, <1>11, QuietOK

LEMMA SyncdOK ==
    ASSUME MacOK, NEW p \in Peer, Syncd(p)
    PROVE  TypeOK' /\ AgesInv'
  <1> DEFINE s == sw[p]
             n == Head(note[p])
             t == FromSyncd(s, n)
             c == Tail(note[p])
  <1>0. /\ s \in Switch /\ SwitchInv(s) /\ note[p] \in Seq(Item) /\ note[p] # <<>>
        /\ NoteTold(note[p], s.kind)
    BY Facts DEF Syncd
  <1>1. n \in Item /\ (n.op = "add" => n.type = s.kind)
    BY <1>0 DEF NoteTold
  <1>2. Kept(t, s) /\ SwitchInv(t)
    BY <1>0, <1>1, FromSyncdType, FromSyncdInv
  <1>3. c \in Seq(Item) /\ NoteTold(c, s.kind)
    BY <1>0, NoteAdded
  <1>4. /\ sw' = [sw EXCEPT ![p] = t] /\ note' = [note EXCEPT ![p] = c]
        /\ alive' = alive /\ joined' = joined /\ learnt' = learnt /\ ch' = ch
        /\ events' = events /\ alive[p]
    BY DEF Syncd
  <1> HIDE DEF t, c
  <1>5. t \in Switch /\ t.kind = sw[p].kind /\ t.state = sw[p].state
    BY <1>2 DEF Kept, Same
  <1>6. learnt' \in [Peer -> HostPort \cup {"none"}] /\ events' \in 0..MaxEvents
    BY <1>4, Spent DEF MacOK, TypeOK
  <1> QED BY <1>2, <1>3, <1>4, <1>5, <1>6, QuietOK

(* The hardware learns or forgets the address. *)
LEMMA HardwareOK ==
    ASSUME MacOK, NEW p \in Peer, (\E i \in HostPort : Learn(p, i)) \/ Age(p) \/ AgeChip(p)
    PROVE  TypeOK' /\ AgesInv'
  <1> DEFINE s == sw[p]
             a == [s EXCEPT !.ageing = FALSE]
  <1>0. /\ s \in Switch /\ SwitchInv(s) /\ s.kind \in Types /\ note[p] \in Seq(Item)
        /\ NoteTold(note[p], s.kind)
    BY Facts
  <1>1. learnt \in [Peer -> HostPort \cup {"none"}] /\ sw \in [Peer -> Switch]
    BY DEF MacOK, TypeOK
  <1>2. alive' = alive /\ joined' = joined /\ ch' = ch /\ alive[p] /\ events' \in 0..MaxEvents
    BY Spent DEF Learn, Age, AgeChip
  <1>3. learnt' \in [Peer -> HostPort \cup {"none"}]
    BY <1>1 DEF Learn, Age, AgeChip
  <1>4. PICK n \in Item : /\ n.op = "add" => n.type = s.kind
                          /\ note' = [note EXCEPT ![p] = Append(note[p], n)]
    <2>1. ASSUME NEW i \in HostPort, Learn(p, i)
          PROVE  \E n \in Item : /\ n.op = "add" => n.type = s.kind
                                 /\ note' = [note EXCEPT ![p] = Append(note[p], n)]
      <3> DEFINE n == [op |-> "add", port |-> i, type |-> s.kind]
      <3>1. n \in Item /\ n.type = s.kind
        BY <1>0 DEF Item, Op
      <3>2. note' = [note EXCEPT ![p] = Append(note[p], n)]
        BY <2>1 DEF Learn
      <3> HIDE DEF n
      <3> QED BY <3>1, <3>2
    <2>2. ASSUME NEW i \in HostPort, note' = [note EXCEPT ![p] = Append(@, AgedNote(i))]
          PROVE  \E n \in Item : /\ n.op = "add" => n.type = s.kind
                                 /\ note' = [note EXCEPT ![p] = Append(note[p], n)]
      BY <2>2, AgedNoteIs
    <2>3. Age(p) => learnt[p] \in HostPort /\ note' = [note EXCEPT ![p] = Append(@, AgedNote(learnt[p]))]
      BY <1>1 DEF Age
    <2>4. AgeChip(p) => /\ s.mac.origin \in HostPort
                        /\ note' = [note EXCEPT ![p] = Append(@, AgedNote(s.mac.origin))]
      BY <1>0 DEF AgeChip, Switch, Mac
    <2> QED BY <2>1, <2>2, <2>3, <2>4
  <1> DEFINE c == Append(note[p], n)
  <1>5. c \in Seq(Item) /\ NoteTold(c, s.kind) /\ note' = [note EXCEPT ![p] = c]
    BY <1>0, <1>4, NoteAdded
  <1> HIDE DEF c
  <1>6. Kept(a, s) /\ With(a, s, s.mac, s.chip, s.inherited)
    BY <1>0 DEF Kept, Same, With, Switch
  <1>7. sw' = [sw EXCEPT ![p] = a] \/ sw' = [sw EXCEPT ![p] = s]
    BY <1>1 DEF Learn, Age, AgeChip
  <1> HIDE DEF a
  <1>8. SwitchInv(a) /\ a \in Switch /\ a.kind = s.kind /\ a.state = s.state
    BY <1>0, <1>6, SameInv DEF Kept, Same
  <1>9. PICK t \in {a, s} : sw' = [sw EXCEPT ![p] = t]
    BY <1>7
  <1>10. SwitchInv(t) /\ t \in Switch /\ t.kind = s.kind /\ t.state = s.state
    BY <1>0, <1>8, <1>9
  <1> QED BY <1>2, <1>3, <1>5, <1>9, <1>10, QuietOK

(* Carrier events. *)
LEMMA LinksOK ==
    ASSUME MacOK, NEW p \in Peer, PoLink(p) \/ EthLink(p) \/ PeerLink(p)
    PROVE  TypeOK' /\ AgesInv'
  <1> DEFINE s == sw[p]
             po == [Toggled(s, "po") EXCEPT !.changed = TRUE]
             eth == Toggled(s, "eth")
             link == Toggled(s, "link")
  <1>0. s \in Switch /\ SwitchInv(s) /\ note[p] \in Seq(Item) /\ NoteTold(note[p], s.kind)
    BY Facts
  <1>1. /\ learnt \in [Peer -> HostPort \cup {"none"}] /\ sw \in [Peer -> Switch]
        /\ note \in [Peer -> Seq(Item)]
    BY DEF MacOK, TypeOK
  <1>2. alive' = alive /\ joined' = joined /\ ch' = ch /\ alive[p] /\ events' \in 0..MaxEvents
    BY Spent DEF PoLink, EthLink, PeerLink
  <1>3. \/ learnt' = [learnt EXCEPT ![p] = "none"] \/ learnt' = learnt
    BY DEF PoLink, EthLink, PeerLink, Unlearn
  <1>4. learnt' \in [Peer -> HostPort \cup {"none"}]
    BY <1>1, <1>3
  <1>5. PICK c \in Seq(Item) : NoteTold(c, s.kind) /\ note' = [note EXCEPT ![p] = c]
    <2>1. \/ note' = note
          \/ \E i \in HostPort : note' = [note EXCEPT ![p] = Append(@, AgedNote(i))]
      BY DEF PoLink, EthLink, PeerLink, Unlearn, HostPort
    <2>2. CASE note' = note
      <3>1. note' = [note EXCEPT ![p] = note[p]]
        BY <1>1, <2>2
      <3> QED BY <1>0, <3>1
    <2>3. ASSUME NEW i \in HostPort, note' = [note EXCEPT ![p] = Append(@, AgedNote(i))]
          PROVE  \E c \in Seq(Item) : NoteTold(c, s.kind) /\ note' = [note EXCEPT ![p] = c]
      <3> DEFINE c == Append(note[p], AgedNote(i))
      <3>1. AgedNote(i) \in Item /\ AgedNote(i).op # "add"
        BY AgedNoteIs
      <3>2. c \in Seq(Item) /\ NoteTold(c, s.kind)
        BY <1>0, <3>1, NoteAdded
      <3>3. note' = [note EXCEPT ![p] = c]
        BY <2>3
      <3> QED BY <3>2, <3>3
    <2> QED BY <2>1, <2>2, <2>3
  <1>6. /\ po \in Switch /\ LooseInv(po) /\ po.kind = s.kind /\ po.state = s.state
    BY <1>0, ToggledPo
  <1>7. /\ eth \in Switch /\ SwitchInv(eth) /\ eth.kind = s.kind /\ eth.state = s.state
        /\ link \in Switch /\ SwitchInv(link) /\ link.kind = s.kind /\ link.state = s.state
    <2>1. eth.kind = s.kind /\ eth.state = s.state /\ link.kind = s.kind /\ link.state = s.state
      BY <1>0 DEF Toggled, Switch
    <2> QED BY <1>0, <2>1, ToggledInv DEF Port
  <1>8. \E t \in {PoState(po), eth, OrphanUp(eth), PeerLinkDown(link), PeerLinkUp(link)} :
            sw' = [sw EXCEPT ![p] = t]
    BY DEF PoLink, EthLink, PeerLink
  <1> HIDE DEF po, eth, link
  <1>9. /\ Kept(PoState(po), po) /\ Kept(OrphanUp(eth), eth)
        /\ Kept(PeerLinkDown(link), link) /\ Kept(PeerLinkUp(link), link)
    BY <1>6, <1>7, PoStateType, OrphanUpType, PeerLinkType
  <1>10. /\ SwitchInv(PoState(po)) /\ SwitchInv(OrphanUp(eth))
         /\ SwitchInv(PeerLinkDown(link)) /\ SwitchInv(PeerLinkUp(link))
    BY <1>6, <1>7, PoStateInv, OrphanUpInv, PeerLinkUpInv, PeerLinkDownInv
  <1>11. PICK t \in {PoState(po), eth, OrphanUp(eth), PeerLinkDown(link), PeerLinkUp(link)} :
            sw' = [sw EXCEPT ![p] = t]
    BY <1>8
  <1>12. t \in Switch /\ SwitchInv(t) /\ t.kind = s.kind /\ t.state = s.state
    BY <1>6, <1>7, <1>9, <1>10, <1>11 DEF Kept, Same
  <1> QED BY <1>2, <1>4, <1>5, <1>11, <1>12, QuietOK

-----------------------------------------------------------------------------
(* Steps of the session. *)

(* Updates may be on their way to q. *)
Hears(q) == \/ sw[q].state = "EXCHANGE"
            \/ q = Active /\ sw[q].state = "STAGE2" /\ ch[q] # <<>>

LEMMA HearsWhen ==
    ASSUME MacOK, NEW p \in Peer, joined[p], joined[Other(p)],
           sw[p].state = "EXCHANGE" \/ (p = Active /\ sw[p].state = "STAGE2" /\ ch[p] # <<>>)
    PROVE  Hears(Other(p))
  <1>1. StagesAgree
    BY DEF MacOK, AgesInv
  <1> QED BY <1>1, PeerAssumption DEF StagesAgree, Hears, Other, Peer

LEMMA OutFits ==
    ASSUME MacOK, NEW q \in Peer, joined[q], Hears(q),
           NEW o \in Seq(Msg), NoInfo(o), Telling(o, sw[q].kind)
    PROVE  LET c == ch[q] \o o
           IN  /\ c \in Seq(Msg) /\ Telling(c, sw[q].kind)
               /\ StageFits(q, sw[q].state, joined[q], c)
               /\ ch[q] # <<>> => c # <<>>
  <1> DEFINE c == ch[q] \o o
  <1>1. ch[q] \in Seq(Msg) /\ Telling(ch[q], sw[q].kind) /\ StageFits(q, sw[q].state, joined[q], ch[q])
    BY Facts
  <1>2. /\ c \in Seq(Msg) /\ Telling(c, sw[q].kind)
        /\ NoInfo(ch[q]) => NoInfo(c)
        /\ InfoFirst(ch[q]) /\ ch[q] # <<>> => InfoFirst(c) /\ c # <<>>
    BY <1>1, Appended
  <1>3. ch[q] # <<>> => c # <<>>
    <2>1. Len(c) = Len(ch[q]) + Len(o) /\ Len(ch[q]) \in Nat /\ Len(o) \in Nat
      BY <1>1
    <2> QED BY <1>1, <2>1
  <1> HIDE DEF c
  <1>4. CASE sw[q].state = "EXCHANGE"
    BY <1>1, <1>2, <1>3, <1>4 DEF StageFits, c
  <1>5. CASE q = Active /\ sw[q].state = "STAGE2" /\ ch[q] # <<>>
    BY <1>1, <1>2, <1>3, <1>5, PeerAssumption DEF StageFits, c
  <1> QED BY <1>4, <1>5 DEF Hears

LEMMA JoinOK ==
    ASSUME MacOK, Join
    PROVE  TypeOK' /\ AgesInv'
  <1> DEFINE t(p) == [sw[p] EXCEPT !.state = "STAGE1"]
  <1>1. /\ joined' = [p \in Peer |-> TRUE] /\ sw' = [p \in Peer |-> t(p)]
        /\ alive' = alive /\ learnt' = learnt /\ note' = note /\ ch' = ch /\ events' = events
    BY DEF Join
  <1>2. ASSUME NEW p \in Peer
        PROVE  /\ Moved(t(p), sw[p], "STAGE1") /\ SwitchInv(t(p)) /\ ch[p] = <<>> /\ alive[p]
    <2>1. sw[p] \in Switch /\ AloneInv(sw[p])
      BY Facts, InvAlone
    <2>2. sw[p].state = "INIT" /\ ch[p] = <<>>
      <3>1. ~joined[p]
        BY DEF Join
      <3>2. sw[p].state \in State /\ StageFits(p, sw[p].state, joined[p], ch[p])
        BY Facts
      <3> QED BY <3>1, <3>2 DEF StageFits, State
    <2>3. alive[p]
      BY DEF Join
    <2> QED BY <2>1, <2>2, <2>3, StateMoved, StageSwitchInv DEF State
  <1> HIDE DEF t
  <1>3. \A p \in Peer : sw'[p] = t(p) /\ joined'[p]
    BY <1>1
  <1>4. TypeOK'
    <2>1. sw' \in [Peer -> Switch] /\ joined' \in [Peer -> BOOLEAN]
      BY <1>1, <1>2 DEF Moved
    <2> QED BY <1>1, <2>1 DEF MacOK, TypeOK
  <1>5. ASSUME NEW p \in Peer
        PROVE  SwitchInv(sw'[p]) /\ StageOf(p)' /\ ToldKind(p)' /\ sw'[p].kind = sw[p].kind
    <2>1. SwitchInv(sw'[p]) /\ sw'[p].kind = sw[p].kind /\ sw'[p].state = "STAGE1"
      BY <1>2, <1>3 DEF Moved
    <2>2. ch'[p] = <<>> /\ joined'[p]
      BY <1>1, <1>2, <1>3
    <2>3. StageFits(p, sw'[p].state, joined'[p], ch'[p])
      BY <2>1, <2>2 DEF StageFits
    <2>4. StageOf(p)'
      BY <2>1, <2>3, StageFitsIs DEF State
    <2>5. ToldKind(p)'
      BY <1>1, <2>1, Facts DEF ToldKind, NoteTold, Telling
    <2> QED BY <2>1, <2>4, <2>5
  <1>6. (sw[Active].kind = sw[Standby].kind)'
    BY <1>5 DEF MacOK, AgesInv, Peer
  <1>7. StagesAgree'
    <2>1. Active \in Peer /\ Standby \in Peer
      BY DEF Peer
    <2>2. sw'[Active].state = "STAGE1" /\ sw'[Standby].state = "STAGE1" /\ ch'[Standby] = <<>>
      BY <1>1, <1>2, <1>3, <2>1 DEF Moved
    <2> QED BY <2>2 DEF StagesAgree
  <1>8. \A p \in Peer : alive'[p]
    BY <1>1, <1>2
  <1>9. AgesInv'
    BY <1>5, <1>6, <1>7, <1>8 DEF AgesInv, SwitchInv, OfKind, OnOrigin, AgesApart, ChipRight,
                                  BothAged, InstalledOnPo, OnlyLocal, OnlyPeer
  <1> QED BY <1>4, <1>9

LEMMA LeaveOK ==
    ASSUME MacOK, NEW p \in Peer, Leave(p)
    PROVE  TypeOK' /\ AgesInv'
  <1> DEFINE s == sw[p]
             t == Disconnected(s)
  <1>0. s \in Switch /\ SwitchInv(s)
    BY Facts
  <1>1. Moved(t, s, "INIT") /\ SwitchInv(t)
    BY <1>0, DisconnectedType, DisconnectedInv
  <1>2. /\ sw' = [sw EXCEPT ![p] = t] /\ joined' = [joined EXCEPT ![p] = FALSE]
        /\ ch' = [ch EXCEPT ![p] = <<>>]
        /\ alive' = alive /\ learnt' = learnt /\ note' = note
    BY DEF Leave
  <1>3. events' \in 0..MaxEvents
    BY Spent DEF Leave
  <1> HIDE DEF t
  <1>4. t \in Switch /\ t.kind = sw[p].kind /\ t.state = "INIT"
    BY <1>1 DEF Moved
  <1>5. /\ alive' \in [Peer -> BOOLEAN] /\ learnt' \in [Peer -> HostPort \cup {"none"}]
        /\ note' \in [Peer -> Seq(Item)] /\ joined' \in [Peer -> BOOLEAN] /\ ch' \in [Peer -> Seq(Msg)]
        /\ sw \in [Peer -> Switch] /\ joined \in [Peer -> BOOLEAN] /\ ch \in [Peer -> Seq(Msg)]
    <2>1. <<>> \in Seq(Msg)
      BY EmptySeq
    <2> QED BY <1>2, <2>1 DEF MacOK, TypeOK
  <1>6. ~joined'[p]
    BY <1>2, <1>5
  <1>7. ASSUME NEW q \in Peer
        PROVE  /\ NoteTold(note'[q], sw[q].kind) /\ Telling(ch'[q], sw[q].kind)
               /\ ~alive'[q] => ~joined'[q] /\ note'[q] = <<>>
               /\ StageFits(q, sw'[q].state, joined'[q], ch'[q])
    <2>1. CASE q = p
      <3>1. sw'[q].state = "INIT" /\ ch'[q] = <<>> /\ note'[q] = note[q] /\ alive'[q] = alive[q]
        BY <1>2, <1>4, <1>5, <2>1
      <3>2. Len(ch'[q]) = 0
        BY <3>1
      <3>3. Telling(ch'[q], sw[q].kind)
        BY <3>2 DEF Telling
      <3>4. StageFits(q, sw'[q].state, joined'[q], ch'[q])
        BY <1>6, <2>1, <3>1 DEF StageFits
      <3> QED BY <1>6, <2>1, <3>1, <3>3, <3>4, Facts
    <2>2. CASE q # p
      <3>1. /\ sw'[q] = sw[q] /\ ch'[q] = ch[q] /\ joined'[q] = joined[q] /\ note'[q] = note[q]
            /\ alive'[q] = alive[q]
        BY <1>2, <1>5, <2>2
      <3> QED BY <3>1, Facts
    <2> QED BY <2>1, <2>2
  <1>8. StagesAgree'
    BY <1>6 DEF StagesAgree, Peer
  <1> QED BY <1>1, <1>2, <1>3, <1>4, <1>5, <1>7, <1>8, StepOK

LEMMA ExitOK ==
    ASSUME MacOK, NEW p \in Peer, NEW warm \in BOOLEAN, Exit(p, warm)
    PROVE  TypeOK' /\ AgesInv'
  <1> DEFINE s == sw[p]
             q == Other(p)
             t == Fresh(s.chip, s.up, s.haslink, s.kind)
             out == IF warm /\ s.state = "EXCHANGE"
                    THEN << [type |-> "WARM"] >> \o Pending(s) ELSE <<>>
             c == IF joined[q] THEN ch[q] \o out ELSE ch[q]
  <1>0. /\ s \in Switch /\ OfKind(s) /\ s.state \in State /\ q \in Peer /\ q # p
        /\ StageFits(p, s.state, joined[p], ch[p]) /\ s.kind = sw[q].kind
        /\ ch[q] \in Seq(Msg)
    BY Facts, Peers
  <1>1. t \in Switch /\ SwitchInv(t) /\ t.state = "INIT" /\ t.kind = s.kind
    <2>1. /\ s.chip \in Port \cup {"none"} /\ s.up \in [Port -> BOOLEAN] /\ s.haslink \in BOOLEAN
          /\ s.kind \in Types
      BY <1>0 DEF Switch
    <2> QED BY <2>1, FreshInv
  <1>2. /\ sw' = [sw EXCEPT ![p] = t] /\ joined' = [joined EXCEPT ![p] = FALSE]
        /\ ch' = [ch EXCEPT ![p] = <<>>, ![q] = IF joined[q] THEN @ \o out ELSE @]
        /\ alive' = [alive EXCEPT ![p] = FALSE] /\ note' = [note EXCEPT ![p] = <<>>]
        /\ learnt' = learnt /\ events' \in 0..MaxEvents
    BY Spent DEF Exit
  <1> HIDE DEF t
  <1>3. out \in Seq(Msg) /\ NoInfo(out) /\ Telling(out, s.kind)
    <2>1. Pending(s) \in Seq(Msg) /\ NoInfo(Pending(s)) /\ Telling(Pending(s), s.kind)
      BY <1>0, PendingIs
    <2> DEFINE w == [type |-> "WARM"]
    <2>2. w \in Msg /\ w.type = "WARM"
      BY DEF Msg
    <2> HIDE DEF w
    <2>3. <<w>> \in Seq(Msg) /\ NoInfo(<<w>>) /\ Telling(<<w>>, s.kind)
      BY <2>2 DEF NoInfo, IsInfo, Telling
    <2>4. /\ <<w>> \o Pending(s) \in Seq(Msg) /\ NoInfo(<<w>> \o Pending(s))
          /\ Telling(<<w>> \o Pending(s), s.kind)
      <3> DEFINE a == <<w>>
                 b == Pending(s)
      <3>1. /\ a \in Seq(Msg) /\ NoInfo(a) /\ Telling(a, s.kind)
            /\ b \in Seq(Msg) /\ NoInfo(b) /\ Telling(b, s.kind)
        BY <2>1, <2>3
      <3> HIDE DEF a, b
      <3>2. a \o b \in Seq(Msg) /\ NoInfo(a \o b) /\ Telling(a \o b, s.kind)
        BY <3>1, Appended
      <3> QED BY <3>2 DEF a, b
    <2>5. <<>> \in Seq(Msg) /\ NoInfo(<<>>) /\ Telling(<<>>, s.kind)
      <3> DEFINE e == <<>>
      <3>1. e \in Seq(Msg) /\ Len(e) = 0
        BY EmptySeq
      <3> HIDE DEF e
      <3>2. NoInfo(e) /\ Telling(e, s.kind)
        BY <3>1 DEF NoInfo, Telling
      <3> QED BY <3>1, <3>2 DEF e
    <2> QED BY <2>4, <2>5 DEF w
  <1>4. c \in Seq(Msg) /\ Telling(c, sw[q].kind) /\ StageFits(q, sw[q].state, joined[q], c)
    <2>1. ch[q] \in Seq(Msg) /\ Telling(ch[q], sw[q].kind) /\ StageFits(q, sw[q].state, joined[q], ch[q])
      BY <1>0, Facts
    <2>2. CASE joined[q] /\ s.state = "EXCHANGE"
      <3>1. joined[p]
        BY <1>0, <2>2 DEF StageFits
      <3>2. Hears(q)
        BY <2>2, <3>1, HearsWhen
      <3> HIDE DEF out
      <3> QED BY <1>0, <1>3, <2>2, <3>2, OutFits
    <2>3. CASE ~(joined[q] /\ s.state = "EXCHANGE")
      <3>1. joined[q] => out = <<>>
        BY <2>3
      <3>2. ch[q] \o <<>> = ch[q]
        BY <2>1
      <3>3. c = ch[q]
        BY <3>1, <3>2
      <3> QED BY <2>1, <3>3
    <2> QED BY <2>2, <2>3
  <1> HIDE DEF out
  <1>5. /\ alive' \in [Peer -> BOOLEAN] /\ learnt' \in [Peer -> HostPort \cup {"none"}]
        /\ note' \in [Peer -> Seq(Item)] /\ joined' \in [Peer -> BOOLEAN]
        /\ sw \in [Peer -> Switch] /\ joined \in [Peer -> BOOLEAN] /\ ch \in [Peer -> Seq(Msg)]
        /\ alive \in [Peer -> BOOLEAN] /\ note \in [Peer -> Seq(Item)]
    <2>1. <<>> \in Seq(Item)
      BY EmptySeq
    <2> QED BY <1>2, <2>1 DEF MacOK, TypeOK
  <1>6. ch' = [ch EXCEPT ![p] = <<>>, ![q] = c]
    BY <1>0, <1>2, <1>5
  <1> HIDE DEF c
  <1>7. ch' \in [Peer -> Seq(Msg)] /\ ch'[p] = <<>> /\ ch'[q] = c
    <2>1. <<>> \in Seq(Msg)
      BY EmptySeq
    <2> QED BY <1>0, <1>4, <1>5, <1>6, <2>1
  <1>8. ~joined'[p] /\ note'[p] = <<>> /\ sw'[p].state = "INIT"
    BY <1>1, <1>2, <1>5
  <1>9. /\ joined'[q] = joined[q] /\ note'[q] = note[q] /\ sw'[q] = sw[q] /\ alive'[q] = alive[q]
    BY <1>0, <1>2, <1>5
  <1>10. ASSUME NEW r \in Peer
        PROVE  /\ NoteTold(note'[r], sw[r].kind) /\ Telling(ch'[r], sw[r].kind)
               /\ ~alive'[r] => ~joined'[r] /\ note'[r] = <<>>
               /\ StageFits(r, sw'[r].state, joined'[r], ch'[r])
    <2>1. CASE r = p
      <3>1. NoteTold(<<>>, sw[r].kind) /\ Telling(<<>>, sw[r].kind)
        BY DEF NoteTold, Telling
      <3>2. StageFits(r, sw'[r].state, joined'[r], ch'[r])
        BY <1>7, <1>8, <2>1 DEF StageFits
      <3> QED BY <1>7, <1>8, <2>1, <3>1, <3>2
    <2>2. CASE r = q
      BY <1>4, <1>7, <1>9, <2>2, Facts
    <2> QED BY <2>1, <2>2, Peers
  <1>11. StagesAgree'
    BY <1>8 DEF StagesAgree, Peer
  <1> QED BY <1>1, <1>2, <1>5, <1>7, <1>10, <1>11, StepOK

LEMMA RestartOK ==
    ASSUME MacOK, NEW p \in Peer, Restart(p)
    PROVE  TypeOK' /\ AgesInv'
  <1> DEFINE s == sw[p]
             n == [op |-> "add", port |-> learnt[p], type |-> s.kind]
             c == IF learnt[p] = "none" THEN <<>> ELSE <<n>>
  <1>0. /\ s \in Switch /\ SwitchInv(s) /\ s.kind \in Types
        /\ ~joined[p]
    BY Facts DEF Restart
  <1>1. /\ sw \in [Peer -> Switch] /\ note \in [Peer -> Seq(Item)] /\ alive \in [Peer -> BOOLEAN]
        /\ learnt \in [Peer -> HostPort \cup {"none"}]
        /\ joined \in [Peer -> BOOLEAN] /\ ch \in [Peer -> Seq(Msg)]
    BY DEF MacOK, TypeOK
  <1>2. /\ alive' = [alive EXCEPT ![p] = TRUE] /\ note' = [note EXCEPT ![p] = c]
        /\ joined' = joined /\ sw' = sw /\ learnt' = learnt /\ ch' = ch /\ events' = events
    BY DEF Restart
  <1>3. c \in Seq(Item) /\ NoteTold(c, s.kind)
    <2>1. CASE learnt[p] = "none"
      BY <2>1, EmptySeq DEF NoteTold
    <2>2. CASE learnt[p] # "none"
      <3>1. n \in Item /\ n.type = s.kind
        BY <1>0, <1>1, <2>2 DEF Item, Op
      <3> HIDE DEF n
      <3> QED BY <2>2, <3>1 DEF NoteTold
    <2> QED BY <2>1, <2>2
  <1> HIDE DEF c
  <1>4. sw' = [sw EXCEPT ![p] = s]
    BY <1>1, <1>2
  <1>5. note' \in [Peer -> Seq(Item)] /\ alive' \in [Peer -> BOOLEAN]
    BY <1>1, <1>2, <1>3
  <1>6. ASSUME NEW q \in Peer
        PROVE  /\ NoteTold(note'[q], sw[q].kind) /\ Telling(ch'[q], sw[q].kind)
               /\ ~alive'[q] => ~joined'[q] /\ note'[q] = <<>>
               /\ StageFits(q, sw'[q].state, joined'[q], ch'[q])
    <2>1. CASE q = p
      <3>1. alive'[q] /\ note'[q] = c
        BY <1>1, <1>2, <2>1
      <3> QED BY <1>2, <1>3, <2>1, <3>1, Facts
    <2>2. CASE q # p
      <3>1. alive'[q] = alive[q] /\ note'[q] = note[q]
        BY <1>1, <1>2, <2>2
      <3> QED BY <1>2, <3>1, Facts
    <2> QED BY <2>1, <2>2
  <1>7. StagesAgree'
    BY <1>2 DEF MacOK, AgesInv, StagesAgree
  <1>8. events' \in 0..MaxEvents
    BY <1>2, Spent
  <1> QED BY <1>0, <1>1, <1>2, <1>4, <1>5, <1>6, <1>7, <1>8, StepOK

-----------------------------------------------------------------------------
(* Turns of the loop. *)

Agree(xa, xs, ca, cs) ==
    \/ xa = "STAGE1" /\ xs = "STAGE1" /\ cs = <<>>
    \/ xa = "STAGE2" /\ xs = "STAGE1" /\ ca = <<>>
    \/ xa = "STAGE2" /\ xs = "STAGE2" /\ ca = <<>>
    \/ xa = "STAGE2" /\ xs = "EXCHANGE" /\ ca # <<>>
    \/ xa = "EXCHANGE" /\ xs = "EXCHANGE"

LEMMA Agreed ==
    ASSUME MacOK, joined[Active], joined[Standby]
    PROVE  Agree(sw[Active].state, sw[Standby].state, ch[Active], ch[Standby])
  BY DEF MacOK, AgesInv, StagesAgree, Agree

(* p has read to mine, is t, and theirs is on its way to its peer. *)
LEMMA TurnOK ==
    ASSUME MacOK, NEW p \in Peer, joined[p], NEW t \in Switch, SwitchInv(t), t.kind = sw[p].kind,
           NEW mine \in Seq(Msg), NEW theirs \in Seq(Msg),
           Telling(mine, sw[p].kind), Telling(theirs, sw[p].kind),
           StageFits(p, t.state, joined[p], mine),
           StageFits(Other(p), sw[Other(p)].state, joined[Other(p)], theirs),
           joined[Other(p)] => IF p = Active THEN Agree(t.state, sw[Other(p)].state, mine, theirs)
                               ELSE Agree(sw[Other(p)].state, t.state, theirs, mine),
           sw' = [sw EXCEPT ![p] = t], ch' = [ch EXCEPT ![p] = mine, ![Other(p)] = theirs],
           UNCHANGED <<alive, joined, learnt, note, events>>
    PROVE  TypeOK' /\ AgesInv'
  <1> DEFINE q == Other(p)
  <1>0. q \in Peer /\ q # p /\ \A r \in Peer : r = p \/ r = q
    BY Peers
  <1>1. /\ sw \in [Peer -> Switch] /\ ch \in [Peer -> Seq(Msg)] /\ joined \in [Peer -> BOOLEAN]
        /\ alive \in [Peer -> BOOLEAN] /\ note \in [Peer -> Seq(Item)]
        /\ learnt \in [Peer -> HostPort \cup {"none"}]
    BY DEF MacOK, TypeOK
  <1>2. /\ ch' \in [Peer -> Seq(Msg)] /\ ch'[p] = mine /\ ch'[q] = theirs
        /\ sw'[p] = t /\ sw'[q] = sw[q] /\ joined' = joined /\ note' = note /\ alive' = alive
    BY <1>0, <1>1
  <1>3. ASSUME NEW r \in Peer
        PROVE  /\ NoteTold(note'[r], sw[r].kind) /\ Telling(ch'[r], sw[r].kind)
               /\ ~alive'[r] => ~joined'[r] /\ note'[r] = <<>>
               /\ StageFits(r, sw'[r].state, joined'[r], ch'[r])
    BY ZenonT(60), <1>0, <1>2, Facts
  <1>4. StagesAgree'
    <2>1. joined[q] => Agree(sw'[Active].state, sw'[Standby].state, ch'[Active], ch'[Standby])
      <3>1. CASE p = Active
        BY <1>2, <3>1, PeerAssumption DEF Other
      <3>2. CASE p = Standby
        BY <1>2, <3>2, PeerAssumption DEF Other
      <3> QED BY <3>1, <3>2 DEF Peer
    <2>2. joined'[Active] /\ joined'[Standby] => joined[q]
      BY <1>2 DEF Other
    <2> QED BY <2>1, <2>2 DEF Agree, StagesAgree
  <1>5. events' \in 0..MaxEvents
    BY Spent
  <1> QED BY ZenonT(60), <1>1, <1>2, <1>3, <1>4, <1>5, StepOK

LEMMA SendInfoOK ==
    ASSUME MacOK, NEW p \in Peer, SendInfo(p)
    PROVE  TypeOK' /\ AgesInv'
  <1> DEFINE s == sw[p]
             q == Other(p)
             u == Informed(p, s)
             up == u.state = "EXCHANGE"
             t == IF up THEN Flushed(u) ELSE u
             out == Info(s) \o (IF up THEN Pending(u) ELSE <<>>)
             theirs == IF joined[q] THEN ch[q] \o out ELSE ch[q]
  <1>0. /\ s \in Switch /\ SwitchInv(s) /\ q \in Peer /\ q # p /\ joined[p] /\ s.kind = sw[q].kind
        /\ ch[p] \in Seq(Msg) /\ ch[q] \in Seq(Msg)
        /\ Telling(ch[p], s.kind) /\ Telling(ch[q], s.kind)
        /\ StageFits(p, s.state, joined[p], ch[p]) /\ StageFits(q, sw[q].state, joined[q], ch[q])
    BY Facts, Peers DEF SendInfo
  <1>1. /\ Moved(u, s, IF p = Active THEN "STAGE2" ELSE "EXCHANGE") /\ SwitchInv(u)
    BY <1>0, InformedIs
  <1>2. sw' = [sw EXCEPT ![p] = t] /\ UNCHANGED <<alive, joined, learnt, note, events>>
    BY DEF SendInfo
  <1>3. ch' = [ch EXCEPT ![p] = ch[p], ![q] = theirs]
    <2>1. ch \in [Peer -> Seq(Msg)]
      BY DEF MacOK, TypeOK
    <2>2. ch' = [ch EXCEPT ![q] = theirs]
      BY DEF SendInfo, Sent
    <2> HIDE DEF theirs
    <2> QED BY <1>0, <2>1, <2>2
  <1> HIDE DEF u
  <1>4. /\ t \in Switch /\ SwitchInv(t) /\ t.kind = s.kind /\ t.state = u.state
    BY <1>1, FlushedType, FlushedInv DEF Moved, Kept, Same
  <1> DEFINE i == Info(s)
             e == <<>>
  <1>5. i \in Seq(Msg) /\ Len(i) = 1 /\ IsInfo(i[1]) /\ Telling(i, s.kind) /\ InfoFirst(i) /\ i # <<>>
    <2> DEFINE m == [type |-> "INFO", up |-> s.up["po"]]
    <2>1. s.up["po"] \in BOOLEAN
      BY <1>0 DEF Switch, Port
    <2>2. m \in Msg /\ m.type = "INFO"
      BY <2>1 DEF Msg
    <2>3. i = <<m>>
      BY DEF Info
    <2> HIDE DEF m, i
    <2>4. Len(i) = 1 /\ i[1] = m /\ i \in Seq(Msg) /\ i # <<>>
      BY <2>2, <2>3
    <2>5. IsInfo(i[1]) /\ Telling(i, s.kind)
      BY <2>2, <2>4 DEF IsInfo, Telling
    <2>6. Len(Tail(i)) = 0
      BY <2>4
    <2>7. InfoFirst(i)
      <3>1. NoInfo(Tail(i))
        BY <2>6 DEF NoInfo
      <3> QED BY <2>5, <3>1 DEF InfoFirst
    <2> QED BY <2>4, <2>5, <2>7
  <1>6. e \in Seq(Msg) /\ Len(e) = 0 /\ \A c \in Seq(Msg) : c \o e = c /\ e \o c = c
    BY EmptySeq
  <1>7. CASE p = Active
    <2>1. s.state = "STAGE1" /\ ch[p] = <<>> /\ q = Standby
      BY <1>0, <1>7, PeerAssumption DEF SendInfo, MustInform, StageFits, Other
    <2>2. u.state = "STAGE2" /\ ~up
      BY <1>1, <1>7 DEF Moved
    <2>3. out = i
      BY <1>5, <1>6, <2>2
    <2>4. joined[q] => sw[q].state = "STAGE1" /\ ch[q] = <<>>
      BY <1>0, <1>7, <2>1, Agreed DEF Agree
    <2>5. /\ joined[q] => theirs = i
          /\ ~joined[q] => theirs = ch[q]
      BY <1>5, <1>6, <2>3, <2>4
    <2> HIDE DEF theirs, i, t, out
    <2>6. theirs \in Seq(Msg) /\ Telling(theirs, s.kind)
      BY <1>0, <1>5, <2>5
    <2>7. StageFits(q, sw[q].state, joined[q], theirs)
      BY <1>0, <1>5, <2>1, <2>4, <2>5, PeerAssumption DEF StageFits
    <2>8. StageFits(p, t.state, joined[p], ch[p])
      BY <1>0, <1>4, <1>7, <2>1, <2>2, PeerAssumption DEF StageFits, InfoFirst
    <2>9. joined[q] => Agree(t.state, sw[q].state, ch[p], theirs)
      BY <1>4, <2>1, <2>2, <2>4 DEF Agree
    <2> QED BY <1>0, <1>2, <1>3, <1>4, <1>7, <2>6, <2>7, <2>8, <2>9, TurnOK
  <1>8. CASE p = Standby
    <2>0. p # Active
      BY <1>8, PeerAssumption
    <2>1. s.state = "STAGE2" /\ ch[p] = <<>> /\ q = Active
      BY <1>0, <1>8, <2>0 DEF SendInfo, MustInform, StageFits, Other, Peer
    <2>2. u.state = "EXCHANGE" /\ up
      BY <1>1, <2>0 DEF Moved
    <2> DEFINE b == Pending(u)
    <2>3. b \in Seq(Msg) /\ NoInfo(b) /\ Telling(b, s.kind)
      BY <1>1, PendingIs DEF Moved, SwitchInv
    <2>4. out = i \o b
      BY <2>2
    <2> HIDE DEF i, b, out
    <2>5. out \in Seq(Msg) /\ InfoFirst(out) /\ out # <<>> /\ Telling(out, s.kind)
      BY <1>5, <2>3, <2>4, Appended
    <2>6. joined[q] => sw[q].state = "STAGE2" /\ ch[q] = <<>>
      BY <1>0, <1>8, <2>1, Agreed DEF Agree
    <2>7. /\ joined[q] => theirs = out
          /\ ~joined[q] => theirs = ch[q]
      BY <1>6, <2>5, <2>6
    <2> HIDE DEF theirs, t
    <2>8. theirs \in Seq(Msg) /\ Telling(theirs, s.kind)
      BY <1>0, <2>5, <2>7
    <2>9. StageFits(q, sw[q].state, joined[q], theirs)
      BY <1>0, <2>1, <2>5, <2>6, <2>7, PeerAssumption DEF StageFits
    <2>10. StageFits(p, t.state, joined[p], ch[p])
      <3>1. Len(ch[p]) = 0
        BY <2>1
      <3> QED BY <1>0, <1>4, <2>2, <3>1 DEF StageFits, NoInfo
    <2>11. joined[q] => Agree(sw[q].state, t.state, theirs, ch[p])
      BY <1>4, <2>2, <2>5, <2>6, <2>7 DEF Agree
    <2> QED BY <1>0, <1>2, <1>3, <1>4, <2>0, <2>8, <2>9, <2>10, <2>11, TurnOK
  <1> QED BY <1>7, <1>8 DEF Peer

(* p, in EXCHANGE after its turn, tells a peer that is ready for it. *)
LEMMA FlushTurnOK ==
    ASSUME MacOK, NEW p \in Peer, joined[p], NEW u \in Switch, SwitchInv(u), u.kind = sw[p].kind,
           u.state = "EXCHANGE",
           sw[p].state = "EXCHANGE" \/ (p = Active /\ sw[p].state = "STAGE2" /\ ch[p] # <<>>),
           NEW mine \in Seq(Msg), Telling(mine, sw[p].kind), NoInfo(mine),
           sw' = [sw EXCEPT ![p] = Flushed(u)],
           ch' = [ch EXCEPT ![p] = mine,
                            ![Other(p)] = IF joined[Other(p)] THEN @ \o Pending(u) ELSE @],
           UNCHANGED <<alive, joined, learnt, note, events>>
    PROVE  TypeOK' /\ AgesInv'
  <1> DEFINE q == Other(p)
             t == Flushed(u)
             o == Pending(u)
             theirs == IF joined[q] THEN ch[q] \o o ELSE ch[q]
  <1>0. /\ q \in Peer /\ q # p /\ sw[p].kind = sw[q].kind
        /\ ch[q] \in Seq(Msg) /\ Telling(ch[q], sw[q].kind)
        /\ StageFits(q, sw[q].state, joined[q], ch[q])
    BY Facts, Peers
  <1>1. t \in Switch /\ SwitchInv(t) /\ t.kind = u.kind /\ t.state = "EXCHANGE"
    BY FlushedType, FlushedInv DEF Kept, Same
  <1>2. o \in Seq(Msg) /\ NoInfo(o) /\ Telling(o, sw[q].kind)
    BY <1>0, PendingIs DEF SwitchInv
  <1>3. sw' = [sw EXCEPT ![p] = t]
    OBVIOUS
  <1>4. ch' = [ch EXCEPT ![p] = mine, ![q] = theirs]
    <2>1. ch \in [Peer -> Seq(Msg)]
      BY DEF MacOK, TypeOK
    <2> HIDE DEF o
    <2> QED BY <1>0, <2>1 DEF o
  <1> HIDE DEF t, o
  <1>5. joined[q] => Hears(q)
    BY HearsWhen
  <1>6. /\ theirs \in Seq(Msg) /\ Telling(theirs, sw[q].kind)
        /\ StageFits(q, sw[q].state, joined[q], theirs)
        /\ ch[q] # <<>> => theirs # <<>>
    BY <1>0, <1>2, <1>5, OutFits
  <1> HIDE DEF theirs
  <1>7. StageFits(p, t.state, joined[p], mine)
    BY <1>1 DEF StageFits
  <1>8. joined[q] => IF p = Active THEN Agree(t.state, sw[q].state, mine, theirs)
                     ELSE Agree(sw[q].state, t.state, theirs, mine)
    <2>1. CASE p = Active
      <3>1. q # Active
        BY <1>0, <2>1
      <3>2. joined[q] => sw[q].state = "EXCHANGE"
        BY <1>5, <3>1 DEF Hears
      <3> QED BY <1>1, <2>1, <3>2 DEF Agree
    <2>2. CASE p # Active
      BY <1>1, <1>5, <1>6, <2>2 DEF Hears, Agree
    <2> QED BY <2>1, <2>2
  <1>9. t.kind = sw[p].kind /\ Telling(theirs, sw[p].kind)
    BY <1>0, <1>1, <1>6
  <1>10. UNCHANGED <<alive, joined, learnt, note, events>>
    OBVIOUS
  <1> QED BY ONLY MacOK, p \in Peer, joined[p], mine \in Seq(Msg), Telling(mine, sw[p].kind),
                  <1>1, <1>3, <1>4, <1>6, <1>7, <1>8, <1>9, <1>10, TurnOK

LEMMA FlushOK ==
    ASSUME MacOK, NEW p \in Peer, Flush(p)
    PROVE  TypeOK' /\ AgesInv'
  <1> DEFINE s == sw[p]
             q == Other(p)
  <1>0. /\ s \in Switch /\ SwitchInv(s) /\ joined[p] /\ s.state = "EXCHANGE"
        /\ ch[p] \in Seq(Msg) /\ Telling(ch[p], s.kind)
        /\ StageFits(p, s.state, joined[p], ch[p])
    BY Facts DEF Flush
  <1>1. q \in Peer /\ q # p
    BY Peers
  <1>2. /\ sw' = [sw EXCEPT ![p] = Flushed(s)]
        /\ ch' = [ch EXCEPT ![q] = IF joined[q] THEN @ \o Pending(s) ELSE @]
        /\ UNCHANGED <<alive, joined, learnt, note, events>>
    BY DEF Flush, Sent
  <1>3. ch' = [ch EXCEPT ![p] = ch[p], ![q] = IF joined[q] THEN @ \o Pending(s) ELSE @]
    <2>1. ch \in [Peer -> Seq(Msg)]
      BY DEF MacOK, TypeOK
    <2> DEFINE o == Pending(s)
    <2>2. ch' = [ch EXCEPT ![q] = IF joined[q] THEN @ \o o ELSE @]
      BY <1>2
    <2> HIDE DEF o
    <2>3. ch' = [ch EXCEPT ![p] = ch[p], ![q] = IF joined[q] THEN @ \o o ELSE @]
      BY <1>1, <2>1, <2>2
    <2> QED BY <2>3 DEF o
  <1>4. NoInfo(ch[p])
    BY <1>0 DEF StageFits
  <1> QED BY <1>0, <1>2, <1>3, <1>4, FlushTurnOK

(* Which message it is that p handles. *)
LEMMA HeadIs ==
    ASSUME MacOK, NEW p \in Peer, Receive(p)
    PROVE  LET s == sw[p]
               m == Head(ch[p])
               rest == Tail(ch[p])
           IN  /\ m \in Msg /\ m = ch[p][1] /\ rest \in Seq(Msg) /\ Telling(rest, s.kind)
               /\ Len(ch[p]) \in Nat /\ Len(rest) = Len(ch[p]) - 1
               /\ \A n \in 1..Len(rest) : n + 1 \in 1..Len(ch[p]) /\ rest[n] = ch[p][n + 1]
               /\ \/ s.state = "EXCHANGE" /\ m.type # "INFO" /\ NoInfo(rest)
                  \/ p = Active /\ s.state = "STAGE2" /\ m.type = "INFO" /\ NoInfo(rest)
                  \/ p = Standby /\ s.state = "STAGE1" /\ m.type = "INFO" /\ rest = <<>>
               /\ m.type = "MAC" => /\ s.state = "EXCHANGE"
                                    /\ \A l \in 1..Len(m.items) : m.items[l].type = s.kind
  <1> DEFINE s == sw[p]
             m == Head(ch[p])
             rest == Tail(ch[p])
  <1>0. /\ s.state \in State /\ ch[p] \in Seq(Msg) /\ ch[p] # <<>> /\ ~MustInform(p, s)
        /\ Telling(ch[p], s.kind) /\ StageFits(p, s.state, joined[p], ch[p])
    BY Facts DEF Receive
  <1>1. /\ m \in Msg /\ m = ch[p][1] /\ rest \in Seq(Msg) /\ Len(rest) = Len(ch[p]) - 1
        /\ Len(ch[p]) \in Nat /\ Len(ch[p]) >= 1
        /\ \A n \in 1..Len(ch[p]) - 1 : rest[n] = ch[p][n + 1]
    BY <1>0
  <1>2. \A n \in 1..Len(rest) : n + 1 \in 1..Len(ch[p]) /\ rest[n] = ch[p][n + 1]
    BY <1>1
  <1>3. Telling(rest, s.kind) /\ (NoInfo(ch[p]) => NoInfo(rest))
    BY <1>0, <1>2 DEF Telling, NoInfo
  <1>4. \/ s.state = "EXCHANGE" /\ m.type # "INFO" /\ NoInfo(rest)
        \/ p = Active /\ s.state = "STAGE2" /\ m.type = "INFO" /\ NoInfo(rest)
        \/ p = Standby /\ s.state = "STAGE1" /\ m.type = "INFO" /\ rest = <<>>
    <2>1. s.state # "INIT"
      BY <1>0 DEF StageFits
    <2>2. CASE s.state = "STAGE1"
      <3>1. p # Active
        BY <1>0, <2>2 DEF MustInform
      <3>2. Len(ch[p]) = 1 /\ IsInfo(ch[p][1])
        BY <1>0, <2>2, <3>1 DEF StageFits
      <3>3. rest = <<>>
        <4> HIDE DEF rest
        <4>1. Len(rest) = 0
          BY <1>1, <3>2
        <4> QED BY <1>1, <4>1, EmptySeq
      <3> QED BY <1>1, <2>2, <3>1, <3>2, <3>3 DEF Peer, IsInfo
    <2>3. CASE s.state = "STAGE2"
      <3>1. p # Standby
        BY <1>0, <2>3 DEF MustInform
      <3>2. IsInfo(ch[p][1]) /\ NoInfo(rest)
        BY <1>0, <2>3, <3>1 DEF StageFits, InfoFirst
      <3> QED BY <1>1, <2>3, <3>1, <3>2 DEF Peer, IsInfo
    <2>4. CASE s.state = "EXCHANGE"
      <3>1. NoInfo(ch[p])
        BY <1>0, <2>4 DEF StageFits
      <3>2. ~IsInfo(m)
        BY <1>1, <3>1 DEF NoInfo
      <3> QED BY <1>3, <2>4, <3>1, <3>2 DEF IsInfo
    <2> QED BY <1>0, <2>1, <2>2, <2>3, <2>4 DEF State
  <1>5. m.type = "MAC" => /\ s.state = "EXCHANGE"
                          /\ \A l \in 1..Len(m.items) : m.items[l].type = s.kind
    BY <1>0, <1>1, <1>4 DEF Telling
  <1> QED BY <1>1, <1>2, <1>3, <1>4, <1>5

LEMMA ReceiveOK ==
    ASSUME MacOK, NEW p \in Peer, Receive(p)
    PROVE  TypeOK' /\ AgesInv'
  <1> DEFINE s == sw[p]
             q == Other(p)
             m == Head(ch[p])
             rest == Tail(ch[p])
             u == Received(p, s, m)
             up == u.state = "EXCHANGE"
  <1>0. /\ s \in Switch /\ SwitchInv(s) /\ q \in Peer /\ q # p /\ joined[p] /\ s.kind = sw[q].kind
        /\ s.state \in State /\ ch[p] \in Seq(Msg) /\ ch[q] \in Seq(Msg) /\ ch[p] # <<>>
        /\ Telling(ch[p], s.kind) /\ Telling(ch[q], s.kind)
        /\ StageFits(p, s.state, joined[p], ch[p]) /\ StageFits(q, sw[q].state, joined[q], ch[q])
    BY Facts, Peers DEF Receive
  <1>1. /\ m \in Msg /\ m = ch[p][1] /\ rest \in Seq(Msg) /\ Len(rest) = Len(ch[p]) - 1
        /\ Len(ch[p]) \in Nat
    BY HeadIs
  <1>3. Telling(rest, s.kind)
    BY HeadIs
  <1>4. /\ sw' = [sw EXCEPT ![p] = IF up THEN Flushed(u) ELSE u]
        /\ ch' = [ch EXCEPT ![p] = rest, ![q] = IF up /\ joined[q] THEN @ \o Pending(u) ELSE @]
        /\ UNCHANGED <<alive, joined, learnt, note, events>> /\ ~MustInform(p, s)
    BY DEF Receive
  <1>5. ch \in [Peer -> Seq(Msg)]
    BY DEF MacOK, TypeOK
  <1>6. \/ s.state = "EXCHANGE" /\ m.type # "INFO" /\ NoInfo(rest)
        \/ p = Active /\ s.state = "STAGE2" /\ m.type = "INFO" /\ NoInfo(rest)
        \/ p = Standby /\ s.state = "STAGE1" /\ m.type = "INFO" /\ rest = <<>>
    BY HeadIs
  <1>7. m.type = "MAC" => /\ s.state = "EXCHANGE"
                          /\ \A l \in 1..Len(m.items) : m.items[l].type = s.kind
    BY HeadIs
  <1>8. /\ Moved(u, s, IF m.type = "INFO"
                       THEN IF p = Standby THEN "STAGE2" ELSE "EXCHANGE" ELSE s.state)
        /\ SwitchInv(u)
    BY <1>0, <1>1, <1>7, ReceivedIs
  <1> HIDE DEF u, m, rest
  <1>9. u \in Switch /\ u.kind = s.kind
    BY <1>8 DEF Moved
  <1>10. CASE \/ s.state = "EXCHANGE" /\ m.type # "INFO" /\ NoInfo(rest)
              \/ p = Active /\ s.state = "STAGE2" /\ m.type = "INFO" /\ NoInfo(rest)
    <2>1. u.state = "EXCHANGE"
      BY <1>8, <1>10, PeerAssumption DEF Moved
    <2>2. /\ sw' = [sw EXCEPT ![p] = Flushed(u)]
          /\ ch' = [ch EXCEPT ![p] = rest, ![q] = IF joined[q] THEN @ \o Pending(u) ELSE @]
      BY <1>4, <2>1
    <2> QED BY <1>0, <1>1, <1>3, <1>4, <1>8, <1>9, <1>10, <2>1, <2>2, FlushTurnOK DEF rest
  <1>11. CASE p = Standby /\ s.state = "STAGE1" /\ m.type = "INFO" /\ rest = <<>>
    <2>1. u.state = "STAGE2"
      BY <1>8, <1>11 DEF Moved
    <2>2. sw' = [sw EXCEPT ![p] = u] /\ ch' = [ch EXCEPT ![p] = rest, ![q] = ch[q]]
      BY <1>0, <1>4, <1>5, <2>1
    <2>3. StageFits(p, u.state, joined[p], rest)
      BY <1>0, <1>11, <2>1 DEF StageFits
    <2>4. p # Active /\ q = Active
      BY <1>0, <1>11, PeerAssumption DEF Peer
    <2>5. joined[q] => Agree(sw[q].state, u.state, ch[q], rest)
      <3> HAVE joined[q]
      <3>1. Agree(sw[Active].state, sw[Standby].state, ch[Active], ch[Standby])
        BY <1>0, <1>11, <2>4, Agreed
      <3> QED BY <1>0, <1>11, <2>1, <2>4, <3>1 DEF Agree
    <2> QED BY <1>0, <1>1, <1>3, <1>4, <1>8, <1>9, <2>2, <2>3, <2>4, <2>5, TurnOK DEF rest
  <1> QED BY <1>6, <1>10, <1>11

-----------------------------------------------------------------------------
LEMMA MacInit == Init => TypeOK /\ AgesInv
  <1> SUFFICES ASSUME Init PROVE TypeOK /\ AgesInv
    OBVIOUS
  <1>1. PICK link \in PeerLinks, y \in Types, po \in [Peer -> BOOLEAN] :
           sw = [p \in Peer |-> Fresh("none", [i \in Port |-> i = "po" => po[p]], link, y)]
    BY DEF Init
  <1> DEFINE t(p) == Fresh("none", [i \in Port |-> i = "po" => po[p]], link, y)
  <1>2. ASSUME NEW p \in Peer
        PROVE  t(p) \in Switch /\ SwitchInv(t(p)) /\ t(p).state = "INIT" /\ t(p).kind = y
    <2> DEFINE up == [i \in Port |-> i = "po" => po[p]]
    <2>1. up \in [Port -> BOOLEAN] /\ link \in BOOLEAN
      BY OpsAssumption
    <2> HIDE DEF up
    <2>2. /\ Fresh("none", up, link, y) \in Switch /\ SwitchInv(Fresh("none", up, link, y))
          /\ Fresh("none", up, link, y).state = "INIT" /\ Fresh("none", up, link, y).kind = y
      BY <2>1, FreshInv
    <2> QED BY <2>2 DEF up
  <1>3. sw = [p \in Peer |-> t(p)]
    BY <1>1
  <1> HIDE DEF t
  <1>4. /\ alive = [p \in Peer |-> TRUE] /\ joined = [p \in Peer |-> FALSE]
        /\ learnt = [p \in Peer |-> "none"] /\ note = [p \in Peer |-> <<>>]
        /\ ch = [p \in Peer |-> <<>>] /\ events = 0
    BY DEF Init
  <1>5. TypeOK
    <2>1. <<>> \in Seq(Item) /\ <<>> \in Seq(Msg)
      BY EmptySeq
    <2>2. sw \in [Peer -> Switch]
      BY <1>2, <1>3
    <2>3. events \in 0..MaxEvents
      BY <1>4, BoundAssumption
    <2> QED BY <1>4, <2>1, <2>2, <2>3 DEF TypeOK
  <1>6. ASSUME NEW p \in Peer PROVE SwitchInv(sw[p]) /\ StageOf(p) /\ ToldKind(p) /\ sw[p].kind = y
    <2>1. SwitchInv(sw[p]) /\ sw[p].state = "INIT" /\ sw[p].kind = y
      BY <1>2, <1>3
    <2>2. ~joined[p] /\ ch[p] = <<>> /\ note[p] = <<>>
      BY <1>4
    <2>3. StageOf(p)
      BY <2>1, <2>2 DEF StageOf
    <2>4. Len(ch[p]) = 0 /\ Len(note[p]) = 0
      BY <2>2
    <2>5. ToldKind(p)
      BY <2>4 DEF ToldKind
    <2> QED BY <2>1, <2>3, <2>5
  <1>7. sw[Active].kind = sw[Standby].kind
    BY <1>6 DEF Peer
  <1>8. StagesAgree /\ \A p \in Peer : alive[p]
    BY <1>4 DEF StagesAgree, Peer
  <1> QED BY <1>5, <1>6, <1>7, <1>8 DEF AgesInv

LEMMA MacStep == TypeOK /\ AgesInv /\ [Next]_vars => TypeOK' /\ AgesInv'
  <1> SUFFICES ASSUME MacOK, [Next]_vars PROVE TypeOK' /\ AgesInv'
    BY DEF MacOK
  <1>1. CASE Join
    BY <1>1, JoinOK
  <1>2. CASE \E p \in Peer : SendInfo(p) \/ Receive(p) \/ Flush(p)
    BY <1>2, SendInfoOK, ReceiveOK, FlushOK
  <1>3. CASE \E p \in Peer : DownTimer(p) \/ WarmTimer(p) \/ Prepare(p)
    BY <1>3, TimersOK
  <1>4. CASE \E p \in Peer : Syncd(p)
    BY <1>4, SyncdOK
  <1>5. CASE \E p \in Peer : Leave(p) \/ Restart(p)
    BY <1>5, LeaveOK, RestartOK
  <1>6. CASE \E p \in Peer : \E warm \in BOOLEAN : Exit(p, warm)
    BY <1>6, ExitOK
  <1>7. CASE \E p \in Peer : (\E i \in HostPort : Learn(p, i)) \/ Age(p) \/ AgeChip(p)
    BY <1>7, HardwareOK
  <1>8. CASE \E p \in Peer : PoLink(p) \/ EthLink(p) \/ PeerLink(p)
    BY <1>8, LinksOK
  <1>9. CASE UNCHANGED vars
    <2>1. TypeOK'
      BY <1>9 DEF MacOK, TypeOK, vars
    <2>2. AgesInv'
      BY ZenonT(60), <1>9 DEF MacOK, AgesInv, vars, StageOf, ToldKind, StagesAgree, SwitchInv, OfKind, OnOrigin,
                  AgesApart, ChipRight, BothAged, InstalledOnPo, OnlyLocal, OnlyPeer
    <2> QED BY <2>1, <2>2
  <1> QED BY <1>1, <1>2, <1>3, <1>4, <1>5, <1>6, <1>7, <1>8, <1>9 DEF Next

(* Every handler keeps the tables, the chip, the queues and what is under way *)
(* within their types, whatever the events and their number.                  *)
THEOREM MacTypeCorrect == Spec => []TypeOK
  <1>1. TypeOK /\ AgesInv /\ [Next]_vars => (TypeOK /\ AgesInv)'
    BY MacStep
  <1> QED BY <1>1, MacInit, PTL DEF Spec

(* Every entry and every update has the type of the address, age flags never  *)
(* coincide, the chip's entry for the port-channel belongs to an entry that   *)
(* says so, and updates are handled in EXCHANGE only.                         *)
THEOREM AgesInvariant == Spec => []AgesInv
  <1>1. TypeOK /\ AgesInv /\ [Next]_vars => (TypeOK /\ AgesInv)'
    BY MacStep
  <1> QED BY <1>1, MacInit, PTL DEF Spec

(* A learnt address never has both age flags: whichever handler sets the     *)
(* second one removes the entry in the same step.                            *)
THEOREM NeverBothAged == Spec => []NotBothAged
  <1>1. AgesInv => NotBothAged
    BY DEF AgesInv, NotBothAged, SwitchInv, AgesApart, BothAged, Dynamic
  <1> QED BY <1>1, AgesInvariant, PTL

(* While updates are exchanged the chip never points to a port-channel that  *)
(* is down, whatever the earlier sessions left behind.                       *)
THEOREM PortsUp == Spec => []PortUp
  <1>1. AgesInv => PortUp
    BY DEF AgesInv, PortUp, SwitchInv, ChipRight, Dynamic
  <1> QED BY <1>1, AgesInvariant, PTL

=============================================================================
