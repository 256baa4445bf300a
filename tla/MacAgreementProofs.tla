-------------------------- MODULE MacAgreementProofs --------------------------
(***************************************************************************)
(* Proofs about MacSync: that an entry is installed where iccpd believes   *)
(* it, and that, while port-channels stay as they are, the two tables      *)
(* agree and neither switch sends back what the other sends it.            *)
(***************************************************************************)
EXTENDS MacSyncProofs

-----------------------------------------------------------------------------
(* What the operators on a switch do, field by field. *)

(* The fields of the entry of t, but for its type. *)
Entry(t, found, ifname, origin, local, peer, pend, synced, op, queued) ==
    /\ t.mac.found = found /\ t.mac.ifname = ifname /\ t.mac.origin = origin
    /\ t.mac.local = local /\ t.mac.peer = peer /\ t.mac.pend = pend
    /\ t.mac.synced = synced /\ t.mac.op = op /\ t.mac.queued = queued

(* What the operators leave alone. *)
Alike(t, s) ==
    /\ t \in Switch
    /\ t.kind = s.kind /\ t.haslink = s.haslink /\ t.state = s.state /\ t.up = s.up
    /\ t.plif = s.plif /\ t.pif = s.pif /\ t.warm = s.warm

(* t is s but for its entry, and the chip, where c is. *)
Sets(t, s, c, h) ==
    Alike(t, s) /\ t.detached = s.detached /\ t.chip = c /\ t.inherited = h

LEMMA SetEntry ==
    ASSUME NEW s \in Switch, NEW r \in Mac
    PROVE  LET t == [s EXCEPT !.mac = r] IN Sets(t, s, s.chip, s.inherited) /\ t.mac = r
  BY DEF Sets, Alike, Switch

LEMMA SetIfname ==
    ASSUME NEW s \in Switch, NEW x \in Port
    PROVE  LET t == [s EXCEPT !.mac.ifname = x]
               m == s.mac
           IN  /\ Sets(t, s, s.chip, s.inherited)
               /\ Entry(t, m.found, x, m.origin, m.local, m.peer, m.pend, m.synced, m.op, m.queued)
  <1> DEFINE m == s.mac
             r == [m EXCEPT !.ifname = x]
  <1>1. m \in Mac
    BY DEF Switch
  <1>2. /\ r \in Mac /\ r.found = m.found /\ r.ifname = x /\ r.origin = m.origin /\ r.local = m.local /\ r.peer = m.peer
        /\ r.pend = m.pend /\ r.synced = m.synced /\ r.op = m.op /\ r.queued = m.queued
    BY <1>1 DEF Mac
  <1>3. [s EXCEPT !.mac.ifname = x] = [s EXCEPT !.mac = r]
    OBVIOUS
  <1> HIDE DEF r
  <1> QED BY <1>2, <1>3, SetEntry DEF Entry

LEMMA SetOrigin ==
    ASSUME NEW s \in Switch, NEW x \in HostPort
    PROVE  LET t == [s EXCEPT !.mac.origin = x]
               m == s.mac
           IN  /\ Sets(t, s, s.chip, s.inherited)
               /\ Entry(t, m.found, m.ifname, x, m.local, m.peer, m.pend, m.synced, m.op, m.queued)
  <1> DEFINE m == s.mac
             r == [m EXCEPT !.origin = x]
  <1>1. m \in Mac
    BY DEF Switch
  <1>2. /\ r \in Mac /\ r.found = m.found /\ r.ifname = m.ifname /\ r.origin = x /\ r.local = m.local /\ r.peer = m.peer
        /\ r.pend = m.pend /\ r.synced = m.synced /\ r.op = m.op /\ r.queued = m.queued
    BY <1>1 DEF Mac
  <1>3. [s EXCEPT !.mac.origin = x] = [s EXCEPT !.mac = r]
    OBVIOUS
  <1> HIDE DEF r
  <1> QED BY <1>2, <1>3, SetEntry DEF Entry

LEMMA SetLocal ==
    ASSUME NEW s \in Switch, NEW x \in BOOLEAN
    PROVE  LET t == [s EXCEPT !.mac.local = x]
               m == s.mac
           IN  /\ Sets(t, s, s.chip, s.inherited)
               /\ Entry(t, m.found, m.ifname, m.origin, x, m.peer, m.pend, m.synced, m.op, m.queued)
  <1> DEFINE m == s.mac
             r == [m EXCEPT !.local = x]
  <1>1. m \in Mac
    BY DEF Switch
  <1>2. /\ r \in Mac /\ r.found = m.found /\ r.ifname = m.ifname /\ r.origin = m.origin /\ r.local = x /\ r.peer = m.peer
        /\ r.pend = m.pend /\ r.synced = m.synced /\ r.op = m.op /\ r.queued = m.queued
    BY <1>1 DEF Mac
  <1>3. [s EXCEPT !.mac.local = x] = [s EXCEPT !.mac = r]
    OBVIOUS
  <1> HIDE DEF r
  <1> QED BY <1>2, <1>3, SetEntry DEF Entry

LEMMA SetPeer ==
    ASSUME NEW s \in Switch, NEW x \in BOOLEAN
    PROVE  LET t == [s EXCEPT !.mac.peer = x]
               m == s.mac
           IN  /\ Sets(t, s, s.chip, s.inherited)
               /\ Entry(t, m.found, m.ifname, m.origin, m.local, x, m.pend, m.synced, m.op, m.queued)
  <1> DEFINE m == s.mac
             r == [m EXCEPT !.peer = x]
  <1>1. m \in Mac
    BY DEF Switch
  <1>2. /\ r \in Mac /\ r.found = m.found /\ r.ifname = m.ifname /\ r.origin = m.origin /\ r.local = m.local /\ r.peer = x
        /\ r.pend = m.pend /\ r.synced = m.synced /\ r.op = m.op /\ r.queued = m.queued
    BY <1>1 DEF Mac
  <1>3. [s EXCEPT !.mac.peer = x] = [s EXCEPT !.mac = r]
    OBVIOUS
  <1> HIDE DEF r
  <1> QED BY <1>2, <1>3, SetEntry DEF Entry

LEMMA SetPend ==
    ASSUME NEW s \in Switch, NEW x \in BOOLEAN
    PROVE  LET t == [s EXCEPT !.mac.pend = x]
               m == s.mac
           IN  /\ Sets(t, s, s.chip, s.inherited)
               /\ Entry(t, m.found, m.ifname, m.origin, m.local, m.peer, x, m.synced, m.op, m.queued)
  <1> DEFINE m == s.mac
             r == [m EXCEPT !.pend = x]
  <1>1. m \in Mac
    BY DEF Switch
  <1>2. /\ r \in Mac /\ r.found = m.found /\ r.ifname = m.ifname /\ r.origin = m.origin /\ r.local = m.local /\ r.peer = m.peer
        /\ r.pend = x /\ r.synced = m.synced /\ r.op = m.op /\ r.queued = m.queued
    BY <1>1 DEF Mac
  <1>3. [s EXCEPT !.mac.pend = x] = [s EXCEPT !.mac = r]
    OBVIOUS
  <1> HIDE DEF r
  <1> QED BY <1>2, <1>3, SetEntry DEF Entry

LEMMA SetSynced ==
    ASSUME NEW s \in Switch, NEW x \in BOOLEAN
    PROVE  LET t == [s EXCEPT !.mac.synced = x]
               m == s.mac
           IN  /\ Sets(t, s, s.chip, s.inherited)
               /\ Entry(t, m.found, m.ifname, m.origin, m.local, m.peer, m.pend, x, m.op, m.queued)
  <1> DEFINE m == s.mac
             r == [m EXCEPT !.synced = x]
  <1>1. m \in Mac
    BY DEF Switch
  <1>2. /\ r \in Mac /\ r.found = m.found /\ r.ifname = m.ifname /\ r.origin = m.origin /\ r.local = m.local /\ r.peer = m.peer
        /\ r.pend = m.pend /\ r.synced = x /\ r.op = m.op /\ r.queued = m.queued
    BY <1>1 DEF Mac
  <1>3. [s EXCEPT !.mac.synced = x] = [s EXCEPT !.mac = r]
    OBVIOUS
  <1> HIDE DEF r
  <1> QED BY <1>2, <1>3, SetEntry DEF Entry

LEMMA SetOp ==
    ASSUME NEW s \in Switch, NEW x \in Op
    PROVE  LET t == [s EXCEPT !.mac.op = x]
               m == s.mac
           IN  /\ Sets(t, s, s.chip, s.inherited)
               /\ Entry(t, m.found, m.ifname, m.origin, m.local, m.peer, m.pend, m.synced, x, m.queued)
  <1> DEFINE m == s.mac
             r == [m EXCEPT !.op = x]
  <1>1. m \in Mac
    BY DEF Switch
  <1>2. /\ r \in Mac /\ r.found = m.found /\ r.ifname = m.ifname /\ r.origin = m.origin /\ r.local = m.local /\ r.peer = m.peer
        /\ r.pend = m.pend /\ r.synced = m.synced /\ r.op = x /\ r.queued = m.queued
    BY <1>1 DEF Mac
  <1>3. [s EXCEPT !.mac.op = x] = [s EXCEPT !.mac = r]
    OBVIOUS
  <1> HIDE DEF r
  <1> QED BY <1>2, <1>3, SetEntry DEF Entry

LEMMA ChipSets ==
    ASSUME NEW s \in Switch, NEW port \in Port \cup {"none"}
    PROVE  LET t == Chip(s, port) IN Sets(t, s, port, FALSE) /\ t.mac = s.mac
  BY DEF Sets, Alike, Chip, Switch

LEMMA AddToChipSets ==
    ASSUME NEW s \in Switch
    PROVE  LET t == AddToChip(s)
               m == s.mac
           IN  /\ Sets(t, s, m.ifname, FALSE)
               /\ Entry(t, m.found, m.ifname, m.origin, m.local, m.peer, m.pend, TRUE, m.op, m.queued)
  <1> DEFINE m == s.mac
             u == Chip(s, m.ifname)
             t == [u EXCEPT !.mac.synced = TRUE]
  <1>0. m.ifname \in Port \cup {"none"}
    BY DEF Switch, Mac
  <1>1. Sets(u, s, m.ifname, FALSE) /\ u.mac = m
    BY <1>0, ChipSets
  <1> HIDE DEF u
  <1>2. /\ Sets(t, u, u.chip, u.inherited)
        /\ Entry(t, m.found, m.ifname, m.origin, m.local, m.peer, m.pend, TRUE, m.op, m.queued)
    BY <1>1, SetSynced DEF Sets, Alike
  <1>3. AddToChip(s) = t
    BY DEF AddToChip, u
  <1> HIDE DEF t
  <1> QED BY <1>1, <1>2, <1>3 DEF Sets, Alike, Entry

LEMMA AddAgeingSets ==
    ASSUME NEW s \in Switch
    PROVE  LET t == AddAgeing(s)
               m == s.mac
           IN  /\ Sets(t, s, m.ifname, FALSE)
               /\ Entry(t, m.found, m.ifname, m.origin, m.local, m.peer, m.pend, TRUE, m.op, m.queued)
  <1> DEFINE m == s.mac
             u == AddToChip(s)
             t == [u EXCEPT !.ageing = TRUE]
  <1>1. /\ Sets(u, s, m.ifname, FALSE)
        /\ Entry(u, m.found, m.ifname, m.origin, m.local, m.peer, m.pend, TRUE, m.op, m.queued)
    BY AddToChipSets
  <1> HIDE DEF u
  <1>2. Sets(t, u, u.chip, u.inherited) /\ t.mac = u.mac
    BY <1>1 DEF Sets, Alike, Switch
  <1>3. AddAgeing(s) = t
    BY DEF AddAgeing, u
  <1> HIDE DEF t
  <1> QED BY <1>1, <1>2, <1>3 DEF Sets, Alike, Entry

LEMMA DelFromChipSets ==
    ASSUME NEW s \in Switch
    PROVE  LET t == DelFromChip(s)
               m == s.mac
           IN  /\ Sets(t, s, "none", FALSE)
               /\ Entry(t, m.found, m.ifname, m.origin, m.local, m.peer, m.pend, FALSE, m.op, m.queued)
  <1> DEFINE m == s.mac
             u == Chip(s, "none")
             t == [u EXCEPT !.mac.synced = FALSE]
  <1>0. "none" \in Port \cup {"none"}
    BY DEF Switch, Mac
  <1>1. Sets(u, s, "none", FALSE) /\ u.mac = m
    BY <1>0, ChipSets
  <1> HIDE DEF u
  <1>2. /\ Sets(t, u, u.chip, u.inherited)
        /\ Entry(t, m.found, m.ifname, m.origin, m.local, m.peer, m.pend, FALSE, m.op, m.queued)
    BY <1>1, SetSynced DEF Sets, Alike
  <1>3. DelFromChip(s) = t
    BY DEF DelFromChip, u
  <1> HIDE DEF t
  <1> QED BY <1>1, <1>2, <1>3 DEF Sets, Alike, Entry

LEMMA QueuedSets ==
    ASSUME NEW s \in Switch, NEW x \in Op
    PROVE  LET t == Queued(s, x)
               m == s.mac
           IN  /\ Sets(t, s, s.chip, s.inherited)
               /\ Entry(t, m.found, m.ifname, m.origin, m.local, m.peer, m.pend, m.synced, x, TRUE)
  <1>1. Sets(Queued(s, x), s, s.chip, s.inherited)
    BY QueuedType DEF Sets, Alike, Kept, Queued, Switch, Mac
  <1>2. s.mac \in Mac /\ Queued(s, x).mac = [s.mac EXCEPT !.op = x, !.queued = TRUE]
    BY DEF Queued, Switch, Mac
  <1> QED BY <1>1, <1>2 DEF Entry, Mac

LEMMA SetLocalAgeSets ==
    ASSUME NEW s \in Switch
    PROVE  LET t == SetLocalAge(s)
               m == s.mac
               new == ~m.local /\ s.state = "EXCHANGE"
           IN  /\ Sets(t, s, s.chip, s.inherited)
               /\ Entry(t, m.found, m.ifname, m.origin, TRUE, m.peer, m.pend, m.synced, t.mac.op, t.mac.queued)
               /\ new => t.mac.op = "del" /\ t.mac.queued
               /\ ~new => t.mac.op = m.op /\ t.mac.queued = m.queued
  <1> DEFINE m == s.mac
             u == Queued(s, "del")
             new == ~m.local /\ s.state = "EXCHANGE"
  <1>1. /\ Sets(u, s, s.chip, s.inherited)
        /\ Entry(u, m.found, m.ifname, m.origin, m.local, m.peer, m.pend, m.synced, "del", TRUE)
    BY QueuedSets DEF Op
  <1>2. \A t \in Switch : LET e == t.mac
            IN  /\ Sets([t EXCEPT !.mac.local = TRUE], t, t.chip, t.inherited)
                /\ Entry([t EXCEPT !.mac.local = TRUE], e.found, e.ifname, e.origin, TRUE, e.peer, e.pend, e.synced, e.op, e.queued)
    BY SetLocal
  <1>3. SetLocalAge(s) = IF new THEN [u EXCEPT !.mac.local = TRUE] ELSE [s EXCEPT !.mac.local = TRUE]
    BY DEF SetLocalAge
  <1> HIDE DEF u
  <1>4. CASE new
    <2> DEFINE t == [u EXCEPT !.mac.local = TRUE]
    <2>1. /\ Sets(t, u, u.chip, u.inherited)
          /\ LET e == u.mac IN Entry(t, e.found, e.ifname, e.origin, TRUE, e.peer, e.pend, e.synced, e.op, e.queued)
      BY <1>1, <1>2 DEF Sets, Alike
    <2>2. SetLocalAge(s) = t
      BY <1>3, <1>4
    <2> HIDE DEF t
    <2> QED BY <1>1, <1>4, <2>1, <2>2 DEF Sets, Alike, Entry
  <1>5. CASE ~new
    <2> DEFINE t == [s EXCEPT !.mac.local = TRUE]
    <2>1. /\ Sets(t, s, s.chip, s.inherited)
          /\ Entry(t, m.found, m.ifname, m.origin, TRUE, m.peer, m.pend, m.synced, m.op, m.queued)
      BY <1>2
    <2>2. SetLocalAge(s) = t
      BY <1>3, <1>5
    <2> HIDE DEF t
    <2> QED BY <1>5, <2>1, <2>2 DEF Sets, Alike, Entry
  <1> QED BY <1>4, <1>5

LEMMA ClearLocalAgeSets ==
    ASSUME NEW s \in Switch
    PROVE  LET t == ClearLocalAge(s)
               m == s.mac
               new == m.local /\ s.state = "EXCHANGE"
           IN  /\ Sets(t, s, s.chip, s.inherited)
               /\ Entry(t, m.found, m.ifname, m.origin, FALSE, m.peer, m.pend, m.synced, t.mac.op, t.mac.queued)
               /\ new => t.mac.op = "add" /\ t.mac.queued
               /\ ~new => t.mac.op = m.op /\ t.mac.queued = m.queued
  <1> DEFINE m == s.mac
             u == Queued(s, "add")
             new == m.local /\ s.state = "EXCHANGE"
  <1>1. /\ Sets(u, s, s.chip, s.inherited)
        /\ Entry(u, m.found, m.ifname, m.origin, m.local, m.peer, m.pend, m.synced, "add", TRUE)
    BY QueuedSets DEF Op
  <1>2. \A t \in Switch : LET e == t.mac
            IN  /\ Sets([t EXCEPT !.mac.local = FALSE], t, t.chip, t.inherited)
                /\ Entry([t EXCEPT !.mac.local = FALSE], e.found, e.ifname, e.origin, FALSE, e.peer, e.pend, e.synced, e.op, e.queued)
    BY SetLocal
  <1>3. ClearLocalAge(s) = IF new THEN [u EXCEPT !.mac.local = FALSE] ELSE [s EXCEPT !.mac.local = FALSE]
    BY DEF ClearLocalAge
  <1> HIDE DEF u
  <1>4. CASE new
    <2> DEFINE t == [u EXCEPT !.mac.local = FALSE]
    <2>1. /\ Sets(t, u, u.chip, u.inherited)
          /\ LET e == u.mac IN Entry(t, e.found, e.ifname, e.origin, FALSE, e.peer, e.pend, e.synced, e.op, e.queued)
      BY <1>1, <1>2 DEF Sets, Alike
    <2>2. ClearLocalAge(s) = t
      BY <1>3, <1>4
    <2> HIDE DEF t
    <2> QED BY <1>1, <1>4, <2>1, <2>2 DEF Sets, Alike, Entry
  <1>5. CASE ~new
    <2> DEFINE t == [s EXCEPT !.mac.local = FALSE]
    <2>1. /\ Sets(t, s, s.chip, s.inherited)
          /\ Entry(t, m.found, m.ifname, m.origin, FALSE, m.peer, m.pend, m.synced, m.op, m.queued)
      BY <1>2
    <2>2. ClearLocalAge(s) = t
      BY <1>3, <1>5
    <2> HIDE DEF t
    <2> QED BY <1>5, <2>1, <2>2 DEF Sets, Alike, Entry
  <1> QED BY <1>4, <1>5

(* t is s without its entry, which is still to be sent if it was. *)
Drops(t, s, c, h) ==
    /\ Alike(t, s) /\ t.mac = NoMac /\ t.chip = c /\ t.inherited = h
    /\ t.detached = IF s.mac.queued THEN Append(s.detached, ItemOf(s.mac)) ELSE s.detached

LEMMA RemovedDrops ==
    ASSUME NEW s \in Switch
    PROVE  Drops(Removed(s), s, s.chip, s.inherited)
  BY RemovedType DEF Drops, Alike, Kept, Removed, Switch


(* What is queued of t: x if it is new, or as before. *)
Says(t, s, new, x) ==
    IF new THEN t.mac.op = x /\ t.mac.queued
    ELSE t.mac.op = s.mac.op /\ t.mac.queued = s.mac.queued

(* The peer is not told of the end of a pending entry, or of one that has    *)
(* aged before.                                                              *)
Unsaid(s) == s.state = "EXCHANGE" => s.mac.local \/ (s.mac.pend /\ s.mac.type # "static")

(* What is to be sent of s stays to be sent, as a DEL. *)
Left(t, s) ==
    \/ ~s.mac.queued /\ t.detached = s.detached /\ Unsaid(s)
    \/ s.state = "EXCHANGE" /\ \E x \in Item : x.op = "del" /\ t.detached = Append(s.detached, x)

(* Nothing is left of the entry but an item that is to be sent. *)
Gone(t, s, c) ==
    /\ Alike(t, s) /\ t.mac = NoMac /\ t.chip = c
    /\ c # "none" => t.inherited = s.inherited
    /\ QueueTrue(s) => Left(t, s)

(* u, which comes from s, may be removed. *)
Leaving(u, s) ==
    QueueTrue(s) => IF u.mac.queued THEN u.mac.op = "del" /\ s.state = "EXCHANGE"
                    ELSE ~s.mac.queued /\ Unsaid(s)

LEMMA SetLocalAgeSays ==
    ASSUME NEW s \in Switch
    PROVE  Says(SetLocalAge(s), s, ~s.mac.local /\ s.state = "EXCHANGE", "del")
  BY SetLocalAgeSets DEF Says

LEMMA AlikeAgain ==
    ASSUME NEW s, NEW t, NEW u, Alike(t, s), Alike(u, t)
    PROVE  Alike(u, s) /\ t \in Switch /\ u \in Switch
  BY DEF Alike

LEMMA SetsAgain ==
    ASSUME NEW s, NEW t, NEW u, NEW c, NEW h, NEW d, NEW k, Sets(t, s, c, h), Sets(u, t, d, k)
    PROVE  Sets(u, s, d, k)
  BY DEF Sets, Alike

LEMMA RedirectedIs ==
    ASSUME NEW s \in Switch
    PROVE  LET t == Redirected(s)
               m == s.mac
           IN  /\ LinkUp(s) => /\ Sets(t, s, "link", FALSE)
                               /\ Entry(t, m.found, "link", m.origin, m.local, m.peer, m.pend, TRUE, m.op, m.queued)
               /\ ~LinkUp(s) => /\ Sets(t, s, "none", FALSE)
                                /\ Entry(t, m.found, "link", m.origin, m.local, m.peer, m.pend, FALSE, m.op, m.queued)
  <1> DEFINE m == s.mac
             u == [s EXCEPT !.mac.ifname = "link"]
             d == DelFromChip(s)
             e == [d EXCEPT !.mac.ifname = "link"]
  <1>0. "link" \in Port
    BY DEF Port
  <1>1. Sets(u, s, s.chip, s.inherited) /\ Entry(u, m.found, "link", m.origin, m.local, m.peer, m.pend, m.synced, m.op, m.queued)
    BY <1>0, SetIfname
  <1>2. Sets(d, s, "none", FALSE) /\ Entry(d, m.found, m.ifname, m.origin, m.local, m.peer, m.pend, FALSE, m.op, m.queued)
    BY DelFromChipSets
  <1>3. Redirected(s) = IF LinkUp(s) THEN AddToChip(u) ELSE e
    BY DEF Redirected
  <1> HIDE DEF u, d
  <1>4. u \in Switch /\ d \in Switch
    BY <1>1, <1>2 DEF Sets, Alike
  <1>5. LET t == AddToChip(u)
        IN  Sets(t, s, "link", FALSE) /\ Entry(t, m.found, "link", m.origin, m.local, m.peer, m.pend, TRUE, m.op, m.queued)
    BY <1>1, <1>4, AddToChipSets DEF Sets, Alike, Entry
  <1>6. Sets(e, s, "none", FALSE) /\ Entry(e, m.found, "link", m.origin, m.local, m.peer, m.pend, FALSE, m.op, m.queued)
    BY <1>0, <1>2, <1>4, SetIfname DEF Sets, Alike, Entry
  <1> HIDE DEF e
  <1> QED BY <1>3, <1>5, <1>6

LEMMA RemovedGone ==
    ASSUME NEW s \in Switch, NEW u, NEW c, NEW h, Sets(u, s, c, h), c = "none" \/ h = s.inherited,
           Leaving(u, s)
    PROVE  Gone(Removed(u), s, c)
  <1>1. u \in Switch /\ Alike(u, s) /\ u.detached = s.detached /\ u.chip = c /\ u.inherited = h
    BY DEF Sets, Alike
  <1>2. Drops(Removed(u), u, u.chip, u.inherited)
    BY <1>1, RemovedDrops
  <1>3. ItemOf(u.mac) \in Item /\ ItemOf(u.mac).op = u.mac.op
    BY <1>1 DEF ItemOf, Item, Switch, Mac
  <1>4. QueueTrue(s) => Left(Removed(u), s)
    BY <1>1, <1>2, <1>3 DEF Left, Leaving, Drops
  <1> QED BY <1>1, <1>2, <1>4, AlikeAgain DEF Gone, Drops

(* An entry that has just aged may be removed. *)
LEMMA AgedLeaving ==
    ASSUME NEW s \in Switch, NEW u, Says(u, s, ~s.mac.local /\ s.state = "EXCHANGE", "del")
    PROVE  Leaving(u, s)
  <1>1. s.mac.op \in {"add", "del"}
    BY DEF Switch, Mac, Op
  <1> QED BY <1>1 DEF Leaving, Says, QueueTrue, Silent, Unsaid

LEMMA AgedGone ==
    ASSUME NEW s \in Switch
    PROVE  LET u == SetLocalAge(s)
           IN  Gone(Removed(DelFromChip(u)), s, "none") /\ Gone(Removed(u), s, s.chip)
  <1> DEFINE u == SetLocalAge(s)
             d == DelFromChip(u)
  <1>1. Sets(u, s, s.chip, s.inherited) /\ Leaving(u, s)
    BY SetLocalAgeSets, SetLocalAgeSays, AgedLeaving
  <1> HIDE DEF u
  <1>2. Sets(d, s, "none", FALSE) /\ d.mac.op = u.mac.op /\ d.mac.queued = u.mac.queued
    <2>1. u \in Switch
      BY <1>1 DEF Sets, Alike
    <2> QED BY <1>1, <2>1, DelFromChipSets, SetsAgain DEF Entry
  <1> HIDE DEF d
  <1>3. Leaving(d, s)
    BY <1>1, <1>2 DEF Leaving
  <1>4. Gone(Removed(d), s, "none") /\ Gone(Removed(u), s, s.chip)
    BY <1>1, <1>2, <1>3, RemovedGone
  <1> QED BY <1>4 DEF d, u

LEMMA PendingClearedIs ==
    ASSUME NEW s \in Switch
    PROVE  LET t == PendingCleared(s)
               m == s.mac
           IN  /\ m.type = "static" => /\ Sets(t, s, "none", FALSE)
                                       /\ Entry(t, m.found, m.ifname, m.origin, m.local, m.peer, FALSE, FALSE, m.op, m.queued)
               /\ m.pend /\ m.type # "static" => Gone(t, s, "none")
  <1> DEFINE m == s.mac
             d == DelFromChip(s)
             c == [d EXCEPT !.mac.pend = FALSE]
             o == [d EXCEPT !.mac.op = "del"]
  <1>1. Sets(d, s, "none", FALSE) /\ Entry(d, m.found, m.ifname, m.origin, m.local, m.peer, m.pend, FALSE, m.op, m.queued)
    BY DelFromChipSets
  <1>2. PendingCleared(s) = IF m.type = "static" THEN c ELSE Removed(o)
    BY DEF PendingCleared
  <1> HIDE DEF d
  <1>3. d \in Switch /\ "del" \in Op
    BY <1>1 DEF Sets, Alike, Op
  <1>4. Sets(c, s, "none", FALSE) /\ Entry(c, m.found, m.ifname, m.origin, m.local, m.peer, FALSE, FALSE, m.op, m.queued)
    BY <1>1, <1>3, SetPend DEF Sets, Alike, Entry
  <1>5. /\ Sets(o, s, "none", FALSE) /\ Entry(o, m.found, m.ifname, m.origin, m.local, m.peer, m.pend, FALSE, "del", m.queued)
    BY <1>1, <1>3, SetOp DEF Sets, Alike, Entry
  <1> HIDE DEF c, o
  <1>6. m.pend /\ m.type # "static" => Gone(Removed(o), s, "none")
    BY <1>5, RemovedGone DEF Leaving, Entry, QueueTrue, Silent, Unsaid
  <1> QED BY <1>2, <1>4, <1>6

-----------------------------------------------------------------------------
(* The same of what mclagsyncd tells. *)

LearntKnownTo(t, s, i, y) ==
    LET m == s.mac
        pending == ~s.up[i] /\ i = "po" /\ s.pif = "up"
    IN  /\ pending => /\ Sets(t, s, "link", FALSE)
                      /\ Entry(t, m.found, "link", i, m.local, m.peer, TRUE, TRUE, m.op, m.queued)
        /\ ~pending =>
              /\ Sets(t, s, "none", FALSE)
              /\ Entry(t, m.found, i, i, FALSE, t.mac.peer, m.pend, m.synced, t.mac.op, t.mac.queued)
              /\ Says(t, s, m.local /\ s.state = "EXCHANGE", "add")
              /\ m.peer => t.mac.peer
              /\ y = m.type /\ m.ifname = i /\ m.origin = i => t.mac.peer = m.peer
              /\ ~(y = m.type /\ m.ifname = i /\ m.origin = i) => t.mac.peer

LEMMA LearntKnownIs ==
    ASSUME NEW s \in Switch, NEW i \in HostPort, NEW y \in Types
    PROVE  LearntKnownTo(LearntKnown(s, i, y), s, i, y)
  <1> USE DEF LearntKnownTo
  <1> DEFINE m == s.mac
             pending == ~s.up[i] /\ i = "po" /\ s.pif = "up"
             same == y = m.type /\ m.ifname = i /\ m.origin = i
             r == [m EXCEPT !.pend = TRUE, !.type = y, !.origin = i, !.ifname = "link"]
             a == [s EXCEPT !.mac.pend = TRUE, !.mac.type = y, !.mac.origin = i, !.mac.ifname = "link"]
             q == [m EXCEPT !.type = y, !.ifname = i, !.origin = i]
             b == [s EXCEPT !.mac.type = y, !.mac.ifname = i, !.mac.origin = i]
             c == ClearLocalAge(b)
             k == Chip(c, "none")
             e == [k EXCEPT !.mac.peer = TRUE]
             n == ClearLocalAge(s)
  <1>0. /\ m \in Mac /\ i \in Port /\ "none" \in Port \cup {"none"}
    BY DEF Switch, HostPort, Port
  <1>1. LearntKnown(s, i, y) = IF pending THEN AddToChip(a) ELSE IF ~same THEN e ELSE Chip(n, "none")
    BY DEF LearntKnown, FromMclag
  <1>2. Sets(a, s, s.chip, s.inherited) /\ Entry(a, m.found, "link", i, m.local, m.peer, TRUE, m.synced, m.op, m.queued)
    <2>1. /\ r \in Mac /\ r.found = m.found /\ r.ifname = "link" /\ r.origin = i /\ r.local = m.local
          /\ r.peer = m.peer /\ r.pend = TRUE /\ r.synced = m.synced /\ r.op = m.op /\ r.queued = m.queued
      BY <1>0 DEF Mac, Port
    <2>2. a = [s EXCEPT !.mac = r]
      BY DEF Switch, Mac
    <2> HIDE DEF r
    <2> QED BY <2>1, <2>2, SetEntry DEF Entry
  <1>3. Sets(b, s, s.chip, s.inherited) /\ Entry(b, m.found, i, i, m.local, m.peer, m.pend, m.synced, m.op, m.queued)
    <2>1. /\ q \in Mac /\ q.found = m.found /\ q.ifname = i /\ q.origin = i /\ q.local = m.local
          /\ q.peer = m.peer /\ q.pend = m.pend /\ q.synced = m.synced /\ q.op = m.op /\ q.queued = m.queued
      BY <1>0 DEF Mac
    <2>2. b = [s EXCEPT !.mac = q]
      BY DEF Switch, Mac
    <2> HIDE DEF q
    <2> QED BY <2>1, <2>2, SetEntry DEF Entry
  <1> HIDE DEF a, b
  <1>4. CASE pending
    <2>1. a \in Switch
      BY <1>2 DEF Sets, Alike
    <2>2. LET t == AddToChip(a)
          IN  Sets(t, s, "link", FALSE) /\ Entry(t, m.found, "link", i, m.local, m.peer, TRUE, TRUE, m.op, m.queued)
      BY <1>2, <2>1, AddToChipSets DEF Sets, Alike, Entry
    <2> QED BY <1>1, <1>4, <2>2
  <1>5. CASE ~pending /\ ~same
    <2>1. b \in Switch
      BY <1>3 DEF Sets, Alike
    <2>2. /\ Sets(c, s, s.chip, s.inherited)
          /\ Entry(c, m.found, i, i, FALSE, m.peer, m.pend, m.synced, c.mac.op, c.mac.queued)
          /\ Says(c, s, m.local /\ s.state = "EXCHANGE", "add")
      BY <1>3, <2>1, ClearLocalAgeSets DEF Sets, Alike, Entry, Says
    <2> HIDE DEF c
    <2>3. Sets(k, s, "none", FALSE) /\ k.mac = c.mac
      BY <1>0, <2>2, ChipSets DEF Sets, Alike
    <2> HIDE DEF k
    <2>4. /\ Sets(e, s, "none", FALSE)
          /\ Entry(e, m.found, i, i, FALSE, TRUE, m.pend, m.synced, e.mac.op, e.mac.queued)
          /\ e.mac.op = c.mac.op /\ e.mac.queued = c.mac.queued
      <3>1. k \in Switch
        BY <2>3 DEF Sets, Alike
      <3>2. Sets(e, k, k.chip, k.inherited) /\ LET v == k.mac
              IN  Entry(e, v.found, v.ifname, v.origin, v.local, TRUE, v.pend, v.synced, v.op, v.queued)
        BY <3>1, SetPeer
      <3> HIDE DEF e
      <3> QED BY <2>2, <2>3, <3>2, SetsAgain DEF Sets, Entry
    <2>5. LearntKnown(s, i, y) = e
      BY <1>1, <1>5
    <2> HIDE DEF e
    <2> QED BY <1>5, <2>2, <2>4, <2>5 DEF Says, Entry
  <1>6. CASE ~pending /\ same
    <2>1. /\ Sets(n, s, s.chip, s.inherited)
          /\ Entry(n, m.found, m.ifname, m.origin, FALSE, m.peer, m.pend, m.synced, n.mac.op, n.mac.queued)
          /\ Says(n, s, m.local /\ s.state = "EXCHANGE", "add")
      BY ClearLocalAgeSets DEF Says
    <2> HIDE DEF n
    <2>2. Sets(Chip(n, "none"), s, "none", FALSE) /\ Chip(n, "none").mac = n.mac
      BY <1>0, <2>1, ChipSets DEF Sets, Alike
    <2>3. LearntKnown(s, i, y) = Chip(n, "none")
      BY <1>1, <1>6
    <2> QED BY <1>6, <2>1, <2>2, <2>3 DEF Says, Entry
  <1> QED BY <1>4, <1>5, <1>6

LearntNewTo(t, s, i) ==
    LET m == s.mac
    IN  \/ Sets(t, s, "none", FALSE) /\ t.mac = m
        \/ /\ i = "po" /\ ~s.up["po"] /\ Sets(t, s, "link", FALSE)
           /\ Entry(t, TRUE, i, i, FALSE, TRUE, FALSE, FALSE, "add", FALSE)
        \/ /\ s.state = "EXCHANGE" /\ Sets(t, s, s.chip, s.inherited)
           /\ Entry(t, TRUE, i, i, FALSE, TRUE, FALSE, FALSE, "add", TRUE)
        \/ /\ Sets(t, s, s.chip, s.inherited)
           /\ Entry(t, TRUE, i, i, FALSE, TRUE, FALSE, FALSE, "add", FALSE)

LEMMA LearntNewIs ==
    ASSUME NEW s \in Switch, NEW i \in HostPort, NEW y \in Types
    PROVE  LearntNewTo(LearntNew(s, i, y), s, i)
  <1> USE DEF LearntNewTo
  <1> DEFINE m == s.mac
             r == [NoMac EXCEPT !.found = TRUE, !.ifname = i, !.origin = i, !.type = y, !.peer = TRUE]
             new == [s EXCEPT !.mac = r]
  <1>0. i \in Port /\ "none" \in Port \cup {"none"} /\ "link" \in Port \cup {"none"} /\ "add" \in Op
    BY DEF HostPort, Port, Op
  <1>1. Sets(new, s, s.chip, s.inherited) /\ Entry(new, TRUE, i, i, FALSE, TRUE, FALSE, FALSE, "add", FALSE)
    <2>1. /\ r \in Mac /\ r.found = TRUE /\ r.ifname = i /\ r.origin = i /\ r.local = FALSE /\ r.peer = TRUE
          /\ r.pend = FALSE /\ r.synced = FALSE /\ r.op = "add" /\ r.queued = FALSE
      BY <1>0 DEF NoMac, Mac, Op
    <2> HIDE DEF r
    <2> QED BY <2>1, SetEntry DEF Entry
  <1> HIDE DEF new
  <1>2. new \in Switch
    BY <1>1 DEF Sets, Alike
  <1>3. Sets(Chip(s, "none"), s, "none", FALSE) /\ Chip(s, "none").mac = m
    BY <1>0, ChipSets
  <1>4. LET t == Chip(new, "link")
        IN  Sets(t, s, "link", FALSE) /\ Entry(t, TRUE, i, i, FALSE, TRUE, FALSE, FALSE, "add", FALSE)
    <2> DEFINE t == Chip(new, "link")
    <2>1. Sets(t, new, "link", FALSE) /\ t.mac = new.mac
      BY <1>0, <1>2, ChipSets
    <2> HIDE DEF t
    <2>2. Sets(t, s, "link", FALSE) /\ Entry(t, TRUE, i, i, FALSE, TRUE, FALSE, FALSE, "add", FALSE)
      BY <1>1, <2>1, SetsAgain DEF Entry
    <2> QED BY <2>2 DEF t
  <1>5. LET t == Queued(new, "add")
        IN  Sets(t, s, s.chip, s.inherited) /\ Entry(t, TRUE, i, i, FALSE, TRUE, FALSE, FALSE, "add", TRUE)
    <2> DEFINE t == Queued(new, "add")
    <2>1. /\ Sets(t, new, new.chip, new.inherited)
          /\ LET v == new.mac IN Entry(t, v.found, v.ifname, v.origin, v.local, v.peer, v.pend, v.synced, "add", TRUE)
      BY <1>0, <1>2, QueuedSets
    <2> HIDE DEF t
    <2>2. Sets(t, s, s.chip, s.inherited) /\ Entry(t, TRUE, i, i, FALSE, TRUE, FALSE, FALSE, "add", TRUE)
      BY <1>1, <2>1, SetsAgain DEF Entry, Sets
    <2> QED BY <2>2 DEF t
  <1>6. \/ LearntNew(s, i, y) = Chip(s, "none")
        \/ LearntNew(s, i, y) = Chip(new, "link") /\ i = "po" /\ ~s.up["po"]
        \/ LearntNew(s, i, y) = Queued(new, "add") /\ s.state = "EXCHANGE"
        \/ LearntNew(s, i, y) = new
    <2> DEFINE pu == ~s.up[i] /\ i = "po" /\ s.pif = "up"
               pd == ~s.up[i] /\ i = "po" /\ s.pif = "down"
               ex == s.up[i] /\ s.state = "EXCHANGE"
    <2>1. LearntNew(s, i, y) = CASE pd -> Chip(s, "none") [] pu -> Chip(new, "link")
                                 [] ex -> Queued(new, "add") [] OTHER -> new
      BY DEF LearntNew, FromMclag, new
    <2>2. /\ (pd => ~pu /\ ~ex) /\ (pu => ~pd /\ ~ex) /\ (ex => ~pu /\ ~pd)
      OBVIOUS
    <2> HIDE DEF pu, pd, ex
    <2>3. LearntNew(s, i, y) = IF pd THEN Chip(s, "none") ELSE IF pu THEN Chip(new, "link")
                               ELSE IF ex THEN Queued(new, "add") ELSE new
      BY <2>1, <2>2
    <2> QED BY <2>3 DEF pu, ex
  <1> QED BY <1>1, <1>3, <1>4, <1>5, <1>6

AgedOnLinkTo(t, s) ==
    LET m == s.mac
    IN  \/ m.pend /\ t = s
        \/ ~m.pend /\ m.peer /\ (Gone(t, s, "none") \/ (~m.synced /\ Gone(t, s, s.chip)))
        \/ /\ ~m.pend /\ ~m.peer
           /\ \/ LinkUp(s) /\ Sets(t, s, m.ifname, FALSE)
              \/ ~LinkUp(s) /\ Sets(t, s, s.chip, s.inherited)
           /\ Entry(t, m.found, m.ifname, m.origin, TRUE, m.peer, m.pend, t.mac.synced, t.mac.op, t.mac.queued)
           /\ Says(t, s, ~m.local /\ s.state = "EXCHANGE", "del")
           /\ LinkUp(s) \/ m.synced => t.mac.synced

LEMMA AgedOnLinkIs ==
    ASSUME NEW s \in Switch
    PROVE  AgedOnLinkTo(AgedOnLink(s), s)
  <1> USE DEF AgedOnLinkTo
  <1> DEFINE m == s.mac
             u == SetLocalAge(s)
             g == Removed(IF u.mac.synced THEN DelFromChip(u) ELSE u)
  <1>1. /\ Sets(u, s, s.chip, s.inherited) /\ Entry(u, m.found, m.ifname, m.origin, TRUE, m.peer, m.pend, m.synced, u.mac.op, u.mac.queued)
        /\ Says(u, s, ~m.local /\ s.state = "EXCHANGE", "del")
    BY SetLocalAgeSets, SetLocalAgeSays
  <1>2. AgedOnLink(s) = IF m.pend THEN s ELSE IF u.mac.local /\ u.mac.peer THEN g
                        ELSE IF LinkUp(u) THEN AddToChip(u) ELSE u
    BY DEF AgedOnLink, BothAged
  <1> HIDE DEF u
  <1>3. u \in Switch /\ (LinkUp(u) <=> LinkUp(s))
    BY <1>1 DEF Sets, Alike, LinkUp
  <1>4. Gone(g, s, "none") \/ (~m.synced /\ Gone(g, s, s.chip))
    <2>1. g = Removed(DelFromChip(u)) \/ (~m.synced /\ g = Removed(u))
      BY <1>1 DEF Entry
    <2> QED BY <2>1, AgedGone DEF u
  <1> HIDE DEF g
  <1>5. LET t == AddToChip(u)
        IN  /\ Sets(t, s, m.ifname, FALSE) /\ Entry(t, m.found, m.ifname, m.origin, TRUE, m.peer, m.pend, TRUE, t.mac.op, t.mac.queued)
            /\ Says(t, s, ~m.local /\ s.state = "EXCHANGE", "del")
    BY <1>1, <1>3, AddToChipSets DEF Sets, Alike, Entry, Says
  <1>6. CASE m.pend
    BY <1>2, <1>6
  <1>7. CASE ~m.pend /\ m.peer
    BY <1>1, <1>2, <1>4, <1>7 DEF Entry
  <1>8. CASE ~m.pend /\ ~m.peer
    <2>1. AgedOnLink(s) = IF LinkUp(s) THEN AddToChip(u) ELSE u
      BY <1>1, <1>2, <1>3, <1>8 DEF Entry
    <2> QED BY <1>1, <1>5, <1>8, <2>1 DEF Entry
  <1> QED BY <1>6, <1>7, <1>8

AgedOnPortTo(t, s, i) ==
    LET m == s.mac
    IN  \/ m.peer /\ (Gone(t, s, "none") \/ Gone(t, s, s.chip))
        \/ /\ ~m.peer /\ Says(t, s, ~m.local /\ s.state = "EXCHANGE", "del")
           /\ \/ /\ i = "po" /\ ~s.up["po"]
                 /\ \/ LinkUp(s) /\ Sets(t, s, "link", FALSE)
                    \/ ~LinkUp(s) /\ Sets(t, s, s.chip, s.inherited)
                 /\ Entry(t, m.found, "link", m.origin, TRUE, m.peer, m.pend, t.mac.synced, t.mac.op, t.mac.queued)
                 /\ LinkUp(s) => t.mac.synced
              \/ /\ i = "po" => s.up["po"]
                 /\ \/ s.up[m.ifname] /\ Sets(t, s, m.ifname, FALSE)
                    \/ ~s.up[m.ifname] /\ Sets(t, s, s.chip, s.inherited)
                 /\ Entry(t, m.found, m.ifname, m.origin, TRUE, m.peer, m.pend, t.mac.synced, t.mac.op, t.mac.queued)

LEMMA AgedOnPortIs ==
    ASSUME NEW s \in Switch, s.haslink, s.mac.ifname # "link", NEW i \in HostPort
    PROVE  AgedOnPortTo(AgedOnPort(s, i), s, i)
  <1> USE DEF AgedOnPortTo
  <1> DEFINE m == s.mac
             u == SetLocalAge(s)
             v == [u EXCEPT !.mac.ifname = "link"]
             g == Removed(IF u.mac.synced THEN DelFromChip(u) ELSE u)
             down == FromMclag(i) /\ ~u.up["po"]
             both == BothAged(u)
  <1>1. /\ Sets(u, s, s.chip, s.inherited) /\ Entry(u, m.found, m.ifname, m.origin, TRUE, m.peer, m.pend, m.synced, u.mac.op, u.mac.queued)
        /\ Says(u, s, ~m.local /\ s.state = "EXCHANGE", "del")
    BY SetLocalAgeSets, SetLocalAgeSays
  <1>2. AgedOnPort(s, i) = CASE both -> g [] ~both /\ FromMclag(i) /\ ~u.up["po"] ->
                                IF ~u.haslink THEN u ELSE IF LinkUp(u) THEN AddToChip(v) ELSE v
                            [] OTHER -> IF u.up[u.mac.ifname] THEN AddToChip(u) ELSE u
    BY DEF AgedOnPort
  <1>3. Gone(g, s, "none") \/ Gone(g, s, s.chip)
    <2>1. g = Removed(DelFromChip(u)) \/ g = Removed(u)
      OBVIOUS
    <2> QED BY <2>1, AgedGone DEF u
  <1> HIDE DEF u, g, both
  <1>4. /\ u \in Switch /\ (LinkUp(u) <=> LinkUp(s)) /\ (both <=> m.peer) /\ u.haslink
        /\ (FromMclag(i) /\ ~u.up["po"] <=> i = "po" /\ ~s.up["po"])
        /\ u.up[u.mac.ifname] = s.up[m.ifname] /\ "link" \in Port
    BY <1>1 DEF Sets, Alike, LinkUp, Entry, both, BothAged, FromMclag, Port
  <1>5. AgedOnPort(s, i) = IF both THEN g
                           ELSE IF down THEN IF LinkUp(s) THEN AddToChip(v) ELSE v
                           ELSE IF s.up[m.ifname] THEN AddToChip(u) ELSE u
    <2> HIDE DEF v
    <2> QED BY <1>2, <1>4
  <1>6. LET t == AddToChip(u)
        IN  /\ Sets(t, s, m.ifname, FALSE) /\ Entry(t, m.found, m.ifname, m.origin, TRUE, m.peer, m.pend, TRUE, t.mac.op, t.mac.queued)
            /\ Says(t, s, ~m.local /\ s.state = "EXCHANGE", "del")
    BY <1>1, <1>4, AddToChipSets DEF Sets, Alike, Entry, Says
  <1>7. /\ Sets(v, s, s.chip, s.inherited) /\ Entry(v, m.found, "link", m.origin, TRUE, m.peer, m.pend, m.synced, v.mac.op, v.mac.queued)
        /\ Says(v, s, ~m.local /\ s.state = "EXCHANGE", "del")
    <2>1. /\ Sets(v, u, u.chip, u.inherited)
          /\ LET w == u.mac IN Entry(v, w.found, "link", w.origin, w.local, w.peer, w.pend, w.synced, w.op, w.queued)
      BY <1>4, SetIfname
    <2> HIDE DEF v
    <2> QED BY <1>1, <2>1, SetsAgain DEF Sets, Entry, Says
  <1> HIDE DEF v
  <1>8. LET t == AddToChip(v)
        IN  /\ Sets(t, s, "link", FALSE) /\ Entry(t, m.found, "link", m.origin, TRUE, m.peer, m.pend, TRUE, t.mac.op, t.mac.queued)
            /\ Says(t, s, ~m.local /\ s.state = "EXCHANGE", "del")
    <2>1. v \in Switch
      BY <1>7 DEF Sets, Alike
    <2> QED BY <1>7, <2>1, AddToChipSets DEF Sets, Alike, Entry, Says
  <1>9. CASE m.peer
    BY <1>3, <1>4, <1>5, <1>9
  <1>10. CASE ~m.peer /\ down
    <2>1. AgedOnPort(s, i) = IF LinkUp(s) THEN AddToChip(v) ELSE v
      BY <1>4, <1>5, <1>10
    <2> QED BY <1>4, <1>7, <1>8, <1>10, <2>1 DEF Entry
  <1>11. CASE ~m.peer /\ ~down
    <2>1. AgedOnPort(s, i) = IF s.up[m.ifname] THEN AddToChip(u) ELSE u
      BY <1>4, <1>5, <1>11
    <2> QED BY <1>1, <1>4, <1>6, <1>11, <2>1 DEF Entry
  <1> QED BY <1>9, <1>10, <1>11

-----------------------------------------------------------------------------
(* The same of what the peer tells. *)

(* The entry as the peer has it, too: one that was pending has aged here. *)
Shared(t, s, i, ifname, origin, local, peer, synced) ==
    LET m == s.mac
        confirmed == i = "po" /\ m.pend
        new == ~m.local /\ ~confirmed /\ local
    IN  /\ Entry(t, m.found, ifname, origin, local, peer, t.mac.pend, synced, t.mac.op, t.mac.queued)
        /\ confirmed => local /\ t.mac.op = "del" /\ t.mac.queued
        /\ t.mac.pend = (m.pend /\ ~confirmed)
        /\ ~confirmed => Says(t, s, new, "del") /\ (m.local => local)

PeerAddKnownTo(t, s, i) ==
    LET m == s.mac
        was == m.local \/ (i = "po" /\ m.pend)
    IN  \/ /\ m.ifname = i /\ m.origin = i /\ i = "po"
           /\ Sets(t, s, s.chip, s.inherited)
           /\ Shared(t, s, i, m.ifname, m.origin, was, FALSE, m.synced)
        \/ /\ m.ifname = i /\ m.origin = i /\ i = "eth"
           /\ Sets(t, s, "link", FALSE)
           /\ Shared(t, s, i, "link", m.origin, was, FALSE, TRUE)
        \/ /\ m.type = "static"
           /\ Sets(t, s, s.chip, s.inherited)
           /\ Shared(t, s, i, m.ifname, m.origin, was, TRUE, m.synced)
        \/ /\ i = "po" /\ s.up["po"] /\ m.type # "static"
           /\ Sets(t, s, "po", FALSE)
           /\ Shared(t, s, i, "po", "po", was, FALSE, TRUE)
        \/ /\ i = "po" => ~s.up["po"] 
           /\ m.type # "static" /\ m.ifname = "link"
           /\ Sets(t, s, s.chip, s.inherited)
           /\ Shared(t, s, i, "link", i, TRUE, FALSE, m.synced)
        \/ /\ i = "po" => ~s.up["po"]
           /\ m.type # "static" /\ m.ifname # "link"
           /\ Sets(t, s, "link", FALSE)
           /\ Shared(t, s, i, "link", i, TRUE, FALSE, TRUE)

LEMMA PeerAddKnownIs ==
    ASSUME NEW s \in Switch, s.haslink, s.state = "EXCHANGE", NEW i \in HostPort
    PROVE  PeerAddKnownTo(PeerAddKnown(s, i), s, i)
  <1> USE DEF PeerAddKnownTo
  <1> DEFINE m == s.mac
             confirmed == i = "po" /\ m.pend
             was == m.local \/ confirmed
             r == [m EXCEPT !.pend = FALSE, !.local = TRUE, !.peer = FALSE]
             mine == [s EXCEPT !.mac.pend = FALSE, !.mac.local = TRUE, !.mac.peer = FALSE]
             f == [s EXCEPT !.mac.peer = FALSE]
             s1 == IF FromMclag(i) /\ m.pend THEN Queued(mine, "del") ELSE f
             moved == [s1 EXCEPT !.mac.origin = i]
             away == SetLocalAge(moved)
             here == [moved EXCEPT !.mac.ifname = i]
             there == [away EXCEPT !.mac.ifname = "link"]
             orphan == [s1 EXCEPT !.mac.ifname = "link"]
             aged == [s1 EXCEPT !.mac.peer = TRUE]
             up == i = "po" /\ s.up["po"]
  <1>0. m \in Mac /\ "del" \in Op /\ "link" \in Port /\ i \in Port /\ i \in {"po", "eth"}
    BY DEF Switch, Op, Port, HostPort
  <1>1. PeerAddKnown(s, i) =
            IF m.ifname = i /\ m.origin = i THEN IF i = "po" THEN s1 ELSE AddToChip(orphan)
            ELSE IF m.type = "static" THEN aged
            ELSE IF up THEN AddToChip(here)
            ELSE IF m.ifname = "link" THEN away ELSE AddToChip(there)
    BY DEF PeerAddKnown, FromMclag
  <1>2. Sets(s1, s, s.chip, s.inherited) /\ Shared(s1, s, i, m.ifname, m.origin, was, FALSE, m.synced)
    <2>1. CASE confirmed
      <3>1. /\ r \in Mac /\ r.found = m.found /\ r.ifname = m.ifname /\ r.origin = m.origin
            /\ r.local = TRUE /\ r.peer = FALSE /\ r.pend = FALSE /\ r.synced = m.synced
            /\ r.op = m.op /\ r.queued = m.queued
        BY <1>0 DEF Mac
      <3>2. mine = [s EXCEPT !.mac = r]
        BY DEF Switch, Mac
      <3> HIDE DEF r
      <3>3. Sets(mine, s, s.chip, s.inherited) /\ Entry(mine, m.found, m.ifname, m.origin, TRUE, FALSE, FALSE, m.synced, m.op, m.queued)
        BY <3>1, <3>2, SetEntry DEF Entry
      <3> HIDE DEF mine
      <3>4. s1 = Queued(mine, "del")
        BY <2>1 DEF FromMclag
      <3> HIDE DEF s1
      <3>5. /\ Sets(s1, mine, mine.chip, mine.inherited)
            /\ LET v == mine.mac IN Entry(s1, v.found, v.ifname, v.origin, v.local, v.peer, v.pend, v.synced, "del", TRUE)
        BY <1>0, <3>3, <3>4, QueuedSets DEF Sets, Alike
      <3>6. Sets(s1, s, s.chip, s.inherited)
        BY <3>3, <3>5, SetsAgain DEF Sets
      <3> QED BY <2>1, <3>3, <3>5, <3>6 DEF Entry, Shared
    <2>2. CASE ~confirmed
      <3>1. s1 = f
        BY <2>2 DEF FromMclag
      <3>2. Sets(f, s, s.chip, s.inherited) /\ Entry(f, m.found, m.ifname, m.origin, m.local, FALSE, m.pend, m.synced, m.op, m.queued)
        BY SetPeer
      <3> HIDE DEF f, s1
      <3>3. Sets(s1, s, s.chip, s.inherited) /\ Entry(s1, m.found, m.ifname, m.origin, m.local, FALSE, m.pend, m.synced, m.op, m.queued)
        BY <3>1, <3>2
      <3>4. m.local \in BOOLEAN /\ m.pend \in BOOLEAN
        BY <1>0 DEF Mac
      <3>5. was = m.local
        BY <2>2, <3>4
      <3> HIDE DEF was
      <3> QED BY <2>2, <3>3, <3>4, <3>5 DEF Entry, Shared, Says
    <2> QED BY <2>1, <2>2
  <1> HIDE DEF s1, was
  <1>3. s1 \in Switch /\ s1.state = "EXCHANGE" /\ was \in BOOLEAN
    BY <1>0, <1>2 DEF Sets, Alike, was, Mac
  <1>4. Sets(aged, s, s.chip, s.inherited) /\ Shared(aged, s, i, m.ifname, m.origin, was, TRUE, m.synced)
    <2>1. /\ Sets(aged, s1, s1.chip, s1.inherited)
          /\ LET v == s1.mac IN Entry(aged, v.found, v.ifname, v.origin, v.local, TRUE, v.pend, v.synced, v.op, v.queued)
      BY <1>3, SetPeer
    <2> HIDE DEF aged
    <2> QED BY <1>2, <2>1, SetsAgain DEF Sets, Shared, Entry, Says
  <1>5. /\ Sets(orphan, s, s.chip, s.inherited)
        /\ Shared(orphan, s, i, "link", m.origin, was, FALSE, m.synced)
    <2>1. /\ Sets(orphan, s1, s1.chip, s1.inherited)
          /\ LET v == s1.mac IN Entry(orphan, v.found, "link", v.origin, v.local, v.peer, v.pend, v.synced, v.op, v.queued)
      BY <1>0, <1>3, SetIfname
    <2> HIDE DEF orphan
    <2> QED BY <1>2, <2>1, SetsAgain DEF Sets, Shared, Entry, Says
  <1>6. Sets(moved, s, s.chip, s.inherited) /\ Shared(moved, s, i, m.ifname, i, was, FALSE, m.synced)
    <2>1. /\ Sets(moved, s1, s1.chip, s1.inherited)
          /\ LET v == s1.mac IN Entry(moved, v.found, v.ifname, i, v.local, v.peer, v.pend, v.synced, v.op, v.queued)
      BY <1>3, SetOrigin
    <2> HIDE DEF moved
    <2> QED BY <1>2, <2>1, SetsAgain DEF Sets, Shared, Entry, Says
  <1> HIDE DEF moved
  <1>7. moved \in Switch /\ moved.state = "EXCHANGE"
    BY <1>6, <1>3 DEF Sets, Alike
  <1>8. Sets(here, s, s.chip, s.inherited) /\ Shared(here, s, i, i, i, was, FALSE, m.synced)
    <2>1. /\ Sets(here, moved, moved.chip, moved.inherited)
          /\ LET v == moved.mac IN Entry(here, v.found, i, v.origin, v.local, v.peer, v.pend, v.synced, v.op, v.queued)
      BY <1>0, <1>7, SetIfname
    <2> HIDE DEF here
    <2> QED BY <1>6, <2>1, SetsAgain DEF Sets, Shared, Entry, Says
  <1>9. Sets(away, s, s.chip, s.inherited) /\ Shared(away, s, i, m.ifname, i, TRUE, FALSE, m.synced)
    <2>1. /\ Sets(away, moved, moved.chip, moved.inherited)
          /\ LET v == moved.mac IN Entry(away, v.found, v.ifname, v.origin, TRUE, v.peer, v.pend, v.synced, away.mac.op, away.mac.queued)
          /\ Says(away, moved, ~moved.mac.local, "del")
      BY <1>7, SetLocalAgeSets, SetLocalAgeSays DEF Says
    <2> HIDE DEF away
    <2>2. Sets(away, s, s.chip, s.inherited)
      BY <1>6, <2>1, SetsAgain DEF Sets
    <2>3. m.local \in BOOLEAN /\ was = (m.local \/ confirmed)
      BY <1>0 DEF Mac, was
    <2>4. Shared(away, s, i, m.ifname, i, TRUE, FALSE, m.synced)
      BY <1>6, <2>1, <2>3 DEF Shared, Entry, Says
    <2> QED BY <2>2, <2>4
  <1> HIDE DEF away
  <1>10. Sets(there, s, s.chip, s.inherited) /\ Shared(there, s, i, "link", i, TRUE, FALSE, m.synced)
    <2>0. away \in Switch
      BY <1>9 DEF Sets, Alike
    <2>1. /\ Sets(there, away, away.chip, away.inherited)
          /\ LET v == away.mac IN Entry(there, v.found, "link", v.origin, v.local, v.peer, v.pend, v.synced, v.op, v.queued)
      BY <1>0, <2>0, SetIfname
    <2> HIDE DEF there
    <2> QED BY <1>9, <2>1, SetsAgain DEF Sets, Shared, Entry, Says
  <1> HIDE DEF here, there, orphan, aged
  <1>11. ASSUME NEW u \in Switch, NEW x, NEW o, NEW b \in BOOLEAN, NEW y,
                Sets(u, s, s.chip, s.inherited), Shared(u, s, i, x, o, b, FALSE, y)
         PROVE  Sets(AddToChip(u), s, x, FALSE) /\ Shared(AddToChip(u), s, i, x, o, b, FALSE, TRUE)
    <2> DEFINE t == AddToChip(u)
    <2>1. /\ Sets(t, u, u.mac.ifname, FALSE)
          /\ LET v == u.mac IN Entry(t, v.found, v.ifname, v.origin, v.local, v.peer, v.pend, TRUE, v.op, v.queued)
      BY <1>11, AddToChipSets
    <2> HIDE DEF t
    <2>2. u.mac.ifname = x
      BY <1>11 DEF Shared, Entry
    <2>3. Sets(t, s, x, FALSE)
      BY <1>11, <2>1, <2>2 DEF Sets, Alike
    <2>4. Shared(t, s, i, x, o, b, FALSE, TRUE)
      <3>1. /\ t.mac.found = m.found /\ t.mac.ifname = x /\ t.mac.origin = o /\ t.mac.local = b
            /\ t.mac.peer = FALSE /\ t.mac.synced = TRUE
            /\ t.mac.pend = u.mac.pend /\ t.mac.op = u.mac.op /\ t.mac.queued = u.mac.queued
        BY <1>11, <2>1 DEF Shared, Entry
      <3> QED BY <1>11, <3>1 DEF Shared, Entry, Says
    <2> QED BY <2>3, <2>4 DEF t
  <1>12. orphan \in Switch /\ here \in Switch /\ there \in Switch
    BY <1>5, <1>8, <1>10 DEF Sets, Alike
  <1>13. CASE m.ifname = i /\ m.origin = i
    <2>1. PeerAddKnown(s, i) = IF i = "po" THEN s1 ELSE AddToChip(orphan)
      BY <1>1, <1>13
    <2> QED BY <1>0, <1>2, <1>3, <1>5, <1>11, <1>12, <1>13, <2>1 DEF was
  <1>14. CASE ~(m.ifname = i /\ m.origin = i) /\ m.type = "static"
    <2>1. PeerAddKnown(s, i) = aged
      BY <1>1, <1>14
    <2> QED BY <1>4, <1>14, <2>1 DEF was
  <1>15. CASE ~(m.ifname = i /\ m.origin = i) /\ m.type # "static" /\ up
    <2>1. PeerAddKnown(s, i) = AddToChip(here)
      BY <1>1, <1>15
    <2> QED BY <1>3, <1>8, <1>11, <1>12, <1>15, <2>1 DEF was
  <1>16. CASE ~(m.ifname = i /\ m.origin = i) /\ m.type # "static" /\ ~up
    <2>1. PeerAddKnown(s, i) = IF m.ifname = "link" THEN away ELSE AddToChip(there)
      BY <1>1, <1>16
    <2> QED BY <1>9, <1>10, <1>11, <1>12, <1>16, <2>1
  <1> QED BY <1>13, <1>14, <1>15, <1>16

PeerAddNewTo(t, s, i) ==
    LET away == i = "po" => ~s.up["po"]
    IN  \/ /\ away /\ Entry(t, TRUE, "link", i, TRUE, FALSE, FALSE, FALSE, "add", FALSE)
           /\ \/ LinkUp(s) /\ Sets(t, s, "link", FALSE)
              \/ ~LinkUp(s) /\ Sets(t, s, s.chip, s.inherited)
        \/ /\ ~away /\ Entry(t, TRUE, "po", "po", TRUE, FALSE, FALSE, FALSE, "add", FALSE)
           /\ Sets(t, s, "po", FALSE)

LEMMA PeerAddNewIs ==
    ASSUME NEW s \in Switch, s.haslink, NEW i \in HostPort, NEW y \in Types
    PROVE  PeerAddNewTo(PeerAddNew(s, i, y), s, i)
  <1> USE DEF PeerAddNewTo
  <1> DEFINE away == ~FromMclag(i) \/ ~s.up[i]
             x == IF away THEN "link" ELSE i
             r == [NoMac EXCEPT !.found = TRUE, !.origin = i, !.type = y, !.ifname = x, !.local = TRUE]
             new == [s EXCEPT !.mac = r]
  <1>0. /\ i \in Port /\ x \in Port /\ x \in Port \cup {"none"} /\ i \in {"po", "eth"} 
        /\ "add" \in Op
    BY DEF HostPort, Port, Op
  <1>1. PeerAddNew(s, i, y) = IF away THEN IF LinkUp(s) THEN Chip(new, "link") ELSE new
                              ELSE Chip(new, i)
    <2>1. away /\ s.haslink <=> away
      OBVIOUS
    <2>3. PeerAddNew(s, i, y) =
            CASE away /\ ~s.haslink /\ ~FromMclag(i) -> s
              [] away /\ s.haslink -> IF LinkUp(s) THEN Chip(new, "link") ELSE new
              [] OTHER -> IF s.up[i] THEN Chip(new, i) ELSE new
      BY <2>1 DEF PeerAddNew
    <2>2. ~away => s.up[i]
      OBVIOUS
    <2> HIDE DEF new, away
    <2>4. PeerAddNew(s, i, y) = IF away THEN IF LinkUp(s) THEN Chip(new, "link") ELSE new
                                ELSE IF s.up[i] THEN Chip(new, i) ELSE new
      BY <2>3
    <2> QED BY <2>2, <2>4
  <1>2. Sets(new, s, s.chip, s.inherited) /\ Entry(new, TRUE, x, i, TRUE, FALSE, FALSE, FALSE, "add", FALSE)
    <2> HIDE DEF x
    <2>1. /\ r \in Mac /\ r.found = TRUE /\ r.ifname = x /\ r.origin = i /\ r.local = TRUE /\ r.peer = FALSE
          /\ r.pend = FALSE /\ r.synced = FALSE /\ r.op = "add" /\ r.queued = FALSE
      BY <1>0 DEF NoMac, Mac, Op
    <2> HIDE DEF r
    <2> QED BY <2>1, SetEntry DEF Entry
  <1> HIDE DEF new
  <1>3. ASSUME NEW c \in Port \cup {"none"}
        PROVE  /\ Sets(Chip(new, c), s, c, FALSE)
               /\ Entry(Chip(new, c), TRUE, x, i, TRUE, FALSE, FALSE, FALSE, "add", FALSE)
    <2>1. new \in Switch
      BY <1>2 DEF Sets, Alike
    <2>2. Sets(Chip(new, c), new, c, FALSE) /\ Chip(new, c).mac = new.mac
      BY <2>1, ChipSets
    <2> QED BY <1>2, <2>2, SetsAgain DEF Entry
  <1>4. "link" \in Port \cup {"none"} /\ i \in Port \cup {"none"}
    BY <1>0 DEF Port
  <1>5. CASE away
    <2>1. PeerAddNew(s, i, y) = IF LinkUp(s) THEN Chip(new, "link") ELSE new
      BY <1>1, <1>5
    <2> QED BY <1>2, <1>3, <1>4, <1>5, <2>1 DEF FromMclag
  <1>6. CASE ~away
    <2>1. PeerAddNew(s, i, y) = Chip(new, i)
      BY <1>1, <1>6
    <2>2. i = "po" /\ s.up["po"]
      BY <1>6 DEF FromMclag
    <2> QED BY <1>3, <1>4, <1>6, <2>1, <2>2
  <1> QED BY <1>5, <1>6

PeerDelTo(t, s) ==
    LET m == s.mac
    IN  \/ m.local /\ Gone(t, s, "none")
        \/ ~m.local /\ Sets(t, s, s.chip, s.inherited) /\ Entry(t, m.found, m.ifname, m.origin, m.local, TRUE, m.pend, m.synced, m.op, m.queued)

LEMMA PeerDelIs ==
    ASSUME NEW s \in Switch
    PROVE  PeerDelTo(PeerDel(s), s)
  <1> USE DEF PeerDelTo
  <1> DEFINE m == s.mac
             u == [s EXCEPT !.mac.peer = TRUE]
             d == DelFromChip(u)
  <1>1. Sets(u, s, s.chip, s.inherited) /\ Entry(u, m.found, m.ifname, m.origin, m.local, TRUE, m.pend, m.synced, m.op, m.queued)
    BY SetPeer
  <1>2. PeerDel(s) = IF u.mac.local /\ u.mac.peer THEN Removed(d) ELSE u
    BY DEF PeerDel, BothAged
  <1> HIDE DEF u
  <1>3. u \in Switch /\ (u.mac.local /\ u.mac.peer <=> m.local)
    BY <1>1 DEF Sets, Alike, Entry
  <1>4. CASE m.local
    <2>1. Sets(d, s, "none", FALSE) /\ Entry(d, m.found, m.ifname, m.origin, m.local, TRUE, m.pend, FALSE, m.op, m.queued)
      BY <1>1, <1>3, DelFromChipSets, SetsAgain DEF Entry
    <2> HIDE DEF d
    <2>2. m.op \in {"add", "del"}
      BY DEF Switch, Mac, Op
    <2>3. Leaving(d, s)
      BY <1>4, <2>1, <2>2 DEF Entry, Leaving, QueueTrue, Silent, Unsaid
    <2> QED BY <1>2, <1>3, <1>4, <2>1, <2>3, RemovedGone
  <1>5. CASE ~m.local
    BY <1>1, <1>2, <1>3, <1>5
  <1> QED BY <1>4, <1>5

-----------------------------------------------------------------------------
(* The same of interfaces and of the session. *)

LEMMA TimerSet ==
    ASSUME NEW s \in Switch, NEW b \in BOOLEAN
    PROVE  LET t == [s EXCEPT !.timer = b]
           IN  Sets(t, s, s.chip, s.inherited) /\ t.mac = s.mac
  BY DEF Sets, Alike, Switch

PoDownTo(t, s) ==
    LET m == s.mac
        mine == m.found /\ m.origin = "po"
    IN  \/ ~mine /\ Sets(t, s, s.chip, s.inherited) /\ t.mac = m
        \/ /\ mine /\ ~m.local /\ m.peer /\ s.pif = "up"
           /\ \/ /\ LinkUp(s) /\ Sets(t, s, "link", FALSE)
                 /\ Entry(t, m.found, "link", m.origin, m.local, m.peer, TRUE, TRUE, m.op, m.queued)
              \/ /\ ~LinkUp(s) /\ Sets(t, s, "none", FALSE)
                 /\ Entry(t, m.found, "link", m.origin, m.local, m.peer, TRUE, FALSE, m.op, m.queued)
        \/ /\ mine /\ m.peer /\ ~(~m.local /\ s.pif = "up")
           /\ Gone(t, s, "none") \/ (Gone(t, s, s.chip) /\ m.type = "static")
        \/ /\ mine /\ ~m.peer /\ Says(t, s, ~m.local /\ s.state = "EXCHANGE", "del")
           /\ \/ /\ LinkUp(s) /\ Sets(t, s, "link", FALSE)
                 /\ Entry(t, m.found, "link", m.origin, TRUE, m.peer, m.pend, TRUE, t.mac.op, t.mac.queued)
              \/ /\ ~LinkUp(s) /\ Sets(t, s, "none", FALSE)
                 /\ Entry(t, m.found, "link", m.origin, TRUE, m.peer, m.pend, FALSE, t.mac.op, t.mac.queued)

LEMMA PoDownIs ==
    ASSUME NEW s \in Switch, s.haslink
    PROVE  PoDownTo(PoDown(s), s)
  <1> USE DEF PoDownTo
  <1> DEFINE m == s.mac
             mine == m.found /\ m.origin = "po"
             s1 == [s EXCEPT !.timer = TRUE]
             u == SetLocalAge(s1)
             g == Removed(IF u.mac.type = "static" THEN u ELSE DelFromChip(u))
             a == Redirected(s1)
             b == [a EXCEPT !.mac.pend = TRUE]
  <1>1. Sets(s1, s, s.chip, s.inherited) /\ s1.mac = m
    BY TimerSet
  <1>2. PoDown(s) = IF ~s1.mac.found \/ s1.mac.origin # "po" THEN s1
                    ELSE IF ~s1.mac.local /\ s1.mac.peer /\ s1.pif = "up" THEN b
                    ELSE IF u.mac.local /\ u.mac.peer THEN g
                    ELSE IF u.haslink THEN Redirected(u) ELSE DelFromChip(u)
    BY DEF PoDown, OnlyLocal, BothAged
  <1> HIDE DEF s1
  <1>3. /\ s1 \in Switch /\ s1.state = s.state /\ s1.pif = s.pif /\ (LinkUp(s1) <=> LinkUp(s))
        /\ s1.chip = s.chip /\ s1.inherited = s.inherited
    BY <1>1 DEF Sets, Alike, LinkUp
  <1>4. /\ Sets(u, s, s.chip, s.inherited) /\ Entry(u, m.found, m.ifname, m.origin, TRUE, m.peer, m.pend, m.synced, u.mac.op, u.mac.queued)
        /\ Says(u, s, ~m.local /\ s.state = "EXCHANGE", "del")
        /\ u.mac.type = m.type
    <2>1. /\ Sets(u, s1, s1.chip, s1.inherited) /\ Entry(u, m.found, m.ifname, m.origin, TRUE, m.peer, m.pend, m.synced, u.mac.op, u.mac.queued)
          /\ Says(u, s1, ~m.local /\ s.state = "EXCHANGE", "del")
      BY <1>1, <1>3, SetLocalAgeSets, SetLocalAgeSays
    <2>2. u.mac.type = m.type
      BY <1>1, <1>3, LocalAgeIs DEF AgedTo
    <2> HIDE DEF u
    <2> QED BY <1>1, <1>3, <2>1, <2>2, SetsAgain DEF Says
  <1>5. CASE ~mine
    BY <1>1, <1>2, <1>5
  <1>6. CASE mine /\ ~m.local /\ m.peer /\ s.pif = "up"
    <2>1. PoDown(s) = b
      BY <1>1, <1>2, <1>3, <1>6
    <2>2. /\ LinkUp(s) => Sets(a, s1, "link", FALSE) /\ Entry(a, m.found, "link", m.origin, m.local, m.peer, m.pend, TRUE, m.op, m.queued)
          /\ ~LinkUp(s) => Sets(a, s1, "none", FALSE) /\ Entry(a, m.found, "link", m.origin, m.local, m.peer, m.pend, FALSE, m.op, m.queued)
      BY <1>1, <1>3, RedirectedIs
    <2> HIDE DEF a
    <2>3. a \in Switch
      BY <2>2 DEF Sets, Alike
    <2>4. /\ Sets(b, a, a.chip, a.inherited)
          /\ LET v == a.mac IN Entry(b, v.found, v.ifname, v.origin, v.local, v.peer, TRUE, v.synced, v.op, v.queued)
      BY <2>3, SetPend
    <2> HIDE DEF b
    <2>5. CASE LinkUp(s)
      <3>1. Sets(b, s, "link", FALSE) /\ Entry(b, m.found, "link", m.origin, m.local, m.peer, TRUE, TRUE, m.op, m.queued)
        BY <1>1, <2>2, <2>4, <2>5 DEF Sets, Alike, Entry
      <3> QED BY <1>6, <2>1, <2>5, <3>1
    <2>6. CASE ~LinkUp(s)
      <3>1. Sets(b, s, "none", FALSE) /\ Entry(b, m.found, "link", m.origin, m.local, m.peer, TRUE, FALSE, m.op, m.queued)
        BY <1>1, <2>2, <2>4, <2>6 DEF Sets, Alike, Entry
      <3> QED BY <1>6, <2>1, <2>6, <3>1
    <2> QED BY <2>5, <2>6
  <1>7. CASE mine /\ m.peer /\ ~(~m.local /\ s.pif = "up")
    <2> DEFINE d == DelFromChip(u)
    <2>1. PoDown(s) = g
      BY <1>1, <1>2, <1>3, <1>4, <1>7 DEF Entry
    <2>2. g = Removed(d) \/ (g = Removed(u) /\ m.type = "static")
      BY <1>4
    <2> HIDE DEF u, g
    <2>3. Leaving(u, s) /\ u \in Switch
      BY <1>4, AgedLeaving DEF Sets, Alike
    <2>4. Sets(d, s, "none", FALSE) /\ d.mac.op = u.mac.op /\ d.mac.queued = u.mac.queued
      BY <1>4, <2>3, DelFromChipSets, SetsAgain DEF Entry
    <2> HIDE DEF d
    <2>5. Leaving(d, s)
      BY <2>3, <2>4 DEF Leaving
    <2>6. Gone(Removed(d), s, "none") /\ Gone(Removed(u), s, s.chip)
      BY <1>4, <2>3, <2>4, <2>5, RemovedGone
    <2> QED BY <1>7, <2>1, <2>2, <2>6
  <1>8. CASE mine /\ ~m.peer
    <2> DEFINE t == Redirected(u)
    <2>1. PoDown(s) = t
      BY <1>1, <1>2, <1>3, <1>4, <1>8 DEF Entry, Sets, Alike
    <2> HIDE DEF u
    <2>2. u \in Switch /\ (LinkUp(u) <=> LinkUp(s))
      BY <1>4 DEF Sets, Alike, LinkUp
    <2>3. LET v == u.mac
          IN  /\ LinkUp(s) => Sets(t, u, "link", FALSE) /\ Entry(t, v.found, "link", v.origin, v.local, v.peer, v.pend, TRUE, v.op, v.queued)
              /\ ~LinkUp(s) => Sets(t, u, "none", FALSE) /\ Entry(t, v.found, "link", v.origin, v.local, v.peer, v.pend, FALSE, v.op, v.queued)
      BY <2>2, RedirectedIs
    <2> HIDE DEF t
    <2>4. t.mac.op = u.mac.op /\ t.mac.queued = u.mac.queued
      BY <2>3 DEF Entry
    <2>5. Says(t, s, ~m.local /\ s.state = "EXCHANGE", "del")
      BY <1>4, <2>4 DEF Says
    <2>6. /\ LinkUp(s) => Sets(t, s, "link", FALSE) /\ Entry(t, m.found, "link", m.origin, TRUE, m.peer, m.pend, TRUE, t.mac.op, t.mac.queued)
          /\ ~LinkUp(s) => Sets(t, s, "none", FALSE) /\ Entry(t, m.found, "link", m.origin, TRUE, m.peer, m.pend, FALSE, t.mac.op, t.mac.queued)
      BY <1>4, <2>3, SetsAgain DEF Entry
    <2> QED BY <1>8, <2>1, <2>5, <2>6
  <1> QED BY <1>5, <1>6, <1>7, <1>8

PoUpTo(t, s) ==
    LET m == s.mac
        mine == m.found /\ m.origin = "po"
    IN  \/ /\ mine => m.ifname # "link" /\ ~m.pend
           /\ Sets(t, s, s.chip, s.inherited) /\ t.mac = m
        \/ /\ mine /\ m.ifname = "link" /\ Sets(t, s, "po", FALSE)
           /\ Entry(t, m.found, "po", m.origin, m.local, m.peer, FALSE, TRUE, m.op, m.queued)
        \/ /\ mine /\ m.ifname # "link" /\ m.pend
           /\ \/ /\ m.type = "static" /\ Sets(t, s, "none", FALSE)
                 /\ Entry(t, m.found, m.ifname, m.origin, m.local, m.peer, FALSE, FALSE, m.op, m.queued)
              \/ m.type # "static" /\ Gone(t, s, "none")

LEMMA PoUpIs ==
    ASSUME NEW s \in Switch
    PROVE  PoUpTo(PoUp(s), s)
  <1> USE DEF PoUpTo
  <1> DEFINE m == s.mac
             mine == m.found /\ m.origin = "po"
             s1 == [s EXCEPT !.timer = FALSE]
             r == [s1.mac EXCEPT !.pend = FALSE, !.ifname = "po"]
             back == [s1 EXCEPT !.mac.pend = FALSE, !.mac.ifname = "po"]
             c == PendingCleared(s1)
  <1>1. Sets(s1, s, s.chip, s.inherited) /\ s1.mac = m
    BY TimerSet
  <1>2. PoUp(s) = IF ~s1.mac.found \/ s1.mac.origin # "po" THEN s1
                  ELSE IF s1.mac.ifname = "link"
                  THEN IF OnlyPeer(s1) THEN AddToChip(back) ELSE AddAgeing(back)
                  ELSE IF s1.mac.pend THEN c ELSE s1
    BY DEF PoUp
  <1> HIDE DEF s1
  <1>3. s1 \in Switch /\ m \in Mac /\ "po" \in Port /\ Alike(s1, s) /\ s1.detached = s.detached
    BY <1>1 DEF Sets, Alike, Switch, Port
  <1>4. Sets(back, s, s.chip, s.inherited) /\ Entry(back, m.found, "po", m.origin, m.local, m.peer, FALSE, m.synced, m.op, m.queued)
    <2>1. /\ r \in Mac /\ r.found = m.found /\ r.ifname = "po" /\ r.origin = m.origin
          /\ r.local = m.local /\ r.peer = m.peer /\ r.pend = FALSE /\ r.synced = m.synced
          /\ r.op = m.op /\ r.queued = m.queued
      BY <1>1, <1>3 DEF Mac
    <2>2. back = [s1 EXCEPT !.mac = r]
      BY <1>3 DEF Switch, Mac
    <2> HIDE DEF r
    <2>3. Sets(back, s1, s1.chip, s1.inherited) /\ back.mac = r
      BY <1>3, <2>1, <2>2, SetEntry
    <2> HIDE DEF back
    <2> QED BY <1>1, <2>1, <2>3, SetsAgain DEF Entry, Sets
  <1> HIDE DEF back
  <1>5. \A t \in {AddToChip(back), AddAgeing(back)} :
            Sets(t, s, "po", FALSE) /\ Entry(t, m.found, "po", m.origin, m.local, m.peer, FALSE, TRUE, m.op, m.queued)
    <2>1. back \in Switch
      BY <1>4 DEF Sets, Alike
    <2>2. LET v == back.mac
          IN  \A t \in {AddToChip(back), AddAgeing(back)} :
                  Sets(t, back, v.ifname, FALSE) /\ Entry(t, v.found, v.ifname, v.origin, v.local, v.peer, v.pend, TRUE, v.op, v.queued)
      BY <2>1, AddToChipSets, AddAgeingSets
    <2>3. back.mac.ifname = "po"
      BY <1>4 DEF Entry
    <2> SUFFICES ASSUME NEW t \in {AddToChip(back), AddAgeing(back)}
                 PROVE  Sets(t, s, "po", FALSE) /\ Entry(t, m.found, "po", m.origin, m.local, m.peer, FALSE, TRUE, m.op, m.queued)
      OBVIOUS
    <2>4. /\ Sets(t, back, "po", FALSE)
          /\ LET v == back.mac IN Entry(t, v.found, v.ifname, v.origin, v.local, v.peer, v.pend, TRUE, v.op, v.queued)
      BY <2>2, <2>3
    <2>5. Sets(t, s, "po", FALSE)
      BY <1>4, <2>4, SetsAgain
    <2> QED BY <1>4, <2>4, <2>5 DEF Entry
  <1>6. CASE ~mine \/ (m.ifname # "link" /\ ~m.pend)
    BY <1>1, <1>2, <1>6
  <1>7. CASE mine /\ m.ifname = "link"
    <2>1. PoUp(s) \in {AddToChip(back), AddAgeing(back)}
      BY <1>1, <1>2, <1>7
    <2> QED BY <1>5, <1>7, <2>1
  <1>8. CASE mine /\ m.ifname # "link" /\ m.pend
    <2>1. PoUp(s) = c
      BY <1>1, <1>2, <1>8
    <2>2. LET v == s1.mac
          IN  /\ v.type = "static" => Sets(c, s1, "none", FALSE) /\ Entry(c, v.found, v.ifname, v.origin, v.local, v.peer, FALSE, FALSE, v.op, v.queued)
              /\ v.pend /\ v.type # "static" => Gone(c, s1, "none")
      BY <1>3, PendingClearedIs
    <2> HIDE DEF c
    <2>3. m.type = "static" => Sets(c, s, "none", FALSE) /\ Entry(c, m.found, m.ifname, m.origin, m.local, m.peer, FALSE, FALSE, m.op, m.queued)
      BY <1>1, <2>2, SetsAgain
    <2>4. m.type # "static" => Gone(c, s, "none")
      BY <1>1, <1>3, <1>8, <2>2 DEF Gone, Alike, QueueTrue, Silent, Left, Unsaid
    <2> QED BY <1>8, <2>1, <2>3, <2>4
  <1> QED BY <1>6, <1>7, <1>8

OrphanUpTo(t, s) ==
    LET m == s.mac
    IN  \/ t = s
        \/ /\ m.found /\ ~m.local /\ s.state = "EXCHANGE" /\ Sets(t, s, s.chip, s.inherited)
           /\ Entry(t, m.found, m.ifname, m.origin, m.local, m.peer, m.pend, m.synced, "add", TRUE)

LEMMA OrphanUpIs ==
    ASSUME NEW s \in Switch
    PROVE  OrphanUpTo(OrphanUp(s), s)
  <1> USE DEF OrphanUpTo
  <1>1. "add" \in Op
    BY DEF Op
  <1> QED BY <1>1, QueuedSets DEF OrphanUp, OnlyLocal

PeerLinkUpTo(t, s) ==
    LET m == s.mac
    IN  \/ ~(m.found /\ m.ifname = "link") /\ t = s
        \/ /\ m.found /\ m.ifname = "link" /\ Sets(t, s, "link", FALSE)
           /\ Entry(t, m.found, m.ifname, m.origin, m.local, m.peer, m.pend, TRUE, m.op, m.queued)

LEMMA PeerLinkUpIs ==
    ASSUME NEW s \in Switch
    PROVE  PeerLinkUpTo(PeerLinkUp(s), s)
  <1> USE DEF PeerLinkUpTo
  <1> QED BY AddToChipSets DEF PeerLinkUp

PeerLinkDownTo(t, s) ==
    LET m == s.mac
    IN  \/ ~(m.found /\ m.ifname = "link") /\ t = s
        \/ /\ m.found /\ m.ifname = "link"
           /\ \/ m.peer /\ Gone(t, s, "none")
              \/ /\ Sets(t, s, "none", FALSE) /\ ~(~m.pend /\ m.peer)
                 /\ Entry(t, m.found, m.ifname, m.origin, t.mac.local, m.peer, m.pend, FALSE, t.mac.op, t.mac.queued)
                 /\ ~m.pend => t.mac.local /\ Says(t, s, ~m.local /\ s.state = "EXCHANGE", "del")
                 /\ m.pend => /\ t.mac.local = m.local
                              /\ t.mac.op = m.op /\ t.mac.queued = m.queued

LEMMA PeerLinkDownIs ==
    ASSUME NEW s \in Switch
    PROVE  PeerLinkDownTo(PeerLinkDown(s), s)
  <1> USE DEF PeerLinkDownTo
  <1> DEFINE m == s.mac
             a == SetLocalAge(s)
             u == IF m.pend THEN s ELSE a
             d == DelFromChip(u)
  <1>1. /\ Sets(a, s, s.chip, s.inherited) /\ Entry(a, m.found, m.ifname, m.origin, TRUE, m.peer, m.pend, m.synced, a.mac.op, a.mac.queued)
        /\ Says(a, s, ~m.local /\ s.state = "EXCHANGE", "del")
    BY SetLocalAgeSets, SetLocalAgeSays
  <1>2. PeerLinkDown(s) = IF m.found /\ m.ifname = "link"
                          THEN IF d.mac.local /\ d.mac.peer THEN Removed(d) ELSE d ELSE s
    BY DEF PeerLinkDown, RemovedIf, BothAged
  <1> HIDE DEF a
  <1>3. Sets(u, s, s.chip, s.inherited) /\ u \in Switch
    BY <1>1 DEF Sets, Alike
  <1>4. /\ Entry(u, m.found, m.ifname, m.origin, u.mac.local, m.peer, m.pend, m.synced, u.mac.op, u.mac.queued)
        /\ ~m.pend => u.mac.local /\ Says(u, s, ~m.local /\ s.state = "EXCHANGE", "del")
        /\ m.pend => u.mac.local = m.local /\ u.mac.op = m.op /\ u.mac.queued = m.queued
    BY <1>1 DEF Entry
  <1> HIDE DEF u
  <1>5. LET v == u.mac IN Sets(d, u, "none", FALSE) /\ Entry(d, v.found, v.ifname, v.origin, v.local, v.peer, v.pend, FALSE, v.op, v.queued)
    BY <1>3, DelFromChipSets
  <1> HIDE DEF d
  <1>6. /\ Sets(d, s, "none", FALSE) /\ Entry(d, m.found, m.ifname, m.origin, d.mac.local, m.peer, m.pend, FALSE, d.mac.op, d.mac.queued)
        /\ ~m.pend => d.mac.local /\ Says(d, s, ~m.local /\ s.state = "EXCHANGE", "del")
        /\ m.pend => d.mac.local = m.local /\ d.mac.op = m.op /\ d.mac.queued = m.queued
    BY <1>3, <1>4, <1>5, SetsAgain DEF Entry, Says
  <1>7. d.mac.local /\ d.mac.peer => m.peer /\ Gone(Removed(d), s, "none")
    <2> HAVE d.mac.local /\ d.mac.peer
    <2>1. CASE ~m.pend
      BY <1>6, <2>1, AgedLeaving, RemovedGone DEF Entry
    <2>2. CASE m.pend
      <3>1. m.op \in {"add", "del"} /\ m.local
        BY <1>6, <2>2 DEF Switch, Mac, Op
      <3>2. Leaving(d, s)
        BY <1>6, <2>2, <3>1 DEF Leaving, QueueTrue, Silent, Unsaid
      <3> QED BY <1>6, <3>2, RemovedGone DEF Entry
    <2> QED BY <2>1, <2>2
  <1>8. CASE ~(m.found /\ m.ifname = "link")
    BY <1>2, <1>8
  <1>9. CASE m.found /\ m.ifname = "link" /\ d.mac.local /\ d.mac.peer
    BY <1>2, <1>7, <1>9
  <1>10. CASE m.found /\ m.ifname = "link" /\ ~(d.mac.local /\ d.mac.peer)
    <2>1. ~(~m.pend /\ m.peer)
      BY <1>6, <1>10 DEF Entry
    <2> QED BY <1>2, <1>6, <1>10, <2>1
  <1> QED BY <1>8, <1>9, <1>10

TimerExpiredTo(t, s) ==
    LET m == s.mac
    IN  \/ Sets(t, s, s.chip, s.inherited) /\ t.mac = m
        \/ /\ m.found /\ m.pend /\ m.type = "static" /\ Sets(t, s, "none", FALSE)
           /\ Entry(t, m.found, m.ifname, m.origin, m.local, m.peer, FALSE, FALSE, m.op, m.queued)
        \/ m.pend /\ m.type # "static" /\ Gone(t, s, "none")

LEMMA TimerExpiredIs ==
    ASSUME NEW s \in Switch
    PROVE  TimerExpiredTo(TimerExpired(s), s)
  <1> USE DEF TimerExpiredTo
  <1> DEFINE m == s.mac
             c == PendingCleared(s)
             cond == m.found /\ m.pend /\ m.origin = "po"
             e == [c EXCEPT !.timer = FALSE]
  <1>1. TimerExpired(s) = IF cond THEN e ELSE [s EXCEPT !.timer = FALSE]
    BY DEF TimerExpired
  <1>2. /\ m.type = "static" => Sets(c, s, "none", FALSE) /\ Entry(c, m.found, m.ifname, m.origin, m.local, m.peer, FALSE, FALSE, m.op, m.queued)
        /\ m.pend /\ m.type # "static" => Gone(c, s, "none")
    BY PendingClearedIs
  <1> HIDE DEF c
  <1>3. c \in Switch
    BY PendingClearedType DEF c, Kept
  <1>4. Sets(e, c, c.chip, c.inherited) /\ e.mac = c.mac
    BY <1>3, TimerSet
  <1> HIDE DEF e
  <1>5. CASE cond /\ m.type = "static"
    <2>1. TimerExpired(s) = e /\ m.found /\ m.pend
      BY <1>1, <1>5
    <2>2. Sets(e, s, "none", FALSE)
      BY <1>2, <1>4, <1>5 DEF Sets, Alike
    <2>3. Entry(e, m.found, m.ifname, m.origin, m.local, m.peer, FALSE, FALSE, m.op, m.queued)
      BY <1>2, <1>4, <1>5 DEF Entry
    <2> QED BY <1>5, <2>1, <2>2, <2>3
  <1>6. CASE cond /\ m.type # "static"
    <2>1. Gone(e, s, "none")
      BY <1>2, <1>4, <1>6, AlikeAgain DEF Gone, Sets, Left
    <2> QED BY <1>1, <1>6, <2>1
  <1>7. CASE ~cond
    BY <1>1, <1>7, TimerSet
  <1> QED BY <1>5, <1>6, <1>7

LEMMA RemoteToLocalIs ==
    ASSUME NEW s \in Switch
    PROVE  LET t == RemoteToLocal(s)
               m == s.mac
           IN  \/ t = s
               \/ /\ s.up["po"] /\ m.found /\ m.origin = "po" /\ m.local /\ ~m.peer
                  /\ Sets(t, s, m.ifname, FALSE)
                  /\ Entry(t, m.found, m.ifname, m.origin, FALSE, TRUE, m.pend, TRUE, "add", TRUE)
  <1> DEFINE m == s.mac
             cond == s.up["po"] /\ m.found /\ m.origin = "po" /\ m.local /\ ~m.peer
             r == [m EXCEPT !.local = FALSE, !.peer = TRUE]
             u == [s EXCEPT !.mac.local = FALSE, !.mac.peer = TRUE]
             a == AddAgeing(u)
             t == Queued(a, "add")
  <1>1. RemoteToLocal(s) = IF cond THEN t ELSE s
    BY DEF RemoteToLocal, OnlyPeer
  <1>2. Sets(u, s, s.chip, s.inherited) /\ Entry(u, m.found, m.ifname, m.origin, FALSE, TRUE, m.pend, m.synced, m.op, m.queued)
    <2>1. /\ r \in Mac /\ r.found = m.found /\ r.ifname = m.ifname /\ r.origin = m.origin
          /\ r.local = FALSE /\ r.peer = TRUE /\ r.pend = m.pend /\ r.synced = m.synced
          /\ r.op = m.op /\ r.queued = m.queued
      BY DEF Switch, Mac
    <2>2. u = [s EXCEPT !.mac = r]
      BY DEF Switch, Mac
    <2> HIDE DEF r
    <2> QED BY <2>1, <2>2, SetEntry DEF Entry
  <1> HIDE DEF u
  <1>3. LET v == u.mac IN Sets(a, u, v.ifname, FALSE) /\ Entry(a, v.found, v.ifname, v.origin, v.local, v.peer, v.pend, TRUE, v.op, v.queued)
    BY <1>2, AddAgeingSets DEF Sets, Alike
  <1> HIDE DEF a
  <1>4. LET v == a.mac IN Sets(t, a, a.chip, a.inherited) /\ Entry(t, v.found, v.ifname, v.origin, v.local, v.peer, v.pend, v.synced, "add", TRUE)
    BY <1>3, QueuedSets DEF Sets, Alike, Op
  <1> HIDE DEF t
  <1>5. Sets(t, s, m.ifname, FALSE) /\ Entry(t, m.found, m.ifname, m.origin, FALSE, TRUE, m.pend, TRUE, "add", TRUE)
    BY <1>2, <1>3, <1>4 DEF Sets, Alike, Entry
  <1> QED BY <1>1, <1>5

(* What PeerPo, and the stages, leave alone. *)
AlikeBut(t, s) ==
    /\ t \in Switch
    /\ t.kind = s.kind /\ t.haslink = s.haslink /\ t.up = s.up /\ t.plif = s.plif

PeerPoTo(t, s) ==
    LET m == s.mac
    IN  /\ AlikeBut(t, s) /\ t.state = s.state /\ t.warm = s.warm /\ t.detached = s.detached
        /\ \/ t.mac = m /\ t.chip = s.chip /\ t.inherited = s.inherited
           \/ /\ s.up["po"] /\ m.found /\ m.origin = "po" /\ m.local /\ ~m.peer
              /\ t.chip = m.ifname /\ ~t.inherited /\ s.state = "EXCHANGE"
              /\ Entry(t, m.found, m.ifname, m.origin, FALSE, TRUE, m.pend, TRUE, "add", TRUE)

LEMMA PeerPoIs ==
    ASSUME NEW s \in Switch, NEW up \in BOOLEAN
    PROVE  PeerPoTo(PeerPo(s, up), s)
  <1> USE DEF PeerPoTo
  <1> DEFINE m == s.mac
             x == IF up THEN "up" ELSE "down"
             u == [s EXCEPT !.pif = x]
             t == RemoteToLocal(u)
  <1>1. PeerPo(s, up) = IF up \/ s.state # "EXCHANGE" THEN u ELSE t
    BY DEF PeerPo
  <1>2. /\ AlikeBut(u, s) /\ u.state = s.state /\ u.warm = s.warm /\ u.detached = s.detached
        /\ u.mac = m /\ u.chip = s.chip /\ u.inherited = s.inherited
    BY DEF Switch, AlikeBut
  <1> HIDE DEF u
  <1>3. \/ t = u
        \/ /\ u.up["po"] /\ m.found /\ m.origin = "po" /\ m.local /\ ~m.peer
           /\ Sets(t, u, m.ifname, FALSE)
           /\ Entry(t, m.found, m.ifname, m.origin, FALSE, TRUE, m.pend, TRUE, "add", TRUE)
    BY <1>2, RemoteToLocalIs DEF AlikeBut
  <1> HIDE DEF t
  <1> QED BY <1>1, <1>2, <1>3 DEF Sets, Alike, AlikeBut

SyncMacTo(t, s) ==
    LET m == s.mac
    IN  \/ ~(m.found /\ ~m.local) /\ t = s
        \/ /\ m.found /\ ~m.local /\ Sets(t, s, s.chip, s.inherited)
           /\ Entry(t, m.found, m.ifname, m.origin, m.local, m.peer, m.pend, m.synced, "add", TRUE)

LEMMA SyncMacIs ==
    ASSUME NEW s \in Switch
    PROVE  SyncMacTo(SyncMac(s), s)
  <1> USE DEF SyncMacTo
  <1> QED BY QueuedSets DEF SyncMac, Op

FdbDisconnectedTo(t, s) ==
    LET m == s.mac
    IN  /\ Alike(t, s)
        /\ \/ ~m.found /\ t = s
           \/ m.found /\ m.ifname = "link" /\ t.mac = NoMac /\ t.chip = "none"
           \/ /\ m.found /\ (m.ifname = "link" => ~m.local /\ ~m.pend)
              /\ ~(m.ifname # "link" /\ m.local /\ ~m.peer)
              /\ t.chip = s.chip /\ t.inherited = s.inherited
              /\ Entry(t, m.found, m.ifname, m.origin, m.local, TRUE, m.pend, m.synced, m.op, m.queued)
           \/ /\ m.found /\ m.ifname # "link" /\ m.local /\ ~m.peer
              /\ t.chip = m.ifname /\ ~t.inherited
              /\ Entry(t, m.found, m.ifname, m.origin, FALSE, TRUE, m.pend, TRUE, m.op, m.queued)

LEMMA FdbDisconnectedIs ==
    ASSUME NEW s \in Switch
    PROVE  FdbDisconnectedTo(FdbDisconnected(s), s)
  <1> USE DEF FdbDisconnectedTo
  <1> DEFINE m == s.mac
             u == [s EXCEPT !.mac.peer = TRUE]
             d == DelFromChip(u)
             g == Removed(d)
             a == AddAgeing(u)
             e == [a EXCEPT !.mac.local = FALSE]
  <1>1. Sets(u, s, s.chip, s.inherited) /\ Entry(u, m.found, m.ifname, m.origin, m.local, TRUE, m.pend, m.synced, m.op, m.queued)
    BY SetPeer
  <1>2. FdbDisconnected(s) = IF ~m.found THEN s
                             ELSE IF m.ifname = "link"
                             THEN IF (u.mac.local /\ u.mac.peer) \/ m.pend THEN g ELSE u
                             ELSE IF m.local /\ ~m.peer THEN e ELSE u
    BY DEF FdbDisconnected, BothAged, OnlyPeer
  <1> HIDE DEF u
  <1>3. u \in Switch /\ Alike(u, s) /\ u.mac.local = m.local /\ u.mac.peer
    BY <1>1 DEF Sets, Alike, Entry
  <1>4. Sets(d, u, "none", FALSE)
    BY <1>3, DelFromChipSets
  <1> HIDE DEF d
  <1>5. Alike(g, s) /\ g.mac = NoMac /\ g.chip = "none"
    <2>1. d \in Switch
      BY <1>4 DEF Sets, Alike
    <2>2. Drops(g, d, d.chip, d.inherited)
      BY <2>1, RemovedDrops
    <2> HIDE DEF g
    <2> QED BY <1>3, <1>4, <2>2, AlikeAgain DEF Sets, Drops
  <1>6. LET v == u.mac IN Sets(a, u, v.ifname, FALSE) /\ Entry(a, v.found, v.ifname, v.origin, v.local, v.peer, v.pend, TRUE, v.op, v.queued)
    BY <1>3, AddAgeingSets
  <1> HIDE DEF a
  <1>7. LET v == a.mac IN Sets(e, a, a.chip, a.inherited) /\ Entry(e, v.found, v.ifname, v.origin, FALSE, v.peer, v.pend, v.synced, v.op, v.queued)
    <2>1. a \in Switch
      BY <1>6 DEF Sets, Alike
    <2> QED BY <2>1, SetLocal
  <1> HIDE DEF e, g
  <1>8. Sets(e, s, m.ifname, FALSE) /\ Entry(e, m.found, m.ifname, m.origin, FALSE, TRUE, m.pend, TRUE, m.op, m.queued)
    BY <1>1, <1>6, <1>7 DEF Sets, Alike, Entry
  <1>9. Alike(s, s)
    BY DEF Alike
  <1>10. CASE ~m.found
    BY <1>2, <1>9, <1>10
  <1>11. CASE m.found /\ m.ifname = "link" /\ (m.local \/ m.pend)
    BY <1>2, <1>3, <1>5, <1>11
  <1>12. CASE m.found /\ ~(m.ifname = "link" /\ (m.local \/ m.pend)) /\ ~(m.ifname # "link" /\ m.local /\ ~m.peer)
    <2>1. FdbDisconnected(s) = u
      BY <1>2, <1>3, <1>12
    <2> QED BY <1>1, <1>3, <1>12, <2>1 DEF Sets
  <1>13. CASE m.found /\ m.ifname # "link" /\ m.local /\ ~m.peer
    <2>1. FdbDisconnected(s) = e
      BY <1>2, <1>13
    <2> QED BY <1>8, <1>13, <2>1 DEF Sets
  <1> QED BY <1>10, <1>11, <1>12, <1>13

DisconnectedTo(t, s) ==
    LET u == IF s.warm THEN s ELSE FdbDisconnected(s)
        m == u.mac
    IN  /\ t \in Switch
        /\ t.kind = s.kind /\ t.haslink = s.haslink /\ t.up = s.up
        /\ t.state = "INIT" /\ ~t.warm /\ t.detached = <<>>
        /\ t.chip = u.chip /\ t.inherited = u.inherited
        /\ Entry(t, m.found, m.ifname, m.origin, m.local, m.peer, m.pend, m.synced, m.op, FALSE)

LEMMA DisconnectedIs ==
    ASSUME NEW s \in Switch
    PROVE  DisconnectedTo(Disconnected(s), s)
  <1> USE DEF DisconnectedTo
  <1> DEFINE u == IF s.warm THEN s ELSE FdbDisconnected(s)
             m == u.mac
             r == [m EXCEPT !.queued = FALSE]
             q == QueueReinit(u)
             f == u.freed \/ (m.queued /\ m.op = "del")
             t == [q EXCEPT !.state = "INIT", !.pif = "none", !.plif = FALSE, !.warm = FALSE]
  <1>1. u \in Switch /\ u.kind = s.kind /\ u.haslink = s.haslink /\ u.up = s.up
    BY FdbDisconnectedIs DEF Alike, FdbDisconnectedTo
  <1>2. Disconnected(s) = t
    BY DEF Disconnected
  <1> HIDE DEF u
  <1>3. /\ r \in Mac /\ r.found = m.found /\ r.ifname = m.ifname /\ r.origin = m.origin /\ r.local = m.local
        /\ r.peer = m.peer /\ r.pend = m.pend /\ r.synced = m.synced /\ r.op = m.op /\ r.queued = FALSE
    BY <1>1 DEF Switch, Mac
  <1>4. q = [u EXCEPT !.detached = <<>>, !.mac = r, !.freed = f] /\ f \in BOOLEAN
    <2>1. q = [u EXCEPT !.detached = <<>>, !.mac = r, !.freed = f]
      BY <1>1 DEF QueueReinit, Switch
    <2>2. f \in BOOLEAN
      BY <1>1 DEF Switch
    <2> QED BY <2>1, <2>2
  <1> HIDE DEF r, f
  <1>5. /\ q \in Switch /\ q.kind = s.kind /\ q.haslink = s.haslink /\ q.up = s.up /\ q.mac = r
        /\ q.detached = <<>> /\ q.chip = u.chip /\ q.inherited = u.inherited
    <2>1. q \in Switch
      BY <1>1, QueueReinitType DEF Kept
    <2>2. /\ q.kind = u.kind /\ q.haslink = u.haslink /\ q.up = u.up /\ q.mac = r
          /\ q.detached = <<>> /\ q.chip = u.chip /\ q.inherited = u.inherited
      BY <1>1, <1>4 DEF Switch
    <2> QED BY <1>1, <2>1, <2>2
  <1> HIDE DEF q
  <1>6. /\ t \in Switch /\ t.kind = s.kind /\ t.haslink = s.haslink /\ t.up = s.up /\ t.mac = r
        /\ t.detached = <<>> /\ t.chip = u.chip /\ t.inherited = u.inherited
        /\ t.state = "INIT" /\ ~t.warm
    BY <1>5 DEF Switch, State
  <1> HIDE DEF t
  <1> QED BY <1>2, <1>3, <1>6 DEF Entry, u

-----------------------------------------------------------------------------
(* What keeps an entry installed. *)

Good(s) == EthLearnt(s) /\ LinkInstalled(s)

Stays(t, s) == \A i \in HostPort : Elsewhere(t, i) => Elsewhere(s, i)

SameLink(t, s) == t.haslink = s.haslink /\ (s.haslink => t.plif = s.plif)

Fine(t, s) == Good(t) /\ Stays(t, s) /\ SameLink(t, s)

Wired(s) == s.haslink /\ s.state = "EXCHANGE" => s.plif

LEMMA NoMacFound == ~NoMac.found /\ ~NoMac.queued /\ ~NoMac.pend /\ ~NoMac.local /\ ~NoMac.peer
  BY DEF NoMac

LEMMA Untracked ==
    ASSUME NEW t, ~Tracked(t)
    PROVE  Good(t) /\ \A i \in HostPort : ~Elsewhere(t, i)
  BY DEF Good, EthLearnt, LinkInstalled, Elsewhere

LEMMA NoLinkFine ==
    ASSUME NEW s, NEW t, Kept(t, s), ~s.haslink
    PROVE  Fine(t, s) /\ ~Tracked(t)
  BY Untracked DEF Fine, Stays, SameLink, Kept, Same, Tracked

LEMMA FineAgain ==
    ASSUME NEW s, NEW t, NEW u, Fine(t, s), Fine(u, t)
    PROVE  Fine(u, s)
  BY DEF Fine, Stays, SameLink

(* An entry that stays where it is, in the chip too. *)
LEMMA FineSame ==
    ASSUME NEW s, NEW t, Good(s), t.kind = s.kind, SameLink(t, s), t.up = s.up,
           t.state = "EXCHANGE" => s.state = "EXCHANGE",
           t.mac.found = s.mac.found, t.mac.ifname = s.mac.ifname, t.mac.origin = s.mac.origin,
           s.mac.peer => t.mac.peer, t.chip = s.chip
    PROVE  Fine(t, s)
  BY DEF Fine, Good, Stays, EthLearnt, LinkInstalled, Elsewhere, Tracked, SameLink

LEMMA AgedOnLinkFine ==
    ASSUME NEW s \in Switch, SwitchInv(s), Good(s), Wired(s), s.haslink,
           s.mac.found, s.mac.ifname = "link"
    PROVE  LET t == AgedOnLink(s)
           IN  Good(t) /\ SameLink(t, s) /\ \A i \in HostPort : ~Elsewhere(t, i)
  <1> DEFINE t == AgedOnLink(s)
             m == s.mac
  <1>0. \A i \in HostPort : i # "link"
    BY DEF HostPort
  <1>1. \/ t = s
        \/ Gone(t, s, "none") \/ Gone(t, s, s.chip)
        \/ /\ \/ LinkUp(s) /\ Sets(t, s, "link", FALSE)
              \/ ~LinkUp(s) /\ Sets(t, s, s.chip, s.inherited)
           /\ t.mac.found /\ t.mac.ifname = "link" /\ t.mac.origin = m.origin
    <2>1. AgedOnLinkTo(t, s)
      BY AgedOnLinkIs
    <2> HIDE DEF t
    <2> QED BY <2>1 DEF AgedOnLinkTo, Entry
  <1> SUFFICES Good(t) /\ SameLink(t, s) /\ \A i \in HostPort : ~Elsewhere(t, i)
    OBVIOUS
  <1> HIDE DEF t
  <1>2. CASE t = s
    BY <1>0, <1>2 DEF SameLink, Elsewhere
  <1>3. CASE Gone(t, s, "none") \/ Gone(t, s, s.chip)
    BY <1>3, NoMacFound, Untracked DEF Gone, Alike, SameLink, Tracked
  <1>4. CASE /\ LinkUp(s) /\ Sets(t, s, "link", FALSE)
             /\ t.mac.found /\ t.mac.ifname = "link" /\ t.mac.origin = m.origin
    BY <1>0, <1>4 DEF Sets, Alike, SameLink, Good, EthLearnt, LinkInstalled, Elsewhere
  <1>5. CASE /\ ~LinkUp(s) /\ Sets(t, s, s.chip, s.inherited)
             /\ t.mac.found /\ t.mac.ifname = "link" /\ t.mac.origin = m.origin
    BY <1>0, <1>5 DEF Sets, Alike, SameLink, Good, EthLearnt, LinkInstalled, Elsewhere, Tracked
  <1> QED BY <1>1, <1>2, <1>3, <1>4, <1>5

LEMMA AgedOnPortFine ==
    ASSUME NEW s \in Switch, SwitchInv(s), Good(s), Wired(s), s.haslink, s.kind = "dynamic",
           s.mac.found, s.mac.ifname # "link", NEW i \in HostPort
    PROVE  LET t == AgedOnPort(s, i)
           IN  /\ Good(t) /\ SameLink(t, s)
               /\ \A j \in HostPort : Elsewhere(t, j) => Elsewhere(s, j) /\ j # i
  <1> DEFINE t == AgedOnPort(s, i)
             m == s.mac
  <1>0. (\A j \in HostPort : j # "link") /\ i \in {"po", "eth"}
    BY DEF HostPort
  <1>1. /\ m.ifname = m.origin /\ m.origin \in {"po", "eth"}
        /\ m.ifname = "eth" => m.peer
    BY DEF SwitchInv, OnOrigin, Good, EthLearnt, Tracked, Switch, Mac, HostPort
  <1>2. \/ Gone(t, s, "none") \/ Gone(t, s, s.chip)
        \/ /\ ~m.peer /\ i = "po" /\ ~s.up["po"]
           /\ \/ LinkUp(s) /\ Sets(t, s, "link", FALSE)
              \/ ~LinkUp(s) /\ Sets(t, s, s.chip, s.inherited)
           /\ t.mac.found /\ t.mac.ifname = "link" /\ t.mac.origin = m.origin
        \/ /\ ~m.peer /\ (i = "po" => s.up["po"])
           /\ \/ s.up[m.ifname] /\ Sets(t, s, m.ifname, FALSE)
              \/ ~s.up[m.ifname] /\ Sets(t, s, s.chip, s.inherited)
           /\ t.mac.found /\ t.mac.ifname = m.ifname /\ t.mac.origin = m.origin
    <2>1. AgedOnPortTo(t, s, i)
      BY AgedOnPortIs
    <2> HIDE DEF t
    <2> QED BY <2>1 DEF AgedOnPortTo, Entry
  <1> SUFFICES /\ Good(t) /\ SameLink(t, s)
               /\ \A j \in HostPort : Elsewhere(t, j) => Elsewhere(s, j) /\ j # i
    OBVIOUS
  <1> HIDE DEF t
  <1>3. CASE Gone(t, s, "none") \/ Gone(t, s, s.chip)
    BY <1>3, NoMacFound, Untracked DEF Gone, Alike, SameLink, Tracked
  <1>4. CASE /\ ~m.peer /\ i = "po" /\ ~s.up["po"]
             /\ \/ LinkUp(s) /\ Sets(t, s, "link", FALSE)
                \/ ~LinkUp(s) /\ Sets(t, s, s.chip, s.inherited)
             /\ t.mac.found /\ t.mac.ifname = "link" /\ t.mac.origin = m.origin
    <2>1. m.origin = "po"
      BY <1>1, <1>4
    <2>2. s.state = "EXCHANGE" /\ ~LinkUp(s) => ~s.up["link"]
      BY DEF Wired, LinkUp
    <2>3. Alike(t, s) /\ (LinkUp(s) => t.chip = "link")
      BY <1>4 DEF Sets
    <2> QED BY <1>0, <1>4, <2>1, <2>2, <2>3
            DEF Alike, SameLink, Good, EthLearnt, LinkInstalled, Elsewhere, Tracked
  <1>5. CASE /\ ~m.peer /\ (i = "po" => s.up["po"])
             /\ \/ s.up[m.ifname] /\ Sets(t, s, m.ifname, FALSE)
                \/ ~s.up[m.ifname] /\ Sets(t, s, s.chip, s.inherited)
             /\ t.mac.found /\ t.mac.ifname = m.ifname /\ t.mac.origin = m.origin
    <2>1. m.ifname = "po"
      BY <1>1, <1>5
    <2>2. Alike(t, s) /\ (t.chip = "po" \/ (~s.up["po"] /\ t.chip = s.chip))
      BY <1>5, <2>1 DEF Sets
    <2> QED BY <1>0, <1>5, <2>1, <2>2
            DEF Alike, SameLink, Good, EthLearnt, LinkInstalled, Elsewhere, Tracked
  <1> QED BY <1>2, <1>3, <1>4, <1>5

LEMMA LearntFine ==
    ASSUME NEW s \in Switch, SwitchInv(s), Good(s), NEW i \in HostPort, NEW y \in Types, y = s.kind
    PROVE  /\ s.mac.found => LET t == LearntKnown(s, i, y)
                 IN  Good(t) /\ SameLink(t, s) /\ \A j \in HostPort : Elsewhere(t, j) => j = i
           /\ ~s.mac.found => LET t == LearntNew(s, i, y)
                 IN  Good(t) /\ SameLink(t, s) /\ \A j \in HostPort : Elsewhere(t, j) => j = i
  <1> DEFINE k == LearntKnown(s, i, y)
             n == LearntNew(s, i, y)
             m == s.mac
             pending == ~s.up[i] /\ i = "po" /\ s.pif = "up"
  <1>0. (\A j \in HostPort : j # "link") /\ i \in {"po", "eth"}
    BY DEF HostPort
  <1>1. ASSUME m.found PROVE Good(k) /\ SameLink(k, s) /\ \A j \in HostPort : Elsewhere(k, j) => j = i
    <2>1. m.type = y
      BY <1>1 DEF SwitchInv, OfKind
    <2>2. /\ pending => Sets(k, s, "link", FALSE) /\ k.mac.ifname = "link"
          /\ ~pending => /\ Alike(k, s) /\ k.mac.ifname = i
                         /\ m.ifname = i /\ m.origin = i => k.mac.peer = m.peer
                         /\ ~(m.ifname = i /\ m.origin = i) => k.mac.peer
      <3>1. LearntKnownTo(k, s, i, y)
        BY LearntKnownIs
      <3> HIDE DEF k
      <3> QED BY <2>1, <3>1 DEF LearntKnownTo, Entry, Sets
    <2>3. k.haslink /\ k.kind = "dynamic" /\ k.mac.ifname = "eth" => k.mac.peer
      <3> HAVE k.haslink /\ k.kind = "dynamic" /\ k.mac.ifname = "eth"
      <3>1. ~pending /\ i = "eth" /\ Alike(k, s)
        BY <2>2
      <3>2. m.ifname = "eth" => m.peer
        BY <1>1, <3>1 DEF Good, EthLearnt, Tracked, Alike
      <3> QED BY <2>2, <3>1, <3>2
    <2> HIDE DEF k
    <2> QED BY <1>0, <2>2, <2>3 DEF Sets, Alike, SameLink, Good, EthLearnt, LinkInstalled, Elsewhere, Tracked
  <1>2. ASSUME ~m.found PROVE Good(n) /\ SameLink(n, s) /\ \A j \in HostPort : Elsewhere(n, j) => j = i
    <2>1. Alike(n, s) /\ (n.mac.found => n.mac.ifname = i /\ n.mac.peer)
      <3>1. LearntNewTo(n, s, i)
        BY LearntNewIs
      <3> HIDE DEF n
      <3> QED BY <1>2, <3>1 DEF LearntNewTo, Entry, Sets
    <2> HIDE DEF n
    <2> QED BY <1>0, <2>1 DEF Alike, SameLink, Good, EthLearnt, LinkInstalled, Elsewhere, Tracked
  <1> QED BY <1>1, <1>2

LEMMA FromSyncdFine ==
    ASSUME NEW s \in Switch, SwitchInv(s), Good(s), Wired(s), NEW n \in Item,
           n.op = "add" => n.type = s.kind
    PROVE  LET t == FromSyncd(s, n)
           IN  /\ Good(t) /\ SameLink(t, s)
               /\ n.op = "add" => \A j \in HostPort : Elsewhere(t, j) => j = n.port
               /\ n.op # "add" => \A j \in HostPort : Elsewhere(t, j) => Elsewhere(s, j) /\ j # n.port
  <1> DEFINE t == FromSyncd(s, n)
             m == s.mac
  <1>0. n.op \in {"add", "del"} /\ n.port \in HostPort /\ n.type \in Types /\ "add" # "del"
    BY DEF Item, Op
  <1>1. /\ n.op = "add" => t = IF m.found THEN LearntKnown(s, n.port, n.type) ELSE LearntNew(s, n.port, n.type)
        /\ n.op = "del" => t = IF ~m.found THEN s ELSE IF m.ifname = "link" THEN AgedOnLink(s)
                               ELSE AgedOnPort(s, n.port)
    BY <1>0 DEF FromSyncd
  <1>2. Kept(t, s)
    BY FromSyncdType
  <1> SUFFICES /\ Good(t) /\ SameLink(t, s)
               /\ n.op = "add" => \A j \in HostPort : Elsewhere(t, j) => j = n.port
               /\ n.op # "add" => \A j \in HostPort : Elsewhere(t, j) => Elsewhere(s, j) /\ j # n.port
    OBVIOUS
  <1> HIDE DEF t
  <1>3. CASE n.op = "add"
    BY <1>0, <1>1, <1>3, LearntFine
  <1>4. CASE n.op = "del" /\ ~m.found
    BY <1>0, <1>1, <1>4 DEF SameLink, Elsewhere, Tracked
  <1>5. CASE n.op = "del" /\ m.found /\ ~s.haslink
    <2>1. Fine(t, s) /\ ~Tracked(t)
      BY <1>2, <1>5, NoLinkFine
    <2> QED BY <1>0, <1>5, <2>1, Untracked DEF Fine
  <1>6. CASE n.op = "del" /\ m.found /\ s.haslink /\ m.ifname = "link"
    BY <1>0, <1>1, <1>6, AgedOnLinkFine
  <1>7. CASE n.op = "del" /\ m.found /\ s.haslink /\ m.ifname # "link"
    <2>1. CASE s.kind = "dynamic"
      BY <1>0, <1>1, <1>7, <2>1, AgedOnPortFine
    <2>2. CASE s.kind # "dynamic"
      <3>1. t = AgedOnPort(s, n.port)
        BY <1>1, <1>7
      <3>2. t.plif = s.plif
        BY <1>0, <1>7, <3>1, AgedOnPortIs DEF AgedOnPortTo, Sets, Gone, Alike
      <3>3. ~Tracked(t) /\ SameLink(t, s)
        BY <1>2, <2>2, <3>2 DEF Tracked, Kept, Same, SameLink
      <3> QED BY <1>7, <1>0, <3>3, Untracked
    <2> QED BY <2>1, <2>2
  <1> QED BY <1>0, <1>3, <1>4, <1>5, <1>6, <1>7

LEMMA PeerAddFine ==
    ASSUME NEW s \in Switch, SwitchInv(s), Good(s), s.haslink, s.plif, s.state = "EXCHANGE",
           s.kind = "dynamic", NEW i \in HostPort, NEW y \in Types
    PROVE  /\ s.mac.found => Fine(PeerAddKnown(s, i), s)
           /\ ~s.mac.found => Fine(PeerAddNew(s, i, y), s)
  <1> DEFINE k == PeerAddKnown(s, i)
             n == PeerAddNew(s, i, y)
             m == s.mac
  <1>0. (\A j \in HostPort : j # "link") /\ i \in {"po", "eth"}
    BY DEF HostPort
  <1>1. ASSUME m.found PROVE Fine(k, s)
    <2>1. m.type # "static"
      BY <1>1 DEF SwitchInv, OfKind
    <2>2. /\ Alike(k, s) /\ k.mac.found
          /\ \/ k.mac.ifname = "po" /\ m.ifname = "po" /\ k.chip = s.chip
             \/ k.mac.ifname = "link" /\ k.chip = "link"
             \/ k.mac.ifname = "po" /\ k.chip = "po"
             \/ k.mac.ifname = "link" /\ m.ifname = "link" /\ k.chip = s.chip
      <3>1. PeerAddKnownTo(k, s, i)
        BY PeerAddKnownIs
      <3> HIDE DEF k
      <3> QED BY <1>1, <2>1, <3>1 DEF PeerAddKnownTo, Sets, Shared, Entry
    <2> HIDE DEF k
    <2> QED BY <1>0, <1>1, <2>2 DEF Fine, Stays, Alike, SameLink, Good, EthLearnt, LinkInstalled, Elsewhere, Tracked
  <1>2. ASSUME ~m.found PROVE Fine(n, s)
    <2>1. /\ Alike(n, s) /\ n.mac.found
          /\ \/ n.mac.ifname = "link" /\ (LinkUp(s) => n.chip = "link")
             \/ n.mac.ifname = "po" /\ n.chip = "po"
      <3>1. PeerAddNewTo(n, s, i)
        BY PeerAddNewIs
      <3> HIDE DEF n
      <3> QED BY <3>1 DEF PeerAddNewTo, Sets, Entry
    <2> HIDE DEF n
    <2> QED BY <1>0, <2>1 DEF Fine, Stays, Alike, SameLink, Good, EthLearnt, LinkInstalled, Elsewhere, Tracked, LinkUp
  <1> QED BY <1>1, <1>2

LEMMA FromPeerFine ==
    ASSUME NEW s \in Switch, SwitchInv(s), Good(s), Wired(s), s.state = "EXCHANGE", NEW x \in Item
    PROVE  Fine(FromPeer(s, x), s)
  <1> DEFINE t == FromPeer(s, x)
             m == s.mac
  <1>0. x.op \in {"add", "del"} /\ x.port \in HostPort /\ x.type \in Types /\ "add" # "del"
    BY DEF Item, Op
  <1>1. t = IF x.op = "add" THEN IF m.found THEN PeerAddKnown(s, x.port) ELSE PeerAddNew(s, x.port, x.type)
            ELSE IF m.found THEN PeerDel(s) ELSE s
    BY <1>0 DEF FromPeer
  <1>2. Kept(t, s)
    BY FromPeerType
  <1> SUFFICES Fine(t, s)
    OBVIOUS
  <1> HIDE DEF t
  <1>3. CASE ~s.haslink
    BY <1>2, <1>3, NoLinkFine
  <1>4. CASE s.haslink /\ s.plif /\ x.op # "add"
    <2>1. CASE ~m.found
      BY <1>1, <1>4, <2>1 DEF Fine, Stays, SameLink
    <2>2. CASE m.found
      <3>1. \/ Gone(t, s, "none")
            \/ /\ Alike(t, s) /\ t.chip = s.chip /\ t.mac.found = m.found /\ t.mac.ifname = m.ifname
               /\ t.mac.origin = m.origin /\ t.mac.peer
        BY <1>1, <1>4, <2>2, PeerDelIs DEF PeerDelTo, Sets, Entry
      <3>2. CASE Gone(t, s, "none")
        BY <3>2, NoMacFound, Untracked DEF Gone, Alike, SameLink, Tracked, Fine, Stays
      <3>3. CASE /\ Alike(t, s) /\ t.chip = s.chip /\ t.mac.found = m.found /\ t.mac.ifname = m.ifname
                 /\ t.mac.origin = m.origin /\ t.mac.peer
        BY <3>3, FineSame DEF Alike, SameLink
      <3> QED BY <3>1, <3>2, <3>3
    <2> QED BY <2>1, <2>2
  <1>5. CASE s.haslink /\ s.plif /\ x.op = "add"
    <2>1. CASE s.kind = "dynamic"
      BY <1>0, <1>1, <1>5, <2>1, PeerAddFine
    <2>2. CASE s.kind # "dynamic"
      <3>1. t.plif = s.plif
        <4>1. PeerAddKnownTo(t, s, x.port) \/ PeerAddNewTo(t, s, x.port)
          BY <1>0, <1>1, <1>5, PeerAddKnownIs, PeerAddNewIs
        <4> QED BY <4>1 DEF PeerAddKnownTo, PeerAddNewTo, Sets, Alike
      <3>2. ~Tracked(t) /\ SameLink(t, s)
        BY <1>2, <2>2, <3>1 DEF Tracked, Kept, Same, SameLink
      <3> QED BY <3>2, Untracked DEF Fine, Stays
    <2> QED BY <2>1, <2>2
  <1> QED BY <1>3, <1>4, <1>5 DEF Wired

LEMMA FromPeersFine ==
    ASSUME NEW s \in Switch, SwitchInv(s), Good(s), Wired(s), s.state = "EXCHANGE",
           NEW items \in Seq(Item), \A l \in 1..Len(items) : items[l].type = s.kind
    PROVE  Fine(FromPeers(s, items), s)
  <1> DEFINE S == {t \in Switch : Kept(t, s) /\ SwitchInv(t) /\ Fine(t, s)}
  <1>1. s \in S
    BY DEF Kept, Same, Fine, Stays, SameLink
  <1>2. ASSUME NEW t \in S, NEW n \in 1..Len(items) PROVE FromPeer(t, items[n]) \in S
    <2>0. items[n] \in Item /\ items[n].type = s.kind
      OBVIOUS
    <2>1. /\ t \in Switch /\ SwitchInv(t) /\ t.state = "EXCHANGE" /\ Good(t) /\ Wired(t)
          /\ t.kind = s.kind
      BY DEF Kept, Same, Fine, SameLink, Wired
    <2>2. Kept(FromPeer(t, items[n]), s)
      BY <2>0, <2>1, FromPeerType, KeptAgain DEF Kept
    <2>3. SwitchInv(FromPeer(t, items[n]))
      BY <2>0, <2>1, FromPeerInv
    <2>4. Fine(FromPeer(t, items[n]), s)
      BY <2>0, <2>1, FromPeerFine, FineAgain
    <2> QED BY <2>2, <2>3, <2>4 DEF Kept
  <1> HIDE DEF S
  <1>3. FromPeers(s, items) \in S
    BY <1>1, <1>2, FromPeersIn
  <1> QED BY <1>3 DEF S

-----------------------------------------------------------------------------
(* The same of interfaces and of the session. *)

(* LinkInstalled, before the port-channel has been looked at. *)
OrphanInstalled(s) ==
    Tracked(s) /\ s.mac.ifname = "link" /\ s.up["link"] /\ s.mac.origin = "eth" => s.chip = "link"

LEMMA StaticFine ==
    ASSUME NEW s, NEW t, s.kind # "dynamic", t.kind = s.kind, SameLink(t, s)
    PROVE  Fine(t, s)
  BY Untracked DEF Fine, Stays, Tracked

LEMMA GoneFine ==
    ASSUME NEW s, NEW t, NEW c, Gone(t, s, c)
    PROVE  Fine(t, s)
  BY NoMacFound, Untracked DEF Fine, Stays, Tracked, Gone, Alike, SameLink

LEMMA PoDownFine ==
    ASSUME NEW s \in Switch, s.haslink, OfKind(s), EthLearnt(s), OrphanInstalled(s), Wired(s)
    PROVE  Fine(PoDown(s), s)
  <1> DEFINE t == PoDown(s)
             m == s.mac
             mine == m.found /\ m.origin = "po"
  <1>0. (\A j \in HostPort : j # "link") /\ m.origin \in {"po", "eth"}
    BY DEF HostPort, Switch, Mac
  <1>1. PoDownTo(t, s)
    BY PoDownIs
  <1> SUFFICES Fine(t, s)
    OBVIOUS
  <1> HIDE DEF t
  <1>2. \/ ~mine /\ Sets(t, s, s.chip, s.inherited) /\ t.mac = m
        \/ Gone(t, s, "none") \/ Gone(t, s, s.chip)
        \/ /\ mine /\ t.mac.ifname = "link" /\ t.mac.origin = "po"
           /\ Alike(t, s) /\ (LinkUp(s) => t.chip = "link")
    BY <1>1 DEF PoDownTo, Entry, Sets
  <1>3. CASE ~mine /\ Sets(t, s, s.chip, s.inherited) /\ t.mac = m
    <2>1. m.found => m.origin = "eth"
      BY <1>0, <1>3
    <2> QED BY <1>3, <2>1 DEF Fine, Stays, Good, Sets, Alike, SameLink, EthLearnt, LinkInstalled,
                              OrphanInstalled, Elsewhere, Tracked
  <1>4. CASE Gone(t, s, "none") \/ Gone(t, s, s.chip)
    BY <1>4, GoneFine
  <1>5. CASE /\ mine /\ t.mac.ifname = "link" /\ t.mac.origin = "po"
             /\ Alike(t, s) /\ (LinkUp(s) => t.chip = "link")
    <2>1. t.state = "EXCHANGE" /\ t.up["link"] => t.chip = "link"
      BY <1>5 DEF Alike, Wired, LinkUp
    <2> QED BY <1>0, <1>5, <2>1 DEF Fine, Stays, Good, Alike, SameLink, EthLearnt, LinkInstalled, Elsewhere
  <1> QED BY <1>2, <1>3, <1>4, <1>5

LEMMA PoUpFine ==
    ASSUME NEW s \in Switch, OfKind(s), OnOrigin(s), EthLearnt(s), OrphanInstalled(s)
    PROVE  Fine(PoUp(s), s)
  <1> DEFINE t == PoUp(s)
             m == s.mac
             mine == m.found /\ m.origin = "po"
  <1>0. (\A j \in HostPort : j # "link") /\ m.origin \in {"po", "eth"}
    BY DEF HostPort, Switch, Mac
  <1>1. PoUpTo(t, s)
    BY PoUpIs
  <1> SUFFICES Fine(t, s)
    OBVIOUS
  <1> HIDE DEF t
  <1>2. CASE s.kind # "dynamic"
    BY <1>1, <1>2, StaticFine DEF PoUpTo, Sets, Gone, Alike, SameLink
  <1>3. CASE s.kind = "dynamic"
    <2>1. \/ (mine => m.ifname # "link") /\ Sets(t, s, s.chip, s.inherited) /\ t.mac = m
          \/ Alike(t, s) /\ t.mac.ifname = "po" /\ t.chip = "po"
          \/ Gone(t, s, "none")
      BY <1>1, <1>3 DEF PoUpTo, Entry, Sets, OfKind
    <2>2. CASE (mine => m.ifname # "link") /\ Sets(t, s, s.chip, s.inherited) /\ t.mac = m
      BY <1>0, <2>2 DEF Fine, Stays, Good, Sets, Alike, SameLink, EthLearnt, LinkInstalled,
                        OrphanInstalled, Elsewhere, Tracked
    <2>3. CASE Alike(t, s) /\ t.mac.ifname = "po" /\ t.chip = "po"
      BY <1>0, <2>3 DEF Fine, Stays, Good, Alike, SameLink, EthLearnt, LinkInstalled, Elsewhere
    <2> QED BY <2>1, <2>2, <2>3, GoneFine
  <1> QED BY <1>2, <1>3

LEMMA PoStateFine ==
    ASSUME NEW s \in Switch, OfKind(s), OnOrigin(s), EthLearnt(s), OrphanInstalled(s), Wired(s)
    PROVE  Fine(PoState(s), s)
  <1>1. CASE ~s.haslink
    BY <1>1, PoStateType, NoLinkFine
  <1>2. CASE s.haslink
    BY <1>2, PoUpFine, PoDownFine DEF PoState
  <1> QED BY <1>1, <1>2

LEMMA ConnectedFine ==
    ASSUME NEW s \in Switch, SwitchInv(s), Good(s), s.haslink => s.plif
    PROVE  Fine(Connected(s), s)
  <1> DEFINE a == [s EXCEPT !.state = "EXCHANGE"]
             b == SyncMac(a)
  <1>1. /\ a \in Switch /\ a.state = "EXCHANGE" /\ a.mac = s.mac /\ a.chip = s.chip
        /\ a.kind = s.kind /\ a.haslink = s.haslink /\ a.plif = s.plif /\ a.up = s.up
        /\ a.detached = s.detached
    BY DEF Switch, State
  <1>2. Connected(s) = PoState(b)
    BY DEF Connected
  <1> HIDE DEF a
  <1>3. /\ b \in Switch /\ b.state = "EXCHANGE" /\ b.chip = s.chip
        /\ b.kind = s.kind /\ b.haslink = s.haslink /\ b.plif = s.plif /\ b.up = s.up
        /\ b.mac.found = s.mac.found /\ b.mac.ifname = s.mac.ifname
        /\ b.mac.origin = s.mac.origin /\ b.mac.peer = s.mac.peer
    <2>1. SyncMacTo(b, a)
      BY <1>1, SyncMacIs
    <2> HIDE DEF b
    <2> QED BY <1>1, <2>1 DEF SyncMacTo, Sets, Alike, Entry
  <1>4. OfKind(b)
    <2>1. b.mac.type = s.mac.type /\ b.detached = s.detached
      BY <1>1 DEF b, SyncMac, Queued, Switch, Mac
    <2>2. b.mac.queued => b.mac.found
      <3>1. b = a \/ (a.mac.found /\ b.mac.found = a.mac.found)
        BY <1>1, SyncMacIs DEF SyncMacTo, Entry
      <3> QED BY <1>1, <3>1 DEF SwitchInv, OfKind
    <2> QED BY <1>3, <2>1, <2>2 DEF SwitchInv, OfKind
  <1> HIDE DEF b
  <1>5. OnOrigin(b) /\ EthLearnt(b) /\ OrphanInstalled(b) /\ Wired(b)
    BY <1>3 DEF SwitchInv, OnOrigin, Good, EthLearnt, LinkInstalled, OrphanInstalled, Wired, Tracked
  <1>6. Fine(PoState(b), b)
    BY <1>3, <1>4, <1>5, PoStateFine
  <1>7. Stays(b, s) /\ SameLink(b, s)
    BY <1>3 DEF Stays, Elsewhere, Tracked, SameLink
  <1> QED BY <1>2, <1>6, <1>7 DEF Fine, Stays, SameLink

LEMMA PeerPoFine ==
    ASSUME NEW s \in Switch, SwitchInv(s), Good(s), NEW up \in BOOLEAN
    PROVE  Fine(PeerPo(s, up), s)
  <1> DEFINE t == PeerPo(s, up)
             m == s.mac
  <1>1. PeerPoTo(t, s)
    BY PeerPoIs
  <1> SUFFICES Fine(t, s)
    OBVIOUS
  <1> HIDE DEF t
  <1>2. t.kind = s.kind /\ SameLink(t, s) /\ t.up = s.up /\ t.state = s.state
    BY <1>1 DEF PeerPoTo, AlikeBut, SameLink
  <1>3. CASE t.mac = m /\ t.chip = s.chip
    BY <1>2, <1>3, FineSame
  <1>4. CASE m.found /\ m.origin = "po" /\ t.chip = m.ifname /\ t.mac.ifname = m.ifname
    <2>1. m.ifname # "eth"
      BY <1>4 DEF SwitchInv, OnOrigin
    <2> QED BY <1>2, <1>4, <2>1 DEF Fine, Stays, Good, EthLearnt, LinkInstalled, Elsewhere
  <1> QED BY <1>1, <1>3, <1>4 DEF PeerPoTo, Entry

LEMMA StageFine ==
    ASSUME NEW s \in Switch, Good(s), NEW x \in State, x # "EXCHANGE"
    PROVE  Fine([s EXCEPT !.state = x], s)
  <1> DEFINE t == [s EXCEPT !.state = x]
  <1>1. t.state = x /\ t.mac = s.mac /\ t.chip = s.chip /\ t.kind = s.kind /\ t.up = s.up /\ SameLink(t, s)
    BY DEF Switch, SameLink
  <1> HIDE DEF t
  <1>2. Fine(t, s)
    BY <1>1, FineSame
  <1> QED BY <1>2 DEF t

LEMMA InformedFine ==
    ASSUME NEW p \in Peer, NEW s \in Switch, SwitchInv(s), Good(s), s.haslink => s.plif
    PROVE  Fine(Informed(p, s), s)
  <1> DEFINE u == [s EXCEPT !.changed = FALSE]
  <1>1. /\ u.mac = s.mac /\ u.chip = s.chip /\ u.kind = s.kind /\ u.up = s.up /\ SameLink(u, s)
        /\ u.state = s.state
    BY DEF Switch, SameLink
  <1>2. Kept(u, s) /\ With(u, s, s.mac, s.chip, s.inherited)
    BY FieldType, FieldIs
  <1>3. Informed(p, s) = IF p = Active THEN [u EXCEPT !.state = "STAGE2"] ELSE Connected(u)
    BY DEF Informed
  <1> HIDE DEF u
  <1>4. u \in Switch /\ SwitchInv(u) /\ Fine(u, s)
    BY <1>1, <1>2, SameInv, FineSame DEF Kept
  <1>5. Fine([u EXCEPT !.state = "STAGE2"], u) /\ Fine(Connected(u), u)
    BY <1>4, StageFine, ConnectedFine DEF Fine, SameLink, State
  <1> QED BY <1>3, <1>4, <1>5, FineAgain

LEMMA ReceivedFine ==
    ASSUME NEW p \in Peer, NEW s \in Switch, SwitchInv(s), Good(s), s.haslink => s.plif, NEW m \in Msg,
           m.type = "MAC" => /\ s.state = "EXCHANGE"
                             /\ \A l \in 1..Len(m.items) : m.items[l].type = s.kind
    PROVE  Fine(Received(p, s, m), s)
  <1> DEFINE u == PeerPo(s, m.up)
  <1>1. /\ m.type \in {"INFO", "STATE", "MAC", "WARM"}
        /\ m.type \in {"INFO", "STATE"} => m.up \in BOOLEAN
        /\ m.type = "MAC" => m.items \in Seq(Item)
    BY DEF Msg
  <1>2. m.type \in {"INFO", "STATE"} => Kept(u, s) /\ u \in Switch /\ SwitchInv(u) /\ Fine(u, s)
    BY <1>1, PeerPoType, PeerPoInv, PeerPoFine DEF Kept
  <1> HIDE DEF u
  <1>3. CASE m.type = "INFO"
    <2>1. Received(p, s, m) = IF p = Standby THEN [u EXCEPT !.state = "STAGE2"] ELSE Connected(u)
      BY <1>3 DEF Received, u
    <2>2. u \in Switch /\ SwitchInv(u) /\ Fine(u, s) /\ Good(u) /\ (u.haslink => u.plif)
      BY <1>2, <1>3 DEF Fine, SameLink
    <2>3. Fine([u EXCEPT !.state = "STAGE2"], u) /\ Fine(Connected(u), u)
      BY <2>2, StageFine, ConnectedFine DEF State
    <2> QED BY <2>1, <2>2, <2>3, FineAgain
  <1>4. CASE m.type = "STATE"
    BY <1>2, <1>4 DEF Received, u
  <1>5. CASE m.type = "MAC"
    <2>1. Received(p, s, m) = FromPeers(s, m.items)
      BY <1>5 DEF Received
    <2> QED BY <1>1, <1>5, <2>1, FromPeersFine DEF Wired
  <1>6. CASE m.type = "WARM"
    <2> DEFINE w == [s EXCEPT !.warm = TRUE]
    <2>1. Received(p, s, m) = w
      BY <1>6 DEF Received, PeerWarm
    <2>2. /\ w.mac = s.mac /\ w.chip = s.chip /\ w.kind = s.kind /\ w.up = s.up /\ SameLink(w, s)
          /\ w.state = s.state
      BY DEF Switch, SameLink
    <2> HIDE DEF w
    <2> QED BY <2>1, <2>2, FineSame
  <1> QED BY <1>1, <1>3, <1>4, <1>5, <1>6

LEMMA FlushedIs ==
    ASSUME NEW s \in Switch
    PROVE  LET t == Flushed(s)
               m == s.mac
           IN  /\ Alike(t, s) /\ t.chip = s.chip /\ t.inherited = s.inherited
               /\ t.detached = <<>> /\ ~t.changed
               /\ Entry(t, m.found, m.ifname, m.origin, m.local, m.peer, m.pend, m.synced, m.op, FALSE)
  <1> DEFINE t == Flushed(s)
             r == [s.mac EXCEPT !.queued = FALSE]
  <1>1. t \in Switch
    BY FlushedType DEF Kept
  <1>2. /\ t.kind = s.kind /\ t.haslink = s.haslink /\ t.state = s.state /\ t.up = s.up
        /\ t.plif = s.plif /\ t.pif = s.pif /\ t.warm = s.warm /\ t.chip = s.chip
        /\ t.inherited = s.inherited /\ t.detached = <<>> /\ t.changed = FALSE /\ t.mac = r
    BY DEF Flushed, Switch
  <1>3. /\ r.found = s.mac.found /\ r.ifname = s.mac.ifname /\ r.origin = s.mac.origin /\ r.local = s.mac.local
        /\ r.peer = s.mac.peer /\ r.pend = s.mac.pend /\ r.synced = s.mac.synced /\ r.op = s.mac.op
        /\ r.queued = FALSE
    BY DEF Switch, Mac
  <1> HIDE DEF r, t
  <1>4. /\ Alike(t, s) /\ t.chip = s.chip /\ t.inherited = s.inherited /\ t.detached = <<>> /\ ~t.changed
        /\ LET m == s.mac
           IN  Entry(t, m.found, m.ifname, m.origin, m.local, m.peer, m.pend, m.synced, m.op, FALSE)
    BY <1>1, <1>2, <1>3 DEF Alike, Entry
  <1> QED BY <1>4 DEF t

LEMMA FlushedFine ==
    ASSUME NEW s \in Switch, Good(s)
    PROVE  Fine(Flushed(s), s)
  BY FlushedIs, FineSame DEF Alike, Entry, SameLink

LEMMA DisconnectedFine ==
    ASSUME NEW s \in Switch, Good(s)
    PROVE  LET t == Disconnected(s) IN Good(t) /\ Stays(t, s)
  <1> DEFINE t == Disconnected(s)
             u == IF s.warm THEN s ELSE FdbDisconnected(s)
             m == s.mac
             f == FdbDisconnected(s)
  <1>1. DisconnectedTo(t, s)
    BY DisconnectedIs
  <1> SUFFICES Good(t) /\ Stays(t, s)
    OBVIOUS
  <1>2. FdbDisconnectedTo(f, s)
    BY FdbDisconnectedIs
  <1> HIDE DEF t
  <1>3. /\ t.kind = s.kind /\ t.haslink = s.haslink /\ t.up = s.up /\ t.state = "INIT" /\ t.chip = u.chip
        /\ t.mac.found = u.mac.found /\ t.mac.ifname = u.mac.ifname /\ t.mac.origin = u.mac.origin
        /\ t.mac.peer = u.mac.peer
    BY <1>1 DEF DisconnectedTo, Entry
  <1> HIDE DEF f
  <1>4. \/ /\ t.mac.found = m.found /\ t.mac.ifname = m.ifname /\ t.mac.origin = m.origin
           /\ (m.peer => t.mac.peer) /\ t.chip = s.chip
        \/ ~t.mac.found
        \/ m.ifname # "link" /\ t.chip = m.ifname /\ t.mac.ifname = m.ifname /\ t.mac.peer
    BY <1>2, <1>3, NoMacFound DEF FdbDisconnectedTo, Entry, f
  <1> HIDE DEF u
  <1> QED BY <1>3, <1>4 DEF Good, Stays, EthLearnt, LinkInstalled, Elsewhere, Tracked

LEMMA TimerExpiredFine ==
    ASSUME NEW s \in Switch, OfKind(s), Good(s)
    PROVE  Fine(TimerExpired(s), s)
  <1> DEFINE t == TimerExpired(s)
  <1>1. TimerExpiredTo(t, s)
    BY TimerExpiredIs
  <1> SUFFICES Fine(t, s)
    OBVIOUS
  <1> HIDE DEF t
  <1>2. CASE s.kind # "dynamic"
    BY <1>1, <1>2, StaticFine DEF TimerExpiredTo, Sets, Gone, Alike, SameLink
  <1>3. CASE s.kind = "dynamic"
    <2>1. (Sets(t, s, s.chip, s.inherited) /\ t.mac = s.mac) \/ Gone(t, s, "none")
      BY <1>1, <1>3 DEF TimerExpiredTo, OfKind
    <2> QED BY <2>1, FineSame, GoneFine DEF Sets, Alike, SameLink
  <1> QED BY <1>2, <1>3

LEMMA ToggledIs ==
    ASSUME NEW s \in Switch, NEW i \in Port
    PROVE  LET t == Toggled(s, i)
           IN  /\ t \in Switch /\ t.kind = s.kind /\ t.haslink = s.haslink /\ t.state = s.state
               /\ t.plif = s.plif /\ t.pif = s.pif /\ t.warm = s.warm /\ t.mac = s.mac /\ t.chip = s.chip
               /\ t.inherited = s.inherited /\ t.detached = s.detached
               /\ \A j \in Port : t.up[j] = IF j = i THEN ~s.up[i] ELSE s.up[j]
  BY DEF Toggled, Switch

LEMMA PoLinkFine ==
    ASSUME NEW s \in Switch, SwitchInv(s), Good(s), Wired(s)
    PROVE  Fine(PoState([Toggled(s, "po") EXCEPT !.changed = TRUE]), s)
  <1> DEFINE a == Toggled(s, "po")
             b == [a EXCEPT !.changed = TRUE]
  <1>0. {"po", "link"} \subseteq Port
    BY DEF Port
  <1>1. /\ a \in Switch /\ a.kind = s.kind /\ a.haslink = s.haslink /\ a.state = s.state
        /\ a.plif = s.plif /\ a.mac = s.mac /\ a.chip = s.chip /\ a.detached = s.detached
        /\ a.up["link"] = s.up["link"]
    BY <1>0, ToggledIs
  <1> HIDE DEF a
  <1>2. /\ b \in Switch /\ b.kind = s.kind /\ b.haslink = s.haslink /\ b.state = s.state
        /\ b.plif = s.plif /\ b.mac = s.mac /\ b.chip = s.chip /\ b.detached = s.detached
        /\ b.up["link"] = s.up["link"]
    BY <1>1 DEF Switch
  <1> HIDE DEF b
  <1>3. OfKind(b) /\ OnOrigin(b) /\ EthLearnt(b) /\ OrphanInstalled(b) /\ Wired(b)
    BY <1>2 DEF SwitchInv, OfKind, OnOrigin, Good, EthLearnt, LinkInstalled, OrphanInstalled, Wired, Tracked
  <1>4. Fine(PoState(b), b)
    BY <1>2, <1>3, PoStateFine
  <1>5. Stays(b, s) /\ SameLink(b, s)
    BY <1>2 DEF Stays, Elsewhere, Tracked, SameLink
  <1>6. Fine(PoState(b), s)
    BY <1>4, <1>5 DEF Fine, Stays, SameLink
  <1> QED BY <1>6 DEF b, a

LEMMA EthLinkFine ==
    ASSUME NEW s \in Switch, Good(s)
    PROVE  LET a == Toggled(s, "eth") IN Fine(a, s) /\ Fine(OrphanUp(a), s)
  <1> DEFINE a == Toggled(s, "eth")
             b == OrphanUp(a)
  <1>0. {"eth", "link"} \subseteq Port
    BY DEF Port
  <1>1. /\ a \in Switch /\ a.kind = s.kind /\ a.haslink = s.haslink /\ a.state = s.state
        /\ a.plif = s.plif /\ a.mac = s.mac /\ a.chip = s.chip
        /\ a.up["link"] = s.up["link"]
    BY <1>0, ToggledIs
  <1> HIDE DEF a
  <1>2. /\ b.kind = s.kind /\ b.haslink = s.haslink /\ b.state = s.state
        /\ b.plif = s.plif /\ b.chip = s.chip /\ b.up["link"] = s.up["link"]
        /\ b.mac.found = s.mac.found /\ b.mac.ifname = s.mac.ifname
        /\ b.mac.origin = s.mac.origin /\ b.mac.peer = s.mac.peer
    <2>1. OrphanUpTo(b, a)
      BY <1>1, OrphanUpIs
    <2> HIDE DEF b
    <2> QED BY <1>1, <2>1 DEF OrphanUpTo, Sets, Alike, Entry
  <1> HIDE DEF b
  <1>3. Fine(a, s) /\ Fine(b, s)
    BY <1>1, <1>2 DEF Fine, Stays, Good, EthLearnt, LinkInstalled, Elsewhere, Tracked, SameLink
  <1> QED BY <1>3 DEF b, a

LEMMA PeerLinkFine ==
    ASSUME NEW s \in Switch, Good(s)
    PROVE  LET a == Toggled(s, "link")
           IN  /\ s.up["link"] => Fine(PeerLinkDown(a), s)
               /\ ~s.up["link"] => Fine(PeerLinkUp(a), s)
  <1> DEFINE a == Toggled(s, "link")
             d == PeerLinkDown(a)
             u == PeerLinkUp(a)
             m == s.mac
  <1>0. "link" \in Port /\ \A i \in HostPort : i # "link"
    BY DEF Port, HostPort
  <1>1. /\ a \in Switch /\ a.kind = s.kind /\ a.haslink = s.haslink /\ a.state = s.state
        /\ a.plif = s.plif /\ a.mac = m /\ a.chip = s.chip
        /\ a.up["link"] = ~s.up["link"]
    BY <1>0, ToggledIs
  <1> HIDE DEF a
  <1>2. EthLearnt(a) /\ Stays(a, s) /\ SameLink(a, s)
    BY <1>1 DEF Good, EthLearnt, Stays, Elsewhere, Tracked, SameLink
  <1>3. \/ d = a
        \/ Gone(d, a, "none")
        \/ Alike(d, a) /\ d.mac.ifname = "link"
    BY <1>1, PeerLinkDownIs DEF PeerLinkDownTo, Sets, Entry
  <1>4. \/ u = a /\ ~(m.found /\ m.ifname = "link")
        \/ Alike(u, a) /\ u.mac.ifname = "link" /\ u.chip = "link"
    BY <1>1, PeerLinkUpIs DEF PeerLinkUpTo, Sets, Entry
  <1> HIDE DEF d, u
  <1>5. ASSUME s.up["link"] PROVE Fine(d, s)
    <2>1. ~a.up["link"]
      BY <1>1, <1>5
    <2>2. CASE d = a
      BY <1>2, <2>1, <2>2 DEF Fine, Good, LinkInstalled
    <2>3. CASE Gone(d, a, "none")
      BY <1>2, <2>3, GoneFine DEF Fine, Stays, SameLink
    <2>4. CASE Alike(d, a) /\ d.mac.ifname = "link"
      BY <1>0, <1>2, <2>1, <2>4 DEF Fine, Good, Stays, EthLearnt, LinkInstalled, Elsewhere, SameLink, Alike
    <2> QED BY <1>3, <2>2, <2>3, <2>4
  <1>6. ASSUME ~s.up["link"] PROVE Fine(u, s)
    <2>1. CASE u = a /\ ~(m.found /\ m.ifname = "link")
      BY <1>1, <1>2, <2>1 DEF Fine, Good, LinkInstalled, Tracked
    <2>2. CASE Alike(u, a) /\ u.mac.ifname = "link" /\ u.chip = "link"
      BY <1>0, <1>2, <2>2 DEF Fine, Good, Stays, EthLearnt, LinkInstalled, Elsewhere, SameLink, Alike
    <2> QED BY <1>4, <2>1, <2>2
  <1> QED BY <1>5, <1>6 DEF d, u, a

-----------------------------------------------------------------------------
(* Notifications *)

Followed(s, c, l) ==
    /\ \A i \in HostPort : Elsewhere(s, i) => l = i \/ \E n \in 1..Len(c) : Mends(c, n, i)
    /\ \A n \in 1..Len(c) : c[n].op = "add" =>
          l = c[n].port \/ \E k \in n + 1..Len(c) : Mends(c, k, c[n].port)

LEMMA FollowedFine ==
    ASSUME NEW s, NEW t, NEW c, NEW l, Followed(s, c, l), Stays(t, s)
    PROVE  Followed(t, c, l)
  BY DEF Followed, Stays

(* Another deletion, by which the hardware may have lost the address. *)
LEMMA FollowedDel ==
    ASSUME NEW s, NEW c \in Seq(Item), NEW l, NEW k, Followed(s, c, l),
           NEW x \in Item, x.op # "add", k = l \/ x.port = l
    PROVE  Followed(s, Append(c, x), k)
  <1> DEFINE d == Append(c, x)
  <1>1. /\ Len(c) \in Nat /\ Len(d) = Len(c) + 1 /\ d[Len(c) + 1] = x
        /\ \A n \in 1..Len(c) : d[n] = c[n]
    OBVIOUS
  <1> HIDE DEF d
  <1>2. \A n \in 1..Len(c) : n \in 1..Len(d)
    BY <1>1
  <1>3. Len(c) + 1 \in 1..Len(d) /\ \A i : x.port = i => Mends(d, Len(c) + 1, i)
    BY <1>1 DEF Mends
  <1>4. \A n \in 1..Len(c) : \A i : Mends(c, n, i) => Mends(d, n, i)
    BY <1>1 DEF Mends
  <1>5. ASSUME NEW i \in HostPort, Elsewhere(s, i)
        PROVE  k = i \/ \E n \in 1..Len(d) : Mends(d, n, i)
    BY <1>2, <1>3, <1>4, <1>5 DEF Followed
  <1>6. ASSUME NEW n \in 1..Len(d), d[n].op = "add"
        PROVE  k = d[n].port \/ \E h \in n + 1..Len(d) : Mends(d, h, d[n].port)
    <2>1. n \in 1..Len(c) /\ d[n] = c[n] /\ n \in Nat
      BY <1>1, <1>6
    <2>2. Len(c) + 1 \in n + 1..Len(d)
      BY <1>1, <2>1
    <2>3. \A h \in n + 1..Len(c) : h \in 1..Len(c) /\ h \in n + 1..Len(d)
      BY <1>1, <2>1
    <2>4. l = c[n].port \/ \E h \in n + 1..Len(c) : Mends(c, h, c[n].port)
      BY <1>6, <2>1 DEF Followed
    <2> QED BY <1>3, <1>4, <2>1, <2>2, <2>3, <2>4
  <1> QED BY <1>5, <1>6 DEF d, Followed

(* The hardware learns the address. *)
LEMMA FollowedAdd ==
    ASSUME NEW s, NEW c \in Seq(Item), NEW x \in Item, x.op = "add"
    PROVE  Followed(s, Append(c, x), x.port)
  <1> DEFINE d == Append(c, x)
  <1>1. /\ Len(c) \in Nat /\ Len(d) = Len(c) + 1 /\ d[Len(c) + 1] = x
        /\ \A n \in 1..Len(c) : d[n] = c[n]
    OBVIOUS
  <1> HIDE DEF d
  <1>2. Len(c) + 1 \in 1..Len(d) /\ \A i : Mends(d, Len(c) + 1, i)
    BY <1>1 DEF Mends
  <1>3. ASSUME NEW n \in 1..Len(d)
        PROVE  x.port = d[n].port \/ \E h \in n + 1..Len(d) : Mends(d, h, d[n].port)
    <2>1. n = Len(c) + 1 \/ Len(c) + 1 \in n + 1..Len(d)
      BY <1>1
    <2> QED BY <1>1, <1>2, <2>1
  <1> QED BY <1>2, <1>3 DEF d, Followed

(* iccpd handles a notification. *)
LEMMA FollowedTail ==
    ASSUME NEW s, NEW t, NEW c \in Seq(Item), c # <<>>, NEW l, Followed(s, c, l),
           c[1].op = "add" => \A j \in HostPort : Elsewhere(t, j) => j = c[1].port,
           c[1].op # "add" => \A j \in HostPort : Elsewhere(t, j) => Elsewhere(s, j) /\ j # c[1].port
    PROVE  Followed(t, Tail(c), l)
  <1> DEFINE d == Tail(c)
  <1>1. /\ Len(c) \in Nat /\ Len(c) >= 1 /\ Len(d) = Len(c) - 1
        /\ \A n \in 1..Len(c) - 1 : d[n] = c[n + 1]
    OBVIOUS
  <1> HIDE DEF d
  <1>2. \A n \in 1..Len(d) : n + 1 \in 1..Len(c) /\ d[n] = c[n + 1] /\ n \in Nat
    BY <1>1
  (* A later notification of c is one of d. *)
  <1>3. ASSUME NEW n \in 1..Len(c), NEW k \in n + 1..Len(c), NEW i, Mends(c, k, i)
        PROVE  k - 1 \in 1..Len(d) /\ k - 1 \in n..Len(d) /\ Mends(d, k - 1, i)
    <2>1. k - 1 \in 1..Len(d) /\ k - 1 \in n..Len(d) /\ k = (k - 1) + 1
      BY <1>1
    <2>2. d[k - 1] = c[k]
      BY <1>2, <2>1
    <2> QED BY <1>3, <2>1, <2>2 DEF Mends
  <1>4. 1 \in 1..Len(c)
    BY <1>1
  <1>5. ASSUME NEW i \in HostPort, Elsewhere(t, i)
        PROVE  l = i \/ \E n \in 1..Len(d) : Mends(d, n, i)
    <2>1. CASE c[1].op = "add"
      <3>1. i = c[1].port
        BY <1>5, <2>1
      <3>2. l = c[1].port \/ \E k \in 1 + 1..Len(c) : Mends(c, k, c[1].port)
        BY <1>4, <2>1 DEF Followed
      <3> QED BY <1>3, <1>4, <3>1, <3>2
    <2>2. CASE c[1].op # "add"
      <3>1. Elsewhere(s, i) /\ ~Mends(c, 1, i)
        BY <1>5, <2>2 DEF Mends
      <3>2. l = i \/ \E n \in 1..Len(c) : Mends(c, n, i)
        BY <3>1 DEF Followed
      <3>3. \A n \in 1..Len(c) : n = 1 \/ n \in 1 + 1..Len(c)
        BY <1>1
      <3> QED BY <1>3, <1>4, <3>1, <3>2, <3>3
    <2> QED BY <2>1, <2>2
  <1>6. ASSUME NEW n \in 1..Len(d), d[n].op = "add"
        PROVE  l = d[n].port \/ \E h \in n + 1..Len(d) : Mends(d, h, d[n].port)
    <2>1. n + 1 \in 1..Len(c) /\ d[n] = c[n + 1]
      BY <1>2
    <2>2. l = c[n + 1].port \/ \E k \in n + 1 + 1..Len(c) : Mends(c, k, c[n + 1].port)
      BY <1>6, <2>1 DEF Followed
    <2> QED BY <1>3, <2>1, <2>2
  <1> QED BY <1>5, <1>6 DEF d, Followed

-----------------------------------------------------------------------------
(* ChipInv and its steps *)

Placed(s, c, l, j) == Good(s) /\ Followed(s, c, l) /\ (j /\ s.haslink => s.plif)

LEMMA ChipInvIs ==
    /\ ChipInv => \A p \in Peer : Placed(sw[p], note[p], learnt[p], joined[p])
    /\ (\A p \in Peer : Placed(sw[p], note[p], learnt[p], joined[p])) => ChipInv
  BY DEF ChipInv, Placed, Good, Followed, PortInstalled, NotesFollow

LEMMA ChipInvNext ==
    ASSUME \A p \in Peer : Placed(sw'[p], note'[p], learnt'[p], joined'[p])
    PROVE  ChipInv'
  BY DEF ChipInv, Placed, Good, Followed, PortInstalled, NotesFollow, EthLearnt, LinkInstalled,
         Elsewhere, Tracked, Mends

ChipOK == MacOK /\ ChipInv

LEMMA ChipFacts ==
    ASSUME ChipOK, NEW p \in Peer
    PROVE  /\ MacOK /\ Good(sw[p]) /\ Followed(sw[p], note[p], learnt[p])
           /\ joined[p] /\ sw[p].haslink => sw[p].plif
           /\ Wired(sw[p])
  <1>1. MacOK /\ Placed(sw[p], note[p], learnt[p], joined[p])
    BY ChipInvIs DEF ChipOK
  <1>2. sw[p].state = "EXCHANGE" => joined[p]
    BY <1>1, Facts DEF StageFits
  <1> QED BY <1>1, <1>2 DEF Placed, Wired

(* A step of p. *)
LEMMA ChipStep ==
    ASSUME ChipOK, NEW p \in Peer, NEW t, sw' = [sw EXCEPT ![p] = t],
           Placed(t, note'[p], learnt'[p], joined'[p]),
           \A q \in Peer : q # p => note'[q] = note[q] /\ learnt'[q] = learnt[q] /\ joined'[q] = joined[q]
    PROVE  ChipInv'
  <1>1. sw \in [Peer -> Switch]
    BY DEF ChipOK, MacOK, TypeOK
  <1>2. ASSUME NEW q \in Peer PROVE Placed(sw'[q], note'[q], learnt'[q], joined'[q])
    <2>1. CASE q = p
      BY <1>1, <2>1
    <2>2. CASE q # p
      <3>1. sw'[q] = sw[q]
        BY <1>1, <2>2
      <3> QED BY <2>2, <3>1, ChipInvIs DEF ChipOK
    <2> QED BY <2>1, <2>2
  <1> QED BY <1>2, ChipInvNext

LEMMA ChipQuiet ==
    ASSUME ChipOK, NEW p \in Peer, NEW t, sw' = [sw EXCEPT ![p] = t], Fine(t, sw[p]),
           note' = note, learnt' = learnt, joined' = joined
    PROVE  ChipInv'
  <1>1. Placed(t, note'[p], learnt'[p], joined'[p])
    BY ChipFacts, FollowedFine DEF Placed, Fine, SameLink
  <1> QED BY <1>1, ChipStep

LEMMA ChipTurns ==
    ASSUME ChipOK, NEW p \in Peer, SendInfo(p) \/ Receive(p) \/ Flush(p)
    PROVE  ChipInv'
  <1> DEFINE s == sw[p]
  <1>0. /\ MacOK /\ joined[p] /\ note' = note /\ learnt' = learnt /\ joined' = joined
    BY ChipFacts DEF SendInfo, Receive, Flush
  <1>1. s \in Switch /\ SwitchInv(s) /\ Good(s) /\ (s.haslink => s.plif)
    BY <1>0, Facts, ChipFacts
  <1>2. ASSUME NEW u \in Switch, Fine(u, s) PROVE Fine(Flushed(u), s)
    <2>1. Good(u)
      BY <1>2 DEF Fine
    <2> QED BY <1>2, <2>1, FlushedFine, FineAgain
  <1>3. CASE SendInfo(p)
    <2> DEFINE u == Informed(p, s)
               t == IF u.state = "EXCHANGE" THEN Flushed(u) ELSE u
    <2>1. sw' = [sw EXCEPT ![p] = t]
      BY <1>3 DEF SendInfo
    <2>2. Fine(u, s) /\ u \in Switch
      BY <1>1, InformedFine, InformedIs DEF Moved
    <2> HIDE DEF u
    <2>3. Fine(t, s)
      BY <1>2, <2>2
    <2> HIDE DEF t
    <2> QED BY <1>0, <2>1, <2>3, ChipQuiet
  <1>4. CASE Receive(p)
    <2> DEFINE m == Head(ch[p])
               u == Received(p, s, m)
               t == IF u.state = "EXCHANGE" THEN Flushed(u) ELSE u
    <2>1. sw' = [sw EXCEPT ![p] = t]
      BY <1>4 DEF Receive
    <2>2. /\ m \in Msg
          /\ m.type = "MAC" => /\ s.state = "EXCHANGE"
                               /\ \A l \in 1..Len(m.items) : m.items[l].type = s.kind
      BY <1>0, <1>4, HeadIs
    <2> HIDE DEF m
    <2>3. Fine(u, s) /\ u \in Switch
      BY <1>1, <2>2, ReceivedFine, ReceivedIs DEF Moved
    <2> HIDE DEF u
    <2>4. Fine(t, s)
      BY <1>2, <2>3
    <2> HIDE DEF t
    <2> QED BY <1>0, <2>1, <2>4, ChipQuiet
  <1>5. CASE Flush(p)
    <2>1. sw' = [sw EXCEPT ![p] = Flushed(s)]
      BY <1>5 DEF Flush
    <2> QED BY <1>0, <1>1, <2>1, FlushedFine, ChipQuiet
  <1> QED BY <1>3, <1>4, <1>5

LEMMA ChipTimers ==
    ASSUME ChipOK, NEW p \in Peer, DownTimer(p) \/ WarmTimer(p) \/ Prepare(p)
    PROVE  ChipInv'
  <1> DEFINE s == sw[p]
             w == [s EXCEPT !.warm = FALSE]
             l == [s EXCEPT !.plif = TRUE]
  <1>0. /\ MacOK /\ note' = note /\ learnt' = learnt /\ joined' = joined
    BY ChipFacts DEF DownTimer, WarmTimer, Prepare
  <1>1. s \in Switch /\ SwitchInv(s) /\ Good(s)
    BY <1>0, Facts, ChipFacts
  <1>2. CASE DownTimer(p)
    <2>1. sw' = [sw EXCEPT ![p] = TimerExpired(s)]
      BY <1>2 DEF DownTimer
    <2> QED BY <1>0, <1>1, <2>1, TimerExpiredFine, ChipQuiet DEF SwitchInv
  <1>3. CASE WarmTimer(p)
    <2>1. sw' = [sw EXCEPT ![p] = w]
      BY <1>3 DEF WarmTimer
    <2>2. /\ w.mac = s.mac /\ w.chip = s.chip /\ w.kind = s.kind /\ w.up = s.up /\ SameLink(w, s)
          /\ w.state = s.state
      BY <1>1 DEF Switch, SameLink
    <2> HIDE DEF w
    <2>3. Fine(w, s)
      BY <1>1, <2>2, FineSame
    <2> QED BY <1>0, <2>1, <2>3, ChipQuiet
  <1>4. CASE Prepare(p)
    <2>1. sw' = [sw EXCEPT ![p] = l]
      BY <1>4 DEF Prepare
    <2>2. /\ l.mac = s.mac /\ l.chip = s.chip /\ l.kind = s.kind /\ l.up = s.up /\ l.haslink = s.haslink
          /\ l.state = s.state /\ l.plif
      BY <1>1 DEF Switch
    <2> HIDE DEF l
    <2>3. Good(l) /\ Stays(l, s)
      BY <1>1, <2>2 DEF Good, EthLearnt, LinkInstalled, Stays, Elsewhere, Tracked
    <2>4. Placed(l, note'[p], learnt'[p], joined'[p])
      BY <1>0, <2>2, <2>3, ChipFacts, FollowedFine DEF Placed
    <2> QED BY <1>0, <2>1, <2>4, ChipStep
  <1> QED BY <1>2, <1>3, <1>4

LEMMA ChipSyncd ==
    ASSUME ChipOK, NEW p \in Peer, Syncd(p)
    PROVE  ChipInv'
  <1> DEFINE s == sw[p]
             n == Head(note[p])
             t == FromSyncd(s, n)
             c == Tail(note[p])
  <1>0. /\ MacOK /\ learnt' = learnt /\ joined' = joined /\ note[p] # <<>>
        /\ sw' = [sw EXCEPT ![p] = t] /\ note' = [note EXCEPT ![p] = c]
    BY ChipFacts DEF Syncd
  <1>1. /\ s \in Switch /\ SwitchInv(s) /\ note[p] \in Seq(Item) /\ NoteTold(note[p], s.kind)
        /\ Good(s) /\ Wired(s) /\ Followed(s, note[p], learnt[p]) /\ (joined[p] /\ s.haslink => s.plif)
    BY <1>0, Facts, ChipFacts
  <1>2. n \in Item /\ n = note[p][1] /\ (n.op = "add" => n.type = s.kind)
    BY <1>0, <1>1 DEF NoteTold
  <1>3. /\ Good(t) /\ SameLink(t, s)
        /\ n.op = "add" => \A j \in HostPort : Elsewhere(t, j) => j = n.port
        /\ n.op # "add" => \A j \in HostPort : Elsewhere(t, j) => Elsewhere(s, j) /\ j # n.port
    BY <1>1, <1>2, FromSyncdFine
  <1> HIDE DEF t, n
  <1>4. Followed(t, c, learnt[p])
    BY <1>0, <1>1, <1>2, <1>3, FollowedTail
  <1>5. note'[p] = c /\ \A q \in Peer : q # p => note'[q] = note[q]
    BY <1>0 DEF MacOK, TypeOK
  <1> HIDE DEF c
  <1>6. Placed(t, note'[p], learnt'[p], joined'[p])
    BY <1>0, <1>1, <1>3, <1>4, <1>5 DEF Placed, SameLink
  <1> QED BY <1>0, <1>5, <1>6, ChipStep

(* The hardware learns, or forgets, the address. *)
LEMMA ChipHardware ==
    ASSUME ChipOK, NEW p \in Peer, (\E i \in HostPort : Learn(p, i)) \/ Age(p) \/ AgeChip(p)
    PROVE  ChipInv'
  <1> DEFINE s == sw[p]
             a == [s EXCEPT !.ageing = FALSE]
  <1>0. /\ MacOK /\ joined' = joined
    BY ChipFacts DEF Learn, Age, AgeChip
  <1>1. /\ s \in Switch /\ note[p] \in Seq(Item) /\ Good(s) /\ Followed(s, note[p], learnt[p])
        /\ (joined[p] /\ s.haslink => s.plif) /\ s.kind \in Types
    BY <1>0, Facts, ChipFacts
  <1>2. /\ learnt \in [Peer -> HostPort \cup {"none"}] /\ note \in [Peer -> Seq(Item)]
        /\ sw \in [Peer -> Switch]
    BY <1>0 DEF MacOK, TypeOK
  <1>3. ASSUME NEW i \in HostPort, Learn(p, i) PROVE ChipInv'
    <2> DEFINE x == [op |-> "add", port |-> i, type |-> s.kind]
    <2>1. /\ learnt' = [learnt EXCEPT ![p] = i] /\ note' = [note EXCEPT ![p] = Append(note[p], x)] /\ sw' = sw
      BY <1>3 DEF Learn
    <2>2. x \in Item /\ x.op = "add" /\ x.port = i
      BY <1>1 DEF Item, Op
    <2> HIDE DEF x
    <2>3. Followed(s, Append(note[p], x), i)
      BY <1>1, <2>2, FollowedAdd
    <2>4. /\ learnt'[p] = i /\ note'[p] = Append(note[p], x)
          /\ \A q \in Peer : q # p => note'[q] = note[q] /\ learnt'[q] = learnt[q]
      BY <1>2, <2>1
    <2>5. sw' = [sw EXCEPT ![p] = s]
      BY <1>2, <2>1
    <2>6. Placed(s, note'[p], learnt'[p], joined'[p])
      BY <1>0, <1>1, <2>3, <2>4 DEF Placed
    <2> QED BY <1>0, <2>4, <2>5, <2>6, ChipStep
  <1>4. CASE Age(p)
    <2> DEFINE x == AgedNote(learnt[p])
    <2>1. /\ learnt' = [learnt EXCEPT ![p] = "none"] /\ note' = [note EXCEPT ![p] = Append(note[p], x)]
          /\ sw' = sw /\ learnt[p] \in HostPort
      BY <1>2, <1>4 DEF Age
    <2>2. x \in Item /\ x.op # "add" /\ x.port = learnt[p]
      BY <1>0, <2>1, AgedNoteIs DEF AgedNote
    <2> HIDE DEF x
    <2>3. Followed(s, Append(note[p], x), "none")
      BY <1>1, <2>2, FollowedDel
    <2>4. /\ learnt'[p] = "none" /\ note'[p] = Append(note[p], x)
          /\ \A q \in Peer : q # p => note'[q] = note[q] /\ learnt'[q] = learnt[q]
      BY <1>2, <2>1
    <2>5. sw' = [sw EXCEPT ![p] = s]
      BY <1>2, <2>1
    <2>6. Placed(s, note'[p], learnt'[p], joined'[p])
      BY <1>0, <1>1, <2>3, <2>4 DEF Placed
    <2> QED BY <1>0, <2>4, <2>5, <2>6, ChipStep
  <1>5. CASE AgeChip(p)
    <2> DEFINE x == AgedNote(s.mac.origin)
    <2>1. /\ learnt' = learnt /\ note' = [note EXCEPT ![p] = Append(note[p], x)]
          /\ sw' = [sw EXCEPT ![p] = a]
      BY <1>5 DEF AgeChip
    <2>2. x \in Item /\ x.op # "add"
      BY <1>0, <1>1, AgedNoteIs DEF Switch, Mac
    <2> HIDE DEF x
    <2>3. /\ a.mac = s.mac /\ a.chip = s.chip /\ a.kind = s.kind /\ a.up = s.up /\ SameLink(a, s)
          /\ a.state = s.state
      BY <1>1 DEF Switch, SameLink
    <2> HIDE DEF a
    <2>4. Fine(a, s)
      BY <1>1, <2>3, FineSame
    <2>5. Followed(a, Append(note[p], x), learnt[p])
      BY <1>1, <2>2, <2>4, FollowedDel, FollowedFine DEF Fine
    <2>6. note'[p] = Append(note[p], x) /\ \A q \in Peer : q # p => note'[q] = note[q]
      BY <1>2, <2>1
    <2>7. Placed(a, note'[p], learnt'[p], joined'[p])
      BY <1>0, <1>1, <2>1, <2>4, <2>5, <2>6 DEF Placed, Fine, SameLink
    <2> QED BY <1>0, <2>1, <2>6, <2>7, ChipStep
  <1> QED BY <1>3, <1>4, <1>5

LEMMA ChipLinks ==
    ASSUME ChipOK, NEW p \in Peer, PoLink(p) \/ EthLink(p) \/ PeerLink(p)
    PROVE  ChipInv'
  <1> DEFINE s == sw[p]
             po == PoState([Toggled(s, "po") EXCEPT !.changed = TRUE])
             eth == Toggled(s, "eth")
             link == Toggled(s, "link")
  <1>0. MacOK /\ joined' = joined
    BY ChipFacts DEF PoLink, EthLink, PeerLink
  <1>1. /\ s \in Switch /\ SwitchInv(s) /\ note[p] \in Seq(Item) /\ Good(s) /\ Wired(s)
        /\ Followed(s, note[p], learnt[p]) /\ (joined[p] /\ s.haslink => s.plif)
    BY <1>0, Facts, ChipFacts
  <1>2. learnt \in [Peer -> HostPort \cup {"none"}] /\ note \in [Peer -> Seq(Item)]
    BY <1>0 DEF MacOK, TypeOK
  <1>3. \E t : Fine(t, s) /\ sw' = [sw EXCEPT ![p] = t]
    <2>1. Fine(po, s) /\ Fine(eth, s) /\ Fine(OrphanUp(eth), s)
      BY <1>1, PoLinkFine, EthLinkFine
    <2>2. /\ s.up["link"] => Fine(PeerLinkDown(link), s)
          /\ ~s.up["link"] => Fine(PeerLinkUp(link), s)
      BY <1>1, PeerLinkFine
    <2>3. PoLink(p) => sw' = [sw EXCEPT ![p] = po]
      BY DEF PoLink
    <2>4. EthLink(p) => sw' = [sw EXCEPT ![p] = eth] \/ sw' = [sw EXCEPT ![p] = OrphanUp(eth)]
      BY DEF EthLink
    <2>5. PeerLink(p) => IF s.up["link"] THEN sw' = [sw EXCEPT ![p] = PeerLinkDown(link)]
                         ELSE sw' = [sw EXCEPT ![p] = PeerLinkUp(link)]
      BY DEF PeerLink
    <2> HIDE DEF po, eth, link
    <2> QED BY <2>1, <2>2, <2>3, <2>4, <2>5
  <1>4. PICK t : Fine(t, s) /\ sw' = [sw EXCEPT ![p] = t]
    BY <1>3
  <1>5. \/ learnt' = learnt /\ note' = note
        \/ \E i \in HostPort : /\ learnt[p] = i /\ learnt' = [learnt EXCEPT ![p] = "none"]
                               /\ note' = [note EXCEPT ![p] = Append(note[p], AgedNote(i))]
    BY DEF PoLink, EthLink, PeerLink, Unlearn, HostPort
  <1>6. CASE learnt' = learnt /\ note' = note
    BY <1>0, <1>4, <1>6, ChipQuiet
  <1>7. ASSUME NEW i \in HostPort, learnt[p] = i, learnt' = [learnt EXCEPT ![p] = "none"],
               note' = [note EXCEPT ![p] = Append(note[p], AgedNote(i))]
        PROVE  ChipInv'
    <2> DEFINE x == AgedNote(i)
    <2>1. x \in Item /\ x.op # "add" /\ x.port = learnt[p]
      BY <1>0, <1>7, AgedNoteIs DEF AgedNote
    <2>2. /\ learnt'[p] = "none" /\ note'[p] = Append(note[p], x)
          /\ \A q \in Peer : q # p => note'[q] = note[q] /\ learnt'[q] = learnt[q]
      BY <1>2, <1>7
    <2> HIDE DEF x
    <2>3. Followed(t, Append(note[p], x), "none")
      BY <1>1, <1>4, <2>1, FollowedDel, FollowedFine DEF Fine
    <2>4. Placed(t, note'[p], learnt'[p], joined'[p])
      BY <1>0, <1>1, <1>4, <2>2, <2>3 DEF Placed, Fine, SameLink
    <2> QED BY <1>0, <1>4, <2>2, <2>4, ChipStep
  <1> QED BY <1>5, <1>6, <1>7

LEMMA ChipSessions ==
    ASSUME ChipOK, Join \/ \E p \in Peer : Leave(p) \/ Restart(p) \/ \E warm \in BOOLEAN : Exit(p, warm)
    PROVE  ChipInv'
  <1>0. /\ MacOK /\ sw \in [Peer -> Switch] /\ joined \in [Peer -> BOOLEAN] /\ note \in [Peer -> Seq(Item)]
        /\ learnt \in [Peer -> HostPort \cup {"none"}]
    BY DEF ChipOK, MacOK, TypeOK
  <1>1. CASE Join
    <2>1. /\ joined' = [p \in Peer |-> TRUE] /\ learnt' = learnt /\ note' = note
          /\ sw' = [p \in Peer |-> [sw[p] EXCEPT !.state = "STAGE1"]]
          /\ \A p \in Peer : sw[p].haslink => sw[p].plif
      BY <1>1 DEF Join
    <2>2. ASSUME NEW p \in Peer PROVE Placed(sw'[p], note'[p], learnt'[p], joined'[p])
      <3> DEFINE t == [sw[p] EXCEPT !.state = "STAGE1"]
      <3>1. sw'[p] = t
        BY <2>1
      <3>2. Fine(t, sw[p])
        BY <1>0, ChipFacts, StageFine DEF State
      <3> HIDE DEF t
      <3> QED BY <2>1, <3>1, <3>2, ChipFacts, FollowedFine DEF Placed, Fine, SameLink
    <2> QED BY <2>2, ChipInvNext
  <1>2. ASSUME NEW p \in Peer, Leave(p) PROVE ChipInv'
    <2> DEFINE t == Disconnected(sw[p])
    <2>1. /\ sw' = [sw EXCEPT ![p] = t] /\ joined' = [joined EXCEPT ![p] = FALSE]
          /\ learnt' = learnt /\ note' = note
      BY <1>2 DEF Leave
    <2>2. Good(t) /\ Stays(t, sw[p])
      BY <1>0, ChipFacts, DisconnectedFine
    <2> HIDE DEF t
    <2>3. ~joined'[p] /\ \A q \in Peer : q # p => joined'[q] = joined[q]
      BY <1>0, <2>1
    <2>4. Placed(t, note'[p], learnt'[p], joined'[p])
      BY <2>1, <2>2, <2>3, ChipFacts, FollowedFine DEF Placed
    <2> QED BY <2>1, <2>3, <2>4, ChipStep
  <1>3. ASSUME NEW p \in Peer, NEW warm \in BOOLEAN, Exit(p, warm) PROVE ChipInv'
    <2> DEFINE s == sw[p]
               t == Fresh(s.chip, s.up, s.haslink, s.kind)
    <2>1. /\ sw' = [sw EXCEPT ![p] = t] /\ joined' = [joined EXCEPT ![p] = FALSE]
          /\ learnt' = learnt /\ note' = [note EXCEPT ![p] = <<>>]
      BY <1>3 DEF Exit
    <2>2. ~Tracked(t)
      BY DEF Tracked, Fresh, NoMac
    <2> HIDE DEF t
    <2>3. /\ ~joined'[p] /\ note'[p] = <<>>
          /\ \A q \in Peer : q # p => joined'[q] = joined[q] /\ note'[q] = note[q]
      BY <1>0, <2>1
    <2>4. Len(note'[p]) = 0
      BY <2>3
    <2>5. Placed(t, note'[p], learnt'[p], joined'[p])
      BY <2>2, <2>3, <2>4, Untracked DEF Placed, Followed
    <2> QED BY <2>1, <2>3, <2>5, ChipStep
  <1>4. ASSUME NEW p \in Peer, Restart(p) PROVE ChipInv'
    <2> DEFINE s == sw[p]
               x == [op |-> "add", port |-> learnt[p], type |-> s.kind]
               c == IF learnt[p] = "none" THEN <<>> ELSE <<x>>
    <2>1. /\ joined' = joined /\ learnt' = learnt /\ sw' = sw /\ note' = [note EXCEPT ![p] = c] /\ ~alive[p]
      BY <1>4 DEF Restart
    <2>2. /\ note[p] = <<>> /\ Len(note[p]) = 0
      BY <1>0, <2>1, Facts
    <2>3. \A i \in HostPort : Elsewhere(s, i) => learnt[p] = i
      <3>1. \A n \in 1..Len(note[p]) : FALSE
        BY <2>2
      <3> QED BY <3>1, ChipFacts DEF Followed
    <2>4. \A n \in 1..Len(c) : c[n].port = learnt[p]
      <3>1. CASE learnt[p] = "none"
        BY <3>1
      <3>2. CASE learnt[p] # "none"
        BY <3>2
      <3> QED BY <3>1, <3>2
    <2> HIDE DEF c
    <2>5. Followed(s, c, learnt[p])
      BY <2>3, <2>4 DEF Followed
    <2>6. note'[p] = c /\ (\A q \in Peer : q # p => note'[q] = note[q]) /\ sw' = [sw EXCEPT ![p] = s]
      BY <1>0, <2>1
    <2>7. Placed(s, note'[p], learnt'[p], joined'[p])
      BY <2>1, <2>5, <2>6, ChipFacts DEF Placed
    <2> QED BY <2>1, <2>6, <2>7, ChipStep
  <1> QED BY <1>1, <1>2, <1>3, <1>4

LEMMA ChipInit == Init => ChipInv
  <1> SUFFICES ASSUME Init PROVE ChipInv
    OBVIOUS
  <1>1. PICK link \in PeerLinks, y \in Types, po \in [Peer -> BOOLEAN] :
           sw = [p \in Peer |-> Fresh("none", [i \in Port |-> i = "po" => po[p]], link, y)]
    BY DEF Init
  <1>2. ASSUME NEW p \in Peer PROVE Placed(sw[p], note[p], learnt[p], joined[p])
    <2>1. ~sw[p].mac.found
      BY <1>1 DEF Fresh, NoMac
    <2>2. note[p] = <<>> /\ ~joined[p]
      BY DEF Init
    <2>3. Len(note[p]) = 0 /\ ~Tracked(sw[p])
      BY <2>1, <2>2 DEF Tracked
    <2> QED BY <2>2, <2>3, Untracked DEF Placed, Followed
  <1> QED BY <1>2, ChipInvIs

LEMMA ChipNext == TypeOK /\ MacInv /\ [Next]_vars => TypeOK' /\ MacInv'
  <1> SUFFICES ASSUME ChipOK, [Next]_vars PROVE TypeOK' /\ MacInv'
    BY DEF ChipOK, MacOK, MacInv
  <1>0. TypeOK' /\ AgesInv'
    BY MacStep DEF ChipOK, MacOK
  <1>1. CASE Join \/ \E p \in Peer : Leave(p) \/ Restart(p) \/ \E warm \in BOOLEAN : Exit(p, warm)
    BY <1>0, <1>1, ChipSessions DEF MacInv
  <1>2. CASE \E p \in Peer : SendInfo(p) \/ Receive(p) \/ Flush(p)
    BY <1>0, <1>2, ChipTurns DEF MacInv
  <1>3. CASE \E p \in Peer : DownTimer(p) \/ WarmTimer(p) \/ Prepare(p)
    BY <1>0, <1>3, ChipTimers DEF MacInv
  <1>4. CASE \E p \in Peer : Syncd(p)
    BY <1>0, <1>4, ChipSyncd DEF MacInv
  <1>5. CASE \E p \in Peer : (\E i \in HostPort : Learn(p, i)) \/ Age(p) \/ AgeChip(p)
    BY <1>0, <1>5, ChipHardware DEF MacInv
  <1>6. CASE \E p \in Peer : PoLink(p) \/ EthLink(p) \/ PeerLink(p)
    BY <1>0, <1>6, ChipLinks DEF MacInv
  <1>7. CASE UNCHANGED vars
    <2>1. \A p \in Peer : Placed(sw'[p], note'[p], learnt'[p], joined'[p])
      BY <1>7, ChipInvIs DEF vars, ChipOK
    <2> QED BY <1>0, <2>1, ChipInvNext DEF MacInv
  <1> QED BY <1>1, <1>2, <1>3, <1>4, <1>5, <1>6, <1>7 DEF Next

(* Whatever the number and the order of events, every entry that iccpd keeps *)
(* is in the chip where the entry says, or learnt there, or a notification   *)
(* that mends it is on its way; and what the chip has for the port-channel   *)
(* belongs to an entry.                                                      *)
THEOREM MacInvariant == Spec => []MacInv
  <1>1. Init => TypeOK /\ MacInv
    BY MacInit, ChipInit DEF MacInv
  <1>2. TypeOK /\ MacInv /\ [Next]_vars => (TypeOK /\ MacInv)'
    BY ChipNext
  <1> QED BY <1>1, <1>2, PTL DEF Spec

(* When iccpd has heard all that the hardware had to tell, no entry is left *)
(* that neither the chip nor the hardware has at the interface it names.    *)
THEOREM AlwaysInstalled == Spec => []Installed
  <1>1. TypeOK /\ MacInv => Installed
    <2> SUFFICES ASSUME TypeOK, MacInv, NEW p \in Peer,
                        Tracked(sw[p]), sw[p].state = "EXCHANGE", note[p] = <<>>,
                        sw[p].mac.ifname = "link" => LinkUp(sw[p])
                 PROVE  sw[p].mac.ifname \in {sw[p].chip, learnt[p]}
      BY DEF Installed
    <2>1. ChipOK
      BY DEF ChipOK, MacOK, MacInv
    <2>2. Good(sw[p]) /\ Followed(sw[p], note[p], learnt[p])
      BY <2>1, ChipFacts
    <2>3. sw[p].mac.ifname \in {"po", "eth", "link"}
      BY DEF TypeOK, Switch, Mac, Port
    <2>4. CASE sw[p].mac.ifname = "link"
      BY <2>2, <2>4 DEF Good, LinkInstalled, LinkUp
    <2>5. CASE sw[p].mac.ifname \in HostPort
      <3>1. Len(note[p]) = 0
        OBVIOUS
      <3>2. \A n \in 1..Len(note[p]) : FALSE
        BY <3>1
      <3> QED BY <2>2, <2>5, <3>2 DEF Followed, Elsewhere
    <2> QED BY <2>3, <2>4, <2>5 DEF HostPort
  <1>2. Spec => [](TypeOK /\ MacInv)
    BY MacTypeCorrect, MacInvariant, PTL
  <1> QED BY <1>1, <1>2, PTL

-----------------------------------------------------------------------------
(* What keeps the two tables in agreement. *)

Right(s) == s.haslink /\ ~s.warm /\ QueueTrue(s) /\ WellPlaced(s)

(* The peer has not aged what s has, as far as s has heard. *)
Heard(s) == s.mac.found /\ ~s.mac.peer

(* What s has said to its peer is true of t, or t has more to say. *)
Tells(t, s) == Silent(t) => Silent(s) /\ (s.state = "EXCHANGE" /\ Knows(s) => Knows(t))

(* The port-channel stays as it is. *)
Stable(t, s) == t \in Switch /\ t.kind = s.kind /\ t.up["po"] = s.up["po"]

(* s becomes t, and the peer can still believe it. *)
Honest(t, s) == Stable(t, s) /\ t.state = s.state /\ Right(t) /\ Tells(t, s)

(* The same without a word of the peer. *)
Local(t, s) == Honest(t, s) /\ (Heard(t) => Heard(s))

LocalToo(t, s) == Local(t, s) /\ (Unset(t) => Unset(s))

(* The parts of SwitchInv that are about the entry alone. *)
Kin(s) == OfKind(s) /\ OnOrigin(s) /\ AgesApart(s) /\ EthLearnt(s)

(* What is queued of t is what was, or it is new and true. *)
Speaks(t, s) ==
    \/ /\ t.mac.queued = s.mac.queued /\ t.mac.op = s.mac.op
       /\ s.state = "EXCHANGE" => (t.mac.local <=> s.mac.local)
    \/ s.state = "EXCHANGE" /\ t.mac.queued /\ (t.mac.op = "add" => ~t.mac.local)

LEMMA SpeaksTrue ==
    ASSUME NEW s \in Switch, NEW t, QueueTrue(s), t.detached = s.detached, t.state = s.state,
           t.mac.found = s.mac.found, Speaks(t, s),
           s.state = "EXCHANGE" \/ (Heard(t) => Heard(s))
    PROVE  QueueTrue(t) /\ Tells(t, s)
  <1>1. CASE s.state = "EXCHANGE"
    BY <1>1 DEF QueueTrue, Tells, Speaks, Silent, Knows, Heard
  <1>2. CASE s.state # "EXCHANGE"
    BY <1>2 DEF QueueTrue, Tells, Speaks, Silent, Knows, Heard
  <1> QED BY <1>1, <1>2

(* Says, of an entry that has just aged, or been learnt. *)
LEMMA SaysSpeaks ==
    ASSUME NEW s \in Switch, NEW t
    PROVE  /\ Says(t, s, ~s.mac.local /\ s.state = "EXCHANGE", "del") /\ t.mac.local => Speaks(t, s)
           /\ Says(t, s, s.mac.local /\ s.state = "EXCHANGE", "add") /\ ~t.mac.local => Speaks(t, s)
  BY DEF Says, Speaks

LEMMA StaticPlaced ==
    ASSUME NEW t, t.kind # "dynamic"
    PROVE  WellPlaced(t) /\ ~Unset(t)
  BY DEF WellPlaced, Unset, Tracked

LEMMA SameLocal ==
    ASSUME NEW s \in Switch, NEW t \in Switch, Right(s), t.mac = s.mac, t.detached = s.detached,
           t.chip = s.chip, t.inherited = s.inherited, t.kind = s.kind, t.haslink = s.haslink,
           t.warm = s.warm, t.state = s.state, t.up["po"] = s.up["po"]
    PROVE  LocalToo(t, s) /\ (Kin(s) => Kin(t))
  <1>1. QueueTrue(t) /\ Tells(t, s)
    BY DEF Right, QueueTrue, Tells, Silent, Knows
  <1>2. WellPlaced(t) /\ (Unset(t) => Unset(s))
    BY DEF Right, WellPlaced, Unset, Tracked, Knows
  <1>3. Kin(s) => Kin(t)
    BY DEF Kin, OfKind, OnOrigin, AgesApart, EthLearnt, BothAged, Tracked
  <1> QED BY <1>1, <1>2, <1>3 DEF LocalToo, Local, Honest, Stable, Right, Heard

LEMMA LocalAgain ==
    ASSUME NEW s, NEW t, NEW u, LocalToo(t, s), LocalToo(u, t)
    PROVE  LocalToo(u, s)
  BY DEF LocalToo, Local, Honest, Stable, Tells

LEMMA GoneLocal ==
    ASSUME NEW s \in Switch, Kin(s), Right(s), NEW t, NEW c, Gone(t, s, c),
           s.kind = "dynamic" /\ c = "link" => s.inherited
    PROVE  LocalToo(t, s) /\ ~Unset(t) /\ ~Heard(t)
  <1>1. Alike(t, s) /\ t.mac = NoMac /\ t.chip = c /\ (c # "none" => t.inherited = s.inherited) /\ Left(t, s)
    BY DEF Gone, Right
  <1>2. ~t.mac.found /\ ~t.mac.queued /\ ~t.mac.pend
    BY <1>1, NoMacFound
  <1>3. s.detached \in Seq(Item) /\ QueueTrue(s)
    BY DEF Switch, Right
  <1>4. QueueTrue(t) /\ Tells(t, s)
    <2>1. CASE ~s.mac.queued /\ t.detached = s.detached /\ Unsaid(s)
      <3>1. s.state = "EXCHANGE" /\ Knows(s) => FALSE
        <4> SUFFICES ASSUME s.state = "EXCHANGE", Knows(s) PROVE FALSE
          OBVIOUS
        <4>1. s.mac.pend /\ s.mac.type # "static" /\ s.mac.type = s.kind /\ s.kind \in Types
          BY <2>1 DEF Unsaid, Knows, Kin, OfKind, Switch
        <4>2. s.kind = "dynamic"
          BY <4>1, OpsAssumption
        <4> QED BY <4>1, <4>2 DEF Right, WellPlaced
      <3> QED BY <1>1, <1>2, <1>3, <2>1, <3>1 DEF QueueTrue, Tells, Silent, Alike
    <2>2. ASSUME s.state = "EXCHANGE", NEW x \in Item, x.op = "del", t.detached = Append(s.detached, x)
          PROVE  QueueTrue(t) /\ Tells(t, s)
      <3>1. /\ Len(t.detached) = Len(s.detached) + 1 /\ Len(s.detached) \in Nat
            /\ \A n \in 1..Len(t.detached) : t.detached[n] = IF n <= Len(s.detached) THEN s.detached[n] ELSE x
        BY <1>3, <2>2
      <3>2. t.detached # <<>>
        BY <3>1
      <3>3. \A n \in 1..Len(t.detached) : t.detached[n].op = "del"
        BY <1>3, <2>2, <3>1 DEF QueueTrue
      <3>4. t.state = "EXCHANGE"
        BY <1>1, <2>2 DEF Alike
      <3> QED BY <1>2, <3>2, <3>3, <3>4 DEF QueueTrue, Tells, Silent
    <2> QED BY <1>1, <2>1, <2>2 DEF Left
  <1>5. WellPlaced(t) /\ ~Unset(t)
    BY <1>1, <1>2 DEF WellPlaced, Unset, Tracked, Alike
  <1> QED BY <1>1, <1>2, <1>4, <1>5 DEF LocalToo, Local, Honest, Stable, Right, Alike, Heard

(* An entry that is changed: what remains is to say where it is. *)
LEMMA SetLocalOK ==
    ASSUME NEW s \in Switch, Right(s), NEW t, NEW c, NEW h, Sets(t, s, c, h),
           t.mac.found = s.mac.found, Speaks(t, s), WellPlaced(t)
    PROVE  /\ (s.state = "EXCHANGE" \/ (Heard(t) => Heard(s))) => Honest(t, s)
           /\ (Heard(t) => Heard(s)) => Local(t, s)
  <1>1. t \in Switch /\ Alike(t, s) /\ t.detached = s.detached /\ QueueTrue(s)
    BY DEF Sets, Alike, Right
  <1>2. t.state = s.state
    BY <1>1 DEF Alike
  <1>3. (s.state = "EXCHANGE" \/ (Heard(t) => Heard(s))) => QueueTrue(t) /\ Tells(t, s)
    BY <1>1, <1>2, SpeaksTrue
  <1> QED BY <1>1, <1>3 DEF Alike, Honest, Local, Stable, Right

-----------------------------------------------------------------------------
(* Agreement, and what mclagsyncd tells. *)

LEMMA AgedOnLinkLocal ==
    ASSUME NEW s \in Switch, Kin(s), Right(s), s.mac.found, s.mac.ifname = "link"
    PROVE  LET t == AgedOnLink(s) IN Local(t, s) /\ ~Unset(t)
  <1> DEFINE t == AgedOnLink(s)
             m == s.mac
  <1>1. AgedOnLinkTo(t, s)
    BY AgedOnLinkIs
  <1> SUFFICES Local(t, s) /\ ~Unset(t)
    OBVIOUS
  <1> HIDE DEF t
  <1>2. CASE m.pend /\ t = s
    <2>1. s.kind # "dynamic"
      BY <1>2 DEF Right, WellPlaced
    <2> QED BY <1>2, <2>1, StaticPlaced, SameLocal DEF LocalToo
  <1>3. CASE m.peer /\ (Gone(t, s, "none") \/ (~m.synced /\ Gone(t, s, s.chip)))
    <2>1. CASE Gone(t, s, "none")
      BY <2>1, GoneLocal DEF LocalToo
    <2>2. CASE ~m.synced /\ Gone(t, s, s.chip)
      <3>1. s.kind # "dynamic"
        <4> SUFFICES ASSUME s.kind = "dynamic" PROVE FALSE
          OBVIOUS
        <4>1. Knows(s) /\ Tracked(s)
          BY <1>3 DEF Kin, AgesApart, BothAged, Knows, Tracked, Right
        <4> QED BY <2>2, <4>1 DEF Right, WellPlaced
      <3> QED BY <2>2, <3>1, GoneLocal DEF LocalToo
    <2> QED BY <1>3, <2>1, <2>2
  <1>4. CASE /\ ~m.pend /\ ~m.peer
             /\ \/ LinkUp(s) /\ Sets(t, s, m.ifname, FALSE)
                \/ ~LinkUp(s) /\ Sets(t, s, s.chip, s.inherited)
             /\ Entry(t, m.found, m.ifname, m.origin, TRUE, m.peer, m.pend, t.mac.synced, t.mac.op, t.mac.queued)
             /\ Says(t, s, ~m.local /\ s.state = "EXCHANGE", "del")
    <2>1. /\ t.mac.found /\ t.mac.ifname = "link" /\ t.mac.origin = m.origin /\ t.mac.local
          /\ ~t.mac.pend /\ t.mac.found = m.found
      BY <1>4 DEF Entry
    <2>2. Alike(t, s)
      BY <1>4 DEF Sets
    <2>3. WellPlaced(t) /\ ~Unset(t)
      BY <2>1, <2>2 DEF WellPlaced, Unset, Knows, Right, Tracked, Alike
    <2>4. Speaks(t, s)
      BY <1>4, <2>1, SaysSpeaks
    <2>5. Heard(t) => Heard(s)
      BY <1>4 DEF Heard
    <2> QED BY <1>4, <2>1, <2>3, <2>4, <2>5, SetLocalOK
  <1> QED BY <1>1, <1>2, <1>3, <1>4 DEF AgedOnLinkTo

LEMMA AgedOnPortLocal ==
    ASSUME NEW s \in Switch, Kin(s), Right(s), s.mac.found, s.mac.ifname # "link", NEW i \in HostPort
    PROVE  LET t == AgedOnPort(s, i) IN Local(t, s) /\ ~Unset(t)
  <1> DEFINE t == AgedOnPort(s, i)
             m == s.mac
  <1>1. AgedOnPortTo(t, s, i)
    BY AgedOnPortIs DEF Right
  <1> SUFFICES Local(t, s) /\ ~Unset(t)
    OBVIOUS
  <1> HIDE DEF t
  <1>2. CASE Gone(t, s, "none") \/ Gone(t, s, s.chip)
    <2>1. s.kind = "dynamic" /\ s.chip = "link" => s.inherited
      BY DEF Right, WellPlaced
    <2> QED BY <1>2, <2>1, GoneLocal DEF LocalToo
  <1>3. CASE ~m.peer /\ Says(t, s, ~m.local /\ s.state = "EXCHANGE", "del")
    <2>1. /\ Sets(t, s, t.chip, t.inherited) /\ Alike(t, s)
          /\ t.mac.found = m.found /\ t.mac.local /\ t.mac.peer = m.peer /\ t.mac.pend = m.pend
      BY <1>1, <1>3 DEF AgedOnPortTo, Sets, Entry, Gone
    <2>2. s.kind = "dynamic" => m.ifname = "po" /\ m.origin = "po" /\ s.up["po"]
      <3> HAVE s.kind = "dynamic"
      <3>1. Tracked(s)
        BY DEF Tracked, Right
      <3>2. m.ifname = "po"
        BY <1>3, <3>1 DEF Kin, EthLearnt, Switch, Mac, Port
      <3>3. m.origin = "po"
        BY <3>2 DEF Kin, OnOrigin
      <3> QED BY <3>1, <3>2, <3>3 DEF Right, WellPlaced
    <2>3. WellPlaced(t) /\ ~Unset(t)
      <3>1. CASE s.kind = "dynamic"
        <4>1. /\ t.mac.ifname = "po" /\ t.mac.origin = "po"
              /\ \/ t.chip = "po"
                 \/ t.chip = s.chip /\ t.inherited = s.inherited
          BY <1>1, <1>3, <2>2, <3>1 DEF AgedOnPortTo, Sets, Entry
        <4> QED BY <2>1, <2>2, <3>1, <4>1 DEF WellPlaced, Unset, Knows, Right, Alike
      <3>2. CASE s.kind # "dynamic"
        BY <2>1, <3>2, StaticPlaced DEF Alike
      <3> QED BY <3>1, <3>2
    <2>4. Speaks(t, s)
      BY <1>3, <2>1, SaysSpeaks
    <2>5. Heard(t) => Heard(s)
      BY <1>3, <2>1 DEF Heard
    <2> QED BY <2>1, <2>3, <2>4, <2>5, SetLocalOK
  <1> QED BY <1>1, <1>2, <1>3 DEF AgedOnPortTo

LEMMA LearntKnownLocal ==
    ASSUME NEW s \in Switch, Kin(s), Right(s), s.mac.found, NEW i \in HostPort, NEW y \in Types,
           s.kind = "dynamic" /\ i = "po" => s.up["po"]
    PROVE  LET t == LearntKnown(s, i, y) IN Local(t, s) /\ (Unset(t) => i = "eth")
  <1> DEFINE t == LearntKnown(s, i, y)
             m == s.mac
             pending == ~s.up[i] /\ i = "po" /\ s.pif = "up"
  <1>0. i \in {"po", "eth"}
    BY DEF HostPort
  <1>1. LearntKnownTo(t, s, i, y)
    BY LearntKnownIs
  <1> SUFFICES Local(t, s) /\ (Unset(t) => i = "eth")
    OBVIOUS
  <1> HIDE DEF t
  <1>2. CASE pending
    <2>1. /\ Sets(t, s, "link", FALSE) /\ Alike(t, s) /\ s.kind # "dynamic"
          /\ Entry(t, m.found, "link", i, m.local, m.peer, TRUE, TRUE, m.op, m.queued)
      BY <1>1, <1>2 DEF LearntKnownTo, Sets
    <2>2. WellPlaced(t) /\ ~Unset(t)
      BY <2>1, StaticPlaced DEF Alike
    <2>3. Speaks(t, s) /\ t.mac.found = m.found /\ (Heard(t) => Heard(s))
      BY <2>1 DEF Entry, Speaks, Heard
    <2> QED BY <2>1, <2>2, <2>3, SetLocalOK
  <1>3. CASE ~pending
    <2>1. /\ Sets(t, s, "none", FALSE) /\ Alike(t, s)
          /\ Entry(t, m.found, i, i, FALSE, t.mac.peer, m.pend, m.synced, t.mac.op, t.mac.queued)
          /\ Says(t, s, m.local /\ s.state = "EXCHANGE", "add")
          /\ m.peer => t.mac.peer
      BY <1>1, <1>3 DEF LearntKnownTo, Sets
    <2>2. t.mac.ifname = i /\ t.mac.origin = i /\ ~t.mac.local /\ t.mac.pend = m.pend /\ t.chip = "none"
      BY <2>1 DEF Entry, Sets
    <2>3. WellPlaced(t) /\ (Unset(t) => i = "eth")
      BY <1>0, <2>1, <2>2 DEF WellPlaced, Unset, Tracked, Right, Alike
    <2>4. Speaks(t, s) /\ t.mac.found = m.found /\ (Heard(t) => Heard(s))
      BY <2>1, <2>2, SaysSpeaks DEF Entry, Heard
    <2> QED BY <2>1, <2>3, <2>4, SetLocalOK
  <1> QED BY <1>2, <1>3

(* An entry that is new. *)
LEMMA NewHonest ==
    ASSUME NEW s \in Switch, Kin(s), Right(s), ~s.mac.found, NEW t, NEW c, NEW h, Sets(t, s, c, h),
           t.mac.queued => s.state = "EXCHANGE" /\ (t.mac.op = "add" => ~t.mac.local),
           s.state = "EXCHANGE" \/ ~Heard(t), WellPlaced(t)
    PROVE  Honest(t, s)
  <1>1. t \in Switch /\ Alike(t, s) /\ t.detached = s.detached /\ QueueTrue(s) /\ ~s.mac.queued
    BY DEF Sets, Alike, Right, Kin, OfKind
  <1>2. QueueTrue(t) /\ Tells(t, s)
    BY <1>1 DEF QueueTrue, Tells, Silent, Knows, Heard, Alike
  <1> QED BY <1>1, <1>2 DEF Alike, Honest, Stable, Right

LEMMA LearntNewLocal ==
    ASSUME NEW s \in Switch, Kin(s), Right(s), ~s.mac.found, NEW i \in HostPort, NEW y \in Types,
           s.kind = "dynamic" /\ i = "po" => s.up["po"]
    PROVE  LET t == LearntNew(s, i, y) IN Local(t, s) /\ (Unset(t) => i = "eth")
  <1> DEFINE t == LearntNew(s, i, y)
             m == s.mac
  <1>0. i \in {"po", "eth"}
    BY DEF HostPort
  <1>1. LearntNewTo(t, s, i)
    BY LearntNewIs
  <1> SUFFICES Local(t, s) /\ (Unset(t) => i = "eth")
    OBVIOUS
  <1> HIDE DEF t
  <1>2. CASE Sets(t, s, "none", FALSE) /\ t.mac = m
    <2>1. ~t.mac.found /\ ~t.mac.queued /\ t.chip = "none" /\ Alike(t, s) /\ t.mac.pend = m.pend
      BY <1>2 DEF Sets, Kin, OfKind
    <2>2. WellPlaced(t) /\ ~Unset(t) /\ ~Heard(t)
      BY <2>1 DEF WellPlaced, Unset, Tracked, Heard, Right, Alike
    <2> QED BY <1>2, <2>1, <2>2, NewHonest DEF Local
  <1>3. CASE /\ Entry(t, TRUE, i, i, FALSE, TRUE, FALSE, FALSE, "add", t.mac.queued)
             /\ t.mac.queued => s.state = "EXCHANGE"
             /\ \/ i = "po" /\ ~s.up["po"] /\ Sets(t, s, "link", FALSE)
                \/ Sets(t, s, s.chip, s.inherited)
    <2>1. /\ t.mac.ifname = i /\ t.mac.origin = i /\ ~t.mac.local /\ ~t.mac.pend /\ t.mac.peer /\ Alike(t, s)
      BY <1>3 DEF Entry, Sets
    <2>2. ~Heard(t)
      BY <2>1 DEF Heard
    <2>3. WellPlaced(t) /\ (Unset(t) => i = "eth")
      <3>1. CASE s.kind = "dynamic"
        <4>1. t.chip = s.chip /\ t.inherited = s.inherited
          BY <1>3, <3>1 DEF Sets
        <4>2. s.chip = "link" => s.inherited
          BY <3>1 DEF Right, WellPlaced
        <4> QED BY <1>0, <2>1, <3>1, <4>1, <4>2 DEF WellPlaced, Unset, Alike
      <3>2. CASE s.kind # "dynamic"
        BY <2>1, <3>2, StaticPlaced DEF Alike
      <3> QED BY <3>1, <3>2
    <2> QED BY <1>3, <2>1, <2>2, <2>3, NewHonest DEF Local
  <1> QED BY <1>1, <1>2, <1>3 DEF LearntNewTo, Entry

LEMMA FromSyncdLocal ==
    ASSUME NEW s \in Switch, Kin(s), Right(s), NEW n \in Item,
           s.kind = "dynamic" /\ n.op = "add" /\ n.port = "po" => s.up["po"]
    PROVE  LET t == FromSyncd(s, n) IN Local(t, s) /\ (Unset(t) => n.op = "add" /\ n.port = "eth")
  <1> DEFINE t == FromSyncd(s, n)
             m == s.mac
  <1>0. n.op \in {"add", "del"} /\ n.port \in HostPort /\ n.type \in Types /\ "add" # "del"
    BY DEF Item, Op
  <1>1. /\ n.op = "add" => t = IF m.found THEN LearntKnown(s, n.port, n.type) ELSE LearntNew(s, n.port, n.type)
        /\ n.op = "del" => t = IF ~m.found THEN s ELSE IF m.ifname = "link" THEN AgedOnLink(s)
                               ELSE AgedOnPort(s, n.port)
    BY <1>0 DEF FromSyncd
  <1> SUFFICES Local(t, s) /\ (Unset(t) => n.op = "add" /\ n.port = "eth")
    OBVIOUS
  <1> HIDE DEF t
  <1>2. CASE n.op = "add" /\ m.found
    BY <1>0, <1>1, <1>2, LearntKnownLocal
  <1>3. CASE n.op = "add" /\ ~m.found
    BY <1>0, <1>1, <1>3, LearntNewLocal
  <1>4. CASE n.op = "del" /\ ~m.found
    BY <1>0, <1>1, <1>4, SameLocal DEF LocalToo, Unset, Tracked
  <1>5. CASE n.op = "del" /\ m.found /\ m.ifname = "link"
    BY <1>0, <1>1, <1>5, AgedOnLinkLocal
  <1>6. CASE n.op = "del" /\ m.found /\ m.ifname # "link"
    BY <1>0, <1>1, <1>6, AgedOnPortLocal
  <1> QED BY <1>0, <1>2, <1>3, <1>4, <1>5, <1>6

-----------------------------------------------------------------------------
(* Agreement, and what the peer tells. *)

LEMMA PeerAddHonest ==
    ASSUME NEW s \in Switch, Kin(s), Right(s), s.state = "EXCHANGE", NEW i \in HostPort, NEW y \in Types
    PROVE  /\ s.mac.found => LET t == PeerAddKnown(s, i) IN Honest(t, s) /\ (Unset(t) => Unset(s))
           /\ ~s.mac.found => LET t == PeerAddNew(s, i, y) IN Honest(t, s) /\ (Unset(t) => Unset(s))
  <1> DEFINE k == PeerAddKnown(s, i)
             n == PeerAddNew(s, i, y)
             m == s.mac
  <1>0. i \in {"po", "eth"}
    BY DEF HostPort
  <1>1. ASSUME m.found PROVE Honest(k, s) /\ (Unset(k) => Unset(s))
    <2>1. PeerAddKnownTo(k, s, i)
      BY PeerAddKnownIs DEF Right
    <2> HIDE DEF k
    <2>2. Sets(k, s, k.chip, k.inherited) /\ Alike(k, s)
      BY <2>1 DEF PeerAddKnownTo, Sets
    <2>3. \E ifname, origin, local, peer, synced : Shared(k, s, i, ifname, origin, local, peer, synced)
      BY <2>1 DEF PeerAddKnownTo
    <2>4. /\ k.mac.found = m.found
          /\ i = "po" /\ m.pend => k.mac.local /\ k.mac.op = "del" /\ k.mac.queued
          /\ ~(i = "po" /\ m.pend) => /\ Says(k, s, ~m.local /\ k.mac.local, "del")
                                      /\ m.local => k.mac.local
          /\ k.mac.pend => m.pend
      BY <2>3 DEF Shared, Entry
    <2>5. Speaks(k, s)
      BY <2>4 DEF Speaks, Says
    <2>6. WellPlaced(k) /\ (Unset(k) => Unset(s))
      <3>1. CASE s.kind = "dynamic"
        <4>1. Tracked(s) /\ ~m.pend /\ m.type # "static" /\ WellPlaced(s)
          BY <1>1, <3>1 DEF Tracked, Right, WellPlaced, Kin, OfKind
        <4>2. \/ /\ m.ifname = "po" /\ m.origin = "po" /\ k.mac.ifname = "po" /\ k.mac.origin = "po"
                 /\ k.chip = s.chip /\ k.inherited = s.inherited
              \/ /\ m.ifname = "eth" /\ k.mac.ifname = "link" /\ k.mac.origin = "eth"
                 /\ (m.local => k.mac.local) /\ k.chip = "link" /\ k.mac.synced
              \/ s.up["po"] /\ k.mac.ifname = "po" /\ k.mac.origin = "po" /\ k.chip = "po"
              \/ /\ i = "po" => ~s.up["po"]
                 /\ k.mac.ifname = "link" /\ k.mac.origin = i /\ k.mac.local
                 /\ k.chip # "link" => m.ifname = "link"
          BY <2>1, <3>1, <4>1 DEF PeerAddKnownTo, Sets, Shared, Entry
        <4>3. k.kind = s.kind /\ k.haslink = s.haslink /\ k.up = s.up
          BY <2>2 DEF Alike
        <4>4. k.mac.found /\ ~k.mac.pend
          BY <1>1, <2>4, <4>1
        <4>5. Unset(k) => Unset(s)
          BY <1>0, <4>1, <4>2, <4>3 DEF Unset, Knows, Tracked
        <4>6. WellPlaced(k)
          BY <1>0, <4>1, <4>2, <4>3, <4>4 DEF WellPlaced, Knows, Tracked
        <4> QED BY <4>5, <4>6
      <3>2. CASE s.kind # "dynamic"
        BY <2>2, <3>2, StaticPlaced DEF Alike
      <3> QED BY <3>1, <3>2
    <2> QED BY <2>2, <2>4, <2>5, <2>6, SetLocalOK
  <1>2. ASSUME ~m.found PROVE Honest(n, s) /\ (Unset(n) => Unset(s))
    <2>1. PeerAddNewTo(n, s, i)
      BY PeerAddNewIs DEF Right
    <2> HIDE DEF n
    <2>2. Sets(n, s, n.chip, n.inherited) /\ Alike(n, s)
      BY <2>1 DEF PeerAddNewTo, Sets
    <2>3. /\ n.mac.found /\ n.mac.local /\ ~n.mac.pend /\ ~n.mac.queued
          /\ \/ (i = "po" => ~s.up["po"]) /\ n.mac.ifname = "link" /\ n.mac.origin = i
             \/ s.up["po"] /\ n.mac.ifname = "po" /\ n.mac.origin = "po" /\ n.chip = "po"
      BY <2>1 DEF PeerAddNewTo, Entry, Sets
    <2>4. WellPlaced(n) /\ ~Unset(n)
      BY <1>0, <2>2, <2>3 DEF WellPlaced, Unset, Knows, Tracked, Alike
    <2> QED BY <1>2, <2>2, <2>3, <2>4, NewHonest
  <1> QED BY <1>1, <1>2

LEMMA FromPeerHonest ==
    ASSUME NEW s \in Switch, Kin(s), Right(s), s.state = "EXCHANGE", NEW x \in Item
    PROVE  LET t == FromPeer(s, x)
           IN  Honest(t, s) /\ (Unset(t) => Unset(s)) /\ (x.op = "del" => ~Heard(t))
  <1> DEFINE t == FromPeer(s, x)
             m == s.mac
  <1>0. x.op \in {"add", "del"} /\ x.port \in HostPort /\ x.type \in Types /\ "add" # "del"
    BY DEF Item, Op
  <1>1. t = IF x.op = "add" THEN IF m.found THEN PeerAddKnown(s, x.port) ELSE PeerAddNew(s, x.port, x.type)
            ELSE IF m.found THEN PeerDel(s) ELSE s
    BY <1>0 DEF FromPeer
  <1> SUFFICES Honest(t, s) /\ (Unset(t) => Unset(s)) /\ (x.op = "del" => ~Heard(t))
    OBVIOUS
  <1> HIDE DEF t
  <1>2. CASE x.op = "add"
    BY <1>0, <1>1, <1>2, PeerAddHonest
  <1>3. CASE x.op # "add" /\ ~m.found
    BY <1>1, <1>3, SameLocal DEF LocalToo, Local, Heard
  <1>4. CASE x.op # "add" /\ m.found
    <2>1. PeerDelTo(t, s)
      BY <1>1, <1>4, PeerDelIs
    <2>2. CASE Gone(t, s, "none")
      BY <2>2, GoneLocal DEF LocalToo, Local
    <2>3. CASE /\ ~m.local /\ Sets(t, s, s.chip, s.inherited)
               /\ Entry(t, m.found, m.ifname, m.origin, m.local, TRUE, m.pend, m.synced, m.op, m.queued)
      <3>1. /\ Alike(t, s) /\ t.mac.found = m.found /\ t.mac.ifname = m.ifname /\ t.mac.origin = m.origin
            /\ t.mac.local = m.local /\ t.mac.peer /\ t.mac.pend = m.pend /\ t.mac.synced = m.synced
            /\ t.mac.op = m.op /\ t.mac.queued = m.queued /\ t.chip = s.chip /\ t.inherited = s.inherited
        BY <2>3 DEF Sets, Entry
      <3>2. WellPlaced(t) /\ (Unset(t) => Unset(s))
        BY <3>1 DEF WellPlaced, Unset, Knows, Tracked, Alike, Right
      <3>3. Speaks(t, s) /\ ~Heard(t)
        BY <3>1 DEF Speaks, Heard
      <3> QED BY <2>3, <3>1, <3>2, <3>3, SetLocalOK
    <2> QED BY <2>1, <2>2, <2>3 DEF PeerDelTo
  <1> QED BY <1>2, <1>3, <1>4

LEMMA KinOf ==
    ASSUME NEW s, SwitchInv(s), Good(s)
    PROVE  Kin(s)
  BY DEF SwitchInv, Good, Kin

(* A message whose last item is a DEL says that the peer has not the address. *)
LEMMA FromPeersHonest ==
    ASSUME NEW s \in Switch, SwitchInv(s), Good(s), Wired(s), Right(s), s.state = "EXCHANGE",
           NEW items \in Seq(Item), \A l \in 1..Len(items) : items[l].type = s.kind
    PROVE  LET t == FromPeers(s, items)
           IN  /\ Honest(t, s) /\ (Unset(t) => Unset(s))
               /\ items # <<>> /\ items[Len(items)].op = "del" => ~Heard(t)
  <1> DEFINE S == {t \in Switch : /\ Kept(t, s) /\ SwitchInv(t) /\ Fine(t, s)
                                  /\ Honest(t, s) /\ (Unset(t) => Unset(s))}
  <1>1. s \in S
    BY SameLocal DEF Kept, Same, Fine, Stays, SameLink, LocalToo, Local
  <1>2. ASSUME NEW t \in S
        PROVE  /\ t \in Switch /\ SwitchInv(t) /\ t.state = "EXCHANGE" /\ Good(t) /\ Wired(t)
               /\ t.kind = s.kind /\ Kin(t) /\ Right(t)
    <2>1. /\ t \in Switch /\ SwitchInv(t) /\ t.state = "EXCHANGE" /\ Good(t) /\ Wired(t)
          /\ t.kind = s.kind /\ Right(t)
      BY DEF Kept, Same, Fine, SameLink, Wired, Honest, Stable
    <2> HIDE DEF S
    <2> QED BY <2>1, KinOf
  <1>3. ASSUME NEW t \in S, NEW n \in 1..Len(items) PROVE FromPeer(t, items[n]) \in S
    <2> DEFINE u == FromPeer(t, items[n])
    <2>0. items[n] \in Item /\ items[n].type = s.kind
      OBVIOUS
    <2>1. Kept(u, s)
      BY <2>0, <1>2, FromPeerType, KeptAgain DEF Kept
    <2>2. SwitchInv(u)
      BY <2>0, <1>2, FromPeerInv
    <2>3. Fine(t, s) /\ Honest(t, s) /\ (Unset(t) => Unset(s))
      OBVIOUS
    <2>4. Fine(u, s)
      BY <2>0, <1>2, <2>3, FromPeerFine, FineAgain
    <2>5. Honest(u, t) /\ (Unset(u) => Unset(t))
      BY <2>0, <1>2, FromPeerHonest
    <2> HIDE DEF u
    <2>6. Honest(u, s) /\ (Unset(u) => Unset(s))
      BY <2>3, <2>5 DEF Honest, Stable, Tells
    <2>7. u \in Switch
      BY <2>1 DEF Kept
    <2>8. u \in S
      BY <2>1, <2>2, <2>4, <2>6, <2>7
    <2> QED BY <2>8 DEF u
  <1> DEFINE t == FromPeers(s, items)
  <1> HIDE DEF S
  <1>4. t \in S /\ (items # <<>> => \E u \in S : t = FromPeer(u, items[Len(items)]))
    BY <1>1, <1>3, FromPeersTold
  <1>5. Honest(t, s) /\ (Unset(t) => Unset(s))
    BY <1>4 DEF S
  <1>6. ASSUME items # <<>>, items[Len(items)].op = "del" PROVE ~Heard(t)
    <2>1. items[Len(items)] \in Item
      BY <1>6
    <2>2. PICK u \in S : t = FromPeer(u, items[Len(items)])
      BY <1>4, <1>6
    <2> QED BY <1>2, <1>6, <2>1, <2>2, FromPeerHonest
  <1> QED BY <1>5, <1>6

-----------------------------------------------------------------------------
(* Agreement, interfaces and the session. *)

LEMMA PoDownLocal ==
    ASSUME NEW s \in Switch, Kin(s), Right(s), ~s.up["po"]
    PROVE  LocalToo(PoDown(s), s)
  <1> DEFINE t == PoDown(s)
             m == s.mac
             mine == m.found /\ m.origin = "po"
  <1>1. PoDownTo(t, s)
    BY PoDownIs DEF Right
  <1> SUFFICES LocalToo(t, s)
    OBVIOUS
  <1> HIDE DEF t
  <1>2. CASE Sets(t, s, s.chip, s.inherited) /\ t.mac = m
    BY <1>2, SameLocal DEF Sets, Alike
  <1>3. CASE Gone(t, s, "none") \/ (Gone(t, s, s.chip) /\ m.type = "static" /\ mine)
    <2>1. m.type = "static" /\ mine => s.kind # "dynamic"
      BY DEF Kin, OfKind
    <2> QED BY <1>3, <2>1, GoneLocal
  <1>4. s.kind = "dynamic" /\ mine => m.local /\ ~m.pend
    <2> HAVE s.kind = "dynamic" /\ mine
    <2>1. Tracked(s)
      BY DEF Tracked, Right
    <2>2. m.ifname = "link"
      <3>1. m.ifname # "po"
        BY <2>1 DEF Right, WellPlaced
      <3> QED BY <3>1 DEF Kin, OnOrigin
    <2> QED BY <2>1, <2>2 DEF Right, WellPlaced, Knows
  <1>5. CASE /\ mine /\ (m.local => t.mac.local) /\ t.mac.ifname = "link" /\ t.mac.origin = m.origin
             /\ t.mac.found = m.found /\ t.mac.peer = m.peer
             /\ Sets(t, s, t.chip, t.inherited) /\ Speaks(t, s)
             /\ s.kind = "dynamic" => t.mac.pend = m.pend
    <2>1. Alike(t, s)
      BY <1>5 DEF Sets
    <2>2. WellPlaced(t) /\ ~Unset(t)
      <3>1. CASE s.kind = "dynamic"
        BY <1>4, <1>5, <2>1, <3>1 DEF WellPlaced, Unset, Knows, Tracked, Alike
      <3>2. CASE s.kind # "dynamic"
        BY <2>1, <3>2, StaticPlaced DEF Alike
      <3> QED BY <3>1, <3>2
    <2>3. Heard(t) => Heard(s)
      BY <1>5 DEF Heard
    <2> QED BY <1>5, <2>2, <2>3, SetLocalOK DEF LocalToo
  <1>6. CASE /\ mine /\ ~m.local
             /\ \/ /\ Sets(t, s, "link", FALSE)
                   /\ Entry(t, m.found, "link", m.origin, m.local, m.peer, TRUE, TRUE, m.op, m.queued)
                \/ /\ Sets(t, s, "none", FALSE)
                   /\ Entry(t, m.found, "link", m.origin, m.local, m.peer, TRUE, FALSE, m.op, m.queued)
    <2>1. s.kind # "dynamic" /\ Sets(t, s, t.chip, t.inherited)
      BY <1>4, <1>6 DEF Sets
    <2> QED BY <1>5, <1>6, <2>1 DEF Entry, Speaks
  <1>7. CASE /\ mine /\ ~m.peer /\ Says(t, s, ~m.local /\ s.state = "EXCHANGE", "del")
             /\ \/ /\ Sets(t, s, "link", FALSE)
                   /\ Entry(t, m.found, "link", m.origin, TRUE, m.peer, m.pend, TRUE, t.mac.op, t.mac.queued)
                \/ /\ Sets(t, s, "none", FALSE)
                   /\ Entry(t, m.found, "link", m.origin, TRUE, m.peer, m.pend, FALSE, t.mac.op, t.mac.queued)
    <2>1. t.mac.local /\ Sets(t, s, t.chip, t.inherited)
      BY <1>7 DEF Entry, Sets
    <2>2. Speaks(t, s)
      BY <1>7, <2>1, SaysSpeaks
    <2> QED BY <1>5, <1>7, <2>1, <2>2 DEF Entry
  <1> QED BY <1>1, <1>2, <1>3, <1>6, <1>7 DEF PoDownTo

LEMMA PoUpLocal ==
    ASSUME NEW s \in Switch, Kin(s), Right(s), s.up["po"]
    PROVE  LocalToo(PoUp(s), s)
  <1> DEFINE t == PoUp(s)
             m == s.mac
             mine == m.found /\ m.origin = "po"
  <1>1. PoUpTo(t, s)
    BY PoUpIs
  <1> SUFFICES LocalToo(t, s)
    OBVIOUS
  <1> HIDE DEF t
  <1>2. CASE Sets(t, s, s.chip, s.inherited) /\ t.mac = m
    BY <1>2, SameLocal DEF Sets, Alike
  <1>3. s.kind = "dynamic" /\ mine => m.ifname = "po" /\ ~m.pend
    BY DEF Right, WellPlaced, Tracked
  <1>4. mine /\ m.type # "static" => s.kind = "dynamic"
    BY OpsAssumption DEF Kin, OfKind, Switch
  <1>5. CASE /\ s.kind # "dynamic" /\ Sets(t, s, t.chip, t.inherited)
             /\ t.mac.found = m.found /\ t.mac.local = m.local /\ t.mac.peer = m.peer
             /\ t.mac.op = m.op /\ t.mac.queued = m.queued
    <2>1. WellPlaced(t) /\ ~Unset(t)
      BY <1>5, StaticPlaced DEF Sets, Alike
    <2>2. Speaks(t, s) /\ (Heard(t) => Heard(s))
      BY <1>5 DEF Speaks, Heard
    <2> QED BY <1>5, <2>1, <2>2, SetLocalOK DEF LocalToo
  <1>6. CASE /\ mine /\ m.ifname = "link" /\ Sets(t, s, "po", FALSE)
             /\ Entry(t, m.found, "po", m.origin, m.local, m.peer, FALSE, TRUE, m.op, m.queued)
    BY <1>3, <1>5, <1>6 DEF Entry, Sets
  <1>7. CASE /\ mine /\ m.pend /\ m.type = "static" /\ Sets(t, s, "none", FALSE)
             /\ Entry(t, m.found, m.ifname, m.origin, m.local, m.peer, FALSE, FALSE, m.op, m.queued)
    BY <1>3, <1>5, <1>7 DEF Entry, Sets
  <1> QED BY <1>1, <1>2, <1>3, <1>4, <1>6, <1>7 DEF PoUpTo

LEMMA ConnectedRight ==
    ASSUME NEW s \in Switch, Kin(s), Right(s), s.state # "EXCHANGE"
    PROVE  LET t == Connected(s)
           IN  /\ Stable(t, s) /\ Right(t) /\ t.state = "EXCHANGE"
               /\ (Heard(t) => Heard(s)) /\ (Unset(t) => Unset(s))
  <1> DEFINE a == [s EXCEPT !.state = "EXCHANGE"]
             b == SyncMac(a)
             m == s.mac
  <1>1. /\ a \in Switch /\ a.state = "EXCHANGE" /\ a.mac = s.mac /\ a.chip = s.chip
        /\ a.kind = s.kind /\ a.haslink = s.haslink /\ a.plif = s.plif /\ a.up = s.up
        /\ a.detached = s.detached /\ a.warm = s.warm /\ a.inherited = s.inherited
    BY DEF Switch, State
  <1>2. Connected(s) = PoState(b)
    BY DEF Connected
  <1> HIDE DEF a
  <1>3. Right(a) /\ Kin(a)
    BY <1>1 DEF Right, QueueTrue, WellPlaced, Silent, Knows, Tracked, Kin, OfKind, OnOrigin, AgesApart,
                EthLearnt, BothAged
  <1>4. LocalToo(b, a) /\ Kin(b)
    <2>1. SyncMacTo(b, a) /\ b.mac.type = a.mac.type
      BY <1>1, SyncMacIs DEF SyncMac, Queued, Switch, Mac
    <2> HIDE DEF b
    <2>2. CASE b = a
      BY <1>1, <1>3, <2>2, SameLocal
    <2>3. CASE /\ m.found /\ ~m.local /\ Sets(b, a, a.chip, a.inherited)
               /\ Entry(b, m.found, m.ifname, m.origin, m.local, m.peer, m.pend, m.synced, "add", TRUE)
      <3>1. /\ Alike(b, a) /\ b.mac.found = m.found /\ b.mac.ifname = m.ifname /\ b.mac.origin = m.origin
            /\ b.mac.local = m.local /\ b.mac.peer = m.peer /\ b.mac.pend = m.pend /\ b.mac.synced = m.synced
            /\ b.mac.op = "add" /\ b.mac.queued /\ b.chip = a.chip /\ b.inherited = a.inherited
            /\ b.detached = a.detached
        BY <2>3 DEF Sets, Entry
      <3>2. WellPlaced(b) /\ (Unset(b) => Unset(a))
        BY <1>1, <1>3, <3>1 DEF WellPlaced, Unset, Knows, Tracked, Alike, Right
      <3>3. Speaks(b, a) /\ (Heard(b) => Heard(a))
        BY <1>1, <2>3, <3>1 DEF Speaks, Heard
      <3>4. Kin(b)
        BY <1>1, <1>3, <2>1, <2>3, <3>1 DEF Kin, OfKind, OnOrigin, AgesApart, EthLearnt, BothAged, Alike, Tracked
      <3> QED BY <1>1, <1>3, <2>3, <3>1, <3>2, <3>3, <3>4, SetLocalOK DEF LocalToo
    <2> QED BY <1>1, <2>1, <2>2, <2>3 DEF SyncMacTo
  <1> HIDE DEF b
  <1>5. b \in Switch /\ Right(b)
    BY <1>4 DEF LocalToo, Local, Honest, Stable
  <1>6. LocalToo(PoState(b), b)
    BY <1>4, <1>5, PoUpLocal, PoDownLocal DEF PoState
  <1>7. LocalToo(PoState(b), a)
    BY <1>4, <1>6, LocalAgain
  <1>8. Unset(a) => Unset(s)
    BY <1>1 DEF Unset, Knows, Tracked
  <1> QED BY <1>1, <1>2, <1>7, <1>8 DEF LocalToo, Local, Honest, Stable, Heard

LEMMA PeerPoLocal ==
    ASSUME NEW s \in Switch, Kin(s), Right(s), NEW up \in BOOLEAN
    PROVE  LocalToo(PeerPo(s, up), s)
  <1> DEFINE t == PeerPo(s, up)
             m == s.mac
  <1>1. PeerPoTo(t, s)
    BY PeerPoIs
  <1> SUFFICES LocalToo(t, s)
    OBVIOUS
  <1> HIDE DEF t
  <1>2. AlikeBut(t, s) /\ t.state = s.state /\ t.warm = s.warm /\ t.detached = s.detached
    BY <1>1 DEF PeerPoTo
  <1>3. CASE t.mac = m /\ t.chip = s.chip /\ t.inherited = s.inherited
    BY <1>2, <1>3, SameLocal DEF AlikeBut
  <1>4. CASE /\ s.up["po"] /\ m.found /\ m.origin = "po" /\ m.local /\ ~m.peer
             /\ t.chip = m.ifname /\ ~t.inherited /\ s.state = "EXCHANGE"
             /\ Entry(t, m.found, m.ifname, m.origin, FALSE, TRUE, m.pend, TRUE, "add", TRUE)
    <2>1. /\ t.mac.found = m.found /\ t.mac.ifname = m.ifname /\ t.mac.origin = m.origin
          /\ ~t.mac.local /\ t.mac.peer /\ t.mac.pend = m.pend /\ t.mac.op = "add" /\ t.mac.queued
      BY <1>4 DEF Entry
    <2>2. QueueTrue(t) /\ Tells(t, s) /\ ~Heard(t)
      BY <1>2, <1>4, <2>1, SpeaksTrue DEF Speaks, Heard, Right
    <2>3. s.kind = "dynamic" => m.ifname = "po"
      BY <1>4 DEF Right, WellPlaced, Tracked
    <2>4. WellPlaced(t) /\ ~Unset(t)
      BY <1>2, <1>4, <2>1, <2>3 DEF WellPlaced, Unset, Tracked, Right, AlikeBut
    <2> QED BY <1>2, <2>2, <2>4 DEF LocalToo, Local, Honest, Stable, Right, AlikeBut
  <1> QED BY <1>1, <1>3, <1>4 DEF PeerPoTo

(* The orphan port, and the peer-link. *)
LEMMA EthLinkLocal ==
    ASSUME NEW s \in Switch, Kin(s), Right(s)
    PROVE  LET e == Toggled(s, "eth") IN LocalToo(e, s) /\ LocalToo(OrphanUp(e), s)
  <1> DEFINE e == Toggled(s, "eth")
             t == OrphanUp(e)
             m == e.mac
  <1>1. LocalToo(e, s) /\ (Kin(s) => Kin(e)) /\ e \in Switch
    BY ToggledIs, SameLocal DEF Port
  <1>2. e \in Switch /\ Right(e)
    BY <1>1 DEF LocalToo, Local, Honest
  <1>3. OrphanUpTo(t, e)
    BY <1>2, OrphanUpIs
  <1> SUFFICES LocalToo(e, s) /\ LocalToo(t, s)
    OBVIOUS
  <1> HIDE DEF e, t
  <1>4. CASE t = e
    BY <1>1, <1>4
  <1>5. CASE /\ m.found /\ ~m.local /\ e.state = "EXCHANGE" /\ Sets(t, e, e.chip, e.inherited)
             /\ Entry(t, m.found, m.ifname, m.origin, m.local, m.peer, m.pend, m.synced, "add", TRUE)
    <2>1. /\ Alike(t, e) /\ t.mac.found = m.found /\ t.mac.ifname = m.ifname /\ t.mac.origin = m.origin
          /\ t.mac.local = m.local /\ t.mac.peer = m.peer /\ t.mac.pend = m.pend /\ t.mac.synced = m.synced
          /\ t.mac.op = "add" /\ t.mac.queued /\ t.chip = e.chip /\ t.inherited = e.inherited
      BY <1>5 DEF Sets, Entry
    <2>2. WellPlaced(t) /\ (Unset(t) => Unset(e))
      BY <1>2, <2>1 DEF WellPlaced, Unset, Knows, Tracked, Alike, Right
    <2>3. Speaks(t, e) /\ (Heard(t) => Heard(e))
      BY <1>5, <2>1 DEF Speaks, Heard
    <2>4. LocalToo(t, e)
      BY <1>2, <1>5, <2>1, <2>2, <2>3, SetLocalOK DEF LocalToo
    <2> QED BY <1>1, <2>4, LocalAgain
  <1> QED BY <1>1, <1>3, <1>4, <1>5 DEF OrphanUpTo

LEMMA PeerLinkUpLocal ==
    ASSUME NEW s \in Switch, Kin(s), Right(s)
    PROVE  LocalToo(PeerLinkUp(s), s)
  <1> DEFINE t == PeerLinkUp(s)
             m == s.mac
  <1>1. PeerLinkUpTo(t, s)
    BY PeerLinkUpIs
  <1> SUFFICES LocalToo(t, s)
    OBVIOUS
  <1> HIDE DEF t
  <1>2. CASE t = s
    BY <1>2, SameLocal
  <1>3. CASE /\ m.found /\ m.ifname = "link" /\ Sets(t, s, "link", FALSE)
             /\ Entry(t, m.found, m.ifname, m.origin, m.local, m.peer, m.pend, TRUE, m.op, m.queued)
    <2>1. /\ Alike(t, s) /\ t.mac.found = m.found /\ t.mac.ifname = m.ifname /\ t.mac.origin = m.origin
          /\ t.mac.local = m.local /\ t.mac.peer = m.peer /\ t.mac.pend = m.pend /\ t.mac.synced
          /\ t.mac.op = m.op /\ t.mac.queued = m.queued /\ t.chip = "link"
      BY <1>3 DEF Sets, Entry
    <2>2. WellPlaced(t) /\ (Unset(t) => Unset(s))
      BY <1>3, <2>1 DEF WellPlaced, Unset, Knows, Tracked, Alike, Right
    <2>3. Speaks(t, s) /\ (Heard(t) => Heard(s))
      BY <2>1 DEF Speaks, Heard
    <2> QED BY <1>3, <2>1, <2>2, <2>3, SetLocalOK DEF LocalToo
  <1> QED BY <1>1, <1>2, <1>3 DEF PeerLinkUpTo

LEMMA PeerLinkDownLocal ==
    ASSUME NEW s \in Switch, Kin(s), Right(s)
    PROVE  LocalToo(PeerLinkDown(s), s)
  <1> DEFINE t == PeerLinkDown(s)
             m == s.mac
  <1>1. PeerLinkDownTo(t, s)
    BY PeerLinkDownIs
  <1> SUFFICES LocalToo(t, s)
    OBVIOUS
  <1> HIDE DEF t
  <1>2. CASE t = s
    BY <1>2, SameLocal
  <1>3. CASE Gone(t, s, "none")
    BY <1>3, GoneLocal
  <1>4. CASE /\ m.found /\ m.ifname = "link" /\ Sets(t, s, "none", FALSE)
             /\ Entry(t, m.found, m.ifname, m.origin, t.mac.local, m.peer, m.pend, FALSE, t.mac.op, t.mac.queued)
             /\ ~m.pend => t.mac.local /\ Says(t, s, ~m.local /\ s.state = "EXCHANGE", "del")
             /\ m.pend => t.mac.local = m.local /\ t.mac.op = m.op /\ t.mac.queued = m.queued
    <2>1. /\ Alike(t, s) /\ t.mac.found = m.found /\ t.mac.ifname = "link" /\ t.mac.origin = m.origin
          /\ t.mac.peer = m.peer /\ t.mac.pend = m.pend /\ t.chip = "none"
      BY <1>4 DEF Sets, Entry
    <2>2. s.kind = "dynamic" => ~m.pend /\ t.mac.local
      BY <1>4 DEF Right, WellPlaced
    <2>3. WellPlaced(t) /\ ~Unset(t)
      BY <1>4, <2>1, <2>2 DEF WellPlaced, Unset, Knows, Tracked, Alike, Right
    <2>4. Speaks(t, s)
      <3>1. CASE m.pend
        BY <1>4, <3>1 DEF Speaks
      <3>2. CASE ~m.pend
        BY <1>4, <3>2, SaysSpeaks
      <3> QED BY <3>1, <3>2
    <2>5. Heard(t) => Heard(s)
      BY <2>1 DEF Heard
    <2> QED BY <1>4, <2>1, <2>3, <2>4, <2>5, SetLocalOK DEF LocalToo
  <1> QED BY <1>1, <1>2, <1>3, <1>4 DEF PeerLinkDownTo

LEMMA PeerLinkLocal ==
    ASSUME NEW s \in Switch, Kin(s), Right(s)
    PROVE  LET l == Toggled(s, "link") IN LocalToo(PeerLinkUp(l), s) /\ LocalToo(PeerLinkDown(l), s)
  <1> DEFINE l == Toggled(s, "link")
  <1>1. LocalToo(l, s) /\ Kin(l) /\ l \in Switch
    BY ToggledIs, SameLocal DEF Port
  <1>2. Right(l)
    BY <1>1 DEF LocalToo, Local, Honest
  <1> HIDE DEF l
  <1>3. LocalToo(PeerLinkUp(l), s) /\ LocalToo(PeerLinkDown(l), s)
    BY <1>1, <1>2, PeerLinkUpLocal, PeerLinkDownLocal, LocalAgain
  <1> QED BY <1>3 DEF l

LEMMA TimerExpiredLocal ==
    ASSUME NEW s \in Switch, Kin(s), Right(s)
    PROVE  LocalToo(TimerExpired(s), s)
  <1> DEFINE t == TimerExpired(s)
             m == s.mac
  <1>1. TimerExpiredTo(t, s)
    BY TimerExpiredIs
  <1> SUFFICES LocalToo(t, s)
    OBVIOUS
  <1> HIDE DEF t
  <1>2. CASE Sets(t, s, s.chip, s.inherited) /\ t.mac = m
    BY <1>2, SameLocal DEF Sets, Alike
  <1>3. CASE Gone(t, s, "none")
    BY <1>3, GoneLocal
  <1>4. CASE /\ m.found /\ m.pend /\ m.type = "static" /\ Sets(t, s, "none", FALSE)
             /\ Entry(t, m.found, m.ifname, m.origin, m.local, m.peer, FALSE, FALSE, m.op, m.queued)
    <2>1. s.kind # "dynamic" /\ Alike(t, s)
      BY <1>4 DEF Kin, OfKind, Sets
    <2>2. WellPlaced(t) /\ ~Unset(t)
      BY <2>1, StaticPlaced DEF Alike
    <2>3. Speaks(t, s) /\ (Heard(t) => Heard(s)) /\ t.mac.found = m.found
      BY <1>4 DEF Speaks, Heard, Entry
    <2> QED BY <1>4, <2>2, <2>3, SetLocalOK DEF LocalToo
  <1> QED BY <1>1, <1>2, <1>3, <1>4 DEF TimerExpiredTo

(* The session ends: nothing is queued, or kept as the peer's. *)
LEMMA DisconnectedRight ==
    ASSUME NEW s \in Switch, Kin(s), Right(s)
    PROVE  LET t == Disconnected(s) IN Stable(t, s) /\ Right(t) /\ (Unset(t) => Unset(s))
  <1> DEFINE t == Disconnected(s)
             u == FdbDisconnected(s)
             m == s.mac
             v == u.mac
  <1>1. ~s.warm /\ s.haslink /\ WellPlaced(s)
    BY DEF Right
  <1>2. /\ t \in Switch /\ t.kind = s.kind /\ t.haslink = s.haslink /\ t.up = s.up
        /\ t.state = "INIT" /\ ~t.warm /\ t.detached = <<>>
        /\ t.chip = u.chip /\ t.inherited = u.inherited
        /\ Entry(t, v.found, v.ifname, v.origin, v.local, v.peer, v.pend, v.synced, v.op, FALSE)
    BY <1>1, DisconnectedIs DEF DisconnectedTo
  <1>3. FdbDisconnectedTo(u, s)
    BY FdbDisconnectedIs
  <1> SUFFICES Stable(t, s) /\ Right(t) /\ (Unset(t) => Unset(s))
    OBVIOUS
  <1> HIDE DEF t, u
  <1>4. /\ t.mac.found = v.found /\ t.mac.ifname = v.ifname /\ t.mac.origin = v.origin
        /\ t.mac.local = v.local /\ t.mac.peer = v.peer /\ t.mac.pend = v.pend /\ t.mac.synced = v.synced
        /\ ~t.mac.queued
    BY <1>2 DEF Entry
  <1>5. v.found => v.peer
    BY <1>3, NoMacFound DEF FdbDisconnectedTo, Entry
  <1>6. QueueTrue(t)
    <2>1. \A n \in 1..Len(t.detached) : FALSE
      BY <1>2
    <2> QED BY <1>2, <1>4, <1>5, <2>1 DEF QueueTrue, Silent
  <1>7. WellPlaced(t) /\ (Unset(t) => Unset(s))
    <2>1. CASE s.kind # "dynamic"
      BY <1>2, <2>1, StaticPlaced
    <2>2. CASE s.kind = "dynamic"
      <3>1. CASE u = s /\ ~m.found
        BY <1>1, <1>2, <1>4, <2>2, <3>1 DEF WellPlaced, Unset, Tracked
      <3>2. CASE v = NoMac /\ u.chip = "none"
        <4>1. ~v.found /\ ~v.pend
          BY <3>2, NoMacFound
        <4> QED BY <1>2, <1>4, <3>2, <4>1 DEF WellPlaced, Unset, Tracked
      <3>3. CASE /\ u.chip = s.chip /\ u.inherited = s.inherited
                 /\ Entry(u, m.found, m.ifname, m.origin, m.local, TRUE, m.pend, m.synced, m.op, m.queued)
        <4>1. /\ t.mac.found = m.found /\ t.mac.ifname = m.ifname /\ t.mac.origin = m.origin
              /\ t.mac.local = m.local /\ t.mac.pend = m.pend /\ t.mac.synced = m.synced
          BY <1>4, <3>3 DEF Entry
        <4> QED BY <1>1, <1>2, <3>3, <4>1 DEF WellPlaced, Unset, Knows, Tracked
      <3>4. CASE /\ m.found /\ m.ifname # "link" /\ m.local /\ ~m.peer /\ u.chip = m.ifname /\ ~u.inherited
                 /\ Entry(u, m.found, m.ifname, m.origin, FALSE, TRUE, m.pend, TRUE, m.op, m.queued)
        <4>1. /\ t.mac.found = m.found /\ t.mac.ifname = m.ifname /\ t.mac.origin = m.origin
              /\ t.mac.pend = m.pend
          BY <1>4, <3>4 DEF Entry
        <4>2. Tracked(s)
          BY <1>1, <2>2, <3>4 DEF Tracked
        <4>3. m.ifname = "po"
          BY <3>4, <4>2 DEF Kin, EthLearnt, Switch, Mac, Port
        <4> QED BY <1>1, <1>2, <2>2, <3>4, <4>1, <4>2, <4>3 DEF WellPlaced, Unset, Tracked
      <3> QED BY <1>3, <3>1, <3>2, <3>3, <3>4 DEF FdbDisconnectedTo
    <2> QED BY <2>1, <2>2
  <1> QED BY <1>1, <1>2, <1>6, <1>7 DEF Stable, Right

(* What was to be sent has been sent. *)
LEMMA FlushedRight ==
    ASSUME NEW s \in Switch, Right(s)
    PROVE  LET t == Flushed(s)
           IN  /\ Stable(t, s) /\ Right(t) /\ t.state = s.state /\ Silent(t)
               /\ (Knows(t) <=> Knows(s)) /\ (Heard(t) <=> Heard(s)) /\ (Unset(t) <=> Unset(s))
  <1> DEFINE t == Flushed(s)
             m == s.mac
  <1>1. /\ Alike(t, s) /\ t.chip = s.chip /\ t.inherited = s.inherited /\ t.detached = <<>>
        /\ Entry(t, m.found, m.ifname, m.origin, m.local, m.peer, m.pend, m.synced, m.op, FALSE)
    BY FlushedIs
  <1> SUFFICES /\ Stable(t, s) /\ Right(t) /\ t.state = s.state /\ Silent(t)
               /\ (Knows(t) <=> Knows(s)) /\ (Heard(t) <=> Heard(s)) /\ (Unset(t) <=> Unset(s))
    OBVIOUS
  <1> HIDE DEF t
  <1>2. \A n \in 1..Len(t.detached) : FALSE
    BY <1>1
  <1>3. QueueTrue(t) /\ Silent(t)
    BY <1>1, <1>2 DEF QueueTrue, Silent, Right, Entry, Alike
  <1>4. /\ Alike(t, s) /\ t.mac.found = m.found /\ t.mac.ifname = m.ifname /\ t.mac.origin = m.origin
        /\ t.mac.local = m.local /\ t.mac.peer = m.peer /\ t.mac.pend = m.pend /\ t.mac.synced = m.synced
    BY <1>1 DEF Entry
  <1>5. WellPlaced(t) /\ (Knows(t) <=> Knows(s)) /\ (Heard(t) <=> Heard(s)) /\ (Unset(t) <=> Unset(s))
    BY <1>1, <1>4 DEF WellPlaced, Unset, Knows, Heard, Tracked, Alike, Right
  <1> QED BY <1>1, <1>3, <1>5 DEF Stable, Right, Alike

LEMMA FreshRight ==
    ASSUME NEW t \in Switch, t.mac = NoMac, t.detached = <<>>, t.haslink, ~t.warm,
           t.chip # "none" => t.inherited
    PROVE  Right(t) /\ ~Unset(t) /\ ~Heard(t)
  <1>1. ~t.mac.found /\ ~t.mac.queued /\ ~t.mac.pend /\ \A n \in 1..Len(t.detached) : FALSE
    BY NoMacFound
  <1> QED BY <1>1 DEF Right, QueueTrue, Silent, WellPlaced, Unset, Heard, Tracked
-----------------------------------------------------------------------------
(* Agreement, and what is on its way. *)

(* The last that c says of the address is that it is known. *)
LastAdd(c) == \E n \in 1..Len(c) : LastMac(c, n) /\ EndsInAdd(c[n])

Clean(c) == \A n \in 1..Len(c) : c[n].type # "WARM" /\ (IsMac(c[n]) => AddLast(c[n]))

(* HearsTrue, of a switch s that has c to read from x. *)
Hearing(s, x, c) ==
    /\ x.state # "EXCHANGE" => NoMacs(c) /\ ~Heard(s)
    /\ Silent(x) => (LastAdd(c) => Knows(x)) /\ (NoMacs(c) /\ Heard(s) => Knows(x))

(* What s sends, which is all it had to say. *)
Reports(o, s) ==
    /\ Clean(o)
    /\ Silent(s) => NoMacs(o)
    /\ ~Silent(s) => ~NoMacs(o) /\ (LastAdd(o) => Knows(s))

LEMMA EmptyClean ==
    Clean(<<>>) /\ NoMacs(<<>>) /\ ~LastAdd(<<>>)
  BY DEF Clean, NoMacs, LastAdd

LEMMA NoMacsNoAdd ==
    ASSUME NEW c, NoMacs(c)
    PROVE  ~LastAdd(c)
  BY DEF NoMacs, LastAdd, LastMac

LEMMA Joined ==
    ASSUME NEW c \in Seq(Msg), NEW d \in Seq(Msg)
    PROVE  /\ Clean(c) /\ Clean(d) => Clean(c \o d)
           /\ NoMacs(c \o d) <=> NoMacs(c) /\ NoMacs(d)
           /\ NoMacs(d) /\ LastAdd(c \o d) => LastAdd(c)
           /\ ~NoMacs(d) /\ LastAdd(c \o d) => LastAdd(d)
  <1> DEFINE e == c \o d
  <1>1. /\ e \in Seq(Msg) /\ Len(e) = Len(c) + Len(d) /\ Len(c) \in Nat /\ Len(d) \in Nat
        /\ \A n \in 1..Len(e) : e[n] = IF n <= Len(c) THEN c[n] ELSE d[n - Len(c)]
    OBVIOUS
  <1>0. /\ \A n \in 1..Len(c) : e[n] = c[n]
        /\ \A n \in 1..Len(d) : e[n + Len(c)] = d[n]
    OBVIOUS
  <1> HIDE DEF e
  <1>2. \A n \in 1..Len(e) : \/ n \in 1..Len(c) /\ e[n] = c[n]
                             \/ n - Len(c) \in 1..Len(d) /\ e[n] = d[n - Len(c)]
    BY <1>1
  <1>3. /\ \A n \in 1..Len(c) : n \in 1..Len(e) /\ e[n] = c[n]
        /\ \A n \in 1..Len(d) : n + Len(c) \in 1..Len(e) /\ e[n + Len(c)] = d[n]
    <2>1. /\ \A n \in 1..Len(c) : n \in 1..Len(e)
          /\ \A n \in 1..Len(d) : n + Len(c) \in 1..Len(e)
      BY <1>1
    <2> QED BY <1>0, <2>1
  <1>4. Clean(c) /\ Clean(d) => Clean(e)
    <2> SUFFICES ASSUME Clean(c), Clean(d), NEW n \in 1..Len(e)
                 PROVE  e[n].type # "WARM" /\ (IsMac(e[n]) => AddLast(e[n]))
      BY DEF Clean
    <2> QED BY <1>2 DEF Clean
  <1>5. NoMacs(e) <=> NoMacs(c) /\ NoMacs(d)
    BY <1>2, <1>3 DEF NoMacs
  <1>6. ASSUME NEW n \in 1..Len(e), LastMac(e, n), EndsInAdd(e[n])
        PROVE  (NoMacs(d) => LastAdd(c)) /\ (~NoMacs(d) => LastAdd(d))
    <2>1. CASE n \in 1..Len(c) /\ e[n] = c[n]
      <3>1. \A k \in n + 1..Len(c) : k \in 1..Len(c) /\ k \in n + 1..Len(e)
        BY <1>1, <2>1
      <3>2. LastMac(c, n)
        BY <1>3, <1>6, <2>1, <3>1 DEF LastMac
      <3>3. \A k \in 1..Len(d) : k + Len(c) \in n + 1..Len(e)
        BY <1>1, <2>1
      <3>4. NoMacs(d)
        BY <1>3, <1>6, <3>3 DEF LastMac, NoMacs
      <3> QED BY <1>6, <2>1, <3>2, <3>4 DEF LastAdd
    <2>2. CASE n - Len(c) \in 1..Len(d) /\ e[n] = d[n - Len(c)]
      <3> DEFINE h == n - Len(c)
      <3>1. \A k \in h + 1..Len(d) : k \in 1..Len(d) /\ k + Len(c) \in n + 1..Len(e)
        BY <1>1, <2>2
      <3>2. LastMac(d, h)
        BY <1>3, <1>6, <2>2, <3>1 DEF LastMac
      <3>3. ~NoMacs(d)
        BY <2>2, <3>2 DEF LastMac, NoMacs
      <3> QED BY <1>6, <2>2, <3>2, <3>3 DEF LastAdd
    <2> QED BY <1>2, <2>1, <2>2
  <1>7. /\ NoMacs(d) /\ LastAdd(e) => LastAdd(c)
        /\ ~NoMacs(d) /\ LastAdd(e) => LastAdd(d)
    BY <1>6 DEF LastAdd
  <1> QED BY <1>4, <1>5, <1>7 DEF e

(* A message is read. *)
LEMMA Read ==
    ASSUME NEW c \in Seq(Msg), c # <<>>, Clean(c)
    PROVE  LET d == Tail(c)
           IN  /\ Clean(d) /\ (LastAdd(d) => LastAdd(c))
               /\ c[1].type # "WARM" /\ (IsMac(c[1]) => AddLast(c[1]))
               /\ ~IsMac(c[1]) /\ NoMacs(d) => NoMacs(c)
               /\ IsMac(c[1]) => ~NoMacs(c) /\ (NoMacs(d) /\ EndsInAdd(c[1]) => LastAdd(c))
  <1> DEFINE d == Tail(c)
  <1>1. /\ Len(c) \in Nat /\ Len(c) >= 1 /\ Len(d) = Len(c) - 1
        /\ \A n \in 1..Len(c) - 1 : d[n] = c[n + 1]
    OBVIOUS
  <1> HIDE DEF d
  <1>2. \A n \in 1..Len(d) : n + 1 \in 1..Len(c) /\ d[n] = c[n + 1] /\ n \in Nat
    BY <1>1
  <1>3. \A n \in 1..Len(c) : n = 1 \/ (n - 1 \in 1..Len(d) /\ d[n - 1] = c[n])
    BY <1>1
  <1>4. 1 \in 1..Len(c)
    BY <1>1
  <1>5. Clean(d)
    BY <1>2 DEF Clean
  <1>6. LastAdd(d) => LastAdd(c)
    <2> SUFFICES ASSUME NEW n \in 1..Len(d), LastMac(d, n), EndsInAdd(d[n]) PROVE LastAdd(c)
      BY DEF LastAdd
    <2>1. \A k \in n + 1 + 1..Len(c) : k - 1 \in n + 1..Len(d) /\ d[k - 1] = c[k]
      BY <1>1
    <2>2. LastMac(c, n + 1)
      BY <1>2, <2>1 DEF LastMac
    <2> QED BY <1>2, <2>2 DEF LastAdd
  <1>7. ~IsMac(c[1]) /\ NoMacs(d) => NoMacs(c)
    BY <1>3 DEF NoMacs
  <1>8. IsMac(c[1]) /\ NoMacs(d) /\ EndsInAdd(c[1]) => LastAdd(c)
    <2>1. \A k \in 1 + 1..Len(c) : k - 1 \in 1..Len(d) /\ d[k - 1] = c[k]
      BY <1>1
    <2>2. IsMac(c[1]) /\ NoMacs(d) => LastMac(c, 1)
      BY <2>1 DEF LastMac, NoMacs
    <2> QED BY <1>4, <2>2 DEF LastAdd
  <1>9. IsMac(c[1]) => ~NoMacs(c)
    BY <1>4 DEF NoMacs
  <1>10. c[1].type # "WARM" /\ (IsMac(c[1]) => AddLast(c[1]))
    BY <1>4 DEF Clean
  <1> QED BY <1>5, <1>6, <1>7, <1>8, <1>9, <1>10 DEF d

LEMMA ReportsAfter ==
    ASSUME NEW c \in Seq(Msg), NEW d \in Seq(Msg), NEW s, Clean(c), NoMacs(c), Reports(d, s)
    PROVE  Reports(c \o d, s)
  BY Joined, NoMacsNoAdd DEF Reports

LEMMA PendingReports ==
    ASSUME NEW s \in Switch, OfKind(s), QueueTrue(s)
    PROVE  Reports(Pending(s), s)
  <1> DEFINE last == IF s.mac.queued THEN << ItemOf(s.mac) >> ELSE <<>>
             items == s.detached \o last
             state == [type |-> "STATE", up |-> s.up["po"]]
             mac == [type |-> "MAC", items |-> items]
             a == IF s.changed THEN << state >> ELSE <<>>
             b == IF items = <<>> THEN <<>> ELSE << mac >>
  <1>1. /\ ItemOf(s.mac) \in Item /\ s.detached \in Seq(Item) /\ s.up["po"] \in BOOLEAN
        /\ ItemOf(s.mac).op = s.mac.op
    BY DEF ItemOf, Item, Switch, Mac, Port
  <1>2. /\ last \in Seq(Item) /\ (s.mac.queued => Len(last) = 1 /\ last[1] = ItemOf(s.mac))
        /\ (~s.mac.queued => Len(last) = 0)
    BY <1>1
  <1> HIDE DEF last
  <1>3. /\ items \in Seq(Item) /\ Len(items) = Len(s.detached) + Len(last)
        /\ Len(s.detached) \in Nat /\ Len(last) \in Nat
        /\ \A l \in 1..Len(s.detached) : items[l] = s.detached[l]
        /\ \A l \in 1..Len(last) : items[l + Len(s.detached)] = last[l]
    BY <1>1, <1>2
  <1>4. Pending(s) = a \o b
    BY DEF Pending, last
  <1> HIDE DEF items
  <1>5. state \in Msg /\ mac \in Msg /\ state.type = "STATE" /\ mac.type = "MAC" /\ mac.items = items
    BY <1>1, <1>3 DEF Msg
  <1> HIDE DEF state, mac
  <1>6. a \in Seq(Msg) /\ Clean(a) /\ NoMacs(a)
    <2>1. CASE s.changed
      BY <1>5, <2>1 DEF Clean, NoMacs, IsMac
    <2>2. CASE ~s.changed
      BY <2>2, EmptyClean, EmptySeq
    <2> QED BY <2>1, <2>2
  <1>7. Silent(s) <=> items = <<>>
    <2>1. s.detached = <<>> <=> Len(s.detached) = 0
      BY <1>1
    <2>2. items = <<>> <=> Len(items) = 0
      BY <1>3
    <2> QED BY <1>2, <1>3, <2>1, <2>2 DEF Silent
  <1>8. b \in Seq(Msg) /\ Reports(b, s)
    <2>1. CASE items = <<>>
      BY <1>7, <2>1, EmptyClean, EmptySeq DEF Reports
    <2>2. CASE items # <<>>
      <3>1. Len(items) \in Nat /\ Len(items) >= 1
        BY <1>3, <2>2
      <3>2. \A l \in 1..Len(items) - 1 : items[l].op = "del"
        <4> SUFFICES ASSUME NEW l \in 1..Len(items) - 1 PROVE items[l].op = "del"
          OBVIOUS
        <4>1. l \in 1..Len(s.detached)
          BY <1>2, <1>3
        <4> QED BY <1>3, <4>1 DEF QueueTrue
      <3>3. items[Len(items)].op = "add" => Knows(s)
        <4>1. CASE s.mac.queued
          <5>1. Len(last) = 1 /\ last[1] = ItemOf(s.mac)
            BY <1>2, <4>1
          <5>2. 1 \in 1..Len(last)
            BY <5>1
          <5>3. Len(items) = 1 + Len(s.detached)
            BY <1>3, <5>1
          <5>4. items[1 + Len(s.detached)] = last[1]
            BY <1>3, <5>2
          <5>5. items[Len(items)] = ItemOf(s.mac)
            BY <5>1, <5>3, <5>4
          <5> QED BY <1>1, <4>1, <5>5 DEF QueueTrue, OfKind, Knows
        <4>2. CASE ~s.mac.queued
          <5>1. Len(items) \in 1..Len(s.detached) /\ items[Len(items)] = s.detached[Len(items)]
            BY <1>2, <1>3, <3>1, <4>2
          <5> QED BY <5>1 DEF QueueTrue
        <4> QED BY <4>1, <4>2
      <3>4. AddLast(mac) /\ (EndsInAdd(mac) => Knows(s)) /\ IsMac(mac) /\ mac.type # "WARM"
        BY <1>5, <2>2, <3>2, <3>3 DEF AddLast, EndsInAdd, IsMac
      <3>5. b \in Seq(Msg) /\ Len(b) = 1 /\ b[1] = mac
        BY <1>5, <2>2
      <3> HIDE DEF b
      <3>6. \A n \in 1..Len(b) : b[n] = mac
        BY <3>5
      <3>7. 1 \in 1..Len(b)
        BY <3>5
      <3>8. Clean(b) /\ ~NoMacs(b) /\ (LastAdd(b) => Knows(s))
        BY <3>4, <3>5, <3>6, <3>7 DEF Clean, NoMacs, LastAdd
      <3> QED BY <1>7, <2>2, <3>5, <3>8 DEF Reports
    <2> QED BY <2>1, <2>2
  <1> HIDE DEF a, b
  <1> QED BY <1>4, <1>6, <1>8, ReportsAfter

LEMMA PendingSilent ==
    ASSUME NEW s \in Switch, OfKind(s), QueueTrue(s), Pending(s) = <<>>
    PROVE  Silent(s)
  BY PendingReports, EmptyClean DEF Reports

-----------------------------------------------------------------------------
(* AgreeInv and its steps *)

(* DropTold and PoLearntUp, of notifications c and what is learnt, l. *)
Told(s, c, l) ==
    /\ Unset(s) => l # "none" \/ c # <<>>
    /\ s.kind = "dynamic" /\ ~s.up["po"] =>
          l # "po" /\ \A n \in 1..Len(c) : c[n].op = "add" => c[n].port # "po"

LEMMA ToldLocal ==
    ASSUME NEW s, NEW t, NEW c, NEW l, Told(s, c, l), Stable(t, s), Unset(t) => Unset(s)
    PROVE  Told(t, c, l)
  BY DEF Told, Stable

LEMMA ToldMore ==
    ASSUME NEW s, NEW c \in Seq(Item), NEW l, NEW k, Told(s, c, l), NEW x \in Item,
           \/ x.op # "add" /\ k \in {l, "none"}
           \/ x.port = k /\ (s.kind = "dynamic" /\ ~s.up["po"] => k # "po")
    PROVE  Told(s, Append(c, x), k)
  <1> DEFINE d == Append(c, x)
  <1>1. /\ Len(c) \in Nat /\ Len(d) = Len(c) + 1 /\ d[Len(c) + 1] = x
        /\ \A n \in 1..Len(c) : d[n] = c[n]
    OBVIOUS
  <1> HIDE DEF d
  <1>2. d # <<>> /\ \A n \in 1..Len(d) : n \in 1..Len(c) \/ n = Len(c) + 1
    BY <1>1
  <1>3. ASSUME s.kind = "dynamic", ~s.up["po"], NEW n \in 1..Len(d), d[n].op = "add"
        PROVE  d[n].port # "po"
    BY <1>1, <1>2, <1>3 DEF Told
  <1> QED BY <1>2, <1>3 DEF d, Told

LEMMA ToldEmpty ==
    ASSUME NEW s, NEW l, ~Unset(s), s.kind = "dynamic" /\ ~s.up["po"] => l # "po"
    PROVE  Told(s, <<>>, l)
  BY DEF Told

LEMMA StageRight ==
    ASSUME NEW s \in Switch, Right(s), s.state # "EXCHANGE", NEW x \in State, x # "EXCHANGE"
    PROVE  LET t == [s EXCEPT !.state = x]
           IN  /\ Stable(t, s) /\ Right(t) /\ t.state = x
               /\ (Heard(t) => Heard(s)) /\ (Unset(t) => Unset(s))
  <1> DEFINE t == [s EXCEPT !.state = x]
  <1>1. /\ t \in Switch /\ t.state = x /\ t.mac = s.mac /\ t.detached = s.detached /\ t.chip = s.chip
        /\ t.inherited = s.inherited /\ t.kind = s.kind /\ t.haslink = s.haslink /\ t.warm = s.warm
        /\ t.up = s.up
    BY DEF Switch
  <1> SUFFICES /\ Stable(t, s) /\ Right(t) /\ t.state = x
               /\ (Heard(t) => Heard(s)) /\ (Unset(t) => Unset(s))
    OBVIOUS
  <1> HIDE DEF t
  <1>2. QueueTrue(t)
    BY <1>1 DEF Right, QueueTrue, Silent
  <1>3. WellPlaced(t) /\ (Unset(t) => Unset(s))
    BY <1>1 DEF Right, WellPlaced, Unset, Tracked, Knows
  <1> QED BY <1>1, <1>2, <1>3 DEF Stable, Right, Heard

(* What x has told s, and what s knows of it. *)
LEMMA HearingSame ==
    ASSUME NEW s, NEW t, NEW x, NEW c, Hearing(s, x, c), Heard(t) => Heard(s)
    PROVE  Hearing(t, x, c)
  BY DEF Hearing

LEMMA HearingTells ==
    ASSUME NEW y, NEW s, NEW t, NEW d, Hearing(y, s, d), t.state = s.state, Tells(t, s)
    PROVE  Hearing(y, t, d)
  BY NoMacsNoAdd DEF Hearing, Tells

LEMMA HearingBefore ==
    ASSUME NEW y, NEW s, NEW t, NEW d, Hearing(y, s, d), s.state # "EXCHANGE"
    PROVE  Hearing(y, t, d)
  BY NoMacsNoAdd DEF Hearing

(* s becomes u, and sends all it has to say. *)
LEMMA HearingReports ==
    ASSUME NEW y, NEW s, NEW u, NEW t, NEW d \in Seq(Msg), NEW o \in Seq(Msg), Hearing(y, s, d),
           s.state = "EXCHANGE" => Tells(u, s), Reports(o, u), t.state = "EXCHANGE",
           Knows(u) => Knows(t)
    PROVE  Hearing(y, t, d \o o)
  <1>1. LastAdd(d \o o) => Knows(u)
    <2>1. CASE Silent(u)
      BY <2>1, Joined, NoMacsNoAdd DEF Reports, Hearing, Tells
    <2>2. CASE ~Silent(u)
      BY <2>2, Joined DEF Reports
    <2> QED BY <2>1, <2>2
  <1>2. NoMacs(d \o o) /\ Heard(y) => Knows(u)
    <2>1. CASE Silent(u)
      BY <2>1, Joined DEF Reports, Hearing, Tells
    <2>2. CASE ~Silent(u)
      BY <2>2, Joined DEF Reports
    <2> QED BY <2>1, <2>2
  <1> QED BY <1>1, <1>2 DEF Hearing

(* s reads a message of c, and becomes t. *)
LEMMA HearingRead ==
    ASSUME NEW s, NEW t, NEW x, NEW c \in Seq(Msg), c # <<>>, Clean(c), Hearing(s, x, c),
           ~IsMac(c[1]) => (Heard(t) => Heard(s)),
           IsMac(c[1]) /\ ~EndsInAdd(c[1]) => ~Heard(t)
    PROVE  Hearing(t, x, Tail(c))
  <1> DEFINE d == Tail(c)
  <1>1. /\ (LastAdd(d) => LastAdd(c))
        /\ ~IsMac(c[1]) /\ NoMacs(d) => NoMacs(c)
        /\ IsMac(c[1]) => ~NoMacs(c) /\ (NoMacs(d) /\ EndsInAdd(c[1]) => LastAdd(c))
    BY Read
  <1>2. NoMacs(c) => NoMacs(d)
    <2>1. /\ Len(c) \in Nat /\ Len(d) = Len(c) - 1 /\ \A n \in 1..Len(c) - 1 : d[n] = c[n + 1]
      OBVIOUS
    <2>2. \A n \in 1..Len(d) : n + 1 \in 1..Len(c) /\ d[n] = c[n + 1]
      BY <2>1
    <2> HIDE DEF d
    <2> QED BY <2>2 DEF NoMacs
  <1> HIDE DEF d
  <1>3. CASE IsMac(c[1])
    BY <1>1, <1>3 DEF Hearing, d
  <1>4. CASE ~IsMac(c[1])
    BY <1>1, <1>2, <1>4 DEF Hearing, d
  <1> QED BY <1>3, <1>4

(* What AgreeInv says of p. *)
Agrees(s, x, c, n, l, j) ==
    Right(s) /\ Told(s, n, l) /\ Clean(c) /\ (j => Hearing(s, x, c))

LEMMA AgreeInvIs ==
    /\ AgreeInv => \A p \in Peer : Agrees(sw[p], sw[Other(p)], ch[p], note[p], learnt[p],
                                          joined[p] /\ joined[Other(p)])
    /\ (\A p \in Peer : Agrees(sw[p], sw[Other(p)], ch[p], note[p], learnt[p],
                               joined[p] /\ joined[Other(p)])) => AgreeInv
  <1>1. ASSUME NEW p \in Peer
        PROVE  /\ HearsTrue(p) => (joined[p] /\ joined[Other(p)] => Hearing(sw[p], sw[Other(p)], ch[p]))
               /\ (joined[p] /\ joined[Other(p)] => Hearing(sw[p], sw[Other(p)], ch[p])) => HearsTrue(p)
    BY DEF HearsTrue, Hearing, LastAdd, Heard
  <1> QED BY <1>1 DEF AgreeInv, Agrees, Right, Told, DropTold, PoLearntUp, Clean

LEMMA AgreeInvNext ==
    ASSUME \A p \in Peer : Agrees(sw'[p], sw'[Other(p)], ch'[p], note'[p], learnt'[p],
                                  joined'[p] /\ joined'[Other(p)])
    PROVE  AgreeInv'
  <1>1. ASSUME NEW p \in Peer PROVE HearsTrue(p)'
    <2>1. joined'[p] /\ joined'[Other(p)] => Hearing(sw'[p], sw'[Other(p)], ch'[p])
      BY DEF Agrees
    <2> QED BY <2>1 DEF HearsTrue, Hearing, LastAdd, Heard, NoMacs, LastMac, EndsInAdd, IsMac, Silent, Knows, Other
  <1>2. ASSUME NEW p \in Peer PROVE DropTold(p)' /\ PoLearntUp(p)'
    <2>1. Told(sw'[p], note'[p], learnt'[p])
      BY DEF Agrees
    <2> QED BY <2>1 DEF Told, DropTold, PoLearntUp, Unset, Tracked, Knows
  <1>3. ASSUME NEW p \in Peer
        PROVE  (/\ sw[p].haslink /\ ~sw[p].warm /\ QueueTrue(sw[p]) /\ WellPlaced(sw[p])
                /\ \A n \in 1..Len(ch[p]) :
                      ch[p][n].type # "WARM" /\ (IsMac(ch[p][n]) => AddLast(ch[p][n])))'
    <2>1. Right(sw'[p]) /\ Clean(ch'[p])
      BY DEF Agrees
    <2> QED BY <2>1 DEF Right, Clean, QueueTrue, WellPlaced, Silent, Knows, Tracked, IsMac, AddLast
  <1> QED BY <1>1, <1>2, <1>3 DEF AgreeInv

AgreeOK == ChipOK /\ AgreeInv

LEMMA AgreeFacts ==
    ASSUME AgreeOK, NEW p \in Peer
    PROVE  LET s == sw[p]
               x == sw[Other(p)]
           IN  /\ ChipOK /\ MacOK /\ s \in Switch /\ SwitchInv(s) /\ Good(s) /\ Wired(s)
               /\ Kin(s) /\ OfKind(s) /\ Right(s) /\ Told(s, note[p], learnt[p])
               /\ note[p] \in Seq(Item) /\ ch[p] \in Seq(Msg) /\ ch[Other(p)] \in Seq(Msg)
               /\ Clean(ch[p]) /\ Clean(ch[Other(p)])
               /\ joined[p] /\ joined[Other(p)] =>
                     Hearing(s, x, ch[p]) /\ Hearing(x, s, ch[Other(p)])
  <1>1. /\ Agrees(sw[p], sw[Other(p)], ch[p], note[p], learnt[p], joined[p] /\ joined[Other(p)])
        /\ Agrees(sw[Other(p)], sw[p], ch[Other(p)], note[Other(p)], learnt[Other(p)],
                  joined[Other(p)] /\ joined[p])
    BY Peers, AgreeInvIs DEF AgreeOK
  <1>2. ChipOK /\ MacOK
    BY ChipFacts DEF AgreeOK
  <1>3. /\ sw[p] \in Switch /\ SwitchInv(sw[p]) /\ OfKind(sw[p])
        /\ note[p] \in Seq(Item) /\ ch[p] \in Seq(Msg) /\ ch[Other(p)] \in Seq(Msg)
    BY <1>2, Facts, Peers
  <1>4. Good(sw[p]) /\ Wired(sw[p])
    BY <1>2, ChipFacts
  <1>5. Kin(sw[p])
    BY <1>3, <1>4, KinOf
  <1> QED BY <1>1, <1>2, <1>3, <1>4, <1>5 DEF Agrees

(* A step of p. *)
LEMMA AgreeStep ==
    ASSUME AgreeOK, NEW p \in Peer, NEW t, sw' = [sw EXCEPT ![p] = t],
           Right(t), Told(t, note'[p], learnt'[p]), Clean(ch'[p]), Clean(ch'[Other(p)]),
           note'[Other(p)] = note[Other(p)], learnt'[Other(p)] = learnt[Other(p)],
           joined'[p] /\ joined'[Other(p)] =>
              Hearing(t, sw[Other(p)], ch'[p]) /\ Hearing(sw[Other(p)], t, ch'[Other(p)])
    PROVE  AgreeInv'
  <1> DEFINE q == Other(p)
  <1>1. q \in Peer /\ q # p /\ Other(q) = p /\ \A r \in Peer : r = p \/ r = q
    BY Peers
  <1>2. sw'[p] = t /\ sw'[q] = sw[q]
    BY <1>1 DEF AgreeOK, ChipOK, MacOK, TypeOK
  <1>3. Right(sw[q]) /\ Told(sw[q], note[q], learnt[q])
    BY <1>1, AgreeFacts
  <1>4. Agrees(t, sw[q], ch'[p], note'[p], learnt'[p], joined'[p] /\ joined'[q])
    BY DEF Agrees
  <1>5. Agrees(sw[q], t, ch'[q], note'[q], learnt'[q], joined'[q] /\ joined'[p])
    BY <1>3 DEF Agrees
  <1> HIDE DEF q
  <1>6. ASSUME NEW r \in Peer
        PROVE  Agrees(sw'[r], sw'[Other(r)], ch'[r], note'[r], learnt'[r], joined'[r] /\ joined'[Other(r)])
    <2>1. CASE r = p
      BY <1>2, <1>4, <2>1 DEF q
    <2>2. CASE r = q
      BY <1>1, <1>2, <1>5, <2>2
    <2> QED BY <1>1, <2>1, <2>2
  <1> QED BY <1>6, AgreeInvNext

(* A step that concerns neither the session nor what is sent. *)
LEMMA LocalStep ==
    ASSUME AgreeOK, NEW p \in Peer, NEW t, sw' = [sw EXCEPT ![p] = t], Local(t, sw[p]),
           Told(t, note'[p], learnt'[p]), ch' = ch, joined' = joined,
           note'[Other(p)] = note[Other(p)], learnt'[Other(p)] = learnt[Other(p)]
    PROVE  AgreeInv'
  <1> DEFINE q == Other(p)
  <1>1. /\ Clean(ch[p]) /\ Clean(ch[q])
        /\ joined[p] /\ joined[q] => Hearing(sw[p], sw[q], ch[p]) /\ Hearing(sw[q], sw[p], ch[q])
    BY AgreeFacts
  <1>2. Right(t) /\ t.state = sw[p].state /\ Tells(t, sw[p]) /\ (Heard(t) => Heard(sw[p]))
    BY DEF Local, Honest
  <1>3. joined[p] /\ joined[q] => Hearing(t, sw[q], ch[p]) /\ Hearing(sw[q], t, ch[q])
    BY <1>1, <1>2, HearingSame, HearingTells
  <1> QED BY <1>1, <1>2, <1>3, AgreeStep

LEMMA QuietStep ==
    ASSUME AgreeOK, NEW p \in Peer, NEW t, sw' = [sw EXCEPT ![p] = t], LocalToo(t, sw[p]),
           ch' = ch, joined' = joined, note' = note, learnt' = learnt
    PROVE  AgreeInv'
  <1>1. Told(sw[p], note[p], learnt[p])
    BY AgreeFacts
  <1>2. Local(t, sw[p]) /\ Stable(t, sw[p]) /\ (Unset(t) => Unset(sw[p]))
    BY DEF LocalToo, Local, Honest
  <1>3. Told(t, note[p], learnt[p])
    BY <1>1, <1>2, ToldLocal
  <1> QED BY <1>2, <1>3, LocalStep

(* p reads to mine, becomes u and sends o, which is all it has to say. *)
LEMMA TurnStep ==
    ASSUME AgreeOK, NEW p \in Peer, NEW u \in Switch, Right(u), u.state = "EXCHANGE",
           Stable(u, sw[p]), Unset(u) => Unset(sw[p]), sw[p].state = "EXCHANGE" => Tells(u, sw[p]),
           NEW mine, Clean(mine), joined[p] /\ joined[Other(p)] => Hearing(u, sw[Other(p)], mine),
           NEW o \in Seq(Msg), Reports(o, u), sw' = [sw EXCEPT ![p] = Flushed(u)], ch'[p] = mine,
           ch'[Other(p)] = (IF joined[Other(p)] THEN ch[Other(p)] \o o ELSE ch[Other(p)]),
           joined' = joined, note' = note, learnt' = learnt, joined[p]
    PROVE  AgreeInv'
  <1> DEFINE q == Other(p)
             t == Flushed(u)
  <1>1. /\ Stable(t, u) /\ Right(t) /\ t.state = u.state /\ Silent(t)
        /\ (Knows(t) <=> Knows(u)) /\ (Heard(t) <=> Heard(u)) /\ (Unset(t) <=> Unset(u))
    BY FlushedRight
  <1>2. sw' = [sw EXCEPT ![p] = t]
    OBVIOUS
  <1> HIDE DEF t
  <1>3. /\ Told(sw[p], note[p], learnt[p]) /\ Clean(ch[q]) /\ ch[q] \in Seq(Msg)
        /\ joined[p] /\ joined[q] => Hearing(sw[q], sw[p], ch[q])
    BY AgreeFacts
  <1>4. Stable(t, sw[p]) /\ (Unset(t) => Unset(sw[p]))
    BY <1>1 DEF Stable
  <1>5. Told(t, note[p], learnt[p])
    BY <1>3, <1>4, ToldLocal
  <1>6. Clean(ch'[q])
    BY <1>3, Joined DEF Reports
  <1>7. joined[q] => Hearing(t, sw[q], mine)
    BY <1>1, HearingSame
  <1>8. joined[q] => Hearing(sw[q], t, ch'[q])
    <2> HAVE joined[q]
    <2>1. ch'[q] = ch[q] \o o
      OBVIOUS
    <2>2. Hearing(sw[q], t, ch[q] \o o)
      BY <1>1, <1>3, HearingReports
    <2> QED BY <2>1, <2>2
  <1> QED BY <1>1, <1>2, <1>5, <1>6, <1>7, <1>8, AgreeStep

LEMMA AgreeSendInfo ==
    ASSUME AgreeOK, NEW p \in Peer, SendInfo(p)
    PROVE  AgreeInv'
  <1> DEFINE s == sw[p]
             q == Other(p)
             a == [s EXCEPT !.changed = FALSE]
             u == Informed(p, s)
             up == u.state = "EXCHANGE"
             i == Info(s)
             out == i \o (IF up THEN Pending(u) ELSE <<>>)
  <1>0. /\ MacOK /\ s \in Switch /\ SwitchInv(s) /\ Kin(s) /\ Right(s) /\ Told(s, note[p], learnt[p])
        /\ ch[p] \in Seq(Msg) /\ ch[q] \in Seq(Msg) /\ Clean(ch[p]) /\ Clean(ch[q])
        /\ joined[p] /\ joined[q] => Hearing(s, sw[q], ch[p]) /\ Hearing(sw[q], s, ch[q])
        /\ q \in Peer /\ q # p
    BY AgreeFacts, Peers
  <1>1. /\ sw' = [sw EXCEPT ![p] = IF up THEN Flushed(u) ELSE u]
        /\ ch' = [ch EXCEPT ![q] = IF joined[q] THEN @ \o out ELSE @]
        /\ joined' = joined /\ note' = note /\ learnt' = learnt /\ joined[p]
        /\ s.state # "EXCHANGE"
    BY DEF SendInfo, Sent, MustInform
  <1>2. u \in Switch /\ OfKind(u) /\ u.state = IF p = Active THEN "STAGE2" ELSE "EXCHANGE"
    BY <1>0, InformedIs DEF Moved, SwitchInv
  <1>3. u = IF p = Active THEN [a EXCEPT !.state = "STAGE2"] ELSE Connected(a)
    BY DEF Informed
  <1>4. LocalToo(a, s) /\ Kin(a) /\ a \in Switch /\ a.state = s.state
    <2>1. /\ a \in Switch /\ a.mac = s.mac /\ a.detached = s.detached /\ a.chip = s.chip
          /\ a.inherited = s.inherited /\ a.kind = s.kind /\ a.haslink = s.haslink
          /\ a.warm = s.warm /\ a.state = s.state /\ a.up = s.up
      BY <1>0 DEF Switch
    <2> HIDE DEF a
    <2> QED BY <1>0, <2>1, SameLocal
  <1>5. Stable(a, s) /\ Right(a) /\ (Heard(a) => Heard(s)) /\ (Unset(a) => Unset(s))
    BY <1>4 DEF LocalToo, Local, Honest
  <1> HIDE DEF a
  <1>6. Stable(u, a) /\ Right(u) /\ (Heard(u) => Heard(a)) /\ (Unset(u) => Unset(a))
    <2>1. CASE p = Active
      <3> DEFINE w == [a EXCEPT !.state = "STAGE2"]
      <3>1. "STAGE2" \in State /\ "STAGE2" # "EXCHANGE" /\ a.state # "EXCHANGE"
        BY <1>1, <1>4 DEF State
      <3>2. Stable(w, a) /\ Right(w) /\ (Heard(w) => Heard(a)) /\ (Unset(w) => Unset(a))
        BY <1>4, <1>5, <3>1, StageRight
      <3>3. u = w
        BY <1>3, <2>1
      <3> HIDE DEF u, w
      <3> QED BY <3>2, <3>3
    <2>2. CASE p # Active
      BY <1>1, <1>3, <1>4, <1>5, <2>2, ConnectedRight
    <2> QED BY <2>1, <2>2
  <1>7. Stable(u, s) /\ (Heard(u) => Heard(s)) /\ (Unset(u) => Unset(s))
    BY <1>5, <1>6 DEF Stable
  <1> HIDE DEF u
  <1>8. i \in Seq(Msg) /\ Clean(i) /\ NoMacs(i)
    <2> DEFINE m == [type |-> "INFO", up |-> s.up["po"]]
    <2>1. s.up["po"] \in BOOLEAN
      BY <1>0 DEF Switch, Port
    <2>2. m \in Msg /\ m.type = "INFO"
      BY <2>1 DEF Msg
    <2>3. i = <<m>>
      BY DEF Info
    <2> HIDE DEF m, i
    <2>4. Len(i) = 1 /\ i[1] = m /\ i \in Seq(Msg)
      BY <2>2, <2>3
    <2> QED BY <2>2, <2>4 DEF Clean, NoMacs, IsMac
  <1> HIDE DEF i
  <1>9. out \in Seq(Msg) /\ (up => out = i \o Pending(u)) /\ (~up => out = i)
    BY <1>2, <1>8, PendingIs, EmptySeq
  <1>10. ch'[p] = ch[p] /\ ch'[q] = IF joined[q] THEN ch[q] \o out ELSE ch[q]
    <2>1. ch \in [Peer -> Seq(Msg)]
      BY <1>0 DEF MacOK, TypeOK
    <2> HIDE DEF out
    <2> QED BY <1>0, <1>1, <2>1
  <1> HIDE DEF out
  <1>11. CASE up
    <2>1. Reports(out, u)
      BY <1>2, <1>6, <1>8, <1>9, <1>11, PendingIs, PendingReports, ReportsAfter DEF Right
    <2>2. joined[p] /\ joined[q] => Hearing(u, sw[q], ch[p])
      BY <1>0, <1>7, HearingSame
    <2>3. sw' = [sw EXCEPT ![p] = Flushed(u)]
      BY <1>1, <1>11
    <2> QED BY <1>0, <1>1, <1>2, <1>6, <1>7, <1>9, <1>10, <1>11, <2>1, <2>2, <2>3, TurnStep
  <1>12. CASE ~up
    <2>1. sw' = [sw EXCEPT ![p] = u]
      BY <1>1, <1>12
    <2>2. Told(u, note[p], learnt[p])
      BY <1>0, <1>7, ToldLocal
    <2>3. Clean(ch'[q])
      BY <1>0, <1>8, <1>9, <1>10, <1>12, Joined
    <2>4. joined[q] => Hearing(u, sw[q], ch[p])
      BY <1>0, <1>1, <1>7, HearingSame
    <2>5. joined[q] => Hearing(sw[q], u, ch'[q])
      <3> HAVE joined[q]
      <3>1. NoMacs(ch[q]) /\ ~Heard(sw[q])
        BY <1>0, <1>1 DEF Hearing
      <3>2. NoMacs(ch'[q])
        BY <1>0, <1>8, <1>9, <1>10, <1>12, <3>1, Joined
      <3> QED BY <3>1, <3>2, NoMacsNoAdd DEF Hearing
    <2> QED BY <1>0, <1>1, <1>6, <1>10, <2>1, <2>2, <2>3, <2>4, <2>5, AgreeStep
  <1> QED BY <1>11, <1>12

LEMMA AgreeFlush ==
    ASSUME AgreeOK, NEW p \in Peer, Flush(p)
    PROVE  AgreeInv'
  <1> DEFINE s == sw[p]
             q == Other(p)
             o == Pending(s)
  <1>0. /\ MacOK /\ s \in Switch /\ SwitchInv(s) /\ OfKind(s) /\ Kin(s) /\ Right(s) /\ Clean(ch[p])
        /\ joined[p] /\ joined[q] => Hearing(s, sw[q], ch[p])
        /\ q \in Peer /\ q # p
    BY AgreeFacts, Peers
  <1>1. /\ sw' = [sw EXCEPT ![p] = Flushed(s)]
        /\ ch' = [ch EXCEPT ![q] = IF joined[q] THEN @ \o o ELSE @]
        /\ joined' = joined /\ note' = note /\ learnt' = learnt /\ joined[p]
        /\ s.state = "EXCHANGE"
    BY DEF Flush, Sent
  <1>2. o \in Seq(Msg) /\ Reports(o, s)
    BY <1>0, PendingIs, PendingReports DEF Right
  <1>3. Stable(s, s) /\ Tells(s, s)
    BY <1>0 DEF Stable, Tells
  <1> HIDE DEF o
  <1>4. ch'[p] = ch[p] /\ ch'[q] = IF joined[q] THEN ch[q] \o o ELSE ch[q]
    BY <1>0, <1>1 DEF MacOK, TypeOK
  <1> QED BY <1>0, <1>1, <1>2, <1>3, <1>4, TurnStep

LEMMA AgreeReceive ==
    ASSUME AgreeOK, NEW p \in Peer, Receive(p)
    PROVE  AgreeInv'
  <1> DEFINE s == sw[p]
             q == Other(p)
             m == Head(ch[p])
             rest == Tail(ch[p])
             v == PeerPo(s, m.up)
             u == Received(p, s, m)
             up == u.state = "EXCHANGE"
             o == Pending(u)
  <1>0. /\ MacOK /\ s \in Switch /\ SwitchInv(s) /\ Good(s) /\ Wired(s) /\ Kin(s) /\ Right(s)
        /\ Told(s, note[p], learnt[p])
        /\ ch[p] \in Seq(Msg) /\ ch[q] \in Seq(Msg) /\ Clean(ch[p]) /\ Clean(ch[q])
        /\ joined[p] /\ joined[q] => Hearing(s, sw[q], ch[p]) /\ Hearing(sw[q], s, ch[q])
        /\ q \in Peer /\ q # p
    BY AgreeFacts, Peers
  <1>1. /\ sw' = [sw EXCEPT ![p] = IF up THEN Flushed(u) ELSE u]
        /\ ch' = [ch EXCEPT ![p] = rest, ![q] = IF up /\ joined[q] THEN @ \o o ELSE @]
        /\ joined' = joined /\ note' = note /\ learnt' = learnt /\ joined[p] /\ ch[p] # <<>>
    BY DEF Receive
  <1>2. /\ m \in Msg /\ m = ch[p][1]
        /\ \/ s.state = "EXCHANGE" /\ m.type # "INFO"
           \/ p = Active /\ s.state = "STAGE2" /\ m.type = "INFO"
           \/ p = Standby /\ s.state = "STAGE1" /\ m.type = "INFO"
        /\ m.type = "MAC" => /\ s.state = "EXCHANGE"
                             /\ \A l \in 1..Len(m.items) : m.items[l].type = s.kind
    BY <1>0, HeadIs
  <1>3. /\ u \in Switch /\ OfKind(u)
        /\ u.state = IF m.type = "INFO" THEN IF p = Standby THEN "STAGE2" ELSE "EXCHANGE" ELSE s.state
    BY <1>0, <1>2, ReceivedIs DEF Moved, SwitchInv
  <1>4. /\ m.type \in {"INFO", "STATE", "MAC", "WARM"}
        /\ m.type \in {"INFO", "STATE"} => m.up \in BOOLEAN
        /\ m.type = "MAC" => m.items \in Seq(Item)
    BY <1>2 DEF Msg
  <1>5. Clean(rest) /\ m.type # "WARM" /\ (IsMac(m) => AddLast(m))
    BY <1>0, <1>1, <1>2, Read
  <1>6. /\ m.type = "INFO" => u = IF p = Standby THEN [v EXCEPT !.state = "STAGE2"] ELSE Connected(v)
        /\ m.type = "STATE" => u = v
        /\ m.type = "MAC" => u = FromPeers(s, m.items)
    BY DEF Received
  <1>7. ch'[p] = rest /\ ch'[q] = IF up /\ joined[q] THEN ch[q] \o o ELSE ch[q]
    <2>1. ch \in [Peer -> Seq(Msg)]
      BY <1>0 DEF MacOK, TypeOK
    <2> HIDE DEF o, rest, u
    <2> QED BY <1>0, <1>1, <2>1
  <1>8. m.type \in {"INFO", "STATE"} => LocalToo(v, s)
    BY <1>0, <1>4, PeerPoLocal
  <1>9. m.type = "INFO" => SwitchInv(v) /\ Good(v)
    BY <1>0, <1>2, <1>4, PeerPoInv, PeerPoFine DEF Fine
  <1>10. m.type \in {"INFO", "STATE"} =>
            /\ v \in Switch /\ Stable(v, s) /\ Right(v) /\ v.state = s.state /\ Tells(v, s)
            /\ (Heard(v) => Heard(s)) /\ (Unset(v) => Unset(s))
    BY <1>8 DEF LocalToo, Local, Honest, Stable
  <1>11. m.type = "INFO" => Kin(v)
    BY <1>9, KinOf
  <1>12. m.type = "MAC" => /\ Honest(u, s) /\ (Unset(u) => Unset(s))
                           /\ ~EndsInAdd(m) => ~Heard(u)
    <2> HAVE m.type = "MAC"
    <2>1. m.items # <<>>
      BY <1>5 DEF IsMac, AddLast
    <2>2. m.items[Len(m.items)].op \in {"add", "del"}
      <3>1. Len(m.items) \in 1..Len(m.items)
        BY <1>4, <2>1
      <3>2. m.items[Len(m.items)] \in Item
        BY <1>4, <3>1
      <3> QED BY <3>2 DEF Item, Op
    <2> HIDE DEF u, m
    <2> QED BY <1>0, <1>2, <1>4, <1>6, <2>1, <2>2, FromPeersHonest DEF EndsInAdd
  <1> HIDE DEF v, u, m, rest
  <1>13. CASE m.type = "INFO" /\ p = Standby
    <2>1. s.state = "STAGE1" /\ ~up /\ u = [v EXCEPT !.state = "STAGE2"]
      BY <1>2, <1>3, <1>6, <1>13, PeerAssumption
    <2>2. Stable(u, v) /\ Right(u) /\ (Heard(u) => Heard(v)) /\ (Unset(u) => Unset(v))
      BY <1>10, <1>13, <2>1, StageRight DEF State
    <2>3. Stable(u, s) /\ (Heard(u) => Heard(s)) /\ (Unset(u) => Unset(s))
      BY <1>10, <1>13, <2>2 DEF Stable
    <2>4. Told(u, note[p], learnt[p])
      BY <1>0, <2>3, ToldLocal
    <2>5. joined[q] => Hearing(u, sw[q], rest)
      <3>1. ~IsMac(ch[p][1])
        BY <1>2, <1>13 DEF IsMac
      <3> QED BY <1>0, <1>1, <2>3, <3>1, HearingRead DEF rest
    <2>6. joined[q] => Hearing(sw[q], u, ch[q])
      BY <1>0, <1>1, <2>1, HearingBefore
    <2>7. sw' = [sw EXCEPT ![p] = u]
      BY <1>1, <2>1
    <2>8. ch'[q] = ch[q]
      BY <1>7, <2>1
    <2> QED BY <1>0, <1>1, <1>5, <1>7, <2>2, <2>4, <2>5, <2>6, <2>7, <2>8, AgreeStep
  <1>14. CASE ~(m.type = "INFO" /\ p = Standby)
    <2>1. up
      BY <1>2, <1>3, <1>14
    <2>2. /\ Right(u) /\ Stable(u, s) /\ (Unset(u) => Unset(s))
          /\ s.state = "EXCHANGE" => Tells(u, s)
          /\ ~IsMac(m) => (Heard(u) => Heard(s))
          /\ IsMac(m) /\ ~EndsInAdd(m) => ~Heard(u)
      <3>1. CASE m.type = "INFO"
        <4>1. s.state # "EXCHANGE" /\ u = Connected(v)
          BY <1>2, <1>6, <1>14, <3>1
        <4>2. Stable(u, v) /\ Right(u) /\ (Heard(u) => Heard(v)) /\ (Unset(u) => Unset(v))
          BY <1>10, <1>11, <3>1, <4>1, ConnectedRight
        <4> QED BY <1>10, <3>1, <4>1, <4>2 DEF Stable, IsMac
      <3>2. CASE m.type = "STATE"
        BY <1>6, <1>10, <3>2 DEF IsMac
      <3>3. CASE m.type = "MAC"
        BY <1>12, <3>3 DEF IsMac, Honest
      <3> QED BY <1>4, <1>5, <3>1, <3>2, <3>3
    <2>3. joined[p] /\ joined[q] => Hearing(u, sw[q], rest)
      BY <1>0, <1>1, <1>2, <2>2, HearingRead DEF rest
    <2>4. o \in Seq(Msg) /\ Reports(o, u)
      BY <1>3, <2>2, PendingIs, PendingReports DEF Right
    <2>5. sw' = [sw EXCEPT ![p] = Flushed(u)]
      BY <1>1, <2>1
    <2> HIDE DEF o
    <2>6. ch'[q] = IF joined[q] THEN ch[q] \o o ELSE ch[q]
      BY <1>7, <2>1
    <2> QED BY <1>0, <1>1, <1>3, <1>5, <1>7, <2>1, <2>2, <2>3, <2>4, <2>5, <2>6, TurnStep
  <1> QED BY <1>13, <1>14

LEMMA AgreeTimers ==
    ASSUME AgreeOK, NEW p \in Peer, DownTimer(p) \/ WarmTimer(p) \/ Prepare(p)
    PROVE  AgreeInv'
  <1> DEFINE s == sw[p]
             l == [s EXCEPT !.plif = TRUE]
  <1>0. s \in Switch /\ Kin(s) /\ Right(s)
    BY AgreeFacts
  <1>1. note' = note /\ learnt' = learnt /\ joined' = joined /\ ch' = ch
    BY DEF DownTimer, WarmTimer, Prepare
  <1>2. CASE DownTimer(p)
    <2>1. sw' = [sw EXCEPT ![p] = TimerExpired(s)]
      BY <1>2 DEF DownTimer
    <2> QED BY <1>0, <1>1, <2>1, TimerExpiredLocal, QuietStep
  <1>3. CASE WarmTimer(p)
    BY <1>0, <1>3 DEF WarmTimer, Right
  <1>4. CASE Prepare(p)
    <2>1. sw' = [sw EXCEPT ![p] = l]
      BY <1>4 DEF Prepare
    <2>2. /\ l \in Switch /\ l.mac = s.mac /\ l.detached = s.detached /\ l.chip = s.chip
          /\ l.inherited = s.inherited /\ l.kind = s.kind /\ l.haslink = s.haslink
          /\ l.warm = s.warm /\ l.state = s.state /\ l.up = s.up
      BY <1>0 DEF Switch
    <2> HIDE DEF l
    <2>3. LocalToo(l, s)
      BY <1>0, <2>2, SameLocal
    <2> QED BY <1>1, <2>1, <2>3, QuietStep
  <1> QED BY <1>2, <1>3, <1>4

LEMMA AgreeSyncd ==
    ASSUME AgreeOK, NEW p \in Peer, Syncd(p)
    PROVE  AgreeInv'
  <1> DEFINE s == sw[p]
             c == note[p]
             n == Head(c)
             d == Tail(c)
             t == FromSyncd(s, n)
  <1>0. /\ ChipOK /\ MacOK /\ s \in Switch /\ Kin(s) /\ Right(s) /\ Told(s, c, learnt[p]) /\ c \in Seq(Item)
    BY AgreeFacts
  <1>1. /\ learnt' = learnt /\ joined' = joined /\ ch' = ch /\ c # <<>>
        /\ sw' = [sw EXCEPT ![p] = t] /\ note' = [note EXCEPT ![p] = d]
    BY DEF Syncd
  <1>2. /\ n \in Item /\ n = c[1] /\ Len(c) \in Nat /\ Len(c) >= 1 /\ Len(d) = Len(c) - 1
        /\ \A k \in 1..Len(c) - 1 : d[k] = c[k + 1]
    BY <1>0, <1>1
  <1>3. 1 \in 1..Len(c) /\ \A k \in 1..Len(d) : k + 1 \in 1..Len(c) /\ d[k] = c[k + 1]
    BY <1>2
  <1>4. s.kind = "dynamic" /\ n.op = "add" /\ n.port = "po" => s.up["po"]
    BY <1>0, <1>2, <1>3 DEF Told
  <1>5. Local(t, s) /\ (Unset(t) => n.op = "add" /\ n.port = "eth")
    BY <1>0, <1>2, <1>4, FromSyncdLocal
  <1> HIDE DEF t, n
  <1>6. Followed(s, c, learnt[p])
    BY <1>0, ChipFacts
  <1>7. Unset(t) => learnt[p] # "none" \/ d # <<>>
    <2> HAVE Unset(t)
    <2>1. learnt[p] = "eth" \/ \E k \in 1 + 1..Len(c) : Mends(c, k, "eth")
      BY <1>2, <1>3, <1>5, <1>6 DEF Followed
    <2>2. ASSUME NEW k \in 1 + 1..Len(c) PROVE d # <<>>
      BY <1>2
    <2> QED BY <2>1, <2>2
  <1> HIDE DEF d
  <1>8. Told(t, d, learnt[p])
    BY <1>0, <1>3, <1>5, <1>7 DEF Told, Local, Honest, Stable
  <1>9. note'[p] = d /\ note'[Other(p)] = note[Other(p)]
    BY <1>0, <1>1, Peers DEF MacOK, TypeOK
  <1> QED BY <1>1, <1>5, <1>8, <1>9, LocalStep

LEMMA AgreeHardware ==
    ASSUME AgreeOK, NEW p \in Peer, (\E i \in HostPort : Learn(p, i)) \/ Age(p) \/ AgeChip(p)
    PROVE  AgreeInv'
  <1> DEFINE s == sw[p]
             q == Other(p)
             a == [s EXCEPT !.ageing = FALSE]
  <1>0. /\ MacOK /\ s \in Switch /\ Kin(s) /\ Right(s) /\ Told(s, note[p], learnt[p]) /\ note[p] \in Seq(Item)
        /\ s.kind \in Types /\ q \in Peer /\ q # p
    BY AgreeFacts, Facts, Peers
  <1>1. joined' = joined /\ ch' = ch
    BY DEF Learn, Age, AgeChip
  <1>2. /\ learnt \in [Peer -> HostPort \cup {"none"}] /\ note \in [Peer -> Seq(Item)]
        /\ sw \in [Peer -> Switch]
    BY <1>0 DEF MacOK, TypeOK
  <1>3. LocalToo(s, s)
    BY <1>0, SameLocal
  <1>4. Local(s, s)
    BY <1>3 DEF LocalToo
  <1>5. ASSUME NEW i \in HostPort, Learn(p, i) PROVE AgreeInv'
    <2> DEFINE x == [op |-> "add", port |-> i, type |-> s.kind]
    <2>1. /\ learnt' = [learnt EXCEPT ![p] = i] /\ note' = [note EXCEPT ![p] = Append(note[p], x)]
          /\ sw' = sw /\ (s.kind = "static" \/ s.up[i])
      BY <1>5 DEF Learn
    <2>2. x \in Item /\ x.op = "add" /\ x.port = i
      BY <1>0 DEF Item, Op
    <2> HIDE DEF x
    <2>3. Told(s, Append(note[p], x), i)
      BY <1>0, <2>1, <2>2, ToldMore
    <2>4. /\ learnt'[p] = i /\ note'[p] = Append(note[p], x)
          /\ note'[q] = note[q] /\ learnt'[q] = learnt[q]
      BY <1>0, <1>2, <2>1
    <2>5. sw' = [sw EXCEPT ![p] = s]
      BY <1>2, <2>1
    <2> QED BY <1>1, <1>4, <2>3, <2>4, <2>5, LocalStep
  <1>6. CASE Age(p)
    <2> DEFINE x == AgedNote(learnt[p])
    <2>1. /\ learnt' = [learnt EXCEPT ![p] = "none"] /\ note' = [note EXCEPT ![p] = Append(note[p], x)]
          /\ sw' = sw /\ learnt[p] \in HostPort
      BY <1>2, <1>6 DEF Age
    <2>2. x \in Item /\ x.op # "add"
      BY <1>0, <2>1, AgedNoteIs
    <2> HIDE DEF x
    <2>3. Told(s, Append(note[p], x), "none")
      BY <1>0, <2>2, ToldMore
    <2>4. /\ learnt'[p] = "none" /\ note'[p] = Append(note[p], x)
          /\ note'[q] = note[q] /\ learnt'[q] = learnt[q]
      BY <1>0, <1>2, <2>1
    <2>5. sw' = [sw EXCEPT ![p] = s]
      BY <1>2, <2>1
    <2> QED BY <1>1, <1>4, <2>3, <2>4, <2>5, LocalStep
  <1>7. CASE AgeChip(p)
    <2> DEFINE x == AgedNote(s.mac.origin)
    <2>1. /\ learnt' = learnt /\ note' = [note EXCEPT ![p] = Append(note[p], x)]
          /\ sw' = [sw EXCEPT ![p] = a]
      BY <1>7 DEF AgeChip
    <2>2. x \in Item /\ x.op # "add"
      BY <1>0, AgedNoteIs DEF Switch, Mac
    <2> HIDE DEF x
    <2>3. /\ a \in Switch /\ a.mac = s.mac /\ a.detached = s.detached /\ a.chip = s.chip
          /\ a.inherited = s.inherited /\ a.kind = s.kind /\ a.haslink = s.haslink
          /\ a.warm = s.warm /\ a.state = s.state /\ a.up = s.up
      BY <1>0 DEF Switch
    <2> HIDE DEF a
    <2>4. LocalToo(a, s)
      BY <1>0, <2>3, SameLocal
    <2>5. Local(a, s) /\ Stable(a, s) /\ (Unset(a) => Unset(s))
      BY <2>4 DEF LocalToo, Local, Honest
    <2>6. Told(s, Append(note[p], x), learnt[p])
      BY <1>0, <2>2, ToldMore
    <2>7. Told(a, Append(note[p], x), learnt[p])
      BY <2>5, <2>6, ToldLocal
    <2>8. note'[p] = Append(note[p], x) /\ note'[q] = note[q]
      BY <1>0, <1>2, <2>1
    <2> QED BY <1>1, <2>1, <2>5, <2>7, <2>8, LocalStep
  <1> QED BY <1>5, <1>6, <1>7

LEMMA AgreeLinks ==
    ASSUME AgreeOK, NEW p \in Peer, EthLink(p) \/ PeerLink(p)
    PROVE  AgreeInv'
  <1> DEFINE s == sw[p]
             q == Other(p)
             eth == Toggled(s, "eth")
             link == Toggled(s, "link")
  <1>0. /\ MacOK /\ s \in Switch /\ Kin(s) /\ Right(s) /\ Told(s, note[p], learnt[p]) /\ note[p] \in Seq(Item)
        /\ q \in Peer /\ q # p
    BY AgreeFacts, Peers
  <1>1. joined' = joined /\ ch' = ch
    BY DEF EthLink, PeerLink
  <1>2. learnt \in [Peer -> HostPort \cup {"none"}] /\ note \in [Peer -> Seq(Item)]
    BY <1>0 DEF MacOK, TypeOK
  <1>3. \E t : LocalToo(t, s) /\ sw' = [sw EXCEPT ![p] = t]
    <2>1. LocalToo(eth, s) /\ LocalToo(OrphanUp(eth), s)
      BY <1>0, EthLinkLocal
    <2>2. LocalToo(PeerLinkUp(link), s) /\ LocalToo(PeerLinkDown(link), s)
      BY <1>0, PeerLinkLocal
    <2>3. EthLink(p) => sw' = [sw EXCEPT ![p] = eth] \/ sw' = [sw EXCEPT ![p] = OrphanUp(eth)]
      BY DEF EthLink
    <2>4. PeerLink(p) => \/ sw' = [sw EXCEPT ![p] = PeerLinkDown(link)]
                         \/ sw' = [sw EXCEPT ![p] = PeerLinkUp(link)]
      BY DEF PeerLink
    <2> HIDE DEF eth, link
    <2> QED BY <2>1, <2>2, <2>3, <2>4
  <1>4. PICK t : LocalToo(t, s) /\ sw' = [sw EXCEPT ![p] = t]
    BY <1>3
  <1>5. \/ learnt' = learnt /\ note' = note
        \/ /\ learnt[p] = "eth" /\ learnt' = [learnt EXCEPT ![p] = "none"]
           /\ note' = [note EXCEPT ![p] = Append(note[p], AgedNote("eth"))]
    BY DEF EthLink, PeerLink, Unlearn
  <1>6. CASE learnt' = learnt /\ note' = note
    BY <1>1, <1>4, <1>6, QuietStep
  <1>7. CASE /\ learnt[p] = "eth" /\ learnt' = [learnt EXCEPT ![p] = "none"]
             /\ note' = [note EXCEPT ![p] = Append(note[p], AgedNote("eth"))]
    <2> DEFINE x == AgedNote("eth")
    <2>1. x \in Item /\ x.op # "add"
      BY <1>0, AgedNoteIs DEF HostPort
    <2>2. /\ learnt'[p] = "none" /\ note'[p] = Append(note[p], x)
          /\ note'[q] = note[q] /\ learnt'[q] = learnt[q]
      BY <1>0, <1>2, <1>7
    <2> HIDE DEF x
    <2>3. Told(s, Append(note[p], x), "none")
      BY <1>0, <2>1, ToldMore
    <2>4. Local(t, s) /\ Stable(t, s) /\ (Unset(t) => Unset(s))
      BY <1>4 DEF LocalToo, Local, Honest
    <2>5. Told(t, Append(note[p], x), "none")
      BY <2>3, <2>4, ToldLocal
    <2> QED BY <1>1, <1>4, <2>2, <2>4, <2>5, LocalStep
  <1> QED BY <1>5, <1>6, <1>7

LEMMA AgreeSessions ==
    ASSUME NoFlaps, AgreeOK,
           Join \/ \E p \in Peer : Leave(p) \/ Restart(p) \/ \E warm \in BOOLEAN : Exit(p, warm)
    PROVE  AgreeInv'
  <1>0. /\ MacOK /\ sw \in [Peer -> Switch] /\ joined \in [Peer -> BOOLEAN] /\ note \in [Peer -> Seq(Item)]
        /\ ch \in [Peer -> Seq(Msg)] /\ learnt \in [Peer -> HostPort \cup {"none"}]
    BY DEF AgreeOK, ChipOK, MacOK, TypeOK
  <1>1. CASE Join
    <2>1. /\ joined' = [p \in Peer |-> TRUE] /\ learnt' = learnt /\ note' = note /\ ch' = ch
          /\ sw' = [p \in Peer |-> [sw[p] EXCEPT !.state = "STAGE1"]]
          /\ \A p \in Peer : ~joined[p]
      BY <1>1 DEF Join
    <2>2. ASSUME NEW p \in Peer
          PROVE  /\ Right(sw'[p]) /\ Told(sw'[p], note[p], learnt[p]) /\ Clean(ch[p]) /\ NoMacs(ch[p])
                 /\ sw'[p].state = "STAGE1" /\ ~Heard(sw'[p])
      <3> DEFINE s == sw[p]
                 t == [s EXCEPT !.state = "STAGE1"]
      <3>1. s \in Switch /\ Right(s) /\ Told(s, note[p], learnt[p])
        BY AgreeFacts
      <3>2. s.state = "INIT" /\ ch[p] = <<>>
        BY <1>0, <2>1, Facts DEF StageFits, State
      <3>3. "STAGE1" \in State /\ "STAGE1" # "EXCHANGE" /\ s.state # "EXCHANGE"
        BY <3>2 DEF State
      <3>4. /\ Stable(t, s) /\ Right(t) /\ t.state = "STAGE1"
            /\ (Heard(t) => Heard(s)) /\ (Unset(t) => Unset(s))
        BY <3>1, <3>3, StageRight
      <3>5. sw'[p] = t
        BY <2>1
      <3> HIDE DEF t
      <3>6. ~Heard(t)
        BY <3>3, <3>4 DEF Right, QueueTrue, Heard
      <3>7. Told(t, note[p], learnt[p])
        BY <3>1, <3>4, ToldLocal
      <3> QED BY <3>2, <3>4, <3>5, <3>6, <3>7, EmptyClean
    <2>3. ASSUME NEW p \in Peer
          PROVE  Agrees(sw'[p], sw'[Other(p)], ch'[p], note'[p], learnt'[p], joined'[p] /\ joined'[Other(p)])
      <3>1. Hearing(sw'[p], sw'[Other(p)], ch[p])
        BY <2>2, NoMacsNoAdd DEF Hearing
      <3> QED BY <2>1, <2>2, <3>1 DEF Agrees
    <2> QED BY <2>3, AgreeInvNext
  <1>2. ASSUME NEW p \in Peer, Leave(p) PROVE AgreeInv'
    <2> DEFINE t == Disconnected(sw[p])
               q == Other(p)
    <2>0. /\ sw[p] \in Switch /\ Kin(sw[p]) /\ Right(sw[p]) /\ Told(sw[p], note[p], learnt[p])
          /\ Clean(ch[q]) /\ q \in Peer /\ q # p
      BY AgreeFacts, Peers
    <2>1. /\ sw' = [sw EXCEPT ![p] = t] /\ joined' = [joined EXCEPT ![p] = FALSE]
          /\ ch' = [ch EXCEPT ![p] = <<>>] /\ learnt' = learnt /\ note' = note
      BY <1>2 DEF Leave
    <2>2. Stable(t, sw[p]) /\ Right(t) /\ (Unset(t) => Unset(sw[p]))
      BY <2>0, DisconnectedRight
    <2> HIDE DEF t
    <2>3. ~joined'[p] /\ ch'[p] = <<>> /\ ch'[q] = ch[q]
      BY <1>0, <2>0, <2>1
    <2>4. Told(t, note[p], learnt[p])
      BY <2>0, <2>2, ToldLocal
    <2> QED BY <2>0, <2>1, <2>2, <2>3, <2>4, EmptyClean, AgreeStep
  <1>3. ASSUME NEW p \in Peer, NEW warm \in BOOLEAN, Exit(p, warm) PROVE AgreeInv'
    <2> DEFINE s == sw[p]
               q == Other(p)
               t == Fresh(s.chip, s.up, s.haslink, s.kind)
    <2>0. /\ s \in Switch /\ Right(s) /\ Told(s, note[p], learnt[p])
          /\ Clean(ch[q]) /\ ch[q] \in Seq(Msg) /\ q \in Peer /\ q # p
      BY AgreeFacts, Peers
    <2>1. ~warm
      BY <1>3 DEF Exit, NoFlaps
    <2>2. /\ sw' = [sw EXCEPT ![p] = t] /\ joined' = [joined EXCEPT ![p] = FALSE]
          /\ learnt' = learnt /\ note' = [note EXCEPT ![p] = <<>>]
          /\ ch' = [ch EXCEPT ![p] = <<>>, ![q] = IF joined[q] THEN @ \o <<>> ELSE @]
      BY <1>3, <2>1 DEF Exit
    <2>3. /\ s.chip \in Port \cup {"none"} /\ s.up \in [Port -> BOOLEAN] /\ s.kind \in Types
          /\ s.haslink \in BOOLEAN /\ s.haslink
      BY <2>0 DEF Switch, Right
    <2>4. t \in Switch
      BY <2>3, FreshInv
    <2>10. /\ t.kind = s.kind /\ t.up = s.up /\ t.mac = NoMac /\ t.detached = <<>> /\ t.haslink = s.haslink
          /\ ~t.warm /\ (t.chip # "none" => t.inherited)
      BY DEF Fresh
    <2> HIDE DEF t
    <2>5. t.kind = s.kind /\ t.up = s.up /\ Right(t) /\ ~Unset(t)
      BY <2>3, <2>4, <2>10, FreshRight
    <2>6. ch[q] \o <<>> = ch[q]
      BY <2>0
    <2>7. ~joined'[p] /\ ch'[p] = <<>> /\ ch'[q] = ch[q] /\ note'[p] = <<>> /\ note'[q] = note[q]
      BY <1>0, <2>0, <2>2, <2>6
    <2>8. Told(t, <<>>, learnt[p])
      BY <2>0, <2>5, ToldEmpty DEF Told
    <2> QED BY <2>0, <2>2, <2>5, <2>7, <2>8, EmptyClean, AgreeStep
  <1>4. ASSUME NEW p \in Peer, Restart(p) PROVE AgreeInv'
    <2> DEFINE s == sw[p]
               q == Other(p)
               x == [op |-> "add", port |-> learnt[p], type |-> s.kind]
               c == IF learnt[p] = "none" THEN <<>> ELSE <<x>>
    <2>0. s \in Switch /\ Kin(s) /\ Right(s) /\ Told(s, note[p], learnt[p]) /\ q \in Peer /\ q # p
      BY AgreeFacts, Peers
    <2>1. /\ joined' = joined /\ learnt' = learnt /\ sw' = sw /\ note' = [note EXCEPT ![p] = c] /\ ~alive[p]
          /\ ch' = ch
      BY <1>4 DEF Restart
    <2>2. note[p] = <<>>
      BY <1>0, <2>1, Facts
    <2>3. Unset(s) => learnt[p] # "none"
      BY <2>0, <2>2 DEF Told
    <2>4. \A n \in 1..Len(c) : c[n].port = learnt[p]
      <3>1. CASE learnt[p] = "none"
        BY <3>1
      <3>2. CASE learnt[p] # "none"
        BY <3>2
      <3> QED BY <3>1, <3>2
    <2> HIDE DEF c
    <2>5. Told(s, c, learnt[p])
      BY <2>0, <2>3, <2>4 DEF Told
    <2>6. note'[p] = c /\ note'[q] = note[q] /\ sw' = [sw EXCEPT ![p] = s]
      BY <1>0, <2>0, <2>1
    <2>7. LocalToo(s, s)
      BY <2>0, SameLocal
    <2>8. Local(s, s)
      BY <2>7 DEF LocalToo
    <2> QED BY <2>1, <2>5, <2>6, <2>8, LocalStep
  <1> QED BY <1>1, <1>2, <1>3, <1>4

LEMMA AgreeInit ==
    ASSUME NoFlaps, Init
    PROVE  AgreeInv
  <1>1. PICK link \in PeerLinks, y \in Types, po \in [Peer -> BOOLEAN] :
           sw = [p \in Peer |-> Fresh("none", [i \in Port |-> i = "po" => po[p]], link, y)]
    BY DEF Init
  <1>2. link \in BOOLEAN /\ link
    BY OpsAssumption DEF NoFlaps
  <1>3. ASSUME NEW p \in Peer
        PROVE  Agrees(sw[p], sw[Other(p)], ch[p], note[p], learnt[p], joined[p] /\ joined[Other(p)])
    <2> DEFINE up == [i \in Port |-> i = "po" => po[p]]
    <2>1. up \in [Port -> BOOLEAN] /\ "none" \in Port \cup {"none"}
      OBVIOUS
    <2>2. sw[p] = Fresh("none", up, link, y)
      BY <1>1
    <2> HIDE DEF up
    <2> DEFINE t == Fresh("none", up, link, y)
    <2>5. t \in Switch
      BY <1>2, <2>1, FreshInv
    <2>6. t.mac = NoMac /\ t.detached = <<>> /\ t.haslink = link /\ ~t.warm /\ t.chip = "none"
      BY DEF Fresh
    <2>7. sw[p] = t
      BY <2>2
    <2> HIDE DEF t
    <2>3. Right(sw[p]) /\ ~Unset(sw[p])
      BY <1>2, <2>5, <2>6, <2>7, FreshRight
    <2>4. note[p] = <<>> /\ ~joined[p] /\ ch[p] = <<>> /\ learnt[p] = "none"
      BY DEF Init
    <2> QED BY <2>3, <2>4, EmptyClean, ToldEmpty DEF Agrees
  <1> QED BY <1>3, AgreeInvIs

LEMMA AgreeNext ==
    ASSUME NoFlaps, TypeOK, MacInv, AgreeInv, [Next]_vars
    PROVE  AgreeInv'
  <1>0. AgreeOK
    BY DEF AgreeOK, ChipOK, MacOK, MacInv
  <1>1. CASE Join \/ \E p \in Peer : Leave(p) \/ Restart(p) \/ \E warm \in BOOLEAN : Exit(p, warm)
    BY <1>0, <1>1, AgreeSessions
  <1>2. CASE \E p \in Peer : SendInfo(p) \/ Receive(p) \/ Flush(p)
    BY <1>0, <1>2, AgreeSendInfo, AgreeReceive, AgreeFlush
  <1>3. CASE \E p \in Peer : DownTimer(p) \/ WarmTimer(p) \/ Prepare(p)
    BY <1>0, <1>3, AgreeTimers
  <1>4. CASE \E p \in Peer : Syncd(p)
    BY <1>0, <1>4, AgreeSyncd
  <1>5. CASE \E p \in Peer : (\E i \in HostPort : Learn(p, i)) \/ Age(p) \/ AgeChip(p)
    BY <1>0, <1>5, AgreeHardware
  <1>6. CASE \E p \in Peer : PoLink(p) \/ EthLink(p) \/ PeerLink(p)
    <2>1. \A p \in Peer : ~PoLink(p)
      BY DEF PoLink, NoFlaps
    <2> QED BY <1>0, <1>6, <2>1, AgreeLinks
  <1>7. CASE UNCHANGED vars
    <2>1. \A p \in Peer : Agrees(sw'[p], sw'[Other(p)], ch'[p], note'[p], learnt'[p],
                                 joined'[p] /\ joined'[Other(p)])
      BY <1>7, AgreeInvIs DEF vars
    <2> QED BY <2>1, AgreeInvNext
  <1> QED BY <1>1, <1>2, <1>3, <1>4, <1>5, <1>6, <1>7 DEF Next

(* While the port-channels stay as they are and no switch reboots warm: what *)
(* a switch has heard of the address, or is going to hear, is what its peer  *)
(* knows, or the peer has more to say; what is queued is true; and an entry  *)
(* is at the peer-link only where the host is not.                           *)
THEOREM AgreeInvariant ==
    ASSUME NoFlaps
    PROVE  Spec => []AgreeInv
  <1>1. Init => AgreeInv
    BY AgreeInit
  <1>2. TypeOK /\ MacInv /\ AgreeInv /\ [Next]_vars => AgreeInv'
    BY AgreeNext
  <1> QED BY <1>1, <1>2, MacTypeCorrect, MacInvariant, PTL DEF Spec

LEMMA QuietHears ==
    ASSUME AgreeOK, Quiescent, NEW p \in Peer, Heard(sw[p])
    PROVE  Knows(sw[Other(p)])
  <1> DEFINE q == Other(p)
  <1>1. joined[p] /\ joined[q] /\ ch[p] = <<>> /\ Pending(sw[q]) = <<>>
    BY Peers DEF Quiescent
  <1>2. Hearing(sw[p], sw[q], ch[p])
    BY <1>1, AgreeFacts
  <1>3. sw[q] \in Switch /\ OfKind(sw[q]) /\ QueueTrue(sw[q])
    BY Peers, AgreeFacts DEF Right
  <1>4. Silent(sw[q])
    BY <1>1, <1>3, PendingSilent
  <1> QED BY <1>1, <1>2, <1>4, EmptyClean DEF Hearing

(* Once nothing is under way, an address that is not marked MAC_AGE_PEER has *)
(* not aged at the peer (mlacp_fsm_update_mac_entry_from_peer and            *)
(* set_mac_local_age_flag), whatever crossed and whatever sessions were lost. *)
THEOREM PeerHasAddress ==
    ASSUME NoFlaps
    PROVE  Spec => []PeerHasIt
  <1>1. TypeOK /\ MacInv /\ AgreeInv => PeerHasIt
    <2> SUFFICES ASSUME TypeOK, MacInv, AgreeInv, Quiescent, NEW p \in Peer,
                        sw[p].mac.found, ~sw[p].mac.peer
                 PROVE  sw[Other(p)].mac.found /\ ~sw[Other(p)].mac.local
      BY DEF PeerHasIt
    <2>1. AgreeOK
      BY DEF AgreeOK, ChipOK, MacOK, MacInv
    <2> QED BY <2>1, QuietHears DEF Heard, Knows
  <1> QED BY <1>1, AgreeInvariant, MacTypeCorrect, MacInvariant, PTL

(* ... and a switch that sends over the peer-link sends to one that has the  *)
(* host at a port of its own: frames do not go back and forth.               *)
THEOREM NoLoop ==
    ASSUME NoFlaps
    PROVE  Spec => []LinkRemote
  <1>1. TypeOK /\ MacInv /\ AgreeInv => LinkRemote
    <2> SUFFICES ASSUME TypeOK, MacInv, AgreeInv, Quiescent, \A r \in Peer : Dynamic(r), NEW p \in Peer,
                        sw[p].chip = "link", ~sw[p].inherited
                 PROVE  Forwards(Other(p)) \in HostPort
      BY DEF LinkRemote
    <2> DEFINE q == Other(p)
    <2>1. AgreeOK /\ q \in Peer
      BY Peers DEF AgreeOK, ChipOK, MacOK, MacInv
    <2>2. ASSUME NEW r \in Peer
          PROVE  /\ sw[r] \in Switch /\ Right(sw[r]) /\ Kin(sw[r]) /\ Told(sw[r], note[r], learnt[r])
                 /\ Followed(sw[r], note[r], learnt[r]) /\ sw[r].kind = "dynamic" /\ note[r] = <<>>
                 /\ sw[r].chip # "none" => learnt[r] = "none" /\ ~Unset(sw[r])
      <3>1. /\ sw[r] \in Switch /\ Right(sw[r]) /\ Kin(sw[r]) /\ Told(sw[r], note[r], learnt[r])
            /\ ChipOK
        BY <2>1, AgreeFacts
      <3>2. Followed(sw[r], note[r], learnt[r])
        BY <3>1, ChipFacts
      <3>3. /\ note[r] = <<>> /\ (sw[r].chip # "none" => learnt[r] = "none") /\ sw[r].kind = "dynamic"
        BY DEF Quiescent, Dynamic
      <3> QED BY <3>1, <3>2, <3>3 DEF Told
    <2>3. Tracked(sw[p]) /\ sw[p].mac.ifname = "link" /\ ~Unset(sw[p])
      BY <2>2 DEF Right, WellPlaced, Tracked
    <2>4. Heard(sw[p])
      BY <2>2, <2>3 DEF Unset, Knows, Tracked, Kin, AgesApart, BothAged, Heard
    <2>5. Knows(sw[q]) /\ Tracked(sw[q])
      BY <2>1, <2>2, <2>4, QuietHears DEF Knows, Tracked, Right
    <2>6. sw[q].mac.ifname \in HostPort
      <3>1. sw[q].mac.ifname = "link" => sw[q].chip = "link"
        BY <2>1, <2>2, <2>5 DEF Right, WellPlaced
      <3>2. sw[q].mac.ifname # "link"
        BY <2>1, <2>2, <2>5, <3>1 DEF Unset
      <3>3. sw[q].mac.ifname \in {"po", "eth", "link"}
        BY <2>1, <2>2 DEF Switch, Mac, Port
      <3> QED BY <3>2, <3>3 DEF HostPort
    <2>7. sw[q].mac.ifname \in {sw[q].chip, learnt[q]}
      <3>1. \A n \in 1..Len(note[q]) : FALSE
        BY <2>1, <2>2
      <3> QED BY <2>1, <2>2, <2>5, <2>6, <3>1 DEF Followed, Elsewhere
    <2>8. sw[q].chip # "none" => learnt[q] = "none"
      BY <2>1, <2>2
    <2> QED BY <2>6, <2>7, <2>8 DEF Forwards, HostPort
  <1> QED BY <1>1, AgreeInvariant, MacTypeCorrect, MacInvariant, PTL
=============================================================================
