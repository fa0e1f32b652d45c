-------------------------- MODULE DhcpServerProofs --------------------------
(***************************************************************************)
(* Proofs about the DHCP server, for any stations, pool, times and number  *)
(* of requests under way.  The table alone keeps two stations from one     *)
(* address, so that the argument has two parts: no two entries share an    *)
(* address, and a station that uses an address has an entry for it that    *)
(* lasts as long as the station believes.                                  *)
(*                                                                         *)
(* A last part counts stations and addresses: the server always finds an   *)
(* address and a slot.                                                     *)
(*                                                                         *)
(* All of it under the assumption that no request is served while ssv_time *)
(* is zero, where a granted lease may get no entry.                        *)
(***************************************************************************)
EXTENDS DhcpServer, SequenceTheorems, FiniteSetTheorems, WellFoundedInduction, TLAPS

(* The invariant.                                                          *)

Table == [Slots -> [mac : Clients \cup {None}, nip : Addrs \cup {NoAddr}, expires : Nat]]

Distinct(table) ==
  \A i, j \in Slots : i # j =>
    /\ table[i].mac # None => table[i].mac # table[j].mac
    /\ table[i].nip # NoAddr => table[i].nip # table[j].nip

\* An entry of a station has an address.
Whole(table) == \A i \in Slots : table[i].mac # None => table[i].nip # NoAddr

Renewals == {"select", "reboot", "renew"}

\* A request for the address the station has, or asks for.
Mine(c, r) == r.type \in Renewals /\ r.ip = sta[c].ip

Positions(c) == 1 .. Len(req[c])

RepAck(c)  == rep[c] # None /\ rep[c].type = "ack"
LastAck(c) == last # None /\ last.mac = c /\ last.type = "ack"
Acked(c)   == RepAck(c) \/ LastAck(c)

\* What a station has under way: behind a request of this transaction for an
\* address come requests for that address only, and once it has been granted
\* nothing else is left.
QueueInv(c) ==
  /\ sta[c].st = "selecting" =>
       \A i \in Positions(c) : req[c][i].fresh => req[c][i].type = "discover"
  /\ sta[c].st \in {"requesting", "rebooting"} =>
       \A i, j \in Positions(c) :
         i <= j /\ req[c][i].fresh /\ req[c][i].type # "discover" => Mine(c, req[c][j])
  /\ Holds(c) \/ Acked(c) => \A i \in Positions(c) : Mine(c, req[c][i])

\* The reply under way, or in pdhcp_pkt, is one its station waits for.
ReplyFits(c, r) ==
  /\ r.type = "offer" => sta[c].st = "selecting"
  /\ r.type = "ack" => /\ sta[c].st \in {"requesting", "rebooting", "renewing"}
                       /\ r.ip = sta[c].ip

RepliesInv(c) ==
  /\ rep[c] # None => ReplyFits(c, rep[c])
  /\ last # None /\ last.mac = c => ReplyFits(c, last)

\* The station has an entry in the table for as long as this.
Granted(c, time) ==
  time >= 0 =>
    \E i \in Slots : leases[i].mac = c /\ leases[i].nip = sta[c].ip /\ leases[i].expires >= now + time

LeaseInv(c) ==
  /\ Holds(c) => Granted(c, left[c])
  /\ Acked(c) => Granted(c, wait[c])

\* No request, reply or station without an address where one belongs.
Named(c) ==
  /\ sta[c].st \in {"requesting", "rebooting", "bound", "renewing"} => sta[c].ip # NoAddr
  /\ \A i \in Positions(c) : req[c][i].type \in Renewals => req[c][i].ip # NoAddr
  /\ rep[c] # None /\ rep[c].type = "offer" => rep[c].ip # NoAddr
  /\ last # None /\ last.type = "offer" => last.ip # NoAddr

StationInv(c) == QueueInv(c) /\ RepliesInv(c) /\ LeaseInv(c) /\ Named(c)

IInv ==
  /\ TypeOK /\ Distinct(leases) /\ Whole(leases)
  /\ \A c \in Clients : StationInv(c)

-----------------------------------------------------------------------------
(* The lease table.                                                        *)

LEMMA Least ==
  ASSUME NEW T, T \subseteq Nat, T # {}
  PROVE  \E n \in T : \A m \in T : n <= m
<1> DEFINE R == OpToRel(<, Nat)
<1>1. IsWellFoundedOn(R, Nat)
  BY NatLessThanWellFounded
<1>2. PICK n \in T : \A m \in T : ~ (<<m, n>> \in R)
  <2> HIDE DEF R
  <2> QED BY <1>1, WFMin
<1>3. \A m \in T : ~ (m < n)
  BY <1>2 DEF OpToRel
<1> QED
  BY <1>3

LEMMA FirstSlot ==
  ASSUME NEW S, S \subseteq Slots
  PROVE  (S = {} /\ First(S) = 0) \/ First(S) \in S
<1>1. CASE S = {}
  BY <1>1 DEF First
<1>2. CASE S # {}
  <2>1. \E i \in S : \A j \in S : i <= j
    <3>1. S \subseteq Nat
      BY DhcpAssumption DEF Slots
    <3> QED BY <1>2, <3>1, Least
  <2> QED BY <1>2, <2>1 DEF First
<1> QED BY <1>1, <1>2

\* find_lease_by_mac and find_lease_by_nip find what is there.
LEMMA SlotFound ==
  ASSUME NEW table, NEW c, NEW a
  PROVE  /\ 0 \notin Slots
         /\ \/ /\ SlotOfMac(table, c) = 0
               /\ \A i \in Slots : table[i].mac # c
            \/ /\ SlotOfMac(table, c) \in Slots
               /\ table[SlotOfMac(table, c)].mac = c
         /\ \/ /\ SlotOfNip(table, a) = 0
               /\ \A i \in Slots : table[i].nip # a
            \/ /\ SlotOfNip(table, a) \in Slots
               /\ table[SlotOfNip(table, a)].nip = a
<1>1. 0 \notin Slots
  BY DhcpAssumption DEF Slots
<1>2. \/ {i \in Slots : table[i].mac = c} = {} /\ SlotOfMac(table, c) = 0
      \/ SlotOfMac(table, c) \in {i \in Slots : table[i].mac = c}
  BY FirstSlot DEF SlotOfMac
<1>3. \/ {i \in Slots : table[i].nip = a} = {} /\ SlotOfNip(table, a) = 0
      \/ SlotOfNip(table, a) \in {i \in Slots : table[i].nip = a}
  BY FirstSlot DEF SlotOfNip
<1> QED BY <1>1, <1>2, <1>3

LEMMA EmptyType == EmptyLease \in [mac : Clients \cup {None}, nip : Addrs \cup {NoAddr}, expires : Nat]
BY DEF EmptyLease, NoAddr

\* clear_leases leaves nothing of the station and nothing of the address.
LEMMA ClearedTable ==
  ASSUME NEW table \in Table, NEW c \in Clients, NEW a \in Addrs
  PROVE  /\ ClearLeases(table, c, a) \in Table
         /\ \A i \in Slots :
              LET e == ClearLeases(table, c, a)[i] IN
              /\ e = EmptyLease \/ (e = table[i] /\ e.mac # c /\ e.nip # a)
              /\ table[i].mac # c /\ table[i].nip # a => e = table[i]
              /\ table[i].mac = c \/ table[i].nip = a => e = EmptyLease
BY EmptyType DEF Table, ClearLeases

\* The search for the earliest time finds one of the slots it looks at.
LEMMA OldestSlot ==
  ASSUME NEW table \in Table, NEW S, S \subseteq Slots
  PROVE  (S = {} /\ Oldest(table, S) = 0) \/ Oldest(table, S) \in S
<1> DEFINE O == {i \in S : \A j \in S : table[i].expires <= table[j].expires}
<1> DEFINE T == {table[i].expires : i \in S}
<1>1. O \subseteq Slots /\ Oldest(table, S) = First(O)
  BY DEF Oldest
<1>2. CASE S = {}
  BY <1>1, <1>2, FirstSlot
<1>3. CASE S # {}
  <2>1. T \subseteq Nat /\ T # {}
    BY <1>3 DEF Table
  <2>2. PICK n \in T : \A m \in T : n <= m
    <3> HIDE DEF T
    <3> QED BY <2>1, Least
  <2>3. PICK i \in S : table[i].expires = n
    BY <2>2
  <2>4. i \in O
    BY <2>2, <2>3
  <2> HIDE DEF O
  <2>5. First(O) \in O
    BY <1>1, <2>4, FirstSlot
  <2> QED BY <1>1, <2>5 DEF O
<1> QED BY <1>2, <1>3

\* add_lease puts the lease into one entry that held none, or was over, and
\* leaves the other entries of other stations and addresses alone.  It cannot
\* do so while ssv_time is zero and no entry is over: an empty one is not.
LEMMA AddedLease ==
  ASSUME now \in Nat,
         NEW table \in Table, NEW c \in Clients, NEW a \in Addrs, NEW time \in Nat,
         NEW new, new = AddLease(table, c, a, time)
  PROVE  /\ new \in Table
         /\ \E k \in Slots \cup {0} :
              /\ k # 0 => new[k] = [mac |-> c, nip |-> a, expires |-> now + time]
              /\ \A i \in Slots \ {k} :
                   new[i] = EmptyLease \/ (new[i] = table[i] /\ new[i].mac # c /\ new[i].nip # a)
              /\ \A i \in Slots :
                   table[i].mac # c /\ table[i].nip # a /\ ~ Expired(table[i]) =>
                     i # k /\ new[i] = table[i]
              /\ now > 0 /\ (\E i \in Slots : table[i].mac = c \/ table[i].nip = a) => k # 0
<1> DEFINE cleared == ClearLeases(table, c, a)
<1> DEFINE lease == [mac |-> c, nip |-> a, expires |-> now + time]
<1> DEFINE over == {i \in Slots : Expired(cleared[i])}
<1> DEFINE k == OldestExpired(cleared)
<1>1. /\ cleared \in Table
      /\ \A i \in Slots :
           /\ cleared[i] = EmptyLease \/ (cleared[i] = table[i] /\ cleared[i].mac # c /\ cleared[i].nip # a)
           /\ table[i].mac # c /\ table[i].nip # a => cleared[i] = table[i]
           /\ table[i].mac = c \/ table[i].nip = a => cleared[i] = EmptyLease
  BY ClearedTable
<1>2. new = IF k = 0 THEN cleared ELSE [cleared EXCEPT ![k] = lease]
  BY DEF AddLease
<1>3. (over = {} /\ k = 0) \/ k \in over
  <2>1. over \subseteq Slots /\ k = Oldest(cleared, over)
    BY DEF OldestExpired
  <2> HIDE DEF cleared, over, k
  <2> QED BY <1>1, <2>1, OldestSlot
<1>4. now > 0 /\ (\E i \in Slots : table[i].mac = c \/ table[i].nip = a) => over # {}
  BY <1>1 DEF EmptyLease, Expired
<1>5. lease \in [mac : Clients \cup {None}, nip : Addrs \cup {NoAddr}, expires : Nat]
  OBVIOUS
<1>6. 0 \notin Slots
  BY DhcpAssumption DEF Slots
<1> HIDE DEF cleared, lease, k
<1>7. CASE k = 0
  <2>1. over = {} /\ new = cleared
    BY <1>2, <1>3, <1>6, <1>7
  <2>2. \A i \in Slots : i # 0
    BY <1>6
  <2> QED BY <1>1, <1>4, <2>1, <2>2
<1>8. CASE k # 0
  <2>1. k \in Slots /\ Expired(cleared[k])
    BY <1>3, <1>8
  <2>2. new \in Table /\ new[k] = lease /\ \A i \in Slots \ {k} : new[i] = cleared[i]
    BY <1>1, <1>2, <1>5, <1>8, <2>1 DEF Table
  <2>3. \A i \in Slots : table[i].mac # c /\ table[i].nip # a /\ ~ Expired(table[i]) =>
                          i # k /\ new[i] = table[i]
    BY <1>1, <2>1, <2>2
  <2> QED BY <1>1, <1>8, <2>1, <2>2, <2>3 DEF lease
<1> QED BY <1>7, <1>8

LEMMA AddedDistinct ==
  ASSUME now \in Nat, NEW table \in Table, Distinct(table), Whole(table),
         NEW c \in Clients, NEW a \in Addrs, NEW time \in Nat,
         NEW new, new = AddLease(table, c, a, time)
  PROVE  Distinct(new) /\ Whole(new)
<1>1. PICK k \in Slots \cup {0} :
        /\ k # 0 => new[k] = [mac |-> c, nip |-> a, expires |-> now + time]
        /\ \A i \in Slots \ {k} :
             new[i] = EmptyLease \/ (new[i] = table[i] /\ new[i].mac # c /\ new[i].nip # a)
  BY AddedLease
<1>2. a # NoAddr /\ c # None /\ 0 \notin Slots
  BY DhcpAssumption DEF Addrs, NoAddr, Slots
<1>3. /\ k # 0 => new[k].mac = c /\ new[k].nip = a
      /\ \A i \in Slots \ {k} :
           \/ new[i].mac = None /\ new[i].nip = NoAddr
           \/ new[i] = table[i] /\ new[i].mac # c /\ new[i].nip # a
  BY <1>1 DEF EmptyLease
<1>4. Distinct(new)
  <2> SUFFICES ASSUME NEW i \in Slots, NEW j \in Slots, i # j
               PROVE  /\ new[i].mac # None => new[i].mac # new[j].mac
                      /\ new[i].nip # NoAddr => new[i].nip # new[j].nip
    BY DEF Distinct
  <2>1. CASE i = k
    <3>1. new[i].mac = c /\ new[i].nip = a
      BY <1>2, <1>3, <2>1
    <3>2. new[j].mac # c /\ new[j].nip # a
      BY <1>2, <1>3, <2>1
    <3> QED BY <3>1, <3>2
  <2>2. CASE j = k
    <3>1. new[j].mac = c /\ new[j].nip = a
      BY <1>2, <1>3, <2>2
    <3>2. new[i].mac # c /\ new[i].nip # a
      BY <1>2, <1>3, <2>2
    <3> QED BY <3>1, <3>2
  <2>3. CASE i # k /\ j # k
    BY <1>3, <2>3 DEF Distinct
  <2> QED BY <2>1, <2>2, <2>3
<1>5. Whole(new)
  <2> SUFFICES ASSUME NEW i \in Slots PROVE new[i].mac # None => new[i].nip # NoAddr
    BY DEF Whole
  <2>1. CASE i = k
    BY <1>2, <1>3, <2>1
  <2>2. CASE i # k
    BY <1>3, <2>2 DEF Whole
  <2> QED BY <2>1, <2>2
<1> QED BY <1>4, <1>5

\* clearlease_bymac, around a turn of the loop or within it.
LEMMA ClearedSlot ==
  ASSUME leases \in Table, Distinct(leases), Whole(leases), NEW c \in Clients, NEW table \in Tables(c)
  PROVE  /\ table \in Table /\ Distinct(table) /\ Whole(table)
         /\ \A i \in Slots : leases[i].mac # c => table[i] = leases[i]
         /\ Associated(c) => table = leases
         /\ \A i \in Slots : table[i] \in {leases[i], EmptyLease}
<1>1. table = leases \/ (table = Cleared(c) /\ ~ Associated(c))
  BY DEF Tables
<1>2. CASE table = leases
  BY <1>2
<1>3. CASE table = Cleared(c) /\ ~ Associated(c)
  <2>1. \A i \in Slots : /\ table[i] \in {leases[i], EmptyLease}
                         /\ leases[i].mac # c => table[i] = leases[i]
    <3>1. SlotOfMac(leases, c) \in Slots => leases[SlotOfMac(leases, c)].mac = c
      BY SlotFound
    <3>2. \A i \in Slots :
            table[i] = IF i = SlotOfMac(leases, c) THEN EmptyLease ELSE leases[i]
      BY <1>3 DEF Cleared
    <3> HIDE DEF EmptyLease
    <3> QED BY <3>1, <3>2
  <2>2. table \in Table
    BY <1>3, EmptyType DEF Cleared, Table
  <2>3. EmptyLease.mac = None /\ EmptyLease.nip = NoAddr
    BY DEF EmptyLease
  <2> HIDE DEF EmptyLease
  <2> QED BY <1>3, <2>1, <2>2, <2>3 DEF Distinct, Whole
<1> QED BY <1>1, <1>2, <1>3

\* find_lease_by_nip finds the only entry of an address.
LEMMA HolderOf ==
  ASSUME NEW table \in Table, Distinct(table), NEW a \in Addrs
  PROVE  \/ SlotOfNip(table, a) = 0 /\ \A i \in Slots : table[i].nip # a
         \/ /\ SlotOfNip(table, a) \in Slots /\ SlotOfNip(table, a) # 0
            /\ \A i \in Slots : table[i].nip = a => i = SlotOfNip(table, a)
<1>1. a # NoAddr
  BY DhcpAssumption DEF Addrs, NoAddr
<1>2. /\ 0 \notin Slots
      /\ \/ SlotOfNip(table, a) = 0 /\ \A i \in Slots : table[i].nip # a
         \/ SlotOfNip(table, a) \in Slots /\ table[SlotOfNip(table, a)].nip = a
  BY SlotFound
<1> QED BY <1>1, <1>2 DEF Distinct

\* send_offer finds an address of the pool nobody else may use: its own, a free
\* one, one whose lease is over, or that of a station out of reach.
LEMMA OfferFree ==
  ASSUME leases \in Table, Distinct(leases), Whole(leases), NEW c \in Clients, NEW table \in Tables(c),
         NEW wish \in Addrs \cup {NoAddr},
         NEW a, a = OfferedAddr(table, SlotOfMac(leases, c), wish), a # NoAddr
  PROVE  /\ a \in Addrs
         /\ \A i \in Slots : table[i].nip = a =>
              table[i].mac = c \/ Expired(table[i]) \/ ~ Associated(table[i].mac)
<1>0. table \in Table /\ Distinct(table) /\ Whole(table)
  BY ClearedSlot
<1> DEFINE s == SlotOfMac(leases, c)
<1>1. CASE s # 0
  <2>1. a = table[s].nip /\ s \in Slots /\ leases[s].mac = c
    BY <1>1, SlotFound DEF OfferedAddr
  <2>2. table[s] = leases[s]
    BY <2>1, ClearedSlot DEF EmptyLease
  <2> QED BY <1>0, <2>1, <2>2 DEF Distinct, Table
<1>2. CASE s = 0
  <2>1. a \in Addrs /\ (\/ SlotOfNip(table, a) = 0
                       \/ Expired(table[SlotOfNip(table, a)])
                       \/ ~ Associated(table[SlotOfNip(table, a)].mac))
    <3> DEFINE holder == SlotOfNip(table, wish)
    <3>1. CASE wish \in Addrs /\ (holder = 0 \/ Expired(table[holder]))
      <4>1. a = wish
        BY <1>2, <3>1 DEF OfferedAddr
      <4> QED BY <3>1, <4>1
    <3>2. CASE ~ (wish \in Addrs /\ (holder = 0 \/ Expired(table[holder])))
      <4> DEFINE gone == {b \in Addrs : ~ Associated(table[SlotOfNip(table, b)].mac)}
      <4>1. a = FreeOrExpired(table)
        BY <1>2, <3>2 DEF OfferedAddr
      <4>2. CASE FreeAddrs(table) # {}
        <5>1. FreeAddrs(table) \subseteq Slots /\ a = First(FreeAddrs(table))
          BY <4>1, <4>2 DEF FreeOrExpired, FreeAddrs, Addrs, Slots
        <5>2. a \in FreeAddrs(table)
          BY <4>2, <5>1, FirstSlot
        <5> QED BY <5>2 DEF FreeAddrs
      <4>3. CASE FreeAddrs(table) = {}
        <5>1. PICK S \in SUBSET gone : a = First(S)
          <6>1. a = OldestAddr(table, gone)
            BY <4>1, <4>3 DEF FreeOrExpired
          <6> HIDE DEF gone
          <6> QED BY <6>1 DEF OldestAddr
        <5>2. S \subseteq Slots
          BY DEF Addrs, Slots
        <5>3. a \in gone
          BY <5>1, <5>2, FirstSlot DEF NoAddr
        <5> QED BY <5>3
      <4> QED BY <4>2, <4>3
    <3> QED BY <3>1, <3>2
  <2> QED BY <1>0, <2>1, HolderOf
<1> QED BY <1>1, <1>2

-----------------------------------------------------------------------------
(* Requests and replies under way.                                         *)

LEMMA RequestTypes ==
  ASSUME TypeOK, NEW c \in Clients
  PROVE  /\ req[c] \in Seq(Requests) /\ Len(req[c]) \in Nat /\ Len(req[c]) <= QueueLen
         /\ \A i \in Positions(c) : req[c][i] \in Requests
BY DEF TypeOK, Positions

LEMMA StaleSeq ==
  ASSUME NEW s \in Seq(Requests)
  PROVE  /\ Stale(s) \in Seq(Requests) /\ Len(Stale(s)) = Len(s)
         /\ \A i \in 1 .. Len(s) : /\ Stale(s)[i].type = s[i].type /\ Stale(s)[i].ip = s[i].ip
                                  /\ ~ Stale(s)[i].fresh
<1>1. DOMAIN s = 1 .. Len(s) /\ Len(s) \in Nat /\ \A i \in 1 .. Len(s) : s[i] \in Requests
  OBVIOUS
<1>2. Stale(s) = [i \in 1 .. Len(s) |-> [s[i] EXCEPT !.fresh = FALSE]]
  BY <1>1 DEF Stale
<1>3. \A i \in 1 .. Len(s) : [s[i] EXCEPT !.fresh = FALSE] \in Requests
  BY <1>1 DEF Requests
<1>4. Stale(s) \in [1 .. Len(s) -> Requests]
  BY <1>2, <1>3
<1>5. Stale(s) \in Seq(Requests) /\ Len(Stale(s)) = Len(s)
  BY <1>1, <1>4, IsASeq, LenProperties
<1>6. \A i \in 1 .. Len(s) : /\ Stale(s)[i].type = s[i].type /\ Stale(s)[i].ip = s[i].ip
                            /\ ~ Stale(s)[i].fresh
  BY <1>1, <1>2 DEF Requests
<1> QED BY <1>5, <1>6

\* A request sent is the last one of its station.
LEMMA Sent ==
  ASSUME TypeOK, NEW c \in Clients, NEW queue \in Seq(Requests),
         NEW type \in {"discover", "select", "reboot", "renew", "decline", "release"},
         NEW a \in Addrs \cup {NoAddr}, Send(c, queue, type, a)
  PROVE  /\ req' \in [Clients -> Seq(Requests)]
         /\ \A d \in Clients \ {c} : req'[d] = req[d]
         /\ Len(queue) \in Nat
         /\ Len(req'[c]) = Len(queue) + 1 /\ Len(req'[c]) <= QueueLen
         /\ \A i \in 1 .. Len(queue) : req'[c][i] = queue[i]
         /\ req'[c][Len(queue) + 1] = [type |-> type, ip |-> a, fresh |-> TRUE]
         /\ \A i \in 1 .. Len(req'[c]) : i \in 1 .. Len(queue) \/ i = Len(queue) + 1
<1> DEFINE r == [type |-> type, ip |-> a, fresh |-> TRUE]
<1>1. r \in Requests
  BY DEF Requests
<1>2. req' = [req EXCEPT ![c] = Append(queue, r)] /\ Len(queue) < QueueLen
  BY DEF Send
<1>3. /\ Append(queue, r) \in Seq(Requests) /\ Len(Append(queue, r)) = Len(queue) + 1
      /\ \A i \in 1 .. Len(queue) : Append(queue, r)[i] = queue[i]
      /\ Append(queue, r)[Len(queue) + 1] = r
  BY <1>1, AppendProperties
<1>4. Len(queue) \in Nat /\ QueueLen \in Nat
  BY DhcpAssumption
<1>5. req'[c] = Append(queue, r) /\ \A d \in Clients \ {c} : req'[d] = req[d]
  BY <1>2 DEF TypeOK
<1>6. req' \in [Clients -> Seq(Requests)]
  BY <1>2, <1>3 DEF TypeOK
<1> HIDE DEF r
<1>7. \A i \in 1 .. Len(queue) + 1 : i \in 1 .. Len(queue) \/ i = Len(queue) + 1
  BY <1>4
<1>8. Len(queue) + 1 <= QueueLen
  BY <1>2, <1>4
<1> QED BY <1>3, <1>4, <1>5, <1>6, <1>7, <1>8 DEF r

\* A request received, or lost, was the first one of its station.
LEMMA Taken ==
  ASSUME TypeOK, NEW c \in Clients, req[c] # << >>, req' = [req EXCEPT ![c] = Tail(req[c])]
  PROVE  /\ req' \in [Clients -> Seq(Requests)]
         /\ \A d \in Clients \ {c} : req'[d] = req[d]
         /\ req'[c] = Tail(req[c])
         /\ Len(req[c]) \in Nat \ {0} /\ Len(req'[c]) = Len(req[c]) - 1
         /\ Head(req[c]) = req[c][1] /\ Head(req[c]) \in Requests
         /\ \A i \in 1 .. Len(req'[c]) : req'[c][i] = req[c][i + 1]
         /\ \A d \in Clients : Len(req'[d]) <= QueueLen
<1>1. req[c] \in Seq(Requests) /\ Len(req[c]) <= QueueLen /\ QueueLen \in Nat
  BY DhcpAssumption DEF TypeOK
<1>2. Len(req[c]) \in Nat \ {0}
  BY <1>1, EmptySeq
<1>3. /\ Head(req[c]) \in Requests /\ Tail(req[c]) \in Seq(Requests)
      /\ Len(Tail(req[c])) = Len(req[c]) - 1
      /\ \A i \in 1 .. Len(Tail(req[c])) : Tail(req[c])[i] = req[c][i + 1]
  BY <1>1, HeadTailProperties
<1>4. Head(req[c]) = req[c][1]
  BY <1>1
<1>5. /\ req' \in [Clients -> Seq(Requests)] /\ req'[c] = Tail(req[c])
      /\ \A d \in Clients \ {c} : req'[d] = req[d]
  BY <1>3 DEF TypeOK
<1>6. \A d \in Clients : Len(req'[d]) <= QueueLen
  <2> TAKE d \in Clients
  <2>1. CASE d = c
    BY <1>1, <1>2, <1>3, <1>5, <2>1
  <2>2. CASE d # c
    BY <1>5, <2>2 DEF TypeOK
  <2> QED BY <2>1, <2>2
<1> QED BY <1>2, <1>3, <1>4, <1>5, <1>6

\* A station that forgets a transaction expects no reply to it any more.
LEMMA Forgotten ==
  ASSUME TypeOK, NEW c \in Clients, Forgets(c)
  PROVE  /\ rep' \in [Clients -> Replies \cup {None}]
         /\ rep'[c] = None /\ \A d \in Clients \ {c} : rep'[d] = rep[d]
         /\ last' = None \/ (last' = last /\ last.mac # c)
         /\ last' = None \/ last' \in [mac : Clients, type : {"offer", "ack", "nak"},
                                       ip : Addrs \cup {NoAddr}]
BY DEF Forgets, TypeOK

\* A reply pushed is there, unless one of its transaction is under way already.
LEMMA Pushed ==
  ASSUME TypeOK, NEW c \in Clients, NEW type \in {"offer", "ack", "nak"},
         NEW a \in Addrs \cup {NoAddr}, Push(c, [type |-> type, ip |-> a])
  PROVE  /\ rep' \in [Clients -> Replies \cup {None}]
         /\ \A d \in Clients \ {c} : rep'[d] = rep[d]
         /\ rep'[c] = rep[c] \/ (rep'[c] = [type |-> type, ip |-> a])
<1>1. [type |-> type, ip |-> a] \in Replies
  BY DEF Replies
<1> QED BY <1>1 DEF Push, TypeOK

\* What udhcpd_run sends again is the reply in pdhcp_pkt.
LEMMA OldReply ==
  ASSUME TypeOK, NEW c \in Clients, SendsOldReply(c)
  PROVE  /\ rep' \in [Clients -> Replies \cup {None}] /\ last' = last
         /\ \A d \in Clients :
              \/ rep'[d] = rep[d]
              \/ last # None /\ last.mac = d /\ rep'[d] = [type |-> last.type, ip |-> last.ip]
<1>1. CASE rep' = rep
  BY <1>1 DEF SendsOldReply, TypeOK
<1>2. CASE last # None /\ Push(last.mac, [type |-> last.type, ip |-> last.ip])
  <2>1. last.mac \in Clients /\ last.type \in {"offer", "ack", "nak"} /\ last.ip \in Addrs \cup {NoAddr}
    BY <1>2 DEF TypeOK
  <2> QED BY <1>2, <2>1, Pushed DEF SendsOldReply
<1> QED BY <1>1, <1>2 DEF SendsOldReply

LEMMA Replied ==
  ASSUME TypeOK, NEW c \in Clients, NEW type \in {"offer", "ack", "nak"},
         NEW a \in Addrs \cup {NoAddr}, Reply(c, type, a)
  PROVE  /\ rep' \in [Clients -> Replies \cup {None}]
         /\ \A d \in Clients \ {c} : rep'[d] = rep[d]
         /\ \/ rep' = rep /\ last' = None
            \/ /\ Head(req[c]).fresh /\ Expects(c, type)
               /\ rep'[c] = rep[c] \/ rep'[c] = [type |-> type, ip |-> a]
               /\ last' = [mac |-> c, type |-> type, ip |-> a]
<1>1. CASE Head(req[c]).fresh /\ Expects(c, type)
  <2>1. Push(c, [type |-> type, ip |-> a]) /\ last' = [mac |-> c, type |-> type, ip |-> a]
    BY <1>1 DEF Reply
  <2> QED BY <1>1, <2>1, Pushed
<1>2. CASE ~ (Head(req[c]).fresh /\ Expects(c, type))
  BY <1>2 DEF Reply, TypeOK
<1> QED BY <1>1, <1>2

-----------------------------------------------------------------------------
(* What a step must leave alone for a station.                             *)

KeepsLease(d) ==
  Associated(d) =>
    \A i \in Slots : leases[i].mac = d /\ ~ Expired(leases[i]) => leases'[i] = leases[i]

SameStation(d) == sta'[d] = sta[d] /\ wait'[d] = wait[d] /\ left'[d] = left[d]

\* The requests of the station are those before, or all but the first.
FewerRequests(d) ==
  \/ req'[d] = req[d]
  \/ /\ Len(req'[d]) = Len(req[d]) - 1
     /\ \A i \in 1 .. Len(req'[d]) : req'[d][i] = req[d][i + 1]

\* A reply that grants nothing.
GrantsNothing(d, r) ==
  \/ r.type = "nak"
  \/ r.type = "offer" /\ r.ip # NoAddr /\ sta[d].st = "selecting"

\* No new reply grants the station anything.
OldReplies(d) ==
  /\ \/ rep'[d] \in {rep[d], None}
     \/ rep'[d] # None /\ GrantsNothing(d, rep'[d])
     \/ last # None /\ last.mac = d /\ rep'[d] = [type |-> last.type, ip |-> last.ip]
  /\ \/ last' \in {last, None}
     \/ last' # None /\ GrantsNothing(d, last')
     \/ last' # None /\ last'.mac # d /\ (last'.type = "offer" => last'.ip # NoAddr)

LEMMA OldAcks ==
  ASSUME TypeOK, TypeOK', NEW d \in Clients, OldReplies(d)
  PROVE  Acked(d)' => Acked(d)
<1>1. RepAck(d)' => Acked(d)
  BY DEF OldReplies, GrantsNothing, Acked, RepAck, LastAck
<1>2. LastAck(d)' => Acked(d)
  BY DEF OldReplies, GrantsNothing, Acked, LastAck
<1> QED BY <1>1, <1>2 DEF Acked

LEMMA FewerKept ==
  ASSUME TypeOK, TypeOK', NEW d \in Clients, FewerRequests(d)
  PROVE  /\ Len(req[d]) \in Nat /\ Len(req'[d]) \in Nat
         /\ \E k \in {0, 1} : \A i \in 1 .. Len(req'[d]) :
              i + k \in 1 .. Len(req[d]) /\ req'[d][i] = req[d][i + k]
<1>1. Len(req[d]) \in Nat /\ Len(req'[d]) \in Nat
  BY DEF TypeOK
<1>2. CASE req'[d] = req[d]
  <2>1. \A i \in 1 .. Len(req'[d]) : i + 0 \in 1 .. Len(req[d]) /\ req'[d][i] = req[d][i + 0]
    BY <1>1, <1>2
  <2> QED BY <1>1, <2>1
<1>3. CASE /\ Len(req'[d]) = Len(req[d]) - 1
           /\ \A i \in 1 .. Len(req'[d]) : req'[d][i] = req[d][i + 1]
  <2>1. \A i \in 1 .. Len(req'[d]) : i + 1 \in 1 .. Len(req[d]) /\ req'[d][i] = req[d][i + 1]
    BY <1>1, <1>3
  <2> QED BY <1>1, <2>1
<1> QED BY <1>2, <1>3 DEF FewerRequests

LEMMA FewerQueueInv ==
  ASSUME TypeOK, TypeOK', NEW d \in Clients, QueueInv(d), SameStation(d), FewerRequests(d),
         Holds(d)' \/ Acked(d)' => Holds(d) \/ Acked(d)
  PROVE  QueueInv(d)'
<1>1. PICK k \in {0, 1} : \A i \in 1 .. Len(req'[d]) :
              i + k \in 1 .. Len(req[d]) /\ req'[d][i] = req[d][i + k]
  BY FewerKept
<1>2. sta'[d] = sta[d]
  BY DEF SameStation
<1>3. sta'[d].st = "selecting" =>
        \A i \in Positions(d)' : req'[d][i].fresh => req'[d][i].type = "discover"
  <2>1. \A i \in Positions(d)' : i + k \in Positions(d) /\ req'[d][i] = req[d][i + k]
    BY <1>1 DEF Positions
  <2> QED BY <1>2, <2>1 DEF QueueInv
<1>4. ASSUME sta'[d].st \in {"requesting", "rebooting"}, NEW i \in Positions(d)', NEW j \in Positions(d)',
             i <= j, req'[d][i].fresh, req'[d][i].type # "discover"
      PROVE  Mine(d, req[d][j])'
  <2>1. i \in 1 .. Len(req'[d]) /\ j \in 1 .. Len(req'[d]) /\ i + k <= j + k
    BY <1>4, FewerKept DEF Positions
  <2>2. /\ i + k \in Positions(d) /\ req'[d][i] = req[d][i + k]
        /\ j + k \in Positions(d) /\ req'[d][j] = req[d][j + k]
    BY <1>1, <2>1 DEF Positions
  <2>3. Mine(d, req[d][j + k])
    BY <1>2, <1>4, <2>1, <2>2 DEF QueueInv
  <2> QED BY <1>2, <2>2, <2>3 DEF Mine
<1>5. ASSUME Holds(d)' \/ Acked(d)', NEW i \in Positions(d)' PROVE Mine(d, req[d][i])'
  <2>1. i \in 1 .. Len(req'[d])
    BY <1>5 DEF Positions
  <2>2. Mine(d, req[d][i + k])
    BY <1>1, <1>5, <2>1 DEF QueueInv, Positions
  <2> QED BY <1>1, <1>2, <2>1, <2>2 DEF Mine
<1> QED BY <1>3, <1>4, <1>5 DEF QueueInv

LEMMA GrantKept ==
  ASSUME NEW d \in Clients, NEW time \in Int, Granted(d, time), Associated(d), KeepsLease(d),
         TypeOK, sta'[d] = sta[d], now' = now
  PROVE  time >= 0 =>
           \E i \in Slots : /\ leases'[i].mac = d /\ leases'[i].nip = sta'[d].ip
                            /\ leases'[i].expires >= now' + time
<1> SUFFICES ASSUME time >= 0
             PROVE  \E i \in Slots : /\ leases'[i].mac = d /\ leases'[i].nip = sta'[d].ip
                                     /\ leases'[i].expires >= now' + time
  OBVIOUS
<1>1. PICK i \in Slots : /\ leases[i].mac = d /\ leases[i].nip = sta[d].ip
                         /\ leases[i].expires >= now + time
  BY DEF Granted
<1>2. now \in Nat /\ leases[i].expires \in Nat
  BY DhcpAssumption DEF TypeOK
<1>3. ~ Expired(leases[i])
  BY <1>1, <1>2 DEF Expired
<1>4. leases'[i] = leases[i]
  BY <1>1, <1>3 DEF KeepsLease
<1> QED BY <1>1, <1>4

\* A station that has an address, or is to have it, is in reach.
LEMMA InReach ==
  ASSUME TypeOK, NEW d \in Clients, RepliesInv(d), Holds(d) \/ Acked(d)
  PROVE  Associated(d)
<1>1. sta[d].st # "off"
  BY DEF Holds, Acked, RepAck, LastAck, RepliesInv, ReplyFits
<1>2. d # None
  BY DhcpAssumption
<1> QED BY <1>1, <1>2 DEF Associated

\* The invariant of a station outlives every step that leaves its lease alone and
\* brings it nothing but the loss of a request or a reply, an offer or a refusal.
LEMMA StationKept ==
  ASSUME IInv, TypeOK', now' = now, NEW d \in Clients,
         SameStation(d), FewerRequests(d), OldReplies(d),
         Holds(d) \/ Acked(d) => KeepsLease(d)
  PROVE  StationInv(d)'
<1> USE DEF IInv
<1>0. TypeOK /\ StationInv(d) /\ sta'[d] = sta[d] /\ wait'[d] = wait[d] /\ left'[d] = left[d]
  BY DEF SameStation
<1>1. Acked(d)' => Acked(d)
  BY OldAcks
<1>2. Holds(d)' <=> Holds(d)
  BY <1>0 DEF Holds
<1>3. QueueInv(d)'
  BY <1>0, <1>1, <1>2, FewerQueueInv DEF StationInv
<1>4. RepliesInv(d)'
  <2>1. rep'[d] # None => ReplyFits(d, rep[d])'
    BY <1>0 DEF OldReplies, GrantsNothing, StationInv, RepliesInv, ReplyFits
  <2>2. last' # None /\ last'.mac = d => ReplyFits(d, last)'
    BY <1>0 DEF OldReplies, GrantsNothing, StationInv, RepliesInv, ReplyFits
  <2> QED BY <2>1, <2>2 DEF RepliesInv
<1>5. LeaseInv(d)'
  <2>1. left[d] \in Int /\ wait[d] \in Int
    BY <1>0, DhcpAssumption DEF TypeOK, Over
  <2>2. Holds(d) => Granted(d, left[d])'
    BY <1>0, <2>1, GrantKept, InReach DEF StationInv, LeaseInv, Granted
  <2>3. Acked(d) => Granted(d, wait[d])'
    BY <1>0, <2>1, GrantKept, InReach DEF StationInv, LeaseInv, Granted
  <2> QED BY <1>1, <1>2, <2>2, <2>3 DEF LeaseInv
<1>6. Named(d)'
  <2>1. \A i \in Positions(d)' : req'[d][i].type \in Renewals => req'[d][i].ip # NoAddr
    BY <1>0, FewerKept DEF StationInv, Named, Positions
  <2>2. rep'[d] # None /\ rep'[d].type = "offer" => rep'[d].ip # NoAddr
    BY <1>0 DEF OldReplies, GrantsNothing, StationInv, Named
  <2>3. last' # None /\ last'.type = "offer" => last'.ip # NoAddr
    BY <1>0 DEF OldReplies, GrantsNothing, StationInv, Named
  <2> QED BY <1>0, <2>1, <2>2, <2>3 DEF StationInv, Named
<1> QED BY <1>3, <1>4, <1>5, <1>6 DEF StationInv

-----------------------------------------------------------------------------
(* The steps of a station.                                                 *)

\* What a step of station c does to the others.
OnlyStation(c) ==
  /\ now' = now /\ leases' = leases /\ last' \in {last, None}
  /\ \A d \in Clients \ {c} : SameStation(d) /\ req'[d] = req[d] /\ rep'[d] = rep[d]

StationOK(c) == TypeOK' /\ StationInv(c)' /\ OnlyStation(c)

LEMMA Became ==
  ASSUME TypeOK, NEW c \in Clients,
         NEW st \in {"off", "init", "selecting", "requesting", "rebooting", "bound", "renewing"},
         NEW a \in Addrs \cup {NoAddr}, NEW w \in Over .. LeaseTime, NEW l \in Over .. LeaseTime,
         Becomes(c, st, a, w, l)
  PROVE  /\ sta' \in [Clients -> Stations]
         /\ wait' \in [Clients -> Over .. LeaseTime] /\ left' \in [Clients -> Over .. LeaseTime]
         /\ sta'[c].st = st /\ sta'[c].ip = a /\ wait'[c] = w /\ left'[c] = l
         /\ \A d \in Clients \ {c} : SameStation(d)
<1>1. [st |-> st, ip |-> a] \in Stations
  BY DEF Stations
<1>2. sta' \in [Clients -> Stations] /\ sta'[c].st = st /\ sta'[c].ip = a
  BY <1>1 DEF Becomes, TypeOK
<1>3. /\ wait' \in [Clients -> Over .. LeaseTime] /\ left' \in [Clients -> Over .. LeaseTime]
      /\ wait'[c] = w /\ left'[c] = l
  BY DEF Becomes, TypeOK
<1>4. \A d \in Clients \ {c} : SameStation(d)
  BY DEF Becomes, SameStation, TypeOK
<1> QED BY <1>2, <1>3, <1>4

LEMMA TimesInRange == Over \in Over .. LeaseTime /\ LeaseTime \in Over .. LeaseTime /\ Over < 0
BY DhcpAssumption DEF Over

\* A station that begins again: its old requests are void, and the new one is
\* the last.
LEMMA Begun ==
  ASSUME TypeOK, NEW c \in Clients,
         NEW type \in {"discover", "select", "reboot", "renew", "decline", "release"},
         NEW a \in Addrs \cup {NoAddr}, Begin(c, type, a)
  PROVE  /\ now' = now /\ leases' = leases
         /\ rep' \in [Clients -> Replies \cup {None}] /\ rep'[c] = None
         /\ last' = None \/ (last' = last /\ last.mac # c)
         /\ req' \in [Clients -> Seq(Requests)]
         /\ \A d \in Clients : Len(req'[d]) <= QueueLen
         /\ \A d \in Clients \ {c} : req'[d] = req[d] /\ rep'[d] = rep[d]
         /\ \A i \in 1 .. Len(req'[c]) :
              \/ /\ i \in 1 .. Len(req[c]) /\ i < Len(req'[c])
                 /\ req'[c][i].type = req[c][i].type /\ req'[c][i].ip = req[c][i].ip
                 /\ ~ req'[c][i].fresh
              \/ /\ i = Len(req'[c])
                 /\ req'[c][i].type = type /\ req'[c][i].ip = a
<1>1. Forgets(c) /\ now' = now /\ leases' = leases
  BY DEF Begin
<1>2. req[c] \in Seq(Requests) /\ Len(req[c]) \in Nat
  BY RequestTypes
<1>3. PICK queue \in Seq(Requests) :
        /\ Send(c, queue, type, a) /\ Len(queue) = Len(req[c])
        /\ \A i \in 1 .. Len(queue) : /\ queue[i].type = req[c][i].type /\ queue[i].ip = req[c][i].ip
                                     /\ ~ queue[i].fresh
  BY <1>2, StaleSeq DEF Begin
<1>4. /\ req' \in [Clients -> Seq(Requests)]
      /\ \A d \in Clients \ {c} : req'[d] = req[d]
      /\ Len(req'[c]) = Len(queue) + 1 /\ Len(req'[c]) <= QueueLen
      /\ \A i \in 1 .. Len(queue) : req'[c][i] = queue[i]
      /\ req'[c][Len(queue) + 1] = [type |-> type, ip |-> a, fresh |-> TRUE]
      /\ \A i \in 1 .. Len(req'[c]) : i \in 1 .. Len(queue) \/ i = Len(queue) + 1
  BY <1>3, Sent
<1>5. \A d \in Clients : Len(req'[d]) <= QueueLen
  BY <1>4 DEF TypeOK
<1>6. \A i \in 1 .. Len(req'[c]) :
        \/ /\ i \in 1 .. Len(req[c]) /\ i < Len(req'[c])
           /\ req'[c][i].type = req[c][i].type /\ req'[c][i].ip = req[c][i].ip
           /\ ~ req'[c][i].fresh
        \/ /\ i = Len(req'[c])
           /\ req'[c][i].type = type /\ req'[c][i].ip = a
  <2> TAKE i \in 1 .. Len(req'[c])
  <2>1. CASE i \in 1 .. Len(queue)
    BY <1>2, <1>3, <1>4, <2>1
  <2>2. CASE i = Len(queue) + 1
    BY <1>4, <2>2
  <2> QED BY <1>4, <2>1, <2>2
<1>7. /\ rep' \in [Clients -> Replies \cup {None}] /\ rep'[c] = None
      /\ \A d \in Clients \ {c} : rep'[d] = rep[d]
      /\ last' = None \/ (last' = last /\ last.mac # c)
  BY <1>1, Forgotten
<1> QED BY <1>1, <1>4, <1>5, <1>6, <1>7

\* A station that gives up: its requests are void.
LEMMA Abandoned ==
  ASSUME TypeOK, NEW c \in Clients, Abandon(c)
  PROVE  /\ now' = now /\ leases' = leases
         /\ rep' \in [Clients -> Replies \cup {None}] /\ rep'[c] = None
         /\ last' = None \/ (last' = last /\ last.mac # c)
         /\ req' \in [Clients -> Seq(Requests)]
         /\ \A d \in Clients : Len(req'[d]) <= QueueLen
         /\ \A d \in Clients \ {c} : req'[d] = req[d] /\ rep'[d] = rep[d]
         /\ \A i \in 1 .. Len(req'[c]) :
              /\ i \in 1 .. Len(req[c])
              /\ req'[c][i].type = req[c][i].type /\ req'[c][i].ip = req[c][i].ip
<1>1. Forgets(c) /\ req' = [req EXCEPT ![c] = Stale(req[c])] /\ now' = now /\ leases' = leases
  BY DEF Abandon
<1>2. req[c] \in Seq(Requests) /\ Len(req[c]) \in Nat /\ Len(req[c]) <= QueueLen
  BY RequestTypes
<1>3. /\ Stale(req[c]) \in Seq(Requests) /\ Len(Stale(req[c])) = Len(req[c])
      /\ \A i \in 1 .. Len(req[c]) : /\ Stale(req[c])[i].type = req[c][i].type
                                    /\ Stale(req[c])[i].ip = req[c][i].ip
  BY <1>2, StaleSeq
<1>4. /\ req' \in [Clients -> Seq(Requests)] /\ req'[c] = Stale(req[c])
      /\ \A d \in Clients \ {c} : req'[d] = req[d]
  BY <1>1, <1>3 DEF TypeOK
<1>5. \A d \in Clients : Len(req'[d]) <= QueueLen
  BY <1>2, <1>3, <1>4 DEF TypeOK
<1>6. /\ rep' \in [Clients -> Replies \cup {None}] /\ rep'[c] = None
      /\ \A d \in Clients \ {c} : rep'[d] = rep[d]
      /\ last' = None \/ (last' = last /\ last.mac # c)
  BY <1>1, Forgotten
<1> QED BY <1>1, <1>3, <1>4, <1>5, <1>6

LEMMA TypesKept ==
  ASSUME TypeOK, now' = now, leases' = leases, last' \in {last, None},
         sta' \in [Clients -> Stations],
         wait' \in [Clients -> Over .. LeaseTime], left' \in [Clients -> Over .. LeaseTime],
         req' \in [Clients -> Seq(Requests)], \A d \in Clients : Len(req'[d]) <= QueueLen,
         rep' \in [Clients -> Replies \cup {None}]
  PROVE  TypeOK'
BY DEF TypeOK

\* Without a reply to it, a station that has no address and asks for none owes
\* the invariant only the addresses of its requests.
LEMMA Unbound ==
  ASSUME NEW c \in Clients, sta'[c].st \in {"off", "init"},
         rep'[c] = None, last' = None \/ (last' = last /\ last.mac # c), StationInv(c),
         \A i \in 1 .. Len(req'[c]) : req'[c][i].type \in Renewals => req'[c][i].ip # NoAddr
  PROVE  StationInv(c)'
<1>1. ~ Holds(c)' /\ ~ Acked(c)'
  BY DEF Holds, Acked, RepAck, LastAck
<1>2. QueueInv(c)' /\ LeaseInv(c)'
  BY <1>1 DEF QueueInv, LeaseInv
<1>3. RepliesInv(c)'
  BY DEF RepliesInv
<1>4. Named(c)'
  BY DEF StationInv, Named, Positions
<1> QED BY <1>2, <1>3, <1>4 DEF StationInv

LEMMA Starts ==
  ASSUME IInv, NEW c \in Clients,
         NEW type \in {"discover", "select", "reboot", "renew", "decline", "release"},
         NEW b \in Addrs \cup {NoAddr}, Begin(c, type, b),
         NEW st \in {"off", "init", "selecting", "requesting", "rebooting", "bound", "renewing"},
         NEW a \in Addrs \cup {NoAddr}, NEW w \in Over .. LeaseTime, NEW l \in Over .. LeaseTime,
         Becomes(c, st, a, w, l)
  PROVE  TypeOK' /\ OnlyStation(c)
<1>0. TypeOK
  BY DEF IInv
<1>1. /\ now' = now /\ leases' = leases
      /\ rep' \in [Clients -> Replies \cup {None}]
      /\ last' \in {last, None}
      /\ req' \in [Clients -> Seq(Requests)] /\ \A d \in Clients : Len(req'[d]) <= QueueLen
      /\ \A d \in Clients \ {c} : req'[d] = req[d] /\ rep'[d] = rep[d]
  BY <1>0, Begun
<1>2. /\ sta' \in [Clients -> Stations]
      /\ wait' \in [Clients -> Over .. LeaseTime] /\ left' \in [Clients -> Over .. LeaseTime]
      /\ \A d \in Clients \ {c} : SameStation(d)
  BY <1>0, Became
<1>3. TypeOK'
  BY <1>0, <1>1, <1>2, TypesKept
<1> QED BY <1>1, <1>2, <1>3 DEF OnlyStation

LEMMA Stops ==
  ASSUME IInv, NEW c \in Clients, Abandon(c),
         NEW st \in {"off", "init"}, Becomes(c, st, NoAddr, Over, Over)
  PROVE  StationOK(c)
<1>0. TypeOK /\ StationInv(c)
  BY DEF IInv
<1>1. /\ now' = now /\ leases' = leases
      /\ rep' \in [Clients -> Replies \cup {None}] /\ rep'[c] = None
      /\ last' = None \/ (last' = last /\ last.mac # c)
      /\ req' \in [Clients -> Seq(Requests)] /\ \A d \in Clients : Len(req'[d]) <= QueueLen
      /\ \A d \in Clients \ {c} : req'[d] = req[d] /\ rep'[d] = rep[d]
      /\ \A i \in 1 .. Len(req'[c]) :
           /\ i \in 1 .. Len(req[c])
           /\ req'[c][i].type = req[c][i].type /\ req'[c][i].ip = req[c][i].ip
  BY <1>0, Abandoned
<1>2. /\ sta' \in [Clients -> Stations] /\ sta'[c].st = st
      /\ wait' \in [Clients -> Over .. LeaseTime] /\ left' \in [Clients -> Over .. LeaseTime]
      /\ \A d \in Clients \ {c} : SameStation(d)
  BY <1>0, Became, TimesInRange
<1>3. TypeOK'
  BY <1>0, <1>1, <1>2, TypesKept
<1>4. StationInv(c)'
  <2>1. \A i \in 1 .. Len(req'[c]) : req'[c][i].type \in Renewals => req'[c][i].ip # NoAddr
    BY <1>0, <1>1 DEF StationInv, Named, Positions
  <2> QED BY <1>0, <1>1, <1>2, <2>1, Unbound
<1>5. OnlyStation(c)
  BY <1>1, <1>2 DEF OnlyStation
<1> QED BY <1>3, <1>4, <1>5 DEF StationOK

LEMMA JoinOK ==
  ASSUME IInv, NEW c \in Clients, Join(c) PROVE StationOK(c)
<1>0. TypeOK /\ StationInv(c)
  BY DEF IInv
<1>1. PICK a \in Addrs \cup {NoAddr} : Becomes(c, "init", a, Over, Over)
  BY DEF Join
<1>2. /\ sta' \in [Clients -> Stations] /\ sta'[c].st = "init"
      /\ wait' \in [Clients -> Over .. LeaseTime] /\ left' \in [Clients -> Over .. LeaseTime]
      /\ \A d \in Clients \ {c} : SameStation(d)
  BY <1>0, <1>1, Became, TimesInRange
<1>3. now' = now /\ leases' = leases /\ last' = last /\ req' = req /\ rep' = rep /\ sta[c].st = "off"
  BY DEF Join
<1>4. TypeOK'
  BY <1>0, <1>2, <1>3 DEF TypeOK
<1>5. OnlyStation(c)
  BY <1>2, <1>3 DEF OnlyStation
<1>6. StationInv(c)'
  <2>1. ~ Acked(c)' /\ ~ Holds(c)'
    BY <1>0, <1>2, <1>3 DEF StationInv, RepliesInv, ReplyFits, Acked, RepAck, LastAck, Holds
  <2>2. QueueInv(c)' /\ LeaseInv(c)'
    BY <1>2, <2>1 DEF QueueInv, LeaseInv
  <2>3. RepliesInv(c)'
    BY <1>0, <1>2, <1>3 DEF StationInv, RepliesInv, ReplyFits
  <2>4. Named(c)'
    BY <1>0, <1>2, <1>3 DEF StationInv, Named, Positions
  <2> QED BY <2>2, <2>3, <2>4 DEF StationInv
<1> QED BY <1>4, <1>5, <1>6 DEF StationOK

LEMMA DiscoverOK ==
  ASSUME IInv, NEW c \in Clients, Discover(c) PROVE StationOK(c)
<1>0. TypeOK /\ StationInv(c)
  BY DEF IInv
<1>1. PICK wish \in Addrs \cup {NoAddr} : Begin(c, "discover", wish)
  BY <1>0 DEF Discover, TypeOK, Stations
<1>2. Becomes(c, "selecting", NoAddr, Over, Over)
  BY DEF Discover
<1>3. TypeOK' /\ OnlyStation(c)
  BY <1>1, <1>2, Starts, TimesInRange
<1>4. sta'[c].st = "selecting"
  BY <1>0, <1>2, Became, TimesInRange
<1>5. /\ rep'[c] = None /\ (last' = None \/ (last' = last /\ last.mac # c))
      /\ \A i \in 1 .. Len(req'[c]) :
           \/ /\ i \in 1 .. Len(req[c])
              /\ req'[c][i].type = req[c][i].type /\ req'[c][i].ip = req[c][i].ip
              /\ ~ req'[c][i].fresh
           \/ req'[c][i].type = "discover"
  BY <1>0, <1>1, Begun
<1>6. ~ Acked(c)' /\ ~ Holds(c)'
  BY <1>4, <1>5 DEF Acked, RepAck, LastAck, Holds
<1>7. QueueInv(c)'
  BY <1>4, <1>5, <1>6 DEF QueueInv, Positions
<1>8. RepliesInv(c)' /\ LeaseInv(c)'
  BY <1>5, <1>6 DEF RepliesInv, LeaseInv
<1>9. Named(c)'
  BY <1>0, <1>4, <1>5 DEF StationInv, Named, Positions, Renewals
<1> QED BY <1>3, <1>7, <1>8, <1>9 DEF StationOK, StationInv

LEMMA RebootOK ==
  ASSUME IInv, NEW c \in Clients, Reboot(c) PROVE StationOK(c)
<1> DEFINE a == sta[c].ip
<1>0. TypeOK /\ StationInv(c) /\ a \in Addrs \cup {NoAddr} /\ a # NoAddr
  BY DEF IInv, TypeOK, Stations, Reboot
<1>1. Begin(c, "reboot", a) /\ Becomes(c, "rebooting", a, LeaseTime, Over)
  BY DEF Reboot
<1>2. TypeOK' /\ OnlyStation(c)
  BY <1>0, <1>1, Starts, TimesInRange
<1>3. sta'[c].st = "rebooting" /\ sta'[c].ip = a
  BY <1>0, <1>1, Became, TimesInRange
<1>4. /\ rep'[c] = None /\ (last' = None \/ (last' = last /\ last.mac # c))
      /\ \A i \in 1 .. Len(req'[c]) :
           \/ /\ i \in 1 .. Len(req[c])
              /\ req'[c][i].type = req[c][i].type /\ req'[c][i].ip = req[c][i].ip
              /\ ~ req'[c][i].fresh
           \/ i = Len(req'[c]) /\ req'[c][i].type = "reboot" /\ req'[c][i].ip = a
  <2> HIDE DEF a
  <2> QED BY <1>0, <1>1, Begun
<1>5. ~ Acked(c)' /\ ~ Holds(c)'
  BY <1>3, <1>4 DEF Acked, RepAck, LastAck, Holds
<1>6. ASSUME NEW i \in Positions(c)', NEW j \in Positions(c)', i <= j, req'[c][i].fresh
      PROVE  Mine(c, req[c][j])'
  <2>1. i = Len(req'[c]) /\ i = j
    BY <1>2, <1>4, <1>6 DEF Positions, TypeOK
  <2> QED BY <1>3, <1>4, <1>6, <2>1 DEF Positions, Mine, Renewals
<1>7. QueueInv(c)'
  BY <1>3, <1>5, <1>6 DEF QueueInv
<1>8. RepliesInv(c)' /\ LeaseInv(c)'
  BY <1>4, <1>5 DEF RepliesInv, LeaseInv
<1>9. Named(c)'
  BY <1>0, <1>3, <1>4 DEF StationInv, Named, Positions
<1> QED BY <1>2, <1>7, <1>8, <1>9 DEF StationOK, StationInv

LEMMA RenewOK ==
  ASSUME IInv, NEW c \in Clients, Renew(c) PROVE StationOK(c)
<1> DEFINE a == sta[c].ip
<1>0. /\ TypeOK /\ StationInv(c) /\ a \in Addrs \cup {NoAddr} /\ left[c] \in Over .. LeaseTime
      /\ Holds(c) /\ a # NoAddr
  BY DEF IInv, TypeOK, Stations, Renew, StationInv, Named, Holds
<1>1. Begin(c, "renew", a) /\ Becomes(c, "renewing", a, LeaseTime, left[c])
  BY DEF Renew
<1>2. TypeOK' /\ OnlyStation(c)
  BY <1>0, <1>1, Starts, TimesInRange
<1>3. sta'[c].st = "renewing" /\ sta'[c].ip = a /\ left'[c] = left[c]
  BY <1>0, <1>1, Became, TimesInRange
<1>4. /\ now' = now /\ leases' = leases
      /\ rep'[c] = None /\ (last' = None \/ (last' = last /\ last.mac # c))
      /\ \A i \in 1 .. Len(req'[c]) :
           \/ /\ i \in 1 .. Len(req[c])
              /\ req'[c][i].type = req[c][i].type /\ req'[c][i].ip = req[c][i].ip
           \/ req'[c][i].type = "renew" /\ req'[c][i].ip = a
  BY <1>0, <1>1, Begun
<1>5. ~ Acked(c)'
  BY <1>4 DEF Acked, RepAck, LastAck
<1>6. \A i \in Positions(c)' : Mine(c, req[c][i])'
  BY <1>0, <1>3, <1>4 DEF StationInv, QueueInv, Positions, Mine, Renewals
<1>7. QueueInv(c)'
  BY <1>3, <1>6 DEF QueueInv
<1>8. RepliesInv(c)'
  BY <1>4 DEF RepliesInv
<1>9. LeaseInv(c)'
  BY <1>0, <1>3, <1>4, <1>5 DEF StationInv, LeaseInv, Granted
<1>10. Named(c)'
  BY <1>0, <1>3, <1>4 DEF StationInv, Named, Positions
<1> QED BY <1>2, <1>7, <1>8, <1>9, <1>10 DEF StationOK, StationInv

\* DHCPRELEASE and DHCPDECLINE.
LEMMA GivesBack ==
  ASSUME IInv, NEW c \in Clients, NEW type \in {"release", "decline"},
         Begin(c, type, sta[c].ip), Becomes(c, "init", NoAddr, Over, Over)
  PROVE  StationOK(c)
<1>0. TypeOK /\ StationInv(c) /\ sta[c].ip \in Addrs \cup {NoAddr}
  BY DEF IInv, TypeOK, Stations
<1>1. TypeOK' /\ OnlyStation(c)
  BY <1>0, Starts, TimesInRange
<1>2. sta'[c].st = "init"
  BY <1>0, Became, TimesInRange
<1>3. /\ rep'[c] = None /\ (last' = None \/ (last' = last /\ last.mac # c))
      /\ \A i \in 1 .. Len(req'[c]) :
           \/ /\ i \in 1 .. Len(req[c])
              /\ req'[c][i].type = req[c][i].type /\ req'[c][i].ip = req[c][i].ip
           \/ req'[c][i].type = type
  BY <1>0, Begun
<1>4. \A i \in 1 .. Len(req'[c]) : req'[c][i].type \in Renewals => req'[c][i].ip # NoAddr
  BY <1>0, <1>3 DEF StationInv, Named, Positions, Renewals
<1>5. StationInv(c)'
  BY <1>0, <1>2, <1>3, <1>4, Unbound
<1> QED BY <1>1, <1>5 DEF StationOK

LEMMA ResendOK ==
  ASSUME IInv, NEW c \in Clients, Resend(c) PROVE StationOK(c)
<1> DEFINE a == sta[c].ip
<1>0. /\ TypeOK /\ StationInv(c) /\ a \in Addrs \cup {NoAddr} /\ NoAddr \in Addrs \cup {NoAddr}
      /\ req[c] \in Seq(Requests)
  BY DEF IInv, TypeOK, Stations
<1>1. now' = now /\ leases' = leases /\ last' = last /\ sta' = sta /\ wait' = wait /\ left' = left /\ rep' = rep
  BY DEF Resend
<1>2. PICK type \in {"discover", "select", "reboot", "renew"}, b \in Addrs \cup {NoAddr} :
        /\ Send(c, req[c], type, b)
        /\ \/ sta[c].st = "selecting" /\ type = "discover"
           \/ sta[c].st \in {"requesting", "rebooting", "renewing"} /\ type \in Renewals /\ b = a
  BY <1>0 DEF Resend, Renewals
<1>3. /\ req' \in [Clients -> Seq(Requests)]
      /\ \A d \in Clients \ {c} : req'[d] = req[d]
      /\ Len(req[c]) \in Nat /\ Len(req'[c]) = Len(req[c]) + 1 /\ Len(req'[c]) <= QueueLen
      /\ \A i \in 1 .. Len(req[c]) : req'[c][i] = req[c][i]
      /\ req'[c][Len(req[c]) + 1] = [type |-> type, ip |-> b, fresh |-> TRUE]
      /\ \A i \in 1 .. Len(req'[c]) : i \in 1 .. Len(req[c]) \/ i = Len(req[c]) + 1
  BY <1>0, <1>2, Sent
<1>4. TypeOK'
  <2>1. \A d \in Clients : Len(req'[d]) <= QueueLen
    BY <1>0, <1>3 DEF TypeOK
  <2> QED BY <1>0, <1>1, <1>3, <2>1 DEF TypeOK
<1>5. OnlyStation(c)
  BY <1>1, <1>3 DEF OnlyStation, SameStation
<1>6. Acked(c)' = Acked(c) /\ Holds(c)' = Holds(c)
  BY <1>1 DEF Acked, RepAck, LastAck, Holds
<1>7. sta[c].st = "selecting" => ~ Acked(c) /\ ~ Holds(c)
  BY <1>0 DEF StationInv, RepliesInv, ReplyFits, Acked, RepAck, LastAck, Holds
<1>8. CASE sta[c].st = "selecting"
  <2>0. type = "discover" /\ ~ Acked(c)' /\ ~ Holds(c)'
    BY <1>2, <1>6, <1>7, <1>8
  <2>1. QueueInv(c)'
    <3>1. \A i \in Positions(c)' : req'[c][i].fresh => req'[c][i].type = "discover"
      BY <1>0, <1>3, <1>8, <2>0 DEF StationInv, QueueInv, Positions
    <3> QED BY <1>1, <1>8, <2>0, <3>1 DEF QueueInv
  <2>2. RepliesInv(c)' /\ LeaseInv(c)'
    <3>1. RepliesInv(c)'
      BY <1>0, <1>1 DEF StationInv, RepliesInv, ReplyFits
    <3> QED BY <2>0, <3>1 DEF LeaseInv
  <2>3. Named(c)'
    <3>1. ASSUME NEW i \in Positions(c)', req'[c][i].type \in Renewals
          PROVE  i \in Positions(c) /\ req'[c][i] = req[c][i]
      <4>1. i # Len(req[c]) + 1
        BY <1>3, <2>0, <3>1 DEF Renewals
      <4>2. i \in Positions(c)
        BY <1>3, <3>1, <4>1 DEF Positions
      <4> QED BY <1>3, <4>2 DEF Positions
    <3>2. \A i \in Positions(c)' : req'[c][i].type \in Renewals => req'[c][i].ip # NoAddr
      BY <1>0, <3>1 DEF StationInv, Named
    <3> QED BY <1>0, <1>1, <3>2 DEF StationInv, Named
  <2> QED BY <1>4, <1>5, <2>1, <2>2, <2>3 DEF StationOK, StationInv
<1>9. CASE sta[c].st \in {"requesting", "rebooting", "renewing"}
  <2>1. type \in Renewals /\ b = a
    BY <1>2, <1>9
  <2>2. \A j \in Positions(c)' : j = Len(req[c]) + 1 => Mine(c, req[c][j])'
    BY <1>1, <1>3, <2>1 DEF Mine
  <2>3. \A i \in 1 .. Len(req[c]) : Mine(c, req[c][i])' <=> Mine(c, req[c][i])
    BY <1>1, <1>3 DEF Mine
  <2>4. ASSUME sta'[c].st \in {"requesting", "rebooting"},
               NEW i \in Positions(c)', NEW j \in Positions(c)', i <= j, req'[c][i].fresh,
               req'[c][i].type # "discover"
        PROVE  Mine(c, req[c][j])'
    <3>1. CASE j = Len(req[c]) + 1
      BY <2>2, <2>4, <3>1
    <3>2. CASE j \in 1 .. Len(req[c])
      <4>1. i \in 1 .. Len(req[c])
        BY <1>3, <2>4, <3>2 DEF Positions
      <4> QED BY <1>0, <1>1, <1>3, <2>3, <2>4, <3>2, <4>1 DEF StationInv, QueueInv, Positions
    <3> QED BY <1>3, <2>4, <3>1, <3>2 DEF Positions
  <2>5. ASSUME Holds(c)' \/ Acked(c)', NEW i \in Positions(c)' PROVE Mine(c, req[c][i])'
    <3>1. CASE i = Len(req[c]) + 1
      BY <2>2, <2>5, <3>1
    <3>2. CASE i \in 1 .. Len(req[c])
      BY <1>0, <1>6, <2>3, <2>5, <3>2 DEF StationInv, QueueInv, Positions
    <3> QED BY <1>3, <2>5, <3>1, <3>2 DEF Positions
  <2>6. QueueInv(c)'
    BY <1>1, <1>9, <2>4, <2>5 DEF QueueInv
  <2>7. RepliesInv(c)'
    BY <1>0, <1>1 DEF StationInv, RepliesInv, ReplyFits
  <2>8. LeaseInv(c)'
    BY <1>0, <1>1, <1>6 DEF StationInv, LeaseInv, Granted
  <2>9. Named(c)'
    BY <1>0, <1>1, <1>3, <1>9, <2>1 DEF StationInv, Named, Positions
  <2> QED BY <1>4, <1>5, <2>6, <2>7, <2>8, <2>9 DEF StationOK, StationInv
<1> QED BY <1>2, <1>8, <1>9

\* The reply the station gets.
LEMMA TakeReplyOK ==
  ASSUME IInv, NEW c \in Clients, TakeReply(c) PROVE StationOK(c)
<1> DEFINE r == rep[c]
<1>0. /\ TypeOK /\ StationInv(c) /\ req[c] \in Seq(Requests)
      /\ r # None /\ r \in Replies /\ r.ip \in Addrs \cup {NoAddr}
      /\ wait[c] \in Over .. LeaseTime
  BY DEF IInv, TypeOK, TakeReply, Replies
<1>1. now' = now /\ leases' = leases /\ Forgets(c)
  BY DEF TakeReply
<1>2. /\ rep' \in [Clients -> Replies \cup {None}] /\ rep'[c] = None
      /\ \A d \in Clients \ {c} : rep'[d] = rep[d]
      /\ last' = None \/ (last' = last /\ last.mac # c)
  BY <1>0, <1>1, Forgotten
<1>3. ~ Acked(c)' /\ RepliesInv(c)'
  BY <1>2 DEF Acked, RepAck, LastAck, RepliesInv
<1>4. CASE r.type = "offer"
  <2>1. Becomes(c, "requesting", r.ip, LeaseTime, Over) /\ r.ip # NoAddr /\ sta[c].st = "selecting"
    BY <1>0, <1>4 DEF TakeReply, StationInv, Named, RepliesInv, ReplyFits
  <2>2. /\ sta' \in [Clients -> Stations] /\ sta'[c].st = "requesting" /\ sta'[c].ip = r.ip
        /\ wait' \in [Clients -> Over .. LeaseTime] /\ left' \in [Clients -> Over .. LeaseTime]
        /\ \A d \in Clients \ {c} : SameStation(d)
    BY <1>0, <2>1, Became, TimesInRange
  <2>3. /\ req' \in [Clients -> Seq(Requests)] /\ \A d \in Clients : Len(req'[d]) <= QueueLen
        /\ \A d \in Clients \ {c} : req'[d] = req[d]
        /\ Len(req[c]) \in Nat /\ Len(req'[c]) \in Nat
        /\ \A i \in 1 .. Len(req'[c]) :
             \/ i \in 1 .. Len(req[c]) /\ req'[c][i] = req[c][i]
             \/ i = Len(req'[c]) /\ req'[c][i].type = "select" /\ req'[c][i].ip = r.ip
    <3>1. CASE req' = req
      BY <1>0, <3>1 DEF TypeOK
    <3>2. CASE Send(c, req[c], "select", r.ip)
      <4>1. /\ req' \in [Clients -> Seq(Requests)]
            /\ \A d \in Clients \ {c} : req'[d] = req[d]
            /\ Len(req[c]) \in Nat /\ Len(req'[c]) = Len(req[c]) + 1 /\ Len(req'[c]) <= QueueLen
            /\ \A i \in 1 .. Len(req[c]) : req'[c][i] = req[c][i]
            /\ req'[c][Len(req[c]) + 1] = [type |-> "select", ip |-> r.ip, fresh |-> TRUE]
            /\ \A i \in 1 .. Len(req'[c]) : i \in 1 .. Len(req[c]) \/ i = Len(req[c]) + 1
        BY <1>0, <3>2, Sent
      <4>2. \A d \in Clients : Len(req'[d]) <= QueueLen
        BY <1>0, <4>1 DEF TypeOK
      <4> HIDE DEF r
      <4>3. Len(req'[c]) \in Nat /\ Len(req'[c]) = Len(req[c]) + 1
        BY <4>1
      <4>4. req'[c][Len(req'[c])].type = "select" /\ req'[c][Len(req'[c])].ip = r.ip
        BY <4>1
      <4>5. ASSUME NEW i \in 1 .. Len(req'[c])
            PROVE  \/ i \in 1 .. Len(req[c]) /\ req'[c][i] = req[c][i]
                   \/ i = Len(req'[c]) /\ req'[c][i].type = "select" /\ req'[c][i].ip = r.ip
        <5>1. CASE i \in 1 .. Len(req[c])
          BY <4>1, <5>1
        <5>2. CASE i = Len(req'[c])
          BY <4>4, <5>2
        <5> QED BY <4>1, <4>3, <5>1, <5>2
      <4> QED BY <4>1, <4>2, <4>3, <4>5
    <3> QED BY <1>4, <3>1, <3>2 DEF TakeReply
  <2>4. TypeOK'
    BY <1>0, <1>1, <1>2, <2>2, <2>3, TypesKept
  <2>5. OnlyStation(c)
    BY <1>1, <1>2, <2>2, <2>3 DEF OnlyStation
  <2>6. ~ Holds(c)'
    BY <2>2 DEF Holds
  <2>7. ASSUME NEW i \in Positions(c)', NEW j \in Positions(c)', i <= j, req'[c][i].fresh,
               req'[c][i].type # "discover"
        PROVE  Mine(c, req[c][j])'
    <3>1. ~ (i \in 1 .. Len(req[c]) /\ req'[c][i] = req[c][i])
      BY <1>0, <2>1, <2>7 DEF StationInv, QueueInv, Positions
    <3>2. i = Len(req'[c]) /\ i = j
      BY <2>3, <2>7, <3>1 DEF Positions
    <3> QED BY <2>2, <2>3, <2>7, <3>1, <3>2 DEF Positions, Mine, Renewals
  <2>8. QueueInv(c)' /\ LeaseInv(c)'
    BY <1>3, <2>2, <2>6, <2>7 DEF QueueInv, LeaseInv
  <2>9. Named(c)'
    BY <1>0, <1>2, <2>1, <2>2, <2>3 DEF StationInv, Named, Positions
  <2> QED BY <1>3, <2>4, <2>5, <2>8, <2>9 DEF StationOK, StationInv
<1>5. CASE r.type = "ack"
  <2>1. Acked(c) /\ r.ip = sta[c].ip /\ sta[c].st \in {"requesting", "rebooting", "renewing"}
    BY <1>0, <1>5 DEF Acked, RepAck, StationInv, RepliesInv, ReplyFits
  <2>2. Becomes(c, "bound", r.ip, Over, wait[c]) /\ req' = req
    BY <1>5 DEF TakeReply
  <2>3. /\ sta' \in [Clients -> Stations] /\ sta'[c].st = "bound" /\ sta'[c].ip = sta[c].ip
        /\ left'[c] = wait[c]
        /\ wait' \in [Clients -> Over .. LeaseTime] /\ left' \in [Clients -> Over .. LeaseTime]
        /\ \A d \in Clients \ {c} : SameStation(d)
    <3>1. /\ sta' \in [Clients -> Stations] /\ sta'[c].st = "bound" /\ sta'[c].ip = r.ip
          /\ left'[c] = wait[c]
          /\ wait' \in [Clients -> Over .. LeaseTime] /\ left' \in [Clients -> Over .. LeaseTime]
          /\ \A d \in Clients \ {c} : SameStation(d)
      <4> HIDE DEF r
      <4>1. Over \in Over .. LeaseTime /\ wait[c] \in Over .. LeaseTime
        BY <1>0, TimesInRange DEF TypeOK
      <4>2. r.ip \in Addrs \cup {NoAddr} /\ TypeOK
        BY <1>0
      <4>3. Becomes(c, "bound", r.ip, Over, wait[c])
        BY <2>2
      <4> QED BY <4>1, <4>2, <4>3, Became
    <3> QED BY <2>1, <3>1
  <2>4. req' \in [Clients -> Seq(Requests)] /\ \A d \in Clients : Len(req'[d]) <= QueueLen
    BY <1>0, <2>2 DEF TypeOK
  <2>5. TypeOK'
    BY <1>0, <1>1, <1>2, <2>3, <2>4, TypesKept
  <2>6. OnlyStation(c)
    BY <1>1, <1>2, <2>2, <2>3 DEF OnlyStation
  <2>7. \A i \in Positions(c)' : Mine(c, req[c][i])'
    BY <1>0, <2>1, <2>2, <2>3 DEF StationInv, QueueInv, Positions, Mine
  <2>8. QueueInv(c)'
    BY <2>3, <2>7 DEF QueueInv
  <2>9. LeaseInv(c)'
    BY <1>0, <1>1, <1>3, <2>1, <2>3 DEF StationInv, LeaseInv, Granted
  <2>10. Named(c)'
    BY <1>0, <1>2, <2>1, <2>2, <2>3 DEF StationInv, Named, Positions
  <2> QED BY <1>3, <2>5, <2>6, <2>8, <2>9, <2>10 DEF StationOK, StationInv
<1>6. CASE r.type = "nak"
  <2>1. Becomes(c, "init", NoAddr, Over, Over) /\ req' = req
    BY <1>6 DEF TakeReply
  <2>2. /\ sta' \in [Clients -> Stations] /\ sta'[c].st = "init"
        /\ wait' \in [Clients -> Over .. LeaseTime] /\ left' \in [Clients -> Over .. LeaseTime]
        /\ \A d \in Clients \ {c} : SameStation(d)
    BY <1>0, <2>1, Became, TimesInRange
  <2>3. req' \in [Clients -> Seq(Requests)] /\ \A d \in Clients : Len(req'[d]) <= QueueLen
    BY <1>0, <2>1 DEF TypeOK
  <2>4. TypeOK'
    BY <1>0, <1>1, <1>2, <2>2, <2>3, TypesKept
  <2>5. OnlyStation(c)
    BY <1>1, <1>2, <2>1, <2>2 DEF OnlyStation
  <2>6. \A i \in 1 .. Len(req'[c]) : req'[c][i].type \in Renewals => req'[c][i].ip # NoAddr
    BY <1>0, <2>1 DEF StationInv, Named, Positions
  <2>7. StationInv(c)'
    BY <1>0, <1>2, <2>2, <2>6, Unbound
  <2> QED BY <2>4, <2>5, <2>7 DEF StationOK
<1> QED BY <1>0, <1>4, <1>5, <1>6 DEF Replies

LEMMA StationStep ==
  ASSUME IInv, NEW c \in Clients, Station(c) PROVE StationOK(c)
<1>1. CASE Join(c)
  BY <1>1, JoinOK
<1>2. CASE Leave(c) \/ GiveUp(c) \/ LeaseEnds(c)
  <2>1. Abandon(c) /\ \E st \in {"off", "init"} : Becomes(c, st, NoAddr, Over, Over)
    BY <1>2 DEF Leave, GiveUp, LeaseEnds
  <2> QED BY <2>1, Stops
<1>3. CASE Discover(c)
  BY <1>3, DiscoverOK
<1>4. CASE Reboot(c)
  BY <1>4, RebootOK
<1>5. CASE Renew(c)
  BY <1>5, RenewOK
<1>6. CASE Release(c) \/ Decline(c)
  BY <1>6, GivesBack DEF Release, Decline
<1>7. CASE Resend(c)
  BY <1>7, ResendOK
<1>8. CASE TakeReply(c)
  BY <1>8, TakeReplyOK
<1> QED BY <1>1, <1>2, <1>3, <1>4, <1>5, <1>6, <1>7, <1>8 DEF Station

-----------------------------------------------------------------------------
(* What the server and the Wi-Fi library do to the table.                  *)

\* A lease that is not over, of a station in reach, goes to nobody else.
NoneLost ==
  \A i, j \in Slots :
    /\ Associated(leases[i].mac) /\ ~ Expired(leases[i])
    /\ leases'[j].nip = leases[i].nip
    => leases'[j].mac \in {leases[i].mac, None}

\* The table after a step for station c.
TableOK(c) ==
  /\ leases' \in Table /\ Distinct(leases') /\ Whole(leases')
  /\ \A d \in Clients \ {c} : KeepsLease(d)
  /\ NoneLost

LEMMA OldTable ==
  ASSUME IInv, leases' = leases
  PROVE  /\ leases' \in Table /\ Distinct(leases') /\ Whole(leases') /\ NoneLost
         /\ \A d \in Clients : KeepsLease(d)
<1>1. leases \in Table /\ Distinct(leases) /\ Whole(leases)
  BY DEF IInv, TypeOK, Table
<1>2. NoneLost
  <2> SUFFICES ASSUME NEW i \in Slots, NEW j \in Slots, Associated(leases[i].mac),
                      leases'[j].nip = leases[i].nip
               PROVE  leases'[j].mac \in {leases[i].mac, None}
    BY DEF NoneLost
  <2>1. leases[i].nip # NoAddr
    BY <1>1 DEF Associated, Whole
  <2>2. i = j
    BY <1>1, <2>1 DEF Distinct
  <2> QED BY <2>2
<1> QED BY <1>1, <1>2 DEF KeepsLease

LEMMA ClearedTableOK ==
  ASSUME IInv, NEW c \in Clients, leases' \in Tables(c)
  PROVE  TableOK(c) /\ (Associated(c) => leases' = leases)
<1>1. leases \in Table /\ Distinct(leases) /\ Whole(leases)
  BY DEF IInv, TypeOK, Table
<1>2. PICK table \in Tables(c) : leases' = table
  OBVIOUS
<1>3. /\ leases' \in Table /\ Distinct(leases') /\ Whole(leases')
      /\ \A i \in Slots : leases[i].mac # c => leases'[i] = leases[i]
      /\ Associated(c) => leases' = leases
      /\ \A i \in Slots : leases'[i] \in {leases[i], EmptyLease}
  BY <1>1, <1>2, ClearedSlot
<1>4. \A d \in Clients \ {c} : KeepsLease(d)
  BY <1>3 DEF KeepsLease
<1>5. NoneLost
  <2> SUFFICES ASSUME NEW i \in Slots, NEW j \in Slots, Associated(leases[i].mac),
                      leases'[j].nip = leases[i].nip
               PROVE  leases'[j].mac \in {leases[i].mac, None}
    BY DEF NoneLost
  <2>1. leases[i].nip # NoAddr
    BY <1>1 DEF Associated, Whole
  <2>2. leases'[j] = leases[j]
    BY <1>3, <2>1 DEF EmptyLease
  <2>3. i = j
    BY <1>1, <2>1, <2>2 DEF Distinct
  <2> QED BY <2>2, <2>3
<1> QED BY <1>3, <1>4, <1>5 DEF TableOK

\* A lease added at an address that is the station's own, free, over, or of a
\* station out of reach.
LEMMA AddedTableOK ==
  ASSUME IInv, NEW c \in Clients, NEW table \in Tables(c), NEW a \in Addrs, NEW time \in Nat,
         \A i \in Slots : table[i].nip = a =>
           table[i].mac = c \/ Expired(table[i]) \/ ~ Associated(table[i].mac),
         leases' = AddLease(table, c, a, time)
  PROVE  TableOK(c)
<1>1. leases \in Table /\ Distinct(leases) /\ Whole(leases) /\ now \in Nat
  BY DhcpAssumption DEF IInv, TypeOK, Table
<1>2. /\ table \in Table /\ Distinct(table) /\ Whole(table)
      /\ \A i \in Slots : leases[i].mac # c => table[i] = leases[i]
      /\ \A i \in Slots : table[i] \in {leases[i], EmptyLease}
  BY <1>1, ClearedSlot
<1>3. leases' \in Table /\ Distinct(leases') /\ Whole(leases')
  BY <1>1, <1>2, AddedLease, AddedDistinct
<1>4. PICK k \in Slots \cup {0} :
        /\ k # 0 => leases'[k] = [mac |-> c, nip |-> a, expires |-> now + time]
        /\ \A i \in Slots \ {k} :
             leases'[i] = EmptyLease
             \/ (leases'[i] = table[i] /\ leases'[i].mac # c /\ leases'[i].nip # a)
        /\ \A i \in Slots :
             table[i].mac # c /\ table[i].nip # a /\ ~ Expired(table[i]) =>
               i # k /\ leases'[i] = table[i]
  BY <1>1, <1>2, AddedLease
<1>5. ASSUME NEW d \in Clients \ {c} PROVE KeepsLease(d)
  <2> SUFFICES ASSUME Associated(d), NEW i \in Slots, leases[i].mac = d, ~ Expired(leases[i])
               PROVE  leases'[i] = leases[i]
    BY DEF KeepsLease
  <2>1. table[i] = leases[i]
    BY <1>2
  <2>2. table[i].nip # a
    BY <2>1
  <2> QED BY <1>4, <2>1, <2>2
<1>6. NoneLost
  <2> SUFFICES ASSUME NEW i \in Slots, NEW j \in Slots, Associated(leases[i].mac),
                      ~ Expired(leases[i]), leases'[j].nip = leases[i].nip, leases[i].mac # c
               PROVE  leases'[j].mac \in {leases[i].mac, None}
    <3>1. ASSUME NEW i \in Slots, NEW j \in Slots, Associated(leases[i].mac),
                 ~ Expired(leases[i]), leases'[j].nip = leases[i].nip, leases[i].mac = c
          PROVE  leases'[j].mac \in {leases[i].mac, None}
      <4>1. leases[i].nip # NoAddr
        BY <1>1, <3>1 DEF Associated, Whole
      <4>2. CASE j = k
        BY <1>4, <3>1, <4>2, SlotFound
      <4>3. CASE j # k
        <5>1. leases'[j] = table[j] /\ table[j] = leases[j] /\ leases'[j].mac # c
          BY <1>2, <1>4, <3>1, <4>1, <4>3 DEF EmptyLease
        <5>2. i = j
          BY <1>1, <3>1, <4>1, <5>1 DEF Distinct
        <5> QED BY <3>1, <5>1, <5>2
      <4> QED BY <4>2, <4>3
    <3> QED BY <3>1 DEF NoneLost
  <2>1. leases[i].nip # NoAddr /\ table[i] = leases[i]
    BY <1>1, <1>2 DEF Associated, Whole
  <2>2. table[i].nip # a
    BY <2>1
  <2>3. leases'[i] = leases[i]
    BY <1>4, <2>1, <2>2
  <2>4. i = j
    BY <1>3, <2>1, <2>3 DEF Distinct
  <2> QED BY <2>3, <2>4
<1> QED BY <1>3, <1>5, <1>6 DEF TableOK

\* Whoever declines or releases an address has no lease the invariant speaks of.
LEMMA Ungranted ==
  ASSUME IInv, NEW c \in Clients, req[c] # << >>, req' = [req EXCEPT ![c] = Tail(req[c])],
         Head(req[c]).type \notin Renewals
  PROVE  ~ Holds(c) /\ ~ Acked(c)
<1>1. TypeOK /\ StationInv(c)
  BY DEF IInv
<1>2. Len(req[c]) \in Nat \ {0} /\ Head(req[c]) = req[c][1]
  BY <1>1, Taken
<1>3. 1 \in Positions(c)
  BY <1>2 DEF Positions
<1> QED BY <1>1, <1>2, <1>3 DEF StationInv, QueueInv, Mine

LEMMA FreedTable ==
  ASSUME IInv, NEW c \in Clients, Freed(c)
  PROVE  TableOK(c)
<1>1. leases \in Table /\ Distinct(leases) /\ Whole(leases) /\ now \in Nat
  BY DhcpAssumption DEF IInv, TypeOK, Table
<1> DEFINE s == SlotOfMac(leases, c)
<1>2. PICK table \in Tables(c) :
        leases' =
          IF ~ IsLeased(table, c) THEN table
          ELSE [table EXCEPT ![s] =
                  IF Head(req[c]).type = "decline"
                    THEN [mac |-> None, nip |-> table[s].nip, expires |-> now + DeclineTime]
                    ELSE [table[s] EXCEPT !.expires = now]]
  BY DEF Freed
<1>3. /\ table \in Table /\ Distinct(table) /\ Whole(table)
      /\ \A i \in Slots : leases[i].mac # c => table[i] = leases[i]
      /\ \A i \in Slots : table[i] \in {leases[i], EmptyLease}
  BY <1>1, ClearedSlot
<1>4. CASE ~ IsLeased(table, c)
  <2>1. leases' \in Tables(c)
    BY <1>2, <1>4
  <2> QED BY <2>1, ClearedTableOK
<1>5. CASE IsLeased(table, c)
  <2>1. s \in Slots /\ leases[s].mac = c
    BY <1>5, SlotFound DEF IsLeased
  <2>2. PICK e \in [mac : Clients \cup {None}, nip : Addrs \cup {NoAddr}, expires : Nat] :
          /\ leases' = [table EXCEPT ![s] = e]
          /\ e.nip = table[s].nip /\ e.mac \in {None, table[s].mac}
    <3>1. [mac |-> None, nip |-> table[s].nip, expires |-> now + DeclineTime]
            \in [mac : Clients \cup {None}, nip : Addrs \cup {NoAddr}, expires : Nat]
      BY <1>1, <1>3, <2>1, DhcpAssumption DEF Table
    <3>2. [table[s] EXCEPT !.expires = now]
            \in [mac : Clients \cup {None}, nip : Addrs \cup {NoAddr}, expires : Nat]
      BY <1>1, <1>3, <2>1 DEF Table
    <3>3. [table[s] EXCEPT !.expires = now].nip = table[s].nip /\ [table[s] EXCEPT !.expires = now].mac = table[s].mac
      BY <1>3, <2>1 DEF Table
    <3>4. CASE Head(req[c]).type = "decline"
      BY <1>2, <1>5, <3>1, <3>4
    <3>5. CASE Head(req[c]).type # "decline"
      BY <1>2, <1>5, <3>2, <3>3, <3>5
    <3> QED BY <3>4, <3>5
  <2> HIDE DEF s
  <2>3. /\ leases' \in Table /\ leases'[s] = e
        /\ \A i \in Slots \ {s} : leases'[i] = table[i]
    BY <1>3, <2>1, <2>2 DEF Table
  <2>4. \A i \in Slots : leases'[i].nip = table[i].nip /\ leases'[i].mac \in {None, table[i].mac}
    BY <2>2, <2>3
  <2>5. Distinct(leases') /\ Whole(leases')
    BY <1>3, <2>4 DEF Distinct, Whole
  <2>6. \A d \in Clients \ {c} : KeepsLease(d)
    BY <1>3, <2>1, <2>3 DEF KeepsLease
  <2>7. NoneLost
    <3> SUFFICES ASSUME NEW i \in Slots, NEW j \in Slots, Associated(leases[i].mac),
                        leases'[j].nip = leases[i].nip
                 PROVE  leases'[j].mac \in {leases[i].mac, None}
      BY DEF NoneLost
    <3>1. leases[i].nip # NoAddr
      BY <1>1 DEF Associated, Whole
    <3>2. table[j] = leases[j]
      BY <1>3, <2>4, <3>1 DEF EmptyLease
    <3>3. i = j
      BY <1>1, <2>4, <3>1, <3>2 DEF Distinct
    <3> QED BY <2>4, <3>2, <3>3
  <2> QED BY <2>3, <2>5, <2>6, <2>7 DEF TableOK
<1> QED BY <1>4, <1>5

-----------------------------------------------------------------------------
(* The steps of the server.                                                *)

\* What a step must do to keep the invariant, if it grants nothing.
LEMMA AllKept ==
  ASSUME IInv, TypeOK', now' = now, Distinct(leases'), Whole(leases'),
         \A d \in Clients : /\ SameStation(d) /\ FewerRequests(d) /\ OldReplies(d)
                            /\ Holds(d) \/ Acked(d) => KeepsLease(d)
  PROVE  IInv'
<1>1. \A d \in Clients : StationInv(d)'
  BY StationKept
<1> QED BY <1>1 DEF IInv, Distinct, Whole

LEMMA UnmovedSame ==
  ASSUME Unmoved PROVE now' = now /\ \A d \in Clients : SameStation(d)
BY DEF Unmoved, SameStation

LEMMA TakenFewer ==
  ASSUME TypeOK, NEW c \in Clients, req[c] # << >>, req' = [req EXCEPT ![c] = Tail(req[c])]
  PROVE  \A d \in Clients : FewerRequests(d)
BY Taken DEF FewerRequests

LEMMA ServerTypes ==
  ASSUME TypeOK, NEW c \in Clients, req[c] # << >>, req' = [req EXCEPT ![c] = Tail(req[c])],
         Unmoved, leases' \in Table,
         rep' \in [Clients -> Replies \cup {None}],
         last' = None \/ last' \in [mac : Clients, type : {"offer", "ack", "nak"},
                                    ip : Addrs \cup {NoAddr}]
  PROVE  TypeOK'
<1>1. req' \in [Clients -> Seq(Requests)] /\ \A d \in Clients : Len(req'[d]) <= QueueLen
  BY Taken
<1> QED BY <1>1 DEF TypeOK, Unmoved, Table

LEMMA LoseOK ==
  ASSUME IInv, NEW c \in Clients, Lose(c) PROVE IInv'
<1>0. TypeOK
  BY DEF IInv
<1>1. leases' = leases /\ last' = last /\ Unmoved
  BY DEF Lose, Unmoved
<1>2. CASE req[c] # << >> /\ req' = [req EXCEPT ![c] = Tail(req[c])] /\ rep' = rep
  <2>1. leases' \in Table
    BY <1>1, OldTable
  <2>2. TypeOK'
    BY <1>0, <1>1, <1>2, <2>1, ServerTypes DEF TypeOK
  <2>3. \A d \in Clients : SameStation(d) /\ FewerRequests(d) /\ OldReplies(d)
    BY <1>0, <1>1, <1>2, UnmovedSame, TakenFewer DEF OldReplies
  <2> QED BY <1>1, <2>2, <2>3, OldTable, UnmovedSame, AllKept
<1>3. CASE rep' = [rep EXCEPT ![c] = None] /\ req' = req
  <2>1. TypeOK'
    BY <1>0, <1>1, <1>3 DEF TypeOK, Unmoved
  <2>2. \A d \in Clients : SameStation(d) /\ FewerRequests(d) /\ OldReplies(d)
    BY <1>0, <1>1, <1>3, UnmovedSame DEF FewerRequests, OldReplies, TypeOK
  <2> QED BY <1>1, <2>1, <2>2, OldTable, UnmovedSame, AllKept
<1> QED BY <1>2, <1>3 DEF Lose

LEMMA InformOK ==
  ASSUME IInv, NEW c \in Clients, Inform(c) PROVE IInv'
<1>0. TypeOK
  BY DEF IInv
<1>1. leases' = leases /\ last' = None /\ Unmoved /\ req' = req /\ rep' = rep
  BY DEF Inform
<1>2. TypeOK'
  BY <1>0, <1>1 DEF TypeOK, Unmoved
<1>3. \A d \in Clients : SameStation(d) /\ FewerRequests(d) /\ OldReplies(d)
  BY <1>1, UnmovedSame DEF FewerRequests, OldReplies
<1> QED BY <1>1, <1>2, <1>3, OldTable, UnmovedSame, AllKept

LEMMA NoMemoryOK ==
  ASSUME IInv, NEW c \in Clients, NoMemory(c) PROVE IInv'
<1>0. TypeOK
  BY DEF IInv
<1>1. leases' = leases /\ Unmoved /\ Receives(c) /\ SendsOldReply(c)
  BY DEF NoMemory
<1>2. /\ rep' \in [Clients -> Replies \cup {None}] /\ last' = last
      /\ \A d \in Clients : OldReplies(d)
  BY <1>0, <1>1, OldReply DEF OldReplies
<1>3. leases' \in Table
  BY <1>1, OldTable
<1>4. TypeOK'
  BY <1>0, <1>1, <1>2, <1>3, ServerTypes DEF Receives, TypeOK
<1>5. \A d \in Clients : SameStation(d) /\ FewerRequests(d)
  BY <1>0, <1>1, UnmovedSame, TakenFewer DEF Receives
<1> QED BY <1>1, <1>2, <1>4, <1>5, OldTable, UnmovedSame, AllKept

LEMMA ClearLeaseByMacOK ==
  ASSUME IInv, NEW c \in Clients, ClearLeaseByMac(c) PROVE IInv' /\ NoneLost
<1>0. TypeOK
  BY DEF IInv
<1>1. ~ Associated(c) /\ leases' \in Tables(c) /\ Unmoved /\ last' = last /\ req' = req /\ rep' = rep
  BY DEF ClearLeaseByMac, Tables
<1>2. TableOK(c)
  BY <1>1, ClearedTableOK
<1>3. TypeOK'
  BY <1>0, <1>1, <1>2 DEF TypeOK, Unmoved, TableOK, Table
<1>4. \A d \in Clients : SameStation(d) /\ FewerRequests(d) /\ OldReplies(d)
  BY <1>1, UnmovedSame DEF FewerRequests, OldReplies
<1>5. \A d \in Clients : KeepsLease(d)
  BY <1>1, <1>2 DEF TableOK, KeepsLease
<1> QED BY <1>1, <1>2, <1>3, <1>4, <1>5, UnmovedSame, AllKept DEF TableOK

LEMMA FreedOK ==
  ASSUME IInv, NEW c \in Clients, Freed(c) PROVE IInv' /\ NoneLost
<1>0. TypeOK
  BY DEF IInv
<1>1. Receives(c) /\ Unmoved /\ last' = last /\ rep' = rep /\ Head(req[c]).type \notin Renewals
  BY DEF Freed, Renewals
<1>2. TableOK(c)
  BY FreedTable
<1>3. ~ Holds(c) /\ ~ Acked(c)
  BY <1>1, Ungranted DEF Receives
<1>4. TypeOK'
  BY <1>0, <1>1, <1>2, ServerTypes DEF Receives, TypeOK, TableOK
<1>5. \A d \in Clients : SameStation(d) /\ FewerRequests(d) /\ OldReplies(d)
  BY <1>0, <1>1, UnmovedSame, TakenFewer DEF Receives, OldReplies
<1>6. \A d \in Clients : Holds(d) \/ Acked(d) => KeepsLease(d)
  BY <1>2, <1>3 DEF TableOK
<1> QED BY <1>1, <1>2, <1>4, <1>5, <1>6, UnmovedSame, AllKept DEF TableOK

LEMMA OfferOK ==
  ASSUME IInv, NEW c \in Clients, Offer(c) PROVE IInv' /\ NoneLost
<1>0. TypeOK
  BY DEF IInv
<1>1. Receives(c) /\ Unmoved /\ Head(req[c]).type = "discover"
  BY DEF Offer
<1>2. ~ Holds(c) /\ ~ Acked(c)
  BY <1>1, Ungranted DEF Receives, Renewals
<1>3. \A d \in Clients : SameStation(d) /\ FewerRequests(d)
  BY <1>0, <1>1, UnmovedSame, TakenFewer DEF Receives
<1>4. PICK table \in Tables(c) :
        LET b == OfferedAddr(table, SlotOfMac(leases, c), Head(req[c]).ip)
        IN  IF b = NoAddr THEN leases' = table /\ SendsOldReply(c)
            ELSE /\ leases' = AddLease(table, c, b, OfferTime)
                 /\ IF IsAdded(leases', c, b) THEN Reply(c, "offer", b) ELSE SendsOldReply(c)
  BY DEF Offer
<1> DEFINE a == OfferedAddr(table, SlotOfMac(leases, c), Head(req[c]).ip)
<1>5. IF a = NoAddr THEN leases' = table /\ SendsOldReply(c)
      ELSE /\ leases' = AddLease(table, c, a, OfferTime)
           /\ IF IsAdded(leases', c, a) THEN Reply(c, "offer", a) ELSE SendsOldReply(c)
  BY <1>4
<1> HIDE DEF a
<1>6. TableOK(c) /\ (a = NoAddr \/ a \in Addrs)
  <2>1. CASE a = NoAddr
    BY <1>5, <2>1, ClearedTableOK
  <2>2. CASE a # NoAddr
    <3>1. Head(req[c]).ip \in Addrs \cup {NoAddr}
      BY <1>0, <1>1, Taken DEF Receives, Requests
    <3>2. leases \in Table /\ Distinct(leases) /\ Whole(leases)
      BY DEF IInv, TypeOK, Table
    <3>3. /\ a \in Addrs
          /\ \A i \in Slots : table[i].nip = a =>
               table[i].mac = c \/ Expired(table[i]) \/ ~ Associated(table[i].mac)
      BY <2>2, <3>1, <3>2, OfferFree DEF a
    <3> QED BY <1>5, <2>2, <3>3, AddedTableOK, DhcpAssumption
  <2> QED BY <2>1, <2>2
<1>7. \A d \in Clients : Holds(d) \/ Acked(d) => KeepsLease(d)
  BY <1>2, <1>6 DEF TableOK
<1>8. CASE SendsOldReply(c)
  <2>1. /\ rep' \in [Clients -> Replies \cup {None}] /\ last' = last
        /\ \A d \in Clients : OldReplies(d)
    BY <1>0, <1>8, OldReply DEF OldReplies
  <2>2. TypeOK'
    BY <1>0, <1>1, <1>6, <2>1, ServerTypes DEF Receives, TypeOK, TableOK
  <2> QED BY <1>1, <1>3, <1>6, <1>7, <2>1, <2>2, UnmovedSame, AllKept DEF TableOK
<1>9. CASE a # NoAddr /\ Reply(c, "offer", a)
  <2> DEFINE r == [type |-> "offer", ip |-> a]
  <2> DEFINE l == [mac |-> c, type |-> "offer", ip |-> a]
  <2>1. /\ rep' \in [Clients -> Replies \cup {None}]
        /\ \A d \in Clients \ {c} : rep'[d] = rep[d]
        /\ \/ rep' = rep /\ last' = None
           \/ /\ Expects(c, "offer")
              /\ rep'[c] = rep[c] \/ rep'[c] = r
              /\ last' = l
    BY <1>0, <1>6, <1>9, Replied
  <2>2. l \in [mac : Clients, type : {"offer", "ack", "nak"}, ip : Addrs \cup {NoAddr}]
    BY <1>6
  <2>3. /\ r.type = "offer" /\ r.ip # NoAddr
        /\ l.type = "offer" /\ l.ip # NoAddr /\ l.mac = c
    BY <1>9
  <2> HIDE DEF r, l
  <2>4. TypeOK'
    BY <1>0, <1>1, <1>6, <2>1, <2>2, ServerTypes DEF Receives, TableOK
  <2>5. Expects(c, "offer") => GrantsNothing(c, r) /\ GrantsNothing(c, l)
    BY <2>3 DEF Expects, GrantsNothing
  <2>6. \A d \in Clients : OldReplies(d)
    <3> TAKE d \in Clients
    <3>1. CASE rep' = rep /\ last' = None
      BY <3>1 DEF OldReplies
    <3>2. CASE d = c /\ Expects(c, "offer") /\ last' = l
      <4>1. rep'[d] = rep[d] \/ rep'[d] = r
        BY <2>1, <3>2
      <4> QED BY <2>5, <3>2, <4>1 DEF OldReplies
    <3>3. CASE d # c /\ last' = l
      BY <2>1, <2>3, <3>3 DEF OldReplies
    <3> QED BY <2>1, <3>1, <3>2, <3>3
  <2> QED BY <1>1, <1>3, <1>6, <1>7, <2>4, <2>6, UnmovedSame, AllKept DEF TableOK
<1> QED BY <1>5, <1>6, <1>8, <1>9 DEF TableOK

\* A request is refused, or not answered.
LEMMA RefusedOK ==
  ASSUME IInv, NEW c \in Clients, Receives(c), Unmoved, leases' \in Tables(c),
         Reply(c, "nak", NoAddr) \/ (last' = last /\ rep' = rep)
  PROVE  IInv' /\ NoneLost
<1>0. TypeOK
  BY DEF IInv
<1>1. TableOK(c) /\ (Associated(c) => leases' = leases)
  BY ClearedTableOK
<1>2. \A d \in Clients : KeepsLease(d)
  BY <1>1 DEF TableOK, KeepsLease
<1>3. \A d \in Clients : SameStation(d) /\ FewerRequests(d)
  BY <1>0, UnmovedSame, TakenFewer DEF Receives
<1>4. /\ rep' \in [Clients -> Replies \cup {None}]
      /\ last' = None \/ last' \in [mac : Clients, type : {"offer", "ack", "nak"},
                                    ip : Addrs \cup {NoAddr}]
      /\ \A d \in Clients : OldReplies(d)
  <2>1. CASE last' = last /\ rep' = rep
    BY <1>0, <2>1 DEF TypeOK, OldReplies
  <2>2. CASE Reply(c, "nak", NoAddr)
    <3> DEFINE r == [type |-> "nak", ip |-> NoAddr]
    <3> DEFINE l == [mac |-> c, type |-> "nak", ip |-> NoAddr]
    <3>1. /\ rep' \in [Clients -> Replies \cup {None}]
          /\ \A d \in Clients \ {c} : rep'[d] = rep[d]
          /\ \/ rep' = rep /\ last' = None
             \/ (rep'[c] = rep[c] \/ rep'[c] = r) /\ last' = l
      BY <1>0, <2>2, Replied
    <3>2. l \in [mac : Clients, type : {"offer", "ack", "nak"}, ip : Addrs \cup {NoAddr}]
      OBVIOUS
    <3>3. r.type = "nak" /\ l.type = "nak"
      OBVIOUS
    <3> HIDE DEF r, l
    <3>4. \A d \in Clients : GrantsNothing(d, r) /\ GrantsNothing(d, l)
      BY <3>3 DEF GrantsNothing
    <3>5. \A d \in Clients : rep'[d] = rep[d] \/ rep'[d] = r
      BY <3>1
    <3>6. last' = None \/ last' = l
      BY <3>1
    <3>7. \A d \in Clients : OldReplies(d)
      BY <3>4, <3>5, <3>6 DEF OldReplies
    <3> QED BY <3>1, <3>2, <3>6, <3>7
  <2> QED BY <2>1, <2>2
<1>5. TypeOK'
  BY <1>0, <1>1, <1>4, ServerTypes DEF Receives, TableOK
<1> QED BY <1>1, <1>2, <1>3, <1>4, <1>5, UnmovedSame, AllKept DEF TableOK

\* A request is granted: whatever its station has, asks for or is about to hear
\* of is this address, and the entry lasts at least as long.
LEMMA GrantedOK ==
  ASSUME ~ AtZero, IInv, NEW c \in Clients, Receives(c), Unmoved, NEW table \in Tables(c),
         Head(req[c]).type \in Renewals, IsLeased(table, c),
         Reply(c, "ack", Head(req[c]).ip),
         leases' = AddLease(table, c, Head(req[c]).ip, LeaseTime)
  PROVE  IInv' /\ NoneLost
<1> DEFINE a == Head(req[c]).ip
<1> DEFINE s == SlotOfMac(leases, c)
<1>0. /\ TypeOK /\ StationInv(c) /\ leases \in Table /\ Distinct(leases) /\ Whole(leases)
      /\ now \in Nat
  <2>1. TypeOK /\ StationInv(c) /\ Distinct(leases) /\ Whole(leases)
    BY DEF IInv
  <2>2. leases \in Table /\ now \in Nat
    BY <2>1, DhcpAssumption DEF TypeOK, Table
  <2> QED BY <2>1, <2>2
<1>1. /\ Len(req[c]) \in Nat \ {0} /\ Len(req'[c]) = Len(req[c]) - 1
      /\ Head(req[c]) = req[c][1] /\ Head(req[c]) \in Requests
      /\ \A i \in 1 .. Len(req'[c]) : req'[c][i] = req[c][i + 1]
  BY <1>0, Taken DEF Receives
<1>2. 1 \in Positions(c) /\ Head(req[c]) = req[c][1]
  BY <1>1 DEF Positions
<1>3. a \in Addrs
  BY <1>0, <1>1, <1>2 DEF StationInv, Named, Requests
<1>4. /\ table \in Table /\ Distinct(table) /\ Whole(table)
      /\ \A i \in Slots : leases[i].mac # c => table[i] = leases[i]
      /\ \A i \in Slots : table[i] \in {leases[i], EmptyLease}
  BY <1>0, ClearedSlot
<1>5. s \in Slots /\ leases[s].mac = c /\ table[s].nip = a
  BY SlotFound DEF IsLeased
<1>6. a # NoAddr
  BY <1>3, DhcpAssumption DEF Addrs, NoAddr
<1>7. table[s].mac = c
  BY <1>4, <1>5, <1>6 DEF EmptyLease
<1>8. \A i \in Slots : table[i].nip = a => table[i].mac = c
  BY <1>4, <1>5, <1>6, <1>7 DEF Distinct
<1>9. TableOK(c)
  BY <1>3, <1>8, AddedTableOK, DhcpAssumption
<1>10. PICK k \in Slots : leases'[k] = [mac |-> c, nip |-> a, expires |-> now + LeaseTime]
  <2>1. now > 0
    BY <1>0 DEF Receives
  <2>2. PICK k \in Slots \cup {0} :
          /\ k # 0 => leases'[k] = [mac |-> c, nip |-> a, expires |-> now + LeaseTime]
          /\ now > 0 /\ (\E i \in Slots : table[i].mac = c \/ table[i].nip = a) => k # 0
    BY <1>0, <1>3, <1>4, AddedLease, DhcpAssumption
  <2> QED BY <1>5, <1>7, <2>1, <2>2
<1>11. /\ rep' \in [Clients -> Replies \cup {None}]
       /\ \A d \in Clients \ {c} : rep'[d] = rep[d]
       /\ \/ rep' = rep /\ last' = None
          \/ /\ Head(req[c]).fresh /\ Expects(c, "ack")
             /\ rep'[c] = rep[c] \/ rep'[c] = [type |-> "ack", ip |-> a]
             /\ last' = [mac |-> c, type |-> "ack", ip |-> a]
  BY <1>0, <1>3, Replied
<1>12. TypeOK'
  <2>1. last' = None \/ last' \in [mac : Clients, type : {"offer", "ack", "nak"},
                                   ip : Addrs \cup {NoAddr}]
    BY <1>3, <1>11
  <2> QED BY <1>0, <1>9, <1>11, <2>1, ServerTypes DEF Receives, TableOK
<1>13. \A d \in Clients : SameStation(d) /\ FewerRequests(d)
  BY <1>0, UnmovedSame, TakenFewer DEF Receives
<1>14. ASSUME NEW d \in Clients \ {c} PROVE StationInv(d)'
  <2>1. OldReplies(d)
    <3>1. last' = None \/ (last' # None /\ last'.mac # d /\ (last'.type = "offer" => last'.ip # NoAddr))
      BY <1>11
    <3> QED BY <1>11, <3>1 DEF OldReplies
  <2> QED BY <1>9, <1>12, <1>13, <2>1, UnmovedSame, StationKept DEF TableOK
<1>15. sta' = sta /\ wait' = wait /\ left' = left
  BY DEF Unmoved
\* If the station has the address, or is told now that it has, every request
\* it has left is for that address.
<1>16. Holds(c)' \/ Acked(c)' =>
         /\ \A i \in Positions(c) : Mine(c, req[c][i])
         /\ sta[c].ip = a
  <2>1. Holds(c) \/ Acked(c) => \A i \in Positions(c) : Mine(c, req[c][i])
    BY <1>0 DEF StationInv, QueueInv
  <2>2. Holds(c)' = Holds(c)
    BY <1>15 DEF Holds
  <2>3. CASE rep' = rep /\ last' = None
    <3>1. Acked(c)' => Acked(c)
      BY <2>3 DEF Acked, RepAck, LastAck
    <3> QED BY <1>2, <2>1, <2>2, <3>1 DEF Mine
  <2>4. CASE Head(req[c]).fresh /\ Expects(c, "ack")
    <3>1. sta[c].st \in {"requesting", "rebooting"} \/ Holds(c)
      BY <2>4 DEF Expects, Holds
    <3>2. Head(req[c]).type # "discover"
      BY DEF Renewals
    <3>3. \A i \in Positions(c) : 1 <= i
      BY <1>1 DEF Positions
    <3>4. \A i \in Positions(c) : Mine(c, req[c][i])
      BY <1>0, <1>2, <2>1, <2>4, <3>1, <3>2, <3>3 DEF StationInv, QueueInv
    <3> QED BY <1>2, <3>4 DEF Mine
  <2> QED BY <1>11, <2>3, <2>4
<1>17. StationInv(c)'
  <2>1. QueueInv(c)'
    <3>1. \A i \in Positions(c)' : i + 1 \in Positions(c) /\ req'[c][i] = req[c][i + 1]
      BY <1>1 DEF Positions
    <3>2. Holds(c)' \/ Acked(c)' => \A i \in Positions(c)' : Mine(c, req[c][i])'
      BY <1>15, <1>16, <3>1 DEF Mine
    <3>3. sta'[c].st = "selecting" =>
            \A i \in Positions(c)' : req'[c][i].fresh => req'[c][i].type = "discover"
      BY <1>0, <1>15, <3>1 DEF StationInv, QueueInv
    <3>4. ASSUME sta'[c].st \in {"requesting", "rebooting"},
                 NEW i \in Positions(c)', NEW j \in Positions(c)', i <= j, req'[c][i].fresh,
                 req'[c][i].type # "discover"
          PROVE  Mine(c, req[c][j])'
      <4>1. i + 1 <= j + 1
        BY <1>1, <3>4 DEF Positions
      <4>2. Mine(c, req[c][j + 1])
        BY <1>0, <1>15, <3>1, <3>4, <4>1 DEF StationInv, QueueInv
      <4> QED BY <1>15, <3>1, <3>4, <4>2 DEF Mine
    <3> QED BY <3>2, <3>3, <3>4 DEF QueueInv
  <2>2. RepliesInv(c)'
    <3>1. CASE rep' = rep /\ last' = None
      BY <1>0, <1>15, <3>1 DEF StationInv, RepliesInv, ReplyFits
    <3>2. CASE /\ Expects(c, "ack")
               /\ rep'[c] = rep[c] \/ rep'[c] = [type |-> "ack", ip |-> a]
               /\ last' = [mac |-> c, type |-> "ack", ip |-> a]
      <4>1. Acked(c)' => sta[c].st \in {"requesting", "rebooting", "renewing"} /\ sta[c].ip = a
        BY <1>16, <3>2 DEF Expects
      <4>2. last' # None => LastAck(c)' /\ last'.type = "ack" /\ last'.ip = a
        BY <3>2 DEF LastAck
      <4>3. last' # None => ReplyFits(c, last)'
        BY <1>15, <4>1, <4>2 DEF ReplyFits, Acked
      <4>4. rep'[c] # None => ReplyFits(c, rep[c])'
        <5>1. CASE rep'[c] = rep[c]
          BY <1>0, <1>15, <5>1 DEF StationInv, RepliesInv, ReplyFits
        <5>2. CASE rep'[c] = [type |-> "ack", ip |-> a]
          BY <1>15, <4>1, <5>2 DEF ReplyFits, Acked, RepAck
        <5> QED BY <3>2, <5>1, <5>2
      <4> QED BY <4>3, <4>4 DEF RepliesInv
    <3> QED BY <1>11, <3>1, <3>2
  <2>3. LeaseInv(c)'
    <3>1. wait[c] \in Over .. LeaseTime /\ left[c] \in Over .. LeaseTime
      BY <1>0 DEF TypeOK
    <3>2. Holds(c)' \/ Acked(c)' => /\ leases'[k].mac = c /\ leases'[k].nip = sta'[c].ip
                                   /\ leases'[k].expires = now + LeaseTime
      BY <1>10, <1>15, <1>16
    <3>3. /\ wait'[c] \in Int /\ wait'[c] <= LeaseTime /\ left'[c] \in Int /\ left'[c] <= LeaseTime
          /\ LeaseTime \in Nat /\ now' = now
      BY <1>15, <3>1, DhcpAssumption DEF Over, Unmoved
    <3>4. now' + wait'[c] <= now + LeaseTime /\ now' + left'[c] <= now + LeaseTime
      BY <1>0, <3>3
    <3> QED BY <3>2, <3>4 DEF LeaseInv, Granted
  <2>4. Named(c)'
    <3>1. \A i \in Positions(c)' : req'[c][i].type \in Renewals => req'[c][i].ip # NoAddr
      <4>1. \A i \in Positions(c)' : i + 1 \in Positions(c) /\ req'[c][i] = req[c][i + 1]
        BY <1>1 DEF Positions
      <4> QED BY <1>0, <4>1 DEF StationInv, Named
    <3>2. Named(c)
      BY <1>0 DEF StationInv
    <3>3. rep'[c] # None /\ rep'[c].type = "offer" => rep'[c] = rep[c]
      BY <1>11
    <3>4. last' # None => last'.type # "offer"
      BY <1>11
    <3> QED BY <1>15, <3>1, <3>2, <3>3, <3>4 DEF Named
  <2> QED BY <2>1, <2>2, <2>3, <2>4 DEF StationInv
<1>18. \A d \in Clients : StationInv(d)'
  BY <1>14, <1>17
<1>19. Distinct(leases') /\ Whole(leases') /\ NoneLost
  BY <1>9 DEF TableOK
<1> QED BY <1>12, <1>18, <1>19 DEF IInv, Distinct, Whole

LEMMA RequestOK ==
  ASSUME ~ AtZero, IInv, NEW c \in Clients, Request(c) PROVE IInv' /\ NoneLost
<1>1. Receives(c) /\ Unmoved /\ Head(req[c]).type \in Renewals
  BY DEF Request, Renewals
<1>2. PICK table \in Tables(c) :
       \/ /\ IsLeased(table, c)
          /\ Reply(c, "ack", Head(req[c]).ip)
          /\ leases' = AddLease(table, c, Head(req[c]).ip, LeaseTime)
       \/ /\ Reply(c, "nak", NoAddr) \/ (last' = last /\ rep' = rep)
          /\ leases' = table
  BY DEF Request
<1>3. CASE leases' = table /\ (Reply(c, "nak", NoAddr) \/ (last' = last /\ rep' = rep))
  <2>1. leases' \in Tables(c)
    BY <1>3
  <2> QED BY <1>1, <1>3, <2>1, RefusedOK
<1>4. CASE /\ IsLeased(table, c)
           /\ Reply(c, "ack", Head(req[c]).ip)
           /\ leases' = AddLease(table, c, Head(req[c]).ip, LeaseTime)
  BY <1>1, <1>4, GrantedOK
<1> QED BY <1>2, <1>3, <1>4

LEMMA RestartOK ==
  ASSUME IInv, Restart PROVE IInv' /\ NoneLost
<1>1. TypeOK'
  <2>1. leases' \in Table
    BY EmptyType DEF Restart, Table
  <2>2. \A c \in Clients : req'[c] = << >> /\ << >> \in Seq(Requests) /\ Len(<< >>) = 0
    BY EmptySeq DEF Restart
  <2>3. req' \in [Clients -> Seq(Requests)] /\ \A c \in Clients : Len(req'[c]) <= QueueLen
    BY <2>2, DhcpAssumption DEF Restart
  <2>4. [st |-> "off", ip |-> NoAddr] \in Stations
    BY DEF Stations
  <2> QED BY <2>1, <2>3, <2>4, TimesInRange DEF IInv, TypeOK, Restart, Table
<1>2. \A i \in Slots : leases'[i].mac = None /\ leases'[i].nip = NoAddr
  BY DEF Restart, EmptyLease
<1>3. ASSUME NEW c \in Clients PROVE StationInv(c)'
  <2>1. sta'[c].st = "off" /\ rep'[c] = None /\ last' = None /\ req'[c] = << >>
    BY DEF Restart
  <2>2. Positions(c)' = {}
    BY <2>1, EmptySeq DEF Positions
  <2>3. ~ Holds(c)' /\ ~ Acked(c)'
    BY <2>1 DEF Holds, Acked, RepAck, LastAck
  <2>4. QueueInv(c)' /\ LeaseInv(c)'
    BY <2>1, <2>3 DEF QueueInv, LeaseInv
  <2>5. RepliesInv(c)'
    BY <2>1 DEF RepliesInv
  <2>6. Named(c)'
    BY <2>1, <2>2 DEF Named
  <2> QED BY <2>4, <2>5, <2>6 DEF StationInv
<1>4. NoneLost
  <2>1. \A i, j \in Slots : leases'[j].mac = None
    BY <1>2
  <2> QED BY <2>1 DEF NoneLost
<1>5. Distinct(leases') /\ Whole(leases')
  BY <1>2 DEF Distinct, Whole
<1> QED BY <1>1, <1>3, <1>4, <1>5 DEF IInv, Distinct, Whole

LEMMA DownTime ==
  ASSUME NEW time \in Over .. LeaseTime
  PROVE  Down(time) \in Over .. LeaseTime
BY DhcpAssumption DEF Down, Over

\* ssv_time goes on by one, or starts again.
LEMMA NextTime ==
  ASSUME now \in 0 .. ClockPeriod - 1
  PROVE  /\ (now + 1) % ClockPeriod \in 0 .. ClockPeriod - 1
         /\ (now + 1) % ClockPeriod <= now + 1
<1>1. now \in Nat /\ ClockPeriod \in Nat \ {0} /\ now + 1 <= ClockPeriod
  BY DhcpAssumption
<1>2. CASE now + 1 = ClockPeriod
  <2>1. ClockPeriod % ClockPeriod = 0
    BY <1>1
  <2> QED BY <1>1, <1>2, <2>1
<1>3. CASE now + 1 < ClockPeriod
  <2>1. (now + 1) % ClockPeriod = now + 1
    BY <1>1, <1>3
  <2> QED BY <1>1, <1>3, <2>1
<1> QED BY <1>1, <1>2, <1>3

\* An entry that lasts for some time lasts for one tick less after a tick, and
\* for longer if ssv_time starts again.
LEMMA TimeShift ==
  ASSUME NEW n \in Nat, NEW m \in Nat, m <= n + 1,
         NEW time \in Int, NEW e \in Nat, e >= n + time
  PROVE  e >= m + (time - 1)
OBVIOUS

LEMMA TickOK ==
  ASSUME IInv, Tick PROVE IInv' /\ NoneLost
<1>0. TypeOK
  BY DEF IInv
<1>1. leases' = leases /\ last' = last /\ sta' = sta /\ req' = req /\ rep' = rep
  BY DEF Tick
<1>2. now \in Nat /\ now' \in 0 .. ClockPeriod - 1 /\ now' <= now + 1
  BY <1>0, NextTime, DhcpAssumption DEF Tick, TypeOK
<1>3. \A c \in Clients : /\ wait'[c] = Down(wait[c]) /\ left'[c] = Down(left[c])
                         /\ wait[c] \in Over .. LeaseTime /\ left[c] \in Over .. LeaseTime
                         /\ wait[c] \in Int /\ left[c] \in Int
  BY <1>0, DhcpAssumption DEF Tick, TypeOK, Over
<1>4. TypeOK'
  <2>1. wait' \in [Clients -> Over .. LeaseTime]
    BY <1>3, DownTime DEF Tick
  <2>2. left' \in [Clients -> Over .. LeaseTime]
    BY <1>3, DownTime DEF Tick
  <2> QED BY <1>0, <1>1, <1>2, <2>1, <2>2 DEF TypeOK
<1>5. Distinct(leases') /\ Whole(leases') /\ NoneLost
  BY <1>1, OldTable
<1>6. ASSUME NEW c \in Clients PROVE StationInv(c)'
  <2>0. StationInv(c)
    BY DEF IInv
  <2>1. Acked(c)' = Acked(c) /\ Holds(c)' = Holds(c)
    BY <1>1 DEF Acked, RepAck, LastAck, Holds
  <2>2. QueueInv(c)'
    BY <1>1, <2>0, <2>1 DEF StationInv, QueueInv, Positions, Mine
  <2>3. RepliesInv(c)'
    BY <1>1, <2>0 DEF StationInv, RepliesInv, ReplyFits
  <2>4. ASSUME NEW time \in Int, Granted(c, time), Down(time) >= 0
        PROVE  \E i \in Slots : /\ leases'[i].mac = c /\ leases'[i].nip = sta'[c].ip
                                /\ leases'[i].expires >= now' + Down(time)
    <3>1. Down(time) = time - 1 /\ time >= 0
      BY <2>4 DEF Down, Over
    <3>2. PICK i \in Slots : /\ leases[i].mac = c /\ leases[i].nip = sta[c].ip
                             /\ leases[i].expires >= now + time
      BY <2>4, <3>1 DEF Granted
    <3>3. leases[i].expires \in Nat /\ now \in Nat /\ now' \in Nat /\ now' <= now + 1
      BY <1>0, <1>2, DhcpAssumption DEF TypeOK
    <3>4. leases[i].expires >= now' + (time - 1)
      BY <3>2, <3>3, TimeShift
    <3> QED BY <1>1, <3>1, <3>2, <3>4
  <2>5. LeaseInv(c)'
    <3>1. Holds(c)' => Granted(c, left[c])'
      BY <1>3, <2>0, <2>1, <2>4 DEF StationInv, LeaseInv, Granted
    <3>2. Acked(c)' => Granted(c, wait[c])'
      BY <1>3, <2>0, <2>1, <2>4 DEF StationInv, LeaseInv, Granted
    <3> QED BY <3>1, <3>2 DEF LeaseInv
  <2>6. Named(c)'
    BY <1>1, <2>0 DEF StationInv, Named, Positions
  <2> QED BY <2>2, <2>3, <2>5, <2>6 DEF StationInv
<1> QED BY <1>4, <1>5, <1>6 DEF IInv, Distinct, Whole

-----------------------------------------------------------------------------
(* The theorems.                                                           *)

LEMMA InitOK ==
  ASSUME Init PROVE IInv
<1>1. TypeOK
  <2>1. leases \in Table
    BY EmptyType DEF Init, Table
  <2>2. \A c \in Clients : req[c] = << >> /\ << >> \in Seq(Requests) /\ Len(<< >>) = 0
    BY EmptySeq DEF Init
  <2>3. req \in [Clients -> Seq(Requests)] /\ \A c \in Clients : Len(req[c]) <= QueueLen
    BY <2>2, DhcpAssumption DEF Init
  <2>4. [st |-> "off", ip |-> NoAddr] \in Stations
    BY DEF Stations
  <2> QED BY <2>1, <2>3, <2>4, TimesInRange DEF TypeOK, Init, Table
<1>2. \A i \in Slots : leases[i].mac = None /\ leases[i].nip = NoAddr
  BY DEF Init, EmptyLease
<1>3. ASSUME NEW c \in Clients PROVE StationInv(c)
  <2>1. sta[c].st = "off" /\ rep[c] = None /\ last = None /\ req[c] = << >>
    BY DEF Init
  <2>2. Positions(c) = {}
    BY <2>1, EmptySeq DEF Positions
  <2>3. ~ Holds(c) /\ ~ Acked(c)
    BY <2>1 DEF Holds, Acked, RepAck, LastAck
  <2>4. QueueInv(c) /\ LeaseInv(c)
    BY <2>1, <2>3 DEF QueueInv, LeaseInv
  <2>5. RepliesInv(c)
    BY <2>1 DEF RepliesInv
  <2>6. Named(c)
    BY <2>1, <2>2 DEF Named
  <2> QED BY <2>4, <2>5, <2>6 DEF StationInv
<1> QED BY <1>1, <1>2, <1>3 DEF IInv, Distinct, Whole

LEMMA NextOK ==
  ASSUME ~ AtZero, IInv, [Next]_vars PROVE IInv' /\ NoneLost
<1>1. CASE UNCHANGED vars
  <2>1. leases' = leases /\ last' = last /\ Unmoved /\ req' = req /\ rep' = rep
    BY <1>1 DEF vars, Unmoved
  <2>2. TypeOK'
    BY <2>1 DEF IInv, TypeOK, Unmoved
  <2>3. \A d \in Clients : SameStation(d) /\ FewerRequests(d) /\ OldReplies(d)
    BY <2>1, UnmovedSame DEF FewerRequests, OldReplies
  <2> QED BY <2>1, <2>2, <2>3, OldTable, UnmovedSame, AllKept
<1>2. CASE Restart
  BY <1>2, RestartOK
<1>3. CASE Tick
  BY <1>3, TickOK
<1>4. ASSUME NEW c \in Clients, Serve(c) PROVE IInv' /\ NoneLost
  BY <1>4, OfferOK, RequestOK, FreedOK DEF Serve
<1>5. ASSUME NEW c \in Clients, Inform(c) \/ NoMemory(c) \/ Lose(c) PROVE IInv' /\ NoneLost
  <2>1. leases' = leases
    BY <1>5 DEF Inform, NoMemory, Lose
  <2> QED BY <1>5, <2>1, OldTable, InformOK, NoMemoryOK, LoseOK
<1>6. ASSUME NEW c \in Clients, ClearLeaseByMac(c) PROVE IInv' /\ NoneLost
  BY <1>6, ClearLeaseByMacOK
<1>7. ASSUME NEW c \in Clients, Station(c) PROVE IInv' /\ NoneLost
  <2>1. TypeOK' /\ StationInv(c)' /\ OnlyStation(c)
    BY <1>7, StationStep DEF StationOK
  <2>2. /\ Distinct(leases') /\ Whole(leases') /\ NoneLost
        /\ \A d \in Clients : KeepsLease(d)
    BY <2>1, OldTable DEF OnlyStation
  <2>3. \A d \in Clients \ {c} : StationInv(d)'
    <3> TAKE d \in Clients \ {c}
    <3>1. SameStation(d) /\ FewerRequests(d) /\ OldReplies(d)
      BY <2>1 DEF OnlyStation, FewerRequests, OldReplies
    <3> QED BY <2>1, <2>2, <3>1, StationKept DEF OnlyStation
  <2> QED BY <2>1, <2>2, <2>3 DEF IInv, Distinct, Whole
<1> QED BY <1>1, <1>2, <1>3, <1>4, <1>5, <1>6, <1>7 DEF Next

\* The invariant: no two entries share a station or an address, and whatever a
\* station has, asks for, or is about to be told is covered by its entry.
THEOREM DhcpInductive ==
  ASSUME ~ AtZero
  PROVE  Spec => []IInv
<1>1. Init => IInv
  BY InitOK
<1>2. IInv /\ [Next]_vars => IInv'
  BY NextOK
<1> QED BY <1>1, <1>2, PTL DEF Spec

\* Every table, request and reply is of its type, and no station has more
\* requests under way than its bound.
THEOREM DhcpTypes ==
  ASSUME ~ AtZero
  PROVE  Spec => []TypeOK
<1>1. IInv => TypeOK
  BY DEF IInv
<1> QED BY <1>1, DhcpInductive, PTL

\* send_offer, send_ACK, add_lease and clearlease_bymac never leave a station
\* with two leases or an address with two stations.
THEOREM LeasesAreDistinct ==
  ASSUME ~ AtZero
  PROVE  Spec => []LeasesDistinct
<1>1. IInv => LeasesDistinct
  BY DEF IInv, Distinct, LeasesDistinct
<1> QED BY <1>1, DhcpInductive, PTL

\* No two stations use one address at a time: each has an entry of its own for
\* it, since the entry lasts as long as the station believes its lease does.
THEOREM NoAddressTwice ==
  ASSUME ~ AtZero
  PROVE  Spec => []NoDoubleUse
<1>1. ASSUME IInv PROVE NoDoubleUse
  <2> SUFFICES ASSUME NEW c \in Clients, NEW d \in Clients, c # d, Using(c), Using(d),
                      sta[c].ip = sta[d].ip
               PROVE  FALSE
    BY DEF NoDoubleUse
  <2>1. TypeOK /\ Distinct(leases) /\ StationInv(c) /\ StationInv(d)
    BY <1>1 DEF IInv
  <2>2. PICK i \in Slots : leases[i].mac = c /\ leases[i].nip = sta[c].ip
    BY <2>1 DEF StationInv, LeaseInv, Granted, Using
  <2>3. PICK j \in Slots : leases[j].mac = d /\ leases[j].nip = sta[d].ip
    BY <2>1 DEF StationInv, LeaseInv, Granted, Using
  <2>4. i # j
    BY <2>2, <2>3
  <2>5. sta[c].ip # NoAddr
    BY <2>1 DEF StationInv, Named, Using, Holds
  <2> QED BY <2>1, <2>2, <2>3, <2>4, <2>5 DEF Distinct
<1>2. IInv => NoDoubleUse
  BY <1>1
<1> QED BY <1>2, DhcpInductive, PTL

\* send_ACK: the station that is about to hear that it has the address has an
\* entry for it.  Run dhcp_zero shows that it needs the assumption.
THEOREM AckIsLeased ==
  ASSUME ~ AtZero
  PROVE  Spec => []AckedIsLeased
<1>1. ASSUME IInv PROVE AckedIsLeased
  <2> SUFFICES ASSUME NEW c \in Clients, rep[c] # None, rep[c].type = "ack", wait[c] >= 0
               PROVE  \E i \in Slots : leases[i].mac = c /\ leases[i].nip = rep[c].ip
    BY DEF AckedIsLeased
  <2>1. StationInv(c)
    BY <1>1 DEF IInv
  <2>2. rep[c].ip = sta[c].ip
    BY <2>1 DEF StationInv, RepliesInv, ReplyFits
  <2>3. Granted(c, wait[c])
    BY <2>1 DEF StationInv, LeaseInv, Acked, RepAck
  <2> QED BY <2>2, <2>3 DEF Granted
<1>2. IInv => AckedIsLeased
  BY <1>1
<1> QED BY <1>2, DhcpInductive, PTL

\* Whatever is offered, granted, declined or cleared, a lease that is not over,
\* of a station in reach, goes to nobody else.
THEOREM LeaseIsKept ==
  ASSUME ~ AtZero
  PROVE  Spec => LeaseKept
<1>1. IInv /\ [Next]_vars =>
        [\A i, j \in Slots :
           /\ Associated(leases[i].mac) /\ ~ Expired(leases[i])
           /\ leases'[j].nip = leases[i].nip
           => leases'[j].mac \in {leases[i].mac, None}]_vars
  BY NextOK DEF NoneLost
<1> QED BY <1>1, DhcpInductive, PTL DEF Spec, LeaseKept

-----------------------------------------------------------------------------
(* Room for everybody: an entry without an address is unused, and over as  *)
(* soon as ssv_time has left zero.  DHCPRELEASE would set the time of such *)
(* an entry if it named no address; a station names the one it had.        *)

Unheld(table) == \A i \in Slots : table[i].nip = NoAddr => table[i].expires = 0

Partings == {"decline", "release"}

Parting(c) == \A i \in Positions(c) : req[c][i].type \in Partings => req[c][i].ip # NoAddr

RoomInv == IInv /\ Unheld(leases) /\ \A c \in Clients : Parting(c)

LEMMA UnheldCleared ==
  ASSUME leases \in Table, Distinct(leases), Whole(leases), Unheld(leases),
         NEW c \in Clients, NEW table \in Tables(c)
  PROVE  Unheld(table)
<1>1. \A i \in Slots : table[i] \in {leases[i], EmptyLease}
  BY ClearedSlot
<1>2. EmptyLease.expires = 0
  BY DEF EmptyLease
<1> QED BY <1>1, <1>2 DEF Unheld

LEMMA UnheldAdded ==
  ASSUME now \in Nat, NEW table \in Table, Unheld(table),
         NEW c \in Clients, NEW a \in Addrs, NEW time \in Nat,
         NEW new, new = AddLease(table, c, a, time)
  PROVE  Unheld(new)
<1>1. PICK k \in Slots \cup {0} :
        /\ k # 0 => new[k] = [mac |-> c, nip |-> a, expires |-> now + time]
        /\ \A i \in Slots \ {k} : new[i] = EmptyLease \/ new[i] = table[i]
  BY AddedLease
<1>2. a # NoAddr /\ 0 \notin Slots /\ EmptyLease.expires = 0
  BY DhcpAssumption DEF Addrs, NoAddr, Slots, EmptyLease
<1>3. k # 0 => new[k].nip # NoAddr
  BY <1>1, <1>2
<1> QED BY <1>1, <1>2, <1>3 DEF Unheld

LEMMA UnheldFreed ==
  ASSUME RoomInv, NEW c \in Clients, Freed(c)
  PROVE  Unheld(leases')
<1> DEFINE s == SlotOfMac(leases, c)
<1>1. leases \in Table /\ Distinct(leases) /\ Whole(leases) /\ Unheld(leases) /\ TypeOK
  BY DEF RoomInv, IInv, TypeOK, Table
<1>2. PICK table \in Tables(c) :
        leases' =
          IF ~ IsLeased(table, c) THEN table
          ELSE [table EXCEPT ![s] =
                  IF Head(req[c]).type = "decline"
                    THEN [mac |-> None, nip |-> table[s].nip, expires |-> now + DeclineTime]
                    ELSE [table[s] EXCEPT !.expires = now]]
  BY DEF Freed
<1>3. Unheld(table) /\ table \in Table
  BY <1>1, ClearedSlot, UnheldCleared
<1>4. CASE ~ IsLeased(table, c)
  BY <1>2, <1>3, <1>4
<1>5. CASE IsLeased(table, c)
  <2>1. s \in Slots /\ table[s].nip = Head(req[c]).ip
    BY <1>5, SlotFound DEF IsLeased
  <2>2. Head(req[c]).ip # NoAddr
    <3>1. /\ Head(req[c]).type \in Partings /\ Head(req[c]) = req[c][1]
          /\ Len(req[c]) \in Nat \ {0}
      BY <1>1, Taken DEF Freed, Receives, Partings
    <3>2. 1 \in Positions(c) /\ Parting(c)
      BY <3>1 DEF Positions, RoomInv
    <3> QED BY <3>1, <3>2 DEF Parting
  <2>3. \A i \in Slots : i # s => leases'[i] = table[i]
    BY <1>2, <1>3, <1>5 DEF Table
  <2>4. leases'[s].nip = table[s].nip
    BY <1>2, <1>3, <1>5, <2>1 DEF Table
  <2> HIDE DEF s
  <2> QED BY <1>3, <2>1, <2>2, <2>3, <2>4 DEF Unheld
<1> QED BY <1>4, <1>5

\* What send_offer and send_ACK do to the table that clearlease_bymac may have
\* touched: nothing, or one lease of that station is added.
LEMMA ServedTable ==
  ASSUME IInv, NEW c \in Clients, Offer(c) \/ Request(c)
  PROVE  \E table \in Tables(c), a \in Addrs \cup {NoAddr}, time \in {OfferTime, LeaseTime} :
           leases' = table \/ (a # NoAddr /\ leases' = AddLease(table, c, a, time))
<1>0. leases \in Table /\ Distinct(leases) /\ Whole(leases) /\ TypeOK
  BY DEF IInv, TypeOK, Table
<1>1. Head(req[c]).ip \in Addrs \cup {NoAddr} /\ NoAddr \in Addrs \cup {NoAddr}
  BY <1>0, Taken DEF Offer, Request, Receives, Requests
<1>2. CASE Offer(c)
  <2>1. PICK table \in Tables(c) :
          \/ leases' = table
          \/ LET b == OfferedAddr(table, SlotOfMac(leases, c), Head(req[c]).ip)
             IN  b # NoAddr /\ leases' = AddLease(table, c, b, OfferTime)
    BY <1>2 DEF Offer
  <2>2. CASE leases' = table
    BY <1>1, <2>2
  <2>3. CASE leases' # table
    <3>1. PICK b : /\ b = OfferedAddr(table, SlotOfMac(leases, c), Head(req[c]).ip)
                   /\ b # NoAddr /\ leases' = AddLease(table, c, b, OfferTime)
      BY <2>1, <2>3
    <3>2. b \in Addrs
      BY <1>0, <1>1, <3>1, OfferFree
    <3> QED BY <3>1, <3>2
  <2> QED BY <2>2, <2>3
<1>3. CASE Request(c)
  <2>1. PICK table \in Tables(c) :
          \/ IsLeased(table, c) /\ leases' = AddLease(table, c, Head(req[c]).ip, LeaseTime)
          \/ leases' = table
    BY <1>3 DEF Request
  <2>2. Head(req[c]).ip # NoAddr
    <3>1. /\ Head(req[c]).type \in Renewals /\ Head(req[c]) = req[c][1]
          /\ Len(req[c]) \in Nat \ {0}
      BY <1>0, <1>3, Taken DEF Request, Receives, Renewals
    <3>2. 1 \in Positions(c) /\ Named(c)
      BY <3>1 DEF Positions, IInv, StationInv
    <3> QED BY <3>1, <3>2 DEF Named
  <2> QED BY <1>1, <2>1, <2>2
<1> QED BY <1>2, <1>3

LEMMA UnheldServed ==
  ASSUME RoomInv, NEW c \in Clients, Offer(c) \/ Request(c)
  PROVE  Unheld(leases')
<1>1. /\ leases \in Table /\ Distinct(leases) /\ Whole(leases) /\ Unheld(leases) /\ TypeOK
      /\ now \in Nat /\ OfferTime \in Nat /\ LeaseTime \in Nat
  <2>1. TypeOK /\ Distinct(leases) /\ Whole(leases) /\ Unheld(leases)
    BY DEF RoomInv, IInv
  <2>2. leases \in Table /\ now \in Nat
    BY <2>1, DhcpAssumption DEF TypeOK, Table
  <2> QED BY <2>1, <2>2, DhcpAssumption
<1>2. PICK table \in Tables(c), a \in Addrs \cup {NoAddr}, time \in {OfferTime, LeaseTime} :
        leases' = table \/ (a # NoAddr /\ leases' = AddLease(table, c, a, time))
  BY ServedTable DEF RoomInv
<1>3. table \in Table /\ Unheld(table)
  BY <1>1, ClearedSlot, UnheldCleared
<1>4. CASE leases' = table
  BY <1>3, <1>4
<1>5. CASE a # NoAddr /\ leases' = AddLease(table, c, a, time)
  <2>1. a \in Addrs /\ time \in Nat
    BY <1>1, <1>5
  <2> QED BY <1>1, <1>3, <1>5, <2>1, UnheldAdded
<1> QED BY <1>2, <1>4, <1>5

LEMMA UnheldOK ==
  ASSUME RoomInv, [Next]_vars PROVE Unheld(leases')
<1>0. leases \in Table /\ Distinct(leases) /\ Whole(leases) /\ Unheld(leases)
  BY DEF RoomInv, IInv, TypeOK, Table
<1>1. CASE leases' = leases
  BY <1>0, <1>1
<1>2. CASE Restart
  BY <1>2 DEF Restart, Unheld, EmptyLease
<1>3. ASSUME NEW c \in Clients, Serve(c) PROVE Unheld(leases')
  BY <1>3, UnheldFreed, UnheldServed DEF Serve
<1>4. ASSUME NEW c \in Clients, ClearLeaseByMac(c) PROVE Unheld(leases')
  <2>1. leases' \in Tables(c)
    BY <1>4 DEF ClearLeaseByMac, Tables
  <2> QED BY <1>0, <2>1, UnheldCleared
<1>5. ASSUME NEW c \in Clients, Station(c) PROVE leases' = leases
  BY <1>5, StationStep DEF RoomInv, StationOK, OnlyStation
<1>6. (UNCHANGED vars \/ Tick \/ \E c \in Clients : Inform(c) \/ NoMemory(c) \/ Lose(c)) => leases' = leases
  BY DEF vars, Tick, Inform, NoMemory, Lose
<1> QED BY <1>1, <1>2, <1>3, <1>4, <1>5, <1>6 DEF Next

\* A step that sends no request to end a lease without an address.
Harmless(d) ==
  \A i \in Positions(d)' :
    \/ \E j \in Positions(d) : req'[d][i].type = req[d][j].type /\ req'[d][i].ip = req[d][j].ip
    \/ req'[d][i].type \in Partings => req'[d][i].ip # NoAddr

LEMMA HarmlessFewer ==
  ASSUME TypeOK, TypeOK', NEW d \in Clients, FewerRequests(d)
  PROVE  Harmless(d)
<1>1. PICK k \in {0, 1} : \A i \in 1 .. Len(req'[d]) :
        i + k \in 1 .. Len(req[d]) /\ req'[d][i] = req[d][i + k]
  BY FewerKept
<1> QED BY <1>1 DEF Harmless, Positions

LEMMA HarmlessSent ==
  ASSUME TypeOK, NEW c \in Clients,
         NEW type \in {"discover", "select", "reboot", "renew", "decline", "release"},
         NEW a \in Addrs \cup {NoAddr}, type \in Partings => a # NoAddr,
         Begin(c, type, a) \/ Send(c, req[c], type, a)
  PROVE  Harmless(c)
<1>1. CASE Begin(c, type, a)
  <2>1. \A i \in 1 .. Len(req'[c]) :
          \/ /\ i \in 1 .. Len(req[c])
             /\ req'[c][i].type = req[c][i].type /\ req'[c][i].ip = req[c][i].ip
          \/ req'[c][i].type = type /\ req'[c][i].ip = a
    BY <1>1, Begun
  <2> QED BY <2>1 DEF Harmless, Positions
<1>2. CASE Send(c, req[c], type, a)
  <2>1. req[c] \in Seq(Requests)
    BY RequestTypes
  <2>2. /\ \A i \in 1 .. Len(req[c]) : req'[c][i] = req[c][i]
        /\ req'[c][Len(req[c]) + 1] = [type |-> type, ip |-> a, fresh |-> TRUE]
        /\ \A i \in 1 .. Len(req'[c]) : i \in 1 .. Len(req[c]) \/ i = Len(req[c]) + 1
    BY <1>2, <2>1, Sent
  <2> QED BY <2>2 DEF Harmless, Positions
<1> QED BY <1>1, <1>2

LEMMA HarmlessStation ==
  ASSUME IInv, NEW c \in Clients, Station(c)
  PROVE  \A d \in Clients : Harmless(d)
<1>0. TypeOK /\ StationInv(c) /\ sta[c].ip \in Addrs \cup {NoAddr} /\ NoAddr \in Addrs \cup {NoAddr}
  BY DEF IInv, TypeOK, Stations
<1>1. OnlyStation(c)
  BY StationStep DEF StationOK
<1>2. \A d \in Clients : req'[d] = req[d] => Harmless(d)
  BY DEF Harmless, Positions
<1>3. Harmless(c)
  <2>1. CASE Abandon(c)
    BY <1>0, <2>1, Abandoned DEF Harmless, Positions
  <2>2. CASE Discover(c)
    BY <1>0, <2>2, HarmlessSent DEF Discover, Partings
  <2>3. CASE Reboot(c) \/ Renew(c)
    BY <1>0, <2>3, HarmlessSent DEF Reboot, Renew, Partings
  <2>4. CASE Release(c) \/ Decline(c)
    <3>1. sta[c].ip # NoAddr
      BY <1>0, <2>4 DEF Release, Decline, StationInv, Named
    <3> QED BY <1>0, <2>4, <3>1, HarmlessSent DEF Release, Decline
  <2>5. CASE Resend(c)
    BY <1>0, <2>5, HarmlessSent DEF Resend, Partings
  <2>6. CASE TakeReply(c)
    <3>1. rep[c].ip \in Addrs \cup {NoAddr}
      BY <1>0, <2>6 DEF TakeReply, TypeOK, Replies
    <3>2. req' = req \/ Send(c, req[c], "select", rep[c].ip)
      BY <2>6 DEF TakeReply
    <3> QED BY <1>0, <1>2, <3>1, <3>2, HarmlessSent DEF Partings
  <2>7. Leave(c) \/ GiveUp(c) \/ LeaseEnds(c) => Abandon(c)
    BY DEF Leave, GiveUp, LeaseEnds
  <2>8. Join(c) => req' = req
    BY DEF Join
  <2> QED BY <1>2, <2>1, <2>2, <2>3, <2>4, <2>5, <2>6, <2>7, <2>8 DEF Station
<1>4. \A d \in Clients \ {c} : Harmless(d)
  BY <1>1, <1>2 DEF OnlyStation
<1> QED BY <1>3, <1>4

LEMMA PartingOK ==
  ASSUME RoomInv, TypeOK', [Next]_vars, NEW d \in Clients
  PROVE  Parting(d)'
<1>0. TypeOK /\ IInv /\ Parting(d)
  BY DEF RoomInv, IInv
<1>1. CASE req'[d] = req[d]
  BY <1>0, <1>1 DEF Parting, Positions
<1>2. CASE Harmless(d)
  BY <1>0, <1>2 DEF Parting, Harmless
<1>3. CASE Restart
  <2>1. req'[d] = << >> /\ Len(<< >>) = 0
    BY <1>3, EmptySeq DEF Restart
  <2>2. Positions(d)' = {}
    BY <2>1 DEF Positions
  <2> QED BY <2>2 DEF Parting
<1>4. ASSUME NEW c \in Clients, req[c] # << >>, req' = [req EXCEPT ![c] = Tail(req[c])]
      PROVE  Harmless(d)
  BY <1>0, <1>4, TakenFewer, HarmlessFewer
<1>5. ASSUME NEW c \in Clients, Serve(c) \/ NoMemory(c) PROVE Harmless(d)
  <2>1. Receives(c)
    BY <1>5 DEF Serve, Offer, Request, Freed, NoMemory
  <2> QED BY <1>4, <2>1 DEF Receives
<1>6. ASSUME NEW c \in Clients, Lose(c) PROVE Harmless(d) \/ req' = req
  BY <1>4, <1>6 DEF Lose
<1>7. ASSUME NEW c \in Clients, Inform(c) \/ ClearLeaseByMac(c) PROVE req' = req
  BY <1>7 DEF Inform, ClearLeaseByMac
<1>8. ASSUME NEW c \in Clients, Station(c) PROVE Harmless(d)
  BY <1>0, <1>8, HarmlessStation
<1>9. UNCHANGED vars \/ Tick => req' = req
  BY DEF vars, Tick
<1> QED BY <1>1, <1>2, <1>3, <1>5, <1>6, <1>7, <1>8, <1>9 DEF Next

LEMMA PoolCount == IsFiniteSet(Addrs) /\ Cardinality(Addrs) = PoolSize
<1>1. PoolSize \in Nat
  BY DhcpAssumption
<1>2. /\ IsFiniteSet(1 .. PoolSize)
      /\ Cardinality(1 .. PoolSize) = IF 1 > PoolSize THEN 0 ELSE PoolSize - 1 + 1
  BY <1>1, FS_Interval
<1> QED BY <1>1, <1>2 DEF Addrs

\* An address for everybody: if all of them are held, one of the holders is out
\* of reach, since the station that asks is none of them.
LEMMA Crowded ==
  ASSUME NEW T, IsFiniteSet(T), Cardinality(T) < PoolSize, NEW f \in [Addrs -> T]
  PROVE  \E x, y \in Addrs : x # y /\ f[x] = f[y]
<1>1. PoolSize \in Nat /\ Cardinality(T) \in Nat
  BY DhcpAssumption, FS_CardinalityType
<1>2. IsFiniteSet(Addrs) /\ Cardinality(Addrs) = PoolSize
  BY PoolCount
<1> QED BY <1>2, FS_PigeonHole

LEMMA OneLess ==
  ASSUME NEW S, IsFiniteSet(S), NEW n \in Nat, Cardinality(S) <= n, NEW x \in S
  PROVE  IsFiniteSet(S \ {x}) /\ Cardinality(S \ {x}) < n
<1>1. Cardinality(S) \in Nat
  BY FS_CardinalityType
<1>2. /\ IsFiniteSet(S \ {x})
      /\ Cardinality(S \ {x}) = IF x \in S THEN Cardinality(S) - 1 ELSE Cardinality(S)
  BY FS_RemoveElement
<1>3. Cardinality(S \ {x}) = Cardinality(S) - 1
  BY <1>2
<1> QED BY <1>1, <1>2, <1>3

LEMMA SomeoneGone ==
  ASSUME leases \in Table, Distinct(leases), IsFiniteSet(Clients), Cardinality(Clients) <= PoolSize,
         NEW c \in Clients, SlotOfMac(leases, c) = 0, FreeAddrs(leases) = {}
  PROVE  \E a \in Addrs : ~ Associated(leases[SlotOfNip(leases, a)].mac)
<1> SUFFICES ASSUME \A a \in Addrs : Associated(leases[SlotOfNip(leases, a)].mac)
             PROVE  FALSE
  OBVIOUS
<1> DEFINE f == [a \in Addrs |-> leases[SlotOfNip(leases, a)].mac]
<1>1. \A a \in Addrs : SlotOfNip(leases, a) \in Slots /\ leases[SlotOfNip(leases, a)].nip = a
  BY SlotFound DEF FreeAddrs
<1>2. \A i \in Slots : leases[i].mac # c
  BY SlotFound
<1>3. f \in [Addrs -> Clients \ {c}]
  BY <1>1, <1>2 DEF Table, Associated
<1>4. IsFiniteSet(Clients \ {c}) /\ Cardinality(Clients \ {c}) < PoolSize
  BY OneLess, DhcpAssumption
<1>5. PICK a \in Addrs, b \in Addrs : a # b /\ f[a] = f[b]
  <2> HIDE DEF f
  <2> QED BY <1>3, <1>4, Crowded
<1>6. /\ leases[SlotOfNip(leases, a)].mac = leases[SlotOfNip(leases, b)].mac
      /\ leases[SlotOfNip(leases, a)].mac # None
  BY <1>5 DEF Associated
<1>7. SlotOfNip(leases, a) = SlotOfNip(leases, b)
  BY <1>1, <1>6 DEF Distinct
<1> QED BY <1>1, <1>5, <1>7

\* The search for the earliest time finds one of the addresses it looks at.
LEMMA OldestFound ==
  ASSUME NEW table \in Table, FreeAddrs(table) = {}, NEW S, S \subseteq Addrs, S # {}
  PROVE  OldestAddr(table, S) \in S
<1> DEFINE Time(a) == table[SlotOfNip(table, a)].expires
<1> DEFINE O == {a \in S : \A b \in S : Time(a) <= Time(b)}
<1> DEFINE T == {Time(a) : a \in S}
<1>1. T \subseteq Nat /\ T # {}
  <2>1. \A a \in S : SlotOfNip(table, a) \in Slots
    BY SlotFound DEF FreeAddrs
  <2> QED BY <2>1 DEF Table
<1>2. PICK n \in T : \A m \in T : n <= m
  <2> HIDE DEF T
  <2> QED BY <1>1, Least
<1>3. PICK a \in S : Time(a) = n
  BY <1>2
<1>4. a \in O
  BY <1>2, <1>3
<1>5. O \subseteq S /\ O \subseteq Slots /\ OldestAddr(table, S) = First(O)
  BY DEF OldestAddr, Addrs, Slots
<1> HIDE DEF O
<1> QED BY <1>4, <1>5, FirstSlot

LEMMA AddressFound ==
  ASSUME leases \in Table, Distinct(leases), Whole(leases),
         IsFiniteSet(Clients), Cardinality(Clients) <= PoolSize,
         NEW c \in Clients, NEW wish \in Addrs \cup {NoAddr}
  PROVE  OfferedAddr(leases, SlotOfMac(leases, c), wish) # NoAddr
<1> DEFINE s == SlotOfMac(leases, c)
<1> DEFINE gone == {b \in Addrs : ~ Associated(leases[SlotOfNip(leases, b)].mac)}
<1>0. NoAddr \notin Addrs /\ c # None
  BY DhcpAssumption DEF Addrs, NoAddr
<1>1. CASE s # 0
  <2>1. s \in Slots /\ leases[s].mac = c
    BY <1>1, SlotFound
  <2> QED BY <1>0, <1>1, <2>1 DEF OfferedAddr, Whole
<1>2. CASE s = 0
  <2>1. \/ wish \in Addrs /\ OfferedAddr(leases, s, wish) = wish
        \/ OfferedAddr(leases, s, wish) = FreeOrExpired(leases)
    BY <1>2 DEF OfferedAddr
  <2>2. CASE FreeAddrs(leases) # {}
    <3>1. FreeAddrs(leases) \subseteq Slots /\ FreeAddrs(leases) \subseteq Addrs
      BY DEF FreeAddrs, Addrs, Slots
    <3>2. FreeOrExpired(leases) \in Addrs
      BY <2>2, <3>1, FirstSlot DEF FreeOrExpired
    <3> QED BY <1>0, <2>1, <3>2
  <2>3. CASE FreeAddrs(leases) = {}
    <3>1. gone # {} /\ gone \subseteq Addrs
      BY <1>2, <2>3, SomeoneGone
    <3>2. FreeOrExpired(leases) = OldestAddr(leases, gone)
      BY <2>3 DEF FreeOrExpired
    <3> HIDE DEF gone
    <3>3. FreeOrExpired(leases) \in Addrs
      BY <2>3, <3>1, <3>2, OldestFound
    <3> QED BY <1>0, <2>1, <3>3
  <2> QED BY <2>2, <2>3
<1> QED BY <1>1, <1>2

\* And a slot: that of the station or of the address, or else an unused one,
\* since the other entries hold the other addresses.
LEMMA SlotLeft ==
  ASSUME leases \in Table, Distinct(leases), Unheld(leases), now \in Nat, now > 0,
         NEW c \in Clients, NEW a \in Addrs
  PROVE  \E i \in Slots : Expired(ClearLeases(leases, c, a)[i])
<1> DEFINE cleared == ClearLeases(leases, c, a)
<1> DEFINE g == [i \in Slots |-> leases[i].nip]
<1>1. \A i \in Slots :
        /\ leases[i].mac # c /\ leases[i].nip # a => cleared[i] = leases[i]
        /\ leases[i].mac = c \/ leases[i].nip = a => cleared[i].expires = 0
  BY ClearedTable DEF EmptyLease
<1>2. CASE \E i \in Slots : leases[i].mac = c \/ leases[i].nip = a
  BY <1>1, <1>2 DEF Expired
<1>3. CASE \A i \in Slots : leases[i].mac # c /\ leases[i].nip # a
  <2>1. \E i \in Slots : leases[i].nip = NoAddr
    <3> SUFFICES ASSUME \A i \in Slots : leases[i].nip # NoAddr
                 PROVE  FALSE
      OBVIOUS
    <3>0. Slots = Addrs
      BY DEF Slots, Addrs
    <3>1. g \in [Addrs -> Addrs \ {a}]
      BY <1>3, <3>0 DEF Table
    <3>2. IsFiniteSet(Addrs \ {a}) /\ Cardinality(Addrs \ {a}) < PoolSize
      <4>1. PoolSize \in Nat
        BY DhcpAssumption
      <4>2. Cardinality(Addrs) <= PoolSize
        BY <4>1, PoolCount
      <4> QED BY <4>1, <4>2, PoolCount, OneLess
    <3>3. PICK i \in Slots, j \in Slots : i # j /\ g[i] = g[j]
      <4> HIDE DEF g
      <4> QED BY <3>0, <3>1, <3>2, Crowded
    <3> QED BY <3>3 DEF Distinct
  <2> QED BY <1>1, <1>3, <2>1 DEF Unheld, Expired
<1> QED BY <1>2, <1>3

LEMMA LeaseAdded ==
  ASSUME leases \in Table, NEW c \in Clients, NEW a \in Addrs, NEW time \in Nat,
         \E i \in Slots : Expired(ClearLeases(leases, c, a)[i])
  PROVE  IsAdded(AddLease(leases, c, a, time), c, a)
<1> DEFINE cleared == ClearLeases(leases, c, a)
<1> DEFINE over == {i \in Slots : Expired(cleared[i])}
<1> DEFINE k == OldestExpired(cleared)
<1>1. cleared \in Table
  BY ClearedTable
<1>2. k \in over
  <2>1. over \subseteq Slots /\ over # {} /\ k = Oldest(cleared, over)
    BY DEF OldestExpired
  <2> HIDE DEF cleared, over, k
  <2> QED BY <1>1, <2>1, OldestSlot
<1>3. k \in Slots /\ k # 0
  BY <1>2, DhcpAssumption DEF Slots
<1>4. AddLease(leases, c, a, time) =
        [cleared EXCEPT ![k] = [mac |-> c, nip |-> a, expires |-> now + time]]
  BY <1>3 DEF AddLease
<1> HIDE DEF cleared, k
<1>5. /\ AddLease(leases, c, a, time)[k].mac = c
      /\ AddLease(leases, c, a, time)[k].nip = a
  BY <1>1, <1>3, <1>4 DEF Table
<1> QED BY <1>3, <1>5 DEF IsAdded

\* send_offer finds an address and add_lease a slot for every station, as long
\* as there are no more stations than addresses: entries and addresses are
\* never lost, whatever is offered, declined, cleared or given up.
THEOREM OfferIsFound ==
  ASSUME ~ AtZero, IsFiniteSet(Clients), Cardinality(Clients) <= PoolSize
  PROVE  Spec => []NeverRefused
<1>1. Init => RoomInv
  <2> SUFFICES ASSUME Init PROVE RoomInv
    OBVIOUS
  <2>1. Unheld(leases)
    BY DEF Init, Unheld, EmptyLease
  <2>2. ASSUME NEW c \in Clients PROVE Parting(c)
    <3>1. req[c] = << >> /\ Len(<< >>) = 0
      BY EmptySeq DEF Init
    <3> QED BY <3>1 DEF Parting, Positions
  <2> QED BY <2>1, <2>2, InitOK DEF RoomInv
<1>2. RoomInv /\ [Next]_vars => RoomInv'
  <2> SUFFICES ASSUME RoomInv, [Next]_vars PROVE RoomInv'
    OBVIOUS
  <2>1. IInv' /\ TypeOK'
    BY NextOK DEF RoomInv, IInv
  <2>2. Unheld(leases')
    BY UnheldOK
  <2>3. \A c \in Clients : Parting(c)'
    BY <2>1, PartingOK
  <2> QED BY <2>1, <2>2, <2>3 DEF RoomInv, Unheld
<1>3. ASSUME RoomInv PROVE NeverRefused
  <2>1. /\ leases \in Table /\ Distinct(leases) /\ Whole(leases) /\ Unheld(leases)
        /\ now \in Nat /\ OfferTime \in Nat
    BY <1>3, DhcpAssumption DEF RoomInv, IInv, TypeOK, Table
  <2>2. ASSUME now > 0, NEW c \in Clients, Associated(c), NEW wish \in Addrs \cup {NoAddr},
               NEW a, a = OfferedAddr(leases, SlotOfMac(leases, c), wish)
        PROVE  a # NoAddr /\ IsAdded(AddLease(leases, c, a, OfferTime), c, a)
    <3>1. a # NoAddr
      BY <2>1, <2>2, AddressFound
    <3>2. a \in Addrs
      <4>1. leases \in Tables(c)
        BY DEF Tables
      <4> QED BY <2>1, <2>2, <3>1, <4>1, OfferFree
    <3> QED BY <2>1, <2>2, <3>1, <3>2, SlotLeft, LeaseAdded
  <2> QED BY <2>2 DEF NeverRefused
<1>4. RoomInv => NeverRefused
  BY <1>3
<1> QED BY <1>1, <1>2, <1>4, PTL DEF Spec

-----------------------------------------------------------------------------
(* The table as a book of addresses.  What the book promises of a step is  *)
(* for the most part in the invariant after it: no address or station is   *)
(* booked twice, and what is used is booked.                               *)

Bookings(table) == {<<table[i].mac, table[i].nip>> : i \in {j \in Slots : table[j].mac # None}}

Users(stas, times) ==
  {<<c, stas[c].ip>> : c \in {d \in Clients : stas[d].st \in {"bound", "renewing"} /\ times[d] >= 0}}

LEMMA InBook ==
  ASSUME NEW table, NEW p
  PROVE  p \in Bookings(table) <=>
           \E i \in Slots : table[i].mac # None /\ p = <<table[i].mac, table[i].nip>>
BY DEF Bookings

LEMMA BookAndUse == Booked = Bookings(leases) /\ Used = Users(sta, left)
BY DEF Booked, Bookings, Used, Users, Using, Holds

\* No station and no address is in the book twice, and what is used is booked.
BookOK == Pool!OneToOne(Booked) /\ Used \subseteq Booked

LEMMA BookSound == ASSUME IInv PROVE BookOK
<1>1. /\ leases \in Table /\ Distinct(leases) /\ Whole(leases)
      /\ \A c \in Clients : LeaseInv(c)
  BY DEF IInv, TypeOK, Table, StationInv
<1>2. Pool!OneToOne(Booked)
  <2> SUFFICES ASSUME NEW p \in Booked, NEW q \in Booked, p[1] = q[1] \/ p[2] = q[2]
               PROVE  p = q
    BY DEF Pool!OneToOne
  <2>1. PICK i \in Slots : leases[i].mac # None /\ p = <<leases[i].mac, leases[i].nip>>
    BY BookAndUse, InBook
  <2>2. PICK j \in Slots : leases[j].mac # None /\ q = <<leases[j].mac, leases[j].nip>>
    BY BookAndUse, InBook
  <2>3. leases[i].nip # NoAddr
    BY <1>1, <2>1 DEF Whole
  <2>4. i = j
    BY <1>1, <2>1, <2>2, <2>3 DEF Distinct
  <2> QED BY <2>1, <2>2, <2>4
<1>3. Used \subseteq Booked
  <2> SUFFICES ASSUME NEW c \in Clients, Using(c)
               PROVE  <<c, sta[c].ip>> \in Booked
    BY DEF Used
  <2>1. PICK i \in Slots : leases[i].mac = c /\ leases[i].nip = sta[c].ip
    BY <1>1 DEF LeaseInv, Granted, Using
  <2>2. c # None
    BY DhcpAssumption
  <2> QED BY <2>1, <2>2, BookAndUse, InBook
<1> QED BY <1>2, <1>3 DEF BookOK

LEMMA SameUse == ASSUME sta' = sta, left' = left PROVE Used' = Used
BY DEF Used, Using, Holds

\* A table in which entries have been cleared, or given up, is a book with
\* bookings struck out.
LEMMA Struck ==
  ASSUME BookOK', sta' = sta, left' = left,
         \A i \in Slots : leases'[i].mac # None =>
           leases'[i].mac = leases[i].mac /\ leases'[i].nip = leases[i].nip
  PROVE  Pool!Strike
<1>1. Used' = Used
  BY SameUse
<1>2. Booked' = Bookings(leases') /\ Booked = Bookings(leases)
  BY DEF Booked, Bookings
<1>3. Booked' \subseteq Booked
  <2> SUFFICES ASSUME NEW p \in Booked' PROVE p \in Booked
    OBVIOUS
  <2>1. PICK i \in Slots : leases'[i].mac # None /\ p = <<leases'[i].mac, leases'[i].nip>>
    BY <1>2, InBook
  <2>2. leases[i].mac # None /\ p = <<leases[i].mac, leases[i].nip>>
    BY <2>1
  <2> QED BY <1>2, <2>2, InBook
<1> QED BY <1>1, <1>3 DEF Pool!Strike, BookOK

\* clearlease_bymac.
LEMMA ClearStrikes ==
  ASSUME IInv, BookOK', sta' = sta, left' = left, NEW c \in Clients, leases' \in Tables(c)
  PROVE  Pool!Strike
<1>1. \A i \in Slots : leases'[i] \in {leases[i], EmptyLease}
  BY ClearedSlot DEF IInv, TypeOK, Table
<1>2. EmptyLease.mac = None
  BY DEF EmptyLease
<1> QED BY <1>1, <1>2, Struck

\* DHCPDECLINE and DHCPRELEASE.
LEMMA FreedStrikes ==
  ASSUME IInv, BookOK', NEW c \in Clients, Freed(c)
  PROVE  Pool!Strike
<1> DEFINE s == SlotOfMac(leases, c)
<1>1. leases \in Table /\ Distinct(leases) /\ Whole(leases) /\ sta' = sta /\ left' = left
  BY DEF IInv, TypeOK, Table, Freed, Unmoved
<1>2. PICK table \in Tables(c) :
        leases' =
          IF ~ IsLeased(table, c) THEN table
          ELSE [table EXCEPT ![s] =
                  IF Head(req[c]).type = "decline"
                    THEN [mac |-> None, nip |-> table[s].nip, expires |-> now + DeclineTime]
                    ELSE [table[s] EXCEPT !.expires = now]]
  BY DEF Freed
<1>3. table \in Table /\ \A i \in Slots : table[i] \in {leases[i], EmptyLease}
  BY <1>1, ClearedSlot
<1>4. CASE ~ IsLeased(table, c)
  BY <1>1, <1>2, <1>4, ClearStrikes
<1>5. CASE IsLeased(table, c)
  <2>1. \A i \in Slots : leases'[i].mac # None =>
          leases'[i].mac = table[i].mac /\ leases'[i].nip = table[i].nip
    <3> HIDE DEF s
    <3> QED BY <1>2, <1>3, <1>5 DEF Table
  <2>2. EmptyLease.mac = None
    BY DEF EmptyLease
  <2>3. \A i \in Slots : table[i].mac # None =>
          table[i].mac = leases[i].mac /\ table[i].nip = leases[i].nip
    BY <1>3, <2>2
  <2> QED BY <1>1, <2>1, <2>3, Struck
<1> QED BY <1>4, <1>5

\* send_offer and send_ACK book an address, strike out what gets in its way,
\* or do nothing.
LEMMA ServedBooks ==
  ASSUME IInv, BookOK', NEW c \in Clients, Offer(c) \/ Request(c)
  PROVE  Pool!Strike \/ \E a \in Addrs : Pool!Book(c, a)
<1>1. /\ leases \in Table /\ Distinct(leases) /\ Whole(leases) /\ sta' = sta /\ left' = left
      /\ now \in Nat
  BY DhcpAssumption DEF IInv, TypeOK, Table, Offer, Request, Unmoved
<1>2. PICK table \in Tables(c), a \in Addrs \cup {NoAddr}, time \in {OfferTime, LeaseTime} :
        leases' = table \/ (a # NoAddr /\ leases' = AddLease(table, c, a, time))
  BY ServedTable
<1>3. table \in Table /\ \A i \in Slots : table[i] \in {leases[i], EmptyLease}
  BY <1>1, ClearedSlot
<1>4. CASE leases' = table
  BY <1>1, <1>4, ClearStrikes
<1>5. CASE a # NoAddr /\ leases' = AddLease(table, c, a, time)
  <2>1. a \in Addrs /\ time \in Nat
    BY <1>2, <1>5, DhcpAssumption
  <2>2. PICK k \in Slots \cup {0} :
          /\ k # 0 => leases'[k] = [mac |-> c, nip |-> a, expires |-> now + time]
          /\ \A i \in Slots \ {k} : leases'[i] = EmptyLease \/ leases'[i] = table[i]
    BY <1>1, <1>3, <1>5, <2>1, AddedLease
  <2>3. EmptyLease.mac = None /\ c # None /\ 0 \notin Slots
    BY DhcpAssumption DEF EmptyLease, Slots
  <2>4. \A i \in Slots \ {k} : leases'[i].mac # None =>
          leases'[i].mac = leases[i].mac /\ leases'[i].nip = leases[i].nip
    BY <1>3, <2>2, <2>3
  <2>5. CASE k = 0
    BY <1>1, <2>3, <2>4, <2>5, Struck
  <2>6. CASE k # 0
    <3>1. k \in Slots /\ leases'[k].mac = c /\ leases'[k].nip = a
      BY <2>2, <2>6
    <3>2. Booked' = Bookings(leases') /\ Booked = Bookings(leases)
      BY DEF Booked, Bookings
    <3>3. <<c, a>> \in Booked'
      BY <2>3, <3>1, <3>2, InBook
    <3>4. ASSUME NEW p \in Booked' PROVE p \in Booked \cup {<<c, a>>}
      <4>1. PICK i \in Slots : leases'[i].mac # None /\ p = <<leases'[i].mac, leases'[i].nip>>
        BY <3>2, <3>4, InBook
      <4>2. CASE i = k
        BY <3>1, <4>1, <4>2
      <4>3. CASE i # k
        <5>1. leases[i].mac # None /\ p = <<leases[i].mac, leases[i].nip>>
          BY <2>4, <4>1, <4>3
        <5> QED BY <3>2, <5>1, InBook
      <4> QED BY <4>2, <4>3
    <3>5. Pool!Book(c, a)
      BY <1>1, <3>3, <3>4, SameUse DEF Pool!Book, BookOK
    <3> QED BY <2>1, <3>5
  <2> QED BY <2>5, <2>6
<1> QED BY <1>2, <1>4, <1>5

\* A station begins to use the address it has an entry for, or ceases to use one.
LEMMA StationUses ==
  ASSUME IInv, BookOK', NEW c \in Clients, Station(c)
  PROVE  Pool!Vacate \/ \E a \in Addrs : Pool!Occupy(c, a)
<1>1. TypeOK' /\ StationInv(c)' /\ OnlyStation(c)
  BY StationStep DEF StationOK
<1>2. Booked' = Booked
  BY <1>1 DEF OnlyStation, Booked
<1>3. \A d \in Clients \ {c} : /\ sta'[d] = sta[d]
                               /\ Using(d)' <=> Using(d)
  BY <1>1 DEF OnlyStation, SameStation, Using, Holds
<1>4. CASE ~ Using(c)'
  <2>1. Used' \subseteq Used
    BY <1>3, <1>4 DEF Used
  <2> QED BY <1>2, <2>1 DEF Pool!Vacate
<1>5. CASE Using(c)'
  <2> DEFINE a == sta'[c].ip
  <2>1. <<c, a>> \in Used'
    BY <1>5 DEF Used
  <2>2. <<c, a>> \in Booked
    BY <1>2, <2>1 DEF BookOK
  <2>3. Used' = {p \in Used : p[1] # c} \cup {<<c, a>>}
    BY <1>3, <1>5 DEF Used
  <2>4. a \in Addrs
    BY <1>1, <1>5 DEF TypeOK, Stations, StationInv, Named, Using, Holds
  <2> QED BY <1>2, <2>2, <2>3, <2>4 DEF Pool!Occupy
<1> QED BY <1>4, <1>5

LEMMA TickUses == ASSUME IInv, Tick PROVE Pool!Vacate
<1>1. \A d \in Clients : /\ sta'[d] = sta[d] /\ left[d] \in Int
                         /\ left'[d] = Down(left[d])
  BY DhcpAssumption DEF Tick, IInv, TypeOK, Over
<1>2. \A d \in Clients : Using(d)' => Using(d)
  BY <1>1 DEF Using, Holds, Down, Over
<1>3. Booked' = Booked
  BY DEF Tick, Booked
<1>4. Used' \subseteq Used
  BY <1>1, <1>2 DEF Used
<1> QED BY <1>3, <1>4 DEF Pool!Vacate

LEMMA RestartResets == ASSUME Restart PROVE Pool!Reset
<1>1. Booked' = {}
  BY DEF Restart, Booked, EmptyLease
<1>2. \A c \in Clients : ~ Using(c)'
  BY DEF Restart, Using, Holds
<1> QED BY <1>1, <1>2 DEF Pool!Reset, Used

LEMMA PoolStep ==
  ASSUME IInv, BookOK', [Next]_vars
  PROVE  [Pool!Next]_(Pool!poolVars)
<1>1. CASE leases' = leases /\ sta' = sta /\ left' = left
  BY <1>1, SameUse DEF Booked, Pool!poolVars
<1>2. CASE Tick
  BY <1>2, TickUses DEF Pool!Next
<1>3. CASE Restart
  BY <1>3, RestartResets DEF Pool!Next
<1>4. ASSUME NEW c \in Clients, Station(c) PROVE Pool!Next
  BY <1>4, StationUses DEF Pool!Next
<1>5. ASSUME NEW c \in Clients, Serve(c) PROVE Pool!Next
  BY <1>5, ServedBooks, FreedStrikes DEF Serve, Pool!Next
<1>6. ASSUME NEW c \in Clients, ClearLeaseByMac(c) PROVE Pool!Next
  <2>1. leases' \in Tables(c) /\ sta' = sta /\ left' = left
    BY <1>6 DEF ClearLeaseByMac, Tables, Unmoved
  <2> QED BY <2>1, ClearStrikes DEF Pool!Next
<1>7. ASSUME UNCHANGED vars \/ \E c \in Clients : Inform(c) \/ NoMemory(c) \/ Lose(c)
      PROVE  leases' = leases /\ sta' = sta /\ left' = left
  BY <1>7 DEF vars, Inform, NoMemory, Lose, Unmoved
<1> QED BY <1>1, <1>2, <1>3, <1>4, <1>5, <1>6, <1>7 DEF Next

\* The server keeps its promise for any stations, pool and times: a station
\* begins to use an address only while it has an entry for it, and no entry is
\* struck out or moved to another station while it is used.
THEOREM PoolImplemented ==
  ASSUME ~ AtZero
  PROVE  Spec => ImplementsPool
<1>1. Init => Pool!Init
  BY DEF Init, Pool!Init, Booked, Used, Using, Holds, EmptyLease
<1>2. IInv => BookOK
  BY BookSound
<1>3. IInv /\ BookOK' /\ [Next]_vars => [Pool!Next]_(Pool!poolVars)
  BY PoolStep
<1> QED BY <1>1, <1>2, <1>3, DhcpInductive, PTL DEF Spec, ImplementsPool, Pool!Spec

=============================================================================
