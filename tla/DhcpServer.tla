----------------------------- MODULE DhcpServer -----------------------------
(***************************************************************************)
(* The DHCP server of the access point: udhcpd_run takes one request after *)
(* another from its socket and answers from the lease table g_leases, with *)
(* the stations, the frames that get lost on the air, and the callback of  *)
(* the Wi-Fi library that clears the lease of a station around it.         *)
(*                                                                         *)
(* The probe of an address by ARP always answers "free" in this port       *)
(* (arpping.c), so the table alone keeps two stations from one address.    *)
(***************************************************************************)
EXTENDS Integers, Sequences

CONSTANTS
  Clients,      \* stations, by their MAC address
  None,         \* no station, no request, no reply
  PoolSize,     \* addresses from start_ip to end_ip, and max_leases
  OfferTime, LeaseTime, DeclineTime,  \* in ticks of ssv_time
  ClockPeriod,  \* ticks after which ssv_time starts again from zero
  AtZero,       \* requests may be served while ssv_time is zero
  QueueLen      \* bound on the requests of a station under way

ASSUME DhcpAssumption ==
  /\ None \notin Clients
  /\ PoolSize \in Nat
  /\ OfferTime \in Nat /\ LeaseTime \in Nat /\ DeclineTime \in Nat
  /\ ClockPeriod \in Nat \ {0} /\ AtZero \in BOOLEAN
  /\ QueueLen \in Nat

VARIABLES
  (* The server. *)
  now,     \* ssv_time()
  leases,  \* g_leases
  last,    \* pdhcp_pkt, None if no station waits for that reply any more
  (* The stations and the air. *)
  sta,     \* state and address of each station
  wait,    \* its lease if it is granted now
  left,    \* the lease it has
  req,     \* requests under way or in the socket, by station, in order
  rep      \* the reply under way to a station that waits for it, by station

vars == <<now, leases, last, sta, wait, left, req, rep>>

Addrs == 1 .. PoolSize
Slots == 1 .. PoolSize
NoAddr == 0

Expired(lease) == lease.expires < now

\* memset of an entry.
EmptyLease == [mac |-> None, nip |-> NoAddr, expires |-> 0]

\* softap_get_sta_index_by_mac(mac) # -1
Associated(c) == c # None /\ sta[c].st # "off"

-----------------------------------------------------------------------------
(* The lease table.                                                        *)

\* The first slot of a set of slots, 0 (NULL) if the set is empty.
First(S) ==
  IF S = {} THEN 0 ELSE CHOOSE i \in S : \A j \in S : i <= j

SlotOfMac(table, c) == First({i \in Slots : table[i].mac = c})
SlotOfNip(table, a) == First({i \in Slots : table[i].nip = a})

\* Faulty: only the old lease of the station is cleared.
ClearLeasesOfMac(table, c, a) ==
  [i \in Slots |-> IF table[i].mac = c THEN EmptyLease ELSE table[i]]

\* memset of the entries with this station or this address.
ClearLeases(table, c, a) ==
  [i \in Slots |-> IF table[i].mac = c \/ table[i].nip = a
                     THEN EmptyLease ELSE table[i]]

\* The first of a set of slots with the earliest time.
Oldest(table, S) ==
  First({i \in S : \A j \in S : table[i].expires <= table[j].expires})

OldestExpired(table) == Oldest(table, {i \in Slots : Expired(table[i])})

\* add_lease puts the lease in the oldest expired slot, if there is one.
AddLease(table, c, a, time) ==
  LET cleared == ClearLeases(table, c, a)
      slot    == OldestExpired(cleared)
  IN  IF slot = 0 THEN cleared
      ELSE [cleared EXCEPT ![slot] = [mac |-> c, nip |-> a, expires |-> now + time]]

\* The lease has got a slot.
IsAdded(table, c, a) == \E i \in Slots : table[i].mac = c /\ table[i].nip = a

\* The first address of a set that goes with the earliest time, NoAddr if the
\* set is empty.
OldestAddr(table, S) ==
  LET Expires(a) == table[SlotOfNip(table, a)].expires
  IN  First({a \in S : \A b \in S : Expires(a) <= Expires(b)})

FreeAddrs(table) == {a \in Addrs : SlotOfNip(table, a) = 0}

\* Faulty: the oldest lease goes, wherever its station is.
FreeOrExpiredAny(table) ==
  IF FreeAddrs(table) # {} THEN First(FreeAddrs(table)) ELSE OldestAddr(table, Addrs)

\* Faulty: only a lease that is over is handed on, whoever held it.
FreeOrExpiredOver(table) ==
  IF FreeAddrs(table) # {} THEN First(FreeAddrs(table))
  ELSE OldestAddr(table, {a \in Addrs : Expired(table[SlotOfNip(table, a)])})

\* The first address nobody holds, else the address of the oldest lease,
\* expired or not, whose station is not associated.
FreeOrExpired(table) ==
  IF FreeAddrs(table) # {} THEN First(FreeAddrs(table))
  ELSE OldestAddr(table, {a \in Addrs : ~ Associated(table[SlotOfNip(table, a)].mac)})

\* Faulty: a station gets the address it wishes for, whoever has it.
OfferedAddrAtWish(table, i, wish) ==
  IF i # 0 THEN table[i].nip
  ELSE IF wish \in Addrs THEN wish ELSE FreeOrExpired(table)

\* The address send_offer puts into its reply to a station that has the lease
\* in slot i and wishes for an address.
OfferedAddr(table, i, wish) ==
  LET holder == SlotOfNip(table, wish)
  IN  IF i # 0 THEN table[i].nip
      ELSE IF wish \in Addrs /\ (holder = 0 \/ Expired(table[holder])) THEN wish
      ELSE FreeOrExpired(table)

-----------------------------------------------------------------------------
(* The stations, as RFC 2131 has them: a request and its reply share a     *)
(* transaction number, and a station takes no reply to an earlier one.     *)

\* The time left of a lease by the account of its station, which stops at Over.
Over == -1

Stations == [st : {"off", "init", "selecting", "requesting", "rebooting",
                   "bound", "renewing"},
             ip : Addrs \cup {NoAddr}]

Requests == [type : {"discover", "select", "reboot", "renew", "decline", "release"},
             ip : Addrs \cup {NoAddr}, fresh : BOOLEAN]

Replies == [type : {"offer", "ack", "nak"}, ip : Addrs \cup {NoAddr}]

Holds(c) == sta[c].st \in {"bound", "renewing"}

\* The station may use its address: its lease is not over by its own account.
Using(c) == Holds(c) /\ left[c] >= 0

Becomes(c, st, a, w, l) ==
  /\ sta' = [sta EXCEPT ![c] = [st |-> st, ip |-> a]]
  /\ wait' = [wait EXCEPT ![c] = w]
  /\ left' = [left EXCEPT ![c] = l]

Stale(s) == [i \in DOMAIN s |-> [s[i] EXCEPT !.fresh = FALSE]]

Send(c, queue, type, a) ==
  /\ Len(queue) < QueueLen
  /\ req' = [req EXCEPT ![c] = Append(queue, [type |-> type, ip |-> a, fresh |-> TRUE])]

\* A transaction ends: every reply to it comes to nothing.
Forgets(c) ==
  /\ rep' = [rep EXCEPT ![c] = None]
  /\ last' = IF last # None /\ last.mac = c THEN None ELSE last

Abandon(c) ==
  Forgets(c) /\ req' = [req EXCEPT ![c] = Stale(@)] /\ UNCHANGED <<now, leases>>

Begin(c, type, a) ==
  Forgets(c) /\ Send(c, Stale(req[c]), type, a) /\ UNCHANGED <<now, leases>>

\* The station may remember an address from an earlier association.
Join(c) ==
  /\ sta[c].st = "off"
  /\ \E a \in Addrs \cup {NoAddr} : Becomes(c, "init", a, Over, Over)
  /\ UNCHANGED <<now, leases, last, req, rep>>

\* A station out of reach does not use its address.
Leave(c) ==
  /\ sta[c].st # "off"
  /\ Becomes(c, "off", NoAddr, Over, Over)
  /\ Abandon(c)

\* DHCPDISCOVER, with or without an address the station would like to have.
Discover(c) ==
  /\ sta[c].st = "init"
  /\ \E wish \in {sta[c].ip, NoAddr} : Begin(c, "discover", wish)
  /\ Becomes(c, "selecting", NoAddr, Over, Over)

\* DHCPREQUEST for the address the station remembers (INIT-REBOOT).
Reboot(c) ==
  /\ sta[c].st = "init" /\ sta[c].ip # NoAddr
  /\ Begin(c, "reboot", sta[c].ip)
  /\ Becomes(c, "rebooting", sta[c].ip, LeaseTime, Over)

Renew(c) ==
  /\ sta[c].st = "bound"
  /\ Begin(c, "renew", sta[c].ip)
  /\ Becomes(c, "renewing", sta[c].ip, LeaseTime, left[c])

Release(c) ==
  /\ sta[c].st = "bound"
  /\ Begin(c, "release", sta[c].ip)
  /\ Becomes(c, "init", NoAddr, Over, Over)

\* The station finds the address it has been given in use by somebody else.
Decline(c) ==
  /\ sta[c].st = "bound"
  /\ Begin(c, "decline", sta[c].ip)
  /\ Becomes(c, "init", NoAddr, Over, Over)

\* The request sent again, with the same transaction number.
Resend(c) ==
  /\ CASE sta[c].st = "selecting"  -> Send(c, req[c], "discover", NoAddr)
       [] sta[c].st = "requesting" -> Send(c, req[c], "select", sta[c].ip)
       [] sta[c].st = "rebooting"  -> Send(c, req[c], "reboot", sta[c].ip)
       [] sta[c].st = "renewing"   -> Send(c, req[c], "renew", sta[c].ip)
       [] OTHER -> FALSE
  /\ UNCHANGED <<now, leases, last, sta, wait, left, rep>>

\* No answer for long enough: the station starts again.
GiveUp(c) ==
  /\ sta[c].st \in {"selecting", "requesting", "rebooting"}
  /\ Becomes(c, "init", NoAddr, Over, Over)
  /\ Abandon(c)

\* The lease has run out without a renewal.
LeaseEnds(c) ==
  /\ Holds(c) /\ ~ Using(c)
  /\ Becomes(c, "init", NoAddr, Over, Over)
  /\ Abandon(c)

\* The reply arrives.  A lease counts from the time the station first asked
\* for it.
TakeReply(c) ==
  /\ rep[c] # None
  /\ \/ /\ rep[c].type = "offer"
        /\ \/ Send(c, req[c], "select", rep[c].ip)
           \/ Len(req[c]) = QueueLen /\ UNCHANGED req  \* sent again later
        /\ Becomes(c, "requesting", rep[c].ip, LeaseTime, Over)
     \/ /\ rep[c].type = "ack"
        /\ Becomes(c, "bound", rep[c].ip, Over, wait[c])
        /\ UNCHANGED req
     \/ /\ rep[c].type = "nak"
        /\ Becomes(c, "init", NoAddr, Over, Over)
        /\ UNCHANGED req
  /\ Forgets(c)
  /\ UNCHANGED <<now, leases>>

Station(c) ==
  \/ Join(c) \/ Leave(c) \/ Discover(c) \/ Reboot(c) \/ Renew(c) \/ Release(c)
  \/ Decline(c) \/ Resend(c) \/ GiveUp(c) \/ LeaseEnds(c) \/ TakeReply(c)

\* A frame is lost on the air.
Lose(c) ==
  /\ \/ req[c] # << >> /\ req' = [req EXCEPT ![c] = Tail(@)] /\ UNCHANGED rep
     \/ rep[c] # None /\ rep' = [rep EXCEPT ![c] = None] /\ UNCHANGED req
  /\ UNCHANGED <<now, leases, last, sta, wait, left>>

Down(time) == IF time > Over THEN time - 1 ELSE time

\* A tick of ssv_time.  It counts milliseconds in 32 bits, and starts again
\* from zero when these are used up.
Tick ==
  /\ now' = (now + 1) % ClockPeriod
  /\ wait' = [c \in Clients |-> Down(wait[c])]
  /\ left' = [c \in Clients |-> Down(left[c])]
  /\ UNCHANGED <<leases, last, sta, req, rep>>

-----------------------------------------------------------------------------
(* udhcpd_run.                                                             *)

\* One turn of its loop: the first request of station c is received and
\* answered.  The handlers use the slot found at the start; clearlease_bymac,
\* which the Wi-Fi library calls in its own task for a station that has gone,
\* may empty that slot before they do.  Nothing else that happens in between
\* touches the table, and the clock does not tick before the turn ends.
Cleared(c) ==
  [i \in Slots |-> IF i = SlotOfMac(leases, c) THEN EmptyLease ELSE leases[i]]

\* Faulty: the lease of a station in reach may be cleared too.
TablesInReach(c) == {leases, Cleared(c)}

Tables(c) == {leases} \cup IF Associated(c) THEN {} ELSE {Cleared(c)}

Receives(c) ==
  /\ req[c] # << >>
  /\ now > 0 \/ AtZero
  /\ req' = [req EXCEPT ![c] = Tail(@)]

\* send_packet and safe_write: the reply travels to its station.  A second one
\* of a transaction is as good as lost while the first is under way.
Push(c, r) == rep' = [rep EXCEPT ![c] = IF @ = None THEN r ELSE @]

\* A reply nobody expects changes nothing when it arrives.
Expects(c, type) ==
  IF type = "offer" THEN sta[c].st = "selecting"
  ELSE sta[c].st \in {"requesting", "rebooting", "renewing"}

Reply(c, type, a) ==
  IF Head(req[c]).fresh /\ Expects(c, type)
    THEN /\ Push(c, [type |-> type, ip |-> a])
         /\ last' = [mac |-> c, type |-> type, ip |-> a]
    ELSE last' = None /\ UNCHANGED rep

\* A handler that gives up leaves pdhcp_pkt alone, and udhcpd_run sends again
\* what is in it, to where the request came from: to all, or to its station.
SendsOldReply(c) ==
  /\ UNCHANGED last
  /\ IF last # None /\ (Head(req[c]).type # "renew" \/ last.mac = c)
       THEN Push(last.mac, [type |-> last.type, ip |-> last.ip])
       ELSE UNCHANGED rep

Unmoved == UNCHANGED <<now, sta, wait, left>>

\* DHCPDISCOVER.  Without an address or a slot the offer is abandoned.
Offer(c) ==
  /\ Receives(c) /\ Head(req[c]).type = "discover"
  /\ \E table \in Tables(c) :
       LET a == OfferedAddr(table, SlotOfMac(leases, c), Head(req[c]).ip)
       IN  IF a = NoAddr THEN leases' = table /\ SendsOldReply(c)
           ELSE /\ leases' = AddLease(table, c, a, OfferTime)
                /\ IF IsAdded(leases', c, a) THEN Reply(c, "offer", a)
                   ELSE SendsOldReply(c)
  /\ Unmoved

\* lease && requested_nip == lease->lease_nip
IsLeased(table, c) ==
  SlotOfMac(leases, c) # 0 /\ table[SlotOfMac(leases, c)].nip = Head(req[c]).ip

\* DHCPREQUEST.  The result of add_lease is not looked at: the reply goes out
\* whether or not the lease has got a slot.  A station that renews without a lease gets no answer.
Request(c) ==
  /\ Receives(c) /\ Head(req[c]).type \in {"select", "reboot", "renew"}
  /\ \E table \in Tables(c) :
       \/ /\ IsLeased(table, c)
          /\ Reply(c, "ack", Head(req[c]).ip)
          /\ leases' = AddLease(table, c, Head(req[c]).ip, LeaseTime)
       \/ /\ ~ IsLeased(table, c) /\ Head(req[c]).type # "renew"
          /\ Reply(c, "nak", NoAddr)
          /\ leases' = table
       \/ /\ ~ IsLeased(table, c) /\ Head(req[c]).type = "renew"
          /\ leases' = table /\ UNCHANGED <<last, rep>>
  /\ Unmoved

\* DHCPDECLINE keeps the address from everybody, DHCPRELEASE ends the lease
\* with this tick.
Freed(c) ==
  /\ Receives(c) /\ Head(req[c]).type \in {"decline", "release"}
  /\ \E table \in Tables(c) :
       leases' =
         IF ~ IsLeased(table, c) THEN table
         ELSE [table EXCEPT ![SlotOfMac(leases, c)] =
                 IF Head(req[c]).type = "decline"
                   THEN [mac |-> None, nip |-> @.nip, expires |-> now + DeclineTime]
                   ELSE [@ EXCEPT !.expires = now]]
  /\ Unmoved /\ UNCHANGED <<last, rep>>

\* DHCPINFORM of a station that has its address, from request to answer: no
\* lease depends on it, but the reply takes the place of the one before.
Inform(c) ==
  /\ Holds(c)
  /\ last' = None
  /\ Unmoved /\ UNCHANGED <<now, leases, req, rep>>

\* OS_MemAlloc fails in send_offer, send_ACK or send_NAK.
NoMemory(c) ==
  /\ Receives(c)
  /\ Head(req[c]).type \in {"discover", "select", "reboot", "renew"}
  /\ Head(req[c]).type = "renew" => IsLeased(leases, c)
  /\ SendsOldReply(c)
  /\ Unmoved /\ UNCHANGED <<now, leases>>

Serve(c) == Offer(c) \/ Request(c) \/ Freed(c)

\* clearlease_bymac between two requests.
ClearLeaseByMac(c) ==
  /\ ~ Associated(c) /\ SlotOfMac(leases, c) # 0
  /\ leases' = Cleared(c)
  /\ Unmoved /\ UNCHANGED <<last, req, rep>>

\* The access point goes down and comes up again (udhcpd_stop, udhcpd_start):
\* the table and the socket are new, and the stations have to join again.
Restart ==
  /\ UNCHANGED now
  /\ leases' = [i \in Slots |-> EmptyLease]
  /\ last' = None
  /\ sta' = [c \in Clients |-> [st |-> "off", ip |-> NoAddr]]
  /\ wait' = [c \in Clients |-> Over] /\ left' = [c \in Clients |-> Over]
  /\ req' = [c \in Clients |-> << >>]
  /\ rep' = [c \in Clients |-> None]

Init ==
  /\ now \in 0 .. ClockPeriod - 1
  /\ leases = [i \in Slots |-> EmptyLease]
  /\ last = None
  /\ sta = [c \in Clients |-> [st |-> "off", ip |-> NoAddr]]
  /\ wait = [c \in Clients |-> Over] /\ left = [c \in Clients |-> Over]
  /\ req = [c \in Clients |-> << >>]
  /\ rep = [c \in Clients |-> None]

Next ==
  \/ Restart \/ Tick
  \/ \E c \in Clients :
       \/ Serve(c) \/ Inform(c) \/ NoMemory(c) \/ ClearLeaseByMac(c)
       \/ Station(c) \/ Lose(c)

Spec == Init /\ [][Next]_vars

TypeOK ==
  /\ now \in 0 .. ClockPeriod - 1
  /\ leases \in [Slots -> [mac : Clients \cup {None}, nip : Addrs \cup {NoAddr},
                           expires : Nat]]
  /\ last = None \/ last \in [mac : Clients, type : {"offer", "ack", "nak"},
                              ip : Addrs \cup {NoAddr}]
  /\ sta \in [Clients -> Stations]
  /\ wait \in [Clients -> Over .. LeaseTime] /\ left \in [Clients -> Over .. LeaseTime]
  /\ req \in [Clients -> Seq(Requests)] /\ rep \in [Clients -> Replies \cup {None}]
  /\ \A c \in Clients : Len(req[c]) <= QueueLen

\* No station has two leases and no address is leased twice, although leases
\* are added over old ones, handed on, declined, and cleared from another task.
LeasesDistinct ==
  \A i, j \in Slots : i # j =>
    /\ leases[i].mac # None => leases[i].mac # leases[j].mac
    /\ leases[i].nip # NoAddr => leases[i].nip # leases[j].nip

\* No two stations use one address at a time, whatever is lost, comes late or
\* is sent again, and although the server hands out addresses whose lease is
\* not over.
NoDoubleUse ==
  \A c, d \in Clients : c # d /\ Using(c) /\ Using(d) => sta[c].ip # sta[d].ip

\* A station that is in reach is never refused an address, as long as there
\* are no more stations than addresses: send_offer finds an address and a slot
\* for it, whatever the others were given, keep, declined or left behind, and
\* although leases look valid again when the clock has started again.  Only
\* while ssv_time is zero there is no slot: not even an unused one is over.
NeverRefused ==
  now > 0 => \A c \in Clients : Associated(c) =>
    \A wish \in Addrs \cup {NoAddr} :
      LET a == OfferedAddr(leases, SlotOfMac(leases, c), wish)
      IN  a # NoAddr /\ IsAdded(AddLease(leases, c, a, OfferTime), c, a)

\* "ACK it, and bump lease expiration time": a station that is about to hear
\* that its address is granted has an entry for it.
AckedIsLeased ==
  \A c \in Clients : rep[c] # None /\ rep[c].type = "ack" /\ wait[c] >= 0 =>
    \E i \in Slots : leases[i].mac = c /\ leases[i].nip = rep[c].ip

\* A lease that is not over, of a station in reach, goes to nobody else.
LeaseKept ==
  [][\A i, j \in Slots :
       /\ Associated(leases[i].mac) /\ ~ Expired(leases[i])
       /\ leases'[j].nip = leases[i].nip
       => leases'[j].mac \in {leases[i].mac, None}]_vars

\* The table and the stations implement AddressPool: an entry is a booking, to
\* which neither its time nor the frames under way matter.
Booked == {<<leases[i].mac, leases[i].nip>> : i \in {j \in Slots : leases[j].mac # None}}
Used   == {<<c, sta[c].ip>> : c \in {d \in Clients : Using(d)}}

Pool == INSTANCE AddressPool
          WITH Stations <- Clients, Addresses <- Addrs, book <- Booked, use <- Used

\* A station begins to use an address only while it has an entry for it, and
\* no entry is cleared, handed on or run over while its station uses it:
\* whatever is lost, late or repeated, and whoever clears the table meanwhile.
ImplementsPool == Pool!Spec
=============================================================================
