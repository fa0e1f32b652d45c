---------------------------- MODULE SockMgrProofs ---------------------------
(***************************************************************************)
(* Proofs about SockMgr, for any descriptors and ports.  In the first      *)
(* part, with and without commands in the middle of a round: in a build    *)
(* that puts something large behind the list heads, the lists stay sorted  *)
(* and hold open sockets only.                                             *)
(***************************************************************************)
EXTENDS SockMgr, SequenceTheorems, WellFoundedInduction, TLAPS

\* What is on a list is open.
ListedOpen == Listed \subseteq open

\* The socket a command is about to enter is open and on neither list.
Fresh == cli.at \in {"client", "server"} => cli.fd \in open \ Listed

\* The loop variable of a walk, and the item kept back to be closed, are on
\* the list; the second lies before the first.  Without recv_task there is no
\* walk.
InWalk(list) ==
  /\ item # End => item \in Members(list)
  /\ closeitem # End => closeitem \in Members(list)
  /\ item # End /\ closeitem # End => closeitem < item
Walking ==
  /\ pc = "listen" => InWalk(listens)
  /\ pc = "normal" => InWalk(normals)
  /\ pc = "recv" => item \in Members(normals)
  /\ pc = "expire listens" /\ item # End => item \in Members(listens)
  /\ pc = "expire normals" /\ item # End => item \in Members(normals)
  /\ pc \notin {"listen", "normal"} => closeitem = End
  /\ inst \/ pc = "off"

IInv == TypeOK /\ Sorted /\ ListedOpen /\ Fresh /\ Walking

-----------------------------------------------------------------------------
(* Lists.                                                                  *)

\* A set of naturals has a least element.
LEMMA Least ==
  ASSUME NEW T, T \subseteq Nat, T # {}
  PROVE  \E n \in T : \A m \in T : n <= m
<1> DEFINE R == OpToRel(<, Nat)
<1>1. IsWellFoundedOn(R, Nat)
  BY NatLessThanWellFounded
<1>2. PICK n \in T : \A m \in T : ~ (<<m, n>> \in R)
  <2> HIDE DEF R
  <2> QED BY <1>1, WFMin
<1>3. \A m \in T : ~ (m < n)
  BY <1>2 DEF OpToRel
<1> QED
  BY <1>3

\* alloc_socket finds a free descriptor if there is one.
LEMMA LowestFree ==
  ASSUME NEW S, S \subseteq Fds, S # {}
  PROVE  Lowest(S) \in S
<1>1. \E f \in S : \A g \in S : f <= g
  BY SockMgrAssumption, Least
<1> QED
  BY <1>1 DEF Lowest

\* One element put into a sequence.
IsPutAt(r, list, f, at) ==
  /\ r \in Seq(Fds) /\ Len(r) = Len(list) + 1 /\ DOMAIN r = 1 .. Len(list) + 1
  /\ \A i \in 1 .. Len(list) + 1 :
       r[i] = IF i < at THEN list[i] ELSE IF i = at THEN f ELSE list[i - 1]

LEMMA PutAtItems ==
  ASSUME NEW list \in Seq(Fds), NEW f \in Fds, NEW at \in 1 .. Len(list) + 1,
         NEW r, r = PutAt(list, f, at)
  PROVE  IsPutAt(r, list, f, at)
<1> DEFINE a == SubSeq(list, 1, at - 1)
           b == SubSeq(list, at, Len(list))
<1>1. a \in Seq(Fds) /\ Len(a) = at - 1 /\ \A i \in 1 .. at - 1 : a[i] = list[i]
  OBVIOUS
<1>2. /\ b \in Seq(Fds) /\ Len(b) = Len(list) - at + 1
      /\ \A i \in 1 .. Len(list) - at + 1 : b[i] = list[at + i - 1]
  OBVIOUS
<1>3. <<f>> \in Seq(Fds) /\ Len(<<f>>) = 1 /\ <<f>>[1] = f
  OBVIOUS
<1>r. \E c : c = a \o <<f>> /\ r = c \o b
  BY DEF PutAt
<1> HIDE DEF a, b
<1>c. PICK c : c = a \o <<f>> /\ r = c \o b
  BY <1>r
<1>4. /\ c \in Seq(Fds) /\ Len(c) = at
      /\ \A i \in 1 .. at : c[i] = IF i < at THEN list[i] ELSE f
  BY <1>1, <1>3, <1>c
<1>5. r \in Seq(Fds) /\ Len(r) = Len(list) + 1
  BY <1>2, <1>4, <1>c, ConcatProperties
<1>6. \A i \in 1 .. Len(list) + 1 : r[i] = IF i <= at THEN c[i] ELSE b[i - at]
  <2>1. \A i \in 1 .. Len(c) + Len(b) :
          (c \o b)[i] = IF i <= Len(c) THEN c[i] ELSE b[i - Len(c)]
    BY <1>2, <1>4, ConcatProperties
  <2>2. Len(c) + Len(b) = Len(list) + 1
    BY <1>2, <1>4
  <2> QED
    BY <1>4, <1>c, <2>1, <2>2
<1>7. \A s \in Seq(Fds) : DOMAIN s = 1 .. Len(s)
  OBVIOUS
<1>8. DOMAIN r = 1 .. Len(list) + 1
  BY <1>5, <1>7
<1>9. ASSUME NEW i \in 1 .. Len(list) + 1
      PROVE  r[i] = IF i < at THEN list[i] ELSE IF i = at THEN f ELSE list[i - 1]
  <2>1. CASE i <= at
    <3>1. i \in 1 .. at /\ r[i] = c[i]
      BY <1>6, <2>1
    <3> QED
      BY <1>4, <2>1, <3>1
  <2>2. CASE i > at
    <3>1. i - at \in 1 .. Len(list) - at + 1 /\ r[i] = b[i - at]
      BY <1>6, <2>2
    <3>2. b[i - at] = list[at + (i - at) - 1] /\ at + (i - at) - 1 = i - 1
      BY <1>2, <3>1
    <3> QED
      BY <2>2, <3>1, <3>2
  <2> QED
    BY <2>1, <2>2
<1> QED
  BY <1>5, <1>8, <1>9 DEF IsPutAt

\* One element taken out.
LEMMA TakeAtItems ==
  ASSUME NEW list \in Seq(Fds), NEW at \in 1 .. Len(list), NEW r,
         r = SubSeq(list, 1, at - 1) \o SubSeq(list, at + 1, Len(list))
  PROVE  /\ r \in Seq(Fds) /\ Len(r) = Len(list) - 1 /\ DOMAIN r = 1 .. Len(list) - 1
         /\ \A i \in 1 .. Len(list) - 1 : r[i] = IF i < at THEN list[i] ELSE list[i + 1]
<1> DEFINE a == SubSeq(list, 1, at - 1)
           b == SubSeq(list, at + 1, Len(list))
<1>1. a \in Seq(Fds) /\ Len(a) = at - 1 /\ \A i \in 1 .. at - 1 : a[i] = list[i]
  OBVIOUS
<1>2. /\ b \in Seq(Fds) /\ Len(b) = Len(list) - at
      /\ \A i \in 1 .. Len(list) - at : b[i] = list[at + i]
  OBVIOUS
<1>r. r = a \o b
  OBVIOUS
<1> HIDE DEF a, b
<1>3. a \o b \in Seq(Fds) /\ Len(a \o b) = Len(a) + Len(b)
  BY <1>1, <1>2, ConcatProperties
<1>4. Len(a \o b) = Len(list) - 1
  BY <1>1, <1>2, <1>3
<1>5. \A i \in 1 .. Len(list) - 1 : (a \o b)[i] = IF i < at THEN list[i] ELSE list[i + 1]
  BY <1>1, <1>2
<1>6. \A s \in Seq(Fds) : DOMAIN s = 1 .. Len(s)
  OBVIOUS
<1>7. r \in Seq(Fds) /\ Len(r) = Len(list) - 1
  BY <1>r, <1>3, <1>4
<1>8. DOMAIN r = 1 .. Len(list) - 1
  BY <1>6, <1>7
<1>9. \A i \in 1 .. Len(list) - 1 : r[i] = IF i < at THEN list[i] ELSE list[i + 1]
  BY <1>r, <1>5, Zenon
<1> QED
  BY <1>7, <1>8, <1>9

LEMMA ItemsAreNaturals ==
  ASSUME NEW list \in Seq(Fds)
  PROVE  Len(list) \in Nat /\ \A i \in 1 .. Len(list) : list[i] \in Fds /\ list[i] \in Nat
<1>1. Len(list) \in Nat /\ \A i \in 1 .. Len(list) : list[i] \in Fds
  OBVIOUS
<1>2. \A g \in Fds : g \in Nat
  BY SockMgrAssumption
<1> QED
  BY <1>1, <1>2

\* update_new_sd keeps a sorted list sorted, whatever its length.
LEMMA InsertSorted ==
  ASSUME HeadAbove, NEW list \in Seq(Fds), NEW f \in Fds,
         Increasing(list), f \notin Members(list)
  PROVE  /\ Insert(list, f) \in Seq(Fds)
         /\ Increasing(Insert(list, f))
         /\ Members(Insert(list, f)) = Members(list) \union {f}
<1> DEFINE n == Len(list)
           T == {i \in 1 .. n + 1 : i <= n => list[i] >= f}
           Stops(i) == /\ i <= n => list[i] >= f
                       /\ \A j \in 1 .. i - 1 : list[j] < f
           stop == Stop(list, f)
<1>1. f \in Nat /\ \A k \in 1 .. n : list[k] \in Nat
  BY SockMgrAssumption, ItemsAreNaturals
<1>2. n \in Nat /\ n + 1 \in T /\ T \subseteq Nat
  OBVIOUS
<1>3. PICK i \in T : \A m \in T : i <= m
  BY <1>2, Least
<1>4. \A j \in 1 .. i - 1 : list[j] < f
  <2> SUFFICES ASSUME NEW j \in 1 .. i - 1 PROVE list[j] < f
    OBVIOUS
  <2>1. j \in 1 .. n /\ j \notin T
    BY <1>2, <1>3
  <2>2. list[j] \in Nat /\ f \in Nat
    BY <1>1, <2>1
  <2> QED
    BY <2>1, <2>2, <1>2
<1>5. i \in 1 .. n + 1 /\ Stops(i)
  BY <1>4
<1>6. stop \in 1 .. n + 1 /\ Stops(stop)
  BY <1>5 DEF Stop
<1>0. Insert(list, f) = IF stop > n THEN PutAt(list, f, IF HeadAbove THEN stop ELSE 1)
                        ELSE PutAt(list, f, IF list[stop] = f THEN stop + 1 ELSE stop)
  BY DEF Insert
<1> HIDE DEF stop
<1>7. Insert(list, f) = PutAt(list, f, stop)
  <2>1. CASE stop > n
    BY <2>1, <1>0
  <2>2. CASE ~ (stop > n)
    <3>1. stop \in DOMAIN list
      BY <2>2, <1>2, <1>6
    <3>2. list[stop] # f
      BY <3>1 DEF Members
    <3> QED
      BY <2>2, <3>2, <1>0
  <2> QED
    BY <2>1, <2>2
<1> DEFINE r == Insert(list, f)
<1>8. /\ r \in Seq(Fds) /\ Len(r) = n + 1 /\ DOMAIN r = 1 .. n + 1
      /\ \A k \in 1 .. n + 1 :
           r[k] = IF k < stop THEN list[k] ELSE IF k = stop THEN f ELSE list[k - 1]
  <2> HIDE DEF r
  <2>1. r = PutAt(list, f, stop)
    BY <1>7 DEF r
  <2>2. stop \in 1 .. Len(list) + 1
    BY <1>6
  <2> HIDE DEF n
  <2>3. /\ r \in Seq(Fds) /\ Len(r) = Len(list) + 1 /\ DOMAIN r = 1 .. Len(list) + 1
        /\ \A k \in 1 .. Len(list) + 1 :
             r[k] = IF k < stop THEN list[k] ELSE IF k = stop THEN f ELSE list[k - 1]
    <3>1. IsPutAt(r, list, f, stop)
      BY <2>1, <2>2, PutAtItems
    <3> QED
      BY <3>1, Zenon DEF IsPutAt
  <2> QED
    BY <2>3, Zenon DEF n
<1> HIDE DEF r
<1>9. \A k \in 1 .. n : (k < stop => list[k] < f) /\ (k >= stop => list[k] > f)
  <2> SUFFICES ASSUME NEW k \in 1 .. n
               PROVE  (k < stop => list[k] < f) /\ (k >= stop => list[k] > f)
    OBVIOUS
  <2>1. k < stop => list[k] < f
    BY <1>6
  <2>2. list[k] \in Nat /\ f \in Nat /\ list[k] # f
    BY <1>1 DEF Members
  <2>3. k >= stop => list[k] >= f
    <3> SUFFICES ASSUME k >= stop PROVE list[k] >= f
      OBVIOUS
    <3>1. stop \in 1 .. n /\ list[stop] >= f /\ list[stop] \in Nat
      BY <1>6, <1>1
    <3>2. k = stop \/ list[stop] < list[k]
      BY <3>1 DEF Increasing
    <3> QED
      BY <3>1, <3>2, <2>2
  <2> QED
    BY <2>1, <2>2, <2>3
<1>10. Increasing(r)
  <2> SUFFICES ASSUME NEW x \in 1 .. n + 1, NEW y \in 1 .. n + 1, x < y
               PROVE  r[x] < r[y]
    BY <1>8 DEF Increasing
  <2>1. CASE x < stop /\ y < stop
    BY <2>1, <1>6, <1>8 DEF Increasing
  <2>2. CASE x < stop /\ y = stop
    BY <2>2, <1>6, <1>8, <1>9
  <2>3. CASE x < stop /\ y > stop
    <3>1. r[x] = list[x] /\ r[y] = list[y - 1] /\ x \in 1 .. n /\ y - 1 \in 1 .. n
      BY <2>3, <1>6, <1>8
    <3>2. list[x] < f /\ list[y - 1] > f
      BY <2>3, <3>1, <1>6, <1>9
    <3>3. list[x] \in Nat /\ list[y - 1] \in Nat /\ f \in Nat
      BY <1>1, <3>1
    <3> QED
      BY <3>1, <3>2, <3>3
  <2>4. CASE x = stop
    <3>1. r[x] = f /\ r[y] = list[y - 1] /\ y - 1 \in 1 .. n
      BY <2>4, <1>6, <1>8
    <3> QED
      BY <2>4, <3>1, <1>1, <1>6, <1>9
  <2>5. CASE x > stop
    <3>1. r[x] = list[x - 1] /\ r[y] = list[y - 1] /\ x - 1 \in 1 .. n /\ y - 1 \in 1 .. n
      BY <2>5, <1>6, <1>8
    <3> QED
      BY <3>1 DEF Increasing
  <2> QED
    BY <2>1, <2>2, <2>3, <2>4, <2>5, <1>6
<1>11. Members(r) = Members(list) \union {f}
  <2>1. \A k \in 1 .. n + 1 : r[k] \in Members(list) \union {f}
    <3> SUFFICES ASSUME NEW k \in 1 .. n + 1, k # stop PROVE r[k] \in Members(list)
      BY <1>6, <1>8
    <3>1. CASE k < stop
      <4>1. k \in DOMAIN list /\ r[k] = list[k]
        BY <3>1, <1>2, <1>6, <1>8
      <4> QED
        BY <4>1 DEF Members
    <3>2. CASE k > stop
      <4>1. k - 1 \in DOMAIN list /\ r[k] = list[k - 1]
        BY <3>2, <1>2, <1>6, <1>8
      <4> QED
        BY <4>1 DEF Members
    <3> QED
      BY <3>1, <3>2, <1>6
  <2>2. f \in Members(r)
    <3>1. stop \in DOMAIN r /\ r[stop] = f
      BY <1>6, <1>8
    <3> QED
      BY <3>1 DEF Members
  <2>3. \A k \in 1 .. n : list[k] \in Members(r)
    <3> SUFFICES ASSUME NEW k \in 1 .. n PROVE list[k] \in Members(r)
      OBVIOUS
    <3>1. CASE k < stop
      BY <3>1, <1>6, <1>8 DEF Members
    <3>2. CASE k >= stop
      <4>1. k + 1 \in 1 .. n + 1 /\ r[k + 1] = list[k]
        BY <3>2, <1>6, <1>8
      <4> QED
        BY <4>1, <1>8 DEF Members
    <3> QED
      BY <3>1, <3>2, <1>6
  <2> QED
    BY <2>1, <2>2, <2>3, <1>8 DEF Members
<1> QED
  BY <1>8, <1>10, <1>11 DEF r

\* list_q_remove takes out what it is given and leaves the order.
LEMMA WithoutSorted ==
  ASSUME NEW list \in Seq(Fds), NEW f, Increasing(list)
  PROVE  /\ Without(list, f) \in Seq(Fds)
         /\ Increasing(Without(list, f))
         /\ Members(Without(list, f)) = Members(list) \ {f}
<1>1. CASE f \notin Members(list)
  BY <1>1 DEF Without
<1>2. CASE f \in Members(list)
  <2> DEFINE n == Len(list)
             at == CHOOSE i \in DOMAIN list : list[i] = f
             r == Without(list, f)
  <2>1. n \in Nat /\ at \in 1 .. n /\ list[at] = f
    BY <1>2 DEF Members
  <2>2. r = SubSeq(list, 1, at - 1) \o SubSeq(list, at + 1, n)
    BY <1>2 DEF Without
  <2> HIDE DEF at, r
  <2>3. /\ r \in Seq(Fds) /\ Len(r) = n - 1 /\ DOMAIN r = 1 .. n - 1
        /\ \A i \in 1 .. n - 1 : r[i] = IF i < at THEN list[i] ELSE list[i + 1]
    BY <2>1, <2>2, TakeAtItems
  <2>4. Increasing(r)
    <3> SUFFICES ASSUME NEW x \in 1 .. n - 1, NEW y \in 1 .. n - 1, x < y
                 PROVE  r[x] < r[y]
      BY <2>1, <2>3 DEF Increasing
    <3>1. PICK p \in 1 .. n, q \in 1 .. n : p < q /\ r[x] = list[p] /\ r[y] = list[q]
      <4>1. CASE x < at /\ y < at
        <5>1. x \in 1 .. n /\ y \in 1 .. n /\ r[x] = list[x] /\ r[y] = list[y]
          BY <4>1, <2>1, <2>3
        <5> QED
          BY <5>1
      <4>2. CASE x < at /\ y >= at
        <5>1. x \in 1 .. n /\ y + 1 \in 1 .. n /\ x < y + 1 /\ r[x] = list[x] /\ r[y] = list[y + 1]
          BY <4>2, <2>1, <2>3
        <5> QED
          BY <5>1
      <4>3. CASE x >= at /\ y >= at
        <5>1. /\ x + 1 \in 1 .. n /\ y + 1 \in 1 .. n /\ x + 1 < y + 1
              /\ r[x] = list[x + 1] /\ r[y] = list[y + 1]
          BY <4>3, <2>1, <2>3
        <5> QED
          BY <5>1
      <4> QED
        BY <4>1, <4>2, <4>3, <2>1
    <3> QED
      BY <3>1 DEF Increasing
  <2>5. \A i \in 1 .. n : i # at => list[i] # f
    <3> SUFFICES ASSUME NEW i \in 1 .. n, i # at PROVE list[i] # list[at]
      BY <2>1
    <3>1. list[i] \in Nat /\ list[at] \in Nat
      BY <2>1, ItemsAreNaturals
    <3> QED
      BY <3>1, <2>1 DEF Increasing
  <2>6. Members(r) \subseteq Members(list) \ {f}
    <3> SUFFICES ASSUME NEW i \in 1 .. n - 1 PROVE r[i] \in Members(list) \ {f}
      BY <2>1, <2>3 DEF Members
    <3>1. CASE i < at
      BY <3>1, <2>1, <2>3, <2>5 DEF Members
    <3>2. CASE i >= at
      BY <3>2, <2>1, <2>3, <2>5 DEF Members
    <3> QED
      BY <3>1, <3>2, <2>1
  <2>7. Members(list) \ {f} \subseteq Members(r)
    <3> SUFFICES ASSUME NEW i \in 1 .. n, i # at PROVE list[i] \in Members(r)
      BY <2>1 DEF Members
    <3>1. CASE i < at
      <4>1. i \in 1 .. n - 1 /\ r[i] = list[i]
        BY <3>1, <2>1, <2>3
      <4> QED
        BY <4>1, <2>3 DEF Members
    <3>2. CASE i > at
      <4>1. i - 1 \in 1 .. n - 1 /\ r[i - 1] = list[i]
        BY <3>2, <2>1, <2>3
      <4> QED
        BY <4>1, <2>3 DEF Members
    <3> QED
      BY <3>1, <3>2, <2>1
  <2> QED
    BY <2>3, <2>4, <2>6, <2>7 DEF r
<1> QED
  BY <1>1, <1>2

\* item->next lies behind item.
LEMMA AfterAbove ==
  ASSUME NEW list \in Seq(Fds), Increasing(list), NEW f \in Members(list)
  PROVE  After(list, f) = End \/ (After(list, f) \in Members(list) /\ f < After(list, f))
<1> DEFINE at == CHOOSE i \in DOMAIN list : list[i] = f
<1>1. at \in 1 .. Len(list) /\ list[at] = f
  BY DEF Members
<1>2. After(list, f) = IF at = Len(list) THEN End ELSE list[at + 1]
  BY DEF After
<1> HIDE DEF at
<1>3. CASE at = Len(list)
  BY <1>2, <1>3
<1>4. CASE at # Len(list)
  <2>1. at + 1 \in 1 .. Len(list)
    BY <1>1, <1>4
  <2> QED
    BY <1>1, <1>2, <1>4, <2>1 DEF Increasing, Members
<1> QED
  BY <1>3, <1>4

LEMMA FirstMember ==
  ASSUME NEW list \in Seq(Fds)
  PROVE  First(list) = End \/ First(list) \in Members(list)
BY DEF First, Members

\* Descriptors are naturals, and the list head is none.
LEMMA MembersAreFds ==
  ASSUME NEW list \in Seq(Fds)
  PROVE  Members(list) \subseteq Fds /\ End \notin Members(list) /\ End \notin Fds
BY SockMgrAssumption DEF Members, End

\* The ends of the lists and the maximum are descriptors or nothing.
LEMMA MaxIsFd ==
  ASSUME TypeOK
  PROVE  UpdatedMax \in Fds \union {End}
<1>1. \A list \in Seq(Fds) : Last(list) \in Fds \union {End}
  <2> SUFFICES ASSUME NEW list \in Seq(Fds) PROVE Last(list) \in Fds \union {End}
    OBVIOUS
  <2>1. CASE list = << >>
    BY <2>1 DEF Last
  <2>2. CASE list # << >>
    <3>1. Len(list) \in 1 .. Len(list)
      BY <2>2
    <3>2. list[Len(list)] \in Fds
      BY <3>1, ItemsAreNaturals
    <3> QED
      BY <2>2, <3>2 DEF Last
  <2> QED
    BY <2>1, <2>2
<1>2. \A a, b \in Fds \union {End} : Larger(a, b) \in Fds \union {End}
  BY DEF Larger
<1> QED
  BY <1>1, <1>2 DEF UpdatedMax, TypeOK

-----------------------------------------------------------------------------
(* The invariant.                                                          *)

\* What closing writes has the right type.
LEMMA ClosedTypes ==
  ASSUME TypeOK, NEW S
  PROVE  /\ Quiet(S) \in [Fds -> {"quiet", "data", "gone"}]
         /\ Unbound(S) \in [Fds -> Ports \union {0}]
<1>1. net \in [Fds -> {"quiet", "data", "gone"}] /\ port \in [Fds -> Ports \union {0}]
  BY DEF TypeOK
<1>2. \A f \in Fds : (IF f \in S THEN "quiet" ELSE net[f]) \in {"quiet", "data", "gone"}
  BY <1>1
<1>3. \A f \in Fds : (IF f \in S THEN 0 ELSE port[f]) \in Ports \union {0}
  BY <1>1
<1> QED
  BY <1>2, <1>3 DEF Quiet, Unbound

\* A step of recv_task in a round has kept the types.
LEMMA RoundTypes ==
  ASSUME TypeOK, UNCHANGED <<marked, max_sd, st, inst, cli>>,
         listens' \in Seq(Fds), normals' \in Seq(Fds),
         open' \subseteq Fds, asked' \subseteq Fds, watched' \subseteq Fds, r_set' \subseteq Fds,
         net' \in [Fds -> {"quiet", "data", "gone"}], port' \in [Fds -> Ports \union {0}],
         item' \in Fds \union {End}, closeitem' \in Fds \union {End}, pc' \in TaskPcs
  PROVE  TypeOK'
BY DEF TypeOK

LEMMA Facts ==
  ASSUME IInv
  PROVE  /\ listens \in Seq(Fds) /\ normals \in Seq(Fds)
         /\ Increasing(listens) /\ Increasing(normals)
         /\ Members(listens) \subseteq open /\ Members(normals) \subseteq open
         /\ Members(listens) \intersect Members(normals) = {}
         /\ open \subseteq Fds /\ End \notin open /\ End \notin Fds
         /\ \A f \in Fds : f \in Nat
<1>1. \A f \in Fds : f \in Nat
  BY SockMgrAssumption
<1>2. End \notin Fds
  BY <1>1 DEF End
<1> QED
  BY <1>1, <1>2 DEF IInv, TypeOK, Sorted, ListedOpen, Listed

\* A step that takes sockets off the lists before or as it closes them, and no
\* others, and leaves the CLI task alone.
LEMMA Shrinks ==
  ASSUME IInv, TypeOK', Walking', UNCHANGED cli,
         Increasing(listens'), Increasing(normals'),
         Members(listens') \subseteq Members(listens),
         Members(normals') \subseteq Members(normals),
         Members(listens') \union Members(normals') \subseteq open',
         open \ Listed \subseteq open'
  PROVE  IInv'
<1>1. Sorted'
  BY Facts DEF Sorted
<1>2. ListedOpen'
  BY DEF ListedOpen, Listed
<1>3. Fresh'
  BY DEF IInv, Fresh, Listed
<1> QED
  BY <1>1, <1>2, <1>3 DEF IInv

\* A step that leaves the lists, the open sockets and the CLI task alone.
LEMMA Stays ==
  ASSUME IInv, TypeOK', Walking', UNCHANGED <<listens, normals, open, cli>>
  PROVE  IInv'
BY Facts, Shrinks

\* A step that leaves the walk alone and takes nothing off the lists it is on.
LEMMA WalkStays ==
  ASSUME IInv, UNCHANGED <<pc, inst, item, closeitem>>,
         Members(listens) \subseteq Members(listens'),
         Members(normals) \subseteq Members(normals')
  PROVE  Walking'
BY DEF IInv, Walking, InWalk

LEMMA InitIInv == Init => IInv
<1> SUFFICES ASSUME Init PROVE IInv
  OBVIOUS
<1>1. TypeOK
  <2>1. << >> \in Seq(Fds)
    OBVIOUS
  <2>2. /\ net \in [Fds -> {"quiet", "data", "gone"}]
        /\ port \in [Fds -> Ports \union {0}]
    BY DEF Init
  <2> QED
    BY <2>1, <2>2 DEF Init, TypeOK, End, TaskPcs, CliPcs
<1>2. Sorted /\ Listed = {}
  BY DEF Init, Sorted, Increasing, Members, Listed
<1>3. ListedOpen /\ Fresh
  BY <1>2 DEF Init, ListedOpen, Fresh
<1>4. Walking
  BY DEF Init, Walking
<1> QED
  BY <1>1, <1>2, <1>3, <1>4 DEF IInv

LEMMA SocketIInv == IInv /\ Socket => IInv'
<1> SUFFICES ASSUME IInv, Socket PROVE IInv'
  OBVIOUS
<1> DEFINE f == Lowest(Fds \ open)
<1>1. f \in Fds \ open
  <2>1. Fds \ open # {}
    BY Facts DEF Socket
  <2> QED
    BY <2>1, LowestFree
<1> HIDE DEF f
<1>2. /\ open' = open \union {f} /\ net' = Quiet({f})
      /\ \E at \in {"client", "server"} : cli' = [at |-> at, fd |-> f]
  BY DEF Socket, Goes, f
<1>3. UNCHANGED <<listens, normals, port, watched, marked, max_sd, st, inst, pc, r_set,
                  item, closeitem, asked>>
  BY DEF Socket, lists, sets, task, round
<1>4. TypeOK'
  <2>1. TypeOK
    BY DEF IInv
  <2>2. net' \in [Fds -> {"quiet", "data", "gone"}]
    BY <1>2, <2>1, ClosedTypes
  <2>3. /\ cli' \in [at : CliPcs,
                     fd : Fds \union {End}]
        /\ open' \subseteq Fds
    <3>1. PICK at \in {"client", "server"} : cli' = [at |-> at, fd |-> f]
      BY <1>2
    <3>2. f \in Fds /\ open' \subseteq Fds
      BY <1>1, <1>2, <2>1 DEF TypeOK
    <3> QED
      BY <3>1, <3>2 DEF CliPcs
  <2> QED
    BY <1>3, <2>1, <2>2, <2>3 DEF TypeOK
<1>5. Sorted' /\ ListedOpen'
  BY <1>2, <1>3 DEF IInv, Sorted, ListedOpen, Listed
<1>6. Fresh'
  BY <1>1, <1>2, <1>3 DEF IInv, Fresh, ListedOpen, Listed
<1>7. Walking'
  BY <1>3, WalkStays
<1> QED
  BY <1>4, <1>5, <1>6, <1>7 DEF IInv

LEMMA OpenFailsIInv == IInv /\ OpenFails => IInv'
<1> SUFFICES ASSUME IInv, OpenFails PROVE IInv'
  OBVIOUS
<1>1. /\ open' = open \ {cli.fd} /\ cli' = [at |-> "prompt", fd |-> End]
      /\ cli.fd \notin Listed
      /\ UNCHANGED <<listens, normals, port, watched, marked, max_sd, st, inst, pc, r_set,
                     item, closeitem, asked, net>>
  BY DEF OpenFails, Goes, lists, sets, task, round, IInv, Fresh
<1>2. TypeOK'
  BY <1>1 DEF IInv, TypeOK, CliPcs
<1>3. Sorted' /\ ListedOpen' /\ Fresh'
  BY <1>1 DEF IInv, Sorted, ListedOpen, Fresh, Listed
<1>4. Walking'
  BY <1>1, WalkStays
<1> QED
  BY <1>2, <1>3, <1>4 DEF IInv

\* What both kinds of sockets share when they are entered.
LEMMA WatchTypes ==
  ASSUME IInv, Watch, cli.fd \in Fds
  PROVE  /\ watched' \subseteq Fds /\ inst' = TRUE
         /\ pc' = pc \/ (pc' = "start" /\ pc = "off")
         /\ cli' = [at |-> "prompt", fd |-> End]
         /\ UNCHANGED <<marked, max_sd, st, r_set, item, closeitem, open, net, asked>>
BY DEF Watch, Goes, world, IInv, TypeOK, Walking

LEMMA AddClientIInv == HeadAbove /\ IInv /\ AddClient => IInv'
<1> SUFFICES ASSUME HeadAbove, IInv, AddClient PROVE IInv'
  OBVIOUS
<1>1. cli.fd \in Fds /\ cli.fd \in open /\ cli.fd \notin Listed
  BY DEF AddClient, IInv, Fresh, TypeOK
<1>2. /\ watched' \subseteq Fds /\ inst' = TRUE
      /\ pc' = pc \/ (pc' = "start" /\ pc = "off")
      /\ cli' = [at |-> "prompt", fd |-> End]
      /\ UNCHANGED <<marked, max_sd, st, r_set, item, closeitem, open, net, asked>>
  BY <1>1, WatchTypes DEF AddClient
<1>3. UNCHANGED <<listens, port>>
  BY DEF AddClient
<1>4. /\ normals' \in Seq(Fds) /\ Increasing(normals')
      /\ Members(normals') = Members(normals) \union {cli.fd}
  BY <1>1, Facts, InsertSorted DEF AddClient, Listed
<1>5. TypeOK'
  BY <1>2, <1>3, <1>4 DEF IInv, TypeOK, CliPcs, TaskPcs
<1>6. Sorted' /\ ListedOpen' /\ Fresh'
  BY <1>1, <1>2, <1>3, <1>4 DEF IInv, Sorted, ListedOpen, Fresh, Listed
<1>7. Walking'
  BY <1>2, <1>3, <1>4 DEF IInv, Walking, InWalk
<1> QED
  BY <1>5, <1>6, <1>7 DEF IInv

LEMMA AddServerIInv == HeadAbove /\ IInv /\ AddServer => IInv'
<1> SUFFICES ASSUME HeadAbove, IInv, AddServer PROVE IInv'
  OBVIOUS
<1>1. cli.fd \in Fds /\ cli.fd \in open /\ cli.fd \notin Listed
  BY DEF AddServer, IInv, Fresh, TypeOK
<1>2. /\ watched' \subseteq Fds /\ inst' = TRUE
      /\ pc' = pc \/ (pc' = "start" /\ pc = "off")
      /\ cli' = [at |-> "prompt", fd |-> End]
      /\ UNCHANGED <<marked, max_sd, st, r_set, item, closeitem, open, net, asked>>
  BY <1>1, WatchTypes DEF AddServer
<1>3. normals' = normals /\ port' \in [Fds -> Ports \union {0}]
  <2>1. normals' = normals /\ \E p \in Ports : port' = [port EXCEPT ![cli.fd] = p]
    BY DEF AddServer
  <2>2. port \in [Fds -> Ports \union {0}]
    BY DEF IInv, TypeOK
  <2> QED
    BY <2>1, <2>2
<1>4. /\ listens' \in Seq(Fds) /\ Increasing(listens')
      /\ Members(listens') = Members(listens) \union {cli.fd}
  BY <1>1, Facts, InsertSorted DEF AddServer, Listed
<1>5. TypeOK'
  BY <1>2, <1>3, <1>4 DEF IInv, TypeOK, CliPcs, TaskPcs
<1>6. Sorted' /\ ListedOpen' /\ Fresh'
  BY <1>1, <1>2, <1>3, <1>4 DEF IInv, Sorted, ListedOpen, Fresh, Listed
<1>7. Walking'
  BY <1>2, <1>3, <1>4 DEF IInv, Walking, InWalk
<1> QED
  BY <1>5, <1>6, <1>7 DEF IInv

\* AT+TCPDISCONNECT and AT+TCPUNLISTEN mark a socket and wait: no list changes.
LEMMA MarksIInv ==
  ASSUME IInv, \/ \E f \in Fds : Disconnect(f)
               \/ \E p \in Ports : Unlisten(p)
  PROVE  IInv'
<1>1. /\ marked' \subseteq Fds /\ asked' \subseteq Fds /\ watched' \subseteq Fds
      /\ cli' = [at |-> "delay", fd |-> End]
      /\ UNCHANGED <<listens, normals, port, max_sd, st, inst, pc, r_set, item, closeitem,
                     open, net>>
  <2>1. ASSUME NEW f \in Fds, Disconnect(f) PROVE <1>1!:
    BY <2>1 DEF Disconnect, Goes, lists, task, round, IInv, TypeOK
  <2>2. ASSUME NEW p \in Ports, Unlisten(p) PROVE <1>1!:
    <3>1. PICK f \in Members(listens) :
            marked' = marked \union {f} /\ asked' = asked \union {f} /\ watched' = watched \ {f}
      BY <2>2 DEF Unlisten
    <3>2. f \in Fds
      BY Facts
    <3>3. marked \subseteq Fds /\ asked \subseteq Fds /\ watched \subseteq Fds
      BY DEF IInv, TypeOK
    <3>4. /\ cli' = [at |-> "delay", fd |-> End]
          /\ UNCHANGED <<listens, normals, port, max_sd, st, inst, pc, r_set, item, closeitem,
                         open, net>>
      BY <2>2 DEF Unlisten, Goes, lists, task, round
    <3> QED
      BY <3>1, <3>2, <3>3, <3>4
  <2> QED
    BY <2>1, <2>2
<1>2. TypeOK'
  BY <1>1 DEF IInv, TypeOK, CliPcs
<1>3. Sorted' /\ ListedOpen' /\ Fresh'
  BY <1>1 DEF IInv, Sorted, ListedOpen, Fresh, Listed
<1>4. Walking'
  BY <1>1, WalkStays
<1> QED
  BY <1>2, <1>3, <1>4 DEF IInv

LEMMA CliWaitsIInv == IInv /\ CliWaits => IInv'
<1> SUFFICES ASSUME IInv, CliWaits PROVE IInv'
  OBVIOUS
<1>1. /\ st' \in {"term", "stop", "running"}
      /\ \E at \in {"wait", "prompt"} : cli' = [at |-> at, fd |-> End]
      /\ UNCHANGED <<listens, normals, port, watched, marked, max_sd, inst, pc, r_set, item,
                     closeitem, open, net, asked>>
  BY DEF CliWaits, CheckTask, TaskEnded, Goes, lists, sets, round, world, IInv, TypeOK
<1>2. TypeOK'
  <2>1. cli' \in [at : CliPcs, fd : Fds \union {End}]
    BY <1>1 DEF CliPcs
  <2> QED
    BY <1>1, <2>1 DEF IInv, TypeOK
<1>3. Sorted' /\ ListedOpen' /\ Fresh'
  BY <1>1 DEF IInv, Sorted, ListedOpen, Fresh, Listed
<1>4. Walking'
  BY <1>1, WalkStays
<1> QED
  BY <1>2, <1>3, <1>4 DEF IInv

\* The steps of recv_task that change nothing but its own state.
LEMMA BookkeepingIInv ==
  ASSUME IInv, Begin \/ Top \/ Select \/ Wake \/ Timeout \/ Ended \/ Forget
  PROVE  IInv'
<1>0. TypeOK
  BY DEF IInv
<1>1. UNCHANGED <<listens, normals, port, watched, open, net, asked, cli>>
  BY DEF Begin, Top, Select, Wake, Timeout, Ended, Forget, Walk, lists, sets, world
<1>2. First(listens) = End \/ First(listens) \in Members(listens)
  BY Facts, FirstMember
<1>3. First(listens) \in Fds \union {End}
  BY <1>2, Facts
<1>4. Readable(watched) \subseteq Fds /\ Readable(r_set) \subseteq Fds
  BY <1>0 DEF Readable, TypeOK
<1>5. marked' \subseteq Fds /\ max_sd' \in Fds \union {End}
  <2>1. marked \subseteq Fds /\ max_sd \in Fds \union {End} /\ UpdatedMax \in Fds \union {End}
    BY <1>0, MaxIsFd DEF TypeOK
  <2>2. marked' \in {marked, {}} /\ max_sd' \in {max_sd, UpdatedMax}
    BY DEF Begin, Top, Select, Wake, Timeout, Ended, Forget, sets
  <2> QED
    BY <2>1, <2>2
<1>6. /\ st' \in {"term", "stop", "running"} /\ inst' \in BOOLEAN
      /\ r_set' \subseteq Fds /\ item' \in Fds \union {End} /\ closeitem' \in Fds \union {End}
  <2>1. /\ st \in {"term", "stop", "running"} /\ inst \in BOOLEAN
        /\ r_set \subseteq Fds /\ item \in Fds \union {End} /\ closeitem \in Fds \union {End}
        /\ watched \subseteq Fds
    BY <1>0 DEF TypeOK
  <2>2. st' \in {st, "running", "term"} /\ inst' \in {inst, FALSE}
    BY DEF Begin, Top, Select, Wake, Timeout, Ended, Forget, task
  <2>3. /\ r_set' \in {r_set, {}, watched, Readable(watched), Readable(r_set)}
        /\ item' \in {item, First(listens)} /\ closeitem' \in {closeitem, End}
    BY DEF Begin, Top, Select, Wake, Timeout, Ended, Forget, Walk
  <2>4. st' \in {"term", "stop", "running"} /\ inst' \in BOOLEAN
    BY <2>1, <2>2
  <2> QED
    BY <1>3, <1>4, <2>1, <2>3, <2>4
<1>7. pc' \in {"off", "top", "copy", "select", "expire listens", "listen", "term", "last"}
  BY DEF Begin, Top, Select, Wake, Timeout, Ended, Forget, Walk, GoTo
<1>8. TypeOK'
  BY <1>0, <1>1, <1>5, <1>6, <1>7 DEF TypeOK, TaskPcs
<1>9. Walking'
  BY <1>1, <1>2
     DEF Begin, Top, Select, Wake, Timeout, Ended, Forget, Walk, At, GoTo, task,
         IInv, Walking, InWalk
<1> QED
  BY <1>1, <1>8, <1>9, Stays

\* Only what lies ready changes.
LEMMA NetworkIInv == IInv /\ Network => IInv'
<1> SUFFICES ASSUME IInv, Network PROVE IInv'
  OBVIOUS
<1>1. /\ net' \in [Fds -> {"quiet", "data", "gone"}]
      /\ UNCHANGED <<listens, normals, port, watched, marked, max_sd, st, inst, pc, r_set,
                     item, closeitem, open, asked, cli>>
  BY DEF Network, Arrives, lists, sets, task, round, IInv, TypeOK
<1>2. TypeOK'
  BY <1>1 DEF IInv, TypeOK
<1> QED
  BY <1>1, <1>2, Stays, WalkStays

\* One step of a walk: the item kept back goes, the walk moves on behind the
\* item it stands on, and both that item and the next stay on the list.
LEMMA StepOn ==
  ASSUME NEW list \in Seq(Fds), Increasing(list), NEW f \in Members(list),
         NEW c, c # End => c < f
  PROVE  /\ Without(list, c) \in Seq(Fds) /\ Increasing(Without(list, c))
         /\ Members(Without(list, c)) = Members(list) \ {c}
         /\ f \in Members(Without(list, c))
         /\ After(list, f) # End =>
              After(list, f) \in Members(Without(list, c)) /\ f < After(list, f)
<1>1. /\ Without(list, c) \in Seq(Fds) /\ Increasing(Without(list, c))
      /\ Members(Without(list, c)) = Members(list) \ {c}
  BY WithoutSorted
<1>2. Members(list) \subseteq Nat /\ End \notin Members(list)
  BY SockMgrAssumption, MembersAreFds
<1>3. f # c
  BY <1>2 DEF End
<1>4. ASSUME After(list, f) # End
      PROVE  After(list, f) \in Members(list) /\ f < After(list, f) /\ After(list, f) # c
  <2>1. After(list, f) \in Members(list) /\ f < After(list, f)
    BY <1>4, AfterAbove
  <2>2. After(list, f) # c
    BY <1>2, <2>1 DEF End
  <2> QED
    BY <2>1, <2>2
<1> QED
  BY <1>1, <1>3, <1>4

\* Both walks after a timeout: what is marked goes at once.
LEMMA ExpireIInv ==
  ASSUME IInv, ExpireListen \/ ExpireListensEnd \/ ExpireNormal \/ ExpireEnd
  PROVE  IInv'
<1>0. TypeOK /\ Walking
  BY DEF IInv
<1>1. CASE ExpireListen
  <2>1. /\ pc = "expire listens" /\ item \in Members(listens)
        /\ item' = After(listens, item)
        /\ UNCHANGED <<normals, watched, marked, max_sd, st, inst, pc, r_set, closeitem, cli>>
    BY <1>0, <1>1 DEF ExpireListen, At, Walking, sets, task
  <2>2. item' = End \/ (item' \in Members(listens) /\ item' # item)
    <3>1. item' = End \/ (item' \in Members(listens) /\ item < item')
      BY <2>1, Facts, AfterAbove
    <3>2. \A x \in Members(listens) : x \in Nat
      BY Facts
    <3>3. ASSUME NEW x \in Members(listens), item < x PROVE x # item
      <4>1. x \in Nat /\ item \in Nat
        BY <2>1, <3>2
      <4>2. \A a, b \in Nat : a < b => a # b
        OBVIOUS
      <4> QED
        BY <3>3, <4>1, <4>2
    <3> QED
      BY <3>1, <3>3
  <2>3. /\ listens' \in Seq(Fds) /\ Increasing(listens')
        /\ \/ /\ Members(listens') = Members(listens) \ {item}
              /\ open' = open \ {item} /\ asked' = asked \ {item}
              /\ net' = Quiet({item}) /\ port' = Unbound({item})
           \/ UNCHANGED <<listens, open, asked, net, port>>
    BY <1>1, Facts, WithoutSorted DEF ExpireListen, Closes, world
  <2>4. TypeOK'
    <3>1. item' \in Fds \union {End}
      BY <2>2, Facts
    <3>2. /\ net' \in [Fds -> {"quiet", "data", "gone"}]
          /\ port' \in [Fds -> Ports \union {0}]
      <4>1. /\ net \in [Fds -> {"quiet", "data", "gone"}]
            /\ port \in [Fds -> Ports \union {0}]
        BY <1>0 DEF TypeOK
      <4>2. (net' = net /\ port' = port) \/ (net' = Quiet({item}) /\ port' = Unbound({item}))
        BY <2>3
      <4> QED
        BY <1>0, <4>1, <4>2, ClosedTypes
    <3>3. open' \subseteq open /\ asked' \subseteq asked /\ listens' \in Seq(Fds)
      BY <2>3
    <3>4. open' \subseteq Fds /\ asked' \subseteq Fds
      BY <1>0, <3>3 DEF TypeOK
    <3>5. /\ normals' \in Seq(Fds) /\ watched' \subseteq Fds /\ r_set' \subseteq Fds
          /\ closeitem' \in Fds \union {End} /\ pc' \in TaskPcs
      BY <1>0, <2>1 DEF TypeOK
    <3> QED
      BY <1>0, <2>1, <3>1, <3>2, <3>3, <3>4, <3>5, RoundTypes
  <2>5. Walking'
    BY <1>0, <2>1, <2>2, <2>3 DEF Walking
  <2>6. /\ Increasing(normals') /\ Members(listens') \subseteq Members(listens)
        /\ Members(normals') \subseteq Members(normals)
        /\ Members(listens') \union Members(normals') \subseteq open'
        /\ open \ Listed \subseteq open'
    BY <2>1, <2>3, Facts DEF Listed
  <2> QED
    BY <2>1, <2>3, <2>4, <2>5, <2>6, Shrinks
<1>2. CASE ExpireListensEnd
  <2>1. /\ pc = "expire listens" /\ pc' = "expire normals" /\ item' = First(normals)
        /\ UNCHANGED <<listens, normals, port, watched, marked, max_sd, st, inst, r_set,
                       closeitem, open, net, asked, cli>>
    BY <1>2 DEF ExpireListensEnd, At, GoTo, lists, sets, task, world
  <2>2. item' = End \/ item' \in Members(normals)
    BY <2>1, Facts, FirstMember
  <2>3. item' \in Fds \union {End}
    BY <2>2, Facts
  <2>4. TypeOK'
    <3>1. pc' \in TaskPcs
      BY <2>1 DEF TaskPcs
    <3>2. /\ listens' \in Seq(Fds) /\ normals' \in Seq(Fds)
          /\ open' \subseteq Fds /\ asked' \subseteq Fds /\ watched' \subseteq Fds
          /\ r_set' \subseteq Fds /\ closeitem' \in Fds \union {End}
      BY <1>0, <2>1 DEF TypeOK
    <3>3. net' \in [Fds -> {"quiet", "data", "gone"}] /\ port' \in [Fds -> Ports \union {0}]
      BY <1>0, <2>1 DEF TypeOK
    <3> QED
      BY <1>0, <2>1, <2>3, <3>1, <3>2, <3>3, RoundTypes
  <2>5. Walking'
    BY <1>0, <2>1, <2>2 DEF Walking
  <2> QED
    BY <2>1, <2>4, <2>5, Stays
<1>3. CASE ExpireNormal
  <2>1. /\ pc = "expire normals" /\ item \in Members(normals)
        /\ item' = After(normals, item)
        /\ UNCHANGED <<listens, watched, marked, max_sd, st, inst, pc, r_set, closeitem, cli>>
    BY <1>0, <1>3 DEF ExpireNormal, At, Walking, sets, task
  <2>2. item' = End \/ (item' \in Members(normals) /\ item' # item)
    <3>1. item' = End \/ (item' \in Members(normals) /\ item < item')
      BY <2>1, Facts, AfterAbove
    <3>2. \A x \in Members(normals) : x \in Nat
      BY Facts
    <3>3. ASSUME NEW x \in Members(normals), item < x PROVE x # item
      <4>1. x \in Nat /\ item \in Nat
        BY <2>1, <3>2
      <4>2. \A a, b \in Nat : a < b => a # b
        OBVIOUS
      <4> QED
        BY <3>3, <4>1, <4>2
    <3> QED
      BY <3>1, <3>3
  <2>3. /\ normals' \in Seq(Fds) /\ Increasing(normals')
        /\ \/ /\ Members(normals') = Members(normals) \ {item}
              /\ open' = open \ {item} /\ asked' = asked \ {item}
              /\ net' = Quiet({item}) /\ port' = Unbound({item})
           \/ UNCHANGED <<normals, open, asked, net, port>>
    BY <1>3, Facts, WithoutSorted DEF ExpireNormal, Closes, world
  <2>4. TypeOK'
    <3>1. item' \in Fds \union {End}
      BY <2>2, Facts
    <3>2. /\ net' \in [Fds -> {"quiet", "data", "gone"}]
          /\ port' \in [Fds -> Ports \union {0}]
      <4>1. /\ net \in [Fds -> {"quiet", "data", "gone"}]
            /\ port \in [Fds -> Ports \union {0}]
        BY <1>0 DEF TypeOK
      <4>2. (net' = net /\ port' = port) \/ (net' = Quiet({item}) /\ port' = Unbound({item}))
        BY <2>3
      <4> QED
        BY <1>0, <4>1, <4>2, ClosedTypes
    <3>3. open' \subseteq open /\ asked' \subseteq asked /\ normals' \in Seq(Fds)
      BY <2>3
    <3>4. open' \subseteq Fds /\ asked' \subseteq Fds
      BY <1>0, <3>3 DEF TypeOK
    <3>5. /\ listens' \in Seq(Fds) /\ watched' \subseteq Fds /\ r_set' \subseteq Fds
          /\ closeitem' \in Fds \union {End} /\ pc' \in TaskPcs
      BY <1>0, <2>1 DEF TypeOK
    <3> QED
      BY <1>0, <2>1, <3>1, <3>2, <3>3, <3>4, <3>5, RoundTypes
  <2>5. Walking'
    BY <1>0, <2>1, <2>2, <2>3 DEF Walking
  <2>6. /\ Increasing(listens') /\ Members(listens') \subseteq Members(listens)
        /\ Members(normals') \subseteq Members(normals)
        /\ Members(listens') \union Members(normals') \subseteq open'
        /\ open \ Listed \subseteq open'
    BY <2>1, <2>3, Facts DEF Listed
  <2> QED
    BY <2>1, <2>3, <2>4, <2>5, <2>6, Shrinks
<1>4. CASE ExpireEnd
  <2>1. /\ pc = "expire normals" /\ pc' = "top"
        /\ UNCHANGED <<listens, normals, port, watched, marked, max_sd, st, inst, r_set,
                       item, closeitem, open, net, asked, cli>>
    BY <1>4 DEF ExpireEnd, At, GoTo, lists, sets, task, world
  <2>2. TypeOK' /\ Walking'
    BY <1>0, <2>1 DEF TypeOK, Walking, TaskPcs
  <2> QED
    BY <2>1, <2>2, Stays
<1> QED
  BY <1>1, <1>2, <1>3, <1>4

\* An accepted connection gets a descriptor that no list holds any more.
LEMMA ListenItemIInv == HeadAbove /\ IInv /\ ListenItem => IInv'
<1> SUFFICES ASSUME HeadAbove, IInv, ListenItem PROVE IInv'
  OBVIOUS
<1>0. TypeOK /\ Walking
  BY DEF IInv
<1>1. /\ pc = "listen" /\ pc' = "listen" /\ item \in Members(listens)
      /\ closeitem # End => closeitem \in Members(listens) /\ closeitem < item
      /\ listens' = Without(listens, closeitem) /\ item' = After(listens, item)
      /\ asked' = asked \ {closeitem} /\ port' = Unbound({closeitem})
      /\ UNCHANGED <<marked, max_sd, st, inst, r_set, cli>>
  BY <1>0 DEF ListenItem, At, Walking, InWalk, task
<1>2. /\ listens' \in Seq(Fds) /\ Increasing(listens')
      /\ Members(listens') = Members(listens) \ {closeitem}
      /\ item \in Members(listens')
      /\ item' # End => item' \in Members(listens') /\ item < item'
  BY <1>1, Facts, StepOn
<1>3. closeitem' \in {item, End}
  BY DEF ListenItem, ListenClose, ListenAccept, ListenSkip
<1>4. Walking'
  BY <1>0, <1>1, <1>2, <1>3 DEF Walking, InWalk
<1>5. item' \in Fds \union {End} /\ closeitem' \in Fds \union {End}
  BY <1>1, <1>2, <1>3, Facts
<1>6. port' \in [Fds -> Ports \union {0}] /\ asked' \subseteq Fds
  BY <1>0, <1>1, ClosedTypes DEF TypeOK
<1>p. pc' \in TaskPcs
  BY <1>1 DEF TaskPcs
<1>7. ASSUME net' = Quiet({closeitem}) \/ net' = Quiet({item, closeitem}),
             open' = StillOpen, UNCHANGED <<normals, watched>>
      PROVE  IInv'
  <2>1. net' \in [Fds -> {"quiet", "data", "gone"}]
    BY <1>0, <1>7, ClosedTypes
  <2>2. TypeOK'
    <3>1. /\ open' \subseteq Fds /\ normals' \in Seq(Fds) /\ watched' \subseteq Fds
          /\ r_set' \subseteq Fds
      BY <1>0, <1>1, <1>7 DEF TypeOK, StillOpen
    <3> QED
      BY <1>0, <1>1, <1>2, <1>5, <1>6, <1>p, <2>1, <3>1, RoundTypes
  <2>3. /\ Increasing(normals') /\ Members(listens') \subseteq Members(listens)
        /\ Members(normals') \subseteq Members(normals)
        /\ Members(listens') \union Members(normals') \subseteq open'
        /\ open \ Listed \subseteq open'
    BY <1>1, <1>2, <1>7, Facts DEF StillOpen, Listed
  <2> QED
    BY <1>1, <1>2, <1>4, <2>2, <2>3, Shrinks
<1>8. ASSUME NEW fork \in Fds \ StillOpen, open' = StillOpen \union {fork},
             net' = Quiet({item, fork, closeitem}),
             \/ normals' = Insert(normals, fork) /\ watched' = watched \union {fork}
             \/ UNCHANGED <<normals, watched>>
      PROVE  IInv'
  <2>1. /\ fork \in Fds /\ fork \notin Members(normals)
        /\ fork \notin Members(listens) \ {closeitem}
        /\ Members(normals) \subseteq StillOpen
        /\ Members(listens) \ {closeitem} \subseteq StillOpen
    BY <1>1, <1>8, Facts DEF StillOpen
  <2>2. /\ normals' \in Seq(Fds) /\ Increasing(normals')
        /\ Members(normals') \subseteq Members(normals) \union {fork}
        /\ Members(normals) \subseteq Members(normals')
    BY <1>8, <2>1, Facts, InsertSorted
  <2>3. net' \in [Fds -> {"quiet", "data", "gone"}]
    BY <1>0, <1>8, ClosedTypes
  <2>4. open' \subseteq Fds /\ watched' \subseteq Fds
    BY <1>0, <1>8, <2>1 DEF TypeOK, StillOpen
  <2>5. TypeOK'
    <3>1. r_set' \subseteq Fds
      BY <1>0, <1>1 DEF TypeOK
    <3> QED
      BY <1>0, <1>1, <1>2, <1>5, <1>6, <1>p, <2>2, <2>3, <2>4, <3>1, RoundTypes
  <2>6. Sorted' /\ ListedOpen'
    BY <1>2, <1>8, <2>1, <2>2, Facts DEF Sorted, ListedOpen, Listed
  <2>7. Fresh'
    <3> SUFFICES ASSUME cli.at \in {"client", "server"} PROVE cli.fd \in open' \ Listed'
      BY <1>1 DEF Fresh
    <3>1. cli.fd \in open /\ cli.fd \notin Listed
      BY DEF IInv, Fresh
    <3>2. cli.fd # closeitem /\ cli.fd \in StillOpen
      BY <1>1, <3>1, Facts DEF Listed, StillOpen
    <3> QED
      BY <1>2, <1>8, <2>2, <3>1, <3>2 DEF Listed
  <2> QED
    BY <1>4, <2>5, <2>6, <2>7 DEF IInv
<1>9. CASE ListenClose \/ ListenSkip
  BY <1>7, <1>9 DEF ListenClose, ListenSkip
<1>10. CASE ListenAccept
  <2>1. CASE StillOpen = Fds
    BY <1>7, <1>10, <2>1 DEF ListenAccept
  <2>2. CASE StillOpen # Fds
    <3>1. Fds \ StillOpen # {}
      BY <2>2, Facts DEF StillOpen
    <3>2. Lowest(Fds \ StillOpen) \in Fds \ StillOpen
      BY <3>1, LowestFree
    <3> QED
      BY <1>8, <1>10, <2>2, <3>2 DEF ListenAccept
  <2> QED
    BY <2>1, <2>2
<1> QED
  BY <1>9, <1>10 DEF ListenItem

\* The item kept back at the end of a list goes.
LEMMA WalkEndIInv ==
  ASSUME IInv, ListenEnd \/ NormalEnd
  PROVE  IInv'
<1>0. TypeOK /\ Walking
  BY DEF IInv
<1>1. CASE ListenEnd
  <2>1. /\ pc = "listen" /\ pc' = "normal" /\ closeitem' = End /\ item' = First(normals)
        /\ closeitem # End => closeitem \in Members(listens)
        /\ listens' = Without(listens, closeitem)
        /\ open' = open \ {closeitem} /\ asked' = asked \ {closeitem}
        /\ net' = Quiet({closeitem}) /\ port' = Unbound({closeitem})
        /\ UNCHANGED <<normals, watched, marked, max_sd, st, inst, r_set, cli>>
    BY <1>0, <1>1 DEF ListenEnd, At, GoTo, Closes, Walking, InWalk, sets, task
  <2>2. /\ listens' \in Seq(Fds) /\ Increasing(listens')
        /\ Members(listens') = Members(listens) \ {closeitem}
    BY <2>1, Facts, WithoutSorted
  <2>3. item' = End \/ item' \in Members(normals)
    BY <2>1, Facts, FirstMember
  <2>4. TypeOK'
    <3>1. item' \in Fds \union {End}
      BY <2>3, Facts
    <3>2. /\ net' \in [Fds -> {"quiet", "data", "gone"}]
          /\ port' \in [Fds -> Ports \union {0}]
      BY <1>0, <2>1, ClosedTypes
    <3>3. pc' \in TaskPcs
      BY <2>1 DEF TaskPcs
    <3>4. open' \subseteq Fds /\ asked' \subseteq Fds
      BY <1>0, <2>1 DEF TypeOK
    <3>5. /\ normals' \in Seq(Fds) /\ watched' \subseteq Fds /\ r_set' \subseteq Fds
          /\ closeitem' \in Fds \union {End}
      BY <1>0, <2>1 DEF TypeOK
    <3> QED
      BY <1>0, <2>1, <2>2, <3>1, <3>2, <3>3, <3>4, <3>5, RoundTypes
  <2>5. Walking'
    BY <1>0, <2>1, <2>3 DEF Walking, InWalk
  <2>6. /\ Increasing(normals') /\ Members(listens') \subseteq Members(listens)
        /\ Members(normals') \subseteq Members(normals)
        /\ Members(listens') \union Members(normals') \subseteq open'
        /\ open \ Listed \subseteq open'
    BY <2>1, <2>2, Facts DEF Listed
  <2> QED
    BY <2>1, <2>2, <2>4, <2>5, <2>6, Shrinks
<1>2. CASE NormalEnd
  <2>1. /\ pc = "normal" /\ pc' = "top" /\ closeitem' = End /\ item' = item /\ r_set' = {}
        /\ closeitem # End => closeitem \in Members(normals)
        /\ normals' = Without(normals, closeitem)
        /\ open' = open \ {closeitem} /\ asked' = asked \ {closeitem}
        /\ net' = Quiet({closeitem}) /\ port' = Unbound({closeitem})
        /\ UNCHANGED <<listens, watched, marked, max_sd, st, inst, cli>>
    BY <1>0, <1>2 DEF NormalEnd, At, GoTo, Closes, Walking, InWalk, sets, task
  <2>2. /\ normals' \in Seq(Fds) /\ Increasing(normals')
        /\ Members(normals') = Members(normals) \ {closeitem}
    BY <2>1, Facts, WithoutSorted
  <2>3. TypeOK'
    <3>1. /\ net' \in [Fds -> {"quiet", "data", "gone"}]
          /\ port' \in [Fds -> Ports \union {0}]
      BY <1>0, <2>1, ClosedTypes
    <3>2. pc' \in TaskPcs
      BY <2>1 DEF TaskPcs
    <3>3. open' \subseteq Fds /\ asked' \subseteq Fds
      BY <1>0, <2>1 DEF TypeOK
    <3>4. /\ listens' \in Seq(Fds) /\ watched' \subseteq Fds /\ r_set' \subseteq Fds
          /\ item' \in Fds \union {End} /\ closeitem' \in Fds \union {End}
      BY <1>0, <2>1 DEF TypeOK
    <3> QED
      BY <1>0, <2>1, <2>2, <3>1, <3>2, <3>3, <3>4, RoundTypes
  <2>4. Walking'
    BY <1>0, <2>1 DEF Walking
  <2>5. /\ Increasing(listens') /\ Members(listens') \subseteq Members(listens)
        /\ Members(normals') \subseteq Members(normals)
        /\ Members(listens') \union Members(normals') \subseteq open'
        /\ open \ Listed \subseteq open'
    BY <2>1, <2>2, Facts DEF Listed
  <2> QED
    BY <2>1, <2>2, <2>3, <2>4, <2>5, Shrinks
<1> QED
  BY <1>1, <1>2

LEMMA NormalItemIInv == IInv /\ NormalItem => IInv'
<1> SUFFICES ASSUME IInv, NormalItem PROVE IInv'
  OBVIOUS
<1>0. TypeOK /\ Walking
  BY DEF IInv
<1>1. /\ pc = "normal" /\ item \in Members(normals)
      /\ closeitem # End => closeitem \in Members(normals) /\ closeitem < item
      /\ normals' = Without(normals, closeitem)
      /\ open' = open \ {closeitem} /\ asked' = asked \ {closeitem}
      /\ net' = Quiet({closeitem}) /\ port' = Unbound({closeitem})
      /\ UNCHANGED <<listens, watched, marked, max_sd, st, inst, r_set, cli>>
  BY <1>0 DEF NormalItem, At, Closes, Walking, InWalk, sets, task
<1>2. /\ normals' \in Seq(Fds) /\ Increasing(normals')
      /\ Members(normals') = Members(normals) \ {closeitem}
      /\ item \in Members(normals')
      /\ After(normals, item) # End =>
           After(normals, item) \in Members(normals') /\ item < After(normals, item)
  BY <1>1, Facts, StepOn
<1>3. \/ closeitem' \in {item, End} /\ item' = After(normals, item) /\ pc' = "normal"
      \/ closeitem' = End /\ item' = item /\ pc' = "recv"
  BY <1>1 DEF NormalItem, GoTo
<1>4. Walking'
  <2>1. CASE closeitem' \in {item, End} /\ item' = After(normals, item) /\ pc' = "normal"
    BY <1>0, <1>1, <1>2, <2>1 DEF Walking, InWalk
  <2>2. CASE closeitem' = End /\ item' = item /\ pc' = "recv"
    BY <1>0, <1>1, <1>2, <2>2 DEF Walking, InWalk
  <2> QED
    BY <1>3, <2>1, <2>2
<1>5. TypeOK'
  <2>1. item' \in Fds \union {End} /\ closeitem' \in Fds \union {End}
    BY <1>1, <1>2, <1>3, Facts
  <2>2. /\ net' \in [Fds -> {"quiet", "data", "gone"}]
        /\ port' \in [Fds -> Ports \union {0}]
    BY <1>0, <1>1, ClosedTypes
  <2>3. pc' \in {"normal", "recv"}
    BY <1>3
  <2> QED
    BY <1>0, <1>1, <1>2, <2>1, <2>2, <2>3 DEF TypeOK, TaskPcs
<1>6. /\ Increasing(listens') /\ Members(listens') \subseteq Members(listens)
      /\ Members(normals') \subseteq Members(normals)
      /\ Members(listens') \union Members(normals') \subseteq open'
      /\ open \ Listed \subseteq open'
  BY <1>1, <1>2, Facts DEF Listed
<1> QED
  BY <1>1, <1>2, <1>4, <1>5, <1>6, Shrinks

LEMMA RecvIInv == IInv /\ Recv => IInv'
<1> SUFFICES ASSUME IInv, Recv PROVE IInv'
  OBVIOUS
<1>0. TypeOK /\ Walking
  BY DEF IInv
<1>1. /\ pc = "recv" /\ item \in Members(normals) /\ closeitem = End
      /\ UNCHANGED <<listens, normals, port, marked, max_sd, st, inst, r_set, open, asked, cli>>
  BY <1>0 DEF Recv, At, Walking, lists, task
<1>2. /\ net' \in [Fds -> {"quiet", "data", "gone"}] /\ watched' \subseteq Fds
      /\ \/ pc' = "normal" /\ item' = After(normals, item) /\ closeitem' \in {item, End}
         \/ UNCHANGED <<pc, item, closeitem>>
  <2>1. CASE RecvData \/ RecvWhole
    BY <1>0, <1>1, <2>1, ClosedTypes DEF RecvData, RecvWhole, GoTo, TypeOK
  <2>2. CASE RecvEnd
    BY <1>0, <2>2 DEF RecvEnd, GoTo, TypeOK
  <2> QED
    BY <2>1, <2>2 DEF Recv
<1>3. After(normals, item) # End =>
        After(normals, item) \in Members(normals) /\ item < After(normals, item)
  BY <1>1, Facts, AfterAbove
<1>4. Walking'
  <2>1. CASE pc' = "normal" /\ item' = After(normals, item) /\ closeitem' \in {item, End}
    BY <1>0, <1>1, <1>3, <2>1 DEF Walking, InWalk
  <2>2. CASE UNCHANGED <<pc, item, closeitem>>
    BY <1>0, <1>1, <2>2 DEF Walking, InWalk
  <2> QED
    BY <1>2, <2>1, <2>2
<1>5. TypeOK'
  <2>1. item' \in Fds \union {End} /\ closeitem' \in Fds \union {End}
    BY <1>0, <1>1, <1>2, <1>3, Facts DEF TypeOK
  <2>2. pc' \in {"normal", "recv"}
    BY <1>1, <1>2
  <2> QED
    BY <1>0, <1>1, <1>2, <2>1, <2>2 DEF TypeOK, TaskPcs
<1> QED
  BY <1>1, <1>4, <1>5, Stays

LEMMA TerminateIInv == IInv /\ Terminate => IInv'
<1> SUFFICES ASSUME IInv, Terminate PROVE IInv'
  OBVIOUS
<1>0. TypeOK /\ Walking
  BY DEF IInv
<1>1. /\ pc = "term" /\ pc' = "ending" /\ listens' = << >> /\ normals' = << >>
      /\ open' = open \ Listed /\ asked' = asked \ Listed
      /\ net' = Quiet(Listed) /\ port' = Unbound(Listed) /\ watched' = {}
      /\ UNCHANGED <<marked, max_sd, st, inst, r_set, item, closeitem, cli>>
  BY DEF Terminate, At, GoTo, Closes, task
<1>2. << >> \in Seq(Fds) /\ Increasing(<< >>) /\ Members(<< >>) = {}
  BY DEF Increasing, Members
<1>3. TypeOK'
  <2>1. /\ net' \in [Fds -> {"quiet", "data", "gone"}]
        /\ port' \in [Fds -> Ports \union {0}]
    BY <1>0, <1>1, ClosedTypes
  <2>2. listens' \in Seq(Fds) /\ normals' \in Seq(Fds)
    BY <1>1, <1>2
  <2> HIDE DEF Listed
  <2> QED
    BY <1>0, <1>1, <2>1, <2>2 DEF TypeOK, TaskPcs
<1>4. Walking'
  BY <1>0, <1>1 DEF Walking
<1> QED
  BY <1>1, <1>2, <1>3, <1>4, Shrinks

-----------------------------------------------------------------------------
(* Theorems, for a build with something large behind the list heads.       *)

LEMMA NextIInv == HeadAbove /\ IInv /\ [Next]_vars => IInv'
<1> SUFFICES ASSUME HeadAbove, IInv, [Next]_vars PROVE IInv'
  OBVIOUS
<1>1. CASE Socket
  BY <1>1, SocketIInv
<1>2. CASE OpenReturns
  BY <1>2, OpenFailsIInv, AddClientIInv, AddServerIInv DEF OpenReturns
<1>3. CASE CliWaits
  BY <1>3, CliWaitsIInv
<1>4. CASE (\E f \in Fds : Disconnect(f)) \/ (\E p \in Ports : Unlisten(p))
  BY <1>4, MarksIInv
<1>5. CASE RecvTask
  <2>1. CASE Begin \/ Top \/ Select \/ Wake \/ Timeout \/ Ended \/ Forget
    BY <2>1, BookkeepingIInv
  <2>2. CASE ExpireListen \/ ExpireListensEnd \/ ExpireNormal \/ ExpireEnd
    BY <2>2, ExpireIInv
  <2>3. CASE ListenItem
    BY <2>3, ListenItemIInv
  <2>4. CASE NormalItem
    BY <2>4, NormalItemIInv
  <2>5. CASE Recv
    BY <2>5, RecvIInv
  <2>6. CASE ListenEnd \/ NormalEnd
    BY <2>6, WalkEndIInv
  <2>7. CASE Terminate
    BY <2>7, TerminateIInv
  <2> QED
    BY <1>5, <2>1, <2>2, <2>3, <2>4, <2>5, <2>6, <2>7 DEF RecvTask
<1>6. CASE Network
  BY <1>6, NetworkIInv
<1>7. CASE UNCHANGED vars
  <2>1. UNCHANGED <<listens, normals, port, watched, marked, max_sd, st, inst, pc, r_set,
                    item, closeitem, open, net, asked, cli>>
    BY <1>7 DEF vars, lists, sets, task, round, world
  <2>2. TypeOK'
    BY <2>1 DEF IInv, TypeOK
  <2> QED
    BY <2>1, <2>2, Stays, WalkStays
<1> QED
  BY <1>1, <1>2, <1>3, <1>4, <1>5, <1>6, <1>7 DEF Next

LEMMA SockMgrInductive ==
  ASSUME HeadAbove
  PROVE  Spec => []IInv
<1>1. IInv /\ [Next]_vars => IInv'
  BY NextIInv
<1> QED
  BY <1>1, InitIInv, PTL DEF Spec

\* The variables keep their types.
THEOREM SockMgrTypes ==
  ASSUME HeadAbove
  PROVE  Spec => []TypeOK
<1>1. IInv => TypeOK
  BY DEF IInv
<1> QED
  BY <1>1, SockMgrInductive, PTL

\* Both lists stay sorted, without a doubled or a shared descriptor, through
\* the insertions of the CLI task and of recv_task and the removals in its
\* walks, also when a command runs in the middle of a walk.
THEOREM ListsSorted ==
  ASSUME HeadAbove
  PROVE  Spec => []Sorted
<1>1. IInv => Sorted
  BY DEF IInv
<1> QED
  BY <1>1, SockMgrInductive, PTL

\* What is on a list is open: no descriptor on a list has been closed, and
\* recv_task closes, accepts and receives on its own sockets only.
THEOREM ListedAreOpen ==
  ASSUME HeadAbove
  PROVE  Spec => []ListedOpen
<1>1. IInv => ListedOpen
  BY DEF IInv
<1> QED
  BY <1>1, SockMgrInductive, PTL

\* A walk of recv_task stands on an item of the list it goes through, and the
\* item kept back to be closed is another, before it: no step frees the item
\* the walk goes on from.
THEOREM WalksOnList ==
  ASSUME HeadAbove
  PROVE  Spec => []Walking
<1>1. IInv => Walking
  BY DEF IInv
<1> QED
  BY <1>1, SockMgrInductive, PTL

-----------------------------------------------------------------------------
(* The rounds of recv_task, when a command only runs between two of them.  *)
(* What is watched is served.  As long as one socket listens at a time,    *)
(* the stack is told of every descriptor select waits for, select waits    *)
(* for open ones of this module only, and a round closes what it was asked *)
(* to.                                                                     *)

\* A second listening socket may be accepting while the first, marked, is
\* closed: the new connection then takes over the number and the mark.
OneListener == \A f, g \in Members(listens) : f = g

\* From the copy of g_r_set to the end of the round; the marks of the last
\* round are gone by then.
Rounds  == {"copy", "select", "expire listens", "expire normals", "listen",
            "normal", "recv"}
\* Until something is closed.
Closing == {"expire listens", "expire normals", "normal", "recv"}

\* What is marked, or kept back to be closed, is watched no more.
MarkedApart == pc \in Rounds => marked \intersect watched = {} /\ closeitem \notin watched

\* What is marked is on a list until the round closes something.
MarkedListed == pc \in Rounds \ Closing => marked \subseteq Listed

\* The maximum of the last update covers the lists, and the set given to
\* select comes from them.
MaxKnown ==
  /\ pc = "copy" => \A f \in Listed : f <= max_sd
  /\ pc = "select" => r_set \subseteq Listed

\* Who is marked or kept back to be closed, while he is on a list, has been
\* asked for or his peer has gone.
CloseAsked ==
  /\ pc \in Rounds => marked \intersect Listed \subseteq asked
  /\ closeitem # End => closeitem \in asked \/ net[closeitem] = "gone"

Watching ==
  WatchedListed /\ MarkedApart /\ MarkedListed /\ MaxKnown /\ MaxCovers /\ CloseAsked

\* recv_task_inst says whether there is a recv_task.
TaskKnown == inst <=> pc # "off"
Serving == TaskKnown /\ Served

\* A listening socket has a port, and a port one listening socket.
PortsHeld ==
  \A f \in Members(listens) :
    /\ port[f] \in Ports
    /\ \A g \in Members(listens) : port[f] = port[g] => f = g

-----------------------------------------------------------------------------
(* Lists and sets.                                                         *)

\* update_max_sd: the last item of a sorted list is its largest.
LEMMA LastCovers ==
  ASSUME NEW list \in Seq(Fds), Increasing(list)
  PROVE  \A f \in Members(list) : f <= Last(list)
<1> SUFFICES ASSUME NEW i \in DOMAIN list PROVE list[i] <= Last(list)
  BY DEF Members
<1>1. i \in 1 .. Len(list) /\ Len(list) \in 1 .. Len(list) /\ Last(list) = list[Len(list)]
  BY DEF Last
<1>2. list[i] \in Nat /\ list[Len(list)] \in Nat
  BY <1>1, ItemsAreNaturals
<1>3. CASE i = Len(list)
  BY <1>1, <1>2, <1>3
<1>4. CASE i < Len(list)
  <2>1. list[i] < list[Len(list)]
    BY <1>1, <1>4 DEF Increasing
  <2> QED
    BY <1>1, <1>2, <2>1
<1> QED
  BY <1>1, <1>3, <1>4

LEMMA LastType ==
  ASSUME NEW list \in Seq(Fds)
  PROVE  Last(list) \in Int
<1>1. CASE list = << >>
  BY <1>1 DEF Last, End
<1>2. CASE list # << >>
  <2>1. Len(list) \in 1 .. Len(list)
    BY <1>2
  <2> QED
    BY <1>2, <2>1, ItemsAreNaturals DEF Last
<1> QED
  BY <1>1, <1>2

LEMMA MaxUpdated ==
  ASSUME IInv
  PROVE  \A f \in Listed : f <= UpdatedMax
<1>1. max_sd \in Int
  <2>1. max_sd \in Fds \union {End}
    BY DEF IInv, TypeOK
  <2>2. Fds \subseteq Nat /\ End \in Int
    BY SockMgrAssumption DEF End
  <2> QED
    BY <2>1, <2>2
<1>2. Last(normals) \in Int /\ Last(listens) \in Int
  BY Facts, LastType
<1>3. \A f \in Listed : f \in Nat /\ (f <= Last(normals) \/ f <= Last(listens))
  BY Facts, LastCovers DEF Listed
<1>4. ASSUME NEW m \in Int, NEW n \in Int, NEW l \in Int, NEW f \in Nat, f <= n \/ f <= l
      PROVE  f <= Larger(Larger(m, n), l)
  BY <1>4 DEF Larger
<1> QED
  BY <1>1, <1>2, <1>3, <1>4 DEF UpdatedMax

\* What is on a list is a descriptor, and watched sockets are.
LEMMA RoundFacts ==
  ASSUME IInv
  PROVE  /\ End \notin watched /\ End \notin Listed
         /\ pc \notin {"listen", "normal"} => closeitem = End
         /\ Listed \subseteq open
BY Facts DEF IInv, TypeOK, Listed, Walking

-----------------------------------------------------------------------------
(* The CLI task between two rounds.                                        *)

LEMMA InitWatching == Init => Watching /\ Serving /\ PortsHeld
<1> SUFFICES ASSUME Init PROVE Watching /\ Serving /\ PortsHeld
  OBVIOUS
<1>1. /\ Listed = {} /\ Members(listens) = {} /\ watched = {} /\ pc = "off"
      /\ inst = FALSE /\ closeitem = End
  BY DEF Init, Listed, Members
<1>2. Watching
  BY <1>1 DEF Watching, WatchedListed, MarkedApart, MarkedListed, MaxKnown, MaxCovers,
     CloseAsked, Rounds, At
<1> QED
  BY <1>1, <1>2 DEF Serving, TaskKnown, Served, PortsHeld

\* A step that leaves the lists, the sets and the round alone, and no end of a
\* connection unseen.
LEMMA WatchingStays ==
  ASSUME Watching, UNCHANGED <<listens, normals, watched, marked, max_sd, pc, r_set,
                               closeitem, asked>>,
         closeitem # End /\ net[closeitem] = "gone" => net'[closeitem] = "gone"
  PROVE  Watching'
BY DEF Watching, WatchedListed, MarkedApart, MarkedListed, MaxKnown, MaxCovers,
   CloseAsked, Listed, At

\* A new socket is on no list, and a failed one was on none.
LEMMA SocketWatching ==
  ASSUME ~Overlap, IInv, Watching, Socket \/ OpenFails \/ CliWaits
  PROVE  Watching'
<1>1. UNCHANGED <<listens, normals, watched, marked, max_sd, pc, r_set, closeitem, asked>>
  BY DEF Socket, OpenFails, CliWaits, CheckTask, TaskEnded, lists, sets, round, world
<1>2. closeitem = End \/ UNCHANGED net
  BY RoundFacts DEF Socket, MayCommand, Asleep, OpenFails, CliWaits, CheckTask,
     TaskEnded, world
<1> QED
  BY <1>1, <1>2, WatchingStays

\* A socket is entered into a list and into g_r_set.
LEMMA AddWatching ==
  ASSUME HeadAbove, ~Overlap, IInv, Watching, AddClient \/ AddServer
  PROVE  Watching'
<1>1. cli.fd \in Fds /\ cli.fd \notin Listed /\ pc \in {"off", "select"}
  BY DEF AddClient, AddServer, IInv, Fresh, TypeOK, MayCommand, Asleep
<1>2. /\ watched' = watched \union {cli.fd}
      /\ pc' \in {pc, "start"}
      /\ UNCHANGED <<marked, max_sd, r_set, closeitem, asked, net>>
  BY DEF AddClient, AddServer, Watch, world
<1>3. Listed' = Listed \union {cli.fd}
  <2>1. CASE AddClient
    BY <1>1, <2>1, Facts, InsertSorted DEF AddClient, Listed
  <2>2. CASE AddServer
    BY <1>1, <2>2, Facts, InsertSorted DEF AddServer, Listed
  <2> QED
    BY <2>1, <2>2
<1>4. closeitem = End /\ End \notin watched'
  BY <1>1, <1>2, RoundFacts, Facts
<1>5. CASE pc' = "select"
  <2>1. pc = "select" /\ "select" \in Rounds \ Closing
    BY <1>1, <1>2, <1>5 DEF Rounds, Closing
  <2>2. /\ marked \intersect watched = {} /\ marked \subseteq Listed
        /\ marked \intersect Listed \subseteq asked /\ r_set \subseteq Listed
    BY <2>1 DEF Watching, MarkedApart, MarkedListed, MaxKnown, CloseAsked
  <2>3. marked' \intersect watched' = {} /\ closeitem' \notin watched'
    BY <1>1, <1>2, <1>4, <2>2
  <2> QED
    BY <1>1, <1>2, <1>3, <1>4, <1>5, <2>1, <2>2, <2>3
       DEF Watching, WatchedListed, MarkedApart, MarkedListed, MaxKnown, MaxCovers,
           CloseAsked, At
<1>6. CASE pc' # "select"
  <2>1. pc' \in {"off", "start"}
    BY <1>1, <1>2, <1>6
  <2> QED
    BY <1>2, <1>3, <1>4, <2>1
       DEF Watching, WatchedListed, MarkedApart, MarkedListed, MaxKnown, MaxCovers,
           CloseAsked, Rounds, At
<1> QED
  BY <1>5, <1>6

\* AT+TCPDISCONNECT and AT+TCPUNLISTEN take a socket out of g_r_set in the step
\* that marks it.
LEMMA MarksWatching ==
  ASSUME ~Overlap, IInv, Watching,
         (\E f \in Fds : Disconnect(f)) \/ (\E p \in Ports : Unlisten(p))
  PROVE  Watching'
<1>1. /\ pc \in {"off", "select"}
      /\ UNCHANGED <<listens, normals, max_sd, pc, r_set, closeitem, net>>
  BY DEF Disconnect, Unlisten, MayCommand, Asleep, lists, round
<1>2. PICK f, found : /\ found \subseteq {f} /\ found \subseteq Listed
                      /\ marked' = marked \union found /\ asked' = asked \union found
                      /\ watched' = watched \ {f}
  <2>1. CASE \E f \in Fds : Disconnect(f)
    <3>1. PICK f \in Fds : Disconnect(f)
      BY <2>1
    <3> DEFINE found == {f} \intersect Members(normals)
    <3>2. /\ found \subseteq {f} /\ found \subseteq Listed
          /\ marked' = marked \union found /\ asked' = asked \union found
          /\ watched' = watched \ {f}
      BY <3>1 DEF Disconnect, Listed
    <3> HIDE DEF found
    <3> QED
      BY <3>2
  <2>2. CASE \E p \in Ports : Unlisten(p)
    <3>1. PICK f \in Members(listens) : /\ marked' = marked \union {f}
                                       /\ asked' = asked \union {f}
                                       /\ watched' = watched \ {f}
      BY <2>2 DEF Unlisten
    <3>2. {f} \subseteq Listed
      BY DEF Listed
    <3> QED
      BY <3>1, <3>2
  <2> QED
    BY <2>1, <2>2
<1>3. Listed' = Listed /\ closeitem = End
  BY <1>1, RoundFacts DEF Listed
<1> QED
  BY <1>1, <1>2, <1>3, RoundFacts
     DEF Watching, WatchedListed, MarkedApart, MarkedListed, MaxKnown, MaxCovers,
         CloseAsked, At

-----------------------------------------------------------------------------
(* A round of recv_task.  AskedStep: what leaves the lists in it has been  *)
(* asked for.                                                              *)

AskedStep == \A f \in Listed \ Listed' : f \in asked \/ net[f] = "gone" \/ At("term")

\* A new round forgets the marks and learns the maximum; select gets what is
\* watched.
LEMMA SelectWatching ==
  ASSUME IInv, Watching, Begin \/ Top \/ Select \/ Wake \/ Timeout \/ Ended \/ Forget
  PROVE  Watching'
<1>1. /\ UNCHANGED <<listens, normals, watched, net, asked>> /\ Listed' = Listed
      /\ closeitem = End /\ closeitem' = End
  <2>1. UNCHANGED <<listens, normals, watched, net, asked>>
    BY DEF Begin, Top, Select, Wake, Timeout, Ended, Forget, Walk, lists, sets, world
  <2>2. pc \notin {"listen", "normal"}
    BY DEF Begin, Top, Select, Wake, Timeout, Ended, Forget, At
  <2>3. closeitem' \in {closeitem, End}
    BY DEF Begin, Top, Select, Wake, Timeout, Ended, Forget, Walk
  <2> QED
    BY <2>1, <2>2, <2>3, RoundFacts DEF Listed
<1>2. WatchedListed' /\ watched \subseteq Listed /\ End \notin watched
  BY <1>1, RoundFacts DEF Watching, WatchedListed
<1>3. CASE Top
  <2>1. CASE pc' = "copy"
    <3>1. marked' = {} /\ max_sd' = UpdatedMax
      BY <1>3, <2>1 DEF Top, GoTo
    <3> QED
      BY <1>1, <1>2, <2>1, <3>1, MaxUpdated
         DEF Watching, MarkedApart, MarkedListed, MaxKnown, MaxCovers, CloseAsked, At
  <2>2. CASE pc' # "copy"
    <3>1. pc' = "term"
      BY <1>3, <2>2 DEF Top, GoTo
    <3> QED
      BY <1>1, <1>2, <3>1
         DEF Watching, MarkedApart, MarkedListed, MaxKnown, MaxCovers, CloseAsked,
             Rounds, At
  <2> QED
    BY <2>1, <2>2
<1>4. CASE Select \/ Wake \/ Timeout
  <2>1. /\ pc \in Rounds \ Closing /\ UNCHANGED <<marked, max_sd>>
    BY <1>4 DEF Select, Wake, Timeout, At, Rounds, Closing, sets
  <2>2. pc' = "select" => /\ \A f \in r_set' : f <= max_sd
                          /\ r_set' \subseteq Listed
    <3> SUFFICES ASSUME pc' = "select"
                 PROVE  /\ \A f \in r_set' : f <= max_sd
                        /\ r_set' \subseteq Listed
      OBVIOUS
    <3>1. pc = "copy" /\ r_set' = watched
      BY <1>4 DEF Select, Wake, Timeout, Walk, At, GoTo
    <3> QED
      BY <1>2, <3>1 DEF Watching, MaxKnown
  <2>3. pc' # "copy" /\ (pc' \in Rounds \/ pc' = "term")
    BY <1>4 DEF Select, Wake, Timeout, Walk, GoTo, Rounds
  <2> QED
    BY <1>1, <1>2, <2>1, <2>2, <2>3
       DEF Watching, MarkedApart, MarkedListed, MaxKnown, MaxCovers, CloseAsked, At
<1>5. CASE Begin \/ Ended \/ Forget
  <2>1. pc' \in {"top", "last", "off"}
    BY <1>5 DEF Begin, Ended, Forget, GoTo
  <2> QED
    BY <1>1, <1>2, <2>1
       DEF Watching, MarkedApart, MarkedListed, MaxKnown, MaxCovers, CloseAsked,
           Rounds, At
<1> QED
  BY <1>3, <1>4, <1>5

\* A socket that is closed leaves its list, and is watched no more.
LEMMA ClosedWatching ==
  ASSUME IInv, Watching, pc' \in Closing \union {"top"}, pc \in Rounds,
         NEW c, c \notin watched, c \in Listed => c \in asked \/ net[c] = "gone",
         Listed' = Listed \ {c}, asked' = asked \ {c},
         watched' \subseteq watched, UNCHANGED marked,
         closeitem' # End => closeitem' \in Listed' /\ closeitem' \notin watched',
         closeitem' # End => closeitem' \in asked' \/ net'[closeitem'] = "gone"
  PROVE  Watching' /\ AskedStep
<1>1. WatchedListed' /\ AskedStep
  BY DEF Watching, WatchedListed, AskedStep
<1>2. End \notin watched'
  BY RoundFacts
<1>3. pc' \notin {"copy", "select"} /\ (pc' \in Closing \/ pc' \notin Rounds)
  BY DEF Closing, Rounds
<1>4. marked' \intersect Listed' \subseteq asked' /\ marked' \intersect watched' = {}
  BY DEF Watching, CloseAsked, MarkedApart
<1> QED
  BY <1>1, <1>2, <1>3, <1>4
     DEF Watching, MarkedApart, MarkedListed, MaxKnown, MaxCovers, CloseAsked, At

\* After a timeout only marked sockets are closed.
LEMMA ExpireWatching ==
  ASSUME IInv, Watching, ExpireListen \/ ExpireListensEnd \/ ExpireNormal \/ ExpireEnd
  PROVE  Watching' /\ AskedStep
<1>1. /\ pc \in {"expire listens", "expire normals"} /\ pc \in Rounds
      /\ pc' \in Closing \union {"top"} /\ closeitem' = closeitem
      /\ UNCHANGED <<watched, marked>>
  BY DEF ExpireListen, ExpireListensEnd, ExpireNormal, ExpireEnd, At, GoTo, Rounds,
     Closing, sets
<1>2. closeitem = End
  BY <1>1, RoundFacts
<1>3. CASE UNCHANGED <<listens, normals, asked>>
  <2>1. Listed' = Listed \ {End} /\ asked' = asked \ {End} /\ End \notin watched
        /\ End \notin Listed
    BY <1>3, RoundFacts, Facts DEF Listed, IInv, TypeOK
  <2> QED
    BY <1>1, <1>2, <2>1, ClosedWatching
<1>4. CASE ~UNCHANGED <<listens, normals, asked>>
  <2>1. /\ item \in marked /\ asked' = asked \ {item}
        /\ \/ item \in Members(listens) /\ normals' = normals /\ listens' = Without(listens, item)
           \/ item \in Members(normals) /\ listens' = listens /\ normals' = Without(normals, item)
    BY <1>4 DEF ExpireListen, ExpireListensEnd, ExpireNormal, ExpireEnd, At, lists, world,
       Closes, IInv, Walking
  <2>2. Listed' = Listed \ {item} /\ item \in Listed
    BY <2>1, Facts, WithoutSorted DEF Listed
  <2>3. item \notin watched /\ item \in asked
    BY <1>1, <2>1, <2>2 DEF Watching, MarkedApart, CloseAsked
  <2> QED
    BY <1>1, <1>2, <2>1, <2>2, <2>3, ClosedWatching
<1> QED
  BY <1>3, <1>4

\* The walk over the only listening socket: nothing is closed yet when it
\* accepts.
LEMMA ListenWatching ==
  ASSUME HeadAbove, IInv, Watching, OneListener, ListenItem
  PROVE  Watching' /\ AskedStep
<1>1. /\ pc = "listen" /\ pc' = "listen" /\ pc \in Rounds \ Closing
      /\ item \in Members(listens) /\ item \in Listed
      /\ closeitem # End => closeitem \in Members(listens) /\ closeitem < item
      /\ UNCHANGED <<marked, max_sd, r_set>>
  BY DEF ListenItem, At, IInv, Walking, InWalk, Rounds, Closing, Listed
<1>2. closeitem = End
  <2>1. \A x \in Members(listens) : x \in Nat
    BY Facts
  <2>2. ~ (closeitem < closeitem) \/ closeitem \notin Members(listens)
    BY <2>1
  <2> QED
    BY <1>1, <2>2 DEF OneListener
<1>3. StillOpen = open /\ Members(listens') = Members(listens) /\ asked' = asked
  <2>1. End \notin open /\ End \notin asked /\ End \notin Members(listens)
    BY Facts DEF IInv, TypeOK
  <2>2. Members(listens') = Members(listens) \ {End}
    BY <1>2, Facts, WithoutSorted DEF ListenItem
  <2> QED
    BY <1>2, <2>1, <2>2 DEF ListenItem, StillOpen
<1>4. /\ watched \subseteq Listed /\ marked \intersect watched = {} /\ marked \subseteq Listed
      /\ marked \intersect Listed \subseteq asked
      /\ End \notin watched /\ End \notin Listed
  BY <1>1, RoundFacts DEF Watching, WatchedListed, MarkedApart, MarkedListed, CloseAsked
<1>5. CASE UNCHANGED <<normals, watched>>
  <2>1. Listed' = Listed
    BY <1>3, <1>5 DEF Listed
  <2>2. closeitem' # End => closeitem' \in marked
    BY DEF ListenItem, ListenClose, ListenAccept, ListenSkip
  <2>3. closeitem' \notin watched'
    BY <1>4, <1>5, <2>2
  <2> QED
    BY <1>1, <1>3, <1>4, <1>5, <2>1, <2>2, <2>3
       DEF Watching, WatchedListed, MarkedApart, MarkedListed, MaxKnown, MaxCovers,
           CloseAsked, AskedStep, At
<1>6. CASE ~UNCHANGED <<normals, watched>>
  <2> DEFINE fork == Lowest(Fds \ open)
  <2>1. /\ open # Fds /\ closeitem' = End
        /\ normals' = Insert(normals, fork) /\ watched' = watched \union {fork}
    BY <1>3, <1>6 DEF ListenItem, ListenClose, ListenAccept, ListenSkip
  <2>2. fork \in Fds /\ fork \notin open
    <3>1. Fds \ open # {}
      BY <2>1, Facts
    <3> QED
      BY <3>1, LowestFree
  <2> HIDE DEF fork
  <2>3. Listed' = Listed \union {fork} /\ fork \notin Listed
    BY <1>3, <2>1, <2>2, Facts, InsertSorted DEF Listed
  <2>4. marked' \intersect watched' = {} /\ closeitem' \notin watched'
    BY <1>1, <1>4, <2>1, <2>2, <2>3, Facts
  <2> QED
    BY <1>1, <1>3, <1>4, <2>1, <2>3, <2>4
       DEF Watching, WatchedListed, MarkedApart, MarkedListed, MaxKnown, MaxCovers,
           CloseAsked, AskedStep, At
<1> QED
  BY <1>5, <1>6

\* The item kept back goes one step later.
LEMMA WalkWatching ==
  ASSUME IInv, Watching, ListenEnd \/ NormalItem \/ NormalEnd
  PROVE  Watching' /\ AskedStep
<1>1. /\ pc \in {"listen", "normal"} /\ pc \in Rounds /\ pc' \in Closing \union {"top"}
      /\ asked' = asked \ {closeitem} /\ UNCHANGED <<watched, marked>>
  BY DEF ListenEnd, NormalItem, NormalEnd, At, GoTo, Closes, Rounds, Closing, sets
<1>2. Listed' = Listed \ {closeitem}
  <2>1. CASE ListenEnd
    <3>1. closeitem \notin Members(normals)
      BY <2>1, Facts, MembersAreFds DEF ListenEnd, At, IInv, Walking, InWalk
    <3> QED
      BY <2>1, <3>1, Facts, WithoutSorted DEF ListenEnd, Listed
  <2>2. CASE NormalItem \/ NormalEnd
    <3>1. closeitem \notin Members(listens)
      BY <2>2, Facts, MembersAreFds DEF NormalItem, NormalEnd, At, IInv, Walking, InWalk
    <3> QED
      BY <2>2, <3>1, Facts, WithoutSorted DEF NormalItem, NormalEnd, Listed
  <2> QED
    BY <2>1, <2>2
<1>3. closeitem \notin watched /\ (closeitem # End => closeitem \in asked \/ net[closeitem] = "gone")
  BY <1>1 DEF Watching, MarkedApart, CloseAsked
<1>4. closeitem' # End => closeitem' \in marked /\ closeitem' \in Listed /\ closeitem' # closeitem
  <2> SUFFICES ASSUME closeitem' # End
               PROVE  closeitem' \in marked /\ closeitem' \in Listed /\ closeitem' # closeitem
    OBVIOUS
  <2>1. pc = "normal" /\ item # End /\ item \in marked /\ closeitem' = item
    BY DEF ListenEnd, NormalItem, NormalEnd, At
  <2>2. item \in Members(normals) /\ (closeitem # End => closeitem < item)
    BY <2>1 DEF IInv, Walking, InWalk
  <2>3. item \in Nat
    BY <2>2, Facts
  <2>4. item # closeitem
    BY <2>1, <2>2, <2>3
  <2> QED
    BY <2>1, <2>2, <2>4 DEF Listed
<1>5. closeitem' # End => closeitem' \in Listed' /\ closeitem' \notin watched' /\ closeitem' \in asked'
  BY <1>1, <1>2, <1>4 DEF Watching, MarkedApart, CloseAsked
<1>6. closeitem \in Listed => closeitem \in asked \/ net[closeitem] = "gone"
  BY <1>3, RoundFacts
<1> QED
  BY <1>1, <1>2, <1>3, <1>5, <1>6, ClosedWatching

\* A peer that has gone: its socket is watched no more and closed next.
LEMMA RecvWatching ==
  ASSUME IInv, Watching, Recv
  PROVE  Watching' /\ AskedStep
<1>1. /\ pc = "recv" /\ pc \in Rounds /\ pc' \in Closing /\ item \in Members(normals)
      /\ UNCHANGED <<listens, normals, marked, asked>> /\ closeitem = End
  BY RoundFacts
     DEF Recv, RecvData, RecvWhole, RecvEnd, At, GoTo, Rounds, Closing, lists, IInv, Walking
<1>2. Listed' = Listed \ {End} /\ asked' = asked \ {End} /\ End \notin Listed /\ End \notin watched
  BY <1>1, RoundFacts, Facts DEF Listed, IInv, TypeOK
<1>3. /\ watched' \subseteq watched
      /\ closeitem' # End => /\ closeitem' \in Listed' /\ closeitem' \notin watched'
                             /\ net'[closeitem'] = "gone"
  BY <1>1, <1>2 DEF Recv, RecvData, RecvWhole, RecvEnd, Listed
<1> QED
  BY <1>1, <1>2, <1>3, ClosedWatching

\* The end of the task closes all.
LEMMA TerminateWatching ==
  ASSUME IInv, Watching, Terminate
  PROVE  Watching' /\ AskedStep
<1>1. /\ pc = "term" /\ pc' = "ending" /\ watched' = {} /\ closeitem' = End
  BY RoundFacts DEF Terminate, At, GoTo
<1>2. WatchedListed' /\ AskedStep
  BY <1>1 DEF WatchedListed, AskedStep, At
<1> QED
  BY <1>1, <1>2
     DEF Watching, MarkedApart, MarkedListed, MaxKnown, MaxCovers, CloseAsked, Rounds, At

\* What arrives comes to a socket with nothing ready.
LEMMA NetworkWatching ==
  ASSUME IInv, Watching, Network
  PROVE  Watching'
<1>1. UNCHANGED <<listens, normals, watched, marked, max_sd, pc, r_set, closeitem, asked>>
  BY DEF Network, Arrives, lists, sets, round
<1>2. closeitem # End /\ net[closeitem] = "gone" => net'[closeitem] = "gone"
  BY DEF Network, Arrives, IInv, TypeOK
<1> QED
  BY <1>1, <1>2, WatchingStays

-----------------------------------------------------------------------------
(* Commands between the rounds: what is watched is served.                 *)

\* Nobody enters a socket while recv_task is on its way to its end.
LEMMA NextServing ==
  ASSUME ~Overlap, IInv, Serving, [Next]_vars
  PROVE  Serving'
<1> USE DEF Serving, TaskKnown, Served
<1>1. CASE Socket \/ OpenFails \/ CliWaits \/ Network
  BY <1>1 DEF Socket, OpenFails, CliWaits, CheckTask, TaskEnded, Network, Arrives,
     sets, task, round
<1>2. CASE AddClient \/ AddServer
  <2>1. pc \in {"off", "select"} /\ pc' = (IF inst THEN pc ELSE "start") /\ inst'
    BY <1>2 DEF AddClient, AddServer, Watch, MayCommand, Asleep
  <2> QED
    BY <2>1
<1>3. CASE (\E f \in Fds : Disconnect(f)) \/ (\E p \in Ports : Unlisten(p))
  <2>1. watched' \subseteq watched /\ UNCHANGED <<inst, pc>>
    BY <1>3 DEF Disconnect, Unlisten, task, round
  <2> QED
    BY <2>1
<1>4. CASE Begin \/ Top \/ Select \/ Wake \/ Timeout
  <2>1. /\ pc \in {"start", "top", "copy", "select"}
        /\ pc' \in {"top", "copy", "select", "term", "listen", "expire listens"}
        /\ UNCHANGED <<watched, inst>>
    BY <1>4 DEF Begin, Top, Select, Wake, Timeout, Walk, At, GoTo, sets, task
  <2> QED
    BY <2>1
<1>5. CASE ExpireListen \/ ExpireListensEnd \/ ExpireNormal \/ ExpireEnd
  <2>1. /\ pc \in {"expire listens", "expire normals"}
        /\ pc' \in {"expire listens", "expire normals", "top"}
        /\ UNCHANGED <<watched, inst>>
    BY <1>5 DEF ExpireListen, ExpireListensEnd, ExpireNormal, ExpireEnd, At, GoTo, sets, task
  <2> QED
    BY <2>1
<1>6. CASE ListenItem \/ ListenEnd \/ NormalItem \/ Recv \/ NormalEnd
  <2>1. /\ pc \in {"listen", "normal", "recv"}
        /\ pc' \in {"listen", "normal", "recv", "top"} /\ UNCHANGED inst
    BY <1>6 DEF ListenItem, ListenEnd, NormalItem, Recv, RecvData, RecvWhole, RecvEnd,
       NormalEnd, At, GoTo, task
  <2> QED
    BY <2>1
<1>7. CASE Terminate
  BY <1>7 DEF Terminate, At, GoTo, task
<1>8. CASE Ended \/ Forget
  <2>1. pc \in {"ending", "last"} /\ UNCHANGED watched
    BY <1>8 DEF Ended, Forget, At, sets
  <2> QED
    BY <1>8, <2>1 DEF Ended, Forget, GoTo
<1>9. CASE UNCHANGED vars
  BY <1>9 DEF vars, sets, task, round
<1> QED
  BY <1>1, <1>2, <1>3, <1>4, <1>5, <1>6, <1>7, <1>8, <1>9 DEF Next, RecvTask, OpenReturns

-----------------------------------------------------------------------------
(* Ports, whoever overlaps.                                                *)

\* A step that takes sockets off the list and clears the port of those only.
LEMMA PortsStay ==
  ASSUME IInv, PortsHeld, Members(listens') \subseteq Members(listens),
         \A f \in Members(listens') : port'[f] = port[f]
  PROVE  PortsHeld'
BY DEF PortsHeld

\* bind refuses a port that is taken, and a socket loses its port as it leaves
\* the list.
LEMMA NextPorts ==
  ASSUME HeadAbove, IInv, PortsHeld, [Next]_vars
  PROVE  PortsHeld'
<1>t. port \in [Fds -> Ports \union {0}] /\ Members(listens) \subseteq Fds
  BY Facts DEF IInv, TypeOK
<1>1. CASE UNCHANGED <<listens, port>>
  BY <1>1, PortsStay
<1>2. CASE AddServer
  <2>1. PICK p \in Ports \ {port[f] : f \in Members(listens)} :
          port' = [port EXCEPT ![cli.fd] = p]
    BY <1>2 DEF AddServer
  <2>2. cli.fd \in Fds /\ cli.fd \notin Members(listens)
    BY <1>2 DEF AddServer, IInv, Fresh, TypeOK, Listed
  <2>3. Members(listens') = Members(listens) \union {cli.fd}
    BY <1>2, <2>2, Facts, InsertSorted DEF AddServer
  <2>4. port'[cli.fd] = p /\ \A f \in Members(listens) : port'[f] = port[f] /\ port[f] # p
    BY <1>t, <2>1, <2>2
  <2> QED
    BY <2>3, <2>4 DEF PortsHeld
<1>3. CASE ExpireListen
  <2>1. CASE item \in marked
    <3>1. listens' = Without(listens, item) /\ port' = Unbound({item})
      BY <1>3, <2>1 DEF ExpireListen, Closes
    <3>2. Members(listens') = Members(listens) \ {item}
      BY <3>1, Facts, WithoutSorted
    <3>3. \A f \in Members(listens') : port'[f] = port[f]
      BY <1>t, <3>1, <3>2 DEF Unbound
    <3> QED
      BY <3>2, <3>3, PortsStay
  <2>2. CASE item \notin marked
    BY <1>1, <1>3, <2>2 DEF ExpireListen
  <2> QED
    BY <2>1, <2>2
<1>4. CASE ExpireNormal
  <2>1. item \notin Members(listens) /\ listens' = listens
    BY <1>4, Facts DEF ExpireNormal, At, IInv, Walking
  <2>2. \A f \in Members(listens) : port'[f] = port[f]
    BY <1>4, <1>t, <2>1 DEF ExpireNormal, Closes, Unbound
  <2> QED
    BY <2>1, <2>2, PortsStay
<1>5. CASE ListenItem \/ ListenEnd
  <2>1. port' = Unbound({closeitem}) /\ listens' = Without(listens, closeitem)
    BY <1>5 DEF ListenItem, ListenEnd, Closes
  <2>2. Members(listens') = Members(listens) \ {closeitem}
    BY <2>1, Facts, WithoutSorted
  <2>3. \A f \in Members(listens') : port'[f] = port[f]
    BY <1>t, <2>1, <2>2 DEF Unbound
  <2> QED
    BY <2>2, <2>3, PortsStay
<1>6. CASE NormalItem \/ NormalEnd
  <2>1. closeitem \notin Members(listens) /\ listens' = listens /\ port' = Unbound({closeitem})
    BY <1>6, Facts, MembersAreFds DEF NormalItem, NormalEnd, At, Closes, IInv, Walking, InWalk
  <2>2. \A f \in Members(listens) : port'[f] = port[f]
    BY <1>t, <2>1 DEF Unbound
  <2> QED
    BY <2>1, <2>2, PortsStay
<1>7. CASE Terminate
  BY <1>7 DEF Terminate, PortsHeld, Members
<1>8. CASE Socket \/ OpenFails \/ AddClient \/ CliWaits
  BY <1>1, <1>8 DEF Socket, OpenFails, AddClient, CliWaits, CheckTask, TaskEnded, lists
<1>9. CASE (\E f \in Fds : Disconnect(f)) \/ (\E p \in Ports : Unlisten(p))
  BY <1>1, <1>9 DEF Disconnect, Unlisten, lists
<1>10. CASE Begin \/ Top \/ Select \/ Wake \/ Timeout \/ Ended \/ Forget
  BY <1>1, <1>10 DEF Begin, Top, Select, Wake, Timeout, Ended, Forget, lists
<1>11. CASE ExpireListensEnd \/ ExpireEnd \/ Recv \/ Network
  BY <1>1, <1>11 DEF ExpireListensEnd, ExpireEnd, Recv, Network, Arrives, lists
<1>12. CASE UNCHANGED vars
  BY <1>1, <1>12 DEF vars, lists
<1> QED
  BY <1>2, <1>3, <1>4, <1>5, <1>6, <1>7, <1>8, <1>9, <1>10, <1>11, <1>12
     DEF Next, OpenReturns, RecvTask

-----------------------------------------------------------------------------
(* The invariants, and what follows.                                       *)

LEMMA NextWatching ==
  ASSUME HeadAbove, ~Overlap, IInv, Watching, OneListener, [Next]_vars
  PROVE  Watching' /\ AskedStep
<1>1. CASE Socket \/ OpenReturns \/ CliWaits
  <2>1. Watching'
    BY <1>1, SocketWatching, AddWatching DEF OpenReturns
  <2>2. Listed \subseteq Listed'
    <3>1. CASE AddClient \/ AddServer
      <4>1. cli.fd \in Fds /\ cli.fd \notin Listed
        BY <3>1 DEF AddClient, AddServer, IInv, Fresh, TypeOK
      <4> QED
        BY <3>1, <4>1, Facts, InsertSorted DEF AddClient, AddServer, Listed
    <3>2. CASE Socket \/ OpenFails \/ CliWaits
      BY <3>2 DEF Socket, OpenFails, CliWaits, CheckTask, TaskEnded, lists, Listed
    <3> QED
      BY <1>1, <3>1, <3>2 DEF OpenReturns
  <2> QED
    BY <2>1, <2>2 DEF AskedStep
<1>2. CASE (\E f \in Fds : Disconnect(f)) \/ (\E p \in Ports : Unlisten(p))
  <2>1. Listed' = Listed
    BY <1>2 DEF Disconnect, Unlisten, lists, Listed
  <2> QED
    BY <1>2, <2>1, MarksWatching DEF AskedStep
<1>3. CASE Begin \/ Top \/ Select \/ Wake \/ Timeout \/ Ended \/ Forget
  <2>1. Listed' = Listed
    BY <1>3 DEF Begin, Top, Select, Wake, Timeout, Ended, Forget, lists, Listed
  <2> QED
    BY <1>3, <2>1, SelectWatching DEF AskedStep
<1>4. CASE ExpireListen \/ ExpireListensEnd \/ ExpireNormal \/ ExpireEnd
  BY <1>4, ExpireWatching
<1>5. CASE ListenItem
  BY <1>5, ListenWatching
<1>6. CASE ListenEnd \/ NormalItem \/ NormalEnd
  BY <1>6, WalkWatching
<1>7. CASE Recv \/ Terminate
  BY <1>7, RecvWatching, TerminateWatching
<1>8. CASE Network
  <2>1. Listed' = Listed
    BY <1>8 DEF Network, Arrives, lists, Listed
  <2> QED
    BY <1>8, <2>1, NetworkWatching DEF AskedStep
<1>9. CASE UNCHANGED vars
  <2>1. Listed' = Listed
    BY <1>9 DEF vars, lists, Listed
  <2>2. Watching'
    BY <1>9, WatchingStays DEF vars, lists, sets, round, world
  <2> QED
    BY <2>1, <2>2 DEF AskedStep
<1> QED
  BY <1>1, <1>2, <1>3, <1>4, <1>5, <1>6, <1>7, <1>8, <1>9 DEF Next, RecvTask

\* A port belongs to one listening socket, whatever is closed late and
\* whoever overlaps: the search of AT+TCPUNLISTEN by port finds the one.
THEOREM PortsExclusive ==
  ASSUME HeadAbove
  PROVE  Spec => []PortsHeld
<1>1. Init => PortsHeld
  BY InitWatching
<1>2. IInv /\ PortsHeld /\ [Next]_vars => PortsHeld'
  BY NextPorts
<1> QED
  BY <1>1, <1>2, SockMgrInductive, PTL DEF Spec

\* A watched socket has a recv_task that has not passed the point from where
\* it goes to its end without another look.
THEOREM WatchedAreServed ==
  ASSUME HeadAbove, ~Overlap
  PROVE  Spec => []Served
<1>1. Init => Serving
  BY InitWatching
<1>2. IInv /\ Serving /\ [Next]_vars => Serving'
  BY NextServing
<1>3. Serving => Served
  BY DEF Serving
<1> QED
  BY <1>1, <1>2, <1>3, SockMgrInductive, PTL DEF Spec

\* The inductive invariant of the rounds, as long as one socket listens at a
\* time.
THEOREM RoundInductive ==
  ASSUME HeadAbove, ~Overlap
  PROVE  Spec /\ []OneListener => []Watching
<1>1. Init => Watching
  BY InitWatching
<1>2. IInv /\ Watching /\ OneListener /\ [Next]_vars => Watching'
  BY NextWatching
<1> QED
  BY <1>1, <1>2, SockMgrInductive, PTL DEF Spec

\* While recv_task sleeps in select, the stack was told of every descriptor
\* of its set.
THEOREM MaximumCovers ==
  ASSUME HeadAbove, ~Overlap
  PROVE  Spec /\ []OneListener => []MaxCovers
<1>1. Watching => MaxCovers
  BY DEF Watching
<1> QED
  BY <1>1, RoundInductive, PTL

\* select never sleeps on a descriptor that has been closed.
THEOREM SelectsOnOpen ==
  ASSUME HeadAbove, ~Overlap
  PROVE  Spec /\ []OneListener => []WatchedOpen
<1>1. IInv /\ Watching => WatchedOpen
  BY RoundFacts DEF Watching, MaxKnown, WatchedOpen, At
<1> QED
  BY <1>1, RoundInductive, SockMgrInductive, PTL

\* A descriptor in g_r_set, what AT+TCPSEND and UDPSEND ask for, is on a list.
THEOREM WatchedAreListed ==
  ASSUME HeadAbove, ~Overlap
  PROVE  Spec /\ []OneListener => []WatchedListed
<1>1. Watching => WatchedListed
  BY DEF Watching
<1> QED
  BY <1>1, RoundInductive, PTL

\* A round closes a socket only if a command has asked for it since it was
\* opened or its peer has gone; only the end of the task takes the rest.
THEOREM ClosesOnlyAsked ==
  ASSUME HeadAbove, ~Overlap
  PROVE  Spec /\ []OneListener => OnlyAsked
<1>1. IInv /\ Watching /\ OneListener /\ [Next]_vars
        => [\A f \in Listed \ Listed' : f \in asked \/ net[f] = "gone" \/ At("term")]_vars
  BY NextWatching DEF AskedStep
<1> QED
  BY <1>1, RoundInductive, SockMgrInductive, PTL DEF Spec, OnlyAsked

\* With one port to listen on, one socket listens at a time.
THEOREM OnePortOneListener ==
  ASSUME HeadAbove, \A p, q \in Ports : p = q
  PROVE  Spec => []OneListener
<1>1. PortsHeld => OneListener
  BY DEF PortsHeld, OneListener
<1> QED
  BY <1>1, PortsExclusive, PTL

=============================================================================
