------------------------------ MODULE AddressPool -----------------------------
(***************************************************************************)
(* What a DHCP server promises its stations, with no word of times, frames *)
(* or slots: a book of the addresses it has given out, and the stations    *)
(* that use them.  A station begins to use an address only while it is     *)
(* booked for it, and no booking is struck out or moved while it is used.  *)
(***************************************************************************)
CONSTANTS Stations, Addresses

VARIABLES
  book,  \* pairs of a station and the address booked for it
  use    \* pairs of a station and the address it uses

poolVars == <<book, use>>

OneToOne(pairs) == \A p, q \in pairs : p[1] = q[1] \/ p[2] = q[2] => p = q

Init == book = {} /\ use = {}

\* An address is booked for a station.  What is booked for that station or at
\* that address gives way, and other bookings may be struck out at the same
\* time, but none in use.
Book(c, a) ==
  /\ <<c, a>> \in book' /\ book' \subseteq book \cup {<<c, a>>}
  /\ OneToOne(book')
  /\ use \subseteq book'
  /\ UNCHANGED use

Strike ==
  /\ book' \subseteq book
  /\ use \subseteq book'
  /\ UNCHANGED use

\* A station uses the address that is booked for it, and no other.
Occupy(c, a) ==
  /\ <<c, a>> \in book
  /\ use' = {p \in use : p[1] # c} \cup {<<c, a>>}
  /\ UNCHANGED book

Vacate == use' \subseteq use /\ UNCHANGED book

\* The server starts again, and every station with it.
Reset == book' = {} /\ use' = {}

Next ==
  \/ Strike \/ Vacate \/ Reset
  \/ \E c \in Stations, a \in Addresses : Book(c, a) \/ Occupy(c, a)

Spec == Init /\ [][Next]_poolVars
=============================================================================
