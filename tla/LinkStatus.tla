------------------------------ MODULE LinkStatus ------------------------------
(***************************************************************************)
(* What the AT command task and the connection tasks of a TCP or SSL link  *)
(* may rely on from one another: a link comes up only as the verdict of a  *)
(* connection that is being made, and one is begun only while the link is  *)
(* down.  TcpLink implements it for all its tasks together, AppUart does   *)
(* with the connection tasks as its environment.                           *)
(***************************************************************************)
VARIABLES
  up,      \* DEV_MAGIC is in the record of the link
  dialing  \* a connection task has been created and has given no verdict

statusVars == <<up, dialing>>

Init == ~ up /\ ~ dialing

\* AT+CIPSTART.
Dial == ~ up /\ dialing' = TRUE /\ UNCHANGED up

\* The verdict of a connection task.  A host that does not wait may have begun
\* another one, which is not through yet.
Verdict == dialing /\ up' \in BOOLEAN /\ dialing' \in BOOLEAN

\* AT+CIPCLOSE, the end of the connection, or the loss of the Wi-Fi link.
Drop == up /\ up' = FALSE /\ UNCHANGED dialing

Next == Dial \/ Verdict \/ Drop

Spec == Init /\ [][Next]_statusVars
=============================================================================
