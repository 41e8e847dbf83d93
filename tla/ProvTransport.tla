---------------------------- MODULE ProvTransport ----------------------------
(***************************************************************************)
(* What the PB-ADV Generic Provisioning layer of prov.c promises the      *)
(* provisioning state machine (prov_msg_recv and the handlers above it):  *)
(* PDUs are handed up only while a link is open, each tagged with the    *)
(* link it arrived on, and within one link_open session at most once and *)
(* in the order of their transaction numbers.  A session ends when the   *)
(* link closes, possibly in the same step as a delivery (a handler that  *)
(* calls close_link).  Nothing is promised about gaps: a transaction may *)
(* be acknowledged and never handed up.                                   *)
(*                                                                         *)
(* GenProvRx is shown to implement this specification under the mapping  *)
(* session = the active link's id (0 when no link is active) and          *)
(* got = its ghost sequence of delivered <<link, transaction>> pairs.     *)
(***************************************************************************)
EXTENDS Naturals, Sequences

CONSTANTS
    Links,     \* link ids a provisioner may open
    Xacts      \* transaction numbers

NoSession == 0

ASSUME NoSession \notin Links

VARIABLES
    session,   \* the link of the current session, NoSession if none
    got        \* <<link, transaction>> handed up in the current session

vars == <<session, got>>

TypeOK ==
    /\ session \in Links \cup {NoSession}
    /\ got \in Seq(Links \X Xacts)

Init ==
    /\ session = NoSession
    /\ got = <<>>

\* A link opens; the new session starts with nothing delivered.
Open(l) ==
    /\ session = NoSession
    /\ session' = l
    /\ got' = <<>>

\* The link closes; what was delivered stays delivered.
Close ==
    /\ session # NoSession
    /\ session' = NoSession
    /\ UNCHANGED got

\* Transaction x can be handed up next: it is later than the last one.
Fresh(x) == got = <<>> \/ x > got[Len(got)][2]

Deliver(x) ==
    /\ session # NoSession
    /\ Fresh(x)
    /\ got' = Append(got, <<session, x>>)

Next ==
    \/ \E l \in Links : Open(l)
    \/ Close
    \/ \E x \in Xacts : Deliver(x) /\ UNCHANGED session
    \/ \E x \in Xacts : Deliver(x) /\ session' = NoSession

Spec == Init /\ [][Next]_vars

=============================================================================
