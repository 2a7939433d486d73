----------------------------- MODULE MessageRelay -----------------------------
(***************************************************************************)
(* What the server as a whole promises: a message that arrives from a       *)
(* connected peer is passed on at most once, and only to a peer that is     *)
(* connected when it is.  It may be dropped (no destination, a failed       *)
(* request), and messages may overtake each other.                          *)
(***************************************************************************)
EXTENDS Integers, Sequences

CONSTANTS Connections, Messages

VARIABLES connected,    \* peers connected
          arrived,      \* who each message came from, in the order of arrival
          sent          \* whom each message was passed on to

relay == <<connected, arrived, sent>>

RelayInit == connected = {} /\ arrived = <<>> /\ sent = [m \in Messages |-> <<>>]

Connect(c) ==
  /\ c \notin connected
  /\ connected' = connected \cup {c}
  /\ UNCHANGED <<arrived, sent>>

Disconnect(c) ==
  /\ c \in connected
  /\ connected' = connected \ {c}
  /\ UNCHANGED <<arrived, sent>>

Arrive(c) ==
  /\ c \in connected
  /\ arrived' = Append(arrived, c)
  /\ UNCHANGED <<connected, sent>>

PassOn(m, c) ==
  /\ c \in connected
  /\ sent[m] = <<>> /\ sent' = [sent EXCEPT ![m] = <<c>>]
  /\ UNCHANGED <<connected, arrived>>

RelayNext ==
  \E c \in Connections :
    \/ Connect(c) \/ Disconnect(c) \/ Arrive(c)
    \/ \E m \in 1..Len(arrived) : PassOn(m, c)

RelaySpec == RelayInit /\ [][RelayNext]_relay
=============================================================================
