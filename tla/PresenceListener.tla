-------------------------- MODULE PresenceListener --------------------------
(***************************************************************************)
(* What a listener for presence messages promises its client, whatever      *)
(* threads and descriptors it is made of.  The client turns it on with a    *)
(* callback and off again.  While it is on, the callback of the latest      *)
(* Listen hears the messages sent since then, each at most once and in      *)
(* order.  A listener that has nothing pending loses nothing; it may fail   *)
(* and go deaf, and then hears nothing until it is turned on anew.  Once    *)
(* turned off it hears nothing.                                             *)
(***************************************************************************)
EXTENDS Naturals, Sequences

VARIABLES
    state,      \* "off", "on" or "deaf"
    session,    \* which Listen's callback hears
    sent,       \* messages sent so far: the number of the latest
    pending,    \* the messages to be heard, oldest first
    heard       \* history: who heard what

contractVars == <<state, session, sent, pending, heard>>

ContractInit ==
    /\ state = "off" /\ session = 0 /\ sent = 0
    /\ pending = <<>> /\ heard = <<>>

\* A client turns a listener on only after the earlier one is off.
Listen ==
    /\ state = "off" /\ state' = "on"
    /\ session' > session
    /\ pending' = <<>>
    /\ UNCHANGED <<sent, heard>>

Sent ==
    /\ sent' = sent + 1
    /\ \/ state = "on" /\ pending' = Append(pending, sent + 1)
       \/ (state = "on" => pending # <<>>) /\ UNCHANGED pending
    /\ UNCHANGED <<state, session, heard>>

Hear ==
    /\ state = "on" /\ pending # <<>>
    /\ pending' = Tail(pending)
    /\ heard' = Append(heard, <<session, Head(pending)>>)
    /\ UNCHANGED <<state, session, sent>>

GoDeaf ==
    /\ state = "on" /\ state' = "deaf"
    /\ pending' = <<>>
    /\ UNCHANGED <<session, sent, heard>>

TurnOff ==
    /\ state # "off" /\ state' = "off"
    /\ pending' = <<>>
    /\ UNCHANGED <<session, sent, heard>>

ContractNext == Listen \/ Sent \/ Hear \/ GoDeaf \/ TurnOff

Contract == ContractInit /\ [][ContractNext]_contractVars
=============================================================================
