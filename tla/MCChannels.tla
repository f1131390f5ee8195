------------------------------ MODULE MCChannels ------------------------------
(* Small instances of the parts that customers meet: messages, phone calls,    *)
(* and the customer records behind them. The parts share no rows, so a         *)
(* behaviour is one of either. Requests of one kind are interchangeable, also  *)
(* where parts name them alike. A behaviour of the messaging part has one      *)
(* disturbance, an administrator's or a fault.                                 *)
EXTENDS Messaging, Telephony, Customers, TLC

CONSTANTS p1, p2, h1, h2

VARIABLE part

Interchangeable == Permutations({p1, p2}) \cup Permutations({h1, h2})

Init ==
    /\ part \in {"messaging", "telephony", "customers"}
    /\ MessagingInit /\ TelephonyInit /\ CustInit

Next ==
    \/ part = "messaging" /\ MessagingNext /\ admin' + msgFaults' <= 1
       /\ UNCHANGED <<part, telVars, custVars>>
    \/ part = "telephony" /\ TelephonyNext /\ UNCHANGED <<part, mVars, custVars>>
    \/ part = "customers" /\ CustNext /\ UNCHANGED <<part, mVars, telVars>>

Spec == Init /\ [][Next]_<<part, mVars, telVars, custVars>>
===============================================================================
