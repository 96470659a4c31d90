------------------------------ MODULE Requests ------------------------------
(***************************************************************************)
(* What a driver promises that passes requests on to a device and waits:   *)
(* every call gets the answer the device gave to this very call, or a      *)
(* failure of the driver's own.                                            *)
(***************************************************************************)
CONSTANTS Clients, Answers, Failure

VARIABLES
  asked,      \* clients whose call the device has not answered
  answer,     \* the device's answer to each client's call in progress
  result      \* what each client's last call returned

rqVars == <<asked, answer, result>>

RqInit ==
  /\ asked = {}
  /\ answer = [c \in Clients |-> Failure]
  /\ result \in [Clients -> Answers \cup {Failure}]

(* a client calls *)
Ask(c) ==
  /\ c \notin asked
  /\ asked' = asked \cup {c}
  /\ UNCHANGED <<answer, result>>

(* the device answers one of the calls *)
Answer(c, a) ==
  /\ c \in asked
  /\ asked' = asked \ {c}
  /\ answer' = [answer EXCEPT ![c] = a]
  /\ UNCHANGED result

(* the call returns the answer, or fails behind it *)
Return(c) ==
  /\ c \notin asked
  /\ answer[c] # Failure
  /\ answer' = [answer EXCEPT ![c] = Failure]
  /\ result' \in {[result EXCEPT ![c] = a] : a \in {answer[c], Failure}}
  /\ UNCHANGED asked

(* the call fails before the device sees it *)
Refuse(c) ==
  /\ c \notin asked
  /\ answer[c] = Failure
  /\ result' = [result EXCEPT ![c] = Failure]
  /\ UNCHANGED <<asked, answer>>

RqNext == \E c \in Clients :
  Ask(c) \/ (\E a \in Answers : Answer(c, a)) \/ Return(c) \/ Refuse(c)

RqSpec == RqInit /\ [][RqNext]_rqVars
=============================================================================
