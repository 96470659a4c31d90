-------------------------------- MODULE Disk --------------------------------
(***************************************************************************)
(* What a disk driver promises the file system, which calls it for one     *)
(* request at a time: a request is carried out once, on the sector it      *)
(* names, and reported as the device says, done or failed.                 *)
(***************************************************************************)
CONSTANTS Sectors, Data

VARIABLES
  store,        \* [Sectors -> Data]
  request,      \* the request not yet carried out, if any
  answer,       \* what the device says of it, if the caller has not heard
  outcome       \* what the caller last heard; its data while it keeps them

Failed == [ok |-> FALSE]
Done(d) == [ok |-> TRUE, data |-> d]
DiskRequests == [op : {"in"}, sector : Sectors] \cup [op : {"out"}, sector : Sectors, data : Data]

DiskInit ==
  /\ store \in [Sectors -> Data]
  /\ request = {}
  /\ answer = {}
  /\ outcome = Failed

Ask(r) ==
  /\ request \cup answer = {}
  /\ request' = {r}
  /\ outcome' = Failed
  /\ UNCHANGED <<store, answer>>

ReadSector(r) ==
  /\ r.op = "in"
  /\ answer' = {Done(store[r.sector])}
  /\ UNCHANGED store

WriteSector(r) ==
  /\ r.op = "out"
  /\ store' = [store EXCEPT ![r.sector] = r.data]
  /\ answer' = {Done(r.data)}

(* a write that fails may or may not have changed the sector *)
FailRequest(r) ==
  /\ answer' = {Failed}
  /\ \/ UNCHANGED store
     \/ r.op = "out" /\ store' = [store EXCEPT ![r.sector] = r.data]

CarryOut ==
  /\ \E r \in request : ReadSector(r) \/ WriteSector(r) \/ FailRequest(r)
  /\ request' = {}
  /\ UNCHANGED outcome

Hear ==
  /\ outcome' \in answer
  /\ answer' = {}
  /\ UNCHANGED <<store, request>>

DiskNext == (\E r \in DiskRequests : Ask(r)) \/ CarryOut \/ Hear

DiskSpec == DiskInit /\ [][DiskNext]_<<store, request, answer, outcome>>
=============================================================================
