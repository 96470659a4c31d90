----------------------------- MODULE GrallocShm -----------------------------
(***************************************************************************)
(* The shared buffers of src/hardware/display/display_gralloc.c: a task    *)
(* allocates a buffer and hands its key to another process, which maps it; *)
(* each side lets it go in two calls, shmdt and then shmctl(IPC_RMID), and *)
(* neither knows whether the other has.  The kernel takes an identifier    *)
(* back with the last attachment of a removed segment, and gives it to the *)
(* next one.                                                               *)
(***************************************************************************)
EXTENDS Naturals, FiniteSets

CONSTANTS
  Tasks,         \* threads that call the gralloc functions
  Home,          \* the process of each
  SHM_MAX_KEY,
  Ids,           \* identifiers of the kernel's segments
  MaxBuffers     \* how many buffers are asked for

Buffers == 1..MaxBuffers
SHM_START_KEY == 1
Sides == {"own", "imp"}      \* the process that allocated it, and another one

VARIABLES
  seg,        \* per identifier: the buffer it was made for (0 when free), its
              \* key (0 when it can no longer be found) and whether it is removed
  attached,   \* per buffer and side, the identifier attached there, or 0
  nextKey,    \* per process, the static variable key of AllocShm
  hdl,        \* per buffer, its BufferHandle as its allocator has it
  view,       \* per buffer, what has come of it in the other process
  op,         \* per task, the call it is in
  exposed,    \* buffers whose identifier some task was about to remove already,
              \* or that are mapped through the handle of another
  stolen      \* buffers whose segment another buffer's release has removed

shmVars == <<seg, attached, nextKey, hdl, view, op, exposed, stolen>>

Free == [buf |-> 0, key |-> 0, removed |-> FALSE]
Idle == [at |-> "idle", buf |-> 0, id |-> 0, overlap |-> FALSE]

ShmTypeOK ==
  /\ seg \in [Ids -> [buf: 0..MaxBuffers, key: 0..(SHM_MAX_KEY - 1), removed: BOOLEAN]]
  /\ attached \in [Buffers -> [Sides -> Ids \union {0}]]
  /\ nextKey \in [{Home[t] : t \in Tasks} -> SHM_START_KEY..(SHM_MAX_KEY - 1)]
  /\ hdl \in [Buffers -> [at: {"unused", "wanted", "failed", "empty", "live", "freed"},
                          home: {Home[t] : t \in Tasks},
                          key: 0..(SHM_MAX_KEY - 1), id: Ids \union {0}, overlap: BOOLEAN]]
  /\ view \in [Buffers -> [at: {"none", "wanted", "failed", "mapped", "unmapped"},
                           id: Ids \union {0}, late: BOOLEAN]]
  /\ op \in [Tasks -> [at: {"idle", "get", "attach", "undo", "map", "rmid"},
                       buf: 0..MaxBuffers, id: Ids \union {0}, overlap: BOOLEAN]]
  /\ exposed \subseteq Buffers /\ stolen \subseteq Buffers

ShmInit ==
  /\ seg = [i \in Ids |-> Free]
  /\ attached = [b \in Buffers |-> [s \in Sides |-> 0]]
  /\ nextKey = [p \in {Home[t] : t \in Tasks} |-> SHM_START_KEY]
  /\ hdl = [b \in Buffers |-> [at |-> "unused", home |-> Home[CHOOSE t \in Tasks : TRUE],
                               key |-> 0, id |-> 0, overlap |-> FALSE]]
  /\ view = [b \in Buffers |-> [at |-> "none", id |-> 0, late |-> FALSE]]
  /\ op = [t \in Tasks |-> Idle]
  /\ exposed = {} /\ stolen = {}

----------------------------------------------------------------------------
(* the kernel's calls *)

Found(k) == {i \in Ids : seg[i].buf # 0 /\ seg[i].key = k}
Attachments(i) == {bs \in Buffers \X Sides : attached[bs[1]][bs[2]] = i}

Attach(b, s, i) == attached' = [attached EXCEPT ![b][s] = i]

(* shmdt: a removed segment goes with its last attachment *)
Detach(b, s) ==
  LET i == attached[b][s]
      last == Attachments(i) = {<<b, s>>}
  IN /\ attached' = [attached EXCEPT ![b][s] = 0]
     /\ seg' = IF last /\ seg[i].removed THEN [seg EXCEPT ![i] = Free] ELSE seg

(* shmctl(IPC_RMID): whether the key is given up at once is the kernel's *)
Remove(b, i) ==
  /\ \/ seg[i].buf = 0 /\ UNCHANGED seg
     \/ seg[i].buf # 0 /\ Attachments(i) = {} /\ seg' = [seg EXCEPT ![i] = Free]
     \/ /\ seg[i].buf # 0 /\ Attachments(i) # {}
        /\ \E k \in {0, seg[i].key} :
             seg' = [seg EXCEPT ![i].removed = TRUE, ![i].key = k]
  /\ stolen' = stolen \union ({seg[i].buf} \ {0, b})

(* tasks that have yet to remove identifier i *)
AboutToRemove(i) ==
  {t \in Tasks : op[t].id = i /\ op[t].at \in {"attach", "undo", "rmid"}}

Return(t) == op' = [op EXCEPT ![t] = Idle]

----------------------------------------------------------------------------
(* AllocMem of a buffer that is to be shared; when its size is 0 or too large *)
(* ret is still DISPLAY_SUCCESS and the caller gets a handle without memory,  *)
(* which FreeMem refuses                                                      *)
AllocMem(t) ==
  /\ op[t].at = "idle"
  /\ \E b \in Buffers :
       /\ hdl[b].at = "unused" /\ \A c \in 1..(b - 1) : hdl[c].at # "unused"
       /\ \/ /\ op' = [op EXCEPT ![t] = [Idle EXCEPT !.at = "get", !.buf = b]]
             /\ hdl' = [hdl EXCEPT ![b].at = "wanted", ![b].home = Home[t]]
          \/ /\ hdl' = [hdl EXCEPT ![b].at = "empty", ![b].home = Home[t]]
             /\ UNCHANGED op
  /\ UNCHANGED <<seg, attached, nextKey, view, exposed, stolen>>

NextKey(k) == IF k + 1 >= SHM_MAX_KEY THEN SHM_START_KEY ELSE k + 1

(* others of its process that have their segment and have yet to read key *)
Overlapped(t) == {u \in Tasks \ {t} : Home[u] = Home[t] /\ op[u].at = "attach"}
StepKey(t) == nextKey' = [nextKey EXCEPT ![Home[t]] = NextKey(@)]

(* shmget(IPC_CREAT | IPC_EXCL) refuses a key that is in use; without      *)
(* IPC_EXCL it would answer with the segment that is there                *)
BugTaken(k) == FALSE
Taken(k) == Found(k) # {}

(* the loop of AllocShm *)
KeyIsTaken(t) ==
  /\ op[t].at = "get" /\ Taken(nextKey[Home[t]])
  /\ StepKey(t)
  /\ op' = [u \in Tasks |->
              IF u \in Overlapped(t) THEN [op[u] EXCEPT !.overlap = TRUE] ELSE op[u]]
  /\ UNCHANGED <<seg, attached, hdl, view, exposed, stolen>>

GetSegment(t) ==
  LET b == op[t].buf
      k == nextKey[Home[t]]
  IN /\ op[t].at = "get" /\ ~ Taken(k)
     /\ \E i \in Ids :
          /\ IF Found(k) # {} THEN i \in Found(k) ELSE seg[i].buf = 0
          /\ seg' = IF Found(k) # {} THEN seg
                    ELSE [seg EXCEPT ![i] = [buf |-> b, key |-> k, removed |-> FALSE]]
          /\ op' = [op EXCEPT ![t].at = "attach", ![t].id = i]
          /\ exposed' = IF AboutToRemove(i) # {} THEN exposed \union {b} ELSE exposed
     /\ UNCHANGED <<attached, nextKey, hdl, view, stolen>>

NoSegment(t) ==
  /\ op[t].at = "get" /\ ~ Taken(nextKey[Home[t]])
  /\ hdl' = [hdl EXCEPT ![op[t].buf].at = "failed"]
  /\ Return(t)
  /\ UNCHANGED <<seg, attached, nextKey, view, exposed, stolen>>

(* shmat, and the handle made of the key as it is by then *)
AllocAttach(t) ==
  LET b == op[t].buf
      i == op[t].id
  IN /\ op[t].at = "attach" /\ seg[i].buf # 0
     /\ Attach(b, "own", i)
     /\ hdl' = [hdl EXCEPT ![b] = [at |-> "live", home |-> Home[t], key |-> nextKey[Home[t]],
                                   id |-> i, overlap |-> op[t].overlap]]
     /\ StepKey(t)
     /\ op' = [u \in Tasks |->
                 IF u = t THEN Idle
                 ELSE IF u \in Overlapped(t) THEN [op[u] EXCEPT !.overlap = TRUE] ELSE op[u]]
     /\ UNCHANGED <<seg, view, exposed, stolen>>

(* shmat may fail; the segment is removed again *)
AllocAttachFails(t) ==
  /\ op[t].at = "attach"
  /\ op' = [op EXCEPT ![t].at = "undo"]
  /\ UNCHANGED <<seg, attached, nextKey, hdl, view, exposed, stolen>>

AllocUndo(t) ==
  /\ op[t].at = "undo"
  /\ Remove(op[t].buf, op[t].id)
  /\ hdl' = [hdl EXCEPT ![op[t].buf].at = "failed"]
  /\ Return(t)
  /\ UNCHANGED <<attached, nextKey, view, exposed>>

(* FreeMem, in the process that allocated it *)
FreeShm(t) ==
  /\ op[t].at = "idle"
  /\ \E b \in Buffers :
       /\ hdl[b].at = "live" /\ hdl[b].home = Home[t]
       /\ Detach(b, "own")
       /\ hdl' = [hdl EXCEPT ![b].at = "freed"]
       /\ view' = [view EXCEPT ![b].late = @ \/ view[b].at = "wanted"]
       /\ op' = [op EXCEPT ![t] = [Idle EXCEPT !.at = "rmid", !.buf = b, !.id = hdl[b].id]]
  /\ UNCHANGED <<nextKey, exposed, stolen>>

----------------------------------------------------------------------------
(* Mmap and Unmap, in the process it was handed to; Mmap refuses the size of  *)
(* a handle without memory                                                    *)

MmapShm(t) ==
  /\ op[t].at = "idle"
  /\ \E b \in Buffers :
       /\ hdl[b].at \in {"empty", "live", "freed"} /\ hdl[b].home # Home[t]
       /\ view[b].at = "none"
       /\ \/ \E i \in Found(hdl[b].key) :
               /\ hdl[b].at # "empty"
               /\ op' = [op EXCEPT ![t] = [Idle EXCEPT !.at = "map", !.buf = b, !.id = i]]
               /\ view' = [view EXCEPT ![b].at = "wanted", ![b].late = hdl[b].at = "freed"]
          \/ /\ Found(hdl[b].key) = {} \/ hdl[b].at = "empty"
             /\ view' = [view EXCEPT ![b].at = "failed"] /\ UNCHANGED op
  /\ UNCHANGED <<seg, attached, nextKey, hdl, exposed, stolen>>

MmapAttach(t) ==
  LET b == op[t].buf
      i == op[t].id
  IN /\ op[t].at = "map"
     /\ \/ /\ seg[i].buf # 0
           /\ Attach(b, "imp", i)
           /\ view' = [view EXCEPT ![b].at = "mapped", ![b].id = i]
           /\ exposed' = exposed \union ({seg[i].buf} \ {b})
        \/ view' = [view EXCEPT ![b].at = "failed"] /\ UNCHANGED <<attached, exposed>>
     /\ Return(t)
     /\ UNCHANGED <<seg, nextKey, hdl, stolen>>

UnmapShm(t) ==
  /\ op[t].at = "idle"
  /\ \E b \in Buffers :
       /\ view[b].at = "mapped" /\ hdl[b].home # Home[t]
       /\ Detach(b, "imp")
       /\ view' = [view EXCEPT ![b].at = "unmapped"]
       /\ op' = [op EXCEPT ![t] = [Idle EXCEPT !.at = "rmid", !.buf = b, !.id = view[b].id]]
  /\ UNCHANGED <<nextKey, hdl, exposed, stolen>>

(* the second call of FreeShm and of UnmapShm *)
Rmid(t) ==
  /\ op[t].at = "rmid"
  /\ Remove(op[t].buf, op[t].id)
  /\ Return(t)
  /\ UNCHANGED <<attached, nextKey, hdl, view, exposed>>

ShmNext ==
  \E t \in Tasks :
    \/ AllocMem(t) \/ KeyIsTaken(t) \/ GetSegment(t) \/ NoSegment(t)
    \/ AllocAttach(t) \/ AllocAttachFails(t) \/ AllocUndo(t) \/ FreeShm(t)
    \/ MmapShm(t) \/ MmapAttach(t) \/ UnmapShm(t) \/ Rmid(t)

ShmSpec == ShmInit /\ [][ShmNext]_shmVars

----------------------------------------------------------------------------
(* no two segments answer to one key *)
KeysApart ==
  \A i, j \in Ids : i # j /\ seg[i].buf # 0 /\ seg[i].key # 0 => seg[i].key # seg[j].key

(* a buffer is the memory that was made for it, on either side, unless its   *)
(* segment was removed for another; on the other side it may also be the     *)
(* wrong one when the key was read late or looked up after the buffer went   *)
OwnMemory ==
  \A b \in Buffers \ stolen :
    /\ attached[b].own # 0 => seg[attached[b].own].buf = b
    /\ attached[b].imp # 0 /\ ~ hdl[b].overlap /\ ~ view[b].late
         => seg[attached[b].imp].buf = b

(* a handle names its own segment for as long as neither side let it go *)
KeyNamesSegment ==
  \A b \in Buffers \ stolen :
    hdl[b].at = "live" /\ ~ hdl[b].overlap /\ view[b].at # "unmapped"
      => seg[hdl[b].id].key = hdl[b].key

(* a segment is removed for another buffer only when its identifier went    *)
(* back to the kernel while a task had yet to remove it, or when it was     *)
(* mapped in place of another                                               *)
StolenWereExposed == stolen \subseteq exposed

(* behind a handle without memory there is none, in either process          *)
EmptyHandles ==
  \A b \in Buffers : hdl[b].at = "empty" =>
    /\ \A s \in Sides : attached[b][s] = 0
    /\ \A i \in Ids : seg[i].buf # b
    /\ view[b].at \in {"none", "failed"}

(* every segment has someone who will let it go *)
NothingLeaks ==
  \A i \in Ids : seg[i].buf # 0 => Attachments(i) # {} \/ AboutToRemove(i) # {}

(* The buffers of AllocShm, MmapShm and the two calls of each release: keys *)
(* apart, each side on its own memory, nothing removed but by its own side  *)
(* or through an exposed identifier, nothing left behind, and nothing behind *)
(* a handle without memory.  (FreeShm, display_gralloc.c:304)               *)
ShmInvariant ==
  /\ ShmTypeOK /\ KeysApart /\ OwnMemory /\ KeyNamesSegment /\ StolenWereExposed
  /\ NothingLeaks /\ EmptyHandles
=============================================================================
