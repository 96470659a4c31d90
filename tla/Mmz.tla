-------------------------------- MODULE Mmz --------------------------------
(***************************************************************************)
(* The contiguous memory of /dev/mmz (src/drivers/char/mmz/mmz.c) and the  *)
(* buffers that src/hardware/display/display_gralloc.c makes of it.  The   *)
(* driver keeps nothing: a buffer is its physical address, which the       *)
(* process it was handed to maps again, and its pages live by the          *)
(* reference counts of the kernel, one for each mapping.                   *)
(***************************************************************************)
EXTENDS Integers, FiniteSets

CONSTANTS
  Threads,           \* what calls the gralloc functions, in any process
  MEMORY,            \* how many pages there are
  PAGE_SIZE,
  MAX_MALLOC_SIZE,
  Infos,             \* what is asked for: a format, a width and a height
  MaxAllocs

Pages == 0..(MEMORY - 1)
Allocs == 1..MaxAllocs
NoPage == -1
Ends == {"own", "imp"}       \* the process that allocated it, and another one

VARIABLES
  free,        \* the pages the kernel may hand out
  of,          \* per page, the buffer it was last handed out for, or 0
  refCounts,   \* of each page
  maps,        \* per buffer and end, the pages of its region
  mmz,         \* per buffer, its handle: whether virAddr is set, phyAddr, size,
               \* and whether that is one AllocMem makes memory for
  seen,        \* per buffer, what has come of it in the other process
  call,        \* per thread, the buffer and end whose pages it is mapping
  stuck,       \* per page, how often mapping it failed
  lost,        \* pages that a failure left with nobody
  astray,      \* pages mapped for a buffer that they were no longer part of
  strayed      \* the buffers that led them there

mmzVars == <<free, of, refCounts, maps, mmz, seen, call, stuck, lost, astray, strayed>>

Unmade == [at |-> "unused", ptr |-> FALSE, first |-> NoPage, pages |-> 0, valid |-> FALSE]
NoCall == [buf |-> 0, end |-> "own", next |-> NoPage, left |-> 0]

MmzTypeOK ==
  /\ free \subseteq Pages /\ lost \subseteq Pages /\ astray \subseteq Pages
  /\ strayed \subseteq Allocs
  /\ of \in [Pages -> 0..MaxAllocs]
  /\ refCounts \in [Pages -> Nat] /\ stuck \in [Pages -> Nat]
  /\ maps \in [Allocs -> [Ends -> SUBSET Pages]]
  /\ mmz \in [Allocs -> [at: {"unused", "wanted", "live", "freed"}, ptr: BOOLEAN,
                         first: Pages \union {NoPage}, pages: 0..MEMORY, valid: BOOLEAN]]
  /\ seen \in [Allocs -> {"none", "wanted", "null", "mapped", "broken", "unmapped"}]
  /\ call \in [Threads -> [buf: 0..MaxAllocs, end: Ends, next: Int, left: 0..MEMORY]]

MmzInit ==
  /\ free = Pages /\ of = [p \in Pages |-> 0]
  /\ refCounts = [p \in Pages |-> 0] /\ stuck = refCounts
  /\ maps = [b \in Allocs |-> [e \in Ends |-> {}]]
  /\ mmz = [b \in Allocs |-> Unmade]
  /\ seen = [b \in Allocs |-> "none"]
  /\ call = [t \in Threads |-> NoCall]
  /\ lost = {} /\ astray = {} /\ strayed = {}

----------------------------------------------------------------------------
(* the size of a buffer *)

RoundUp(x, a) == ((x + a - 1) \div a) * a

bitsPerPixel(f) == CASE f = "rgb565" -> 16 [] f = "rgb888" -> 24 [] OTHER -> 8

(* of its planes together: 4 of every width to 2, or to 1 and 1 *)
AdjustStrideFromFormat(f, width) ==
  IF f \in {"yuv420sp", "yuv420p"} THEN RoundUp(width * 6, 4) \div 4 ELSE width

InitBufferHandle(i) ==
  RoundUp(i.height, 2)
    * ((RoundUp(AdjustStrideFromFormat(i.format, i.width), 8) * bitsPerPixel(i.format)) \div 8)

(* what AllocMem, FreeMem, Mmap and Unmap all ask of a size *)
SizeIsValid(size) == size # 0 /\ size <= MAX_MALLOC_SIZE

PageCount(size) == RoundUp(size, PAGE_SIZE) \div PAGE_SIZE

(* what the pixels of all planes take *)
PixelBytes(i) ==
  LET plane == i.width * i.height
  IN IF i.format \in {"yuv420sp", "yuv420p"} THEN plane + plane \div 2
     ELSE (plane * bitsPerPixel(i.format)) \div 8

----------------------------------------------------------------------------
(* the kernel's pages *)

(* a region goes: each of its pages loses a reference, and the last frees it *)
LOS_RegionFree(b, e, counts) ==
  LET left == [p \in Pages |-> IF p \in maps[b][e] /\ counts[p] > 0
                               THEN counts[p] - 1 ELSE counts[p]]
  IN /\ refCounts' = left
     /\ free' = free \union {p \in maps[b][e] : left[p] = 0}
     /\ maps' = [maps EXCEPT ![b][e] = {}]

(* LOS_AtomicInc of a page that is mapped *)
Inc(p) == [refCounts EXCEPT ![p] = @ + 1]

PartOf(b, p) == p \notin Pages \/ (p \notin free /\ of[p] = b)
Strays(b, p) ==
  IF PartOf(b, p) THEN UNCHANGED <<astray, strayed>>
  ELSE /\ astray' = astray \union {p}
       /\ strayed' = IF p \in astray THEN strayed ELSE strayed \union {b}

Busy(t) == call[t].buf # 0
Done(t) == call' = [call EXCEPT ![t] = NoCall]

----------------------------------------------------------------------------
(* AllocMem goes to its end with ret still DISPLAY_SUCCESS when the size is  *)
(* not valid: the caller gets a handle and no memory.  AllocMmz ignores what *)
(* MMZ_CACHE_TYPE and MMZ_NOCACHE_TYPE answer: with no memory the buffer is  *)
(* one without an address.                                                   *)
MmzAlloc(t) ==
  /\ ~ Busy(t)
  /\ \E b \in Allocs, i \in Infos :
       LET size == InitBufferHandle(i)
           n == PageCount(size)
       IN /\ mmz[b].at = "unused" /\ \A c \in 1..(b - 1) : mmz[c].at # "unused"
          /\ \/ /\ ~ SizeIsValid(size)
                /\ mmz' = [mmz EXCEPT ![b].at = "live"]
                /\ UNCHANGED <<free, of, refCounts, call>>
             \/ /\ SizeIsValid(size)
                /\ mmz' = [mmz EXCEPT ![b] = [Unmade EXCEPT !.at = "live", !.pages = n,
                                                            !.valid = TRUE]]
                /\ UNCHANGED <<free, of, refCounts, call>>
             \/ \E f \in Pages :
                  /\ SizeIsValid(size)
                  /\ f..(f + n - 1) \subseteq free
                  /\ free' = free \ (f..(f + n - 1))
                  /\ of' = [p \in Pages |-> IF p \in f..(f + n - 1) THEN b ELSE of[p]]
                  /\ refCounts' = [p \in Pages |->
                                     IF p \in f..(f + n - 1) THEN 0 ELSE refCounts[p]]
                  /\ mmz' = [mmz EXCEPT ![b] = [at |-> "wanted", ptr |-> FALSE,
                                                first |-> f, pages |-> n, valid |-> TRUE]]
                  /\ call' = [call EXCEPT ![t] = [buf |-> b, end |-> "own",
                                                  next |-> f, left |-> n]]
  /\ UNCHANGED <<maps, seen, stuck, lost, astray, strayed>>

(* Mmap of a handle that came from the other process, whatever has become   *)
(* of the buffer; refused when its size is not valid                        *)
MmzMap(t) ==
  /\ ~ Busy(t)
  /\ \E b \in Allocs :
       /\ mmz[b].at \in {"live", "freed"} /\ seen[b] = "none"
       /\ \/ /\ mmz[b].valid
             /\ seen' = [seen EXCEPT ![b] = "wanted"]
             /\ call' = [call EXCEPT ![t] = [buf |-> b, end |-> "imp",
                                             next |-> mmz[b].first, left |-> mmz[b].pages]]
          \/ seen' = [seen EXCEPT ![b] = "null"] /\ UNCHANGED call
  /\ UNCHANGED <<free, of, refCounts, maps, mmz, stuck, lost, astray, strayed>>

(* one turn of the loop of MmzAlloc or MmzMap *)
MapPage(t) ==
  LET b == call[t].buf
      e == call[t].end
      p == call[t].next
      end == call[t].left = 1
  IN /\ Busy(t) /\ p \in Pages
     /\ refCounts' = Inc(p)
     /\ maps' = [maps EXCEPT ![b][e] = @ \union {p}]
     /\ Strays(b, p)
     /\ call' = [call EXCEPT ![t] = IF end THEN NoCall
                                    ELSE [@ EXCEPT !.next = @ + 1, !.left = @ - 1]]
     /\ mmz' = IF end /\ e = "own"
               THEN [mmz EXCEPT ![b].at = "live", ![b].ptr = TRUE] ELSE mmz
     /\ seen' = IF end /\ e = "imp" THEN [seen EXCEPT ![b] = "mapped"] ELSE seen
     /\ UNCHANGED <<free, of, stuck, lost>>

(* The loop fails: the region goes, the page keeps the reference it has just *)
(* got, and of an allocation the rest is left as it is.  The address that    *)
(* MmzAlloc would have set stays NULL; that of MmzMap was set before.        *)
MapPageFails(t) ==
  LET b == call[t].buf
      e == call[t].end
      p == call[t].next
      rest == p..(p + call[t].left - 1)
  IN /\ Busy(t)
     /\ IF p \in Pages
        THEN /\ stuck' = [stuck EXCEPT ![p] = @ + 1]
             /\ lost' = lost \union (IF e = "own" THEN rest ELSE {p})
             /\ LOS_RegionFree(b, e, Inc(p))
        ELSE LOS_RegionFree(b, e, refCounts) /\ UNCHANGED <<stuck, lost>>
     /\ Strays(b, p)
     /\ mmz' = IF e = "own" THEN [mmz EXCEPT ![b].at = "live"] ELSE mmz
     /\ seen' = IF e = "imp" THEN [seen EXCEPT ![b] = "broken"] ELSE seen
     /\ Done(t)
     /\ UNCHANGED of

(* FreeMem: refused by the driver when there is no address, and before it    *)
(* when the size is not valid                                                *)
MmzFree(t) ==
  /\ ~ Busy(t)
  /\ \E b \in Allocs :
       /\ mmz[b].at = "live"
       /\ mmz' = [mmz EXCEPT ![b].at = "freed"]
       /\ IF mmz[b].ptr THEN LOS_RegionFree(b, "own", refCounts)
          ELSE UNCHANGED <<free, refCounts, maps>>
  /\ UNCHANGED <<of, seen, call, stuck, lost, astray, strayed>>

(* Unmap; of a broken address there is nothing to unmap *)
MmzUnMap(t) ==
  /\ ~ Busy(t)
  /\ \E b \in Allocs :
       /\ seen[b] \in {"mapped", "broken"}
       /\ seen' = [seen EXCEPT ![b] = "unmapped"]
       /\ LOS_RegionFree(b, "imp", refCounts)
  /\ UNCHANGED <<of, mmz, call, stuck, lost, astray, strayed>>

MmzNext ==
  \E t \in Threads :
    \/ MmzAlloc(t) \/ MmzMap(t) \/ MapPage(t) \/ MapPageFails(t) \/ MmzFree(t) \/ MmzUnMap(t)

MmzSpec == MmzInit /\ [][MmzNext]_mmzVars

----------------------------------------------------------------------------
Mapped(p) == {be \in Allocs \X Ends : p \in maps[be[1]][be[2]]}
OfCall(p) ==
  \E t \in Threads : call[t].end = "own" /\ p \in call[t].next..(call[t].next + call[t].left - 1)

(* a reference for each mapping, and one for each that failed *)
RefPerMapping ==
  \A p \in Pages \ astray : refCounts[p] = Cardinality(Mapped(p)) + stuck[p]

(* no page in use is handed out again, and no page serves two buffers *)
PagesInUse ==
  \A p \in Pages \ astray :
    /\ p \in free => Mapped(p) = {}
    /\ \A be, cf \in Mapped(p) : be[1] = cf[1]

(* a page is free, in use, or lost to a failure *)
NonePagesForgotten ==
  \A p \in Pages \ (free \union lost \union astray) : Mapped(p) # {} \/ OfCall(p)

(* only a buffer that has been freed, or whose allocation failed, leads a  *)
(* page astray                                                             *)
StraysAreLate == \A b \in strayed : mmz[b].at = "freed" \/ ~ mmz[b].ptr

(* a buffer with an address has all its pages *)
BuffersWhole ==
  \A b \in Allocs :
    /\ mmz[b].at = "live" /\ mmz[b].ptr
         => maps[b].own = mmz[b].first..(mmz[b].first + mmz[b].pages - 1)
    /\ seen[b] = "mapped"
         => maps[b].imp = mmz[b].first..(mmz[b].first + mmz[b].pages - 1)

(* behind a handle of a size that is not valid there is nothing, in either  *)
(* process; the handles a caller may use are those with an address          *)
EmptyHandles ==
  \A b \in Allocs : ~ mmz[b].valid =>
    /\ ~ mmz[b].ptr /\ seen[b] \in {"none", "null"}
    /\ \A e \in Ends : maps[b][e] = {}

(* a buffer has room for the pixels of all its planes *)
RoomForPixels == \A i \in Infos : PixelBytes(i) <= InitBufferHandle(i)

(* The pages of MmzAlloc and MmzMap: counted, never in two buffers, never    *)
(* handed out while they are mapped, never forgotten but by a failure; the   *)
(* buffers made of them whole, and large enough; and nothing behind the      *)
(* handles that AllocMem returns without memory.  (MmzAlloc, mmz.c:54)       *)
MmzInvariant ==
  /\ MmzTypeOK
  /\ RefPerMapping /\ PagesInUse /\ NonePagesForgotten /\ StraysAreLate /\ BuffersWhole
  /\ EmptyHandles /\ RoomForPixels
=============================================================================
