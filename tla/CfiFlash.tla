------------------------------- MODULE CfiFlash -------------------------------
(***************************************************************************)
(* The CFI flash of the riscv32_virt board (LiteOS-M;                      *)
(* board/driver/cfiflash): the commands the driver writes, word by word,   *)
(* against QEMU's chip.  FAT volumes share one flash, so several tasks     *)
(* call the driver; it reads, writes and erases with interrupts locked,    *)
(* and looks at the chip's query data without.                             *)
(*                                                                         *)
(* Actors: the tasks that read, write and erase, one of which runs to its  *)
(* end once it has locked interrupts, and a task that mounts.              *)
(***************************************************************************)
EXTENDS Integers

CONSTANTS
  CAPACITY, PAGE, BLOCK,    \* CFIFLASH_CAPACITY, PAGE_WORDS, ERASEBLK_WORDS
  MaxWrites                 \* bound: writes and erasures

VARIABLES
  chip,         \* the chip: its words, the command and the cycle it is in, the
                \* words it still waits for, the page they must be of
  op,           \* the call under way: CfiFlashWriteBuf's locals
  query,        \* how far CfiFlashQuery is
  supported,    \* the chip is of the kind expected
  initialized,  \* g_diskDrv.initialized
  meant,        \* what the words should be
  writes,
  misread,      \* a read gave something else
  crossed       \* a call ran within a query

flashVars == <<chip, op, query, supported, initialized, meant, writes, misread, crossed>>

Words == 0 .. CAPACITY - 1
PageOf(w) == w \div PAGE
EraseBlk(w) == w - (w % BLOCK)
NoOp == [at |-> "idle", word |-> 0, left |-> 0, count |-> 0, blk |-> 0, data |-> 0]

FlashInit ==
  /\ chip = [mem |-> [w \in Words |-> 0], cmd |-> "array", cycle |-> 0, due |-> 0, page |-> -1]
  /\ op = NoOp
  /\ query = "none"
  /\ supported \in BOOLEAN
  /\ initialized = FALSE
  /\ meant = [w \in Words |-> 0]
  /\ writes = 0
  /\ misread = FALSE
  /\ crossed = FALSE

----------------------------------------------------------------------------
(* external: the chip, when v is written to the word a; -1 is erased *)
Cmd(c) == [cmd |-> c, n |-> 0]
Num(n) == [cmd |-> "number", n |-> n]
Array(c) == [c EXCEPT !.cmd = "array", !.cycle = 0]

FirstCycle(c, a, v) ==
  CASE v.cmd = "BUFWRITE" -> [c EXCEPT !.cmd = v.cmd, !.cycle = 1, !.page = -1]
    [] v.cmd = "QUERY" -> [c EXCEPT !.cmd = v.cmd, !.cycle = 1]
    [] v.cmd = "ERASE" -> [c EXCEPT !.cmd = v.cmd, !.cycle = 1,
                             !.mem = [w \in Words |-> IF EraseBlk(w) = EraseBlk(a) THEN -1 ELSE @[w]]]
    [] v.cmd = "READ_STATUS" -> [c EXCEPT !.cmd = v.cmd]
    [] OTHER -> Array(c)

(* a query ends with a reset and with nothing else *)
SecondCycle(c, v) ==
  CASE c.cmd = "QUERY" -> IF v.cmd = "RESET" THEN Array(c) ELSE c
    [] c.cmd = "ERASE" -> IF v.cmd = "CONFIRM" THEN [c EXCEPT !.cycle = 0] ELSE Array(c)
    [] c.cmd = "BUFWRITE" -> [c EXCEPT !.cycle = 2, !.due = v.n]

(* a word outside the page of the first is an error *)
BufferCycle(c, a, v) ==
  IF c.page \notin {-1, PageOf(a)} \/ v.cmd # "number" THEN Array(c)
  ELSE [c EXCEPT !.mem[a] = v.n, !.page = PageOf(a), !.due = @ - 1,
                 !.cycle = IF c.due = 0 THEN 3 ELSE 2]

Told(c, a, v) ==
  CASE c.cycle = 0 -> FirstCycle(c, a, v)
    [] c.cycle = 1 -> SecondCycle(c, v)
    [] c.cycle = 2 -> BufferCycle(c, a, v)
    [] c.cycle = 3 -> IF v.cmd = "CONFIRM" THEN [c EXCEPT !.cycle = 0] ELSE Array(c)

----------------------------------------------------------------------------
(* A call finds its drive and is within it, or is refused and does nothing. *)
(* (external: nothing is asked of a volume that was not mounted)            *)
Begins(o, n) == op = NoOp /\ initialized /\ o + n <= CAPACITY

CfiFlashRead(o, n) ==
  /\ Begins(o, n)
  /\ misread' = (misread \/ (n > 0 /\ chip.cmd # "array")
                         \/ \E w \in o .. o + n - 1 : chip.mem[w] # meant[w])
  /\ crossed' = (crossed \/ query = "asked")
  /\ UNCHANGED <<chip, op, query, supported, initialized, meant, writes>>

(* the first write might not be page aligned *)
First(o, n) == IF PAGE - (o % PAGE) > n THEN n ELSE PAGE - (o % PAGE)

(* n words, whose contents tell which write they are of and where they belong *)
CfiFlashWrite(o, n) ==
  /\ Begins(o, n)
  /\ writes < MaxWrites
  /\ writes' = writes + 1
  /\ op' = [at |-> IF n = 0 THEN "clear" ELSE "command", word |-> o, left |-> n,
            count |-> First(o, n), blk |-> EraseBlk(o), data |-> CAPACITY * writes + 1]
  /\ meant' = [w \in Words |-> IF w \in o .. o + n - 1 THEN CAPACITY * writes + 1 + w - o ELSE meant[w]]
  /\ crossed' = (crossed \/ query = "asked")
  /\ UNCHANGED <<chip, query, supported, initialized, misread>>

(* the offset may be the capacity itself; no caller gives it *)
CfiFlashErase(o) ==
  /\ Begins(o, 1)
  /\ writes < MaxWrites
  /\ writes' = writes + 1
  /\ op' = [NoOp EXCEPT !.at = "erase", !.blk = EraseBlk(o)]
  /\ meant' = [w \in Words |-> IF EraseBlk(w) = EraseBlk(o) THEN -1 ELSE meant[w]]
  /\ crossed' = (crossed \/ query = "asked")
  /\ UNCHANGED <<chip, query, supported, initialized, misread>>

Writes(a, v) == chip' = Told(chip, a, v)
Then(at) == op' = [op EXCEPT !.at = at]
InCall == UNCHANGED <<query, supported, initialized, meant, writes, misread, crossed>>

BufWrite == op.at = "command" /\ Writes(op.blk, Cmd("BUFWRITE")) /\ Then("count") /\ InCall
WordCount == op.at = "count" /\ Writes(op.blk, Num(op.count - 1)) /\ Then("data") /\ InCall

WriteData ==
  /\ op.at = "data"
  /\ Writes(op.word, Num(op.data))
  /\ op' = [op EXCEPT !.word = @ + 1, !.data = @ + 1, !.count = @ - 1, !.left = @ - 1,
                      !.at = IF op.count = 1 THEN "confirm" ELSE "data"]
  /\ InCall

EraseBlock == op.at = "erase" /\ Writes(op.blk, Cmd("ERASE")) /\ Then("confirm") /\ InCall
Confirm == op.at = "confirm" /\ Writes(op.blk, Cmd("CONFIRM")) /\ Then("poll") /\ InCall

(* CfiFlashIsReady gives the query data of a chip that is still asked for it, *)
(* which at the start of a block is zero: the loop goes on, interrupts locked *)
Poll ==
  /\ op.at = "poll"
  /\ Writes(op.blk, Cmd("READ_STATUS"))
  /\ op' = IF chip'.cmd = "QUERY" THEN op
           ELSE IF op.left = 0 THEN [op EXCEPT !.at = "clear"]
           ELSE [op EXCEPT !.at = "command", !.blk = EraseBlk(op.word),
                           !.count = IF op.left >= PAGE THEN PAGE ELSE op.left]
  /\ InCall

(* which leaves errors behind: the call succeeds whatever they were *)
ClearStatus ==
  /\ op.at = "clear"
  /\ Writes(0, Cmd("CLEAR_STATUS"))
  /\ op' = NoOp
  /\ InCall

(* CfiFlashQuery, for a volume: the chip is reset only when it is what was   *)
(* expected                                                                  *)
Ask ==
  /\ op = NoOp /\ query = "none"
  /\ query' = "asked"
  /\ Writes(0, Cmd("QUERY"))
  /\ UNCHANGED <<op, supported, initialized, meant, writes, misread, crossed>>

(* the vendor, the sizes and the blocks it tells of *)
Expected == supported

DiskInit == initialized' = TRUE

Answered ==
  /\ op = NoOp /\ query = "asked"
  /\ query' = "none"
  /\ IF Expected THEN Writes(0, Cmd("RESET")) /\ DiskInit ELSE UNCHANGED <<chip, initialized>>
  /\ UNCHANGED <<op, supported, meant, writes, misread, crossed>>

FlashNext ==
  \/ \E o \in Words, n \in 0 .. CAPACITY : CfiFlashRead(o, n) \/ CfiFlashWrite(o, n)
  \/ \E o \in Words : CfiFlashErase(o)
  \/ BufWrite \/ WordCount \/ WriteData \/ EraseBlock \/ Confirm \/ Poll \/ ClearStatus
  \/ Ask \/ Answered

----------------------------------------------------------------------------
(* Whatever was written lies where it belongs, in the pages and blocks it    *)
(* goes across, and nothing else has changed, when a call returns; and what  *)
(* is read is what was written; unless a call fell into another task's       *)
(* query.  (CfiFlashWriteBuf, cfiflash.c:115; CfiFlashQuery, cfiflash.c:149) *)
FlashHoldsWhatWasWritten ==
  ~crossed => ~misread /\ (op = NoOp => chip.mem = meant)

(* The chip is back in its array after each call, and a poll comes to an     *)
(* end; but for a chip that is not supported, which stays asked.             *)
(* (CfiFlashIsReady, cfiflash.c:106)                                         *)
ChipIsReadable ==
  /\ ~crossed /\ op = NoOp /\ query = "none" => chip.cmd = "array" \/ ~supported
  /\ op.at = "poll" /\ chip.cmd = "QUERY" => crossed

FlashInvariant == FlashHoldsWhatWasWritten /\ ChipIsReadable
=============================================================================
