------------------------------- MODULE Lan9118 -------------------------------
(***************************************************************************)
(* The Ethernet driver of the arm_mps2_an386 board                         *)
(* (driver/net/lan9118_eth_drv.c): the initialisation, access by access to  *)
(* the MAC and, through it, the PHY; then the receive interrupt, which runs *)
(* to its end while packets arrive, and the frames that lwIP sends.  The   *)
(* FIFOs are counted in words of four bytes, frames in bytes.              *)
(***************************************************************************)
EXTENDS Integers, Sequences

CONSTANTS
  RxLengths, TxLengths,  \* lengths of packets
  TX_FIFO,               \* words the transmit data FIFO holds
  MaxRx,                 \* bound: packets received
  MaxTx                  \* bound: frames sent

ASSUME LanAssumption ==
  /\ RxLengths \subseteq Nat
  /\ TxLengths \subseteq Nat \ {0} /\ TxLengths # {}
  /\ TX_FIFO \in Nat

VARIABLES
  init,      \* the group and the access lan9118_init is at
  csrBusy, miiBusy,      \* the MAC's and the PHY's accesses under way
  seen,      \* the value of MAC_CR last read
  cr,        \* MAC_CR: "TXEN", "RXEN"
  autoneg,   \* the PHY negotiates
  netif,     \* "none", "up" or, the hardware not initialised, "down"
  slow,      \* an access took longer than a millisecond
  bad,       \* the hardware answered that it is not right
  irqStatus, irqEnable,  \* the RX status level interrupt
  handler,   \* where EthernetReceiveHandler is
  arriving,  \* the packet whose data are in the FIFO and whose status is not
  rxWords,   \* words in the receive data FIFO
  rxStatus,  \* lengths in the receive status FIFO
  arrived, delivered,    \* the packets so far
  txFrames,  \* the words of the frames in the transmit FIFO
  txWanted,  \* words the chip still expects of the frame before
  txStatus,  \* statuses in the transmit status FIFO
  sends,     \* how many frames were sent
  lastTx     \* the length of the last one

initVarsLan == <<init, csrBusy, miiBusy, seen, cr, autoneg, netif, slow, bad>>
rxVarsLan == <<irqStatus, irqEnable, handler, arriving, rxWords, rxStatus, arrived, delivered>>
txVarsLan == <<txFrames, txWanted, txStatus, sends, lastTx>>
lanVars == <<initVarsLan, rxVarsLan, txVarsLan>>

Words(bytes) == (bytes + 3) \div 4
RunningTotals(s) == LET sum[i \in 0 .. Len(s)] == IF i = 0 THEN 0 ELSE sum[i - 1] + s[i] IN sum
Total(s) == RunningTotals(s)[Len(s)]

LanInit ==
  /\ init = [group |-> 1, access |-> 1]
  /\ csrBusy = FALSE /\ miiBusy = FALSE
  /\ seen = {} /\ cr = {} /\ autoneg = FALSE
  /\ netif = "none"
  /\ slow = FALSE /\ bad = FALSE
  /\ irqStatus = FALSE /\ irqEnable = FALSE
  /\ handler = "out"
  /\ arriving = 0 /\ rxWords = 0 /\ rxStatus = <<>>
  /\ arrived = <<>> /\ delivered = <<>>
  /\ txFrames = <<>> /\ txWanted = 0 /\ txStatus = 0 /\ sends = 0 /\ lastTx = 1

----------------------------------------------------------------------------
(* lan9118_phy_regread and lan9118_phy_regwrite, in accesses to the MAC; the
   first five groups must succeed, the results of the others are ignored *)
PhyRead == <<"idle", "go", "wait", "read">>
PhyWrite == <<"idle", "data", "go", "wait">>
Group(name, accesses) == [name |-> name, accesses |-> accesses]
lan9118_init ==
  << Group("id1", PhyRead), Group("id2", PhyRead),
     Group("reset_read", PhyRead), Group("reset", PhyWrite),
     Group("check", PhyRead),
     Group("capabilities_read", PhyRead), Group("capabilities", PhyWrite),
     Group("link_read", PhyRead), Group("link", PhyWrite),
     Group("TXEN_read", <<"cr_read">>), Group("TXEN", <<"cr_write">>),
     Group("RXEN_read", <<"cr_read">>), Group("RXEN", <<"cr_write">>) >>

G == lan9118_init[init.group]
Access == G.accesses[init.access]
Fatal == init.group <= 5
Starting == netif = "none"

NextGroup ==
  IF init.group < Len(lan9118_init)
  THEN init' = [group |-> init.group + 1, access |-> 1] /\ UNCHANGED <<netif, irqEnable>>
  ELSE netif' = "up" /\ irqEnable' = TRUE /\ UNCHANGED init
Succeeds ==
  IF init.access < Len(G.accesses)
  THEN init' = [init EXCEPT !.access = @ + 1] /\ UNCHANGED <<netif, irqEnable>>
  ELSE NextGroup
(* EthernetifInit returns false, which is ERR_OK, without an output function *)
Fails == IF Fatal THEN netif' = "down" /\ UNCHANGED <<init, irqEnable>> ELSE NextGroup

InitUnchanged ==
  UNCHANGED <<irqStatus, handler, arriving, rxWords, rxStatus, arrived, delivered, txVarsLan>>

(* an access while the MAC is busy is refused *)
AccessRefused ==
  /\ Starting /\ csrBusy
  /\ Fails
  /\ seen' = IF Access = "cr_read" THEN {} ELSE seen
  /\ UNCHANGED <<csrBusy, miiBusy, cr, autoneg, slow, bad>>
  /\ InitUnchanged

(* lan9118_mac_regread waits for the MAC, or gives up *)
MacRead ==
  /\ Starting /\ ~csrBusy
  /\ Access \in {"idle", "wait", "read", "cr_read"}
  /\ \/ /\ Access = "idle" => ~miiBusy
        /\ Access = "wait" => ~miiBusy
        /\ seen' = IF Access = "cr_read" THEN cr ELSE seen
        /\ Succeeds
        /\ UNCHANGED <<csrBusy, slow>>
     \/ /\ Access \in {"idle", "wait"} /\ miiBusy      \* busy, or never done
        /\ slow' = TRUE
        /\ Fails
        /\ UNCHANGED <<csrBusy, seen>>
     \/ /\ csrBusy' = TRUE /\ slow' = TRUE             \* timeout
        /\ seen' = IF Access = "cr_read" THEN {} ELSE seen
        /\ Fails
  /\ UNCHANGED <<miiBusy, cr, autoneg, bad>>
  /\ InitUnchanged

(* what was read says that the PHY is not there, or not out of its reset *)
HardwareBad ==
  /\ Starting /\ ~csrBusy
  /\ G.name \in {"id2", "check"} /\ Access = "read"
  /\ bad' = TRUE
  /\ Fails
  /\ UNCHANGED <<csrBusy, miiBusy, seen, cr, autoneg, slow>>
  /\ InitUnchanged

(* lan9118_mac_regwrite waits for the MAC only when the register's address is
   odd: it looks at the busy flag in the place of the address's lowest bit;
   MII_ACC is even, MII_DATA and MAC_CR are odd *)
MacWrite ==
  /\ Starting /\ ~csrBusy
  /\ Access \in {"data", "go", "cr_write"}
  /\ miiBusy' = (miiBusy \/ Access = "go")
  /\ autoneg' = (autoneg \/ (Access = "go" /\ G.name = "link"))
  /\ cr' = IF Access = "cr_write" THEN seen \cup {G.name} ELSE cr
  /\ \/ Succeeds /\ UNCHANGED <<csrBusy, slow>>
     \/ Access = "go" /\ Succeeds /\ csrBusy' = TRUE /\ slow' = TRUE
     \/ Access # "go" /\ Fails /\ csrBusy' = TRUE /\ slow' = TRUE
  /\ UNCHANGED <<seen, bad>>
  /\ InitUnchanged

AccessDone ==
  /\ Starting
  /\ \/ csrBusy /\ csrBusy' = FALSE /\ UNCHANGED miiBusy
     \/ miiBusy /\ miiBusy' = FALSE /\ UNCHANGED csrBusy
  /\ UNCHANGED <<init, seen, cr, autoneg, netif, slow, bad, rxVarsLan, txVarsLan>>

----------------------------------------------------------------------------
(* a packet's data come first, then its status; a status in the FIFO raises
   the level interrupt *)
Arrive ==
  /\ "RXEN" \in cr
  /\ \/ /\ arriving = 0 /\ Len(arrived) < MaxRx
        /\ \E n \in RxLengths : arriving' = n /\ rxWords' = rxWords + Words(n)
        /\ UNCHANGED <<rxStatus, arrived, irqStatus>>
     \/ /\ arriving # 0
        /\ arriving' = 0
        /\ rxStatus' = Append(rxStatus, arriving)
        /\ arrived' = Append(arrived, arriving)
        /\ UNCHANGED <<rxWords, irqStatus>>
     \/ /\ rxStatus # <<>> /\ ~irqStatus
        /\ irqStatus' = TRUE
        /\ UNCHANGED <<arriving, rxWords, rxStatus, arrived>>
  /\ UNCHANGED <<initVarsLan, irqEnable, handler, delivered, txVarsLan>>

(* EthernetReceiveHandler, register by register *)
At(h, then) == handler = h /\ handler' = then
HandlerUnchanged == UNCHANGED <<initVarsLan, arriving, arrived, txVarsLan>>

HandlerClear ==
  /\ netif = "up" /\ irqEnable /\ irqStatus
  /\ At("out", "disable")
  /\ irqStatus' = FALSE
  /\ UNCHANGED <<irqEnable, rxWords, rxStatus, delivered>> /\ HandlerUnchanged

HandlerDisable ==
  /\ At("disable", "peek")
  /\ irqEnable' = FALSE
  /\ UNCHANGED <<irqStatus, rxWords, rxStatus, delivered>> /\ HandlerUnchanged

(* LowLevelInput: no packet, or no memory for it *)
LowLevelInput ==
  /\ \/ rxStatus # <<>> /\ At("peek", "receive")
     \/ At("peek", "enable")
  /\ UNCHANGED <<irqStatus, irqEnable, rxWords, rxStatus, delivered>> /\ HandlerUnchanged

(* lan9118_receive_by_chunks and empty_rx_fifo: the whole words, then the rest *)
BugEmptyRxFifo(bytes) == bytes \div 4
empty_rx_fifo(bytes) == (bytes \div 4) + (IF bytes % 4 > 0 THEN 1 ELSE 0)

lan9118_receive_by_chunks ==
  /\ At("receive", "enable")
  /\ rxStatus' = Tail(rxStatus)
  /\ rxWords' = rxWords - empty_rx_fifo(Head(rxStatus))
  /\ delivered' = Append(delivered, Head(rxStatus))
  /\ UNCHANGED <<irqStatus, irqEnable>> /\ HandlerUnchanged

HandlerEnable ==
  /\ At("enable", "out")
  /\ irqEnable' = TRUE
  /\ UNCHANGED <<irqStatus, rxWords, rxStatus, delivered>> /\ HandlerUnchanged

EthernetReceiveHandler ==
  HandlerClear \/ HandlerDisable \/ LowLevelInput \/ lan9118_receive_by_chunks \/ HandlerEnable

----------------------------------------------------------------------------
(* the words written for a frame: two commands, a word with the rest of the
   bytes if there is one, the whole words; and the words the commands ask for *)
fill_tx_fifo(bytes) == (bytes \div 4) + (IF bytes % 4 > 0 THEN 1 ELSE 0)
DataStartOffset(bytes) == 4 - (bytes % 4)
Declared(bytes) == Words(DataStartOffset(bytes) + bytes)

(* Lan9118LinkOut returns ERR_OK also for a frame that does not fit; the status
   that is popped is that of an earlier frame.  Only frames after one that was
   written whole are looked at: the others go astray *)
Lan9118LinkOut(n) ==
  /\ netif = "up" /\ handler = "out"
  /\ sends < MaxTx
  /\ txWanted = 0
  /\ sends' = sends + 1
  /\ IF n > 4 * (TX_FIFO - Total(txFrames)) THEN UNCHANGED <<txFrames, txWanted, txStatus, lastTx>>
     ELSE /\ txFrames' = Append(txFrames, 2 + fill_tx_fifo(n))
          /\ txWanted' = Declared(n) - fill_tx_fifo(n)
          /\ txStatus' = IF txStatus > 0 THEN txStatus - 1 ELSE 0
          /\ lastTx' = n
  /\ UNCHANGED <<initVarsLan, rxVarsLan>>

(* the chip sends the frame and reports it *)
Transmit ==
  /\ "TXEN" \in cr
  /\ Len(txFrames) > (IF txWanted > 0 THEN 1 ELSE 0)
  /\ txFrames' = Tail(txFrames)
  /\ txStatus' = txStatus + 1
  /\ UNCHANGED <<initVarsLan, rxVarsLan, txWanted, sends, lastTx>>

LanNext ==
  \/ AccessRefused \/ MacRead \/ HardwareBad \/ MacWrite \/ AccessDone
  \/ Arrive \/ EthernetReceiveHandler
  \/ \E n \in TxLengths : Lan9118LinkOut(n)
  \/ Transmit

LanSpec == LanInit /\ [][LanNext]_lanVars

----------------------------------------------------------------------------
(* With a chip that answers every access within its millisecond, and a PHY
   that is there, the initialisation ends with all of it in force; each of the
   ignored results may lose a part of it otherwise.  (lan9118_init,
   lan9118_eth_drv.c:866) *)
InitWhole ==
  /\ ~slow /\ ~bad => netif # "down"
  /\ netif = "up" /\ ~slow => autoneg /\ cr = {"TXEN", "RXEN"}

(* What is left in the data FIFO are the packets in the status FIFO, to the
   word, whatever arrives while one is read.  (empty_rx_fifo,
   lan9118_eth_drv.c:414) *)
RxFramed ==
  rxWords = Total([i \in DOMAIN rxStatus |-> Words(rxStatus[i])]) + Words(arriving)

(* Packets are delivered once and in order; one there was no memory for waits.
   (EthernetReceiveHandler, lan9118_eth_drv.c:1120) *)
RxInOrder == delivered \o rxStatus = arrived

(* The FIFO is overrun by no more than the two commands, which the test for
   room forgets; and the statuses that nobody reads in time do not pile up
   beyond the frames that fit.  (lan9118_send_by_chunks, lan9118_eth_drv.c:965) *)
TxBounded ==
  LET least == CHOOSE n \in TxLengths : \A m \in TxLengths : n <= m
  IN /\ Total(txFrames) <= TX_FIFO + 2
     /\ txStatus + Len(txFrames) <= (TX_FIFO + 2) \div (2 + Words(least))

(* A frame whose length is no multiple of four is written as declared.
   (fill_tx_fifo, lan9118_eth_drv.c:383) *)
TxWholeUnlessAligned == txWanted > 0 => lastTx % 4 = 0

LanInvariant == InitWhole /\ RxFramed /\ RxInOrder /\ TxBounded /\ TxWholeUnlessAligned

(* A frame is sent as a packet: the chip has got what its commands declared.
   (lan9118_eth_drv.h:433, "Sends data from the given buffer as an Ethernet
   packet") *)
FrameIsWhole == txWanted = 0
=============================================================================
