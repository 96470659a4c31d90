---------------------------- MODULE MCVirtDrivers ----------------------------
(***************************************************************************)
(* The drivers that send one request and wait for it: the random number    *)
(* generator, the block device, and the MMC card that one plays; and how   *)
(* all five drivers are brought up and taken down.  They share nothing but *)
(* the core, so a behaviour looks at one of them and leaves the others     *)
(* where they start.                                                       *)
(***************************************************************************)
EXTENDS VirtRng, VirtBlk, VirtMmc, VirtioInit

VARIABLE part

partVars == <<rngVars, blkVars, mmcVars, initVars, part>>

(* one start for the drivers not looked at *)
Unused ==
  /\ part # "blk" => /\ blockAddr
                     /\ mmcCmd.argument = 0
                     /\ buf = (CHOOSE d \in Data : TRUE)
                     /\ disk = [s \in Sectors |-> buf]
  /\ part # "mmc" => /\ capacity = (CHOOSE c \in Capacities : TRUE)
                     /\ blkSize = VIRTBLK_DEF_BLK_SIZE
  /\ part # "init" => drv = "rng" /\ status = {} /\ garbage = {}

PartInit ==
  /\ part \in {"rng", "blk", "mmc", "init"}
  /\ RngInit /\ BlkInit /\ MmcInit /\ InitInit
  /\ Unused

OnRng(A) == part = "rng" /\ A /\ UNCHANGED <<blkVars, mmcVars, initVars, part>>
OnBlk(A) == part = "blk" /\ A /\ UNCHANGED <<rngVars, mmcVars, initVars, part>>
OnMmc(A) == part = "mmc" /\ A /\ UNCHANGED <<rngVars, blkVars, initVars, part>>
OnInit(A) == part = "init" /\ A /\ UNCHANGED <<rngVars, blkVars, mmcVars, part>>

(* an initialisation that is over is no deadlock *)
PartNext ==
  \/ OnRng(RngNext) \/ OnBlk(BlkNext) \/ OnMmc(MmcNext) \/ OnInit(InitNext)
  \/ OnInit(outcome # "running" /\ UNCHANGED initVars)

(* the fairness of RngFairSpec, BlkFairSpec and InitFairSpec; the card owes *)
(* nothing                                                                  *)
PartSpec ==
  /\ PartInit
  /\ [][PartNext]_partVars
  /\ WF_partVars(OnRng(RngIrq))
  /\ WF_partVars(OnRng(RngDevice))
  /\ \A r \in Readers : SF_partVars(OnRng(ReaderNext(r)))
  /\ SF_partVars(OnBlk(Task))
  /\ WF_partVars(OnBlk(BlkIrq))
  /\ WF_partVars(OnBlk(BlkDevice))
  /\ WF_partVars(OnInit(Succeed))
=============================================================================
