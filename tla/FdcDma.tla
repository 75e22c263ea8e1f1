------------------------------- MODULE FdcDma -------------------------------
(***************************************************************************)
(* The DMA chip between the floppy disk controller and the memory (fdc.c): *)
(* bytes pass through a FIFO, and whole FIFOs are moved to or from memory  *)
(* as long as the sector count, which the program writes, is not zero.     *)
(***************************************************************************)
EXTENDS Integers

CONSTANTS
  FDC_DMA_SECTOR_SIZE,   \* bytes that one unit of the sector count stands for
  FDC_DMA_FIFO_SIZE,
  MaxCount               \* bound: largest sector count a program writes

ASSUME DmaAssumption ==
  /\ FDC_DMA_FIFO_SIZE \in Nat \ {0} /\ FDC_DMA_SECTOR_SIZE \in Nat \ {0}
  /\ FDC_DMA_SECTOR_SIZE % FDC_DMA_FIFO_SIZE = 0
  /\ MaxCount \in Nat

VARIABLES
  SectorCount, BytesInSector, FIFO_Size,
  BytesToTransfer,   \* bytes a write command still takes from the FIFO
  writing,           \* bit 8 of the mode register: from memory to the disk
  granted, moved     \* history: bytes of memory the program gave with the
                     \* sector count, bytes stored in memory since

dmaVars == <<SectorCount, BytesInSector, FIFO_Size, BytesToTransfer, writing,
             granted, moved>>

DmaInit ==
  /\ SectorCount = 0 /\ BytesInSector = FDC_DMA_SECTOR_SIZE /\ FIFO_Size = 0
  /\ BytesToTransfer = 0 /\ writing = FALSE /\ granted = 0 /\ moved = 0

FDC_ResetDMA ==
  /\ FIFO_Size' = 0 /\ BytesInSector' = FDC_DMA_SECTOR_SIZE
  /\ SectorCount' = 0 /\ BytesToTransfer' = 0
  /\ granted' = 0 /\ moved' = 0

(* Writing the mode register: only a change of bit 8 has an effect here.   *)
FDC_DmaModeControl_WriteWord ==
  /\ writing' = ~writing
  /\ FDC_ResetDMA

FDC_WriteSectorCountRegister(n) ==
  /\ SectorCount' = n
  /\ granted' = n * FDC_DMA_SECTOR_SIZE /\ moved' = 0
  /\ UNCHANGED <<BytesInSector, FIFO_Size, BytesToTransfer, writing>>

(* The sector is used up once a FIFO leaves no byte of it.                 *)
(* A bug: the last FIFO of a sector is not counted.                        *)
SectorUsed_Late(left) == left < 0

SectorUsed(left) == left <= 0

(* A byte from the disk.  With a sector count of zero it is lost.          *)
FDC_DMA_FIFO_Push ==
  IF SectorCount = 0
  THEN UNCHANGED <<SectorCount, BytesInSector, FIFO_Size, granted, moved>>
  ELSE IF FIFO_Size + 1 < FDC_DMA_FIFO_SIZE
  THEN /\ FIFO_Size' = FIFO_Size + 1
       /\ UNCHANGED <<SectorCount, BytesInSector, granted, moved>>
  ELSE LET left == BytesInSector - FDC_DMA_FIFO_SIZE
       IN  /\ FIFO_Size' = 0
           /\ moved' = moved + FDC_DMA_FIFO_SIZE
           /\ SectorCount' = SectorCount - (IF SectorUsed(left) THEN 1 ELSE 0)
           /\ BytesInSector' = IF SectorUsed(left) THEN FDC_DMA_SECTOR_SIZE ELSE left
           /\ UNCHANGED granted

(* A byte for the disk; '0' with a sector count of zero.  Another FIFO is  *)
(* read when the last one is empty, and it is this next one that uses up   *)
(* the sector.                                                             *)
FDC_DMA_FIFO_Pull ==
  /\ UNCHANGED <<granted, moved>>
  /\ IF SectorCount = 0
     THEN UNCHANGED <<SectorCount, BytesInSector, FIFO_Size>>
     ELSE IF FIFO_Size > 0
     THEN /\ FIFO_Size' = FIFO_Size - 1
          /\ UNCHANGED <<SectorCount, BytesInSector>>
     ELSE LET left == BytesInSector - FDC_DMA_FIFO_SIZE
          IN  /\ FIFO_Size' = FDC_DMA_FIFO_SIZE - 1
              /\ SectorCount' = SectorCount - (IF left < 0 THEN 1 ELSE 0)
              /\ BytesInSector' = IF left < 0 THEN FDC_DMA_SECTOR_SIZE ELSE left

-----------------------------------------------------------------------------
DmaTypeOK ==
  /\ SectorCount \in 0..MaxCount
  /\ BytesInSector \in 0..FDC_DMA_SECTOR_SIZE
  /\ FIFO_Size \in 0..(FDC_DMA_FIFO_SIZE - 1)
  /\ BytesToTransfer \in Int
  /\ granted \in Nat /\ moved \in Nat

(* Whatever commands run and however the sector count, the direction and   *)
(* the rest of a FIFO came about (fdc.c, FDC_DMA_FIFO_Push): the DMA never *)
(* stores more in memory than the sectors the program last gave it.        *)
WithinGrant == moved <= granted
=============================================================================
