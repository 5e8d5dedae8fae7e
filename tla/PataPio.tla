------------------------------- MODULE PataPio -------------------------------
(***************************************************************************)
(* pata_pio_init, pata_pio_read_sectors and pata_pio_write_sectors against *)
(* the device they talk to: a step of the driver is one port access, or    *)
(* one loop over the words of a sector, and the device goes on in between  *)
(* at its own speed.                                                       *)
(*                                                                         *)
(* The device is modelled from how the driver uses it.  It has a write     *)
(* cache; it may fail a command instead of asking for data; and its status *)
(* register may be late by a moment after each command and each sector.    *)
(* The driver waits for a late register before it reads the status in the  *)
(* loop over the sectors and not around the flush that ends a write, so    *)
(* writes are modelled on a device that is not late.                       *)
(***************************************************************************)
EXTENDS Integers, Sequences

CONSTANTS
  LastLba,      \* sectors 0 .. LastLba
  SectorSize,   \* bytes of a sector
  Payloads,     \* contents of a sector that are written
  MaxCount      \* sectors of one call

VARIABLES
  media,   \* what a power failure leaves of each sector
  cached,  \* what the device returns of each sector
  late,    \* whether the status register of this device is late
  dev,     \* what the device is doing
  pc,      \* the statement the driver is at
  call,    \* the arguments of the call in progress, or of the last one
  i        \* sectors transferred in this call

vars == <<media, cached, late, dev, pc, call, i>>

Lbas == 0 .. LastLba

ASSUME PataAssumption ==
  /\ LastLba \in Nat /\ SectorSize \in Nat \ {0} /\ SectorSize % 2 = 0
  /\ MaxCount \in 1 .. LastLba + 1
  /\ Payloads \subseteq [0 .. SectorSize - 1 -> Nat]

\* What is on the disk at first: no two sectors are alike.
Original(l) == [b \in 0 .. SectorSize - 1 |-> l]

Device(state, op, lba, left, drq) ==
  [state |-> state, op |-> op, lba |-> lba, left |-> left, drq |-> drq]
Idle == Device("idle", "none", 0, 0, FALSE)

\* No device answers: its status reads as 0.
Absent == Device("absent", "none", 0, 0, FALSE)

Bsy == dev.state = "busy"
Drq == dev.drq
Late == dev.state = "late"

\* The device goes to work.  A late register shows what was before.
Working(op, lba, left, drq) ==
  IF dev = Absent THEN Absent
  ELSE IF late THEN Device("late", op, lba, left, drq) ELSE Device("busy", op, lba, left, FALSE)

Init ==
  /\ media = [l \in Lbas |-> Original(l)]
  /\ cached = media
  /\ late \in BOOLEAN
  /\ dev \in {Idle, Absent}
  /\ pc = "return"
  /\ call = [op |-> "read", lba |-> 0, buffer |-> <<>>]
  /\ i = 0

-----------------------------------------------------------------------------
(* The device *)

Busy == /\ Late
        /\ dev' = [dev EXCEPT !.state = "busy", !.drq = FALSE]
        /\ UNCHANGED <<media, cached, late, pc, call, i>>

\* A sector is ready, or wanted; or there is none left.
Ready ==
  /\ dev.state = "busy" /\ dev.op \in {"read", "write", "identify"}
  /\ dev' = IF dev.left = 0 THEN Idle ELSE [dev EXCEPT !.state = "data", !.drq = TRUE]
  /\ UNCHANGED <<media, cached, late, pc, call, i>>

Flushed ==
  /\ dev.state = "busy" /\ dev.op = "flush"
  /\ media' = cached
  /\ dev' = Idle
  /\ UNCHANGED <<cached, late, pc, call, i>>

Fail ==
  /\ dev.state = "busy"
  /\ dev' = [dev EXCEPT !.state = "error"]
  /\ UNCHANGED <<media, cached, late, pc, call, i>>

DeviceStep == Busy \/ Ready \/ Flushed

\* What the data port does when a sector has gone through it.  A sector that
\* is read while the register is late is the one before.
Transferred == Working(dev.op, dev.lba + 1, dev.left - 1, TRUE)
PortSector == IF Late /\ dev.lba > 0 THEN cached[dev.lba - 1] ELSE cached[dev.lba]

-----------------------------------------------------------------------------
(* The driver *)

\* A command also ends the error of the last one, and what is left of its
\* data.
Command(op, lba, left) == Working(op, lba, left, Drq)

\* Mutant: the count of sectors goes on from the last call.
CallWithoutReset(op, lba, buffer) ==
  /\ pc = "return"
  /\ lba + Len(buffer) - 1 \in Lbas
  /\ call' = [op |-> op, lba |-> lba, buffer |-> buffer]
  /\ dev' = Command(op, lba, Len(buffer))
  /\ pc' = "delay"
  /\ UNCHANGED <<media, cached, late, i>>

Call(op, lba, buffer) ==
  /\ pc = "return"
  /\ lba + Len(buffer) - 1 \in Lbas
  /\ call' = [op |-> op, lba |-> lba, buffer |-> buffer]
  /\ dev' = Command(op, lba, Len(buffer))
  /\ i' = 0
  /\ pc' = "delay"
  /\ UNCHANGED <<media, cached, late>>

Buffers(sectors) == UNION {[1 .. n -> sectors] : n \in 1 .. MaxCount}
ReadSectors == \E lba \in Lbas, b \in Buffers({Original(0)}) : Call("read", lba, b)
WriteSectors == ~late /\ \E lba \in Lbas, b \in Buffers(Payloads) : Call("write", lba, b)

Goto(label) == pc' = label /\ UNCHANGED <<media, cached, late, dev, call, i>>

\* Mutant: no delay before the status is read.
no_delay == pc = "delay" /\ Goto("bsy")

\* Four reads of a port take as long as the status register may be late.
pata_pio_delay == pc = "delay" /\ ~Late /\ Goto("bsy")

pata_pio_wait_bsy == pc = "bsy" /\ ~Bsy /\ Goto("drq")

\* Mutant: DRQ is not waited for.
no_drq == pc = "drq" /\ Goto("transfer")

\* ERR is not looked at.
pata_pio_wait_drq == pc = "drq" /\ Drq /\ Goto("transfer")

\* pata_pio_init: one sector is asked for.  A missing device ends it, and so
\* does an error; 255 of the 256 words of the sector are taken, so the device
\* goes on to offer the last one.
pata_pio_init ==
  /\ pc = "return"
  /\ call' = [op |-> "identify", lba |-> 0, buffer |-> <<>>]
  /\ dev' = Command("identify", 0, 1)
  /\ i' = 0
  /\ pc' = "init_delay"
  /\ UNCHANGED <<media, cached, late>>

init_delay == pc = "init_delay" /\ ~Late /\ Goto("init_status")
init_status == pc = "init_status" /\ Goto(IF dev = Absent THEN "return" ELSE "init_bsy")
init_wait_bsy == pc = "init_bsy" /\ ~Bsy /\ Goto("init_poll")

\* Mutant: the loop looks for no error.
init_poll_drq == pc = "init_poll" /\ Drq /\ Goto("return")

init_poll == pc = "init_poll" /\ (Drq \/ dev.state = "error") /\ Goto("return")

NextSector == IF i + 1 < Len(call.buffer) THEN "delay"
              ELSE IF call.op = "read" THEN "return" ELSE "flush"

ReadWords ==
  /\ pc = "transfer" /\ call.op = "read"
  /\ call' = [call EXCEPT !.buffer[i + 1] = PortSector]
  /\ dev' = IF dev.left = 1 THEN Idle ELSE Transferred
  /\ i' = i + 1
  /\ pc' = NextSector
  /\ UNCHANGED <<media, cached, late>>

\* Word j is made of the bytes j and j + 1 of the buffer.
Words(sector) ==
  [b \in 0 .. SectorSize - 1 |-> sector[(b \div 2) + (b % 2)]]

WriteWords ==
  /\ pc = "transfer" /\ call.op = "write"
  /\ cached' = [cached EXCEPT ![dev.lba] = Words(call.buffer[i + 1])]
  /\ dev' = Transferred
  /\ i' = i + 1
  /\ pc' = NextSector
  /\ UNCHANGED <<media, late, call>>

\* Mutant: the command to flush is not sent.
NoFlush == pc = "flush" /\ ~Bsy /\ Goto("flushed")

Flush ==
  /\ pc = "flush" /\ ~Bsy
  /\ dev' = Command("flush", 0, 0)
  /\ pc' = "flushed"
  /\ UNCHANGED <<media, cached, late, call, i>>

\* An error is not looked at here either.
FlushEnds == pc = "flushed" /\ ~Bsy /\ Goto("return")

DriverStep ==
  \/ pata_pio_delay \/ pata_pio_wait_bsy \/ pata_pio_wait_drq
  \/ ReadWords \/ WriteWords \/ Flush \/ FlushEnds
  \/ init_delay \/ init_status \/ init_wait_bsy \/ init_poll

-----------------------------------------------------------------------------

Next == pata_pio_init \/ ReadSectors \/ WriteSectors \/ DriverStep \/ DeviceStep \/ Fail

\* The CPU runs the driver, and a device that is busy comes to an end.
Spec == Init /\ [][Next]_vars /\ WF_vars(DriverStep) /\ WF_vars(DeviceStep)

-----------------------------------------------------------------------------
(* Properties *)

\* The state has its type.
TypeOK ==
  /\ {media, cached} \subseteq [Lbas -> [0 .. SectorSize - 1 -> Nat]]
  /\ late \in BOOLEAN /\ dev.state \in {"absent", "idle", "late", "busy", "data", "error"}
  /\ dev.op \in {"none", "read", "write", "flush", "identify"} /\ dev.left \in 0 .. MaxCount
  /\ pc \in {"return", "delay", "bsy", "drq", "transfer", "flush", "flushed",
             "init_delay", "init_status", "init_bsy", "init_poll"}
  /\ call.op \in {"read", "write", "identify"} /\ call.lba \in Lbas
  /\ i \in 0 .. Len(call.buffer)

Returned(op) == pc = "return" /\ call.op = op

\* When a read returns, each sector of the buffer is the sector of the disk:
\* none was taken from the port before the device had it there.
ReadIsTrue ==
  Returned("read") =>
    \A k \in 1 .. Len(call.buffer) : call.buffer[k] = cached[call.lba + k - 1]

\* When a write returns and the device did not fail, what was sent for each
\* sector is where a power failure leaves it.
WrittenIsDurable ==
  Returned("write") /\ dev.state # "error" =>
    /\ media = cached
    /\ \A k \in 1 .. Len(call.buffer) : media[call.lba + k - 1] = Words(call.buffer[k])

\* While the driver sends or takes a sector, the device has one for it: the
\* two agree on how many there are and which is next.
TransferIsInStep ==
  pc = "transfer" =>
    /\ dev.state = "data" /\ dev.op = call.op
    /\ dev.lba = call.lba + i /\ dev.left = Len(call.buffer) - i

\* A call ends, unless the device fails, or is missing, while sectors are
\* read or written: those loops look for no error, and kmain reads from a
\* device whether pata_pio_detect_drives found it or not.
OnlyErrorsHang ==
  pc # "return" ~>
    \/ pc = "return"
    \/ call.op # "identify" /\ dev.state \in {"error", "absent"}

\* "write back" (fat32.c:274): a write that returns true has put the bytes of
\* the buffer into the sectors.
WrittenBack ==
  Returned("write") /\ dev.state # "error" =>
    \A k \in 1 .. Len(call.buffer) : cached[call.lba + k - 1] = call.buffer[k]
=============================================================================
