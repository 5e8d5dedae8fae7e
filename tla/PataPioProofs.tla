--------------------------- MODULE PataPioProofs ---------------------------
(***************************************************************************)
(* Proofs about PataPio, for every size of the disk, of a sector and of a  *)
(* call.  The invariant says, for each statement of the driver, what the   *)
(* device can be doing then, and how far the data has come.                *)
(***************************************************************************)
EXTENDS PataPio, SequenceTheorems, TLAPS

Sectors == [0 .. SectorSize - 1 -> Nat]

Devices ==
  [state : {"absent", "idle", "late", "busy", "data", "error"},
   op : {"none", "read", "write", "flush", "identify"},
   lba : Nat, left : 0 .. MaxCount, drq : BOOLEAN]

Calls == [op : {"read", "write", "identify"}, lba : Lbas, buffer : Seq(Sectors)]

Labels == {"return", "delay", "bsy", "drq", "transfer", "flush", "flushed",
           "init_delay", "init_status", "init_bsy", "init_poll"}

Typed ==
  /\ media \in [Lbas -> Sectors]
  /\ cached \in [Lbas -> Sectors]
  /\ late \in BOOLEAN
  /\ dev \in Devices
  /\ pc \in Labels
  /\ call \in Calls
  /\ Len(call.buffer) <= MaxCount
  /\ call.lba + Len(call.buffer) <= LastLba + 1
  /\ i \in 0 .. Len(call.buffer)

\* A device that is at work asks for nothing; only a late one is late, and
\* nothing changes a missing one.
DeviceSound ==
  /\ dev.drq => dev.state \in {"late", "data"}
  /\ dev.state = "late" => late
  /\ dev.state = "absent" => dev = Absent

\* What the device does while the driver is in the loop over the sectors.
InLoop == pc \in {"delay", "bsy", "drq", "transfer"}

Served ==
  /\ dev.state \in {"late", "busy", "data", "error"}
  /\ dev.op = call.op
  /\ dev.lba = call.lba + i
  /\ dev.left = Len(call.buffer) - i

LoopSound ==
  InLoop => /\ call.op \in {"read", "write"}
            /\ i < Len(call.buffer)
            /\ dev = Absent \/ Served

\* What the driver has waited for stays so.
WaitSound ==
  /\ pc \in {"bsy", "drq", "transfer", "init_status", "init_bsy", "init_poll"} => dev.state # "late"
  /\ pc \in {"drq", "transfer", "init_poll"} => dev.state # "busy"
  /\ pc = "transfer" => dev.state = "data"

\* What it does while the driver flushes, looks for drives, or is not called.
RestSound ==
  /\ pc \in {"flush", "flushed"} =>
       call.op = "write" /\ i = Len(call.buffer) /\ dev.state \in {"idle", "busy", "error"}
  /\ pc = "flush" /\ dev.state = "busy" => dev.left = 0
  /\ pc = "flushed" /\ dev.state = "busy" => dev.op = "flush"
  /\ pc \in {"init_delay", "init_status", "init_bsy", "init_poll"} =>
       call.op = "identify" /\ i = Len(call.buffer)
  /\ pc = "return" => i = Len(call.buffer) /\ dev.state \notin {"busy", "late"}
  /\ pc = "return" /\ call.op = "write" => dev.state \in {"idle", "error"}

\* How far the data has come.
DataSound ==
  /\ call.op = "write" => ~late
  /\ call.op = "read" =>
       \A k \in 1 .. i : call.buffer[k] = cached[call.lba + k - 1]
  /\ call.op = "write" =>
       \A k \in 1 .. i : cached[call.lba + k - 1] = Words(call.buffer[k])
  /\ call.op = "write" /\ pc \in {"flushed", "return"} /\ dev.state = "idle" => media = cached

IInv == Typed /\ DeviceSound /\ LoopSound /\ WaitSound /\ RestSound /\ DataSound

-----------------------------------------------------------------------------

\* A sector that is sent is a sector.
LEMMA WordsType == ASSUME NEW s \in Sectors PROVE Words(s) \in Sectors
<1>1. \A b \in 0 .. SectorSize - 1 : (b \div 2) + (b % 2) \in 0 .. SectorSize - 1
  BY PataAssumption
<1> QED BY <1>1 DEF Words, Sectors

\* The buffers that a call is given.
LEMMA BuffersType ==
  ASSUME NEW S, NEW b \in Buffers(S)
  PROVE  b \in Seq(S) /\ Len(b) \in 1 .. MaxCount
<1>1. PICK n \in 1 .. MaxCount : b \in [1 .. n -> S] BY DEF Buffers
<1>2. n \in Nat BY PataAssumption
<1> QED BY <1>1, <1>2, PataAssumption

\* The invariant holds at first.
LEMMA InitIInv == Init => IInv
<1> SUFFICES ASSUME Init PROVE IInv OBVIOUS
<1>1. media \in [Lbas -> Sectors] BY PataAssumption DEF Init, Original, Sectors, Lbas
<1>2. /\ dev \in Devices
      /\ dev.state \in {"idle", "absent"} /\ dev.drq = FALSE
      /\ dev.state = "absent" => dev = Absent
  <2>1. CASE dev = Idle BY <2>1, PataAssumption DEF Idle, Device, Devices
  <2>2. CASE dev = Absent BY <2>2, PataAssumption DEF Absent, Device, Devices
  <2> QED BY <2>1, <2>2 DEF Init
<1>3. call \in Calls /\ call.op = "read" /\ call.lba = 0 /\ call.buffer = <<>>
  BY PataAssumption DEF Init, Calls, Lbas
<1>4. Typed BY <1>1, <1>2, <1>3, PataAssumption DEF Init, Typed, Labels
<1> QED
  BY <1>2, <1>3, <1>4, PataAssumption
  DEF Init, IInv, DeviceSound, LoopSound, InLoop, WaitSound, RestSound, DataSound

\* The steps of the device keep it: the status register shows a command;
LEMMA BusyIInv == IInv /\ Busy => IInv'
<1> SUFFICES ASSUME IInv, Busy PROVE IInv' OBVIOUS
<1>1. /\ dev' \in Devices
      /\ dev'.state = "busy" /\ dev'.drq = FALSE
      /\ dev'.op = dev.op /\ dev'.lba = dev.lba /\ dev'.left = dev.left
  BY DEF IInv, Typed, Busy, Late, Devices
<1>2. Typed' BY <1>1 DEF IInv, Typed, Busy
<1>3. DeviceSound' BY <1>1 DEF IInv, DeviceSound, Busy
<1>4. LoopSound' BY <1>1 DEF IInv, LoopSound, InLoop, Served, Busy, Late, Absent, Device
<1>5. WaitSound' BY <1>1 DEF IInv, WaitSound, Busy, Late
<1>6. RestSound' BY <1>1 DEF IInv, RestSound, WaitSound, Busy, Late
<1>7. DataSound' BY <1>1 DEF IInv, DataSound, Busy
<1> QED BY <1>2, <1>3, <1>4, <1>5, <1>6, <1>7 DEF IInv

\* a sector is ready, or wanted;
LEMMA ReadyIInv == IInv /\ Ready => IInv'
<1> SUFFICES ASSUME IInv, Ready PROVE IInv' OBVIOUS
<1>1. /\ dev' \in Devices
      /\ dev'.state \in {"idle", "data"}
      /\ dev'.state = "idle" <=> dev.left = 0
      /\ dev'.state = "idle" => dev'.drq = FALSE
      /\ dev'.state = "data" => dev'.op = dev.op /\ dev'.lba = dev.lba /\ dev'.left = dev.left
  BY PataAssumption DEF IInv, Typed, Ready, Idle, Device, Devices
<1>2. Typed' BY <1>1 DEF IInv, Typed, Ready
<1>3. DeviceSound' BY <1>1 DEF IInv, DeviceSound, Ready
<1>4. LoopSound'
  BY <1>1 DEF IInv, Typed, LoopSound, InLoop, Served, Ready, Absent, Device
<1>5. WaitSound' BY <1>1 DEF IInv, WaitSound, Ready
<1>6. RestSound' BY <1>1 DEF IInv, RestSound, WaitSound, Ready
<1>7. DataSound' BY <1>1 DEF IInv, DataSound, RestSound, Ready
<1> QED BY <1>2, <1>3, <1>4, <1>5, <1>6, <1>7 DEF IInv

\* the cache is on the disk;
LEMMA FlushedIInv == IInv /\ Flushed => IInv'
<1> SUFFICES ASSUME IInv, Flushed PROVE IInv' OBVIOUS
<1>1. dev' \in Devices /\ dev'.state = "idle" /\ dev'.drq = FALSE
  BY PataAssumption DEF IInv, Typed, Flushed, Idle, Device, Devices
<1>2. Typed' BY <1>1 DEF IInv, Typed, Flushed
<1>3. DeviceSound' BY <1>1 DEF IInv, DeviceSound, Flushed
<1>4. LoopSound' BY DEF IInv, LoopSound, InLoop, Served, Flushed, Absent, Device
<1>5. WaitSound' BY <1>1 DEF IInv, WaitSound, Flushed
<1>6. RestSound' BY <1>1 DEF IInv, RestSound, Flushed
<1>7. DataSound' BY <1>1 DEF IInv, DataSound, Flushed
<1> QED BY <1>2, <1>3, <1>4, <1>5, <1>6, <1>7 DEF IInv

\* and a command fails.
LEMMA FailIInv == IInv /\ Fail => IInv'
<1> SUFFICES ASSUME IInv, Fail PROVE IInv' OBVIOUS
<1>1. /\ dev' \in Devices
      /\ dev'.state = "error" /\ dev'.drq = dev.drq /\ dev'.op = dev.op
      /\ dev'.lba = dev.lba /\ dev'.left = dev.left
  BY DEF IInv, Typed, Fail, Devices
<1>2. Typed' BY <1>1 DEF IInv, Typed, Fail
<1>3. DeviceSound' BY <1>1 DEF IInv, DeviceSound, Fail
<1>4. LoopSound' BY <1>1 DEF IInv, LoopSound, InLoop, Served, Fail, Absent, Device
<1>5. WaitSound' BY <1>1 DEF IInv, WaitSound, Fail
<1>6. RestSound' BY <1>1 DEF IInv, RestSound, Fail
<1>7. DataSound' BY <1>1 DEF IInv, DataSound, Fail
<1> QED BY <1>2, <1>3, <1>4, <1>5, <1>6, <1>7 DEF IInv

\* What a command, or a sector that has gone through the port, makes of the
\* device.
AtWork(w, op, lba, left) ==
  /\ w \in Devices
  /\ w.drq => w.state = "late"
  /\ w.state \in {"absent", "late", "busy"}
  /\ w.state = "absent" <=> w = Absent
  /\ w = Absent <=> dev = Absent
  /\ w.state = "late" => late
  /\ w.state = "busy" => ~late
  /\ w # Absent => w.op = op /\ w.lba = lba /\ w.left = left

LEMMA WorkingType ==
  ASSUME NEW op \in {"read", "write", "flush", "identify"}, NEW lba \in Nat,
         NEW left \in 0 .. MaxCount, NEW drq \in BOOLEAN, IInv
  PROVE  AtWork(Working(op, lba, left, drq), op, lba, left)
<1>1. Absent \in Devices /\ Absent.state = "absent" /\ Absent.drq = FALSE
  BY PataAssumption DEF Absent, Device, Devices
<1>2. \A state \in {"late", "busy"}, d \in BOOLEAN :
         LET w == Device(state, op, lba, left, d) IN
         /\ w \in Devices /\ w # Absent
         /\ w.state = state /\ w.op = op /\ w.lba = lba /\ w.left = left /\ w.drq = d
  BY DEF Devices, Device, Absent
<1> QED BY <1>1, <1>2 DEF AtWork, Working, IInv, Typed

\* A call of pata_pio_read_sectors or pata_pio_write_sectors keeps it,
LEMMA CallIInv ==
  ASSUME NEW op \in {"read", "write"}, op = "write" => ~late, NEW lba \in Lbas,
         NEW b \in Seq(Sectors), Len(b) \in 1 .. MaxCount, IInv, Call(op, lba, b)
  PROVE  IInv'
<1>1. lba \in Nat /\ Len(b) \in 0 .. MaxCount /\ Drq \in BOOLEAN
  BY PataAssumption DEF Lbas, IInv, Typed, Devices, Drq
<1>2. call' \in Calls /\ call'.op = op /\ call'.lba = lba /\ call'.buffer = b
  BY DEF Call, Calls
<1>3. /\ dev' \in Devices
      /\ dev'.drq => dev'.state = "late"
      /\ dev'.state \in {"absent", "late", "busy"}
      /\ dev'.state = "absent" <=> dev' = Absent
      /\ dev'.state = "late" => late
      /\ dev' # Absent => dev'.op = op /\ dev'.lba = lba /\ dev'.left = Len(b)
  BY <1>1, WorkingType DEF AtWork, Call, Command
<1>4. Typed' BY <1>1, <1>2, <1>3, PataAssumption DEF IInv, Typed, Call, Labels, Lbas
<1>5. DeviceSound' BY <1>3 DEF IInv, DeviceSound, Call
<1>6. LoopSound' BY <1>1, <1>2, <1>3 DEF LoopSound, InLoop, Served, Call
<1>7. WaitSound' BY DEF WaitSound, Call
<1>8. RestSound' BY DEF RestSound, Call
<1>9. DataSound' BY <1>2, <1>3 DEF DataSound, Call
<1> QED BY <1>4, <1>5, <1>6, <1>7, <1>8, <1>9 DEF IInv

\* and the command of pata_pio_init.
LEMMA InitCommandIInv == IInv /\ pata_pio_init => IInv'
<1> SUFFICES ASSUME IInv, pata_pio_init PROVE IInv' OBVIOUS
<1>1. Drq \in BOOLEAN /\ 1 \in 0 .. MaxCount
  BY PataAssumption DEF IInv, Typed, Devices, Drq
<1>2. call' \in Calls /\ call'.op = "identify" /\ call'.lba = 0 /\ call'.buffer = <<>>
  BY PataAssumption DEF pata_pio_init, Calls, Lbas
<1>3. /\ dev' \in Devices
      /\ dev'.drq => dev'.state = "late"
      /\ dev'.state = "absent" <=> dev' = Absent
      /\ dev'.state = "late" => late
  BY <1>1, WorkingType DEF AtWork, pata_pio_init, Command
<1>4. Typed' BY <1>1, <1>2, <1>3, PataAssumption DEF IInv, Typed, pata_pio_init, Labels
<1>5. DeviceSound' BY <1>3 DEF IInv, DeviceSound, pata_pio_init
<1>6. LoopSound' BY DEF LoopSound, InLoop, pata_pio_init
<1>7. WaitSound' BY DEF WaitSound, pata_pio_init
<1>8. RestSound' BY <1>2 DEF RestSound, pata_pio_init
<1>9. DataSound' BY <1>2 DEF DataSound, pata_pio_init
<1> QED BY <1>4, <1>5, <1>6, <1>7, <1>8, <1>9 DEF IInv


\* The statements of the driver that only wait, or look.
LEMMA WaitIInv ==
  ASSUME IInv,
         \/ pata_pio_delay \/ pata_pio_wait_bsy \/ pata_pio_wait_drq \/ FlushEnds
         \/ init_delay \/ init_status \/ init_wait_bsy \/ init_poll
  PROVE  IInv'
<1>1. UNCHANGED <<media, cached, late, dev, call, i>> /\ pc' \in Labels
  BY DEF pata_pio_delay, pata_pio_wait_bsy, pata_pio_wait_drq, FlushEnds,
         init_delay, init_status, init_wait_bsy, init_poll, Goto, Labels
<1>2. Absent.state = "absent" /\ Absent.drq = FALSE BY DEF Absent, Device
<1>3. Typed' BY <1>1 DEF IInv, Typed
<1>4. DeviceSound' BY <1>1 DEF IInv, DeviceSound
<1>5. LoopSound'
  BY <1>1 DEF IInv, LoopSound, InLoop, Served, pata_pio_delay, pata_pio_wait_bsy,
              pata_pio_wait_drq, FlushEnds, init_delay, init_status, init_wait_bsy, init_poll, Goto
<1>6. WaitSound'
  BY <1>1, <1>2 DEF IInv, DeviceSound, WaitSound, pata_pio_delay, pata_pio_wait_bsy,
              pata_pio_wait_drq, FlushEnds, init_delay, init_status, init_wait_bsy, init_poll,
              Goto, Late, Bsy, Drq
<1>7. RestSound'
  BY <1>1, <1>2 DEF IInv, Typed, Calls, DeviceSound, WaitSound, RestSound, pata_pio_delay, pata_pio_wait_bsy,
              pata_pio_wait_drq, FlushEnds, init_delay, init_status, init_wait_bsy, init_poll,
              Goto, Late, Bsy, Drq
<1>8. DataSound'
  BY <1>1, <1>2 DEF IInv, DataSound, RestSound, pata_pio_delay, pata_pio_wait_bsy,
              pata_pio_wait_drq, FlushEnds, init_delay, init_status, init_wait_bsy, init_poll,
              Goto, Bsy
<1> QED BY <1>3, <1>4, <1>5, <1>6, <1>7, <1>8 DEF IInv

\* The command to flush.
LEMMA FlushIInv == IInv /\ Flush => IInv'
<1> SUFFICES ASSUME IInv, Flush PROVE IInv' OBVIOUS
<1>1. Drq \in BOOLEAN /\ 0 \in 0 .. MaxCount
  BY PataAssumption DEF IInv, Typed, Devices, Drq
<1>2. /\ call.op = "write" /\ ~late /\ dev # Absent
  BY DEF IInv, RestSound, DataSound, Flush, Absent, Device
<1>3. /\ dev' \in Devices
      /\ dev'.drq => dev'.state = "late"
      /\ dev'.state = "busy" /\ dev'.op = "flush"
  BY <1>1, <1>2, WorkingType DEF AtWork, Flush, Command
<1>4. Typed' BY <1>3 DEF IInv, Typed, Flush, Labels
<1>5. DeviceSound' BY <1>3 DEF IInv, DeviceSound, Flush
<1>6. LoopSound' BY DEF LoopSound, InLoop, Flush
<1>7. WaitSound' BY DEF WaitSound, Flush
<1>8. RestSound' BY <1>2, <1>3 DEF IInv, RestSound, Flush
<1>9. DataSound' BY <1>3 DEF IInv, DataSound, Flush
<1> QED BY <1>4, <1>5, <1>6, <1>7, <1>8, <1>9 DEF IInv

\* While a sector goes through the port, the device has it there.
LEMMA AtThePort ==
  ASSUME IInv, pc = "transfer"
  PROVE  /\ dev # Absent /\ Served /\ dev.state = "data"
         /\ i \in Nat /\ i + 1 \in 1 .. Len(call.buffer)
         /\ call.lba \in Nat /\ call.lba + i \in Lbas
         /\ dev.lba \in Nat /\ dev.left \in 1 .. MaxCount
<1>1. i < Len(call.buffer) /\ dev.state = "data" /\ (dev = Absent \/ Served)
  BY DEF IInv, LoopSound, InLoop, WaitSound
<1>2. dev # Absent BY <1>1 DEF Absent, Device
<1>3. /\ i \in Nat /\ Len(call.buffer) \in Nat /\ call.lba \in Nat
      /\ call.lba + Len(call.buffer) <= LastLba + 1 /\ Len(call.buffer) <= MaxCount
      /\ dev.lba \in Nat /\ dev.left \in 0 .. MaxCount
  BY PataAssumption DEF IInv, Typed, Calls, Lbas, Devices
<1>4. Served BY <1>1, <1>2
<1>5. dev.left = Len(call.buffer) - i BY <1>4 DEF Served
<1>6. i + 1 \in 1 .. Len(call.buffer) /\ dev.left \in 1 .. MaxCount
  BY <1>1, <1>3, <1>5, PataAssumption
<1>7. call.lba + i \in Lbas BY <1>1, <1>3, PataAssumption DEF Lbas
<1> QED BY <1>1, <1>2, <1>3, <1>4, <1>6, <1>7

\* The device after a sector has gone through the port.
LEMMA TransferredType ==
  ASSUME IInv, pc = "transfer"
  PROVE  /\ Transferred \in Devices
         /\ Transferred.drq => Transferred.state = "late"
         /\ Transferred.state = IF late THEN "late" ELSE "busy"
         /\ Transferred # Absent
         /\ Transferred.op = dev.op /\ Transferred.lba = dev.lba + 1
         /\ Transferred.left = dev.left - 1
<1>1. dev.op \in {"read", "write", "flush", "identify"} BY AtThePort DEF Served, IInv, LoopSound, InLoop
<1>2. dev.lba + 1 \in Nat /\ dev.left - 1 \in 0 .. MaxCount
  BY AtThePort, PataAssumption
<1>3. late \in BOOLEAN /\ dev # Absent BY AtThePort DEF IInv, Typed
<1>4. AtWork(Transferred, dev.op, dev.lba + 1, dev.left - 1)
  BY <1>1, <1>2, WorkingType, Zenon DEF Transferred
<1> QED BY <1>3, <1>4 DEF AtWork

\* A sector is taken: it is the next one of the call.
LEMMA ReadWordsIInv == IInv /\ ReadWords => IInv'
<1> SUFFICES ASSUME IInv, ReadWords PROVE IInv' OBVIOUS
<1> DEFINE n == Len(call.buffer)
<1>0. n \in Nat /\ call \in Calls BY DEF IInv, Typed, Calls
<1>1. pc = "transfer" /\ call.op = "read" BY DEF ReadWords
<1>2. PortSector = cached[call.lba + i] /\ PortSector \in Sectors
  BY <1>1, AtThePort DEF PortSector, Served, Late, IInv, Typed
<1>3. /\ call' \in Calls
      /\ call'.op = call.op /\ call'.lba = call.lba
      /\ call'.buffer = [call.buffer EXCEPT ![i + 1] = cached[call.lba + i]]
      /\ Len(call'.buffer) = n
  <2>1. call' = [call EXCEPT !.buffer = [call.buffer EXCEPT ![i + 1] = PortSector]]
    BY DEF ReadWords
  <2>2. [call.buffer EXCEPT ![i + 1] = PortSector] \in Seq(Sectors)
        /\ Len([call.buffer EXCEPT ![i + 1] = PortSector]) = n
    BY <1>0, <1>1, <1>2, AtThePort DEF Calls
  <2> QED BY <1>0, <1>2, <2>1, <2>2 DEF Calls
<1>4. i' = i + 1 /\ UNCHANGED <<media, cached, late>>
      /\ pc' = NextSector /\ dev' = IF dev.left = 1 THEN Idle ELSE Transferred
  BY DEF ReadWords
<1>5. NextSector = IF i + 1 < n THEN "delay" ELSE "return" BY <1>1 DEF NextSector
<1>6. i \in Nat /\ i + 1 \in 1 .. n /\ dev.left = n - i /\ dev.lba = call.lba + i
      /\ dev.op = "read" /\ call.lba \in Nat /\ dev.state = "data"
  BY <1>1, AtThePort DEF Served
<1>7. i' \in 0 .. n /\ (dev.left = 1 <=> i' = n) BY <1>0, <1>4, <1>6
<1>8. Idle \in Devices /\ Idle.state = "idle" /\ Idle.drq = FALSE
  BY PataAssumption DEF Idle, Device, Devices
<1>9. /\ dev' \in Devices
      /\ dev'.drq => dev'.state = "late"
      /\ dev'.state = "absent" => dev' = Absent
      /\ dev'.state = "late" => late
      /\ i' = n => dev'.state = "idle"
      /\ i' # n => dev'.state \in {"late", "busy"} /\ dev'.op = "read" /\ dev'.lba = call.lba + i'
                    /\ dev'.left = n - i'
  BY <1>0, <1>1, <1>4, <1>6, <1>7, <1>8, TransferredType
<1>10. (pc' = "delay" /\ i' # n) \/ (pc' = "return" /\ i' = n)
  BY <1>0, <1>4, <1>5, <1>6
<1> HIDE DEF n
<1>11. Typed' BY <1>3, <1>4, <1>7, <1>9, <1>10 DEF IInv, Typed, n, Labels
<1>12. DeviceSound' BY <1>4, <1>9 DEF IInv, DeviceSound
<1>13. LoopSound' BY <1>0, <1>1, <1>3, <1>7, <1>9, <1>10 DEF LoopSound, InLoop, Served
<1>14. WaitSound' BY <1>10 DEF WaitSound
<1>15. RestSound' BY <1>1, <1>3, <1>9, <1>10 DEF RestSound
<1>16. \A k \in 1 .. i' : call'.buffer[k] = cached'[call'.lba + k - 1]
  <2>1. SUFFICES ASSUME NEW k \in 1 .. i' PROVE call'.buffer[k] = cached[call.lba + k - 1]
    BY <1>3, <1>4
  <2>2. CASE k = i + 1 BY <1>0, <1>3, <1>6, <2>2 DEF Calls
  <2>3. CASE k # i + 1
    <3>1. k \in 1 .. i BY <1>4, <1>6, <2>1, <2>3
    <3>2. call.buffer[k] = cached[call.lba + k - 1]
      BY <1>1, <3>1 DEF IInv, DataSound
    <3> QED BY <1>0, <1>3, <1>6, <2>3, <3>1, <3>2 DEF Calls, n
  <2> QED BY <2>2, <2>3
<1>17. DataSound' BY <1>1, <1>3, <1>16 DEF DataSound
<1> QED BY <1>11, <1>12, <1>13, <1>14, <1>15, <1>17 DEF IInv

\* A sector is sent: it is the next one of the call.
LEMMA WriteWordsIInv == IInv /\ WriteWords => IInv'
<1> SUFFICES ASSUME IInv, WriteWords PROVE IInv' OBVIOUS
<1> DEFINE n == Len(call.buffer)
           written == Words(call.buffer[i + 1])
<1>0. n \in Nat /\ call \in Calls BY DEF IInv, Typed, Calls
<1>1. pc = "transfer" /\ call.op = "write" /\ ~late BY DEF WriteWords, IInv, DataSound
<1>2. i \in Nat /\ i + 1 \in 1 .. n /\ dev.left = n - i /\ dev.lba = call.lba + i
      /\ dev.op = "write" /\ call.lba \in Nat /\ call.lba + i \in Lbas /\ dev # Absent
  BY <1>1, AtThePort DEF Served
<1>3. written \in Sectors BY <1>0, <1>2, WordsType DEF Calls
<1>4. i' = i + 1 /\ UNCHANGED <<media, late, call>>
      /\ pc' = (IF i + 1 < n THEN "delay" ELSE "flush") /\ dev' = Transferred
      /\ cached' = [cached EXCEPT ![call.lba + i] = written]
  BY <1>1, <1>2 DEF WriteWords, NextSector
<1> HIDE DEF written
<1>5. cached' \in [Lbas -> Sectors] BY <1>3, <1>4 DEF IInv, Typed
<1>6. /\ dev' \in Devices /\ dev'.drq = FALSE /\ dev'.state = "busy"
      /\ dev'.op = "write" /\ dev'.lba = call.lba + i' /\ dev'.left = n - i'
  BY <1>0, <1>1, <1>2, <1>4, TransferredType DEF Devices
<1>7. i' \in 0 .. n /\ ((pc' = "delay" /\ i' < n) \/ (pc' = "flush" /\ i' = n))
  BY <1>0, <1>2, <1>4
<1>8. Typed' BY <1>4, <1>5, <1>6, <1>7 DEF IInv, Typed, Labels
<1>9. DeviceSound' BY <1>4, <1>6 DEF DeviceSound
<1>10. LoopSound' BY <1>1, <1>4, <1>6, <1>7 DEF LoopSound, InLoop, Served
<1>11. WaitSound' BY <1>7 DEF WaitSound
<1>12. RestSound' BY <1>0, <1>1, <1>4, <1>6, <1>7 DEF RestSound
<1>13. \A k \in 1 .. i' : cached'[call.lba + k - 1] = Words(call.buffer[k])
  <2>1. SUFFICES ASSUME NEW k \in 1 .. i' PROVE cached'[call.lba + k - 1] = Words(call.buffer[k])
    OBVIOUS
  <2>2. CASE k = i + 1
    <3>1. cached'[call.lba + i] = written BY <1>2, <1>4 DEF IInv, Typed
    <3> QED BY <1>2, <2>2, <3>1 DEF written
  <2>3. CASE k # i + 1
    <3>1. k \in 1 .. i BY <1>4, <1>2, <2>1, <2>3
    <3>2. cached[call.lba + k - 1] = Words(call.buffer[k])
      BY <1>1, <3>1 DEF IInv, DataSound
    <3>3. call.lba + k - 1 \in Lbas /\ call.lba + k - 1 # call.lba + i
      BY <1>2, <2>3, <3>1, PataAssumption DEF Lbas
    <3>4. cached'[call.lba + k - 1] = cached[call.lba + k - 1]
      BY <1>4, <3>3 DEF IInv, Typed
    <3> QED BY <3>2, <3>4
  <2> QED BY <2>2, <2>3
<1>14. DataSound' BY <1>1, <1>4, <1>7, <1>13 DEF DataSound
<1> QED BY <1>8, <1>9, <1>10, <1>11, <1>12, <1>14 DEF IInv

-----------------------------------------------------------------------------

\* The invariant holds in every state, for every disk and every call.
THEOREM Invariance == Spec => []IInv
<1>1. IInv /\ [Next]_vars => IInv'
  <2> SUFFICES ASSUME IInv, [Next]_vars PROVE IInv' OBVIOUS
  <2>1. CASE pata_pio_init BY <2>1, InitCommandIInv
  <2>2. CASE ReadSectors
    <3>1. PICK lba \in Lbas, b \in Buffers({Original(0)}) : Call("read", lba, b)
      BY <2>2 DEF ReadSectors
    <3>2. Original(0) \in Sectors BY PataAssumption DEF Original, Sectors
    <3>3. b \in Seq(Sectors) /\ Len(b) \in 1 .. MaxCount BY <3>2, BuffersType
    <3> QED BY <3>1, <3>3, CallIInv
  <2>3. CASE WriteSectors
    <3>1. PICK lba \in Lbas, b \in Buffers(Payloads) : Call("write", lba, b)
      BY <2>3 DEF WriteSectors
    <3>2. Payloads \subseteq Sectors BY PataAssumption DEF Sectors
    <3>3. b \in Seq(Sectors) /\ Len(b) \in 1 .. MaxCount BY <3>2, BuffersType
    <3> QED BY <2>3, <3>1, <3>3, CallIInv DEF WriteSectors
  <2>4. CASE DriverStep BY <2>4, WaitIInv, ReadWordsIInv, WriteWordsIInv, FlushIInv DEF DriverStep
  <2>5. CASE DeviceStep BY <2>5, BusyIInv, ReadyIInv, FlushedIInv DEF DeviceStep
  <2>6. CASE Fail BY <2>6, FailIInv
  <2>7. CASE UNCHANGED vars
    BY <2>7 DEF vars, IInv, Typed, DeviceSound, LoopSound, InLoop, Served, WaitSound, RestSound, DataSound
  <2> QED BY <2>1, <2>2, <2>3, <2>4, <2>5, <2>6, <2>7 DEF Next
<1> QED BY InitIInv, <1>1, PTL DEF Spec

\* The state has its type.
THEOREM TypeCorrect == Spec => []TypeOK
<1>1. IInv => TypeOK
  BY DEF IInv, Typed, TypeOK, Sectors, Devices, Calls, Labels
<1> QED BY <1>1, Invariance, PTL

\* The driver and the device agree on the sector that goes through the port.
THEOREM InStep == Spec => []TransferIsInStep
<1>1. IInv => TransferIsInStep BY AtThePort DEF TransferIsInStep, Served
<1> QED BY <1>1, Invariance, PTL

\* What a read returns is what is on the disk.
THEOREM ReadsTrue == Spec => []ReadIsTrue
<1>1. IInv => ReadIsTrue BY DEF IInv, RestSound, DataSound, ReadIsTrue, Returned
<1> QED BY <1>1, Invariance, PTL

\* What a write that did not fail has sent survives a power failure.
THEOREM WritesDurable == Spec => []WrittenIsDurable
<1>1. IInv => WrittenIsDurable
  BY DEF IInv, RestSound, DataSound, WrittenIsDurable, Returned
<1> QED BY <1>1, Invariance, PTL
=============================================================================
