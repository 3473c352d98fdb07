---- MODULE DiskStream ----
(***************************************************************************)
(* Reading the disk in the 32-bit kernel: dstream_seek and dstream_read    *)
(* (src/disk/dstream.c) over disk_read_sector (src/disk/disk.c), which     *)
(* gives the drive a 28-bit sector number in four registers, waits for     *)
(* its data and copies it.  The drive is external.  dstream_read takes one *)
(* sector and calls itself for the rest, with a sector's buffer on the     *)
(* stack for each call; what happens past the end of the stack is unknown. *)
(***************************************************************************)
EXTENDS Integers, Sequences

CONSTANTS SectorSize, \* OS_DISK_SECTOR_SIZE
          Sectors,    \* on the disk
          Radix,      \* values of a register that holds a part of the number
          StackCalls, \* calls of dstream_read that the stack has room for
          MaxRead     \* bytes of one dstream_read

ASSUME StackAssumption == StackCalls \in Nat \ {0}

VARIABLES dpc, pos, asked,  \* the stream, and the read in progress: from and total
          out, left,        \* what was copied out, and the bytes still wanted
          calls,            \* the calls of dstream_read on the stack
          regs, drq, sector \* the drive's registers and status, and buf

diskVars == <<dpc, pos, asked, out, left, calls, regs, drq, sector>>

Byte(n) == n + 1  \* what the disk holds at a place: any two places differ

DiskInit ==
  /\ dpc = "idle" /\ pos = 0 /\ asked = [from |-> 0, total |-> 0] /\ out = <<>> /\ left = 0
  /\ calls = 0
  /\ regs = [low |-> 0, mid |-> 0, high |-> 0, device |-> 0] /\ drq = FALSE /\ sector = <<>>

dstream_seek(p) ==
  /\ dpc = "idle" /\ pos' = p
  /\ UNCHANGED <<dpc, asked, out, left, calls, regs, drq, sector>>

dstream_read(total) ==
  /\ dpc = "idle" /\ dpc' = "read"
  /\ asked' = [from |-> pos, total |-> total] /\ out' = <<>> /\ left' = total /\ calls' = 1
  /\ UNCHANGED <<pos, regs, drq, sector>>

(* disk_read_sector: the sector's number goes into the registers, then the
   command.  (device also has the bit that selects this addressing.) *)
Command ==
  /\ dpc = "read" /\ dpc' = "poll"
  /\ LET lba == pos \div SectorSize
     IN regs' = [low |-> lba % Radix, mid |-> (lba \div Radix) % Radix,
                 high |-> (lba \div Radix ^ 2) % Radix, device |-> lba \div Radix ^ 3]
  /\ drq' = FALSE
  /\ UNCHANGED <<pos, asked, out, left, calls, sector>>

(* The drive, in its own time. *)
DriveReady ==
  /\ dpc = "poll" /\ ~ drq /\ drq' = TRUE
  /\ UNCHANGED <<dpc, pos, asked, out, left, calls, regs, sector>>

Addressed == regs.low + Radix * regs.mid + Radix ^ 2 * regs.high + Radix ^ 3 * regs.device
CopySector ==
  /\ dpc = "poll" /\ drq
  /\ sector' = [i \in 1 .. SectorSize |-> Byte(Addressed * SectorSize + i - 1)]
  /\ drq' = FALSE /\ dpc' = "copy"
  /\ UNCHANGED <<pos, asked, out, left, calls, regs>>

(* What is left is read by a further call, if the stack has room for it; else
   all calls return. *)
CallForRest(n) ==
  \/ left > n /\ calls < StackCalls /\ calls' = calls + 1 /\ dpc' = "read"
  \/ left > n /\ calls = StackCalls /\ dpc' = "overflow" /\ UNCHANGED calls
  \/ left <= n /\ calls' = 0 /\ dpc' = "idle"

TakeBytesToEnd ==
  LET offset_start == pos % SectorSize
      n == IF left < SectorSize THEN left ELSE SectorSize - offset_start
  IN /\ dpc = "copy"
     /\ out' = out \o [i \in 1 .. n |-> IF offset_start + i =< SectorSize THEN sector[offset_start + i] ELSE 0]
     /\ pos' = pos + n /\ left' = left - n
     /\ CallForRest(n)
     /\ sector' = <<>>
     /\ UNCHANGED <<asked, regs, drq>>

(* The rest of dstream_read: the wanted part of the sector is copied out; when
   that is not all, the function calls itself. *)
TakeBytes ==
  LET offset_start == pos % SectorSize
      n == IF offset_start + left < SectorSize THEN left ELSE SectorSize - offset_start
  IN /\ dpc = "copy"
     /\ out' = out \o SubSeq(sector, offset_start + 1, offset_start + n)
     /\ pos' = pos + n /\ left' = left - n
     /\ CallForRest(n)
     /\ sector' = <<>>
     /\ UNCHANGED <<asked, regs, drq>>

DiskNext ==
  \/ \E p \in 0 .. SectorSize * Sectors - MaxRead : dstream_seek(p)
  \/ \E total \in 0 .. MaxRead : pos + total =< SectorSize * Sectors /\ dstream_read(total)
  \/ Command \/ DriveReady \/ CopySector \/ TakeBytes

(* The sectors a read of total bytes touches; an empty one still takes one. *)
Touched(from, total) ==
  IF total = 0 THEN 1 ELSE (from + total - 1) \div SectorSize - from \div SectorSize + 1

(* A read returns the bytes of the disk that follow the stream's position, in
   order and none twice, wherever it begins and ends in a sector, and leaves the
   position behind them; in the middle of it the bytes copied and the bytes still
   wanted make up the whole.  It runs out of stack exactly when it touches more
   sectors than the stack has room for calls, of which dstream.c:36 warns. *)
StreamReads ==
  /\ out = [i \in 1 .. Len(out) |-> Byte(asked.from + i - 1)]
  /\ Len(out) + left = asked.total
  /\ dpc # "idle" => pos = asked.from + Len(out)
  /\ dpc = "overflow" => Touched(asked.from, asked.total) > StackCalls
  /\ dpc = "idle" => left = 0 /\ Touched(asked.from, asked.total) <= StackCalls
====
