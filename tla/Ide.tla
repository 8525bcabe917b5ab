--------------------------------- MODULE Ide ---------------------------------
(***************************************************************************)
(* The polled PIO driver of the primary IDE channel (hw/ide.c) and the     *)
(* drive it talks to.  The drive is external: it is busy for as long as it *)
(* likes, fails when it likes, and ignores what is written to its          *)
(* registers while BSY or DRQ is set.                                      *)
(*                                                                         *)
(* A sector is one value.  The polling loops give up after a million reads *)
(* of the status register: while the drive is busy a timeout may happen at *)
(* any point.  A call is cut where the drive can move: between setting the *)
(* registers, giving the command, each sector and the flush.               *)
(***************************************************************************)
EXTENDS Naturals, FiniteSets

CONSTANTS Sector,       \* the sectors of the disk, 0..n
          Lba28,        \* addresses below this one fit in 28 bits
          ByteMod,      \* 256: an 8-bit register or counter wraps here
          Count,        \* the counts asked for
          IdeMax        \* calls explored

ASSUME IdeAssumption ==
    Sector \subseteq Nat /\ Count \subseteq Nat /\ {Lba28, IdeMax} \subseteq Nat /\ ByteMod \in Nat \ {0}

VARIABLES disk,         \* external: sector -> value
          drive,        \* external: [st, cmd, lba, left, in], st as in the status register
          regs,         \* external: the address and count registers
          ideCall,      \* the call in progress or the last one
          idePc,        \* reset | idle | registers | command | transfer | flush | settle
          ideResult,    \* 0 or -1 (written 1)
          quiet,        \* history: the drive was waiting for a command when the call began
          before,       \* history: the disk when the call began
          unseen,       \* history: the drive failed a write after its last sector was sent and before the flush
          ideCalls

ideVars == <<disk, drive, regs, ideCall, idePc, ideResult, quiet, before, unseen, ideCalls>>

Request == [op : {"read", "write", "read_ext", "write_ext"}, unit : {0, 1}, lba : Sector, count : Count]
           \cup [op : {"identify"}, unit : {0, 1}, lba : {0}, count : {1}]
-----------------------------------------------------------------------------
(* The drive (external).                                                   *)
Waiting == drive.st \in {"idle", "err"}
Accept(cmd, lba, left) ==
    drive' = IF Waiting THEN [st |-> "busy", cmd |-> cmd, lba |-> lba, left |-> left, in |-> <<>>]
             ELSE drive

LastSectorSent ==
    ideCall.op # "none" /\ ideCall.dir = "write" /\ idePc \in {"transfer", "flush"} /\ ideCall.s >= ideCall.count

DriveFails ==
    /\ drive.st = "busy" /\ drive' = [drive EXCEPT !.st = "err"]
    /\ unseen' = (unseen \/ LastSectorSent)
    /\ UNCHANGED <<disk, regs, ideCall, idePc, ideResult, quiet, before, ideCalls>>

DriveWorks ==
    /\ drive.st = "busy"
    /\ drive.cmd \in {"read", "write"} => drive.lba \in Sector
    /\ \/ drive.cmd \in {"reset", "flush"} /\ drive' = [drive EXCEPT !.st = "idle"] /\ UNCHANGED disk
       \/ /\ drive.cmd \in {"read", "identify"} \/ (drive.cmd = "write" /\ drive.in = <<>>)
          /\ drive' = [drive EXCEPT !.st = "drq"] /\ UNCHANGED disk
       \/ /\ drive.cmd = "write" /\ drive.in # <<>>
          /\ disk' = [disk EXCEPT ![drive.lba] = drive.in]
          /\ drive' = [drive EXCEPT !.lba = @ + 1, !.left = @ - 1, !.in = <<>>,
                                    !.st = IF drive.left = 1 THEN "idle" ELSE "drq"]
    /\ UNCHANGED <<regs, ideCall, idePc, ideResult, quiet, before, unseen, ideCalls>>
-----------------------------------------------------------------------------
(* ide_wait_bsy and ide_poll_ready: what a loop over the status register   *)
(* can return.                                                             *)
Ready_IgnoresBusy(st) == st # "idle" /\ st # "err"
Ready(st) == st = "drq"
TimesOut == drive.st = "busy"

IdeReturn(code) == ideResult' = code /\ idePc' = "idle"

IdeInit ==
    /\ disk = [s \in Sector |-> <<"s", s>>]
    /\ drive = [st |-> "busy", cmd |-> "reset", lba |-> 0, left |-> 0, in |-> <<>>]
    /\ regs = [lba |-> 0, count |-> ByteMod]
    /\ ideCall = [op |-> "none"] /\ idePc = "reset" /\ ideResult = 1
    /\ quiet = FALSE /\ before = disk /\ unseen = FALSE /\ ideCalls = 0

(* ide_init resets the drive and goes on even when BSY never clears.       *)
ide_init ==
    /\ idePc = "reset" /\ idePc' = "idle"
    /\ UNCHANGED <<disk, drive, regs, ideCall, ideResult, quiet, before, unseen, ideCalls>>

(* A count of zero is refused, and so is a drive that does not answer; a   *)
(* busy drive 0 still answers for drive 1.  ide_read_sectors and           *)
(* ide_write_sectors turn to the LBA48 calls when a number does not fit.   *)
ide_select_drive(unit) == unit = 0 \/ ~Waiting
Extended(r) == r.op \in {"read_ext", "write_ext"} \/ r.lba >= Lba28 \/ r.count > ByteMod
Dir(r) == IF r.op \in {"write", "write_ext"} THEN "write" ELSE IF r.op = "identify" THEN "identify" ELSE "read"

IdeCall(r) ==
    /\ idePc = "idle" /\ ideCalls < IdeMax
    /\ ideCalls' = ideCalls + 1 /\ before' = disk /\ quiet' = Waiting /\ unseen' = FALSE
    /\ ideCall' = [op |-> r.op, dir |-> Dir(r), lba |-> r.lba, ext |-> Extended(r),
                   count |-> r.count, s |-> 0,
                   buf |-> [i \in 0 .. r.count - 1 |-> IF Dir(r) = "write" THEN <<"w", i, ideCalls'>> ELSE <<"unset">>]]
    /\ IF r.count = 0 \/ ~ide_select_drive(r.unit)
       THEN IdeReturn(1) ELSE idePc' = "registers" /\ ideResult' = 1
    /\ UNCHANGED <<disk, drive, regs>>

(* The LBA28 count register keeps eight bits and 0 stands for 256; the     *)
(* LBA48 one has room for the count.                                       *)
SetRegisters ==
    /\ idePc = "registers" /\ idePc' = "command"
    /\ regs' = IF ~Waiting THEN regs
               ELSE [lba |-> ideCall.lba,
                     count |-> IF ideCall.ext THEN ideCall.count
                               ELSE IF ideCall.count % ByteMod = 0 THEN ByteMod ELSE ideCall.count % ByteMod]
    /\ UNCHANGED <<disk, drive, ideCall, ideResult, quiet, before, unseen, ideCalls>>

GiveCommand ==
    /\ idePc = "command" /\ idePc' = "transfer"
    /\ Accept(ideCall.dir, regs.lba, IF ideCall.dir = "identify" THEN 1 ELSE regs.count)
    /\ UNCHANGED <<disk, regs, ideCall, ideResult, quiet, before, unseen, ideCalls>>

(* One sector through the data port.  The drive drops what is sent to it   *)
(* while it sends, and sends anything while it receives.                   *)
PortData(c) == IF c.st # "drq" \/ c.cmd = "write" THEN <<"junk">> ELSE IF c.cmd = "identify" THEN <<"id">> ELSE disk[c.lba]

Transfer ==
    /\ idePc = "transfer" /\ ideCall.s < ideCall.count /\ Ready(drive.st)
    /\ IF ideCall.dir = "write"
       THEN /\ drive' = IF drive.cmd = "write" THEN [drive EXCEPT !.st = "busy", !.in = ideCall.buf[ideCall.s]] ELSE drive
            /\ ideCall' = [ideCall EXCEPT !.s = IF ideCall.ext THEN @ + 1 ELSE (@ + 1) % ByteMod]
       ELSE /\ drive' = IF drive.cmd = "write" THEN drive
                        ELSE [drive EXCEPT !.lba = @ + 1, !.left = IF @ = 0 THEN 0 ELSE @ - 1,
                                           !.st = IF drive.left <= 1 THEN "idle" ELSE "busy"]
            /\ ideCall' = [ideCall EXCEPT !.buf[ideCall.s] = PortData(drive),
                                          !.s = IF ideCall.ext THEN @ + 1 ELSE (@ + 1) % ByteMod]
    /\ UNCHANGED <<disk, regs, idePc, ideResult, quiet, before, unseen, ideCalls>>

(* ide_poll_ready returns 0: an error, a timeout, or nothing to transfer.  *)
PollFails ==
    /\ idePc = "transfer" /\ ideCall.s < ideCall.count /\ (Waiting \/ TimesOut)
    /\ IdeReturn(1)
    /\ UNCHANGED <<disk, drive, regs, ideCall, quiet, before, unseen, ideCalls>>

(* The loop ends.  A read is done; a write flushes the cache, with the     *)
(* drive possibly still busy with the last sector.                         *)
LoopEnds ==
    /\ idePc = "transfer" /\ ideCall.s >= ideCall.count
    /\ IF ideCall.dir = "write" THEN idePc' = "flush" /\ UNCHANGED ideResult ELSE IdeReturn(0)
    /\ UNCHANGED <<disk, drive, regs, ideCall, quiet, before, unseen, ideCalls>>

FlushCache ==
    /\ idePc = "flush" /\ idePc' = "settle" /\ Accept("flush", 0, 0)
    /\ UNCHANGED <<disk, regs, ideCall, ideResult, quiet, before, unseen, ideCalls>>

(* ide_wait_bsy and the status check; a long ide_write_sectors ignores     *)
(* what ide_write_sectors_ext returned and fails.                          *)
Settle ==
    /\ idePc = "settle"
    /\ IdeReturn(IF drive.st \in {"busy", "err"} \/ (ideCall.ext /\ ideCall.op = "write") THEN 1 ELSE 0)
    /\ UNCHANGED <<disk, drive, regs, ideCall, quiet, before, unseen, ideCalls>>

IdeNext ==
    \/ DriveFails \/ DriveWorks
    \/ ide_init \/ SetRegisters \/ GiveCommand \/ Transfer \/ PollFails \/ LoopEnds \/ FlushCache \/ Settle
    \/ \E r \in Request : IdeCall(r)

IdeSpec == IdeInit /\ [][IdeNext]_ideVars
-----------------------------------------------------------------------------
(* However the drive's answers, failures and timeouts fall between the     *)
(* steps of the driver: a call that found the drive waiting for a command  *)
(* and returned 0 moved exactly the sectors asked for, in order, and       *)
(* touched no other sector (ide_read_sectors, ide_write_sectors, their     *)
(* LBA48 forms and ide_identify).  Excepted: a write whose last sector     *)
(* fails before the flush command, which clears the error unread.          *)
IdeExact ==
    (idePc = "idle" /\ ideCall.op # "none" /\ ideResult = 0 /\ quiet /\ ~unseen) =>
        LET moved == 0 .. ideCall.count - 1
        IN  /\ drive.st = "idle"
            /\ \A i \in moved :
                  IF ideCall.dir = "identify" THEN ideCall.buf[i] = <<"id">>
                  ELSE ideCall.lba + i \in Sector /\ ideCall.buf[i] = disk[ideCall.lba + i]
            /\ \A s \in Sector : disk[s] # before[s] =>
                  ideCall.dir = "write" /\ s \in {ideCall.lba + i : i \in moved}
=============================================================================
