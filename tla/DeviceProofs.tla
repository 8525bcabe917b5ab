---------------------------- MODULE DeviceProofs ----------------------------
(***************************************************************************)
(* Proofs about the IDE driver, the network card's rings, the keyboard and *)
(* the mouse, for every drive, ring, buffer and screen considered.  Each   *)
(* component has its inductive invariant and its own theorem; they share   *)
(* no state.                                                               *)
(***************************************************************************)
EXTENDS Integers, Ide, Nic, Input, FiniteSetTheorems, SequenceTheorems, TLAPS

-----------------------------------------------------------------------------
(***************************************************************************)
(* Ide: the driver and the drive in step.  While a call that found the     *)
(* drive waiting is in progress, the drive's own counters (left, lba) and  *)
(* the driver's loop counter tell the same story, up to the one sector     *)
(* that is on its way in a write.                                          *)
(***************************************************************************)
Done == ideCall.count - drive.left

IdeTypes ==
    /\ disk = [x \in Sector |-> disk[x]]
    /\ drive = [st |-> drive.st, cmd |-> drive.cmd, lba |-> drive.lba, left |-> drive.left, in |-> drive.in]
    /\ drive.st \in {"idle", "err", "busy", "drq"}
    /\ drive.left \in Int /\ drive.lba \in Nat
    /\ regs.lba \in Nat /\ regs.count \in Nat
    /\ quiet \in BOOLEAN /\ unseen \in BOOLEAN
    /\ idePc \in {"reset", "idle", "registers", "command", "transfer", "flush", "settle"}

\* The call in progress or the last one.
CallTypes ==
    /\ ideCall = [op |-> ideCall.op, dir |-> ideCall.dir, lba |-> ideCall.lba, ext |-> ideCall.ext,
                  count |-> ideCall.count, s |-> ideCall.s, buf |-> ideCall.buf]
    /\ ideCall.dir \in {"read", "write", "identify"} /\ ideCall.lba \in Nat /\ ideCall.ext \in BOOLEAN
    /\ ideCall.count \in Nat /\ ideCall.s \in Nat
    /\ ideCall.dir = "identify" => ideCall.count = 1
    /\ ~ideCall.ext => ideCall.count <= ByteMod
    /\ DOMAIN ideCall.buf = 0 .. ideCall.count - 1
    /\ ideCall.dir = "write" => \A i \in 0 .. ideCall.count - 1 : ideCall.buf[i] # <<>>

\* Sectors below k have what the call was asked to put there or to fetch.
Transferred(k) ==
    \A i \in 0 .. k - 1 :
        IF ideCall.dir = "identify" THEN ideCall.buf[i] = <<"id">>
        ELSE ideCall.lba + i \in Sector /\ ideCall.buf[i] = disk[ideCall.lba + i]

\* No sector but the first k of the call was written.
OnlyThese(k) == \A x \in Sector : disk[x] # before[x] => \E i \in 0 .. k - 1 : x = ideCall.lba + i

Reading ==
    /\ ideCall.dir # "write" /\ drive.cmd = ideCall.dir /\ ideCall.s <= ideCall.count
    /\ drive.left = ideCall.count - ideCall.s /\ drive.lba = ideCall.lba + ideCall.s
    /\ disk = before
    /\ IF ideCall.s = ideCall.count THEN drive.st = "idle" ELSE drive.st # "idle"
    /\ drive.st = "drq" /\ ideCall.dir = "read" => drive.lba \in Sector
    /\ Transferred(ideCall.s)

Writing ==
    /\ ideCall.dir = "write" /\ drive.cmd = "write" /\ ideCall.s <= ideCall.count
    /\ drive.left <= ideCall.count /\ drive.lba = ideCall.lba + Done
    /\ IF drive.in = <<>>
       THEN Done = ideCall.s /\ (IF ideCall.s = ideCall.count THEN drive.st \in {"idle", "err"} ELSE drive.st # "idle")
       ELSE /\ Done = ideCall.s - 1 /\ drive.in = ideCall.buf[ideCall.s - 1] /\ ideCall.s > 0
            /\ drive.st \in {"busy", "err"}
    /\ ideCall.s = ideCall.count /\ drive.st = "err" => idePc = "settle"
    /\ Transferred(Done) /\ OnlyThese(Done)

\* The 8-bit loop counter passed 255: the drive has all it wants, so it does
\* not raise DRQ again and the loop can only fail.
WrappedRound ==
    /\ ideCall.s = 0 /\ ideCall.count > 0 /\ drive.st # "drq"
    /\ drive.st = "busy" => drive.cmd = "write" /\ drive.in # <<>> /\ drive.left = 1

Flushing ==
    /\ ideCall.dir = "write" /\ drive.cmd = "flush" /\ drive.in = <<>> /\ drive.st # "drq"
    /\ Transferred(ideCall.count) /\ OnlyThese(ideCall.count)

CallOver ==
    /\ drive.st = "idle" /\ Transferred(ideCall.count)
    /\ IF ideCall.dir = "write" THEN OnlyThese(ideCall.count) ELSE disk = before

Progress ==
    CASE idePc = "registers" -> Waiting /\ ideCall.count > 0 /\ ideCall.s = 0 /\ disk = before
      [] idePc = "command"   -> /\ Waiting /\ ideCall.count > 0 /\ ideCall.s = 0 /\ disk = before
                                /\ regs.lba = ideCall.lba /\ regs.count = ideCall.count
      [] idePc = "transfer"  -> Reading \/ Writing \/ WrappedRound
      [] idePc = "flush"     -> Writing /\ ideCall.s = ideCall.count
      [] idePc = "settle"    -> (Writing /\ ideCall.s = ideCall.count) \/ Flushing
      [] idePc = "idle"      -> ideResult = 0 => CallOver
      [] OTHER               -> FALSE

IdeInv ==
    /\ IdeTypes
    /\ ideCall.op = "none" => idePc \in {"reset", "idle"}
    /\ ideCall.op # "none" => CallTypes
    /\ ideCall.op # "none" /\ quiet /\ ~unseen => Progress

\* Before the first call there is nothing to show but types.
LEMMA IdeInitInv == IdeInit => IdeInv
<1> SUFFICES ASSUME IdeInit PROVE IdeInv
  OBVIOUS
<1>1. disk = [x \in Sector |-> disk[x]]
  BY DEF IdeInit
<1>2. IdeTypes
  <2>1. drive = [st |-> "busy", cmd |-> "reset", lba |-> 0, left |-> 0, in |-> <<>>]
        /\ regs = [lba |-> 0, count |-> ByteMod] /\ idePc = "reset" /\ quiet = FALSE /\ unseen = FALSE /\ ByteMod \in Nat
    BY IdeAssumption DEF IdeInit
  <2>2. drive = [st |-> drive.st, cmd |-> drive.cmd, lba |-> drive.lba, left |-> drive.left, in |-> drive.in]
    BY <2>1
  <2>3. /\ drive.st \in {"idle", "err", "busy", "drq"} /\ drive.left \in Int /\ drive.lba \in Nat
        /\ regs.lba \in Nat /\ regs.count \in Nat /\ quiet \in BOOLEAN /\ unseen \in BOOLEAN
        /\ idePc \in {"reset", "idle", "registers", "command", "transfer", "flush", "settle"}
    <3>1. drive.st = "busy" /\ drive.left = 0 /\ drive.lba = 0 /\ regs.lba = 0 /\ regs.count = ByteMod
      BY <2>1
    <3>2. quiet \in BOOLEAN /\ unseen \in BOOLEAN
      BY <2>1, Zenon
    <3>3. drive.st \in {"idle", "err", "busy", "drq"} /\ drive.left \in Int /\ drive.lba \in Nat
          /\ regs.lba \in Nat /\ regs.count \in Nat
      BY <2>1, <3>1
    <3>4. idePc \in {"reset", "idle", "registers", "command", "transfer", "flush", "settle"}
      BY <2>1
    <3> QED BY <3>2, <3>3, <3>4
  <2> QED BY <1>1, <2>2, <2>3, Zenon DEF IdeTypes
<1> QED BY <1>2 DEF IdeInit, IdeInv

\* A new call's record: what ide_read_sectors and the others make of a request.
LEMMA IdeCallTypes ==
    ASSUME IdeInv, NEW r \in Request, IdeCall(r)
    PROVE  /\ IdeTypes' /\ CallTypes' /\ ideCall'.op # "none" /\ idePc' \in {"idle", "registers"}
           /\ ideCall'.s = 0 /\ ideCall'.count = r.count
<1> DEFINE W(i) == IF Dir(r) = "write" THEN <<"w", i, ideCalls'>> ELSE <<"unset">>
           b == [i \in 0 .. r.count - 1 |-> W(i)]
<1>1. r.lba \in Nat /\ r.count \in Nat /\ r.op # "none" /\ (r.op = "identify" => r.count = 1)
  <2>1. CASE r \in [op : {"read", "write", "read_ext", "write_ext"}, unit : {0, 1}, lba : Sector, count : Count]
    BY <2>1, IdeAssumption
  <2>2. CASE r \in [op : {"identify"}, unit : {0, 1}, lba : {0}, count : {1}]
    BY <2>2
  <2> QED BY <2>1, <2>2 DEF Request
<1>2. Dir(r) \in {"read", "write", "identify"} /\ (Dir(r) = "identify" => r.op = "identify")
  BY DEF Dir
<1>3. Extended(r) \in BOOLEAN /\ (~Extended(r) => r.count <= ByteMod)
  BY <1>1, IdeAssumption DEF Extended
<1>4. ideCall' = [op |-> r.op, dir |-> Dir(r), lba |-> r.lba, ext |-> Extended(r), count |-> r.count, s |-> 0, buf |-> b]
  BY DEF IdeCall
<1>5. DOMAIN b = 0 .. r.count - 1 /\ (Dir(r) = "write" => \A i \in 0 .. r.count - 1 : b[i] # <<>>)
  <2>1. \A i : <<"w", i, ideCalls'>> # <<>>
    OBVIOUS
  <2> QED BY <2>1
<1> HIDE DEF b
<1>6. CallTypes' /\ ideCall'.op # "none" /\ ideCall'.s = 0 /\ ideCall'.count = r.count
  BY <1>1, <1>2, <1>3, <1>4, <1>5 DEF CallTypes
<1>7. IdeTypes' /\ idePc' \in {"idle", "registers"}
  <2>1. idePc' \in {"idle", "registers"}
    BY DEF IdeCall, IdeReturn
  <2>2. quiet' \in BOOLEAN /\ unseen' \in BOOLEAN
    <3>1. quiet' = Waiting /\ unseen' = FALSE
      BY DEF IdeCall
    <3>2. Waiting \in BOOLEAN
      BY DEF Waiting
    <3> HIDE DEF Waiting
    <3> QED BY <3>1, <3>2
  <2> QED BY <2>1, <2>2 DEF IdeCall, IdeInv, IdeTypes
<1> QED BY <1>6, <1>7

\* ide_read_sectors and the others find the drive waiting or not, and start.
LEMMA IdeCallStep ==
    ASSUME IdeInv, NEW r \in Request, IdeCall(r)
    PROVE  IdeInv'
<1>1. /\ IdeTypes' /\ CallTypes' /\ ideCall'.op # "none" /\ idePc' \in {"idle", "registers"}
      /\ ideCall'.s = 0 /\ ideCall'.count = r.count
  BY IdeCallTypes
<1>2. ASSUME quiet' PROVE Progress'
  <2>1. Waiting' /\ disk' = before'
    BY <1>2 DEF IdeCall, Waiting
  <2>2. CASE r.count = 0 \/ ~ide_select_drive(r.unit)
    BY <2>2 DEF IdeCall, IdeReturn, Progress
  <2>3. CASE ~(r.count = 0 \/ ~ide_select_drive(r.unit))
    <3>1. idePc' = "registers" /\ r.count # 0
      BY <2>3 DEF IdeCall
    <3>2. ideCall'.count > 0
      BY <1>1, <3>1 DEF CallTypes
    <3> QED BY <1>1, <2>1, <3>1, <3>2 DEF Progress
  <2> QED BY <2>2, <2>3
<1> QED BY <1>1, <1>2 DEF IdeInv

\* A step of the driver that leaves the drive, the disk and the call alone.
Still == disk' = disk /\ drive' = drive /\ ideCall' = ideCall /\ before' = before

\* Such a step leaves what the invariant says of the drive as it was.
LEMMA StillSame ==
    ASSUME Still
    PROVE  /\ Reading' = Reading /\ Flushing' = Flushing /\ CallOver' = CallOver /\ WrappedRound' = WrappedRound
           /\ CallTypes' = CallTypes /\ Waiting' = Waiting
           /\ \A k : Transferred(k)' = Transferred(k) /\ OnlyThese(k)' = OnlyThese(k)
BY DEF Still, Reading, Flushing, CallOver, WrappedRound, CallTypes, Waiting, Transferred, OnlyThese

\* Writing looks at idePc only to allow an error after the flush.
LEMMA StillWriting ==
    ASSUME Still, Writing, idePc' = "settle" \/ idePc # "settle"
    PROVE  Writing'
BY DEF Still, Writing, Done, Transferred, OnlyThese

\* Types of a step that only moves the driver's place in its code.
LEMMA StillTypes ==
    ASSUME IdeInv, Still, regs' = regs, quiet' = quiet, unseen' = unseen,
           idePc' \in {"idle", "transfer", "flush", "settle"}
    PROVE  IdeTypes'
BY DEF IdeInv, IdeTypes, Still

\* The drive fails: nothing more is asked of a call but to notice, unless its
\* last sector is already sent, which unseen records.
LEMMA DriveFailsStep ==
    ASSUME IdeInv, DriveFails
    PROVE  IdeInv'
<1>1. /\ drive.st = "busy" /\ drive' = [drive EXCEPT !.st = "err"] /\ unseen' = (unseen \/ LastSectorSent)
      /\ UNCHANGED <<disk, regs, ideCall, idePc, ideResult, quiet, before>>
  BY DEF DriveFails
<1>2. drive'.st = "err" /\ drive'.cmd = drive.cmd /\ drive'.lba = drive.lba /\ drive'.left = drive.left
      /\ drive'.in = drive.in
  BY <1>1 DEF IdeInv, IdeTypes
<1>3. IdeTypes'
  <2>1. unseen' \in BOOLEAN
    BY <1>1 DEF LastSectorSent, IdeInv, IdeTypes
  <2> QED BY <1>1, <1>2, <2>1 DEF IdeInv, IdeTypes
<1>4. CallTypes' = CallTypes /\ ideCall' = ideCall
  BY <1>1 DEF CallTypes
<1>5. ASSUME ideCall.op # "none", quiet, ~unseen, ~LastSectorSent PROVE Progress'
  <2>1. Progress /\ CallTypes
    BY <1>5 DEF IdeInv
  <2>2. ~Waiting /\ idePc \notin {"registers", "command", "reset"}
    BY <1>1, <2>1 DEF Waiting, Progress
  <2>3. \A k : Transferred(k)' = Transferred(k) /\ OnlyThese(k)' = OnlyThese(k)
    BY <1>1 DEF Transferred, OnlyThese
  <2>4. CASE idePc = "transfer"
    <3>1. CASE Reading
      BY <1>1, <1>2, <2>3, <2>4, <3>1 DEF Reading, Progress
    <3>2. CASE Writing
      <4>1. ideCall.s # ideCall.count
        BY <1>5, <2>1, <2>4, <3>2 DEF LastSectorSent, Writing, CallTypes
      <4>2. Done' = Done
        BY <1>1, <1>2 DEF Done
      <4> QED BY <1>1, <1>2, <2>3, <2>4, <3>2, <4>1, <4>2 DEF Writing, Progress
    <3>3. CASE WrappedRound
      BY <1>1, <1>2, <2>4, <3>3 DEF WrappedRound, Progress
    <3> QED BY <2>1, <2>4, <3>1, <3>2, <3>3 DEF Progress
  <2>5. CASE idePc = "flush"
    BY <1>5, <2>1, <2>5 DEF Progress, LastSectorSent, Writing, CallTypes
  <2>6. CASE idePc = "settle"
    <3>1. CASE Writing /\ ideCall.s = ideCall.count
      <4>2. Done' = Done
        BY <1>1, <1>2 DEF Done
      <4> QED BY <1>1, <1>2, <2>3, <2>6, <3>1, <4>2 DEF Writing, Progress
    <3>2. CASE Flushing
      BY <1>1, <1>2, <2>3, <2>6, <3>2 DEF Flushing, Progress
    <3> QED BY <2>1, <2>6, <3>1, <3>2 DEF Progress
  <2>7. CASE idePc = "idle"
    BY <1>1, <2>1, <2>7 DEF Progress, CallOver
  <2> QED BY <2>2, <2>4, <2>5, <2>6, <2>7 DEF IdeInv, IdeTypes
<1> QED BY <1>1, <1>3, <1>4, <1>5 DEF IdeInv

\* The drive gets on with its command.
LEMMA DriveWorksStep ==
    ASSUME IdeInv, DriveWorks
    PROVE  IdeInv'
<1>1. /\ drive.st = "busy" /\ UNCHANGED <<regs, ideCall, idePc, ideResult, quiet, before, unseen>>
      /\ drive.cmd \in {"read", "write"} => drive.lba \in Sector
  BY DEF DriveWorks
<1> DEFINE Simple(v) == disk' = disk /\ drive' = [drive EXCEPT !.st = v]
           Wrote == /\ drive.cmd = "write" /\ drive.in # <<>>
                    /\ disk' = [disk EXCEPT ![drive.lba] = drive.in]
                    /\ drive' = [drive EXCEPT !.lba = @ + 1, !.left = @ - 1, !.in = <<>>,
                                              !.st = IF drive.left = 1 THEN "idle" ELSE "drq"]
<1>2. \/ drive.cmd \in {"reset", "flush"} /\ Simple("idle")
      \/ (drive.cmd \in {"read", "identify"} \/ (drive.cmd = "write" /\ drive.in = <<>>)) /\ Simple("drq")
      \/ Wrote
  BY DEF DriveWorks
<1>3. ASSUME NEW v \in {"idle", "drq"}, Simple(v)
      PROVE  /\ drive'.st = v /\ drive'.cmd = drive.cmd /\ drive'.lba = drive.lba /\ drive'.left = drive.left
             /\ drive'.in = drive.in /\ Done' = Done /\ IdeTypes'
             /\ \A k : Transferred(k)' = Transferred(k) /\ OnlyThese(k)' = OnlyThese(k)
  BY <1>1, <1>3 DEF IdeInv, IdeTypes, Done, Transferred, OnlyThese
<1>4. ASSUME Wrote
      PROVE  /\ drive'.st = (IF drive.left = 1 THEN "idle" ELSE "drq") /\ drive'.cmd = "write"
             /\ drive'.lba = drive.lba + 1 /\ drive'.left = drive.left - 1
             /\ drive'.in = <<>> /\ IdeTypes'
  <2>1. drive = [st |-> drive.st, cmd |-> drive.cmd, lba |-> drive.lba, left |-> drive.left, in |-> drive.in]
        /\ drive.left \in Int /\ drive.lba \in Nat /\ disk = [x \in Sector |-> disk[x]]
    BY DEF IdeInv, IdeTypes
  <2>2. drive' = [st |-> IF drive.left = 1 THEN "idle" ELSE "drq", cmd |-> "write", lba |-> drive.lba + 1,
                  left |-> drive.left - 1, in |-> <<>>]
    BY <1>4, <2>1
  <2>3. disk' = [x \in Sector |-> disk'[x]]
    BY <1>4, <2>1
  <2> QED BY <1>1, <2>1, <2>2, <2>3 DEF IdeInv, IdeTypes
<1>5. IdeTypes'
  BY <1>2, <1>3, <1>4
<1>6. CallTypes' = CallTypes /\ ideCall' = ideCall
  BY <1>1 DEF CallTypes
<1>7. ASSUME ideCall.op # "none", quiet, ~unseen PROVE Progress'
  <2>1. Progress /\ CallTypes /\ drive.left \in Int
    BY <1>7 DEF IdeInv, IdeTypes
  <2>2. ~Waiting /\ idePc \notin {"registers", "command", "reset"}
    BY <1>1, <2>1 DEF Waiting, Progress
  <2>3. CASE idePc = "idle"
    BY <1>1, <2>1, <2>3 DEF Progress, CallOver
  <2>4. CASE idePc = "transfer" /\ Reading
    <3>1. Simple("drq")
      BY <1>2, <2>1, <2>4 DEF Reading, CallTypes
    <3> QED BY <1>1, <1>3, <2>4, <3>1 DEF Reading, Progress
  <2>5. CASE idePc = "transfer" /\ WrappedRound
    <3>1. Wrote
      BY <1>1, <1>2, <2>5 DEF WrappedRound
    <3> QED BY <1>1, <1>4, <2>5, <3>1 DEF WrappedRound, Progress
  <2>6. ASSUME Writing PROVE Writing'
    <3>1. CASE drive.in = <<>>
      <4>1. Simple("drq") /\ ideCall.s # ideCall.count
        BY <1>1, <1>2, <2>6, <3>1 DEF Writing
      <4> QED BY <1>1, <1>3, <2>6, <3>1, <4>1 DEF Writing
    <3>2. CASE drive.in # <<>>
      <4>1. Wrote
        BY <1>2, <2>6, <3>2 DEF Writing
      <4>2. Done = ideCall.s - 1 /\ Done \in Nat /\ Done' = ideCall.s /\ drive.lba = ideCall.lba + Done
            /\ drive.in = ideCall.buf[Done] /\ ideCall.s \in Nat /\ ideCall.lba \in Nat /\ ideCall.count \in Nat
            /\ ideCall.s <= ideCall.count
        BY <1>1, <1>4, <2>1, <2>6, <3>2, <4>1, SMTT(40) DEF Writing, Done, CallTypes
      <4>3. drive'.lba = ideCall.lba + Done' /\ (drive.left = 1 <=> ideCall.s = ideCall.count)
        <5>1. drive'.lba = drive.lba + 1
          BY <1>4, <4>1
        <5>2. drive'.lba = ideCall.lba + Done'
          <6> HIDE DEF Wrote, Simple
          <6> QED BY <4>2, <5>1
        <5>3. drive.left = ideCall.count - (ideCall.s - 1)
          <6>1. Done = ideCall.count - drive.left
            BY DEF Done
          <6>2. drive.left \in Int /\ ideCall.count \in Nat /\ ideCall.s \in Nat /\ Done = ideCall.s - 1
            BY <2>1, <4>2
          <6> QED BY <6>1, <6>2
        <5>4. drive.left = 1 <=> ideCall.s = ideCall.count
          <6>1. ideCall.count \in Nat /\ ideCall.s \in Nat
            BY <4>2
          <6> QED BY <5>3, <6>1
        <5> QED BY <5>2, <5>4
      <4>4. disk'[drive.lba] = drive.in /\ (\A x \in Sector : x # drive.lba => disk'[x] = disk[x]) /\ drive.lba \in Sector
        BY <1>1, <4>1 DEF IdeInv, IdeTypes
      <4>5. Transferred(Done)'
        <5> SUFFICES ASSUME NEW i \in 0 .. ideCall.s - 1
                     PROVE  ideCall.lba + i \in Sector /\ ideCall.buf[i] = disk'[ideCall.lba + i]
          BY <1>1, <2>6, <4>2 DEF Transferred, Writing
        <5>1. CASE i = Done
          BY <4>2, <4>4, <5>1
        <5>2. CASE i # Done
          <6>1. i \in 0 .. Done - 1 /\ ideCall.lba + i # drive.lba
            BY <4>2, <5>2
          <6>2. ideCall.lba + i \in Sector /\ ideCall.buf[i] = disk[ideCall.lba + i]
            BY <2>6, <6>1 DEF Writing, Transferred
          <6> QED BY <4>4, <6>1, <6>2
        <5> QED BY <5>1, <5>2
      <4>6. OnlyThese(Done)'
        <5> SUFFICES ASSUME NEW x \in Sector, disk'[x] # before[x]
                     PROVE  \E i \in 0 .. ideCall.s - 1 : x = ideCall.lba + i
          BY <1>1, <4>2 DEF OnlyThese
        <5>1. CASE x = drive.lba
          BY <4>2, <5>1
        <5>2. CASE x # drive.lba
          <6>1. PICK i \in 0 .. Done - 1 : x = ideCall.lba + i
            BY <2>6, <4>4, <5>2 DEF Writing, OnlyThese
          <6>2. i \in 0 .. ideCall.s - 1
            BY <4>2
          <6> QED BY <6>1, <6>2
        <5> QED BY <5>1, <5>2
      <4>7. drive'.left <= ideCall.count
        BY <1>4, <2>1, <2>6, <4>1, <4>2 DEF Writing
      <4> QED BY <1>1, <1>4, <2>6, <4>1, <4>2, <4>3, <4>5, <4>6, <4>7 DEF Writing
    <3> QED BY <3>1, <3>2
  <2>7. CASE idePc = "settle" /\ Flushing
    <3>1. Simple("idle")
      BY <1>2, <2>7 DEF Flushing
    <3> QED BY <1>1, <1>3, <2>7, <3>1 DEF Flushing, Progress
  <2>8. CASE idePc \in {"transfer", "flush", "settle"} /\ Writing
    <3>1. ~Flushing /\ Writing'
      BY <2>6, <2>8 DEF Writing, Flushing
    <3>2. CASE idePc = "transfer"
      BY <1>1, <3>1, <3>2 DEF Progress
    <3>3. CASE idePc = "flush"
      BY <1>1, <2>1, <3>1, <3>3 DEF Progress
    <3>4. CASE idePc = "settle"
      BY <1>1, <2>1, <3>1, <3>4 DEF Progress
    <3> QED BY <2>8, <3>2, <3>3, <3>4
  <2> QED BY <2>1, <2>2, <2>3, <2>4, <2>5, <2>7, <2>8 DEF Progress, IdeInv, IdeTypes
<1> QED BY <1>1, <1>5, <1>6, <1>7 DEF IdeInv

\* The registers: an LBA28 count of 256 is written as 0, which the drive reads as 256.
LEMMA SetRegistersStep ==
    ASSUME IdeInv, SetRegisters
    PROVE  IdeInv'
<1>1. /\ idePc = "registers" /\ idePc' = "command" /\ Still
      /\ UNCHANGED <<ideResult, quiet, unseen>>
  BY DEF SetRegisters, Still
<1>2. CallTypes /\ ideCall.op # "none"
  BY <1>1 DEF IdeInv
<1> DEFINE n == ideCall.count
           m == n % ByteMod
           k == IF ideCall.ext THEN n ELSE IF m = 0 THEN ByteMod ELSE m
<1>3. ByteMod \in Nat /\ ByteMod > 0 /\ n \in Nat /\ m \in 0 .. ByteMod - 1 /\ k \in Nat
  BY <1>2, IdeAssumption DEF CallTypes
<1>4. n > 0 => k = n
  <2>1. CASE ideCall.ext
    BY <2>1
  <2>2. CASE ~ideCall.ext /\ n = ByteMod
    BY <1>3, <2>2
  <2>3. CASE ~ideCall.ext /\ n < ByteMod
    BY <1>3, <2>3
  <2> QED BY <1>2, <1>3, <2>1, <2>2, <2>3 DEF CallTypes
<1>5. regs' = IF ~Waiting THEN regs ELSE [lba |-> ideCall.lba, count |-> k]
  BY DEF SetRegisters
<1> HIDE DEF k
<1>6. regs'.lba \in Nat /\ regs'.count \in Nat
  BY <1>2, <1>3, <1>5 DEF IdeInv, IdeTypes, CallTypes
<1>7. IdeTypes'
  BY <1>1, <1>6 DEF IdeInv, IdeTypes, Still
<1>8. CallTypes' /\ ideCall' = ideCall
  BY <1>1, <1>2, StillSame DEF Still
<1>9. ASSUME quiet, ~unseen PROVE Progress'
  <2>1. Waiting /\ n > 0 /\ ideCall.s = 0 /\ disk = before
    BY <1>1, <1>2, <1>9 DEF IdeInv, Progress
  <2>2. regs'.lba = ideCall.lba /\ regs'.count = n
    BY <1>4, <1>5, <2>1
  <2>3. Waiting'
    BY <1>1, <2>1, StillSame
  <2> QED BY <1>1, <2>1, <2>2, <2>3 DEF Progress, Still
<1> QED BY <1>1, <1>2, <1>7, <1>8, <1>9 DEF IdeInv

\* The command: a waiting drive takes it with the registers as they were set.
LEMMA GiveCommandStep ==
    ASSUME IdeInv, GiveCommand
    PROVE  IdeInv'
<1>1. /\ idePc = "command" /\ idePc' = "transfer"
      /\ UNCHANGED <<disk, regs, ideCall, ideResult, quiet, before, unseen>>
  BY DEF GiveCommand
<1>2. CallTypes /\ ideCall.op # "none"
  BY <1>1 DEF IdeInv
<1> DEFINE l == IF ideCall.dir = "identify" THEN 1 ELSE regs.count
           d == [st |-> "busy", cmd |-> ideCall.dir, lba |-> regs.lba, left |-> l, in |-> <<>>]
<1>3. drive' = IF Waiting THEN d ELSE drive
  BY DEF GiveCommand, Accept
<1>4. l \in Nat /\ regs.lba \in Nat
  BY DEF IdeInv, IdeTypes
<1>5. IdeTypes'
  <2>1. CASE Waiting
    <3>1. drive' = d
      BY <1>3, <2>1
    <3> QED BY <1>1, <1>4, <3>1 DEF IdeInv, IdeTypes
  <2>2. CASE ~Waiting
    BY <1>1, <1>3, <2>2 DEF IdeInv, IdeTypes
  <2> QED BY <2>1, <2>2
<1>6. CallTypes' /\ ideCall' = ideCall
  BY <1>1, <1>2 DEF CallTypes
<1>7. ASSUME quiet, ~unseen PROVE Progress'
  <2>1. /\ Waiting /\ ideCall.count > 0 /\ ideCall.s = 0 /\ disk = before
        /\ regs.lba = ideCall.lba /\ regs.count = ideCall.count
    BY <1>1, <1>2, <1>7 DEF IdeInv, Progress
  <2>2. drive' = [st |-> "busy", cmd |-> ideCall.dir, lba |-> ideCall.lba, left |-> ideCall.count, in |-> <<>>]
    BY <1>2, <1>3, <2>1 DEF CallTypes
  <2>3. ideCall.count \in Nat /\ ideCall.lba \in Nat /\ ideCall.dir \in {"read", "write", "identify"}
    BY <1>2 DEF CallTypes
  <2>4. CASE ideCall.dir = "write"
    <3>1. Done' = 0
      BY <1>1, <2>2, <2>3 DEF Done
    <3>2. Transferred(Done)' /\ OnlyThese(Done)'
      BY <1>1, <2>1, <3>1 DEF Transferred, OnlyThese
    <3>3. Writing'
      BY <1>1, <2>1, <2>2, <2>3, <2>4, <3>1, <3>2 DEF Writing
    <3> QED BY <1>1, <3>3 DEF Progress
  <2>5. CASE ideCall.dir # "write"
    <3>1. Transferred(ideCall.s)'
      BY <1>1, <2>1 DEF Transferred
    <3>2. Reading'
      BY <1>1, <2>1, <2>2, <2>3, <2>5, <3>1 DEF Reading
    <3> QED BY <1>1, <3>2 DEF Progress
  <2> QED BY <2>4, <2>5
<1> QED BY <1>1, <1>2, <1>5, <1>6, <1>7 DEF IdeInv

\* ide_poll_ready gives up: the call returns -1.
LEMMA PollFailsStep ==
    ASSUME IdeInv, PollFails
    PROVE  IdeInv'
<1>1. /\ idePc = "transfer" /\ idePc' = "idle" /\ ideResult' = 1 /\ Still
      /\ UNCHANGED <<regs, quiet, unseen>>
  BY DEF PollFails, IdeReturn, Still
<1>2. CallTypes /\ ideCall.op # "none"
  BY <1>1 DEF IdeInv
<1>3. IdeTypes' /\ CallTypes' /\ ideCall' = ideCall
  BY <1>1, <1>2, StillTypes, StillSame DEF Still
<1>4. Progress'
  BY <1>1 DEF Progress
<1> QED BY <1>1, <1>2, <1>3, <1>4 DEF IdeInv

\* The loop over the sectors ends: a read returns 0, a write goes on to the flush.
LEMMA LoopEndsStep ==
    ASSUME IdeInv, LoopEnds
    PROVE  IdeInv'
<1>1. /\ idePc = "transfer" /\ ideCall.s >= ideCall.count /\ Still
      /\ IF ideCall.dir = "write" THEN idePc' = "flush" ELSE idePc' = "idle"
      /\ UNCHANGED <<regs, quiet, unseen>>
  BY DEF LoopEnds, IdeReturn, Still
<1>2. CallTypes /\ ideCall.op # "none" /\ ideCall.count \in Nat /\ ideCall.s \in Nat
  BY <1>1 DEF IdeInv, CallTypes
<1>3. IdeTypes' /\ CallTypes' /\ ideCall' = ideCall
  BY <1>1, <1>2, StillTypes, StillSame DEF Still
<1>4. ASSUME quiet, ~unseen PROVE Progress'
  <2>1. Reading \/ Writing \/ WrappedRound
    BY <1>1, <1>2, <1>4 DEF IdeInv, Progress
  <2>2. ~WrappedRound
    BY <1>1, <1>2 DEF WrappedRound
  <2>3. CASE Reading
    <3>1. ideCall.s = ideCall.count /\ CallOver /\ ideCall.dir # "write"
      BY <1>1, <1>2, <2>3 DEF Reading, CallOver
    <3>2. CallOver'
      BY <1>1, <3>1, StillSame
    <3> QED BY <1>1, <3>1, <3>2 DEF Progress
  <2>4. CASE Writing
    <3>1. ideCall.s = ideCall.count /\ ideCall.dir = "write"
      BY <1>1, <1>2, <2>4 DEF Writing
    <3>2. Writing'
      BY <1>1, <2>4, StillWriting
    <3> QED BY <1>1, <1>3, <3>1, <3>2 DEF Progress
  <2> QED BY <2>1, <2>2, <2>3, <2>4
<1> QED BY <1>1, <1>2, <1>3, <1>4 DEF IdeInv

\* The flush command: ignored by a drive that is still busy with the last sector.
LEMMA FlushCacheStep ==
    ASSUME IdeInv, FlushCache
    PROVE  IdeInv'
<1>1. /\ idePc = "flush" /\ idePc' = "settle"
      /\ UNCHANGED <<disk, regs, ideCall, ideResult, quiet, before, unseen>>
  BY DEF FlushCache
<1>2. CallTypes /\ ideCall.op # "none"
  BY <1>1 DEF IdeInv
<1> DEFINE d == [st |-> "busy", cmd |-> "flush", lba |-> 0, left |-> 0, in |-> <<>>]
<1>3. drive' = IF Waiting THEN d ELSE drive
  BY DEF FlushCache, Accept
<1>4. IdeTypes'
  BY <1>1, <1>3 DEF IdeInv, IdeTypes
<1>5. CallTypes' /\ ideCall' = ideCall
  BY <1>1, <1>2 DEF CallTypes
<1>6. ASSUME quiet, ~unseen PROVE Progress'
  <2>1. Writing /\ ideCall.s = ideCall.count
    BY <1>1, <1>2, <1>6 DEF IdeInv, Progress
  <2>2. CASE Waiting
    <3>1. drive.in = <<>> /\ Done = ideCall.count
      BY <1>1, <2>1, <2>2 DEF Writing, Waiting
    <3>2. Transferred(ideCall.count) /\ OnlyThese(ideCall.count)
      BY <2>1, <3>1 DEF Writing
    <3>3. drive' = d
      BY <1>3, <2>2
    <3>4. Transferred(ideCall.count)' /\ OnlyThese(ideCall.count)'
      BY <1>1, <3>2 DEF Transferred, OnlyThese
    <3>5. Flushing'
      BY <1>1, <2>1, <3>3, <3>4 DEF Flushing, Writing
    <3> QED BY <1>1, <3>5 DEF Progress
  <2>3. CASE ~Waiting
    <3>1. Still
      BY <1>1, <1>3, <2>3 DEF Still
    <3>2. Writing'
      BY <1>1, <2>1, <3>1, StillWriting
    <3> QED BY <1>1, <2>1, <3>2 DEF Progress
  <2> QED BY <2>2, <2>3
<1> QED BY <1>1, <1>2, <1>4, <1>5, <1>6 DEF IdeInv

\* A write returns 0 only when the drive is done with every sector.
LEMMA SettleStep ==
    ASSUME IdeInv, Settle
    PROVE  IdeInv'
<1>1. /\ idePc = "settle" /\ idePc' = "idle" /\ Still
      /\ ideResult' = 0 => drive.st \notin {"busy", "err"}
      /\ UNCHANGED <<regs, quiet, unseen>>
  BY DEF Settle, IdeReturn, Still
<1>2. CallTypes /\ ideCall.op # "none"
  BY <1>1 DEF IdeInv
<1>3. IdeTypes' /\ CallTypes' /\ ideCall' = ideCall
  BY <1>1, <1>2, StillTypes, StillSame DEF Still
<1>4. ASSUME quiet, ~unseen, ideResult' = 0 PROVE CallOver
  <2>1. (Writing /\ ideCall.s = ideCall.count) \/ Flushing
    BY <1>1, <1>2, <1>4 DEF IdeInv, Progress
  <2>2. CASE Writing /\ ideCall.s = ideCall.count
    <3>1. drive.in = <<>> /\ Done = ideCall.count /\ drive.st = "idle"
      BY <1>1, <1>4, <2>2 DEF Writing
    <3> QED BY <2>2, <3>1 DEF Writing, CallOver
  <2>3. CASE Flushing
    BY <1>1, <1>4, <2>3 DEF Flushing, CallOver, IdeInv, IdeTypes
  <2> QED BY <2>1, <2>2, <2>3
<1>5. ASSUME quiet, ~unseen PROVE Progress'
  <2>1. ASSUME ideResult' = 0 PROVE CallOver'
    BY <1>1, <1>4, <1>5, <2>1, StillSame
  <2> QED BY <1>1, <2>1 DEF Progress
<1> QED BY <1>1, <1>2, <1>3, <1>5 DEF IdeInv

\* One sector through the data port.
LEMMA TransferStep ==
    ASSUME IdeInv, Transfer
    PROVE  IdeInv'
<1>1. /\ idePc = "transfer" /\ idePc' = "transfer" /\ ideCall.s < ideCall.count /\ drive.st = "drq"
      /\ UNCHANGED <<disk, regs, quiet, before, unseen>>
  BY DEF Transfer, Ready
<1>2. CallTypes /\ ideCall.op # "none"
  BY <1>1 DEF IdeInv
<1> DEFINE n == ideCall.count
           s0 == ideCall.s
           t == IF ideCall.ext THEN s0 + 1 ELSE (s0 + 1) % ByteMod
<1>3. n \in Nat /\ s0 \in Nat /\ ByteMod \in Nat /\ ByteMod > 0 /\ s0 < n /\ ideCall.lba \in Nat
      /\ ideCall = [op |-> ideCall.op, dir |-> ideCall.dir, lba |-> ideCall.lba, ext |-> ideCall.ext,
                    count |-> n, s |-> s0, buf |-> ideCall.buf]
      /\ DOMAIN ideCall.buf = 0 .. n - 1
  BY <1>1, <1>2, IdeAssumption DEF CallTypes
<1>4. t = s0 + 1 \/ (t = 0 /\ s0 + 1 = n)
  <2>1. CASE ideCall.ext
    BY <2>1
  <2>2. CASE ~ideCall.ext /\ s0 + 1 < ByteMod
    BY <1>3, <2>2
  <2>3. CASE ~ideCall.ext /\ s0 + 1 = ByteMod
    <3>1. n <= ByteMod
      BY <1>2, <2>3 DEF CallTypes
    <3>2. n = ByteMod
      BY <1>3, <2>3, <3>1
    <3>3. ByteMod % ByteMod = 0
      BY <1>3
    <3> QED BY <2>3, <3>2, <3>3
  <2>4. ~ideCall.ext => s0 + 1 <= ByteMod
    BY <1>2, <1>3 DEF CallTypes
  <2> QED BY <1>3, <2>1, <2>2, <2>3, <2>4
<1>5. t \in Nat
  BY <1>3, <1>4
<1>6. drive = [st |-> drive.st, cmd |-> drive.cmd, lba |-> drive.lba, left |-> drive.left, in |-> drive.in]
      /\ drive.left \in Int /\ drive.lba \in Nat
  BY DEF IdeInv, IdeTypes
<1> HIDE DEF t
<1>7. CASE ideCall.dir = "write"
  <2>1. ideCall' = [ideCall EXCEPT !.s = t]
    BY <1>7 DEF Transfer, t
  <2>2. drive' = IF drive.cmd = "write" THEN [drive EXCEPT !.st = "busy", !.in = ideCall.buf[s0]] ELSE drive
    BY <1>7 DEF Transfer
  <2>3. /\ ideCall' = [op |-> ideCall.op, dir |-> "write", lba |-> ideCall.lba, ext |-> ideCall.ext,
                       count |-> n, s |-> t, buf |-> ideCall.buf]
    BY <1>3, <1>7, <2>1
  <2>4. CallTypes' /\ ideCall'.op # "none"
    BY <1>2, <1>3, <1>5, <1>7, <2>3 DEF CallTypes
  <2>5. IdeTypes'
    BY <1>1, <1>6, <2>2 DEF IdeInv, IdeTypes
  <2>6. ASSUME quiet, ~unseen PROVE Progress'
    <3>1. Reading \/ Writing \/ WrappedRound
      BY <1>1, <1>2, <2>6 DEF IdeInv, Progress
    <3>2. Writing
      BY <1>1, <1>7, <3>1 DEF Reading, WrappedRound
    <3>3. drive' = [st |-> "busy", cmd |-> "write", lba |-> drive.lba, left |-> drive.left, in |-> ideCall.buf[s0]]
      BY <1>6, <2>2, <3>2 DEF Writing
    <3>4. drive.in = <<>> /\ Done = s0 /\ drive.left = n - s0 /\ drive.lba = ideCall.lba + s0
      BY <1>1, <1>3, <1>6, <3>2 DEF Writing, Done
    <3>5. ideCall.buf[s0] # <<>>
      BY <1>2, <1>3, <1>7 DEF CallTypes
    <3>6. Done' = s0
      BY <1>3, <2>3, <3>3, <3>4 DEF Done
    <3>7. Transferred(Done)' /\ OnlyThese(Done)'
      <4>1. Transferred(Done) /\ OnlyThese(Done) /\ Done' = Done
        BY <3>2, <3>4, <3>6 DEF Writing
      <4>2. ideCall'.dir = ideCall.dir /\ ideCall'.lba = ideCall.lba /\ ideCall'.buf = ideCall.buf
        BY <1>7, <2>3
      <4> QED BY <1>1, <4>1, <4>2 DEF Transferred, OnlyThese
    <3>8. CASE t = s0 + 1
      <4>1. Writing'
        <5>1. ideCall'.s - 1 = s0 /\ ideCall'.s <= n /\ ideCall'.s > 0 /\ ideCall'.count = n /\ ideCall'.dir = "write"
          BY <1>3, <2>3, <3>8
        <5>2. drive'.in = ideCall'.buf[ideCall'.s - 1] /\ drive'.in # <<>> /\ drive'.left <= n
              /\ drive'.lba = ideCall'.lba + Done' /\ drive'.cmd = "write" /\ drive'.st = "busy"
          BY <1>3, <2>3, <3>3, <3>4, <3>5, <3>6, <5>1
        <5> QED BY <3>6, <3>7, <5>1, <5>2 DEF Writing
      <4> QED BY <1>1, <4>1 DEF Progress
    <3>9. CASE t = 0 /\ s0 + 1 = n
      <4>1. WrappedRound'
        BY <1>3, <2>3, <3>3, <3>4, <3>5, <3>9 DEF WrappedRound
      <4> QED BY <1>1, <4>1 DEF Progress
    <3> QED BY <1>4, <3>8, <3>9
  <2> QED BY <1>1, <2>4, <2>5, <2>6 DEF IdeInv
<1>8. CASE ideCall.dir # "write"
  <2> DEFINE p == PortData(drive)
             b == [ideCall.buf EXCEPT ![s0] = p]
             l == IF drive.left = 0 THEN 0 ELSE drive.left - 1
             z == IF drive.left <= 1 THEN "idle" ELSE "busy"
             e == [st |-> z, cmd |-> drive.cmd, lba |-> drive.lba + 1, left |-> l, in |-> drive.in]
  <2>1. ideCall' = [ideCall EXCEPT !.buf[s0] = p, !.s = t]
    BY <1>8 DEF Transfer, t
  <2>2. drive' = IF drive.cmd = "write" THEN drive ELSE e
    <3> DEFINE e1 == [drive EXCEPT !.lba = drive.lba + 1]
               e2 == [e1 EXCEPT !.left = IF drive.left = 0 THEN 0 ELSE drive.left - 1]
               e3 == [e2 EXCEPT !.st = IF drive.left <= 1 THEN "idle" ELSE "busy"]
    <3>1. drive' = IF drive.cmd = "write" THEN drive ELSE e3
      BY <1>6, <1>8 DEF Transfer
    <3>2. e1 = [st |-> drive.st, cmd |-> drive.cmd, lba |-> drive.lba + 1, left |-> drive.left, in |-> drive.in]
      BY <1>6
    <3> HIDE DEF e1
    <3>3. e2 = [st |-> drive.st, cmd |-> drive.cmd, lba |-> drive.lba + 1, left |-> l, in |-> drive.in]
      BY <3>2
    <3> HIDE DEF e2
    <3>4. e3 = e
      BY <3>3
    <3> HIDE DEF e3, e
    <3> QED BY <3>1, <3>4
  <2>3. ideCall' = [op |-> ideCall.op, dir |-> ideCall.dir, lba |-> ideCall.lba, ext |-> ideCall.ext,
                    count |-> n, s |-> t, buf |-> b]
    <3> HIDE DEF p
    <3> QED BY <1>3, <2>1
  <2>4. DOMAIN b = 0 .. n - 1 /\ b[s0] = p /\ \A i \in 0 .. n - 1 : i # s0 => b[i] = ideCall.buf[i]
    BY <1>3
  <2> HIDE DEF b, p
  <2>5. CallTypes' /\ ideCall'.op # "none"
    BY <1>2, <1>5, <1>8, <2>3, <2>4 DEF CallTypes
  <2>6. l \in Int /\ z \in {"idle", "busy"}
    BY <1>6
  <2>7. IdeTypes'
    <3>1. CASE drive.cmd = "write"
      BY <1>1, <2>2, <3>1 DEF IdeInv, IdeTypes
    <3>2. CASE drive.cmd # "write"
      <4>1. drive' = e
        BY <2>2, <3>2
      <4> HIDE DEF l, z
      <4> QED BY <1>1, <1>6, <2>6, <4>1 DEF IdeInv, IdeTypes
    <3> QED BY <3>1, <3>2
  <2>8. ASSUME quiet, ~unseen PROVE Progress'
    <3>1. Reading \/ Writing \/ WrappedRound
      BY <1>1, <1>2, <2>8 DEF IdeInv, Progress
    <3>2. Reading
      BY <1>1, <1>8, <3>1 DEF Writing, WrappedRound
    <3>3. drive.cmd = ideCall.dir /\ drive.left = n - s0 /\ drive.lba = ideCall.lba + s0 /\ disk = before
      BY <3>2 DEF Reading
    <3>4. drive' = [st |-> IF s0 + 1 = n THEN "idle" ELSE "busy", cmd |-> ideCall.dir, lba |-> drive.lba + 1,
                    left |-> n - (s0 + 1), in |-> drive.in]
      BY <1>3, <1>8, <2>2, <3>3
    <3>5. CASE t = 0 /\ s0 + 1 = n
      <4>1. WrappedRound'
        BY <1>3, <2>3, <3>4, <3>5 DEF WrappedRound
      <4> QED BY <1>1, <4>1 DEF Progress
    <3>6. CASE t = s0 + 1
      <4>1. IF ideCall.dir = "identify" THEN p = <<"id">> ELSE ideCall.lba + s0 \in Sector /\ p = disk[ideCall.lba + s0]
        BY <1>1, <1>2, <1>8, <3>2, <3>3 DEF PortData, p, Reading, CallTypes
      <4>2. Transferred(ideCall.s)'
        <5> SUFFICES ASSUME NEW i \in 0 .. s0
                     PROVE  IF ideCall.dir = "identify" THEN b[i] = <<"id">>
                            ELSE ideCall.lba + i \in Sector /\ b[i] = disk[ideCall.lba + i]
          BY <1>1, <1>3, <2>3, <3>6 DEF Transferred
        <5>1. CASE i = s0
          BY <2>4, <4>1, <5>1
        <5>2. CASE i # s0
          <6>1. i \in 0 .. s0 - 1 /\ i \in 0 .. n - 1
            BY <1>3, <5>2
          <6>2. b[i] = ideCall.buf[i]
            BY <2>4, <5>2, <6>1
          <6> QED BY <3>2, <6>1, <6>2 DEF Reading, Transferred
        <5> QED BY <5>1, <5>2
      <4>3. /\ ideCall'.dir # "write" /\ drive'.cmd = ideCall'.dir /\ ideCall'.s <= ideCall'.count
            /\ drive'.left = ideCall'.count - ideCall'.s /\ drive'.lba = ideCall'.lba + ideCall'.s /\ disk' = before'
            /\ IF ideCall'.s = ideCall'.count THEN drive'.st = "idle" ELSE drive'.st = "busy"
        BY <1>1, <1>3, <1>8, <2>3, <3>3, <3>4, <3>6, SMTT(40)
      <4>4. Reading'
        BY <4>2, <4>3 DEF Reading
      <4> QED BY <1>1, <4>4 DEF Progress
    <3> QED BY <1>4, <3>5, <3>6
  <2> QED BY <1>1, <2>5, <2>7, <2>8 DEF IdeInv
<1> QED BY <1>7, <1>8

\* Every step of the driver and of the drive keeps the invariant.
LEMMA IdeNextInv == IdeInv /\ [IdeNext]_ideVars => IdeInv'
<1> SUFFICES ASSUME IdeInv, [IdeNext]_ideVars PROVE IdeInv'
  OBVIOUS
<1>1. CASE UNCHANGED ideVars
  BY <1>1 DEF ideVars, IdeInv, IdeTypes, CallTypes, Progress, Waiting, Reading, Writing, WrappedRound, Flushing,
              CallOver, Transferred, OnlyThese, Done
<1>2. CASE ide_init
  <2>1. idePc = "reset" /\ idePc' = "idle" /\ UNCHANGED <<disk, drive, regs, ideCall, ideResult, quiet, before, unseen>>
    BY <1>2 DEF ide_init
  <2>2. IdeTypes' /\ (ideCall.op # "none" => CallTypes')
    BY <2>1 DEF IdeInv, IdeTypes, CallTypes
  <2>3. ASSUME ideCall.op # "none", quiet, ~unseen PROVE FALSE
    BY <2>1, <2>3 DEF IdeInv, Progress
  <2> QED BY <2>1, <2>2, <2>3 DEF IdeInv
<1> QED BY <1>1, <1>2, DriveFailsStep, DriveWorksStep, SetRegistersStep, GiveCommandStep, TransferStep, PollFailsStep,
           LoopEndsStep, FlushCacheStep, SettleStep, IdeCallStep DEF IdeNext

\* However the drive's answers, failures and timeouts fall between the driver's
\* steps, a call that found the drive waiting and returned 0 moved exactly its
\* sectors and touched no other (ide_read_sectors, ide_write_sectors, the LBA48
\* forms, ide_identify), for any disk, any counts and any width of the counter.
THEOREM IdeExactHolds == IdeSpec => []IdeExact
<1>1. IdeInv => IdeExact
  <2> SUFFICES ASSUME IdeInv, idePc = "idle", ideCall.op # "none", ideResult = 0, quiet, ~unseen
               PROVE  /\ drive.st = "idle"
                      /\ \A i \in 0 .. ideCall.count - 1 :
                            IF ideCall.dir = "identify" THEN ideCall.buf[i] = <<"id">>
                            ELSE ideCall.lba + i \in Sector /\ ideCall.buf[i] = disk[ideCall.lba + i]
                      /\ \A s \in Sector : disk[s] # before[s] =>
                            ideCall.dir = "write" /\ s \in {ideCall.lba + i : i \in 0 .. ideCall.count - 1}
    BY DEF IdeExact
  <2>1. CallOver
    BY DEF IdeInv, Progress
  <2> QED BY <2>1 DEF CallOver, Transferred, OnlyThese
<1> QED BY <1>1, IdeInitInv, IdeNextInv, PTL DEF IdeSpec
-----------------------------------------------------------------------------
(***************************************************************************)
(* Nic: the two rings, the list of packets and the link flag.  Each ring   *)
(* is described by a number k of descriptors in use, counted from the side *)
(* that takes them out; the list of packets by the set of the frames that  *)
(* must be in it.                                                          *)
(***************************************************************************)
Wrap(s, k, n) == IF s + k < n THEN s + k ELSE s + k - n

\* k frames wait in the receive ring, oldest first; the card may fill all
\* descriptors but one.
Has(desc, head, k) == \A i \in 0 .. RxRing - 1 : (desc[Wrap(head, i, RxRing)] # 0) <=> i < k
Rises(desc, head, k) ==
    \A i, j \in 0 .. k - 1 : i < j => desc[Wrap(head, i, RxRing)] < desc[Wrap(head, j, RxRing)]
Ringed(desc) == {desc[i] : i \in 0 .. RxRing - 1} \ {0}
RxHolds(k) ==
    /\ rx.rdh = Wrap(rx.head, k, RxRing) /\ rx.rdt = Wrap(rx.head, RxRing - 1, RxRing)
    /\ Has(rx.desc, rx.head, k) /\ (~raced => Rises(rx.desc, rx.head, k))

\* The last k frames accepted wait in the transmit ring.
TxDesc == [dd : BOOLEAN, frame : Nat]
IsDone(d) == d.dd = TRUE
Tagged(d, n) == d.dd = FALSE /\ d.frame = n
Waits(desc, tdh, m, k) ==
    \A i \in 0 .. TxRing - 1 :
        LET d == desc[Wrap(tdh, i, TxRing)]
        IN  IF i < k THEN d.dd = FALSE /\ d.frame = m + i + 1 ELSE d.dd = TRUE
TxHolds(k) ==
    /\ tx.tail = Wrap(tx.tdh, k, TxRing) /\ tx.tdt = tx.tail
    /\ net.accepted = Len(net.sent) + k /\ net.sent = [i \in 1 .. Len(net.sent) |-> i]
    /\ Waits(tx.desc, tx.tdh, Len(net.sent), k)

\* Frames handed out (D), being handed out (C), in the list (Q) and in the ring (R).
InTurn(D, C, Q, R) == Below(D, C \cup Q \cup R) /\ Below(C, Q \cup R) /\ Below(Q, R)
\* The list holds Q in order; its tail is the last of Q, or a packet being handed
\* out that was the last; the link of a packet that was never queued is NULL.
Chain(Q, nx, h) == Follows(Q, 0, h) /\ \A f \in Q : Follows(Q, f, nx[f])
TailOk(C, Q, t) ==
    \/ Q = {} /\ t \in IF C = {} THEN {0} ELSE C
    \/ t \in Q /\ \A f \in Q : f <= t
Unlinked(S, nx) == \A f \in (1 .. RxMax) \ S : nx[f] = 0
Pending == Owed \ (Range(net.delivered) \cup Dequeued \cup Ringed(rx.desc))

ListOk ==
    LET D == Range(net.delivered)
        C == Dequeued
        R == Ringed(rx.desc)
    IN  /\ net.taken \cup net.dropped \subseteq 1 .. net.offered /\ D \cup C \cup R \subseteq Owed
        /\ Rising(net.delivered) /\ InTurn(D, C, Pending, R)
        /\ Chain(Pending, rxq.next, rxq.head) /\ TailOk(C, Pending, rxq.tail)
        /\ Unlinked(D \cup C \cup Pending, rxq.next)

LinkOk ==
    /\ ~nicPc.irq => nicPc.causes = {}
    /\ linkTold /\ "LSC" \notin icr \cup nicPc.causes => linkUp = lu

RxTypes ==
    /\ rx = [desc |-> rx.desc, head |-> rx.head, rdh |-> rx.rdh, rdt |-> rx.rdt]
    /\ rx.desc \in [0 .. RxRing - 1 -> 0 .. RxMax] /\ rx.head \in 0 .. RxRing - 1
TxTypes ==
    /\ tx = [desc |-> tx.desc, tail |-> tx.tail, tdh |-> tx.tdh, tdt |-> tx.tdt]
    /\ tx.desc \in [0 .. TxRing - 1 -> TxDesc] /\ tx.tdh \in 0 .. TxRing - 1
RxqTypes ==
    /\ rxq = [next |-> rxq.next, head |-> rxq.head, tail |-> rxq.tail]
    /\ rxq.next \in [1 .. RxMax -> 0 .. RxMax] /\ rxq.head \in 0 .. RxMax /\ rxq.tail \in 0 .. RxMax
NicPcTypes ==
    /\ nicPc = [irq |-> nicPc.irq, causes |-> nicPc.causes, deq |-> nicPc.deq]
    /\ nicPc.irq \in BOOLEAN /\ nicPc.deq \in 0 .. RxMax /\ raced \in BOOLEAN /\ linkTold \in BOOLEAN
NetTypes ==
    /\ net = [offered |-> net.offered, taken |-> net.taken, dropped |-> net.dropped, delivered |-> net.delivered,
              accepted |-> net.accepted, sent |-> net.sent]
    /\ net.offered \in 0 .. RxMax /\ net.delivered \in Seq(0 .. RxMax) /\ net.sent \in Seq(Nat) /\ net.accepted \in Nat
NicTypes == RxTypes /\ TxTypes /\ RxqTypes /\ NicPcTypes /\ NetTypes

RxOk == \E k \in 0 .. RxRing - 1 : RxHolds(k)
TxOk == \E k \in 0 .. TxRing : TxHolds(k)
NicGood == NicTypes /\ RxOk /\ TxOk /\ (~raced => ListOk) /\ LinkOk

\* Before e1000_init only the link moves.
Fresh ==
    /\ rxOn = FALSE /\ rx = e1000_init_rx /\ tx = e1000_init_tx /\ linkUp = FALSE
    /\ rxq = [next |-> [f \in 1 .. RxMax |-> 0], head |-> 0, tail |-> 0]
    /\ nicPc = [irq |-> FALSE, causes |-> {}, deq |-> 0]
    /\ net = [offered |-> 0, taken |-> {}, dropped |-> {}, delivered |-> <<>>, accepted |-> 0, sent |-> <<>>]
    /\ raced = FALSE /\ linkTold = FALSE

\* Before e1000_ready is set no link interrupt counts as handled.
NicInv ==
    /\ nicState = "down" => Fresh
    /\ nicState = "starting" => NicGood /\ linkTold = FALSE
    /\ nicState = "ready" => NicGood

\* The ring, with its wrap-around written out.
LEMMA ModWrap ==
    ASSUME NEW n \in Nat \ {0}, NEW s \in 0 .. n - 1, NEW k \in 0 .. n
    PROVE  (s + k) % n = Wrap(s, k, n) /\ Wrap(s, k, n) \in 0 .. n - 1
<1> DEFINE w == Wrap(s, k, n)
<1>1. w \in 0 .. n - 1 /\ (s + k = w \/ s + k = w + n)
  BY DEF Wrap
<1>2. (s + k) % n = w
  <2> HIDE DEF w
  <2>1. w % n = w
    BY <1>1, SMTT(30)
  <2>2. (w + n) % n = w
    BY <1>1, SMTT(30)
  <2> QED BY <1>1, <2>1, <2>2
<1> QED BY <1>1, <1>2

LEMMA WrapIs ==
    ASSUME NEW n \in Nat \ {0}, NEW s \in 0 .. n - 1
    PROVE  /\ \A i \in 0 .. n - 1 : Wrap(s, i, n) \in 0 .. n - 1
           /\ \A i, j \in 0 .. n - 1 : Wrap(s, i, n) = Wrap(s, j, n) => i = j
           /\ \A p \in 0 .. n - 1 : \E i \in 0 .. n - 1 : p = Wrap(s, i, n)
           /\ Wrap(s, 0, n) = s /\ Wrap(s, n, n) = s
           /\ \A i \in 0 .. n - 1 : Wrap(Wrap(s, 1, n), i, n) = Wrap(s, i + 1, n)
           /\ \A i \in 0 .. n - 1 : Wrap(Wrap(s, i, n), 1, n) = Wrap(s, i + 1, n)
<1>1. \A p \in 0 .. n - 1 : \E i \in 0 .. n - 1 : p = Wrap(s, i, n)
  <2> SUFFICES ASSUME NEW p \in 0 .. n - 1 PROVE \E i \in 0 .. n - 1 : p = Wrap(s, i, n)
    OBVIOUS
  <2>1. CASE p >= s
    <3>1. p - s \in 0 .. n - 1 /\ p = Wrap(s, p - s, n)
      BY <2>1 DEF Wrap
    <3> QED BY <3>1
  <2>2. CASE p < s
    <3>1. p - s + n \in 0 .. n - 1 /\ p = Wrap(s, p - s + n, n)
      BY <2>2 DEF Wrap
    <3> QED BY <3>1
  <2> QED BY <2>1, <2>2
<1>2. \A i, j \in 0 .. n - 1 : Wrap(s, i, n) = Wrap(s, j, n) => i = j
  BY DEF Wrap
<1>3. \A i \in 0 .. n - 1 : Wrap(Wrap(s, 1, n), i, n) = Wrap(s, i + 1, n)
  BY DEF Wrap
<1>4. \A i \in 0 .. n - 1 : Wrap(s, i, n) \in 0 .. n - 1
  BY DEF Wrap
<1>6. \A i \in 0 .. n - 1 : Wrap(Wrap(s, i, n), 1, n) = Wrap(s, i + 1, n)
  BY DEF Wrap
<1>5. Wrap(s, 0, n) = s /\ Wrap(s, n, n) = s
  BY DEF Wrap
<1> QED BY <1>1, <1>2, <1>3, <1>4, <1>5, <1>6

\* A packet that goes to the end of the list.
Linking(Q, f, S, nx, h, t, my) ==
    /\ nx \in [1 .. RxMax -> Int] /\ h \in Int /\ t \in Int /\ f \in 1 .. RxMax /\ f \notin S
    /\ \A g \in Q : g \in 1 .. RxMax /\ g \in S /\ g < f
    /\ Chain(Q, nx, h) /\ TailOk({}, Q, t) /\ Unlinked(S, nx)
    /\ my = IF t = 0 THEN nx ELSE [nx EXCEPT ![t] = f]
LEMMA Linked ==
    ASSUME NEW Q, NEW f, NEW S, NEW nx, NEW h, NEW t, NEW my, Linking(Q, f, S, nx, h, t, my)
    PROVE  /\ Chain(Q \cup {f}, my, IF t = 0 THEN f ELSE h) /\ TailOk({}, Q \cup {f}, f)
           /\ Unlinked(S \cup {f}, my)
<1> SUFFICES ASSUME nx \in [1 .. RxMax -> Int], h \in Int, t \in Int, f \in 1 .. RxMax, f \notin S,
                    \A g \in Q : g \in 1 .. RxMax /\ g \in S /\ g < f,
                    Chain(Q, nx, h), TailOk({}, Q, t), Unlinked(S, nx), my = IF t = 0 THEN nx ELSE [nx EXCEPT ![t] = f]
    PROVE  /\ Chain(Q \cup {f}, my, IF t = 0 THEN f ELSE h) /\ TailOk({}, Q \cup {f}, f)
           /\ Unlinked(S \cup {f}, my)
  BY DEF Linking
<1>0. RxMax \in Nat /\ \A g \in Q : g \in Int /\ g > 0 /\ g < f
  BY NicAssumption
<1>2. nx[f] = 0 /\ f \in Int
  BY DEF Unlinked
<1>3. TailOk({}, Q \cup {f}, f)
  BY <1>0 DEF TailOk
<1>4. CASE Q = {} /\ t = 0
  <2>1. my = nx
    BY <1>4
  <2>2. Follows({f}, 0, f) /\ Follows({f}, f, 0)
    BY <1>0 DEF Follows
  <2>3. Chain({f}, nx, f)
    BY <1>2, <2>2 DEF Chain
  <2> QED BY <1>2, <1>3, <1>4, <2>1, <2>3 DEF Unlinked
<1>5. CASE t \in Q /\ \A g \in Q : g <= t
  <2>1. t \in 1 .. RxMax /\ t # 0 /\ t # f /\ t < f
    BY <1>0, <1>5
  <2>2. my = [nx EXCEPT ![t] = f]
    BY <2>1
  <2>3. my[t] = f /\ (\A g \in 1 .. RxMax : g # t => my[g] = nx[g]) /\ my \in [1 .. RxMax -> Int]
    BY <1>2, <2>1, <2>2
  <2>c. \A g \in Q \cup {0} : Follows(Q, g, IF g = 0 THEN h ELSE nx[g])
    BY <1>0 DEF Chain
  <2>4. Follows(Q \cup {f}, 0, h)
    <3>1. Follows(Q, 0, h)
      BY DEF Chain
    <3>2. h # 0 /\ h \in Q
      BY <1>0, <1>5, <3>1 DEF Follows
    <3>3. h > 0 /\ \A g \in Q : g > 0 => h <= g
      BY <1>0, <3>1, <3>2 DEF Follows
    <3>4. h < f
      BY <1>0, <3>2
    <3> QED BY <1>0, <3>2, <3>3, <3>4 DEF Follows
  <2>5. Follows(Q \cup {f}, f, my[f])
    <3>1. my[f] = 0
      BY <1>2, <2>1, <2>3
    <3> QED BY <1>0, <3>1 DEF Follows
  <2>6. Follows(Q \cup {f}, t, f)
    BY <1>0, <1>5, <2>1 DEF Follows
  <2>7. ASSUME NEW g \in Q, g # t PROVE Follows(Q \cup {f}, g, nx[g])
    <3>1. Follows(Q, g, nx[g]) /\ g < t
      BY <1>0, <1>5, <2>7 DEF Chain
    <3>2. nx[g] # 0 /\ nx[g] \in Q
      BY <1>5, <3>1 DEF Follows
    <3>3. nx[g] > g /\ \A j \in Q : j > g => nx[g] <= j
      BY <3>1, <3>2 DEF Follows
    <3>4. nx[g] < f
      BY <1>0, <3>2
    <3> QED BY <1>0, <3>2, <3>3, <3>4 DEF Follows
  <2>8. Chain(Q \cup {f}, my, h)
    <3>1. ASSUME NEW g \in Q \cup {f} PROVE Follows(Q \cup {f}, g, my[g])
      <4>1. CASE g = f
        BY <2>5, <4>1
      <4>2. CASE g = t
        BY <2>3, <2>6, <4>2
      <4>3. CASE g # f /\ g # t
        BY <2>3, <2>7, <4>3, <3>1
      <4> QED BY <4>1, <4>2, <4>3
    <3> QED BY <2>4, <3>1 DEF Chain
  <2>9. Unlinked(S \cup {f}, my)
    BY <1>5, <2>1, <2>3 DEF Unlinked
  <2> QED BY <1>3, <2>1, <2>3, <2>8, <2>9
<1> QED BY <1>4, <1>5 DEF TailOk

\* The first packet leaves the list; its tail is looked after later.
LEMMA Unhooked ==
    ASSUME NEW Q, NEW nx, NEW h \in Int, NEW t \in Int, \A g \in Q : g \in 1 .. RxMax,
           h # 0, Chain(Q, nx, h), TailOk({}, Q, t)
    PROVE  /\ h \in Q /\ Below({h}, Q \ {h}) /\ Chain(Q \ {h}, nx, nx[h]) /\ TailOk({h}, Q \ {h}, t)
<1>0. \A g \in Q : g \in Int /\ g > 0
  BY NicAssumption
<1>1. h \in Q /\ h > 0 /\ \A g \in Q : h <= g
  <2>1. Follows(Q, 0, h)
    BY DEF Chain
  <2> QED BY <1>0, <2>1 DEF Follows
<1>2. Below({h}, Q \ {h})
  BY <1>0, <1>1 DEF Below
<1>3. Follows(Q, h, nx[h])
  BY <1>1 DEF Chain
<1>4. Follows(Q \ {h}, 0, nx[h])
  <2>1. CASE nx[h] = 0
    <3>1. \A g \in Q : g <= h
      BY <1>3, <2>1 DEF Follows
    <3>2. Q \ {h} = {}
      BY <1>0, <1>1, <3>1
    <3> QED BY <2>1, <3>2 DEF Follows
  <2>2. CASE nx[h] # 0
    <3>1. nx[h] \in Q /\ nx[h] > h /\ \A g \in Q : g > h => nx[h] <= g
      BY <1>3, <2>2 DEF Follows
    <3>2. \A g \in Q \ {h} : nx[h] <= g
      <4>1. \A g \in Q \ {h} : g > h
        BY <1>0, <1>1
      <4> QED BY <3>1, <4>1
    <3>3. nx[h] # h /\ nx[h] > 0
      <4>1. nx[h] \in Int
        BY <1>0, <3>1
      <4> QED BY <1>1, <3>1, <4>1
    <3> QED BY <2>2, <3>1, <3>2, <3>3 DEF Follows
  <2> QED BY <2>1, <2>2
<1>5. ASSUME NEW g \in Q \ {h} PROVE Follows(Q \ {h}, g, nx[g])
  <2>1. Follows(Q, g, nx[g]) /\ g > h /\ g \in Int
    BY <1>0, <1>1, <1>5 DEF Chain
  <2>2. CASE nx[g] = 0
    BY <2>1, <2>2 DEF Follows
  <2>3. CASE nx[g] # 0
    <3>1. nx[g] \in Q /\ nx[g] > g /\ \A j \in Q : j > g => nx[g] <= j
      BY <2>1, <2>3 DEF Follows
    <3>2. nx[g] # h
      BY <1>0, <1>1, <2>1, <3>1
    <3> QED BY <2>3, <3>1, <3>2 DEF Follows
  <2> QED BY <2>2, <2>3
<1>6. TailOk({h}, Q \ {h}, t)
  <2>1. t \in Q /\ \A g \in Q : g <= t
    BY <1>1 DEF TailOk
  <2>2. CASE t = h
    <3>1. Q \ {h} = {}
      BY <1>0, <1>1, <2>1, <2>2
    <3> QED BY <2>2, <3>1 DEF TailOk
  <2>3. CASE t # h
    BY <2>1, <2>3 DEF TailOk
  <2> QED BY <2>2, <2>3
<1> QED BY <1>1, <1>2, <1>4, <1>5, <1>6 DEF Chain

\* The packet is handed out, and the tail put right.
LEMMA HandedOut ==
    ASSUME NEW Q, NEW C, NEW nx, NEW h, NEW t, \A g \in Q : g \in 1 .. RxMax,
           Chain(Q, nx, h), TailOk(C, Q, t)
    PROVE  TailOk({}, Q, IF h = 0 THEN 0 ELSE t)
<1>0. \A g \in Q : g \in Int /\ g > 0
  BY NicAssumption
<1>1. Follows(Q, 0, h)
  BY DEF Chain
<1>2. CASE h = 0
  <2>1. Q = {}
    BY <1>0, <1>1, <1>2 DEF Follows
  <2> QED BY <1>2, <2>1 DEF TailOk
<1>3. CASE h # 0
  <2>1. Q # {}
    BY <1>1, <1>3 DEF Follows
  <2> QED BY <1>3, <2>1 DEF TailOk
<1> QED BY <1>2, <1>3

\* The ring's frames, by their places.
LEMMA RingedIs ==
    ASSUME NEW desc \in [0 .. RxRing - 1 -> Nat], NEW head \in 0 .. RxRing - 1, NEW k \in 0 .. RxRing, Has(desc, head, k)
    PROVE  Ringed(desc) = {desc[Wrap(head, i, RxRing)] : i \in 0 .. k - 1}
<1>0. RxRing \in Nat \ {0}
  BY NicAssumption
<1>1. /\ \A i \in 0 .. RxRing - 1 : Wrap(head, i, RxRing) \in 0 .. RxRing - 1
      /\ \A p \in 0 .. RxRing - 1 : \E i \in 0 .. RxRing - 1 : p = Wrap(head, i, RxRing)
  BY <1>0, WrapIs
<1>2. ASSUME NEW v \in Ringed(desc) PROVE \E i \in 0 .. k - 1 : v = desc[Wrap(head, i, RxRing)]
  <2>1. PICK p \in 0 .. RxRing - 1 : v = desc[p] /\ v # 0
    BY <1>2 DEF Ringed
  <2>2. PICK i \in 0 .. RxRing - 1 : p = Wrap(head, i, RxRing)
    BY <1>1
  <2>3. i < k
    BY <2>1, <2>2 DEF Has
  <2>4. i \in 0 .. k - 1
    BY <2>3
  <2> QED BY <2>1, <2>2, <2>4
<1>3. ASSUME NEW i \in 0 .. k - 1 PROVE desc[Wrap(head, i, RxRing)] \in Ringed(desc)
  <2>1. i \in 0 .. RxRing - 1 /\ i < k
    BY <1>0
  <2>2. desc[Wrap(head, i, RxRing)] # 0 /\ Wrap(head, i, RxRing) \in 0 .. RxRing - 1
    BY <1>1, <2>1 DEF Has
  <2> QED BY <2>2 DEF Ringed
<1> QED BY <1>2, <1>3

\* The card fills a descriptor.
LEMMA Fills ==
    ASSUME NEW desc \in [0 .. RxRing - 1 -> Nat], NEW head \in 0 .. RxRing - 1, NEW k \in 0 .. RxRing - 1,
           Has(desc, head, k), NEW f \in Nat \ {0}, NEW my, my = [desc EXCEPT ![Wrap(head, k, RxRing)] = f]
    PROVE  /\ my \in [0 .. RxRing - 1 -> Nat] /\ Has(my, head, k + 1) /\ Ringed(my) = Ringed(desc) \cup {f}
           /\ Rises(desc, head, k) /\ (\A v \in Ringed(desc) : v < f) => Rises(my, head, k + 1)
<1>0. RxRing \in Nat \ {0}
  BY NicAssumption
<1>1. /\ \A i \in 0 .. RxRing - 1 : Wrap(head, i, RxRing) \in 0 .. RxRing - 1
      /\ \A i, j \in 0 .. RxRing - 1 : Wrap(head, i, RxRing) = Wrap(head, j, RxRing) => i = j
  BY <1>0, WrapIs
<1>2. my \in [0 .. RxRing - 1 -> Nat]
  BY <1>1
<1>3. /\ my[Wrap(head, k, RxRing)] = f
      /\ \A i \in 0 .. RxRing - 1 : i # k => my[Wrap(head, i, RxRing)] = desc[Wrap(head, i, RxRing)]
  BY <1>1
<1>4. Has(my, head, k + 1)
  <2> SUFFICES ASSUME NEW i \in 0 .. RxRing - 1 PROVE (my[Wrap(head, i, RxRing)] # 0) <=> i < k + 1
    BY DEF Has
  <2>1. CASE i = k
    BY <1>3, <2>1
  <2>2. CASE i # k
    <3>1. (desc[Wrap(head, i, RxRing)] # 0) <=> i < k
      BY DEF Has
    <3> QED BY <1>3, <2>2, <3>1
  <2> QED BY <2>1, <2>2
<1>5. Ringed(desc) = {desc[Wrap(head, i, RxRing)] : i \in 0 .. k - 1}
  BY SMTT(60), <1>0, RingedIs
<1>6. Ringed(my) = {my[Wrap(head, i, RxRing)] : i \in 0 .. k}
  <2>1. PICK n : n = k + 1
    OBVIOUS
  <2>2. n \in 0 .. RxRing /\ n - 1 = k /\ Has(my, head, n)
    BY <1>0, <1>4, <2>1
  <2>3. Ringed(my) = {my[Wrap(head, i, RxRing)] : i \in 0 .. n - 1}
    BY <1>2, <2>2, RingedIs
  <2> QED BY <2>2, <2>3
<1>7. Ringed(my) = Ringed(desc) \cup {f}
  <2>1. \A i \in 0 .. k - 1 : i \in 0 .. RxRing - 1 /\ i # k /\ i \in 0 .. k
    BY <1>0
  <2>2. \A i \in 0 .. k : i = k \/ i \in 0 .. k - 1
    OBVIOUS
  <2>3. k \in 0 .. k
    OBVIOUS
  <2> QED BY ZenonT(60), <1>3, <1>5, <1>6, <2>1, <2>2, <2>3
<1>8. ASSUME Rises(desc, head, k), \A v \in Ringed(desc) : v < f PROVE Rises(my, head, k + 1)
  <2> SUFFICES ASSUME NEW i \in 0 .. k + 1 - 1, NEW j \in 0 .. k + 1 - 1, i < j
               PROVE  my[Wrap(head, i, RxRing)] < my[Wrap(head, j, RxRing)]
    BY DEF Rises
  <2>1. i \in 0 .. k - 1 /\ i \in 0 .. RxRing - 1 /\ i # k /\ j \in 0 .. RxRing - 1
    BY <1>0
  <2>2. CASE j = k
    <3>1. desc[Wrap(head, i, RxRing)] < f
      BY <1>5, <1>8, <2>1
    <3> QED BY <1>3, <2>1, <2>2, <3>1
  <2>3. CASE j # k
    <3>1. j \in 0 .. k - 1
      BY <2>3
    <3>2. desc[Wrap(head, i, RxRing)] < desc[Wrap(head, j, RxRing)]
      BY <1>8, <2>1, <3>1 DEF Rises
    <3> QED BY <1>3, <2>1, <2>3, <3>2
  <2> QED BY <2>2, <2>3
<1> QED BY <1>2, <1>4, <1>7, <1>8

\* The driver gives back the oldest.
LEMMA Drains ==
    ASSUME NEW desc \in [0 .. RxRing - 1 -> Nat], NEW head \in 0 .. RxRing - 1, NEW k \in 1 .. RxRing - 1,
           Has(desc, head, k), NEW my, my = [desc EXCEPT ![head] = 0]
    PROVE  /\ my \in [0 .. RxRing - 1 -> Nat] /\ Has(my, Wrap(head, 1, RxRing), k - 1)
           /\ Rises(desc, head, k) =>
                 /\ Rises(my, Wrap(head, 1, RxRing), k - 1) /\ desc[head] \in Ringed(desc)
                 /\ Ringed(my) = Ringed(desc) \ {desc[head]} /\ \A v \in Ringed(my) : desc[head] < v
<1>0. RxRing \in Nat \ {0} /\ RxRing > 1
  BY NicAssumption
<1> DEFINE at(i) == Wrap(head, i, RxRing)
           nx == Wrap(head, 1, RxRing)
<1>1. /\ \A i \in 0 .. RxRing - 1 : at(i) \in 0 .. RxRing - 1
      /\ \A i, j \in 0 .. RxRing - 1 : at(i) = at(j) => i = j
      /\ at(0) = head /\ at(RxRing) = head
      /\ \A i \in 0 .. RxRing - 1 : Wrap(nx, i, RxRing) = at(i + 1)
  BY <1>0, WrapIs
<1>2. nx \in 0 .. RxRing - 1
  BY <1>0, <1>1
<1>3. my \in [0 .. RxRing - 1 -> Nat]
  OBVIOUS
<1> HIDE DEF at, nx
<1>4. my[at(0)] = 0 /\ \A i \in 1 .. RxRing - 1 : my[at(i)] = desc[at(i)]
  <2>1. \A i \in 1 .. RxRing - 1 : at(i) \in 0 .. RxRing - 1 /\ at(i) # head
    <3> SUFFICES ASSUME NEW i \in 1 .. RxRing - 1 PROVE at(i) \in 0 .. RxRing - 1 /\ at(i) # head
      OBVIOUS
    <3>1. i \in 0 .. RxRing - 1 /\ i # 0 /\ 0 \in 0 .. RxRing - 1
      BY <1>0
    <3> QED BY <1>1, <3>1
  <2> QED BY <1>1, <2>1
<1>5. Has(my, nx, k - 1)
  <2> SUFFICES ASSUME NEW i \in 0 .. RxRing - 1 PROVE (my[Wrap(nx, i, RxRing)] # 0) <=> i < k - 1
    BY DEF Has
  <2>1. CASE i = RxRing - 1
    <3>1. i + 1 = RxRing /\ ~(i < k - 1)
      BY <1>0, <2>1
    <3>2. Wrap(nx, i, RxRing) = at(0)
      BY <1>1, <3>1
    <3> QED BY <1>4, <3>1, <3>2
  <2>2. CASE i # RxRing - 1
    <3>1. i + 1 \in 1 .. RxRing - 1 /\ i + 1 \in 0 .. RxRing - 1 /\ (i < k - 1 <=> i + 1 < k)
      BY <1>0, <2>2
    <3>2. (desc[at(i + 1)] # 0) <=> i + 1 < k
      BY <3>1 DEF Has, at
    <3> QED BY <1>1, <1>4, <3>1, <3>2
  <2> QED BY <2>1, <2>2
<1>6. Ringed(desc) = {desc[at(i)] : i \in 0 .. k - 1}
  <2>1. k \in 0 .. RxRing
    BY <1>0
  <2> QED BY <2>1, RingedIs DEF at
<1>7. Ringed(my) = {my[Wrap(nx, i, RxRing)] : i \in 0 .. k - 2}
  <2>1. PICK n : n = k - 1
    OBVIOUS
  <2>2. n \in 0 .. RxRing /\ n - 1 = k - 2 /\ Has(my, nx, n)
    BY <1>0, <1>5, <2>1
  <2>3. Ringed(my) = {my[Wrap(nx, i, RxRing)] : i \in 0 .. n - 1}
    BY <1>2, <1>3, <2>2, RingedIs
  <2> QED BY <2>2, <2>3
<1>8. Ringed(my) = {desc[at(i)] : i \in 1 .. k - 1}
  <2>1. ASSUME NEW i \in 0 .. k - 2
        PROVE  i + 1 \in 1 .. k - 1 /\ my[Wrap(nx, i, RxRing)] = desc[at(i + 1)]
    <3>1. i + 1 \in 1 .. k - 1 /\ i + 1 \in 1 .. RxRing - 1 /\ i \in 0 .. RxRing - 1
      BY <1>0
    <3> QED BY <1>1, <1>4, <3>1
  <2>2. ASSUME NEW i \in 1 .. k - 1
        PROVE  i - 1 \in 0 .. k - 2 /\ my[Wrap(nx, i - 1, RxRing)] = desc[at(i)]
    <3>1. i - 1 \in 0 .. k - 2 /\ i - 1 + 1 = i
      OBVIOUS
    <3> QED BY <2>1, <3>1
  <2> QED BY <1>7, <2>1, <2>2
<1>9. ASSUME Rises(desc, head, k)
      PROVE  /\ Rises(my, nx, k - 1) /\ desc[head] \in Ringed(desc)
             /\ Ringed(my) = Ringed(desc) \ {desc[head]} /\ \A v \in Ringed(my) : desc[head] < v
  <2>1. 0 \in 0 .. k - 1 /\ \A i \in 1 .. k - 1 : i \in 0 .. k - 1 /\ 0 < i
    OBVIOUS
  <2>2. \A i \in 1 .. k - 1 : desc[head] < desc[at(i)]
    <3>1. \A i, j \in 0 .. k - 1 : i < j => desc[at(i)] < desc[at(j)]
      BY <1>9 DEF Rises, at
    <3> QED BY <1>1, <2>1, <3>1
  <2>3. desc[head] \in Ringed(desc) /\ \A v \in Ringed(my) : desc[head] < v
    BY <1>1, <1>6, <1>8, <2>1, <2>2
  <2>4. desc[head] \in Int
    OBVIOUS
  <2>5. Ringed(my) = Ringed(desc) \ {desc[head]}
    <3>1. \A i \in 0 .. k - 1 : i = 0 \/ i \in 1 .. k - 1
      OBVIOUS
    <3>2. \A i \in 1 .. k - 1 : desc[at(i)] # desc[head]
      BY <2>2, <2>4
    <3>3. \A v \in Ringed(my) : v \in Ringed(desc) /\ v # desc[head]
      BY <1>6, <1>8, <2>1, <3>2
    <3>4. \A v \in Ringed(desc) : v # desc[head] => v \in Ringed(my)
      BY <1>1, <1>6, <1>8, <3>1
    <3> QED BY <2>3, <3>3, <3>4
  <2>6. Rises(my, nx, k - 1)
    <3> SUFFICES ASSUME NEW i \in 0 .. k - 1 - 1, NEW j \in 0 .. k - 1 - 1, i < j
                 PROVE  my[Wrap(nx, i, RxRing)] < my[Wrap(nx, j, RxRing)]
      BY DEF Rises
    <3>1. /\ i \in 0 .. RxRing - 1 /\ j \in 0 .. RxRing - 1 /\ i + 1 \in 1 .. RxRing - 1 /\ j + 1 \in 1 .. RxRing - 1
          /\ i + 1 \in 0 .. k - 1 /\ j + 1 \in 0 .. k - 1 /\ i + 1 < j + 1
      BY <1>0
    <3>2. desc[at(i + 1)] < desc[at(j + 1)]
      BY <1>9, <3>1 DEF Rises, at
    <3> QED BY <1>1, <1>4, <3>1, <3>2
  <2> QED BY <2>3, <2>5, <2>6
<1> QED BY <1>3, <1>5, <1>9 DEF nx

\* A frame is accepted for sending.
Accepting(desc, tdh, m, k, tail, z, my) ==
    /\ desc \in [0 .. TxRing - 1 -> TxDesc] /\ tdh \in 0 .. TxRing - 1 /\ m \in Nat /\ k \in 0 .. TxRing
    /\ Waits(desc, tdh, m, k) /\ tail = Wrap(tdh, k, TxRing) /\ IsDone(desc[tail])
    /\ z \in TxDesc /\ Tagged(z, m + k + 1) /\ my = [desc EXCEPT ![tail] = z]
Accepted(tdh, m, k, tail, my) ==
    /\ k < TxRing /\ my \in [0 .. TxRing - 1 -> TxDesc]
    /\ Waits(my, tdh, m, k + 1) /\ (tail + 1) % TxRing = Wrap(tdh, k + 1, TxRing)
LEMMA Accepts ==
    ASSUME NEW desc, NEW tdh, NEW m, NEW k, NEW tail, NEW z, NEW my, Accepting(desc, tdh, m, k, tail, z, my)
    PROVE  Accepted(tdh, m, k, tail, my)
<1> SUFFICES ASSUME desc \in [0 .. TxRing - 1 -> TxDesc], tdh \in 0 .. TxRing - 1, m \in Nat, k \in 0 .. TxRing,
                    Waits(desc, tdh, m, k), tail = Wrap(tdh, k, TxRing), IsDone(desc[tail]),
                    z \in TxDesc, Tagged(z, m + k + 1), my = [desc EXCEPT ![tail] = z]
             PROVE  /\ k < TxRing /\ my \in [0 .. TxRing - 1 -> TxDesc]
                    /\ Waits(my, tdh, m, k + 1) /\ (tail + 1) % TxRing = Wrap(tdh, k + 1, TxRing)
  BY DEF Accepting, Accepted
<1>0. TxRing \in Nat \ {0}
  BY NicAssumption
<1> DEFINE at(i) == Wrap(tdh, i, TxRing)
<1>1. /\ \A i \in 0 .. TxRing - 1 : at(i) \in 0 .. TxRing - 1
      /\ \A i, j \in 0 .. TxRing - 1 : at(i) = at(j) => i = j
      /\ at(0) = tdh /\ at(TxRing) = tdh
      /\ \A i \in 0 .. TxRing - 1 : Wrap(at(i), 1, TxRing) = at(i + 1)
  BY <1>0, WrapIs
<1>2. tail = at(k)
  OBVIOUS
<1>w. /\ \A i \in 0 .. TxRing - 1 : i < k => desc[at(i)].dd = FALSE /\ desc[at(i)].frame = m + i + 1
      /\ \A i \in 0 .. TxRing - 1 : ~(i < k) => desc[at(i)].dd = TRUE
  BY DEF Waits
<1>s. (\A i \in 0 .. TxRing - 1 : IF i < k + 1 THEN my[at(i)].dd = FALSE /\ my[at(i)].frame = m + i + 1 ELSE my[at(i)].dd = TRUE)
         => Waits(my, tdh, m, k + 1)
  BY DEF Waits
<1> HIDE DEF at
<1>3. k < TxRing
  <2> SUFFICES ASSUME k = TxRing PROVE FALSE
    BY <1>0
  <2>1. 0 \in 0 .. TxRing - 1 /\ 0 < k
    BY <1>0
  <2>2. desc[at(0)].dd = FALSE
    BY <1>w, <2>1
  <2> QED BY <1>1, <1>2, <2>2 DEF IsDone
<1>4. k \in 0 .. TxRing - 1 /\ tail \in 0 .. TxRing - 1
  BY <1>0, <1>1, <1>2, <1>3
<1>5. (tail + 1) % TxRing = at(k + 1)
  <2>1. (tail + 1) % TxRing = Wrap(tail, 1, TxRing)
    <3>1. 1 \in 0 .. TxRing
      BY <1>0
    <3> QED BY <1>0, <1>4, <3>1, ModWrap
  <2> QED BY <1>1, <1>2, <1>4, <2>1
<1>7. my \in [0 .. TxRing - 1 -> TxDesc]
  BY <1>4
<1>8. /\ my[at(k)].dd = FALSE /\ my[at(k)].frame = m + k + 1
      /\ \A i \in 0 .. TxRing - 1 : i # k => my[at(i)] = desc[at(i)]
  BY <1>1, <1>2, <1>4 DEF Tagged
<1>9. Waits(my, tdh, m, k + 1)
  <2> SUFFICES ASSUME NEW i \in 0 .. TxRing - 1
               PROVE  IF i < k + 1 THEN my[at(i)].dd = FALSE /\ my[at(i)].frame = m + i + 1 ELSE my[at(i)].dd = TRUE
    BY <1>s
  <2>1. CASE i = k
    BY <1>8, <2>1
  <2>2. CASE i < k
    BY <1>8, <1>w, <2>2
  <2>3. CASE i > k
    BY <1>8, <1>w, <2>3
  <2>4. i = k \/ i < k \/ i > k
    OBVIOUS
  <2> QED BY <2>1, <2>2, <2>3, <2>4
<1> QED BY <1>3, <1>5, <1>7, <1>9 DEF at

LEMMA SetsDone ==
    ASSUME NEW desc \in [0 .. TxRing - 1 -> TxDesc], NEW p \in 0 .. TxRing - 1,
           NEW my, my = [desc EXCEPT ![p].dd = TRUE]
    PROVE  /\ my \in [0 .. TxRing - 1 -> TxDesc] /\ IsDone(my[p])
           /\ \A i \in 0 .. TxRing - 1 : i # p => my[i] = desc[i]
<1> DEFINE d == desc[p]
           d2 == [d EXCEPT !.dd = TRUE]
<1>1. d2 \in TxDesc /\ d2.dd = TRUE
  BY DEF TxDesc
<1>2. my = [desc EXCEPT ![p] = d2]
  OBVIOUS
<1> HIDE DEF d2
<1> QED BY <1>1, <1>2 DEF IsDone

\* The card sends the oldest.
Leaving(desc, tdh, m, k, my) ==
    /\ desc \in [0 .. TxRing - 1 -> TxDesc] /\ tdh \in 0 .. TxRing - 1 /\ m \in Nat /\ k \in 1 .. TxRing
    /\ Waits(desc, tdh, m, k) /\ my = [desc EXCEPT ![tdh].dd = TRUE]
HasLeft(desc, tdh, m, k, my) ==
    /\ desc[tdh].frame = m + 1 /\ my \in [0 .. TxRing - 1 -> TxDesc]
    /\ (tdh + 1) % TxRing = Wrap(tdh, 1, TxRing) /\ Wrap(tdh, 1, TxRing) \in 0 .. TxRing - 1
    /\ Waits(my, Wrap(tdh, 1, TxRing), m + 1, k - 1)
    /\ Wrap(tdh, k, TxRing) = Wrap(Wrap(tdh, 1, TxRing), k - 1, TxRing)
LEMMA Leaves ==
    ASSUME NEW desc, NEW tdh, NEW m, NEW k, NEW my, Leaving(desc, tdh, m, k, my)
    PROVE  HasLeft(desc, tdh, m, k, my)
<1> SUFFICES ASSUME desc \in [0 .. TxRing - 1 -> TxDesc], tdh \in 0 .. TxRing - 1, m \in Nat, k \in 1 .. TxRing,
                    Waits(desc, tdh, m, k), my = [desc EXCEPT ![tdh].dd = TRUE]
    PROVE  /\ desc[tdh].frame = m + 1 /\ my \in [0 .. TxRing - 1 -> TxDesc]
           /\ (tdh + 1) % TxRing = Wrap(tdh, 1, TxRing) /\ Wrap(tdh, 1, TxRing) \in 0 .. TxRing - 1
           /\ Waits(my, Wrap(tdh, 1, TxRing), m + 1, k - 1)
           /\ Wrap(tdh, k, TxRing) = Wrap(Wrap(tdh, 1, TxRing), k - 1, TxRing)
  BY DEF Leaving, HasLeft
<1>e. /\ my \in [0 .. TxRing - 1 -> TxDesc] /\ IsDone(my[tdh])
      /\ \A i \in 0 .. TxRing - 1 : i # tdh => my[i] = desc[i]
  BY SetsDone
<1>0. TxRing \in Nat \ {0}
  BY NicAssumption
<1> DEFINE at(i) == Wrap(tdh, i, TxRing)
           nx == Wrap(tdh, 1, TxRing)
<1>1. /\ \A i \in 0 .. TxRing - 1 : at(i) \in 0 .. TxRing - 1
      /\ \A i, j \in 0 .. TxRing - 1 : at(i) = at(j) => i = j
      /\ at(0) = tdh /\ at(TxRing) = tdh
      /\ \A i \in 0 .. TxRing - 1 : Wrap(nx, i, TxRing) = at(i + 1)
  BY <1>0, WrapIs
<1>2. (tdh + 1) % TxRing = nx /\ nx \in 0 .. TxRing - 1
  <2>1. 1 \in 0 .. TxRing
    BY <1>0
  <2> QED BY <1>0, <2>1, ModWrap
<1>w. /\ \A i \in 0 .. TxRing - 1 : i < k => desc[at(i)].dd = FALSE /\ desc[at(i)].frame = m + i + 1
      /\ \A i \in 0 .. TxRing - 1 : ~(i < k) => desc[at(i)].dd = TRUE
  BY DEF Waits
<1>s. (\A i \in 0 .. TxRing - 1 :
          IF i < k - 1 THEN my[Wrap(nx, i, TxRing)].dd = FALSE /\ my[Wrap(nx, i, TxRing)].frame = m + 1 + i + 1
          ELSE my[Wrap(nx, i, TxRing)].dd = TRUE)
         => Waits(my, nx, m + 1, k - 1)
  BY DEF Waits
<1>k. at(k) = Wrap(nx, k - 1, TxRing)
  <2>1. k - 1 \in 0 .. TxRing - 1 /\ k - 1 + 1 = k
    BY <1>0
  <2> QED BY <1>1, <2>1
<1> HIDE DEF at, nx
<1>3. 0 \in 0 .. TxRing - 1 /\ 0 < k
  BY <1>0
<1>4. desc[tdh].frame = m + 1
  BY <1>1, <1>3, <1>w
<1>6. my[at(0)].dd = TRUE /\ \A i \in 1 .. TxRing - 1 : my[at(i)] = desc[at(i)]
  <2>1. \A i \in 1 .. TxRing - 1 : at(i) \in 0 .. TxRing - 1 /\ at(i) # tdh
    <3> SUFFICES ASSUME NEW i \in 1 .. TxRing - 1 PROVE at(i) \in 0 .. TxRing - 1 /\ at(i) # tdh
      OBVIOUS
    <3>1. i \in 0 .. TxRing - 1 /\ i # 0
      BY <1>0
    <3> QED BY <1>1, <1>3, <3>1
  <2> QED BY <1>1, <1>e, <2>1 DEF IsDone
<1>7. Waits(my, nx, m + 1, k - 1)
  <2> SUFFICES ASSUME NEW i \in 0 .. TxRing - 1
      PROVE  IF i < k - 1 THEN my[Wrap(nx, i, TxRing)].dd = FALSE /\ my[Wrap(nx, i, TxRing)].frame = m + 1 + i + 1
             ELSE my[Wrap(nx, i, TxRing)].dd = TRUE
    BY <1>s
  <2>1. CASE i = TxRing - 1
    <3>1. i + 1 = TxRing /\ ~(i < k - 1)
      BY <1>0, <2>1
    <3>2. Wrap(nx, i, TxRing) = at(0)
      BY <1>1, <3>1
    <3> QED BY <1>6, <3>1, <3>2
  <2>2. CASE i # TxRing - 1
    <3>1. PICK j : j = i + 1
      OBVIOUS
    <3>10. i \in Int /\ k \in Int /\ TxRing \in Int /\ 0 <= i /\ i <= TxRing - 1 /\ TxRing - 1 \in Int
      BY <1>0
    <3>7. i \in Int /\ k \in Int /\ TxRing \in Int /\ 0 <= i /\ i < TxRing - 1 /\ TxRing - 1 \in Int
      BY <2>2, <3>10
    <3>9. \A e, u \in Int : 0 <= e /\ e < u => e + 1 \in 1 .. u /\ e + 1 \in 0 .. u
      OBVIOUS
    <3>8. i + 1 \in 1 .. TxRing - 1 /\ i + 1 \in 0 .. TxRing - 1
      BY <3>7, <3>9
    <3>5. i + 1 \in 1 .. TxRing - 1 /\ i + 1 \in 0 .. TxRing - 1 /\ (i < k - 1 <=> i + 1 < k)
      BY <3>7, <3>8
    <3>6. m + 1 + i + 1 = m + (i + 1) + 1
      OBVIOUS
    <3>2. j \in 1 .. TxRing - 1 /\ j \in 0 .. TxRing - 1
      BY <3>1, <3>5
    <3>4. (i < k - 1 <=> j < k) /\ m + 1 + i + 1 = m + j + 1
      BY <3>1, <3>5, <3>6
    <3>3. Wrap(nx, i, TxRing) = at(j)
      BY <1>1, <3>1
    <3> QED BY <1>6, <1>w, <3>2, <3>3, <3>4
  <2> QED BY <2>1, <2>2
<1> QED BY <1>2, <1>4, <1>7, <1>e, <1>k DEF at, nx

\* What the parts of the invariant depend on.
LEMMA RxFrame == ASSUME RxOk, rx' = rx, raced => raced' PROVE RxOk'
  BY DEF RxOk, RxHolds, Has, Rises
LEMMA TxFrame == ASSUME TxOk, tx' = tx, net'.accepted = net.accepted, net'.sent = net.sent PROVE TxOk'
  BY DEF TxOk, TxHolds, Waits
LEMMA ListFrame ==
    ASSUME ListOk, rx'.desc = rx.desc, rxq' = rxq, nicPc'.deq = nicPc.deq, net'.offered = net.offered,
           net'.taken = net.taken, net'.dropped = net.dropped, net'.delivered = net.delivered
    PROVE  ListOk'
  BY DEF ListOk, Dequeued, Owed, Pending, Ringed, Rising, InTurn, Chain, TailOk, Unlinked, Follows, Below
LEMMA LinkFrame ==
    ASSUME LinkOk, nicPc' = nicPc, linkTold' = linkTold, linkUp' = linkUp, lu' = lu, ("LSC" \in icr) => ("LSC" \in icr')
    PROVE  LinkOk'
  BY DEF LinkOk

LEMMA TypesFrame ==
    /\ RxTypes /\ rx' = rx => RxTypes'
    /\ TxTypes /\ tx' = tx => TxTypes'
    /\ RxqTypes /\ rxq' = rxq => RxqTypes'
    /\ NicPcTypes /\ nicPc' = nicPc /\ raced' = raced /\ linkTold' = linkTold => NicPcTypes'
    /\ NetTypes /\ net' = net => NetTypes'
  BY DEF RxTypes, TxTypes, RxqTypes, NicPcTypes, NetTypes

LEMMA NicRings == ASSUME NicTypes PROVE rx.desc \in [0 .. RxRing - 1 -> Nat] /\ rx.head \in 0 .. RxRing - 1
                                        /\ RxMax \in Nat /\ RxRing \in Nat \ {0} /\ TxRing \in Nat \ {0}
  BY NicAssumption DEF NicTypes, RxTypes

\* What the assignments make of the records.
LEMMA RxOne ==
    ASSUME NEW n, NEW a, NEW b, NEW c, NEW d, NEW x, NEW m, n = [desc |-> a, head |-> b, rdh |-> c, rdt |-> d]
    PROVE  /\ m = [n EXCEPT !.desc = x] => m = [desc |-> x, head |-> b, rdh |-> c, rdt |-> d]
           /\ m = [n EXCEPT !.head = x] => m = [desc |-> a, head |-> x, rdh |-> c, rdt |-> d]
           /\ m = [n EXCEPT !.rdh = x] => m = [desc |-> a, head |-> b, rdh |-> x, rdt |-> d]
           /\ m = [n EXCEPT !.rdt = x] => m = [desc |-> a, head |-> b, rdh |-> c, rdt |-> x]
<1>1. m = [n EXCEPT !.desc = x] => m = [desc |-> x, head |-> b, rdh |-> c, rdt |-> d]
  OBVIOUS
<1>2. m = [n EXCEPT !.head = x] => m = [desc |-> a, head |-> x, rdh |-> c, rdt |-> d]
  OBVIOUS
<1>3. m = [n EXCEPT !.rdh = x] => m = [desc |-> a, head |-> b, rdh |-> x, rdt |-> d]
  OBVIOUS
<1>4. m = [n EXCEPT !.rdt = x] => m = [desc |-> a, head |-> b, rdh |-> c, rdt |-> x]
  OBVIOUS
<1> QED BY <1>1, <1>2, <1>3, <1>4

LEMMA RxIs ==
    ASSUME NEW n, NEW a, NEW b, NEW c, NEW d, NEW x, NEW y, NEW z, NEW p, NEW m,
           n = [desc |-> a, head |-> b, rdh |-> c, rdt |-> d]
    PROVE  /\ m = [n EXCEPT !.desc[p] = x, !.rdh = y] => m = [desc |-> [a EXCEPT ![p] = x], head |-> b, rdh |-> y, rdt |-> d]
           /\ m = [n EXCEPT !.desc[p] = x, !.head = y, !.rdt = z] => m = [desc |-> [a EXCEPT ![p] = x], head |-> y, rdh |-> c, rdt |-> z]
<1>1. PICK g : g = [a EXCEPT ![p] = x]
  OBVIOUS
<1>2. n.desc = a
  OBVIOUS
<1>3. PICK o : o = [n EXCEPT !.desc[p] = x]
  OBVIOUS
<1>4. o = [n EXCEPT !.desc = g]
  BY <1>1, <1>2, <1>3
<1>5. o = [desc |-> g, head |-> b, rdh |-> c, rdt |-> d]
  BY <1>4, RxOne
<1>6. ASSUME m = [n EXCEPT !.desc[p] = x, !.rdh = y] PROVE m = [desc |-> g, head |-> b, rdh |-> y, rdt |-> d]
  <2>1. m = [o EXCEPT !.rdh = y]
    BY <1>3, <1>6
  <2> QED BY <1>5, <2>1, RxOne
<1>7. ASSUME m = [n EXCEPT !.desc[p] = x, !.head = y, !.rdt = z] PROVE m = [desc |-> g, head |-> y, rdh |-> c, rdt |-> z]
  <2>1. PICK q : q = [o EXCEPT !.head = y]
    OBVIOUS
  <2>2. q = [desc |-> g, head |-> y, rdh |-> c, rdt |-> d]
    BY <1>5, <2>1, RxOne
  <2>3. m = [q EXCEPT !.rdt = z]
    BY <1>3, <1>7, <2>1
  <2> QED BY <2>2, <2>3, RxOne
<1> QED BY <1>1, <1>6, <1>7

LEMMA TxOne ==
    ASSUME NEW n, NEW a, NEW b, NEW c, NEW d, NEW x, NEW m, n = [desc |-> a, tail |-> b, tdh |-> c, tdt |-> d]
    PROVE  /\ m = [n EXCEPT !.desc = x] => m = [desc |-> x, tail |-> b, tdh |-> c, tdt |-> d]
           /\ m = [n EXCEPT !.tail = x] => m = [desc |-> a, tail |-> x, tdh |-> c, tdt |-> d]
           /\ m = [n EXCEPT !.tdh = x] => m = [desc |-> a, tail |-> b, tdh |-> x, tdt |-> d]
           /\ m = [n EXCEPT !.tdt = x] => m = [desc |-> a, tail |-> b, tdh |-> c, tdt |-> x]
<1>1. m = [n EXCEPT !.desc = x] => m = [desc |-> x, tail |-> b, tdh |-> c, tdt |-> d]
  OBVIOUS
<1>2. m = [n EXCEPT !.tail = x] => m = [desc |-> a, tail |-> x, tdh |-> c, tdt |-> d]
  OBVIOUS
<1>3. m = [n EXCEPT !.tdh = x] => m = [desc |-> a, tail |-> b, tdh |-> x, tdt |-> d]
  OBVIOUS
<1>4. m = [n EXCEPT !.tdt = x] => m = [desc |-> a, tail |-> b, tdh |-> c, tdt |-> x]
  OBVIOUS
<1> QED BY <1>1, <1>2, <1>3, <1>4

LEMMA TxIs ==
    ASSUME NEW n, NEW a, NEW b, NEW c, NEW d, NEW x, NEW y, NEW p, NEW m,
           n = [desc |-> a, tail |-> b, tdh |-> c, tdt |-> d]
    PROVE  /\ m = [n EXCEPT !.desc[p].dd = x, !.tdh = y] => m = [desc |-> [a EXCEPT ![p].dd = x], tail |-> b, tdh |-> y, tdt |-> d]
           /\ m = [n EXCEPT !.desc[p] = x, !.tail = y, !.tdt = y] => m = [desc |-> [a EXCEPT ![p] = x], tail |-> y, tdh |-> c, tdt |-> y]
<1>2. n.desc = a
  OBVIOUS
<1>6. ASSUME m = [n EXCEPT !.desc[p].dd = x, !.tdh = y] PROVE m = [desc |-> [a EXCEPT ![p].dd = x], tail |-> b, tdh |-> y, tdt |-> d]
  <2>1. PICK g : g = [a EXCEPT ![p].dd = x]
    OBVIOUS
  <2>2. PICK o : o = [n EXCEPT !.desc[p].dd = x]
    OBVIOUS
  <2>3. o = [n EXCEPT !.desc = g]
    BY <1>2, <2>1, <2>2
  <2>4. o = [desc |-> g, tail |-> b, tdh |-> c, tdt |-> d]
    BY <2>3, TxOne
  <2>5. m = [o EXCEPT !.tdh = y]
    BY <1>6, <2>2
  <2>6. m = [desc |-> g, tail |-> b, tdh |-> y, tdt |-> d]
    BY <2>4, <2>5, TxOne
  <2> QED BY <2>1, <2>6
<1>7. ASSUME m = [n EXCEPT !.desc[p] = x, !.tail = y, !.tdt = y] PROVE m = [desc |-> [a EXCEPT ![p] = x], tail |-> y, tdh |-> c, tdt |-> y]
  <2>1. PICK g : g = [a EXCEPT ![p] = x]
    OBVIOUS
  <2>2. PICK o : o = [n EXCEPT !.desc[p] = x]
    OBVIOUS
  <2>3. o = [n EXCEPT !.desc = g]
    BY <1>2, <2>1, <2>2
  <2>4. o = [desc |-> g, tail |-> b, tdh |-> c, tdt |-> d]
    BY <2>3, TxOne
  <2>5. PICK q : q = [o EXCEPT !.tail = y]
    OBVIOUS
  <2>6. q = [desc |-> g, tail |-> y, tdh |-> c, tdt |-> d]
    BY <2>4, <2>5, TxOne
  <2>7. m = [q EXCEPT !.tdt = y]
    BY <1>7, <2>2, <2>5
  <2>8. m = [desc |-> g, tail |-> y, tdh |-> c, tdt |-> y]
    BY <2>6, <2>7, TxOne
  <2> QED BY <2>1, <2>8
<1> QED BY <1>6, <1>7

LEMMA RxqIs ==
    ASSUME NEW n, NEW a, NEW b, NEW c, NEW x, NEW y, NEW z, NEW m, n = [next |-> a, head |-> b, tail |-> c]
    PROVE  /\ m = [n EXCEPT !.next = x, !.head = y, !.tail = z] => m = [next |-> x, head |-> y, tail |-> z]
           /\ m = [n EXCEPT !.head = x] => m = [next |-> a, head |-> x, tail |-> c]
           /\ m = [n EXCEPT !.tail = x] => m = [next |-> a, head |-> b, tail |-> x]
<1>1. m = [n EXCEPT !.next = x, !.head = y, !.tail = z] => m = [next |-> x, head |-> y, tail |-> z]
  OBVIOUS
<1>2. m = [n EXCEPT !.head = x] => m = [next |-> a, head |-> x, tail |-> c]
  OBVIOUS
<1>3. m = [n EXCEPT !.tail = x] => m = [next |-> a, head |-> b, tail |-> x]
  OBVIOUS
<1> QED BY <1>1, <1>2, <1>3

LEMMA NicPcIs ==
    ASSUME NEW n, NEW a, NEW b, NEW c, NEW x, NEW y, NEW m, n = [irq |-> a, causes |-> b, deq |-> c]
    PROVE  /\ m = [n EXCEPT !.irq = x, !.causes = y] => m = [irq |-> x, causes |-> y, deq |-> c]
           /\ m = [n EXCEPT !.deq = x] => m = [irq |-> a, causes |-> b, deq |-> x]
<1>1. m = [n EXCEPT !.irq = x, !.causes = y] => m = [irq |-> x, causes |-> y, deq |-> c]
  OBVIOUS
<1>2. m = [n EXCEPT !.deq = x] => m = [irq |-> a, causes |-> b, deq |-> x]
  OBVIOUS
<1> QED BY <1>1, <1>2

LEMMA NetOne ==
    ASSUME NEW n, NEW a, NEW b, NEW c, NEW d, NEW e, NEW f, NEW x, NEW m,
           n = [offered |-> a, taken |-> b, dropped |-> c, delivered |-> d, accepted |-> e, sent |-> f]
    PROVE  /\ m = [n EXCEPT !.offered = x] => m = [offered |-> x, taken |-> b, dropped |-> c, delivered |-> d, accepted |-> e, sent |-> f]
           /\ m = [n EXCEPT !.taken = x] => m = [offered |-> a, taken |-> x, dropped |-> c, delivered |-> d, accepted |-> e, sent |-> f]
           /\ m = [n EXCEPT !.dropped = x] => m = [offered |-> a, taken |-> b, dropped |-> x, delivered |-> d, accepted |-> e, sent |-> f]
           /\ m = [n EXCEPT !.delivered = x] => m = [offered |-> a, taken |-> b, dropped |-> c, delivered |-> x, accepted |-> e, sent |-> f]
           /\ m = [n EXCEPT !.accepted = x] => m = [offered |-> a, taken |-> b, dropped |-> c, delivered |-> d, accepted |-> x, sent |-> f]
           /\ m = [n EXCEPT !.sent = x] => m = [offered |-> a, taken |-> b, dropped |-> c, delivered |-> d, accepted |-> e, sent |-> x]
<1>1. m = [n EXCEPT !.offered = x] => m = [offered |-> x, taken |-> b, dropped |-> c, delivered |-> d, accepted |-> e, sent |-> f]
  OBVIOUS
<1>2. m = [n EXCEPT !.taken = x] => m = [offered |-> a, taken |-> x, dropped |-> c, delivered |-> d, accepted |-> e, sent |-> f]
  OBVIOUS
<1>3. m = [n EXCEPT !.dropped = x] => m = [offered |-> a, taken |-> b, dropped |-> x, delivered |-> d, accepted |-> e, sent |-> f]
  OBVIOUS
<1>4. m = [n EXCEPT !.delivered = x] => m = [offered |-> a, taken |-> b, dropped |-> c, delivered |-> x, accepted |-> e, sent |-> f]
  OBVIOUS
<1>5. m = [n EXCEPT !.accepted = x] => m = [offered |-> a, taken |-> b, dropped |-> c, delivered |-> d, accepted |-> x, sent |-> f]
  OBVIOUS
<1>6. m = [n EXCEPT !.sent = x] => m = [offered |-> a, taken |-> b, dropped |-> c, delivered |-> d, accepted |-> e, sent |-> x]
  OBVIOUS
<1> QED BY <1>1, <1>2, <1>3, <1>4, <1>5, <1>6

LEMMA NetTwo ==
    ASSUME NEW n, NEW a, NEW b, NEW c, NEW d, NEW e, NEW f, NEW x, NEW y, NEW m,
           n = [offered |-> a, taken |-> b, dropped |-> c, delivered |-> d, accepted |-> e, sent |-> f]
    PROVE  m = [n EXCEPT !.offered = x, !.taken = y] => m = [offered |-> x, taken |-> y, dropped |-> c, delivered |-> d, accepted |-> e, sent |-> f]
<1> SUFFICES ASSUME m = [n EXCEPT !.offered = x, !.taken = y] PROVE m = [offered |-> x, taken |-> y, dropped |-> c, delivered |-> d, accepted |-> e, sent |-> f]
  OBVIOUS
<1>1. PICK o : o = [n EXCEPT !.offered = x]
  OBVIOUS
<1>2. o = [offered |-> x, taken |-> b, dropped |-> c, delivered |-> d, accepted |-> e, sent |-> f]
  BY <1>1, NetOne
<1>3. m = [o EXCEPT !.taken = y]
  BY <1>1
<1> QED BY <1>2, <1>3, NetOne

LEMMA CardReceivesStep == ASSUME NicGood, CardReceives PROVE NicGood'
<1> USE DEF NicGood
<1>00. net.offered \in 0 .. RxMax /\ net.offered < RxMax
  BY DEF CardReceives, NicTypes, NetTypes
<1>0. /\ RxMax \in Nat /\ RxRing \in Nat \ {0} /\ RxRing > 1 /\ TxRing \in Nat \ {0}
      /\ net.offered \in 0 .. RxMax /\ net.offered < RxMax
  BY <1>00, NicAssumption
<1> PICK f : f = net.offered + 1
  OBVIOUS
<1>f. f \in 1 .. RxMax /\ f \in Nat \ {0}
  BY <1>0
<1>n. net = [offered |-> net.offered, taken |-> net.taken, dropped |-> net.dropped, delivered |-> net.delivered,
              accepted |-> net.accepted, sent |-> net.sent]
  BY DEF NicTypes, NetTypes
<1>s. /\ tx' = tx /\ rxq' = rxq /\ nicPc' = nicPc /\ raced' = raced /\ linkTold' = linkTold /\ linkUp' = linkUp
      /\ lu' = lu
      /\ ("LSC" \in icr) => ("LSC" \in icr')
  BY DEF CardReceives
<1>l. LinkOk'
  BY <1>s, LinkFrame
<1>1. CASE rx.rdh = rx.rdt
  <2>1. net' = [net EXCEPT !.offered = f] /\ rx' = rx
    BY <1>1 DEF CardReceives
  <2>2. net' = [offered |-> f, taken |-> net.taken, dropped |-> net.dropped, delivered |-> net.delivered,
              accepted |-> net.accepted, sent |-> net.sent]
    BY <1>n, <2>1, NetOne
  <2>3. /\ net'.offered = f /\ net'.taken = net.taken /\ net'.dropped = net.dropped
        /\ net'.delivered = net.delivered /\ net'.accepted = net.accepted /\ net'.sent = net.sent
    BY <2>2
  <2>4. RxOk' /\ TxOk'
    BY <1>s, <2>1, <2>3, RxFrame, TxFrame
  <2>5. NicTypes'
    <3>1. NetTypes'
      BY <1>f, <2>2, <2>3 DEF NicTypes, NetTypes
    <3> QED BY <1>s, <2>1, <3>1, TypesFrame DEF NicTypes
  <2>6. ASSUME ~raced' PROVE ListOk'
    <3>1. ListOk
      BY <1>s, <2>6
    <3>2. \A g \in 1 .. net.offered : g \in 1 .. f
      BY <1>0
    <3> QED BY <1>s, <2>1, <2>3, <3>1, <3>2
            DEF ListOk, Dequeued, Owed, Pending, Ringed, Rising, InTurn, Chain, TailOk, Unlinked, Follows, Below
  <2> QED BY <1>l, <2>4, <2>5, <2>6
<1>2. CASE rx.rdh # rx.rdt
  <2>n. net' = [net EXCEPT !.offered = f, !.taken = net.taken \cup {f}]
    BY <1>2 DEF CardReceives
  <2>2. net' = [offered |-> f, taken |-> net.taken \cup {f}, dropped |-> net.dropped, delivered |-> net.delivered,
              accepted |-> net.accepted, sent |-> net.sent]
    BY <1>n, <2>n, NetTwo
  <2>3. /\ net'.offered = f /\ net'.taken = net.taken \cup {f} /\ net'.dropped = net.dropped
        /\ net'.delivered = net.delivered /\ net'.accepted = net.accepted /\ net'.sent = net.sent
    BY <2>2
  <2> PICK k \in 0 .. RxRing - 1 : RxHolds(k)
    BY DEF RxOk
  <2> PICK my : my = [rx.desc EXCEPT ![rx.rdh] = f]
    OBVIOUS
  <2> PICK b : b = rx.head
    OBVIOUS
  <2>r. rx = [desc |-> rx.desc, head |-> rx.head, rdh |-> rx.rdh, rdt |-> rx.rdt]
    BY DEF NicTypes, RxTypes
  <2>4. rx' = [rx EXCEPT !.desc[rx.rdh] = f, !.rdh = (rx.rdh + 1) % RxRing]
    BY <1>2 DEF CardReceives
  <2>5. rx' = [desc |-> my, head |-> b, rdh |-> (rx.rdh + 1) % RxRing, rdt |-> rx.rdt]
    BY <2>r, <2>4, RxIs
  <2>6. rx'.desc = my /\ rx'.head = b /\ rx'.rdh = (rx.rdh + 1) % RxRing /\ rx'.rdt = rx.rdt
    BY <2>5
  <2>7. rx.desc \in [0 .. RxRing - 1 -> Nat] /\ rx.desc \in [0 .. RxRing - 1 -> 0 .. RxMax] /\ b \in 0 .. RxRing - 1
    BY NicRings DEF NicTypes, RxTypes
  <2>8. /\ rx.rdh = Wrap(b, k, RxRing) /\ rx.rdt = Wrap(b, RxRing - 1, RxRing) /\ Has(rx.desc, b, k)
        /\ (~raced => Rises(rx.desc, b, k))
    BY DEF RxHolds
  <2>9. k # RxRing - 1
    BY <1>2, <2>8
  <2>10. k + 1 \in 0 .. RxRing - 1
    BY <1>0, <2>9
  <2>11. rx.rdh \in 0 .. RxRing - 1 /\ (rx.rdh + 1) % RxRing = Wrap(b, k + 1, RxRing)
    <3>1. rx.rdh \in 0 .. RxRing - 1 /\ Wrap(rx.rdh, 1, RxRing) = Wrap(b, k + 1, RxRing)
      <4>1. Wrap(b, k, RxRing) \in 0 .. RxRing - 1 /\ Wrap(Wrap(b, k, RxRing), 1, RxRing) = Wrap(b, k + 1, RxRing)
        <5>1. /\ \A i \in 0 .. RxRing - 1 : Wrap(b, i, RxRing) \in 0 .. RxRing - 1
              /\ \A i \in 0 .. RxRing - 1 : Wrap(Wrap(b, i, RxRing), 1, RxRing) = Wrap(b, i + 1, RxRing)
          BY ZenonT(60), <1>0, <2>7, WrapIs
        <5> QED BY <5>1
      <4> QED BY <2>8, <4>1
    <3>2. 1 \in 0 .. RxRing
      BY <1>0
    <3>3. (rx.rdh + 1) % RxRing = Wrap(rx.rdh, 1, RxRing)
      BY <1>0, <3>1, <3>2, ModWrap
    <3> QED BY <3>1, <3>3
  <2>12. /\ Has(my, b, k + 1) /\ Ringed(my) = Ringed(rx.desc) \cup {f}
         /\ Rises(rx.desc, b, k) /\ (\A v \in Ringed(rx.desc) : v < f) => Rises(my, b, k + 1)
    BY SMTT(60), <1>f, <2>7, <2>8, Fills
  <2>13. my \in [0 .. RxRing - 1 -> 0 .. RxMax]
    BY <1>f, <2>7, <2>11
  <2>14. NicTypes'
    <3>1. NetTypes'
      BY <1>f, <2>2, <2>3 DEF NicTypes, NetTypes
    <3>2. RxTypes'
      BY <2>5, <2>6, <2>7, <2>13 DEF RxTypes
    <3> QED BY <1>s, <3>1, <3>2, TypesFrame DEF NicTypes
  <2>15. TxOk'
    BY <1>s, <2>3, TxFrame
  <2>16. ASSUME ~raced' PROVE ListOk' /\ Rises(my, b, k + 1)
    <3>1. ListOk /\ Rises(rx.desc, b, k)
      BY <1>s, <2>8, <2>16
    <3> PICK O : O = Owed
      OBVIOUS
    <3> PICK D : D = Range(net.delivered)
      OBVIOUS
    <3> PICK C : C = Dequeued
      OBVIOUS
    <3> PICK R : R = Ringed(rx.desc)
      OBVIOUS
    <3> PICK L : L = Pending
      OBVIOUS
    <3>2. /\ net.taken \cup net.dropped \subseteq 1 .. net.offered /\ D \cup C \cup R \subseteq O
          /\ O = net.taken \ net.dropped /\ L = O \ (D \cup C \cup R)
          /\ Rising(net.delivered) /\ InTurn(D, C, L, R)
          /\ Chain(L, rxq.next, rxq.head) /\ TailOk(C, L, rxq.tail) /\ Unlinked(D \cup C \cup L, rxq.next)
      BY <3>1 DEF ListOk, Owed, Pending
    <3>3. \A g \in 1 .. net.offered : g \in 1 .. f /\ g < f /\ g # f
      BY <1>0
    <3>4. \A g \in D \cup C \cup R \cup L : g < f /\ g # f
      BY <3>2, <3>3
    <3>5. Rises(my, b, k + 1)
      BY <2>12, <3>1, <3>4
    <3>6. Owed' = O \cup {f}
      BY <2>3, <3>2, <3>3 DEF Owed
    <3>7. Range(net.delivered)' = D /\ Dequeued' = C /\ Ringed(rx.desc)' = R \cup {f}
      <4>1. Range(net.delivered)' = D
        BY <2>3 DEF Range
      <4>2. Dequeued' = C
        BY <1>s DEF Dequeued
      <4>3. Ringed(rx.desc)' = Ringed(my)
        BY <2>6 DEF Ringed
      <4> QED BY <2>12, <4>1, <4>2, <4>3
    <3>8. Pending' = L
      BY <3>2, <3>4, <3>6, <3>7 DEF Pending
    <3>9. InTurn(D, C, L, R \cup {f})
      BY <3>2, <3>4 DEF InTurn, Below
    <3>10. (net.taken \cup net.dropped \subseteq 1 .. net.offered)'
      <4>1. f \in 1 .. f
        BY <1>f
      <4> QED BY <2>3, <3>2, <3>3, <4>1
    <3>11. D \cup C \cup (R \cup {f}) \subseteq O \cup {f}
      BY <3>2
    <3>12. Rising(net'.delivered) /\ Chain(L, rxq'.next, rxq'.head) /\ TailOk(C, L, rxq'.tail) /\ Unlinked(D \cup C \cup L, rxq'.next)
      BY <1>s, <2>3, <3>2
    <3> HIDE DEF NicGood
    <3>13. ListOk'
      BY <3>6, <3>7, <3>8, <3>9, <3>10, <3>11, <3>12 DEF ListOk
    <3> QED BY <3>5, <3>13
  <2>17. RxOk'
    <3>1. RxHolds(k + 1)'
      BY <2>6, <2>8, <2>11, <2>12, <2>16 DEF RxHolds
    <3> QED BY <2>10, <3>1 DEF RxOk
  <2> QED BY <1>l, <2>14, <2>15, <2>16, <2>17
<1> QED BY <1>1, <1>2

LEMMA LinkChangesStep == ASSUME NicGood, LinkChanges PROVE NicGood'
<1>s. /\ rx' = rx /\ tx' = tx /\ rxq' = rxq /\ nicPc' = nicPc /\ net' = net /\ raced' = raced /\ linkTold' = linkTold
      /\ icr' = icr \cup {"LSC"}
  BY DEF LinkChanges
<1>1. NicTypes' /\ RxOk' /\ TxOk'
  BY <1>s, TypesFrame, RxFrame, TxFrame DEF NicGood, NicTypes
<1>2. ~raced' => ListOk'
  BY <1>s, ListFrame DEF NicGood
<1>3. LinkOk'
  <2>1. LinkOk /\ "LSC" \in icr'
    BY <1>s DEF NicGood
  <2> QED BY <1>s, <2>1 DEF LinkOk
<1> QED BY <1>1, <1>2, <1>3 DEF NicGood

LEMMA IrqStep == ASSUME NicGood, e1000_irq_handler PROVE NicGood'
<1>s. /\ rx' = rx /\ tx' = tx /\ rxq' = rxq /\ net' = net /\ raced' = raced /\ linkTold' = linkTold
      /\ icr' = {} /\ linkUp' = linkUp /\ lu' = lu /\ ~nicPc.irq /\ nicPc' = [nicPc EXCEPT !.irq = TRUE, !.causes = icr]
  BY DEF e1000_irq_handler
<1>0. nicPc = [irq |-> nicPc.irq, causes |-> nicPc.causes, deq |-> nicPc.deq] /\ NicPcTypes
  BY DEF NicGood, NicTypes, NicPcTypes
<1>1. nicPc' = [irq |-> TRUE, causes |-> icr, deq |-> nicPc.deq]
  BY <1>0, <1>s, NicPcIs
<1>2. nicPc'.irq = TRUE /\ nicPc'.causes = icr /\ nicPc'.deq = nicPc.deq
  BY <1>1
<1>3. NicPcTypes'
  BY <1>0, <1>1, <1>2, <1>s DEF NicPcTypes
<1>4. NicTypes' /\ RxOk' /\ TxOk'
  BY <1>s, <1>3, TypesFrame, RxFrame, TxFrame DEF NicGood, NicTypes
<1>5. ~raced' => ListOk'
  BY <1>s, <1>2, ListFrame DEF NicGood
<1>6. LinkOk'
  <2>1. LinkOk
    BY DEF NicGood
  <2>2. nicPc.causes = {}
    BY <1>s, <2>1 DEF LinkOk
  <2> QED BY <1>s, <1>2, <2>1, <2>2 DEF LinkOk
<1> QED BY <1>4, <1>5, <1>6 DEF NicGood

LEMMA HandlerEndsStep ==
    ASSUME NicGood, e1000_ready \/ linkTold = FALSE, HandlerEnds
    PROVE  NicGood' /\ (e1000_ready \/ linkTold' = FALSE)
<1>s. /\ rx' = rx /\ tx' = tx /\ rxq' = rxq /\ net' = net /\ raced' = raced /\ icr' = icr /\ lu' = lu
      /\ linkUp' = (IF e1000_ready /\ "LSC" \in nicPc.causes THEN lu ELSE linkUp)
      /\ linkTold' = (linkTold \/ (e1000_ready /\ "LSC" \in nicPc.causes))
      /\ nicPc' = [nicPc EXCEPT !.irq = FALSE, !.causes = {}]
  BY DEF HandlerEnds
<1>0. nicPc = [irq |-> nicPc.irq, causes |-> nicPc.causes, deq |-> nicPc.deq] /\ NicPcTypes
  BY DEF NicGood, NicTypes, NicPcTypes
<1>1. nicPc' = [irq |-> FALSE, causes |-> {}, deq |-> nicPc.deq]
  BY <1>0, <1>s, NicPcIs
<1>2. nicPc'.irq = FALSE /\ nicPc'.causes = {} /\ nicPc'.deq = nicPc.deq
  BY <1>1
<1>3. NicPcTypes'
  BY <1>0, <1>1, <1>2, <1>s DEF NicPcTypes
<1>4. NicTypes' /\ RxOk' /\ TxOk'
  BY <1>s, <1>3, TypesFrame, RxFrame, TxFrame DEF NicGood, NicTypes
<1>5. ~raced' => ListOk'
  BY <1>s, <1>2, ListFrame DEF NicGood
<1>6. LinkOk'
  <2>1. LinkOk
    BY DEF NicGood
  <2>2. CASE e1000_ready /\ "LSC" \in nicPc.causes
    BY <1>s, <1>2, <2>2 DEF LinkOk
  <2>3. CASE e1000_ready /\ "LSC" \notin nicPc.causes
    BY <1>s, <1>2, <2>1, <2>3 DEF LinkOk
  <2>4. CASE ~e1000_ready
    BY <1>s, <1>2, <2>4 DEF LinkOk
  <2> QED BY <2>2, <2>3, <2>4
<1>7. e1000_ready \/ linkTold' = FALSE
  BY <1>s
<1> QED BY <1>4, <1>5, <1>6, <1>7 DEF NicGood

LEMMA CardSendsStep == ASSUME NicGood, CardSends PROVE NicGood'
<1>s. /\ rx' = rx /\ rxq' = rxq /\ nicPc' = nicPc /\ raced' = raced /\ linkTold' = linkTold /\ lu' = lu /\ linkUp' = linkUp
      /\ icr' = icr \cup {"TXDW"} /\ tx.tdh # tx.tdt
      /\ net' = [net EXCEPT !.sent = Append(net.sent, tx.desc[tx.tdh].frame)]
      /\ tx' = [tx EXCEPT !.desc[tx.tdh].dd = TRUE, !.tdh = (tx.tdh + 1) % TxRing]
  BY DEF CardSends
<1>0. TxRing \in Nat \ {0} /\ NicTypes
  BY NicRings DEF NicGood
<1>t. /\ tx = [desc |-> tx.desc, tail |-> tx.tail, tdh |-> tx.tdh, tdt |-> tx.tdt]
      /\ tx.desc \in [0 .. TxRing - 1 -> TxDesc] /\ tx.tdh \in 0 .. TxRing - 1
      /\ net = [offered |-> net.offered, taken |-> net.taken, dropped |-> net.dropped, delivered |-> net.delivered,
                accepted |-> net.accepted, sent |-> net.sent]
      /\ net.offered \in 0 .. RxMax /\ net.delivered \in Seq(0 .. RxMax) /\ net.sent \in Seq(Nat) /\ net.accepted \in Nat
  BY <1>0 DEF NicTypes, TxTypes, NetTypes
<1> PICK h : h = tx.tdh
  OBVIOUS
<1> PICK q : q = net.sent
  OBVIOUS
<1> PICK m : m = Len(q)
  OBVIOUS
<1> PICK my : my = [tx.desc EXCEPT ![h].dd = TRUE]
  OBVIOUS
<1> PICK k \in 0 .. TxRing : TxHolds(k)
  BY DEF NicGood, TxOk
<1>1. tx.tail = Wrap(h, k, TxRing) /\ tx.tdt = tx.tail /\ net.accepted = m + k /\ q = [i \in 1 .. m |-> i] /\ Waits(tx.desc, h, m, k)
  BY DEF TxHolds
<1>2. k \in 1 .. TxRing /\ k - 1 \in 0 .. TxRing /\ m \in Nat
  <2>1. k # 0
    <3>1. Wrap(h, 0, TxRing) = h
      BY <1>0, <1>t, WrapIs
    <3> QED BY <1>1, <1>s, <3>1
  <2> QED BY <1>0, <1>t, <2>1
<1>3. /\ tx.desc[h].frame = m + 1 /\ my \in [0 .. TxRing - 1 -> TxDesc]
      /\ (h + 1) % TxRing = Wrap(h, 1, TxRing) /\ Wrap(h, 1, TxRing) \in 0 .. TxRing - 1
      /\ Waits(my, Wrap(h, 1, TxRing), m + 1, k - 1)
      /\ Wrap(h, k, TxRing) = Wrap(Wrap(h, 1, TxRing), k - 1, TxRing)
  <2>1. PICK d : d = tx.desc
    OBVIOUS
  <2>2. d \in [0 .. TxRing - 1 -> TxDesc] /\ h \in 0 .. TxRing - 1 /\ my = [d EXCEPT ![h].dd = TRUE]
    BY <1>t, <2>1
  <2>3. Waits(d, h, m, k)
    BY <1>1, <2>1
  <2>4. /\ d[h].frame = m + 1 /\ my \in [0 .. TxRing - 1 -> TxDesc]
        /\ (h + 1) % TxRing = Wrap(h, 1, TxRing) /\ Wrap(h, 1, TxRing) \in 0 .. TxRing - 1
        /\ Waits(my, Wrap(h, 1, TxRing), m + 1, k - 1)
        /\ Wrap(h, k, TxRing) = Wrap(Wrap(h, 1, TxRing), k - 1, TxRing)
    <3>1. Leaving(d, h, m, k, my)
      BY <1>2, <2>2, <2>3 DEF Leaving
    <3>2. HasLeft(d, h, m, k, my)
      BY <3>1, Leaves
    <3> QED BY <3>2 DEF HasLeft
  <2> QED BY <2>1, <2>4
<1>4. tx' = [desc |-> my, tail |-> tx.tail, tdh |-> Wrap(h, 1, TxRing), tdt |-> tx.tdt]
  BY <1>3, <1>s, <1>t, TxIs
<1>5. tx'.desc = my /\ tx'.tail = tx.tail /\ tx'.tdh = Wrap(h, 1, TxRing) /\ tx'.tdt = tx.tdt
  BY <1>4
<1>6. net' = [offered |-> net.offered, taken |-> net.taken, dropped |-> net.dropped, delivered |-> net.delivered,
              accepted |-> net.accepted, sent |-> Append(q, m + 1)]
  BY <1>3, <1>s, <1>t, NetOne
<1>7. /\ net'.offered = net.offered /\ net'.taken = net.taken /\ net'.dropped = net.dropped
      /\ net'.delivered = net.delivered /\ net'.accepted = net.accepted /\ net'.sent = Append(q, m + 1)
  BY <1>6
<1>8. Append(q, m + 1) \in Seq(Nat) /\ Len(Append(q, m + 1)) = m + 1 /\ Append(q, m + 1) = [i \in 1 .. m + 1 |-> i]
  <2>1. q \in Seq(Nat) /\ m + 1 \in Nat
    BY <1>2, <1>t
  <2>2. PICK A : A = Append(q, m + 1)
    OBVIOUS
  <2>3. A \in Seq(Nat) /\ Len(A) = m + 1 /\ A[m + 1] = m + 1 /\ \A i \in 1 .. m : A[i] = q[i]
    BY <2>1, <2>2
  <2>4. A = [i \in 1 .. m + 1 |-> A[i]]
    BY <1>2, <2>3
  <2>5. \A i \in 1 .. m + 1 : A[i] = i
    <3>1. \A i \in 1 .. m : A[i] = i
      BY <1>1, <2>3
    <3>2. \A i \in 1 .. m + 1 : i = m + 1 \/ i \in 1 .. m
      BY <1>2
    <3> QED BY <2>3, <3>1, <3>2
  <2> QED BY <2>2, <2>3, <2>4, <2>5
<1>9. TxOk'
  <2>1. m + 1 + (k - 1) = m + k
    BY <1>2
  <2>2. TxHolds(k - 1)'
    BY <1>1, <1>3, <1>5, <1>7, <1>8, <2>1 DEF TxHolds
  <2> QED BY <1>2, <2>2 DEF TxOk
<1>10. NicTypes'
  <2>1. TxTypes'
    BY <1>3, <1>4, <1>5 DEF TxTypes
  <2>2. NetTypes'
    BY <1>6, <1>7, <1>8, <1>t DEF NetTypes
  <2> QED BY <1>0, <1>s, <2>1, <2>2, TypesFrame DEF NicTypes
<1>11. RxOk' /\ LinkOk' /\ (~raced' => ListOk')
  BY <1>7, <1>s, RxFrame, LinkFrame, ListFrame DEF NicGood
<1> QED BY <1>9, <1>10, <1>11 DEF NicGood

LEMMA SendStep == ASSUME NicGood, e1000_send PROVE NicGood'
<1>s. /\ rx' = rx /\ rxq' = rxq /\ nicPc' = nicPc /\ raced' = raced /\ linkTold' = linkTold /\ lu' = lu /\ linkUp' = linkUp
      /\ icr' = icr
  BY DEF e1000_send
<1>0. TxRing \in Nat \ {0} /\ NicTypes
  BY NicRings DEF NicGood
<1>1. CASE ~tx.desc[tx.tail].dd
  <2>1. tx' = tx /\ net' = net
    BY <1>1 DEF e1000_send
  <2>2. NicTypes' /\ RxOk' /\ TxOk' /\ LinkOk' /\ (~raced' => ListOk')
    BY <1>s, <2>1, TypesFrame, RxFrame, TxFrame, LinkFrame, ListFrame DEF NicGood, NicTypes
  <2> QED BY <2>2 DEF NicGood
<1>2. CASE tx.desc[tx.tail].dd
  <2>t. /\ tx = [desc |-> tx.desc, tail |-> tx.tail, tdh |-> tx.tdh, tdt |-> tx.tdt]
        /\ tx.desc \in [0 .. TxRing - 1 -> TxDesc] /\ tx.tdh \in 0 .. TxRing - 1
        /\ net = [offered |-> net.offered, taken |-> net.taken, dropped |-> net.dropped, delivered |-> net.delivered,
                  accepted |-> net.accepted, sent |-> net.sent]
        /\ net.offered \in 0 .. RxMax /\ net.delivered \in Seq(0 .. RxMax) /\ net.sent \in Seq(Nat) /\ net.accepted \in Nat
    BY <1>0 DEF NicTypes, TxTypes, NetTypes
  <2> PICK h : h = tx.tdh
    OBVIOUS
  <2> PICK t : t = tx.tail
    OBVIOUS
  <2> PICK m : m = Len(net.sent)
    OBVIOUS
  <2> PICK a : a = net.accepted + 1
    OBVIOUS
  <2> PICK z : z = [dd |-> FALSE, frame |-> a]
    OBVIOUS
  <2> PICK my : my = [tx.desc EXCEPT ![t] = z]
    OBVIOUS
  <2> PICK k \in 0 .. TxRing : TxHolds(k)
    BY DEF NicGood, TxOk
  <2>1. tx.tail = Wrap(h, k, TxRing) /\ tx.tdt = tx.tail /\ net.accepted = m + k /\ Waits(tx.desc, h, m, k)
        /\ net.sent = [i \in 1 .. m |-> i] /\ m \in Nat
    BY <2>t DEF TxHolds
  <2>2. a = m + k + 1 /\ a \in Nat
    BY <2>1
  <2>3. /\ k < TxRing /\ my \in [0 .. TxRing - 1 -> TxDesc]
        /\ Waits(my, h, m, k + 1) /\ (t + 1) % TxRing = Wrap(h, k + 1, TxRing)
    <3>1. PICK d : d = tx.desc
      OBVIOUS
    <3>2. d \in [0 .. TxRing - 1 -> TxDesc] /\ h \in 0 .. TxRing - 1 /\ t = Wrap(h, k, TxRing) /\ IsDone(d[t])
      BY <1>2, <2>1, <2>t, <3>1 DEF IsDone
    <3>3. my = [d EXCEPT ![t] = z] /\ Waits(d, h, m, k)
      BY <2>1, <3>1
    <3>4. z \in TxDesc /\ Tagged(z, m + k + 1)
      BY <2>2 DEF Tagged, TxDesc
    <3>5. Accepting(d, h, m, k, t, z, my)
      BY <2>1, <3>2, <3>3, <3>4 DEF Accepting
    <3>6. Accepted(h, m, k, t, my)
      BY <3>5, Accepts
    <3> QED BY <3>6 DEF Accepted
  <2>4. /\ tx' = [tx EXCEPT !.desc[t] = z, !.tail = (t + 1) % TxRing, !.tdt = (t + 1) % TxRing]
        /\ net' = [net EXCEPT !.accepted = a]
    BY <1>2 DEF e1000_send
  <2>5. tx' = [desc |-> my, tail |-> (t + 1) % TxRing, tdh |-> h, tdt |-> (t + 1) % TxRing]
    BY <2>4, <2>t, TxIs
  <2>6. tx'.desc = my /\ tx'.tail = (t + 1) % TxRing /\ tx'.tdh = h /\ tx'.tdt = tx'.tail
    BY <2>5
  <2>7. net' = [offered |-> net.offered, taken |-> net.taken, dropped |-> net.dropped, delivered |-> net.delivered,
                accepted |-> a, sent |-> net.sent]
    BY <2>4, <2>t, NetOne
  <2>8. /\ net'.offered = net.offered /\ net'.taken = net.taken /\ net'.dropped = net.dropped
        /\ net'.delivered = net.delivered /\ net'.accepted = a /\ net'.sent = net.sent
    BY <2>7
  <2>9. TxOk'
    <3>1. k + 1 \in 0 .. TxRing /\ a = m + (k + 1)
      BY SMTT(60), <1>0, <2>1, <2>2, <2>3
    <3>2. TxHolds(k + 1)'
      BY <2>1, <2>3, <2>6, <2>8, <3>1 DEF TxHolds
    <3> QED BY <3>1, <3>2 DEF TxOk
  <2>10. NicTypes'
    <3>1. TxTypes'
      BY <2>3, <2>5, <2>6, <2>t DEF TxTypes
    <3>2. NetTypes'
      BY <2>2, <2>7, <2>8, <2>t DEF NetTypes
    <3> QED BY <1>0, <1>s, <3>1, <3>2, TypesFrame DEF NicTypes
  <2>11. RxOk' /\ LinkOk' /\ (~raced' => ListOk')
    BY <2>8, <1>s, RxFrame, LinkFrame, ListFrame DEF NicGood
  <2> QED BY <2>9, <2>10, <2>11 DEF NicGood
<1> QED BY <1>1, <1>2

\* The list of packets, its sets named.
ListIs(O, D, C, Q, R, nx, h, t, q, n) ==
    /\ O \subseteq 1 .. n /\ D \cup C \cup R \subseteq O /\ Q = O \ (D \cup C \cup R)
    /\ Rising(q) /\ D = Range(q) /\ InTurn(D, C, Q, R)
    /\ Chain(Q, nx, h) /\ TailOk(C, Q, t) /\ Unlinked(D \cup C \cup Q, nx)
LEMMA ListTo ==
    ASSUME ListOk, NetTypes
    PROVE  /\ net.taken \cup net.dropped \subseteq 1 .. net.offered
           /\ ListIs(Owed, Range(net.delivered), Dequeued, Pending, Ringed(rx.desc), rxq.next, rxq.head, rxq.tail,
                     net.delivered, RxMax)
<1>1. Owed \subseteq 1 .. RxMax
  <2>1. \A f \in 1 .. net.offered : f \in 1 .. RxMax
    BY NicAssumption DEF NetTypes
  <2> QED BY <2>1 DEF ListOk, Owed
<1> QED BY <1>1 DEF ListOk, ListIs, Pending
\* One packet moves on in the list: from the ring to its end,
LEMMA Comes ==
    ASSUME NEW O, NEW D, NEW Q, NEW R, NEW nx \in [1 .. RxMax -> Int], NEW h \in Int, NEW t \in Int, NEW q,
           ListIs(O, D, {}, Q, R, nx, h, t, q, RxMax), NEW f \in R, \A g \in R : g = f \/ f < g,
           NEW my, my = IF t = 0 THEN nx ELSE [nx EXCEPT ![t] = f]
    PROVE  ListIs(O, D, {}, Q \cup {f}, R \ {f}, my, IF t = 0 THEN f ELSE h, f, q, RxMax)
<1>0. RxMax \in Nat /\ \A g \in 1 .. RxMax : g \in Int
  BY NicAssumption
<1>1. /\ O \subseteq 1 .. RxMax /\ D \cup R \subseteq O /\ Q = O \ (D \cup R) /\ D = Range(q)
      /\ Rising(q) /\ Chain(Q, nx, h) /\ TailOk({}, Q, t) /\ Unlinked(D \cup Q, nx)
      /\ Below(D, Q \cup R) /\ Below(Q, R)
  BY DEF ListIs, InTurn
<1>2. f \in 1 .. RxMax /\ f \in O
  BY <1>1
<1>3. \A g \in Q : g \in 1 .. RxMax /\ g \in D \cup Q /\ g < f
  BY <1>1 DEF Below
<1>4. \A g \in D : g < f
  BY <1>1 DEF Below
<1>5. f \notin D \cup Q
  BY <1>0, <1>2, <1>3, <1>4
<1>6. /\ Chain(Q \cup {f}, my, IF t = 0 THEN f ELSE h) /\ TailOk({}, Q \cup {f}, f)
      /\ Unlinked(D \cup Q \cup {f}, my)
  <2>1. PICK S : S = D \cup Q
    OBVIOUS
  <2>2. Chain(Q, nx, h) /\ TailOk({}, Q, t) /\ Unlinked(S, nx) /\ f \notin S /\ f \in 1 .. RxMax
        /\ \A g \in Q : g \in 1 .. RxMax /\ g \in S /\ g < f
    BY <1>1, <1>2, <1>3, <1>5, <2>1
  <2>3. /\ Chain(Q \cup {f}, my, IF t = 0 THEN f ELSE h) /\ TailOk({}, Q \cup {f}, f)
        /\ Unlinked(S \cup {f}, my)
    <3>1. Linking(Q, f, S, nx, h, t, my)
      BY <2>2 DEF Linking
    <3> QED BY <3>1, Linked
  <2> QED BY <2>1, <2>3
<1>7. Q \cup {f} = O \ (D \cup {} \cup (R \ {f})) /\ D \cup {} \cup (R \ {f}) \subseteq O
  BY <1>1, <1>2, <1>5
<1>8. InTurn(D, {}, Q \cup {f}, R \ {f})
  BY <1>1, <1>2 DEF InTurn, Below
<1>9. D \cup {} \cup (Q \cup {f}) = D \cup Q \cup {f}
  OBVIOUS
<1> QED BY <1>1, <1>6, <1>7, <1>8, <1>9 DEF ListIs

\* from the ring to nowhere,
LEMMA Lost ==
    ASSUME NEW O, NEW D, NEW C, NEW Q, NEW R, NEW nx, NEW h, NEW t, NEW q,
           ListIs(O, D, C, Q, R, nx, h, t, q, RxMax), NEW f \in R, \A g \in R : g = f \/ f < g
    PROVE  ListIs(O \ {f}, D, C, Q, R \ {f}, nx, h, t, q, RxMax)
<1>0. RxMax \in Nat /\ \A g \in 1 .. RxMax : g \in Int
  BY NicAssumption
<1>1. /\ O \subseteq 1 .. RxMax /\ D \cup C \cup R \subseteq O /\ Q = O \ (D \cup C \cup R)
      /\ Below(D, C \cup Q \cup R) /\ Below(C, Q \cup R) /\ Below(Q, R)
  BY DEF ListIs, InTurn
<1>2. \A g \in D \cup C : g < f /\ g # f
  <2>1. \A g \in D \cup C : g < f
    BY <1>1 DEF Below
  <2>2. f \in Int /\ \A g \in D \cup C : g \in Int
    BY <1>0, <1>1
  <2> QED BY <2>1, <2>2
<1>3. Q = (O \ {f}) \ (D \cup C \cup (R \ {f})) /\ D \cup C \cup (R \ {f}) \subseteq O \ {f}
  BY <1>1, <1>2
<1>4. InTurn(D, C, Q, R \ {f})
  BY <1>1 DEF InTurn, Below
<1> QED BY <1>1, <1>3, <1>4 DEF ListIs

\* from its head to the caller,
LEMMA Goes ==
    ASSUME NEW O, NEW D, NEW Q, NEW R, NEW nx, NEW h \in Int, NEW t \in Int, NEW q, h # 0,
           ListIs(O, D, {}, Q, R, nx, h, t, q, RxMax)
    PROVE  ListIs(O, D, {h}, Q \ {h}, R, nx, nx[h], t, q, RxMax)
<1>1. /\ O \subseteq 1 .. RxMax /\ D \cup R \subseteq O /\ Q = O \ (D \cup R) /\ D = Range(q)
      /\ Rising(q) /\ Chain(Q, nx, h) /\ TailOk({}, Q, t) /\ Unlinked(D \cup Q, nx)
      /\ Below(D, Q \cup R) /\ Below(Q, R)
  BY DEF ListIs, InTurn
<1>2. \A g \in Q : g \in 1 .. RxMax
  BY <1>1
<1>3. h \in Q /\ Below({h}, Q \ {h}) /\ Chain(Q \ {h}, nx, nx[h]) /\ TailOk({h}, Q \ {h}, t)
  BY <1>1, <1>2, Unhooked
<1>4. InTurn(D, {h}, Q \ {h}, R)
  <2>1. Below(D, {h} \cup (Q \ {h}) \cup R)
    <3>1. {h} \cup (Q \ {h}) \cup R = Q \cup R
      BY <1>3
    <3> QED BY <1>1, <3>1
  <2>2. Below({h}, (Q \ {h}) \cup R)
    BY <1>1, <1>3 DEF Below
  <2>3. Below(Q \ {h}, R)
    BY <1>1 DEF Below
  <2> QED BY <2>1, <2>2, <2>3 DEF InTurn
<1>5. Q \ {h} = O \ (D \cup {h} \cup R) /\ D \cup {h} \cup R \subseteq O /\ D \cup {h} \cup (Q \ {h}) = D \cup Q
  BY <1>1, <1>3
<1> QED BY <1>1, <1>3, <1>4, <1>5 DEF ListIs

\* and handed out.
LEMMA HandedOver ==
    ASSUME NEW O, NEW D, NEW c, NEW Q, NEW R, NEW nx, NEW h, NEW t, NEW q \in Seq(0 .. RxMax),
           ListIs(O, D, {c}, Q, R, nx, h, t, q, RxMax)
    PROVE  ListIs(O, D \cup {c}, {}, Q, R, nx, h, IF h = 0 THEN 0 ELSE t, Append(q, c), RxMax)
<1>1. /\ O \subseteq 1 .. RxMax /\ D \cup {c} \cup R \subseteq O /\ Q = O \ (D \cup {c} \cup R) /\ D = Range(q)
      /\ Rising(q) /\ Chain(Q, nx, h) /\ TailOk({c}, Q, t) /\ Unlinked(D \cup {c} \cup Q, nx)
      /\ Below(D, {c} \cup Q \cup R) /\ Below({c}, Q \cup R) /\ Below(Q, R)
  BY DEF ListIs, InTurn
<1>2. \A g \in Q : g \in 1 .. RxMax
  BY <1>1
<1>3. TailOk({}, Q, IF h = 0 THEN 0 ELSE t)
  BY <1>1, <1>2, HandedOut
<1>4. InTurn(D \cup {c}, {}, Q, R)
  BY <1>1 DEF InTurn, Below
<1>5. c \in 0 .. RxMax
  <2>1. c \in 1 .. RxMax /\ RxMax \in Nat
    BY <1>1, NicAssumption
  <2> QED BY <2>1
<1>6. PICK A : A = Append(q, c)
  OBVIOUS
<1>7. /\ DOMAIN q = 1 .. Len(q) /\ Len(q) \in Nat /\ DOMAIN A = 1 .. Len(q) + 1 /\ A[Len(q) + 1] = c
      /\ \A i \in 1 .. Len(q) : A[i] = q[i]
  BY <1>5, <1>6
<1>8. Range(A) = D \cup {c}
  <2>1. \A i \in DOMAIN A : i = Len(q) + 1 \/ i \in DOMAIN q
    BY <1>7
  <2>2. Len(q) + 1 \in DOMAIN A /\ \A i \in DOMAIN q : i \in DOMAIN A /\ A[i] = q[i]
    BY <1>7
  <2> QED BY <1>1, <1>7, <2>1, <2>2 DEF Range
<1>9. Rising(A)
  <2> SUFFICES ASSUME NEW i \in DOMAIN A, NEW j \in DOMAIN A, i < j PROVE A[i] < A[j]
    BY DEF Rising
  <2>1. i \in DOMAIN q /\ A[i] = q[i]
    BY <1>7
  <2>2. CASE j = Len(q) + 1
    <3>1. q[i] \in D
      BY <1>1, <2>1 DEF Range
    <3> QED BY <1>1, <1>7, <2>1, <2>2, <3>1 DEF Below
  <2>3. CASE j # Len(q) + 1
    <3>1. j \in DOMAIN q /\ A[j] = q[j]
      BY <1>7, <2>3
    <3> QED BY <1>1, <2>1, <3>1 DEF Rising
  <2> QED BY <2>2, <2>3
<1>10. Q = O \ (D \cup {c} \cup {} \cup R) /\ D \cup {c} \cup {} \cup R \subseteq O /\ D \cup {c} \cup {} \cup Q = D \cup {c} \cup Q
  BY <1>1
<1> QED BY <1>1, <1>3, <1>4, <1>6, <1>8, <1>9, <1>10 DEF ListIs

LEMMA ReceiveStep == ASSUME NicGood, NEW mallocOk \in BOOLEAN, e1000_receive(mallocOk) PROVE NicGood'
<1>s. /\ tx' = tx /\ nicPc' = nicPc /\ linkTold' = linkTold /\ lu' = lu /\ linkUp' = linkUp /\ icr' = icr
      /\ rx.desc[rx.head] # 0
      /\ rx' = [rx EXCEPT !.desc[rx.head] = 0, !.head = (rx.head + 1) % RxRing, !.rdt = rx.head]
  BY DEF e1000_receive, Returned
<1>0. NicTypes /\ RxMax \in Nat /\ RxRing \in Nat \ {0} /\ rx.desc \in [0 .. RxRing - 1 -> Nat] /\ RxRing > 1
  BY NicRings, NicAssumption DEF NicGood
<1>t. /\ rx = [desc |-> rx.desc, head |-> rx.head, rdh |-> rx.rdh, rdt |-> rx.rdt]
      /\ rx.desc \in [0 .. RxRing - 1 -> 0 .. RxMax] /\ rx.head \in 0 .. RxRing - 1
  BY <1>0 DEF NicTypes, RxTypes
<1> PICK d : d = rx.desc
  OBVIOUS
<1> PICK b : b = rx.head
  OBVIOUS
<1> PICK f : f = d[b]
  OBVIOUS
<1> PICK my : my = [d EXCEPT ![b] = 0]
  OBVIOUS
<1> PICK k \in 0 .. RxRing - 1 : RxHolds(k)
  BY DEF NicGood, RxOk
<1>1. /\ d \in [0 .. RxRing - 1 -> Nat] /\ d \in [0 .. RxRing - 1 -> 0 .. RxMax] /\ b \in 0 .. RxRing - 1
      /\ f # 0 /\ f \in 0 .. RxMax
  BY <1>0, <1>s, <1>t
<1>2. rx.rdh = Wrap(b, k, RxRing) /\ Has(d, b, k) /\ (~raced => Rises(d, b, k))
  BY DEF RxHolds
<1> PICK nx : nx = Wrap(b, 1, RxRing)
  OBVIOUS
<1>w. /\ \A i \in 0 .. RxRing - 1 : Wrap(b, i, RxRing) \in 0 .. RxRing - 1
      /\ Wrap(b, 0, RxRing) = b /\ Wrap(b, RxRing, RxRing) = b
      /\ \A i \in 0 .. RxRing - 1 : Wrap(nx, i, RxRing) = Wrap(b, i + 1, RxRing)
  <2>1. /\ \A i \in 0 .. RxRing - 1 : Wrap(b, i, RxRing) \in 0 .. RxRing - 1
        /\ Wrap(b, 0, RxRing) = b /\ Wrap(b, RxRing, RxRing) = b
        /\ \A i \in 0 .. RxRing - 1 : Wrap(Wrap(b, 1, RxRing), i, RxRing) = Wrap(b, i + 1, RxRing)
    BY ZenonT(60), <1>0, <1>1, WrapIs
  <2> QED BY <2>1
<1>3. k \in 1 .. RxRing - 1
  <2>1. k # 0
    <3>1. (d[Wrap(b, 0, RxRing)] # 0) <=> 0 < k
      <4>1. 0 \in 0 .. RxRing - 1
        BY <1>0
      <4> QED BY <1>2, <4>1 DEF Has
    <3> QED BY <1>1, <1>w, <3>1
  <2> QED BY <2>1
<1> PICK k1 : k1 = k - 1
  OBVIOUS
<1>4. /\ my \in [0 .. RxRing - 1 -> Nat] /\ Has(my, nx, k1)
      /\ Rises(d, b, k) =>
                 /\ Rises(my, nx, k1) /\ f \in Ringed(d)
                 /\ Ringed(my) = Ringed(d) \ {f} /\ \A v \in Ringed(my) : f < v
  BY SMTT(60), <1>1, <1>2, <1>3, Drains
<1>5. my \in [0 .. RxRing - 1 -> 0 .. RxMax]
  BY <1>0, <1>1
<1>6. (b + 1) % RxRing = nx /\ nx \in 0 .. RxRing - 1
  <2>1. 1 \in 0 .. RxRing
    BY <1>0
  <2> QED BY <1>0, <1>1, <2>1, ModWrap
<1>7. rx' = [desc |-> my, head |-> nx, rdh |-> rx.rdh, rdt |-> b]
  BY <1>6, <1>s, <1>t, RxIs
<1>8. rx'.desc = my /\ rx'.head = nx /\ rx'.rdh = rx.rdh /\ rx'.rdt = b
  BY <1>7
<1>9. RxTypes'
  BY <1>5, <1>6, <1>7, <1>8 DEF RxTypes
<1>10. RxOk'
  <2>1. ~raced' => ~raced
    BY DEF e1000_receive
  <2>2. k1 \in 0 .. RxRing - 1 /\ k1 + 1 = k /\ RxRing - 1 \in 0 .. RxRing - 1 /\ RxRing - 1 + 1 = RxRing
    BY <1>0, <1>3
  <2>3. Wrap(nx, k1, RxRing) = Wrap(b, k, RxRing) /\ Wrap(nx, RxRing - 1, RxRing) = b
    BY <1>w, <2>2
  <2>4. RxHolds(k1)'
    BY <1>2, <1>4, <1>8, <2>1, <2>3 DEF RxHolds
  <2> QED BY <2>2, <2>4 DEF RxOk
<1>11. TxOk' /\ LinkOk'
  <2>1. net'.accepted = net.accepted /\ net'.sent = net.sent
    <3>1. net = [offered |-> net.offered, taken |-> net.taken, dropped |-> net.dropped, delivered |-> net.delivered,
              accepted |-> net.accepted, sent |-> net.sent]
      BY <1>0 DEF NicTypes, NetTypes
    <3>2. net' = net \/ net' = [net EXCEPT !.dropped = @ \cup {rx.desc[rx.head]}]
      BY DEF e1000_receive
    <3> QED BY <3>1, <3>2
  <2> QED BY <1>s, <2>1, TxFrame, LinkFrame DEF NicGood
<1>12. ASSUME ~raced PROVE /\ net.taken \cup net.dropped \subseteq 1 .. net.offered
             /\ ListIs(Owed, Range(net.delivered), Dequeued, Pending, Ringed(d), rxq.next, rxq.head, rxq.tail, net.delivered, RxMax)
             /\ Ringed(my) = Ringed(d) \ {f} /\ f \in Ringed(d) /\ \A g \in Ringed(d) : g = f \/ f < g
  <2>1. ListOk /\ NetTypes
    BY <1>0, <1>12 DEF NicGood, NicTypes
  <2>2. Ringed(my) = Ringed(d) \ {f} /\ f \in Ringed(d) /\ \A g \in Ringed(my) : f < g
    BY <1>2, <1>4, <1>12
  <2> QED BY <2>1, <2>2, ListTo
<1>13. RxqTypes
  BY <1>0 DEF NicTypes
<1>q. /\ rxq = [next |-> rxq.next, head |-> rxq.head, tail |-> rxq.tail]
      /\ rxq.next \in [1 .. RxMax -> 0 .. RxMax] /\ rxq.head \in 0 .. RxMax /\ rxq.tail \in 0 .. RxMax
  BY <1>13 DEF RxqTypes
<1>14. CASE mallocOk
  <2> PICK h : h = rxq.head
    OBVIOUS
  <2> PICK t : t = rxq.tail
    OBVIOUS
  <2> PICK l : l = rxq.next
    OBVIOUS
  <2> PICK ll : ll = IF t = 0 THEN l ELSE [l EXCEPT ![t] = f]
    OBVIOUS
  <2> PICK hh : hh = IF t = 0 THEN f ELSE h
    OBVIOUS
  <2>1. net' = net /\ raced' = (raced \/ nicPc.deq # 0) /\ rxq' = [rxq EXCEPT !.next = ll, !.head = hh, !.tail = f]
    BY <1>14 DEF e1000_receive, e1000_rx_enqueue
  <2>2. rxq' = [next |-> ll, head |-> hh, tail |-> f]
    BY <1>q, <2>1, RxqIs
  <2>3. rxq'.next = ll /\ rxq'.head = hh /\ rxq'.tail = f
    BY <2>2
  <2>4. NicTypes'
    <3>1. RxqTypes'
      <4>1. ll \in [1 .. RxMax -> 0 .. RxMax] /\ hh \in 0 .. RxMax
        BY <1>1, <1>q
      <4> QED BY <1>1, <2>2, <2>3, <4>1 DEF RxqTypes
    <3>2. NicPcTypes'
      <4>1. raced' \in BOOLEAN
        BY <1>0, <2>1 DEF NicTypes, NicPcTypes
      <4> QED BY <1>0, <1>s, <4>1 DEF NicTypes, NicPcTypes
    <3> QED BY <1>0, <1>9, <1>s, <2>1, <3>1, <3>2, TypesFrame DEF NicTypes
  <2>5. ASSUME ~raced' PROVE ListOk'
    <3>1. ~raced /\ nicPc.deq = 0
      BY <2>1, <2>5
    <3> PICK O : O = Owed
      OBVIOUS
    <3> PICK q : q = net.delivered
      OBVIOUS
    <3> PICK D : D = Range(q)
      OBVIOUS
    <3> PICK Q : Q = Pending
      OBVIOUS
    <3> PICK R : R = Ringed(d)
      OBVIOUS
    <3>2. Dequeued = {}
      BY <3>1 DEF Dequeued
    <3>3. ListIs(O, D, {}, Q, R, l, h, t, q, RxMax) /\ f \in R /\ \A g \in R : g = f \/ f < g
      BY <1>12, <3>1, <3>2
    <3>4. l \in [1 .. RxMax -> Int] /\ h \in Int /\ t \in Int
      BY <1>0, <1>q
    <3>5. ListIs(O, D, {}, Q \cup {f}, R \ {f}, ll, hh, f, q, RxMax)
      <4>1. ListIs(O, D, {}, Q \cup {f}, R \ {f}, ll, IF t = 0 THEN f ELSE h, f, q, RxMax)
        BY <3>3, <3>4, Comes
      <4> QED BY <4>1
    <3>6. Owed' = O /\ Range(net.delivered)' = D /\ Dequeued' = {} /\ net'.delivered = q
      BY <1>s, <2>1, <3>2 DEF Owed, Dequeued
    <3>7. Ringed(rx.desc)' = R \ {f}
      <4>1. Ringed(rx.desc)' = Ringed(my)
        BY <1>8 DEF Ringed
      <4> QED BY <1>12, <3>1, <4>1
    <3>8. Pending' = Q \cup {f}
      <4>1. Q \cup {f} = O \ (D \cup {} \cup (R \ {f}))
        BY <3>5 DEF ListIs
      <4> QED BY <3>6, <3>7, <4>1 DEF Pending
    <3>9. (net.taken \cup net.dropped \subseteq 1 .. net.offered)'
      BY <1>12, <2>1, <3>1
    <3>10. ListIs(Owed, Range(net.delivered), Dequeued, Pending, Ringed(rx.desc), rxq.next, rxq.head, rxq.tail, net.delivered, RxMax)'
      BY <2>3, <3>5, <3>6, <3>7, <3>8
    <3>11. (net.taken \cup net.dropped \subseteq 1 .. net.offered
               /\ ListIs(Owed, Range(net.delivered), Dequeued, Pending, Ringed(rx.desc), rxq.next, rxq.head, rxq.tail,
                         net.delivered, RxMax) => ListOk)'
      BY DEF ListOk, ListIs
    <3> QED BY <3>9, <3>10, <3>11
  <2> QED BY <1>10, <1>11, <2>4, <2>5 DEF NicGood
<1>15. CASE ~mallocOk
  <2>1. net' = [net EXCEPT !.dropped = net.dropped \cup {f}] /\ rxq' = rxq /\ raced' = raced
    BY <1>15 DEF e1000_receive
  <2>n. net = [offered |-> net.offered, taken |-> net.taken, dropped |-> net.dropped, delivered |-> net.delivered,
              accepted |-> net.accepted, sent |-> net.sent] /\ NetTypes
    BY <1>0 DEF NicTypes, NetTypes
  <2>2. net' = [offered |-> net.offered, taken |-> net.taken, dropped |-> net.dropped \cup {f}, delivered |-> net.delivered,
                accepted |-> net.accepted, sent |-> net.sent]
    BY <2>1, <2>n, NetOne
  <2>3. /\ net'.offered = net.offered /\ net'.taken = net.taken /\ net'.dropped = net.dropped \cup {f}
        /\ net'.delivered = net.delivered /\ net'.accepted = net.accepted /\ net'.sent = net.sent
    BY <2>2
  <2>4. NicTypes'
    <3>1. NetTypes'
      BY <2>2, <2>3, <2>n DEF NetTypes
    <3> QED BY <1>0, <1>9, <1>s, <2>1, <3>1, TypesFrame DEF NicTypes
  <2>5. ASSUME ~raced' PROVE ListOk'
    <3>1. ~raced
      BY <2>1, <2>5
    <3> PICK O : O = Owed
      OBVIOUS
    <3> PICK q : q = net.delivered
      OBVIOUS
    <3> PICK D : D = Range(q)
      OBVIOUS
    <3> PICK C : C = Dequeued
      OBVIOUS
    <3> PICK Q : Q = Pending
      OBVIOUS
    <3> PICK R : R = Ringed(d)
      OBVIOUS
    <3>3. ListIs(O, D, C, Q, R, rxq.next, rxq.head, rxq.tail, q, RxMax) /\ f \in R /\ \A g \in R : g = f \/ f < g
      BY <1>12, <3>1
    <3>5. ListIs(O \ {f}, D, C, Q, R \ {f}, rxq.next, rxq.head, rxq.tail, q, RxMax)
      BY <3>3, Lost
    <3>6. Owed' = O \ {f} /\ Range(net.delivered)' = D /\ Dequeued' = C /\ net'.delivered = q
      BY <1>s, <2>3 DEF Owed, Dequeued
    <3>7. Ringed(rx.desc)' = R \ {f}
      <4>1. Ringed(rx.desc)' = Ringed(my)
        BY <1>8 DEF Ringed
      <4> QED BY <1>12, <3>1, <4>1
    <3>8. Pending' = Q
      <4>1. Q = (O \ {f}) \ (D \cup C \cup (R \ {f}))
        BY <3>5 DEF ListIs
      <4> QED BY <3>6, <3>7, <4>1 DEF Pending
    <3>9. (net.taken \cup net.dropped \subseteq 1 .. net.offered)'
      <4>1. f \in O /\ O \subseteq net.taken
        BY <3>3 DEF ListIs, Owed
      <4> QED BY <1>12, <2>3, <3>1, <4>1
    <3>10. ListIs(Owed, Range(net.delivered), Dequeued, Pending, Ringed(rx.desc), rxq.next, rxq.head, rxq.tail, net.delivered, RxMax)'
      BY <2>1, <3>5, <3>6, <3>7, <3>8
    <3>11. (net.taken \cup net.dropped \subseteq 1 .. net.offered
               /\ ListIs(Owed, Range(net.delivered), Dequeued, Pending, Ringed(rx.desc), rxq.next, rxq.head, rxq.tail,
                         net.delivered, RxMax) => ListOk)'
      BY DEF ListOk, ListIs
    <3> QED BY <3>9, <3>10, <3>11
  <2> QED BY <1>10, <1>11, <2>4, <2>5 DEF NicGood
<1> QED BY <1>14, <1>15

LEMMA DequeueStep == ASSUME NicGood, e1000_rx_dequeue PROVE NicGood'
<1>s. /\ rx' = rx /\ tx' = tx /\ net' = net /\ raced' = raced /\ linkTold' = linkTold /\ lu' = lu /\ linkUp' = linkUp /\ icr' = icr
      /\ ~nicPc.irq /\ nicPc.deq = 0 /\ rxq.head # 0
      /\ nicPc' = [nicPc EXCEPT !.deq = rxq.head] /\ rxq' = [rxq EXCEPT !.head = rxq.next[rxq.head]]
  BY DEF e1000_rx_dequeue
<1>0. NicTypes /\ RxMax \in Nat
  BY NicAssumption DEF NicGood
<1>q. /\ rxq = [next |-> rxq.next, head |-> rxq.head, tail |-> rxq.tail]
      /\ rxq.next \in [1 .. RxMax -> 0 .. RxMax] /\ rxq.head \in 0 .. RxMax /\ rxq.tail \in 0 .. RxMax
  BY <1>0 DEF NicTypes, RxqTypes
<1>p. nicPc = [irq |-> nicPc.irq, causes |-> nicPc.causes, deq |-> nicPc.deq] /\ NicPcTypes
  BY <1>0 DEF NicTypes, NicPcTypes
<1> PICK h : h = rxq.head
  OBVIOUS
<1> PICK l : l = rxq.next
  OBVIOUS
<1> PICK t : t = rxq.tail
  OBVIOUS
<1> PICK g : g = l[h]
  OBVIOUS
<1>1. h \in 1 .. RxMax /\ g \in 0 .. RxMax
  BY <1>0, <1>q, <1>s
<1>2. rxq' = [next |-> l, head |-> g, tail |-> t]
  BY <1>q, <1>s, RxqIs
<1>3. nicPc' = [irq |-> nicPc.irq, causes |-> nicPc.causes, deq |-> h]
  BY <1>p, <1>s, NicPcIs
<1>4. rxq'.next = l /\ rxq'.head = g /\ rxq'.tail = t
  BY <1>2
<1>5. nicPc'.irq = nicPc.irq /\ nicPc'.causes = nicPc.causes /\ nicPc'.deq = h
  BY <1>3
<1>6. NicTypes'
  <2>1. RxqTypes'
    BY <1>1, <1>2, <1>4, <1>q DEF RxqTypes
  <2>2. NicPcTypes'
    <3>1. h \in 0 .. RxMax
      BY <1>1
    <3> QED BY <1>3, <1>5, <1>p, <1>s, <3>1 DEF NicPcTypes
  <2> QED BY <1>0, <1>s, <2>1, <2>2, TypesFrame DEF NicTypes
<1>7. RxOk' /\ TxOk'
  BY <1>s, RxFrame, TxFrame DEF NicGood
<1>8. LinkOk'
  BY <1>5, <1>s DEF NicGood, LinkOk
<1>9. ASSUME ~raced' PROVE ListOk'
  <2> PICK O : O = Owed
    OBVIOUS
  <2> PICK q : q = net.delivered
    OBVIOUS
  <2> PICK D : D = Range(q)
    OBVIOUS
  <2> PICK Q : Q = Pending
    OBVIOUS
  <2> PICK R : R = Ringed(rx.desc)
    OBVIOUS
  <2>1. Dequeued = {}
    BY <1>s DEF Dequeued
  <2>2. /\ net.taken \cup net.dropped \subseteq 1 .. net.offered
        /\ ListIs(O, D, {}, Q, R, l, h, t, q, RxMax)
    <3>1. ListOk /\ NetTypes
      BY <1>0, <1>9, <1>s DEF NicGood, NicTypes
    <3> QED BY <2>1, <3>1, ListTo
  <2>3. ListIs(O, D, {h}, Q \ {h}, R, l, g, t, q, RxMax)
    <3>1. h \in Int /\ t \in Int /\ h # 0
      BY <1>0, <1>1, <1>q
    <3>2. ListIs(O, D, {h}, Q \ {h}, R, l, l[h], t, q, RxMax)
      BY <2>2, <3>1, Goes
    <3> QED BY <3>2
  <2>4. Owed' = O /\ Range(net.delivered)' = D /\ net'.delivered = q
    BY <1>s DEF Owed
  <2>5. Dequeued' = {h}
    BY <1>1, <1>5 DEF Dequeued
  <2>6. Ringed(rx.desc)' = R
    BY <1>s DEF Ringed
  <2>7. Pending' = Q \ {h}
    <3>1. Q \ {h} = O \ (D \cup {h} \cup R)
      BY <2>3 DEF ListIs
    <3> QED BY <2>4, <2>5, <2>6, <3>1 DEF Pending
  <2>8. (net.taken \cup net.dropped \subseteq 1 .. net.offered)'
    BY <1>s, <2>2
  <2>9. ListIs(Owed, Range(net.delivered), Dequeued, Pending, Ringed(rx.desc), rxq.next, rxq.head, rxq.tail, net.delivered, RxMax)'
    BY <1>4, <2>3, <2>4, <2>5, <2>6, <2>7
  <2>10. (net.taken \cup net.dropped \subseteq 1 .. net.offered
            /\ ListIs(Owed, Range(net.delivered), Dequeued, Pending, Ringed(rx.desc), rxq.next, rxq.head, rxq.tail,
                      net.delivered, RxMax) => ListOk)'
    BY DEF ListOk, ListIs
  <2> QED BY <2>8, <2>9, <2>10
<1> QED BY <1>6, <1>7, <1>8, <1>9 DEF NicGood

LEMMA DequeueEndsStep == ASSUME NicGood, DequeueEnds PROVE NicGood'
<1>s. /\ rx' = rx /\ tx' = tx /\ raced' = raced /\ linkTold' = linkTold /\ lu' = lu /\ linkUp' = linkUp /\ icr' = icr
      /\ ~nicPc.irq /\ nicPc.deq # 0
      /\ nicPc' = [nicPc EXCEPT !.deq = 0] /\ rxq' = [rxq EXCEPT !.tail = IF rxq.head = 0 THEN 0 ELSE rxq.tail]
      /\ net' = [net EXCEPT !.delivered = Append(net.delivered, nicPc.deq)]
  BY DEF DequeueEnds
<1>0. NicTypes /\ RxMax \in Nat
  BY NicAssumption DEF NicGood
<1>q. /\ rxq = [next |-> rxq.next, head |-> rxq.head, tail |-> rxq.tail]
      /\ rxq.next \in [1 .. RxMax -> 0 .. RxMax] /\ rxq.head \in 0 .. RxMax /\ rxq.tail \in 0 .. RxMax
  BY <1>0 DEF NicTypes, RxqTypes
<1>p. nicPc = [irq |-> nicPc.irq, causes |-> nicPc.causes, deq |-> nicPc.deq] /\ NicPcTypes
  BY <1>0 DEF NicTypes, NicPcTypes
<1>n. net = [offered |-> net.offered, taken |-> net.taken, dropped |-> net.dropped, delivered |-> net.delivered,
              accepted |-> net.accepted, sent |-> net.sent] /\ NetTypes
  BY <1>0 DEF NicTypes, NetTypes
<1> PICK h : h = rxq.head
  OBVIOUS
<1> PICK l : l = rxq.next
  OBVIOUS
<1> PICK t : t = rxq.tail
  OBVIOUS
<1> PICK c : c = nicPc.deq
  OBVIOUS
<1> PICK tt : tt = IF h = 0 THEN 0 ELSE t
  OBVIOUS
<1> PICK q : q = net.delivered
  OBVIOUS
<1>1. q \in Seq(0 .. RxMax) /\ c \in 0 .. RxMax /\ c # 0 /\ Append(q, c) \in Seq(0 .. RxMax)
  <2>1. q \in Seq(0 .. RxMax) /\ c \in 0 .. RxMax /\ c # 0
    BY <1>n, <1>p, <1>s DEF NicPcTypes, NetTypes
  <2> QED BY <2>1
<1>2. rxq' = [next |-> l, head |-> h, tail |-> tt]
  BY <1>q, <1>s, RxqIs
<1>3. nicPc' = [irq |-> nicPc.irq, causes |-> nicPc.causes, deq |-> 0]
  BY <1>p, <1>s, NicPcIs
<1>4. rxq'.next = l /\ rxq'.head = h /\ rxq'.tail = tt
  BY <1>2
<1>5. nicPc'.irq = nicPc.irq /\ nicPc'.causes = nicPc.causes /\ nicPc'.deq = 0
  BY <1>3
<1>a. net' = [offered |-> net.offered, taken |-> net.taken, dropped |-> net.dropped, delivered |-> Append(q, c),
              accepted |-> net.accepted, sent |-> net.sent]
  BY <1>n, <1>s, NetOne
<1>b. /\ net'.offered = net.offered /\ net'.taken = net.taken /\ net'.dropped = net.dropped
      /\ net'.delivered = Append(q, c) /\ net'.accepted = net.accepted /\ net'.sent = net.sent
  BY <1>a
<1>6. NicTypes'
  <2>1. RxqTypes'
    <3>1. tt \in 0 .. RxMax
      BY <1>0, <1>q
    <3> QED BY <1>2, <1>4, <1>q, <3>1 DEF RxqTypes
  <2>2. NicPcTypes'
    <3>1. 0 \in 0 .. RxMax
      BY <1>0
    <3> QED BY <1>3, <1>5, <1>p, <1>s, <3>1 DEF NicPcTypes
  <2>3. NetTypes'
    BY <1>1, <1>a, <1>b, <1>n DEF NetTypes
  <2> QED BY <1>0, <1>s, <2>1, <2>2, <2>3, TypesFrame DEF NicTypes
<1>7. RxOk' /\ TxOk'
  BY <1>b, <1>s, RxFrame, TxFrame DEF NicGood
<1>8. LinkOk'
  BY <1>5, <1>s DEF NicGood, LinkOk
<1>9. ASSUME ~raced' PROVE ListOk'
  <2> PICK O : O = Owed
    OBVIOUS
  <2> PICK D : D = Range(q)
    OBVIOUS
  <2> PICK Q : Q = Pending
    OBVIOUS
  <2> PICK R : R = Ringed(rx.desc)
    OBVIOUS
  <2>1. Dequeued = {c}
    BY <1>1 DEF Dequeued
  <2>2. /\ net.taken \cup net.dropped \subseteq 1 .. net.offered
        /\ ListIs(O, D, {c}, Q, R, l, h, t, q, RxMax)
    <3>1. ListOk /\ NetTypes
      BY <1>0, <1>9, <1>s DEF NicGood, NicTypes
    <3> QED BY <2>1, <3>1, ListTo
  <2>3. ListIs(O, D \cup {c}, {}, Q, R, l, h, tt, Append(q, c), RxMax)
    <3>2. ListIs(O, D \cup {c}, {}, Q, R, l, h, IF h = 0 THEN 0 ELSE t, Append(q, c), RxMax)
      BY <1>1, <2>2, HandedOver
    <3> QED BY <3>2
  <2>4. Owed' = O
    BY <1>b DEF Owed
  <2>d. Range(net.delivered)' = D \cup {c}
    BY <1>b, <2>3 DEF ListIs
  <2>5. Dequeued' = {}
    BY <1>5 DEF Dequeued
  <2>6. Ringed(rx.desc)' = R
    BY <1>s DEF Ringed
  <2>7. Pending' = Q
    <3>1. Q = O \ (D \cup {c} \cup {} \cup R)
      BY <2>3 DEF ListIs
    <3> QED BY <2>4, <2>d, <2>5, <2>6, <3>1 DEF Pending
  <2>8. (net.taken \cup net.dropped \subseteq 1 .. net.offered)'
    BY <1>b, <2>2
  <2>9. ListIs(Owed, Range(net.delivered), Dequeued, Pending, Ringed(rx.desc), rxq.next, rxq.head, rxq.tail, net.delivered, RxMax)'
    BY <1>4, <1>b, <2>3, <2>4, <2>d, <2>5, <2>6, <2>7
  <2>10. (net.taken \cup net.dropped \subseteq 1 .. net.offered
            /\ ListIs(Owed, Range(net.delivered), Dequeued, Pending, Ringed(rx.desc), rxq.next, rxq.head, rxq.tail,
                      net.delivered, RxMax) => ListOk)'
    BY DEF ListOk, ListIs
  <2> QED BY <2>8, <2>9, <2>10
<1> QED BY <1>6, <1>7, <1>8, <1>9 DEF NicGood

\* e1000_init finds the rings empty.
LEMMA NicStarts ==
    ASSUME Fresh, NEW rxOk \in BOOLEAN, NEW txOk \in BOOLEAN, e1000_init(rxOk, txOk)
    PROVE  NicGood' /\ linkTold' = FALSE
<1>s. /\ rx' = e1000_init_rx /\ tx' = e1000_init_tx /\ icr' = {}
      /\ rxq' = [next |-> [f \in 1 .. RxMax |-> 0], head |-> 0, tail |-> 0]
      /\ nicPc' = [irq |-> FALSE, causes |-> {}, deq |-> 0]
      /\ net' = [offered |-> 0, taken |-> {}, dropped |-> {}, delivered |-> <<>>, accepted |-> 0, sent |-> <<>>]
      /\ raced' = FALSE /\ linkTold' = FALSE
  BY DEF Fresh, e1000_init
<1>0. RxMax \in Nat /\ RxRing \in Nat \ {0} /\ RxRing > 1 /\ TxRing \in Nat \ {0}
  BY NicAssumption
<1> PICK d : d = [i \in 0 .. RxRing - 1 |-> 0]
  OBVIOUS
<1> PICK e : e = [i \in 0 .. TxRing - 1 |-> [dd |-> TRUE, frame |-> 0]]
  OBVIOUS
<1>1. rx' = [desc |-> d, head |-> 0, rdh |-> 0, rdt |-> RxRing - 1] /\ tx' = [desc |-> e, tail |-> 0, tdh |-> 0, tdt |-> 0]
  BY <1>s DEF e1000_init_rx, e1000_init_tx
<1>2. /\ rx'.desc = d /\ rx'.head = 0 /\ rx'.rdh = 0 /\ rx'.rdt = RxRing - 1
      /\ tx'.desc = e /\ tx'.tail = 0 /\ tx'.tdh = 0 /\ tx'.tdt = 0
      /\ rxq'.next = [f \in 1 .. RxMax |-> 0] /\ rxq'.head = 0 /\ rxq'.tail = 0
      /\ nicPc'.irq = FALSE /\ nicPc'.causes = {} /\ nicPc'.deq = 0
      /\ net'.offered = 0 /\ net'.taken = {} /\ net'.dropped = {} /\ net'.delivered = <<>>
      /\ net'.accepted = 0 /\ net'.sent = <<>>
  BY <1>1, <1>s
<1>w. /\ \A i \in 0 .. RxRing - 1 : Wrap(0, i, RxRing) = i
      /\ \A i \in 0 .. TxRing - 1 : Wrap(0, i, TxRing) = i
      /\ 0 \in 0 .. RxRing - 1 /\ RxRing - 1 \in 0 .. RxRing - 1 /\ 0 \in 0 .. TxRing - 1 /\ 0 \in 0 .. TxRing /\ 0 \in 0 .. RxMax
  BY <1>0 DEF Wrap
<1>3. NicTypes'
  <2>1. RxTypes' /\ RxqTypes' /\ NicPcTypes'
    BY <1>0, <1>1, <1>2, <1>s, <1>w DEF RxTypes, RxqTypes, NicPcTypes
  <2>2. TxTypes'
    <3>1. [dd |-> TRUE, frame |-> 0] \in TxDesc
      BY DEF TxDesc
    <3> QED BY <1>1, <1>2, <1>w, <3>1 DEF TxTypes
  <2>3. NetTypes'
    BY <1>2, <1>s, <1>w DEF NetTypes
  <2> QED BY <2>1, <2>2, <2>3 DEF NicTypes
<1>4. RxOk'
  <2>1. Has(d, 0, 0) /\ Rises(d, 0, 0)
    BY <1>w DEF Has, Rises
  <2>2. RxHolds(0)'
    BY <1>2, <1>w, <2>1 DEF RxHolds
  <2> QED BY <1>w, <2>2 DEF RxOk
<1>5. TxOk'
  <2>1. Waits(e, 0, 0, 0)
    <3> SUFFICES ASSUME NEW i \in 0 .. TxRing - 1
                 PROVE  ~(i < 0) /\ e[Wrap(0, i, TxRing)].dd = TRUE
      BY DEF Waits
    <3> QED BY <1>w
  <2>2. Len(<<>>) = 0 /\ <<>> = [i \in 1 .. 0 |-> i]
    OBVIOUS
  <2>3. TxHolds(0)'
    BY <1>2, <1>w, <2>1, <2>2 DEF TxHolds
  <2> QED BY <1>w, <2>3 DEF TxOk
<1>6. ListOk'
  <2>1. Owed' = {} /\ Range(net.delivered)' = {} /\ Dequeued' = {} /\ Pending' = {}
    BY <1>2 DEF Owed, Range, Dequeued, Pending
  <2>2. Ringed(rx.desc)' = {}
    BY <1>2 DEF Ringed
  <2>3. Rising(<<>>) /\ InTurn({}, {}, {}, {}) /\ Chain({}, rxq'.next, 0) /\ TailOk({}, {}, 0)
        /\ Unlinked({}, rxq'.next)
    BY <1>2 DEF Rising, InTurn, Below, Chain, Follows, TailOk, Unlinked
  <2> QED BY <1>2, <2>1, <2>2, <2>3 DEF ListOk
<1>7. LinkOk'
  BY <1>2, <1>s DEF LinkOk
<1> QED BY <1>3, <1>4, <1>5, <1>6, <1>7, <1>s DEF NicGood

LEMMA NicStep == ASSUME NicInv, [NicReceive \/ NicSend \/ NicStart]_nicVars PROVE NicInv'
<1>1. CASE UNCHANGED nicVars
  <2>1. /\ rx' = rx /\ tx' = tx /\ rxq' = rxq /\ nicPc' = nicPc /\ net' = net /\ raced' = raced /\ linkTold' = linkTold
        /\ lu' = lu /\ linkUp' = linkUp /\ icr' = icr /\ nicState' = nicState /\ rxOn' = rxOn
    BY <1>1 DEF nicVars
  <2>2. NicGood => NicGood'
    BY <2>1, TypesFrame, RxFrame, TxFrame, LinkFrame, ListFrame DEF NicGood, NicTypes
  <2>3. Fresh => Fresh'
    BY <2>1 DEF Fresh
  <2> QED BY <2>1, <2>2, <2>3 DEF NicInv
<1>2. CASE e1000_shutdown \/ ShutdownEnds
  BY <1>2 DEF e1000_shutdown, ShutdownEnds, NicInv
<1>7. CASE InitEnds
  <2>1. /\ rx' = rx /\ tx' = tx /\ rxq' = rxq /\ nicPc' = nicPc /\ net' = net /\ raced' = raced /\ linkTold' = linkTold
        /\ lu' = lu /\ linkUp' = linkUp /\ icr' = icr /\ nicState' = "ready"
    BY <1>7 DEF InitEnds
  <2>2. NicGood
    BY <1>7 DEF InitEnds, NicInv
  <2>3. NicGood'
    BY <2>1, <2>2, TypesFrame, RxFrame, TxFrame, LinkFrame, ListFrame DEF NicGood, NicTypes
  <2> QED BY <2>1, <2>3 DEF NicInv
<1>3. CASE \E rxOk, txOk \in BOOLEAN : e1000_init(rxOk, txOk)
  <2>1. PICK rxOk \in BOOLEAN, txOk \in BOOLEAN : e1000_init(rxOk, txOk)
    BY <1>3
  <2>2. nicState = "down" /\ nicState' \in {"starting", "failed"}
    BY <2>1 DEF e1000_init
  <2> QED BY <2>1, <2>2, NicStarts DEF NicInv
<1>4. CASE nicState \in {"starting", "ready"} /\ (CardReceives \/ LinkChanges \/ CardSends \/ e1000_irq_handler \/ HandlerEnds \/ e1000_rx_dequeue
                                  \/ DequeueEnds \/ e1000_send \/ \E mallocOk \in BOOLEAN : e1000_receive(mallocOk))
  <2>1. NicGood /\ (e1000_ready \/ linkTold = FALSE)
    BY <1>4 DEF NicInv, e1000_ready
  <2>2. NicGood' /\ (HandlerEnds => e1000_ready \/ linkTold' = FALSE)
    <3> SUFFICES NicGood' /\ (~HandlerEnds \/ e1000_ready \/ linkTold' = FALSE)
      OBVIOUS
    <3>0. HandlerEnds => NicGood' /\ (e1000_ready \/ linkTold' = FALSE)
      BY <2>1, HandlerEndsStep
    <3> SUFFICES NicGood'
      BY <3>0
    <3>1. CASE CardReceives
      BY <2>1, <3>1, CardReceivesStep
    <3>2. CASE LinkChanges
      BY <2>1, <3>2, LinkChangesStep
    <3>3. CASE CardSends
      BY <2>1, <3>3, CardSendsStep
    <3>4. CASE e1000_irq_handler
      BY <2>1, <3>4, IrqStep
    <3>5. CASE HandlerEnds
      BY <3>0, <3>5
    <3>6. CASE e1000_rx_dequeue
      BY <2>1, <3>6, DequeueStep
    <3>7. CASE DequeueEnds
      BY <2>1, <3>7, DequeueEndsStep
    <3>8. CASE e1000_send
      BY <2>1, <3>8, SendStep
    <3>9. CASE \E mallocOk \in BOOLEAN : e1000_receive(mallocOk)
      BY <2>1, <3>9, ReceiveStep
    <3> QED BY <1>4, <3>1, <3>2, <3>3, <3>4, <3>5, <3>6, <3>7, <3>8, <3>9
  <2>3. nicState' = nicState
    BY <1>4 DEF CardReceives, LinkChanges, CardSends, e1000_irq_handler, HandlerEnds, e1000_rx_dequeue,
                DequeueEnds, e1000_send, e1000_receive
  <2>4. nicState = "starting" => linkTold' = FALSE
    <3>1. nicState = "starting" => ~e1000_ready /\ linkTold = FALSE
      BY DEF NicInv, e1000_ready
    <3>2. HandlerEnds \/ linkTold' = linkTold
      BY <1>4 DEF CardReceives, LinkChanges, CardSends, e1000_irq_handler, e1000_rx_dequeue, DequeueEnds,
                  e1000_send, e1000_receive
    <3> QED BY <2>2, <3>1, <3>2
  <2> QED BY <1>4, <2>2, <2>3, <2>4 DEF NicInv
<1>5. CASE nicState \notin {"starting", "ready"} /\ (CardReceives \/ LinkChanges \/ CardSends \/ e1000_irq_handler \/ HandlerEnds \/ e1000_rx_dequeue
                                  \/ DequeueEnds \/ e1000_send \/ \E mallocOk \in BOOLEAN : e1000_receive(mallocOk))
  <2>1. nicState' = nicState
    BY <1>5 DEF CardReceives, LinkChanges, CardSends, e1000_irq_handler, HandlerEnds, e1000_rx_dequeue,
                DequeueEnds, e1000_send, e1000_receive
  <2>2. CASE nicState = "down"
    <3>0. Fresh /\ rxOn = FALSE /\ rxq.head = 0 /\ nicPc.irq = FALSE /\ nicPc.deq = 0
      BY <2>2 DEF NicInv, Fresh
    <3>a. ~CardReceives
      BY <3>0 DEF CardReceives
    <3>b. ~CardSends /\ ~e1000_irq_handler /\ ~e1000_send
      BY <2>2 DEF CardSends, e1000_irq_handler, e1000_send
    <3>c. ~HandlerEnds
      BY <3>0 DEF HandlerEnds
    <3>d. \A mallocOk \in BOOLEAN : ~e1000_receive(mallocOk)
      BY <3>0 DEF e1000_receive
    <3>e. ~e1000_rx_dequeue
      BY <3>0 DEF e1000_rx_dequeue
    <3>f. ~DequeueEnds
      BY <3>0 DEF DequeueEnds
    <3>1. LinkChanges
      BY <1>5, <3>a, <3>b, <3>c, <3>d, <3>e, <3>f, Zenon
    <3>2. Fresh'
      BY <3>0, <3>1 DEF LinkChanges, Fresh
    <3> QED BY <2>1, <2>2, <3>2 DEF NicInv
  <2> QED BY <1>5, <2>1, <2>2 DEF NicInv
<1>6. NicReceive \/ NicSend \/ NicStart =>
        \/ e1000_shutdown \/ ShutdownEnds \/ InitEnds \/ \E rxOk, txOk \in BOOLEAN : e1000_init(rxOk, txOk)
        \/ CardReceives \/ LinkChanges \/ CardSends \/ e1000_irq_handler \/ HandlerEnds \/ e1000_rx_dequeue
        \/ DequeueEnds \/ e1000_send \/ \E mallocOk \in BOOLEAN : e1000_receive(mallocOk)
  BY DEF NicReceive, NicSend, NicStart
<1> QED BY <1>1, <1>2, <1>3, <1>4, <1>5, <1>6, <1>7

\* What waits in the receive ring.
LEMMA InRingIs ==
    ASSUME NicGood, NEW k \in 0 .. RxRing - 1, RxHolds(k)
    PROVE  /\ InRing = [i \in 1 .. k |-> rx.desc[Wrap(rx.head, i - 1, RxRing)]]
           /\ Range(InRing) = Ringed(rx.desc) /\ (~raced => Rising(InRing))
<1>0. /\ RxRing \in Nat \ {0} /\ rx.desc \in [0 .. RxRing - 1 -> Nat] /\ rx.head \in 0 .. RxRing - 1
      /\ Has(rx.desc, rx.head, k)
  BY NicRings DEF NicGood, RxHolds
<1> PICK b : b = rx.head
  OBVIOUS
<1> PICK d : d = rx.desc
  OBVIOUS
<1>1. \A i \in 0 .. RxRing - 1 : (b + i) % RxRing = Wrap(b, i, RxRing)
  <2> SUFFICES ASSUME NEW i \in 0 .. RxRing - 1 PROVE (b + i) % RxRing = Wrap(b, i, RxRing)
    OBVIOUS
  <2>1. i \in 0 .. RxRing /\ b \in 0 .. RxRing - 1
    BY <1>0
  <2> QED BY <1>0, <2>1, ModWrap
<1>2. RxFilled = 0 .. k - 1
  <2>1. \A i \in 0 .. RxRing - 1 : rx.desc[(rx.head + i) % RxRing] # 0 <=> i < k
    BY <1>0, <1>1 DEF Has
  <2>2. \A i \in 0 .. k - 1 : i \in 0 .. RxRing - 1 /\ i < k
    BY <1>0
  <2>3. \A i \in 0 .. RxRing - 1 : i < k => i \in 0 .. k - 1
    OBVIOUS
  <2> QED BY <2>1, <2>2, <2>3 DEF RxFilled
<1>3. Cardinality(RxFilled) = k
  <2>1. Cardinality(0 .. k - 1) = IF 0 > k - 1 THEN 0 ELSE k - 1 - 0 + 1
    BY FS_Interval
  <2> QED BY <1>2, <2>1
<1>4. \A i \in 1 .. k : i - 1 \in 0 .. k - 1 /\ i - 1 \in 0 .. RxRing - 1 /\ (b + i - 1) % RxRing = Wrap(b, i - 1, RxRing)
  <2> SUFFICES ASSUME NEW i \in 1 .. k
               PROVE  i - 1 \in 0 .. k - 1 /\ i - 1 \in 0 .. RxRing - 1 /\ (b + i - 1) % RxRing = Wrap(b, i - 1, RxRing)
    OBVIOUS
  <2>1. i - 1 \in 0 .. k - 1 /\ i - 1 \in 0 .. RxRing - 1 /\ b + i - 1 = b + (i - 1)
    BY <1>0
  <2>2. (b + (i - 1)) % RxRing = Wrap(b, i - 1, RxRing)
    BY <1>1, <2>1
  <2> QED BY <2>1, <2>2
<1>5. InRing = [i \in 1 .. k |-> d[Wrap(b, i - 1, RxRing)]]
  BY <1>3, <1>4 DEF InRing
<1>6. Range(InRing) = Ringed(d)
  <2>1. Ringed(d) = {d[Wrap(b, i, RxRing)] : i \in 0 .. k - 1}
    <3>1. k \in 0 .. RxRing
      BY <1>0
    <3> QED BY SMTT(60), <1>0, <3>1, RingedIs
  <2>2. DOMAIN InRing = 1 .. k /\ \A i \in 1 .. k : InRing[i] = d[Wrap(b, i - 1, RxRing)]
    BY <1>5
  <2>3. \A i \in 0 .. k - 1 : i + 1 \in 1 .. k /\ i + 1 - 1 = i
    OBVIOUS
  <2>4. \A i \in 0 .. k - 1 : InRing[i + 1] = d[Wrap(b, i, RxRing)]
    BY <2>2, <2>3
  <2>5. \A v \in Range(InRing) : v \in Ringed(d)
    BY <1>4, <2>1, <2>2 DEF Range
  <2>6. \A v \in Ringed(d) : v \in Range(InRing)
    <3> SUFFICES ASSUME NEW i \in 0 .. k - 1 PROVE d[Wrap(b, i, RxRing)] \in Range(InRing)
      BY <2>1
    <3>1. i + 1 \in DOMAIN InRing /\ InRing[i + 1] = d[Wrap(b, i, RxRing)]
      BY <2>2, <2>3, <2>4
    <3> QED BY <3>1 DEF Range
  <2> QED BY <2>5, <2>6
<1>7. ASSUME ~raced PROVE Rising(InRing)
  <2>1. Rises(d, b, k)
    BY <1>7 DEF RxHolds
  <2> SUFFICES ASSUME NEW i \in 1 .. k, NEW j \in 1 .. k, i < j PROVE InRing[i] < InRing[j]
    BY <1>5 DEF Rising
  <2>2. i - 1 < j - 1
    OBVIOUS
  <2> QED BY <1>4, <1>5, <2>1, <2>2 DEF Rises
<1> QED BY <1>5, <1>6, <1>7

\* What waits in the transmit ring.
LEMMA UnsentIs ==
    ASSUME NicGood, NEW k \in 0 .. TxRing, TxHolds(k)
    PROVE  Unsent = [i \in 1 .. k |-> Len(net.sent) + i]
<1>0. TxRing \in Nat \ {0} /\ tx.tdh \in 0 .. TxRing - 1 /\ net.sent \in Seq(Nat)
  BY NicRings DEF NicGood, NicTypes, TxTypes, NetTypes
<1> PICK h : h = tx.tdh
  OBVIOUS
<1> PICK t : t = tx.tail
  OBVIOUS
<1> PICK n : n = TxRing
  OBVIOUS
<1> PICK m : m = Len(net.sent)
  OBVIOUS
<1>1. n \in Nat \ {0} /\ h \in 0 .. n - 1 /\ k \in 0 .. n /\ t = Wrap(h, k, n) /\ m \in Nat
  BY <1>0 DEF TxHolds
<1>2. t \in 0 .. n - 1 /\ \A i \in 0 .. n - 1 : Wrap(t, i, n) = Wrap(h, IF i + k < n THEN i + k ELSE i + k - n, n)
  BY SMTT(60), <1>1 DEF Wrap
<1>3. \A i \in 0 .. n - 1 : (t + i) % n = Wrap(t, i, n)
  <2> SUFFICES ASSUME NEW i \in 0 .. n - 1 PROVE (t + i) % n = Wrap(t, i, n)
    OBVIOUS
  <2>1. i \in 0 .. n
    BY <1>1
  <2> QED BY <1>1, <1>2, <2>1, ModWrap
<1>4. \A i \in 0 .. n - 1 : LET e == tx.desc[Wrap(h, i, n)] IN IF i < k THEN e.dd = FALSE /\ e.frame = m + i + 1 ELSE e.dd = TRUE
  <2>1. Waits(tx.desc, h, m, k)
    BY DEF TxHolds
  <2> QED BY <2>1 DEF Waits
<1>5. \A i \in 0 .. n - 1 : ~tx.desc[(t + i) % n].dd <=> i >= n - k
  <2> SUFFICES ASSUME NEW i \in 0 .. n - 1 PROVE ~tx.desc[(t + i) % n].dd <=> i >= n - k
    OBVIOUS
  <2> PICK j : j = IF i + k < n THEN i + k ELSE i + k - n
    OBVIOUS
  <2>1. j \in 0 .. n - 1 /\ (j < k <=> i >= n - k)
    BY <1>1
  <2>2. tx.desc[(t + i) % n] = tx.desc[Wrap(h, j, n)]
    BY <1>2, <1>3
  <2> QED BY <1>4, <2>1, <2>2
<1>6. TxWaiting = n - k .. n - 1
  <2>1. \A i \in n - k .. n - 1 : i \in 0 .. n - 1 /\ i >= n - k
    BY <1>1
  <2>2. \A i \in 0 .. n - 1 : i >= n - k => i \in n - k .. n - 1
    BY <1>1
  <2> QED BY <1>5, <2>1, <2>2 DEF TxWaiting
<1>7. Cardinality(TxWaiting) = k
  <2>1. n - k \in Int /\ n - 1 \in Int
    BY <1>1
  <2>2. Cardinality(n - k .. n - 1) = IF n - k > n - 1 THEN 0 ELSE n - 1 - (n - k) + 1
    BY <2>1, FS_Interval
  <2>3. (IF n - k > n - 1 THEN 0 ELSE n - 1 - (n - k) + 1) = k
    BY <1>1
  <2> QED BY <1>6, <2>2, <2>3
<1>8. \A i \in 1 .. k : tx.desc[(t + n - k + i - 1) % n].frame = m + i
  <2> SUFFICES ASSUME NEW i \in 1 .. k PROVE tx.desc[(t + n - k + i - 1) % n].frame = m + i
    OBVIOUS
  <2> PICK j : j = n - k + i - 1
    OBVIOUS
  <2>1. j \in 0 .. n - 1 /\ t + n - k + i - 1 = t + j /\ j + k - n = i - 1 /\ ~(j + k < n)
    BY <1>1, <1>2
  <2>2. i - 1 \in 0 .. n - 1 /\ i - 1 < k /\ m + (i - 1) + 1 = m + i
    BY <1>1
  <2>3. (t + n - k + i - 1) % n = Wrap(h, i - 1, n)
    BY <1>2, <1>3, <2>1
  <2> QED BY <1>4, <2>2, <2>3
<1> QED BY <1>7, <1>8 DEF Unsent

LEMMA NicGoodShows == ASSUME NicInv PROVE NicInOrder
<1> SUFFICES ASSUME nicState = "ready"
             PROVE  /\ ~raced =>
                          /\ Rising(net.delivered) /\ Rising(InRing)
                          /\ Range(net.delivered) \cup Dequeued \cup Range(InRing) \subseteq Owed
                          /\ Below(Range(net.delivered), Dequeued \cup Queued \cup Range(InRing))
                          /\ Below(Dequeued, Queued \cup Range(InRing)) /\ Below(Queued, Range(InRing))
                          /\ Follows(Queued, 0, rxq.head) /\ \A f \in Queued : Follows(Queued, f, rxq.next[f])
                    /\ InRing = <<>> => rx.rdh # rx.rdt
                    /\ net.sent \o Unsent = [i \in 1 .. net.accepted |-> i]
                    /\ Unsent # <<>> /\ Len(Unsent) < TxRing => tx.tdh # tx.tdt
                    /\ linkTold /\ "LSC" \notin icr \cup nicPc.causes => linkUp = lu
  BY DEF NicInOrder
<1>0. NicGood
  BY DEF NicInv
<1>c. RxRing \in Nat \ {0} /\ RxRing > 1 /\ TxRing \in Nat \ {0}
  BY NicAssumption
<1> PICK k \in 0 .. RxRing - 1 : RxHolds(k)
  BY <1>0 DEF NicGood, RxOk
<1> PICK s \in 0 .. TxRing : TxHolds(s)
  BY <1>0 DEF NicGood, TxOk
<1>1. /\ InRing = [i \in 1 .. k |-> rx.desc[Wrap(rx.head, i - 1, RxRing)]]
      /\ Range(InRing) = Ringed(rx.desc) /\ (~raced => Rising(InRing))
  BY <1>0, InRingIs
<1>2. Unsent = [i \in 1 .. s |-> Len(net.sent) + i]
  BY <1>0, UnsentIs
<1>3. ASSUME ~raced
      PROVE  /\ Rising(net.delivered) /\ Rising(InRing)
             /\ Range(net.delivered) \cup Dequeued \cup Range(InRing) \subseteq Owed
             /\ Below(Range(net.delivered), Dequeued \cup Queued \cup Range(InRing))
             /\ Below(Dequeued, Queued \cup Range(InRing)) /\ Below(Queued, Range(InRing))
             /\ Follows(Queued, 0, rxq.head) /\ \A f \in Queued : Follows(Queued, f, rxq.next[f])
  <2>1. ListOk
    BY <1>0, <1>3 DEF NicGood
  <2>2. Queued = Pending
    BY <1>1 DEF Queued, Pending
  <2> QED BY <1>1, <1>3, <2>1, <2>2 DEF ListOk, InTurn, Chain
<1>4. ASSUME InRing = <<>> PROVE rx.rdh # rx.rdt
  <2>1. k = 0
    <3>1. DOMAIN InRing = 1 .. k /\ DOMAIN <<>> = {}
      BY <1>1
    <3>2. 1 \notin 1 .. k
      BY <1>4, <3>1
    <3> QED BY <3>2
  <2>2. rx.head \in 0 .. RxRing - 1 /\ 0 \in 0 .. RxRing - 1 /\ RxRing - 1 \in 0 .. RxRing - 1 /\ RxRing - 1 # 0
    BY <1>0, <1>c DEF NicGood, NicTypes, RxTypes
  <2>3. \A i, j \in 0 .. RxRing - 1 : Wrap(rx.head, i, RxRing) = Wrap(rx.head, j, RxRing) => i = j
    BY <1>c, <2>2, WrapIs
  <2>4. rx.rdh = Wrap(rx.head, 0, RxRing) /\ rx.rdt = Wrap(rx.head, RxRing - 1, RxRing)
    BY <2>1 DEF RxHolds
  <2> QED BY <2>2, <2>3, <2>4
<1>5. net.sent \o Unsent = [i \in 1 .. net.accepted |-> i]
  <2> PICK m : m = Len(net.sent)
    OBVIOUS
  <2> PICK q : q = net.sent
    OBVIOUS
  <2> PICK u : u = Unsent
    OBVIOUS
  <2>1. m \in Nat /\ q = [i \in 1 .. m |-> i] /\ net.accepted = m + s /\ q \in Seq(Nat) /\ Len(q) = m
    BY <1>0 DEF NicGood, NicTypes, NetTypes, TxHolds
  <2>2. u = [i \in 1 .. s |-> m + i]
    BY <1>2
  <2>3. \A i \in 1 .. s : m + i \in Nat
    BY <2>1
  <2>4. u \in Seq(Nat) /\ Len(u) = s
    BY <2>2, <2>3
  <2> PICK c : c = q \o u
    OBVIOUS
  <2>5. /\ c \in Seq(Nat) /\ Len(c) = m + s
        /\ \A i \in 1 .. m + s : c[i] = IF i <= m THEN q[i] ELSE u[i - m]
    <3>0. q \in Seq(Nat) /\ u \in Seq(Nat)
      BY <2>1, <2>4
    <3>c. q \o u \in Seq(Nat) /\ Len(q \o u) = Len(q) + Len(u)
      BY <3>0, ConcatProperties
    <3>1. c \in Seq(Nat)
      BY <3>c
    <3>2. Len(c) = Len(q) + Len(u)
      BY <3>c
    <3>3. \A i \in 1 .. Len(q) + Len(u) : c[i] = IF i <= Len(q) THEN q[i] ELSE u[i - Len(q)]
      <4>1. \A i \in 1 .. Len(q) + Len(u) : (q \o u)[i] = IF i <= Len(q) THEN q[i] ELSE u[i - Len(q)]
        BY <3>0, ConcatProperties
      <4> QED BY <4>1
    <3> QED BY <2>1, <2>4, <3>1, <3>2, <3>3
  <2>6. \A i \in 1 .. m + s : c[i] = i
    <3> SUFFICES ASSUME NEW i \in 1 .. m + s PROVE c[i] = i
      OBVIOUS
    <3>1. CASE i <= m
      <4>1. i \in 1 .. m
        BY <2>1, <3>1
      <4> QED BY <2>1, <2>5, <3>1, <4>1
    <3>2. CASE ~(i <= m)
      <4>1. i - m \in 1 .. s /\ m + (i - m) = i
        BY <2>1, <3>2
      <4> QED BY <2>2, <2>5, <3>2, <4>1
    <3> QED BY <3>1, <3>2
  <2>7. c = [i \in 1 .. m + s |-> c[i]]
    <3>1. DOMAIN c = 1 .. m + s /\ c = [i \in DOMAIN c |-> c[i]]
      BY <2>5
    <3> QED BY <3>1
  <2> QED BY <2>1, <2>6, <2>7
<1>6. ASSUME Unsent # <<>>, Len(Unsent) < TxRing PROVE tx.tdh # tx.tdt
  <2>1. s # 0
    <3> SUFFICES ASSUME s = 0 PROVE FALSE
      OBVIOUS
    <3>1. [i \in 1 .. 0 |-> Len(net.sent) + i] = <<>>
      OBVIOUS
    <3> QED BY <1>2, <1>6, <3>1
  <2>2. Len(Unsent) = s
    <3>1. \A i \in 1 .. s : Len(net.sent) + i \in Nat
      BY <1>0 DEF NicGood, NicTypes, NetTypes
    <3> QED BY <1>2, <3>1
  <2>3. s \in 0 .. TxRing - 1 /\ 0 \in 0 .. TxRing - 1 /\ tx.tdh \in 0 .. TxRing - 1
    BY <1>0, <1>6, <1>c, <2>2 DEF NicGood, NicTypes, TxTypes
  <2>4. /\ \A i, j \in 0 .. TxRing - 1 : Wrap(tx.tdh, i, TxRing) = Wrap(tx.tdh, j, TxRing) => i = j
        /\ Wrap(tx.tdh, 0, TxRing) = tx.tdh
    BY <1>c, <2>3, WrapIs
  <2>5. tx.tdt = Wrap(tx.tdh, s, TxRing)
    BY DEF TxHolds
  <2> QED BY <2>1, <2>3, <2>4, <2>5
<1>7. linkTold /\ "LSC" \notin icr \cup nicPc.causes => linkUp = lu
  BY <1>0 DEF NicGood, LinkOk
<1> QED BY <1>3, <1>4, <1>5, <1>6, <1>7

\* Every frame taken and kept reaches its caller once and in order unless a dequeue
\* was cut into; a drained ring leaves the card a descriptor; accepted frames are
\* sent in order; and a link interrupt handled with e1000_ready set leaves the link flag right
\* (e1000_irq_handler, e1000_receive, e1000_rx_enqueue, e1000_rx_dequeue, e1000_send).
THEOREM NicInOrderHolds == NicSpec => []NicInOrder
<1>1. NicInit => NicInv
  BY DEF NicInit, NicInv, Fresh
<1>2. NicInv /\ [NicReceive \/ NicSend \/ NicStart]_nicVars => NicInv'
  BY NicStep
<1>3. NicInv => NicInOrder
  BY NicGoodShows
<1> QED BY <1>1, <1>2, <1>3, PTL DEF NicSpec
-----------------------------------------------------------------------------
(***************************************************************************)
(* Input, the mouse: the packets on their way are the bytes the driver has *)
(* put aside followed by those in the controller, and the positions they   *)
(* lead through end where the mouse says it is.                            *)
(***************************************************************************)
Byte == 0 .. 255
Button == 0 .. 7

LEMMA ScreenFacts ==
    /\ Width \in Nat /\ Width > 0 /\ Height \in Nat /\ Height > 0
    /\ Centre \in Screen
    /\ \A at \in Screen, dx, dy \in Int : Moved(at, dx, dy) \in Screen
<1>1. Width \in Nat /\ Width > 0 /\ Height \in Nat /\ Height > 0
  BY InputAssumption
<1>2. Width \div 2 \in 0 .. Width - 1 /\ Height \div 2 \in 0 .. Height - 1
  BY <1>1
<1>3. ASSUME NEW at \in Screen, NEW dx \in Int, NEW dy \in Int
      PROVE  Moved(at, dx, dy) \in Screen
  <2>1. at[1] + dx \in Int /\ at[2] - dy \in Int
    BY <1>1 DEF Screen
  <2>2. \A n \in Int, max \in Nat : Clamp(n, max) \in 0 .. max
    BY DEF Clamp
  <2>3. Clamp(at[1] + dx, Width - 1) \in 0 .. Width - 1 /\ Clamp(at[2] - dy, Height - 1) \in 0 .. Height - 1
    <3>1. Width - 1 \in Nat /\ Height - 1 \in Nat
      BY <1>1
    <3> QED BY <2>1, <2>2, <3>1
  <2> QED BY <2>3 DEF Moved, Screen
<1> QED BY <1>1, <1>2, <1>3 DEF Centre, Screen

\* The first byte of a packet, and what the driver reads from the three.
First(p) == 8 + (IF p.dx < 0 THEN 16 ELSE 0) + (IF p.dy < 0 THEN 32 ELSE 0) + p.buttons

LEMMA PacketFacts ==
    ASSUME NEW p \in Packet
    PROVE  /\ p.dx \in Int /\ p.dy \in Int /\ p.buttons \in Button
           /\ First(p) \in Byte /\ p.dx % 256 \in Byte /\ p.dy % 256 \in Byte
           /\ Synced(First(p)) /\ First(p) % 8 = p.buttons
           /\ Bit(First(p), 16) <=> p.dx < 0
           /\ Bit(First(p), 32) <=> p.dy < 0
           /\ Signed(p.dx % 256, Bit(First(p), 16)) = p.dx
           /\ Signed(p.dy % 256, Bit(First(p), 32)) = p.dy
<1>1. p.dx \in -256 .. 255 /\ p.dy \in -256 .. 255 /\ p.buttons \in 0 .. 7
  BY InputAssumption
<1>2. First(p) \in 8 .. 63
  BY <1>1 DEF First
<1>3. Synced(First(p)) /\ First(p) % 8 = p.buttons /\ (Bit(First(p), 16) <=> p.dx < 0) /\ (Bit(First(p), 32) <=> p.dy < 0)
  <2> DEFINE s == IF p.dx < 0 THEN 1 ELSE 0
             t == IF p.dy < 0 THEN 1 ELSE 0
             b == p.buttons
  <2>1. First(p) = 8 + 16 * s + 32 * t + b /\ s \in 0 .. 1 /\ t \in 0 .. 1 /\ b \in 0 .. 7
    BY <1>1 DEF First
  <2>2. (s = 1 <=> p.dx < 0) /\ (t = 1 <=> p.dy < 0)
    OBVIOUS
  <2> HIDE DEF s, t, b
  <2>3. (8 + 16 * s + 32 * t + b) % 8 = b
    BY <2>1
  <2>4. (8 + 16 * s + 32 * t + b) \div 8 = 1 + 2 * s + 4 * t
    BY <2>1
  <2>5. (8 + 16 * s + 32 * t + b) \div 16 = s + 2 * t
    BY <2>1
  <2>6. (8 + 16 * s + 32 * t + b) \div 32 = t
    BY <2>1
  <2>7. (1 + 2 * s + 4 * t) % 2 = 1 /\ (s + 2 * t) % 2 = s /\ t % 2 = t
    BY <2>1
  <2> QED BY <2>1, <2>2, <2>3, <2>4, <2>5, <2>6, <2>7 DEF Synced, Bit, b
<1>4. \A d \in -256 .. 255 : d % 256 \in Byte /\ (d % 256) - (IF d < 0 THEN 256 ELSE 0) = d
  BY DEF Byte
<1>5. Signed(p.dx % 256, Bit(First(p), 16)) = p.dx /\ Signed(p.dy % 256, Bit(First(p), 32)) = p.dy
  BY <1>1, <1>3, <1>4 DEF Signed
<1> QED BY <1>1, <1>2, <1>3, <1>4, <1>5 DEF Byte, Button
\* The bytes of packets that are on their way: those the driver has put in
\* mouse_bytes, then those in the controller.
Nth(bytes, cycle, aux, j) == IF j <= cycle THEN bytes[j] ELSE aux[j - cycle]
Carries(bytes, cycle, aux, j, p) ==
    /\ Nth(bytes, cycle, aux, j + 1) = First(p)
    /\ Nth(bytes, cycle, aux, j + 2) = p.dx % 256
    /\ Nth(bytes, cycle, aux, j + 3) = p.dy % 256
Transit(bytes, cycle, aux, n, P, X) ==
    /\ n \in Nat /\ P \in [1 .. n -> Packet] /\ X \in [0 .. n -> Screen]
    /\ cycle + Len(aux) = 3 * n
    /\ \A k \in 1 .. n : X[k] = Moved(X[k - 1], P[k].dx, P[k].dy) /\ Carries(bytes, cycle, aux, 3 * (k - 1), P[k])
InTransit ==
    \E n, P, X :
        /\ Transit(mouse_bytes, mouse_cycle, auxBytes, n, P, X)
        /\ X[0] = pointer /\ X[n] = moved.at
        /\ moved.buttons = IF n = 0 THEN mouse_buttons ELSE P[n].buttons

Scene == {"boot", "next"}
\* The screen as far as it is copied and painted.
Painted ==
    /\ painter.pc = "copy" => \A p \in Screen \ painter.left : front[p] = shown
    /\ painter.pc \in {"under", "draw"} => front = [p \in Screen |-> shown]
    /\ painter.pc = "draw" => cursor.under = shown
    /\ ~Painting => /\ front = [p \in Screen |-> IF p = cursor.at THEN "cursor" ELSE shown]
                    /\ cursor.at # <<>> => cursor.under = shown
MouseType ==
    /\ auxBytes \in Seq(Byte) /\ mouse_cycle \in 0 .. 2 /\ mouse_bytes \in [1 .. 3 -> Byte]
    /\ pointer \in Screen /\ moved \in [at : Screen, buttons : Button, sent : Nat]
    /\ cursor = [at |-> cursor.at, under |-> cursor.under] /\ cursor.at \in Screen \cup {<<>>}
    /\ front = [p \in Screen |-> front[p]]
    /\ painter \in [pc : {"away", "copy", "under", "draw", "reset"}, left : SUBSET Screen, at : Screen]
    /\ torn \in [packet : BOOLEAN, screen : BOOLEAN]
MouseInv == MouseType /\ (~torn.packet => InTransit) /\ (~torn.screen => Painted)

LEMMA NoPlace == \A p \in Screen : p # <<>>
BY DEF Screen

LEMMA Thrice ==
    ASSUME NEW n \in Nat, NEW c \in 0 .. 2, NEW l \in Nat, c + l = 3 * n
    PROVE  /\ c + (l + 3) = 3 * (n + 1)
           /\ c = 2 => 0 + (l - 1) = 3 * (n - 1)
OBVIOUS

\* A byte that the driver puts aside leaves what is on its way the same.
LEMMA PutAside ==
    ASSUME NEW bytes \in [1 .. 3 -> Byte], NEW cycle \in 0 .. 1, NEW aux \in Seq(Byte), aux # <<>>,
           NEW n, NEW P, NEW X, Transit(bytes, cycle, aux, n, P, X)
    PROVE  Transit([bytes EXCEPT ![cycle + 1] = Head(aux)], cycle + 1, Tail(aux), n, P, X)
<1> DEFINE bytes1 == [bytes EXCEPT ![cycle + 1] = Head(aux)]
<1>1. Len(aux) \in Nat /\ Len(aux) > 0 /\ Tail(aux) \in Seq(Byte) /\ Len(Tail(aux)) = Len(aux) - 1
  OBVIOUS
<1>2. ASSUME NEW j \in 1 .. cycle + Len(aux)
      PROVE  Nth(bytes1, cycle + 1, Tail(aux), j) = Nth(bytes, cycle, aux, j)
  <2>1. CASE j <= cycle
    BY <2>1 DEF Nth
  <2>2. CASE j = cycle + 1
    BY <2>2 DEF Nth
  <2>3. CASE j > cycle + 1
    BY <1>1, <2>3 DEF Nth
  <2> QED BY <2>1, <2>2, <2>3
<1>3. n \in Nat /\ cycle + Len(aux) = 3 * n
  BY DEF Transit
<1> HIDE DEF bytes1
<1>4. ASSUME NEW k \in 1 .. n, NEW p, Carries(bytes, cycle, aux, 3 * (k - 1), p)
      PROVE  Carries(bytes1, cycle + 1, Tail(aux), 3 * (k - 1), p)
  <2>1. \A i \in 1 .. 3 : 3 * (k - 1) + i \in 1 .. cycle + Len(aux)
    BY <1>3
  <2> QED BY <1>2, <1>4, <2>1 DEF Carries
<1>5. cycle + 1 + Len(Tail(aux)) = 3 * n
  BY <1>1, <1>3
<1>6. Transit(bytes1, cycle + 1, Tail(aux), n, P, X)
  BY <1>4, <1>5 DEF Transit
<1> QED BY <1>6 DEF bytes1

\* The third byte ends the first packet on its way.
LEMMA Arrives ==
    ASSUME NEW bytes \in [1 .. 3 -> Byte], NEW aux \in Seq(Byte), aux # <<>>,
           NEW n, NEW P, NEW X, Transit(bytes, 2, aux, n, P, X)
    PROVE  /\ n > 0 /\ P[1] \in Packet /\ X[1] = Moved(X[0], P[1].dx, P[1].dy)
           /\ bytes[1] = First(P[1]) /\ bytes[2] = P[1].dx % 256 /\ Head(aux) = P[1].dy % 256
           /\ \A bytes1 :
                 Transit(bytes1, 0, Tail(aux), n - 1, [k \in 1 .. n - 1 |-> P[k + 1]], [k \in 0 .. n - 1 |-> X[k + 1]])
<1> DEFINE Q == [k \in 1 .. n - 1 |-> P[k + 1]]
           Y == [k \in 0 .. n - 1 |-> X[k + 1]]
<1> HIDE DEF Q, Y
<1>1. Len(aux) \in Nat /\ Len(aux) > 0 /\ Tail(aux) \in Seq(Byte) /\ Len(Tail(aux)) = Len(aux) - 1
  OBVIOUS
<1>2. n \in Nat /\ 2 + Len(aux) = 3 * n /\ P \in [1 .. n -> Packet] /\ X \in [0 .. n -> Screen]
  BY DEF Transit
<1>3. n > 0 /\ 1 \in 1 .. n
  BY <1>1, <1>2
<1>4. /\ X[1] = Moved(X[0], P[1].dx, P[1].dy) /\ Nth(bytes, 2, aux, 1) = First(P[1])
      /\ Nth(bytes, 2, aux, 2) = P[1].dx % 256 /\ Nth(bytes, 2, aux, 3) = P[1].dy % 256
  <2>1. X[1] = Moved(X[1 - 1], P[1].dx, P[1].dy) /\ Carries(bytes, 2, aux, 3 * (1 - 1), P[1])
    BY <1>3 DEF Transit
  <2>2. 3 * (1 - 1) = 0 /\ 1 - 1 = 0 /\ 0 + 1 = 1 /\ 0 + 2 = 2 /\ 0 + 3 = 3
    OBVIOUS
  <2> QED BY <2>1, <2>2 DEF Carries
<1>5. bytes[1] = First(P[1]) /\ bytes[2] = P[1].dx % 256 /\ Head(aux) = P[1].dy % 256
  BY <1>1, <1>4 DEF Nth
<1>6. Q \in [1 .. n - 1 -> Packet] /\ Y \in [0 .. n - 1 -> Screen] /\ n - 1 \in Nat
  BY <1>2, <1>3 DEF Q, Y
<1>7. 0 + Len(Tail(aux)) = 3 * (n - 1)
  <2>1. 0 + (Len(aux) - 1) = 3 * (n - 1)
    <3>1. 2 \in 0 .. 2 /\ 2 + Len(aux) = 3 * n /\ n \in Nat /\ Len(aux) \in Nat
      BY <1>1, <1>2
    <3> QED BY <3>1, Thrice, Zenon
  <2> QED BY <1>1, <2>1
<1>8. ASSUME NEW bytes1, NEW j \in 4 .. 3 * n PROVE Nth(bytes1, 0, Tail(aux), j - 3) = Nth(bytes, 2, aux, j)
  BY <1>1, <1>2 DEF Nth
<1>9. ASSUME NEW bytes1, NEW k \in 1 .. n - 1
      PROVE  Y[k] = Moved(Y[k - 1], Q[k].dx, Q[k].dy) /\ Carries(bytes1, 0, Tail(aux), 3 * (k - 1), Q[k])
  <2>1. k + 1 \in 1 .. n /\ k \in 0 .. n - 1 /\ k - 1 \in 0 .. n - 1 /\ (k + 1) - 1 = k /\ (k - 1) + 1 = k
    BY <1>2
  <2>2. Q[k] = P[k + 1] /\ Y[k] = X[k + 1] /\ Y[k - 1] = X[k]
    BY <2>1 DEF Q, Y
  <2>3. X[k + 1] = Moved(X[k], P[k + 1].dx, P[k + 1].dy) /\ Carries(bytes, 2, aux, 3 * k, P[k + 1])
    BY <2>1 DEF Transit
  <2>4. \A i \in 1 .. 3 : 3 * k + i \in 4 .. 3 * n /\ (3 * k + i) - 3 = 3 * (k - 1) + i
    BY <1>2, <2>1
  <2>5. Carries(bytes1, 0, Tail(aux), 3 * (k - 1), P[k + 1])
    <3>1. \A i \in 1 .. 3 : Nth(bytes1, 0, Tail(aux), 3 * (k - 1) + i) = Nth(bytes, 2, aux, 3 * k + i)
      BY <1>8, <2>4
    <3> QED BY <2>3, <3>1 DEF Carries
  <2> QED BY <2>2, <2>3, <2>5
<1>10. ASSUME NEW bytes1 PROVE Transit(bytes1, 0, Tail(aux), n - 1, Q, Y)
  BY <1>6, <1>7, <1>9 DEF Transit
<1> QED BY <1>2, <1>3, <1>4, <1>5, <1>10 DEF Q, Y

\* A movement puts three more bytes on their way.
LEMMA Departs ==
    ASSUME NEW bytes \in [1 .. 3 -> Byte], NEW cycle \in 0 .. 2, NEW aux \in Seq(Byte),
           NEW n, NEW P, NEW X, Transit(bytes, cycle, aux, n, P, X), NEW p \in Packet
    PROVE  LET Y == [k \in 0 .. n + 1 |-> IF k <= n THEN X[k] ELSE Moved(X[n], p.dx, p.dy)]
           IN  /\ Transit(bytes, cycle, aux \o <<First(p), p.dx % 256, p.dy % 256>>, n + 1,
                          [k \in 1 .. n + 1 |-> IF k <= n THEN P[k] ELSE p], Y)
               /\ Y[0] = X[0] /\ Y[n + 1] = Moved(X[n], p.dx, p.dy)
<1> DEFINE Q == [k \in 1 .. n + 1 |-> IF k <= n THEN P[k] ELSE p]
           Y == [k \in 0 .. n + 1 |-> IF k <= n THEN X[k] ELSE Moved(X[n], p.dx, p.dy)]
           more == <<First(p), p.dx % 256, p.dy % 256>>
           aux1 == aux \o more
<1> HIDE DEF Q, Y, more, aux1
<1>1. n \in Nat /\ cycle + Len(aux) = 3 * n /\ P \in [1 .. n -> Packet] /\ X \in [0 .. n -> Screen] /\ Len(aux) \in Nat
  BY DEF Transit
<1>2. more \in Seq(Byte) /\ Len(more) = 3 /\ more[1] = First(p) /\ more[2] = p.dx % 256 /\ more[3] = p.dy % 256
  <2>1. First(p) \in Byte /\ p.dx % 256 \in Byte /\ p.dy % 256 \in Byte
    BY PacketFacts
  <2> QED BY <2>1 DEF more
<1>3. /\ Len(aux1) = Len(aux) + 3
      /\ \A i \in 1 .. Len(aux) : aux1[i] = aux[i]
      /\ aux1[Len(aux) + 1] = First(p) /\ aux1[Len(aux) + 2] = p.dx % 256 /\ aux1[Len(aux) + 3] = p.dy % 256
  <2>1. /\ aux1 \in Seq(Byte) /\ Len(aux1) = Len(aux) + Len(more)
        /\ \A i \in 1 .. Len(aux) + Len(more) : aux1[i] = IF i <= Len(aux) THEN aux[i] ELSE more[i - Len(aux)]
    <3>1. more \in Seq(Byte)
      BY <1>2
    <3> QED BY <3>1, ConcatProperties, Zenon DEF aux1
  <2>2. \A i \in 1 .. 3 : aux1[Len(aux) + i] = more[i]
    <3> SUFFICES ASSUME NEW i \in 1 .. 3 PROVE aux1[Len(aux) + i] = more[i]
      OBVIOUS
    <3>1. Len(aux) + i \in 1 .. Len(aux) + Len(more) /\ ~(Len(aux) + i <= Len(aux)) /\ (Len(aux) + i) - Len(aux) = i
      BY <1>1, <1>2
    <3> QED BY <2>1, <3>1, Zenon
  <2> QED BY <1>1, <1>2, <2>1, <2>2
<1>4. Moved(X[n], p.dx, p.dy) \in Screen
  <2>1. p.dx \in Int /\ p.dy \in Int
    BY PacketFacts
  <2>2. X[n] \in Screen
    BY <1>1
  <2> QED BY <2>1, <2>2, ScreenFacts
<1>5. Q \in [1 .. n + 1 -> Packet] /\ Y \in [0 .. n + 1 -> Screen] /\ n + 1 \in Nat
  BY <1>1, <1>4 DEF Q, Y
<1>6. Y[0] = X[0] /\ Y[n + 1] = Moved(X[n], p.dx, p.dy) /\ Q[n + 1] = p /\ Y[n] = X[n]
  BY <1>1 DEF Q, Y
<1>7. cycle + Len(aux1) = 3 * (n + 1)
  <2>1. cycle + (Len(aux) + 3) = 3 * (n + 1)
    BY <1>1, Thrice
  <2> QED BY <1>3, <2>1
<1>8. ASSUME NEW j \in 1 .. 3 * n PROVE Nth(bytes, cycle, aux1, j) = Nth(bytes, cycle, aux, j)
  <2>1. j <= cycle \/ j - cycle \in 1 .. Len(aux)
    BY <1>1
  <2> QED BY <1>3, <2>1 DEF Nth
<1>9. ASSUME NEW k \in 1 .. n + 1
      PROVE  Y[k] = Moved(Y[k - 1], Q[k].dx, Q[k].dy) /\ Carries(bytes, cycle, aux1, 3 * (k - 1), Q[k])
  <2>1. CASE k <= n
    <3>1. k \in 1 .. n /\ k - 1 \in 0 .. n /\ Q[k] = P[k] /\ Y[k] = X[k] /\ Y[k - 1] = X[k - 1]
      BY <1>1, <2>1 DEF Q, Y
    <3>2. X[k] = Moved(X[k - 1], P[k].dx, P[k].dy) /\ Carries(bytes, cycle, aux, 3 * (k - 1), P[k])
      BY <3>1 DEF Transit
    <3>3. \A i \in 1 .. 3 : 3 * (k - 1) + i \in 1 .. 3 * n
      BY <1>1, <3>1
    <3>4. Carries(bytes, cycle, aux1, 3 * (k - 1), P[k])
      BY <1>8, <3>2, <3>3 DEF Carries
    <3> QED BY <3>1, <3>2, <3>4
  <2>2. CASE k = n + 1
    <3>1. k - 1 = n /\ 3 * (k - 1) = cycle + Len(aux)
      BY <1>1, <2>2
    <3>2. \A i \in 1 .. 3 : Nth(bytes, cycle, aux1, cycle + Len(aux) + i) = aux1[Len(aux) + i]
      BY <1>1 DEF Nth
    <3>3. Carries(bytes, cycle, aux1, 3 * (k - 1), p)
      BY <1>3, <3>1, <3>2 DEF Carries
    <3> QED BY <1>6, <2>2, <3>1, <3>3
  <2> QED BY <1>1, <2>1, <2>2
<1>10. Transit(bytes, cycle, aux1, n + 1, Q, Y)
  BY <1>5, <1>7, <1>9 DEF Transit
<1> QED BY <1>6, <1>10 DEF Q, Y, aux1, more

\* The handler takes a byte: of a packet that was not cut the driver makes what
\* the mouse said.
LEMMA MouseByte ==
    ASSUME MouseInv, mouse_handler
    PROVE  MouseInv'
<1> USE DEF MouseInv, MouseType
<1>1. /\ auxBytes \in Seq(Byte) /\ auxBytes # <<>> /\ auxBytes' = Tail(auxBytes) /\ Head(auxBytes) \in Byte
      /\ auxBytes' \in Seq(Byte)
  BY DEF mouse_handler
<1>2. moved' = moved /\ shown' = shown /\ painter' = painter /\ (Painting' <=> Painting)
  BY DEF mouse_handler, Painting
<1>3. CASE mouse_cycle < 2
  <2>1. pointer' = pointer /\ mouse_buttons' = mouse_buttons /\ front' = front /\ cursor' = cursor /\ torn' = torn
    BY <1>3 DEF mouse_handler
  <2>2. mouse_cycle \in 0 .. 1
    BY <1>3
  <2>3. CASE mouse_cycle = 0 /\ ~Synced(Head(auxBytes))
    <3>1. mouse_bytes' = mouse_bytes /\ mouse_cycle' = mouse_cycle
      BY <1>3, <2>3 DEF mouse_handler
    <3>2. MouseType' /\ (~torn.screen => Painted)'
      BY <1>1, <1>2, <2>1, <3>1 DEF Painted, Painting
    <3>3. ASSUME ~torn.packet PROVE FALSE
      <4>1. PICK n, P, X : Transit(mouse_bytes, mouse_cycle, auxBytes, n, P, X)
        BY <3>3 DEF InTransit
      <4>2. n \in Nat /\ P \in [1 .. n -> Packet] /\ Len(auxBytes) = 3 * n /\ Len(auxBytes) > 0
        BY <1>1, <2>3, <4>1 DEF Transit
      <4>3. n > 0 /\ 1 \in 1 .. n
        BY <4>2
      <4>4. Carries(mouse_bytes, mouse_cycle, auxBytes, 3 * (1 - 1), P[1])
        BY <4>1, <4>3 DEF Transit
      <4>5. 3 * (1 - 1) + 1 = 1 /\ ~(1 <= 0) /\ 1 - 0 = 1
        OBVIOUS
      <4>6. First(P[1]) = auxBytes[1]
        BY <2>3, <4>4, <4>5 DEF Carries, Nth
      <4>7. Synced(auxBytes[1])
        <5>1. P[1] \in Packet
          BY <4>2, <4>3
        <5> QED BY <4>6, <5>1, PacketFacts, Zenon
      <4> QED BY <1>1, <2>3, <4>7
    <3> QED BY <2>1, <3>2, <3>3
  <2>4. CASE ~(mouse_cycle = 0 /\ ~Synced(Head(auxBytes)))
    <3>1. mouse_bytes' = [mouse_bytes EXCEPT ![mouse_cycle + 1] = Head(auxBytes)] /\ mouse_cycle' = mouse_cycle + 1
      BY <1>3, <2>4 DEF mouse_handler
    <3>2. mouse_bytes' \in [1 .. 3 -> Byte] /\ mouse_cycle' \in 0 .. 2
      BY <1>1, <2>2, <3>1
    <3>3. MouseType' /\ (~torn.screen => Painted)'
      BY <1>1, <1>2, <2>1, <3>2 DEF Painted, Painting
    <3>4. ASSUME ~torn.packet PROVE InTransit'
      <4>1. PICK n, P, X :
              /\ Transit(mouse_bytes, mouse_cycle, auxBytes, n, P, X)
              /\ X[0] = pointer /\ X[n] = moved.at
              /\ moved.buttons = IF n = 0 THEN mouse_buttons ELSE P[n].buttons
        BY <3>4 DEF InTransit
      <4>2. Transit([mouse_bytes EXCEPT ![mouse_cycle + 1] = Head(auxBytes)], mouse_cycle + 1, Tail(auxBytes), n, P, X)
        BY <1>1, <2>2, <4>1, PutAside
      <4>3. Transit(mouse_bytes', mouse_cycle', auxBytes', n, P, X)
        BY <1>1, <3>1, <4>2
      <4> QED BY <1>2, <2>1, <4>1, <4>3 DEF InTransit
    <3> QED BY <2>1, <3>3, <3>4
  <2> QED BY <2>3, <2>4
<1>4. CASE ~(mouse_cycle < 2)
  <2> DEFINE dx == Signed(mouse_bytes[2], Bit(mouse_bytes[1], 16))
             dy == Signed(Head(auxBytes), Bit(mouse_bytes[1], 32))
  <2>1. /\ mouse_cycle = 2 /\ mouse_cycle' = 0
        /\ mouse_bytes' = [mouse_bytes EXCEPT ![3] = Head(auxBytes)]
        /\ pointer' = Moved(pointer, dx, dy) /\ mouse_buttons' = mouse_bytes[1] % 8
        /\ cursor_draw_front(cursor_erase_front, pointer')
        /\ torn' = [packet |-> torn.packet \/ painter.pc = "reset", screen |-> torn.screen \/ Painting]
    BY <1>4 DEF mouse_handler
  <2>2. dx \in Int /\ dy \in Int
    <3>1. mouse_bytes[2] \in Byte /\ Head(auxBytes) \in Byte
      BY <1>1
    <3>2. mouse_bytes[2] \in Int /\ Head(auxBytes) \in Int
      <4>1. Byte \subseteq Int
        BY DEF Byte
      <4> QED BY <3>1, <4>1, Zenon
    <3> QED BY <3>2 DEF Signed
  <2> HIDE DEF dx, dy
  <2>3. pointer' \in Screen
    BY <2>1, <2>2, ScreenFacts
  <2>4. mouse_bytes' \in [1 .. 3 -> Byte] /\ mouse_cycle' \in 0 .. 2
    BY <1>1, <2>1
  <2>5. /\ torn' \in [packet : BOOLEAN, screen : BOOLEAN]
        /\ torn'.packet = (torn.packet \/ painter.pc = "reset") /\ torn'.screen = (torn.screen \/ Painting)
    <3>1. Painting \in BOOLEAN
      BY DEF Painting
    <3> QED BY <2>1, <3>1
  <2>6. cursor'.at = pointer' /\ cursor'.under = cursor_erase_front[pointer']
        /\ front' = [cursor_erase_front EXCEPT ![pointer'] = "cursor"]
    BY <2>1 DEF cursor_draw_front
  <2>7. cursor_erase_front = [p \in Screen |-> cursor_erase_front[p]]
    BY DEF cursor_erase_front
  <2>8. front' = [p \in Screen |-> IF p = pointer' THEN "cursor" ELSE cursor_erase_front[p]]
    BY <2>6, <2>7
  <2>9. MouseType'
    <3>1. front' = [p \in Screen |-> front'[p]]
      BY <2>8
    <3>2. cursor' = [at |-> cursor'.at, under |-> cursor'.under]
      BY <2>1 DEF cursor_draw_front
    <3> QED BY <1>1, <1>2, <2>3, <2>4, <2>5, <2>6, <3>1, <3>2
  <2>10. ASSUME ~torn'.screen PROVE Painted'
    <3>1. ~torn.screen /\ ~Painting /\ Painted
      BY <2>5, <2>10
    <3>2. \A p \in Screen : cursor_erase_front[p] = shown
      <4> SUFFICES ASSUME NEW p \in Screen PROVE cursor_erase_front[p] = shown
        OBVIOUS
      <4>0. p # <<>>
        BY NoPlace
      <4>1. /\ front = [q \in Screen |-> IF q = cursor.at THEN "cursor" ELSE shown]
            /\ cursor.at # <<>> => cursor.under = shown
        BY <3>1, Zenon DEF Painted
      <4>2. CASE cursor.at = <<>>
        <5>1. cursor_erase_front = front
          BY <4>2 DEF cursor_erase_front
        <5> QED BY <4>0, <4>1, <4>2, <5>1
      <4>3. CASE cursor.at # <<>>
        <5>1. cursor_erase_front = [front EXCEPT ![cursor.at] = cursor.under] /\ cursor.at \in Screen
          BY <4>3 DEF cursor_erase_front
        <5> QED BY <4>1, <4>3, <5>1
      <4> QED BY <4>2, <4>3
    <3>3. front' = [p \in Screen |-> IF p = cursor'.at THEN "cursor" ELSE shown'] /\ cursor'.under = shown'
      <4>1. cursor'.under = shown
        BY <2>3, <2>6, <3>2
      <4>2. front' = [p \in Screen |-> IF p = pointer' THEN "cursor" ELSE shown]
        BY <2>8, <3>2
      <4> QED BY <1>2, <2>6, <4>1, <4>2
    <3> QED BY <1>2, <3>1, <3>3 DEF Painted, Painting
  <2>11. ASSUME ~torn'.packet PROVE InTransit'
    <3>1. PICK n, P, X :
              /\ Transit(mouse_bytes, mouse_cycle, auxBytes, n, P, X)
              /\ X[0] = pointer /\ X[n] = moved.at
              /\ moved.buttons = IF n = 0 THEN mouse_buttons ELSE P[n].buttons
      BY <2>5, <2>11 DEF InTransit
    <3> DEFINE Q == [k \in 1 .. n - 1 |-> P[k + 1]]
               Y == [k \in 0 .. n - 1 |-> X[k + 1]]
    <3>2. /\ n > 0 /\ P[1] \in Packet /\ X[1] = Moved(X[0], P[1].dx, P[1].dy)
          /\ mouse_bytes[1] = First(P[1]) /\ mouse_bytes[2] = P[1].dx % 256 /\ Head(auxBytes) = P[1].dy % 256
          /\ Transit(mouse_bytes', 0, Tail(auxBytes), n - 1, Q, Y)
      <4>1. Transit(mouse_bytes, 2, auxBytes, n, P, X)
        BY <2>1, <3>1
      <4>2. mouse_bytes \in [1 .. 3 -> Byte]
        OBVIOUS
      <4>3. auxBytes \in Seq(Byte) /\ auxBytes # <<>>
        BY <1>1
      <4> HIDE DEF MouseInv, MouseType, Q, Y
      <4>4. Transit(mouse_bytes', 0, Tail(auxBytes), n - 1, Q, Y)
        BY <4>1, <4>2, <4>3, Arrives, SMTT(30) DEF Q, Y
      <4>5. /\ n > 0 /\ P[1] \in Packet /\ X[1] = Moved(X[0], P[1].dx, P[1].dy)
            /\ mouse_bytes[1] = First(P[1]) /\ mouse_bytes[2] = P[1].dx % 256 /\ Head(auxBytes) = P[1].dy % 256
        BY <4>1, <4>2, <4>3, Arrives, SMTT(30)
      <4> QED BY <4>4, <4>5
    <3>3. dx = P[1].dx /\ dy = P[1].dy /\ mouse_buttons' = P[1].buttons
      BY <2>1, <3>2, PacketFacts DEF dx, dy
    <3>4. n \in Nat /\ Y[0] = X[1] /\ Y[n - 1] = X[n]
      <4>1. n \in Nat
        BY <3>1 DEF Transit
      <4>2. 0 \in 0 .. n - 1 /\ n - 1 \in 0 .. n - 1 /\ 0 + 1 = 1 /\ (n - 1) + 1 = n
        BY <3>2, <4>1
      <4> QED BY <4>1, <4>2
    <3>5. n - 1 # 0 => Q[n - 1] = P[n]
      BY <3>2, <3>4
    <3> HIDE DEF Q, Y
    <3>6. Transit(mouse_bytes', mouse_cycle', auxBytes', n - 1, Q, Y)
      BY <1>1, <2>1, <3>2
    <3>7. Y[0] = pointer' /\ Y[n - 1] = moved'.at
      BY <1>2, <2>1, <3>1, <3>2, <3>3, <3>4
    <3>8. moved'.buttons = IF n - 1 = 0 THEN mouse_buttons' ELSE Q[n - 1].buttons
      BY <1>2, <3>1, <3>2, <3>3, <3>4, <3>5
    <3> QED BY <3>6, <3>7, <3>8 DEF InTransit
  <2> QED BY <2>9, <2>10, <2>11
<1> QED BY <1>3, <1>4

LEMMA MouseStarts == MouseInit => MouseInv
<1> SUFFICES ASSUME MouseInit PROVE MouseInv
  OBVIOUS
<1>1. /\ auxBytes = <<>> /\ mouse_cycle = 0 /\ mouse_bytes = <<0, 0, 0>>
      /\ pointer = Centre /\ mouse_buttons = 0
      /\ front = [p \in Screen |-> "boot"] /\ shown = "boot" /\ cursor = [at |-> <<>>, under |-> ""]
      /\ painter = [pc |-> "away", left |-> {}, at |-> Centre] /\ moved = [at |-> Centre, buttons |-> 0, sent |-> 0]
  BY Zenon DEF MouseInit
<1>0. moved.at = Centre /\ moved.buttons = 0 /\ cursor.at = <<>> /\ painter.pc = "away"
      /\ cursor = [at |-> cursor.at, under |-> cursor.under]
  <2>1. /\ moved = [at |-> Centre, buttons |-> 0, sent |-> 0] /\ cursor = [at |-> <<>>, under |-> ""]
        /\ painter = [pc |-> "away", left |-> {}, at |-> Centre]
    BY <1>1
  <2> QED BY <2>1
<1>2. MouseType
  <2>1. \A p \in Screen : front[p] = "boot"
    BY <1>1
  <2>2. moved \in [at : Screen, buttons : Button, sent : Nat]
    <3>1. 0 \in Button /\ Centre \in Screen
      BY ScreenFacts DEF Button
    <3>2. moved = [at |-> Centre, buttons |-> 0, sent |-> 0]
      BY <1>1
    <3> QED BY <3>1, <3>2
  <2>3. torn \in [packet : BOOLEAN, screen : BOOLEAN]
    BY DEF MouseInit
  <2>4. mouse_bytes \in [1 .. 3 -> Byte] /\ auxBytes \in Seq(Byte)
    <3>1. 0 \in Byte
      BY DEF Byte
    <3>2. mouse_bytes = <<0, 0, 0>> /\ auxBytes = <<>>
      BY <1>1
    <3> QED BY <3>1, <3>2
  <2>5. pointer \in Screen /\ mouse_cycle \in 0 .. 2 /\ cursor.at = <<>>
    <3>1. pointer = Centre /\ mouse_cycle = 0
      BY <1>1
    <3> QED BY <1>0, <3>1, ScreenFacts
  <2>6. painter \in [pc : {"away", "copy", "under", "draw", "reset"}, left : SUBSET Screen, at : Screen]
    BY <1>1, ScreenFacts
  <2> QED BY <1>0, <1>1, <2>1, <2>2, <2>3, <2>4, <2>5, <2>6 DEF MouseType
<1>3. InTransit
  <2> DEFINE P == [k \in 1 .. 0 |-> CHOOSE p \in Packet : TRUE]
             X == [k \in 0 .. 0 |-> pointer]
  <2>1. P \in [1 .. 0 -> Packet] /\ X \in [0 .. 0 -> Screen] /\ X[0] = Centre /\ moved.at = Centre /\ moved.buttons = 0
    <3>1. pointer = Centre
      BY <1>1
    <3> QED BY <1>0, <3>1, ScreenFacts
  <2>2. mouse_cycle + Len(auxBytes) = 3 * 0 /\ \A k \in 1 .. 0 : FALSE
    <3>1. mouse_cycle = 0 /\ auxBytes = <<>>
      BY <1>1
    <3> QED BY <3>1
  <2> HIDE DEF P, X
  <2>3. Transit(mouse_bytes, mouse_cycle, auxBytes, 0, P, X)
    BY <2>1, <2>2 DEF Transit
  <2> QED BY <1>1, <2>1, <2>3 DEF InTransit
<1>4. Painted
  <2>1. cursor.at = <<>>
    BY <1>1
  <2>2. front = [p \in Screen |-> IF p = cursor.at THEN "cursor" ELSE shown]
    BY <1>1, <2>1, NoPlace
  <2> QED BY <1>0, <2>1, <2>2 DEF Painted
<1> QED BY <1>2, <1>3, <1>4 DEF MouseInv

LEMMA MouseSteps ==
    ASSUME MouseInv, MouseNext
    PROVE  MouseInv'
<1>0. /\ MouseType /\ auxBytes \in Seq(Byte) /\ mouse_cycle \in 0 .. 2 /\ mouse_bytes \in [1 .. 3 -> Byte]
      /\ pointer \in Screen /\ moved \in [at : Screen, buttons : Button, sent : Nat]
      /\ torn \in [packet : BOOLEAN, screen : BOOLEAN]
      /\ painter \in [pc : {"away", "copy", "under", "draw", "reset"}, left : SUBSET Screen, at : Screen]
      /\ cursor = [at |-> cursor.at, under |-> cursor.under] /\ cursor.at \in Screen \cup {<<>>}
      /\ front = [p \in Screen |-> front[p]]
  BY DEF MouseInv, MouseType
<1>1. ASSUME NEW r \in {"good", "resend", "other"}, mouse_send_cmd(r) PROVE MouseInv'
  BY <1>1 DEF mouse_send_cmd, MouseInv, MouseType, InTransit, Painted, Painting
<1>2. ASSUME NEW p \in Packet, MouseMoves(p) PROVE MouseInv'
  <2>1. /\ moved' = [at |-> Moved(moved.at, p.dx, p.dy), buttons |-> p.buttons, sent |-> moved.sent + 1]
        /\ auxBytes' = auxBytes \o <<First(p), p.dx % 256, p.dy % 256>>
        /\ UNCHANGED <<mouse_cycle, mouse_bytes, pointer, mouse_buttons, front, shown, cursor, painter, torn>>
    BY <1>2 DEF MouseMoves, First
  <2>2. p.dx \in Int /\ p.dy \in Int /\ p.buttons \in Button /\ moved.at \in Screen /\ moved.sent \in Nat
    BY <1>0, PacketFacts
  <2>3. moved' \in [at : Screen, buttons : Button, sent : Nat]
    <3>1. Moved(moved.at, p.dx, p.dy) \in Screen
      BY <2>2, ScreenFacts
    <3> QED BY <2>1, <2>2, <3>1
  <2>4. auxBytes' \in Seq(Byte)
    <3>1. First(p) \in Byte /\ p.dx % 256 \in Byte /\ p.dy % 256 \in Byte
      BY PacketFacts
    <3>2. <<First(p), p.dx % 256, p.dy % 256>> \in Seq(Byte)
      BY <3>1
    <3> QED BY <1>0, <2>1, <3>2, ConcatProperties, Zenon
  <2>5. MouseType'
    BY <1>0, <2>1, <2>3, <2>4 DEF MouseType
  <2>6. (~torn.screen => Painted)'
    BY <2>1 DEF MouseInv, Painted, Painting
  <2>7. ASSUME ~torn.packet PROVE InTransit'
    <3>1. PICK n, P, X :
            /\ Transit(mouse_bytes, mouse_cycle, auxBytes, n, P, X)
            /\ X[0] = pointer /\ X[n] = moved.at
            /\ moved.buttons = IF n = 0 THEN mouse_buttons ELSE P[n].buttons
      BY <2>7 DEF MouseInv, InTransit
    <3> DEFINE Q == [k \in 1 .. n + 1 |-> IF k <= n THEN P[k] ELSE p]
               Y == [k \in 0 .. n + 1 |-> IF k <= n THEN X[k] ELSE Moved(X[n], p.dx, p.dy)]
    <3> HIDE DEF Q, Y
    <3>2. /\ Transit(mouse_bytes, mouse_cycle, auxBytes \o <<First(p), p.dx % 256, p.dy % 256>>, n + 1, Q, Y)
          /\ Y[0] = X[0] /\ Y[n + 1] = Moved(X[n], p.dx, p.dy)
      <4>1. /\ mouse_bytes \in [1 .. 3 -> Byte] /\ mouse_cycle \in 0 .. 2 /\ auxBytes \in Seq(Byte) /\ p \in Packet
            /\ Transit(mouse_bytes, mouse_cycle, auxBytes, n, P, X)
        BY <1>0, <1>2, <3>1
      <4> QED BY <4>1, Departs, SMTT(30) DEF Q, Y
    <3>3. n \in Nat /\ n + 1 # 0 /\ Q[n + 1] = p
      <4>1. n \in Nat
        BY <3>1 DEF Transit
      <4>2. n + 1 \in 1 .. n + 1 /\ ~(n + 1 <= n) /\ n + 1 # 0
        BY <4>1
      <4> QED BY <4>1, <4>2 DEF Q
    <3>4. Transit(mouse_bytes', mouse_cycle', auxBytes', n + 1, Q, Y)
      BY <2>1, <3>2
    <3>5. moved'.at = Moved(moved.at, p.dx, p.dy) /\ moved'.buttons = p.buttons
      BY <2>1
    <3>6. Y[0] = pointer' /\ Y[n + 1] = moved'.at
          /\ moved'.buttons = IF n + 1 = 0 THEN mouse_buttons' ELSE Q[n + 1].buttons
      BY <2>1, <3>1, <3>2, <3>3, <3>5
    <3> QED BY <3>4, <3>6 DEF InTransit
  <2> QED BY <2>1, <2>5, <2>6, <2>7 DEF MouseInv
<1>3. ASSUME NEW scene \in Scene, fb_present(scene) PROVE MouseInv'
  <2>1. /\ painter' = [painter EXCEPT !.pc = "copy", !.left = Screen]
        /\ torn' = [torn EXCEPT !.screen = FALSE]
        /\ UNCHANGED <<auxBytes, mouse_cycle, mouse_bytes, pointer, mouse_buttons, front, cursor, moved>>
    BY <1>3 DEF fb_present
  <2>2. torn' \in [packet : BOOLEAN, screen : BOOLEAN] /\ torn'.packet = torn.packet
    BY <1>0, <2>1
  <2>3. painter' = [pc |-> "copy", left |-> Screen, at |-> painter.at] /\ painter.at \in Screen
    BY <1>0, <2>1
  <2>4. MouseType'
    BY <1>0, <2>1, <2>2, <2>3 DEF MouseType
  <2>5. Painted'
    BY <2>3 DEF Painted, Painting
  <2>6. (~torn.packet => InTransit)'
    BY <2>1, <2>2 DEF MouseInv, InTransit
  <2> QED BY <2>4, <2>5, <2>6 DEF MouseInv
<1>4. CASE mouse_refresh_cursor
  <2>1. UNCHANGED <<auxBytes, mouse_cycle, mouse_bytes, pointer, mouse_buttons, shown, moved, torn>>
    BY <1>4 DEF mouse_refresh_cursor
  <2>2. (~torn.packet => InTransit)'
    BY <2>1 DEF MouseInv, InTransit
  <2>3. CASE painter.pc = "copy"
    <3>1. /\ painter.left = {} /\ front' = front /\ cursor' = [cursor EXCEPT !.at = <<>>]
          /\ painter' = [painter EXCEPT !.pc = "under", !.at = pointer]
      BY <1>4, <2>3 DEF mouse_refresh_cursor
    <3>2. painter' = [pc |-> "under", left |-> painter.left, at |-> pointer] /\ painter.left \in SUBSET Screen
      BY <1>0, <3>1
    <3>3. cursor' = [at |-> <<>>, under |-> cursor.under]
      BY <1>0, <3>1
    <3>4. MouseType'
      BY <1>0, <2>1, <3>1, <3>2, <3>3 DEF MouseType
    <3>5. ASSUME ~torn.screen PROVE Painted'
      <4>1. \A p \in Screen \ {} : front[p] = shown
        BY <2>3, <3>1, <3>5 DEF MouseInv, Painted
      <4>2. front' = [p \in Screen |-> shown']
        BY <1>0, <2>1, <3>1, <4>1
      <4> QED BY <3>2, <4>2 DEF Painted, Painting
    <3> QED BY <2>1, <2>2, <3>4, <3>5 DEF MouseInv
  <2>4. CASE painter.pc = "under"
    <3>1. front' = front /\ cursor' = [cursor EXCEPT !.under = front[painter.at]] /\ painter' = [painter EXCEPT !.pc = "draw"]
      BY <1>4, <2>4 DEF mouse_refresh_cursor
    <3>2. /\ painter' = [pc |-> "draw", left |-> painter.left, at |-> painter.at]
          /\ painter.left \in SUBSET Screen /\ painter.at \in Screen
      BY <1>0, <3>1
    <3>3. cursor' = [at |-> cursor.at, under |-> front[painter.at]]
      BY <1>0, <3>1
    <3>4. MouseType'
      BY <1>0, <2>1, <3>1, <3>2, <3>3 DEF MouseType
    <3>5. ASSUME ~torn.screen PROVE Painted'
      <4>1. front = [p \in Screen |-> shown]
        BY <2>4, <3>5 DEF MouseInv, Painted
      <4> QED BY <2>1, <3>1, <3>2, <3>3, <4>1 DEF Painted, Painting
    <3> QED BY <2>1, <2>2, <3>4, <3>5 DEF MouseInv
  <2>5. CASE painter.pc = "draw"
    <3>1. /\ front' = [front EXCEPT ![painter.at] = "cursor"]
          /\ cursor' = [cursor EXCEPT !.at = painter.at] /\ painter' = [painter EXCEPT !.pc = "away"]
      BY <1>4, <2>5 DEF mouse_refresh_cursor
    <3>2. /\ painter' = [pc |-> "away", left |-> painter.left, at |-> painter.at]
          /\ painter.left \in SUBSET Screen /\ painter.at \in Screen
      BY <1>0, <3>1
    <3>3. cursor' = [at |-> painter.at, under |-> cursor.under]
      BY <1>0, <3>1
    <3>4. front' = [p \in Screen |-> IF p = painter.at THEN "cursor" ELSE front[p]]
      BY <1>0, <3>1, <3>2
    <3>5. MouseType'
      <4>1. front' = [p \in Screen |-> front'[p]]
        BY <3>4
      <4> QED BY <1>0, <2>1, <3>2, <3>3, <4>1 DEF MouseType
    <3>6. ASSUME ~torn.screen PROVE Painted'
      <4>1. front = [p \in Screen |-> shown] /\ cursor.under = shown
        BY <2>5, <3>6 DEF MouseInv, Painted
      <4>2. front' = [p \in Screen |-> IF p = cursor'.at THEN "cursor" ELSE shown'] /\ cursor'.under = shown'
        BY <2>1, <3>3, <3>4, <4>1
      <4> QED BY <3>2, <4>2 DEF Painted, Painting
    <3> QED BY <2>1, <2>2, <3>5, <3>6 DEF MouseInv
  <2> QED BY <1>4, <2>3, <2>4, <2>5 DEF mouse_refresh_cursor
<1>5. CASE mouse_handler
  BY <1>5, MouseByte
<1>6. CASE reset_mouse_position
  <2>1. /\ torn' = [torn EXCEPT !.packet = @ \/ auxBytes # <<>>]
        /\ UNCHANGED <<auxBytes, mouse_buttons, front, shown, cursor>>
    BY <1>6 DEF reset_mouse_position
  <2>2. /\ torn' \in [packet : BOOLEAN, screen : BOOLEAN] /\ torn'.screen = torn.screen
        /\ torn'.packet = (torn.packet \/ auxBytes # <<>>)
    BY <1>0, <2>1
  <2>3. \/ /\ painter.pc = "away" /\ painter' = [painter EXCEPT !.pc = "reset"]
           /\ pointer' = Centre /\ moved' = [moved EXCEPT !.at = Centre]
           /\ UNCHANGED <<mouse_cycle, mouse_bytes>>
        \/ /\ painter.pc = "reset" /\ painter' = [painter EXCEPT !.pc = "away"]
           /\ mouse_cycle' = 0 /\ mouse_bytes' = <<0, 0, 0>>
           /\ UNCHANGED <<pointer, moved>>
    BY <1>6 DEF reset_mouse_position
  <2>4. /\ moved' \in [at : Screen, buttons : Button, sent : Nat] /\ moved'.buttons = moved.buttons
        /\ (pointer = moved.at => pointer' = moved'.at)
    BY <1>0, <2>3, ScreenFacts
  <2>5. mouse_bytes' \in [1 .. 3 -> Byte] /\ mouse_cycle' \in {0, mouse_cycle} /\ pointer' \in Screen
    <3>1. 0 \in Byte
      BY DEF Byte
    <3>2. mouse_bytes' \in [1 .. 3 -> Byte]
      BY <1>0, <2>3, <3>1
    <3> QED BY <1>0, <2>3, <3>2, ScreenFacts
  <2>6. /\ painter' \in [pc : {"away", "copy", "under", "draw", "reset"}, left : SUBSET Screen, at : Screen]
        /\ painter.pc \in {"away", "reset"} /\ painter'.pc \in {"away", "reset"}
    BY <1>0, <2>3
  <2>7. MouseType'
    BY <1>0, <2>1, <2>2, <2>4, <2>5, <2>6 DEF MouseType
  <2>8. (~torn.screen => Painted)'
    BY <2>1, <2>2, <2>6 DEF MouseInv, Painted, Painting
  <2>9. ASSUME ~torn'.packet PROVE InTransit'
    <3>1. ~torn.packet /\ auxBytes = <<>>
      BY <2>2, <2>9
    <3>2. PICK n, P, X :
            /\ Transit(mouse_bytes, mouse_cycle, auxBytes, n, P, X)
            /\ X[0] = pointer /\ X[n] = moved.at
            /\ moved.buttons = IF n = 0 THEN mouse_buttons ELSE P[n].buttons
      BY <3>1 DEF MouseInv, InTransit
    <3>3. n = 0 /\ P \in [1 .. 0 -> Packet] /\ mouse_cycle = 0
      BY <1>0, <3>1, <3>2 DEF Transit
    <3> DEFINE Y == [k \in 0 .. 0 |-> pointer']
    <3>4. Y \in [0 .. 0 -> Screen] /\ Y[0] = pointer'
      BY <2>5
    <3> HIDE DEF Y
    <3>5. mouse_cycle' + Len(auxBytes') = 3 * 0 /\ \A k \in 1 .. 0 : FALSE
      <4>1. mouse_cycle' = 0 /\ auxBytes' = <<>>
        BY <2>1, <2>5, <3>1, <3>3
      <4> QED BY <4>1
    <3>6. Transit(mouse_bytes', mouse_cycle', auxBytes', 0, P, Y)
      BY <3>3, <3>4, <3>5 DEF Transit
    <3>7. Y[0] = pointer' /\ Y[0] = moved'.at /\ moved'.buttons = mouse_buttons'
      BY <2>1, <2>4, <3>2, <3>3, <3>4
    <3> QED BY <3>6, <3>7 DEF InTransit
  <2> QED BY <2>7, <2>8, <2>9 DEF MouseInv
<1>7. CASE CopyPixel
  <2>1. PICK p \in painter.left :
            /\ painter.pc = "copy"
            /\ front' = [front EXCEPT ![p] = shown] /\ painter' = [painter EXCEPT !.left = @ \ {p}]
            /\ UNCHANGED <<auxBytes, mouse_cycle, mouse_bytes, pointer, mouse_buttons, shown, cursor, moved, torn>>
    BY <1>7 DEF CopyPixel
  <2>2. painter' = [pc |-> "copy", left |-> painter.left \ {p}, at |-> painter.at] /\ p \in Screen
    BY <1>0, <2>1
  <2>3. front' = [q \in Screen |-> IF q = p THEN shown ELSE front[q]]
    BY <1>0, <2>1, <2>2
  <2>4. MouseType'
    <3>1. front' = [q \in Screen |-> front'[q]]
      BY <2>3
    <3>2. painter.left \ {p} \in SUBSET Screen /\ painter.at \in Screen
      BY <1>0
    <3> QED BY <1>0, <2>1, <2>2, <3>1, <3>2 DEF MouseType
  <2>5. ASSUME ~torn.screen PROVE Painted'
    <3>1. \A q \in Screen \ painter.left : front[q] = shown
      BY <2>1, <2>5 DEF MouseInv, Painted
    <3>2. \A q \in Screen \ (painter.left \ {p}) : front'[q] = shown'
      BY <2>1, <2>3, <3>1
    <3> QED BY <2>2, <3>2 DEF Painted, Painting
  <2>6. (~torn.packet => InTransit)'
    BY <2>1 DEF MouseInv, InTransit
  <2> QED BY <2>1, <2>4, <2>5, <2>6 DEF MouseInv
<1> QED BY <1>1, <1>2, <1>3, <1>4, <1>5, <1>6, <1>7 DEF MouseNext, Scene

\* What the invariant says when the controller is empty.
LEMMA MouseShows ==
    ASSUME MouseInv
    PROVE  /\ pointer \in Screen
           /\ auxBytes = <<>> /\ ~torn.packet =>
                 mouse_cycle = 0 /\ pointer = moved.at /\ mouse_buttons = moved.buttons
           /\ ~Painting /\ ~torn.screen =>
                 /\ front = [p \in Screen |-> IF p = cursor.at THEN "cursor" ELSE shown]
                 /\ cursor.at # <<>> => cursor.under = shown
<1>1. pointer \in Screen /\ mouse_cycle \in 0 .. 2
  BY DEF MouseInv, MouseType
<1>2. ASSUME auxBytes = <<>>, ~torn.packet
      PROVE  mouse_cycle = 0 /\ pointer = moved.at /\ mouse_buttons = moved.buttons
  <2>1. PICK n, P, X :
          /\ Transit(mouse_bytes, mouse_cycle, auxBytes, n, P, X)
          /\ X[0] = pointer /\ X[n] = moved.at
          /\ moved.buttons = IF n = 0 THEN mouse_buttons ELSE P[n].buttons
    BY <1>2 DEF MouseInv, InTransit
  <2>2. n = 0 /\ mouse_cycle = 0
    BY <1>1, <1>2, <2>1 DEF Transit
  <2> QED BY <2>1, <2>2
<1>3. ASSUME ~Painting, ~torn.screen
      PROVE  /\ front = [p \in Screen |-> IF p = cursor.at THEN "cursor" ELSE shown]
             /\ cursor.at # <<>> => cursor.under = shown
  <2>1. Painted
    BY <1>3 DEF MouseInv
  <2> QED BY <1>3, <2>1, Zenon DEF Painted
<1> QED BY <1>1, <1>2, <1>3

-----------------------------------------------------------------------------
(***************************************************************************)
(* Input, the keyboard: the scan codes in the controller are explained by  *)
(* the keys that were down before each (D) and the characters made before  *)
(* each (M); they start from what the driver knows and end with the keys   *)
(* held now and every due character.                                       *)
(***************************************************************************)
Char == {"", "A", "a", "!", "1", "KEY_UP", "^A"}
Code == {E0} \cup ({"make", "break"} \X KeyName)
Held == KeyName \cup {"shift"}                    \* what down holds
Unmapped == Modifier \cup Extended0 \cup {"shift"} \* what key_state never holds

LEMMA DecodedType == ASSUME NEW k, NEW s, NEW c PROVE Decoded(k, s, c) \in Char
BY DEF Decoded, scancode_map, Char

LEMMA CodeFacts ==
    ASSUME NEW b \in Code, b # E0
    PROVE  b[1] \in {"make", "break"} /\ b[2] \in KeyName /\ b = <<b[1], b[2]>>
BY DEF Code

LEMMA SetsFacts ==
    ASSUME NEW k \in KeyName
    PROVE  /\ Sets(k) \in SUBSET Held /\ k # "shift"
           /\ k \in Shift => Sets(k) = {k, "shift"}
           /\ k \notin Shift => Sets(k) = {k}
<1>1. k # "shift"
  BY InputAssumption
<1> QED BY <1>1 DEF Sets, Held

LEMMA CodeMade ==
    ASSUME NEW x \in {"make", "break"}, NEW k \in KeyName
    PROVE  <<x, k>> \in Code /\ <<x, k>> # E0 /\ <<x, k>>[1] = x /\ <<x, k>>[2] = k
<1>1. <<x, k>>[1] = x /\ E0[1] = "e0" /\ x # "e0"
  BY DEF E0
<1> QED BY <1>1 DEF Code

\* The ring of key_buffer.
BufferSlot == 0 .. KbdSize - 1
RingOf(buf, h, t) == [i \in 1 .. (h - t + KbdSize) % KbdSize |-> buf[(t + i - 1) % KbdSize]]

LEMMA RingSize ==
    ASSUME NEW h \in BufferSlot, NEW t \in BufferSlot
    PROVE  /\ KbdSize \in Nat \ {0} /\ h \in Nat /\ t \in Nat /\ h < KbdSize /\ t < KbdSize
           /\ (h - t + KbdSize) % KbdSize = IF h >= t THEN h - t ELSE h - t + KbdSize
           /\ (h + 1) % KbdSize = IF h + 1 = KbdSize THEN 0 ELSE h + 1
           /\ (h + 1) % KbdSize \in BufferSlot
<1>1. KbdSize \in Nat \ {0} /\ h \in Nat /\ t \in Nat /\ h < KbdSize /\ t < KbdSize
  BY InputAssumption DEF BufferSlot
<1>2. ASSUME h >= t PROVE (h - t + KbdSize) % KbdSize = h - t
  <2>1. h - t \in 0 .. KbdSize - 1 /\ KbdSize \in 0 .. KbdSize
    BY <1>1, <1>2
  <2>2. (h - t + KbdSize) % KbdSize = Wrap(h - t, KbdSize, KbdSize)
    BY <1>1, <2>1, ModWrap, Zenon
  <2> QED BY <1>1, <1>2, <2>2 DEF Wrap
<1>3. ASSUME h < t PROVE (h - t + KbdSize) % KbdSize = h - t + KbdSize
  <2>1. h - t + KbdSize \in 0 .. KbdSize - 1 /\ 0 \in 0 .. KbdSize /\ h - t + KbdSize + 0 = h - t + KbdSize
    BY <1>1, <1>3
  <2>2. (h - t + KbdSize + 0) % KbdSize = Wrap(h - t + KbdSize, 0, KbdSize)
    BY <1>1, <2>1, ModWrap, Zenon
  <2> QED BY <1>1, <1>3, <2>1, <2>2 DEF Wrap
<1>4. (h + 1) % KbdSize = Wrap(h, 1, KbdSize)
  <2>1. h \in 0 .. KbdSize - 1 /\ 1 \in 0 .. KbdSize
    BY <1>1
  <2> QED BY <1>1, <2>1, ModWrap, Zenon
<1>5. (h + 1) % KbdSize = (IF h + 1 = KbdSize THEN 0 ELSE h + 1) /\ (h + 1) % KbdSize \in BufferSlot
  BY <1>1, <1>4 DEF Wrap, BufferSlot
<1>6. h >= t \/ h < t
  BY <1>1
<1>7. (h - t + KbdSize) % KbdSize = IF h >= t THEN h - t ELSE h - t + KbdSize
  BY <1>2, <1>3, <1>6
<1> QED BY <1>1, <1>5, <1>7

LEMMA RingType ==
    ASSUME NEW buf \in [BufferSlot -> Char], NEW h \in BufferSlot, NEW t \in BufferSlot
    PROVE  /\ RingOf(buf, h, t) \in Seq(Char)
           /\ Len(RingOf(buf, h, t)) = IF h >= t THEN h - t ELSE h - t + KbdSize
           /\ \A i \in 1 .. Len(RingOf(buf, h, t)) :
                 RingOf(buf, h, t)[i] = buf[Wrap(t, i - 1, KbdSize)] /\ Wrap(t, i - 1, KbdSize) \in BufferSlot
<1> DEFINE n == (h - t + KbdSize) % KbdSize
<1>1. n \in 0 .. KbdSize - 1 /\ n = (IF h >= t THEN h - t ELSE h - t + KbdSize) /\ KbdSize \in Nat \ {0}
      /\ t \in 0 .. KbdSize - 1
  <2>1. KbdSize \in Nat \ {0} /\ h \in Nat /\ t \in Nat /\ h < KbdSize /\ t < KbdSize
    BY RingSize
  <2>2. n = IF h >= t THEN h - t ELSE h - t + KbdSize
    BY RingSize
  <2> HIDE DEF n
  <2> QED BY <2>1, <2>2
<1> HIDE DEF n
<1>2. ASSUME NEW i \in 1 .. n
      PROVE  (t + i - 1) % KbdSize = Wrap(t, i - 1, KbdSize) /\ Wrap(t, i - 1, KbdSize) \in BufferSlot
  <2>1. i - 1 \in 0 .. KbdSize /\ t + i - 1 = t + (i - 1)
    BY <1>1
  <2>2. (t + (i - 1)) % KbdSize = Wrap(t, i - 1, KbdSize) /\ Wrap(t, i - 1, KbdSize) \in 0 .. KbdSize - 1
    BY <1>1, <2>1, ModWrap, Zenon
  <2> QED BY <2>1, <2>2 DEF BufferSlot
<1>3. RingOf(buf, h, t) = [i \in 1 .. n |-> buf[(t + i - 1) % KbdSize]]
  BY DEF RingOf, n
<1>4. n \in Nat
  BY <1>1
<1>5. RingOf(buf, h, t) = [i \in 1 .. n |-> buf[Wrap(t, i - 1, KbdSize)]]
  BY <1>2, <1>3
<1>6. RingOf(buf, h, t) \in Seq(Char) /\ Len(RingOf(buf, h, t)) = n
  BY <1>2, <1>4, <1>5
<1> QED BY <1>1, <1>2, <1>5, <1>6

LEMMA RingPut ==
    ASSUME NEW buf \in [BufferSlot -> Char], NEW h \in BufferSlot, NEW t \in BufferSlot, NEW c \in Char,
           (h + 1) % KbdSize # t
    PROVE  RingOf([buf EXCEPT ![h] = c], (h + 1) % KbdSize, t) = Append(RingOf(buf, h, t), c)
<1> DEFINE h1 == (h + 1) % KbdSize
           buf1 == [buf EXCEPT ![h] = c]
           old == RingOf(buf, h, t)
           new == RingOf(buf1, h1, t)
<1>1. h1 \in BufferSlot /\ h1 = (IF h + 1 = KbdSize THEN 0 ELSE h + 1) /\ buf1 \in [BufferSlot -> Char]
  BY RingSize
<1>2. KbdSize \in Nat /\ h \in Nat /\ t \in Nat /\ h < KbdSize /\ t < KbdSize /\ h1 # t
  BY RingSize
<1> HIDE DEF h1, buf1, old, new
<1>3. /\ new \in Seq(Char) /\ Len(new) = IF h1 >= t THEN h1 - t ELSE h1 - t + KbdSize
      /\ \A i \in 1 .. Len(new) :
            new[i] = buf1[Wrap(t, i - 1, KbdSize)] /\ Wrap(t, i - 1, KbdSize) \in BufferSlot
  BY <1>1, RingType DEF new
<1>4. /\ old \in Seq(Char) /\ Len(old) = IF h >= t THEN h - t ELSE h - t + KbdSize
      /\ \A i \in 1 .. Len(old) : old[i] = buf[Wrap(t, i - 1, KbdSize)]
  BY RingType DEF old
<1>5. Len(new) = Len(old) + 1
  BY <1>1, <1>2, <1>3, <1>4
<1>6. /\ Append(old, c) \in Seq(Char) /\ Len(Append(old, c)) = Len(old) + 1
      /\ \A i \in 1 .. Len(old) : Append(old, c)[i] = old[i]
      /\ Append(old, c)[Len(old) + 1] = c
  BY <1>4, AppendProperties
<1>7. ASSUME NEW i \in 1 .. Len(new) PROVE new[i] = Append(old, c)[i]
  <2>1. CASE i <= Len(old)
    <3>1. Wrap(t, i - 1, KbdSize) # h
      BY <1>2, <1>3, <1>4, <2>1 DEF Wrap
    <3>2. buf1[Wrap(t, i - 1, KbdSize)] = buf[Wrap(t, i - 1, KbdSize)]
      BY <1>3, <3>1 DEF buf1
    <3>3. i \in 1 .. Len(old)
      BY <1>4, <2>1
    <3> QED BY <1>3, <1>4, <1>6, <3>2, <3>3
  <2>2. CASE i = Len(old) + 1
    <3>1. Wrap(t, i - 1, KbdSize) = h
      BY <1>2, <1>3, <1>4, <2>2 DEF Wrap
    <3> QED BY <1>3, <1>6, <2>2, <3>1 DEF buf1
  <2> QED BY <1>4, <1>5, <2>1, <2>2
<1>8. new = Append(old, c)
  BY <1>3, <1>5, <1>6, <1>7, SeqEqual
<1> QED BY <1>8 DEF new, old, h1, buf1

LEMMA WrapAfter ==
    ASSUME NEW n \in Nat, NEW t \in Nat, t < n, NEW t1, t1 = IF t + 1 = n THEN 0 ELSE t + 1, NEW j \in 1 .. n - 1
    PROVE  Wrap(t1, j - 1, n) = Wrap(t, j, n)
BY DEF Wrap

LEMMA RingTake ==
    ASSUME NEW buf \in [BufferSlot -> Char], NEW h \in BufferSlot, NEW t \in BufferSlot, h # t
    PROVE  RingOf(buf, h, t) = <<buf[t]>> \o RingOf(buf, h, (t + 1) % KbdSize)
<1> DEFINE t1 == (t + 1) % KbdSize
           old == RingOf(buf, h, t)
           new == RingOf(buf, h, t1)
<1>1. t1 \in BufferSlot /\ t1 = (IF t + 1 = KbdSize THEN 0 ELSE t + 1) /\ buf[t] \in Char
  BY RingSize
<1>2. KbdSize \in Nat /\ h \in Nat /\ t \in Nat /\ h < KbdSize /\ t < KbdSize
  BY RingSize
<1> HIDE DEF t1, old, new
<1>3. /\ new \in Seq(Char) /\ Len(new) = IF h >= t1 THEN h - t1 ELSE h - t1 + KbdSize
      /\ \A i \in 1 .. Len(new) :
            new[i] = buf[Wrap(t1, i - 1, KbdSize)]
  BY <1>1, RingType DEF new
<1>4. /\ old \in Seq(Char) /\ Len(old) = IF h >= t THEN h - t ELSE h - t + KbdSize
      /\ \A i \in 1 .. Len(old) :
            old[i] = buf[Wrap(t, i - 1, KbdSize)]
  BY RingType DEF old
<1>5. Len(old) = Len(new) + 1
  BY <1>1, <1>2, <1>3, <1>4
<1> DEFINE one == <<buf[t]>>
           all == one \o new
<1>6. one \in Seq(Char) /\ Len(one) = 1 /\ one[1] = buf[t]
  BY <1>1
<1> HIDE DEF one
<1>7. /\ all \in Seq(Char) /\ Len(all) = Len(one) + Len(new)
      /\ \A i \in 1 .. Len(one) + Len(new) : all[i] = IF i <= Len(one) THEN one[i] ELSE new[i - Len(one)]
  BY <1>3, <1>6, ConcatProperties, Zenon
<1> HIDE DEF all
<1>8. ASSUME NEW i \in 1 .. Len(old) PROVE old[i] = all[i]
  <2>1. CASE i = 1
    <3>1. Wrap(t, i - 1, KbdSize) = t
      BY <1>2, <1>4, <2>1 DEF Wrap
    <3> QED BY <1>3, <1>4, <1>5, <1>6, <1>7, <2>1, <3>1
  <2>2. CASE i # 1
    <3>1. i - 1 \in 1 .. Len(new) /\ i \in 1 .. Len(one) + Len(new) /\ ~(i <= Len(one)) /\ i - Len(one) = i - 1
      BY <1>3, <1>5, <1>6, <2>2
    <3>2. Wrap(t1, (i - 1) - 1, KbdSize) = Wrap(t, i - 1, KbdSize)
      <4>1. i - 1 \in 1 .. KbdSize - 1
        BY <1>2, <1>4, <2>2
      <4> QED BY <1>1, <1>2, <4>1, WrapAfter
    <3>3. all[i] = new[i - 1]
      BY <1>7, <3>1
    <3> QED BY <1>3, <1>4, <3>1, <3>2, <3>3
  <2> QED BY <2>1, <2>2
<1>9. old = all
  <2>1. Len(old) = Len(all)
    BY <1>3, <1>4, <1>5, <1>6, <1>7
  <2> QED BY <1>4, <1>7, <1>8, <2>1, SeqEqual
<1> QED BY <1>9 DEF old, all, one, new, t1

\* What was read and is buffered: the first made characters that were due,
\* without those that a full buffer refused.
Refused(lost, i) == Cardinality({j \in lost : j <= i})
Kept(due, made, lost, read) ==
    /\ made \in 0 .. Len(due) /\ lost \subseteq 1 .. made
    /\ Len(read) = made - Refused(lost, made)
    /\ \A i \in (1 .. made) \ lost :
          i - Refused(lost, i) \in 1 .. Len(read) /\ read[i - Refused(lost, i)] = due[i]

LEMMA RefusedFacts ==
    ASSUME NEW made \in Nat, NEW lost \in SUBSET (1 .. made)
    PROVE  /\ \A i \in Nat : Refused(lost, i) \in Nat
           /\ Refused(lost, made + 1) = Refused(lost, made)
           /\ \A i \in 1 .. made : Refused(lost \cup {made + 1}, i) = Refused(lost, i)
           /\ Refused(lost \cup {made + 1}, made + 1) = Refused(lost, made) + 1
<1>1. IsFiniteSet(1 .. made)
  BY FS_Interval
<1>2. ASSUME NEW i \in Nat PROVE Refused(lost, i) \in Nat
  <2>1. {j \in lost : j <= i} \subseteq 1 .. made
    OBVIOUS
  <2>2. IsFiniteSet({j \in lost : j <= i})
    BY <1>1, <2>1, FS_Subset, Zenon
  <2> QED BY <2>2, FS_CardinalityType, Zenon DEF Refused
<1>3. {j \in lost : j <= made + 1} = lost /\ {j \in lost : j <= made} = lost
  <2>1. \A j \in lost : j <= made + 1 /\ j <= made
    OBVIOUS
  <2> QED BY <2>1, Zenon
<1>4. ASSUME NEW i \in 1 .. made PROVE Refused(lost \cup {made + 1}, i) = Refused(lost, i)
  <2>1. {j \in lost \cup {made + 1} : j <= i} = {j \in lost : j <= i}
    OBVIOUS
  <2> QED BY <2>1, Zenon DEF Refused
<1>5. Refused(lost \cup {made + 1}, made + 1) = Refused(lost, made) + 1
  <2>1. {j \in lost \cup {made + 1} : j <= made + 1} = lost \cup {made + 1}
    <3>1. \A j \in lost \cup {made + 1} : j <= made + 1
      OBVIOUS
    <3> QED BY <3>1, Zenon
  <2>2. IsFiniteSet(lost)
    BY <1>1, FS_Subset, Zenon
  <2>3. made + 1 \notin lost
    OBVIOUS
  <2>4. Cardinality(lost \cup {made + 1}) = Cardinality(lost) + 1
    BY <2>2, <2>3, FS_AddElement
  <2> QED BY <1>3, <2>1, <2>4, Zenon DEF Refused
<1>6. Refused(lost, made + 1) = Refused(lost, made)
  BY <1>3, Zenon DEF Refused
<1> QED BY <1>2, <1>4, <1>5, <1>6

LEMMA KeptGets ==
    ASSUME NEW due \in Seq(Char), NEW made, NEW lost, NEW read \in Seq(Char), Kept(due, made, lost, read),
           made + 1 \in DOMAIN due
    PROVE  Kept(due, made + 1, lost, Append(read, due[made + 1]))
<1> DEFINE more == Append(read, due[made + 1])
<1>1. made \in Nat /\ lost \in SUBSET (1 .. made) /\ made + 1 \in 1 .. Len(due) /\ due[made + 1] \in Char
      /\ Len(read) \in Nat /\ Len(due) \in Nat
  BY DEF Kept
<1>2. /\ more \in Seq(Char) /\ Len(more) = Len(read) + 1 /\ more[Len(read) + 1] = due[made + 1]
      /\ \A i \in 1 .. Len(read) : more[i] = read[i]
  BY <1>1, AppendProperties
<1> HIDE DEF more
<1>3. Refused(lost, made + 1) = Refused(lost, made) /\ Refused(lost, made) \in Nat
  BY <1>1, RefusedFacts
<1>4. Len(read) = made - Refused(lost, made)
  BY DEF Kept
<1>5. Len(more) = (made + 1) - Refused(lost, made + 1)
  BY <1>1, <1>2, <1>3, <1>4
<1>6. ASSUME NEW i \in (1 .. made + 1) \ lost
      PROVE  i - Refused(lost, i) \in 1 .. Len(more) /\ more[i - Refused(lost, i)] = due[i]
  <2>1. CASE i = made + 1
    <3>1. i - Refused(lost, i) = Len(read) + 1
      BY <1>1, <1>3, <1>4, <2>1
    <3> QED BY <1>1, <1>2, <2>1, <3>1
  <2>2. CASE i # made + 1
    <3>1. i \in (1 .. made) \ lost
      BY <1>1, <2>2
    <3>2. i - Refused(lost, i) \in 1 .. Len(read) /\ read[i - Refused(lost, i)] = due[i]
      BY <3>1 DEF Kept
    <3> DEFINE k == i - Refused(lost, i)
    <3> HIDE DEF k
    <3>3. k \in 1 .. Len(read) /\ read[k] = due[i]
      BY <3>2 DEF k
    <3>4. k \in 1 .. Len(more) /\ more[k] = due[i]
      BY <1>1, <1>2, <3>3
    <3> QED BY <3>4 DEF k
  <2> QED BY <2>1, <2>2
<1>7. made + 1 \in 0 .. Len(due) /\ lost \subseteq 1 .. made + 1
  BY <1>1
<1>8. Kept(due, made + 1, lost, more)
  <2>1. \A i \in (1 .. made + 1) \ lost :
            i - Refused(lost, i) \in 1 .. Len(more) /\ more[i - Refused(lost, i)] = due[i]
    BY <1>6, Zenon
  <2>2. made + 1 \in 0 .. Len(due) /\ lost \subseteq 1 .. (made + 1)
    BY <1>7
  <2> DEFINE m1 == made + 1
  <2>3. /\ m1 \in 0 .. Len(due) /\ lost \subseteq 1 .. m1 /\ Len(more) = m1 - Refused(lost, m1)
        /\ \A i \in (1 .. m1) \ lost :
              i - Refused(lost, i) \in 1 .. Len(more) /\ more[i - Refused(lost, i)] = due[i]
    BY <1>5, <2>1, <2>2
  <2> HIDE DEF m1
  <2>4. Kept(due, m1, lost, more)
    BY <2>3 DEF Kept
  <2> QED BY <2>4 DEF m1
<1> QED BY <1>8 DEF more

LEMMA KeptLoses ==
    ASSUME NEW due \in Seq(Char), NEW made, NEW lost, NEW read \in Seq(Char), Kept(due, made, lost, read),
           made + 1 \in DOMAIN due
    PROVE  Kept(due, made + 1, lost \cup {made + 1}, read)
<1>1. made \in Nat /\ lost \in SUBSET (1 .. made) /\ made + 1 \in 1 .. Len(due) /\ Len(read) \in Nat /\ Len(due) \in Nat
  BY DEF Kept
<1>2. /\ Refused(lost \cup {made + 1}, made + 1) = Refused(lost, made) + 1 /\ Refused(lost, made) \in Nat
      /\ \A i \in 1 .. made : Refused(lost \cup {made + 1}, i) = Refused(lost, i)
  BY <1>1, RefusedFacts
<1>3. Len(read) = made - Refused(lost, made)
  BY DEF Kept
<1>4. Len(read) = (made + 1) - Refused(lost \cup {made + 1}, made + 1)
  BY <1>1, <1>2, <1>3
<1>5. ASSUME NEW i \in (1 .. made + 1) \ (lost \cup {made + 1})
      PROVE  /\ i - Refused(lost \cup {made + 1}, i) \in 1 .. Len(read)
             /\ read[i - Refused(lost \cup {made + 1}, i)] = due[i]
  <2>1. i \in (1 .. made) \ lost
    BY <1>1
  <2>2. Refused(lost \cup {made + 1}, i) = Refused(lost, i)
    BY <1>2, <2>1
  <2>3. i - Refused(lost, i) \in 1 .. Len(read) /\ read[i - Refused(lost, i)] = due[i]
    BY <2>1 DEF Kept
  <2> QED BY <2>2, <2>3
<1>6. made + 1 \in 0 .. Len(due) /\ lost \cup {made + 1} \subseteq 1 .. made + 1
  BY <1>1
<1>7. \A i \in (1 .. made + 1) \ (lost \cup {made + 1}) :
            /\ i - Refused(lost \cup {made + 1}, i) \in 1 .. Len(read)
            /\ read[i - Refused(lost \cup {made + 1}, i)] = due[i]
  BY <1>5, Zenon
<1>8. made + 1 \in 0 .. Len(due) /\ lost \cup {made + 1} \subseteq 1 .. (made + 1)
  BY <1>6
<1> DEFINE m1 == made + 1
           l1 == lost \cup {made + 1}
<1>9. /\ m1 \in 0 .. Len(due) /\ l1 \subseteq 1 .. m1 /\ Len(read) = m1 - Refused(l1, m1)
      /\ \A i \in (1 .. m1) \ l1 : i - Refused(l1, i) \in 1 .. Len(read) /\ read[i - Refused(l1, i)] = due[i]
  BY <1>4, <1>7, <1>8
<1> HIDE DEF m1, l1
<1>10. Kept(due, m1, l1, read)
  BY <1>9 DEF Kept
<1> QED BY <1>10 DEF m1, l1

LEMMA KeptMore ==
    ASSUME NEW due \in Seq(Char), NEW made, NEW lost, NEW read \in Seq(Char), Kept(due, made, lost, read), NEW c \in Char
    PROVE  Kept(Append(due, c), made, lost, read)
<1>1. Len(Append(due, c)) = Len(due) + 1 /\ Len(due) \in Nat /\ \A i \in 1 .. Len(due) : Append(due, c)[i] = due[i]
  BY AppendProperties
<1>2. made \in 0 .. Len(due) /\ \A i \in 1 .. made : Append(due, c)[i] = due[i]
  BY <1>1 DEF Kept
<1>3. made \in 0 .. Len(Append(due, c))
  BY <1>1, <1>2
<1> QED BY <1>2, <1>3 DEF Kept

\* The scan codes that wait in the controller: before code i of them the keys
\* D[i] are down and M[i] characters are made, as far as the driver sees it.
Says(b, d) == Decoded(b[2], "shift" \in d, "ctrl" \in d)
Types(b, d) == b[1] = "make" /\ Says(b, d) # "" /\ (b[2] \notin d \/ b[2] \in Extended0)
Reads(b, d, e, m, m1, due) ==
    IF b = E0 THEN e = d /\ m1 = m
    ELSE /\ e = IF b[1] = "make" THEN d \cup Sets(b[2]) ELSE d \ Sets(b[2])
         /\ IF Types(b, d) THEN m1 = m + 1 /\ m + 1 \in DOMAIN due /\ due[m + 1] = Says(b, d) ELSE m1 = m
AfterE0(q, e0, k) == IF k = 1 THEN e0 ELSE q[k - 1] = E0
IsExtended(b) == b # E0 /\ b[2] \in Extended0
CodesRead(q, e0, due, D, M) ==
    /\ D \in [1 .. Len(q) + 1 -> SUBSET Held] /\ M \in [1 .. Len(q) + 1 -> Nat]
    /\ \A k \in 1 .. Len(q) :
          /\ Reads(q[k], D[k], D[k + 1], M[k], M[k + 1], due)
          /\ AfterE0(q, e0, k) <=> IsExtended(q[k])

\* The codes that wait lead from keys d0 and m0 characters to d and m.
Known(q, e0, due, d0, m0, d, m) ==
    \E D, M :
        /\ CodesRead(q, e0, due, D, M)
        /\ D[1] = d0 /\ M[1] = m0 /\ D[Len(q) + 1] = d /\ M[Len(q) + 1] = m

LEMMA KnownNone ==
    ASSUME NEW e0, NEW due, NEW d0, NEW m0, NEW d, NEW m, Known(<<>>, e0, due, d0, m0, d, m)
    PROVE  d0 = d /\ m0 = m
<1>1. Len(<<>>) + 1 = 1
  OBVIOUS
<1> QED BY <1>1, Zenon DEF Known

\* The keyboard puts one more code into the controller.
LEMMA KnownPut ==
    ASSUME NEW q \in Seq(Code), NEW e0 \in BOOLEAN, NEW due, NEW d0, NEW m0, NEW d, NEW m, Known(q, e0, due, d0, m0, d, m),
           NEW b \in Code, NEW e \in SUBSET Held, NEW m1 \in Nat,
           Reads(b, d, e, m, m1, due), AfterE0(q, e0, Len(q) + 1) <=> IsExtended(b)
    PROVE  Known(Append(q, b), e0, due, d0, m0, e, m1)
<1>0. PICK D, M :
         /\ CodesRead(q, e0, due, D, M)
         /\ D[1] = d0 /\ M[1] = m0 /\ D[Len(q) + 1] = d /\ M[Len(q) + 1] = m
  BY Zenon DEF Known
<1> DEFINE n == Len(q)
           r == Append(q, b)
           D1 == [k \in 1 .. n + 2 |-> IF k <= n + 1 THEN D[k] ELSE e]
           M1 == [k \in 1 .. n + 2 |-> IF k <= n + 1 THEN M[k] ELSE m1]
<1>1. /\ n \in Nat /\ r \in Seq(Code) /\ Len(r) = n + 1 /\ r[n + 1] = b /\ \A i \in 1 .. n : r[i] = q[i]
  BY AppendProperties
<1>2. D \in [1 .. n + 1 -> SUBSET Held] /\ M \in [1 .. n + 1 -> Nat]
  BY <1>0 DEF CodesRead, n
<1> HIDE DEF n, r, D1, M1
<1>3. /\ \A k \in 1 .. n + 1 : D1[k] = D[k] /\ M1[k] = M[k]
      /\ D1[n + 2] = e /\ M1[n + 2] = m1
      /\ D1 \in [1 .. n + 2 -> SUBSET Held] /\ M1 \in [1 .. n + 2 -> Nat]
  BY <1>1, <1>2 DEF D1, M1
<1>4. ASSUME NEW k \in 1 .. n + 1 PROVE AfterE0(r, e0, k) <=> AfterE0(q, e0, k)
  <2>1. CASE k = 1
    BY <2>1 DEF AfterE0
  <2>2. CASE k # 1
    <3>1. k - 1 \in 1 .. n
      BY <1>1, <2>2
    <3> QED BY <1>1, <2>2, <3>1 DEF AfterE0
  <2> QED BY <2>1, <2>2
<1>5. ASSUME NEW k \in 1 .. n + 1
      PROVE  Reads(r[k], D1[k], D1[k + 1], M1[k], M1[k + 1], due) /\ (AfterE0(r, e0, k) <=> IsExtended(r[k]))
  <2>1. CASE k = n + 1
    <3>1. k + 1 = n + 2 /\ n + 1 \in 1 .. n + 1
      BY <1>1, <2>1
    <3>2. r[k] = b /\ D1[k] = D[n + 1] /\ D1[k + 1] = e /\ M1[k] = M[n + 1] /\ M1[k + 1] = m1
      BY <1>1, <1>3, <2>1, <3>1
    <3>3. Reads(b, D[n + 1], e, M[n + 1], m1, due) /\ (AfterE0(q, e0, n + 1) <=> IsExtended(b))
      BY <1>0, Zenon DEF n
    <3> QED BY <1>4, <2>1, <3>2, <3>3
  <2>2. CASE k # n + 1
    <3>1. k \in 1 .. n /\ k + 1 \in 1 .. n + 1
      BY <1>1, <2>2
    <3>2. r[k] = q[k] /\ D1[k] = D[k] /\ D1[k + 1] = D[k + 1] /\ M1[k] = M[k] /\ M1[k + 1] = M[k + 1]
      BY <1>1, <1>3, <3>1
    <3>3. Reads(q[k], D[k], D[k + 1], M[k], M[k + 1], due) /\ (AfterE0(q, e0, k) <=> IsExtended(q[k]))
      BY <1>0, <3>1 DEF CodesRead, n
    <3> QED BY <1>4, <3>2, <3>3
  <2> QED BY <2>1, <2>2
<1>6. Len(r) + 1 = n + 2
  BY <1>1
<1>7. CodesRead(r, e0, due, D1, M1)
  BY <1>1, <1>3, <1>5, <1>6 DEF CodesRead
<1>8. D1[1] = D[1] /\ M1[1] = M[1]
  <2>1. 1 \in 1 .. n + 1
    BY <1>1
  <2> QED BY <1>3, <2>1
<1>9. D1[Len(r) + 1] = e /\ M1[Len(r) + 1] = m1
  BY <1>3, <1>6
<1> QED BY <1>0, <1>7, <1>8, <1>9, Zenon DEF Known, r

\* The driver reads the first code.
LEMMA KnownRead ==
    ASSUME NEW q \in Seq(Code), q # <<>>, NEW e0 \in BOOLEAN, NEW due, NEW d0, NEW m0, NEW d, NEW m,
           Known(q, e0, due, d0, m0, d, m), NEW e1 \in BOOLEAN, e1 <=> (Head(q) = E0)
    PROVE  /\ e0 <=> IsExtended(Head(q))
           /\ ~AfterE0(q, e0, Len(q) + 1) => ~AfterE0(Tail(q), e1, Len(Tail(q)) + 1)
           /\ \E e \in SUBSET Held, m1 \in Nat :
                 Reads(Head(q), d0, e, m0, m1, due) /\ Known(Tail(q), e1, due, e, m1, d, m)
<1>0. PICK D, M :
         /\ CodesRead(q, e0, due, D, M)
         /\ D[1] = d0 /\ M[1] = m0 /\ D[Len(q) + 1] = d /\ M[Len(q) + 1] = m
  BY Zenon DEF Known
<1> DEFINE E == [k \in 1 .. Len(q) |-> D[k + 1]]
           N == [k \in 1 .. Len(q) |-> M[k + 1]]
           n == Len(q)
           r == Tail(q)
<1>1. /\ n \in Nat /\ n > 0 /\ r \in Seq(Code) /\ Len(r) = n - 1 /\ \A i \in 1 .. Len(r) : r[i] = q[i + 1]
      /\ Head(q) = q[1]
  BY HeadTailProperties
<1>2. D \in [1 .. n + 1 -> SUBSET Held] /\ M \in [1 .. n + 1 -> Nat] /\ 1 \in 1 .. n
  BY <1>0, <1>1 DEF CodesRead, n
<1> HIDE DEF E, N, n, r
<1>3. /\ \A k \in 1 .. n : E[k] = D[k + 1] /\ N[k] = M[k + 1]
      /\ E \in [1 .. n -> SUBSET Held] /\ N \in [1 .. n -> Nat]
  <2>1. \A k \in 1 .. n : k + 1 \in 1 .. n + 1
    BY <1>1
  <2> QED BY <1>2, <2>1 DEF E, N, n
<1>4. Reads(Head(q), D[1], D[2], M[1], M[2], due) /\ (e0 <=> IsExtended(Head(q)))
  <2>1. Reads(q[1], D[1], D[1 + 1], M[1], M[1 + 1], due) /\ (AfterE0(q, e0, 1) <=> IsExtended(q[1]))
    BY <1>0, <1>2 DEF CodesRead, n
  <2>2. 1 + 1 = 2
    OBVIOUS
  <2>3. AfterE0(q, e0, 1) <=> e0
    BY DEF AfterE0
  <2> QED BY <1>1, <2>1, <2>2, <2>3
<1>5. ASSUME NEW k \in 1 .. n PROVE AfterE0(r, e1, k) <=> AfterE0(q, e0, k + 1)
  <2>1. CASE k = 1
    <3>1. (k + 1) - 1 = 1 /\ k + 1 # 1
      BY <2>1
    <3> QED BY <1>1, <2>1, <3>1 DEF AfterE0
  <2>2. CASE k # 1
    <3>1. k - 1 \in 1 .. Len(r) /\ (k + 1) - 1 = (k - 1) + 1 /\ k + 1 # 1
      BY <1>1, <2>2
    <3> QED BY <1>1, <2>2, <3>1 DEF AfterE0
  <2> QED BY <2>1, <2>2
<1>6. ASSUME NEW k \in 1 .. Len(r)
      PROVE  Reads(r[k], E[k], E[k + 1], N[k], N[k + 1], due) /\ (AfterE0(r, e1, k) <=> IsExtended(r[k]))
  <2>1. k \in 1 .. n /\ k + 1 \in 1 .. n
    BY <1>1
  <2>2. Reads(q[k + 1], D[k + 1], D[k + 1 + 1], M[k + 1], M[k + 1 + 1], due)
        /\ (AfterE0(q, e0, k + 1) <=> IsExtended(q[k + 1]))
    BY <1>0, <2>1 DEF CodesRead, n
  <2>3. r[k] = q[k + 1] /\ E[k] = D[k + 1] /\ E[k + 1] = D[k + 1 + 1] /\ N[k] = M[k + 1] /\ N[k + 1] = M[k + 1 + 1]
    BY <1>1, <1>3, <2>1
  <2> QED BY <1>5, <2>1, <2>2, <2>3
<1>7. Len(r) + 1 = n
  BY <1>1
<1>8. CodesRead(r, e1, due, E, N)
  BY <1>3, <1>6, <1>7 DEF CodesRead
<1>9. AfterE0(q, e0, n + 1) <=> AfterE0(r, e1, Len(r) + 1)
  <2>1. n \in 1 .. n
    BY <1>1
  <2> QED BY <1>5, <1>7, <2>1
<1>10. D[1] \in SUBSET Held /\ D[2] \in SUBSET Held /\ M[1] \in Nat /\ M[2] \in Nat
  <2>1. 1 \in 1 .. n + 1 /\ 2 \in 1 .. n + 1
    BY <1>1
  <2> QED BY <1>2, <2>1
<1>11. E[1] = D[2] /\ N[1] = M[2] /\ E[Len(r) + 1] = d /\ N[Len(r) + 1] = m
  <2>1. 1 \in 1 .. n /\ n \in 1 .. n /\ 1 + 1 = 2
    BY <1>1
  <2>2. E[1] = D[1 + 1] /\ N[1] = M[1 + 1] /\ E[n] = D[n + 1] /\ N[n] = M[n + 1]
    BY <1>3, <2>1, Zenon
  <2>3. D[n + 1] = d /\ M[n + 1] = m
    BY <1>0, Zenon DEF n
  <2> QED BY <1>7, <2>1, <2>2, <2>3, Zenon
<1>12. Known(r, e1, due, D[2], M[2], d, m)
  BY <1>8, <1>11, Zenon DEF Known
<1>13. Reads(Head(q), d0, D[2], m0, M[2], due) /\ Known(Tail(q), e1, due, D[2], M[2], d, m)
  BY <1>0, <1>4, <1>12, Zenon DEF r
<1> QED BY <1>4, <1>9, <1>10, <1>13, Zenon DEF r, n

\* One more character is due: what waits is still read the same.
LEMMA KnownMore ==
    ASSUME NEW q \in Seq(Code), NEW e0 \in BOOLEAN, NEW due \in Seq(Char), NEW c \in Char,
           NEW d0, NEW m0, NEW d, NEW m, Known(q, e0, due, d0, m0, d, m)
    PROVE  Known(q, e0, Append(due, c), d0, m0, d, m)
<1> DEFINE more == Append(due, c)
<1>1. \A i \in DOMAIN due : i \in DOMAIN more /\ more[i] = due[i]
  <2>1. /\ Len(more) = Len(due) + 1 /\ more \in Seq(Char) /\ Len(due) \in Nat
        /\ \A i \in 1 .. Len(due) : more[i] = due[i]
    BY AppendProperties
  <2> QED BY <2>1
<1> HIDE DEF more
<1>2. ASSUME NEW b, NEW x, NEW y, NEW n, NEW n1, Reads(b, x, y, n, n1, due)
      PROVE  Reads(b, x, y, n, n1, more)
  BY <1>1, <1>2, Zenon DEF Reads
<1>3. PICK D, M :
         /\ CodesRead(q, e0, due, D, M)
         /\ D[1] = d0 /\ M[1] = m0 /\ D[Len(q) + 1] = d /\ M[Len(q) + 1] = m
  BY Zenon DEF Known
<1>4. CodesRead(q, e0, more, D, M)
  BY <1>2, <1>3, Zenon DEF CodesRead
<1>5. Known(q, e0, more, d0, m0, d, m)
  BY <1>3, <1>4, Zenon DEF Known
<1> QED BY <1>5 DEF more

TypedRecord == [due : Seq(Char), got : Seq(Char), made : Nat, lost : SUBSET Nat]
BufferTyped == key_buffer \in [BufferSlot -> Char] /\ buffer_head \in BufferSlot /\ buffer_tail \in BufferSlot
KeysType ==
    /\ down \in SUBSET Held /\ kbdBytes \in Seq(Code)
    /\ shift_down \in BOOLEAN /\ ctrl_down \in BOOLEAN /\ expecting_e0 \in BOOLEAN
    /\ BufferTyped /\ typed \in TypedRecord
KeysKnown ==
    \E d0 \in SUBSET Held :
        /\ Known(kbdBytes, expecting_e0, typed.due, d0, typed.made, down, Len(typed.due))
        /\ shift_down <=> "shift" \in d0
        /\ ctrl_down <=> "ctrl" \in d0
        /\ key_state = d0 \ Unmapped
KeysKept == Kept(typed.due, typed.made, typed.lost, typed.got \o Buffered)
KeysInv ==
    /\ KeysType /\ KeysKnown /\ KeysKept
    /\ ~AfterE0(kbdBytes, expecting_e0, Len(kbdBytes) + 1)
\* Nothing is claimed after a reset that forgot something.
KeysSound == ~forgot => KeysInv

LEMMA KeysStart == KbdInit => KeysInv
<1> SUFFICES ASSUME KbdInit PROVE KeysInv
  OBVIOUS
<1>1. KeysType
  <2>1. 0 \in BufferSlot
    BY InputAssumption DEF BufferSlot
  <2>2. "" \in Char
    BY DEF Char
  <2>3. key_buffer \in [BufferSlot -> Char]
    BY <2>2 DEF KbdInit, BufferSlot
  <2>4. typed \in [due : Seq(Char), got : Seq(Char), made : Nat, lost : SUBSET Nat] /\ kbdBytes \in Seq(Code)
    <3>1. <<>> \in Seq(Char) /\ <<>> \in Seq(Code)
      BY EmptySeq
    <3> QED BY <3>1 DEF KbdInit
  <2> QED BY <2>1, <2>3, <2>4 DEF KbdInit, KeysType, TypedRecord, BufferTyped
<1>2. kbdBytes = <<>> /\ typed.due = <<>> /\ typed.got = <<>> /\ typed.made = 0 /\ typed.lost = {} /\ ~expecting_e0
      /\ down = {} /\ key_state = {} /\ ~shift_down /\ ~ctrl_down /\ buffer_head = 0 /\ buffer_tail = 0
  BY DEF KbdInit
<1>3. Known(<<>>, expecting_e0, <<>>, {}, 0, {}, 0)
  <2> DEFINE D == [k \in {1} |-> {}]
             M == [k \in {1} |-> 0]
  <2>1. 1 .. Len(<<>>) + 1 = {1} /\ 1 .. Len(<<>>) = {} /\ Len(<<>>) + 1 = 1
    OBVIOUS
  <2>2. D \in [{1} -> SUBSET Held] /\ M \in [{1} -> Nat] /\ D[1] = {} /\ M[1] = 0
    OBVIOUS
  <2> HIDE DEF D, M
  <2>3. CodesRead(<<>>, expecting_e0, <<>>, D, M)
    BY <2>1, <2>2 DEF CodesRead
  <2> QED BY <2>1, <2>2, <2>3, Zenon DEF Known
<1>4. KeysKnown
  <2>1. Len(<<>>) = 0 /\ {} = {} \ Unmapped
    OBVIOUS
  <2> QED BY <1>2, <1>3, <2>1 DEF KeysKnown
<1>5. Buffered = <<>>
  <2>1. (buffer_head - buffer_tail + KbdSize) % KbdSize = 0
    BY <1>1, <1>2, RingSize DEF KeysType, BufferTyped
  <2> QED BY <2>1 DEF Buffered
<1>6. KeysKept
  <2>1. Refused({}, 0) = 0
    <3>1. {j \in {} : j <= 0} = {}
      OBVIOUS
    <3> QED BY <3>1, FS_EmptySet, Zenon DEF Refused
  <2>2. typed.got \o Buffered = <<>> /\ Len(<<>>) = 0
    BY <1>2, <1>5
  <2>3. Kept(<<>>, 0, {}, <<>>)
    BY <2>1, <2>2 DEF Kept
  <2> QED BY <1>2, <2>2, <2>3 DEF KeysKept
<1>7. ~AfterE0(kbdBytes, expecting_e0, Len(kbdBytes) + 1)
  BY <1>2 DEF AfterE0
<1> QED BY <1>1, <1>4, <1>6, <1>7 DEF KeysInv

LEMMA BufferedRing == Buffered = RingOf(key_buffer, buffer_head, buffer_tail)
BY DEF Buffered, RingOf

LEMMA BufferedSeq == ASSUME BufferTyped PROVE Buffered \in Seq(Char)
BY BufferedRing, RingType DEF BufferTyped

LEMMA TypedFields ==
    ASSUME NEW x \in TypedRecord
    PROVE  x.due \in Seq(Char) /\ x.got \in Seq(Char) /\ x.made \in Nat /\ x.lost \in SUBSET Nat
BY DEF TypedRecord

LEMMA CharsJoined ==
    ASSUME NEW s \in Seq(Char), NEW t \in Seq(Char), NEW u \in Seq(Char)
    PROVE  (s \o t) \o u = s \o (t \o u)
BY ConcatAssociative

LEMMA TypedMade ==
    ASSUME NEW x \in TypedRecord, NEW m \in Nat, NEW y, y = [x EXCEPT !.made = m]
    PROVE  y \in TypedRecord /\ y.due = x.due /\ y.got = x.got /\ y.made = m /\ y.lost = x.lost
<1>1. x = [due |-> x.due, got |-> x.got, made |-> x.made, lost |-> x.lost]
      /\ x.due \in Seq(Char) /\ x.got \in Seq(Char) /\ x.made \in Nat /\ x.lost \in SUBSET Nat
  BY DEF TypedRecord
<1>2. y = [due |-> x.due, got |-> x.got, made |-> m, lost |-> x.lost]
  BY <1>1
<1>3. y \in TypedRecord
  BY <1>1, <1>2 DEF TypedRecord
<1> QED BY <1>2, <1>3

LEMMA TypedGot ==
    ASSUME NEW x \in TypedRecord, NEW g \in Seq(Char), NEW y, y = [x EXCEPT !.got = g]
    PROVE  y \in TypedRecord /\ y.due = x.due /\ y.got = g /\ y.made = x.made /\ y.lost = x.lost
<1>1. x = [due |-> x.due, got |-> x.got, made |-> x.made, lost |-> x.lost]
      /\ x.due \in Seq(Char) /\ x.got \in Seq(Char) /\ x.made \in Nat /\ x.lost \in SUBSET Nat
  BY DEF TypedRecord
<1>2. y = [due |-> x.due, got |-> g, made |-> x.made, lost |-> x.lost]
  BY <1>1
<1>3. y \in TypedRecord
  BY <1>1, <1>2 DEF TypedRecord
<1> QED BY <1>2, <1>3

LEMMA TypedDue ==
    ASSUME NEW x \in TypedRecord, NEW d \in Seq(Char), NEW y, y = [x EXCEPT !.due = d]
    PROVE  y \in TypedRecord /\ y.due = d /\ y.got = x.got /\ y.made = x.made /\ y.lost = x.lost
<1>1. x = [due |-> x.due, got |-> x.got, made |-> x.made, lost |-> x.lost]
      /\ x.due \in Seq(Char) /\ x.got \in Seq(Char) /\ x.made \in Nat /\ x.lost \in SUBSET Nat
  BY DEF TypedRecord
<1>2. y = [due |-> d, got |-> x.got, made |-> x.made, lost |-> x.lost]
  BY <1>1
<1>3. y \in TypedRecord
  BY <1>1, <1>2 DEF TypedRecord
<1> QED BY <1>2, <1>3

\* The driver puts the next due character into the buffer, or refuses it.
LEMMA BufferPuts ==
    ASSUME BufferTyped, typed \in TypedRecord, KeysKept, NEW c,
           typed.made + 1 \in DOMAIN typed.due, c = typed.due[typed.made + 1],
           buffer_put(c), buffer_tail' = buffer_tail
    PROVE  BufferTyped' /\ typed' \in TypedRecord /\ typed'.due = typed.due /\ typed'.made = typed.made + 1 /\ KeysKept'
<1> DEFINE buf == Buffered
           m1 == typed.made + 1
<1>1. typed.due \in Seq(Char) /\ typed.got \in Seq(Char) /\ typed.made \in Nat /\ typed.lost \in SUBSET Nat /\ m1 \in Nat
  BY TypedFields
<1>2. buf \in Seq(Char) /\ typed.got \o buf \in Seq(Char)
  <2>1. buf \in Seq(Char)
    BY BufferedSeq
  <2> QED BY <1>1, <2>1
<1>3. c \in Char
  BY <1>1
<1>4. Kept(typed.due, typed.made, typed.lost, typed.got \o buf)
  BY DEF KeysKept
<1>5. CASE (buffer_head + 1) % KbdSize = buffer_tail
  <2>1. typed' = [typed EXCEPT !.made = m1, !.lost = typed.lost \cup {m1}] /\ UNCHANGED <<key_buffer, buffer_head>>
    BY <1>5 DEF buffer_put
  <2>2. /\ typed' \in TypedRecord /\ typed'.due = typed.due /\ typed'.got = typed.got /\ typed'.made = m1
        /\ typed'.lost = typed.lost \cup {m1}
    <3>1. typed.lost \cup {m1} \in SUBSET Nat
      BY <1>1
    <3>2. typed' = [typed EXCEPT !.made = m1, !.lost = typed.lost \cup {m1}]
      BY <2>1
    <3>3. m1 \in Nat
      BY <1>1
    <3> DEFINE l1 == typed.lost \cup {m1}
    <3>4. l1 \in SUBSET Nat /\ typed' = [typed EXCEPT !.made = m1, !.lost = l1]
      BY <3>1, <3>2
    <3> HIDE DEF m1, l1, buf
    <3>5. typed' \in TypedRecord /\ typed'.due = typed.due /\ typed'.got = typed.got /\ typed'.made = m1 /\ typed'.lost = l1
      <4>1. /\ typed = [due |-> typed.due, got |-> typed.got, made |-> typed.made, lost |-> typed.lost]
            /\ typed.due \in Seq(Char) /\ typed.got \in Seq(Char)
        BY DEF TypedRecord
      <4>2. typed' = [due |-> typed.due, got |-> typed.got, made |-> m1, lost |-> l1]
        BY <3>4, <4>1
      <4>3. typed' \in TypedRecord
        BY <3>3, <3>4, <4>1, <4>2 DEF TypedRecord
      <4> QED BY <4>2, <4>3
    <3> QED BY <3>5 DEF l1
  <2>3. BufferTyped' /\ Buffered' = buf
    BY <2>1 DEF BufferTyped, Buffered
  <2>4. Kept(typed.due, m1, typed.lost \cup {m1}, typed.got \o buf)
    BY <1>1, <1>2, <1>4, KeptLoses
  <2>5. KeysKept'
    BY <2>2, <2>3, <2>4, Zenon DEF KeysKept
  <2> QED BY <2>2, <2>3, <2>5
<1>6. CASE (buffer_head + 1) % KbdSize # buffer_tail
  <2>1. /\ typed' = [typed EXCEPT !.made = m1]
        /\ key_buffer' = [key_buffer EXCEPT ![buffer_head] = c] /\ buffer_head' = (buffer_head + 1) % KbdSize
    BY <1>6 DEF buffer_put
  <2>2. /\ typed' \in TypedRecord /\ typed'.due = typed.due /\ typed'.got = typed.got /\ typed'.made = m1
        /\ typed'.lost = typed.lost
    <3>2. typed' = [typed EXCEPT !.made = m1]
      BY <2>1
    <3>3. m1 \in Nat
      BY <1>1
    <3> HIDE DEF m1, buf
    <3> QED BY <3>2, <3>3, TypedMade
  <2>3. BufferTyped'
    <3>1. (buffer_head + 1) % KbdSize \in BufferSlot
      BY RingSize DEF BufferTyped
    <3> QED BY <1>3, <2>1, <3>1 DEF BufferTyped
  <2>4. Buffered' = Append(buf, c)
    <3>1. Buffered' = RingOf(key_buffer', buffer_head', buffer_tail')
      BY DEF Buffered, RingOf
    <3>2. buf = RingOf(key_buffer, buffer_head, buffer_tail)
      BY BufferedRing
    <3>3. /\ key_buffer \in [BufferSlot -> Char] /\ buffer_head \in BufferSlot /\ buffer_tail \in BufferSlot
          /\ (buffer_head + 1) % KbdSize # buffer_tail
      BY <1>6 DEF BufferTyped
    <3>4. RingOf([key_buffer EXCEPT ![buffer_head] = c], (buffer_head + 1) % KbdSize, buffer_tail)
             = Append(RingOf(key_buffer, buffer_head, buffer_tail), c)
      BY <1>3, <3>3, RingPut
    <3> QED BY <2>1, <3>1, <3>2, <3>4
  <2>5. typed.got \o Append(buf, c) = Append(typed.got \o buf, c)
    <3> HIDE DEF buf
    <3>1. Append(buf, c) = buf \o <<c>> /\ Append(typed.got \o buf, c) = (typed.got \o buf) \o <<c>>
      BY <1>2, <1>3, AppendIsConcat
    <3>2. <<c>> \in Seq(Char)
      BY <1>3
    <3>3. (typed.got \o buf) \o <<c>> = typed.got \o (buf \o <<c>>)
      BY <1>1, <1>2, <3>2, CharsJoined, Zenon
    <3> QED BY <3>1, <3>3
  <2>6. Kept(typed.due, m1, typed.lost, Append(typed.got \o buf, c))
    BY <1>1, <1>2, <1>4, KeptGets
  <2>7. KeysKept'
    BY <2>2, <2>4, <2>5, <2>6, Zenon DEF KeysKept
  <2> QED BY <2>2, <2>3, <2>7
<1> QED BY <1>5, <1>6

\* A reader moves a character from the buffer to what was read.
LEMMA TakeKeeps ==
    ASSUME BufferTyped, typed \in TypedRecord, KeysKept, buffer_head # buffer_tail, Take,
           UNCHANGED <<key_buffer, buffer_head>>
    PROVE  BufferTyped' /\ typed' \in TypedRecord /\ typed'.due = typed.due /\ typed'.made = typed.made /\ KeysKept'
<1> DEFINE c == key_buffer[buffer_tail]
           new == Buffered'
<1>1. /\ typed.due \in Seq(Char) /\ typed.got \in Seq(Char) /\ typed.made \in Nat /\ typed.lost \in SUBSET Nat
      /\ c \in Char
  BY TypedFields DEF BufferTyped
<1>2. Append(typed.got, c) \in Seq(Char) /\ Append(typed.got, c) = typed.got \o <<c>> /\ <<c>> \in Seq(Char)
  <2> HIDE DEF c
  <2> QED BY <1>1, AppendIsConcat
<1>3. typed' = [typed EXCEPT !.got = Append(typed.got, c)] /\ buffer_tail' = (buffer_tail + 1) % KbdSize
  BY DEF Take
<1>4. /\ typed' \in TypedRecord /\ typed'.due = typed.due /\ typed'.got = Append(typed.got, c)
      /\ typed'.made = typed.made /\ typed'.lost = typed.lost
  <2> DEFINE g == Append(typed.got, c)
  <2>1. g \in Seq(Char) /\ typed' = [typed EXCEPT !.got = g]
    BY <1>2, <1>3
  <2> HIDE DEF g, c, new
  <2>2. typed' \in TypedRecord /\ typed'.due = typed.due /\ typed'.got = g /\ typed'.made = typed.made /\ typed'.lost = typed.lost
    BY <2>1, TypedGot
  <2> QED BY <2>2 DEF g
<1>5. BufferTyped'
  <2>1. (buffer_tail + 1) % KbdSize \in BufferSlot
    BY RingSize DEF BufferTyped
  <2> QED BY <1>3, <2>1 DEF BufferTyped
<1>6. Buffered = <<c>> \o new
  <2>1. new = RingOf(key_buffer, buffer_head, (buffer_tail + 1) % KbdSize)
    BY <1>3 DEF Buffered, RingOf
  <2>2. Buffered = RingOf(key_buffer, buffer_head, buffer_tail)
    BY BufferedRing
  <2>3. key_buffer \in [BufferSlot -> Char] /\ buffer_head \in BufferSlot /\ buffer_tail \in BufferSlot
    BY DEF BufferTyped
  <2>4. RingOf(key_buffer, buffer_head, buffer_tail) = <<c>> \o RingOf(key_buffer, buffer_head, (buffer_tail + 1) % KbdSize)
    BY <2>3, RingTake
  <2> QED BY <2>1, <2>2, <2>4
<1>7. new \in Seq(Char)
  <2>1. new = RingOf(key_buffer', buffer_head', buffer_tail')
    BY DEF Buffered, RingOf
  <2> QED BY <1>5, <2>1, RingType DEF BufferTyped
<1> HIDE DEF new, c
<1>8. Append(typed.got, c) \o new = typed.got \o Buffered
  <2>1. (typed.got \o <<c>>) \o new = typed.got \o (<<c>> \o new)
    BY <1>1, <1>2, <1>7, CharsJoined
  <2> QED BY <1>2, <1>6, <2>1
<1>9. Kept(typed.due, typed.made, typed.lost, typed.got \o Buffered)
  BY DEF KeysKept
<1>10. KeysKept'
  BY <1>4, <1>8, <1>9, Zenon DEF KeysKept, new
<1> QED BY <1>4, <1>5, <1>10

LEMMA FlushKeeps ==
    ASSUME BufferTyped, typed \in TypedRecord, KeysKept, Flush
    PROVE  BufferTyped' /\ typed' \in TypedRecord /\ typed'.due = typed.due /\ typed'.made = typed.made /\ KeysKept'
<1>1. /\ typed.due \in Seq(Char) /\ typed.got \in Seq(Char) /\ typed.made \in Nat /\ typed.lost \in SUBSET Nat
      /\ Buffered \in Seq(Char)
  BY TypedFields, BufferedSeq
<1>2. typed' = [typed EXCEPT !.got = typed.got \o Buffered] /\ buffer_head' = 0 /\ buffer_tail' = 0 /\ key_buffer' = key_buffer
  BY DEF Flush
<1>3. typed.got \o Buffered \in Seq(Char)
  BY <1>1
<1>4. /\ typed' \in TypedRecord /\ typed'.due = typed.due /\ typed'.got = typed.got \o Buffered
      /\ typed'.made = typed.made /\ typed'.lost = typed.lost
  BY <1>2, <1>3, TypedGot, Zenon
<1>5. 0 \in BufferSlot
  BY InputAssumption DEF BufferSlot
<1>6. BufferTyped'
  BY <1>2, <1>5 DEF BufferTyped
<1>7. Buffered' = <<>>
  <2>1. (0 - 0 + KbdSize) % KbdSize = 0
    BY <1>5, RingSize
  <2>2. Buffered' = [i \in 1 .. (0 - 0 + KbdSize) % KbdSize |-> key_buffer[(0 + i - 1) % KbdSize]]
    BY <1>2 DEF Buffered
  <2> QED BY <2>1, <2>2
<1>8. (typed.got \o Buffered) \o <<>> = typed.got \o Buffered
  BY <1>3, ConcatEmptySeq
<1>9. Kept(typed.due, typed.made, typed.lost, typed.got \o Buffered)
  BY DEF KeysKept
<1>10. KeysKept'
  BY <1>4, <1>7, <1>8, <1>9, Zenon DEF KeysKept
<1> QED BY <1>4, <1>6, <1>10

LEMMA BufferFrame ==
    ASSUME BufferTyped, typed \in TypedRecord, KeysKept, UNCHANGED <<key_buffer, buffer_head, buffer_tail, typed>>
    PROVE  BufferTyped' /\ typed' \in TypedRecord /\ KeysKept'
<1>1. Buffered' = Buffered
  BY DEF Buffered
<1> QED BY <1>1 DEF BufferTyped, KeysKept

LEMMA CodeAppended ==
    ASSUME NEW q \in Seq(Code), NEW b \in Code
    PROVE  q \o <<b>> = Append(q, b) /\ (q \o <<>>) \o <<b>> = Append(q, b) /\ Append(q, b) \in Seq(Code)
<1>1. q \o <<>> = q
  BY ConcatEmptySeq
<1>2. Append(q, b) = q \o <<b>> /\ Append(q, b) \in Seq(Code)
  BY AppendIsConcat
<1> QED BY <1>1, <1>2

LEMMA AfterLast ==
    ASSUME NEW q \in Seq(Code), NEW b \in Code, NEW e0
    PROVE  AfterE0(Append(q, b), e0, Len(Append(q, b)) + 1) <=> (b = E0)
<1>1. Len(Append(q, b)) = Len(q) + 1 /\ Append(q, b)[Len(q) + 1] = b /\ Len(q) \in Nat
  BY AppendProperties
<1>2. Len(Append(q, b)) + 1 # 1 /\ Len(Append(q, b)) + 1 - 1 = Len(q) + 1
  BY <1>1
<1> QED BY <1>1, <1>2 DEF AfterE0

LEMMA KeyMovesKeeps ==
    ASSUME KeysInv, NEW k \in KeyName, NEW how \in {"press", "release", "repeat"}, KeyMoves(k, how)
    PROVE  KeysInv'
<1> DEFINE x == IF how = "release" THEN "break" ELSE "make"
           b == <<x, k>>
           c == Decoded(k, "shift" \in down, "ctrl" \in down)
           due == typed.due
           due1 == typed'.due
           q == kbdBytes
           q1 == IF k \in Extended0 THEN Append(q, E0) ELSE q
<1>1. /\ down \in SUBSET Held /\ q \in Seq(Code) /\ expecting_e0 \in BOOLEAN /\ BufferTyped /\ typed \in TypedRecord
      /\ due \in Seq(Char) /\ typed.got \in Seq(Char) /\ typed.made \in Nat /\ Buffered \in Seq(Char)
      /\ KeysKept /\ ~AfterE0(q, expecting_e0, Len(q) + 1)
  BY TypedFields, BufferedSeq DEF KeysInv, KeysType
<1>2. PICK d0 \in SUBSET Held :
        /\ Known(q, expecting_e0, due, d0, typed.made, down, Len(due))
        /\ shift_down <=> "shift" \in d0
        /\ ctrl_down <=> "ctrl" \in d0
        /\ key_state = d0 \ Unmapped
  BY DEF KeysInv, KeysKnown
<1>3. b \in Code /\ b # E0 /\ b[1] = x /\ b[2] = k /\ c \in Char /\ E0 \in Code
  <2>1. x \in {"make", "break"}
    OBVIOUS
  <2> HIDE DEF x
  <2> QED BY <2>1, CodeMade, DecodedType DEF Code
<1>4. /\ down' = IF how = "release" THEN down \ Sets(k) ELSE down \cup Sets(k)
      /\ (k \in down) = (how # "press")
      /\ typed' = IF c # "" /\ (how = "press" \/ (how = "repeat" /\ k \in Extended0))
                  THEN [typed EXCEPT !.due = Append(typed.due, c)] ELSE typed
      /\ UNCHANGED <<key_state, shift_down, ctrl_down, expecting_e0, key_buffer, buffer_head, buffer_tail, reader>>
  BY DEF KeyMoves
<1>5. down' \in SUBSET Held /\ down' = (IF b[1] = "make" THEN down \cup Sets(b[2]) ELSE down \ Sets(b[2]))
  <2>1. Sets(k) \in SUBSET Held
    BY SetsFacts
  <2> QED BY <1>1, <1>3, <1>4, <2>1
<1>6. Types(b, down) <=> c # "" /\ (how = "press" \/ (how = "repeat" /\ k \in Extended0))
  <2>1. Says(b, down) = c
    BY <1>3 DEF Says
  <2> HIDE DEF b, c
  <2> QED BY <1>3, <1>4, <2>1 DEF Types
<1>7. kbdBytes' = Append(q1, b) /\ q1 \in Seq(Code) /\ Append(q1, b) \in Seq(Code)
  <2>1. kbdBytes' = q \o (IF k \in Extended0 THEN <<E0>> ELSE <<>>) \o <<b>>
    BY DEF KeyMoves
  <2>2. q1 \in Seq(Code)
    BY <1>1, <1>3, CodeAppended
  <2>3. kbdBytes' = q1 \o <<b>>
    <3> HIDE DEF b
    <3>1. q \o <<E0>> = Append(q, E0) /\ q \o <<>> = q
      BY <1>1, <1>3, CodeAppended, ConcatEmptySeq
    <3> QED BY <2>1, <3>1
  <2> HIDE DEF b, q1
  <2> QED BY <1>3, <2>2, <2>3, CodeAppended
<1> HIDE DEF b, c, due, due1, q, q1, x
<1>8. /\ typed' \in TypedRecord /\ typed'.got = typed.got /\ typed'.made = typed.made /\ typed'.lost = typed.lost
      /\ Known(q, expecting_e0, due1, d0, typed.made, down, Len(due))
      /\ Kept(due1, typed.made, typed.lost, typed.got \o Buffered)
      /\ Reads(b, down, down', Len(due), Len(due1), due1) /\ Len(due1) \in Nat /\ Len(due) \in Nat
  <2>1. typed.got \o Buffered \in Seq(Char) /\ Kept(due, typed.made, typed.lost, typed.got \o Buffered) /\ Len(due) \in Nat
    BY <1>1 DEF KeysKept, due
  <2>2. CASE Types(b, down)
    <3>1. typed' = [typed EXCEPT !.due = Append(typed.due, c)]
      BY <1>4, <1>6, <2>2
    <3>2. /\ Append(due, c) \in Seq(Char) /\ Len(Append(due, c)) = Len(due) + 1 /\ Append(due, c)[Len(due) + 1] = c
          /\ Len(due) + 1 \in DOMAIN Append(due, c) /\ Len(due) + 1 \in Nat
      BY <1>1, <1>3, AppendProperties
    <3>3. /\ typed' \in TypedRecord /\ typed'.due = Append(due, c) /\ typed'.got = typed.got
          /\ typed'.made = typed.made /\ typed'.lost = typed.lost
      <4> DEFINE d == Append(typed.due, c)
      <4>1. d \in Seq(Char) /\ typed' = [typed EXCEPT !.due = d]
        BY <3>1, <3>2 DEF due
      <4> HIDE DEF d
      <4>2. typed' \in TypedRecord /\ typed'.due = d /\ typed'.got = typed.got /\ typed'.made = typed.made /\ typed'.lost = typed.lost
        BY <1>1, <4>1, TypedDue
      <4> QED BY <4>2 DEF d, due
    <3>4. due1 = Append(due, c)
      BY <3>3 DEF due1
    <3>5. Known(q, expecting_e0, Append(due, c), d0, typed.made, down, Len(due))
      BY <1>1, <1>2, <1>3, KnownMore DEF due, q
    <3>6. Kept(Append(due, c), typed.made, typed.lost, typed.got \o Buffered)
      BY <1>1, <1>3, <2>1, KeptMore
    <3>7. Says(b, down) = c
      BY <1>3 DEF Says, c
    <3>8. Reads(b, down, down', Len(due), Len(due1), due1)
      BY <1>3, <1>5, <2>2, <3>2, <3>4, <3>7, Zenon DEF Reads
    <3> QED BY <2>1, <3>2, <3>3, <3>4, <3>5, <3>6, <3>8
  <2>3. CASE ~Types(b, down)
    <3>1. typed' = typed /\ due1 = due
      BY <1>4, <1>6, <2>3 DEF due1, due
    <3>2. Reads(b, down, down', Len(due), Len(due1), due1)
      BY <1>3, <1>5, <2>3, <3>1, Zenon DEF Reads
    <3>3. Known(q, expecting_e0, due, d0, typed.made, down, Len(due))
      BY <1>2 DEF q, due
    <3> QED BY <1>1, <2>1, <3>1, <3>2, <3>3
  <2> QED BY <2>2, <2>3
<1>9. /\ Known(q1, expecting_e0, due1, d0, typed.made, down, Len(due))
      /\ AfterE0(q1, expecting_e0, Len(q1) + 1) <=> IsExtended(b)
  <2>1. CASE k \in Extended0
    <3>1. Reads(E0, down, down, Len(due), Len(due), due1) /\ ~IsExtended(E0)
      BY DEF Reads, IsExtended
    <3>2. q1 = Append(q, E0)
      BY <2>1 DEF q1
    <3>3. AfterE0(q, expecting_e0, Len(q) + 1) <=> IsExtended(E0)
      BY <1>1, <3>1
    <3>4. Known(Append(q, E0), expecting_e0, due1, d0, typed.made, down, Len(due))
      BY <1>1, <1>3, <1>8, <3>1, <3>3, KnownPut, Zenon
    <3>5. AfterE0(Append(q, E0), expecting_e0, Len(Append(q, E0)) + 1)
      BY <1>1, <1>3, AfterLast, Zenon
    <3> QED BY <1>3, <2>1, <3>2, <3>4, <3>5, Zenon DEF IsExtended
  <2>2. CASE k \notin Extended0
    <3>1. q1 = q
      BY <2>2 DEF q1
    <3> QED BY <1>1, <1>3, <1>8, <2>2, <3>1, Zenon DEF IsExtended
  <2> QED BY <2>1, <2>2
<1>10. Known(Append(q1, b), expecting_e0, due1, d0, typed.made, down', Len(due1))
  BY <1>1, <1>3, <1>5, <1>7, <1>8, <1>9, KnownPut, Zenon
<1>11. ~AfterE0(Append(q1, b), expecting_e0, Len(Append(q1, b)) + 1)
  BY <1>3, <1>7, AfterLast, Zenon
<1>12. BufferTyped' /\ Buffered' = Buffered
  BY <1>1, <1>4 DEF BufferTyped, Buffered
<1>13. KeysType'
  BY <1>4, <1>5, <1>7, <1>8, <1>12 DEF KeysType, KeysInv
<1>14. KeysKnown'
  BY <1>2, <1>4, <1>7, <1>8, <1>10, Zenon DEF KeysKnown, due1
<1>15. KeysKept'
  BY <1>8, <1>12, Zenon DEF KeysKept, due1
<1>16. ~AfterE0(kbdBytes, expecting_e0, Len(kbdBytes) + 1)'
  BY <1>4, <1>7, <1>11 DEF AfterE0
<1> QED BY <1>13, <1>14, <1>15, <1>16 DEF KeysInv

\* The driver handles one code: its state follows the keys, and it makes the
\* character that is due for the code, if one is.
LEMMA CallbackKeeps ==
    ASSUME KeysInv, keyboard_callback
    PROVE  KeysInv'
<1> DEFINE q == kbdBytes
           b == Head(kbdBytes)
           due == typed.due
           e1 == expecting_e0'
<1>1. /\ down \in SUBSET Held /\ q \in Seq(Code) /\ expecting_e0 \in BOOLEAN /\ BufferTyped /\ typed \in TypedRecord
      /\ shift_down \in BOOLEAN /\ ctrl_down \in BOOLEAN
      /\ KeysKept /\ ~AfterE0(q, expecting_e0, Len(q) + 1)
  BY DEF KeysInv, KeysType
<1>2. PICK d0 \in SUBSET Held :
        /\ Known(q, expecting_e0, due, d0, typed.made, down, Len(due))
        /\ shift_down <=> "shift" \in d0
        /\ ctrl_down <=> "ctrl" \in d0
        /\ key_state = d0 \ Unmapped
  BY DEF KeysInv, KeysKnown
<1>3. q # <<>> /\ kbdBytes' = Tail(q) /\ UNCHANGED <<down, buffer_tail, keyEvents>>
  BY DEF keyboard_callback
<1>4. b \in Code /\ Tail(q) \in Seq(Code)
  BY <1>1, <1>3
<1> DEFINE Prefix ==
               /\ b = E0 /\ expecting_e0' = TRUE
               /\ UNCHANGED <<key_state, shift_down, ctrl_down, key_buffer, buffer_head, typed>>
           Arrow ==
               /\ b # E0 /\ expecting_e0 /\ expecting_e0' = FALSE
               /\ IF b # <<"make", "up">> THEN UNCHANGED <<key_buffer, buffer_head, typed>>
                  ELSE buffer_put("KEY_UP")
               /\ UNCHANGED <<key_state, shift_down, ctrl_down>>
           Modifies ==
               /\ b # E0 /\ ~expecting_e0 /\ b[2] \in Modifier
               /\ shift_down' = IF b[2] \in Shift THEN b[1] = "make" ELSE shift_down
               /\ ctrl_down' = IF b[2] = "ctrl" THEN b[1] = "make" ELSE ctrl_down
               /\ UNCHANGED <<expecting_e0, key_state, key_buffer, buffer_head, typed>>
           c == Decoded(b[2], shift_down, ctrl_down)
           Plain ==
               /\ b # E0 /\ ~expecting_e0 /\ b[2] \notin Modifier
               /\ key_state' = IF b[1] = "break" THEN key_state \ {b[2]} ELSE key_state \cup {b[2]}
               /\ IF b[1] = "break" \/ b[2] \in key_state \/ c = ""
                  THEN UNCHANGED <<key_buffer, buffer_head, typed>> ELSE buffer_put(c)
               /\ UNCHANGED <<expecting_e0, shift_down, ctrl_down>>
<1>5. Prefix \/ Arrow \/ Modifies \/ Plain
  BY DEF keyboard_callback
<1>6. e1 \in BOOLEAN /\ (e1 <=> b = E0)
  <2> HIDE DEF b, c
  <2>1. CASE Prefix
    BY <2>1
  <2>2. CASE Arrow
    BY <2>2
  <2>3. CASE Modifies
    BY <1>1, <2>3
  <2>4. CASE Plain
    BY <1>1, <2>4
  <2> QED BY <1>5, <2>1, <2>2, <2>3, <2>4
<1> HIDE DEF q, due, e1
<1>7. /\ expecting_e0 <=> IsExtended(b)
      /\ ~AfterE0(Tail(q), e1, Len(Tail(q)) + 1)
      /\ \E e \in SUBSET Held, m1 \in Nat :
            Reads(b, d0, e, typed.made, m1, due) /\ Known(Tail(q), e1, due, e, m1, down, Len(due))
  <2>1. b = Head(q)
    BY DEF q
  <2> HIDE DEF b
  <2>2. /\ expecting_e0 <=> IsExtended(Head(q))
        /\ ~AfterE0(q, expecting_e0, Len(q) + 1) => ~AfterE0(Tail(q), e1, Len(Tail(q)) + 1)
        /\ \E e \in SUBSET Held, m1 \in Nat :
              Reads(Head(q), d0, e, typed.made, m1, due) /\ Known(Tail(q), e1, due, e, m1, down, Len(due))
    <3>1. q \in Seq(Code) /\ q # <<>> /\ expecting_e0 \in BOOLEAN /\ e1 \in BOOLEAN
      BY <1>1, <1>3, <1>6
    <3>2. e1 <=> (Head(q) = E0)
      BY <1>6, <2>1
    <3>3. Known(q, expecting_e0, due, d0, typed.made, down, Len(due))
      BY <1>2
    <3> QED BY <3>1, <3>2, <3>3, KnownRead
  <2> QED BY <1>1, <2>1, <2>2, Zenon
<1>8. PICK e \in SUBSET Held, m1 \in Nat :
         Reads(b, d0, e, typed.made, m1, due) /\ Known(Tail(q), e1, due, e, m1, down, Len(due))
  BY <1>7, Zenon
<1> HIDE DEF b
<1>9. b # E0 => b[1] \in {"make", "break"} /\ b[2] \in KeyName /\ b = <<b[1], b[2]>>
  BY <1>4, CodeFacts, Zenon
<1>10. SUFFICES /\ (shift_down' <=> "shift" \in e) /\ (ctrl_down' <=> "ctrl" \in e)
                /\ shift_down' \in BOOLEAN /\ ctrl_down' \in BOOLEAN
                /\ key_state' = e \ Unmapped
                /\ BufferTyped' /\ typed' \in TypedRecord /\ typed'.due = due /\ typed'.made = m1 /\ KeysKept'
  <2>1. KeysType'
    BY <1>1, <1>3, <1>4, <1>6, <1>10 DEF KeysType, e1
  <2>2. KeysKnown'
    BY <1>3, <1>8, <1>10, Zenon DEF KeysKnown, e1
  <2>3. ~AfterE0(kbdBytes, expecting_e0, Len(kbdBytes) + 1)'
    BY <1>3, <1>7 DEF AfterE0, e1
  <2> QED BY <1>10, <2>1, <2>2, <2>3 DEF KeysInv
<1>11. ASSUME UNCHANGED <<key_buffer, buffer_head, typed>>, m1 = typed.made
       PROVE  BufferTyped' /\ typed' \in TypedRecord /\ typed'.due = due /\ typed'.made = m1 /\ KeysKept'
  BY <1>1, <1>3, <1>11, BufferFrame DEF due
<1>12. ASSUME NEW x, buffer_put(x), Types(b, d0), b # E0, Says(b, d0) = x
       PROVE  BufferTyped' /\ typed' \in TypedRecord /\ typed'.due = due /\ typed'.made = m1 /\ KeysKept'
  <2>1. m1 = typed.made + 1 /\ typed.made + 1 \in DOMAIN typed.due /\ typed.due[typed.made + 1] = x
    BY <1>8, <1>12, Zenon DEF Reads, due
  <2> QED BY <1>1, <1>3, <1>12, <2>1, BufferPuts DEF due
<1>13. b # E0 => e = IF b[1] = "make" THEN d0 \cup Sets(b[2]) ELSE d0 \ Sets(b[2])
  BY <1>8, Zenon DEF Reads
<1>14. b # E0 /\ ~Types(b, d0) => m1 = typed.made
  BY <1>8, Zenon DEF Reads
<1> HIDE DEF Prefix, Arrow, Modifies, Plain
<1>15. CASE Prefix
  <2>1. e = d0 /\ m1 = typed.made
    BY <1>8, <1>15, Zenon DEF Reads, Prefix
  <2>2. BufferTyped' /\ typed' \in TypedRecord /\ typed'.due = due /\ typed'.made = m1 /\ KeysKept'
    BY <1>11, <1>15, <2>1 DEF Prefix
  <2> QED BY <1>1, <1>2, <1>15, <2>1, <2>2 DEF Prefix
<1>16. CASE Arrow
  <2>1. b # E0 /\ b[2] \in Extended0 /\ UNCHANGED <<key_state, shift_down, ctrl_down>>
    BY <1>7, <1>16, Zenon DEF Arrow, IsExtended
  <2>2. /\ "shift" \in e <=> "shift" \in d0
        /\ "ctrl" \in e <=> "ctrl" \in d0
        /\ e \ Unmapped = d0 \ Unmapped
    <3>1. Sets(b[2]) = {b[2]} /\ b[2] # "shift" /\ b[2] # "ctrl"
      BY <1>9, <2>1, SetsFacts DEF Extended0, Shift
    <3> QED BY <1>13, <2>1, <3>1 DEF Unmapped
  <2>3. CASE b = <<"make", "up">>
    <3>1. Says(b, d0) = "KEY_UP" /\ Types(b, d0) /\ buffer_put("KEY_UP")
      BY <1>16, <2>1, <2>3 DEF Says, Types, Decoded, Arrow
    <3>2. BufferTyped' /\ typed' \in TypedRecord /\ typed'.due = due /\ typed'.made = m1 /\ KeysKept'
      BY <1>12, <2>1, <3>1
    <3> QED BY <1>1, <1>2, <2>1, <2>2, <3>2
  <2>4. CASE b # <<"make", "up">>
    <3>1. ~Types(b, d0)
      <4>1. b[1] = "break" \/ b[2] = "home"
        BY <1>9, <2>1, <2>4 DEF Extended0
      <4> QED BY <4>1 DEF Types, Says, Decoded, scancode_map
    <3>2. BufferTyped' /\ typed' \in TypedRecord /\ typed'.due = due /\ typed'.made = m1 /\ KeysKept'
      BY <1>11, <1>14, <1>16, <2>1, <2>4, <3>1 DEF Arrow
    <3> QED BY <1>1, <1>2, <2>1, <2>2, <3>2
  <2> QED BY <2>3, <2>4
<1>17. CASE Modifies
  <2>1. b # E0 /\ b[2] \in Modifier /\ UNCHANGED <<key_state, key_buffer, buffer_head, typed>>
    BY <1>17 DEF Modifies
  <2>2. ~Types(b, d0)
    BY <2>1 DEF Types, Says, Decoded, scancode_map, Modifier, Shift, Extended0
  <2>3. BufferTyped' /\ typed' \in TypedRecord /\ typed'.due = due /\ typed'.made = m1 /\ KeysKept'
    BY <1>11, <1>14, <2>1, <2>2
  <2>a. \/ b[2] \in Shift /\ Sets(b[2]) = {b[2], "shift"}
        \/ b[2] = "ctrl" /\ b[2] \notin Shift /\ Sets(b[2]) = {b[2]}
    <3>1. b[2] \in KeyName /\ (b[2] \in Shift \/ b[2] = "ctrl")
      BY <1>9, <2>1 DEF Modifier
    <3>2. "ctrl" \notin Shift
      BY DEF Shift
    <3>3. (b[2] \in Shift => Sets(b[2]) = {b[2], "shift"}) /\ (b[2] \notin Shift => Sets(b[2]) = {b[2]})
      BY <3>1, SetsFacts
    <3>4. CASE b[2] \in Shift
      BY <3>3, <3>4
    <3>5. CASE b[2] = "ctrl"
      <4>1. b[2] \notin Shift
        BY <3>2, <3>5
      <4> QED BY <3>3, <3>5, <4>1
    <3> QED BY <3>1, <3>4, <3>5
  <2>4. e \ Unmapped = d0 \ Unmapped
    BY <1>13, <2>1, <2>a DEF Unmapped
  <2>5. /\ shift_down' <=> "shift" \in e
        /\ ctrl_down' <=> "ctrl" \in e
        /\ shift_down' \in BOOLEAN /\ ctrl_down' \in BOOLEAN
    <3>1. /\ shift_down' = IF b[2] \in Shift THEN b[1] = "make" ELSE shift_down
          /\ ctrl_down' = IF b[2] = "ctrl" THEN b[1] = "make" ELSE ctrl_down
      BY <1>17 DEF Modifies
    <3>2. CASE b[2] \in Shift
      <4>1. b[2] # "ctrl"
        BY <3>2 DEF Shift
      <4> QED BY <1>1, <1>2, <1>9, <1>13, <2>1, <2>a, <3>1, <3>2, <4>1
    <3>3. CASE b[2] \notin Shift
      BY <1>1, <1>2, <1>9, <1>13, <2>1, <2>a, <3>1, <3>3
    <3> QED BY <3>2, <3>3
  <2> QED BY <1>2, <2>1, <2>3, <2>4, <2>5
<1>18. CASE Plain
  <2>1. b # E0 /\ b[2] \notin Modifier /\ b[2] \notin Extended0 /\ UNCHANGED <<shift_down, ctrl_down>>
    BY <1>7, <1>18, Zenon DEF Plain, IsExtended
  <2>0. b[2] # "shift" /\ b[2] # "ctrl" /\ b[2] \notin Unmapped /\ Sets(b[2]) = {b[2]}
    <3>1. b[2] # "shift" /\ (b[2] \notin Shift => Sets(b[2]) = {b[2]})
      BY <1>9, <2>1, SetsFacts
    <3> QED BY <2>1, <3>1 DEF Modifier, Unmapped
  <2>2. /\ "shift" \in e <=> "shift" \in d0
        /\ "ctrl" \in e <=> "ctrl" \in d0
    BY <1>13, <2>0, <2>1
  <2>3. key_state' = e \ Unmapped
    BY <1>2, <1>9, <1>13, <1>18, <2>0, <2>1 DEF Plain
  <2>4. Says(b, d0) = c
    <3> DEFINE s == "shift" \in d0
               t == "ctrl" \in d0
    <3>1. (shift_down <=> s) /\ (ctrl_down <=> t)
      BY <1>2
    <3> HIDE DEF s, t
    <3>2. Decoded(b[2], s, t) = Decoded(b[2], shift_down, ctrl_down)
      BY <3>1 DEF Decoded, scancode_map
    <3> QED BY <3>2 DEF Says, s, t
  <2> HIDE DEF c
  <2>5. b[2] \in key_state <=> b[2] \in d0
    BY <1>2, <2>0, <2>1
  <2>6. CASE b[1] = "break" \/ b[2] \in key_state \/ c = ""
    <3>1. ~Types(b, d0)
      BY <2>1, <2>4, <2>5, <2>6 DEF Types
    <3>2. UNCHANGED <<key_buffer, buffer_head, typed>>
      BY <1>18, <2>6 DEF Plain, c
    <3>3. BufferTyped' /\ typed' \in TypedRecord /\ typed'.due = due /\ typed'.made = m1 /\ KeysKept'
      BY <1>11, <1>14, <2>1, <3>1, <3>2
    <3> QED BY <1>1, <1>2, <2>1, <2>2, <2>3, <3>3
  <2>7. CASE ~(b[1] = "break" \/ b[2] \in key_state \/ c = "")
    <3>1. Types(b, d0)
      BY <1>9, <2>1, <2>4, <2>5, <2>7 DEF Types
    <3>2. buffer_put(c)
      BY <1>18, <2>7 DEF Plain, c
    <3>3. BufferTyped' /\ typed' \in TypedRecord /\ typed'.due = due /\ typed'.made = m1 /\ KeysKept'
      BY <1>12, <2>1, <2>4, <3>1, <3>2
    <3> QED BY <1>1, <1>2, <2>1, <2>2, <2>3, <3>3
  <2> QED BY <2>6, <2>7
<1> QED BY <1>5, <1>15, <1>16, <1>17, <1>18

LEMMA KeysStep == KeysInv /\ [KbdNext]_kbdVars => forgot' \/ KeysInv'
<1> SUFFICES ASSUME KeysInv, [KbdNext]_kbdVars, ~forgot' PROVE KeysInv'
  OBVIOUS
<1>1. BufferTyped /\ typed \in TypedRecord /\ KeysKept
  BY DEF KeysInv, KeysType
<1>2. ASSUME UNCHANGED <<down, kbdBytes, key_state, shift_down, ctrl_down, expecting_e0>>,
             BufferTyped', typed' \in TypedRecord, typed'.due = typed.due, typed'.made = typed.made, KeysKept'
      PROVE  KeysInv'
  <2>1. KeysType'
    BY <1>2 DEF KeysInv, KeysType
  <2>2. KeysKnown'
    BY <1>2 DEF KeysInv, KeysKnown
  <2>3. ~AfterE0(kbdBytes, expecting_e0, Len(kbdBytes) + 1)'
    BY <1>2 DEF KeysInv, AfterE0
  <2> QED BY <1>2, <2>1, <2>2, <2>3 DEF KeysInv
<1>3. ASSUME UNCHANGED <<down, kbdBytes, key_state, shift_down, ctrl_down, expecting_e0,
                         key_buffer, buffer_head, buffer_tail, typed>>
      PROVE  KeysInv'
  <2>1. BufferTyped' /\ typed' \in TypedRecord /\ KeysKept'
    BY <1>1, <1>3, BufferFrame
  <2> QED BY <1>2, <1>3, <2>1
<1>4. CASE \E k \in KeyName, how \in {"press", "release", "repeat"} : KeyMoves(k, how)
  BY <1>4, KeyMovesKeeps
<1>5. CASE keyboard_callback
  BY <1>5, CallbackKeeps
<1>6. CASE OtherInterrupt
  BY <1>3, <1>6 DEF OtherInterrupt
<1>7. CASE keyboard_getchar
  BY <1>3, <1>7 DEF keyboard_getchar
<1>8. CASE buffer_get
  <2>1. CASE buffer_head = buffer_tail
    BY <1>3, <1>8, <2>1 DEF buffer_get
  <2>2. CASE buffer_head # buffer_tail
    <3>1. Take /\ UNCHANGED <<down, kbdBytes, key_state, shift_down, ctrl_down, expecting_e0, key_buffer, buffer_head>>
      BY <1>8, <2>2 DEF buffer_get
    <3>2. BufferTyped' /\ typed' \in TypedRecord /\ typed'.due = typed.due /\ typed'.made = typed.made /\ KeysKept'
      BY <1>1, <2>2, <3>1, TakeKeeps
    <3> QED BY <1>2, <3>1, <3>2
  <2> QED BY <2>1, <2>2
<1>9. CASE keyboard_poll
  <2>1. /\ Take /\ buffer_head # buffer_tail
        /\ UNCHANGED <<down, kbdBytes, key_state, shift_down, ctrl_down, expecting_e0, key_buffer, buffer_head>>
    BY <1>9 DEF keyboard_poll
  <2>2. BufferTyped' /\ typed' \in TypedRecord /\ typed'.due = typed.due /\ typed'.made = typed.made /\ KeysKept'
    BY <1>1, <2>1, TakeKeeps
  <2> QED BY <1>2, <2>1, <2>2
<1>a. ASSUME Flush PROVE KeysInv'
  <2>1. BufferTyped' /\ typed' \in TypedRecord /\ typed'.due = typed.due /\ typed'.made = typed.made /\ KeysKept'
    BY <1>1, <1>a, FlushKeeps
  <2>2. UNCHANGED <<down, kbdBytes, key_state, shift_down, ctrl_down, expecting_e0>>
    BY <1>a DEF Flush
  <2> QED BY <1>2, <2>1, <2>2
<1>b. expecting_e0 \in BOOLEAN /\ shift_down \in BOOLEAN
  BY DEF KeysInv, KeysType
<1>10. CASE keyboard_flush
  BY <1>10, <1>a DEF keyboard_flush
<1>11. CASE UNCHANGED kbdVars
  BY <1>3, <1>11 DEF kbdVars
<1>12. CASE reset_keyboard_state
  <2>1. CASE reader = "away"
    <3>1. /\ key_state' = {} /\ forgot' = (forgot \/ key_state # {})
          /\ UNCHANGED <<down, kbdBytes, shift_down, ctrl_down, expecting_e0,
                         key_buffer, buffer_head, buffer_tail, typed, keyEvents>>
      BY <1>12, <2>1 DEF reset_keyboard_state
    <3>2. key_state' = key_state
      BY <3>1
    <3> QED BY <1>3, <3>1, <3>2
  <2>2. CASE reader = "flush"
    <3>1. Flush
      BY <1>12, <2>2 DEF reset_keyboard_state
    <3> QED BY <1>a, <3>1
  <2>3. CASE reader = "prefix"
    <3>1. /\ expecting_e0' = FALSE /\ forgot' = (forgot \/ expecting_e0)
          /\ UNCHANGED <<down, kbdBytes, key_state, shift_down, ctrl_down,
                         key_buffer, buffer_head, buffer_tail, typed, keyEvents>>
      BY <1>12, <2>3 DEF reset_keyboard_state
    <3>2. expecting_e0' = expecting_e0
      BY <1>b, <3>1
    <3> QED BY <1>3, <3>1, <3>2
  <2>4. CASE reader = "shift"
    <3>1. /\ shift_down' = FALSE /\ forgot' = (forgot \/ shift_down)
          /\ UNCHANGED <<down, kbdBytes, key_state, ctrl_down, expecting_e0,
                         key_buffer, buffer_head, buffer_tail, typed, keyEvents>>
      BY <1>12, <2>4 DEF reset_keyboard_state
    <3>2. shift_down' = shift_down
      BY <1>b, <3>1
    <3> QED BY <1>3, <3>1, <3>2
  <2> QED BY <1>12, <2>1, <2>2, <2>3, <2>4 DEF reset_keyboard_state
<1> QED BY <1>4, <1>5, <1>6, <1>7, <1>8, <1>9, <1>10, <1>11, <1>12 DEF KbdNext

\* What a reset forgot stays forgotten.
LEMMA Forgets == ASSUME forgot, [KbdNext]_kbdVars PROVE forgot'
<1>1. CASE UNCHANGED kbdVars
  BY <1>1 DEF kbdVars
<1>2. CASE reset_keyboard_state
  BY <1>2 DEF reset_keyboard_state, Flush
<1>3. CASE \E k \in KeyName, how \in {"press", "release", "repeat"} : KeyMoves(k, how)
  BY <1>3 DEF KeyMoves
<1>4. CASE keyboard_callback
  BY <1>4 DEF keyboard_callback
<1>5. CASE OtherInterrupt \/ keyboard_getchar \/ keyboard_poll \/ keyboard_flush
  BY <1>5 DEF OtherInterrupt, keyboard_getchar, keyboard_poll, keyboard_flush, Flush
<1>6. CASE buffer_get
  BY <1>6 DEF buffer_get
<1> QED BY <1>1, <1>2, <1>3, <1>4, <1>5, <1>6 DEF KbdNext

LEMMA KeysSteps == KeysSound /\ [KbdNext]_kbdVars => KeysSound'
BY KeysStep, Forgets, Zenon DEF KeysSound

\* With no code left in the controller, every due character has been made.
KeysShown ==
    kbdBytes = <<>> /\ ~forgot =>
        LET read == typed.got \o Buffered
            lost(i) == Cardinality({j \in typed.lost : j <= i})
        IN  /\ Len(read) = Len(typed.due) - lost(Len(typed.due))
            /\ \A i \in DOMAIN typed.due \ typed.lost :
                  i - lost(i) \in DOMAIN read /\ read[i - lost(i)] = typed.due[i]

LEMMA KeysShow == KeysSound => KeysShown
<1> SUFFICES ASSUME KeysInv, kbdBytes = <<>> PROVE KeysShown
  BY DEF KeysShown, KeysSound
<1> DEFINE due == typed.due
           read == typed.got \o Buffered
           n == Len(due)
<1>1. BufferTyped /\ typed \in TypedRecord /\ KeysKept
  BY DEF KeysInv, KeysType
<1>2. due \in Seq(Char) /\ read \in Seq(Char)
  BY <1>1, BufferedSeq, TypedFields
<1>3. typed.made = n
  <2>1. PICK d0 \in SUBSET Held : Known(<<>>, expecting_e0, due, d0, typed.made, down, n)
    BY DEF KeysInv, KeysKnown
  <2> QED BY <2>1, KnownNone, Zenon
<1>4. Kept(due, n, typed.lost, read)
  BY <1>1, <1>3 DEF KeysKept
<1>5. DOMAIN due = 1 .. n /\ DOMAIN read = 1 .. Len(read)
  BY <1>2
<1> HIDE DEF due, read, n
<1>6. /\ Len(read) = n - Refused(typed.lost, n)
      /\ \A i \in DOMAIN due \ typed.lost :
            i - Refused(typed.lost, i) \in DOMAIN read /\ read[i - Refused(typed.lost, i)] = due[i]
  BY <1>4, <1>5, Zenon DEF Kept
<1> QED BY <1>6, Zenon DEF KeysShown, Refused, due, read, n

LEMMA MouseRests ==
    ASSUME MouseInv, UNCHANGED mouseVars
    PROVE  MouseInv'
<1>1. UNCHANGED <<auxBytes, mouse_cycle, mouse_bytes, pointer, mouse_buttons, front, shown, cursor, painter,
                  moved, torn>>
  BY DEF mouseVars
<1>2. MouseType'
  BY <1>1 DEF MouseInv, MouseType
<1>3. ASSUME ~torn.packet PROVE InTransit'
  BY <1>1, <1>3 DEF MouseInv, InTransit
<1>4. ASSUME ~torn.screen PROVE Painted'
  BY <1>1, <1>4 DEF MouseInv, Painted, Painting
<1> QED BY <1>1, <1>2, <1>3, <1>4 DEF MouseInv

LEMMA InputSteps ==
    MouseInv /\ KeysSound /\ [InputNext]_<<kbdVars, mouseVars>> => MouseInv' /\ KeysSound'
<1>1. [InputNext]_<<kbdVars, mouseVars>> => [KbdNext]_kbdVars /\ (MouseNext \/ UNCHANGED mouseVars)
  BY DEF InputNext
<1> QED BY <1>1, KeysSteps, MouseSteps, MouseRests

\* Once the controller is empty every key typed one character, in order and with
\* the modifiers as the last shift and control events left them, except those a full
\* buffer refused, unless a reset found keys known to be down; the pointer and
\* buttons are where the packets put them unless a reset cut one; the screen is the
\* scene with one cursor unless the handler painted inside fb_present
\* (keyboard_callback, buffer_put, buffer_get, mouse_handler, fb_present).
THEOREM InputFaithfulHolds == InputSpec => []InputFaithful
<1>1. KbdInit /\ MouseInit => MouseInv /\ KeysSound
  BY MouseStarts, KeysStart DEF KeysSound
<1>2. MouseInv /\ KeysSound => InputFaithful
  BY MouseShows, KeysShow, Zenon DEF InputFaithful, KeysShown
<1> QED BY <1>1, <1>2, InputSteps, PTL DEF InputSpec
=============================================================================
