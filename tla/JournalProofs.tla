---------------------------- MODULE JournalProofs ----------------------------
(***************************************************************************)
(* Type correctness, durability and the order of the entries of the        *)
(* journal, for every number of cells, length of the journal, and number   *)
(* of transactions, faults and power failures.                             *)
(*                                                                         *)
(* Durability rests on one fact: an entry that a replay could ever redo    *)
(* (one between the tail and the head of a superblock the drive may hold,  *)
(* in a content the drive may hold of that slot) is about a cell changed   *)
(* since the last commit that returned OK.                                 *)
(***************************************************************************)
EXTENDS Journal, TLAPS

\* A journal position stays within the journal.
LEMMA PosInSlot == \A x \in Int : x % L \in Slot
  BY LengthAssumption DEF Slot

\* Remainders of the numbers the journal takes remainders of.
LEMMA ModCases ==
    /\ \A x \in 0 .. L - 1 : x % L = x
    /\ \A x \in L .. 2 * L - 1 : x % L = x - L
    /\ \A x \in (-L) .. (-1) : x % L = x + L
  BY LengthAssumption

\* One more entry makes the live part longer by the slot that was the head.
LEMMA SpanGrows ==
    ASSUME NEW h \in Slot, NEW t \in Slot, NextPos(h) # t,
           NEW k \in 0 .. ((NextPos(h) - t) % L) - 1
    PROVE  (t + k) % L = h \/ k \in 0 .. ((h - t) % L) - 1
<1>1. CASE h + 1 < L
  <2>1. NextPos(h) = h + 1
    BY <1>1, ModCases, LengthAssumption DEF NextPos, Slot
  <2>2. CASE h >= t
    <3>1. (h + 1 - t) % L = h + 1 - t /\ (h - t) % L = h - t /\ (t + k) % L = t + k
      BY <1>1, <2>1, <2>2, ModCases, LengthAssumption DEF Slot
    <3>2. QED
      BY <2>1, <3>1, <2>2, LengthAssumption DEF Slot
  <2>3. CASE h < t
    <3>1. h + 1 < t
      BY <2>1, <2>3, LengthAssumption DEF Slot
    <3>2. (h + 1 - t) % L = h + 1 - t + L /\ (h - t) % L = h - t + L
      BY <3>1, <2>3, ModCases, LengthAssumption DEF Slot
    <3>3. k = h - t + L \/ k \in 0 .. (h - t + L) - 1
      BY <2>1, <3>2, <3>1, LengthAssumption DEF Slot
    <3>4. k = h - t + L => (t + k) % L = h
      BY <3>1, ModCases, LengthAssumption DEF Slot
    <3>5. QED
      BY <3>2, <3>3, <3>4
  <2>4. QED
    BY <2>2, <2>3, LengthAssumption DEF Slot
<1>2. CASE h = L - 1
  <2>1. NextPos(h) = 0
    BY <1>2, ModCases, LengthAssumption DEF NextPos, Slot
  <2>2. t > 0
    BY <2>1, LengthAssumption DEF Slot
  <2>3. (0 - t) % L = L - t /\ (h - t) % L = h - t
    BY <1>2, <2>2, ModCases, LengthAssumption DEF Slot
  <2>4. (t + k) % L = t + k
    BY <2>1, <2>2, <2>3, ModCases, LengthAssumption DEF Slot
  <2>5. QED
    BY <1>2, <2>1, <2>2, <2>3, <2>4, LengthAssumption DEF Slot
<1>3. QED
  BY <1>1, <1>2, LengthAssumption DEF Slot

\* Nothing is live when the head is the tail.
LEMMA SpanEmpty ==
    ASSUME NEW s \in Super, s.head = s.tail
    PROVE  Span(s) = {}
<1>1. (s.head - s.tail) % L = 0
  BY ModCases, LengthAssumption DEF Super, Slot
<1>2. QED
  BY <1>1 DEF Span

-----------------------------------------------------------------------------
(***************************************************************************)
(* Type correctness.                                                       *)
(***************************************************************************)
CellImg == [mem : [Cell -> CellVal], may : [Cell -> SUBSET CellVal]]
SlotImg == [mem : [Slot -> Entry], may : [Slot -> SUBSET Entry]]
SuperImg == [mem : Super, may : SUBSET Super]

\* The cell of a call that is under way, and the room that a transaction
\* waiting for a checkpoint needs.
CallOK ==
    /\ pc \in {"place", "log"} => arg.cell \in unsettled
    /\ pc \in {"k_flush", "k_publish", "k_failed"} /\ why = "start" => tx < MaxTx

TInv == TypeOK /\ CallOK

\* Writing a cell to the cache.
LEMMA WriteCellFacts ==
    ASSUME TypeOK, NEW c \in Cell, NEW v \in CellVal
    PROVE  /\ WriteCell(c, v) \in CellImg
           /\ \A d \in Cell \ {c} : /\ WriteCell(c, v).mem[d] = cell.mem[d]
                                    /\ WriteCell(c, v).may[d] = cell.may[d]
  BY DEF TypeOK, WriteCell, CellImg, CellVal

\* Writing a journal block to the cache.
LEMMA WriteSlotFacts ==
    ASSUME TypeOK, NEW i \in Slot, NEW e \in Entry
    PROVE  /\ WriteSlot(i, e) \in SlotImg
           /\ \A j \in Slot : /\ WriteSlot(i, e).mem[j] = IF j = i THEN e ELSE slot.mem[j]
                              /\ WriteSlot(i, e).may[j] \subseteq
                                    slot.may[j] \cup (IF j = i THEN {e, TornEntry} ELSE {})
                              /\ slot.may[j] \subseteq WriteSlot(i, e).may[j]
           /\ e \in WriteSlot(i, e).may[i]
<1>1. TornEntry \in Entry /\ TornEntry.cell = 0
  BY BoundAssumption DEF TornEntry, Blank, Entry, Val
<1>2. slot \in SlotImg
  BY DEF TypeOK, SlotImg
<1>3. QED
  BY <1>1, <1>2 DEF WriteSlot, SlotImg

\* What a flush leaves of cells, journal blocks and the superblock.
LEMMA FlushedFacts ==
    ASSUME TypeOK
    PROVE  /\ Flushed(cell) \in CellImg
           /\ Flushed(slot) \in SlotImg
           /\ FlushedSuper \in SuperImg
           /\ Flushed(cell).mem = cell.mem
           /\ Flushed(slot).mem = slot.mem
           /\ \A c \in Cell : Flushed(cell).may[c] = {cell.mem[c]}
           /\ \A i \in Slot : Flushed(slot).may[i] = {slot.mem[i]}
<1>1. cell.mem \in [Cell -> CellVal] /\ DOMAIN cell.mem = Cell
  BY DEF TypeOK
<1>2. slot.mem \in [Slot -> Entry] /\ DOMAIN slot.mem = Slot
  BY DEF TypeOK
<1>3. sblk \in SuperImg
  BY DEF TypeOK, SuperImg
<1>4. QED
  BY <1>1, <1>2, <1>3 DEF Flushed, FlushedSuper, CellImg, SlotImg, SuperImg

\* What a power failure leaves.
LEMMA FallenFacts ==
    ASSUME NEW S, NEW V, NEW img, img.may \in [S -> SUBSET V], NEW x \in Fallen(img)
    PROVE  x \in [mem : [S -> V], may : [S -> SUBSET V]]
<1>1. DOMAIN img.may = S
  OBVIOUS
<1>2. PICK f \in Choices(img.may) : x = [mem |-> f, may |-> [i \in S |-> {f[i]}]]
  BY <1>1 DEF Fallen
<1>3. f \in [S -> UNION {img.may[i] : i \in S}] /\ \A i \in S : f[i] \in img.may[i]
  BY <1>1 DEF Choices
<1>4. f \in [S -> V]
  BY <1>3
<1>5. QED
  BY <1>2, <1>3, <1>4

\* The entries that are written.
LEMMA EntryTypes ==
    ASSUME TypeOK, NEW s \in 0 .. MaxSeq
    PROVE  /\ \A c \in Cell : Update(c, s) \in Entry /\ Update(c, s).cell = c
           /\ \A op \in {"COMMIT", "CHECKPOINT"} :
                Marker(op, s) \in Entry /\ Marker(op, s).cell = 0
  BY BoundAssumption DEF TypeOK, Update, Marker, Entry, Val

\* Appending an entry keeps the types.
LEMMA AppendTypes ==
    ASSUME TypeOK, NEW e \in Entry, Append(e)
    PROVE  slot' \in SlotImg /\ nextSeq' \in 1 .. MaxSeq /\ nextSeq < MaxSeq
<1>1. sb.head \in Slot /\ nextSeq \in 1 .. MaxSeq
  BY DEF TypeOK, Super
<1>2. QED
  BY <1>1, WriteSlotFacts, BoundAssumption DEF Append

\* So does failing to.
LEMMA AppendFailsTypes ==
    ASSUME TypeOK, AppendFails
    PROVE  slot' = slot /\ nextSeq' \in 1 .. MaxSeq /\ faults' \in 0 .. MaxFaults
  BY BoundAssumption DEF TypeOK, AppendFails, Fine, Fault

\* Positions move within the journal.
LEMMA AdvancedType ==
    ASSUME TypeOK
    PROVE  /\ NextPos(sb.head) \in Slot
           /\ Advanced \in Super
           /\ Advanced = [head |-> NextPos(sb.head), tail |-> sb.tail, seq |-> sb.seq]
<1>1. sb \in Super /\ sb.head \in Int
  BY DEF TypeOK, Super, Slot
<1>2. NextPos(sb.head) \in Slot
  BY <1>1, PosInSlot DEF NextPos
<1>3. Advanced = [head |-> NextPos(sb.head), tail |-> sb.tail, seq |-> sb.seq]
  BY <1>1 DEF Advanced, Super
<1>4. QED
  BY <1>1, <1>2, <1>3 DEF Super

\* The types of the initial state.
LEMMA InitTypes == Init => TInv
<1> SUFFICES ASSUME Init PROVE TInv
  OBVIOUS
<1>1. 0 \in Slot /\ 0 \in Val /\ 1 \in 1 .. MaxSeq /\ 0 \in 0 .. MaxSeq
  BY LengthAssumption, BoundAssumption DEF Slot, Val
<1>2. Blank \in Entry
  BY <1>1 DEF Blank, Entry
<1>3. cell \in [mem : [Cell -> CellVal], may : [Cell -> SUBSET CellVal]]
  BY <1>1 DEF Init, CellVal
<1>4. slot \in [mem : [Slot -> Entry], may : [Slot -> SUBSET Entry]]
  BY <1>2 DEF Init
<1>5. sblk \in [mem : Super, may : SUBSET Super] /\ sb \in Super
  BY <1>1 DEF Init, Super
<1>6. /\ nextSeq \in 1 .. MaxSeq /\ arg \in [cell : Cell \cup {0}, old : CellVal]
      /\ faults \in 0 .. MaxFaults /\ crashes \in 0 .. MaxCrashes /\ tx \in Val
      /\ acked \in [Cell -> CellVal] /\ unsettled = {} /\ logged = {}
  BY <1>1, BoundAssumption DEF Init, NoArg, CellVal
<1>7. /\ inTx = FALSE /\ orphan = FALSE /\ up = FALSE /\ forced = FALSE
      /\ pc = "idle" /\ why = "sync"
  BY DEF Init
<1>8. QED
  BY <1>3, <1>4, <1>5, <1>6, <1>7 DEF TInv, TypeOK, CallOK

\* A replay writes values of journal entries.
LEMMA RedoneTypes ==
    ASSUME TypeOK, NEW c \in Cell, NEW n \in 0 .. L
    PROVE  Redone(sb, slot.mem, c, n, cell.mem[c]) \subseteq CellVal
<1>1. \A k \in Span(sb) : EntryAt(sb, slot.mem, k) \in Entry
  <2> SUFFICES ASSUME NEW k \in Span(sb) PROVE EntryAt(sb, slot.mem, k) \in Entry
    OBVIOUS
  <2>1. sb.tail + k \in Int
    BY DEF TypeOK, Super, Slot, Span
  <2>2. (sb.tail + k) % L \in Slot
    BY <2>1, PosInSlot
  <2>3. QED
    BY <2>2 DEF TypeOK, EntryAt
<1>2. \A k \in RedoneAt(sb, slot.mem, c) : EntryAt(sb, slot.mem, k).val \in Val
  BY <1>1 DEF RedoneAt, Entry
<1>3. cell.mem[c] \in CellVal
  BY DEF TypeOK
<1>4. QED
  BY <1>2, <1>3 DEF Redone, CellVal

\* A replay cut short leaves cells of the right type.
LEMMA ReplayCutTypes == TypeOK /\ ReplayCut => cell' \in CellImg
<1> SUFFICES ASSUME TypeOK, ReplayCut PROVE cell' \in CellImg
  OBVIOUS
<1> DEFINE img == [may |-> [c \in Cell |->
                            MaybeTorn(sb, slot.mem, c) \cup
                            UNION {Redone(sb, slot.mem, c, n, cell.mem[c]) : n \in 0 .. L}]]
<1>1. \A c \in Cell : MaybeTorn(sb, slot.mem, c) \subseteq CellVal
  BY DEF MaybeTorn, CellVal
<1>2. img.may \in [Cell -> SUBSET CellVal]
  BY <1>1, RedoneTypes
<1>3. cell' \in Fallen(img)
  BY DEF ReplayCut
<1> HIDE DEF img
<1>4. QED
  BY <1>2, <1>3, FallenFacts DEF CellImg

\* Every step keeps the types.
LEMMA NextTypes == TInv /\ [Next]_vars => TInv'
<1> SUFFICES ASSUME TInv, [Next]_vars PROVE TInv'
  OBVIOUS
<1>t. TypeOK /\ CallOK
  BY DEF TInv
<1>b. MaxTx \in Nat /\ MaxSeq \in Nat /\ MaxFaults \in Nat /\ MaxCrashes \in Nat
  BY BoundAssumption
<1>c. cell \in CellImg
  BY <1>t DEF TypeOK, CellImg
<1>1. CASE UNCHANGED vars
  BY <1>1, <1>t DEF TInv, TypeOK, CallOK, vars, history
<1>2. ASSUME NEW c \in Rec, LogWrite(c) PROVE TInv'
  <2>1. c \in Cell /\ nextSeq \in 0 .. MaxSeq /\ cell.mem[c] \in CellVal
    BY <1>t DEF Cell, TypeOK
  <2>2. Update(c, nextSeq) \in Entry
    BY <1>t, <2>1, EntryTypes
  <2>3. slot' \in SlotImg /\ nextSeq' \in 1 .. MaxSeq
    BY <1>t, <1>2, <2>2, AppendTypes DEF LogWrite
  <2>4. sb' \in Super
    BY <1>t, <1>2, AdvancedType DEF LogWrite
  <2>5. arg' = [cell |-> c, old |-> cell.mem[c]] /\ unsettled' = unsettled \cup {c}
    BY <1>2 DEF LogWrite
  <2>6. QED
    BY <1>t, <1>2, <2>1, <2>3, <2>4, <2>5 DEF LogWrite, TInv, TypeOK, CallOK, SlotImg
<1>3. CASE LogWriteFails
  BY <1>3, <1>t, AppendFailsTypes DEF LogWriteFails, InCall, TInv, TypeOK, CallOK, history
<1>4. CASE PlaceWrite
  <2>1. arg.cell \in Cell /\ tx \in CellVal
    BY <1>4, <1>t DEF PlaceWrite, TypeOK, CallOK, CellVal
  <2>2. cell' \in CellImg /\ faults' \in 0 .. MaxFaults
    <3>1. WriteCell(arg.cell, tx) \in CellImg
      BY <1>t, <2>1, WriteCellFacts
    <3>2. cell' \in CellImg
      BY <1>4, <1>c, <3>1 DEF PlaceWrite
    <3>3. faults' \in 0 .. MaxFaults
      BY <1>4, <1>t, <1>b DEF PlaceWrite, Fine, Fault, TypeOK
    <3>4. QED
      BY <3>2, <3>3
  <2>3. NoArg \in [cell : Cell \cup {0}, old : CellVal]
    BY <1>b DEF NoArg, CellVal, Val
  <2>4. QED
    BY <1>4, <1>t, <2>2, <2>3 DEF PlaceWrite, TInv, TypeOK, CallOK, CellImg, history
<1>5. ASSUME NEW c \in Mrt \cup Bit, PlaceUpdate(c) PROVE TInv'
  <2>1. c \in Cell /\ tx \in CellVal /\ cell.mem[c] \in CellVal
    BY <1>t DEF Cell, TypeOK, CellVal
  <2>2. cell' \in CellImg
    BY <1>5, <1>t, <2>1, WriteCellFacts DEF PlaceUpdate
  <2>3. arg' = [cell |-> c, old |-> cell.mem[c]] /\ unsettled' = unsettled \cup {c}
    BY <1>5 DEF PlaceUpdate
  <2>4. QED
    BY <1>5, <1>t, <2>1, <2>2, <2>3 DEF PlaceUpdate, TInv, TypeOK, CallOK, CellImg
<1>6. CASE LogUpdate
  <2>1. arg.cell \in Cell /\ nextSeq \in 0 .. MaxSeq
    BY <1>6, <1>t DEF LogUpdate, TypeOK, CallOK
  <2>2. Update(arg.cell, nextSeq) \in Entry
    BY <1>t, <2>1, EntryTypes
  <2>3. slot' \in SlotImg /\ nextSeq' \in 1 .. MaxSeq
    BY <1>t, <1>6, <2>2, AppendTypes DEF LogUpdate
  <2>4. sb' \in Super
    BY <1>t, <1>6, AdvancedType DEF LogUpdate
  <2>5. NoArg \in [cell : Cell \cup {0}, old : CellVal]
    BY <1>b DEF NoArg, CellVal, Val
  <2>6. QED
    BY <1>t, <1>6, <2>3, <2>4, <2>5 DEF LogUpdate, TInv, TypeOK, CallOK, SlotImg, history
<1>7. CASE UndoUpdate
  <2>1. arg.cell \in Cell /\ arg.old \in CellVal
    BY <1>7, <1>t DEF UndoUpdate, TypeOK, CallOK
  <2>2. cell' \in CellImg
    <3>1. WriteCell(arg.cell, arg.old) \in CellImg
      BY <1>t, <2>1, WriteCellFacts
    <3>2. QED
      BY <1>7, <1>c, <3>1 DEF UndoUpdate
  <2>3. NoArg \in [cell : Cell \cup {0}, old : CellVal]
    BY <1>b DEF NoArg, CellVal, Val
  <2>4. QED
    BY <1>7, <1>t, <2>2, <2>3, AppendFailsTypes DEF UndoUpdate, TInv, TypeOK, CallOK, CellImg, history
<1>8. CASE Start
  BY <1>8, <1>t, <1>b DEF Start, NoCall, TInv, TypeOK, CallOK, Val, history
<1>9. CASE Commit
  <2>1. Marker("COMMIT", nextSeq) \in Entry
    BY <1>t, EntryTypes DEF TypeOK
  <2>2. slot' \in SlotImg /\ nextSeq' \in 1 .. MaxSeq /\ nextSeq < MaxSeq
    BY <1>t, <1>9, <2>1, AppendTypes DEF Commit
  <2>3. sb' = [head |-> NextPos(sb.head), tail |-> sb.tail, seq |-> nextSeq + 1]
    BY <1>t, <1>9, AdvancedType DEF Commit
  <2>4. sb' \in Super
    BY <1>t, <1>b, <2>2, <2>3, AdvancedType DEF Super, TypeOK
  <2>5. QED
    BY <1>t, <1>9, <2>2, <2>4 DEF Commit, TInv, TypeOK, CallOK, SlotImg
<1>10. CASE CommitRefused
  BY <1>10, <1>t, AppendFailsTypes DEF CommitRefused, InCall, TInv, TypeOK, CallOK, history
<1>11. CASE CommitFlush
  <2>1. cell' \in CellImg /\ slot' \in SlotImg
    BY <1>11, <1>t, FlushedFacts DEF CommitFlush
  <2>2. sblk' \in SuperImg /\ faults' \in 0 .. MaxFaults
    BY <1>11, <1>t, <1>b, FlushedFacts DEF CommitFlush, Fine, Fault, TypeOK, SuperImg
  <2>3. pc' \in {"c_publish", "idle"}
    BY <1>11 DEF CommitFlush
  <2>4. QED
    BY <1>11, <1>t, <2>1, <2>2, <2>3
    DEF CommitFlush, TInv, TypeOK, CallOK, CellImg, SlotImg, SuperImg, history
<1>12. CASE CommitPublish
  <2>1. cell' \in CellImg /\ slot' \in SlotImg
    BY <1>12, <1>t, FlushedFacts DEF CommitPublish
  <2>2. sb' \in Super
    BY <1>12, <1>t DEF CommitPublish, TypeOK, Super
  <2>3. sblk' \in SuperImg /\ faults' \in 0 .. MaxFaults
    BY <1>12, <1>t, <1>b, <2>2, FlushedFacts DEF CommitPublish, Fine, Fault, TypeOK, SuperImg
  <2>4. pc' \in {"c_retire", "idle"}
    BY <1>12 DEF CommitPublish
  <2>5. QED
    BY <1>12, <1>t, <2>1, <2>2, <2>3, <2>4
    DEF CommitPublish, TInv, TypeOK, CallOK, CellImg, SlotImg, SuperImg, history
<1>13. CASE CommitRetire
  <2>1. cell' \in CellImg /\ slot' \in SlotImg /\ sblk' \in SuperImg
    BY <1>13, <1>t, FlushedFacts DEF CommitRetire
  <2>2. QED
    BY <1>13, <1>t, <2>1 DEF CommitRetire, TInv, TypeOK, CallOK, CellImg, SlotImg, SuperImg
<1>14. CASE CommitFails
  BY <1>14, <1>t, <1>b DEF CommitFails, Fault, TInv, TypeOK, CallOK, history
<1>15. CASE Abort
  BY <1>15, <1>t DEF Abort, InCall, TInv, TypeOK, CallOK, history
<1>16. CASE AbortOrphan
  BY <1>16, <1>t DEF AbortOrphan, NoCall, TInv, TypeOK, CallOK, history
<1>17. ASSUME NEW w \in {"start", "sync", "unmount"}, Checkpoint(w) PROVE TInv'
  BY <1>17, <1>t DEF Checkpoint, TInv, TypeOK, CallOK, history
<1>18. CASE CheckpointFlush
  <2>1. cell' \in CellImg
    BY <1>18, <1>t, FlushedFacts DEF CheckpointFlush
  <2>2. slot' \in SlotImg /\ sb' \in Super /\ nextSeq' \in 1 .. MaxSeq
    <3>1. CASE Mark
      <4>1. Marker("CHECKPOINT", nextSeq) \in Entry
        BY <1>t, EntryTypes DEF TypeOK
      <4>2. slot' \in SlotImg
        BY <1>t, <3>1, <4>1 DEF Mark, TypeOK, SlotImg, Super
      <4>3. QED
        BY <1>t, <1>b, <3>1, <4>2, AdvancedType DEF Mark, TypeOK, Super
    <3>2. CASE MarkFails
      BY <1>t, <1>b, <3>2, FlushedFacts DEF MarkFails, TypeOK, Super
    <3>3. QED
      BY <1>18, <3>1, <3>2 DEF CheckpointFlush
  <2>3. pc' \in {"k_publish", "k_failed"} /\ faults' \in 0 .. MaxFaults
    BY <1>18, <1>t, <1>b DEF CheckpointFlush, Fine, Fault, TypeOK
  <2>4. sblk' \in SuperImg
    BY <1>18, <1>t, <2>2, FlushedFacts DEF CheckpointFlush, TypeOK, SuperImg
  <2>5. QED
    BY <1>18, <1>t, <2>1, <2>2, <2>3, <2>4
    DEF CheckpointFlush, TInv, TypeOK, CallOK, CellImg, SlotImg, SuperImg, history
<1>19. CASE CheckpointPublish
  <2>1. cell' \in CellImg /\ slot' \in SlotImg /\ sblk' \in SuperImg
    BY <1>19, <1>t, FlushedFacts DEF CheckpointPublish
  <2>2. tx' \in Val /\ inTx' \in BOOLEAN
    BY <1>19, <1>t, <1>b DEF CheckpointPublish, TypeOK, CallOK, Val
  <2>3. pc' \in {"u_write", "idle"} /\ why' = "sync"
    BY <1>19 DEF CheckpointPublish
  <2>4. QED
    BY <1>19, <1>t, <2>1, <2>2, <2>3
    DEF CheckpointPublish, TInv, TypeOK, CallOK, CellImg, SlotImg, SuperImg
<1>20. CASE CheckpointFails
  <2>1. pc' \in {"u_write", "idle"} /\ why' = "sync" /\ faults' \in 0 .. MaxFaults
    BY <1>20, <1>t, <1>b DEF CheckpointFails, Fine, Fault, TypeOK
  <2>2. forced' \in BOOLEAN
    BY <1>20 DEF CheckpointFails
  <2>3. QED
    BY <1>20, <1>t, <2>1, <2>2 DEF CheckpointFails, TInv, TypeOK, CallOK
<1>21. CASE UnmountInTx
  BY <1>21, <1>t DEF UnmountInTx, TInv, TypeOK, CallOK
<1>22. CASE UnmountWrite
  <2>1. sblk' \in SuperImg /\ faults' \in 0 .. MaxFaults
    BY <1>22, <1>t, <1>b DEF UnmountWrite, WriteSuper, Fine, Fault, TypeOK, SuperImg
  <2>2. QED
    BY <1>22, <1>t, <2>1 DEF UnmountWrite, TInv, TypeOK, CallOK, SuperImg, history
<1>d. ASSUME Down, sblk' \in SuperImg
      PROVE  /\ sb' \in Super /\ nextSeq' \in 1 .. MaxSeq /\ up' = FALSE /\ pc' = "idle"
             /\ arg' \in [cell : Cell \cup {0}, old : CellVal] /\ why' = "sync"
  BY <1>b, <1>d DEF Down, SuperImg, Super, NoArg, CellVal, Val
<1>f. /\ \A x \in Fallen(cell) : x \in CellImg
      /\ \A x \in Fallen(slot) : x \in SlotImg
      /\ \A x \in FallenSuper : x \in SuperImg
  <2>1. /\ cell.may \in [Cell -> SUBSET CellVal]
        /\ slot.may \in [Slot -> SUBSET Entry]
        /\ sblk.may \subseteq Super
    BY <1>t DEF TypeOK
  <2>2. ASSUME NEW x \in Fallen(cell) PROVE x \in CellImg
    BY <2>1, FallenFacts DEF CellImg
  <2>3. ASSUME NEW x \in Fallen(slot) PROVE x \in SlotImg
    BY <2>1, FallenFacts DEF SlotImg
  <2>4. ASSUME NEW x \in FallenSuper PROVE x \in SuperImg
    BY <2>1 DEF FallenSuper, SuperImg
  <2>5. QED
    BY <2>2, <2>3, <2>4
<1>23. CASE UnmountDown
  <2>1. cell' \in CellImg /\ slot' \in SlotImg /\ sblk' \in SuperImg /\ faults' \in 0 .. MaxFaults
    BY <1>23, <1>t, <1>b, <1>f, FlushedFacts DEF UnmountDown, Fine, Fault, TypeOK
  <2>2. Down
    BY <1>23 DEF UnmountDown
  <2>3. QED
    BY <1>23, <1>t, <2>1, <2>2, <1>d
    DEF UnmountDown, TInv, TypeOK, CallOK, CellImg, SlotImg, SuperImg, history
<1>24. CASE Crash
  <2>1. cell' \in CellImg /\ slot' \in SlotImg /\ sblk' \in SuperImg
    BY <1>24, <1>f DEF Crash
  <2>2. Down /\ crashes' \in 0 .. MaxCrashes
    BY <1>24, <1>t, <1>b DEF Crash, TypeOK
  <2>3. QED
    BY <1>24, <1>t, <2>1, <2>2, <1>d
    DEF Crash, TInv, TypeOK, CallOK, CellImg, SlotImg, SuperImg, history
<1>25. CASE ReplayCut
  <2>1. cell' \in CellImg
    BY <1>25, <1>t, ReplayCutTypes
  <2>2. QED
    BY <1>25, <1>t, <2>1 DEF ReplayCut, TInv, TypeOK, CallOK, CellImg, history
<1>26. CASE Mount
  <2>1. cell' \in CellImg /\ faults' \in 0 .. MaxFaults
    <3>1. PICK lost \in SUBSET Bit, img \in [Cell -> CellVal] :
            /\ IF lost = {} THEN Fine ELSE Fault
            /\ cell' = [mem |-> img,
                        may |-> [c \in Cell |-> cell.may[c] \cup {img[c]} \cup
                                    MaybeTorn(sb, slot.mem, c)]]
      BY <1>26 DEF Mount
    <3>2. \A c \in Cell : MaybeTorn(sb, slot.mem, c) \subseteq CellVal
      BY DEF MaybeTorn, CellVal
    <3>3. QED
      BY <3>1, <3>2, <1>t, <1>b DEF Fine, Fault, TypeOK, CellImg
  <2>2. sb' \in Super
    BY <1>26, <1>t DEF Mount, TypeOK, Super
  <2>3. pc' \in {"idle", "m_flush"}
    BY <1>26 DEF Mount
  <2>4. QED
    BY <1>26, <1>t, <2>1, <2>2, <2>3 DEF Mount, TInv, TypeOK, CallOK, CellImg, history
<1>27. CASE MountFlush
  <2>1. cell' \in CellImg /\ faults' \in 0 .. MaxFaults
    BY <1>27, <1>t, <1>b, FlushedFacts DEF MountFlush, Fine, Fault, TypeOK, CellImg
  <2>2. QED
    BY <1>27, <1>t, <2>1 DEF MountFlush, TInv, TypeOK, CallOK, CellImg, history
<1>28. QED
  BY <1>1, <1>2, <1>3, <1>4, <1>5, <1>6, <1>7, <1>8, <1>9, <1>10, <1>11, <1>12,
     <1>13, <1>14, <1>15, <1>16, <1>17, <1>18, <1>19, <1>20, <1>21, <1>22, <1>23,
     <1>24, <1>25, <1>26, <1>27 DEF Next

\* The journal, its blocks and the mount structure keep their types.
THEOREM JournalTypeCorrect == Spec => []TypeOK
<1>1. TInv => TypeOK
  BY DEF TInv
<1>2. QED
  BY <1>1, InitTypes, NextTypes, PTL DEF Spec

-----------------------------------------------------------------------------
(***************************************************************************)
(* Durability.                                                             *)
(***************************************************************************)

\* The drive may hold what the cache holds.
Held ==
    /\ sblk.mem \in sblk.may
    /\ \A i \in Slot : slot.mem[i] \in slot.may[i]

\* Where the superblock has been published, and where nothing is live.
Published ==
    /\ ~up => sb = sblk.mem
    /\ pc \in {"c_retire", "k_publish"} => sblk.mem = sb /\ sb.head = sb.tail
    /\ ~forced /\ pc \in {"u_write", "u_down"} => sb.head = sb.tail

\* The entry is about a cell changed since the last commit that was OK.
About(e) == e.cell \in unsettled \cup {0}

\* Every entry a replay could redo is such an entry: on the drive, for every
\* superblock and every content of a slot it may hold, and in the cache.
FreshDrive ==
    \A s \in sblk.may : \A k \in Span(s) :
        \A e \in slot.may[(s.tail + k) % L] : About(e)
FreshMem == \A k \in Span(sb) : About(slot.mem[(sb.tail + k) % L])

\* The inductive invariant.
IInv ==
    /\ TInv
    /\ Held
    /\ Published
    /\ ~forced => FreshDrive /\ FreshMem
    /\ Durable

\* A position of the live part lies in the journal.
LEMMA LivePos ==
    ASSUME NEW s \in Super, NEW k \in Span(s)
    PROVE  (s.tail + k) % L \in Slot
<1>1. s.tail + k \in Int
  BY DEF Super, Slot, Span
<1>2. QED
  BY <1>1, PosInSlot

\* Appending an entry about a cell now unsettled keeps live entries fresh.
LEMMA AppendKeeps ==
    ASSUME TypeOK, Held, NEW e \in Entry, Append(e),
           e.cell \in unsettled' \cup {0}, unsettled \subseteq unsettled',
           sblk' = sblk, sb' \in Super, sb'.head = NextPos(sb.head), sb'.tail = sb.tail
    PROVE  /\ Held'
           /\ FreshDrive => FreshDrive'
           /\ FreshMem => FreshMem'
<1>1. sb.head \in Slot /\ sb.tail \in Slot /\ NextPos(sb.head) # sb.tail
  BY DEF TypeOK, Super, Append, Full
<1>2. slot' = WriteSlot(sb.head, e)
  BY DEF Append
<1>3. \A j \in Slot : /\ slot'.mem[j] = IF j = sb.head THEN e ELSE slot.mem[j]
                      /\ slot'.may[j] \subseteq
                            slot.may[j] \cup (IF j = sb.head THEN {e, TornEntry} ELSE {})
                      /\ slot.may[j] \subseteq slot'.may[j]
  BY <1>1, <1>2, WriteSlotFacts
<1>4. e \in slot'.may[sb.head]
  BY <1>1, <1>2, WriteSlotFacts
<1>5. TornEntry.cell = 0
  BY DEF TornEntry, Blank
<1>6. About(TornEntry)'
  BY <1>5 DEF About
<1>7. \A x \in Entry : About(x) => About(x)'
  BY DEF About
<1>8. Held'
  BY <1>1, <1>3, <1>4 DEF Held
<1>9. ASSUME FreshDrive PROVE FreshDrive'
  <2> SUFFICES ASSUME NEW s \in sblk.may, NEW k \in Span(s),
                      NEW x \in slot'.may[(s.tail + k) % L]
               PROVE  About(x)'
    BY DEF FreshDrive, Span
  <2>1. s \in Super /\ (s.tail + k) % L \in Slot
    BY LivePos DEF TypeOK
  <2>2. x \in slot.may[(s.tail + k) % L] \/ x = e \/ x = TornEntry
    BY <1>3, <2>1
  <2>3. slot.may[(s.tail + k) % L] \subseteq Entry
    BY <2>1 DEF TypeOK
  <2>4. QED
    BY <1>6, <1>7, <1>9, <2>2, <2>3 DEF FreshDrive, About
<1>10. ASSUME FreshMem PROVE FreshMem'
  <2>0. SUFFICES ASSUME NEW k \in Span(sb')
                 PROVE  slot'.mem[(sb'.tail + k) % L].cell \in unsettled' \cup {0}
    BY DEF FreshMem, Span, About
  <2>1. (sb.tail + k) % L \in Slot
    BY LivePos
  <2>2. (sb.tail + k) % L = sb.head \/ k \in Span(sb)
    BY <1>1, SpanGrows DEF Span
  <2>3. CASE (sb.tail + k) % L = sb.head
    <3>1. slot'.mem[(sb.tail + k) % L] = e
      BY <1>3, <2>1, <2>3
    <3>2. QED
      BY <3>1 DEF About
  <2>4. CASE (sb.tail + k) % L # sb.head
    <3>1. slot'.mem[(sb.tail + k) % L] = slot.mem[(sb.tail + k) % L]
      BY <1>3, <2>1, <2>4
    <3>2. slot.mem[(sb.tail + k) % L].cell \in unsettled \cup {0}
      BY <1>10, <2>2, <2>4 DEF FreshMem, About
    <3>3. QED
      BY <3>1, <3>2
  <2>5. QED
    BY <2>3, <2>4
<1>11. QED
  BY <1>8, <1>9, <1>10

\* A step that leaves drive, cache and history alone.
LEMMA SameKeeps ==
    ASSUME Held, cell' = cell, slot' = slot, sblk' = sblk, sb' = sb,
           acked' = acked, unsettled' = unsettled
    PROVE  /\ Held'
           /\ FreshDrive => FreshDrive'
           /\ FreshMem => FreshMem'
           /\ Durable /\ (forced => forced') => Durable'
  BY DEF Held, FreshDrive, FreshMem, Span, About, Durable

\* A flush of the journal with, for superblock, one that was published and
\* possibly s1, leaves only fresh entries if those of s1 in the cache are.
LEMMA FlushKeeps ==
    ASSUME TypeOK, Held, FreshDrive, slot' = Flushed(slot), unsettled' = unsettled,
           NEW s1 \in Super, sblk'.may \subseteq {sblk.mem, s1},
           \A k \in Span(s1) : About(slot.mem[(s1.tail + k) % L])
    PROVE  FreshDrive'
<1>0. SUFFICES ASSUME NEW s \in sblk'.may, NEW k \in Span(s),
                      NEW x \in slot'.may[(s.tail + k) % L]
               PROVE  x.cell \in unsettled \cup {0}
  BY DEF FreshDrive, Span, About
<1>1. s = sblk.mem \/ s = s1
  OBVIOUS
<1>2. s \in Super
  BY <1>1 DEF TypeOK
<1>3. (s.tail + k) % L \in Slot
  BY <1>2, LivePos
<1>4. x = slot.mem[(s.tail + k) % L]
  BY <1>3, FlushedFacts
<1>5. CASE s = s1
  BY <1>4, <1>5 DEF About
<1>6. CASE s = sblk.mem
  <2>1. s \in sblk.may /\ slot.mem[(s.tail + k) % L] \in slot.may[(s.tail + k) % L]
    BY <1>3, <1>6 DEF Held
  <2>2. QED
    BY <1>4, <2>1 DEF FreshDrive, About
<1>7. QED
  BY <1>1, <1>5, <1>6

\* After a flush the drive holds what the cache holds.
LEMMA FlushHolds ==
    ASSUME TypeOK, slot' = Flushed(slot), sblk'.mem \in sblk'.may
    PROVE  Held'
  BY FlushedFacts DEF Held

\* Flushing the cells keeps the contents of the settled ones.
LEMMA FlushDurable ==
    ASSUME TypeOK, Durable, cell' = Flushed(cell), acked' = acked,
           unsettled' = unsettled, forced' = forced
    PROVE  Durable'
<1>1. \A c \in Cell : cell'.mem[c] = cell.mem[c] /\ cell'.may[c] = {cell.mem[c]}
  BY FlushedFacts
<1>2. QED
  BY <1>1 DEF Durable

\* What is left of a block is something the drive may have held of it.
LEMMA FallenPicks ==
    ASSUME NEW img, NEW x \in Fallen(img), NEW i \in DOMAIN img.may
    PROVE  x.mem[i] \in img.may[i] /\ x.may[i] = {x.mem[i]}
<1>1. PICK f \in Choices(img.may) :
        x = [mem |-> f, may |-> [j \in DOMAIN img.may |-> {f[j]}]]
  BY DEF Fallen
<1>2. QED
  BY <1>1 DEF Choices

\* A power failure, or an end of the mount without a flush.
LEMMA FallKeeps ==
    ASSUME TypeOK, Held, Durable, ~forced => FreshDrive, Down,
           cell' \in Fallen(cell), slot' \in Fallen(slot), sblk' \in FallenSuper,
           acked' = acked, unsettled' = unsettled, forced' = forced
    PROVE  /\ Held'
           /\ Published'
           /\ ~forced' => FreshDrive' /\ FreshMem'
           /\ Durable'
<1>1. \A i \in Cell : cell'.mem[i] \in cell.may[i] /\ cell'.may[i] = {cell'.mem[i]}
  <2>1. DOMAIN cell.may = Cell
    BY DEF TypeOK
  <2>2. QED
    BY <2>1, FallenPicks
<1>2. \A i \in Slot : slot'.mem[i] \in slot.may[i] /\ slot'.may[i] = {slot'.mem[i]}
  <2>1. DOMAIN slot.may = Slot
    BY DEF TypeOK
  <2>2. QED
    BY <2>1, FallenPicks
<1>3. sblk'.mem \in sblk.may /\ sblk'.may = {sblk'.mem} /\ sblk'.mem \in Super
  BY DEF FallenSuper, TypeOK
<1>4. Held'
  BY <1>2, <1>3 DEF Held
<1>5. Published'
  BY DEF Down, Published
<1>6. Durable'
  BY <1>1 DEF Durable
<1>7. ASSUME ~forced, NEW k \in Span(sblk'.mem)
      PROVE  slot'.mem[(sblk'.mem.tail + k) % L].cell \in unsettled \cup {0}
  <2>1. (sblk'.mem.tail + k) % L \in Slot
    BY <1>3, LivePos
  <2>2. slot'.mem[(sblk'.mem.tail + k) % L] \in slot.may[(sblk'.mem.tail + k) % L]
    BY <1>2, <2>1
  <2>3. QED
    BY <1>3, <1>7, <2>2 DEF FreshDrive, About
<1>8. ASSUME ~forced PROVE FreshMem'
  <2>1. sb' = sblk'.mem
    BY DEF Down
  <2>2. QED
    BY <1>7, <1>8, <2>1 DEF FreshMem, About, Span
<1>9. ASSUME ~forced PROVE FreshDrive'
  <2>1. SUFFICES ASSUME NEW s \in sblk'.may, NEW k \in Span(s),
                        NEW x \in slot'.may[(s.tail + k) % L]
                 PROVE  x.cell \in unsettled \cup {0}
    BY DEF FreshDrive, Span, About
  <2>2. s = sblk'.mem
    BY <1>3
  <2>3. (s.tail + k) % L \in Slot
    BY <1>3, <2>2, LivePos
  <2>4. x = slot'.mem[(s.tail + k) % L]
    BY <1>2, <2>3
  <2>5. QED
    BY <1>7, <1>9, <2>2, <2>4
<1>10. QED
  BY <1>4, <1>5, <1>6, <1>8, <1>9

\* The replay leaves settled cells alone.
LEMMA NotRedone ==
    ASSUME TypeOK, Held, Published, FreshDrive, ~up, NEW c \in Cell \ unsettled
    PROVE  /\ MaybeTorn(sb, slot.mem, c) = {}
           /\ \A n, old : Redone(sb, slot.mem, c, n, old) = {old}
<1>1. sb \in sblk.may /\ sb \in Super
  BY DEF Held, Published, TypeOK
<1>2. c # 0
  BY CellAssumption DEF Cell
<1>3. \A k \in Span(sb) : EntryAt(sb, slot.mem, k).cell # c
  <2>1. TAKE k \in Span(sb)
  <2>2. (sb.tail + k) % L \in Slot
    BY <1>1, LivePos
  <2>3. slot.mem[(sb.tail + k) % L] \in slot.may[(sb.tail + k) % L]
    BY <2>2 DEF Held
  <2>4. slot.mem[(sb.tail + k) % L].cell \in unsettled \cup {0}
    BY <1>1, <2>3 DEF FreshDrive, About
  <2>5. QED
    BY <1>2, <2>4 DEF EntryAt
<1>4. RedoneAt(sb, slot.mem, c) = {}
  BY <1>3 DEF RedoneAt
<1>5. QED
  BY <1>4 DEF MaybeTorn, Redone

\* A freshly made file system satisfies the invariant.
LEMMA InitKeeps == Init => IInv
<1>1. SUFFICES ASSUME Init PROVE IInv
  OBVIOUS
<1>2. TInv
  BY <1>1, InitTypes
<1>3. sb = [head |-> 0, tail |-> 0, seq |-> 1] /\ sblk = [mem |-> sb, may |-> {sb}]
  BY <1>1 DEF Init
<1>4. Span(sb) = {}
  BY <1>2, <1>3, SpanEmpty DEF TInv, TypeOK
<1>5. Held
  BY <1>1, <1>3 DEF Init, Held
<1>6. Published
  BY <1>1, <1>3 DEF Init, Published
<1>7. FreshDrive /\ FreshMem
  BY <1>3, <1>4 DEF FreshDrive, FreshMem
<1>8. Durable
  BY <1>1 DEF Init, Durable
<1>9. QED
  BY <1>2, <1>5, <1>6, <1>7, <1>8 DEF IInv

\* Every step keeps what IInv adds to the types.
LEMMA NextFresh ==
    ASSUME IInv, TInv', [Next]_vars
    PROVE  /\ Held'
           /\ Published'
           /\ ~forced' => FreshDrive' /\ FreshMem'
           /\ Durable'
<1>t. TypeOK /\ CallOK /\ Held /\ Published /\ (~forced => FreshDrive /\ FreshMem) /\ Durable
  BY DEF IInv, TInv
<1>p. TypeOK' /\ sb' \in Super
  BY DEF TInv, TypeOK
<1>s. sb \in Super /\ sblk.mem \in Super /\ sblk.may \subseteq Super
  BY <1>t DEF TypeOK
<1> DEFINE Same == /\ cell' = cell /\ slot' = slot /\ sblk' = sblk /\ sb' = sb
                   /\ acked' = acked /\ unsettled' = unsettled /\ (forced => forced')
                   /\ up' = up
<1>e. ASSUME Same, Published' PROVE /\ Held' /\ Published'
                                    /\ ~forced' => FreshDrive' /\ FreshMem'
                                    /\ Durable'
  BY <1>e, <1>t, SameKeeps
<1>1. CASE UNCHANGED vars
  BY <1>1, <1>t, <1>e DEF vars, Published
<1>2. ASSUME NEW c \in Rec, LogWrite(c)
      PROVE  Held' /\ Published' /\ (~forced' => FreshDrive' /\ FreshMem') /\ Durable'
  <2>1. /\ Append(Update(c, nextSeq)) /\ unsettled' = unsettled \cup {c}
        /\ sb' = Advanced /\ sblk' = sblk /\ cell' = cell
        /\ forced' = forced /\ acked' = acked /\ up' /\ pc' = "place"
    BY <1>2, <1>t DEF LogWrite, InCall, TypeOK
  <2>2. Update(c, nextSeq) \in Entry /\ Update(c, nextSeq).cell \in unsettled'
    BY <1>t, <2>1, EntryTypes DEF TypeOK, Cell
  <2>3. sb'.head = NextPos(sb.head) /\ sb'.tail = sb.tail
    BY <2>1, <1>s DEF Advanced, Super
  <2>4. Held' /\ (FreshDrive => FreshDrive') /\ (FreshMem => FreshMem')
    BY <1>t, <1>p, <2>1, <2>2, <2>3, AppendKeeps
  <2>5. Durable'
    BY <1>t, <2>1 DEF Durable
  <2>6. QED
    BY <1>t, <2>1, <2>4, <2>5 DEF Published
<1>3. CASE LogWriteFails
  BY <1>3, <1>t, <1>e DEF LogWriteFails, AppendFails, history, Published, InCall
<1>4. CASE PlaceWrite
  <2>1. /\ slot' = slot /\ sblk' = sblk /\ sb' = sb /\ up' /\ pc' = "idle"
        /\ forced' = forced /\ acked' = acked /\ unsettled' = unsettled
    BY <1>4 DEF PlaceWrite, history
  <2>2. \A d \in Cell \ unsettled : cell'.mem[d] = cell.mem[d] /\ cell'.may[d] = cell.may[d]
    <3>1. arg.cell \in unsettled /\ arg.cell \in Cell /\ tx \in CellVal
      BY <1>4, <1>t DEF PlaceWrite, CallOK, TypeOK, CellVal
    <3>2. cell' = cell \/ cell' = WriteCell(arg.cell, tx)
      BY <1>4 DEF PlaceWrite
    <3>3. QED
      BY <1>t, <3>1, <3>2, WriteCellFacts
  <2>3. QED
    BY <1>t, <2>1, <2>2 DEF Held, Published, FreshDrive, FreshMem, Span, About, Durable
<1>5. ASSUME NEW c \in Mrt \cup Bit, PlaceUpdate(c)
      PROVE  Held' /\ Published' /\ (~forced' => FreshDrive' /\ FreshMem') /\ Durable'
  <2>1. /\ slot' = slot /\ sblk' = sblk /\ sb' = sb /\ up' /\ pc' = "log"
        /\ forced' = forced /\ acked' = acked /\ unsettled' = unsettled \cup {c}
    BY <1>5 DEF PlaceUpdate, InCall
  <2>2. \A d \in Cell \ unsettled' : cell'.mem[d] = cell.mem[d] /\ cell'.may[d] = cell.may[d]
    <3>1. c \in Cell /\ tx \in CellVal
      BY <1>t DEF TypeOK, CellVal, Cell
    <3>2. QED
      BY <1>5, <1>t, <2>1, <3>1, WriteCellFacts DEF PlaceUpdate
  <2>3. QED
    BY <1>t, <2>1, <2>2 DEF Held, Published, FreshDrive, FreshMem, Span, About, Durable
<1>6. CASE LogUpdate
  <2>1. /\ Append(Update(arg.cell, nextSeq)) /\ unsettled' = unsettled
        /\ sb' = Advanced /\ sblk' = sblk /\ cell' = cell
        /\ forced' = forced /\ acked' = acked /\ up' /\ pc' = "idle"
    BY <1>6 DEF LogUpdate, history
  <2>2. Update(arg.cell, nextSeq) \in Entry /\ Update(arg.cell, nextSeq).cell \in unsettled'
    <3>1. arg.cell \in unsettled /\ arg.cell \in Cell /\ nextSeq \in 0 .. MaxSeq
      BY <1>6, <1>t DEF LogUpdate, CallOK, TypeOK
    <3>2. QED
      BY <1>t, <2>1, <3>1, EntryTypes
  <2>3. sb'.head = NextPos(sb.head) /\ sb'.tail = sb.tail
    BY <2>1, <1>s DEF Advanced, Super
  <2>4. Held' /\ (FreshDrive => FreshDrive') /\ (FreshMem => FreshMem')
    BY <1>t, <1>p, <2>1, <2>2, <2>3, AppendKeeps
  <2>5. Durable'
    BY <1>t, <2>1 DEF Durable
  <2>6. QED
    BY <1>t, <2>1, <2>4, <2>5 DEF Published
<1>7. CASE UndoUpdate
  <2>1. /\ slot' = slot /\ sblk' = sblk /\ sb' = sb /\ up' /\ pc' = "idle"
        /\ forced' = forced /\ acked' = acked /\ unsettled' = unsettled
    BY <1>7 DEF UndoUpdate, AppendFails, history
  <2>2. \A d \in Cell \ unsettled : cell'.mem[d] = cell.mem[d] /\ cell'.may[d] = cell.may[d]
    <3>1. arg.cell \in unsettled /\ arg.cell \in Cell /\ arg.old \in CellVal
      BY <1>7, <1>t DEF UndoUpdate, CallOK, TypeOK
    <3>2. cell' = cell \/ cell' = WriteCell(arg.cell, arg.old)
      BY <1>7 DEF UndoUpdate
    <3>3. QED
      BY <1>t, <3>1, <3>2, WriteCellFacts
  <2>3. QED
    BY <1>t, <2>1, <2>2 DEF Held, Published, FreshDrive, FreshMem, Span, About, Durable
<1>8. CASE Start
  BY <1>8, <1>t, <1>e DEF Start, NoCall, history, Published
<1>9. CASE Commit
  <2>1. /\ Append(Marker("COMMIT", nextSeq)) /\ unsettled' = unsettled
        /\ sb' = [Advanced EXCEPT !.seq = nextSeq + 1] /\ sblk' = sblk /\ cell' = cell
        /\ forced' = forced /\ acked' = acked /\ up' /\ pc' = "c_flush"
    BY <1>9 DEF Commit, InCall
  <2>2. Marker("COMMIT", nextSeq) \in Entry /\ Marker("COMMIT", nextSeq).cell = 0
    BY <1>t, EntryTypes DEF TypeOK
  <2>3. sb'.head = NextPos(sb.head) /\ sb'.tail = sb.tail
    BY <2>1, <1>s DEF Advanced, Super
  <2>4. Held' /\ (FreshDrive => FreshDrive') /\ (FreshMem => FreshMem')
    BY <1>t, <1>p, <2>1, <2>2, <2>3, AppendKeeps
  <2>5. Durable'
    BY <1>t, <2>1 DEF Durable
  <2>6. QED
    BY <1>t, <2>1, <2>4, <2>5 DEF Published
<1>10. CASE CommitRefused
  BY <1>10, <1>t, <1>e DEF CommitRefused, AppendFails, InCall, history, Published
<1>11. CASE CommitFlush
  <2>1. /\ cell' = Flushed(cell) /\ slot' = Flushed(slot) /\ sb' = sb /\ up' = up /\ up
        /\ forced' = forced /\ acked' = acked /\ unsettled' = unsettled
        /\ pc' \in {"c_publish", "idle"}
    BY <1>11 DEF CommitFlush, history
  <2>2. sblk'.mem \in sblk'.may /\ sblk'.may \subseteq {sblk.mem, sb}
    BY <1>11 DEF CommitFlush, FlushedSuper
  <2>3. Held'
    BY <1>t, <2>1, <2>2, FlushHolds
  <2>4. Durable'
    BY <1>t, <2>1, FlushDurable
  <2>5. Published'
    BY <2>1 DEF Published
  <2>6. ASSUME ~forced PROVE FreshDrive' /\ FreshMem'
    <3>1. \A k \in Span(sb) : About(slot.mem[(sb.tail + k) % L])
      BY <1>t, <2>6 DEF FreshMem
    <3>2. FreshDrive'
      BY <1>t, <1>s, <2>1, <2>2, <2>6, <3>1, FlushKeeps
    <3>3. slot'.mem = slot.mem
      BY <1>t, <2>1, FlushedFacts
    <3>4. FreshMem'
      BY <3>1, <3>3, <2>1 DEF FreshMem, About, Span
    <3>5. QED
      BY <3>2, <3>4
  <2>7. QED
    BY <2>1, <2>3, <2>4, <2>5, <2>6
<1>12. CASE CommitPublish
  <2>1. /\ cell' = Flushed(cell) /\ slot' = Flushed(slot) /\ up' = up /\ up
        /\ forced' = forced /\ acked' = acked /\ unsettled' = unsettled
        /\ sb' = [sb EXCEPT !.tail = sb.head]
        /\ pc' = "idle" \/ (pc' = "c_retire" /\ sblk'.mem = sb')
    BY <1>12 DEF CommitPublish, history
  <2>2. sblk'.mem \in sblk'.may /\ sblk'.may \subseteq {sblk.mem, sb'}
    BY <1>12 DEF CommitPublish, FlushedSuper
  <2>3. sb'.head = sb'.tail
    BY <2>1, <1>s DEF Super
  <2>4. Span(sb') = {}
    BY <1>p, <2>3, SpanEmpty
  <2>5. Held'
    BY <1>t, <2>1, <2>2, FlushHolds
  <2>6. Durable'
    BY <1>t, <2>1, FlushDurable
  <2>7. Published'
    BY <2>1, <2>3 DEF Published
  <2>8. ~forced => FreshDrive'
    BY <1>t, <1>p, <2>1, <2>2, <2>4, FlushKeeps
  <2>9. FreshMem'
    BY <2>4 DEF FreshMem, Span
  <2>10. QED
    BY <2>1, <2>5, <2>6, <2>7, <2>8, <2>9
<1>13. CASE CommitRetire
  <2>1. /\ cell' = Flushed(cell) /\ slot' = Flushed(slot) /\ sb' = sb /\ up' = up /\ up
        /\ forced' = forced /\ acked' = cell.mem /\ unsettled' = {}
        /\ pc' = "idle" /\ sblk' = FlushedSuper
    BY <1>13 DEF CommitRetire
  <2>2. sblk.mem = sb /\ sb.head = sb.tail
    BY <1>13, <1>t DEF CommitRetire, Published
  <2>3. Span(sb) = {}
    BY <1>s, <2>2, SpanEmpty
  <2>4. sblk'.mem = sb /\ sblk'.may = {sb}
    BY <2>1, <2>2 DEF FlushedSuper
  <2>5. Held'
    BY <1>t, <2>1, <2>4, FlushHolds
  <2>6. Durable'
    BY <1>t, <2>1, FlushedFacts DEF Durable
  <2>7. Published'
    BY <2>1 DEF Published
  <2>8. FreshDrive' /\ FreshMem'
    BY <2>1, <2>3, <2>4 DEF FreshDrive, FreshMem, Span
  <2>9. QED
    BY <2>5, <2>6, <2>7, <2>8
<1>14. CASE CommitFails
  BY <1>14, <1>t, <1>e DEF CommitFails, history, Published
<1>15. CASE Abort
  BY <1>15, <1>t, <1>e DEF Abort, InCall, history, Published
<1>16. CASE AbortOrphan
  BY <1>16, <1>t, <1>e DEF AbortOrphan, NoCall, history, Published
<1>17. ASSUME NEW w \in {"start", "sync", "unmount"}, Checkpoint(w)
       PROVE  Held' /\ Published' /\ (~forced' => FreshDrive' /\ FreshMem') /\ Durable'
  BY <1>17, <1>t, <1>e DEF Checkpoint, NoCall, history, Published
<1>18. CASE CheckpointFlush
  <2>1. /\ cell' = Flushed(cell) /\ up' = up /\ up
        /\ forced' = forced /\ acked' = acked /\ unsettled' = unsettled
        /\ pc' \in {"k_publish", "k_failed"} /\ (Mark \/ MarkFails)
        /\ sblk' = IF pc' = "k_publish" THEN [mem |-> sb', may |-> {sblk.mem, sb'}]
                   ELSE FlushedSuper
    BY <1>18 DEF CheckpointFlush, history
  <2>2. /\ sblk'.mem \in sblk'.may /\ sblk'.may \subseteq {sblk.mem, sb'}
        /\ pc' = "k_publish" => sblk'.mem = sb'
    BY <2>1 DEF FlushedSuper
  <2>3. sb'.head = sb'.tail
    BY <2>1, <1>s DEF Mark, MarkFails, Super
  <2>4. Span(sb') = {}
    BY <1>p, <2>3, SpanEmpty
  <2>5. /\ \A i \in Slot : slot'.mem[i] \in slot'.may[i]
        /\ \A i \in Slot : \A x \in slot'.may[i] : x = slot.mem[i] \/ x.cell = 0
    <3>1. CASE Mark
      <4>1. PICK e : e = Marker("CHECKPOINT", nextSeq)
        OBVIOUS
      <4>2. e.cell = 0
        BY <4>1 DEF Marker
      <4>3. slot' = [mem |-> [slot.mem EXCEPT ![sb.head] = e],
                     may |-> [i \in Slot |-> {slot.mem[i]} \cup
                                 IF i = sb.head THEN {e} ELSE {}]]
        BY <3>1, <4>1 DEF Mark
      <4>4. slot.mem \in [Slot -> Entry]
        BY <1>t DEF TypeOK
      <4>5. QED
        BY <4>2, <4>3, <4>4
    <3>2. CASE MarkFails
      BY <1>t, <3>2, FlushedFacts DEF MarkFails
    <3>3. QED
      BY <2>1, <3>1, <3>2
  <2>6. Held'
    BY <2>2, <2>5 DEF Held
  <2>7. Durable'
    BY <1>t, <2>1, FlushDurable
  <2>8. Published'
    BY <2>1, <2>2, <2>3 DEF Published
  <2>9. ASSUME ~forced PROVE FreshDrive'
    <3>1. SUFFICES ASSUME NEW s \in sblk'.may, NEW k \in Span(s),
                          NEW x \in slot'.may[(s.tail + k) % L]
                   PROVE  x.cell \in unsettled \cup {0}
      BY <2>1 DEF FreshDrive, Span, About
    <3>2. s = sblk.mem
      BY <2>2, <2>4
    <3>3. (s.tail + k) % L \in Slot
      BY <1>s, <3>2, LivePos
    <3>4. x = slot.mem[(s.tail + k) % L] \/ x.cell = 0
      BY <2>5, <3>3
    <3>5. s \in sblk.may /\ slot.mem[(s.tail + k) % L] \in slot.may[(s.tail + k) % L]
      BY <1>t, <3>2, <3>3 DEF Held
    <3>6. QED
      BY <1>t, <2>9, <3>4, <3>5 DEF FreshDrive, About
  <2>10. FreshMem'
    BY <2>4 DEF FreshMem, Span
  <2>11. QED
    BY <2>1, <2>6, <2>7, <2>8, <2>9, <2>10
<1>19. CASE CheckpointPublish
  <2>1. /\ cell' = Flushed(cell) /\ slot' = Flushed(slot) /\ sb' = sb /\ up' = up /\ up
        /\ forced' = forced /\ acked' = cell.mem /\ unsettled' = {}
        /\ pc' \in {"idle", "u_write"} /\ sblk' = FlushedSuper
    BY <1>19 DEF CheckpointPublish
  <2>2. sblk.mem = sb /\ sb.head = sb.tail
    BY <1>19, <1>t DEF CheckpointPublish, Published
  <2>3. Span(sb) = {}
    BY <1>s, <2>2, SpanEmpty
  <2>4. sblk'.mem = sb /\ sblk'.may = {sb}
    BY <2>1, <2>2 DEF FlushedSuper
  <2>5. Held'
    BY <1>t, <2>1, <2>4, FlushHolds
  <2>6. Durable'
    BY <1>t, <2>1, FlushedFacts DEF Durable
  <2>7. Published'
    BY <2>1, <2>2 DEF Published
  <2>8. FreshDrive' /\ FreshMem'
    BY <2>1, <2>3, <2>4 DEF FreshDrive, FreshMem, Span
  <2>9. QED
    BY <2>5, <2>6, <2>7, <2>8
<1>20. CASE CheckpointFails
  <2>1. Same
    BY <1>20, <1>t DEF CheckpointFails, TypeOK
  <2>2. pc' = "u_write" => forced'
    BY <1>20 DEF CheckpointFails
  <2>3. Published'
    BY <1>20, <2>1, <2>2 DEF CheckpointFails, Published
  <2>4. QED
    BY <2>1, <2>3, <1>e
<1>21. CASE UnmountInTx
  BY <1>21, <1>t, <1>e DEF UnmountInTx, NoCall, Published
<1>22. CASE UnmountWrite
  <2>1. /\ cell' = cell /\ slot' = slot /\ sb' = sb /\ up' = up /\ up
        /\ forced' = forced /\ acked' = acked /\ unsettled' = unsettled
        /\ pc = "u_write" /\ pc' = "u_down"
        /\ sblk' \in {sblk, WriteSuper(sb)}
    BY <1>22 DEF UnmountWrite, history
  <2>2. sblk'.mem \in sblk'.may /\ sblk'.may \subseteq sblk.may \cup {sb}
    BY <1>t, <2>1 DEF WriteSuper, Held
  <2>3. Held'
    BY <1>t, <2>1, <2>2 DEF Held
  <2>4. Durable'
    BY <1>t, <2>1 DEF Durable
  <2>5. Published'
    BY <1>t, <2>1 DEF Published
  <2>6. ASSUME ~forced PROVE FreshDrive' /\ FreshMem'
    <3>1. Span(sb) = {}
      BY <1>t, <1>s, <2>1, <2>6, SpanEmpty DEF Published
    <3>2. QED
      BY <1>t, <2>1, <2>2, <2>6, <3>1 DEF FreshDrive, FreshMem, Span, About
  <2>7. QED
    BY <2>1, <2>3, <2>4, <2>5, <2>6
<1>23. CASE UnmountDown
  <2>1. /\ Down /\ acked' = acked /\ unsettled' = unsettled /\ forced' = forced
    BY <1>23 DEF UnmountDown, history
  <2>2. CASE cell' \in Fallen(cell) /\ slot' \in Fallen(slot) /\ sblk' \in FallenSuper
    BY <1>t, <2>1, <2>2, FallKeeps
  <2>3. CASE cell' = Flushed(cell) /\ slot' = Flushed(slot) /\ sblk' = FlushedSuper
    <3>1. sblk'.mem = sblk.mem /\ sblk'.may = {sblk.mem} /\ sb' = sblk.mem
      BY <2>1, <2>3 DEF FlushedSuper, Down
    <3>2. Held'
      BY <1>t, <2>3, <3>1, FlushHolds
    <3>3. Durable'
      BY <1>t, <2>1, <2>3, FlushDurable
    <3>4. Published'
      BY <2>1 DEF Down, Published
    <3>5. ASSUME ~forced PROVE FreshDrive' /\ FreshMem'
      <4>1. \A k \in Span(sblk.mem) : About(slot.mem[(sblk.mem.tail + k) % L])
        <5>1. TAKE k \in Span(sblk.mem)
        <5>2. (sblk.mem.tail + k) % L \in Slot
          BY <1>s, LivePos
        <5>3. QED
          BY <1>t, <3>5, <5>2 DEF Held, FreshDrive
      <4>2. FreshDrive'
        BY <1>t, <1>s, <2>1, <2>3, <3>1, <3>5, <4>1, FlushKeeps
      <4>3. slot'.mem = slot.mem
        BY <1>t, <2>3, FlushedFacts
      <4>4. FreshMem'
        BY <2>1, <3>1, <4>1, <4>3 DEF FreshMem, About, Span
      <4>5. QED
        BY <4>2, <4>4
    <3>6. QED
      BY <2>1, <3>2, <3>3, <3>4, <3>5
  <2>4. QED
    BY <1>23, <2>2, <2>3 DEF UnmountDown
<1>24. CASE Crash
  BY <1>24, <1>t, FallKeeps DEF Crash, history
<1>25. CASE ReplayCut
  <2>1. /\ slot' = slot /\ sblk' = sblk /\ sb' = sb /\ up' = up /\ ~up /\ pc' = pc
        /\ forced' = forced /\ acked' = acked /\ unsettled' = unsettled
    BY <1>25 DEF ReplayCut, history
  <2>2. ASSUME ~forced, NEW c \in Cell \ unsettled
        PROVE  cell'.mem[c] = cell.mem[c] /\ cell'.may[c] = {cell.mem[c]}
    <3>1. PICK may : /\ may = [d \in Cell |-> MaybeTorn(sb, slot.mem, d) \cup
                                UNION {Redone(sb, slot.mem, d, n, cell.mem[d]) : n \in 0 .. L}]
                     /\ cell' \in Fallen([may |-> may])
      BY <1>25 DEF ReplayCut
    <3>2. /\ MaybeTorn(sb, slot.mem, c) = {}
          /\ \A n, old : Redone(sb, slot.mem, c, n, old) = {old}
      BY <1>t, <2>1, <2>2, NotRedone
    <3>3. 0 \in 0 .. L
      BY LengthAssumption
    <3>4. may[c] = {cell.mem[c]}
      BY <3>1, <3>2, <3>3
    <3>5. c \in DOMAIN may
      BY <3>1
    <3>6. cell'.mem[c] \in may[c] /\ cell'.may[c] = {cell'.mem[c]}
      BY <3>1, <3>5, FallenPicks
    <3>7. QED
      BY <3>4, <3>6
  <2>3. QED
    BY <1>t, <2>1, <2>2 DEF Held, Published, FreshDrive, FreshMem, Span, About, Durable
<1>26. CASE Mount
  <2>1. /\ slot' = slot /\ sblk' = sblk /\ sb' = [sb EXCEPT !.tail = sb.head]
        /\ up' /\ ~up /\ pc' \in {"idle", "m_flush"}
        /\ forced' = forced /\ acked' = acked /\ unsettled' = unsettled
    BY <1>26 DEF Mount, history
  <2>2. ASSUME ~forced, NEW c \in Cell \ unsettled
        PROVE  cell'.mem[c] = acked[c] /\ cell'.may[c] = {acked[c]}
    <3>1. PICK lost \in SUBSET Bit, img \in [Cell -> CellVal] :
            /\ \A d \in Cell : img[d] \in IF d \in lost THEN {cell.mem[d]}
                                    ELSE Redone(sb, slot.mem, d, L, cell.mem[d])
            /\ cell' = [mem |-> img,
                        may |-> [d \in Cell |-> cell.may[d] \cup {img[d]} \cup
                                    MaybeTorn(sb, slot.mem, d)]]
      BY <1>26 DEF Mount
    <3>2. /\ MaybeTorn(sb, slot.mem, c) = {}
          /\ \A n, old : Redone(sb, slot.mem, c, n, old) = {old}
      BY <1>t, <2>1, <2>2, NotRedone
    <3>3. img[c] = cell.mem[c]
      BY <3>1, <3>2
    <3>4. cell'.mem[c] = img[c] /\ cell'.may[c] = cell.may[c] \cup {img[c]}
      BY <3>1, <3>2
    <3>5. QED
      BY <1>t, <2>2, <3>3, <3>4 DEF Durable
  <2>3. sb'.head = sb'.tail
    BY <2>1, <1>s DEF Super
  <2>4. Span(sb') = {}
    BY <1>p, <2>3, SpanEmpty
  <2>5. FreshMem'
    BY <2>4 DEF FreshMem, Span
  <2>6. Held' /\ (FreshDrive => FreshDrive')
    BY <1>t, <2>1 DEF Held, FreshDrive, Span, About
  <2>7. Durable'
    BY <2>1, <2>2 DEF Durable
  <2>8. QED
    BY <1>t, <2>1, <2>5, <2>6, <2>7 DEF Published
<1>27. CASE MountFlush
  <2>1. /\ slot' = slot /\ sblk' = sblk /\ sb' = sb /\ up' = up /\ up /\ pc' = "idle"
        /\ forced' = forced /\ acked' = acked /\ unsettled' = unsettled
        /\ cell' \in {cell, Flushed(cell)}
    BY <1>27 DEF MountFlush, history
  <2>2. Durable'
    <3>1. cell' = cell => Durable'
      BY <1>t, <2>1 DEF Durable
    <3>2. QED
      BY <1>t, <2>1, <3>1, FlushDurable
  <2>3. QED
    BY <1>t, <2>1, <2>2 DEF Held, Published, FreshDrive, FreshMem, Span, About
<1>28. QED
  BY <1>1, <1>2, <1>3, <1>4, <1>5, <1>6, <1>7, <1>8, <1>9, <1>10, <1>11, <1>12,
     <1>13, <1>14, <1>15, <1>16, <1>17, <1>18, <1>19, <1>20, <1>21, <1>22, <1>23,
     <1>24, <1>25, <1>26, <1>27 DEF Next

\* What a commit that returned OK left in a cell survives, for every journal
\* length and every number of cells, transactions, faults and power failures.
THEOREM JournalDurable == Spec => []Durable
<1>1. IInv /\ [Next]_vars => IInv'
  <2>1. SUFFICES ASSUME IInv, [Next]_vars PROVE IInv'
    OBVIOUS
  <2>2. TInv'
    BY <2>1, NextTypes DEF IInv
  <2>3. QED
    BY <2>1, <2>2, NextFresh DEF IInv
<1>2. IInv => Durable
  BY DEF IInv
<1>3. QED
  BY <1>1, <1>2, InitKeeps, PTL DEF Spec

-----------------------------------------------------------------------------
(***************************************************************************)
(* The order of the live entries, inductive once the types are known: the  *)
(* live part grows at its head only, by an entry with the next sequence    *)
(* number, and is otherwise kept or emptied.                               *)
(***************************************************************************)

\* The live part that one more entry leaves: the old one, then the old head,
\* which was not live (the journal was not full).
LEMMA SpanAppended ==
    ASSUME NEW h \in Slot, NEW t \in Slot, NextPos(h) # t, NEW d, d = (h - t) % L
    PROVE  /\ d \in Nat /\ (NextPos(h) - t) % L = d + 1 /\ (t + d) % L = h
           /\ \A k \in 0 .. d - 1 : (t + k) % L # h
<1>0. L \in Nat /\ L >= 2 /\ h \in 0 .. L - 1 /\ t \in 0 .. L - 1
  BY LengthAssumption DEF Slot
<1>1. CASE h >= t
  <2>1. d = h - t /\ d \in Nat
    BY <1>0, <1>1, ModCases
  <2>2. (t + d) % L = h
    BY <1>0, <2>1, ModCases
  <2>3. \A k \in 0 .. d - 1 : (t + k) % L = t + k /\ t + k < h
    BY <1>0, <2>1, ModCases
  <2>4. (NextPos(h) - t) % L = d + 1
    <3>1. CASE h + 1 < L
      BY <1>0, <1>1, <2>1, <3>1, ModCases DEF NextPos
    <3>2. CASE h = L - 1
      <4>1. NextPos(h) = 0 /\ t > 0
        BY <1>0, <3>2, ModCases DEF NextPos
      <4> QED BY <1>0, <2>1, <3>2, <4>1, ModCases
    <3> QED BY <1>0, <3>1, <3>2
  <2> QED BY <1>0, <2>1, <2>2, <2>3, <2>4
<1>2. CASE h < t
  <2>1. d = h - t + L /\ d \in Nat
    BY <1>0, <1>2, ModCases
  <2>2. (t + d) % L = h
    BY <1>0, <1>2, <2>1, ModCases
  <2>3. ASSUME NEW k \in 0 .. d - 1 PROVE (t + k) % L # h
    <3>1. CASE t + k < L
      BY <1>0, <1>2, <3>1, ModCases
    <3>2. CASE t + k >= L
      <4>1. t + k \in L .. 2 * L - 1 /\ (t + k) - L < h
        BY <1>0, <1>2, <2>1, <3>2
      <4>2. (t + k) % L = (t + k) - L
        <5> DEFINE x == t + k
        <5>1. x \in L .. 2 * L - 1
          BY <4>1
        <5> HIDE DEF x
        <5>2. x % L = x - L
          BY <5>1, ModCases
        <5> QED BY <5>2 DEF x
      <4> QED BY <1>0, <4>1, <4>2
    <3> QED BY <1>0, <3>1, <3>2
  <2>4. (NextPos(h) - t) % L = d + 1
    <3>1. NextPos(h) = h + 1 /\ h + 1 < t
      BY <1>0, <1>2, ModCases DEF NextPos
    <3> QED BY <1>0, <2>1, <3>1, ModCases
  <2> QED BY <2>1, <2>2, <2>3, <2>4
<1> QED BY <1>0, <1>1, <1>2

\* Appending the entry with the next sequence number keeps the order.
LEMMA AppendOrdered ==
    ASSUME TypeOK, SeqOrdered, up, NEW e \in Entry, Append(e), e.seq = nextSeq,
           sb'.head = NextPos(sb.head), sb'.tail = sb.tail
    PROVE  SeqOrdered'
<1> DEFINE d == (sb.head - sb.tail) % L
           P(k) == (sb.tail + k) % L
<1>1. sb.head \in Slot /\ sb.tail \in Slot /\ NextPos(sb.head) # sb.tail /\ nextSeq' = nextSeq + 1 /\ nextSeq \in Int
  BY DEF TypeOK, Super, Append, Full
<1>2. /\ d \in Nat /\ (NextPos(sb.head) - sb.tail) % L = d + 1 /\ P(d) = sb.head
      /\ \A k \in 0 .. d - 1 : P(k) # sb.head
  BY <1>1, SpanAppended
<1>3. \A k \in Nat : P(k) \in Slot
  <2>1. \A k \in Nat : sb.tail + k \in Int
    BY <1>1 DEF Slot
  <2> QED BY <2>1, PosInSlot
<1>4. \A j \in Slot : slot'.mem[j] = IF j = sb.head THEN e ELSE slot.mem[j]
  BY <1>1, WriteSlotFacts DEF Append
<1>5. Span(sb) = 0 .. d - 1 /\ Span(sb)' = 0 .. d
  BY <1>2 DEF Span
<1>6. \A k : EntryAt(sb, slot.mem, k) = slot.mem[P(k)] /\ EntryAt(sb, slot.mem, k)' = slot'.mem[P(k)]
  BY DEF EntryAt
<1> HIDE DEF P, d
<1>7. \A k \in 0 .. d - 1 : slot'.mem[P(k)] = slot.mem[P(k)]
  BY <1>2, <1>3, <1>4
<1>8. slot'.mem[P(d)] = e
  BY <1>1, <1>2, <1>4
<1>9. ASSUME NEW k \in 0 .. d - 1 PROVE slot.mem[P(k)].seq \in Int /\ slot.mem[P(k)].seq < nextSeq
  <2>1. slot.mem[P(k)] \in Entry
    BY <1>2, <1>3 DEF TypeOK
  <2> QED BY <1>5, <1>6, <2>1 DEF SeqOrdered, Entry
<1>10. ASSUME NEW k \in 0 .. d
       PROVE  /\ slot'.mem[P(k)].seq < nextSeq'
              /\ \A i \in 0 .. k - 1 : slot'.mem[P(i)].seq < slot'.mem[P(k)].seq
  <2>1. CASE k = d
    BY <1>1, <1>2, <1>7, <1>8, <1>9, <2>1
  <2>2. CASE k \in 0 .. d - 1
    <3>1. slot'.mem[P(k)].seq < nextSeq'
      BY <1>1, <1>7, <1>9, <2>2
    <3>2. ASSUME NEW i \in 0 .. k - 1 PROVE slot'.mem[P(i)].seq < slot'.mem[P(k)].seq
      <4>1. i \in 0 .. d - 1
        BY <1>2, <2>2
      <4>2. slot.mem[P(i)].seq < slot.mem[P(k)].seq
        BY <1>5, <1>6, <2>2, <3>2 DEF SeqOrdered
      <4> QED BY <1>7, <2>2, <4>1, <4>2
    <3> QED BY <3>1, <3>2
  <2> QED BY <1>2, <2>1, <2>2
<1> QED BY <1>5, <1>6, <1>10 DEF SeqOrdered

\* A step that leaves the live part alone keeps the order: sequence numbers
\* are used up, never given back.
LEMMA SameOrdered ==
    ASSUME TypeOK, SeqOrdered, up, slot'.mem = slot.mem, sb' = sb, nextSeq' \in {nextSeq, nextSeq + 1}
    PROVE  SeqOrdered'
<1>1. ASSUME NEW k \in Span(sb) PROVE EntryAt(sb, slot.mem, k).seq \in Int
  <2>1. (sb.tail + k) % L \in Slot
    BY LivePos DEF TypeOK
  <2> QED BY <2>1 DEF EntryAt, TypeOK, Entry
<1>2. nextSeq \in Int
  BY DEF TypeOK
<1>3. Span(sb)' = Span(sb) /\ \A k : EntryAt(sb, slot.mem, k)' = EntryAt(sb, slot.mem, k)
  BY DEF Span, EntryAt
<1>4. \A k \in Span(sb) : /\ EntryAt(sb, slot.mem, k).seq < nextSeq
                          /\ \A i \in 0 .. k - 1 : EntryAt(sb, slot.mem, i).seq < EntryAt(sb, slot.mem, k).seq
  BY DEF SeqOrdered
<1>5. \A k \in Span(sb) : EntryAt(sb, slot.mem, k).seq < nextSeq'
  BY <1>1, <1>2, <1>4
<1> QED BY <1>3, <1>4, <1>5 DEF SeqOrdered

\* Dropping all live entries leaves nothing to be ordered.
LEMMA EmptyOrdered ==
    ASSUME TypeOK', sb'.head = sb'.tail
    PROVE  SeqOrdered'
<1>1. sb' \in Super
  BY DEF TypeOK
<1>2. Span(sb') = {}
  BY <1>1, SpanEmpty
<1> QED BY <1>2 DEF SeqOrdered, Span

\* One case per kind of step.
LEMMA NextOrdered ==
    ASSUME TInv, SeqOrdered, [Next]_vars
    PROVE  SeqOrdered'
<1>1. TypeOK /\ TypeOK' /\ nextSeq \in 0 .. MaxSeq
  BY NextTypes DEF TInv, TypeOK
<1>2. CASE ~up'
  BY <1>2 DEF SeqOrdered
<1>3. CASE sb'.head = sb'.tail
  BY <1>1, <1>3, EmptyOrdered
<1>4. CASE up /\ slot'.mem = slot.mem /\ sb' = sb /\ nextSeq' \in {nextSeq, nextSeq + 1}
  BY <1>1, <1>4, SameOrdered
<1>5. CASE up /\ \E e \in Entry : e.seq = nextSeq /\ Append(e) /\ sb'.head = NextPos(sb.head) /\ sb'.tail = sb.tail
  BY <1>1, <1>5, AppendOrdered
<1>6. /\ Advanced = [head |-> NextPos(sb.head), tail |-> sb.tail, seq |-> sb.seq]
      /\ \A c \in Cell : Update(c, nextSeq) \in Entry /\ Update(c, nextSeq).seq = nextSeq
      /\ Marker("COMMIT", nextSeq) \in Entry /\ Marker("COMMIT", nextSeq).seq = nextSeq
      /\ Flushed(slot).mem = slot.mem
  BY <1>1, AdvancedType, EntryTypes, FlushedFacts DEF Update, Marker
<1>7. ASSUME NEW c \in Rec, LogWrite(c) PROVE SeqOrdered'
  BY <1>5, <1>6, <1>7 DEF LogWrite, InCall, Cell
<1>8. CASE LogUpdate
  <2>1. arg.cell \in Cell
    BY <1>1, <1>8 DEF TInv, CallOK, LogUpdate, TypeOK
  <2> QED BY <1>5, <1>6, <1>8, <2>1 DEF LogUpdate
<1>9. CASE Commit
  <2>1. sb'.head = NextPos(sb.head) /\ sb'.tail = sb.tail
    BY <1>6, <1>9 DEF Commit
  <2> QED BY <1>5, <1>6, <1>9, <2>1 DEF Commit, InCall
<1>10. CASE CommitPublish \/ Mount
  <2>1. sb' = [sb EXCEPT !.tail = sb.head]
    BY <1>10 DEF CommitPublish, Mount
  <2> QED BY <1>1, <1>3, <2>1 DEF TypeOK, Super
<1>11. CASE CheckpointFlush
  <2>1. CASE Mark
    BY <1>3, <2>1 DEF Mark
  <2>2. CASE MarkFails
    BY <1>1, <1>3, <2>2 DEF MarkFails, TypeOK, Super
  <2> QED BY <1>11, <2>1, <2>2 DEF CheckpointFlush
<1>12. CASE LogWriteFails \/ UndoUpdate \/ CommitRefused
  BY <1>4, <1>12 DEF LogWriteFails, UndoUpdate, CommitRefused, AppendFails, InCall
<1>13. CASE CommitFlush \/ CommitRetire \/ CheckpointPublish
  BY <1>4, <1>6, <1>13 DEF CommitFlush, CommitRetire, CheckpointPublish
<1>14. CASE PlaceWrite \/ Start \/ CommitFails \/ Abort \/ AbortOrphan \/ CheckpointFails \/ UnmountInTx
            \/ UnmountWrite \/ MountFlush
  BY <1>4, <1>14 DEF PlaceWrite, Start, CommitFails, Abort, AbortOrphan, CheckpointFails, UnmountInTx,
                     UnmountWrite, MountFlush, InCall, NoCall
<1>15. CASE (\E c \in Mrt \cup Bit : PlaceUpdate(c)) \/ (\E w \in {"start", "sync", "unmount"} : Checkpoint(w))
  BY <1>4, <1>15 DEF PlaceUpdate, Checkpoint, InCall, NoCall
<1>16. CASE UnmountDown \/ Crash \/ ReplayCut
  BY <1>2, <1>16 DEF UnmountDown, Crash, ReplayCut, Down
<1>17. CASE UNCHANGED vars
  BY <1>2, <1>4, <1>17 DEF vars
<1> QED BY <1>7, <1>8, <1>9, <1>10, <1>11, <1>12, <1>13, <1>14, <1>15, <1>16, <1>17 DEF Next

\* The live part of the journal carries strictly increasing sequence numbers, all
\* used up: what journal_replay relies on to tell committed entries from later ones.
THEOREM JournalOrdered == Spec => []SeqOrdered
<1>1. Init => SeqOrdered
  BY DEF Init, SeqOrdered
<1> QED BY <1>1, InitTypes, NextTypes, NextOrdered, PTL DEF Spec
=============================================================================
