--------------------------------- MODULE Nic ---------------------------------
(***************************************************************************)
(* The e1000 network driver (hw/e1000.c): the descriptor rings it shares   *)
(* with the card, the list of received packets filled by the interrupt     *)
(* handler, and the card itself, which is external.                        *)
(*                                                                         *)
(* Frames are numbered in the order in which the wire, or the caller of    *)
(* e1000_send, offers them.  The handler runs with interrupts off and      *)
(* takes one frame per step, so the card moves between two frames;         *)
(* e1000_rx_dequeue runs in a task and may be interrupted between its      *)
(* writes to head and tail.  Lengths, checksums and counters are left out. *)
(*                                                                         *)
(* The card may interrupt before e1000_ready is set and the handler, on a  *)
(* vector it may share, run after e1000_shutdown has freed the rings.  The *)
(* first loses what the card reported: ICR is cleared by reading it, and   *)
(* e1000_receive and e1000_poll_link do nothing before e1000_ready.        *)
(***************************************************************************)
EXTENDS Integers, Sequences, SequencesExt, FiniteSets

CONSTANTS RxRing, TxRing,      \* E1000_RX_RING_SIZE, E1000_TX_RING_SIZE
          RxMax, TxMax         \* frames explored in each direction

VARIABLES nicState,    \* down | starting | ready | stopping | failed | off
          rings,       \* the rings that are allocated
          rxOn,        \* external: RCTL.EN
          rx,          \* [desc : ring of frames (0: not done), head, rdh, rdt]
          tx,          \* [desc : ring of [dd, frame], tail, tdh, tdt]
          icr,         \* external: pending interrupt causes
          lu,          \* external: the link is up
          linkUp,      \* E1000_FLAG_LINK_UP
          rxq,         \* [next : frame -> frame, head, tail], 0 for NULL
          nicPc,       \* [irq : the handler runs, causes : what it read, deq : the packet being dequeued]
          net,         \* history: [offered, taken, dropped, delivered, accepted, sent]
          raced,       \* history: a packet was queued between the writes of a dequeue
          linkTold     \* history: a link interrupt was handled after e1000_ready was set

\* A ring has a descriptor for the card; the receive ring one more, for the driver.
ASSUME NicAssumption == {RxRing, TxRing, RxMax, TxMax} \subseteq Nat /\ RxRing > 1 /\ TxRing > 0

nicVars == <<nicState, rings, rxOn, rx, tx, icr, lu, linkUp, rxq, nicPc, net, raced, linkTold>>
-----------------------------------------------------------------------------
e1000_init_rx == [desc |-> [i \in 0 .. RxRing - 1 |-> 0], head |-> 0, rdh |-> 0, rdt |-> RxRing - 1]
e1000_init_tx ==
    [desc |-> [i \in 0 .. TxRing - 1 |-> [dd |-> TRUE, frame |-> 0]], tail |-> 0, tdh |-> 0, tdt |-> 0]

(* The card (external).  It fills descriptors up to the tail the driver    *)
(* last wrote, misses a frame when there is none, and sends what lies      *)
(* between the head and the tail of the transmit ring.                     *)
CardReceives ==
    /\ rxOn /\ net.offered < RxMax
    /\ IF rx.rdh = rx.rdt
       THEN net' = [net EXCEPT !.offered = @ + 1] /\ UNCHANGED <<rx, icr>>
       ELSE /\ net' = [net EXCEPT !.offered = @ + 1, !.taken = @ \cup {net.offered + 1}]
            /\ rx' = [rx EXCEPT !.desc[rx.rdh] = net.offered + 1, !.rdh = (@ + 1) % RxRing]
            /\ icr' = icr \cup {"RXT0"}
    /\ UNCHANGED <<nicState, rings, rxOn, tx, lu, linkUp, rxq, nicPc, raced, linkTold>>

CardSends ==
    /\ nicState = "ready" /\ tx.tdh # tx.tdt
    /\ net' = [net EXCEPT !.sent = Append(@, tx.desc[tx.tdh].frame)]
    /\ tx' = [tx EXCEPT !.desc[tx.tdh].dd = TRUE, !.tdh = (@ + 1) % TxRing]
    /\ icr' = icr \cup {"TXDW"}
    /\ UNCHANGED <<nicState, rings, rxOn, rx, lu, linkUp, rxq, nicPc, raced, linkTold>>

LinkChanges ==
    /\ net.offered < RxMax
    /\ lu' = ~lu /\ icr' = icr \cup {"LSC"}
    /\ UNCHANGED <<nicState, rings, rxOn, rx, tx, linkUp, rxq, nicPc, net, raced, linkTold>>
-----------------------------------------------------------------------------
NicInit ==
    /\ nicState = "down" /\ rings = {} /\ rxOn = FALSE /\ rx = e1000_init_rx /\ tx = e1000_init_tx
    /\ icr = {} /\ lu \in BOOLEAN /\ linkUp = FALSE
    /\ rxq = [next |-> [f \in 1 .. RxMax |-> 0], head |-> 0, tail |-> 0]
    /\ nicPc = [irq |-> FALSE, causes |-> {}, deq |-> 0]
    /\ net = [offered |-> 0, taken |-> {}, dropped |-> {}, delivered |-> <<>>, accepted |-> 0, sent |-> <<>>]
    /\ raced = FALSE /\ linkTold = FALSE

e1000_ready == nicState \in {"ready", "stopping"}

(* Either ring may not be had; the receive ring is then kept, switched on. *)
(* The call of e1000_poll_link does nothing, because e1000_ready is not    *)
(* set.  From e1000_init_rx on the card takes frames; it interrupts once   *)
(* the handler is registered and unmasked, which a card without an         *)
(* interrupt pin never does, and e1000_ready is set only after that.       *)
e1000_init(rxOk, txOk) ==
    /\ nicState = "down"
    /\ rings' = (IF rxOk THEN {"rx"} ELSE {}) \cup (IF rxOk /\ txOk THEN {"tx"} ELSE {})
    /\ rxOn' = rxOk /\ nicState' = (IF rxOk /\ txOk THEN "starting" ELSE "failed") /\ icr' = {}
    /\ UNCHANGED <<rx, tx, lu, linkUp, rxq, nicPc, net, raced, linkTold>>

InitEnds ==
    /\ nicState = "starting" /\ ~nicPc.irq
    /\ nicState' = "ready"
    /\ UNCHANGED <<rings, rxOn, rx, tx, icr, lu, linkUp, rxq, nicPc, net, raced, linkTold>>

(* A frame is accepted only into a descriptor the card is done with.  The  *)
(* loop that moves tx_head on is left out: nothing else reads tx_head.     *)
e1000_send ==
    /\ nicState = "ready" /\ ~nicPc.irq /\ net.accepted < TxMax
    /\ LET tail == (tx.tail + 1) % TxRing
       IN  IF ~tx.desc[tx.tail].dd THEN UNCHANGED <<tx, net>>
           ELSE /\ tx' = [tx EXCEPT !.desc[tx.tail] = [dd |-> FALSE, frame |-> net.accepted + 1],
                                    !.tail = tail, !.tdt = tail]
                /\ net' = [net EXCEPT !.accepted = @ + 1]
    /\ UNCHANGED <<nicState, rings, rxOn, rx, icr, lu, linkUp, rxq, nicPc, raced, linkTold>>

(* The handler: reading ICR clears it.                                     *)
e1000_irq_handler ==
    /\ nicState \in {"starting", "ready", "stopping"} /\ ~nicPc.irq /\ icr # {}
    /\ nicPc' = [nicPc EXCEPT !.irq = TRUE, !.causes = icr] /\ icr' = {}
    /\ UNCHANGED <<nicState, rings, rxOn, rx, tx, lu, linkUp, rxq, net, raced, linkTold>>

e1000_rx_enqueue(f) ==
    LET next == rxq.next
    IN  rxq' = [rxq EXCEPT !.next = IF rxq.tail = 0 THEN next ELSE [next EXCEPT ![rxq.tail] = f],
                           !.head = IF rxq.tail = 0 THEN f ELSE rxq.head, !.tail = f]

(* e1000_receive gives the descriptor back by writing its own index to the *)
(* tail; without memory for the packet the frame is dropped.               *)
Returned_Next(i) == (i + 1) % RxRing
Returned(i) == i
e1000_receive(mallocOk) ==
    /\ nicPc.irq /\ e1000_ready /\ "RXT0" \in nicPc.causes /\ rx.desc[rx.head] # 0
    /\ rx' = [rx EXCEPT !.desc[rx.head] = 0, !.head = (@ + 1) % RxRing, !.rdt = Returned(rx.head)]
    /\ IF mallocOk
       THEN e1000_rx_enqueue(rx.desc[rx.head]) /\ raced' = (raced \/ nicPc.deq # 0) /\ net' = net
       ELSE net' = [net EXCEPT !.dropped = @ \cup {rx.desc[rx.head]}] /\ UNCHANGED <<rxq, raced>>
    /\ UNCHANGED <<nicState, rings, rxOn, tx, icr, lu, linkUp, nicPc, linkTold>>

(* The end of the handler: a link change it was told of is read from the   *)
(* status register (e1000_poll_link), once e1000_ready is set.             *)
HandlerEnds ==
    /\ nicPc.irq /\ (e1000_ready /\ "RXT0" \in nicPc.causes => rx.desc[rx.head] = 0)
    /\ linkUp' = IF e1000_ready /\ "LSC" \in nicPc.causes THEN lu ELSE linkUp
    /\ linkTold' = (linkTold \/ (e1000_ready /\ "LSC" \in nicPc.causes))
    /\ nicPc' = [nicPc EXCEPT !.irq = FALSE, !.causes = {}]
    /\ UNCHANGED <<nicState, rings, rxOn, rx, tx, icr, lu, rxq, net, raced>>

e1000_rx_dequeue ==
    /\ ~nicPc.irq /\ nicPc.deq = 0 /\ rxq.head # 0
    /\ nicPc' = [nicPc EXCEPT !.deq = rxq.head]
    /\ rxq' = [rxq EXCEPT !.head = rxq.next[rxq.head]]
    /\ UNCHANGED <<nicState, rings, rxOn, rx, tx, icr, lu, linkUp, net, raced, linkTold>>

DequeueEnds ==
    /\ ~nicPc.irq /\ nicPc.deq # 0
    /\ nicPc' = [nicPc EXCEPT !.deq = 0]
    /\ rxq' = [rxq EXCEPT !.tail = IF rxq.head = 0 THEN 0 ELSE @]
    /\ net' = [net EXCEPT !.delivered = Append(@, nicPc.deq)]
    /\ UNCHANGED <<nicState, rings, rxOn, rx, tx, icr, lu, linkUp, raced, linkTold>>

(* The list is drained and the rings are freed first, and e1000_ready is   *)
(* cleared last: in between the handler still takes what the freed ring    *)
(* holds, which is as it was because nothing here takes its frames.        *)
e1000_shutdown ==
    /\ nicState = "ready" /\ ~nicPc.irq /\ nicPc.deq = 0
    /\ nicState' = "stopping" /\ rings' = {} /\ rxOn' = FALSE
    /\ rxq' = [rxq EXCEPT !.head = 0, !.tail = 0]
    /\ UNCHANGED <<rx, tx, icr, lu, linkUp, nicPc, net, raced, linkTold>>

ShutdownEnds ==
    /\ nicState = "stopping" /\ ~nicPc.irq
    /\ nicState' = "off" /\ rx' = [rx EXCEPT !.head = 0] /\ tx' = [tx EXCEPT !.tail = 0]
    /\ UNCHANGED <<rings, rxOn, icr, lu, linkUp, rxq, nicPc, net, raced, linkTold>>

NicReceive ==
    \/ CardReceives \/ LinkChanges \/ e1000_irq_handler \/ HandlerEnds \/ e1000_rx_dequeue \/ DequeueEnds
    \/ \E mallocOk \in BOOLEAN : e1000_receive(mallocOk)
NicSend == CardSends \/ LinkChanges \/ e1000_irq_handler \/ HandlerEnds \/ e1000_send
NicStart == InitEnds \/ e1000_shutdown \/ ShutdownEnds \/ \E rxOk, txOk \in BOOLEAN : e1000_init(rxOk, txOk)

NicSpec == NicInit /\ [][NicReceive \/ NicSend \/ NicStart]_nicVars
-----------------------------------------------------------------------------
(* What is on its way.  Frames are numbered, so what has to be in the list *)
(* of packets follows from what was taken, dropped, handed out and is      *)
(* still in the ring; the order in the list is that of the numbers.        *)
RxFilled == {i \in 0 .. RxRing - 1 : rx.desc[(rx.head + i) % RxRing] # 0}
InRing == [i \in 1 .. Cardinality(RxFilled) |-> rx.desc[(rx.head + i - 1) % RxRing]]
Owed == net.taken \ net.dropped
Dequeued == {nicPc.deq} \ {0}
Queued == Owed \ (Range(net.delivered) \cup Dequeued \cup Range(InRing))
TxWaiting == {i \in 0 .. TxRing - 1 : ~tx.desc[(tx.tail + i) % TxRing].dd}
Unsent == LET n == Cardinality(TxWaiting)
          IN  [i \in 1 .. n |-> tx.desc[(tx.tail + TxRing - n + i - 1) % TxRing].frame]

Rising(q) == \A i, j \in DOMAIN q : i < j => q[i] < q[j]
Below(A, B) == \A a \in A, b \in B : a < b
\* The link g that a packet f of S has, in a list that holds S in order; f is 0 for the head.
Follows(S, f, g) == IF g = 0 THEN \A h \in S : h <= f ELSE g \in S /\ g > f /\ \A h \in S : h > f => g <= h

(* Whatever the card does while the handler drains the ring and wherever   *)
(* the handler interrupts the task: every frame the card took and memory   *)
(* could be found for reaches e1000_rx_dequeue once and in order, unless a *)
(* packet was queued in the middle of a dequeue; a drained ring always     *)
(* leaves the card a descriptor; what e1000_send accepted is on the wire   *)
(* or in the ring, in order, and the card can send it unless the ring was  *)
(* filled to the last descriptor; and once a link interrupt was handled    *)
(* with e1000_ready set, the link flag is the link's state, however many   *)
(* link interrupts were read away before (e1000_irq_handler,               *)
(* e1000_rx_enqueue, e1000_rx_dequeue, e1000_send).  That a frame in the   *)
(* ring has an interrupt coming is not said: the one of a frame taken      *)
(* between the unmasking and e1000_ready = 1 is read away.                 *)
NicInOrder ==
    nicState = "ready" =>
        /\ ~raced =>
              /\ Rising(net.delivered) /\ Rising(InRing)
              /\ Range(net.delivered) \cup Dequeued \cup Range(InRing) \subseteq Owed
              /\ Below(Range(net.delivered), Dequeued \cup Queued \cup Range(InRing))
              /\ Below(Dequeued, Queued \cup Range(InRing)) /\ Below(Queued, Range(InRing))
              /\ Follows(Queued, 0, rxq.head) /\ \A f \in Queued : Follows(Queued, f, rxq.next[f])
        /\ InRing = <<>> => rx.rdh # rx.rdt
        /\ net.sent \o Unsent = [i \in 1 .. net.accepted |-> i]
        /\ Unsent # <<>> /\ Len(Unsent) < TxRing => tx.tdh # tx.tdt
        /\ linkTold /\ "LSC" \notin icr \cup nicPc.causes => linkUp = lu
=============================================================================
