----------------------------- MODULE BlockStore -----------------------------
(***************************************************************************)
(* What SmKFS may assume of its block layer (read_block, write_block and   *)
(* block_cache_flush), with no cache in sight: a volatile image of every   *)
(* block, a stable image, and the promise that the stable image only ever  *)
(* moves towards the volatile one.                                         *)
(*                                                                         *)
(* A block is a row of sectors, because the drive writes sectors: a block  *)
(* whose write failed or was cut off is a mixture, sector by sector, of    *)
(* what was stable and what was to be written.                             *)
(***************************************************************************)
CONSTANTS
    Block,      \* block numbers
    Sector,     \* sector positions within a block
    Val         \* contents of one sector

VARIABLES
    mem,        \* the image the file system reads and writes
    stable,     \* the image that survives a power failure
    up,         \* the layer has been initialised and not shut down
    status,     \* result of the last call, with what a success promises
    buf         \* what the last successful read returned

vars == <<mem, stable, up, status, buf>>

Data == [Sector -> Val]
Image == [Block -> Data]

\* Every sector of img is the sector it was in old or the one in new.
Mixture(img, old, new) ==
    \A b \in Block, s \in Sector : img[b][s] \in {old[b][s], new[b][s]}

\* The stable image may take over part of the volatile one at any call.
WriteBack == stable' \in Image /\ Mixture(stable', stable, mem)

Init ==
    /\ stable \in Image
    /\ mem = stable
    /\ up = FALSE
    /\ status = "ok"
    /\ buf \in Data

\* A fresh start: what was not stable is gone.
Start ==
    /\ up' = TRUE
    /\ mem' = stable
    /\ UNCHANGED <<stable, status, buf>>

\* A read returns the volatile image.
Read(b) ==
    /\ up
    /\ WriteBack
    /\ status' = "ok"
    /\ buf' = mem[b]
    /\ UNCHANGED <<mem, up>>

\* A write takes effect on the volatile image as a whole.
Write(b, d) ==
    /\ up
    /\ WriteBack
    /\ status' = "ok"
    /\ mem' = [mem EXCEPT ![b] = d]
    /\ UNCHANGED <<up, buf>>

\* A read or write that fails changes nothing the caller can see.
Fail ==
    /\ up
    /\ WriteBack
    /\ status' = "io"
    /\ UNCHANGED <<mem, up, buf>>

\* A flush that reports success has made the volatile image stable.
Flush ==
    /\ up
    /\ WriteBack
    /\ status' \in {"flushed", "io"}
    /\ status' = "flushed" => stable' = mem
    /\ UNCHANGED <<mem, up, buf>>

\* Shutdown (and a power failure) keeps only the stable image.
Stop ==
    /\ up
    /\ WriteBack
    /\ mem' = stable'
    /\ up' = FALSE
    /\ UNCHANGED <<status, buf>>

Next ==
    \/ Start
    \/ \E b \in Block : Read(b)
    \/ \E b \in Block, d \in Data : Write(b, d)
    \/ Fail
    \/ Flush
    \/ Stop

Spec == Init /\ [][Next]_vars
=============================================================================
