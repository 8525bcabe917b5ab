-------------------------------- MODULE Exec --------------------------------
(***************************************************************************)
(* Loading and running an AMX program (exec/loader.c, exec/amx.c).  One    *)
(* action per stage of exec_run, each malloc of which may fail.            *)
(*                                                                         *)
(* Sizes and offsets count 32-bit words and are added modulo SizeMod, as   *)
(* uint32_t is; a patched word is added to modulo WordMod.  magic, version,*)
(* flags and the two names, which verify_header only compares or searches, *)
(* are one field.                                                          *)
(***************************************************************************)
EXTENDS Naturals, FiniteSets

CONSTANTS AmxFile,      \* the files considered: header fields and words
          AmxHeader,    \* AMX_HEADER_SIZE
          AmxMaxImage,  \* AMX_MAX_IMAGE_SIZE
          SizeMod,      \* 2^32 bytes, in words
          WordMod,      \* 2^32
          TypeMod,      \* 2^16: the upper half of a relocation's second word is reserved
          HeapAlign,    \* the unit of malloc, 16 bytes
          HeapMax,      \* the largest block there can be
          PastBlock,       \* what memory may hold past a block that was read in
          Address       \* where malloc may put the image

ASSUME AmxAssumption ==
    /\ {SizeMod, WordMod, TypeMod, HeapAlign} \subseteq Nat \ {0} /\ {AmxHeader, AmxMaxImage, HeapMax} \subseteq Nat
    /\ \A f \in AmxFile :
          /\ f.well_formed \in BOOLEAN /\ f.len \in Nat /\ f.words \in [0 .. f.len - 1 -> 0 .. WordMod - 1]
          /\ {f.image_offset, f.image_size, f.entry, f.bss_size, f.reloc_offset, f.reloc_count} \subseteq 0 .. SizeMod - 1
    /\ PastBlock \subseteq [0 .. 4 * SizeMod -> 0 .. WordMod - 1]
    /\ Address \subseteq (0 .. WordMod - 1) \ {0}

VARIABLES exPc,         \* idle | loaded | mapped | relocated | running | returned | fail
          exFile,       \* the file
          ctx,          \* [file_image, image_base, stack], 0 for NULL
          mem,          \* the words of the image and its BSS
          exDone,       \* relocations applied: i of the loop
          heap,         \* blocks exec_run owns
          freedTwice,   \* history
          trampled,     \* history: something was written past the end of a block
          exRet

execVars == <<exPc, exFile, ctx, mem, exDone, heap, freedTwice, trampled, exRet>>
-----------------------------------------------------------------------------
verify_header(f) ==
    /\ f.well_formed
    /\ f.image_offset >= AmxHeader
    /\ f.image_size > 0 /\ f.entry < f.image_size /\ f.image_size <= AmxMaxImage
    /\ IF f.reloc_count = 0 THEN f.reloc_offset = 0 ELSE f.reloc_offset >= AmxHeader

\* Three terms of uint32_t: the sum wraps.
Total(f) == (f.image_offset + f.image_size + 2 * f.reloc_count) % SizeMod
Mapping(f) == (f.image_size + f.bss_size) % SizeMod

\* malloc: ALIGN16 may wrap too; the words there are in a block of n.
Block(n) == (((n + HeapAlign - 1) \div HeapAlign) * HeapAlign) % SizeMod
Had(n) == n # 0 /\ Block(n) <= HeapMax

\* amfs_read's answer as the loader compares it: (int)total is negative in the
\* upper half.
ReadIn(f) == IF f.len < Total(f) THEN f.len ELSE Total(f)
Whole(f) == f.len >= Total(f) \/ 2 * Total(f) >= SizeMod

\* The word i of file_image: past what was read there is whatever memory holds.
Word(f, past, i) == IF i < ReadIn(f) THEN f.words[i] ELSE past[i]

ExecInit ==
    /\ exPc = "idle" /\ exFile \in AmxFile /\ ctx = [file_image |-> 0, image_base |-> 0, stack |-> 0]
    /\ mem = <<>> /\ exDone = 0 /\ heap = {} /\ freedTwice = FALSE /\ trampled = FALSE /\ exRet = 0

(* The header is read first to find the size of the rest.  ctx is filled   *)
(* only when the whole file is in memory, and every failure before that    *)
(* returns without a cleanup.                                              *)
exec_load(f, mallocOk) ==
    /\ exPc = "idle" /\ exFile' = f
    /\ LET begun == f.len >= AmxHeader /\ verify_header(f) /\ mallocOk /\ Had(Total(f))
       IN  /\ trampled' = (trampled \/ (begun /\ Block(Total(f)) < ReadIn(f)))
           /\ IF begun /\ Whole(f)
              THEN exPc' = "loaded" /\ heap' = {"file"} /\ exRet' = exRet
                   /\ ctx' = [file_image |-> 1, image_base |-> 0, stack |-> 0]
              ELSE exPc' = "idle" /\ exRet' = 1 /\ UNCHANGED <<heap, ctx>>
    /\ UNCHANGED <<mem, exDone, freedTwice>>

(* A stack that cannot be had undoes the allocation of the image.          *)
StackFailed_KeepsPointer(c, base) == [c EXCEPT !.image_base = base]
StackFailed(c, base) == [c EXCEPT !.image_base = 0]
exec_map(base, imageOk, stackOk, past) ==
    /\ exPc = "loaded"
    /\ LET had == imageOk /\ Had(Mapping(exFile))
       IN  /\ IF had /\ stackOk
              THEN /\ exPc' = "mapped" /\ heap' = heap \cup {"image", "stack"}
                   /\ ctx' = [ctx EXCEPT !.image_base = base, !.stack = 1]
                   /\ mem' = [i \in 1 .. (exFile.image_size + exFile.bss_size) |->
                                IF i > exFile.image_size THEN 0
                                ELSE Word(exFile, past, exFile.image_offset + i - 1)]
              ELSE /\ exPc' = "fail" /\ UNCHANGED <<heap, mem>>
                   /\ ctx' = IF had THEN StackFailed(ctx, base) ELSE ctx
           /\ trampled' = (trampled \/ (had /\ Block(Mapping(exFile)) < exFile.image_size)
                           \/ (had /\ stackOk /\ Block(Mapping(exFile)) < exFile.image_size + exFile.bss_size))
    /\ exDone' = 0 /\ UNCHANGED <<exFile, freedTwice, exRet>>

(* The table is applied entry by entry, wherever reloc_offset points; one  *)
(* that is out of the image or of an unknown type ends the run with the    *)
(* earlier ones applied.                                                   *)
Entry(f, past, k) == [offset |-> Word(f, past, f.reloc_offset + 2 * k - 2),
                      type   |-> Word(f, past, f.reloc_offset + 2 * k - 1) % TypeMod]
exec_relocate(past) ==
    /\ exPc = "mapped"
    /\ LET r == Entry(exFile, past, exDone + 1)
       IN  \/ /\ exDone < exFile.reloc_count /\ r.offset < exFile.image_size /\ r.type = 0
              /\ mem' = [mem EXCEPT ![r.offset + 1] = (@ + ctx.image_base) % WordMod]
              /\ exDone' = exDone + 1 /\ UNCHANGED exPc
           \/ /\ exDone < exFile.reloc_count /\ ~(r.offset < exFile.image_size /\ r.type = 0)
              /\ exPc' = "fail" /\ UNCHANGED <<mem, exDone>>
           \/ /\ exDone = exFile.reloc_count
              /\ exPc' = "relocated" /\ UNCHANGED <<mem, exDone>>
    /\ UNCHANGED <<exFile, ctx, heap, freedTwice, trampled, exRet>>

exec_start ==
    /\ exPc = "relocated" /\ exPc' = "running"
    /\ UNCHANGED <<exFile, ctx, mem, exDone, heap, freedTwice, trampled, exRet>>

(* The program runs in the kernel's address space and comes back.          *)
ProgramReturns ==
    /\ exPc = "running" /\ exPc' = "returned"
    /\ UNCHANGED <<exFile, ctx, mem, exDone, heap, freedTwice, trampled, exRet>>

exec_cleanup ==
    /\ exPc \in {"returned", "fail"} /\ exPc' = "idle" /\ exRet' = IF exPc = "fail" THEN 1 ELSE 0
    /\ LET freed == (IF ctx.stack # 0 THEN {"stack"} ELSE {}) \cup (IF ctx.image_base # 0 THEN {"image"} ELSE {})
                    \cup (IF ctx.file_image # 0 THEN {"file"} ELSE {})
       IN  heap' = heap \ freed /\ freedTwice' = (freedTwice \/ ~(freed \subseteq heap))
    /\ ctx' = [file_image |-> 0, image_base |-> 0, stack |-> 0]
    /\ mem' = <<>> /\ exDone' = 0
    /\ UNCHANGED <<exFile, trampled>>

ExecNext ==
    \/ \E f \in AmxFile, ok \in BOOLEAN : exec_load(f, ok)
    \/ \E a \in Address, i, s \in BOOLEAN, past \in PastBlock : exec_map(a, i, s, past)
    \/ (\E past \in PastBlock : exec_relocate(past)) \/ exec_start \/ ProgramReturns \/ exec_cleanup

ExecSpec == ExecInit /\ [][ExecNext]_execVars
-----------------------------------------------------------------------------
\* The image and the table lie in the part of the file that was read in.
InFile(f) == /\ f.image_offset + f.image_size <= ReadIn(f)
             /\ f.reloc_offset + 2 * f.reloc_count <= ReadIn(f)

(* exec_run (src/exec/loader.c).  Whichever allocation, header check or    *)
(* relocation fails, it gives back every block it took and no block twice. *)
(* A program that starts has its entry in its image and its BSS zero; and  *)
(* if image and table lie in the file, its image has each relocation       *)
(* applied once.  Of what happens after a wrapped sum made the loader write*)
(* past a block nothing is said.                                           *)
ExecSound ==
    /\ ~freedTwice
    /\ exPc = "idle" => heap = {}
    /\ exPc = "running" /\ ~trampled =>
          /\ heap = {"file", "image", "stack"} /\ exFile.entry < exFile.image_size
          /\ \A i \in (exFile.image_size + 1) .. (exFile.image_size + exFile.bss_size) : mem[i] = 0
          /\ InFile(exFile) => \A i \in 1 .. exFile.image_size :
                mem[i] = (exFile.words[exFile.image_offset + i - 1] + ctx.image_base *
                            Cardinality({k \in 1 .. exFile.reloc_count :
                                exFile.words[exFile.reloc_offset + 2 * k - 2] = i - 1})) % WordMod
=============================================================================
