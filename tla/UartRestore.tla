----------------------------- MODULE UartRestore -----------------------------
(***************************************************************************)
(* Brick recovery: stock_recovery_wizard puts a safe U-Boot into the RAM   *)
(* of the board (XmodemSend is that transfer) and drives it over the       *)
(* serial line, perform_stock_restore_in_uboot.  The stock image is        *)
(* written chunk by chunk around the bad eraseblocks, each piece is read   *)
(* back, and BL2 comes last.                                               *)
(*                                                                         *)
(* U-Boot's mtd write and mtd read skip a bad block they meet and put the  *)
(* data that belongs there, and all that follows, one block further on; a  *)
(* readback skips the same block and agrees.  So a block that goes bad     *)
(* between a scan and a write is noticed only by the message of the write  *)
(* or by the last scan, and either may lose a line on the serial cable.    *)
(***************************************************************************)
EXTENDS Naturals, FiniteSets

CONSTANTS
    Blocks,     \* eraseblocks of the partition ubi
    Stock,      \* of these, the ones the stock image covers
    Mutable,    \* blocks where stock keeps UBI volumes: they may be bad
    ChunkSize,  \* eraseblocks in a chunk
    Loads,      \* attempts of a TFTP load (3)
    MaxBad,     \* bound: bad blocks
    MaxNoise,   \* bound: lines lost on the serial line in one run
    MaxUpsets   \* bound: commands that fail, power cuts, refusals

ASSUME RestoreAssumption ==
    /\ {Blocks, Stock, ChunkSize, Loads} \subseteq Nat \ {0}
    /\ Stock < Blocks
    /\ Mutable \subseteq 0..Stock - 1
    /\ {MaxBad, MaxNoise, MaxUpsets} \subseteq Nat

VARIABLES
    phase,    \* where the wizard is
    chunk,    \* the chunk it is at
    spans,    \* the good spans of the chunk still to do, <<first, length>>
    tries,    \* attempts of the TFTP load
    pre,      \* bad blocks it saw before the erase
    post,     \* bad blocks it saw after it
    noise,    \* lines lost in this run
    upsets,   \* failures so far
    ram,      \* the board's memory at the load address, by block
    nand,     \* the content of each block of ubi
    bad,      \* the blocks marked bad
    bl2       \* the content of the partition bl2

wizard == <<phase, chunk, spans, tries, pre, post, noise>>
flash == <<nand, bad, bl2>>
vars == <<wizard, upsets, ram, flash>>

Block == 0..Blocks - 1
StockBlock == 0..Stock - 1
Zero == Blocks          \* memory filled with 0
Blank == Blocks + 1     \* an erased block
Other == Blocks + 2     \* anything else; block i of the stock image is i
Content == StockBlock \cup {Zero, Blank, Other}

Smaller(a, b) == IF a < b THEN a ELSE b
First(c) == c * ChunkSize
Chunk == {c \in StockBlock : First(c) < Stock}
Size(c) == Smaller(ChunkSize, Stock - First(c))
BlocksOf(c) == First(c)..First(c) + Size(c) - 1

Ended == {"idle", "failed", "done"}
Phases == Ended \cup {"preloader", "fip", "prompt", "prove", "geometry",
                      "scan", "load", "confirm", "rescan", "write", "read", "final",
                      "load bl2", "erase bl2", "write bl2", "read bl2",
                      "reset", "watch"}

TypeOK ==
    /\ phase \in Phases
    /\ chunk \in Chunk
    /\ spans \subseteq StockBlock \X (1..ChunkSize)
    /\ tries \in 0..Loads - 1
    /\ {pre, post, bad} \subseteq SUBSET Block
    /\ noise \in 0..MaxNoise /\ upsets \in 0..MaxUpsets
    /\ ram \in [0..ChunkSize - 1 -> Content]
    /\ nand \in [Block -> Content]
    /\ bl2 \in {"old", "blank", "stock", "other"}

Init ==
    /\ phase = "idle" /\ chunk = 0 /\ spans = {} /\ tries = 0
    /\ pre = {} /\ post = {} /\ noise = 0 /\ upsets = 0
    /\ ram = [i \in 0..ChunkSize - 1 |-> Other]
    /\ nand = [b \in Block |-> Other] /\ bl2 = "old"
    /\ bad \in {B \in SUBSET Block : Cardinality(B) <= Smaller(1, MaxBad)}

(***************************************************************************)
(* A run up to the confirmation.  Nothing but a finished restore keeps the *)
(* operator from starting again: the BootROM is always there.              *)
(***************************************************************************)
Start ==
    /\ phase \in {"idle", "failed"}
    /\ phase' = "preloader" /\ chunk' = 0 /\ spans' = {} /\ tries' = 0
    /\ pre' = {} /\ post' = {} /\ noise' = 0
    /\ ram' = [i \in 0..ChunkSize - 1 |-> Other]
    /\ UNCHANGED <<upsets, flash>>

Advance(from, to) ==
    /\ phase = from /\ phase' = to
    /\ UNCHANGED <<chunk, spans, tries, pre, post, noise, ram, flash>>

\* The BootROM asks, and takes two images by XMODEM.
SendPreloader == Advance("preloader", "fip") /\ UNCHANGED upsets
SendFip == Advance("fip", "prompt") /\ UNCHANGED upsets

\* The prompt of the U-Boot in memory.  If the installed system has started
\* instead, the profile forbids to go on over SSH.
Prompt == Advance("prompt", "prove") /\ UNCHANGED upsets
MissPrompt ==
    /\ upsets < MaxUpsets /\ upsets' = upsets + 1
    /\ Advance("prompt", "failed")

\* The SAFE marker and the nonce; then the sizes of bl2 and ubi.
Prove == Advance("prove", "geometry") /\ UNCHANGED upsets
Geometry == Advance("geometry", "scan") /\ UNCHANGED upsets

\* mtd bad: a line that does not parse is passed over.
Scanned(seen) ==
    \/ seen = bad /\ noise' = noise
    \/ /\ noise < MaxNoise /\ noise' = noise + 1
       /\ \E b \in bad : seen = bad \ {b}

\* (Mutant of Acceptable: the first block of the mutable area is refused.)
AcceptableOffByOne(seen) ==
    \A b \in seen \cap StockBlock : b \in Mutable /\ b - 1 \in Mutable

Acceptable(seen) == seen \cap StockBlock \subseteq Mutable

Scan ==
    /\ phase = "scan"
    /\ \E seen \in SUBSET bad :
         /\ Scanned(seen) /\ pre' = seen
         /\ phase' = IF Acceptable(seen) THEN "load" ELSE "failed"
    /\ UNCHANGED <<chunk, spans, tries, post, upsets, ram, flash>>

(***************************************************************************)
(* Erase, scan, write around the bad blocks, read back.                    *)
(***************************************************************************)
\* mtd erase ubi passes over the bad blocks.
ErasedBefore(n) == [b \in Block |-> IF b \in bad \/ b >= n THEN nand[b] ELSE Blank]

Erase ==
    /\ phase = "confirm" /\ phase' = "rescan"
    /\ nand' = ErasedBefore(Blocks)
    /\ UNCHANGED <<chunk, spans, tries, pre, post, noise, upsets, ram, bad, bl2>>

\* _chunk_good_spans: what lies between the bad blocks of a chunk.
ChunkGoodSpans(c, known) ==
    LET good == BlocksOf(c) \ known
    IN  {span \in good \X (1..ChunkSize) :
           /\ span[1]..span[1] + span[2] - 1 \subseteq good
           /\ span[1] - 1 \notin good /\ span[1] + span[2] \notin good}

\* A chunk that lies in bad blocks altogether stops the restore.
Enter(c, known) ==
    /\ spans' = ChunkGoodSpans(c, known)
    /\ phase' = IF spans' = {} THEN "failed" ELSE "write"

\* _uboot_tftp_load of a chunk, its CRC-32 checked in memory.  The first
\* chunk is loaded before the flash is touched.
Load ==
    /\ phase = "load"
    /\ ram' = [i \in 0..ChunkSize - 1 |->
                 IF i < Size(chunk) THEN First(chunk) + i ELSE ram[i]]
    /\ IF chunk = 0 THEN phase' = "confirm" /\ UNCHANGED spans
                    ELSE Enter(chunk, post)
    /\ tries' = 0
    /\ UNCHANGED <<chunk, pre, post, noise, upsets, flash>>

LoadBl2 ==
    /\ phase = "load bl2" /\ phase' = "erase bl2" /\ tries' = 0
    /\ ram' = [ram EXCEPT ![0] = Other]
    /\ UNCHANGED <<chunk, spans, pre, post, noise, upsets, flash>>

LoadAgain ==
    /\ phase \in {"load", "load bl2"} /\ upsets < MaxUpsets
    /\ upsets' = upsets + 1
    /\ IF tries + 1 < Loads THEN tries' = tries + 1 /\ phase' = phase
                            ELSE tries' = 0 /\ phase' = "failed"
    /\ UNCHANGED <<chunk, spans, pre, post, noise, ram, flash>>

Rescan ==
    /\ phase = "rescan"
    /\ \E seen \in SUBSET bad :
         /\ Scanned(seen) /\ post' = seen
         /\ IF Acceptable(seen) /\ pre \subseteq seen
            THEN Enter(0, seen)
            ELSE phase' = "failed" /\ UNCHANGED spans
    /\ UNCHANGED <<chunk, tries, pre, upsets, ram, flash>>

\* Where mtd write and mtd read find the blocks of a span: the good blocks
\* from its first one on.
GoodFrom(s) == {b \in Block : b >= s /\ b \notin bad}
Rank(b, s) == Cardinality({g \in GoodFrom(s) : g < b})
Targets(s, n) == {b \in GoodFrom(s) : Rank(b, s) < n}
Skips(s, n) == \E b \in bad : b >= s /\ \E t \in Targets(s, n) : t > b

Local(s) == s - First(chunk)
Written(s, n) == [b \in Block |->
    IF b \in Targets(s, n) THEN ram[Local(s) + Rank(b, s)] ELSE nand[b]]

\* The loop over the spans takes them in order.
Span == CHOOSE span \in spans : \A other \in spans : span[1] <= other[1]

\* The message of a write that skipped a block stops the restore, unless
\* the line is lost.
Write ==
    /\ phase = "write"
    /\ LET s == Span[1]
           n == Span[2]
       IN  /\ nand' = Written(s, n)
           /\ \/ ~Skips(s, n) /\ phase' = "read" /\ noise' = noise
              \/ Skips(s, n) /\ phase' = "failed" /\ noise' = noise
              \/ /\ Skips(s, n) /\ noise < MaxNoise
                 /\ phase' = "read" /\ noise' = noise + 1
    /\ UNCHANGED <<chunk, spans, tries, pre, post, upsets, ram, bad, bl2>>

\* mw.b and mtd read.  A read may report success and bring nothing.
ReadBack(s, n, delivered) == [i \in 0..ChunkSize - 1 |->
    LET found == {b \in Targets(s, n) : Local(s) + Rank(b, s) = i}
    IN  IF i < Local(s) \/ i >= Local(s) + n THEN ram[i]
        ELSE IF delivered /\ found # {} THEN nand[CHOOSE b \in found : TRUE] ELSE Zero]

NextSpan ==
    /\ spans' = spans \ {Span}
    /\ IF spans' # {} THEN phase' = "write" /\ chunk' = chunk
       ELSE IF chunk + 1 \in Chunk THEN phase' = "load" /\ chunk' = chunk + 1
       ELSE phase' = "final" /\ chunk' = chunk

\* The CRC-32 of what came back is compared with that of the file.
Read ==
    /\ phase = "read"
    /\ \E delivered \in BOOLEAN :
         LET s == Span[1]
             n == Span[2]
         IN  /\ delivered \/ upsets < MaxUpsets
             /\ upsets' = IF delivered THEN upsets ELSE upsets + 1
             /\ ram' = ReadBack(s, n, delivered)
             /\ IF \A k \in 0..n - 1 : ram'[Local(s) + k] = s + k
                THEN NextSpan
                ELSE phase' = "failed" /\ UNCHANGED <<chunk, spans>>
    /\ UNCHANGED <<tries, pre, post, noise, flash>>

(***************************************************************************)
(* The last scan, and BL2.                                                 *)
(***************************************************************************)
\* (Mutant of FinalScan: new bad blocks pass, as after the erase.)
FinalScanSubset ==
    /\ phase = "final"
    /\ \E seen \in SUBSET bad :
         /\ Scanned(seen)
         /\ phase' = IF Acceptable(seen) /\ post \subseteq seen THEN "load bl2" ELSE "failed"
    /\ UNCHANGED <<chunk, spans, tries, pre, post, upsets, ram, flash>>

FinalScan ==
    /\ phase = "final"
    /\ \E seen \in SUBSET bad :
         Scanned(seen) /\ phase' = IF seen = post THEN "load bl2" ELSE "failed"
    /\ UNCHANGED <<chunk, spans, tries, pre, post, upsets, ram, flash>>

Bl2Step(from, to, content) ==
    /\ phase = from /\ phase' = to /\ bl2' = content
    /\ UNCHANGED <<chunk, spans, tries, pre, post, noise, ram, nand, bad>>

EraseBl2 == Bl2Step("erase bl2", "write bl2", "blank") /\ UNCHANGED upsets

\* The write may report success over something else.
WriteBl2 ==
    \/ Bl2Step("write bl2", "read bl2", "stock") /\ UNCHANGED upsets
    \/ /\ Bl2Step("write bl2", "read bl2", "other")
       /\ upsets < MaxUpsets /\ upsets' = upsets + 1

\* (Mutant of ReadBl2: the exit code of the write is believed.)
ReadBl2Unread == Advance("read bl2", "reset") /\ UNCHANGED upsets

ReadBl2 == Advance("read bl2", IF bl2 = "stock" THEN "reset" ELSE "failed") /\ UNCHANGED upsets

\* Confirmed or not, the reset and the new boot are only watched.
Reset == Advance("reset", "watch") /\ UNCHANGED upsets
Watch == Advance("watch", "done") /\ UNCHANGED upsets

(***************************************************************************)
(* What can go wrong.                                                      *)
(***************************************************************************)
\* A command fails, the cable or the power is pulled, an answer does not
\* parse, the operator refuses: the run ends where it is.
Stop ==
    /\ phase \notin Ended \cup {"reset", "watch"} /\ upsets < MaxUpsets
    /\ phase' = "failed" /\ upsets' = upsets + 1
    /\ nand' \in CASE phase = "confirm" -> {ErasedBefore(n) : n \in Block}
                   [] phase = "write" -> {Written(Span[1], n) : n \in 0..Span[2]}
                   [] OTHER -> {nand}
    /\ bl2' \in CASE phase = "erase bl2" -> {bl2, "blank"}
                  [] phase = "write bl2" -> {bl2, "other"}
                  [] OTHER -> {bl2}
    /\ UNCHANGED <<chunk, spans, tries, pre, post, noise, ram, bad>>

\* mtd write returns 0 over a block that does not read back.
WriteBadly ==
    /\ phase = "write" /\ upsets < MaxUpsets
    /\ phase' = "read" /\ upsets' = upsets + 1
    /\ LET s == Span[1]
           n == Span[2]
       IN  /\ ~Skips(s, n)
           /\ \E b \in Targets(s, n) : nand' = [Written(s, n) EXCEPT ![b] = Other]
    /\ UNCHANGED <<chunk, spans, tries, pre, post, noise, ram, bad, bl2>>

\* A block is found bad, whoever finds it, and is marked.
Wear ==
    /\ Cardinality(bad) < MaxBad
    /\ \E b \in Block \ bad :
         bad' = bad \cup {b} /\ nand' = [nand EXCEPT ![b] = Other]
    /\ UNCHANGED <<wizard, upsets, ram, bl2>>

Progress ==
    \/ Start \/ SendPreloader \/ SendFip \/ Prompt \/ Prove \/ Geometry \/ Scan
    \/ Load \/ Erase \/ Rescan \/ Write \/ Read
    \/ FinalScan \/ LoadBl2 \/ EraseBl2 \/ WriteBl2 \/ ReadBl2 \/ Reset \/ Watch
Next == Progress \/ MissPrompt \/ LoadAgain \/ Stop \/ WriteBadly \/ Wear

\* The wizard's thread goes on, and an operator with a bricked board starts
\* it again.
Spec == Init /\ [][Next]_vars
FairSpec == Spec /\ WF_vars(Progress)

-----------------------------------------------------------------------------
(***************************************************************************)
(* Properties.                                                             *)
(***************************************************************************)
\* BL2 is touched only over a stock image in its place: every block holds
\* its own data, except bad ones in the mutable area and ones that went
\* bad after the last scan, although U-Boot shifts data past a bad block,
\* its readback agrees, and a line of a scan or of the message may be lost
\* (7777-7791, 7849-7993).  One line in a run: if the message of the write
\* and the line of the last scan that names the block are both lost, nothing
\* is left that could tell.
InPlace(b) == nand[b] = b \/ (b \in bad /\ (b \in Mutable \/ b \notin post))
Bl2OverStockImage == [][bl2' # bl2 /\ noise <= 1 => \A b \in StockBlock : InPlace(b)]_vars

\* A restore is reported only over a complete one: no write that reports
\* success, and no read that reports success and brings nothing, passes.
DoneIsRestored ==
    phase \in {"reset", "watch", "done"} =>
        /\ bl2 = "stock"
        /\ noise <= 1 => \A b \in StockBlock \ bad : nand[b] = b

\* A board whose raw-critical blocks are good, and that has a good block in
\* every chunk, is restored in the end, however often the restore has been
\* cut, once the serial line is quiet.
Restorable ==
    /\ bad \cap StockBlock \subseteq Mutable
    /\ \A c \in Chunk : ~(BlocksOf(c) \subseteq bad)
RestoredAtLast == <>(phase = "done") \/ <>(~Restorable) \/ []<>(noise > 0)
=============================================================================
