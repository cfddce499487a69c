------------------------- MODULE BrickRecoveryProofs -------------------------
(* What holds of the recovery of a bricked board over its serial line: of the *)
(* restore of the stock image through the loader's prompt, for every size of  *)
(* the memory and every number of lost lines, and of the XMODEM transfer that *)
(* brings the first loader to the board, for every file.                      *)
EXTENDS UartRestore, XmodemSend, FiniteSetTheorems, WellFoundedInduction, TLAPS

(***************************************************************************)
(* The restore: the inductive invariant.                                   *)
(***************************************************************************)
\* No block holds the data of another one.
Straight == \A b \in Block : nand[b] \in {b, Blank, Other}

\* The blocks the restore has still to write.
Due ==
    IF phase = "load" THEN {b \in StockBlock : b >= First(chunk)}
    ELSE IF phase \in {"write", "read"}
         THEN {b \in StockBlock : \/ b >= First(chunk) + Size(chunk)
                                  \/ \E span \in spans : b \in span[1]..span[1] + span[2] - 1}
         ELSE {}
InPlaceBut(due) == \A b \in StockBlock \ due : nand[b] = b \/ b \in bad

\* A block that went bad since the scan may have shifted data only if a line
\* has been lost already, and then the last scan will tell.
Restoring == phase \in {"write", "read", "final"} \/ (phase = "load" /\ chunk # 0)
OnCourse ==
    /\ Acceptable(post)
    /\ \/ Straight /\ InPlaceBut(Due)
       \/ noise > 0 /\ bad # post

Loaded == \A i \in 0..Size(chunk) - 1 : ram[i] = First(chunk) + i
SpanIn(span) ==
    /\ span[1] >= First(chunk)
    /\ span[1]..span[1] + span[2] - 1 \subseteq BlocksOf(chunk) \ post
Before == {"preloader", "fip", "prompt", "prove", "geometry", "scan"}
Finishing == phase \in {"load bl2", "erase bl2", "write bl2", "read bl2", "reset", "watch", "done"}

RestoreInv ==
    /\ TypeOK
    /\ post \subseteq bad
    /\ \A b \in bad : nand[b] = Other
    /\ phase \in Before \cup {"confirm", "rescan"} => chunk = 0
    /\ phase \in {"confirm", "rescan", "write", "read"} => Loaded
    /\ phase \in {"write", "read"} => spans # {} /\ \A span \in spans : SpanIn(span)
    /\ phase = "rescan" => \A b \in Block : nand[b] \in {Blank, Other}
    /\ Restoring => OnCourse
    /\ Finishing => Acceptable(post) /\ (noise <= 1 => InPlaceBut({}))
    /\ phase \in {"reset", "watch", "done"} => bl2 = "stock"

-----------------------------------------------------------------------------
(***************************************************************************)
(* Chunks and spans.                                                       *)
(***************************************************************************)
LEMMA ConstantTypes ==
    /\ Blocks \in Nat /\ Stock \in Nat /\ ChunkSize \in Nat /\ Loads \in Nat
    /\ Stock > 0 /\ ChunkSize > 0 /\ Loads > 0 /\ Stock < Blocks
    /\ MaxNoise \in Nat /\ MaxUpsets \in Nat
BY RestoreAssumption DEF RestoreAssumption

LEMMA ChunkArithmetic ==
    ASSUME NEW c \in Chunk
    PROVE  /\ c \in Nat /\ First(c) \in Nat /\ Size(c) \in 1..ChunkSize
           /\ First(c) + Size(c) <= Stock
           /\ First(c + 1) = First(c) + ChunkSize
           /\ First(c + 1) >= First(c) + Size(c)
           /\ c + 1 \in Chunk => First(c) + Size(c) = First(c + 1)
           /\ c + 1 \notin Chunk => First(c) + Size(c) = Stock
<1> USE ConstantTypes
<1>1. c \in Nat /\ c < Stock /\ First(c) < Stock
  BY DEF Chunk, StockBlock
<1>2. First(c) \in Nat /\ First(c + 1) = First(c) + ChunkSize
  BY <1>1 DEF First
<1>3. c + 1 = Stock => First(c + 1) >= Stock
  BY <1>1 DEF First
<1>4. c + 1 \in Chunk <=> First(c + 1) < Stock
  BY <1>1, <1>2, <1>3 DEF Chunk, StockBlock
<1> QED BY <1>1, <1>2, <1>4 DEF Size, Smaller

LEMMA FirstChunk == 0 \in Chunk /\ First(0) = 0
BY ConstantTypes DEF Chunk, StockBlock, First

\* A set of numbers that is not empty has a least one.
LEMMA Least ==
    ASSUME NEW S, S \subseteq Nat, S # {}
    PROVE  \E m \in S : \A k \in S : m <= k
<1>1. PICK m \in S : \A k \in S : <<k, m>> \notin OpToRel(<, Nat)
  BY NatLessThanWellFounded, WFMin
<1>2. \A k \in S : m <= k
  <2> SUFFICES ASSUME NEW k \in S PROVE m <= k
    OBVIOUS
  <2>1. m \in Nat /\ k \in Nat
    OBVIOUS
  <2>2. ~(k < m)
    BY <1>1, <2>1 DEF OpToRel
  <2> QED BY <2>1, <2>2
<1> QED BY <1>2

\* A span lies among the good blocks of its chunk, and the spans leave none
\* of these out.
LEMMA SpansAreGood ==
    ASSUME NEW c \in Chunk, NEW known, NEW span \in ChunkGoodSpans(c, known)
    PROVE  /\ span \in StockBlock \X (1..ChunkSize)
           /\ span[1] >= First(c)
           /\ span[1]..span[1] + span[2] - 1 \subseteq BlocksOf(c) \ known
<1>1. BlocksOf(c) \subseteq StockBlock
  BY ConstantTypes, ChunkArithmetic DEF BlocksOf, StockBlock
<1>2. PICK s \in BlocksOf(c) \ known, n \in 1..ChunkSize :
          span = <<s, n>> /\ s..s + n - 1 \subseteq BlocksOf(c) \ known
  BY DEF ChunkGoodSpans
<1>3. s >= First(c)
  BY <1>2, ChunkArithmetic DEF BlocksOf
<1> QED BY <1>1, <1>2, <1>3

LEMMA SpansCover ==
    ASSUME NEW c \in Chunk, NEW known, NEW b \in BlocksOf(c) \ known
    PROVE  \E span \in ChunkGoodSpans(c, known) : b \in span[1]..span[1] + span[2] - 1
<1> USE ConstantTypes, ChunkArithmetic
<1> DEFINE good == BlocksOf(c) \ known
           Starts == {x \in Nat : x <= b /\ x..b \subseteq good}
           Ends == {y \in Nat : y > b /\ y \notin good}
<1>1. b \in Nat /\ b >= First(c) /\ b < First(c) + Size(c)
  BY DEF BlocksOf
<1>2. PICK s \in Starts : \A x \in Starts : s <= x
  <2>1. b \in Starts
    BY <1>1
  <2> QED BY <2>1, Least
<1>3. PICK e \in Ends : \A y \in Ends : e <= y
  <2>1. First(c) + Size(c) \in Ends
    BY <1>1 DEF BlocksOf
  <2> HIDE DEF Ends
  <2>2. Ends \subseteq Nat /\ Ends # {}
    BY <2>1 DEF Ends
  <2> QED BY <2>2, Least
<1>4. s \in good /\ s >= First(c) /\ s <= b
  BY <1>1, <1>2 DEF BlocksOf
<1>5. s - 1 \notin good
  <2> SUFFICES ASSUME s - 1 \in good PROVE FALSE
    OBVIOUS
  <2>1. s - 1 \in Nat
    BY DEF BlocksOf
  <2>2. s - 1 \in Starts
    BY <1>1, <1>2, <2>1
  <2> QED BY <1>2, <2>1, <2>2
<1>6. s..e - 1 \subseteq good
  <2> SUFFICES ASSUME NEW y \in s..e - 1 PROVE y \in good
    OBVIOUS
  <2>1. CASE y <= b
    BY <1>1, <1>2, <2>1
  <2>2. CASE y > b
    BY <1>1, <1>2, <1>3, <2>2
  <2> QED BY <1>1, <1>2, <2>1, <2>2
<1>7. e - s \in 1..ChunkSize /\ s + (e - s) = e
  <2>1. e <= First(c) + Size(c)
    BY <1>1, <1>3 DEF BlocksOf
  <2> QED BY <1>1, <1>3, <1>4, <2>1
<1>8. <<s, e - s>> \in ChunkGoodSpans(c, known)
  BY <1>3, <1>4, <1>5, <1>6, <1>7 DEF ChunkGoodSpans
<1>9. b \in s..s + (e - s) - 1
  BY <1>1, <1>3, <1>4
<1> QED BY <1>8, <1>9

\* The span the loop is at.
LEMMA SpanIsLeft ==
    ASSUME spans \subseteq StockBlock \X (1..ChunkSize), spans # {}
    PROVE  Span \in spans
<1>1. {span[1] : span \in spans} \subseteq Nat /\ {span[1] : span \in spans} # {}
  BY ConstantTypes DEF StockBlock
<1>2. PICK m \in {span[1] : span \in spans} : \A k \in {span[1] : span \in spans} : m <= k
  BY <1>1, Least
<1>3. \E span \in spans : \A other \in spans : span[1] <= other[1]
  BY <1>2
<1> QED BY <1>3 DEF Span

(***************************************************************************)
(* Where mtd write and mtd read find the blocks of a span.                 *)
(***************************************************************************)
LEMMA RankIsNat ==
    ASSUME NEW b \in Block, NEW s \in Block
    PROVE  Rank(b, s) \in Nat
<1>1. IsFiniteSet(0..Blocks - 1)
  BY ConstantTypes, FS_Interval
<1>2. {g \in GoodFrom(s) : g < b} \subseteq 0..Blocks - 1
  BY DEF GoodFrom, Block
<1>3. IsFiniteSet({g \in GoodFrom(s) : g < b})
  BY <1>1, <1>2, FS_Subset
<1> QED BY <1>3, FS_CardinalityType DEF Rank

\* With no bad block on the way, a block is where it belongs.
LEMMA RankIsOffset ==
    ASSUME NEW b \in Block, NEW s \in Block, b >= s, \A x \in bad : ~(s <= x /\ x < b)
    PROVE  Rank(b, s) = b - s
<1> USE ConstantTypes
<1>1. {g \in GoodFrom(s) : g < b} = s..b - 1
  <2>1. ASSUME NEW x \in s..b - 1 PROVE x \in GoodFrom(s) /\ x < b
    BY <2>1 DEF GoodFrom, Block
  <2>2. ASSUME NEW x \in GoodFrom(s), x < b PROVE x \in s..b - 1
    BY <2>2 DEF GoodFrom, Block
  <2> QED BY <2>1, <2>2
<1>2. Cardinality(s..b - 1) = b - s
  <2>1. s \in Int /\ b - 1 \in Int
    BY DEF Block
  <2>2. Cardinality(s..b - 1) = IF s > b - 1 THEN 0 ELSE b - 1 - s + 1
    BY <2>1, FS_Interval
  <2> QED BY <2>2 DEF Block
<1> QED BY <1>1, <1>2 DEF Rank

\* A write that skips no block shifts none.
LEMMA NoSkipNoShift ==
    ASSUME NEW s \in Block, NEW n \in Nat, ~Skips(s, n), NEW b \in Targets(s, n), bad \subseteq Block
    PROVE  b \in Block /\ b >= s /\ b < s + n /\ Rank(b, s) = b - s
<1>1. b \in Block /\ b >= s /\ Rank(b, s) < n
  BY DEF Targets, GoodFrom
<1>2. \A x \in bad : ~(s <= x /\ x < b)
  BY <1>1 DEF Skips, Block
<1>3. Rank(b, s) = b - s
  BY <1>1, <1>2, RankIsOffset
<1> QED BY <1>1, <1>3 DEF Block

\* A write that skips a block has one in its span.
LEMMA SkipInSpan ==
    ASSUME NEW s \in Block, NEW n \in Nat, Skips(s, n), s + n <= Blocks, bad \subseteq Block
    PROVE  \E x \in bad : s <= x /\ x < s + n
<1> USE ConstantTypes
<1>1. PICK x \in bad, t \in Targets(s, n) : x >= s /\ t > x
  BY DEF Skips
<1>2. t \in Block /\ t >= s /\ Rank(t, s) < n
  BY DEF Targets, GoodFrom
<1> SUFFICES ASSUME \A y \in bad : ~(s <= y /\ y < s + n) PROVE FALSE
  OBVIOUS
<1>3. x \in Nat /\ s \in Nat /\ t \in Nat /\ t > s + n
  BY <1>1, <1>2 DEF Block
<1>4. s..s + n - 1 \subseteq {g \in GoodFrom(s) : g < t}
  <2> SUFFICES ASSUME NEW y \in s..s + n - 1 PROVE y \in GoodFrom(s) /\ y < t
    OBVIOUS
  <2> QED BY <1>3 DEF GoodFrom, Block
<1>5. Cardinality(s..s + n - 1) = n
  BY <1>3, FS_Interval
<1>6. IsFiniteSet({g \in GoodFrom(s) : g < t})
  <2>1. IsFiniteSet(0..Blocks - 1) /\ {g \in GoodFrom(s) : g < t} \subseteq 0..Blocks - 1
    BY FS_Interval DEF GoodFrom, Block
  <2> QED BY <2>1, FS_Subset
<1>7. n <= Rank(t, s)
  <2>1. Cardinality(s..s + n - 1) <= Cardinality({g \in GoodFrom(s) : g < t})
    BY <1>4, <1>6, FS_Subset
  <2> QED BY <1>5, <2>1 DEF Rank
<1>8. Rank(t, s) \in Nat
  BY <1>2, RankIsNat
<1> QED BY <1>2, <1>7, <1>8

\* Where the data of a write comes from.
LEMMA TargetInRam ==
    ASSUME NEW s \in Block, NEW n \in Nat, NEW b \in Targets(s, n)
    PROVE  b \in Block /\ b \notin bad /\ Rank(b, s) \in 0..n - 1
<1>1. b \in Block /\ b \notin bad /\ Rank(b, s) < n
  BY DEF Targets, GoodFrom
<1> QED BY <1>1, RankIsNat

\* Fewer blocks of the same span.
LEMMA Partly ==
    ASSUME NEW s \in Block, NEW n \in Nat, NEW m \in 0..n
    PROVE  Targets(s, m) \subseteq Targets(s, n)
<1> SUFFICES ASSUME NEW b \in Targets(s, m) PROVE b \in Targets(s, n)
  OBVIOUS
<1>1. b \in GoodFrom(s) /\ b \in Block /\ Rank(b, s) < m
  BY DEF Targets, GoodFrom
<1> QED BY <1>1, RankIsNat DEF Targets

\* What the span the loop is at is like.
LEMMA AtSpan ==
    ASSUME RestoreInv, phase \in {"write", "read"}
    PROVE  /\ Span \in spans /\ chunk \in Chunk
           /\ Span[1] \in Block /\ Span[2] \in Nat /\ Span[2] > 0
           /\ Local(Span[1]) \in Nat /\ Local(Span[1]) + Span[2] <= Size(chunk)
           /\ First(chunk) + Local(Span[1]) = Span[1]
           /\ Span[1] + Span[2] <= Stock
           /\ Span[1]..Span[1] + Span[2] - 1 \subseteq StockBlock \ post
<1> USE ConstantTypes
<1>1. Span \in spans /\ chunk \in Chunk /\ SpanIn(Span)
  BY SpanIsLeft DEF RestoreInv, TypeOK
<1> DEFINE s == Span[1]
           n == Span[2]
<1>2. s \in StockBlock /\ n \in 1..ChunkSize
  BY <1>1 DEF RestoreInv, TypeOK
<1>3. s >= First(chunk) /\ s..s + n - 1 \subseteq BlocksOf(chunk) \ post
  BY <1>1 DEF SpanIn
<1>4. First(chunk) \in Nat /\ Size(chunk) \in Nat /\ First(chunk) + Size(chunk) <= Stock
  BY <1>1, ChunkArithmetic
<1>5. s + n - 1 \in BlocksOf(chunk) /\ s + n - 1 <= First(chunk) + Size(chunk) - 1
  <2>1. s + n - 1 \in s..s + n - 1
    BY <1>2 DEF StockBlock
  <2>2. s + n - 1 \in BlocksOf(chunk)
    BY <1>3, <2>1
  <2> QED BY <1>4, <2>2 DEF BlocksOf
<1>6. BlocksOf(chunk) \subseteq StockBlock
  BY <1>4 DEF BlocksOf, StockBlock
<1>7. Local(s) \in Nat /\ First(chunk) + Local(s) = s /\ Local(s) + n <= Size(chunk) /\ s + n <= Stock
  BY <1>2, <1>3, <1>4, <1>5 DEF Local, StockBlock
<1>8. s \in Block /\ n \in Nat /\ n > 0
  BY <1>2 DEF StockBlock, Block
<1>9. s..s + n - 1 \subseteq StockBlock \ post
  BY <1>3, <1>6
<1> QED BY <1>1, <1>7, <1>8, <1>9

(***************************************************************************)
(* What a chunk's spans, and the next one, leave to do.                    *)
(***************************************************************************)
LEMMA EnterKeeps ==
    ASSUME NEW c \in Chunk, NEW known, Enter(c, known), known \subseteq bad,
           chunk' = c, post' = known, UNCHANGED <<nand, bad>>
    PROVE  /\ phase' \in {"write", "failed"}
           /\ spans' \subseteq StockBlock \X (1..ChunkSize)
           /\ phase' = "write" => spans' # {} /\ \A span \in spans' : SpanIn(span)'
           /\ (/\ phase' = "write"
               /\ \A b \in StockBlock : b < First(c) => nand[b] = b \/ b \in bad) => InPlaceBut(Due)'
<1> USE ConstantTypes
<1>1. spans' = ChunkGoodSpans(c, known) /\ phase' \in {"write", "failed"}
  BY DEF Enter
<1>2. spans' \subseteq StockBlock \X (1..ChunkSize)
  BY <1>1, SpansAreGood
<1>3. phase' = "write" => spans' # {}
  BY DEF Enter
<1>4. \A span \in spans' : SpanIn(span)'
  BY <1>1, SpansAreGood DEF SpanIn, First, Size, BlocksOf
<1>5. ASSUME phase' = "write", \A b \in StockBlock : b < First(c) => nand[b] = b \/ b \in bad
      PROVE  InPlaceBut(Due)'
  <2> SUFFICES ASSUME NEW b \in StockBlock, b \notin Due' PROVE nand[b] = b \/ b \in bad
    BY DEF InPlaceBut
  <2>1. /\ ~(b >= First(c) + Size(c))
        /\ ~ \E span \in spans' : b \in span[1]..span[1] + span[2] - 1
    BY <1>5 DEF Due, First, Size
  <2>2. CASE b < First(c)
    BY <1>5, <2>2
  <2>3. CASE b >= First(c)
    <3>1. b \in BlocksOf(c)
      BY <2>1, <2>3, ChunkArithmetic DEF BlocksOf, StockBlock
    <3>2. b \in known
      BY <1>1, <2>1, <3>1, SpansCover
    <3> QED BY <3>2
  <2> QED BY <2>2, <2>3, ChunkArithmetic DEF StockBlock
<1> QED BY <1>1, <1>2, <1>3, <1>4, <1>5

LEMMA NextSpanKeeps ==
    ASSUME RestoreInv, phase = "read", NextSpan, UNCHANGED <<nand, bad, post>>
    PROVE  /\ phase' \in {"write", "load", "final"} /\ chunk' \in Chunk
           /\ spans' \subseteq spans
           /\ phase' = "load" => chunk' # 0
           /\ phase' = "write" => spans' # {} /\ chunk' = chunk
           /\ (/\ InPlaceBut(Due)
               /\ \A b \in Span[1]..Span[1] + Span[2] - 1 : nand[b] = b) => InPlaceBut(Due)'
<1> USE ConstantTypes
<1>1. chunk \in Chunk /\ spans' = spans \ {Span}
  BY AtSpan DEF NextSpan
<1>2. /\ phase' \in {"write", "load", "final"} /\ chunk' \in Chunk
      /\ phase' = "write" => spans' # {} /\ chunk' = chunk
      /\ phase' = "load" => chunk' = chunk + 1 /\ chunk + 1 \in Chunk
      /\ phase' = "final" => chunk + 1 \notin Chunk
      /\ phase' # "write" => spans' = {}
  BY <1>1 DEF NextSpan
<1>3. phase' = "load" => chunk' # 0
  BY <1>1, <1>2, ChunkArithmetic
<1>4. ASSUME InPlaceBut(Due), \A b \in Span[1]..Span[1] + Span[2] - 1 : nand[b] = b
      PROVE  InPlaceBut(Due)'
  <2> SUFFICES ASSUME NEW b \in StockBlock, b \notin Due' PROVE nand[b] = b \/ b \in bad
    BY DEF InPlaceBut
  <2> SUFFICES ASSUME b \in Due PROVE b \in Span[1]..Span[1] + Span[2] - 1
    BY <1>4 DEF InPlaceBut
  <2>1. \/ b >= First(chunk) + Size(chunk)
        \/ \E span \in spans : b \in span[1]..span[1] + span[2] - 1
    BY DEF Due
  <2>2. CASE phase' = "write"
    <3>1. /\ ~(b >= First(chunk) + Size(chunk))
          /\ ~ \E span \in spans' : b \in span[1]..span[1] + span[2] - 1
      BY <1>2, <2>2 DEF Due, First, Size
    <3> QED BY <1>1, <2>1, <3>1
  <2>3. CASE phase' # "write"
    <3>1. ~(b >= First(chunk) + Size(chunk))
      <4>1. CASE phase' = "load"
        <5>1. First(chunk + 1) = First(chunk) + Size(chunk)
          BY <1>1, <1>2, <4>1, ChunkArithmetic
        <5>2. ~(b >= First(chunk + 1))
          BY <1>2, <4>1 DEF Due, First
        <5> QED BY <5>1, <5>2
      <4>2. CASE phase' = "final"
        <5>1. First(chunk) + Size(chunk) = Stock
          BY <1>1, <1>2, <4>2, ChunkArithmetic
        <5> QED BY <5>1 DEF StockBlock
      <4> QED BY <1>2, <2>3, <4>1, <4>2
    <3>2. spans \subseteq {Span}
      BY <1>1, <1>2, <2>3
    <3> QED BY <2>1, <3>1, <3>2
  <2> QED BY <2>2, <2>3
<1> QED BY <1>1, <1>2, <1>3, <1>4

(***************************************************************************)
(* The steps.                                                              *)
(***************************************************************************)
\* A run that has not come to the erase, or that has ended without success.
LEMMA OutsideKeeps ==
    ASSUME TypeOK', post' \subseteq bad', \A b \in bad' : nand'[b] = Other,
           phase' \in {"idle", "failed"} \cup Before,
           phase' \in Before => chunk' = 0
    PROVE  RestoreInv'
BY DEF RestoreInv, Before, Restoring, Finishing

LEMMA RestoreInitInv == Init => RestoreInv
<1> SUFFICES ASSUME Init PROVE RestoreInv
  OBVIOUS
<1> USE ConstantTypes DEF Init
<1>1. TypeOK
  <2>1. Other \in Content
    BY DEF Content
  <2>2. chunk \in Chunk
    BY FirstChunk
  <2> QED BY <2>1, <2>2 DEF TypeOK, Phases, Ended
<1>2. \A b \in bad : nand[b] = Other
  OBVIOUS
<1> QED BY <1>1, <1>2 DEF RestoreInv, Before, Restoring, Finishing

LEMMA ScannedType ==
    ASSUME TypeOK, NEW seen \in SUBSET bad, Scanned(seen)
    PROVE  /\ noise' \in 0..MaxNoise /\ noise' >= noise
           /\ noise' = noise => seen = bad
           /\ seen # bad => noise' = noise + 1
BY ConstantTypes DEF TypeOK, Scanned

LEMMA EarlyKeeps ==
    RestoreInv /\ (Start \/ SendPreloader \/ SendFip \/ Prompt \/ MissPrompt \/ Prove \/ Geometry)
        => RestoreInv'
<1> SUFFICES ASSUME RestoreInv,
                    Start \/ SendPreloader \/ SendFip \/ Prompt \/ MissPrompt \/ Prove \/ Geometry
             PROVE  RestoreInv'
  OBVIOUS
<1> USE ConstantTypes
<1>1. CASE Start
  <2>1. /\ phase' = "preloader" /\ chunk' = 0 /\ spans' = {} /\ tries' = 0
        /\ pre' = {} /\ post' = {} /\ noise' = 0
        /\ ram' = [i \in 0..ChunkSize - 1 |-> Other]
        /\ UNCHANGED <<upsets, nand, bad, bl2>>
    BY <1>1 DEF Start, flash
  <2>2. ram' \in [0..ChunkSize - 1 -> Content] /\ chunk' \in Chunk /\ tries' \in 0..Loads - 1
    BY <2>1, FirstChunk DEF Content
  <2>3. TypeOK'
    <3>1. phase' \in Phases
      BY <2>1 DEF Phases
    <3>2. spans' \subseteq StockBlock \X (1..ChunkSize)
      BY <2>1
    <3>3. {pre', post', bad'} \subseteq SUBSET Block
      BY <2>1 DEF RestoreInv, TypeOK
    <3>4. noise' \in 0..MaxNoise /\ upsets' \in 0..MaxUpsets
      BY <2>1 DEF RestoreInv, TypeOK
    <3>5. nand' \in [Block -> Content] /\ bl2' \in {"old", "blank", "stock", "other"}
      BY <2>1 DEF RestoreInv, TypeOK
    <3> QED BY <2>2, <3>1, <3>2, <3>3, <3>4, <3>5 DEF TypeOK
  <2> QED BY <2>1, <2>3, OutsideKeeps DEF RestoreInv, Before
<1>2. CASE SendPreloader \/ SendFip \/ Prompt \/ MissPrompt \/ Prove \/ Geometry
  <2>1. /\ phase \in Before /\ phase' \in {"failed"} \cup Before
        /\ upsets' \in 0..MaxUpsets
        /\ UNCHANGED <<chunk, spans, tries, pre, post, noise, ram, flash>>
    BY <1>2 DEF SendPreloader, SendFip, Prompt, MissPrompt, Prove, Geometry, Advance, Before,
       RestoreInv, TypeOK
  <2>2. TypeOK'
    BY <2>1 DEF RestoreInv, TypeOK, Phases, Ended, Before, flash
  <2> QED BY <2>1, <2>2, OutsideKeeps DEF RestoreInv, flash
<1> QED BY <1>1, <1>2

LEMMA ScanKeeps == RestoreInv /\ Scan => RestoreInv'
<1> SUFFICES ASSUME RestoreInv, Scan PROVE RestoreInv'
  OBVIOUS
<1>1. PICK seen \in SUBSET bad :
        Scanned(seen) /\ pre' = seen /\ phase' = IF Acceptable(seen) THEN "load" ELSE "failed"
  BY DEF Scan
<1>2. /\ phase = "scan" /\ chunk = 0
      /\ UNCHANGED <<chunk, spans, tries, post, upsets, ram, nand, bad, bl2>>
  BY DEF Scan, RestoreInv, Before, flash
<1>3. TypeOK'
  BY <1>1, <1>2, ScannedType DEF RestoreInv, TypeOK, Phases, Ended
<1> QED BY <1>1, <1>2, <1>3 DEF RestoreInv, Before, Restoring, Finishing

LEMMA LoadKeeps == RestoreInv /\ Load => RestoreInv'
<1> SUFFICES ASSUME RestoreInv, Load PROVE RestoreInv'
  OBVIOUS
<1> USE ConstantTypes
<1>1. /\ phase = "load" /\ chunk \in Chunk /\ tries' = 0
      /\ UNCHANGED <<chunk, pre, post, noise, upsets, nand, bad, bl2>>
  BY DEF Load, RestoreInv, TypeOK, flash
<1>2. First(chunk) \in Nat /\ Size(chunk) \in 1..ChunkSize /\ First(chunk) + Size(chunk) <= Stock
  BY <1>1, ChunkArithmetic
<1>3. ram' \in [0..ChunkSize - 1 -> Content] /\ Loaded'
  <2>1. ram' = [i \in 0..ChunkSize - 1 |-> IF i < Size(chunk) THEN First(chunk) + i ELSE ram[i]]
    BY DEF Load
  <2>2. \A i \in 0..Size(chunk) - 1 : i \in 0..ChunkSize - 1 /\ ram'[i] = First(chunk) + i
    BY <1>2, <2>1
  <2>3. \A i \in 0..ChunkSize - 1 : ram'[i] \in Content
    <3> SUFFICES ASSUME NEW i \in 0..ChunkSize - 1
                 PROVE  (IF i < Size(chunk) THEN First(chunk) + i ELSE ram[i]) \in Content
      BY <2>1
    <3>1. i < Size(chunk) => First(chunk) + i \in StockBlock
      BY <1>2 DEF StockBlock
    <3> QED BY <3>1 DEF RestoreInv, TypeOK, Content
  <2> QED BY <1>1, <2>1, <2>2, <2>3 DEF Loaded, First, Size
<1>4. CASE chunk = 0
  <2>1. phase' = "confirm" /\ spans' = spans
    BY <1>4 DEF Load
  <2>2. TypeOK'
    BY <1>1, <1>3, <2>1 DEF RestoreInv, TypeOK, Phases
  <2> QED BY <1>1, <1>3, <1>4, <2>1, <2>2 DEF RestoreInv, Before, Restoring, Finishing
<1>5. CASE chunk # 0
  <2>1. Enter(chunk, post)
    BY <1>5 DEF Load
  <2>2. OnCourse /\ post \subseteq bad
    BY <1>1, <1>5 DEF RestoreInv, Restoring
  <2>3. /\ phase' \in {"write", "failed"}
        /\ spans' \subseteq StockBlock \X (1..ChunkSize)
        /\ phase' = "write" => spans' # {} /\ \A span \in spans' : SpanIn(span)'
        /\ (/\ phase' = "write"
            /\ \A b \in StockBlock : b < First(chunk) => nand[b] = b \/ b \in bad) => InPlaceBut(Due)'
    BY <1>1, <2>1, <2>2, EnterKeeps
  <2>4. TypeOK'
    <3>1. phase' \in Phases /\ spans' \subseteq StockBlock \X (1..ChunkSize) /\ tries' \in 0..Loads - 1
      <4>1. phase' \in Phases
        BY <2>3 DEF Phases, Ended
      <4>2. spans' \subseteq StockBlock \X (1..ChunkSize)
        BY <2>3
      <4>3. tries' \in 0..Loads - 1
        BY <1>1
      <4> QED BY <4>1, <4>2, <4>3
    <3> QED BY <1>1, <1>3, <3>1 DEF RestoreInv, TypeOK
  <2>5. CASE phase' = "failed"
    BY <1>1, <2>4, <2>5, OutsideKeeps DEF RestoreInv, Before
  <2>6. CASE phase' = "write"
    <3>1. InPlaceBut(Due) => InPlaceBut(Due)'
      <4>1. InPlaceBut(Due) => \A b \in StockBlock : b < First(chunk) => nand[b] = b \/ b \in bad
        BY <1>1, <1>2 DEF InPlaceBut, Due, StockBlock
      <4> QED BY <2>3, <2>6, <4>1
    <3>2. OnCourse'
      BY <1>1, <2>2, <3>1 DEF OnCourse, Straight, Acceptable
    <3> QED BY <1>1, <1>3, <2>3, <2>4, <2>6, <3>2 DEF RestoreInv, Before, Finishing
  <2> QED BY <2>3, <2>5, <2>6
<1> QED BY <1>4, <1>5

LEMMA LoadAgainKeeps == RestoreInv /\ LoadAgain => RestoreInv'
<1> SUFFICES ASSUME RestoreInv, LoadAgain PROVE RestoreInv'
  OBVIOUS
<1> USE ConstantTypes
<1>1. /\ phase \in {"load", "load bl2"} /\ phase' \in {phase, "failed"}
      /\ tries' \in 0..Loads - 1 /\ upsets' \in 0..MaxUpsets
      /\ UNCHANGED <<chunk, spans, pre, post, noise, ram, nand, bad, bl2>>
  <2>1. tries \in 0..Loads - 1 /\ upsets \in 0..MaxUpsets
    BY DEF RestoreInv, TypeOK
  <2>2. phase \in {"load", "load bl2"} /\ phase' \in {phase, "failed"}
    BY DEF LoadAgain
  <2>3. UNCHANGED <<chunk, spans, pre, post, noise, ram, nand, bad, bl2>>
    BY DEF LoadAgain, flash
  <2>4. upsets' \in 0..MaxUpsets
    <3>1. upsets < MaxUpsets /\ upsets' = upsets + 1
      BY DEF LoadAgain
    <3> QED BY <2>1, <3>1
  <2>5. tries' \in 0..Loads - 1
    <3>1. (tries + 1 < Loads /\ tries' = tries + 1) \/ tries' = 0
      BY DEF LoadAgain
    <3> QED BY <2>1, <3>1
  <2> QED BY <2>2, <2>3, <2>4, <2>5
<1>2. TypeOK'
  BY <1>1 DEF RestoreInv, TypeOK, Phases, Ended
<1>3. CASE phase' = "failed"
  BY <1>1, <1>2, <1>3, OutsideKeeps DEF RestoreInv, Before
<1>4. CASE phase' = phase
  <2>1. OnCourse => OnCourse'
    BY <1>1, <1>4 DEF OnCourse, Straight, InPlaceBut, Due, Acceptable, First, Size
  <2> QED BY <1>1, <1>2, <1>4, <2>1
          DEF RestoreInv, Before, Restoring, Finishing, InPlaceBut, Acceptable
<1> QED BY <1>1, <1>3, <1>4

LEMMA EraseKeeps == RestoreInv /\ Erase => RestoreInv'
<1> SUFFICES ASSUME RestoreInv, Erase PROVE RestoreInv'
  OBVIOUS
<1> USE ConstantTypes
<1>1. /\ phase = "confirm" /\ phase' = "rescan" /\ nand' = ErasedBefore(Blocks) /\ chunk = 0
      /\ UNCHANGED <<chunk, spans, tries, pre, post, noise, upsets, ram, bad, bl2>>
  BY DEF Erase, RestoreInv
<1>2. nand \in [Block -> Content] /\ \A b \in bad : nand[b] = Other
  BY DEF RestoreInv, TypeOK
<1>3. nand' \in [Block -> Content]
  BY <1>1, <1>2 DEF ErasedBefore, Content
<1>4. \A b \in Block : nand'[b] \in {Blank, Other}
  BY <1>1, <1>2 DEF ErasedBefore, Block
<1>5. \A b \in bad' : nand'[b] = Other
  BY <1>1, <1>2 DEF ErasedBefore, RestoreInv, TypeOK
<1>6. TypeOK'
  BY <1>1, <1>3 DEF RestoreInv, TypeOK, Phases
<1>7. Loaded'
  BY <1>1 DEF RestoreInv, Loaded, First, Size
<1> QED BY <1>1, <1>4, <1>5, <1>6, <1>7 DEF RestoreInv, Before, Restoring, Finishing

LEMMA RescanKeeps == RestoreInv /\ Rescan => RestoreInv'
<1> SUFFICES ASSUME RestoreInv, Rescan PROVE RestoreInv'
  OBVIOUS
<1> USE ConstantTypes
<1>1. PICK seen \in SUBSET bad :
        /\ Scanned(seen) /\ post' = seen
        /\ IF Acceptable(seen) /\ pre \subseteq seen
           THEN Enter(0, seen)
           ELSE phase' = "failed" /\ UNCHANGED spans
  BY DEF Rescan
<1>2. /\ phase = "rescan" /\ chunk = 0
      /\ UNCHANGED <<chunk, tries, pre, upsets, ram, nand, bad, bl2>>
  BY DEF Rescan, RestoreInv, flash
<1>3. /\ noise' \in 0..MaxNoise /\ post' \subseteq bad /\ post' \subseteq Block
  BY <1>1, ScannedType DEF RestoreInv, TypeOK
<1>4. CASE phase' = "failed" /\ UNCHANGED spans
  <2>1. TypeOK'
    BY <1>2, <1>3, <1>4 DEF RestoreInv, TypeOK, Phases, Ended
  <2> QED BY <1>2, <1>3, <1>4, <2>1, OutsideKeeps DEF RestoreInv, Before
<1>5. CASE Acceptable(seen) /\ Enter(0, seen)
  <2>1. /\ phase' \in {"write", "failed"}
        /\ spans' \subseteq StockBlock \X (1..ChunkSize)
        /\ phase' = "write" => spans' # {} /\ \A span \in spans' : SpanIn(span)'
        /\ (/\ phase' = "write"
            /\ \A b \in StockBlock : b < First(0) => nand[b] = b \/ b \in bad) => InPlaceBut(Due)'
    BY <1>1, <1>2, <1>5, FirstChunk, EnterKeeps
  <2>2. phase' = "write" => InPlaceBut(Due)'
    BY <2>1, FirstChunk DEF StockBlock
  <2>3. TypeOK'
    <3>1. phase' \in Phases
      BY <2>1 DEF Phases, Ended
    <3> QED BY <1>2, <1>3, <2>1, <3>1 DEF RestoreInv, TypeOK
  <2>4. CASE phase' = "failed"
    BY <1>2, <1>3, <2>3, <2>4, OutsideKeeps DEF RestoreInv, Before
  <2>5. CASE phase' = "write"
    <3>1. Straight'
      BY <1>2 DEF RestoreInv, Straight
    <3>2. OnCourse'
      BY <1>1, <1>5, <2>2, <2>5, <3>1 DEF OnCourse, Acceptable
    <3>3. Loaded'
      BY <1>2 DEF RestoreInv, Loaded, First, Size
    <3> QED BY <1>2, <1>3, <2>1, <2>3, <2>5, <3>2, <3>3 DEF RestoreInv, Before, Finishing
  <2> QED BY <2>1, <2>4, <2>5
<1> QED BY <1>1, <1>4, <1>5

\* What a write, whole or cut off, leaves in the blocks.
LEMMA WrittenType ==
    ASSUME RestoreInv, phase = "write", NEW n \in 0..Span[2]
    PROVE  /\ Written(Span[1], n) \in [Block -> Content]
           /\ \A b \in bad : Written(Span[1], n)[b] = Other
<1> USE ConstantTypes
<1> DEFINE s == Span[1]
<1>1. /\ s \in Block /\ Span[2] \in Nat /\ Local(s) \in Nat /\ chunk \in Chunk
      /\ Local(s) + Span[2] <= Size(chunk)
  BY AtSpan
<1>2. Size(chunk) \in 1..ChunkSize
  BY <1>1, ChunkArithmetic
<1>3. /\ nand \in [Block -> Content] /\ ram \in [0..ChunkSize - 1 -> Content]
      /\ bad \subseteq Block /\ \A b \in bad : nand[b] = Other
  BY DEF RestoreInv, TypeOK
<1> HIDE DEF s
<1>4. ASSUME NEW b \in Targets(s, n) PROVE b \notin bad /\ ram[Local(s) + Rank(b, s)] \in Content
  <2>1. Rank(b, s) \in 0..n - 1 /\ b \notin bad
    BY <1>1, <1>4, TargetInRam
  <2>2. Local(s) + Rank(b, s) \in 0..ChunkSize - 1
    BY <1>1, <1>2, <2>1
  <2> QED BY <1>3, <2>1, <2>2
<1>5. Written(s, n) \in [Block -> Content]
  BY <1>3, <1>4 DEF Written
<1>6. \A b \in bad : Written(s, n)[b] = Other
  BY <1>3, <1>4 DEF Written
<1> QED BY <1>5, <1>6 DEF s

\* A write that skips nothing puts every block in its place.
LEMMA WrittenStraight ==
    ASSUME RestoreInv, phase = "write", ~Skips(Span[1], Span[2]), NEW b \in Block
    PROVE  \/ Written(Span[1], Span[2])[b] = nand[b]
           \/ Written(Span[1], Span[2])[b] = b
<1> USE ConstantTypes
<1> DEFINE s == Span[1]
           n == Span[2]
<1>1. /\ s \in Block /\ n \in Nat /\ Local(s) \in Nat /\ chunk \in Chunk
      /\ Local(s) + n <= Size(chunk) /\ First(chunk) + Local(s) = s
  BY AtSpan
<1>2. Loaded /\ bad \subseteq Block /\ First(chunk) \in Nat /\ Size(chunk) \in Nat
  BY <1>1, ChunkArithmetic DEF RestoreInv, TypeOK
<1> HIDE DEF s, n
<1>3. ASSUME b \in Targets(s, n) PROVE ram[Local(s) + Rank(b, s)] = b
  <2>1. b >= s /\ b < s + n /\ Rank(b, s) = b - s
    BY <1>1, <1>2, <1>3, NoSkipNoShift DEF s, n
  <2>2. b \in Nat /\ s \in Nat
    BY <1>1 DEF Block
  <2>3. Local(s) + Rank(b, s) \in 0..Size(chunk) - 1 /\ First(chunk) + (Local(s) + Rank(b, s)) = b
    BY <1>1, <1>2, <2>1, <2>2
  <2> QED BY <1>2, <2>3 DEF Loaded
<1>4. Written(s, n)[b] = IF b \in Targets(s, n) THEN ram[Local(s) + Rank(b, s)] ELSE nand[b]
  BY DEF Written
<1> QED BY <1>3, <1>4 DEF s, n

\* The step from a write to its readback.
LEMMA ToReadKeeps ==
    ASSUME RestoreInv, phase = "write", phase' = "read",
           UNCHANGED <<chunk, spans, tries, pre, post, ram, bad, bl2>>,
           nand' \in [Block -> Content], \A b \in bad : nand'[b] = Other,
           noise' \in 0..MaxNoise, noise' >= noise, upsets' \in 0..MaxUpsets,
           \/ \A b \in Block : nand'[b] \in {nand[b], b, Other} /\ (b \in Due \/ nand'[b] \in {nand[b], b})
           \/ noise' > 0 /\ bad # post
    PROVE  RestoreInv'
<1> USE ConstantTypes
<1>1. TypeOK'
  BY DEF RestoreInv, TypeOK, Phases
<1>2. noise \in Nat /\ OnCourse
  BY DEF RestoreInv, TypeOK, Restoring
<1>3. Due' = Due
  BY DEF Due, First, Size
<1>4. ASSUME \A b \in Block : nand'[b] \in {nand[b], b, Other} /\ (b \in Due \/ nand'[b] \in {nand[b], b}),
             Straight, InPlaceBut(Due)
      PROVE  Straight' /\ InPlaceBut(Due)'
  <2>1. Straight'
    BY <1>4 DEF Straight
  <2>2. StockBlock \subseteq Block
    BY DEF StockBlock, Block
  <2>3. InPlaceBut(Due)'
    BY <1>3, <1>4, <2>2 DEF InPlaceBut
  <2> QED BY <2>1, <2>3
<1>5. OnCourse'
  <2>1. noise' > 0 \/ ~(noise > 0)
    BY <1>2
  <2> QED BY <1>2, <1>4, <2>1 DEF OnCourse, Acceptable
<1>6. Loaded' /\ spans' # {} /\ \A span \in spans' : SpanIn(span)'
  BY DEF RestoreInv, Loaded, SpanIn, First, Size, BlocksOf
<1> QED BY <1>1, <1>5, <1>6 DEF RestoreInv, Before, Finishing

LEMMA SpanIsDue ==
    ASSUME RestoreInv, phase = "write"
    PROVE  \A b \in Span[1]..Span[1] + Span[2] - 1 : b \in Due
BY AtSpan DEF Due

LEMMA WriteKeeps == RestoreInv /\ Write => RestoreInv'
<1> SUFFICES ASSUME RestoreInv, Write PROVE RestoreInv'
  OBVIOUS
<1> USE ConstantTypes
<1>1. /\ phase = "write" /\ nand' = Written(Span[1], Span[2])
      /\ UNCHANGED <<chunk, spans, tries, pre, post, upsets, ram, bad, bl2>>
      /\ \/ ~Skips(Span[1], Span[2]) /\ phase' = "read" /\ noise' = noise
         \/ Skips(Span[1], Span[2]) /\ phase' = "failed" /\ noise' = noise
         \/ /\ Skips(Span[1], Span[2]) /\ noise < MaxNoise
            /\ phase' = "read" /\ noise' = noise + 1
  BY DEF Write
<1>2. /\ Span[2] \in Nat /\ Span[1] \in Block /\ Span[1] + Span[2] <= Stock
      /\ Span[1]..Span[1] + Span[2] - 1 \subseteq StockBlock \ post
  BY <1>1, AtSpan
<1>3. nand' \in [Block -> Content] /\ \A b \in bad : nand'[b] = Other
  BY <1>1, <1>2, WrittenType
<1>4. /\ upsets' \in 0..MaxUpsets /\ noise \in 0..MaxNoise /\ noise' \in 0..MaxNoise /\ noise' >= noise
      /\ bad \subseteq Block
  <2>1. upsets \in 0..MaxUpsets /\ noise \in 0..MaxNoise /\ bad \subseteq Block
    BY DEF RestoreInv, TypeOK
  <2> QED BY <1>1, <2>1
<1>5. CASE ~Skips(Span[1], Span[2]) /\ phase' = "read"
  <2>1. \A b \in Block : nand'[b] \in {nand[b], b}
    BY <1>1, <1>5, WrittenStraight
  <2> QED BY <1>1, <1>3, <1>4, <1>5, <2>1, ToReadKeeps
<1>6. CASE phase' = "failed"
  <2>1. TypeOK'
    BY <1>1, <1>3, <1>4, <1>6 DEF RestoreInv, TypeOK, Phases, Ended
  <2> QED BY <1>1, <1>3, <1>6, <2>1, OutsideKeeps DEF RestoreInv, Before
<1>7. CASE Skips(Span[1], Span[2]) /\ phase' = "read" /\ noise' = noise + 1
  <2>1. PICK x \in bad : Span[1] <= x /\ x < Span[1] + Span[2]
    <3>1. Span[1] + Span[2] <= Blocks
      BY <1>2 DEF Block
    <3> QED BY <1>2, <1>4, <1>7, <3>1, SkipInSpan
  <2>2. x \in Span[1]..Span[1] + Span[2] - 1
    BY <1>2, <1>4, <2>1 DEF Block
  <2>3. noise' > 0 /\ bad # post
    BY <1>2, <1>4, <1>7, <2>2
  <2> QED BY <1>1, <1>3, <1>4, <1>7, <2>3, ToReadKeeps
<1> QED BY <1>1, <1>5, <1>6, <1>7

LEMMA WriteBadlyKeeps == RestoreInv /\ WriteBadly => RestoreInv'
<1> SUFFICES ASSUME RestoreInv, WriteBadly PROVE RestoreInv'
  OBVIOUS
<1> USE ConstantTypes
<1>1. /\ phase = "write" /\ phase' = "read" /\ upsets < MaxUpsets /\ upsets' = upsets + 1
      /\ UNCHANGED <<chunk, spans, tries, pre, post, noise, ram, bad, bl2>>
      /\ ~Skips(Span[1], Span[2])
  BY DEF WriteBadly
<1>2. PICK t \in Targets(Span[1], Span[2]) : nand' = [Written(Span[1], Span[2]) EXCEPT ![t] = Other]
  BY DEF WriteBadly
<1>3. Span[2] \in Nat /\ Span[1] \in Block
  BY <1>1, AtSpan
<1>4. /\ Written(Span[1], Span[2]) \in [Block -> Content]
      /\ \A b \in bad : Written(Span[1], Span[2])[b] = Other
  BY <1>1, <1>3, WrittenType
<1>5. bad \subseteq Block /\ noise \in 0..MaxNoise /\ upsets \in 0..MaxUpsets
  BY DEF RestoreInv, TypeOK
<1>6. t \in Block /\ t >= Span[1] /\ t < Span[1] + Span[2]
  BY <1>1, <1>3, <1>5, NoSkipNoShift
<1>7. t \in Due
  <2>1. t \in Span[1]..Span[1] + Span[2] - 1
    BY <1>3, <1>6 DEF Block
  <2> QED BY <1>1, <2>1, SpanIsDue
<1>8. nand' \in [Block -> Content] /\ \A b \in bad : nand'[b] = Other
  BY <1>2, <1>4, <1>5 DEF Content
<1>9. \A b \in Block : nand'[b] \in {nand[b], b, Other} /\ (b \in Due \/ nand'[b] \in {nand[b], b})
  <2> SUFFICES ASSUME NEW b \in Block
               PROVE  nand'[b] \in {nand[b], b, Other} /\ (b \in Due \/ nand'[b] \in {nand[b], b})
    OBVIOUS
  <2>1. Written(Span[1], Span[2])[b] \in {nand[b], b}
    BY <1>1, WrittenStraight
  <2>2. nand'[b] = IF b = t THEN Other ELSE Written(Span[1], Span[2])[b]
    BY <1>2, <1>4
  <2> QED BY <1>7, <2>1, <2>2
<1>10. noise' \in 0..MaxNoise /\ noise' >= noise /\ upsets' \in 0..MaxUpsets
  BY <1>1, <1>5
<1> QED BY <1>1, <1>8, <1>9, <1>10, ToReadKeeps

\* What comes back is data only if every block holds its own.
LEMMA ReadBackTells ==
    ASSUME RestoreInv, phase = "read", Straight, NEW delivered \in BOOLEAN,
           ram' = ReadBack(Span[1], Span[2], delivered),
           \A k \in 0..Span[2] - 1 : ram'[Local(Span[1]) + k] = Span[1] + k,
           NEW b \in Span[1]..Span[1] + Span[2] - 1
    PROVE  nand[b] = b
<1> USE ConstantTypes
<1> DEFINE s == Span[1]
           n == Span[2]
           k == b - s
           i == Local(s) + k
           found == {t \in Targets(s, n) : Local(s) + Rank(t, s) = i}
<1>1. /\ s \in Block /\ n \in Nat /\ Local(s) \in Nat /\ chunk \in Chunk
      /\ Local(s) + n <= Size(chunk) /\ s + n <= Stock
  BY AtSpan
<1>2. Size(chunk) \in 1..ChunkSize
  BY <1>1, ChunkArithmetic
<1> HIDE DEF s, n
<1>3. b \in s..s + n - 1
  BY DEF s, n
<1>4. s \in Nat /\ b \in Nat /\ b < Stock /\ k \in 0..n - 1 /\ s + k = b
  BY <1>1, <1>3 DEF Block
<1>5. i \in 0..ChunkSize - 1 /\ ~(i < Local(s)) /\ ~(i >= Local(s) + n)
  BY <1>1, <1>2, <1>4
<1>6. ram'[i] = b
  <2>1. ram'[Local(s) + k] = s + k
    BY <1>4 DEF s, n
  <2> QED BY <1>4, <2>1
<1> HIDE DEF i, k
<1>7. ram'[i] = IF delivered /\ found # {} THEN nand[CHOOSE t \in found : TRUE] ELSE Zero
  BY <1>5 DEF ReadBack, s, n
<1>8. b # Zero /\ b # Blank /\ b # Other
  BY <1>4 DEF Zero, Blank, Other
<1>9. PICK t \in found : nand[t] = b
  BY <1>6, <1>7, <1>8
<1>10. t \in Block
  BY <1>9 DEF Targets, GoodFrom
<1>11. nand[t] \in {t, Blank, Other}
  BY <1>10 DEF Straight
<1> QED BY <1>8, <1>9, <1>11

LEMMA ReadKeeps == RestoreInv /\ Read => RestoreInv'
<1> SUFFICES ASSUME RestoreInv, Read PROVE RestoreInv'
  OBVIOUS
<1> USE ConstantTypes
<1>1. phase = "read" /\ UNCHANGED <<tries, pre, post, noise, nand, bad, bl2>>
  BY DEF Read, flash
<1>2. PICK delivered \in BOOLEAN :
        /\ delivered \/ upsets < MaxUpsets
        /\ upsets' = IF delivered THEN upsets ELSE upsets + 1
        /\ ram' = ReadBack(Span[1], Span[2], delivered)
        /\ IF \A k \in 0..Span[2] - 1 : ram'[Local(Span[1]) + k] = Span[1] + k
           THEN NextSpan
           ELSE phase' = "failed" /\ UNCHANGED <<chunk, spans>>
  BY DEF Read
<1>3. upsets' \in 0..MaxUpsets
  <2>1. upsets \in 0..MaxUpsets
    BY DEF RestoreInv, TypeOK
  <2> QED BY <1>2, <2>1
<1>4. /\ Local(Span[1]) \in Nat /\ Span[2] \in Nat /\ Span[1] \in Block /\ chunk \in Chunk
      /\ Local(Span[1]) + Span[2] <= Size(chunk) /\ First(chunk) + Local(Span[1]) = Span[1]
  BY <1>1, AtSpan
<1>5. nand \in [Block -> Content] /\ ram \in [0..ChunkSize - 1 -> Content]
  BY DEF RestoreInv, TypeOK
<1>6. ram' \in [0..ChunkSize - 1 -> Content]
  <2> DEFINE found(i) == {b \in Targets(Span[1], Span[2]) : Local(Span[1]) + Rank(b, Span[1]) = i}
             back(i) == IF i < Local(Span[1]) \/ i >= Local(Span[1]) + Span[2] THEN ram[i]
                        ELSE IF delivered /\ found(i) # {}
                             THEN nand[CHOOSE b \in found(i) : TRUE] ELSE Zero
  <2>1. ram' = [i \in 0..ChunkSize - 1 |-> back(i)]
    BY <1>2 DEF ReadBack
  <2>2. ASSUME NEW i \in 0..ChunkSize - 1 PROVE back(i) \in Content
    <3>1. ram[i] \in Content /\ Zero \in Content
      BY <1>5 DEF Content
    <3>2. found(i) # {} => (CHOOSE b \in found(i) : TRUE) \in Block
      BY DEF Targets, GoodFrom
    <3>3. found(i) # {} => nand[CHOOSE b \in found(i) : TRUE] \in Content
      BY <1>5, <3>2
    <3> HIDE DEF found
    <3> QED BY <3>1, <3>3
  <2> HIDE DEF back
  <2> QED BY <2>1, <2>2
<1>7. CASE phase' = "failed" /\ UNCHANGED <<chunk, spans>>
  <2>1. TypeOK'
    BY <1>1, <1>3, <1>6, <1>7 DEF RestoreInv, TypeOK, Phases, Ended
  <2> QED BY <1>1, <1>7, <2>1, OutsideKeeps DEF RestoreInv, Before
<1>8. CASE NextSpan /\ \A k \in 0..Span[2] - 1 : ram'[Local(Span[1]) + k] = Span[1] + k
  <2>1. /\ phase' \in {"write", "load", "final"} /\ chunk' \in Chunk
        /\ spans' \subseteq spans
        /\ phase' = "load" => chunk' # 0
        /\ phase' = "write" => spans' # {} /\ chunk' = chunk
        /\ (/\ InPlaceBut(Due)
            /\ \A b \in Span[1]..Span[1] + Span[2] - 1 : nand[b] = b) => InPlaceBut(Due)'
    BY <1>1, <1>8, NextSpanKeeps
  <2>2. TypeOK'
    <3>1. phase' \in Phases /\ spans' \subseteq StockBlock \X (1..ChunkSize)
      BY <2>1 DEF Phases, RestoreInv, TypeOK
    <3> QED BY <1>1, <1>3, <1>6, <2>1, <3>1 DEF RestoreInv, TypeOK
  <2>3. OnCourse
    BY <1>1 DEF RestoreInv, Restoring
  <2>4. Straight => \A b \in Span[1]..Span[1] + Span[2] - 1 : nand[b] = b
    BY <1>1, <1>2, <1>8, ReadBackTells
  <2>5. OnCourse'
    BY <1>1, <2>1, <2>3, <2>4 DEF OnCourse, Straight, Acceptable
  <2>6. phase' = "write" => Loaded'
    <3> SUFFICES ASSUME phase' = "write" PROVE Loaded'
      OBVIOUS
    <3>1. chunk' = chunk /\ Loaded
      BY <1>1, <2>1 DEF RestoreInv
    <3>2. First(chunk) \in Nat /\ Size(chunk) \in 1..ChunkSize
      BY <1>4, ChunkArithmetic
    <3>3. ASSUME NEW i \in 0..Size(chunk) - 1 PROVE ram'[i] = First(chunk) + i
      <4>1. CASE i < Local(Span[1]) \/ i >= Local(Span[1]) + Span[2]
        <5>1. ram'[i] = ram[i]
          BY <1>2, <3>2, <4>1 DEF ReadBack
        <5> QED BY <3>1, <5>1 DEF Loaded
      <4>2. CASE ~(i < Local(Span[1]) \/ i >= Local(Span[1]) + Span[2])
        <5>1. i - Local(Span[1]) \in 0..Span[2] - 1
          BY <1>4, <3>2, <4>2
        <5>2. /\ Local(Span[1]) + (i - Local(Span[1])) = i
              /\ Span[1] + (i - Local(Span[1])) = First(chunk) + i
          BY <1>4, <3>2 DEF Block
        <5>3. ram'[Local(Span[1]) + (i - Local(Span[1]))] = Span[1] + (i - Local(Span[1]))
          BY <1>8, <5>1
        <5> QED BY <5>2, <5>3
      <4> QED BY <4>1, <4>2
    <3> QED BY <3>1, <3>3 DEF Loaded, First, Size
  <2>7. phase' = "write" => \A span \in spans' : SpanIn(span)'
    <3>1. \A span \in spans : SpanIn(span)
      BY <1>1 DEF RestoreInv
    <3> QED BY <1>1, <2>1, <3>1 DEF SpanIn, First, Size, BlocksOf
  <2> QED BY <1>1, <2>1, <2>2, <2>5, <2>6, <2>7 DEF RestoreInv, Before, Finishing
<1> QED BY <1>2, <1>7, <1>8

LEMMA FinalScanKeeps == RestoreInv /\ FinalScan => RestoreInv'
<1> SUFFICES ASSUME RestoreInv, FinalScan PROVE RestoreInv'
  OBVIOUS
<1>1. PICK seen \in SUBSET bad :
        Scanned(seen) /\ phase' = IF seen = post THEN "load bl2" ELSE "failed"
  BY DEF FinalScan
<1>2. phase = "final" /\ UNCHANGED <<chunk, spans, tries, pre, post, upsets, ram, nand, bad, bl2>>
  BY DEF FinalScan, flash
<1>3. noise' \in 0..MaxNoise /\ (seen # bad => noise' = noise + 1) /\ noise' >= noise
  BY <1>1, ScannedType DEF RestoreInv
<1>4. noise \in Nat
  BY DEF RestoreInv, TypeOK
<1>5. TypeOK'
  BY <1>1, <1>2, <1>3 DEF RestoreInv, TypeOK, Phases, Ended
<1>6. CASE phase' = "failed"
  BY <1>2, <1>5, <1>6, OutsideKeeps DEF RestoreInv, Before
<1>7. CASE phase' = "load bl2" /\ seen = post
  <2>1. OnCourse /\ Due = {}
    BY <1>2 DEF RestoreInv, Restoring, Due
  <2>2. noise' <= 1 => InPlaceBut({})
    <3>1. (Straight /\ InPlaceBut({})) \/ (noise > 0 /\ bad # post)
      BY <2>1 DEF OnCourse
    <3>2. bad # post => noise' = noise + 1
      BY <1>3, <1>7
    <3> QED BY <1>4, <3>1, <3>2
  <2>3. noise' <= 1 => InPlaceBut({})'
    BY <1>2, <2>2 DEF InPlaceBut
  <2> QED BY <1>2, <1>5, <1>7, <2>1, <2>3
          DEF RestoreInv, Before, Restoring, Finishing, OnCourse, Acceptable
<1> QED BY <1>1, <1>6, <1>7

LEMMA Bl2Keeps ==
    RestoreInv /\ (LoadBl2 \/ EraseBl2 \/ WriteBl2 \/ ReadBl2 \/ Reset \/ Watch) => RestoreInv'
<1> SUFFICES ASSUME RestoreInv, LoadBl2 \/ EraseBl2 \/ WriteBl2 \/ ReadBl2 \/ Reset \/ Watch
             PROVE  RestoreInv'
  OBVIOUS
<1> USE ConstantTypes
<1>1. /\ Finishing /\ phase' \in {"failed", "erase bl2", "write bl2", "read bl2", "reset", "watch", "done"}
      /\ UNCHANGED <<chunk, spans, pre, post, noise, nand, bad>>
  BY DEF LoadBl2, EraseBl2, WriteBl2, ReadBl2, Reset, Watch, Bl2Step, Advance, Finishing, flash
<1>2. phase' \in {"reset", "watch", "done"} => bl2' = "stock"
  BY DEF LoadBl2, EraseBl2, WriteBl2, ReadBl2, Reset, Watch, Bl2Step, Advance, flash, RestoreInv
<1>3. bl2' \in {"old", "blank", "stock", "other"}
  <2>1. bl2 \in {"old", "blank", "stock", "other"}
    BY DEF RestoreInv, TypeOK
  <2> QED BY <2>1 DEF LoadBl2, EraseBl2, WriteBl2, ReadBl2, Reset, Watch, Bl2Step, Advance, flash
<1>4. ram' \in [0..ChunkSize - 1 -> Content] /\ tries' \in 0..Loads - 1
  <2>1. (ram' = ram /\ tries' = tries) \/ (ram' = [ram EXCEPT ![0] = Other] /\ tries' = 0)
    BY DEF LoadBl2, EraseBl2, WriteBl2, ReadBl2, Reset, Watch, Bl2Step, Advance
  <2>2. ram \in [0..ChunkSize - 1 -> Content] /\ tries \in 0..Loads - 1 /\ Other \in Content
    BY DEF RestoreInv, TypeOK, Content
  <2> QED BY <2>1, <2>2
<1>5. upsets' \in 0..MaxUpsets
  <2>1. upsets' = upsets \/ (upsets < MaxUpsets /\ upsets' = upsets + 1)
    BY DEF LoadBl2, EraseBl2, WriteBl2, ReadBl2, Reset, Watch
  <2> QED BY <2>1 DEF RestoreInv, TypeOK
<1>6. TypeOK'
  <2>1. phase' \in Phases
    BY <1>1 DEF Phases, Ended
  <2> QED BY <1>1, <1>3, <1>4, <1>5, <2>1 DEF RestoreInv, TypeOK
<1>7. Acceptable(post)' /\ (noise' <= 1 => InPlaceBut({})')
  BY <1>1 DEF RestoreInv, Acceptable, InPlaceBut
<1> QED BY <1>1, <1>2, <1>6, <1>7 DEF RestoreInv, Before, Restoring, Finishing

LEMMA StopKeeps == RestoreInv /\ Stop => RestoreInv'
<1> SUFFICES ASSUME RestoreInv, Stop PROVE RestoreInv'
  OBVIOUS
<1> USE ConstantTypes
<1>1. /\ phase' = "failed" /\ upsets < MaxUpsets /\ upsets' = upsets + 1
      /\ UNCHANGED <<chunk, spans, tries, pre, post, noise, ram, bad>>
  BY DEF Stop
<1>2. /\ nand \in [Block -> Content] /\ bad \subseteq Block /\ \A b \in bad : nand[b] = Other
      /\ bl2 \in {"old", "blank", "stock", "other"} /\ upsets \in 0..MaxUpsets
  BY DEF RestoreInv, TypeOK
<1>3. nand' \in [Block -> Content] /\ \A b \in bad : nand'[b] = Other
  <2>1. CASE phase = "confirm"
    <3>1. PICK n \in Block : nand' = ErasedBefore(n)
      BY <2>1 DEF Stop
    <3> QED BY <1>2, <3>1 DEF ErasedBefore, Content
  <2>2. CASE phase = "write"
    <3>1. PICK n \in 0..Span[2] : nand' = Written(Span[1], n)
      BY <2>2 DEF Stop
    <3> QED BY <2>2, <3>1, WrittenType
  <2>3. CASE phase \notin {"confirm", "write"}
    <3>1. nand' = nand
      BY <2>3 DEF Stop
    <3> QED BY <1>2, <3>1
  <2> QED BY <2>1, <2>2, <2>3
<1>4. bl2' \in {"old", "blank", "stock", "other"}
  BY <1>2 DEF Stop
<1>5. TypeOK'
  <2>1. upsets' \in 0..MaxUpsets
    BY <1>1, <1>2
  <2> QED BY <1>1, <1>3, <1>4, <2>1 DEF RestoreInv, TypeOK, Phases, Ended
<1> QED BY <1>1, <1>3, <1>5, OutsideKeeps DEF RestoreInv, Before

\* A block that goes bad was not one to rely on.
LEMMA WearKeeps == RestoreInv /\ Wear => RestoreInv'
<1> SUFFICES ASSUME RestoreInv, Wear PROVE RestoreInv'
  OBVIOUS
<1> USE ConstantTypes
<1>1. PICK x \in Block \ bad : bad' = bad \cup {x} /\ nand' = [nand EXCEPT ![x] = Other]
  BY DEF Wear
<1>2. UNCHANGED <<phase, chunk, spans, tries, pre, post, noise, upsets, ram, bl2>>
  BY DEF Wear, wizard
<1>3. /\ nand \in [Block -> Content] /\ bad \subseteq Block /\ \A b \in bad : nand[b] = Other
      /\ post \subseteq bad
  BY DEF RestoreInv, TypeOK
<1>4. \A b \in Block : nand'[b] = IF b = x THEN Other ELSE nand[b]
  BY <1>1, <1>3
<1>5. nand' \in [Block -> Content] /\ bad' \subseteq Block /\ post' \subseteq bad'
      /\ \A b \in bad' : nand'[b] = Other
  BY <1>1, <1>2, <1>3, <1>4 DEF Content
<1>6. TypeOK'
  BY <1>2, <1>5 DEF RestoreInv, TypeOK
<1>7. StockBlock \subseteq Block
  BY DEF StockBlock, Block
<1>8. Due' = Due /\ (Restoring' <=> Restoring) /\ (Finishing' <=> Finishing)
  BY <1>2 DEF Due, Restoring, Finishing, First, Size
<1>9. OnCourse => OnCourse'
  <2>1. Straight => Straight'
    BY <1>4 DEF Straight
  <2>2. InPlaceBut(Due) => InPlaceBut(Due)'
    BY <1>1, <1>4, <1>7, <1>8 DEF InPlaceBut
  <2>3. bad # post => bad' # post'
    BY <1>1, <1>2, <1>3
  <2> QED BY <1>2, <2>1, <2>2, <2>3 DEF OnCourse, Acceptable
<1>10. InPlaceBut({}) => InPlaceBut({})'
  BY <1>1, <1>4, <1>7 DEF InPlaceBut
<1>11. Loaded => Loaded'
  BY <1>2 DEF Loaded, First, Size
<1>12. ASSUME NEW span, SpanIn(span) PROVE SpanIn(span)'
  BY <1>2, <1>12 DEF SpanIn, First, Size, BlocksOf
<1>13. phase = "rescan" => \A b \in Block : nand'[b] \in {Blank, Other}
  BY <1>4 DEF RestoreInv
<1>14. phase \in {"write", "read"} => spans' # {} /\ \A span \in spans' : SpanIn(span)'
  BY <1>2, <1>12 DEF RestoreInv
<1>15. Finishing' => Acceptable(post)' /\ (noise' <= 1 => InPlaceBut({})')
  BY <1>2, <1>8, <1>10 DEF RestoreInv, Acceptable
<1> QED BY <1>2, <1>5, <1>6, <1>8, <1>9, <1>11, <1>13, <1>14, <1>15 DEF RestoreInv

LEMMA RestoreNextInv == RestoreInv /\ [Next]_vars => RestoreInv'
<1> SUFFICES ASSUME RestoreInv, [Next]_vars PROVE RestoreInv'
  OBVIOUS
<1>1. CASE Next
  BY <1>1, EarlyKeeps, ScanKeeps, LoadKeeps, LoadAgainKeeps, EraseKeeps, RescanKeeps, WriteKeeps,
     WriteBadlyKeeps, ReadKeeps, FinalScanKeeps, Bl2Keeps, StopKeeps, WearKeeps DEF Next, Progress
<1>2. CASE UNCHANGED vars
  <2> USE <1>2 DEF vars, wizard, flash
  <2>1. TypeOK'
    BY DEF RestoreInv, TypeOK
  <2>2. Restoring => OnCourse'
    BY DEF RestoreInv, Restoring, OnCourse, Straight, InPlaceBut, Due, First, Size, Acceptable
  <2>3. Loaded => Loaded'
    BY DEF Loaded, First, Size
  <2>4. phase \in {"write", "read"} => spans' # {} /\ \A span \in spans' : SpanIn(span)'
    BY DEF RestoreInv, SpanIn, First, Size, BlocksOf
  <2>5. Finishing => Acceptable(post)' /\ (noise' <= 1 => InPlaceBut({})')
    BY DEF RestoreInv, Acceptable, InPlaceBut
  <2> QED BY <2>1, <2>2, <2>3, <2>4, <2>5 DEF RestoreInv, Restoring, Finishing
<1> QED BY <1>1, <1>2

LEMMA RestoreInductive == Spec => []RestoreInv
<1> QED BY RestoreInitInv, RestoreNextInv, PTL DEF Spec

\* Every variable of the restore keeps its range.
THEOREM RestoreTypes == Spec => []TypeOK
<1>1. RestoreInv => TypeOK
  BY DEF RestoreInv
<1> QED BY <1>1, RestoreInductive, PTL

\* stock_recovery_wizard reports a restore only over a complete one: BL2 reads
\* back as stock, and every good block of the stock image holds its own data if
\* the run lost at most one line of the serial console.
THEOREM DoneIsComplete == Spec => []DoneIsRestored
<1>1. RestoreInv => DoneIsRestored
  BY DEF RestoreInv, DoneIsRestored, Finishing, InPlaceBut
<1> QED BY <1>1, RestoreInductive, PTL

\* BL2 is touched only over a stock image in its place, for every number and
\* every place of bad blocks, every size of the chunks and every lost line, one
\* in a run.
THEOREM Bl2ComesLast == Spec => Bl2OverStockImage
<1>1. ASSUME RestoreInv, [Next]_vars, bl2' # bl2, noise <= 1, NEW b \in StockBlock
      PROVE  InPlace(b)
  <2>1. Finishing
    <3>1. CASE Stop
      BY <1>1, <3>1 DEF Stop, Finishing
    <3>2. CASE EraseBl2 \/ WriteBl2
      BY <3>2 DEF EraseBl2, WriteBl2, Bl2Step, Finishing
    <3>3. CASE ~(Stop \/ EraseBl2 \/ WriteBl2)
      BY <1>1, <3>3 DEF Next, Progress, vars, wizard, flash, Start, SendPreloader, SendFip, Prompt,
         MissPrompt, Prove, Geometry, Scan, Load, LoadAgain, Erase, Rescan, Write, WriteBadly,
         Read, FinalScan, LoadBl2, ReadBl2, Reset, Watch, Wear, Advance
    <3> QED BY <3>1, <3>2, <3>3
  <2>2. Acceptable(post) /\ InPlaceBut({})
    BY <1>1, <2>1 DEF RestoreInv
  <2> QED BY <2>2 DEF Acceptable, InPlaceBut, InPlace
<1>2. RestoreInv /\ [Next]_vars
        => [bl2' # bl2 /\ noise <= 1 => \A b \in StockBlock : InPlace(b)]_vars
  BY <1>1
<1> QED BY <1>2, RestoreInductive, PTL DEF Spec, Bl2OverStockImage
(***************************************************************************)
(* XMODEM: the inductive invariant.                                        *)
(***************************************************************************)
\* How often v is in s.
Times(s, v) == Cardinality({i \in DOMAIN s : s[i] = v})

\* The block a packet carries, and how many packets the board has taken.
At(p) == IF p.op = "block" THEN p.data ELSE Total
Taken == Len(got) + (IF board = "done" THEN 1 ELSE 0)

\* What is on the line came from the PC in order, from the last block the board
\* has to the one the PC is at.
OnTheLine ==
    \A j \in 1..Len(toBoard) :
        \/ toBoard[j] = Abort /\ sender = "failed"
        \/ At(toBoard[j]) \in 0..index /\ toBoard[j] = Packet(At(toBoard[j]))
Sorted == \A j, k \in 1..Len(toBoard) : j < k => At(toBoard[j]) <= At(toBoard[k])
NotOld ==
    /\ Len(got) <= index + 1
    /\ board = "receiving" => \A j \in 1..Len(toBoard) : Len(got) <= At(toBoard[j]) + 1

\* The packets and answers on the way are those the PC waits for and one for each
\* late timeout; and the packets behind one are enough to lead from it to the last.
Pending(e) ==
    /\ Len(toBoard) + Times(toPC, "ACK") + Times(toPC, "NAK") <= late + e
    /\ \A j \in 1..Len(toBoard) :
         toBoard[j] # Abort => At(toBoard[j]) + (Len(toBoard) - j) + 1 >= index + e
Extra == CASE sender = "send" -> {0} [] sender = "wait" -> {1} [] OTHER -> {0, 1, 2}

\* The PC is ahead of the board by the spare ACKs it has used up, and those it may
\* still use up come on top.
Ahead == index + Times(toPC, "ACK") <= Taken + late

XmodemInv ==
    /\ XmodemTypeOK
    /\ InOrder
    /\ OnTheLine /\ Sorted /\ NotOld
    /\ \E e \in Extra : Pending(e)
    /\ Ahead
    /\ SuccessIsDelivery

-----------------------------------------------------------------------------
LEMMA XmodemConstants ==
    /\ Total \in Nat /\ Total > 0 /\ Tries \in Nat /\ Tries > 0
    /\ Modulus \in Nat /\ MaxLate \in Nat /\ MaxLate + 2 <= Modulus
BY XmodemAssumption DEF XmodemAssumption

(***************************************************************************)
(* Sequence numbers and counts.                                            *)
(***************************************************************************)
\* Numbers less than a modulus apart are the same if they are it on the wire.
LEMMA SameNumber ==
    ASSUME NEW a \in Nat, NEW b \in Nat, a <= b, b < a + Modulus, a % Modulus = b % Modulus
    PROVE  a = b
<1> DEFINE x == a \div Modulus
           y == b \div Modulus
<1>1. Modulus \in Nat /\ Modulus > 1
  BY XmodemConstants
<1>2. x \in Int /\ y \in Int
  BY <1>1
<1>3. a = Modulus * x + (a % Modulus) /\ b = Modulus * y + (b % Modulus) /\ a % Modulus \in Int
  BY <1>1
<1> HIDE DEF x, y
<1>4. b - a = Modulus * y - Modulus * x
  BY <1>1, <1>2, <1>3
<1>5. CASE y <= x
  <2>1. Modulus * y <= Modulus * x
    BY <1>1, <1>2, <1>5
  <2> QED BY <1>1, <1>2, <1>4, <2>1
<1>6. CASE y >= x + 1
  <2>1. Modulus * y >= Modulus * (x + 1)
    BY <1>1, <1>2, <1>6
  <2>2. Modulus * (x + 1) = Modulus * x + Modulus
    BY <1>1, <1>2
  <2> QED BY <1>1, <1>2, <1>4, <2>1, <2>2
<1> QED BY <1>2, <1>5, <1>6

LEMMA TimesType ==
    ASSUME NEW S, NEW s \in Seq(S), NEW v
    PROVE  Times(s, v) \in Nat /\ IsFiniteSet({i \in DOMAIN s : s[i] = v})
<1>1. IsFiniteSet(1..Len(s)) /\ {i \in DOMAIN s : s[i] = v} \subseteq 1..Len(s)
  BY FS_Interval
<1>2. IsFiniteSet({i \in DOMAIN s : s[i] = v})
  BY <1>1, FS_Subset
<1> QED BY <1>2, FS_CardinalityType DEF Times

LEMMA TimesNone ==
    ASSUME NEW s, NEW v, \A i \in DOMAIN s : s[i] # v
    PROVE  Times(s, v) = 0
<1>1. {i \in DOMAIN s : s[i] = v} = {}
  OBVIOUS
<1> QED BY <1>1, FS_EmptySet DEF Times

\* One more at the end of a sequence.
LEMMA TimesAppend ==
    ASSUME NEW S, NEW s \in Seq(S), NEW x \in S, NEW v
    PROVE  Times(Append(s, x), v) = Times(s, v) + IF x = v THEN 1 ELSE 0
<1> DEFINE t == Append(s, x)
           A == {i \in DOMAIN s : s[i] = v}
           B == {i \in DOMAIN t : t[i] = v}
<1>1. /\ DOMAIN s = 1..Len(s) /\ DOMAIN t = 1..Len(s) + 1 /\ Len(s) \in Nat
      /\ t[Len(s) + 1] = x /\ \A i \in 1..Len(s) : t[i] = s[i]
  OBVIOUS
<1> HIDE DEF t
<1>2. IsFiniteSet(A) /\ Cardinality(A) \in Nat
  BY TimesType DEF Times
<1>3. CASE x = v
  <2>1. B = A \cup {Len(s) + 1} /\ Len(s) + 1 \notin A
    BY <1>1, <1>3
  <2>2. Cardinality(A \cup {Len(s) + 1}) = Cardinality(A) + 1
    BY <1>2, <2>1, FS_AddElement
  <2> QED BY <1>3, <2>1, <2>2 DEF Times, t
<1>4. CASE x # v
  <2>1. B = A
    BY <1>1, <1>4
  <2>2. Times(t, v) = Cardinality(A) /\ Times(s, v) = Cardinality(A)
    BY <2>1 DEF Times
  <2> QED BY <1>2, <1>4, <2>2 DEF t
<1> QED BY <1>3, <1>4

\* Less at the front of it.
LEMMA TimesSuffix ==
    ASSUME NEW S, NEW s \in Seq(S), NEW k \in 0..Len(s), NEW t \in Seq(S),
           Len(t) = Len(s) - k, \A i \in 1..Len(t) : t[i] = s[i + k], NEW v
    PROVE  /\ Times(t, v) <= Times(s, v)
           /\ \A i \in 1..k : s[i] = v => Times(t, v) + 1 <= Times(s, v)
<1> DEFINE A == {i \in DOMAIN s : s[i] = v}
           B == {i \in DOMAIN t : t[i] = v}
           f == [i \in B |-> i + k]
<1>1. /\ DOMAIN s = 1..Len(s) /\ DOMAIN t = 1..Len(t) /\ Len(s) \in Nat /\ Len(t) \in Nat
      /\ k \in Nat
  OBVIOUS
<1>2. IsFiniteSet(A) /\ Times(s, v) = Cardinality(A) /\ Times(t, v) = Cardinality(B)
      /\ Cardinality(A) \in Nat
  BY TimesType DEF Times
<1>3. f \in Injection(B, A \ (1..k))
  <2>1. \A i \in B : f[i] = i + k /\ f[i] \in A \ (1..k)
    BY <1>1
  <2>2. \A i, j \in B : f[i] = f[j] => i = j
    BY <1>1, <2>1
  <2> QED BY <2>1, <2>2 DEF Injection, IsInjective
<1> HIDE DEF f
<1>4. ASSUME NEW X, IsFiniteSet(X), A \ (1..k) \subseteq X PROVE Cardinality(B) <= Cardinality(X)
  <2>1. f \in Injection(B, X)
    BY <1>3, <1>4 DEF Injection, IsInjective
  <2> QED BY <1>4, <2>1, FS_Injection
<1>5. Cardinality(B) <= Cardinality(A)
  BY <1>2, <1>4
<1>6. ASSUME NEW i \in 1..k, s[i] = v PROVE Cardinality(B) + 1 <= Cardinality(A)
  <2>1. i \in A /\ A \ (1..k) \subseteq A \ {i}
    BY <1>1, <1>6
  <2>2. IsFiniteSet(A \ {i}) /\ Cardinality(A \ {i}) = Cardinality(A) - 1
    BY <1>2, <2>1, FS_RemoveElement
  <2>3. Cardinality(B) <= Cardinality(A \ {i})
    BY <1>4, <2>1, <2>2
  <2>4. Cardinality(B) \in Nat
    BY TimesType DEF Times
  <2> QED BY <1>2, <2>2, <2>3, <2>4
<1> QED BY <1>2, <1>5, <1>6

(***************************************************************************)
(* Packets.                                                                *)
(***************************************************************************)
LEMMA PacketIs ==
    ASSUME NEW i \in 0..Total
    PROVE  /\ At(Packet(i)) = i
           /\ Packet(i) # Abort
           /\ Packet(i) \in Data \cup {EndOfFile}
           /\ i # Total => Packet(i).op = "block" /\ Packet(i).seq = (i + 1) % Modulus /\ Packet(i).data = i
           /\ i = Total => Packet(i).op = "EOT"
<1>1. CASE i = Total
  BY <1>1 DEF Packet, At, EndOfFile, Abort
<1>2. CASE i # Total
  <2>1. Packet(i) = [op |-> "block", seq |-> (i + 1) % Modulus, data |-> i]
    BY <1>2 DEF Packet
  <2>2. (i + 1) % Modulus \in 0..Modulus - 1 /\ i \in 0..Total - 1
    BY <1>2, XmodemConstants
  <2>3. Packet(i).op = "block" /\ Abort.op = "CAN"
    BY <2>1 DEF Abort
  <2> QED BY <1>2, <2>1, <2>2, <2>3 DEF At, Data
<1> QED BY <1>1, <1>2

LEMMA AbortIs == Abort.op = "CAN" /\ At(Abort) = Total
BY DEF Abort, At

LEMMA QueueType ==
    ASSUME XmodemTypeOK
    PROVE  /\ toBoard \in Seq(Data \cup {EndOfFile, Abort}) /\ toPC \in Seq(Answers)
           /\ Len(toBoard) \in Nat /\ Len(toPC) \in Nat /\ Len(got) \in Nat
           /\ index \in 0..Total /\ late \in 0..MaxLate /\ index \in Nat /\ late \in Nat
           /\ Times(toPC, "ACK") \in Nat /\ Times(toPC, "NAK") \in Nat
           /\ Taken \in Nat /\ Taken >= Len(got)
<1>1. /\ toBoard \in Seq(Data \cup {EndOfFile, Abort}) /\ toPC \in Seq(Answers)
      /\ index \in 0..Total /\ late \in 0..MaxLate /\ got \in Seq(0..Total - 1)
  BY DEF XmodemTypeOK
<1>2. Len(toBoard) \in Nat /\ Len(toPC) \in Nat /\ Len(got) \in Nat
  BY <1>1
<1>3. index \in Nat /\ late \in Nat
  BY <1>1, XmodemConstants
<1>4. Times(toPC, "ACK") \in Nat /\ Times(toPC, "NAK") \in Nat
  BY <1>1, TimesType
<1>5. Taken \in Nat /\ Taken >= Len(got)
  BY <1>2 DEF Taken
<1> QED BY <1>1, <1>2, <1>3, <1>4, <1>5

\* What is on the line.
LEMMA PacketOnTheLine ==
    ASSUME XmodemInv, NEW j \in 1..Len(toBoard)
    PROVE  \/ toBoard[j] = Abort /\ sender = "failed"
           \/ /\ At(toBoard[j]) \in 0..index /\ toBoard[j] = Packet(At(toBoard[j]))
              /\ toBoard[j] # Abort
<1>1. index \in 0..Total
  BY QueueType DEF XmodemInv
<1>2. \A i \in 0..index : i \in 0..Total
  BY <1>1, XmodemConstants
<1>3. \A i \in 0..index : Packet(i) # Abort
  BY <1>2, PacketIs
<1> QED BY <1>3 DEF XmodemInv, OnTheLine

LEMMA AtIsNat ==
    ASSUME XmodemInv, NEW j \in 1..Len(toBoard)
    PROVE  At(toBoard[j]) \in 0..Total
<1>1. index \in 0..Total
  BY QueueType DEF XmodemInv
<1> QED BY <1>1, PacketOnTheLine, AbortIs, XmodemConstants

\* The line when its first packet has come, or is lost.
LEMMA LineTail ==
    ASSUME XmodemInv, toBoard # <<>>, toBoard' = Tail(toBoard),
           UNCHANGED <<sender, index>>
    PROVE  /\ toBoard' \in Seq(Data \cup {EndOfFile, Abort})
           /\ Len(toBoard') = Len(toBoard) - 1
           /\ \A j \in 1..Len(toBoard') : j + 1 \in 1..Len(toBoard) /\ toBoard'[j] = toBoard[j + 1]
           /\ OnTheLine' /\ Sorted'
<1>1. toBoard \in Seq(Data \cup {EndOfFile, Abort})
  BY QueueType DEF XmodemInv
<1>2. /\ toBoard' \in Seq(Data \cup {EndOfFile, Abort})
      /\ Len(toBoard') = Len(toBoard) - 1 /\ Len(toBoard) \in Nat
      /\ \A j \in 1..Len(toBoard') : j + 1 \in 1..Len(toBoard) /\ toBoard'[j] = toBoard[j + 1]
  BY <1>1
<1>3. OnTheLine'
  BY <1>2 DEF XmodemInv, OnTheLine, At, Packet
<1>4. Sorted'
  <2> SUFFICES ASSUME NEW j \in 1..Len(toBoard'), NEW k \in 1..Len(toBoard'), j < k
               PROVE  At(toBoard'[j]) <= At(toBoard'[k])
    BY DEF Sorted, At
  <2>1. j + 1 \in 1..Len(toBoard) /\ k + 1 \in 1..Len(toBoard) /\ j + 1 < k + 1
    BY <1>2
  <2>2. At(toBoard[j + 1]) <= At(toBoard[k + 1])
    BY <2>1 DEF XmodemInv, Sorted
  <2> QED BY <1>2, <2>2
<1> QED BY <1>2, <1>3, <1>4

\* The line when the PC has sent once more.
LEMMA LineAppend ==
    ASSUME XmodemInv, NEW p, toBoard' = Append(toBoard, p), UNCHANGED index,
           sender # "failed",
           p = Packet(index) \/ (p = Abort /\ sender' = "failed")
    PROVE  /\ toBoard' \in Seq(Data \cup {EndOfFile, Abort})
           /\ Len(toBoard') = Len(toBoard) + 1
           /\ \A j \in 1..Len(toBoard) : toBoard'[j] = toBoard[j]
           /\ toBoard'[Len(toBoard')] = p
           /\ OnTheLine' /\ Sorted'
<1>1. toBoard \in Seq(Data \cup {EndOfFile, Abort}) /\ index \in 0..Total /\ Len(toBoard) \in Nat
  BY QueueType DEF XmodemInv
<1>2. p \in Data \cup {EndOfFile, Abort} /\ At(p) >= index
  BY <1>1, PacketIs, AbortIs, XmodemConstants
<1>3. /\ toBoard' \in Seq(Data \cup {EndOfFile, Abort})
      /\ Len(toBoard') = Len(toBoard) + 1
      /\ \A j \in 1..Len(toBoard) : toBoard'[j] = toBoard[j]
      /\ toBoard'[Len(toBoard) + 1] = p
  BY <1>1, <1>2
<1>4. ASSUME NEW j \in 1..Len(toBoard) PROVE At(toBoard[j]) \in 0..index /\ toBoard[j] = Packet(At(toBoard[j]))
  BY <1>4, PacketOnTheLine
<1>5. OnTheLine'
  <2> SUFFICES ASSUME NEW j \in 1..Len(toBoard) + 1
               PROVE  \/ toBoard'[j] = Abort /\ sender' = "failed"
                      \/ At(toBoard'[j]) \in 0..index /\ toBoard'[j] = Packet(At(toBoard'[j]))
    BY <1>3 DEF OnTheLine, At, Packet
  <2>1. CASE j \in 1..Len(toBoard)
    BY <1>3, <1>4, <2>1
  <2>2. CASE j = Len(toBoard) + 1
    BY <1>1, <1>3, <2>2, PacketIs
  <2> QED BY <1>1, <2>1, <2>2
<1>6. Sorted'
  <2> SUFFICES ASSUME NEW j \in 1..Len(toBoard) + 1, NEW k \in 1..Len(toBoard) + 1, j < k
               PROVE  At(toBoard'[j]) <= At(toBoard'[k])
    BY <1>3 DEF Sorted, At
  <2>1. CASE k \in 1..Len(toBoard)
    <3>1. j \in 1..Len(toBoard)
      BY <2>1
    <3> QED BY <1>3, <2>1, <3>1 DEF XmodemInv, Sorted
  <2>2. CASE k = Len(toBoard) + 1
    <3>1. j \in 1..Len(toBoard)
      BY <1>1, <2>2
    <3>2. At(toBoard'[j]) \in 0..index /\ toBoard'[k] = p
      BY <1>3, <1>4, <2>2, <3>1
    <3>3. p = Packet(index) => At(p) = index
      BY <1>1, PacketIs
    <3>4. index \in Nat /\ Total \in Nat /\ index <= Total
      BY <1>1, XmodemConstants
    <3> QED BY <3>2, <3>3, <3>4, AbortIs
  <2> QED BY <1>1, <2>1, <2>2
<1> QED BY <1>1, <1>3, <1>5, <1>6

(***************************************************************************)
(* The steps of the PC.                                                    *)
(***************************************************************************)
LEMMA XmodemInitInv == XmodemInit => XmodemInv
<1> SUFFICES ASSUME XmodemInit PROVE XmodemInv
  OBVIOUS
<1> USE XmodemConstants DEF XmodemInit
<1>1. XmodemTypeOK
  BY DEF XmodemTypeOK
<1>2. Times(toPC, "ACK") = 0 /\ Times(toPC, "NAK") = 0
  BY TimesNone
<1>3. InOrder /\ OnTheLine /\ Sorted /\ NotOld /\ SuccessIsDelivery
  BY DEF InOrder, OnTheLine, Sorted, NotOld, SuccessIsDelivery
<1>4. 0 \in Extra /\ Pending(0)
  BY <1>2 DEF Extra, Pending
<1>5. Ahead
  BY <1>2 DEF Ahead, Taken
<1> QED BY <1>1, <1>3, <1>4, <1>5 DEF XmodemInv

\* What a step of the PC leaves alone.
LEMMA BoardRests ==
    ASSUME XmodemInv, UNCHANGED receiver, index' \in 0..Total, index' >= index
    PROVE  /\ InOrder' /\ Taken' = Taken /\ Len(got') <= index' + 1
           /\ got' \in Seq(0..Total - 1) /\ board' \in {"receiving", "done", "cancelled"}
<1>1. Len(got) <= index + 1 /\ index \in Nat /\ Len(got) \in Nat
  BY QueueType DEF XmodemInv, NotOld
<1> QED BY <1>1, XmodemConstants DEF XmodemInv, XmodemTypeOK, receiver, InOrder, Taken

LEMMA SendKeeps == XmodemInv /\ Send => XmodemInv'
<1> SUFFICES ASSUME XmodemInv, Send PROVE XmodemInv'
  OBVIOUS
<1> USE XmodemConstants, QueueType
<1>0. XmodemTypeOK
  BY DEF XmodemInv
<1>1. /\ sender = "send" /\ sender' = "wait" /\ attempts < Tries
      /\ toBoard' = Append(toBoard, Packet(index))
      /\ attempts' = attempts + 1 /\ cancels' = 0
      /\ UNCHANGED <<index, late, toPC, board, got>>
  BY DEF Send, receiver
<1>2. /\ toBoard' \in Seq(Data \cup {EndOfFile, Abort})
      /\ Len(toBoard') = Len(toBoard) + 1
      /\ \A j \in 1..Len(toBoard) : toBoard'[j] = toBoard[j]
      /\ toBoard'[Len(toBoard')] = Packet(index)
      /\ OnTheLine' /\ Sorted'
  BY <1>1, LineAppend
<1>3. InOrder' /\ Taken' = Taken /\ Len(got') <= index' + 1
  BY <1>0, <1>1, BoardRests DEF receiver
<1>4. XmodemTypeOK'
  <2>1. attempts' \in 0..Tries
    BY <1>0, <1>1 DEF XmodemTypeOK
  <2> QED BY <1>0, <1>1, <1>2, <2>1 DEF XmodemTypeOK
<1>5. At(Packet(index)) = index
  BY <1>0, PacketIs
<1>6. NotOld'
  <2> SUFFICES ASSUME board = "receiving", NEW j \in 1..Len(toBoard) + 1
               PROVE  Len(got) <= At(toBoard'[j]) + 1
    BY <1>1, <1>2, <1>3 DEF NotOld, At
  <2>1. CASE j \in 1..Len(toBoard)
    BY <1>2, <2>1 DEF XmodemInv, NotOld
  <2>2. CASE j = Len(toBoard) + 1
    BY <1>1, <1>2, <1>3, <1>5, <2>2
  <2> QED BY <1>0, <2>1, <2>2
<1>7. Pending(0)
  BY <1>1 DEF XmodemInv, Extra
<1>8. Pending(1)'
  <2>1. Len(toBoard') + Times(toPC', "ACK") + Times(toPC', "NAK") <= late' + 1
    BY <1>0, <1>1, <1>2, <1>7 DEF Pending
  <2>2. ASSUME NEW j \in 1..Len(toBoard'), toBoard'[j] # Abort
        PROVE  At(toBoard'[j]) + (Len(toBoard') - j) + 1 >= index + 1
    <3>1. CASE j \in 1..Len(toBoard)
      <4>1. At(toBoard[j]) \in 0..Total
        BY <3>1, AtIsNat
      <4>2. At(toBoard[j]) + (Len(toBoard) - j) + 1 >= index + 0
        BY <1>2, <1>7, <2>2, <3>1 DEF Pending
      <4>3. /\ At(toBoard[j]) \in Nat /\ index \in Nat /\ Len(toBoard) \in Nat
            /\ toBoard'[j] = toBoard[j] /\ Len(toBoard') = Len(toBoard) + 1
        BY <1>0, <1>2, <3>1, <4>1
      <4> HIDE XmodemConstants, QueueType
      <4> QED BY <3>1, <4>2, <4>3
    <3>2. CASE j = Len(toBoard')
      BY <1>0, <1>2, <1>5, <3>2
    <3> QED BY <1>0, <1>2, <3>1, <3>2
  <2> QED BY <1>1, <2>1, <2>2 DEF Pending, At
<1>9. 1 \in Extra'
  BY <1>1 DEF Extra
<1>10. Ahead'
  BY <1>1, <1>3 DEF XmodemInv, Ahead
<1>11. SuccessIsDelivery'
  BY <1>1 DEF SuccessIsDelivery
<1> QED BY <1>2, <1>3, <1>4, <1>6, <1>8, <1>9, <1>10, <1>11 DEF XmodemInv

\* The PC gives up: fewer answers are left, and three CANs go out.
LEMMA FailKeeps ==
    ASSUME XmodemInv, Fail, sender \in {"send", "wait"}, UNCHANGED receiver,
           toPC' \in Seq(Answers),
           Times(toPC', "ACK") <= Times(toPC, "ACK"), Times(toPC', "NAK") <= Times(toPC, "NAK")
    PROVE  XmodemInv'
<1>0. /\ XmodemTypeOK
      /\ Times(toPC', "ACK") \in Nat /\ Times(toPC', "NAK") \in Nat
      /\ Times(toPC, "ACK") \in Nat /\ Times(toPC, "NAK") \in Nat
      /\ Len(toBoard) \in Nat /\ Len(got) \in Nat /\ index \in 0..Total /\ late \in Nat
      /\ index \in Nat /\ Taken \in Nat
  BY TimesType, QueueType DEF XmodemInv
<1>1. /\ sender' = "failed" /\ toBoard' = Append(toBoard, Abort)
      /\ UNCHANGED <<index, attempts, cancels, late, board, got>>
  BY DEF Fail, receiver
<1>2. /\ toBoard' \in Seq(Data \cup {EndOfFile, Abort})
      /\ Len(toBoard') = Len(toBoard) + 1
      /\ \A j \in 1..Len(toBoard) : toBoard'[j] = toBoard[j]
      /\ toBoard'[Len(toBoard')] = Abort
      /\ OnTheLine' /\ Sorted'
  BY <1>1, LineAppend
<1>3. InOrder' /\ Taken' = Taken /\ Len(got') <= index' + 1
  BY <1>0, <1>1, BoardRests
<1>4. XmodemTypeOK'
  BY <1>0, <1>1, <1>2 DEF XmodemTypeOK
<1>5. NotOld'
  <2> SUFFICES ASSUME board = "receiving", NEW j \in 1..Len(toBoard) + 1
               PROVE  Len(got) <= At(toBoard'[j]) + 1
    BY <1>1, <1>2, <1>3 DEF NotOld, At
  <2>1. CASE j \in 1..Len(toBoard)
    BY <1>2, <2>1 DEF XmodemInv, NotOld
  <2>2. CASE j = Len(toBoard) + 1
    <3>1. At(toBoard'[j]) = Total
      BY <1>2, <2>2, AbortIs
    <3> QED BY <1>0, <1>1, <1>3, <3>1, XmodemConstants
  <2> QED BY <1>0, <2>1, <2>2
<1>6. ASSUME NEW e \in Nat, NEW f \in Nat, f = e + 1, Pending(e) PROVE Pending(f)'
  <2>1. Len(toBoard') + Times(toPC', "ACK") + Times(toPC', "NAK") <= late' + f
    <3>1. Len(toBoard) + Times(toPC, "ACK") + Times(toPC, "NAK") <= late + e
      BY <1>6 DEF Pending
    <3> QED BY <1>0, <1>1, <1>2, <1>6, <3>1
  <2>2. ASSUME NEW j \in 1..Len(toBoard'), toBoard'[j] # Abort
        PROVE  At(toBoard'[j]) + (Len(toBoard') - j) + 1 >= index' + f
    <3>1. j \in 1..Len(toBoard)
      BY <1>0, <1>2, <2>2
    <3>2. At(toBoard[j]) \in 0..Total
      BY <3>1, AtIsNat
    <3>3. At(toBoard[j]) + (Len(toBoard) - j) + 1 >= index + e
      BY <1>2, <1>6, <2>2, <3>1 DEF Pending
    <3> QED BY <1>0, <1>1, <1>2, <1>6, <3>1, <3>2, <3>3
  <2> QED BY <2>1, <2>2 DEF Pending, At
<1>7. Pending(0) \/ Pending(1)
  BY DEF XmodemInv, Extra
<1>8. \E f \in Extra' : Pending(f)'
  <2>1. Pending(1)' \/ Pending(2)'
    BY <1>6, <1>7
  <2> QED BY <1>1, <2>1 DEF Extra
<1>9. Ahead'
  <2>1. index + Times(toPC, "ACK") <= Taken + late
    BY DEF XmodemInv, Ahead
  <2>2. index' + Times(toPC', "ACK") <= Taken' + late'
    BY <1>0, <1>1, <1>3, <2>1
  <2> QED BY <2>2 DEF Ahead
<1>10. SuccessIsDelivery'
  BY <1>1 DEF SuccessIsDelivery
<1> QED BY <1>2, <1>3, <1>4, <1>5, <1>8, <1>9, <1>10 DEF XmodemInv

LEMMA ExhaustedKeeps == XmodemInv /\ Exhausted => XmodemInv'
<1> SUFFICES ASSUME XmodemInv, Exhausted PROVE XmodemInv'
  OBVIOUS
<1>1. XmodemTypeOK
  BY DEF XmodemInv
<1>2. Times(toPC, "ACK") \in Nat /\ Times(toPC, "NAK") \in Nat /\ toPC \in Seq(Answers)
  BY <1>1, QueueType
<1>3. Fail /\ sender = "send" /\ UNCHANGED <<toPC, receiver>>
  BY DEF Exhausted
<1> QED BY <1>2, <1>3, FailKeeps
\* A step of the PC that sends nothing: what it needs of the answers and of what is
\* on the way for the invariant to hold after it.
Listens(f) ==
    /\ sender = "wait" /\ UNCHANGED <<receiver, toBoard>>
    /\ sender' \in {"send", "wait", "sent"} /\ f \in Extra'
    /\ index' \in 0..Total /\ index' >= index
    /\ attempts' \in 0..Tries /\ cancels' \in 0..1
    /\ late' \in 0..MaxLate /\ late' >= late
    /\ toPC' \in Seq(Answers)
    /\ index' <= index + 1 /\ f \in {0, 1} /\ (f = 1 => index' = index)
    /\ Len(toBoard) + Times(toPC', "ACK") + Times(toPC', "NAK") <= late' + f
    /\ index' + Times(toPC', "ACK") <= index + Times(toPC, "ACK")
    /\ sender' = "sent" => index = Total /\ Times(toPC, "ACK") >= 1

LEMMA ListenKeeps ==
    ASSUME XmodemInv, NEW f \in Nat, Listens(f)
    PROVE  XmodemInv'
<1>0. /\ XmodemTypeOK
      /\ Times(toPC', "ACK") \in Nat /\ Times(toPC, "ACK") \in Nat
      /\ Len(toBoard) \in Nat /\ Len(got) \in Nat /\ index \in 0..Total /\ late \in Nat
      /\ index \in Nat /\ index' \in 0..Total /\ index' \in Nat /\ late' \in Nat /\ Total \in Nat
      /\ Taken \in Nat /\ Taken <= Len(got) + 1
      /\ late' >= late /\ index' >= index /\ sender = "wait" /\ UNCHANGED <<receiver, toBoard>>
  <2>1. XmodemTypeOK
    BY DEF XmodemInv
  <2>2. Times(toPC', "ACK") \in Nat
    BY TimesType DEF Listens
  <2>3. Total \in Nat /\ MaxLate \in Nat
    BY XmodemConstants
  <2>4. index' \in Nat /\ late' \in Nat /\ index' \in 0..Total
    BY <2>3 DEF Listens
  <2>5. Len(got) \in Nat
    BY <2>1, QueueType
  <2>6. Taken \in Nat /\ Taken <= Len(got) + 1
    BY <2>5 DEF Taken
  <2>7. late' >= late /\ index' >= index /\ sender = "wait" /\ UNCHANGED <<receiver, toBoard>>
    BY DEF Listens
  <2> QED BY <2>1, <2>2, <2>3, <2>4, <2>5, <2>6, <2>7, QueueType
<1>1. UNCHANGED <<board, got, toBoard>>
  BY <1>0 DEF receiver
<1>2. InOrder' /\ Taken' = Taken /\ Len(got') <= index' + 1
  BY <1>0, BoardRests
<1>3. XmodemTypeOK'
  BY <1>0, <1>1 DEF XmodemTypeOK, Listens
<1>4. ASSUME NEW j \in 1..Len(toBoard)
      PROVE  /\ At(toBoard[j]) \in 0..index /\ toBoard[j] = Packet(At(toBoard[j]))
             /\ toBoard[j] # Abort
  BY <1>0, <1>4, PacketOnTheLine
<1>5. OnTheLine'
  <2> SUFFICES ASSUME NEW j \in 1..Len(toBoard)
               PROVE  At(toBoard[j]) \in 0..index' /\ toBoard[j] = Packet(At(toBoard[j]))
    BY <1>1 DEF OnTheLine, At, Packet
  <2> QED BY <1>0, <1>4
<1>6. Sorted' /\ NotOld'
  BY <1>1, <1>2 DEF XmodemInv, Sorted, NotOld, At
<1>7. Pending(f)'
  <2>1. ASSUME NEW j \in 1..Len(toBoard)
        PROVE  At(toBoard[j]) + (Len(toBoard) - j) + 1 >= index' + f
    <3>1. Pending(1)
      BY <1>0 DEF XmodemInv, Extra
    <3>2. At(toBoard[j]) + (Len(toBoard) - j) + 1 >= index + 1
      BY <1>4, <3>1 DEF Pending
    <3>3. At(toBoard[j]) \in Nat
      BY <1>0, <1>4
    <3>4. CASE f = 0
      <4>1. index' <= index + 1
        BY DEF Listens
      <4> QED BY <1>0, <3>2, <3>3, <3>4, <4>1
    <3>5. CASE f = 1
      <4>1. index' = index
        BY <3>5 DEF Listens
      <4> QED BY <1>0, <3>2, <3>3, <3>5, <4>1
    <3> QED BY <3>4, <3>5 DEF Listens
  <2>2. Len(toBoard) + Times(toPC', "ACK") + Times(toPC', "NAK") <= late' + f
    BY DEF Listens
  <2> QED BY <1>1, <2>1, <2>2 DEF Pending, At
<1>8. index + Times(toPC, "ACK") <= Taken + late
  BY DEF XmodemInv, Ahead
<1>9. Ahead'
  <2>1. index' + Times(toPC', "ACK") <= index + Times(toPC, "ACK")
    BY DEF Listens
  <2>2. index' + Times(toPC', "ACK") <= Taken' + late'
    BY <1>0, <1>2, <1>8, <2>1
  <2> QED BY <2>2 DEF Ahead
<1>10. SuccessIsDelivery'
  <2> SUFFICES ASSUME sender' = "sent" PROVE Len(got') + late' >= Total
    BY DEF SuccessIsDelivery
  <2>1. index = Total /\ Times(toPC, "ACK") >= 1
    BY DEF Listens
  <2> QED BY <1>0, <1>1, <1>8, <2>1
<1>11. f \in Extra'
  BY DEF Listens
<1> QED BY <1>2, <1>3, <1>5, <1>6, <1>7, <1>9, <1>10, <1>11 DEF XmodemInv

LEMMA HearKeeps == XmodemInv /\ Hear => XmodemInv'
<1> SUFFICES ASSUME XmodemInv, Hear PROVE XmodemInv'
  OBVIOUS
<1> DEFINE Response(k) == SubSeq(toPC, 1, k)
           Seen(k) == cancels + (IF index = Total THEN 0 ELSE
                        Cardinality({i \in Looked(Response(k)) : Response(k)[i] = "CAN"}))
<1>0. /\ XmodemTypeOK /\ toPC \in Seq(Answers) /\ Len(toPC) \in Nat
      /\ Times(toPC, "ACK") \in Nat /\ Times(toPC, "NAK") \in Nat /\ Len(toBoard) \in Nat
      /\ index \in 0..Total /\ index \in Nat /\ late \in Nat /\ late \in 0..MaxLate
      /\ cancels \in 0..1 /\ attempts \in 0..Tries
  BY QueueType DEF XmodemInv, XmodemTypeOK
<1>1. PICK k \in 1..Len(toPC) :
        /\ toPC' = SubSeq(toPC, k + 1, Len(toPC))
        /\ \/ Seen(k) >= 2 /\ Fail
           \/ Seen(k) < 2 /\ Accepted(Response(k)) /\ NextBlock /\ UNCHANGED toBoard
           \/ Seen(k) < 2 /\ Refused(Response(k)) /\ SendAgain /\ UNCHANGED toBoard
           \/ /\ Seen(k) < 2 /\ ~Accepted(Response(k)) /\ ~Refused(Response(k))
              /\ cancels' = Seen(k)
              /\ UNCHANGED <<sender, index, attempts, late, toBoard>>
  BY DEF Hear
<1>2. sender = "wait" /\ UNCHANGED receiver
  BY DEF Hear
<1>3. /\ Response(k) \in Seq(Answers) /\ DOMAIN Response(k) = 1..k
      /\ \A i \in 1..k : Response(k)[i] = toPC[i]
  BY <1>0
<1>4. Seen(k) \in Nat
  <2>1. IsFiniteSet(1..k) /\ {i \in Looked(Response(k)) : Response(k)[i] = "CAN"} \subseteq 1..k
    BY <1>3, FS_Interval DEF Looked
  <2>2. Cardinality({i \in Looked(Response(k)) : Response(k)[i] = "CAN"}) \in Nat
    BY <2>1, FS_Subset, FS_CardinalityType
  <2>3. cancels \in Nat
    BY <1>0
  <2> HIDE DEF Response
  <2>4. CASE index = Total
    BY <2>3, <2>4
  <2>5. CASE index # Total
    BY <2>2, <2>3, <2>5
  <2> QED BY <2>4, <2>5
<1>5. /\ toPC' \in Seq(Answers) /\ Len(toPC') = Len(toPC) - k /\ k \in 0..Len(toPC)
      /\ \A i \in 1..Len(toPC') : toPC'[i] = toPC[i + k]
  BY <1>0, <1>1
<1>6. /\ Times(toPC', "ACK") \in Nat /\ Times(toPC', "ACK") <= Times(toPC, "ACK")
      /\ Times(toPC', "NAK") \in Nat /\ Times(toPC', "NAK") <= Times(toPC, "NAK")
  BY <1>0, <1>5, TimesSuffix, TimesType
<1>7. Accepted(Response(k)) => Times(toPC', "ACK") + 1 <= Times(toPC, "ACK")
  <2> SUFFICES ASSUME Accepted(Response(k)) PROVE Times(toPC', "ACK") + 1 <= Times(toPC, "ACK")
    OBVIOUS
  <2>1. PICK i \in 1..k : Response(k)[i] = "ACK"
    BY <1>3 DEF Accepted, Looked
  <2> QED BY <1>0, <1>3, <1>5, <2>1, TimesSuffix
<1>8. Refused(Response(k)) => Times(toPC', "NAK") + 1 <= Times(toPC, "NAK")
  <2> SUFFICES ASSUME Refused(Response(k)) PROVE Times(toPC', "NAK") + 1 <= Times(toPC, "NAK")
    OBVIOUS
  <2>1. PICK i \in 1..k : Response(k)[i] = "NAK"
    BY <1>3 DEF Refused
  <2> QED BY <1>0, <1>3, <1>5, <2>1, TimesSuffix
<1> HIDE DEF Response, Seen
<1>9. Len(toBoard) + Times(toPC, "ACK") + Times(toPC, "NAK") <= late + 1
  BY <1>2 DEF XmodemInv, Extra, Pending
<1>10. CASE Fail
  BY <1>2, <1>5, <1>6, <1>10, FailKeeps
<1>11. CASE Accepted(Response(k)) /\ NextBlock /\ UNCHANGED toBoard
  <2>1. late' = late /\ cancels' = 0 /\ sender' \in {"send", "sent"}
    BY <1>11 DEF NextBlock
  <2>2. /\ index' \in 0..Total /\ index' >= index /\ index' <= index + 1
        /\ sender' = "sent" => index = Total
    BY <1>0, <1>11, XmodemConstants DEF NextBlock
  <2>3. attempts' \in 0..Tries
    BY <1>0, <1>11, XmodemConstants DEF NextBlock
  <2>4. 0 \in Extra'
    BY <2>1 DEF Extra
  <2>5. Len(toBoard) + Times(toPC', "ACK") + Times(toPC', "NAK") <= late' + 0
    BY <1>0, <1>6, <1>7, <1>9, <1>11, <2>1
  <2>6. index' + Times(toPC', "ACK") <= index + Times(toPC, "ACK") /\ Times(toPC, "ACK") >= 1
    BY <1>0, <1>6, <1>7, <1>11, <2>2
  <2>7. late' \in 0..MaxLate /\ late' >= late /\ cancels' \in 0..1
    BY <1>0, <2>1
  <2>8. Listens(0)
    BY <1>2, <1>5, <1>11, <2>1, <2>2, <2>3, <2>4, <2>5, <2>6, <2>7 DEF Listens
  <2> QED BY <2>8, ListenKeeps
<1>12. CASE Refused(Response(k)) /\ SendAgain /\ UNCHANGED toBoard
  <2>1. sender' = "send" /\ UNCHANGED <<index, attempts, cancels, late>>
    BY <1>12 DEF SendAgain
  <2>2. 0 \in Extra'
    BY <2>1 DEF Extra
  <2>3. Len(toBoard) + Times(toPC', "ACK") + Times(toPC', "NAK") <= late' + 0
    BY <1>0, <1>6, <1>8, <1>9, <1>12, <2>1
  <2>4. /\ index' + Times(toPC', "ACK") <= index + Times(toPC, "ACK")
        /\ index' >= index /\ late' >= late
    BY <1>0, <1>6, <2>1
  <2>5. Listens(0)
    BY <1>0, <1>2, <1>5, <1>12, <2>1, <2>2, <2>3, <2>4 DEF Listens
  <2> QED BY <2>5, ListenKeeps
<1>13. CASE Seen(k) < 2 /\ cancels' = Seen(k) /\ UNCHANGED <<sender, index, attempts, late, toBoard>>
  <2>1. 1 \in Extra' /\ cancels' \in 0..1
    BY <1>2, <1>4, <1>13 DEF Extra
  <2>2. Len(toBoard) + Times(toPC', "ACK") + Times(toPC', "NAK") <= late' + 1
    BY <1>0, <1>6, <1>9, <1>13
  <2>3. /\ index' + Times(toPC', "ACK") <= index + Times(toPC, "ACK")
        /\ index' >= index /\ late' >= late
    BY <1>0, <1>6, <1>13
  <2>4. sender' = "wait"
    BY <1>2, <1>13
  <2>5. Listens(1)
    BY <1>0, <1>2, <1>5, <1>13, <2>1, <2>2, <2>3, <2>4 DEF Listens
  <2> QED BY <2>5, ListenKeeps
<1> QED BY <1>1, <1>10, <1>11, <1>12, <1>13

LEMMA TimeoutKeeps == XmodemInv /\ Timeout => XmodemInv'
<1> SUFFICES ASSUME XmodemInv, Timeout PROVE XmodemInv'
  OBVIOUS
<1>0. /\ XmodemTypeOK /\ toPC \in Seq(Answers) /\ toBoard \in Seq(Data \cup {EndOfFile, Abort})
      /\ Times(toPC, "ACK") \in Nat /\ Times(toPC, "NAK") \in Nat /\ Len(toBoard) \in Nat
      /\ index \in 0..Total /\ index \in Nat /\ late \in Nat /\ late \in 0..MaxLate
      /\ cancels \in 0..1 /\ attempts \in 0..Tries /\ MaxLate \in Nat
  BY QueueType, XmodemConstants DEF XmodemInv, XmodemTypeOK
<1>1. /\ sender = "wait" /\ sender' = "send"
      /\ UNCHANGED <<index, attempts, cancels, toBoard, toPC, receiver>>
  BY DEF Timeout
<1>2. Len(toBoard) + Times(toPC, "ACK") + Times(toPC, "NAK") <= late + 1
  BY <1>1 DEF XmodemInv, Extra, Pending
<1>3. late' \in 0..MaxLate /\ late' >= late
  BY <1>0 DEF Timeout
<1>4. Len(toBoard) + Times(toPC', "ACK") + Times(toPC', "NAK") <= late' + 0
  <2>1. CASE AnswerToCome
    <3>1. late' = late + 1
      BY <2>1 DEF Timeout
    <3> QED BY <1>0, <1>1, <1>2, <3>1
  <2>2. CASE ~AnswerToCome
    <3>1. toBoard = <<>> /\ \A i \in DOMAIN toPC : toPC[i] # "ACK" /\ toPC[i] # "NAK"
      BY <2>2 DEF AnswerToCome
    <3>2. Times(toPC, "ACK") = 0 /\ Times(toPC, "NAK") = 0 /\ Len(toBoard) = 0
      BY <3>1, TimesNone
    <3> QED BY <1>0, <1>1, <1>3, <3>2
  <2> QED BY <2>1, <2>2
<1>5. 0 \in Extra'
  BY <1>1 DEF Extra
<1>6. index' + Times(toPC', "ACK") <= index + Times(toPC, "ACK")
  BY <1>0, <1>1
<1>7. index' >= index /\ index' \in 0..Total /\ attempts' \in 0..Tries /\ cancels' \in 0..1
      /\ toPC' \in Seq(Answers)
  BY <1>0, <1>1
<1>8. Listens(0)
  BY <1>1, <1>3, <1>4, <1>5, <1>6, <1>7 DEF Listens
<1> QED BY <1>8, ListenKeeps
(***************************************************************************)
(* The steps of the board and of the line.                                 *)
(***************************************************************************)
\* A step of the other side: what it needs of what has come and of what is on the
\* way for the invariant to hold after it.
Delivers ==
    /\ UNCHANGED pc
    /\ UNCHANGED toBoard \/ (toBoard # <<>> /\ toBoard' = Tail(toBoard))
    /\ toPC' \in Seq(Answers)
    /\ board' \in {"receiving", "done", "cancelled"}
    /\ got' \in Seq(0..Total - 1) /\ InOrder'
    /\ Len(got) <= Len(got') /\ Len(got') <= index + 1
    /\ board' = "receiving" => \A j \in 1..Len(toBoard) :
         (j > 1 \/ UNCHANGED toBoard) => Len(got') <= At(toBoard[j]) + 1
    /\ Len(toBoard') + Times(toPC', "ACK") + Times(toPC', "NAK")
         <= Len(toBoard) + Times(toPC, "ACK") + Times(toPC, "NAK")
    /\ Ahead'

LEMMA DeliverKeeps == XmodemInv /\ Delivers => XmodemInv'
<1> SUFFICES ASSUME XmodemInv, Delivers PROVE XmodemInv'
  OBVIOUS
<1>0. /\ XmodemTypeOK
      /\ Times(toPC, "ACK") \in Nat /\ Times(toPC, "NAK") \in Nat
      /\ Len(toBoard) \in Nat /\ Len(got) \in Nat /\ late \in Nat /\ index \in Nat /\ Total \in Nat
      /\ toBoard \in Seq(Data \cup {EndOfFile, Abort})
  BY QueueType, XmodemConstants DEF XmodemInv
<1>1. /\ UNCHANGED <<sender, index, attempts, cancels, late>> /\ Len(got') \in Nat
      /\ Times(toPC', "ACK") \in Nat /\ Times(toPC', "NAK") \in Nat
  <2>1. toPC' \in Seq(Answers) /\ got' \in Seq(0..Total - 1) /\ UNCHANGED pc
    BY DEF Delivers
  <2>2. Times(toPC', "ACK") \in Nat /\ Times(toPC', "NAK") \in Nat
    BY <2>1, TimesType
  <2> QED BY <2>1, <2>2 DEF pc
<1>2. \/ UNCHANGED toBoard
      \/ /\ Len(toBoard') = Len(toBoard) - 1 /\ toBoard' \in Seq(Data \cup {EndOfFile, Abort})
         /\ \A j \in 1..Len(toBoard') : j + 1 \in 1..Len(toBoard) /\ toBoard'[j] = toBoard[j + 1]
         /\ OnTheLine' /\ Sorted' /\ ~UNCHANGED toBoard
  <2> SUFFICES ASSUME toBoard # <<>>, toBoard' = Tail(toBoard) PROVE <1>2!2
    BY DEF Delivers
  <2>1. Len(toBoard') # Len(toBoard)
    BY <1>0
  <2> QED BY <1>1, <2>1, LineTail
<1>3. XmodemTypeOK'
  <2>1. toBoard' \in Seq(Data \cup {EndOfFile, Abort})
    BY <1>0, <1>2
  <2> QED BY <1>0, <1>1, <2>1 DEF XmodemTypeOK, Delivers
<1>4. OnTheLine' /\ Sorted'
  <2>1. CASE UNCHANGED toBoard
    <3>1. OnTheLine'
      BY <1>1, <2>1 DEF XmodemInv, OnTheLine, At, Packet
    <3>2. Sorted'
      BY <2>1 DEF XmodemInv, Sorted, At
    <3> QED BY <3>1, <3>2
  <2> QED BY <1>2, <2>1
<1>5. NotOld'
  <2> SUFFICES ASSUME board' = "receiving", NEW j \in 1..Len(toBoard')
               PROVE  Len(got') <= At(toBoard'[j]) + 1
    BY <1>1 DEF NotOld, At, Delivers
  <2>1. CASE UNCHANGED toBoard
    BY <2>1 DEF Delivers
  <2>2. CASE ~UNCHANGED toBoard
    <3>1. j + 1 \in 1..Len(toBoard) /\ toBoard'[j] = toBoard[j + 1] /\ j + 1 > 1
      BY <1>2, <2>2
    <3> QED BY <3>1 DEF Delivers
  <2> QED BY <2>1, <2>2
<1>6. PICK e \in Extra : Pending(e)
  BY DEF XmodemInv
<1>7. e \in Nat /\ e \in Extra'
  BY <1>1, <1>6 DEF Extra
<1>8. Pending(e)'
  <2>1. Len(toBoard') + Times(toPC', "ACK") + Times(toPC', "NAK") <= late' + e
    <3>1. Len(toBoard) + Times(toPC, "ACK") + Times(toPC, "NAK") <= late + e
      BY <1>6 DEF Pending
    <3>2. Len(toBoard') \in Nat
      BY <1>0, <1>2
    <3>3. Len(toBoard') + Times(toPC', "ACK") + Times(toPC', "NAK")
            <= Len(toBoard) + Times(toPC, "ACK") + Times(toPC, "NAK")
      BY DEF Delivers
    <3> QED BY <1>0, <1>1, <1>7, <3>1, <3>2, <3>3
  <2>2. ASSUME NEW j \in 1..Len(toBoard'), toBoard'[j] # Abort
        PROVE  At(toBoard'[j]) + (Len(toBoard') - j) + 1 >= index' + e
    <3>1. CASE UNCHANGED toBoard
      BY <1>1, <1>6, <2>2, <3>1 DEF Pending
    <3>2. CASE ~UNCHANGED toBoard
      <4>1. /\ j + 1 \in 1..Len(toBoard) /\ toBoard'[j] = toBoard[j + 1]
            /\ Len(toBoard') = Len(toBoard) - 1
        BY <1>2, <3>2
      <4>2. At(toBoard[j + 1]) + (Len(toBoard) - (j + 1)) + 1 >= index + e
        BY <1>6, <2>2, <4>1 DEF Pending
      <4>3. Len(toBoard) - (j + 1) = Len(toBoard') - j
        BY <1>0, <4>1
      <4> QED BY <1>1, <4>1, <4>2, <4>3
    <3> QED BY <3>1, <3>2
  <2> QED BY <2>1, <2>2 DEF Pending, At
<1>9. SuccessIsDelivery'
  <2>1. Len(got') >= Len(got)
    BY DEF Delivers
  <2>2. sender = "sent" => Len(got) + late >= Total
    BY DEF XmodemInv, SuccessIsDelivery
  <2>3. sender' = "sent" => Len(got') + late' >= Total
    BY <1>0, <1>1, <2>1, <2>2
  <2> QED BY <2>3 DEF SuccessIsDelivery
<1>10. InOrder' /\ Ahead'
  BY DEF Delivers
<1> QED BY <1>3, <1>4, <1>5, <1>7, <1>8, <1>9, <1>10 DEF XmodemInv

LEMMA InviteKeeps == XmodemInv /\ Invite => XmodemInv'
<1> SUFFICES ASSUME XmodemInv, Invite PROVE Delivers
  BY DeliverKeeps
<1>0. /\ XmodemTypeOK /\ toPC \in Seq(Answers)
      /\ Times(toPC, "ACK") \in Nat /\ Times(toPC, "NAK") \in Nat
      /\ Len(toBoard) \in Nat /\ Len(got) \in Nat
  BY QueueType DEF XmodemInv
<1>1. toPC' = Append(toPC, "C") /\ UNCHANGED <<pc, toBoard, board, got>>
  BY DEF Invite, receiver
<1>2. toPC' \in Seq(Answers)
  BY <1>0, <1>1 DEF Answers
<1>3. Times(toPC', "ACK") = Times(toPC, "ACK") /\ Times(toPC', "NAK") = Times(toPC, "NAK")
  <2>1. "C" \in Answers /\ "C" # "ACK" /\ "C" # "NAK"
    BY DEF Answers
  <2>2. /\ Times(Append(toPC, "C"), "ACK") = Times(toPC, "ACK") + 0
        /\ Times(Append(toPC, "C"), "NAK") = Times(toPC, "NAK") + 0
    BY <1>0, <2>1, TimesAppend
  <2> QED BY <1>0, <1>1, <2>2
<1>4. InOrder' /\ Ahead'
  BY <1>1, <1>3 DEF XmodemInv, InOrder, Ahead, Taken, pc
<1>5. board \in {"receiving", "done", "cancelled"} /\ got \in Seq(0..Total - 1)
  BY <1>0 DEF XmodemTypeOK
<1>6. Len(got) <= index + 1 /\ (board = "receiving" => \A j \in 1..Len(toBoard) : Len(got) <= At(toBoard[j]) + 1)
  BY DEF XmodemInv, NotOld
<1> QED BY <1>0, <1>1, <1>2, <1>3, <1>4, <1>5, <1>6 DEF Delivers

LEMMA LoseKeeps == XmodemInv /\ Lose => XmodemInv'
<1> SUFFICES ASSUME XmodemInv, Lose PROVE Delivers
  BY DeliverKeeps
<1>0. /\ XmodemTypeOK /\ toPC \in Seq(Answers) /\ toBoard \in Seq(Data \cup {EndOfFile, Abort})
      /\ Times(toPC, "ACK") \in Nat /\ Times(toPC, "NAK") \in Nat
      /\ Len(toBoard) \in Nat /\ Len(got) \in Nat /\ index \in Nat /\ late \in Nat /\ Taken \in Nat
  BY QueueType DEF XmodemInv
<1>1. UNCHANGED <<pc, board, got>>
  BY DEF Lose, receiver
<1>2. /\ toPC' \in Seq(Answers) /\ Times(toPC', "ACK") \in Nat
      /\ Times(toPC', "ACK") <= Times(toPC, "ACK")
      /\ Len(toBoard') + Times(toPC', "ACK") + Times(toPC', "NAK")
           <= Len(toBoard) + Times(toPC, "ACK") + Times(toPC, "NAK")
      /\ UNCHANGED toBoard \/ (toBoard # <<>> /\ toBoard' = Tail(toBoard))
  <2>1. CASE toBoard # <<>> /\ toBoard' = Tail(toBoard) /\ UNCHANGED toPC
    <3>1. Len(toBoard') = Len(toBoard) - 1 /\ Len(toBoard') \in Nat
      BY <1>0, <2>1
    <3>2. Len(toBoard') + Times(toPC, "ACK") + Times(toPC, "NAK")
            <= Len(toBoard) + Times(toPC, "ACK") + Times(toPC, "NAK")
      BY <1>0, <3>1
    <3>3. toPC' = toPC /\ toPC' \in Seq(Answers)
      BY <1>0, <2>1
    <3>4. Times(toPC', "ACK") \in Nat /\ Times(toPC', "ACK") <= Times(toPC, "ACK")
      BY <1>0, <3>3
    <3> QED BY <2>1, <3>2, <3>3, <3>4
  <2>2. CASE toPC # <<>> /\ toPC' = Tail(toPC) /\ UNCHANGED toBoard
    <3>1. /\ toPC' \in Seq(Answers) /\ Len(toPC') = Len(toPC) - 1 /\ 1 \in 0..Len(toPC)
          /\ \A i \in 1..Len(toPC') : toPC'[i] = toPC[i + 1]
      BY <1>0, <2>2
    <3>2. /\ Times(toPC', "ACK") \in Nat /\ Times(toPC', "ACK") <= Times(toPC, "ACK")
          /\ Times(toPC', "NAK") \in Nat /\ Times(toPC', "NAK") <= Times(toPC, "NAK")
      BY <1>0, <3>1, TimesSuffix, TimesType
    <3> QED BY <1>0, <2>2, <3>1, <3>2
  <2> QED BY <2>1, <2>2 DEF Lose
<1>3. InOrder' /\ UNCHANGED <<index, late, Taken>>
  BY <1>1 DEF XmodemInv, InOrder, pc, Taken
<1>4. Ahead'
  <2>1. index + Times(toPC, "ACK") <= Taken + late
    BY DEF XmodemInv, Ahead
  <2>2. index' + Times(toPC', "ACK") <= Taken' + late'
    BY <1>0, <1>2, <1>3, <2>1
  <2> QED BY <2>2 DEF Ahead
<1>5. board \in {"receiving", "done", "cancelled"} /\ got \in Seq(0..Total - 1)
  BY <1>0 DEF XmodemTypeOK
<1>6. Len(got) <= index + 1 /\ (board = "receiving" => \A j \in 1..Len(toBoard) : Len(got) <= At(toBoard[j]) + 1)
  BY DEF XmodemInv, NotOld
<1> QED BY <1>0, <1>1, <1>2, <1>3, <1>4, <1>5, <1>6 DEF Delivers
\* The block number that a block carries, when the board looks at it.
LEMMA InTurn ==
    ASSUME XmodemInv, board = "receiving", toBoard # <<>>, toBoard[1].op = "block"
    PROVE  LET p == toBoard[1] IN
           /\ p # Abort /\ At(p) = p.data /\ p.data \in 0..Total - 1 /\ p.data <= index
           /\ p.seq = (Len(got) + 1) % Modulus => p.data = Len(got)
           /\ p.seq = Len(got) % Modulus => p.data + 1 = Len(got)
<1> DEFINE p == toBoard[1]
           i == At(p)
<1>0. /\ XmodemTypeOK /\ toBoard \in Seq(Data \cup {EndOfFile, Abort})
      /\ Times(toPC, "ACK") \in Nat /\ Len(toBoard) \in Nat /\ Len(got) \in Nat
      /\ index \in 0..Total /\ index \in Nat /\ late \in Nat /\ late \in 0..MaxLate
      /\ Total \in Nat /\ Modulus \in Nat /\ MaxLate \in Nat /\ MaxLate + 2 <= Modulus
  BY QueueType, XmodemConstants DEF XmodemInv
<1>1. 1 \in 1..Len(toBoard)
  BY <1>0
<1>2. i \in 0..index /\ p = Packet(i) /\ p # Abort
  <2>1. p # Abort
    BY AbortIs
  <2> QED BY <1>1, <2>1, PacketOnTheLine
<1>3. i \in 0..Total /\ i \in Nat /\ i <= index
  BY <1>0, <1>2
<1>4. i # Total
  BY <1>2, <1>3, PacketIs
<1>5. p.seq = (i + 1) % Modulus /\ p.data = i
  BY <1>2, <1>3, <1>4, PacketIs
<1>6. Len(got) <= i + 1
  BY <1>1 DEF XmodemInv, NotOld
<1>7. index <= Len(got) + late
  <2>1. Taken = Len(got)
    BY <1>0 DEF Taken
  <2>2. index + Times(toPC, "ACK") <= Taken + late
    BY DEF XmodemInv, Ahead
  <2> QED BY <1>0, <2>1, <2>2
<1> HIDE DEF i, p
<1>8. i + 1 < Len(got) + Modulus
  BY <1>0, <1>3, <1>7
<1>9. ASSUME p.seq = (Len(got) + 1) % Modulus PROVE i = Len(got)
  <2>1. CASE i >= Len(got)
    <3>1. (Len(got) + 1) % Modulus = (i + 1) % Modulus
      BY <1>5, <1>9
    <3>2. Len(got) + 1 \in Nat /\ i + 1 \in Nat /\ Len(got) + 1 <= i + 1
      BY <1>0, <1>3, <2>1
    <3>3. i + 1 < (Len(got) + 1) + Modulus
      BY <1>0, <1>3, <1>8
    <3>4. Len(got) + 1 = i + 1
      BY <3>1, <3>2, <3>3, SameNumber
    <3> QED BY <1>0, <1>3, <3>4
  <2>2. CASE i + 1 = Len(got)
    <3>1. (i + 1) % Modulus = (Len(got) + 1) % Modulus
      BY <1>5, <1>9
    <3>2. Len(got) + 1 \in Nat /\ i + 1 \in Nat /\ i + 1 <= Len(got) + 1
      BY <1>0, <1>3, <2>2
    <3>3. Len(got) + 1 < (i + 1) + Modulus
      BY <1>0, <1>3, <2>2
    <3>4. Len(got) + 1 = i + 1
      BY <3>1, <3>2, <3>3, SameNumber
    <3> QED BY <1>0, <1>3, <3>4
  <2> QED BY <1>0, <1>3, <1>6, <2>1, <2>2
<1>10. ASSUME p.seq = Len(got) % Modulus PROVE i + 1 = Len(got)
  <2>1. Len(got) % Modulus = (i + 1) % Modulus
    BY <1>5, <1>10
  <2>2. Len(got) \in Nat /\ i + 1 \in Nat
    BY <1>0, <1>3
  <2> QED BY <1>6, <1>8, <2>1, <2>2, SameNumber
<1>11. i \in 0..Total - 1
  BY <1>0, <1>3, <1>4
<1> QED BY <1>2, <1>3, <1>5, <1>9, <1>10, <1>11 DEF i, p

\* One more answer.
LEMMA AnswerAppend ==
    ASSUME XmodemInv, NEW b \in Answers, toPC' = Append(toPC, b)
    PROVE  /\ toPC' \in Seq(Answers)
           /\ b = "ACK" => /\ Times(toPC', "ACK") = Times(toPC, "ACK") + 1
                           /\ Times(toPC', "NAK") = Times(toPC, "NAK")
           /\ b = "NAK" => /\ Times(toPC', "ACK") = Times(toPC, "ACK")
                           /\ Times(toPC', "NAK") = Times(toPC, "NAK") + 1
           /\ b \notin {"ACK", "NAK"} => /\ Times(toPC', "ACK") = Times(toPC, "ACK")
                                         /\ Times(toPC', "NAK") = Times(toPC, "NAK")
<1>1. toPC \in Seq(Answers) /\ Times(toPC, "ACK") \in Nat /\ Times(toPC, "NAK") \in Nat
  BY QueueType DEF XmodemInv
<1>2. toPC' \in Seq(Answers)
  BY <1>1
<1>3. /\ Times(toPC', "ACK") = Times(toPC, "ACK") + IF b = "ACK" THEN 1 ELSE 0
      /\ Times(toPC', "NAK") = Times(toPC, "NAK") + IF b = "NAK" THEN 1 ELSE 0
  BY <1>1, TimesAppend
<1>4. b = "ACK" => b # "NAK"
  OBVIOUS
<1> QED BY <1>1, <1>2, <1>3, <1>4

\* The board takes a packet and answers, but keeps what it has.
LEMMA AnswerKeeps ==
    ASSUME XmodemInv, toBoard # <<>>, toBoard' = Tail(toBoard), UNCHANGED <<pc, got>>,
           board' \in {"receiving", "done", "cancelled"},
           board' # board => board = "receiving",
           toPC' \in Seq(Answers),
           Times(toPC', "ACK") + Times(toPC', "NAK") <= Times(toPC, "ACK") + Times(toPC, "NAK") + 1,
           index + Times(toPC', "ACK") <= Taken' + late
    PROVE  Delivers
<1>0. /\ XmodemTypeOK /\ toBoard \in Seq(Data \cup {EndOfFile, Abort})
      /\ Times(toPC, "ACK") \in Nat /\ Times(toPC, "NAK") \in Nat
      /\ Len(toBoard) \in Nat /\ Len(got) \in Nat
  BY QueueType DEF XmodemInv
<1>1. Times(toPC', "ACK") \in Nat /\ Times(toPC', "NAK") \in Nat
  BY TimesType
<1>2. Len(toBoard') = Len(toBoard) - 1 /\ Len(toBoard') \in Nat
  BY <1>0
<1>3. Len(toBoard') + Times(toPC', "ACK") + Times(toPC', "NAK")
        <= Len(toBoard) + Times(toPC, "ACK") + Times(toPC, "NAK")
  BY <1>0, <1>1, <1>2
<1>4. Ahead'
  BY DEF Ahead, pc
<1>5. got \in Seq(0..Total - 1) /\ InOrder'
  BY <1>0 DEF XmodemTypeOK, XmodemInv, InOrder
<1>6. /\ Len(got) <= index + 1
      /\ board' = "receiving" => \A j \in 1..Len(toBoard) : Len(got) <= At(toBoard[j]) + 1
  BY DEF XmodemInv, NotOld
<1> QED BY <1>0, <1>3, <1>4, <1>5, <1>6 DEF Delivers

LEMMA ReceiveKeeps == XmodemInv /\ Receive => XmodemInv'
<1> SUFFICES ASSUME XmodemInv, Receive PROVE Delivers
  BY DeliverKeeps
<1> DEFINE p == toBoard[1]
<1>0. /\ XmodemTypeOK /\ toBoard \in Seq(Data \cup {EndOfFile, Abort}) /\ toPC \in Seq(Answers)
      /\ Times(toPC, "ACK") \in Nat /\ Times(toPC, "NAK") \in Nat
      /\ Len(toBoard) \in Nat /\ Len(got) \in Nat /\ index \in Nat /\ late \in Nat /\ Taken \in Nat
      /\ got \in Seq(0..Total - 1) /\ board \in {"receiving", "done", "cancelled"}
  BY QueueType DEF XmodemInv, XmodemTypeOK
<1>1. toBoard # <<>> /\ toBoard' = Tail(toBoard) /\ UNCHANGED pc
  BY DEF Receive
<1>2. 1 \in 1..Len(toBoard) /\ Head(toBoard) = p
  BY <1>0, <1>1
<1>3. index + Times(toPC, "ACK") <= Taken + late /\ UNCHANGED <<index, late>>
  BY <1>1 DEF XmodemInv, Ahead, pc
<1>4. CASE board # "receiving"
  <2>1. UNCHANGED <<board, got, toPC>>
    BY <1>4 DEF Receive, receiver
  <2>2. Taken' = Taken
    BY <2>1 DEF Taken
  <2>3. Times(toPC', "ACK") = Times(toPC, "ACK") /\ Times(toPC', "NAK") = Times(toPC, "NAK")
    BY <2>1
  <2>4. Times(toPC', "ACK") + Times(toPC', "NAK") <= Times(toPC, "ACK") + Times(toPC, "NAK") + 1
    BY <1>0, <2>3
  <2>5. index + Times(toPC', "ACK") <= Taken' + late
    BY <1>3, <2>2, <2>3
  <2> QED BY <1>0, <1>1, <2>1, <2>4, <2>5, AnswerKeeps
<1>5. CASE board = "receiving"
  <2>0. Taken = Len(got)
    BY <1>0, <1>5 DEF Taken
  <2>1. \/ p.op = "block" /\ Take(p)
        \/ p.op = "block" /\ UNCHANGED receiver /\ \E b \in Refusal : toPC' = Append(toPC, b)
        \/ p.op = "EOT" /\ board' = "done" /\ got' = got /\ toPC' = Append(toPC, "ACK")
        \/ p.op = "CAN" /\ board' = "cancelled" /\ UNCHANGED <<got, toPC>>
    BY <1>2, <1>5 DEF Receive
  <2> HIDE DEF p
  \* The block the board is waiting for.
  <2>2. CASE /\ p.op = "block" /\ p.seq = (Len(got) + 1) % Modulus
             /\ got' = Append(got, p.data) /\ board' = board /\ toPC' = Append(toPC, "ACK")
    <3>1. p.data = Len(got) /\ p.data \in 0..Total - 1 /\ p.data <= index /\ At(p) = Len(got)
      BY <1>1, <1>5, <2>2, InTurn DEF p
    <3>2. got' \in Seq(0..Total - 1) /\ Len(got') = Len(got) + 1 /\ Len(got') <= index + 1
      BY <1>0, <2>2, <3>1
    <3>3. InOrder'
      <4> SUFFICES ASSUME NEW i \in 1..Len(got) + 1 PROVE got'[i] = i - 1
        BY <3>2 DEF InOrder
      <4>1. CASE i \in 1..Len(got)
        <5>1. got'[i] = got[i]
          BY <1>0, <2>2, <4>1
        <5>2. got[i] = i - 1
          BY <1>0, <4>1 DEF XmodemInv, InOrder
        <5> QED BY <5>1, <5>2
      <4>2. CASE i = Len(got) + 1
        <5>1. got'[i] = Len(got)
          BY <1>0, <2>2, <3>1, <4>2
        <5> QED BY <1>0, <4>2, <5>1
      <4> QED BY <1>0, <4>1, <4>2
    <3>4. ASSUME NEW j \in 1..Len(toBoard), j > 1 PROVE Len(got') <= At(toBoard[j]) + 1
      <4>1. At(toBoard[1]) <= At(toBoard[j])
        BY <1>2, <3>4 DEF XmodemInv, Sorted
      <4>2. Len(got) <= At(toBoard[j])
        BY <3>1, <4>1 DEF p
      <4>3. At(toBoard[j]) \in 0..Total /\ Total \in Nat
        BY AtIsNat, XmodemConstants
      <4> QED BY <1>0, <3>2, <4>2, <4>3
    <3>5. /\ toPC' \in Seq(Answers)
          /\ Times(toPC', "ACK") = Times(toPC, "ACK") + 1 /\ Times(toPC', "NAK") = Times(toPC, "NAK")
      BY <2>2, AnswerAppend DEF Answers
    <3>6. Len(toBoard') = Len(toBoard) - 1
      BY <1>0, <1>1
    <3>7. Len(toBoard') + Times(toPC', "ACK") + Times(toPC', "NAK")
            <= Len(toBoard) + Times(toPC, "ACK") + Times(toPC, "NAK")
      BY <1>0, <3>5, <3>6
    <3>8. Taken' = Len(got) + 1
      BY <1>5, <2>2, <3>2 DEF Taken
    <3>9. Ahead'
      <4>1. index' + Times(toPC', "ACK") <= Taken' + late'
        BY <1>0, <1>3, <2>0, <3>5, <3>8
      <4> QED BY <4>1 DEF Ahead
    <3>10. ~UNCHANGED toBoard /\ Len(got) <= Len(got')
      BY <1>0, <3>2, <3>6
    <3> QED BY <1>0, <1>1, <2>2, <3>2, <3>3, <3>4, <3>5, <3>7, <3>9, <3>10 DEF Delivers
  \* A block it has: the packets behind it show that an answer more is due.
  <2>3. CASE /\ p.op = "block" /\ p.seq = Len(got) % Modulus /\ got # <<>>
             /\ toPC' = Append(toPC, "ACK") /\ UNCHANGED receiver
    <3>1. p # Abort /\ At(p) = p.data /\ p.data \in Nat /\ p.data + 1 = Len(got)
      <4>1. p # Abort /\ At(p) = p.data /\ p.data \in 0..Total - 1 /\ p.data + 1 = Len(got)
        BY <1>1, <1>5, <2>3, InTurn DEF p
      <4> QED BY <4>1, XmodemConstants
    <3>2. /\ toPC' \in Seq(Answers)
          /\ Times(toPC', "ACK") = Times(toPC, "ACK") + 1 /\ Times(toPC', "NAK") = Times(toPC, "NAK")
      BY <2>3, AnswerAppend DEF Answers
    <3>3. UNCHANGED <<board, got, Taken>>
      BY <2>3 DEF receiver, Taken
    <3>4. PICK e \in Extra : Pending(e)
      BY DEF XmodemInv
    <3>5. e \in Nat
      BY <3>4 DEF Extra
    <3>6. p.data + (Len(toBoard) - 1) + 1 >= index + e
      BY <1>2, <3>1, <3>4 DEF Pending, p
    <3>7. Len(toBoard) + Times(toPC, "ACK") + Times(toPC, "NAK") <= late + e
      BY <3>4 DEF Pending
    <3>8. index + Times(toPC, "ACK") + 1 <= Len(got) + late
      BY <1>0, <3>1, <3>5, <3>6, <3>7
    <3>9. index + Times(toPC', "ACK") <= Taken' + late
      BY <1>0, <2>0, <3>2, <3>3, <3>8
    <3>10. Times(toPC', "ACK") + Times(toPC', "NAK") <= Times(toPC, "ACK") + Times(toPC, "NAK") + 1
      BY <1>0, <3>2
    <3> QED BY <1>0, <1>1, <3>2, <3>3, <3>9, <3>10, AnswerKeeps
  <2>4. CASE toPC' = toPC \o <<"CAN", "CAN">> /\ board' = "cancelled" /\ got' = got
    <3> DEFINE once == Append(toPC, "CAN")
    <3>1. "CAN" \in Answers /\ "CAN" # "ACK" /\ "CAN" # "NAK"
      BY DEF Answers
    <3>2. toPC' = Append(once, "CAN") /\ once \in Seq(Answers) /\ toPC' \in Seq(Answers)
      BY <1>0, <2>4, <3>1
    <3>3. Times(once, "ACK") = Times(toPC, "ACK") + 0 /\ Times(once, "NAK") = Times(toPC, "NAK") + 0
      BY <1>0, <3>1, TimesAppend
    <3> HIDE DEF once
    <3>4. /\ Times(Append(once, "CAN"), "ACK") = Times(once, "ACK") + 0
          /\ Times(Append(once, "CAN"), "NAK") = Times(once, "NAK") + 0
      BY <3>1, <3>2, TimesAppend
    <3>5. Times(toPC', "ACK") = Times(toPC, "ACK") /\ Times(toPC', "NAK") = Times(toPC, "NAK")
      BY <1>0, <3>2, <3>3, <3>4
    <3>6. Taken' = Taken
      BY <1>0, <2>0, <2>4 DEF Taken
    <3>7. Times(toPC', "ACK") + Times(toPC', "NAK") <= Times(toPC, "ACK") + Times(toPC, "NAK") + 1
      BY <1>0, <3>5
    <3>8. index + Times(toPC', "ACK") <= Taken' + late
      BY <1>3, <3>5, <3>6
    <3> QED BY <1>1, <1>5, <2>4, <3>2, <3>7, <3>8, AnswerKeeps
  <2>5. CASE UNCHANGED receiver /\ \E b \in {"C", "NAK"} : toPC' = Append(toPC, b)
    <3>1. PICK b \in {"C", "NAK"} : toPC' = Append(toPC, b)
      BY <2>5
    <3>2. /\ toPC' \in Seq(Answers) /\ Times(toPC', "ACK") = Times(toPC, "ACK")
          /\ Times(toPC', "NAK") \in {Times(toPC, "NAK"), Times(toPC, "NAK") + 1}
      BY <3>1, AnswerAppend DEF Answers
    <3>3. UNCHANGED <<board, got, Taken>>
      BY <2>5 DEF receiver, Taken
    <3>4. Times(toPC', "ACK") + Times(toPC', "NAK") <= Times(toPC, "ACK") + Times(toPC, "NAK") + 1
      BY <1>0, <3>2
    <3>5. index + Times(toPC', "ACK") <= Taken' + late
      BY <1>3, <3>2, <3>3
    <3> QED BY <1>0, <1>1, <3>2, <3>3, <3>4, <3>5, AnswerKeeps
  <2>6. CASE p.op = "EOT" /\ board' = "done" /\ got' = got /\ toPC' = Append(toPC, "ACK")
    <3>1. /\ toPC' \in Seq(Answers)
          /\ Times(toPC', "ACK") = Times(toPC, "ACK") + 1 /\ Times(toPC', "NAK") = Times(toPC, "NAK")
      BY <2>6, AnswerAppend DEF Answers
    <3>2. Taken' = Len(got) + 1
      BY <1>0, <2>6 DEF Taken
    <3>3. Times(toPC', "ACK") + Times(toPC', "NAK") <= Times(toPC, "ACK") + Times(toPC, "NAK") + 1
      BY <1>0, <3>1
    <3>4. index + Times(toPC', "ACK") <= Taken' + late
      BY <1>0, <1>3, <2>0, <3>1, <3>2
    <3> QED BY <1>1, <1>5, <2>6, <3>1, <3>3, <3>4, AnswerKeeps
  <2>7. CASE board' = "cancelled" /\ UNCHANGED <<got, toPC>>
    <3>1. Taken' = Taken
      BY <1>0, <2>0, <2>7 DEF Taken
    <3>2. Times(toPC', "ACK") = Times(toPC, "ACK") /\ Times(toPC', "NAK") = Times(toPC, "NAK")
      BY <2>7
    <3>3. Times(toPC', "ACK") + Times(toPC', "NAK") <= Times(toPC, "ACK") + Times(toPC, "NAK") + 1
      BY <1>0, <3>2
    <3>4. index + Times(toPC', "ACK") <= Taken' + late
      BY <1>3, <3>1, <3>2
    <3> QED BY <1>0, <1>1, <1>5, <2>7, <3>3, <3>4, AnswerKeeps
  <2> QED BY <2>1, <2>2, <2>3, <2>4, <2>5, <2>6, <2>7 DEF Take, Refusal
<1> QED BY <1>4, <1>5

LEMMA XmodemStutterKeeps == XmodemInv /\ UNCHANGED xvars => XmodemInv'
<1> SUFFICES ASSUME XmodemInv, UNCHANGED xvars PROVE XmodemInv'
  OBVIOUS
<1>1. UNCHANGED <<sender, index, attempts, cancels, late, toBoard, toPC, board, got>>
  BY DEF xvars, pc, receiver
<1>2. XmodemTypeOK'
  BY <1>1 DEF XmodemInv, XmodemTypeOK
<1>3. (\E e \in Extra : Pending(e))'
  BY <1>1 DEF XmodemInv, Extra, Pending, At
<1>4. OnTheLine' /\ Sorted' /\ NotOld'
  BY <1>1 DEF XmodemInv, OnTheLine, Sorted, NotOld, At, Packet
<1>5. InOrder' /\ Ahead' /\ SuccessIsDelivery'
  BY <1>1 DEF XmodemInv, InOrder, Ahead, Taken, SuccessIsDelivery
<1> QED BY <1>2, <1>3, <1>4, <1>5 DEF XmodemInv

LEMMA XmodemNextInv == XmodemInv /\ [XmodemNext]_xvars => XmodemInv'
BY SendKeeps, ExhaustedKeeps, HearKeeps, TimeoutKeeps, ReceiveKeeps, InviteKeeps, LoseKeeps,
   XmodemStutterKeeps DEF XmodemNext

LEMMA XmodemInductive == XmodemSpec => []XmodemInv
<1> QED BY XmodemInitInv, XmodemNextInv, PTL DEF XmodemSpec

\* The two sides and the line between them hold only what XmodemTypeOK says.
THEOREM TransferTypes == XmodemSpec => []XmodemTypeOK
<1>1. XmodemInv => XmodemTypeOK
  BY DEF XmodemInv
<1> QED BY <1>1, XmodemInductive, PTL

\* What the BootROM has is the beginning of the file (xmodem_send, 7255-7291), for
\* every file and every line, if MaxLate + 2 <= Modulus.
THEOREM BlocksInOrder == XmodemSpec => []InOrder
<1>1. XmodemInv => InOrder
  BY DEF XmodemInv
<1> QED BY <1>1, XmodemInductive, PTL

\* When xmodem_send has returned, the BootROM lacks at most one block for each timeout
\* that overtook its answer (7292-7302).
THEOREM SentIsDelivered == XmodemSpec => []SuccessIsDelivery
<1>1. XmodemInv => SuccessIsDelivery
  BY DEF XmodemInv
<1> QED BY <1>1, XmodemInductive, PTL
=============================================================================
