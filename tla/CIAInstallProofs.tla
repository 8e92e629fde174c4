--------------------------- MODULE CIAInstallProofs ---------------------------
(***************************************************************************)
(* Theorems about CIAInstall, for any files, any chunks the client splits  *)
(* them into and any call to AM9 that fails.                               *)
(*                                                                         *)
(* What AM9 has been given for the object that is open, followed by what   *)
(* waits in misalign_buf, is the part of the file from the object's start  *)
(* to the offset: each pass of the loop keeps that, and so an object that  *)
(* is finished has been given its bytes.  A chunk that ends between two    *)
(* blocks of the TMD breaks it; all but the flags is about clients that    *)
(* write no such chunk.                                                    *)
(***************************************************************************)
EXTENDS CIAInstall, FiniteSetTheorems, SequenceTheorems, WellFoundedInduction, TLAPS

Parts == {"tik", "title", "tmd", "content"}
Early == {"Header", "ContentIndex", "CertChainCopy", "CertChainInstall", "TicketHeader"}
States == Early \union {"Ticket", "TMDHeader", "TMD", "Content", "Finalize"}

Live == ~c.invalidated /\ ~Ended

\* The fields that the flags are about, and nothing of their values.
Shape ==
  /\ {"state", "offset", "buf", "misalign", "tikHeader", "tmdHeader", "importing", "cindex", "imported",
      "batch", "inBatch", "start", "end", "invalidated"} \subseteq DOMAIN c
  /\ {"open", "recv", "ragged", "installed", "contexts", "title"} \subseteq DOMAIN am9

\* An install that has failed or ended is not written to.
NoLateWrite == ~Live => call = "none"

\* What is kept whatever chunks come.
FlagsInv == Shape /\ NoLateWrite /\ FlagsMatchAM9

Datas ==    \* the values of c
  [state : States, offset : Nat, buf : BOOLEAN, misalign : Seq(Int),
   tikHeader : BOOLEAN, tmdHeader : BOOLEAN, importing : SUBSET Parts,
   cindex : Nat, imported : Nat, batch : Nat, inBatch : Nat,
   start : Nat, end : Nat, invalidated : BOOLEAN]
AM9s ==     \* the values of am9
  [open : SUBSET Parts, recv : Seq(Int), ragged : BOOLEAN,
   installed : SUBSET (Int \X Seq(Int)), contexts : SUBSET Int,
   title : {"none", "open", "cancelled", "finished"}]
ITypeOK ==
  /\ cia \in CIAs /\ c \in Datas /\ am9 \in AM9s
  /\ size \in Nat /\ fed \in Nat /\ call \in {"none", "write", "fault"}

\* A number of bytes that is whole blocks.
Whole(n) == n % Block = 0

\* What AM9 has and what waits make one run of bytes.
Run(r, m, from, to) == r \o m = Bytes(from, to)

\* The bytes that are the file's, from one end to the other.
InstalledSoFar ==
  \A x \in am9.installed :
    /\ x[1] \in {Ticket, TMD} \union Enabled
    /\ x[1] = Ticket => x[2] = Bytes(TikStart, TikEnd)
    /\ x[1] = TMD => x[2] = Bytes(TmdStart, TmdEnd)
    /\ x[1] \in Enabled => x[2] = Bytes(ConAt(x[1]), ConAt(x[1]) + cia.con[x[1]])

\* A chunk that ends inside the TMD ends between two blocks of it.
ChunksFit == fed \in TmdStart..(TmdEnd - 1) => Whole(fed - TmdStart)

\* Every byte of the chunks so far is behind the offset or left in "size".
Consumed ==
  /\ call = "none" => size = 0
  /\ c.state # "Finalize" => c.offset + size = fed
  /\ fed <= FileEnd

\* Where the offset is, in each state.
Placed ==
  /\ c.state = "Header" => c.offset <= IdxStart
  /\ c.state = "ContentIndex" => c.offset <= IdxEnd
  /\ c.state \in {"CertChainCopy", "CertChainInstall"} => c.offset <= CrtEnd
  /\ c.state = "TicketHeader" =>
       c.offset <= TikEnd /\ (cia.tik > 0 => c.offset <= TikStart + cia.tikHdr)
  /\ c.state = "Ticket" =>
       /\ c.offset >= TikStart /\ c.offset <= TikEnd
       /\ ~c.tikHeader => c.offset = TikStart + cia.tikHdr
  /\ c.state = "TMDHeader" => c.offset <= TmdStart + cia.tmdHdr
  /\ c.state = "TMD" =>
       /\ c.offset <= TmdEnd
       /\ c.tmdHeader => c.offset >= TmdStart
       /\ ~c.tmdHeader /\ c.buf => c.offset = TmdStart + cia.tmdHdr

\* The header buffer is there when its copy has begun, and not before.
Buffered ==
  /\ c.state \in {"Header", "ContentIndex"} => ~c.buf
  /\ c.state = "CertChainCopy" /\ cia.cert = 0 => ~c.buf
  /\ c.state = "TicketHeader" /\ cia.tik = 0 => ~c.buf
  /\ c.state = "TMD" /\ ~c.tmdHeader /\ cia.tik = 0 => ~c.buf
  /\ c.state \in {"Ticket", "TMDHeader"} => cia.tik > 0
  /\ c.state = "TMD" /\ c.tmdHeader => cia.tik > 0
  /\ c.state \in Early => ~c.tikHeader
  /\ c.state \in Early \union {"Ticket", "TMDHeader"} => ~c.tmdHeader

\* What is open in AM9, in each state.
Opened ==
  am9.open = CASE c.state = "Ticket" /\ c.tikHeader -> {"tik"}
               [] c.state = "TMD" /\ c.tmdHeader -> {"title", "tmd"}
               [] c.state = "Content" /\ "content" \in c.importing -> {"title", "content"}
               [] c.state \in {"Content", "Finalize"} /\ "content" \notin c.importing -> {"title"}
               [] OTHER -> {}

InContent == c.state = "Content" /\ "content" \in c.importing

\* What AM9 has been given of the object that is open, and what waits.
Received ==
  /\ c.state = "Ticket" /\ c.tikHeader => am9.recv = Bytes(TikStart, c.offset)
  /\ c.state = "TMD" /\ c.tmdHeader =>
       /\ am9.recv = Bytes(TmdStart, c.offset) /\ ~am9.ragged
       /\ c.offset # TmdEnd => Whole(c.offset - TmdStart)
  /\ InContent =>
       /\ Run(am9.recv, c.misalign, c.start, c.offset) /\ ~am9.ragged
       /\ Whole(Len(am9.recv)) /\ Len(c.misalign) < Block
       /\ c.cindex \in Enabled /\ c.start = ConAt(c.cindex)
       /\ c.end = c.start + cia.con[c.cindex] /\ c.offset < c.end
  /\ ~InContent => c.misalign = <<>>

\* The content at or after "index" is the next in the file, if the offset is
\* where it is.
Between(j) == j >= c.cindex /\ \A k \in Enabled : k < c.cindex \/ k >= j
NextInFile ==
  c.state = "Content" /\ ~InContent =>
    \A j \in Enabled \union {cia.n} :
      Between(j) => ConAt(j) = RoundUp(c.offset + Padding(c.start))

\* What has been installed, in each state.
Objects == {x[1] : x \in am9.installed}
InstalledAll ==
  /\ c.state \in Early \union {"Ticket"} => Objects = {}
  /\ c.state = "TMDHeader" => Objects = {Ticket}
  /\ c.state = "TMD" => Objects = IF cia.tik = 0 THEN {} ELSE {Ticket}
  /\ c.state \in {"Content", "Finalize"} =>
       Objects = {Ticket, TMD} \union {i \in Enabled : i < c.cindex}
  /\ c.state = "Finalize" => c.cindex = cia.n

\* The batch of a DLC's contents: the contexts are those of the next contents,
\* and the batch is counted down as they are installed.
Past == {i \in am9.contexts : i < c.cindex}
Batched ==
  /\ c.state \notin {"Content", "Finalize"} =>
       c.cindex = 0 /\ c.imported = 0 /\ c.batch = 0 /\ c.inBatch = 0 /\ am9.contexts = {}
  /\ am9.contexts \subseteq Enabled
  /\ cia.dlc /\ c.state = "Content" =>
       /\ c.imported = 0 => c.batch = 0
       /\ c.batch = 0 => c.inBatch = 0
       /\ c.batch > 0 => c.batch = Cardinality(am9.contexts) /\ c.inBatch = Cardinality(Past)
       /\ \A i, k \in am9.contexts, j \in Enabled : k <= j /\ j <= i => j \in am9.contexts
       /\ ~InContent /\ c.batch > 0 => c.inBatch > 0
       /\ ~InContent /\ c.batch = 0 => c.imported \in {0, 1}
       /\ InContent /\ c.imported >= 1 => c.batch > 0 /\ c.cindex \in am9.contexts

\* An install that has ended was in order when it did.
EndedInOrder == ~Live => WritesAligned /\ ContentHasContext

\* Where an install is that can go on.
Going ==
  /\ Consumed /\ Placed /\ Buffered /\ Opened
  /\ Received /\ NextInFile /\ InstalledAll /\ Batched

IInv ==
  /\ FlagsInv /\ ITypeOK /\ InstalledSoFar /\ ChunksFit /\ EndedInOrder
  /\ Live => Going

-----------------------------------------------------------------------------
(* Arithmetic *)

\* Quotient and remainder.
LEMMA Quotient ==
  ASSUME NEW a \in Nat, NEW b \in Nat \ {0}
  PROVE  a = b * (a \div b) + (a % b) /\ a % b \in Nat /\ a % b < b /\ a \div b \in Nat
OBVIOUS

\* A quotient and remainder are the only ones.
LEMMA QuotientIs ==
  ASSUME NEW b \in Nat \ {0}, NEW q \in Nat, NEW r \in Nat, r < b
  PROVE  (b * q + r) \div b = q /\ (b * q + r) % b = r
OBVIOUS

\* A number is whole blocks when it is a multiple.
LEMMA Multiple ==
  ASSUME NEW b \in Nat \ {0}, NEW x \in Nat
  PROVE  x % b = 0 <=> \E q \in Nat : x = b * q
<1>1. ASSUME x % b = 0 PROVE \E q \in Nat : x = b * q
  <2>1. x = b * (x \div b) + 0 /\ x \div b \in Nat
    BY <1>1, Quotient
  <2>2. b * (x \div b) \in Nat
    BY <2>1
  <2>3. x = b * (x \div b)
    BY <2>1, <2>2
  <2>q. QED
    BY <2>1, <2>3
<1>2. ASSUME NEW q \in Nat, x = b * q PROVE x % b = 0
  <2>1. (b * q + 0) % b = 0
    BY QuotientIs
  <2>2. b * q + 0 = x
    BY <1>2
  <2>q. QED
    BY <2>1, <2>2
<1>q. QED
  BY <1>1, <1>2

\* Sums and differences of whole blocks are whole blocks.
LEMMA BlockSum ==
  ASSUME NEW b \in Nat \ {0}, NEW x \in Nat, NEW y \in Nat, x % b = 0, y % b = 0
  PROVE  (x + y) % b = 0
<1>1. PICK p \in Nat : x = b * p
  BY Multiple
<1>2. PICK q \in Nat : y = b * q
  BY Multiple
<1>3. x + y = b * (p + q) /\ p + q \in Nat /\ x + y \in Nat
  BY <1>1, <1>2
<1>q. QED
  BY <1>3, Multiple

\* The same for a difference, which is a block at least.
LEMMA BlockRest ==
  ASSUME NEW b \in Nat \ {0}, NEW x \in Nat, NEW y \in Nat, x % b = 0, y % b = 0, y <= x
  PROVE  (x - y) % b = 0 /\ (x # y => x - y >= b)
<1>1. PICK p \in Nat : x = b * p
  BY Multiple
<1>2. PICK q \in Nat : y = b * q
  BY Multiple
<1>3. x - y = b * (p - q) /\ p - q \in Int
  BY <1>1, <1>2
<1>4. p - q >= 0
  BY <1>3
<1>5. p - q \in Nat /\ x - y \in Nat
  BY <1>3, <1>4
<1>6. (x - y) % b = 0
  BY <1>3, <1>5, Multiple
<1>7. x # y => p - q >= 1
  BY <1>3, <1>5
<1>q. QED
  BY <1>3, <1>5, <1>6, <1>7

\* What is left of a number without its remainder is a multiple.
LEMMA WholeBlocks ==
  ASSUME NEW b \in Nat \ {0}, NEW x \in Nat
  PROVE  /\ x - (x % b) \in Nat /\ x - (x % b) <= x /\ (x - (x % b)) % b = 0
         /\ x - (x % b) = 0 => x < b
         /\ 0 % b = 0 /\ b % b = 0
<1>1. x - (x % b) = b * (x \div b) /\ x \div b \in Nat /\ b * (x \div b) \in Nat /\ x % b \in Nat /\ x % b < b
  BY Quotient
<1>2. (x - (x % b)) % b = 0
  BY <1>1, Multiple
<1>q. QED
  BY <1>1, <1>2

\* No difference that occurs is as large as where an unsigned one wraps.
LEMMA NoWrap == ASSUME NEW x \in Nat, x < U32 PROVE x % U32 = x
BY DEF U32

\* The blocks of a number of bytes that are whole.
WholePart(x) == x - (x % Block)

\* Nothing, and one block, are whole blocks.
LEMMA BlockFacts == Block \in Nat \ {0} /\ Block \in Nat /\ Whole(0) /\ Whole(Block)
<1>1. Block \in Nat \ {0}
  BY SizesAssumption
<1>q. QED
  BY <1>1, WholeBlocks DEF Whole

\* Whole blocks stay whole when added or taken away.
LEMMA WholeSum ==
  ASSUME NEW x \in Nat, NEW y \in Nat, Whole(x), Whole(y)
  PROVE  Whole(x + y) /\ (y <= x => Whole(x - y) /\ (x # y => x - y >= Block))
BY BlockFacts, BlockSum, BlockRest DEF Whole

\* The whole blocks of a number.
LEMMA WholePartFacts ==
  ASSUME NEW x \in Nat
  PROVE  /\ WholePart(x) \in Nat /\ WholePart(x) <= x /\ Whole(WholePart(x))
         /\ WholePart(x) = 0 => x < Block
         /\ Whole(x) => WholePart(x) = x
<1>1. /\ WholePart(x) \in Nat /\ WholePart(x) <= x /\ Whole(WholePart(x))
      /\ WholePart(x) = 0 => x < Block
  BY BlockFacts, WholeBlocks DEF Whole, WholePart
<1>2. ASSUME x % Block = 0 PROVE x - (x % Block) = x
  BY <1>2
<1>q. QED
  BY <1>1, <1>2 DEF Whole, WholePart

\* Rounding up goes up, and not from a number that is rounded.
LEMMA Rounding ==
  ASSUME NEW n \in Nat
  PROVE  RoundUp(n) \in Nat /\ RoundUp(n) >= n /\ RoundUp(RoundUp(n)) = RoundUp(n)
<1>1. Align \in Nat \ {0}
  BY SizesAssumption
<1> DEFINE k == (n + Align - 1) \div Align
<1>2. /\ n + Align - 1 \in Nat /\ k \in Nat
      /\ n + Align - 1 = Align * k + ((n + Align - 1) % Align)
      /\ (n + Align - 1) % Align \in Nat /\ (n + Align - 1) % Align < Align
  BY <1>1, Quotient
<1>3. RoundUp(n) = Align * k
  BY <1>1, <1>2 DEF RoundUp
<1> HIDE DEF k
<1>4. (Align * k + (Align - 1)) \div Align = k
  <2>1. Align - 1 \in Nat /\ Align - 1 < Align
    BY <1>1
  <2>q. QED
    BY <1>1, <1>2, <2>1, QuotientIs
<1>5. Align * k \in Nat
  BY <1>1, <1>2
<1>6. RoundUp(n) + Align - 1 = Align * k + (Align - 1)
  BY <1>1, <1>3, <1>5
<1>7. RoundUp(RoundUp(n)) = k * Align
  BY <1>4, <1>6 DEF RoundUp
<1>8. k * Align = Align * k
  BY <1>1, <1>2
<1>q. QED
  BY <1>1, <1>2, <1>3, <1>5, <1>7, <1>8

-----------------------------------------------------------------------------
(* Runs of bytes *)

\* A run of bytes has its length, and is empty when it ends where it starts or before.
LEMMA BytesRun ==
  ASSUME NEW a \in Nat, NEW b \in Nat
  PROVE  /\ Bytes(a, b) \in Seq(Int)
         /\ a <= b => Len(Bytes(a, b)) = b - a
         /\ b <= a => Bytes(a, b) = <<>>
         /\ a < b => Bytes(a, b) # <<>>
BY DEF Bytes

\* One run after another.
LEMMA BytesJoin ==
  ASSUME NEW a \in Nat, NEW b \in Nat, NEW d \in Nat, a <= b, b <= d
  PROVE  Bytes(a, b) \o Bytes(b, d) = Bytes(a, d)
<1> DEFINE x == Bytes(a, b)
           y == Bytes(b, d)
           z == Bytes(a, d)
<1>1. x \in Seq(Int) /\ y \in Seq(Int) /\ z \in Seq(Int) /\ Len(x) = b - a /\ Len(y) = d - b /\ Len(z) = d - a
  <2>1. a <= d
    OBVIOUS
  <2>q. QED
    BY <2>1, BytesRun
<1>2. /\ \A i \in 1..(b - a) : x[i] = a + i - 1
      /\ \A i \in 1..(d - b) : y[i] = b + i - 1
      /\ \A i \in 1..(d - a) : z[i] = a + i - 1
  BY DEF Bytes
<1> HIDE DEF x, y, z
<1>3. x \o y \in Seq(Int) /\ Len(x \o y) = d - a
  BY <1>1
<1>4. ASSUME NEW i \in 1..(d - a) PROVE (x \o y)[i] = z[i]
  <2>0. i \in Nat /\ b - a \in Nat /\ i \in 1..(Len(x) + Len(y))
    BY <1>1
  <2>1. CASE i <= b - a
    BY <1>1, <1>2, <2>1, ConcatProperties
  <2>2. CASE i > b - a
    <3>1. i - (b - a) \in 1..(d - b)
      BY <2>2
    <3>2. (x \o y)[i] = IF i <= Len(x) THEN x[i] ELSE y[i - Len(x)]
      BY <1>1, <2>0, ConcatProperties
    <3>q. QED
      BY <1>1, <1>2, <2>0, <2>2, <3>1, <3>2
  <2>q. QED
    BY <2>0, <2>1, <2>2
<1>5. x \o y = z
  BY <1>1, <1>3, <1>4, SeqEqual
<1>q. QED
  BY <1>5 DEF x, y, z

\* Three runs of bytes, one after the other.
LEMMA Associative ==
  ASSUME NEW r \in Seq(Int), NEW m \in Seq(Int), NEW y \in Seq(Int)
  PROVE  (r \o m) \o y = r \o (m \o y)
BY ConcatAssociative, SMTT(40)

\* Bytes that follow what AM9 has, with what waits in between.
LEMMA Following ==
  ASSUME NEW r \in Seq(Int), NEW m \in Seq(Int), NEW a \in Nat, NEW b \in Nat, NEW d \in Nat, a <= b, b <= d,
         Run(r, m, a, b)
  PROVE  Run(r, m \o Bytes(b, d), a, d)
<1>1. Bytes(a, b) \o Bytes(b, d) = Bytes(a, d)
  BY ONLY a <= b, b <= d, BytesJoin
<1>2. PICK y : y = Bytes(b, d)
  OBVIOUS
<1>3. y \in Seq(Int)
  BY <1>2, BytesRun
<1>4. (r \o m) \o y = r \o (m \o y)
  BY ONLY <1>3, r \in Seq(Int), m \in Seq(Int), Associative
<1>5. (r \o m) \o y = Bytes(a, d)
  BY <1>1, <1>2 DEF Run
<1>6. r \o (m \o y) = Bytes(a, d)
  BY <1>4, <1>5
<1>q. QED
  BY <1>2, <1>6 DEF Run

\* How long what AM9 has and what waits are together.
LEMMA FollowingLen ==
  ASSUME NEW r \in Seq(Int), NEW m \in Seq(Int), NEW a \in Nat, NEW b \in Nat, a <= b,
         Run(r, m, a, b)
  PROVE  Len(m) \in Nat /\ Len(r) \in Nat /\ Len(r) + Len(m) = b - a
<1>1. Len(Bytes(a, b)) = b - a
  BY ONLY a <= b, BytesRun
<1>2. Len(r \o m) = Len(r) + Len(m)
  BY ConcatProperties
<1>3. Len(m) \in Nat /\ Len(r) \in Nat
  BY LenProperties
<1>q. QED
  BY <1>1, <1>2, <1>3 DEF Run

\* What waits, with the bytes of a chunk after it.
LEMMA Kept ==
  ASSUME NEW m \in Seq(Int), NEW b \in Nat, NEW d \in Nat, b <= d
  PROVE  m \o Bytes(b, d) \in Seq(Int) /\ Len(m \o Bytes(b, d)) = Len(m) + (d - b)
<1>1. Bytes(b, d) \in Seq(Int) /\ Len(Bytes(b, d)) = d - b
  BY BytesRun
<1>q. QED
  BY <1>1, ConcatProperties

\* Nothing waits.
LEMMA NoneWaits ==
  ASSUME NEW r \in Seq(Int), NEW a \in Nat, NEW b \in Nat
  PROVE  /\ <<>> \in Seq(Int) /\ Len(<<>>) = 0 /\ r \o <<>> = r
         /\ Run(r, <<>>, a, b) <=> r = Bytes(a, b)
BY ConcatEmptySeq, EmptySeq DEF Run

\* What waits has been given, or some of it.
LEMMA Handed ==
  ASSUME NEW r \in Seq(Int), NEW o \in Seq(Int), NEW a \in Nat, NEW b \in Nat, Run(r, o, a, b)
  PROVE  r \o o \in Seq(Int) /\ Run(r \o o, <<>>, a, b) /\ r \o o = Bytes(a, b)
<1>1. r \o o \in Seq(Int)
  BY ConcatProperties
<1>q. QED
  BY <1>1, NoneWaits DEF Run

-----------------------------------------------------------------------------
(* Blocks *)

\* How much of a chunk of n bytes the second half of a pass takes, and where it ends.
Portion(off, n, end, cap, rem, want, write, w, k) ==
  /\ rem = end - off
  /\ want = IF n >= rem THEN rem ELSE Smaller(Smaller(rem, n), cap)
  /\ write = IF n >= rem THEN want ELSE WholePart(want)
  /\ w = off + write /\ k = off + want

PortionFits(r, start, off, n, end, rem, want, write, w, k) ==
  /\ want \in Nat /\ write \in Nat /\ write <= want /\ want <= n /\ k <= end
  /\ r \o Bytes(off, w) = Bytes(start, w) /\ Bytes(off, w) \in Seq(Int)
  /\ w # end => Whole(Len(Bytes(start, w)))
  /\ n < rem => want > 0 /\ k < end
  /\ n < rem /\ write = 0 =>
       /\ want < Block /\ r \o Bytes(off, k) = Bytes(start, k)
       /\ Bytes(off, k) \in Seq(Int) /\ Len(Bytes(off, k)) = want

\* The second half of a pass, when nothing waits: whole blocks, or all the rest,
\* or less than a block is kept.
LEMMA BlocksRest ==
  ASSUME NEW start \in Nat, NEW off \in Nat, NEW n \in Nat, NEW end \in Nat, NEW cap \in Nat,
         start <= off, off <= end, cap > 0, n > 0,
         NEW r \in Seq(Int), Run(r, <<>>, start, off), Whole(Len(r)),
         NEW rem, NEW want, NEW write, NEW w, NEW k, Portion(off, n, end, cap, rem, want, write, w, k)
  PROVE  PortionFits(r, start, off, n, end, rem, want, write, w, k)
<1>0. /\ rem = end - off
      /\ want = IF n >= rem THEN rem ELSE Smaller(Smaller(rem, n), cap)
      /\ write = IF n >= rem THEN want ELSE WholePart(want)
      /\ w = off + write /\ k = off + want
      /\ r = Bytes(start, off)
  BY NoneWaits DEF Portion
<1> USE <1>0
<1>1. Block \in Nat \ {0} /\ rem \in Nat
  BY BlockFacts
<1>2. want \in Nat /\ want <= n /\ want <= rem /\ (n < rem => want > 0)
  BY DEF Smaller
<1>3. WholePart(want) \in Nat /\ WholePart(want) <= want /\ Whole(WholePart(want)) /\ (WholePart(want) = 0 => want < Block)
  BY <1>2, WholePartFacts
<1>4. write \in Nat /\ write <= want /\ (n < rem => Whole(write)) /\ (n < rem /\ write = 0 => want < Block)
  BY <1>1, <1>2, <1>3
<1>5. w \in Nat /\ off <= w /\ w - off = write /\ start <= w /\ k \in Nat /\ off <= k /\ k - off = want
  BY ONLY <1>2, <1>4, w = off + write, k = off + want, start <= off, off \in Nat, start \in Nat
<1>6. Bytes(start, off) \o Bytes(off, w) = Bytes(start, w)
  BY ONLY <1>5, start <= off, BytesJoin
<1>7. Bytes(start, off) \o Bytes(off, k) = Bytes(start, k)
  BY ONLY <1>5, start <= off, BytesJoin
<1>8. Bytes(off, w) \in Seq(Int) /\ Bytes(off, k) \in Seq(Int) /\ Len(Bytes(off, k)) = want /\ Len(Bytes(start, w)) = w - start
  BY ONLY <1>5, BytesRun
<1>9. ASSUME w # end PROVE Whole(Len(Bytes(start, w)))
  <2>1. n < rem
    BY <1>1, <1>9
  <2>2. Len(Bytes(start, off)) = off - start
    BY ONLY start <= off, BytesRun
  <2>3. Len(r) \in Nat /\ Len(r) = off - start
    BY <2>2
  <2>4. Whole(Len(r) + write)
    BY <1>4, <2>1, <2>3, WholeSum
  <2>5. Len(r) + write = w - start
    BY ONLY <1>4, <2>3, w = off + write
  <2>q. QED
    BY <1>8, <2>4, <2>5
<1>10. n < rem => want > 0 /\ k < end
  BY <1>1, <1>2
<1>11. k <= end
  BY <1>1, <1>2
<1>q. QED
  BY <1>2, <1>4, <1>6, <1>7, <1>8, <1>9, <1>10, <1>11 DEF PortionFits

\* What waits is filled to a block, which the object still has.
LEMMA BlocksFill ==
  ASSUME NEW mis \in Seq(Int), NEW recv \in Seq(Int), NEW start \in Nat, NEW off \in Nat, NEW end \in Nat,
         Run(recv, mis, start, off), start <= off, off < end,
         Len(mis) < Block, Whole(Len(recv)), Whole(end - start),
         NEW take, take = Block - Len(mis), NEW t, t = off + take, NEW out, out = mis \o Bytes(off, t)
  PROVE  /\ take \in Nat /\ take > 0 /\ t <= end
         /\ out \in Seq(Int) /\ Run(recv, out, start, t) /\ Whole(Len(recv \o out))
<1>1. Block \in Nat
  BY BlockFacts
<1>2. Len(mis) \in Nat /\ Len(recv) \in Nat /\ Len(recv) + Len(mis) = off - start
  BY FollowingLen
<1>3. take \in Nat /\ take > 0 /\ t \in Nat /\ off <= t /\ t - off = take
  BY ONLY <1>1, <1>2, take = Block - Len(mis), t = off + take, Len(mis) < Block
<1>4. Run(recv, mis \o Bytes(off, t), start, t)
  BY ONLY <1>3, Run(recv, mis, start, off), start <= off, Following
<1>5. mis \o Bytes(off, t) \in Seq(Int) /\ Len(mis \o Bytes(off, t)) = Len(mis) + (t - off)
  BY ONLY <1>3, Kept
<1>6. out \in Seq(Int) /\ Run(recv, out, start, t) /\ Len(out) = Len(mis) + take
  BY <1>3, <1>4, <1>5
<1>7. Len(recv \o out) = Len(recv) + Len(out)
  BY ONLY <1>6, ConcatProperties
<1>8. Len(recv \o out) = Len(recv) + Block
  BY ONLY <1>1, <1>2, <1>6, <1>7, take = Block - Len(mis)
<1>9. Whole(Len(recv) + Block)
  BY <1>1, <1>2, BlockFacts, WholeSum
<1>10. t <= end
  <2>1. end - start \in Nat /\ Len(recv) <= end - start /\ Len(recv) # end - start
    BY <1>2
  <2>2. (end - start) - Len(recv) >= Block
    BY <1>2, <2>1, WholeSum
  <2>q. QED
    BY <1>1, <1>2, <2>2
<1>q. QED
  BY <1>3, <1>6, <1>8, <1>9, <1>10

\* What waits is not filled to a block yet.
LEMMA BlocksWait ==
  ASSUME NEW mis \in Seq(Int), NEW recv \in Seq(Int), NEW start \in Nat, NEW off \in Nat, NEW end \in Nat,
         NEW t \in Nat, off <= t, Run(recv, mis, start, off), start <= off, off < end,
         Len(mis) + (t - off) < Block, Whole(Len(recv)), Whole(end - start)
  PROVE  /\ t < end /\ mis \o Bytes(off, t) \in Seq(Int) /\ Len(mis \o Bytes(off, t)) < Block
         /\ Run(recv, mis \o Bytes(off, t), start, t)
<1>1. Block \in Nat
  BY BlockFacts
<1>2. Len(mis) \in Nat /\ Len(recv) \in Nat /\ Len(recv) + Len(mis) = off - start
  BY ONLY Run(recv, mis, start, off), start <= off, FollowingLen
<1>4. Run(recv, mis \o Bytes(off, t), start, t)
  BY ONLY off <= t, Run(recv, mis, start, off), start <= off, Following
<1>5. mis \o Bytes(off, t) \in Seq(Int) /\ Len(mis \o Bytes(off, t)) = Len(mis) + (t - off)
  BY ONLY off <= t, Kept
<1>7. t < end
  <2>1. end - start \in Nat /\ Len(recv) <= end - start /\ Len(recv) # end - start
    BY <1>2
  <2>2. (end - start) - Len(recv) >= Block
    BY <1>2, <2>1, WholeSum
  <2>q. QED
    BY <1>1, <1>2, <2>2
<1>q. QED
  BY <1>1, <1>2, <1>4, <1>5, <1>7

\* The three ways a pass goes.
Waited(mis, off, n) == [out |-> <<>>, mis |-> mis \o Bytes(off, off + n), used |-> n]
Rested(out, used, off, n, rem, cap) ==
  LET want == IF n >= rem THEN rem ELSE Smaller(Smaller(rem, n), cap)
      write == IF n >= rem THEN want ELSE WholePart(want)
  IN  IF write = 0 /\ ~(n >= rem)
      THEN [out |-> out, mis |-> Bytes(off, off + want), used |-> used + want]
      ELSE [out |-> out \o Bytes(off, off + write), mis |-> <<>>, used |-> used + write]

\* What the code computes to be left of the object.
Left(off, end) == (end - off) % U32

\* What is left of an object, as the code computes it.
LEMMA LeftIs ==
  ASSUME NEW off \in Nat, NEW end \in Nat, off <= end, end < U32
  PROVE  Left(off, end) = end - off /\ end - off \in Nat
<1>1. end - off \in Nat /\ end - off < U32
  BY DEF U32
<1>q. QED
  BY <1>1, NoWrap DEF Left

\* A pass when nothing waits.
LEMMA BlocksNone ==
  ASSUME NEW off \in Nat, NEW n \in Nat, n > 0, NEW end \in Nat, NEW cap \in Nat, NEW guard
  PROVE  Blocks(<<>>, off, n, end, cap, guard) = Rested(<<>>, 0, off, n, Left(off, end), cap)
<1>1. off + 0 = off /\ n - 0 = n /\ n # 0
  OBVIOUS
<1>q. QED
  BY <1>1 DEF Blocks, Rested, WholePart, Left

\* A pass that does not fill the waiting block.
LEMMA BlocksWaits ==
  ASSUME NEW mis \in Seq(Int), mis # <<>>, NEW off \in Nat, NEW n \in Nat, NEW end \in Nat, NEW cap \in Nat,
         Len(mis) + n < Block
  PROVE  Blocks(mis, off, n, end, cap, TRUE) = Waited(mis, off, n)
<1>1. Block \in Nat /\ Len(mis) \in Nat
  BY BlockFacts, LenProperties
<1>2. n - n = 0 /\ ~(Len(mis) + n >= Block)
  BY <1>1
<1>q. QED
  BY <1>2 DEF Blocks, Waited

Fills(mis, off, n, end, cap, b) ==
  \E take, out :
    /\ take = Block - Len(mis) /\ out = mis \o Bytes(off, off + take)
    /\ b = IF n - take = 0 THEN [out |-> out, mis |-> <<>>, used |-> take]
           ELSE Rested(out, take, off + take, n - take, Left(off + take, end), cap)

\* A pass that fills the waiting block.
LEMMA BlocksFills ==
  ASSUME NEW mis \in Seq(Int), mis # <<>>, NEW off \in Nat, NEW n \in Nat, NEW end \in Nat, NEW cap \in Nat,
         Len(mis) + n >= Block
  PROVE  Fills(mis, off, n, end, cap, Blocks(mis, off, n, end, cap, TRUE))
<1>1. PICK take : take = Block - Len(mis)
  OBVIOUS
<1>2. PICK out : out = mis \o Bytes(off, off + take)
  OBVIOUS
<1>3. Blocks(mis, off, n, end, cap, TRUE) =
        IF n - take = 0 THEN [out |-> out, mis |-> <<>>, used |-> take]
        ELSE Rested(out, take, off + take, n - take, Left(off + take, end), cap)
  BY <1>1, <1>2 DEF Blocks, Rested, WholePart, Left
<1>q. QED
  BY <1>1, <1>2, <1>3 DEF Fills

\* What a pass leaves, of an object from "start" to "end": it uses no more than the
\* chunk and the object have, what AM9 has and what waits are the bytes up to the
\* offset, and nothing waits at the end of the object.
Exact(b, recv, start, off, n, end) ==
  /\ b.out \in Seq(Int) /\ b.mis \in Seq(Int) /\ b.used \in Nat /\ b.used <= n /\ off + b.used <= end
  /\ recv \o b.out \in Seq(Int) /\ Run(recv \o b.out, b.mis, start, off + b.used)
  /\ Len(b.mis) < Block
  /\ off + b.used = end => b.mis = <<>>
  /\ off + b.used # end => Whole(Len(recv \o b.out))

\* The second part of a pass leaves that, when the first has.
LEMMA RestedExact ==
  ASSUME NEW recv \in Seq(Int), NEW out \in Seq(Int), NEW start \in Nat, NEW off \in Nat, NEW used \in Nat,
         NEW from \in Nat, from = off + used, start <= off,
         NEW n \in Nat, NEW n1 \in Nat, n1 > 0, used + n1 = n, NEW end \in Nat, NEW cap \in Nat, cap > 0,
         from <= end, Run(recv, out, start, from), Whole(Len(recv \o out)),
         NEW rem, rem = end - from, NEW b, b = Rested(out, used, from, n1, rem, cap)
  PROVE  Exact(b, recv, start, off, n, end)
<1>1. PICK want, write, w, k : Portion(from, n1, end, cap, rem, want, write, w, k)
  <2> DEFINE want == IF n1 >= rem THEN rem ELSE Smaller(Smaller(rem, n1), cap)
             write == IF n1 >= rem THEN want ELSE WholePart(want)
  <2>1. Portion(from, n1, end, cap, rem, want, write, from + write, from + want)
    BY DEF Portion
  <2> HIDE DEF want, write
  <2>q. QED
    BY <2>1
<1>2. w = from + write /\ k = from + want
  BY <1>1 DEF Portion
<1>5. PICK r : r = recv \o out
  OBVIOUS
<1>6. b = IF write = 0 /\ ~(n1 >= rem)
          THEN [out |-> out, mis |-> Bytes(from, k), used |-> used + want]
          ELSE [out |-> out \o Bytes(from, w), mis |-> <<>>, used |-> used + write]
  BY <1>1 DEF Rested, Portion
<1>7. r \in Seq(Int) /\ Run(r, <<>>, start, from) /\ Whole(Len(r)) /\ start <= from /\ rem \in Nat
  <2>1. recv \o out \in Seq(Int) /\ Run(recv \o out, <<>>, start, from)
    BY ONLY Run(recv, out, start, from), recv \in Seq(Int), out \in Seq(Int), start \in Nat, from \in Nat, Handed
  <2>q. QED
    BY <1>5, <2>1
<1>8. PortionFits(r, start, from, n1, end, rem, want, write, w, k)
  BY ONLY <1>1, <1>7, from <= end, cap > 0, n1 > 0, cap \in Nat, end \in Nat,
          n1 \in Nat, from \in Nat, start \in Nat, BlocksRest
<1> USE <1>8 DEF PortionFits
<1>9. Block \in Nat \ {0}
  BY BlockFacts
<1>10. off + (used + want) = k /\ off + (used + write) = w /\ used + want \in Nat /\ used + write \in Nat
       /\ used + want <= n /\ used + write <= n /\ w <= end /\ w \in Nat /\ k \in Nat
  BY ONLY <1>2, <1>8, from = off + used, used + n1 = n, used \in Nat, off \in Nat, n1 \in Nat, n \in Nat, from \in Nat, end \in Nat
<1>11. CASE write = 0 /\ ~(n1 >= rem)
  <2>0. b = [out |-> out, mis |-> Bytes(from, k), used |-> used + want]
    BY ONLY <1>6, <1>11
  <2>1. b.out = out /\ b.mis = Bytes(from, k) /\ b.used = used + want
    BY ONLY <2>0
  <2>2. n1 < rem
    BY <1>7, <1>11
  <2>3. Run(r, Bytes(from, k), start, k)
    BY <1>8, <1>11, <2>2 DEF Run
  <2>4. off + b.used = k /\ k # end
    BY ONLY <1>7, <1>8, <1>10, <2>1, <2>2, end \in Nat DEF PortionFits
  <2>q. QED
    BY <1>5, <1>7, <1>8, <1>9, <1>10, <1>11, <2>1, <2>2, <2>3, <2>4 DEF Exact
<1>12. CASE ~(write = 0 /\ ~(n1 >= rem))
  <2>0. b = [out |-> out \o Bytes(from, w), mis |-> <<>>, used |-> used + write]
    BY ONLY <1>6, <1>12
  <2>1. b.out = out \o Bytes(from, w) /\ b.mis = <<>> /\ b.used = used + write
    BY ONLY <2>0
  <2>2. (recv \o out) \o Bytes(from, w) = recv \o (out \o Bytes(from, w))
    BY ONLY <1>8, recv \in Seq(Int), out \in Seq(Int), Associative
  <2>3. recv \o b.out = Bytes(start, w)
    BY <1>5, <1>8, <2>1, <2>2
  <2>4. out \o Bytes(from, w) \in Seq(Int)
    BY ONLY <1>8, out \in Seq(Int), ConcatProperties
  <2>5. recv \o b.out \in Seq(Int)
    BY <2>1, <2>4, ConcatProperties, ZenonT(40)
  <2>6. Run(recv \o b.out, <<>>, start, w)
    BY ONLY <1>10, <2>3, <2>5, start \in Nat, NoneWaits
  <2>7. <<>> \in Seq(Int) /\ Len(<<>>) = 0
    BY NoneWaits
  <2>8. off + b.used = w
    BY <1>10, <2>1
  <2>9. b.out \in Seq(Int) /\ b.mis \in Seq(Int) /\ b.used \in Nat /\ b.used <= n /\ off + b.used <= end /\ Len(b.mis) < Block
    BY ONLY <1>9, <1>10, <2>1, <2>4, <2>7, <2>8
  <2>10. Run(recv \o b.out, b.mis, start, off + b.used)
    BY ONLY <2>1, <2>6, <2>8
  <2>11. off + b.used # end => Whole(Len(recv \o b.out))
    BY ONLY <1>8, <2>3, <2>8
  <2>q. QED
    BY ONLY <2>1, <2>5, <2>9, <2>10, <2>11 DEF Exact
<1>q. QED
  BY <1>11, <1>12

\* A pass hands on, or keeps, exactly the bytes it uses.
LEMMA BlocksExact ==
  ASSUME NEW mis \in Seq(Int), NEW recv \in Seq(Int), NEW start \in Nat, NEW off \in Nat,
         NEW n \in Nat, NEW end \in Nat, NEW cap \in Nat, NEW guard \in BOOLEAN,
         Run(recv, mis, start, off), start <= off, off < end, end < U32, cap > 0, n > 0,
         Len(mis) < Block, Whole(Len(recv)), mis = <<>> \/ (guard /\ Whole(end - start)),
         NEW b, b = Blocks(mis, off, n, end, cap, guard)
  PROVE  Exact(b, recv, start, off, n, end)
<1>1. Block \in Nat \ {0} /\ Len(mis) \in Nat
  BY BlockFacts, LenProperties
<1>2. CASE mis = <<>>
  <2>1. b = Rested(<<>>, 0, off, n, Left(off, end), cap)
    BY <1>2, BlocksNone
  <2>3. Left(off, end) = end - off
    BY LeftIs
  <2>4. Run(recv, <<>>, start, off) /\ <<>> \in Seq(Int) /\ recv \o <<>> = recv
    BY <1>2, NoneWaits
  <2>5. b = Rested(<<>>, 0, off, n, end - off, cap) /\ off = off + 0 /\ 0 + n = n /\ off <= end /\ Whole(Len(recv \o <<>>))
    BY <2>1, <2>3, <2>4
  <2>q. QED
    BY ONLY <2>4, <2>5, start <= off, n > 0, cap > 0, off \in Nat, start \in Nat, n \in Nat, end \in Nat, cap \in Nat,
            recv \in Seq(Int), RestedExact
<1>3. CASE mis # <<>> /\ Len(mis) + n < Block
  <2>1. PICK t \in Nat : t = off + n
    OBVIOUS
  <2>0. b = Blocks(mis, off, n, end, cap, TRUE)
    BY <1>3
  <2>8. mis # <<>> /\ Len(mis) + n < Block
    BY ONLY <1>3
  <2>9. Blocks(mis, off, n, end, cap, TRUE) = Waited(mis, off, n)
    BY ONLY <2>8, BlocksWaits, mis \in Seq(Int), off \in Nat, n \in Nat, end \in Nat, cap \in Nat, ZenonT(90)
  <2>2. b = Waited(mis, off, n)
    BY ONLY <2>0, <2>9
  <2>3. b = [out |-> <<>>, mis |-> mis \o Bytes(off, t), used |-> n]
    BY <2>1, <2>2 DEF Waited
  <2>4. t - off = n /\ off <= t
    BY <2>1
  <2>5. /\ t < end /\ mis \o Bytes(off, t) \in Seq(Int) /\ Len(mis \o Bytes(off, t)) < Block
        /\ Run(recv, mis \o Bytes(off, t), start, t)
    BY <1>3, <2>4, BlocksWait
  <2>6. recv \o <<>> = recv /\ <<>> \in Seq(Int)
    BY NoneWaits
  <2>7. b.out = <<>> /\ b.mis = mis \o Bytes(off, t) /\ b.used = n /\ off + b.used = t /\ t # end /\ t <= end
    BY <2>1, <2>3, <2>5
  <2>q. QED
    BY ONLY <2>1, <2>5, <2>6, <2>7, n \in Nat, recv \in Seq(Int), Whole(Len(recv)) DEF Exact
<1>4. CASE mis # <<>> /\ Len(mis) + n >= Block
  <2>0. b = Blocks(mis, off, n, end, cap, TRUE)
    BY <1>4
  <2>8. Fills(mis, off, n, end, cap, b)
    BY ONLY <1>1, <1>4, <2>0, BlocksFills, mis \in Seq(Int), off \in Nat, n \in Nat, end \in Nat, cap \in Nat
  <2>1. PICK take, out : /\ take = Block - Len(mis) /\ out = mis \o Bytes(off, off + take)
                         /\ b = IF n - take = 0 THEN [out |-> out, mis |-> <<>>, used |-> take]
                                ELSE Rested(out, take, off + take, n - take, Left(off + take, end), cap)
    BY <2>8 DEF Fills
  <2>2. PICK t : t = off + take
    OBVIOUS
  <2>3. out = mis \o Bytes(off, t)
    BY <2>1, <2>2
  <2>4. /\ take \in Nat /\ take > 0 /\ t <= end
        /\ out \in Seq(Int) /\ Run(recv, out, start, t) /\ Whole(Len(recv \o out))
    BY <1>4, <2>1, <2>2, <2>3, BlocksFill, ZenonT(30)
  <2>5. t \in Nat /\ take <= n /\ n - take \in Nat /\ take + (n - take) = n
    BY ONLY <1>1, <1>4, <2>1, <2>2, <2>4, n \in Nat, off \in Nat
  <2>6. CASE n - take = 0
    <3>1. b.out = out /\ b.mis = <<>> /\ b.used = take /\ off + b.used = t
      BY ONLY <2>1, <2>2, <2>6
    <3>2. recv \o out \in Seq(Int) /\ Run(recv \o out, <<>>, start, t)
      BY ONLY <2>4, <2>5, recv \in Seq(Int), start \in Nat, Handed
    <3>3. <<>> \in Seq(Int) /\ Len(<<>>) = 0
      BY NoneWaits
    <3>q. QED
      BY ONLY <1>1, <2>4, <2>5, <3>1, <3>2, <3>3 DEF Exact
  <2>7. CASE n - take # 0
    <3>2. Left(t, end) = end - t
      BY <2>4, <2>5, LeftIs
    <3>3. b = Rested(out, take, t, n - take, end - t, cap)
      BY <2>1, <2>2, <2>7, <3>2
    <3>4. n - take > 0
      BY <2>5, <2>7
    <3>q. QED
      BY ONLY <2>2, <2>4, <2>5, <3>3, <3>4, start <= off, cap > 0, off \in Nat, start \in Nat, n \in Nat, end \in Nat,
              cap \in Nat, recv \in Seq(Int), RestedExact
  <2>q. QED
    BY <2>6, <2>7
<1>q. QED
  BY <1>1, <1>2, <1>3, <1>4

\* Nothing waits after a pass over whole blocks.
LEMMA NoRest ==
  ASSUME NEW off \in Nat, NEW n \in Nat, NEW end \in Nat, NEW cap \in Nat, NEW guard, off <= end, end < U32,
         cap > 0, Whole(cap), n > 0, Whole(n) \/ n >= end - off
  PROVE  Blocks(<<>>, off, n, end, cap, guard).mis = <<>>
<1>1. PICK rem : rem = end - off
  OBVIOUS
<1>2. PICK want : want = IF n >= rem THEN rem ELSE Smaller(Smaller(rem, n), cap)
  OBVIOUS
<1>3. rem \in Nat /\ Left(off, end) = rem
  BY <1>1, LeftIs
<1>4. Blocks(<<>>, off, n, end, cap, guard) = Rested(<<>>, 0, off, n, rem, cap)
  <2>1. Blocks(<<>>, off, n, end, cap, guard) = Rested(<<>>, 0, off, n, Left(off, end), cap)
    <3>1. off + 0 = off /\ n - 0 = n /\ n # 0
      OBVIOUS
    <3>q. QED
      BY <3>1 DEF Blocks, Rested, WholePart, Left
  <2>q. QED
    BY <1>3, <2>1
<1>5. n < rem => WholePart(want) = want /\ want > 0
  <2>1. ASSUME n < rem PROVE want \in Nat /\ want > 0 /\ want \in {n, cap}
    BY <1>2, <1>3, <2>1 DEF Smaller
  <2>2. ASSUME n < rem PROVE Whole(want)
    BY <1>1, <1>3, <2>1, <2>2
  <2>q. QED
    BY <2>1, <2>2, WholePartFacts
<1>6. PICK write : write = IF n >= rem THEN want ELSE WholePart(want)
  OBVIOUS
<1>7. Rested(<<>>, 0, off, n, rem, cap).mis = IF write = 0 /\ ~(n >= rem) THEN Bytes(off, off + want) ELSE <<>>
  BY ONLY <1>2, <1>6 DEF Rested
<1>8. ~(write = 0 /\ ~(n >= rem))
  BY ONLY <1>3, <1>5, <1>6, n \in Nat
<1>q. QED
  BY <1>4, <1>7, <1>8

\* The same for the two uses of the blocks.
LEMMA TMDPass ==
  ASSUME NEW recv \in Seq(Int), NEW start \in Nat, NEW off \in Nat, NEW n \in Nat, NEW end \in Nat,
         Run(recv, <<>>, start, off), start <= off, off < end, end < U32, n > 0, Whole(Len(recv)),
         Whole(n) \/ n >= end - off
  PROVE  LET b == Blocks(<<>>, off, n, end, MaxWrite, FALSE)
         IN  Exact(b, recv, start, off, n, end) /\ b.mis = <<>>
<1>1. PICK g \in BOOLEAN : g = FALSE
  OBVIOUS
<1>2. PICK b : b = Blocks(<<>>, off, n, end, MaxWrite, g)
  OBVIOUS
<1>3. MaxWrite \in Nat /\ MaxWrite > 0 /\ Whole(MaxWrite)
  BY SizesAssumption DEF Whole
<1>4. <<>> \in Seq(Int) /\ Len(<<>>) < Block
  BY BlockFacts, NoneWaits
<1>5. Exact(b, recv, start, off, n, end)
  BY <1>2, <1>3, <1>4, BlocksExact
<1>6. Blocks(<<>>, off, n, end, MaxWrite, g).mis = <<>>
  <2>1. off <= end
    OBVIOUS
  <2>q. QED
    BY <1>3, <2>1, NoRest, ZenonT(30)
<1>q. QED
  BY <1>1, <1>2, <1>5, <1>6

\* A pass over a content, which may have bytes that wait.
LEMMA ContentPass ==
  ASSUME NEW mis \in Seq(Int), NEW recv \in Seq(Int), NEW start \in Nat, NEW off \in Nat,
         NEW n \in Nat, NEW end \in Nat,
         Run(recv, mis, start, off), start <= off, off < end, end < U32, n > 0,
         Len(mis) < Block, Whole(Len(recv)), Whole(end - start)
  PROVE  Exact(Blocks(mis, off, n, end, U32, TRUE), recv, start, off, n, end)
<1>1. PICK g \in BOOLEAN : g = TRUE
  OBVIOUS
<1>2. PICK b : b = Blocks(mis, off, n, end, U32, g)
  OBVIOUS
<1>3. U32 \in Nat /\ U32 > 0
  BY DEF U32
<1>4. mis = <<>> \/ (g /\ Whole(end - start))
  BY <1>1
<1>5. Exact(b, recv, start, off, n, end)
  BY <1>2, <1>3, <1>4, BlocksExact
<1>q. QED
  BY <1>1, <1>2, <1>5

-----------------------------------------------------------------------------
(* The file *)

\* The parts of the file, in order.
Layout ==
  /\ IdxStart \in Nat /\ IdxEnd \in Nat /\ CrtStart \in Nat /\ CrtEnd \in Nat /\ TikStart \in Nat
  /\ TikEnd \in Nat /\ TmdStart \in Nat /\ TmdEnd \in Nat /\ ConStart \in Nat /\ FileEnd \in Nat
  /\ IdxStart <= IdxEnd /\ IdxEnd <= CrtStart /\ CrtStart <= CrtEnd /\ CrtEnd <= TikStart
  /\ TikStart <= TikEnd /\ TikEnd <= TmdStart /\ TmdStart <= TmdEnd /\ TmdEnd <= ConStart
  /\ ConStart <= FileEnd /\ FileEnd < U32 /\ RoundUp(ConStart) = ConStart
  /\ cia.cert \in Nat /\ cia.tik \in Nat /\ cia.tikHdr \in Nat /\ cia.tmdHdr \in Nat /\ cia.meta \in Nat
  /\ cia.n \in Nat /\ cia.dlc \in BOOLEAN
  /\ cia.tik > 0 => TikStart + cia.tikHdr <= TikEnd
  /\ TmdStart + cia.tmdHdr <= TmdEnd /\ Whole(cia.tmdHdr)

\* A content at j follows the enabled content i.
Follows(i, j) == i < j /\ \A k \in Enabled : k <= i \/ k >= j

\* The contents that are in the file, each after the one before.
Contents ==
  /\ Enabled \subseteq 0..(cia.n - 1) /\ IsFiniteSet(Enabled)
  /\ \A i \in Enabled :
       /\ ConAt(i) \in Nat /\ cia.con[i] \in Nat /\ cia.con[i] > 0 /\ Whole(cia.con[i])
       /\ ConAt(i) >= ConStart /\ ConAt(i) + cia.con[i] <= FileEnd
  /\ \A j \in Enabled \union {cia.n} :
       /\ (\A k \in Enabled : k >= j) => ConAt(j) = ConStart
       /\ \A i \in Enabled : Follows(i, j) => ConAt(j) = RoundUp(ConAt(i) + cia.con[i])

\* A file that is well formed has its parts and contents in order.
LEMMA FileFacts == ASSUME cia \in CIAs PROVE Layout /\ Contents
<1>1. WellFormed(cia)
  BY FilesAssumption
<1> DEFINE present == {i \in 0..(cia.n - 1) : cia.con[i] > 0}
<1>2. present = Enabled
  BY DEF Enabled, Indices
<1>3. ConStart = ConStartOf(cia)
  BY DEF ConStart, ConStartOf, TmdEnd, TmdStart, TikEnd, TikStart, CrtEnd, CrtStart, IdxEnd, IdxStart
<1>4. /\ cia.hdr \in Nat /\ cia.idx \in Nat /\ cia.cert \in Nat /\ cia.tikHdr \in Nat /\ cia.tik \in Nat
      /\ cia.tmdHdr \in Nat /\ cia.tmd \in Nat /\ cia.meta \in Nat
      /\ cia.tik > 0 => cia.tikHdr <= cia.tik
      /\ cia.tmdHdr <= cia.tmd
  BY <1>1 DEF WellFormed
<1>15. cia.n \in Nat /\ cia.dlc \in BOOLEAN
  BY <1>1 DEF WellFormed
<1>16. cia.con \in [0..(cia.n - 1) -> Nat] /\ cia.at \in [0..cia.n -> Nat] /\ EndOf(cia) < U32
  BY <1>1 DEF WellFormed
<1>5. \A i \in present : cia.con[i] % Block = 0
  BY <1>1 DEF WellFormed
<1>6. \A j \in present \union {cia.n} :
        /\ (\A k \in present : k >= j) => cia.at[j] = ConStartOf(cia)
        /\ \A i \in present : i < j =>
             /\ cia.at[i] >= ConStartOf(cia) /\ cia.at[j] >= cia.at[i] + cia.con[i]
             /\ (\A k \in present : k <= i \/ k >= j) => cia.at[j] = RoundUp(cia.at[i] + cia.con[i])
  BY <1>1 DEF WellFormed
<1> HIDE DEF present
<1>7. IsFiniteSet(Enabled) /\ Enabled \subseteq 0..(cia.n - 1)
  <2>1. IsFiniteSet(0..(cia.n - 1))
    <3>1. 0 \in Int /\ cia.n - 1 \in Int
      BY <1>15
    <3>q. QED
      BY <3>1, FS_Interval
  <2>2. Enabled \subseteq 0..(cia.n - 1)
    BY DEF Enabled, Indices
  <2>q. QED
    BY <2>1, <2>2, FS_Subset
<1>8. /\ IdxStart \in Nat /\ IdxEnd \in Nat /\ IdxStart <= IdxEnd
      /\ CrtStart \in Nat /\ IdxEnd <= CrtStart
      /\ CrtEnd \in Nat /\ CrtStart <= CrtEnd
      /\ TikStart \in Nat /\ CrtEnd <= TikStart
  <2>1. IdxStart \in Nat /\ IdxEnd \in Nat /\ IdxStart <= IdxEnd
    BY ONLY <1>4 DEF IdxStart, IdxEnd
  <2>2. CrtStart \in Nat /\ IdxEnd <= CrtStart
    BY <2>1, Rounding DEF CrtStart
  <2>3. CrtEnd \in Nat /\ CrtStart <= CrtEnd
    BY ONLY <1>4, <2>2 DEF CrtEnd
  <2>4. TikStart \in Nat /\ CrtEnd <= TikStart
    BY <2>3, Rounding DEF TikStart
  <2>q. QED
    BY <2>1, <2>2, <2>3, <2>4
<1>9. /\ TikEnd \in Nat /\ TikStart <= TikEnd /\ (cia.tik > 0 => TikStart + cia.tikHdr <= TikEnd)
      /\ TmdStart \in Nat /\ TikEnd <= TmdStart
      /\ TmdEnd \in Nat /\ TmdStart <= TmdEnd /\ TmdStart + cia.tmdHdr <= TmdEnd
      /\ ConStart \in Nat /\ TmdEnd <= ConStart /\ RoundUp(ConStart) = ConStart
  <2>1. TikEnd \in Nat /\ TikStart <= TikEnd /\ (cia.tik > 0 => TikStart + cia.tikHdr <= TikEnd)
    BY ONLY <1>4, <1>8 DEF TikEnd
  <2>2. TmdStart \in Nat /\ TikEnd <= TmdStart
    BY <2>1, Rounding DEF TmdStart
  <2>3. TmdEnd \in Nat /\ TmdStart <= TmdEnd /\ TmdStart + cia.tmdHdr <= TmdEnd
    BY ONLY <1>4, <2>2 DEF TmdEnd
  <2>4. ConStart \in Nat /\ TmdEnd <= ConStart /\ RoundUp(ConStart) = ConStart
    BY <2>3, Rounding DEF ConStart
  <2>q. QED
    BY <2>1, <2>2, <2>3, <2>4
<1>10. FileEnd \in Nat /\ FileEnd < U32 /\ cia.at[cia.n] <= FileEnd /\ cia.at[cia.n] \in Nat
  BY <1>4, <1>15, <1>16 DEF FileEnd, EndOf
<1>11. ASSUME NEW i \in Enabled
       PROVE  /\ ConAt(i) \in Nat /\ cia.con[i] \in Nat /\ cia.con[i] > 0 /\ Whole(cia.con[i])
              /\ ConAt(i) >= ConStart /\ ConAt(i) + cia.con[i] <= FileEnd
  <2>1. i \in 0..(cia.n - 1) /\ i \in 0..cia.n /\ i < cia.n /\ cia.con[i] > 0
    BY <1>7, <1>15 DEF Enabled
  <2>2. ConAt(i) \in Nat /\ cia.con[i] \in Nat /\ cia.con[i] > 0
    BY <1>16, <2>1 DEF ConAt
  <2>3. Whole(cia.con[i])
    BY <1>2, <1>5 DEF Whole
  <2>4. cia.at[i] >= ConStart /\ cia.at[cia.n] >= cia.at[i] + cia.con[i]
    BY <1>2, <1>3, <1>6, <2>1
  <2>q. QED
    BY <1>10, <2>2, <2>3, <2>4 DEF ConAt
<1>12. ASSUME NEW j \in Enabled \union {cia.n}
       PROVE  /\ (\A k \in Enabled : k >= j) => ConAt(j) = ConStart
              /\ \A i \in Enabled : Follows(i, j) => ConAt(j) = RoundUp(ConAt(i) + cia.con[i])
  BY <1>2, <1>3, <1>6 DEF Follows, ConAt
<1>13. Layout
  <2>1. ASSUME NEW i \in Enabled PROVE ConStart <= FileEnd
    <3>1. /\ ConAt(i) \in Nat /\ cia.con[i] \in Nat
          /\ ConAt(i) >= ConStart /\ ConAt(i) + cia.con[i] <= FileEnd
      BY <1>11
    <3>2. ConStart \in Nat /\ FileEnd \in Nat
      BY <1>9, <1>10
    <3>q. QED
      BY ONLY <3>1, <3>2
  <2>2. ASSUME Enabled = {} PROVE ConStart <= FileEnd
    BY <1>2, <1>3, <1>6, <1>10, <2>2
  <2>3. ConStart <= FileEnd
    BY <2>1, <2>2
  <2>4. cia.tmdHdr % Block = 0
    BY <1>1 DEF WellFormed
  <2>q. QED
    BY ONLY <1>4, <1>8, <1>9, <1>10, <1>15, <2>3, <2>4 DEF Layout, Whole
<1>14. Contents
  BY <1>2, <1>5, <1>7, <1>11, <1>12 DEF Contents
<1>q. QED
  BY <1>13, <1>14

\* The file does not change, and so its parts stay where they are.
SameFile ==
  /\ IdxStart' = IdxStart /\ IdxEnd' = IdxEnd /\ CrtStart' = CrtStart /\ CrtEnd' = CrtEnd
  /\ TikStart' = TikStart /\ TikEnd' = TikEnd /\ TmdStart' = TmdStart /\ TmdEnd' = TmdEnd
  /\ ConStart' = ConStart /\ FileEnd' = FileEnd /\ Enabled' = Enabled /\ cia' = cia

\* No step changes the file.
LEMMA FileFixed == ASSUME cia' = cia PROVE SameFile
BY DEF SameFile, IdxStart, IdxEnd, CrtStart, CrtEnd, TikStart, TikEnd, TmdStart, TmdEnd, ConStart, FileEnd,
       Enabled, Indices

-----------------------------------------------------------------------------
(* The flags *)

\* At first nothing is open.
LEMMA FlagsInit == ASSUME Init PROVE FlagsInv
BY DEF Init, FlagsInv, Shape, NoLateWrite, FlagsMatchAM9, Live, Ended

\* While a chunk is worked on, the install is live and the flags are right.
LEMMA FlagsWriting ==
  ASSUME FlagsInv, call = "write"
  PROVE  Shape /\ ~c.invalidated /\ am9.title \notin {"cancelled", "finished"} /\ c.importing = am9.open
BY DEF FlagsInv, NoLateWrite, Live, Ended, FlagsMatchAM9

\* A failed call leaves the flags as true as it found them.
LEMMA FlagsErr ==
  ASSUME Shape, NEW open, ErrExit(open, open)
  PROVE  FlagsInv'
<1>1. c' = [c EXCEPT !.buf = FALSE, !.invalidated = TRUE, !.importing = open] /\ am9' = [am9 EXCEPT !.open = open] /\ call' = "none"
  BY DEF ErrExit
<1>2. c'.importing = open /\ am9'.open = open /\ Shape'
  BY <1>1 DEF Shape
<1>q. QED
  BY <1>1, <1>2 DEF FlagsInv, NoLateWrite, FlagsMatchAM9

\* The same, when nothing was opened before.
LEMMA FlagsFails ==
  ASSUME FlagsInv, call = "write", Fails
  PROVE  FlagsInv'
BY FlagsWriting, FlagsErr DEF Fails

\* A pass that goes on keeps them when it changes flags and AM9 alike.
LEMMA FlagsPass ==
  ASSUME FlagsInv, call = "write", NEW newc, NEW n, NEW newam9, Pass(newc, n, newam9),
         DOMAIN newc = DOMAIN c, DOMAIN newam9 = DOMAIN am9,
         newc.importing = newam9.open, ~newc.invalidated, newam9.title \notin {"cancelled", "finished"}
  PROVE  FlagsInv'
<1>1. c' = [newc EXCEPT !.offset = @ + n] /\ am9' = newam9
  BY DEF Pass
<1>2. Shape
  BY FlagsWriting
<1>3. c'.importing = newc.importing /\ c'.invalidated = newc.invalidated /\ Shape'
  BY <1>1, <1>2 DEF Shape
<1>q. QED
  BY <1>1, <1>3 DEF FlagsInv, NoLateWrite, FlagsMatchAM9, Live, Ended

\* The same, when some imports were begun before.
LEMMA FlagsBegin ==
  ASSUME FlagsInv, call = "write", NEW calls, BeginFails(calls)
  PROVE  FlagsInv'
<1>1. PICK begun : ErrExit(c.importing \union begun, am9.open \union begun)
  BY DEF BeginFails
<1>2. Shape /\ c.importing = am9.open
  BY FlagsWriting
<1>q. QED
  BY <1>1, <1>2, FlagsErr

\* Padding touches neither.
LEMMA FlagsSkip ==
  ASSUME FlagsInv, call = "write", NEW off, Skip(off)
  PROVE  FlagsInv'
BY FlagsWriting, FlagsPass DEF Skip

\* A copy into the header buffer touches neither.
LEMMA FlagsCopy ==
  ASSUME FlagsInv, call = "write", NEW pad, NEW end, NEW next, BasicCopy(pad, end, next)
  PROVE  FlagsInv'
<1>1. Shape /\ ~c.invalidated /\ am9.title \notin {"cancelled", "finished"} /\ c.importing = am9.open
  BY FlagsWriting
<1>2. PICK newc, n : /\ Pass(newc, n, am9)
                     /\ \/ newc = [c EXCEPT !.state = next]
                        \/ newc = [c EXCEPT !.buf = @ \/ c.state \notin {"Header", "ContentIndex"}]
  BY DEF BasicCopy
<1>3. DOMAIN newc = DOMAIN c /\ newc.importing = c.importing /\ newc.invalidated = c.invalidated
  BY <1>1, <1>2 DEF Shape
<1>q. QED
  BY <1>1, <1>2, <1>3, FlagsPass

\* AM9 is given bytes, and no more.
LEMMA GivenKeeps ==
  ASSUME Shape, NEW bytes
  PROVE  LET g == Given(am9, bytes) IN DOMAIN g = DOMAIN am9 /\ g.open = am9.open /\ g.title = am9.title
BY DEF Given, Shape

\* The states before the ticket keep the flags true.
LEMMA FlagsEarly ==
  ASSUME FlagsInv, Header \/ ContentIndex \/ CertChainCopy \/ CertChainInstall \/ TicketHeader \/ TMDHeader
  PROVE  FlagsInv'
<1>1. call = "write"
  BY DEF Header, ContentIndex, CertChainCopy, CertChainInstall, TicketHeader, TMDHeader, Running
<1>2. Shape /\ ~c.invalidated /\ am9.title \notin {"cancelled", "finished"} /\ c.importing = am9.open
  BY <1>1, FlagsWriting
<1>3. ASSUME NEW newc, NEW n, Pass(newc, n, am9), newc.importing = c.importing, newc.invalidated = c.invalidated,
             DOMAIN newc = DOMAIN c
      PROVE  FlagsInv'
  BY <1>1, <1>2, <1>3, FlagsPass
<1>4. CASE Header
  BY <1>1, <1>4, FlagsCopy DEF Header
<1>5. CASE ContentIndex
  BY <1>1, <1>5, FlagsCopy DEF ContentIndex
<1>6. CASE CertChainCopy
  <2>1. CASE Pass([c EXCEPT !.state = "TicketHeader"], 0, am9)
    BY <1>2, <1>3, <2>1 DEF Shape
  <2>q. QED
    BY <1>1, <1>6, <2>1, FlagsSkip, FlagsCopy, FlagsFails DEF CertChainCopy
<1>7. CASE CertChainInstall
  <2>1. CASE Pass([c EXCEPT !.buf = FALSE, !.state = "TicketHeader"], 0, am9)
    BY <1>2, <1>3, <2>1 DEF Shape
  <2>q. QED
    BY <1>1, <1>7, <2>1, FlagsFails DEF CertChainInstall
<1>8. CASE TicketHeader
  <2>1. CASE Pass([c EXCEPT !.state = "TMD"], 0, am9)
    BY <1>2, <1>3, <2>1 DEF Shape
  <2>q. QED
    BY <1>1, <1>8, <2>1, FlagsSkip, FlagsCopy, FlagsFails DEF TicketHeader
<1>9. CASE TMDHeader
  BY <1>1, <1>9, FlagsSkip, FlagsCopy, FlagsFails DEF TMDHeader
<1>q. QED
  BY <1>4, <1>5, <1>6, <1>7, <1>8, <1>9

\* The states of the ticket keep the flags true.
LEMMA FlagsTicket ==
  ASSUME FlagsInv, TicketImport \/ TicketWrite \/ TicketFinish
  PROVE  FlagsInv'
<1>1. call = "write"
  BY DEF TicketImport, TicketWrite, TicketFinish, Running
<1>2. Shape /\ ~c.invalidated /\ am9.title \notin {"cancelled", "finished"} /\ c.importing = am9.open
  BY <1>1, FlagsWriting
<1>3. CASE TicketImport
  <2>1. ASSUME NEW bytes,
               Pass([c EXCEPT !.tikHeader = TRUE, !.importing = @ \union {"tik"}], 0, Given(Begun(am9, "tik"), bytes))
        PROVE  FlagsInv'
    <3> DEFINE newc == [c EXCEPT !.tikHeader = TRUE, !.importing = @ \union {"tik"}]
               newam9 == Given(Begun(am9, "tik"), bytes)
    <3>1. DOMAIN newc = DOMAIN c /\ newc.importing = c.importing \union {"tik"} /\ ~newc.invalidated
      BY <1>2 DEF Shape
    <3>2. DOMAIN newam9 = DOMAIN am9 /\ newam9.open = am9.open \union {"tik"} /\ newam9.title = am9.title
      BY <1>2 DEF Shape, Given, Begun
    <3>3. Pass(newc, 0, newam9)
      BY <2>1
    <3> HIDE DEF newc, newam9
    <3>q. QED
      BY <1>1, <1>2, <3>1, <3>2, <3>3, FlagsPass
  <2>q. QED
    BY <1>1, <1>3, <2>1, FlagsBegin DEF TicketImport
<1>4. CASE TicketWrite
  <2>1. ASSUME NEW n, NEW bytes, Pass(c, n, Given(am9, bytes)) PROVE FlagsInv'
    BY <1>1, <1>2, <2>1, GivenKeeps, FlagsPass
  <2>q. QED
    BY <1>1, <1>4, <2>1, FlagsFails DEF TicketWrite
<1>5. CASE TicketFinish
  <2> DEFINE newc == [c EXCEPT !.buf = FALSE, !.state = "TMDHeader", !.importing = @ \ {"tik"}]
             newam9 == Finished(am9, "tik", Ticket)
  <2>1. CASE Pass(newc, 0, newam9)
    <3>1. DOMAIN newc = DOMAIN c /\ newc.importing = c.importing \ {"tik"} /\ ~newc.invalidated
      BY <1>2 DEF Shape
    <3>2. DOMAIN newam9 = DOMAIN am9 /\ newam9.open = am9.open \ {"tik"} /\ newam9.title = am9.title
      BY <1>2 DEF Shape, Finished
    <3> HIDE DEF newc, newam9
    <3>q. QED
      BY <1>1, <1>2, <2>1, <3>1, <3>2, FlagsPass
  <2>q. QED
    BY <1>1, <1>5, <2>1, FlagsFails DEF TicketFinish
<1>q. QED
  BY <1>3, <1>4, <1>5

\* The states of the TMD keep the flags true.
LEMMA FlagsTMD ==
  ASSUME FlagsInv, TMDImport \/ TMDWrite \/ TMDFinish
  PROVE  FlagsInv'
<1>1. call = "write"
  BY DEF TMDImport, TMDWrite, TMDFinish, Running
<1>2. Shape /\ ~c.invalidated /\ am9.title \notin {"cancelled", "finished"} /\ c.importing = am9.open
  BY <1>1, FlagsWriting
<1>3. CASE TMDImport
  <2> DEFINE newc == [c EXCEPT !.tmdHeader = TRUE, !.importing = @ \union {"title", "tmd"}]
             newam9 == [Given(Begun(Begun(am9, "title"), "tmd"), Bytes(TmdStart, TmdStart + cia.tmdHdr))
                          EXCEPT !.title = "open"]
  <2>1. CASE Pass(newc, 0, newam9)
    <3>1. DOMAIN newc = DOMAIN c /\ newc.importing = c.importing \union {"title", "tmd"} /\ ~newc.invalidated
      BY <1>2 DEF Shape
    <3>2. DOMAIN newam9 = DOMAIN am9 /\ newam9.open = am9.open \union {"title", "tmd"} /\ newam9.title = "open"
      BY <1>2 DEF Shape, Given, Begun
    <3> HIDE DEF newc, newam9
    <3>q. QED
      BY <1>1, <1>2, <2>1, <3>1, <3>2, FlagsPass
  <2>2. CASE call' = "fault" /\ UNCHANGED <<cia, c, size, fed, am9>>
    BY <1>2, <2>2 DEF FlagsInv, Shape, NoLateWrite, Live, Ended, FlagsMatchAM9
  <2>q. QED
    BY <1>1, <1>3, <2>1, <2>2, FlagsBegin DEF TMDImport
<1>4. CASE TMDWrite
  <2>1. ASSUME NEW n, NEW bytes, NEW m, Pass([c EXCEPT !.misalign = m], n, Given(am9, bytes)) PROVE FlagsInv'
    <3> DEFINE newc == [c EXCEPT !.misalign = m]
    <3>1. DOMAIN newc = DOMAIN c /\ newc.importing = c.importing /\ newc.invalidated = c.invalidated
      BY <1>2 DEF Shape
    <3>2. Pass(newc, n, Given(am9, bytes))
      BY <2>1
    <3> HIDE DEF newc
    <3>q. QED
      BY <1>1, <1>2, <3>1, <3>2, GivenKeeps, FlagsPass
  <2>q. QED
    BY <1>1, <1>4, <2>1, FlagsFails DEF TMDWrite
<1>5. CASE TMDFinish
  <2> DEFINE newc == [c EXCEPT !.buf = FALSE, !.state = "Content", !.start = ConStart, !.importing = @ \ {"tmd"}]
             newam9 == Finished(am9, "tmd", TMD)
  <2>1. CASE Pass(newc, 0, newam9)
    <3>1. DOMAIN newc = DOMAIN c /\ newc.importing = c.importing \ {"tmd"} /\ ~newc.invalidated
      BY <1>2 DEF Shape
    <3>2. DOMAIN newam9 = DOMAIN am9 /\ newam9.open = am9.open \ {"tmd"} /\ newam9.title = am9.title
      BY <1>2 DEF Shape, Finished
    <3> HIDE DEF newc, newam9
    <3>q. QED
      BY <1>1, <1>2, <2>1, <3>1, <3>2, FlagsPass
  <2>q. QED
    BY <1>1, <1>5, <2>1, FlagsFails DEF TMDFinish
<1>q. QED
  BY <1>3, <1>4, <1>5

\* So does the pass that begins a content or commits the title.
LEMMA FlagsSetup ==
  ASSUME FlagsInv, ContentSetup
  PROVE  FlagsInv'
<1>1. call = "write"
  BY DEF ContentSetup, Running
<1>2. Shape /\ ~c.invalidated /\ am9.title \notin {"cancelled", "finished"} /\ c.importing = am9.open
  BY <1>1, FlagsWriting
<1>3. ASSUME NEW b, NEW i, NEW ctx, NEW next, NEW start, NEW end, NEW n,
             Pass([[c EXCEPT !.batch = b, !.inBatch = i] EXCEPT !.cindex = next, !.importing = @ \union {"content"},
                                                              !.start = start, !.end = end],
                  n, Begun([am9 EXCEPT !.contexts = ctx], "content"))
      PROVE  FlagsInv'
  <2> DEFINE newc == [[c EXCEPT !.batch = b, !.inBatch = i] EXCEPT !.cindex = next, !.importing = @ \union {"content"},
                                                              !.start = start, !.end = end]
             newam9 == Begun([am9 EXCEPT !.contexts = ctx], "content")
  <2>1. DOMAIN newc = DOMAIN c /\ newc.importing = c.importing \union {"content"} /\ ~newc.invalidated
    BY <1>2 DEF Shape
  <2>2. DOMAIN newam9 = DOMAIN am9 /\ newam9.open = am9.open \union {"content"} /\ newam9.title = am9.title
    BY <1>2 DEF Shape, Begun
  <2>3. Pass(newc, n, newam9)
    BY <1>3
  <2> HIDE DEF newc, newam9
  <2>q. QED
    BY <1>1, <1>2, <2>1, <2>2, <2>3, FlagsPass
<1>4. ASSUME NEW b, NEW i, NEW ctx, NEW next, NEW st, NEW n,
             Pass([[c EXCEPT !.batch = b, !.inBatch = i] EXCEPT !.cindex = next, !.state = st],
                  n, [am9 EXCEPT !.contexts = ctx])
      PROVE  FlagsInv'
  <2> DEFINE newc == [[c EXCEPT !.batch = b, !.inBatch = i] EXCEPT !.cindex = next, !.state = st]
             newam9 == [am9 EXCEPT !.contexts = ctx]
  <2>1. DOMAIN newc = DOMAIN c /\ newc.importing = c.importing /\ ~newc.invalidated
    BY <1>2 DEF Shape
  <2>2. DOMAIN newam9 = DOMAIN am9 /\ newam9.open = am9.open /\ newam9.title = am9.title
    BY <1>2 DEF Shape
  <2>3. Pass(newc, n, newam9)
    BY <1>4
  <2> HIDE DEF newc, newam9
  <2>q. QED
    BY <1>1, <1>2, <2>1, <2>2, <2>3, FlagsPass
<1>5. ASSUME NEW more, ErrExit(c.importing \union more, am9.open \union more) \/ ErrExit(c.importing \ more, am9.open \ more)
      PROVE  FlagsInv'
  BY <1>2, <1>5, FlagsErr
<1>q. QED
  BY <1>1, <1>3, <1>4, <1>5, FlagsFails DEF ContentSetup

\* So does the pass that writes a content.
LEMMA FlagsWrite ==
  ASSUME FlagsInv, ContentWrite
  PROVE  FlagsInv'
<1>1. call = "write"
  BY DEF ContentWrite, Running
<1>2. Shape /\ ~c.invalidated /\ am9.title \notin {"cancelled", "finished"} /\ c.importing = am9.open
  BY <1>1, FlagsWriting
<1>3. ASSUME NEW m, NEW bytes, NEW n,
             Pass(ContentDone([c EXCEPT !.misalign = m]), n, Finished(Given(am9, bytes), "content", c.cindex))
      PROVE  FlagsInv'
  <2> DEFINE newc == ContentDone([c EXCEPT !.misalign = m])
             newam9 == Finished(Given(am9, bytes), "content", c.cindex)
  <2>1. DOMAIN newc = DOMAIN c /\ newc.importing = c.importing \ {"content"} /\ ~newc.invalidated
    BY <1>2 DEF Shape, ContentDone
  <2>2. DOMAIN newam9 = DOMAIN am9 /\ newam9.open = am9.open \ {"content"} /\ newam9.title = am9.title
    BY <1>2 DEF Shape, Given, Finished
  <2>3. Pass(newc, n, newam9)
    BY <1>3
  <2> HIDE DEF newc, newam9
  <2>q. QED
    BY <1>1, <1>2, <2>1, <2>2, <2>3, FlagsPass
<1>4. ASSUME NEW m, NEW bytes, NEW n, Pass([c EXCEPT !.misalign = m], n, Given(am9, bytes))
      PROVE  FlagsInv'
  <2> DEFINE newc == [c EXCEPT !.misalign = m]
  <2>1. DOMAIN newc = DOMAIN c /\ newc.importing = c.importing /\ newc.invalidated = c.invalidated
    BY <1>2 DEF Shape
  <2>2. Pass(newc, n, Given(am9, bytes))
    BY <1>4
  <2> HIDE DEF newc
  <2>q. QED
    BY <1>1, <1>2, <2>1, <2>2, GivenKeeps, FlagsPass
<1>q. QED
  BY <1>1, <1>3, <1>4, FlagsFails DEF ContentWrite

\* So do the steps that call no import of AM9.
LEMMA FlagsRest ==
  ASSUME FlagsInv,
         \/ \E n \in 1..MaxChunk : WriteCall(n)
         \/ WriteReturn \/ ContentSkip \/ Finalize \/ CancelInstall \/ FinishInstall
         \/ UNCHANGED vars
  PROVE  FlagsInv'
<1>1. Shape /\ (~Live => call = "none") /\ (~Ended => c.importing = am9.open)
  BY DEF FlagsInv, NoLateWrite, FlagsMatchAM9
<1>2. ASSUME NEW n \in 1..MaxChunk, WriteCall(n) PROVE FlagsInv'
  BY <1>1, <1>2 DEF WriteCall, FlagsInv, Shape, NoLateWrite, Live, Ended, FlagsMatchAM9
<1>3. CASE WriteReturn
  BY <1>1, <1>3 DEF WriteReturn, FlagsInv, Shape, NoLateWrite, Live, Ended, FlagsMatchAM9
<1>4. CASE ContentSkip
  BY <1>4, FlagsSkip DEF ContentSkip, Running
<1>5. CASE Finalize
  <2>1. CASE Skip(FileEnd)
    BY <1>5, <2>1, FlagsSkip DEF Finalize, Running
  <2>2. ASSUME NEW o, c' = [c EXCEPT !.offset = o], call' = "none", am9' = am9
        PROVE  FlagsInv'
    <3>1. Shape' /\ c'.invalidated = c.invalidated /\ c'.importing = c.importing
      BY <1>1, <2>2 DEF Shape
    <3>q. QED
      BY <1>1, <2>2, <3>1 DEF FlagsInv, NoLateWrite, Ended, FlagsMatchAM9
  <2>q. QED
    BY <1>5, <2>1, <2>2 DEF Finalize
<1>6. CASE CancelInstall
  <2>1. Shape' /\ am9'.title = "cancelled" /\ call' = "none"
    BY <1>1, <1>6 DEF CancelInstall, Shape
  <2>q. QED
    BY <2>1 DEF FlagsInv, NoLateWrite, Ended, FlagsMatchAM9
<1>7. CASE FinishInstall
  <2>1. Shape' /\ am9'.title = "finished" /\ call' = "none"
    BY <1>1, <1>7 DEF FinishInstall, Shape
  <2>q. QED
    BY <2>1 DEF FlagsInv, NoLateWrite, Ended, FlagsMatchAM9
<1>8. CASE UNCHANGED vars
  BY <1>1, <1>8 DEF vars, FlagsInv, Shape, NoLateWrite, Live, Ended, FlagsMatchAM9
<1>q. QED
  BY <1>2, <1>3, <1>4, <1>5, <1>6, <1>7, <1>8

\* Every step keeps the flags true.
LEMMA FlagsNext == ASSUME FlagsInv, [Next]_vars PROVE FlagsInv'
BY FlagsEarly, FlagsTicket, FlagsTMD, FlagsSetup, FlagsWrite, FlagsRest DEF Next, Step

\* The flags are true, and no install that has failed or ended is written to.
THEOREM FlagsInvariance == Spec => []FlagsInv
<1>1. Init => FlagsInv
  BY FlagsInit
<1>2. FlagsInv /\ [Next]_vars => FlagsInv'
  BY FlagsNext
<1>q. QED
  BY <1>1, <1>2, PTL DEF Spec

\* Whatever the client writes and whichever call fails, the importing flags of the
\* install say what is open in AM9, until it is cancelled or finished: a cancel
\* that goes by them leaves nothing open (pipe.c:7-669, ipc.c:1246-1275).
THEOREM FlagsAreTrue == Spec => []FlagsMatchAM9
<1>1. FlagsInv => FlagsMatchAM9
  BY DEF FlagsInv
<1>q. QED
  BY <1>1, FlagsInvariance, PTL

-----------------------------------------------------------------------------
(* One pass *)

\* The state of an install that works on a chunk.
LEMMA Working ==
  ASSUME IInv, call = "write"
  PROVE  /\ Going /\ InstalledSoFar /\ ChunksFit /\ Layout /\ Contents /\ FlagsInv
         /\ c \in Datas /\ am9 \in AM9s /\ size \in Nat /\ fed \in Nat /\ cia \in CIAs
         /\ c.invalidated = FALSE /\ am9.title \in {"none", "open"} /\ c.importing = am9.open
<1>1. Live
  BY DEF IInv, FlagsInv, NoLateWrite
<1>2. Layout /\ Contents
  BY FileFacts DEF IInv, ITypeOK
<1>3. c.importing = am9.open
  BY <1>1 DEF IInv, FlagsInv, FlagsMatchAM9, Live
<1>4. c.invalidated \in BOOLEAN /\ am9.title \in {"none", "open", "cancelled", "finished"}
  BY DEF IInv, ITypeOK, Datas, AM9s
<1>5. c.invalidated = FALSE /\ am9.title \in {"none", "open"}
  BY <1>1, <1>4 DEF Live, Ended
<1>q. QED
  BY <1>1, <1>2, <1>3, <1>5 DEF IInv, ITypeOK

\* What does not change while the file stays.
LEMMA SameFileKeeps ==
  ASSUME SameFile, am9'.installed = am9.installed
  PROVE  /\ InstalledSoFar => InstalledSoFar'
         /\ fed' = fed => (ChunksFit => ChunksFit')
         /\ Objects' = Objects
<1>1. \A i : ConAt(i)' = ConAt(i)
  BY DEF SameFile, ConAt
<1>q. QED
  BY <1>1 DEF SameFile, InstalledSoFar, ChunksFit, Objects

\* A failed call ends the install.
LEMMA ErrKeeps ==
  ASSUME IInv, call = "write", FlagsInv', NEW importing \in SUBSET Parts, NEW open \in SUBSET Parts,
         ErrExit(importing, open)
  PROVE  IInv'
<1>1. /\ c' = [c EXCEPT !.buf = FALSE, !.invalidated = TRUE, !.importing = importing]
      /\ am9' = [am9 EXCEPT !.open = open] /\ size' = 0 /\ call' = "none" /\ cia' = cia /\ fed' = fed
  BY DEF ErrExit
<1>2. SameFile
  BY <1>1, FileFixed
<1>3. /\ InstalledSoFar /\ ChunksFit /\ cia \in CIAs /\ fed \in Nat
      /\ c \in Datas /\ am9 \in AM9s
  BY DEF IInv, ITypeOK
<1>4. c' \in Datas /\ c'.invalidated = TRUE
  BY <1>1, <1>3 DEF Datas
<1>5. am9' \in AM9s /\ am9'.installed = am9.installed
  BY <1>1, <1>3 DEF AM9s
<1>6. ITypeOK'
  BY <1>1, <1>3, <1>4, <1>5 DEF ITypeOK
<1>7. InstalledSoFar' /\ ChunksFit'
  BY <1>1, <1>2, <1>3, <1>5, SameFileKeeps
<1>8. ~Live' /\ EndedInOrder'
  BY <1>4 DEF Live, EndedInOrder, WritesAligned, ContentHasContext
<1>q. QED
  BY <1>6, <1>7, <1>8 DEF IInv

\* A call that fails with nothing begun before it.
LEMMA FailsKeeps == ASSUME IInv, call = "write", Fails PROVE IInv'
<1>1. c.importing \in SUBSET Parts /\ am9.open \in SUBSET Parts /\ FlagsInv
  BY DEF IInv, ITypeOK, Datas, AM9s
<1>2. FlagsInv'
  BY <1>1, FlagsFails
<1>q. QED
  BY <1>1, <1>2, ErrKeeps DEF Fails

\* A call that fails after some imports were begun.
LEMMA BeginKeeps ==
  ASSUME IInv, call = "write", NEW calls \in Seq(Parts), BeginFails(calls) PROVE IInv'
<1>1. c.importing \in SUBSET Parts /\ am9.open \in SUBSET Parts /\ FlagsInv
  BY DEF IInv, ITypeOK, Datas, AM9s
<1>2. FlagsInv'
  BY <1>1, FlagsBegin
<1>3. PICK n \in 0..Len(calls) : ErrExit(c.importing \union ToSet(SubSeq(calls, 1, n)), am9.open \union ToSet(SubSeq(calls, 1, n)))
  BY DEF BeginFails
<1>4. ToSet(SubSeq(calls, 1, n)) \subseteq Parts
  <2>1. n \in Int /\ \A i \in 1..n : calls[i] \in Parts
    BY LenProperties
  <2>2. SubSeq(calls, 1, n) \in Seq(Parts)
    BY <2>1, SubSeqProperties
  <2>q. QED
    BY <2>2 DEF ToSet
<1>q. QED
  BY <1>1, <1>2, <1>3, <1>4, ErrKeeps

\* A pass that goes on: what it changes, and what every such pass keeps.
Passed(newc, n, newam9) ==
  /\ SameFile /\ call' = "write" /\ fed' = fed /\ size' = size - n /\ am9' = newam9
  /\ c'.offset = c.offset + n /\ c'.state = newc.state /\ c'.buf = newc.buf /\ c'.misalign = newc.misalign
  /\ c'.tikHeader = newc.tikHeader /\ c'.tmdHeader = newc.tmdHeader /\ c'.importing = newc.importing
  /\ c'.cindex = newc.cindex /\ c'.imported = newc.imported /\ c'.batch = newc.batch
  /\ c'.inBatch = newc.inBatch /\ c'.start = newc.start /\ c'.end = newc.end /\ c'.invalidated = FALSE
KeptByPass == ITypeOK' /\ ChunksFit' /\ EndedInOrder' /\ Consumed'

\* A pass that consumes no more than the chunk keeps the types, what is consumed and the rest
\* that is the same for every pass.
LEMMA PassKeeps ==
  ASSUME IInv, call = "write",
         NEW newc \in Datas, NEW n \in Nat, n <= size, NEW newam9 \in AM9s, Pass(newc, n, newam9),
         newc.offset = c.offset, newc.invalidated = FALSE, newam9.title \in {"none", "open"},
         c.state = "Finalize" => newc.state = "Finalize"
  PROVE  Passed(newc, n, newam9) /\ KeptByPass
<1>1. /\ c' = [newc EXCEPT !.offset = @ + n] /\ size' = size - n /\ am9' = newam9
      /\ cia' = cia /\ call' = call /\ fed' = fed
  BY DEF Pass
<1>2. /\ Going /\ ChunksFit /\ c \in Datas /\ size \in Nat /\ fed \in Nat /\ cia \in CIAs
      /\ c.offset \in Nat /\ c.offset + n \in Nat
  <2>1. /\ Going /\ ChunksFit /\ c \in Datas /\ size \in Nat /\ fed \in Nat /\ cia \in CIAs
    BY Working, Zenon
  <2>2. c.offset \in Nat
    BY ONLY <2>1 DEF Datas
  <2>q. QED
    BY ONLY <2>1, <2>2, n \in Nat
<1>3. SameFile
  BY <1>1, FileFixed
<1>4. c' \in Datas
  BY <1>1, <1>2 DEF Datas
<1>5. Passed(newc, n, newam9)
  BY <1>1, <1>3 DEF Passed, Datas
<1>6. size - n \in Nat
  BY <1>2
<1>7. ITypeOK'
  BY <1>1, <1>2, <1>4, <1>6 DEF ITypeOK
<1>8. ChunksFit'
  BY <1>1, <1>2, <1>3 DEF ChunksFit, SameFile
<1>9. EndedInOrder'
  BY <1>5 DEF Passed, EndedInOrder, Live, Ended
<1>10. Consumed'
  <2>1. (c.state # "Finalize" => c.offset + size = fed) /\ fed <= FileEnd
    BY <1>2 DEF Going, Consumed
  <2>2. c'.offset + size' = c.offset + size
    BY <1>2, <1>5, <1>6 DEF Passed
  <2>q. QED
    BY <1>5, <2>1, <2>2 DEF Consumed, Passed, SameFile
<1>q. QED
  BY <1>5, <1>7, <1>8, <1>9, <1>10 DEF KeptByPass

-----------------------------------------------------------------------------
(* Up to the ticket, and the TMD header *)

\* A pass of these states: only the state, the header buffer and the offset change.
Moved(st, bf, n) == Pass([c EXCEPT !.state = st, !.buf = bf], n, am9)

\* Where such a pass may lead, and where the offset and the buffer then are.
Arrives(st, bf, off) ==
  /\ st \in States /\ bf \in BOOLEAN
  /\ c.state \in Early => st \in Early \union {"Ticket"} \/ (st = "TMD" /\ cia.tik = 0)
  /\ c.state = "TMDHeader" => st \in {"TMDHeader", "TMD"}
  /\ st = "Header" => off <= IdxStart /\ ~bf
  /\ st = "ContentIndex" => off <= IdxEnd /\ ~bf
  /\ st \in {"CertChainCopy", "CertChainInstall"} => off <= CrtEnd
  /\ st = "CertChainCopy" /\ cia.cert = 0 => ~bf
  /\ st = "TicketHeader" => off <= TikEnd /\ (cia.tik > 0 => off <= TikStart + cia.tikHdr)
  /\ st = "TicketHeader" /\ cia.tik = 0 => ~bf
  /\ st = "Ticket" => off = TikStart + cia.tikHdr /\ cia.tik > 0
  /\ st = "TMDHeader" => off <= TmdStart + cia.tmdHdr
  /\ st = "TMD" => off <= TmdEnd /\ (bf => off = TmdStart + cia.tmdHdr) /\ (cia.tik = 0 => ~bf)

\* A pass that moves as above keeps the invariant.
LEMMA EarlyKeeps ==
  ASSUME IInv, call = "write", c.state \in Early \union {"TMDHeader"}, FlagsInv',
         NEW st, NEW bf, NEW n \in Nat, n <= size, Moved(st, bf, n), Arrives(st, bf, c.offset + n)
  PROVE  IInv'
<1>1. /\ Going /\ InstalledSoFar /\ ChunksFit /\ Layout /\ Contents /\ FlagsInv
      /\ c \in Datas /\ am9 \in AM9s /\ size \in Nat /\ fed \in Nat /\ cia \in CIAs
      /\ c.invalidated = FALSE /\ am9.title \in {"none", "open"} /\ c.importing = am9.open
  BY Working
<1>2. st \in States /\ bf \in BOOLEAN
  BY DEF Arrives
<1> DEFINE newc == [c EXCEPT !.state = st, !.buf = bf]
<1>3. /\ newc \in Datas /\ newc.offset = c.offset /\ newc.state = st /\ newc.buf = bf /\ newc.misalign = c.misalign
      /\ newc.tikHeader = c.tikHeader /\ newc.tmdHeader = c.tmdHeader /\ newc.importing = c.importing
      /\ newc.cindex = c.cindex /\ newc.imported = c.imported /\ newc.batch = c.batch
      /\ newc.inBatch = c.inBatch /\ newc.start = c.start /\ newc.end = c.end /\ newc.invalidated = c.invalidated
  BY <1>1, <1>2 DEF Datas
<1>4. Pass(newc, n, am9)
  BY DEF Moved
<1> HIDE DEF newc
<1>5. c.state # "Finalize"
  BY DEF Early
<1>6. Passed(newc, n, am9) /\ KeptByPass
  BY <1>1, <1>3, <1>4, <1>5, PassKeeps
<1>7. /\ SameFile /\ am9' = am9 /\ c'.offset = c.offset + n /\ c'.state = st /\ c'.buf = bf
      /\ c'.misalign = c.misalign /\ c'.tikHeader = c.tikHeader /\ c'.tmdHeader = c.tmdHeader
      /\ c'.importing = c.importing /\ c'.cindex = c.cindex /\ c'.imported = c.imported
      /\ c'.batch = c.batch /\ c'.inBatch = c.inBatch
  BY <1>3, <1>6 DEF Passed
<1>8. InstalledSoFar' /\ Objects' = Objects
  BY <1>1, <1>7, SameFileKeeps
<1>9. st \in Early \union {"Ticket", "TMDHeader", "TMD"}
  BY DEF Arrives
<1>10. /\ ~c.tmdHeader /\ (c.state \in Early => ~c.tikHeader) /\ (c.state = "TMDHeader" => cia.tik > 0)
       /\ am9.open = {} /\ c.misalign = <<>>
  <2>1. ~c.tmdHeader /\ (c.state \in Early => ~c.tikHeader) /\ (c.state = "TMDHeader" => cia.tik > 0)
    BY <1>1 DEF Going, Buffered
  <2>2. am9.open = {}
    BY <1>1 DEF Going, Opened, Early
  <2>3. c.misalign = <<>>
    BY <1>1 DEF Going, Received, InContent, Early
  <2>q. QED
    BY <2>1, <2>2, <2>3
<1>11. Placed'
  <2>1. Layout /\ c.offset + n \in Nat
    BY <1>1 DEF Datas
  <2>2. st = "Ticket" => c.offset + n >= TikStart /\ c.offset + n <= TikEnd
    BY <2>1 DEF Arrives, Layout
  <2>q. QED
    BY <1>7, <1>9, <1>10, <2>2 DEF Placed, Arrives, SameFile, Early
<1>12. Buffered'
  BY <1>7, <1>9, <1>10 DEF Buffered, Arrives, SameFile, Early
<1>13. Opened'
  BY <1>7, <1>9, <1>10 DEF Opened, Arrives, Early
<1>14. Received'
  BY <1>7, <1>9, <1>10 DEF Received, InContent, Arrives, Early
<1>15. NextInFile'
  BY <1>7, <1>9 DEF NextInFile, Early
<1>16. InstalledAll'
  <2>1. CASE c.state \in Early
    <3>1. Objects = {}
      BY <1>1, <2>1 DEF Going, InstalledAll
    <3>2. st \in Early \union {"Ticket"} \/ (st = "TMD" /\ cia.tik = 0)
      BY <2>1 DEF Arrives
    <3>q. QED
      BY <1>7, <1>8, <3>1, <3>2 DEF InstalledAll, SameFile, Early
  <2>2. CASE c.state = "TMDHeader"
    <3>1. Objects = {Ticket} /\ cia.tik > 0 /\ cia.tik \in Nat
      BY <1>1, <1>10, <2>2 DEF Going, InstalledAll, Layout
    <3>2. st \in {"TMDHeader", "TMD"}
      BY <2>2 DEF Arrives
    <3>q. QED
      BY <1>7, <1>8, <3>1, <3>2 DEF InstalledAll, SameFile, Early
  <2>q. QED
    BY <2>1, <2>2
<1>17. Batched'
  BY <1>1, <1>5, <1>7, <1>9 DEF Going, Batched, SameFile, Early
<1>q. QED
  BY <1>6, <1>8, <1>11, <1>12, <1>13, <1>14, <1>15, <1>16, <1>17 DEF IInv, KeptByPass, Going

\* The offset after a copy of which the chunk has its part.
LEMMA CopyLength ==
  ASSUME NEW off \in Nat, NEW pad \in Nat, NEW end \in Nat, NEW n \in Nat, pad <= n, off + pad <= end
  PROVE  LET k == pad + Smaller(end - (off + pad), n - pad)
         IN  k \in Nat /\ k <= n /\ off + k <= end
BY DEF Smaller

\* Where the padding ends.
LEMMA PaddingFacts ==
  ASSUME c.offset \in Nat, NEW to \in Nat
  PROVE  /\ Padding(to) \in Nat
         /\ c.offset <= to => c.offset + Padding(to) = to
         /\ c.offset >= to => Padding(to) = 0 /\ c.offset + Padding(to) = c.offset
BY DEF Padding

\* A copy goes on in its state, or leaves it for the next with the buffer.
LEMMA CopyMoves ==
  ASSUME c \in Datas, size \in Nat, NEW pad \in Nat, NEW end \in Nat, NEW next \in States,
         pad <= size, c.offset + pad <= end, BasicCopy(pad, end, next)
  PROVE  \E n \in Nat : /\ n <= size /\ c.offset + n <= end
                        /\ \/ Moved(next, c.buf, n) /\ c.offset + n = end
                           \/ Moved(c.state, c.buf \/ c.state \notin {"Header", "ContentIndex"}, n)
<1>1. c.offset \in Nat /\ c.buf \in BOOLEAN /\ c.state \in States
  BY DEF Datas
<1>2. CASE c.offset + pad = end /\ Pass([c EXCEPT !.state = next], pad, am9)
  <2>1. [c EXCEPT !.state = next] = [c EXCEPT !.state = next, !.buf = c.buf]
    BY DEF Datas
  <2>2. Moved(next, c.buf, pad)
    BY <1>2, <2>1 DEF Moved
  <2>q. QED
    BY <1>2, <2>2
<1>3. CASE Pass([c EXCEPT !.buf = @ \/ c.state \notin {"Header", "ContentIndex"}],
                pad + Smaller(end - (c.offset + pad), size - pad), am9)
  <2> DEFINE bf == c.buf \/ c.state \notin {"Header", "ContentIndex"}
             n == pad + Smaller(end - (c.offset + pad), size - pad)
  <2>1. [c EXCEPT !.buf = bf] = [c EXCEPT !.state = c.state, !.buf = bf]
    BY DEF Datas
  <2>2. n \in Nat /\ n <= size /\ c.offset + n <= end
    BY <1>1, CopyLength
  <2>3. Pass([c EXCEPT !.buf = bf], n, am9)
    BY <1>3
  <2> HIDE DEF bf, n
  <2>4. Moved(c.state, bf, n)
    BY <2>1, <2>3 DEF Moved
  <2>q. QED
    BY <2>2, <2>4 DEF bf
<1>q. QED
  BY <1>2, <1>3 DEF BasicCopy

\* Padding that the chunk does not reach the end of.
LEMMA SkipMoves ==
  ASSUME c \in Datas, size \in Nat, NEW to \in Nat, Skip(to)
  PROVE  Moved(c.state, c.buf, size) /\ c.offset + size <= to
<1>1. c.offset \in Nat
  BY DEF Datas
<1>2. [c EXCEPT !.state = c.state, !.buf = c.buf] = c
  BY DEF Datas
<1>3. Moved(c.state, c.buf, size)
  BY <1>2 DEF Moved, Skip
<1>4. size < Padding(to)
  BY DEF Skip
<1>5. c.offset + size <= to
  BY <1>1, <1>4 DEF Padding
<1>q. QED
  BY <1>3, <1>5

\* The parts of the invariant that the early states use.
LEMMA EarlyFacts ==
  ASSUME IInv, call = "write"
  PROVE  /\ Layout /\ Placed /\ Buffered /\ FlagsInv
         /\ c \in Datas /\ size \in Nat /\ c.offset \in Nat /\ c.buf \in BOOLEAN
         /\ cia.cert \in Nat /\ cia.tik \in Nat /\ cia.tikHdr \in Nat /\ cia.tmdHdr \in Nat
         /\ IdxStart \in Nat /\ IdxEnd \in Nat /\ CrtStart \in Nat /\ CrtEnd \in Nat
         /\ TikStart \in Nat /\ TmdStart \in Nat
BY Working DEF Going, Layout, Datas

\* The header is copied.
LEMMA HeaderKeeps == ASSUME IInv, Header PROVE IInv'
<1>1. call = "write" /\ c.state = "Header" /\ size > 0 /\ BasicCopy(0, IdxStart, "ContentIndex")
  BY DEF Header, Running
<1>2. /\ Layout /\ Placed /\ Buffered /\ FlagsInv
      /\ c \in Datas /\ size \in Nat /\ c.offset \in Nat /\ c.buf \in BOOLEAN /\ IdxStart \in Nat
  BY <1>1, EarlyFacts
<1>3. FlagsInv'
  BY <1>2, FlagsEarly
<1>4. c.offset + 0 <= IdxStart /\ ~c.buf
  BY <1>1, <1>2 DEF Placed, Buffered
<1>5. PICK n \in Nat : /\ n <= size /\ c.offset + n <= IdxStart
                       /\ \/ Moved("ContentIndex", c.buf, n) /\ c.offset + n = IdxStart
                          \/ Moved(c.state, c.buf \/ c.state \notin {"Header", "ContentIndex"}, n)
  BY <1>1, <1>2, <1>4, CopyMoves DEF States, Early
<1>6. ASSUME Moved("ContentIndex", c.buf, n), c.offset + n = IdxStart PROVE IInv'
  <2>1. Arrives("ContentIndex", c.buf, c.offset + n)
    BY <1>1, <1>2, <1>4, <1>6 DEF Arrives, States, Early, Layout
  <2>q. QED
    BY <1>1, <1>3, <1>5, <1>6, <2>1, EarlyKeeps DEF Early
<1>7. ASSUME Moved(c.state, c.buf \/ c.state \notin {"Header", "ContentIndex"}, n) PROVE IInv'
  <2>1. (c.buf \/ c.state \notin {"Header", "ContentIndex"}) = FALSE
    BY <1>1, <1>4
  <2>2. Moved("Header", FALSE, n)
    BY <1>1, <1>7, <2>1
  <2>3. Arrives("Header", FALSE, c.offset + n)
    BY <1>1, <1>5 DEF Arrives, States, Early
  <2>q. QED
    BY <1>1, <1>3, <1>5, <2>2, <2>3, EarlyKeeps DEF Early
<1>q. QED
  BY <1>5, <1>6, <1>7

\* The content index is copied.
LEMMA ContentIndexKeeps == ASSUME IInv, ContentIndex PROVE IInv'
<1>1. call = "write" /\ c.state = "ContentIndex" /\ size > 0 /\ BasicCopy(0, IdxEnd, "CertChainCopy")
  BY DEF ContentIndex, Running
<1>2. /\ Layout /\ Placed /\ Buffered /\ FlagsInv
      /\ c \in Datas /\ size \in Nat /\ c.offset \in Nat /\ c.buf \in BOOLEAN /\ IdxEnd \in Nat
  BY <1>1, EarlyFacts
<1>3. FlagsInv'
  BY <1>2, FlagsEarly
<1>4. c.offset + 0 <= IdxEnd /\ ~c.buf
  BY <1>1, <1>2 DEF Placed, Buffered
<1>5. PICK n \in Nat : /\ n <= size /\ c.offset + n <= IdxEnd
                       /\ \/ Moved("CertChainCopy", c.buf, n) /\ c.offset + n = IdxEnd
                          \/ Moved(c.state, c.buf \/ c.state \notin {"Header", "ContentIndex"}, n)
  BY <1>1, <1>2, <1>4, CopyMoves DEF States, Early
<1>6. ASSUME Moved("CertChainCopy", c.buf, n), c.offset + n = IdxEnd PROVE IInv'
  <2>1. Arrives("CertChainCopy", c.buf, c.offset + n)
    BY <1>1, <1>2, <1>4, <1>6 DEF Arrives, States, Early, Layout
  <2>q. QED
    BY <1>1, <1>3, <1>5, <1>6, <2>1, EarlyKeeps DEF Early
<1>7. ASSUME Moved(c.state, c.buf \/ c.state \notin {"Header", "ContentIndex"}, n) PROVE IInv'
  <2>1. (c.buf \/ c.state \notin {"Header", "ContentIndex"}) = FALSE
    BY <1>1, <1>4
  <2>2. Moved("ContentIndex", FALSE, n)
    BY <1>1, <1>7, <2>1
  <2>3. Arrives("ContentIndex", FALSE, c.offset + n)
    BY <1>1, <1>5 DEF Arrives, States, Early
  <2>q. QED
    BY <1>1, <1>3, <1>5, <2>2, <2>3, EarlyKeeps DEF Early
<1>q. QED
  BY <1>5, <1>6, <1>7

\* The certificates are copied, or there are none.
LEMMA CertChainCopyKeeps == ASSUME IInv, CertChainCopy PROVE IInv'
<1>1. call = "write" /\ c.state = "CertChainCopy" /\ size > 0
  BY DEF CertChainCopy, Running
<1>2. /\ Layout /\ Placed /\ Buffered /\ FlagsInv
      /\ c \in Datas /\ size \in Nat /\ c.offset \in Nat /\ c.buf \in BOOLEAN
      /\ cia.cert \in Nat /\ CrtStart \in Nat /\ CrtEnd \in Nat
  BY <1>1, EarlyFacts
<1>3. FlagsInv'
  BY <1>2, FlagsEarly
<1>4. c.offset <= CrtEnd /\ (cia.cert = 0 => ~c.buf)
  BY <1>1, <1>2 DEF Placed, Buffered
<1>5. CASE cia.cert = 0 /\ Pass([c EXCEPT !.state = "TicketHeader"], 0, am9)
  <2>1. [c EXCEPT !.state = "TicketHeader"] = [c EXCEPT !.state = "TicketHeader", !.buf = c.buf]
    BY <1>2 DEF Datas
  <2>2. Moved("TicketHeader", c.buf, 0)
    BY <1>5, <2>1 DEF Moved
  <2>3. c.offset + 0 <= TikEnd /\ (cia.tik > 0 => c.offset + 0 <= TikStart + cia.tikHdr)
    BY <1>2, <1>4 DEF Layout
  <2>4. Arrives("TicketHeader", c.buf, c.offset + 0)
    BY <1>1, <1>2, <1>4, <1>5, <2>3 DEF Arrives, States, Early
  <2>5. 0 \in Nat /\ 0 <= size
    BY <1>2
  <2>q. QED
    BY <1>1, <1>3, <2>2, <2>4, <2>5, EarlyKeeps DEF Early
<1>6. CASE cia.cert > 0 /\ Skip(CrtStart)
  <2>1. Moved("CertChainCopy", c.buf, size) /\ c.offset + size <= CrtStart
    BY <1>1, <1>2, <1>6, SkipMoves
  <2>2. c.offset + size <= CrtEnd
    BY <1>2, <2>1 DEF Layout
  <2>3. Arrives("CertChainCopy", c.buf, c.offset + size)
    BY <1>1, <1>2, <1>6, <2>2 DEF Arrives, States, Early
  <2>q. QED
    BY <1>1, <1>2, <1>3, <2>1, <2>3, EarlyKeeps DEF Early
<1>7. CASE cia.cert > 0 /\ size >= Padding(CrtStart) /\ BasicCopy(Padding(CrtStart), CrtEnd, "CertChainInstall")
  <2>1. Padding(CrtStart) \in Nat /\ Padding(CrtStart) <= size /\ c.offset + Padding(CrtStart) <= CrtEnd
    BY <1>2, <1>4, <1>7, PaddingFacts DEF Layout
  <2>2. PICK n \in Nat : /\ n <= size /\ c.offset + n <= CrtEnd
                         /\ \/ Moved("CertChainInstall", c.buf, n) /\ c.offset + n = CrtEnd
                            \/ Moved(c.state, c.buf \/ c.state \notin {"Header", "ContentIndex"}, n)
    BY <1>1, <1>2, <1>7, <2>1, CopyMoves DEF States, Early
  <2>3. ASSUME NEW st \in {"CertChainInstall", "CertChainCopy"}, NEW bf \in BOOLEAN, Moved(st, bf, n) PROVE IInv'
    <3>1. Arrives(st, bf, c.offset + n)
      BY <1>1, <1>2, <1>7, <2>2 DEF Arrives, States, Early
    <3>q. QED
      BY <1>1, <1>3, <2>2, <2>3, <3>1, EarlyKeeps DEF Early
  <2>q. QED
    BY <1>1, <1>2, <2>2, <2>3
<1>8. CASE Fails
  BY <1>1, <1>8, FailsKeeps
<1>q. QED
  BY <1>5, <1>6, <1>7, <1>8 DEF CertChainCopy

\* The certificates are installed.
LEMMA CertChainInstallKeeps == ASSUME IInv, CertChainInstall PROVE IInv'
<1>1. call = "write" /\ c.state = "CertChainInstall" /\ size > 0
  BY DEF CertChainInstall, Running
<1>2. /\ Layout /\ Placed /\ FlagsInv /\ c \in Datas /\ size \in Nat /\ c.offset \in Nat
  BY <1>1, EarlyFacts
<1>3. FlagsInv'
  BY <1>2, FlagsEarly
<1>4. c.offset <= CrtEnd
  BY <1>1, <1>2 DEF Placed
<1>5. CASE Pass([c EXCEPT !.buf = FALSE, !.state = "TicketHeader"], 0, am9)
  <2>1. [c EXCEPT !.buf = FALSE, !.state = "TicketHeader"] = [c EXCEPT !.state = "TicketHeader", !.buf = FALSE]
    BY <1>2 DEF Datas
  <2>2. Moved("TicketHeader", FALSE, 0)
    BY <1>5, <2>1 DEF Moved
  <2>3. c.offset + 0 <= TikEnd /\ (cia.tik > 0 => c.offset + 0 <= TikStart + cia.tikHdr)
    BY <1>2, <1>4 DEF Layout
  <2>4. Arrives("TicketHeader", FALSE, c.offset + 0)
    BY <1>1, <1>2, <2>3 DEF Arrives, States, Early
  <2>5. 0 \in Nat /\ 0 <= size
    BY <1>2
  <2>q. QED
    BY <1>1, <1>3, <2>2, <2>4, <2>5, EarlyKeeps DEF Early
<1>6. CASE Fails
  BY <1>1, <1>6, FailsKeeps
<1>q. QED
  BY <1>5, <1>6 DEF CertChainInstall

\* The header of the ticket is copied, or there is no ticket.
LEMMA TicketHeaderKeeps == ASSUME IInv, TicketHeader PROVE IInv'
<1>1. call = "write" /\ c.state = "TicketHeader" /\ size > 0
  BY DEF TicketHeader, Running
<1>2. /\ Layout /\ Placed /\ Buffered /\ FlagsInv
      /\ c \in Datas /\ size \in Nat /\ c.offset \in Nat /\ c.buf \in BOOLEAN
      /\ cia.tik \in Nat /\ cia.tikHdr \in Nat /\ TikStart \in Nat
  BY <1>1, EarlyFacts
<1>3. FlagsInv'
  BY <1>2, FlagsEarly
<1>4. c.offset <= TikEnd /\ (cia.tik = 0 => ~c.buf) /\ (cia.tik > 0 => c.offset <= TikStart + cia.tikHdr)
  BY <1>1, <1>2 DEF Placed, Buffered
<1>5. CASE cia.tik = 0 /\ Pass([c EXCEPT !.state = "TMD"], 0, am9)
  <2>1. [c EXCEPT !.state = "TMD"] = [c EXCEPT !.state = "TMD", !.buf = c.buf]
    BY <1>2 DEF Datas
  <2>2. Moved("TMD", c.buf, 0)
    BY <1>5, <2>1 DEF Moved
  <2>3. c.offset + 0 <= TmdEnd
    BY <1>2, <1>4 DEF Layout
  <2>4. Arrives("TMD", c.buf, c.offset + 0)
    BY <1>1, <1>2, <1>4, <1>5, <2>3 DEF Arrives, States, Early
  <2>5. 0 \in Nat /\ 0 <= size
    BY <1>2
  <2>q. QED
    BY <1>1, <1>3, <2>2, <2>4, <2>5, EarlyKeeps DEF Early
<1> DEFINE end == TikStart + cia.tikHdr
<1>6. end \in Nat /\ (cia.tik > 0 => end <= TikEnd /\ TikStart <= end /\ c.offset <= end)
  BY <1>2, <1>4 DEF Layout
<1>7. CASE cia.tik > 0 /\ Skip(TikStart)
  <2>1. Moved("TicketHeader", c.buf, size) /\ c.offset + size <= TikStart
    BY <1>1, <1>2, <1>7, SkipMoves
  <2>2. c.offset + size <= TikEnd /\ c.offset + size <= TikStart + cia.tikHdr
    BY <1>2, <1>6, <1>7, <2>1 DEF Layout
  <2>3. Arrives("TicketHeader", c.buf, c.offset + size)
    BY <1>1, <1>2, <1>7, <2>2 DEF Arrives, States, Early
  <2>q. QED
    BY <1>1, <1>2, <1>3, <2>1, <2>3, EarlyKeeps DEF Early
<1>8. CASE cia.tik > 0 /\ size >= Padding(TikStart) /\ BasicCopy(Padding(TikStart), end, "Ticket")
  <2>1. Padding(TikStart) \in Nat /\ Padding(TikStart) <= size /\ c.offset + Padding(TikStart) <= end
    BY <1>2, <1>6, <1>8, PaddingFacts
  <2>2. PICK n \in Nat : /\ n <= size /\ c.offset + n <= end
                         /\ \/ Moved("Ticket", c.buf, n) /\ c.offset + n = end
                            \/ Moved(c.state, c.buf \/ c.state \notin {"Header", "ContentIndex"}, n)
    <3> HIDE DEF end
    <3>q. QED
      BY <1>1, <1>2, <1>6, <1>8, <2>1, CopyMoves DEF States, Early
  <2>3. c.offset + n <= TikEnd
    BY <1>2, <1>6, <1>8, <2>2 DEF Layout
  <2>4. ASSUME Moved("Ticket", c.buf, n), c.offset + n = end PROVE IInv'
    <3>1. Arrives("Ticket", c.buf, c.offset + n)
      BY <1>1, <1>2, <1>8, <2>4 DEF Arrives, States, Early
    <3>q. QED
      BY <1>1, <1>3, <2>2, <2>4, <3>1, EarlyKeeps DEF Early
  <2>5. ASSUME NEW bf \in BOOLEAN, Moved("TicketHeader", bf, n) PROVE IInv'
    <3>1. Arrives("TicketHeader", bf, c.offset + n)
      BY <1>1, <1>2, <1>8, <2>2, <2>3 DEF Arrives, States, Early
    <3>q. QED
      BY <1>1, <1>3, <2>2, <2>5, <3>1, EarlyKeeps DEF Early
  <2>q. QED
    BY <1>1, <1>2, <2>2, <2>4, <2>5
<1>9. CASE Fails
  BY <1>1, <1>9, FailsKeeps
<1>q. QED
  BY <1>5, <1>7, <1>8, <1>9 DEF TicketHeader

\* The header of the TMD is copied.
LEMMA TMDHeaderKeeps == ASSUME IInv, TMDHeader PROVE IInv'
<1>1. call = "write" /\ c.state = "TMDHeader" /\ size > 0
  BY DEF TMDHeader, Running
<1>2. /\ Layout /\ Placed /\ Buffered /\ FlagsInv
      /\ c \in Datas /\ size \in Nat /\ c.offset \in Nat /\ c.buf \in BOOLEAN
      /\ cia.tmdHdr \in Nat /\ TmdStart \in Nat
  BY <1>1, EarlyFacts
<1>3. FlagsInv'
  BY <1>2, FlagsEarly
<1> DEFINE end == TmdStart + cia.tmdHdr
<1>4. c.offset <= end /\ cia.tik > 0
  BY <1>1, <1>2 DEF Placed, Buffered
<1>5. end \in Nat /\ end <= TmdEnd /\ TmdStart <= end
  BY <1>2 DEF Layout
<1>6. CASE Skip(TmdStart)
  <2>1. Moved("TMDHeader", c.buf, size) /\ c.offset + size <= TmdStart
    BY <1>1, <1>2, <1>6, SkipMoves
  <2>2. c.offset + size <= end
    BY <1>2, <1>5, <2>1
  <2>3. Arrives("TMDHeader", c.buf, c.offset + size)
    BY <1>1, <1>2, <2>2 DEF Arrives, States, Early
  <2>q. QED
    BY <1>1, <1>2, <1>3, <2>1, <2>3, EarlyKeeps
<1>7. CASE size >= Padding(TmdStart) /\ BasicCopy(Padding(TmdStart), end, "TMD")
  <2>1. Padding(TmdStart) \in Nat /\ Padding(TmdStart) <= size /\ c.offset + Padding(TmdStart) <= end
    BY <1>2, <1>4, <1>5, <1>7, PaddingFacts
  <2>2. PICK n \in Nat : /\ n <= size /\ c.offset + n <= end
                         /\ \/ Moved("TMD", c.buf, n) /\ c.offset + n = end
                            \/ Moved(c.state, c.buf \/ c.state \notin {"Header", "ContentIndex"}, n)
    <3> HIDE DEF end
    <3>q. QED
      BY <1>1, <1>2, <1>5, <1>7, <2>1, CopyMoves DEF States, Early
  <2>4. ASSUME Moved("TMD", c.buf, n), c.offset + n = end PROVE IInv'
    <3>1. c.offset + n <= TmdEnd /\ cia.tik # 0
      BY <1>2, <1>4, <1>5, <2>4 DEF Layout
    <3>2. Arrives("TMD", c.buf, c.offset + n)
      BY <1>1, <1>2, <2>4, <3>1 DEF Arrives, States, Early
    <3>q. QED
      BY <1>1, <1>3, <2>2, <2>4, <3>2, EarlyKeeps
  <2>5. ASSUME NEW bf \in BOOLEAN, Moved("TMDHeader", bf, n) PROVE IInv'
    <3>1. Arrives("TMDHeader", bf, c.offset + n)
      BY <1>1, <1>2, <2>2 DEF Arrives, States, Early
    <3>q. QED
      BY <1>1, <1>3, <2>2, <2>5, <3>1, EarlyKeeps
  <2>q. QED
    BY <1>1, <1>2, <2>2, <2>4, <2>5
<1>8. CASE Fails
  BY <1>1, <1>8, FailsKeeps
<1>q. QED
  BY <1>6, <1>7, <1>8 DEF TMDHeader

-----------------------------------------------------------------------------
(* The ticket *)

\* AM9 has the bytes of a run, and is given those that follow.
LEMMA GivenRun ==
  ASSUME am9 \in AM9s, NEW bytes \in Seq(Int)
  PROVE  LET g == Given(am9, bytes)
         IN  /\ g \in AM9s /\ g.open = am9.open /\ g.recv = am9.recv \o bytes /\ g.installed = am9.installed
             /\ g.contexts = am9.contexts /\ g.title = am9.title
             /\ ~am9.ragged /\ Whole(Len(am9.recv)) => ~g.ragged
<1>1. am9.recv \in Seq(Int) /\ am9.ragged \in BOOLEAN
  BY DEF AM9s
<1>2. am9.recv \o bytes \in Seq(Int)
  BY <1>1, ConcatProperties
<1> DEFINE rag == am9.ragged \/ (bytes # <<>> /\ Len(am9.recv) % Block # 0)
           cat == am9.recv \o bytes
<1>3. rag \in BOOLEAN /\ (~am9.ragged /\ Whole(Len(am9.recv)) => ~rag)
  BY DEF Whole
<1>4. Given(am9, bytes) = [am9 EXCEPT !.recv = cat, !.ragged = rag]
  BY DEF Given
<1>5. cat \in Seq(Int) /\ cat = am9.recv \o bytes
  BY <1>2
<1> HIDE DEF rag, cat
<1>q. QED
  BY <1>3, <1>4, <1>5 DEF AM9s

\* AM9 begins an object and is given its first bytes.
LEMMA BegunRun ==
  ASSUME am9 \in AM9s, NEW what \in Parts, NEW bytes \in Seq(Int)
  PROVE  LET g == Given(Begun(am9, what), bytes)
         IN  /\ g \in AM9s /\ g.open = am9.open \union {what} /\ g.recv = bytes /\ g.installed = am9.installed
             /\ g.contexts = am9.contexts /\ g.title = am9.title /\ ~g.ragged
<1> DEFINE b == Begun(am9, what)
<1>1. b \in AM9s /\ b.open = am9.open \union {what} /\ b.recv = <<>> /\ b.installed = am9.installed
      /\ b.contexts = am9.contexts /\ b.title = am9.title /\ b.ragged = FALSE
  <2>1. <<>> \in Seq(Int)
    BY EmptySeq
  <2>q. QED
    BY <2>1 DEF Begun, AM9s
<1>2. <<>> \o bytes = bytes /\ Len(<<>>) = 0 /\ 0 % Block = 0
  BY ConcatEmptySeq, NoneWaits, BlockFacts DEF Whole
<1> HIDE DEF b
<1>3. Given(b, bytes) = [b EXCEPT !.recv = bytes, !.ragged = FALSE]
  BY <1>1, <1>2 DEF Given
<1>q. QED
  BY <1>1, <1>3 DEF AM9s, b

\* AM9 finishes an object: what it was given is what it installs.
LEMMA FinishedRun ==
  ASSUME NEW a \in AM9s, NEW what \in Parts, NEW object \in Int
  PROVE  LET g == Finished(a, what, object)
         IN  /\ g \in AM9s /\ g.open = a.open \ {what} /\ g.recv = <<>> /\ g.ragged = a.ragged
             /\ g.installed = a.installed \union {<<object, a.recv>>}
             /\ g.contexts = a.contexts /\ g.title = a.title
<1> DEFINE g == Finished(a, what, object)
           item == <<object, a.recv>>
<1>1. <<>> \in Seq(Int) /\ a.recv \in Seq(Int) /\ a.installed \in SUBSET (Int \X Seq(Int))
  BY EmptySeq DEF AM9s
<1>2. item \in Int \X Seq(Int)
  BY <1>1
<1>3. g = [a EXCEPT !.open = @ \ {what}, !.recv = <<>>, !.installed = @ \union {item}]
  BY DEF Finished
<1> HIDE DEF g, item
<1>4. /\ g \in AM9s /\ g.open = a.open \ {what} /\ g.recv = <<>> /\ g.ragged = a.ragged
      /\ g.installed = a.installed \union {item}
      /\ g.contexts = a.contexts /\ g.title = a.title
  BY <1>1, <1>2, <1>3 DEF AM9s
<1>q. QED
  BY <1>4 DEF g, item

\* An object is added to those that are installed.
LEMMA InstalledMore ==
  ASSUME InstalledSoFar, SameFile, NEW object, NEW bytes, am9'.installed = am9.installed \union {<<object, bytes>>},
         object \in {Ticket, TMD} \union Enabled,
         object = Ticket => bytes = Bytes(TikStart, TikEnd),
         object = TMD => bytes = Bytes(TmdStart, TmdEnd),
         object \in Enabled => bytes = Bytes(ConAt(object), ConAt(object) + cia.con[object])
  PROVE  InstalledSoFar' /\ Objects' = Objects \union {object}
<1>1. \A i : ConAt(i)' = ConAt(i)
  BY DEF SameFile, ConAt
<1>2. ASSUME NEW x \in am9'.installed
      PROVE  /\ x[1] \in {Ticket, TMD} \union Enabled
             /\ x[1] = Ticket => x[2] = Bytes(TikStart, TikEnd)
             /\ x[1] = TMD => x[2] = Bytes(TmdStart, TmdEnd)
             /\ x[1] \in Enabled => x[2] = Bytes(ConAt(x[1]), ConAt(x[1]) + cia.con[x[1]])
  <2>1. CASE x \in am9.installed
    BY <2>1 DEF InstalledSoFar
  <2>2. CASE x = <<object, bytes>>
    <3>1. x[1] = object /\ x[2] = bytes
      BY <2>2
    <3>q. QED
      BY <3>1
  <2>q. QED
    BY <2>1, <2>2
<1>3. InstalledSoFar'
  BY <1>1, <1>2 DEF InstalledSoFar, SameFile
<1>4. <<object, bytes>>[1] = object
  OBVIOUS
<1>q. QED
  BY <1>3, <1>4 DEF Objects

\* The import of the ticket begins with its header.
LEMMA TicketImportKeeps == ASSUME IInv, TicketImport PROVE IInv'
<1>1. call = "write" /\ c.state = "Ticket" /\ ~c.tikHeader
  BY DEF TicketImport, Running
<1>2. /\ Going /\ InstalledSoFar /\ ChunksFit /\ Layout /\ Contents /\ FlagsInv
      /\ c \in Datas /\ am9 \in AM9s /\ size \in Nat /\ fed \in Nat /\ cia \in CIAs
      /\ c.invalidated = FALSE /\ am9.title \in {"none", "open"} /\ c.importing = am9.open
  BY <1>1, Working
<1>3. FlagsInv'
  BY <1>2, FlagsTicket
<1>4. CASE BeginFails(<<"tik">>)
  <2>1. <<"tik">> \in Seq(Parts)
    BY DEF Parts
  <2>q. QED
    BY <1>1, <1>4, <2>1, BeginKeeps
<1> DEFINE newc == [c EXCEPT !.tikHeader = TRUE, !.importing = @ \union {"tik"}]
           bytes == Bytes(TikStart, TikStart + cia.tikHdr)
           newam9 == Given(Begun(am9, "tik"), bytes)
<1>5. CASE Pass(newc, 0, newam9)
  <2>1. /\ newc \in Datas /\ newc.offset = c.offset /\ newc.state = "Ticket" /\ newc.misalign = c.misalign
        /\ newc.tikHeader = TRUE /\ newc.tmdHeader = c.tmdHeader
        /\ newc.cindex = c.cindex /\ newc.imported = c.imported /\ newc.batch = c.batch
        /\ newc.inBatch = c.inBatch /\ newc.invalidated = FALSE
    BY <1>1, <1>2 DEF Datas, Parts
  <2>2. c.offset = TikStart + cia.tikHdr /\ c.offset <= TikEnd /\ c.offset >= TikStart /\ c.offset \in Nat
    BY <1>1, <1>2 DEF Going, Placed, Datas
  <2>3. bytes = Bytes(TikStart, c.offset) /\ bytes \in Seq(Int)
    BY <1>2, <2>2, BytesRun DEF Layout
  <2>4. /\ newam9 \in AM9s /\ newam9.open = am9.open \union {"tik"} /\ newam9.recv = bytes
        /\ newam9.installed = am9.installed /\ newam9.contexts = am9.contexts /\ newam9.title = am9.title
    BY <1>2, <2>3, BegunRun DEF Parts
  <2>5. Pass(newc, 0, newam9)
    BY <1>5
  <2> HIDE DEF newc, newam9, bytes
  <2>6. Passed(newc, 0, newam9) /\ KeptByPass
    <3>1. 0 \in Nat /\ 0 <= size
      BY <1>2
    <3>q. QED
      BY <1>1, <1>2, <2>1, <2>4, <2>5, <3>1, PassKeeps
  <2>7. /\ SameFile /\ c'.offset = c.offset /\ c'.state = "Ticket" /\ c'.misalign = c.misalign
        /\ c'.tikHeader = TRUE /\ c'.tmdHeader = c.tmdHeader
        /\ c'.cindex = c.cindex /\ c'.imported = c.imported /\ c'.batch = c.batch /\ c'.inBatch = c.inBatch
        /\ am9'.recv = Bytes(TikStart, c.offset) /\ am9'.installed = am9.installed
        /\ am9'.contexts = am9.contexts /\ am9'.open = am9.open \union {"tik"}
    BY <2>1, <2>2, <2>3, <2>4, <2>6 DEF Passed
  <2>8. InstalledSoFar' /\ Objects' = Objects
    BY <1>2, <2>7, SameFileKeeps
  <2>9. Placed'
    BY <2>2, <2>7 DEF Placed, SameFile
  <2>10. Buffered'
    BY <1>1, <1>2, <2>7 DEF Going, Buffered, SameFile, Early
  <2>11. Opened'
    BY <1>1, <1>2, <2>7 DEF Going, Opened
  <2>12. Received'
    BY <1>1, <1>2, <2>7 DEF Going, Received, InContent, SameFile
  <2>13. NextInFile'
    BY <2>7 DEF NextInFile
  <2>14. InstalledAll'
    BY <1>1, <1>2, <2>7, <2>8 DEF Going, InstalledAll, Early
  <2>15. Batched'
    BY <1>1, <1>2, <2>7 DEF Going, Batched, SameFile
  <2>q. QED
    BY <1>3, <2>6, <2>8, <2>9, <2>10, <2>11, <2>12, <2>13, <2>14, <2>15 DEF IInv, KeptByPass, Going
<1>q. QED
  BY <1>4, <1>5 DEF TicketImport

\* What is written of an object follows what AM9 has.
LEMMA WriteRun ==
  ASSUME am9 \in AM9s, NEW start \in Nat, NEW off \in Nat, NEW n \in Nat, start <= off, am9.recv = Bytes(start, off)
  PROVE  LET g == Given(am9, Bytes(off, off + n))
         IN  /\ g \in AM9s /\ g.open = am9.open /\ g.recv = Bytes(start, off + n) /\ g.installed = am9.installed
             /\ g.contexts = am9.contexts /\ g.title = am9.title
<1>1. PICK to \in Nat : to = off + n
  OBVIOUS
<1>2. off <= to
  BY <1>1
<1>3. Bytes(start, off) \o Bytes(off, to) = Bytes(start, to)
  BY ONLY <1>2, start <= off, BytesJoin
<1>4. Bytes(off, to) \in Seq(Int)
  BY BytesRun
<1>5. /\ Given(am9, Bytes(off, to)) \in AM9s /\ Given(am9, Bytes(off, to)).open = am9.open
      /\ Given(am9, Bytes(off, to)).recv = am9.recv \o Bytes(off, to)
      /\ Given(am9, Bytes(off, to)).installed = am9.installed
      /\ Given(am9, Bytes(off, to)).contexts = am9.contexts /\ Given(am9, Bytes(off, to)).title = am9.title
  BY <1>4, GivenRun
<1>q. QED
  BY <1>1, <1>3, <1>5

\* More of the ticket is written.
LEMMA TicketWriteKeeps == ASSUME IInv, TicketWrite PROVE IInv'
<1>1. call = "write" /\ c.state = "Ticket" /\ c.tikHeader /\ c.offset # TikEnd /\ size > 0
  BY DEF TicketWrite, Running
<1>2. /\ Going /\ InstalledSoFar /\ ChunksFit /\ Layout /\ Contents /\ FlagsInv
      /\ c \in Datas /\ am9 \in AM9s /\ size \in Nat /\ fed \in Nat /\ cia \in CIAs
      /\ c.invalidated = FALSE /\ am9.title \in {"none", "open"} /\ c.importing = am9.open
  BY <1>1, Working
<1>3. FlagsInv'
  BY <1>2, FlagsTicket
<1>4. PICK n : /\ n = Smaller(Smaller(TikEnd - c.offset, size), MaxWrite)
               /\ Fails \/ Pass(c, n, Given(am9, Bytes(c.offset, c.offset + n)))
  BY DEF TicketWrite
<1>5. CASE Fails
  BY <1>1, <1>5, FailsKeeps
<1>6. CASE Pass(c, n, Given(am9, Bytes(c.offset, c.offset + n)))
  <2>1. /\ c.offset <= TikEnd /\ c.offset >= TikStart /\ c.offset \in Nat /\ TikStart \in Nat /\ TikEnd \in Nat
        /\ am9.recv = Bytes(TikStart, c.offset)
    BY <1>1, <1>2 DEF Going, Placed, Received, Datas, Layout
  <2>2. n \in Nat /\ n <= size /\ c.offset + n <= TikEnd /\ c.offset + n \in Nat /\ c.offset + n >= TikStart
    <3>1. MaxWrite \in Nat
      BY SizesAssumption
    <3>q. QED
      BY <1>2, <1>4, <2>1, <3>1 DEF Smaller
  <2>3. PICK newam9 : newam9 = Given(am9, Bytes(c.offset, c.offset + n))
    OBVIOUS
  <2>4. /\ newam9 \in AM9s /\ newam9.open = am9.open /\ newam9.recv = Bytes(TikStart, c.offset + n)
        /\ newam9.installed = am9.installed /\ newam9.contexts = am9.contexts /\ newam9.title = am9.title
    BY <1>2, <2>1, <2>2, <2>3, WriteRun
  <2>5. Passed(c, n, newam9) /\ KeptByPass
    BY <1>1, <1>2, <1>6, <2>2, <2>3, <2>4, PassKeeps
  <2>6. /\ SameFile /\ c'.offset = c.offset + n /\ c'.state = "Ticket" /\ c'.misalign = c.misalign
        /\ c'.tikHeader /\ c'.tmdHeader = c.tmdHeader
        /\ c'.cindex = c.cindex /\ c'.imported = c.imported /\ c'.batch = c.batch /\ c'.inBatch = c.inBatch
        /\ am9'.recv = Bytes(TikStart, c.offset + n) /\ am9'.installed = am9.installed
        /\ am9'.contexts = am9.contexts /\ am9'.open = am9.open
    BY <1>1, <2>4, <2>5 DEF Passed
  <2>7. InstalledSoFar' /\ Objects' = Objects
    BY <1>2, <2>6, SameFileKeeps
  <2>8. Placed'
    BY <2>2, <2>6 DEF Placed, SameFile
  <2>9. Buffered'
    BY <1>1, <1>2, <2>6 DEF Going, Buffered, SameFile, Early
  <2>10. Opened'
    BY <1>1, <1>2, <2>6 DEF Going, Opened
  <2>11. Received'
    BY <1>1, <1>2, <2>6 DEF Going, Received, InContent, SameFile
  <2>12. NextInFile'
    BY <2>6 DEF NextInFile
  <2>13. InstalledAll'
    BY <1>1, <1>2, <2>6, <2>7 DEF Going, InstalledAll, Early
  <2>14. Batched'
    BY <1>1, <1>2, <2>6 DEF Going, Batched, SameFile
  <2>q. QED
    BY <1>3, <2>5, <2>7, <2>8, <2>9, <2>10, <2>11, <2>12, <2>13, <2>14 DEF IInv, KeptByPass, Going
<1>q. QED
  BY <1>4, <1>5, <1>6

\* The ticket is finished with all of its bytes.
LEMMA TicketFinishKeeps == ASSUME IInv, TicketFinish PROVE IInv'
<1>1. call = "write" /\ c.state = "Ticket" /\ c.tikHeader /\ c.offset = TikEnd
  BY DEF TicketFinish, Running
<1>2. /\ Going /\ InstalledSoFar /\ ChunksFit /\ Layout /\ Contents /\ FlagsInv
      /\ c \in Datas /\ am9 \in AM9s /\ size \in Nat /\ fed \in Nat /\ cia \in CIAs
      /\ c.invalidated = FALSE /\ am9.title \in {"none", "open"} /\ c.importing = am9.open
  BY <1>1, Working
<1>3. FlagsInv'
  BY <1>2, FlagsTicket
<1>4. CASE Fails
  BY <1>1, <1>4, FailsKeeps
<1> DEFINE newc == [c EXCEPT !.buf = FALSE, !.state = "TMDHeader", !.importing = @ \ {"tik"}]
           newam9 == Finished(am9, "tik", Ticket)
<1>5. CASE Pass(newc, 0, newam9)
  <2>1. /\ newc \in Datas /\ newc.offset = c.offset /\ newc.state = "TMDHeader" /\ newc.misalign = c.misalign
        /\ newc.tikHeader = c.tikHeader /\ newc.tmdHeader = c.tmdHeader
        /\ newc.cindex = c.cindex /\ newc.imported = c.imported /\ newc.batch = c.batch
        /\ newc.inBatch = c.inBatch /\ newc.invalidated = FALSE
    BY <1>1, <1>2 DEF Datas, Parts, States
  <2>2. /\ newam9 \in AM9s /\ newam9.open = am9.open \ {"tik"}
        /\ newam9.installed = am9.installed \union {<<Ticket, am9.recv>>}
        /\ newam9.contexts = am9.contexts /\ newam9.title = am9.title
    <3>1. Ticket \in Int /\ "tik" \in Parts
      BY DEF Ticket, Parts
    <3>q. QED
      BY <1>2, <3>1, FinishedRun, ZenonT(40)
  <2>3. Pass(newc, 0, newam9)
    BY <1>5
  <2> HIDE DEF newc, newam9
  <2>4. Passed(newc, 0, newam9) /\ KeptByPass
    <3>1. 0 \in Nat /\ 0 <= size
      BY <1>2
    <3>q. QED
      BY <1>1, <1>2, <2>1, <2>2, <2>3, <3>1, PassKeeps
  <2>5. c.offset + 0 = TikEnd /\ TikEnd <= TmdStart + cia.tmdHdr
    BY <1>1, <1>2 DEF Layout
  <2>6. /\ SameFile /\ c'.offset = TikEnd /\ c'.state = "TMDHeader" /\ c'.misalign = c.misalign
        /\ c'.tikHeader = c.tikHeader /\ c'.tmdHeader = c.tmdHeader
        /\ c'.cindex = c.cindex /\ c'.imported = c.imported /\ c'.batch = c.batch /\ c'.inBatch = c.inBatch
        /\ am9'.installed = am9.installed \union {<<Ticket, am9.recv>>}
        /\ am9'.contexts = am9.contexts /\ am9'.open = am9.open \ {"tik"}
    BY <2>1, <2>2, <2>4, <2>5 DEF Passed
  <2>7. InstalledSoFar' /\ Objects' = Objects \union {Ticket}
    <3>1. am9.recv = Bytes(TikStart, TikEnd)
      BY <1>1, <1>2 DEF Going, Received
    <3>2. Ticket # TMD /\ Ticket \notin Enabled
      BY <1>2 DEF Contents, Ticket, TMD
    <3>q. QED
      BY <1>2, <2>6, <3>1, <3>2, InstalledMore
  <2>8. Placed'
    BY <2>5, <2>6 DEF Placed, SameFile
  <2>9. Buffered'
    BY <1>1, <1>2, <2>6 DEF Going, Buffered, SameFile, Early
  <2>10. Opened'
    BY <1>1, <1>2, <2>6 DEF Going, Opened
  <2>11. Received'
    BY <1>1, <1>2, <2>6 DEF Going, Received, InContent, SameFile
  <2>12. NextInFile'
    BY <2>6 DEF NextInFile
  <2>13. InstalledAll'
    BY <1>1, <1>2, <2>6, <2>7 DEF Going, InstalledAll, Early
  <2>14. Batched'
    BY <1>1, <1>2, <2>6 DEF Going, Batched, SameFile
  <2>q. QED
    BY <1>3, <2>4, <2>7, <2>8, <2>9, <2>10, <2>11, <2>12, <2>13, <2>14 DEF IInv, KeptByPass, Going
<1>q. QED
  BY <1>4, <1>5 DEF TicketFinish

-----------------------------------------------------------------------------
(* The TMD *)

\* A step that touches neither the install's data nor AM9.
LEMMA CallKeeps ==
  ASSUME IInv, FlagsInv', cia' = cia, c' = c, am9' = am9, size' \in Nat, fed' \in Nat,
         call' \in {"none", "write", "fault"}, ChunksFit', Live => Consumed'
  PROVE  IInv'
<1>1. SameFile
  BY FileFixed
<1>2. ITypeOK'
  BY DEF IInv, ITypeOK
<1>3. InstalledSoFar' /\ Objects' = Objects
  BY <1>1, SameFileKeeps DEF IInv
<1>4. Live' = Live
  BY DEF Live, Ended
<1>5. EndedInOrder'
  BY <1>1, <1>4 DEF IInv, EndedInOrder, WritesAligned, ContentHasContext, SameFile
<1>6. ASSUME Live PROVE Going'
  <2>1. Going /\ Consumed'
    BY <1>6 DEF IInv
  <2>2. Placed' /\ Buffered' /\ Opened'
    BY <1>1, <2>1 DEF Going, Placed, Buffered, Opened, SameFile
  <2>3. Received'
    <3>1. \A i : ConAt(i)' = ConAt(i)
      BY DEF ConAt
    <3>q. QED
      BY <1>1, <2>1, <3>1 DEF Going, Received, InContent, SameFile
  <2>4. NextInFile'
    <3>1. \A i : ConAt(i)' = ConAt(i)
      BY DEF ConAt
    <3>q. QED
      BY <1>1, <2>1, <3>1 DEF Going, NextInFile, Between, InContent, SameFile, Padding
  <2>5. InstalledAll'
    BY <1>1, <1>3, <2>1 DEF Going, InstalledAll, SameFile
  <2>6. Batched'
    BY <1>1, <2>1 DEF Going, Batched, Past, InContent, SameFile
  <2>q. QED
    BY <2>1, <2>2, <2>3, <2>4, <2>5, <2>6 DEF Going
<1>q. QED
  BY <1>2, <1>3, <1>4, <1>5, <1>6 DEF IInv

\* The imports of title and TMD begin with the header of the TMD, if it was read.
LEMMA TMDImportKeeps == ASSUME IInv, TMDImport PROVE IInv'
<1>1. call = "write" /\ c.state = "TMD" /\ ~c.tmdHeader
  BY DEF TMDImport, Running
<1>2. /\ Going /\ InstalledSoFar /\ ChunksFit /\ Layout /\ Contents /\ FlagsInv
      /\ c \in Datas /\ am9 \in AM9s /\ size \in Nat /\ fed \in Nat /\ cia \in CIAs
      /\ c.invalidated = FALSE /\ am9.title \in {"none", "open"} /\ c.importing = am9.open
  BY <1>1, Working
<1>3. FlagsInv'
  BY <1>2, FlagsTMD
<1>4. CASE call' = "fault" /\ UNCHANGED <<cia, c, size, fed, am9>>
  <2>1. SameFile
    BY <1>4, FileFixed
  <2>2. ChunksFit' /\ Consumed'
    BY <1>2, <1>4, <2>1 DEF Going, ChunksFit, Consumed, SameFile
  <2>q. QED
    BY <1>2, <1>3, <1>4, <2>2, CallKeeps
<1>5. CASE BeginFails(<<"title", "tmd">>)
  <2>1. <<"title", "tmd">> \in Seq(Parts)
    BY DEF Parts
  <2>q. QED
    BY <1>1, <1>5, <2>1, BeginKeeps
<1> DEFINE newc == [c EXCEPT !.tmdHeader = TRUE, !.importing = @ \union {"title", "tmd"}]
           bytes == Bytes(TmdStart, TmdStart + cia.tmdHdr)
           title == Begun(am9, "title")
           given == Given(Begun(title, "tmd"), bytes)
           newam9 == [given EXCEPT !.title = "open"]
<1>6. CASE c.buf /\ Pass(newc, 0, newam9)
  <2>1. /\ newc \in Datas /\ newc.offset = c.offset /\ newc.state = "TMD" /\ newc.misalign = c.misalign
        /\ newc.tikHeader = c.tikHeader /\ newc.tmdHeader = TRUE
        /\ newc.cindex = c.cindex /\ newc.imported = c.imported /\ newc.batch = c.batch
        /\ newc.inBatch = c.inBatch /\ newc.invalidated = FALSE
    BY <1>1, <1>2 DEF Datas, Parts
  <2>2. /\ c.offset = TmdStart + cia.tmdHdr /\ c.offset <= TmdEnd /\ c.offset >= TmdStart /\ c.offset \in Nat
        /\ Whole(c.offset - TmdStart)
    <3>1. c.offset = TmdStart + cia.tmdHdr /\ c.offset <= TmdEnd /\ c.offset \in Nat
      BY <1>1, <1>2, <1>6 DEF Going, Placed, Datas
    <3>2. TmdStart \in Nat /\ cia.tmdHdr \in Nat /\ Whole(cia.tmdHdr)
      BY <1>2 DEF Layout
    <3>3. c.offset - TmdStart = cia.tmdHdr /\ c.offset >= TmdStart
      BY <3>1, <3>2
    <3>q. QED
      BY <3>1, <3>2, <3>3
  <2>3. bytes = Bytes(TmdStart, c.offset) /\ bytes \in Seq(Int)
    BY <1>2, <2>2, BytesRun DEF Layout
  <2>4. cia.tik > 0
    BY <1>1, <1>2, <1>6 DEF Going, Buffered, Layout
  <2>5. /\ title \in AM9s /\ title.open = am9.open \union {"title"} /\ title.installed = am9.installed
        /\ title.contexts = am9.contexts
    <3>1. <<>> \in Seq(Int)
      BY EmptySeq
    <3>q. QED
      BY <1>2, <3>1 DEF Begun, AM9s, Parts
  <2>6. /\ given \in AM9s /\ given.open = am9.open \union {"title", "tmd"} /\ given.recv = bytes
        /\ given.installed = am9.installed /\ given.contexts = am9.contexts /\ ~given.ragged
    <3> HIDE DEF title
    <3>1. PICK t : t = title
      OBVIOUS
    <3>2. t \in AM9s /\ t.open = am9.open \union {"title"} /\ t.installed = am9.installed /\ t.contexts = am9.contexts
      BY <2>5, <3>1
    <3>3. PICK b : b = Begun(t, "tmd")
      OBVIOUS
    <3>4. b \in AM9s /\ b.open = am9.open \union {"title", "tmd"} /\ b.recv = <<>> /\ b.ragged = FALSE
          /\ b.installed = am9.installed /\ b.contexts = am9.contexts
      <4>1. <<>> \in Seq(Int)
        BY EmptySeq
      <4>q. QED
        BY <3>2, <3>3, <4>1 DEF Begun, AM9s, Parts
    <3>5. <<>> \o bytes = bytes /\ Len(<<>>) = 0 /\ 0 % Block = 0
      BY <2>3, ConcatEmptySeq, NoneWaits, BlockFacts DEF Whole
    <3>6. Given(b, bytes) = [b EXCEPT !.recv = bytes, !.ragged = FALSE]
      BY <3>4, <3>5 DEF Given
    <3>7. given = [b EXCEPT !.recv = bytes, !.ragged = FALSE]
      BY <3>1, <3>3, <3>6
    <3> HIDE DEF given, bytes
    <3>q. QED
      BY <2>3, <3>4, <3>7 DEF AM9s
  <2>7. Pass(newc, 0, newam9)
    BY <1>6
  <2> HIDE DEF newc, bytes, title, given
  <2>8. /\ newam9 \in AM9s /\ newam9.open = am9.open \union {"title", "tmd"} /\ newam9.recv = bytes
        /\ newam9.installed = am9.installed /\ newam9.contexts = am9.contexts /\ ~newam9.ragged /\ newam9.title = "open"
    BY <2>6 DEF AM9s
  <2> HIDE DEF newam9
  <2>9. Passed(newc, 0, newam9) /\ KeptByPass
    <3>1. 0 \in Nat /\ 0 <= size
      BY <1>2
    <3>q. QED
      BY <1>1, <1>2, <2>1, <2>7, <2>8, <3>1, PassKeeps
  <2>10. /\ SameFile /\ c'.offset = c.offset /\ c'.state = "TMD" /\ c'.misalign = c.misalign
         /\ c'.tikHeader = c.tikHeader /\ c'.tmdHeader
         /\ c'.cindex = c.cindex /\ c'.imported = c.imported /\ c'.batch = c.batch /\ c'.inBatch = c.inBatch
         /\ am9'.recv = Bytes(TmdStart, c.offset) /\ ~am9'.ragged /\ am9'.installed = am9.installed
         /\ am9'.contexts = am9.contexts /\ am9'.open = am9.open \union {"title", "tmd"}
    BY <2>1, <2>2, <2>3, <2>8, <2>9 DEF Passed
  <2>11. InstalledSoFar' /\ Objects' = Objects
    BY <1>2, <2>10, SameFileKeeps
  <2>12. Placed'
    BY <2>2, <2>10 DEF Placed, SameFile
  <2>13. Buffered'
    BY <1>1, <1>2, <2>4, <2>10 DEF Going, Buffered, SameFile, Early
  <2>14. Opened'
    BY <1>1, <1>2, <2>10 DEF Going, Opened
  <2>15. Received'
    BY <1>1, <1>2, <2>2, <2>10 DEF Going, Received, InContent, SameFile
  <2>16. NextInFile'
    BY <2>10 DEF NextInFile
  <2>17. InstalledAll'
    BY <1>1, <1>2, <2>10, <2>11 DEF Going, InstalledAll, Early, SameFile
  <2>18. Batched'
    BY <1>1, <1>2, <2>10 DEF Going, Batched, SameFile
  <2>q. QED
    BY <1>3, <2>9, <2>11, <2>12, <2>13, <2>14, <2>15, <2>16, <2>17, <2>18 DEF IInv, KeptByPass, Going
<1>q. QED
  BY <1>4, <1>5, <1>6 DEF TMDImport

\* The TMD is finished with all of its bytes, and the contents start.
LEMMA TMDFinishKeeps == ASSUME IInv, TMDFinish PROVE IInv'
<1>1. call = "write" /\ c.state = "TMD" /\ c.tmdHeader /\ c.offset = TmdEnd
  BY DEF TMDFinish, Running
<1>2. /\ Going /\ InstalledSoFar /\ ChunksFit /\ Layout /\ Contents /\ FlagsInv
      /\ c \in Datas /\ am9 \in AM9s /\ size \in Nat /\ fed \in Nat /\ cia \in CIAs
      /\ c.invalidated = FALSE /\ am9.title \in {"none", "open"} /\ c.importing = am9.open
  BY <1>1, Working
<1>3. FlagsInv'
  BY <1>2, FlagsTMD
<1>4. CASE Fails
  BY <1>1, <1>4, FailsKeeps
<1> DEFINE newc == [c EXCEPT !.buf = FALSE, !.state = "Content", !.start = ConStart, !.importing = @ \ {"tmd"}]
           newam9 == Finished(am9, "tmd", TMD)
<1>5. CASE Pass(newc, 0, newam9)
  <2>0. ConStart \in Nat /\ TmdEnd \in Nat /\ TmdEnd <= ConStart /\ RoundUp(ConStart) = ConStart
    BY <1>2 DEF Layout
  <2>1. /\ newc \in Datas /\ newc.offset = c.offset /\ newc.state = "Content" /\ newc.misalign = c.misalign
        /\ newc.start = ConStart /\ newc.importing = c.importing \ {"tmd"}
        /\ newc.cindex = c.cindex /\ newc.imported = c.imported /\ newc.batch = c.batch
        /\ newc.inBatch = c.inBatch /\ newc.invalidated = FALSE
    BY <1>1, <1>2, <2>0 DEF Datas, Parts, States
  <2>2. /\ newam9 \in AM9s /\ newam9.open = am9.open \ {"tmd"}
        /\ newam9.installed = am9.installed \union {<<TMD, am9.recv>>}
        /\ newam9.contexts = am9.contexts /\ newam9.title = am9.title
    <3>1. TMD \in Int /\ "tmd" \in Parts
      BY DEF TMD, Parts
    <3>q. QED
      BY <1>2, <3>1, FinishedRun, ZenonT(40)
  <2>3. Pass(newc, 0, newam9)
    BY <1>5
  <2> HIDE DEF newc, newam9
  <2>4. Passed(newc, 0, newam9) /\ KeptByPass
    <3>1. 0 \in Nat /\ 0 <= size
      BY <1>2
    <3>q. QED
      BY <1>1, <1>2, <2>1, <2>2, <2>3, <3>1, PassKeeps
  <2>5. c.offset + 0 = TmdEnd /\ am9.open = {"title", "tmd"} /\ c.misalign = <<>> /\ cia.tik > 0
        /\ c.cindex = 0 /\ c.imported = 0 /\ c.batch = 0 /\ c.inBatch = 0 /\ am9.contexts = {}
    <3>1. c.offset + 0 = TmdEnd
      BY <1>1, <2>0
    <3>2. am9.open = {"title", "tmd"}
      BY <1>1, <1>2 DEF Going, Opened
    <3>3. c.misalign = <<>> /\ cia.tik > 0
      BY <1>1, <1>2 DEF Going, Received, InContent, Buffered
    <3>4. c.cindex = 0 /\ c.imported = 0 /\ c.batch = 0 /\ c.inBatch = 0 /\ am9.contexts = {}
      BY <1>1, <1>2 DEF Going, Batched
    <3>q. QED
      BY <3>1, <3>2, <3>3, <3>4
  <2>6. /\ SameFile /\ c'.offset = TmdEnd /\ c'.state = "Content" /\ c'.misalign = <<>> /\ c'.start = ConStart
        /\ c'.importing = {"title"}
        /\ c'.cindex = 0 /\ c'.imported = 0 /\ c'.batch = 0 /\ c'.inBatch = 0
        /\ am9'.installed = am9.installed \union {<<TMD, am9.recv>>}
        /\ am9'.contexts = {} /\ am9'.open = {"title"}
    BY <1>2, <2>1, <2>2, <2>4, <2>5 DEF Passed
  <2>7. InstalledSoFar' /\ Objects' = Objects \union {TMD}
    <3>1. am9.recv = Bytes(TmdStart, TmdEnd)
      BY <1>1, <1>2 DEF Going, Received
    <3>2. TMD # Ticket /\ TMD \notin Enabled
      BY <1>2 DEF Contents, Ticket, TMD
    <3>q. QED
      BY <1>2, <2>6, <3>1, <3>2, InstalledMore
  <2>8. Placed'
    BY <2>6 DEF Placed
  <2>9. Buffered'
    BY <2>6 DEF Buffered, Early
  <2>10. Opened'
    BY <2>6 DEF Opened
  <2>11. Received'
    BY <2>6 DEF Received, InContent
  <2>12. NextInFile'
    <3>1. c'.offset + Padding(ConStart)' = ConStart
      BY <2>0, <2>6 DEF Padding, SameFile
    <3>2. \A i : ConAt(i)' = ConAt(i)
      BY <2>6 DEF ConAt, SameFile
    <3>3. ASSUME NEW j \in Enabled \union {cia.n}, Between(j)' PROVE ConAt(j) = ConStart
      <4>1. \A k \in Enabled : k >= j
        BY <1>2, <2>6, <3>3 DEF Between, SameFile, Contents
      <4>q. QED
        BY <1>2, <4>1 DEF Contents
    <3>4. c'.offset + Padding(c.start)' = ConStart
      BY <2>0, <2>6 DEF Padding, SameFile
    <3>q. QED
      BY <2>0, <2>6, <3>2, <3>3, <3>4 DEF NextInFile, SameFile
  <2>13. InstalledAll'
    <3>1. Objects = {Ticket}
      BY <1>1, <1>2, <2>5 DEF Going, InstalledAll
    <3>2. {i \in Enabled : i < 0} = {}
      <4>1. \A i \in Enabled : i >= 0
        BY <1>2 DEF Contents, Layout
      <4>2. \A i \in Enabled : i \in Int
        BY <1>2 DEF Contents, Layout
      <4>q. QED
        BY <4>1, <4>2
    <3>q. QED
      BY <2>6, <2>7, <3>1, <3>2 DEF InstalledAll, SameFile, Early
  <2>14. Batched'
    BY <2>6 DEF Batched, InContent, SameFile
  <2>q. QED
    BY <1>3, <2>4, <2>7, <2>8, <2>9, <2>10, <2>11, <2>12, <2>13, <2>14 DEF IInv, KeptByPass, Going
<1>q. QED
  BY <1>4, <1>5 DEF TMDFinish

\* A chunk of the TMD has whole blocks, or the rest of it.
LEMMA TMDWriteKeeps == ASSUME IInv, TMDWrite, ~AnyTMDChunk PROVE IInv'
<1>1. call = "write" /\ c.state = "TMD" /\ c.tmdHeader /\ c.offset # TmdEnd /\ size > 0
  BY DEF TMDWrite, Running
<1>2. /\ Going /\ InstalledSoFar /\ ChunksFit /\ Layout /\ Contents /\ FlagsInv
      /\ c \in Datas /\ am9 \in AM9s /\ size \in Nat /\ fed \in Nat /\ cia \in CIAs
      /\ c.invalidated = FALSE /\ am9.title \in {"none", "open"} /\ c.importing = am9.open
  BY <1>1, Working
<1>3. FlagsInv'
  BY <1>2, FlagsTMD
<1>4. PICK b : /\ b = Blocks(c.misalign, c.offset, size, TmdEnd, MaxWrite, FALSE)
               /\ Fails \/ Pass([c EXCEPT !.misalign = b.mis], b.used, Given(am9, b.out))
  BY DEF TMDWrite
<1>5. CASE Fails
  BY <1>1, <1>5, FailsKeeps
<1>6. CASE Pass([c EXCEPT !.misalign = b.mis], b.used, Given(am9, b.out))
  <2>1. /\ c.offset <= TmdEnd /\ c.offset >= TmdStart /\ c.offset \in Nat /\ TmdStart \in Nat /\ TmdEnd \in Nat
        /\ TmdEnd < U32 /\ am9.recv = Bytes(TmdStart, c.offset) /\ am9.recv \in Seq(Int)
        /\ ~am9.ragged /\ Whole(c.offset - TmdStart) /\ c.misalign = <<>> /\ c.offset + size = fed
    <3>1. c.offset <= TmdEnd /\ c.offset >= TmdStart /\ c.offset \in Nat
      BY <1>1, <1>2 DEF Going, Placed, Datas
    <3>2. am9.recv = Bytes(TmdStart, c.offset) /\ am9.recv \in Seq(Int) /\ ~am9.ragged /\ Whole(c.offset - TmdStart) /\ c.misalign = <<>>
      BY <1>1, <1>2 DEF Going, Received, InContent, AM9s
    <3>3. TmdStart \in Nat /\ TmdEnd \in Nat /\ TmdEnd < U32
      <4>1. /\ TmdStart \in Nat /\ TmdEnd \in Nat /\ ConStart \in Nat /\ FileEnd \in Nat /\ U32 \in Nat
            /\ TmdEnd <= ConStart /\ ConStart <= FileEnd /\ FileEnd < U32
        BY <1>2 DEF Layout, U32
      <4>q. QED
        BY <4>1
    <3>4. c.offset + size = fed
      BY <1>1, <1>2 DEF Going, Consumed
    <3>q. QED
      BY <3>1, <3>2, <3>3, <3>4
  <2>2. Run(am9.recv, <<>>, TmdStart, c.offset)
    BY <2>1, NoneWaits
  <2>3. Len(am9.recv) \in Nat /\ Len(am9.recv) = c.offset - TmdStart /\ Whole(Len(am9.recv))
    <3>1. Len(Bytes(TmdStart, c.offset)) = c.offset - TmdStart
      BY <2>1, BytesRun
    <3>2. c.offset - TmdStart \in Nat
      BY <2>1
    <3>3. Len(am9.recv) = c.offset - TmdStart
      BY ONLY <2>1, <3>1
    <3>q. QED
      BY <2>1, <3>2, <3>3
  <2>4. Whole(size) \/ size >= TmdEnd - c.offset
    <3>1. ASSUME size < TmdEnd - c.offset PROVE Whole(size)
      <4>1. fed \in TmdStart..(TmdEnd - 1)
        BY <1>2, <2>1, <3>1
      <4>2. Whole(fed - TmdStart)
        BY <1>2, <4>1 DEF ChunksFit
      <4>3. /\ fed - TmdStart \in Nat /\ c.offset - TmdStart \in Nat /\ c.offset - TmdStart <= fed - TmdStart
            /\ (fed - TmdStart) - (c.offset - TmdStart) = size
        <5>1. PICK o : o = c.offset
          OBVIOUS
        <5>2. o \in Nat /\ o + size = fed /\ o >= TmdStart /\ size \in Nat /\ fed \in Nat /\ TmdStart \in Nat
          BY ONLY <1>2, <2>1, <5>1
        <5>q. QED
          BY ONLY <5>1, <5>2
      <4>4. Whole((fed - TmdStart) - (c.offset - TmdStart))
        BY <2>1, <4>2, <4>3, WholeSum
      <4>q. QED
        BY <4>3, <4>4
    <3>q. QED
      BY <1>2, <2>1, <3>1
  <2>5. Exact(b, am9.recv, TmdStart, c.offset, size, TmdEnd) /\ b.mis = <<>>
    <3>1. b = Blocks(<<>>, c.offset, size, TmdEnd, MaxWrite, FALSE)
      BY <1>4, <2>1
    <3>2. c.offset < TmdEnd
      BY <1>1, <2>1
    <3>q. QED
      BY ONLY <1>1, <1>2, <2>1, <2>2, <2>3, <2>4, <3>1, <3>2, TMDPass
  <2>6. PICK to : to = c.offset + b.used
    OBVIOUS
  <2>7. /\ b.out \in Seq(Int) /\ b.used \in Nat /\ b.used <= size /\ to <= TmdEnd /\ to \in Nat /\ TmdStart <= to
        /\ am9.recv \o b.out = Bytes(TmdStart, to)
        /\ to # TmdEnd => Whole(to - TmdStart)
    <3>1. /\ b.out \in Seq(Int) /\ b.used \in Nat /\ b.used <= size /\ to <= TmdEnd
          /\ am9.recv \o b.out \in Seq(Int) /\ Run(am9.recv \o b.out, <<>>, TmdStart, to)
          /\ to # TmdEnd => Whole(Len(am9.recv \o b.out))
      BY ONLY <2>5, <2>6 DEF Exact
    <3>2. to \in Nat /\ TmdStart <= to
      BY ONLY <2>1, <2>6, <3>1
    <3>3. am9.recv \o b.out = Bytes(TmdStart, to)
      <4>1. PICK r : r = am9.recv \o b.out
        OBVIOUS
      <4>2. r \in Seq(Int) /\ Run(r, <<>>, TmdStart, to)
        BY ONLY <3>1, <4>1
      <4>3. r = Bytes(TmdStart, to)
        BY ONLY <2>1, <3>2, <4>2, NoneWaits
      <4>q. QED
        BY ONLY <4>1, <4>3
    <3>4. Len(Bytes(TmdStart, to)) = to - TmdStart
      BY ONLY <2>1, <3>2, BytesRun
    <3>q. QED
      BY ONLY <3>1, <3>2, <3>3, <3>4
  <2>8. PICK newam9 : newam9 = Given(am9, b.out)
    OBVIOUS
  <2>9. /\ newam9 \in AM9s /\ newam9.open = am9.open /\ newam9.recv = Bytes(TmdStart, to) /\ ~newam9.ragged
        /\ newam9.installed = am9.installed /\ newam9.contexts = am9.contexts /\ newam9.title = am9.title
    BY <1>2, <2>1, <2>3, <2>7, <2>8, GivenRun
  <2>10. PICK newc : newc = [c EXCEPT !.misalign = b.mis]
    OBVIOUS
  <2>11. newc = c
    BY <1>2, <2>1, <2>5, <2>10 DEF Datas
  <2>12. Passed(c, b.used, newam9) /\ KeptByPass
    <3>1. Pass(c, b.used, newam9)
      BY <1>6, <2>8, <2>10, <2>11
    <3>q. QED
      BY ONLY IInv, <1>1, <1>2, <2>7, <2>9, <3>1, PassKeeps
  <2>13. /\ SameFile /\ c'.offset = to /\ c'.state = "TMD" /\ c'.misalign = <<>>
         /\ c'.tikHeader = c.tikHeader /\ c'.tmdHeader
         /\ c'.cindex = c.cindex /\ c'.imported = c.imported /\ c'.batch = c.batch /\ c'.inBatch = c.inBatch
         /\ am9'.recv = Bytes(TmdStart, to) /\ ~am9'.ragged /\ am9'.installed = am9.installed
         /\ am9'.contexts = am9.contexts /\ am9'.open = am9.open
    BY <1>1, <2>1, <2>6, <2>9, <2>12 DEF Passed
  <2>14. InstalledSoFar' /\ Objects' = Objects
    BY <1>2, <2>13, SameFileKeeps
  <2>15. Placed'
    BY <2>7, <2>13 DEF Placed, SameFile
  <2>16. Buffered'
    BY <1>1, <1>2, <2>13 DEF Going, Buffered, SameFile, Early
  <2>17. Opened'
    BY <1>1, <1>2, <2>13 DEF Going, Opened
  <2>18. Received'
    BY <2>7, <2>13 DEF Received, InContent, SameFile
  <2>19. NextInFile'
    BY <2>13 DEF NextInFile
  <2>20. InstalledAll'
    BY <1>1, <1>2, <2>13, <2>14 DEF Going, InstalledAll, Early, SameFile
  <2>21. Batched'
    BY <1>1, <1>2, <2>13 DEF Going, Batched, SameFile
  <2>q. QED
    BY <1>3, <2>12, <2>14, <2>15, <2>16, <2>17, <2>18, <2>19, <2>20, <2>21 DEF IInv, KeptByPass, Going
<1>q. QED
  BY <1>4, <1>5, <1>6

-----------------------------------------------------------------------------
(* The contents: padding, and the start of the next *)

\* A pass over padding that the chunk does not reach the end of.
LEMMA ContentSkipKeeps == ASSUME IInv, ContentSkip PROVE IInv'
<1>1. call = "write" /\ c.state = "Content" /\ Skip(c.start)
  BY DEF ContentSkip, Running
<1>2. /\ Going /\ InstalledSoFar /\ ChunksFit /\ Layout /\ Contents /\ FlagsInv
      /\ c \in Datas /\ am9 \in AM9s /\ size \in Nat /\ fed \in Nat /\ cia \in CIAs
      /\ c.invalidated = FALSE /\ am9.title \in {"none", "open"} /\ c.importing = am9.open
  BY <1>1, Working
<1>3. FlagsInv'
  BY <1>1, <1>2, FlagsSkip
<1>4. PICK to : to = c.offset + size
  OBVIOUS
<1>5. c.offset \in Nat /\ c.start \in Nat /\ size < Padding(c.start) /\ Pass(c, size, am9)
  BY <1>1, <1>2 DEF Skip, Datas
<1>6. to \in Nat /\ c.offset < c.start /\ to < c.start
  BY <1>2, <1>4, <1>5 DEF Padding
<1>7. Passed(c, size, am9) /\ KeptByPass
  <2>1. size <= size /\ c.offset = c.offset /\ c.state # "Finalize"
    BY <1>1, <1>2
  <2>q. QED
    BY ONLY IInv, <1>1, <1>2, <1>5, <2>1, PassKeeps
<1>8. /\ SameFile /\ am9' = am9 /\ c'.offset = to /\ c'.state = "Content" /\ c'.misalign = c.misalign
      /\ c'.tikHeader = c.tikHeader /\ c'.tmdHeader = c.tmdHeader /\ c'.buf = c.buf
      /\ c'.importing = c.importing /\ c'.cindex = c.cindex /\ c'.imported = c.imported
      /\ c'.batch = c.batch /\ c'.inBatch = c.inBatch /\ c'.start = c.start /\ c'.end = c.end
  BY <1>1, <1>4, <1>7 DEF Passed
<1>9. \A i : ConAt(i)' = ConAt(i)
  BY <1>8 DEF SameFile, ConAt
<1>10. InstalledSoFar' /\ Objects' = Objects
  BY <1>2, <1>8, SameFileKeeps
<1>11. Placed'
  BY <1>8 DEF Placed
<1>12. Buffered'
  BY <1>8 DEF Buffered, Early
<1>13. Opened'
  BY <1>1, <1>2, <1>8 DEF Going, Opened
<1>14. Received'
  <2>1. Bytes(c.start, c.offset) = <<>> /\ Bytes(c.start, to) = <<>>
    <3>1. PICK o, s : o = c.offset /\ s = c.start
      OBVIOUS
    <3>2. o \in Nat /\ s \in Nat /\ o <= s /\ to <= s /\ to \in Nat
      BY ONLY <1>5, <1>6, <3>1
    <3>3. Bytes(s, o) = <<>>
      BY ONLY <3>2, BytesRun
    <3>4. Bytes(s, to) = <<>>
      BY ONLY <3>2, BytesRun
    <3>q. QED
      BY ONLY <3>1, <3>3, <3>4
  <2>2. ASSUME InContent
        PROVE  /\ Run(am9.recv, c.misalign, c.start, to) /\ ~am9.ragged
               /\ Whole(Len(am9.recv)) /\ Len(c.misalign) < Block
               /\ c.cindex \in Enabled /\ c.start = ConAt(c.cindex)
               /\ c.end = c.start + cia.con[c.cindex] /\ to < c.end
    <3>1. /\ Run(am9.recv, c.misalign, c.start, c.offset) /\ ~am9.ragged
          /\ Whole(Len(am9.recv)) /\ Len(c.misalign) < Block
          /\ c.cindex \in Enabled /\ c.start = ConAt(c.cindex) /\ c.end = c.start + cia.con[c.cindex]
      BY <1>2, <2>2 DEF Going, Received
    <3>2. cia.con[c.cindex] \in Nat
      BY <1>2, <3>1 DEF Contents
    <3>3. to < c.end
      BY <1>5, <1>6, <3>1, <3>2
    <3>q. QED
      BY <2>1, <3>1, <3>3 DEF Run
  <2>3. ~InContent => c.misalign = <<>>
    BY <1>2 DEF Going, Received
  <2>4. InContent' = InContent
    BY <1>1, <1>8 DEF InContent
  <2>q. QED
    BY <1>8, <1>9, <2>2, <2>3, <2>4 DEF Received, SameFile
<1>15. NextInFile'
  <2>1. c.offset + Padding(c.start) = c.start /\ to + Padding(c.start)' = c.start
    BY <1>5, <1>6, <1>8 DEF Padding
  <2>q. QED
    BY <1>1, <1>2, <1>8, <1>9, <2>1 DEF Going, NextInFile, Between, InContent, SameFile
<1>16. InstalledAll'
  BY <1>1, <1>2, <1>8, <1>10 DEF Going, InstalledAll, Early, SameFile
<1>17. Batched'
  BY <1>1, <1>2, <1>8 DEF Going, Batched, Past, InContent, SameFile
<1>q. QED
  BY <1>3, <1>7, <1>10, <1>11, <1>12, <1>13, <1>14, <1>15, <1>16, <1>17 DEF IInv, KeptByPass, Going

\* A set of numbers has a least one.
LEMMA Least ==
  ASSUME NEW S, S \subseteq Nat, S # {}
  PROVE  \E i \in S : \A j \in S : i <= j
<1>1. PICK R : R = OpToRel(<, Nat)
  OBVIOUS
<1>2. IsWellFoundedOn(R, Nat)
  BY <1>1, NatLessThanWellFounded
<1>3. PICK x \in S : \A y \in S : ~ (<<y, x>> \in R)
  BY <1>2, WFMin
<1>4. ASSUME NEW y \in S, y < x PROVE FALSE
  <2>1. <<y, x>> \in Nat \X Nat /\ <<y, x>>[1] = y /\ <<y, x>>[2] = x
    OBVIOUS
  <2>2. <<y, x>> \in R
    BY <1>1, <1>4, <2>1 DEF OpToRel
  <2>q. QED
    BY <1>3, <2>2
<1>5. ASSUME NEW y \in S PROVE x <= y
  <2>1. x \in Nat /\ y \in Nat
    OBVIOUS
  <2>q. QED
    BY <1>4, <2>1
<1>q. QED
  BY <1>5

\* What ContentSetup sets up.
LeftOver == {i \in Enabled : i >= c.cindex}
Chosen == {i \in LeftOver : Cardinality({j \in LeftOver : j < i}) < BatchMax}
NextOne == CHOOSE i \in LeftOver : \A j \in LeftOver : i <= j
NewBatch == cia.dlc /\ c.imported >= 1 /\ (IF CommitDue THEN 0 ELSE c.batch) = 0
SetBatch == IF NewBatch THEN Cardinality(Chosen) ELSE IF CommitDue THEN 0 ELSE c.batch
SetInBatch == IF CommitDue THEN 0 ELSE c.inBatch
SetContexts == IF NewBatch THEN Chosen ELSE IF CommitDue THEN {} ELSE am9.contexts

\* The content that is set up is the least that is left.
LEMMA NextFacts ==
  ASSUME Contents, Layout, c.cindex \in Nat
  PROVE  /\ LeftOver \subseteq Enabled /\ Enabled \subseteq Nat /\ IsFiniteSet(LeftOver)
         /\ Chosen \subseteq LeftOver /\ IsFiniteSet(Chosen)
         /\ LeftOver # {} => NextOne \in LeftOver /\ \A j \in LeftOver : NextOne <= j
<1>1. LeftOver \subseteq Enabled /\ Chosen \subseteq LeftOver
  BY DEF LeftOver, Chosen
<1>2. Enabled \subseteq Nat /\ IsFiniteSet(Enabled)
  BY DEF Contents, Layout
<1>3. IsFiniteSet(LeftOver)
  BY <1>1, <1>2, FS_Subset
<1>4. IsFiniteSet(Chosen)
  BY <1>1, <1>3, FS_Subset
<1>5. ASSUME LeftOver # {} PROVE NextOne \in LeftOver /\ \A j \in LeftOver : NextOne <= j
  <2>1. \E i \in LeftOver : \A j \in LeftOver : i <= j
    BY <1>1, <1>2, <1>5, Least
  <2>q. QED
    BY <2>1 DEF NextOne
<1>q. QED
  BY <1>1, <1>2, <1>3, <1>4, <1>5

\* The contents of a new batch follow one another, from the one that is set up.
LEMMA ChosenFacts ==
  ASSUME Contents, Layout, c.cindex \in Nat
  PROVE  /\ \A i, k \in Chosen, j \in Enabled : k <= j /\ j <= i => j \in Chosen
         /\ LeftOver # {} => NextOne \in Chosen /\ Cardinality(Chosen) > 0 /\ {i \in Chosen : i < NextOne} = {}
<1>1. /\ LeftOver \subseteq Enabled /\ Enabled \subseteq Nat /\ IsFiniteSet(LeftOver)
      /\ Chosen \subseteq LeftOver /\ IsFiniteSet(Chosen)
      /\ LeftOver # {} => NextOne \in LeftOver /\ \A j \in LeftOver : NextOne <= j
  BY NextFacts
<1>2. ASSUME NEW i \in Chosen, NEW k \in Chosen, NEW j \in Enabled, k <= j, j <= i PROVE j \in Chosen
  <2>1. i \in Nat /\ j \in Nat /\ k \in Nat /\ k >= c.cindex
    BY <1>1 DEF LeftOver
  <2>2. j \in LeftOver
    BY <1>2, <2>1 DEF LeftOver
  <2> DEFINE below(x) == {m \in LeftOver : m < x}
  <2>3. below(j) \subseteq below(i)
    <3>1. ASSUME NEW m \in LeftOver, m < j PROVE m < i
      <4>1. m \in Nat
        BY <1>1
      <4>q. QED
        BY <1>2, <2>1, <3>1, <4>1
    <3>q. QED
      BY <3>1
  <2>4. IsFiniteSet(below(i))
    BY <1>1, FS_Subset
  <2>5. Cardinality(below(j)) <= Cardinality(below(i))
    BY <2>3, <2>4, FS_Subset
  <2>6. IsFiniteSet(below(j))
    BY <1>1, FS_Subset
  <2>7. Cardinality(below(j)) \in Nat /\ Cardinality(below(i)) \in Nat /\ BatchMax \in Nat
    BY <2>4, <2>6, FS_CardinalityType, SizesAssumption
  <2>8. Cardinality(below(i)) < BatchMax
    BY DEF Chosen
  <2>9. Cardinality(below(j)) < BatchMax
    <3> HIDE DEF below
    <3>q. QED
      BY <2>5, <2>7, <2>8
  <2>q. QED
    BY <2>2, <2>9 DEF Chosen
<1>3. ASSUME LeftOver # {}
      PROVE  NextOne \in Chosen /\ Cardinality(Chosen) > 0 /\ {i \in Chosen : i < NextOne} = {}
  <2>1. {j \in LeftOver : j < NextOne} = {}
    <3>1. ASSUME NEW j \in LeftOver, j < NextOne PROVE FALSE
      <4>1. j \in Nat /\ NextOne \in Nat /\ NextOne <= j
        BY <1>1, <1>3
      <4>q. QED
        BY <3>1, <4>1
    <3>q. QED
      BY <3>1
  <2>2. Cardinality({}) = 0
    BY FS_EmptySet
  <2>3. NextOne \in Chosen
    BY <1>1, <1>3, <2>1, <2>2, SizesAssumption DEF Chosen
  <2>4. Cardinality(Chosen) # 0
    BY <1>1, <2>3, FS_EmptySet
  <2>5. Cardinality(Chosen) \in Nat
    BY <1>1, FS_CardinalityType
  <2>6. {i \in Chosen : i < NextOne} = {}
    BY <1>1, <2>1
  <2>q. QED
    BY <2>3, <2>4, <2>5, <2>6
<1>q. QED
  BY <1>2, <1>3

\* What is set up has its type.
LEMMA SetTypes ==
  ASSUME Contents, Layout, c \in Datas, am9 \in AM9s, Batched
  PROVE  SetBatch \in Nat /\ SetInBatch \in Nat /\ SetContexts \subseteq Enabled /\ SetContexts \in SUBSET Int
<1>1. c.cindex \in Nat /\ c.batch \in Nat /\ c.inBatch \in Nat
  BY DEF Datas
<1>2. Chosen \subseteq Enabled /\ Enabled \subseteq Nat /\ IsFiniteSet(Chosen)
  BY <1>1, NextFacts
<1>3. Cardinality(Chosen) \in Nat
  BY <1>2, FS_CardinalityType
<1>4. SetBatch \in Nat /\ SetInBatch \in Nat
  BY <1>1, <1>3 DEF SetBatch, SetInBatch
<1>5. SetContexts \subseteq Enabled
  BY <1>2 DEF SetContexts, Batched
<1>q. QED
  BY <1>2, <1>4, <1>5

\* The batch that the next content is in.
LEMMA SetupBatches ==
  ASSUME Contents, Layout, c \in Datas, am9 \in AM9s, Batched, c.state = "Content", "content" \notin c.importing,
         LeftOver # {}, cia.dlc
  PROVE  /\ c.imported = 0 => SetBatch = 0
         /\ SetBatch = 0 => SetInBatch = 0
         /\ SetBatch > 0 => /\ SetBatch = Cardinality(SetContexts)
                            /\ SetInBatch = Cardinality({i \in SetContexts : i < NextOne})
         /\ \A i, k \in SetContexts, j \in Enabled : k <= j /\ j <= i => j \in SetContexts
         /\ c.imported >= 1 => SetBatch > 0 /\ NextOne \in SetContexts
<1>1. c.cindex \in Nat /\ c.batch \in Nat /\ c.inBatch \in Nat /\ c.imported \in Nat
  BY DEF Datas
<1>2. /\ LeftOver \subseteq Enabled /\ Enabled \subseteq Nat /\ IsFiniteSet(LeftOver)
      /\ Chosen \subseteq LeftOver /\ IsFiniteSet(Chosen)
      /\ NextOne \in LeftOver /\ \A j \in LeftOver : NextOne <= j
  BY <1>1, NextFacts
<1>3. /\ \A i, k \in Chosen, j \in Enabled : k <= j /\ j <= i => j \in Chosen
      /\ NextOne \in Chosen /\ Cardinality(Chosen) > 0 /\ {i \in Chosen : i < NextOne} = {}
  BY <1>1, ChosenFacts
<1>4. /\ c.imported = 0 => c.batch = 0
      /\ c.batch = 0 => c.inBatch = 0
      /\ c.batch > 0 => c.batch = Cardinality(am9.contexts) /\ c.inBatch = Cardinality(Past) /\ c.inBatch > 0
      /\ \A i, k \in am9.contexts, j \in Enabled : k <= j /\ j <= i => j \in am9.contexts
      /\ c.batch = 0 => c.imported \in {0, 1}
      /\ am9.contexts \subseteq Enabled
  BY DEF Batched, InContent
<1>5. CASE CommitDue
  <2>1. c.imported >= 1
    BY <1>1, <1>4, <1>5 DEF CommitDue
  <2>2. NewBatch
    BY <1>5, <2>1 DEF NewBatch
  <2>3. SetBatch = Cardinality(Chosen) /\ SetInBatch = 0 /\ SetContexts = Chosen
    BY <1>5, <2>2 DEF SetBatch, SetInBatch, SetContexts
  <2>4. Cardinality({}) = 0
    BY FS_EmptySet
  <2>q. QED
    BY <1>1, <1>3, <2>1, <2>3, <2>4
<1>6. CASE ~CommitDue
  <2>1. /\ c.batch = 0 => c.imported # 1
        /\ c.batch > 0 => c.inBatch # c.batch
    BY <1>6 DEF CommitDue
  <2>2. c.batch = 0 => c.imported = 0
    BY <1>1, <1>4, <2>1
  <2>3. ~NewBatch
    BY <1>1, <1>6, <2>2 DEF NewBatch
  <2>4. SetBatch = c.batch /\ SetInBatch = c.inBatch /\ SetContexts = am9.contexts
    BY <1>6, <2>3 DEF SetBatch, SetInBatch, SetContexts
  <2>5. {i \in am9.contexts : i < NextOne} = Past
    <3>1. ASSUME NEW i \in am9.contexts PROVE i < NextOne <=> i < c.cindex
      <4>1. i \in Enabled /\ i \in Nat /\ NextOne \in Nat /\ NextOne >= c.cindex
        BY <1>2, <1>4 DEF LeftOver
      <4>2. CASE i >= c.cindex
        <5>1. NextOne <= i
          BY <1>2, <4>1, <4>2 DEF LeftOver
        <5>q. QED
          BY <1>1, <4>1, <4>2, <5>1
      <4>3. CASE ~(i >= c.cindex)
        BY <1>1, <4>1, <4>3
      <4>q. QED
        BY <4>2, <4>3
    <3>q. QED
      BY <3>1 DEF Past
  <2>6. ASSUME c.imported >= 1 PROVE c.batch > 0 /\ NextOne \in am9.contexts
    <3>1. c.batch > 0
      BY <1>1, <2>2, <2>6
    <3>2. Past # am9.contexts
      BY <1>4, <2>1, <3>1
    <3>3. PICK i \in am9.contexts : ~(i < c.cindex)
      BY <3>2 DEF Past
    <3>4. i \in LeftOver /\ i \in Nat /\ NextOne <= i
      <4>1. i \in Enabled /\ i \in Nat
        BY <1>2, <1>4
      <4>2. i \in LeftOver
        BY <1>1, <3>3, <4>1 DEF LeftOver
      <4>q. QED
        BY <1>2, <4>1, <4>2
    <3>5. Past # {}
      BY <1>4, <3>1, FS_EmptySet
    <3>6. PICK k \in am9.contexts : k < c.cindex
      BY <3>5 DEF Past
    <3>7. k <= NextOne
      <4>1. k \in Nat /\ NextOne \in Nat /\ NextOne >= c.cindex
        BY <1>2, <1>4 DEF LeftOver
      <4>q. QED
        BY <1>1, <3>6, <4>1
    <3>8. NextOne \in Enabled
      BY <1>2
    <3>q. QED
      BY <1>4, <3>1, <3>3, <3>4, <3>6, <3>7, <3>8
  <2>q. QED
    BY <1>4, <2>4, <2>5, <2>6
<1>q. QED
  BY <1>5, <1>6

\* What ContentSetup does, in these terms.
SetupData == [c EXCEPT !.batch = SetBatch, !.inBatch = SetInBatch]
SetupAM9 == [am9 EXCEPT !.contexts = SetContexts]
\* The action in these terms.
LEMMA SetupIs ==
  ASSUME ContentSetup
  PROVE  /\ Running("Content") /\ size >= Padding(c.start) /\ ~("content" \in c.importing)
         /\ LET start == RoundUp(c.offset + Padding(c.start)) IN
            \/ /\ LeftOver # {}
               /\ Pass([SetupData EXCEPT !.cindex = NextOne, !.importing = @ \union {"content"},
                                         !.start = start, !.end = start + cia.con[NextOne]],
                       Padding(c.start), Begun(SetupAM9, "content"))
            \/ /\ LeftOver = {}
               /\ Pass([SetupData EXCEPT !.cindex = cia.n, !.state = "Finalize"], Padding(c.start), SetupAM9)
            \/ Fails
            \/ ErrExit(c.importing \union {"content"}, am9.open \union {"content"})
            \/ ErrExit(c.importing \ {"title"}, am9.open \ {"title"})
BY DEF ContentSetup, LeftOver, Chosen, NextOne, NewBatch, SetBatch, SetInBatch, SetContexts, SetupData, SetupAM9

\* Where the next content starts, as it is set up.
LEMMA SetupStart ==
  ASSUME Contents, Layout, c \in Datas, c.state = "Content", "content" \notin c.importing, NextInFile,
         LeftOver # {}, NEW off \in Nat, off = c.offset + Padding(c.start)
  PROVE  /\ NextOne \in Enabled /\ ConAt(NextOne) = RoundUp(off)
         /\ {i \in Enabled : i < NextOne} = {i \in Enabled : i < c.cindex}
<1>1. c.cindex \in Nat
  BY DEF Datas
<1>2. /\ LeftOver \subseteq Enabled /\ Enabled \subseteq Nat
      /\ NextOne \in LeftOver /\ \A j \in LeftOver : NextOne <= j
  BY <1>1, NextFacts
<1>3. NextOne \in Enabled /\ NextOne >= c.cindex /\ NextOne \in Nat
  BY <1>2 DEF LeftOver
<1>4. ASSUME NEW k \in Enabled PROVE k < c.cindex \/ k >= NextOne
  <2>1. k \in Nat
    BY <1>2
  <2>2. CASE k >= c.cindex
    <3>1. k \in LeftOver
      BY <2>2 DEF LeftOver
    <3>2. NextOne <= k
      BY <1>2, <3>1
    <3>q. QED
      BY <1>3, <2>1, <3>2
  <2>q. QED
    BY <1>1, <2>1, <2>2
<1>5. Between(NextOne)
  BY <1>3, <1>4 DEF Between
<1>6. ConAt(NextOne) = RoundUp(off)
  BY <1>3, <1>5 DEF NextInFile, InContent
<1>7. ASSUME NEW i \in Enabled PROVE i < NextOne <=> i < c.cindex
  <2>1. i \in Nat /\ (i < c.cindex \/ i >= NextOne)
    BY <1>2, <1>4
  <2>q. QED
    BY <1>1, <1>3, <2>1
<1>q. QED
  BY <1>3, <1>6, <1>7

\* The next content, and the batch it is in, are set up; or there is none.
LEMMA ContentSetupKeeps == ASSUME IInv, ContentSetup PROVE IInv'
<1>1. call = "write" /\ c.state = "Content" /\ size >= Padding(c.start) /\ "content" \notin c.importing
  BY SetupIs DEF Running
<1>2. /\ Going /\ InstalledSoFar /\ ChunksFit /\ Layout /\ Contents /\ FlagsInv
      /\ c \in Datas /\ am9 \in AM9s /\ size \in Nat /\ fed \in Nat /\ cia \in CIAs
      /\ c.invalidated = FALSE /\ am9.title \in {"none", "open"} /\ c.importing = am9.open
  BY <1>1, Working
<1>3. FlagsInv'
  BY <1>2, FlagsSetup
<1>4. c.importing \in SUBSET Parts /\ am9.open \in SUBSET Parts
  BY <1>2 DEF Datas, AM9s
<1>5. PICK pad, off, start : /\ pad = Padding(c.start) /\ off = c.offset + pad /\ start = RoundUp(off)
  OBVIOUS
<1>6. /\ c.offset \in Nat /\ c.start \in Nat /\ c.cindex \in Nat /\ pad \in Nat /\ off \in Nat /\ pad <= size
  <2>1. c.offset \in Nat /\ c.start \in Nat /\ c.cindex \in Nat
    BY <1>2 DEF Datas
  <2>2. pad \in Nat
    BY <1>5, <2>1, PaddingFacts
  <2>3. off \in Nat /\ pad <= size
    BY ONLY <1>1, <1>5, <2>1, <2>2
  <2>q. QED
    BY <2>1, <2>2, <2>3
<1>7. start \in Nat /\ start >= off
  BY <1>5, <1>6, Rounding
<1>8. c.misalign = <<>> /\ am9.open = {"title"} /\ Batched /\ NextInFile
      /\ Objects = {Ticket, TMD} \union {i \in Enabled : i < c.cindex}
  BY <1>1, <1>2 DEF Going, Received, InContent, Opened, InstalledAll
<1>9. SetBatch \in Nat /\ SetInBatch \in Nat /\ SetContexts \subseteq Enabled /\ SetContexts \in SUBSET Int
  BY <1>2, <1>8, SetTypes
<1>10. /\ SetupData \in Datas /\ SetupData.offset = c.offset /\ SetupData.state = c.state
       /\ SetupData.misalign = c.misalign /\ SetupData.importing = c.importing
       /\ SetupData.imported = c.imported /\ SetupData.batch = SetBatch /\ SetupData.inBatch = SetInBatch
       /\ SetupData.invalidated = FALSE
  BY <1>2, <1>9 DEF SetupData, Datas
<1>11. /\ SetupAM9 \in AM9s /\ SetupAM9.open = am9.open /\ SetupAM9.installed = am9.installed
       /\ SetupAM9.contexts = SetContexts /\ SetupAM9.title = am9.title
  BY <1>2, <1>9 DEF SetupAM9, AM9s
<1>12. CASE /\ LeftOver # {}
            /\ Pass([SetupData EXCEPT !.cindex = NextOne, !.importing = @ \union {"content"},
                                      !.start = start, !.end = start + cia.con[NextOne]],
                    pad, Begun(SetupAM9, "content"))
  <2> DEFINE newc == [SetupData EXCEPT !.cindex = NextOne, !.importing = @ \union {"content"},
                                       !.start = start, !.end = start + cia.con[NextOne]]
             newam9 == Begun(SetupAM9, "content")
  <2>1. /\ NextOne \in Enabled /\ NextOne \in Nat /\ ConAt(NextOne) = start
        /\ {i \in Enabled : i < NextOne} = {i \in Enabled : i < c.cindex}
        /\ cia.con[NextOne] \in Nat /\ cia.con[NextOne] > 0
    <3>1. /\ NextOne \in Enabled /\ ConAt(NextOne) = start
          /\ {i \in Enabled : i < NextOne} = {i \in Enabled : i < c.cindex}
      BY <1>1, <1>2, <1>5, <1>6, <1>8, <1>12, SetupStart
    <3>2. cia.con[NextOne] \in Nat /\ cia.con[NextOne] > 0 /\ NextOne \in Nat
      BY <1>2, <3>1 DEF Contents, Layout
    <3>q. QED
      BY <3>1, <3>2
  <2>2. start + cia.con[NextOne] \in Nat /\ off < start + cia.con[NextOne]
    BY <1>6, <1>7, <2>1
  <2>3. /\ newc \in Datas /\ newc.offset = c.offset /\ newc.state = "Content" /\ newc.misalign = <<>>
        /\ newc.importing = c.importing \union {"content"} /\ newc.cindex = NextOne
        /\ newc.imported = c.imported /\ newc.batch = SetBatch /\ newc.inBatch = SetInBatch
        /\ newc.start = start /\ newc.end = start + cia.con[NextOne] /\ newc.invalidated = FALSE
    BY <1>1, <1>7, <1>8, <1>10, <2>1, <2>2 DEF Datas, Parts
  <2>4. /\ newam9 \in AM9s /\ newam9.open = am9.open \union {"content"} /\ newam9.recv = <<>>
        /\ newam9.installed = am9.installed /\ newam9.contexts = SetContexts /\ newam9.title = am9.title
        /\ newam9.ragged = FALSE
    <3>1. <<>> \in Seq(Int)
      BY EmptySeq
    <3>2. PICK a : a = SetupAM9
      OBVIOUS
    <3>3. Begun(a, "content") \in AM9s /\ Begun(a, "content").open = a.open \union {"content"}
          /\ Begun(a, "content").recv = <<>> /\ Begun(a, "content").installed = a.installed
          /\ Begun(a, "content").contexts = a.contexts /\ Begun(a, "content").title = a.title
          /\ Begun(a, "content").ragged = FALSE
      BY <1>11, <3>1, <3>2 DEF Begun, AM9s, Parts
    <3>q. QED
      BY <1>11, <3>2, <3>3
  <2>5. Pass(newc, pad, newam9)
    BY <1>12
  <2> HIDE DEF newc, newam9
  <2>6. Passed(newc, pad, newam9) /\ KeptByPass
    BY ONLY IInv, <1>1, <1>2, <1>6, <2>3, <2>4, <2>5, PassKeeps
  <2>7. /\ SameFile /\ c'.offset = off /\ c'.state = "Content" /\ c'.misalign = <<>>
        /\ c'.importing = {"title", "content"} /\ c'.cindex = NextOne /\ c'.imported = c.imported
        /\ c'.batch = SetBatch /\ c'.inBatch = SetInBatch
        /\ c'.start = start /\ c'.end = start + cia.con[NextOne]
        /\ am9'.open = {"title", "content"} /\ am9'.recv = <<>> /\ am9'.ragged = FALSE
        /\ am9'.installed = am9.installed /\ am9'.contexts = SetContexts
    BY <1>2, <1>5, <1>8, <2>3, <2>4, <2>6 DEF Passed
  <2>8. \A i : ConAt(i)' = ConAt(i)
    BY <2>7 DEF SameFile, ConAt
  <2>9. InstalledSoFar' /\ Objects' = Objects
    BY <1>2, <2>7, SameFileKeeps
  <2>10. InContent'
    BY <2>7 DEF InContent
  <2>11. Placed'
    BY <2>7 DEF Placed
  <2>12. Buffered'
    BY <2>7 DEF Buffered, Early
  <2>13. Opened'
    BY <2>7 DEF Opened
  <2>14. Received'
    <3>1. Bytes(start, off) = <<>>
      BY ONLY <1>6, <1>7, BytesRun
    <3>2. <<>> \o <<>> = <<>> /\ Len(<<>>) = 0 /\ <<>> \in Seq(Int)
      BY ConcatEmptySeq, EmptySeq
    <3>3. Run(<<>>, <<>>, start, off) /\ Whole(Len(<<>>)) /\ Len(<<>>) < Block
      BY <3>1, <3>2, BlockFacts DEF Run
    <3>q. QED
      BY <2>1, <2>2, <2>7, <2>8, <2>10, <3>3 DEF Received, SameFile
  <2>15. NextInFile'
    BY <2>10 DEF NextInFile
  <2>16. InstalledAll'
    BY <1>8, <2>1, <2>7, <2>9 DEF InstalledAll, SameFile, Early
  <2>17. Batched'
    <3>1. ASSUME cia.dlc
          PROVE  /\ c.imported = 0 => SetBatch = 0
                 /\ SetBatch = 0 => SetInBatch = 0
                 /\ SetBatch > 0 => /\ SetBatch = Cardinality(SetContexts)
                                    /\ SetInBatch = Cardinality({i \in SetContexts : i < NextOne})
                 /\ \A i, k \in SetContexts, j \in Enabled : k <= j /\ j <= i => j \in SetContexts
                 /\ c.imported >= 1 => SetBatch > 0 /\ NextOne \in SetContexts
      BY <1>1, <1>2, <1>8, <1>12, <3>1, SetupBatches
    <3>2. Past' = {i \in SetContexts : i < NextOne}
      BY <2>7 DEF Past
    <3>q. QED
      BY <1>9, <2>7, <2>10, <3>1, <3>2 DEF Batched, SameFile
  <2>q. QED
    BY <1>3, <2>6, <2>9, <2>11, <2>12, <2>13, <2>14, <2>15, <2>16, <2>17 DEF IInv, KeptByPass, Going
<1>13. CASE /\ LeftOver = {}
            /\ Pass([SetupData EXCEPT !.cindex = cia.n, !.state = "Finalize"], pad, SetupAM9)
  <2> DEFINE newc == [SetupData EXCEPT !.cindex = cia.n, !.state = "Finalize"]
  <2>1. cia.n \in Nat /\ Enabled \subseteq 0..(cia.n - 1)
    BY <1>2 DEF Layout, Contents
  <2>2. {i \in Enabled : i < cia.n} = {i \in Enabled : i < c.cindex}
    <3>1. ASSUME NEW i \in Enabled PROVE i < cia.n /\ i < c.cindex
      <4>1. i \in Nat /\ i < cia.n
        BY <2>1
      <4>2. ~(i >= c.cindex)
        BY <1>13 DEF LeftOver
      <4>q. QED
        BY <1>6, <4>1, <4>2
    <3>q. QED
      BY <3>1
  <2>3. /\ newc \in Datas /\ newc.offset = c.offset /\ newc.state = "Finalize" /\ newc.misalign = <<>>
        /\ newc.importing = c.importing /\ newc.cindex = cia.n
        /\ newc.imported = c.imported /\ newc.invalidated = FALSE
    BY <1>8, <1>10, <2>1 DEF Datas, States
  <2>4. Pass(newc, pad, SetupAM9)
    BY <1>13
  <2> HIDE DEF newc
  <2>5. Passed(newc, pad, SetupAM9) /\ KeptByPass
    BY ONLY IInv, <1>1, <1>2, <1>6, <1>11, <2>3, <2>4, PassKeeps
  <2>6. /\ SameFile /\ c'.offset = off /\ c'.state = "Finalize" /\ c'.misalign = <<>>
        /\ c'.importing = {"title"} /\ c'.cindex = cia.n
        /\ am9'.open = {"title"} /\ am9'.installed = am9.installed /\ am9'.contexts = SetContexts
    BY <1>2, <1>5, <1>8, <1>11, <2>3, <2>5 DEF Passed
  <2>7. InstalledSoFar' /\ Objects' = Objects
    BY <1>2, <2>6, SameFileKeeps
  <2>8. Placed'
    BY <2>6 DEF Placed
  <2>9. Buffered'
    BY <2>6 DEF Buffered, Early
  <2>10. Opened'
    BY <2>6 DEF Opened
  <2>11. Received'
    BY <2>6 DEF Received, InContent
  <2>12. NextInFile'
    BY <2>6 DEF NextInFile
  <2>13. InstalledAll'
    BY <1>8, <2>2, <2>6, <2>7 DEF InstalledAll, SameFile, Early
  <2>14. Batched'
    BY <1>9, <2>6 DEF Batched, SameFile
  <2>q. QED
    BY <1>3, <2>5, <2>7, <2>8, <2>9, <2>10, <2>11, <2>12, <2>13, <2>14 DEF IInv, KeptByPass, Going
<1>14. CASE Fails
  BY <1>1, <1>14, FailsKeeps
<1>15. CASE ErrExit(c.importing \union {"content"}, am9.open \union {"content"})
  <2>1. c.importing \union {"content"} \in SUBSET Parts /\ am9.open \union {"content"} \in SUBSET Parts
    BY <1>4 DEF Parts
  <2>q. QED
    BY <1>1, <1>3, <1>15, <2>1, ErrKeeps
<1>16. CASE ErrExit(c.importing \ {"title"}, am9.open \ {"title"})
  <2>1. c.importing \ {"title"} \in SUBSET Parts /\ am9.open \ {"title"} \in SUBSET Parts
    BY <1>4
  <2>q. QED
    BY <1>1, <1>3, <1>16, <2>1, ErrKeeps
<1>q. QED
  BY <1>5, <1>12, <1>13, <1>14, <1>15, <1>16, SetupIs

-----------------------------------------------------------------------------
(* The contents: their bytes *)

\* Where a content is written from: the padding before it is behind.
LEMMA ContentFrom ==
  ASSUME NEW r \in Seq(Int), NEW m \in Seq(Int), NEW start \in Nat, NEW o \in Nat, NEW off \in Nat,
         Run(r, m, start, o), off = IF o < start THEN start ELSE o
  PROVE  start <= off /\ Run(r, m, start, off)
<1>1. CASE o < start
  <2>1. Bytes(start, o) = <<>>
    BY ONLY <1>1, start \in Nat, o \in Nat, BytesRun
  <2>2. Bytes(start, start) = <<>>
    BY ONLY start \in Nat, BytesRun
  <2>q. QED
    BY <1>1, <2>1, <2>2 DEF Run
<1>2. CASE ~(o < start)
  BY <1>2
<1>q. QED
  BY <1>1, <1>2

\* Nothing waits at the start of a content, and a pass that has no byte of it keeps that.
LEMMA EmptyPass ==
  ASSUME NEW mis \in Seq(Int), NEW recv \in Seq(Int), NEW start \in Nat, NEW end \in Nat, start < end,
         Run(recv, mis, start, start), Whole(Len(recv))
  PROVE  Exact(Blocks(mis, start, 0, end, U32, TRUE), recv, start, start, 0, end)
<1>1. Len(mis) \in Nat /\ Len(recv) \in Nat /\ Len(recv) + Len(mis) = start - start
  <2>1. start <= start
    OBVIOUS
  <2>q. QED
    BY ONLY <2>1, mis \in Seq(Int), recv \in Seq(Int), start \in Nat, Run(recv, mis, start, start), FollowingLen
<1>2. Len(mis) = 0
  BY <1>1
<1>3. mis = <<>>
  BY <1>2, EmptySeq
<1>4. PICK b : b = Blocks(<<>>, start, 0, end, U32, TRUE)
  OBVIOUS
<1>5. b = [out |-> <<>>, mis |-> <<>>, used |-> 0]
  <2>1. 0 - 0 = 0
    OBVIOUS
  <2>q. QED
    BY <1>4, <2>1 DEF Blocks
<1>6. b.out = <<>> /\ b.mis = <<>> /\ b.used = 0
  BY <1>5
<1>7. recv \o <<>> = recv /\ <<>> \in Seq(Int) /\ Len(<<>>) = 0 /\ Run(recv, <<>>, start, start)
  BY <1>3, NoneWaits
<1>8. start + 0 = start /\ start # end /\ start <= end /\ 0 \in Nat /\ 0 <= 0 /\ 0 < Block
  BY BlockFacts
<1>9. Exact(b, recv, start, start, 0, end)
  BY ONLY <1>6, <1>7, <1>8, recv \in Seq(Int), Whole(Len(recv)) DEF Exact
<1>q. QED
  BY <1>3, <1>4, <1>9

\* What a pass over a content leaves.
LEMMA ContentMoves ==
  ASSUME NEW mis \in Seq(Int), NEW recv \in Seq(Int), NEW start \in Nat, NEW off \in Nat,
         NEW n \in Nat, NEW end \in Nat, Run(recv, mis, start, off), start <= off, off < end, end < U32,
         Len(mis) < Block, Whole(Len(recv)), Whole(end - start), n = 0 => off = start
  PROVE  Exact(Blocks(mis, off, n, end, U32, TRUE), recv, start, off, n, end)
<1>1. CASE n = 0
  <2>1. off = start /\ Run(recv, mis, start, start) /\ start < end
    BY <1>1
  <2>2. Exact(Blocks(mis, start, 0, end, U32, TRUE), recv, start, start, 0, end)
    BY ONLY <2>1, mis \in Seq(Int), recv \in Seq(Int), start \in Nat, end \in Nat, Whole(Len(recv)), EmptyPass
  <2>q. QED
    BY <1>1, <2>1, <2>2
<1>2. CASE n > 0
  BY <1>2, ContentPass
<1>3. n = 0 \/ n > 0
  BY ONLY n \in Nat
<1>q. QED
  BY ONLY <1>1, <1>2, <1>3

\* The batch is counted down.
LEMMA BatchCounts ==
  ASSUME NEW S, S \subseteq Nat, IsFiniteSet(S), NEW i \in S
  PROVE  Cardinality({j \in S : j < i + 1}) = Cardinality({j \in S : j < i}) + 1
<1> DEFINE T == {j \in S : j < i}
<1>1. {j \in S : j < i + 1} = T \union {i}
  <2>1. ASSUME NEW j \in S PROVE j < i + 1 <=> (j < i \/ j = i)
    BY S \subseteq Nat
  <2>q. QED
    BY <2>1
<1>2. IsFiniteSet(T)
  BY FS_Subset
<1>3. i \notin T
  BY S \subseteq Nat
<1> HIDE DEF T
<1>4. Cardinality(T \union {i}) = Cardinality(T) + 1
  BY <1>2, <1>3, FS_AddElement
<1>q. QED
  BY <1>1, <1>4 DEF T

\* A content is written, and finished at its end with all of its bytes.
LEMMA ContentWriteKeeps == ASSUME IInv, ContentWrite PROVE IInv'
<1>1. /\ call = "write" /\ c.state = "Content" /\ size > 0 /\ size >= Padding(c.start)
      /\ "content" \in c.importing /\ InContent
  BY DEF ContentWrite, Running, InContent
<1>2. /\ Going /\ InstalledSoFar /\ ChunksFit /\ Layout /\ Contents /\ FlagsInv
      /\ c \in Datas /\ am9 \in AM9s /\ size \in Nat /\ fed \in Nat /\ cia \in CIAs
      /\ c.invalidated = FALSE /\ am9.title \in {"none", "open"} /\ c.importing = am9.open
  BY <1>1, Working
<1>3. FlagsInv'
  BY <1>2, FlagsWrite
<1>4. PICK pad, off, n, b :
        /\ pad = Padding(c.start) /\ off = c.offset + pad /\ n = size - pad
        /\ b = Blocks(c.misalign, off, n, c.end, U32, TRUE)
        /\ \/ /\ off + b.used = c.end
              /\ Pass(ContentDone([c EXCEPT !.misalign = b.mis]), pad + b.used,
                      Finished(Given(am9, b.out), "content", c.cindex))
           \/ off + b.used # c.end /\ Pass([c EXCEPT !.misalign = b.mis], pad + b.used, Given(am9, b.out))
           \/ Fails
  BY DEF ContentWrite
<1>5. /\ c.offset \in Nat /\ c.start \in Nat /\ c.end \in Nat /\ c.cindex \in Nat /\ c.misalign \in Seq(Int)
      /\ c.imported \in Nat /\ c.batch \in Nat /\ c.inBatch \in Nat /\ c.importing \in SUBSET Parts
      /\ am9.recv \in Seq(Int)
  BY <1>2 DEF Datas, AM9s
<1>6. /\ Run(am9.recv, c.misalign, c.start, c.offset) /\ ~am9.ragged
      /\ Whole(Len(am9.recv)) /\ Len(c.misalign) < Block
      /\ c.cindex \in Enabled /\ c.start = ConAt(c.cindex)
      /\ c.end = c.start + cia.con[c.cindex] /\ c.offset < c.end
      /\ am9.open = {"title", "content"} /\ Batched
      /\ Objects = {Ticket, TMD} \union {i \in Enabled : i < c.cindex}
  BY <1>1, <1>2 DEF Going, Received, Opened, InstalledAll
<1>7. /\ cia.con[c.cindex] \in Nat /\ cia.con[c.cindex] > 0 /\ Whole(cia.con[c.cindex])
      /\ c.end <= FileEnd /\ FileEnd \in Nat /\ FileEnd < U32 /\ U32 \in Nat
      /\ Enabled \subseteq Nat /\ IsFiniteSet(Enabled)
  <2>1. /\ cia.con[c.cindex] \in Nat /\ cia.con[c.cindex] > 0 /\ Whole(cia.con[c.cindex])
        /\ c.end <= FileEnd
    <3>1. \A i \in Enabled :
            /\ cia.con[i] \in Nat /\ cia.con[i] > 0 /\ Whole(cia.con[i]) /\ ConAt(i) + cia.con[i] <= FileEnd
      BY <1>2 DEF Contents
    <3>2. c.cindex \in Enabled /\ c.end = ConAt(c.cindex) + cia.con[c.cindex]
      BY ONLY <1>6
    <3>q. QED
      BY ONLY <3>1, <3>2
  <2>2. FileEnd \in Nat /\ FileEnd < U32 /\ U32 \in Nat
    BY <1>2 DEF Layout, U32
  <2>3. Enabled \subseteq Nat /\ IsFiniteSet(Enabled)
    BY <1>2, <1>5, NextFacts DEF Contents
  <2>q. QED
    BY <2>1, <2>2, <2>3
<1>8. /\ pad \in Nat /\ off \in Nat /\ n \in Nat /\ pad + n = size
      /\ off = (IF c.offset < c.start THEN c.start ELSE c.offset) /\ off < c.end
      /\ (n = 0 => off = c.start) /\ Whole(c.end - c.start) /\ c.end < U32
  <2>1. /\ pad = IF c.offset < c.start THEN c.start - c.offset ELSE 0
    BY <1>4 DEF Padding
  <2>2. pad \in Nat /\ off \in Nat /\ off = (IF c.offset < c.start THEN c.start ELSE c.offset)
    BY ONLY <1>4, <1>5, <2>1
  <2>3. n \in Nat /\ pad + n = size
    BY ONLY <1>1, <1>2, <1>4, <2>2
  <2>4. off < c.end /\ c.end - c.start = cia.con[c.cindex]
    BY ONLY <1>5, <1>6, <1>7, <2>2
  <2>5. n = 0 => off = c.start
    BY ONLY <1>1, <1>5, <2>1, <2>2, <2>3
  <2>6. c.end < U32
    BY ONLY <1>5, <1>7
  <2>q. QED
    BY <1>7, <2>2, <2>3, <2>4, <2>5, <2>6
<1>9. c.start <= off /\ Run(am9.recv, c.misalign, c.start, off)
  BY ONLY <1>5, <1>6, <1>8, ContentFrom
<1>10. Exact(b, am9.recv, c.start, off, n, c.end)
  BY ONLY <1>4, <1>5, <1>6, <1>8, <1>9, ContentMoves
<1>11. PICK to : to = off + b.used
  OBVIOUS
<1>12. /\ b.out \in Seq(Int) /\ b.mis \in Seq(Int) /\ b.used \in Nat /\ b.used <= n /\ to <= c.end
       /\ am9.recv \o b.out \in Seq(Int) /\ Run(am9.recv \o b.out, b.mis, c.start, to)
       /\ Len(b.mis) < Block
       /\ to = c.end => b.mis = <<>>
       /\ to # c.end => Whole(Len(am9.recv \o b.out))
  BY ONLY <1>10, <1>11 DEF Exact
<1>13. /\ to \in Nat /\ c.start <= to /\ pad + b.used \in Nat /\ pad + b.used <= size
       /\ c.offset + (pad + b.used) = to
  <2>1. PICK o, s, u : o = c.offset /\ s = c.start /\ u = b.used
    OBVIOUS
  <2>2. /\ o \in Nat /\ s \in Nat /\ u \in Nat /\ pad \in Nat /\ off \in Nat /\ n \in Nat /\ size \in Nat
        /\ off = o + pad /\ to = off + u /\ s <= off /\ u <= n /\ pad + n = size
    BY ONLY <1>2, <1>4, <1>5, <1>8, <1>9, <1>11, <1>12, <2>1
  <2>3. to \in Nat /\ s <= to /\ pad + u \in Nat /\ pad + u <= size /\ o + (pad + u) = to
    BY ONLY <2>2
  <2>q. QED
    BY ONLY <2>1, <2>3
<1>14. PICK g : g = Given(am9, b.out)
  OBVIOUS
<1>15. /\ g \in AM9s /\ g.open = am9.open /\ g.recv = am9.recv \o b.out /\ g.installed = am9.installed
       /\ g.contexts = am9.contexts /\ g.title = am9.title /\ ~g.ragged
  BY <1>2, <1>6, <1>12, <1>14, GivenRun
<1>16. CASE Fails
  BY <1>1, <1>16, FailsKeeps
<1>17. CASE to = c.end /\ Pass(ContentDone([c EXCEPT !.misalign = b.mis]), pad + b.used,
                               Finished(g, "content", c.cindex))
  <2>1. PICK newc, newam9 : /\ newc = ContentDone([c EXCEPT !.misalign = b.mis])
                            /\ newam9 = Finished(g, "content", c.cindex)
    OBVIOUS
  <2>2. PICK added : added = IF cia.dlc /\ c.imported # 0 THEN c.inBatch + 1 ELSE c.inBatch
    OBVIOUS
  <2>3. /\ newc \in Datas /\ newc.offset = c.offset /\ newc.state = "Content" /\ newc.misalign = <<>>
        /\ newc.importing = c.importing \ {"content"} /\ newc.cindex = c.cindex + 1
        /\ newc.imported = c.imported + 1 /\ newc.batch = c.batch /\ newc.inBatch = added
        /\ newc.start = c.start /\ newc.end = c.end /\ newc.invalidated = FALSE
    <3>1. added \in Nat /\ c.imported + 1 \in Nat /\ c.cindex + 1 \in Nat
      BY <1>5, <2>2
    <3>2. PICK d : d = [c EXCEPT !.misalign = b.mis]
      OBVIOUS
    <3>3. /\ d \in Datas /\ d.offset = c.offset /\ d.state = "Content" /\ d.misalign = <<>>
          /\ d.importing = c.importing /\ d.cindex = c.cindex /\ d.imported = c.imported /\ d.batch = c.batch
          /\ d.inBatch = c.inBatch /\ d.start = c.start /\ d.end = c.end /\ d.invalidated = FALSE
      BY <1>1, <1>2, <1>12, <1>17, <3>2 DEF Datas
    <3>4. newc = ContentDone(d)
      BY <2>1, <3>2
    <3>5. newc = [d EXCEPT !.imported = c.imported + 1, !.cindex = c.cindex + 1,
                           !.importing = c.importing \ {"content"}, !.inBatch = added]
      BY <2>2, <3>3, <3>4 DEF ContentDone, Datas
    <3>q. QED
      BY <1>5, <3>1, <3>3, <3>5 DEF Datas
  <2>4. /\ newam9 \in AM9s /\ newam9.open = g.open \ {"content"}
        /\ newam9.installed = g.installed \union {<<c.cindex, g.recv>>}
        /\ newam9.contexts = g.contexts /\ newam9.title = g.title
    <3>1. "content" \in Parts /\ c.cindex \in Int
      BY <1>5 DEF Parts
    <3>q. QED
      BY <1>15, <2>1, <3>1, FinishedRun, ZenonT(40)
  <2>5. Pass(newc, pad + b.used, newam9)
    BY <1>17, <2>1
  <2>6. Passed(newc, pad + b.used, newam9) /\ KeptByPass
    <3>1. newam9.title \in {"none", "open"} /\ c.state # "Finalize"
      BY <1>1, <1>2, <1>15, <2>4
    <3>q. QED
      BY ONLY IInv, <1>1, <1>13, <2>3, <2>4, <2>5, <3>1, PassKeeps
  <2>7. /\ SameFile /\ c'.offset = c.end /\ c'.state = "Content" /\ c'.misalign = <<>>
        /\ c'.importing = {"title"} /\ c'.cindex = c.cindex + 1 /\ c'.imported = c.imported + 1
        /\ c'.batch = c.batch /\ c'.inBatch = added /\ c'.start = c.start /\ c'.end = c.end
        /\ am9'.open = {"title"} /\ am9'.installed = am9.installed \union {<<c.cindex, g.recv>>}
        /\ am9'.contexts = am9.contexts
    <3>1. /\ SameFile /\ c'.offset = c.offset + (pad + b.used) /\ c'.state = newc.state
          /\ c'.misalign = newc.misalign /\ c'.importing = newc.importing /\ c'.cindex = newc.cindex
          /\ c'.imported = newc.imported /\ c'.batch = newc.batch /\ c'.inBatch = newc.inBatch
          /\ c'.start = newc.start /\ c'.end = newc.end /\ am9' = newam9
      BY ONLY <2>6 DEF Passed
    <3>2. c.offset + (pad + b.used) = c.end
      BY ONLY <1>13, <1>17
    <3>3. c.importing = {"title", "content"} /\ am9.open = {"title", "content"}
      BY ONLY <1>2, <1>6
    <3>4. newc.importing = {"title"} /\ newam9.open = {"title"}
      BY ONLY <1>15, <2>3, <2>4, <3>3
    <3>q. QED
      BY ONLY <1>15, <2>3, <2>4, <3>1, <3>2, <3>4
  <2>8. \A i : ConAt(i)' = ConAt(i)
    BY <2>7 DEF SameFile, ConAt
  <2>9. InstalledSoFar' /\ Objects' = Objects \union {c.cindex}
    <3>1. g.recv = Bytes(ConAt(c.cindex), ConAt(c.cindex) + cia.con[c.cindex])
      <4>1. g.recv \in Seq(Int) /\ Run(g.recv, <<>>, c.start, c.end)
        BY <1>12, <1>15, <1>17
      <4>2. g.recv = Bytes(c.start, c.end)
        BY ONLY <1>5, <4>1, NoneWaits
      <4>q. QED
        BY <1>6, <4>2
    <3>2. c.cindex # Ticket /\ c.cindex # TMD
      BY <1>5 DEF Ticket, TMD
    <3>q. QED
      BY <1>2, <1>6, <2>7, <3>1, <3>2, InstalledMore
  <2>10. ~InContent'
    BY <2>7 DEF InContent
  <2>11. Placed'
    BY <2>7 DEF Placed
  <2>12. Buffered'
    BY <2>7 DEF Buffered, Early
  <2>13. Opened'
    BY <2>7 DEF Opened
  <2>14. Received'
    BY <2>7, <2>10 DEF Received
  <2>15. NextInFile'
    <3>1. c'.offset + Padding(c.start)' = c.end
      <4>1. PICK s, e, k : s = c.start /\ e = c.end /\ k = cia.con[c.cindex]
        OBVIOUS
      <4>2. s \in Nat /\ e \in Nat /\ k \in Nat /\ e = s + k
        BY ONLY <1>5, <1>6, <1>7, <4>1
      <4>3. ~(e < s) /\ e + 0 = e
        BY ONLY <4>2
      <4>4. c'.offset = e /\ c'.start = s
        BY ONLY <2>7, <4>1
      <4>5. Padding(c.start)' = 0
        BY ONLY <4>3, <4>4 DEF Padding
      <4>q. QED
        BY ONLY <4>1, <4>3, <4>4, <4>5
    <3>2. ASSUME NEW j \in Enabled \union {cia.n}, Between(j)' PROVE ConAt(j) = RoundUp(c.end)
      <4>1. j >= c.cindex + 1 /\ \A k \in Enabled : k < c.cindex + 1 \/ k >= j
        BY <2>7, <3>2 DEF Between, SameFile
      <4>2. j \in Nat
        BY <1>2, <1>7 DEF Layout
      <4>3. c.cindex < j
        BY ONLY <1>5, <4>1, <4>2
      <4>4. ASSUME NEW k \in Enabled PROVE k <= c.cindex \/ k >= j
        <5>1. k \in Nat /\ (k < c.cindex + 1 \/ k >= j)
          BY <1>7, <4>1
        <5>q. QED
          BY ONLY <1>5, <5>1
      <4>5. Follows(c.cindex, j)
        BY <4>3, <4>4 DEF Follows
      <4>q. QED
        BY <1>2, <1>6, <4>5, ZenonT(40) DEF Contents
    <3>q. QED
      BY <2>7, <2>8, <3>1, <3>2 DEF NextInFile, SameFile
  <2>16. InstalledAll'
    <3>1. {i \in Enabled : i < c.cindex + 1} = {i \in Enabled : i < c.cindex} \union {c.cindex}
      <4>1. ASSUME NEW i \in Enabled PROVE i < c.cindex + 1 <=> (i < c.cindex \/ i = c.cindex)
        BY <1>5, <1>7
      <4>q. QED
        BY <1>6, <4>1
    <3>q. QED
      BY <1>6, <2>7, <2>9, <3>1 DEF InstalledAll, SameFile, Early
  <2>17. Batched'
    <3>1. am9.contexts \subseteq Enabled
      BY <1>6 DEF Batched
    <3>2. Past' = {i \in am9.contexts : i < c.cindex + 1}
      BY <2>7 DEF Past
    <3>3. CASE ~cia.dlc
      BY <2>7, <3>1, <3>3 DEF Batched, SameFile
    <3>4. CASE cia.dlc
      <4>1. /\ c.imported = 0 => c.batch = 0
            /\ c.batch = 0 => c.inBatch = 0
            /\ c.batch > 0 => c.batch = Cardinality(am9.contexts) /\ c.inBatch = Cardinality(Past)
            /\ \A i, k \in am9.contexts, j \in Enabled : k <= j /\ j <= i => j \in am9.contexts
            /\ c.imported >= 1 => c.batch > 0 /\ c.cindex \in am9.contexts
        BY <1>1, <1>6, <3>4 DEF Batched
      <4>2. CASE c.imported = 0
        <5>1. c.batch = 0 /\ added = 0 /\ c.imported + 1 = 1
          BY <2>2, <4>1, <4>2
        <5>q. QED
          BY <2>7, <2>10, <3>1, <4>1, <5>1 DEF Batched, SameFile
      <4>3. CASE c.imported >= 1
        <5>1. IsFiniteSet(am9.contexts) /\ am9.contexts \subseteq Nat
          BY <1>7, <3>1, FS_Subset
        <5>2. Cardinality(Past') = Cardinality(Past) + 1
          BY <3>2, <4>1, <4>3, <5>1, BatchCounts DEF Past
        <5>3. added = Cardinality(Past') /\ added > 0 /\ c.batch > 0 /\ c.imported + 1 # 0
          BY <1>5, <2>2, <3>4, <4>1, <4>3, <5>2
        <5>q. QED
          BY <1>5, <2>7, <2>10, <3>1, <4>1, <5>3 DEF Batched, SameFile
      <4>q. QED
        BY <1>5, <4>2, <4>3
    <3>q. QED
      BY <3>3, <3>4, <1>2 DEF Layout
  <2>q. QED
    BY <1>3, <2>6, <2>9, <2>11, <2>12, <2>13, <2>14, <2>15, <2>16, <2>17 DEF IInv, KeptByPass, Going
<1>18. CASE to # c.end /\ Pass([c EXCEPT !.misalign = b.mis], pad + b.used, g)
  <2>1. PICK newc : newc = [c EXCEPT !.misalign = b.mis]
    OBVIOUS
  <2>2. /\ newc \in Datas /\ newc.offset = c.offset /\ newc.state = "Content" /\ newc.misalign = b.mis
        /\ newc.importing = c.importing /\ newc.cindex = c.cindex
        /\ newc.imported = c.imported /\ newc.batch = c.batch /\ newc.inBatch = c.inBatch
        /\ newc.start = c.start /\ newc.end = c.end /\ newc.invalidated = FALSE
    BY <1>1, <1>2, <1>12, <2>1 DEF Datas
  <2>3. Pass(newc, pad + b.used, g)
    BY <1>18, <2>1
  <2>4. Passed(newc, pad + b.used, g) /\ KeptByPass
    <3>1. g.title \in {"none", "open"} /\ c.state # "Finalize"
      BY <1>1, <1>2, <1>15
    <3>q. QED
      BY ONLY IInv, <1>1, <1>13, <1>15, <2>2, <2>3, <3>1, PassKeeps
  <2>5. /\ SameFile /\ c'.offset = to /\ c'.state = "Content" /\ c'.misalign = b.mis
        /\ c'.importing = c.importing /\ c'.cindex = c.cindex /\ c'.imported = c.imported
        /\ c'.batch = c.batch /\ c'.inBatch = c.inBatch /\ c'.start = c.start /\ c'.end = c.end
        /\ am9'.open = {"title", "content"} /\ am9'.installed = am9.installed
        /\ am9'.contexts = am9.contexts /\ am9'.recv = am9.recv \o b.out /\ ~am9'.ragged
    BY <1>2, <1>6, <1>13, <1>15, <2>2, <2>4 DEF Passed
  <2>6. \A i : ConAt(i)' = ConAt(i)
    BY <2>5 DEF SameFile, ConAt
  <2>7. InstalledSoFar' /\ Objects' = Objects
    BY <1>2, <2>5, SameFileKeeps
  <2>8. InContent'
    BY <1>1, <2>5 DEF InContent
  <2>9. Placed'
    BY <2>5 DEF Placed
  <2>10. Buffered'
    BY <2>5 DEF Buffered, Early
  <2>11. Opened'
    BY <1>1, <2>5 DEF Opened
  <2>12. Received'
    <3>1. to < c.end
      BY <1>5, <1>12, <1>13, <1>18
    <3>2. Run(am9'.recv, c'.misalign, c'.start, c'.offset) /\ Whole(Len(am9'.recv)) /\ Len(c'.misalign) < Block
      BY <1>12, <1>18, <2>5
    <3>3. /\ c'.cindex \in Enabled' /\ c'.start = ConAt(c.cindex)'
          /\ c'.end = c'.start + cia'.con[c'.cindex] /\ c'.offset < c'.end
      BY <1>6, <2>5, <2>6, <3>1 DEF SameFile
    <3>q. QED
      BY <2>5, <2>8, <3>2, <3>3 DEF Received
  <2>13. NextInFile'
    BY <2>8 DEF NextInFile
  <2>14. InstalledAll'
    BY <1>6, <2>5, <2>7 DEF InstalledAll, SameFile, Early
  <2>15. Batched'
    BY <1>1, <1>6, <2>5, <2>8 DEF Batched, Past, SameFile
  <2>q. QED
    BY <1>3, <2>4, <2>7, <2>9, <2>10, <2>11, <2>12, <2>13, <2>14, <2>15 DEF IInv, KeptByPass, Going
<1>q. QED
  BY <1>4, <1>11, <1>14, <1>16, <1>17, <1>18

-----------------------------------------------------------------------------
(* The end of the file, and the commands between writes *)

\* The rest of a chunk at the end of the file is dropped.
LEMMA FinalizeKeeps == ASSUME IInv, Finalize PROVE IInv'
<1>1. call = "write" /\ c.state = "Finalize"
  BY DEF Finalize, Running
<1>2. /\ Going /\ InstalledSoFar /\ ChunksFit /\ Layout /\ Contents /\ FlagsInv
      /\ c \in Datas /\ am9 \in AM9s /\ size \in Nat /\ fed \in Nat /\ cia \in CIAs
      /\ c.invalidated = FALSE /\ am9.title \in {"none", "open"} /\ c.importing = am9.open
  BY <1>1, Working
<1>3. FlagsInv'
  BY <1>2, FlagsRest
<1>4. PICK more : \/ Pass(c, size, am9)
                  \/ /\ c' = [c EXCEPT !.offset = more] /\ more \in Nat
                     /\ size' = 0 /\ call' = "none" /\ UNCHANGED <<cia, fed, am9>>
  <2>1. c.offset \in Nat /\ FileEnd \in Nat
    BY <1>2 DEF Datas, Layout
  <2>2. PICK k : k = IF cia.meta = 0 THEN 0 ELSE Padding(FileEnd)
    OBVIOUS
  <2>3. c.offset + k \in Nat
    BY <2>1, <2>2, PaddingFacts
  <2>4. CASE Skip(FileEnd)
    BY <2>4 DEF Skip
  <2>5. CASE /\ c' = [c EXCEPT !.offset = @ + k]
             /\ size' = 0 /\ call' = "none" /\ UNCHANGED <<cia, fed, am9>>
    BY <2>3, <2>5
  <2>q. QED
    BY <2>2, <2>4, <2>5 DEF Finalize
<1>5. /\ SameFile /\ am9' = am9 /\ fed' = fed /\ c'.state = "Finalize" /\ c'.misalign = c.misalign
      /\ c'.importing = c.importing /\ c'.cindex = c.cindex
      /\ ITypeOK' /\ ChunksFit' /\ EndedInOrder' /\ Consumed'
  <2>1. CASE Pass(c, size, am9)
    <3>1. size <= size /\ c.offset = c.offset
      BY <1>2
    <3>2. Passed(c, size, am9) /\ KeptByPass
      BY ONLY IInv, <1>1, <1>2, <2>1, <3>1, PassKeeps
    <3>q. QED
      BY <1>1, <3>2 DEF Passed, KeptByPass
  <2>2. CASE /\ c' = [c EXCEPT !.offset = more] /\ more \in Nat
             /\ size' = 0 /\ call' = "none" /\ UNCHANGED <<cia, fed, am9>>
    <3>1. SameFile
      BY <2>2, FileFixed
    <3>2. /\ c' \in Datas /\ c'.state = "Finalize" /\ c'.misalign = c.misalign
          /\ c'.importing = c.importing /\ c'.cindex = c.cindex /\ c'.invalidated = c.invalidated
      BY <1>1, <1>2, <2>2 DEF Datas
    <3>3. ITypeOK'
      BY <1>2, <2>2, <3>2 DEF ITypeOK
    <3>4. ChunksFit'
      BY <1>2, <2>2, <3>1 DEF ChunksFit, SameFile
    <3>5. EndedInOrder'
      BY <1>2, <2>2, <3>2 DEF EndedInOrder, Live, Ended
    <3>6. Consumed'
      BY <1>2, <2>2, <3>1, <3>2 DEF Going, Consumed, SameFile
    <3>q. QED
      BY <2>2, <3>1, <3>2, <3>3, <3>4, <3>5, <3>6
  <2>q. QED
    BY <1>4, <2>1, <2>2
<1>6. InstalledSoFar' /\ Objects' = Objects
  BY <1>2, <1>5, SameFileKeeps
<1>7. Placed'
  BY <1>5 DEF Placed
<1>8. Buffered'
  BY <1>5 DEF Buffered, Early
<1>9. Opened'
  BY <1>1, <1>2, <1>5 DEF Going, Opened
<1>10. Received'
  BY <1>1, <1>2, <1>5 DEF Going, Received, InContent
<1>11. NextInFile'
  BY <1>5 DEF NextInFile
<1>12. InstalledAll'
  BY <1>1, <1>2, <1>5, <1>6 DEF Going, InstalledAll, Early, SameFile
<1>13. Batched'
  BY <1>1, <1>2, <1>5 DEF Going, Batched, SameFile
<1>q. QED
  BY <1>3, <1>5, <1>6, <1>7, <1>8, <1>9, <1>10, <1>11, <1>12, <1>13 DEF IInv, Going

\* In every state, whole blocks have been written and a DLC's content has its context.
LEMMA InOrder == ASSUME IInv PROVE WritesAligned /\ ContentHasContext
<1>1. CASE ~Live
  BY <1>1 DEF IInv, EndedInOrder
<1>2. CASE Live
  <2>1. Going /\ c.importing = am9.open
    BY <1>2 DEF IInv, FlagsInv, FlagsMatchAM9, Live
  <2>2. am9.open \intersect {"tmd", "content"} # {} => (c.state = "TMD" /\ c.tmdHeader) \/ InContent
    BY <2>1 DEF Going, Opened, InContent
  <2>3. "content" \in am9.open => InContent
    BY <2>1 DEF Going, Opened, InContent
  <2>4. WritesAligned
    BY <2>1, <2>2 DEF Going, Received, WritesAligned
  <2>5. ContentHasContext
    BY <2>1, <2>3 DEF Going, Batched, InContent, ContentHasContext
  <2>q. QED
    BY <2>4, <2>5
<1>q. QED
  BY <1>1, <1>2

\* The client may cancel or finish between any two writes.
LEMMA EndKeeps == ASSUME IInv, CancelInstall \/ FinishInstall PROVE IInv'
<1>1. FlagsInv'
  BY FlagsRest DEF IInv
<1>2. /\ cia \in CIAs /\ c \in Datas /\ am9 \in AM9s /\ size \in Nat /\ fed \in Nat
      /\ InstalledSoFar /\ ChunksFit
  BY Zenon DEF IInv, ITypeOK
<1>3. PICK bf \in BOOLEAN, open \in SUBSET am9.open, title \in {"cancelled", "finished"} :
        /\ c' = [c EXCEPT !.buf = bf] /\ am9' = [am9 EXCEPT !.open = open, !.title = title]
        /\ call' = call /\ cia' = cia /\ size' = size /\ fed' = fed
  <2>1. CASE CancelInstall
    <3>1. am9.open \ c.importing \in SUBSET am9.open
      BY Zenon
    <3>q. QED
      BY <2>1, <3>1, Zenon DEF CancelInstall
  <2>2. CASE FinishInstall
    <3>1. (IF am9.open = {"title"} THEN {} ELSE am9.open) \in SUBSET am9.open
      OBVIOUS
    <3>2. c = [c EXCEPT !.buf = c.buf] /\ c.buf \in BOOLEAN
      BY <1>2 DEF Datas
    <3>q. QED
      BY <2>2, <3>1, <3>2, Zenon DEF FinishInstall
  <2>q. QED
    BY <2>1, <2>2, Zenon
<1>4. SameFile
  BY <1>3, FileFixed
<1>5. /\ c' \in Datas /\ c'.invalidated = c.invalidated /\ c'.imported = c.imported /\ c'.cindex = c.cindex
  BY <1>2, <1>3 DEF Datas
<1>6. /\ am9' \in AM9s /\ am9'.open \subseteq am9.open /\ am9'.title = title /\ am9'.ragged = am9.ragged
      /\ am9'.contexts = am9.contexts /\ am9'.installed = am9.installed
  BY <1>2, <1>3 DEF AM9s
<1>7. ITypeOK'
  BY <1>2, <1>3, <1>5, <1>6 DEF IInv, ITypeOK
<1>8. InstalledSoFar' /\ ChunksFit'
  BY <1>2, <1>3, <1>4, <1>6, SameFileKeeps
<1>9. ~Live'
  BY <1>3, <1>6 DEF Live, Ended
<1>10. EndedInOrder'
  <2>1. WritesAligned /\ ContentHasContext
    BY InOrder
  <2>2. WritesAligned'
    BY <1>5, <1>6, <2>1 DEF WritesAligned
  <2>3. ContentHasContext'
    BY <1>4, <1>5, <1>6, <2>1 DEF ContentHasContext, SameFile
  <2>q. QED
    BY <2>2, <2>3 DEF EndedInOrder
<1>q. QED
  BY <1>1, <1>7, <1>8, <1>9, <1>10 DEF IInv

\* The client writes a chunk, none of which ends inside a block of the TMD.
LEMMA WriteCallKeeps ==
  ASSUME IInv, ~AnyTMDChunk, NEW n \in 1..MaxChunk, WriteCall(n) PROVE IInv'
<1>1. FlagsInv'
  BY FlagsRest DEF IInv
<1> DEFINE last == fed + n
<1>2. /\ call = "none" /\ last <= FileEnd /\ cia' = cia /\ c' = c /\ am9' = am9
      /\ last \in TmdStart..(TmdEnd - 1) => Whole(last - TmdStart)
      /\ c.invalidated => size' = size /\ call' = call /\ fed' = fed
      /\ ~c.invalidated => size' = n /\ call' = "write" /\ fed' = last
  <2>1. call = "none" /\ last <= FileEnd /\ cia' = cia /\ c' = c /\ am9' = am9
    BY DEF WriteCall
  <2>2. AnyTMDChunk \/ last \notin TmdStart..(TmdEnd - 1) \/ Whole(last - TmdStart)
    BY DEF WriteCall, Whole
  <2>3. /\ c.invalidated => size' = size /\ call' = call /\ fed' = fed
        /\ ~c.invalidated => size' = n /\ call' = "write" /\ fed' = last
    BY DEF WriteCall
  <2> HIDE DEF last
  <2>q. QED
    BY <2>1, <2>2, <2>3
<1>3. n \in Nat /\ fed \in Nat /\ size \in Nat /\ ChunksFit
  BY SizesAssumption DEF IInv, ITypeOK
<1>4. SameFile
  BY <1>2, FileFixed
<1>5. CASE c.invalidated
  <2>1. size' = size /\ call' = "none" /\ fed' = fed
    BY <1>2, <1>5
  <2>2. ChunksFit'
    BY <1>3, <1>4, <2>1 DEF ChunksFit, SameFile
  <2>3. ~Live
    BY <1>5 DEF Live
  <2>q. QED
    BY <1>1, <1>2, <1>3, <2>1, <2>2, <2>3, CallKeeps
<1>6. CASE ~c.invalidated
  <2>1. size' = n /\ call' = "write" /\ fed' = fed + n
    BY <1>2, <1>6
  <2>2. ChunksFit'
    BY ONLY <1>2, <1>4, <2>1 DEF ChunksFit, SameFile
  <2>3. Live => Consumed'
    <3>1. ASSUME Live PROVE (call = "none" => size = 0) /\ (c.state # "Finalize" => c.offset + size = fed)
      BY <3>1 DEF IInv, Going, Consumed
    <3>2. c.offset \in Nat
      BY DEF IInv, ITypeOK, Datas
    <3>3. ASSUME Live, c.state # "Finalize" PROVE c.offset + n = fed + n
      <4>1. c.offset = fed
        BY ONLY <1>2, <1>3, <3>1, <3>2, <3>3
      <4>q. QED
        BY ONLY <4>1
    <3>q. QED
      BY <1>2, <1>4, <2>1, <3>3 DEF Consumed, SameFile
  <2>4. fed' \in Nat /\ size' \in Nat
    BY <1>3, <2>1
  <2>q. QED
    BY <1>1, <1>2, <2>1, <2>2, <2>3, <2>4, CallKeeps
<1>q. QED
  BY <1>5, <1>6

\* A chunk that is used up.
LEMMA WriteReturnKeeps == ASSUME IInv, WriteReturn \/ UNCHANGED vars PROVE IInv'
<1>1. FlagsInv'
  BY FlagsRest DEF IInv
<1>2. /\ cia' = cia /\ c' = c /\ am9' = am9 /\ size' = size /\ fed' = fed
      /\ call' = call \/ (size = 0 /\ call' = "none")
  BY DEF WriteReturn, vars
<1>3. /\ size \in Nat /\ fed \in Nat /\ call \in {"none", "write", "fault"} /\ ChunksFit
  BY DEF IInv, ITypeOK
<1>4. SameFile
  BY <1>2, FileFixed
<1>5. ChunksFit'
  BY <1>2, <1>3, <1>4 DEF ChunksFit, SameFile
<1>6. Live => Consumed'
  BY <1>2, <1>4 DEF IInv, Going, Consumed, SameFile
<1>q. QED
  BY <1>1, <1>2, <1>3, <1>5, <1>6, CallKeeps

\* An install begins with nothing open and nothing given.
LEMMA InvInit == ASSUME Init PROVE IInv
<1>1. /\ cia \in CIAs /\ size = 0 /\ call = "none" /\ fed = 0
      /\ c = [state |-> "Header", offset |-> 0, buf |-> FALSE, misalign |-> <<>>,
              tikHeader |-> FALSE, tmdHeader |-> FALSE, importing |-> {},
              cindex |-> 0, imported |-> 0, batch |-> 0, inBatch |-> 0,
              start |-> 0, end |-> 0, invalidated |-> FALSE]
      /\ am9 = [open |-> {}, recv |-> <<>>, ragged |-> FALSE, installed |-> {},
                contexts |-> {}, title |-> "none"]
  BY DEF Init
<1>2. Layout /\ Contents
  BY <1>1, FileFacts
<1>3. FlagsInv
  BY FlagsInit
<1>4. <<>> \in Seq(Int)
  BY EmptySeq
<1>5. c \in Datas
  BY <1>1, <1>4 DEF Datas, States, Early, Parts
<1>6. am9 \in AM9s
  BY <1>1, <1>4 DEF AM9s, Parts
<1>7. ITypeOK
  BY <1>1, <1>5, <1>6 DEF ITypeOK
<1>8. InstalledSoFar /\ Objects = {}
  BY <1>1 DEF InstalledSoFar, Objects
<1>9. ChunksFit
  <2>1. ASSUME 0 \in TmdStart..(TmdEnd - 1) PROVE Whole(0 - TmdStart)
    <3>1. TmdStart \in Nat
      BY <1>2 DEF Layout
    <3>2. 0 - TmdStart = 0
      BY <2>1, <3>1
    <3>q. QED
      BY <3>2, BlockFacts
  <2>q. QED
    BY <1>1, <2>1 DEF ChunksFit
<1>10. Live
  BY <1>1 DEF Live, Ended
<1>11. EndedInOrder
  BY <1>10 DEF EndedInOrder
<1>12. c.state = "Header" /\ c.offset = 0 /\ c.buf = FALSE /\ c.misalign = <<>> /\ c.tikHeader = FALSE
       /\ c.tmdHeader = FALSE /\ c.importing = {} /\ c.cindex = 0 /\ c.imported = 0 /\ c.batch = 0 /\ c.inBatch = 0
       /\ am9.open = {} /\ am9.contexts = {}
  BY <1>1
<1>13. Consumed
  BY <1>1, <1>2, <1>12 DEF Consumed, Layout
<1>14. Placed
  BY <1>2, <1>12 DEF Placed, Layout
<1>15. Buffered
  BY <1>12 DEF Buffered
<1>16. Opened
  BY <1>12 DEF Opened
<1>17. Received
  BY <1>12 DEF Received, InContent
<1>18. NextInFile
  BY <1>12 DEF NextInFile
<1>19. InstalledAll
  BY <1>8, <1>12 DEF InstalledAll, Early
<1>20. Batched
  BY <1>12 DEF Batched
<1>q. QED
  BY <1>3, <1>7, <1>8, <1>9, <1>11, <1>13, <1>14, <1>15, <1>16, <1>17, <1>18, <1>19, <1>20 DEF IInv, Going

\* Every step keeps the invariant.
LEMMA InvNext == ASSUME IInv, [Next]_vars, ~AnyTMDChunk PROVE IInv'
<1>1. ASSUME NEW n \in 1..MaxChunk, WriteCall(n) PROVE IInv'
  BY <1>1, WriteCallKeeps
<1>2. CASE WriteReturn \/ UNCHANGED vars
  BY <1>2, WriteReturnKeeps
<1>3. CASE Header \/ ContentIndex \/ CertChainCopy \/ CertChainInstall
  BY <1>3, HeaderKeeps, ContentIndexKeeps, CertChainCopyKeeps, CertChainInstallKeeps
<1>4. CASE TicketHeader \/ TicketImport \/ TicketWrite \/ TicketFinish
  BY <1>4, TicketHeaderKeeps, TicketImportKeeps, TicketWriteKeeps, TicketFinishKeeps
<1>5. CASE TMDHeader \/ TMDImport \/ TMDWrite \/ TMDFinish
  BY <1>5, TMDHeaderKeeps, TMDImportKeeps, TMDWriteKeeps, TMDFinishKeeps
<1>6. CASE ContentSkip \/ ContentSetup \/ ContentWrite \/ Finalize
  BY <1>6, ContentSkipKeeps, ContentSetupKeeps, ContentWriteKeeps, FinalizeKeeps
<1>7. CASE CancelInstall \/ FinishInstall
  BY <1>7, EndKeeps
<1>q. QED
  BY <1>1, <1>2, <1>3, <1>4, <1>5, <1>6, <1>7 DEF Next, Step

\* For clients that end no chunk inside a block of the TMD, the invariant always holds.
THEOREM IInvariance == ASSUME ~AnyTMDChunk PROVE Spec => []IInv
<1>1. Init => IInv
  BY InvInit
<1>2. IInv /\ [Next]_vars => IInv'
  BY InvNext
<1>q. QED
  BY <1>1, <1>2, PTL DEF Spec

\* Wherever the client splits the file, AM9 has been given exactly the bytes of each
\* ticket, TMD and content by the time it is told to finish it (pipe.c:84-649).
THEOREM BytesAreExact == ASSUME ~AnyTMDChunk PROVE Spec => []InstalledExactly
<1>1. IInv => InstalledExactly
  <2>1. SUFFICES ASSUME IInv, NEW x \in am9.installed
                 PROVE  x[2] = CASE x[1] = Ticket -> Bytes(TikStart, TikEnd)
                                 [] x[1] = TMD -> Bytes(TmdStart, TmdEnd)
                                 [] OTHER -> Bytes(ConAt(x[1]), ConAt(x[1]) + cia.con[x[1]])
    BY DEF InstalledExactly
  <2>2. /\ x[1] \in {Ticket, TMD} \union Enabled
        /\ x[1] = Ticket => x[2] = Bytes(TikStart, TikEnd)
        /\ x[1] = TMD => x[2] = Bytes(TmdStart, TmdEnd)
        /\ x[1] \in Enabled => x[2] = Bytes(ConAt(x[1]), ConAt(x[1]) + cia.con[x[1]])
    BY <2>1 DEF IInv, InstalledSoFar
  <2>3. Ticket # TMD
    BY DEF Ticket, TMD
  <2>4. CASE x[1] = Ticket
    BY <2>2, <2>3, <2>4
  <2>5. CASE x[1] = TMD
    BY <2>2, <2>3, <2>5
  <2>6. CASE x[1] \notin {Ticket, TMD}
    BY <2>2, <2>6
  <2>q. QED
    BY <2>4, <2>5, <2>6
<1>q. QED
  BY <1>1, IInvariance, PTL

\* Every write of the TMD or a content but the last is whole blocks, and starts on
\* one: misalign_buf holds the rest of a chunk back (pipe.c:331-411, 533-612).
THEOREM WritesAreAligned == ASSUME ~AnyTMDChunk PROVE Spec => []WritesAligned
<1>1. IInv => WritesAligned
  BY InOrder
<1>q. QED
  BY <1>1, IInvariance, PTL

\* A DLC content other than the first is imported under a context that was created
\* for it: the batches follow the contents of the file (pipe.c:419-531).
THEOREM ContentsHaveContexts == ASSUME ~AnyTMDChunk PROVE Spec => []ContentHasContext
<1>1. IInv => ContentHasContext
  BY InOrder
<1>q. QED
  BY <1>1, IInvariance, PTL

\* At the end of the file every enabled content is behind, or what is left of the
\* file is nothing that is installed.
LEMMA AllInstalled ==
  ASSUME IInv, fed = FileEnd, TmdEnd < FileEnd, call = "none", Live
  PROVE  Objects = {Ticket, TMD} \union Enabled /\ am9.open = {"title"}
<1>1. Going /\ c.importing = am9.open /\ cia \in CIAs /\ c \in Datas
  BY DEF IInv, FlagsInv, FlagsMatchAM9, Live, ITypeOK
<1>2. Layout /\ Contents
  BY <1>1, FileFacts
<1>3. c.offset \in Nat /\ c.start \in Nat /\ c.cindex \in Nat /\ c.state \in States
  BY <1>1 DEF Datas
<1>4. /\ IdxStart \in Nat /\ IdxEnd \in Nat /\ CrtStart \in Nat /\ CrtEnd \in Nat /\ TikStart \in Nat
      /\ TikEnd \in Nat /\ TmdStart \in Nat /\ TmdEnd \in Nat /\ ConStart \in Nat /\ FileEnd \in Nat
      /\ IdxStart <= IdxEnd /\ IdxEnd <= CrtStart /\ CrtStart <= CrtEnd /\ CrtEnd <= TikStart
      /\ TikStart <= TikEnd /\ TikEnd <= TmdStart /\ TmdStart <= TmdEnd /\ TmdEnd <= ConStart
      /\ cia.tmdHdr \in Nat /\ TmdStart + cia.tmdHdr <= TmdEnd /\ cia.n \in Nat
  BY <1>2 DEF Layout
<1>5. CASE c.state = "Finalize"
  <2>1. am9.open = {"title"} /\ c.cindex = cia.n /\ Objects = {Ticket, TMD} \union {i \in Enabled : i < c.cindex}
    BY <1>1, <1>5 DEF Going, Opened, InstalledAll
  <2>2. {i \in Enabled : i < cia.n} = Enabled
    <3>1. ASSUME NEW i \in Enabled PROVE i < cia.n
      BY <1>2, <1>4 DEF Contents
    <3>q. QED
      BY <3>1
  <2>q. QED
    BY <2>1, <2>2
<1>6. c.state # "Finalize" => c.offset = FileEnd
  <2>1. size = 0 /\ (c.state # "Finalize" => c.offset + size = fed)
    BY <1>1 DEF Going, Consumed
  <2>q. QED
    BY <1>3, <1>4, <2>1
<1>7. CASE c.state \notin {"Content", "Finalize"}
  <2>1. c.offset = FileEnd
    BY <1>6, <1>7
  <2>2. c.offset <= TmdEnd
    <3>1. \/ c.state = "Header" /\ c.offset <= IdxStart
          \/ c.state = "ContentIndex" /\ c.offset <= IdxEnd
          \/ c.state \in {"CertChainCopy", "CertChainInstall"} /\ c.offset <= CrtEnd
          \/ c.state \in {"TicketHeader", "Ticket"} /\ c.offset <= TikEnd
          \/ c.state = "TMDHeader" /\ c.offset <= TmdStart + cia.tmdHdr
          \/ c.state = "TMD" /\ c.offset <= TmdEnd
      BY <1>1, <1>3, <1>7 DEF Going, Placed, States, Early
    <3>q. QED
      BY ONLY <1>3, <1>4, <3>1
  <2>q. QED
    BY ONLY <1>3, <1>4, <2>1, <2>2, TmdEnd < FileEnd
<1>8. CASE InContent
  <2>1. /\ c.offset = FileEnd /\ c.cindex \in Enabled /\ c.offset < c.end
        /\ c.end = ConAt(c.cindex) + cia.con[c.cindex]
    BY <1>1, <1>6, <1>8 DEF Going, Received, InContent
  <2>2. \A i \in Enabled : ConAt(i) \in Nat /\ cia.con[i] \in Nat /\ ConAt(i) + cia.con[i] <= FileEnd
    BY <1>2 DEF Contents
  <2>3. c.end <= FileEnd /\ c.end \in Nat
    BY ONLY <2>1, <2>2
  <2>q. QED
    BY ONLY <1>3, <1>4, <2>1, <2>3
<1>9. CASE c.state = "Content" /\ ~InContent
  <2>1. /\ c.offset = FileEnd /\ "content" \notin c.importing /\ NextInFile
        /\ am9.open = {"title"} /\ Objects = {Ticket, TMD} \union {i \in Enabled : i < c.cindex}
    BY <1>1, <1>6, <1>9 DEF Going, Opened, InstalledAll, InContent
  <2>2. CASE LeftOver = {}
    <3>1. ASSUME NEW i \in Enabled PROVE i < c.cindex
      <4>1. i \in Nat /\ ~(i >= c.cindex)
        BY <1>2, <1>3, <2>2, NextFacts DEF LeftOver
      <4>q. QED
        BY <1>3, <4>1
    <3>q. QED
      BY <2>1, <3>1
  <2>3. CASE LeftOver # {}
    <3>1. PICK off : off = c.offset + Padding(c.start)
      OBVIOUS
    <3>2. off \in Nat /\ off >= FileEnd
      <4>1. Padding(c.start) \in Nat
        BY <1>3, PaddingFacts
      <4>q. QED
        BY ONLY <1>3, <1>4, <2>1, <3>1, <4>1
    <3>3. NextOne \in Enabled /\ ConAt(NextOne) = RoundUp(off)
      BY <1>1, <1>2, <1>9, <2>1, <2>3, <3>1, <3>2, SetupStart
    <3>4. \A i \in Enabled : ConAt(i) \in Nat /\ cia.con[i] \in Nat /\ cia.con[i] > 0 /\ ConAt(i) + cia.con[i] <= FileEnd
      BY <1>2 DEF Contents
    <3>5. PICK at, con : at = ConAt(NextOne) /\ con = cia.con[NextOne]
      OBVIOUS
    <3>6. at \in Nat /\ con \in Nat /\ con > 0 /\ at + con <= FileEnd
      BY ONLY <3>3, <3>4, <3>5
    <3>7. at >= off
      BY <3>2, <3>3, <3>5, Rounding
    <3>q. QED
      BY ONLY <1>4, <3>2, <3>6, <3>7
  <2>q. QED
    BY <2>2, <2>3
<1>q. QED
  BY <1>5, <1>7, <1>8, <1>9

\* When the file has been written to its end and no call has failed, the ticket,
\* the TMD and every enabled content are installed and only the title is open
\* (pipe.c:84-649).
THEOREM AllIsInstalled == ASSUME ~AnyTMDChunk PROVE Spec => []FileEndInstallsAll
<1>1. IInv => FileEndInstallsAll
  BY AllInstalled DEF FileEndInstallsAll, Objects, Live
<1>q. QED
  BY <1>1, IInvariance, PTL
=============================================================================
