------------------------------- MODULE Allocator -------------------------------
(***************************************************************************)
(* source/allocator.c: first-fit allocation from one array of words.  A    *)
(* block is a word with its size and that many words; the last word of a   *)
(* free block is the index of the next free block, memSize after the last. *)
(*                                                                         *)
(* One call is one step: nothing in the allocator makes two calls at once  *)
(* safe, and nothing in it is read by its callers.  A client overwrites    *)
(* all of a block it is given.                                             *)
(***************************************************************************)
EXTENDS Integers, FiniteSets

CONSTANTS
  memSize,    \* words of memory
  MaxNum      \* bound: the most words asked for at once

ASSUME AllocatorAssumption == memSize \in Nat /\ memSize >= 2 /\ MaxNum \in Nat \ {0}

VARIABLES
  mem, avail,  \* the memory, and the first free block
  live,        \* the blocks in use, and the size each was asked for
  failed       \* the size of a request that was just refused, or 0

memvars == <<mem, avail, live, failed>>

Indices == 0..(memSize - 1)
ClientData == -1

blockSize(x) == mem[x]
linkToNext(x) == x + mem[x]
next(x) == mem[linkToNext(x)]

meminit ==
  /\ mem = [i \in Indices |-> IF i = 0 THEN memSize - 1
                              ELSE IF i = memSize - 1 THEN memSize ELSE ClientData]
  /\ avail = 0 /\ live = {} /\ failed = 0

\* The way along the links: the first free block, the next one and so on, and
\* memSize when there are no more.  A block has two words at least.
Follow(x) == IF x \in Indices /\ linkToNext(x) \in Indices THEN next(x) ELSE memSize

FreeAt ==
  LET at[k \in 0..(memSize \div 2)] == IF k = 0 THEN avail ELSE Follow(at[k - 1])
  IN  at

\* The first place on that way of those in K.
Foremost(K) == CHOOSE k \in K : \A j \in K : k <= j

-----------------------------------------------------------------------------
(* malloc *)

\* Mutant: the rest of the block begins one word early.
BugSplit(cur, num) == cur + num

\* Where the rest of a block begins: after its size and its words.
Split(cur, num) == cur + num + 1

\* A rest of a single word, too small for a block, stays with the block.
SizeGiven(cur, num) == IF blockSize(cur) - num = 1 THEN num + 1 ELSE num

Fits(num) == {k \in DOMAIN FreeAt : FreeAt[k] \in Indices /\ blockSize(FreeAt[k]) >= num}

\* The client overwrites the words of the block, but not its size.
MallocFits(num) ==
  LET k == Foremost(Fits(num))
      cur == FreeAt[k]
      size == SizeGiven(cur, num)
      whole == blockSize(cur) = size
      after == IF whole THEN next(cur) ELSE Split(cur, num)
      linked == IF k = 0 THEN mem ELSE [mem EXCEPT ![linkToNext(FreeAt[k - 1])] = after]
      cut == IF whole THEN linked
             ELSE [linked EXCEPT ![Split(cur, num)] = blockSize(cur) - num - 1]
  IN
  /\ Fits(num) # {}
  /\ avail' = IF k = 0 THEN after ELSE avail
  /\ mem' = [i \in Indices |-> IF i = cur THEN size
                               ELSE IF i \in (cur + 1)..(cur + size) THEN ClientData ELSE cut[i]]
  /\ live' = live \union {[at |-> cur, asked |-> num]}
  /\ failed' = 0

MallocFails(num) ==
  /\ Fits(num) = {}
  /\ failed' = num
  /\ UNCHANGED <<mem, avail, live>>

-----------------------------------------------------------------------------
(* free *)

\* A block before the first free one becomes the first, and takes it in if it
\* is its neighbour.
FreeBefore(b) ==
  /\ b < avail
  /\ mem' = IF linkToNext(b) + 1 = avail /\ avail < memSize
            THEN [mem EXCEPT ![b] = @ + blockSize(avail) + 1]
            ELSE [mem EXCEPT ![linkToNext(b)] = avail]
  /\ avail' = b

\* The first place on the way that is not before b.
Behind(b) == Foremost({k \in DOMAIN FreeAt : FreeAt[k] >= b})

\* Mutant: the link of the block is not set when it joins the one before.
BugJoinLosesLink(b) ==
  /\ b >= avail
  /\ LET cur == FreeAt[Behind(b)]
         prev == FreeAt[Behind(b) - 1]
     IN  mem' = IF linkToNext(prev) + 1 = b
                THEN [mem EXCEPT ![prev] = @ + blockSize(b) + 1]
                ELSE [mem EXCEPT ![linkToNext(prev)] = b, ![linkToNext(b)] = cur]
  /\ UNCHANGED avail

\* Otherwise it joins the free block before it, if that is its neighbour, and
\* then also the one after it.
FreeAfter(b) ==
  /\ b >= avail
  /\ LET cur == FreeAt[Behind(b)]
         prev == FreeAt[Behind(b) - 1]
         joined == blockSize(prev) + blockSize(b) + 1
     IN  mem' =
           IF linkToNext(prev) + 1 # b
           THEN [mem EXCEPT ![linkToNext(prev)] = b, ![linkToNext(b)] = cur]
           ELSE IF linkToNext(b) + 1 = cur /\ cur < memSize
           THEN [mem EXCEPT ![prev] = joined + blockSize(cur) + 1]
           ELSE [mem EXCEPT ![prev] = joined, ![linkToNext(b)] = cur]
  /\ UNCHANGED avail

Free ==
  \E b \in live :
    /\ FreeBefore(b.at) \/ FreeAfter(b.at)
    /\ live' = live \ {b}
    /\ failed' = 0

AllocatorNext == (\E num \in 1..MaxNum : MallocFits(num) \/ MallocFails(num)) \/ Free

AllocatorSpec == meminit /\ [][AllocatorNext]_memvars

-----------------------------------------------------------------------------
(* Properties *)

\* The words of a block, its size included.
Block(x) == x..(x + mem[x])

\* Every word of the memory is in exactly one block, in use or free: nothing is
\* given out twice, and nothing is lost however often blocks are split and
\* joined.
BlocksTileMemory ==
  LET blocks == {b.at : b \in live} \union ({FreeAt[k] : k \in DOMAIN FreeAt} \intersect Indices) IN
  \A i \in Indices : Cardinality({x \in blocks : i \in Block(x)}) = 1

\* The allocator implements a heap: what a client gets is as large as it asked
\* for, and its own.
AbstractHeap == INSTANCE Heap
  WITH Words <- memSize, live <- {[at |-> b.at + 1, size |-> b.asked] : b \in live}

ImplementsHeap == AbstractHeap!Spec
=============================================================================
