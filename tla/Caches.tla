------------------------------- MODULE Caches -------------------------------
(***************************************************************************)
(* The cache functions of the HAL on a processor with a write-back data    *)
(* cache and an instruction cache, both direct mapped.  Instead of values  *)
(* the model has, for every byte, whether the newest value is in memory or *)
(* in the data cache only.  While a function runs, interrupt handlers use  *)
(* lines of their own.                                                     *)
(***************************************************************************)
EXTENDS Integers, Sequences

CONSTANTS
  LineSize, DLines, ILines,   \* bytes of a line, and lines of the caches
  Size,                       \* bytes of memory
  FlushAddress,               \* NIOS2_FLUSHDA_SUPPORTED
  NoLine,                     \* what an empty line of a cache holds
  WholeLines,                 \* whether blocks to discard or remap are lines
  Called,                     \* the functions that are called
  MaxRange                    \* bound: the longest region

ASSUME CachesAssumption ==
  /\ LineSize \in Nat \ {0} /\ DLines \in Nat \ {0} /\ ILines \in Nat \ {0}
  /\ Size \in Nat /\ Size % LineSize = 0 /\ MaxRange \in Nat
  /\ FlushAddress \in BOOLEAN /\ WholeLines \in BOOLEAN /\ NoLine \notin Nat
  /\ Called \subseteq {"dcache_flush", "no_writeback", "icache_flush",
                       "remap_uncached", "load"}

VARIABLES
  dtag,           \* the line that each line of the data cache holds
  dirty,          \* bytes that are newer in the data cache than in memory
  older,          \* bytes that are older in the data cache than in memory
  lost,           \* bytes outside the region that a function discarded
  itag, istale,   \* the instruction cache, and its lines that are outdated
  uncached,       \* bytes that the program uses through uncached pointers
  request,        \* the function that runs: [fn, start, len]
  work, cursor    \* the loops it still has to do, and the variable of the loops

data == <<dtag, dirty, older, lost>>
code == <<itag, istale>>
cachesVars == <<data, code, uncached, request, work, cursor>>

Addr == 0 .. Size - 1
Line(a) == a \div LineSize
Bytes(l) == {a \in Addr : Line(a) = l}
DIndex(l) == l % DLines
IIndex(l) == l % ILines
Region(start, len) == {a \in Addr : start <= a /\ a < start + len}
LinesOf(S) == {Line(a) : a \in S}

NoRequest == [fn |-> "none", start |-> 0, len |-> 0]

CachesInit ==
  /\ dtag = [x \in 0 .. DLines - 1 |-> NoLine] /\ dirty = {} /\ older = {}
  /\ lost = {} /\ itag = [x \in 0 .. ILines - 1 |-> NoLine] /\ istale = {}
  /\ uncached = {} /\ work = << >> /\ cursor = 0
  /\ request = NoRequest

(* Line x of the data cache is written back, if it is dirty, and emptied   *)
(* or taken by line l.                                                     *)
Replace(x, l) ==
  /\ dirty' = dirty \ Bytes(dtag[x]) /\ older' = older \ Bytes(dtag[x])
  /\ dtag' = [dtag EXCEPT ![x] = l]
  /\ UNCHANGED lost

Invalidate(x) == Replace(x, NoLine)

Fill(l) ==
  LET x == DIndex(l)
  IN  IF dtag[x] = l THEN UNCHANGED data ELSE Replace(x, l)

Store(a) ==
  LET x == DIndex(Line(a))
      kept == IF dtag[x] = Line(a) THEN {} ELSE Bytes(dtag[x])
  IN  /\ dirty' = (dirty \ kept) \cup {a} /\ older' = (older \ kept) \ {a}
      /\ dtag' = [dtag EXCEPT ![x] = Line(a)]
      /\ istale' = istale \cup {y \in DOMAIN itag : itag[y] = Line(a)}
      /\ UNCHANGED <<lost, itag>>

Fetch(l) ==
  /\ itag' = [itag EXCEPT ![IIndex(l)] = l]
  /\ istale' = IF dirty \cap Bytes(l) = {} THEN istale \ {IIndex(l)}
               ELSE istale \cup {IIndex(l)}

StoreUncached(a) ==
  /\ dirty' = dirty \ {a}
  /\ older' = IF dtag[DIndex(Line(a))] = Line(a) THEN older \cup {a} ELSE older
  /\ UNCHANGED <<dtag, lost>>

(* The instructions of the loops.                                          *)
flushd(a) == Invalidate(DIndex(Line(a)))

ALT_FLUSH_DATA(a) ==
  IF FlushAddress /\ dtag[DIndex(Line(a))] # Line(a)
  THEN UNCHANGED data
  ELSE flushd(a)

ALT_FLUSH_DATA_NO_WRITEBACK(a) ==        \* initda
  IF dtag[DIndex(Line(a))] # Line(a)
  THEN UNCHANGED data
  ELSE /\ dtag' = [dtag EXCEPT ![DIndex(Line(a))] = NoLine]
       /\ dirty' = dirty \ Bytes(Line(a)) /\ older' = older \ Bytes(Line(a))
       /\ lost' = IF Line(a) \in LinesOf(Region(request.start, request.len))
                  THEN lost ELSE lost \cup (dirty \cap Bytes(Line(a)))

flushi(a) ==
  /\ itag' = [itag EXCEPT ![IIndex(Line(a))] = NoLine]
  /\ istale' = istale \ {IIndex(Line(a))}

Instruction(op, a) ==
  \/ op = "flush"   /\ ALT_FLUSH_DATA(a) /\ UNCHANGED code
  \/ op = "flushd"  /\ flushd(a) /\ UNCHANGED code
  \/ op = "discard" /\ ALT_FLUSH_DATA_NO_WRITEBACK(a) /\ UNCHANGED code
  \/ op = "flushi"  /\ flushi(a) /\ UNCHANGED data
  \/ op = "copy"    /\ Store(a)

(* The loops of the functions: [op, start, end].                           *)
Sweep(op, start, len) == [op |-> op, start |-> start, end |-> start + len]
Shorter(a, b) == IF a < b THEN a ELSE b

alt_dcache_flush(start, len) ==
  Sweep("flush", start,
       IF FlushAddress THEN len ELSE Shorter(len, DLines * LineSize))
alt_dcache_flush_no_writeback(start, len) == Sweep("discard", start, len)
alt_dcache_flush_all == Sweep("flushd", 0, DLines * LineSize)

alt_icache_flush(start, len) ==
  Sweep("flushi", start, Shorter(len, ILines * LineSize))
alt_icache_flush_all == alt_icache_flush(0, ILines * LineSize)

alt_load(start, len) ==                  \* a section is copied to its place
  <<Sweep("copy", start, len), alt_dcache_flush_all, alt_icache_flush_all>>

Loops(fn, start, len) ==
  CASE fn = "dcache_flush" -> <<alt_dcache_flush(start, len)>>
    [] fn = "no_writeback" -> <<alt_dcache_flush_no_writeback(start, len)>>
    [] fn = "icache_flush" -> <<alt_icache_flush(start, len)>>
    [] fn = "remap_uncached" -> <<alt_dcache_flush(start, len)>>
    [] fn = "load" -> alt_load(start, len)

OnLines(start, len) == start % LineSize = 0 /\ len % LineSize = 0

CallFunction(fn, start, len) ==
  /\ work = << >> /\ start + len <= Size
  /\ fn \in {"no_writeback", "remap_uncached"} /\ WholeLines =>
       OnLines(start, len)
  /\ fn = "load" => OnLines(start, len)
  /\ Region(start, len) \cap uncached = {}
  /\ request' = [fn |-> fn, start |-> start, len |-> len]
  /\ work' = Loops(fn, start, len) /\ cursor' = start
  /\ UNCHANGED <<data, code, uncached>>

Iterate ==
  /\ work # << >> /\ cursor < Head(work).end
  /\ Instruction(Head(work).op, cursor)
  /\ cursor' = cursor + (IF Head(work).op = "copy" THEN 1 ELSE LineSize)
  /\ UNCHANGED <<uncached, request, work>>

Returns ==
  /\ work' = Tail(work) /\ cursor' = IF Len(work) > 1 THEN work[2].start ELSE 0
  /\ uncached' = IF request.fn = "remap_uncached"
                 THEN uncached \cup Region(request.start, request.len)
                 ELSE uncached
  /\ request' = IF Len(work) > 1 THEN request ELSE NoRequest

(* Mutant: one more line is always flushed.                                *)
EndLoopAlways ==
  /\ work # << >> /\ cursor >= Head(work).end
  /\ Instruction(Head(work).op, cursor)
  /\ Returns

(* For an unaligned region one more line is flushed.                       *)
EndLoop ==
  /\ work # << >> /\ cursor >= Head(work).end
  /\ IF Head(work).start % LineSize # 0
     THEN Instruction(Head(work).op, cursor)
     ELSE UNCHANGED <<data, code>>
  /\ Returns

alt_remap_cached(start, len) ==
  /\ work = << >> /\ Region(start, len) # {}
  /\ Region(start, len) \subseteq uncached
  /\ WholeLines => OnLines(start, len)
  /\ uncached' = uncached \ Region(start, len)
  /\ UNCHANGED <<data, code, request, work, cursor>>

(* What the program does between the calls, and handlers in between.       *)
Usable ==
  IF work = << >> THEN Addr \ uncached
  ELSE IF request.fn = "load" THEN {}
  ELSE {a \in Addr \ uncached :
          Line(a) \notin LinesOf(Region(request.start, request.len))}

Access ==
  /\ \/ \E a \in Usable : Store(a)
     \/ \E l \in LinesOf(Usable) : Fill(l) /\ UNCHANGED code
     \/ \E l \in LinesOf(Usable) : Fetch(l) /\ UNCHANGED data
     \/ \E a \in uncached : StoreUncached(a) /\ UNCHANGED code
  /\ UNCHANGED <<uncached, request, work, cursor>>

CachesNext ==
  \/ \E fn \in Called, start \in Addr, len \in 0 .. MaxRange :
       CallFunction(fn, start, len)
  \/ \E start \in Addr, len \in 0 .. MaxRange : alt_remap_cached(start, len)
  \/ Iterate \/ EndLoop \/ Access

CachesSpec == CachesInit /\ [][CachesNext]_cachesVars
-----------------------------------------------------------------------------
CachesTypeOK ==
  /\ dtag \in [0 .. DLines - 1 -> LinesOf(Addr) \cup {NoLine}]
  /\ itag \in [0 .. ILines - 1 -> LinesOf(Addr) \cup {NoLine}]
  /\ \A a \in dirty \cup older : dtag[DIndex(Line(a))] = Line(a)
  /\ istale \subseteq {x \in DOMAIN itag : itag[x] # NoLine}
  /\ lost \subseteq Addr /\ uncached \subseteq Addr

Requested == Region(request.start, request.len)

(* When a function that flushes the data cache returns, memory has the     *)
(* newest value of every byte of the region, and the cache none of them    *)
(* (alt_dcache_flush.c), however the region lies to the lines.             *)
RegionFlushed ==
  [][work # << >> /\ work' = << >>
       /\ request.fn \in {"dcache_flush", "no_writeback"} =>
         /\ Requested \cap dirty' = {}
         /\ \A l \in LinesOf(Requested) : dtag'[DIndex(l)] # l]_cachesVars

(* When alt_load() or alt_icache_flush() returns, no instruction of the    *)
(* section is one from before (alt_load.c: the caches are in synch).       *)
CodeCurrent ==
  [][work # << >> /\ work' = << >>
       /\ request.fn \in {"icache_flush", "load"} =>
         \A l \in LinesOf(Requested) :
           /\ itag'[IIndex(l)] = l => IIndex(l) \notin istale'
           /\ request.fn = "load" => dirty' \cap Bytes(l) = {}]_cachesVars

(* Only lines of the region are discarded (alt_dcache_flush_no_writeback.c:*)
(* the data cache is flushed for a memory region).                         *)
RegionOnly == lost = {}

(* The cache never holds an old copy of what the program wrote through an  *)
(* uncached pointer, to write it back over the new one                     *)
(* (alt_uncached_malloc.c: a block of uncached memory).                    *)
UncachedIsNewest == older = {}

(* No newer value is discarded or overwritten by the data cache, and what  *)
(* a function of the caches is called for is done when it returns.         *)
CachesRight ==
  /\ [](CachesTypeOK /\ RegionOnly /\ UncachedIsNewest)
  /\ RegionFlushed /\ CodeCurrent
=============================================================================
