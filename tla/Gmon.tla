-------------------------------- MODULE Gmon --------------------------------
(***************************************************************************)
(* The profiler: mcount(), which every instrumented function calls first,  *)
(* counts who calls whom in lists that only grow, and starts a sampler     *)
(* that the system clock runs.  A handler that interrupts mcount() is      *)
(* instrumented too.  The model has one bucket of the hash table; both     *)
(* kinds of records need one unit of memory, the histogram another.        *)
(***************************************************************************)
EXTENDS Integers, Sequences, FiniteSets, SequencesExt

CONSTANTS
  ProgramArcs,                \* the calls <<self, from>> of the program
  HandlerArcs,                \* the sets of calls that handlers may make
  InitArc,                    \* the call that starting the sampler makes
  Slab,                       \* records per slab
  Memory,                     \* units that sbrk() has
  TextBytes, BinBytes,        \* length of the text, and bytes of it in a bin
  MaxMcounts                  \* bound: calls of the program and of handlers

Arcs == ProgramArcs \cup (UNION HandlerArcs) \cup {InitArc}

ASSUME GmonAssumption ==
  /\ \A a \in Arcs : a = <<a[1], a[2]>>
  /\ Slab \in Nat \ {0} /\ Memory \in Nat /\ MaxMcounts \in Nat
  /\ TextBytes \in Nat /\ BinBytes \in Nat \ {0}

VARIABLES
  fns,            \* records of functions, oldest first: [self, arcs]
  slab, slab_ok,  \* records left in the slab, and whether it is memory
  memory,         \* units that sbrk() has left
  need_init,      \* pcsample_need_init
  samples,        \* s_pcsamples: "null", "buffer", or "failed", which is -1
  alarms,         \* how often the sampler's alarm was started
  ticking,        \* whether the system clock runs
  enabled,        \* whether the processor takes interrupts
  mcounts,        \* calls of mcount() that run, the innermost last
  made,           \* calls that every arc stands for
  handler_arcs,   \* the calls that the handlers make
  wild            \* whether something was written outside of all buffers

memoryVars == <<slab, slab_ok, memory, wild>>
samplerVars == <<need_init, samples, alarms, ticking>>
gmonVars == <<fns, memoryVars, samplerVars, enabled, mcounts, made,
              handler_arcs>>

GmonInit ==
  /\ fns = << >> /\ slab = 0 /\ slab_ok = FALSE /\ memory = Memory
  /\ need_init = TRUE /\ samples = "null" /\ alarms = 0 /\ ticking = FALSE
  /\ enabled = TRUE /\ mcounts = << >> /\ made = [a \in Arcs |-> 0]
  /\ wild = FALSE /\ handler_arcs \in HandlerArcs

Mcount(arc, by_handler) ==
  [pc |-> "find", self |-> arc[1], from |-> arc[2], fn |-> 0, arc |-> 0,
   count |-> 0, context |-> TRUE, handler |-> by_handler]

Top == mcounts[Len(mcounts)]
InMcount(place) == mcounts # << >> /\ Top.pc = place
TopIs(frame) == mcounts' = [mcounts EXCEPT ![Len(mcounts)] = frame]
GoesTo(place) == TopIs([Top EXCEPT !.pc = place])
Choose(test, yes, no) == GoesTo(IF test THEN yes ELSE no)

(* The newest record is the first that a search finds; 0 is none.          *)
FindFunction(self) ==
  SelectLastInSeq(fns, LAMBDA f : f.self = self)
FindArc(fn, from) ==
  SelectLastInSeq(fns[fn].arcs, LAMBDA a : a.from = from)

Total == Cardinality(UNION {{a} \X (1 .. made[a]) : a \in Arcs})
Room == Total + Len(mcounts) < MaxMcounts

ProgramMcounts(arc) ==
  /\ mcounts = << >> /\ Room
  /\ mcounts' = <<Mcount(arc, FALSE)>>
  /\ UNCHANGED <<fns, memoryVars, samplerVars, enabled, made>>

HandlerMcounts(arc) ==
  /\ enabled /\ Room
  /\ mcounts' = Append(mcounts, Mcount(arc, TRUE)) /\ enabled' = FALSE
  /\ UNCHANGED <<fns, memoryVars, samplerVars, made>>

SearchFunctions ==
  /\ InMcount("find")
  /\ LET k == FindFunction(Top.self)
     IN  TopIs([Top EXCEPT !.fn = k,
                           !.pc = IF k = 0 THEN "record" ELSE "walk"])
  /\ UNCHANGED <<fns, memoryVars, samplerVars, enabled, made>>

SearchArcs ==
  /\ InMcount("walk")
  /\ LET k == FindArc(Top.fn, Top.from)
     IN  TopIs([Top EXCEPT !.arc = k,
                           !.pc = IF k = 0 THEN "record" ELSE "load"])
  /\ UNCHANGED <<fns, memoryVars, samplerVars, enabled, made>>

LoadCount ==
  /\ InMcount("load")
  /\ TopIs([Top EXCEPT !.count = fns[Top.fn].arcs[Top.arc].count,
                       !.pc = "store"])
  /\ UNCHANGED <<fns, memoryVars, samplerVars, enabled, made>>

StoreCount ==
  /\ InMcount("store") /\ GoesTo("return")
  /\ fns' = [fns EXCEPT ![Top.fn].arcs[Top.arc].count = Top.count + 1]
  /\ UNCHANGED <<memoryVars, samplerVars, enabled, made>>

__mcount_record ==
  /\ InMcount("record") /\ Choose(need_init, "clear", "disable")
  /\ UNCHANGED <<fns, memoryVars, samplerVars, enabled, made>>

ClearNeedInit ==
  /\ InMcount("clear") /\ GoesTo("rate")
  /\ need_init' = FALSE
  /\ UNCHANGED <<fns, memoryVars, samples, alarms, ticking, enabled, made>>

nios2_pcsample_init ==
  /\ InMcount("rate") /\ Choose(ticking, "buffer", "disable")
  /\ need_init' = (need_init \/ ~ ticking)
  /\ UNCHANGED <<fns, memoryVars, samples, alarms, ticking, enabled, made>>

AllocateHistogram ==
  /\ InMcount("buffer") /\ GoesTo("start")
  /\ samples' = IF memory > 0 THEN "buffer" ELSE "failed"
  /\ memory' = IF memory > 0 THEN memory - 1 ELSE 0
  /\ wild' = (wild \/ memory = 0)                      \* memset()
  /\ UNCHANGED <<fns, slab, slab_ok, need_init, alarms, ticking, enabled,
                 made>>

(* alt_alarm_start() is instrumented too: mcount() calls itself.           *)
StartSampler ==
  /\ InMcount("start")
  /\ mcounts' = Append([mcounts EXCEPT ![Len(mcounts)].pc = "started"],
                         Mcount(InitArc, FALSE))
  /\ UNCHANGED <<fns, memoryVars, samplerVars, enabled, made>>

SamplerStarted ==
  /\ InMcount("started") /\ GoesTo("disable")
  /\ alarms' = alarms + 1 /\ need_init' = FALSE
  /\ UNCHANGED <<fns, memoryVars, samples, ticking, enabled, made>>

(* Mutant: interrupts stay enabled.                                        *)
NoDisable ==
  /\ InMcount("disable") /\ Choose(Top.fn = 0, "function", "arc")
  /\ UNCHANGED <<fns, memoryVars, samplerVars, enabled, made>>

DisableInterrupts ==
  /\ InMcount("disable")
  /\ TopIs([Top EXCEPT !.context = enabled,
                        !.pc = IF Top.fn = 0 THEN "function" ELSE "arc"])
  /\ enabled' = FALSE
  /\ UNCHANGED <<fns, memoryVars, samplerVars, made>>

mcount_allocate ==
  LET full == slab = 0
      ok == IF full THEN memory >= Slab ELSE slab_ok
  IN  /\ slab' = (IF full THEN Slab ELSE slab) - 1 /\ slab_ok' = ok
      /\ memory' = IF full /\ ok THEN memory - Slab ELSE memory
      /\ wild' = (wild \/ ~ ok)

AddFunction ==
  /\ InMcount("function") /\ mcount_allocate
  /\ fns' = Append(fns, [self |-> Top.self, arcs |-> << >>])
  /\ TopIs([Top EXCEPT !.fn = Len(fns) + 1, !.pc = "arc"])
  /\ UNCHANGED <<samplerVars, enabled, made>>

AddArc ==
  /\ InMcount("arc") /\ mcount_allocate /\ GoesTo("enable")
  /\ fns' = [fns EXCEPT ![Top.fn].arcs =
                          Append(@, [from |-> Top.from, count |-> 1])]
  /\ UNCHANGED <<samplerVars, enabled, made>>

RestoreInterrupts ==
  /\ InMcount("enable") /\ GoesTo("return")
  /\ enabled' = Top.context
  /\ UNCHANGED <<fns, memoryVars, samplerVars, made>>

McountReturns ==
  /\ InMcount("return")
  /\ mcounts' = Front(mcounts)
  /\ made' = [made EXCEPT ![<<Top.self, Top.from>>] = @ + 1]
  /\ enabled' = (enabled \/ Top.handler)
  /\ UNCHANGED <<fns, memoryVars, samplerVars>>

ClockStarts ==
  /\ ~ ticking /\ ticking' = TRUE
  /\ UNCHANGED <<fns, memoryVars, need_init, samples, alarms, enabled, mcounts,
                 made>>

nios2_pcsample(ea) ==
  /\ enabled /\ alarms > 0 /\ ea < TextBytes
  /\ LET bin == ea \div BinBytes
     IN  wild' = (wild \/ (samples # "null" /\
                    (samples = "failed" \/ bin >= TextBytes \div BinBytes)))
  /\ UNCHANGED <<fns, slab, slab_ok, memory, samplerVars, enabled, mcounts,
                 made>>

GmonStep ==
  \/ \E arc \in ProgramArcs : ProgramMcounts(arc)
  \/ \E arc \in handler_arcs : HandlerMcounts(arc)
  \/ SearchFunctions \/ SearchArcs \/ LoadCount \/ StoreCount
  \/ __mcount_record \/ ClearNeedInit \/ nios2_pcsample_init
  \/ AllocateHistogram \/ StartSampler \/ SamplerStarted
  \/ DisableInterrupts \/ AddFunction \/ AddArc \/ RestoreInterrupts
  \/ McountReturns \/ ClockStarts
  \/ \E ea \in 0 .. TextBytes : nios2_pcsample(ea)

GmonNext == GmonStep /\ UNCHANGED handler_arcs

GmonSpec == GmonInit /\ [][GmonNext]_gmonVars
-----------------------------------------------------------------------------
(* What the host adds up for an arc: the counts of all its copies.         *)
Copies(a) ==
  UNION {{f} \X {k \in DOMAIN fns[f].arcs : fns[f].arcs[k].from = a[2]} :
           f \in {g \in DOMAIN fns : fns[g].self = a[1]}}
Counts(a) ==
  UNION {{c} \X (1 .. fns[c[1]].arcs[c[2]].count) : c \in Copies(a)}
Counted(a) == Cardinality(Counts(a))
Pending(a) ==
  Cardinality({k \in DOMAIN mcounts :
                 /\ <<mcounts[k].self, mcounts[k].from>> = a
                 /\ mcounts[k].pc \in {"enable", "return"}})

GmonTypeOK ==
  /\ slab \in 0 .. Slab /\ memory \in 0 .. Memory
  /\ samples \in {"null", "buffer", "failed"}
  /\ alarms > 0 => samples # "null" /\ ticking
  /\ \A f \in DOMAIN fns : fns[f].self \in {a[1] : a \in Arcs}
  /\ ~ enabled => mcounts # << >>

(* A search finds no function without arcs (alt_mcount.S: there will       *)
(* always be at least one arc).                                            *)
AlwaysAnArc ==
  enabled \/ InMcount("walk") => \A f \in DOMAIN fns : fns[f].arcs # << >>

(* Every call that has returned is in the lists, and none is counted that  *)
(* was not made, whatever interrupts what.                                 *)
NothingForgotten ==
  \A a \in Arcs : /\ made[a] > 0 => Counted(a) > 0
                  /\ Counted(a) <= made[a] + Pending(a)

(* Every call is counted (alt_gmon.c: the number of times this arc is      *)
(* executed is recorded in the field count).                               *)
CallsCounted == \A a \in Arcs : Counted(a) = made[a] + Pending(a)

(* Whatever interrupts mcount(), its lists stay searchable and know every  *)
(* arc; if handlers have arcs of their own, they count every call, too.    *)
OwnArcs ==
  /\ handler_arcs \cap (ProgramArcs \cup {InitArc}) = {}
  /\ InitArc \notin ProgramArcs
ArcsKnown ==
  /\ GmonTypeOK /\ NothingForgotten /\ AlwaysAnArc
  /\ OwnArcs => CallsCounted

(* The sampler is started once (alt_gmon.c: called until it returns zero), *)
(* although starting it calls mcount().                                    *)
StartedOnce ==
  alarms + Cardinality({k \in DOMAIN mcounts : mcounts[k].pc = "started"}) <= 1

(* The profiler writes only to memory that sbrk() gave it.                 *)
OwnMemory == ~ wild

(* A second copy of an arc begins when the first has a count of one        *)
(* (alt_gmon.c: two copies of the same arc, both with count=1).            *)
CopiesAreNew ==
  [][\A a \in Arcs : \A c \in Copies(a) :
       Copies(a)' # Copies(a) => fns[c[1]].arcs[c[2]].count = 1]_gmonVars
=============================================================================
