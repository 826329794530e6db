--------------------------- MODULE ProgramProofs ----------------------------
(***************************************************************************)
(* Proofs about the floating point instruction, the functions that ask the *)
(* determinant engine, and main()'s measurements. FpAlu: the CPU takes the *)
(* result of its own instruction, for every field of numbers and every set *)
(* of operands, provided done was down when it issued it. The argument:    *)
(* from the start until done the counter and the number of cycles the      *)
(* cores have worked add up to the latency of the core that is used, so    *)
(* that the counter passes zero when the result is there, and the simple   *)
(* cases are answered with what the core would have calculated. DetHost:   *)
(* every determinant reaches the call that asked for it, for any number of *)
(* calls and dimensions. The argument: whoever may write the flag, the     *)
(* result and the function that are shared is known from where the         *)
(* program, its service routine and the engine are. SystemTime: main()     *)
(* prints the time the notch engine has worked, right to a tick and two    *)
(* latencies. Exceptions: neither the program nor a handler notices any,   *)
(* for all code and interrupts. The argument: the frames on the stack tell *)
(* which instruction is next, whether interrupts are allowed, and which.   *)
(***************************************************************************)
EXTENDS FpAlu, DetHost, SystemTime, Exceptions, SequenceTheorems,
  WellFoundedInduction, TLAPS
-----------------------------------------------------------------------------
(* FpAlu.                                                                  *)

(* Arithmetic modulo Prime, as far as the simple cases need it.            *)
LEMMA SmallMod == \A x \in Number : x % Prime = x
  BY PrimeAssumption DEF Number

LEMMA ModNumber == \A x \in Int : x % Prime \in Number
  BY PrimeAssumption DEF Number

(* The four operations, one by one.                                        *)
LEMMA Distinct ==
  /\ ADD # SUB /\ ADD # MUL /\ ADD # DIV
  /\ SUB # MUL /\ SUB # DIV /\ MUL # DIV
  BY DEF ADD, SUB, MUL, DIV

LEMMA FourOperations == Operations = {ADD, SUB, MUL, DIV}
  BY DEF Operations, ADD, SUB, MUL, DIV

LEMMA ValueCases ==
  ASSUME NEW a, NEW b
  PROVE  /\ Value(ADD, a, b) = Plus(Plain(a), Plain(b))
         /\ Value(SUB, a, b) = Minus(Plain(a), Plain(b))
         /\ Value(MUL, a, b) = Times(Plain(a), Plain(b))
         /\ Value(DIV, a, b) = Over(Plain(a), Plain(b))
  BY Distinct, Zenon DEF Value

LEMMA AnswerCases ==
  ASSUME NEW a, NEW b, Infinity \notin {a, b}
  PROVE  /\ Answer(ADD, a, b) = IF a = 0 THEN b ELSE a
         /\ Answer(SUB, a, b) = IF a = 0 THEN Minus(0, b) ELSE a
         /\ Answer(MUL, a, b) = IF a = 1 THEN b ELSE a
         /\ Answer(DIV, a, b) = IF b # 0 THEN a
                                ELSE IF a = 0 THEN NaN ELSE Infinity
  BY Distinct, Zenon DEF Answer

LEMMA AnswerInfinity ==
  ASSUME NEW op, NEW a, NEW b, Infinity \in {a, b}
  PROVE  Answer(op, a, b) = NaN
  BY Zenon DEF Answer

(* The counter is loaded with one less than the latency of the core.       *)
LEMMA CountLatency ==
  \A op \in Operations : Count(op) \in 4 .. 6 /\ Latency(op) = Count(op) + 1
<1>1. /\ Count(ADD) = 6 /\ Count(SUB) = 6 /\ Count(MUL) = 4 /\ Count(DIV) = 5
      /\ Latency(ADD) = 7 /\ Latency(SUB) = 7
      /\ Latency(MUL) = 5 /\ Latency(DIV) = 6
  BY Distinct, Zenon DEF Count, Latency
<1> QED BY <1>1, FourOperations

(* The cores calculate numbers, or Undefined.                              *)
LEMMA PlainWord == \A v \in Operands : Plain(v) \in Word
  BY AluAssumption DEF Operands, Plain, Word, Infinity, NaN

LEMMA WordPlain == \A v \in Word : Plain(v) = v
  BY DEF Plain, Word, Number, Undefined, Infinity

LEMMA OverWord == \A a, b \in Word : Over(a, b) \in Word
<1> SUFFICES ASSUME NEW a \in Word, NEW b \in Word,
                    ~(Undefined \in {a, b} \/ b = 0)
             PROVE  Over(a, b) \in Word
  BY DEF Over, Word
<1>1. a \in Number /\ b \in Number /\ b # 0
  BY DEF Word
<1>2. \E q \in Number : (q * b) % Prime = a
  BY <1>1, PrimeAssumption DEF Number
<1>3. Over(a, b) = CHOOSE q \in Number : (q * b) % Prime = a
  BY DEF Over
<1> QED BY <1>2, <1>3 DEF Word

LEMMA ValueWord ==
  ASSUME NEW op \in Operations, NEW a \in Operands, NEW b \in Operands
  PROVE  Value(op, a, b) \in Word
<1> DEFINE v == Plain(a)
           w == Plain(b)
<1>1. v \in Word /\ w \in Word
  BY PlainWord
<1> HIDE DEF v, w
<1>2. Plus(v, w) \in Word
  BY <1>1, ModNumber DEF Plus, Word, Number
<1>3. Minus(v, w) \in Word
  BY <1>1, ModNumber DEF Minus, Word, Number
<1>4. Times(v, w) \in Word
  BY <1>1, ModNumber DEF Times, Word, Number
<1>5. Over(v, w) \in Word
  BY <1>1, OverWord
<1> QED
  BY <1>2, <1>3, <1>4, <1>5, ValueCases, FourOperations DEF v, w

LEMMA AnswerWord ==
  ASSUME NEW op \in Operations, NEW a \in Operands, NEW b \in Operands,
         Shortcut(op, a, b)
  PROVE  Answer(op, a, b) \in Word \cup {Infinity}
<1>1. CASE Infinity \in {a, b}
  BY <1>1, AnswerInfinity DEF NaN, Word
<1>2. CASE Infinity \notin {a, b}
  <2>1. a \in Word /\ b \in Word
    BY <1>2, AluAssumption DEF Operands, Word, NaN
  <2>2. Minus(0, b) \in Word
    BY <2>1, ModNumber DEF Minus, Word, Number
  <2> QED
    BY <1>2, <2>1, <2>2, AnswerCases, FourOperations DEF Word, NaN
<1> QED BY <1>1, <1>2

(* A simple case is answered with what the cores would have calculated.    *)
LEMMA AnswerRight ==
  ASSUME NEW op \in Operations, NEW a \in Operands, NEW b \in Operands,
         Shortcut(op, a, b)
  PROVE  Plain(Answer(op, a, b)) = Value(op, a, b)
<1>1. CASE Infinity \in {a, b}
  <2>1. Undefined \in {Plain(a), Plain(b)}
    BY <1>1 DEF Plain
  <2>2. Value(op, a, b) = Undefined
    BY <2>1, ValueCases, FourOperations DEF Plus, Minus, Times, Over
  <2> QED BY <1>1, <2>2, AnswerInfinity DEF Plain, NaN, Undefined, Infinity
<1>2. CASE Infinity \notin {a, b}
  <2>1. a \in Word /\ b \in Word /\ Plain(a) = a /\ Plain(b) = b
    BY <1>2, PlainWord DEF Plain
  <2>2. CASE op = DIV /\ b = 0
    <3>1. Value(op, a, b) = Undefined
      BY <2>1, <2>2, ValueCases DEF Over
    <3> QED BY <1>2, <2>2, <3>1, AnswerCases
            DEF Plain, NaN, Undefined, Infinity
  <2>3. CASE op = ADD
    <3>1. 0 \in {a, b}
      BY <1>2, <2>3, Distinct DEF Shortcut
    <3>2. Plus(a, b) = IF a = 0 THEN b ELSE a
      BY <2>1, <3>1, SmallMod, PrimeAssumption
      DEF Plus, Word, Number, Undefined
    <3> QED
      BY <1>2, <2>1, <2>3, <3>2, AnswerCases, ValueCases, WordPlain
  <2>4. CASE op = SUB
    <3>1. 0 \in {a, b}
      BY <1>2, <2>4, Distinct DEF Shortcut
    <3>2. Minus(a, b) = IF a = 0 THEN Minus(0, b) ELSE a
      BY <2>1, <3>1, SmallMod, PrimeAssumption
      DEF Minus, Word, Number, Undefined
    <3>3. Minus(a, b) \in Word
      BY <2>1, ModNumber DEF Minus, Word, Number
    <3> QED
      BY <1>2, <2>1, <2>4, <3>2, <3>3, AnswerCases, ValueCases, WordPlain
  <2>5. CASE op = MUL
    <3>1. 1 \in {a, b} /\ a # 0 /\ b # 0
      BY <1>2, <2>5, Distinct DEF Shortcut
    <3>2. Times(a, b) = IF a = 1 THEN b ELSE a
      BY <2>1, <3>1, SmallMod, PrimeAssumption
      DEF Times, Word, Number, Undefined
    <3> QED
      BY <1>2, <2>1, <2>5, <3>2, AnswerCases, ValueCases, WordPlain
  <2>6. CASE op = DIV /\ b # 0
    <3>1. b = 1
      BY <1>2, <2>6, Distinct DEF Shortcut
    <3>2. \A q \in Number : (q * 1) % Prime = q
      BY SmallMod DEF Number
    <3>3. ASSUME a \in Number
          PROVE  (CHOOSE q \in Number : (q * 1) % Prime = a) = a
      BY <3>2, <3>3
    <3>4. Over(a, b) = a
      BY <2>1, <3>1, <3>3 DEF Over, Word, Undefined
    <3> QED
      BY <1>2, <2>1, <2>6, <3>4, AnswerCases, ValueCases, WordPlain
  <2> QED
    BY <2>2, <2>3, <2>4, <2>5, <2>6, FourOperations
<1> QED BY <1>1, <1>2
-----------------------------------------------------------------------------
(* The strengthening: while the CPU waits, the counter and the cycles the  *)
(* cores have worked add up.                                               *)
OnTheWay ==
  cpu = "ci" /\ ~stale /\ ~done =>
    counter \in 0 .. Count(n) /\ age = Count(n) + 1 - counter

AluInv == AluTypeOK /\ ResultTaken /\ OnTheWay

LEMMA InitAluInv == Init => AluInv
<1> SUFFICES ASSUME Init PROVE AluInv
  OBVIOUS
<1>1. AluTypeOK
  <2>1. done \in BOOLEAN /\ stale \in BOOLEAN /\ cpu \in {"free", "ci"}
    BY Zenon DEF Init
  <2>2. counter \in 0 .. 15 /\ age \in 0 .. 7
    BY DEF Init
  <2>3. /\ n \in Operations /\ dataa \in Operands /\ datab \in Operands
        /\ result \in Word \cup {Infinity}
    BY FourOperations, Zenon DEF Init, Operands, Word, NaN
  <2> QED BY <2>1, <2>2, <2>3 DEF AluTypeOK
<1>2. ResultTaken /\ OnTheWay
  BY DEF Init, ResultTaken, OwnResultTaken, OnTheWay
<1> QED BY <1>1, <1>2 DEF AluInv

(* What every cycle but that of start does.                                *)
LEMMA CoresCycle ==
  ASSUME AluTypeOK, NEW clk_en \in BOOLEAN, CounterEdge(clk_en), Cores
  PROVE  /\ counter' \in 0 .. 15 /\ done' \in BOOLEAN /\ result' \in Word
<1>1. counter' \in 0 .. 15
  BY DEF AluTypeOK, CounterEdge
<1>2. done' \in BOOLEAN
  BY DEF Cores, aludone
<1>3. result' \in Word
  BY ValueWord DEF AluTypeOK, Cores, aluresult, Word
<1> QED BY <1>1, <1>2, <1>3

LEMMA StepAluInv == AluInv /\ [Next]_vars => AluInv'
<1> SUFFICES ASSUME AluInv, [Next]_vars PROVE AluInv'
  OBVIOUS
<1> USE DEF AluInv
<1>1. ASSUME NEW op \in Operations, NEW a \in Operands, NEW b \in Operands,
             Start(op, a, b)
      PROVE  AluInv'
  <2>1. AluTypeOK'
    BY <1>1, AnswerWord, CountLatency, PrimeAssumption
       DEF Start, AluTypeOK, Word, Number
  <2>2. ResultTaken'
    BY <1>1, AnswerRight DEF Start, AluTypeOK, ResultTaken, OwnResultTaken
  <2>3. OnTheWay'
    BY <1>1, CountLatency DEF Start, OnTheWay
  <2> QED BY <2>1, <2>2, <2>3
<1>2. CASE Working
  <2>1. CounterEdge(TRUE) /\ Cores
    BY <1>2 DEF Working
  <2>2. counter' \in 0 .. 15 /\ done' \in BOOLEAN /\ result' \in Word
    BY <2>1, CoresCycle
  <2>3. AluTypeOK'
    BY <1>2, <2>2 DEF Working, AluTypeOK
  <2>4. ASSUME ~stale
        PROVE  /\ counter \in 0 .. Count(n) /\ age = Count(n) + 1 - counter
               /\ Count(n) \in 4 .. 6 /\ Latency(n) = Count(n) + 1
    BY <1>2, <2>4, CountLatency DEF Working, OnTheWay, AluTypeOK
  <2>5. ASSUME ~stale, counter = 0
        PROVE  done' /\ result' = Value(n, dataa, datab)
    <3>1. age >= Latency(n)
      BY <2>4, <2>5
    <3> QED BY <2>1, <2>5, <3>1 DEF Cores, aludone, aluresult
  <2>6. ASSUME ~stale, counter # 0
        PROVE  /\ ~done'
               /\ counter' \in 0 .. Count(n) /\ age' = Count(n) + 1 - counter'
    <3>1. ~done'
      BY <2>1, <2>6 DEF Cores, aludone
    <3>2. counter' = counter - 1
      BY <2>1, <2>4, <2>6 DEF CounterEdge
    <3>3. age' = age + 1
      BY <1>2, <2>4, <2>6 DEF Working
    <3> QED BY <2>4, <2>6, <3>1, <3>2, <3>3
  <2>7. ResultTaken'
    <3>1. Value(n, dataa, datab) \in Word
      BY ValueWord DEF AluTypeOK
    <3> QED
      BY <1>2, <2>5, <2>6, <3>1, WordPlain
         DEF Working, ResultTaken, OwnResultTaken
  <2>8. OnTheWay'
    BY <1>2, <2>5, <2>6 DEF Working, OnTheWay
  <2> QED BY <2>3, <2>7, <2>8
<1>3. CASE Take
  <2>1. counter' \in 0 .. 15 /\ done' \in BOOLEAN /\ result' \in Word
    BY <1>3, CoresCycle DEF Take
  <2>2. AluTypeOK'
    <3>1. stale' \in BOOLEAN /\ cpu' \in {"free", "ci"}
      BY <1>3, Zenon DEF Take
    <3>2. n' \in Operations /\ dataa' \in Operands /\ datab' \in Operands
      BY <1>3, FourOperations, Zenon DEF Take, Operands
    <3>3. age' \in 0 .. 7
      BY <1>3 DEF Take
    <3> QED BY <2>1, <3>1, <3>2, <3>3 DEF AluTypeOK
  <2>3. ResultTaken' /\ OnTheWay'
    BY <1>3 DEF Take, ResultTaken, OwnResultTaken, OnTheWay
  <2> QED BY <2>2, <2>3
<1>4. ASSUME NEW clk_en \in BOOLEAN, Rest(clk_en) PROVE AluInv'
  <2>1. counter' \in 0 .. 15 /\ done' \in BOOLEAN /\ result' \in Word
    BY <1>4, CoresCycle DEF Rest
  <2>2. AluTypeOK'
    BY <1>4, <2>1 DEF Rest, AluTypeOK
  <2>3. ResultTaken' /\ OnTheWay'
    BY <1>4 DEF Rest, ResultTaken, OwnResultTaken, OnTheWay
  <2> QED BY <2>2, <2>3
<1>5. CASE UNCHANGED vars
  BY <1>5 DEF vars, AluTypeOK, ResultTaken, OwnResultTaken, OnTheWay
<1> QED BY <1>1, <1>2, <1>3, <1>4, <1>5 DEF Next

(* An instruction issued while done is down returns its own result,        *)
(* whatever the operands are and whatever clk_en did before.               *)
THEOREM AluCorrect == Spec => []ResultTaken
<1>1. Init => AluInv
  BY InitAluInv
<1>2. AluInv /\ [Next]_vars => AluInv'
  BY StepAluInv
<1>3. AluInv => ResultTaken
  BY DEF AluInv
<1> QED BY <1>1, <1>2, <1>3, PTL DEF Spec

(* The registers of the unit keep their types.                             *)
THEOREM AluTyped == Spec => []AluTypeOK
<1>1. Init => AluInv
  BY InitAluInv
<1>2. AluInv /\ [Next]_vars => AluInv'
  BY StepAluInv
<1>3. AluInv => AluTypeOK
  BY DEF AluInv
<1> QED BY <1>1, <1>2, <1>3, PTL DEF Spec

-----------------------------------------------------------------------------
(* DetHost.                                                                *)

(* Functions that ask for another determinant are those of programs that   *)
(* do not use both versions.                                               *)
ChainsApart == Kinds \notin Chains

(* Steps of a context: it asks for a determinant, it does something of its *)
(* own, or it waits for the answer.                                        *)
Asking == {"clear", "register", "invoke"}
Active == {"check"} \cup Asking
Waiting == {"spin", "take", "return"}
Kind(c) == calls[current[c]].kind

(* Which steps a context comes to.                                         *)
StepsInv ==
  /\ style \in Styles /\ irq = (phase = "complete")
  /\ pc["main"] \in {"out"} \cup Active \cup Waiting
  /\ pc["isr"] \in {"out", "entered", "loaded"} \cup Active
  /\ \A c \in Contexts : pc[c] \in Active \cup Waiting =>
       current[c] # NULL /\ Kind(c) \in style
  /\ \A c \in Contexts : pc[c] = "register" => Kind(c) = "interrupt"
  /\ pc["main"] \in Waiting => Kind("main") = "blocking"
  /\ fp_det_func # NULL => "interrupt" \in style
  /\ pc["isr"] \in Active => style = {"interrupt"}

(* Nobody asks for a calculation before the engine is ready, and it stays  *)
(* ready until then.                                                       *)
ReadyInv ==
  /\ pc["isr"] = "entered" => phase = "complete"
  /\ pc["isr"] \in {"loaded", "check"} => phase \in {"resetting", "ready"}
  /\ pc["isr"] \in Asking => phase = "ready"
  /\ pc["main"] \in Asking => phase = "ready" /\ pc["isr"] = "out"

(* The flag that fp_det() waits for is that of its own calculation.        *)
FlagInv ==
  /\ pc["main"] \in {"register", "invoke"} => ~fp_det_done
  /\ pc["main"] = "spin" =>
       /\ phase \in {"busy", "complete"} => job = current["main"]
       /\ phase = "busy" => ~fp_det_done
       /\ phase = "complete" /\ fp_det_done => pc["isr"] = "entered"
       /\ phase \in {"resetting", "ready"} /\ fp_det_done =>
            fp_det_result = current["main"]
  /\ pc["main"] \in {"take", "return"} =>
       /\ phase \in {"resetting", "ready"} /\ pc["isr"] = "out"
       /\ fp_det_result = current["main"]
  /\ OwnResult

(* The function that is registered is that of the calculation under way,   *)
(* which no function has been called for.                                  *)
Pending == phase \in {"busy", "complete"} \/ pc["isr"] \in {"entered", "loaded"}
Uncalled(k) == \A m \in DOMAIN called : called[m][1] # k

CallbackInv ==
  /\ "interrupt" \notin style => called = << >>
  /\ style = {"interrupt"} =>
       /\ Pending => fp_det_func = job /\ Uncalled(job)
       /\ pc["isr"] = "loaded" => fp_det_result = job
       /\ \A c \in Contexts : pc[c] \in Active =>
            Uncalled(current[c]) /\ job # current[c]
       /\ \A c \in Contexts : pc[c] = "invoke" => fp_det_func = current[c]
       /\ pc["main"] \in Active /\ pc["isr"] \in Active =>
            current["main"] # current["isr"]
       /\ OwnCallback

HostInv == DetHostTypeOK /\ StepsInv /\ ReadyInv /\ FlagInv /\ CallbackInv

(* Every step of a context.                                                *)
Pcs == {"out", "check", "clear", "register", "invoke", "spin", "take",
        "return", "entered", "loaded"}

LEMMA HostInit == ASSUME DetHostInit PROVE HostInv
<1>0. /\ \A c \in Contexts : pc[c] = "out" /\ current[c] = NULL
      /\ Contexts = {"main", "isr"} /\ DetHostAssumption
  BY DetHostAssumption DEF DetHostInit, Contexts
<1>1. DetHostTypeOK
  <2>1. calls = << >> /\ called = << >> /\ Len(calls) = 0 /\ Len(called) = 0
    BY DEF DetHostInit
  <2>2. /\ calls \in Seq([kind : Kinds, dim : Dimensions])
        /\ called \in Seq((1 .. Len(calls)) \X Call0)
    BY <2>1
  <2>3. Len(calls) <= MaxCalls
    BY <1>0, <2>1 DEF DetHostAssumption
  <2>4. 0 \in Call0
    BY <2>1 DEF Call0
  <2>5. pc \in [Contexts -> Pcs] /\ current \in [Contexts -> Call0]
    BY <2>4 DEF DetHostInit, Pcs, NULL
  <2>6. /\ phase \in {"ready", "busy", "complete", "resetting"}
        /\ irq \in BOOLEAN /\ fp_det_done \in BOOLEAN
        /\ fp_det_result \in Call0 /\ fp_det_func \in Call0 /\ job \in Call0
        /\ returned \in SUBSET ((1 .. Len(calls)) \X Call0)
    BY <2>4 DEF DetHostInit, ServiceInit, NULL
  <2> QED BY <2>2, <2>3, <2>5, <2>6 DEF DetHostTypeOK, Pcs
<1>2. StepsInv
  BY <1>0 DEF DetHostInit, ServiceInit, StepsInv, Active, Asking, Waiting
<1>3. ReadyInv /\ FlagInv
  BY <1>0 DEF DetHostInit, ServiceInit, ReadyInv, FlagInv, Asking, OwnResult
<1>4. CallbackInv
  <2>1. called = << >> /\ DOMAIN called = {} /\ ~Pending
    BY <1>0 DEF DetHostInit, ServiceInit, Pending
  <2> QED BY <1>0, <2>1 DEF CallbackInv, Active, Asking, OwnCallback
<1> QED BY <1>1, <1>2, <1>3, <1>4 DEF HostInv

(* What an instruction finds out, and what it changes.                     *)
LEMMA Instructed ==
  ASSUME NEW dim, Instruct(dim)
  PROVE  /\ phase' = IF phase = "ready" /\ dim > 1 THEN "busy" ELSE phase
         /\ phase \in {"ready", "busy", "complete"} /\ irq' = (phase' = "complete")
         /\ answer' = READY => phase = "ready" /\ ~(dim > 1)
         /\ answer' = ACCEPTED <=> phase = "ready" /\ dim > 1
  BY DEF Instruct, Accept, TellReady, TellBusy, TellComplete, Enter, READY,
         ACCEPTED, READING_SDRAM, CALCULATING, WAIT_IRQ, RESULT

(* A context goes to a step, the other stays where it is.                  *)
LEMMA Gone ==
  ASSUME DetHostTypeOK, NEW c \in Contexts, NEW there \in Pcs, Goto(c, there)
  PROVE  /\ pc' \in [Contexts -> Pcs] /\ pc'[c] = there
         /\ \A d \in Contexts \ {c} : pc'[d] = pc[d]
  BY DEF DetHostTypeOK, Goto, Pcs

(* A new call has a number of its own and belongs to c.                    *)
LEMMA Called ==
  ASSUME DetHostTypeOK, NEW c \in Contexts, NEW kind \in Kinds,
         NEW dim \in Dimensions, NewCall(c, kind, dim)
  PROVE  /\ calls' \in Seq([kind : Kinds, dim : Dimensions])
         /\ Len(calls) \in Nat /\ Len(calls') = Len(calls) + 1
         /\ Len(calls') <= MaxCalls
         /\ calls'[Len(calls')].kind = kind
         /\ \A k \in 1 .. Len(calls) : calls'[k] = calls[k]
         /\ current' \in [Contexts -> 0 .. Len(calls')]
         /\ current'[c] = Len(calls')
         /\ \A d \in Contexts \ {c} : current'[d] = current[d]
         /\ pc' \in [Contexts -> Pcs] /\ pc'[c] = "check"
         /\ \A d \in Contexts \ {c} : pc'[d] = pc[d]
<1> DEFINE new == [kind |-> kind, dim |-> dim]
<1>0. DetHostAssumption
  BY DetHostAssumption
<1>1. /\ calls' = Append(calls, new) /\ Len(calls) < MaxCalls
      /\ current' = [current EXCEPT ![c] = Len(calls')] /\ Goto(c, "check")
      /\ new \in [kind : Kinds, dim : Dimensions] /\ MaxCalls \in Nat
      /\ calls \in Seq([kind : Kinds, dim : Dimensions])
      /\ current \in [Contexts -> 0 .. Len(calls)]
  BY <1>0 DEF NewCall, DetHostTypeOK, DetHostAssumption, Call0
<1>2. /\ calls' \in Seq([kind : Kinds, dim : Dimensions])
      /\ Len(calls) \in Nat /\ Len(calls') = Len(calls) + 1
      /\ calls'[Len(calls')] = new
      /\ \A k \in 1 .. Len(calls) : calls'[k] = calls[k]
  BY <1>1
<1>3. /\ current' \in [Contexts -> 0 .. Len(calls')]
      /\ current'[c] = Len(calls')
      /\ \A d \in Contexts \ {c} : current'[d] = current[d]
  BY <1>1, <1>2
<1> QED BY <1>1, <1>2, <1>3, Gone DEF Pcs

(* One lemma for each action of DetHost: it keeps the invariant.           *)
LEMMA CheckKeeps ==
  ASSUME ChainsApart, HostInv, NEW c \in Contexts, Check(c)
  PROVE  HostInv'
<1>0. DetHostTypeOK /\ StepsInv /\ ReadyInv /\ FlagInv /\ CallbackInv
  BY DEF HostInv
<1>1. /\ pc[c] = "check" /\ pc' \in [Contexts -> Pcs]
      /\ pc'[c] = IF answer' = READY THEN "clear" ELSE "check"
      /\ \A d \in Contexts \ {c} : pc'[d] = pc[d]
  BY <1>0, Gone DEF Check, At, Pcs
<1>2. /\ phase' = IF phase = "ready" /\ 0 > 1 THEN "busy" ELSE phase
      /\ phase \in {"ready", "busy", "complete"} /\ irq' = (phase' = "complete")
      /\ answer' = READY => phase = "ready" /\ ~(0 > 1)
      /\ answer' = ACCEPTED <=> phase = "ready" /\ 0 > 1
  BY Instructed DEF Check
<1>3. DetHostTypeOK'
  BY <1>0, <1>1, <1>2 DEF Check, DetHostTypeOK, Call0
<1>4. StepsInv'
  BY <1>0, <1>1, <1>2
  DEF Check, StepsInv, Active, Asking, Waiting, Kind, Contexts
<1>5. ReadyInv'
  BY <1>0, <1>1, <1>2 DEF Check, ReadyInv, Contexts, Running, At
<1>6. FlagInv'
  BY <1>0, <1>1, <1>2 DEF Check, FlagInv, Contexts, OwnResult
<1>7. CallbackInv'
  BY <1>0, <1>1, <1>2
  DEF Check, StepsInv, CallbackInv, Contexts, Pending, Uncalled, OwnCallback
<1> QED BY <1>3, <1>4, <1>5, <1>6, <1>7 DEF HostInv

LEMMA ClearKeeps ==
  ASSUME ChainsApart, HostInv, NEW c \in Contexts, Clear(c)
  PROVE  HostInv'
<1>0. DetHostTypeOK /\ StepsInv /\ ReadyInv /\ FlagInv /\ CallbackInv
  BY DEF HostInv
<1>1. /\ pc[c] = "clear" /\ pc' \in [Contexts -> Pcs]
      /\ pc'[c] = AfterClear(c)
      /\ \A d \in Contexts \ {c} : pc'[d] = pc[d]
  BY <1>0, Gone DEF Clear, At, Pcs, AfterClear
<1>2. UNCHANGED <<phase, irq, calls, current, called, style>>
  BY DEF Clear, serviceVars
<1>3. DetHostTypeOK'
  BY <1>0, <1>1, <1>2 DEF Clear, DetHostTypeOK, Call0, Pcs
<1>4. StepsInv'
  BY <1>0, <1>1, <1>2
  DEF Clear, StepsInv, Active, Asking, Waiting, Kind, Contexts, AfterClear
<1>5. ReadyInv'
  BY <1>0, <1>1, <1>2 DEF ReadyInv, Asking, Contexts, AfterClear
<1>6. FlagInv'
  BY <1>0, <1>1, <1>2 DEF Clear, FlagInv, Contexts, OwnResult, AfterClear
<1>7. CallbackInv'
  BY <1>0, <1>1, <1>2
  DEF Clear, StepsInv, CallbackInv, Kind, Contexts, Pending, Uncalled,
      OwnCallback, AfterClear
<1> QED BY <1>3, <1>4, <1>5, <1>6, <1>7 DEF HostInv

LEMMA RegisterKeeps ==
  ASSUME ChainsApart, HostInv, NEW c \in Contexts, Register(c)
  PROVE  HostInv'
<1>0. DetHostTypeOK /\ StepsInv /\ ReadyInv /\ FlagInv /\ CallbackInv
  BY DEF HostInv
<1>1. /\ pc[c] = "register" /\ pc' \in [Contexts -> Pcs]
      /\ pc'[c] = "invoke"
      /\ \A d \in Contexts \ {c} : pc'[d] = pc[d]
  BY <1>0, Gone DEF Register, At, Pcs
<1>2. UNCHANGED <<phase, irq, calls, current, called, style>>
  BY DEF Register, serviceVars
<1>3. DetHostTypeOK'
  BY <1>0, <1>1, <1>2 DEF Register, DetHostTypeOK, Call0
<1>4. StepsInv'
  BY <1>0, <1>1, <1>2 DEF StepsInv, Active, Asking, Waiting, Kind, Contexts
<1>5. ReadyInv'
  BY <1>0, <1>1, <1>2 DEF ReadyInv, Asking, Contexts
<1>6. FlagInv'
  BY <1>0, <1>1, <1>2 DEF Register, FlagInv, Contexts, OwnResult
<1>7. CallbackInv'
  BY <1>0, <1>1, <1>2
  DEF Register, StepsInv, ReadyInv, CallbackInv, Asking, Contexts, Pending,
      Uncalled, OwnCallback
<1> QED BY <1>3, <1>4, <1>5, <1>6, <1>7 DEF HostInv

LEMMA InvokeKeeps ==
  ASSUME ChainsApart, HostInv, NEW c \in Contexts, Invoke(c)
  PROVE  HostInv'
<1>0. DetHostTypeOK /\ StepsInv /\ ReadyInv /\ FlagInv /\ CallbackInv
  BY DEF HostInv
<1>1. /\ pc[c] = "invoke" /\ pc' \in [Contexts -> Pcs]
      /\ pc'[c] = IF Kind(c) = "interrupt" THEN "out" ELSE "spin"
      /\ \A d \in Contexts \ {c} : pc'[d] = pc[d]
  BY <1>0, Gone DEF Invoke, At, Pcs, Kind
<1>2. /\ phase' = IF phase = "ready" /\ calls[current[c]].dim > 1 THEN "busy" ELSE phase
      /\ phase \in {"ready", "busy", "complete"} /\ irq' = (phase' = "complete")
      /\ answer' = READY => phase = "ready" /\ ~(calls[current[c]].dim > 1)
      /\ answer' = ACCEPTED <=> phase = "ready" /\ calls[current[c]].dim > 1
  BY Instructed DEF Invoke
<1>3. DetHostTypeOK'
  BY <1>0, <1>1, <1>2 DEF Invoke, DetHostTypeOK, Call0
<1>4. StepsInv'
  <2>1. Kind(c) \in Kinds
    BY <1>0, <1>1, DetHostAssumption
    DEF StepsInv, Active, Asking, DetHostAssumption
  <2>2. Kind(c) = "blocking" => c = "main"
    BY <1>0, <1>1 DEF StepsInv, Active, Asking, Contexts
  <2>3. UNCHANGED <<calls, current, style, fp_det_func>>
    BY DEF Invoke
  <2> QED BY <1>0, <1>1, <1>2, <2>1, <2>2, <2>3
          DEF StepsInv, Active, Asking, Waiting, Kind, Kinds, Contexts
<1>5. ReadyInv'
  BY <1>0, <1>1, <1>2 DEF ReadyInv, Asking, Contexts
<1>6. FlagInv'
  BY <1>0, <1>1, <1>2
  DEF Invoke, StepsInv, ReadyInv, FlagInv, Asking, Waiting, Contexts, OwnResult
<1>7. CallbackInv'
  BY <1>0, <1>1, <1>2
  DEF Invoke, CallbackInv, Active, Asking, Contexts, Pending, Uncalled,
      OwnCallback
<1> QED BY <1>3, <1>4, <1>5, <1>6, <1>7 DEF HostInv

LEMMA SpinKeeps ==
  ASSUME ChainsApart, HostInv, NEW c \in Contexts, Spin(c)
  PROVE  HostInv'
<1>0. DetHostTypeOK /\ StepsInv /\ ReadyInv /\ FlagInv /\ CallbackInv
  BY DEF HostInv
<1>1. /\ pc[c] = "spin" /\ pc' \in [Contexts -> Pcs]
      /\ pc'[c] = "take"
      /\ \A d \in Contexts \ {c} : pc'[d] = pc[d]
  BY <1>0, Gone DEF Spin, At, Pcs
<1>2. UNCHANGED <<phase, irq, calls, current, called, style>>
  BY DEF Spin, serviceVars
<1>3. DetHostTypeOK'
  BY <1>0, <1>1, <1>2 DEF Spin, DetHostTypeOK, Call0
<1>4. StepsInv'
  BY <1>0, <1>1, <1>2
  DEF Spin, StepsInv, Active, Asking, Waiting, Kind, Contexts
<1>5. ReadyInv'
  BY <1>0, <1>1, <1>2 DEF ReadyInv, Asking, Contexts
<1>6. FlagInv'
  BY <1>0, <1>1, <1>2
  DEF Spin, DetHostTypeOK, FlagInv, Contexts, Running, At, OwnResult
<1>7. CallbackInv'
  BY <1>0, <1>1, <1>2
  DEF Spin, StepsInv, CallbackInv, Contexts, Pending, Uncalled, OwnCallback
<1> QED BY <1>3, <1>4, <1>5, <1>6, <1>7 DEF HostInv

LEMMA ClearAgainKeeps ==
  ASSUME ChainsApart, HostInv, NEW c \in Contexts, ClearAgain(c)
  PROVE  HostInv'
<1>0. DetHostTypeOK /\ StepsInv /\ ReadyInv /\ FlagInv /\ CallbackInv
  BY DEF HostInv
<1>1. /\ pc[c] = "take" /\ pc' \in [Contexts -> Pcs]
      /\ pc'[c] = "return"
      /\ \A d \in Contexts \ {c} : pc'[d] = pc[d]
  BY <1>0, Gone DEF ClearAgain, At, Pcs
<1>2. UNCHANGED <<phase, irq, calls, current, called, style>>
  BY DEF ClearAgain, serviceVars
<1>3. DetHostTypeOK'
  BY <1>0, <1>1, <1>2 DEF ClearAgain, DetHostTypeOK, Call0
<1>4. StepsInv'
  BY <1>0, <1>1, <1>2
  DEF ClearAgain, StepsInv, Active, Asking, Waiting, Kind, Contexts
<1>5. ReadyInv'
  BY <1>0, <1>1, <1>2 DEF ReadyInv, Asking, Contexts
<1>6. FlagInv'
  BY <1>0, <1>1, <1>2 DEF ClearAgain, FlagInv, Contexts, OwnResult
<1>7. CallbackInv'
  BY <1>0, <1>1, <1>2
  DEF ClearAgain, StepsInv, CallbackInv, Contexts, Pending, Uncalled,
      OwnCallback
<1> QED BY <1>3, <1>4, <1>5, <1>6, <1>7 DEF HostInv

LEMMA ReturnKeeps ==
  ASSUME ChainsApart, HostInv, NEW c \in Contexts, Return(c)
  PROVE  HostInv'
<1>0. DetHostTypeOK /\ StepsInv /\ ReadyInv /\ FlagInv /\ CallbackInv
  BY DEF HostInv
<1>1. /\ pc[c] = "return" /\ pc' \in [Contexts -> Pcs]
      /\ pc'[c] = "out"
      /\ \A d \in Contexts \ {c} : pc'[d] = pc[d]
  BY <1>0, Gone DEF Return, At, Pcs
<1>2. UNCHANGED <<phase, irq, calls, current, called, style>>
  BY DEF Return, serviceVars
<1>3. DetHostTypeOK'
  <2>1. current[c] \in 1 .. Len(calls) /\ fp_det_result \in 0 .. Len(calls)
    BY <1>0, <1>1 DEF DetHostTypeOK, StepsInv, Call0, Waiting, NULL
  <2>2. returned' \in SUBSET ((1 .. Len(calls)) \X Call0)
    BY <1>0, <2>1 DEF Return, DetHostTypeOK, Call0
  <2> QED BY <1>0, <1>1, <1>2, <2>2 DEF Return, DetHostTypeOK, Call0, Pcs
<1>4. StepsInv'
  BY <1>0, <1>1, <1>2 DEF Return, StepsInv, Waiting, Kind, Contexts
<1>5. ReadyInv'
  BY <1>0, <1>1, <1>2 DEF ReadyInv, Asking, Contexts
<1>6. FlagInv'
  BY <1>0, <1>1, <1>2
  DEF Return, StepsInv, FlagInv, Active, Asking, Contexts, OwnResult
<1>7. CallbackInv'
  BY <1>0, <1>1, <1>2
  DEF Return, StepsInv, CallbackInv, Contexts, Pending, Uncalled, OwnCallback
<1> QED BY <1>3, <1>4, <1>5, <1>6, <1>7 DEF HostInv

LEMMA EnterIsrKeeps ==
  ASSUME ChainsApart, HostInv, EnterIsr
  PROVE  HostInv'
<1>0. DetHostTypeOK /\ StepsInv /\ ReadyInv /\ FlagInv /\ CallbackInv
  BY DEF HostInv
<1>1. /\ pc["isr"] = "out" /\ irq /\ pc' \in [Contexts -> Pcs]
      /\ pc'["isr"] = "entered" /\ pc'["main"] = pc["main"]
  BY <1>0, Gone DEF EnterIsr, Pcs, Contexts
<1>2. UNCHANGED <<phase, irq, calls, current, called, style>>
  BY DEF EnterIsr, serviceVars
<1>3. DetHostTypeOK'
  BY <1>0, <1>1, <1>2 DEF EnterIsr, DetHostTypeOK, Call0, Pcs
<1>4. StepsInv'
  BY <1>0, <1>1, <1>2
  DEF EnterIsr, StepsInv, Active, Asking, Waiting, Kind, Contexts
<1>5. ReadyInv'
  BY <1>0, <1>1, <1>2 DEF StepsInv, ReadyInv, Asking
<1>6. FlagInv'
  BY <1>0, <1>1, <1>2
  DEF EnterIsr, StepsInv, ReadyInv, FlagInv, CallbackInv, Active, Asking,
      Waiting, Kind, Contexts, Running, At, OwnResult
<1>7. CallbackInv'
  BY <1>0, <1>1, <1>2
  DEF EnterIsr, StepsInv, CallbackInv, Active, Asking, Contexts, Pending,
      Uncalled, OwnCallback
<1> QED BY <1>3, <1>4, <1>5, <1>6, <1>7 DEF HostInv

LEMMA IsrLoadKeeps ==
  ASSUME ChainsApart, HostInv, IsrLoad
  PROVE  HostInv'
<1>0. DetHostTypeOK /\ StepsInv /\ ReadyInv /\ FlagInv /\ CallbackInv
  BY DEF HostInv
<1>1. /\ pc["isr"] = "entered" /\ pc' \in [Contexts -> Pcs]
      /\ pc'["isr"] = "loaded" /\ pc'["main"] = pc["main"]
  BY <1>0, Gone DEF IsrLoad, Pcs, Contexts
<1>2. /\ phase = "complete" /\ phase' = "resetting" /\ irq' = FALSE
      /\ UNCHANGED <<calls, current, called, style>>
  BY DEF IsrLoad, Acknowledge, Enter
<1>3. DetHostTypeOK'
  BY <1>0, <1>1, <1>2 DEF IsrLoad, DetHostTypeOK, Call0, Pcs
<1>4. StepsInv'
  BY <1>0, <1>1, <1>2
  DEF IsrLoad, StepsInv, Active, Asking, Waiting, Kind, Contexts
<1>5. ReadyInv'
  BY <1>0, <1>1, <1>2 DEF ReadyInv, Asking
<1>6. FlagInv'
  BY <1>0, <1>1, <1>2 DEF IsrLoad, FlagInv, OwnResult
<1>7. CallbackInv'
  BY <1>0, <1>1, <1>2
  DEF IsrLoad, CallbackInv, Active, Asking, Contexts, Pending, Uncalled,
      OwnCallback
<1> QED BY <1>3, <1>4, <1>5, <1>6, <1>7 DEF HostInv

LEMMA EngineKeeps ==
  ASSUME ChainsApart, HostInv, Engine
  PROVE  HostInv'
<1>0. DetHostTypeOK /\ StepsInv /\ ReadyInv /\ FlagInv /\ CallbackInv
  BY DEF HostInv
<1>1. UNCHANGED pc
  BY DEF Engine
<1>2. /\ \/ phase = "busy" /\ phase' = "complete"
         \/ phase = "resetting" /\ phase' = "ready"
      /\ irq' = (phase' = "complete")
  BY DEF Engine, Complete, Reset, Enter
<1>3. DetHostTypeOK'
  BY <1>0, <1>1, <1>2 DEF Engine, DetHostTypeOK, Call0
<1>4. StepsInv'
  BY <1>0, <1>1, <1>2 DEF Engine, StepsInv, Kind
<1>5. ReadyInv'
  BY <1>0, <1>1, <1>2 DEF ReadyInv
<1>6. FlagInv'
  BY <1>0, <1>1, <1>2 DEF Engine, FlagInv, OwnResult
<1>7. CallbackInv'
  BY <1>0, <1>1, <1>2 DEF Engine, CallbackInv, Pending, Uncalled, OwnCallback
<1> QED BY <1>3, <1>4, <1>5, <1>6, <1>7 DEF HostInv

(* More calls, more pairs.                                                 *)
LEMMA MorePairs ==
  ASSUME NEW A, NEW B, NEW C, NEW D, A \subseteq C, B \subseteq D
  PROVE  /\ SUBSET (A \X B) \subseteq SUBSET (C \X D)
         /\ Seq(A \X B) \subseteq Seq(C \X D)
<1>1. A \X B \subseteq C \X D
  OBVIOUS
<1> QED BY <1>1

(* What is true of the calls so far, when another one begins.              *)
LEMMA Earlier ==
  ASSUME HostInv, NEW d \in Contexts
  PROVE  /\ current[d] \in 0 .. Len(calls) /\ job \in 0 .. Len(calls)
         /\ fp_det_func \in 0 .. Len(calls) /\ fp_det_result \in 0 .. Len(calls)
         /\ \A k \in DOMAIN called : called[k][1] \in 1 .. Len(calls)
         /\ pc[d] \in Active \cup Waiting => current[d] \in 1 .. Len(calls)
<1>1. DetHostTypeOK /\ StepsInv
  BY DEF HostInv
<1>2. \A k \in DOMAIN called : called[k] \in (1 .. Len(calls)) \X Call0
  BY <1>1 DEF DetHostTypeOK
<1> QED BY <1>1, <1>2 DEF DetHostTypeOK, StepsInv, Call0, NULL

(* The program asks for another determinant.                               *)
LEMMA CallKeeps ==
  ASSUME ChainsApart, HostInv, Call
  PROVE  HostInv'
<1>0. DetHostTypeOK /\ StepsInv /\ ReadyInv /\ FlagInv /\ CallbackInv
  BY DEF HostInv
<1>1. PICK kind \in style, dim \in Dimensions : NewCall("main", kind, dim)
  BY DEF Call
<1>2. /\ kind \in Kinds /\ "main" \in Contexts /\ "isr" \in Contexts
      /\ Contexts = {"main", "isr"}
  BY <1>0, DetHostAssumption DEF StepsInv, DetHostAssumption, Contexts
<1>3. /\ pc["main"] = "out" /\ pc["isr"] = "out"
      /\ UNCHANGED <<phase, irq, answer, style, fp_det_done, fp_det_result,
                     fp_det_func, job, returned, called>>
  BY DEF Call, At, Running, serviceVars
<1>4. /\ calls'[Len(calls')].kind = kind /\ current'["main"] = Len(calls')
      /\ calls' \in Seq([kind : Kinds, dim : Dimensions])
      /\ Len(calls) \in Nat /\ Len(calls') = Len(calls) + 1
      /\ Len(calls') <= MaxCalls
      /\ \A k \in 1 .. Len(calls) : calls'[k] = calls[k]
      /\ current' \in [Contexts -> 0 .. Len(calls')]
      /\ pc' \in [Contexts -> Pcs]
      /\ pc'["main"] = "check" /\ pc'["isr"] = "out"
      /\ current'["isr"] = current["isr"]
  BY <1>0, <1>1, <1>2, <1>3, Called
<1>5. /\ job < Len(calls') /\ Uncalled(Len(calls'))
  <2>1. \A k \in DOMAIN called : called[k][1] \in 1 .. Len(calls)
    BY <1>2, Earlier
  <2> QED BY <1>2, <1>4, <2>1, Earlier DEF Uncalled
<1>6. DetHostTypeOK'
  <2>1. /\ Call0 \subseteq Call0'
        /\ (1 .. Len(calls)) \subseteq (1 .. Len(calls'))
    BY <1>4 DEF Call0
  <2>2. /\ returned' \in SUBSET ((1 .. Len(calls')) \X Call0')
        /\ called' \in Seq((1 .. Len(calls')) \X Call0')
    BY <1>0, <1>3, <2>1, MorePairs DEF DetHostTypeOK
  <2> QED BY <1>0, <1>3, <1>4, <2>1, <2>2 DEF DetHostTypeOK, Call0, Pcs
<1>7. StepsInv'
  BY <1>0, <1>1, <1>2, <1>3, <1>4
  DEF StepsInv, Active, Asking, Waiting, Kind, NULL
<1>8. ReadyInv'
  BY <1>0, <1>3, <1>4 DEF ReadyInv, Asking
<1>9. FlagInv'
  BY <1>0, <1>3, <1>4 DEF FlagInv, OwnResult
<1>10. CallbackInv'
  BY <1>0, <1>2, <1>3, <1>4, <1>5
  DEF CallbackInv, Pending, Uncalled, OwnCallback, Active, Asking
<1> QED BY <1>6, <1>7, <1>8, <1>9, <1>10 DEF HostInv

(* The function is called; it may ask for another determinant.             *)
LEMMA IsrCallKeeps ==
  ASSUME ChainsApart, HostInv, IsrCall
  PROVE  HostInv'
<1>0. DetHostTypeOK /\ StepsInv /\ ReadyInv /\ FlagInv /\ CallbackInv
  BY DEF HostInv
<1>1. /\ pc["isr"] = "loaded" /\ phase \in {"resetting", "ready"}
      /\ UNCHANGED <<phase, irq, answer, style, fp_det_done, fp_det_result,
                     fp_det_func, job, returned>>
      /\ "main" \in Contexts /\ "isr" \in Contexts
      /\ Contexts = {"main", "isr"}
  BY <1>0 DEF IsrCall, serviceVars, ReadyInv, Contexts
<1>2. /\ ~Pending' \/ pc'["isr"] \in {"entered", "loaded"}
      /\ pc["main"] \notin Asking /\ pc["main"] \notin {"take", "return"}
  BY <1>0, <1>1 DEF Pending, ReadyInv, FlagInv
<1>3. style \in SUBSET Kinds
  BY <1>0, DetHostAssumption DEF StepsInv, DetHostAssumption
<1>4. CASE fp_det_func = NULL
  <2>1. /\ Goto("isr", "out") /\ UNCHANGED <<calls, current, called>>
    BY <1>4 DEF IsrCall
  <2>2. /\ pc' \in [Contexts -> Pcs] /\ pc'["isr"] = "out"
        /\ pc'["main"] = pc["main"]
    BY <1>0, <1>1, <2>1, Gone DEF Pcs
  <2>3. DetHostTypeOK'
    BY <1>0, <1>1, <2>1, <2>2 DEF DetHostTypeOK, Call0, Pcs
  <2>4. StepsInv'
    BY <1>0, <1>1, <2>1, <2>2 DEF StepsInv, Active, Asking, Waiting, Kind
  <2>5. ReadyInv' /\ FlagInv'
    BY <1>0, <1>1, <2>1, <2>2 DEF ReadyInv, FlagInv, OwnResult, Asking
  <2>6. CallbackInv'
    BY <1>0, <1>1, <1>2, <2>1, <2>2
    DEF CallbackInv, Uncalled, OwnCallback, Active, Asking
  <2> QED BY <2>3, <2>4, <2>5, <2>6 DEF HostInv
<1>5. CASE fp_det_func # NULL
  <2> DEFINE entry == <<fp_det_func, fp_det_result>>
  <2>1. called' = Append(called, entry) /\ "interrupt" \in style
    BY <1>0, <1>5 DEF IsrCall, CallBack, StepsInv
  <2>2. /\ fp_det_func \in 1 .. Len(calls) /\ fp_det_result \in 0 .. Len(calls)
        /\ Len(calls) \in Nat /\ job \in 0 .. Len(calls)
        /\ \A k \in DOMAIN called : called[k][1] \in 1 .. Len(calls)
    BY <1>0, <1>1, <1>5, Earlier DEF NULL, DetHostTypeOK
  <2>3. called' \in Seq((1 .. Len(calls)) \X Call0)
    BY <1>0, <2>1, <2>2 DEF DetHostTypeOK, Call0
  <2>4. /\ Len(called) \in Nat /\ DOMAIN called = 1 .. Len(called)
        /\ DOMAIN called' = 1 .. (Len(called) + 1)
        /\ called'[Len(called) + 1] = entry
        /\ \A k \in DOMAIN called : called'[k] = called[k]
    BY <1>0, <2>1 DEF DetHostTypeOK
  <2>5. style # Kinds => style = {"interrupt"}
    BY <1>3, <2>1 DEF Kinds
  <2>6. style = {"interrupt"} =>
          entry = <<job, job>> /\ Uncalled(job) /\ OwnCallback
    BY <1>0, <1>1 DEF CallbackInv, Pending
  <2>7. style = {"interrupt"} => OwnCallback'
    <3> SUFFICES ASSUME style = {"interrupt"}
                 PROVE  /\ \A k \in DOMAIN called' : called'[k][1] = called'[k][2]
                        /\ \A m, k \in DOMAIN called' :
                             m # k => called'[m] # called'[k]
      BY <1>1 DEF OwnCallback
    <3>1. /\ \A k \in DOMAIN called : called[k][1] = called[k][2]
          /\ \A m, k \in DOMAIN called : m # k => called[m] # called[k]
          /\ \A k \in DOMAIN called : called[k] # entry
      BY <2>6 DEF OwnCallback, Uncalled, Kinds
    <3> QED BY <2>4, <2>6, <3>1
  <2>8. ASSUME Goto("isr", "out"), UNCHANGED <<calls, current>>
        PROVE  HostInv'
    <3>1. /\ pc' \in [Contexts -> Pcs] /\ pc'["isr"] = "out"
          /\ pc'["main"] = pc["main"]
      BY <1>0, <1>1, <2>8, Gone DEF Pcs
    <3>2. DetHostTypeOK'
      BY <1>0, <1>1, <2>3, <2>8, <3>1 DEF DetHostTypeOK, Call0, Pcs
    <3>3. StepsInv'
      BY <1>0, <1>1, <2>8, <3>1 DEF StepsInv, Active, Asking, Waiting, Kind
    <3>4. ReadyInv' /\ FlagInv'
      BY <1>0, <1>1, <2>8, <3>1 DEF ReadyInv, FlagInv, OwnResult, Asking
    <3>5. style = {"interrupt"} /\ pc["main"] \in Active =>
            Uncalled(current["main"])' /\ job # current["main"]
      BY <1>0, <1>1, <2>4, <2>6, <2>8 DEF CallbackInv, Uncalled
    <3>6. CallbackInv'
      BY <1>1, <1>2, <2>1, <2>7, <2>8, <3>1, <3>5
      DEF CallbackInv, Active, Asking
    <3> QED BY <3>2, <3>3, <3>4, <3>6 DEF HostInv
  <2>9. ASSUME style \in Chains, NEW dim \in Dimensions,
               NewCall("isr", "interrupt", dim)
        PROVE  HostInv'
    <3>0. style = {"interrupt"}
      BY <2>5, <2>9 DEF ChainsApart
    <3>1. /\ calls'[Len(calls')].kind = "interrupt"
          /\ current'["isr"] = Len(calls')
          /\ calls' \in Seq([kind : Kinds, dim : Dimensions])
          /\ Len(calls) \in Nat /\ Len(calls') = Len(calls) + 1
          /\ Len(calls') <= MaxCalls
          /\ \A k \in 1 .. Len(calls) : calls'[k] = calls[k]
          /\ current' \in [Contexts -> 0 .. Len(calls')]
          /\ pc' \in [Contexts -> Pcs]
          /\ pc'["isr"] = "check" /\ pc'["main"] = pc["main"]
          /\ current'["main"] = current["main"]
      BY <1>0, <1>1, <2>9, Called DEF Kinds
    <3>2. /\ Call0 \subseteq Call0'
          /\ (1 .. Len(calls)) \subseteq (1 .. Len(calls'))
      BY <3>1 DEF Call0
    <3>3. DetHostTypeOK'
      <4>1. /\ returned' \in SUBSET ((1 .. Len(calls')) \X Call0')
            /\ called' \in Seq((1 .. Len(calls')) \X Call0')
        BY <1>0, <1>1, <2>3, <3>2, MorePairs DEF DetHostTypeOK
      <4> QED BY <1>0, <1>1, <3>1, <3>2, <4>1 DEF DetHostTypeOK, Call0, Pcs
    <3>4. pc["main"] \notin Waiting
      BY <1>0, <1>1, <3>0 DEF StepsInv
    <3>5. StepsInv'
      BY <1>0, <1>1, <3>0, <3>1, <3>4, Earlier
      DEF StepsInv, Active, Asking, Waiting, Kind, NULL
    <3>6. ReadyInv'
      BY <1>0, <1>1, <1>2, <3>1 DEF ReadyInv, Asking
    <3>7. FlagInv'
      BY <1>0, <1>1, <3>1, <3>4 DEF FlagInv, OwnResult, Waiting
    <3>8. /\ job < Len(calls')
          /\ \A k \in DOMAIN called' : called'[k][1] \in 1 .. Len(calls)
      <4>1. job < Len(calls')
        BY <2>2, <3>1
      <4>2. ASSUME NEW k \in DOMAIN called' PROVE called'[k][1] \in 1 .. Len(calls)
        <5>1. CASE k = Len(called) + 1
          BY <2>2, <2>4, <5>1
        <5>2. CASE k # Len(called) + 1
          <6>1. k \in DOMAIN called
            BY <2>4, <5>2
          <6>2. called'[k] = called[k]
            BY <2>4, <6>1
          <6> QED BY <2>2, <6>1, <6>2
        <5> QED BY <5>1, <5>2
      <4> QED BY <4>1, <4>2
    <3>9. pc["main"] \in Active =>
            /\ \A k \in DOMAIN called : called[k][1] # current["main"]
            /\ job # current["main"] /\ current["main"] \in 1 .. Len(calls)
      BY <1>0, <1>1, <3>0, Earlier DEF CallbackInv, Uncalled
    <3>10. pc["main"] \in Active =>
             \A k \in DOMAIN called' : called'[k][1] # current["main"]
      BY <2>4, <2>6, <3>0, <3>9
    <3>11. /\ pc'["main"] \in Active => Uncalled(current["main"])'
           /\ Uncalled(current["isr"])' /\ job # current'["isr"]
      BY <3>1, <3>8, <3>10 DEF Uncalled
    <3>12. pc'["main"] \in Active => current'["main"] # current'["isr"]
      BY <3>1, <3>9
    <3>13. pc'["main"] # "invoke"
      BY <1>2, <3>1 DEF Asking
    <3>14. CallbackInv'
      BY <1>1, <1>2, <2>1, <2>7, <3>0, <3>1, <3>9, <3>11, <3>12, <3>13
      DEF CallbackInv, Active, Asking
    <3> QED BY <3>3, <3>5, <3>6, <3>7, <3>14 DEF HostInv
  <2> QED BY <1>5, <2>8, <2>9 DEF IsrCall, CallBack
<1> QED BY <1>4, <1>5

(* A step that changes nothing, and every step, keep the invariant.        *)
LEMMA HostUnchanged ==
  ASSUME HostInv, UNCHANGED detHostVars
  PROVE  HostInv'
  BY DEF HostInv, detHostVars, serviceVars, DetHostTypeOK, Call0, StepsInv,
         ReadyInv, FlagInv, CallbackInv, Active, Asking, Waiting, Kind,
         Pending, Uncalled, OwnCallback, OwnResult

LEMMA HostStep ==
  ASSUME ChainsApart, HostInv, [DetHostNext]_detHostVars
  PROVE  HostInv'
<1>1. ASSUME NEW c \in Contexts, CallStep(c)
      PROVE  HostInv'
  BY <1>1, CheckKeeps, ClearKeeps, RegisterKeeps, InvokeKeeps, SpinKeeps,
     ClearAgainKeeps, ReturnKeeps DEF CallStep
<1>2. CASE IsrStep
  BY <1>2, EnterIsrKeeps, IsrLoadKeeps, IsrCallKeeps DEF IsrStep
<1> QED
  BY <1>1, <1>2, CallKeeps, EngineKeeps, HostUnchanged DEF DetHostNext

(* fp_det() returns the determinant of its own matrix, and a function that *)
(* fp_det_interrupt() was given is called with that of its call, once: for *)
(* any number of calls and dimensions, in whatever order the program and   *)
(* its service routine run.                                                *)
THEOREM DeterminantsOwned ==
  ChainsApart => (DetHostSpec => []OwnDeterminants)
<1> SUFFICES ASSUME ChainsApart PROVE DetHostSpec => []OwnDeterminants
  OBVIOUS
<1>1. HostInv /\ [DetHostNext]_detHostVars => HostInv'
  BY HostStep
<1>2. HostInv => OwnDeterminants
  <2> SUFFICES ASSUME HostInv PROVE OwnDeterminants
    OBVIOUS
  <2>1. DetHostTypeOK /\ OwnResult /\ StepsInv /\ CallbackInv
    BY DEF HostInv, FlagInv
  <2>2. style \in SUBSET Kinds
    BY <2>1, DetHostAssumption DEF StepsInv, DetHostAssumption
  <2>3. OwnCallback
    <3>1. CASE "interrupt" \notin style
      <4>1. DOMAIN called = {}
        BY <2>1, <3>1 DEF CallbackInv
      <4> QED BY <4>1 DEF OwnCallback
    <3>2. CASE "interrupt" \in style
      BY <2>1, <2>2, <3>2 DEF CallbackInv, OwnCallback, Kinds
    <3> QED BY <3>1, <3>2
  <2> QED BY <2>1, <2>3 DEF OwnDeterminants
<1> QED BY <1>1, <1>2, HostInit, PTL DEF DetHostSpec
-----------------------------------------------------------------------------
(* SystemTime.                                                             *)

(* From the start of the engine on, and between the reading of the clock   *)
(* and the start.                                                          *)
Started == {"while", "exec_t1", "exec_t2", "print"}
Printing == {"status", "alt_putstr", "hw_notch"}
Timed == {"randomMatrix", "start", "lost"} \cup Printing \cup Started

TimeTypes ==
  /\ now \in Nat /\ nticks \in Nat
  /\ asked \in Nat /\ began \in Nat /\ ended \in Nat
  /\ clock \in BOOLEAN /\ tick \in BOOLEAN /\ isr \in BOOLEAN
  /\ engine \in {"ready", "busy", "irq", "done"} /\ place \in Timed
  /\ stamp \in [DOMAIN stamp -> Nat]

(* The clock has counted all periods that are over but, perhaps, the last: *)
(* its interrupt does not wait for long.                                   *)
Counted(q, r) ==
  /\ now = Period * q + r /\ r = now % Period
  /\ nticks + (IF tick THEN 1 ELSE 0) = q
  /\ tick => r <= IsrLatency

ClockCounts == clock => \E q \in Nat, r \in 0 .. Period - 1 : Counted(q, r)

(* Between the reading of the clock, x, and the time t.                    *)
Read(t, x, early, lateness) ==
  /\ x \in DOMAIN stamp
  /\ Period * stamp[x] <= t + early /\ t <= Period * stamp[x] + lateness

(* Where the program is, and what the engine does.                         *)
RunKnown ==
  /\ engine = "ready" => ~isr /\ place \notin Started
  /\ engine # "ready" => place \in Started
  /\ place \in Started \ {"while"} => engine = "done"
  /\ engine \in {"busy", "done"} => ~isr
  /\ engine = "irq" => ended <= now /\ now <= ended + IsrLatency

Read1 ==
  clock =>
    /\ place \in Printing \cup Started =>
         Read(asked, "notch_start", 0, Period + IsrLatency)
    /\ place \in Printing => asked <= now
    /\ place \in Started => asked <= began

Read2 ==
  clock /\ (isr \/ engine = "done") =>
    Read(ended, "notch_end", IsrLatency, Period + IsrLatency)

TimeInv == TimeTypes /\ ClockCounts /\ RunKnown /\ Read1 /\ Read2

(* The remainder of a division is what is left of the multiple.            *)
LEMMA RemainderIs ==
  ASSUME NEW v \in Int, NEW q \in Int, NEW r \in 0 .. Period - 1, v = Period * q + r
  PROVE  v % Period = r
<1> DEFINE P == Period
<1>0. P \in Nat /\ P > 0
  BY SystemTimeAssumption
<1>1. PICK s \in 0 .. P - 1 : s = v % P
  BY <1>0, SMT
<1>2. PICK t \in Int : t = v \div P
  BY <1>0, SMT
<1>3. v % P = v - P * (v \div P)
  BY <1>0, SMT
<1>4. s - r = P * (q - t)
  BY <1>0, <1>1, <1>2, <1>3
<1>5. PICK d \in Int : d = q - t
  BY <1>2
<1>6. -P < P * d /\ P * d < P
  BY <1>0, <1>1, <1>4, <1>5
<1>7. d = 0
  <2>1. CASE d >= 1
    <3>1. P * d >= P
      BY <2>1, <1>0
    <3> QED BY <3>1, <1>0, <1>6
  <2>2. CASE d <= -1
    <3>1. P * d <= -P
      BY <2>2, <1>0
    <3> QED BY <3>1, <1>0, <1>6
  <2> QED BY <2>1, <2>2
<1> QED BY <1>0, <1>1, <1>4, <1>5, <1>7

LEMMA TimeInit == SystemTimeInit => TimeInv
<1> SUFFICES ASSUME SystemTimeInit PROVE TimeInv
  OBVIOUS
<1>1. TimeTypes
  BY DEF SystemTimeInit, TimeTypes, NoStamps, Timed
<1>2. Counted(0, 0)
  <2>1. 0 = Period * 0 + 0 /\ 0 \in 0 .. Period - 1
    BY SystemTimeAssumption
  <2>2. 0 % Period = 0
    BY <2>1, RemainderIs
  <2> QED BY <2>1, <2>2 DEF SystemTimeInit, Counted
<1>3. ClockCounts
  <2>1. 0 \in 0 .. Period - 1
    BY SystemTimeAssumption
  <2> QED BY <1>2, <2>1 DEF ClockCounts
<1> QED BY <1>1, <1>3 DEF SystemTimeInit, TimeInv, RunKnown, Read1, Read2, Started, Printing

(* A reading of the clock adds a name, and changes no other one.           *)
LEMMA TimesIs ==
  ASSUME TimeTypes, NEW x, times(x)
  PROVE  /\ stamp' \in [DOMAIN stamp' -> Nat] /\ DOMAIN stamp' = DOMAIN stamp \cup {x}
         /\ \A y \in DOMAIN stamp : y # x => stamp'[y] = stamp[y]
         /\ clock => stamp'[x] = nticks
  BY DEF TimeTypes, times

(* What is read is the time, to a period and the wait of the interrupt.    *)
LEMMA ReadNow ==
  ASSUME TimeTypes, ClockCounts, clock, NEW x, times(x)
  PROVE  /\ x \in DOMAIN stamp' /\ Period * stamp'[x] \in Int
         /\ Period * stamp'[x] <= now
         /\ now <= Period * stamp'[x] + (Period + IsrLatency)
<1>0. Period \in Nat /\ Period > 0 /\ IsrLatency \in 0 .. Period - 1
  BY SystemTimeAssumption
<1>1. x \in DOMAIN stamp' /\ stamp'[x] = nticks
  BY TimesIs
<1>2. PICK q \in Nat, r \in 0 .. Period - 1 : Counted(q, r)
  BY DEF ClockCounts
<1>3. nticks \in Nat /\ now \in Nat /\ tick \in BOOLEAN
  BY DEF TimeTypes
<1>4. PICK p \in Int : p = Period * nticks
  BY <1>0, <1>3
<1>5. CASE tick
  <2>1. q = nticks + 1 /\ r <= IsrLatency /\ now = Period * q + r
    BY <1>2, <1>5 DEF Counted
  <2>2. Period * (nticks + 1) = Period * nticks + Period
    BY <1>0, <1>3
  <2>3. now = p + Period + r
    BY <1>0, <1>2, <1>3, <1>4, <2>1, <2>2
  <2> QED BY <1>0, <1>1, <1>2, <1>4, <2>1, <2>3
<1>6. CASE ~tick
  <2>1. q = nticks /\ now = Period * q + r
    BY <1>2, <1>3, <1>6 DEF Counted
  <2>3. now = p + r
    BY <1>4, <2>1
  <2> QED BY <1>0, <1>1, <1>2, <1>4, <2>3
<1> QED BY <1>3, <1>5, <1>6

(* A step at which no time passes, and no interrupt of the timer.          *)
LEMMA ClockStands ==
  ASSUME ClockCounts, UNCHANGED <<now, clock, nticks, tick>>
  PROVE  ClockCounts'
  BY DEF ClockCounts, Counted

LEMMA TickCounts ==
  ASSUME TimeTypes, ClockCounts, Tick
  PROVE  ClockCounts'
<1> SUFFICES ASSUME clock PROVE \E q \in Nat, r \in 0 .. Period - 1 : Counted(q, r)'
  BY DEF ClockCounts, Tick
<1>1. PICK q \in Nat, r \in 0 .. Period - 1 : Counted(q, r)
  BY DEF ClockCounts
<1>2. Counted(q, r)'
  BY <1>1 DEF Counted, Tick, TimeTypes
<1> QED BY <1>2

LEMMA PassCounts ==
  ASSUME TimeTypes, ClockCounts, Pass
  PROVE  ClockCounts'
<1> SUFFICES ASSUME clock PROVE \E q \in Nat, r \in 0 .. Period - 1 : Counted(q, r)'
  BY DEF ClockCounts, Pass
<1>0. Period \in Nat /\ Period > 0 /\ IsrLatency \in 0 .. Period - 1
  BY SystemTimeAssumption
<1>1. PICK q \in Nat, r \in 0 .. Period - 1 : Counted(q, r)
  BY DEF ClockCounts
<1>2. /\ now' = now + 1 /\ nticks' = nticks /\ tick' = (tick \/ now' % Period = 0)
      /\ tick => r < IsrLatency
  BY <1>1 DEF Pass, Counted
<1>3. now \in Nat /\ nticks \in Nat /\ tick \in BOOLEAN
  BY DEF TimeTypes
<1>4. /\ now = Period * q + r
      /\ nticks + (IF tick THEN 1 ELSE 0) = q
  BY <1>1 DEF Counted
<1>5. CASE r + 1 < Period
  <2>1. now' = Period * q + (r + 1) /\ r + 1 \in 0 .. Period - 1
    BY <1>0, <1>2, <1>4, <1>5
  <2>2. now' \in Int /\ q \in Int
    BY <1>2, <1>3
  <2>3. now' % Period = r + 1
    BY <2>1, <2>2, RemainderIs
  <2>4. tick' = tick
    <3>1. r + 1 # 0
      BY <1>1
    <3> QED BY <1>2, <1>3, <2>3, <3>1
  <2>5. tick' => r + 1 <= IsrLatency
    BY <1>0, <1>1, <1>2, <2>4
  <2>6. Counted(q, r + 1)'
    BY <1>2, <1>4, <2>1, <2>3, <2>4, <2>5 DEF Counted
  <2> QED BY <2>1, <2>6
<1>6. CASE r + 1 = Period
  <2>1. Period * (q + 1) = Period * q + Period
    BY <1>0, <1>1
  <2>2. now' = Period * (q + 1) + 0 /\ 0 \in 0 .. Period - 1 /\ q + 1 \in Nat
    BY <1>0, <1>1, <1>2, <1>3, <1>4, <1>6, <2>1
  <2>3. now' \in Int /\ q + 1 \in Int
    BY <1>2, <1>3
  <2>4. now' % Period = 0
    BY <2>2, <2>3, RemainderIs
  <2>5. ~tick /\ tick'
    <3>1. ~(r < IsrLatency)
      BY <1>0, <1>1, <1>6
    <3> QED BY <1>2, <2>4, <3>1
  <2>6. nticks' + (IF tick' THEN 1 ELSE 0) = q + 1
    BY <1>2, <1>3, <1>4, <2>5
  <2>7. Counted(q + 1, 0)'
    BY <1>0, <2>2, <2>4, <2>6 DEF Counted
  <2> QED BY <2>2, <2>7
<1> QED BY <1>0, <1>1, <1>5, <1>6

LEMMA TimeStep == TimeInv /\ [SystemTimeNext]_systemVars => TimeInv'
<1> SUFFICES ASSUME TimeInv, [SystemTimeNext]_systemVars PROVE TimeInv'
  OBVIOUS
<1> USE DEF run
<1>0. /\ TimeTypes /\ ClockCounts /\ RunKnown /\ Read1 /\ Read2
      /\ Period \in Nat /\ IsrLatency \in Nat
      /\ now \in Nat /\ ended \in Nat /\ asked \in Nat /\ began \in Nat
      /\ nticks \in Nat
  BY SystemTimeAssumption DEF TimeInv, TimeTypes
<1>1. CASE Reboot
  <2>1. TimeTypes'
    BY <1>0, <1>1 DEF TimeTypes, Reboot, NoStamps, Timed
  <2>2. ClockCounts'
    <3>1. 0 = Period * 0 + 0 /\ 0 \in 0 .. Period - 1
      BY SystemTimeAssumption
    <3>2. 0 % Period = 0
      BY <3>1, RemainderIs
    <3>3. Counted(0, 0)'
      BY <1>1, <3>1, <3>2 DEF Reboot, Counted
    <3> QED BY <3>1, <3>3 DEF ClockCounts
  <2> QED BY <1>1, <2>1, <2>2 DEF Reboot, TimeInv, RunKnown, Read1, Read2, Started, Printing
<1>2. CASE RandomMatrix
  <2>1. /\ times("seed") /\ place = "randomMatrix" /\ place' = "start" /\ ~isr
        /\ UNCHANGED <<now, clock, nticks, tick, engine, isr, run>>
    BY <1>2 DEF RandomMatrix, Runs
  <2>2. TimeTypes'
    BY <1>0, <2>1, TimesIs DEF TimeTypes, Timed
  <2>3. ClockCounts'
    BY <1>0, <2>1, ClockStands
  <2>4. RunKnown' /\ Read1' /\ Read2'
    BY <1>0, <2>1 DEF RunKnown, Read1, Read2, Started, Printing
  <2> QED BY <2>2, <2>3, <2>4 DEF TimeInv
<1>3. CASE StartMeasuring
  <2>1. /\ times("notch_start") /\ place = "start" /\ place' = "status" /\ ~isr
        /\ asked' = now
        /\ UNCHANGED <<now, clock, nticks, tick, engine, isr, began, ended>>
    BY <1>3 DEF StartMeasuring, Runs
  <2>2. TimeTypes'
    BY <1>0, <2>1, TimesIs DEF TimeTypes, Timed, Printing
  <2>3. ClockCounts'
    BY <1>0, <2>1, ClockStands
  <2>4. RunKnown' /\ Read2'
    BY <1>0, <2>1 DEF RunKnown, Read2, Started
  <2>5. Read1'
    <3>1. clock => Read(asked, "notch_start", 0, Period + IsrLatency)'
      BY <1>0, <2>1, ReadNow DEF Read
    <3>2. asked' <= now'
      BY <1>0, <2>1
    <3> QED BY <2>1, <3>1, <3>2 DEF Read1, Started
  <2> QED BY <2>2, <2>3, <2>4, <2>5 DEF TimeInv
<1>4. CASE HwNotch
  <2>1. /\ place = "hw_notch" /\ place' = "while" /\ engine' = "busy" /\ ~isr
        /\ began' = now /\ UNCHANGED <<now, clock, nticks, tick, isr, stamp, asked, ended>>
    BY <1>4 DEF HwNotch, Runs
  <2>2. TimeTypes'
    BY <1>0, <2>1 DEF TimeTypes, Timed, Started
  <2>3. ClockCounts'
    BY <1>0, <2>1, ClockStands
  <2> QED BY <1>0, <2>1, <2>2, <2>3
          DEF TimeInv, RunKnown, Read1, Read2, Read, Started, Printing
<1>5. CASE LeaveLoop
  <2>1. /\ place = "while" /\ place' = "exec_t1" /\ engine = "done" /\ ~isr
        /\ UNCHANGED <<now, clock, nticks, tick, engine, isr, stamp, run>>
    BY <1>5 DEF LeaveLoop, Runs
  <2>2. TimeTypes'
    BY <1>0, <2>1 DEF TimeTypes, Timed, Started
  <2>3. ClockCounts'
    BY <1>0, <2>1, ClockStands
  <2> QED BY <1>0, <2>1, <2>2, <2>3
          DEF TimeInv, RunKnown, Read1, Read2, Read, Started, Printing
<1>6. CASE MeasureSoftware \/ SoftwareMeasured
  <2>1. PICK x \in {"exec_t1", "exec_t2"} :
          /\ times(x) /\ place \in {"exec_t1", "exec_t2"}
          /\ place' \in {"exec_t2", "print"} /\ ~isr
          /\ UNCHANGED <<now, clock, nticks, tick, engine, isr, run>>
    BY <1>6 DEF MeasureSoftware, SoftwareMeasured, Runs
  <2>2. TimeTypes'
    BY <1>0, <2>1, TimesIs DEF TimeTypes, Timed, Started
  <2>3. ClockCounts'
    BY <1>0, <2>1, ClockStands
  <2>4. RunKnown'
    BY <1>0, <2>1 DEF RunKnown, Started
  <2>5. /\ "notch_start" \in DOMAIN stamp =>
             "notch_start" \in DOMAIN stamp' /\ stamp'["notch_start"] = stamp["notch_start"]
        /\ "notch_end" \in DOMAIN stamp =>
             "notch_end" \in DOMAIN stamp' /\ stamp'["notch_end"] = stamp["notch_end"]
    BY <1>0, <2>1, TimesIs
  <2>6. Read1' /\ Read2'
    BY <1>0, <2>1, <2>5 DEF Read1, Read2, Read, Started, Printing
  <2> QED BY <2>2, <2>3, <2>4, <2>6 DEF TimeInv
<1>7. CASE EngineFinishes
  <2>1. /\ engine = "busy" /\ engine' = "irq" /\ ended' = now
        /\ UNCHANGED <<now, clock, nticks, tick, place, isr, stamp, asked, began>>
    BY <1>7 DEF EngineFinishes
  <2>2. TimeTypes'
    BY <1>0, <2>1 DEF TimeTypes
  <2>3. ClockCounts'
    BY <1>0, <2>1, ClockStands
  <2>4. RunKnown'
    BY <1>0, <2>1 DEF RunKnown, Started
  <2> QED BY <1>0, <2>1, <2>2, <2>3, <2>4 DEF TimeInv, RunKnown, Read1, Read2, Read
<1>8. CASE NotchIsr
  <2>1. /\ engine = "irq" /\ ~isr /\ isr' = TRUE /\ times("notch_end")
        /\ UNCHANGED <<now, clock, nticks, tick, place, engine, run>>
    BY <1>8 DEF NotchIsr
  <2>2. TimeTypes'
    BY <1>0, <2>1, TimesIs DEF TimeTypes
  <2>3. ClockCounts'
    BY <1>0, <2>1, ClockStands
  <2>4. RunKnown'
    BY <1>0, <2>1 DEF RunKnown
  <2>5. Read1'
    <3>1. "notch_start" \in DOMAIN stamp =>
            "notch_start" \in DOMAIN stamp' /\ stamp'["notch_start"] = stamp["notch_start"]
      BY <1>0, <2>1, TimesIs
    <3> QED BY <1>0, <2>1, <3>1 DEF Read1, Read
  <2>6. Read2'
    <3> SUFFICES ASSUME clock
                 PROVE  Read(ended, "notch_end", IsrLatency, Period + IsrLatency)'
      BY <2>1 DEF Read2
    <3>1. /\ "notch_end" \in DOMAIN stamp' /\ Period * stamp'["notch_end"] \in Int
          /\ Period * stamp'["notch_end"] <= now
          /\ now <= Period * stamp'["notch_end"] + (Period + IsrLatency)
      BY <1>0, <2>1, ReadNow
    <3>2. ended <= now /\ now <= ended + IsrLatency
      BY <1>0, <2>1 DEF RunKnown
    <3>3. PICK p \in Int : p = Period * stamp'["notch_end"]
      BY <3>1
    <3>4. p <= ended + IsrLatency /\ ended <= p + (Period + IsrLatency)
      BY <1>0, <3>1, <3>2, <3>3
    <3> QED BY <2>1, <3>1, <3>3, <3>4 DEF Read
  <2> QED BY <2>2, <2>3, <2>4, <2>5, <2>6 DEF TimeInv
<1>9. CASE NotchIsrReturns
  <2>1. /\ isr /\ isr' = FALSE /\ engine' = "done"
        /\ UNCHANGED <<now, clock, nticks, tick, place, stamp, run>>
    BY <1>9 DEF NotchIsrReturns
  <2>2. TimeTypes'
    BY <1>0, <2>1 DEF TimeTypes
  <2>3. ClockCounts'
    BY <1>0, <2>1, ClockStands
  <2> QED BY <1>0, <2>1, <2>2, <2>3
          DEF TimeInv, RunKnown, Read1, Read2, Read, Started, Printing
<1>10. CASE Tick
  <2>1. /\ ~isr /\ nticks' = nticks + 1 /\ tick' = FALSE
        /\ UNCHANGED <<now, clock, place, engine, isr, stamp, run>>
    BY <1>10 DEF Tick
  <2>2. TimeTypes'
    <3>1. nticks' = nticks + 1 /\ nticks \in Nat
      BY <1>0, <2>1, Zenon
    <3>2. nticks' \in Nat
      BY <3>1, SMT
    <3>3. tick' \in BOOLEAN
      BY <2>1, Zenon
    <3> QED BY <1>0, <2>1, <3>2, <3>3, Zenon DEF TimeTypes
  <2>3. ClockCounts'
    BY <1>0, <1>10, TickCounts
  <2> QED BY <1>0, <2>1, <2>2, <2>3 DEF TimeInv, RunKnown, Read1, Read2, Read
<1>11. CASE Pass
  <2>1. /\ now' = now + 1 /\ tick' \in BOOLEAN
        /\ engine = "irq" => now < ended + IsrLatency
        /\ UNCHANGED <<clock, nticks, place, engine, isr, stamp, run>>
    BY <1>11 DEF Pass
  <2>2. TimeTypes'
    BY <1>0, <2>1 DEF TimeTypes
  <2>3. ClockCounts'
    BY <1>0, <1>11, PassCounts
  <2>4. RunKnown'
    BY <1>0, <2>1 DEF RunKnown
  <2> QED BY <1>0, <2>1, <2>2, <2>3, <2>4 DEF TimeInv, Read1, Read2, Read
<1>12. CASE AskStatus \/ PrintStatus
  <2>1. /\ place \in {"status", "alt_putstr"} /\ place' \in {"alt_putstr", "hw_notch"}
        /\ UNCHANGED <<now, clock, nticks, tick, engine, isr, stamp, run>>
    BY <1>12 DEF AskStatus, PrintStatus, Runs
  <2>2. TimeTypes'
    BY <1>0, <2>1 DEF TimeTypes, Timed, Printing
  <2>3. ClockCounts'
    BY <1>0, <2>1, ClockStands
  <2> QED BY <1>0, <2>1, <2>2, <2>3
          DEF TimeInv, RunKnown, Read1, Read2, Read, Started, Printing
<1>13. CASE UNCHANGED systemVars
  <2>1. UNCHANGED <<now, clock, nticks, tick, place, engine, isr, stamp, run>>
    BY <1>13 DEF systemVars
  <2>2. ClockCounts'
    BY <1>0, <2>1, ClockStands
  <2> QED BY <1>0, <2>1, <2>2 DEF TimeInv, TimeTypes, RunKnown, Read1, Read2, Read
<1> QED BY <1>1, <1>2, <1>3, <1>4, <1>5, <1>6, <1>7, <1>8, <1>9, <1>10, <1>11, <1>12,
          <1>13
       DEF SystemTimeNext, Main

(* With a system clock, what main() prints as the notch engine's time is   *)
(* the time from its reading of the clock to the end of the run, right to  *)
(* a tick and two latencies, and no less than the run took: for every      *)
(* period, every latency below it, and however long main() prints between  *)
(* the reading and the start.                                              *)
THEOREM TimeMeasured == SystemTimeSpec => []MeasuredTime
<1>1. TimeInv => MeasuredTime
  <2> DEFINE error == Period + 2 * IsrLatency
  <2> SUFFICES ASSUME TimeInv, clock, place = "print"
               PROVE  LET printed == Period * (stamp["notch_end"] - stamp["notch_start"])
                      IN  /\ ended - asked - error <= printed
                          /\ printed <= ended - asked + error
                          /\ ended - began <= printed + error
    BY DEF MeasuredTime
  <2>1. /\ Read(asked, "notch_start", 0, Period + IsrLatency) /\ asked <= began
        /\ Read(ended, "notch_end", IsrLatency, Period + IsrLatency)
    BY DEF TimeInv, RunKnown, Read1, Read2, Started
  <2>2. /\ asked \in Nat /\ began \in Nat /\ ended \in Nat
        /\ Period \in Nat /\ IsrLatency \in Nat
        /\ stamp["notch_start"] \in Nat /\ stamp["notch_end"] \in Nat
    BY <2>1, SystemTimeAssumption DEF TimeInv, TimeTypes, Read
  <2>3. PICK s \in Nat : s = stamp["notch_start"]
    BY <2>2
  <2>4. PICK e \in Nat : e = stamp["notch_end"]
    BY <2>2
  <2>5. PICK p \in Int : p = Period * s
    BY <2>2
  <2>6. PICK w \in Int : w = Period * e
    BY <2>2
  <2>7. Period * (e - s) = w - p
    BY <2>2, <2>5, <2>6
  <2>8. /\ p <= asked /\ asked <= p + Period + IsrLatency
        /\ w <= ended + IsrLatency /\ ended <= w + Period + IsrLatency
    BY <2>1, <2>2, <2>3, <2>4, <2>5, <2>6 DEF Read
  <2>9. /\ ended - asked - error <= w - p /\ w - p <= ended - asked + error
        /\ ended - began <= (w - p) + error
    BY <2>1, <2>2, <2>8
  <2> QED BY <2>3, <2>4, <2>7, <2>9
<1> QED BY <1>1, TimeInit, TimeStep, PTL DEF SystemTimeSpec
-----------------------------------------------------------------------------
(* Exceptions.                                                             *)

Owners == {0} \cup {i + 1 : i \in Irqs}
(* The interrupts that are allowed in the program, and in the handler o-1 *)
(* when it lets others in.                                                 *)
Outer(o) == IF o = 0 THEN Irqs ELSE {j \in Irqs : j < o - 1}

Frames == [owner : Owners, at : Nat, open : BOOLEAN, old : SUBSET Irqs, back : Nat, est : BOOLEAN]

(* How each instruction went; where in its code a frame was made, and   *)
(* where it goes back to.                                                  *)
Entries == Nat \X {"done", "emulated", "skipped"}

AtCode(f) ==
  /\ {f.at, f.back} \subseteq 1 .. Len(Code(f.owner)) + 1
  /\ f.back \in {f.at, f.at + 1}

StackTypes ==
  /\ ExcTypeOK /\ frames \in Seq(Frames) /\ ledger \in Seq(Entries)
  /\ \A k \in 1 .. Len(frames) : AtCode(frames[k])

(* The processor still knows of the instruction that has faulted.          *)
FaultKnown ==
  /\ Top.at <= Len(Code(Top.owner)) /\ Faulty # "plain" /\ CAUSE = CauseOf(Faulty)
  /\ Faulty = "misaligned" => BADADDR = <<Top.owner, Top.at>>

(* An exception is under way on the stack and with interrupts off; if an  *)
(* instruction has caused it, it is known which one.                       *)
ModeInv ==
  /\ mode = "run" => (owner = 0 <=> frames = << >>)
  /\ mode # "run" => frames # << >> /\ ~PIE
  /\ mode = "test" => Top.back = Top.at /\ (FaultKnown \/ (Top.est /\ IPENDING # {}))
  /\ mode \in {"soft", "handler"} => FaultKnown
  /\ mode = "handler" => ~(Emulates /\ Faulty = "mul")
  /\ ToldRight

(* Only the lowest frame is the program's.  Interrupts were allowed when a  *)
(* frame was made in which they are served, and are put back.              *)
FramesInv ==
  /\ \A k \in 1 .. Len(frames) :
       /\ frames[k].owner = 0 <=> k = 1
       /\ frames[k].est <=> frames[k].owner = 0 \/ frames[k].open
       /\ k < Len(frames) \/ mode = "run" => frames[k].est
  /\ mode = "run" => (PIE <=> owner = 0 \/ open)

(* The program has an instruction that is not going to be tried again, and *)
(* has not been written down yet.                                          *)
Skipping == Len(frames) = 1 /\ mode \in {"soft", "handler", "break"}

Outcome(k) ==
  IF Program[k] = "plain" THEN "done"
  ELSE IF Program[k] = "mul" /\ Emulates THEN "emulated" ELSE "skipped"

(* Instructions are through in order, and the lowest frame goes back to    *)
(* the next one.                                                           *)
PositionInv ==
  /\ \A k \in 1 .. Len(ledger) : ledger[k] = <<k, Outcome(k)>>
  /\ frames = << >> => at = Len(ledger) + 1
  /\ frames # << >> =>
       frames[1].back = IF Skipping THEN Len(ledger) + 2 ELSE Len(ledger) + 1
  /\ Skipping => frames[1].at = Len(ledger) + 1

(* The mask that belongs to where the processor is.                        *)
Mask == IF frames = << >> THEN Irqs
        ELSE IF mode = "run" THEN IF open THEN Outer(owner) ELSE Outer(Top.owner)
        ELSE IF Top.est THEN Outer(Top.owner)
        ELSE Outer(frames[Len(frames) - 1].owner)

(* It is in force, and kept where it is to be put back.                    *)
MaskInv ==
  /\ IENABLE = Mask /\ alt_priority_mask = Mask
  /\ mode = "run" /\ open => frames # << >> /\ old = Outer(Top.owner)
  /\ \A k \in 1 .. Len(frames) :
       frames[k].open => k > 1 /\ frames[k].old = Outer(frames[k - 1].owner)

(* Handlers higher on the stack have a higher priority.                    *)
OrderInv ==
  \A j \in 2 .. Len(frames) :
    /\ \A k \in j + 1 .. Len(frames) : frames[k].owner < frames[j].owner
    /\ mode = "run" => owner < frames[j].owner

ExcInv ==
  /\ StackTypes /\ ModeInv /\ FramesInv /\ PositionInv
  /\ ~Enables => MaskInv /\ OrderInv

(* A set of numbers has a least one.                                       *)
LEMMA Least ==
  ASSUME NEW S \in SUBSET Nat, S # {}
  PROVE  Min(S) \in S
<1> DEFINE R == {ss \in Nat \X Nat : ss[1] < ss[2]}
<1>1. IsWellFoundedOn(R, Nat)
  BY NatLessThanWellFounded, Zenon DEF OpToRel
<1> HIDE DEF R
<1>2. PICK x \in S : \A y \in S : ~ (<<y, x>> \in R)
  BY <1>1, WFMin, Zenon
<1>3. \A y \in S : x <= y
  <2> SUFFICES ASSUME NEW y \in S, y < x PROVE FALSE
    OBVIOUS
  <2>1. <<y, x>> \in R
    BY DEF R
  <2> QED BY <1>2, <2>1
<1> QED BY <1>3, Zenon DEF Min

(* Of the operators of Exceptions.                                         *)
LEMMA CodeIsSeq ==
  \A o : /\ Code(o) \in Seq(Instructions) /\ Len(Code(o)) \in Nat
         /\ \A k \in 1 .. Len(Code(o)) : Code(o)[k] \in Instructions
  BY ExceptionsAssumption DEF Code

LEMMA Causes ==
  /\ CauseOf("interrupt") = 2 /\ CauseOf("mul") = 4
  /\ CauseOf("illegal") = 5 /\ CauseOf("misaligned") = 6
  BY DEF CauseOf

LEMMA FrontShape ==
  ASSUME NEW S, NEW s \in Seq(S), s # << >>
  PROVE  /\ Front(s) \in Seq(S) /\ Len(Front(s)) = Len(s) - 1
         /\ \A k \in 1 .. Len(s) - 1 : Front(s)[k] = s[k]
<1> DEFINE len == Len(s) - 1
<1>1. len \in Nat /\ len \in Int /\ 1 \in Int /\ \A i \in 1 .. len : s[i] \in S
  OBVIOUS
<1> HIDE DEF len
<1>2. /\ SubSeq(s, 1, len) \in Seq(S)
      /\ Len(SubSeq(s, 1, len)) = IF 1 <= len THEN len - 1 + 1 ELSE 0
      /\ \A i \in 1 .. len - 1 + 1 : SubSeq(s, 1, len)[i] = s[1 + i - 1]
  BY <1>1, SubSeqProperties
<1>3. Front(s) = SubSeq(s, 1, len)
  BY DEF Front, len
<1>4. /\ Front(s) \in Seq(S) /\ Len(Front(s)) = len
      /\ \A k \in 1 .. len : Front(s)[k] = s[k]
  BY <1>1, <1>2, <1>3
<1> QED BY <1>4 DEF len

(* The three ways in which the stack changes: a frame more, a frame less,  *)
(* and a return address of the highest one.                                *)
LEMMA Pushed ==
  ASSUME frames \in Seq(Frames), NEW f \in Frames, frames' = Append(frames, f)
  PROVE  /\ frames' \in Seq(Frames) /\ frames' # << >>
         /\ Len(frames') = Len(frames) + 1 /\ Top' = f
         /\ \A k \in 1 .. Len(frames) : frames'[k] = frames[k]
  BY DEF Top, Last

LEMMA Popped ==
  ASSUME frames \in Seq(Frames), frames # << >>, frames' = Front(frames)
  PROVE  /\ frames' \in Seq(Frames) /\ Len(frames') = Len(frames) - 1
         /\ \A k \in 1 .. Len(frames') : frames'[k] = frames[k]
         /\ Len(frames) > 1 => frames' # << >> /\ Top' = frames[Len(frames) - 1]
         /\ Len(frames) = 1 => frames' = << >>
<1>1. /\ Len(frames) \in Nat /\ Len(frames) >= 1
      /\ \A k \in 1 .. Len(frames) : frames[k] \in Frames
  OBVIOUS
<1>2. frames' = Front(frames)
  OBVIOUS
<1>3. /\ frames' \in Seq(Frames) /\ Len(frames') = Len(frames) - 1
      /\ \A k \in 1 .. Len(frames') : frames'[k] = frames[k]
  BY <1>1, <1>2, FrontShape
<1> QED BY <1>1, <1>3 DEF Top, Last

LEMMA Backed ==
  ASSUME frames \in Seq(Frames), frames # << >>, NEW b \in Nat,
         frames' = [frames EXCEPT ![Len(frames)].back = b]
  PROVE  /\ frames' \in Seq(Frames) /\ frames' # << >> /\ Len(frames') = Len(frames)
         /\ \A k \in 1 .. Len(frames) - 1 : frames'[k] = frames[k]
         /\ Top' = [Top EXCEPT !.back = b]
<1>1. /\ Len(frames) \in 1 .. Len(frames) /\ DOMAIN frames = 1 .. Len(frames)
      /\ Top = frames[Len(frames)] /\ Top \in Frames
  BY DEF Top, Last
<1>2. [Top EXCEPT !.back = b] \in Frames
  BY <1>1 DEF Frames
<1>3. frames' = [frames EXCEPT ![Len(frames)] = [Top EXCEPT !.back = b]]
  BY <1>1
<1>4. /\ frames' \in Seq(Frames) /\ Len(frames') = Len(frames)
      /\ \A k \in 1 .. Len(frames) - 1 : frames'[k] = frames[k]
      /\ frames'[Len(frames)] = [Top EXCEPT !.back = b]
  BY <1>1, <1>2, <1>3
<1> QED BY <1>1, <1>4 DEF Top, Last

LEMMA TopFrame ==
  ASSUME StackTypes, frames # << >>
  PROVE  /\ Len(frames) \in Nat \ {0} /\ Top = frames[Len(frames)] /\ Top \in Frames
         /\ Top.at \in 1 .. Len(Code(Top.owner)) + 1
         /\ Top.back \in 1 .. Len(Code(Top.owner)) + 1
         /\ Top.back \in {Top.at, Top.at + 1}
<1>1. Len(frames) \in Nat \ {0} /\ Top = frames[Len(frames)] /\ Top \in Frames
  BY DEF StackTypes, Top, Last
<1> QED BY <1>1 DEF StackTypes, AtCode

LEMMA OwnersKnown ==
  ASSUME StackTypes
  PROVE  /\ Len(frames) \in Nat /\ DOMAIN frames = 1 .. Len(frames) /\ owner \in Nat
         /\ \A k \in 1 .. Len(frames) : frames[k].owner \in Nat
<1>1. Owners \subseteq Nat
  BY ExceptionsAssumption DEF Owners
<1>2. owner \in Owners /\ frames \in Seq(Frames)
  BY DEF StackTypes, ExcTypeOK, Owners
<1>3. /\ Len(frames) \in Nat /\ DOMAIN frames = 1 .. Len(frames)
      /\ \A k \in 1 .. Len(frames) : frames[k] \in Frames
  BY <1>2
<1> QED BY <1>1, <1>2, <1>3 DEF Frames

LEMMA TypesInit ==
  ASSUME ExcInit
  PROVE  StackTypes
<1>1. frames = << >> /\ ledger = << >> /\ Len(frames) = 0 /\ DOMAIN frames = {}
  BY DEF ExcInit
<1>2. frames \in Seq(Frames) /\ ledger \in Seq(Entries)
  BY <1>1
<1>3. 1 \in 1 .. Len(Code(0)) + 1
  BY CodeIsSeq
<1>4. ExcTypeOK
  BY <1>1, <1>3 DEF ExcInit, ExcTypeOK
<1> QED BY <1>1, <1>2, <1>4 DEF StackTypes

(* A frame is as the context that it has been made from.                   *)
LEMMA TrapMakes ==
  ASSUME StackTypes, mode = "run", NEW cause, Trap(cause)
  PROVE  /\ frames' \in Seq(Frames) /\ frames' # << >> /\ Len(frames') = Len(frames) + 1
         /\ Top' = [owner |-> owner, at |-> at, open |-> open, old |-> old,
                    back |-> at, est |-> PIE]
         /\ \A k \in 1 .. Len(frames) : frames'[k] = frames[k]
         /\ frames'[Len(frames) + 1] = Top'
<1> DEFINE f == [owner |-> owner, at |-> at, open |-> open, old |-> old,
                 back |-> at, est |-> PIE]
<1>1. f \in Frames
  BY CodeIsSeq DEF StackTypes, ExcTypeOK, Owners, Frames
<1>2. frames \in Seq(Frames) /\ frames' = Append(frames, f)
  BY DEF StackTypes, Trap
<1> HIDE DEF f
<1>3. /\ frames' \in Seq(Frames) /\ frames' # << >>
      /\ Len(frames') = Len(frames) + 1 /\ Top' = f
      /\ \A k \in 1 .. Len(frames) : frames'[k] = frames[k]
  BY <1>1, <1>2, Pushed
<1>4. frames'[Len(frames) + 1] = Top'
  BY <1>3 DEF Top, Last
<1> QED BY <1>3, <1>4 DEF f

LEMMA TypesTrap ==
  ASSUME StackTypes, mode = "run", NEW cause, Trap(cause)
  PROVE  StackTypes'
<1>1. /\ frames' \in Seq(Frames) /\ Len(frames') = Len(frames) + 1
      /\ Top' = [owner |-> owner, at |-> at, open |-> open, old |-> old,
                 back |-> at, est |-> PIE]
      /\ \A k \in 1 .. Len(frames) : frames'[k] = frames[k]
      /\ frames'[Len(frames) + 1] = Top'
  BY TrapMakes
<1>2. ASSUME NEW k \in 1 .. Len(frames')
      PROVE  AtCode(frames'[k])
  <2>0. Len(frames) \in Nat
    BY DEF StackTypes
  <2>1. CASE k \in 1 .. Len(frames)
    BY <1>1, <2>1 DEF StackTypes
  <2>2. CASE k = Len(frames) + 1
    BY <1>1, <2>2, CodeIsSeq DEF StackTypes, ExcTypeOK, AtCode
  <2> QED BY <2>0, <2>1, <2>2, <1>1
<1>3. \A k \in 1 .. Len(frames') : AtCode(frames[k])'
  BY <1>2 DEF AtCode, Code
<1>4. Code(owner') = Code(owner) /\ DOMAIN frames' = 1 .. Len(frames')
  BY <1>1 DEF Trap, context, Code
<1>5. ledger' \in Seq(Entries)
  BY DEF Trap, StackTypes
<1>6. ExcTypeOK'
  BY <1>2, <1>4 DEF Trap, StackTypes, ExcTypeOK, context, AtCode, Code
<1> QED BY <1>1, <1>3, <1>5, <1>6 DEF StackTypes


LEMMA TypesSame ==
  ASSUME StackTypes, UNCHANGED frames
  PROVE  /\ frames' \in Seq(Frames) /\ \A k \in 1 .. Len(frames') : AtCode(frames[k])'
         /\ \A k \in DOMAIN frames' : frames'[k].back \in {frames'[k].at, frames'[k].at + 1}
  BY DEF StackTypes, ExcTypeOK, AtCode, Code

LEMMA TypesBacked ==
  ASSUME StackTypes, frames # << >>, NEW b \in {Top.at, Top.at + 1},
         b <= Len(Code(Top.owner)) + 1,
         frames' = [frames EXCEPT ![Len(frames)].back = b]
  PROVE  /\ frames' \in Seq(Frames) /\ \A k \in 1 .. Len(frames') : AtCode(frames[k])'
         /\ \A k \in DOMAIN frames' : frames'[k].back \in {frames'[k].at, frames'[k].at + 1}
<1>1. /\ Len(frames) \in Nat \ {0} /\ Top \in Frames
      /\ Top.at \in 1 .. Len(Code(Top.owner)) + 1 /\ Len(Code(Top.owner)) \in Nat
  BY TopFrame, CodeIsSeq
<1>2. b \in Nat /\ b \in 1 .. Len(Code(Top.owner)) + 1
  BY <1>1
<1>3. /\ frames' \in Seq(Frames) /\ Len(frames') = Len(frames)
      /\ \A k \in 1 .. Len(frames) - 1 : frames'[k] = frames[k]
      /\ Top' = [Top EXCEPT !.back = b]
  BY <1>2, Backed DEF StackTypes
<1>4. ASSUME NEW k \in 1 .. Len(frames')
      PROVE  AtCode(frames'[k])
  <2>1. CASE k \in 1 .. Len(frames) - 1
    BY <1>1, <1>3, <2>1 DEF StackTypes
  <2>2. CASE k = Len(frames)
    <3>1. frames'[k] = [Top EXCEPT !.back = b]
      BY <1>3, <2>2 DEF Top, Last
    <3> QED BY <1>1, <1>2, <3>1 DEF AtCode, Frames
  <2> QED BY <1>1, <1>3, <2>1, <2>2
<1> QED BY <1>3, <1>4 DEF AtCode, Code

LEMMA TypesPopped ==
  ASSUME StackTypes, frames # << >>, frames' = Front(frames)
  PROVE  /\ frames' \in Seq(Frames) /\ \A k \in 1 .. Len(frames') : AtCode(frames[k])'
         /\ \A k \in DOMAIN frames' : frames'[k].back \in {frames'[k].at, frames'[k].at + 1}
<1>1. /\ frames' \in Seq(Frames) /\ Len(frames') = Len(frames) - 1 /\ Len(frames) \in Nat
      /\ \A k \in 1 .. Len(frames') : frames'[k] = frames[k]
  BY Popped DEF StackTypes
<1>2. \A k \in 1 .. Len(frames') : AtCode(frames'[k])
  BY <1>1 DEF StackTypes
<1> QED BY <1>1, <1>2 DEF AtCode, Code

LEMMA LogTypes ==
  ASSUME StackTypes, frames # << >>, NEW how \in {"done", "emulated", "skipped"}, Log(how)
  PROVE  ledger' \in Seq(Entries)
<1>1. <<Top.at, how>> \in Entries
  BY TopFrame DEF Frames, Entries
<1> QED BY <1>1 DEF Log, StackTypes

LEMMA TypesStep ==
  ASSUME StackTypes, ModeInv, ExcNext
  PROVE  StackTypes'
<1> USE DEF Code
<1>0. Len(Program) \in Nat /\ Len(Isr) \in Nat /\ Irqs \subseteq Nat
  BY ExceptionsAssumption
<1>a. ASSUME UNCHANGED frames
      PROVE  /\ frames' \in Seq(Frames) /\ \A k \in 1 .. Len(frames') : AtCode(frames[k])'
             /\ \A k \in DOMAIN frames' : frames'[k].back \in {frames'[k].at, frames'[k].at + 1}
  BY <1>a, TypesSame
<1>b. ASSUME UNCHANGED ledger
      PROVE  ledger' \in Seq(Entries)
  BY <1>b DEF StackTypes
<1>1. CASE Execute
  <2>1. ledger' \in Seq(Entries)
    <3>1. <<at, "done">> \in Entries
      BY <1>0 DEF StackTypes, ExcTypeOK, Entries
    <3> QED BY <1>1, <3>1 DEF Execute, StackTypes
  <2>2. at' \in 1 .. Len(Code(owner')) + 1
    BY <1>0, <1>1 DEF Execute, Fetches, StackTypes, ExcTypeOK
  <2> QED BY <1>1, <1>a, <2>1, <2>2
          DEF Execute, StackTypes, ExcTypeOK, registers, extra, counts
<1>2. CASE Fault
  BY <1>2, TypesTrap DEF Fault, Fetches
<1>3. CASE Interrupt
  BY <1>3, TypesTrap DEF Interrupt
<1>4. CASE TestIrq
  <2>1. CASE Top.est /\ IPENDING # {}
    <3>1. Min(IPENDING) \in Irqs
      <4>1. IPENDING \subseteq Irqs /\ IPENDING \in SUBSET Nat
        BY <1>0 DEF IPENDING, StackTypes, ExcTypeOK
      <4> QED BY <4>1, <2>1, Least
    <3>2. /\ owner' \in {0} \cup {i + 1 : i \in Irqs} /\ at' \in 1 .. Len(Code(owner')) + 1
          /\ open' = FALSE /\ UNCHANGED <<old, frames, ledger>> /\ mode' = "run"
      BY <1>0, <1>4, <2>1, <3>1 DEF TestIrq
    <3> QED BY <1>4, <1>a, <1>b, <3>2
            DEF TestIrq, StackTypes, ExcTypeOK, registers, extra, counts
  <2>2. CASE ~(Top.est /\ IPENDING # {})
    <3>1. frames # << >> /\ Top.at + 1 <= Len(Code(Top.owner)) + 1
      <4>1. frames # << >> /\ Top.at <= Len(Code(Top.owner))
        BY <1>4, <2>2 DEF TestIrq, ModeInv, FaultKnown
      <4> QED BY <4>1, <1>0, TopFrame
    <3>2. frames' = [frames EXCEPT ![Len(frames)].back = Top.at + 1] /\ mode' = "soft"
          /\ UNCHANGED <<context, ledger>>
      BY <1>4, <2>2 DEF TestIrq
    <3>3. /\ frames' \in Seq(Frames) /\ \A k \in 1 .. Len(frames') : AtCode(frames[k])'
          /\ \A k \in DOMAIN frames' : frames'[k].back \in {frames'[k].at, frames'[k].at + 1}
      BY <3>1, <3>2, TypesBacked
    <3> QED BY <1>4, <1>b, <3>2, <3>3
            DEF TestIrq, StackTypes, ExcTypeOK, context, registers, extra, counts
  <2> QED BY <2>1, <2>2
<1>5. CASE Emulate
  <2>1. ledger' \in Seq(Entries)
    <3>1. frames # << >> /\ Log("emulated")
      BY <1>5 DEF Emulate, ModeInv
    <3> QED BY <3>1, LogTypes
  <2> QED BY <1>5, <1>a, <2>1
          DEF Emulate, StackTypes, ExcTypeOK, context, registers, extra, counts
<1>6. CASE alt_instruction_exception_entry
  BY <1>6, <1>a, <1>b DEF alt_instruction_exception_entry, StackTypes,
    ExcTypeOK, context, registers, extra, counts
<1>7. CASE HandlerReturns
  <2>0. frames # << >>
    BY <1>7 DEF HandlerReturns, ModeInv
  <2>1. CASE Log("skipped") /\ UNCHANGED frames
    <3>2. ledger' \in Seq(Entries)
      BY <2>0, <2>1, LogTypes
    <3> QED BY <1>7, <1>a, <2>1, <3>2 DEF HandlerReturns, StackTypes,
          ExcTypeOK, context, registers, extra
  <2>2. CASE frames' = [frames EXCEPT ![Len(frames)].back = Top.at] /\ UNCHANGED ledger
    <3>1. Top.at <= Len(Code(Top.owner)) + 1
      BY <2>0, <1>0, TopFrame
    <3>2. /\ frames' \in Seq(Frames) /\ \A k \in 1 .. Len(frames') : AtCode(frames[k])'
          /\ \A k \in DOMAIN frames' : frames'[k].back \in {frames'[k].at, frames'[k].at + 1}
      BY <2>0, <2>2, <3>1, TypesBacked
    <3> QED BY <1>7, <1>b, <2>2, <3>2 DEF HandlerReturns, StackTypes,
          ExcTypeOK, context, registers, extra
  <2> QED BY <1>7, <2>1, <2>2 DEF HandlerReturns
<1>8. CASE Exit
  <2>1. frames # << >>
    BY <1>8 DEF Exit, ModeInv
  <2>2. /\ frames' \in Seq(Frames) /\ \A k \in 1 .. Len(frames') : AtCode(frames[k])'
        /\ \A k \in DOMAIN frames' : frames'[k].back \in {frames'[k].at, frames'[k].at + 1}
    BY <1>8, <2>1, TypesPopped DEF Exit
  <2>3. /\ owner' \in {0} \cup {i + 1 : i \in Irqs} /\ at' \in 1 .. Len(Code(owner')) + 1
        /\ {open', PIE'} \subseteq BOOLEAN /\ old' \subseteq Irqs
    BY <1>8, <2>1, TopFrame DEF Exit, Frames, Owners
  <2> QED BY <1>8, <1>b, <2>2, <2>3 DEF Exit, StackTypes, ExcTypeOK, extra, counts
<1>9. CASE alt_irq_interruptible
  BY <1>9, <1>a, <1>b DEF alt_irq_interruptible, InIsr, StackTypes, ExcTypeOK, extra, counts
<1>10. CASE alt_irq_non_interruptible
  BY <1>10, <1>a, <1>b DEF alt_irq_non_interruptible, InIsr, StackTypes,
    ExcTypeOK, extra, counts
<1>11. CASE alt_irq_enable
  BY <1>11, <1>a, <1>b DEF alt_irq_enable, InIsr, StackTypes, ExcTypeOK,
    context, extra, counts
<1>12. CASE IsrReturns
  <2> DEFINE pending == lines' \cap IENABLE
  <2>1. pending \subseteq Irqs /\ lines' \subseteq Irqs
    BY <1>12 DEF IsrReturns, StackTypes, ExcTypeOK
  <2>2. pending # {} => Min(pending) \in Irqs
    BY <1>0, <2>1, Least
  <2>3. /\ owner' \in {0} \cup {i + 1 : i \in Irqs} /\ at' \in 1 .. Len(Code(owner')) + 1
        /\ mode' \in {"run", "exit"}
    <3>1. CASE pending # {}
      <4>1. owner' = Min(pending) + 1 /\ at' = 1 /\ mode' = mode /\ mode = "run"
        BY <1>12, <3>1 DEF IsrReturns, InIsr
      <4> DEFINE m == Min(pending)
      <4>3. m \in Irqs /\ owner' = m + 1
        BY <2>2, <3>1, <4>1
      <4> HIDE DEF m
      <4>2. owner' \in {i + 1 : i \in Irqs} /\ owner' # 0
        BY <1>0, <4>3
      <4>4. Len(Code(owner')) \in Nat /\ mode' = "run" /\ at' = 1
        BY <1>0, <4>1
      <4> QED BY <4>2, <4>4
    <3>2. CASE pending = {}
      BY <1>12, <3>2 DEF IsrReturns, StackTypes, ExcTypeOK
    <3> QED BY <3>1, <3>2
  <2> QED BY <1>12, <1>a, <1>b, <2>1, <2>3 DEF IsrReturns, StackTypes,
        ExcTypeOK, registers, extra, counts
<1>13. CASE alt_instruction_exception_register
  BY <1>13, <1>a, <1>b DEF alt_instruction_exception_register, StackTypes,
    ExcTypeOK, context, registers, extra, counts
<1>14. CASE Raise
  BY <1>14, <1>a, <1>b DEF Raise, StackTypes, ExcTypeOK, context, registers, extra
<1> QED BY <1>1, <1>2, <1>3, <1>4, <1>5, <1>6, <1>7, <1>8, <1>9, <1>10,
           <1>11, <1>12, <1>13, <1>14 DEF ExcNext, ExcStep

LEMMA ModeInit == ExcInit => ModeInv
  BY DEF ExcInit, ModeInv, ToldRight

(* What is known of the instruction stays known while nothing of it        *)
(* changes.                                                                *)
LEMMA FaultStays ==
  ASSUME FaultKnown, UNCHANGED extra,
         Top'.owner = Top.owner /\ Top'.at = Top.at
  PROVE  FaultKnown' /\ Faulty' = Faulty
  BY DEF FaultKnown, Faulty, extra, Code, CauseOf

LEMMA ModeStep ==
  ASSUME StackTypes, ModeInv, FramesInv, ExcNext
  PROVE  ModeInv'
<1>0. /\ Irqs \subseteq Nat /\ UNCHANGED options
      /\ Api' = Api /\ ExtraInfo' = ExtraInfo /\ Emulates' = Emulates
  BY ExceptionsAssumption DEF ExcNext, Api, ExtraInfo, Emulates
<1>a. ASSUME mode' = "run", owner' = 0 <=> frames' = << >>
      PROVE  ModeInv'
  BY <1>a DEF ModeInv, ToldRight
<1>b. ASSUME UNCHANGED <<context, registers, frames, extra, mode, told>>,
             lines \subseteq lines'
      PROVE  ModeInv'
  <2>1. UNCHANGED <<owner, PIE, IENABLE, Top, Faulty>> /\ FaultKnown' = FaultKnown
    BY <1>b DEF context, registers, extra, Top, Faulty, FaultKnown, Code, CauseOf
  <2>2. IPENDING \subseteq IPENDING'
    BY <1>b, <2>1 DEF IPENDING
  <2>3. ToldRight'
    BY <1>0, <1>b, <2>1 DEF ModeInv, ToldRight, CauseOf,
       alt_exception_cause_generated_bad_addr
  <2> QED BY <1>0, <1>b, <2>1, <2>2, <2>3 DEF ModeInv
<1>1. CASE Execute
  BY <1>1, <1>a DEF Execute, Fetches, ModeInv
<1>2. CASE Fault
  <2> DEFINE kind == Code(owner)[at]
  <2>1. /\ mode = "run" /\ at <= Len(Code(owner)) /\ kind # "plain" /\ Trap(CauseOf(kind))
        /\ BADADDR' = IF kind = "misaligned" THEN <<owner, at>> ELSE BADADDR
    BY <1>2 DEF Fault, Fetches
  <2>2. /\ frames' # << >>
        /\ Top' = [owner |-> owner, at |-> at, open |-> open, old |-> old,
                   back |-> at, est |-> PIE]
    BY <2>1, TrapMakes
  <2>3. Faulty' = kind /\ Top'.owner = owner /\ Top'.at = at /\ Top'.back = at
    BY <2>2 DEF Faulty, Code
  <2>4. CAUSE' = CauseOf(kind) /\ mode' = "test" /\ ~PIE'
    BY <2>1 DEF Trap
  <2>5. FaultKnown'
    BY <2>1, <2>3, <2>4 DEF FaultKnown, Code, CauseOf
  <2> QED BY <2>2, <2>3, <2>4, <2>5 DEF ModeInv, ToldRight
<1>3. CASE Interrupt
  <2>1. mode = "run" /\ PIE /\ IPENDING # {} /\ Trap(CauseOf("interrupt"))
    BY <1>3 DEF Interrupt
  <2>2. /\ frames' # << >>
        /\ Top' = [owner |-> owner, at |-> at, open |-> open, old |-> old,
                   back |-> at, est |-> PIE]
    BY <2>1, TrapMakes
  <2>3. mode' = "test" /\ ~PIE' /\ IPENDING' = IPENDING
    BY <2>1 DEF Trap, IPENDING
  <2> QED BY <2>1, <2>2, <2>3 DEF ModeInv, ToldRight
<1>4. CASE TestIrq
  <2>0. frames # << >> /\ ~PIE /\ mode = "test"
    BY <1>4 DEF TestIrq, ModeInv
  <2>1. CASE Top.est /\ IPENDING # {}
    <3>1. Min(IPENDING) \in Nat
      <4>1. IPENDING \in SUBSET Nat
        BY <1>0 DEF IPENDING, StackTypes, ExcTypeOK
      <4> QED BY <4>1, <2>1, Least
    <3>2. owner' # 0 /\ mode' = "run" /\ frames' = frames
      BY <1>4, <2>1, <3>1 DEF TestIrq
    <3> QED BY <1>a, <2>0, <3>2
  <2>2. CASE ~(Top.est /\ IPENDING # {})
    <3>1. FaultKnown
      BY <2>0, <2>2 DEF ModeInv
    <3>2. frames' = [frames EXCEPT ![Len(frames)].back = Top.at + 1] /\ mode' = "soft"
          /\ UNCHANGED <<PIE, extra>>
      BY <1>4, <2>2 DEF TestIrq, registers
    <3>3. frames' # << >> /\ Top' = [Top EXCEPT !.back = Top.at + 1] /\ Top \in Frames
      <4>1. Top.at + 1 \in Nat /\ Top \in Frames
        BY <2>0, TopFrame DEF Frames
      <4> QED BY <2>0, <3>2, <4>1, Backed DEF StackTypes
    <3>4. FaultKnown'
      BY <3>1, <3>2, <3>3, FaultStays DEF Frames
    <3> QED BY <2>0, <3>2, <3>3, <3>4 DEF ModeInv, ToldRight
  <2> QED BY <2>1, <2>2
<1>5. CASE Emulate
  BY <1>5 DEF Emulate, ModeInv, ToldRight, registers
<1>6. CASE alt_instruction_exception_entry
  <2>1. /\ mode = "soft" /\ ~(Emulates /\ Faulty = "mul") /\ FaultKnown /\ frames # << >>
        /\ ~PIE /\ UNCHANGED <<PIE, frames, extra>>
    BY <1>6 DEF alt_instruction_exception_entry, ModeInv, registers
  <2>2. Top' = Top /\ Faulty' = Faulty /\ FaultKnown'
    BY <2>1, FaultStays DEF Top
  <2>3. CASE mode' = "break"
    BY <2>1, <2>3 DEF ModeInv, ToldRight
  <2>4. CASE mode' = "handler"
    <3>1. told' = [cause |-> IF ExtraInfo THEN CAUSE ELSE -1,
                   pc |-> <<Top.owner, Top.at>>,
                   bad |-> IF ExtraInfo THEN BADADDR ELSE <<0, 0>>]
      BY <1>6, <2>4 DEF alt_instruction_exception_entry
    <3>2. Faulty \in {"mul", "illegal", "misaligned"}
      BY <2>1, TopFrame, CodeIsSeq DEF FaultKnown, Faulty, Instructions
    <3>3. ToldRight'
      BY <1>0, <2>1, <2>2, <3>1, <3>2, Causes DEF FaultKnown, ToldRight, CauseOf,
         alt_exception_cause_generated_bad_addr
    <3> QED BY <1>0, <2>1, <2>2, <2>4, <3>3 DEF ModeInv
  <2> QED BY <1>6, <2>3, <2>4 DEF alt_instruction_exception_entry
<1>7. CASE HandlerReturns
  <2>1. mode' = "exit" /\ frames' # << >> /\ ~PIE'
    <3>1. frames # << >> /\ ~PIE /\ mode' = "exit" /\ PIE' = PIE
      BY <1>7 DEF HandlerReturns, ModeInv, registers
    <3>2. CASE UNCHANGED frames
      BY <3>1, <3>2
    <3>3. CASE frames' = [frames EXCEPT ![Len(frames)].back = Top.at]
      BY <3>1, <3>3, Backed, TopFrame DEF StackTypes, Frames
    <3> QED BY <1>7, <3>1, <3>2, <3>3 DEF HandlerReturns
  <2> QED BY <2>1 DEF ModeInv, ToldRight
<1>8. CASE Exit
  <2>1. frames # << >> /\ mode' = "run" /\ owner' = Top.owner /\ frames' = Front(frames)
    BY <1>8 DEF Exit, ModeInv
  <2>2. /\ Len(frames) \in Nat \ {0}
        /\ Top.owner = 0 <=> Len(frames) = 1
    <3>1. Len(frames) \in Nat \ {0} /\ Top = frames[Len(frames)]
      BY <2>1, TopFrame
    <3>2. Len(frames) \in 1 .. Len(frames)
      BY <3>1
    <3> QED BY <3>1, <3>2 DEF FramesInv
  <2>3. frames' = << >> <=> Len(frames) = 1
    BY <2>1, <2>2, Popped DEF StackTypes
  <2> QED BY <1>a, <2>1, <2>2, <2>3
<1>9. CASE alt_irq_interruptible
  BY <1>9, <1>a DEF alt_irq_interruptible, InIsr, ModeInv
<1>10. CASE alt_irq_non_interruptible
  BY <1>10, <1>a DEF alt_irq_non_interruptible, InIsr, ModeInv
<1>11. CASE alt_irq_enable
  BY <1>11, <1>a DEF alt_irq_enable, InIsr, ModeInv, context
<1>12. CASE IsrReturns
  <2> DEFINE pending == lines' \cap IENABLE
  <2>0. mode = "run" /\ owner # 0 /\ ~open /\ frames # << >> /\ ~PIE
        /\ UNCHANGED <<frames, PIE>>
    BY <1>12 DEF IsrReturns, InIsr, ModeInv, FramesInv, registers
  <2>1. CASE pending # {}
    <3>1. Min(pending) \in Nat
      <4>1. pending \in SUBSET Nat
        BY <1>0, <1>12 DEF IsrReturns, StackTypes, ExcTypeOK
      <4> QED BY <4>1, <2>1, Least
    <3>2. owner' = Min(pending) + 1 /\ mode' = "run"
      BY <1>12, <2>0, <2>1 DEF IsrReturns
    <3> HIDE DEF pending
    <3> QED BY <1>a, <2>0, <3>1, <3>2
  <2>2. CASE pending = {}
    <3>1. mode' = "exit"
      BY <1>12, <2>2 DEF IsrReturns
    <3> QED BY <2>0, <3>1 DEF ModeInv, ToldRight
  <2> QED BY <2>1, <2>2
<1>13. CASE alt_instruction_exception_register
  BY <1>13, <1>a DEF alt_instruction_exception_register, context, ModeInv
<1>14. CASE Raise
  <2>1. lines \subseteq lines'
    BY <1>14 DEF Raise
  <2> QED BY <1>14, <1>b, <2>1 DEF Raise
<1> QED BY <1>1, <1>2, <1>3, <1>4, <1>5, <1>6, <1>7, <1>8, <1>9, <1>10,
           <1>11, <1>12, <1>13, <1>14 DEF ExcNext, ExcStep

LEMMA FramesInit == ExcInit => FramesInv
  BY DEF ExcInit, FramesInv

LEMMA FramesTrap ==
  ASSUME StackTypes, ModeInv, FramesInv, mode = "run", NEW cause, Trap(cause)
  PROVE  FramesInv'
<1>0. Len(frames) \in Nat /\ (owner = 0 <=> Len(frames) = 0)
  BY DEF StackTypes, ModeInv
<1>1. /\ Len(frames') = Len(frames) + 1 /\ mode' = "test"
      /\ frames'[Len(frames) + 1] = [owner |-> owner, at |-> at, open |-> open,
                                     old |-> old, back |-> at, est |-> PIE]
      /\ \A k \in 1 .. Len(frames) : frames'[k] = frames[k]
  BY TrapMakes DEF Trap
<1>2. ASSUME NEW k \in 1 .. Len(frames')
      PROVE  /\ frames'[k].owner = 0 <=> k = 1
             /\ frames'[k].est <=> frames'[k].owner = 0 \/ frames'[k].open
             /\ k < Len(frames') => frames'[k].est
  <2>1. CASE k \in 1 .. Len(frames)
    BY <1>1, <2>1 DEF FramesInv
  <2>2. CASE k = Len(frames) + 1
    BY <1>0, <1>1, <2>2 DEF FramesInv
  <2> QED BY <1>0, <1>1, <2>1, <2>2
<1> QED BY <1>1, <1>2 DEF FramesInv

LEMMA FramesBacked ==
  ASSUME StackTypes, FramesInv, frames # << >>, NEW b \in Nat, mode # "run", mode' # "run",
         frames' = [frames EXCEPT ![Len(frames)].back = b]
  PROVE  FramesInv'
<1>1. /\ Len(frames') = Len(frames) /\ Len(frames) \in Nat \ {0}
      /\ \A k \in 1 .. Len(frames) - 1 : frames'[k] = frames[k]
      /\ frames'[Len(frames)] = [frames[Len(frames)] EXCEPT !.back = b]
      /\ frames[Len(frames)] \in Frames
  <2>1. /\ Len(frames') = Len(frames) /\ Top' = [Top EXCEPT !.back = b]
        /\ \A k \in 1 .. Len(frames) - 1 : frames'[k] = frames[k]
    BY Backed DEF StackTypes
  <2>2. Len(frames) \in Nat \ {0} /\ Top = frames[Len(frames)] /\ Top \in Frames
    BY TopFrame
  <2> QED BY <2>1, <2>2 DEF Top, Last
<1>2. ASSUME NEW k \in 1 .. Len(frames')
      PROVE  /\ frames'[k].owner = frames[k].owner /\ frames'[k].open = frames[k].open
             /\ frames'[k].est = frames[k].est
  <2>1. CASE k = Len(frames)
    BY <1>1, <2>1 DEF Frames
  <2>2. CASE k # Len(frames)
    BY <1>1, <2>2
  <2> QED BY <2>1, <2>2
<1> QED BY <1>1, <1>2 DEF FramesInv

LEMMA FramesStep ==
  ASSUME StackTypes, ModeInv, FramesInv, ExcNext
  PROVE  FramesInv'
<1>a. ASSUME UNCHANGED <<frames, PIE, open, mode, owner>>
      PROVE  FramesInv'
  BY <1>a DEF FramesInv
<1>b. ASSUME UNCHANGED frames, mode = "run" \/ mode' # "run",
             mode' = "run" => (PIE' <=> owner' = 0 \/ open')
      PROVE  FramesInv'
  BY <1>b DEF FramesInv
<1>1. CASE Execute
  BY <1>1, <1>a DEF Execute, registers
<1>2. CASE Fault
  BY <1>2, FramesTrap DEF Fault, Fetches
<1>3. CASE Interrupt
  BY <1>3, FramesTrap DEF Interrupt
<1>4. CASE TestIrq
  <2>0. frames # << >> /\ ~PIE /\ mode = "test"
    BY <1>4 DEF TestIrq, ModeInv
  <2>1. CASE Top.est /\ IPENDING # {}
    <3>1. Min(IPENDING) \in Nat
      <4>1. IPENDING \in SUBSET Nat
        BY ExceptionsAssumption DEF IPENDING, StackTypes, ExcTypeOK
      <4> QED BY <4>1, <2>1, Least
    <3>2. owner' # 0 /\ open' = FALSE /\ frames' = frames /\ ~PIE'
      BY <1>4, <2>0, <2>1, <3>1 DEF TestIrq, registers
    <3>3. frames[Len(frames)].est /\ Len(frames) \in Nat \ {0}
      BY <2>0, <2>1, TopFrame
    <3> QED BY <3>2, <3>3 DEF FramesInv
  <2>2. CASE ~(Top.est /\ IPENDING # {})
    <3>1. /\ frames' = [frames EXCEPT ![Len(frames)].back = Top.at + 1]
          /\ mode' = "soft" /\ Top.at + 1 \in Nat
      BY <1>4, <2>0, <2>2, TopFrame DEF TestIrq, Frames
    <3> QED BY <2>0, <3>1, FramesBacked
  <2> QED BY <2>1, <2>2
<1>5. CASE Emulate
  BY <1>5, <1>b DEF Emulate
<1>6. CASE alt_instruction_exception_entry
  BY <1>6, <1>b DEF alt_instruction_exception_entry
<1>7. CASE HandlerReturns
  <2>1. frames # << >> /\ mode = "handler" /\ mode' = "exit"
    BY <1>7 DEF HandlerReturns, ModeInv
  <2>2. CASE UNCHANGED frames
    BY <1>b, <2>1, <2>2
  <2>3. CASE frames' = [frames EXCEPT ![Len(frames)].back = Top.at]
    <3>1. Top.at \in Nat
      BY <2>1, TopFrame DEF Frames
    <3> QED BY <2>1, <2>3, <3>1, FramesBacked
  <2> QED BY <1>7, <2>2, <2>3 DEF HandlerReturns
<1>8. CASE Exit
  <2>1. /\ frames # << >> /\ frames' = Front(frames) /\ mode' = "run"
        /\ owner' = Top.owner /\ open' = Top.open /\ PIE' = Top.est
    BY <1>8 DEF Exit, ModeInv
  <2>2. /\ Len(frames') = Len(frames) - 1 /\ Len(frames) \in Nat \ {0}
        /\ \A k \in 1 .. Len(frames') : frames'[k] = frames[k]
    BY <2>1, Popped, TopFrame DEF StackTypes
  <2>3. Top.est <=> Top.owner = 0 \/ Top.open
    BY <2>1, TopFrame DEF FramesInv
  <2> QED BY <2>1, <2>2, <2>3 DEF FramesInv
<1>9. CASE alt_irq_interruptible
  BY <1>9, <1>b DEF alt_irq_interruptible, InIsr
<1>10. CASE alt_irq_non_interruptible
  BY <1>10, <1>b DEF alt_irq_non_interruptible, InIsr
<1>11. CASE alt_irq_enable
  BY <1>11, <1>a DEF alt_irq_enable, context
<1>12. CASE IsrReturns
  <2> DEFINE pending == lines' \cap IENABLE
  <2>0. /\ mode = "run" /\ ~open /\ ~PIE /\ UNCHANGED <<frames, PIE, open>>
    BY <1>12 DEF IsrReturns, InIsr, FramesInv, registers
  <2>1. CASE pending # {}
    <3>1. Min(pending) \in Nat
      <4>1. pending \in SUBSET Nat
        BY <1>12, ExceptionsAssumption DEF IsrReturns, StackTypes, ExcTypeOK
      <4> QED BY <4>1, <2>1, Least
    <3>2. owner' = Min(pending) + 1
      BY <1>12, <2>0, <2>1 DEF IsrReturns
    <3> HIDE DEF pending
    <3> QED BY <1>b, <2>0, <3>1, <3>2
  <2>2. CASE pending = {}
    BY <1>12, <1>b, <2>0, <2>2 DEF IsrReturns
  <2> QED BY <2>1, <2>2
<1>13. CASE alt_instruction_exception_register
  BY <1>13, <1>a DEF alt_instruction_exception_register, context, registers
<1>14. CASE Raise
  BY <1>14, <1>a DEF Raise, context, registers
<1> QED BY <1>1, <1>2, <1>3, <1>4, <1>5, <1>6, <1>7, <1>8, <1>9, <1>10,
           <1>11, <1>12, <1>13, <1>14 DEF ExcNext, ExcStep

LEMMA PositionInit == ExcInit => PositionInv
  BY DEF ExcInit, PositionInv, Skipping

LEMMA InOrder ==
  ASSUME StackTypes, ModeInv, PositionInv
  PROVE  OnceInOrder
<1>1. DOMAIN ledger = 1 .. Len(ledger)
  BY DEF StackTypes
<1> QED BY <1>1 DEF OnceInOrder, PositionInv, ModeInv, Outcome

(* An instruction more is through, as it should be.                        *)
LEMMA LedgerGrows ==
  ASSUME StackTypes, PositionInv, UNCHANGED options,
         ledger' = Append(ledger, <<Len(ledger) + 1, Outcome(Len(ledger) + 1)>>),
         ledger' \in Seq(Entries)
  PROVE  /\ Len(ledger') = Len(ledger) + 1
         /\ \A k \in 1 .. Len(ledger') : ledger'[k] = <<k, Outcome(k)'>>
<1>1. \A k : Outcome(k)' = Outcome(k)
  BY DEF Outcome, Emulates
<1>2. Len(ledger) \in Nat /\ Len(ledger') = Len(ledger) + 1
  BY DEF StackTypes
<1>3. ASSUME NEW k \in 1 .. Len(ledger')
      PROVE  ledger'[k] = <<k, Outcome(k)>>
  BY <1>2 DEF StackTypes, PositionInv
<1> QED BY <1>1, <1>2, <1>3

LEMMA PositionTrap ==
  ASSUME StackTypes, ModeInv, PositionInv, UNCHANGED options, mode = "run",
         NEW cause, Trap(cause)
  PROVE  PositionInv'
<1>1. /\ frames' # << >> /\ Len(frames') = Len(frames) + 1 /\ mode' = "test"
      /\ frames'[Len(frames) + 1] = [owner |-> owner, at |-> at, open |-> open,
                                     old |-> old, back |-> at, est |-> PIE]
      /\ \A k \in 1 .. Len(frames) : frames'[k] = frames[k]
      /\ ledger' = ledger /\ Len(frames) \in Nat
  BY TrapMakes DEF Trap, StackTypes
<1>2. frames'[1].back = Len(ledger) + 1
  <2>1. CASE frames = << >>
    BY <1>1, <2>1 DEF PositionInv
  <2>2. CASE frames # << >>
    <3>1. 1 \in 1 .. Len(frames)
      BY <2>2 DEF StackTypes
    <3> QED BY <1>1, <2>2, <3>1 DEF PositionInv, Skipping
  <2> QED BY <2>1, <2>2
<1>3. \A k \in 1 .. Len(ledger') : ledger'[k] = <<k, Outcome(k)'>>
  BY <1>1 DEF PositionInv, Outcome, Emulates
<1> QED BY <1>1, <1>2, <1>3 DEF PositionInv, Skipping

LEMMA TopOwner ==
  ASSUME StackTypes, FramesInv, frames # << >>
  PROVE  /\ 1 \in 1 .. Len(frames) /\ Top = frames[Len(frames)]
         /\ Top.owner = 0 <=> Len(frames) = 1
<1>1. /\ Len(frames) \in 1 .. Len(frames) /\ 1 \in 1 .. Len(frames)
      /\ Top = frames[Len(frames)]
  BY TopFrame
<1>2. \A k \in 1 .. Len(frames) : frames[k].owner = 0 <=> k = 1
  BY DEF FramesInv
<1>3. frames[Len(frames)].owner = 0 <=> Len(frames) = 1
  BY <1>1, <1>2
<1> QED BY <1>1, <1>3

LEMMA PositionStep ==
  ASSUME StackTypes, ModeInv, FramesInv, PositionInv, ExcNext, StackTypes'
  PROVE  PositionInv'
<1>0. /\ UNCHANGED options /\ Len(ledger) \in Nat /\ Len(frames) \in Nat
      /\ \A k : Outcome(k)' = Outcome(k)
      /\ frames # << >> =>
           /\ 1 \in 1 .. Len(frames) /\ Top = frames[Len(frames)]
           /\ Top.owner = 0 <=> Len(frames) = 1
  <2>1. UNCHANGED options /\ Len(ledger) \in Nat /\ Len(frames) \in Nat
    <3>1. UNCHANGED options
      BY DEF ExcNext
    <3> QED BY <3>1, OwnersKnown DEF StackTypes
  <2>2. \A k : Outcome(k)' = Outcome(k)
    BY <2>1 DEF Outcome, Emulates
  <2>3. frames # << >> =>
          /\ 1 \in 1 .. Len(frames) /\ Top = frames[Len(frames)]
          /\ Top.owner = 0 <=> Len(frames) = 1
    BY TopOwner
  <2> HIDE DEF Outcome
  <2> QED BY <2>1, <2>2, <2>3
<1>a. ASSUME UNCHANGED <<frames, ledger>>, Skipping' = Skipping,
             frames # << >> \/ at' = at
      PROVE  PositionInv'
  BY <1>0, <1>a DEF PositionInv, Skipping
<1>b. ASSUME mode \in {"soft", "handler"}, mode' = "exit", frames # << >>,
             UNCHANGED frames,
             \/ Log("emulated") /\ Faulty = "mul" /\ Emulates
             \/ Log("skipped") /\ Faulty # "plain" /\ ~(Faulty = "mul" /\ Emulates)
      PROVE  PositionInv'
  <2>1. CASE Top.owner = 0
    <3>1. /\ Len(frames) = 1 /\ Skipping /\ ~Skipping'
          /\ Top.at = Len(ledger) + 1 /\ frames[1].back = Len(ledger) + 2
      BY <1>0, <1>b, <2>1 DEF PositionInv, Skipping
    <3>2. Faulty = Program[Len(ledger) + 1]
      BY <2>1, <3>1 DEF Faulty, Code
    <3>3. ledger' = Append(ledger, <<Len(ledger) + 1, Outcome(Len(ledger) + 1)>>)
      BY <1>b, <2>1, <3>1, <3>2 DEF Log, Outcome
    <3>4. /\ Len(ledger') = Len(ledger) + 1
          /\ \A k \in 1 .. Len(ledger') : ledger'[k] = <<k, Outcome(k)'>>
      BY <1>0, <3>3, LedgerGrows DEF StackTypes
    <3> QED BY <1>0, <1>b, <3>1, <3>4 DEF PositionInv
  <2>2. CASE Top.owner # 0
    BY <1>0, <1>a, <1>b, <2>2 DEF Log, Skipping
  <2> QED BY <2>1, <2>2
<1>c. ASSUME frames # << >>, NEW b \in Nat, UNCHANGED ledger,
             frames' = [frames EXCEPT ![Len(frames)].back = b]
      PROVE  /\ Len(frames') = Len(frames) /\ frames' # << >>
             /\ Len(frames) > 1 => frames'[1] = frames[1]
             /\ Len(frames) = 1 => frames'[1].back = b /\ frames'[1].at = Top.at
  <2>1. /\ frames' # << >> /\ Len(frames') = Len(frames)
        /\ \A k \in 1 .. Len(frames) - 1 : frames'[k] = frames[k]
        /\ Top' = [Top EXCEPT !.back = b] /\ Top \in Frames
    BY <1>c, Backed, TopFrame DEF StackTypes
  <2>2. Len(frames) = 1 => frames'[1] = Top'
    BY <2>1 DEF Top, Last
  <2> QED BY <1>0, <1>c, <2>1, <2>2 DEF Frames
<1>1. CASE Execute
  <2>0. mode = "run" /\ UNCHANGED <<frames, mode>> /\ Code(owner)[at] = "plain"
    BY <1>1 DEF Execute, Fetches
  <2>1. CASE owner = 0
    <3>1. frames = << >> /\ at = Len(ledger) + 1 /\ Program[at] = "plain"
      BY <2>0, <2>1 DEF ModeInv, PositionInv, Code
    <3>2. ledger' = Append(ledger, <<Len(ledger) + 1, Outcome(Len(ledger) + 1)>>)
      BY <1>1, <2>1, <3>1 DEF Execute, Outcome
    <3>3. /\ Len(ledger') = Len(ledger) + 1
          /\ \A k \in 1 .. Len(ledger') : ledger'[k] = <<k, Outcome(k)'>>
      BY <1>0, <3>2, LedgerGrows DEF StackTypes
    <3>4. at' = at + 1 /\ frames' = << >> /\ Len(frames') = 0
      BY <1>1, <2>0, <3>1 DEF Execute
    <3> QED BY <1>0, <3>1, <3>3, <3>4 DEF PositionInv, Skipping
  <2>2. CASE owner # 0
    BY <1>1, <1>a, <2>0, <2>2 DEF Execute, ModeInv, Skipping
  <2> QED BY <2>1, <2>2
<1>2. CASE Fault
  BY <1>0, <1>2, PositionTrap DEF Fault, Fetches
<1>3. CASE Interrupt
  BY <1>0, <1>3, PositionTrap DEF Interrupt
<1>4. CASE TestIrq
  <2>0. frames # << >> /\ mode = "test" /\ ledger' = ledger /\ Top.back = Top.at
    BY <1>4 DEF TestIrq, ModeInv
  <2>1. CASE Top.est /\ IPENDING # {}
    BY <1>4, <1>a, <2>0, <2>1 DEF TestIrq, Skipping
  <2>2. CASE ~(Top.est /\ IPENDING # {})
    <3>1. /\ frames' = [frames EXCEPT ![Len(frames)].back = Top.at + 1]
          /\ mode' = "soft" /\ Top.at + 1 \in Nat
      BY <1>4, <2>0, <2>2, TopFrame DEF TestIrq, Frames
    <3>2. /\ Len(frames') = Len(frames) /\ frames' # << >>
          /\ Len(frames) > 1 => frames'[1] = frames[1]
          /\ Len(frames) = 1 => frames'[1].back = Top.at + 1 /\ frames'[1].at = Top.at
      BY <1>c, <2>0, <3>1
    <3>3. frames[1].back = Len(ledger) + 1
      BY <2>0 DEF PositionInv, Skipping
    <3> QED BY <1>0, <2>0, <3>1, <3>2, <3>3 DEF PositionInv, Skipping
  <2> QED BY <2>1, <2>2
<1>5. CASE Emulate
  BY <1>5, <1>b DEF Emulate, ModeInv
<1>6. CASE alt_instruction_exception_entry
  BY <1>6, <1>a DEF alt_instruction_exception_entry, context, Skipping
<1>7. CASE HandlerReturns
  <2>0. /\ frames # << >> /\ mode = "handler" /\ mode' = "exit"
        /\ Faulty # "plain" /\ ~(Emulates /\ Faulty = "mul")
    BY <1>7 DEF HandlerReturns, ModeInv, FaultKnown
  <2>1. CASE Log("skipped") /\ UNCHANGED frames
    BY <1>b, <2>0, <2>1
  <2>2. CASE frames' = [frames EXCEPT ![Len(frames)].back = Top.at] /\ UNCHANGED ledger
    <3>1. Top.at \in Nat
      BY <2>0, TopFrame DEF Frames
    <3>2. /\ Len(frames') = Len(frames) /\ frames' # << >>
          /\ Len(frames) > 1 => frames'[1] = frames[1]
          /\ Len(frames) = 1 => frames'[1].back = Top.at
      BY <1>c, <2>0, <2>2, <3>1
    <3> QED BY <1>0, <2>0, <2>2, <3>2 DEF PositionInv, Skipping
  <2> QED BY <1>7, <2>1, <2>2 DEF HandlerReturns
<1>8. CASE Exit
  <2>1. /\ frames # << >> /\ frames' = Front(frames) /\ mode = "exit" /\ mode' = "run"
        /\ at' = Top.back /\ ledger' = ledger
    BY <1>8 DEF Exit, ModeInv
  <2>2. /\ Len(frames') = Len(frames) - 1
        /\ \A k \in 1 .. Len(frames') : frames'[k] = frames[k]
    BY <2>1, Popped DEF StackTypes
  <2>3. frames[1].back = Len(ledger) + 1
    BY <2>1 DEF PositionInv, Skipping
  <2>4. frames' = << >> => at' = Len(ledger') + 1
    <3>1. frames' = << >> => Len(frames') = 0
      OBVIOUS
    <3>2. frames' = << >> => Len(frames) = 1
      BY <1>0, <2>2, <3>1
    <3>3. Top = frames[Len(frames)]
      BY DEF Top, Last
    <3> QED BY <2>1, <2>3, <3>2, <3>3
  <2>5. frames' # << >> => frames'[1] = frames[1]
    <3>1. frames' # << >> => Len(frames') # 0
      BY DEF StackTypes
    <3> QED BY <1>0, <2>2, <3>1
  <2> QED BY <1>0, <2>1, <2>3, <2>4, <2>5 DEF PositionInv, Skipping
<1>9. CASE alt_irq_interruptible
  BY <1>9, <1>a DEF alt_irq_interruptible, Skipping
<1>10. CASE alt_irq_non_interruptible
  BY <1>10, <1>a DEF alt_irq_non_interruptible, Skipping
<1>11. CASE alt_irq_enable
  BY <1>11, <1>a DEF alt_irq_enable, context, Skipping
<1>12. CASE IsrReturns
  <2>1. /\ mode = "run" /\ frames # << >> /\ UNCHANGED <<frames, ledger>>
        /\ mode' \in {"run", "exit"}
    BY <1>12 DEF IsrReturns, InIsr, ModeInv
  <2> QED BY <1>a, <2>1 DEF Skipping
<1>13. CASE alt_instruction_exception_register
  BY <1>13, <1>a DEF alt_instruction_exception_register, context, Skipping
<1>14. CASE Raise
  BY <1>14, <1>a DEF Raise, context, Skipping
<1> QED BY <1>1, <1>2, <1>3, <1>4, <1>5, <1>6, <1>7, <1>8, <1>9, <1>10,
           <1>11, <1>12, <1>13, <1>14 DEF ExcNext, ExcStep

LEMMA MaskInit == ExcInit => MaskInv /\ OrderInv
  BY DEF ExcInit, MaskInv, OrderInv, Mask

LEMMA MaskTrap ==
  ASSUME StackTypes, ModeInv, FramesInv, MaskInv, OrderInv, mode = "run",
         NEW cause, Trap(cause)
  PROVE  MaskInv' /\ OrderInv'
<1>1. /\ frames' # << >> /\ Len(frames') = Len(frames) + 1 /\ mode' = "test"
      /\ Top' = [owner |-> owner, at |-> at, open |-> open, old |-> old,
                 back |-> at, est |-> PIE]
      /\ frames'[Len(frames) + 1] = Top'
      /\ \A k \in 1 .. Len(frames) : frames'[k] = frames[k]
      /\ Len(frames) \in Nat /\ UNCHANGED <<IENABLE, alt_priority_mask>>
  <2>1. mode' = "test" /\ UNCHANGED <<IENABLE, alt_priority_mask>>
    BY DEF Trap
  <2> QED BY <2>1, TrapMakes DEF StackTypes
<1>2. frames # << >> =>
        /\ Len(frames) \in 1 .. Len(frames) /\ Top = frames[Len(frames)]
        /\ frames'[Len(frames') - 1] = Top
  BY <1>1, TopFrame
<1>3. Mask' = Mask
  <2>1. CASE frames = << >>
    BY <1>1, <2>1 DEF Mask, Outer, ModeInv, FramesInv
  <2>2. CASE frames # << >>
    <3>1. owner # 0 /\ (PIE <=> open)
      BY <2>2 DEF ModeInv, FramesInv
    <3>2. Mask = IF open THEN Outer(owner) ELSE Outer(Top.owner)
      BY <2>2 DEF Mask
    <3>3. Mask' = IF PIE THEN Outer(owner) ELSE Outer(Top.owner)
      <4>1. Mask' = IF Top'.est THEN Outer(Top'.owner)
                    ELSE Outer(frames'[Len(frames') - 1].owner)
        BY <1>1 DEF Mask, Outer
      <4>2. /\ Top'.est = PIE /\ Top'.owner = owner
            /\ frames'[Len(frames') - 1] = Top
        BY <1>1, <1>2, <2>2
      <4> QED BY <4>1, <4>2
    <3> QED BY <3>1, <3>2, <3>3
  <2> QED BY <2>1, <2>2
<1>4. ASSUME NEW k \in 1 .. Len(frames'), frames'[k].open
      PROVE  k > 1 /\ frames'[k].old = Outer(frames'[k - 1].owner)
  <2>1. CASE k \in 1 .. Len(frames)
    <3>1. k > 1 /\ frames[k].old = Outer(frames[k - 1].owner)
      BY <1>1, <1>4, <2>1 DEF MaskInv
    <3>2. k - 1 \in 1 .. Len(frames)
      BY <1>1, <2>1, <3>1
    <3> QED BY <1>1, <2>1, <3>1, <3>2
  <2>2. CASE k = Len(frames) + 1
    <3>1. open /\ frames # << >> /\ old = Outer(Top.owner)
      BY <1>1, <1>4, <2>2 DEF MaskInv
    <3> QED BY <1>1, <1>2, <2>2, <3>1
  <2> QED BY <1>1, <2>1, <2>2
<1>5. ASSUME NEW j \in 2 .. Len(frames'), NEW k \in j + 1 .. Len(frames')
      PROVE  frames'[k].owner < frames'[j].owner
  <2>1. CASE k \in 1 .. Len(frames)
    BY <1>1, <2>1 DEF OrderInv
  <2>2. CASE k = Len(frames) + 1
    BY <1>1, <2>2 DEF OrderInv
  <2> QED BY <1>1, <2>1, <2>2
<1> QED BY <1>1, <1>3, <1>4, <1>5, Zenon DEF MaskInv, OrderInv, Outer

LEMMA MaskBacked ==
  ASSUME StackTypes, FramesInv, MaskInv, OrderInv, frames # << >>, NEW b \in Nat,
         mode # "run", mode' # "run", UNCHANGED <<IENABLE, alt_priority_mask>>,
         frames' = [frames EXCEPT ![Len(frames)].back = b]
  PROVE  MaskInv' /\ OrderInv'
<1>1. /\ Len(frames') = Len(frames) /\ frames' # << >> /\ Len(frames) \in Nat \ {0}
      /\ \A k \in 1 .. Len(frames) - 1 : frames'[k] = frames[k]
      /\ Top' = [Top EXCEPT !.back = b] /\ Top' = frames'[Len(frames)]
      /\ Top = frames[Len(frames)] /\ Top \in Frames
  <2>1. /\ Len(frames') = Len(frames) /\ frames' # << >>
        /\ \A k \in 1 .. Len(frames) - 1 : frames'[k] = frames[k]
        /\ Top' = [Top EXCEPT !.back = b]
    BY Backed DEF StackTypes
  <2>2. Len(frames) \in Nat \ {0} /\ Top = frames[Len(frames)] /\ Top \in Frames
    BY TopFrame
  <2> QED BY <2>1, <2>2 DEF Top, Last
<1>2. ASSUME NEW k \in 1 .. Len(frames)
      PROVE  /\ frames'[k].owner = frames[k].owner /\ frames'[k].open = frames[k].open
             /\ frames'[k].old = frames[k].old
  <2>1. CASE k = Len(frames)
    BY <1>1, <2>1 DEF Frames
  <2>2. CASE k # Len(frames)
    BY <1>1, <2>2
  <2> QED BY <2>1, <2>2
<1>3. Mask' = Mask
  <2>1. Top'.est = Top.est /\ Top'.owner = Top.owner
    BY <1>1 DEF Frames
  <2>2. Len(frames) = 1 => Top.est
    BY <1>1 DEF FramesInv
  <2>3. ~Top.est => frames'[Len(frames') - 1] = frames[Len(frames) - 1]
    <3>1. ~Top.est => Len(frames) - 1 \in 1 .. Len(frames) - 1
      BY <1>1, <2>2
    <3> QED BY <1>1, <3>1
  <2> QED BY <1>1, <2>1, <2>3 DEF Mask, Outer
<1>4. ASSUME NEW k \in 1 .. Len(frames'), frames'[k].open
      PROVE  k > 1 /\ frames'[k].old = Outer(frames'[k - 1].owner)
  <2>1. k > 1 /\ frames[k].old = Outer(frames[k - 1].owner) /\ k - 1 \in 1 .. Len(frames)
    BY <1>1, <1>2, <1>4 DEF MaskInv
  <2> QED BY <1>1, <1>2, <2>1
<1>5. OrderInv'
  BY <1>1, <1>2 DEF OrderInv
<1> QED BY <1>1, <1>3, <1>4, <1>5 DEF MaskInv, Outer

(* A handler that is served with the mask of the frame below has a higher  *)
(* priority than all those in frames.                                      *)
LEMMA ServedHigher ==
  ASSUME StackTypes, FramesInv, OrderInv, frames # << >>, NEW i \in Outer(Top.owner)
  PROVE  i + 1 # 0 /\ \A j \in 2 .. Len(frames) : i + 1 < frames[j].owner
<1>1. /\ Len(frames) \in Nat \ {0} /\ Top = frames[Len(frames)] /\ i \in Nat
      /\ \A k \in 1 .. Len(frames) : frames[k].owner \in Nat
  <2>1. i \in Nat
    BY ExceptionsAssumption DEF Outer
  <2> QED BY <2>1, TopFrame, OwnersKnown
<1>2. ASSUME NEW j \in 2 .. Len(frames)
      PROVE  i + 1 < frames[j].owner
  <2>1. Top.owner # 0 /\ i < Top.owner - 1 /\ Top.owner \in Nat
    BY <1>1, <1>2 DEF FramesInv, Outer
  <2>2. CASE j = Len(frames)
    BY <1>1, <2>1, <2>2
  <2>3. CASE j # Len(frames)
    <3>1. Len(frames) \in j + 1 .. Len(frames)
      BY <1>1, <1>2, <2>3
    <3>2. Top.owner < frames[j].owner /\ frames[j].owner \in Nat
      BY <1>1, <1>2, <3>1 DEF OrderInv
    <3> QED BY <1>1, <2>1, <3>2
  <2> QED BY <2>2, <2>3
<1> QED BY <1>1, <1>2

LEMMA MaskStep ==
  ASSUME StackTypes, ModeInv, FramesInv, MaskInv, OrderInv, ExcNext, ~Enables
  PROVE  MaskInv' /\ OrderInv'
<1>0. Irqs \subseteq Nat /\ \A o : Outer(o) \subseteq Irqs
  BY ExceptionsAssumption DEF Outer
<1>a. ASSUME UNCHANGED <<frames, IENABLE, alt_priority_mask>>, mode # "run", mode' # "run"
      PROVE  MaskInv' /\ OrderInv'
  BY <1>a DEF MaskInv, OrderInv, Mask, Top, Outer
<1>b. ASSUME UNCHANGED <<frames, IENABLE, alt_priority_mask, mode, owner, open, old>>
      PROVE  MaskInv' /\ OrderInv'
  BY <1>b DEF MaskInv, OrderInv, Mask, Top, Outer
<1>c. ASSUME frames # << >>, NEW i \in Outer(Top.owner), owner' = i + 1, mode' = "run",
             ~open', UNCHANGED <<frames, IENABLE, alt_priority_mask>>,
             Mask = Outer(Top.owner)
      PROVE  MaskInv' /\ OrderInv'
  <2>1. Mask' = Mask
    BY <1>c DEF Mask, Top, Outer
  <2>2. \A j \in 2 .. Len(frames) : i + 1 < frames[j].owner
    BY <1>c, ServedHigher
  <2> QED BY <1>c, <2>1, <2>2 DEF MaskInv, OrderInv, Top, Outer
<1>1. CASE Execute
  BY <1>1, <1>b DEF Execute, registers
<1>2. CASE Fault
  BY <1>2, MaskTrap DEF Fault, Fetches
<1>3. CASE Interrupt
  BY <1>3, MaskTrap DEF Interrupt
<1>4. CASE TestIrq
  <2>0. frames # << >> /\ mode = "test" /\ UNCHANGED <<IENABLE, alt_priority_mask>>
    BY <1>4 DEF TestIrq, ModeInv, registers
  <2>1. CASE Top.est /\ IPENDING # {}
    <3> DEFINE i == Min(IPENDING)
    <3>1. i \in IPENDING
      <4>1. IPENDING \in SUBSET Nat
        BY <1>0 DEF IPENDING, StackTypes, ExcTypeOK
      <4> QED BY <4>1, <2>1, Least
    <3>2. owner' = i + 1 /\ ~open' /\ mode' = "run" /\ UNCHANGED frames
      BY <1>4, <2>1 DEF TestIrq
    <3> HIDE DEF i
    <3>3. Mask = Outer(Top.owner) /\ i \in Outer(Top.owner)
      BY <2>0, <2>1, <3>1 DEF Mask, MaskInv, IPENDING
    <3> QED BY <1>c, <2>0, <3>2, <3>3
  <2>2. CASE ~(Top.est /\ IPENDING # {})
    <3>1. /\ frames' = [frames EXCEPT ![Len(frames)].back = Top.at + 1]
          /\ mode' = "soft" /\ Top.at + 1 \in Nat
      BY <1>4, <2>0, <2>2, TopFrame DEF TestIrq, Frames
    <3> QED BY <2>0, <3>1, MaskBacked
  <2> QED BY <2>1, <2>2
<1>5. CASE Emulate
  BY <1>5, <1>a DEF Emulate, registers
<1>6. CASE alt_instruction_exception_entry
  BY <1>6, <1>a DEF alt_instruction_exception_entry, registers
<1>7. CASE HandlerReturns
  <2>1. /\ frames # << >> /\ mode = "handler" /\ mode' = "exit"
        /\ UNCHANGED <<IENABLE, alt_priority_mask>>
    BY <1>7 DEF HandlerReturns, ModeInv, registers
  <2>2. CASE UNCHANGED frames
    BY <1>a, <2>1, <2>2
  <2>3. CASE frames' = [frames EXCEPT ![Len(frames)].back = Top.at]
    <3>1. Top.at \in Nat
      BY <2>1, TopFrame DEF Frames
    <3> QED BY <2>1, <2>3, <3>1, MaskBacked
  <2> QED BY <1>7, <2>2, <2>3 DEF HandlerReturns
<1>8. CASE Exit
  <2>1. /\ frames # << >> /\ frames' = Front(frames) /\ mode = "exit" /\ mode' = "run"
        /\ owner' = Top.owner /\ open' = Top.open /\ old' = Top.old
        /\ UNCHANGED <<IENABLE, alt_priority_mask>>
    BY <1>8 DEF Exit, ModeInv
  <2>2. /\ Len(frames) \in Nat \ {0} /\ Top = frames[Len(frames)]
        /\ Len(frames) \in 1 .. Len(frames)
    BY <2>1, TopFrame
  <2>3. /\ Len(frames') = Len(frames) - 1
        /\ \A k \in 1 .. Len(frames') : frames'[k] = frames[k]
        /\ Len(frames) > 1 => frames' # << >> /\ Top' = frames[Len(frames) - 1]
        /\ Len(frames) = 1 => frames' = << >>
    BY <2>1, Popped DEF StackTypes
  <2>4. /\ Top.owner = 0 <=> Len(frames) = 1
        /\ Top.est <=> Top.owner = 0 \/ Top.open
        /\ Top.open => Len(frames) > 1 /\ Top.old = Outer(frames[Len(frames) - 1].owner)
    BY <2>2 DEF FramesInv, MaskInv
  <2>5. Mask' = Mask
    <3>1. CASE Len(frames) = 1
      BY <2>1, <2>3, <2>4, <3>1 DEF Mask, Outer
    <3>2. CASE Len(frames) > 1
      BY <2>1, <2>3, <2>4, <3>2 DEF Mask, Outer
    <3> QED BY <2>2, <3>1, <3>2
  <2>6. open' => frames' # << >> /\ old' = Outer(Top'.owner)
    BY <2>1, <2>3, <2>4
  <2>7. ASSUME NEW k \in 1 .. Len(frames'), frames'[k].open
        PROVE  k > 1 /\ frames'[k].old = Outer(frames'[k - 1].owner)
    <3>1. k \in 1 .. Len(frames) /\ frames'[k] = frames[k]
      BY <2>2, <2>3, <2>7
    <3>2. k > 1 /\ frames[k].old = Outer(frames[k - 1].owner)
      BY <2>7, <3>1 DEF MaskInv
    <3>3. k - 1 \in 1 .. Len(frames')
      BY <2>2, <2>3, <2>7, <3>2
    <3> QED BY <2>3, <3>1, <3>2, <3>3
  <2>8. OrderInv'
    <3>1. ASSUME NEW j \in 2 .. Len(frames')
          PROVE  /\ \A k \in j + 1 .. Len(frames') : frames'[k].owner < frames'[j].owner
                 /\ owner' < frames'[j].owner
      <4>1. j \in 2 .. Len(frames) /\ j \in 1 .. Len(frames') /\ frames'[j] = frames[j]
            /\ Len(frames) \in j + 1 .. Len(frames)
        BY <2>2, <2>3, <3>1
      <4>2. \A k \in j + 1 .. Len(frames') : k \in j + 1 .. Len(frames) /\ k \in 1 .. Len(frames')
        BY <2>2, <2>3, <3>1
      <4> QED BY <2>1, <2>2, <2>3, <4>1, <4>2 DEF OrderInv
    <3> QED BY <3>1 DEF OrderInv
  <2> QED BY <2>1, <2>5, <2>6, <2>7, <2>8 DEF MaskInv, Outer
<1>9. CASE alt_irq_interruptible
  <2>1. /\ mode = "run" /\ mode' = "run" /\ owner # 0 /\ owner' = owner /\ ~open /\ open'
        /\ old' = alt_priority_mask /\ alt_priority_mask' = {j \in Irqs : j < owner - 1}
        /\ IENABLE' = Irqs \cap alt_priority_mask' /\ UNCHANGED frames
    BY <1>9 DEF alt_irq_interruptible, InIsr
  <2>2. frames # << >> /\ alt_priority_mask = Outer(Top.owner) /\ Top' = Top
    BY <2>1 DEF ModeInv, MaskInv, Mask, Top
  <2>3. Mask' = Outer(owner) /\ alt_priority_mask' = Outer(owner) /\ IENABLE' = Outer(owner)
    BY <2>1, <2>2 DEF Mask, Outer
  <2>4. OrderInv'
    BY <2>1 DEF OrderInv
  <2> QED BY <2>1, <2>2, <2>3, <2>4 DEF MaskInv, Outer
<1>10. CASE alt_irq_non_interruptible
  <2>1. /\ mode = "run" /\ mode' = "run" /\ owner # 0 /\ owner' = owner /\ open /\ ~open'
        /\ alt_priority_mask' = old /\ IENABLE' = old \cap Irqs /\ UNCHANGED frames
    BY <1>10 DEF alt_irq_non_interruptible, InIsr
  <2>2. frames # << >> /\ old = Outer(Top.owner) /\ Top' = Top
    BY <2>1 DEF MaskInv, Top
  <2>3. Mask' = Outer(Top.owner) /\ alt_priority_mask' = Mask' /\ IENABLE' = Mask'
    BY <1>0, <2>1, <2>2 DEF Mask, Outer
  <2>4. OrderInv'
    BY <2>1 DEF OrderInv
  <2> QED BY <2>1, <2>3, <2>4 DEF MaskInv, Outer
<1>11. CASE alt_irq_enable
  BY <1>11 DEF alt_irq_enable
<1>12. CASE IsrReturns
  <2> DEFINE pending == lines' \cap IENABLE
  <2>0. /\ mode = "run" /\ owner # 0 /\ ~open /\ ~open' /\ frames # << >>
        /\ UNCHANGED <<frames, IENABLE, alt_priority_mask>>
    BY <1>12 DEF IsrReturns, InIsr, ModeInv, registers
  <2>1. Mask = Outer(Top.owner)
    BY <2>0 DEF Mask
  <2>2. CASE pending # {}
    <3> DEFINE i == Min(pending)
    <3>1. i \in pending
      <4>1. pending \in SUBSET Nat
        BY <1>0, <1>12 DEF IsrReturns, StackTypes, ExcTypeOK
      <4> QED BY <4>1, <2>2, Least
    <3>2. owner' = i + 1 /\ mode' = "run"
      BY <1>12, <2>0, <2>2 DEF IsrReturns
    <3> HIDE DEF i
    <3>3. i \in Outer(Top.owner)
      BY <2>1, <3>1 DEF MaskInv
    <3> QED BY <1>c, <2>0, <2>1, <3>2, <3>3
  <2>3. CASE pending = {}
    <3>1. mode' = "exit"
      BY <1>12, <2>3 DEF IsrReturns
    <3>2. Top.est
      BY <2>0, TopFrame DEF FramesInv
    <3>3. Mask' = Mask
      BY <2>0, <2>1, <3>1, <3>2 DEF Mask, Top, Outer
    <3> QED BY <2>0, <3>1, <3>3 DEF MaskInv, OrderInv, Outer
  <2> QED BY <2>2, <2>3
<1>13. CASE alt_instruction_exception_register
  BY <1>13, <1>b DEF alt_instruction_exception_register, context, registers
<1>14. CASE Raise
  BY <1>14, <1>b DEF Raise, context, registers
<1> QED BY <1>1, <1>2, <1>3, <1>4, <1>5, <1>6, <1>7, <1>8, <1>9, <1>10,
           <1>11, <1>12, <1>13, <1>14 DEF ExcNext, ExcStep

LEMMA ExcInvStep ==
  ASSUME ExcInv, [ExcNext]_excVars
  PROVE  ExcInv'
<1>1. CASE ExcNext
  <2>1. StackTypes' /\ ModeInv' /\ FramesInv'
    BY <1>1, TypesStep, ModeStep, FramesStep DEF ExcInv
  <2>2. PositionInv'
    BY <1>1, <2>1, PositionStep DEF ExcInv
  <2>3. Enables' = Enables
    BY <1>1 DEF ExcNext, Enables
  <2>4. ~Enables => MaskInv' /\ OrderInv'
    BY <1>1, MaskStep DEF ExcInv
  <2> QED BY <2>1, <2>2, <2>3, <2>4 DEF ExcInv
<1>2. CASE UNCHANGED excVars
  <2>1. UNCHANGED <<options, owner, at, open, old, PIE, alt_priority_mask, IENABLE,
                    frames, CAUSE, BADADDR, mode, told, handler, lines, ledger>>
    BY <1>2 DEF excVars, context, registers, extra
  <2>2. StackTypes'
    BY <2>1 DEF ExcInv, StackTypes, ExcTypeOK, AtCode, Code
  <2>3. /\ UNCHANGED <<Top, Faulty, IPENDING, Api, ExtraInfo, Emulates, Enables, Mask, Skipping>>
        /\ \A k : Outcome(k)' = Outcome(k)
    BY <2>1 DEF Top, Faulty, Code, IPENDING, Api, ExtraInfo, Emulates, Enables,
       Mask, Outer, Skipping, Outcome
  <2>4. ModeInv'
    BY <2>1, <2>3 DEF ExcInv, ModeInv, FaultKnown, ToldRight, Code, CauseOf,
       alt_exception_cause_generated_bad_addr
  <2>5. FramesInv' /\ PositionInv'
    BY <2>1, <2>3 DEF ExcInv, FramesInv, PositionInv
  <2>6. ~Enables => MaskInv' /\ OrderInv'
    BY <2>1, <2>3 DEF ExcInv, MaskInv, OrderInv, Outer
  <2> QED BY <2>2, <2>3, <2>4, <2>5, <2>6 DEF ExcInv
<1> QED BY <1>1, <1>2

LEMMA UnseenHolds ==
  ASSUME ExcInv
  PROVE  ExceptionsUnseen
<1>1. ExcTypeOK /\ ToldRight
  BY DEF ExcInv, StackTypes, ModeInv
<1>2. OnceInOrder
  BY InOrder DEF ExcInv
<1>3. AllowedWhere
  BY <1>1 DEF ExcInv, FramesInv, AllowedWhere, ExcTypeOK
<1>4. ASSUME ~Enables, mode = "run"
      PROVE  HigherOnly
  <2> DEFINE served == [k \in DOMAIN frames |-> frames[k].owner] \o <<owner>>
  <2>1. /\ Len(frames) \in Nat /\ DOMAIN frames = 1 .. Len(frames) /\ owner \in Nat
        /\ \A k \in 1 .. Len(frames) : frames[k].owner \in Nat
    BY OwnersKnown DEF ExcInv
  <2>2. /\ DOMAIN served = 1 .. Len(frames) + 1
        /\ \A k \in 1 .. Len(frames) : served[k] = frames[k].owner
        /\ served[Len(frames) + 1] = owner
    BY <2>1
  <2>3. ASSUME NEW j \in DOMAIN served, NEW k \in DOMAIN served, j < k, served[j] # 0
        PROVE  served[k] \in 1 .. served[j] - 1
    <3>1. j \in 2 .. Len(frames) /\ served[j] = frames[j].owner
      BY <2>1, <2>2, <2>3 DEF ExcInv, FramesInv
    <3>2. CASE k \in 1 .. Len(frames)
      <4>1. k \in j + 1 .. Len(frames) /\ k # 1 /\ served[k] = frames[k].owner
        BY <2>1, <2>2, <2>3, <3>1, <3>2
      <4> QED BY <1>4, <2>1, <3>1, <3>2, <4>1 DEF ExcInv, OrderInv, FramesInv
    <3>3. CASE k = Len(frames) + 1
      <4>1. owner # 0 /\ owner < frames[j].owner
        BY <1>4, <2>1, <3>1 DEF ExcInv, OrderInv, ModeInv
      <4> QED BY <2>1, <2>2, <3>1, <3>3, <4>1
    <3> QED BY <2>1, <2>2, <2>3, <3>2, <3>3
  <2> QED BY <2>3, Zenon DEF HigherOnly
<1> QED BY <1>1, <1>2, <1>3, <1>4 DEF ExceptionsUnseen, HigherOnly

(* Exceptions and interrupts stay unseen, whatever code the program and    *)
(* its handlers consist of, and whatever interrupts there are.             *)
THEOREM ExceptionsStayUnseen == ExcSpec => []ExceptionsUnseen
<1>1. ExcInit => ExcInv
  BY TypesInit, ModeInit, FramesInit, PositionInit, MaskInit DEF ExcInv
<1>2. ExcInv /\ [ExcNext]_excVars => ExcInv'
  BY ExcInvStep
<1>3. ExcInv => ExceptionsUnseen
  BY UnseenHolds
<1> QED BY <1>1, <1>2, <1>3, PTL DEF ExcSpec
=============================================================================
