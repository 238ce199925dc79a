--------------------------- MODULE PlatformProofs ---------------------------
(* Boot and interrupts, for any main() whose steps come in the order that   *)
(* the kernels keep (BootOrder), any threads, any quantum, and interrupts   *)
(* at any moment, nested to any depth.                                      *)
EXTENDS Platform, TLAPS

Contexts == Threads \union {"main"}
Places == {"start", "switched", "handler", "resumed", "eoi"}
FrameType == [n : Lines \union {NoLine}, at : Places]

PlatformTypeOK ==
  /\ pc \in 1..(Len(Main) + 1)
  /\ requested \subseteq Lines /\ inService \subseteq Lines
  /\ flag \in BOOLEAN
  /\ irqHandler \in [Lines -> Handlers]
  /\ excHandler \in [0..31 -> Routines]
  /\ current \in Contexts
  /\ frames \in [Contexts -> Seq(FrameType)]
  /\ failure = "none"

\* What the steps of main() that are done have left behind; interrupts have
\* been enabled before anybody runs with interrupts on, a handler runs, or a
\* thread does.
Done(op) == Before(pc, op)

BootInv ==
  /\ Done("static_ctors") => "keyboard" \in ready
  /\ Done("GDT::init") => "GDT" \in ready
  /\ Done("Console::init") => "console" \in ready
  /\ Done("IDT::init") => "IDT" \in ready
  /\ Done("MemPool") => "memory" \in ready
  /\ \A j \in 1..(pc - 1) : Main[j][1] = "new" => Main[j][2] \in ready
  /\ Done("ExceptionHandler::init_dispatcher") => \A v \in 0..31 : gates[v] = "isr"
  /\ Done("InterruptHandler::init_dispatcher") => \A v \in 32..47 : gates[v] = "irq"
  /\ Done("IRQ::init") => base = Remapped
  /\ PageFaultHandled(pc) => excHandler[14] = "PageFault"
  /\ \A n \in Lines : irqHandler[n] = "EOQTimer" => n = 0
  /\ flag \/ current # "main" \/ frames["main"] # <<>> => Done("enable_interrupts")

\* A thread that does not run waits in a switch, and an interrupt was taken on
\* top of a handler only where that one had interrupts on. main() is not switched.
StackInv ==
  /\ \A t \in Threads :
       t # current => frames[t] # <<>> /\ frames[t][1].at \in {"start", "switched"}
  /\ current # "main" => frames["main"] = <<>>
  /\ \A c \in Contexts : \A i \in 2..Len(frames[c]) : frames[c][i].at \in {"resumed", "eoi"}
  /\ \A c \in Contexts : \A i \in 1..Len(frames[c]) :
       frames[c][i].at \in {"handler", "eoi", "resumed"} => frames[c][i].n \in Lines
  /\ \A i \in 1..Len(frames["main"]) : frames["main"][i].at \in {"handler", "eoi"}

\* The controllers wait for an end of interrupt only while the handler on top of
\* the stack runs, with interrupts off.
Served(n) == {n} \union (IF n > 7 THEN {2} ELSE {})

ServiceInv ==
  /\ frames[current] = <<>> => inService = {}
  /\ frames[current] # <<>> =>
       /\ Top.at = "handler" => ~flag /\ inService = Served(Top.n)
       /\ Top.at = "eoi" => inService = {} \/ (~flag /\ inService = Served(Top.n))
       /\ Top.at \in {"start", "switched", "resumed"} => inService = {}
       /\ Top.at \in {"start", "switched"} => ~flag

IInv == PlatformTypeOK /\ BootInv /\ StackInv /\ ServiceInv

----------------------------------------------------------------------------
\* Stacks.
LEMMA Pushed ==
  ASSUME NEW s \in Seq(FrameType), NEW f \in FrameType
  PROVE  /\ <<f>> \o s \in Seq(FrameType) /\ <<f>> \o s # <<>>
         /\ (<<f>> \o s)[1] = f /\ Len(<<f>> \o s) = Len(s) + 1
         /\ \A i \in 2..(Len(s) + 1) : (<<f>> \o s)[i] = s[i - 1]
OBVIOUS

LEMMA FrameFacts ==
  ASSUME NEW n \in Lines \union {NoLine}, NEW at \in Places
  PROVE  Frame(n, at) \in FrameType /\ Frame(n, at).n = n /\ Frame(n, at).at = at
BY DEF Frame, FrameType

LEMMA TailFacts ==
  ASSUME NEW s \in Seq(FrameType), s # <<>>
  PROVE  /\ Tail(s) \in Seq(FrameType) /\ Len(Tail(s)) = Len(s) - 1
         /\ s[1] \in FrameType /\ Len(s) \in Nat /\ 1 \in 1..Len(s)
         /\ \A i \in 1..(Len(s) - 1) : Tail(s)[i] = s[i + 1]
         /\ Tail(s) # <<>> => 2 \in 1..Len(s) /\ Tail(s)[1] = s[2]
OBVIOUS

LEMMA Relabelled ==
  ASSUME NEW s \in Seq(FrameType), s # <<>>, NEW label \in Places
  PROVE  /\ [s EXCEPT ![1].at = label] \in Seq(FrameType)
         /\ [s EXCEPT ![1].at = label] # <<>>
         /\ [s EXCEPT ![1].at = label][1].at = label
         /\ [s EXCEPT ![1].at = label][1].n = s[1].n
         /\ Len([s EXCEPT ![1].at = label]) = Len(s)
         /\ \A i \in 2..Len(s) : [s EXCEPT ![1].at = label][i] = s[i]
<1>1. s[1] \in FrameType /\ 1 \in 1..Len(s) /\ Len(s) \in Nat
  OBVIOUS
<1> DEFINE f == [s[1] EXCEPT !.at = label]
<1>2. f \in FrameType /\ f.at = label /\ f.n = s[1].n
  BY <1>1 DEF FrameType
<1>3. [s EXCEPT ![1].at = label] = [s EXCEPT ![1] = f]
  OBVIOUS
<1> HIDE DEF f
<1>4. [s EXCEPT ![1] = f] \in Seq(FrameType) /\ Len([s EXCEPT ![1] = f]) = Len(s)
  BY <1>1, <1>2
<1>5. [s EXCEPT ![1] = f][1] = f /\ \A i \in 2..Len(s) : [s EXCEPT ![1] = f][i] = s[i]
  BY <1>1
<1>6. [s EXCEPT ![1] = f] # <<>>
  BY <1>1, <1>4
<1> QED BY <1>2, <1>3, <1>4, <1>5, <1>6

\* The ends of interrupt that a handler sends free the lines it serves, whether
\* or not they have been sent already.
LEMMA AcknowledgedAll ==
  ASSUME NEW n \in Lines
  PROVE  /\ Acknowledged(Served(n), generated_by_slave_PIC(n)) = {}
         /\ Acknowledged({}, generated_by_slave_PIC(n)) = {}
         /\ n = 0 => Acknowledged(Served(n), FALSE) = {}
<1>1. Acknowledged({}, generated_by_slave_PIC(n)) = {}
  <2>1. \A X : {} \ X = {}
    OBVIOUS
  <2> QED BY <2>1 DEF Acknowledged
<1>2. CASE n > 7
  <2>1. Served(n) = {n, 2} /\ n \in 8..15
    BY <1>2 DEF Served, Lines
  <2>2. {n, 2} \intersect 0..7 = {2} /\ {n, 2} \intersect 8..15 = {n}
    <3>1. n \notin 0..7 /\ n \in 8..15 /\ 2 \in 0..7 /\ 2 \notin 8..15
      BY <2>1
    <3> QED BY <3>1, Zenon
  <2>3. Highest({2}) = {2} /\ Highest({n}) = {n}
    BY <2>1 DEF Highest
  <2>4. generated_by_slave_PIC(n) = TRUE /\ n # 0
    BY <1>2 DEF generated_by_slave_PIC
  <2>5. Acknowledged({n, 2}, TRUE) = {}
    BY <2>2, <2>3, SMTT(30) DEF Acknowledged
  <2> QED BY <1>1, <2>1, <2>4, <2>5
<1>3. CASE ~(n > 7)
  <2>1. Served(n) = {n} /\ n \in 0..7
    BY <1>3 DEF Served, Lines
  <2>2. Served(n) \intersect 0..7 = {n}
    BY <2>1
  <2>3. Highest({n}) = {n}
    BY <2>1 DEF Highest
  <2>4. \A b \in BOOLEAN : Acknowledged(Served(n), b) = {}
    BY <2>1, <2>2, <2>3 DEF Acknowledged
  <2>5. generated_by_slave_PIC(n) = FALSE
    BY <1>3 DEF generated_by_slave_PIC
  <2> QED BY <1>1, <2>4, <2>5
<1> QED BY <1>2, <1>3

----------------------------------------------------------------------------
\* Steps of main().
LEMMA Parameters ==
  ASSUME BootOrder
  PROVE  Len(Main) \in Nat /\ "main" \notin Threads /\ Masking \in BOOLEAN
BY Zenon DEF BootOrder

LEMMA StepFacts ==
  ASSUME BootOrder, IInv, NEW op, Step(op)
  PROVE  /\ pc \in 1..Len(Main) /\ Main[pc][1] = op
         /\ current = "main" /\ frames["main"] = <<>>
         /\ failure = "none" /\ inService = {}
<1>1. /\ frames[current] = <<>> /\ current = "main" /\ pc <= Len(Main) /\ Main[pc][1] = op
  BY DEF Step, InCode
<1>2. pc \in 1..(Len(Main) + 1) /\ failure = "none" /\ Len(Main) \in Nat
  BY Parameters DEF IInv, PlatformTypeOK
<1>3. inService = {}
  BY <1>1 DEF IInv, ServiceInv
<1> QED BY <1>1, <1>2, <1>3

LEMMA CPUKept ==
  ASSUME StackInv, ServiceInv,
         flag' = flag, current' = current, frames' = frames, inService' = inService
  PROVE  StackInv' /\ ServiceInv'
BY DEF StackInv, ServiceInv, Top

\* A step of main() that prepares what it is there for, and takes back nothing
\* that was prepared before.
Prepares(k) ==
  /\ ready \subseteq ready'
  /\ Main[k][1] = "static_ctors" => "keyboard" \in ready'
  /\ Main[k][1] = "GDT::init" => "GDT" \in ready'
  /\ Main[k][1] = "Console::init" => "console" \in ready'
  /\ Main[k][1] = "IDT::init" => "IDT" \in ready'
  /\ Main[k][1] = "MemPool" => "memory" \in ready'
  /\ Main[k][1] = "new" => Main[k][2] \in ready'

PreparesGates(k) ==
  /\ Main[k][1] = "ExceptionHandler::init_dispatcher" => \A v \in 0..31 : gates'[v] = "isr"
  /\ Main[k][1] \notin {"ExceptionHandler::init_dispatcher", "IDT::init"} =>
       \A v \in 0..31 : gates'[v] = gates[v]
  /\ Main[k][1] = "InterruptHandler::init_dispatcher" => \A v \in 32..47 : gates'[v] = "irq"
  /\ Main[k][1] \notin {"InterruptHandler::init_dispatcher", "IDT::init"} =>
       \A v \in 32..47 : gates'[v] = gates[v]

PreparesHandlers(k) ==
  /\ Main[k][1] = "IRQ::init" => base' = Remapped
  /\ Main[k][1] # "IRQ::init" => base' = base
  /\ Main[k] = <<"register exception handler", 14, "PageFault">> => excHandler'[14] = "PageFault"
  /\ ~Replaces(k) => excHandler'[14] = excHandler[14]
  /\ \A n \in Lines : irqHandler'[n] = "EOQTimer" => n = 0

LEMMA StepsUpTo ==
  ASSUME BootOrder, NEW k \in 1..Len(Main)
  PROVE  /\ 1..((k + 1) - 1) = 1..(k - 1) \union {k} /\ (k + 1) - 1 = k
         /\ \A j \in 1..k : j # k =>
              /\ j \in 1..(k - 1) /\ k \in (j + 1)..k
              /\ (j + 1)..(k - 1) \subseteq (j + 1)..k
BY Parameters

LEMMA BootAdvances ==
  ASSUME BootOrder, BootInv, NEW k \in 1..Len(Main), pc = k, pc' = k + 1,
         Prepares(k), PreparesGates(k), PreparesHandlers(k),
         flag' \/ current' # "main" \/ frames'["main"] # <<>> =>
           Done("enable_interrupts") \/ Main[k][1] = "enable_interrupts"
  PROVE  BootInv'
<1>1. \A op : Done(op)' <=> Done(op) \/ Main[k][1] = op
  BY StepsUpTo DEF Done, Before
<1>2. /\ Done("static_ctors")' => "keyboard" \in ready'
      /\ Done("GDT::init")' => "GDT" \in ready'
      /\ Done("Console::init")' => "console" \in ready'
      /\ Done("IDT::init")' => "IDT" \in ready'
      /\ Done("MemPool")' => "memory" \in ready'
  BY <1>1 DEF BootInv, Prepares
<1>3. \A j \in 1..(pc' - 1) : Main[j][1] = "new" => Main[j][2] \in ready'
  BY StepsUpTo DEF BootInv, Prepares
<1>4. Done("ExceptionHandler::init_dispatcher")' => \A v \in 0..31 : gates'[v] = "isr"
  <2>1. Main[k][1] = "IDT::init" => ~Done("ExceptionHandler::init_dispatcher")
    BY Zenon DEF BootOrder, Done
  <2>2. CASE Main[k][1] = "ExceptionHandler::init_dispatcher"
    BY <2>2 DEF PreparesGates
  <2>3. CASE Main[k][1] # "ExceptionHandler::init_dispatcher"
    <3> SUFFICES ASSUME Done("ExceptionHandler::init_dispatcher")' PROVE \A v \in 0..31 : gates'[v] = "isr"
      OBVIOUS
    <3>1. Done("ExceptionHandler::init_dispatcher") /\ Main[k][1] # "IDT::init"
      BY <1>1, <2>1, <2>3
    <3>2. \A v \in 0..31 : gates[v] = "isr"
      BY <3>1, Zenon DEF BootInv
    <3>3. \A v \in 0..31 : gates'[v] = gates[v]
      BY <2>3, <3>1 DEF PreparesGates
    <3> QED BY <3>2, <3>3
  <2> QED BY <2>2, <2>3
<1>5. Done("InterruptHandler::init_dispatcher")' => \A v \in 32..47 : gates'[v] = "irq"
  <2>1. Main[k][1] = "IDT::init" => ~Done("InterruptHandler::init_dispatcher")
    BY Zenon DEF BootOrder, Done
  <2>2. CASE Main[k][1] = "InterruptHandler::init_dispatcher"
    BY <2>2 DEF PreparesGates
  <2>3. CASE Main[k][1] # "InterruptHandler::init_dispatcher"
    <3> SUFFICES ASSUME Done("InterruptHandler::init_dispatcher")' PROVE \A v \in 32..47 : gates'[v] = "irq"
      OBVIOUS
    <3>1. Done("InterruptHandler::init_dispatcher") /\ Main[k][1] # "IDT::init"
      BY <1>1, <2>1, <2>3
    <3>2. \A v \in 32..47 : gates[v] = "irq"
      BY <3>1, Zenon DEF BootInv
    <3>3. \A v \in 32..47 : gates'[v] = gates[v]
      BY <2>3, <3>1 DEF PreparesGates
    <3> QED BY <3>2, <3>3
  <2> QED BY <2>2, <2>3
<1>6. Done("IRQ::init")' => base' = Remapped
  BY <1>1 DEF BootInv, PreparesHandlers
<1>7. PageFaultHandled(pc') => excHandler'[14] = "PageFault"
  <2> SUFFICES ASSUME PageFaultHandled(k + 1) PROVE excHandler'[14] = "PageFault"
    OBVIOUS
  <2>1. PICK j \in 1..k :
          /\ Main[j] = <<"register exception handler", 14, "PageFault">>
          /\ \A i \in (j + 1)..k : ~Replaces(i)
    <3>1. (k + 1) - 1 = k
      BY StepsUpTo
    <3>2. \E j \in 1..((k + 1) - 1) :
            /\ Main[j] = <<"register exception handler", 14, "PageFault">>
            /\ \A i \in (j + 1)..((k + 1) - 1) : ~Replaces(i)
      BY Zenon DEF PageFaultHandled
    <3> QED BY <3>1, <3>2, Zenon
  <2>2. CASE j = k
    BY <2>1, <2>2 DEF PreparesHandlers
  <2>3. CASE j # k
    <3>1. j \in 1..(k - 1) /\ k \in (j + 1)..k /\ (j + 1)..(k - 1) \subseteq (j + 1)..k
      BY <2>3, StepsUpTo
    <3>2. ~Replaces(k)
      BY <2>1, <3>1
    <3>3. \A i \in (j + 1)..(k - 1) : ~Replaces(i)
      BY <2>1, <3>1
    <3>4. PageFaultHandled(k)
      BY <2>1, <3>1, <3>3, Zenon DEF PageFaultHandled
    <3> QED BY <3>2, <3>4 DEF BootInv, PreparesHandlers
  <2> QED BY <2>2, <2>3
<1>8. /\ \A n \in Lines : irqHandler'[n] = "EOQTimer" => n = 0
      /\ flag' \/ current' # "main" \/ frames'["main"] # <<>> => Done("enable_interrupts")'
  BY <1>1 DEF PreparesHandlers
<1> QED BY <1>2, <1>3, <1>4, <1>5, <1>6, <1>7, <1>8 DEF BootInv

LEMMA BootKept ==
  ASSUME BootInv, Done("enable_interrupts"), UNCHANGED <<pc, tables>>
  PROVE  BootInv'
<1>1. /\ pc' = pc /\ ready' = ready /\ gates' = gates /\ base' = base
      /\ irqHandler' = irqHandler /\ excHandler' = excHandler
  BY DEF tables
<1>2. \A op : Done(op)' <=> Done(op)
  BY <1>1 DEF Done, Before
<1>3. PageFaultHandled(pc)' <=> PageFaultHandled(pc)
  BY <1>1 DEF PageFaultHandled
<1> QED BY <1>1, <1>2, <1>3 DEF BootInv

\* What is done does not change what has been set up, for a step that leaves the
\* processor as it was.
LEMMA AllKept ==
  ASSUME IInv, UNCHANGED <<pc, tables>>, failure' = failure, requested' \subseteq Lines,
         flag' = flag, current' = current, frames' = frames, inService' = inService
  PROVE  IInv'
<1>1. /\ pc' = pc /\ ready' = ready /\ gates' = gates /\ base' = base
      /\ irqHandler' = irqHandler /\ excHandler' = excHandler
  BY DEF tables
<1>2. PlatformTypeOK'
  BY <1>1 DEF IInv, PlatformTypeOK
<1>3. BootInv'
  <2>1. \A op : Done(op)' <=> Done(op)
    BY <1>1 DEF Done, Before
  <2>2. PageFaultHandled(pc)' <=> PageFaultHandled(pc)
    BY <1>1 DEF PageFaultHandled
  <2> QED BY <1>1, <2>1, <2>2 DEF IInv, BootInv
<1>4. StackInv' /\ ServiceInv'
  BY CPUKept DEF IInv
<1> QED BY <1>2, <1>3, <1>4 DEF IInv

LEMMA MainStep ==
  ASSUME BootOrder, IInv, NEW op, Step(op), pc' = pc + 1, failure' = failure,
         flag' = flag, current' = current, frames' = frames, inService' = inService,
         requested' \subseteq Lines,
         irqHandler' \in [Lines -> Handlers], excHandler' \in [0..31 -> Routines],
         Prepares(pc), PreparesGates(pc), PreparesHandlers(pc)
  PROVE  IInv'
<1>1. PICK k \in 1..Len(Main) : pc = k
  BY StepFacts
<1>2. PlatformTypeOK'
  <2>1. pc' \in 1..(Len(Main) + 1)
    BY <1>1, Parameters
  <2>2. /\ inService \subseteq Lines /\ flag \in BOOLEAN /\ current \in Contexts
        /\ frames \in [Contexts -> Seq(FrameType)] /\ failure = "none"
    BY Zenon DEF IInv, PlatformTypeOK
  <2> QED BY <2>1, <2>2, Zenon DEF PlatformTypeOK
<1>3. BootInv'
  <2>1. flag' \/ current' # "main" \/ frames'["main"] # <<>> => Done("enable_interrupts")
    BY DEF IInv, BootInv
  <2>2. Prepares(k) /\ PreparesGates(k) /\ PreparesHandlers(k)
    BY <1>1, Zenon
  <2>3. BootInv
    BY DEF IInv
  <2> QED BY <1>1, <2>1, <2>2, <2>3, BootAdvances
<1>4. StackInv' /\ ServiceInv'
  BY CPUKept DEF IInv
<1> QED BY <1>2, <1>3, <1>4 DEF IInv

\* A step that only adds to what has been set up.
LEMMA ReadyStep ==
  ASSUME BootOrder, IInv,
         NEW op \in {"static_ctors", "GDT::init", "Console::init", "MemPool", "new",
                     "SimpleTimer", "touch", "wait"},
         Step(op), pc' = pc + 1, failure' = failure, Prepares(pc), UNCHANGED cpu,
         UNCHANGED <<gates, base, irqHandler, excHandler>>
  PROVE  IInv'
<1>1. pc \in 1..Len(Main) /\ Main[pc][1] = op
  BY StepFacts
<1>2. PreparesGates(pc)
  BY <1>1 DEF PreparesGates
<1>3. Main[pc] # <<"register exception handler", 14, "PageFault">>
  <2>1. op # "register exception handler"
    OBVIOUS
  <2>2. <<"register exception handler", 14, "PageFault">>[1] = "register exception handler"
    OBVIOUS
  <2> QED BY <1>1, <2>1, <2>2, Zenon
<1>4. PreparesHandlers(pc)
  BY <1>1, <1>3 DEF PreparesHandlers, IInv, BootInv
<1>5. /\ irqHandler' \in [Lines -> Handlers] /\ excHandler' \in [0..31 -> Routines]
      /\ requested' \subseteq Lines
  BY DEF IInv, PlatformTypeOK, cpu
<1>6. flag' = flag /\ current' = current /\ frames' = frames /\ inService' = inService
  BY DEF cpu
<1> QED BY <1>2, <1>4, <1>5, <1>6, MainStep

\* The console is there for everything that prints.
LEMMA Printed ==
  ASSUME BootOrder, IInv, NEW op \in Printing, Step(op)
  PROVE  Prints
<1>1. pc \in 1..Len(Main) /\ Main[pc][1] \in Printing
  BY StepFacts
<1>2. Before(pc, "Console::init")
  BY <1>1, Zenon DEF BootOrder
<1> QED BY <1>2, Zenon DEF IInv, BootInv, Done, Prints

LEMMA ReadySteps ==
  ASSUME BootOrder, IInv,
         static_ctors \/ GDT_init \/ Console_init \/ memory_pool \/ new
           \/ SimpleTimer \/ touch \/ wait_ends
  PROVE  IInv'
<1>1. CASE static_ctors
  <2>1. Step("static_ctors") /\ pc \in 1..Len(Main) /\ Main[pc][1] = "static_ctors"
    BY <1>1, StepFacts DEF static_ctors
  <2>2. Prepares(pc)
    BY <1>1, <2>1 DEF static_ctors, Prepares
  <2> QED BY <1>1, <2>1, <2>2, ReadyStep DEF static_ctors, Proceed
<1>2. CASE GDT_init
  <2>1. Step("GDT::init") /\ pc \in 1..Len(Main) /\ Main[pc][1] = "GDT::init"
    BY <1>2, StepFacts DEF GDT_init
  <2>2. Prepares(pc)
    BY <1>2, <2>1 DEF GDT_init, Prepares
  <2> QED BY <1>2, <2>1, <2>2, ReadyStep DEF GDT_init, Proceed
<1>3. CASE Console_init
  <2>1. Step("Console::init") /\ pc \in 1..Len(Main) /\ Main[pc][1] = "Console::init"
    BY <1>3, StepFacts DEF Console_init
  <2>2. Prepares(pc)
    BY <1>3, <2>1 DEF Console_init, Prepares
  <2> QED BY <1>3, <2>1, <2>2, ReadyStep DEF Console_init, Proceed
<1>4. CASE memory_pool
  <2>1. Step("MemPool") /\ pc \in 1..Len(Main) /\ Main[pc][1] = "MemPool"
    BY <1>4, StepFacts DEF memory_pool
  <2>2. Prepares(pc)
    BY <1>4, <2>1 DEF memory_pool, Prepares
  <2>3. Prints
    BY <2>1, Printed DEF Printing
  <2> QED BY <1>4, <2>1, <2>2, <2>3, ReadyStep DEF memory_pool, Proceed
<1>5. CASE new
  <2>1. Step("new") /\ pc \in 1..Len(Main) /\ Main[pc][1] = "new"
    BY <1>5, StepFacts DEF new
  <2>2. Prepares(pc)
    BY <1>5, <2>1 DEF new, Prepares
  <2>3. "memory" \in ready
    <3>1. Before(pc, "MemPool")
      BY <2>1, Zenon DEF BootOrder
    <3> QED BY <3>1, Zenon DEF IInv, BootInv, Done
  <2> QED BY <1>5, <2>1, <2>2, <2>3, ReadyStep DEF new, Proceed
<1>6. CASE SimpleTimer
  <2>1. Step("SimpleTimer") /\ pc \in 1..Len(Main) /\ Main[pc][1] = "SimpleTimer"
    BY <1>6, StepFacts DEF SimpleTimer
  <2>2. Prepares(pc) /\ UNCHANGED <<gates, base, irqHandler, excHandler>>
    BY <1>6, <2>1 DEF SimpleTimer, Prepares, tables
  <2> QED BY <1>6, <2>1, <2>2, ReadyStep DEF SimpleTimer, Proceed
<1>7. CASE touch
  <2>1. Step("touch") /\ pc \in 1..Len(Main) /\ Main[pc][1] = "touch"
    BY <1>7, StepFacts DEF touch
  <2>2. Prepares(pc) /\ UNCHANGED <<gates, base, irqHandler, excHandler>>
    BY <1>7, <2>1 DEF touch, Prepares, tables
  <2>3. /\ Before(pc, "GDT::init") /\ Before(pc, "IDT::init")
        /\ Before(pc, "ExceptionHandler::init_dispatcher") /\ PageFaultHandled(pc)
    <3>1. (\A o \in ForPageFaults : Before(pc, o)) /\ PageFaultHandled(pc)
      BY <2>1, Zenon DEF BootOrder
    <3> QED BY <3>1, Zenon DEF ForPageFaults
  <2>4. /\ "GDT" \in ready /\ "IDT" \in ready /\ gates[14] = "isr"
        /\ excHandler[14] = "PageFault"
    <3>1. \A v \in 0..31 : gates[v] = "isr"
      BY <2>3, Zenon DEF IInv, BootInv, Done
    <3>2. "GDT" \in ready /\ "IDT" \in ready /\ excHandler[14] = "PageFault"
      BY <2>3, Zenon DEF IInv, BootInv, Done
    <3> QED BY <3>1, <3>2
  <2> QED BY <1>7, <2>1, <2>2, <2>4, ReadyStep DEF touch, Proceed
<1>8. CASE wait_ends
  <2>1. Step("wait") /\ pc \in 1..Len(Main) /\ Main[pc][1] = "wait"
    BY <1>8, StepFacts DEF wait_ends
  <2>2. Prepares(pc) /\ UNCHANGED <<gates, base, irqHandler, excHandler>>
    BY <1>8, <2>1 DEF wait_ends, Prepares, tables
  <2> QED BY <1>8, <2>1, <2>2, ReadyStep DEF wait_ends
<1> QED BY <1>1, <1>2, <1>3, <1>4, <1>5, <1>6, <1>7, <1>8

\* The tables: a stub goes to a range of gates, a handler to an entry.
LEMMA TableSteps ==
  ASSUME BootOrder, IInv,
         IDT_init \/ Exception_init_dispatcher \/ IRQ_init \/ Interrupt_init_dispatcher
           \/ register_exception \/ register_interrupt
  PROVE  IInv'
<1>1. /\ requested \subseteq Lines
      /\ irqHandler \in [Lines -> Handlers] /\ excHandler \in [0..31 -> Routines]
      /\ \A n \in Lines : irqHandler[n] = "EOQTimer" => n = 0
  BY DEF IInv, PlatformTypeOK, BootInv
<1>2. \A op : op # "register exception handler" /\ Main[pc][1] = op =>
        Main[pc] # <<"register exception handler", 14, "PageFault">>
  <2>1. <<"register exception handler", 14, "PageFault">>[1] = "register exception handler"
    OBVIOUS
  <2> QED BY <2>1, Zenon
<1>3. CASE IDT_init
  <2>1. Step("IDT::init") /\ Main[pc][1] = "IDT::init"
    BY <1>3, StepFacts DEF IDT_init
  <2>2. Prepares(pc) /\ PreparesGates(pc)
    BY <1>3, <2>1 DEF IDT_init, Prepares, PreparesGates
  <2>3. PreparesHandlers(pc)
    BY <1>1, <1>2, <1>3, <2>1 DEF IDT_init, PreparesHandlers
  <2> QED BY <1>1, <1>3, <2>1, <2>2, <2>3, MainStep DEF IDT_init, Proceed, cpu
<1>4. CASE Exception_init_dispatcher
  <2> DEFINE op == "ExceptionHandler::init_dispatcher"
  <2>1. Step(op) /\ Main[pc][1] = op /\ Prints
    BY <1>4, StepFacts, Printed DEF Exception_init_dispatcher, Printing
  <2>2. Prepares(pc) /\ PreparesGates(pc)
    BY <1>4, <2>1 DEF Exception_init_dispatcher, Prepares, PreparesGates, set_gates
  <2>3. PreparesHandlers(pc)
    BY <1>1, <1>2, <1>4, <2>1 DEF Exception_init_dispatcher, PreparesHandlers, Replaces
  <2>4. excHandler' \in [0..31 -> Routines]
    <3>1. "none" \in Routines
      BY DEF Routines, NoHandler
    <3>2. excHandler' = [n \in 0..31 |-> "none"]
      BY <1>4 DEF Exception_init_dispatcher, NoHandler
    <3> QED BY <3>1, <3>2, Zenon
  <2> QED BY <1>1, <1>4, <2>1, <2>2, <2>3, <2>4, MainStep
          DEF Exception_init_dispatcher, Proceed, cpu
<1>5. CASE IRQ_init
  <2>1. Step("IRQ::init") /\ Main[pc][1] = "IRQ::init" /\ inService = {}
    BY <1>5, StepFacts DEF IRQ_init
  <2>2. Prepares(pc) /\ PreparesGates(pc)
    BY <1>5, <2>1 DEF IRQ_init, Prepares, PreparesGates
  <2>3. PreparesHandlers(pc)
    BY <1>1, <1>2, <1>5, <2>1 DEF IRQ_init, PreparesHandlers
  <2> QED BY <1>1, <1>5, <2>1, <2>2, <2>3, MainStep DEF IRQ_init, Proceed
<1>6. CASE Interrupt_init_dispatcher
  <2> DEFINE op == "InterruptHandler::init_dispatcher"
  <2>1. Step(op) /\ Main[pc][1] = op /\ Prints
    BY <1>6, StepFacts, Printed DEF Interrupt_init_dispatcher, Printing
  <2>2. Prepares(pc) /\ PreparesGates(pc)
    BY <1>6, <2>1 DEF Interrupt_init_dispatcher, Prepares, PreparesGates, set_gates
  <2>3. irqHandler' \in [Lines -> Handlers] /\ \A n \in Lines : irqHandler'[n] = "none"
    BY <1>6 DEF Interrupt_init_dispatcher, NoHandler, Handlers
  <2>4. PreparesHandlers(pc)
    BY <1>2, <1>6, <2>1, <2>3 DEF Interrupt_init_dispatcher, PreparesHandlers, Replaces
  <2> QED BY <1>1, <1>6, <2>1, <2>2, <2>3, <2>4, MainStep
          DEF Interrupt_init_dispatcher, Proceed, cpu
<1>7. CASE register_exception
  <2> DEFINE op == "register exception handler"
  <2>1. Step(op) /\ pc \in 1..Len(Main) /\ Main[pc][1] = op /\ Prints
    BY <1>7, StepFacts, Printed DEF register_exception, Printing
  <2>2. Main[pc][2] \in 0..31 /\ Main[pc][3] \in Routines
    BY <2>1, Zenon DEF BootOrder
  <2>3. Prepares(pc) /\ PreparesGates(pc)
    BY <1>7, <2>1 DEF register_exception, Prepares, PreparesGates
  <2>4. PICK v \in 0..31, h \in Routines : Main[pc][2] = v /\ Main[pc][3] = h
    BY <2>2
  <2>5. excHandler' = [excHandler EXCEPT ![v] = h]
    BY <1>7, <2>4 DEF register_exception
  <2>6. /\ excHandler' \in [0..31 -> Routines] /\ excHandler'[v] = h
        /\ v # 14 => excHandler'[14] = excHandler[14]
    BY <1>1, <2>5
  <2>7. PreparesHandlers(pc)
    <3>1. Main[pc] = <<op, 14, "PageFault">> => excHandler'[14] = "PageFault"
      <4>1. <<op, 14, "PageFault">>[2] = 14 /\ <<op, 14, "PageFault">>[3] = "PageFault"
        OBVIOUS
      <4>2. Main[pc] = <<op, 14, "PageFault">> => v = 14 /\ h = "PageFault"
        BY <2>4, <4>1, Zenon
      <4> QED BY <2>6, <4>2
    <3>2. ~Replaces(pc) => excHandler'[14] = excHandler[14]
      BY <2>1, <2>4, <2>6 DEF Replaces
    <3>3. base' = base /\ irqHandler' = irqHandler /\ Main[pc][1] # "IRQ::init"
      BY <1>7, <2>1 DEF register_exception
    <3> QED BY <1>1, <3>1, <3>2, <3>3, Zenon DEF PreparesHandlers
  <2> QED BY <1>1, <1>7, <2>1, <2>3, <2>6, <2>7, MainStep DEF register_exception, Proceed, cpu
<1>8. CASE register_interrupt
  <2> DEFINE op == "register interrupt handler"
  <2>1. Step(op) /\ pc \in 1..Len(Main) /\ Main[pc][1] = op /\ Prints
    BY <1>8, StepFacts, Printed DEF register_interrupt, Printing
  <2>2. /\ Main[pc][2] \in Lines /\ Main[pc][3] \in Handlers
        /\ Main[pc][3] = "EOQTimer" => Main[pc][2] = 0
    BY <2>1, Zenon DEF BootOrder
  <2>3. Prepares(pc) /\ PreparesGates(pc)
    BY <1>8, <2>1 DEF register_interrupt, Prepares, PreparesGates
  <2>4. PICK n \in Lines, h \in Handlers : Main[pc][2] = n /\ Main[pc][3] = h
    BY <2>2
  <2>5. irqHandler' = [irqHandler EXCEPT ![n] = h]
    BY <1>8, <2>4 DEF register_interrupt
  <2>6. /\ irqHandler' \in [Lines -> Handlers]
        /\ \A m \in Lines : irqHandler'[m] = "EOQTimer" => m = 0
    BY <1>1, <2>2, <2>4, <2>5
  <2>7. PreparesHandlers(pc)
    BY <1>2, <1>8, <2>1, <2>6 DEF register_interrupt, PreparesHandlers
  <2> QED BY <1>1, <1>8, <2>1, <2>3, <2>6, <2>7, MainStep DEF register_interrupt, Proceed, cpu
<1> QED BY <1>3, <1>4, <1>5, <1>6, <1>7, <1>8

\* Interrupts are enabled once, and main() is left once for a thread.
LEMMA EnablesSteps ==
  ASSUME BootOrder, IInv, enable_interrupts \/ dispatch_to
  PROVE  IInv'
<1>1. /\ requested \subseteq Lines /\ inService \subseteq Lines
      /\ irqHandler \in [Lines -> Handlers] /\ excHandler \in [0..31 -> Routines]
      /\ frames \in [Contexts -> Seq(FrameType)]
      /\ \A n \in Lines : irqHandler[n] = "EOQTimer" => n = 0
  BY DEF IInv, PlatformTypeOK, BootInv
<1>2. BootInv /\ StackInv /\ ServiceInv
  BY DEF IInv
<1>3. CASE enable_interrupts
  <2> DEFINE op == "enable_interrupts"
  <2>1. /\ Step(op) /\ pc \in 1..Len(Main) /\ Main[pc][1] = op /\ failure = "none"
        /\ current = "main" /\ frames["main"] = <<>> /\ inService = {}
    BY <1>3, StepFacts DEF enable_interrupts
  <2>2. ~flag
    <3>1. ~Before(pc, op)
      BY <2>1, Zenon DEF BootOrder
    <3> QED BY <1>2, <3>1, Zenon DEF BootInv, Done
  <2>3. PICK k \in 1..Len(Main) : pc = k
    BY <2>1
  <2>4. /\ pc' = k + 1 /\ failure' = "none" /\ flag' = TRUE /\ current' = "main"
        /\ frames' = frames /\ inService' = {} /\ requested' = requested
    BY <1>3, <2>1, <2>2, <2>3 DEF enable_interrupts, Proceed
  <2>5. /\ ready' = ready /\ gates' = gates /\ base' = base
        /\ irqHandler' = irqHandler /\ excHandler' = excHandler
    BY <1>3 DEF enable_interrupts, tables
  <2>6. Main[k][1] = op /\ Main[k] # <<"register exception handler", 14, "PageFault">>
    <3>1. <<"register exception handler", 14, "PageFault">>[1] # op
      OBVIOUS
    <3> QED BY <2>1, <2>3, <3>1, Zenon
  <2>7. Prepares(k) /\ PreparesGates(k) /\ PreparesHandlers(k)
    BY <1>1, <2>5, <2>6 DEF Prepares, PreparesGates, PreparesHandlers
  <2>8. BootInv'
    BY <1>2, <2>3, <2>4, <2>6, <2>7, BootAdvances
  <2>9. PlatformTypeOK'
    <3>1. pc' \in 1..(Len(Main) + 1)
      BY <2>4, Parameters
    <3>2. flag' \in BOOLEAN /\ inService' \subseteq Lines /\ current' \in Contexts
      BY <2>4 DEF Contexts
    <3> QED BY <1>1, <2>4, <2>5, <3>1, <3>2, Zenon DEF PlatformTypeOK
  <2>10. StackInv'
    <3>1. current' = current /\ frames' = frames
      BY <2>1, <2>4
    <3> QED BY <1>2, <3>1 DEF StackInv
  <2>11. ServiceInv'
    BY <2>1, <2>4 DEF ServiceInv
  <2> QED BY <2>8, <2>9, <2>10, <2>11 DEF IInv
<1>4. CASE dispatch_to
  <2> DEFINE op == "dispatch_to"
  <2>1. /\ Step(op) /\ pc \in 1..Len(Main) /\ Main[pc][1] = op /\ failure = "none"
        /\ current = "main" /\ frames["main"] = <<>> /\ inService = {}
    BY <1>4, StepFacts DEF dispatch_to
  <2>2. PICK k \in 1..Len(Main) : pc = k
    BY <2>1
  <2>3. /\ Main[k][2] \in Threads /\ Before(k, "enable_interrupts")
        /\ \E j \in 1..(k - 1) : Main[j] = <<"new", "SYSTEM_SCHEDULER">>
    BY <2>1, <2>2, Zenon DEF BootOrder
  <2>4. "SYSTEM_SCHEDULER" \in ready
    <3>1. PICK j \in 1..(k - 1) : Main[j] = <<"new", "SYSTEM_SCHEDULER">>
      BY <2>3
    <3>2. Main[j][1] = "new" /\ Main[j][2] = "SYSTEM_SCHEDULER"
      BY <3>1
    <3>3. \A i \in 1..(k - 1) : Main[i][1] = "new" => Main[i][2] \in ready
      BY <1>2, <2>2, Zenon DEF BootInv
    <3> QED BY <3>2, <3>3
  <2>5. PICK t \in Threads : Main[k][2] = t
    BY <2>3
  <2>6. /\ pc' = k + 1 /\ failure' = "none" /\ flag' = FALSE /\ current' = t
        /\ frames' = frames /\ inService' = {} /\ requested' = requested
    BY <1>4, <2>1, <2>2, <2>4, <2>5 DEF dispatch_to, Proceed
  <2>7. /\ ready' = ready /\ gates' = gates /\ base' = base
        /\ irqHandler' = irqHandler /\ excHandler' = excHandler
    BY <1>4 DEF dispatch_to, tables
  <2>8. Main[k][1] = op /\ Main[k] # <<"register exception handler", 14, "PageFault">>
    <3>1. <<"register exception handler", 14, "PageFault">>[1] # op
      OBVIOUS
    <3> QED BY <2>1, <2>2, <3>1, Zenon
  <2>9. Prepares(k) /\ PreparesGates(k) /\ PreparesHandlers(k)
    BY <1>1, <2>7, <2>8 DEF Prepares, PreparesGates, PreparesHandlers
  <2>10. Done("enable_interrupts")
    BY <2>2, <2>3 DEF Done
  <2>11. BootInv'
    BY <1>2, <2>2, <2>6, <2>9, <2>10, BootAdvances
  <2>12. PlatformTypeOK'
    <3>1. pc' \in 1..(Len(Main) + 1)
      BY <2>6, Parameters
    <3>2. flag' \in BOOLEAN /\ inService' \subseteq Lines /\ current' \in Contexts
      BY <2>6 DEF Contexts
    <3> QED BY <1>1, <2>6, <2>7, <3>1, <3>2, Zenon DEF PlatformTypeOK
  <2>13. t # "main"
    BY Parameters
  <2>14. frames[t] # <<>> /\ frames[t][1].at \in {"start", "switched"}
    BY <1>2, <2>1, <2>13 DEF StackInv
  <2>15. StackInv'
    BY <1>2, <2>1, <2>6, <2>13, Parameters DEF StackInv
  <2>16. ServiceInv'
    BY <2>6, <2>14 DEF ServiceInv, Top
  <2> QED BY <2>11, <2>12, <2>15, <2>16 DEF IInv
<1> QED BY <1>3, <1>4

----------------------------------------------------------------------------
\* Steps on the stack of the running context.
LEMMA CurrentStack ==
  ASSUME IInv
  PROVE  \E c \in Contexts, s \in Seq(FrameType) :
           /\ current = c /\ frames[c] = s /\ Top = s[1] /\ failure = "none"
           /\ \A i \in 2..Len(s) : s[i].at \in {"resumed", "eoi"}
           /\ \A i \in 1..Len(s) : s[i].at \in {"handler", "eoi", "resumed"} => s[i].n \in Lines
           /\ c = "main" => \A i \in 1..Len(s) : s[i].at \in {"handler", "eoi"}
<1>1. /\ current \in Contexts /\ frames[current] \in Seq(FrameType) /\ failure = "none"
  BY DEF IInv, PlatformTypeOK
<1>2. StackInv
  BY DEF IInv
<1>3. PICK c \in Contexts, s \in Seq(FrameType) : current = c /\ frames[c] = s
  BY <1>1
<1>4. /\ \A i \in 2..Len(s) : s[i].at \in {"resumed", "eoi"}
      /\ \A i \in 1..Len(s) : s[i].at \in {"handler", "eoi", "resumed"} => s[i].n \in Lines
      /\ c = "main" => \A i \in 1..Len(s) : s[i].at \in {"handler", "eoi"}
  BY <1>2, <1>3, Zenon DEF StackInv
<1> QED BY <1>1, <1>3, <1>4, Zenon DEF Top

LEMMA StackStep ==
  ASSUME BootOrder, IInv, NEW c \in Contexts, NEW s \in Seq(FrameType), current = c,
         frames' = [frames EXCEPT ![c] = s],
         \A i \in 2..Len(s) : s[i].at \in {"resumed", "eoi"},
         \A i \in 1..Len(s) : s[i].at \in {"handler", "eoi", "resumed"} => s[i].n \in Lines,
         c = "main" => \A i \in 1..Len(s) : s[i].at \in {"handler", "eoi"},
         NEW d \in Contexts, current' = d,
         d = c \/ (/\ c \in Threads /\ d \in Threads
                   /\ s # <<>> /\ s[1].at \in {"start", "switched"})
  PROVE  /\ frames' \in [Contexts -> Seq(FrameType)] /\ StackInv'
         /\ frames'[c] = s
         /\ d # c => frames'[d] # <<>> /\ frames'[d][1].at \in {"start", "switched"}
<1>1. /\ frames \in [Contexts -> Seq(FrameType)] /\ StackInv /\ "main" \notin Threads
      /\ "main" \in Contexts /\ Threads \subseteq Contexts
  BY Parameters DEF IInv, PlatformTypeOK, Contexts
<1>2. /\ frames' \in [Contexts -> Seq(FrameType)] /\ frames'[c] = s
      /\ \A e \in Contexts : e # c => frames'[e] = frames[e]
  BY <1>1
<1>3. \A t \in Threads :
        t # d => frames'[t] # <<>> /\ frames'[t][1].at \in {"start", "switched"}
  <2> TAKE t \in Threads
  <2> HAVE t # d
  <2>1. CASE t = c
    BY <1>2, <2>1
  <2>2. CASE t # c
    BY <1>1, <1>2, <2>2 DEF StackInv
  <2> QED BY <2>1, <2>2
<1>4. d # "main" => frames'["main"] = <<>>
  BY <1>1, <1>2 DEF StackInv
<1>5. \A e \in Contexts :
        /\ \A i \in 2..Len(frames'[e]) : frames'[e][i].at \in {"resumed", "eoi"}
        /\ \A i \in 1..Len(frames'[e]) :
             frames'[e][i].at \in {"handler", "eoi", "resumed"} => frames'[e][i].n \in Lines
  <2> TAKE e \in Contexts
  <2>1. CASE e = c
    BY <1>2, <2>1
  <2>2. CASE e # c
    <3>1. /\ \A i \in 2..Len(frames[e]) : frames[e][i].at \in {"resumed", "eoi"}
          /\ \A i \in 1..Len(frames[e]) :
               frames[e][i].at \in {"handler", "eoi", "resumed"} => frames[e][i].n \in Lines
      BY <1>1, Zenon DEF StackInv
    <3>2. frames'[e] = frames[e]
      BY <1>2, <2>2
    <3> QED BY <3>1, <3>2, Zenon
  <2> QED BY <2>1, <2>2
<1>6. \A i \in 1..Len(frames'["main"]) : frames'["main"][i].at \in {"handler", "eoi"}
  <2>1. CASE c = "main"
    BY <1>2, <2>1
  <2>2. CASE c # "main"
    <3>1. frames'["main"] = frames["main"]
      BY <1>1, <1>2, <2>2
    <3> QED BY <1>1, <3>1, Zenon DEF StackInv
  <2> QED BY <2>1, <2>2
<1>7. StackInv'
  BY <1>3, <1>4, <1>5, <1>6, Zenon DEF StackInv
<1>8. d # c => frames'[d] # <<>> /\ frames'[d][1].at \in {"start", "switched"}
  <2> HAVE d # c
  <2>1. d \in Threads /\ frames'[d] = frames[d]
    BY <1>2
  <2>2. frames[d] # <<>> /\ frames[d][1].at \in {"start", "switched"}
    BY <1>1, <2>1 DEF StackInv
  <2> QED BY <2>1, <2>2
<1> QED BY <1>2, <1>7, <1>8

LEMMA HandlerStep ==
  ASSUME IInv, UNCHANGED <<pc, tables>>, failure' = failure,
         flag \/ current # "main" \/ frames[current] # <<>>,
         requested' \subseteq Lines, inService' \subseteq Lines, flag' \in BOOLEAN,
         current' \in Contexts, frames' \in [Contexts -> Seq(FrameType)],
         StackInv', ServiceInv'
  PROVE  IInv'
<1>1. Done("enable_interrupts")
  <2>1. flag \/ current # "main" \/ frames["main"] # <<>>
    BY Zenon
  <2> QED BY <2>1, Zenon DEF IInv, BootInv
<1>2. BootInv'
  BY <1>1, BootKept DEF IInv
<1>3. /\ pc' = pc /\ irqHandler' = irqHandler /\ excHandler' = excHandler
  BY DEF tables
<1>4. PlatformTypeOK'
  <2>1. /\ pc \in 1..(Len(Main) + 1) /\ irqHandler \in [Lines -> Handlers]
        /\ excHandler \in [0..31 -> Routines] /\ failure = "none"
    BY DEF IInv, PlatformTypeOK
  <2> QED BY <1>3, <2>1, Zenon DEF PlatformTypeOK
<1> QED BY <1>2, <1>4 DEF IInv

\* What the controllers wait for goes by the frame on top.
Accounts(s, on, waiting) ==
  /\ s = <<>> => waiting = {}
  /\ s # <<>> =>
       /\ s[1].at = "handler" => ~on /\ waiting = Served(s[1].n)
       /\ s[1].at = "eoi" => waiting = {} \/ (~on /\ waiting = Served(s[1].n))
       /\ s[1].at \in {"start", "switched", "resumed"} => waiting = {}
       /\ s[1].at \in {"start", "switched"} => ~on

\* A step of the running context: its stack becomes s, and d goes on.
LEMMA ContextStep ==
  ASSUME BootOrder, IInv, NEW c \in Contexts, NEW s \in Seq(FrameType), current = c,
         flag \/ c # "main" \/ frames[c] # <<>>,
         UNCHANGED <<pc, tables>>, failure' = failure,
         frames' = [frames EXCEPT ![c] = s],
         \A i \in 2..Len(s) : s[i].at \in {"resumed", "eoi"},
         \A i \in 1..Len(s) : s[i].at \in {"handler", "eoi", "resumed"} => s[i].n \in Lines,
         c = "main" => \A i \in 1..Len(s) : s[i].at \in {"handler", "eoi"},
         NEW d \in Contexts, current' = d,
         \/ d = c
         \/ /\ c \in Threads /\ d \in Threads
            /\ s # <<>> /\ s[1].at \in {"start", "switched"},
         NEW on \in BOOLEAN, flag' = on, NEW waiting, inService' = waiting,
         waiting \subseteq Lines, requested' \subseteq Lines, Accounts(s, on, waiting)
  PROVE  IInv'
<1>1. /\ frames' \in [Contexts -> Seq(FrameType)] /\ StackInv' /\ frames'[c] = s
      /\ d # c => frames'[d] # <<>> /\ frames'[d][1].at \in {"start", "switched"}
  BY StackStep
<1>2. ServiceInv'
  <2>1. CASE d = c
    <3>1. Accounts(frames'[d], on, waiting)
      BY <1>1, <2>1
    <3> QED BY <3>1, Zenon DEF ServiceInv, Accounts, Top
  <2>2. CASE d # c
    <3>1. waiting = {} /\ ~on
      BY <2>2 DEF Accounts
    <3>2. frames'[d] # <<>> /\ frames'[d][1].at \in {"start", "switched"}
      BY <1>1, <2>2
    <3>3. frames'[d][1].at # "handler" /\ frames'[d][1].at # "eoi"
      BY <3>2
    <3> QED BY <3>1, <3>2, <3>3, Zenon DEF ServiceInv, Top
  <2> QED BY <2>1, <2>2
<1>3. flag \/ current # "main" \/ frames[current] # <<>>
  BY Zenon
<1>4. inService' \subseteq Lines /\ flag' \in BOOLEAN /\ current' \in Contexts
  BY Zenon
<1> QED BY <1>1, <1>2, <1>3, <1>4, HandlerStep

\* The frame on top goes on to another place in its code, or is done with.
LEMMA TopMoves ==
  ASSUME BootOrder, IInv, UNCHANGED <<pc, tables>>, failure' = failure,
         frames[current] # <<>>, NEW label \in {"switched", "resumed", "eoi"}, Top_at(label),
         label = "switched" \/ Top.n \in Lines,
         label = "eoi" \/ current \in Threads,
         NEW d \in Contexts, current' = d,
         d = current \/ (current \in Threads /\ d \in Threads /\ label = "switched"),
         NEW on \in BOOLEAN, flag' = on, NEW waiting, inService' = waiting,
         waiting = {} \/ (label = "eoi" /\ ~on /\ waiting = Served(Top.n)),
         label = "switched" => ~on,
         waiting \subseteq Lines, requested' \subseteq Lines
  PROVE  IInv'
<1>1. PICK c \in Contexts, s \in Seq(FrameType) :
        /\ current = c /\ frames[c] = s /\ Top = s[1] /\ failure = "none"
        /\ \A i \in 2..Len(s) : s[i].at \in {"resumed", "eoi"}
        /\ \A i \in 1..Len(s) : s[i].at \in {"handler", "eoi", "resumed"} => s[i].n \in Lines
        /\ c = "main" => \A i \in 1..Len(s) : s[i].at \in {"handler", "eoi"}
  BY CurrentStack
<1>2. s # <<>> /\ label \in Places
  BY <1>1 DEF Places
<1>3. PICK r \in Seq(FrameType) : r = [s EXCEPT ![1].at = label]
  BY <1>2, Relabelled
<1>4. /\ r # <<>> /\ r[1].at = label /\ r[1].n = s[1].n /\ Len(r) = Len(s)
      /\ \A i \in 2..Len(s) : r[i] = s[i]
  BY <1>2, <1>3, Relabelled
<1>5. frames' = [frames EXCEPT ![c] = r]
  BY <1>1, <1>3 DEF Top_at
<1>6. \A i \in 2..Len(r) : r[i].at \in {"resumed", "eoi"}
  BY <1>1, <1>4
<1>7. \A i \in 1..Len(r) : i = 1 \/ i \in 2..Len(s)
  BY <1>4
<1>8. \A i \in 1..Len(r) : r[i].at \in {"handler", "eoi", "resumed"} => r[i].n \in Lines
  <2> TAKE i \in 1..Len(r)
  <2>1. CASE i = 1
    BY <1>1, <1>4, <2>1
  <2>2. CASE i \in 2..Len(s)
    BY <1>1, <1>4, <2>2
  <2> QED BY <1>7, <2>1, <2>2
<1>9. c = "main" => \A i \in 1..Len(r) : r[i].at \in {"handler", "eoi"}
  <2> SUFFICES ASSUME c = "main", NEW i \in 1..Len(r) PROVE r[i].at \in {"handler", "eoi"}
    OBVIOUS
  <2>1. CASE i = 1
    BY <1>1, <1>4, <2>1, Parameters
  <2>2. CASE i \in 2..Len(s)
    BY <1>1, <1>4, <2>2
  <2> QED BY <1>7, <2>1, <2>2
<1>10. Accounts(r, on, waiting)
  BY <1>1, <1>4 DEF Accounts
<1>11. \/ d = c
       \/ c \in Threads /\ d \in Threads /\ r # <<>> /\ r[1].at \in {"start", "switched"}
  BY <1>1, <1>4
<1>12. flag \/ c # "main" \/ frames[c] # <<>>
  BY <1>1, Zenon
<1> QED BY <1>1, <1>5, <1>6, <1>8, <1>9, <1>10, <1>11, <1>12, ContextStep

LEMMA TopLeaves ==
  ASSUME BootOrder, IInv, UNCHANGED <<pc, tables>>, failure' = failure,
         frames[current] # <<>>, Popped, current' = current,
         NEW on \in BOOLEAN, flag' = on, inService' = {}, requested' \subseteq Lines
  PROVE  IInv'
<1>1. PICK c \in Contexts, s \in Seq(FrameType) :
        /\ current = c /\ frames[c] = s /\ Top = s[1] /\ failure = "none"
        /\ \A i \in 2..Len(s) : s[i].at \in {"resumed", "eoi"}
        /\ \A i \in 1..Len(s) : s[i].at \in {"handler", "eoi", "resumed"} => s[i].n \in Lines
        /\ c = "main" => \A i \in 1..Len(s) : s[i].at \in {"handler", "eoi"}
  BY CurrentStack
<1>2. PICK r \in Seq(FrameType) : r = Tail(s)
  BY <1>1, TailFacts
<1>3. /\ Len(r) = Len(s) - 1 /\ \A i \in 1..(Len(s) - 1) : r[i] = s[i + 1]
      /\ \A i \in 1..Len(r) : i + 1 \in 2..Len(s) /\ i + 1 \in 1..Len(s)
  BY <1>1, <1>2, TailFacts
<1>4. frames' = [frames EXCEPT ![c] = r]
  BY <1>1, <1>2 DEF Popped
<1>5. \A i \in 1..Len(r) : r[i].at \in {"resumed", "eoi"}
  BY <1>1, <1>3
<1>6. \A i \in 1..Len(r) : r[i].at \in {"handler", "eoi", "resumed"} => r[i].n \in Lines
  BY <1>1, <1>3
<1>7. c = "main" => \A i \in 1..Len(r) : r[i].at \in {"handler", "eoi"}
  BY <1>1, <1>3
<1>8. r # <<>> => r[1].at \in {"resumed", "eoi"}
  BY <1>5
<1>9. Accounts(r, on, {})
  BY <1>8 DEF Accounts
<1>10. flag \/ c # "main" \/ frames[c] # <<>>
  BY <1>1, Zenon
<1>11. \A i \in 2..Len(r) : r[i].at \in {"resumed", "eoi"}
  BY <1>5
<1>12. current' = c
  BY <1>1
<1>13. PICK waiting : waiting = {}
  OBVIOUS
<1>14. inService' = waiting /\ waiting \subseteq Lines /\ Accounts(r, on, waiting)
  BY <1>9, <1>13
<1> QED BY <1>1, <1>4, <1>6, <1>7, <1>10, <1>11, <1>12, <1>14, ContextStep

\* A frame comes on a stack with nothing but interrupted handlers on it.
LEMMA TopArrives ==
  ASSUME BootOrder, IInv, UNCHANGED <<pc, tables>>, failure' = failure,
         flag \/ current # "main" \/ frames[current] # <<>>,
         frames[current] = <<>> \/ Top.at \in {"resumed", "eoi"},
         NEW f \in FrameType, frames' = [frames EXCEPT ![current] = <<f>> \o @],
         f.at = "switched" \/ (f.at = "handler" /\ f.n \in Lines),
         f.at = "handler" \/ current \in Threads,
         NEW d \in Contexts, current' = d,
         d = current \/ (current \in Threads /\ d \in Threads /\ f.at = "switched"),
         flag' = FALSE, NEW waiting, inService' = waiting, waiting \subseteq Lines,
         IF f.at = "handler" THEN waiting = Served(f.n) ELSE waiting = {},
         requested' \subseteq Lines
  PROVE  IInv'
<1>1. PICK c \in Contexts, s \in Seq(FrameType) :
        /\ current = c /\ frames[c] = s /\ Top = s[1] /\ failure = "none"
        /\ \A i \in 2..Len(s) : s[i].at \in {"resumed", "eoi"}
        /\ \A i \in 1..Len(s) : s[i].at \in {"handler", "eoi", "resumed"} => s[i].n \in Lines
        /\ c = "main" => \A i \in 1..Len(s) : s[i].at \in {"handler", "eoi"}
  BY CurrentStack
<1>2. PICK r \in Seq(FrameType) : r = <<f>> \o s
  BY Pushed
<1>3. /\ r # <<>> /\ r[1] = f /\ Len(r) = Len(s) + 1 /\ Len(s) \in Nat
      /\ \A i \in 2..(Len(s) + 1) : r[i] = s[i - 1]
  BY <1>2, Pushed
<1>4. frames' = [frames EXCEPT ![c] = r]
  BY <1>1, <1>2
<1>5. \A i \in 1..Len(s) : s[i].at \in {"resumed", "eoi"}
  <2> TAKE i \in 1..Len(s)
  <2>1. CASE i = 1
    BY <1>1, <2>1
  <2>2. CASE i # 1
    <3>1. i \in 2..Len(s)
      BY <2>2
    <3> QED BY <1>1, <3>1
  <2> QED BY <2>1, <2>2
<1>6. \A i \in 1..Len(r) : i = 1 \/ (i \in 2..(Len(s) + 1) /\ i - 1 \in 1..Len(s))
  BY <1>3
<1>7. \A i \in 2..Len(r) : r[i].at \in {"resumed", "eoi"}
  BY <1>3, <1>5, <1>6
<1>8. \A i \in 1..Len(r) : r[i].at \in {"handler", "eoi", "resumed"} => r[i].n \in Lines
  <2> TAKE i \in 1..Len(r)
  <2>1. CASE i = 1
    BY <1>3, <2>1
  <2>2. CASE i # 1
    <3>1. r[i] = s[i - 1] /\ i - 1 \in 1..Len(s)
      BY <1>3, <1>6, <2>2
    <3> QED BY <1>1, <3>1
  <2> QED BY <2>1, <2>2
<1>9. c = "main" => \A i \in 1..Len(r) : r[i].at \in {"handler", "eoi"}
  <2> SUFFICES ASSUME c = "main", NEW i \in 1..Len(r) PROVE r[i].at \in {"handler", "eoi"}
    OBVIOUS
  <2>1. CASE i = 1
    <3>1. f.at = "handler"
      BY <1>1, Parameters
    <3> QED BY <1>3, <2>1, <3>1
  <2>2. CASE i # 1
    <3>1. r[i] = s[i - 1] /\ i - 1 \in 1..Len(s)
      BY <1>3, <1>6, <2>2
    <3> QED BY <1>1, <3>1
  <2> QED BY <2>1, <2>2
<1>10. Accounts(r, FALSE, waiting)
  BY <1>3 DEF Accounts
<1>11. \/ d = c
       \/ c \in Threads /\ d \in Threads /\ r # <<>> /\ r[1].at \in {"start", "switched"}
  BY <1>1, <1>3
<1>12. flag \/ c # "main" \/ frames[c] # <<>>
  BY <1>1, Zenon
<1> QED BY <1>1, <1>4, <1>7, <1>8, <1>9, <1>10, <1>11, <1>12, ContextStep

----------------------------------------------------------------------------
\* What an interrupt finds once interrupts have been enabled.
LEMMA ReadyForInterrupts ==
  ASSUME BootOrder, IInv, Done("enable_interrupts")
  PROVE  /\ {"keyboard", "GDT", "IDT"} \subseteq ready /\ base = Remapped
         /\ \A v \in 32..47 : gates[v] = "irq"
<1>1. PICK k \in 1..(Len(Main) + 1) : pc = k
  BY DEF IInv, PlatformTypeOK
<1>2. PICK j \in 1..(k - 1) : Main[j][1] = "enable_interrupts"
  BY <1>1 DEF Done, Before
<1>3. j \in 1..Len(Main) /\ \A i \in 1..(j - 1) : i \in 1..(k - 1)
  BY Parameters
<1>4. \A op \in ForInterrupts : Before(j, op)
  BY <1>2, <1>3, Zenon DEF BootOrder
<1>5. \A op \in ForInterrupts : Done(op)
  BY <1>1, <1>3, <1>4, Zenon DEF Done, Before
<1>6. /\ Done("static_ctors") /\ Done("GDT::init") /\ Done("IDT::init") /\ Done("IRQ::init")
      /\ Done("InterruptHandler::init_dispatcher")
  BY <1>5, Zenon DEF ForInterrupts
<1>7. /\ "keyboard" \in ready /\ "GDT" \in ready /\ "IDT" \in ready /\ base = Remapped
      /\ \A v \in 32..47 : gates[v] = "irq"
  BY <1>6, Zenon DEF IInv, BootInv
<1> QED BY <1>7

LEMMA SomebodyRuns ==
  ASSUME IInv, flag \/ current # "main" \/ frames[current] # <<>>
  PROVE  Done("enable_interrupts")
<1>1. flag \/ current # "main" \/ frames["main"] # <<>>
  BY Zenon
<1> QED BY <1>1, Zenon DEF IInv, BootInv

\* While interrupts are on, the controllers wait for nothing, and the handlers
\* on the stack are ones that may be interrupted.
LEMMA InterruptsOn ==
  ASSUME IInv, flag
  PROVE  inService = {} /\ (frames[current] = <<>> \/ Top.at \in {"resumed", "eoi"})
<1>1. PICK c \in Contexts, s \in Seq(FrameType) : current = c /\ frames[c] = s /\ Top = s[1]
  BY CurrentStack
<1>2. CASE frames[current] = <<>>
  BY <1>2 DEF IInv, ServiceInv
<1>3. CASE frames[current] # <<>>
  <2>1. Top.at \in Places
    BY <1>1, <1>3, TailFacts DEF FrameType
  <2>2. /\ Top.at # "handler" /\ Top.at # "start" /\ Top.at # "switched"
        /\ Top.at = "eoi" => inService = {}
        /\ Top.at = "resumed" => inService = {}
    BY <1>3 DEF IInv, ServiceInv
  <2> QED BY <2>1, <2>2 DEF Places
<1> QED BY <1>2, <1>3

\* Threads give the processor to each other.
LEMMA ThreadSteps ==
  ASSUME BootOrder, IInv, pass_on_CPU \/ yield_returns \/ thread_start
  PROVE  IInv'
<1>1. /\ failure = "none" /\ requested \subseteq Lines /\ inService \subseteq Lines
      /\ current \in Contexts /\ Threads \subseteq Contexts /\ ServiceInv
  BY DEF IInv, PlatformTypeOK, Contexts
<1>2. CASE pass_on_CPU
  <2>1. PICK d \in Threads : current' = d
    BY <1>2 DEF pass_on_CPU
  <2>2. PICK f \in FrameType : f = Frame(NoLine, "switched") /\ f.at = "switched"
    BY FrameFacts DEF Places
  <2>3. /\ frames[current] = <<>> /\ current \in Threads /\ current # "main"
        /\ frames' = [frames EXCEPT ![current] = <<f>> \o @]
        /\ flag' = FALSE /\ failure' = failure /\ requested' = requested
        /\ UNCHANGED <<pc, tables>>
    BY <1>2, <2>2, Parameters DEF pass_on_CPU, InCode
  <2>4. inService' = {}
    BY <1>1, <1>2, <2>3 DEF pass_on_CPU, ServiceInv
  <2>5. d \in Contexts /\ requested' \subseteq Lines
    BY <1>1, <2>1, <2>3
  <2>6. PICK waiting : waiting = {}
    OBVIOUS
  <2>7. inService' = waiting /\ waiting \subseteq Lines
    BY <2>4, <2>6
  <2>8. IF f.at = "handler" THEN waiting = Served(f.n) ELSE waiting = {}
    BY <2>2, <2>6
  <2> QED BY <2>1, <2>2, <2>3, <2>5, <2>7, <2>8, TopArrives
<1>3. CASE yield_returns
  <2>1. /\ frames[current] # <<>> /\ Top.at = "switched" /\ inService = {}
        /\ flag' = Masking /\ Masking \in BOOLEAN
        /\ IF Top.n = NoLine THEN Popped ELSE Top_at("eoi")
    BY <1>1, <1>3, Parameters DEF yield_returns, InHandler, ServiceInv, AfterSwitch
  <2>2. /\ current' = current /\ failure' = failure /\ requested' \subseteq Lines
        /\ inService' = {} /\ UNCHANGED <<pc, tables>>
    BY <1>1, <1>3, <2>1 DEF yield_returns
  <2>3. CASE Top.n = NoLine
    <3>1. Popped
      BY <2>1, <2>3
    <3> QED BY <2>1, <2>2, <3>1, TopLeaves
  <2>4. CASE Top.n # NoLine
    <3>1. Top_at("eoi")
      BY <2>1, <2>4
    <3>2. Top.n \in Lines
      <4>1. PICK c \in Contexts, s \in Seq(FrameType) :
              current = c /\ frames[c] = s /\ Top = s[1]
        BY CurrentStack
      <4>2. Top \in FrameType
        BY <2>1, <4>1, TailFacts
      <4> QED BY <2>4, <4>2 DEF FrameType
    <3>3. PICK waiting : waiting = {}
      OBVIOUS
    <3>4. inService' = waiting /\ waiting \subseteq Lines
      BY <2>2, <3>3
    <3> QED BY <1>1, <2>1, <2>2, <3>1, <3>2, <3>3, <3>4, TopMoves
  <2> QED BY <2>3, <2>4
<1>4. CASE thread_start
  <2>1. /\ frames[current] # <<>> /\ Top.at = "start" /\ inService = {}
        /\ flag' = Masking /\ Masking \in BOOLEAN /\ Popped
    BY <1>1, <1>4, Parameters DEF thread_start, InHandler, ServiceInv
  <2>2. /\ current' = current /\ failure' = failure /\ requested' \subseteq Lines
        /\ inService' = {} /\ UNCHANGED <<pc, tables>>
    BY <1>1, <1>4, <2>1 DEF thread_start
  <2> QED BY <2>1, <2>2, TopLeaves
<1> QED BY <1>2, <1>3, <1>4

LEMMA ServedLines ==
  ASSUME NEW n \in Lines
  PROVE  Served(n) \subseteq Lines
BY DEF Served, Lines

\* Every interrupt finds the gate of the interrupt dispatcher.
LEMMA Delivered ==
  ASSUME BootOrder, IInv, NEW n \in Lines, Deliver(n)
  PROVE  IInv'
<1>1. flag /\ Running
  BY DEF Deliver, Deliverable
<1>2. {"GDT", "IDT"} \subseteq ready /\ base = Remapped /\ \A v \in 32..47 : gates[v] = "irq"
  BY <1>1, SomebodyRuns, ReadyForInterrupts
<1>3. PICK v \in 32..47 : v = IF n < 8 THEN base.master + n ELSE base.slave + n - 8
  BY <1>2 DEF Remapped, Lines
<1>4. gates[v] = "irq"
  BY <1>2
<1>5. /\ frames' = [frames EXCEPT ![current] = <<Frame(n, "handler")>> \o @]
      /\ flag' = FALSE
      /\ requested' = requested \ {n}
      /\ inService' = inService \union {n} \union (IF n > 7 THEN {2} ELSE {})
      /\ UNCHANGED <<pc, tables, current, devices, failure>>
  <2>1. ~("irq" = "none") /\ ~("irq" = "isr")
    OBVIOUS
  <2> QED BY <1>2, <1>3, <1>4, <2>1 DEF Deliver
<1>6. inService = {} /\ (frames[current] = <<>> \/ Top.at \in {"resumed", "eoi"})
  BY <1>1, InterruptsOn
<1>7. PICK f \in FrameType : f = Frame(n, "handler") /\ f.n = n /\ f.at = "handler"
  BY FrameFacts DEF Places
<1>8. PICK waiting : waiting = Served(n)
  OBVIOUS
<1>9. inService' = waiting /\ waiting \subseteq Lines
  BY <1>5, <1>6, <1>8, ServedLines DEF Served
<1>10. current \in Contexts /\ requested' \subseteq Lines /\ current' = current
  BY <1>5 DEF IInv, PlatformTypeOK
<1>11. failure' = failure /\ UNCHANGED <<pc, tables>>
       /\ frames' = [frames EXCEPT ![current] = <<f>> \o @] /\ flag' = FALSE
  BY <1>5, <1>7
<1>12. IF f.at = "handler" THEN waiting = Served(f.n) ELSE waiting = {}
  BY <1>7, <1>8
<1>13. flag \/ current # "main" \/ frames[current] # <<>>
  BY <1>1
<1> QED BY <1>6, <1>7, <1>9, <1>10, <1>11, <1>12, <1>13, TopArrives

\* The handler on top of the running stack.
LEMMA HandlerOnTop ==
  ASSUME IInv, NEW at \in {"handler", "eoi", "resumed"}, InHandler(at)
  PROVE  /\ frames[current] # <<>> /\ Top.at = at /\ Top.n \in Lines
         /\ at = "handler" => ~flag /\ inService = Served(Top.n)
         /\ at = "eoi" => inService = {} \/ (~flag /\ inService = Served(Top.n))
         /\ at = "resumed" => inService = {} /\ current \in Threads
         /\ requested \subseteq Lines /\ current \in Contexts /\ flag \in BOOLEAN
<1>1. frames[current] # <<>> /\ Top.at = at
  BY DEF InHandler
<1>2. PICK c \in Contexts, s \in Seq(FrameType) :
        /\ current = c /\ frames[c] = s /\ Top = s[1] /\ failure = "none"
        /\ \A i \in 2..Len(s) : s[i].at \in {"resumed", "eoi"}
        /\ \A i \in 1..Len(s) : s[i].at \in {"handler", "eoi", "resumed"} => s[i].n \in Lines
        /\ c = "main" => \A i \in 1..Len(s) : s[i].at \in {"handler", "eoi"}
  BY CurrentStack
<1>3. 1 \in 1..Len(s)
  BY <1>1, <1>2, TailFacts
<1>4. Top.n \in Lines /\ (at = "resumed" => current \in Threads)
  BY <1>1, <1>2, <1>3 DEF Contexts
<1>5. /\ at = "handler" => ~flag /\ inService = Served(Top.n)
      /\ at = "eoi" => inService = {} \/ (~flag /\ inService = Served(Top.n))
      /\ at = "resumed" => inService = {}
  BY <1>1, Zenon DEF IInv, ServiceInv
<1> QED BY <1>1, <1>4, <1>5 DEF IInv, PlatformTypeOK

\* A handler is done, and the dispatcher goes on to the end of interrupt.
LEMMA HandlerDone ==
  ASSUME BootOrder, IInv, InHandler("handler"), UNCHANGED <<pc, tables>>, failure' = failure,
         Top_at("eoi"), flag' = flag, current' = current, requested' = requested,
         inService' = inService \/ inService' = {}
  PROVE  IInv'
<1>1. /\ frames[current] # <<>> /\ Top.n \in Lines /\ ~flag /\ inService = Served(Top.n)
      /\ requested \subseteq Lines /\ current \in Contexts
  BY HandlerOnTop
<1>2. PICK waiting : inService' = waiting
  OBVIOUS
<1>3. waiting = Served(Top.n) \/ waiting = {}
  BY <1>1, <1>2
<1>4. waiting \subseteq Lines
  BY <1>1, <1>3, ServedLines
<1>5. flag' = FALSE
  <2>1. flag = FALSE
    BY <1>1 DEF IInv, PlatformTypeOK
  <2> QED BY <2>1
<1>6. PICK on \in BOOLEAN : flag' = on /\ ~on
  BY <1>5
<1> QED BY <1>1, <1>2, <1>3, <1>4, <1>6, TopMoves

LEMMA HandlerSteps ==
  ASSUME BootOrder, IInv, Handle
  PROVE  IInv'
<1>1. CASE nobody_handles
  BY <1>1, HandlerDone DEF nobody_handles, Handles
<1>2. CASE SimpleTimer_handles
  BY <1>2, HandlerDone DEF SimpleTimer_handles, Handles
<1>3. CASE EOQTimer_handles
  <2>1. /\ InHandler("handler") /\ irqHandler[Top.n] = "EOQTimer"
        /\ UNCHANGED <<pc, tables>> /\ failure' = failure /\ current' = current
        /\ requested' = requested /\ inService' = Acknowledged(inService, FALSE)
        /\ \/ current \in Threads /\ Top_at("resumed") /\ flag' = TRUE
           \/ Top_at("eoi") /\ flag' = flag
    BY <1>3 DEF EOQTimer_handles, Handles, EOQ_acknowledges
  <2>2. /\ frames[current] # <<>> /\ Top.n \in Lines /\ inService = Served(Top.n)
        /\ requested \subseteq Lines /\ current \in Contexts
    BY <2>1, HandlerOnTop
  <2>3. Top.n = 0
    BY <2>1, <2>2 DEF IInv, BootInv
  <2>4. inService' = {}
    BY <2>1, <2>2, <2>3, AcknowledgedAll
  <2>5. CASE current \in Threads /\ Top_at("resumed") /\ flag' = TRUE
    <3>1. PICK on \in BOOLEAN : flag' = on
      BY <2>5
    <3>2. PICK waiting : waiting = {}
      OBVIOUS
    <3>3. inService' = waiting /\ waiting \subseteq Lines
      BY <2>4, <3>2
    <3> QED BY <2>1, <2>2, <2>5, <3>1, <3>2, <3>3, TopMoves
  <2>6. CASE Top_at("eoi") /\ flag' = flag
    BY <2>1, <2>4, <2>6, HandlerDone
  <2> QED BY <2>1, <2>5, <2>6
<1>4. CASE EOQTimer_yields
  <2>1. PICK d \in Threads : current' = d
    BY <1>4 DEF EOQTimer_yields
  <2>2. /\ InHandler("resumed") /\ Top_at("switched") /\ flag' = FALSE
        /\ UNCHANGED <<pc, tables>> /\ failure' = failure
        /\ requested' = requested /\ inService' = inService
    BY <1>4 DEF EOQTimer_yields
  <2>3. /\ frames[current] # <<>> /\ Top.n \in Lines /\ inService = {}
        /\ current \in Threads /\ requested \subseteq Lines
    BY <2>2, HandlerOnTop
  <2>4. PICK waiting : waiting = {}
    OBVIOUS
  <2>5. inService' = waiting /\ waiting \subseteq Lines
    BY <2>2, <2>3, <2>4
  <2>6. PICK on \in BOOLEAN : flag' = on /\ ~on
    BY <2>2
  <2>7. d \in Contexts
    BY DEF Contexts
  <2> QED BY <2>1, <2>2, <2>3, <2>4, <2>5, <2>6, <2>7, TopMoves
<1>5. CASE SimpleKeyboard_handles
  <2>1. InHandler("handler")
    BY <1>5 DEF SimpleKeyboard_handles, Handles
  <2>2. frames[current] # <<>>
    BY <2>1, HandlerOnTop
  <2>3. "keyboard" \in ready
    BY <2>2, SomebodyRuns, ReadyForInterrupts
  <2> QED BY <1>5, <2>1, <2>3, HandlerDone DEF SimpleKeyboard_handles
<1>6. CASE end_of_interrupt
  <2>1. /\ InHandler("eoi") /\ Popped /\ flag' = TRUE /\ current' = current
        /\ UNCHANGED <<pc, tables>> /\ failure' = failure /\ requested' = requested
        /\ inService' = Acknowledged(inService, generated_by_slave_PIC(Top.n))
    BY <1>6 DEF end_of_interrupt
  <2>2. /\ frames[current] # <<>> /\ Top.n \in Lines /\ requested \subseteq Lines
        /\ inService = {} \/ inService = Served(Top.n)
    BY <2>1, HandlerOnTop
  <2>3. inService' = {}
    BY <2>1, <2>2, AcknowledgedAll
  <2>4. PICK on \in BOOLEAN : flag' = on
    BY <2>1
  <2> QED BY <2>1, <2>2, <2>3, <2>4, TopLeaves
<1> QED BY <1>1, <1>2, <1>3, <1>4, <1>5, <1>6 DEF Handle

----------------------------------------------------------------------------
LEMMA InitInv ==
  ASSUME BootOrder, Init
  PROVE  IInv
<1>1. /\ pc = 1 /\ flag = FALSE /\ failure = "none" /\ current = "main"
      /\ requested = {} /\ inService = {}
      /\ irqHandler = [n \in Lines |-> "none"] /\ excHandler = [n \in 0..31 |-> "none"]
  BY DEF Init, NoHandler
<1>2. /\ frames \in [Contexts -> Seq(FrameType)] /\ frames["main"] = <<>>
      /\ \A t \in Threads : frames[t] = <<Frame(NoLine, "start")>>
  <2>1. "main" \notin Threads /\ "main" \in Contexts /\ Threads \subseteq Contexts
    BY Parameters DEF Contexts
  <2>2. frames = [c \in Contexts |->
                   IF c \in Threads THEN <<Frame(NoLine, "start")>> ELSE <<>>]
    BY DEF Init, Contexts
  <2>3. <<Frame(NoLine, "start")>> \in Seq(FrameType)
    <3>1. Frame(NoLine, "start") \in FrameType
      BY FrameFacts DEF Places
    <3> QED BY <3>1
  <2> QED BY <2>1, <2>2, <2>3
<1>3. PlatformTypeOK
  <2>1. pc \in 1..(Len(Main) + 1)
    BY <1>1, Parameters
  <2>2. /\ irqHandler \in [Lines -> Handlers] /\ excHandler \in [0..31 -> Routines]
        /\ requested \subseteq Lines /\ inService \subseteq Lines
        /\ flag \in BOOLEAN /\ current \in Contexts
    BY <1>1 DEF Handlers, Routines, NoHandler, Contexts
  <2> QED BY <1>1, <1>2, <2>1, <2>2, Zenon DEF PlatformTypeOK
<1>4. BootInv
  <2>1. \A j : j \notin 1..(pc - 1)
    BY <1>1
  <2>2. (\A op : ~Done(op)) /\ ~PageFaultHandled(pc)
    BY <2>1, Zenon DEF Done, Before, PageFaultHandled
  <2>3. \A n \in Lines : irqHandler[n] # "EOQTimer"
    BY <1>1
  <2>4. ~(flag \/ current # "main" \/ frames["main"] # <<>>)
    BY <1>1, <1>2
  <2> QED BY <2>1, <2>2, <2>3, <2>4, Zenon DEF BootInv
<1>5. StackInv
  <2>1. PICK f : f = Frame(NoLine, "start")
    OBVIOUS
  <2>2. f.at = "start"
    BY <2>1 DEF Frame
  <2>3. \A t \in Threads : frames[t] = <<f>> /\ frames[t] # <<>> /\ frames[t][1].at = "start"
    <3>1. <<f>> # <<>> /\ <<f>>[1] = f
      OBVIOUS
    <3>2. \A t \in Threads : frames[t] = <<f>>
      BY <1>2, <2>1
    <3> QED BY <2>2, <3>1, <3>2
  <2>4. \A c \in Contexts : frames[c] = <<>> \/ frames[c] = <<f>>
    BY <1>2, <2>3 DEF Contexts
  <2>5. ASSUME NEW c \in Contexts
        PROVE  /\ \A i \in 2..Len(frames[c]) : FALSE
               /\ \A i \in 1..Len(frames[c]) : frames[c][i].at = "start"
    <3>1. CASE frames[c] = <<>>
      BY <3>1
    <3>2. CASE frames[c] = <<f>>
      <4>1. Len(<<f>>) = 1 /\ <<f>>[1] = f
        OBVIOUS
      <4>2. 2..Len(frames[c]) = {} /\ 1..Len(frames[c]) = {1} /\ frames[c][1] = f
        BY <3>2, <4>1
      <4> QED BY <2>2, <4>2
    <3> QED BY <2>4, <3>1, <3>2
  <2>6. \A i \in 1..Len(frames["main"]) : FALSE
    BY <1>2
  <2>7. \A t \in Threads :
          t # current => frames[t] # <<>> /\ frames[t][1].at \in {"start", "switched"}
    BY <2>3
  <2>8. \A c \in Contexts : \A i \in 1..Len(frames[c]) :
          frames[c][i].at \in {"handler", "eoi", "resumed"} => frames[c][i].n \in Lines
    BY <2>5
  <2> QED BY <1>1, <2>5, <2>6, <2>7, <2>8, Zenon DEF StackInv
<1>6. ServiceInv
  BY <1>1, <1>2 DEF ServiceInv
<1> QED BY <1>3, <1>4, <1>5, <1>6 DEF IInv

\* Devices raise lines, and the code that runs between interrupts goes on.
LEMMA OtherSteps ==
  ASSUME IInv, Devices \/ wait \/ Work \/ UNCHANGED vars
  PROVE  IInv'
<1>1. requested \subseteq Lines /\ 0 \in Lines /\ 1 \in Lines /\ 14 \in Lines
  BY DEF IInv, PlatformTypeOK, Lines
<1>2. CASE TimerFires
  BY <1>1, <1>2, AllKept DEF TimerFires
<1>3. CASE KeyMoves
  BY <1>1, <1>3, AllKept DEF KeyMoves
<1>4. CASE DiskIsDone
  BY <1>1, <1>4, AllKept DEF DiskIsDone
<1>5. CASE wait
  BY <1>1, <1>5, AllKept DEF wait, cpu
<1>6. CASE Work
  BY <1>1, <1>6, AllKept DEF Work, cpu
<1>7. CASE UNCHANGED vars
  BY <1>1, <1>7, AllKept DEF vars, tables
<1> QED BY <1>2, <1>3, <1>4, <1>5, <1>6, <1>7 DEF Devices

LEMMA NextInv ==
  ASSUME BootOrder, IInv, [Next]_vars
  PROVE  IInv'
<1>1. CASE Boot
  BY <1>1, ReadySteps, TableSteps, EnablesSteps, OtherSteps DEF Boot
<1>2. CASE pass_on_CPU \/ yield_returns \/ thread_start
  BY <1>2, ThreadSteps
<1>3. CASE \E n \in Lines : Deliver(n)
  BY <1>3, Delivered
<1>4. CASE Handle
  BY <1>4, HandlerSteps
<1>5. CASE Devices \/ Work \/ UNCHANGED vars
  BY <1>5, OtherSteps
<1> QED BY <1>1, <1>2, <1>3, <1>4, <1>5 DEF Next, CPU

\* The boot and the interrupts go together as IInv says, for every main() that
\* keeps to BootOrder.
THEOREM PlatformInvariant ==
  ASSUME BootOrder
  PROVE  Spec => []IInv
<1>1. Init => IInv
  BY InitInv
<1>2. IInv /\ [Next]_vars => IInv'
  BY NextInv
<1> QED BY <1>1, <1>2, PTL DEF Spec

\* Whatever interrupt comes at whatever moment of the boot and afterwards, every
\* step of main(), every interrupt and every page fault finds what it needs:
\* no gate is missing when interrupts are on, no handler runs before its object.
THEOREM KernelsSurvive ==
  ASSUME BootOrder
  PROVE  Spec => []KernelSurvives
<1>1. IInv => KernelSurvives
  BY DEF IInv, PlatformTypeOK, KernelSurvives
<1> QED BY <1>1, PlatformInvariant, PTL

\* While interrupts are on no line waits for an end of interrupt, although the
\* end-of-quantum handler acknowledges early and switches threads with its frame
\* still on the stack, and other handlers nest on it to any depth.
THEOREM NoLineBlocked ==
  ASSUME BootOrder
  PROVE  Spec => []NoneBlocked
<1>1. IInv => NoneBlocked
  BY InterruptsOn DEF NoneBlocked
<1> QED BY <1>1, PlatformInvariant, PTL
=============================================================================
