------------------------ MODULE ContextSwitchProofs ------------------------
(* Whoever goes on finds the CPU it left, for any number of threads, any     *)
(* nesting of interrupts that fits on their stacks, and any exceptions that  *)
(* the CPU and the stubs agree about.                                        *)
EXTENDS ContextSwitch, TLAPS

Labels == {"main", "function", "thread_start", "thread_shutdown", "dispatched", "dispatch",
           "common_stub", "end_of_quantum", "handled", "abort", "threads_low_switch_to",
           "pushfd", "save_registers"}

Words ==
  {Junk, Zero, ErrorCode, Selector("cs"), Selector("ds"), Pointer("REGS")}
    \union {Flags(on) : on \in {"on", "off"}}
    \union {Address(label) : label \in Labels}
    \union {Value(c, r) : c \in Contexts, r \in Registers}
    \union {Pointer(t) : t \in Threads}
    \union {Number(n) : n \in Vectors}

Stacks == [1..Depth -> Words]

CPUs == [regs : [Registers \ {"esp"} -> Words], eip : Words, ints : {"on", "off"}, esp : Int]

Frames == [cpu : CPUs, number : Vectors \union {0}]

TypeOK ==
  /\ running \in Contexts
  /\ mem \in [Contexts -> Stacks]
  /\ esp \in Int
  /\ saved \in [Threads -> Int]
  /\ regs \in [Registers -> Words]
  /\ eip \in Words
  /\ ints \in {"on", "off"}
  /\ gone \subseteq Threads
  /\ left \in [Contexts -> Seq(Frames)]

\* The frame that the code of level k of a stack has interrupted, if any: level
\* 0 is the code that runs or would run, level i what frame i belongs to.
Waiting(L, k) == IF k < Len(L) THEN {L[k + 1]} ELSE {}

\* What code at address a needs of its stack m, with esp at slot s: code that
\* has interrupted nothing, of context c while the threads in G are gone ...
AtBottom(m, G, c, a, s) ==
  \/ a = Address("main") /\ c = NoThread /\ s = Depth + 1
  \/ /\ a = Address("thread_start") /\ c \in Threads \ G /\ s = Depth - 2
     /\ m[Depth - 2] = Address("function") /\ m[Depth - 1] = Address("thread_shutdown")
  \/ /\ a = Address("function") /\ c \in Threads \ G /\ s = Depth - 1
     /\ m[Depth - 1] = Address("thread_shutdown")
  \/ /\ a = Address("dispatched") /\ c \in Threads \ G /\ s = Depth - 2
     /\ m[Depth - 1] = Address("thread_shutdown")
  \/ a \in {Address("thread_shutdown"), Address("abort")} /\ c \in Threads \ G /\ s = Depth
  \/ a = Address("dispatched") /\ c \in G /\ s = Depth - 1

\* ... and a handler or stub with frame f.
InHandler(m, f, c, a, s) ==
  \/ /\ a = Address("dispatch") /\ s = f.cpu.esp - 19
     /\ m[s] = Address("common_stub") /\ m[s + 14] = Number(f.number)
  \/ a = Address("abort") /\ s = f.cpu.esp - 19
  \/ a = Address("common_stub") /\ s = f.cpu.esp - 18
  \/ /\ a = Address("end_of_quantum") /\ c \in Threads /\ s = f.cpu.esp - 19
     /\ m[s] = Address("common_stub")
  \/ a = Address("handled") /\ s = f.cpu.esp - 20 /\ m[s + 1] = Address("common_stub")

\* w holds the frame that the code has interrupted, if any.
Place(m, w, G, c, a, s) ==
  \/ w = {} /\ AtBottom(m, G, c, a, s)
  \/ \E f \in w : InHandler(m, f, c, a, s)

\* The context that iret takes from the frame at slot p.
Restored(m, p) ==
  Context([r \in Registers |-> Popped(m, p, r)], m[p + 14], m[p + 16][2], p + 17)

\* Frame i of stack m of context c, with room for itself.
FrameInPlace(m, L, G, c, i) ==
  /\ L[i].cpu.esp >= Depth - 2 - 20 * (Len(L) - i)
  /\ L[i].cpu.esp <= Depth + 1
  /\ \A j \in (i + 1)..Len(L) : L[i].cpu.esp <= L[j].cpu.esp - 18
  /\ Place(m, Waiting(L, i), G, c, L[i].cpu.eip, L[i].cpu.esp)
  /\ ~Masking /\ c \in Threads => L[i].cpu.ints = "off"

\* The frames of a stack from number k on hold what must be restored.
StackInPlace(m, L, G, c, k) ==
  \A i \in 1..Len(L) :
    /\ FrameInPlace(m, L, G, c, i)
    /\ i >= k => L[i].cpu = Restored(m, L[i].cpu.esp - 17)

\* threads_low_switch_to works below the frame that it is about to complete.
Switching == eip \in {Address("threads_low_switch_to"), Address("pushfd"), Address("save_registers")}

SwitchInPlace ==
  LET m == mem[running]
      f == left[running][1]
      s == f.cpu.esp
  IN  /\ running \in Threads /\ Len(left[running]) >= 1 /\ s < Depth /\ ints = "off"
      /\ m[s] \in {Pointer(t) : t \in Threads \ gone}
      /\ \/ /\ At("threads_low_switch_to") /\ esp = s - 1
            /\ f.cpu = Context(regs, m[s - 1], ints, s)
         \/ /\ At("pushfd") /\ esp = s
            /\ f.cpu = Context([regs EXCEPT !["eax"] = m[s - 2]], m[s - 3], ints, s)
         \/ /\ At("save_registers") /\ esp = s - 3
            /\ f.cpu = Context(regs, m[s - 3], ints, s) /\ m[s - 1] = Flags(ints)

RunningInPlace ==
  /\ Place(mem[running], Waiting(left[running], 0), gone, running, eip, esp)
  /\ Len(left[running]) <= MaxNested
  /\ ~Masking /\ running \in Threads => ints = "off"
  /\ running \notin gone
  /\ running = NoThread => gone = {}

\* Every thread that does not run can be switched to.
OthersWait ==
  \A t \in Threads \ {running} :
    Len(left[t]) >= 1 /\ saved[t] = left[t][1].cpu.esp - 17

IInv ==
  /\ TypeOK
  /\ \A c \in Contexts :
       /\ StackInPlace(mem[c], left[c], gone, c, IF c = running /\ Switching THEN 2 ELSE 1)
       /\ Len(left[c]) <= MaxNested + 1
  /\ OthersWait
  /\ IF Switching THEN SwitchInPlace ELSE RunningInPlace

----------------------------------------------------------------------------
(* Operators.                                                               *)

LEMMA Sizes ==
  ASSUME SwitchAssumption
  PROVE  /\ Depth \in Nat /\ MaxNested \in Nat /\ Depth >= 21
         /\ \A n \in 0..MaxNested : n \in Nat /\ Depth - 2 - 20 * n >= 19
<1>1. Depth \in Nat /\ MaxNested \in Nat /\ Depth >= 20 * MaxNested + 21
  BY DEF SwitchAssumption
<1> QED BY <1>1

LEMMA WordsAre ==
  /\ Junk \in Words /\ Zero \in Words /\ ErrorCode \in Words /\ Selector("cs") \in Words
  /\ Selector("ds") \in Words /\ Pointer("REGS") \in Words
  /\ \A on \in {"on", "off"} : Flags(on) \in Words
  /\ \A label \in Labels : Address(label) \in Words
  /\ \A c \in Contexts, r \in Registers : Value(c, r) \in Words
  /\ \A t \in Threads : Pointer(t) \in Words
  /\ \A n \in Vectors : Number(n) \in Words
<1>1. \A c \in Contexts, r \in Registers : Value(c, r) \in Words
  BY DEF Words
<1>2. /\ \A on \in {"on", "off"} : Flags(on) \in Words
      /\ \A label \in Labels : Address(label) \in Words
  BY DEF Words
<1>3. /\ \A t \in Threads : Pointer(t) \in Words
      /\ \A n \in Vectors : Number(n) \in Words
  BY DEF Words
<1>4. Junk \in Words /\ Zero \in Words /\ ErrorCode \in Words
  BY DEF Words, Junk, Zero, ErrorCode
<1>5. Selector("cs") \in Words /\ Selector("ds") \in Words /\ Pointer("REGS") \in Words
  BY DEF Words
<1> QED BY <1>1, <1>2, <1>3, <1>4, <1>5

LEMMA RegisterNames ==
  /\ Registers = {"eax", "ecx", "edx", "ebx", "esp", "ebp", "esi", "edi", "ds", "es", "fs", "gs"}
  /\ \A i \in 1..12 : Pushed[i] \in Registers
  /\ \A r \in Registers : \E i \in 1..12 : Pushed[i] = r
<1>1. \A i \in 1..12 : i \in {1, 2, 3, 4, 5, 6, 7, 8, 9, 10, 11, 12}
  OBVIOUS
<1>2. /\ Pushed[1] = "eax" /\ Pushed[2] = "ecx" /\ Pushed[3] = "edx" /\ Pushed[4] = "ebx"
      /\ Pushed[5] = "esp" /\ Pushed[6] = "ebp" /\ Pushed[7] = "esi" /\ Pushed[8] = "edi"
      /\ Pushed[9] = "ds" /\ Pushed[10] = "es" /\ Pushed[11] = "fs" /\ Pushed[12] = "gs"
  BY DEF Pushed
<1>3. Registers = {"eax", "ecx", "edx", "ebx", "esp", "ebp", "esi", "edi", "ds", "es", "fs", "gs"}
  BY <1>1, <1>2 DEF Registers
<1> QED BY <1>3 DEF Registers

\* The registers R lie from slot p on, in the order of the pushes.
Lie(m, p, R) == \A i \in 1..12 : m[p + 12 - i] = R[Pushed[i]]

\* Then they come back as they were.
LEMMA RegistersComeBack ==
  ASSUME NEW m, NEW p \in Int, NEW R, Lie(m, p, R)
  PROVE  \A r \in Registers : Popped(m, p, r) = R[r]
<1> SUFFICES ASSUME NEW r \in Registers PROVE Popped(m, p, r) = R[r]
  OBVIOUS
<1>1. PICK i \in 1..12 : Pushed[i] = r
  BY RegisterNames
<1>2. 12 - i \in 0..11 /\ 12 - (12 - i) = i
  OBVIOUS
<1> DEFINE q == CHOOSE j \in 0..11 : Pushed[12 - j] = r
<1>3. q \in 0..11 /\ Pushed[12 - q] = r
  <2>1. \E j \in 0..11 : Pushed[12 - j] = r
    BY <1>1, <1>2
  <2> QED BY <2>1
<1> HIDE DEF q
<1>4. 12 - q \in 1..12 /\ p + 12 - (12 - q) = p + q
  BY <1>3
<1>5. m[p + q] = R[r]
  BY <1>3, <1>4 DEF Lie
<1> QED BY <1>5 DEF Popped, q

\* Push changes the slots below p and no others.
LEMMA PushedWords ==
  ASSUME SwitchAssumption, NEW m \in Stacks, NEW p \in Int, NEW words \in Seq(Words),
         p - Len(words) >= 1, p <= Depth + 1
  PROVE  /\ Push(m, p, words) \in Stacks
         /\ \A i \in p..Depth : Push(m, p, words)[i] = m[i]
         /\ \A j \in 1..Len(words) : Push(m, p, words)[p - j] = words[j]
<1>1. Depth \in Nat /\ Len(words) \in Nat /\ \A j \in 1..Len(words) : words[j] \in Words
  BY Sizes
<1>2. ASSUME NEW i \in 1..Depth
      PROVE  (IF i \in (p - Len(words))..(p - 1) THEN words[p - i] ELSE m[i]) \in Words
  BY <1>1 DEF Stacks
<1>3. Push(m, p, words) \in Stacks
  BY <1>2 DEF Push, Stacks
<1>4. ASSUME NEW i \in p..Depth PROVE Push(m, p, words)[i] = m[i]
  BY <1>1 DEF Push
<1>5. ASSUME NEW j \in 1..Len(words) PROVE Push(m, p, words)[p - j] = words[j]
  <2>1. p - j \in 1..Depth /\ p - j \in (p - Len(words))..(p - 1) /\ p - (p - j) = j
    BY <1>1
  <2> QED BY <2>1 DEF Push
<1> QED BY <1>3, <1>4, <1>5

LEMMA FrameTypes ==
  ASSUME NEW f \in Frames
  PROVE  /\ f.cpu.esp \in Int /\ f.cpu.eip \in Words /\ f.cpu.ints \in {"on", "off"}
         /\ f.cpu \in CPUs
BY DEF Frames, CPUs

\* Another frame on a stack moves the others up by one.
LEMMA OneMore ==
  ASSUME NEW f \in Frames, NEW L \in Seq(Frames)
  PROVE  /\ <<f>> \o L \in Seq(Frames)
         /\ Len(<<f>> \o L) = Len(L) + 1
         /\ (<<f>> \o L)[1] = f
         /\ \A i \in 1..Len(L) : (<<f>> \o L)[i + 1] = L[i]
         /\ \A k \in 0..Len(L) : Waiting(<<f>> \o L, k + 1) = Waiting(L, k)
<1>1. /\ <<f>> \in Seq(Frames) /\ Len(<<f>>) = 1 /\ <<f>>[1] = f
  OBVIOUS
<1>2. /\ <<f>> \o L \in Seq(Frames)
      /\ Len(<<f>> \o L) = Len(L) + 1
      /\ (<<f>> \o L)[1] = f
      /\ \A i \in 1..Len(L) : (<<f>> \o L)[i + 1] = L[i]
  BY <1>1
<1>3. ASSUME NEW k \in 0..Len(L)
      PROVE  Waiting(<<f>> \o L, k + 1) = Waiting(L, k)
  <2>1. k + 1 < Len(<<f>> \o L) <=> k < Len(L)
    BY <1>2
  <2>2. k < Len(L) => (<<f>> \o L)[(k + 1) + 1] = L[k + 1]
    BY <1>2
  <2> QED BY <2>1, <2>2 DEF Waiting
<1> QED BY <1>2, <1>3

LEMMA OneLess ==
  ASSUME NEW L \in Seq(Frames), Len(L) >= 1
  PROVE  /\ Tail(L) \in Seq(Frames)
         /\ Len(Tail(L)) = Len(L) - 1
         /\ \A i \in 1..(Len(L) - 1) : Tail(L)[i] = L[i + 1]
         /\ \A k \in 0..(Len(L) - 1) : Waiting(Tail(L), k) = Waiting(L, k + 1)
         /\ Head(L) = L[1] /\ L[1] \in Frames
<1>1. L # <<>>
  OBVIOUS
<1>2. /\ Tail(L) \in Seq(Frames)
      /\ Len(Tail(L)) = Len(L) - 1
      /\ \A i \in 1..(Len(L) - 1) : Tail(L)[i] = L[i + 1]
      /\ Head(L) = L[1] /\ L[1] \in Frames
  BY <1>1
<1>3. ASSUME NEW k \in 0..(Len(L) - 1)
      PROVE  Waiting(Tail(L), k) = Waiting(L, k + 1)
  <2>1. k < Len(Tail(L)) <=> k + 1 < Len(L)
    BY <1>2
  <2>2. k < Len(Tail(L)) => Tail(L)[k + 1] = L[(k + 1) + 1]
    BY <1>2
  <2> QED BY <2>1, <2>2 DEF Waiting
<1> QED BY <1>2, <1>3

\* Code needs nothing of the stack below its stack pointer.
LEMMA PlaceKept ==
  ASSUME SwitchAssumption, NEW m, NEW n, NEW w, NEW G, NEW c, NEW a, NEW s \in Int, NEW e \in Int,
         s >= e, \A i \in e..Depth : n[i] = m[i],
         \A f \in w : f.cpu.esp \in Int /\ f.cpu.esp <= Depth + 1,
         Place(m, w, G, c, a, s)
  PROVE  Place(n, w, G, c, a, s)
<1>1. Depth \in Nat /\ Depth >= 21
  BY Sizes
<1>2. ASSUME NEW f \in w, InHandler(m, f, c, a, s) PROVE InHandler(n, f, c, a, s)
  <2>1. f.cpu.esp \in Int /\ f.cpu.esp <= Depth + 1
    OBVIOUS
  <2>2. /\ s = f.cpu.esp - 19 => s \in e..Depth /\ s + 14 \in e..Depth
        /\ s = f.cpu.esp - 20 => s + 1 \in e..Depth
    BY <1>1, <2>1
  <2> QED BY <1>2, <2>2 DEF InHandler
<1>3. ASSUME AtBottom(m, G, c, a, s) PROVE AtBottom(n, G, c, a, s)
  <2>1. /\ s = Depth - 2 => n[Depth - 2] = m[Depth - 2] /\ n[Depth - 1] = m[Depth - 1]
        /\ s = Depth - 1 => n[Depth - 1] = m[Depth - 1]
    BY <1>1
  <2> QED BY <1>3, <2>1, Zenon DEF AtBottom
<1> QED BY <1>2, <1>3, Zenon DEF Place

LEMMA RestoredKept ==
  ASSUME NEW m, NEW n, NEW p \in Int, \A i \in p..(p + 16) : n[i] = m[i]
  PROVE  Restored(n, p) = Restored(m, p)
<1>1. ASSUME NEW r \in Registers PROVE Popped(n, p, r) = Popped(m, p, r)
  <2> DEFINE q == CHOOSE i \in 0..11 : Pushed[12 - i] = r
  <2>1. q \in 0..11
    <3>1. PICK i \in 1..12 : Pushed[i] = r
      BY RegisterNames
    <3>2. 12 - i \in 0..11 /\ Pushed[12 - (12 - i)] = r
      BY <3>1
    <3> QED BY <3>2
  <2> HIDE DEF q
  <2>2. p + q \in p..(p + 16)
    BY <2>1
  <2> QED BY <2>2 DEF Popped, q
<1>2. n[p + 14] = m[p + 14] /\ n[p + 16] = m[p + 16]
  OBVIOUS
<1>3. [r \in Registers |-> Popped(n, p, r)] = [r \in Registers |-> Popped(m, p, r)]
  BY <1>1
<1> QED BY <1>2, <1>3 DEF Restored

\* The frames of a stack above slot e do not depend on what is below it.
LEMMA StackKept ==
  ASSUME SwitchAssumption, NEW m, NEW n, NEW L \in Seq(Frames), NEW G, NEW c, NEW k \in Nat,
         NEW e \in Int, \A i \in e..Depth : n[i] = m[i],
         \A i \in 1..Len(L) : L[i].cpu.esp >= e /\ (i >= k => L[i].cpu.esp - 17 >= e),
         StackInPlace(m, L, G, c, k)
  PROVE  StackInPlace(n, L, G, c, k)
<1> SUFFICES ASSUME NEW i \in 1..Len(L)
             PROVE  /\ FrameInPlace(n, L, G, c, i)
                    /\ i >= k => L[i].cpu = Restored(n, L[i].cpu.esp - 17)
  BY DEF StackInPlace
<1>1. /\ FrameInPlace(m, L, G, c, i)
      /\ i >= k => L[i].cpu = Restored(m, L[i].cpu.esp - 17)
  BY DEF StackInPlace
<1>2. L[i].cpu.esp \in Int /\ L[i].cpu.esp <= Depth + 1 /\ Depth \in Nat
  <2>1. L[i] \in Frames
    OBVIOUS
  <2>2. L[i].cpu.esp \in Int
    BY <2>1, FrameTypes
  <2>3. L[i].cpu.esp <= Depth + 1
    BY <1>1, Zenon DEF FrameInPlace
  <2> QED BY <2>2, <2>3, Sizes
<1>3. ASSUME NEW f \in Waiting(L, i) PROVE f.cpu.esp \in Int /\ f.cpu.esp <= Depth + 1
  <2>1. i + 1 \in 1..Len(L) /\ f = L[i + 1]
    BY DEF Waiting
  <2>2. FrameInPlace(m, L, G, c, i + 1)
    BY <2>1 DEF StackInPlace
  <2> QED BY <2>1, <2>2, FrameTypes DEF FrameInPlace
<1>4. Place(n, Waiting(L, i), G, c, L[i].cpu.eip, L[i].cpu.esp)
  <2>1. PICK s \in Int : s = L[i].cpu.esp /\ s >= e
    BY <1>2
  <2>2. Place(m, Waiting(L, i), G, c, L[i].cpu.eip, s)
    BY <1>1, <2>1 DEF FrameInPlace
  <2>3. Place(n, Waiting(L, i), G, c, L[i].cpu.eip, s)
    BY <1>3, <2>1, <2>2, PlaceKept
  <2> QED BY <2>1, <2>3
<1>5. FrameInPlace(n, L, G, c, i)
  BY <1>1, <1>4 DEF FrameInPlace
<1>6. ASSUME i >= k PROVE L[i].cpu = Restored(n, L[i].cpu.esp - 17)
  <2>1. PICK p \in Int : p = L[i].cpu.esp - 17
    BY <1>2
  <2>2. p >= e /\ p + 16 <= Depth
    <3>1. PICK s \in Int : s = L[i].cpu.esp
      BY <1>2
    <3>2. p = s - 17 /\ s - 17 >= e /\ s <= Depth + 1
      BY <1>2, <1>6, <2>1, <3>1
    <3> QED BY <1>2, <3>2
  <2>3. \A j \in p..(p + 16) : j \in e..Depth
    BY <1>2, <2>2
  <2>4. \A j \in p..(p + 16) : n[j] = m[j]
    BY <2>3
  <2> QED BY <1>1, <1>6, <2>1, <2>4, RestoredKept
<1> QED BY <1>5, <1>6

\* A new frame at the end of a stack whose other frames are complete.
LEMMA StackGrows ==
  ASSUME SwitchAssumption, NEW m, NEW L \in Seq(Frames), NEW G, NEW c, NEW f \in Frames,
         StackInPlace(m, L, G, c, 1),
         f.cpu.esp >= Depth - 2 - 20 * Len(L), f.cpu.esp <= Depth + 1,
         \A j \in 1..Len(L) : f.cpu.esp <= L[j].cpu.esp - 18,
         Place(m, Waiting(L, 0), G, c, f.cpu.eip, f.cpu.esp),
         ~Masking /\ c \in Threads => f.cpu.ints = "off"
  PROVE  /\ StackInPlace(m, <<f>> \o L, G, c, 2)
         /\ f.cpu = Restored(m, f.cpu.esp - 17) => StackInPlace(m, <<f>> \o L, G, c, 1)
<1> DEFINE M == <<f>> \o L
<1>1. /\ M \in Seq(Frames) /\ Len(M) = Len(L) + 1 /\ M[1] = f
      /\ \A i \in 1..Len(L) : M[i + 1] = L[i]
      /\ \A k \in 0..Len(L) : Waiting(M, k + 1) = Waiting(L, k)
      /\ Len(L) \in Nat
  BY OneMore
<1> HIDE DEF M
<1>0. Depth \in Nat /\ f.cpu.esp \in Int
  BY Sizes, FrameTypes
<1>2. FrameInPlace(m, M, G, c, 1)
  <2>1. M[1].cpu.esp >= Depth - 2 - 20 * (Len(M) - 1)
    BY <1>0, <1>1
  <2>2. \A j \in 2..Len(M) : M[1].cpu.esp <= M[j].cpu.esp - 18
    <3> SUFFICES ASSUME NEW j \in 2..Len(M) PROVE M[1].cpu.esp <= M[j].cpu.esp - 18
      OBVIOUS
    <3>1. j - 1 \in 1..Len(L) /\ (j - 1) + 1 = j
      BY <1>1
    <3>2. M[j] = L[j - 1]
      BY <1>1, <3>1
    <3> QED BY <1>1, <3>1, <3>2
  <2>3. Waiting(M, 1) = Waiting(L, 0)
    <3>1. 0 \in 0..Len(L) /\ 0 + 1 = 1
      BY <1>1
    <3> QED BY <1>1, <3>1
  <2> QED BY <1>1, <2>1, <2>2, <2>3 DEF FrameInPlace
<1>3. ASSUME NEW i \in 1..Len(L)
      PROVE  /\ FrameInPlace(m, M, G, c, i + 1)
             /\ M[i + 1].cpu = Restored(m, M[i + 1].cpu.esp - 17)
  <2>1. /\ FrameInPlace(m, L, G, c, i)
        /\ L[i].cpu = Restored(m, L[i].cpu.esp - 17)
    BY <1>1 DEF StackInPlace
  <2>2. M[i + 1] = L[i] /\ Waiting(M, i + 1) = Waiting(L, i) /\ Len(M) - (i + 1) = Len(L) - i
    BY <1>1
  <2>3. \A j \in (i + 2)..Len(M) : M[i + 1].cpu.esp <= M[j].cpu.esp - 18
    <3> SUFFICES ASSUME NEW j \in (i + 2)..Len(M) PROVE M[i + 1].cpu.esp <= M[j].cpu.esp - 18
      OBVIOUS
    <3>1. j - 1 \in (i + 1)..Len(L) /\ (j - 1) + 1 = j /\ j - 1 \in 1..Len(L)
      BY <1>1
    <3>2. M[j] = L[j - 1]
      BY <1>1, <3>1
    <3> QED BY <2>1, <2>2, <3>1, <3>2 DEF FrameInPlace
  <2>4. (i + 1) + 1 = i + 2
    OBVIOUS
  <2>5. FrameInPlace(m, M, G, c, i + 1)
    BY <2>1, <2>2, <2>3, <2>4, Zenon DEF FrameInPlace
  <2> QED BY <2>1, <2>2, <2>5
<1>4. ASSUME NEW i \in 2..Len(M)
      PROVE  FrameInPlace(m, M, G, c, i) /\ M[i].cpu = Restored(m, M[i].cpu.esp - 17)
  <2>1. i - 1 \in 1..Len(L) /\ (i - 1) + 1 = i
    BY <1>1
  <2> QED BY <1>3, <2>1
<1>5. ASSUME NEW i \in 1..Len(M) PROVE i = 1 \/ i \in 2..Len(M)
  BY <1>1
<1>6. StackInPlace(m, M, G, c, 2)
  BY <1>1, <1>2, <1>4, <1>5 DEF StackInPlace
<1>7. ASSUME f.cpu = Restored(m, f.cpu.esp - 17) PROVE StackInPlace(m, M, G, c, 1)
  <2> SUFFICES ASSUME NEW i \in 1..Len(M)
               PROVE  FrameInPlace(m, M, G, c, i) /\ M[i].cpu = Restored(m, M[i].cpu.esp - 17)
    BY DEF StackInPlace
  <2>1. CASE i = 1
    BY <1>1, <1>2, <1>7, <2>1
  <2> QED BY <1>4, <1>5, <2>1
<1> QED BY <1>6, <1>7 DEF M

\* The frames that are left when the last one is popped.
LEMMA StackShrinks ==
  ASSUME SwitchAssumption, NEW m, NEW L \in Seq(Frames), Len(L) >= 1, NEW G, NEW c,
         StackInPlace(m, L, G, c, 1)
  PROVE  /\ StackInPlace(m, Tail(L), G, c, 1)
         /\ Place(m, Waiting(Tail(L), 0), G, c, L[1].cpu.eip, L[1].cpu.esp)
         /\ L[1].cpu = Restored(m, L[1].cpu.esp - 17)
<1> DEFINE M == Tail(L)
<1>1. /\ M \in Seq(Frames) /\ Len(M) = Len(L) - 1 /\ Len(L) \in Nat
      /\ \A i \in 1..(Len(L) - 1) : M[i] = L[i + 1]
      /\ \A k \in 0..(Len(L) - 1) : Waiting(M, k) = Waiting(L, k + 1)
  BY OneLess
<1> HIDE DEF M
<1>2. ASSUME NEW i \in 1..Len(M)
      PROVE  FrameInPlace(m, M, G, c, i) /\ M[i].cpu = Restored(m, M[i].cpu.esp - 17)
  <2>0. i + 1 \in 1..Len(L) /\ i + 1 >= 1
    BY <1>1
  <2>1. FrameInPlace(m, L, G, c, i + 1) /\ L[i + 1].cpu = Restored(m, L[i + 1].cpu.esp - 17)
    BY <2>0 DEF StackInPlace
  <2>2. M[i] = L[i + 1] /\ Waiting(M, i) = Waiting(L, i + 1) /\ Len(M) - i = Len(L) - (i + 1)
    BY <1>1
  <2>3. \A j \in (i + 1)..Len(M) : M[i].cpu.esp <= M[j].cpu.esp - 18
    <3> SUFFICES ASSUME NEW j \in (i + 1)..Len(M) PROVE M[i].cpu.esp <= M[j].cpu.esp - 18
      OBVIOUS
    <3>1. j + 1 \in ((i + 1) + 1)..Len(L) /\ j \in 1..(Len(L) - 1)
      BY <1>1
    <3>2. M[j] = L[j + 1]
      BY <1>1, <3>1
    <3> QED BY <2>1, <2>2, <3>1, <3>2 DEF FrameInPlace
  <2>4. FrameInPlace(m, M, G, c, i)
    BY <2>1, <2>2, <2>3, Zenon DEF FrameInPlace
  <2> QED BY <2>1, <2>2, <2>4
<1>3. Waiting(M, 0) = Waiting(L, 1)
  <2>1. 0 \in 0..(Len(L) - 1) /\ 0 + 1 = 1
    BY <1>1
  <2> QED BY <1>1, <2>1
<1>4. 1 \in 1..Len(L) /\ 1 >= 1
  BY <1>1
<1>5. FrameInPlace(m, L, G, c, 1) /\ L[1].cpu = Restored(m, L[1].cpu.esp - 17)
  BY <1>4 DEF StackInPlace
<1>6. Place(m, Waiting(M, 0), G, c, L[1].cpu.eip, L[1].cpu.esp)
  BY <1>3, <1>5 DEF FrameInPlace
<1> QED BY <1>2, <1>5, <1>6 DEF StackInPlace, M

\* A thread that goes matters to its own stack only.
LEMMA OthersGoOn ==
  ASSUME NEW m, NEW L, NEW G, NEW c, NEW t, c # t, NEW k, StackInPlace(m, L, G, c, k)
  PROVE  StackInPlace(m, L, G \union {t}, c, k)
<1>1. \A a, s : AtBottom(m, G, c, a, s) => AtBottom(m, G \union {t}, c, a, s)
  BY DEF AtBottom
<1>2. \A w, a, s : Place(m, w, G, c, a, s) => Place(m, w, G \union {t}, c, a, s)
  BY <1>1 DEF Place
<1> QED BY <1>2 DEF StackInPlace, FrameInPlace

\* What iret finds in a complete frame is what was left there.
LEMMA FrameRestored ==
  ASSUME NEW m, NEW t, NEW p \in Int, NEW f \in Frames, f.cpu = Restored(m, p),
         RestoreAndReturn(m, t, p)
  PROVE  /\ f.cpu = Context(regs', eip', ints', esp')
         /\ eip' = f.cpu.eip /\ ints' = f.cpu.ints /\ esp' = f.cpu.esp /\ esp' = p + 17
         /\ regs \in [Registers -> Words] => regs' \in [Registers -> Words]
<1>1. /\ regs' = [r \in Registers |-> IF r = "esp" THEN regs[r] ELSE Popped(m, p, r)]
      /\ eip' = m[p + 14] /\ ints' = m[p + 16][2] /\ esp' = p + 17
  BY DEF RestoreAndReturn
<1>2. \A r \in Registers \ {"esp"} : regs'[r] = [q \in Registers |-> Popped(m, p, q)][r]
  BY <1>1
<1>3. [r \in Registers \ {"esp"} |-> regs'[r]]
        = [r \in Registers \ {"esp"} |-> [q \in Registers |-> Popped(m, p, q)][r]]
  BY <1>2
<1>4. f.cpu = Context(regs', eip', ints', esp')
  BY <1>1, <1>3 DEF Restored, Context
<1>5. /\ f.cpu.eip = eip' /\ f.cpu.ints = ints' /\ f.cpu.esp = esp'
      /\ f.cpu.regs = [r \in Registers \ {"esp"} |-> regs'[r]]
  BY <1>4 DEF Context
<1>6. ASSUME regs \in [Registers -> Words] PROVE regs' \in [Registers -> Words]
  <2>1. f.cpu.regs \in [Registers \ {"esp"} -> Words]
    BY DEF Frames, CPUs
  <2>2. \A r \in Registers \ {"esp"} : regs'[r] \in Words
    BY <1>5, <2>1
  <2>3. regs'["esp"] \in Words
    BY <1>1, <1>6, RegisterNames
  <2> QED BY <1>1, <2>2, <2>3
<1> QED BY <1>1, <1>4, <1>5, <1>6

\* The CPU pushes an error code exactly where the stubs do not push a zero.
LEMMA ErrorCodesAgree ==
  ASSUME SwitchAssumption, NEW n \in Vectors
  PROVE  HasErrorCode(n) <=> ~PushesZero(n)
BY DEF SwitchAssumption, HasErrorCode, PushesZero

LEMMA FunctionIsSeq ==
  ASSUME NEW S, NEW len \in Nat, NEW g \in [1..len -> S]
  PROVE  g \in Seq(S) /\ Len(g) = len
OBVIOUS

LEMMA TwelveWords ==
  ASSUME NEW S, NEW g \in [1..12 -> S]
  PROVE  g \in Seq(S) /\ Len(g) = 12
<1>1. PICK len \in Nat : len = 12
  OBVIOUS
<1>2. g \in [1..len -> S]
  BY <1>1
<1>3. g \in Seq(S) /\ Len(g) = len
  BY <1>2, FunctionIsSeq
<1> QED BY <1>1, <1>3

\* F is A, then B.
IsJoin(F, A, B) ==
  /\ Len(F) = Len(A) + Len(B)
  /\ \A i \in 1..Len(A) : F[i] = A[i]
  /\ \A i \in 1..Len(B) : F[Len(A) + i] = B[i]

LEMMA Joined ==
  ASSUME NEW S, NEW A \in Seq(S), NEW B \in Seq(S)
  PROVE  A \o B \in Seq(S) /\ IsJoin(A \o B, A, B)
BY DEF IsJoin

\* What the CPU and a stub push, word by word.
IsFrame(F, a, b, c, d, num, g, x, y) ==
  /\ F = <<a, b, c>> \o <<d>> \o <<num>> \o g \o <<x, y>>
  /\ Len(F) = 19
  /\ F[1] = a /\ F[2] = b /\ F[3] = c /\ F[4] = d /\ F[5] = num
  /\ \A i \in 1..12 : F[5 + i] = g[i]
  /\ F[18] = x /\ F[19] = y

LEMMA PushedFrame ==
  ASSUME NEW S, NEW a \in S, NEW b \in S, NEW c \in S, NEW d \in S, NEW num \in S,
         NEW g \in [1..12 -> S], NEW x \in S, NEW y \in S
  PROVE  \E F \in Seq(S) : IsFrame(F, a, b, c, d, num, g, x, y)
<1> DEFINE A == <<a, b, c>>
           Z == <<x, y>>
           B == A \o <<d>>
           C == B \o <<num>>
           D == C \o g
           F == D \o Z
<1>1. A \in Seq(S) /\ Len(A) = 3 /\ A[1] = a /\ A[2] = b /\ A[3] = c
  OBVIOUS
<1>2. Z \in Seq(S) /\ Len(Z) = 2 /\ Z[1] = x /\ Z[2] = y
  OBVIOUS
<1>3. /\ <<d>> \in Seq(S) /\ Len(<<d>>) = 1 /\ <<d>>[1] = d
      /\ <<num>> \in Seq(S) /\ Len(<<num>>) = 1 /\ <<num>>[1] = num
  OBVIOUS
<1>4. g \in Seq(S) /\ Len(g) = 12
  <2> HIDE DEF A, Z, B, C, D, F
  <2> QED BY TwelveWords
<1> HIDE DEF A, Z
<1>5. /\ B \in Seq(S) /\ Len(B) = 4
      /\ B[1] = a /\ B[2] = b /\ B[3] = c /\ B[4] = d
  <2>1. B \in Seq(S) /\ IsJoin(B, A, <<d>>)
    BY <1>1, <1>3, Joined
  <2> HIDE DEF B
  <2>2. 3 + 1 = 4 /\ B[3 + 1] = d /\ Len(B) = 4 /\ \A i \in 1..3 : B[i] = A[i]
    BY <1>1, <1>3, <2>1 DEF IsJoin
  <2> QED BY <1>1, <2>1, <2>2
<1> HIDE DEF B
<1>6. /\ C \in Seq(S) /\ Len(C) = 5
      /\ C[1] = a /\ C[2] = b /\ C[3] = c /\ C[4] = d /\ C[5] = num
  <2>1. C \in Seq(S) /\ IsJoin(C, B, <<num>>)
    BY <1>3, <1>5, Joined
  <2> HIDE DEF C
  <2>2. 4 + 1 = 5 /\ C[4 + 1] = num /\ Len(C) = 5 /\ \A i \in 1..4 : C[i] = B[i]
    BY <1>3, <1>5, <2>1 DEF IsJoin
  <2> QED BY <1>5, <2>1, <2>2
<1> HIDE DEF C
<1>7. /\ D \in Seq(S) /\ Len(D) = 17
      /\ \A i \in 1..5 : D[i] = C[i]
      /\ \A i \in 1..12 : D[5 + i] = g[i]
  <2>1. D \in Seq(S) /\ IsJoin(D, C, g)
    BY <1>4, <1>6, Joined
  <2> HIDE DEF D
  <2> QED BY <1>4, <1>6, <2>1 DEF IsJoin
<1> HIDE DEF D
<1>8. F \in Seq(S) /\ IsJoin(F, D, Z)
  BY <1>2, <1>7, Joined
<1>9. F = <<a, b, c>> \o <<d>> \o <<num>> \o g \o <<x, y>>
  BY DEF A, B, C, D, Z
<1> HIDE DEF F
<1>10. Len(F) = 19 /\ F[17 + 1] = x /\ F[17 + 2] = y /\ \A i \in 1..17 : F[i] = D[i]
  <2>1. /\ Len(F) = 17 + 2
        /\ \A i \in 1..17 : F[i] = D[i]
        /\ \A i \in 1..2 : F[17 + i] = Z[i]
    BY <1>2, <1>7, <1>8, Zenon DEF IsJoin
  <2>2. 1 \in 1..2 /\ 2 \in 1..2 /\ 17 + 2 = 19
    OBVIOUS
  <2>3. F[17 + 1] = x /\ F[17 + 2] = y
    BY <1>2, <2>1, <2>2, Zenon
  <2> QED BY <2>1, <2>2, <2>3, Zenon
<1>11. ASSUME NEW i \in 1..12 PROVE F[5 + i] = g[i]
  <2>1. 5 + i \in 1..17
    OBVIOUS
  <2>2. F[5 + i] = D[5 + i]
    BY <1>10, <2>1, Zenon
  <2>3. D[5 + i] = g[i]
    BY <1>7, Zenon
  <2> QED BY <2>2, <2>3, Zenon
<1>12. F[18] = x /\ F[19] = y /\ \A i \in 1..5 : F[i] = C[i]
  <2>1. 17 + 1 = 18 /\ 17 + 2 = 19
    OBVIOUS
  <2> QED BY <1>7, <1>10, <2>1
<1>13. F[1] = a /\ F[2] = b /\ F[3] = c /\ F[4] = d /\ F[5] = num
  BY <1>6, <1>12
<1> F \in Seq(S)
  BY <1>8
<1> WITNESS F \in Seq(S)
<1> QED BY <1>9, <1>10, <1>11, <1>12, <1>13 DEF IsFrame

\* setup_context builds the frame that a thread must start with.
LEMMA SetUp ==
  ASSUME SwitchAssumption
  PROVE  /\ setup_context \in Stacks
         /\ setup_context[Depth - 1] = Address("thread_shutdown")
         /\ setup_context[Depth - 2] = Address("function")
         /\ Fresh \in Frames
         /\ Fresh.cpu = Restored(setup_context, Depth - 19)
<1>0. Depth \in Nat /\ Depth >= 21
  BY Sizes
<1> DEFINE J == [i \in 1..Depth |-> Junk]
           H == <<Zero, Address("thread_shutdown"), Address("function"), Flags("off"),
                  Selector("cs"), Address("thread_start"), Zero, Zero>>
<1>1. J \in Stacks
  BY WordsAre DEF Stacks
<1>2. H \in Seq(Words) /\ Len(H) = 8 /\ H[2] = Address("thread_shutdown")
      /\ H[3] = Address("function") /\ H[4] = Flags("off") /\ H[6] = Address("thread_start")
  <2>1. /\ Zero \in Words /\ Selector("cs") \in Words /\ Flags("off") \in Words
        /\ Address("thread_shutdown") \in Words /\ Address("function") \in Words
        /\ Address("thread_start") \in Words
    BY WordsAre DEF Labels
  <2> QED BY <2>1
<1>3. InitialRegisters \in Seq(Words) /\ Len(InitialRegisters) = 12
  <2>1. InitialRegisters \in [1..12 -> Words]
    BY DEF InitialRegisters, Words
  <2>2. PICK g \in [1..12 -> Words] : g = InitialRegisters
    BY <2>1
  <2>3. g \in Seq(Words) /\ Len(g) = 12
    BY TwelveWords
  <2> QED BY <2>2, <2>3
<1> HIDE DEF H, J
<1>4. PICK W \in Seq(Words) : W = H \o InitialRegisters
  BY <1>2, <1>3, Joined
<1>5. /\ Len(W) = 20 /\ W[2] = Address("thread_shutdown") /\ W[3] = Address("function")
      /\ W[4] = Flags("off") /\ W[6] = Address("thread_start")
      /\ \A i \in 1..12 : W[8 + i] = InitialRegisters[i]
  <2>1. IsJoin(W, H, InitialRegisters)
    BY <1>2, <1>3, <1>4, Joined
  <2>2. /\ Len(W) = 20 /\ \A i \in 1..8 : W[i] = H[i]
        /\ \A i \in 1..12 : W[8 + i] = InitialRegisters[i]
    BY <1>2, <1>3, <2>1 DEF IsJoin
  <2> QED BY <1>2, <2>2
<1>6. setup_context = Push(J, Depth + 1, W)
  BY <1>4 DEF setup_context, H, J
<1>7. /\ setup_context \in Stacks
      /\ \A j \in 1..20 : setup_context[(Depth + 1) - j] = W[j]
  <2>1. (Depth + 1) - Len(W) >= 1 /\ Depth + 1 \in Int /\ Depth + 1 <= Depth + 1
    BY <1>0, <1>5
  <2>2. PICK p \in Int : p = Depth + 1
    BY <2>1
  <2>3. p - Len(W) >= 1 /\ p <= Depth + 1
    BY <2>1, <2>2
  <2>4. Push(J, p, W) \in Stacks /\ \A j \in 1..Len(W) : Push(J, p, W)[p - j] = W[j]
    BY <1>1, <2>3, PushedWords
  <2> QED BY <1>5, <1>6, <2>2, <2>4
<1>8. /\ setup_context[Depth - 1] = Address("thread_shutdown")
      /\ setup_context[Depth - 2] = Address("function")
      /\ setup_context[(Depth - 19) + 16] = Flags("off")
      /\ setup_context[(Depth - 19) + 14] = Address("thread_start")
  <2>1. /\ (Depth + 1) - 2 = Depth - 1 /\ (Depth + 1) - 3 = Depth - 2
        /\ (Depth + 1) - 4 = (Depth - 19) + 16 /\ (Depth + 1) - 6 = (Depth - 19) + 14
    BY <1>0
  <2>2. /\ setup_context[(Depth + 1) - 2] = W[2] /\ setup_context[(Depth + 1) - 3] = W[3]
        /\ setup_context[(Depth + 1) - 4] = W[4] /\ setup_context[(Depth + 1) - 6] = W[6]
    BY <1>7
  <2> QED BY <1>5, <2>1, <2>2
<1> DEFINE R == [r \in Registers |-> IF r \in {"ds", "es"} THEN Selector("ds") ELSE Zero]
<1>9. Lie(setup_context, Depth - 19, R)
  <2> SUFFICES ASSUME NEW i \in 1..12
               PROVE  setup_context[(Depth - 19) + 12 - i] = R[Pushed[i]]
    BY DEF Lie
  <2>1. 8 + i \in 1..20 /\ (Depth + 1) - (8 + i) = (Depth - 19) + 12 - i
    BY <1>0
  <2>2. setup_context[(Depth - 19) + 12 - i] = InitialRegisters[i]
    BY <1>5, <1>7, <2>1
  <2>3. InitialRegisters[i] = IF i \in {9, 10} THEN Selector("ds") ELSE Zero
    BY DEF InitialRegisters
  <2>4. Pushed[i] \in {"ds", "es"} <=> i \in {9, 10}
    <3>1. i \in {1, 2, 3, 4, 5, 6, 7, 8, 9, 10, 11, 12}
      OBVIOUS
    <3> QED BY <3>1 DEF Pushed
  <2> QED BY <2>2, <2>3, <2>4, RegisterNames
<1> HIDE DEF R
<1>10. \A r \in Registers : Popped(setup_context, Depth - 19, r) = R[r]
  <2>1. Depth - 19 \in Int
    BY <1>0
  <2> QED BY <1>9, <2>1, RegistersComeBack
<1>11. [r \in Registers \ {"esp"} |-> [q \in Registers |-> Popped(setup_context, Depth - 19, q)][r]]
         = [r \in Registers \ {"esp"} |-> IF r \in {"ds", "es"} THEN Selector("ds") ELSE Zero]
  BY <1>10 DEF R
<1>12. Flags("off")[2] = "off" /\ (Depth - 19) + 17 = Depth - 2
  BY <1>0 DEF Flags
<1>13. Fresh.cpu = Restored(setup_context, Depth - 19)
  BY <1>8, <1>11, <1>12 DEF Fresh, Restored, Context
<1>14. Fresh \in Frames
  <2>1. /\ Zero \in Words /\ Selector("ds") \in Words /\ Address("thread_start") \in Words
    BY WordsAre DEF Labels
  <2> QED BY <1>0, <2>1 DEF Fresh, Frames, CPUs
<1> QED BY <1>7, <1>8, <1>13, <1>14

----------------------------------------------------------------------------
(* The inductive invariant.                                                 *)

LEMMA TypesOf ==
  ASSUME TypeOK
  PROVE  /\ \A c \in Contexts : mem[c] \in Stacks /\ left[c] \in Seq(Frames) /\ Len(left[c]) \in Nat
         /\ running \in Contexts /\ esp \in Int
         /\ \A t \in Threads : saved[t] \in Int /\ t \in Contexts
BY DEF TypeOK, Contexts

THEOREM InitIInv ==
  ASSUME SwitchAssumption
  PROVE  Init => IInv
<1> SUFFICES ASSUME Init PROVE IInv
  OBVIOUS
<1>0. Depth \in Nat /\ Depth >= 21 /\ MaxNested \in Nat
  BY Sizes
<1>1. NoThread \notin Threads
  BY DEF SwitchAssumption
<1>2. /\ [i \in 1..Depth |-> Junk] \in Stacks
      /\ setup_context \in Stacks /\ Fresh \in Frames
  BY SetUp, WordsAre DEF Stacks
<1>3. <<Fresh>> \in Seq(Frames) /\ Len(<<Fresh>>) = 1 /\ <<Fresh>>[1] = Fresh
  BY <1>2
<1>4. <<>> \in Seq(Frames) /\ Len(<<>>) = 0
  OBVIOUS
<1>5. TypeOK
  <2>1. mem \in [Contexts -> Stacks] /\ left \in [Contexts -> Seq(Frames)]
    BY <1>2, <1>3, <1>4 DEF Init
  <2>2. saved \in [Threads -> Int] /\ esp \in Int
    BY <1>0 DEF Init
  <2>3. regs \in [Registers -> Words] /\ eip \in Words
    BY WordsAre DEF Init, Labels
  <2> QED BY <2>1, <2>2, <2>3 DEF Init, TypeOK, Contexts
<1>6. ~Switching /\ At("main") /\ running = NoThread
  BY DEF Init, Switching, At, Address
<1>7. ASSUME NEW t \in Threads
      PROVE  /\ StackInPlace(mem[t], left[t], gone, t, 1)
             /\ Len(left[t]) = 1 /\ saved[t] = left[t][1].cpu.esp - 17
  <2>1. mem[t] = setup_context /\ left[t] = <<Fresh>> /\ saved[t] = Depth - 19 /\ gone = {}
    BY DEF Init, Contexts
  <2>2. Fresh.cpu.esp = Depth - 2 /\ Fresh.cpu.eip = Address("thread_start")
        /\ Fresh.cpu.ints = "off" /\ (Depth - 2) - 17 = Depth - 19
    BY <1>0 DEF Fresh
  <2>3. Waiting(<<Fresh>>, 1) = {}
    BY <1>3 DEF Waiting
  <2>4. AtBottom(setup_context, {}, t, Address("thread_start"), Depth - 2)
    BY SetUp, Zenon DEF AtBottom
  <2>5. Place(setup_context, {}, {}, t, Address("thread_start"), Depth - 2)
    BY <2>4, Zenon DEF Place
  <2>6. FrameInPlace(setup_context, <<Fresh>>, {}, t, 1)
    BY <1>0, <1>3, <2>2, <2>3, <2>5 DEF FrameInPlace
  <2>7. StackInPlace(setup_context, <<Fresh>>, {}, t, 1)
    BY <1>3, <2>2, <2>6, SetUp DEF StackInPlace
  <2> QED BY <1>3, <2>1, <2>2, <2>7
<1>8. StackInPlace(mem[NoThread], left[NoThread], gone, NoThread, 1) /\ Len(left[NoThread]) = 0
  <2>1. left[NoThread] = <<>>
    BY <1>1 DEF Init, Contexts
  <2> QED BY <1>4, <2>1 DEF StackInPlace
<1>9. RunningInPlace
  <2>1. Waiting(left[running], 0) = {}
    BY <1>6, <1>8 DEF Waiting
  <2>2. AtBottom(mem[running], gone, running, eip, esp)
    BY <1>6 DEF Init, AtBottom, At
  <2>3. Place(mem[running], Waiting(left[running], 0), gone, running, eip, esp)
    BY <2>1, <2>2 DEF Place
  <2> QED BY <1>0, <1>1, <1>6, <1>8, <2>3 DEF RunningInPlace, Init
<1>10. OthersWait
  BY <1>7 DEF OthersWait
<1>11. ASSUME NEW c \in Contexts
       PROVE  StackInPlace(mem[c], left[c], gone, c, 1) /\ Len(left[c]) <= MaxNested + 1
  <2>1. CASE c \in Threads
    <3>1. StackInPlace(mem[c], left[c], gone, c, 1) /\ Len(left[c]) = 1
      BY <1>7, <2>1
    <3> QED BY <1>0, <3>1
  <2>2. CASE c = NoThread
    BY <1>0, <1>8, <2>2
  <2> QED BY <2>1, <2>2 DEF Contexts
<1> QED BY <1>5, <1>6, <1>9, <1>10, <1>11 DEF IInv

\* Where esp is while code runs: below everything that waits.
LEMMA RunningBounds ==
  ASSUME SwitchAssumption, IInv, ~Switching
  PROVE  /\ esp >= Depth - 2 - 20 * Len(left[running]) /\ esp <= Depth + 1
         /\ \A j \in 1..Len(left[running]) :
              left[running][j].cpu.esp \in Int /\ esp <= left[running][j].cpu.esp - 18
         /\ StackInPlace(mem[running], left[running], gone, running, 1)
<1> DEFINE L == left[running]
<1>0. Depth \in Nat /\ esp \in Int /\ L \in Seq(Frames) /\ Len(L) \in Nat
      /\ \A j \in 1..Len(L) : L[j].cpu.esp \in Int
  <2>1. TypeOK
    BY DEF IInv
  <2>2. L \in Seq(Frames)
    BY <2>1, TypesOf
  <2> QED BY <2>1, <2>2, TypesOf, Sizes, FrameTypes
<1>1. StackInPlace(mem[running], L, gone, running, 1)
  BY TypesOf DEF IInv
<1>2. Place(mem[running], Waiting(L, 0), gone, running, eip, esp)
  BY DEF IInv, RunningInPlace
<1> HIDE DEF L
<1>3. CASE Len(L) = 0
  <2>1. Waiting(L, 0) = {}
    BY <1>3 DEF Waiting
  <2>2. AtBottom(mem[running], gone, running, eip, esp)
    BY <1>2, <2>1 DEF Place
  <2>3. esp >= Depth - 2 /\ esp <= Depth + 1
    BY <1>0, <2>2 DEF AtBottom
  <2> QED BY <1>0, <1>1, <1>3, <2>3 DEF L
<1>4. CASE Len(L) # 0
  <2>1. 0 < Len(L) /\ 0 + 1 = 1 /\ 1 \in 1..Len(L)
    BY <1>0, <1>4
  <2>2. Waiting(L, 0) = {L[1]}
    BY <2>1 DEF Waiting
  <2>3. InHandler(mem[running], L[1], running, eip, esp)
    BY <1>2, <2>2 DEF Place
  <2>4. esp \in {L[1].cpu.esp - 18, L[1].cpu.esp - 19, L[1].cpu.esp - 20}
    BY <2>3 DEF InHandler
  <2>5. /\ L[1].cpu.esp >= Depth - 2 - 20 * (Len(L) - 1)
        /\ L[1].cpu.esp <= Depth + 1
        /\ \A j \in 2..Len(L) : L[1].cpu.esp <= L[j].cpu.esp - 18
    BY <1>1, <2>1 DEF StackInPlace, FrameInPlace
  <2>6. ASSUME NEW j \in 1..Len(L) PROVE esp <= L[j].cpu.esp - 18
    <3>1. CASE j = 1
      BY <1>0, <2>1, <2>4, <3>1
    <3>2. CASE j # 1
      <4>1. j \in 2..Len(L)
        BY <1>0, <3>2
      <4>2. esp \in Int /\ L[1].cpu.esp \in Int /\ L[j].cpu.esp \in Int
            /\ L[1].cpu.esp <= L[j].cpu.esp - 18 /\ esp <= L[1].cpu.esp - 18
        <5>1. esp \in Int /\ L[1].cpu.esp \in Int /\ L[j].cpu.esp \in Int
          BY <1>0, <2>1
        <5>2. L[1].cpu.esp <= L[j].cpu.esp - 18
          BY <2>5, <4>1, Zenon
        <5>3. esp <= L[1].cpu.esp - 18
          <6> HIDE DEF L
          <6> QED BY <2>4, <5>1
        <5> QED BY <5>1, <5>2, <5>3
      <4> QED BY ONLY <4>2
    <3> QED BY <3>1, <3>2
  <2>7. \A j \in 1..Len(L) : esp <= L[j].cpu.esp - 18
    BY <2>6
  <2>8. esp >= Depth - 2 - 20 * Len(L) /\ esp <= Depth + 1
    <3>1. PICK k \in Nat, s \in Int : k = Len(L) /\ s = L[1].cpu.esp
      BY <1>0, <2>1
    <3>2. /\ s >= Depth - 2 - 20 * (k - 1) /\ s <= Depth + 1
          /\ esp \in {s - 18, s - 19, s - 20}
          /\ Depth \in Nat /\ k \in Nat /\ s \in Int
      BY <1>0, <2>4, <2>5, <3>1
    <3>3. esp >= Depth - 2 - 20 * k /\ esp <= Depth + 1
      BY ONLY <3>2
    <3> QED BY <3>1, <3>3
  <2> QED BY <1>0, <1>1, <2>7, <2>8 DEF L
<1> QED BY <1>3, <1>4

\* The code of a handler or stub that runs, and all other code.
LEMMA HandlerRuns ==
  ASSUME IInv, ~Switching,
         NEW label \in {"dispatch", "common_stub", "end_of_quantum", "handled"}, At(label)
  PROVE  /\ Len(left[running]) >= 1 /\ left[running][1] \in Frames
         /\ Waiting(left[running], 0) = {left[running][1]}
         /\ InHandler(mem[running], left[running][1], running, eip, esp)
<1> DEFINE L == left[running]
<1>1. L \in Seq(Frames) /\ Len(L) \in Nat
  BY TypesOf DEF IInv
<1>2. Place(mem[running], Waiting(L, 0), gone, running, eip, esp)
  BY DEF IInv, RunningInPlace
<1> HIDE DEF L
<1>3. ~AtBottom(mem[running], gone, running, eip, esp)
  BY DEF AtBottom, At, Address
<1>4. Waiting(L, 0) # {}
  BY <1>2, <1>3, Zenon DEF Place
<1>5. 0 < Len(L) /\ Waiting(L, 0) = {L[0 + 1]}
  BY <1>4 DEF Waiting
<1>6. Len(L) >= 1 /\ Waiting(L, 0) = {L[1]} /\ L[1] \in Frames
  BY <1>1, <1>5
<1>7. InHandler(mem[running], L[1], running, eip, esp)
  BY <1>2, <1>6 DEF Place
<1> QED BY <1>6, <1>7 DEF L

LEMMA BottomRuns ==
  ASSUME IInv, ~Switching,
         NEW label \in {"main", "function", "thread_start", "thread_shutdown", "dispatched"}, At(label)
  PROVE  /\ Len(left[running]) = 0 /\ left[running] = <<>>
         /\ Waiting(left[running], 0) = {}
         /\ AtBottom(mem[running], gone, running, eip, esp)
<1> DEFINE L == left[running]
<1>1. L \in Seq(Frames) /\ Len(L) \in Nat
  BY TypesOf DEF IInv
<1>2. Place(mem[running], Waiting(L, 0), gone, running, eip, esp)
  BY DEF IInv, RunningInPlace
<1> HIDE DEF L
<1>3. \A f : ~InHandler(mem[running], f, running, eip, esp)
  BY DEF InHandler, At, Address
<1>4. Waiting(L, 0) = {} /\ AtBottom(mem[running], gone, running, eip, esp)
  BY <1>2, <1>3, Zenon DEF Place
<1>5. ~(0 < Len(L))
  BY <1>4 DEF Waiting
<1>6. Len(L) = 0 /\ L = <<>>
  BY <1>1, <1>5
<1> QED BY <1>4, <1>6 DEF L

\* A step that leaves the stacks alone keeps what is on them.
LEMMA NoFrameMoves ==
  ASSUME IInv, TypeOK', ~Switching, ~Switching', RunningInPlace',
         running' = running, mem' = mem, left' = left, saved' = saved, gone' = gone
  PROVE  IInv'
BY DEF IInv, OthersWait, StackInPlace, FrameInPlace

LEMMA DispatchStep == IInv /\ dispatch => IInv'
<1> SUFFICES ASSUME IInv, dispatch PROVE IInv'
  OBVIOUS
<1>1. At("dispatch") /\ ~Switching
  BY DEF dispatch, At, Switching, Address
<1> DEFINE f == left[running][1]
<1>2. /\ Len(left[running]) >= 1 /\ f \in Frames
      /\ Waiting(left[running], 0) = {f}
      /\ InHandler(mem[running], f, running, eip, esp)
  BY <1>1, HandlerRuns
<1>3. esp \in Int /\ f.cpu.esp \in Int /\ esp = f.cpu.esp - 19
      /\ mem[running][esp] = Address("common_stub")
  BY <1>1, <1>2, TypesOf, FrameTypes DEF IInv, InHandler, At, Address
<1>4. regs' \in [Registers -> Words]
  <2>1. \A r \in Registers : regs[r] \in Words /\ Value(running, r) \in Words
    BY TypesOf, WordsAre DEF IInv, TypeOK
  <2> QED BY <2>1 DEF dispatch, Computed
<1>5. /\ running' = running /\ mem' = mem /\ left' = left /\ saved' = saved /\ gone' = gone
      /\ ints' = ints
  BY DEF dispatch
<1>6. \/ eip' = Address("common_stub") /\ esp' = esp + 1
      \/ eip' = Address("abort") /\ esp' = esp
  BY <1>3 DEF dispatch, Return
<1> HIDE DEF f
<1>7. InHandler(mem[running], f, running, eip', esp')
  BY <1>3, <1>6 DEF InHandler
<1>8. TypeOK'
  <2>1. eip' \in Words /\ esp' \in Int
    BY <1>3, <1>6, WordsAre DEF Labels
  <2> QED BY <1>4, <1>5, <2>1 DEF IInv, TypeOK
<1>9. ~Switching' /\ ~At("dispatched")'
  BY <1>6 DEF Switching, At, Address
<1>10. RunningInPlace'
  <2>1. Place(mem[running], Waiting(left[running], 0), gone, running, eip', esp')
    BY <1>2, <1>7 DEF Place
  <2> QED BY <1>1, <1>5, <1>9, <2>1 DEF IInv, RunningInPlace
<1> QED BY <1>1, <1>5, <1>8, <1>9, <1>10, NoFrameMoves

\* Code of threads, which goes on in place.
LEMMA ThreadStep ==
  ASSUME SwitchAssumption, IInv, thread_start \/ Compute
  PROVE  IInv'
<1>0. Depth \in Nat /\ Depth >= 21
  BY Sizes
<1>1. ~Switching /\ Len(left[running]) = 0 /\ Waiting(left[running], 0) = {}
      /\ AtBottom(mem[running], gone, running, eip, esp)
      /\ (At("thread_start") \/ At("function"))
  <2>1. At("thread_start") \/ At("function")
    BY DEF thread_start, Compute
  <2>2. ~Switching
    BY <2>1 DEF At, Switching, Address
  <2> QED BY <2>1, <2>2, BottomRuns
<1>2. running \in Threads \ gone
  BY <1>1 DEF AtBottom, At, Address
<1>3. /\ running' = running /\ mem' = mem /\ left' = left /\ saved' = saved /\ gone' = gone
  BY DEF thread_start, Compute
<1>4. eip' = Address("function") /\ esp' = Depth - 1 /\ mem[running][Depth - 1] = Address("thread_shutdown")
  <2>1. CASE thread_start
    <3>1. esp = Depth - 2 /\ mem[running][Depth - 2] = Address("function")
          /\ mem[running][Depth - 1] = Address("thread_shutdown")
      BY <1>1, <2>1 DEF thread_start, AtBottom, At, Address
    <3> QED BY <1>0, <2>1, <3>1 DEF thread_start, Return
  <2>2. CASE Compute
    BY <1>1, <2>2 DEF Compute, AtBottom, At, Address
  <2> QED BY <2>1, <2>2
<1>5. AtBottom(mem[running], gone, running, eip', esp')
  BY <1>2, <1>4, Zenon DEF AtBottom
<1>6. regs' \in [Registers -> Words]
  <2>1. \A r \in Registers : regs[r] \in Words /\ Value(running, r) \in Words
    BY TypesOf, WordsAre DEF IInv, TypeOK
  <2>2. Computed \in [Registers -> Words]
    BY <2>1 DEF Computed
  <2> QED BY <2>2 DEF thread_start, Compute, IInv, TypeOK
<1>7. ints' \in {"on", "off"} /\ (~Masking => ints' = ints)
  BY DEF thread_start, Compute, IInv, TypeOK
<1>8. TypeOK'
  BY <1>0, <1>3, <1>4, <1>6, <1>7, WordsAre DEF IInv, TypeOK, Labels
<1>9. ~Switching' /\ ~At("dispatched")'
  BY <1>4 DEF Switching, At, Address
<1>10. RunningInPlace'
  <2>1. Place(mem[running], Waiting(left[running], 0), gone, running, eip', esp')
    BY <1>1, <1>5, Zenon DEF Place
  <2> QED BY <1>1, <1>2, <1>3, <1>7, <1>9, <2>1 DEF IInv, RunningInPlace
<1> QED BY <1>1, <1>3, <1>8, <1>9, <1>10, NoFrameMoves

LEMMA YieldReturnsStep ==
  ASSUME SwitchAssumption, IInv, yield_returns
  PROVE  IInv'
<1>0. Depth \in Nat /\ Depth >= 21 /\ esp \in Int
  BY Sizes, TypesOf DEF IInv
<1>1. ~Switching /\ RunningInPlace
  BY DEF yield_returns, At, Switching, Address, IInv
<1>2. /\ running' = running /\ mem' = mem /\ left' = left /\ saved' = saved /\ gone' = gone
      /\ regs' = regs /\ ints' \in {"on", "off"} /\ (~Masking => ints' = ints)
  BY DEF yield_returns, IInv, TypeOK
<1>3. CASE At("dispatched")
  <2>1. /\ Waiting(left[running], 0) = {} /\ AtBottom(mem[running], gone, running, eip, esp)
    BY <1>1, <1>3, BottomRuns
  <2>2. running \notin gone
    BY <1>1, <1>3 DEF RunningInPlace
  <2>3. running \in Threads \ gone /\ esp = Depth - 2
        /\ mem[running][Depth - 1] = Address("thread_shutdown")
    BY <1>3, <2>1, <2>2 DEF AtBottom, At, Address
  <2>4. eip' = Address("function") /\ esp' = Depth - 1
    BY <1>0, <1>3, <2>3 DEF yield_returns, At, Address
  <2>5. Place(mem[running], Waiting(left[running], 0), gone, running, eip', esp')
    BY <2>1, <2>3, <2>4, Zenon DEF Place, AtBottom
  <2>6. ~Switching' /\ ~At("dispatched")' /\ eip' \in Words /\ esp' \in Int
    BY <1>0, <2>4, WordsAre DEF Switching, At, Address, Labels
  <2>7. TypeOK' /\ RunningInPlace'
    BY <1>1, <1>2, <2>5, <2>6 DEF IInv, TypeOK, RunningInPlace
  <2> QED BY <1>1, <1>2, <2>6, <2>7, NoFrameMoves
<1>4. CASE At("handled")
  <2> DEFINE f == left[running][1]
  <2>1. /\ Waiting(left[running], 0) = {f} /\ f \in Frames
        /\ InHandler(mem[running], f, running, eip, esp)
    BY <1>1, <1>4, HandlerRuns
  <2> HIDE DEF f
  <2>2. f.cpu.esp \in Int /\ esp = f.cpu.esp - 20 /\ mem[running][esp + 1] = Address("common_stub")
    BY <1>4, <2>1, FrameTypes DEF InHandler, At, Address
  <2>3. eip' = Address("common_stub") /\ esp' = f.cpu.esp - 18
    BY <1>0, <1>4, <2>2 DEF yield_returns, At, Address
  <2>4. Place(mem[running], Waiting(left[running], 0), gone, running, eip', esp')
    BY <2>1, <2>3 DEF Place, InHandler
  <2>5. ~Switching' /\ ~At("dispatched")' /\ eip' \in Words /\ esp' \in Int
    BY <2>2, <2>3, WordsAre DEF Switching, At, Address, Labels
  <2>6. TypeOK' /\ RunningInPlace'
    BY <1>1, <1>2, <2>4, <2>5 DEF IInv, TypeOK, RunningInPlace
  <2> QED BY <1>1, <1>2, <2>5, <2>6, NoFrameMoves
<1> QED BY <1>3, <1>4 DEF yield_returns

LEMMA FunctionReturnsStep ==
  ASSUME SwitchAssumption, IInv, function_returns
  PROVE  IInv'
<1>0. Depth \in Nat /\ Depth >= 21
  BY Sizes
<1>1. At("function") /\ ~Switching
  BY DEF function_returns, At, Switching, Address
<1>2. Len(left[running]) = 0 /\ Waiting(left[running], 0) = {}
      /\ AtBottom(mem[running], gone, running, eip, esp)
  BY <1>1, BottomRuns
<1>3. running \in Threads \ gone /\ esp = Depth - 1
      /\ mem[running][Depth - 1] = Address("thread_shutdown")
  BY <1>1, <1>2 DEF AtBottom, At, Address
<1>4. /\ running' = running /\ mem' = mem /\ left' = left /\ saved' = saved
      /\ regs' = regs /\ ints' = ints /\ gone' = gone
      /\ eip' = Address("thread_shutdown") /\ esp' = Depth
  BY <1>0, <1>3 DEF function_returns, Return
<1>5. TypeOK'
  BY <1>0, <1>3, <1>4, WordsAre DEF IInv, TypeOK, Labels
<1>6. ~Switching'
  BY <1>4 DEF Switching, At, Address
<1>7. RunningInPlace'
  <2>1. Place(mem[running], Waiting(left[running], 0), gone, running, eip', esp')
    BY <1>2, <1>3, <1>4, Zenon DEF Place, AtBottom
  <2> QED BY <1>1, <1>4, <2>1 DEF IInv, RunningInPlace
<1> QED BY <1>1, <1>4, <1>5, <1>6, <1>7, NoFrameMoves

\* The last thread stops where it is, with nothing else on its stack.
LEMMA NobodyIsReadyStep ==
  ASSUME SwitchAssumption, IInv, nobody_is_ready
  PROVE  IInv'
<1>1. At("thread_shutdown") /\ ~Switching
  BY DEF nobody_is_ready, At, Switching, Address
<1>2. Waiting(left[running], 0) = {} /\ AtBottom(mem[running], gone, running, eip, esp)
  BY <1>1, BottomRuns
<1>3. running \in Threads \ gone /\ esp = Depth
  BY <1>1, <1>2 DEF AtBottom, At, Address
<1>4. /\ running' = running /\ mem' = mem /\ left' = left /\ saved' = saved
      /\ regs' = regs /\ ints' = ints /\ gone' = gone
      /\ eip' = Address("abort") /\ esp' = esp
  BY DEF nobody_is_ready
<1>5. TypeOK'
  BY <1>4, WordsAre DEF IInv, TypeOK, Labels
<1>6. ~Switching'
  BY <1>4 DEF Switching, At, Address
<1>7. RunningInPlace'
  <2>1. Place(mem[running], Waiting(left[running], 0), gone, running, eip', esp')
    BY <1>2, <1>3, <1>4, Zenon DEF Place, AtBottom
  <2> QED BY <1>1, <1>4, <2>1 DEF IInv, RunningInPlace
<1> QED BY <1>1, <1>4, <1>5, <1>6, <1>7, NoFrameMoves

\* The timer's handler goes on with interrupts on.
LEMMA ResumeStep ==
  ASSUME SwitchAssumption, IInv, resume
  PROVE  IInv'
<1>1. At("dispatch") /\ ~Switching /\ running \in Threads
  BY DEF resume, At, Switching, Address, IInv, TypeOK, Contexts
<1> DEFINE f == left[running][1]
<1>2. /\ Waiting(left[running], 0) = {f}
      /\ InHandler(mem[running], f, running, eip, esp)
  BY <1>1, HandlerRuns
<1> HIDE DEF f
<1>3. esp = f.cpu.esp - 19 /\ mem[running][esp] = Address("common_stub")
  BY <1>1, <1>2 DEF InHandler, At, Address
<1>4. regs' \in [Registers -> Words]
  <2>1. \A q \in Registers : regs[q] \in Words /\ Value(running, q) \in Words
    BY TypesOf, WordsAre DEF IInv, TypeOK
  <2> QED BY <2>1 DEF resume, Computed
<1>5. /\ running' = running /\ mem' = mem /\ left' = left /\ saved' = saved /\ gone' = gone
      /\ eip' = Address("end_of_quantum") /\ esp' = esp
      /\ ints' \in {"on", "off"} /\ (~Masking => ints' = ints)
  BY DEF resume, IInv, TypeOK
<1>6. InHandler(mem[running], f, running, eip', esp')
  BY <1>1, <1>3, <1>5, Zenon DEF InHandler
<1>7. TypeOK'
  BY <1>4, <1>5, WordsAre DEF IInv, TypeOK, Labels
<1>8. ~Switching'
  BY <1>5 DEF Switching, At, Address
<1>9. RunningInPlace'
  <2>1. Place(mem[running], Waiting(left[running], 0), gone, running, eip', esp')
    BY <1>2, <1>6, Zenon DEF Place
  <2> QED BY <1>1, <1>5, <2>1 DEF IInv, RunningInPlace
<1> QED BY <1>1, <1>5, <1>7, <1>8, <1>9, NoFrameMoves

\* A step of the running code that leaves all other stacks alone.
LEMMA RunningMoves ==
  ASSUME IInv, TypeOK', running' = running, saved' = saved,
         \A c \in Contexts \ {running} :
           mem'[c] = mem[c] /\ left'[c] = left[c] /\ StackInPlace(mem[c], left[c], gone', c, 1),
         StackInPlace(mem'[running], left'[running], gone', running, IF Switching' THEN 2 ELSE 1),
         Len(left'[running]) <= MaxNested + 1,
         IF Switching' THEN SwitchInPlace' ELSE RunningInPlace'
  PROVE  IInv'
<1>1. ASSUME NEW c \in Contexts
      PROVE  /\ StackInPlace(mem'[c], left'[c], gone', c,
                             IF c = running' /\ Switching' THEN 2 ELSE 1)
             /\ Len(left'[c]) <= MaxNested + 1
  <2>1. CASE c = running
    BY <2>1
  <2>2. CASE c # running
    BY <2>2 DEF IInv
  <2> QED BY <2>1, <2>2
<1>2. OthersWait'
  BY DEF IInv, OthersWait, Contexts
<1> QED BY <1>1, <1>2 DEF IInv

LEMMA OnlyRunningMoves ==
  ASSUME IInv, TypeOK', running' = running, saved' = saved, gone' = gone,
         \A c \in Contexts \ {running} : mem'[c] = mem[c] /\ left'[c] = left[c],
         StackInPlace(mem'[running], left'[running], gone, running, IF Switching' THEN 2 ELSE 1),
         Len(left'[running]) <= MaxNested + 1,
         IF Switching' THEN SwitchInPlace' ELSE RunningInPlace'
  PROVE  IInv'
<1>1. \A c \in Contexts \ {running} : StackInPlace(mem[c], left[c], gone', c, 1)
  BY DEF IInv
<1> QED BY <1>1, RunningMoves

\* An interrupt or an exception: the CPU and the stub make a complete frame.
LEMMA EnterStep ==
  ASSUME SwitchAssumption, IInv, ~Switching, Len(left[running]) < MaxNested,
         NEW n \in Vectors, Enter(n)
  PROVE  IInv'
<1> DEFINE L == left[running]
           J == [i \in 1..Depth |-> IF i < esp THEN Junk ELSE mem[running][i]]
           g == [i \in 1..12 |-> regs[Pushed[i]]]
           f == [cpu |-> Context(regs, eip, ints, esp), number |-> n]
           m == mem'[running]
<1>0. /\ Depth \in Nat /\ Depth >= 20 * MaxNested + 21 /\ MaxNested \in Nat
      /\ esp \in Int /\ running \in Contexts /\ mem[running] \in Stacks
      /\ L \in Seq(Frames) /\ Len(L) \in Nat /\ Len(L) < MaxNested
      /\ regs \in [Registers -> Words] /\ eip \in Words /\ ints \in {"on", "off"}
      /\ TypeOK
  BY TypesOf DEF IInv, TypeOK, SwitchAssumption
<1>1. /\ esp >= Depth - 2 - 20 * Len(L) /\ esp <= Depth + 1
      /\ \A j \in 1..Len(L) : L[j].cpu.esp \in Int /\ esp <= L[j].cpu.esp - 18
      /\ StackInPlace(mem[running], L, gone, running, 1)
  BY RunningBounds
<1>2. RunningInPlace
  BY DEF IInv
<1>3. esp - 19 >= 1
  BY <1>0, <1>1
<1>4. g \in [1..12 -> Words]
  BY <1>0, RegisterNames
<1>5. PICK F \in Seq(Words) :
        /\ mem' = [mem EXCEPT ![running] = Push(J, esp, F)]
        /\ esp' = esp - 19 /\ Len(F) = 19
        /\ F[1] = Flags(ints) /\ F[3] = eip /\ F[5] = Number(n)
        /\ \A i \in 1..12 : F[5 + i] = g[i]
        /\ F[19] = Address("common_stub")
  <2> DEFINE d == IF HasErrorCode(n) THEN ErrorCode ELSE Zero
             A == <<Flags(ints), Selector("cs"), eip>>
  <2>1. /\ Flags(ints) \in Words /\ Selector("cs") \in Words /\ eip \in Words
        /\ d \in Words /\ Number(n) \in Words /\ Pointer("REGS") \in Words
        /\ Address("common_stub") \in Words
    BY <1>0, WordsAre DEF Labels
  <2>2. A \o (IF HasErrorCode(n) THEN <<ErrorCode>> ELSE <<>>)
          \o (IF PushesZero(n) THEN <<Zero>> ELSE <<>>) = A \o <<d>>
    <3>1. CASE HasErrorCode(n)
      <4>1. ~PushesZero(n) /\ d = ErrorCode
        BY <3>1, ErrorCodesAgree
      <4>2. (A \o <<ErrorCode>>) \o <<>> = A \o <<ErrorCode>>
        OBVIOUS
      <4> QED BY <3>1, <4>1, <4>2
    <3>2. CASE ~HasErrorCode(n)
      <4>1. PushesZero(n) /\ d = Zero
        BY <3>2, ErrorCodesAgree
      <4>2. A \o <<>> = A
        OBVIOUS
      <4> QED BY <3>2, <4>1, <4>2
    <3> QED BY <3>1, <3>2
  <2> HIDE DEF d, g, J
  <2>3. PICK F \in Seq(Words) :
          /\ F = A \o <<d>> \o <<Number(n)>> \o g \o <<Pointer("REGS"), Address("common_stub")>>
          /\ Len(F) = 19
          /\ F[1] = Flags(ints) /\ F[2] = Selector("cs") /\ F[3] = eip /\ F[4] = d
          /\ F[5] = Number(n)
          /\ \A i \in 1..12 : F[5 + i] = g[i]
          /\ F[18] = Pointer("REGS") /\ F[19] = Address("common_stub")
    <3> DEFINE a == Flags(ints)
               b == Selector("cs")
               num == Number(n)
               x == Pointer("REGS")
               y == Address("common_stub")
    <3>1. a \in Words /\ b \in Words /\ num \in Words /\ x \in Words /\ y \in Words
      BY <2>1
    <3> HIDE DEF a, b, num, x, y
    <3>2. \E F \in Seq(Words) : IsFrame(F, a, b, eip, d, num, g, x, y)
      BY <1>4, <2>1, <3>1, PushedFrame
    <3> QED BY <3>2 DEF IsFrame, a, b, num, x, y
  <2>4. mem' = [mem EXCEPT ![running] = Push(J, esp, F)] /\ esp' = esp - Len(F)
    BY <2>2, <2>3 DEF Enter, g, J
  <2> QED BY <2>3, <2>4
<1>6. J \in Stacks
  BY <1>0, WordsAre DEF Stacks
<1>7. /\ m = Push(J, esp, F) /\ \A c \in Contexts \ {running} : mem'[c] = mem[c]
      /\ mem' \in [Contexts -> Stacks] <=> Push(J, esp, F) \in Stacks
  BY <1>0, <1>5 DEF TypeOK
<1> HIDE DEF m, g
<1>8. /\ m \in Stacks
      /\ \A i \in esp..Depth : m[i] = J[i]
      /\ \A j \in 1..19 : m[esp - j] = F[j]
  <2>1. esp - Len(F) >= 1
    BY <1>3, <1>5
  <2> HIDE DEF J
  <2>2. /\ Push(J, esp, F) \in Stacks
        /\ \A i \in esp..Depth : Push(J, esp, F)[i] = J[i]
        /\ \A j \in 1..Len(F) : Push(J, esp, F)[esp - j] = F[j]
    BY <1>0, <1>1, <1>6, <2>1, PushedWords
  <2> QED BY <1>5, <1>7, <2>2
<1>9. \A i \in esp..Depth : m[i] = mem[running][i]
  <2>1. \A i \in esp..Depth : i \in 1..Depth /\ ~(i < esp)
    BY <1>0, <1>3
  <2> QED BY <1>8, <2>1
<1> HIDE DEF J
<1>10. f \in Frames /\ f.cpu.esp = esp /\ f.cpu.eip = eip /\ f.cpu.ints = ints /\ f.number = n
  <2>1. [r \in Registers \ {"esp"} |-> regs[r]] \in [Registers \ {"esp"} -> Words]
    BY <1>0
  <2> QED BY <1>0, <2>1 DEF Frames, CPUs, Context
<1>11. f.cpu = Restored(m, esp - 17)
  <2>1. /\ m[esp - 1] = Flags(ints) /\ m[esp - 3] = eip
        /\ \A i \in 1..12 : m[esp - (5 + i)] = regs[Pushed[i]]
    <3>1. 1 \in 1..19 /\ 3 \in 1..19 /\ \A i \in 1..12 : 5 + i \in 1..19
      OBVIOUS
    <3> QED BY <1>5, <1>8, <3>1 DEF g
  <2>2. PICK p \in Int : p = esp - 17
    BY <1>0
  <2>3. p + 14 = esp - 3 /\ p + 16 = esp - 1 /\ p + 17 = esp
        /\ \A i \in 1..12 : p + 12 - i = esp - (5 + i)
    <3>1. esp \in Int /\ p = esp - 17
      BY <1>0, <2>2, Zenon
    <3> QED BY ONLY <3>1
  <2>4. Lie(m, p, regs)
    BY <2>1, <2>3 DEF Lie
  <2>5. \A r \in Registers : Popped(m, p, r) = regs[r]
    BY <2>4, RegistersComeBack
  <2>6. [r \in Registers \ {"esp"} |-> [q \in Registers |-> Popped(m, p, q)][r]]
          = [r \in Registers \ {"esp"} |-> regs[r]]
    BY <2>5
  <2>7. Flags(ints)[2] = ints
    BY DEF Flags
  <2>8. Restored(m, p) = Context(regs, eip, ints, esp)
    BY <2>1, <2>3, <2>6, <2>7 DEF Restored, Context
  <2> QED BY <2>2, <2>8
<1> HIDE DEF f
<1>12. StackInPlace(m, <<f>> \o L, gone, running, 1)
  <2>1. StackInPlace(m, L, gone, running, 1)
    <3> HIDE DEF L
    <3>1. ASSUME NEW i \in 1..Len(L)
          PROVE  L[i].cpu.esp >= esp /\ (i >= 1 => L[i].cpu.esp - 17 >= esp)
      <4>1. L[i].cpu.esp \in Int /\ esp <= L[i].cpu.esp - 18 /\ esp \in Int
        BY <1>0, <1>1
      <4> QED BY ONLY <4>1
    <3> QED BY <1>0, <1>1, <1>9, <3>1, StackKept
  <2>2. Place(m, Waiting(L, 0), gone, running, eip, esp)
    <3>1. Place(mem[running], Waiting(L, 0), gone, running, eip, esp)
      BY <1>2 DEF RunningInPlace
    <3>2. \A h \in Waiting(L, 0) : h.cpu.esp \in Int /\ h.cpu.esp <= Depth + 1
      <4>1. Waiting(L, 0) # {} => 1 \in 1..Len(L) /\ Waiting(L, 0) = {L[1]}
        BY <1>0 DEF Waiting
      <4>2. \A j \in 1..Len(L) : L[j].cpu.esp <= Depth + 1
        BY <1>1 DEF StackInPlace, FrameInPlace
      <4> QED BY <1>1, <4>1, <4>2
    <3>3. esp >= esp
      BY <1>0
    <3> QED BY <1>0, <1>9, <3>1, <3>2, <3>3, PlaceKept
  <2>3. ~Masking /\ running \in Threads => f.cpu.ints = "off"
    BY <1>2, <1>10 DEF RunningInPlace
  <2> HIDE DEF L
  <2> QED BY <1>0, <1>1, <1>10, <1>11, <2>1, <2>2, <2>3, StackGrows
<1>13. /\ running' = running /\ saved' = saved /\ regs' = regs /\ gone' = gone
       /\ eip' = Address("dispatch") /\ ints' = "off"
       /\ left' = [left EXCEPT ![running] = <<f>> \o L]
  BY DEF Enter, Leave, f
<1>14. /\ left'[running] = <<f>> \o L /\ \A c \in Contexts \ {running} : left'[c] = left[c]
       /\ <<f>> \o L \in Seq(Frames) /\ Len(<<f>> \o L) = Len(L) + 1
       /\ (<<f>> \o L)[1] = f /\ \A i \in 1..Len(L) : (<<f>> \o L)[i + 1] = L[i]
       /\ Waiting(<<f>> \o L, 0) = {f}
  <2>1. /\ <<f>> \o L \in Seq(Frames) /\ Len(<<f>> \o L) = Len(L) + 1
        /\ (<<f>> \o L)[1] = f /\ \A i \in 1..Len(L) : (<<f>> \o L)[i + 1] = L[i]
    BY <1>0, <1>10, OneMore
  <2>2. Waiting(<<f>> \o L, 0) = {f}
    BY <1>0, <2>1 DEF Waiting
  <2>3. left'[running] = <<f>> \o L /\ \A c \in Contexts \ {running} : left'[c] = left[c]
    BY <1>0, <1>13 DEF TypeOK
  <2> QED BY <2>1, <2>2, <2>3
<1>15. TypeOK'
  <2>1. left' \in [Contexts -> Seq(Frames)]
    BY <1>0, <1>13, <1>14 DEF TypeOK
  <2>2. mem' \in [Contexts -> Stacks]
    BY <1>7, <1>8
  <2>3. eip' \in Words /\ esp' \in Int
    BY <1>0, <1>5, <1>13, WordsAre DEF Labels
  <2> QED BY <1>0, <1>13, <2>1, <2>2, <2>3 DEF TypeOK
<1>16. ~Switching' /\ ~At("dispatched")'
  BY <1>13 DEF Switching, At, Address
<1>17. RunningInPlace'
  <2>1. InHandler(m, f, running, eip', esp')
    <3>1. m[esp - 19] = Address("common_stub") /\ m[esp - 5] = Number(n)
      BY <1>5, <1>8, SMTT(20)
    <3>2. esp' = esp - 19 /\ esp' + 14 = esp - 5
      BY <1>0, <1>5
    <3> QED BY <1>10, <1>13, <3>1, <3>2, Zenon DEF InHandler
  <2>2. Place(m, Waiting(left'[running], 0), gone, running, eip', esp')
    BY <1>14, <2>1, Zenon DEF Place
  <2>3. Len(left'[running]) <= MaxNested
    BY <1>0, <1>14
  <2> QED BY <1>2, <1>13, <1>16, <2>2, <2>3 DEF RunningInPlace, m
<1>18. StackInPlace(mem'[running], left'[running], gone, running, 1) /\ Len(left'[running]) <= MaxNested + 1
  BY <1>0, <1>12, <1>14 DEF m
<1> QED BY <1>7, <1>13, <1>14, <1>15, <1>16, <1>17, <1>18, OnlyRunningMoves

\* The last frame of thread t is popped, with the stacks as they are in M.
LEMMA FramePopped ==
  ASSUME SwitchAssumption, TypeOK, NEW M \in [Contexts -> Stacks], NEW t \in Contexts, NEW p \in Int,
         \A c \in Contexts : StackInPlace(M[c], left[c], gone, c, 1) /\ Len(left[c]) <= MaxNested + 1,
         Len(left[t]) >= 1, left[t][1].cpu.esp - 17 = p,
         mem' = M, running' = t, gone' = gone, saved' \in [Threads -> Int],
         RestoreAndReturn(M[t], t, p),
         \A u \in Threads \ {t} : Len(left[u]) >= 1 /\ saved'[u] = left[u][1].cpu.esp - 17,
         t \notin gone,
         t = NoThread => gone = {}
  PROVE  /\ IInv'
         /\ left' = [left EXCEPT ![t] = Tail(@)]
         /\ Head(left[t]).cpu = Context(regs', eip', ints', esp')
<1> DEFINE L == left[t]
<1>0. /\ L \in Seq(Frames) /\ Len(L) \in Nat /\ MaxNested \in Nat /\ M[t] \in Stacks
      /\ left \in [Contexts -> Seq(Frames)] /\ regs \in [Registers -> Words]
  BY TypesOf, Sizes DEF TypeOK
<1>1. /\ left' = [left EXCEPT ![t] = Tail(L)]
      /\ left'[t] = Tail(L) /\ \A c \in Contexts \ {t} : left'[c] = left[c]
  BY <1>0 DEF RestoreAndReturn
<1>2. StackInPlace(M[t], L, gone, t, 1) /\ Len(L) >= 1
  OBVIOUS
<1> DEFINE f == L[1]
<1>3. /\ Tail(L) \in Seq(Frames) /\ Len(Tail(L)) = Len(L) - 1
      /\ \A i \in 1..(Len(L) - 1) : Tail(L)[i] = L[i + 1]
      /\ Head(L) = f /\ f \in Frames
  <2> HIDE DEF L
  <2>1. /\ Tail(L) \in Seq(Frames) /\ Len(Tail(L)) = Len(L) - 1
        /\ \A i \in 1..(Len(L) - 1) : Tail(L)[i] = L[i + 1]
        /\ Head(L) = L[1] /\ L[1] \in Frames
    BY <1>0, <1>2, OneLess
  <2> QED BY <2>1
<1>4. f.cpu.esp - 17 = p /\ f.cpu.esp \in Int /\ p + 17 = f.cpu.esp
  BY <1>3, FrameTypes
<1> HIDE DEF L, f
<1>5. /\ StackInPlace(M[t], Tail(L), gone, t, 1)
      /\ Place(M[t], Waiting(Tail(L), 0), gone, t, f.cpu.eip, f.cpu.esp)
      /\ f.cpu = Restored(M[t], p)
  <2>1. /\ StackInPlace(M[t], Tail(L), gone, t, 1)
        /\ Place(M[t], Waiting(Tail(L), 0), gone, t, L[1].cpu.eip, L[1].cpu.esp)
        /\ L[1].cpu = Restored(M[t], L[1].cpu.esp - 17)
    BY <1>0, <1>2, StackShrinks
  <2> QED BY <1>4, <2>1, Zenon DEF f
<1>6. /\ f.cpu = Context(regs', eip', ints', esp')
      /\ eip' = f.cpu.eip /\ ints' = f.cpu.ints /\ esp' = f.cpu.esp
      /\ regs' \in [Registers -> Words]
  BY <1>0, <1>3, <1>5, FrameRestored
<1>7. TypeOK'
  <2>1. left' \in [Contexts -> Seq(Frames)]
    BY <1>0, <1>1, <1>3
  <2>2. eip' \in Words /\ ints' \in {"on", "off"} /\ esp' \in Int
    BY <1>3, <1>6, FrameTypes
  <2> QED BY <1>6, <2>1, <2>2 DEF TypeOK
<1>8. ~Switching'
  <2>1. Place(M[t], Waiting(Tail(L), 0), gone, t, eip', esp')
    BY <1>5, <1>6
  <2>2. ~(eip' \in {Address("threads_low_switch_to"), Address("pushfd"), Address("save_registers")})
    BY <2>1 DEF Place, AtBottom, InHandler, Address
  <2> QED BY <2>2 DEF Switching
<1>9. RunningInPlace'
  <2>1. Place(M[t], Waiting(Tail(L), 0), gone, t, eip', esp')
    BY <1>5, <1>6
  <2>2. Len(Tail(L)) <= MaxNested
    <3>1. Len(L) <= MaxNested + 1
      BY DEF L
    <3> QED BY <1>0, <1>3, <3>1
  <2>3. ~Masking /\ t \in Threads => ints' = "off"
    <3>1. 1 \in 1..Len(L)
      BY <1>0, <1>2
    <3> QED BY <1>2, <1>6, <3>1 DEF StackInPlace, FrameInPlace, f
  <2> QED BY <1>1, <2>1, <2>2, <2>3 DEF RunningInPlace, At
<1>10. OthersWait'
  <2> SUFFICES ASSUME NEW u \in Threads \ {t}
               PROVE  Len(left'[u]) >= 1 /\ saved'[u] = left'[u][1].cpu.esp - 17
    BY DEF OthersWait
  <2>1. left'[u] = left[u]
    BY <1>1 DEF Contexts
  <2> QED BY <2>1
<1>11. ASSUME NEW c \in Contexts
       PROVE  StackInPlace(mem'[c], left'[c], gone', c, 1) /\ Len(left'[c]) <= MaxNested + 1
  <2>1. CASE c = t
    <3>1. Len(L) <= MaxNested + 1
      BY DEF L
    <3> QED BY <1>0, <1>1, <1>3, <1>5, <2>1, <3>1
  <2>2. CASE c # t
    BY <1>1, <2>2
  <2> QED BY <2>1, <2>2
<1>12. IInv'
  BY <1>7, <1>8, <1>9, <1>10, <1>11 DEF IInv
<1> QED BY <1>1, <1>3, <1>6, <1>12 DEF L

LEMMA CommonStubStep ==
  ASSUME SwitchAssumption, IInv, common_stub
  PROVE  /\ IInv'
         /\ left' = [left EXCEPT ![running] = Tail(@)]
         /\ Head(left[running]).cpu = Context(regs', eip', ints', esp')
<1>1. At("common_stub") /\ ~Switching /\ RunningInPlace /\ TypeOK
  BY DEF common_stub, At, Switching, Address, IInv
<1> DEFINE f == left[running][1]
<1>2. /\ Len(left[running]) >= 1 /\ f \in Frames
      /\ InHandler(mem[running], f, running, eip, esp)
  BY <1>1, HandlerRuns
<1> HIDE DEF f
<1>3. f.cpu.esp \in Int /\ esp = f.cpu.esp - 18
  BY <1>1, <1>2, FrameTypes DEF InHandler, At, Address
<1>4. PICK p \in Int : p = esp + 1
  BY <1>3
<1>5. left[running][1].cpu.esp - 17 = p
  BY <1>3, <1>4 DEF f
<1>6. RestoreAndReturn(mem[running], running, p)
  BY <1>4 DEF common_stub
<1>7. PICK t \in Contexts : t = running
  BY <1>1 DEF TypeOK
<1>8. /\ mem' = mem /\ running' = t /\ gone' = gone /\ saved' \in [Threads -> Int]
      /\ mem \in [Contexts -> Stacks]
  BY <1>1, <1>7 DEF common_stub, TypeOK
<1>9. \A c \in Contexts : StackInPlace(mem[c], left[c], gone, c, 1) /\ Len(left[c]) <= MaxNested + 1
  BY <1>1 DEF IInv
<1>10. \A u \in Threads \ {t} : Len(left[u]) >= 1 /\ saved'[u] = left[u][1].cpu.esp - 17
  BY <1>7 DEF common_stub, IInv, OthersWait
<1>11. /\ t \notin gone
       /\ t = NoThread => gone = {}
  BY <1>1, <1>7 DEF RunningInPlace
<1>12. Len(left[t]) >= 1 /\ left[t][1].cpu.esp - 17 = p /\ RestoreAndReturn(mem[t], t, p)
  BY <1>2, <1>5, <1>6, <1>7
<1>13. PICK M \in [Contexts -> Stacks] : M = mem
  BY <1>8
<1>14. /\ \A c \in Contexts : StackInPlace(M[c], left[c], gone, c, 1) /\ Len(left[c]) <= MaxNested + 1
       /\ mem' = M /\ RestoreAndReturn(M[t], t, p)
  BY <1>8, <1>9, <1>12, <1>13
<1>15. /\ IInv' /\ left' = [left EXCEPT ![t] = Tail(@)]
       /\ Head(left[t]).cpu = Context(regs', eip', ints', esp')
  BY <1>1, <1>8, <1>10, <1>11, <1>12, <1>14, FramePopped
<1> QED BY <1>7, <1>15

LEMMA LoadStep ==
  ASSUME SwitchAssumption, IInv, context_load_only
  PROVE  /\ IInv'
         /\ left' = [left EXCEPT ![running'] = Tail(@)]
         /\ Head(left[running']).cpu = Context(regs', eip', ints', esp')
<1>1. At("main") /\ ~Switching /\ RunningInPlace /\ TypeOK /\ OthersWait
  BY DEF context_load_only, At, Switching, Address, IInv
<1>2. AtBottom(mem[running], gone, running, eip, esp)
  BY <1>1, BottomRuns
<1>3. running = NoThread /\ gone = {}
  BY <1>1, <1>2 DEF AtBottom, At, Address, RunningInPlace
<1>4. PICK t \in Threads : running' = t /\ RestoreAndReturn(mem[t], t, saved[t])
  BY DEF context_load_only
<1>5. t \in Contexts /\ t # running /\ t # NoThread /\ saved[t] \in Int
  BY <1>1, <1>3 DEF SwitchAssumption, Contexts, TypeOK
<1>6. Len(left[t]) >= 1 /\ saved[t] = left[t][1].cpu.esp - 17
  BY <1>1, <1>5 DEF OthersWait
<1>7. PICK p \in Int : p = saved[t]
  BY <1>5
<1>8. PICK M \in [Contexts -> Stacks] : M = mem
  BY <1>1 DEF TypeOK
<1>9. /\ \A c \in Contexts : StackInPlace(M[c], left[c], gone, c, 1) /\ Len(left[c]) <= MaxNested + 1
      /\ mem' = M /\ gone' = gone /\ saved' \in [Threads -> Int]
      /\ RestoreAndReturn(M[t], t, p) /\ left[t][1].cpu.esp - 17 = p
  BY <1>1, <1>4, <1>6, <1>7, <1>8 DEF context_load_only, IInv, TypeOK
<1>10. \A u \in Threads \ {t} : Len(left[u]) >= 1 /\ saved'[u] = left[u][1].cpu.esp - 17
  BY <1>1, <1>3 DEF context_load_only, OthersWait, SwitchAssumption
<1>11. /\ t \notin gone
       /\ t = NoThread => gone = {}
  BY <1>3, <1>5
<1>12. /\ IInv' /\ left' = [left EXCEPT ![t] = Tail(@)]
       /\ Head(left[t]).cpu = Context(regs', eip', ints', esp')
  BY <1>1, <1>4, <1>5, <1>6, <1>9, <1>10, <1>11, FramePopped
<1> QED BY <1>4, <1>12

\* Two words are pushed on a stack.
LEMMA TwoPushed ==
  ASSUME SwitchAssumption, NEW m \in Stacks, NEW p \in Int, NEW a \in Words, NEW b \in Words,
         p - 2 >= 1, p <= Depth + 1
  PROVE  /\ Push(m, p, <<a, b>>) \in Stacks
         /\ \A i \in p..Depth : Push(m, p, <<a, b>>)[i] = m[i]
         /\ Push(m, p, <<a, b>>)[p - 1] = a
         /\ Push(m, p, <<a, b>>)[p - 2] = b
<1>1. PICK W \in Seq(Words) : W = <<a, b>> /\ Len(W) = 2 /\ W[1] = a /\ W[2] = b
  <2>1. <<a, b>> \in Seq(Words) /\ Len(<<a, b>>) = 2 /\ <<a, b>>[1] = a /\ <<a, b>>[2] = b
    OBVIOUS
  <2> QED BY <2>1
<1>2. /\ Push(m, p, W) \in Stacks
      /\ \A i \in p..Depth : Push(m, p, W)[i] = m[i]
      /\ \A j \in 1..Len(W) : Push(m, p, W)[p - j] = W[j]
  <2>1. p - Len(W) >= 1
    BY <1>1
  <2> QED BY <2>1, PushedWords
<1>3. 1 \in 1..Len(W) /\ 2 \in 1..Len(W)
  BY <1>1
<1> QED BY <1>1, <1>2, <1>3

\* The running code will find what it needs at label, one word down.
WillGoOn(label, G) ==
  /\ esp - 1 >= Depth - 2 - 20 * Len(left[running]) /\ esp - 1 < Depth
  /\ \A m : (\A i \in esp..Depth : m[i] = mem[running][i])
              => Place(m, Waiting(left[running], 0), G, running, Address(label), esp - 1)

\* threads_low_switch_to is called, by a thread that has terminated or another.
LEMMA CallSwitchToStep ==
  ASSUME SwitchAssumption, IInv, ~Switching, running \in Threads, NEW t \in Threads \ gone',
         NEW label \in {"dispatched", "handled"}, CallSwitchTo(t, label),
         gone' = gone \/ (gone' = gone \union {running} /\ Len(left[running]) = 0),
         WillGoOn(label, gone')
  PROVE  IInv'
<1> DEFINE L == left[running]
           m == mem'[running]
           f == [cpu |-> Context(regs, Address(label), ints', esp - 1), number |-> 0]
<1>0. /\ Depth \in Nat /\ Depth >= 20 * MaxNested + 21 /\ MaxNested \in Nat
      /\ esp \in Int /\ running \in Contexts /\ mem[running] \in Stacks
      /\ L \in Seq(Frames) /\ Len(L) \in Nat
      /\ regs \in [Registers -> Words] /\ eip \in Words /\ ints \in {"on", "off"}
      /\ TypeOK
  BY TypesOf DEF IInv, TypeOK, SwitchAssumption
<1>1. /\ esp >= Depth - 2 - 20 * Len(L) /\ esp <= Depth + 1
      /\ \A j \in 1..Len(L) : L[j].cpu.esp \in Int /\ esp <= L[j].cpu.esp - 18
  BY RunningBounds
<1>2. RunningInPlace /\ Len(L) <= MaxNested
  BY DEF IInv, RunningInPlace
<1>3. esp - 2 >= 1 /\ esp - 19 >= 0
  <2>1. PICK k \in Nat : k = Len(L)
    BY <1>0
  <2>2. /\ esp >= Depth - 2 - 20 * k /\ k <= MaxNested /\ k \in Nat /\ esp \in Int
        /\ Depth \in Nat /\ Depth >= 20 * MaxNested + 21 /\ MaxNested \in Nat
    BY <1>0, <1>1, <1>2, <2>1
  <2> QED BY ONLY <2>2
<1>16. \A c \in Contexts : StackInPlace(mem[c], left[c], gone', c, 1)
  <2>1. \A c \in Contexts : StackInPlace(mem[c], left[c], gone, c, 1)
    BY DEF IInv
  <2>2. CASE gone' = gone
    BY <2>1, <2>2
  <2>3. CASE gone' = gone \union {running} /\ Len(left[running]) = 0
    <3> SUFFICES ASSUME NEW c \in Contexts PROVE StackInPlace(mem[c], left[c], gone', c, 1)
      OBVIOUS
    <3>1. CASE c = running
      BY <2>3, <3>1 DEF StackInPlace
    <3>2. CASE c # running
      BY <2>1, <2>3, <3>2, OthersGoOn
    <3> QED BY <3>1, <3>2
  <2> QED BY <2>2, <2>3
<1>17. StackInPlace(mem[running], L, gone', running, 1) /\ gone' \subseteq Threads
  BY <1>0, <1>16 DEF TypeOK
<1>4. ints' = "off"
  BY <1>2 DEF CallSwitchTo, MaskForSwitch, RunningInPlace, SwitchAssumption
<1>5. /\ running' = running /\ saved' = saved /\ regs' = regs
      /\ eip' = Address("threads_low_switch_to") /\ esp' = esp - 2
      /\ mem' = [mem EXCEPT ![running] = Push(mem[running], esp, <<Pointer(t), Address(label)>>)]
      /\ left' = [left EXCEPT ![running] = <<f>> \o L]
  BY DEF CallSwitchTo, Leave
<1>6. Pointer(t) \in Words /\ Address(label) \in Words
  BY WordsAre DEF Labels
<1>7. /\ m = Push(mem[running], esp, <<Pointer(t), Address(label)>>)
      /\ \A c \in Contexts \ {running} : mem'[c] = mem[c]
      /\ m \in Stacks => mem' \in [Contexts -> Stacks]
  BY <1>0, <1>5 DEF TypeOK
<1>8. /\ m \in Stacks
      /\ \A i \in esp..Depth : m[i] = mem[running][i]
      /\ m[esp - 1] = Pointer(t) /\ m[esp - 2] = Address(label)
  <2> DEFINE x == Pointer(t)
             y == Address(label)
  <2>1. x \in Words /\ y \in Words
    BY <1>6
  <2> HIDE DEF x, y
  <2>2. /\ Push(mem[running], esp, <<x, y>>) \in Stacks
        /\ \A i \in esp..Depth : Push(mem[running], esp, <<x, y>>)[i] = mem[running][i]
        /\ Push(mem[running], esp, <<x, y>>)[esp - 1] = x
        /\ Push(mem[running], esp, <<x, y>>)[esp - 2] = y
    <3>1. PICK p \in Int : p = esp
      BY <1>0
    <3>2. PICK M \in Stacks : M = mem[running]
      BY <1>0
    <3>3. p - 2 >= 1 /\ p <= Depth + 1
      BY <1>1, <1>3, <3>1
    <3>4. /\ Push(M, p, <<x, y>>) \in Stacks
          /\ \A i \in p..Depth : Push(M, p, <<x, y>>)[i] = M[i]
          /\ Push(M, p, <<x, y>>)[p - 1] = x
          /\ Push(M, p, <<x, y>>)[p - 2] = y
      BY <2>1, <3>3, TwoPushed
    <3> QED BY <3>1, <3>2, <3>4
  <2> QED BY <1>7, <2>2 DEF x, y
<1>9. /\ f \in Frames /\ f.cpu.esp = esp - 1 /\ f.cpu.eip = Address(label) /\ f.cpu.ints = "off"
      /\ f.cpu = Context(regs, Address(label), ints', esp - 1)
  <2>1. [r \in Registers \ {"esp"} |-> regs[r]] \in [Registers \ {"esp"} -> Words]
    BY <1>0
  <2> QED BY <1>0, <1>4, <1>6, <2>1 DEF Frames, CPUs, Context
<1> HIDE DEF m, f
<1>18. PICK G : G = gone'
  OBVIOUS
<1>10. StackInPlace(m, <<f>> \o L, gone', running, 2)
  <2>1. StackInPlace(m, L, G, running, 1)
    <3> HIDE DEF L
    <3>0. StackInPlace(mem[running], L, G, running, 1)
      BY <1>17, <1>18
    <3>1. ASSUME NEW i \in 1..Len(L)
          PROVE  L[i].cpu.esp >= esp /\ (i >= 1 => L[i].cpu.esp - 17 >= esp)
      <4>1. L[i].cpu.esp \in Int /\ esp <= L[i].cpu.esp - 18 /\ esp \in Int
        BY <1>0, <1>1
      <4> QED BY ONLY <4>1
    <3> QED BY <1>0, <1>8, <3>0, <3>1, StackKept
  <2>2. Place(m, Waiting(L, 0), G, running, f.cpu.eip, f.cpu.esp)
    BY <1>8, <1>9, <1>18 DEF WillGoOn
  <2>3. ~Masking /\ running \in Threads => f.cpu.ints = "off"
    BY <1>9
  <2> HIDE DEF L
  <2>4. f.cpu.esp >= Depth - 2 - 20 * Len(L)
    BY <1>9 DEF WillGoOn, L
  <2> HIDE DEF L
  <2>5. f.cpu.esp <= Depth + 1 /\ \A j \in 1..Len(L) : f.cpu.esp <= L[j].cpu.esp - 18
    <3>1. esp \in Int /\ Depth \in Int /\ esp <= Depth + 1
      BY <1>0, <1>1
    <3>2. f.cpu.esp = esp - 1
      BY <1>9
    <3>3. f.cpu.esp <= Depth + 1
      BY ONLY <3>1, <3>2
    <3>4. ASSUME NEW j \in 1..Len(L)
          PROVE  f.cpu.esp <= L[j].cpu.esp - 18
      <4>1. L[j].cpu.esp \in Int /\ esp <= L[j].cpu.esp - 18
        BY <1>0, <1>1
      <4> QED BY ONLY <3>1, <3>2, <4>1
    <3> QED BY ONLY <3>3, <3>4
  <2>6. StackInPlace(m, <<f>> \o L, G, running, 2)
    <3>1. SwitchAssumption /\ L \in Seq(Frames) /\ f \in Frames
      BY <1>0, <1>9
    <3> QED BY ONLY <2>1, <2>2, <2>3, <2>4, <2>5, <3>1, StackGrows, SMTT(30)
  <2> QED BY <1>18, <2>6
<1>11. /\ left'[running] = <<f>> \o L /\ \A c \in Contexts \ {running} : left'[c] = left[c]
       /\ <<f>> \o L \in Seq(Frames) /\ Len(<<f>> \o L) = Len(L) + 1
       /\ (<<f>> \o L)[1] = f
  <2>1. /\ <<f>> \o L \in Seq(Frames) /\ Len(<<f>> \o L) = Len(L) + 1
        /\ (<<f>> \o L)[1] = f
    BY <1>0, <1>9, OneMore
  <2>2. left'[running] = <<f>> \o L /\ \A c \in Contexts \ {running} : left'[c] = left[c]
    BY <1>0, <1>5 DEF TypeOK
  <2> QED BY <2>1, <2>2
<1>12. TypeOK'
  <2>1. left' \in [Contexts -> Seq(Frames)]
    BY <1>0, <1>5, <1>11 DEF TypeOK
  <2>2. eip' \in Words /\ esp' \in Int
    BY <1>0, <1>5, WordsAre DEF Labels
  <2> QED BY <1>0, <1>4, <1>5, <1>7, <1>8, <1>17, <2>1, <2>2 DEF TypeOK
<1>13. Switching' /\ At("threads_low_switch_to")'
  BY <1>5 DEF Switching, At
<1>14. SwitchInPlace'
  <2>1. /\ left'[running][1] = f /\ Len(left'[running]) >= 1
    BY <1>0, <1>11
  <2>2. f.cpu.esp = esp - 1 /\ esp - 1 < Depth /\ (esp - 1) - 1 = esp - 2
    BY <1>0, <1>9 DEF WillGoOn
  <2>3. m[f.cpu.esp] = Pointer(t) /\ m[f.cpu.esp - 1] = Address(label) /\ esp' = f.cpu.esp - 1
    BY <1>5, <1>8, <2>2
  <2>4. f.cpu = Context(regs', m[f.cpu.esp - 1], ints', f.cpu.esp)
    BY <1>5, <1>9, <2>3
  <2>5. /\ running' \in Threads /\ ints' = "off" /\ Pointer(t) \in {Pointer(u) : u \in Threads \ gone'}
    BY <1>4, <1>5
  <2> QED BY <1>5, <1>13, <2>1, <2>2, <2>3, <2>4, <2>5 DEF SwitchInPlace, m
<1>15. StackInPlace(mem'[running], left'[running], gone', running, 2)
       /\ Len(left'[running]) <= MaxNested + 1
  BY <1>0, <1>2, <1>10, <1>11 DEF m
<1> QED BY <1>5, <1>7, <1>11, <1>12, <1>13, <1>14, <1>15, <1>16, RunningMoves

LEMMA YieldStep ==
  ASSUME SwitchAssumption, IInv, NEW t \in Threads \ gone, yield(t)
  PROVE  IInv'
<1>0. Depth \in Nat /\ Depth >= 21 /\ esp \in Int
  BY Sizes, TypesOf DEF IInv
<1>1. ~Switching /\ At("function") /\ CallSwitchTo(t, "dispatched") /\ gone' = gone
  BY DEF yield, At, Switching, Address
<1>2. /\ Len(left[running]) = 0 /\ Waiting(left[running], 0) = {}
      /\ AtBottom(mem[running], gone, running, eip, esp)
  BY <1>1, BottomRuns
<1>3. running \in Threads \ gone /\ esp = Depth - 1
      /\ mem[running][Depth - 1] = Address("thread_shutdown")
  BY <1>1, <1>2 DEF AtBottom, At, Address
<1>4. ASSUME NEW m, \A i \in esp..Depth : m[i] = mem[running][i]
      PROVE  Place(m, Waiting(left[running], 0), gone', running, Address("dispatched"), esp - 1)
  <2>1. m[Depth - 1] = Address("thread_shutdown") /\ esp - 1 = Depth - 2
    BY <1>0, <1>3, <1>4
  <2>2. AtBottom(m, gone, running, Address("dispatched"), esp - 1)
    BY <1>3, <2>1, Zenon DEF AtBottom
  <2> QED BY <1>1, <1>2, <2>2, Zenon DEF Place
<1>5. esp - 1 >= Depth - 2 - 20 * Len(left[running]) /\ esp - 1 < Depth
  BY <1>0, <1>2, <1>3
<1>6. WillGoOn("dispatched", gone')
  BY <1>4, <1>5 DEF WillGoOn
<1>7. t \in Threads \ gone'
  BY <1>1
<1> QED BY <1>1, <1>3, <1>6, <1>7, CallSwitchToStep

LEMMA TerminateStep ==
  ASSUME SwitchAssumption, IInv, NEW t \in Threads \ gone, terminate(t)
  PROVE  IInv'
<1>0. Depth \in Nat /\ Depth >= 21 /\ esp \in Int
  BY Sizes, TypesOf DEF IInv
<1>1. /\ ~Switching /\ At("thread_shutdown") /\ CallSwitchTo(t, "dispatched")
      /\ gone' = gone \union {running} /\ t # running
  BY DEF terminate, At, Switching, Address
<1>2. /\ Len(left[running]) = 0 /\ Waiting(left[running], 0) = {}
      /\ AtBottom(mem[running], gone, running, eip, esp)
  BY <1>1, BottomRuns
<1>3. running \in Threads \ gone /\ esp = Depth
  BY <1>1, <1>2 DEF AtBottom, At, Address
<1>4. ASSUME NEW m
      PROVE  Place(m, Waiting(left[running], 0), gone', running, Address("dispatched"), esp - 1)
  <2>1. AtBottom(m, gone', running, Address("dispatched"), esp - 1)
    BY <1>1, <1>3, Zenon DEF AtBottom
  <2> QED BY <1>2, <2>1, Zenon DEF Place
<1>5. esp - 1 >= Depth - 2 - 20 * Len(left[running]) /\ esp - 1 < Depth
  BY <1>0, <1>2, <1>3
<1>6. WillGoOn("dispatched", gone')
  BY <1>4, <1>5 DEF WillGoOn
<1>7. t \in Threads \ gone'
  BY <1>1
<1> QED BY <1>1, <1>2, <1>3, <1>6, <1>7, CallSwitchToStep

LEMMA EndOfQuantumStep ==
  ASSUME SwitchAssumption, IInv, NEW t \in Threads \ gone, EndOfQuantum(t)
  PROVE  IInv'
<1> DEFINE L == left[running]
           f == L[1]
<1>1. ~Switching /\ At("end_of_quantum") /\ CallSwitchTo(t, "handled") /\ gone' = gone
  BY DEF EndOfQuantum, At, Switching, Address
<1>2. /\ Len(L) >= 1 /\ f \in Frames /\ Waiting(L, 0) = {f}
      /\ InHandler(mem[running], f, running, eip, esp)
  BY <1>1, HandlerRuns
<1>3. StackInPlace(mem[running], L, gone, running, 1)
  BY <1>1, RunningBounds
<1>4. Depth \in Nat /\ Len(L) \in Nat /\ f.cpu.esp \in Int
  BY <1>2, Sizes, TypesOf, FrameTypes DEF IInv
<1> HIDE DEF f
<1>5. esp = f.cpu.esp - 19 /\ mem[running][esp] = Address("common_stub") /\ running \in Threads
  BY <1>1, <1>2 DEF InHandler, At, Address
<1>6. f.cpu.esp >= Depth - 2 - 20 * (Len(L) - 1) /\ f.cpu.esp <= Depth + 1
  <2>1. 1 \in 1..Len(L)
    BY <1>2, <1>4
  <2> HIDE DEF L
  <2> QED BY <1>3, <2>1 DEF StackInPlace, FrameInPlace, f
<1>7. esp - 1 >= Depth - 2 - 20 * Len(L) /\ esp - 1 < Depth /\ esp \in Int /\ esp <= Depth
  <2>1. PICK k \in Nat, s \in Int : k = Len(L) /\ s = f.cpu.esp
    BY <1>4
  <2>2. /\ s >= Depth - 2 - 20 * (k - 1) /\ s <= Depth + 1 /\ esp = s - 19
        /\ Depth \in Nat /\ k \in Nat /\ s \in Int
    BY <1>4, <1>5, <1>6, <2>1
  <2>3. esp - 1 >= Depth - 2 - 20 * k /\ esp - 1 < Depth /\ esp \in Int /\ esp <= Depth
    BY ONLY <2>2
  <2> QED BY <2>1, <2>3
<1>8. ASSUME NEW m, \A i \in esp..Depth : m[i] = mem[running][i]
      PROVE  Place(m, Waiting(L, 0), gone, running, Address("handled"), esp - 1)
  <2>1. m[esp] = Address("common_stub")
    BY <1>4, <1>5, <1>7, <1>8
  <2>2. esp - 1 = f.cpu.esp - 20 /\ (esp - 1) + 1 = esp
    BY <1>4, <1>5
  <2>3. InHandler(m, f, running, Address("handled"), esp - 1)
    BY <2>1, <2>2 DEF InHandler
  <2> QED BY <1>2, <2>3, Zenon DEF Place
<1>9. WillGoOn("handled", gone')
  BY <1>1, <1>7, <1>8 DEF WillGoOn
<1>10. t \in Threads \ gone'
  BY <1>1
<1> QED BY <1>1, <1>5, <1>9, <1>10, CallSwitchToStep

\* While threads_low_switch_to works, s is where its frame begins.
LEMMA SwitchBounds ==
  ASSUME SwitchAssumption, IInv, Switching
  PROVE  /\ SwitchInPlace /\ TypeOK /\ running \in Threads /\ ints = "off"
         /\ mem[running] \in Stacks /\ left[running] \in Seq(Frames)
         /\ Len(left[running]) \in Nat /\ Len(left[running]) >= 1
         /\ Len(left[running]) <= MaxNested + 1
         /\ left[running][1] \in Frames
         /\ \E s \in Int :
              /\ s = left[running][1].cpu.esp /\ s >= 19 /\ s < Depth
              /\ \A n : (\A i \in s..Depth : n[i] = mem[running][i])
                        => StackInPlace(n, left[running], gone, running, 2)
<1> DEFINE L == left[running]
<1>1. /\ SwitchInPlace /\ TypeOK /\ running \in Threads /\ ints = "off"
      /\ L \in Seq(Frames) /\ Len(L) \in Nat /\ mem[running] \in Stacks
      /\ Len(L) >= 1 /\ Len(L) <= MaxNested + 1 /\ running \in Contexts
      /\ StackInPlace(mem[running], L, gone, running, 2)
  BY TypesOf DEF IInv, SwitchInPlace
<1>2. L[1].cpu.esp < Depth
  BY DEF IInv, SwitchInPlace
<1> HIDE DEF L
<1>3. 1 \in 1..Len(L) /\ L[1] \in Frames
  BY <1>1
<1>4. PICK s \in Int : s = L[1].cpu.esp
  BY <1>3, FrameTypes
<1>5. /\ L[1].cpu.esp >= Depth - 2 - 20 * (Len(L) - 1)
      /\ \A j \in 2..Len(L) : L[1].cpu.esp <= L[j].cpu.esp - 18
  BY <1>1, <1>3 DEF StackInPlace, FrameInPlace
<1>6. s >= 19
  <2>1. PICK k \in Nat : k = Len(L)
    BY <1>1
  <2>2. /\ s >= Depth - 2 - 20 * (k - 1) /\ k <= MaxNested + 1 /\ k \in Nat /\ s \in Int
        /\ MaxNested \in Nat /\ Depth \in Nat /\ Depth >= 20 * MaxNested + 21
    BY <1>1, <1>4, <1>5, <2>1 DEF SwitchAssumption
  <2> QED BY ONLY <2>2
<1>7. ASSUME NEW n, \A i \in s..Depth : n[i] = mem[running][i]
      PROVE  StackInPlace(n, L, gone, running, 2)
  <2>1. ASSUME NEW i \in 1..Len(L)
        PROVE  L[i].cpu.esp >= s /\ (i >= 2 => L[i].cpu.esp - 17 >= s)
    <3>1. CASE i = 1
      BY <1>4, <3>1
    <3>2. CASE i # 1
      <4>1. i \in 2..Len(L) /\ L[i] \in Frames
        BY <1>1, <3>2
      <4>2. L[i].cpu.esp \in Int /\ s <= L[i].cpu.esp - 18 /\ s \in Int
        BY <1>4, <1>5, <4>1, FrameTypes
      <4> QED BY ONLY <4>2
    <3> QED BY <3>1, <3>2
  <2> QED BY <1>1, <1>7, <2>1, StackKept, 2 \in Nat
<1> QED BY <1>1, <1>2, <1>3, <1>4, <1>6, <1>7 DEF L

LEMMA MoveReturnAddressStep ==
  ASSUME SwitchAssumption, IInv, MoveReturnAddress
  PROVE  IInv'
<1> DEFINE L == left[running]
           M == mem[running]
           m == mem'[running]
           f == L[1]
<1>1. At("threads_low_switch_to") /\ Switching
  BY DEF MoveReturnAddress, At, Switching
<1>2. /\ SwitchInPlace /\ TypeOK /\ running \in Threads /\ ints = "off"
      /\ M \in Stacks /\ L \in Seq(Frames) /\ Len(L) \in Nat /\ Len(L) >= 1
      /\ Len(L) <= MaxNested + 1 /\ f \in Frames
  BY <1>1, SwitchBounds
<1>3. PICK s \in Int :
        /\ s = f.cpu.esp /\ s >= 19 /\ s < Depth
        /\ \A n : (\A i \in s..Depth : n[i] = M[i]) => StackInPlace(n, L, gone, running, 2)
  BY <1>1, SwitchBounds
<1>4. /\ M[s] \in {Pointer(t) : t \in Threads \ gone}
      /\ esp = s - 1 /\ f.cpu = Context(regs, M[s - 1], ints, s)
  BY <1>1, <1>2, <1>3, Zenon DEF SwitchInPlace, At, Address
<1>5. /\ running' = running /\ saved' = saved /\ ints' = ints /\ gone' = gone /\ left' = left
      /\ mem' = [mem EXCEPT ![running] = Push(M, s - 1, <<regs["eax"], M[s - 1]>>)]
      /\ regs' = [regs EXCEPT !["eax"] = M[s - 1]]
      /\ esp' = s /\ eip' = Address("pushfd")
  <2>1. esp = s - 1 /\ esp + 1 = s
    <3>1. esp = s - 1 /\ s \in Int
      BY <1>4, Zenon
    <3> QED BY ONLY <3>1
  <2>2. mem' = [mem EXCEPT ![running] = Push(M, esp, <<regs["eax"], M[esp]>>)]
    BY DEF MoveReturnAddress
  <2> QED BY <2>1, <2>2 DEF MoveReturnAddress
<1>6. Depth \in Nat /\ mem \in [Contexts -> Stacks] /\ regs \in [Registers -> Words]
      /\ running \in Contexts
  BY <1>2, Sizes DEF TypeOK
<1>7. PICK a \in Words, b \in Words : a = regs["eax"] /\ b = M[s - 1]
  <2>1. s - 1 \in 1..Depth
    BY <1>3, <1>6
  <2>2. M[s - 1] \in Words
    BY <1>2, <2>1 DEF Stacks
  <2>3. regs["eax"] \in Words
    BY <1>6, RegisterNames
  <2> QED BY <2>2, <2>3
<1>8. /\ m = Push(M, s - 1, <<a, b>>) /\ \A c \in Contexts \ {running} : mem'[c] = mem[c]
      /\ m \in Stacks => mem' \in [Contexts -> Stacks]
  BY <1>5, <1>6, <1>7
<1> HIDE DEF m
<1>9. /\ m \in Stacks /\ \A i \in (s - 1)..Depth : m[i] = M[i]
      /\ m[s - 2] = a /\ m[s - 3] = b
  <2>1. PICK p \in Int : p = s - 1
    BY <1>3
  <2>2. p - 2 >= 1 /\ p <= Depth + 1 /\ p - 1 = s - 2 /\ p - 2 = s - 3
    BY <1>3, <1>6, <2>1
  <2>3. PICK W \in Stacks : W = M
    BY <1>2
  <2>4. /\ Push(W, p, <<a, b>>) \in Stacks
        /\ \A i \in p..Depth : Push(W, p, <<a, b>>)[i] = W[i]
        /\ Push(W, p, <<a, b>>)[p - 1] = a
        /\ Push(W, p, <<a, b>>)[p - 2] = b
    BY <2>2, TwoPushed
  <2> QED BY <1>8, <2>1, <2>2, <2>3, <2>4
<1>10. StackInPlace(m, L, gone, running, 2) /\ m[s] = M[s]
  <2>1. \A i \in s..Depth : m[i] = M[i]
    BY <1>3, <1>6, <1>9
  <2> QED BY <1>3, <1>6, <2>1
<1>11. f.cpu = Context([regs' EXCEPT !["eax"] = m[s - 2]], m[s - 3], ints', s)
  <2>1. [regs' EXCEPT !["eax"] = a] = regs
    BY <1>5, <1>6, <1>7, RegisterNames
  <2> QED BY <1>4, <1>5, <1>7, <1>9, <2>1
<1>12. TypeOK'
  <2>1. regs' \in [Registers -> Words]
    BY <1>5, <1>6, <1>7
  <2>2. eip' \in Words
    BY <1>5, WordsAre DEF Labels
  <2> QED BY <1>2, <1>3, <1>5, <1>8, <1>9, <2>1, <2>2 DEF TypeOK
<1>13. Switching' /\ At("pushfd")'
  BY <1>5 DEF Switching, At
<1>14. SwitchInPlace'
  BY <1>2, <1>3, <1>4, <1>5, <1>10, <1>11, <1>13 DEF SwitchInPlace, m
<1> QED BY <1>2, <1>5, <1>8, <1>10, <1>12, <1>13, <1>14, OnlyRunningMoves DEF m

LEMMA PushFlagsStep ==
  ASSUME SwitchAssumption, IInv, PushFlags
  PROVE  IInv'
<1> DEFINE L == left[running]
           M == mem[running]
           m == mem'[running]
           f == L[1]
<1>1. At("pushfd") /\ Switching
  BY DEF PushFlags, At, Switching
<1>2. /\ SwitchInPlace /\ TypeOK /\ running \in Threads /\ ints = "off"
      /\ M \in Stacks /\ L \in Seq(Frames) /\ Len(L) \in Nat /\ Len(L) >= 1
      /\ Len(L) <= MaxNested + 1 /\ f \in Frames
  BY <1>1, SwitchBounds
<1>3. PICK s \in Int :
        /\ s = f.cpu.esp /\ s >= 19 /\ s < Depth
        /\ \A n : (\A i \in s..Depth : n[i] = M[i]) => StackInPlace(n, L, gone, running, 2)
  BY <1>1, SwitchBounds
<1>4. /\ M[s] \in {Pointer(t) : t \in Threads \ gone}
      /\ esp = s /\ f.cpu = Context([regs EXCEPT !["eax"] = M[s - 2]], M[s - 3], ints, s)
  BY <1>1, <1>2, <1>3, Zenon DEF SwitchInPlace, At, Address
<1>5. /\ running' = running /\ saved' = saved /\ ints' = ints /\ gone' = gone /\ left' = left
      /\ mem' = [mem EXCEPT ![running][s - 1] = Flags(ints), ![running][s - 2] = Selector("cs")]
      /\ regs' = [regs EXCEPT !["eax"] = M[s - 2]]
      /\ esp' = s - 3 /\ eip' = Address("save_registers")
  BY <1>3, <1>4 DEF PushFlags
<1>6. Depth \in Nat /\ mem \in [Contexts -> Stacks] /\ regs \in [Registers -> Words]
      /\ running \in Contexts
  BY <1>2, Sizes DEF TypeOK
<1>7. M[s - 2] \in Words
  <2>1. s - 2 \in 1..Depth
    BY <1>3, <1>6
  <2> QED BY <1>2, <2>1 DEF Stacks
<1>8. /\ m = [M EXCEPT ![s - 1] = Flags(ints), ![s - 2] = Selector("cs")]
      /\ \A c \in Contexts \ {running} : mem'[c] = mem[c]
      /\ m \in Stacks => mem' \in [Contexts -> Stacks]
  BY <1>5, <1>6
<1> HIDE DEF m
<1>9. /\ m \in Stacks /\ \A i \in s..Depth : m[i] = M[i]
      /\ m[s - 1] = Flags(ints) /\ m[s - 3] = M[s - 3]
  <2>1. Flags(ints) \in Words /\ Selector("cs") \in Words
    BY <1>2, WordsAre
  <2>2. s - 1 \in 1..Depth /\ s - 2 \in 1..Depth /\ s - 3 \in 1..Depth /\ s - 1 # s - 2
        /\ s - 3 # s - 1 /\ s - 3 # s - 2
        /\ \A i \in s..Depth : i \in 1..Depth /\ i # s - 1 /\ i # s - 2
    BY <1>3, <1>6
  <2> QED BY <1>2, <1>8, <2>1, <2>2 DEF Stacks
<1>10. StackInPlace(m, L, gone, running, 2) /\ m[s] = M[s]
  BY <1>3, <1>6, <1>9
<1>11. f.cpu = Context(regs', m[s - 3], ints', s)
  BY <1>4, <1>5, <1>9
<1>12. TypeOK'
  <2>1. regs' \in [Registers -> Words]
    BY <1>5, <1>6, <1>7
  <2>2. eip' \in Words /\ esp' \in Int
    BY <1>3, <1>5, WordsAre DEF Labels
  <2> QED BY <1>2, <1>5, <1>8, <1>9, <2>1, <2>2 DEF TypeOK
<1>13. Switching' /\ At("save_registers")'
  BY <1>5 DEF Switching, At
<1>14. SwitchInPlace'
  BY <1>2, <1>3, <1>4, <1>5, <1>9, <1>10, <1>11, <1>13 DEF SwitchInPlace, m
<1> QED BY <1>2, <1>5, <1>8, <1>10, <1>12, <1>13, <1>14, OnlyRunningMoves DEF m

\* What save_registers pushes, word by word, on top of the flags, the selector
\* and the address: now the frame is complete.
Saved(M, s, R) == Push(M, s - 3, <<Zero, Zero>> \o [i \in 1..12 |-> R[Pushed[i]]])

LEMMA RegistersSaved ==
  ASSUME SwitchAssumption, NEW M \in Stacks, NEW s \in Int, s >= 19, s < Depth,
         NEW R \in [Registers -> Words], NEW on \in {"on", "off"}, M[s - 1] = Flags(on)
  PROVE  /\ Saved(M, s, R) \in Stacks
         /\ \A i \in s..Depth : Saved(M, s, R)[i] = M[i]
         /\ Restored(Saved(M, s, R), s - 17) = Context(R, M[s - 3], on, s)
<1> DEFINE g == [i \in 1..12 |-> R[Pushed[i]]]
           m == Saved(M, s, R)
<1>0. Depth \in Nat
  BY Sizes
<1>1. g \in [1..12 -> Words] /\ g \in Seq(Words) /\ Len(g) = 12
  <2>1. g \in [1..12 -> Words]
    BY RegisterNames
  <2> QED BY <2>1, TwelveWords
<1>2. <<Zero, Zero>> \in Seq(Words) /\ Len(<<Zero, Zero>>) = 2
  BY WordsAre
<1> DEFINE Z == <<Zero, Zero>>
<1> HIDE DEF g, Z
<1>3. PICK W \in Seq(Words) : W = Z \o g
  BY <1>1, <1>2, Joined DEF Z
<1>4. Len(W) = 14 /\ \A i \in 1..12 : W[2 + i] = g[i]
  <2>1. IsJoin(W, Z, g)
    BY <1>1, <1>2, <1>3, Joined DEF Z
  <2> QED BY <1>1, <1>2, <2>1 DEF IsJoin, Z
<1>5. m = Push(M, s - 3, W)
  BY <1>3 DEF Z, Saved, g
<1>6. /\ m \in Stacks /\ \A i \in (s - 3)..Depth : m[i] = M[i]
      /\ \A j \in 1..14 : m[(s - 3) - j] = W[j]
  <2>1. PICK p \in Int : p = s - 3
    OBVIOUS
  <2>2. p - Len(W) >= 1 /\ p <= Depth + 1
    BY <1>0, <1>4, <2>1
  <2>3. /\ Push(M, p, W) \in Stacks
        /\ \A i \in p..Depth : Push(M, p, W)[i] = M[i]
        /\ \A j \in 1..Len(W) : Push(M, p, W)[p - j] = W[j]
    BY <2>2, PushedWords
  <2> QED BY <1>4, <1>5, <2>1, <2>3
<1> HIDE DEF m
<1>7. m[s - 1] = Flags(on) /\ m[s - 3] = M[s - 3] /\ \A i \in s..Depth : m[i] = M[i]
  <2>1. s - 1 \in (s - 3)..Depth /\ s - 3 \in (s - 3)..Depth
        /\ \A i \in s..Depth : i \in (s - 3)..Depth
    BY <1>0
  <2> QED BY <1>6, <2>1
<1>8. PICK p \in Int : p = s - 17
  OBVIOUS
<1>9. Lie(m, p, R)
  <2> SUFFICES ASSUME NEW i \in 1..12 PROVE m[p + 12 - i] = R[Pushed[i]]
    BY DEF Lie
  <2>1. 2 + i \in 1..14 /\ (s - 3) - (2 + i) = p + 12 - i
    BY <1>8
  <2>2. m[p + 12 - i] = W[2 + i]
    BY <1>6, <2>1
  <2> QED BY <1>4, <2>2 DEF g
<1>10. \A r \in Registers : Popped(m, p, r) = R[r]
  BY <1>9, RegistersComeBack
<1>11. [r \in Registers \ {"esp"} |-> [q \in Registers |-> Popped(m, p, q)][r]]
         = [r \in Registers \ {"esp"} |-> R[r]]
  BY <1>10
<1>12. p + 14 = s - 3 /\ p + 16 = s - 1 /\ p + 17 = s /\ Flags(on)[2] = on
  BY <1>8 DEF Flags
<1>13. Restored(m, p) = Context(R, M[s - 3], on, s)
  BY <1>7, <1>11, <1>12 DEF Restored, Context
<1> QED BY <1>6, <1>7, <1>8, <1>13 DEF m

LEMMA SwitchStacksStep ==
  ASSUME SwitchAssumption, IInv, SwitchStacks
  PROVE  /\ IInv'
         /\ left' = [left EXCEPT ![running'] = Tail(@)]
         /\ Head(left[running']).cpu = Context(regs', eip', ints', esp')
<1> DEFINE L == left[running]
           K == mem[running]
           f == L[1]
<1>1. At("save_registers") /\ Switching
  BY DEF SwitchStacks, At, Switching
<1>2. /\ SwitchInPlace /\ TypeOK /\ running \in Threads /\ ints = "off"
      /\ K \in Stacks /\ L \in Seq(Frames) /\ Len(L) \in Nat /\ Len(L) >= 1
      /\ Len(L) <= MaxNested + 1 /\ f \in Frames
  BY <1>1, SwitchBounds
<1>3. PICK s \in Int :
        /\ s = f.cpu.esp /\ s >= 19 /\ s < Depth
        /\ \A n : (\A i \in s..Depth : n[i] = K[i]) => StackInPlace(n, L, gone, running, 2)
  BY <1>1, SwitchBounds
<1>4. /\ K[s] \in {Pointer(t) : t \in Threads \ gone}
      /\ esp = s - 3 /\ f.cpu = Context(regs, K[s - 3], ints, s) /\ K[s - 1] = Flags(ints)
  BY <1>1, <1>2, <1>3, Zenon DEF SwitchInPlace, At, Address
<1>5. PICK t \in Threads \ gone : K[s] = Pointer(t)
  BY <1>4
<1>6. Depth \in Nat /\ mem \in [Contexts -> Stacks] /\ regs \in [Registers -> Words]
      /\ running \in Contexts /\ t \in Contexts /\ t # NoThread
  BY <1>2, Sizes DEF TypeOK, Contexts, SwitchAssumption
<1>7. PICK m \in Stacks :
        /\ m = Push(K, s - 3, <<Zero, Zero>> \o [i \in 1..12 |-> regs[Pushed[i]]])
        /\ \A i \in s..Depth : m[i] = K[i]
        /\ Restored(m, s - 17) = f.cpu
  <2>1. PICK R \in [Registers -> Words] : R = regs
    BY <1>6
  <2>2. PICK W \in Stacks : W = K
    BY <1>2
  <2>3. PICK on \in {"on", "off"} : on = ints
    BY <1>2
  <2>4. W[s - 1] = Flags(on)
    BY <1>4, <2>2, <2>3
  <2> DEFINE m == Saved(W, s, R)
  <2>5. /\ m \in Stacks
        /\ \A i \in s..Depth : m[i] = W[i]
        /\ Restored(m, s - 17) = Context(R, W[s - 3], on, s)
    BY <1>3, <2>4, RegistersSaved
  <2>6. m = Push(K, s - 3, <<Zero, Zero>> \o [i \in 1..12 |-> regs[Pushed[i]]])
    BY <2>1, <2>2 DEF Saved
  <2> HIDE DEF m
  <2> QED BY <1>4, <2>1, <2>2, <2>3, <2>5, <2>6
<1>8. PICK M \in [Contexts -> Stacks] : M = [mem EXCEPT ![running] = m]
  <2>1. [mem EXCEPT ![running] = m] \in [Contexts -> Stacks]
    BY <1>6
  <2> QED BY <2>1
<1>9. M[running] = m /\ \A c \in Contexts \ {running} : M[c] = mem[c]
  BY <1>6, <1>8
<1>10. m[s] = Pointer(t) /\ Pointer(t)[2] = t
  <2>1. s \in s..Depth
    BY <1>3, <1>6
  <2> QED BY <1>5, <1>7, <2>1 DEF Pointer
<1>11. (s - 3) - 14 = s - 17 /\ (s - 17) + 17 = s
  OBVIOUS
<1>12. /\ mem' = M /\ saved' = [saved EXCEPT ![running] = s - 17] /\ running' = t /\ gone' = gone
       /\ RestoreAndReturn(M[t], t, saved'[t])
  <2>1. esp - 14 = s - 17
    BY <1>4, <1>11
  <2>2. [mem EXCEPT ![running] =
          Push(mem[running], esp, <<Zero, Zero>> \o [i \in 1..12 |-> regs[Pushed[i]]])] = M
    BY <1>4, <1>7, <1>8
  <2>3. M[running][(s - 17) + 17][2] = t
    BY <1>9, <1>10, <1>11
  <2> QED BY <2>1, <2>2, <2>3 DEF SwitchStacks
<1>13. saved' \in [Threads -> Int]
  BY <1>2, <1>12 DEF TypeOK
<1>14. \A u \in Threads : Len(left[u]) >= 1 /\ saved'[u] = left[u][1].cpu.esp - 17
  <2> SUFFICES ASSUME NEW u \in Threads
               PROVE  Len(left[u]) >= 1 /\ saved'[u] = left[u][1].cpu.esp - 17
    OBVIOUS
  <2>1. CASE u = running
    BY <1>2, <1>3, <1>12, <2>1 DEF TypeOK
  <2>2. CASE u # running
    BY <1>2, <1>12, <2>2 DEF TypeOK, IInv, OthersWait
  <2> QED BY <2>1, <2>2
<1>15. \A c \in Contexts : StackInPlace(M[c], left[c], gone, c, 1) /\ Len(left[c]) <= MaxNested + 1
  <2> SUFFICES ASSUME NEW c \in Contexts
               PROVE  StackInPlace(M[c], left[c], gone, c, 1) /\ Len(left[c]) <= MaxNested + 1
    OBVIOUS
  <2>1. CASE c = running
    <3>1. StackInPlace(m, L, gone, running, 2)
      BY <1>3, <1>7
    <3>2. L[1].cpu = Restored(m, L[1].cpu.esp - 17)
      BY <1>3, <1>7
    <3>3. StackInPlace(m, L, gone, running, 1)
      <4> HIDE DEF L
      <4> SUFFICES ASSUME NEW i \in 1..Len(L)
                   PROVE  /\ FrameInPlace(m, L, gone, running, i)
                          /\ L[i].cpu = Restored(m, L[i].cpu.esp - 17)
        BY DEF StackInPlace
      <4>1. i = 1 \/ i >= 2
        BY <1>2
      <4> QED BY <3>1, <3>2, <4>1 DEF StackInPlace
    <3> QED BY <1>2, <1>9, <2>1, <3>3
  <2>2. CASE c # running
    BY <1>9, <2>2 DEF IInv
  <2> QED BY <2>1, <2>2
<1>16. PICK p \in Int : p = saved'[t]
  BY <1>13
<1>17. /\ Len(left[t]) >= 1 /\ left[t][1].cpu.esp - 17 = p /\ RestoreAndReturn(M[t], t, p)
       /\ t \notin gone
       /\ t = NoThread => gone = {}
  BY <1>6, <1>12, <1>14, <1>16
<1>18. /\ IInv' /\ left' = [left EXCEPT ![t] = Tail(@)]
       /\ Head(left[t]).cpu = Context(regs', eip', ints', esp')
  BY <1>2, <1>6, <1>12, <1>13, <1>14, <1>15, <1>17, FramePopped
<1> QED BY <1>12, <1>18

----------------------------------------------------------------------------
(* The theorems.                                                            *)

\* In every step, the CPU of a frame that is popped is the CPU that goes on.
GoesOnAsLeft ==
  \A c \in DOMAIN left : Len(left'[c]) < Len(left[c]) =>
    Head(left[c]).cpu = Context(regs', eip', ints', esp')

LEMMA OnePops ==
  ASSUME IInv, NEW t, left' = [left EXCEPT ![t] = Tail(@)],
         Head(left[t]).cpu = Context(regs', eip', ints', esp')
  PROVE  GoesOnAsLeft
<1>1. \A c \in DOMAIN left : c # t => left'[c] = left[c] /\ Len(left[c]) \in Nat
  BY TypesOf DEF IInv, TypeOK
<1> QED BY <1>1 DEF GoesOnAsLeft

LEMMA NonePops ==
  ASSUME IInv, left' = left
  PROVE  GoesOnAsLeft
<1>1. \A c \in DOMAIN left : Len(left[c]) \in Nat
  BY TypesOf DEF IInv, TypeOK
<1> QED BY <1>1 DEF GoesOnAsLeft

LEMMA OneIsLeft ==
  ASSUME IInv, NEW cpu, NEW n, Leave(cpu, n)
  PROVE  GoesOnAsLeft
<1> DEFINE f == [cpu |-> cpu, number |-> n]
<1>1. left \in [Contexts -> Seq(Frames)] /\ running \in Contexts
  BY DEF IInv, TypeOK
<1>2. left' = [left EXCEPT ![running] = <<f>> \o left[running]]
  BY DEF Leave
<1> HIDE DEF f
<1>3. left[running] \in Seq(Frames \union {f}) /\ <<f>> \in Seq(Frames \union {f}) /\ Len(<<f>>) = 1
  BY <1>1
<1>4. Len(<<f>> \o left[running]) = Len(left[running]) + 1 /\ Len(left[running]) \in Nat
  BY <1>3
<1>5. ASSUME NEW c \in DOMAIN left PROVE ~(Len(left'[c]) < Len(left[c]))
  <2>1. CASE c = running
    <3>1. Len(left'[c]) = Len(left[c]) + 1 /\ Len(left[c]) \in Nat
      BY <1>1, <1>2, <1>4, <2>1
    <3> QED BY ONLY <3>1
  <2>2. CASE c # running
    <3>1. left'[c] = left[c] /\ Len(left[c]) \in Nat
      BY <1>1, <1>2, <2>2
    <3> QED BY ONLY <3>1
  <2> QED BY <2>1, <2>2
<1> QED BY <1>5 DEF GoesOnAsLeft

THEOREM NextIInv ==
  ASSUME SwitchAssumption
  PROVE  IInv /\ [Next]_vars => IInv' /\ GoesOnAsLeft
<1> SUFFICES ASSUME IInv, [Next]_vars PROVE IInv' /\ GoesOnAsLeft
  OBVIOUS
<1>1. CASE UNCHANGED vars
  <2>1. /\ running' = running /\ mem' = mem /\ esp' = esp /\ saved' = saved /\ regs' = regs
        /\ eip' = eip /\ ints' = ints /\ gone' = gone /\ left' = left
    BY <1>1 DEF vars, cpuVars
  <2>2. IInv'
    BY <2>1, SMTT(30) DEF IInv, TypeOK, OthersWait, Switching, At, SwitchInPlace, RunningInPlace
  <2> QED BY <2>1, <2>2, NonePops
<1>2. ASSUME NEW n \in Vectors, Interrupt \/ Exception, Enter(n) PROVE IInv' /\ GoesOnAsLeft
  <2>1. ~Switching /\ Len(left[running]) < MaxNested
    BY <1>2 DEF Interrupt, Exception, Switching, At, Address, IInv, SwitchInPlace
  <2>2. IInv'
    BY <1>2, <2>1, EnterStep
  <2>3. GoesOnAsLeft
    BY <1>2, OneIsLeft DEF Enter
  <2> QED BY <2>2, <2>3
<1>3. CASE Interrupt
  BY <1>2, <1>3 DEF Interrupt
<1>4. CASE Exception
  BY <1>2, <1>4 DEF Exception
<1>5. CASE dispatch
  BY <1>5, DispatchStep, NonePops DEF dispatch
<1>6. CASE abort
  BY <1>1, <1>6 DEF abort
<1>7. CASE common_stub
  BY <1>7, CommonStubStep, OnePops
<1>8. CASE context_load_only
  BY <1>8, LoadStep, OnePops
<1>9. CASE thread_start
  BY <1>9, ThreadStep, NonePops DEF thread_start
<1>10. CASE Compute
  BY <1>10, ThreadStep, NonePops DEF Compute
<1>11. CASE function_returns
  BY <1>11, FunctionReturnsStep, NonePops DEF function_returns
<1>12. CASE MoveReturnAddress
  BY <1>12, MoveReturnAddressStep, NonePops DEF MoveReturnAddress
<1>13. CASE PushFlags
  BY <1>13, PushFlagsStep, NonePops DEF PushFlags
<1>14. CASE SwitchStacks
  BY <1>14, SwitchStacksStep, OnePops
<1>15. CASE yield_returns
  BY <1>15, YieldReturnsStep, NonePops DEF yield_returns
<1>16. ASSUME NEW t \in Threads \ gone, yield(t) PROVE IInv' /\ GoesOnAsLeft
  BY <1>16, YieldStep, OneIsLeft DEF yield, CallSwitchTo
<1>18. ASSUME NEW t \in Threads \ gone, terminate(t) PROVE IInv' /\ GoesOnAsLeft
  BY <1>18, TerminateStep, OneIsLeft DEF terminate, CallSwitchTo
<1>19. CASE nobody_is_ready
  BY <1>19, NobodyIsReadyStep, NonePops DEF nobody_is_ready
<1>20. CASE resume
  BY <1>20, ResumeStep, NonePops DEF resume
<1>17. ASSUME NEW t \in Threads \ gone, EndOfQuantum(t) PROVE IInv' /\ GoesOnAsLeft
  BY <1>17, EndOfQuantumStep, OneIsLeft DEF EndOfQuantum, CallSwitchTo
<1> QED
  BY <1>1, <1>3, <1>4, <1>5, <1>6, <1>7, <1>8, <1>9, <1>10, <1>11, <1>12, <1>13, <1>14, <1>15,
     <1>16, <1>17, <1>18, <1>19, <1>20 DEF Next, Switch

\* The stacks of all threads and of main() are always what the code that goes
\* on with them needs: between any two instructions, every frame that an
\* interrupt, an exception, a switch or setup_context has put on a stack is
\* whole, or it is the one that threads_low_switch_to works on.
THEOREM StacksInPlace ==
  ASSUME SwitchAssumption
  PROVE  Spec => []IInv
<1>1. Init => IInv
  BY InitIInv
<1>2. IInv /\ [Next]_vars => IInv'
  BY NextIInv
<1> QED BY <1>1, <1>2, PTL DEF Spec

\* Registers, stack pointers, places and flags always have their types.
THEOREM SwitchTypeCorrect ==
  ASSUME SwitchAssumption
  PROVE  Spec => []TypeOK
<1>1. IInv => TypeOK
  BY DEF IInv
<1> QED BY <1>1, StacksInPlace, PTL

\* The words that iret and ret take for addresses are addresses, and the
\* dispatchers find the number of what occurred: no stub, no setup_context and
\* no switch is off by a word.
THEOREM ReturnsAreWellFormed ==
  ASSUME SwitchAssumption
  PROVE  Spec => []FramesWellFormed
<1>1. ASSUME IInv PROVE FramesWellFormed
  <2>1. CASE Switching
    BY <2>1 DEF Switching, FramesWellFormed, At, Address
  <2>2. CASE ~Switching
    <3>1. eip[1] = "address"
      <4>1. Place(mem[running], Waiting(left[running], 0), gone, running, eip, esp)
        BY <1>1, <2>2 DEF IInv, RunningInPlace
      <4> QED BY <4>1 DEF Place, AtBottom, InHandler, Address
    <3>2. ASSUME At("dispatch") PROVE int_no = Number(Head(left[running]).number)
      <4>1. /\ Len(left[running]) >= 1 /\ InHandler(mem[running], left[running][1], running, eip, esp)
        BY <1>1, <2>2, <3>2, HandlerRuns
      <4>2. mem[running][esp + 14] = Number(left[running][1].number)
        BY <3>2, <4>1 DEF InHandler, At, Address
      <4>3. Head(left[running]) = left[running][1]
        BY <1>1, <4>1, TypesOf DEF IInv
      <4> QED BY <4>2, <4>3 DEF int_no
    <3> QED BY <3>1, <3>2 DEF FramesWellFormed
  <2> QED BY <2>1, <2>2
<1> QED BY <1>1, StacksInPlace, PTL

\* Whoever goes on, after an interrupt, an exception, a switch or for the first
\* time, finds the registers, the stack pointer, the place and the interrupt
\* flag that it left: common_stub, threads_low_switch_to and context_load_only
\* restore what was saved, however deep interrupts and switches nest.
THEOREM ContextsComeBack ==
  ASSUME SwitchAssumption
  PROVE  Spec => ContextsRestored
<1>1. IInv /\ [Next]_vars =>
        [\A c \in DOMAIN left : Len(left'[c]) < Len(left[c]) =>
           Head(left[c]).cpu = Context(regs', eip', ints', esp')]_cpuVars
  BY NextIInv DEF GoesOnAsLeft, vars
<1> QED BY <1>1, StacksInPlace, PTL DEF Spec, ContextsRestored
=============================================================================
