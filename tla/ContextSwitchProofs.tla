------------------------- MODULE ContextSwitchProofs -------------------------
(***************************************************************************)
(* For every quantum and every number of tasks, wherever the timer or a    *)
(* device interrupts: the accounting of processor time is right, return    *)
(* values arrive, and a trap leaves the rest of a task as it was.          *)
(***************************************************************************)
EXTENDS ContextSwitch, SequenceTheorems, TLAPS

-----------------------------------------------------------------------------
(* Processor time.                                                         *)

Modes == {"user", "irq", "svc", "kernel"}

Times ==
  /\ mode \in Modes
  /\ clock \in [timer : 0 .. QUANTUM, mis : BOOLEAN, read : 0 .. QUANTUM]
  /\ last_activate_at \in 0 .. QUANTUM

\* Once the timer has gone off what it shows may be more than it was when the
\* task was activated: but then TIMER_MIS says so, until it has been read.
TimeInv ==
  /\ Times
  /\ mode = "user" => clock.mis \/ clock.timer <= last_activate_at
  /\ mode \in {"irq", "svc"} => clock.mis \/ clock.read <= last_activate_at

LEMMA TimeInit == Init => TimeInv
  BY SwitchAssumption DEF Init, TimeInv, Times, Modes

LEMMA TimeNext == TimeInv /\ [Next]_vars => TimeInv'
<1> SUFFICES ASSUME TimeInv, [Next]_vars PROVE TimeInv'
  OBVIOUS
<1> USE SwitchAssumption DEF TimeInv, Times, Modes
<1>1. CASE UNCHANGED vars
  BY <1>1 DEF vars, switchVars, timeVars
<1>2. CASE UserStep
  BY <1>2 DEF UserStep, Compute, EnterFunction, LeaveFunction, Stub, timeVars
<1>0. clock.timer \in 0 .. QUANTUM /\ clock.mis \in BOOLEAN /\ clock.read \in 0 .. QUANTUM
  OBVIOUS
<1>3. CASE Tick
  <2>1. UNCHANGED <<mode, last_activate_at>>
    BY <1>3 DEF Tick, switchVars
  <2>2. CASE clock.timer = 0
    <3>1. clock' = [clock EXCEPT !.timer = QUANTUM, !.mis = TRUE]
      BY <1>3, <2>2 DEF Tick
    <3>2. QUANTUM \in 0 .. QUANTUM
      OBVIOUS
    <3>3. clock' = [timer |-> QUANTUM, mis |-> TRUE, read |-> clock.read]
      BY <3>1
    <3>4. /\ clock'.mis = TRUE
          /\ clock' \in [timer : 0 .. QUANTUM, mis : BOOLEAN, read : 0 .. QUANTUM]
      BY <3>2, <3>3, <1>0
    <3> QED BY <3>4, <2>1
  <2>3. CASE clock.timer # 0
    <3>1. clock' = [clock EXCEPT !.timer = clock.timer - 1]
      BY <1>3, <2>3 DEF Tick
    <3>2. clock.timer - 1 \in 0 .. QUANTUM /\ clock.timer - 1 <= clock.timer
      BY <1>0, <2>3
    <3>3. /\ clock'.timer = clock.timer - 1 /\ clock'.mis = clock.mis /\ clock'.read = clock.read
          /\ clock' \in [timer : 0 .. QUANTUM, mis : BOOLEAN, read : 0 .. QUANTUM]
      BY <3>1, <3>2
    <3> QED BY <3>2, <3>3, <2>1, <1>0
  <2> QED BY <2>2, <2>3
<1>4. CASE IrqEntry
  <2>1. /\ mode = "user" /\ mode' = "irq" /\ UNCHANGED last_activate_at
        /\ \/ /\ clock.mis
              /\ clock' = [clock EXCEPT !.read = TimeOf(clock.timer), !.mis = FALSE]
           \/ clock' = [clock EXCEPT !.read = TimeOf(clock.timer)]
    BY <1>4 DEF IrqEntry
  <2>2. /\ TimeOf(clock.timer) \in 0 .. QUANTUM
        /\ TimeOf(clock.timer) <= last_activate_at
    BY <1>0, <2>1 DEF TimeOf
  <2> QED BY <2>1, <2>2, <1>0
<1>5. CASE IrqSave
  BY <1>5 DEF IrqSave, SaveTaskState
<1>6. CASE SvcEntry
  BY <1>6 DEF SvcEntry
<1>7. CASE Handler
  <2>1. /\ mode' = "kernel" /\ clock' = [clock EXCEPT !.read = 0]
        /\ UNCHANGED last_activate_at
    BY <1>7 DEF Handler, HandlePass, HandleSend, HandleReceive, HandleReply,
                HandleAwaitEvent, Leave, SaveTaskState
  <2> QED BY <2>1
<1>8. CASE Activate
  <2>1. mode' = "user" /\ clock' = clock /\ last_activate_at' = clock.timer
    BY <1>8 DEF Activate
  <2> QED BY <2>1
<1> QED BY <1>1, <1>2, <1>3, <1>4, <1>5, <1>6, <1>7, <1>8 DEF Next, TrapStep

\* What SaveTaskState adds to used_user_time never wraps and is at most the
\* quantum, at whatever instruction the timer goes off.
THEOREM ChargesStayWithinQuantum == Spec => []ChargeWithinQuantum
<1>1. TimeInv => ChargeWithinQuantum
  BY SwitchAssumption DEF TimeInv, Times, ChargeWithinQuantum, Charge, TimeOf
<1> QED BY <1>1, TimeInit, TimeNext, PTL DEF Spec

-----------------------------------------------------------------------------
(* Registers and stacks.                                                   *)

\* A stack with f frames on top of what the program had on it; the lower of
\* two frames is that of a stub, and the upper one holds the call.
Framed(w, f) ==
  LET n == Len(w)
  IN  /\ n - f * FrameSize <= MaxLocals
      /\ \A i \in 1 .. n : \/ w[i] = Data
                           \/ i = n /\ f >= 1
                           \/ i = n - FrameSize /\ f = 2
                           \/ i = n - 1 /\ f = 2
      /\ f = 2 => w[n - 1] \in Calls

IpcTypes ==
  /\ phase \in [Tasks -> R!Phases]
  /\ inbox \in [Tasks -> Seq(Tasks)]

\* Whoever is on the processor can run; in an interrupt its registers are
\* also on top of its stack.
OnTheCpu ==
  LET w == stack[current]
  IN  mode # "kernel" =>
        /\ Runnable(current)
        /\ mode = "svc" => cpu.pc = "stub"
        /\ mode = "irq" => w[Len(w)] = cpu.r0 /\ w[Len(w) - 1] = cpu.rest

\* The saved sp of a task that waits, for the processor or for something
\* else, points at the top of its stack, and there its return value is.
Held(t) ==
  /\ ~ OnCpu(t) => saved[t].sp = Len(stack[t])
  /\ FrameSize * Frames(t) <= Len(stack[t])
  /\ Runnable(t) => R0(t) = due[t]

Whole(t) ==
  /\ Framed(stack[t], Frames(t))
  /\ OnCpu(t) => IF cpu.pc = "stub" THEN cpu.rest \in Calls ELSE cpu.rest = Data
Kept(t) == Held(t) /\ (t \notin careless => Whole(t))

StackInv == TypeOK /\ IpcTypes /\ OnTheCpu /\ \A t \in Tasks : Kept(t)

\* What is done to the words of a stack.
LEMMA WordsAre ==
  /\ Data \in Words /\ RETURN_STATUS_OK \in Words /\ ERR \in Words
  /\ ERR_COLLECT_DATA \in Words /\ Calls \subseteq Words
  /\ \A t \in Tasks : Size(t) \in Words
BY DEF Words

\* The word on top is overwritten.
LEMMA TopWritten ==
  ASSUME NEW w \in Seq(Words), NEW v \in Words, NEW f \in 1 .. 2,
         FrameSize * f <= Len(w), NEW i, i = Len(w)
  PROVE  /\ i \in DOMAIN w
         /\ [w EXCEPT ![i] = v] \in Seq(Words)
         /\ Len([w EXCEPT ![i] = v]) = Len(w)
         /\ [w EXCEPT ![i] = v][i] = v
         /\ Framed(w, f) => Framed([w EXCEPT ![i] = v], f)
<1> DEFINE x == [w EXCEPT ![i] = v]
<1>1. Len(w) \in Nat /\ i \in 1 .. Len(w) /\ DOMAIN w = 1 .. Len(w)
  BY LenProperties DEF FrameSize
<1>2. /\ x \in Seq(Words) /\ Len(x) = Len(w) /\ x[i] = v
      /\ \A j \in 1 .. Len(w) : j # i => x[j] = w[j]
  BY <1>1, ExceptSeq
<1> HIDE DEF x
<1>3. Framed(w, f) => Framed(x, f)
  BY <1>1, <1>2 DEF Framed, FrameSize
<1> QED BY <1>1, <1>2, <1>3 DEF x

\* A frame is pushed.
LEMMA FramePushed ==
  ASSUME NEW w \in Seq(Words), NEW rest \in Words, NEW r0 \in Words,
         NEW f \in 0 .. 1, FrameSize * f <= Len(w)
  PROVE  /\ w \o <<rest, r0>> \in Seq(Words)
         /\ Len(w \o <<rest, r0>>) = Len(w) + FrameSize
         /\ (w \o <<rest, r0>>)[Len(w) + 2] = r0
         /\ (w \o <<rest, r0>>)[Len(w) + 1] = rest
         /\ Framed(w, f) /\ (IF f = 1 THEN rest \in Calls ELSE rest = Data) =>
              Framed(w \o <<rest, r0>>, f + 1)
<1> DEFINE y == <<rest, r0>>
           x == w \o y
<1>1. Len(w) \in Nat /\ y \in Seq(Words) /\ Len(y) = 2 /\ y[1] = rest /\ y[2] = r0
  BY LenProperties
<1> HIDE DEF y
<1>2. /\ x \in Seq(Words) /\ Len(x) = Len(w) + Len(y)
      /\ \A i \in 1 .. Len(w) + Len(y) :
           x[i] = IF i <= Len(w) THEN w[i] ELSE y[i - Len(w)]
  BY <1>1, ConcatProperties, Zenon
<1> HIDE DEF x
<1>3. x[Len(w) + 2] = r0 /\ x[Len(w) + 1] = rest
  BY <1>1, <1>2
<1>4. \A i \in 1 .. Len(w) : x[i] = w[i]
  BY <1>1, <1>2
<1>5. ASSUME Framed(w, f), IF f = 1 THEN rest \in Calls ELSE rest = Data
      PROVE  Framed(x, f + 1)
  <2>1. Len(x) - (f + 1) * FrameSize <= MaxLocals
    BY <1>1, <1>2, <1>5 DEF Framed, FrameSize
  <2>2. f + 1 = 2 => x[Len(x) - 1] \in Calls
    BY <1>1, <1>2, <1>3, <1>5
  <2>3. ASSUME NEW i \in 1 .. Len(x)
        PROVE  \/ x[i] = Data
               \/ i = Len(x) /\ f + 1 >= 1
               \/ i = Len(x) - FrameSize /\ f + 1 = 2
               \/ i = Len(x) - 1 /\ f + 1 = 2
    <3>1. CASE i <= Len(w)
      BY <3>1, <1>1, <1>2, <1>4, <1>5 DEF Framed, FrameSize
    <3>2. CASE i > Len(w)
      BY <3>2, <1>1, <1>2, <1>3, <1>5
    <3> QED BY <3>1, <3>2, <1>1, <1>2
  <2> QED BY <2>1, <2>2, <2>3 DEF Framed
<1> QED BY <1>1, <1>2, <1>3, <1>5 DEF x, y, FrameSize

\* The frame on top is popped.
LEMMA FramePopped ==
  ASSUME NEW w \in Seq(Words), NEW f \in 1 .. 2, FrameSize * f <= Len(w),
         NEW n, n = Len(w)
  PROVE  /\ SubSeq(w, 1, n - FrameSize) \in Seq(Words)
         /\ Len(SubSeq(w, 1, n - FrameSize)) = n - FrameSize
         /\ w[n] \in Words /\ w[n - 1] \in Words
         /\ Framed(w, f) =>
              /\ Framed(SubSeq(w, 1, n - FrameSize), f - 1)
              /\ IF f = 2 THEN w[n - 1] \in Calls ELSE w[n - 1] = Data
<1> DEFINE x == SubSeq(w, 1, n - 2)
<1>1. n \in Nat /\ 2 * f <= n /\ 1 \in Int /\ n - 2 \in Int
  BY LenProperties DEF FrameSize
<1>2. \A i \in 1 .. n : w[i] \in Words
  BY ElementOfSeq
<1>3. \A i \in 1 .. n - 2 : w[i] \in Words
  BY <1>1, <1>2
<1>4. /\ x \in Seq(Words)
      /\ Len(x) = IF 1 <= n - 2 THEN (n - 2) - 1 + 1 ELSE 0
      /\ \A i \in 1 .. (n - 2) - 1 + 1 : x[i] = w[1 + i - 1]
  <2> DEFINE b == n - 2
  <2>1. b \in Int /\ \A i \in 1 .. b : w[i] \in Words
    BY <1>1, <1>3
  <2> HIDE DEF b
  <2>2. /\ SubSeq(w, 1, b) \in Seq(Words)
        /\ Len(SubSeq(w, 1, b)) = IF 1 <= b THEN b - 1 + 1 ELSE 0
        /\ \A i \in 1 .. b - 1 + 1 : SubSeq(w, 1, b)[i] = w[1 + i - 1]
    BY <1>1, <2>1, SubSeqProperties
  <2> QED BY <2>2 DEF b
<1> HIDE DEF x
<1>5. Len(x) = n - 2 /\ \A i \in 1 .. n - 2 : x[i] = w[i]
  BY <1>1, <1>4
<1>6. w[n] \in Words /\ w[n - 1] \in Words
  BY <1>1, <1>2
<1>7. ASSUME Framed(w, f)
      PROVE  /\ Framed(x, f - 1)
             /\ IF f = 2 THEN w[n - 1] \in Calls ELSE w[n - 1] = Data
  <2>1. Len(x) - (f - 1) * FrameSize <= MaxLocals
    BY <1>1, <1>5, <1>7 DEF Framed, FrameSize
  <2>2. ASSUME NEW i \in 1 .. Len(x)
        PROVE  x[i] = Data \/ (i = Len(x) /\ f - 1 >= 1)
    <3>1. i \in 1 .. n /\ i # n /\ i # n - 1 /\ x[i] = w[i]
      BY <1>1, <1>5
    <3>2. \A j \in 1 .. n : \/ w[j] = Data
                            \/ j = n /\ f >= 1
                            \/ j = n - 2 /\ f = 2
                            \/ j = n - 1 /\ f = 2
      BY <1>7 DEF Framed, FrameSize
    <3>3. w[i] = Data \/ (i = n - 2 /\ f = 2)
      BY <1>1, <3>1, <3>2
    <3> QED BY <3>1, <3>3, <1>5
  <2>3. IF f = 2 THEN w[n - 1] \in Calls ELSE w[n - 1] = Data
    BY <1>1, <1>7 DEF Framed, FrameSize
  <2>4. f - 1 # 2
    OBVIOUS
  <2> QED BY <2>1, <2>2, <2>3, <2>4 DEF Framed
<1> QED BY <1>4, <1>5, <1>6, <1>7 DEF x, FrameSize

-----------------------------------------------------------------------------
LEMMA FramesAre ==
  ASSUME StackInv, NEW t \in Tasks
  PROVE  /\ stack[t] \in Seq(Words) /\ Len(stack[t]) \in Nat
         /\ saved[t].pc \in {"user", "stub"}
         /\ Frames(t) \in 0 .. 2
         /\ ~ OnCpu(t) => Frames(t) \in 1 .. 2 /\ saved[t].sp = Len(stack[t])
         /\ FrameSize * Frames(t) <= Len(stack[t])
<1>1. stack[t] \in Seq(Words) /\ Len(stack[t]) \in Nat
  BY LenProperties DEF StackInv, TypeOK
<1> QED BY <1>1 DEF StackInv, TypeOK, Frames, Kept, Held

\* A task that the step does not touch.
LEMMA Untouched ==
  ASSUME StackInv, NEW t \in Tasks,
         stack'[t] = stack[t], saved'[t] = saved[t], due'[t] = due[t],
         OnCpu(t)' <=> OnCpu(t),
         OnCpu(t) => UNCHANGED cpu /\ (mode' = "irq" <=> mode = "irq"),
         Runnable(t)' => Runnable(t), careless \subseteq careless'
  PROVE  Kept(t)'
<1>1. Frames(t)' = Frames(t)
  BY DEF Frames
<1>2. Held(t)'
  BY <1>1 DEF StackInv, Kept, Held, R0
<1>3. Whole(t) => Whole(t)'
  BY <1>1 DEF Whole, Framed
<1> QED BY <1>2, <1>3 DEF StackInv, Kept

\* A task that waits is given its return value by another one.
LEMMA ValueGiven ==
  ASSUME StackInv, NEW t \in Tasks, NEW v \in Words, ~ OnCpu(t), ~ OnCpu(t)',
         stack' [t] = [stack[t] EXCEPT ![saved[t].sp] = v],
         saved'[t] = saved[t], due'[t] = v, careless \subseteq careless'
  PROVE  Kept(t)' /\ stack'[t] \in Seq(Words)
<1> DEFINE w == stack[t]
           i == saved[t].sp
           f == Frames(t)
<1>1. w \in Seq(Words) /\ f \in 1 .. 2 /\ i = Len(w) /\ FrameSize * f <= Len(w)
  BY FramesAre
<1>2. Frames(t)' = f
  BY DEF Frames
<1> HIDE DEF w, i, f
<1>3. /\ [w EXCEPT ![i] = v] \in Seq(Words)
      /\ Len([w EXCEPT ![i] = v]) = Len(w)
      /\ [w EXCEPT ![i] = v][i] = v
      /\ Framed(w, f) => Framed([w EXCEPT ![i] = v], f)
  BY <1>1, TopWritten
<1>4. stack'[t] = [w EXCEPT ![i] = v] /\ saved'[t].sp = i
  BY DEF w, i
<1>5. Held(t)'
  BY <1>1, <1>2, <1>3, <1>4 DEF Held, R0
<1>6. Whole(t) => Whole(t)'
  BY <1>2, <1>3, <1>4 DEF Whole, Framed, w, f
<1> QED BY <1>3, <1>4, <1>5, <1>6 DEF StackInv, Kept

-----------------------------------------------------------------------------
(* User code works on the running task's stack above the frames.           *)

LEMMA UserFacts ==
  ASSUME StackInv, InUser
  PROVE  /\ current \in Tasks /\ OnCpu(current) /\ Frames(current) = 0
         /\ Runnable(current) /\ cpu.r0 = due[current]
         /\ stack[current] \in Seq(Words) /\ Len(stack[current]) \in Nat
         /\ current \notin careless =>
              cpu.rest = Data /\ Framed(stack[current], 0)
<1>1. current \in Tasks /\ OnCpu(current) /\ Frames(current) = 0
  BY DEF StackInv, TypeOK, InUser, OnCpu, Frames
<1>2. mode # "kernel" /\ cpu.pc # "stub"
  BY DEF InUser
<1>3. Runnable(current) /\ cpu.r0 = due[current]
  BY <1>1, <1>2 DEF StackInv, OnTheCpu, Kept, Held, R0
<1>4. stack[current] \in Seq(Words) /\ Len(stack[current]) \in Nat
  BY <1>1, FramesAre
<1>5. current \notin careless => cpu.rest = Data /\ Framed(stack[current], 0)
  BY <1>1, <1>2 DEF StackInv, Kept, Whole
<1> QED BY <1>1, <1>3, <1>4, <1>5

\* The running task goes on in user mode, the others wait as before.
LEMMA OnlyCurrent ==
  ASSUME StackInv, InUser, mode' = "user",
         UNCHANGED <<phase, inbox, current, saved, awaiting, careless, clock>>,
         stack' = [stack EXCEPT ![current] = stack'[current]],
         stack'[current] \in Seq(Words), cpu' \in [r0 : Words, rest : Words, pc : {"user", "stub"}],
         due' \in [Tasks -> Words], \A t \in Tasks : t # current => due'[t] = due[t],
         Kept(current)'
  PROVE  StackInv'
<1>1. /\ current \in Tasks /\ Runnable(current) /\ stack \in [Tasks -> Seq(Words)]
      /\ mode = "user"
  BY UserFacts DEF StackInv, TypeOK, InUser
<1>2. stack' \in [Tasks -> Seq(Words)] /\ \A t \in Tasks : t # current => stack'[t] = stack[t]
  BY <1>1
<1>3. TypeOK'
  BY <1>1, <1>2 DEF StackInv, TypeOK
<1>4. IpcTypes' /\ OnTheCpu'
  BY <1>1 DEF StackInv, IpcTypes, OnTheCpu, Runnable
<1>5. ASSUME NEW t \in Tasks
      PROVE  Kept(t)'
  <2>1. CASE t = current
    BY <2>1
  <2>2. CASE t # current
    <3>1. ~ OnCpu(t) /\ ~ OnCpu(t)' /\ stack'[t] = stack[t] /\ due'[t] = due[t]
      BY <1>1, <1>2, <2>2 DEF OnCpu
    <3>2. saved'[t] = saved[t] /\ careless \subseteq careless'
          /\ (Runnable(t)' => Runnable(t))
      BY DEF Runnable
    <3> QED BY <3>1, <3>2, Untouched
  <2> QED BY <2>1, <2>2
<1> QED BY <1>3, <1>4, <1>5 DEF StackInv

LEMMA ComputeKept == ASSUME StackInv, Compute PROVE StackInv'
<1>1. /\ InUser /\ cpu' = [cpu EXCEPT !.r0 = Data]
      /\ due' = [due EXCEPT ![current] = Data]
      /\ UNCHANGED <<phase, inbox, mode, current, stack, saved, awaiting, careless, clock>>
  BY DEF Compute, ipcVars, timeVars
<1>2. /\ cpu \in [r0 : Words, rest : Words, pc : {"user", "stub"}]
      /\ due \in [Tasks -> Words] /\ stack \in [Tasks -> Seq(Words)]
      /\ cpu.pc = "user" /\ mode = "user" /\ Data \in Words
  BY <1>1, WordsAre DEF StackInv, TypeOK, InUser
<1>3. /\ cpu' \in [r0 : Words, rest : Words, pc : {"user", "stub"}]
      /\ cpu'.r0 = Data /\ cpu'.rest = cpu.rest /\ cpu'.pc = "user"
      /\ due' \in [Tasks -> Words] /\ due'[current] = Data
      /\ \A t \in Tasks : t # current => due'[t] = due[t]
  BY <1>1, <1>2, UserFacts
<1>4. Frames(current)' = 0 /\ OnCpu(current)'
  BY <1>1, <1>2, <1>3 DEF Frames, OnCpu
<1>5. Held(current)'
  BY <1>1, <1>3, <1>4, UserFacts DEF Held, R0, FrameSize
<1>6. current \notin careless => Whole(current)'
  BY <1>1, <1>3, <1>4, UserFacts DEF Whole
<1>7. stack' = [stack EXCEPT ![current] = stack'[current]] /\ stack'[current] \in Seq(Words)
  BY <1>1, <1>2, UserFacts
<1>8. Kept(current)'
  BY <1>1, <1>5, <1>6 DEF Kept
<1> QED BY <1>1, <1>2, <1>3, <1>7, <1>8, OnlyCurrent

\* The program pushes or pops words of its own.
LEMMA LocalsKept ==
  ASSUME StackInv, InUser, NEW w \in Seq(Words), Len(w) \in Nat,
         Framed(stack[current], 0) => Framed(w, 0),
         stack' = [stack EXCEPT ![current] = w],
         UNCHANGED <<phase, inbox, mode, current, cpu, saved, awaiting, due, careless, clock>>
  PROVE  StackInv'
<1>1. /\ cpu \in [r0 : Words, rest : Words, pc : {"user", "stub"}]
      /\ due \in [Tasks -> Words] /\ stack \in [Tasks -> Seq(Words)]
      /\ cpu.pc = "user" /\ mode = "user"
  BY DEF StackInv, TypeOK, InUser
<1>2. stack'[current] = w
  BY <1>1, UserFacts
<1>3. Frames(current)' = 0 /\ OnCpu(current)' /\ R0(current)' = cpu.r0
  BY <1>1 DEF Frames, OnCpu, R0
<1>4. Held(current)'
  BY <1>2, <1>3, UserFacts DEF Held, FrameSize
<1>5. current \notin careless => Whole(current)'
  BY <1>1, <1>2, <1>3, UserFacts DEF Whole
<1>6. Kept(current)'
  BY <1>4, <1>5 DEF Kept
<1> QED BY <1>1, <1>2, <1>6, OnlyCurrent

LEMMA EnterFunctionKept == ASSUME StackInv, EnterFunction PROVE StackInv'
<1> DEFINE old == stack[current]
           y == <<Data>>
           w == old \o y
<1>1. /\ InUser /\ Len(old) < MaxLocals /\ stack' = [stack EXCEPT ![current] = w]
      /\ UNCHANGED <<phase, inbox, mode, current, cpu, saved, awaiting, due, careless, clock>>
  BY DEF EnterFunction, ipcVars, timeVars, Push
<1>2. old \in Seq(Words) /\ Len(old) \in Nat
  BY <1>1, UserFacts
<1>3. y \in Seq(Words) /\ Len(y) = 1 /\ y[1] = Data
  BY WordsAre
<1> HIDE DEF old, y
<1>4. /\ w \in Seq(Words) /\ Len(w) = Len(old) + Len(y)
      /\ \A i \in 1 .. Len(old) + Len(y) :
           w[i] = IF i <= Len(old) THEN old[i] ELSE y[i - Len(old)]
  BY <1>2, <1>3, ConcatProperties, Zenon
<1> HIDE DEF w
<1>5. Framed(old, 0) => Framed(w, 0)
  BY <1>1, <1>2, <1>3, <1>4, SwitchAssumption DEF Framed, FrameSize
<1>6. Len(w) \in Nat /\ (Framed(stack[current], 0) => Framed(w, 0))
  BY <1>2, <1>3, <1>4, <1>5 DEF old
<1> QED BY <1>1, <1>4, <1>6, LocalsKept

LEMMA LeaveFunctionKept == ASSUME StackInv, LeaveFunction PROVE StackInv'
<1> DEFINE old == stack[current]
           n == Len(old) - 1
           w == SubSeq(old, 1, n)
<1>1. /\ InUser /\ old # <<>> /\ stack' = [stack EXCEPT ![current] = w]
      /\ UNCHANGED <<phase, inbox, mode, current, cpu, saved, awaiting, due, careless, clock>>
  BY DEF LeaveFunction, ipcVars, timeVars, Front
<1>2. old \in Seq(Words) /\ Len(old) \in Nat /\ Len(old) > 0
  BY <1>1, UserFacts, EmptySeq
<1> HIDE DEF old
<1>3. n \in Nat /\ n < Len(old) /\ 1 \in Int /\ \A i \in 1 .. n : old[i] \in Words
  BY <1>2, ElementOfSeq
<1> HIDE DEF n
<1>4. /\ w \in Seq(Words)
      /\ Len(w) = IF 1 <= n THEN n - 1 + 1 ELSE 0
      /\ \A i \in 1 .. n - 1 + 1 : w[i] = old[1 + i - 1]
  BY <1>3, SubSeqProperties
<1> HIDE DEF w
<1>5. Len(w) = n /\ \A i \in 1 .. n : w[i] = old[i]
  BY <1>3, <1>4
<1>6. Framed(old, 0) => Framed(w, 0)
  BY <1>2, <1>3, <1>5, SwitchAssumption DEF Framed, FrameSize
<1> QED BY <1>1, <1>3, <1>4, <1>5, <1>6, LocalsKept DEF old

LEMMA StubKept == ASSUME StackInv, Stub PROVE StackInv'
<1> DEFINE old == stack[current]
           w == old \o Frame
<1>1. PICK call \in Calls : cpu' = [cpu EXCEPT !.rest = call, !.pc = "stub"]
  BY DEF Stub
<1>2. /\ InUser /\ stack' = [stack EXCEPT ![current] = w]
      /\ UNCHANGED <<phase, inbox, mode, current, saved, awaiting, due, careless, clock>>
  BY DEF Stub, ipcVars, timeVars, Push
<1>3. /\ cpu \in [r0 : Words, rest : Words, pc : {"user", "stub"}]
      /\ due \in [Tasks -> Words] /\ stack \in [Tasks -> Seq(Words)]
      /\ mode = "user" /\ call \in Words
  BY <1>2, WordsAre DEF StackInv, TypeOK, InUser
<1>4. /\ cpu' \in [r0 : Words, rest : Words, pc : {"user", "stub"}]
      /\ cpu'.rest = call /\ cpu'.pc = "stub" /\ cpu'.r0 = cpu.r0
  BY <1>1, <1>3
<1>5. old \in Seq(Words) /\ Len(old) \in Nat
  BY <1>2, UserFacts
<1> HIDE DEF old
<1>6. /\ w \in Seq(Words) /\ Len(w) = Len(old) + FrameSize
      /\ Framed(old, 0) /\ cpu.rest = Data => Framed(w, 1)
  <2> DEFINE a == cpu.rest
             b == cpu.r0
             f == 0
  <2>1. a \in Words /\ b \in Words /\ f \in 0 .. 1 /\ FrameSize * f <= Len(old)
    BY <1>3, <1>5 DEF FrameSize
  <2> HIDE DEF a, b, f
  <2>2. /\ old \o <<a, b>> \in Seq(Words) /\ Len(old \o <<a, b>>) = Len(old) + FrameSize
        /\ Framed(old, f) /\ (IF f = 1 THEN a \in Calls ELSE a = Data) =>
             Framed(old \o <<a, b>>, f + 1)
    BY <1>5, <2>1, FramePushed
  <2>3. f = 0 /\ f + 1 = 1 /\ f # 1
    BY DEF f
  <2> QED BY <2>2, <2>3 DEF a, b, Frame
<1> HIDE DEF w
<1>7. stack'[current] = w
  BY <1>2, <1>3, UserFacts
<1>8. Frames(current)' = 1 /\ OnCpu(current)' /\ R0(current)' = cpu.r0
  BY <1>2, <1>3, <1>4 DEF Frames, OnCpu, R0
<1>9. Held(current)'
  BY <1>2, <1>5, <1>6, <1>7, <1>8, UserFacts DEF Held, FrameSize
<1>10. current \notin careless => Whole(current)'
  BY <1>2, <1>4, <1>6, <1>7, <1>8, UserFacts DEF Whole, old
<1>11. Kept(current)'
  BY <1>2, <1>9, <1>10 DEF Kept
<1> QED BY <1>2, <1>3, <1>4, <1>6, <1>7, <1>11, OnlyCurrent

-----------------------------------------------------------------------------
(* Traps.                                                                  *)

LEMMA TickKept == ASSUME StackInv, Tick PROVE StackInv'
<1>1. UNCHANGED <<phase, inbox, mode, current, cpu, stack, saved, awaiting, due, careless>>
  BY DEF Tick, ipcVars, switchVars
<1>2. clock' \in [timer : 0 .. QUANTUM, mis : BOOLEAN, read : 0 .. QUANTUM]
  <2>1. clock \in [timer : 0 .. QUANTUM, mis : BOOLEAN, read : 0 .. QUANTUM]
    BY DEF StackInv, TypeOK
  <2>2. CASE clock.timer = 0
    <3>1. clock' = [clock EXCEPT !.timer = QUANTUM, !.mis = TRUE]
      BY <2>2 DEF Tick
    <3>2. QUANTUM \in 0 .. QUANTUM
      BY SwitchAssumption
    <3>3. clock' = [timer |-> QUANTUM, mis |-> TRUE, read |-> clock.read]
      BY <2>1, <3>1
    <3> QED BY <2>1, <3>2, <3>3
  <2>3. CASE clock.timer # 0
    <3>1. clock' = [clock EXCEPT !.timer = clock.timer - 1]
      BY <2>3 DEF Tick
    <3>2. clock.timer - 1 \in 0 .. QUANTUM
      BY <2>1, <2>3, SwitchAssumption
    <3> QED BY <2>1, <3>1, <3>2
  <2> QED BY <2>2, <2>3
<1>3. TypeOK' /\ IpcTypes' /\ OnTheCpu'
  BY <1>1, <1>2 DEF StackInv, TypeOK, IpcTypes, OnTheCpu, Runnable
<1>4. \A t \in Tasks : Kept(t)'
  BY <1>1 DEF StackInv, Kept, Held, Whole, Framed, Frames, OnCpu, R0, Runnable
<1> QED BY <1>3, <1>4 DEF StackInv

LEMMA SvcEntryKept == ASSUME StackInv, SvcEntry PROVE StackInv'
<1>1. /\ UNCHANGED <<phase, inbox, current, cpu, stack, saved, awaiting, due, careless>>
      /\ mode = "user" /\ mode' = "svc" /\ cpu.pc = "stub"
      /\ clock' = [clock EXCEPT !.read = clock.timer]
  BY DEF SvcEntry, ipcVars
<1>2. TypeOK' /\ IpcTypes' /\ OnTheCpu'
  BY <1>1 DEF StackInv, TypeOK, IpcTypes, OnTheCpu, Runnable
<1>3. ASSUME NEW t \in Tasks
      PROVE  Kept(t)'
  <2>1. /\ OnCpu(t)' <=> OnCpu(t)
        /\ OnCpu(t) => UNCHANGED cpu /\ (mode' = "irq" <=> mode = "irq")
        /\ Runnable(t)' => Runnable(t)
        /\ careless \subseteq careless'
        /\ stack'[t] = stack[t] /\ saved'[t] = saved[t] /\ due'[t] = due[t]
    BY <1>1 DEF OnCpu, Runnable
  <2> QED BY <2>1, Untouched
<1> QED BY <1>2, <1>3 DEF StackInv

\* The frame that irq_entry has pushed is what the task resumes from.
LEMMA IrqSaveKept == ASSUME StackInv, IrqSave PROVE StackInv'
<1> DEFINE w == stack[current]
<1>1. /\ UNCHANGED <<phase, inbox, current, cpu, stack, awaiting, due, careless>>
      /\ mode = "irq" /\ mode' = "kernel"
      /\ saved' = [saved EXCEPT ![current] = [sp |-> Len(w), pc |-> cpu.pc]]
      /\ clock' = [clock EXCEPT !.read = 0]
  BY DEF IrqSave, SaveTaskState, ipcVars
<1>2. /\ current \in Tasks /\ w \in Seq(Words) /\ Len(w) \in Nat
      /\ FrameSize * Frames(current) <= Len(w)
      /\ cpu.pc \in {"user", "stub"} /\ OnCpu(current)
      /\ saved \in [Tasks -> [sp : Nat, pc : {"user", "stub"}]]
      /\ Runnable(current) /\ w[Len(w)] = cpu.r0
  BY <1>1, FramesAre DEF StackInv, TypeOK, OnCpu, OnTheCpu
<1>3. /\ saved'[current] = [sp |-> Len(w), pc |-> cpu.pc]
      /\ saved' \in [Tasks -> [sp : Nat, pc : {"user", "stub"}]]
      /\ \A t \in Tasks : t # current => saved'[t] = saved[t]
  BY <1>1, <1>2
<1>4. TypeOK'
  <2>1. clock' \in [timer : 0 .. QUANTUM, mis : BOOLEAN, read : 0 .. QUANTUM]
    <3>1. clock \in [timer : 0 .. QUANTUM, mis : BOOLEAN, read : 0 .. QUANTUM]
      BY DEF StackInv, TypeOK
    <3>2. 0 \in 0 .. QUANTUM
      BY SwitchAssumption
    <3> QED BY <1>1, <3>1, <3>2
  <2> QED BY <1>1, <1>3, <2>1 DEF StackInv, TypeOK
<1>5. IpcTypes' /\ OnTheCpu'
  BY <1>1 DEF StackInv, IpcTypes, OnTheCpu
<1>6. ASSUME NEW t \in Tasks, t # current
      PROVE  Kept(t)'
  <2>1. ~ OnCpu(t)' /\ ~ OnCpu(t)
    BY <1>1, <1>6 DEF OnCpu
  <2>2. /\ Runnable(t)' => Runnable(t)
        /\ careless \subseteq careless'
        /\ stack'[t] = stack[t] /\ saved'[t] = saved[t] /\ due'[t] = due[t]
    BY <1>1, <1>3, <1>6 DEF Runnable
  <2> QED BY <2>1, <2>2, Untouched
<1>7. Kept(current)'
  <2>1. Frames(current)' = Frames(current)
    BY <1>1, <1>2, <1>3 DEF Frames, OnCpu
  <2>2. ~ OnCpu(current)' /\ R0(current)' = cpu.r0
    BY <1>1, <1>2, <1>3 DEF OnCpu, R0
  <2>3. R0(current) = cpu.r0 /\ R0(current) = due[current]
    BY <1>2 DEF R0, StackInv, Kept, Held
  <2>4. Held(current)'
    BY <1>1, <1>2, <1>3, <2>1, <2>2, <2>3 DEF Held
  <2>5. Whole(current) => Whole(current)'
    BY <1>1, <2>1, <2>2 DEF Whole, Framed
  <2> QED BY <1>1, <1>2, <2>4, <2>5 DEF Kept, StackInv
<1>8. \A t \in Tasks : Kept(t)'
  <2> SUFFICES ASSUME NEW t \in Tasks PROVE Kept(t)'
    OBVIOUS
  <2>1. current' = current /\ (t = current \/ t # current)
    BY <1>1
  <2> QED BY <1>1, <1>6, <1>7, <2>1 DEF Kept, Held, Whole, Framed, Frames, R0, OnCpu, Runnable
<1> QED BY <1>4, <1>5, <1>8 DEF StackInv

\* SetTaskReturnValue for a task that waits, as the handlers use it.
LEMMA GivesValue ==
  ASSUME StackInv, NEW t \in Tasks, ~ OnCpu(t), NEW v \in Words,
         NEW st \in [Tasks -> Seq(Words)], st[t] = stack[t]
  PROVE  /\ SetTaskReturnValue(st, t, v) =
              [st EXCEPT ![t] = [stack[t] EXCEPT ![saved[t].sp] = v]]
         /\ SetTaskReturnValue(st, t, v) \in [Tasks -> Seq(Words)]
<1> DEFINE w == stack[t]
           i == saved[t].sp
           f == Frames(t)
<1>1. w \in Seq(Words) /\ f \in 1 .. 2 /\ i = Len(w) /\ FrameSize * f <= Len(w)
  BY FramesAre
<1> HIDE DEF w, i, f
<1>2. i \in DOMAIN w /\ [w EXCEPT ![i] = v] \in Seq(Words)
  BY <1>1, TopWritten
<1>3. st[t] = w
  BY DEF w
<1>4. SetTaskReturnValue(st, t, v) = [st EXCEPT ![t][i] = v]
  BY <1>2, <1>3 DEF SetTaskReturnValue, i
<1>5. [st EXCEPT ![t][i] = v] = [st EXCEPT ![t] = [w EXCEPT ![i] = v]]
  BY <1>3
<1> QED BY <1>2, <1>4, <1>5 DEF w, i

LEMMA IrqEntryKept == ASSUME StackInv, IrqEntry PROVE StackInv'
<1> DEFINE old == stack[current]
           w == old \o Frame
           f == Frames(current)
           pushed == [stack EXCEPT ![current] = w]
<1>1. /\ mode = "user" /\ mode' = "irq"
      /\ UNCHANGED <<phase, inbox, current, cpu, saved, careless>>
      /\ \/ UnblockTaskWaitingOnEvent(pushed)
         \/ stack' = pushed /\ UNCHANGED <<awaiting, due>>
  BY DEF IrqEntry, ipcVars
<1>2. clock' \in [timer : 0 .. QUANTUM, mis : BOOLEAN, read : 0 .. QUANTUM]
  <2>1. /\ clock \in [timer : 0 .. QUANTUM, mis : BOOLEAN, read : 0 .. QUANTUM]
    BY DEF StackInv, TypeOK
  <2>2. TimeOf(clock.timer) \in 0 .. QUANTUM
    BY <2>1, SwitchAssumption DEF TimeOf
  <2>3. \/ clock' = [clock EXCEPT !.read = TimeOf(clock.timer), !.mis = FALSE]
        \/ clock' = [clock EXCEPT !.read = TimeOf(clock.timer)]
    BY DEF IrqEntry
  <2> QED BY <2>1, <2>2, <2>3
<1>3. /\ cpu \in [r0 : Words, rest : Words, pc : {"user", "stub"}]
      /\ due \in [Tasks -> Words] /\ stack \in [Tasks -> Seq(Words)]
      /\ current \in Tasks /\ OnCpu(current) /\ Runnable(current)
      /\ awaiting \subseteq Tasks
  BY <1>1 DEF StackInv, TypeOK, OnCpu, OnTheCpu
<1>4. f = IF cpu.pc = "stub" THEN 1 ELSE 0
  BY <1>1, <1>3 DEF Frames
<1>5. old \in Seq(Words) /\ Len(old) \in Nat /\ FrameSize * f <= Len(old)
  BY <1>3, FramesAre
<1> HIDE DEF old, f
<1>6. /\ w \in Seq(Words) /\ Len(w) = Len(old) + FrameSize
      /\ w[Len(w)] = cpu.r0 /\ w[Len(w) - 1] = cpu.rest
      /\ Framed(old, f) /\ (IF f = 1 THEN cpu.rest \in Calls ELSE cpu.rest = Data) =>
           Framed(w, f + 1)
  <2> DEFINE a == cpu.rest
             b == cpu.r0
  <2>1. a \in Words /\ b \in Words /\ f \in 0 .. 1
    BY <1>3, <1>4
  <2> HIDE DEF a, b
  <2>2. /\ old \o <<a, b>> \in Seq(Words) /\ Len(old \o <<a, b>>) = Len(old) + FrameSize
        /\ (old \o <<a, b>>)[Len(old) + 2] = b
        /\ (old \o <<a, b>>)[Len(old) + 1] = a
        /\ Framed(old, f) /\ (IF f = 1 THEN a \in Calls ELSE a = Data) =>
             Framed(old \o <<a, b>>, f + 1)
    BY <1>5, <2>1, FramePushed
  <2>3. old \o <<a, b>> = w
    BY DEF a, b, Frame
  <2>4. Len(old) + FrameSize = Len(old) + 2 /\ (Len(old) + FrameSize) - 1 = Len(old) + 1
    BY <1>5 DEF FrameSize
  <2> QED BY <2>2, <2>3, <2>4 DEF a, b
<1> HIDE DEF w
<1>7. /\ pushed \in [Tasks -> Seq(Words)] /\ pushed[current] = w
      /\ \A t \in Tasks : t # current => pushed[t] = stack[t]
  BY <1>3, <1>6
<1> HIDE DEF pushed
\* At most one task that waits for an event is given its return value.
<1>8. /\ stack' \in [Tasks -> Seq(Words)] /\ stack'[current] = w
      /\ awaiting' \subseteq awaiting /\ due' \in [Tasks -> Words]
      /\ due'[current] = due[current]
      /\ \A t \in Tasks : t # current =>
           \/ /\ stack'[t] = stack[t] /\ due'[t] = due[t]
              /\ t \in awaiting => t \in awaiting'
           \/ /\ stack'[t] = [stack[t] EXCEPT ![saved[t].sp] = ERR_COLLECT_DATA]
              /\ due'[t] = ERR_COLLECT_DATA
  <2>1. CASE stack' = pushed /\ UNCHANGED <<awaiting, due>>
    BY <1>3, <1>7, <2>1
  <2>2. CASE UnblockTaskWaitingOnEvent(pushed)
    <3>1. PICK e \in awaiting :
            /\ stack' = SetTaskReturnValue(pushed, e, ERR_COLLECT_DATA)
            /\ awaiting' = awaiting \ {e}
            /\ due' = [due EXCEPT ![e] = ERR_COLLECT_DATA]
      BY <2>2 DEF UnblockTaskWaitingOnEvent
    <3>2. e \in Tasks /\ e # current /\ ~ OnCpu(e) /\ ERR_COLLECT_DATA \in Words
      BY <1>3, WordsAre DEF Runnable, OnCpu
    <3>3. /\ stack' = [pushed EXCEPT ![e] = [stack[e] EXCEPT ![saved[e].sp] = ERR_COLLECT_DATA]]
          /\ stack' \in [Tasks -> Seq(Words)]
      BY <1>7, <3>1, <3>2, GivesValue
    <3> QED BY <1>3, <1>7, <3>1, <3>2, <3>3
  <2> QED BY <1>1, <2>1, <2>2
<1>9. TypeOK'
  BY <1>1, <1>2, <1>3, <1>8 DEF StackInv, TypeOK
<1>10. IpcTypes' /\ OnTheCpu'
  BY <1>1, <1>3, <1>6, <1>8 DEF StackInv, IpcTypes, OnTheCpu, Runnable
<1>11. ASSUME NEW t \in Tasks, t # current
       PROVE  Kept(t)'
  <2>1. ~ OnCpu(t) /\ ~ OnCpu(t)' /\ saved'[t] = saved[t] /\ careless \subseteq careless'
    BY <1>1, <1>11 DEF OnCpu
  <2>2. CASE /\ stack'[t] = stack[t] /\ due'[t] = due[t]
             /\ t \in awaiting => t \in awaiting'
    <3>1. Runnable(t)' => Runnable(t)
      BY <1>1, <2>2 DEF Runnable
    <3> QED BY <2>1, <2>2, <3>1, Untouched
  <2>3. CASE /\ stack'[t] = [stack[t] EXCEPT ![saved[t].sp] = ERR_COLLECT_DATA]
             /\ due'[t] = ERR_COLLECT_DATA
    BY <2>1, <2>3, WordsAre, ValueGiven
  <2> QED BY <1>8, <1>11, <2>2, <2>3
<1>12. Kept(current)'
  <2>1. /\ Frames(current)' = f + 1 /\ OnCpu(current)'
        /\ R0(current)' = cpu.r0 /\ R0(current) = cpu.r0
    BY <1>1, <1>3, <1>4 DEF Frames, OnCpu, R0
  <2>2. Runnable(current)' => cpu.r0 = due'[current]
    BY <1>3, <1>8, <2>1 DEF StackInv, Kept, Held
  <2>3. Held(current)'
    <3>1. FrameSize * (f + 1) <= Len(w)
      BY <1>4, <1>5, <1>6 DEF FrameSize
    <3>2. stack'[current] = w /\ Frames(current)' = f + 1 /\ R0(current)' = cpu.r0 /\ OnCpu(current)'
      BY <1>8, <2>1
    <3>3. FrameSize * Frames(current)' <= Len(stack'[current])
      BY <3>1, <3>2
    <3>4. current' = current
      BY <1>1
    <3> QED BY <2>2, <3>2, <3>3, <3>4 DEF Held
  <2>4. Whole(current) => Whole(current)'
    <3>1. ASSUME Whole(current)
          PROVE  /\ Framed(old, f)
                 /\ IF cpu.pc = "stub" THEN cpu.rest \in Calls ELSE cpu.rest = Data
      BY <1>3, <3>1 DEF Whole, old, f
    <3>2. Whole(current) => Framed(w, f + 1)
      BY <1>4, <1>6, <3>1
    <3> QED BY <1>1, <1>8, <2>1, <3>1, <3>2 DEF Whole
  <2> QED BY <1>1, <1>3, <2>3, <2>4 DEF StackInv, Kept
<1>13. \A t \in Tasks : Kept(t)'
  <2> SUFFICES ASSUME NEW t \in Tasks PROVE Kept(t)'
    OBVIOUS
  <2>1. current' = current /\ (t = current \/ t # current)
    BY <1>1
  <2> QED BY <1>11, <1>12, <2>1 DEF Kept, Held, Whole, Framed, Frames, R0, OnCpu, Runnable
<1> QED BY <1>9, <1>10, <1>13 DEF StackInv

-----------------------------------------------------------------------------
(* The handlers of system calls.                                           *)

\* What t, another task than the one that called, is left with.
LeftAs(st, t) == st[t] = stack[t] /\ due'[t] = due[t] /\ (Runnable(t)' => Runnable(t))
GivenValue(st, t) ==
  \E v \in Words : st[t] = [stack[t] EXCEPT ![saved[t].sp] = v] /\ due'[t] = v

\* svc_entry goes on with the handler's return value: the caller's own stack
\* is as long as before and, unless it has been careless, as the stub left it.
LEMMA LeaveKept ==
  ASSUME StackInv, NEW st \in [Tasks -> Seq(Words)], NEW ret \in Words, Leave(st, ret),
         Len(st[current]) = Len(stack[current]),
         current \in careless' \/
           \A i \in 1 .. Len(stack[current]) :
             i # Len(stack[current]) => st[current][i] = stack[current][i],
         phase' \in [Tasks -> R!Phases], inbox' \in [Tasks -> Seq(Tasks)],
         awaiting' \subseteq Tasks, due' \in [Tasks -> Words],
         careless \subseteq careless', careless' \subseteq Tasks,
         Runnable(current)' => due'[current] = ret,
         \A t \in Tasks \ {current} : LeftAs(st, t) \/ GivenValue(st, t)
  PROVE  StackInv'
<1> DEFINE old == stack[current]
           w == st[current]
           n == Len(old)
           top == [w EXCEPT ![n] = ret]
<1>1. /\ mode = "svc" /\ mode' = "kernel" /\ UNCHANGED <<current, cpu>>
      /\ saved' = [saved EXCEPT ![current] = [sp |-> n, pc |-> "user"]]
      /\ clock' = [clock EXCEPT !.read = 0]
      /\ stack' = [st EXCEPT ![current][Len(w)] = ret]
  BY DEF Leave, SaveTaskState, SetCurrentTaskReturnValue
<1>2. /\ current \in Tasks /\ OnCpu(current) /\ cpu.pc = "stub" /\ Runnable(current)
      /\ saved \in [Tasks -> [sp : Nat, pc : {"user", "stub"}]]
      /\ cpu \in [r0 : Words, rest : Words, pc : {"user", "stub"}]
  BY <1>1 DEF StackInv, TypeOK, OnTheCpu, OnCpu
<1>3. Frames(current) = 1
  BY <1>1, <1>2 DEF Frames
<1>4. /\ old \in Seq(Words) /\ n \in Nat /\ FrameSize * 1 <= n
      /\ w \in Seq(Words) /\ Len(w) = n
  BY <1>2, <1>3, FramesAre
<1>5. stack' = [st EXCEPT ![current] = top]
  BY <1>1, <1>4
<1>6. current \in careless' \/ \A i \in 1 .. n : i # n => w[i] = old[i]
  OBVIOUS
<1>7. ASSUME NEW t \in Tasks, t # current
      PROVE  LeftAs(st, t) \/ GivenValue(st, t)
  BY <1>7
<1> HIDE DEF old, w, n
<1>8. /\ top \in Seq(Words) /\ Len(top) = n /\ top[n] = ret
      /\ \A i \in 1 .. n : i # n => top[i] = w[i]
  <2>1. n \in 1 .. Len(w)
    BY <1>4 DEF FrameSize
  <2> QED BY <1>4, <2>1, ExceptSeq
<1>9. /\ stack' \in [Tasks -> Seq(Words)] /\ stack'[current] = top
      /\ \A t \in Tasks : t # current => stack'[t] = st[t]
  BY <1>2, <1>5, <1>8
<1> HIDE DEF top
<1>10. /\ saved'[current] = [sp |-> n, pc |-> "user"]
       /\ saved' \in [Tasks -> [sp : Nat, pc : {"user", "stub"}]]
       /\ \A t \in Tasks : t # current => saved'[t] = saved[t]
  BY <1>1, <1>2, <1>4
<1>11. TypeOK'
  <2>1. clock' \in [timer : 0 .. QUANTUM, mis : BOOLEAN, read : 0 .. QUANTUM]
    <3>1. clock \in [timer : 0 .. QUANTUM, mis : BOOLEAN, read : 0 .. QUANTUM]
      BY DEF StackInv, TypeOK
    <3>2. 0 \in 0 .. QUANTUM
      BY SwitchAssumption
    <3> QED BY <1>1, <3>1, <3>2
  <2> QED BY <1>1, <1>2, <1>9, <1>10, <2>1 DEF TypeOK
<1>12. IpcTypes' /\ OnTheCpu'
  BY <1>1 DEF IpcTypes, OnTheCpu
<1>13. ASSUME NEW t \in Tasks, t # current
       PROVE  Kept(t)'
  <2>1. /\ ~ OnCpu(t) /\ ~ OnCpu(t)' /\ saved'[t] = saved[t] /\ stack'[t] = st[t]
    BY <1>1, <1>9, <1>10, <1>13 DEF OnCpu
  <2>2. CASE LeftAs(st, t)
    BY <2>1, <2>2, Untouched DEF LeftAs
  <2>3. CASE GivenValue(st, t)
    BY <2>1, <2>3, ValueGiven DEF GivenValue
  <2> QED BY <1>7, <1>13, <2>2, <2>3
<1>14. Kept(current)'
  <2>1. /\ current' = current /\ ~ OnCpu(current)' /\ Frames(current)' = 1
        /\ stack'[current] = top /\ saved'[current].sp = n
    BY <1>1, <1>9, <1>10 DEF OnCpu, Frames
  <2>2. R0(current)' = ret
    BY <1>8, <2>1 DEF R0
  <2>3. Held(current)'
    BY <1>4, <1>8, <2>1, <2>2 DEF Held
  <2>4. ASSUME current \notin careless'
        PROVE  Whole(current)'
    <3>1. Framed(old, 1)
      BY <1>2, <1>3, <2>4 DEF StackInv, Kept, Whole, old
    <3>2. Framed(top, 1)
      <4>1. \A i \in 1 .. n : i # n => top[i] = old[i]
        BY <1>6, <1>8, <2>4
      <4>2. /\ n - 1 * FrameSize <= MaxLocals
            /\ \A i \in 1 .. n : old[i] = Data \/ i = n
        BY <1>4, <3>1 DEF Framed, n
      <4>3. \A i \in 1 .. n : top[i] = Data \/ i = n
        BY <4>1, <4>2
      <4> QED BY <1>8, <4>2, <4>3 DEF Framed
    <3> QED BY <2>1, <3>2 DEF Whole, Framed
  <2> QED BY <2>1, <2>3, <2>4 DEF Kept
<1>15. \A t \in Tasks : Kept(t)'
  <2> SUFFICES ASSUME NEW t \in Tasks PROVE Kept(t)'
    OBVIOUS
  <2>1. current' = current /\ (t = current \/ t # current)
    BY <1>1
  <2> QED BY <1>13, <1>14, <2>1 DEF Kept, Held, Whole, Framed, Frames, R0, OnCpu, Runnable
<1> QED BY <1>11, <1>12, <1>15 DEF StackInv

\* What every handler starts from.
LEMMA CallFacts ==
  ASSUME StackInv, mode = "svc"
  PROVE  /\ current \in Tasks /\ Runnable(current)
         /\ stack \in [Tasks -> Seq(Words)] /\ due \in [Tasks -> Words]
         /\ phase \in [Tasks -> R!Phases] /\ inbox \in [Tasks -> Seq(Tasks)]
         /\ awaiting \subseteq Tasks /\ careless \subseteq Tasks
         /\ \A t \in Tasks \ {current} : ~ OnCpu(t)
BY DEF StackInv, TypeOK, IpcTypes, OnTheCpu, OnCpu

\* A handler that writes to no stack: the caller waits, or it is told ret.
LEMMA NothingGiven ==
  ASSUME StackInv, NEW ret \in Words, NEW d \in Words, Leave(stack, ret),
         due' = [due EXCEPT ![current] = d], Runnable(current)' => d = ret,
         phase' \in [Tasks -> R!Phases], inbox' \in [Tasks -> Seq(Tasks)],
         awaiting' \subseteq Tasks, careless' = careless,
         \A t \in Tasks \ {current} : Runnable(t)' => Runnable(t)
  PROVE  StackInv'
<1>1. mode = "svc"
  BY DEF Leave
<1>2. due' \in [Tasks -> Words] /\ due'[current] = d
  BY <1>1, CallFacts
<1>3. \A t \in Tasks \ {current} : LeftAs(stack, t)
  BY <1>1, CallFacts DEF LeftAs
<1>4. /\ stack \in [Tasks -> Seq(Words)] /\ Len(stack[current]) = Len(stack[current])
      /\ \/ current \in careless'
         \/ \A i \in 1 .. Len(stack[current]) :
              i # Len(stack[current]) => stack[current][i] = stack[current][i]
      /\ careless \subseteq careless' /\ careless' \subseteq Tasks
  BY <1>1, CallFacts
<1>5. Runnable(current)' => due'[current] = ret
  BY <1>2
<1> QED BY <1>2, <1>3, <1>4, <1>5, LeaveKept

\* A handler that gives v to a task that waits.
LEMMA OneGiven ==
  ASSUME StackInv, NEW ret \in Words, NEW d \in Words, NEW t \in Tasks \ {current}, NEW v \in Words,
         Leave(SetTaskReturnValue(stack, t, v), ret),
         due' = [due EXCEPT ![t] = v, ![current] = d], Runnable(current)' => d = ret,
         phase' \in [Tasks -> R!Phases], inbox' \in [Tasks -> Seq(Tasks)],
         awaiting' \subseteq Tasks, careless' = careless,
         \A u \in Tasks \ {current, t} : Runnable(u)' => Runnable(u)
  PROVE  StackInv'
<1> DEFINE st == SetTaskReturnValue(stack, t, v)
<1>1. mode = "svc"
  BY DEF Leave
<1>2. /\ due' \in [Tasks -> Words] /\ due'[current] = d /\ due'[t] = v
      /\ \A u \in Tasks \ {current, t} : due'[u] = due[u]
  BY <1>1, CallFacts
<1>3. /\ st = [stack EXCEPT ![t] = [stack[t] EXCEPT ![saved[t].sp] = v]]
      /\ st \in [Tasks -> Seq(Words)]
  BY <1>1, CallFacts, GivesValue
<1>4. Leave(st, ret)
  OBVIOUS
<1> HIDE DEF st
<1>5. /\ st[t] = [stack[t] EXCEPT ![saved[t].sp] = v] /\ st[current] = stack[current]
      /\ \A u \in Tasks \ {t} : st[u] = stack[u]
  BY <1>1, <1>3, CallFacts
<1>6. \A u \in Tasks \ {current} : LeftAs(st, u) \/ GivenValue(st, u)
  BY <1>2, <1>5 DEF LeftAs, GivenValue
<1>7. /\ Len(st[current]) = Len(stack[current])
      /\ \/ current \in careless'
         \/ \A i \in 1 .. Len(stack[current]) :
              i # Len(stack[current]) => st[current][i] = stack[current][i]
      /\ careless \subseteq careless' /\ careless' \subseteq Tasks
  BY <1>1, <1>5, CallFacts
<1>8. Runnable(current)' => due'[current] = ret
  BY <1>2
<1> QED BY <1>2, <1>3, <1>4, <1>6, <1>7, <1>8, LeaveKept

LEMMA PassKept == ASSUME StackInv, HandlePass PROVE StackInv'
<1>1. /\ mode = "svc" /\ Leave(stack, RETURN_STATUS_OK) /\ RETURN_STATUS_OK \in Words
      /\ due' = [due EXCEPT ![current] = RETURN_STATUS_OK]
      /\ UNCHANGED <<phase, inbox, awaiting, careless, current>>
  BY WordsAre DEF HandlePass, Leave, ipcVars
<1>2. \A t \in Tasks \ {current} : Runnable(t)' => Runnable(t)
  BY <1>1 DEF Runnable
<1> QED BY <1>1, <1>2, CallFacts, NothingGiven

LEMMA AwaitEventKept == ASSUME StackInv, HandleAwaitEvent PROVE StackInv'
<1>1. /\ mode = "svc" /\ Leave(stack, RETURN_STATUS_OK)
      /\ RETURN_STATUS_OK \in Words /\ Data \in Words
      /\ due' = [due EXCEPT ![current] = Data]
      /\ awaiting' = awaiting \cup {current}
      /\ UNCHANGED <<phase, inbox, careless, current>>
  BY WordsAre DEF HandleAwaitEvent, Leave, ipcVars
<1>2. /\ ~ Runnable(current)' /\ awaiting' \subseteq Tasks
      /\ \A t \in Tasks \ {current} : Runnable(t)' => Runnable(t)
  BY <1>1, CallFacts DEF Runnable
<1> QED BY <1>1, <1>2, CallFacts, NothingGiven

LEMMA ReplyKept == ASSUME StackInv, HandleReply PROVE StackInv'
<1>1. PICK s \in Tasks \ {current, Null} :
        IF phase[s] = "awaiting reply"
        THEN /\ R!ReplyTo(s)
             /\ Leave(SetTaskReturnValue(stack, s, Size(current)), RETURN_STATUS_OK)
             /\ due' = [due EXCEPT ![s] = Size(current), ![current] = RETURN_STATUS_OK]
        ELSE /\ Leave(stack, ERR) /\ UNCHANGED ipcVars
             /\ due' = [due EXCEPT ![current] = ERR]
  BY DEF HandleReply
<1>2. mode = "svc" /\ UNCHANGED <<awaiting, careless, current>>
  BY DEF HandleReply, Leave
<1>3. RETURN_STATUS_OK \in Words /\ ERR \in Words /\ Size(current) \in Words
  BY <1>2, CallFacts, WordsAre
<1>4. CASE phase[s] = "awaiting reply"
  <2>1. phase' = [phase EXCEPT ![s] = "running"] /\ inbox' = inbox
    BY <1>1, <1>4 DEF R!ReplyTo
  <2>2. /\ phase' \in [Tasks -> R!Phases]
        /\ \A u \in Tasks \ {current, s} : Runnable(u)' => Runnable(u)
    BY <1>2, <2>1, CallFacts DEF Runnable, R!Phases
  <2>3. /\ Leave(SetTaskReturnValue(stack, s, Size(current)), RETURN_STATUS_OK)
        /\ due' = [due EXCEPT ![s] = Size(current), ![current] = RETURN_STATUS_OK]
    BY <1>1, <1>4
  <2>4. /\ inbox' \in [Tasks -> Seq(Tasks)] /\ awaiting' \subseteq Tasks
        /\ careless' = careless /\ s \in Tasks \ {current}
    BY <1>2, <2>1, CallFacts
  <2> QED BY <1>3, <2>2, <2>3, <2>4, OneGiven
<1>5. CASE phase[s] # "awaiting reply"
  <2>1. /\ Leave(stack, ERR) /\ UNCHANGED <<phase, inbox>>
        /\ due' = [due EXCEPT ![current] = ERR]
    BY <1>1, <1>5 DEF ipcVars
  <2>2. \A t \in Tasks \ {current} : Runnable(t)' => Runnable(t)
    BY <1>2, <2>1 DEF Runnable
  <2> QED BY <1>2, <1>3, <2>1, <2>2, CallFacts, NothingGiven
<1> QED BY <1>4, <1>5

LEMMA SendKept == ASSUME StackInv, HandleSend PROVE StackInv'
<1>1. PICK r \in Tasks \ {current, Null} :
        /\ R!SendToWaiting(current, r) \/ R!SendToBusy(current, r)
        /\ IF phase[r] = "receiving"
           THEN /\ Leave(SetTaskReturnValue(stack, r, Size(current)), Size(current))
                /\ due' = [due EXCEPT ![r] = Size(current), ![current] = Data]
           ELSE Leave(stack, RETURN_STATUS_OK) /\ due' = [due EXCEPT ![current] = Data]
  BY DEF HandleSend
<1>2. mode = "svc" /\ UNCHANGED <<awaiting, careless, current>>
  BY <1>1 DEF HandleSend, Leave
<1>3. /\ RETURN_STATUS_OK \in Words /\ Data \in Words /\ Size(current) \in Words
  BY <1>2, CallFacts, WordsAre
<1>4. CASE phase[r] = "receiving"
  <2>1. /\ phase' = [phase EXCEPT ![current] = "awaiting reply", ![r] = "running"]
        /\ inbox' = inbox
    BY <1>1, <1>4 DEF R!SendToWaiting, R!SendToBusy
  <2>2. /\ phase' \in [Tasks -> R!Phases] /\ ~ Runnable(current)'
        /\ \A u \in Tasks \ {current, r} : Runnable(u)' => Runnable(u)
    BY <1>2, <2>1, CallFacts DEF Runnable, R!Phases
  <2>3. /\ Leave(SetTaskReturnValue(stack, r, Size(current)), Size(current))
        /\ due' = [due EXCEPT ![r] = Size(current), ![current] = Data]
    BY <1>1, <1>4
  <2>4. /\ inbox' \in [Tasks -> Seq(Tasks)] /\ awaiting' \subseteq Tasks
        /\ careless' = careless /\ r \in Tasks \ {current}
    BY <1>2, <2>1, CallFacts
  <2> QED BY <1>3, <2>2, <2>3, <2>4, OneGiven
<1>5. CASE phase[r] # "receiving"
  <2>1. /\ phase' = [phase EXCEPT ![current] = "sending"]
        /\ inbox' = [inbox EXCEPT ![r] = Append(inbox[r], current)]
        /\ Leave(stack, RETURN_STATUS_OK) /\ due' = [due EXCEPT ![current] = Data]
    BY <1>1, <1>5 DEF R!SendToWaiting, R!SendToBusy
  <2>2. /\ phase' \in [Tasks -> R!Phases] /\ ~ Runnable(current)'
        /\ \A t \in Tasks \ {current} : Runnable(t)' => Runnable(t)
    BY <1>2, <2>1, CallFacts DEF Runnable, R!Phases
  <2>3. inbox' \in [Tasks -> Seq(Tasks)]
    <3>1. inbox \in [Tasks -> Seq(Tasks)] /\ inbox[r] \in Seq(Tasks) /\ current \in Tasks
      BY <1>2, CallFacts
    <3>2. Append(inbox[r], current) \in Seq(Tasks)
      BY <3>1, AppendProperties
    <3> QED BY <2>1, <3>1, <3>2
  <2> QED BY <1>2, <1>3, <2>1, <2>2, <2>3, CallFacts, NothingGiven
<1> QED BY <1>4, <1>5

\* The first sender's size is written through the caller's own saved sp, which
\* is that of its last trap: it points at the top, where svc_entry writes the
\* same value again, or beyond the stack, or the task has been careless.
LEMMA WrittenThroughOldSp ==
  ASSUME StackInv, mode = "svc", NEW v \in Words
  PROVE  LET st == SetTaskReturnValue(stack, current, v)
             n == Len(stack[current])
         IN  /\ st \in [Tasks -> Seq(Words)] /\ Len(st[current]) = n
             /\ \A t \in Tasks \ {current} : st[t] = stack[t]
             /\ saved[current].sp >= n =>
                  \A i \in 1 .. n : i # n => st[current][i] = stack[current][i]
<1> DEFINE w == stack[current]
           i == saved[current].sp
<1>1. current \in Tasks /\ w \in Seq(Words) /\ Len(w) \in Nat /\ i \in Nat
  BY CallFacts, LenProperties DEF StackInv, TypeOK
<1>2. stack \in [Tasks -> Seq(Words)]
  BY CallFacts
<1> HIDE DEF w, i
<1>3. CASE i \in DOMAIN w
  <2> DEFINE x == [w EXCEPT ![i] = v]
  <2>1. SetTaskReturnValue(stack, current, v) = [stack EXCEPT ![current] = x]
    BY <1>1, <1>2, <1>3 DEF SetTaskReturnValue, w, i
  <2>2. i \in 1 .. Len(w)
    BY <1>1, <1>3, LenProperties
  <2>3. /\ x \in Seq(Words) /\ Len(x) = Len(w)
        /\ \A j \in 1 .. Len(w) : j # i => x[j] = w[j]
    BY <1>1, <2>2, ExceptSeq
  <2> HIDE DEF x
  <2>4. i >= Len(w) => i = Len(w)
    BY <1>1, <2>2
  <2> QED BY <1>1, <1>2, <2>1, <2>3, <2>4 DEF w, i
<1>4. CASE i \notin DOMAIN w
  <2>1. SetTaskReturnValue(stack, current, v) = stack
    BY <1>4 DEF SetTaskReturnValue, w, i
  <2> QED BY <1>2, <2>1
<1> QED BY <1>3, <1>4

LEMMA ReceiveKept == ASSUME StackInv, HandleReceive PROVE StackInv'
<1>1. mode = "svc" /\ UNCHANGED <<awaiting, current>>
  BY DEF HandleReceive, Leave
<1>2. CASE inbox[current] = <<>>
  <2>1. /\ phase' = [phase EXCEPT ![current] = "receiving"] /\ inbox' = inbox
        /\ Leave(stack, RETURN_STATUS_OK) /\ due' = [due EXCEPT ![current] = Data]
        /\ careless' = careless
    BY <1>2 DEF HandleReceive, R!ReceiveNothing
  <2>2. /\ phase' \in [Tasks -> R!Phases] /\ ~ Runnable(current)'
        /\ \A t \in Tasks \ {current} : Runnable(t)' => Runnable(t)
    BY <1>1, <2>1, CallFacts DEF Runnable, R!Phases
  <2>3. inbox' \in [Tasks -> Seq(Tasks)] /\ awaiting' \subseteq Tasks
    BY <1>1, <2>1, CallFacts
  <2> QED BY <2>1, <2>2, <2>3, WordsAre, NothingGiven
<1>3. CASE inbox[current] # <<>>
  <2> DEFINE first == Head(inbox[current])
             v == Size(first)
             st == SetTaskReturnValue(stack, current, v)
             n == Len(stack[current])
  <2>1. /\ phase' = [phase EXCEPT ![first] = "awaiting reply"]
        /\ inbox' = [inbox EXCEPT ![current] = Tail(inbox[current])]
        /\ Leave(st, v) /\ due' = [due EXCEPT ![current] = v]
        /\ careless' = IF saved[current].sp < n THEN careless \cup {current} ELSE careless
    BY <1>3 DEF HandleReceive, R!ReceiveFirst
  <2>2. /\ current \in Tasks /\ inbox \in [Tasks -> Seq(Tasks)]
        /\ inbox[current] \in Seq(Tasks)
    BY <1>1, CallFacts
  <2>3. first \in Tasks /\ Tail(inbox[current]) \in Seq(Tasks)
    BY <1>3, <2>2, HeadTailProperties
  <2>4. v \in Words /\ inbox' \in [Tasks -> Seq(Tasks)]
    BY <2>1, <2>2, <2>3, WordsAre
  <2>5. /\ st \in [Tasks -> Seq(Words)] /\ Len(st[current]) = n
        /\ \A t \in Tasks \ {current} : st[t] = stack[t]
        /\ saved[current].sp >= n =>
             \A i \in 1 .. n : i # n => st[current][i] = stack[current][i]
    BY <1>1, <2>4, WrittenThroughOldSp
  <2> HIDE DEF st, v, first
  <2>6. /\ phase' \in [Tasks -> R!Phases]
        /\ \A t \in Tasks \ {current} : Runnable(t)' => Runnable(t)
    BY <1>1, <2>1, <2>3, CallFacts DEF Runnable, R!Phases
  <2>7. /\ due' \in [Tasks -> Words] /\ due'[current] = v
        /\ \A t \in Tasks \ {current} : due'[t] = due[t]
    BY <1>1, <2>1, <2>4, CallFacts
  <2>8. \A t \in Tasks \ {current} : LeftAs(st, t)
    BY <2>5, <2>6, <2>7 DEF LeftAs
  <2>9. n \in Nat /\ saved[current].sp \in Nat
    BY <2>2, FramesAre DEF StackInv, TypeOK
  <2>10. /\ careless \subseteq careless' /\ careless' \subseteq Tasks
         /\ \/ current \in careless'
            \/ \A i \in 1 .. n : i # n => st[current][i] = stack[current][i]
    <3>1. careless \subseteq Tasks
      BY <1>1, CallFacts
    <3>2. CASE saved[current].sp < n
      BY <2>1, <2>2, <3>1, <3>2
    <3>3. CASE saved[current].sp >= n
      <4>1. ~ (saved[current].sp < n)
        BY <2>9, <3>3
      <4>2. careless' = careless
        BY <2>1, <4>1, Zenon
      <4> QED BY <2>5, <3>1, <3>3, <4>2
    <3> QED BY <2>9, <3>2, <3>3
  <2>11. awaiting' \subseteq Tasks /\ (Runnable(current)' => due'[current] = v)
    BY <1>1, <2>7, CallFacts
  <2> QED BY <2>1, <2>4, <2>5, <2>6, <2>7, <2>8, <2>10, <2>11, LeaveKept
<1> QED BY <1>2, <1>3

-----------------------------------------------------------------------------
\* Activate pops the frame that the task's last trap has left on top.
LEMMA ActivateKept == ASSUME StackInv, Activate PROVE StackInv'
<1>1. PICK t \in Tasks :
        /\ Runnable(t) /\ current' = t
        /\ cpu' = [r0 |-> stack[t][saved[t].sp], rest |-> stack[t][saved[t].sp - 1],
                   pc |-> saved[t].pc]
        /\ stack' = [stack EXCEPT ![t] = SubSeq(stack[t], 1, saved[t].sp - FrameSize)]
  BY DEF Activate
<1>2. /\ mode = "kernel" /\ mode' = "user"
      /\ UNCHANGED <<phase, inbox, saved, awaiting, clock, due, careless>>
  BY DEF Activate, ipcVars
<1> DEFINE w == stack[t]
           n == Len(w)
           f == Frames(t)
           x == SubSeq(w, 1, n - FrameSize)
<1>3. /\ ~ OnCpu(t) /\ w \in Seq(Words) /\ n \in Nat /\ f \in 1 .. 2
      /\ FrameSize * f <= n /\ saved[t].sp = n /\ saved[t].pc \in {"user", "stub"}
  BY <1>2, FramesAre DEF OnCpu
<1>4. f = IF saved[t].pc = "stub" THEN 2 ELSE 1
  BY <1>3 DEF Frames
<1>5. w[n] = due[t]
  BY <1>1, <1>3 DEF StackInv, Kept, Held, R0
<1>6. t \notin careless => Framed(w, f)
  BY DEF StackInv, Kept, Whole
<1>7. /\ cpu' = [r0 |-> w[n], rest |-> w[n - 1], pc |-> saved[t].pc]
      /\ stack' = [stack EXCEPT ![t] = x]
  BY <1>1, <1>3
<1> HIDE DEF w, n, f
<1>8. /\ x \in Seq(Words) /\ Len(x) = n - FrameSize
      /\ w[n] \in Words /\ w[n - 1] \in Words
      /\ Framed(w, f) =>
           /\ Framed(x, f - 1)
           /\ IF f = 2 THEN w[n - 1] \in Calls ELSE w[n - 1] = Data
  <2>1. n = Len(w)
    BY DEF n
  <2> QED BY <1>3, <2>1, FramePopped
<1> HIDE DEF x
<1>9. /\ stack' \in [Tasks -> Seq(Words)] /\ stack'[t] = x
      /\ \A u \in Tasks : u # t => stack'[u] = stack[u]
  BY <1>7, <1>8 DEF StackInv, TypeOK
<1>10. cpu' \in [r0 : Words, rest : Words, pc : {"user", "stub"}]
  BY <1>3, <1>7, <1>8
<1>11. TypeOK'
  BY <1>1, <1>2, <1>9, <1>10 DEF StackInv, TypeOK
<1>12. IpcTypes' /\ OnTheCpu'
  BY <1>1, <1>2 DEF StackInv, IpcTypes, OnTheCpu, Runnable
<1>13. ASSUME NEW u \in Tasks, u # t
       PROVE  Kept(u)'
  <2>1. /\ ~ OnCpu(u) /\ ~ OnCpu(u)' /\ stack'[u] = stack[u] /\ saved'[u] = saved[u]
        /\ due'[u] = due[u] /\ (Runnable(u)' => Runnable(u)) /\ careless \subseteq careless'
    BY <1>1, <1>2, <1>9, <1>13 DEF OnCpu, Runnable
  <2> QED BY <2>1, Untouched
<1>14. Kept(t)'
  <2>1. OnCpu(t)' /\ Frames(t)' = f - 1 /\ R0(t)' = due'[t]
    BY <1>1, <1>2, <1>4, <1>5, <1>7 DEF OnCpu, Frames, R0
  <2>2. FrameSize * (f - 1) <= Len(x)
    BY <1>3, <1>8 DEF FrameSize
  <2>3. Held(t)'
    BY <1>9, <2>1, <2>2 DEF Held
  <2>4. ASSUME t \notin careless
        PROVE  Whole(t)'
    <3>1. Framed(x, f - 1) /\ IF f = 2 THEN w[n - 1] \in Calls ELSE w[n - 1] = Data
      BY <1>6, <1>8, <2>4
    <3>2. IF cpu'.pc = "stub" THEN cpu'.rest \in Calls ELSE cpu'.rest = Data
      BY <1>4, <1>7, <3>1
    <3> QED BY <1>9, <2>1, <3>1, <3>2 DEF Whole, Framed
  <2> QED BY <1>2, <2>3, <2>4 DEF Kept
<1>15. \A u \in Tasks : Kept(u)'
  BY <1>13, <1>14
<1> QED BY <1>11, <1>12, <1>15 DEF StackInv

LEMMA StackInit == Init => StackInv
<1> SUFFICES ASSUME Init PROVE StackInv
  OBVIOUS
<1> USE DEF Init
<1> DEFINE w == <<Data, Data>>
<1>1. w \in Seq(Words) /\ Len(w) = 2 /\ w[1] = Data /\ w[2] = Data
  BY WordsAre
<1> HIDE DEF w
<1>2. stack = [t \in Tasks |-> w]
  BY DEF w
<1>3. TypeOK
  <2>1. clock \in [timer : 0 .. QUANTUM, mis : BOOLEAN, read : 0 .. QUANTUM]
    BY SwitchAssumption
  <2>2. saved \in [Tasks -> [sp : Nat, pc : {"user", "stub"}]]
    BY DEF FrameSize
  <2> QED BY <1>1, <1>2, <2>1, <2>2, SwitchAssumption, WordsAre DEF TypeOK
<1>4. IpcTypes /\ OnTheCpu
  <2>1. <<>> \in Seq(Tasks)
    OBVIOUS
  <2> QED BY <2>1 DEF IpcTypes, OnTheCpu, R!Phases
<1>5. ASSUME NEW t \in Tasks
      PROVE  Kept(t)
  <2>1. ~ OnCpu(t) /\ Frames(t) = 1 /\ stack[t] = w /\ saved[t].sp = 2 /\ due[t] = Data
    BY <1>2 DEF OnCpu, Frames, FrameSize
  <2>2. Held(t)
    BY <1>1, <2>1 DEF Held, R0, FrameSize
  <2>3. Whole(t)
    BY <1>1, <2>1, SwitchAssumption DEF Whole, Framed, FrameSize
  <2> QED BY <2>2, <2>3 DEF Kept
<1> QED BY <1>3, <1>4, <1>5 DEF StackInv

LEMMA StackNext == StackInv /\ [Next]_vars => StackInv'
<1> SUFFICES ASSUME StackInv, [Next]_vars PROVE StackInv'
  OBVIOUS
<1>1. CASE UserStep
  BY <1>1, ComputeKept, EnterFunctionKept, LeaveFunctionKept, StubKept DEF UserStep
<1>2. CASE Handler
  BY <1>2, PassKept, SendKept, ReceiveKept, ReplyKept, AwaitEventKept DEF Handler
<1>3. CASE UNCHANGED vars
  BY <1>3 DEF vars, ipcVars, switchVars, timeVars, StackInv, TypeOK, IpcTypes, OnTheCpu,
              Kept, Held, Whole, Framed, Frames, R0, OnCpu, Runnable
<1> QED BY <1>1, <1>2, <1>3, TickKept, IrqEntryKept, IrqSaveKept, SvcEntryKept, ActivateKept
        DEF Next, TrapStep

\* svc_entry, irq_entry and Activate, with SetTaskReturnValue: the value that a
\* handler or an interrupt has left for a task is in r0 when the task goes on,
\* whichever task wrote it and at whatever instruction the task was stopped.
THEOREM ReturnValuesArrive == Spec => []ReturnValueArrives
<1>1. StackInv => ReturnValueArrives
  BY DEF StackInv, Kept, Held, ReturnValueArrives
<1> QED BY <1>1, StackInit, StackNext, PTL DEF Spec

\* The pushes and pops of the stubs, of svc_entry and irq_entry and of Activate
\* match: sp and every other register and word of a task are the program's,
\* for any number of nested calls and interrupts.  Tasks in careless are
\* excepted: those of which CompleteReceive has overwritten a word.
THEOREM TheRestIsKept == Spec => []RestIntact
<1>1. StackInv => RestIntact
  <2> SUFFICES ASSUME StackInv PROVE RestIntact
    OBVIOUS
  <2>1. TypeOK
    BY DEF StackInv
  <2>2. ASSUME NEW t \in Tasks \ careless
        PROVE  LET n == Len(stack[t])
                   f == Frames(t)
               IN  /\ ~ OnCpu(t) => saved[t].sp = n
                   /\ 0 <= n - f * FrameSize /\ n - f * FrameSize <= MaxLocals
                   /\ \A i \in 1 .. n : \/ stack[t][i] = Data
                                        \/ i = n /\ f >= 1
                                        \/ i = n - FrameSize /\ f = 2
                                        \/ i = n - 1 /\ f = 2 /\ stack[t][i] \in Calls
                   /\ OnCpu(t) => IF cpu.pc = "stub" THEN cpu.rest \in Calls ELSE cpu.rest = Data
    <3> DEFINE w == stack[t]
               n == Len(w)
               f == Frames(t)
    <3>1. n \in Nat /\ f \in 0 .. 2 /\ FrameSize * f <= n /\ (~ OnCpu(t) => saved[t].sp = n)
      BY FramesAre
    <3>2. /\ Framed(w, f)
          /\ OnCpu(t) => IF cpu.pc = "stub" THEN cpu.rest \in Calls ELSE cpu.rest = Data
      BY DEF StackInv, Kept, Whole
    <3> HIDE DEF w, f
    <3>3. /\ n - f * FrameSize <= MaxLocals
          /\ \A i \in 1 .. n : \/ w[i] = Data
                               \/ i = n /\ f >= 1
                               \/ i = n - FrameSize /\ f = 2
                               \/ i = n - 1 /\ f = 2 /\ w[i] \in Calls
      BY <3>2 DEF Framed
    <3>4. 0 <= n - f * FrameSize
      BY <3>1 DEF FrameSize
    <3> QED BY <3>1, <3>2, <3>3, <3>4 DEF w, f
  <2> QED BY <2>1, <2>2 DEF RestIntact
<1> QED BY <1>1, StackInit, StackNext, PTL DEF Spec
=============================================================================
