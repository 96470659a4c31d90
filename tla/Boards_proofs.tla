--------------------------- MODULE Boards_proofs ---------------------------
(***************************************************************************)
(* What the drivers of the LiteOS-M boards promise, proved of every FIFO,   *)
(* every set of packet lengths, every clock and rate, every size of the     *)
(* flash, its pages and its blocks, and every number of changes of a        *)
(* configuration.  Of arm_mps2_an386 and arm_mps3_an547: the console        *)
(* (board/driver/uart/uart.c, arm_uart_drv.c) and the Ethernet chip         *)
(* (lan9118_eth_drv.c), after lemmas about the totals of a FIFO.  Of        *)
(* riscv32_virt: the flash (cfiflash.c), the memory of the frame buffer     *)
(* (video/fb.c, virtgpu.c) and how the virtio drivers are brought up        *)
(* (virtmmio.c).  In the end all of them as parts of the boards' behaviours.*)
(***************************************************************************)
EXTENDS MCBoards, SequenceTheorems, WellFoundedInduction, TLAPS

(* What is appended to the second of two queues goes to the end of both.    *)
LEMMA ConcatAppend ==
  ASSUME NEW S, NEW s \in Seq(S), NEW t \in Seq(S), NEW e \in S
  PROVE  s \o Append(t, e) = Append(s \o t, e)
<1>1. Append(t, e) = t \o <<e>> /\ <<e>> \in Seq(S)  BY AppendIsConcat
<1>2. s \o t \in Seq(S)  BY ConcatProperties
<1>3. Append(s \o t, e) = (s \o t) \o <<e>>  BY <1>2, AppendIsConcat
<1> QED  BY <1>1, <1>3, ConcatAssociative

(* What goes from the head of the second of two queues to the end of the    *)
(* first stays in its place.                                                *)
LEMMA ConcatMove ==
  ASSUME NEW S, NEW s \in Seq(S), NEW t \in Seq(S), t # <<>>
  PROVE  /\ Append(s, Head(t)) \o Tail(t) = s \o t
         /\ Append(s, Head(t)) \in Seq(S) /\ Tail(t) \in Seq(S) /\ Head(t) \in S
<1>1. Head(t) \in S /\ Tail(t) \in Seq(S)  BY HeadTailProperties
<1>2. Append(s, Head(t)) = s \o <<Head(t)>> /\ <<Head(t)>> \in Seq(S)
  BY <1>1, AppendIsConcat
<1>3. (s \o <<Head(t)>>) \o Tail(t) = s \o (<<Head(t)>> \o Tail(t))
  BY <1>1, <1>2, ConcatAssociative
<1>4. <<Head(t)>> \o Tail(t) = t
  <2> DEFINE u == <<Head(t)>> \o Tail(t)
  <2>1. /\ u \in Seq(S) /\ Len(u) = Len(<<Head(t)>>) + Len(Tail(t))
        /\ \A i \in 1 .. Len(<<Head(t)>>) + Len(Tail(t)) :
             u[i] = IF i <= Len(<<Head(t)>>) THEN <<Head(t)>>[i] ELSE Tail(t)[i - Len(<<Head(t)>>)]
    BY <1>1, <1>2, ConcatProperties
  <2>2. Len(<<Head(t)>>) = 1 /\ <<Head(t)>>[1] = Head(t)  OBVIOUS
  <2>3. /\ Len(Tail(t)) = Len(t) - 1 /\ Len(t) \in Nat \ {0}
        /\ \A i \in 1 .. Len(Tail(t)) : Tail(t)[i] = t[i + 1]
    BY HeadTailProperties
  <2>4. Head(t) = t[1]  OBVIOUS
  <2> HIDE DEF u
  <2>5. Len(u) = Len(t)  BY <2>1, <2>2, <2>3
  <2>6. ASSUME NEW i \in 1 .. Len(u) PROVE u[i] = t[i]
    BY <2>1, <2>2, <2>3, <2>4, <2>5
  <2> QED  BY <2>1, <2>5, <2>6, SeqEqual DEF u
<1>5. Append(s, Head(t)) \in Seq(S)  BY <1>1, AppendProperties
<1> QED  BY <1>1, <1>2, <1>3, <1>4, <1>5

(* Induction on the numbers: a set of them that is not empty has a least.   *)
LEMMA LeastNumber ==
  ASSUME NEW T, T \subseteq Nat, T # {}
  PROVE  \E x \in T : \A y \in T : x <= y
<1> DEFINE R == {ss \in Nat \X Nat : ss[1] < ss[2]}
<1>1. IsWellFoundedOn(R, Nat)  BY NatLessThanWellFounded DEF OpToRel
<1>2. \E x \in T : \A y \in T : ~ (<<y, x>> \in R)
  <2> HIDE DEF R
  <2> QED  BY <1>1, WFMin
<1>3. \A x, y \in Nat : ~ (<<y, x>> \in R) => x <= y  OBVIOUS
<1> QED  BY <1>2, <1>3

(* f[i] is the sum of the first i elements of s.                            *)
IsSums(s, f) ==
  /\ f \in [0 .. Len(s) -> Int]
  /\ f[0] = 0
  /\ \A i \in 1 .. Len(s) : f[i] = f[i - 1] + s[i]

(* The sums exist, as long as the sequence is.                              *)
LEMMA SumsExist == ASSUME NEW s \in Seq(Int) PROVE \E f : IsSums(s, f)
<1> DEFINE Upto(n, f) == /\ f \in [0 .. n -> Int]
                         /\ f[0] = 0
                         /\ \A i \in 1 .. n : f[i] = f[i - 1] + s[i]
<1> DEFINE T == {n \in 0 .. Len(s) : ~ \E f : Upto(n, f)}
<1>1. CASE T = {}
  <2>1. Len(s) \in 0 .. Len(s)  OBVIOUS
  <2>2. \E f : Upto(Len(s), f)  BY <1>1, <2>1
  <2> QED  BY <2>2 DEF IsSums
<1>2. CASE T # {}
  <2>1. PICK n \in T : \A m \in T : n <= m
    <3>1. T \subseteq Nat  OBVIOUS
    <3> HIDE DEF T
    <3> QED  BY <1>2, <3>1, LeastNumber
  <2>2. n # 0
    <3>1. Upto(0, [i \in 0 .. 0 |-> 0])  OBVIOUS
    <3> QED  BY <3>1
  <2>3. n - 1 \in 0 .. Len(s) /\ n - 1 \notin T /\ n \in 1 .. Len(s)
    <3>1. n \in 0 .. Len(s)  OBVIOUS
    <3> HIDE DEF T
    <3>2. n \in 1 .. Len(s) /\ n - 1 \in 0 .. Len(s)  BY <2>2, <3>1
    <3> QED  BY <2>1, <3>2
  <2>4. PICK f : Upto(n - 1, f)  BY <2>3
  <2> DEFINE g == [i \in 0 .. n |-> IF i = n THEN f[n - 1] + s[n] ELSE f[i]]
  <2>5. Upto(n, g)
    <3>1. s[n] \in Int /\ f[n - 1] \in Int  BY <2>3, <2>4
    <3>2. g \in [0 .. n -> Int]  BY <2>3, <2>4, <3>1
    <3>3. g[0] = 0  BY <2>3, <2>4
    <3>4. \A i \in 1 .. n : g[i] = g[i - 1] + s[i]  BY SMTT(60), <2>3, <2>4
    <3> QED  BY <3>2, <3>3, <3>4
  <2> QED  BY <2>1, <2>5
<1> QED  BY <1>1, <1>2

(* The recursive definition computes them.                                  *)
LEMMA SumsAreSums == ASSUME NEW s \in Seq(Int) PROVE IsSums(s, RunningTotals(s))
<1>1. PICK f : IsSums(s, f)  BY SumsExist
<1> DEFINE Step(g) == [i \in 0 .. Len(s) |-> IF i = 0 THEN 0 ELSE g[i - 1] + s[i]]
<1>2. f = Step(f)  BY <1>1 DEF IsSums
<1>3. RunningTotals(s) = CHOOSE g : g = Step(g)  BY DEF RunningTotals
<1>4. RunningTotals(s) = Step(RunningTotals(s))  BY <1>2, <1>3
<1> DEFINE T == {i \in 0 .. Len(s) : RunningTotals(s)[i] # f[i]}
<1>5. CASE T = {}
  <2>1. \A i \in 0 .. Len(s) : RunningTotals(s)[i] = f[i]  BY <1>5
  <2>2. RunningTotals(s) = [i \in 0 .. Len(s) |-> RunningTotals(s)[i]]
    <3> DEFINE g == RunningTotals(s)
    <3>1. g = [i \in 0 .. Len(s) |-> IF i = 0 THEN 0 ELSE g[i - 1] + s[i]]  BY <1>4
    <3> HIDE DEF g
    <3>2. g = [i \in 0 .. Len(s) |-> g[i]]  BY <3>1
    <3> QED  BY <3>2 DEF g
  <2>3. RunningTotals(s) = f  BY <2>1, <2>2, <1>1 DEF IsSums
  <2> QED  BY <2>3, <1>1
<1>6. CASE T # {}
  <2>1. PICK n \in T : \A m \in T : n <= m
    <3>1. T \subseteq Nat  OBVIOUS
    <3> HIDE DEF T
    <3> QED  BY <1>6, <3>1, LeastNumber
  <2>2. n \in 0 .. Len(s) /\ RunningTotals(s)[n] # f[n]  BY <2>1
  <2>3. RunningTotals(s)[n] = IF n = 0 THEN 0 ELSE RunningTotals(s)[n - 1] + s[n]
    <3> DEFINE g == RunningTotals(s)
    <3>1. g = [i \in 0 .. Len(s) |-> IF i = 0 THEN 0 ELSE g[i - 1] + s[i]]  BY <1>4
    <3> HIDE DEF g
    <3>2. g[n] = IF n = 0 THEN 0 ELSE g[n - 1] + s[n]  BY <3>1, <2>2
    <3> QED  BY <3>2 DEF g
  <2>4. n # 0  BY <2>2, <2>3, <1>1 DEF IsSums
  <2>5. n - 1 \in 0 .. Len(s) /\ n - 1 \notin T  BY <2>1, <2>2, <2>4
  <2>6. RunningTotals(s)[n - 1] = f[n - 1]  BY <2>5
  <2>7. n \in 1 .. Len(s) /\ f[n] = f[n - 1] + s[n]  BY <2>2, <2>4, <1>1 DEF IsSums
  <2> QED  BY <2>2, <2>3, <2>4, <2>6, <2>7
<1> QED  BY <1>5, <1>6

(* There is one function of the sums.                                       *)
LEMMA SumsUnique ==
  ASSUME NEW s \in Seq(Int), NEW f, NEW g, IsSums(s, f), IsSums(s, g)
  PROVE  f = g
<1> DEFINE T == {i \in 0 .. Len(s) : f[i] # g[i]}
<1>1. CASE T = {}  BY SMTT(60), <1>1 DEF IsSums
<1>2. CASE T # {}
  <2>1. PICK n \in T : \A m \in T : n <= m
    <3>1. T \subseteq Nat  OBVIOUS
    <3> HIDE DEF T
    <3> QED  BY <1>2, <3>1, LeastNumber
  <2>2. n \in 0 .. Len(s) /\ f[n] # g[n]  BY <2>1
  <2>3. n # 0  BY <2>2 DEF IsSums
  <2>4. n - 1 \in 0 .. Len(s) /\ n - 1 \notin T  BY <2>1, <2>2, <2>3
  <2>5. f[n - 1] = g[n - 1]  BY <2>4
  <2> QED  BY <2>2, <2>3, <2>5 DEF IsSums
<1> QED  BY <1>1, <1>2

(* What is put into a FIFO adds to its total.                               *)
LEMMA TotalAppend ==
  ASSUME NEW s \in Seq(Int), NEW x \in Int
  PROVE  Total(Append(s, x)) = Total(s) + x /\ Total(s) \in Int
<1> DEFINE t == Append(s, x)
<1> DEFINE f == RunningTotals(s)
<1> DEFINE g == [i \in 0 .. Len(s) + 1 |-> IF i = Len(s) + 1 THEN f[Len(s)] + x ELSE f[i]]
<1>1. IsSums(s, f)  BY SumsAreSums
<1>2. t \in Seq(Int) /\ Len(t) = Len(s) + 1 /\ t[Len(s) + 1] = x
      /\ \A i \in 1 .. Len(s) : t[i] = s[i]
  OBVIOUS
<1>3. IsSums(t, RunningTotals(t))  BY <1>2, SumsAreSums
<1>4. IsSums(t, g)
  <2> HIDE DEF t, f
  <2>1. f[Len(s)] \in Int  BY <1>1 DEF IsSums
  <2>2. g \in [0 .. Len(s) + 1 -> Int]  BY <1>1, <2>1 DEF IsSums
  <2>3. g[0] = 0  BY <1>1 DEF IsSums
  <2>4. ASSUME NEW i \in 1 .. Len(s) + 1 PROVE g[i] = g[i - 1] + t[i]
    BY <1>1, <1>2 DEF IsSums
  <2> QED  BY <1>2, <2>2, <2>3, <2>4 DEF IsSums
<1>5. RunningTotals(t) = g
  <2> HIDE DEF t, g
  <2> QED  BY <1>2, <1>3, <1>4, SumsUnique
<1>6. Total(t) = f[Len(s)] + x /\ f[Len(s)] \in Int
  BY <1>1, <1>2, <1>5 DEF Total, IsSums
<1> QED  BY <1>6 DEF Total

(* What is taken out of it was a part of the total.                         *)
LEMMA TotalTail ==
  ASSUME NEW s \in Seq(Int), s # <<>>
  PROVE  Total(s) = Head(s) + Total(Tail(s)) /\ Total(Tail(s)) \in Int
<1> DEFINE t == Tail(s)
<1> DEFINE f == RunningTotals(s)
<1> DEFINE g == [i \in 0 .. Len(s) - 1 |-> f[i + 1] - s[1]]
<1>1. IsSums(s, f)  BY SumsAreSums
<1>2. /\ t \in Seq(Int) /\ Len(t) = Len(s) - 1 /\ Len(s) \in Nat \ {0}
      /\ \A i \in 1 .. Len(s) - 1 : t[i] = s[i + 1]
      /\ s[1] \in Int /\ Head(s) = s[1]
  OBVIOUS
<1>3. IsSums(t, RunningTotals(t))  BY <1>2, SumsAreSums
<1>4. IsSums(t, g)
  <2> HIDE DEF t, f
  <2>1. ASSUME NEW i \in 0 .. Len(s) - 1 PROVE f[i + 1] \in Int
    <3>1. i + 1 \in 0 .. Len(s)  BY <1>2
    <3> QED  BY <1>1, <3>1 DEF IsSums
  <2>2. g \in [0 .. Len(s) - 1 -> Int]  BY SMTT(60), <1>2, <2>1
  <2>3. f[1] = f[0] + s[1] /\ f[0] = 0  BY <1>1, <1>2 DEF IsSums
  <2>4. g[0] = 0  BY <1>2, <2>3
  <2>5. ASSUME NEW i \in 1 .. Len(s) - 1 PROVE g[i] = g[i - 1] + t[i]
    <3>1. i + 1 \in 1 .. Len(s) /\ i - 1 \in 0 .. Len(s) - 1 /\ i \in 0 .. Len(s) - 1
      BY <1>2
    <3>2. f[i + 1] = f[i] + s[i + 1] /\ f[i] \in Int /\ s[i + 1] \in Int
      BY SMTT(60), <1>1, <3>1 DEF IsSums
    <3>3. g[i - 1] = f[i] - s[1] /\ g[i] = f[i + 1] - s[1]  BY <3>1
    <3> QED  BY SMTT(60), <1>2, <3>2, <3>3
  <2> QED  BY <1>2, <2>2, <2>4, <2>5 DEF IsSums
<1>5. RunningTotals(t) = g
  <2> HIDE DEF t, g
  <2> QED  BY <1>2, <1>3, <1>4, SumsUnique
<1>6. Total(t) = f[Len(s)] - s[1] /\ f[Len(s)] \in Int
  BY <1>1, <1>2, <1>5 DEF Total, IsSums
<1>7. Total(s) = f[Len(s)]  BY DEF Total
<1> QED  BY <1>2, <1>6, <1>7

(* The total of nothing.                                                    *)
LEMMA TotalEmpty == Total(<<>>) = 0
<1>1. << >> \in Seq(Int) /\ Len(<< >>) = 0  OBVIOUS
<1>2. IsSums(<< >>, RunningTotals(<< >>))  BY <1>1, SumsAreSums
<1> QED  BY <1>1, <1>2 DEF Total, IsSums

(* Elements of at least m make a total of at least m for each.              *)
LEMMA TotalAtLeast ==
  ASSUME NEW s \in Seq(Int), NEW m \in Nat, \A i \in 1 .. Len(s) : s[i] >= m
  PROVE  Total(s) >= Len(s) * m
<1> DEFINE f == RunningTotals(s)
<1>1. IsSums(s, f)  BY SumsAreSums
<1> HIDE DEF f
<1> DEFINE T == {i \in 0 .. Len(s) : f[i] < i * m}
<1>2. CASE T = {}
  <2>1. Len(s) \in 0 .. Len(s) /\ f[Len(s)] \in Int  BY <1>1 DEF IsSums
  <2>2. Len(s) * m \in Int  OBVIOUS
  <2>3. ~ (f[Len(s)] < Len(s) * m)  BY <1>2, <2>1
  <2>4. f[Len(s)] >= Len(s) * m  BY <2>1, <2>2, <2>3
  <2> QED  BY <2>4 DEF Total, f
<1>3. CASE T # {}
  <2>1. PICK n \in T : \A k \in T : n <= k
    <3>1. T \subseteq Nat  OBVIOUS
    <3> HIDE DEF T
    <3> QED  BY <1>3, <3>1, LeastNumber
  <2>2. n \in 0 .. Len(s) /\ f[n] < n * m  BY <2>1
  <2>3. n # 0  BY <2>2, <1>1 DEF IsSums
  <2>4. n - 1 \in 0 .. Len(s) /\ n - 1 \notin T  BY <2>1, <2>2, <2>3
  <2>5. ~ (f[n - 1] < (n - 1) * m)  BY <2>4
  <2>6. n \in 1 .. Len(s) /\ f[n] = f[n - 1] + s[n] /\ f[n - 1] \in Int /\ s[n] \in Int /\ s[n] >= m
    <3>1. n \in 1 .. Len(s)  BY <2>2, <2>3
    <3>2. s[n] \in Int /\ s[n] >= m  BY <3>1
    <3>3. f[n] = f[n - 1] + s[n] /\ f[n - 1] \in Int  BY <3>1, <2>4, <1>1 DEF IsSums
    <3> QED  BY <3>1, <3>2, <3>3
  <2>7. n * m = (n - 1) * m + m /\ (n - 1) * m \in Int  BY <2>6
  <2> QED  BY <2>2, <2>5, <2>6, <2>7
<1> QED  BY <1>2, <1>3

----------------------------------------------------------------------------
(* What CmsdkInvariant needs to be inductive: until the handler has cleared *)
(* its interrupt the event it raised is there; a printer that finds the     *)
(* UART full has lost a race; and the rate is never zero.                    *)
CmsdkInductive ==
  /\ CmsdkInvariant
  /\ clearing => shellEvent
  /\ uart.tx /\ putting # {} => happened.raced
  /\ uartData.initialized => uartData.rate # 0

(* The UART before its initialisation.                                      *)
LEMMA CmsdkInitial == CmsdkInit => CmsdkInductive
<1> SUFFICES ASSUME CmsdkInit PROVE CmsdkInductive  OBVIOUS
<1> USE DEF CmsdkInit
<1>1. CmsdkTypeOK  BY DEF CmsdkTypeOK
<1>2. InputGoesOn  BY DEF InputGoesOn
<1>3. PrintsWhole  BY DEF PrintsWhole
<1>4. RateIsTheClocks  BY DEF RateIsTheClocks
<1> QED  BY <1>1, <1>2, <1>3, <1>4 DEF CmsdkInductive, CmsdkInvariant

(* A clock divided by a rate.                                               *)
LEMMA Quotient == ASSUME NEW c \in Nat, NEW r \in Nat \ {0} PROVE c \div r \in Nat
OBVIOUS

(* Start-up.                                                                *)
LEMMA StartKeeps ==
  ASSUME CmsdkInductive,
         \/ \E clk \in Clocks : arm_uart_init(clk)
         \/ arm_uart_irq_rx_enable \/ Uart0RxIrqRegister
  PROVE  CmsdkInductive'
<1> USE DEF CmsdkInductive, CmsdkInvariant, CmsdkTypeOK
<1>1. ASSUME NEW clk \in Clocks, arm_uart_init(clk) PROVE CmsdkInductive'
  <2> USE <1>1 DEF arm_uart_init
  <2>1. clk \in Nat /\ DefaultRate \in Nat \ {0} /\ clk \div DefaultRate \in Nat
    BY CmsdkAssumption, Quotient
  <2> DEFINE d == clk \div DefaultRate
  <2>2. uart' = [uart EXCEPT !.div = d, !.ctrl = {"RX", "TX"}] /\ d \in Nat  BY <2>1
  <2>3. RateIsTheClocks'  BY <2>2 DEF RateIsTheClocks
  <2> HIDE DEF d
  <2>4. CmsdkTypeOK'  BY ZenonT(60), <2>1, <2>2
  <2>5. InputGoesOn' /\ PrintsWhole'  BY <2>2 DEF InputGoesOn, PrintsWhole
  <2> QED  BY <2>1, <2>2, <2>3, <2>4, <2>5
<1>2. CASE arm_uart_irq_rx_enable
  BY <1>2 DEF arm_uart_irq_rx_enable, InputGoesOn, PrintsWhole, RateIsTheClocks
<1>3. CASE Uart0RxIrqRegister
  BY <1>3 DEF Uart0RxIrqRegister, InputGoesOn, PrintsWhole, RateIsTheClocks
<1> QED  BY <1>1, <1>2, <1>3

(* A byte comes in, and is read.                                            *)
LEMMA InputKeeps ==
  ASSUME CmsdkInductive,
         \/ \E b \in Typed : Receive(b)
         \/ UartReceiveHandler \/ arm_uart_clear_interrupt \/ ShellWakes \/ UartGetc
  PROVE  CmsdkInductive'
<1> USE DEF CmsdkInductive, CmsdkInvariant, CmsdkTypeOK
<1>1. ASSUME NEW b \in Typed, Receive(b) PROVE CmsdkInductive'
  BY <1>1 DEF Receive, InputGoesOn, PrintsWhole, RateIsTheClocks
<1>2. CASE UartReceiveHandler
  BY <1>2 DEF UartReceiveHandler, InputGoesOn, PrintsWhole, RateIsTheClocks
<1>3. CASE arm_uart_clear_interrupt
  BY <1>3 DEF arm_uart_clear_interrupt, InputGoesOn, PrintsWhole, RateIsTheClocks
<1>4. CASE ShellWakes
  BY <1>4 DEF ShellWakes, InputGoesOn, PrintsWhole, RateIsTheClocks
<1>5. CASE UartGetc
  BY <1>5
  DEF UartGetc, arm_uart_read_NOT_READY, InputGoesOn, PrintsWhole, RateIsTheClocks
<1> QED  BY <1>1, <1>2, <1>3, <1>4, <1>5

(* Bytes are printed, by tasks that may have tested at once.                *)
LEMMA OutputKeeps ==
  ASSUME CmsdkInductive,
         \/ \E p \in Printers : arm_uart_write_tests(p) \/ UartPutc(p)
         \/ Sent
  PROVE  CmsdkInductive'
<1> USE DEF CmsdkInductive, CmsdkInvariant, CmsdkTypeOK
<1>1. ASSUME NEW p \in Printers, arm_uart_write_tests(p) PROVE CmsdkInductive'
  BY <1>1 DEF arm_uart_write_tests, InputGoesOn, PrintsWhole, RateIsTheClocks
<1>2. ASSUME NEW p \in Printers, UartPutc(p) PROVE CmsdkInductive'
  <2> USE <1>2 DEF UartPutc
  <2>1. CmsdkTypeOK'  OBVIOUS
  <2>2. InputGoesOn' /\ RateIsTheClocks'  BY DEF InputGoesOn, RateIsTheClocks
  <2>3. PrintsWhole' /\ (putting' # {} => happened.raced')  BY DEF PrintsWhole
  <2> QED  BY <2>1, <2>2, <2>3
<1>3. CASE Sent
  BY <1>3 DEF Sent, InputGoesOn, PrintsWhole, RateIsTheClocks
<1> QED  BY <1>1, <1>2, <1>3

(* The rate and the clock are set.                                          *)
LEMMA RateKeeps ==
  ASSUME CmsdkInductive,
         \/ \E clk \in Clocks : arm_uart_set_clock(clk)
         \/ \E r \in Rates : arm_uart_set_baudrate(r)
  PROVE  CmsdkInductive'
<1> USE DEF CmsdkInductive, CmsdkInvariant, CmsdkTypeOK
<1>1. ASSUME NEW clk \in Clocks, arm_uart_set_clock(clk) PROVE CmsdkInductive'
  <2> USE <1>1 DEF arm_uart_set_clock
  <2>1. clk \in Nat /\ uartData.rate \in Nat \ {0}  BY CmsdkAssumption
  <2> DEFINE d == clk \div uartData.rate
  <2>2. d \in Nat  BY <2>1, Quotient
  <2>3. uart' = [uart EXCEPT !.div = d]  OBVIOUS
  <2>4. RateIsTheClocks'  BY <2>1, <2>3 DEF RateIsTheClocks
  <2> HIDE DEF d
  <2>5. CmsdkTypeOK'  BY <2>1, <2>2, <2>3
  <2>6. InputGoesOn' /\ PrintsWhole'  BY <2>3 DEF InputGoesOn, PrintsWhole
  <2> QED  BY <2>1, <2>3, <2>4, <2>5, <2>6
<1>2. ASSUME NEW r \in Rates, arm_uart_set_baudrate(r) PROVE CmsdkInductive'
  <2> USE <1>2 DEF arm_uart_set_baudrate
  <2>1. r \in Nat \ {0} /\ uartData.clk \in Nat  BY CmsdkAssumption
  <2> DEFINE d == uartData.clk \div r
  <2>2. d \in Nat  BY <2>1, Quotient
  <2>3. /\ uart' = [uart EXCEPT !.div = IF d < 16 THEN @ ELSE d]
        /\ happened' = [happened EXCEPT !.refused = d < 16]
        /\ uartData' = [uartData EXCEPT !.rate = r]
    OBVIOUS
  <2>4. RateIsTheClocks'  BY <2>1, <2>2, <2>3 DEF RateIsTheClocks
  <2> HIDE DEF d
  <2>5. CmsdkTypeOK'
    <3>1. (d < 16) \in BOOLEAN  BY <2>2
    <3> QED  BY <2>1, <2>2, <2>3, <3>1
  <2>6. InputGoesOn' /\ PrintsWhole'  BY <2>3 DEF InputGoesOn, PrintsWhole
  <2> QED  BY <2>1, <2>3, <2>4, <2>5, <2>6
<1> QED  BY <1>1, <1>2

(* Every step of the console keeps it.                                      *)
LEMMA CmsdkStays == CmsdkInductive /\ [CmsdkNext]_cmsdkVars => CmsdkInductive'
<1> SUFFICES ASSUME CmsdkInductive, [CmsdkNext]_cmsdkVars PROVE CmsdkInductive'
  OBVIOUS
<1>1. CASE CmsdkNext
  BY <1>1, StartKeeps, InputKeeps, OutputKeeps, RateKeeps DEF CmsdkNext
<1>2. CASE UNCHANGED cmsdkVars
  BY <1>2
  DEF cmsdkVars, CmsdkInductive, CmsdkInvariant, CmsdkTypeOK, InputGoesOn, PrintsWhole,
      RateIsTheClocks
<1> QED  BY <1>1, <1>2

(* The console never leaves the inductive invariant: of its UART, its       *)
(* settings, its printers and its interrupt handler (UartGetc and            *)
(* arm_uart_init).                                                          *)
THEOREM CmsdkAlwaysInductive == CmsdkSpec => []CmsdkInductive
BY CmsdkInitial, CmsdkStays, PTL DEF CmsdkSpec

----------------------------------------------------------------------------
(* The state of the Ethernet chip and of its driver.                        *)
LanTypeOK ==
  /\ init \in [group : 1 .. 13, access : 1 .. 4]
  /\ init.access <= Len(G.accesses)
  /\ csrBusy \in BOOLEAN /\ miiBusy \in BOOLEAN /\ autoneg \in BOOLEAN
  /\ slow \in BOOLEAN /\ bad \in BOOLEAN
  /\ netif \in {"none", "up", "down"}
  /\ seen \subseteq {"TXEN", "RXEN"} /\ cr \subseteq {"TXEN", "RXEN"}

(* How far the initialisation has come, unless an access took too long: the *)
(* negotiation after the ninth group, the transmitter after the eleventh,   *)
(* each read of MAC_CR with what the write before it left.                  *)
InitSoFar ==
  /\ csrBusy => slow
  /\ netif = "down" => slow \/ bad
  /\ ~ slow /\ netif = "up" => autoneg /\ cr = {"TXEN", "RXEN"}
  /\ ~ slow /\ netif = "none" =>
       /\ init.group > 9 \/ (init.group = 9 /\ init.access = 4) => autoneg
       /\ init.group <= 11 => cr = {}
       /\ init.group = 11 => seen = {}
       /\ init.group \in {12, 13} => cr = {"TXEN"}
       /\ init.group = 13 => seen = {"TXEN"}

(* The accesses of the four kinds of group.                                 *)
LEMMA Accesses ==
  /\ Len(PhyRead) = 4 /\ Len(PhyWrite) = 4
  /\ Len(<<"cr_read">>) = 1 /\ Len(<<"cr_write">>) = 1
  /\ \A x \in 1 .. 4 : /\ PhyRead[x] \in {"idle", "go", "wait", "read"}
                       /\ PhyWrite[x] \in {"idle", "data", "go", "wait"}
                       /\ PhyWrite[x] = "go" <=> x = 3
  /\ <<"cr_read">>[1] = "cr_read" /\ <<"cr_write">>[1] = "cr_write"
BY DEF PhyRead, PhyWrite

(* The thirteen groups of accesses.                                         *)
Row(g, name, accesses) ==
  /\ lan9118_init[g].name = name
  /\ lan9118_init[g].accesses = accesses

(* The table of lan9118_init, row by row.                                   *)
LEMMA Groups ==
  /\ Len(lan9118_init) = 13
  /\ Row(1, "id1", PhyRead)
  /\ Row(2, "id2", PhyRead)
  /\ Row(3, "reset_read", PhyRead)
  /\ Row(4, "reset", PhyWrite)
  /\ Row(5, "check", PhyRead)
  /\ Row(6, "capabilities_read", PhyRead)
  /\ Row(7, "capabilities", PhyWrite)
  /\ Row(8, "link_read", PhyRead)
  /\ Row(9, "link", PhyWrite)
  /\ Row(10, "TXEN_read", <<"cr_read">>)
  /\ Row(11, "TXEN", <<"cr_write">>)
  /\ Row(12, "RXEN_read", <<"cr_read">>)
  /\ Row(13, "RXEN", <<"cr_write">>)
<1>0. Len(lan9118_init) = 13  BY DEF lan9118_init
<1>1. Row(1, "id1", PhyRead)
  <2>1. lan9118_init[1] = Group("id1", PhyRead)  BY DEF lan9118_init
  <2> QED  BY <2>1 DEF Group, Row
<1>2. Row(2, "id2", PhyRead)
  <2>1. lan9118_init[2] = Group("id2", PhyRead)  BY DEF lan9118_init
  <2> QED  BY <2>1 DEF Group, Row
<1>3. Row(3, "reset_read", PhyRead)
  <2>1. lan9118_init[3] = Group("reset_read", PhyRead)  BY DEF lan9118_init
  <2> QED  BY <2>1 DEF Group, Row
<1>4. Row(4, "reset", PhyWrite)
  <2>1. lan9118_init[4] = Group("reset", PhyWrite)  BY DEF lan9118_init
  <2> QED  BY <2>1 DEF Group, Row
<1>5. Row(5, "check", PhyRead)
  <2>1. lan9118_init[5] = Group("check", PhyRead)  BY DEF lan9118_init
  <2> QED  BY <2>1 DEF Group, Row
<1>6. Row(6, "capabilities_read", PhyRead)
  <2>1. lan9118_init[6] = Group("capabilities_read", PhyRead)  BY DEF lan9118_init
  <2> QED  BY <2>1 DEF Group, Row
<1>7. Row(7, "capabilities", PhyWrite)
  <2>1. lan9118_init[7] = Group("capabilities", PhyWrite)  BY DEF lan9118_init
  <2> QED  BY <2>1 DEF Group, Row
<1>8. Row(8, "link_read", PhyRead)
  <2>1. lan9118_init[8] = Group("link_read", PhyRead)  BY DEF lan9118_init
  <2> QED  BY <2>1 DEF Group, Row
<1>9. Row(9, "link", PhyWrite)
  <2>1. lan9118_init[9] = Group("link", PhyWrite)  BY DEF lan9118_init
  <2> QED  BY <2>1 DEF Group, Row
<1>10. Row(10, "TXEN_read", <<"cr_read">>)
  <2>1. lan9118_init[10] = Group("TXEN_read", <<"cr_read">>)  BY DEF lan9118_init
  <2> QED  BY <2>1 DEF Group, Row
<1>11. Row(11, "TXEN", <<"cr_write">>)
  <2>1. lan9118_init[11] = Group("TXEN", <<"cr_write">>)  BY DEF lan9118_init
  <2> QED  BY <2>1 DEF Group, Row
<1>12. Row(12, "RXEN_read", <<"cr_read">>)
  <2>1. lan9118_init[12] = Group("RXEN_read", <<"cr_read">>)  BY DEF lan9118_init
  <2> QED  BY <2>1 DEF Group, Row
<1>13. Row(13, "RXEN", <<"cr_write">>)
  <2>1. lan9118_init[13] = Group("RXEN", <<"cr_write">>)  BY DEF lan9118_init
  <2> QED  BY <2>1 DEF Group, Row
<1> QED
  BY <1>0, <1>1, <1>2, <1>3, <1>4, <1>5, <1>6, <1>7, <1>8, <1>9, <1>10, <1>11, <1>12, <1>13

(* The access the initialisation is at, by its group.                       *)
At9118(g, name, len) ==
  /\ init.group = g /\ G.name = name /\ Len(G.accesses) = len
  /\ len = 1 => init.access = 1
  /\ Access = "cr_read" <=> g \in {10, 12}
  /\ Access = "cr_write" <=> g \in {11, 13}
  /\ g = 9 => (Access = "go" <=> init.access = 3)

(* Where the driver may be in it.                                           *)
LEMMA Place ==
  ASSUME LanTypeOK
  PROVE
    \/ At9118(1, "id1", 4)
    \/ At9118(2, "id2", 4)
    \/ At9118(3, "reset_read", 4)
    \/ At9118(4, "reset", 4)
    \/ At9118(5, "check", 4)
    \/ At9118(6, "capabilities_read", 4)
    \/ At9118(7, "capabilities", 4)
    \/ At9118(8, "link_read", 4)
    \/ At9118(9, "link", 4)
    \/ At9118(10, "TXEN_read", 1)
    \/ At9118(11, "TXEN", 1)
    \/ At9118(12, "RXEN_read", 1)
    \/ At9118(13, "RXEN", 1)
<1> USE DEF LanTypeOK
<1>0. init.group \in 1 .. 13 /\ init.access \in 1 .. 4 /\ init.access <= Len(G.accesses)
  OBVIOUS
<1>1. CASE init.group = 1
  <2>1. G.name = "id1" /\ G.accesses = PhyRead  BY <1>1, Groups DEF G, Row
  <2>2. Access = PhyRead[init.access]  BY <2>1 DEF Access
  <2> QED  BY <1>0, <1>1, <2>1, <2>2, Accesses DEF At9118
<1>2. CASE init.group = 2
  <2>1. G.name = "id2" /\ G.accesses = PhyRead  BY <1>2, Groups DEF G, Row
  <2>2. Access = PhyRead[init.access]  BY <2>1 DEF Access
  <2> QED  BY <1>0, <1>2, <2>1, <2>2, Accesses DEF At9118
<1>3. CASE init.group = 3
  <2>1. G.name = "reset_read" /\ G.accesses = PhyRead  BY <1>3, Groups DEF G, Row
  <2>2. Access = PhyRead[init.access]  BY <2>1 DEF Access
  <2> QED  BY <1>0, <1>3, <2>1, <2>2, Accesses DEF At9118
<1>4. CASE init.group = 4
  <2>1. G.name = "reset" /\ G.accesses = PhyWrite  BY <1>4, Groups DEF G, Row
  <2>2. Access = PhyWrite[init.access]  BY <2>1 DEF Access
  <2> QED  BY <1>0, <1>4, <2>1, <2>2, Accesses DEF At9118
<1>5. CASE init.group = 5
  <2>1. G.name = "check" /\ G.accesses = PhyRead  BY <1>5, Groups DEF G, Row
  <2>2. Access = PhyRead[init.access]  BY <2>1 DEF Access
  <2> QED  BY <1>0, <1>5, <2>1, <2>2, Accesses DEF At9118
<1>6. CASE init.group = 6
  <2>1. G.name = "capabilities_read" /\ G.accesses = PhyRead  BY <1>6, Groups DEF G, Row
  <2>2. Access = PhyRead[init.access]  BY <2>1 DEF Access
  <2> QED  BY <1>0, <1>6, <2>1, <2>2, Accesses DEF At9118
<1>7. CASE init.group = 7
  <2>1. G.name = "capabilities" /\ G.accesses = PhyWrite  BY <1>7, Groups DEF G, Row
  <2>2. Access = PhyWrite[init.access]  BY <2>1 DEF Access
  <2> QED  BY <1>0, <1>7, <2>1, <2>2, Accesses DEF At9118
<1>8. CASE init.group = 8
  <2>1. G.name = "link_read" /\ G.accesses = PhyRead  BY <1>8, Groups DEF G, Row
  <2>2. Access = PhyRead[init.access]  BY <2>1 DEF Access
  <2> QED  BY <1>0, <1>8, <2>1, <2>2, Accesses DEF At9118
<1>9. CASE init.group = 9
  <2>1. G.name = "link" /\ G.accesses = PhyWrite  BY <1>9, Groups DEF G, Row
  <2>2. Access = PhyWrite[init.access]  BY <2>1 DEF Access
  <2> QED  BY <1>0, <1>9, <2>1, <2>2, Accesses DEF At9118
<1>10. CASE init.group = 10
  <2>1. G.name = "TXEN_read" /\ G.accesses = <<"cr_read">>  BY <1>10, Groups DEF G, Row
  <2>2. Len(G.accesses) = 1  BY <2>1, Accesses
  <2>3. init.access = 1  BY <1>0, <2>2
  <2>4. Access = "cr_read"  BY <2>1, <2>3, Accesses DEF Access
  <2> QED  BY <1>10, <2>1, <2>2, <2>3, <2>4 DEF At9118
<1>11. CASE init.group = 11
  <2>1. G.name = "TXEN" /\ G.accesses = <<"cr_write">>  BY <1>11, Groups DEF G, Row
  <2>2. Len(G.accesses) = 1  BY <2>1, Accesses
  <2>3. init.access = 1  BY <1>0, <2>2
  <2>4. Access = "cr_write"  BY <2>1, <2>3, Accesses DEF Access
  <2> QED  BY <1>11, <2>1, <2>2, <2>3, <2>4 DEF At9118
<1>12. CASE init.group = 12
  <2>1. G.name = "RXEN_read" /\ G.accesses = <<"cr_read">>  BY <1>12, Groups DEF G, Row
  <2>2. Len(G.accesses) = 1  BY <2>1, Accesses
  <2>3. init.access = 1  BY <1>0, <2>2
  <2>4. Access = "cr_read"  BY <2>1, <2>3, Accesses DEF Access
  <2> QED  BY <1>12, <2>1, <2>2, <2>3, <2>4 DEF At9118
<1>13. CASE init.group = 13
  <2>1. G.name = "RXEN" /\ G.accesses = <<"cr_write">>  BY <1>13, Groups DEF G, Row
  <2>2. Len(G.accesses) = 1  BY <2>1, Accesses
  <2>3. init.access = 1  BY <1>0, <2>2
  <2>4. Access = "cr_write"  BY <2>1, <2>3, Accesses DEF Access
  <2> QED  BY <1>13, <2>1, <2>2, <2>3, <2>4 DEF At9118
<1> QED
  BY <1>0, <1>1, <1>2, <1>3, <1>4, <1>5, <1>6, <1>7, <1>8, <1>9, <1>10, <1>11, <1>12, <1>13

(* Where the initialisation goes after an access.                           *)
Goes(there) == init' = there /\ netif' = netif

(* NextGroup and what follows a failure end in one of these places.         *)
LEMMA Onwards ==
  ASSUME LanTypeOK, Starting
  PROVE  /\ NextGroup => \/ init.group < 13 /\ Goes([group |-> init.group + 1, access |-> 1])
                         \/ init.group = 13 /\ init' = init /\ netif' = "up"
         /\ Succeeds =>
              \/ init.group < 10 /\ init.access < 4
                 /\ Goes([group |-> init.group, access |-> init.access + 1])
              \/ init.group < 10 /\ init.access = 4
                 /\ Goes([group |-> init.group + 1, access |-> 1])
              \/ init.group \in 10 .. 12 /\ Goes([group |-> init.group + 1, access |-> 1])
              \/ init.group = 13 /\ init' = init /\ netif' = "up"
         /\ Fails =>
              \/ init.group <= 5 /\ init' = init /\ netif' = "down"
              \/ init.group \in 6 .. 12 /\ Goes([group |-> init.group + 1, access |-> 1])
              \/ init.group = 13 /\ init' = init /\ netif' = "up"
<1>0. Len(lan9118_init) = 13  BY Groups
<1> DEFINE n == Len(G.accesses)
<1>p. /\ init.group \in 1 .. 13 /\ init.access \in 1 .. 4 /\ init.access <= n
      /\ init.group >= 10 => n = 1 /\ init.access = 1
      /\ init.group < 10 => n = 4
  BY Place DEF LanTypeOK, At9118
<1>1. NextGroup => \/ init.group < 13 /\ Goes([group |-> init.group + 1, access |-> 1])
                   \/ init.group = 13 /\ init' = init /\ netif' = "up"
  BY <1>0, <1>p DEF NextGroup, Goes
<1>2. ASSUME Succeeds
      PROVE  \/ init.group < 10 /\ init.access < 4
                /\ Goes([group |-> init.group, access |-> init.access + 1])
             \/ init.group < 10 /\ init.access = 4
                /\ Goes([group |-> init.group + 1, access |-> 1])
             \/ init.group \in 10 .. 12 /\ Goes([group |-> init.group + 1, access |-> 1])
             \/ init.group = 13 /\ init' = init /\ netif' = "up"
  <2> HIDE DEF n
  <2>1. CASE init.access < n
    <3>1. init' = [init EXCEPT !.access = @ + 1] /\ netif' = netif  BY <1>2, <2>1 DEF Succeeds, n
    <3>2. init = [group |-> init.group, access |-> init.access]  BY DEF LanTypeOK
    <3>3. init' = [group |-> init.group, access |-> init.access + 1]  BY <3>1, <3>2
    <3>4. init.group < 10 /\ init.access < 4  BY <1>p, <2>1
    <3> QED  BY <3>1, <3>3, <3>4 DEF Goes
  <2>2. CASE ~ (init.access < n)
    <3>1. NextGroup  BY <1>2, <2>2 DEF Succeeds, n
    <3>2. init.group < 10 => init.access = 4  BY <1>p, <2>2
    <3> QED  BY <1>p, <1>1, <3>1, <3>2
  <2> QED  BY <2>1, <2>2
<1>3. ASSUME Fails
      PROVE  \/ init.group <= 5 /\ init' = init /\ netif' = "down"
             \/ init.group \in 6 .. 12 /\ Goes([group |-> init.group + 1, access |-> 1])
             \/ init.group = 13 /\ init' = init /\ netif' = "up"
  BY <1>p, <1>1, <1>3 DEF Fails, Fatal
<1> QED  BY <1>1, <1>2, <1>3

(* What is at hand at each place of the initialisation.                     *)
LEMMA Here ==
  ASSUME LanTypeOK
  PROVE  /\ Access = "cr_read" <=> init.group \in {10, 12}
         /\ Access = "cr_write" <=> init.group \in {11, 13}
         /\ init.group = 9 => (Access = "go" <=> init.access = 3)
         /\ G.name = "link" <=> init.group = 9
         /\ G.name = "TXEN" <=> init.group = 11
         /\ G.name = "RXEN" <=> init.group = 13
         /\ G.name \in {"id2", "check"} <=> init.group \in {2, 5}
         /\ init.group \in 1 .. 13 /\ init.access \in 1 .. 4
BY Place DEF At9118, LanTypeOK

(* The initialisation stays among its accesses.                             *)
LEMMA MovesAreTyped ==
  ASSUME LanTypeOK, Starting, Succeeds \/ Fails
  PROVE  /\ init' \in [group : 1 .. 13, access : 1 .. 4]
         /\ init'.access <= Len(G.accesses)'
         /\ netif' \in {"none", "up", "down"}
<1> DEFINE n(g) == Len(lan9118_init[g].accesses)
<1>1. \A g \in 1 .. 13 : n(g) = IF g < 10 THEN 4 ELSE 1
  <2>1. /\ n(1) = 4 /\ n(2) = 4 /\ n(3) = 4 /\ n(4) = 4 /\ n(5) = 4
        /\ n(6) = 4 /\ n(7) = 4 /\ n(8) = 4 /\ n(9) = 4
    BY Groups, Accesses DEF Row
  <2>2. n(10) = 1 /\ n(11) = 1 /\ n(12) = 1 /\ n(13) = 1
    BY Groups, Accesses DEF Row
  <2> HIDE DEF n
  <2> QED  BY <2>1, <2>2
<1>2. Len(G.accesses)' = n(init'.group)  BY DEF G
<1>3. init \in [group : 1 .. 13, access : 1 .. 4] /\ init.access <= n(init.group)
  BY DEF LanTypeOK, G
<1> HIDE DEF n
<1>4. netif' \in {"none", "up", "down"}  BY Onwards DEF Goes, LanTypeOK
<1>5. CASE init' = init  BY <1>2, <1>3, <1>4, <1>5
<1>6. CASE init.group \in 1 .. 12 /\ init' = [group |-> init.group + 1, access |-> 1]
  <2>1. init.group + 1 \in 1 .. 13 /\ n(init.group + 1) >= 1  BY <1>1, <1>6
  <2> QED  BY <1>2, <1>4, <1>6, <2>1
<1>7. CASE /\ init.group < 10 /\ init.access < 4
           /\ init' = [group |-> init.group, access |-> init.access + 1]
  <2>1. n(init.group) = 4  BY <1>1, <1>3, <1>7
  <2> QED  BY <1>2, <1>3, <1>4, <1>7, <2>1
<1> QED  BY <1>3, <1>5, <1>6, <1>7, Onwards DEF Goes

(* Each access leaves the initialisation as far as it says.                 *)
LEMMA InitialisationKeeps ==
  ASSUME LanTypeOK, InitSoFar,
         AccessRefused \/ MacRead \/ HardwareBad \/ MacWrite \/ AccessDone
  PROVE  LanTypeOK' /\ InitSoFar'
<1> USE DEF LanTypeOK, InitSoFar
<1>1. CASE AccessRefused
  <2> USE <1>1 DEF AccessRefused
  <2>1. LanTypeOK'  BY MovesAreTyped
  <2>2. slow /\ slow' = slow  OBVIOUS
  <2> QED  BY <2>1, <2>2
<1>2. CASE MacRead
  <2> USE <1>2 DEF MacRead
  <2>1. LanTypeOK'  BY MovesAreTyped
  <2>2. CASE slow'
    BY <2>1, <2>2
  <2>3. CASE ~ slow'
    <3>1. /\ ~ slow /\ ~ csrBusy' /\ netif = "none" /\ bad' = bad /\ cr' = cr /\ autoneg' = autoneg
          /\ seen' = IF Access = "cr_read" THEN cr ELSE seen
          /\ Succeeds /\ Access \in {"idle", "wait", "read", "cr_read"}
      BY <2>3 DEF Starting
    <3>2. init.group \notin {11, 13} /\ (init.group = 9 => init.access # 3)
      BY <3>1, Here
    <3>3. init.group \in 1 .. 13 /\ init.access \in 1 .. 4
          /\ (Access = "cr_read" <=> init.group \in {10, 12})
      BY Here
    <3>4. \/ init.group < 10 /\ init.access < 4
             /\ Goes([group |-> init.group, access |-> init.access + 1])
          \/ init.group < 10 /\ init.access = 4
             /\ Goes([group |-> init.group + 1, access |-> 1])
          \/ init.group \in {10, 12} /\ Goes([group |-> init.group + 1, access |-> 1])
      BY <3>1, <3>2, <3>3, Onwards DEF Starting
    <3>5. CASE init.group < 10  BY <2>1, <3>1, <3>2, <3>3, <3>4, <3>5 DEF Goes
    <3>6. CASE init.group \in {10, 12}  BY <2>1, <3>1, <3>3, <3>4, <3>6 DEF Goes
    <3> QED  BY <3>3, <3>4, <3>5, <3>6
  <2> QED  BY <2>2, <2>3, <2>1
<1>3. CASE HardwareBad
  <2> USE <1>3 DEF HardwareBad
  <2>1. LanTypeOK'  BY MovesAreTyped
  <2>2. init.group \in {2, 5}  BY Here
  <2>3. netif' = "down" /\ bad' /\ slow' = slow /\ csrBusy' = csrBusy
    BY <2>2, Onwards DEF Starting
  <2> QED  BY <2>1, <2>3
<1>4. CASE MacWrite
  <2> USE <1>4 DEF MacWrite
  <2>1. LanTypeOK'
    <3>1. G.name \in {"TXEN", "RXEN"} \/ Access # "cr_write"  BY Here
    <3> QED  BY <3>1, MovesAreTyped
  <2>2. CASE slow'
    BY <2>1, <2>2
  <2>3. CASE ~ slow'
    <3>1. /\ ~ slow /\ ~ csrBusy' /\ netif = "none" /\ bad' = bad /\ seen' = seen
          /\ autoneg' = (autoneg \/ (Access = "go" /\ G.name = "link"))
          /\ cr' = IF Access = "cr_write" THEN seen \cup {G.name} ELSE cr
          /\ Succeeds /\ Access \in {"data", "go", "cr_write"}
      BY <2>3 DEF Starting
    <3>2. init.group \notin {10, 12}  BY <3>1, Here
    <3>3. /\ init.group \in 1 .. 13 /\ init.access \in 1 .. 4
          /\ Access = "cr_write" <=> init.group \in {11, 13}
          /\ init.group = 9 => (Access = "go" <=> init.access = 3)
          /\ G.name = "link" <=> init.group = 9
          /\ init.group = 11 => G.name = "TXEN"
          /\ init.group = 13 => G.name = "RXEN"
      BY Here
    <3>4. \/ init.group < 10 /\ init.access < 4
             /\ Goes([group |-> init.group, access |-> init.access + 1])
          \/ init.group < 10 /\ init.access = 4
             /\ Goes([group |-> init.group + 1, access |-> 1])
          \/ init.group = 11 /\ Goes([group |-> init.group + 1, access |-> 1])
          \/ init.group = 13 /\ init' = init /\ netif' = "up"
      BY <3>1, <3>2, <3>3, Onwards DEF Starting
    <3>a. /\ autoneg => autoneg'
          /\ init.group = 9 /\ init.access = 3 => autoneg'
      BY <3>1, <3>3
    <3>5. CASE init.group < 10
      <4>0. cr' = cr  BY <3>1, <3>3, <3>5
      <4>1. init.group = 9 => init.access # 4
        <5> SUFFICES ASSUME init.group = 9, init.access = 4 PROVE FALSE  OBVIOUS
        <5>1. Access = "wait"  BY Place, Groups DEF G, Row, Access, PhyWrite
        <5> QED  BY <3>1, <5>1
      <4>2. ~ slow' /\ ~ csrBusy' /\ netif = "none" /\ netif' = "none"  BY <2>3, <3>1, <3>4, <3>5 DEF Goes
      <4> QED  BY <2>1, <3>3, <3>a, <3>4, <3>5, <4>0, <4>1, <4>2 DEF Goes
    <3>6. CASE init.group = 11
      <4>1. cr' = {"TXEN"}  BY <3>1, <3>3, <3>6
      <4> QED  BY <2>1, <3>1, <3>a, <3>4, <3>6, <4>1 DEF Goes
    <3>7. CASE init.group = 13
      <4>1. cr' = {"TXEN", "RXEN"}  BY <3>1, <3>3, <3>7
      <4> QED  BY <2>1, <3>1, <3>a, <3>4, <3>7, <4>1 DEF Goes
    <3> QED  BY <3>3, <3>4, <3>5, <3>6, <3>7
  <2> QED  BY <2>2, <2>3, <2>1
<1>5. CASE AccessDone
  <2> USE <1>5 DEF AccessDone
  <2>1. LanTypeOK'  BY DEF G
  <2>2. UNCHANGED <<init, seen, cr, autoneg, netif, slow, bad>> /\ (csrBusy' => csrBusy)
    OBVIOUS
  <2> QED  BY <2>1, <2>2
<1> QED  BY <1>1, <1>2, <1>3, <1>4, <1>5

(* Bytes in words: the whole words and the one with the rest.               *)
LEMMA WordsOf ==
  /\ Words(0) = 0
  /\ \A b \in Nat : /\ Words(b) \in Nat
                    /\ empty_rx_fifo(b) = Words(b)
                    /\ fill_tx_fifo(b) = Words(b)
  /\ \A b, c \in Nat : b <= c => Words(b) <= Words(c)
  /\ \A b \in Nat, k \in Int : b <= 4 * k => Words(b) <= k
BY DEF Words, empty_rx_fifo, fill_tx_fifo

(* Two commands ask for what is written, but for a length of whole words.   *)
LEMMA DeclaredOf ==
  ASSUME NEW b \in Nat
  PROVE  Declared(b) - fill_tx_fifo(b) \in Int /\ (Declared(b) - fill_tx_fifo(b) > 0 => b % 4 = 0)
<1> DEFINE q == b \div 4
<1> DEFINE r == b % 4
<1>1. q \in Nat /\ r \in 0 .. 3 /\ b = 4 * q + r  OBVIOUS
<1>2. fill_tx_fifo(b) = q + (IF r > 0 THEN 1 ELSE 0)  BY DEF fill_tx_fifo
<1>3. Declared(b) = ((4 - r) + b + 3) \div 4  BY DEF Declared, DataStartOffset, Words
<1> HIDE DEF q, r
<1>4. (4 - r) + b + 3 = 4 * (q + 1) + 3  BY <1>1
<1>5. (4 * (q + 1) + 3) \div 4 = q + 1  BY <1>1
<1>6. Declared(b) = q + 1  BY <1>3, <1>4, <1>5
<1> QED  BY <1>1, <1>2, <1>6 DEF r

(* As many as fit.                                                          *)
LEMMA QuotientBound ==
  ASSUME NEW a \in Nat, NEW b \in Nat, NEW k \in Nat, k >= 2, a * k <= b
  PROVE  a <= b \div k
OBVIOUS

(* The words of the packets whose status is in the FIFO.                    *)
FrameWords(s) == [i \in DOMAIN s |-> Words(s[i])]

(* A status more is its words more.                                         *)
LEMMA FrameWordsOf ==
  ASSUME NEW s \in Seq(Nat)
  PROVE  /\ FrameWords(s) \in Seq(Int)
         /\ \A n \in Nat : FrameWords(Append(s, n)) = Append(FrameWords(s), Words(n))
         /\ s # <<>> => /\ FrameWords(Tail(s)) = Tail(FrameWords(s))
                        /\ FrameWords(s) # <<>> /\ Head(FrameWords(s)) = Words(Head(s))
                        /\ Head(s) \in Nat
         /\ FrameWords(<<>>) = <<>>
<1>1. \A n \in Nat : Words(n) \in Nat  BY WordsOf
<1> DEFINE w(t) == FrameWords(t)
<1>2. ASSUME NEW t \in Seq(Nat)
      PROVE  w(t) \in Seq(Int) /\ Len(w(t)) = Len(t) /\ \A i \in 1 .. Len(t) : w(t)[i] = Words(t[i])
  <2>1. DOMAIN t = 1 .. Len(t) /\ Len(t) \in Nat /\ \A i \in 1 .. Len(t) : t[i] \in Nat
    OBVIOUS
  <2>2. w(t) = [i \in 1 .. Len(t) |-> Words(t[i])]  BY <2>1 DEF FrameWords
  <2>3. \A i \in 1 .. Len(t) : Words(t[i]) \in Int  BY <1>1, <2>1
  <2> QED  BY <2>1, <2>2, <2>3
<1> HIDE DEF w
<1>3. ASSUME NEW n \in Nat PROVE w(Append(s, n)) = Append(w(s), Words(n))
  <2> DEFINE a == w(Append(s, n))
  <2> DEFINE b == Append(w(s), Words(n))
  <2>1. /\ Append(s, n) \in Seq(Nat) /\ Len(Append(s, n)) = Len(s) + 1
        /\ Words(n) \in Int /\ w(s) \in Seq(Int)
    BY <1>1, <1>2
  <2>2. /\ a \in Seq(Int) /\ Len(a) = Len(s) + 1
        /\ \A i \in 1 .. Len(s) + 1 : a[i] = Words(Append(s, n)[i])
    BY <1>2, <2>1
  <2>3. /\ b \in Seq(Int) /\ Len(b) = Len(s) + 1 /\ b[Len(s) + 1] = Words(n)
        /\ \A i \in 1 .. Len(s) : b[i] = Words(s[i])
    BY <1>2, <2>1, AppendProperties
  <2>4. Append(s, n)[Len(s) + 1] = n /\ \A i \in 1 .. Len(s) : Append(s, n)[i] = s[i]
    OBVIOUS
  <2> HIDE DEF a, b
  <2>5. \A i \in 1 .. Len(a) : a[i] = b[i]  BY <2>2, <2>3, <2>4
  <2>6. a = b  BY <2>2, <2>3, <2>5, SeqEqual
  <2> QED  BY <2>6 DEF a, b
<1>4. ASSUME s # <<>>
      PROVE  /\ w(Tail(s)) = Tail(w(s))
             /\ w(s) # <<>> /\ Head(w(s)) = Words(Head(s))
             /\ Head(s) \in Nat
  <2>1. /\ Len(s) \in Nat \ {0} /\ Tail(s) \in Seq(Nat) /\ Len(Tail(s)) = Len(s) - 1
        /\ \A i \in 1 .. Len(s) - 1 : Tail(s)[i] = s[i + 1]
        /\ Head(s) = s[1] /\ s[1] \in Nat
    BY <1>4
  <2>2. w(s) \in Seq(Int) /\ Len(w(s)) = Len(s) /\ \A i \in 1 .. Len(s) : w(s)[i] = Words(s[i])
    BY <1>2
  <2>3. w(s) # <<>> /\ Head(w(s)) = w(s)[1]  BY <2>1, <2>2
  <2> DEFINE a == w(Tail(s))
  <2> DEFINE b == Tail(w(s))
  <2>4. /\ a \in Seq(Int) /\ Len(a) = Len(s) - 1
        /\ \A i \in 1 .. Len(s) - 1 : a[i] = Words(s[i + 1])
    BY <1>2, <2>1
  <2>5. /\ b \in Seq(Int) /\ Len(b) = Len(s) - 1
        /\ \A i \in 1 .. Len(s) - 1 : b[i] = w(s)[i + 1]
    BY <2>1, <2>2, <2>3, HeadTailProperties
  <2> HIDE DEF a, b
  <2>6. ASSUME NEW i \in 1 .. Len(a) PROVE a[i] = b[i]
    <3>1. i \in 1 .. Len(s) - 1 /\ i + 1 \in 1 .. Len(s)  BY <2>1, <2>4
    <3> QED  BY <2>2, <2>4, <2>5, <3>1
  <2>7. a = b  BY <2>4, <2>5, <2>6, SeqEqual
  <2> QED  BY <2>1, <2>2, <2>3, <2>7 DEF a, b
<1>5. FrameWords(<<>>) = <<>>  BY DEF FrameWords
<1> QED  BY <1>2, <1>3, <1>4, <1>5 DEF w

(* The receive side of the chip, and the handler.                           *)
RxWell ==
  /\ arriving \in Nat /\ rxWords \in Int
  /\ rxStatus \in Seq(Nat) /\ arrived \in Seq(Nat) /\ delivered \in Seq(Nat)
  /\ handler = "receive" => rxStatus # <<>>
  /\ RxFramed /\ RxInOrder

(* The transmit side: no frame in the FIFO is shorter than the shortest.    *)
Least == CHOOSE n \in TxLengths : \A m \in TxLengths : n <= m
TxWell ==
  /\ txFrames \in Seq(Nat) /\ txStatus \in Nat /\ lastTx \in Nat
  /\ \A i \in 1 .. Len(txFrames) : txFrames[i] >= 2 + Words(Least)
  /\ Total(txFrames) <= TX_FIFO + 2
  /\ txStatus + Len(txFrames) <= (TX_FIFO + 2) \div (2 + Words(Least))
  /\ TxWholeUnlessAligned

(* Among the lengths of the frames there is a shortest.                     *)
LEMMA LeastIsLeast == Least \in TxLengths /\ (\A m \in TxLengths : Least <= m) /\ Least \in Nat
<1>1. TxLengths \subseteq Nat /\ TxLengths # {}  BY LanAssumption
<1>2. \E n \in TxLengths : \A m \in TxLengths : n <= m  BY <1>1, LeastNumber
<1> QED  BY <1>1, <1>2 DEF Least

(* A queue of numbers stays one with a number more, and is not empty.        *)
LEMMA AppendOne ==
  ASSUME NEW s \in Seq(Nat), NEW n \in Nat
  PROVE  Append(s, n) \in Seq(Nat) /\ Append(s, n) # <<>>
BY AppendProperties

(* Packets arrive, and the handler takes them.                              *)
LEMMA ReceptionKeeps ==
  ASSUME RxWell, Arrive \/ EthernetReceiveHandler
  PROVE  RxWell'
<1> USE DEF RxWell
<1>0. RxFramed <=> rxWords = Total(FrameWords(rxStatus)) + Words(arriving)
  BY DEF RxFramed, FrameWords
<1>0p. RxFramed' <=> rxWords' = Total(FrameWords(rxStatus')) + Words(arriving')
  BY DEF RxFramed, FrameWords
<1>w. Words(0) = 0 /\ \A b \in Nat : Words(b) \in Nat /\ empty_rx_fifo(b) = Words(b)
  BY WordsOf
<1>t. Total(FrameWords(rxStatus)) \in Int  BY FrameWordsOf, TotalAppend
<1>x. Words(arriving) \in Int /\ (rxStatus # <<>> => Words(Head(rxStatus)) \in Int)
  <2>1. \A b \in Nat : Words(b) \in Int  BY <1>w
  <2>2. rxStatus # <<>> => Head(rxStatus) \in Nat  BY HeadTailProperties
  <2> QED  BY <2>1, <2>2
<1>1. CASE Arrive
  <2> USE <1>1 DEF Arrive
  <2>1. CASE /\ arriving = 0
             /\ \E n \in RxLengths : arriving' = n /\ rxWords' = rxWords + Words(n)
             /\ UNCHANGED <<rxStatus, arrived, irqStatus>>
    <3>1. PICK n \in RxLengths : arriving' = n /\ rxWords' = rxWords + Words(n)  BY <2>1
    <3>2. n \in Nat /\ Words(n) \in Nat  BY LanAssumption, <1>w
    <3>3. RxFramed'  BY <1>0, <1>0p, <1>w, <1>t, <2>1, <3>1, <3>2
    <3> QED  BY <2>1, <3>1, <3>2, <3>3 DEF RxInOrder
  <2>2. CASE /\ arriving # 0
             /\ arriving' = 0
             /\ rxStatus' = Append(rxStatus, arriving)
             /\ arrived' = Append(arrived, arriving)
             /\ UNCHANGED <<rxWords, irqStatus>>
    <3>1. FrameWords(rxStatus') = Append(FrameWords(rxStatus), Words(arriving))
      BY <2>2, FrameWordsOf
    <3>2. Total(FrameWords(rxStatus')) = Total(FrameWords(rxStatus)) + Words(arriving)
      BY <1>w, <3>1, FrameWordsOf, TotalAppend
    <3>3. RxFramed'  BY <1>0, <1>0p, <1>w, <1>t, <2>2, <3>2
    <3>4. rxStatus' \in Seq(Nat) /\ arrived' \in Seq(Nat) /\ rxStatus' # <<>>
      <4>1. arriving \in Nat /\ rxStatus \in Seq(Nat) /\ arrived \in Seq(Nat)  OBVIOUS
      <4>2. /\ Append(rxStatus, arriving) \in Seq(Nat) /\ Append(arrived, arriving) \in Seq(Nat)
            /\ Append(rxStatus, arriving) # <<>>
        BY Zenon, <4>1, AppendOne
      <4> QED  BY Zenon, <2>2, <4>2
    <3>5. RxInOrder'
      <4>1. delivered \o Append(rxStatus, arriving) = Append(delivered \o rxStatus, arriving)
        BY SMTT(60), ConcatAppend
      <4>2. delivered' = delivered  OBVIOUS
      <4>3. delivered \o rxStatus = arrived  BY DEF RxInOrder
      <4> QED  BY <2>2, <4>1, <4>2, <4>3 DEF RxInOrder
    <3> QED  BY <2>2, <3>3, <3>4, <3>5
  <2>3. CASE UNCHANGED <<arriving, rxWords, rxStatus, arrived>>
    BY <2>3 DEF RxFramed, RxInOrder
  <2> QED  BY <2>1, <2>2, <2>3
<1>2. CASE lan9118_receive_by_chunks
  <2> USE <1>2 DEF lan9118_receive_by_chunks, HandlerUnchanged, At
  <2>1. rxStatus # <<>> /\ Head(rxStatus) \in Nat  BY FrameWordsOf
  <2>2. rxStatus' = Tail(rxStatus) /\ rxWords' = rxWords - Words(Head(rxStatus))  BY <1>w, <2>1
  <2>3. /\ FrameWords(rxStatus') = Tail(FrameWords(rxStatus))
        /\ Head(FrameWords(rxStatus)) = Words(Head(rxStatus))
        /\ FrameWords(rxStatus) # <<>>
    BY <2>1, <2>2, FrameWordsOf
  <2>4. Total(FrameWords(rxStatus)) = Words(Head(rxStatus)) + Total(FrameWords(rxStatus'))
        /\ Total(FrameWords(rxStatus')) \in Int
    BY <2>3, FrameWordsOf, TotalTail
  <2>5. RxFramed'
    <3>1. arriving' = arriving  OBVIOUS
    <3>2. Words(arriving) \in Int /\ Words(Head(rxStatus)) \in Int  BY <1>x, <2>1
    <3> QED  BY <1>0, <1>0p, <1>t, <2>2, <2>4, <3>1, <3>2
  <2>6. RxInOrder'
    <3>1. Append(delivered, Head(rxStatus)) \o Tail(rxStatus) = delivered \o rxStatus
      BY <2>1, ConcatMove
    <3>2. delivered' = Append(delivered, Head(rxStatus)) /\ arrived' = arrived  OBVIOUS
    <3>3. delivered \o rxStatus = arrived  BY DEF RxInOrder
    <3> QED  BY <2>2, <3>1, <3>2, <3>3 DEF RxInOrder
  <2>7. rxStatus' \in Seq(Nat) /\ delivered' \in Seq(Nat) /\ rxWords' \in Int
    BY <2>1, <2>2, <1>w
  <2> QED  BY <2>5, <2>6, <2>7
<1>3. CASE HandlerClear \/ HandlerDisable \/ LowLevelInput \/ HandlerEnable
  BY <1>3
  DEF HandlerClear, HandlerDisable, LowLevelInput, HandlerEnable, HandlerUnchanged, At,
      RxFramed, RxInOrder
<1> QED  BY <1>1, <1>2, <1>3 DEF EthernetReceiveHandler

(* Frames are put into the FIFO, and leave it.                              *)
LEMMA TransmissionKeeps ==
  ASSUME TxWell, (\E n \in TxLengths : Lan9118LinkOut(n)) \/ Transmit
  PROVE  TxWell'
<1> USE DEF TxWell
<1> DEFINE m == 2 + Words(Least)
<1> DEFINE total == Total(txFrames)
<1>m. m \in Nat /\ m >= 2 /\ Words(Least) \in Nat
  <2>1. Words(Least) \in Nat  BY LeastIsLeast, WordsOf
  <2> QED  BY <2>1
<1>s. txFrames \in Seq(Int) /\ total \in Int  BY TotalAppend
<1>f. TX_FIFO \in Nat  BY LanAssumption
<1>l. ASSUME NEW s \in Seq(Nat), \A i \in 1 .. Len(s) : s[i] >= m, Total(s) <= TX_FIFO + 2
      PROVE  Len(s) <= (TX_FIFO + 2) \div m
  <2>1. s \in Seq(Int) /\ Total(s) \in Int  BY <1>l, TotalAppend
  <2>2. Total(s) >= Len(s) * m
    <3> HIDE DEF m
    <3> QED  BY <1>l, <1>m, <2>1, TotalAtLeast
  <2>3. Len(s) \in Nat /\ Len(s) * m \in Int  BY <1>m
  <2>4. Len(s) * m <= TX_FIFO + 2  BY <1>f, <1>l, <2>1, <2>2, <2>3
  <2>5. TX_FIFO + 2 \in Nat  BY <1>f
  <2> HIDE DEF m
  <2> QED  BY <1>m, <2>3, <2>4, <2>5, QuotientBound
<1>1. ASSUME NEW n \in TxLengths, Lan9118LinkOut(n) PROVE TxWell'
  <2> USE <1>1 DEF Lan9118LinkOut
  <2>0. n \in Nat /\ Words(n) \in Nat /\ fill_tx_fifo(n) = Words(n) /\ Words(Least) <= Words(n)
    BY LanAssumption, LeastIsLeast, WordsOf
  <2>1. CASE n > 4 * (TX_FIFO - total)
    BY <2>1 DEF TxWholeUnlessAligned
  <2>2. CASE ~ (n > 4 * (TX_FIFO - total))
    <3>1. /\ txFrames' = Append(txFrames, 2 + Words(n))
          /\ txWanted' = Declared(n) - fill_tx_fifo(n)
          /\ txStatus' = IF txStatus > 0 THEN txStatus - 1 ELSE 0
          /\ lastTx' = n
      BY <2>0, <2>2
    <3>2. Words(n) <= TX_FIFO - total  BY SMTT(60), <1>s, <1>f, <2>0, <2>2, WordsOf
    <3>3. Total(txFrames)' = total + 2 + Words(n)
      <4>1. 2 + Words(n) \in Int  BY <2>0
      <4> QED  BY <1>s, <2>0, <3>1, <4>1, TotalAppend
    <3>4. Total(txFrames)' <= TX_FIFO + 2  BY <1>s, <1>f, <2>0, <3>2, <3>3
    <3>5. txFrames' \in Seq(Nat) /\ Len(txFrames') = Len(txFrames) + 1  BY <2>0, <3>1
    <3>6. ASSUME NEW i \in 1 .. Len(txFrames') PROVE txFrames'[i] >= m
      <4>1. 2 + Words(n) >= m  BY <2>0, <1>m
      <4>2. CASE i \in 1 .. Len(txFrames)
        <5>1. txFrames'[i] = txFrames[i]  BY <2>0, <3>1, <4>2
        <5> QED  BY <4>2, <5>1
      <4>3. CASE i = Len(txFrames) + 1
        <5>1. txFrames'[i] = 2 + Words(n)  BY <2>0, <3>1, <4>3
        <5> QED  BY <4>1, <5>1
      <4> QED  BY <3>5, <4>2, <4>3
    <3>7. Len(txFrames') <= (TX_FIFO + 2) \div m  BY <1>l, <3>4, <3>5, <3>6
    <3>8. txStatus' \in Nat /\ txStatus' + Len(txFrames') <= (TX_FIFO + 2) \div m
      <4> DEFINE k == (TX_FIFO + 2) \div m
      <4>1. txStatus + Len(txFrames) <= k /\ Len(txFrames') <= k  BY <3>7
      <4>2. Len(txFrames) \in Nat /\ txStatus \in Nat /\ k \in Int  BY <1>m, <1>f
      <4> HIDE DEF k
      <4>3. txStatus' \in Nat /\ txStatus' + Len(txFrames') <= k
        BY <3>1, <3>5, <4>1, <4>2
      <4> QED  BY <4>3 DEF k
    <3>9. TxWholeUnlessAligned'  BY <2>0, <3>1, DeclaredOf DEF TxWholeUnlessAligned
    <3> QED  BY <2>0, <3>1, <3>4, <3>5, <3>6, <3>8, <3>9
  <2> QED  BY <2>1, <2>2
<1>2. CASE Transmit
  <2> USE <1>2 DEF Transmit
  <2>1. /\ txFrames # <<>> /\ Len(txFrames) \in Nat \ {0}
        /\ txFrames' = Tail(txFrames) /\ txStatus' = txStatus + 1
        /\ txWanted' = txWanted /\ lastTx' = lastTx
    OBVIOUS
  <2>2. /\ txFrames' \in Seq(Nat) /\ Len(txFrames') = Len(txFrames) - 1
        /\ \A i \in 1 .. Len(txFrames') : txFrames'[i] = txFrames[i + 1]
        /\ Head(txFrames) \in Nat
    BY <2>1
  <2>3. total = Head(txFrames) + Total(txFrames') /\ Total(txFrames') \in Int
    BY <1>s, <2>1, TotalTail
  <2>4. Total(txFrames)' <= TX_FIFO + 2  BY <1>s, <1>f, <2>2, <2>3
  <2>5. \A i \in 1 .. Len(txFrames') : txFrames'[i] >= 2 + Words(Least)  BY <2>1, <2>2
  <2>6. txStatus' \in Nat /\ txStatus' + Len(txFrames') = txStatus + Len(txFrames)
    BY <2>1, <2>2
  <2> QED  BY <2>1, <2>2, <2>4, <2>5, <2>6 DEF TxWholeUnlessAligned
<1> QED  BY <1>1, <1>2

(* What LanInvariant needs to be inductive.                                 *)
LanInductive == LanTypeOK /\ InitSoFar /\ RxWell /\ TxWell

(* It says all that LanInvariant says.                                       *)
LEMMA LanInductiveSafe == LanInductive => LanInvariant
<1> SUFFICES ASSUME LanInductive PROVE LanInvariant  OBVIOUS
<1> USE DEF LanInductive
<1>1. InitWhole  BY DEF InitSoFar, InitWhole
<1>2. TxBounded  BY DEF TxWell, TxBounded, Least
<1> QED  BY <1>1, <1>2 DEF LanInvariant, RxWell, TxWell

(* Out of the chip's reset.                                                 *)
LEMMA LanInitial == LanInit => LanInductive
<1> SUFFICES ASSUME LanInit PROVE LanInductive  OBVIOUS
<1> USE DEF LanInit
<1>1. LanTypeOK
  <2>1. G.accesses = PhyRead  BY Groups DEF G, Row
  <2>2. init.access <= Len(G.accesses)  BY <2>1, Accesses
  <2>3. init \in [group : 1 .. 13, access : 1 .. 4]  OBVIOUS
  <2> QED  BY <2>2, <2>3 DEF LanTypeOK
<1>2. InitSoFar  BY DEF InitSoFar
<1>3. RxWell
  <2>1. FrameWords(<<>>) = <<>> /\ Words(0) = 0 /\ Total(<<>>) = 0
    <3>1. << >> \in Seq(Nat)  OBVIOUS
    <3> QED  BY <3>1, FrameWordsOf, WordsOf, TotalEmpty
  <2>2. RxFramed  BY <2>1 DEF RxFramed, FrameWords
  <2>3. RxInOrder  BY DEF RxInOrder
  <2> QED  BY <2>2, <2>3 DEF RxWell
<1>4. TxWell
  <2>1. Words(Least) \in Nat /\ TX_FIFO \in Nat  BY LeastIsLeast, WordsOf, LanAssumption
  <2>2. 0 <= (TX_FIFO + 2) \div (2 + Words(Least))
    <3>1. ASSUME NEW a \in Nat, NEW b \in Nat PROVE 0 <= (a + 2) \div (2 + b)  OBVIOUS
    <3> QED  BY <2>1, <3>1
  <2>3. Total(txFrames) = 0 /\ Len(txFrames) = 0 /\ txFrames \in Seq(Nat)  BY TotalEmpty
  <2> QED  BY <2>1, <2>2, <2>3 DEF TxWell, TxWholeUnlessAligned
<1> QED  BY <1>1, <1>2, <1>3, <1>4 DEF LanInductive

(* Every step of the chip and of its driver keeps it.                       *)
LEMMA LanStays == LanInductive /\ [LanNext]_lanVars => LanInductive'
<1> SUFFICES ASSUME LanInductive, [LanNext]_lanVars PROVE LanInductive'
  OBVIOUS
<1> USE DEF LanInductive
<1>a. ASSUME UNCHANGED initVarsLan PROVE LanTypeOK' /\ InitSoFar'
  BY <1>a DEF initVarsLan, LanTypeOK, InitSoFar, G
<1>b. ASSUME UNCHANGED <<handler, arriving, rxWords, rxStatus, arrived, delivered>> PROVE RxWell'
  BY <1>b DEF RxWell, RxFramed, RxInOrder
<1>c. ASSUME UNCHANGED txVarsLan PROVE TxWell'
  BY <1>c DEF txVarsLan, TxWell, TxWholeUnlessAligned
<1>1. CASE AccessRefused \/ MacRead \/ HardwareBad \/ MacWrite \/ AccessDone
  <2>1. UNCHANGED <<handler, arriving, rxWords, rxStatus, arrived, delivered>>
        /\ UNCHANGED txVarsLan
    BY <1>1
    DEF AccessRefused, MacRead, HardwareBad, MacWrite, AccessDone, InitUnchanged, rxVarsLan
  <2> QED  BY <1>1, <1>b, <1>c, <2>1, InitialisationKeeps
<1>2. CASE Arrive \/ EthernetReceiveHandler
  <2>1. UNCHANGED initVarsLan /\ UNCHANGED txVarsLan
    BY <1>2
    DEF Arrive, EthernetReceiveHandler, HandlerClear, HandlerDisable, LowLevelInput,
        lan9118_receive_by_chunks, HandlerEnable, HandlerUnchanged
  <2> QED  BY <1>2, <1>a, <1>c, <2>1, ReceptionKeeps
<1>3. CASE (\E n \in TxLengths : Lan9118LinkOut(n)) \/ Transmit
  <2>1. UNCHANGED initVarsLan /\ UNCHANGED rxVarsLan  BY <1>3 DEF Lan9118LinkOut, Transmit
  <2> QED  BY <1>3, <1>a, <1>b, <2>1, TransmissionKeeps DEF rxVarsLan
<1>4. CASE UNCHANGED lanVars
  BY <1>4, <1>a, <1>b, <1>c DEF lanVars, rxVarsLan
<1> QED  BY <1>1, <1>2, <1>3, <1>4 DEF LanNext

(* The Ethernet chip and its driver never leave the inductive invariant:    *)
(* the initialisation, the interrupt handler and the task that sends         *)
(* (lan9118_init, EthernetReceiveHandler, Lan9118LinkOut).                   *)
THEOREM LanAlwaysInductive == LanSpec => []LanInductive
BY LanInitial, LanStays, PTL DEF LanSpec

----------------------------------------------------------------------------
(* Quotient and remainder are those of any way to write x as q * p + r.      *)
LEMMA Division ==
  ASSUME NEW p \in Nat \ {0}, NEW q \in Int, NEW r \in 0 .. p - 1
  PROVE  (p * q + r) % p = r /\ (p * q + r) \div p = q
<1> DEFINE x == p * q + r
           d == q - (x \div p)
<1>1. x \in Int /\ x \div p \in Int /\ x % p \in 0 .. p - 1 /\ x = (p * (x \div p)) + (x % p)
  OBVIOUS
<1>2. d \in Int /\ p * d = (x % p) - r  BY <1>1
<1>3. d = 0
  <2>1. CASE d >= 1
    <3>1. p * d >= p  BY <2>1, <1>2
    <3> QED  BY <3>1, <1>1, <1>2
  <2>2. CASE d <= -1
    <3>1. p * d <= -p  BY <2>2, <1>2
    <3> QED  BY <3>1, <1>1, <1>2
  <2> QED  BY <2>1, <2>2, <1>2
<1> QED  BY <1>1, <1>2, <1>3

(* The word after one that is not the last of its page is in the same page;  *)
(* a page after the start of a page another begins; and the start of a block *)
(* is in the block.                                                          *)
LEMMA PageFacts ==
  ASSUME NEW p \in Nat \ {0}, NEW w \in Nat
  PROVE  /\ w % p \in 0 .. p - 1 /\ w \div p \in Nat
         /\ (w % p) + 1 < p => (w + 1) % p = (w % p) + 1 /\ (w + 1) \div p = w \div p
         /\ (w + (p - (w % p))) % p = 0
         /\ w - (w % p) \in Nat /\ (w - (w % p)) % p = 0
<1> DEFINE q == w \div p
           r == w % p
<1>1. r \in 0 .. p - 1 /\ q \in Nat /\ w = p * q + r  OBVIOUS
<1> HIDE DEF q, r
<1>2. ASSUME r + 1 < p PROVE (w + 1) % p = r + 1 /\ (w + 1) \div p = q
  <2>1. r + 1 \in 0 .. p - 1  BY <1>1, <1>2
  <2>2. w + 1 = p * q + (r + 1)  BY <1>1
  <2>3. (p * q + (r + 1)) % p = r + 1 /\ (p * q + (r + 1)) \div p = q  BY <1>1, <2>1, Division
  <2> QED  BY <2>2, <2>3
<1>3. (w + (p - r)) % p = 0
  <2>1. w + (p - r) = p * (q + 1) + 0
    <3>1. p * (q + 1) = p * q + p  BY <1>1
    <3> QED  BY <1>1, <3>1
  <2>2. (p * (q + 1) + 0) % p = 0  BY <1>1, Division
  <2> QED  BY <2>1, <2>2
<1>4. w - r \in Nat /\ (w - r) % p = 0
  <2>1. w - r = p * q + 0 /\ p * q \in Nat  BY <1>1
  <2>2. (p * q + 0) % p = 0  BY <1>1, Division
  <2> QED  BY <2>1, <2>2
<1> QED  BY <1>1, <1>2, <1>3, <1>4 DEF q, r

(* What FlashInvariant needs to be inductive, as long as no call fell into   *)
(* a query: the types; what is still to be written; and, for each point of a *)
(* call, the cycle the chip is in.                                           *)
Cmds == {"array", "BUFWRITE", "QUERY", "ERASE", "READ_STATUS"}
Chips == [mem : [Fl!Words -> Int], cmd : Cmds, cycle : 0 .. 3, due : Int, page : Int]
Places == {"idle", "command", "count", "data", "erase", "confirm", "poll", "clear"}
Ops == [at : Places, word : Nat, left : Nat, count : Nat, blk : Int, data : Int]
FlashTypeOK ==
  /\ chip \in Chips
  /\ op \in Ops
  /\ query \in {"none", "asked"}
  /\ meant \in [Fl!Words -> Int]
  /\ writes \in Nat
  /\ initialized => supported
  /\ op.at # "idle" => query = "none"
  /\ op.at = "idle" => op = Fl!NoOp

(* The words the call has still to write are op.left from op.word on.        *)
StillToWrite ==
  \A w \in Fl!Words :
    meant[w] = IF op.word <= w /\ w < op.word + op.left THEN op.data + (w - op.word)
               ELSE chip.mem[w]

(* The words of the command under way are of one page, and go to its end or  *)
(* to the end of what is written.                                            *)
WithinPage ==
  /\ op.count \in 1 .. op.left /\ op.word + op.left <= CAPACITY
  /\ (op.word % PAGE) + op.count <= PAGE
  /\ op.count = op.left \/ (op.word + op.count) % PAGE = 0

(* Of an erasure the block alone is left.                                    *)
StillToErase ==
  \A w \in Fl!Words : meant[w] = IF Fl!EraseBlk(w) = Fl!EraseBlk(op.blk) THEN -1 ELSE chip.mem[w]

(* After a page the next word begins another.                                *)
NextPage == op.left > 0 => op.word % PAGE = 0 /\ op.word + op.left <= CAPACITY

(* The cycle the chip is in, and what is left to be done, at each place.     *)
FlashCycle ==
  /\ op.at = "idle" =>
       /\ chip.mem = meant
       /\ query = "none" =>
            \/ chip.cmd = "array" /\ chip.cycle = 0
            \/ chip.cmd = "QUERY" /\ chip.cycle = 1 /\ ~supported
       /\ query = "asked" => chip.cmd = "QUERY" /\ chip.cycle = 1
  /\ op.at = "clear" => chip.cycle = 0 /\ op.left = 0 /\ StillToWrite
  /\ op.at = "command" => chip.cycle = 0 /\ StillToWrite /\ WithinPage
  /\ op.at = "count" =>
       chip.cycle = 1 /\ chip.cmd = "BUFWRITE" /\ chip.page = -1 /\ StillToWrite /\ WithinPage
  /\ op.at = "data" =>
       /\ chip.cycle = 2 /\ chip.cmd = "BUFWRITE" /\ chip.due = op.count - 1
       /\ chip.page \in {-1, Fl!PageOf(op.word)}
       /\ StillToWrite /\ WithinPage
  /\ op.at = "erase" => chip.cycle = 0 /\ op.left = 0 /\ StillToErase
  /\ op.at = "confirm" =>
       /\ \/ chip.cycle = 3 /\ chip.cmd = "BUFWRITE"
          \/ chip.cycle = 1 /\ chip.cmd = "ERASE"
       /\ StillToWrite /\ NextPage
  /\ op.at = "poll" =>
       chip.cycle = 0 /\ chip.cmd \in {"BUFWRITE", "ERASE"} /\ StillToWrite /\ NextPage

(* Once a call has fallen into a query nothing more is said.                 *)
FlashInductive == ~crossed => FlashTypeOK /\ ~misread /\ FlashCycle

(* What a command, a count, a word and an erasure leave of the chip.         *)
LEMMA ChipCommand ==
  ASSUME NEW c \in Chips, NEW x, NEW cmd \in Cmds, x = [c EXCEPT !.cmd = cmd]
  PROVE  x \in Chips /\ x.cmd = cmd /\ x.cycle = c.cycle /\ x.mem = c.mem
BY DEF Chips

(* and the next cycle.                                                       *)
LEMMA ChipCycle ==
  ASSUME NEW c \in Chips, NEW x, NEW n \in 0 .. 3, x = [c EXCEPT !.cycle = n]
  PROVE  x \in Chips /\ x.cmd = c.cmd /\ x.cycle = n /\ x.mem = c.mem
BY DEF Chips

(* The chip, field by field.                                                 *)
LEMMA ChipFields ==
  ASSUME NEW c \in Chips
  PROVE  /\ c = [mem |-> c.mem, cmd |-> c.cmd, cycle |-> c.cycle, due |-> c.due, page |-> c.page]
         /\ c.mem \in [Fl!Words -> Int] /\ c.cmd \in Cmds /\ c.cycle \in 0 .. 3
         /\ c.due \in Int /\ c.page \in Int
BY DEF Chips

(* The call, likewise.                                                      *)
LEMMA OpFields ==
  ASSUME NEW o \in Ops
  PROVE  /\ o = [at |-> o.at, word |-> o.word, left |-> o.left, count |-> o.count, blk |-> o.blk,
                 data |-> o.data]
         /\ o.at \in Places /\ o.word \in Nat /\ o.left \in Nat /\ o.count \in Nat
         /\ o.blk \in Int /\ o.data \in Int
BY DEF Ops

(* What the call goes on with.                                               *)
LEMMA OpSteps ==
  ASSUME NEW o \in Ops, NEW at \in Places, NEW x, x = [o EXCEPT !.at = at]
  PROVE  /\ x \in Ops /\ x.at = at /\ x.word = o.word /\ x.left = o.left
         /\ x.count = o.count /\ x.data = o.data /\ x.blk = o.blk
BY DEF Ops
(* Where a call begins.                                                      *)
LEMMA FlashBegins ==
  ASSUME FlashTypeOK, ~misread, FlashCycle, query # "asked", NEW o \in Fl!Words, NEW n \in Nat,
         Fl!Begins(o, n)
  PROVE  /\ chip.cmd = "array" /\ chip.cycle = 0 /\ chip.mem = meant /\ query = "none"
         /\ op = Fl!NoOp /\ supported /\ o \in Nat /\ o + n <= CAPACITY
BY FlashGeometry DEF FlashTypeOK, Chips, FlashCycle, Fl!Begins, Fl!Words, Fl!NoOp

(* Reading.                                                                  *)
LEMMA ReadKeeps ==
  ASSUME FlashInductive, NEW o \in Fl!Words, NEW n \in 0 .. CAPACITY, Fl!CfiFlashRead(o, n)
  PROVE  FlashInductive'
<1> SUFFICES ASSUME ~crossed' PROVE FlashTypeOK' /\ ~misread' /\ FlashCycle'
  BY DEF FlashInductive
<1> USE DEF Fl!CfiFlashRead
<1>1. ~crossed /\ query # "asked" /\ FlashTypeOK /\ ~misread /\ FlashCycle  BY DEF FlashInductive
<1>2. n \in Nat  BY FlashGeometry
<1>3. chip.cmd = "array" /\ chip.mem = meant  BY <1>1, <1>2, FlashBegins
<1>4. ~misread'  BY <1>1, <1>3
<1> QED
  BY <1>1, <1>4
  DEF FlashTypeOK, FlashCycle, StillToWrite, WithinPage, NextPage, StillToErase

(* A write and an erasure begin.                                             *)
LEMMA WriteBegins ==
  ASSUME FlashInductive, NEW o \in Fl!Words, NEW n \in 0 .. CAPACITY, Fl!CfiFlashWrite(o, n)
  PROVE  FlashInductive'
<1> SUFFICES ASSUME ~crossed' PROVE FlashTypeOK' /\ ~misread' /\ FlashCycle'
  BY DEF FlashInductive
<1> USE DEF Fl!CfiFlashWrite
<1>1. ~crossed /\ query # "asked" /\ FlashTypeOK /\ ~misread /\ FlashCycle  BY DEF FlashInductive
<1>2. n \in Nat /\ PAGE \in Nat \ {0} /\ BLOCK \in Nat \ {0} /\ CAPACITY \in Nat  BY FlashGeometry
<1>3. /\ chip.cmd = "array" /\ chip.cycle = 0 /\ chip.mem = meant /\ query = "none"
      /\ op = Fl!NoOp /\ supported /\ o \in Nat /\ o + n <= CAPACITY
  BY <1>1, <1>2, FlashBegins
<1> DEFINE d == CAPACITY * writes + 1
<1>4. d \in Nat  BY <1>1, <1>2 DEF FlashTypeOK
<1>5. o % PAGE \in 0 .. PAGE - 1 /\ (o + (PAGE - (o % PAGE))) % PAGE = 0  BY <1>2, <1>3, PageFacts
<1>6. Fl!First(o, n) \in Nat  BY <1>2, <1>5 DEF Fl!First
<1>7. /\ op' = [at |-> IF n = 0 THEN "clear" ELSE "command", word |-> o, left |-> n,
                count |-> Fl!First(o, n), blk |-> Fl!EraseBlk(o), data |-> d]
      /\ meant' = [w \in Fl!Words |-> IF w \in o .. o + n - 1 THEN d + w - o ELSE meant[w]]
  OBVIOUS
<1> HIDE DEF d
<1>8. Fl!EraseBlk(o) \in Int  BY <1>2, <1>3 DEF Fl!EraseBlk
<1>9. meant' \in [Fl!Words -> Int]  BY <1>1, <1>3, <1>4, <1>7 DEF FlashTypeOK, Fl!Words
<1>10. FlashTypeOK'
  BY <1>1, <1>2, <1>3, <1>4, <1>6, <1>7, <1>8, <1>9 DEF FlashTypeOK, Ops, Places, Fl!NoOp
<1>11. StillToWrite'
  BY <1>1, <1>2, <1>3, <1>4, <1>7 DEF StillToWrite, Fl!Words, FlashTypeOK, Chips
<1>12. n # 0 => WithinPage'
  BY <1>2, <1>3, <1>5, <1>7 DEF WithinPage, Fl!First
<1> QED  BY <1>1, <1>2, <1>3, <1>7, <1>10, <1>11, <1>12 DEF FlashCycle

(* An erasure begins, of the block the word is in.                          *)
LEMMA EraseBegins ==
  ASSUME FlashInductive, NEW o \in Fl!Words, Fl!CfiFlashErase(o)
  PROVE  FlashInductive'
<1> SUFFICES ASSUME ~crossed' PROVE FlashTypeOK' /\ ~misread' /\ FlashCycle'
  BY DEF FlashInductive
<1> USE DEF Fl!CfiFlashErase
<1>1. ~crossed /\ query # "asked" /\ FlashTypeOK /\ ~misread /\ FlashCycle  BY DEF FlashInductive
<1>2. 1 \in Nat /\ PAGE \in Nat \ {0} /\ BLOCK \in Nat \ {0} /\ CAPACITY \in Nat  BY FlashGeometry
<1>3. /\ chip.cmd = "array" /\ chip.cycle = 0 /\ chip.mem = meant /\ query = "none"
      /\ op = Fl!NoOp /\ supported /\ o \in Nat /\ o + 1 <= CAPACITY
  BY <1>1, <1>2, FlashBegins
<1>4. Fl!EraseBlk(o) \in Nat /\ Fl!EraseBlk(Fl!EraseBlk(o)) = Fl!EraseBlk(o)
  <2>1. o - (o % BLOCK) \in Nat /\ (o - (o % BLOCK)) % BLOCK = 0  BY <1>2, <1>3, PageFacts
  <2> QED  BY <2>1 DEF Fl!EraseBlk
<1>5. op' = [at |-> "erase", word |-> 0, left |-> 0, count |-> 0, blk |-> Fl!EraseBlk(o), data |-> 0]
  BY DEF Fl!NoOp
<1>6. meant' \in [Fl!Words -> Int]  BY <1>1 DEF FlashTypeOK
<1>7. FlashTypeOK'  BY <1>1, <1>3, <1>4, <1>5, <1>6 DEF FlashTypeOK, Ops, Places, Fl!NoOp
<1>8. StillToErase'  BY <1>1, <1>3, <1>4, <1>5 DEF StillToErase, FlashTypeOK
<1>9. op'.at = "erase" /\ op'.left = 0 /\ chip' = chip
  <2>1. chip' = chip  OBVIOUS
  <2>2. op'.at = "erase"  BY <1>5
  <2>3. op'.left = 0  BY ONLY <1>5
  <2> QED  BY <2>1, <2>2, <2>3
<1> QED  BY <1>1, <1>3, <1>7, <1>8, <1>9 DEF FlashCycle

(* The steps of a write or of an erasure: nothing but the chip and the place *)
(* of the call changes.                                                      *)
LEMMA CallKeeps ==
  ASSUME FlashInductive,
         \/ Fl!BufWrite \/ Fl!WordCount \/ Fl!WriteData
         \/ Fl!EraseBlock \/ Fl!Confirm \/ Fl!Poll \/ Fl!ClearStatus
  PROVE  FlashInductive'
<1> SUFFICES ASSUME ~crossed' PROVE FlashTypeOK' /\ ~misread' /\ FlashCycle'
  BY DEF FlashInductive
<1>1. UNCHANGED <<query, supported, initialized, meant, writes, misread, crossed>>
  BY DEF Fl!BufWrite, Fl!WordCount, Fl!WriteData, Fl!EraseBlock, Fl!Confirm, Fl!Poll, Fl!ClearStatus,
         Fl!InCall
<1>2. FlashTypeOK /\ ~misread /\ FlashCycle  BY <1>1 DEF FlashInductive
<1>3. chip \in Chips /\ op \in Ops /\ meant \in [Fl!Words -> Int] /\ (op.at # "idle" => query = "none")
  BY <1>2 DEF FlashTypeOK
<1>4. chip.mem \in [Fl!Words -> Int] /\ op.word \in Nat /\ op.left \in Nat /\ op.count \in Nat
      /\ op.data \in Int /\ chip.due \in Int
  BY <1>3 DEF Chips, Ops
<1>5. CAPACITY \in Nat /\ PAGE \in Nat \ {0}  BY FlashGeometry
<1>6. ASSUME chip' \in Chips, op' \in Ops, op'.at = "idle" => op' = Fl!NoOp,
             op.at # "idle"
      PROVE  FlashTypeOK'
  BY <1>1, <1>2, <1>3, <1>6 DEF FlashTypeOK
<1>7. ASSUME chip'.mem = chip.mem, op'.word = op.word, op'.left = op.left, op'.data = op.data
      PROVE  (StillToWrite => StillToWrite') /\ (NextPage => NextPage')
             /\ (op'.count = op.count /\ WithinPage => WithinPage')
  BY <1>1, <1>7 DEF StillToWrite, WithinPage, NextPage
<1>8. /\ chip = [mem |-> chip.mem, cmd |-> chip.cmd, cycle |-> chip.cycle, due |-> chip.due,
                 page |-> chip.page]
      /\ op = [at |-> op.at, word |-> op.word, left |-> op.left, count |-> op.count, blk |-> op.blk,
               data |-> op.data]
  BY <1>3, ChipFields, OpFields
<1>9. chip.mem \in [Fl!Words -> Int] /\ chip.cmd \in Cmds /\ chip.due \in Int /\ chip.page \in Int
      /\ op.at \in Places /\ op.blk \in Int
  BY <1>3, ChipFields, OpFields
<1> USE DEF Cmds, Places
<1>a. CASE Fl!BufWrite
  <2>1. /\ op.at = "command" /\ op' = [op EXCEPT !.at = "count"]
        /\ chip' = [chip EXCEPT !.cmd = "BUFWRITE", !.cycle = 1, !.page = -1]
        /\ StillToWrite /\ WithinPage
    BY <1>a, <1>2
    DEF Fl!BufWrite, Fl!Writes, Fl!Told, Fl!FirstCycle, Fl!Cmd, Fl!Then, FlashCycle
  <2>2. /\ chip' \in Chips /\ chip'.cmd = "BUFWRITE" /\ chip'.cycle = 1 /\ chip'.mem = chip.mem
        /\ chip'.page = -1
    <3>1. chip' = [mem |-> chip.mem, cmd |-> "BUFWRITE", cycle |-> 1, due |-> chip.due, page |-> -1]
      BY <2>1, <1>8
    <3> QED  BY <3>1, <1>9 DEF Chips
  <2>3. /\ op' \in Ops /\ op'.at = "count" /\ op'.word = op.word /\ op'.left = op.left
        /\ op'.count = op.count /\ op'.data = op.data
    BY <2>1, <1>3, OpSteps
  <2> QED  BY <2>1, <2>2, <2>3, <1>1, <1>2, <1>6, <1>7 DEF FlashCycle
<1>b. CASE Fl!WordCount
  <2>1. /\ op.at = "count" /\ op' = [op EXCEPT !.at = "data"]
        /\ chip' = [chip EXCEPT !.cycle = 2, !.due = op.count - 1]
        /\ chip.page = -1 /\ chip.cmd = "BUFWRITE" /\ StillToWrite /\ WithinPage
    BY <1>b, <1>2
    DEF Fl!WordCount, Fl!Writes, Fl!Told, Fl!SecondCycle, Fl!Num, Fl!Then, FlashCycle
  <2>2. /\ chip' \in Chips /\ chip'.cmd = "BUFWRITE" /\ chip'.cycle = 2 /\ chip'.mem = chip.mem
        /\ chip'.page = -1 /\ chip'.due = op.count - 1
    <3>1. chip' = [mem |-> chip.mem, cmd |-> chip.cmd, cycle |-> 2, due |-> op.count - 1,
                   page |-> chip.page]
      BY <2>1, <1>8
    <3>2. op.count - 1 \in Int  BY <1>4
    <3>3. chip' \in Chips  BY <3>1, <3>2, <1>4, <1>9 DEF Chips
    <3> QED  BY <2>1, <3>1, <3>3
  <2>3. /\ op' \in Ops /\ op'.at = "data" /\ op'.word = op.word /\ op'.left = op.left
        /\ op'.count = op.count /\ op'.data = op.data
    BY <2>1, <1>3, OpSteps
  <2> QED  BY <2>1, <2>2, <2>3, <1>1, <1>2, <1>6, <1>7 DEF FlashCycle
<1>c. CASE Fl!WriteData
  <2>1. /\ op.at = "data" /\ chip.cycle = 2 /\ chip.cmd = "BUFWRITE" /\ chip.due = op.count - 1
        /\ chip.page \in {-1, Fl!PageOf(op.word)} /\ StillToWrite /\ WithinPage
    BY <1>c, <1>2 DEF Fl!WriteData, FlashCycle
  <2>2. /\ op' = [op EXCEPT !.word = op.word + 1, !.data = op.data + 1, !.count = op.count - 1,
                            !.left = op.left - 1,
                            !.at = IF op.count = 1 THEN "confirm" ELSE "data"]
        /\ chip' = [chip EXCEPT !.mem[op.word] = op.data, !.page = Fl!PageOf(op.word),
                                !.due = chip.due - 1,
                                !.cycle = IF chip.due = 0 THEN 3 ELSE 2]
    <3>1. op' = [op EXCEPT !.word = op.word + 1, !.data = op.data + 1, !.count = op.count - 1,
                            !.left = op.left - 1,
                            !.at = IF op.count = 1 THEN "confirm" ELSE "data"]
      BY <1>c, <1>3 DEF Fl!WriteData, Ops
    <3>2. chip' = Fl!BufferCycle(chip, op.word, Fl!Num(op.data))
      BY <2>1, <1>c DEF Fl!WriteData, Fl!Writes, Fl!Told
    <3>3. Fl!Num(op.data).cmd = "number" /\ Fl!Num(op.data).n = op.data  BY DEF Fl!Num
    <3>4. chip' = [chip EXCEPT !.mem[op.word] = op.data, !.page = Fl!PageOf(op.word), !.due = @ - 1,
                               !.cycle = IF chip.due = 0 THEN 3 ELSE 2]
      BY <2>1, <3>2, <3>3 DEF Fl!BufferCycle
    <3> QED  BY <3>1, <3>4
  <2>3. op.word \in Fl!Words /\ op.left \in Nat \ {0} /\ op.count \in Nat \ {0}
        /\ op.count <= op.left /\ op.word + op.left <= CAPACITY
    <3>1. op.count \in 1 .. op.left /\ op.word + op.left <= CAPACITY  BY <2>1 DEF WithinPage
    <3>2. op.left \in Nat \ {0} /\ op.count \in Nat \ {0} /\ op.count <= op.left
      BY ONLY <3>1, <1>4
    <3>3. op.word \in 0 .. CAPACITY - 1  BY ONLY <3>1, <3>2, <1>4, <1>5
    <3> QED  BY <3>1, <3>2, <3>3 DEF Fl!Words
  <2>4. Fl!PageOf(op.word) \in Nat
        /\ (op.count > 1 => (op.word + 1) % PAGE = (op.word % PAGE) + 1
                            /\ Fl!PageOf(op.word + 1) = Fl!PageOf(op.word))
    <3>1. op.word % PAGE \in 0 .. PAGE - 1 /\ op.word \div PAGE \in Nat
          /\ ((op.word % PAGE) + 1 < PAGE =>
               (op.word + 1) % PAGE = (op.word % PAGE) + 1 /\ (op.word + 1) \div PAGE = op.word \div PAGE)
      BY <1>4, <1>5, PageFacts
    <3> QED  BY <2>1, <2>3, <3>1, <1>5 DEF WithinPage, Fl!PageOf
  <2>5. /\ chip' \in Chips /\ chip'.cmd = "BUFWRITE" /\ chip'.page = Fl!PageOf(op.word)
        /\ chip'.due = op.count - 2 /\ chip'.cycle = IF op.count = 1 THEN 3 ELSE 2
        /\ \A u \in Fl!Words : chip'.mem[u] = IF u = op.word THEN op.data ELSE chip.mem[u]
    <3> DEFINE n == IF chip.due = 0 THEN 3 ELSE 2
               p == Fl!PageOf(op.word)
               d == chip.due - 1
    <3>1. n \in 0 .. 3 /\ p \in Int /\ d \in Int  BY <1>4, <2>4
    <3>2. chip' = [chip EXCEPT !.mem[op.word] = op.data, !.page = p, !.due = d, !.cycle = n]
      BY <2>2
    <3>3. n = (IF op.count = 1 THEN 3 ELSE 2) /\ d = op.count - 2  BY <2>1, <1>4
    <3> HIDE DEF n, p, d
    <3>4. /\ chip' \in Chips /\ chip'.cmd = chip.cmd /\ chip'.page = p /\ chip'.due = d /\ chip'.cycle = n
          /\ \A u \in Fl!Words : chip'.mem[u] = IF u = op.word THEN op.data ELSE chip.mem[u]
      <4> DEFINE m == [chip.mem EXCEPT ![op.word] = op.data]
      <4>1. m \in [Fl!Words -> Int]
            /\ \A u \in Fl!Words : m[u] = IF u = op.word THEN op.data ELSE chip.mem[u]
        BY <1>4, <2>3
      <4>2. chip' = [mem |-> m, cmd |-> chip.cmd, cycle |-> n, due |-> d, page |-> p]
        BY <3>2, <1>8
      <4> HIDE DEF m
      <4> QED  BY <3>1, <4>1, <4>2, <1>9 DEF Chips
    <3> QED  BY <3>3, <3>4, <2>1 DEF p
  <2>6. /\ op' \in Ops /\ op'.word = op.word + 1 /\ op'.data = op.data + 1
        /\ op'.count = op.count - 1 /\ op'.left = op.left - 1
        /\ op'.at = IF op.count = 1 THEN "confirm" ELSE "data"
    <3> DEFINE at == IF op.count = 1 THEN "confirm" ELSE "data"
    <3>1. at \in Places  OBVIOUS
    <3>2. op' = [at |-> at, word |-> op.word + 1, left |-> op.left - 1, count |-> op.count - 1,
                 blk |-> op.blk, data |-> op.data + 1]
      BY <2>2, <1>8
    <3> HIDE DEF at
    <3>3. op'.at = at  BY <3>2
    <3>4. op.word + 1 \in Nat /\ op.left - 1 \in Nat /\ op.count - 1 \in Nat /\ op.data + 1 \in Int
      BY <2>3, <1>4
    <3> QED  BY <3>1, <3>2, <3>3, <3>4, <1>9 DEF Ops, at
  <2>7. FlashTypeOK'  BY <2>1, <2>5, <2>6, <1>6
  <2>8. StillToWrite'
    <3> SUFFICES ASSUME NEW w \in Fl!Words
                 PROVE  meant'[w] = IF op'.word <= w /\ w < op'.word + op'.left
                                    THEN op'.data + (w - op'.word) ELSE chip'.mem[w]
      BY DEF StillToWrite
    <3>1. w \in Int  BY DEF Fl!Words
    <3>2. meant[w] = IF op.word <= w /\ w < op.word + op.left THEN op.data + (w - op.word)
                     ELSE chip.mem[w]
      BY <2>1 DEF StillToWrite
    <3> QED  BY <2>3, <2>5, <2>6, <3>1, <3>2, <1>1, <1>4
  <2>9. CASE op.count = 1
    <3>1. NextPage'
      <4>1. op.left # 1 => (op.word + 1) % PAGE = 0  BY <2>1, <2>9 DEF WithinPage
      <4> QED  BY <2>3, <2>6, <4>1, <1>4, <1>5 DEF NextPage
    <3> QED  BY <2>5, <2>6, <2>7, <2>8, <2>9, <3>1, <1>1, <1>2 DEF FlashCycle
  <2>10. CASE op.count # 1
    <3>1. op'.at = "data" /\ op.count > 1  BY <2>3, <2>6, <2>10
    <3>2. op'.word + op'.count = op.word + op.count /\ op'.word + op'.left = op.word + op.left
      BY <2>3, <2>6, <1>4
    <3>3. op'.count = op'.left <=> op.count = op.left  BY <2>3, <2>6
    <3>4. op'.word % PAGE = (op.word % PAGE) + 1  BY <2>4, <2>6, <3>1
    <3>5. op.word % PAGE \in Int  BY <1>4, <1>5
    <3>6. WithinPage'
      BY <2>1, <2>3, <2>6, <3>1, <3>2, <3>3, <3>4, <3>5, <1>5 DEF WithinPage
    <3>7. chip'.due = op'.count - 1 /\ chip'.page = Fl!PageOf(op'.word)
      BY <2>3, <2>4, <2>5, <2>6, <3>1
    <3> QED
      BY <2>5, <2>7, <2>8, <2>10, <3>1, <3>6, <3>7, <1>1, <1>2 DEF FlashCycle
  <2> QED  BY <2>9, <2>10
<1>d. CASE Fl!EraseBlock
  <2> DEFINE m == [w \in Fl!Words |-> IF Fl!EraseBlk(w) = Fl!EraseBlk(op.blk) THEN -1 ELSE chip.mem[w]]
  <2>1. /\ op.at = "erase" /\ op' = [op EXCEPT !.at = "confirm"] /\ op.left = 0
        /\ chip' = [chip EXCEPT !.cmd = "ERASE", !.cycle = 1, !.mem = m]
        /\ StillToErase
    BY <1>d, <1>2
    DEF Fl!EraseBlock, Fl!Writes, Fl!Told, Fl!FirstCycle, Fl!Cmd, Fl!Then, FlashCycle
  <2>2. m \in [Fl!Words -> Int]  BY <1>4
  <2>3. m = meant
    <3>1. \A w \in Fl!Words : m[w] = meant[w]  BY <2>1 DEF StillToErase
    <3> QED  BY <2>2, <3>1, <1>3
  <2> HIDE DEF m
  <2>4. chip' \in Chips /\ chip'.cmd = "ERASE" /\ chip'.cycle = 1 /\ chip'.mem = meant
    <3>1. chip' = [mem |-> m, cmd |-> "ERASE", cycle |-> 1, due |-> chip.due, page |-> chip.page]
      BY <2>1, <1>8
    <3> QED  BY <3>1, <2>2, <2>3, <1>9 DEF Chips
  <2>5. /\ op' \in Ops /\ op'.at = "confirm" /\ op'.word = op.word /\ op'.left = 0
    BY <2>1, <1>3, OpSteps
  <2>6. StillToWrite' /\ NextPage'
    <3>1. \A w \in Fl!Words : w \in Int  BY DEF Fl!Words
    <3> QED  BY <2>4, <2>5, <3>1, <1>1, <1>4 DEF StillToWrite, NextPage
  <2> QED  BY <2>1, <2>4, <2>5, <2>6, <1>1, <1>2, <1>6 DEF FlashCycle
<1>e. CASE Fl!Confirm
  <2>1. /\ op.at = "confirm" /\ op' = [op EXCEPT !.at = "poll"]
        /\ chip' = [chip EXCEPT !.cycle = 0] /\ chip.cmd \in {"BUFWRITE", "ERASE"}
        /\ StillToWrite /\ NextPage
    BY <1>e, <1>2
    DEF Fl!Confirm, Fl!Writes, Fl!Told, Fl!SecondCycle, Fl!Cmd, Fl!Then, FlashCycle
  <2>2. chip' \in Chips /\ chip'.cmd = chip.cmd /\ chip'.cycle = 0 /\ chip'.mem = chip.mem
    <3>1. 0 \in 0 .. 3  OBVIOUS
    <3> QED  BY <2>1, <3>1, <1>3, ChipCycle
  <2>3. /\ op' \in Ops /\ op'.at = "poll" /\ op'.word = op.word /\ op'.left = op.left
        /\ op'.count = op.count /\ op'.data = op.data
    BY <2>1, <1>3, OpSteps
  <2> QED  BY <2>1, <2>2, <2>3, <1>1, <1>2, <1>6, <1>7 DEF FlashCycle
<1>f. CASE Fl!Poll
  <2>1. op.at = "poll" /\ chip' = [chip EXCEPT !.cmd = "READ_STATUS"] /\ StillToWrite /\ NextPage
        /\ chip.cycle = 0
    BY <1>f, <1>2
    DEF Fl!Poll, Fl!Writes, Fl!Told, Fl!FirstCycle, Fl!Cmd, FlashCycle
  <2>2. chip' \in Chips /\ chip'.cmd = "READ_STATUS" /\ chip'.cycle = 0 /\ chip'.mem = chip.mem
    <3>1. "READ_STATUS" \in Cmds  OBVIOUS
    <3> QED  BY <2>1, <3>1, <1>3, ChipCommand
  <2>3. CASE op.left = 0
    <3>1. op' = [op EXCEPT !.at = "clear"]  BY <1>f, <2>2, <2>3 DEF Fl!Poll
    <3>2. /\ op' \in Ops /\ op'.at = "clear" /\ op'.word = op.word /\ op'.left = op.left
          /\ op'.data = op.data
      BY <3>1, <1>3, OpSteps
    <3> QED  BY <2>1, <2>2, <2>3, <3>2, <1>1, <1>2, <1>6, <1>7 DEF FlashCycle
  <2>4. CASE op.left # 0
    <3> DEFINE b == Fl!EraseBlk(op.word)
               n == IF op.left >= PAGE THEN PAGE ELSE op.left
    <3>1. op' = [op EXCEPT !.at = "command", !.blk = b, !.count = n]
      BY <1>f, <2>2, <2>4 DEF Fl!Poll
    <3>2. b \in Int /\ n \in Nat
      <4>1. BLOCK \in Nat \ {0}  BY FlashGeometry
      <4> QED  BY <1>4, <1>5, <4>1 DEF Fl!EraseBlk
    <3> HIDE DEF b
    <3>3. /\ op' \in Ops /\ op'.at = "command" /\ op'.word = op.word /\ op'.left = op.left
          /\ op'.data = op.data /\ op'.count = n
      <4> HIDE DEF n
      <4>1. op' = [at |-> "command", word |-> op.word, left |-> op.left, count |-> n, blk |-> b,
                   data |-> op.data]
        BY <3>1, <1>8
      <4> QED  BY <3>2, <4>1, <1>4, <1>9 DEF Ops
    <3>4. op.word % PAGE = 0 /\ op.word + op.left <= CAPACITY  BY <2>1, <2>4, <1>4 DEF NextPage
    <3>5. (op.word + PAGE) % PAGE = 0
      <4>1. (op.word + (PAGE - (op.word % PAGE))) % PAGE = 0  BY <1>4, <1>5, PageFacts
      <4> QED  BY <4>1, <3>4, <1>5
    <3>6. WithinPage'  BY <2>4, <3>3, <3>4, <3>5, <1>4, <1>5 DEF WithinPage
    <3> QED  BY <2>1, <2>2, <3>3, <3>6, <1>1, <1>2, <1>6, <1>7 DEF FlashCycle
  <2> QED  BY <2>3, <2>4
<1>g. CASE Fl!ClearStatus
  <2>1. op.at = "clear" /\ op' = Fl!NoOp /\ chip' = [chip EXCEPT !.cmd = "array", !.cycle = 0]
        /\ StillToWrite /\ op.left = 0
    BY <1>g, <1>2
    DEF Fl!ClearStatus, Fl!Writes, Fl!Told, Fl!FirstCycle, Fl!Cmd, Fl!Array, FlashCycle
  <2>2. chip' \in Chips /\ chip'.cmd = "array" /\ chip'.cycle = 0 /\ chip'.mem = chip.mem
    <3>1. chip' = [mem |-> chip.mem, cmd |-> "array", cycle |-> 0, due |-> chip.due, page |-> chip.page]
      BY <2>1, <1>8
    <3> QED  BY <3>1, <1>9 DEF Chips
  <2>3. op' \in Ops /\ op'.at = "idle"  BY <2>1 DEF Ops, Fl!NoOp
  <2>4. chip.mem = meant
    <3>1. ASSUME NEW w \in Fl!Words PROVE chip.mem[w] = meant[w]
      <4>1. w \in Int  BY DEF Fl!Words
      <4> QED  BY <2>1, <4>1, <1>4 DEF StillToWrite
    <3> QED  BY <3>1, <1>3, <1>4
  <2> QED  BY <2>1, <2>2, <2>3, <2>4, <1>1, <1>2, <1>3, <1>6 DEF FlashCycle
<1> QED  BY <1>a, <1>b, <1>c, <1>d, <1>e, <1>f, <1>g

(* A volume asks what the chip is, and the chip goes back to its array when  *)
(* it is what was expected.                                                  *)
LEMMA QueryKeeps ==
  ASSUME FlashInductive, Fl!Ask \/ Fl!Answered
  PROVE  FlashInductive'
<1> SUFFICES ASSUME ~crossed' PROVE FlashTypeOK' /\ ~misread' /\ FlashCycle'
  BY DEF FlashInductive
<1>1. op = Fl!NoOp /\ UNCHANGED <<op, supported, meant, writes, misread, crossed>>
  BY DEF Fl!Ask, Fl!Answered
<1>2. FlashTypeOK /\ ~misread /\ FlashCycle  BY <1>1 DEF FlashInductive
<1>3. op.at = "idle"  BY <1>1 DEF Fl!NoOp
<1>4. chip \in Chips  BY <1>2 DEF FlashTypeOK
<1>7. /\ chip = [mem |-> chip.mem, cmd |-> chip.cmd, cycle |-> chip.cycle, due |-> chip.due,
                 page |-> chip.page]
      /\ chip.mem \in [Fl!Words -> Int] /\ chip.due \in Int /\ chip.page \in Int
  BY <1>4, ChipFields
<1> USE DEF Cmds
<1>5. CASE Fl!Ask
  <2>1. chip' = Fl!Told(chip, 0, Fl!Cmd("QUERY")) /\ query' = "asked" /\ initialized' = initialized
    BY <1>5 DEF Fl!Ask, Fl!Writes
  <2>2. Fl!Cmd("QUERY").cmd = "QUERY"  BY DEF Fl!Cmd
  <2>3. chip' \in Chips /\ chip'.cmd = "QUERY" /\ chip'.cycle = 1 /\ chip'.mem = chip.mem
    <3>1. CASE chip.cycle = 0
      <4>1. chip' = Fl!FirstCycle(chip, 0, Fl!Cmd("QUERY"))  BY <2>1, <3>1 DEF Fl!Told
      <4>x. chip' = [chip EXCEPT !.cmd = Fl!Cmd("QUERY").cmd, !.cycle = 1]
        BY <2>2, <4>1 DEF Fl!FirstCycle
      <4>2. chip' = [mem |-> chip.mem, cmd |-> "QUERY", cycle |-> 1, due |-> chip.due, page |-> chip.page]
        BY <2>2, <4>x, <1>7
      <4> QED  BY <4>2, <1>7 DEF Chips
    <3>2. CASE chip.cycle = 1 /\ chip.cmd = "QUERY"
      <4>1. chip' = chip  BY <2>1, <2>2, <3>2 DEF Fl!Told, Fl!SecondCycle
      <4> QED  BY <4>1, <3>2, <1>4
    <3> QED  BY <1>2, <1>3, <1>5, <3>1, <3>2 DEF FlashCycle, Fl!Ask
  <2>4. FlashTypeOK'  BY <2>1, <2>3, <1>1, <1>2, <1>3 DEF FlashTypeOK
  <2> QED  BY <2>1, <2>3, <2>4, <1>1, <1>2, <1>3 DEF FlashCycle
<1>6. CASE Fl!Answered
  <2>1. chip.cmd = "QUERY" /\ chip.cycle = 1 /\ query' = "none" /\ chip.mem = meant
    BY <1>2, <1>3, <1>6 DEF FlashCycle, Fl!Answered
  <2>2. CASE supported
    <3>1. chip' = Fl!Told(chip, 0, Fl!Cmd("RESET")) /\ initialized'
      BY <1>6, <2>2 DEF Fl!Answered, Fl!Expected, Fl!Writes, Fl!DiskInit
    <3>2. Fl!Cmd("RESET").cmd = "RESET"  BY DEF Fl!Cmd
    <3>3. chip' = [chip EXCEPT !.cmd = "array", !.cycle = 0]
      BY <2>1, <3>1, <3>2 DEF Fl!Told, Fl!SecondCycle, Fl!Array
    <3>4. chip' \in Chips /\ chip'.cmd = "array" /\ chip'.cycle = 0 /\ chip'.mem = chip.mem
      <4>1. chip' = [mem |-> chip.mem, cmd |-> "array", cycle |-> 0, due |-> chip.due, page |-> chip.page]
        BY <3>3, <1>7
      <4> QED  BY <4>1, <1>7 DEF Chips
    <3>5. FlashTypeOK'  BY <2>1, <2>2, <3>1, <3>4, <1>1, <1>2, <1>3 DEF FlashTypeOK
    <3> QED  BY <2>1, <3>4, <3>5, <1>1, <1>2, <1>3 DEF FlashCycle
  <2>3. CASE ~supported
    <3>1. UNCHANGED <<chip, initialized>>  BY <1>6, <2>3 DEF Fl!Answered, Fl!Expected
    <3>2. FlashTypeOK'  BY <2>1, <3>1, <1>1, <1>2, <1>3 DEF FlashTypeOK
    <3> QED  BY <2>1, <2>3, <3>1, <3>2, <1>1, <1>2, <1>3 DEF FlashCycle
  <2> QED  BY <2>2, <2>3
<1> QED  BY <1>5, <1>6

(* Every step of the flash and of its driver keeps it.                       *)
LEMMA FlashStays == FlashInductive /\ [Fl!FlashNext]_flVars => FlashInductive'
<1> SUFFICES ASSUME FlashInductive, [Fl!FlashNext]_flVars PROVE FlashInductive'
  OBVIOUS
<1>1. CASE Fl!FlashNext
  BY <1>1, ReadKeeps, WriteBegins, EraseBegins, CallKeeps, QueryKeeps DEF Fl!FlashNext
<1>2. CASE UNCHANGED flVars
  BY <1>2
  DEF flVars, FlashInductive, FlashTypeOK, FlashCycle, StillToWrite, WithinPage, NextPage,
      StillToErase
<1> QED  BY <1>1, <1>2

(* The flash at start-up, in its array.                                      *)
LEMMA FlashInitial == Fl!FlashInit => FlashInductive
BY DEF Fl!FlashInit, FlashInductive, FlashTypeOK, Chips, Cmds, Ops, Places, FlashCycle, Fl!NoOp

(* It says all that FlashInvariant says.                                     *)
LEMMA FlashInductiveSafe == FlashInductive => Fl!FlashInvariant
<1> SUFFICES ASSUME FlashInductive PROVE Fl!FlashInvariant  OBVIOUS
<1>1. Fl!FlashHoldsWhatWasWritten
  BY DEF Fl!FlashHoldsWhatWasWritten, FlashInductive, FlashCycle, Fl!NoOp
<1>2. Fl!ChipIsReadable
  BY DEF Fl!ChipIsReadable, FlashInductive, FlashCycle, Fl!NoOp
<1> QED  BY <1>1, <1>2 DEF Fl!FlashInvariant

----------------------------------------------------------------------------
(* What FbInvariant needs to be inductive: what is allocated at each stage   *)
(* of the driver's life; and, before a layer was closed or the driver went   *)
(* under one, that an open layer has a name that leads to a device.          *)
FbTypeOK ==
  /\ gpu \in [at : {"off", "register", "driver", "begin", "failed", "up", "uninit", "free", "gone"},
              timer : {"none", "made", "runs"}, fb : BOOLEAN, dev : BOOLEAN]
  /\ layer \in [fd : BOOLEAN, mem : BOOLEAN, addr : BOOLEAN, buffer : BOOLEAN]
  /\ registry \in BOOLEAN /\ opening \in BOOLEAN
  /\ heap \subseteq {"gpu", "fb", "chardev", "fbmem", "key", "buffer"}

(* What is allocated.                                                        *)
FbHeap ==
  /\ "gpu" \in heap <=> gpu.at \in {"register", "driver", "failed", "begin", "up", "uninit"}
  /\ "key" \in heap <=> registry
  /\ "chardev" \in heap <=> gpu.at = "driver" \/ gpu.dev
  /\ "fb" \in heap => gpu.fb
  /\ registry => gpu.at \in {"begin", "failed", "up"} /\ "fbmem" \in heap /\ gpu.dev /\ gpu.fb
  /\ gpu.dev => gpu.at \in {"begin", "failed", "up", "uninit", "free"}
  /\ gpu.fb => gpu.at \in {"driver", "failed", "begin", "up", "uninit"}
  /\ gpu.at \in {"driver", "begin", "up"} => gpu.fb
  /\ gpu.timer = "runs" => gpu.at \in {"up", "uninit"} /\ gpu.fb

(* And that nothing was freed under a user.                                  *)
FbUnharmed ==
  /\ fbBad = {}
  /\ gpu.fb => "fb" \in heap
  /\ layer.addr <=> layer.mem
  /\ layer.buffer => layer.mem
  /\ layer.mem \/ opening => registry

FbInductive == FbTypeOK /\ FbHeap /\ (fbHistory = {} => FbUnharmed)

(* The stages of the driver's life.                                          *)
LEMMA FbInitKeeps ==
  ASSUME FbInductive,
         \/ Fb!VirtgpuInitDev \/ Fb!fb_register \/ Fb!register_driver \/ Fb!VirtgpuBeginNormDisplay
  PROVE  FbInductive'
<1> USE DEF FbInductive, FbTypeOK, FbHeap, FbUnharmed
<1>1. CASE Fb!VirtgpuInitDev  BY ZenonT(60), <1>1 DEF Fb!VirtgpuInitDev
<1>2. CASE Fb!fb_register  BY ZenonT(60), <1>2 DEF Fb!fb_register
<1>3. CASE Fb!register_driver  BY <1>3 DEF Fb!register_driver
<1>4. CASE Fb!VirtgpuBeginNormDisplay  BY ZenonT(60), <1>4 DEF Fb!VirtgpuBeginNormDisplay
<1> QED  BY <1>1, <1>2, <1>3, <1>4

(* Its release, and the timer.                                               *)
LEMMA FbReleaseKeeps ==
  ASSUME FbInductive,
         Fb!NormOpsRefresh \/ Fb!unregister_driver \/ Fb!up_fbuninitialize \/ Fb!FreeDev
  PROVE  FbInductive'
<1> USE DEF FbInductive, FbTypeOK, FbHeap, FbUnharmed, Fb!Uses, Fb!Frees
<1>1. CASE Fb!NormOpsRefresh  BY <1>1 DEF Fb!NormOpsRefresh
<1>2. CASE Fb!unregister_driver  BY ZenonT(60), <1>2 DEF Fb!unregister_driver
<1>3. CASE Fb!up_fbuninitialize  BY ZenonT(60), <1>3 DEF Fb!up_fbuninitialize, Fb!DeInit
<1>4. CASE Fb!FreeDev
  <2>1. /\ gpu.at = "free" /\ gpu' = [gpu EXCEPT !.at = "gone", !.dev = FALSE]
        /\ UNCHANGED <<registry, layer, opening, fbHistory>>
        /\ ~registry /\ ~gpu.fb
    BY <1>4 DEF Fb!FreeDev
  <2>2. /\ gpu' \in [at : {"off", "register", "driver", "begin", "failed", "up", "uninit", "free",
                          "gone"},
                    timer : {"none", "made", "runs"}, fb : BOOLEAN, dev : BOOLEAN]
        /\ gpu'.at = "gone" /\ ~gpu'.dev /\ gpu'.fb = gpu.fb /\ gpu'.timer = gpu.timer
    BY <2>1
  <2>3. heap' = heap \ {"chardev"} /\ fbBad' = fbBad
    <3>1. CASE gpu.dev  BY <1>4, <3>1 DEF Fb!FreeDev
    <3>2. CASE ~gpu.dev  BY <1>4, <2>1, <3>2 DEF Fb!FreeDev
    <3> QED  BY <3>1, <3>2
  <2> QED  BY <2>1, <2>2, <2>3
<1> QED  BY <1>1, <1>2, <1>3, <1>4

(* The layer.                                                                *)
LEMMA FbLayerKeeps ==
  ASSUME FbInductive,
         Fb!fb_open \/ Fb!CreateLayer \/ Fb!CloseLayer \/ Fb!Flush \/ Fb!GetLayerBuffer
  PROVE  FbInductive'
<1> USE DEF FbInductive, FbTypeOK, FbHeap, FbUnharmed, Fb!Uses, Fb!Frees
<1>1. CASE Fb!fb_open  BY <1>1 DEF Fb!fb_open
<1>2. CASE Fb!CreateLayer  BY ZenonT(60), <1>2 DEF Fb!CreateLayer
<1>3. CASE Fb!CloseLayer  BY <1>3 DEF Fb!CloseLayer, Fb!Closed
<1>4. CASE Fb!Flush  BY <1>4 DEF Fb!Flush
<1>5. CASE Fb!GetLayerBuffer  BY <1>5 DEF Fb!GetLayerBuffer
<1> QED  BY <1>1, <1>2, <1>3, <1>4, <1>5

(* Every step of the frame buffer keeps it, from nothing on.                 *)
LEMMA FbStays == FbInductive /\ [Fb!FbNext]_fbVars => FbInductive'
<1> SUFFICES ASSUME FbInductive, [Fb!FbNext]_fbVars PROVE FbInductive'
  OBVIOUS
<1>1. CASE Fb!FbNext  BY <1>1, FbInitKeeps, FbReleaseKeeps, FbLayerKeeps DEF Fb!FbNext
<1>2. CASE UNCHANGED fbVars
  BY <1>2 DEF fbVars, FbInductive, FbTypeOK, FbHeap, FbUnharmed
<1> QED  BY <1>1, <1>2

(* Nothing is allocated before the driver starts.                           *)
LEMMA FbInitial == Fb!FbInit => FbInductive
<1> SUFFICES ASSUME Fb!FbInit PROVE FbInductive  OBVIOUS
<1> USE DEF Fb!FbInit, Fb!Closed
<1>1. FbTypeOK  BY DEF FbTypeOK
<1>2. gpu.at = "off" /\ gpu.timer = "none" /\ ~gpu.fb /\ ~gpu.dev  OBVIOUS
<1>3. ~layer.mem /\ ~layer.addr /\ ~layer.buffer  OBVIOUS
<1> QED  BY <1>1, <1>2, <1>3 DEF FbInductive, FbHeap, FbUnharmed

(* It says all that FbInvariant says.                                        *)
LEMMA FbInductiveSafe == FbInductive => Fb!FbInvariant
<1> SUFFICES ASSUME FbInductive PROVE Fb!FbInvariant  OBVIOUS
<1> USE DEF FbInductive, FbTypeOK, FbHeap, FbUnharmed
<1>1. Fb!MemoryIsAllocated  BY DEF Fb!MemoryIsAllocated
<1>2. Fb!NameLeadsToDevice  BY DEF Fb!NameLeadsToDevice
<1>3. Fb!ReleaseFreesAll  BY DEF Fb!ReleaseFreesAll
<1> QED  BY <1>1, <1>2, <1>3 DEF Fb!FbInvariant

----------------------------------------------------------------------------
(***************************************************************************)
(* How the drivers are brought up.  What a step may rely on follows from    *)
(* where the step stands in the sequence of its driver (DvOrder): from      *)
(* then on the proof speaks of the steps taken, whatever the driver.        *)
(***************************************************************************)
DvTaken(s) == \E i \in 1 .. step : Dv!Steps[i] = s
DvPrecedes(a, b) ==
  \A j \in 1 .. Len(Dv!Steps) : Dv!Steps[j] = b => \E i \in 1 .. j - 1 : Dv!Steps[i] = a
DvOnce == \A i, j \in 1 .. Len(Dv!Steps) : Dv!Steps[i] = Dv!Steps[j] => i = j
DvHas(s) == \E i \in 1 .. Len(Dv!Steps) : Dv!Steps[i] = s

(* the steps that may fail, and what a driver acquires *)
MayFail == Dv!Kinds \cup {"discover", "version1", "featuresOk", "queue0", "queue1", "field1"}
KindsOf ==
  [net |-> {"netif", "mem", "queues", "rbufRec", "tbufRec", "param", "irq"},
   input |-> {"mem", "param", "irq", "hid", "sem", "task"},
   gpu |-> {"mem", "timer"}][dv]

(* every step is taken once, the handshake and the queues before DRIVER_OK   *)
(* and the notification, the memory before whatever may call back, the       *)
(* parameter of the interrupt between the handshake and the interrupt        *)
StepOrder ==
  /\ Len(Dv!Steps) \in Nat \ {0}
  /\ DvOnce
  /\ DvHas("begin") /\ DvHas("end")
  /\ DvPrecedes("begin", "featuresOk")
  /\ \A s \in {"end", "tell"}, t \in {"begin", "featuresOk", "queue0", "queue1"} : DvPrecedes(t, s)
  /\ \A s \in {"irq", "task", "timer"} : DvPrecedes("mem", s)
  /\ DvPrecedes("featuresOk", "param") /\ DvPrecedes("param", "irq")
  /\ DvHas("param") => DvHas("irq")

(* the fields are read between the two reads of the generation *)
ConfigOrder ==
  /\ \A j \in 1 .. Len(Dv!Steps) :
       /\ Dv!Steps[j] = "after" =>
            /\ j > 3 /\ Dv!Steps[j - 3] = "before"
            /\ Dv!Steps[j - 2] = "field1" /\ Dv!Steps[j - 1] = "field2"
       /\ Dv!Steps[j] = "field1" => j > 1 /\ Dv!Steps[j - 1] = "before"
       /\ Dv!Steps[j] = "field2" => j > 2 /\ Dv!Steps[j - 1] = "field1" /\ Dv!Steps[j - 2] = "before"
  /\ dv # "gpu" => DvHas("after")
  /\ dv = "gpu" =>
       ~ DvHas("before") /\ ~ DvHas("field1") /\ ~ DvHas("field2") /\ ~ DvHas("after")

(* nothing fails once the device is told, nor does net once it has its irq *)
FailOrder ==
  /\ \A i, j \in 1 .. Len(Dv!Steps) :
       i < j /\ Dv!Steps[j] \in MayFail =>
         Dv!Steps[i] # "end" /\ Dv!Steps[i] # "tell" /\ (dv = "net" => Dv!Steps[i] # "irq")
  /\ \A i \in 1 .. Len(Dv!Steps) : Dv!Steps[i] \in Dv!Kinds => Dv!Steps[i] \in KindsOf

(* the network driver's steps stand in this order *)
LEMMA NetOrder == ASSUME dv = "net" PROVE StepOrder /\ ConfigOrder /\ FailOrder
<1>1. Dv!Steps = Dv!NetSteps  BY DEF Dv!Steps
<1>2. Len(Dv!Steps) = 19  BY <1>1 DEF Dv!NetSteps
<1>3. DvOnce  BY <1>1, <1>2 DEF DvOnce, Dv!NetSteps
<1>4. StepOrder  BY <1>1, <1>2, <1>3 DEF StepOrder, DvPrecedes, DvHas, Dv!NetSteps
<1>5. ConfigOrder  BY <1>1, <1>2 DEF ConfigOrder, DvHas, Dv!NetSteps
<1>6. FailOrder  BY <1>1, <1>2 DEF FailOrder, Dv!NetSteps, MayFail, Dv!Kinds, KindsOf
<1> QED  BY <1>4, <1>5, <1>6

(* so do the input driver's *)
LEMMA InputOrder == ASSUME dv = "input" PROVE StepOrder /\ ConfigOrder /\ FailOrder
<1>1. Dv!Steps = Dv!InputSteps  BY DEF Dv!Steps
<1>2. Len(Dv!Steps) = 18  BY <1>1 DEF Dv!InputSteps
<1>3. DvOnce  BY <1>1, <1>2 DEF DvOnce, Dv!InputSteps
<1>4. StepOrder  BY <1>1, <1>2, <1>3 DEF StepOrder, DvPrecedes, DvHas, Dv!InputSteps
<1>5. ConfigOrder  BY <1>1, <1>2 DEF ConfigOrder, DvHas, Dv!InputSteps
<1>6. FailOrder  BY <1>1, <1>2 DEF FailOrder, Dv!InputSteps, MayFail, Dv!Kinds, KindsOf
<1> QED  BY <1>4, <1>5, <1>6

(* and the GPU driver's *)
LEMMA GpuOrder == ASSUME dv = "gpu" PROVE StepOrder /\ ConfigOrder /\ FailOrder
<1>1. Dv!Steps = Dv!GpuSteps  BY DEF Dv!Steps
<1>2. Len(Dv!Steps) = 9  BY <1>1 DEF Dv!GpuSteps
<1>3. DvOnce  BY <1>1, <1>2 DEF DvOnce, Dv!GpuSteps
<1>4. StepOrder  BY <1>1, <1>2, <1>3 DEF StepOrder, DvPrecedes, DvHas, Dv!GpuSteps
<1>5. ConfigOrder  BY <1>1, <1>2 DEF ConfigOrder, DvHas, Dv!GpuSteps
<1>6. FailOrder  BY <1>1, <1>2 DEF FailOrder, Dv!GpuSteps, MayFail, Dv!Kinds, KindsOf
<1> QED  BY <1>4, <1>5, <1>6

(* whichever driver it is *)
LEMMA DvOrder ==
  ASSUME dv \in {"net", "input", "gpu"} PROVE StepOrder /\ ConfigOrder /\ FailOrder
BY NetOrder, InputOrder, GpuOrder

(* the status, the queues, the generations and what is held, each as a       *)
(* function of the steps taken                                              *)
DvTypes ==
  /\ dv \in {"net", "input", "gpu"}
  /\ step \in 0 .. Len(Dv!Steps)
  /\ stage \in {"running", "up", "failed", "gone", "crashed"}
  /\ stage = "running" => step < Len(Dv!Steps)
  /\ dvReady \subseteq {"queue0", "queue1"}
  /\ held \subseteq Dv!Kinds
  /\ dvSeen \in [gen : Nat, before : Nat, field1 : Nat, field2 : Nat]

DvHandshake ==
  /\ DvTaken("begin") /\ "DRIVER_OK" \in dvStatus => DvTaken("end")
  /\ DvTaken("featuresOk") => "FEATURES_OK" \in dvStatus
  /\ "FAILED" \in dvStatus =>
       DvTaken("begin") /\ ~ DvTaken("end") /\ ~ DvTaken("tell") /\ stage \in {"failed", "gone"}
  /\ \A q \in {"queue0", "queue1"} : DvTaken(q) => q \in dvReady
  /\ told => DvTaken("tell")

DvConfig ==
  /\ DvTaken("before") => dvSeen.before <= dvSeen.gen
  /\ DvTaken("field1") /\ ~ DvTaken("after") =>
       dvSeen.before <= dvSeen.field1 /\ dvSeen.field1 <= dvSeen.gen
  /\ DvTaken("field2") /\ ~ DvTaken("after") =>
       dvSeen.before <= dvSeen.field2 /\ dvSeen.field2 <= dvSeen.gen
  /\ DvTaken("after") \/ dv = "gpu" => dvSeen.field1 = dvSeen.field2

DvHeld ==
  /\ \A r \in held : DvTaken(r)
  /\ stage \in {"running", "up", "crashed"} => \A r \in Dv!Kinds : DvTaken(r) => r \in held
  /\ stage \in {"failed", "gone"} =>
       held \subseteq {"param"} \cup (IF aligned THEN {} ELSE {"queues"})
                        \cup (IF stage = "failed" THEN {"hid"} ELSE {})
  /\ stage = "failed" => ~ DvTaken("end")
  /\ badFree =>
       \/ dv = "input" /\ stage = "gone" /\ ~ DvTaken("end")
       \/ dv = "net" /\ stage = "failed" /\ "queues" \in held /\ ~ aligned
  /\ stage = "crashed" =>
       DvTaken("featuresOk") /\ DvHas("irq") /\ ~ DvTaken("irq") /\ ~ DvTaken("end")

DvInductive == DvTypes /\ DvHandshake /\ DvConfig /\ DvHeld

(* what was taken is not ahead, and of the steps a driver has the converse *)
LEMMA DvAhead ==
  ASSUME DvTypes, NEW s
  PROVE  /\ DvTaken(s) => ~ Dv!Ahead(s)
         /\ DvHas(s) => (Dv!Ahead(s) <=> ~ DvTaken(s))
         /\ DvTaken(s) => DvHas(s)
<1>1. step \in Nat /\ step <= Len(Dv!Steps) /\ Len(Dv!Steps) \in Nat /\ DvOnce
  BY DvOrder DEF DvTypes, StepOrder
<1> QED  BY <1>1 DEF DvTaken, Dv!Ahead, DvHas, DvOnce

(* what has been taken was preceded by what precedes it *)
LEMMA DvTakenInOrder ==
  ASSUME DvTypes, NEW a, NEW b, DvPrecedes(a, b)
  PROVE  /\ DvTaken(b) => DvTaken(a)
         /\ stage = "running" /\ Dv!Now = b => DvTaken(a)
<1>1. step \in Nat /\ step <= Len(Dv!Steps) /\ Len(Dv!Steps) \in Nat
  BY DvOrder DEF DvTypes, StepOrder
<1> QED  BY <1>1 DEF DvTypes, DvTaken, DvPrecedes, Dv!Now

(* the steps of a driver are fixed *)
LEMMA DvStepsFixed ==
  ASSUME dv' = dv PROVE Dv!Steps' = Dv!Steps /\ KindsOf' = KindsOf
BY DEF Dv!Steps, KindsOf, Dv!NetSteps, Dv!InputSteps, Dv!GpuSteps

(* a step adds itself to those taken *)
LEMMA DvAdvances ==
  ASSUME DvInductive, stage = "running", Dv!Advance
  PROVE  /\ \A t : DvTaken(t)' <=> DvTaken(t) \/ t = Dv!Now
         /\ ~ DvTaken(Dv!Now)
         /\ stage' \in {"running", "up"}
         /\ step' \in 0 .. Len(Dv!Steps)' /\ (stage' = "running" => step' < Len(Dv!Steps)')
         /\ dv' = dv /\ aligned' = aligned /\ badFree' = badFree
<1>1. Dv!Steps' = Dv!Steps  BY DvStepsFixed DEF Dv!Advance
<1>2. step \in Nat /\ step < Len(Dv!Steps) /\ Len(Dv!Steps) \in Nat /\ DvOnce
  BY DvOrder DEF DvInductive, DvTypes, StepOrder
<1>3. step' = step + 1  BY DEF Dv!Advance
<1>4. \A t : DvTaken(t)' <=> DvTaken(t) \/ t = Dv!Now
  BY <1>1, <1>2, <1>3 DEF DvTaken, Dv!Now
<1>5. ~ DvTaken(Dv!Now)  BY <1>2 DEF DvTaken, Dv!Now, DvOnce
<1> QED  BY <1>1, <1>2, <1>4, <1>5 DEF Dv!Advance

(* the rest of the state changes under steps that stand still *)
LEMMA DvTakenSame ==
  ASSUME dv' = dv, step' = step
  PROVE  /\ \A t : DvTaken(t)' <=> DvTaken(t)
         /\ Dv!Now' = Dv!Now /\ Dv!Steps' = Dv!Steps
         /\ DvHas("irq")' <=> DvHas("irq")
BY DvStepsFixed DEF DvTaken, Dv!Now, DvHas

(* DvInvariant of RvDevices follows *)
LEMMA DvInductiveSafe == DvInductive => Dv!DvInvariant
<1> SUFFICES ASSUME DvInductive PROVE Dv!DvInvariant  OBVIOUS
<1> USE DEF DvInductive
<1>1. StepOrder /\ ConfigOrder /\ FailOrder  BY DvOrder DEF DvTypes
<1>2. /\ Dv!Ahead("begin") <=> ~ DvTaken("begin")
      /\ Dv!Ahead("end") <=> ~ DvTaken("end")
      /\ dv # "gpu" => (Dv!Ahead("after") <=> ~ DvTaken("after"))
  BY <1>1, DvAhead DEF StepOrder, ConfigOrder
<1>3. Dv!HandshakeInOrder
  <2> SUFFICES ASSUME DvTaken("begin"), "DRIVER_OK" \in dvStatus \/ told
               PROVE  /\ "FEATURES_OK" \in dvStatus /\ dvReady = {"queue0", "queue1"}
                      /\ "FAILED" \notin dvStatus
    BY <1>2 DEF Dv!HandshakeInOrder
  <2>1. DvTaken("end") \/ DvTaken("tell")  BY DEF DvHandshake
  <2>2. DvTaken("featuresOk") /\ DvTaken("queue0") /\ DvTaken("queue1")
    BY <2>1, <1>1, DvTakenInOrder DEF StepOrder
  <2> QED  BY <2>1, <2>2 DEF DvHandshake, DvTypes
<1>4. Dv!ConfigIsConsistent  BY <1>2 DEF Dv!ConfigIsConsistent, DvConfig, DvTypes
<1>5. Dv!CallbacksHaveMemory
  <2>1. DvTaken("irq") \/ DvTaken("task") \/ DvTaken("timer") => DvTaken("mem")
    BY <1>1, DvTakenInOrder DEF StepOrder
  <2> QED  BY <2>1 DEF Dv!CallbacksHaveMemory, DvHeld, DvTypes, Dv!Kinds
<1>6. Dv!LeftOver
  <2>1. "hid" \in held => ~ Dv!Ahead("hid")  BY DvAhead DEF DvHeld
  <2> QED  BY <1>2, <2>1 DEF Dv!LeftOver, DvHeld
<1>7. Dv!FreesAreGood  BY <1>2 DEF Dv!FreesAreGood, DvHeld
<1>8. Dv!CrashesInRegistration
  <2> SUFFICES ASSUME stage = "crashed"
               PROVE  /\ ~ Dv!Ahead("featuresOk") /\ Dv!Ahead("irq")
                      /\ "FAILED" \notin dvStatus /\ "DRIVER_OK" \notin dvStatus
    BY DEF Dv!CrashesInRegistration
  <2>1. DvTaken("featuresOk") /\ DvHas("irq") /\ ~ DvTaken("irq") /\ ~ DvTaken("end")
    BY DEF DvHeld
  <2>2. DvTaken("begin")  BY <2>1, <1>1, DvTakenInOrder DEF StepOrder
  <2>3. "FAILED" \notin dvStatus /\ "DRIVER_OK" \notin dvStatus
    BY <2>1, <2>2 DEF DvHandshake
  <2> QED  BY <2>1, <2>3, DvAhead
<1> QED  BY <1>3, <1>4, <1>5, <1>6, <1>7, <1>8 DEF Dv!DvInvariant

(* nothing is taken, held or told at the start *)
LEMMA DvInitial == Dv!DvInit => DvInductive
<1> SUFFICES ASSUME Dv!DvInit PROVE DvInductive  OBVIOUS
<1> USE DEF Dv!DvInit
<1>1. Len(Dv!Steps) \in Nat \ {0}  BY DvOrder DEF StepOrder
<1>2. \A t : ~ DvTaken(t)  BY DEF DvTaken
<1>3. DvTypes  BY <1>1 DEF DvTypes
<1> QED  BY <1>2, <1>3 DEF DvInductive, DvHandshake, DvConfig, DvHeld

(* what is acquired is held *)
LEMMA DvAcquireKeeps ==
  ASSUME DvInductive, stage = "running", Dv!Acquire PROVE DvInductive'
<1> USE DEF DvInductive, Dv!Acquire
<1>1. /\ \A t : DvTaken(t)' <=> DvTaken(t) \/ t = Dv!Now
      /\ stage' \in {"running", "up"}
      /\ step' \in 0 .. Len(Dv!Steps)' /\ (stage' = "running" => step' < Len(Dv!Steps)')
      /\ dv' = dv /\ aligned' = aligned /\ badFree' = badFree
  BY DvAdvances
<1>2. Dv!Now \notin {"begin", "end", "tell", "featuresOk", "queue0", "queue1",
                      "before", "field1", "field2", "after"}
  BY DEF Dv!Kinds
<1>3. DvTypes'  BY <1>1 DEF DvTypes, Dv!Kinds
<1>4. DvHandshake'  BY <1>1, <1>2 DEF DvHandshake
<1>5. DvConfig'  BY <1>1, <1>2 DEF DvConfig
<1>6. DvHeld'  BY <1>1, <1>2 DEF DvHeld, Dv!Kinds
<1> QED  BY <1>3, <1>4, <1>5, <1>6

(* the status is written when its turn comes *)
LEMMA DvWriteStatusKeeps ==
  ASSUME DvInductive, stage = "running", Dv!WriteStatus PROVE DvInductive'
<1> USE DEF DvInductive, Dv!WriteStatus
<1>1. /\ \A t : DvTaken(t)' <=> DvTaken(t) \/ t = Dv!Now
      /\ ~ DvTaken(Dv!Now)
      /\ stage' \in {"running", "up"}
      /\ step' \in 0 .. Len(Dv!Steps)' /\ (stage' = "running" => step' < Len(Dv!Steps)')
      /\ dv' = dv /\ aligned' = aligned /\ badFree' = badFree
  BY DvAdvances
<1>2. Dv!Now = "begin" => ~ DvTaken("featuresOk")
  BY <1>1, DvOrder, DvTakenInOrder DEF StepOrder, DvTypes
<1>3. DvTypes'  BY <1>1 DEF DvTypes
<1>4. DvHandshake'
  <2>1. CASE Dv!Now = "begin"
    <3>1. dvStatus' = {"ACK", "DRIVER"}  BY <2>1
    <3> QED  BY <1>1, <1>2, <2>1, <3>1 DEF DvHandshake
  <2>2. CASE Dv!Now = "featuresOk"
    <3>1. dvStatus' = dvStatus \cup {"FEATURES_OK"}  BY <2>2
    <3> QED  BY <1>1, <2>2, <3>1 DEF DvHandshake
  <2>3. CASE Dv!Now = "end"
    <3>1. dvStatus' = dvStatus \cup {"DRIVER_OK"}  BY <2>3
    <3> QED  BY <1>1, <2>3, <3>1 DEF DvHandshake
  <2> QED  BY <2>1, <2>2, <2>3
<1>5. DvConfig'  BY <1>1 DEF DvConfig
<1>6. DvHeld'  BY <1>1 DEF DvHeld, Dv!Kinds
<1> QED  BY <1>3, <1>4, <1>5, <1>6

(* a queue is ready, the device is looked at, or told *)
LEMMA DvPlainKeeps ==
  ASSUME DvInductive, stage = "running", Dv!ConfigQueue \/ Dv!Look \/ Dv!Tell
  PROVE  DvInductive'
<1> USE DEF DvInductive
<1>0. Dv!Advance  BY DEF Dv!ConfigQueue, Dv!Look, Dv!Tell
<1>1. /\ \A t : DvTaken(t)' <=> DvTaken(t) \/ t = Dv!Now
      /\ stage' \in {"running", "up"}
      /\ step' \in 0 .. Len(Dv!Steps)' /\ (stage' = "running" => step' < Len(Dv!Steps)')
      /\ dv' = dv /\ aligned' = aligned /\ badFree' = badFree
  BY <1>0, DvAdvances
<1>2. Dv!Now \in {"queue0", "queue1", "discover", "version1", "tell"}
      /\ UNCHANGED <<dvStatus, held, dvSeen>>
  BY DEF Dv!ConfigQueue, Dv!Look, Dv!Tell
<1>3. CASE Dv!ConfigQueue
  <2> USE <1>3 DEF Dv!ConfigQueue
  <2>1. DvTypes'  BY <1>1, <1>2 DEF DvTypes
  <2>2. DvHandshake'  BY <1>1 DEF DvHandshake
  <2>3. DvConfig'  BY <1>1, <1>2 DEF DvConfig
  <2>4. DvHeld'  BY <1>1, <1>2 DEF DvHeld, Dv!Kinds
  <2> QED  BY <2>1, <2>2, <2>3, <2>4
<1>4. CASE Dv!Look
  <2> USE <1>4 DEF Dv!Look
  <2>1. DvTypes'  BY <1>1, <1>2 DEF DvTypes
  <2>2. DvHandshake'  BY <1>1 DEF DvHandshake
  <2>3. DvConfig'  BY <1>1, <1>2 DEF DvConfig
  <2>4. DvHeld'  BY <1>1, <1>2 DEF DvHeld, Dv!Kinds
  <2> QED  BY <2>1, <2>2, <2>3, <2>4
<1>5. CASE Dv!Tell
  <2> USE <1>5 DEF Dv!Tell
  <2>1. DvTypes'  BY <1>1, <1>2 DEF DvTypes
  <2>2. DvHandshake'  BY <1>1 DEF DvHandshake
  <2>3. DvConfig'  BY <1>1, <1>2 DEF DvConfig
  <2>4. DvHeld'  BY <1>1, <1>2 DEF DvHeld, Dv!Kinds
  <2> QED  BY <2>1, <2>2, <2>3, <2>4
<1> QED  BY <1>3, <1>4, <1>5

(* where the reads of the configuration stand when one of them is due *)
LEMMA DvReads ==
  ASSUME DvInductive, stage = "running"
  PROVE  /\ Dv!Now = "after" =>
              step >= 3 /\ DvTaken("before") /\ DvTaken("field1") /\ DvTaken("field2")
         /\ Dv!Now = "before" =>
              ~ DvTaken("field1") /\ ~ DvTaken("field2") /\ ~ DvTaken("after")
         /\ Dv!Now \in {"field1", "field2"} => DvTaken("before") /\ ~ DvTaken("after")
         /\ Dv!Now \in {"before", "field1", "field2", "after"} => dv # "gpu"
<1>1. /\ step \in Nat /\ step < Len(Dv!Steps) /\ Len(Dv!Steps) \in Nat /\ DvOnce
      /\ ConfigOrder
  BY DvOrder DEF DvInductive, DvTypes, StepOrder
<1>2. step + 1 \in 1 .. Len(Dv!Steps) /\ Dv!Now = Dv!Steps[step + 1]  BY <1>1 DEF Dv!Now
<1>3. ASSUME Dv!Now = "after"
      PROVE  step >= 3 /\ DvTaken("before") /\ DvTaken("field1") /\ DvTaken("field2")
  <2>1. Dv!Steps[step + 1] = "after"  BY <1>2, <1>3
  <2>2. /\ step + 1 > 3 /\ Dv!Steps[step + 1 - 3] = "before"
        /\ Dv!Steps[step + 1 - 2] = "field1" /\ Dv!Steps[step + 1 - 1] = "field2"
    BY <1>1, <2>1 DEF ConfigOrder
  <2> QED  BY <1>1, <2>2 DEF DvTaken
<1>4. ASSUME Dv!Now = "before"
      PROVE  ~ DvTaken("field1") /\ ~ DvTaken("field2") /\ ~ DvTaken("after")
  <2>1. Dv!Steps[step + 1] = "before"  BY <1>2, <1>4
  <2>2. \A k \in 1 .. step : Dv!Steps[k] # "before"  BY <1>1, <2>1 DEF DvOnce
  <2>3. ASSUME NEW k \in 1 .. step
        PROVE  Dv!Steps[k] # "field1" /\ Dv!Steps[k] # "field2" /\ Dv!Steps[k] # "after"
    <3>1. k \in 1 .. Len(Dv!Steps)  BY <1>1
    <3> QED  BY <1>1, <2>2, <3>1 DEF ConfigOrder
  <2> QED  BY <2>3 DEF DvTaken
<1>5. ASSUME Dv!Now \in {"field1", "field2"} PROVE DvTaken("before") /\ ~ DvTaken("after")
  <2>1. DvTaken("before")
    <3>1. CASE Dv!Now = "field1"
      <4>1. Dv!Steps[step + 1] = "field1"  BY <1>2, <3>1
      <4>2. step + 1 > 1 /\ Dv!Steps[step + 1 - 1] = "before"
        BY <1>1, <4>1 DEF ConfigOrder
      <4> QED  BY <4>2, <1>1 DEF DvTaken
    <3>2. CASE Dv!Now = "field2"
      <4>1. Dv!Steps[step + 1] = "field2"  BY <1>2, <3>2
      <4>2. step + 1 > 2 /\ Dv!Steps[step + 1 - 2] = "before"
        BY <1>1, <4>1 DEF ConfigOrder
      <4> QED  BY <4>2, <1>1 DEF DvTaken
    <3> QED  BY <1>5, <3>1, <3>2
  <2>2. ~ DvTaken("after")
    <3> SUFFICES ASSUME NEW j \in 1 .. step, Dv!Steps[j] = "after" PROVE FALSE  BY DEF DvTaken
    <3>1. /\ j \in 1 .. Len(Dv!Steps) /\ j - 1 \in 1 .. Len(Dv!Steps)
          /\ j - 2 \in 1 .. Len(Dv!Steps)
          /\ Dv!Steps[j - 2] = "field1" /\ Dv!Steps[j - 1] = "field2"
      BY <1>1 DEF ConfigOrder
    <3> QED  BY <3>1, <1>1, <1>2, <1>5 DEF DvOnce
  <2> QED  BY <2>1, <2>2
<1>6. Dv!Now \in {"before", "field1", "field2", "after"} => dv # "gpu"
  BY <1>1, <1>2 DEF ConfigOrder, DvHas
<1> QED  BY <1>3, <1>4, <1>5, <1>6

(* what is read is of the present generation *)
LEMMA DvReadFieldKeeps ==
  ASSUME DvInductive, stage = "running", Dv!ReadField PROVE DvInductive'
<1> USE DEF DvInductive, Dv!ReadField
<1>1. /\ \A t : DvTaken(t)' <=> DvTaken(t) \/ t = Dv!Now
      /\ stage' \in {"running", "up"}
      /\ step' \in 0 .. Len(Dv!Steps)' /\ (stage' = "running" => step' < Len(Dv!Steps)')
      /\ dv' = dv /\ aligned' = aligned /\ badFree' = badFree
  BY DvAdvances
<1>2. dv # "gpu" /\ ~ DvTaken("after")  BY DvReads
<1>3. /\ dvSeen \in [gen : Nat, before : Nat, field1 : Nat, field2 : Nat]
      /\ dvSeen' \in [gen : Nat, before : Nat, field1 : Nat, field2 : Nat]
      /\ dvSeen'[Dv!Now] = dvSeen.gen
      /\ \A f \in {"gen", "before", "field1", "field2"} :
           f # Dv!Now => dvSeen'[f] = dvSeen[f]
  BY DEF DvTypes
<1>4. DvTypes'  BY <1>1, <1>3 DEF DvTypes
<1>5. DvHandshake'  BY <1>1 DEF DvHandshake
<1>6. DvConfig'
  <2>1. CASE Dv!Now = "before"
    <3>1. dvSeen'.before = dvSeen.gen /\ dvSeen'.gen = dvSeen.gen  BY <1>3, <2>1
    <3>2. ~ DvTaken("field1")' /\ ~ DvTaken("field2")' /\ ~ DvTaken("after")'
      BY <1>1, <2>1, DvReads
    <3> QED  BY <1>1, <1>2, <1>3, <3>1, <3>2 DEF DvConfig
  <2>2. CASE Dv!Now = "field1"
    <3>1. /\ dvSeen'.field1 = dvSeen.gen /\ dvSeen'.gen = dvSeen.gen
          /\ dvSeen'.before = dvSeen.before /\ dvSeen'.field2 = dvSeen.field2
      BY <1>3, <2>2
    <3>2. DvTaken("before")  BY <2>2, DvReads
    <3> QED  BY <1>1, <1>2, <1>3, <2>2, <3>1, <3>2 DEF DvConfig
  <2>3. CASE Dv!Now = "field2"
    <3>1. /\ dvSeen'.field2 = dvSeen.gen /\ dvSeen'.gen = dvSeen.gen
          /\ dvSeen'.before = dvSeen.before /\ dvSeen'.field1 = dvSeen.field1
      BY <1>3, <2>3
    <3>2. DvTaken("before")  BY <2>3, DvReads
    <3> QED  BY <1>1, <1>2, <1>3, <2>3, <3>1, <3>2 DEF DvConfig
  <2> QED  BY <2>1, <2>2, <2>3
<1>7. DvHeld'  BY <1>1 DEF DvHeld, Dv!Kinds
<1> QED  BY <1>4, <1>5, <1>6, <1>7

(* the three reads are taken back when the generation moved on *)
LEMMA DvTakenBack ==
  ASSUME DvInductive, stage = "running", dv' = dv, Dv!Now = "after", step' = step - 3
  PROVE  /\ \A t : DvTaken(t)' <=> DvTaken(t) /\ t \notin {"before", "field1", "field2"}
         /\ step' \in 0 .. Len(Dv!Steps)' /\ step' < Len(Dv!Steps)'
<1>1. Dv!Steps' = Dv!Steps  BY DvStepsFixed
<1>2. /\ step \in Nat /\ step < Len(Dv!Steps) /\ Len(Dv!Steps) \in Nat /\ DvOnce
      /\ ConfigOrder
  BY DvOrder DEF DvInductive, DvTypes, StepOrder
<1>3. /\ step >= 3 /\ Dv!Steps[step - 2] = "before"
      /\ Dv!Steps[step - 1] = "field1" /\ Dv!Steps[step] = "field2"
  <2>1. /\ step + 1 > 3 /\ Dv!Steps[step + 1 - 3] = "before"
        /\ Dv!Steps[step + 1 - 2] = "field1" /\ Dv!Steps[step + 1 - 1] = "field2"
    BY <1>2 DEF ConfigOrder, Dv!Now
  <2> QED  BY <1>2, <2>1
<1>4. ASSUME NEW t PROVE DvTaken(t)' <=> \E i \in 1 .. step - 3 : Dv!Steps[i] = t
  BY <1>1 DEF DvTaken
<1>5. ASSUME NEW i \in 1 .. step
      PROVE  i <= step - 3 <=> Dv!Steps[i] \notin {"before", "field1", "field2"}
  <2>1. CASE i <= step - 3  BY <1>2, <1>3, <2>1 DEF DvOnce
  <2>2. CASE i > step - 3
    <3>1. i = step - 2 \/ i = step - 1 \/ i = step  BY <2>2, <1>2
    <3> QED  BY <1>2, <1>3, <3>1
  <2> QED  BY <2>1, <2>2, <1>2
<1>6. ASSUME NEW t
      PROVE  (\E i \in 1 .. step - 3 : Dv!Steps[i] = t)
               <=> DvTaken(t) /\ t \notin {"before", "field1", "field2"}
  <2>1. 1 .. step - 3 \subseteq 1 .. step  BY <1>2
  <2>2. \A i \in 1 .. step : i <= step - 3 => i \in 1 .. step - 3  BY <1>2
  <2>3. 1 .. step - 3 \subseteq {i \in 1 .. step : i <= step - 3}  BY <1>2
  <2> QED  BY <1>5, <2>1, <2>2, <2>3 DEF DvTaken
<1> QED  BY <1>1, <1>2, <1>3, <1>4, <1>6

(* the loop ends with two fields of one generation, or begins again *)
LEMMA DvReadAgainKeeps ==
  ASSUME DvInductive, stage = "running", Dv!ReadAgain PROVE DvInductive'
<1> USE DEF DvInductive, Dv!ReadAgain
<1>1. CASE dvSeen.before = dvSeen.gen
  <2>0. Dv!Advance  BY <1>1
  <2>1. /\ \A t : DvTaken(t)' <=> DvTaken(t) \/ t = Dv!Now
        /\ ~ DvTaken(Dv!Now)
        /\ stage' \in {"running", "up"}
        /\ step' \in 0 .. Len(Dv!Steps)' /\ (stage' = "running" => step' < Len(Dv!Steps)')
        /\ dv' = dv /\ aligned' = aligned /\ badFree' = badFree
    BY <2>0, DvAdvances
  <2>2. DvTaken("before") /\ DvTaken("field1") /\ DvTaken("field2")  BY DvReads
  <2>3. DvTypes'  BY <2>1 DEF DvTypes
  <2>4. DvHandshake'  BY <2>1 DEF DvHandshake
  <2>5. DvConfig'  BY <1>1, <2>1, <2>2 DEF DvConfig, DvTypes
  <2>6. DvHeld'  BY <2>1 DEF DvHeld, Dv!Kinds
  <2> QED  BY <2>3, <2>4, <2>5, <2>6
<1>2. CASE dvSeen.before # dvSeen.gen
  <2>0. step' = step - 3 /\ UNCHANGED <<dv, stage, aligned, badFree>>  BY <1>2
  <2>1. /\ \A t : DvTaken(t)' <=> DvTaken(t) /\ t \notin {"before", "field1", "field2"}
        /\ step' \in 0 .. Len(Dv!Steps)' /\ step' < Len(Dv!Steps)'
    BY <2>0, DvTakenBack
  <2>3. DvTypes'  BY <2>0, <2>1 DEF DvTypes
  <2>4. DvHandshake'  BY <2>0, <2>1 DEF DvHandshake
  <2>5. DvConfig'  BY <2>0, <2>1 DEF DvConfig
  <2>6. DvHeld'  BY <2>0, <2>1 DEF DvHeld, DvTypes, Dv!Kinds
  <2> QED  BY <2>3, <2>4, <2>5, <2>6
<1> QED  BY <1>1, <1>2

(* a failure comes before the device is told, and leaves the parameter, the  *)
(* moved queues and the input device alone                                  *)
LEMMA DvFailKeeps ==
  ASSUME DvInductive, stage = "running", Dv!Fail PROVE DvInductive'
<1> USE DEF DvInductive, Dv!Fail
<1>1. /\ \A t : DvTaken(t)' <=> DvTaken(t)
      /\ Dv!Steps' = Dv!Steps
  BY DvTakenSame
<1>2. /\ step \in Nat /\ step < Len(Dv!Steps) /\ Len(Dv!Steps) \in Nat
      /\ StepOrder /\ FailOrder
  BY DvOrder DEF DvTypes, StepOrder
<1>3. Dv!Now = Dv!Steps[step + 1] /\ Dv!Now \in MayFail
  BY DEF Dv!Now, Dv!CanFail, MayFail
<1>4. ~ DvTaken("end") /\ ~ DvTaken("tell") /\ (dv = "net" => ~ DvTaken("irq"))
  BY <1>2, <1>3 DEF FailOrder, DvTaken
<1>5. held \subseteq KindsOf
  <2>1. \A r \in held : DvHas(r)  BY DvAhead DEF DvHeld
  <2> QED  BY <2>1, <1>2 DEF FailOrder, DvHas, DvTypes
<1>6. held' \subseteq {"param"} \cup (IF aligned THEN {} ELSE {"queues"}) \cup {"hid"}
      /\ held' \subseteq held
  <2>1. CASE dv = "net"
    <3>1. "irq" \notin held  BY <1>4, <2>1 DEF DvHeld
    <3>2. held' = held \ {"netif", "mem", "rbufRec", "tbufRec", IF aligned THEN "queues" ELSE ""}
      BY <2>1 DEF Dv!DeInit
    <3>3. held \subseteq {"netif", "mem", "queues", "rbufRec", "tbufRec", "param", "irq"}
      BY <1>5, <2>1 DEF KindsOf
    <3> QED  BY ONLY <3>1, <3>2, <3>3
  <2>2. CASE dv = "input"  BY <1>5, <2>2 DEF Dv!DeInit, KindsOf
  <2>3. CASE dv = "gpu"  BY <1>5, <2>3 DEF Dv!DeInit, KindsOf
  <2> QED  BY <2>1, <2>2, <2>3 DEF DvTypes
<1>6a. badFree' => dv' = "net" /\ "queues" \in held' /\ ~ aligned'
  <2> SUFFICES ASSUME Dv!BadDesc PROVE dv' = dv /\ aligned' = aligned /\ "queues" \in held'
    BY DEF Dv!BadDesc
  <2>1. held' = held \ {"netif", "mem", "rbufRec", "tbufRec", ""}
    BY DEF Dv!BadDesc, Dv!DeInit
  <2> QED  BY <2>1 DEF Dv!BadDesc
<1>7. "FAILED" \in dvStatus' => "FAILED" \in dvStatus \/ DvTaken("begin")
  BY <1>2, DvAhead DEF StepOrder
<1>8. dvStatus \subseteq dvStatus' /\ dvStatus' \subseteq dvStatus \cup {"FAILED"}  OBVIOUS
<1>9. DvTypes'  BY <1>1, <1>6 DEF DvTypes
<1>10. DvHandshake'
  <2>1. "DRIVER_OK" \in dvStatus' => "DRIVER_OK" \in dvStatus  BY <1>8
  <2>2. "FEATURES_OK" \in dvStatus => "FEATURES_OK" \in dvStatus'  BY <1>8
  <2>3. stage' = "failed" /\ dvReady' = dvReady /\ told' = told  OBVIOUS
  <2> QED  BY <1>1, <1>4, <1>7, <2>1, <2>2, <2>3 DEF DvHandshake
<1>11. DvConfig'  BY <1>1 DEF DvConfig
<1>12. DvHeld'  BY <1>1, <1>4, <1>6, <1>6a DEF DvHeld
<1> QED  BY <1>9, <1>10, <1>11, <1>12

(* without memory for the parameter of the interrupt all stays as it is *)
LEMMA DvCrashKeeps ==
  ASSUME DvInductive, stage = "running", Dv!Crash PROVE DvInductive'
<1> USE DEF DvInductive, Dv!Crash
<1>1. /\ \A t : DvTaken(t)' <=> DvTaken(t)
      /\ Dv!Steps' = Dv!Steps
      /\ DvHas("irq")' <=> DvHas("irq")
  BY DvTakenSame
<1>2. /\ step \in Nat /\ step < Len(Dv!Steps) /\ Len(Dv!Steps) \in Nat /\ DvOnce
      /\ StepOrder /\ FailOrder
  BY DvOrder DEF DvTypes, StepOrder
<1>3. DvHas("param") /\ ~ DvTaken("param") /\ Dv!Steps[step + 1] = "param"
  BY <1>2 DEF DvHas, DvTaken, DvOnce, Dv!Now
<1>4. DvTaken("featuresOk") /\ DvHas("irq") /\ ~ DvTaken("irq")
  BY <1>2, <1>3, DvTakenInOrder DEF StepOrder
<1>5. ~ DvTaken("end")  BY <1>2, <1>3 DEF FailOrder, DvTaken, MayFail, Dv!Kinds
<1>6. DvTypes'  BY <1>1 DEF DvTypes
<1>7. DvHandshake'  BY <1>1 DEF DvHandshake
<1>8. DvConfig'  BY <1>1 DEF DvConfig
<1>9. DvHeld'  BY <1>1, <1>4, <1>5 DEF DvHeld
<1> QED  BY <1>6, <1>7, <1>8, <1>9

(* the release takes back all but the parameter *)
LEMMA DvReleaseKeeps ==
  ASSUME DvInductive, Dv!HdfVirtinRelease PROVE DvInductive'
<1> USE DEF DvInductive, Dv!HdfVirtinRelease
<1>1. /\ \A t : DvTaken(t)' <=> DvTaken(t)
      /\ Dv!Steps' = Dv!Steps
  BY DvTakenSame
<1>2. StepOrder /\ FailOrder  BY DvOrder DEF DvTypes
<1>3. held \subseteq KindsOf
  <2>1. \A r \in held : DvHas(r)  BY DvAhead DEF DvHeld
  <2> QED  BY <2>1, <1>2 DEF FailOrder, DvHas, DvTypes
<1>4. held' \subseteq {"param"} /\ held' \subseteq held  BY <1>3 DEF Dv!DeInit, KindsOf
<1>5. badFree' => ~ DvTaken("end")
  <2>1. CASE stage = "up"
    <3>2. DvTaken("end") => DvTaken("mem")
      <4>1. DvPrecedes("mem", "end")
        BY <1>2, InputOrder DEF DvPrecedes, Dv!Steps, Dv!InputSteps
      <4> QED  BY <4>1, DvTakenInOrder
    <3> QED  BY <2>1, <3>2 DEF DvHeld, Dv!Kinds
  <2>2. CASE stage = "failed"  BY <2>2 DEF DvHeld
  <2> QED  BY <2>1, <2>2
<1>6. DvTypes'  BY <1>1, <1>4 DEF DvTypes
<1>7. DvHandshake'  BY <1>1 DEF DvHandshake
<1>8. DvConfig'  BY <1>1 DEF DvConfig
<1>9. DvHeld'  BY <1>1, <1>4, <1>5 DEF DvHeld
<1> QED  BY <1>6, <1>7, <1>8, <1>9

(* the device changes its configuration *)
LEMMA DvChangeKeeps ==
  ASSUME DvInductive, Dv!ChangeConfig PROVE DvInductive'
<1> USE DEF DvInductive, Dv!ChangeConfig
<1>1. /\ \A t : DvTaken(t)' <=> DvTaken(t)
      /\ Dv!Steps' = Dv!Steps
      /\ DvHas("irq")' <=> DvHas("irq")
  BY DvTakenSame
<1>2. /\ dvSeen \in [gen : Nat, before : Nat, field1 : Nat, field2 : Nat]
      /\ dvSeen' \in [gen : Nat, before : Nat, field1 : Nat, field2 : Nat]
      /\ dvSeen'.gen = dvSeen.gen + 1 /\ dvSeen'.before = dvSeen.before
      /\ dvSeen'.field1 = dvSeen.field1 /\ dvSeen'.field2 = dvSeen.field2
  BY DEF DvTypes
<1>3. DvTypes'  BY <1>1, <1>2 DEF DvTypes
<1>4. DvHandshake'  BY <1>1 DEF DvHandshake
<1>5. DvConfig'  BY <1>1, <1>2 DEF DvConfig
<1>6. DvHeld'  BY <1>1 DEF DvHeld
<1> QED  BY <1>3, <1>4, <1>5, <1>6

(* no step of a driver, the device or the framework breaks DvInductive *)
LEMMA DvStays == DvInductive /\ [Dv!DvNext]_dvVars => DvInductive'
<1> SUFFICES ASSUME DvInductive, [Dv!DvNext]_dvVars PROVE DvInductive'  OBVIOUS
<1>1. CASE stage = "running" /\ Dv!Succeeds
  BY <1>1, DvAcquireKeeps, DvWriteStatusKeeps, DvPlainKeeps, DvReadFieldKeeps, DvReadAgainKeeps
  DEF Dv!Succeeds
<1>2. CASE stage = "running" /\ (Dv!Fail \/ Dv!Crash)  BY <1>2, DvFailKeeps, DvCrashKeeps
<1>3. CASE Dv!HdfVirtinRelease  BY <1>3, DvReleaseKeeps
<1>4. CASE Dv!ChangeConfig  BY <1>4, DvChangeKeeps
<1>5. CASE UNCHANGED dvVars
  <2>1. /\ \A t : DvTaken(t)' <=> DvTaken(t)
        /\ Dv!Steps' = Dv!Steps
        /\ DvHas("irq")' <=> DvHas("irq")
    BY <1>5, DvTakenSame DEF dvVars
  <2> QED  BY <1>5, <2>1 DEF dvVars, DvInductive, DvTypes, DvHandshake, DvConfig, DvHeld
<1> QED  BY <1>1, <1>2, <1>3, <1>4, <1>5 DEF Dv!DvNext

----------------------------------------------------------------------------
(* Both drivers among the drivers of the boards: what the two keep, and what *)
(* the boards' behaviours never leave.                                       *)
MpsInductive == LanInductive /\ CmsdkInductive

(* A step of a board is one of the chip, one of the console, or leaves both  *)
(* alone.                                                                    *)
LEMMA MpsSteps ==
  [BoardNext]_boardVars => [LanNext]_lanVars /\ [CmsdkNext]_cmsdkVars
<1> SUFFICES ASSUME [BoardNext]_boardVars
             PROVE  [LanNext]_lanVars /\ [CmsdkNext]_cmsdkVars
  OBVIOUS
<1>1. CASE UNCHANGED boardVars  BY <1>1 DEF boardVars, mpsVars
<1>2. CASE OnLan(LanNext)  BY <1>2 DEF OnLan
<1>3. CASE OnCmsdk(CmsdkNext)  BY <1>3 DEF OnCmsdk
<1>4. ASSUME UNCHANGED mpsVars PROVE [LanNext]_lanVars /\ [CmsdkNext]_cmsdkVars
  BY <1>4 DEF mpsVars
<1>5. CASE OnNet("rvtx", RvTxNext) \/ OnNet("rvrx", RvRxNext) \/ OnInput(RvIn!RvInputNext)
           \/ OnFb(Fb!FbNext) \/ OnFlash(Fl!FlashNext) \/ OnDev(Dv!DvNext)
  BY <1>5, <1>4 DEF OnNet, OnInput, OnFb, OnFlash, OnDev, Others
<1>6. CASE OnUsart(UsartNext) \/ OnTimer(TimerNext) \/ OnGpio(GpioNext) \/ OnSimd(Simd!SimdNext)
  BY <1>6, <1>4 DEF OnUsart, OnTimer, OnGpio, OnSimd
<1> QED  BY <1>1, <1>2, <1>3, <1>5, <1>6 DEF BoardNext

(* Start-up of the Ethernet chip comes to the end with all it must set, what *)
(* is received is delivered whole and in order, frames stay within the FIFO; *)
(* and the console prints whole bytes, goes on listening and runs at the     *)
(* rate of its clock: MpsInvariant, in every behaviour of the boards.        *)
THEOREM MpsIsSafe == BoardSpec => []MpsInvariant
<1>1. BoardInit => MpsInductive
  BY LanInitial, CmsdkInitial DEF BoardInit, MpsInductive
<1>2. MpsInductive /\ [BoardNext]_boardVars => MpsInductive'
  BY MpsSteps, LanStays, CmsdkStays DEF MpsInductive
<1>3. MpsInductive => MpsInvariant
  BY LanInductiveSafe DEF MpsInductive, MpsInvariant, CmsdkInductive
<1> QED  BY <1>1, <1>2, <1>3, PTL DEF BoardSpec

(* The three parts of riscv32_virt: the flash, the frame buffer and the      *)
(* drivers that are brought up.                                              *)
RvInductive == FlashInductive /\ FbInductive /\ DvInductive

(* A step of a board is one of the flash, of the frame buffer or of a driver *)
(* that is brought up, or leaves all three alone.                            *)
LEMMA RvSteps ==
  [BoardNext]_boardVars =>
    [Fl!FlashNext]_flVars /\ [Fb!FbNext]_fbVars /\ [Dv!DvNext]_dvVars
<1> SUFFICES ASSUME [BoardNext]_boardVars
             PROVE  [Fl!FlashNext]_flVars /\ [Fb!FbNext]_fbVars /\ [Dv!DvNext]_dvVars
  OBVIOUS
<1>1. CASE UNCHANGED boardVars  BY <1>1 DEF boardVars, rvVars
<1>2. CASE OnFlash(Fl!FlashNext)  BY <1>2 DEF OnFlash
<1>3. CASE OnFb(Fb!FbNext)  BY <1>3 DEF OnFb
<1>4. CASE OnDev(Dv!DvNext)  BY <1>4 DEF OnDev
<1>5. ASSUME UNCHANGED <<fbVars, flVars, dvVars>>
      PROVE  [Fl!FlashNext]_flVars /\ [Fb!FbNext]_fbVars /\ [Dv!DvNext]_dvVars
  BY <1>5
<1>6. CASE OnNet("rvtx", RvTxNext) \/ OnNet("rvrx", RvRxNext) \/ OnInput(RvIn!RvInputNext)
  BY <1>6, <1>5 DEF OnNet, OnInput
<1>7. CASE OnUsart(UsartNext) \/ OnTimer(TimerNext) \/ OnGpio(GpioNext) \/ OnSimd(Simd!SimdNext)
           \/ OnLan(LanNext) \/ OnCmsdk(CmsdkNext)
  BY <1>7, <1>5 DEF OnUsart, OnTimer, OnGpio, OnSimd, OnLan, OnCmsdk, rvVars
<1> QED  BY <1>1, <1>2, <1>3, <1>4, <1>6, <1>7 DEF BoardNext

(* The flash, the frame buffer and the drivers that are brought up keep      *)
(* their inductive invariants in every behaviour of the boards.              *)
THEOREM RvBoardAlwaysInductive == BoardSpec => []RvInductive
<1>1. BoardInit => RvInductive
  BY FlashInitial, FbInitial, DvInitial DEF BoardInit, RvInductive
<1>2. RvInductive /\ [BoardNext]_boardVars => RvInductive'
  BY RvSteps, FlashStays, FbStays, DvStays DEF RvInductive
<1> QED  BY <1>1, <1>2, PTL DEF BoardSpec

(* The flash holds what was written as long as no call meets a query, nobody *)
(* uses memory of the frame buffer that is not allocated before a layer is   *)
(* closed, and no driver works before its device agreed, reads half a        *)
(* configuration, calls back without its memory or is left half released:    *)
(* RvBoardInvariant, in every behaviour of the boards.                       *)
THEOREM RvBoardIsSafe == BoardSpec => []RvBoardInvariant
<1>1. RvInductive => RvBoardInvariant
  BY FlashInductiveSafe, FbInductiveSafe, DvInductiveSafe DEF RvInductive, RvBoardInvariant
<1> QED  BY <1>1, RvBoardAlwaysInductive, PTL
============================================================================
