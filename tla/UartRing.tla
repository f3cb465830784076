------------------------------ MODULE UartRing ------------------------------
(***************************************************************************)
(* The interrupt-driven UART of uart.c: the two ring buffers, their        *)
(* interrupt handlers, uart_async_getc and uart_async_putc, and the one    *)
(* program that uses them, the shell command test_async                    *)
(* (test_uart_async), which prints a greeting and echoes what is typed.    *)
(*                                                                         *)
(* An interrupt may land anywhere in the program; the handlers run with    *)
(* interrupts masked.  Only the program's read-modify-write of the         *)
(* interrupt enable register can be disturbed by a handler, so the load    *)
(* and the store of that register are separate steps.                      *)
(*                                                                         *)
(* rx_buffer and tx_buffer are set by init_uart, which main never calls:   *)
(* without it both pointers are NULL and the rings share one memory        *)
(* (aliased).  Both cases are initial states.                              *)
(***************************************************************************)
EXTENDS Integers, SequencesExt

CONSTANTS
    BUFFER_SIZE,  \* 4096 in uart.c
    CR, LF, Quit, \* '\r', '\n' and 'q'
    Others,       \* the other characters
    Inputs,       \* the characters that may be typed
    Greeting,     \* what the program prints first
    MaxTyped      \* how many characters are typed at most

Chars == Others \cup {CR, LF, Quit}

ASSUME UartAssumption ==
    /\ BUFFER_SIZE \in Nat /\ BUFFER_SIZE >= 2
    /\ Inputs \subseteq Chars /\ Greeting \in Seq(Chars) \ {<<>>}
    /\ MaxTyped \in Nat

Slots == 0 .. BUFFER_SIZE - 1

VARIABLES
    aliased,                         \* init_uart did not allocate the buffers
    memory,                          \* the buffers' bytes
    rx_buffer_head, rx_buffer_tail,
    tx_buffer_head, tx_buffer_tail,
    ier,                             \* AUX_MU_IER_REG: enabled interrupts
    pc, todo, ret,                   \* the program: step, putc calls left, result
    loaded,                          \* its copy of ier inside a read-modify-write
    line,                            \* received by the hardware, not yet read
    typed, consumed, accepted, out   \* histories

rings == <<aliased, memory, rx_buffer_head, rx_buffer_tail, tx_buffer_head, tx_buffer_tail>>
vars == <<aliased, memory, rx_buffer_head, rx_buffer_tail, tx_buffer_head,
          tx_buffer_tail, ier, pc, todo, ret, loaded, line, typed, consumed,
          accepted, out>>

inc(i) == (i + 1) % BUFFER_SIZE

\* Where the slots of the two rings lie in memory
RxAt(i) == i
TxAt(i) == IF aliased THEN i ELSE BUFFER_SIZE + i

-----------------------------------------------------------------------------
\* uart_async_puts: '\n' is put as '\r' and '\n', anything else as it is
Calls(str) == FlattenSeq([i \in DOMAIN str |->
                  IF str[i] = LF THEN <<CR, LF>> ELSE <<str[i]>>])

\* What uart_async_putc writes for a character
Bytes(c) == IF c = CR THEN <<CR, LF>> ELSE <<c>>

Init ==
    /\ aliased \in BOOLEAN
    /\ memory = [a \in 0 .. 2 * BUFFER_SIZE - 1 |-> Quit]
    /\ rx_buffer_head = 0 /\ rx_buffer_tail = 0
    /\ tx_buffer_head = 0 /\ tx_buffer_tail = 0
    /\ ier = {"rx"}                  \* uart_enable_rx_irq
    /\ pc = "puts" /\ todo = Calls(Greeting)
    /\ ret = 1 /\ loaded = {}
    /\ line = <<>> /\ typed = <<>> /\ consumed = <<>>
    /\ accepted = <<>> /\ out = <<>>

-----------------------------------------------------------------------------
\* The hardware receives a character (external: the sender and the FIFO)
Type ==
    \E c \in Inputs :
        /\ Len(typed) < MaxTyped
        /\ typed' = Append(typed, c)
        /\ line' = Append(line, c)
        /\ UNCHANGED <<rings, ier, pc, todo, ret, loaded, consumed, accepted, out>>

\* (mutant: the full test leaves no slot free)
Bug_uart_irq_rx_handler ==
    /\ "rx" \in ier /\ line # <<>>
    /\ memory' = [memory EXCEPT ![RxAt(rx_buffer_head)] = Head(line)]
    /\ rx_buffer_head' = inc(rx_buffer_head)
    /\ line' = Tail(line)
    /\ UNCHANGED <<aliased, ier, rx_buffer_tail, tx_buffer_head, tx_buffer_tail, pc, todo,
                   ret, loaded, typed, consumed, accepted, out>>

uart_irq_rx_handler ==
    /\ "rx" \in ier /\ line # <<>>
    /\ \/ /\ inc(rx_buffer_head) = rx_buffer_tail
          /\ ier' = ier \ {"rx"}
          /\ UNCHANGED <<memory, rx_buffer_head, line>>
       \/ /\ inc(rx_buffer_head) # rx_buffer_tail
          /\ memory' = [memory EXCEPT ![RxAt(rx_buffer_head)] = Head(line)]
          /\ rx_buffer_head' = inc(rx_buffer_head)
          /\ line' = Tail(line)
          /\ ier' = ier
    /\ UNCHANGED <<aliased, rx_buffer_tail, tx_buffer_head, tx_buffer_tail, pc, todo, ret,
                   loaded, typed, consumed, accepted, out>>

\* (mutant: the tail moves on before the character is read)
Bug_uart_irq_tx_handler ==
    /\ "tx" \in ier /\ tx_buffer_head # tx_buffer_tail
    /\ out' = Append(out, memory[TxAt(inc(tx_buffer_tail))])
    /\ tx_buffer_tail' = inc(tx_buffer_tail)
    /\ UNCHANGED <<aliased, memory, rx_buffer_head, rx_buffer_tail, tx_buffer_head, ier, pc,
                   todo, ret, loaded, line, typed, consumed, accepted>>

uart_irq_tx_handler ==
    /\ "tx" \in ier
    /\ \/ /\ tx_buffer_head = tx_buffer_tail
          /\ ier' = ier \ {"tx"}
          /\ UNCHANGED <<out, tx_buffer_tail>>
       \/ /\ tx_buffer_head # tx_buffer_tail
          /\ out' = Append(out, memory[TxAt(tx_buffer_tail)])
          /\ tx_buffer_tail' = inc(tx_buffer_tail)
          /\ ier' = ier
    /\ UNCHANGED <<aliased, memory, rx_buffer_head, rx_buffer_tail, tx_buffer_head, pc, todo,
                   ret, loaded, line, typed, consumed, accepted>>

-----------------------------------------------------------------------------
\* (mutant: no test for a full buffer)
BugFull_uart_async_putc ==
    /\ pc \in {"puts", "echo"} /\ todo # <<>>
    /\ memory' = [memory EXCEPT ![TxAt(tx_buffer_head)] = Head(todo)]
    /\ tx_buffer_head' = inc(tx_buffer_head)
    /\ accepted' = Append(accepted, Head(todo))
    /\ ret' = 1
    /\ loaded' = ier
    /\ pc' = IF pc = "puts" THEN "puts_store" ELSE "echo_store"
    /\ UNCHANGED <<aliased, rx_buffer_head, rx_buffer_tail, tx_buffer_tail, ier, todo,
                   line, typed, consumed, out>>

\* uart_async_putc of the first call left, up to the load of ier.  Only one
\* free slot is checked for, also when two characters are written.
uart_async_putc ==
    LET c == Head(todo)
        full == inc(tx_buffer_head) = tx_buffer_tail
    IN  /\ pc \in {"puts", "echo"} /\ todo # <<>>
        /\ IF full
           THEN UNCHANGED <<memory, tx_buffer_head, accepted>>
           ELSE /\ memory' = IF c = CR
                    THEN [memory EXCEPT ![TxAt(tx_buffer_head)] = CR,
                                        ![TxAt(inc(tx_buffer_head))] = LF]
                    ELSE [memory EXCEPT ![TxAt(tx_buffer_head)] = c]
                /\ tx_buffer_head' = IF c = CR THEN inc(inc(tx_buffer_head))
                                     ELSE inc(tx_buffer_head)
                /\ accepted' = accepted \o Bytes(c)
        /\ ret' = IF full THEN 0 ELSE 1
        /\ loaded' = ier
        /\ pc' = IF pc = "puts" THEN "puts_store" ELSE "echo_store"
        /\ UNCHANGED <<aliased, rx_buffer_head, rx_buffer_tail, tx_buffer_tail, ier, todo,
                       line, typed, consumed, out>>

\* (mutant: the transmit interrupt is only enabled when the buffer is full)
Bug_uart_enable_tx_irq ==
    /\ pc \in {"puts_store", "echo_store"}
    /\ ier' = IF ret = 0 THEN loaded \cup {"tx"} ELSE loaded
    /\ todo' = Tail(todo)
    /\ pc' = IF ret = 0 THEN "disable"
             ELSE IF pc = "puts_store" /\ todo' # <<>> THEN "puts" ELSE "getc"
    /\ UNCHANGED <<rings, ret, loaded, line, typed, consumed, accepted, out>>

\* ... its store, uart_enable_tx_irq, and the caller's test of the result
uart_enable_tx_irq ==
    /\ pc \in {"puts_store", "echo_store"}
    /\ ier' = loaded \cup {"tx"}
    /\ todo' = Tail(todo)
    /\ pc' = IF ret = 0 THEN "disable"
             ELSE IF pc = "puts_store" /\ todo' # <<>> THEN "puts" ELSE "getc"
    /\ UNCHANGED <<rings, ret, loaded, line, typed, consumed, accepted, out>>

\* uart_async_getc with a character in the buffer, and what the loop does to it
GetcSome ==
    LET ch == memory[RxAt(rx_buffer_tail)]
    IN  /\ pc = "getc" /\ rx_buffer_head # rx_buffer_tail
        /\ rx_buffer_tail' = inc(rx_buffer_tail)
        /\ consumed' = Append(consumed, ch)
        /\ IF ch = Quit THEN pc' = "disable" /\ todo' = todo
                        ELSE pc' = "echo" /\ todo' = <<ch>>
        /\ UNCHANGED <<aliased, memory, rx_buffer_head, tx_buffer_head, tx_buffer_tail, ier,
                       ret, loaded, line, typed, accepted, out>>

\* uart_async_getc with an empty buffer: load ier ...
GetcNone ==
    /\ pc = "getc" /\ rx_buffer_head = rx_buffer_tail
    /\ loaded' = ier
    /\ pc' = "getc_store"
    /\ UNCHANGED <<rings, ier, todo, ret, line, typed, consumed, accepted, out>>

\* ... and store it with the receive interrupt enabled
GetcEnable ==
    /\ pc = "getc_store"
    /\ ier' = loaded \cup {"rx"}
    /\ pc' = "getc"
    /\ UNCHANGED <<rings, todo, ret, loaded, line, typed, consumed, accepted, out>>

uart_disable_irq ==
    /\ pc = "disable"
    /\ ier' = {}
    /\ pc' = "done"
    /\ UNCHANGED <<rings, todo, ret, loaded, line, typed, consumed, accepted, out>>

Program ==
    \/ uart_async_putc \/ uart_enable_tx_irq
    \/ GetcSome \/ GetcNone \/ GetcEnable \/ uart_disable_irq

Next == Type \/ uart_irq_rx_handler \/ uart_irq_tx_handler \/ Program

Spec == Init /\ [][Next]_vars

\* A pending interrupt is taken and the program goes on.  The program polls
\* uart_async_getc for ever, so its steps alone never starve a handler.
FairSpec ==
    /\ Spec
    /\ WF_vars(uart_irq_rx_handler) /\ WF_vars(uart_irq_tx_handler)
    /\ WF_vars(Program)

-----------------------------------------------------------------------------
\* What a ring holds, oldest first
Count(head, tail) == (head - tail) % BUFFER_SIZE

RxContents == [i \in 1 .. Count(rx_buffer_head, rx_buffer_tail) |->
                  memory[RxAt((rx_buffer_tail + i - 1) % BUFFER_SIZE)]]

TxContents == [i \in 1 .. Count(tx_buffer_head, tx_buffer_tail) |->
                  memory[TxAt((tx_buffer_tail + i - 1) % BUFFER_SIZE)]]

\* Type correctness of the rings, the interrupt enable register and the program.
TypeOK ==
    /\ memory \in [0 .. 2 * BUFFER_SIZE - 1 -> Chars]
    /\ {rx_buffer_head, rx_buffer_tail, tx_buffer_head, tx_buffer_tail} \subseteq Slots
    /\ ier \subseteq {"rx", "tx"} /\ loaded \subseteq {"rx", "tx"}
    /\ pc \in {"puts", "puts_store", "getc", "getc_store", "echo", "echo_store",
               "disable", "done"}
    /\ ret \in {0, 1}
    /\ {todo, line, typed, consumed, accepted, out} \subseteq Seq(Chars)

\* What was typed is what uart_async_getc returned, then what the ring holds, then
\* what the hardware still has
RxFifo ==
    /\ Len(typed) = Len(consumed) + Len(RxContents) + Len(line)
    /\ ~aliased => typed = consumed \o RxContents \o line

\* What uart_async_putc has accepted is sent or still in the ring
TxFifo == ~aliased => accepted = out \o TxContents

\* The receive path loses, repeats and reorders nothing, also when the ring was
\* full and its interrupt was turned off, and the transmit path likewise.  Where
\* the rings share their memory only the number of characters received is
\* right, not the characters.
RingsFifo == TypeOK /\ RxFifo /\ TxFifo

\* What appears on the terminal is the greeting and then the typed characters,
\* in order ('\r' shown as "\r\n"), cut off anywhere.
EchoInOrder ==
    ~aliased => IsPrefix(out,
        FlattenSeq([i \in DOMAIN (Calls(Greeting) \o typed) |->
                       Bytes((Calls(Greeting) \o typed)[i])]))

\* Once no more is typed, everything in both rings is drained, unless the
\* program ended and turned its interrupts off: no enable of an interrupt is
\* lost to a handler that runs inside a read-modify-write of the register.
Quiesces ==
    <>[](pc = "done" \/ (line = <<>> /\ RxContents = <<>> /\ TxContents = <<>>))

\* The transmit ring implements a bounded first-in first-out queue, unless the
\* receive handler writes into it.
TxQueue == INSTANCE Fifo WITH Elems <- Chars, Capacity <- BUFFER_SIZE - 1,
                              queue <- IF aliased THEN <<>> ELSE TxContents

TxRefines == TxQueue!Spec
=============================================================================
