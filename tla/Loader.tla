------------------------------- MODULE Loader -------------------------------
(***************************************************************************)
(* The boot loader receiving a kernel over the mini UART: send_kernel.py   *)
(* on the host, a line that may corrupt or lose bytes, the receive FIFO,   *)
(* and main and load_kernel of bootloader/.                                *)
(*                                                                         *)
(* Time enters in two places.  Between two bytes of the line the loader    *)
(* gets through its loop but not through a message it prints, so the FIFO  *)
(* fills up only while it prints.  And the host's sleep(1) between header  *)
(* and kernel outlasts all that the loader can do with the header alone.   *)
(***************************************************************************)
EXTENDS Integers, SequencesExt

CONSTANTS
    Base,        \* values of a byte: 256
    WordBytes,   \* bytes of an unsigned int: 4
    FifoSize,    \* receive FIFO of the mini UART: 8
    Magic,       \* "BOOT"
    Kernels,     \* images the host may send
    MaxFaults    \* bound on the bytes the line corrupts or loses

Byte == 0 .. Base - 1

\* What a bit in byte k of a word is worth: the shift by 8k
Place[k \in 0 .. WordBytes] == IF k = 0 THEN 1 ELSE Base * Place[k - 1]

Words == 0 .. Place[WordBytes] - 1

\* struct.pack of a word, lowest byte first
Pack(value) == [k \in 1 .. WordBytes |-> (value \div Place[k - 1]) % Base]

Total(bytes) ==
    LET total[k \in 0 .. Len(bytes)] == IF k = 0 THEN 0 ELSE total[k - 1] + bytes[k]
    IN  total[Len(bytes)]

Sum(bytes) == Total(bytes) % Place[WordBytes]

ASSUME LoaderAssumption ==
    /\ Base \in Nat /\ Base > 1 /\ WordBytes \in Nat \ {0} /\ MaxFaults \in Nat
    /\ FifoSize \in Nat /\ FifoSize >= 2 * WordBytes
    /\ Magic \in Seq(Byte) /\ Len(Magic) = WordBytes
    \* below 16 MB the sum of a kernel does not wrap
    /\ \A k \in Kernels :
          k \in Seq(Byte) /\ k # <<>> /\ Total(k) \in Words /\ Len(k) \in Words

VARIABLES
    kernel,    \* the image the host sends
    sent,      \* bytes the host has written
    fifo,      \* receive FIFO: each byte with its position in the image
    pc,        \* where the loader is
    i,         \* its loop counter
    kernel_size, chksum,
    memory,    \* what lies from kernel_addr on
    faults,    \* (history) bytes the line has corrupted or lost
    lost       \* (history) bytes load_kernel never saw: cause and position

loader == <<pc, i, kernel_size, chksum, memory>>
loader_vars == <<kernel, sent, fifo, loader, faults, lost>>

-----------------------------------------------------------------------------
\* send_kernel.py: struct.pack('<III', magic, size, checksum), then the kernel
Header == Magic \o Pack(Len(kernel)) \o Pack(Sum(kernel))

Image == Header \o kernel

LoaderInit ==
    /\ kernel \in Kernels
    /\ sent = 0 /\ fifo = <<>>
    /\ pc = "off" /\ i = 0 /\ kernel_size = 0 /\ chksum = 0 /\ memory = <<>>
    /\ faults = 0 /\ lost = {}

Printing == pc \in {"print_magic", "print_size", "print_chksum", "print_loaded"}

Stopped == pc \in {"started", "returned"}

\* The loader can do no more without another byte
Waiting == fifo = <<>> /\ pc \in {"magic", "size", "chksum", "data"}

\* (mutant: the host does not sleep between the header and the kernel)
Bug_Write ==
    /\ sent < Len(Image)
    /\ sent' = sent + 1
    /\ UNCHANGED kernel

\* The host writes its next byte, the first one of the kernel after the sleep
Write ==
    /\ sent < Len(Image)
    /\ sent = Len(Header) => Waiting \/ Stopped \/ pc = "off"
    /\ sent' = sent + 1
    /\ UNCHANGED kernel

\* The receiver: off before init_uart, no room in a full FIFO
Receive(byte) ==
    LET Lose(cause) == lost' = lost \cup {<<cause, sent + 1>>} /\ fifo' = fifo
    IN  CASE pc = "off" -> Lose("early")
          [] pc # "off" /\ Len(fifo) = FifoSize -> Lose("full")
          [] OTHER -> /\ fifo' = Append(fifo, [byte |-> byte, at |-> sent + 1])
                      /\ lost' = lost

\* The loop keeps up with the line, the messages do not
Paced == Printing \/ pc = "off" \/ Stopped \/ fifo = <<>>

Transmit ==
    /\ Paced /\ Write
    /\ Receive(Image[sent + 1])
    /\ UNCHANGED <<loader, faults>>

Corrupt ==
    /\ faults < MaxFaults /\ Paced /\ Write
    /\ \E byte \in Byte \ {Image[sent + 1]} : Receive(byte)
    /\ faults' = faults + 1
    /\ UNCHANGED loader

Drop ==
    /\ faults < MaxFaults /\ Paced /\ Write
    /\ lost' = lost \cup {<<"line", sent + 1>>}
    /\ faults' = faults + 1
    /\ UNCHANGED <<fifo, loader>>

-----------------------------------------------------------------------------
\* init_uart, which clears the FIFO
init_uart ==
    /\ pc = "off"
    /\ pc' = "flush"
    /\ UNCHANGED <<kernel, sent, fifo, i, kernel_size, chksum, memory, faults, lost>>

\* Bytes in the FIFO are thrown away
uart_flush ==
    /\ pc = "flush"
    /\ IF fifo = <<>> THEN pc' = "magic" /\ UNCHANGED <<fifo, lost>>
       ELSE /\ fifo' = Tail(fifo) /\ pc' = pc
            /\ lost' = lost \cup {<<"early", Head(fifo).at>>}
    /\ UNCHANGED <<kernel, sent, i, kernel_size, chksum, memory, faults>>

uart_getc == fifo # <<>> /\ fifo' = Tail(fifo) /\ UNCHANGED <<kernel, sent, faults, lost>>

\* One more round of a loop of n rounds, then on to the next part
Round(n, following) ==
    IF i + 1 < n THEN i' = i + 1 /\ pc' = pc ELSE i' = 0 /\ pc' = following

ReadMagic ==
    /\ pc = "magic" /\ uart_getc
    /\ IF Head(fifo).byte = Magic[i + 1] THEN Round(WordBytes, "print_magic")
                                    ELSE pc' = "returned" /\ i' = i
    /\ UNCHANGED <<kernel_size, chksum, memory>>

\* (mutant: the first byte of the size is taken for the highest)
Bug_ReadSize ==
    /\ pc = "size" /\ uart_getc
    /\ kernel_size' = kernel_size + Head(fifo).byte * Place[WordBytes - 1 - i]
    /\ Round(WordBytes, "print_size")
    /\ UNCHANGED <<chksum, memory>>

ReadSize ==
    /\ pc = "size" /\ uart_getc
    /\ kernel_size' = kernel_size + Head(fifo).byte * Place[i]
    /\ Round(WordBytes, "print_size")
    /\ UNCHANGED <<chksum, memory>>

ReadChksum ==
    /\ pc = "chksum" /\ uart_getc
    /\ chksum' = chksum + Head(fifo).byte * Place[i]
    /\ Round(WordBytes, "print_chksum")
    /\ UNCHANGED <<kernel_size, memory>>

\* A message has been printed
uart_puts ==
    /\ Printing
    /\ pc' = CASE pc = "print_magic" -> "size"
               [] pc = "print_size" -> "chksum"
               [] pc = "print_chksum" -> IF kernel_size = 0 THEN "print_loaded" ELSE "data"
               [] pc = "print_loaded" -> "verify"
    /\ UNCHANGED <<kernel, sent, fifo, i, kernel_size, chksum, memory, faults, lost>>

ReadData ==
    /\ pc = "data" /\ uart_getc
    /\ memory' = Append(memory, Head(fifo).byte)
    /\ Round(kernel_size, "print_loaded")
    /\ UNCHANGED <<kernel_size, chksum>>

\* (mutant: a sum that is too small passes)
Bug_Verify ==
    /\ pc = "verify"
    /\ pc' = IF Sum(memory) <= chksum THEN "started" ELSE "returned"
    /\ UNCHANGED <<kernel, sent, fifo, i, kernel_size, chksum, memory, faults, lost>>

\* The sum is compared, and the kernel entered or main left
Verify ==
    /\ pc = "verify"
    /\ pc' = IF Sum(memory) = chksum THEN "started" ELSE "returned"
    /\ UNCHANGED <<kernel, sent, fifo, i, kernel_size, chksum, memory, faults, lost>>

\* The loader has stopped or polls for ever, and the host is done
Done == (Stopped \/ Waiting) /\ sent = Len(Image) /\ UNCHANGED loader_vars

Boot ==
    \/ init_uart \/ uart_flush \/ ReadMagic \/ ReadSize \/ ReadChksum
    \/ uart_puts \/ ReadData \/ Verify

LoaderNext == Transmit \/ Corrupt \/ Drop \/ Boot \/ Done

\* The host keeps writing and the loader keeps running
LoaderSpec == LoaderInit /\ [][LoaderNext]_loader_vars /\ WF_loader_vars(Transmit) /\ WF_loader_vars(Boot)

-----------------------------------------------------------------------------
\* Type correctness of the transmission and of load_kernel's variables.
LoaderTypeOK ==
    /\ kernel \in Kernels /\ sent \in 0 .. Len(Image)
    /\ lost \subseteq {"early", "full", "line"} \X (1 .. sent)
    /\ \A k \in DOMAIN fifo : fifo[k].byte \in Byte /\ fifo[k].at \in 1 .. sent
    /\ {kernel_size, chksum} \subseteq Words
    /\ Range(memory) \subseteq Byte /\ Len(memory) <= kernel_size

Lost(causes) == {at \in 1 .. sent : \E c \in causes : <<c, at>> \in lost}

HeaderWhole == Lost({"early", "line"}) \cap 1 .. Len(Header) = {}

\* load_kernel between its first byte and its last
Reading == pc \in {"magic", "print_magic", "size", "print_size", "chksum", "print_chksum", "data"}

\* Two words of FIFO and the host's sleep are all that the loader needs to print
\* its messages while bytes arrive: if it reads the header from its first byte
\* and none is lost on the line, then none is lost in a full FIFO either as long
\* as load_kernel still has bytes to read.
NoOverrun == LoaderTypeOK /\ (Reading /\ HeaderWhole => Lost({"full"}) = {})

\* With at most one byte corrupted or lost by the line and the header read as a
\* whole, what is started is the kernel that was sent, but perhaps for zeros at
\* its end; with a byte of it missing nothing is started.
StartsSentKernel ==
    pc = "started" /\ HeaderWhole =>
        /\ Lost({"early", "full", "line"}) \cap 1 .. Len(Header) + Len(memory) = {}
        /\ IsPrefix(memory, kernel)
        /\ \A k \in Len(memory) + 1 .. Len(kernel) : kernel[k] = 0

\* A kernel sent to a loader that is ready, over a line without faults, is
\* started.
CleanSendStarts ==
    [](faults = 0 /\ Lost({"early"}) = {}) => <>(pc = "started" /\ memory = kernel)
=============================================================================
