-------------------------------- MODULE Uart --------------------------------
(***************************************************************************)
(* The uart emodule: serial.c, its initialisation in emod_uart.c and the   *)
(* two system calls that reach it.  The driver polls the registers of a    *)
(* SiFive UART, which sends and receives at its own pace.                  *)
(***************************************************************************)
EXTENDS Integers, Sequences

CONSTANTS
  Chars,      \* characters, of the range 0 .. 255
  Depth,      \* of either FIFO of the device
  MaxIn,      \* bound: characters that arrive on the line
  MaxCalls,   \* bound: characters the program writes
  InFreqs, Bauds  \* clock frequencies and rates the driver may be given

UartAssumption ==
  /\ Chars \subseteq 0 .. 255 /\ Depth \in Nat \ {0} /\ MaxIn \in Nat /\ MaxCalls \in Nat
  /\ InFreqs \subseteq Nat /\ Bauds \subseteq Nat \ {0}

VARIABLES
  reg,        \* the registers [div, ie, txen, rxen]
  txfifo, rxfifo,
  sent,       \* what went out on the line
  arrived,    \* what came in and found room
  lost,       \* did a write find the FIFO full?
  put,        \* history: what putc was given
  got,        \* history: what getc returned
  call,       \* the system call that runs: [pc, ch]
  loaded      \* has load_emod_uart initialised the driver, and with what?

vars == <<reg, txfifo, rxfifo, sent, arrived, lost, put, got, call, loaded>>
device == <<txfifo, rxfifo, sent, arrived, lost>>

None == [pc |-> "none", ch |-> 0]

Init ==
  /\ reg = [div |-> 0, ie |-> 0, txen |-> FALSE, rxen |-> FALSE]
  /\ txfifo = <<>> /\ rxfifo = <<>> /\ sent = <<>> /\ arrived = <<>> /\ lost = FALSE
  /\ put = <<>> /\ got = <<>> /\ call = None /\ loaded = <<>>

-----------------------------------------------------------------------------
(* The device: external.                                                   *)

Send ==
  /\ reg.txen /\ txfifo # <<>>
  /\ sent' = Append(sent, Head(txfifo)) /\ txfifo' = Tail(txfifo)
  /\ UNCHANGED <<reg, rxfifo, arrived, lost, put, got, call, loaded>>

\* A character that finds the FIFO full is dropped by the device, and has not
\* arrived.
Receive ==
  /\ reg.rxen /\ Len(arrived) < MaxIn /\ Len(rxfifo) < Depth
  /\ \E c \in Chars : rxfifo' = Append(rxfifo, c) /\ arrived' = Append(arrived, c)
  /\ UNCHANGED <<reg, txfifo, sent, lost, put, got, call, loaded>>

\* What a read of a data register brings: bit 31 and the low byte.
TxWord == [flag |-> Len(txfifo) = Depth, data |-> 0]
RxWord == [flag |-> rxfifo = <<>>, data |-> IF rxfifo = <<>> THEN 0 ELSE Head(rxfifo)]

-----------------------------------------------------------------------------
(* serial.c.                                                               *)

uart_min_clk_divisor(in_freq, max_target_hz) ==
  LET quotient == (in_freq + max_target_hz - 1) \div max_target_hz
  IN IF quotient = 0 THEN 0 ELSE quotient - 1

UART_IE == 2

sifive_uart_init(in_freq, baudrate) ==
  reg' = [div |-> IF in_freq # 0 THEN uart_min_clk_divisor(in_freq, baudrate) ELSE reg.div,
          ie |-> UART_IE, txen |-> TRUE, rxen |-> TRUE]

\* load_emod_uart, of the first call.  uart_init gives in_freq as 0, which
\* leaves the divisor as it is; the other frequencies are those the interface
\* of the driver allows.
load_emod_uart ==
  /\ call.pc = "load"
  /\ \E f \in InFreqs, b \in Bauds : sifive_uart_init(f, b) /\ loaded' = <<f, b>>
  /\ call' = [call EXCEPT !.pc = IF call.ch = -1 THEN "getc" ELSE "putc"]
  /\ UNCHANGED <<device, put, got>>

Room == ~TxWord.flag

\* sifive_uart_putc: it looks, and writes in a step of its own.
sifive_uart_putc ==
  \/ /\ call.pc = "putc" /\ Room /\ call' = [call EXCEPT !.pc = "store"]
     /\ UNCHANGED <<reg, device, put, got, loaded>>
  \/ /\ call.pc = "store"
     /\ IF Len(txfifo) < Depth THEN txfifo' = Append(txfifo, call.ch) /\ UNCHANGED lost
        ELSE lost' = TRUE /\ UNCHANGED txfifo
     /\ put' = Append(put, call.ch) /\ call' = None
     /\ UNCHANGED <<reg, rxfifo, sent, arrived, got, loaded>>

\* _sifive_uart_getc, from the word read.
_sifive_uart_getc(v) == IF v.flag THEN -1 ELSE v.data

sifive_uart_getc ==
  /\ call.pc = "getc" /\ _sifive_uart_getc(RxWord) # -1
  /\ rxfifo' = IF rxfifo = <<>> THEN rxfifo ELSE Tail(rxfifo)
  /\ got' = Append(got, _sifive_uart_getc(RxWord)) /\ call' = None
  /\ UNCHANGED <<reg, txfifo, sent, arrived, lost, put, loaded>>

-----------------------------------------------------------------------------
\* SYS_uart_putc and SYS_uart_getc.
SYS_uart_putc(c) ==
  /\ call = None /\ Len(put) < MaxCalls
  /\ call' = [pc |-> IF loaded = <<>> THEN "load" ELSE "putc", ch |-> c]
  /\ UNCHANGED <<reg, device, put, got, loaded>>
SYS_uart_getc ==
  /\ call = None
  /\ call' = [pc |-> IF loaded = <<>> THEN "load" ELSE "getc", ch |-> -1]
  /\ UNCHANGED <<reg, device, put, got, loaded>>

Hart == load_emod_uart \/ sifive_uart_putc \/ sifive_uart_getc

Next ==
  \/ Send \/ Receive \/ Hart \/ SYS_uart_getc
  \/ \E c \in Chars : SYS_uart_putc(c)

Spec == Init /\ [][Next]_vars

-----------------------------------------------------------------------------
(* Properties.                                                             *)

\* Every character written goes out once and in order: the FIFO had room when
\* it was written, though the device works on between the look and the store.
\* Every character that arrived is returned once and in order, whatever its
\* value, and an empty FIFO yields none.
InOrder == ~lost /\ put = sent \o txfifo /\ arrived = got \o rxfifo

\* "Disable interrupts" (serial.c): the driver polls, and the device is never
\* to interrupt.
InterruptsOff == reg.ie = 0
=============================================================================
