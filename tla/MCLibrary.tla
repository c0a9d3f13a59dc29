----------------------------- MODULE MCLibrary ------------------------------
(***************************************************************************)
(* The parts that work by themselves, on small instances: the digits,      *)
(* signatures and digests of the attestation, the terminal and the serial  *)
(* port behind it, printf, and the lists of the network library.           *)
(*                                                                         *)
(* They share no state in the code, and a behaviour is one of a single     *)
(* part: on names it, and x1 to x10 are its variables, in the order its    *)
(* module declares them.                                                   *)
(***************************************************************************)
EXTENDS Integers, Sequences

CONSTANTS Lists, Elem, NULL

VARIABLES on, x1, x2, x3, x4, x5, x6, x7, x8, x9, x10

-----------------------------------------------------------------------------
(* Vli has digits of two bits: curve_p is 199, as the words of secp256r1's *)
(* prime say for halves of one bit.  Ecdsa has y^2 = x^3 - 3x + 13 over    *)
(* the field of 199 elements, a group of order 193.                        *)

FourDigits(v) == [i \in 0 .. 3 |-> (v \div 4 ^ i) % 4]
Seconds == {0, 1, 2, 3, 63, 64, 100, 127, 128, 192, 193, 198, 199, 200, 254, 255}
Nonces == {0, 1, 2, 3, 52, 64, 76, 88, 107, 128, 191, 192, 193, 194, 199, 255}
Others == {<<0, 5>>, <<5, 0>>, <<193, 5>>, <<5, 200>>, <<1, 1>>, <<3, 1>>, <<100, 50>>, <<192, 192>>}

Digits == INSTANCE Vli WITH
  W <- 2, curve_p <- FourDigits(199), curve_n <- FourDigits(193), Right <- Seconds,
  op <- x1, left <- x2, right <- x3, res <- x4

Sign == INSTANCE Ecdsa WITH
  curve_p <- 199, curve_b <- 13, curve_n <- 193, curve_G <- <<3, 35>>, Limit <- 256, MAX_TRIES <- 2,
  Random <- 0 .. 255, Nonce <- Nonces, Hash <- {0, 1, 100, 193, 200, 255},
  SigningKey <- {2, 77, 130, 191}, Damaged <- Others,
  pc <- x1, tries <- x2, lad <- x3, key <- x4, sig <- x5, ver <- x6, ret <- x7

Digest == INSTANCE Md2 WITH
  MD2_BLOCK_SIZE <- 4, MaxSize <- 21,
  pc <- x1, size <- x2, given <- x3, ctx <- x4, md <- x5

-----------------------------------------------------------------------------
(* The terminal, with one character typed at a time and corrections, and   *)
(* with several that wait at once.                                         *)

Buffers == {<<1>>, <<3>>, <<1, 2>>}

Typing == INSTANCE Stdio WITH
  Keys <- {"a", "NL", "CR", "DEL", "EOF"}, Slow <- TRUE, Vectors <- Buffers, Seeks <- {0, 1},
  SIZE <- 16, MaxTyped <- 5,
  fifo <- x1, typed <- x2, shown <- x3, r <- x4, f_offset <- x5, ret <- x6, panicked <- x7

Burst == INSTANCE Stdio WITH
  Keys <- {"a", "b", "NL", "CR"}, Slow <- FALSE, Vectors <- Buffers, Seeks <- {},
  SIZE <- 16, MaxTyped <- 4,
  fifo <- x1, typed <- x2, shown <- x3, r <- x4, f_offset <- x5, ret <- x6, panicked <- x7

Serial == INSTANCE Uart WITH
  Chars <- {0, 255}, Depth <- 2, MaxIn <- 3, MaxCalls <- 3,
  InFreqs <- {0, 1, 5, 6, 7}, Bauds <- {3, 8},
  reg <- x1, txfifo <- x2, rxfifo <- x3, sent <- x4, arrived <- x5, lost <- x6, put <- x7,
  got <- x8, call <- x9, loaded <- x10

-----------------------------------------------------------------------------
(* printf with types of 2, 3, 4 and 8 bits: every field by itself, and     *)
(* texts of several fields into short buffers.  As in the code, the buffer *)
(* of a conversion has room for half as many digits as a long has bits,    *)
(* and one more here, so that there is room to pad.                        *)

FieldLetters == {"%", "zero", "minus", "plus", "space", "hash", "three", "six", "dot", "l", "h",
                 "d", "u", "x", "o", "b", "c", "s", "p"}
TextLetters == {"a", "%", "two", "star", "dot", "z", "d", "c", "s", "percent", "unknown"}

Field == INSTANCE Printf WITH
  CharBits <- 2, ShortBits <- 3, IntBits <- 4, LongBits <- 8, NTOA_BUFFER_SIZE <- 5, SIZE_MAX <- 15,
  Letters <- FieldLetters, Ints <- {0, 1, 5, 7, 8, 15}, Longs <- {0, 1, 9, 16, 127, 128, 255},
  Stars <- {}, Strings <- {0, 2, 4}, Counts <- {}, MaxDirectives <- 1, MaxText <- 0, MaxWidth <- 9,
  m <- x1, d <- x2, full <- x3, last <- x4, ret <- x5, n <- x6

Text == INSTANCE Printf WITH
  CharBits <- 2, ShortBits <- 3, IntBits <- 4, LongBits <- 8, NTOA_BUFFER_SIZE <- 5, SIZE_MAX <- 31,
  Letters <- TextLetters, Ints <- {5, 15}, Longs <- {128}, Stars <- {-3, 2}, Strings <- {0, 4},
  Counts <- {0, 1, 3}, MaxDirectives <- 2, MaxText <- 1, MaxWidth <- 3,
  m <- x1, d <- x2, full <- x3, last <- x4, ret <- x5, n <- x6

-----------------------------------------------------------------------------
Ring == INSTANCE LinkedList WITH l <- x1, op <- x2, loop <- x3
Queue == INSTANCE TailQueue WITH q <- x1, op <- x2

ASSUME PartsAssumption ==
  /\ Digits!VliAssumption /\ Sign!EcdsaAssumption /\ Digest!Md2Assumption
  /\ Typing!StdioAssumption /\ Burst!StdioAssumption /\ Serial!UartAssumption
  /\ Field!PrintfAssumption /\ Text!PrintfAssumption

\* The variables a part does not have.
From3 == <<x3, x4, x5, x6, x7, x8, x9, x10>>
From4 == <<x4, x5, x6, x7, x8, x9, x10>>
From5 == <<x5, x6, x7, x8, x9, x10>>
From6 == <<x6, x7, x8, x9, x10>>
From7 == <<x7, x8, x9, x10>>
From8 == <<x8, x9, x10>>

None8 == x8 = 0 /\ x9 = 0 /\ x10 = 0
None7 == x7 = 0 /\ None8
None6 == x6 = 0 /\ None7
None5 == x5 = 0 /\ None6
None4 == x4 = 0 /\ None5
None3 == x3 = 0 /\ None4

PartsInit ==
  \/ on = "digits" /\ Digits!Init /\ None5
  \/ on = "sign" /\ Sign!Init /\ None8
  \/ on = "digest" /\ Digest!Init /\ None6
  \/ on = "typing" /\ Typing!Init /\ None8
  \/ on = "burst" /\ Burst!Init /\ None8
  \/ on = "serial" /\ Serial!Init
  \/ on = "field" /\ Field!Init /\ None7
  \/ on = "text" /\ Text!Init /\ None7
  \/ on = "ring" /\ Ring!Init /\ None4
  \/ on = "queue" /\ Queue!Init /\ None3

PartsNext ==
  \/ on = "digits" /\ Digits!Next /\ UNCHANGED <<on, From5>>
  \/ on = "sign" /\ Sign!Next /\ UNCHANGED <<on, From8>>
  \/ on = "digest" /\ Digest!Next /\ UNCHANGED <<on, From6>>
  \/ on = "typing" /\ Typing!Next /\ UNCHANGED <<on, From8>>
  \/ on = "burst" /\ Burst!Next /\ UNCHANGED <<on, From8>>
  \/ on = "serial" /\ Serial!Next /\ UNCHANGED on
  \/ on = "field" /\ Field!Next /\ UNCHANGED <<on, From7>>
  \/ on = "text" /\ Text!Next /\ UNCHANGED <<on, From7>>
  \/ on = "ring" /\ Ring!Next /\ UNCHANGED <<on, From4>>
  \/ on = "queue" /\ Queue!Next /\ UNCHANGED <<on, From3>>

vars == <<on, x1, x2, x3, x4, x5, x6, x7, x8, x9, x10>>
Spec == PartsInit /\ [][PartsNext]_vars

-----------------------------------------------------------------------------
(* Properties.                                                             *)

\* vli_*: what the functions on digits give, in value.
ArithmeticExact == on = "digits" => Digits!ArithmeticExact

\* ecdsa_verify accepts exactly the right signatures, and those of ecdsa_sign.
VerdictExact == on = "sign" => Sign!VerdictExact

\* md2_update and md2_final: however a message is cut into pieces, the digest
\* is that of its blocks, the padding and the checksum.
DigestExact == on = "digest" => Digest!DigestExact

\* __read_fn: the buffer holds the line as it was typed and corrected; and
\* below it sifive_uart_putc and sifive_uart_getc lose, double and swap nothing.
TerminalExact == /\ on = "typing" => Typing!LineExact
                 /\ on = "burst" => Burst!LineExact
                 /\ on = "serial" => Serial!InOrder

\* _vsnprintf: a number can be read back from its field, and snprintf stays
\* within its buffer, terminates it, and returns the length of the text.
PrintfExact == /\ on = "field" => Field!NumberReadsBack
               /\ on = "text" => Text!OutputExact

\* uk_list_* and UK_TAILQ_*: each operation does to the lists what its name
\* says.
Sequences == [h \in Lists |-> IF on = "ring" THEN Ring!Entries(h) ELSE Queue!Entries(h)]
Abstract == INSTANCE ListSpec WITH seqs <- Sequences, op <- x2
ListStep == on \in {"ring", "queue"} => Abstract!Next \/ UNCHANGED <<Sequences, x2>>
ListsSpec == (on \in {"ring", "queue"} => Abstract!Init) /\ [][ListStep]_vars

\* A loop visits every entry once and in order: uk_list_for_each_entry_safe
\* while its body takes entries away, and UK_TAILQ_FOREACH_REVERSE from the end.
LoopsExact == /\ on = "ring" => Ring!VisitsAll
              /\ on = "queue" => Queue!BothWays
=============================================================================
