-------------------------------- MODULE Md2 ---------------------------------
(***************************************************************************)
(* The hash of an emodule: attest/md2.c, of which the signing tool has a   *)
(* copy, fed in pieces of any size.  The compression of a block into       *)
(* hash_buf and checksum is left as it is: what it has been given so far   *)
(* stands for both, so two contexts agree when they have processed the     *)
(* same blocks.                                                            *)
(***************************************************************************)
EXTENDS Integers, Sequences

CONSTANTS
  MD2_BLOCK_SIZE,
  MaxSize     \* bound: the length of a message

Md2Assumption == MD2_BLOCK_SIZE \in Nat \ {0} /\ MaxSize \in Nat

VARIABLES
  pc,
  size,     \* the length of the message; byte i of it is the number i
  given,    \* how much of it md2_update has been given
  ctx,      \* [used_cnt, buf, blocks]
  md        \* the digest

vars == <<pc, size, given, ctx, md>>

Byte(i) == <<"byte", i>>
Pad(n) == <<"pad", n>>
ZeroBlock == [i \in 1 .. MD2_BLOCK_SIZE |-> <<"zero", 0>>]

-----------------------------------------------------------------------------
\* The bytes from position at on, n of them, copied to the buffer at offset.
CopyTo(buf, offset, at, n) ==
  [i \in 1 .. MD2_BLOCK_SIZE |->
     IF i - offset \in 1 .. n THEN Byte(at + i - offset) ELSE buf[i]]

md2_init == [used_cnt |-> 0, buf |-> ZeroBlock, blocks |-> <<>>]

\* md2_update_checksum and md2_prepare_blk take the block first.
md2_process_block(c, block) == [c EXCEPT !.blocks = Append(@, block)]

\* The block of the message that begins after position at.
Block(at) == CopyTo(ZeroBlock, 0, at, MD2_BLOCK_SIZE)

\* The loop over whole blocks, and the rest.
RECURSIVE UpdateBlocks(_, _, _)
UpdateBlocks(c, at, n) ==
  IF n >= MD2_BLOCK_SIZE
  THEN UpdateBlocks(md2_process_block(c, Block(at)), at + MD2_BLOCK_SIZE, n - MD2_BLOCK_SIZE)
  ELSE [c EXCEPT !.buf = CopyTo(@, 0, at, n), !.used_cnt = n]

\* Faulty variant: the bytes that filled the buffer are taken again.
md2_update_again(c, at, n) ==
  IF c.used_cnt # 0 /\ c.used_cnt + n < MD2_BLOCK_SIZE
  THEN [c EXCEPT !.buf = CopyTo(@, c.used_cnt, at, n), !.used_cnt = @ + n]
  ELSE LET room == MD2_BLOCK_SIZE - c.used_cnt
           full == md2_process_block(c, CopyTo(c.buf, c.used_cnt, at, room))
       IN IF c.used_cnt = 0 THEN UpdateBlocks(c, at, n)
          ELSE UpdateBlocks([full EXCEPT !.buf = ZeroBlock], at, n - room)

md2_update(c, at, n) ==
  IF c.used_cnt # 0 /\ c.used_cnt + n < MD2_BLOCK_SIZE
  THEN [c EXCEPT !.buf = CopyTo(@, c.used_cnt, at, n), !.used_cnt = @ + n]
  ELSE LET room == MD2_BLOCK_SIZE - c.used_cnt
           full == md2_process_block(c, CopyTo(c.buf, c.used_cnt, at, room))
       IN IF c.used_cnt = 0 THEN UpdateBlocks(c, at, n)
          ELSE UpdateBlocks([full EXCEPT !.buf = ZeroBlock], at + room, n - room)

\* The padding is a block of its own when the buffer is empty.  The checksum
\* over the blocks so far is the last block.
md2_final(c) ==
  LET len == MD2_BLOCK_SIZE - c.used_cnt
      padded == [i \in 1 .. MD2_BLOCK_SIZE |-> IF i > c.used_cnt THEN Pad(len) ELSE c.buf[i]]
      last == md2_process_block(c, padded)
  IN md2_process_block([last EXCEPT !.used_cnt = 0], <<"checksum", last.blocks>>)

\* md2: the three in a row, as attest_emodule and compute_md2_hash use it.
md2(n) == md2_final(md2_update(md2_init, 0, n)).blocks

-----------------------------------------------------------------------------
Init ==
  /\ pc = "update" /\ size \in 0 .. MaxSize
  /\ given = 0 /\ ctx = md2_init /\ md = <<>>

Update ==
  /\ pc = "update"
  /\ \E n \in 0 .. size - given : /\ ctx' = md2_update(ctx, given, n)
                                  /\ given' = given + n
  /\ UNCHANGED <<pc, size, md>>

Final ==
  /\ pc = "update" /\ given = size
  /\ ctx' = md2_final(ctx)
  /\ md' = ctx'.blocks /\ pc' = "done"
  /\ UNCHANGED <<size, given>>

Next == Update \/ Final
Spec == Init /\ [][Next]_vars

-----------------------------------------------------------------------------
\* RFC 1319: the message, padded to whole blocks with one to a block of bytes
\* that hold their number, and the checksum.
Reference(n) ==
  LET len == MD2_BLOCK_SIZE - (n % MD2_BLOCK_SIZE)
      text(i) == IF i <= n THEN Byte(i) ELSE Pad(len)
      blocks == [k \in 1 .. (n + len) \div MD2_BLOCK_SIZE |->
                   [i \in 1 .. MD2_BLOCK_SIZE |-> text((k - 1) * MD2_BLOCK_SIZE + i)]]
  IN Append(blocks, <<"checksum", blocks>>)

\* However a message is cut into pieces, empty ones included, and wherever it
\* ends within a block, the digest is that of the whole message.
DigestExact == pc = "done" => md = Reference(size) /\ md = md2(size)
=============================================================================
