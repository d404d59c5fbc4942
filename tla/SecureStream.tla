----------------------------- MODULE SecureStream -----------------------------
(***************************************************************************)
(* The encryption between the server and a channel of the node: AES in CFB *)
(* mode, which the node's aes_crypt_cfb128 runs byte by byte with a        *)
(* register and an offset kept over all connections (network.cpp, aes.c),  *)
(* and the server's AES objects in whole blocks (server.py).  A stream is  *)
(* right when the receiver's keystream is the sender's.                    *)
(*                                                                         *)
(* A byte on the way is its number in the connection's stream; a block has *)
(* Block of them, numbers below 0 are the IV.  The block cipher is a       *)
(* function of what is in the register, so that is compared.               *)
(***************************************************************************)
EXTENDS Integers, SequencesExt, FiniteSetsExt

CONSTANTS
    Block,       \* 16
    Hello,       \* length of the node's hello, 68: not whole blocks
    Word,        \* the length of the word "hello" in the answer, 5
    Plans        \* bounds: connections, hellos sent again, messages down and up

SecureStreamAssumption ==
    /\ {Block, Hello, Word} \subseteq Nat /\ 1 < Block /\ Word <= Block
    /\ Plans \subseteq [connects : Nat, hellos : Nat, down : Nat, up : Nat]

Old == -100        \* a byte of an earlier connection
Raw == -200        \* a byte of a hello
Key == -300        \* a slot of the register that holds the keystream

VARIABLES
    node,      \* status, get_hello, the state of iv_u with iv_offset_u, and of iv_d;
               \* blocks in tx_buffer, txing, and the sent callbacks that are to come
    server,    \* whether it has answered, what it has sent, the last block it received
    down, up,  \* bytes on the way
    plan,
    seen       \* what went wrong, with its excuses; in this connection also the blocks
               \* that were left over and those the server deciphered wrong

vars == <<node, server, down, up, plan, seen>>

Slots == 0..(Block - 1)

\* The register, the offset, and what the keystream was made of.
Fresh == [reg |-> [i \in Slots |-> Old], off |-> 0, key |-> [i \in Slots |-> Old]]

Init ==
    /\ node = [status |-> "down", hello |-> 0, u |-> Fresh, d |-> [reg |-> Fresh.reg, sent |-> 0],
               tx |-> 0, txing |-> FALSE, due |-> 0]
    /\ server = [ready |-> FALSE, sent |-> 0, last |-> Fresh.reg]
    /\ down = <<>> /\ up = <<>>
    /\ plan \in Plans
    /\ seen = [down |-> FALSE, wrong |-> 0, left |-> 0, hello |-> FALSE, crashed |-> FALSE,
               excuses |-> {}]

\* The register that the sender's keystream for byte q was made of.
Before(q) == [i \in Slots |-> (q - (q % Block)) - Block + i]

-----------------------------------------------------------------------------
(* aes_crypt_cfb128, decrypting.                                            *)

\* Mutant: the register is only encrypted when it holds a whole block again.
KeptKey(c) == IF c.off = 0 /\ \A i \in Slots : c.reg[i] # Key THEN [c EXCEPT !.key = c.reg] ELSE c

\* At the start of a block the register becomes the keystream.
NextKey(c) == IF c.off = 0 THEN [c EXCEPT !.key = c.reg, !.reg = [i \in Slots |-> Key]] ELSE c

\* One byte; whether it comes out as the sender put it in.
CryptByte(c, q) ==
    LET k == NextKey(c)
    IN  [state |-> [k EXCEPT !.reg[c.off] = q, !.off = (c.off + 1) % Block],
         right |-> /\ k.reg[c.off] = Key /\ q >= 0 /\ c.off = q % Block /\ k.key = Before(q)]

\* A piece: the state after it, and which of its bytes come out right.
Crypt(c, piece) ==
    FoldLeft(LAMBDA a, q : LET r == CryptByte(a.state, q)
                           IN  [state |-> r.state, right |-> Append(a.right, r.right)],
             [state |-> c, right |-> <<>>], piece)

AllRight(right) == \A i \in DOMAIN right : right[i]

-----------------------------------------------------------------------------
(* The node.                                                                *)

HelloBytes == [i \in 1..Hello |-> [q |-> Raw, key |-> Fresh.reg]]

\* connection_connected_callback: neither offset is touched, nor tx_buffer, txing and iv_d;
\* the callback of the hello's bytes is connection_tx_write_finish_cb.
Connect ==
    /\ node.status = "down" /\ plan.connects > 0
    /\ plan' = [plan EXCEPT !.connects = @ - 1]
    /\ node' = [node EXCEPT !.status = "wait", !.hello = 0, !.u.reg = Fresh.reg, !.u.key = Fresh.reg,
                            !.d = [reg |-> Fresh.reg, sent |-> 0], !.due = 1]
    /\ server' = [ready |-> FALSE, sent |-> 0, last |-> Fresh.reg]
    /\ down' = <<>> /\ up' = HelloBytes
    /\ seen' = [seen EXCEPT !.wrong = 0, !.left = 0,
                            !.excuses = IF node.u.off # 0 THEN @ \cup {"offset"} ELSE @]

\* connection_send_hello once more, after ten checks without an answer.
SendHello ==
    /\ node.status = "wait" /\ node.hello = 0 /\ plan.hellos > 0
    /\ plan' = [plan EXCEPT !.hellos = @ - 1]
    /\ node' = [node EXCEPT !.due = @ + 1]
    /\ up' = up \o HelloBytes
    /\ seen' = [seen EXCEPT !.excuses = @ \cup {"hello"}]
    /\ UNCHANGED <<server, down>>

\* connection_recv_cb in WAIT_HELLO_DONE: whatever comes is an IV and the word; less
\* than a block makes a negative length.
RecvAnswer(n) ==
    /\ node.status = "wait"
    /\ LET piece == SubSeq(down, 1, n)
           iv == [i \in Slots |-> piece[i + 1]]
           r == Crypt([node.u EXCEPT !.reg = iv], SubSeq(piece, Block + 1, n))
           word == n >= Block + Word /\ AllRight(SubSeq(r.right, 1, Word)) /\ piece[Block + 1] = 0
           whole == piece[1] = -Block /\ n >= 2 * Block
       IN  IF n < Block
           THEN seen' = [seen EXCEPT !.crashed = TRUE, !.excuses = @ \cup {"split"}] /\ UNCHANGED node
           ELSE /\ node' = [node EXCEPT !.u = r.state, !.d.reg = iv, !.hello = IF word THEN 1 ELSE @]
                /\ seen' = [seen EXCEPT !.hello = @ \/ (whole /\ ~word),
                                        !.excuses = @ \cup (IF whole THEN {}
                                                                    ELSE IF piece[1] = -Block
                                                                    THEN {"split"} ELSE {"early"})]
    /\ down' = SubSeq(down, n + 1, Len(down))
    /\ UNCHANGED <<server, up, plan>>

\* connection_confirm_hello
ConfirmHello ==
    /\ node.status = "wait" /\ node.hello = 1
    /\ node' = [node EXCEPT !.status = "keep"]
    /\ UNCHANGED <<server, down, up, plan, seen>>

\* connection_recv_cb in KEEP_ALIVE.
RecvData(n) ==
    /\ node.status = "keep"
    /\ LET r == Crypt(node.u, SubSeq(down, 1, n))
       IN  /\ node' = [node EXCEPT !.u = r.state]
           /\ seen' = [seen EXCEPT !.down = @ \/ ~AllRight(r.right)]
    /\ down' = SubSeq(down, n + 1, Len(down))
    /\ UNCHANGED <<server, up, plan>>

\* connection_tx_write_finish_cb: what is in tx_buffer is sent at once, in whole blocks, so
\* iv_offset_d stays 0; the status is not looked at.  Before the server's answer iv_d is
\* that of an earlier connection, and these blocks are left over from it.
Chain(q) == IF q = node.d.sent THEN node.d.reg ELSE Before(q)
WriteFinish(n) ==
    \/ /\ n.tx = 0
       /\ node' = [n EXCEPT !.txing = FALSE]
       /\ UNCHANGED <<up, seen>>
    \/ /\ n.tx > 0
       /\ LET first == n.d.sent
              last == first + n.tx * Block
          IN  /\ node' = [n EXCEPT !.txing = TRUE, !.tx = 0, !.due = @ + 1,
                                   !.d = [reg |-> Before(last), sent |-> last]]
              /\ up' = IF n.status = "down" THEN up
                       ELSE up \o [i \in 1..(n.tx * Block) |->
                              [q |-> first + i - 1,
                               key |-> Chain(first + ((i - 1) \div Block) * Block)]]
              /\ seen' = IF n.status = "wait" /\ n.d.reg # Before(0)
                         THEN [seen EXCEPT !.left = @ + n.tx] ELSE seen

\* The callback of bytes that were sent, those of a hello included.
SentCallback ==
    /\ node.due > 0
    /\ WriteFinish([node EXCEPT !.due = @ - 1])
    /\ UNCHANGED <<server, down, plan>>

\* network_puts of a block: it is sent at once if it ends a line or the buffer is above its
\* threshold, and nothing is being sent.
Put ==
    /\ node.status = "keep" /\ plan.up > 0
    /\ plan' = [plan EXCEPT !.up = @ - 1]
    /\ LET n == [node EXCEPT !.tx = @ + 1]
       IN  \/ ~node.txing /\ WriteFinish(n)
           \/ node' = n /\ UNCHANGED <<up, seen>>
    /\ UNCHANGED <<server, down>>

-----------------------------------------------------------------------------
(* The server.                                                              *)

\* wait_hello: an IV of its own for each connection, and the word in a block.
AnswerHello ==
    /\ ~server.ready /\ Len(up) >= Hello
    /\ up' = SubSeq(up, Hello + 1, Len(up))
    /\ down' = down \o [i \in 1..(2 * Block) |-> i - 1 - Block]
    /\ server' = [ready |-> TRUE, sent |-> Block, last |-> Before(0)]
    /\ UNCHANGED <<node, plan, seen>>

\* secure_write, padded.
SecureWrite ==
    /\ server.ready /\ plan.down > 0
    /\ plan' = [plan EXCEPT !.down = @ - 1]
    /\ down' = down \o [i \in 1..Block |-> server.sent + i - 1]
    /\ server' = [server EXCEPT !.sent = @ + Block]
    /\ UNCHANGED <<node, up, seen>>

\* _loop_reading_input, a block at a time.
ReadBlock ==
    /\ server.ready /\ Len(up) >= Block
    /\ LET block == [i \in Slots |-> up[i + 1].q]
           right == /\ \A i \in Slots : block[i] = block[0] + i
                    /\ block[0] >= 0 /\ block[0] % Block = 0
                    /\ up[1].key = server.last
       IN  /\ server' = [server EXCEPT !.last = block]
           /\ seen' = [seen EXCEPT !.wrong = IF ~right /\ \E i \in Slots : block[i] # Raw
                                             THEN @ + 1 ELSE @]
    /\ up' = SubSeq(up, Block + 1, Len(up))
    /\ UNCHANGED <<node, down, plan>>

\* The connection is lost with what is on the way.
Disconnect ==
    /\ node.status # "down"
    /\ node' = [node EXCEPT !.status = "down"]
    /\ server' = [server EXCEPT !.ready = FALSE] /\ down' = <<>> /\ up' = <<>>
    /\ UNCHANGED <<plan, seen>>

Next ==
    /\ ~seen.crashed
    /\ \/ Connect \/ SendHello \/ ConfirmHello \/ SentCallback \/ Put
       \/ \E n \in DOMAIN down : RecvAnswer(n) \/ RecvData(n)
       \/ AnswerHello \/ SecureWrite \/ ReadBlock \/ Disconnect

Spec == Init /\ [][Next]_vars

-----------------------------------------------------------------------------
(* Properties.                                                             *)

Excused(by) == seen.excuses \cap by # {}

\* Whatever the pieces TCP delivers, an answer that comes whole is understood, and both
\* streams come out as they were put in, through all connections; unless bytes came
\* between the answer's first piece and its confirmation (they are taken for another
\* answer; a first piece shorter than an IV makes a negative length), a hello was sent
\* again to a server that had answered (its 68 bytes shift the
\* server's blocks for good), or a connection was lost within a block (iv_offset_u is
\* never set back: no answer is understood until the node restarts).  Blocks of an earlier
\* connection that are sent before the answer come out wrong, and so does the first block
\* after them, but no other.
StreamsDecrypt ==
    /\ seen.hello => Excused({"offset"})
    /\ seen.down => Excused({"early"})
    /\ seen.wrong > (IF seen.left = 0 THEN 0 ELSE seen.left + 1) => Excused({"hello", "early"})
    /\ seen.crashed => Excused({"split"})
=============================================================================
