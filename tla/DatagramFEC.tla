---------------------------- MODULE DatagramFEC ----------------------------
(***************************************************************************)
(* The datagram lane's forward error correction: the sender that numbers   *)
(* and groups payloads (fecSender in core/protocol/quic/datagram.go), the  *)
(* Reed-Solomon coder around it (fec.go), the receiver's two goroutines    *)
(* (ingest in receiveLoop, sweep and deliverBlock in sweepLoop) and the    *)
(* network between them, which loses, reorders and duplicates.             *)
(*                                                                         *)
(* A block is K payloads and M parity packets with consecutive sequence    *)
(* numbers.  The code is abstracted to what it guarantees: from any K      *)
(* packets of one block the K payloads follow; from packets of two blocks  *)
(* taken for one, garbage.  Sequence numbers keep a width (2^32 in the     *)
(* code).  Payloads are numbered; 0 is the empty payload flushLocked pads  *)
(* a block with.  Abstracted: lengths and times (a wait may be over at any *)
(* time).                                                                  *)
(***************************************************************************)
EXTENDS Integers, FiniteSets, Sequences

CONSTANTS
  K, M,      \* fecK, fecM
  SeqMod,    \* number of sequence numbers: 2^32 in the code
  MaxSend,   \* payloads sent
  MaxRaw,    \* of them, payloads too long to protect
  MaxDup,    \* packets the network delivers twice
  Garbage    \* what a mixture of blocks decodes to

N == K + M

Payloads == 1..MaxSend

VARIABLES
  blockStart, cnt,  \* fecSender
  blocks,           \* the payloads of every block sent so far
  sent, raws,       \* payloads sent, and how many of them unprotected
  net, dups,        \* packets in flight, of which any may never arrive;
                    \* duplicates made
  received,         \* receiver.received: sequence number -> payload
  firstAt,          \* the blocks with an arrival time
  pending,          \* the wake-up channel holds a token
  buf,              \* dec.packetBuffer: sequence number -> shard
  ing, pkt,         \* receiveLoop: "idle", "signal", "decode"; its packet
  sw,               \* sweepLoop: "asleep", "tick", "scan", "recon", "fill", "collect", "forget"
  due, left,        \* the blocks sweep has taken out; whether it left some
  recovered,        \* Reconstruct's result
  delivered,        \* payloads handed to deliver
  arrived,          \* payloads ingested in packets of their own
  solvable, settled \* of the block in hand: the decoder had K shards; receiver and
                    \* decoder had the same packets and no other came meanwhile

sVars == <<blockStart, cnt, blocks, sent, raws>>
iVars == <<ing, pkt>>
wVars == <<sw, due, left, recovered, solvable, settled>>
vars  == <<sVars, net, dups, received, firstAt, pending, buf, iVars, wVars, delivered,
           arrived>>

\* A shard: the i-th of block b.  Raw packets carry their payload.
Shard(b, i) == [b |-> b, i |-> i]
Fec(q, b, i) == [fec |-> TRUE, seq |-> q, sh |-> Shard(b, i)]
RawPkt(p) == [fec |-> FALSE, seq |-> p, sh |-> Shard(0, 0)]
NoPkt == RawPkt(0)

Add(q, n) == (q + n) % SeqMod
StartOf(q) == (q \div N) * N

Init ==
  /\ blockStart = 0 /\ cnt = 0 /\ blocks = <<<<>>>>
  /\ sent = 0 /\ raws = 0
  /\ net = {} /\ dups = 0
  /\ received = <<>> /\ firstAt = {} /\ pending = FALSE /\ buf = <<>>
  /\ ing = "idle" /\ pkt = NoPkt
  /\ sw = "asleep" /\ due = {} /\ left = FALSE /\ recovered = <<>>
  /\ solvable = FALSE /\ settled = TRUE
  /\ delivered = {} /\ arrived = {}

Put(f, q, v) == [x \in DOMAIN f \cup {q} |-> IF x = q THEN v ELSE f[x]]
Without(f, S) == [x \in DOMAIN f \ S |-> f[x]]

-----------------------------------------------------------------------------
(* The sender.                                                             *)

Cur == Len(blocks)

\* The packets of block b, started at q, at the given places.
Pkts(q, b, places) == {Fec(Add(q, i), b, i) : i \in places}

\* flushLocked: pad the open block, send its parity, start the next.
Flushed == Pkts(blockStart, Cur, cnt..(N - 1))
Padded == [i \in 1..K |-> IF i <= cnt THEN blocks[Cur][i] ELSE 0]

\* encode: one payload, after a flush when the last one is too long ago.
Encode(late) ==
  /\ sent < MaxSend
  /\ LET flush == late /\ cnt > 0
         q     == IF flush THEN Add(blockStart, N) ELSE blockStart
         old   == IF flush THEN Append([blocks EXCEPT ![Cur] = Padded], <<>>) ELSE blocks
         b     == Len(old)
         c     == IF flush THEN 0 ELSE cnt
         full  == c + 1 = K
         mine  == Pkts(q, b, IF full THEN c..(N - 1) ELSE {c})
         blk   == [old EXCEPT ![b] = Append(@, sent + 1)]
     IN  /\ net' = net \cup mine \cup (IF flush THEN Flushed ELSE {})
         /\ blocks' = IF full THEN Append(blk, <<>>) ELSE blk
         /\ blockStart' = IF full THEN Add(q, N) ELSE q
         /\ cnt' = IF full THEN 0 ELSE c + 1
  /\ sent' = sent + 1
  /\ UNCHANGED <<raws, dups, received, firstAt, pending, buf, iVars, wVars, delivered,
                 arrived>>

\* encode: a payload longer than datagramMaxProtected goes as it is.
EncodeRaw ==
  /\ sent < MaxSend /\ raws < MaxRaw
  /\ sent' = sent + 1 /\ raws' = raws + 1
  /\ net' = net \cup {RawPkt(sent + 1)}
  /\ UNCHANGED <<blockStart, cnt, blocks, dups, received, firstAt, pending, buf, iVars,
                 wVars, delivered, arrived>>

-----------------------------------------------------------------------------
(* receiveLoop: processIncoming and ingest.                                *)

\* A packet leaves the network, or a duplicate of it stays.
Take(p, again) ==
  /\ p \in net
  /\ again => dups < MaxDup
  /\ net' = IF again THEN net ELSE net \ {p}
  /\ dups' = IF again THEN dups + 1 ELSE dups

ReceiveRaw(p, again) ==
  /\ ing = "idle" /\ ~p.fec
  /\ Take(p, again)
  /\ delivered' = delivered \cup {p.seq}
  /\ UNCHANGED <<sVars, received, firstAt, pending, buf, iVars, wVars, arrived>>

\* What the receiver reads as the payload of a packet at a data position.
Read(sh) == IF sh.i < K THEN blocks[sh.b][sh.i + 1] ELSE Garbage

\* Under r.mu: the block's time and, at a data position, the payload.
Ingest(p, again) ==
  /\ ing = "idle" /\ p.fec
  /\ Take(p, again)
  /\ LET bs  == StartOf(p.seq)
         val == Read(p.sh)
     IN  /\ firstAt' = firstAt \cup {bs}
         /\ ing' = IF bs \in firstAt THEN "decode" ELSE "signal"
         /\ pkt' = p
         /\ IF p.seq - bs < K
            THEN /\ received' = Put(received, p.seq, val)
                 /\ arrived' = arrived \cup ({val} \ {0})
            ELSE UNCHANGED <<received, arrived>>
         /\ settled' = (settled /\ ~(sw = "fill" /\ bs \in due))
  /\ UNCHANGED <<sVars, pending, buf, sw, due, left, recovered, solvable, delivered>>

\* Mutant of Signal: only when the sweeper is seen asleep.
Signal_IfAsleep ==
  /\ ing = "signal"
  /\ pending' = (pending \/ sw = "asleep")
  /\ ing' = "decode"
  /\ UNCHANGED <<sVars, net, dups, received, firstAt, buf, pkt, wVars, delivered, arrived>>

\* A fresh block leaves a token, unless one is there.
Signal ==
  /\ ing = "signal"
  /\ pending' = TRUE
  /\ ing' = "decode"
  /\ UNCHANGED <<sVars, net, dups, received, firstAt, buf, pkt, wVars, delivered, arrived>>

\* DecodeFEC, under the decoder's own lock.
DecodeFEC ==
  /\ ing = "decode"
  /\ buf' = Put(buf, pkt.seq, pkt.sh)
  /\ ing' = "idle" /\ pkt' = NoPkt
  /\ UNCHANGED <<sVars, net, dups, received, firstAt, pending, wVars, delivered, arrived>>

-----------------------------------------------------------------------------
(* sweepLoop: sweep and deliverBlock.                                      *)

WakeUp ==
  /\ sw = "asleep" /\ pending
  /\ pending' = FALSE /\ sw' = "tick"
  /\ UNCHANGED <<sVars, net, dups, received, firstAt, buf, iVars, due, left, recovered,
                 solvable, settled, delivered, arrived>>

DataSeqs(bs) == {Add(bs, i) : i \in 0..(K - 1)}
AllSeqs(bs) == {Add(bs, i) : i \in 0..(N - 1)}

Complete(bs) == DataSeqs(bs) \subseteq DOMAIN received

\* sweep: the blocks that are complete, and those that have waited enough,
\* lose their time and are due.
Sweep ==
  /\ sw = "tick"
  /\ \E late \in SUBSET firstAt :
       /\ due' = {bs \in firstAt : Complete(bs)} \cup late
       /\ firstAt' = firstAt \ due'
  /\ left' = (firstAt' # {})
  /\ sw' = IF due' # {} THEN "scan" ELSE IF left' THEN "tick" ELSE "asleep"
  /\ UNCHANGED <<sVars, net, dups, received, pending, buf, iVars, recovered, solvable,
                 settled, delivered, arrived>>

Block == CHOOSE bs \in due : TRUE

\* deliverBlock: is anything missing?
Scan ==
  /\ sw = "scan"
  /\ sw' = IF Complete(Block) THEN "collect" ELSE "recon"
  /\ solvable' = FALSE /\ settled' = TRUE
  /\ UNCHANGED <<sVars, net, dups, received, firstAt, pending, buf, iVars, due, left, recovered,
                 delivered, arrived>>

\* The shards the decoder has of the block, and what the code makes of them.
Have == AllSeqs(Block) \cap DOMAIN buf

Consistent == \E b \in 1..Len(blocks) : \A i \in 0..(N - 1) :
                Add(Block, i) \in Have => buf[Add(Block, i)] = Shard(b, i)

Solve(i) == IF Consistent
            THEN blocks[buf[CHOOSE q \in Have : TRUE].b][i + 1]
            ELSE Garbage

\* The data positions missing from a map, in order.
Missing(f) == SelectSeq([i \in 1..K |-> i - 1], LAMBDA i : Add(Block, i) \notin DOMAIN f)

\* Reconstruct, under the decoder's lock: the payloads the decoder lacks.
Reconstruct ==
  /\ sw = "recon"
  /\ LET miss == Missing(buf)
     IN  recovered' = IF Cardinality(Have) < K THEN <<>>
                      ELSE [j \in 1..Len(miss) |-> Solve(miss[j])]
  /\ solvable' = (Cardinality(Have) >= K)
  /\ settled' = (DataSeqs(Block) \cap DOMAIN received = DataSeqs(Block) \cap DOMAIN buf)
  /\ sw' = "fill"
  /\ UNCHANGED <<sVars, net, dups, received, firstAt, pending, buf, iVars, due, left, delivered,
                 arrived>>

\* Mutant of Fill: the last of the recovered payloads is dropped.
Fill_OffByOne ==
  /\ sw = "fill"
  /\ LET miss == Missing(received)
         n == IF Len(miss) < Len(recovered) THEN Len(miss) ELSE Len(recovered) - 1
         slot == {Add(Block, miss[j]) : j \in 1..n}
     IN  received' = [q \in DOMAIN received \cup slot |->
                        IF q \in DOMAIN received THEN received[q]
                        ELSE recovered[CHOOSE j \in 1..n : Add(Block, miss[j]) = q]]
  /\ recovered' = <<>> /\ sw' = "collect"
  /\ UNCHANGED <<sVars, net, dups, firstAt, pending, buf, iVars, due, left, solvable, settled,
                 delivered, arrived>>

\* Under r.mu again: the recovered payloads go, in order, where the receiver
\* (not the decoder) lacks one.
Fill ==
  /\ sw = "fill"
  /\ LET miss == Missing(received)
         n == IF Len(miss) < Len(recovered) THEN Len(miss) ELSE Len(recovered)
         slot == {Add(Block, miss[j]) : j \in 1..n}
     IN  received' = [q \in DOMAIN received \cup slot |->
                        IF q \in DOMAIN received THEN received[q]
                        ELSE recovered[CHOOSE j \in 1..n : Add(Block, miss[j]) = q]]
  /\ recovered' = <<>> /\ sw' = "collect"
  /\ UNCHANGED <<sVars, net, dups, firstAt, pending, buf, iVars, due, left, solvable, settled,
                 delivered, arrived>>

\* Take the block's payloads out and hand them over, the empty ones excepted.
\* (The code calls deliver for them after Forget; nobody sees the difference.)
Collected == {received[q] : q \in DataSeqs(Block) \cap DOMAIN received} \ {0}

Collect ==
  /\ sw = "collect"
  /\ delivered' = delivered \cup Collected
  /\ received' = Without(received, AllSeqs(Block))
  /\ sw' = "forget"
  /\ UNCHANGED <<sVars, net, dups, firstAt, pending, buf, iVars, due, left, recovered, solvable,
                 settled, arrived>>

Forget ==
  /\ sw = "forget"
  /\ buf' = Without(buf, AllSeqs(Block))
  /\ due' = due \ {Block}
  /\ sw' = IF due' # {} THEN "scan" ELSE IF left THEN "tick" ELSE "asleep"
  /\ UNCHANGED <<sVars, net, dups, received, firstAt, pending, iVars, left, recovered, solvable,
                 settled, delivered, arrived>>

-----------------------------------------------------------------------------

Sender == (\E late \in BOOLEAN : Encode(late)) \/ EncodeRaw

Receiver == \/ \E p \in net, again \in BOOLEAN : ReceiveRaw(p, again) \/ Ingest(p, again)
            \/ Signal \/ DecodeFEC

Sweeper == WakeUp \/ Sweep \/ Scan \/ Reconstruct \/ Fill \/ Collect \/ Forget

Next == Sender \/ Receiver \/ Sweeper

Spec == Init /\ [][Next]_vars

-----------------------------------------------------------------------------
(* Properties.                                                             *)

\* The type invariant of the sender, the receiver and its sweep.
TypeOK ==
  /\ blockStart \in 0..(SeqMod - 1) /\ cnt \in 0..(K - 1)
  /\ sent \in 0..MaxSend /\ raws \in 0..MaxRaw /\ dups \in 0..MaxDup
  /\ \A q \in DOMAIN received : received[q] \in Payloads \cup {0, Garbage}
  /\ \A bs \in firstAt \cup due : bs \in 0..(SeqMod - 1)
  /\ ing \in {"idle", "signal", "decode"}
  /\ (due # {}) <=> (sw \in {"scan", "recon", "fill", "collect", "forget"})
  /\ {pending, left, solvable, settled} \subseteq BOOLEAN

\* Whatever the network does, only payloads the sender was given are handed
\* over: no parity packet, no padding and no mixture of blocks.
DeliveredWasSent == delivered \subseteq 1..sent

\* A block never waits for a sweep nobody will run: the token is there, the
\* sweeper is at work, or the goroutine that started the block will leave
\* the token.
WakeUpKept == firstAt # {} => pending \/ sw # "asleep" \/ ing = "signal"

\* The receiver hands over what was sent and nothing else, and never sleeps
\* on a block.
SoundDelivery == TypeOK /\ DeliveredWasSent /\ WakeUpKept

\* The payloads of the block in hand, and the block they were sent in.
Wanted(b) == {blocks[b][i] : i \in 1..K} \ {0}
BlockOf(bs) == bs \div N + 1

\* A block of which K packets have arrived is recovered whole, as long as no
\* packet of it is half ingested while the decoder runs (datagram_test.go:
\* "expected all %d in-tolerance blocks to recover").
InTolerance ==
  sw = "collect" /\ solvable /\ settled =>
    Wanted(BlockOf(Block)) \subseteq Collected \cup delivered

\* The same for every block, whatever ingest is doing.
AlwaysInTolerance ==
  sw = "collect" /\ solvable =>
    Wanted(BlockOf(Block)) \subseteq Collected \cup delivered

\* A payload that arrived in a packet of its own is handed over, whether or
\* not its block is ever completed.
ArrivedIsDelivered == \A p \in Payloads : (p \in arrived) ~> (p \in delivered)
=============================================================================
