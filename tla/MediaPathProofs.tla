--------------------------- MODULE MediaPathProofs ---------------------------
(***************************************************************************)
(* The audio of one session, for every file, codec, pair of rates and      *)
(* chunk length, and whatever the network does.                            *)
(*                                                                         *)
(* The sound the pipeline puts out is compared with a reference: the whole *)
(* input taken as one piece and resampled.  MediaIInv says why no sample   *)
(* is lost, doubled or shifted where packets or chunks meet.               *)
(*   Route    the sender's timestamp counts the frames it has read, and    *)
(*            whatever is on its way is one of its datagrams               *)
(*   Counts   a datagram has one outcome, and a snapshot that loads the    *)
(*            counters in order covers what it saw received                *)
(*   Stream   chunks and kept samples lie on the reference one after the   *)
(*            other, and the phase is what they are ahead of the input     *)
(*   Answers  the worker's state sums up the results it has given          *)
(* The lemmas go from arithmetic to sequences, to the operators of Audio   *)
(* and to the actions.                                                     *)
(***************************************************************************)
EXTENDS MediaPath, SequenceTheorems, TLAPS

-----------------------------------------------------------------------------
(* Division.                                                               *)

(* Quotient and remainder are what they should be.                         *)
LEMMA DivMod ==
  ASSUME NEW a \in Int, NEW w \in Nat \ {0}
  PROVE  /\ a \div w \in Int /\ a % w \in 0 .. w - 1
         /\ a = w * (a \div w) + (a % w)
  OBVIOUS

LEMMA Below ==
  ASSUME NEW w \in Nat \ {0}, NEW p \in Int, NEW q \in Int, NEW r \in Int, NEW s \in Int,
         w * p + r = w * q + s, r >= 0, s < w
  PROVE  p <= q
<1> SUFFICES ASSUME p > q PROVE FALSE
  OBVIOUS
<1>1. p - q >= 1
  OBVIOUS
<1>2. w * (p - q) >= w
  BY <1>1
<1>3. w * (p - q) = s - r
  OBVIOUS
<1> QED
  BY <1>2, <1>3

(* There is one quotient and one remainder.                                *)
LEMMA DivModUnique ==
  ASSUME NEW a \in Int, NEW w \in Nat \ {0}, NEW q \in Int, NEW r \in 0 .. w - 1,
         a = w * q + r
  PROVE  a \div w = q /\ a % w = r
<1> DEFINE p == a \div w
<1> DEFINE m == a % w
<1>1. p \in Int /\ m \in 0 .. w - 1 /\ a = w * p + m
  BY DivMod
<1> HIDE DEF p, m
<1>2. p <= q
  BY <1>1, Below
<1>3. q <= p
  BY <1>1, Below
<1> QED
  BY <1>1, <1>2, <1>3 DEF p, m

LEMMA ModStep ==
  ASSUME NEW n \in Nat, NEW w \in Nat \ {0}
  PROVE  (n + 1) % w = IF n % w = w - 1 THEN 0 ELSE (n % w) + 1
<1> DEFINE q == n \div w
<1> DEFINE r == n % w
<1>4. n % w = r
  OBVIOUS
<1>1. q \in Int /\ r \in 0 .. w - 1 /\ n = w * q + r
  BY DivMod
<1> HIDE DEF q, r
<1>2. CASE r = w - 1
  <2>1. n + 1 = w * (q + 1) + 0
    BY <1>1, <1>2
  <2>2. (n + 1) % w = 0
    BY <1>1, <2>1, DivModUnique
  <2> QED
    BY <1>2, <2>2, <1>4, Zenon
<1>3. CASE r # w - 1
  <2>1. n + 1 = w * q + (r + 1) /\ r + 1 \in 0 .. w - 1
    BY <1>1, <1>3
  <2>2. (n + 1) % w = r + 1
    <3> DEFINE m == n + 1
    <3> DEFINE s == r + 1
    <3>1. m \in Int /\ s \in 0 .. w - 1 /\ m = w * q + s
      BY <1>1, <2>1
    <3> HIDE DEF m, s
    <3>2. m % w = s
      BY <1>1, <3>1, DivModUnique
    <3> QED
      BY <3>2 DEF m, s
  <2> QED
    BY <1>3, <2>2, <1>4, Zenon
<1> QED
  BY <1>2, <1>3

LEMMA ModAdd ==
  ASSUME NEW a \in Int, NEW b \in Int, NEW w \in Nat \ {0}
  PROVE  ((a % w) + b) % w = (a + b) % w
<1> DEFINE q == a \div w
<1> DEFINE r == a % w
<1> DEFINE s == (r + b) \div w
<1> DEFINE t == (r + b) % w
<1>1. q \in Int /\ r \in 0 .. w - 1 /\ a = w * q + r
  BY DivMod
<1>2. s \in Int /\ t \in 0 .. w - 1 /\ r + b = w * s + t
  BY DivMod, <1>1
<1> HIDE DEF q, r, s, t
<1>3. a + b = w * (q + s) + t
  BY <1>1, <1>2
<1>4. (a + b) % w = t
  <2> DEFINE c == a + b
  <2> DEFINE d == q + s
  <2>1. c \in Int /\ d \in Int /\ c = w * d + t
    BY <1>1, <1>2, <1>3
  <2> HIDE DEF c, d
  <2>2. c % w = t
    BY <1>2, <2>1, DivModUnique
  <2> QED
    BY <2>2 DEF c
<1>5. ((a % w) + b) % w = t
  BY DEF r, t
<1> QED
  BY <1>4, <1>5, Zenon
-----------------------------------------------------------------------------
(* The sender and the ingress.                                             *)

TsOf(n) == (cfg.ts + n * cfg.tsIncr) % TsWrap

FrameAt(n) == cfg.file[(n % Len(cfg.file)) + 1]

(* The datagrams the sender can have sent.                                 *)
Frame(n) == Payload(cfg.codec, FrameAt(n))

Sent == {p \in [seq : 0 .. SeqWrap - 1, ts : 0 .. TsWrap - 1, payload : {Frame(n) : n \in Nat},
                bad : BOOLEAN, nth : Nat] :
           p.ts = TsOf(p.nth) /\ p.payload = Frame(p.nth)}

(* The sender's timestamp and its place in the file go with the frames it  *)
(* has read.                                                               *)
Sender ==
  /\ tx \in [pos : 1 .. Len(cfg.file) + 1, seq : 0 .. SeqWrap - 1,
             ts : 0 .. TsWrap - 1, sent : Nat, read : Nat]
  /\ tx.ts = TsOf(tx.read)
  /\ tx.read % Len(cfg.file) = IF tx.pos > Len(cfg.file) THEN 0 ELSE tx.pos - 1

(* Only datagrams of the sender are on their way.                          *)
Wire ==
  /\ net \in Seq(Sent) /\ Len(net) <= 1
  /\ rx \in [step : {"reading", "parsing", "routing", "queueing"}, pkt : Seq(Sent)]
  /\ Len(rx.pkt) <= 1
  /\ rx.step = "reading" <=> rx.pkt = <<>>
  /\ queue \in Seq(Sent) /\ Len(queue) <= QueueCap

Route == cfg \in Configs /\ open \in BOOLEAN /\ Sender /\ Wire

LEMMA ConfigFacts ==
  ASSUME cfg \in Configs
  PROVE  /\ Len(cfg.file) \in Nat \ {0}
         /\ \A i \in DOMAIN cfg.file :
              Decode(cfg.codec, Payload(cfg.codec, cfg.file[i])) \in Seq(Samples)
         /\ cfg.seq \in Nat /\ cfg.ts \in Nat /\ cfg.tsIncr \in Nat
         /\ cfg.inRate \in Nat \ {0} /\ cfg.inCh \in {1, 2} /\ cfg.outRate \in Nat \ {0}
         /\ ChunkSize \in Nat \ {0}
<1>1. ConfigOK(cfg)
  BY MediaAssumption
<1>2. ChunkSize \in Int
  <2>1. cfg.outRate * cfg.chunkMs \in Int
    BY <1>1 DEF ConfigOK
  <2> QED
    BY <2>1 DEF ChunkSize, ChunkSamps
<1>3. ChunkSize > 0
  BY <1>1 DEF ConfigOK, ChunkSize
<1> QED
  BY <1>1, <1>2, <1>3 DEF ConfigOK

LEMMA WrapsArePositive == SeqWrap \in Nat \ {0} /\ TsWrap \in Nat \ {0} /\ QueueCap \in Nat \ {0}
  BY MediaAssumption

LEMMA SameFile ==
  ASSUME cfg' = cfg
  PROVE  Sent' = Sent /\ ChunkSize' = ChunkSize /\ \A n : TsOf(n)' = TsOf(n)
  BY DEF Sent, Frame, TsOf, FrameAt, ChunkSize

(* A step of the sender moves its timestamp by one packet.                 *)
LEMMA TsStep ==
  ASSUME cfg \in Configs, NEW n \in Nat
  PROVE  /\ TsOf(n) \in 0 .. TsWrap - 1
         /\ TsOf(n + 1) = (TsOf(n) + cfg.tsIncr) % TsWrap
<1> DEFINE a == cfg.ts + n * cfg.tsIncr
<1> DEFINE b == cfg.tsIncr
<1>1. a \in Int /\ b \in Int /\ TsWrap \in Nat \ {0}
  BY ConfigFacts, WrapsArePositive
<1>2. cfg.ts + (n + 1) * cfg.tsIncr = a + b
  <2>1. \A x, y \in Nat : x + (n + 1) * y = x + n * y + y
    OBVIOUS
  <2> QED
    BY <2>1, ConfigFacts
<1>3. TsOf(n + 1) = (a + b) % TsWrap /\ TsOf(n) = a % TsWrap
  BY <1>2 DEF TsOf
<1>4. TsOf(n + 1) = (TsOf(n) + b) % TsWrap
  <2> HIDE DEF a, b
  <2> QED
    BY <1>1, <1>3, ModAdd
<1>5. TsOf(n) \in 0 .. TsWrap - 1
  <2> HIDE DEF a
  <2> QED
    BY <1>1, <1>3, DivMod
<1> QED
  BY <1>4, <1>5

LEMMA RouteInit == MediaInit => Route
<1> SUFFICES ASSUME MediaInit PROVE Route
  OBVIOUS
<1>1. /\ cfg \in Configs /\ open = TRUE /\ net = <<>> /\ queue = <<>>
      /\ rx = [step |-> "reading", pkt |-> <<>>]
      /\ tx = [pos |-> 1, seq |-> cfg.seq % SeqWrap, ts |-> cfg.ts % TsWrap, sent |-> 0,
              read |-> 0]
  BY Zenon DEF MediaInit
<1>2. Sender
  <2>a. cfg.seq \in Int /\ cfg.ts \in Int /\ cfg.tsIncr \in Int /\ Len(cfg.file) \in Nat \ {0}
    BY <1>1, ConfigFacts
  <2>1. cfg.seq % SeqWrap \in 0 .. SeqWrap - 1 /\ cfg.ts % TsWrap \in 0 .. TsWrap - 1
    BY <2>a, WrapsArePositive, DivMod
  <2>2. TsOf(0) = cfg.ts % TsWrap
    <3>1. cfg.ts + 0 * cfg.tsIncr = cfg.ts
      BY <2>a
    <3> QED
      BY <3>1 DEF TsOf
  <2>3. 0 % Len(cfg.file) = 0
    <3>1. \A x \in Nat \ {0} : 0 = x * 0 + 0 /\ 0 \in 0 .. x - 1
      OBVIOUS
    <3>2. \A x \in Nat \ {0} : 0 % x = 0
      BY <3>1, DivModUnique
    <3> QED
      BY <3>2, <2>a
  <2>4. tx.pos = 1 /\ tx.seq = cfg.seq % SeqWrap /\ tx.ts = cfg.ts % TsWrap /\ tx.read = 0
    BY <1>1
  <2>5. 1 \in 1 .. Len(cfg.file) + 1 /\ ~(1 > Len(cfg.file)) /\ 0 \in Nat
    BY <2>a
  <2>6. tx \in [pos : 1 .. Len(cfg.file) + 1, seq : 0 .. SeqWrap - 1,
                ts : 0 .. TsWrap - 1, sent : Nat, read : Nat]
    BY <1>1, <2>1, <2>5, Zenon
  <2>7. tx.ts = TsOf(tx.read) /\ tx.read % Len(cfg.file) = 0
    BY <2>2, <2>3, <2>4, Zenon
  <2>8. (IF tx.pos > Len(cfg.file) THEN 0 ELSE tx.pos - 1) = 0
    BY <2>4, <2>5
  <2> QED
    BY <2>6, <2>7, <2>8 DEF Sender
<1>3. Wire
  BY <1>1, WrapsArePositive, EmptySeq DEF Wire
<1> QED
  BY <1>1, <1>2, <1>3 DEF Route

(* Nobody but the sender and the ingress touches what Route is about.      *)
LEMMA RouteElsewhere ==
  ASSUME Route, UNCHANGED <<cfg, tx, net, rx, queue>>, open' \in BOOLEAN
  PROVE  Route'
<1>1. Sent' = Sent /\ \A n : TsOf(n)' = TsOf(n)
  BY SameFile
<1>2. TsOf(tx.read)' = TsOf(tx.read)
  BY <1>1 DEF TsOf
<1>3. Sender'
  BY <1>2 DEF Route, Sender
<1>4. Wire'
  BY <1>1 DEF Route, Wire
<1> QED
  BY <1>3, <1>4 DEF Route

LEMMA RouteSendFrame ==
  ASSUME Route, SendFrame
  PROVE  Route'
<1> DEFINE L == Len(cfg.file)
<1> DEFINE payload == Payload(cfg.codec, cfg.file[tx.pos])
<1> DEFINE n == tx.read
<1>a. cfg \in Configs /\ Sender /\ Wire
  BY DEF Route
<1>b. cfg' = cfg /\ UNCHANGED <<rx, queue, open>> /\ tx.pos <= L
  BY DEF SendFrame
<1>c. L \in Nat \ {0} /\ cfg.tsIncr \in Nat
  BY <1>a, ConfigFacts
<1>d. /\ tx \in [pos : 1 .. L + 1, seq : 0 .. SeqWrap - 1, ts : 0 .. TsWrap - 1,
                 sent : Nat, read : Nat]
      /\ tx.ts = TsOf(n)
      /\ n % L = IF tx.pos > L THEN 0 ELSE tx.pos - 1
  BY <1>a DEF Sender
<1>e. n \in Nat /\ tx.pos \in Nat /\ tx.pos >= 1 /\ n % L = tx.pos - 1
  BY <1>b, <1>c, <1>d
<1>1. NextTs = TsOf(n + 1) /\ NextTs \in 0 .. TsWrap - 1
  <2>1. n + 1 \in Nat
    BY <1>e
  <2> QED
    BY <1>a, <1>d, <1>e, <2>1, TsStep DEF NextTs
<1>2. FrameAt(n) = cfg.file[tx.pos]
  <2>1. (n % L) + 1 = tx.pos
    BY <1>e
  <2> QED
    BY <2>1 DEF FrameAt
<1>3. (n + 1) % L = IF tx.pos + 1 > L THEN 0 ELSE tx.pos
  <2>1. (n + 1) % L = IF n % L = L - 1 THEN 0 ELSE (n % L) + 1
    BY <1>c, <1>e, ModStep
  <2>2. n % L = tx.pos - 1 /\ (tx.pos - 1) + 1 = tx.pos /\ tx.pos <= L
    BY <1>b, <1>e
  <2> DEFINE r == n % L
  <2> DEFINE s == (n + 1) % L
  <2>3. s = IF r = L - 1 THEN 0 ELSE r + 1
    BY <2>1
  <2>4. r = tx.pos - 1
    BY <2>2
  <2> HIDE DEF r, s, L, n
  <2>5. tx.pos \in Nat /\ L \in Nat
    BY <1>c, <1>e
  <2>6. s = IF tx.pos + 1 > L THEN 0 ELSE tx.pos
    BY <2>2, <2>3, <2>4, <2>5
  <2> QED
    BY <2>6 DEF s
<1>4. Sent' = Sent /\ \A k : TsOf(k)' = TsOf(k)
  BY <1>b, SameFile
<1> HIDE DEF L, n
<1>5. /\ tx'.pos = tx.pos + 1 /\ tx'.read = n + 1 /\ tx'.ts = NextTs
      /\ tx' \in [pos : 1 .. L + 1, seq : 0 .. SeqWrap - 1, ts : 0 .. TsWrap - 1,
                  sent : Nat, read : Nat]
  <2>1. tx.pos + 1 \in 1 .. L + 1 /\ n + 1 \in Nat /\ tx.sent + 1 \in Nat
    BY <1>b, <1>c, <1>d, <1>e
  <2>2. (tx.seq + 1) % SeqWrap \in 0 .. SeqWrap - 1
    <3>1. tx.seq + 1 \in Int
      BY <1>d, WrapsArePositive
    <3> QED
      BY <3>1, WrapsArePositive, DivMod
  <2>3. n = tx.read
    BY DEF n
  <2>4. CASE payload = <<>>
    <3>1. tx' = AfterSkip
      BY <2>4 DEF SendFrame
    <3> QED
      BY <3>1, <2>1, <2>3, <1>1, <1>d DEF AfterSkip
  <2>5. CASE payload # <<>>
    <3>1. tx' = [AfterSkip EXCEPT !.ts = NextTs, !.seq = (@ + 1) % SeqWrap, !.sent = @ + 1]
      BY <2>5 DEF SendFrame
    <3> QED
      BY <3>1, <2>1, <2>2, <2>3, <1>1, <1>d DEF AfterSkip
  <2> QED
    BY <2>4, <2>5
<1>6. Sender'
  <2>1. TsOf(tx.read)' = TsOf(n + 1)
    BY <1>5, <1>b DEF TsOf
  <2>2. (tx.read % Len(cfg.file))' = IF tx.pos + 1 > L THEN 0 ELSE tx.pos
    BY <1>3, <1>5, <1>b DEF L
  <2>3. L' = L
    BY <1>b DEF L
  <2>4. (IF tx'.pos > L THEN 0 ELSE tx'.pos - 1) = IF tx.pos + 1 > L THEN 0 ELSE tx.pos
    BY <1>5, <1>e, <1>c
  <2>5. tx' \in [pos : 1 .. Len(cfg.file)' + 1, seq : 0 .. SeqWrap - 1,
                ts : 0 .. TsWrap - 1, sent : Nat, read : Nat]
    BY <1>5, <2>3 DEF L
  <2>6. tx'.ts = TsOf(tx.read)'
    BY <1>1, <1>5, <2>1
  <2>7. (tx.read % Len(cfg.file))' = IF tx'.pos > Len(cfg.file)' THEN 0 ELSE tx'.pos - 1
    BY <2>2, <2>3, <2>4 DEF L
  <2> QED
    BY <2>5, <2>6, <2>7 DEF Sender
<1>7. Wire'
  <2>1. CASE payload = <<>>
    <3>1. UNCHANGED net
      BY <2>1 DEF SendFrame
    <3> QED
      BY <3>1, <1>a, <1>b, <1>4 DEF Wire
  <2>2. CASE payload # <<>>
    <3> DEFINE p == [seq |-> tx.seq, ts |-> tx.ts, payload |-> payload,
                     bad |-> FALSE, nth |-> tx.read]
    <3>1. net' = <<p>>
      BY <2>2 DEF SendFrame
    <3>2. payload = Frame(n)
      BY <1>2 DEF Frame
    <3> HIDE DEF payload
    <3>3. p \in Sent
      BY <3>2, <1>d, <1>e DEF Sent, n
    <3> HIDE DEF p
    <3>4. net' \in Seq(Sent) /\ Len(net') = 1
      BY <3>1, <3>3
    <3> QED
      BY <3>4, <1>a, <1>b, <1>4 DEF Wire
  <2> QED
    BY <2>1, <2>2
<1> QED
  BY <1>a, <1>b, <1>6, <1>7 DEF Route

LEMMA RouteRewind ==
  ASSUME Route, Rewind
  PROVE  Route'
<1>a. cfg \in Configs /\ Sender /\ Wire
  BY DEF Route
<1>b. /\ cfg' = cfg /\ UNCHANGED <<net, rx, queue, open>>
      /\ tx' = [tx EXCEPT !.pos = 1] /\ tx.pos > Len(cfg.file)
  BY DEF Rewind, netVars
<1>c. Len(cfg.file) \in Nat \ {0}
  BY <1>a, ConfigFacts
<1>1. Sent' = Sent /\ \A k : TsOf(k)' = TsOf(k)
  BY <1>b, SameFile
<1>2. /\ tx'.pos = 1 /\ tx'.read = tx.read /\ tx'.ts = tx.ts
      /\ tx' \in [pos : 1 .. Len(cfg.file) + 1, seq : 0 .. SeqWrap - 1,
                  ts : 0 .. TsWrap - 1, sent : Nat, read : Nat]
  BY <1>a, <1>b, <1>c DEF Sender
<1>3. Sender'
  <2>1. TsOf(tx.read)' = TsOf(tx.read) /\ tx.ts = TsOf(tx.read)
    BY <1>a, <1>b, <1>2 DEF TsOf, Sender
  <2>2. (tx.read % Len(cfg.file))' = 0
    BY <1>a, <1>b, <1>2 DEF Sender
  <2>3. (IF tx'.pos > Len(cfg.file) THEN 0 ELSE tx'.pos - 1) = 0
    BY <1>2, <1>c
  <2> QED
    BY <1>b, <1>2, <2>1, <2>2, <2>3 DEF Sender
<1>4. Wire'
  BY <1>a, <1>b, <1>1 DEF Wire
<1> QED
  BY <1>a, <1>b, <1>3, <1>4 DEF Route

(* A step of the network or of the ingress leaves the sender alone.        *)
LEMMA SenderStays ==
  ASSUME Route, UNCHANGED <<cfg, tx>>, open' \in BOOLEAN, Wire'
  PROVE  Route'
<1>1. TsOf(tx.read)' = TsOf(tx.read)
  BY DEF TsOf
<1>2. Sender'
  BY <1>1 DEF Route, Sender
<1> QED
  BY <1>2 DEF Route

LEMMA RouteNetwork ==
  ASSUME Route, Lose \/ Damage
  PROVE  Route'
<1>a. Wire /\ UNCHANGED <<cfg, tx, open, rx, queue>> /\ Sent' = Sent
  BY SameFile DEF Route, Lose, Damage
<1>1. net' \in Seq(Sent) /\ Len(net') <= 1
  <2>1. CASE Lose
    BY <2>1, EmptySeq DEF Lose
  <2>2. CASE Damage
    <3>1. net[1] \in Sent
      BY <2>2, <1>a DEF Damage, Wire
    <3> DEFINE p == [net[1] EXCEPT !.bad = TRUE]
    <3>2. p \in Sent
      BY <3>1 DEF Sent
    <3>3. net' = <<p>>
      BY <2>2 DEF Damage
    <3> HIDE DEF p
    <3> QED
      BY <3>2, <3>3
  <2> QED
    BY <2>1, <2>2
<1>2. Wire'
  BY <1>a, <1>1 DEF Wire
<1> QED
  BY <1>a, <1>2, SenderStays DEF Route

IngressActions ==
  Receive \/ ParseFails \/ RouteBySSRC \/ RouteByAddr \/ DropUnknown \/ Enqueue

LEMMA RouteIngress ==
  ASSUME Route, IngressActions
  PROVE  Route'
<1>a. Wire /\ UNCHANGED <<cfg, tx, open>> /\ Sent' = Sent
  BY SameFile DEF Route, IngressActions, Receive, ParseFails, RouteBySSRC, RouteByAddr,
     DropUnknown, Enqueue, IngressStep
<1>b. /\ net \in Seq(Sent) /\ Len(net) <= 1
      /\ rx.step \in {"reading", "parsing", "routing", "queueing"} /\ rx.pkt \in Seq(Sent)
      /\ Len(rx.pkt) <= 1 /\ (rx.step = "reading" <=> rx.pkt = <<>>)
      /\ queue \in Seq(Sent) /\ Len(queue) <= QueueCap
  BY <1>a DEF Wire
<1>c. <<>> \in Seq(Sent) /\ Len(<<>>) = 0
  BY EmptySeq
<1>1. Wire'
  <2>1. CASE Receive
    <3>1. net' = <<>> /\ queue' = queue /\ rx' = [step |-> "parsing", pkt |-> net] /\ net # <<>>
      BY <2>1 DEF Receive, IngressStep
    <3> QED
      BY <3>1, <1>a, <1>b, <1>c DEF Wire
  <2>2. CASE ParseFails \/ DropUnknown
    <3>1. net' = net /\ queue' = queue /\ rx' = [step |-> "reading", pkt |-> <<>>]
      BY <2>2 DEF ParseFails, DropUnknown, IngressStep
    <3> QED
      BY <3>1, <1>a, <1>b, <1>c DEF Wire
  <2>3. CASE RouteBySSRC \/ RouteByAddr
    <3>1. PICK step \in {"routing", "queueing"} : rx' = [step |-> step, pkt |-> rx.pkt]
      BY <2>3 DEF RouteBySSRC, RouteByAddr, IngressStep
    <3>2. net' = net /\ queue' = queue /\ rx.step # "reading"
      BY <2>3 DEF RouteBySSRC, RouteByAddr
    <3> QED
      BY <3>1, <3>2, <1>a, <1>b DEF Wire
  <2>4. CASE Enqueue
    <3>1. net' = net /\ rx' = [step |-> "reading", pkt |-> <<>>]
      BY <2>4 DEF Enqueue, IngressStep
    <3>2. queue' \in Seq(Sent) /\ Len(queue') <= QueueCap
      <4>1. CASE Len(queue) < QueueCap
        <5>1. queue' = queue \o rx.pkt
          BY <2>4, <4>1 DEF Enqueue
        <5>2. queue' \in Seq(Sent) /\ Len(queue') = Len(queue) + Len(rx.pkt)
          BY <5>1, <1>b, ConcatProperties
        <5> QED
          BY <5>2, <4>1, <1>b, WrapsArePositive, LenProperties
      <4>2. CASE ~(Len(queue) < QueueCap)
        BY <2>4, <4>2, <1>b DEF Enqueue
      <4> QED
        BY <4>1, <4>2
    <3> QED
      BY <3>1, <3>2, <1>a, <1>b, <1>c DEF Wire
  <2> QED
    BY <2>1, <2>2, <2>3, <2>4 DEF IngressActions
<1> QED
  BY <1>a, <1>1, SenderStays DEF Route

LEMMA RouteStep ==
  ASSUME Route, [MediaNext]_mediaVars
  PROVE  Route'
<1>1. CASE SendFrame
  BY <1>1, RouteSendFrame
<1>2. CASE Rewind
  BY <1>2, RouteRewind
<1>3. CASE Lose \/ Damage
  BY <1>3, RouteNetwork
<1>4. CASE IngressActions
  BY <1>4, RouteIngress
<1>5. CASE Process \/ ProcessCancelled
  <2>1. Wire /\ UNCHANGED <<cfg, tx, net, rx>> /\ Sent' = Sent
    BY <1>5, SameFile DEF Route, Process, ProcessCancelled
  <2>2. queue' \in Seq(Sent) /\ Len(queue') <= QueueCap
    <3>1. queue \in Seq(Sent) /\ queue # <<>> /\ queue' = Tail(queue) /\ Len(queue) <= QueueCap
      BY <1>5, <2>1 DEF Process, ProcessCancelled, Wire
    <3>2. queue' \in Seq(Sent) /\ Len(queue') = Len(queue) - 1
      BY <3>1, HeadTailProperties
    <3> QED
      BY <3>1, <3>2, WrapsArePositive, LenProperties
  <2>3. Wire'
    BY <2>1, <2>2 DEF Wire
  <2>4. open' \in BOOLEAN
    BY <1>5, Zenon DEF Route, Process, ProcessCancelled
  <2> QED
    BY <2>1, <2>3, <2>4, SenderStays
<1>6. CASE LoadCounter \/ Transmit \/ UNCHANGED mediaVars
  BY <1>6, RouteElsewhere DEF LoadCounter, Transmit, mediaVars, netVars, Route
<1>7. CASE CloseSession
  BY <1>7, RouteElsewhere DEF CloseSession, netVars
<1> QED
  BY <1>1, <1>2, <1>3, <1>4, <1>5, <1>6, <1>7 DEF MediaNext, IngressActions
-----------------------------------------------------------------------------
(* The counters of the ingress and their snapshot.                         *)

(* Counter i as the snapshot will have it if nothing is counted any more.  *)
Seen(i) == IF i <= Len(snap) THEN snap[i] ELSE cnt[CounterOrder[i]]

Counts ==
  /\ cnt \in [ToSet(CounterOrder) -> Nat]
  /\ snap \in Seq(Nat) /\ Len(snap) <= 5
  /\ EveryPacketCounted
  /\ Len(snap) > 0 => Seen(2) + Seen(3) + Seen(4) + Seen(5) >= snap[1] - 1

LEMMA CounterNames ==
  /\ ToSet(CounterOrder) = {"received", "routed", "parse", "unknown", "full"}
  /\ CounterOrder[1] = "received" /\ CounterOrder[2] = "routed" /\ CounterOrder[3] = "parse"
  /\ CounterOrder[4] = "unknown" /\ CounterOrder[5] = "full" /\ Len(CounterOrder) = 5
<1>1. DOMAIN CounterOrder = 1 .. 5
  BY DEF CounterOrder
<1>2. 1 .. 5 = {1, 2, 3, 4, 5}
  OBVIOUS
<1>3. ToSet(CounterOrder) = {CounterOrder[i] : i \in {1, 2, 3, 4, 5}}
  BY <1>1, <1>2 DEF ToSet
<1>4. /\ CounterOrder[1] = "received" /\ CounterOrder[2] = "routed" /\ CounterOrder[3] = "parse"
      /\ CounterOrder[4] = "unknown" /\ CounterOrder[5] = "full" /\ Len(CounterOrder) = 5
  BY DEF CounterOrder
<1>5. {CounterOrder[i] : i \in {1, 2, 3, 4, 5}}
        = {CounterOrder[1], CounterOrder[2], CounterOrder[3], CounterOrder[4], CounterOrder[5]}
  OBVIOUS
<1> QED
  BY <1>3, <1>4, <1>5

LEMMA CountsInit == MediaInit => Counts
<1> SUFFICES ASSUME MediaInit PROVE Counts
  OBVIOUS
<1>1. /\ cnt = [n \in ToSet(CounterOrder) |-> 0] /\ snap = <<>>
      /\ rx = [step |-> "reading", pkt |-> <<>>]
  BY Zenon DEF MediaInit
<1>2. snap \in Seq(Nat) /\ Len(snap) = 0 /\ Len(rx.pkt) = 0
  BY <1>1, EmptySeq
<1>3. EveryPacketCounted
  BY <1>1, <1>2, CounterNames DEF EveryPacketCounted, Dropped
<1> QED
  BY <1>1, <1>2, <1>3 DEF Counts

(* A datagram is counted under one name, or under none.                    *)
LEMMA CountsUp ==
  ASSUME Counts, UNCHANGED snap, cnt' \in [ToSet(CounterOrder) -> Nat],
         EveryPacketCounted', \A name \in ToSet(CounterOrder) : cnt'[name] >= cnt[name]
  PROVE  Counts'
<1>1. \A i \in 2 .. 5 : CounterOrder[i] \in ToSet(CounterOrder)
  <2>1. DOMAIN CounterOrder = 1 .. 5
    BY DEF CounterOrder
  <2> QED
    BY <2>1 DEF ToSet
<1>2. \A i \in 2 .. 5 : Seen(i) \in Nat /\ Seen(i)' \in Nat /\ Seen(i)' >= Seen(i)
  <2> SUFFICES ASSUME NEW i \in 2 .. 5
               PROVE  Seen(i) \in Nat /\ Seen(i)' \in Nat /\ Seen(i)' >= Seen(i)
    OBVIOUS
  <2> DEFINE name == CounterOrder[i]
  <2>1. cnt[name] \in Nat /\ cnt'[name] \in Nat /\ cnt'[name] >= cnt[name]
    BY <1>1 DEF Counts
  <2>2. CASE i <= Len(snap)
    <3>1. snap[i] \in Nat
      BY <2>2, ElementOfSeq DEF Counts
    <3> QED
      BY <2>2, <3>1 DEF Seen
  <2>3. CASE ~(i <= Len(snap))
    BY <2>1, <2>3 DEF Seen
  <2> QED
    BY <2>2, <2>3
<1>3. Len(snap) > 0 => Seen(2)' + Seen(3)' + Seen(4)' + Seen(5)' >= snap[1] - 1
  <2> SUFFICES ASSUME Len(snap) > 0
               PROVE  Seen(2)' + Seen(3)' + Seen(4)' + Seen(5)' >= snap[1] - 1
    OBVIOUS
  <2>1. snap[1] \in Nat /\ Seen(2) + Seen(3) + Seen(4) + Seen(5) >= snap[1] - 1
    BY ElementOfSeq DEF Counts
  <2>2. 2 \in 2 .. 5 /\ 3 \in 2 .. 5 /\ 4 \in 2 .. 5 /\ 5 \in 2 .. 5
    OBVIOUS
  <2>3. /\ Seen(2) \in Nat /\ Seen(2)' \in Nat /\ Seen(2)' >= Seen(2)
        /\ Seen(3) \in Nat /\ Seen(3)' \in Nat /\ Seen(3)' >= Seen(3)
        /\ Seen(4) \in Nat /\ Seen(4)' \in Nat /\ Seen(4)' >= Seen(4)
        /\ Seen(5) \in Nat /\ Seen(5)' \in Nat /\ Seen(5)' >= Seen(5)
    BY <1>2, <2>2
  <2>4. \A a, b, c, d, a1, b1, c1, d1, x \in Nat :
          a1 >= a /\ b1 >= b /\ c1 >= c /\ d1 >= d /\ a + b + c + d >= x - 1
            => a1 + b1 + c1 + d1 >= x - 1
    OBVIOUS
  <2> QED
    BY <2>1, <2>3, <2>4, Zenon
<1>4. snap' \in Seq(Nat) /\ Len(snap') <= 5 /\ Len(snap') = Len(snap) /\ snap'[1] = snap[1]
  BY DEF Counts
<1> QED
  BY <1>3, <1>4 DEF Counts

(* An action of the ingress, and the counter it adds to.                   *)
LEMMA CountsOne ==
  ASSUME Counts, Route, UNCHANGED snap,
         NEW name \in ToSet(CounterOrder), Count(name), Len(rx'.pkt) \in 0 .. 1,
         IF name = "received" THEN Len(rx'.pkt) = Len(rx.pkt) + 1
                              ELSE Len(rx.pkt) = Len(rx'.pkt) + 1
  PROVE  Counts'
<1>a. cnt \in [ToSet(CounterOrder) -> Nat]
  BY DEF Counts
<1>b. Len(rx.pkt) \in Nat
  BY LenProperties DEF Route, Wire
<1>1. cnt' = [cnt EXCEPT ![name] = cnt[name] + 1]
  BY DEF Count
<1>2. cnt' \in [ToSet(CounterOrder) -> Nat]
  BY <1>1, <1>a
<1>3. \A n \in ToSet(CounterOrder) : cnt'[n] = IF n = name THEN cnt[n] + 1 ELSE cnt[n]
  BY <1>1, <1>a
<1>4. \A n \in ToSet(CounterOrder) : cnt'[n] >= cnt[n]
  BY <1>2, <1>3, <1>a
<1>5. EveryPacketCounted'
  <2> DEFINE S == ToSet(CounterOrder)
  <2>1. "received" \in S /\ "routed" \in S /\ "parse" \in S /\ "unknown" \in S /\ "full" \in S
    BY CounterNames
  <2>2. cnt["received"] = cnt["routed"] + (cnt["parse"] + cnt["unknown"] + cnt["full"]) + Len(rx.pkt)
    BY DEF Counts, EveryPacketCounted, Dropped
  <2>3. /\ cnt["received"] \in Nat /\ cnt["routed"] \in Nat /\ cnt["parse"] \in Nat
        /\ cnt["unknown"] \in Nat /\ cnt["full"] \in Nat
    BY <2>1, <1>a
  <2>4. name \in {"received", "routed", "parse", "unknown", "full"}
    BY CounterNames
  <2>5. /\ cnt'["received"] = IF "received" = name THEN cnt["received"] + 1 ELSE cnt["received"]
        /\ cnt'["routed"] = IF "routed" = name THEN cnt["routed"] + 1 ELSE cnt["routed"]
        /\ cnt'["parse"] = IF "parse" = name THEN cnt["parse"] + 1 ELSE cnt["parse"]
        /\ cnt'["unknown"] = IF "unknown" = name THEN cnt["unknown"] + 1 ELSE cnt["unknown"]
        /\ cnt'["full"] = IF "full" = name THEN cnt["full"] + 1 ELSE cnt["full"]
    BY <2>1, <1>3
  <2>6. cnt'["received"] = cnt'["routed"] + (cnt'["parse"] + cnt'["unknown"] + cnt'["full"]) + Len(rx'.pkt)
    <3> DEFINE r == cnt["received"]  o == cnt["routed"]  p == cnt["parse"]
               u == cnt["unknown"]   f == cnt["full"]
               k == Len(rx.pkt)      l == Len(rx'.pkt)
    <3>1. /\ r \in Nat /\ o \in Nat /\ p \in Nat /\ u \in Nat /\ f \in Nat /\ k \in Nat
          /\ l \in Nat /\ r = o + (p + u + f) + k
      BY <2>2, <2>3, <1>b
    <3>2. IF name = "received" THEN l = k + 1 ELSE k = l + 1
      OBVIOUS
    <3> DEFINE r1 == cnt'["received"]  o1 == cnt'["routed"]  p1 == cnt'["parse"]
               u1 == cnt'["unknown"]   f1 == cnt'["full"]
    <3>3. \/ l = k + 1 /\ r1 = r + 1 /\ o1 = o /\ p1 = p /\ u1 = u /\ f1 = f
          \/ k = l + 1 /\ r1 = r /\ o1 = o + 1 /\ p1 = p /\ u1 = u /\ f1 = f
          \/ k = l + 1 /\ r1 = r /\ o1 = o /\ p1 = p + 1 /\ u1 = u /\ f1 = f
          \/ k = l + 1 /\ r1 = r /\ o1 = o /\ p1 = p /\ u1 = u + 1 /\ f1 = f
          \/ k = l + 1 /\ r1 = r /\ o1 = o /\ p1 = p /\ u1 = u /\ f1 = f + 1
      <4> HIDE DEF r, o, p, u, f, k, l, r1, o1, p1, u1, f1
      <4>1. /\ r1 = IF "received" = name THEN r + 1 ELSE r
            /\ o1 = IF "routed" = name THEN o + 1 ELSE o
            /\ p1 = IF "parse" = name THEN p + 1 ELSE p
            /\ u1 = IF "unknown" = name THEN u + 1 ELSE u
            /\ f1 = IF "full" = name THEN f + 1 ELSE f
        BY <2>5 DEF r, o, p, u, f, r1, o1, p1, u1, f1
      <4> QED
        BY <4>1, <3>2, <2>4
    <3>4. r1 = o1 + (p1 + u1 + f1) + l
      <4> DEFINE all == p + u + f
      <4> DEFINE all1 == p1 + u1 + f1
      <4> HIDE DEF r, o, p, u, f, k, l, r1, o1, p1, u1, f1
      <4>1. all \in Nat /\ r = o + all + k
        BY <3>1
      <4>2. \/ l = k + 1 /\ r1 = r + 1 /\ o1 = o /\ all1 = all
            \/ k = l + 1 /\ r1 = r /\ o1 = o + 1 /\ all1 = all
            \/ k = l + 1 /\ r1 = r /\ o1 = o /\ all1 = all + 1
        BY <3>1, <3>3
      <4> HIDE DEF all, all1
      <4>3. r1 = o1 + all1 + l
        BY <3>1, <4>1, <4>2
      <4> QED
        BY <4>3 DEF all1
    <3> QED
      BY <3>4
  <2> QED
    BY <2>6 DEF EveryPacketCounted, Dropped
<1> QED
  BY <1>2, <1>4, <1>5, CountsUp

LEMMA CountsStay ==
  ASSUME Counts, UNCHANGED <<cnt, snap>>, Len(rx'.pkt) = Len(rx.pkt)
  PROVE  Counts'
BY DEF Counts, EveryPacketCounted, Dropped, Seen

LEMMA CountsLoad ==
  ASSUME Counts, Route, LoadCounter
  PROVE  Counts'
<1> DEFINE i == Len(snap) + 1
<1> DEFINE v == cnt[CounterOrder[i]]
<1>a. cnt \in [ToSet(CounterOrder) -> Nat] /\ snap \in Seq(Nat) /\ Len(snap) \in Nat
  BY LenProperties DEF Counts
<1>b. UNCHANGED <<cnt, rx>> /\ snap' = Append(snap, v) /\ i \in 1 .. 5
  BY CounterNames, <1>a DEF LoadCounter, LoadOrder, netVars
<1>c. CounterOrder[i] \in ToSet(CounterOrder)
  <2>1. DOMAIN CounterOrder = 1 .. 5
    BY DEF CounterOrder
  <2> QED
    BY <1>b, <2>1 DEF ToSet
<1>d. v \in Nat
  BY <1>a, <1>c
<1>e. /\ snap' \in Seq(Nat) /\ Len(snap') = i
      /\ \A k \in 1 .. Len(snap) : snap'[k] = snap[k]
      /\ snap'[i] = v
  <2> HIDE DEF v
  <2> QED
    BY <1>a, <1>b, <1>d, AppendProperties
<1>1. EveryPacketCounted'
  BY <1>b DEF Counts, EveryPacketCounted, Dropped
<1>2. \A k \in 2 .. 5 : Seen(k)' = Seen(k)
  <2> SUFFICES ASSUME NEW k \in 2 .. 5 PROVE Seen(k)' = Seen(k)
    OBVIOUS
  <2>1. CASE k = i
    BY <2>1, <1>a, <1>b, <1>e DEF Seen
  <2>2. CASE k < i
    BY <2>2, <1>a, <1>b, <1>e DEF Seen
  <2>3. CASE k > i
    BY <2>3, <1>a, <1>b, <1>e DEF Seen
  <2> QED
    BY <2>1, <2>2, <2>3, <1>a
<1>3. Seen(2)' + Seen(3)' + Seen(4)' + Seen(5)' >= snap'[1] - 1
  <2>0. 2 \in 2 .. 5 /\ 3 \in 2 .. 5 /\ 4 \in 2 .. 5 /\ 5 \in 2 .. 5
    OBVIOUS
  <2>1. Seen(2) + Seen(3) + Seen(4) + Seen(5) >= snap'[1] - 1
    <3>1. CASE Len(snap) > 0
      <4>1. snap'[1] = snap[1]
        BY <3>1, <1>a, <1>e
      <4> QED
        BY <3>1, <4>1 DEF Counts
    <3>2. CASE Len(snap) = 0
      <4>1. snap'[1] = cnt["received"]
        BY <3>2, <1>e, CounterNames
      <4>2. /\ Seen(2) = cnt["routed"] /\ Seen(3) = cnt["parse"]
            /\ Seen(4) = cnt["unknown"] /\ Seen(5) = cnt["full"]
        BY <3>2, CounterNames DEF Seen
      <4>3. cnt["received"] = cnt["routed"] + (cnt["parse"] + cnt["unknown"] + cnt["full"]) + Len(rx.pkt)
        BY DEF Counts, EveryPacketCounted, Dropped
      <4>4. /\ cnt["received"] \in Nat /\ cnt["routed"] \in Nat /\ cnt["parse"] \in Nat
            /\ cnt["unknown"] \in Nat /\ cnt["full"] \in Nat
        BY <1>a, CounterNames
      <4>5. Len(rx.pkt) \in 0 .. 1
        <5>1. rx.pkt \in Seq(Sent) /\ Len(rx.pkt) <= 1
          BY DEF Route, Wire
        <5>2. Len(rx.pkt) \in Nat
          BY <5>1, LenProperties
        <5>3. \A k \in Nat : k <= 1 => k \in 0 .. 1
          OBVIOUS
        <5> QED
          BY <5>1, <5>2, <5>3, Zenon
      <4>6. \A r, o, p, u, f \in Nat : \A k \in 0 .. 1 :
              r = o + (p + u + f) + k => o + p + u + f >= r - 1
        OBVIOUS
      <4> QED
        BY <4>1, <4>2, <4>3, <4>4, <4>5, <4>6, Zenon
    <3> QED
      BY <3>1, <3>2, <1>a
  <2>2. Seen(2)' = Seen(2) /\ Seen(3)' = Seen(3) /\ Seen(4)' = Seen(4) /\ Seen(5)' = Seen(5)
    BY <2>0, <1>2
  <2> QED
    BY <2>1, <2>2
<1> QED
  BY <1>1, <1>3, <1>a, <1>b, <1>e DEF Counts

LEMMA OneAtMost ==
  ASSUME NEW S, NEW s \in Seq(S), Len(s) <= 1
  PROVE  Len(s) = IF s = <<>> THEN 0 ELSE 1
<1>1. Len(s) \in Nat /\ (s = <<>> <=> Len(s) = 0)
  BY EmptySeq, LenProperties
<1>2. \A n \in Nat : n <= 1 => n = 0 \/ n = 1
  OBVIOUS
<1>3. Len(s) = 0 \/ Len(s) = 1
  BY <1>1, <1>2, Zenon
<1> QED
  BY <1>1, <1>3

LEMMA CountsStep ==
  ASSUME Counts, Route, [MediaNext]_mediaVars
  PROVE  Counts'
<1>a. /\ net \in Seq(Sent) /\ Len(net) <= 1 /\ rx.pkt \in Seq(Sent) /\ Len(rx.pkt) <= 1
      /\ (rx.step = "reading" <=> rx.pkt = <<>>)
  BY DEF Route, Wire
<1>b. /\ rx.step = "reading" => Len(rx.pkt) = 0
      /\ rx.step # "reading" => Len(rx.pkt) = 1
  BY <1>a, OneAtMost
<1>c. /\ "received" \in ToSet(CounterOrder) /\ "routed" \in ToSet(CounterOrder)
      /\ "parse" \in ToSet(CounterOrder) /\ "unknown" \in ToSet(CounterOrder)
      /\ "full" \in ToSet(CounterOrder)
  BY CounterNames
<1>d. Len(<<>>) = 0
  BY EmptySeq
<1>1. CASE Receive
  <2>1. rx'.pkt = net /\ UNCHANGED snap /\ Count("received") /\ rx.step = "reading" /\ net # <<>>
    BY <1>1 DEF Receive, IngressStep
  <2>2. Len(net) = 1
    BY <2>1, <1>a, OneAtMost
  <2>3. Len(rx'.pkt) \in 0 .. 1 /\ Len(rx'.pkt) = Len(rx.pkt) + 1
    BY <2>1, <2>2, <1>b
  <2> QED
    BY <2>1, <2>3, <1>c, CountsOne
<1>2. CASE ParseFails \/ DropUnknown \/ Enqueue
  <2>1. PICK name \in {"routed", "parse", "unknown", "full"} : Count(name)
    BY <1>2 DEF ParseFails, DropUnknown, Enqueue, Unroutable
  <2>2. UNCHANGED snap /\ rx'.pkt = <<>> /\ rx.step # "reading"
    BY <1>2 DEF ParseFails, DropUnknown, Enqueue, IngressStep
  <2>3. Len(rx'.pkt) \in 0 .. 1 /\ Len(rx.pkt) = Len(rx'.pkt) + 1
    BY <2>2, <1>b, <1>d
  <2>4. name \in ToSet(CounterOrder) /\ name # "received"
    BY <2>1, <1>c
  <2> QED
    BY <2>1, <2>2, <2>3, <2>4, CountsOne
<1>3. CASE RouteBySSRC \/ RouteByAddr
  <2>1. UNCHANGED <<cnt, snap>> /\ rx'.pkt = rx.pkt
    BY <1>3 DEF RouteBySSRC, RouteByAddr, IngressStep
  <2> QED
    BY <2>1, CountsStay
<1>4. CASE LoadCounter
  BY <1>4, CountsLoad
<1>5. CASE SendFrame \/ Rewind \/ Lose \/ Damage \/ CloseSession \/ Process
             \/ ProcessCancelled \/ Transmit \/ UNCHANGED mediaVars
  <2>1. UNCHANGED <<cnt, snap, rx>>
    BY <1>5 DEF SendFrame, Rewind, Lose, Damage, CloseSession, Process,
                ProcessCancelled, Transmit, mediaVars, netVars
  <2> QED
    BY <2>1, CountsStay
<1> QED
  BY <1>1, <1>2, <1>3, <1>4, <1>5 DEF MediaNext

LEMMA CountsCover ==
  ASSUME Counts
  PROVE  EveryPacketCounted /\ SnapshotCovers
<1>1. EveryPacketCounted
  BY DEF Counts
<1>2. SnapshotCovers
  <2> SUFFICES ASSUME Len(snap) = 5 PROVE SnapshotCovers
    BY CounterNames DEF SnapshotCovers, LoadOrder
  <2> DEFINE Of(name) == snap[CHOOSE i \in DOMAIN LoadOrder : LoadOrder[i] = name]
  <2>1. DOMAIN LoadOrder = {1, 2, 3, 4, 5}
    <3>1. DOMAIN CounterOrder = 1 .. 5 /\ 1 .. 5 = {1, 2, 3, 4, 5}
      BY DEF CounterOrder
    <3> QED
      BY <3>1 DEF LoadOrder
  <2>2. \A i, j \in {1, 2, 3, 4, 5} : LoadOrder[i] = LoadOrder[j] => i = j
    BY CounterNames DEF LoadOrder
  <2>3. \A k \in {1, 2, 3, 4, 5} :
          (CHOOSE i \in DOMAIN LoadOrder : LoadOrder[i] = LoadOrder[k]) = k
    BY <2>1, <2>2
  <2>4. \A k \in {1, 2, 3, 4, 5} : Of(LoadOrder[k]) = snap[k]
    BY <2>3
  <2>5. /\ Of("received") = snap[1] /\ Of("routed") = snap[2] /\ Of("parse") = snap[3]
        /\ Of("unknown") = snap[4] /\ Of("full") = snap[5]
    <3> HIDE DEF Of
    <3> QED
      BY <2>4, CounterNames DEF LoadOrder
  <2>6. Seen(2) = snap[2] /\ Seen(3) = snap[3] /\ Seen(4) = snap[4] /\ Seen(5) = snap[5]
    BY DEF Seen
  <2>7. snap[2] + snap[3] + snap[4] + snap[5] >= snap[1] - 1
    BY <2>6 DEF Counts
  <2>8. \A k \in 1 .. 5 : snap[k] \in Nat
    BY ElementOfSeq DEF Counts
  <2>9. Of("routed") + Of("parse") + Of("unknown") + Of("full") >= Of("received") - 1
    <3> HIDE DEF Of
    <3> QED
      BY <2>5, <2>7
  <2> QED
    BY <2>9, Zenon DEF SnapshotCovers
<1> QED
  BY <1>1, <1>2
-----------------------------------------------------------------------------
(* Samples and their bytes.                                                *)

LEMMA DivShift ==
  ASSUME NEW x \in Int, NEW n \in Int, NEW w \in Nat \ {0}
  PROVE  /\ (x - n * w) \div w = (x \div w) - n
         /\ (x - n * w) % w = x % w
<1> DEFINE q == x \div w
<1> DEFINE r == x % w
<1> DEFINE y == x - n * w
<1> DEFINE p == q - n
<1>1. q \in Int /\ r \in 0 .. w - 1 /\ x = w * q + r
  BY DivMod
<1> HIDE DEF q, r
<1>2. y \in Int /\ p \in Int /\ y = w * p + r
  <2>1. \A a, b, c, d \in Int : (d * a + b) - c * d = d * (a - c) + b
    OBVIOUS
  <2> QED
    BY <1>1, <2>1
<1> HIDE DEF y, p
<1>3. y \div w = p /\ y % w = r
  BY <1>1, <1>2, DivModUnique
<1> QED
  BY <1>3 DEF y, p, q, r

LEMMA SampleRange ==
  \A a : a \in Samples <=> a \in Int /\ a >= -32768 /\ a <= 32767
  BY DEF Samples

(* Truncated division of what is no larger than a multiple.                *)
LEMMA QuotBounds ==
  ASSUME NEW d \in Int, NEW f \in Nat, NEW w \in Nat \ {0}, f < w
  PROVE  /\ d >= 0 => Quot(d * f, w) \in 0 .. d
         /\ d <= 0 => Quot(d * f, w) \in d .. 0
<1>a. \A e \in Nat : (e * f) \div w \in 0 .. e
  <2> SUFFICES ASSUME NEW e \in Nat PROVE (e * f) \div w \in 0 .. e
    OBVIOUS
  <2> DEFINE a == e * f
  <2> DEFINE q == a \div w
  <2> DEFINE r == a % w
  <2>1. a \in Nat
    OBVIOUS
  <2>2. q \in Int /\ r \in 0 .. w - 1 /\ a = w * q + r
    <3> HIDE DEF a
    <3> QED
      BY <2>1, DivMod
  <2>3. a <= w * e
    <3>1. w * e = a + e * (w - f)
      OBVIOUS
    <3>2. e * (w - f) >= 0
      <4>1. w - f \in Nat
        OBVIOUS
      <4>2. \A b \in Nat : e * b >= 0
        OBVIOUS
      <4> QED
        BY <4>1, <4>2
    <3>3. e * (w - f) \in Int /\ w * e \in Int
      OBVIOUS
    <3> HIDE DEF a
    <3> QED
      BY <2>1, <3>1, <3>2, <3>3
  <2> HIDE DEF a, q, r
  <2>4. 0 <= q
    <3> SUFFICES ASSUME q <= -1 PROVE FALSE
      BY <2>2
    <3> DEFINE t == -1 - q
    <3>3. t \in Nat /\ q = -1 - t
      BY <2>2
    <3> HIDE DEF t
    <3>4. w * q = -w - w * t /\ w * t >= 0
      BY <3>3
    <3>5. w * q <= -w /\ w * q \in Int
      BY <3>3, <3>4
    <3> QED
      BY <2>1, <2>2, <3>5
  <2>5. q <= e
    <3> SUFFICES ASSUME q >= e + 1 PROVE FALSE
      BY <2>2
    <3>1. w * q >= w * (e + 1)
      BY <2>2
    <3>2. w * (e + 1) = w * e + w
      OBVIOUS
    <3>3. w * e \in Int /\ w * q \in Int
      BY <2>2
    <3> QED
      BY <2>1, <2>2, <2>3, <3>1, <3>2, <3>3
  <2> QED
    BY <2>2, <2>4, <2>5 DEF q, a
<1>1. ASSUME d >= 0 PROVE Quot(d * f, w) \in 0 .. d
  <2>1. d \in Nat /\ d * f >= 0
    BY <1>1
  <2> QED
    BY <2>1, <1>a DEF Quot
<1>2. ASSUME d < 0 PROVE Quot(d * f, w) \in d .. 0
  <2> DEFINE e == -d
  <2>1. e \in Nat /\ -(d * f) = e * f
    BY <1>2
  <2>2. (e * f) \div w \in 0 .. e
    BY <2>1, <1>a
  <2>3. CASE d * f >= 0
    <3>1. f = 0
      BY <1>2, <2>3
    <3>2. d * f = 0 /\ e * f = 0
      BY <3>1, <2>1
    <3>3. 0 \div w \in 0 .. e /\ Quot(d * f, w) = 0 \div w
      BY <2>2, <3>2 DEF Quot
    <3>4. 0 \div w = 0
      <4>1. 0 = w * 0 + 0 /\ 0 \in 0 .. w - 1
        OBVIOUS
      <4> QED
        BY <4>1, DivModUnique
    <3> QED
      BY <1>2, <3>3, <3>4
  <2>4. CASE ~(d * f >= 0)
    <3>1. Quot(d * f, w) = -((e * f) \div w)
      BY <2>1, <2>4 DEF Quot
    <3> DEFINE z == (e * f) \div w
    <3>2. z \in 0 .. -d /\ Quot(d * f, w) = -z
      BY <2>2, <3>1
    <3> HIDE DEF z
    <3> QED
      BY <1>2, <3>2
  <2> QED
    BY <2>3, <2>4
<1>3. ASSUME d = 0 PROVE Quot(d * f, w) = 0
  <2>1. Quot(d * f, w) \in 0 .. d
    BY <1>1, <1>3
  <2> QED
    BY <1>3, <2>1
<1> QED
  BY <1>1, <1>2, <1>3

(* A sample on the line between two samples is one.                        *)
LEMMA OnTheLine ==
  ASSUME NEW a \in Samples, NEW b \in Samples, NEW f \in Nat, NEW w \in Nat \ {0}, f < w
  PROVE  a + Quot((b - a) * f, w) \in Samples
<1> DEFINE d == b - a
<1> DEFINE q == Quot(d * f, w)
<1>1. d \in Int
  BY SampleRange
<1>2. (d >= 0 => q \in 0 .. d) /\ (d <= 0 => q \in d .. 0)
  BY <1>1, QuotBounds
<1>3. a + q \in Samples
  <2> HIDE DEF q
  <2> QED
    BY <1>2, SampleRange
<1> QED
  BY <1>3

LEMMA ToMonoType ==
  ASSUME NEW in \in Seq(Samples), NEW inCh \in {1, 2}
  PROVE  ToMono(in, inCh) \in Seq(Samples)
<1>1. CASE inCh = 1
  BY <1>1 DEF ToMono
<1>2. CASE inCh = 2
  <2> DEFINE n == Len(in) \div 2
  <2>1. Len(in) \in Nat
    BY LenProperties
  <2>2. n \in Nat /\ 2 * n <= Len(in)
    BY <2>1
  <2>3. ToMono(in, inCh) = [i \in 1 .. n |-> Quot(in[2 * i - 1] + in[2 * i], 2)]
    BY <1>2 DEF ToMono
  <2>4. \A i \in 1 .. n : Quot(in[2 * i - 1] + in[2 * i], 2) \in Samples
    <3> SUFFICES ASSUME NEW i \in 1 .. n
                 PROVE  Quot(in[2 * i - 1] + in[2 * i], 2) \in Samples
      OBVIOUS
    <3>1. 2 * i - 1 \in 1 .. Len(in) /\ 2 * i \in 1 .. Len(in)
      BY <2>1, <2>2
    <3> DEFINE a == in[2 * i - 1]
    <3> DEFINE b == in[2 * i]
    <3>2. a \in Samples /\ b \in Samples
      BY <3>1, ElementOfSeq
    <3> HIDE DEF a, b
    <3>3. a \in Int /\ b \in Int /\ a + b >= -65536 /\ a + b <= 65534
      BY <3>2, SampleRange
    <3>4. Quot(a + b, 2) \in Int /\ Quot(a + b, 2) >= -32768 /\ Quot(a + b, 2) <= 32767
      BY <3>3 DEF Quot
    <3>5. Quot(a + b, 2) \in Samples
      BY <3>4, SampleRange
    <3> QED
      BY <3>5 DEF a, b
  <2> HIDE DEF n
  <2> QED
    BY <2>2, <2>3, <2>4
<1> QED
  BY <1>1, <1>2

(* The bytes of samples give the samples back.                             *)
LEMMA BytesGiveSamples ==
  ASSUME NEW s \in Seq(Samples)
  PROVE  /\ Len(Int16ToS16LE(s)) = 2 * Len(s)
         /\ S16LEToInt16(Int16ToS16LE(s)) = s
<1> DEFINE n == Len(s)
<1> DEFINE b == Int16ToS16LE(s)
<1> DEFINE u(k) == s[k] % 65536
<1> DEFINE lo(k) == u(k) % 256
<1> DEFINE hi(k) == u(k) \div 256
<1>a. n \in Nat /\ s = [i \in 1 .. n |-> s[i]]
  BY LenProperties
<1>b. b = [i \in 1 .. 2 * n |-> IF i % 2 = 1 THEN lo((i + 1) \div 2) ELSE hi((i + 1) \div 2)]
  BY DEF Int16ToS16LE
<1>1. Len(b) = 2 * n
  <2>1. 2 * n \in Nat
    BY <1>a
  <2> HIDE DEF lo, hi, n
  <2> QED
    BY <1>b, <2>1
<1>2. \A k \in 1 .. n : b[2 * k - 1] = lo(k) /\ b[2 * k] = hi(k)
  <2> SUFFICES ASSUME NEW k \in 1 .. n PROVE b[2 * k - 1] = lo(k) /\ b[2 * k] = hi(k)
    OBVIOUS
  <2>1. /\ 2 * k - 1 \in 1 .. 2 * n /\ 2 * k \in 1 .. 2 * n
        /\ (2 * k - 1) % 2 = 1 /\ (2 * k) % 2 # 1
        /\ ((2 * k - 1) + 1) \div 2 = k /\ (2 * k + 1) \div 2 = k
    <3>1. k \in Nat /\ 1 <= k /\ k <= n
      BY <1>a
    <3> HIDE DEF n
    <3>2. 2 * k - 1 \in 1 .. 2 * n /\ 2 * k \in 1 .. 2 * n
      BY <1>a, <3>1
    <3>3. (2 * k - 1) % 2 = 1 /\ (2 * k) % 2 # 1
      BY <3>1
    <3>4. ((2 * k - 1) + 1) \div 2 = k /\ (2 * k + 1) \div 2 = k
      BY <3>1
    <3> QED
      BY <3>2, <3>3, <3>4
  <2> HIDE DEF lo, hi, b, n
  <2> QED
    BY <1>b, <2>1
<1>3. \A k \in 1 .. n : LET v == b[2 * k - 1] + 256 * b[2 * k]
                        IN (IF v >= 32768 THEN v - 65536 ELSE v) = s[k]
  <2> SUFFICES ASSUME NEW k \in 1 .. n
               PROVE  LET v == lo(k) + 256 * hi(k)
                      IN (IF v >= 32768 THEN v - 65536 ELSE v) = s[k]
    BY <1>2
  <2> DEFINE x == s[k]
  <2>1. x \in Samples
    BY ElementOfSeq
  <2> HIDE DEF x
  <2>2. x % 65536 = IF x >= 0 THEN x ELSE x + 65536
    BY <2>1 DEF Samples
  <2>3. ((x % 65536) % 256) + 256 * ((x % 65536) \div 256) = x % 65536
    <3>1. x % 65536 \in Int
      BY <2>1 DEF Samples
    <3> DEFINE y == x % 65536
    <3>3. y \in Int
      BY <3>1
    <3> HIDE DEF y
    <3>2. y = 256 * (y \div 256) + (y % 256) /\ y \div 256 \in Int /\ y % 256 \in Int
      BY <3>3
    <3> QED
      BY <3>2 DEF y
  <2> DEFINE v == lo(k) + 256 * hi(k)
  <2>4. v = x % 65536
    BY <2>3 DEF x
  <2> HIDE DEF v
  <2>5. (IF v >= 32768 THEN v - 65536 ELSE v) = x
    BY <2>1, <2>2, <2>4 DEF Samples
  <2> QED
    BY <2>5 DEF v, x
<1>4. S16LEToInt16(b) = [i \in 1 .. n |-> s[i]]
  <2>1. Len(b) \div 2 = n
    <3>1. \A m \in Nat : (2 * m) \div 2 = m
      OBVIOUS
    <3> HIDE DEF b, n
    <3> QED
      BY <1>1, <1>a, <3>1, Zenon
  <2> DEFINE w(v) == IF v >= 32768 THEN v - 65536 ELSE v
  <2>2. S16LEToInt16(b) = [i \in 1 .. Len(b) \div 2 |-> w(b[2 * i - 1] + 256 * b[2 * i])]
    BY DEF S16LEToInt16
  <2>3. \A i \in 1 .. n : w(b[2 * i - 1] + 256 * b[2 * i]) = s[i]
    BY <1>3
  <2> HIDE DEF w, b, n
  <2> QED
    BY <2>1, <2>2, <2>3
<1> QED
  BY <1>a, <1>1, <1>4
-----------------------------------------------------------------------------
(* The resampler.                                                          *)

(* The phase is in step after as many samples as Produced says, and the    *)
(* last of them still lies in the packet.                                  *)
LEMMA ProducedBounds ==
  ASSUME NEW m \in Nat, NEW I \in Nat \ {0}, NEW R \in Nat \ {0}, NEW ph \in 0 .. I - 1
  PROVE  LET P == Produced(m, ph, I, R)
         IN /\ P \in Nat
            /\ P > 0 => ph + (P - 1) * I < m * R
            /\ PhaseAfter(m, ph, I, R) \in 0 .. I - 1
            /\ PhaseAfter(m, ph, I, R) = ph + P * I - m * R
<1> DEFINE P == Produced(m, ph, I, R)
<1> DEFINE w == m * R
<1>a. w \in Nat /\ ph \in Nat /\ ph < I
  OBVIOUS
<1> HIDE DEF w
<1>1. CASE ph >= w
  <2>1. P = 0
    BY <1>1 DEF Produced, w
  <2>2. PhaseAfter(m, ph, I, R) = ph + P * I - w
    BY DEF PhaseAfter, w
  <2>3. P * I = 0
    BY <2>1
  <2>4. ph + P * I - w \in 0 .. I - 1
    BY <1>a, <1>1, <2>3
  <2> QED
    BY <2>1, <2>2, <2>4 DEF w
<1>2. CASE ph < w
  <2> DEFINE d == w - ph
  <2> DEFINE a == d + I - 1
  <2> DEFINE q == a \div I
  <2> DEFINE r == a % I
  <2>1. d \in Nat /\ d > 0 /\ a \in Int /\ a >= I
    BY <1>a, <1>2
  <2>2. P = q
    BY <1>2, <1>a DEF Produced, w
  <2>3. a = d + I - 1
    OBVIOUS
  <2> HIDE DEF a
  <2>4. q \in Int /\ r \in 0 .. I - 1 /\ a = I * q + r
    BY <2>1, DivMod
  <2> HIDE DEF q, r
  <2>5. q >= 1
    <3> SUFFICES ASSUME q <= 0 PROVE FALSE
      BY <2>4
    <3>1. I * q <= 0
      <4>1. I * (-q) >= 0 /\ I * (-q) = -(I * q)
        BY <2>4
      <4>2. I * q \in Int
        BY <2>4
      <4> QED
        BY <4>1, <4>2
    <3>2. I * q \in Int
      BY <2>4
    <3> QED
      BY <2>1, <2>4, <3>1, <3>2
  <2>6. (q - 1) * I = I * q - I /\ q * I = I * q /\ I * q \in Int
    BY <2>4
  <2> DEFINE z == I * q
  <2>7. (q - 1) * I = z - I /\ q * I = z /\ z \in Int /\ a = z + r
    BY <2>4, <2>6
  <2> HIDE DEF z
  <2>8. ph + (q - 1) * I < w
    BY <2>1, <2>3, <2>4, <2>7, <1>a
  <2>9. ph + q * I - w \in 0 .. I - 1
    BY <2>1, <2>3, <2>4, <2>7, <1>a
  <2>10. PhaseAfter(m, ph, I, R) = ph + q * I - w
    BY <2>2 DEF PhaseAfter, w
  <2> HIDE DEF d
  <2> QED
    BY <2>2, <2>4, <2>5, <2>8, <2>9, <2>10 DEF w
<1> QED
  BY <1>1, <1>2, <1>a

(* Output sample n by the input of one packet, which begins after N of the *)
(* whole.                                                                  *)
Interpolated(mono, N, n, I, R) ==
  LET i == (n * I) \div R - N
  IN IF i = Len(mono) - 1 THEN mono[Len(mono)]
     ELSE mono[i + 1] + Quot((mono[i + 2] - mono[i + 1]) * ((n * I) % R), R)

Resamples(in, inCh, I, R, T, N, ph) ==
  /\ in \in Seq(Samples) /\ inCh \in {1, 2} /\ I \in Nat \ {0}
  /\ R \in Nat \ {0} /\ T \in Nat /\ N \in Nat
  /\ ph \in 0 .. I - 1 /\ ph = T * I - N * R

(* What one packet adds to T samples put out of N put in.                  *)
LEMMA ResampleStep ==
  ASSUME NEW in, NEW inCh, NEW I, NEW R, NEW T, NEW N, NEW ph,
         Resamples(in, inCh, I, R, T, N, ph)
  PROVE  LET mono == ToMono(in, inCh)
             res == Resample(in, ph, I, inCh, R)
             P == Len(res.out)
         IN /\ res.out \in Seq(Samples) /\ P \in Nat
            /\ res.phase \in 0 .. I - 1
            /\ res.phase = (T + P) * I - (N + Len(mono)) * R
            /\ \A q \in 1 .. P :
                 /\ ((T + q - 1) * I) \div R \in N .. N + Len(mono) - 1
                 /\ res.out[q] = Interpolated(mono, N, T + q - 1, I, R)
<1> USE DEF Resamples
<1> DEFINE mono == ToMono(in, inCh)
<1> DEFINE m == Len(mono)
<1> DEFINE res == Resample(in, ph, I, inCh, R)
<1>a. mono \in Seq(Samples)
  BY ToMonoType
<1>b. m \in Nat /\ \A k \in 1 .. m : mono[k] \in Samples
  BY <1>a, LenProperties, ElementOfSeq
<1> HIDE DEF mono
<1>1. CASE I = R
  <2>1. res.out = mono /\ res.phase = 0
    BY <1>1 DEF Resample, mono
  <2>2. ph = (T - N) * I /\ ph < I /\ ph >= 0
    BY <1>1
  <2>3. T = N
    <3> DEFINE d == T - N
    <3>1. d \in Int /\ d * I < I /\ d * I >= 0
      BY <2>2
    <3>2. d = 0
      <4>1. ASSUME d >= 1 PROVE FALSE
        <5>1. (d - 1) * I >= 0 /\ (d - 1) * I = d * I - I
          BY <3>1, <4>1
        <5> QED
          BY <3>1, <5>1
      <4>2. ASSUME d <= -1 PROVE FALSE
        <5>1. (-d - 1) * I >= 0 /\ (-d - 1) * I = -(d * I) - I
          BY <3>1, <4>2
        <5> QED
          BY <3>1, <5>1
      <4> HIDE DEF d
      <4> QED
        BY <3>1, <4>1, <4>2
    <3> QED
      BY <3>2
  <2>4. (T + m) * I - (N + m) * R = 0
    BY <2>3, <1>1
  <2>5. ASSUME NEW q \in 1 .. m
        PROVE  /\ ((T + q - 1) * I) \div R \in N .. N + m - 1
               /\ mono[q] = Interpolated(mono, N, T + q - 1, I, R)
    <3> DEFINE n == T + q - 1
    <3>1. n \in Nat /\ n = N + q - 1 /\ q \in Nat /\ q >= 1 /\ q <= m
      BY <2>3, <1>b
    <3> HIDE DEF n
    <3>2. n * I = R * n + 0 /\ 0 \in 0 .. R - 1 /\ n * I \in Int
      BY <1>1, <3>1
    <3>3. (n * I) \div R = n /\ (n * I) % R = 0
      <4> DEFINE x == n * I
      <4>1. x \in Int /\ n \in Int /\ x = R * n + 0 /\ 0 \in 0 .. R - 1
        BY <3>1, <3>2
      <4> HIDE DEF x
      <4>2. x \div R = n /\ x % R = 0
        BY <4>1, DivModUnique
      <4> QED
        BY <4>2 DEF x
    <3>4. (n * I) \div R - N = q - 1 /\ n \in N .. N + m - 1
      BY <3>1, <3>3, <1>b
    <3>5. mono[q] = Interpolated(mono, N, n, I, R)
      <4> DEFINE i == (n * I) \div R - N
      <4>1. i = q - 1
        BY <3>4
      <4> HIDE DEF i
      <4>2. Interpolated(mono, N, n, I, R)
              = IF i = m - 1 THEN mono[m]
                ELSE mono[i + 1] + Quot((mono[i + 2] - mono[i + 1]) * 0, R)
        BY <3>3 DEF Interpolated, i
      <4>3. CASE i = m - 1
        <5>1. q = m
          BY <4>1, <4>3, <3>1, <1>b
        <5> QED
          BY <4>2, <4>3, <5>1
      <4>4. CASE i # m - 1
        <5>1. i + 1 = q /\ i + 2 = q + 1 /\ q \in 1 .. m /\ q + 1 \in 1 .. m
          BY <4>1, <4>4, <3>1, <1>b
        <5>2. mono[q] \in Int /\ mono[q + 1] \in Int
          BY <5>1, <1>b, SampleRange
        <5> DEFINE d == mono[q + 1] - mono[q]
        <5>3. d * 0 = 0
          BY <5>2
        <5>4. Quot(0, R) = 0
          <6>1. 0 = R * 0 + 0 /\ 0 \in 0 .. R - 1
            OBVIOUS
          <6>2. 0 \div R = 0
            BY <6>1, DivModUnique
          <6> QED
            BY <6>2 DEF Quot
        <5>5. Interpolated(mono, N, n, I, R) = mono[q] + 0
          BY <4>2, <4>4, <5>1, <5>3, <5>4
        <5> QED
          BY <5>2, <5>5
      <4> QED
        BY <4>3, <4>4
    <3> QED
      BY <3>3, <3>4, <3>5 DEF n
  <2>6. 0 \in 0 .. I - 1
    OBVIOUS
  <2> HIDE DEF res
  <2> QED
    BY <1>a, <1>b, <2>1, <2>4, <2>5, <2>6 DEF mono, res
<1>2. CASE I # R
  <2> DEFINE P == Produced(m, ph, I, R)
  <2>1. res.out = LinearResample(mono, ph, I, R) /\ res.phase = PhaseAfter(m, ph, I, R)
    BY <1>2 DEF Resample, mono
  <2>2. /\ P \in Nat
        /\ P > 0 => ph + (P - 1) * I < m * R
        /\ PhaseAfter(m, ph, I, R) \in 0 .. I - 1
        /\ PhaseAfter(m, ph, I, R) = ph + P * I - m * R
    <3>1. m \in Nat /\ ph \in 0 .. I - 1
      BY <1>b
    <3> HIDE DEF m, res
    <3> QED
      BY <3>1, ProducedBounds
  <2>3. (T + P) * I - (N + m) * R = ph + P * I - m * R
    <3>1. \A a, b, c, d, e, f \in Int : (a + b) * c - (d + e) * f = (a * c - d * f) + b * c - e * f
      OBVIOUS
    <3> QED
      BY <3>1, <2>2, <1>b
  <2> DEFINE At0(k) == ph + (k - 1) * I
  <2> DEFINE S(at) == IF at \div R >= m - 1 THEN mono[m]
                      ELSE mono[at \div R + 1]
                           + Quot((mono[at \div R + 2] - mono[at \div R + 1]) * (at % R), R)
  <2>4. res.out = [k \in 1 .. P |-> S(At0(k))]
    BY <2>1 DEF LinearResample
  <2>5. ASSUME NEW q \in 1 .. P
        PROVE  /\ ((T + q - 1) * I) \div R \in N .. N + m - 1
               /\ S(At0(q)) = Interpolated(mono, N, T + q - 1, I, R)
               /\ S(At0(q)) \in Samples
    <3> DEFINE n == T + q - 1
    <3> DEFINE x == n * I
    <3> DEFINE at == At0(q)
    <3> DEFINE i == at \div R
    <3> DEFINE f == at % R
    <3>0. q \in Nat /\ q >= 1 /\ q <= P /\ P > 0 /\ n \in Int /\ x \in Int
      BY <2>2
    <3>1. at = x - N * R
      <4>1. \A a, b, c, d, e \in Int : (a * c - d) + (b - 1) * c = (a + b - 1) * c - d
        OBVIOUS
      <4> QED
        BY <4>1, <3>0
    <3>2. at \in Int /\ at >= 0 /\ at < m * R
      <4>1. (q - 1) * I >= 0 /\ (q - 1) * I <= (P - 1) * I
        <5>1. q - 1 \in Nat /\ P - q \in Nat
          BY <3>0, <2>2
        <5>2. (P - 1) * I = (q - 1) * I + (P - q) * I
          BY <3>0, <2>2
        <5>3. (q - 1) * I \in Nat /\ (P - q) * I \in Nat
          BY <5>1
        <5> QED
          BY <5>2, <5>3
      <4> DEFINE y == (q - 1) * I
      <4> DEFINE z == (P - 1) * I
      <4> DEFINE w == m * R
      <4>2. y \in Int /\ z \in Int /\ w \in Int /\ ph \in Nat
        BY <3>0, <2>2, <1>b
      <4>3. at = ph + y /\ y >= 0 /\ y <= z /\ ph + z < w
        BY <4>1, <2>2, <3>0
      <4> HIDE DEF at, y, z, w
      <4>4. at \in Int /\ at >= 0 /\ at < w
        BY <4>2, <4>3
      <4> QED
        BY <4>4 DEF w
    <3>3. i = x \div R - N /\ f = x % R
      <4> HIDE DEF x, at
      <4>1. (x - N * R) \div R = (x \div R) - N /\ (x - N * R) % R = x % R
        <5>1. x \in Int /\ N \in Int
          BY <3>0
        <5> QED
          BY <5>1, DivShift, Zenon
      <4> QED
        BY <3>1, <4>1, Zenon
    <3>4. i \in Int /\ f \in 0 .. R - 1 /\ at = R * i + f
      <4> HIDE DEF at
      <4> QED
        BY <3>2, DivMod
    <3>5. i \in 0 .. m - 1
      <4> HIDE DEF i, f, at
      <4>1. i >= 0
        <5>1. R * 0 + at = R * i + f
          BY <3>2, <3>4
        <5>2. f < R /\ at >= 0 /\ 0 \in Int /\ at \in Int /\ f \in Int
          BY <3>2, <3>4
        <5>3. 0 <= i
          BY <3>4, <5>1, <5>2, Below
        <5> QED
          BY <5>3
      <4>2. i <= m - 1
        <5> DEFINE s == R * i + f - R * (m - 1)
        <5>1. R * i + f = R * (m - 1) + s /\ s \in Int
          BY <3>4, <1>b
        <5>2. s < R
          <6>1. R * (m - 1) = m * R - R /\ m * R \in Int
            BY <1>b
          <6> DEFINE w == m * R
          <6> DEFINE v == R * (m - 1)
          <6>2. v = w - R /\ w \in Int /\ at < w /\ s = at - v
            BY <6>1, <3>2, <3>4
          <6> HIDE DEF w, v, s
          <6> QED
            BY <6>2, <3>2
        <5>3. f >= 0 /\ f \in Int /\ m - 1 \in Int
          BY <3>4, <1>b
        <5> HIDE DEF s
        <5> QED
          BY <3>4, <5>1, <5>2, <5>3, Below
      <4> QED
        BY <3>4, <4>1, <4>2
    <3>6. x \div R \in N .. N + m - 1
      <4> DEFINE g == x \div R
      <4>1. g \in Int
        <5> HIDE DEF x
        <5> QED
          BY <3>0, DivMod
      <4>2. i = g - N
        BY <3>3
      <4> HIDE DEF g, i
      <4>3. g \in N .. N + m - 1
        BY <4>1, <4>2, <3>5, <1>b
      <4> QED
        BY <4>3 DEF g
    <3>7. S(at) = IF i = m - 1 THEN mono[m]
                  ELSE mono[i + 1] + Quot((mono[i + 2] - mono[i + 1]) * f, R)
      <4>1. i >= m - 1 <=> i = m - 1
        <5> HIDE DEF i
        <5> QED
          BY <3>5, <1>b
      <4> HIDE DEF at
      <4> QED
        BY <4>1
    <3>8. Interpolated(mono, N, n, I, R) =
            IF i = m - 1 THEN mono[m]
            ELSE mono[i + 1] + Quot((mono[i + 2] - mono[i + 1]) * f, R)
      <4> HIDE DEF n, i, f
      <4> QED
        BY <3>3 DEF Interpolated
    <3>9. S(at) \in Samples
      <4> HIDE DEF i, f, at, S
      <4>1. CASE i = m - 1
        <5>1. m \in 1 .. m
          BY <3>5, <1>b
        <5> QED
          BY <3>7, <4>1, <5>1, <1>b
      <4>2. CASE i # m - 1
        <5>1. i + 1 \in 1 .. m /\ i + 2 \in 1 .. m
          BY <3>5, <4>2, <1>b
        <5>2. mono[i + 1] \in Samples /\ mono[i + 2] \in Samples /\ f \in Nat /\ f < R
          BY <5>1, <1>b, <3>4
        <5> DEFINE s1 == mono[i + 1]
        <5> DEFINE s2 == mono[i + 2]
        <5>3. S(at) = s1 + Quot((s2 - s1) * f, R)
          BY <3>7, <4>2
        <5>4. s1 \in Samples /\ s2 \in Samples
          BY <5>2
        <5> HIDE DEF s1, s2
        <5> QED
          BY <5>2, <5>3, <5>4, OnTheLine
      <4> QED
        BY <4>1, <4>2
    <3> QED
      BY <3>6, <3>7, <3>8, <3>9
  <2>6. res.out \in Seq(Samples) /\ Len(res.out) = P /\ \A k \in 1 .. P : res.out[k] = S(At0(k))
    <3>1. \A k \in 1 .. P : S(At0(k)) \in Samples
      BY <2>5
    <3> HIDE DEF S, At0, P, res
    <3> QED
      BY <2>2, <2>4, <3>1
  <2> HIDE DEF S, At0, P, res
  <2> QED
    BY <1>a, <2>1, <2>2, <2>3, <2>5, <2>6 DEF mono, res
<1> QED
  BY <1>1, <1>2
-----------------------------------------------------------------------------
(* The input, packet after packet.                                         *)

(* Every sample of the input lies in one packet.                           *)
Packets == [ts : Nat, nth : Nat, pcm : Seq(Samples), upto : Nat]

StartIn(f, k) == IF k = 1 THEN 0 ELSE f[k - 1].upto

InputIn(f) == IF f = <<>> THEN 0 ELSE f[Len(f)].upto

Holds(f, k, i) == StartIn(f, k) < i /\ i <= f[k].upto

FedSeq(f, ch) ==
  /\ f \in Seq(Packets)
  /\ \A k \in 1 .. Len(f) : f[k].upto = StartIn(f, k) + Len(ToMono(f[k].pcm, ch))
  /\ \A j, k \in 1 .. Len(f) : j < k => f[j].upto <= f[k].upto
  /\ \A i \in 1 .. InputIn(f) : \E k \in 1 .. Len(f) : Holds(f, k, i)

FedOK == FedSeq(fed, cfg.inCh)

LEMMA FedFacts ==
  ASSUME NEW f, NEW ch, FedSeq(f, ch)
  PROVE  /\ Len(f) \in Nat /\ DOMAIN f = 1 .. Len(f) /\ (f = <<>> <=> Len(f) = 0)
         /\ \A k \in 1 .. Len(f) : f[k] \in Packets /\ f[k].upto \in Nat /\ StartIn(f, k) \in Nat
         /\ InputIn(f) \in Nat
         /\ \A k \in 1 .. Len(f) : f[k].upto <= InputIn(f)
<1>1. f \in Seq(Packets)
  BY DEF FedSeq
<1>2. Len(f) \in Nat /\ DOMAIN f = 1 .. Len(f) /\ (f = <<>> <=> Len(f) = 0)
  BY <1>1, LenProperties, EmptySeq
<1>3. \A k \in 1 .. Len(f) : f[k] \in Packets
  BY <1>1, ElementOfSeq
<1>4. \A e \in Packets : e.upto \in Nat
  BY DEF Packets
<1>5. \A k \in 1 .. Len(f) : f[k].upto \in Nat
  BY <1>3, <1>4, Zenon
<1>6. InputIn(f) \in Nat
  <2>1. f # <<>> => Len(f) \in 1 .. Len(f)
    BY <1>2
  <2> QED
    BY <2>1, <1>5 DEF InputIn
<1>7. \A k \in 1 .. Len(f) : StartIn(f, k) \in Nat
  <2> SUFFICES ASSUME NEW k \in 1 .. Len(f) PROVE StartIn(f, k) \in Nat
    OBVIOUS
  <2>1. k # 1 => k - 1 \in 1 .. Len(f)
    BY <1>2
  <2> QED
    BY <2>1, <1>5 DEF StartIn
<1>8. ASSUME NEW k \in 1 .. Len(f) PROVE f[k].upto <= InputIn(f)
  <2> DEFINE l == Len(f)
  <2>0. l \in Nat /\ k \in 1 .. l
    BY <1>2
  <2>1. l \in 1 .. Len(f) /\ (k < l \/ k = l) /\ l # 0
    BY <2>0
  <2>2. InputIn(f) = f[l].upto
    BY <2>1, <1>2 DEF InputIn
  <2> HIDE DEF l
  <2>3. k < l => f[k].upto <= f[l].upto
    BY <2>1 DEF FedSeq
  <2>4. f[l].upto \in Nat
    BY <2>1, <1>5
  <2> QED
    BY <2>1, <2>2, <2>3, <2>4
<1> QED
  BY <1>2, <1>3, <1>5, <1>6, <1>7, <1>8

(* No two packets hold the same sample.                                    *)
LEMMA OnePacket ==
  ASSUME NEW f, NEW ch, FedSeq(f, ch), NEW i \in Int,
         NEW a \in 1 .. Len(f), NEW b \in 1 .. Len(f), Holds(f, a, i), Holds(f, b, i)
  PROVE  a = b
<1>1. ASSUME NEW c \in 1 .. Len(f), NEW d \in 1 .. Len(f), c < d,
             Holds(f, c, i), Holds(f, d, i)
      PROVE  FALSE
  <2>1. Len(f) \in Nat /\ \A k \in 1 .. Len(f) : f[k].upto \in Nat
    BY FedFacts
  <2> DEFINE g == d - 1
  <2>2. g \in 1 .. Len(f) /\ d # 1 /\ (c < g \/ c = g)
    BY <1>1, <2>1
  <2>3. StartIn(f, d) = f[g].upto
    BY <2>2 DEF StartIn
  <2> HIDE DEF g
  <2>4. c < g => f[c].upto <= f[g].upto
    BY <2>2 DEF FedSeq
  <2>5. f[c].upto \in Nat /\ f[g].upto \in Nat
    BY <2>1, <2>2
  <2>6. i <= f[c].upto /\ f[g].upto < i
    BY <1>1, <2>3 DEF Holds
  <2> QED
    BY <2>2, <2>4, <2>5, <2>6
<1>2. Len(f) \in Nat
  BY FedFacts
<1>3. a < b \/ b < a \/ a = b
  BY <1>2
<1> QED
  BY <1>1, <1>3

Appends(f, ch, e, m, g) ==
  /\ FedSeq(f, ch) /\ e \in Packets /\ m \in Nat
  /\ m = Len(ToMono(e.pcm, ch)) /\ e.upto = InputIn(f) + m
  /\ g = Append(f, e)

(* One more packet: where its samples are, and that the others stay.       *)
LEMMA FedAppend ==
  ASSUME NEW f, NEW ch, NEW e, NEW m, NEW g, Appends(f, ch, e, m, g)
  PROVE  /\ FedSeq(g, ch) /\ InputIn(g) = InputIn(f) + m
         /\ Len(g) = Len(f) + 1 /\ g[Len(f) + 1] = e
         /\ \A k \in 1 .. Len(f) : g[k] = f[k] /\ StartIn(g, k) = StartIn(f, k)
         /\ StartIn(g, Len(f) + 1) = InputIn(f)
<1> USE DEF Appends
<1> DEFINE l == Len(f)
<1> DEFINE h == Len(f) + 1
<1>a. f \in Seq(Packets) /\ l \in Nat /\ InputIn(f) \in Nat /\ (f = <<>> <=> l = 0)
  BY FedFacts DEF FedSeq
<1>b. g \in Seq(Packets) /\ Len(g) = h /\ g[h] = e /\ \A k \in 1 .. l : g[k] = f[k]
  BY <1>a, AppendProperties
<1>d. \A k \in 1 .. l : f[k].upto \in Nat /\ f[k].upto <= InputIn(f)
  BY FedFacts
<1>e. h \in Nat /\ h = l + 1
  BY <1>a
<1>1. InputIn(g) = InputIn(f) + m
  <2>1. g # <<>>
    BY <1>a, <1>b, EmptySeq
  <2> QED
    BY <2>1, <1>b DEF InputIn
<1>2. \A k \in 1 .. l : StartIn(g, k) = StartIn(f, k)
  <2> SUFFICES ASSUME NEW k \in 1 .. l PROVE StartIn(g, k) = StartIn(f, k)
    OBVIOUS
  <2>1. k # 1 => k - 1 \in 1 .. l
    BY <1>a
  <2> QED
    BY <2>1, <1>b DEF StartIn
<1>3. StartIn(g, h) = InputIn(f)
  <2>1. CASE l = 0
    BY <1>a, <2>1 DEF StartIn, InputIn
  <2>2. CASE l # 0
    <3>1. l \in 1 .. l /\ h # 1 /\ h - 1 = l /\ f # <<>>
      BY <1>a, <2>2
    <3>2. StartIn(g, h) = g[l].upto
      BY <3>1 DEF StartIn
    <3> QED
      BY <3>1, <3>2, <1>b DEF InputIn
  <2> QED
    BY <2>1, <2>2
<1> HIDE DEF l, h
<1>s. \A k \in 1 .. h : k \in 1 .. l \/ k = h
  BY <1>a, <1>e
<1>t. \A k \in 1 .. l : k \in 1 .. h
  BY <1>a, <1>e
<1>4. FedSeq(g, ch)
  <2>1. \A k \in 1 .. h : g[k].upto = StartIn(g, k) + Len(ToMono(g[k].pcm, ch))
    <3> SUFFICES ASSUME NEW k \in 1 .. h
                 PROVE  g[k].upto = StartIn(g, k) + Len(ToMono(g[k].pcm, ch))
      OBVIOUS
    <3>1. CASE k = h
      BY <3>1, <1>b, <1>3
    <3>2. CASE k \in 1 .. l
      <4>1. f[k].upto = StartIn(f, k) + Len(ToMono(f[k].pcm, ch))
        BY <3>2 DEF FedSeq, l
      <4> QED
        BY <3>2, <4>1, <1>b, <1>2
    <3> QED
      BY <3>1, <3>2, <1>s
  <2>2. \A j, k \in 1 .. h : j < k => g[j].upto <= g[k].upto
    <3> SUFFICES ASSUME NEW j \in 1 .. h, NEW k \in 1 .. h, j < k
                 PROVE  g[j].upto <= g[k].upto
      OBVIOUS
    <3>1. j \in 1 .. l
      BY <1>a, <1>e
    <3>2. CASE k = h
      <4>1. g[j].upto = f[j].upto /\ g[k].upto = InputIn(f) + m
        BY <3>1, <3>2, <1>b
      <4>2. f[j].upto \in Nat /\ f[j].upto <= InputIn(f)
        BY <3>1, <1>d
      <4> QED
        BY <4>1, <4>2, <1>a
    <3>3. CASE k \in 1 .. l
      <4>2. f[j].upto <= f[k].upto
        BY <3>1, <3>3 DEF FedSeq, l
      <4> QED
        BY <3>1, <3>3, <4>2, <1>b
    <3> QED
      BY <3>2, <3>3, <1>s
  <2>3. \A i \in 1 .. InputIn(g) : \E k \in 1 .. h : Holds(g, k, i)
    <3> SUFFICES ASSUME NEW i \in 1 .. InputIn(g) PROVE \E k \in 1 .. h : Holds(g, k, i)
      OBVIOUS
    <3>1. CASE i <= InputIn(f)
      <4>1. i \in 1 .. InputIn(f)
        BY <3>1, <1>a, <1>1
      <4>2. PICK k \in 1 .. l : Holds(f, k, i)
        BY <4>1 DEF FedSeq, l
      <4>3. k \in 1 .. h /\ Holds(g, k, i)
        BY <4>2, <1>t, <1>b, <1>2 DEF Holds
      <4> QED
        BY <4>3
    <3>2. CASE ~(i <= InputIn(f))
      <4>0. i \in Nat /\ i <= InputIn(f) + m /\ InputIn(f) < i
        BY <3>2, <1>a, <1>1
      <4>1. h \in 1 .. h
        BY <1>a, <1>e
      <4>2. Holds(g, h, i)
        BY <4>0, <1>b, <1>3 DEF Holds
      <4> QED
        BY <4>1, <4>2
    <3> QED
      BY <3>1, <3>2
  <2> QED
    BY <2>1, <2>2, <2>3, <1>b DEF FedSeq
<1> QED
  BY <1>1, <1>2, <1>3, <1>4, <1>b DEF l, h
-----------------------------------------------------------------------------
(* The reference, as the input grows.                                      *)

OwnerIn(f, i) == CHOOSE k \in DOMAIN f : Holds(f, k, i)

SampleIn(f, ch, i) == ToMono(f[OwnerIn(f, i)].pcm, ch)[i - StartIn(f, OwnerIn(f, i))]

EndsIn(f) == {f[k].upto : k \in DOMAIN f}

AtIn(n, I, R) == (n * I) \div R + 1

RefIn(f, ch, I, R, n) ==
  IF AtIn(n, I, R) \in EndsIn(f) THEN SampleIn(f, ch, AtIn(n, I, R))
  ELSE SampleIn(f, ch, AtIn(n, I, R))
       + Quot((SampleIn(f, ch, AtIn(n, I, R) + 1) - SampleIn(f, ch, AtIn(n, I, R)))
                * ((n * I) % R), R)

LEMMA OwnerIs ==
  ASSUME NEW f, NEW ch, FedSeq(f, ch), NEW i \in Int, NEW k \in 1 .. Len(f), Holds(f, k, i)
  PROVE  OwnerIn(f, i) = k
<1>1. DOMAIN f = 1 .. Len(f)
  BY FedFacts
<1>2. \A a \in DOMAIN f : Holds(f, a, i) => a = k
  BY <1>1, OnePacket
<1> QED
  BY <1>1, <1>2 DEF OwnerIn

(* What was put in before does not change.                                 *)
LEMMA OldSamples ==
  ASSUME NEW f, NEW ch, FedSeq(f, ch), NEW g, FedSeq(g, ch), Len(g) = Len(f) + 1,
         \A k \in 1 .. Len(f) : g[k] = f[k] /\ StartIn(g, k) = StartIn(f, k),
         NEW i \in 1 .. InputIn(f)
  PROVE  /\ OwnerIn(f, i) \in 1 .. Len(f) /\ OwnerIn(g, i) = OwnerIn(f, i)
         /\ g[OwnerIn(g, i)] = f[OwnerIn(f, i)]
         /\ SampleIn(g, ch, i) = SampleIn(f, ch, i)
<1>1. PICK k \in 1 .. Len(f) : Holds(f, k, i)
  BY DEF FedSeq
<1>2. Len(f) \in Nat /\ InputIn(f) \in Nat
  BY FedFacts
<1>3. k \in 1 .. Len(g) /\ i \in Int
  BY <1>2
<1>4. Holds(g, k, i)
  BY <1>1 DEF Holds
<1>5. OwnerIn(f, i) = k /\ OwnerIn(g, i) = k
  BY <1>1, <1>3, <1>4, OwnerIs
<1> QED
  BY <1>5 DEF SampleIn

Adds(f, g, ch, e, m) ==
  /\ FedSeq(f, ch)
  /\ FedSeq(g, ch)
  /\ Len(g) = Len(f) + 1
  /\ g[Len(f) + 1] = e
  /\ m \in Nat
  /\ e.upto = InputIn(f) + m
  /\ StartIn(g, Len(f) + 1) = InputIn(f)

LEMMA NewSamples ==
  ASSUME NEW f, NEW ch, NEW g, NEW e, NEW m, Adds(f, g, ch, e, m),
         NEW i \in InputIn(f) + 1 .. InputIn(f) + m
  PROVE  /\ OwnerIn(g, i) = Len(f) + 1
         /\ SampleIn(g, ch, i) = ToMono(e.pcm, ch)[i - InputIn(f)]
<1> USE DEF Adds
<1> DEFINE h == Len(f) + 1
<1>1. Len(f) \in Nat /\ InputIn(f) \in Nat
  BY FedFacts
<1>2. h \in 1 .. Len(g) /\ i \in Int
  BY <1>1
<1>3. Holds(g, h, i)
  <2>1. InputIn(f) < i /\ i <= InputIn(f) + m
    BY <1>1
  <2> QED
    BY <2>1 DEF Holds
<1> HIDE DEF h
<1>4. OwnerIn(g, i) = h
  BY <1>2, <1>3, OwnerIs
<1>5. g[h] = e /\ StartIn(g, h) = InputIn(f)
  BY DEF h
<1> QED
  BY <1>4, <1>5 DEF SampleIn, h

LEMMA NewEnds ==
  ASSUME NEW f, NEW ch, FedSeq(f, ch), NEW g, FedSeq(g, ch), Len(g) = Len(f) + 1,
         \A k \in 1 .. Len(f) : g[k] = f[k],
         NEW m \in Nat, g[Len(f) + 1].upto = InputIn(f) + m
  PROVE  /\ EndsIn(g) = EndsIn(f) \cup {InputIn(f) + m}
         /\ \A x \in EndsIn(f) : x \in Nat /\ x <= InputIn(f)
         /\ InputIn(f) > 0 => InputIn(f) \in EndsIn(f)
<1> DEFINE h == Len(f) + 1
<1>a. Len(f) \in Nat /\ DOMAIN f = 1 .. Len(f) /\ DOMAIN g = 1 .. h /\ (f = <<>> <=> Len(f) = 0)
  BY FedFacts
<1>b. h = Len(f) + 1 /\ g[h].upto = InputIn(f) + m
  OBVIOUS
<1> HIDE DEF h
<1>1. EndsIn(g) = EndsIn(f) \cup {InputIn(f) + m}
  <2>1. EndsIn(f) = {f[k].upto : k \in 1 .. Len(f)} /\ EndsIn(g) = {g[k].upto : k \in 1 .. h}
    BY <1>a, Zenon DEF EndsIn
  <2>2. \A k \in 1 .. h : k \in 1 .. Len(f) \/ k = h
    BY <1>a, <1>b
  <2>3. h \in 1 .. h /\ \A k \in 1 .. Len(f) : k \in 1 .. h
    BY <1>a, <1>b
  <2> QED
    BY <2>1, <2>2, <2>3, <1>b
<1>2. \A x \in EndsIn(f) : x \in Nat /\ x <= InputIn(f)
  BY <1>a, FedFacts DEF EndsIn
<1>3. InputIn(f) > 0 => InputIn(f) \in EndsIn(f)
  <2> SUFFICES ASSUME InputIn(f) > 0 PROVE InputIn(f) \in EndsIn(f)
    OBVIOUS
  <2>1. f # <<>> /\ InputIn(f) = f[Len(f)].upto
    BY DEF InputIn
  <2>2. Len(f) \in DOMAIN f
    BY <2>1, <1>a
  <2> QED
    BY <2>1, <2>2 DEF EndsIn
<1> QED
  BY <1>1, <1>2, <1>3

(* g is the input f with one packet more.                                  *)
Grown(f, g, ch, e, m) ==
  /\ FedSeq(f, ch) /\ FedSeq(g, ch) /\ e \in Packets /\ m \in Nat
  /\ Len(g) = Len(f) + 1 /\ g[Len(f) + 1] = e
  /\ \A k \in 1 .. Len(f) : g[k] = f[k] /\ StartIn(g, k) = StartIn(f, k)
  /\ m = Len(ToMono(e.pcm, ch)) /\ e.upto = InputIn(f) + m
  /\ StartIn(g, Len(f) + 1) = InputIn(f)

(* An output sample that was determined stays as it is.                    *)
LEMMA RefOld ==
  ASSUME NEW f, NEW ch, FedSeq(f, ch), NEW g, FedSeq(g, ch), Len(g) = Len(f) + 1,
         \A k \in 1 .. Len(f) : g[k] = f[k] /\ StartIn(g, k) = StartIn(f, k),
         NEW m \in Nat, g[Len(f) + 1].upto = InputIn(f) + m,
         NEW I \in Nat \ {0}, NEW R \in Nat \ {0}, NEW n \in Nat,
         n * I < InputIn(f) * R
  PROVE  /\ AtIn(n, I, R) \in 1 .. InputIn(f)
         /\ RefIn(g, ch, I, R, n) = RefIn(f, ch, I, R, n)
<1> DEFINE N == InputIn(f)
<1> DEFINE i == AtIn(n, I, R)
<1> DEFINE z == Quot((SampleIn(f, ch, i + 1) - SampleIn(f, ch, i)) * ((n * I) % R), R)
<1> DEFINE y == Quot((SampleIn(g, ch, i + 1) - SampleIn(g, ch, i)) * ((n * I) % R), R)
<1>a. N \in Nat
  BY FedFacts
<1>1. i \in 1 .. N
  <2> DEFINE a == n * I
  <2> DEFINE q == a \div R
  <2> DEFINE b == N * R
  <2> DEFINE r == a % R
  <2>1. a \in Int /\ a >= 0 /\ b \in Nat /\ a < b /\ b = N * R
    BY <1>a
  <2>2. i = q + 1
    BY DEF AtIn
  <2> HIDE DEF a, b, i, N
  <2>3. q \in Int /\ r \in 0 .. R - 1 /\ a = R * q + r
    BY <2>1, DivMod
  <2> HIDE DEF r, q
  <2>4. q >= 0
    <3> SUFFICES ASSUME q <= -1 PROVE FALSE
      BY <2>3
    <3>1. R * (-1 - q) >= 0 /\ R * (-1 - q) = -R - R * q /\ R * q \in Int
      BY <2>3
    <3> QED
      BY <2>1, <2>3, <3>1
  <2>5. q < N
    <3> SUFFICES ASSUME q >= N PROVE FALSE
      BY <2>3, <1>a
    <3>1. R * (q - N) >= 0 /\ R * (q - N) = R * q - N * R /\ R * q \in Int
      BY <2>3, <1>a
    <3> QED
      BY <2>1, <2>3, <3>1
  <2> QED
    BY <2>2, <2>3, <2>4, <2>5, <1>a
<1>2. SampleIn(g, ch, i) = SampleIn(f, ch, i)
  BY <1>1, OldSamples
<1>3. i \in EndsIn(g) <=> i \in EndsIn(f)
  <2>1. EndsIn(g) = EndsIn(f) \cup {N + m} /\ (N > 0 => N \in EndsIn(f))
    BY NewEnds
  <2> HIDE DEF N, i
  <2>2. i = N + m => i = N /\ N > 0
    BY <1>1, <1>a
  <2> QED
    BY <2>1, <2>2
<1>4. ASSUME i \notin EndsIn(f) PROVE SampleIn(g, ch, i + 1) = SampleIn(f, ch, i + 1)
  <2>1. N > 0 => N \in EndsIn(f)
    BY NewEnds
  <2>2. i + 1 \in 1 .. N
    <3> HIDE DEF N, i
    <3> QED
      BY <1>1, <1>4, <1>a, <2>1
  <2> QED
    BY <2>2, OldSamples
<1>5. /\ RefIn(g, ch, I, R, n)
           = IF i \in EndsIn(g) THEN SampleIn(g, ch, i) ELSE SampleIn(g, ch, i) + y
      /\ RefIn(f, ch, I, R, n)
           = IF i \in EndsIn(f) THEN SampleIn(f, ch, i) ELSE SampleIn(f, ch, i) + z
  BY DEF RefIn
<1>6. i \notin EndsIn(f) => y = z
  BY <1>2, <1>4
<1> HIDE DEF i, y, z
<1>7. RefIn(g, ch, I, R, n) = RefIn(f, ch, I, R, n)
  BY <1>2, <1>3, <1>5, <1>6
<1> QED
  BY <1>1, <1>7 DEF i

(* The packet that was added determines those up to its end.               *)
LEMMA RefNew ==
  ASSUME NEW f, NEW g, NEW ch, NEW e, NEW m, Grown(f, g, ch, e, m),
         NEW I \in Nat \ {0}, NEW R \in Nat \ {0}, NEW n \in Nat,
         (n * I) \div R \in InputIn(f) .. InputIn(f) + m - 1
  PROVE  /\ OwnerIn(g, AtIn(n, I, R)) = Len(f) + 1
         /\ RefIn(g, ch, I, R, n) = Interpolated(ToMono(e.pcm, ch), InputIn(f), n, I, R)
<1> USE DEF Grown
<1> DEFINE N == InputIn(f)
<1> DEFINE i == AtIn(n, I, R)
<1> DEFINE mono == ToMono(e.pcm, ch)
<1> DEFINE frac == (n * I) % R
<1> DEFINE d == (n * I) \div R
<1>a. N \in Nat /\ m = Len(mono)
  BY FedFacts
<1>b. d \in N .. N + m - 1 /\ i = d + 1
  BY DEF AtIn
<1>1. /\ RefIn(g, ch, I, R, n)
           = IF i \in EndsIn(g) THEN SampleIn(g, ch, i)
             ELSE SampleIn(g, ch, i)
                  + Quot((SampleIn(g, ch, i + 1) - SampleIn(g, ch, i)) * frac, R)
      /\ Interpolated(mono, N, n, I, R)
           = IF d - N = Len(mono) - 1 THEN mono[Len(mono)]
             ELSE mono[d - N + 1]
                  + Quot((mono[d - N + 2] - mono[d - N + 1]) * frac, R)
  BY DEF RefIn, Interpolated
<1>2. \A j \in N + 1 .. N + m :
        OwnerIn(g, j) = Len(f) + 1 /\ SampleIn(g, ch, j) = mono[j - N]
  <2> SUFFICES ASSUME NEW j \in InputIn(f) + 1 .. InputIn(f) + m
               PROVE  /\ OwnerIn(g, j) = Len(f) + 1
                      /\ SampleIn(g, ch, j) = ToMono(e.pcm, ch)[j - InputIn(f)]
    OBVIOUS
  <2>1. Adds(f, g, ch, e, m)
    BY DEF Adds
  <2> QED
    BY ONLY <2>1, j \in InputIn(f) + 1 .. InputIn(f) + m, NewSamples
<1>3. EndsIn(g) = EndsIn(f) \cup {N + m} /\ \A x \in EndsIn(f) : x \in Nat /\ x <= N
  BY NewEnds
<1> HIDE DEF N, i, mono, frac, d
<1>4. i \in N + 1 .. N + m /\ (i \in EndsIn(g) <=> i = N + m)
  BY <1>a, <1>b, <1>3
<1>5. CASE i = N + m
  <2>1. d - N = m - 1 /\ i - N = m
    BY <1>5, <1>a, <1>b
  <2> QED
    BY <1>1, <1>2, <1>4, <1>5, <1>a, <2>1 DEF i, N, mono
<1>6. CASE i # N + m
  <2>1. i + 1 \in N + 1 .. N + m /\ d - N # m - 1 /\ i - N = d - N + 1 /\ i + 1 - N = d - N + 2
    BY <1>4, <1>6, <1>a, <1>b
  <2>2. SampleIn(g, ch, i) = mono[d - N + 1] /\ SampleIn(g, ch, i + 1) = mono[d - N + 2]
    <3>1. SampleIn(g, ch, i) = mono[i - N]
      BY <1>2, <1>4
    <3> DEFINE j == i + 1
    <3>2. j \in N + 1 .. N + m
      BY <2>1
    <3>3. j - N = d - N + 2
      BY <1>a, <1>b
    <3>4. SampleIn(g, ch, i + 1) = SampleIn(g, ch, j)
      OBVIOUS
    <3> HIDE DEF j
    <3>5. SampleIn(g, ch, j) = mono[j - N]
      BY <1>2, <3>2
    <3> QED
      BY <2>1, <3>1, <3>3, <3>4, <3>5
  <2> QED
    BY <1>1, <1>2, <1>4, <1>6, <1>a, <2>1, <2>2 DEF i, N, mono
<1> QED
  BY <1>5, <1>6
-----------------------------------------------------------------------------
(* The chunker.                                                            *)

LEMMA ListOf ==
  ASSUME NEW D, NEW n \in Nat, NEW s, s = [j \in 1 .. n |-> s[j]],
         \A j \in 1 .. n : s[j] \in D
  PROVE  s \in Seq(D) /\ Len(s) = n
  OBVIOUS

LEMMA PieceOf ==
  ASSUME NEW D, NEW s, NEW u \in Nat, NEW n \in Nat, \A i \in 1 .. n : s[u + i] \in D
  PROVE  /\ SubSeq(s, u + 1, u + n) \in Seq(D) /\ Len(SubSeq(s, u + 1, u + n)) = n
         /\ \A i \in 1 .. n : SubSeq(s, u + 1, u + n)[i] = s[u + i]
<1> DEFINE m == u + 1
<1> DEFINE v == u + n
<1> DEFINE p == SubSeq(s, m, v)
<1>1. m \in Int /\ v \in Int /\ v - m + 1 = n /\ (m <= v <=> n # 0)
  OBVIOUS
<1>2. \A i \in m .. v : s[i] \in D
  <2> SUFFICES ASSUME NEW i \in m .. v PROVE s[i] \in D
    OBVIOUS
  <2>1. i - u \in 1 .. n /\ u + (i - u) = i
    OBVIOUS
  <2> QED
    BY <2>1
<1>3. \A i \in 1 .. n : m + i - 1 = u + i
  OBVIOUS
<1> HIDE DEF m, v
<1>4. /\ p \in Seq(D) /\ Len(p) = IF m <= v THEN v - m + 1 ELSE 0
      /\ \A i \in 1 .. v - m + 1 : p[i] = s[m + i - 1]
  BY <1>1, <1>2, SubSeqProperties
<1> HIDE DEF p
<1> QED
  BY <1>1, <1>3, <1>4 DEF p, m, v

Emits == {Emit(s, t, r, l) : s \in Seq(Samples), t \in Nat, r \in Nat, l \in BOOLEAN}

LEMMA EmitFacts ==
  ASSUME NEW s \in Seq(Samples), NEW t \in Nat, NEW r \in Nat, NEW l \in BOOLEAN
  PROVE  /\ Emit(s, t, r, l) \in Emits
         /\ S16LEToInt16(Emit(s, t, r, l).PCM) = s /\ Len(Emit(s, t, r, l).PCM) = 2 * Len(s)
         /\ Emit(s, t, r, l).RTPTimestamp = t
BY BytesGiveSamples DEF Emit, Emits

LEMMA Chunked ==
  ASSUME NEW c \in Emits
  PROVE  S16LEToInt16(c.PCM) \in Seq(Samples) /\ Len(c.PCM) = 2 * Len(S16LEToInt16(c.PCM))
<1>1. PICK s \in Seq(Samples), t \in Nat, r \in Nat, l \in BOOLEAN : c = Emit(s, t, r, l)
  BY DEF Emits
<1> QED
  BY <1>1, EmitFacts

Pushes(c, pcm, S, ts, rate, all, psh) ==
  /\ c \in [buf : Seq(Samples), cur : Nat] /\ pcm \in Seq(Samples) /\ pcm # <<>>
  /\ S \in Nat \ {0} /\ Len(c.buf) < S /\ ts \in Nat /\ rate \in Nat
  /\ all = c.buf \o pcm
  /\ psh = Push(c, pcm, ts, S, rate)

(* What one packet's samples give after those that were kept.              *)
PushedAs(c, S, ts, all, psh, K, t) ==
  /\ K \in Nat /\ t <= Len(all) /\ Len(all) < t + S
  /\ psh.chunks \in Seq(Emits) /\ Len(psh.chunks) = K
  /\ \A j \in 1 .. K :
       /\ ~psh.chunks[j].EndOfStream
       /\ psh.chunks[j].RTPTimestamp = IF j = 1 /\ c.buf # <<>> THEN c.cur ELSE ts
       /\ Len(S16LEToInt16(psh.chunks[j].PCM)) = S
       /\ \A i \in 1 .. S : S16LEToInt16(psh.chunks[j].PCM)[i] = all[(j - 1) * S + i]
  /\ psh.chunker \in [buf : Seq(Samples), cur : Nat]
  /\ Len(psh.chunker.buf) = Len(all) - t
  /\ \A i \in 1 .. Len(all) - t : psh.chunker.buf[i] = all[t + i]
  /\ psh.chunker.cur = IF K = 0 /\ c.buf # <<>> THEN c.cur ELSE ts

Pushed(c, S, ts, all, psh) ==
  PushedAs(c, S, ts, all, psh, Len(all) \div S, (Len(all) \div S) * S)

LEMMA PushStep ==
  ASSUME NEW c, NEW pcm, NEW S, NEW ts, NEW rate, NEW all, NEW psh,
         Pushes(c, pcm, S, ts, rate, all, psh)
  PROVE  Pushed(c, S, ts, all, psh)
<1> DEFINE K == Len(all) \div S
<1> DEFINE t == K * S
<1> DEFINE b == Len(c.buf)
<1> DEFINE Piece(j) == SubSeq(all, (j - 1) * S + 1, j * S)
<1> DEFINE Ts(j) == ChunkTs(c, j, S, ts)
<1> DEFINE rest == SubSeq(all, t + 1, Len(all))
<1>0. /\ c \in [buf : Seq(Samples), cur : Nat] /\ pcm \in Seq(Samples) /\ pcm # <<>>
      /\ S \in Nat \ {0} /\ Len(c.buf) < S /\ ts \in Nat /\ rate \in Nat
      /\ all = c.buf \o pcm
      /\ psh = Push(c, pcm, ts, S, rate)
  BY DEF Pushes
<1>s. S \in Nat \ {0} /\ S \in Nat
  BY <1>0
<1>a. c.buf \in Seq(Samples) /\ c.cur \in Nat /\ b \in Nat /\ b < S /\ (c.buf = <<>> <=> b = 0)
  <2>1. c.buf \in Seq(Samples) /\ c.cur \in Nat
    BY <1>0
  <2> QED
    BY <1>0, <2>1, LenProperties, EmptySeq
<1>b. all \in Seq(Samples) /\ Len(all) \in Nat /\ \A i \in 1 .. Len(all) : all[i] \in Samples
  <2>1. all \in Seq(Samples)
    BY <1>0, <1>a, ConcatProperties
  <2> QED
    BY <1>0, <2>1, LenProperties, ElementOfSeq
<1>c. K \in Nat /\ t \in Nat /\ t <= Len(all) /\ Len(all) < t + S
  <2> DEFINE n == Len(all)
  <2> DEFINE q == n \div S
  <2> DEFINE r == n % S
  <2>1. n \in Int /\ n >= 0
    BY <1>0, <1>b
  <2> HIDE DEF n
  <2>2. q \in Int /\ r \in 0 .. S - 1 /\ n = S * q + r
    BY <1>0, <2>1, DivMod
  <2> HIDE DEF q, r
  <2>3. q >= 0
    <3> SUFFICES ASSUME q <= -1 PROVE FALSE
      BY <1>0, <2>2
    <3>1. S * (-1 - q) >= 0 /\ S * (-1 - q) = -S - S * q /\ S * q \in Int
      BY <1>0, <2>2
    <3> QED
      BY <1>s, <2>1, <2>2, <3>1
  <2>4. q * S = S * q /\ S * q \in Nat
    BY <1>0, <2>2, <2>3
  <2>5. q \in Nat /\ q * S \in Nat /\ q * S <= n /\ n < q * S + S
    BY <1>0, <2>2, <2>3, <2>4
  <2> QED
    BY <1>0, <2>5 DEF q, n
<1>d. \A j \in 1 .. K : (j - 1) * S \in Nat /\ j * S = (j - 1) * S + S /\ j * S <= t
  <2> SUFFICES ASSUME NEW j \in 1 .. K
               PROVE  (j - 1) * S \in Nat /\ j * S = (j - 1) * S + S /\ j * S <= K * S
    BY <1>0
  <2> HIDE DEF K
  <2>1. j \in Nat /\ j >= 1 /\ K - j \in Nat /\ K \in Nat
    BY <1>0, <1>c
  <2>2. (K - j) * S >= 0 /\ (K - j) * S = K * S - j * S /\ K * S \in Int /\ j * S \in Int
    BY <1>0, <2>1
  <2>3. (j - 1) * S >= 0 /\ (j - 1) * S = j * S - S
    BY <1>0, <2>1
  <2> QED
    BY <1>0, <2>1, <2>2, <2>3
<1>e. /\ psh.chunks = [j \in 1 .. K |-> Emit(Piece(j), Ts(j - 1), rate, FALSE)]
      /\ psh.chunker = [buf |-> rest, cur |-> Ts(K)]
  BY <1>0 DEF Push
<1>f. \A j \in Nat : Ts(j) = IF b > j * S THEN c.cur ELSE ts
  BY <1>0 DEF ChunkTs
<1>g. \A j \in Nat : Ts(j) \in Nat /\ Ts(j) = IF j = 0 /\ c.buf # <<>> THEN c.cur ELSE ts
  <2> SUFFICES ASSUME NEW j \in Nat
               PROVE  Ts(j) \in Nat /\ Ts(j) = IF j = 0 /\ c.buf # <<>> THEN c.cur ELSE ts
    BY <1>0
  <2>1. CASE j = 0
    <3>1. j * S = 0
      BY <1>0, <2>1
    <3> HIDE DEF b, Ts
    <3> QED
      BY <1>0, <2>1, <3>1, <1>a, <1>f
  <2>2. CASE j # 0
    <3>1. (j - 1) * S >= 0 /\ (j - 1) * S = j * S - S /\ j * S \in Nat
      BY <1>0, <2>2
    <3> HIDE DEF b, Ts
    <3> DEFINE z == j * S
    <3>3. z \in Nat /\ z >= S
      BY <1>0, <3>1
    <3> HIDE DEF z
    <3>4. ~(b > z)
      BY <1>0, <3>3, <1>a
    <3>2. ~(b > j * S)
      BY <1>0, <3>4 DEF z
    <3> QED
      BY <1>0, <2>2, <3>2, <1>a, <1>f
  <2> QED
    BY <1>0, <2>1, <2>2
<1> HIDE DEF t, b, Ts, K
<1>1. \A j \in 1 .. K :
        /\ Piece(j) \in Seq(Samples) /\ Len(Piece(j)) = S
        /\ \A i \in 1 .. S : Piece(j)[i] = all[(j - 1) * S + i]
  <2> SUFFICES ASSUME NEW j \in 1 .. K
               PROVE  /\ Piece(j) \in Seq(Samples) /\ Len(Piece(j)) = S
                      /\ \A i \in 1 .. S : Piece(j)[i] = all[(j - 1) * S + i]
    BY <1>0
  <2> DEFINE u == (j - 1) * S
  <2> DEFINE v == j * S
  <2>1. u \in Nat /\ v = u + S /\ v <= Len(all) /\ Piece(j) = SubSeq(all, u + 1, v)
    BY <1>0, <1>d, <1>c, <1>b
  <2> HIDE DEF u, v, Piece
  <2>2. S \in Nat /\ v = u + S /\ \A i \in 1 .. S : all[u + i] \in Samples
    BY <1>0, <2>1, <1>b
  <2>3. /\ SubSeq(all, u + 1, u + S) \in Seq(Samples) /\ Len(SubSeq(all, u + 1, u + S)) = S
        /\ \A i \in 1 .. S : SubSeq(all, u + 1, u + S)[i] = all[u + i]
    <3>1. u \in Nat /\ S \in Nat /\ \A i \in 1 .. S : all[u + i] \in Samples
      BY <2>1, <2>2
    <3>2. SubSeq(all, u + 1, u + S) \in Seq(Samples)
      BY <3>1, PieceOf
    <3>3. Len(SubSeq(all, u + 1, u + S)) = S
      BY <3>1, PieceOf
    <3>4. \A i \in 1 .. S : SubSeq(all, u + 1, u + S)[i] = all[u + i]
      BY <3>1, PieceOf
    <3> QED
      BY <3>2, <3>3, <3>4
  <2> QED
    BY <1>0, <2>1, <2>3 DEF u
<1>2. /\ rest \in Seq(Samples) /\ Len(rest) = Len(all) - t
      /\ \A i \in 1 .. Len(all) - t : rest[i] = all[t + i]
  <2> DEFINE w == Len(all) - t
  <2>1. w \in Nat /\ Len(all) = t + w /\ \A i \in 1 .. w : all[t + i] \in Samples
    BY <1>0, <1>b, <1>c
  <2>2. rest = SubSeq(all, t + 1, Len(all))
    BY <1>0
  <2> HIDE DEF w, rest
  <2>3. t \in Nat
    BY <1>0, <1>c
  <2>4. /\ SubSeq(all, t + 1, t + w) \in Seq(Samples) /\ Len(SubSeq(all, t + 1, t + w)) = w
        /\ \A i \in 1 .. w : SubSeq(all, t + 1, t + w)[i] = all[t + i]
    BY <1>0, <2>1, <2>3, PieceOf
  <2> QED
    BY <1>0, <2>1, <2>2, <2>4 DEF w
<1> HIDE DEF Piece, rest
<1>3. \A j \in 1 .. K :
        /\ psh.chunks[j] \in Emits
        /\ ~psh.chunks[j].EndOfStream
        /\ psh.chunks[j].RTPTimestamp = IF j = 1 /\ c.buf # <<>> THEN c.cur ELSE ts
        /\ S16LEToInt16(psh.chunks[j].PCM) = Piece(j)
  <2> SUFFICES ASSUME NEW j \in 1 .. K
               PROVE  /\ psh.chunks[j] \in Emits
                      /\ ~psh.chunks[j].EndOfStream
                      /\ psh.chunks[j].RTPTimestamp
                           = IF j = 1 /\ c.buf # <<>> THEN c.cur ELSE ts
                      /\ S16LEToInt16(psh.chunks[j].PCM) = Piece(j)
    BY <1>0
  <2> DEFINE piece == Piece(j)
  <2> DEFINE when == Ts(j - 1)
  <2> DEFINE no == FALSE
  <2>1. psh.chunks[j] = Emit(piece, when, rate, no)
    BY <1>0, <1>e
  <2>2. j - 1 \in Nat /\ (j - 1 = 0 <=> j = 1)
    BY <1>0, <1>c
  <2>3. /\ piece \in Seq(Samples) /\ when \in Nat /\ no \in BOOLEAN
        /\ when = IF j = 1 /\ c.buf # <<>> THEN c.cur ELSE ts
    BY <1>0, <1>1, <1>g, <2>2
  <2> HIDE DEF piece, when, no
  <2>4. /\ Emit(piece, when, rate, no) \in Emits
        /\ S16LEToInt16(Emit(piece, when, rate, no).PCM) = piece
        /\ Emit(piece, when, rate, no).RTPTimestamp = when
    <3>1. piece \in Seq(Samples) /\ when \in Nat /\ no \in BOOLEAN /\ rate \in Nat
      BY <1>0, <2>3
    <3> HIDE DEF Piece
    <3>2. Emit(piece, when, rate, no) \in Emits
      BY <1>0, <3>1, EmitFacts
    <3>3. S16LEToInt16(Emit(piece, when, rate, no).PCM) = piece
      BY <1>0, <3>1, EmitFacts
    <3>4. Emit(piece, when, rate, no).RTPTimestamp = when
      BY <1>0, <3>1, EmitFacts
    <3> QED
      BY <1>0, <3>2, <3>3, <3>4
  <2>5. ~Emit(piece, when, rate, no).EndOfStream
    BY <1>0 DEF Emit, no
  <2> QED
    BY <1>0, <2>1, <2>3, <2>4, <2>5 DEF piece
<1>4. psh.chunks \in Seq(Emits) /\ Len(psh.chunks) = K
  <2> DEFINE s == psh.chunks
  <2>1. s = [j \in 1 .. K |-> s[j]] /\ \A j \in 1 .. K : s[j] \in Emits
    BY <1>0, <1>e, <1>3
  <2> HIDE DEF s
  <2>2. s \in Seq(Emits) /\ Len(s) = K
    BY <1>0, <2>1, <1>c, ListOf
  <2> QED
    BY <1>0, <2>2 DEF s
<1>5. psh.chunker.buf = rest /\ psh.chunker.cur = Ts(K) /\ psh.chunker \in [buf : Seq(Samples), cur : Nat]
  BY <1>0, <1>e, <1>2, <1>g, <1>c
<1>6. \A j \in 1 .. K :
        /\ Len(S16LEToInt16(psh.chunks[j].PCM)) = S
        /\ \A i \in 1 .. S : S16LEToInt16(psh.chunks[j].PCM)[i] = all[(j - 1) * S + i]
  BY <1>0, <1>1, <1>3
<1>7. psh.chunker.cur = IF K = 0 /\ c.buf # <<>> THEN c.cur ELSE ts
  BY <1>0, <1>5, <1>g, <1>c
<1>8. /\ Len(psh.chunker.buf) = Len(all) - t
      /\ \A i \in 1 .. Len(all) - t : psh.chunker.buf[i] = all[t + i]
  BY <1>0, <1>2, <1>5
<1>9. t = K * S
  BY <1>0 DEF t
<1>10. K = Len(all) \div S
  BY <1>0 DEF K
<1>11. PushedAs(c, S, ts, all, psh, K, t)
  BY <1>0, <1>3, <1>4, <1>5, <1>6, <1>7, <1>8, <1>c DEF PushedAs
<1> QED
  BY <1>9, <1>10, <1>11 DEF Pushed
-----------------------------------------------------------------------------
(* A packet goes through the pipeline.                                     *)

TimeIn(f, I, R, n) == f[OwnerIn(f, AtIn(n, I, R))].ts

(* The samples put out so far keep their value and their time, the next    *)
(* ones are those of the resampler, at the time of the packet.             *)
LEMMA ReferenceGrows ==
  ASSUME NEW f, NEW g, NEW ch, NEW e, NEW m, Grown(f, g, ch, e, m),
         NEW I \in Nat \ {0}, NEW R \in Nat \ {0}, NEW n \in Nat
  PROVE  /\ n * I < InputIn(f) * R =>
              /\ RefIn(g, ch, I, R, n) = RefIn(f, ch, I, R, n)
              /\ TimeIn(g, I, R, n) = TimeIn(f, I, R, n)
         /\ (n * I) \div R \in InputIn(f) .. InputIn(f) + m - 1 =>
              /\ RefIn(g, ch, I, R, n) = Interpolated(ToMono(e.pcm, ch), InputIn(f), n, I, R)
              /\ TimeIn(g, I, R, n) = e.ts
<1>a. /\ FedSeq(f, ch) /\ FedSeq(g, ch) /\ e \in Packets /\ m \in Nat
      /\ Len(g) = Len(f) + 1 /\ g[Len(f) + 1] = e
      /\ \A k \in 1 .. Len(f) : g[k] = f[k] /\ StartIn(g, k) = StartIn(f, k)
      /\ m = Len(ToMono(e.pcm, ch)) /\ e.upto = InputIn(f) + m
      /\ StartIn(g, Len(f) + 1) = InputIn(f)
  BY DEF Grown
<1>b. g[Len(f) + 1].upto = InputIn(f) + m
  BY <1>a
<1>1. ASSUME n * I < InputIn(f) * R
      PROVE  /\ RefIn(g, ch, I, R, n) = RefIn(f, ch, I, R, n)
             /\ TimeIn(g, I, R, n) = TimeIn(f, I, R, n)
  <2>1. /\ AtIn(n, I, R) \in 1 .. InputIn(f)
        /\ RefIn(g, ch, I, R, n) = RefIn(f, ch, I, R, n)
    BY <1>a, <1>b, <1>1, RefOld
  <2>2. g[OwnerIn(g, AtIn(n, I, R))] = f[OwnerIn(f, AtIn(n, I, R))]
    BY <1>a, <2>1, OldSamples
  <2> QED
    BY <2>1, <2>2 DEF TimeIn
<1>2. ASSUME (n * I) \div R \in InputIn(f) .. InputIn(f) + m - 1
      PROVE  /\ RefIn(g, ch, I, R, n) = Interpolated(ToMono(e.pcm, ch), InputIn(f), n, I, R)
             /\ TimeIn(g, I, R, n) = e.ts
  <2>1. /\ OwnerIn(g, AtIn(n, I, R)) = Len(f) + 1
        /\ RefIn(g, ch, I, R, n) = Interpolated(ToMono(e.pcm, ch), InputIn(f), n, I, R)
    BY <1>2, RefNew
  <2> QED
    BY <1>a, <2>1 DEF TimeIn
<1> QED
  BY <1>1, <1>2

LEMMA Beyond ==
  \A E, b, P \in Nat : \A j \in Int : j <= b + P /\ j > b =>
    j - b \in 1 .. P /\ (E + b) + (j - b) - 1 = E + j - 1
  OBVIOUS

Continues(f, g, ch, e, m, I, R, E, T, buf, out) ==
  /\ Grown(f, g, ch, e, m) /\ I \in Nat \ {0} /\ R \in Nat \ {0} /\ E \in Nat
  /\ buf \in Seq(Samples) /\ T = E + Len(buf) /\ T * I - InputIn(f) * R \in 0 .. I - 1
  /\ \A j \in 1 .. Len(buf) : buf[j] = RefIn(f, ch, I, R, E + j - 1)
  /\ out \in Seq(Samples)
  /\ \A q \in 1 .. Len(out) :
       /\ ((T + q - 1) * I) \div R \in InputIn(f) .. InputIn(f) + m - 1
       /\ out[q] = Interpolated(ToMono(e.pcm, ch), InputIn(f), T + q - 1, I, R)

(* What is kept and what comes new lie on the reference, one after the     *)
(* other.                                                                  *)
Continued(f, g, ch, e, I, R, E, T, buf, out) ==
  /\ T \in Nat
  /\ \A n \in 0 .. T - 1 :
       /\ RefIn(g, ch, I, R, n) = RefIn(f, ch, I, R, n)
       /\ TimeIn(g, I, R, n) = TimeIn(f, I, R, n)
  /\ \A n \in T .. T + Len(out) - 1 : TimeIn(g, I, R, n) = e.ts
  /\ Len(buf \o out) = Len(buf) + Len(out)
  /\ \A j \in 1 .. Len(buf) + Len(out) : (buf \o out)[j] = RefIn(g, ch, I, R, E + j - 1)

LEMMA KeptAndNew ==
  ASSUME NEW f, NEW g, NEW ch, NEW e, NEW m, NEW I, NEW R, NEW E, NEW T, NEW buf, NEW out,
         Continues(f, g, ch, e, m, I, R, E, T, buf, out)
  PROVE  Continued(f, g, ch, e, I, R, E, T, buf, out)
<1> DEFINE b == Len(buf)
<1> DEFINE P == Len(out)
<1> DEFINE N == InputIn(f)
<1> DEFINE ph == T * I - InputIn(f) * R
<1>0. /\ Grown(f, g, ch, e, m) /\ I \in Nat \ {0} /\ R \in Nat \ {0} /\ E \in Nat
      /\ buf \in Seq(Samples) /\ T = E + Len(buf) /\ ph \in 0 .. I - 1
      /\ \A j \in 1 .. Len(buf) : buf[j] = RefIn(f, ch, I, R, E + j - 1)
      /\ out \in Seq(Samples)
      /\ \A q \in 1 .. Len(out) :
           /\ ((T + q - 1) * I) \div R \in InputIn(f) .. InputIn(f) + m - 1
           /\ out[q] = Interpolated(ToMono(e.pcm, ch), InputIn(f), T + q - 1, I, R)
  BY DEF Continues
<1>i. I \in Nat \ {0} /\ R \in Nat \ {0} /\ E \in Nat /\ Grown(f, g, ch, e, m)
  BY <1>0
<1>a. b \in Nat /\ P \in Nat /\ T \in Nat /\ T = E + b
  BY <1>0, LenProperties
<1>b. N \in Nat
  BY <1>0, FedFacts DEF Grown
<1>c. /\ Len(buf \o out) = b + P
      /\ \A j \in 1 .. b + P : (buf \o out)[j] = IF j <= b THEN buf[j] ELSE out[j - b]
  BY <1>0, ConcatProperties
<1>d. ph \in Nat /\ ph < I /\ ph = T * I - N * R
  BY <1>0
<1> HIDE DEF b, P, N, ph
<1>1. ASSUME NEW n \in 0 .. T - 1
      PROVE  /\ RefIn(g, ch, I, R, n) = RefIn(f, ch, I, R, n)
             /\ TimeIn(g, I, R, n) = TimeIn(f, I, R, n)
  <2>1. n \in Nat /\ T - 1 - n \in Nat
    BY <1>a
  <2>2. (T - 1 - n) * I >= 0 /\ (T - 1 - n) * I = T * I - I - n * I
    <3>1. \A u, v \in Nat : u * v >= 0
      OBVIOUS
    <3>2. \A u, v, w \in Int : (u - 1 - v) * w = u * w - w - v * w
      OBVIOUS
    <3>3. T \in Int /\ n \in Int /\ I \in Int /\ I \in Nat
      BY <2>1, <1>a, <1>i
    <3> QED
      BY <2>1, <3>1, <3>2, <3>3
  <2>3. n * I < N * R
    <3> DEFINE x == n * I
    <3> DEFINE y == T * I
    <3> DEFINE z == N * R
    <3>1. x \in Int /\ y \in Int /\ z \in Int
      <4>1. n \in Int /\ T \in Int /\ N \in Int
        BY <2>1, <1>a, <1>b
      <4> QED
        BY <4>1, <1>i
    <3>2. y - I - x >= 0 /\ ph = y - z
      BY <2>2, <1>d
    <3> HIDE DEF x, y, z
    <3>3. x < z
      BY <3>1, <3>2, <1>d, <1>i
    <3> QED
      BY <3>3 DEF x, z
  <2> QED
    BY <2>1, <2>3, <1>i, ReferenceGrows DEF N
<1>2. ASSUME NEW q \in 1 .. P
      PROVE  /\ TimeIn(g, I, R, T + q - 1) = e.ts
             /\ out[q] = RefIn(g, ch, I, R, T + q - 1)
  <2> DEFINE k == T + q - 1
  <2>1. k \in Nat
    BY <1>a, <1>i
  <2>2. /\ (k * I) \div R \in N .. N + m - 1
        /\ out[q] = Interpolated(ToMono(e.pcm, ch), N, k, I, R)
    BY <1>0 DEF P, N
  <2> HIDE DEF k
  <2>3. /\ RefIn(g, ch, I, R, k) = Interpolated(ToMono(e.pcm, ch), N, k, I, R)
        /\ TimeIn(g, I, R, k) = e.ts
    BY <2>1, <2>2, <1>i, ReferenceGrows DEF N
  <2> QED
    BY <2>2, <2>3 DEF k
<1>3. ASSUME NEW n \in T .. T + P - 1 PROVE TimeIn(g, I, R, n) = e.ts
  <2> DEFINE q == n - T + 1
  <2>1. q \in 1 .. P /\ T + q - 1 = n
    BY <1>a
  <2> HIDE DEF q
  <2> QED
    BY <2>1, <1>2
<1>4. ASSUME NEW j \in 1 .. b + P
      PROVE  (buf \o out)[j] = RefIn(g, ch, I, R, E + j - 1)
  <2>1. CASE j <= b
    <3>1. j \in 1 .. b /\ E + j - 1 \in 0 .. T - 1
      BY <2>1, <1>a, <1>i
    <3>2. buf[j] = RefIn(f, ch, I, R, E + j - 1)
      BY <1>0, <3>1 DEF b
    <3> QED
      BY <2>1, <3>1, <3>2, <1>1, <1>c
  <2>2. CASE ~(j <= b)
    <3> DEFINE x == j - b
    <3>0. j \in Int /\ j <= b + P /\ j > b
      BY <2>2, <1>a
    <3>1. x \in 1 .. P /\ (E + b) + x - 1 = E + j - 1
      BY <3>0, <1>a, <1>i, Beyond
    <3>2. (buf \o out)[j] = out[x]
      BY <2>2, <1>c
    <3> HIDE DEF x
    <3> QED
      BY <3>1, <3>2, <1>2, <1>a, <1>i
  <2> QED
    BY <2>1, <2>2
<1> QED
  BY <1>1, <1>3, <1>4, <1>a, <1>c DEF b, P, Continued

(* The place of sample j of chunk k in the output.                         *)
LEMMA OldSlot ==
  ASSUME NEW L \in Nat, NEW S \in Nat \ {0}, NEW k \in 1 .. L, NEW j \in 1 .. S
  PROVE  /\ (k - 1) * S \in 0 .. L * S - 1
         /\ (k - 1) * S + j - 1 \in 0 .. L * S - 1
<1> DEFINE a == (k - 1) * S
<1> DEFINE b == L * S
<1> DEFINE d == (L - k) * S
<1>1. d \in Nat /\ a \in Nat /\ b \in Nat /\ b = a + S + d
  <2>1. \A u, v \in Nat : u * v \in Nat
    OBVIOUS
  <2>2. \A u, v, w \in Int : u * w = (v - 1) * w + w + (u - v) * w
    OBVIOUS
  <2>3. k - 1 \in Nat /\ L - k \in Nat /\ S \in Nat /\ S \in Int /\ k \in Int /\ L \in Int
    OBVIOUS
  <2> QED
    BY <2>1, <2>2, <2>3
<1> HIDE DEF a, b, d
<1>2. a \in 0 .. b - 1 /\ a + j - 1 \in 0 .. b - 1
  BY <1>1
<1> QED
  BY <1>2 DEF a, b

LEMMA NewSlot ==
  ASSUME NEW L \in Nat, NEW S \in Nat, NEW x \in Nat
  PROVE  /\ L * S \in Nat /\ x * S \in Nat /\ (L + x) * S = L * S + x * S
         /\ ((L + x) - 1) * S = L * S + (x - 1) * S
<1>1. \A u, v \in Nat : u * v \in Nat
  OBVIOUS
<1>2. \A u, v, w \in Int : (u + v) * w = u * w + v * w /\ ((u + v) - 1) * w = u * w + (v - 1) * w
  OBVIOUS
<1> QED
  BY <1>1, <1>2

(* Chunks and what is kept lie on the reference: E samples are out.        *)
SoundIn(f, ch, I, R, S, cs, c, E) ==
  /\ \A k \in 1 .. Len(cs) : \A j \in 1 .. Len(S16LEToInt16(cs[k].PCM)) :
       S16LEToInt16(cs[k].PCM)[j] = RefIn(f, ch, I, R, (k - 1) * S + j - 1)
  /\ \A k \in 1 .. Len(cs) : cs[k].RTPTimestamp = TimeIn(f, I, R, (k - 1) * S)
  /\ \A j \in 1 .. Len(c.buf) : c.buf[j] = RefIn(f, ch, I, R, E + j - 1)
  /\ c.buf # <<>> => c.cur = TimeIn(f, I, R, E)

FullChunks(cs, S) ==
  /\ cs \in Seq(Emits)
  /\ \A k \in 1 .. Len(cs) : ~cs[k].EndOfStream /\ Len(S16LEToInt16(cs[k].PCM)) = S

LEMMA FullAppend ==
  ASSUME NEW cs, NEW ds, NEW S, FullChunks(cs, S), FullChunks(ds, S)
  PROVE  /\ FullChunks(cs \o ds, S) /\ Len(cs \o ds) = Len(cs) + Len(ds)
         /\ Len(cs) \in Nat /\ Len(ds) \in Nat
         /\ \A k \in 1 .. Len(cs) : (cs \o ds)[k] = cs[k]
         /\ \A x \in 1 .. Len(ds) : (cs \o ds)[Len(cs) + x] = ds[x]
         /\ \A k \in 1 .. Len(cs) + Len(ds) :
              k \in 1 .. Len(cs) \/ (k - Len(cs) \in 1 .. Len(ds) /\ k = Len(cs) + (k - Len(cs)))
<1> DEFINE a == Len(cs)
<1> DEFINE b == Len(ds)
<1> DEFINE all == cs \o ds
<1>1. cs \in Seq(Emits) /\ ds \in Seq(Emits) /\ a \in Nat /\ b \in Nat
  BY LenProperties DEF FullChunks
<1>2. /\ all \in Seq(Emits) /\ Len(all) = a + b
      /\ \A i \in 1 .. a + b : all[i] = IF i <= a THEN cs[i] ELSE ds[i - a]
  BY <1>1, ConcatProperties
<1> HIDE DEF all
<1>3. \A k \in 1 .. a : all[k] = cs[k]
  <2> HIDE DEF a, b
  <2> QED
    BY <1>1, <1>2
<1>4. \A x \in 1 .. b : all[a + x] = ds[x]
  <2> SUFFICES ASSUME NEW x \in 1 .. b PROVE all[a + x] = ds[x]
    OBVIOUS
  <2> HIDE DEF a, b
  <2>1. a + x \in 1 .. a + b /\ ~(a + x <= a) /\ (a + x) - a = x
    BY <1>1
  <2> QED
    BY <2>1, <1>2
<1>5. \A k \in 1 .. a + b : k \in 1 .. a \/ (k - a \in 1 .. b /\ k = a + (k - a))
  <2> HIDE DEF a, b
  <2> QED
    BY <1>1
<1>6. ASSUME NEW k \in 1 .. a + b
      PROVE  ~all[k].EndOfStream /\ Len(S16LEToInt16(all[k].PCM)) = S
  <2>1. CASE k \in 1 .. a
    BY <2>1, <1>3 DEF FullChunks
  <2>2. CASE ~(k \in 1 .. a)
    <3>1. k - a \in 1 .. b /\ all[k] = ds[k - a]
      BY <2>2, <1>4, <1>5
    <3>2. \A x \in 1 .. b : ~ds[x].EndOfStream /\ Len(S16LEToInt16(ds[x].PCM)) = S
      BY DEF FullChunks
    <3> HIDE DEF a, b
    <3> QED
      BY <3>1, <3>2
  <2> QED
    BY <2>1, <2>2
<1>7. FullChunks(all, S)
  BY <1>2, <1>6 DEF FullChunks
<1> QED
  BY <1>1, <1>2, <1>3, <1>4, <1>5, <1>7 DEF all

(* A packet whose samples become out comes to sound chunks and a sound     *)
(* rest.                                                                   *)
Arrives(f, g, ch, e, m, I, R, S, cs, c, out) ==
  LET done == Len(cs) * S
      whole == done + Len(c.buf)
  IN /\ I \in Nat \ {0} /\ R \in Nat \ {0} /\ S \in Nat \ {0}
     /\ Grown(f, g, ch, e, m)
     /\ whole * I - InputIn(f) * R \in 0 .. I - 1
     /\ FullChunks(cs, S)
     /\ c \in [buf : Seq(Samples), cur : Nat] /\ Len(c.buf) < S
     /\ SoundIn(f, ch, I, R, S, cs, c, done)
     /\ out \in Seq(Samples)
     /\ \A q \in 1 .. Len(out) :
          /\ ((whole + q - 1) * I) \div R \in InputIn(f) .. InputIn(f) + m - 1
          /\ out[q] = Interpolated(ToMono(e.pcm, ch), InputIn(f), whole + q - 1, I, R)

(* They stay sound.                                                        *)
LEMMA SoundGrows ==
  ASSUME NEW f, NEW g, NEW ch, NEW e, NEW m, NEW I, NEW R, NEW S, NEW cs, NEW c, NEW out,
         Arrives(f, g, ch, e, m, I, R, S, cs, c, out)
  PROVE  LET psh == Push(c, out, e.ts, S, R)
             list == cs \o psh.chunks
         IN /\ FullChunks(list, S)
            /\ psh.chunker \in [buf : Seq(Samples), cur : Nat] /\ Len(psh.chunker.buf) < S
            /\ Len(list) * S + Len(psh.chunker.buf) = Len(cs) * S + Len(c.buf) + Len(out)
            /\ SoundIn(g, ch, I, R, S, list, psh.chunker, Len(list) * S)
<1> DEFINE psh == Push(c, out, e.ts, S, R)
<1> DEFINE sent == Len(cs)
<1> DEFINE kept == Len(c.buf)
<1> DEFINE new == Len(out)
<1> DEFINE done == sent * S
<1> DEFINE whole == done + kept
<1> DEFINE both == c.buf \o out
<1> DEFINE list == cs \o psh.chunks
<1> DEFINE Ref(n) == RefIn(g, ch, I, R, n)
<1> DEFINE Time(n) == TimeIn(g, I, R, n)
<1>h. /\ I \in Nat \ {0} /\ R \in Nat \ {0} /\ S \in Nat \ {0} /\ S \in Nat
      /\ Grown(f, g, ch, e, m)
      /\ whole * I - InputIn(f) * R \in 0 .. I - 1
      /\ FullChunks(cs, S)
      /\ c \in [buf : Seq(Samples), cur : Nat] /\ kept < S
      /\ SoundIn(f, ch, I, R, S, cs, c, done)
      /\ out \in Seq(Samples)
      /\ \A q \in 1 .. new :
           /\ ((whole + q - 1) * I) \div R \in InputIn(f) .. InputIn(f) + m - 1
           /\ out[q] = Interpolated(ToMono(e.pcm, ch), InputIn(f), whole + q - 1, I, R)
  BY DEF Arrives
<1>a. /\ c.buf \in Seq(Samples) /\ c.cur \in Nat /\ kept \in Nat /\ kept < S /\ new \in Nat
      /\ (c.buf = <<>> <=> kept = 0)
  <2>1. c.buf \in Seq(Samples) /\ c.cur \in Nat
    BY <1>h
  <2> QED
    BY <1>h, <2>1, LenProperties, EmptySeq
<1>b. sent \in Nat /\ done \in Nat /\ whole \in Nat
  <2>1. sent \in Nat
    BY <1>h, LenProperties DEF FullChunks
  <2>2. sent * S \in Nat
    BY <1>h, <2>1, NewSlot
  <2> QED
    BY <2>1, <2>2, <1>a
<1>w. whole = done + kept
  OBVIOUS
<1>p. psh = Push(c, out, e.ts, S, R) /\ both = c.buf \o out /\ list = cs \o psh.chunks
  OBVIOUS
<1>v. done = sent * S
  OBVIOUS
<1>i. /\ S \in Nat \ {0} /\ S \in Nat /\ FullChunks(cs, S)
      /\ c \in [buf : Seq(Samples), cur : Nat] /\ kept < S
      /\ SoundIn(f, ch, I, R, S, cs, c, done)
      /\ out \in Seq(Samples)
  BY <1>h
<1>c. /\ \A n \in 0 .. whole - 1 :
           Ref(n) = RefIn(f, ch, I, R, n) /\ Time(n) = TimeIn(f, I, R, n)
      /\ \A n \in whole .. whole + new - 1 : Time(n) = e.ts
      /\ Len(both) = kept + new
      /\ \A j \in 1 .. kept + new : both[j] = Ref(done + j - 1)
  <2>1. \A j \in 1 .. Len(c.buf) : c.buf[j] = RefIn(f, ch, I, R, done + j - 1)
    BY <1>h DEF SoundIn
  <2> DEFINE phase == whole * I - InputIn(f) * R
  <2>2. /\ phase \in 0 .. I - 1 /\ phase = whole * I - InputIn(f) * R
        /\ whole = done + Len(c.buf)
        /\ \A q \in 1 .. Len(out) :
              /\ ((whole + q - 1) * I) \div R \in InputIn(f) .. InputIn(f) + m - 1
              /\ out[q] = Interpolated(ToMono(e.pcm, ch), InputIn(f), whole + q - 1, I, R)
    BY <1>h
  <2> HIDE DEF phase, whole, done
  <2>3. /\ \A n \in 0 .. whole - 1 :
             /\ RefIn(g, ch, I, R, n) = RefIn(f, ch, I, R, n)
             /\ TimeIn(g, I, R, n) = TimeIn(f, I, R, n)
        /\ \A n \in whole .. whole + Len(out) - 1 : TimeIn(g, I, R, n) = e.ts
        /\ Len(c.buf \o out) = Len(c.buf) + Len(out)
        /\ \A j \in 1 .. Len(c.buf) + Len(out) :
             (c.buf \o out)[j] = RefIn(g, ch, I, R, done + j - 1)
    <3>1. Continues(f, g, ch, e, m, I, R, done, whole, c.buf, out)
      BY <1>h, <1>a, <1>b, <2>1, <2>2 DEF Continues
    <3>2. Continued(f, g, ch, e, I, R, done, whole, c.buf, out)
      BY <3>1, KeptAndNew
    <3> QED
      BY <3>2, Zenon DEF Continued
  <2> QED
    BY <2>3
<1>d. R \in Nat /\ e.ts \in Nat
  BY <1>h DEF Grown, Packets
<1> HIDE DEF psh, sent, kept, new, both, list, Ref, Time, done, whole
<1>1. \A k \in 1 .. sent :
        /\ \A j \in 1 .. Len(S16LEToInt16(cs[k].PCM)) :
             S16LEToInt16(cs[k].PCM)[j] = Ref((k - 1) * S + j - 1)
        /\ cs[k].RTPTimestamp = Time((k - 1) * S)
  <2> SUFFICES ASSUME NEW k \in 1 .. sent
               PROVE  /\ \A j \in 1 .. S :
                           S16LEToInt16(cs[k].PCM)[j] = Ref((k - 1) * S + j - 1)
                      /\ cs[k].RTPTimestamp = Time((k - 1) * S)
    BY <1>i DEF FullChunks, sent
  <2>1. Len(S16LEToInt16(cs[k].PCM)) = S
    BY <1>i DEF FullChunks, sent
  <2>2. \A j \in 1 .. S :
          S16LEToInt16(cs[k].PCM)[j] = RefIn(f, ch, I, R, (k - 1) * S + j - 1)
    BY <1>i, <2>1 DEF SoundIn, sent
  <2>3. cs[k].RTPTimestamp = TimeIn(f, I, R, (k - 1) * S)
    BY <1>i DEF SoundIn, sent
  <2>4. \A n \in 0 .. done - 1 : n \in 0 .. whole - 1
    BY <1>w, <1>a, <1>b
  <2>5. (k - 1) * S \in 0 .. whole - 1 /\ \A j \in 1 .. S : (k - 1) * S + j - 1 \in 0 .. whole - 1
    <3>1. (k - 1) * S \in 0 .. done - 1 /\ \A j \in 1 .. S : (k - 1) * S + j - 1 \in 0 .. done - 1
      <4>1. 1 \in 1 .. S
        BY <1>i
      <4> QED
        BY <1>b, <1>i, <1>v, <4>1, OldSlot
    <3> QED
      BY <2>4, <3>1
  <2>6. Time((k - 1) * S) = TimeIn(f, I, R, (k - 1) * S)
    BY <1>c, <2>5
  <2>7. ASSUME NEW j \in 1 .. S
        PROVE  S16LEToInt16(cs[k].PCM)[j] = Ref((k - 1) * S + j - 1)
    <3> DEFINE n == (k - 1) * S + j - 1
    <3>1. n \in 0 .. whole - 1 /\ S16LEToInt16(cs[k].PCM)[j] = RefIn(f, ch, I, R, n)
      BY <2>2, <2>5
    <3> HIDE DEF n
    <3>2. S16LEToInt16(cs[k].PCM)[j] = Ref(n)
      BY <3>1, <1>c
    <3> QED
      BY <3>2 DEF n
  <2> QED
    BY <2>3, <2>6, <2>7
<1>2. CASE out = <<>>
  <2>1. psh.chunks = <<>> /\ psh.chunker = c
    BY <1>2 DEF Push, psh
  <2>2. list = cs
    BY <1>i, <2>1, ConcatEmptySeq DEF FullChunks, list
  <2>3. new = 0
    BY <1>2, EmptySeq DEF new
  <2>4. \A j \in 1 .. kept : c.buf[j] = Ref(done + j - 1)
    <3> SUFFICES ASSUME NEW j \in 1 .. kept PROVE c.buf[j] = Ref(done + j - 1)
      OBVIOUS
    <3> DEFINE n == done + j - 1
    <3>1. n \in 0 .. whole - 1 /\ c.buf[j] = RefIn(f, ch, I, R, n)
      BY <1>w, <1>a, <1>b, <1>i DEF SoundIn, kept
    <3> HIDE DEF n
    <3>2. c.buf[j] = Ref(n)
      BY <3>1, <1>c
    <3> QED
      BY <3>2 DEF n
  <2>5. c.buf # <<>> => c.cur = Time(done)
    <3>1. c.buf # <<>> => done \in 0 .. whole - 1 /\ c.cur = TimeIn(f, I, R, done)
      BY <1>w, <1>a, <1>b, <1>i DEF SoundIn
    <3> QED
      BY <3>1, <1>c
  <2>6. SoundIn(g, ch, I, R, S, cs, c, done)
    BY <1>1, <2>4, <2>5 DEF SoundIn, sent, kept, Ref, Time
  <2>7. Len(list) * S = done /\ done + kept = whole + new
    BY <1>v, <1>w, <1>a, <1>b, <2>2, <2>3 DEF sent
  <2> QED
    BY <1>v, <1>w, <1>i, <2>1, <2>2, <2>6, <2>7 DEF psh, list, kept, new, whole, done, sent
<1>3. CASE out # <<>>
  <2> DEFINE full == Len(both) \div S
  <2> DEFINE used == full * S
  <2> DEFINE rest == psh.chunker.buf
  <2>1. /\ full \in Nat /\ used <= Len(both) /\ Len(both) < used + S
        /\ psh.chunks \in Seq(Emits) /\ Len(psh.chunks) = full
        /\ \A j \in 1 .. full :
             /\ ~psh.chunks[j].EndOfStream
             /\ psh.chunks[j].RTPTimestamp = IF j = 1 /\ c.buf # <<>> THEN c.cur ELSE e.ts
             /\ Len(S16LEToInt16(psh.chunks[j].PCM)) = S
             /\ \A i \in 1 .. S : S16LEToInt16(psh.chunks[j].PCM)[i] = both[(j - 1) * S + i]
        /\ psh.chunker \in [buf : Seq(Samples), cur : Nat]
        /\ Len(rest) = Len(both) - used
        /\ \A i \in 1 .. Len(both) - used : rest[i] = both[used + i]
        /\ psh.chunker.cur = IF full = 0 /\ c.buf # <<>> THEN c.cur ELSE e.ts
    <3>1. Pushes(c, out, S, e.ts, R, both, psh)
      BY <1>3, <1>d, <1>i, <1>p DEF Pushes, kept
    <3> QED
      BY <3>1, PushStep DEF Pushed, PushedAs
  <2> HIDE DEF full, rest
  <2>2. FullChunks(psh.chunks, S)
    BY <2>1 DEF FullChunks
  <2>3. /\ FullChunks(list, S) /\ Len(list) = sent + full
        /\ \A k \in 1 .. sent : list[k] = cs[k]
        /\ \A x \in 1 .. full : list[sent + x] = psh.chunks[x]
        /\ \A k \in 1 .. sent + full : k \in 1 .. sent \/ (k - sent \in 1 .. full /\ k = sent + (k - sent))
    <3> DEFINE more == psh.chunks
    <3>0. FullChunks(cs, S) /\ FullChunks(more, S) /\ Len(more) = full /\ list = cs \o more
      BY <1>i, <1>p, <2>1, <2>2
    <3> HIDE DEF more
    <3>1. /\ FullChunks(cs \o more, S) /\ Len(cs \o more) = Len(cs) + Len(more)
          /\ Len(cs) \in Nat /\ Len(more) \in Nat
          /\ \A k \in 1 .. Len(cs) : (cs \o more)[k] = cs[k]
          /\ \A x \in 1 .. Len(more) : (cs \o more)[Len(cs) + x] = more[x]
          /\ \A k \in 1 .. Len(cs) + Len(more) :
               \/ k \in 1 .. Len(cs)
               \/ k - Len(cs) \in 1 .. Len(more) /\ k = Len(cs) + (k - Len(cs))
      BY <3>0, FullAppend
    <3>2. Len(cs) = sent /\ Len(more) = full /\ cs \o more = list
      BY <3>0 DEF sent
    <3>3. FullChunks(list, S) /\ Len(list) = sent + full
      BY <3>1, <3>2
    <3>4. \A k \in 1 .. sent : list[k] = cs[k]
      BY <3>1, <3>2
    <3>5. \A x \in 1 .. full : list[sent + x] = more[x]
      BY <3>1, <3>2
    <3>6. \A k \in 1 .. sent + full : k \in 1 .. sent \/ (k - sent \in 1 .. full /\ k = sent + (k - sent))
      BY <3>1, <3>2
    <3> QED
      BY <3>3, <3>4, <3>5, <3>6 DEF more
  <2>4. Len(list) * S = done + used /\ used \in Nat
    BY <1>b, <1>i, <1>v, <2>1, <2>3, NewSlot
  <2> HIDE DEF used
  <2>5. ASSUME NEW x \in 1 .. full, NEW j \in 1 .. S
        PROVE  S16LEToInt16(list[sent + x].PCM)[j] = Ref(((sent + x) - 1) * S + j - 1)
    <3> DEFINE at == (x - 1) * S
    <3>1. ((sent + x) - 1) * S = done + at
      <4>1. x \in Nat
        BY <2>1
      <4> QED
        BY <1>b, <1>i, <1>v, <4>1, NewSlot
    <3>2. at + j - 1 \in 0 .. used - 1 /\ at \in 0 .. used - 1
      BY <1>i, <2>1, OldSlot DEF used
    <3> HIDE DEF at
    <3>3. at + j \in 1 .. kept + new
      BY <1>c, <2>1, <2>4, <3>2
    <3>4. S16LEToInt16(list[sent + x].PCM)[j] = both[at + j]
      BY <2>1, <2>3 DEF at
    <3>5. done + (at + j) - 1 = (done + at) + j - 1
      BY <1>b, <2>4, <3>2
    <3> QED
      BY <3>1, <3>3, <3>4, <3>5, <1>c
  <2>6. ASSUME NEW x \in 1 .. full
        PROVE  list[sent + x].RTPTimestamp = Time(((sent + x) - 1) * S)
    <3> DEFINE at == (x - 1) * S
    <3>1. ((sent + x) - 1) * S = done + at
      <4>1. x \in Nat
        BY <2>1
      <4> QED
        BY <1>b, <1>i, <1>v, <4>1, NewSlot
    <3>2. at \in 0 .. used - 1
      <4>1. 1 \in 1 .. S
        BY <1>i
      <4> QED
        BY <1>i, <2>1, <4>1, OldSlot DEF used
    <3>3. list[sent + x].RTPTimestamp = IF x = 1 /\ c.buf # <<>> THEN c.cur ELSE e.ts
      BY <2>1, <2>3
    <3>4. x = 1 => at = 0
      BY <1>i
    <3>5. x # 1 => at >= S
      <4>1. x # 1 => x - 2 \in Nat
        BY <2>1
      <4>2. \A u, v \in Nat : u * v >= 0
        OBVIOUS
      <4>3. \A u, v \in Int : (u - 1) * v = (u - 2) * v + v
        OBVIOUS
      <4>4. x \in Int /\ S \in Int /\ S \in Nat
        BY <1>i
      <4>5. x # 1 => (x - 2) * S >= 0 /\ (x - 2) * S \in Int
        BY <4>1, <4>2, <4>4
      <4> QED
        BY <4>3, <4>4, <4>5
    <3> HIDE DEF at
    <3>6. CASE x = 1 /\ c.buf # <<>>
      <4>1. done \in 0 .. whole - 1 /\ c.cur = TimeIn(f, I, R, done)
        BY <3>6, <1>w, <1>i, <1>a, <1>b DEF SoundIn
      <4>2. done + at = done
        BY <3>4, <3>6, <1>b
      <4> QED
        BY <3>1, <3>3, <3>6, <4>1, <4>2, <1>c
    <3>7. CASE ~(x = 1 /\ c.buf # <<>>)
      <4>1. done + at \in whole .. whole + new - 1
        <5>1. kept <= at
          <6>1. x = 1 => kept = 0
            BY <1>a, <3>7
          <6>2. at \in Int /\ kept \in Int /\ S \in Int
            BY <1>a, <1>i, <2>4, <3>2
          <6> QED
            BY <1>a, <3>4, <3>5, <6>1, <6>2
        <5>2. used <= kept + new
          BY <1>c, <2>1
        <5>3. /\ at \in Int /\ at < used /\ used \in Int
              /\ kept \in Int /\ new \in Int /\ done \in Int
          BY <1>a, <1>b, <2>4, <3>2
        <5> HIDE DEF at, used, full, rest
        <5> QED
          BY <1>w, <5>1, <5>2, <5>3
      <4> QED
        BY <3>1, <3>3, <3>7, <4>1, <1>c
    <3> QED
      BY <3>6, <3>7
  <2>7. ASSUME NEW i \in 1 .. Len(both) - used
        PROVE  rest[i] = Ref((done + used) + i - 1)
    <3>1. used + i \in 1 .. kept + new /\ done + (used + i) - 1 = (done + used) + i - 1
      BY <1>w, <1>a, <1>b, <1>c, <2>1, <2>4
    <3> QED
      BY <2>1, <3>1, <1>c
  <2>8. ASSUME rest # <<>> PROVE psh.chunker.cur = Time(done + used)
    <3>1. used < kept + new
      <4>1. rest \in Seq(Samples)
        BY <2>1 DEF rest
      <4>2. Len(rest) # 0 /\ Len(rest) \in Nat
        BY <2>8, <4>1, EmptySeq, LenProperties
      <4> QED
        BY <4>2, <1>a, <1>c, <2>1, <2>4
    <3>2. full = 0 => used = 0
      BY <1>i DEF used
    <3>3. full # 0 => used >= S
      <4>1. full # 0 => full - 1 \in Nat
        BY <2>1
      <4>2. \A u, v \in Nat : u * v >= 0
        OBVIOUS
      <4>3. \A u, v \in Int : u * v = (u - 1) * v + v
        OBVIOUS
      <4>4. full \in Int /\ S \in Int /\ S \in Nat
        BY <1>i, <2>1
      <4>5. full # 0 => (full - 1) * S >= 0 /\ (full - 1) * S \in Int
        BY <4>1, <4>2, <4>4
      <4> QED
        BY <4>3, <4>4, <4>5 DEF used
    <3>4. CASE full = 0 /\ c.buf # <<>>
      <4>1. done \in 0 .. whole - 1 /\ c.cur = TimeIn(f, I, R, done)
        BY <3>4, <1>w, <1>i, <1>a, <1>b DEF SoundIn
      <4>2. done + used = done
        BY <3>2, <3>4, <1>b
      <4> QED
        BY <2>1, <3>4, <4>1, <4>2, <1>c
    <3>5. CASE ~(full = 0 /\ c.buf # <<>>)
      <4>0. used >= kept
        BY <1>a, <2>4, <3>2, <3>3, <3>5, <1>i
      <4>1. done + used \in whole .. whole + new - 1
        BY <1>w, <1>a, <1>b, <2>4, <3>1, <4>0
      <4> QED
        BY <2>1, <3>5, <4>1, <1>c
    <3> QED
      BY <3>4, <3>5
  <2>9. SoundIn(g, ch, I, R, S, list, psh.chunker, done + used)
    <3>1. ASSUME NEW k \in 1 .. sent + full
          PROVE  /\ \A j \in 1 .. Len(S16LEToInt16(list[k].PCM)) :
                      S16LEToInt16(list[k].PCM)[j] = Ref((k - 1) * S + j - 1)
                 /\ list[k].RTPTimestamp = Time((k - 1) * S)
      <4>1. CASE k \in 1 .. sent
        BY <4>1, <1>1, <2>3
      <4>2. CASE ~(k \in 1 .. sent)
        <5> DEFINE x == k - sent
        <5>1. x \in 1 .. full /\ k = sent + x
          BY <4>2, <2>3
        <5>2. Len(S16LEToInt16(list[k].PCM)) = S
          BY <2>3 DEF FullChunks
        <5> HIDE DEF x
        <5> QED
          BY <5>1, <5>2, <2>5, <2>6
      <4> QED
        BY <4>1, <4>2
    <3>2. \A i \in 1 .. Len(rest) : rest[i] = Ref((done + used) + i - 1)
      BY <2>1, <2>7
    <3> QED
      BY <2>3, <2>8, <3>1, <3>2 DEF SoundIn, Ref, Time, rest
  <2>10. Len(rest) < S /\ done + used + Len(rest) = whole + new
    <3>1. Len(both) < used + S /\ Len(rest) = Len(both) - used /\ Len(both) = kept + new
      BY <1>c, <2>1
    <3> QED
      BY <1>w, <1>a, <1>b, <1>i, <2>4, <3>1
  <2>11. done + used \in Nat
    BY <1>b, <2>4
  <2> QED
    <3>1. Len(list) * S + Len(rest) = done + kept + new
      BY <1>w, <1>a, <1>b, <2>4, <2>10
    <3> QED
      BY <2>1, <2>3, <2>4, <2>9, <2>10, <3>1 DEF psh, list, new, rest, kept, done, sent
<1> QED
  BY <1>2, <1>3
-----------------------------------------------------------------------------
(* The pipeline in the states of the system.                               *)

TimeOf(n) == fed[PacketOf(At(n))].ts

LEMMA Linked ==
  /\ Input = InputIn(fed)
  /\ \A n : RefSample(n) = RefIn(fed, cfg.inCh, cfg.inRate, cfg.outRate, n)
  /\ \A n : TimeOf(n) = TimeIn(fed, cfg.inRate, cfg.outRate, n)
<1>1. Input = InputIn(fed)
  BY DEF Input, InputIn
<1>2. \A k : PacketStart(k) = StartIn(fed, k)
  BY DEF PacketStart, StartIn
<1>3. \A i : PacketOf(i) = OwnerIn(fed, i)
  <2> SUFFICES ASSUME NEW i PROVE PacketOf(i) = OwnerIn(fed, i)
    OBVIOUS
  <2>1. \A k : (PacketStart(k) < i /\ i <= fed[k].upto) <=> Holds(fed, k, i)
    BY <1>2 DEF Holds
  <2> QED
    BY <2>1 DEF PacketOf, OwnerIn
<1>4. \A i : InputSample(i) = SampleIn(fed, cfg.inCh, i)
  BY <1>2, <1>3 DEF InputSample, SampleIn
<1>5. Ends = EndsIn(fed)
  BY DEF Ends, EndsIn
<1>6. \A n : At(n) = AtIn(n, cfg.inRate, cfg.outRate)
  BY DEF At, AtIn
<1>7. \A n : RefSample(n) = RefIn(fed, cfg.inCh, cfg.inRate, cfg.outRate, n)
  BY <1>4, <1>5, <1>6 DEF RefSample, RefIn
<1>8. \A n : TimeOf(n) = TimeIn(fed, cfg.inRate, cfg.outRate, n)
  BY <1>3, <1>6 DEF TimeOf, TimeIn
<1> QED
  BY <1>1, <1>7, <1>8

(* As many samples as the input so far asks for.                           *)
LEMMA CountIs ==
  ASSUME NEW W \in Nat, NEW N \in Nat, NEW I \in Nat \ {0}, NEW R \in Nat \ {0},
         W * I - N * R \in 0 .. I - 1
  PROVE  (N * R + I - 1) \div I = W
<1> DEFINE x == N * R
<1> DEFINE y == W * I
<1> DEFINE a == x + I - 1
<1> DEFINE r == I - 1 - (y - x)
<1>1. x \in Int /\ y \in Int /\ y - x \in 0 .. I - 1 /\ y = I * W
  OBVIOUS
<1> HIDE DEF x, y
<1>2. a \in Int /\ r \in 0 .. I - 1 /\ a = I * W + r
  BY <1>1
<1> HIDE DEF a, r
<1>3. a \div I = W
  BY <1>2, DivModUnique
<1> QED
  BY <1>3 DEF a, x

(* The properties, of an input, the chunks and what is kept.               *)
CountOf(n, I, R) == (n * R + I - 1) \div I

BeginIn(f, I, R, S, cs, k) ==
  IF cs[k].EndOfStream THEN (CountOf(InputIn(f), I, R) \div S) * S ELSE (k - 1) * S

FilledIn(f, I, R, S) ==
  IF f = <<>> THEN 0 ELSE CountOf(StartIn(f, Len(f)), I, R) \div S

(* A chunk k lies on the reference, and ends where the output does if it   *)
(* was flushed.                                                            *)
PlacedChunk(f, ch, I, R, S, cs, k) ==
  LET pcm == S16LEToInt16(cs[k].PCM)
      begin == BeginIn(f, I, R, S, cs, k)
  IN /\ \A j \in DOMAIN pcm : pcm[j] = RefIn(f, ch, I, R, begin + j - 1)
     /\ begin + Len(pcm) <= CountOf(InputIn(f), I, R)
     /\ cs[k].EndOfStream => begin + Len(pcm) = CountOf(InputIn(f), I, R)

TimedChunk(f, I, R, S, cs, k) ==
  /\ \/ Len(cs[k].PCM) = 2 * S
     \/ cs[k].EndOfStream /\ k = Len(cs)
  /\ cs[k].RTPTimestamp = TimeIn(f, I, R, BeginIn(f, I, R, S, cs, k))

AudioIn(f, ch, I, R, S, cs, buf, up) ==
  /\ \A k \in DOMAIN cs : PlacedChunk(f, ch, I, R, S, cs, k)
  /\ \A k \in 1 .. FilledIn(f, I, R, S) : k \in DOMAIN cs /\ ~cs[k].EndOfStream
  /\ \A j \in DOMAIN buf : buf[j] = RefIn(f, ch, I, R, Len(cs) * S + j - 1)
  /\ up => Len(cs) * S + Len(buf) = CountOf(InputIn(f), I, R)

TimedIn(f, I, R, S, cs) == \A k \in DOMAIN cs : TimedChunk(f, I, R, S, cs, k)

LEMMA SameProperties ==
  /\ AudioIsReference <=> AudioIn(fed, cfg.inCh, cfg.inRate, cfg.outRate, ChunkSize, chunks,
                                  pipe.chunker.buf, open)
  /\ ChunksAreTimed <=> TimedIn(fed, cfg.inRate, cfg.outRate, ChunkSize, chunks)
<1>1. \A n : OutFor(n) = CountOf(n, cfg.inRate, cfg.outRate)
  BY DEF OutFor, CountOf
<1>2. RefCount = CountOf(InputIn(fed), cfg.inRate, cfg.outRate)
  BY <1>1, Linked DEF RefCount
<1>3. \A k : PcmOf(k) = S16LEToInt16(chunks[k].PCM)
  BY DEF PcmOf
<1>4. \A n : fed[PacketOf(At(n))].ts = TimeIn(fed, cfg.inRate, cfg.outRate, n)
  BY Linked DEF TimeOf
<1>5. \A k : ChunkStart(k) = BeginIn(fed, cfg.inRate, cfg.outRate, ChunkSize, chunks, k)
  BY <1>2 DEF ChunkStart, BeginIn
<1>6. \A n : RefSample(n) = RefIn(fed, cfg.inCh, cfg.inRate, cfg.outRate, n)
  BY Linked
<1>7. Filled = FilledIn(fed, cfg.inRate, cfg.outRate, ChunkSize)
  <2>1. PacketStart(Len(fed)) = StartIn(fed, Len(fed))
    BY DEF PacketStart, StartIn
  <2> QED
    BY <1>1, <2>1 DEF Filled, FilledIn
<1>8. ChunksAreTimed <=> TimedIn(fed, cfg.inRate, cfg.outRate, ChunkSize, chunks)
  BY <1>4, <1>5 DEF ChunksAreTimed, TimedIn, TimedChunk
<1>9. ASSUME NEW k
      PROVE  PlacedChunk(fed, cfg.inCh, cfg.inRate, cfg.outRate, ChunkSize, chunks, k)
               <=> /\ \A j \in DOMAIN PcmOf(k) : PcmOf(k)[j] = RefSample(ChunkStart(k) + j - 1)
                   /\ ChunkEnd(k) <= RefCount
                   /\ chunks[k].EndOfStream => ChunkEnd(k) = RefCount
  BY <1>2, <1>3, <1>5, <1>6 DEF PlacedChunk, ChunkEnd
<1>10. AudioIsReference <=> AudioIn(fed, cfg.inCh, cfg.inRate, cfg.outRate, ChunkSize, chunks,
                                    pipe.chunker.buf, open)
  BY <1>2, <1>6, <1>7, <1>9 DEF AudioIsReference, AudioIn
<1> QED
  BY <1>8, <1>10

(* More to divide, no smaller a quotient.                                  *)
LEMMA DivOrder ==
  ASSUME NEW a \in Nat, NEW b \in Nat, a <= b, NEW w \in Nat \ {0}
  PROVE  a \div w <= b \div w /\ a \div w \in Nat /\ b \div w \in Nat
<1> DEFINE p == a \div w
<1> DEFINE q == b \div w
<1> DEFINE r == a % w
<1> DEFINE s == b % w
<1>1. p \in Int /\ r \in 0 .. w - 1 /\ a = w * p + r
  BY DivMod
<1>2. q \in Int /\ s \in 0 .. w - 1 /\ b = w * q + s
  BY DivMod
<1> HIDE DEF p, q, r, s
<1>3. p <= q
  <2> SUFFICES ASSUME p >= q + 1 PROVE FALSE
    BY <1>1, <1>2
  <2>1. w * (p - q) >= w
    <3>1. p - q >= 1
      BY <1>1, <1>2
    <3>2. p - q \in Nat
      BY <3>1, <1>1, <1>2
    <3>3. \A x \in Nat : x >= 1 => w * x >= w
      OBVIOUS
    <3> QED
      BY <3>1, <3>2, <3>3
  <2>2. w * (p - q) = w * p - w * q
    BY <1>1, <1>2
  <2> QED
    BY <1>1, <1>2, <2>1, <2>2
<1>4. p \in Nat /\ q \in Nat
  BY DEF p, q
<1> QED
  BY <1>3, <1>4 DEF p, q

Runs(f, ch, I, R, S, cs, c) ==
  /\ I \in Nat \ {0} /\ R \in Nat \ {0} /\ S \in Nat \ {0}
  /\ FedSeq(f, ch) /\ FullChunks(cs, S)
  /\ c \in [buf : Seq(Samples), cur : Nat] /\ Len(c.buf) < S
  /\ (Len(cs) * S + Len(c.buf)) * I - InputIn(f) * R \in 0 .. I - 1
  /\ SoundIn(f, ch, I, R, S, cs, c, Len(cs) * S)

LEMMA RunsFacts ==
  ASSUME NEW f, NEW ch, NEW I, NEW R, NEW S, NEW cs, NEW c, Runs(f, ch, I, R, S, cs, c)
  PROVE  /\ Len(cs) \in Nat /\ Len(cs) * S \in Nat
         /\ DOMAIN cs = 1 .. Len(cs) /\ (cs = <<>> <=> Len(cs) = 0)
         /\ c.buf \in Seq(Samples) /\ Len(c.buf) \in Nat /\ Len(c.buf) < S /\ S \in Nat
         /\ DOMAIN c.buf = 1 .. Len(c.buf) /\ (c.buf = <<>> <=> Len(c.buf) = 0)
         /\ CountOf(InputIn(f), I, R) = Len(cs) * S + Len(c.buf)
         /\ CountOf(InputIn(f), I, R) \div S = Len(cs)
<1>a. /\ I \in Nat \ {0} /\ R \in Nat \ {0} /\ S \in Nat \ {0} /\ S \in Nat
      /\ FedSeq(f, ch) /\ FullChunks(cs, S)
      /\ c \in [buf : Seq(Samples), cur : Nat] /\ Len(c.buf) < S
  BY DEF Runs
<1>1. cs \in Seq(Emits) /\ c.buf \in Seq(Samples)
  BY <1>a DEF FullChunks
<1>2. /\ Len(cs) \in Nat /\ DOMAIN cs = 1 .. Len(cs) /\ (cs = <<>> <=> Len(cs) = 0)
      /\ Len(c.buf) \in Nat /\ DOMAIN c.buf = 1 .. Len(c.buf) /\ (c.buf = <<>> <=> Len(c.buf) = 0)
  BY <1>1, LenProperties, EmptySeq
<1>3. Len(cs) * S \in Nat
  BY <1>a, <1>2, NewSlot
<1> DEFINE whole == Len(cs) * S + Len(c.buf)
<1>4. CountOf(InputIn(f), I, R) = whole
  <2> DEFINE input == InputIn(f)
  <2>0. InputIn(f) \in Nat
    BY <1>a, FedFacts
  <2>1. whole \in Nat /\ input \in Nat
    BY <1>2, <1>3, <2>0
  <2>2. whole * I - input * R \in 0 .. I - 1
    BY DEF Runs
  <2> HIDE DEF whole, input
  <2>3. (input * R + I - 1) \div I = whole
    BY <2>1, <2>2, <1>a, CountIs
  <2> QED
    BY <2>3 DEF input, CountOf
<1>5. whole \div S = Len(cs)
  <2> DEFINE q == Len(cs)
  <2> DEFINE r == Len(c.buf)
  <2>1. q \in Int /\ r \in 0 .. S - 1 /\ q * S \in Nat
    BY <1>a, <1>2, <1>3
  <2>2. whole = q * S + r
    OBVIOUS
  <2> HIDE DEF whole, q, r
  <2>3. whole \in Int /\ whole = S * q + r
    BY <2>1, <2>2, <1>a
  <2>4. whole \div S = q
    BY <2>1, <2>3, <1>a, DivModUnique
  <2> QED
    BY <2>4 DEF q
<1> QED
  BY <1>a, <1>1, <1>2, <1>3, <1>4, <1>5

(* The chunks that were full before the last packet are out.               *)
LEMMA FilledAreOut ==
  ASSUME NEW f, NEW ch, NEW I, NEW R, NEW S, NEW cs, NEW c, Runs(f, ch, I, R, S, cs, c)
  PROVE  FilledIn(f, I, R, S) \in Nat /\ FilledIn(f, I, R, S) <= Len(cs)
<1>a. I \in Nat \ {0} /\ R \in Nat \ {0} /\ S \in Nat \ {0} /\ FedSeq(f, ch)
  BY DEF Runs
<1>b. Len(cs) \in Nat /\ CountOf(InputIn(f), I, R) \div S = Len(cs)
  BY RunsFacts
<1>1. CASE f = <<>>
  BY <1>1, <1>b DEF FilledIn
<1>2. CASE f # <<>>
  <2> DEFINE old == StartIn(f, Len(f))
  <2> DEFINE now == InputIn(f)
  <2>1. old \in Nat /\ now \in Nat /\ old <= now
    <3>1. Len(f) \in 1 .. Len(f) /\ InputIn(f) = f[Len(f)].upto /\ InputIn(f) \in Nat
      BY <1>2, <1>a, FedFacts DEF InputIn
    <3>2. StartIn(f, Len(f)) \in Nat
      BY <3>1, <1>a, FedFacts
    <3>3. CASE Len(f) = 1
      BY <3>1, <3>2, <3>3 DEF StartIn
    <3>4. CASE Len(f) # 1
      <4>1. Len(f) - 1 \in 1 .. Len(f)
        <5> DEFINE l == Len(f)
        <5>1. l \in Nat /\ l \in 1 .. l /\ l # 1
          BY <1>a, <3>1, <3>4, FedFacts
        <5> HIDE DEF l
        <5>2. l - 1 \in 1 .. l
          BY <5>1
        <5> QED
          BY <5>2 DEF l
      <4>2. f[Len(f) - 1].upto <= InputIn(f)
        BY <4>1, <1>a, FedFacts
      <4> QED
        BY <3>1, <3>2, <3>4, <4>2 DEF StartIn
    <3> QED
      BY <3>3, <3>4
  <2> HIDE DEF old, now
  <2>2. old * R + I - 1 \in Nat /\ now * R + I - 1 \in Nat /\ old * R + I - 1 <= now * R + I - 1
    <3>1. old * R \in Nat /\ now * R \in Nat /\ (now - old) * R \in Nat
      <4>1. now - old \in Nat /\ R \in Nat
        BY <2>1, <1>a
      <4>2. \A x, y \in Nat : x * y \in Nat
        OBVIOUS
      <4> QED
        BY <2>1, <4>1, <4>2
    <3>2. (now - old) * R = now * R - old * R
      BY <2>1, <1>a
    <3> QED
      BY <3>1, <3>2, <1>a
  <2>3. /\ CountOf(old, I, R) \in Nat /\ CountOf(now, I, R) \in Nat
        /\ CountOf(old, I, R) <= CountOf(now, I, R)
    BY <2>2, <1>a, DivOrder DEF CountOf
  <2>4. CountOf(old, I, R) \div S \in Nat /\ CountOf(old, I, R) \div S <= CountOf(now, I, R) \div S
    BY <2>3, <1>a, DivOrder
  <2> QED
    BY <1>2, <1>b, <2>4 DEF FilledIn, old, now
<1> QED
  BY <1>1, <1>2

(* Each of these full chunks is as it should be, in any list that has it.  *)
LEMMA FullIsPlaced ==
  ASSUME NEW f, NEW ch, NEW I, NEW R, NEW S, NEW cs, NEW c, Runs(f, ch, I, R, S, cs, c),
         NEW k \in 1 .. Len(cs), NEW ds, ds[k] = cs[k]
  PROVE  /\ PlacedChunk(f, ch, I, R, S, ds, k) /\ TimedChunk(f, I, R, S, ds, k)
         /\ ~ds[k].EndOfStream
<1>a. /\ SoundIn(f, ch, I, R, S, cs, c, Len(cs) * S) /\ FullChunks(cs, S) /\ S \in Nat \ {0}
  BY DEF Runs
<1>b. /\ Len(cs) \in Nat /\ Len(cs) * S \in Nat /\ Len(c.buf) \in Nat
      /\ CountOf(InputIn(f), I, R) = Len(cs) * S + Len(c.buf)
  BY RunsFacts
<1> DEFINE pcm == S16LEToInt16(cs[k].PCM)
<1>1. cs[k] \in Emits /\ Len(pcm) = S /\ ~cs[k].EndOfStream
  BY <1>a, ElementOfSeq DEF FullChunks
<1>2. DOMAIN pcm = 1 .. Len(pcm) /\ Len(cs[k].PCM) = 2 * S
  <2>1. /\ S16LEToInt16(cs[k].PCM) \in Seq(Samples)
        /\ Len(cs[k].PCM) = 2 * Len(S16LEToInt16(cs[k].PCM))
    BY <1>1, Chunked
  <2> QED
    BY <1>1, <2>1, LenProperties
<1>3. BeginIn(f, I, R, S, ds, k) = (k - 1) * S
  BY <1>1 DEF BeginIn
<1>4. (k - 1) * S + S <= CountOf(InputIn(f), I, R)
  <2> DEFINE done == Len(cs) * S
  <2> DEFINE begin == (k - 1) * S
  <2>1. begin + S - 1 \in 0 .. done - 1
    BY <1>a, <1>b, OldSlot
  <2>2. begin \in Int /\ done \in Nat
    BY <1>a, <1>b
  <2> HIDE DEF done, begin
  <2>3. begin + S <= done + Len(c.buf)
    BY <2>1, <2>2, <1>a, <1>b
  <2> QED
    BY <2>3, <1>b DEF done, begin
<1>5. \A j \in DOMAIN pcm : pcm[j] = RefIn(f, ch, I, R, (k - 1) * S + j - 1)
  BY <1>a, <1>2 DEF SoundIn
<1>6. cs[k].RTPTimestamp = TimeIn(f, I, R, (k - 1) * S)
  BY <1>a DEF SoundIn
<1>7. PlacedChunk(f, ch, I, R, S, ds, k)
  BY <1>1, <1>3, <1>4, <1>5 DEF PlacedChunk
<1>8. TimedChunk(f, I, R, S, ds, k)
  BY <1>2, <1>3, <1>6 DEF TimedChunk
<1> QED
  BY <1>1, <1>7, <1>8

LEMMA RunningAudio ==
  ASSUME NEW f, NEW ch, NEW I, NEW R, NEW S, NEW cs, NEW c, Runs(f, ch, I, R, S, cs, c)
  PROVE  AudioIn(f, ch, I, R, S, cs, c.buf, TRUE) /\ TimedIn(f, I, R, S, cs)
<1>a. /\ Len(cs) \in Nat /\ DOMAIN cs = 1 .. Len(cs) /\ DOMAIN c.buf = 1 .. Len(c.buf)
      /\ CountOf(InputIn(f), I, R) = Len(cs) * S + Len(c.buf)
  BY RunsFacts
<1>b. SoundIn(f, ch, I, R, S, cs, c, Len(cs) * S)
  BY DEF Runs
<1>1. \A k \in DOMAIN cs :
        /\ PlacedChunk(f, ch, I, R, S, cs, k) /\ TimedChunk(f, I, R, S, cs, k)
        /\ ~cs[k].EndOfStream
  BY <1>a, FullIsPlaced
<1>2. \A k \in 1 .. FilledIn(f, I, R, S) : k \in DOMAIN cs /\ ~cs[k].EndOfStream
  <2>1. FilledIn(f, I, R, S) \in Nat /\ FilledIn(f, I, R, S) <= Len(cs)
    BY FilledAreOut
  <2> QED
    BY <2>1, <1>a, <1>1
<1>3. \A j \in DOMAIN c.buf : c.buf[j] = RefIn(f, ch, I, R, Len(cs) * S + j - 1)
  BY <1>a, <1>b DEF SoundIn
<1> QED
  BY <1>a, <1>1, <1>2, <1>3 DEF AudioIn, TimedIn

(* The session is closed when the chunks ps of cs are out, which has those *)
(* filled before the last packet, and the flush leaves ds.                 *)
Stops(f, ch, I, R, S, cs, c, ps, ds) ==
  /\ Runs(f, ch, I, R, S, cs, c)
  /\ ps \in Seq(Emits) /\ Len(ps) <= Len(cs)
  /\ \A k \in 1 .. Len(ps) : ps[k] = cs[k]
  /\ FilledIn(f, I, R, S) <= Len(ps)
  /\ \/ ds = ps
     \/ c.buf # <<>> /\ ds = Append(ps, Emit(c.buf, c.cur, R, TRUE))

LEMMA StopIsSound ==
  ASSUME NEW f, NEW ch, NEW I, NEW R, NEW S, NEW cs, NEW c, NEW ps, NEW ds,
         Stops(f, ch, I, R, S, cs, c, ps, ds)
  PROVE  /\ AudioIn(f, ch, I, R, S, ds, <<>>, FALSE) /\ TimedIn(f, I, R, S, ds)
         /\ ds \in Seq(Emits)
         /\ \A k \in DOMAIN ds : ds[k].EndOfStream => k = Len(ds)
<1> DEFINE l == Len(ps)
<1> DEFINE last == Emit(c.buf, c.cur, R, TRUE)
<1>a. /\ Runs(f, ch, I, R, S, cs, c) /\ ps \in Seq(Emits) /\ l <= Len(cs)
      /\ \A k \in 1 .. l : ps[k] = cs[k]
      /\ FilledIn(f, I, R, S) <= l
      /\ ds = ps \/ (c.buf # <<>> /\ ds = Append(ps, last))
  BY DEF Stops
<1>b. /\ l \in Nat /\ Len(cs) \in Nat /\ DOMAIN ps = 1 .. l
      /\ FilledIn(f, I, R, S) \in Nat
  BY <1>a, RunsFacts, FilledAreOut, LenProperties
<1>c. /\ Len(cs) * S \in Nat /\ S \in Nat
      /\ c.buf \in Seq(Samples) /\ Len(c.buf) \in Nat /\ DOMAIN c.buf = 1 .. Len(c.buf)
      /\ CountOf(InputIn(f), I, R) = Len(cs) * S + Len(c.buf)
      /\ CountOf(InputIn(f), I, R) \div S = Len(cs)
  BY <1>a, RunsFacts
<1>e. /\ SoundIn(f, ch, I, R, S, cs, c, Len(cs) * S)
      /\ c.cur \in Nat /\ R \in Nat /\ TRUE \in BOOLEAN
  BY <1>a DEF Runs
<1>d. DOMAIN <<>> = {}
  OBVIOUS
<1>1. ASSUME NEW k \in 1 .. l, ds[k] = ps[k]
      PROVE  /\ PlacedChunk(f, ch, I, R, S, ds, k) /\ TimedChunk(f, I, R, S, ds, k)
             /\ ~ds[k].EndOfStream
  <2>1. k \in 1 .. Len(cs) /\ ds[k] = cs[k]
    BY <1>1, <1>a, <1>b
  <2> HIDE DEF l, last
  <2> QED
    BY <2>1, <1>a, FullIsPlaced
<1>2. CASE ds = ps
  <2>1. \A k \in DOMAIN ds :
          /\ PlacedChunk(f, ch, I, R, S, ds, k) /\ TimedChunk(f, I, R, S, ds, k)
          /\ ~ds[k].EndOfStream
    BY <1>1, <1>2, <1>b
  <2>2. \A k \in 1 .. FilledIn(f, I, R, S) : k \in DOMAIN ds
    BY <1>2, <1>a, <1>b
  <2> QED
    BY <2>1, <2>2, <1>2, <1>a, <1>d DEF AudioIn, TimedIn
<1>3. CASE c.buf # <<>> /\ ds = Append(ps, last)
  <2>1. last \in Emits /\ S16LEToInt16(last.PCM) = c.buf /\ last.RTPTimestamp = c.cur
    BY <1>c, <1>e, EmitFacts
  <2>2. last.EndOfStream
    BY DEF Emit
  <2> HIDE DEF last
  <2>3. /\ ds \in Seq(Emits) /\ Len(ds) = l + 1 /\ ds[l + 1] = last
        /\ \A k \in 1 .. l : ds[k] = ps[k]
    BY <1>3, <1>a, <2>1, AppendProperties
  <2>4. DOMAIN ds = 1 .. l + 1
    BY <2>3, LenProperties
  <2> HIDE DEF l
  <2>5. BeginIn(f, I, R, S, ds, l + 1) = Len(cs) * S
    BY <2>2, <2>3, <1>c DEF BeginIn
  <2>6. PlacedChunk(f, ch, I, R, S, ds, l + 1)
    <3>1. \A j \in DOMAIN c.buf : c.buf[j] = RefIn(f, ch, I, R, Len(cs) * S + j - 1)
      BY <1>c, <1>e DEF SoundIn
    <3> DEFINE all == CountOf(InputIn(f), I, R)
    <3> DEFINE done == Len(cs) * S
    <3>2. done + Len(c.buf) = all /\ done \in Nat
      BY <1>c, Zenon
    <3> HIDE DEF all, done
    <3>3. done + Len(c.buf) <= all
      BY <3>2
    <3> QED
      BY <2>1, <2>3, <2>5, <3>1, <3>2, <3>3 DEF PlacedChunk, all, done
  <2>7. TimedChunk(f, I, R, S, ds, l + 1)
    <3>1. c.cur = TimeIn(f, I, R, Len(cs) * S)
      BY <1>3, <1>e DEF SoundIn
    <3> QED
      BY <2>1, <2>2, <2>3, <2>5, <3>1 DEF TimedChunk
  <2>8. \A k \in 1 .. l + 1 : k \in 1 .. l \/ k = l + 1
    BY <1>b
  <2>9. ASSUME NEW k \in DOMAIN ds
        PROVE  /\ PlacedChunk(f, ch, I, R, S, ds, k) /\ TimedChunk(f, I, R, S, ds, k)
               /\ ds[k].EndOfStream => k = Len(ds)
    <3>1. CASE k \in 1 .. l
      BY <3>1, <2>3, <1>1
    <3>2. CASE k = l + 1
      BY <3>2, <2>3, <2>6, <2>7
    <3> QED
      BY <3>1, <3>2, <2>4, <2>8
  <2>10. \A k \in 1 .. FilledIn(f, I, R, S) : k \in DOMAIN ds /\ ~ds[k].EndOfStream
    <3>1. \A k \in 1 .. FilledIn(f, I, R, S) : k \in 1 .. l /\ k \in 1 .. l + 1
      BY <1>a, <1>b
    <3> QED
      BY <3>1, <2>3, <2>4, <1>1
  <2> QED
    BY <2>3, <2>9, <2>10, <1>d DEF AudioIn, TimedIn
<1> QED
  BY <1>a, <1>2, <1>3

(* Once the session is closed nothing changes any more.                    *)
Flushed ==
  /\ pipe.chunker.buf = <<>>
  /\ AudioIn(fed, cfg.inCh, cfg.inRate, cfg.outRate, ChunkSize, chunks, <<>>, FALSE)
  /\ TimedIn(fed, cfg.inRate, cfg.outRate, ChunkSize, chunks)
  /\ \A k \in DOMAIN chunks : chunks[k].EndOfStream => k = Len(chunks)

Stream ==
  /\ FedOK /\ chunks \in Seq(Emits)
  /\ pipe \in [phase : Nat, chunker : [buf : Seq(Samples), cur : Nat]]
  /\ pipe.phase \in 0 .. cfg.inRate - 1 /\ Len(pipe.chunker.buf) < ChunkSize
  /\ open =>
       /\ Runs(fed, cfg.inCh, cfg.inRate, cfg.outRate, ChunkSize, chunks, pipe.chunker)
       /\ (Len(chunks) * ChunkSize + Len(pipe.chunker.buf)) * cfg.inRate
            - InputIn(fed) * cfg.outRate = pipe.phase
  /\ ~open => Flushed

LEMMA StreamInit == MediaInit => Stream
<1> SUFFICES ASSUME MediaInit PROVE Stream
  OBVIOUS
<1>1. /\ cfg \in Configs /\ open = TRUE /\ fed = <<>> /\ chunks = <<>>
      /\ pipe = [phase |-> 0, chunker |-> [buf |-> <<>>, cur |-> 0]]
  BY DEF MediaInit, EmptyChunker
<1>2. /\ cfg.inRate \in Nat \ {0} /\ cfg.outRate \in Nat \ {0} /\ ChunkSize \in Nat \ {0}
  BY <1>1, ConfigFacts
<1>3. Len(<<>>) = 0 /\ \A A : <<>> \in Seq(A)
  BY EmptySeq
<1>4. FedOK
  <2>1. InputIn(fed) = 0
    BY <1>1 DEF InputIn
  <2> QED
    BY <1>1, <1>3, <2>1 DEF FedOK, FedSeq
<1>5. pipe.phase = 0 /\ pipe.chunker.buf = <<>> /\ pipe.chunker = [buf |-> <<>>, cur |-> 0]
  BY <1>1
<1>6. pipe \in [phase : Nat, chunker : [buf : Seq(Samples), cur : Nat]]
  BY <1>1, <1>3
<1>7. FullChunks(chunks, ChunkSize)
  BY <1>1, <1>3 DEF FullChunks
<1>8. (Len(chunks) * ChunkSize + Len(pipe.chunker.buf)) * cfg.inRate - InputIn(fed) * cfg.outRate
        = pipe.phase
  <2>1. InputIn(fed) = 0 /\ Len(chunks) = 0 /\ Len(pipe.chunker.buf) = 0
    BY <1>1, <1>3, <1>5 DEF InputIn
  <2>2. \A x, y, z \in Nat : (0 * x + 0) * y - 0 * z = 0
    OBVIOUS
  <2> QED
    BY <1>2, <1>5, <2>1, <2>2
<1>9. SoundIn(fed, cfg.inCh, cfg.inRate, cfg.outRate, ChunkSize, chunks, pipe.chunker,
              Len(chunks) * ChunkSize)
  BY <1>1, <1>3, <1>5 DEF SoundIn
<1>10. pipe.phase \in 0 .. cfg.inRate - 1 /\ Len(pipe.chunker.buf) < ChunkSize
  BY <1>2, <1>3, <1>5
<1>11. Runs(fed, cfg.inCh, cfg.inRate, cfg.outRate, ChunkSize, chunks, pipe.chunker)
  BY <1>2, <1>4, <1>6, <1>7, <1>8, <1>9, <1>10 DEF Runs, FedOK
<1> QED
  BY <1>1, <1>3, <1>4, <1>6, <1>7, <1>8, <1>9, <1>10, <1>11 DEF Stream

(* What holds the properties.                                              *)
LEMMA StreamProperties ==
  ASSUME Stream
  PROVE  AudioIsReference /\ ChunksAreTimed
<1>1. CASE open
  <2>1. Runs(fed, cfg.inCh, cfg.inRate, cfg.outRate, ChunkSize, chunks, pipe.chunker)
    BY <1>1 DEF Stream
  <2>2. /\ AudioIn(fed, cfg.inCh, cfg.inRate, cfg.outRate, ChunkSize, chunks,
                   pipe.chunker.buf, TRUE)
        /\ TimedIn(fed, cfg.inRate, cfg.outRate, ChunkSize, chunks)
    BY <2>1, RunningAudio
  <2>3. AudioIn(fed, cfg.inCh, cfg.inRate, cfg.outRate, ChunkSize, chunks,
                pipe.chunker.buf, open)
    BY <2>2 DEF AudioIn
  <2> QED
    BY <2>2, <2>3, SameProperties
<1>2. CASE ~open
  <2>1. Flushed
    BY <1>2 DEF Stream
  <2>2. AudioIn(fed, cfg.inCh, cfg.inRate, cfg.outRate, ChunkSize, chunks,
                pipe.chunker.buf, open)
    BY <1>2, <2>1 DEF Flushed, AudioIn
  <2> QED
    BY <2>1, <2>2, SameProperties DEF Flushed
<1> QED
  BY <1>1, <1>2

(* The packet that is decoded next.                                        *)
LEMMA NextPacket ==
  ASSUME Route, queue # <<>>
  PROVE  LET pkt == Head(queue)
         IN /\ pkt.ts \in Nat /\ pkt.nth \in Nat /\ pkt.ts = TsOf(pkt.nth)
            /\ pkt.payload = Frame(pkt.nth)
            /\ Decode(cfg.codec, pkt.payload) \in Seq(Samples)
<1> DEFINE pkt == Head(queue)
<1>1. pkt \in Sent
  BY HeadTailProperties DEF Route, Wire
<1>2. /\ pkt.ts \in 0 .. TsWrap - 1 /\ pkt.nth \in Nat /\ pkt.ts = TsOf(pkt.nth)
      /\ pkt.payload = Frame(pkt.nth)
  BY <1>1 DEF Sent
<1>3. Decode(cfg.codec, Frame(pkt.nth)) \in Seq(Samples)
  <2> DEFINE nth == pkt.nth
  <2> DEFINE l == Len(cfg.file)
  <2>1. /\ l \in Nat \ {0}
        /\ \A i \in DOMAIN cfg.file :
             Decode(cfg.codec, Payload(cfg.codec, cfg.file[i])) \in Seq(Samples)
    BY ConfigFacts DEF Route
  <2>2. nth \in Int
    BY <1>2
  <2> HIDE DEF nth, l
  <2>3. nth % l \in 0 .. l - 1
    BY <2>1, <2>2, DivMod
  <2>4. (nth % l) + 1 \in 1 .. l
    BY <2>1, <2>3
  <2> QED
    BY <2>1, <2>4 DEF Frame, FrameAt, nth, l
<1>4. pkt.ts \in Nat
  BY <1>2, WrapsArePositive
<1> QED
  BY <1>2, <1>3, <1>4

(* A packet that is decoded while the session is open.                     *)
Feeds(f, ch, I, R, S, cs, c, phase, e) ==
  /\ Runs(f, ch, I, R, S, cs, c) /\ ch \in {1, 2}
  /\ (Len(cs) * S + Len(c.buf)) * I - InputIn(f) * R = phase
  /\ e \in Packets /\ e.upto = InputIn(f) + Len(ToMono(e.pcm, ch))

(* The pipeline runs on from it.                                           *)
LEMMA RunsOn ==
  ASSUME NEW f, NEW ch, NEW I, NEW R, NEW S, NEW cs, NEW c, NEW phase, NEW e,
         Feeds(f, ch, I, R, S, cs, c, phase, e)
  PROVE  LET went == Resample(e.pcm, phase, I, ch, R)
             cut == Push(c, went.out, e.ts, S, R)
             list == cs \o cut.chunks
         IN /\ Runs(Append(f, e), ch, I, R, S, list, cut.chunker)
            /\ (Len(list) * S + Len(cut.chunker.buf)) * I - InputIn(Append(f, e)) * R
                 = went.phase
            /\ went.phase \in 0 .. I - 1
            /\ FedSeq(Append(f, e), ch)
            /\ cut.chunks \in Seq(Emits)
<1> DEFINE went == Resample(e.pcm, phase, I, ch, R)
<1> DEFINE cut == Push(c, went.out, e.ts, S, R)
<1> DEFINE all == cs \o cut.chunks
<1> DEFINE sound == ToMono(e.pcm, ch)
<1> DEFINE count == Len(sound)
<1> DEFINE more == Append(f, e)
<1> DEFINE whole == Len(cs) * S + Len(c.buf)
<1> DEFINE input == InputIn(f)
<1> DEFINE made == Len(went.out)
<1>a. /\ I \in Nat \ {0} /\ R \in Nat \ {0} /\ S \in Nat \ {0}
      /\ FedSeq(f, ch) /\ FullChunks(cs, S)
      /\ c \in [buf : Seq(Samples), cur : Nat] /\ Len(c.buf) < S
      /\ whole * I - input * R \in 0 .. I - 1
      /\ SoundIn(f, ch, I, R, S, cs, c, Len(cs) * S)
  BY DEF Feeds, Runs
<1>b. /\ ch \in {1, 2} /\ whole * I - input * R = phase
      /\ e \in Packets /\ e.upto = input + count
  BY DEF Feeds
<1>c. e.pcm \in Seq(Samples) /\ sound \in Seq(Samples) /\ count \in Nat
  <2>1. e.pcm \in Seq(Samples)
    BY <1>b DEF Packets
  <2>2. sound \in Seq(Samples)
    BY <1>b, <2>1, ToMonoType
  <2> HIDE DEF sound
  <2>3. Len(sound) \in Nat
    BY <2>2, LenProperties
  <2> QED
    BY <2>1, <2>2, <2>3
<1>d. whole \in Nat /\ input \in Nat
  <2>1. Runs(f, ch, I, R, S, cs, c)
    BY DEF Feeds
  <2>2. Len(cs) * S \in Nat /\ Len(c.buf) \in Nat
    BY <2>1, RunsFacts
  <2>3. InputIn(f) \in Nat
    BY <1>a, FedFacts
  <2> DEFINE done == Len(cs) * S
  <2> HIDE DEF done
  <2>4. done + Len(c.buf) \in Nat
    BY <2>2 DEF done
  <2> QED
    BY <2>3, <2>4 DEF done
<1> HIDE DEF whole, input, count
<1>1. /\ FedSeq(more, ch) /\ InputIn(more) = input + count
      /\ Grown(f, more, ch, e, count)
  <2>1. /\ FedSeq(f, ch) /\ e \in Packets /\ count \in Nat
        /\ count = Len(ToMono(e.pcm, ch)) /\ e.upto = InputIn(f) + count
        /\ more = Append(f, e)
    BY <1>a, <1>b, <1>c DEF count, input
  <2> HIDE DEF more
  <2>2. /\ FedSeq(more, ch) /\ InputIn(more) = InputIn(f) + count
        /\ Len(more) = Len(f) + 1 /\ more[Len(f) + 1] = e
        /\ \A k \in 1 .. Len(f) : more[k] = f[k] /\ StartIn(more, k) = StartIn(f, k)
        /\ StartIn(more, Len(f) + 1) = InputIn(f)
    <3>1. Appends(f, ch, e, count, more)
      BY <2>1 DEF Appends
    <3> QED
      BY <3>1, FedAppend
  <2> QED
    BY <2>1, <2>2 DEF Grown, input
<1>2. /\ went.out \in Seq(Samples) /\ made \in Nat /\ went.phase \in 0 .. I - 1
      /\ went.phase = (whole + made) * I - (input + count) * R
      /\ \A q \in 1 .. made :
           /\ ((whole + q - 1) * I) \div R \in input .. input + count - 1
           /\ went.out[q] = Interpolated(sound, input, whole + q - 1, I, R)
  <2>1. phase \in 0 .. I - 1 /\ phase = whole * I - input * R
    BY <1>a, <1>b
  <2>2. /\ e.pcm \in Seq(Samples) /\ ch \in {1, 2} /\ I \in Nat \ {0}
        /\ R \in Nat \ {0} /\ whole \in Nat /\ input \in Nat
    BY <1>a, <1>b, <1>c, <1>d
  <2>3. LET mono == ToMono(e.pcm, ch)
            res == Resample(e.pcm, phase, I, ch, R)
            P == Len(res.out)
         IN /\ res.out \in Seq(Samples) /\ P \in Nat
            /\ res.phase \in 0 .. I - 1
            /\ res.phase = (whole + P) * I - (input + Len(mono)) * R
            /\ \A q \in 1 .. P :
                 /\ ((whole + q - 1) * I) \div R \in input .. input + Len(mono) - 1
                 /\ res.out[q] = Interpolated(mono, input, whole + q - 1, I, R)
    <3>1. Resamples(e.pcm, ch, I, R, whole, input, phase)
      BY <2>1, <2>2 DEF Resamples
    <3> HIDE DEF went, cut, all, sound, more, made
    <3> QED
      BY <3>1, ResampleStep
  <2> QED
    BY <2>3, Zenon DEF count, sound, went, made
<1> HIDE DEF sound, more
<1>3. Arrives(f, more, ch, e, count, I, R, S, cs, c, went.out)
  <2> DEFINE out == went.out
  <2> HIDE DEF went
  <2>1. \A q \in 1 .. Len(out) :
          /\ ((whole + q - 1) * I) \div R \in InputIn(f) .. InputIn(f) + count - 1
          /\ out[q] = Interpolated(ToMono(e.pcm, ch), InputIn(f), whole + q - 1, I, R)
    BY <1>2 DEF input, sound
  <2>2. whole * I - InputIn(f) * R \in 0 .. I - 1
    BY <1>a DEF input
  <2>3. out \in Seq(Samples)
    BY <1>2
  <2> HIDE DEF out
  <2>4. Arrives(f, more, ch, e, count, I, R, S, cs, c, out)
    BY <1>a, <1>1, <2>1, <2>2, <2>3 DEF Arrives, whole
  <2> QED
    BY <2>4 DEF out
<1>4. /\ FullChunks(all, S)
      /\ cut.chunker \in [buf : Seq(Samples), cur : Nat] /\ Len(cut.chunker.buf) < S
      /\ Len(all) * S + Len(cut.chunker.buf) = whole + made
      /\ SoundIn(more, ch, I, R, S, all, cut.chunker, Len(all) * S)
  <2> DEFINE given == went.out
  <2>1. Arrives(f, more, ch, e, count, I, R, S, cs, c, given)
    BY <1>3
  <2> HIDE DEF went, given
  <2>2. LET psh == Push(c, given, e.ts, S, R)
            list == cs \o psh.chunks
         IN /\ FullChunks(list, S)
            /\ psh.chunker \in [buf : Seq(Samples), cur : Nat] /\ Len(psh.chunker.buf) < S
            /\ Len(list) * S + Len(psh.chunker.buf) = Len(cs) * S + Len(c.buf) + Len(given)
            /\ SoundIn(more, ch, I, R, S, list, psh.chunker, Len(list) * S)
    BY <2>1, SoundGrows
  <2> QED
    BY <2>2, Zenon DEF given, cut, all, whole, made
<1>7. cut.chunks \in Seq(Emits)
  <2> DEFINE given == went.out
  <2>1. given \in Seq(Samples) /\ cut = Push(c, given, e.ts, S, R)
    BY <1>2
  <2>2. S \in Nat \ {0} /\ R \in Nat /\ e.ts \in Nat
    BY <1>a, <1>b DEF Packets
  <2> HIDE DEF went, cut, given, all, made
  <2>3. CASE given = <<>>
    <3>1. cut.chunks = <<>>
      BY <2>1, <2>3 DEF Push
    <3> QED
      BY <3>1, EmptySeq
  <2>4. CASE given # <<>>
    <3> DEFINE joined == c.buf \o given
    <3>1. Pushes(c, given, S, e.ts, R, joined, cut)
      BY <1>a, <2>1, <2>2, <2>4 DEF Pushes
    <3> HIDE DEF joined
    <3> QED
      BY <3>1, PushStep DEF Pushed, PushedAs
  <2> QED
    BY <2>3, <2>4
<1> HIDE DEF went, cut, all, made
<1>5. (Len(all) * S + Len(cut.chunker.buf)) * I - InputIn(more) * R = went.phase
  BY <1>1, <1>2, <1>4, Zenon
<1>6. Runs(more, ch, I, R, S, all, cut.chunker)
  BY <1>a, <1>1, <1>2, <1>4, <1>5 DEF Runs
<1> QED
  BY <1>1, <1>2, <1>5, <1>6, <1>7 DEF went, cut, all, more

LEMMA StreamSame ==
  ASSUME Stream, UNCHANGED <<cfg, open, pipe, fed, chunks>>
  PROVE  Stream'
<1>1. ChunkSize' = ChunkSize
  BY SameFile
<1>2. FedOK'
  BY DEF Stream, FedOK
<1>3. ~open => Flushed'
  BY <1>1 DEF Stream, Flushed
<1>4. open =>
        /\ Runs(fed, cfg.inCh, cfg.inRate, cfg.outRate, ChunkSize, chunks, pipe.chunker)'
        /\ ((Len(chunks) * ChunkSize + Len(pipe.chunker.buf)) * cfg.inRate
              - InputIn(fed) * cfg.outRate = pipe.phase)'
  BY <1>1 DEF Stream
<1> QED
  BY <1>1, <1>2, <1>3, <1>4 DEF Stream

(* Chunks are only added.                                                  *)
Longer(cs, ds) ==
  /\ Len(cs) \in Nat /\ Len(ds) \in Nat /\ Len(cs) <= Len(ds)
  /\ DOMAIN cs = 1 .. Len(cs) /\ DOMAIN ds = 1 .. Len(ds)
  /\ \A k \in 1 .. Len(cs) : ds[k] = cs[k]

LEMMA LongerBy ==
  ASSUME NEW cs \in Seq(Emits), NEW ds \in Seq(Emits)
  PROVE  Longer(cs, cs \o ds)
<1>1. /\ cs \o ds \in Seq(Emits) /\ Len(cs \o ds) = Len(cs) + Len(ds)
      /\ \A i \in 1 .. Len(cs) + Len(ds) :
           (cs \o ds)[i] = IF i <= Len(cs) THEN cs[i] ELSE ds[i - Len(cs)]
  BY ConcatProperties
<1>2. Len(cs) \in Nat /\ Len(ds) \in Nat /\ DOMAIN cs = 1 .. Len(cs)
  BY LenProperties
<1>3. DOMAIN (cs \o ds) = 1 .. Len(cs \o ds)
  BY <1>1, LenProperties
<1> QED
  BY <1>1, <1>2, <1>3 DEF Longer

LEMMA LongerByOne ==
  ASSUME NEW cs \in Seq(Emits), NEW x \in Emits
  PROVE  Longer(cs, Append(cs, x))
<1>1. /\ Append(cs, x) \in Seq(Emits) /\ Len(Append(cs, x)) = Len(cs) + 1
      /\ \A i \in 1 .. Len(cs) : Append(cs, x)[i] = cs[i]
  BY AppendProperties
<1> QED
  BY <1>1, LenProperties DEF Longer

(* What the next packet is cut into, and the input that it makes.          *)
NextCut == Cut(Head(queue))

NextFed == Append(fed, NextCut.entry)

NextRuns ==
  /\ NextCut.entry \in Packets
  /\ FedSeq(NextFed, cfg.inCh)
  /\ Runs(NextFed, cfg.inCh, cfg.inRate, cfg.outRate, ChunkSize,
          chunks \o NextCut.chunks, NextCut.chunker)
  /\ (Len(chunks \o NextCut.chunks) * ChunkSize + Len(NextCut.chunker.buf)) * cfg.inRate
       - InputIn(NextFed) * cfg.outRate = NextCut.phase
  /\ NextCut.phase \in 0 .. cfg.inRate - 1 /\ NextCut.phase \in Nat
  /\ NextCut.chunks \in Seq(Emits)
  /\ FilledIn(NextFed, cfg.inRate, cfg.outRate, ChunkSize) = Len(chunks)

LEMMA CutRuns ==
  ASSUME Stream, Route, queue # <<>>, open
  PROVE  NextRuns
<1> DEFINE head == Head(queue)
<1> DEFINE data == Decode(cfg.codec, head.payload)
<1> DEFINE went == Resample(data, pipe.phase, cfg.inRate, cfg.inCh, cfg.outRate)
<1> DEFINE cut == Push(pipe.chunker, went.out, head.ts, ChunkSize, cfg.outRate)
<1> DEFINE e == [ts |-> head.ts, nth |-> head.nth, pcm |-> data,
                 upto |-> Input + Len(ToMono(data, cfg.inCh))]
<1>1. /\ NextCut.entry = e /\ NextCut.phase = went.phase
      /\ NextCut.chunker = cut.chunker /\ NextCut.chunks = cut.chunks
  BY DEF NextCut, Cut
<1>2. /\ head.ts \in Nat /\ head.nth \in Nat /\ data \in Seq(Samples)
  BY NextPacket
<1>3. /\ cfg.inCh \in {1, 2} /\ cfg.inRate \in Nat \ {0} /\ ChunkSize \in Nat \ {0}
      /\ cfg.outRate \in Nat \ {0}
  BY ConfigFacts DEF Route
<1>4. Len(ToMono(data, cfg.inCh)) \in Nat
  <2> DEFINE sound == ToMono(data, cfg.inCh)
  <2>1. sound \in Seq(Samples)
    BY <1>2, <1>3, ToMonoType
  <2> HIDE DEF sound
  <2>2. Len(sound) \in Nat
    BY <2>1, LenProperties
  <2> QED
    BY <2>2 DEF sound
<1>5. InputIn(fed) \in Nat /\ Input = InputIn(fed)
  BY FedFacts, Linked DEF Stream, FedOK
<1> HIDE DEF head, data
<1>6. e \in Packets
  BY <1>2, <1>4, <1>5 DEF Packets
<1>7. /\ e.pcm = data /\ e.ts = head.ts
      /\ e.upto = InputIn(fed) + Len(ToMono(e.pcm, cfg.inCh))
  BY <1>5
<1> HIDE DEF e
<1>8. Feeds(fed, cfg.inCh, cfg.inRate, cfg.outRate, ChunkSize, chunks, pipe.chunker,
            pipe.phase, e)
  BY <1>3, <1>6, <1>7 DEF Stream, Feeds
<1>9. /\ Runs(Append(fed, e), cfg.inCh, cfg.inRate, cfg.outRate, ChunkSize,
              chunks \o cut.chunks, cut.chunker)
      /\ (Len(chunks \o cut.chunks) * ChunkSize + Len(cut.chunker.buf)) * cfg.inRate
           - InputIn(Append(fed, e)) * cfg.outRate = went.phase
      /\ went.phase \in 0 .. cfg.inRate - 1
      /\ FedSeq(Append(fed, e), cfg.inCh)
      /\ cut.chunks \in Seq(Emits)
  <2>1. went = Resample(e.pcm, pipe.phase, cfg.inRate, cfg.inCh, cfg.outRate)
    BY <1>7
  <2>2. cut = Push(pipe.chunker, went.out, e.ts, ChunkSize, cfg.outRate)
    BY <1>7
  <2> HIDE DEF cut, went
  <2>3. LET sampled == Resample(e.pcm, pipe.phase, cfg.inRate, cfg.inCh, cfg.outRate)
            pieces == Push(pipe.chunker, sampled.out, e.ts, ChunkSize, cfg.outRate)
            list == chunks \o pieces.chunks
         IN /\ Runs(Append(fed, e), cfg.inCh, cfg.inRate, cfg.outRate, ChunkSize,
                    list, pieces.chunker)
            /\ (Len(list) * ChunkSize + Len(pieces.chunker.buf)) * cfg.inRate
                  - InputIn(Append(fed, e)) * cfg.outRate = sampled.phase
            /\ sampled.phase \in 0 .. cfg.inRate - 1
            /\ FedSeq(Append(fed, e), cfg.inCh)
            /\ pieces.chunks \in Seq(Emits)
    BY <1>8, RunsOn
  <2> QED
    BY <2>1, <2>2, <2>3, Zenon
<1> HIDE DEF cut, went
<1>10. NextFed = Append(fed, e)
  BY <1>1 DEF NextFed
<1>11. went.phase \in Nat
  BY <1>3, <1>9
<1>12. FilledIn(Append(fed, e), cfg.inRate, cfg.outRate, ChunkSize) = Len(chunks)
  <2> DEFINE more == Append(fed, e)
  <2>1. FedSeq(fed, cfg.inCh)
    BY DEF Stream, FedOK
  <2>2. Appends(fed, cfg.inCh, e, Len(ToMono(e.pcm, cfg.inCh)), more)
    BY <1>4, <1>6, <1>7, <2>1 DEF Appends
  <2> HIDE DEF more
  <2>3. Len(more) = Len(fed) + 1 /\ StartIn(more, Len(fed) + 1) = InputIn(fed)
    BY <2>2, FedAppend
  <2>4. more # <<>>
    <3>1. Len(fed) \in Nat
      BY <2>1, FedFacts
    <3> QED
      BY <2>3, <3>1, EmptySeq
  <2>5. CountOf(InputIn(fed), cfg.inRate, cfg.outRate) \div ChunkSize = Len(chunks)
    <3>1. Runs(fed, cfg.inCh, cfg.inRate, cfg.outRate, ChunkSize, chunks, pipe.chunker)
      BY DEF Stream
    <3> QED
      BY <3>1, RunsFacts
  <2> QED
    BY <2>3, <2>4, <2>5 DEF FilledIn, more
<1> QED
  BY <1>1, <1>6, <1>9, <1>10, <1>11, <1>12, Zenon DEF NextRuns

(* The stream after a packet, or after a packet and the close.             *)
LEMMA StreamFed ==
  ASSUME Stream, Route, open, NextRuns, UNCHANGED cfg, fed' = NextFed,
         pipe'.phase = NextCut.phase,
         pipe' \in [phase : Nat, chunker : [buf : Seq(Samples), cur : Nat]],
         Len(pipe'.chunker.buf) < ChunkSize, chunks' \in Seq(Emits),
         open' => /\ chunks' = chunks \o NextCut.chunks
                  /\ pipe'.chunker = NextCut.chunker,
         ~open' => Flushed'
  PROVE  Stream'
<1>1. ChunkSize' = ChunkSize
  BY SameFile
<1>2. FedOK'
  BY DEF NextRuns, FedOK
<1>3. pipe'.phase \in 0 .. cfg'.inRate - 1 /\ Len(pipe'.chunker.buf) < ChunkSize'
  BY <1>1 DEF NextRuns
<1>4. ASSUME open'
      PROVE  /\ Runs(fed, cfg.inCh, cfg.inRate, cfg.outRate, ChunkSize, chunks, pipe.chunker)'
             /\ ((Len(chunks) * ChunkSize + Len(pipe.chunker.buf)) * cfg.inRate
                   - InputIn(fed) * cfg.outRate = pipe.phase)'
  BY <1>1, <1>4 DEF NextRuns
<1> QED
  BY <1>2, <1>3, <1>4 DEF Stream

LEMMA StreamProcess ==
  ASSUME Stream, Route, Process
  PROVE  Stream' /\ Longer(chunks, chunks')
<1>1. UNCHANGED <<cfg, open>> /\ queue # <<>>
  BY DEF Process
<1>2. CASE ~open \/ NextCut.entry.pcm = <<>>
  <2>1. UNCHANGED pipeVars
    BY <1>2, Zenon DEF Process, NextCut
  <2>2. Longer(chunks, chunks)
    BY LenProperties DEF Stream, Longer
  <2> QED
    BY <1>1, <2>1, <2>2, StreamSame DEF pipeVars
<1>3. CASE open /\ NextCut.entry.pcm # <<>>
  <2>1. /\ pipe' = [phase |-> NextCut.phase, chunker |-> NextCut.chunker]
        /\ fed' = NextFed
        /\ chunks' = chunks \o NextCut.chunks
    BY <1>3, Zenon DEF Process, NextCut, NextFed
  <2>2. NextRuns
    BY <1>1, <1>3, CutRuns
  <2>3. /\ NextCut.chunker \in [buf : Seq(Samples), cur : Nat]
        /\ Len(NextCut.chunker.buf) < ChunkSize
        /\ chunks \o NextCut.chunks \in Seq(Emits) /\ NextCut.phase \in Nat
        /\ NextCut.chunks \in Seq(Emits)
    BY <2>2 DEF NextRuns, Runs, FullChunks
  <2>4. pipe'.phase = NextCut.phase /\ pipe'.chunker = NextCut.chunker
    BY <2>1
  <2>5. pipe' \in [phase : Nat, chunker : [buf : Seq(Samples), cur : Nat]]
    BY <2>1, <2>3
  <2>6. Stream'
    BY <1>1, <1>3, <2>1, <2>2, <2>3, <2>4, <2>5, StreamFed
  <2>7. Longer(chunks, chunks')
    BY <2>1, <2>3, LongerBy DEF Stream
  <2> QED
    BY <2>6, <2>7
<1> QED
  BY <1>2, <1>3

(* The flush puts out the chunks sent and perhaps the part kept.           *)
LEMMA FlushIs ==
  ASSUME NEW sent \in Seq(Emits), NEW c \in [buf : Seq(Samples), cur : Nat],
         cfg.outRate \in Nat, NEW ds \in Flush(sent, c)
  PROVE  /\ ds = sent \/ (c.buf # <<>> /\ ds = Append(sent, Emit(c.buf, c.cur, cfg.outRate, TRUE)))
         /\ Longer(sent, ds)
<1> DEFINE last == Emit(c.buf, c.cur, cfg.outRate, TRUE)
<1>1. last \in Emits
  <2>1. c.buf \in Seq(Samples) /\ c.cur \in Nat /\ TRUE \in BOOLEAN
    OBVIOUS
  <2> QED
    BY <2>1, EmitFacts
<1>2. ds = sent \/ (c.buf # <<>> /\ ds = Append(sent, last))
  BY Zenon DEF Flush
<1> HIDE DEF last
<1>3. Longer(sent, sent)
  BY LenProperties DEF Longer
<1>4. Longer(sent, Append(sent, last))
  BY <1>1, LongerByOne
<1> QED
  BY <1>2, <1>3, <1>4 DEF last

(* The stream after it.                                                    *)
LEMMA StreamStops ==
  ASSUME NEW f, NEW cs, NEW c, NEW ps, NEW ds, UNCHANGED cfg, fed' = f, chunks' = ds,
         pipe'.chunker.buf = <<>>,
         Stops(f, cfg.inCh, cfg.inRate, cfg.outRate, ChunkSize, cs, c, ps, ds)
  PROVE  Flushed' /\ chunks' \in Seq(Emits)
<1>1. ChunkSize' = ChunkSize
  BY SameFile
<1>2. /\ AudioIn(f, cfg.inCh, cfg.inRate, cfg.outRate, ChunkSize, ds, <<>>, FALSE)
      /\ TimedIn(f, cfg.inRate, cfg.outRate, ChunkSize, ds)
      /\ ds \in Seq(Emits)
      /\ \A k \in DOMAIN ds : ds[k].EndOfStream => k = Len(ds)
  BY StopIsSound
<1> QED
  BY <1>1, <1>2 DEF Flushed

LEMMA StreamClose ==
  ASSUME Stream, Route, CloseSession
  PROVE  Stream' /\ Longer(chunks, chunks')
<1>1. /\ open /\ ~open' /\ cfg' = cfg /\ fed' = fed
      /\ pipe' = [pipe EXCEPT !.chunker.buf = <<>>]
      /\ chunks' \in Flush(chunks, pipe.chunker)
  BY Zenon DEF CloseSession
<1>2. /\ pipe \in [phase : Nat, chunker : [buf : Seq(Samples), cur : Nat]]
      /\ pipe.phase \in 0 .. cfg.inRate - 1 /\ chunks \in Seq(Emits) /\ FedOK
      /\ Runs(fed, cfg.inCh, cfg.inRate, cfg.outRate, ChunkSize, chunks, pipe.chunker)
  BY <1>1 DEF Stream
<1>3. ChunkSize' = ChunkSize /\ ChunkSize \in Nat \ {0} /\ cfg.outRate \in Nat
  BY <1>1, SameFile, ConfigFacts DEF Route
<1>4. /\ pipe' \in [phase : Nat, chunker : [buf : Seq(Samples), cur : Nat]]
      /\ pipe'.phase = pipe.phase /\ pipe'.chunker.buf = <<>>
  BY <1>1, <1>2, EmptySeq
<1>5. FedOK'
  BY <1>1, <1>2 DEF FedOK
<1>6. /\ \/ chunks' = chunks
         \/ /\ pipe.chunker.buf # <<>>
            /\ chunks' = Append(chunks, Emit(pipe.chunker.buf, pipe.chunker.cur, cfg.outRate,
                                             TRUE))
      /\ Longer(chunks, chunks')
  <2>1. pipe.chunker \in [buf : Seq(Samples), cur : Nat]
    BY <1>2
  <2> QED
    BY <1>1, <1>2, <1>3, <2>1, FlushIs
<1>7. Stops(fed, cfg.inCh, cfg.inRate, cfg.outRate, ChunkSize, chunks, pipe.chunker, chunks,
            chunks')
  <2>1. FilledIn(fed, cfg.inRate, cfg.outRate, ChunkSize) <= Len(chunks) /\ Len(chunks) \in Nat
    BY <1>2, FilledAreOut, RunsFacts
  <2> DEFINE ds == chunks'
  <2>2. \/ ds = chunks
        \/ /\ pipe.chunker.buf # <<>>
           /\ ds = Append(chunks, Emit(pipe.chunker.buf, pipe.chunker.cur, cfg.outRate, TRUE))
    BY <1>6
  <2> HIDE DEF ds
  <2>3. Len(chunks) <= Len(chunks)
    BY <2>1
  <2>4. Stops(fed, cfg.inCh, cfg.inRate, cfg.outRate, ChunkSize, chunks, pipe.chunker, chunks, ds)
    BY <1>2, <2>1, <2>2, <2>3, Zenon DEF Stops
  <2> QED
    BY <2>4 DEF ds
<1>8. Flushed' /\ chunks' \in Seq(Emits)
  BY <1>1, <1>4, <1>7, StreamStops
<1>9. pipe'.phase \in 0 .. cfg'.inRate - 1 /\ Len(pipe'.chunker.buf) < ChunkSize'
  <2>1. Len(<<>>) = 0
    BY EmptySeq
  <2> QED
    BY <1>1, <1>2, <1>3, <1>4, <2>1
<1> QED
  BY <1>1, <1>4, <1>5, <1>6, <1>8, <1>9 DEF Stream

(* The close in the middle of a packet: what has been put out is the first *)
(* part of what would have been.                                           *)
LEMMA FirstPart ==
  ASSUME NEW cs \in Seq(Emits), NEW ds \in Seq(Emits), NEW n \in 0 .. Len(ds) - 1
  PROVE  LET ps == cs \o SubSeq(ds, 1, n)
         IN /\ ps \in Seq(Emits) /\ Len(ps) = Len(cs) + n /\ Len(ps) <= Len(cs \o ds)
            /\ \A k \in 1 .. Len(ps) : ps[k] = (cs \o ds)[k]
            /\ Longer(cs, ps)
<1> DEFINE part == SubSeq(ds, 1, n)
<1>1. Len(cs) \in Nat /\ Len(ds) \in Nat /\ n \in Nat /\ n <= Len(ds)
  BY LenProperties
<1>2. part \in Seq(Emits) /\ Len(part) = n /\ \A i \in 1 .. n : part[i] = ds[i]
  <2>1. \A i \in 1 .. n : ds[0 + i] \in Emits
    BY <1>1, ElementOfSeq
  <2>2. /\ SubSeq(ds, 0 + 1, 0 + n) \in Seq(Emits) /\ Len(SubSeq(ds, 0 + 1, 0 + n)) = n
        /\ \A i \in 1 .. n : SubSeq(ds, 0 + 1, 0 + n)[i] = ds[0 + i]
    BY <1>1, <2>1, PieceOf
  <2>3. 0 + 1 = 1 /\ 0 + n = n /\ \A i \in 1 .. n : 0 + i = i
    BY <1>1
  <2> QED
    BY <2>2, <2>3
<1> HIDE DEF part
<1>3. /\ cs \o part \in Seq(Emits) /\ Len(cs \o part) = Len(cs) + n
      /\ \A i \in 1 .. Len(cs) + n :
           (cs \o part)[i] = IF i <= Len(cs) THEN cs[i] ELSE part[i - Len(cs)]
  BY <1>2, ConcatProperties
<1>4. /\ Len(cs \o ds) = Len(cs) + Len(ds)
      /\ \A i \in 1 .. Len(cs) + Len(ds) :
           (cs \o ds)[i] = IF i <= Len(cs) THEN cs[i] ELSE ds[i - Len(cs)]
  BY ConcatProperties
<1>5. Longer(cs, cs \o part)
  BY <1>2, LongerBy
<1>6. \A k \in 1 .. Len(cs) + n : (cs \o part)[k] = (cs \o ds)[k]
  <2> SUFFICES ASSUME NEW k \in 1 .. Len(cs) + n PROVE (cs \o part)[k] = (cs \o ds)[k]
    OBVIOUS
  <2>1. k \in 1 .. Len(cs) + Len(ds) /\ (k <= Len(cs) \/ k - Len(cs) \in 1 .. n)
    BY <1>1
  <2> QED
    BY <2>1, <1>2, <1>3, <1>4
<1>7. Len(cs) + n <= Len(cs) + Len(ds)
  BY <1>1
<1> QED
  BY <1>3, <1>4, <1>5, <1>6, <1>7 DEF part

LEMMA LongerStill ==
  ASSUME NEW bs, NEW cs, NEW ds, Longer(bs, cs), Longer(cs, ds)
  PROVE  Longer(bs, ds)
<1> DEFINE b == Len(bs)
<1> DEFINE c == Len(cs)
<1> DEFINE d == Len(ds)
<1>1. /\ b \in Nat /\ c \in Nat /\ d \in Nat /\ b <= c /\ c <= d
      /\ DOMAIN bs = 1 .. b /\ DOMAIN ds = 1 .. d
      /\ \A k \in 1 .. b : cs[k] = bs[k]
      /\ \A k \in 1 .. c : ds[k] = cs[k]
  BY Zenon DEF Longer
<1> HIDE DEF b, c, d
<1>2. \A k \in 1 .. b : k \in 1 .. c
  BY <1>1
<1>3. b <= d
  BY <1>1
<1>4. \A k \in 1 .. b : ds[k] = bs[k]
  BY <1>1, <1>2, Zenon
<1> QED
  BY <1>1, <1>3, <1>4, Zenon DEF Longer, b, d

LEMMA StreamCancelled ==
  ASSUME Stream, Route, ProcessCancelled
  PROVE  Stream' /\ Longer(chunks, chunks')
<1>1. /\ open /\ ~open' /\ queue # <<>> /\ cfg' = cfg /\ fed' = NextFed
      /\ pipe' = [phase |-> NextCut.phase, chunker |-> [NextCut.chunker EXCEPT !.buf = <<>>]]
      /\ \E n \in 0 .. Len(NextCut.chunks) - 1 :
           chunks' \in Flush(chunks \o SubSeq(NextCut.chunks, 1, n), NextCut.chunker)
  BY Zenon DEF ProcessCancelled, NextCut, NextFed
<1>2. NextRuns
  BY <1>1, CutRuns
<1>3. /\ NextCut.chunker \in [buf : Seq(Samples), cur : Nat]
      /\ NextCut.chunks \in Seq(Emits) /\ NextCut.phase \in Nat
      /\ chunks \in Seq(Emits) /\ cfg.outRate \in Nat /\ ChunkSize \in Nat \ {0}
  BY <1>2, ConfigFacts DEF NextRuns, Runs, Stream, Route
<1>4. /\ pipe' \in [phase : Nat, chunker : [buf : Seq(Samples), cur : Nat]]
      /\ pipe'.phase = NextCut.phase /\ pipe'.chunker.buf = <<>>
  BY <1>1, <1>3, EmptySeq
<1>5. PICK n \in 0 .. Len(NextCut.chunks) - 1 :
        chunks' \in Flush(chunks \o SubSeq(NextCut.chunks, 1, n), NextCut.chunker)
  BY <1>1
<1> DEFINE ps == chunks \o SubSeq(NextCut.chunks, 1, n)
<1> DEFINE cs == chunks \o NextCut.chunks
<1> DEFINE ds == chunks'
<1>6. /\ ps \in Seq(Emits) /\ Len(ps) = Len(chunks) + n /\ Len(ps) <= Len(cs)
      /\ \A k \in 1 .. Len(ps) : ps[k] = cs[k]
      /\ Longer(chunks, ps)
  BY <1>3, FirstPart
<1>7. ds \in Flush(ps, NextCut.chunker)
  BY <1>5
<1> HIDE DEF ps, cs, ds
<1>8. /\ \/ ds = ps
         \/ /\ NextCut.chunker.buf # <<>>
            /\ ds = Append(ps, Emit(NextCut.chunker.buf, NextCut.chunker.cur, cfg.outRate, TRUE))
      /\ Longer(ps, ds)
  BY <1>3, <1>6, <1>7, FlushIs
<1>9. Longer(chunks, chunks')
  BY <1>6, <1>8, LongerStill DEF ds
<1>10. Stops(NextFed, cfg.inCh, cfg.inRate, cfg.outRate, ChunkSize, cs, NextCut.chunker, ps, ds)
  <2>1. Runs(NextFed, cfg.inCh, cfg.inRate, cfg.outRate, ChunkSize, cs, NextCut.chunker)
    BY <1>2 DEF NextRuns, cs
  <2>2. FilledIn(NextFed, cfg.inRate, cfg.outRate, ChunkSize) <= Len(ps)
    <3>1. Len(chunks) \in Nat /\ n \in Nat
      BY <1>3, LenProperties
    <3> QED
      BY <1>2, <1>6, <3>1 DEF NextRuns
  <2> QED
    BY <1>6, <1>8, <2>1, <2>2 DEF Stops
<1>11. Flushed' /\ chunks' \in Seq(Emits)
  BY <1>1, <1>4, <1>10, StreamStops DEF ds
<1>12. Len(pipe'.chunker.buf) < ChunkSize
  <2>1. Len(<<>>) = 0
    BY EmptySeq
  <2> QED
    BY <1>3, <1>4, <2>1
<1>13. Stream'
  BY <1>1, <1>2, <1>4, <1>11, <1>12, StreamFed
<1> QED
  BY <1>9, <1>13

LEMMA StreamStep ==
  ASSUME Stream, Route, [MediaNext]_mediaVars
  PROVE  Stream' /\ Longer(chunks, chunks')
<1>1. CASE Process
  BY <1>1, StreamProcess
<1>2. CASE CloseSession
  BY <1>2, StreamClose
<1>3. CASE ProcessCancelled
  BY <1>3, StreamCancelled
<1>4. CASE ~Process /\ ~CloseSession /\ ~ProcessCancelled
  <2>1. UNCHANGED <<cfg, open, pipe, fed, chunks>>
    BY <1>4 DEF MediaNext, mediaVars, SendFrame, Rewind, Lose, Damage, LoadCounter, Receive,
                ParseFails, RouteBySSRC, RouteByAddr, DropUnknown, Enqueue, Transmit,
                IngressStep, pipeVars
  <2>2. Longer(chunks, chunks)
    BY LenProperties DEF Stream, Longer
  <2> QED
    BY <2>1, <2>2, StreamSame
<1> QED
  BY <1>1, <1>2, <1>3, <1>4

(* Every packet decoded is one that NextPacket is about.                   *)
LEMMA PlacedStep ==
  ASSUME TimestampsPlaceAudio, Route, Stream, [MediaNext]_mediaVars
  PROVE  TimestampsPlaceAudio'
<1>1. CASE Process \/ ProcessCancelled
  <2> DEFINE head == Head(queue)
  <2> DEFINE data == Decode(cfg.codec, head.payload)
  <2> DEFINE e == [ts |-> head.ts, nth |-> head.nth, pcm |-> data,
                   upto |-> Input + Len(ToMono(data, cfg.inCh))]
  <2>1. cfg' = cfg /\ queue # <<>>
    BY <1>1 DEF Process, ProcessCancelled
  <2>2. CASE fed' = fed
    BY <2>1, <2>2 DEF TimestampsPlaceAudio, FrameOf
  <2>3. CASE fed' # fed
    <3>1. fed' = Append(fed, e)
      <4>1. fed' = Append(fed, Cut(head).entry)
        BY <1>1, <2>3, Zenon DEF Process, ProcessCancelled, pipeVars
      <4>2. Cut(head).entry = e
        BY DEF Cut
      <4> QED
        BY <4>1, <4>2, Zenon
    <3>2. /\ head.ts = TsOf(head.nth) /\ head.payload = Frame(head.nth)
      BY <2>1, NextPacket
    <3>3. e.ts = (cfg.ts + e.nth * cfg.tsIncr) % TsWrap
      BY <3>2 DEF TsOf
    <3>4. e.pcm = Decode(cfg.codec, Payload(cfg.codec, cfg.file[(e.nth % Len(cfg.file)) + 1]))
      BY <3>2 DEF Frame, FrameAt
    <3> HIDE DEF e
    <3>5. /\ DOMAIN fed = 1 .. Len(fed) /\ Len(fed) \in Nat
          /\ DOMAIN fed' = 1 .. Len(fed) + 1 /\ fed'[Len(fed) + 1] = e
          /\ \A k \in 1 .. Len(fed) : fed'[k] = fed[k]
      <4>1. fed \in Seq(Packets)
        BY DEF Stream, FedOK, FedSeq
      <4> QED
        BY <3>1, <4>1
    <3> SUFFICES ASSUME NEW k \in 1 .. Len(fed) + 1
                 PROVE  /\ fed'[k].ts = (cfg.ts + fed'[k].nth * cfg.tsIncr) % TsWrap
                        /\ fed'[k].pcm = Decode(cfg.codec, Payload(cfg.codec,
                             cfg.file[(fed'[k].nth % Len(cfg.file)) + 1]))
      BY <2>1, <3>5 DEF TimestampsPlaceAudio, FrameOf
    <3>6. CASE k = Len(fed) + 1
      BY <3>3, <3>4, <3>5, <3>6
    <3>7. CASE k # Len(fed) + 1
      <4>1. k \in 1 .. Len(fed)
        BY <3>5, <3>7
      <4>2. /\ fed[k].ts = (cfg.ts + fed[k].nth * cfg.tsIncr) % TsWrap
            /\ fed[k].pcm = Decode(cfg.codec, Payload(cfg.codec,
                 cfg.file[(fed[k].nth % Len(cfg.file)) + 1]))
        BY <4>1, <3>5 DEF TimestampsPlaceAudio, FrameOf
      <4> QED
        BY <4>1, <4>2, <3>5
    <3> QED
      BY <3>6, <3>7
  <2> QED
    BY <2>2, <2>3
<1>2. CASE ~Process /\ ~ProcessCancelled
  <2>1. UNCHANGED <<cfg, fed>>
    BY <1>2 DEF MediaNext, mediaVars, SendFrame, Rewind, Lose, Damage, LoadCounter, Receive,
                ParseFails, RouteBySSRC, RouteByAddr, DropUnknown, Enqueue, Transmit,
                IngressStep, pipeVars, CloseSession
  <2> QED
    BY <2>1 DEF TimestampsPlaceAudio, FrameOf
<1> QED
  BY <1>1, <1>2
-----------------------------------------------------------------------------
(* The messages.                                                           *)

(* Two tables that have the same fields under the same numbers.            *)
Agree(out, in) ==
  /\ DOMAIN out = DOMAIN in
  /\ \A n \in DOMAIN in : out[n] = in[n]

Carried(out, in, m) ==
  Unmarshal(in, Marshal(out, m)) = [name \in {in[n].name : n \in DOMAIN in} |-> m[name]]

LEMMA RoundTrip ==
  ASSUME NEW out, NEW in, Agree(out, in), NEW m
  PROVE  Carried(out, in, m)
<1> DEFINE b == Marshal(out, m)
<1> SUFFICES ASSUME NEW name \in {in[n].name : n \in DOMAIN in}
             PROVE  (LET n == CHOOSE k \in DOMAIN in : in[k].name = name
                     IN IF n \in DOMAIN b /\ b[n].type = in[n].type
                        THEN b[n].val ELSE in[n].zero) = m[name]
  BY DEF Carried, Unmarshal
<1> DEFINE n == CHOOSE k \in DOMAIN in : in[k].name = name
<1>1. n \in DOMAIN in /\ in[n].name = name
  OBVIOUS
<1> HIDE DEF n
<1>2. out[n] = in[n] /\ n \in DOMAIN out
  BY <1>1 DEF Agree
<1>3. CASE m[name] = in[n].zero
  <2>1. n \notin DOMAIN b
    BY <1>1, <1>2, <1>3 DEF Marshal
  <2> QED
    BY <1>3, <2>1 DEF n
<1>4. CASE m[name] # in[n].zero
  <2>1. n \in DOMAIN b /\ b[n] = [type |-> out[n].type, val |-> m[out[n].name]]
    BY <1>1, <1>2, <1>4 DEF Marshal
  <2>2. b[n].type = in[n].type /\ b[n].val = m[name]
    BY <1>1, <1>2, <2>1
  <2> QED
    BY <2>1, <2>2 DEF n
<1> QED
  BY <1>3, <1>4

LEMMA TablesAgree == Agree(ChunkOut, ChunkIn) /\ Agree(ResultOut, ResultIn)
  BY DEF Agree, ChunkOut, ChunkIn, ResultOut, ResultIn

LEMMA ChunkArrives ==
  ASSUME NEW chunk
  PROVE  Unmarshal(ChunkIn, Marshal(ChunkOut, Wired(chunk))) = Wired(chunk)
<1> DEFINE names == {"SessionID", "StreamID", "PCM", "SampleRate", "Channels",
                     "RTPTimestamp", "DurationMs", "EndOfStream", "Language", "Task"}
<1>1. {ChunkIn[n].name : n \in DOMAIN ChunkIn} = names
  <2>1. DOMAIN ChunkIn = {1, 2, 3, 4, 5, 6, 7, 8, 9, 10}
    BY DEF ChunkIn
  <2>2. /\ ChunkIn[1].name = "SessionID" /\ ChunkIn[2].name = "StreamID"
        /\ ChunkIn[3].name = "PCM" /\ ChunkIn[4].name = "SampleRate"
        /\ ChunkIn[5].name = "Channels" /\ ChunkIn[6].name = "RTPTimestamp"
        /\ ChunkIn[7].name = "DurationMs" /\ ChunkIn[8].name = "EndOfStream"
        /\ ChunkIn[9].name = "Language" /\ ChunkIn[10].name = "Task"
    BY DEF ChunkIn, Field
  <2> QED
    BY <2>1, <2>2
<1>2. Wired(chunk) = [name \in names |-> Wired(chunk)[name]]
  BY DEF Wired
<1>3. Unmarshal(ChunkIn, Marshal(ChunkOut, Wired(chunk)))
        = [name \in {ChunkIn[n].name : n \in DOMAIN ChunkIn} |-> Wired(chunk)[name]]
  <2>1. Carried(ChunkOut, ChunkIn, Wired(chunk))
    BY TablesAgree, RoundTrip
  <2> QED
    BY <2>1 DEF Carried
<1> HIDE DEF names
<1> QED
  BY <1>1, <1>2, <1>3

Texts == {"partial", "final", "end"}

Languages == {c.language : c \in Configs} \cup {"vi", ""}

Replies == [SessionID : {"s"}, StreamID : {"s"}, Text : Texts, IsFinal : BOOLEAN,
            TsStart : Nat, TsEnd : Nat, Confidence : Nat, Language : Languages, Seq : Nat]

Pairs == [sent : Replies, got : Replies]

LEMMA ReplyArrives ==
  ASSUME NEW r \in Replies
  PROVE  Unmarshal(ResultIn, Marshal(ResultOut, r)) = r
<1> DEFINE names == {"SessionID", "StreamID", "Text", "IsFinal", "TsStart", "TsEnd",
                     "Confidence", "Language", "Seq"}
<1>1. {ResultIn[n].name : n \in DOMAIN ResultIn} = names
  <2>1. DOMAIN ResultIn = {1, 2, 3, 4, 5, 6, 7, 8, 9}
    BY DEF ResultIn
  <2>2. /\ ResultIn[1].name = "SessionID" /\ ResultIn[2].name = "StreamID"
        /\ ResultIn[3].name = "Text" /\ ResultIn[4].name = "IsFinal"
        /\ ResultIn[5].name = "TsStart" /\ ResultIn[6].name = "TsEnd"
        /\ ResultIn[7].name = "Confidence" /\ ResultIn[8].name = "Language"
        /\ ResultIn[9].name = "Seq"
    BY DEF ResultIn, Field
  <2> QED
    BY <2>1, <2>2
<1>2. r = [name \in names |-> r[name]]
  BY DEF Replies
<1>3. Unmarshal(ResultIn, Marshal(ResultOut, r))
        = [name \in {ResultIn[n].name : n \in DOMAIN ResultIn} |-> r[name]]
  <2>1. Carried(ResultOut, ResultIn, r)
    BY TablesAgree, RoundTrip
  <2> QED
    BY <2>1 DEF Carried
<1> HIDE DEF names
<1> QED
  BY <1>1, <1>2, <1>3
-----------------------------------------------------------------------------
(* The spans of the results.                                               *)

FinalsIn(rs, n) == {j \in 1 .. n : rs[j].got.IsFinal}

(* Where the span that begins after the first n results starts.            *)
StartAfter(rs, n, first) ==
  IF FinalsIn(rs, n) = {} THEN first
  ELSE rs[CHOOSE j \in FinalsIn(rs, n) : \A i \in FinalsIn(rs, n) : i <= j].got.TsEnd

HasLast(rs, n) ==
  FinalsIn(rs, n) # {} => \E j \in FinalsIn(rs, n) : \A i \in FinalsIn(rs, n) : i <= j

(* The results so far, over the start of the first chunk.                  *)
Spans(rs, first) ==
  \A k \in 1 .. Len(rs) :
    /\ rs[k].got.Seq = k /\ rs[k].got.TsStart = StartAfter(rs, k - 1, first)
    /\ HasLast(rs, k - 1)

Alike(rs, qs, n) == n \in Nat /\ HasLast(rs, n) /\ \A k \in 1 .. n : qs[k] = rs[k]

LEMMA SameStart ==
  ASSUME NEW rs, NEW qs, NEW n, NEW first, Alike(rs, qs, n)
  PROVE  StartAfter(qs, n, first) = StartAfter(rs, n, first) /\ HasLast(qs, n)
<1> USE DEF Alike
<1>1. FinalsIn(qs, n) = FinalsIn(rs, n)
  BY DEF FinalsIn
<1>h. HasLast(qs, n)
  BY <1>1 DEF HasLast
<1> DEFINE last == CHOOSE j \in FinalsIn(rs, n) : \A i \in FinalsIn(rs, n) : i <= j
<1>2. CASE FinalsIn(rs, n) = {}
  BY <1>1, <1>2, <1>h DEF StartAfter
<1>3. CASE FinalsIn(rs, n) # {}
  <2>1. StartAfter(rs, n, first) = rs[last].got.TsEnd
    BY <1>3 DEF StartAfter
  <2>2. StartAfter(qs, n, first) = qs[last].got.TsEnd
    BY <1>1, <1>3 DEF StartAfter
  <2>3. last \in 1 .. n
    <3>1. \E j \in FinalsIn(rs, n) : \A i \in FinalsIn(rs, n) : i <= j
      BY <1>3 DEF HasLast
    <3>2. last \in FinalsIn(rs, n)
      BY <3>1, Zenon
    <3> QED
      BY <3>2 DEF FinalsIn
  <2> QED
    BY <2>1, <2>2, <2>3, <1>h
<1> QED
  BY <1>2, <1>3

Follows(rs, first, r, qs) ==
  /\ rs \in Seq(Pairs) /\ r \in Pairs /\ Spans(rs, first) /\ HasLast(rs, Len(rs))
  /\ r.got.Seq = Len(rs) + 1 /\ r.got.TsStart = StartAfter(rs, Len(rs), first)
  /\ qs = Append(rs, r)

(* A result of the span to come keeps the spans in order, and ends it when *)
(* it is final.                                                            *)
LEMMA SpansGrow ==
  ASSUME NEW rs, NEW first, NEW r, NEW qs, Follows(rs, first, r, qs)
  PROVE  /\ qs \in Seq(Pairs) /\ Len(qs) = Len(rs) + 1
         /\ Spans(qs, first) /\ HasLast(qs, Len(qs))
         /\ StartAfter(qs, Len(qs), first)
              = IF r.got.IsFinal THEN r.got.TsEnd ELSE StartAfter(rs, Len(rs), first)
         /\ qs # <<>>
<1> DEFINE l == Len(rs)
<1> DEFINE h == Len(rs) + 1
<1>a. /\ rs \in Seq(Pairs) /\ r \in Pairs /\ Spans(rs, first) /\ HasLast(rs, l)
      /\ r.got.Seq = h /\ r.got.TsStart = StartAfter(rs, l, first)
      /\ qs = Append(rs, r)
  BY DEF Follows
<1>b. /\ l \in Nat /\ qs \in Seq(Pairs) /\ Len(qs) = h /\ qs[h] = r
      /\ \A k \in 1 .. l : qs[k] = rs[k]
  BY <1>a, AppendProperties, LenProperties
<1>c. h \in Nat /\ h = l + 1 /\ h - 1 = l
  BY <1>b
<1> HIDE DEF l, h
<1>1. HasLast(qs, l) /\ StartAfter(qs, l, first) = StartAfter(rs, l, first)
  <2>1. Alike(rs, qs, l)
    BY <1>a, <1>b DEF Alike
  <2> QED
    BY <2>1, SameStart
<1>2. \A j \in 1 .. h : j \in 1 .. l \/ j = h
  BY <1>b, <1>c
<1>3. \A j \in 1 .. l : j \in 1 .. h /\ j <= h
  BY <1>b, <1>c
<1>4. h \in 1 .. h /\ h <= h
  BY <1>b, <1>c
<1>6. Spans(qs, first)
  <2> SUFFICES ASSUME NEW k \in 1 .. h
               PROVE  /\ qs[k].got.Seq = k /\ qs[k].got.TsStart = StartAfter(qs, k - 1, first)
                      /\ HasLast(qs, k - 1)
    BY <1>b DEF Spans
  <2>1. CASE k = h
    BY <2>1, <1>1, <1>a, <1>b, <1>c
  <2>2. CASE k \in 1 .. l
    <3>1. /\ rs[k].got.Seq = k /\ rs[k].got.TsStart = StartAfter(rs, k - 1, first)
          /\ HasLast(rs, k - 1)
      BY <2>2, <1>a DEF Spans, l
    <3>2. k - 1 \in Nat /\ \A i \in 1 .. k - 1 : qs[i] = rs[i]
      BY <2>2, <1>b
    <3>3. StartAfter(qs, k - 1, first) = StartAfter(rs, k - 1, first) /\ HasLast(qs, k - 1)
      <4>1. Alike(rs, qs, k - 1)
        BY <3>1, <3>2 DEF Alike
      <4> QED
        BY <4>1, SameStart
    <3> QED
      BY <2>2, <3>1, <3>3, <1>b
  <2> QED
    BY <2>1, <2>2, <1>2
<1>8. qs # <<>>
  BY <1>b, <1>c, EmptySeq
<1>5. ASSUME r.got.IsFinal
      PROVE  HasLast(qs, h) /\ StartAfter(qs, h, first) = r.got.TsEnd
  <2>1. h \in FinalsIn(qs, h) /\ \A i \in FinalsIn(qs, h) : i <= h
    BY <1>2, <1>3, <1>4, <1>5, <1>b DEF FinalsIn
  <2>2. HasLast(qs, h)
    BY <2>1 DEF HasLast
  <2> DEFINE last == CHOOSE j \in FinalsIn(qs, h) : \A i \in FinalsIn(qs, h) : i <= j
  <2>3. last \in FinalsIn(qs, h) /\ \A i \in FinalsIn(qs, h) : i <= last
    BY <2>1, Zenon
  <2>4. last = h
    <3>1. last \in Int /\ last <= h /\ h <= last
      BY <2>1, <2>3 DEF FinalsIn
    <3> QED
      BY <3>1, <1>c
  <2>5. StartAfter(qs, h, first) = r.got.TsEnd
    BY <2>1, <2>4, <1>b DEF StartAfter
  <2> QED
    BY <2>2, <2>5
<1>7. ASSUME ~r.got.IsFinal
      PROVE  HasLast(qs, h) /\ StartAfter(qs, h, first) = StartAfter(rs, l, first)
  <2>1. FinalsIn(qs, h) = FinalsIn(qs, l)
    BY <1>2, <1>3, <1>7, <1>b DEF FinalsIn
  <2>2. HasLast(qs, h) /\ StartAfter(qs, h, first) = StartAfter(qs, l, first)
    BY <2>1, <1>1 DEF HasLast, StartAfter
  <2> QED
    BY <2>2, <1>1
<1>9. /\ HasLast(qs, h)
      /\ StartAfter(qs, h, first)
           = IF r.got.IsFinal THEN r.got.TsEnd ELSE StartAfter(rs, l, first)
  BY <1>5, <1>7
<1> QED
  BY <1>6, <1>8, <1>9, <1>b DEF l, h
-----------------------------------------------------------------------------
(* What the worker answers.                                                *)

Workers == [count : Nat, seq : Nat, start : Nat, language : Languages]

Pair(r) == [sent |-> r, got |-> Unmarshal(ResultIn, Marshal(ResultOut, r))]

Paired(o) == [k \in DOMAIN o |->
                [sent |-> o[k], got |-> Unmarshal(ResultIn, Marshal(ResultOut, o[k]))]]

LEMMA PairIs ==
  ASSUME NEW r \in Replies
  PROVE  Pair(r) = [sent |-> r, got |-> r] /\ Pair(r) \in Pairs
BY ReplyArrives DEF Pair, Pairs

(* A worker and the results it has given.                                  *)
Kept(rs, first, w) ==
  /\ rs \in Seq(Pairs) /\ w \in Workers /\ w.seq = Len(rs)
  /\ Spans(rs, first) /\ HasLast(rs, Len(rs))
  /\ \A k \in 1 .. Len(rs) : rs[k].got = rs[k].sent

(* The next span starts where the worker says.                             *)
Ready(rs, first, w) == Kept(rs, first, w) /\ w.start = StartAfter(rs, Len(rs), first)

Answer(rs, first, w, text, final, conf, ts) ==
  /\ Ready(rs, first, w)
  /\ text \in Texts /\ final \in BOOLEAN /\ conf \in Nat /\ ts \in Nat

LEMMA Answered ==
  ASSUME NEW rs, NEW first, NEW w, NEW text, NEW final, NEW conf, NEW ts,
         Answer(rs, first, w, text, final, conf, ts)
  PROVE  LET v == [w EXCEPT !.seq = @ + 1]
             qs == Append(rs, Pair(Result(text, final, conf, v, ts)))
         IN /\ Kept(qs, first, v) /\ v.start = w.start
            /\ StartAfter(qs, Len(qs), first) = IF final THEN ts ELSE w.start
            /\ Result(text, final, conf, v, ts) \in Replies
<1> DEFINE v == [w EXCEPT !.seq = @ + 1]
<1> DEFINE x == Result(text, final, conf, v, ts)
<1> DEFINE more == Append(rs, Pair(x))
<1>a. /\ rs \in Seq(Pairs) /\ w \in Workers /\ w.seq = Len(rs)
      /\ Spans(rs, first) /\ HasLast(rs, Len(rs))
      /\ \A k \in 1 .. Len(rs) : rs[k].got = rs[k].sent
      /\ w.start = StartAfter(rs, Len(rs), first)
      /\ text \in Texts /\ final \in BOOLEAN /\ conf \in Nat /\ ts \in Nat
  BY DEF Answer, Ready, Kept
<1>1. v \in Workers /\ v.seq = Len(rs) + 1 /\ v.start = w.start /\ v.language = w.language
  BY <1>a DEF Workers
<1> HIDE DEF v
<1>2. x \in Replies
  BY <1>a, <1>1 DEF Result, Replies, Workers
<1>3. x.IsFinal = final /\ x.TsEnd = ts /\ x.Seq = Len(rs) + 1 /\ x.TsStart = w.start
  BY <1>1 DEF Result
<1> HIDE DEF x
<1>4. Pair(x) = [sent |-> x, got |-> x] /\ Pair(x) \in Pairs
  BY <1>2, PairIs
<1>5. Pair(x).got = x /\ Pair(x).sent = x
  BY <1>4
<1> DEFINE p == Pair(x)
<1> HIDE DEF p
<1>6. p.got = x /\ p.sent = x /\ p \in Pairs /\ more = Append(rs, p)
  BY <1>4, <1>5 DEF p
<1> HIDE DEF more
<1>7. Follows(rs, first, p, more)
  BY <1>a, <1>3, <1>6 DEF Follows
<1>8. /\ more \in Seq(Pairs) /\ Len(more) = Len(rs) + 1
      /\ Spans(more, first) /\ HasLast(more, Len(more))
      /\ StartAfter(more, Len(more), first)
           = IF p.got.IsFinal THEN p.got.TsEnd ELSE StartAfter(rs, Len(rs), first)
  BY <1>7, SpansGrow
<1>9. StartAfter(more, Len(more), first) = IF final THEN ts ELSE w.start
  BY <1>a, <1>3, <1>6, <1>8
<1>10. \A k \in 1 .. Len(more) : more[k].got = more[k].sent
  <2>1. /\ more[Len(rs) + 1] = p /\ \A k \in 1 .. Len(rs) : more[k] = rs[k]
        /\ Len(rs) \in Nat
    BY <1>a, <1>6, AppendProperties, LenProperties
  <2>2. \A k \in 1 .. Len(rs) + 1 : k \in 1 .. Len(rs) \/ k = Len(rs) + 1
    BY <2>1
  <2> QED
    BY <2>1, <2>2, <1>a, <1>6, <1>8
<1>11. Kept(more, first, v)
  BY <1>1, <1>8, <1>10 DEF Kept
<1> QED
  BY <1>1, <1>2, <1>9, <1>11 DEF more, x, v

LEMMA SayOne ==
  ASSUME NEW o \in Seq(Replies), NEW due, NEW x
  PROVE  o \o (IF due THEN <<x>> ELSE <<>>) = IF due THEN Append(o, x) ELSE o
<1>1. CASE due
  <2>1. o \o <<x>> = Append(o, x)
    OBVIOUS
  <2> QED
    BY <1>1, <2>1
<1>2. CASE ~due
  <2>1. o \o <<>> = o
    BY ConcatEmptySeq
  <2> QED
    BY <1>2, <2>1
<1> QED
  BY <1>1, <1>2

LEMMA PairedType ==
  ASSUME NEW o \in Seq(Replies)
  PROVE  Paired(o) \in Seq(Pairs) /\ Len(Paired(o)) = Len(o)
<1>1. Len(o) \in Nat /\ DOMAIN o = 1 .. Len(o) /\ \A k \in 1 .. Len(o) : o[k] \in Replies
  BY LenProperties, ElementOfSeq
<1>2. \A k \in 1 .. Len(o) : Paired(o)[k] \in Pairs
  <2> SUFFICES ASSUME NEW k \in 1 .. Len(o) PROVE Paired(o)[k] \in Pairs
    OBVIOUS
  <2>1. Paired(o)[k] = Pair(o[k])
    BY <1>1 DEF Paired, Pair
  <2> QED
    BY <1>1, <2>1, PairIs
<1>3. Paired(o) = [k \in 1 .. Len(o) |-> Paired(o)[k]]
  BY <1>1 DEF Paired
<1> DEFINE s == Paired(o)
<1> DEFINE l == Len(o)
<1>4. l \in Nat /\ s = [k \in 1 .. l |-> s[k]] /\ \A k \in 1 .. l : s[k] \in Pairs
  BY <1>1, <1>2, <1>3
<1> HIDE DEF s, l
<1>5. s \in Seq(Pairs) /\ Len(s) = l
  BY <1>4
<1> QED
  BY <1>5 DEF s, l

LEMMA PairedAppend ==
  ASSUME NEW o \in Seq(Replies), NEW x \in Replies, NEW rs \in Seq(Pairs)
  PROVE  rs \o Paired(Append(o, x)) = Append(rs \o Paired(o), Pair(x))
<1> DEFINE q == Append(o, x)
<1>1. /\ q \in Seq(Replies) /\ Len(q) = Len(o) + 1 /\ q[Len(o) + 1] = x
      /\ \A k \in 1 .. Len(o) : q[k] = o[k]
      /\ Len(o) \in Nat /\ DOMAIN o = 1 .. Len(o) /\ DOMAIN q = 1 .. Len(o) + 1
  BY AppendProperties, LenProperties
<1> HIDE DEF q
<1>2. /\ Paired(q) \in Seq(Pairs) /\ Len(Paired(q)) = Len(o) + 1
      /\ Paired(o) \in Seq(Pairs) /\ Len(Paired(o)) = Len(o) /\ Pair(x) \in Pairs
  BY <1>1, PairedType, PairIs
<1>3. Paired(q)[Len(o) + 1] = Pair(x)
  BY <1>1 DEF Paired, Pair
<1>4. \A k \in 1 .. Len(o) : Paired(q)[k] = Paired(o)[k]
  BY <1>1 DEF Paired
<1> DEFINE s == Paired(q)
<1> DEFINE t == Paired(o)
<1> DEFINE l == Len(o)
<1> DEFINE y == Pair(x)
<1>5. /\ s \in Seq(Pairs) /\ Len(s) = l + 1 /\ t \in Seq(Pairs) /\ Len(t) = l /\ y \in Pairs
      /\ s[l + 1] = y /\ \A k \in 1 .. l : s[k] = t[k]
      /\ l \in Nat
  BY <1>1, <1>2, <1>3, <1>4
<1> HIDE DEF s, t, l, y
<1>6. s = Append(t, y)
  BY <1>5
<1>7. rs \o Append(t, y) = Append(rs \o t, y)
  BY <1>5
<1> QED
  BY <1>6, <1>7 DEF s, t, y, q

(* What one chunk adds to the results, and the worker after it.            *)
Heard(c, first, w, rs) ==
  /\ Ready(rs, first, w)
  /\ c.RTPTimestamp \in Nat /\ c.EndOfStream \in BOOLEAN

Reply(c, w, rs) ==
  LET partial == w.count % PartialEvery = 0
      final == w.count % FinalEvery = 0
      Tick(v, due) == IF due THEN [v EXCEPT !.seq = @ + 1] ELSE v
      w1 == Tick(w, partial)
      w2 == Tick(w1, final)
      w3 == IF final THEN SpanAfter(w2, c.RTPTimestamp) ELSE w2
      w4 == Tick(w3, c.EndOfStream)
      Say(due, r) == IF due THEN <<r>> ELSE <<>>
  IN [state |-> w4,
      out |-> Say(partial, Result("partial", FALSE, 0, w1, c.RTPTimestamp))
              \o Say(final, Result("final", TRUE, 92, w2, c.RTPTimestamp))
              \o Say(c.EndOfStream, Result("end", TRUE, 95, w4, c.RTPTimestamp))]

LEMMA ReplyKeeps ==
  ASSUME NEW c, NEW first, NEW w, NEW rs, Heard(c, first, w, rs)
  PROVE  /\ Kept(rs \o Paired(Reply(c, w, rs).out), first, Reply(c, w, rs).state)
         /\ Reply(c, w, rs).state.count = w.count
         /\ ~c.EndOfStream => Ready(rs \o Paired(Reply(c, w, rs).out), first,
                                    Reply(c, w, rs).state)
<1> DEFINE partial == w.count % PartialEvery = 0
<1> DEFINE final == w.count % FinalEvery = 0
<1> DEFINE ts == c.RTPTimestamp
<1> DEFINE end == c.EndOfStream
<1> DEFINE v1 == [w EXCEPT !.seq = @ + 1]
<1> DEFINE w1 == IF partial THEN v1 ELSE w
<1> DEFINE r1 == Result("partial", FALSE, 0, w1, ts)
<1> DEFINE o1 == IF partial THEN <<r1>> ELSE <<>>
<1> DEFINE v2 == [w1 EXCEPT !.seq = @ + 1]
<1> DEFINE w2 == IF final THEN v2 ELSE w1
<1> DEFINE r2 == Result("final", TRUE, 92, w2, ts)
<1> DEFINE o2 == o1 \o (IF final THEN <<r2>> ELSE <<>>)
<1> DEFINE w3 == IF final THEN SpanAfter(w2, ts) ELSE w2
<1> DEFINE v4 == [w3 EXCEPT !.seq = @ + 1]
<1> DEFINE w4 == IF end THEN v4 ELSE w3
<1> DEFINE r3 == Result("end", TRUE, 95, w4, ts)
<1> DEFINE o3 == o2 \o (IF end THEN <<r3>> ELSE <<>>)
<1>0. Reply(c, w, rs).state = w4 /\ Reply(c, w, rs).out = o3
  BY DEF Reply
<1>a. /\ Ready(rs, first, w) /\ rs \in Seq(Pairs) /\ w \in Workers
      /\ ts \in Nat /\ end \in BOOLEAN
  BY DEF Heard, Ready, Kept
<1>1. /\ Ready(rs \o Paired(o1), first, w1) /\ o1 \in Seq(Replies)
      /\ w1.count = w.count
  <2>1. CASE partial
    <3> DEFINE said == "partial"
    <3> DEFINE flag == FALSE
    <3> DEFINE sure == 0
    <3> DEFINE res == Result(said, flag, sure, v1, ts)
    <3>0. said \in Texts /\ flag \in BOOLEAN /\ sure \in Nat /\ ~flag
      <4>1. said \in Texts /\ sure \in Nat
        BY DEF Texts
      <4>2. flag \in BOOLEAN /\ ~flag
        BY Zenon
      <4> QED
        BY <4>1, <4>2, Zenon
    <3>r. res = Result("partial", FALSE, 0, v1, ts)
      OBVIOUS
    <3> HIDE DEF said, flag, sure
    <3>1. Answer(rs, first, w, said, flag, sure, ts)
      BY <1>a, <3>0 DEF Answer
    <3>2. /\ Kept(Append(rs, Pair(res)), first, v1) /\ v1.start = w.start
          /\ StartAfter(Append(rs, Pair(res)), Len(Append(rs, Pair(res))), first)
               = IF flag THEN ts ELSE w.start
          /\ res \in Replies
      BY <3>1, Answered
    <3> HIDE DEF res
    <3>3. w1 = v1 /\ r1 = res
      BY <2>1, <3>r
    <3>4. v1.count = w.count
      BY <1>a DEF Workers
    <3> HIDE DEF v1, w1
    <3>5. o1 = Append(<<>>, r1) /\ <<>> \in Seq(Replies) /\ r1 \in Replies
      <4>1. o1 = <<r1>>
        BY <2>1
      <4>2. <<r1>> = Append(<<>>, r1)
        OBVIOUS
      <4> QED
        BY <4>1, <4>2, <3>2, <3>3, EmptySeq
    <3>6. rs \o Paired(<<>>) = rs
      BY <1>a, ConcatEmptySeq DEF Paired
    <3> HIDE DEF r1, o1
    <3>7. rs \o Paired(o1) = Append(rs, Pair(r1))
      <4>1. rs \o Paired(Append(<<>>, r1)) = Append(rs \o Paired(<<>>), Pair(r1))
        BY <1>a, <3>5, PairedAppend
      <4> QED
        BY <3>5, <3>6, <4>1
    <3>8. Ready(rs \o Paired(o1), first, w1)
      BY <3>0, <3>2, <3>3, <3>7 DEF Ready
    <3>9. o1 \in Seq(Replies)
      BY <3>5, AppendProperties
    <3> QED
      BY <3>3, <3>4, <3>8, <3>9
  <2>2. CASE ~partial
    <3>1. o1 = <<>> /\ w1 = w /\ <<>> \in Seq(Replies)
      BY <2>2, EmptySeq
    <3>2. rs \o Paired(<<>>) = rs
      BY <1>a, ConcatEmptySeq DEF Paired
    <3> HIDE DEF o1, w1
    <3> QED
      BY <3>1, <3>2, <1>a
  <2> QED
    BY <2>1, <2>2
<1> DEFINE rs1 == rs \o Paired(o1)
<1>b. /\ rs1 \in Seq(Pairs) /\ w1 \in Workers /\ Ready(rs1, first, w1) /\ o1 \in Seq(Replies)
  BY <1>1 DEF Ready, Kept
<1> HIDE DEF w1, o1
<1>2. /\ Ready(rs \o Paired(o2), first, w3) /\ o2 \in Seq(Replies)
      /\ w3.count = w1.count
  <2>1. CASE final
    <3> DEFINE said == "final"
    <3> DEFINE flag == TRUE
    <3> DEFINE sure == 92
    <3> DEFINE res == Result(said, flag, sure, v2, ts)
    <3>0. said \in Texts /\ flag \in BOOLEAN /\ sure \in Nat /\ flag
      <4>1. said \in Texts /\ sure \in Nat
        BY DEF Texts
      <4>2. flag \in BOOLEAN /\ flag
        BY Zenon
      <4> QED
        BY <4>1, <4>2, Zenon
    <3>r. res = Result("final", TRUE, 92, v2, ts)
      OBVIOUS
    <3> HIDE DEF said, flag, sure
    <3>1. Answer(rs1, first, w1, said, flag, sure, ts)
      BY <1>a, <1>b, <3>0 DEF Answer
    <3> HIDE DEF rs1
    <3>2. /\ Kept(Append(rs1, Pair(res)), first, v2) /\ v2.start = w1.start
          /\ StartAfter(Append(rs1, Pair(res)), Len(Append(rs1, Pair(res))), first)
               = IF flag THEN ts ELSE w1.start
          /\ res \in Replies
      BY <3>1, Answered
    <3> HIDE DEF res
    <3>3. w2 = v2 /\ w3 = SpanAfter(v2, ts) /\ r2 = res
      BY <2>1, <3>r
    <3>4. v2.count = w1.count /\ v2 \in Workers
      BY <1>b DEF Workers
    <3> HIDE DEF v2, w2, w3
    <3>5. w3 \in Workers /\ w3.count = v2.count /\ w3.seq = v2.seq /\ w3.start = ts
      BY <1>a, <3>3, <3>4 DEF Workers, SpanAfter
    <3>6. r2 \in Replies /\ r2 = res
      BY <3>2, <3>3
    <3> HIDE DEF r2
    <3>7. o2 = Append(o1, r2)
      BY <2>1, <1>b, SayOne
    <3>8. rs \o Paired(Append(o1, r2)) = Append(rs \o Paired(o1), Pair(r2))
      BY <1>a, <1>b, <3>6, PairedAppend
    <3>9. Ready(Append(rs1, Pair(r2)), first, w3)
      BY <3>0, <3>2, <3>5, <3>6 DEF Ready, Kept
    <3>10. Append(o1, r2) \in Seq(Replies)
      BY <1>b, <3>6, AppendProperties
    <3> HIDE DEF o2
    <3> QED
      BY <3>4, <3>5, <3>7, <3>8, <3>9, <3>10 DEF rs1
  <2>2. CASE ~final
    <3>1. o2 = o1
      BY <2>2, <1>b, SayOne
    <3>2. w3 = w1
      BY <2>2
    <3> HIDE DEF o2, w3
    <3> QED
      BY <3>1, <3>2, <1>b
  <2> QED
    BY <2>1, <2>2
<1> DEFINE rs2 == rs \o Paired(o2)
<1>c. /\ rs2 \in Seq(Pairs) /\ w3 \in Workers /\ Ready(rs2, first, w3) /\ o2 \in Seq(Replies)
  BY <1>2 DEF Ready, Kept
<1> HIDE DEF w3, o2
<1>3. /\ Kept(rs \o Paired(o3), first, w4) /\ w4.count = w3.count
      /\ ~end => Ready(rs \o Paired(o3), first, w4)
  <2>1. CASE end
    <3> DEFINE said == "end"
    <3> DEFINE flag == TRUE
    <3> DEFINE sure == 95
    <3> DEFINE res == Result(said, flag, sure, v4, ts)
    <3>0. said \in Texts /\ flag \in BOOLEAN /\ sure \in Nat /\ flag
      <4>1. said \in Texts /\ sure \in Nat
        BY DEF Texts
      <4>2. flag \in BOOLEAN /\ flag
        BY Zenon
      <4> QED
        BY <4>1, <4>2, Zenon
    <3>r. res = Result("end", TRUE, 95, v4, ts)
      OBVIOUS
    <3> HIDE DEF said, flag, sure
    <3>1. Answer(rs2, first, w3, said, flag, sure, ts)
      BY <1>a, <1>c, <3>0 DEF Answer
    <3> HIDE DEF rs2
    <3>2. /\ Kept(Append(rs2, Pair(res)), first, v4) /\ v4.start = w3.start
          /\ StartAfter(Append(rs2, Pair(res)), Len(Append(rs2, Pair(res))), first)
               = IF flag THEN ts ELSE w3.start
          /\ res \in Replies
      BY <3>1, Answered
    <3> HIDE DEF res
    <3>3. w4 = v4 /\ r3 = res
      BY <2>1, <3>r
    <3>4. v4.count = w3.count
      BY <1>c DEF Workers
    <3> HIDE DEF v4, w4
    <3>6. r3 \in Replies /\ r3 = res
      BY <3>2, <3>3
    <3> HIDE DEF r3
    <3>7. o3 = Append(o2, r3)
      BY <2>1, <1>c, SayOne
    <3>8. rs \o Paired(Append(o2, r3)) = Append(rs \o Paired(o2), Pair(r3))
      BY <1>a, <1>c, <3>6, PairedAppend
    <3> HIDE DEF o3
    <3>9. Kept(rs \o Paired(o3), first, w4)
      BY <3>2, <3>3, <3>6, <3>7, <3>8 DEF rs2
    <3> HIDE DEF end
    <3> QED
      BY <2>1, <3>3, <3>4, <3>9
  <2>2. CASE ~end
    <3>1. o3 = o2
      BY <2>2, <1>c, SayOne
    <3>2. w4 = w3
      BY <2>2
    <3> HIDE DEF o3, w4
    <3>3. Kept(rs \o Paired(o3), first, w4) /\ Ready(rs \o Paired(o3), first, w4)
      BY <3>1, <3>2, <1>c DEF Ready
    <3> QED
      BY <3>2, <3>3
  <2> QED
    BY <2>1, <2>2
<1> HIDE DEF o3, w4
<1> QED
  BY <1>0, <1>1, <1>2, <1>3

Wires == {Wired(c) : c \in Emits}

(* The worker has heard the chunks from the first on, and its results go   *)
(* with them.  After the last chunk it has no next span.                   *)
Answers ==
  /\ heard \in Seq(Wires) /\ Len(heard) <= Len(chunks)
  /\ \A k \in 1 .. Len(heard) : heard[k] = Wired(chunks[k])
  /\ ai \in Workers /\ ai.count = Len(heard)
  /\ heard = <<>> => results = <<>> /\ ai.seq = 0
  /\ heard # <<>> =>
       /\ Kept(results, heard[1].RTPTimestamp, ai)
       /\ ~heard[Len(heard)].EndOfStream => Ready(results, heard[1].RTPTimestamp, ai)

LEMMA AnswersInit == MediaInit => Answers
<1> SUFFICES ASSUME MediaInit PROVE Answers
  OBVIOUS
<1>1. /\ heard = <<>> /\ chunks = <<>> /\ results = <<>>
      /\ ai = [count |-> 0, seq |-> 0, start |-> 0, language |-> ""]
  BY DEF MediaInit
<1>2. Len(heard) = 0 /\ heard \in Seq(Wires) /\ Len(chunks) = 0
  BY <1>1, EmptySeq
<1>3. ai \in Workers /\ ai.count = 0 /\ ai.seq = 0
  <2>1. "" \in Languages
    BY DEF Languages
  <2> QED
    BY <1>1, <2>1 DEF Workers
<1>4. \A k \in 1 .. Len(heard) : heard[k] = Wired(chunks[k])
  BY <1>2
<1>5. Len(heard) <= Len(chunks)
  BY <1>2
<1> QED
  BY <1>1, <1>2, <1>3, <1>4, <1>5 DEF Answers

LEMMA WiredFacts ==
  ASSUME cfg \in Configs, NEW c \in Emits
  PROVE  /\ Wired(c) \in Wires
         /\ Wired(c).RTPTimestamp \in Nat /\ Wired(c).EndOfStream \in BOOLEAN
         /\ Wired(c).EndOfStream = c.EndOfStream
         /\ Wired(c).Language \in Languages
<1>1. c.RTPTimestamp \in Nat /\ c.EndOfStream \in BOOLEAN
  BY DEF Emits, Emit
<1> QED
  BY <1>1 DEF Wires, Wired, Languages

LEMMA AnswersSame ==
  ASSUME Answers, UNCHANGED <<cfg, heard, ai, results>>, Longer(chunks, chunks')
  PROVE  Answers'
<1>1. Wires' = Wires /\ \A c : Wired(c)' = Wired(c)
  BY DEF Wires, Wired
<1>2. /\ Len(heard) \in Nat /\ Len(heard) <= Len(chunks) /\ Len(chunks) <= Len(chunks')
      /\ Len(chunks) \in Nat /\ Len(chunks') \in Nat
      /\ \A k \in 1 .. Len(chunks) : chunks'[k] = chunks[k]
  BY LenProperties DEF Answers, Longer
<1>3. ASSUME NEW k \in 1 .. Len(heard)
      PROVE  heard'[k] = Wired(chunks[k])'
  <2>1. k \in 1 .. Len(chunks)
    BY <1>2
  <2>2. heard[k] = Wired(chunks[k]) /\ chunks'[k] = chunks[k]
    BY <2>1, <1>2 DEF Answers
  <2> QED
    BY <2>2 DEF Wired
<1>4. Len(heard') <= Len(chunks')
  BY <1>2
<1> QED
  BY <1>1, <1>3, <1>4 DEF Answers

LEMMA AnswersTransmit ==
  ASSUME Answers, Route, Stream, Transmit
  PROVE  Answers'
<1> DEFINE l == Len(heard)
<1> DEFINE c == Wired(chunks[l + 1])
<1> DEFINE w == [ai EXCEPT !.count = @ + 1,
                           !.start = IF ai.count = 0 THEN c.RTPTimestamp ELSE @,
                           !.language = IF ai.count # 0 THEN @
                                        ELSE IF c.Language = "" THEN "vi" ELSE c.Language]
<1> DEFINE begin == IF heard = <<>> THEN c.RTPTimestamp ELSE heard[1].RTPTimestamp
<1>1. /\ l < Len(chunks) /\ cfg' = cfg /\ chunks' = chunks
      /\ heard' = Append(heard, c)
      /\ ai' = Reply(c, w, results).state
      /\ results' = results \o Paired(Reply(c, w, results).out)
  <2>1. Unmarshal(ChunkIn, Marshal(ChunkOut, Wired(chunks[Len(heard) + 1]))) = c
    BY ChunkArrives
  <2>2. Recognize(c) = Reply(c, w, results)
    BY DEF Recognize, Reply
  <2>3. /\ l < Len(chunks) /\ cfg' = cfg /\ chunks' = chunks
        /\ heard' = Append(heard, c)
        /\ ai' = Recognize(c).state
        /\ results' = results \o Paired(Recognize(c).out)
    <3> HIDE DEF c
    <3> QED
      BY <2>1 DEF Transmit, Paired, pipeVars
  <2> QED
    BY <2>2, <2>3
<1>2. /\ heard \in Seq(Wires) /\ l \in Nat /\ (heard = <<>> <=> l = 0)
      /\ chunks \in Seq(Emits) /\ Len(chunks) \in Nat
  BY LenProperties, EmptySeq DEF Answers, Stream
<1>3. l + 1 \in 1 .. Len(chunks) /\ chunks[l + 1] \in Emits
  <2>1. l + 1 \in 1 .. Len(chunks)
    <3>1. l < Len(chunks)
      BY <1>1
    <3> HIDE DEF l
    <3> QED
      BY <1>2, <3>1
  <2> QED
    BY <2>1, <1>2, ElementOfSeq
<1>4. /\ c \in Wires /\ c.RTPTimestamp \in Nat /\ c.EndOfStream \in BOOLEAN
      /\ c.Language \in Languages
  <2> DEFINE x == chunks[l + 1]
  <2> HIDE DEF x
  <2>1. cfg \in Configs /\ x \in Emits
    BY <1>3 DEF Route, x
  <2>2. /\ Wired(x) \in Wires /\ Wired(x).RTPTimestamp \in Nat
        /\ Wired(x).EndOfStream \in BOOLEAN /\ Wired(x).Language \in Languages
    BY <2>1, WiredFacts
  <2> QED
    BY <2>2 DEF x
<1> HIDE DEF c
<1>5. /\ w \in Workers /\ w.count = l + 1 /\ w.seq = ai.seq
      /\ w.start = IF heard = <<>> THEN c.RTPTimestamp ELSE ai.start
  <2>1. ai \in Workers /\ ai.count = l
    BY DEF Answers
  <2>2. "vi" \in Languages
    BY DEF Languages
  <2> DEFINE begins == IF ai.count = 0 THEN c.RTPTimestamp ELSE ai.start
  <2> DEFINE speaks == IF ai.count # 0 THEN ai.language
                       ELSE IF c.Language = "" THEN "vi" ELSE c.Language
  <2>3. begins \in Nat /\ speaks \in Languages
    BY <2>1, <2>2, <1>4 DEF Workers
  <2>4. begins = IF heard = <<>> THEN c.RTPTimestamp ELSE ai.start
    BY <2>1, <1>2
  <2>5. w = [ai EXCEPT !.count = @ + 1, !.start = begins, !.language = speaks]
    OBVIOUS
  <2> HIDE DEF begins, speaks, w
  <2>6. l + 1 \in Nat
    BY <1>2
  <2>7. w \in Workers
    BY <2>1, <2>3, <2>5, <2>6 DEF Workers
  <2>8. w.count = l + 1 /\ w.seq = ai.seq /\ w.start = begins
    BY <2>1, <2>5 DEF Workers
  <2> QED
    BY <2>4, <2>7, <2>8
<1> HIDE DEF w
<1>6. Ready(results, begin, w)
  <2>1. CASE heard = <<>>
    <3>1. results = <<>> /\ ai.seq = 0 /\ begin = c.RTPTimestamp /\ w.start = begin
      BY <2>1, <1>5 DEF Answers
    <3>2. Len(results) = 0 /\ results \in Seq(Pairs)
      BY <3>1, EmptySeq
    <3> HIDE DEF begin
    <3>3. FinalsIn(results, 0) = {}
      BY DEF FinalsIn
    <3>4. HasLast(results, 0) /\ StartAfter(results, 0, begin) = begin
      BY <3>3 DEF HasLast, StartAfter
    <3>5. Spans(results, begin)
      BY <3>2 DEF Spans
    <3> QED
      BY <3>1, <3>2, <3>4, <3>5, <1>5 DEF Ready, Kept
  <2>2. CASE heard # <<>>
    <3>1. l \in 1 .. Len(chunks) /\ l # Len(chunks) /\ l \in 1 .. Len(heard)
      BY <2>2, <1>1, <1>2
    <3>2. ~chunks[l].EndOfStream
      <4>1. DOMAIN chunks = 1 .. Len(chunks)
        BY <1>2, LenProperties
      <4>2. CASE open
        BY <3>1, <4>2 DEF Stream, Runs, FullChunks
      <4>3. CASE ~open
        BY <3>1, <4>1, <4>3 DEF Stream, Flushed
      <4> QED
        BY <4>2, <4>3
    <3>3. heard[l] = Wired(chunks[l])
      BY <3>1 DEF Answers
    <3>4. ~heard[l].EndOfStream
      <4>1. chunks[l] \in Emits /\ cfg \in Configs
        BY <3>1, <1>2, ElementOfSeq DEF Route
      <4>2. Wired(chunks[l]).EndOfStream = chunks[l].EndOfStream
        BY <4>1, WiredFacts
      <4> QED
        BY <3>2, <3>3, <4>2
    <3>5. Ready(results, begin, ai)
      BY <2>2, <3>4 DEF Answers
    <3> HIDE DEF begin
    <3> QED
      BY <2>2, <3>5, <1>5 DEF Ready, Kept
  <2> QED
    BY <2>1, <2>2
<1>7. Heard(c, begin, w, results)
  <2> HIDE DEF begin
  <2> QED
    BY <1>4, <1>6 DEF Heard
<1>8. /\ Kept(results', begin, ai') /\ ai'.count = l + 1
      /\ ~c.EndOfStream => Ready(results', begin, ai')
  <2> HIDE DEF begin
  <2>1. /\ Kept(results \o Paired(Reply(c, w, results).out), begin, Reply(c, w, results).state)
        /\ Reply(c, w, results).state.count = w.count
        /\ ~c.EndOfStream => Ready(results \o Paired(Reply(c, w, results).out), begin,
                                   Reply(c, w, results).state)
    BY <1>7, ReplyKeeps
  <2> QED
    BY <2>1, <1>1, <1>5
<1>9. /\ heard' \in Seq(Wires) /\ Len(heard') = l + 1 /\ heard'[l + 1] = c
      /\ \A k \in 1 .. l : heard'[k] = heard[k]
  BY <1>1, <1>2, <1>4, AppendProperties
<1>10. heard' # <<>> /\ heard'[1].RTPTimestamp = begin
  <2>1. heard' # <<>>
    BY <1>2, <1>9, EmptySeq
  <2>2. CASE heard = <<>>
    BY <2>2, <1>2, <1>9
  <2>3. CASE heard # <<>>
    <3>1. 1 \in 1 .. l
      BY <2>3, <1>2
    <3> QED
      BY <2>3, <3>1, <1>9
  <2> QED
    BY <2>1, <2>2, <2>3
<1> HIDE DEF begin
<1>11. Wires' = Wires /\ \A x : Wired(x)' = Wired(x)
  BY <1>1 DEF Wires, Wired
<1>12. Len(heard') <= Len(chunks')
  BY <1>1, <1>2, <1>9
<1>13. ASSUME NEW k \in 1 .. Len(heard')
       PROVE  heard'[k] = Wired(chunks[k])'
  <2>1. Wired(chunks[k])' = Wired(chunks[k])
    BY <1>1 DEF Wired
  <2>2. k \in 1 .. l \/ k = l + 1
    BY <1>2, <1>9
  <2>3. CASE k \in 1 .. l
    BY <2>1, <2>3, <1>9 DEF Answers
  <2>4. CASE k = l + 1
    BY <2>1, <2>4, <1>9 DEF c
  <2> QED
    BY <2>2, <2>3, <2>4
<1>14. ai' \in Workers
  BY <1>8 DEF Kept
<1> QED
  BY <1>8, <1>9, <1>10, <1>11, <1>12, <1>13, <1>14 DEF Answers

LEMMA AnswersStep ==
  ASSUME Answers, Route, Stream, [MediaNext]_mediaVars
  PROVE  Answers'
<1>1. CASE Transmit
  BY <1>1, AnswersTransmit
<1>2. CASE ~Transmit
  <2>1. UNCHANGED <<cfg, heard, ai, results>>
    BY <1>2 DEF MediaNext, mediaVars, SendFrame, Rewind, Lose, Damage, LoadCounter, Receive,
                ParseFails, RouteBySSRC, RouteByAddr, DropUnknown, Enqueue, Process,
                ProcessCancelled, IngressStep, CloseSession, aiVars
  <2>2. Longer(chunks, chunks')
    BY StreamStep
  <2> QED
    BY <2>1, <2>2, AnswersSame
<1> QED
  BY <1>1, <1>2
-----------------------------------------------------------------------------
(* The invariant, and what follows from it.                                *)

MediaIInv == Route /\ Counts /\ Stream /\ TimestampsPlaceAudio /\ Answers

LEMMA AnswersProperties ==
  ASSUME Answers
  PROVE  MessagesArriveIntact /\ SpansAreContiguous
<1>1. /\ heard \in Seq(Wires) /\ DOMAIN heard = 1 .. Len(heard)
      /\ (heard = <<>> <=> Len(heard) = 0)
  BY LenProperties, EmptySeq DEF Answers
<1>2. CASE heard = <<>>
  <2>1. results = <<>> /\ DOMAIN results = {} /\ DOMAIN heard = {}
    BY <1>2 DEF Answers
  <2> QED
    BY <2>1 DEF MessagesArriveIntact, SpansAreContiguous
<1>3. CASE heard # <<>>
  <2> DEFINE begin == heard[1].RTPTimestamp
  <2>1. /\ results \in Seq(Pairs) /\ Spans(results, begin)
        /\ \A k \in 1 .. Len(results) : results[k].got = results[k].sent
    BY <1>3 DEF Answers, Kept
  <2>2. DOMAIN results = 1 .. Len(results)
    BY <2>1, LenProperties
  <2>3. MessagesArriveIntact
    BY <1>1, <2>1, <2>2 DEF MessagesArriveIntact, Answers
  <2>4. SpansAreContiguous
    <3> SUFFICES ASSUME NEW k \in 1 .. Len(results)
                 PROVE  LET r == results[k].got
                            finals == {j \in 1 .. k - 1 : results[j].got.IsFinal}
                        IN /\ r.Seq = k
                           /\ r.TsStart = IF finals = {} THEN begin
                                ELSE results[CHOOSE j \in finals :
                                               \A i \in finals : i <= j].got.TsEnd
      BY <2>2 DEF SpansAreContiguous
    <3>1. /\ results[k].got.Seq = k
          /\ results[k].got.TsStart = StartAfter(results, k - 1, begin)
      BY <2>1 DEF Spans
    <3> HIDE DEF begin
    <3> QED
      BY <3>1 DEF StartAfter, FinalsIn
  <2> QED
    BY <2>3, <2>4
<1> QED
  BY <1>2, <1>3

LEMMA MediaTyped ==
  ASSUME MediaIInv
  PROVE  MediaTypeOK
<1>1. cfg \in Configs /\ Sender /\ Wire /\ Counts /\ Stream /\ Answers
  BY DEF MediaIInv, Route
<1>2. /\ tx \in [pos : 1 .. Len(cfg.file) + 1, seq : 0 .. SeqWrap - 1,
                 ts : 0 .. TsWrap - 1, sent : Nat, read : Nat]
  BY <1>1 DEF Sender
<1>3. /\ Len(net) <= 1 /\ Len(rx.pkt) <= 1 /\ Len(queue) <= QueueCap
      /\ rx.step \in {"reading", "parsing", "routing", "queueing"}
      /\ rx.step = "reading" <=> rx.pkt = <<>>
  BY <1>1 DEF Wire
<1>4. cnt \in [ToSet(CounterOrder) -> Nat]
  BY <1>1 DEF Counts
<1>5. pipe.phase \in 0 .. cfg.inRate - 1 /\ Len(pipe.chunker.buf) < ChunkSize
  BY <1>1 DEF Stream
<1>6. Len(heard) <= Len(chunks)
  BY <1>1 DEF Answers
<1> QED
  BY <1>1, <1>2, <1>3, <1>4, <1>5, <1>6 DEF MediaTypeOK

LEMMA MediaIInvInit == MediaInit => MediaIInv
<1> SUFFICES ASSUME MediaInit PROVE MediaIInv
  OBVIOUS
<1>1. TimestampsPlaceAudio
  <2>1. fed = <<>>
    BY DEF MediaInit
  <2> QED
    BY <2>1 DEF TimestampsPlaceAudio
<1> QED
  BY <1>1, RouteInit, CountsInit, StreamInit, AnswersInit DEF MediaIInv

LEMMA MediaIInvStep == MediaIInv /\ [MediaNext]_mediaVars => MediaIInv'
<1> SUFFICES ASSUME MediaIInv, [MediaNext]_mediaVars PROVE MediaIInv'
  OBVIOUS
<1>1. Route /\ Counts /\ Stream /\ TimestampsPlaceAudio /\ Answers
  BY DEF MediaIInv
<1>2. Route'
  BY <1>1, RouteStep
<1>3. Counts'
  BY <1>1, CountsStep
<1>4. Stream'
  BY <1>1, StreamStep
<1>5. TimestampsPlaceAudio'
  BY <1>1, PlacedStep
<1>6. Answers'
  BY <1>1, AnswersStep
<1> QED
  BY <1>2, <1>3, <1>4, <1>5, <1>6 DEF MediaIInv

LEMMA MediaIInvHolds == MediaSpec => []MediaIInv
BY MediaIInvInit, MediaIInvStep, PTL DEF MediaSpec

LEMMA MediaIInvGives ==
  MediaIInv => MediaPathInv /\ AudioIsReference /\ TimestampsPlaceAudio /\ MessagesArriveIntact
<1> SUFFICES ASSUME MediaIInv
             PROVE  MediaPathInv /\ AudioIsReference /\ TimestampsPlaceAudio
                    /\ MessagesArriveIntact
  OBVIOUS
<1>1. Route /\ Counts /\ Stream /\ TimestampsPlaceAudio /\ Answers
  BY DEF MediaIInv
<1>2. EveryPacketCounted /\ SnapshotCovers
  BY <1>1, CountsCover
<1>3. AudioIsReference /\ ChunksAreTimed
  BY <1>1, StreamProperties
<1>4. MessagesArriveIntact /\ SpansAreContiguous
  BY <1>1, AnswersProperties
<1>5. MediaTypeOK
  BY MediaTyped
<1> QED
  BY <1>1, <1>2, <1>3, <1>4, <1>5 DEF MediaPathInv

(* Every datagram the ingress reads is counted under one outcome, also in  *)
(* what a monitor reads meanwhile, the chunks carry the time at which they *)
(* begin, messages arrive intact, and the spans of the worker's results    *)
(* follow each other.                                                      *)
THEOREM MediaPathKept == MediaSpec => []MediaPathInv
BY MediaIInvHolds, MediaIInvGives, PTL

(* For all rates, channels and packet sizes the resampler and the chunker  *)
(* put out the input resampled as one piece: no sample is lost, doubled or *)
(* shifted where packets and chunks meet (resampler.go, chunker.go).       *)
THEOREM AudioIsWhole == MediaSpec => []AudioIsReference
BY MediaIInvHolds, MediaIInvGives, PTL

(* A timestamp tells which frame of the file a packet holds, with frames   *)
(* that are not sent, lost packets, a file begun again and timestamps that *)
(* wrap (the sender's loop, the ingress and the pipeline).                 *)
THEOREM TimestampsTell == MediaSpec => []TimestampsPlaceAudio
BY MediaIInvHolds, MediaIInvGives, PTL

(* What either program marshals the other unmarshals as it was, zero       *)
(* values included (marshalAudioChunk and unmarshalRecognitionResult with  *)
(* their counterparts in the worker).                                      *)
THEOREM MessagesAreIntact == MediaSpec => []MessagesArriveIntact
BY MediaIInvHolds, MediaIInvGives, PTL
=============================================================================
