-------------------------- MODULE DistSessionProofs --------------------------
(***************************************************************************)
(* The sessions of the coordinator and the workers are proved exact for any*)
(* vocabulary, prompts, chunk and window sizes and any number of faults.   *)
(* Workers, relay, network and faults leave the owner of the session alone *)
(* (OwnerKeeps); what they do to connections is closed under Net.  The     *)
(* owner's actions have one lemma each, over three ways a call can move:   *)
(* it begins (Begun), it rests (Resting), its pipeline goes on             *)
(* (PipeGoesOn).                                                           *)
(***************************************************************************)
EXTENDS DistSession, TLAPS

LEMMA Least ==
  ASSUME NEW a \in Int, NEW b \in Int
  PROVE  Min({a, b}) = IF a <= b THEN a ELSE b
  BY DEF Min

LEMMA Ceiling ==
  ASSUME NEW n \in Nat, NEW c \in Nat \ {0}
  PROVE  /\ (n + c - 1) \div c \in Nat
         /\ ((n + c - 1) \div c) * c >= n
         /\ \A i \in Nat : i < (n + c - 1) \div c => i * c < n
         /\ n > 0 => (n + c - 1) \div c > 0
<1> DEFINE q == (n + c - 1) \div c
           m == (n + c - 1) % c
<1>1. q \in Int /\ m \in 0..(c - 1) /\ n + c - 1 = c * q + m
  BY SMT
<1> HIDE DEF q, m
<1>2. q >= 0
  BY <1>1, SMTT(30)
<1>3. q * c >= n
  BY <1>1, <1>2, SMTT(30)
<1>4. ASSUME NEW i \in Nat, i < q PROVE i * c < n
  BY <1>1, <1>2, <1>4, SMTT(30)
<1>5. n > 0 => q > 0
  BY <1>1, <1>2, SMTT(30)
<1>6. QED
  BY <1>2, <1>1, <1>3, <1>4, <1>5 DEF q

\* The chunks of a target, and what precedes them.
LEMMA Chunks ==
  ASSUME call \in Calls, NEW pos \in Nat, pos <= Total
  PROVE  /\ Total \in Nat /\ Prefix(pos) \in Seq(Tokens)
         /\ Prefix(pos) = <<>> => pos = 0
         /\ pos = Total => Prefix(pos) = call.target
         /\ pos < Total => Span(pos) \in Seq(Tokens) /\ Span(pos) # <<>>
<1>1. call.target \in Seq(Tokens) /\ Total \in Nat /\ ChunkCap \in Nat \ {0}
  BY DistAssumption DEF Calls, Total
<1> DEFINE t == call.target
           m == Min({pos + ChunkCap, Total})
<1>2. Prefix(pos) = SubSeq(t, 1, pos) /\ t = call.target
  BY DEF Prefix
<1>3. Total = Len(t)
  BY DEF Total
<1>4. Span(pos) = SubSeq(t, pos + 1, m)
  BY DEF Span
<1>5. m = IF pos + ChunkCap <= Total THEN pos + ChunkCap ELSE Total
  BY <1>1, Least
<1>6. t \in Seq(Tokens)
  BY <1>1
<1> HIDE DEF t, m
<1>7. SubSeq(t, 1, pos) \in Seq(Tokens) /\ Len(SubSeq(t, 1, pos)) = pos
  BY <1>1, <1>3, <1>6
<1>8. pos = Total => SubSeq(t, 1, pos) = t
  BY <1>3, <1>6
<1>9. pos < Total => SubSeq(t, pos + 1, m) \in Seq(Tokens) /\ Len(SubSeq(t, pos + 1, m)) > 0
  BY <1>1, <1>3, <1>5, <1>6
<1>10. Len(<<>>) = 0
  OBVIOUS
<1>11. ASSUME pos < Total PROVE Span(pos) \in Seq(Tokens) /\ Span(pos) # <<>>
  <2>1. Span(pos) \in Seq(Tokens) /\ Len(Span(pos)) > 0
    BY <1>4, <1>9, <1>11, Zenon
  <2>2. QED
    BY <1>10, <2>1
<1>12. Prefix(pos) \in Seq(Tokens) /\ (Prefix(pos) = <<>> => pos = 0)
  BY <1>2, <1>7, <1>10
<1>13. QED
  BY <1>1, <1>2, <1>8, <1>11, <1>12

\* The chunks of a pipelined prefill cover the target and no more.
LEMMA PipelinedChunks ==
  ASSUME call \in Calls, call.pos < Total
  PROVE  /\ Count \in Nat /\ Count > 0
         /\ \A i \in Nat : i < Count => ChunkPos(i) \in Nat /\ ChunkPos(i) < Total
         /\ ChunkPos(Count) >= Total
         /\ ChunkPos(0) = call.pos
         /\ \A i \in Nat : ChunkPos(i) \in Nat /\ (ChunkPos(i) = 0 => i = 0)
<1>1. call.pos \in Nat /\ Total \in Nat /\ ChunkCap \in Nat \ {0}
  BY Chunks, DistAssumption DEF Calls, Total
<1> DEFINE n == Total - call.pos
           q == (n + ChunkCap - 1) \div ChunkCap
<1>2. n \in Nat /\ n > 0
  BY <1>1
<1>3. Count = q
  BY <1>1 DEF Count
<1>4. /\ q \in Nat /\ q * ChunkCap >= n
      /\ \A i \in Nat : i < q => i * ChunkCap < n
      /\ n > 0 => q > 0
  <2> HIDE DEF n
  <2>1. QED
    BY <1>1, <1>2, Ceiling
<1> HIDE DEF q
<1>5. \A i \in Nat : i * ChunkCap \in Nat /\ (i * ChunkCap = 0 => i = 0)
  BY <1>1, SMTT(30)
<1>6. \A i \in Nat : ChunkPos(i) = call.pos + i * ChunkCap
  BY DEF ChunkPos
<1>7. \A i \in Nat : i < q => ChunkPos(i) \in Nat /\ ChunkPos(i) < Total
  <2> SUFFICES ASSUME NEW i \in Nat, i < q PROVE ChunkPos(i) \in Nat /\ ChunkPos(i) < Total
    OBVIOUS
  <2> DEFINE x == i * ChunkCap
  <2>1. x \in Nat /\ x < n /\ ChunkPos(i) = call.pos + x
    BY <1>4, <1>5, <1>6
  <2> HIDE DEF x
  <2>2. QED
    BY <1>1, <2>1
<1>8. ChunkPos(q) >= Total
  <2> DEFINE x == q * ChunkCap
  <2>1. x \in Nat /\ x >= n /\ ChunkPos(q) = call.pos + x
    BY <1>4, <1>5, <1>6
  <2> HIDE DEF x
  <2>2. QED
    BY <1>1, <2>1
<1>9. ChunkPos(0) = call.pos
  BY <1>1, <1>6
<1>10. \A i \in Nat : ChunkPos(i) \in Nat /\ (ChunkPos(i) = 0 => i = 0)
  <2> SUFFICES ASSUME NEW i \in Nat PROVE ChunkPos(i) \in Nat /\ (ChunkPos(i) = 0 => i = 0)
    OBVIOUS
  <2> DEFINE x == i * ChunkCap
  <2>1. x \in Nat /\ (x = 0 => i = 0) /\ ChunkPos(i) = call.pos + x
    BY <1>5, <1>6
  <2> HIDE DEF x
  <2>2. QED
    BY <1>1, <2>1
<1>11. QED
  BY <1>2, <1>3, <1>4, <1>7, <1>8, <1>9, <1>10

-----------------------------------------------------------------------------
(* What slices and sockets stay.                                           *)

LEMMA FreshSlice == Fresh \in Slices /\ Fresh.exact = TRUE /\ Fresh.toks = <<>>
  BY DEF Fresh, Slices

LEMMA CommittedSlice ==
  ASSUME NEW s \in Slices, s.exact, NEW toks \in Seq(Tokens)
  PROVE  /\ Committed(s, toks, TRUE) \in Slices
         /\ Committed(s, toks, TRUE).valid = TRUE /\ Committed(s, toks, TRUE).exact = TRUE
         /\ toks # <<>> => Committed(s, toks, TRUE).toks # <<>>
<1>1. s.toks \in Seq(Tokens)
  BY DEF Slices
<1>2. s.toks \o toks \in Seq(Tokens) /\ (toks # <<>> => s.toks \o toks # <<>>)
  BY <1>1
<1>3. QED
  BY <1>2 DEF Committed, Slices

LEMMA SpoiledSlice ==
  ASSUME NEW s \in Slices
  PROVE  Spoiled(s) \in Slices /\ Spoiled(s).valid = FALSE
  BY DEF Spoiled, Slices

LEMMA SocketFields ==
  ASSUME NEW l \in Sockets
  PROVE  l.open \in BOOLEAN /\ l.work \in Seq(Frames) /\ l.res \in Seq(Answers)
  BY DEF Sockets

LEMMA SocketMade ==
  ASSUME NEW open \in BOOLEAN, NEW work \in Seq(Frames), NEW res \in Seq(Answers)
  PROVE  [open |-> open, work |-> work, res |-> res] \in Sockets
  BY DEF Sockets

LEMMA SocketSteps ==
  ASSUME NEW l \in Sockets
  PROVE  /\ [l EXCEPT !.open = FALSE] \in Sockets
         /\ [l EXCEPT !.work = <<>>] \in Sockets
         /\ [l EXCEPT !.open = FALSE, !.res = <<>>] \in Sockets
         /\ [l EXCEPT !.open = FALSE, !.work = <<>>] \in Sockets
         /\ \A f \in Frames : [l EXCEPT !.work = Append(@, f)] \in Sockets
         /\ l.work # <<>> => [l EXCEPT !.work = Tail(@)] \in Sockets /\ Head(l.work) \in Frames
         /\ l.res # <<>> => [l EXCEPT !.res = Tail(@)] \in Sockets /\ Head(l.res) \in Answers
         /\ \A r \in Answers : Reply(l, r) \in Sockets
<1>1. l.open \in BOOLEAN /\ l.work \in Seq(Frames) /\ l.res \in Seq(Answers)
  BY SocketFields
<1>2. <<>> \in Seq(Frames) /\ <<>> \in Seq(Answers)
  OBVIOUS
<1>3. \A f \in Frames : Append(l.work, f) \in Seq(Frames)
  BY <1>1
<1>4. \A r \in Answers : Append(l.res, r) \in Seq(Answers)
  BY <1>1
<1>5. l.work # <<>> => Tail(l.work) \in Seq(Frames) /\ Head(l.work) \in Frames
  BY <1>1
<1>6. l.res # <<>> => Tail(l.res) \in Seq(Answers) /\ Head(l.res) \in Answers
  BY <1>1
<1>7. \A r \in Answers : [l EXCEPT !.res = Append(@, r)] \in Sockets
  BY <1>4 DEF Sockets
<1>8. QED
  BY <1>1, <1>2, <1>3, <1>4, <1>5, <1>6, <1>7 DEF Sockets, Reply

LEMMA OpenedSocket ==
  /\ Shut \in Sockets /\ Opened \in Sockets
  /\ \A f \in Frames : [Opened EXCEPT !.work = <<f>>] \in Sockets
<1>1. <<>> \in Seq(Frames) /\ <<>> \in Seq(Answers) /\ \A f \in Frames : <<f>> \in Seq(Frames)
  OBVIOUS
<1>2. QED
  BY <1>1 DEF Shut, Opened, Sockets

\* What may be done to one connection.
LEMMA NetSteps ==
  ASSUME NEW n \in Net, NEW k \in Lines
  PROVE  /\ n[k] \in Sockets /\ Hop(0) \in Hops /\ 0 \in Lines
         /\ [n EXCEPT ![k].open = FALSE] \in Net
         /\ [n EXCEPT ![k].work = <<>>] \in Net
         /\ n[k].work # <<>> => /\ [n EXCEPT ![k].work = Tail(@)] \in Net
                                /\ Hop(k) \in Hops /\ Head(n[k].work) \in Frames
         /\ n[k].res # <<>> => /\ [n EXCEPT ![k].res = Tail(@)] \in Net
                               /\ Head(n[k].res) \in Answers
         /\ \A r \in Answers : [n EXCEPT ![k] = Reply(@, r)] \in Net
         /\ \A r \in Answers : [n EXCEPT ![k] = [Reply(@, r) EXCEPT !.open = FALSE]] \in Net
         /\ Hop(k) \in Hops => \A f \in Frames : [n EXCEPT ![k].work = Append(@, f)] \in Net
         /\ \A l \in Sockets : Hop(k) \in Hops \/ l.work = <<>> \/ l.work = n[k].work
              => [n EXCEPT ![k] = l] \in Net
<1>1. Hop(0) \in Hops /\ 0 \in Lines
  BY DistAssumption DEF Hop, Hops, Lines
<1>2. n \in [Lines -> Sockets] /\ n[k] \in Sockets /\ (Hop(k) \in Hops \/ n[k].work = <<>>)
  BY DEF Net
<1>3. ASSUME NEW l \in Sockets, Hop(k) \in Hops \/ l.work = <<>> \/ l.work = n[k].work
      PROVE  [n EXCEPT ![k] = l] \in Net
  BY <1>2, <1>3 DEF Net
<1> DEFINE l == n[k]
<1>4. /\ l \in Sockets /\ l.open \in BOOLEAN /\ l.work \in Seq(Frames) /\ l.res \in Seq(Answers)
  BY <1>2, SocketFields
<1>5. /\ [l EXCEPT !.open = FALSE] \in Sockets
      /\ [l EXCEPT !.work = <<>>] \in Sockets
      /\ \A f \in Frames : [l EXCEPT !.work = Append(@, f)] \in Sockets
      /\ l.work # <<>> => [l EXCEPT !.work = Tail(@)] \in Sockets /\ Head(l.work) \in Frames
      /\ l.res # <<>> => [l EXCEPT !.res = Tail(@)] \in Sockets /\ Head(l.res) \in Answers
      /\ \A r \in Answers : Reply(l, r) \in Sockets
  BY <1>2, SocketSteps
<1>6. /\ [l EXCEPT !.open = FALSE].work = l.work /\ [l EXCEPT !.work = <<>>].work = <<>>
      /\ [l EXCEPT !.res = Tail(@)].work = l.work
      /\ \A r \in Answers : Reply(l, r).work = l.work
  BY <1>4 DEF Sockets, Reply
<1>7. ASSUME NEW r \in Answers
      PROVE  /\ [Reply(l, r) EXCEPT !.open = FALSE] \in Sockets
             /\ [Reply(l, r) EXCEPT !.open = FALSE].work = l.work
  <2> DEFINE m == Reply(l, r)
  <2>1. m \in Sockets /\ m.work = l.work
    BY <1>5, <1>6
  <2> HIDE DEF m
  <2>2. [m EXCEPT !.open = FALSE] \in Sockets /\ [m EXCEPT !.open = FALSE].work = m.work
    BY <2>1, SocketSteps DEF Sockets
  <2>3. QED
    BY <2>1, <2>2 DEF m
<1>8. /\ [n EXCEPT ![k].open = FALSE] = [n EXCEPT ![k] = [l EXCEPT !.open = FALSE]]
      /\ [n EXCEPT ![k].work = <<>>] = [n EXCEPT ![k] = [l EXCEPT !.work = <<>>]]
      /\ [n EXCEPT ![k].work = Tail(@)] = [n EXCEPT ![k] = [l EXCEPT !.work = Tail(@)]]
      /\ [n EXCEPT ![k].res = Tail(@)] = [n EXCEPT ![k] = [l EXCEPT !.res = Tail(@)]]
      /\ \A f : [n EXCEPT ![k].work = Append(@, f)]
                  = [n EXCEPT ![k] = [l EXCEPT !.work = Append(@, f)]]
      /\ \A r : [n EXCEPT ![k] = Reply(@, r)] = [n EXCEPT ![k] = Reply(l, r)]
      /\ \A r : [n EXCEPT ![k] = [Reply(@, r) EXCEPT !.open = FALSE]]
                  = [n EXCEPT ![k] = [Reply(l, r) EXCEPT !.open = FALSE]]
  OBVIOUS
<1>9. l.work = n[k].work
  OBVIOUS
<1> HIDE DEF l
<1>10. [n EXCEPT ![k].open = FALSE] \in Net /\ [n EXCEPT ![k].work = <<>>] \in Net
  BY <1>3, <1>5, <1>6, <1>8, <1>9
<1>11. l.work # <<>> => [n EXCEPT ![k].work = Tail(@)] \in Net /\ Hop(k) \in Hops
  BY <1>2, <1>3, <1>5, <1>8, <1>9
<1>12. l.res # <<>> => [n EXCEPT ![k].res = Tail(@)] \in Net
  BY <1>3, <1>5, <1>6, <1>8, <1>9
<1>13. /\ \A r \in Answers : [n EXCEPT ![k] = Reply(@, r)] \in Net
       /\ \A r \in Answers : [n EXCEPT ![k] = [Reply(@, r) EXCEPT !.open = FALSE]] \in Net
  <2>1. ASSUME NEW x \in Sockets, x.work = l.work PROVE [n EXCEPT ![k] = x] \in Net
    BY <1>3, <1>9, <2>1
  <2>2. \A r \in Answers : [n EXCEPT ![k] = Reply(l, r)] \in Net
    BY <1>5, <1>6, <2>1
  <2>3. \A r \in Answers : [n EXCEPT ![k] = [Reply(l, r) EXCEPT !.open = FALSE]] \in Net
    BY <1>7, <2>1
  <2>4. QED
    BY <1>8, <2>2, <2>3
<1>14. Hop(k) \in Hops => \A f \in Frames : [n EXCEPT ![k].work = Append(@, f)] \in Net
  BY <1>3, <1>5, <1>8
<1>15. QED
  BY <1>1, <1>2, <1>3, <1>5, <1>10, <1>11, <1>12, <1>13, <1>14 DEF l

LEMMA Facts ==
  ASSUME DistInv
  PROVE  /\ line \in Net /\ fwd \in Lines /\ 0 \in Lines /\ Hop(0) \in Hops
         /\ call \in Calls /\ own \in Slices /\ pending \in Seq(Int)
         /\ plan \in Plans
         /\ \A k \in Lines : line[k] \in Sockets
         /\ \A h \in Hops : kv[h] \in Slices
<1>1. 0 \in Lines /\ Hop(0) \in Hops
  BY DistAssumption DEF Hop, Hops, Lines
<1>2. \A k \in Lines : line[k] \in Sockets
  BY DEF DistInv, TypeOK, Net
<1>3. QED
  BY <1>1, <1>2 DEF DistInv, TypeOK

-----------------------------------------------------------------------------
(* Workers, network and faults: what they do to the owner of the session is*)
(* at most to note that its call is not a calm one.                        *)

LEMMA OwnerKeeps ==
  ASSUME DistInv, UNCHANGED <<own, logits, last>>,
         call' = call \/ call' = [call EXCEPT !.calm = FALSE]
  PROVE  call' \in Calls /\ SliceExtends' /\ LogitsFollow'
<1>1. call \in Calls
  BY Facts
<1>2. call' \in Calls
  BY <1>1 DEF Calls
<1>3. /\ call'.pc = call.pc /\ call'.target = call.target /\ call'.pos = call.pos
      /\ call'.reset = call.reset /\ call'.sent = call.sent /\ call'.got = call.got
      /\ call'.rc = call.rc /\ call'.spanned = call.spanned
  BY <1>1 DEF Calls
<1>4. Total' = Total /\ Count' = Count /\ Now' = Now
  BY <1>3 DEF Total, Count, Now
<1>5. SliceExtends'
  BY <1>3, <1>4 DEF DistInv, SliceExtends
<1>6. LogitsFollow'
  BY <1>3, <1>4 DEF DistInv, LogitsFollow, SpannedCallExact
<1>7. QED
  BY <1>2, <1>5, <1>6

\* One fault less to come.
LEMMA FaultTypes ==
  ASSUME DistInv, env' = [env EXCEPT !.left = @ - 1]
  PROVE  env' \in [pipeline : BOOLEAN, cache : BOOLEAN, prompts : SUBSET Seq(Tokens),
                   left : Int]
<1>1. env \in [pipeline : BOOLEAN, cache : BOOLEAN, prompts : SUBSET Seq(Tokens), left : Int]
  BY DEF DistInv, TypeOK
<1>2. QED
  BY <1>1

LEMMA StaleTypes ==
  ASSUME DistInv, plan' = Stale(plan)
  PROVE  plan' \in Plans
  BY Facts DEF Stale, Plans

\* The frame a worker takes, and what it makes of it.
LEMMA ServedFrame ==
  ASSUME DistInv, NEW k \in Lines, line[k].work # <<>>
  PROVE  LET f == Head(line[k].work)
             s == IF f.reset THEN Fresh ELSE kv[Hop(k)]
         IN /\ Hop(k) \in Hops /\ f \in Frames /\ s \in Slices
            /\ [line EXCEPT ![k].work = Tail(@)] \in Net
            /\ Answer(f, FALSE, FALSE) \in Answers
            /\ Spoiled(s) \in Slices
            /\ Matches(s, f) /\ InPlace(s, f) =>
                 /\ Evaluated(s, f) \in Slices
                 /\ Answer(f, TRUE, Evaluated(s, f).exact) \in Answers
                 /\ [f EXCEPT !.exact = Evaluated(s, f).exact] \in Frames
<1> DEFINE f == Head(line[k].work)
           s == IF f.reset THEN Fresh ELSE kv[Hop(k)]
<1>1. /\ Hop(k) \in Hops /\ f \in Frames
      /\ [line EXCEPT ![k].work = Tail(@)] \in Net
  BY Facts, NetSteps
<1>2. s \in Slices
  BY <1>1, Facts, FreshSlice
<1>3. Spoiled(s) \in Slices
  <2> HIDE DEF s
  <2>1. QED
    BY <1>2, SpoiledSlice
<1>4. /\ f.req \in Int /\ f.prefix \in Seq(Tokens) /\ f.toks \in Seq(Tokens)
      /\ f.exact = TRUE /\ f.reset \in BOOLEAN /\ (f.prefix = <<>> => f.reset)
  BY <1>1 DEF Frames
<1>5. f.prefix \o f.toks \in Seq(Tokens)
  BY <1>4
<1>6. ASSUME Matches(s, f), InPlace(s, f)
      PROVE  s.exact = TRUE /\ s.toks = f.prefix
  <2>1. s.exact = TRUE
    <3>1. CASE f.reset
      BY <3>1, FreshSlice
    <3>2. CASE ~f.reset
      <4>1. s.valid
        BY <1>4, <1>6, <3>2 DEF InPlace
      <4>2. QED
        BY <1>2, <4>1 DEF Slices
    <3>3. QED
      BY <3>1, <3>2
  <2>2. QED
    BY <1>6, <2>1 DEF Matches
<1> HIDE DEF f, s
<1>7. Answer(f, FALSE, FALSE) \in Answers /\ Answer(f, TRUE, TRUE) \in Answers
  BY <1>4, <1>5 DEF Answer, Answers
<1>8. ASSUME Matches(s, f), InPlace(s, f)
      PROVE  /\ Evaluated(s, f) \in Slices
             /\ Answer(f, TRUE, Evaluated(s, f).exact) \in Answers
             /\ [f EXCEPT !.exact = Evaluated(s, f).exact] \in Frames
  <2>1. Evaluated(s, f) = Committed(s, f.toks, TRUE)
    BY <1>4, <1>6, <1>8 DEF Evaluated
  <2>2. Evaluated(s, f) \in Slices /\ Evaluated(s, f).exact = TRUE
    BY <1>2, <1>4, <1>6, <1>8, <2>1, CommittedSlice
  <2>3. [f EXCEPT !.exact = TRUE] = f
    BY <1>1, <1>4 DEF Frames
  <2>4. QED
    BY <1>1, <1>7, <2>2, <2>3
<1>9. QED
  BY <1>1, <1>2, <1>3, <1>7, <1>8 DEF f, s

LEMMA ForwardTypes ==
  ASSUME DistInv, NHops = 2, NEW f \in Frames, NEW rest \in Net, Forward(f, rest)
  PROVE  line' \in Net /\ fwd' \in Lines /\ pending' \in Seq(Int)
<1>1. \A k \in Lines : Hop(k) \in Hops
  BY DEF Hop, Hops
<1>2. /\ fwd \in Lines /\ pending \in Seq(Int) /\ 0 \in Lines
      /\ f.req \in Int /\ f.prefix \in Seq(Tokens) /\ f.toks \in Seq(Tokens)
  BY Facts DEF Frames
<1>3. Answer(f, FALSE, FALSE) \in Answers
  <2>1. f.prefix \o f.toks \in Seq(Tokens)
    BY <1>2
  <2>2. QED
    BY <1>2, <2>1 DEF Answer, Answers
<1>4. CASE /\ fwd = 0 /\ 2 \notin down
           /\ \E k \in Lines \ {0} :
                /\ Free(k) /\ fwd' = k /\ pending' = <<f.req>>
                /\ line' = [rest EXCEPT ![k] = [Opened EXCEPT !.work = <<f>>]]
  <2>1. PICK k \in Lines : /\ fwd' = k /\ pending' = <<f.req>>
                           /\ line' = [rest EXCEPT ![k] = [Opened EXCEPT !.work = <<f>>]]
    BY <1>4
  <2>2. [Opened EXCEPT !.work = <<f>>] \in Sockets
    BY OpenedSocket
  <2>3. line' \in Net
    BY <1>1, <2>1, <2>2, NetSteps
  <2>4. QED
    BY <1>2, <2>1, <2>3
<1>5. CASE /\ fwd = 0 /\ 2 \in down
           /\ line' = [rest EXCEPT ![0] = Reply(@, Answer(f, FALSE, FALSE))]
           /\ UNCHANGED <<fwd, pending>>
  BY <1>2, <1>3, <1>5, NetSteps
<1>6. CASE /\ fwd # 0 /\ line[fwd].open
           /\ line' = [rest EXCEPT ![fwd].work = Append(@, f)]
           /\ pending' = Append(pending, f.req) /\ fwd' = fwd
  <2>1. [rest EXCEPT ![fwd].work = Append(@, f)] \in Net
    BY <1>1, <1>2, NetSteps
  <2>2. Append(pending, f.req) \in Seq(Int)
    BY <1>2
  <2>3. QED
    BY <1>2, <1>6, <2>1, <2>2
<1>7. CASE /\ fwd # 0 /\ ~line[fwd].open
           /\ line' = [rest EXCEPT ![0] = [Reply(@, Answer(f, FALSE, FALSE)) EXCEPT !.open = FALSE]]
           /\ UNCHANGED <<fwd, pending>>
  BY <1>2, <1>3, <1>7, NetSteps
<1>8. QED
  BY <1>4, <1>5, <1>6, <1>7 DEF Forward

LEMMA ServeInv ==
  ASSUME DistInv, NEW k \in Lines, Serve(k)
  PROVE  DistInv'
<1> DEFINE h == Hop(k)
           f == Head(line[k].work)
           s == IF f.reset THEN Fresh ELSE kv[h]
           rest == [line EXCEPT ![k].work = Tail(@)]
<1>1. /\ line[k].work # <<>>
      /\ UNCHANGED <<own, logits, last, req, torn, route, control, down>>
  BY DEF Serve
<1>2. /\ h \in Hops /\ f \in Frames /\ s \in Slices /\ rest \in Net
      /\ Answer(f, FALSE, FALSE) \in Answers /\ Spoiled(s) \in Slices
      /\ Matches(s, f) /\ InPlace(s, f) =>
           /\ Evaluated(s, f) \in Slices
           /\ Answer(f, TRUE, Evaluated(s, f).exact) \in Answers
           /\ [f EXCEPT !.exact = Evaluated(s, f).exact] \in Frames
  BY <1>1, ServedFrame
<1>3. \/ /\ kv' = [kv EXCEPT ![h] = s]
         /\ line' = [rest EXCEPT ![k] = Reply(@, Answer(f, FALSE, FALSE))]
         /\ UNCHANGED <<call, env, fwd, pending>>
      \/ /\ Matches(s, f) /\ InPlace(s, f)
         /\ kv' = [kv EXCEPT ![h] = Evaluated(s, f)]
         /\ IF h = NHops
            THEN /\ line' = [rest EXCEPT ![k] = Reply(@, Answer(f, TRUE, Evaluated(s, f).exact))]
                 /\ UNCHANGED <<fwd, pending>>
            ELSE Forward([f EXCEPT !.exact = Evaluated(s, f).exact], rest)
         /\ UNCHANGED <<call, env>>
      \/ /\ env' = [env EXCEPT !.left = @ - 1]
         /\ kv' = [kv EXCEPT ![h] = Spoiled(s)]
         /\ line' = [rest EXCEPT ![k] = Reply(@, Answer(f, FALSE, FALSE))]
         /\ call' = [call EXCEPT !.calm = FALSE] /\ UNCHANGED <<fwd, pending>>
  BY DEF Serve
<1> HIDE DEF h, f, s, rest
<1>4. fwd \in Lines /\ pending \in Seq(Int) /\ kv \in [Hops -> Slices]
  BY DEF DistInv, TypeOK
<1>5. kv' \in [Hops -> Slices]
  BY <1>2, <1>3, <1>4
<1>6. line' \in Net /\ fwd' \in Lines /\ pending' \in Seq(Int)
  <2>1. CASE line' = [rest EXCEPT ![k] = Reply(@, Answer(f, FALSE, FALSE))]
             /\ UNCHANGED <<fwd, pending>>
    BY <1>2, <1>4, <2>1, NetSteps
  <2>2. CASE /\ Matches(s, f) /\ InPlace(s, f) /\ h = NHops
             /\ line' = [rest EXCEPT ![k] = Reply(@, Answer(f, TRUE, Evaluated(s, f).exact))]
             /\ UNCHANGED <<fwd, pending>>
    BY <1>2, <1>4, <2>2, NetSteps
  <2>3. CASE /\ Matches(s, f) /\ InPlace(s, f) /\ h # NHops
             /\ Forward([f EXCEPT !.exact = Evaluated(s, f).exact], rest)
    <3>1. NHops = 2
      BY <1>2, <2>3, DistAssumption DEF Hops, Hop, h
    <3>2. QED
      BY <1>2, <2>3, <3>1, ForwardTypes
  <2>4. QED
    BY <1>3, <2>1, <2>2, <2>3
<1>7. call' = call \/ call' = [call EXCEPT !.calm = FALSE]
  BY <1>3
<1>8. call' \in Calls /\ SliceExtends' /\ LogitsFollow'
  BY <1>1, <1>7, OwnerKeeps
<1>9. env' = env \/ env' = [env EXCEPT !.left = @ - 1]
  BY <1>3
<1>10. TypeOK'
  BY <1>1, <1>5, <1>6, <1>8, <1>9, FaultTypes DEF DistInv, TypeOK, route
<1>11. QED
  BY <1>8, <1>10 DEF DistInv

LEMMA RelayInv ==
  ASSUME DistInv, Relay
  PROVE  DistInv'
<1> DEFINE r == Head(line[fwd].res)
           rest == [line EXCEPT ![fwd].res = Tail(@)]
<1>1. /\ line[fwd].res # <<>> /\ pending # <<>> /\ pending' = Tail(pending)
      /\ line' = IF r.req = Head(pending) THEN [rest EXCEPT ![0] = Reply(@, r)]
                 ELSE [rest EXCEPT ![0].open = FALSE]
      /\ UNCHANGED <<owner, route, control, down, kv, fwd, env>>
  BY DEF Relay
<1>2. rest \in Net /\ r \in Answers /\ 0 \in Lines
  BY <1>1, Facts, NetSteps
<1> HIDE DEF r, rest
<1>3. line' \in Net
  BY <1>1, <1>2, NetSteps
<1>4. pending' \in Seq(Int)
  BY <1>1, Facts
<1>5. call' \in Calls /\ SliceExtends' /\ LogitsFollow'
  BY <1>1, OwnerKeeps DEF owner
<1>6. TypeOK'
  BY <1>1, <1>3, <1>4, <1>5 DEF DistInv, TypeOK, owner, route
<1>7. QED
  BY <1>5, <1>6 DEF DistInv

LEMMA RelayEndsInv ==
  ASSUME DistInv, RelayEnds
  PROVE  DistInv'
<1> DEFINE lost == [req |-> Head(pending), ok |-> FALSE, of |-> <<>>, exact |-> FALSE]
           told == IF pending = <<>> THEN line[0] ELSE Reply(line[0], lost)
<1>1. /\ line' = [line EXCEPT ![0] = [told EXCEPT !.open = FALSE]] /\ pending' = <<>>
      /\ UNCHANGED <<owner, route, control, down, kv, fwd, env>>
  BY DEF RelayEnds
<1>2. pending # <<>> => lost \in Answers
  <2>1. pending # <<>> => Head(pending) \in Int
    BY Facts
  <2>2. QED
    BY <2>1 DEF Answers
<1>3. \/ line' = [line EXCEPT ![0].open = FALSE]
      \/ /\ pending # <<>>
         /\ line' = [line EXCEPT ![0] = [Reply(@, lost) EXCEPT !.open = FALSE]]
  <2>1. CASE pending = <<>>
    BY <1>1, <2>1, Facts
  <2>2. CASE pending # <<>>
    BY <1>1, <2>2, Facts
  <2>3. QED
    BY <2>1, <2>2
<1> HIDE DEF lost, told
<1>4. line' \in Net
  <2>1. line \in Net /\ 0 \in Lines
    BY Facts
  <2>2. [line EXCEPT ![0].open = FALSE] \in Net
    BY <2>1, NetSteps
  <2>3. lost \in Answers => [line EXCEPT ![0] = [Reply(@, lost) EXCEPT !.open = FALSE]] \in Net
    BY <2>1, NetSteps
  <2>4. QED
    BY <1>2, <1>3, <2>2, <2>3
<1>5. pending' \in Seq(Int)
  BY <1>1
<1>6. call' \in Calls /\ SliceExtends' /\ LogitsFollow'
  BY <1>1, OwnerKeeps DEF owner
<1>7. TypeOK'
  BY <1>1, <1>4, <1>5, <1>6 DEF DistInv, TypeOK, owner, route
<1>8. QED
  BY <1>6, <1>7 DEF DistInv

LEMMA DropQueueInv ==
  ASSUME DistInv, NEW k \in Lines, DropQueue(k)
  PROVE  DistInv'
<1>1. /\ line' = [line EXCEPT ![k].work = <<>>]
      /\ UNCHANGED <<owner, route, control, down, kv, fwd, pending, env>>
  BY DEF DropQueue
<1>2. line' \in Net
  BY <1>1, Facts, NetSteps
<1>3. call' \in Calls /\ SliceExtends' /\ LogitsFollow'
  BY <1>1, OwnerKeeps DEF owner
<1>4. TypeOK'
  BY <1>1, <1>2, <1>3 DEF DistInv, TypeOK, owner, route
<1>5. QED
  BY <1>3, <1>4 DEF DistInv

\* A fault, whatever it does to workers and connections.
LEMMA NoiseInv ==
  ASSUME DistInv, Noise, line' \in Net, kv' \in [Hops -> Slices], fwd' \in Lines,
         pending' \in Seq(Int)
  PROVE  DistInv'
<1>1. /\ env' = [env EXCEPT !.left = @ - 1] /\ call' = [call EXCEPT !.calm = FALSE]
      /\ UNCHANGED <<own, logits, last, req, torn, plan, registered>>
  BY DEF Noise, route
<1>2. call' \in Calls /\ SliceExtends' /\ LogitsFollow'
  BY <1>1, OwnerKeeps
<1>3. TypeOK'
  BY <1>1, <1>2, FaultTypes DEF DistInv, TypeOK
<1>4. QED
  BY <1>2, <1>3 DEF DistInv

LEMMA CutLineInv ==
  ASSUME DistInv, NEW k \in Lines, CutLine(k)
  PROVE  DistInv'
<1>1. PICK l \in Closed(line[k]) : line' = [line EXCEPT ![k] = l]
  BY DEF CutLine
<1>2. l \in Sockets /\ l.work = line[k].work
  <2>1. line[k] \in Sockets
    BY Facts
  <2>2. [line[k] EXCEPT !.open = FALSE].work = line[k].work
        /\ [line[k] EXCEPT !.open = FALSE, !.res = <<>>].work = line[k].work
    BY <2>1 DEF Sockets
  <2>3. QED
    BY <2>1, <2>2, SocketSteps DEF Closed
<1>3. line' \in Net
  BY <1>1, <1>2, Facts, NetSteps
<1>4. QED
  BY <1>3, NoiseInv DEF CutLine, DistInv, TypeOK

LEMMA ClosedNet ==
  ASSUME DistInv
  PROVE  ForwarderClosed \in Net
<1>1. \A k \in Lines : /\ [line[k] EXCEPT !.open = FALSE, !.res = <<>>] \in Sockets
                       /\ [line[k] EXCEPT !.open = FALSE, !.res = <<>>].work = line[k].work
  <2>1. \A k \in Lines : line[k] \in Sockets
    BY Facts
  <2>2. QED
    BY <2>1, SocketSteps DEF Sockets
<1>2. \A k \in Lines : /\ ForwarderClosed[k] \in Sockets
                       /\ ForwarderClosed[k].work = line[k].work
  BY <1>1, Facts DEF ForwarderClosed
<1>3. ForwarderClosed \in [Lines -> Sockets]
  <2>1. ForwarderClosed = [k \in Lines |-> ForwarderClosed[k]]
    BY DEF ForwarderClosed
  <2>2. QED
    BY <1>2, <2>1
<1>4. \A k \in Lines : Hop(k) \in Hops \/ line[k].work = <<>>
  BY Facts DEF Net
<1>5. QED
  BY <1>2, <1>3, <1>4 DEF Net

LEMMA CrashInv ==
  ASSUME DistInv, NEW h \in Hops, Crash(h)
  PROVE  DistInv'
<1>1. /\ kv' = [kv EXCEPT ![h] = Fresh]
      /\ line' = IF h = 1 THEN [ForwarderClosed EXCEPT ![0] = Ended(@)]
                 ELSE [k \in Lines |-> IF k = 0 THEN line[k] ELSE Ended(line[k])]
      /\ fwd' = (IF h = 1 THEN 0 ELSE fwd) /\ pending' = (IF h = 1 THEN <<>> ELSE pending)
      /\ Noise
  BY DEF Crash
<1>2. kv' \in [Hops -> Slices]
  BY <1>1, FreshSlice DEF DistInv, TypeOK
<1>3. fwd' \in Lines /\ pending' \in Seq(Int)
  BY <1>1, Facts
<1>4. \A l \in Sockets : Ended(l) \in Sockets /\ Ended(l).work = <<>>
  BY SocketSteps DEF Ended, Sockets
<1>5. CASE h = 1
  <2>1. line' = [ForwarderClosed EXCEPT ![0] = Ended(ForwarderClosed[0])]
    BY <1>1, <1>5
  <2>2. ForwarderClosed \in Net /\ ForwarderClosed[0] \in Sockets /\ 0 \in Lines
    BY Facts, ClosedNet, NetSteps
  <2>3. line' \in Net
    BY <1>4, <2>1, <2>2, NetSteps
  <2>4. QED
    BY <1>1, <1>2, <1>3, <2>3, NoiseInv
<1>6. CASE h # 1
  <2>1. line' = [k \in Lines |-> IF k = 0 THEN line[k] ELSE Ended(line[k])]
    BY <1>1, <1>6
  <2>2. \A k \in Lines : line'[k] \in Sockets /\ (k = 0 \/ line'[k].work = <<>>)
    BY <1>4, <2>1, Facts
  <2>3. line' \in Net
    BY <2>1, <2>2, Facts DEF Net
  <2>4. QED
    BY <1>1, <1>2, <1>3, <2>3, NoiseInv
<1>7. QED
  BY <1>5, <1>6

LEMMA MonitorInv ==
  ASSUME DistInv, NEW h \in Hops, Monitor(h)
  PROVE  DistInv'
<1>1. plan' = Stale(plan) /\ UNCHANGED <<owner, workers, env>>
  BY DEF Monitor
<1>2. call' \in Calls /\ SliceExtends' /\ LogitsFollow'
  BY <1>1, OwnerKeeps DEF owner
<1>3. TypeOK'
  BY <1>1, <1>2, StaleTypes DEF DistInv, TypeOK, owner, workers
<1>4. QED
  BY <1>2, <1>3 DEF DistInv

LEMMA RejoinInv ==
  ASSUME DistInv, NEW h \in Hops, Rejoin(h)
  PROVE  DistInv'
<1>1. /\ kv' = [kv EXCEPT ![h] = Fresh]
      /\ IF h = 2
         THEN plan' = Stale(plan) /\ UNCHANGED <<line, fwd, pending>>
         ELSE /\ line' = [ForwarderClosed EXCEPT ![0] = Opened]
              /\ fwd' = 0 /\ pending' = <<>>
              /\ plan' = IF plan.fd = "first"
                         THEN [Stale(plan) EXCEPT !.fd = "old", !.rest = line[0].res]
                         ELSE Stale(plan)
      /\ UNCHANGED <<owner, env>>
  BY DEF Rejoin
<1>2. kv' \in [Hops -> Slices]
  BY <1>1, FreshSlice DEF DistInv, TypeOK
<1>3. line' \in Net /\ fwd' \in Lines /\ pending' \in Seq(Int)
  <2>1. CASE h = 2
    BY <1>1, <2>1, Facts
  <2>2. CASE h # 2
    <3>1. line' = [ForwarderClosed EXCEPT ![0] = Opened] /\ fwd' = 0 /\ pending' = <<>>
      BY <1>1, <2>2
    <3>2. ForwarderClosed \in Net /\ 0 \in Lines /\ Hop(0) \in Hops /\ Opened \in Sockets
      BY Facts, ClosedNet, OpenedSocket
    <3>3. line' \in Net
      BY <3>1, <3>2, NetSteps
    <3>4. QED
      BY <3>1, <3>2, <3>3
  <2>3. QED
    BY <2>1, <2>2
<1>4. plan' \in Plans
  <2>1. line[0].res \in Seq(Answers)
    BY Facts, SocketFields
  <2>2. [Stale(plan) EXCEPT !.fd = "old", !.rest = line[0].res]
          \in Plans
    BY <2>1, Facts DEF Stale, Plans
  <2>3. plan' = Stale(plan)
        \/ plan' = [Stale(plan) EXCEPT !.fd = "old", !.rest = line[0].res]
    BY <1>1
  <2>4. QED
    BY <2>2, <2>3, StaleTypes
<1>5. call' \in Calls /\ SliceExtends' /\ LogitsFollow'
  BY <1>1, OwnerKeeps DEF owner
<1>6. TypeOK'
  BY <1>1, <1>2, <1>3, <1>4, <1>5 DEF DistInv, TypeOK, owner
<1>7. QED
  BY <1>5, <1>6 DEF DistInv

LEMMA CutControlInv ==
  ASSUME DistInv, CutControl
  PROVE  DistInv'
<1>1. Noise /\ UNCHANGED <<kv, line, fwd, pending>>
  BY DEF CutControl
<1>2. QED
  BY <1>1, NoiseInv DEF DistInv, TypeOK

-----------------------------------------------------------------------------
(* The owner's calls.                                                      *)

LEMMA Counted == call \in Calls /\ call.pos < Total => Count \in Nat /\ Count > 0
  BY PipelinedChunks

LEMMA CallFields ==
  ASSUME NEW c \in Calls
  PROVE  /\ c.target \in Seq(Tokens) /\ Len(c.target) \in Nat
         /\ c.pos \in Nat /\ c.base \in Nat /\ c.sent \in Nat /\ c.got \in Nat
         /\ c.first \in BOOLEAN /\ c.reset \in BOOLEAN
         /\ c.spanned \in BOOLEAN /\ c.calm \in BOOLEAN
  BY DEF Calls

\* A call that evaluates nothing at the moment.
LEMMA Resting ==
  ASSUME call' \in Calls, call'.pc \in {"idle", "error", "route"},
         call'.spanned => Len(call'.target) > 0,
         own'.valid => own'.toks # <<>>, SpannedCallExact'
  PROVE  SliceExtends' /\ LogitsFollow'
<1>1. call'.pc # "chunk" /\ call'.pc # "wait" /\ call'.pc # "pipe"
  OBVIOUS
<1>2. Total' = Len(call'.target)
  BY DEF Total
<1>3. SliceExtends'
  BY <1>1 DEF SliceExtends
<1>4. LogitsFollow'
  BY <1>1, <1>2 DEF LogitsFollow
<1>5. QED
  BY <1>3, <1>4

\* A call that has failed once more.
LEMMA FailedCall ==
  ASSUME NEW c \in Calls, NEW rc \in {"failed", "remote"}, call' = Failed(c, rc),
         c.spanned => Len(c.target) > 0, own'.valid => own'.toks # <<>>
  PROVE  call' \in Calls /\ SliceExtends' /\ LogitsFollow'
<1>1. /\ call' \in Calls /\ call'.pc = "error" /\ call'.spanned = c.spanned
      /\ call'.target = c.target
  BY DEF Failed, Calls
<1>2. SpannedCallExact'
  BY <1>1 DEF SpannedCallExact
<1>3. QED
  BY <1>1, <1>2, Resting

\* A call that returns.
LEMMA Returned ==
  ASSUME DistInv, NEW rc \in {"failed", "ok"}, Return(rc), UNCHANGED <<own, logits>>,
         rc = "ok" /\ call.spanned => logits = Now
  PROVE  call' \in Calls /\ SliceExtends' /\ LogitsFollow'
<1>1. /\ call' = Idle
      /\ last' = [rc |-> rc, of |-> call.target, spanned |-> call.spanned, calm |-> call.calm]
  BY DEF Return
<1>2. call' \in Calls /\ call'.pc = "idle" /\ call'.spanned = FALSE
  <2>1. <<>> \in Seq(Tokens)
    OBVIOUS
  <2>2. QED
    BY <1>1, <2>1 DEF Idle, Calls
<1>3. SpannedCallExact'
  BY <1>1 DEF SpannedCallExact, Now
<1>4. own'.valid => own'.toks # <<>>
  BY DEF DistInv, SliceExtends
<1>5. QED
  BY <1>2, <1>3, <1>4, Resting

\* A call that starts to evaluate its target from a position on.
LEMMA Begun ==
  ASSUME DistInv, NEW c \in Calls, NEW pos \in Nat, NEW reset \in BOOLEAN, NEW base \in Nat,
         call' = Prefill(c, pos, reset, base), UNCHANGED own,
         pos <= Len(c.target), c.spanned => pos < Len(c.target),
         IF reset THEN pos = 0 ELSE own.valid /\ pos > 0
  PROVE  call' \in Calls /\ SliceExtends' /\ LogitsFollow'
<1>1. c.target \in Seq(Tokens) /\ Len(c.target) \in Nat /\ ChunkCap \in Nat \ {0}
  BY CallFields, DistAssumption
<1> DEFINE pc == IF Pipelined(Len(c.target) - pos) THEN "pipe" ELSE "chunk"
<1>2. pc \in {"pipe", "chunk"} /\ (pc = "pipe" => Len(c.target) - pos > ChunkCap)
  BY DEF Pipelined
<1>3. call' = [c EXCEPT !.pos = pos, !.reset = reset, !.sent = 0, !.got = 0, !.rc = "none",
                        !.base = base, !.pc = pc]
  BY DEF Prefill
<1> HIDE DEF pc
<1>4. /\ call' \in Calls /\ call'.pc = pc /\ call'.pos = pos /\ call'.reset = reset
      /\ call'.sent = 0 /\ call'.got = 0 /\ call'.rc = "none"
      /\ call'.target = c.target /\ call'.spanned = c.spanned
  <2>1. call' = [pc |-> pc, target |-> c.target, first |-> c.first, pos |-> pos, reset |-> reset,
                 base |-> base, sent |-> 0, got |-> 0, rc |-> "none", spanned |-> c.spanned,
                 calm |-> c.calm]
    BY <1>3 DEF Calls
  <2>2. call' \in Calls
    BY <1>1, <1>2, <2>1, CallFields DEF Calls
  <2>3. QED
    BY <2>1, <2>2
<1>5. Total' = Len(c.target)
  BY <1>4 DEF Total
<1>6. pc = "pipe" => call'.pos < Total'
  BY <1>1, <1>2, <1>4, <1>5
<1>7. (call \in Calls /\ call.pos < Total => Count \in Nat /\ Count > 0)'
  BY Counted, PTL
<1>8. pc = "pipe" => Count' \in Nat /\ Count' > 0
  BY <1>4, <1>6, <1>7
<1>9. own'.valid => own'.toks # <<>>
  BY DEF DistInv, SliceExtends
<1>10. SliceExtends'
  <2>1. call'.pos <= Total' /\ (call'.pos = 0 => call'.reset)
    BY <1>4, <1>5
  <2>2. ~(call'.reset /\ call'.pos = 0) => own'.valid
    BY <1>4
  <2>3. ~(call'.reset /\ call'.sent = 0) => own'.valid
    BY <1>4
  <2>4. call'.pc # "wait"
    BY <1>2, <1>4
  <2>5. call'.pc = "pipe" => call'.pos < Total'
    BY <1>4, <1>6
  <2>6. QED
    BY <1>9, <2>1, <2>2, <2>3, <2>4, <2>5 DEF SliceExtends
<1>11. call'.pc # "idle" /\ (call'.spanned => call'.pos < Total')
  BY <1>2, <1>4, <1>5
<1>12. LogitsFollow'
  <2>1. call'.spanned => Total' > 0
    BY <1>1, <1>4, <1>5, <1>11
  <2>2. ~(call'.spanned /\ call'.pos = Total')
    BY <1>1, <1>4, <1>5, <1>11
  <2>3. call'.pc = "pipe" => call'.got <= Count' /\ Count' > 0 /\ call'.got # Count'
    BY <1>4, <1>8
  <2>4. QED
    BY <1>11, <2>1, <2>2, <2>3 DEF LogitsFollow, SpannedCallExact
<1>13. QED
  BY <1>4, <1>10, <1>12

LEMMA EnsuredPlan == DistInv => Ensured \in Plans
<1>1. <<>> \in Seq(Answers)
  OBVIOUS
<1>2. QED
  BY <1>1, Facts DEF Ensured, Planned, NoPlan, Plans

\* A call of the owner for p: Sync and Eval.
LEMMA StartInv ==
  ASSUME DistInv, NEW p \in Seq(Tokens), Start(p)
  PROVE  DistInv'
<1>1. /\ plan' = Ensured /\ req' = (IF Outstanding THEN req ELSE 0)
      /\ UNCHANGED <<own, logits, torn, registered, workers, env>>
      /\ call.pc = "idle"
  BY DEF Start
<1>2. req' \in Nat
  BY <1>1 DEF DistInv, TypeOK
<1>3. call' \in Calls /\ SliceExtends' /\ LogitsFollow'
  <2>1. CASE /\ last' = [rc |-> IF Ensured = NoPlan THEN "failed" ELSE "ok", of |-> p,
                         spanned |-> FALSE, calm |-> Quiet]
             /\ call' = call
    <3>1. SpannedCallExact'
      <4>1. last'.spanned = FALSE
        BY <2>1
      <4>2. QED
        BY <4>1 DEF SpannedCallExact
    <3>2. call'.spanned => Len(call'.target) > 0
      BY <2>1 DEF DistInv, LogitsFollow, Total
    <3>3. own'.valid => own'.toks # <<>>
      BY <1>1 DEF DistInv, SliceExtends
    <3>4. QED
      BY <1>1, <2>1, <3>1, <3>2, <3>3, Facts, Resting
  <2>2. CASE call' = Prefill([Idle EXCEPT !.target = p, !.calm = Quiet],
                             IF Extends(p) THEN Len(own.toks) ELSE 0, ~Extends(p), req')
    <3> DEFINE c == [Idle EXCEPT !.target = p, !.calm = Quiet]
               pos == IF Extends(p) THEN Len(own.toks) ELSE 0
               reset == ~Extends(p)
    <3>1. Quiet \in BOOLEAN
      BY DEF Quiet
    <3>2. c \in Calls /\ c.target = p /\ c.spanned = FALSE
      BY <3>1 DEF Idle, Calls
    <3>3. own.toks \in Seq(Tokens) /\ (own.valid => own.toks # <<>>) /\ own.valid \in BOOLEAN
      BY Facts DEF DistInv, SliceExtends, Slices
    <3>4. Extends(p) => own.valid /\ Len(own.toks) > 0 /\ Len(own.toks) <= Len(p)
      BY <3>3 DEF Extends, IsPrefix
    <3>5. pos \in Nat /\ reset \in BOOLEAN /\ pos <= Len(p)
          /\ (IF reset THEN pos = 0 ELSE own.valid /\ pos > 0)
      BY <1>1, <3>3, <3>4
    <3>6. call' = Prefill(c, pos, reset, req')
      BY <2>2
    <3>7. pos <= Len(c.target) /\ (c.spanned => pos < Len(c.target)) /\ UNCHANGED own
      BY <1>1, <3>2, <3>5
    <3> HIDE DEF c, pos, reset
    <3>8. QED
      BY <1>2, <3>2, <3>5, <3>6, <3>7, Begun, Zenon
  <2>3. QED
    BY <2>1, <2>2, Zenon DEF Start
<1>4. TypeOK'
  BY <1>1, <1>2, <1>3, EnsuredPlan DEF DistInv, TypeOK, workers
<1>5. QED
  BY <1>3, <1>4 DEF DistInv

LEMMA SyncInv == ASSUME DistInv, Sync PROVE DistInv'
<1>1. PICK p \in Prompts : Start(p)
  BY DEF Sync
<1>2. Prompts \subseteq Seq(Tokens)
  BY DEF DistInv, TypeOK, Prompts
<1>3. QED
  BY <1>1, <1>2, StartInv

LEMMA EvalInv == ASSUME DistInv, Eval PROVE DistInv'
<1>1. PICK t \in EvalTokens : Start(Append(own.toks, t))
  BY DEF Eval
<1>2. own.toks \in Seq(Tokens) /\ t \in Tokens
  BY DistAssumption, Facts DEF Slices
<1>3. Append(own.toks, t) \in Seq(Tokens)
  BY <1>2
<1>4. QED
  BY <1>1, <1>3, StartInv

\* The replay of a transcript after a failure, and the end of a call that
\* failed twice.
LEMMA Replayed ==
  ASSUME DistInv, NEW c \in Calls, c.target = call.target, c.spanned = call.spanned,
         call' = Prefill(c, 0, TRUE, req), UNCHANGED own
  PROVE  call' \in Calls /\ SliceExtends' /\ LogitsFollow'
<1>1. Len(c.target) \in Nat /\ req \in Nat
  BY CallFields DEF DistInv, TypeOK
<1>2. c.spanned => 0 < Len(c.target)
  BY <1>1 DEF DistInv, LogitsFollow, Total
<1> DEFINE pos == 0
           reset == TRUE
<1>3. /\ pos \in Nat /\ reset \in BOOLEAN /\ pos <= Len(c.target)
      /\ c.spanned => pos < Len(c.target)
      /\ IF reset THEN pos = 0 ELSE own.valid /\ pos > 0
      /\ call' = Prefill(c, pos, reset, req)
  BY <1>1, <1>2
<1> HIDE DEF pos, reset
<1>4. QED
  BY <1>1, <1>3, Begun, Zenon

LEMMA RefusedInv == ASSUME DistInv, Refused PROVE DistInv'
<1>1. /\ call' = Prefill([call EXCEPT !.first = FALSE], 0, TRUE, req)
      /\ UNCHANGED <<own, logits, last, req, torn, route, workers, env>>
  BY DEF Refused
<1>2. /\ [call EXCEPT !.first = FALSE] \in Calls
      /\ [call EXCEPT !.first = FALSE].target = call.target
      /\ [call EXCEPT !.first = FALSE].spanned = call.spanned
  BY Facts DEF Calls
<1>3. call' \in Calls /\ SliceExtends' /\ LogitsFollow'
  BY <1>1, <1>2, Replayed
<1>4. TypeOK'
  BY <1>1, <1>3 DEF DistInv, TypeOK, route, workers
<1>5. QED
  BY <1>3, <1>4 DEF DistInv

LEMMA ForgetInv == ASSUME DistInv, Forget PROVE DistInv'
<1>1. /\ plan' = [NoPlan EXCEPT !.ready = plan.ready]
      /\ line' = (IF 1 \in registered THEN [line EXCEPT ![0].open = FALSE] ELSE line)
      /\ call' = [call EXCEPT !.pc = "route", !.first = FALSE]
      /\ UNCHANGED <<own, logits, last, req, torn, down, kv, fwd, pending, env>>
  BY DEF Forget
<1>2. line' \in Net
  BY <1>1, Facts, NetSteps
<1>3. plan' \in Plans
  <2>1. <<>> \in Seq(Answers) /\ plan.ready \in BOOLEAN
    BY Facts DEF Plans
  <2>2. QED
    BY <1>1, <2>1 DEF NoPlan, Plans
<1>4. /\ call' \in Calls /\ call'.pc = "route" /\ call'.target = call.target
      /\ call'.spanned = call.spanned
  BY <1>1, Facts DEF Calls
<1>5. SliceExtends' /\ LogitsFollow'
  <2>1. call'.spanned => Len(call'.target) > 0
    BY <1>4 DEF DistInv, LogitsFollow, Total
  <2>2. SpannedCallExact'
    BY <1>4 DEF SpannedCallExact
  <2>3. own'.valid => own'.toks # <<>>
    BY <1>1 DEF DistInv, SliceExtends
  <2>4. QED
    BY <1>4, <2>1, <2>2, <2>3, Resting
<1>6. TypeOK'
  BY <1>1, <1>2, <1>3, <1>4 DEF DistInv, TypeOK
<1>7. QED
  BY <1>5, <1>6 DEF DistInv

LEMMA RerouteInv == ASSUME DistInv, Reroute PROVE DistInv'
<1>1. /\ \/ /\ plan' = [Planned EXCEPT !.ready = plan.ready]
            /\ call' = Prefill(call, 0, TRUE, req) /\ last' = last
         \/ plan' = NoPlan /\ Return("failed")
      /\ UNCHANGED <<own, logits, req, torn, registered, workers, env>>
  BY DEF Reroute
<1>2. plan' \in Plans
  <2>1. <<>> \in Seq(Answers) /\ plan.ready \in BOOLEAN
    BY Facts DEF Plans
  <2>2. [Planned EXCEPT !.ready = plan.ready] \in Plans /\ NoPlan \in Plans
    BY <2>1 DEF Planned, NoPlan, Plans
  <2>3. QED
    BY <1>1, <2>2
<1>3. call' \in Calls /\ SliceExtends' /\ LogitsFollow'
  BY <1>1, Facts, Replayed, Returned
<1>4. TypeOK'
  BY <1>1, <1>2, <1>3 DEF DistInv, TypeOK, workers
<1>5. QED
  BY <1>3, <1>4 DEF DistInv

LEMMA GiveUpInv == ASSUME DistInv, GiveUp PROVE DistInv'
<1>1. /\ Return("failed") /\ plan' = [plan EXCEPT !.ready = FALSE, !.fresh = FALSE]
      /\ UNCHANGED <<own, logits, req, torn, registered, workers, env>>
  BY DEF GiveUp
<1>2. plan' \in Plans
  BY <1>1, Facts DEF Plans
<1>3. call' \in Calls /\ SliceExtends' /\ LogitsFollow'
  BY <1>1, Returned
<1>4. TypeOK'
  BY <1>1, <1>2, <1>3 DEF DistInv, TypeOK, workers
<1>5. QED
  BY <1>3, <1>4 DEF DistInv

-----------------------------------------------------------------------------
(* Spans and answers.                                                      *)

\* The slice a span is added to: a new timeline, or a valid one.
LEMMA BaseSlice ==
  ASSUME DistInv, NEW fresh \in BOOLEAN, ~fresh => own.valid
  PROVE  LET b == IF fresh THEN Fresh ELSE own IN b \in Slices /\ b.exact
  BY Facts, FreshSlice DEF Slices

\* The frame of a span carries exact rows, and a reset when it is the first
\* of its timeline.
LEMMA NewFrame ==
  ASSUME DistInv, NEW id \in Int, NEW pos \in Nat, pos < Total, own'.exact = TRUE,
         pos = 0 => call.reset
  PROVE  Frame(id, pos) \in Frames
<1>1. /\ Prefix(pos) \in Seq(Tokens) /\ (Prefix(pos) = <<>> => pos = 0)
      /\ Span(pos) \in Seq(Tokens)
  <2>1. call \in Calls /\ pos <= Total
    BY Facts, CallFields DEF Total
  <2>2. QED
    BY <2>1, Chunks
<1> DEFINE reset == call.reset /\ pos = 0
<1>2. reset \in BOOLEAN /\ (Prefix(pos) = <<>> => reset)
  BY <1>1, Facts, CallFields
<1>3. Frame(id, pos) = [req |-> id, prefix |-> Prefix(pos), toks |-> Span(pos),
                        reset |-> reset, exact |-> TRUE]
  BY DEF Frame
<1> HIDE DEF reset
<1>4. QED
  BY <1>1, <1>2, <1>3 DEF Frames

LEMMA EvalSpanInv == ASSUME DistInv, EvalSpan PROVE DistInv'
<1>1. /\ call.pc = "chunk" /\ call.pos < Total /\ req' = req + 1
      /\ UNCHANGED <<logits, last, torn, route, control, down, kv, fwd, pending>>
  BY DEF EvalSpan
<1>2. /\ call \in Calls /\ own \in Slices /\ req \in Nat /\ call.pos \in Nat
      /\ (call.pos = 0 => call.reset) /\ call.reset \in BOOLEAN
      /\ (~(call.reset /\ call.pos = 0) => own.valid)
      /\ (own.valid => own.toks # <<>>) /\ (call.spanned => Total > 0)
  BY <1>1, Facts, CallFields DEF DistInv, TypeOK, SliceExtends, LogitsFollow
<1>3. Base \in Slices /\ Base.exact
  <2> DEFINE fresh == call.reset /\ call.pos = 0
  <2>1. fresh \in BOOLEAN /\ (~fresh => own.valid) /\ Base = IF fresh THEN Fresh ELSE own
    BY <1>2 DEF Base
  <2> HIDE DEF fresh
  <2>2. QED
    BY <2>1, BaseSlice
<1>4. Span(call.pos) \in Seq(Tokens) /\ Span(call.pos) # <<>> /\ Total \in Nat
  <2>1. call.pos <= Total
    BY <1>1, <1>2, CallFields DEF Total
  <2>2. QED
    BY <1>1, <1>2, <2>1, Chunks
<1>5. line \in Net /\ 0 \in Lines /\ Hop(0) \in Hops
  BY Facts
<1>6. CASE call' = Failed(call, "failed") /\ UNCHANGED <<own, line, env>>
  <2>1. call' \in Calls /\ SliceExtends' /\ LogitsFollow'
    BY <1>2, <1>6, FailedCall DEF Total
  <2>2. TypeOK'
    BY <1>1, <1>2, <1>6, <2>1 DEF DistInv, TypeOK, route
  <2>3. QED
    BY <2>1, <2>2 DEF DistInv
<1>7. CASE /\ own' = Committed(Base, Span(call.pos), TRUE)
           /\ line' = (IF Live THEN [line EXCEPT ![0].work = Append(@, Frame(req, call.pos))]
                       ELSE line)
           /\ call' = [call EXCEPT !.pc = "wait"] /\ UNCHANGED env
  <2>1. own' \in Slices /\ own'.valid = TRUE /\ own'.exact = TRUE /\ own'.toks # <<>>
    BY <1>3, <1>4, <1>7, CommittedSlice
  <2>2. Frame(req, call.pos) \in Frames
    <3>1. req \in Int
      BY <1>2
    <3>2. QED
      BY <1>1, <1>2, <2>1, <3>1, NewFrame
  <2>3. line' \in Net
    <3>1. [line EXCEPT ![0].work = Append(@, Frame(req, call.pos))] \in Net
      BY <1>5, <2>2, NetSteps
    <3>2. QED
      BY <1>5, <1>7, <3>1
  <2>4. /\ call' \in Calls /\ call'.pc = "wait" /\ call'.pos = call.pos
        /\ call'.target = call.target /\ call'.reset = call.reset
        /\ call'.spanned = call.spanned
    BY <1>2, <1>7 DEF Calls
  <2>5. Total' = Total
    BY <2>4 DEF Total
  <2>6. SliceExtends'
    BY <1>1, <1>2, <1>4, <2>1, <2>4, <2>5 DEF SliceExtends
  <2>7. LogitsFollow'
    BY <1>2, <2>4, <2>5 DEF LogitsFollow, SpannedCallExact
  <2>8. TypeOK'
    <3>1. req' \in Nat /\ UNCHANGED <<plan, kv, fwd, pending, env>>
      BY <1>1, <1>2, <1>7 DEF route
    <3>2. QED
      BY <2>1, <2>3, <2>4, <3>1 DEF DistInv, TypeOK
  <2>9. QED
    BY <2>6, <2>7, <2>8 DEF DistInv
<1>8. CASE /\ env' = [env EXCEPT !.left = @ - 1] /\ own' = Spoiled(Base)
           /\ call' = Failed([call EXCEPT !.calm = FALSE], "failed") /\ line' = line
  <2>1. own' \in Slices /\ own'.valid = FALSE
    BY <1>3, <1>8, SpoiledSlice
  <2>2. /\ [call EXCEPT !.calm = FALSE] \in Calls
        /\ [call EXCEPT !.calm = FALSE].spanned = call.spanned
        /\ [call EXCEPT !.calm = FALSE].target = call.target
    BY <1>2 DEF Calls
  <2>3. call' \in Calls /\ SliceExtends' /\ LogitsFollow'
    BY <1>2, <1>8, <2>1, <2>2, FailedCall DEF Total
  <2>4. TypeOK'
    <3>1. req' \in Nat /\ UNCHANGED <<plan, kv, fwd, pending, line>>
      BY <1>1, <1>2, <1>8 DEF route
    <3>2. QED
      BY <1>8, <2>1, <2>3, <3>1, FaultTypes DEF DistInv, TypeOK
  <2>5. QED
    BY <2>3, <2>4 DEF DistInv
<1>9. QED
  BY <1>6, <1>7, <1>8 DEF EvalSpan

\* Taking the next answer off the plan's connection.
LEMMA NextAnswer ==
  ASSUME DistInv, Unread # <<>>
  PROVE  Head(Unread) \in Answers /\ Taken \in Net /\ PlanAfter \in Plans
<1>1. line \in Net /\ 0 \in Lines /\ plan \in Plans /\ plan.rest \in Seq(Answers)
  BY Facts DEF Plans
<1>2. CASE plan.fd = "first"
  <2>1. line[0].res # <<>> /\ Unread = line[0].res
    BY <1>2 DEF Unread
  <2>2. Taken = [line EXCEPT ![0].res = Tail(@)] /\ PlanAfter = plan
    BY <1>2 DEF Taken, PlanAfter
  <2>3. QED
    BY <1>1, <2>1, <2>2, NetSteps
<1>3. CASE plan.fd # "first"
  <2>1. plan.rest # <<>> /\ Unread = plan.rest
    BY <1>3 DEF Unread
  <2>2. Head(plan.rest) \in Answers /\ Tail(plan.rest) \in Seq(Answers)
    BY <1>1, <2>1
  <2>3. Taken = line /\ PlanAfter = [plan EXCEPT !.rest = Tail(@)]
    BY <1>3 DEF Taken, PlanAfter
  <2>4. QED
    BY <1>1, <2>1, <2>2, <2>3 DEF Plans
<1>4. QED
  BY <1>2, <1>3

\* The logits of an answer that passes the checks are those of the prefix.
LEMMA AcceptedAnswer ==
  ASSUME NEW r \in Answers, NEW id \in Int, NEW of
  PROVE  /\ Verdict(r, id, of) \in {"ok", "failed", "remote"}
         /\ Verdict(r, id, of) = "ok" => Received(r) = [of |-> of, exact |-> TRUE]
<1>1. r.ok \in BOOLEAN /\ r.exact \in BOOLEAN /\ (r.ok => r.exact)
  BY DEF Answers
<1>2. QED
  BY <1>1 DEF Verdict, Received

LEMMA ReceiveInv == ASSUME DistInv, Receive PROVE DistInv'
<1>1. /\ call.pc = "wait"
      /\ UNCHANGED <<own, last, req, torn, registered, control, down, kv, fwd, pending, env>>
  BY DEF Receive
<1>2. /\ call \in Calls /\ req \in Nat /\ call.pos \in Nat /\ Total \in Nat
      /\ own.valid /\ own.toks # <<>> /\ call.pos < Total /\ (call.spanned => Total > 0)
      /\ ChunkCap \in Nat \ {0} /\ line \in Net
  BY <1>1, Facts, CallFields, DistAssumption DEF DistInv, TypeOK, SliceExtends, LogitsFollow, Total
<1> DEFINE next == Min({call.pos + ChunkCap, Total})
           r == Head(Unread)
           v == Verdict(r, req - 1, Prefix(next))
<1>3. next \in Nat /\ next > 0 /\ next <= Total
  BY <1>2, Least
<1>4. \/ /\ Unread # <<>> /\ line' = Taken /\ plan' = PlanAfter
         /\ IF v = "ok"
            THEN /\ logits' = Received(r)
                 /\ call' = [call EXCEPT !.pc = "chunk", !.pos = next, !.spanned = TRUE]
            ELSE logits' = logits /\ call' = Failed(call, v)
      \/ /\ call' = Failed(call, "failed") /\ UNCHANGED <<logits, line, plan>>
  BY DEF Receive
<1> HIDE DEF next
<1>5. Unread # <<>> => /\ r \in Answers /\ Taken \in Net /\ PlanAfter \in Plans
                       /\ v \in {"ok", "failed", "remote"}
                       /\ v = "ok" => Received(r) = [of |-> Prefix(next), exact |-> TRUE]
  <2> SUFFICES ASSUME Unread # <<>>
               PROVE  /\ r \in Answers /\ Taken \in Net /\ PlanAfter \in Plans
                      /\ v \in {"ok", "failed", "remote"}
                      /\ v = "ok" => Received(r) = [of |-> Prefix(next), exact |-> TRUE]
    OBVIOUS
  <2>1. r \in Answers /\ Taken \in Net /\ PlanAfter \in Plans
    BY NextAnswer
  <2>2. req - 1 \in Int
    BY <1>2
  <2> HIDE DEF r
  <2>3. QED
    BY <2>1, <2>2, AcceptedAnswer
<1> HIDE DEF r, v
<1>6. line' \in Net /\ plan' \in Plans
  BY <1>2, <1>4, <1>5, Facts
<1>7. ASSUME NEW rc \in {"failed", "remote"}, call' = Failed(call, rc)
      PROVE  call' \in Calls /\ SliceExtends' /\ LogitsFollow'
  <2>1. (call.spanned => Len(call.target) > 0) /\ (own'.valid => own'.toks # <<>>)
    BY <1>1, <1>2 DEF Total
  <2>2. QED
    BY <1>2, <1>7, <2>1, FailedCall
<1>8. ASSUME Unread # <<>>, v = "ok", logits' = Received(r),
             call' = [call EXCEPT !.pc = "chunk", !.pos = next, !.spanned = TRUE]
      PROVE  call' \in Calls /\ SliceExtends' /\ LogitsFollow'
  <2>1. /\ call' \in Calls /\ call'.pc = "chunk" /\ call'.pos = next
        /\ call'.target = call.target /\ call'.spanned = TRUE
    BY <1>2, <1>3, <1>8 DEF Calls
  <2>2. Total' = Total /\ Now' = Now
    BY <2>1 DEF Total, Now
  <2>3. SliceExtends'
    BY <1>1, <1>2, <1>3, <2>1, <2>2 DEF SliceExtends
  <2>4. next = Total => logits' = Now
    <3>1. next = Total => Prefix(next) = call.target
      BY <1>2, <1>3, Chunks
    <3>2. QED
      BY <1>5, <1>8, <3>1 DEF Now
  <2>5. LogitsFollow'
    BY <1>2, <2>1, <2>2, <2>4 DEF LogitsFollow, SpannedCallExact
  <2>6. QED
    BY <2>1, <2>3, <2>5
<1>9. call' \in Calls /\ SliceExtends' /\ LogitsFollow'
  BY <1>4, <1>5, <1>7, <1>8
<1>10. TypeOK'
  BY <1>1, <1>6, <1>9 DEF DistInv, TypeOK
<1>11. QED
  BY <1>9, <1>10 DEF DistInv

LEMMA FinishInv == ASSUME DistInv, Finish PROVE DistInv'
<1>1. /\ call.pc = "chunk" /\ call.pos = Total /\ Return("ok")
      /\ plan' = (IF call.first THEN plan ELSE [plan EXCEPT !.ready = TRUE])
      /\ UNCHANGED <<own, logits, req, torn, registered, workers, env>>
  BY DEF Finish
<1>2. plan' \in Plans
  BY <1>1, Facts DEF Plans
<1>3. call' \in Calls /\ SliceExtends' /\ LogitsFollow'
  <2>1. call.spanned => logits = Now
    BY <1>1 DEF DistInv, LogitsFollow
  <2>2. QED
    BY <1>1, <2>1, Returned
<1>4. TypeOK'
  BY <1>1, <1>2, <1>3 DEF DistInv, TypeOK, workers
<1>5. QED
  BY <1>3, <1>4 DEF DistInv

LEMMA SaveProgressInv == ASSUME DistInv, SaveProgress PROVE DistInv'
<1>1. /\ plan' = Ensured
      /\ UNCHANGED <<own, logits, call, last, req, registered, workers, env>>
  BY DEF SaveProgress
<1>2. call' \in Calls /\ SliceExtends' /\ LogitsFollow'
  <2>1. call' = call /\ UNCHANGED <<own, logits, last>>
    BY <1>1
  <2>2. QED
    BY <2>1, OwnerKeeps
<1>3. TypeOK'
  BY <1>1, <1>2, EnsuredPlan DEF DistInv, TypeOK, workers
<1>4. QED
  BY <1>2, <1>3 DEF DistInv

\* A pipelined prefill between two steps of its threads.
LEMMA PipeFacts ==
  ASSUME DistInv, call.pc = "pipe"
  PROVE  /\ call \in Calls /\ own \in Slices /\ line \in Net /\ plan \in Plans
         /\ req \in Nat /\ call.base \in Nat /\ call.sent \in Nat /\ call.got \in Nat
         /\ call.pos \in Nat /\ Total \in Nat /\ call.pos < Total
         /\ Count \in Nat /\ Count > 0 /\ call.got <= Count
         /\ (call.pos = 0 => call.reset) /\ call.reset \in BOOLEAN
         /\ (own.valid => own.toks # <<>>)
         /\ call.sent < Count /\ ~(call.reset /\ call.sent = 0) => own.valid
<1>1. call \in Calls /\ call.pos < Total
  BY Facts DEF DistInv, SliceExtends
<1>2. Count \in Nat /\ Count > 0
  BY <1>1, Counted
<1>3. call.pos \in Nat /\ Total \in Nat /\ call.reset \in BOOLEAN
  BY <1>1, CallFields DEF Total
<1>4. req \in Nat /\ (own.valid => own.toks # <<>>) /\ (call.pos = 0 => call.reset)
  BY DEF DistInv, TypeOK, SliceExtends
<1>5. call.sent < Count /\ ~(call.reset /\ call.sent = 0) => own.valid
  BY DEF DistInv, SliceExtends
<1>6. call.got <= Count
  BY DEF DistInv, LogitsFollow
<1>7. QED
  BY <1>1, <1>2, <1>3, <1>4, <1>5, <1>6, Facts, CallFields

\* A step of a pipelined prefill that leaves the target and what has been
\* answered for.
LEMMA PipeGoesOn ==
  ASSUME DistInv, call.pc = "pipe", UNCHANGED <<logits, last>>, call' \in Calls,
         call'.pc = "pipe", call'.target = call.target, call'.pos = call.pos,
         call'.reset = call.reset, call'.got = call.got, call'.rc = call.rc,
         call'.spanned = call.spanned,
         own'.valid => own'.toks # <<>>,
         call'.sent < Count /\ ~(call'.reset /\ call'.sent = 0) => own'.valid
  PROVE  SliceExtends' /\ LogitsFollow'
<1>1. Total' = Total /\ Count' = Count /\ Now' = Now
  BY DEF Total, Count, Now
<1>2. SliceExtends'
  BY <1>1 DEF DistInv, SliceExtends
<1>3. LogitsFollow'
  BY <1>1 DEF DistInv, LogitsFollow, SpannedCallExact
<1>4. QED
  BY <1>2, <1>3

LEMMA ProduceInv == ASSUME DistInv, Produce PROVE DistInv'
<1> DEFINE fresh == call.reset /\ call.sent = 0
           base == IF fresh THEN Fresh ELSE own
           pos == ChunkPos(call.sent)
<1>1. /\ call.pc = "pipe" /\ call.sent < Count
      /\ UNCHANGED <<logits, last, torn, route, control, down, kv, fwd, pending>>
      /\ \/ /\ own' = Committed(base, Span(pos), TRUE)
            /\ req' = req + 1 /\ call' = [call EXCEPT !.sent = @ + 1]
            /\ line' = (IF Live THEN [line EXCEPT ![0].work = Append(@, Frame(req, pos))]
                        ELSE line)
            /\ UNCHANGED env
         \/ /\ env' = [env EXCEPT !.left = @ - 1]
            /\ own' = Spoiled(base) /\ req' = req /\ line' = Cut(line)
            /\ call' = [call EXCEPT !.sent = Count, !.calm = FALSE]
  BY DEF Produce, Reading
<1>2. /\ call \in Calls /\ line \in Net /\ req \in Nat /\ call.sent \in Nat
      /\ call.pos \in Nat /\ Total \in Nat /\ call.pos < Total /\ Count \in Nat
      /\ (call.pos = 0 => call.reset) /\ call.reset \in BOOLEAN
      /\ (~fresh => own.valid)
      /\ 0 \in Lines /\ Hop(0) \in Hops
  BY <1>1, PipeFacts, Facts
<1>3. pos \in Nat /\ pos < Total /\ (pos = 0 => call.reset)
  <2>1. /\ pos \in Nat /\ pos < Total /\ (pos = 0 => call.sent = 0)
        /\ ChunkPos(0) = call.pos
    BY <1>1, <1>2, PipelinedChunks
  <2>2. pos = 0 => call.pos = 0
    BY <2>1
  <2>3. QED
    BY <1>2, <2>1, <2>2
<1>4. base \in Slices /\ base.exact
  <2>1. fresh \in BOOLEAN
    BY <1>2
  <2> HIDE DEF fresh
  <2>2. QED
    BY <1>2, <2>1, BaseSlice
<1> HIDE DEF pos, base
<1>5. Span(pos) \in Seq(Tokens) /\ Span(pos) # <<>>
  <2>1. pos <= Total
    BY <1>2, <1>3
  <2>2. QED
    BY <1>2, <1>3, <2>1, Chunks
<1>6. CASE /\ own' = Committed(base, Span(pos), TRUE)
           /\ req' = req + 1 /\ call' = [call EXCEPT !.sent = @ + 1]
           /\ line' = (IF Live THEN [line EXCEPT ![0].work = Append(@, Frame(req, pos))]
                       ELSE line)
           /\ UNCHANGED env
  <2>1. own' \in Slices /\ own'.valid = TRUE /\ own'.exact = TRUE /\ own'.toks # <<>>
    BY <1>4, <1>5, <1>6, CommittedSlice
  <2>2. Frame(req, pos) \in Frames
    <3>1. req \in Int
      BY <1>2
    <3>2. QED
      BY <1>3, <2>1, <3>1, NewFrame
  <2>3. line' \in Net
    <3>1. [line EXCEPT ![0].work = Append(@, Frame(req, pos))] \in Net
      BY <1>2, <2>2, NetSteps
    <3>2. QED
      BY <1>2, <1>6, <3>1
  <2>4. /\ call' \in Calls /\ call'.pc = call.pc /\ call'.pos = call.pos
        /\ call'.target = call.target /\ call'.reset = call.reset /\ call'.got = call.got
        /\ call'.rc = call.rc /\ call'.spanned = call.spanned
    BY <1>2, <1>6 DEF Calls
  <2>5. SliceExtends' /\ LogitsFollow'
    BY <1>1, <2>1, <2>4, PipeGoesOn
  <2>6. TypeOK'
    <3>1. req' \in Nat /\ UNCHANGED <<plan, kv, fwd, pending, env>>
      BY <1>1, <1>2, <1>6 DEF route
    <3>2. QED
      BY <2>1, <2>3, <2>4, <3>1 DEF DistInv, TypeOK
  <2>7. QED
    BY <2>5, <2>6 DEF DistInv
<1>7. CASE /\ env' = [env EXCEPT !.left = @ - 1]
           /\ own' = Spoiled(base) /\ req' = req /\ line' = Cut(line)
           /\ call' = [call EXCEPT !.sent = Count, !.calm = FALSE]
  <2>1. own' \in Slices /\ own'.valid = FALSE
    BY <1>4, <1>7, SpoiledSlice
  <2>2. line' \in Net
    BY <1>2, <1>7, NetSteps DEF Cut
  <2>3. /\ call' \in Calls /\ call'.pc = call.pc /\ call'.pos = call.pos
        /\ call'.target = call.target /\ call'.reset = call.reset /\ call'.got = call.got
        /\ call'.rc = call.rc /\ call'.spanned = call.spanned /\ call'.sent = Count
    BY <1>2, <1>7 DEF Calls
  <2>4. ~(call'.sent < Count)
    BY <1>2, <2>3
  <2>5. SliceExtends' /\ LogitsFollow'
    BY <1>1, <2>1, <2>3, <2>4, PipeGoesOn
  <2>6. TypeOK'
    <3>1. req' \in Nat /\ UNCHANGED <<plan, kv, fwd, pending>>
      BY <1>1, <1>2, <1>7 DEF route
    <3>2. QED
      BY <1>7, <2>1, <2>2, <2>3, <3>1, FaultTypes DEF DistInv, TypeOK
  <2>7. QED
    BY <2>5, <2>6 DEF DistInv
<1>8. QED
  BY <1>1, <1>6, <1>7

\* What the reader thread does to a connection.
LEMMA CutNet == \A n \in Net : Cut(n) \in Net
<1>1. 0 \in Lines
  BY DistAssumption DEF Lines
<1>2. QED
  BY <1>1, NetSteps DEF Cut

LEMMA ReadAheadInv == ASSUME DistInv, ReadAhead PROVE DistInv'
<1> DEFINE r == Head(Unread)
           next == Min({ChunkPos(call.got + 1), Total})
           v == Verdict(r, call.base + call.got, Prefix(next))
<1>1. /\ call.pc = "pipe" /\ call.rc = "none" /\ call.got < Count
      /\ UNCHANGED <<own, last, req, torn, registered, control, down, kv, fwd, pending, env>>
      /\ \/ /\ Unread # <<>> /\ plan' = PlanAfter
            /\ IF v = "ok"
               THEN /\ line' = Taken
                    /\ call' = [call EXCEPT !.got = @ + 1, !.spanned = TRUE]
                    /\ logits' = IF call.got + 1 = Count THEN Received(r) ELSE logits
               ELSE /\ line' = Cut(Taken) /\ logits' = logits
                    /\ call' = [call EXCEPT !.rc = v]
         \/ /\ call' = [call EXCEPT !.rc = "failed"] /\ line' = Cut(line)
            /\ UNCHANGED <<logits, plan>>
  BY DEF ReadAhead, Reading
<1>2. /\ call \in Calls /\ line \in Net /\ plan \in Plans /\ req \in Nat
      /\ call.base \in Nat /\ call.got \in Nat /\ call.pos \in Nat /\ Total \in Nat
      /\ call.pos < Total /\ Count \in Nat
      /\ (own.valid => own.toks # <<>>)
      /\ call.sent < Count /\ ~(call.reset /\ call.sent = 0) => own.valid
  BY <1>1, PipeFacts
<1>3. Unread # <<>> => /\ Taken \in Net /\ PlanAfter \in Plans
                       /\ v \in {"ok", "failed", "remote"}
                       /\ v = "ok" => Received(r) = [of |-> Prefix(next), exact |-> TRUE]
  <2> SUFFICES ASSUME Unread # <<>>
               PROVE  /\ Taken \in Net /\ PlanAfter \in Plans
                      /\ v \in {"ok", "failed", "remote"}
                      /\ v = "ok" => Received(r) = [of |-> Prefix(next), exact |-> TRUE]
    OBVIOUS
  <2>1. r \in Answers /\ Taken \in Net /\ PlanAfter \in Plans
    BY NextAnswer
  <2>2. call.base + call.got \in Int
    BY <1>2
  <2> HIDE DEF r, next
  <2>3. QED
    BY <2>1, <2>2, AcceptedAnswer
<1>4. call.got + 1 = Count => Prefix(next) = call.target
  <2> SUFFICES ASSUME call.got + 1 = Count PROVE Prefix(next) = call.target
    OBVIOUS
  <2>1. ChunkPos(Count) >= Total /\ ChunkPos(Count) \in Nat
    BY <1>2, PipelinedChunks
  <2>2. next = Total
    BY <1>2, <2>1, Least
  <2>3. Total <= Total
    BY <1>2
  <2> HIDE DEF next
  <2>4. QED
    BY <1>2, <2>2, <2>3, Chunks
<1> HIDE DEF r, next, v
<1>5. line' \in Net /\ plan' \in Plans
  BY <1>1, <1>2, <1>3, CutNet
<1>6. ASSUME NEW rc \in {"failed", "remote"}, call' = [call EXCEPT !.rc = rc],
             logits' = logits
      PROVE  call' \in Calls /\ SliceExtends' /\ LogitsFollow'
  <2>1. /\ call' \in Calls /\ call'.pc = call.pc /\ call'.pos = call.pos
        /\ call'.target = call.target /\ call'.reset = call.reset /\ call'.got = call.got
        /\ call'.sent = call.sent /\ call'.rc = rc /\ call'.spanned = call.spanned
    BY <1>2, <1>6 DEF Calls
  <2>2. Total' = Total /\ Count' = Count /\ Now' = Now
    BY <2>1 DEF Total, Count, Now
  <2>3. SliceExtends'
    BY <1>1, <2>1, <2>2 DEF DistInv, SliceExtends
  <2>4. LogitsFollow'
    BY <1>1, <1>6, <2>1, <2>2 DEF DistInv, LogitsFollow, SpannedCallExact
  <2>5. QED
    BY <2>1, <2>3, <2>4
<1>7. ASSUME Unread # <<>>, v = "ok",
             call' = [call EXCEPT !.got = @ + 1, !.spanned = TRUE],
             logits' = IF call.got + 1 = Count THEN Received(r) ELSE logits
      PROVE  call' \in Calls /\ SliceExtends' /\ LogitsFollow'
  <2>1. /\ call' \in Calls /\ call'.pc = call.pc /\ call'.pos = call.pos
        /\ call'.target = call.target /\ call'.reset = call.reset /\ call'.got = call.got + 1
        /\ call'.sent = call.sent /\ call'.rc = call.rc /\ call'.spanned = TRUE
    <3>1. call' = [call EXCEPT !.got = @ + 1, !.spanned = TRUE] /\ call.got + 1 \in Nat
      BY <1>2, <1>7
    <3>2. QED
      BY <1>2, <3>1 DEF Calls
  <2>2. Total' = Total /\ Count' = Count /\ Now' = Now
    BY <2>1 DEF Total, Count, Now
  <2>3. SliceExtends'
    BY <1>1, <2>1, <2>2 DEF DistInv, SliceExtends
  <2>4. call.got + 1 = Count => logits' = Now
    BY <1>3, <1>4, <1>7 DEF Now
  <2>5. call.got + 1 <= Count /\ Total > 0 /\ Count > 0
    BY <1>1, <1>2
  <2>6. LogitsFollow'
    BY <1>1, <2>1, <2>2, <2>4, <2>5 DEF LogitsFollow, SpannedCallExact
  <2>7. QED
    BY <2>1, <2>3, <2>6
<1>8. call' \in Calls /\ SliceExtends' /\ LogitsFollow'
  BY <1>1, <1>3, <1>6, <1>7
<1>9. TypeOK'
  BY <1>1, <1>5, <1>8 DEF DistInv, TypeOK
<1>10. QED
  BY <1>8, <1>9 DEF DistInv

LEMMA JoinInv == ASSUME DistInv, Join PROVE DistInv'
<1>1. /\ call.pc = "pipe" /\ ~Reading
      /\ UNCHANGED <<own, logits, req, torn, registered, workers, env>>
  BY DEF Join
<1>2. /\ call \in Calls /\ call.got \in Nat /\ Count \in Nat /\ call.got <= Count
      /\ (own.valid => own.toks # <<>>) /\ plan \in Plans
  BY <1>1, PipeFacts
<1>3. CASE call.rc = "none"
  <2>1. /\ Return("ok")
        /\ plan' = (IF call.first THEN plan ELSE [plan EXCEPT !.ready = TRUE])
    BY <1>3 DEF Join
  <2>2. logits = Now
    <3>1. call.got = Count
      BY <1>1, <1>2, <1>3 DEF Reading
    <3>2. QED
      BY <1>1, <1>3, <3>1 DEF DistInv, LogitsFollow
  <2>3. call' \in Calls /\ SliceExtends' /\ LogitsFollow'
    BY <1>1, <2>1, <2>2, Returned
  <2>4. plan' \in Plans
    BY <1>2, <2>1 DEF Plans
  <2>5. TypeOK'
    BY <1>1, <2>3, <2>4 DEF DistInv, TypeOK, workers
  <2>6. QED
    BY <2>3, <2>5 DEF DistInv
<1>4. CASE call.rc # "none"
  <2>1. call' = Failed(call, call.rc) /\ UNCHANGED <<last, plan>>
    BY <1>4 DEF Join
  <2>2. call.rc \in {"failed", "remote"}
    BY <1>2, <1>4 DEF Calls
  <2>3. call.spanned => Len(call.target) > 0
    BY DEF DistInv, LogitsFollow, Total
  <2>4. own'.valid => own'.toks # <<>>
    BY <1>1, <1>2
  <2>5. call' \in Calls /\ SliceExtends' /\ LogitsFollow'
    BY <1>2, <2>1, <2>2, <2>3, <2>4, FailedCall
  <2>6. TypeOK'
    BY <1>1, <2>1, <2>5 DEF DistInv, TypeOK, workers
  <2>7. QED
    BY <2>5, <2>6 DEF DistInv
<1>5. QED
  BY <1>3, <1>4

-----------------------------------------------------------------------------
(* The theorems.                                                           *)

LEMMA InitInv == Init => DistInv
<1> SUFFICES ASSUME Init PROVE DistInv
  OBVIOUS
<1>1. <<>> \in Seq(Tokens) /\ <<>> \in Seq(Int) /\ <<>> \in Seq(Answers)
  OBVIOUS
<1>2. Idle \in Calls /\ Idle.pc = "idle" /\ Idle.spanned = FALSE
  BY <1>1 DEF Idle, Calls
<1>3. line \in Net
  <2>1. Opened \in Sockets /\ Shut \in Sockets /\ Shut.work = <<>>
    BY OpenedSocket DEF Shut
  <2>2. Hop(0) \in Hops
    BY DistAssumption DEF Hop, Hops
  <2>3. QED
    BY <2>1, <2>2 DEF Init, Net
<1>4. own \in Slices /\ own.valid = FALSE /\ kv \in [Hops -> Slices]
  BY FreshSlice DEF Init, Fresh
<1>5. plan \in Plans
  BY <1>1 DEF Init, NoPlan, Plans
<1>6. env \in [pipeline : BOOLEAN, cache : BOOLEAN, prompts : SUBSET Seq(Tokens), left : Int]
  <2>1. env \in [pipeline : BOOLEAN, cache : BOOLEAN, prompts : SUBSET Seq(Tokens),
                  left : Nat]
    BY DistAssumption DEF Init
  <2>2. QED
    BY <2>1
<1>7. call = Idle /\ last.spanned = FALSE /\ req \in Nat /\ fwd \in Lines /\ pending \in Seq(Int)
  BY <1>1, DistAssumption DEF Init, Lines
<1>8. TypeOK
  BY <1>2, <1>3, <1>4, <1>5, <1>6, <1>7 DEF TypeOK
<1>9. SliceExtends
  BY <1>2, <1>4, <1>7 DEF SliceExtends
<1>10. LogitsFollow
  BY <1>2, <1>7 DEF LogitsFollow, SpannedCallExact
<1>11. QED
  BY <1>8, <1>9, <1>10 DEF DistInv

LEMMA NextInv == DistInv /\ [Next]_vars => DistInv'
<1> SUFFICES ASSUME DistInv, [Next]_vars PROVE DistInv'
  OBVIOUS
<1>1. CASE Sync \/ Eval \/ SaveProgress
  BY <1>1, SyncInv, EvalInv, SaveProgressInv
<1>2. CASE Coordinator
  BY <1>2, RefusedInv, ForgetInv, RerouteInv, GiveUpInv, EvalSpanInv, ReceiveInv, FinishInv,
     ProduceInv, ReadAheadInv, JoinInv DEF Coordinator
<1>3. CASE Worker
  BY <1>3, ServeInv, RelayInv, RelayEndsInv, RejoinInv DEF Worker
<1>4. CASE Environment
  BY <1>4, CutLineInv, DropQueueInv, CutControlInv, CrashInv, MonitorInv DEF Environment
<1>5. CASE UNCHANGED vars
  <2>1. UNCHANGED <<owner, route, workers, env>>
    BY <1>5 DEF vars
  <2>2. call' \in Calls /\ SliceExtends' /\ LogitsFollow'
    BY <2>1, OwnerKeeps DEF owner
  <2>3. TypeOK'
    BY <2>1, <2>2 DEF DistInv, TypeOK, owner, route, workers
  <2>4. QED
    BY <2>2, <2>3 DEF DistInv
<1>6. QED
  BY <1>1, <1>2, <1>3, <1>4, <1>5 DEF Next

\* The inductive invariant: in every reachable state the frames under way have
\* exact rows, the good answers under way are exact, the coordinator's slice
\* is valid wherever the next span extends it, and the logits are those of
\* what has been answered for (dist_coordinator_eval_span,
\* dist_coordinator_prefill_prompt_pipelined, process_work).
THEOREM DistInvariant == Spec => []DistInv
<1>1. QED
  BY InitInv, NextInv, PTL DEF Spec

\* Whatever is lost, refused or replayed, a slice whose timeline is valid
\* holds rows of exactly its tokens, on every worker and on the coordinator,
\* and a call that succeeds after evaluating something leaves the logits of
\* the tokens it was asked for (ds4_dist_session_sync, ds4_session_eval).
THEOREM CallsExactCorrect == Spec => []CallsExact
<1>1. DistInv => CallsExact
  <2> SUFFICES ASSUME DistInv PROVE CallsExact
    OBVIOUS
  <2>1. own \in Slices /\ (\A h \in Hops : kv[h] \in Slices) /\ SpannedCallExact
    BY Facts DEF DistInv, LogitsFollow
  <2>2. QED
    BY <2>1 DEF CallsExact, SlicesExact, Slices
<1>2. QED
  BY <1>1, DistInvariant, PTL
=============================================================================
