------------------------- MODULE PrefillReaderProofs -------------------------
(***************************************************************************)
(* Proofs about PrefillReader, for any numbers of lanes, experts and jobs, *)
(* any guesses, choices, waves and failures, and however late a lane is.   *)
(***************************************************************************)
EXTENDS PrefillReader, FiniteSetTheorems, TLAPS

LaneType == [pc : LanePc, g : Nat, k : Nat, id : Experts \cup {0}, s : Sets, o : Nat]

LEMMA Parity ==
  \A n \in Nat : n % 2 \in Sets /\ (n + 1) % 2 \in Sets /\ (n + 1) % 2 # n % 2
  BY DEF Sets

\* A list of the experts of a set.
LEMMA ListOf ==
  ASSUME NEW S \in SUBSET Experts
  PROVE  /\ SetToSeq(S) \in Seq(Experts)
         /\ \A i \in S : \E j \in DOMAIN SetToSeq(S) : SetToSeq(S)[j] = i
         /\ \A j \in DOMAIN SetToSeq(S) : SetToSeq(S)[j] \in S
<1> DEFINE n == Cardinality(S)
<1>1. IsFiniteSet(S) /\ n \in Nat /\ ExistsBijection(1..n, S)
  BY FS_Subset, FS_CardinalityType, ReaderAssumption
<1>2. \E f \in [1..n -> S] : IsInjective(f)
  BY <1>1 DEF ExistsBijection, Bijection, Injection
<1>3. SetToSeq(S) \in [1..n -> S] /\ IsInjective(SetToSeq(S))
  BY <1>2 DEF SetToSeq
<1>4. SetToSeq(S) \in Injection(1..n, S)
  BY <1>3 DEF Injection
<1>5. Cardinality(1..n) = n
  BY <1>1, FS_Interval
<1>6. SetToSeq(S) \in Surjection(1..n, S)
  BY <1>1, <1>4, <1>5, FS_Injection
<1>7. SetToSeq(S) \in Seq(Experts)
  BY <1>1, <1>3
<1>8. QED
  BY <1>3, <1>6, <1>7 DEF Surjection

LEMMA TypeInit == Init => TypeOK
<1> SUFFICES ASSUME Init PROVE TypeOK
  OBVIOUS
<1>1. Gone \in LaneType
  BY DEF Gone, LaneType, LanePc, Sets
<1>2. lane \in [Lanes -> LaneType]
  BY <1>1 DEF Init
<1>3. state \in [Sets -> [Experts -> States]] /\ slot \in [Sets -> [Experts -> Nat]]
  BY DEF Init, States
<1>4. need \in Seq(Experts) /\ topup \in Seq(Experts)
  BY DEF Init
<1>5. lane \in [Lanes -> [pc : LanePc, g : Nat, k : Nat, id : Experts \cup {0},
                          s : Sets, o : Nat]]
  BY <1>2 DEF LaneType
<1>0. /\ mpc = "idle" /\ pub = 1 /\ used = {} /\ wanted = {} /\ parts = 1 /\ at = 0
      /\ staged = FALSE /\ gen = 0 /\ set = 0 /\ off = 0 /\ cursor = 0 /\ tcursor = 0
      /\ active = FALSE /\ hint = FALSE /\ stop = FALSE /\ begun = {} /\ strays = {}
  BY DEF Init
<1>6. pub \in Sets /\ set \in Sets
  BY <1>0 DEF Sets
<1>7. /\ used \subseteq Experts \X Nat /\ wanted \subseteq Experts
      /\ begun \subseteq Experts /\ strays \subseteq Experts \X Nat
  BY <1>0, Zenon
<1>8. /\ parts \in Nat /\ at \in Nat /\ gen \in Nat
      /\ off \in Nat /\ cursor \in Nat /\ tcursor \in Nat
  BY <1>0
<1>9. QED
  BY <1>0, <1>3, <1>4, <1>5, <1>6, <1>7, <1>8 DEF TypeOK


\* What a lane may set of its own record.
LEMMA LaneSets ==
  ASSUME TypeOK, NEW l \in Lanes
  PROVE  /\ lane[l] \in LaneType /\ Idle \in LaneType /\ Gone \in LaneType
         /\ \A r \in LaneType : [lane EXCEPT ![l] = r] \in [Lanes -> LaneType]
         /\ \A pc \in LanePc, k \in Nat, i \in Experts \cup {0} :
              /\ [lane[l] EXCEPT !.pc = pc] \in LaneType
              /\ [lane[l] EXCEPT !.pc = pc, !.k = k] \in LaneType
              /\ [lane[l] EXCEPT !.pc = pc, !.id = i, !.k = k] \in LaneType
              /\ [lane[l] EXCEPT !.pc = pc, !.s = set] \in LaneType
              /\ [lane[l] EXCEPT !.pc = pc, !.o = off] \in LaneType
         /\ [Idle EXCEPT !.pc = "look", !.g = gen] \in LaneType
<1>1. lane \in [Lanes -> LaneType] /\ set \in Sets /\ off \in Nat /\ gen \in Nat
  BY DEF TypeOK, LaneType
<1>2. Gone \in LaneType
  BY DEF Gone, LaneType, LanePc, Sets
<1>3. Idle \in LaneType /\ [Idle EXCEPT !.pc = "look", !.g = gen] \in LaneType
  BY <1>1, <1>2 DEF Idle, LaneType, LanePc
<1>4. lane[l] \in LaneType
  BY <1>1
<1>5. \A r \in LaneType : [lane EXCEPT ![l] = r] \in [Lanes -> LaneType]
  BY <1>1
<1>6. \A pc \in LanePc, k \in Nat, i \in Experts \cup {0} :
        /\ [lane[l] EXCEPT !.pc = pc] \in LaneType
        /\ [lane[l] EXCEPT !.pc = pc, !.k = k] \in LaneType
        /\ [lane[l] EXCEPT !.pc = pc, !.id = i, !.k = k] \in LaneType
        /\ [lane[l] EXCEPT !.pc = pc, !.s = set] \in LaneType
        /\ [lane[l] EXCEPT !.pc = pc, !.o = off] \in LaneType
  BY <1>1, <1>4 DEF LaneType
<1>7. QED
  BY <1>2, <1>3, <1>4, <1>5, <1>6

\* Each step of a lane: its record, and what it changes of the rest.
Step(l, r) == lane' = [lane EXCEPT ![l] = r] /\ r \in LaneType

LEMMA ClaimDoes ==
  ASSUME TypeOK, NEW l \in Lanes, NEW c \in Experts, NEW else \in LanePc, Claim(l, c, else)
  PROVE  \/ /\ Step(l, [lane[l] EXCEPT !.pc = "copy", !.id = c, !.k = 0])
            /\ state' = [state EXCEPT ![lane[l].g % 2][c] = "claimed"]
            /\ state[lane[l].g % 2][c] = "untouched"
         \/ Step(l, [lane[l] EXCEPT !.pc = else, !.k = 0]) /\ UNCHANGED state
<1>1. lane \in [Lanes -> LaneType] /\ "copy" \in LanePc
  BY DEF TypeOK, LaneType, LanePc
<1>2. /\ [lane[l] EXCEPT !.pc = "copy", !.id = c, !.k = 0] \in LaneType
      /\ [lane[l] EXCEPT !.pc = else, !.k = 0] \in LaneType
  BY <1>1, LaneSets
<1>3. CASE state[lane[l].g % 2][c] = "untouched"
  <2>1. lane' = [lane EXCEPT ![l] = [lane[l] EXCEPT !.pc = "copy", !.id = c, !.k = 0]]
    BY <1>1, <1>3 DEF Claim
  <2>2. QED
    BY <1>2, <1>3, <2>1 DEF Claim, Step
<1>4. CASE state[lane[l].g % 2][c] # "untouched"
  <2>1. lane' = [lane EXCEPT ![l] = [lane[l] EXCEPT !.pc = else, !.k = 0]]
    BY <1>1, <1>4 DEF Claim
  <2>2. QED
    BY <1>2, <1>4, <2>1 DEF Claim, Step
<1>5. QED
  BY <1>3, <1>4

-----------------------------------------------------------------------------
(* The lanes.  A step of a lane keeps the invariant when it keeps what the *)
(* lane itself promises, writes into a set only the bytes of the set's     *)
(* job, and calls an expert landed only when its bytes are there, or else  *)
(* is noted as a late lane's.                                              *)

LEMMA Ages ==
  ASSUME TypeOK, NEW l \in Lanes, LaneFits(l), lane[l].pc \notin {"idle", "gone"}
  PROVE  /\ lane[l].g \in Nat /\ gen \in Nat /\ Newborn \in Nat /\ lane[l].g <= gen
         /\ gen <= Newborn /\ Newborn <= gen + 1
         /\ mpc \in Installing => Newborn = gen + 1
         /\ mpc \notin Installing => Newborn = gen
         /\ ~Late(l) => lane[l].g = Newborn \/ lane[l].g + 1 = Newborn
         /\ ~Late(l) /\ InWindow(l) => lane[l].g = gen /\ mpc \notin Installing
<1>1. lane[l].g \in Nat /\ gen \in Nat
  BY DEF TypeOK
<1>2. lane[l].g <= gen
  BY DEF LaneFits
<1>3. QED
  BY <1>1, <1>2 DEF Newborn, Late

\* The job of a set is the newest or the one before, in the published set of
\* kernels that run and in the set that is waited for.
LEMMA SetAges ==
  ASSUME TypeOK, Published
  PROVE  /\ Newborn \in Nat /\ gen \in Nat
         /\ used # {} => JobOf(pub) = Newborn \/ JobOf(pub) = Newborn - 1
         /\ mpc \in {"router", "finish"} => JobOf(set) = gen /\ Newborn = gen
<1>1. gen \in Nat
  BY DEF TypeOK
<1>2. used # {} /\ mpc = "set" => set = pub
  BY DEF Published
<1>3. QED
  BY <1>1, <1>2 DEF JobOf, Newest, Newborn, Installing

\* A note of the newest job is one of the job before, too.
LEMMA NotedBoth ==
  ASSUME NEW i, NEW j \in Int, Newborn \in Nat, <<i, Newborn>> \in strays,
         j = Newborn \/ j = Newborn - 1
  PROVE  Strayed(i, j)
  BY DEF Strayed

LEMMA LaneFrame ==
  ASSUME ReaderInv, NEW l \in Lanes, NEW r \in LaneType,
         lane[l].pc # "gone", lane' = [lane EXCEPT ![l] = r],
         UNCHANGED <<main, gen, set, off, topup, active, hint, stop>>,
         cursor' \in Nat, tcursor' \in Nat,
         state' \in [Sets -> [Experts -> States]],
         slot' \in [Sets -> [Experts -> Nat]],
         begun' \subseteq Experts,
         NEW N \in SUBSET (Experts \X {Newborn}), strays' = strays \cup N,
         mpc \in Installing =>
           \A i \in Experts : state'[(gen + 1) % 2][i] = "landed" =>
             state[(gen + 1) % 2][i] = "landed" \/ <<i, Newborn>> \in N,
         \A s \in Sets, i \in Experts :
           slot'[s][i] = slot[s][i] \/ slot'[s][i] = JobOf(s) \/ <<i, Newborn>> \in strays',
         mpc \in {"router", "finish"} =>
           \A i \in Experts : state'[gen % 2][i] = "landed" =>
             state[gen % 2][i] = "landed" \/ Arrived(i) \/ <<i, Newborn>> \in N,
         LaneFits(l)'
  PROVE  ReaderInv'
<1>1. TypeOK /\ Published /\ (\A m \in Lanes : LaneFits(m)) /\ Landed /\ KernelsReadTheirLayer
  BY DEF ReaderInv
<1>2. mpc' = mpc /\ pub' = pub /\ used' = used /\ wanted' = wanted /\ need' = need
      /\ parts' = parts /\ at' = at /\ staged' = staged
  BY DEF main
<1>3. lane \in [Lanes -> LaneType]
  BY <1>1 DEF TypeOK, LaneType
<1>0. Newborn' = Newborn /\ Newborn \in Nat /\ gen \in Nat
  BY <1>1, <1>2, SetAges DEF Newborn
<1>4. TypeOK'
  <2>1. lane' \in [Lanes -> LaneType]
    BY <1>3
  <2>2. strays' \subseteq Experts \X Nat
    BY <1>0, <1>1 DEF TypeOK
  <2>3. QED
    BY <1>1, <1>2, <2>1, <2>2 DEF TypeOK, LaneType
<1>5. Newest' = Newest /\ \A s \in Sets : JobOf(s)' = JobOf(s)
  BY <1>2 DEF Newest, JobOf
<1>6. Published'
  <2>1. ~AllGone
    BY DEF AllGone
  <2>2. \A u \in used' : u[2] = JobOf(pub)'
    BY <1>1, <1>2, <1>5 DEF Published, TypeOK
  <2>3. mpc # "idle" /\ (mpc = "set" => set = pub)
    BY <1>1, <2>1 DEF Published
  <2>4. mpc \in Installing => Newborn = gen + 1
    BY DEF Newborn
  <2>5. mpc' \in Installing => \A i \in Experts :
          state'[(gen' + 1) % 2][i] = "landed" => <<i, gen' + 1>> \in strays'
    BY <1>1, <1>2, <2>4 DEF Published
  <2>6. \A x \in strays' : x[2] <= Newborn'
    BY <1>0, <1>1 DEF Published
  <2>7. QED
    BY <1>1, <1>2, <2>2, <2>3, <2>5, <2>6 DEF Published
<1>20. \A i, j : Strayed(i, j) => Strayed(i, j)'
  BY DEF Strayed
<1>21. ASSUME NEW i, NEW j \in Int, <<i, Newborn>> \in strays',
              j = Newborn \/ j = Newborn - 1
       PROVE  Strayed(i, j)'
  BY <1>0, <1>21 DEF Strayed
<1>7. ASSUME NEW m \in Lanes PROVE LaneFits(m)'
  <2>1. CASE m = l
    BY <2>1
  <2>2. CASE m # l
    <3>1. lane'[m] = lane[m] /\ lane[m] \in LaneType
      BY <1>3, <2>2
    <3>2. LaneFits(m) /\ InWindow(m)' = InWindow(m)
      BY <1>1, <3>1 DEF InWindow
    <3>3. Late(m)' = Late(m)
      BY <1>0, <3>1, <3>2 DEF Late
    <3>4. lane[m].s \in Sets /\ JobOf(lane[m].s)' = JobOf(lane[m].s)
      BY <1>2, <3>1 DEF LaneType, JobOf, Newest
    <3>5. ASSUME lane[m].pc = "done", ~Late(m)
          PROVE  Strayed(lane[m].id, lane[m].g)' \/ slot'[lane[m].s][lane[m].id] = lane[m].g
      <4>1. PICK i \in Experts, g \in Nat, t \in Sets :
              i = lane[m].id /\ g = lane[m].g /\ t = lane[m].s
        BY <3>1, <3>2, <3>5 DEF LaneFits, LaneType
      <4>2. /\ <<i, g + 1>> \in strays \/ g = JobOf(t)
            /\ Strayed(i, g) \/ slot[t][i] = g
        BY <3>2, <3>5, <4>1 DEF LaneFits
      <4>3. g = Newborn \/ g = Newborn - 1
        BY <1>0, <1>1, <3>2, <3>5, <4>1, Ages
      <4>4. <<i, g + 1>> \in strays => Strayed(i, g)
        BY DEF Strayed
      <4>5. <<i, Newborn>> \in strays' => Strayed(i, g)'
        BY <4>3, <1>21
      <4>6. slot'[t][i] = slot[t][i] \/ slot'[t][i] = JobOf(t) \/ <<i, Newborn>> \in strays'
        OBVIOUS
      <4>7. Strayed(i, g)' \/ slot'[t][i] = g
        BY <4>2, <4>4, <4>5, <4>6, <1>20
      <4>8. i = lane'[m].id /\ g = lane'[m].g
        BY <3>1, <4>1
      <4>9. QED
        BY <4>1, <4>7, <4>8 DEF Strayed
    <3>6. <<lane[m].id, lane[m].g + 1>> \in strays => <<lane[m].id, lane[m].g + 1>> \in strays'
      OBVIOUS
    <3>7. QED
      BY <1>2, <3>1, <3>2, <3>3, <3>4, <3>5, <3>6 DEF LaneFits
  <2>3. QED
    BY <2>1, <2>2
<1>8. mpc \in {"router", "finish"} => JobOf(set) = gen /\ Newborn = gen
  BY <1>1, SetAges
<1>9. ASSUME NEW i \in Experts, mpc \in {"router", "finish"},
             Arrived(i) \/ <<i, Newborn>> \in strays'
      PROVE  Arrived(i)'
  <2>1. set \in Sets /\ (slot'[set][i] = slot[set][i] \/ slot'[set][i] = gen
                         \/ <<i, Newborn>> \in strays')
    BY <1>1, <1>8, <1>9 DEF TypeOK
  <2>2. <<i, Newborn>> \in strays' => Strayed(i, gen)'
    BY <1>0, <1>8, <1>9, <1>21
  <2>3. QED
    BY <1>9, <1>20, <2>1, <2>2 DEF Arrived
<1>10. Landed'
  <2>1. mpc \in {"router", "finish"} =>
          \A i \in Experts : state'[gen % 2][i] = "landed" => Arrived(i)'
    BY <1>1, <1>9 DEF Landed, Array
  <2>2. mpc = "finish" => \A j \in DOMAIN need : j <= at => Arrived(need[j])'
    <3>1. \A j \in DOMAIN need : need[j] \in Experts
      BY <1>1 DEF TypeOK
    <3>2. \A j \in DOMAIN need : j <= at /\ mpc = "finish" => Arrived(need[j])
      BY <1>1 DEF Landed
    <3>3. ASSUME NEW j \in DOMAIN need, j <= at, mpc = "finish" PROVE Arrived(need[j])'
      <4>1. PICK i \in Experts : i = need[j]
        BY <3>1, <3>3
      <4>2. Arrived(i)
        BY <3>2, <3>3, <4>1 DEF Arrived
      <4>3. Arrived(i)'
        BY <1>9, <3>3, <4>2
      <4>4. need'[j] = i
        BY <1>2, <4>1
      <4>5. QED
        BY <4>3, <4>4 DEF Arrived, Strayed
    <3>4. QED
      BY <3>3
  <2>3. mpc = "finish" =>
          \A i \in wanted : Arrived(i)' \/ \E j \in DOMAIN need : at < j /\ need[j] = i
    <3>1. \A i \in wanted : i \in Experts
      BY <1>1 DEF TypeOK
    <3>2. QED
      BY <1>1, <1>9, <3>1 DEF Landed
  <2>4. QED
    BY <1>2, <2>1, <2>2, <2>3 DEF Landed, Array
<1>11. KernelsReadTheirLayer'
  <2>1. ASSUME NEW u \in used PROVE slot'[pub][u[1]] = u[2] \/ Strayed(u[1], u[2])'
    <3>0. pub \in Sets /\ used \subseteq Experts \X Nat /\ \A v \in used : v[2] = JobOf(pub)
      BY <1>1 DEF TypeOK, Published
    <3>1. /\ u[1] \in Experts /\ u[2] = JobOf(pub) /\ pub \in Sets /\ u[2] \in Int
          /\ slot[pub][u[1]] = u[2] \/ Strayed(u[1], u[2])
      BY <1>1, <3>0 DEF KernelsReadTheirLayer
    <3>2. u[2] = Newborn \/ u[2] = Newborn - 1
      BY <1>1, <3>1, SetAges
    <3>3. <<u[1], Newborn>> \in strays' => Strayed(u[1], u[2])'
      BY <3>1, <3>2, <1>21
    <3>4. \/ slot'[pub][u[1]] = slot[pub][u[1]] \/ slot'[pub][u[1]] = u[2]
          \/ <<u[1], Newborn>> \in strays'
      BY <3>1
    <3>5. QED
      BY <3>1, <3>3, <3>4, <1>20
  <2>2. QED
    BY <1>2, <2>1 DEF KernelsReadTheirLayer
<1>12. QED
  BY <1>4, <1>6, <1>7, <1>10, <1>11 DEF ReaderInv

\* What a step notes.
LEMMA NotesAre ==
  ASSUME ReaderInv, NEW l \in Lanes, NEW i \in Experts, Notes(l, i)
  PROVE  \E N \in SUBSET (Experts \X {Newborn}) :
           strays' = strays \cup N /\ (Late(l) => <<i, Newborn>> \in N)
<1>1. CASE Late(l)
  <2>1. {<<i, Newborn>>} \in SUBSET (Experts \X {Newborn})
    OBVIOUS
  <2>2. QED
    BY <1>1, <2>1 DEF Notes
<1>2. CASE ~Late(l)
  <2>1. {} \in SUBSET (Experts \X {Newborn})
    OBVIOUS
  <2>2. strays' = strays \cup {}
    BY <1>2 DEF Notes
  <2>3. QED
    BY <1>2, <2>1, <2>2
<1>3. QED
  BY <1>1, <1>2

LEMMA LaneFacts ==
  ASSUME ReaderInv, NEW l \in Lanes
  PROVE  /\ TypeOK /\ Published /\ LaneFits(l) /\ Landed
         /\ lane \in [Lanes -> LaneType] /\ lane[l] \in LaneType
         /\ gen \in Nat /\ set \in Sets /\ pub \in Sets /\ off \in Nat
         /\ cursor \in Nat /\ tcursor \in Nat /\ topup \in Seq(Experts)
         /\ state \in [Sets -> [Experts -> States]]
         /\ slot \in [Sets -> [Experts -> Nat]]
         /\ lane[l].g % 2 \in Sets /\ gen % 2 \in Sets /\ (gen + 1) % 2 \in Sets
<1>1. TypeOK /\ Published /\ LaneFits(l) /\ Landed
  BY DEF ReaderInv
<1>2. lane \in [Lanes -> LaneType] /\ lane[l] \in LaneType
  BY <1>1 DEF TypeOK, LaneType
<1>3. lane[l].g \in Nat /\ gen \in Nat
  BY <1>1, <1>2 DEF LaneType, TypeOK
<1>4. QED
  BY <1>1, <1>2, <1>3, Parity DEF TypeOK

\* A step that touches neither the states nor the slots.
LEMMA LaneQuiet ==
  ASSUME ReaderInv, NEW l \in Lanes, NEW r \in LaneType,
         lane[l].pc # "gone", lane' = [lane EXCEPT ![l] = r],
         UNCHANGED <<main, gen, set, off, topup, active, hint, stop, state, slot>>,
         cursor' \in Nat, tcursor' \in Nat, begun' \subseteq Experts,
         NEW N \in SUBSET (Experts \X {Newborn}), strays' = strays \cup N,
         LaneFits(l)'
  PROVE  ReaderInv'
<1>1. state \in [Sets -> [Experts -> States]] /\ slot \in [Sets -> [Experts -> Nat]]
  BY LaneFacts
<1>2. state' = state /\ slot' = slot
  OBVIOUS
<1>3. UNCHANGED <<main, gen, set, off, topup, active, hint, stop>>
  OBVIOUS
<1>4. QED
  BY <1>1, <1>2, <1>3, LaneFrame

\* The same, and nothing is noted.
LEMMA LaneStill ==
  ASSUME ReaderInv, NEW l \in Lanes, NEW r \in LaneType,
         lane[l].pc # "gone", lane' = [lane EXCEPT ![l] = r],
         UNCHANGED <<main, gen, set, off, topup, active, hint, stop, state, slot, history>>,
         cursor' \in Nat, tcursor' \in Nat,
         LaneFits(l)'
  PROVE  ReaderInv'
<1>1. begun' \subseteq Experts /\ strays' = strays \cup {}
  BY LaneFacts DEF TypeOK, history
<1>2. {} \in SUBSET (Experts \X {Newborn})
  OBVIOUS
<1>3. UNCHANGED <<main, gen, set, off, topup, active, hint, stop, state, slot>>
  OBVIOUS
<1>4. QED
  BY <1>1, <1>2, <1>3, LaneQuiet

\* What an own record that promises little has to say.
LEMMA LaneLight ==
  ASSUME NEW l \in Lanes, NEW r, lane'[l] = r, gen' = gen, set' = set,
         \/ r.pc \in {"idle", "gone"}
         \/ /\ r.g <= gen
            /\ \/ r.pc \in {"look", "topup", "pick", "ranked"}
               \/ r.pc \in {"copy", "missed"} /\ r.id \in Experts
               \/ r.pc = "check" /\ r.id \in Experts /\ r.s = set
  PROVE  LaneFits(l)'
<1> DEFINE me == lane'[l]
<1>1. /\ me.pc \notin {"idle", "gone"} => me.g <= gen
      /\ me.pc \in {"copy", "check", "read", "done", "missed"} => me.id \in Experts
      /\ me.pc = "check" => me.s = set
      /\ me.pc \notin {"read", "done"}
  OBVIOUS
<1>2. QED
  BY <1>1 DEF LaneFits

LEMMA LoadKeeps ==
  ASSUME ReaderInv, NEW l \in Lanes, Load(l) PROVE ReaderInv'
<1> DEFINE r == IF stop THEN Gone ELSE [Idle EXCEPT !.pc = "look", !.g = gen]
<1>1. r \in LaneType
  BY LaneFacts, LaneSets
<1>2. lane' = [lane EXCEPT ![l] = r] /\ lane \in [Lanes -> LaneType] /\ lane[l].pc = "idle"
  BY LaneFacts DEF Load
<1>3. r.pc = "gone" \/ (r.g <= gen /\ r.pc = "look")
  BY LaneFacts DEF Gone, Idle
<1>4. UNCHANGED <<main, gen, set, off, topup, active, hint, stop, state, slot, history>>
      /\ cursor' = cursor /\ tcursor' = tcursor
  BY DEF shared, Load
<1>5. gen' = gen /\ set' = set /\ lane'[l] = r
  BY <1>2, <1>4
<1> HIDE DEF r
<1>6. LaneFits(l)'
  BY <1>3, <1>5, LaneLight
<1>7. cursor' \in Nat /\ tcursor' \in Nat
  BY <1>4, LaneFacts
<1>8. QED
  BY <1>1, <1>2, <1>4, <1>6, <1>7, LaneStill

LEMMA LookKeeps ==
  ASSUME ReaderInv, NEW l \in Lanes, Look(l) PROVE ReaderInv'
<1> DEFINE pc == IF active THEN "topup" ELSE "ranked"
           r == [lane[l] EXCEPT !.pc = pc]
<1>1. pc \in LanePc /\ r \in LaneType
  BY LaneFacts DEF LanePc, LaneType
<1>2. lane' = [lane EXCEPT ![l] = r] /\ lane \in [Lanes -> LaneType] /\ lane[l].pc = "look"
  BY LaneFacts DEF Look
<1>3. r.g <= gen /\ r.pc \in {"topup", "ranked"}
  BY <1>2, LaneFacts DEF LaneFits, LaneType
<1>4. UNCHANGED <<main, gen, set, off, topup, active, hint, stop, state, slot, history>>
      /\ cursor' = cursor /\ tcursor' = tcursor
  BY DEF shared, Look
<1>5. gen' = gen /\ set' = set /\ lane'[l] = r
  BY <1>2, <1>4
<1> HIDE DEF r
<1>6. LaneFits(l)'
  BY <1>3, <1>5, LaneLight
<1>7. cursor' \in Nat /\ tcursor' \in Nat
  BY <1>4, LaneFacts
<1>8. QED
  BY <1>1, <1>2, <1>4, <1>6, <1>7, LaneStill

LEMMA TopUpKeeps ==
  ASSUME ReaderInv, NEW l \in Lanes, TopUp(l) PROVE ReaderInv'
<1>1. /\ lane \in [Lanes -> LaneType] /\ lane[l].pc = "topup" /\ lane[l] \in LaneType
      /\ LaneFits(l) /\ tcursor \in Nat /\ cursor \in Nat /\ topup \in Seq(Experts)
  BY LaneFacts DEF TopUp
<1>2. lane[l].g <= gen
  BY <1>1 DEF LaneFits
<1>3. PICK r \in LaneType :
        lane' = [lane EXCEPT ![l] = r] /\ tcursor' \in Nat
        /\ (r.pc = "idle" \/ (r.g <= gen /\ r.pc \in {"pick", "ranked"}))
  <2>1. CASE tcursor < Len(topup)
    <3> DEFINE r == [lane[l] EXCEPT !.pc = "pick", !.k = tcursor]
    <3>1. r \in LaneType /\ r.g <= gen /\ r.pc = "pick"
      BY <1>1, <1>2 DEF LaneType, LanePc
    <3>2. lane' = [lane EXCEPT ![l] = r] /\ tcursor' \in Nat
      <4>1. /\ tcursor' = tcursor + 1
            /\ lane' = [lane EXCEPT ![l].pc = "pick", ![l].k = tcursor]
        BY <2>1 DEF TopUp
      <4>2. [lane EXCEPT ![l].pc = "pick", ![l].k = tcursor] = [lane EXCEPT ![l] = r]
        BY <1>1
      <4>3. QED
        BY <1>1, <4>1, <4>2
    <3> HIDE DEF r
    <3>3. QED
      BY <3>1, <3>2
  <2>2. CASE ~(tcursor < Len(topup)) /\ hint
    <3> DEFINE r == [lane[l] EXCEPT !.pc = "ranked"]
    <3>1. r \in LaneType /\ r.g <= gen /\ r.pc = "ranked"
      BY <1>1, <1>2 DEF LaneType, LanePc
    <3>2. lane' = [lane EXCEPT ![l] = r] /\ tcursor' \in Nat
      <4>1. /\ tcursor' = tcursor
            /\ lane' = [lane EXCEPT ![l] = IF hint THEN [@ EXCEPT !.pc = "ranked"] ELSE Idle]
        BY <2>2 DEF TopUp
      <4>2. QED
        BY <1>1, <2>2, <4>1
    <3> HIDE DEF r
    <3>3. QED
      BY <3>1, <3>2
  <2>3. CASE ~(tcursor < Len(topup)) /\ ~hint
    <3>1. Idle \in LaneType /\ Idle.pc = "idle"
      BY LaneFacts, LaneSets DEF Idle, Gone
    <3>2. lane' = [lane EXCEPT ![l] = Idle] /\ tcursor' \in Nat
      BY <1>1, <2>3 DEF TopUp
    <3>3. QED
      BY <3>1, <3>2
  <2>4. QED
    BY <2>1, <2>2, <2>3
<1>4. PICK N \in SUBSET (Experts \X {Newborn}) : strays' = strays \cup N
  <2>1. CASE tcursor < Len(topup)
    <3>1. Notes(l, topup[tcursor + 1])
      BY <2>1 DEF TopUp
    <3>2. topup[tcursor + 1] \in Experts
      BY <1>1, <2>1
    <3>3. QED
      BY <3>1, <3>2, NotesAre
  <2>2. CASE ~(tcursor < Len(topup))
    <3>1. strays' = strays \cup {}
      BY <2>2 DEF TopUp
    <3>2. {} \in SUBSET (Experts \X {Newborn})
      OBVIOUS
    <3>3. QED
      BY <3>1, <3>2
  <2>3. QED
    BY <2>1, <2>2
<1>5. UNCHANGED <<main, gen, set, off, topup, active, hint, stop, state, slot>>
      /\ cursor' = cursor /\ begun' \subseteq Experts
  BY LaneFacts DEF TopUp, TypeOK
<1>6. gen' = gen /\ set' = set /\ lane'[l] = r
  BY <1>1, <1>3, <1>5
<1>7. LaneFits(l)'
  BY <1>3, <1>6, LaneLight
<1>8. QED
  BY <1>1, <1>3, <1>4, <1>5, <1>7, LaneQuiet

LEMMA CopyKeeps ==
  ASSUME ReaderInv, NEW l \in Lanes, Copy(l) PROVE ReaderInv'
<1> DEFINE r == [lane[l] EXCEPT !.pc = "check", !.s = set]
<1>1. r \in LaneType
  BY LaneFacts DEF LanePc, LaneType
<1>2. lane' = [lane EXCEPT ![l] = r] /\ lane \in [Lanes -> LaneType] /\ lane[l].pc = "copy"
  BY LaneFacts DEF Copy
<1>3. r.g <= gen /\ r.pc = "check" /\ r.id \in Experts /\ r.s = set
  BY <1>2, LaneFacts DEF LaneFits, LaneType
<1>4. UNCHANGED <<main, gen, set, off, topup, active, hint, stop, state, slot, history>>
      /\ cursor' = cursor /\ tcursor' = tcursor
  BY DEF shared, Copy
<1>5. gen' = gen /\ set' = set /\ lane'[l] = r
  BY <1>2, <1>4
<1> HIDE DEF r
<1>6. LaneFits(l)'
  BY <1>3, <1>5, LaneLight
<1>7. cursor' \in Nat /\ tcursor' \in Nat
  BY <1>4, LaneFacts
<1>8. QED
  BY <1>1, <1>2, <1>4, <1>6, <1>7, LaneStill

LEMMA MissedKeeps ==
  ASSUME ReaderInv, NEW l \in Lanes, lane[l].pc \in {"check", "read"},
         lane' = [lane EXCEPT ![l].pc = "missed"],
         UNCHANGED <<main, shared, state, stop, slot, history>>
  PROVE  ReaderInv'
<1> DEFINE r == [lane[l] EXCEPT !.pc = "missed"]
<1>1. r \in LaneType
  BY LaneFacts DEF LanePc, LaneType
<1>2. lane' = [lane EXCEPT ![l] = r] /\ lane \in [Lanes -> LaneType] /\ lane[l].pc # "gone"
  BY LaneFacts
<1>3. r.g <= gen /\ r.pc = "missed" /\ r.id \in Experts
  BY LaneFacts DEF LaneFits, LaneType
<1>4. UNCHANGED <<main, gen, set, off, topup, active, hint, stop, state, slot, history>>
      /\ cursor' = cursor /\ tcursor' = tcursor
  BY DEF shared
<1>5. gen' = gen /\ set' = set /\ lane'[l] = r
  BY <1>2, <1>4
<1> HIDE DEF r
<1>6. LaneFits(l)'
  BY <1>3, <1>5, LaneLight
<1>7. cursor' \in Nat /\ tcursor' \in Nat
  BY <1>4, LaneFacts
<1>8. QED
  BY <1>1, <1>2, <1>4, <1>6, <1>7, LaneStill

LEMMA CheckKeeps ==
  ASSUME ReaderInv, NEW l \in Lanes, Check(l) PROVE ReaderInv'
<1>1. CASE gen # lane[l].g
  BY <1>1, MissedKeeps DEF Check
<1>2. CASE gen = lane[l].g
  <2> DEFINE r == [lane[l] EXCEPT !.pc = "read", !.o = off]
  <2>1. r \in LaneType
    BY LaneFacts DEF LanePc, LaneType
  <2>2. lane \in [Lanes -> LaneType] /\ lane[l].pc = "check" /\ lane[l].id \in Experts
        /\ lane[l].g \in Nat /\ TypeOK /\ LaneFits(l)
    BY LaneFacts DEF LaneFits, Check, LaneType
  <2>3. lane' = [lane EXCEPT ![l] = r] /\ Notes(l, lane[l].id)
        /\ begun' = begun \cup {lane[l].id}
    BY <1>2, <2>2 DEF Check
  <2>4. r.g = gen /\ r.pc = "read" /\ r.id = lane[l].id /\ r.s = lane[l].s /\ r.o = off
    BY <1>2, <2>2, LaneFacts DEF LaneType
  <2>5. UNCHANGED <<main, gen, set, off, topup, active, hint, stop, state, slot>>
        /\ cursor' = cursor /\ tcursor' = tcursor
    BY DEF Check, shared
  <2>6. mpc' = mpc /\ gen' = gen /\ set' = set /\ lane'[l] = r
    BY <2>2, <2>3, <2>5 DEF main
  <2>7. PICK N \in SUBSET (Experts \X {Newborn}) :
          strays' = strays \cup N /\ (Late(l) => <<lane[l].id, Newborn>> \in N)
    BY <2>2, <2>3, NotesAre
  <2>8. \/ <<lane[l].id, gen + 1>> \in strays'
        \/ off = gen /\ gen = JobOf(lane[l].s)
    <3>1. CASE Late(l)
      <4>1. InWindow(l)
        BY <2>2 DEF InWindow
      <4>2. Newborn = gen + 1
        BY <1>2, <2>2, <3>1, <4>1, Ages DEF Late
      <4>3. QED
        BY <2>7, <3>1, <4>2
    <3>2. CASE ~Late(l)
      <4>1. mpc \notin Installing /\ lane[l].s = set
        BY <2>2, <3>2, Ages DEF LaneFits, InWindow
      <4>2. QED
        BY <4>1, LaneFacts DEF Published, Installing, JobOf, Newest
    <3>3. QED
      BY <3>1, <3>2
  <2> HIDE DEF r
  <2>9. LaneFits(l)'
    <3>1. lane'[l].pc = "read" /\ lane'[l].id \in Experts /\ lane'[l].g = gen'
          /\ lane'[l].o = off /\ lane'[l].s = lane[l].s /\ lane'[l].id = lane[l].id
          /\ gen' = gen /\ gen \in Nat
      BY <2>2, <2>4, <2>6, LaneFacts
    <3>2. JobOf(lane[l].s)' = JobOf(lane[l].s)
      BY <2>6, <3>1 DEF JobOf, Newest
    <3>3. QED
      BY <2>8, <3>1, <3>2 DEF LaneFits
  <2>10. cursor' \in Nat /\ tcursor' \in Nat /\ begun' \subseteq Experts
    BY <2>2, <2>3, <2>5, LaneFacts DEF TypeOK
  <2>11. lane[l].pc # "gone"
    BY <2>2
  <2>12. QED
    BY <2>1, <2>3, <2>5, <2>7, <2>9, <2>10, <2>11, LaneQuiet
<1>3. QED
  BY <1>1, <1>2

LEMMA ReadErrorKeeps ==
  ASSUME ReaderInv, NEW l \in Lanes, ReadError(l) PROVE ReaderInv'
  BY MissedKeeps DEF ReadError

LEMMA ReadBytesKeeps ==
  ASSUME ReaderInv, NEW l \in Lanes, ReadBytes(l) PROVE ReaderInv'
<1> DEFINE r == [lane[l] EXCEPT !.pc = "done"]
<1>1. r \in LaneType
  BY LaneFacts DEF LanePc, LaneType
<1>2. lane' = [lane EXCEPT ![l] = r] /\ lane \in [Lanes -> LaneType] /\ lane[l].pc = "read"
  BY LaneFacts DEF ReadBytes
<1>3. r.g = lane[l].g /\ r.pc = "done" /\ r.id = lane[l].id /\ r.s = lane[l].s
      /\ r.o = lane[l].o
  BY LaneFacts DEF LaneType
<1>4. UNCHANGED <<main, gen, set, off, topup, active, hint, stop>> /\ state' = state
      /\ cursor' = cursor /\ tcursor' = tcursor /\ begun' = begun
  BY DEF ReadBytes, shared
<1>5. mpc' = mpc /\ gen' = gen /\ set' = set /\ lane'[l] = r
  BY <1>2, <1>4 DEF main
<1>6. /\ lane[l].s \in Sets /\ lane[l].id \in Experts /\ lane[l].o \in Nat
      /\ lane[l].g \in Nat /\ lane[l].g <= gen /\ gen \in Nat /\ TypeOK /\ Published
      /\ ~Late(l) => <<lane[l].id, lane[l].g + 1>> \in strays
                       \/ (lane[l].o = lane[l].g /\ lane[l].g = JobOf(lane[l].s))
  BY <1>2, LaneFacts DEF LaneFits, LaneType
<1>7. slot' = [slot EXCEPT ![lane[l].s][lane[l].id] = lane[l].o]
      /\ slot \in [Sets -> [Experts -> Nat]]
  BY LaneFacts DEF ReadBytes
<1>8. slot' \in [Sets -> [Experts -> Nat]]
  BY <1>6, <1>7
<1>9. PICK N \in SUBSET (Experts \X {Newborn}) :
        strays' = strays \cup N /\ (Late(l) => <<lane[l].id, Newborn>> \in N)
  BY <1>6, NotesAre DEF ReadBytes
<1>10. \/ <<lane[l].id, Newborn>> \in strays'
       \/ lane[l].o = lane[l].g /\ lane[l].g = JobOf(lane[l].s)
  <2>1. CASE Late(l)
    BY <1>9, <2>1
  <2>2. CASE ~Late(l) /\ <<lane[l].id, lane[l].g + 1>> \in strays
    <3>1. lane[l].g + 1 <= Newborn
      BY <1>6, <2>2 DEF Published
    <3>2. ~(lane[l].g + 1 < Newborn)
      BY <1>2, <2>2 DEF Late, InWindow
    <3>3. Newborn \in Nat
      BY <1>6, SetAges
    <3>4. lane[l].g + 1 = Newborn
      BY <1>6, <3>1, <3>2, <3>3
    <3>5. QED
      BY <1>9, <2>2, <3>4
  <2>3. CASE ~Late(l) /\ <<lane[l].id, lane[l].g + 1>> \notin strays
    BY <1>6, <2>3
  <2>4. QED
    BY <2>1, <2>2, <2>3
<1>11. \A s \in Sets, i \in Experts :
         slot'[s][i] = slot[s][i] \/ slot'[s][i] = JobOf(s) \/ <<i, Newborn>> \in strays'
  BY <1>6, <1>7, <1>10
<1>12. slot'[lane[l].s][lane[l].id] = lane[l].o
  BY <1>6, <1>7
<1> HIDE DEF r
<1>13. LaneFits(l)'
  <2>1. lane'[l].pc = "done" /\ lane'[l].id = lane[l].id /\ lane'[l].g = lane[l].g
        /\ lane'[l].o = lane[l].o /\ lane'[l].s = lane[l].s
    BY <1>3, <1>5
  <2>2. JobOf(lane[l].s)' = JobOf(lane[l].s) /\ Newborn' = Newborn
    BY <1>5, <2>1 DEF JobOf, Newest, Newborn
  <2>3. Late(l)' = Late(l)
    BY <1>2, <2>1, <2>2 DEF Late, InWindow
  <2>4. ~Late(l) => <<lane[l].id, lane[l].g + 1>> \in strays'
                       \/ (lane[l].o = lane[l].g /\ lane[l].g = JobOf(lane[l].s))
    BY <1>6, <1>9
  <2>5. ~Late(l) => Strayed(lane[l].id, lane[l].g)' \/ slot'[lane[l].s][lane[l].id] = lane[l].g
    BY <1>12, <2>1, <2>4 DEF Strayed
  <2>6. QED
    BY <1>5, <1>6, <2>1, <2>2, <2>3, <2>4, <2>5 DEF LaneFits
<1>14. cursor' \in Nat /\ tcursor' \in Nat /\ state' \in [Sets -> [Experts -> States]]
       /\ begun' \subseteq Experts
  BY <1>4, LaneFacts DEF TypeOK
<1>15. lane[l].pc # "gone"
  BY <1>2
<1>16. QED
  BY <1>1, <1>2, <1>4, <1>8, <1>9, <1>11, <1>13, <1>14, <1>15, LaneFrame

LEMMA StoreKeeps ==
  ASSUME ReaderInv, NEW l \in Lanes, Store(l) PROVE ReaderInv'
<1> DEFINE p == lane[l].g % 2
           x == IF lane[l].pc = "done" THEN "landed" ELSE "failed"
<1>1. Idle \in LaneType /\ Idle.pc = "idle"
  BY LaneFacts, LaneSets DEF Idle, Gone
<1>2. /\ lane' = [lane EXCEPT ![l] = Idle] /\ lane \in [Lanes -> LaneType]
      /\ lane[l].pc \in {"done", "missed"} /\ lane[l] \in LaneType
  BY LaneFacts DEF Store
<1>3. UNCHANGED <<main, gen, set, off, topup, active, hint, stop>> /\ slot' = slot
      /\ cursor' = cursor /\ tcursor' = tcursor /\ begun' = begun
  BY DEF Store, shared
<1>4. gen' = gen /\ set' = set /\ lane'[l] = Idle
  BY <1>2, <1>3
<1>5. /\ state' = [state EXCEPT ![p][lane[l].id] = x]
      /\ state \in [Sets -> [Experts -> States]] /\ p \in Sets /\ lane[l].id \in Experts
      /\ gen \in Nat /\ lane[l].g \in Nat /\ lane[l].g <= gen /\ TypeOK /\ Published
      /\ LaneFits(l) /\ lane[l].s \in Sets
  BY <1>2, LaneFacts DEF Store, LaneFits, LaneType
<1>6. x \in States
  BY DEF States
<1> HIDE DEF x
<1>7. state' \in [Sets -> [Experts -> States]]
  BY <1>5, <1>6
<1>8. PICK N \in SUBSET (Experts \X {Newborn}) :
        strays' = strays \cup N /\ (Late(l) => <<lane[l].id, Newborn>> \in N)
  BY <1>5, NotesAre DEF Store
<1>9. ASSUME mpc \in Installing, NEW i \in Experts, state'[(gen + 1) % 2][i] = "landed"
      PROVE  state[(gen + 1) % 2][i] = "landed" \/ <<i, Newborn>> \in N
  <2>1. CASE Late(l) /\ i = lane[l].id
    BY <1>8, <2>1
  <2>2. CASE i # lane[l].id
    <3>1. (gen + 1) % 2 \in Sets
      BY LaneFacts
    <3>2. QED
      BY <1>5, <1>9, <2>2, <3>1
  <2>3. CASE ~Late(l)
    <3>1. lane[l].g = gen
      <4>1. ~(lane[l].g + 1 < Newborn) /\ Newborn = gen + 1
        BY <1>2, <1>9, <2>3 DEF Late, InWindow, Newborn
      <4>2. gen \in Nat /\ lane[l].g \in Nat /\ lane[l].g <= gen
        BY <1>5
      <4>3. QED
        BY <4>1, <4>2
    <3>2. (gen + 1) % 2 \in Sets /\ (gen + 1) % 2 # p
      BY <1>5, <3>1, Parity
    <3>3. QED
      BY <1>5, <1>9, <3>2
  <2>4. QED
    BY <2>1, <2>2, <2>3
<1>10. ASSUME mpc \in {"router", "finish"}, NEW i \in Experts, state'[gen % 2][i] = "landed"
       PROVE  state[gen % 2][i] = "landed" \/ Arrived(i) \/ <<i, Newborn>> \in N
  <2>1. CASE gen % 2 # p \/ i # lane[l].id \/ lane[l].pc # "done"
    <3>1. gen % 2 \in Sets /\ (lane[l].pc # "done" => x # "landed")
      BY LaneFacts DEF x
    <3>2. QED
      BY <1>5, <1>10, <2>1, <3>1
  <2>2. CASE gen % 2 = p /\ i = lane[l].id /\ lane[l].pc = "done"
    <3>1. CASE Late(l)
      BY <1>8, <2>2, <3>1
    <3>2. CASE ~Late(l)
      <4>1. lane[l].g = gen \/ lane[l].g + 1 = gen
        <5>1. ~(lane[l].g + 1 < Newborn) /\ Newborn = gen
          BY <1>2, <1>10, <3>2 DEF Late, InWindow, Newborn, Installing
        <5>2. gen \in Nat /\ lane[l].g \in Nat /\ lane[l].g <= gen
          BY <1>5
        <5>3. QED
          BY <5>1, <5>2
      <4>2. lane[l].g = gen
        <5>1. lane[l].g + 1 = gen => gen % 2 # lane[l].g % 2
          BY <1>5, Parity
        <5>2. QED
          BY <2>2, <4>1, <5>1
      <4>3. /\ <<i, gen + 1>> \in strays \/ gen = JobOf(lane[l].s)
            /\ Strayed(i, gen) \/ slot[lane[l].s][i] = gen
        BY <1>5, <2>2, <3>2, <4>2 DEF LaneFits
      <4>4. <<i, gen + 1>> \in strays => Strayed(i, gen)
        BY DEF Strayed
      <4>5. gen = JobOf(lane[l].s) => lane[l].s = set
        BY <1>5, <1>10 DEF JobOf, Newest
      <4>6. QED
        BY <4>3, <4>4, <4>5 DEF Arrived
    <3>3. QED
      BY <3>1, <3>2
  <2>3. QED
    BY <2>1, <2>2
<1>11. LaneFits(l)'
  BY <1>1, <1>4, LaneLight
<1>12. \A s \in Sets, i \in Experts :
         slot'[s][i] = slot[s][i] \/ slot'[s][i] = JobOf(s) \/ <<i, Newborn>> \in strays'
  BY <1>3
<1>13. cursor' \in Nat /\ tcursor' \in Nat /\ slot' \in [Sets -> [Experts -> Nat]]
       /\ begun' \subseteq Experts /\ lane[l].pc # "gone"
  BY <1>2, <1>3, LaneFacts DEF TypeOK
<1>14. QED
  BY <1>1, <1>2, <1>3, <1>7, <1>8, <1>9, <1>10, <1>11, <1>12, <1>13, LaneFrame

LEMMA ClaimKeeps ==
  ASSUME ReaderInv, NEW l \in Lanes, NEW c \in Experts, NEW else \in {"topup", "ranked"},
         InWindow(l), Claim(l, c, else),
         UNCHANGED <<main, gen, set, off, topup, active, hint, stop, history>>,
         slot' = slot, cursor' \in Nat, tcursor' \in Nat
  PROVE  ReaderInv'
<1>1. /\ lane \in [Lanes -> LaneType] /\ lane[l] \in LaneType /\ TypeOK
      /\ state \in [Sets -> [Experts -> States]] /\ lane[l].g % 2 \in Sets
      /\ slot' \in [Sets -> [Experts -> Nat]] /\ gen % 2 \in Sets /\ (gen + 1) % 2 \in Sets
  BY LaneFacts
<1>2. lane[l].g <= gen /\ lane[l].pc # "gone"
  BY LaneFacts DEF LaneFits, InWindow
<1>3. else \in LanePc
  BY DEF LanePc
<1>4. gen' = gen /\ set' = set
  OBVIOUS
<1>5. begun' \subseteq Experts /\ strays' = strays \cup {}
      /\ {} \in SUBSET (Experts \X {Newborn})
  BY <1>1 DEF TypeOK, history
<1>6. CASE /\ Step(l, [lane[l] EXCEPT !.pc = "copy", !.id = c, !.k = 0])
           /\ state' = [state EXCEPT ![lane[l].g % 2][c] = "claimed"]
  <2> DEFINE r == [lane[l] EXCEPT !.pc = "copy", !.id = c, !.k = 0]
  <2>1. lane' = [lane EXCEPT ![l] = r] /\ r \in LaneType
    BY <1>6 DEF Step
  <2>2. r.pc = "copy" /\ r.g <= gen /\ r.id = c
    BY <1>1, <1>2 DEF LaneType
  <2> HIDE DEF r
  <2>3. lane'[l] = r
    BY <1>1, <2>1
  <2>4. LaneFits(l)'
    BY <1>4, <2>2, <2>3, LaneLight
  <2>5. state' \in [Sets -> [Experts -> States]]
    BY <1>1, <1>6 DEF States
  <2>6. \A s \in Sets, i \in Experts : state'[s][i] = "landed" => state[s][i] = "landed"
    BY <1>1, <1>6
  <2>7. UNCHANGED <<main, gen, set, off, topup, active, hint, stop>>
    OBVIOUS
  <2>8. QED
    BY <1>1, <1>2, <1>5, <2>1, <2>4, <2>5, <2>6, <2>7, LaneFrame
<1>7. CASE Step(l, [lane[l] EXCEPT !.pc = else, !.k = 0]) /\ UNCHANGED state
  <2> DEFINE r == [lane[l] EXCEPT !.pc = else, !.k = 0]
  <2>1. lane' = [lane EXCEPT ![l] = r] /\ r \in LaneType
    BY <1>7 DEF Step
  <2>2. r.pc \in {"topup", "ranked"} /\ r.g <= gen
    BY <1>1, <1>2 DEF LaneType
  <2> HIDE DEF r
  <2>3. lane'[l] = r
    BY <1>1, <2>1
  <2>4. LaneFits(l)'
    BY <1>4, <2>2, <2>3, LaneLight
  <2>5. UNCHANGED <<main, gen, set, off, topup, active, hint, stop, state, slot, history>>
    BY <1>7
  <2>6. QED
    BY <1>2, <2>1, <2>4, <2>5, LaneStill
<1>8. QED
  BY <1>1, <1>3, <1>6, <1>7, ClaimDoes

LEMMA PickKeeps ==
  ASSUME ReaderInv, NEW l \in Lanes, Pick(l) PROVE ReaderInv'
<1>1. PICK c \in IF lane[l].k < Len(topup) THEN {topup[lane[l].k + 1]} ELSE Experts :
        Claim(l, c, "topup")
  BY DEF Pick
<1>2. lane[l].k \in Nat /\ topup \in Seq(Experts)
  BY LaneFacts DEF LaneType
<1>3. c \in Experts
  <2>1. CASE lane[l].k < Len(topup)
    <3>1. lane[l].k + 1 \in 1..Len(topup)
      BY <1>2, <2>1
    <3>2. QED
      BY <1>1, <1>2, <2>1, <3>1
  <2>2. CASE ~(lane[l].k < Len(topup))
    BY <1>1, <2>2
  <2>3. QED
    BY <2>1, <2>2
<1>4. InWindow(l) /\ "topup" \in {"topup", "ranked"}
  BY DEF Pick, InWindow
<1>5. UNCHANGED <<main, gen, set, off, topup, active, hint, stop, history>> /\ slot' = slot
      /\ cursor' = cursor /\ tcursor' = tcursor
  BY DEF Pick, shared
<1>6. cursor' \in Nat /\ tcursor' \in Nat
  BY <1>5, LaneFacts
<1>7. QED
  BY <1>1, <1>3, <1>4, <1>5, <1>6, ClaimKeeps

LEMMA GuessKeeps ==
  ASSUME ReaderInv, NEW l \in Lanes, Guess(l) PROVE ReaderInv'
<1>1. /\ lane \in [Lanes -> LaneType] /\ lane[l].pc = "ranked" /\ InWindow(l)
      /\ cursor \in Nat /\ tcursor \in Nat
  BY LaneFacts DEF Guess, InWindow
<1>2. UNCHANGED <<main, gen, set, off, topup, active, hint, stop, history>> /\ slot' = slot
      /\ tcursor' = tcursor
  BY DEF Guess
<1>3. CASE cursor < Len(Ranked)
  <2>1. cursor' = cursor + 1 /\ Claim(l, Ranked[cursor + 1], "ranked")
    BY <1>3 DEF Guess
  <2>2. Ranked[cursor + 1] \in Experts
    BY <1>1, <1>3, ReaderAssumption
  <2>3. QED
    BY <1>1, <1>2, <2>1, <2>2, ClaimKeeps
<1>4. CASE ~(cursor < Len(Ranked))
  <2>1. cursor' = cursor /\ lane' = [lane EXCEPT ![l] = Idle] /\ state' = state
    BY <1>4 DEF Guess
  <2>2. Idle \in LaneType /\ Idle.pc = "idle"
    BY LaneFacts, LaneSets DEF Idle, Gone
  <2>3. gen' = gen /\ set' = set /\ lane'[l] = Idle
    BY <1>1, <1>2, <2>1
  <2>4. LaneFits(l)'
    BY <2>2, <2>3, LaneLight
  <2>5. UNCHANGED <<main, gen, set, off, topup, active, hint, stop, state, slot, history>>
    BY <1>2, <2>1
  <2>6. QED
    BY <1>1, <1>2, <2>1, <2>2, <2>4, <2>5, LaneStill
<1>5. QED
  BY <1>3, <1>4

LEMMA LaneKeeps ==
  ASSUME ReaderInv, NEW l \in Lanes, Lane(l) PROVE ReaderInv'
  BY LoadKeeps, LookKeeps, TopUpKeeps, PickKeeps, GuessKeeps, CopyKeeps, CheckKeeps,
     ReadBytesKeeps, ReadErrorKeeps, StoreKeeps DEF Lane
-----------------------------------------------------------------------------
(* The main thread between two installations. *)

LEMMA MainFrame ==
  ASSUME ReaderInv,
         UNCHANGED <<gen, set, off, cursor, state, lane, slot, history>>,
         mpc \in {"router", "finish", "next"},
         mpc' \in {"router", "finish", "next", "stop"},
         mpc' \in {"router", "finish"} => mpc \in {"router", "finish"},
         pub' \in Sets, used' \subseteq Experts \X Nat, wanted' \subseteq Experts,
         need' \in Seq(Experts), parts' \in Nat, at' \in Nat, staged' \in BOOLEAN,
         topup' \in Seq(Experts), tcursor' \in Nat,
         active' \in BOOLEAN, hint' \in BOOLEAN, stop' \in BOOLEAN,
         mpc' \in {"finish", "next"} => set = pub',
         mpc' = "router" => set # pub',
         \A u \in used' : /\ u[2] = (IF pub' = set THEN gen ELSE gen - 1)
                          /\ slot[pub'][u[1]] = u[2] \/ Strayed(u[1], u[2]),
         mpc' = "finish" =>
           /\ \A j \in DOMAIN need' : j <= at' => Arrived(need'[j])
           /\ \A i \in wanted' :
                Arrived(i) \/ \E j \in DOMAIN need' : at' < j /\ need'[j] = i
  PROVE  ReaderInv'
<1>1. TypeOK /\ Published /\ (\A m \in Lanes : LaneFits(m)) /\ Landed
  BY DEF ReaderInv
<1>2. gen' = gen /\ set' = set /\ off' = off /\ cursor' = cursor /\ state' = state
      /\ lane' = lane /\ slot' = slot /\ begun' = begun /\ strays' = strays
  BY DEF history
<1>3. mpc \notin Installing /\ mpc' \notin Installing
      /\ mpc # "publish" /\ mpc' # "publish" /\ mpc' # "idle" /\ mpc' # "set"
  BY DEF Installing
<1>4. TypeOK'
  BY <1>1, <1>2 DEF TypeOK
<1>5. Newest' = gen /\ Newest = gen /\ Newborn' = gen /\ Newborn = gen
  BY <1>2, <1>3 DEF Newest, Newborn
<1>6. \A i, k : Strayed(i, k)' = Strayed(i, k)
  BY <1>2 DEF Strayed
<1>7. JobOf(pub)' = IF pub' = set THEN gen ELSE gen - 1
  BY <1>2, <1>5 DEF JobOf
<1>8. Published'
  <2>1. off' = gen
    BY <1>1, <1>2, <1>3 DEF Published
  <2>2. \A u \in used' : u[2] = JobOf(pub)'
    BY <1>7
  <2>3. \A x \in strays' : x[2] <= Newborn'
    BY <1>1, <1>2, <1>5 DEF Published
  <2>4. QED
    BY <1>2, <1>3, <2>1, <2>2, <2>3 DEF Published
<1>9. ASSUME NEW m \in Lanes PROVE LaneFits(m)'
  <2>1. LaneFits(m) /\ Late(m)' = Late(m) /\ lane'[m] = lane[m]
    BY <1>1, <1>2, <1>5 DEF InWindow, Late
  <2>2. JobOf(lane[m].s)' = JobOf(lane[m].s)
    BY <1>2, <1>5 DEF JobOf
  <2>3. QED
    BY <1>2, <2>1, <2>2 DEF LaneFits, Strayed
<1>10. Landed'
  <2>1. mpc' \in {"router", "finish"} =>
          \A i \in Experts : Array'[i] = "landed" => Arrived(i)'
    BY <1>1, <1>2 DEF Landed, Array, Arrived, Strayed
  <2>2. mpc' = "finish" =>
          /\ \A j \in DOMAIN need' : j <= at' => Arrived(need[j])'
          /\ \A i \in wanted' : Arrived(i)' \/ \E j \in DOMAIN need' : at' < j /\ need'[j] = i
    BY <1>2 DEF Arrived, Strayed
  <2>3. QED
    BY <2>1, <2>2 DEF Landed
<1>11. KernelsReadTheirLayer'
  BY <1>2 DEF KernelsReadTheirLayer, Strayed
<1>12. QED
  BY <1>4, <1>8, <1>9, <1>10, <1>11 DEF ReaderInv

\* What is known of the main thread between two installations.
LEMMA MainFacts ==
  ASSUME ReaderInv, mpc \in {"router", "finish", "next"}
  PROVE  /\ TypeOK /\ Published /\ Landed
         /\ \A u \in used : /\ u[2] = (IF pub = set THEN gen ELSE gen - 1)
                            /\ slot[pub][u[1]] = u[2] \/ Strayed(u[1], u[2])
         /\ \A i \in Experts : Array[i] \in States
<1>1. TypeOK /\ Published /\ Landed /\ KernelsReadTheirLayer
  BY DEF ReaderInv
<1>2. \A u \in used : u[2] = JobOf(pub) /\ (slot[pub][u[1]] = u[2] \/ Strayed(u[1], u[2]))
  BY <1>1 DEF Published, KernelsReadTheirLayer
<1>3. JobOf(pub) = IF pub = set THEN gen ELSE gen - 1
  BY DEF JobOf, Newest
<1>4. gen % 2 \in Sets
  BY <1>1, Parity DEF TypeOK
<1>5. \A i \in Experts : Array[i] \in States
  BY <1>1, <1>4 DEF Array, TypeOK
<1>6. QED
  BY <1>1, <1>2, <1>3, <1>5

\* The sweep ends early: what the kernels read is left as it is.
LEMMA EndKeeps ==
  ASSUME ReaderInv, mpc \in {"router", "finish", "next"}, EndSweep,
         UNCHANGED <<pub, used, wanted, parts, gen, set, off, cursor, state, lane, slot, history>>,
         need' \in Seq(Experts), topup' \in Seq(Experts), at' \in Nat, tcursor' \in Nat,
         active' \in BOOLEAN, hint' \in BOOLEAN, staged' \in BOOLEAN
  PROVE  ReaderInv'
<1>1. /\ TypeOK
      /\ \A u \in used : /\ u[2] = (IF pub = set THEN gen ELSE gen - 1)
                         /\ slot[pub][u[1]] = u[2] \/ Strayed(u[1], u[2])
  BY MainFacts
<1>2. mpc' = "stop" /\ stop' = TRUE
  BY DEF EndSweep
<1>3. pub' = pub /\ used' = used /\ wanted' = wanted /\ parts' = parts
  OBVIOUS
<1>4. UNCHANGED <<gen, set, off, cursor, state, lane, slot, history>>
  OBVIOUS
<1>5. pub' \in Sets /\ used' \subseteq Experts \X Nat /\ wanted' \subseteq Experts /\ parts' \in Nat
  BY <1>1, <1>3 DEF TypeOK
<1>6. \A u \in used' : /\ u[2] = (IF pub' = set THEN gen ELSE gen - 1)
                       /\ slot[pub'][u[1]] = u[2] \/ Strayed(u[1], u[2])
  BY <1>1, <1>3
<1>7. stop' \in BOOLEAN
  BY <1>2
<1>8. QED
  BY <1>2, <1>4, <1>5, <1>6, <1>7, MainFrame

LEMMA EndsKeep ==
  ASSUME ReaderInv, BeginFails \/ AwaitFails \/ WaveError \/ BeginRefused \/ Leave
  PROVE  ReaderInv'
<1>1. mpc \in {"router", "finish", "next"} /\ EndSweep
  BY DEF BeginFails, AwaitFails, WaveError, BeginRefused, Leave
<1>2. UNCHANGED <<pub, used, wanted, parts, gen, set, off, cursor, state, lane, slot, history>>
  BY DEF BeginFails, AwaitFails, WaveError, BeginRefused, Leave, shared
<1>3. TypeOK
  BY DEF ReaderInv
<1>4. /\ need' \in Seq(Experts) /\ topup' \in Seq(Experts) /\ at' \in Nat /\ tcursor' \in Nat
      /\ active' \in BOOLEAN /\ hint' \in BOOLEAN /\ staged' \in BOOLEAN
  <2>1. CASE BeginFails
    <3>1. PICK ids \in SUBSET Experts \ {{}} :
            need' = SetToSeq(ids \ Hits(ids)) /\ topup' = need' /\ at' = 0
      BY <2>1 DEF BeginFails
    <3>2. ids \ Hits(ids) \in SUBSET Experts
      OBVIOUS
    <3>3. SetToSeq(ids \ Hits(ids)) \in Seq(Experts)
      BY <3>2, ListOf
    <3>4. tcursor' = 0 /\ hint' = FALSE /\ active' = TRUE /\ staged' = staged
      BY <2>1 DEF BeginFails
    <3>5. QED
      BY <1>3, <3>1, <3>3, <3>4 DEF TypeOK
  <2>2. CASE AwaitFails
    <3>1. /\ active' = FALSE /\ staged' = FALSE /\ need' = need /\ at' = at /\ topup' = topup
          /\ tcursor' = tcursor /\ hint' = hint
      BY <2>2 DEF AwaitFails
    <3>2. QED
      BY <1>3, <3>1 DEF TypeOK
  <2>3. CASE WaveError \/ BeginRefused \/ Leave
    <3>1. UNCHANGED <<need, at, staged, shared>>
      BY <2>3 DEF WaveError, BeginRefused, Leave
    <3>2. QED
      BY <1>3, <3>1 DEF TypeOK, shared
  <2>4. QED
    BY <2>1, <2>2, <2>3
<1>5. QED
  BY <1>1, <1>2, <1>4, EndKeeps

LEMMA HintKeeps == ASSUME ReaderInv, Hint PROVE ReaderInv'
<1>1. mpc = "router" /\ mpc' = mpc
  BY DEF Hint
<1>2. /\ TypeOK /\ Published
      /\ \A u \in used : /\ u[2] = (IF pub = set THEN gen ELSE gen - 1)
                         /\ slot[pub][u[1]] = u[2] \/ Strayed(u[1], u[2])
  BY <1>1, MainFacts
<1>3. UNCHANGED <<gen, set, off, cursor, state, lane, slot, history>>
      /\ UNCHANGED <<pub, used, need, parts, at, staged, stop>>
  BY DEF Hint
<1>4. PICK ids \in SUBSET Experts \ {{}} :
        LET ask == {i \in ids : Array[i] = "untouched"} IN
        /\ \E all \in SUBSET Experts : ids \subseteq all /\ <<gen, all>> \in Chosen
        /\ wanted' = ids
        /\ IF ask = {} THEN UNCHANGED <<topup, tcursor, hint, active>>
           ELSE /\ topup' = SetToSeq(ask) /\ tcursor' = 0
                /\ hint' = TRUE /\ active' = TRUE
  BY DEF Hint
<1> DEFINE ask == {i \in ids : Array[i] = "untouched"}
<1>5. ask \in SUBSET Experts
  OBVIOUS
<1>6. SetToSeq(ask) \in Seq(Experts)
  BY <1>5, ListOf
<1>7. \/ UNCHANGED <<topup, tcursor, hint, active>>
      \/ topup' = SetToSeq(ask) /\ tcursor' = 0 /\ hint' = TRUE /\ active' = TRUE
  BY <1>4
<1> HIDE DEF ask
<1>8. topup' \in Seq(Experts) /\ tcursor' \in Nat /\ active' \in BOOLEAN /\ hint' \in BOOLEAN
  <2>1. CASE UNCHANGED <<topup, tcursor, hint, active>>
    BY <1>2, <2>1 DEF TypeOK
  <2>2. CASE topup' = SetToSeq(ask) /\ tcursor' = 0 /\ hint' = TRUE /\ active' = TRUE
    BY <1>6, <2>2
  <2>3. QED
    BY <1>7, <2>1, <2>2
<1>9. /\ pub' \in Sets /\ used' \subseteq Experts \X Nat /\ wanted' \subseteq Experts
      /\ need' \in Seq(Experts) /\ parts' \in Nat /\ at' \in Nat /\ staged' \in BOOLEAN
      /\ stop' \in BOOLEAN
  BY <1>2, <1>3, <1>4 DEF TypeOK
<1>10. set # pub'
  BY <1>1, <1>2, <1>3 DEF Published
<1>11. \A u \in used' : /\ u[2] = (IF pub' = set THEN gen ELSE gen - 1)
                        /\ slot[pub'][u[1]] = u[2] \/ Strayed(u[1], u[2])
  BY <1>2, <1>3
<1>12. QED
  BY <1>1, <1>3, <1>8, <1>9, <1>10, <1>11, MainFrame

LEMMA BeginKeeps == ASSUME ReaderInv, Begin PROVE ReaderInv'
<1>1. mpc = "router" /\ mpc' = "finish"
  BY DEF Begin
<1>2. TypeOK /\ Published /\ Landed
  BY <1>1, MainFacts
<1>3. /\ UNCHANGED <<gen, set, off, cursor, state, lane, slot, history>>
      /\ stop' = stop /\ hint' = FALSE /\ active' = TRUE /\ pub' = 1 - pub /\ staged' = TRUE
      /\ at' = 0
  BY DEF Begin
<1>4. PICK ids \in SUBSET Experts \ {{}} :
        LET hits == Hits(ids)
            rest == SetToSeq(ids \ hits)
            split == Waves > 0 /\ hits # {} /\ rest # <<>>
        IN
        /\ wanted \subseteq ids /\ <<gen, ids>> \in Chosen
        /\ wanted' = ids /\ need' = rest /\ topup' = rest /\ tcursor' = 0
        /\ parts' = IF ~split THEN 1 ELSE IF Waves < Len(rest) THEN Waves ELSE Len(rest)
        /\ used' = IF split THEN {<<i, gen>> : i \in hits} ELSE {}
  BY DEF Begin
<1> DEFINE hits == Hits(ids)
           rest == SetToSeq(ids \ hits)
<1>5. /\ wanted' = ids /\ need' = rest /\ topup' = rest /\ tcursor' = 0
      /\ parts' \in {1, Waves, Len(rest)}
      /\ used' \subseteq {<<i, gen>> : i \in hits}
  BY <1>4
<1>6. hits \subseteq Experts /\ ids \ hits \in SUBSET Experts /\ ids \subseteq Experts
  BY DEF Hits
<1>7. \A i \in hits : Arrived(i)
  BY <1>1, <1>2 DEF Hits, Landed
<1> HIDE DEF hits
<1>8. /\ rest \in Seq(Experts)
      /\ \A i \in ids \ hits : \E j \in DOMAIN rest : rest[j] = i
  BY <1>6, ListOf
<1> HIDE DEF rest
<1>9. set # pub /\ set \in Sets /\ pub \in Sets /\ gen \in Nat
  BY <1>1, <1>2 DEF Published, TypeOK
<1>10. pub' = set
  BY <1>3, <1>9 DEF Sets
<1>11. parts' \in Nat
  <2>1. Len(rest) \in Nat /\ Waves \in Nat
    BY <1>8, ReaderAssumption
  <2>2. QED
    BY <1>5, <2>1
<1>12. used' \subseteq Experts \X Nat
  BY <1>5, <1>6, <1>9
<1>13. \A u \in used' : u[2] = gen /\ Arrived(u[1])
  BY <1>5, <1>7
<1>14. \A u \in used' : /\ u[2] = (IF pub' = set THEN gen ELSE gen - 1)
                        /\ slot[pub'][u[1]] = u[2] \/ Strayed(u[1], u[2])
  BY <1>10, <1>13 DEF Arrived
<1>15. /\ \A j \in DOMAIN need' : j <= at' => Arrived(need'[j])
       /\ \A i \in wanted' :
            Arrived(i) \/ \E j \in DOMAIN need' : at' < j /\ need'[j] = i
  <2>1. \A j \in DOMAIN need' : j \in Nat /\ j > 0
    BY <1>5, <1>8
  <2>2. \A i \in wanted' : i \in hits \/ \E j \in DOMAIN need' : need'[j] = i
    BY <1>5, <1>8
  <2>3. QED
    BY <1>3, <1>7, <2>1, <2>2
<1>16. /\ need' \in Seq(Experts) /\ topup' \in Seq(Experts) /\ wanted' \subseteq Experts
       /\ at' \in Nat /\ tcursor' \in Nat /\ staged' \in BOOLEAN /\ active' \in BOOLEAN
       /\ hint' \in BOOLEAN /\ stop' \in BOOLEAN
  BY <1>2, <1>3, <1>5, <1>6, <1>8 DEF TypeOK
<1>17. QED
  BY <1>1, <1>3, <1>9, <1>10, <1>11, <1>12, <1>14, <1>15, <1>16, MainFrame

LEMMA AwaitKeeps == ASSUME ReaderInv, Await PROVE ReaderInv'
<1>1. mpc = "finish" /\ mpc' = mpc
  BY DEF Await
<1>2. /\ TypeOK /\ Published /\ Landed /\ set = pub
      /\ \A u \in used : /\ u[2] = (IF pub = set THEN gen ELSE gen - 1)
                         /\ slot[pub][u[1]] = u[2] \/ Strayed(u[1], u[2])
  BY <1>1, MainFacts DEF Published
<1>3. /\ UNCHANGED <<gen, set, off, cursor, state, lane, slot, history>>
      /\ UNCHANGED <<pub, wanted, need, parts, staged, topup, tcursor, active, hint, stop>>
      /\ at' = at + 1 /\ at < Len(need) /\ Array[need[at + 1]] = "landed"
  BY DEF Await, shared
<1>4. \/ used' = used
      \/ used' = used \cup {<<need[j], gen>> : j \in 1..at'}
  BY DEF Await
<1>5. at \in Nat /\ need \in Seq(Experts) /\ gen \in Nat /\ used \subseteq Experts \X Nat
      /\ wanted \subseteq Experts
  BY <1>2 DEF TypeOK
<1>6. at + 1 \in DOMAIN need /\ need[at + 1] \in Experts /\ DOMAIN need = 1..Len(need)
  BY <1>3, <1>5
<1>7. Arrived(need[at + 1])
  BY <1>1, <1>2, <1>3, <1>6 DEF Landed
<1>8. \A j \in DOMAIN need : j <= at + 1 => Arrived(need[j])
  <2>1. \A j \in DOMAIN need : j <= at + 1 => j <= at \/ j = at + 1
    BY <1>5, <1>6
  <2>2. QED
    BY <1>1, <1>2, <1>7, <2>1 DEF Landed
<1>9. \A i \in wanted : Arrived(i) \/ \E j \in DOMAIN need : at + 1 < j /\ need[j] = i
  <2>1. \A j \in DOMAIN need : at < j => at + 1 < j \/ j = at + 1
    BY <1>5, <1>6
  <2>2. QED
    BY <1>1, <1>2, <1>7, <2>1 DEF Landed
<1>10. \A j \in 1..(at + 1) :
         j \in DOMAIN need /\ j <= at + 1 /\ need[j] \in Experts /\ Arrived(need[j])
  BY <1>3, <1>5, <1>6, <1>8
<1>11. used' \subseteq Experts \X Nat
  BY <1>3, <1>4, <1>5, <1>10
<1>12. \A u \in used' : u[2] = gen /\ Arrived(u[1])
  BY <1>2, <1>3, <1>4, <1>10 DEF Arrived
<1>13. \A u \in used' : /\ u[2] = (IF pub' = set THEN gen ELSE gen - 1)
                        /\ slot[pub'][u[1]] = u[2] \/ Strayed(u[1], u[2])
  BY <1>2, <1>3, <1>12 DEF Arrived
<1>14. /\ \A j \in DOMAIN need' : j <= at' => Arrived(need'[j])
       /\ \A i \in wanted' :
            Arrived(i) \/ \E j \in DOMAIN need' : at' < j /\ need'[j] = i
  BY <1>3, <1>8, <1>9 DEF Arrived
<1>15. /\ pub' \in Sets /\ wanted' \subseteq Experts
       /\ need' \in Seq(Experts) /\ parts' \in Nat /\ staged' \in BOOLEAN
       /\ topup' \in Seq(Experts) /\ tcursor' \in Nat /\ active' \in BOOLEAN
       /\ hint' \in BOOLEAN /\ stop' \in BOOLEAN
  BY <1>2, <1>3 DEF TypeOK
<1>16. at' \in Nat /\ set = pub'
  BY <1>2, <1>3, <1>5
<1>17. QED
  BY <1>1, <1>3, <1>11, <1>13, <1>14, <1>15, <1>16, MainFrame

LEMMA FinishKeeps == ASSUME ReaderInv, Finish PROVE ReaderInv'
<1>1. mpc = "finish" /\ mpc' = "next"
  BY DEF Finish
<1>2. TypeOK /\ Published /\ Landed /\ set = pub
  BY <1>1, MainFacts DEF Published
<1>3. /\ UNCHANGED <<gen, set, off, cursor, state, lane, slot, history>>
      /\ UNCHANGED <<pub, wanted, need, parts, at, topup, tcursor, hint, stop>>
      /\ at = Len(need) /\ active' = FALSE /\ staged' = FALSE
      /\ used' = {<<i, gen>> : i \in wanted}
  BY DEF Finish
<1>4. \A i \in wanted : Arrived(i)
  <2>1. \A j \in DOMAIN need : ~(at < j)
    BY <1>2, <1>3 DEF TypeOK
  <2>2. QED
    BY <1>1, <1>2, <2>1 DEF Landed
<1>5. used' \subseteq Experts \X Nat
  BY <1>2, <1>3 DEF TypeOK
<1>6. \A u \in used' : u[2] = gen /\ Arrived(u[1])
  BY <1>3, <1>4
<1>7. \A u \in used' : /\ u[2] = (IF pub' = set THEN gen ELSE gen - 1)
                       /\ slot[pub'][u[1]] = u[2] \/ Strayed(u[1], u[2])
  BY <1>2, <1>3, <1>6 DEF Arrived
<1>8. /\ pub' \in Sets /\ wanted' \subseteq Experts /\ at' \in Nat
      /\ need' \in Seq(Experts) /\ parts' \in Nat /\ staged' \in BOOLEAN
      /\ topup' \in Seq(Experts) /\ tcursor' \in Nat /\ active' \in BOOLEAN
      /\ hint' \in BOOLEAN /\ stop' \in BOOLEAN
  BY <1>2, <1>3 DEF TypeOK
<1>9. set = pub'
  BY <1>2, <1>3
<1>10. QED
  BY <1>1, <1>3, <1>5, <1>7, <1>8, <1>9, MainFrame
-----------------------------------------------------------------------------
(* A job is installed; a sweep is released. *)

LEMMA InstallKeeps == ASSUME ReaderInv, Install PROVE ReaderInv'
<1>1. TypeOK /\ Published /\ (\A m \in Lanes : LaneFits(m)) /\ KernelsReadTheirLayer
  BY DEF ReaderInv
<1>2. /\ mpc \in {"idle", "next"} /\ mpc' = "set"
      /\ state' = [state EXCEPT ![(gen + 1) % 2] = [i \in Experts |-> "untouched"]]
      /\ active' = FALSE /\ hint' = FALSE
      /\ UNCHANGED <<pub, used, wanted, need, parts, at, staged, gen, set, off,
                     cursor, topup, tcursor, stop, lane, slot>>
      /\ begun' = begun /\ strays' = strays
  BY DEF Install, history
<1>3. gen \in Nat /\ (gen + 1) % 2 \in Sets /\ state \in [Sets -> [Experts -> States]]
      /\ lane \in [Lanes -> LaneType]
  BY <1>1, Parity DEF TypeOK, LaneType
<1>4. /\ state' \in [Sets -> [Experts -> States]]
      /\ \A i \in Experts : state'[(gen + 1) % 2][i] = "untouched"
  BY <1>2, <1>3 DEF States
<1>5. TypeOK'
  BY <1>1, <1>2, <1>4 DEF TypeOK
<1>6. Newest = gen /\ Newest' = gen /\ JobOf(pub)' = JobOf(pub)
      /\ Newborn = gen /\ Newborn' = gen + 1
  BY <1>2 DEF Newest, JobOf, Newborn, Installing
<1>7. Published'
  <2>1. set' = pub' \/ (AllGone' /\ used' = {})
    BY <1>1, <1>2 DEF Published, AllGone
  <2>2. off' = gen'
    BY <1>1, <1>2 DEF Published
  <2>3. \A u \in used' : u[2] = JobOf(pub)'
    BY <1>1, <1>2, <1>6 DEF Published
  <2>4. \A x \in strays' : x[2] <= Newborn'
    <3>1. \A x \in strays : x[2] \in Nat /\ x[2] <= gen
      BY <1>1, <1>6 DEF Published, TypeOK
    <3>2. QED
      BY <1>2, <1>3, <1>6, <3>1
  <2>5. QED
    BY <1>2, <1>4, <2>1, <2>2, <2>3, <2>4 DEF Published
<1>8. ASSUME NEW m \in Lanes PROVE LaneFits(m)'
  <2>1. lane'[m] = lane[m] /\ LaneFits(m) /\ InWindow(m)' = InWindow(m)
    BY <1>1, <1>2 DEF InWindow
  <2>2. lane[m].g \in Nat
    BY <1>3 DEF LaneType
  <2>3. CASE lane[m].pc \in {"read", "done"} /\ ~Late(m)'
    <3>1. ~InWindow(m) /\ lane[m].pc # "check" /\ lane[m].g <= gen
      BY <2>1, <2>3 DEF InWindow, LaneFits
    <3>2. ~(lane[m].g + 1 < gen + 1)
      BY <1>6, <2>1, <2>3, <3>1 DEF Late
    <3>3. ~(lane[m].g + 1 < gen)
      BY <1>3, <2>2, <3>2
    <3>4. ~Late(m)
      BY <1>6, <3>1, <3>3 DEF Late
    <3>5. JobOf(lane[m].s)' = JobOf(lane[m].s)
      BY <1>2, <1>6, <2>1 DEF JobOf
    <3>6. QED
      BY <1>2, <2>1, <2>3, <3>1, <3>4, <3>5 DEF LaneFits, Strayed
  <2>4. CASE lane[m].pc = "check"
    <3>1. lane[m].g < gen + 1
      BY <1>3, <2>1, <2>2, <2>4 DEF LaneFits
    <3>2. Late(m)'
      BY <1>6, <2>1, <2>4, <3>1 DEF Late, InWindow
    <3>3. QED
      BY <1>2, <2>1, <2>4, <3>2 DEF LaneFits
  <2>5. CASE lane[m].pc # "check" /\ ~(lane[m].pc \in {"read", "done"} /\ ~Late(m)')
    BY <1>2, <2>1, <2>5 DEF LaneFits
  <2>6. QED
    BY <2>3, <2>4, <2>5
<1>9. Landed' /\ KernelsReadTheirLayer'
  BY <1>1, <1>2 DEF Landed, KernelsReadTheirLayer, Strayed
<1>10. QED
  BY <1>5, <1>7, <1>8, <1>9 DEF ReaderInv

LEMMA InstallSetKeeps == ASSUME ReaderInv, InstallSet PROVE ReaderInv'
<1>1. TypeOK /\ Published /\ (\A m \in Lanes : LaneFits(m)) /\ KernelsReadTheirLayer
  BY DEF ReaderInv
<1>2. /\ mpc = "set" /\ mpc' = "fields" /\ set' = 1 - pub
      /\ UNCHANGED <<pub, used, wanted, need, parts, at, staged, gen, off, cursor,
                     topup, tcursor, active, hint, state, stop, lane, slot>>
      /\ begun' = begun /\ strays' = strays
  BY DEF InstallSet, history
<1>3. gen \in Nat /\ pub \in Sets /\ set \in Sets /\ set' \in Sets /\ set' # pub
      /\ lane \in [Lanes -> LaneType]
  BY <1>1, <1>2 DEF TypeOK, LaneType, Sets
<1>4. TypeOK'
  BY <1>1, <1>2, <1>3 DEF TypeOK
<1>5. Newest = gen /\ Newest' = gen + 1 /\ Newborn = gen + 1 /\ Newborn' = gen + 1
  BY <1>2 DEF Newest, Newborn, Installing
<1>6. JobOf(pub)' = gen /\ (set = pub => JobOf(pub) = gen)
  BY <1>2, <1>3, <1>5 DEF JobOf
<1>7. set = pub \/ (AllGone /\ used = {})
  BY <1>1, <1>2 DEF Published
<1>8. Published'
  <2>1. \A u \in used' : u[2] = JobOf(pub)'
    BY <1>1, <1>2, <1>6, <1>7 DEF Published
  <2>2. off' = gen' /\ \A i \in Experts :
          state'[(gen' + 1) % 2][i] = "landed" => <<i, gen' + 1>> \in strays'
    BY <1>1, <1>2 DEF Published, Installing
  <2>3. \A x \in strays' : x[2] <= Newborn'
    BY <1>1, <1>2, <1>5 DEF Published
  <2>4. QED
    BY <1>2, <1>3, <2>1, <2>2, <2>3 DEF Published
<1>9. ASSUME NEW m \in Lanes PROVE LaneFits(m)'
  <2>1. lane'[m] = lane[m] /\ LaneFits(m) /\ InWindow(m)' = InWindow(m)
        /\ lane[m].s \in Sets /\ lane[m].g \in Nat
    BY <1>1, <1>2, <1>3 DEF InWindow, LaneType
  <2>2. Late(m)' = Late(m)
    BY <1>5, <2>1 DEF Late
  <2>3. CASE lane[m].pc \in {"read", "done"} /\ ~Late(m)
    <3>1. set = pub
      BY <1>7, <2>3 DEF AllGone
    <3>2. ~(lane[m].g + 1 < gen + 1) /\ lane[m].g <= gen
      BY <1>5, <2>1, <2>3 DEF LaneFits, InWindow, Late
    <3>3. lane[m].g = gen
      BY <1>3, <2>1, <3>2
    <3>4. <<lane[m].id, lane[m].g + 1>> \in strays
            \/ (lane[m].o = lane[m].g /\ lane[m].g = JobOf(lane[m].s))
      BY <2>1, <2>3 DEF LaneFits
    <3>5. gen = JobOf(lane[m].s) => lane[m].s = pub
      BY <1>3, <1>5, <3>1 DEF JobOf
    <3>6. lane[m].s = pub => JobOf(lane[m].s)' = gen
      BY <1>2, <1>3, <1>5, <2>1 DEF JobOf
    <3>7. <<lane'[m].id, lane'[m].g + 1>> \in strays'
            \/ (lane'[m].o = lane'[m].g /\ lane'[m].g = JobOf(lane[m].s)')
      BY <1>2, <2>1, <3>3, <3>4, <3>5, <3>6
    <3>8. QED
      BY <1>2, <2>1, <2>2, <2>3, <3>7 DEF LaneFits, Strayed
  <2>4. CASE lane[m].pc = "check"
    <3>1. lane[m].g < gen + 1
      BY <1>3, <2>1, <2>4 DEF LaneFits
    <3>2. Late(m)'
      BY <1>5, <2>1, <2>4, <3>1 DEF Late, InWindow
    <3>3. QED
      BY <1>2, <2>1, <2>4, <3>2 DEF LaneFits
  <2>5. CASE lane[m].pc # "check" /\ ~(lane[m].pc \in {"read", "done"} /\ ~Late(m))
    BY <1>2, <2>1, <2>2, <2>5 DEF LaneFits
  <2>6. QED
    BY <2>3, <2>4, <2>5
<1>10. Landed' /\ KernelsReadTheirLayer'
  BY <1>1, <1>2 DEF Landed, KernelsReadTheirLayer, Strayed
<1>11. QED
  BY <1>4, <1>8, <1>9, <1>10 DEF ReaderInv

LEMMA InstallFieldsKeeps == ASSUME ReaderInv, InstallFields PROVE ReaderInv'
<1>1. TypeOK /\ Published /\ (\A m \in Lanes : LaneFits(m)) /\ KernelsReadTheirLayer
  BY DEF ReaderInv
<1>2. /\ mpc = "fields" /\ mpc' = "publish"
      /\ off' = gen + 1 /\ cursor' = 0 /\ topup' = <<>> /\ tcursor' = 0
      /\ UNCHANGED <<pub, used, wanted, need, parts, at, staged, gen, set, active,
                     hint, state, stop, lane, slot>>
      /\ begun' = begun /\ strays' = strays
  BY DEF InstallFields, history
<1>3. <<>> \in Seq(Experts) /\ gen + 1 \in Nat
  BY <1>1 DEF TypeOK
<1>4. TypeOK'
  BY <1>1, <1>2, <1>3 DEF TypeOK
<1>5. Newest' = Newest /\ JobOf(pub)' = JobOf(pub) /\ Newborn' = Newborn
  BY <1>2 DEF Newest, JobOf, Newborn, Installing
<1>6. Published'
  <2>1. \A u \in used' : u[2] = JobOf(pub)'
    BY <1>1, <1>2, <1>5 DEF Published
  <2>2. set' # pub' /\ \A i \in Experts :
          state'[(gen' + 1) % 2][i] = "landed" => <<i, gen' + 1>> \in strays'
    BY <1>1, <1>2 DEF Published, Installing
  <2>3. \A x \in strays' : x[2] <= Newborn'
    BY <1>1, <1>2, <1>5 DEF Published
  <2>4. QED
    BY <1>2, <2>1, <2>2, <2>3 DEF Published
<1>7. ASSUME NEW m \in Lanes PROVE LaneFits(m)'
  <2>1. lane'[m] = lane[m] /\ LaneFits(m) /\ Late(m)' = Late(m)
    BY <1>1, <1>2, <1>5 DEF InWindow, Late
  <2>2. JobOf(lane[m].s)' = JobOf(lane[m].s)
    BY <1>2, <1>5, <2>1 DEF JobOf
  <2>3. QED
    BY <1>2, <2>1, <2>2 DEF LaneFits, Strayed
<1>8. Landed' /\ KernelsReadTheirLayer'
  BY <1>1, <1>2 DEF Landed, KernelsReadTheirLayer, Strayed
<1>9. QED
  BY <1>4, <1>6, <1>7, <1>8 DEF ReaderInv

LEMMA InstallGenKeeps == ASSUME ReaderInv, InstallGen PROVE ReaderInv'
<1>1. TypeOK /\ Published /\ (\A m \in Lanes : LaneFits(m)) /\ KernelsReadTheirLayer
  BY DEF ReaderInv
<1>2. /\ mpc = "publish" /\ mpc' = "router" /\ gen' = gen + 1 /\ wanted' = {}
      /\ stop' = FALSE /\ begun' = {} /\ strays' = strays
      /\ lane' = [l \in Lanes |-> IF lane[l].pc = "gone" THEN Idle ELSE lane[l]]
      /\ UNCHANGED <<pub, used, need, parts, at, staged, set, off, cursor, topup,
                     tcursor, active, hint, state, slot>>
  BY DEF InstallGen
<1>3. gen \in Nat /\ lane \in [Lanes -> LaneType]
  BY <1>1 DEF TypeOK, LaneType
<1>4. Idle \in LaneType /\ Idle.pc = "idle"
  <2>1. Gone \in LaneType /\ "idle" \in LanePc
    BY DEF Gone, LaneType, LanePc, Sets
  <2>2. QED
    BY <2>1 DEF Idle, LaneType
<1>5. lane' \in [Lanes -> LaneType]
  BY <1>2, <1>3, <1>4
<1>6. TypeOK'
  <2>1. wanted' \subseteq Experts /\ begun' \subseteq Experts
    <3>1. wanted' = {} /\ begun' = {}
      BY <1>2
    <3>2. QED
      BY <3>1, Zenon
  <2>2. mpc' = "router" /\ gen' \in Nat /\ stop' \in BOOLEAN
    <3>1. mpc' = "router" /\ gen' = gen + 1 /\ stop' = FALSE
      BY <1>2
    <3>2. gen' \in Nat
      BY <1>3, <3>1
    <3>3. stop' \in BOOLEAN
      BY <3>1
    <3>4. QED
      BY <3>1, <3>2, <3>3
  <2>3. UNCHANGED <<pub, used, need, parts, at, staged, set, off, cursor, topup,
                    tcursor, active, hint, state, slot, strays>>
    BY <1>2
  <2>4. QED
    BY <1>1, <1>5, <2>1, <2>2, <2>3 DEF TypeOK, LaneType
<1>7. Newest = gen + 1 /\ Newest' = gen + 1 /\ JobOf(pub)' = JobOf(pub)
      /\ Newborn = gen + 1 /\ Newborn' = gen + 1
  BY <1>2 DEF Newest, JobOf, Newborn, Installing
<1>8. Published'
  <2>1. \A u \in used' : u[2] = JobOf(pub)'
    BY <1>1, <1>2, <1>7 DEF Published
  <2>2. set' # pub' /\ off' = gen'
    BY <1>1, <1>2 DEF Published
  <2>3. \A x \in strays' : x[2] <= Newborn'
    BY <1>1, <1>2, <1>7 DEF Published
  <2>4. QED
    BY <1>2, <2>1, <2>2, <2>3 DEF Published, Installing
<1>9. ASSUME NEW m \in Lanes PROVE LaneFits(m)'
  <2>1. CASE lane[m].pc = "gone"
    <3>1. lane'[m].pc = "idle"
      BY <1>2, <1>4, <2>1
    <3>2. QED
      BY <3>1 DEF LaneFits
  <2>2. CASE lane[m].pc # "gone"
    <3>1. lane'[m] = lane[m] /\ LaneFits(m) /\ InWindow(m)' = InWindow(m)
          /\ lane[m].g \in Nat
      BY <1>1, <1>2, <1>3, <2>2 DEF InWindow, LaneType
    <3>2. Late(m)' = Late(m)
      BY <1>7, <3>1 DEF Late
    <3>3. JobOf(lane[m].s)' = JobOf(lane[m].s)
      BY <1>2, <1>7, <3>1 DEF JobOf
    <3>4. lane[m].pc \notin {"idle", "gone"} => lane[m].g <= gen'
      BY <1>2, <1>3, <3>1 DEF LaneFits
    <3>5. lane[m].pc = "check" => Late(m)
      <4>1. lane[m].pc = "check" => lane[m].g < gen + 1 /\ InWindow(m)
        BY <1>3, <3>1 DEF LaneFits, InWindow
      <4>2. QED
        BY <1>7, <4>1 DEF Late
    <3>6. QED
      BY <1>2, <3>1, <3>2, <3>3, <3>4, <3>5 DEF LaneFits, Strayed
  <2>3. QED
    BY <2>1, <2>2
<1>10. Landed'
  <2>1. \A i \in Experts : state'[gen' % 2][i] = "landed" => <<i, gen'>> \in strays'
    BY <1>1, <1>2 DEF Published, Installing
  <2>2. QED
    BY <1>2, <2>1 DEF Landed, Array, Arrived, Strayed
<1>11. KernelsReadTheirLayer'
  BY <1>1, <1>2 DEF KernelsReadTheirLayer, Strayed
<1>12. QED
  BY <1>6, <1>8, <1>9, <1>10, <1>11 DEF ReaderInv

LEMMA ReleaseKeeps == ASSUME ReaderInv, Release PROVE ReaderInv'
<1>1. TypeOK /\ Published
  BY DEF ReaderInv
<1>2. /\ mpc = "stop" /\ mpc' = "idle" /\ \A l \in Lanes : lane[l].pc = "gone"
      /\ active' = FALSE /\ used' = {}
      /\ slot' = [s \in Sets |-> [i \in Experts |-> 0]]
      /\ UNCHANGED <<pub, wanted, need, parts, at, staged, gen, set, off, cursor, topup,
                     tcursor, hint, state, stop, lane, begun, strays>>
  BY DEF Release, history
<1>3. slot' \in [Sets -> [Experts -> Nat]] /\ {} \subseteq Experts \X Nat
  <2>1. slot' \in [Sets -> [Experts -> Nat]]
    BY <1>2
  <2>2. {} \subseteq Experts \X Nat
    BY Zenon
  <2>3. QED
    BY <2>1, <2>2
<1>4. TypeOK'
  <2>1. used' \subseteq Experts \X Nat /\ mpc' = "idle" /\ active' \in BOOLEAN
    BY <1>2, <1>3
  <2>2. UNCHANGED <<pub, wanted, need, parts, at, staged, gen, set, off, cursor, topup,
                    tcursor, hint, state, stop, lane, begun, strays>>
    BY <1>2
  <2>3. QED
    BY <1>1, <1>3, <2>1, <2>2 DEF TypeOK
<1>5. Published'
  <2>1. Newborn' = Newborn
    BY <1>2 DEF Newborn, Installing
  <2>2. QED
    BY <1>1, <1>2, <2>1 DEF Published, AllGone, Installing
<1>6. \A m \in Lanes : LaneFits(m)'
  BY <1>2 DEF LaneFits
<1>7. Landed' /\ KernelsReadTheirLayer'
  BY <1>2 DEF Landed, KernelsReadTheirLayer
<1>8. QED
  BY <1>4, <1>5, <1>6, <1>7 DEF ReaderInv

-----------------------------------------------------------------------------

LEMMA ReaderInit == Init => ReaderInv
<1> SUFFICES ASSUME Init PROVE ReaderInv
  OBVIOUS
<1>1. TypeOK
  BY TypeInit
<1>2. /\ mpc = "idle" /\ used = {} /\ off = 0 /\ gen = 0 /\ strays = {}
      /\ lane = [l \in Lanes |-> Gone]
  BY DEF Init
<1>3. \A l \in Lanes : lane[l].pc = "gone"
  BY <1>2 DEF Gone
<1>4. Published
  BY <1>2, <1>3 DEF Published, AllGone, Installing
<1>5. (\A l \in Lanes : LaneFits(l)) /\ Landed /\ KernelsReadTheirLayer
  BY <1>2, <1>3 DEF LaneFits, Landed, KernelsReadTheirLayer
<1>6. QED
  BY <1>1, <1>4, <1>5 DEF ReaderInv

LEMMA ReaderStutters == ASSUME ReaderInv, UNCHANGED vars PROVE ReaderInv'
<1>1. UNCHANGED <<mpc, pub, used, wanted, need, parts, at, staged>>
  BY DEF vars, main
<1>2. UNCHANGED <<gen, set, off, cursor, topup, tcursor, active, hint, state, stop, lane,
                  slot, begun, strays>>
  BY DEF vars, shared, history
<1>3. TypeOK' = TypeOK
  BY <1>1, <1>2 DEF TypeOK
<1>4. Newborn' = Newborn
  BY <1>1, <1>2 DEF Newborn
<1>5. Published' = Published
  BY <1>1, <1>2, <1>4 DEF Published, AllGone, JobOf, Newest
<1>6. \A l \in Lanes : LaneFits(l)' = LaneFits(l)
  BY <1>1, <1>2, <1>4 DEF LaneFits, InWindow, Late, JobOf, Newest, Strayed
<1>7. Landed' = Landed /\ KernelsReadTheirLayer' = KernelsReadTheirLayer
  BY <1>1, <1>2 DEF Landed, Array, Arrived, KernelsReadTheirLayer, Strayed
<1>8. QED
  BY <1>3, <1>5, <1>6, <1>7 DEF ReaderInv

LEMMA ReaderStep ==
  ASSUME ReaderInv, [Next]_vars PROVE ReaderInv'
<1>1. CASE Stage
  BY <1>1, InstallKeeps, InstallSetKeeps, InstallFieldsKeeps, InstallGenKeeps, BeginKeeps,
     AwaitKeeps, FinishKeeps, EndsKeep, ReleaseKeeps DEF Stage
<1>2. CASE Hint
  BY <1>2, HintKeeps
<1>3. CASE BeginFails \/ WaveError \/ Leave
  BY <1>3, EndsKeep
<1>4. CASE \E l \in Lanes : Lane(l)
  BY <1>4, LaneKeeps
<1>5. CASE UNCHANGED vars
  BY <1>5, ReaderStutters
<1>6. QED
  BY <1>1, <1>2, <1>3, <1>4, <1>5 DEF Next
-----------------------------------------------------------------------------
(* Who reads for the current job. *)

\* A step that sends nobody on the way to read for the current job.
LEMMA NobodyClaims ==
  ASSUME ReaderInv, ClaimInv, gen' = gen, begun' = begun,
         \A i \in Experts : state[gen % 2][i] # "untouched" => state'[gen % 2][i] # "untouched",
         \A m \in Lanes : ReadsFor(m)' => ReadsFor(m) /\ lane'[m].id = lane[m].id
  PROVE  ClaimInv'
<1>1. begun \subseteq Experts
  BY DEF ReaderInv, TypeOK
<1>2. \A m \in Lanes : ReadsFor(m) => lane[m].id \in Experts
  BY DEF ReaderInv, LaneFits, ReadsFor
<1>3. \A i \in begun' : Array'[i] # "untouched"
  BY <1>1 DEF ClaimInv, Array
<1>4. \A m \in Lanes : ReadsFor(m)' => Array'[lane'[m].id] # "untouched" /\ lane'[m].id \notin begun'
  BY <1>2 DEF ClaimInv, Array
<1>5. \A l, m \in Lanes : ReadsFor(l)' /\ ReadsFor(m)' /\ l # m => lane'[l].id # lane'[m].id
  BY DEF ClaimInv
<1>6. QED
  BY <1>3, <1>4, <1>5 DEF ClaimInv

LEMMA ClaimClaims ==
  ASSUME ReaderInv, ClaimInv, NEW l \in Lanes, NEW c \in Experts, NEW else \in {"topup", "ranked"},
         lane[l].pc \in {"pick", "ranked"}, Claim(l, c, else), gen' = gen, begun' = begun
  PROVE  ClaimInv'
<1>1. TypeOK /\ else \in LanePc /\ begun \subseteq Experts
  BY DEF ReaderInv, LanePc, TypeOK
<1>2. lane \in [Lanes -> LaneType] /\ state \in [Sets -> [Experts -> States]]
      /\ lane[l].g % 2 \in Sets /\ gen % 2 \in Sets /\ lane[l] \in LaneType
  BY LaneFacts
<1>3. CASE Step(l, [lane[l] EXCEPT !.pc = else, !.k = 0]) /\ UNCHANGED state
  <2>1. lane'[l].pc \notin {"copy", "check"} /\ \A m \in Lanes : m # l => lane'[m] = lane[m]
    BY <1>2, <1>3 DEF Step, LaneType
  <2>2. \A m \in Lanes : ReadsFor(m)' => ReadsFor(m) /\ lane'[m].id = lane[m].id
    BY <2>1 DEF ReadsFor
  <2>3. QED
    BY <1>3, <2>2, NobodyClaims
<1>4. CASE /\ Step(l, [lane[l] EXCEPT !.pc = "copy", !.id = c, !.k = 0])
           /\ state' = [state EXCEPT ![lane[l].g % 2][c] = "claimed"]
           /\ state[lane[l].g % 2][c] = "untouched"
  <2>1. /\ lane'[l].pc = "copy" /\ lane'[l].id = c /\ lane'[l].g = lane[l].g
        /\ \A m \in Lanes : m # l => lane'[m] = lane[m]
    BY <1>2, <1>4 DEF Step, LaneType
  <2>2. \A i \in Experts : state[gen % 2][i] # "untouched" => state'[gen % 2][i] # "untouched"
    BY <1>2, <1>4
  <2>3. CASE lane[l].g # gen
    <3>1. \A m \in Lanes : ReadsFor(m)' => ReadsFor(m) /\ lane'[m].id = lane[m].id
      BY <2>1, <2>3 DEF ReadsFor
    <3>2. QED
      BY <2>2, <3>1, NobodyClaims
  <2>4. CASE lane[l].g = gen
    <3>1. Array[c] = "untouched" /\ Array'[c] = "claimed"
      BY <1>2, <1>4, <2>4 DEF Array
    <3>2. c \notin begun
      BY <3>1 DEF ClaimInv
    <3>3. \A m \in Lanes : m # l /\ ReadsFor(m)' => ReadsFor(m) /\ lane'[m].id # c
      BY <2>1, <3>1 DEF ClaimInv, ReadsFor
    <3>4. \A i \in begun' : Array'[i] # "untouched"
      BY <1>1, <2>2 DEF ClaimInv, Array
    <3>5. ASSUME NEW m \in Lanes, ReadsFor(m)'
          PROVE  Array'[lane'[m].id] # "untouched" /\ lane'[m].id \notin begun'
      <4>1. CASE m = l
        BY <2>1, <3>1, <3>2, <4>1
      <4>2. CASE m # l
        <5>1. ReadsFor(m) /\ lane'[m] = lane[m]
          BY <2>1, <3>3, <3>5, <4>2
        <5>2. lane[m].id \in Experts
          BY <5>1 DEF ReaderInv, LaneFits, ReadsFor
        <5>3. QED
          BY <2>2, <5>1, <5>2 DEF ClaimInv, Array
      <4>3. QED
        BY <4>1, <4>2
    <3>6. ASSUME NEW m \in Lanes, NEW n \in Lanes, ReadsFor(m)', ReadsFor(n)', m # n
          PROVE  lane'[m].id # lane'[n].id
      <4>1. CASE m = l \/ n = l
        BY <2>1, <3>3, <3>6, <4>1
      <4>2. CASE m # l /\ n # l
        BY <2>1, <3>3, <3>6, <4>2 DEF ClaimInv
      <4>3. QED
        BY <4>1, <4>2
    <3>7. QED
      BY <3>4, <3>5, <3>6 DEF ClaimInv
  <2>5. QED
    BY <2>3, <2>4
<1>5. QED
  BY <1>1, <1>3, <1>4, ClaimDoes

\* A step of one lane leaves the records of the others.
LEMMA OthersStay ==
  ASSUME TypeOK, NEW l \in Lanes, Lane(l), NEW m \in Lanes, m # l
  PROVE  lane'[m] = lane[m]
<1>1. lane \in [Lanes -> LaneType]
  BY DEF TypeOK, LaneType
<1>2. CASE Load(l) \/ Look(l) \/ TopUp(l) \/ Copy(l) \/ Check(l) \/ ReadBytes(l) \/ ReadError(l)
             \/ Store(l)
  BY <1>1, <1>2 DEF Load, Look, TopUp, Copy, Check, ReadBytes, ReadError, Store
<1>3. CASE Pick(l) \/ Guess(l)
  BY <1>1, <1>3 DEF Pick, Guess, Claim
<1>4. QED
  BY <1>2, <1>3 DEF Lane

LEMMA LaneClaims ==
  ASSUME ReaderInv, ClaimInv, NEW l \in Lanes, Lane(l) PROVE ClaimInv'
<1>1. /\ TypeOK /\ lane \in [Lanes -> LaneType] /\ lane[l] \in LaneType
      /\ state \in [Sets -> [Experts -> States]] /\ gen % 2 \in Sets /\ lane[l].g % 2 \in Sets
  BY LaneFacts
<1>2. \A m \in Lanes : m # l => lane'[m] = lane[m]
  BY <1>1, OthersStay
<1>3. gen' = gen
  BY DEF Lane, Load, Look, TopUp, Pick, Guess, Copy, Check, ReadBytes, ReadError, Store, shared
<1>4. CASE Load(l) \/ Look(l) \/ TopUp(l) \/ Copy(l) \/ ReadBytes(l) \/ ReadError(l)
             \/ (Check(l) /\ gen # lane[l].g)
  <2>1. state' = state /\ begun' = begun
    BY <1>4 DEF Load, Look, TopUp, Copy, ReadBytes, ReadError, Check, history
  <2>2. lane'[l].pc \in {"copy", "check"} =>
          lane[l].pc = "copy" /\ lane'[l].id = lane[l].id /\ lane'[l].g = lane[l].g
    <3>1. CASE Copy(l)
      BY <1>1, <3>1 DEF Copy, LaneType
    <3>2. CASE Load(l) \/ TopUp(l)
      <4>1. Gone.pc = "gone" /\ Idle.pc = "idle" /\ [Idle EXCEPT !.pc = "look", !.g = gen].pc = "look"
        BY DEF Gone, Idle
      <4>2. lane'[l].pc \in {"gone", "idle", "look", "pick", "ranked"}
        BY <1>1, <3>2, <4>1 DEF Load, TopUp, LaneType
      <4>3. QED
        BY <4>2
    <3>3. CASE Look(l) \/ ReadBytes(l) \/ ReadError(l) \/ (Check(l) /\ gen # lane[l].g)
      <4>1. lane'[l].pc \in {"topup", "ranked", "done", "missed"}
        BY <1>1, <3>3 DEF Look, ReadBytes, ReadError, Check, LaneType
      <4>2. QED
        BY <4>1
    <3>4. QED
      BY <1>4, <3>1, <3>2, <3>3
  <2>3. \A m \in Lanes : ReadsFor(m)' => ReadsFor(m) /\ lane'[m].id = lane[m].id
    BY <1>2, <1>3, <2>2 DEF ReadsFor
  <2>4. QED
    BY <1>3, <2>1, <2>3, NobodyClaims
<1>5. CASE Store(l)
  <2>1. begun' = begun /\ lane'[l].pc = "idle"
    BY <1>1, <1>5 DEF Store, Gone, Idle
  <2>2. \A i \in Experts : state[gen % 2][i] # "untouched" => state'[gen % 2][i] # "untouched"
    BY <1>1, <1>5 DEF Store
  <2>3. \A m \in Lanes : ReadsFor(m)' => ReadsFor(m) /\ lane'[m].id = lane[m].id
    BY <1>2, <1>3, <2>1 DEF ReadsFor
  <2>4. QED
    BY <1>3, <2>1, <2>2, <2>3, NobodyClaims
<1>6. CASE Pick(l)
  <2>1. PICK c \in IF lane[l].k < Len(topup) THEN {topup[lane[l].k + 1]} ELSE Experts :
          Claim(l, c, "topup")
    BY <1>6 DEF Pick
  <2>2. lane[l].k \in Nat /\ topup \in Seq(Experts)
    BY <1>1 DEF LaneType, TypeOK
  <2>3. c \in Experts
    <3>1. CASE lane[l].k < Len(topup)
      <4>1. lane[l].k + 1 \in 1..Len(topup)
        BY <2>2, <3>1
      <4>2. QED
        BY <2>1, <2>2, <3>1, <4>1
    <3>2. CASE ~(lane[l].k < Len(topup))
      BY <2>1, <3>2
    <3>3. QED
      BY <3>1, <3>2
  <2>4. lane[l].pc = "pick" /\ begun' = begun
    BY <1>6 DEF Pick, history
  <2>5. QED
    BY <1>3, <2>1, <2>3, <2>4, ClaimClaims
<1>7. CASE Guess(l) /\ cursor < Len(Ranked)
  <2>1. lane[l].pc = "ranked" /\ begun' = begun /\ Claim(l, Ranked[cursor + 1], "ranked")
    BY <1>7 DEF Guess, history
  <2>2. Ranked[cursor + 1] \in Experts
    BY <1>1, <1>7, ReaderAssumption DEF TypeOK
  <2>3. QED
    BY <1>3, <2>1, <2>2, ClaimClaims
<1>8. CASE Guess(l) /\ ~(cursor < Len(Ranked))
  <2>1. state' = state /\ begun' = begun /\ lane'[l].pc = "idle"
    BY <1>1, <1>8 DEF Guess, history, Gone, Idle
  <2>2. \A m \in Lanes : ReadsFor(m)' => ReadsFor(m) /\ lane'[m].id = lane[m].id
    BY <1>2, <1>3, <2>1 DEF ReadsFor
  <2>3. QED
    BY <1>3, <2>1, <2>2, NobodyClaims
<1>9. CASE Check(l) /\ gen = lane[l].g
  <2>1. state' = state /\ begun' = begun \cup {lane[l].id} /\ lane'[l].pc = "read"
        /\ ReadsFor(l) /\ Array' = Array
    <3>1. /\ state' = state /\ gen' = gen /\ begun' = begun \cup {lane[l].id}
          /\ lane' = [lane EXCEPT ![l].pc = "read", ![l].o = off] /\ lane[l].pc = "check"
      BY <1>9 DEF Check, shared
    <3>2. lane'[l].pc = "read"
      BY <1>1, <3>1 DEF LaneType
    <3>3. QED
      BY <1>9, <3>1, <3>2 DEF ReadsFor, Array
  <2>2. \A m \in Lanes : ReadsFor(m)' => ReadsFor(m) /\ lane'[m].id = lane[m].id /\ m # l
    BY <1>2, <1>3, <2>1 DEF ReadsFor
  <2>3. Array[lane[l].id] # "untouched"
    BY <2>1 DEF ClaimInv
  <2>4. \A i \in begun' : Array'[i] # "untouched"
    BY <2>1, <2>3 DEF ClaimInv
  <2>5. \A m \in Lanes : ReadsFor(m)' =>
          Array'[lane'[m].id] # "untouched" /\ lane'[m].id \notin begun'
    BY <2>1, <2>2 DEF ClaimInv
  <2>6. \A n, m \in Lanes : ReadsFor(n)' /\ ReadsFor(m)' /\ n # m => lane'[n].id # lane'[m].id
    BY <2>2 DEF ClaimInv
  <2>7. QED
    BY <2>4, <2>5, <2>6 DEF ClaimInv
<1>10. QED
  BY <1>4, <1>5, <1>6, <1>7, <1>8, <1>9 DEF Lane

\* What the main thread does with the lanes.
LEMMA MainLanes ==
  ASSUME Stage \/ Hint \/ BeginFails \/ WaveError \/ Leave
  PROVE  \/ InstallGen
         \/ Install
         \/ UNCHANGED <<gen, lane, state, begun>>
BY DEF Stage, Hint, Install, InstallSet, InstallFields, InstallGen, Begin, BeginFails, Await,
       Finish, AwaitFails, WaveError, BeginRefused, Leave, Release, shared, history

LEMMA MainClaims ==
  ASSUME ReaderInv, ClaimInv, Stage \/ Hint \/ BeginFails \/ WaveError \/ Leave
  PROVE  ClaimInv'
<1>1. TypeOK /\ gen \in Nat /\ lane \in [Lanes -> LaneType] /\ (\A m \in Lanes : LaneFits(m))
      /\ state \in [Sets -> [Experts -> States]]
  BY DEF ReaderInv, TypeOK, LaneType
<1>2. CASE InstallGen
  <2>1. gen' = gen + 1 /\ begun' = {}
        /\ lane' = [l \in Lanes |-> IF lane[l].pc = "gone" THEN Idle ELSE lane[l]]
    BY <1>2 DEF InstallGen
  <2>2. ASSUME NEW m \in Lanes PROVE ~ReadsFor(m)'
    <3>1. CASE lane[m].pc = "gone"
      BY <2>1, <3>1 DEF ReadsFor, Idle, Gone
    <3>2. CASE lane[m].pc # "gone"
      <4>1. lane'[m] = lane[m] /\ lane[m].g \in Nat
        BY <1>1, <2>1, <3>2 DEF LaneType
      <4>2. lane[m].pc \in {"copy", "check"} => lane[m].g <= gen
        BY <1>1 DEF LaneFits
      <4>3. lane[m].g <= gen => lane[m].g # gen + 1
        BY <1>1, <4>1
      <4>4. QED
        BY <2>1, <4>1, <4>2, <4>3 DEF ReadsFor
    <3>3. QED
      BY <3>1, <3>2
  <2>3. QED
    BY <2>1, <2>2 DEF ClaimInv
<1>3. CASE Install
  <2>1. gen' = gen /\ begun' = begun /\ lane' = lane
        /\ state' = [state EXCEPT ![(gen + 1) % 2] = [i \in Experts |-> "untouched"]]
    BY <1>3 DEF Install, history
  <2>2. state'[gen % 2] = state[gen % 2]
    BY <1>1, <2>1, Parity
  <2>3. \A m \in Lanes : ReadsFor(m)' => ReadsFor(m) /\ lane'[m].id = lane[m].id
    BY <2>1 DEF ReadsFor
  <2>4. QED
    BY <2>1, <2>2, <2>3, NobodyClaims
<1>4. CASE UNCHANGED <<gen, lane, state, begun>>
  BY <1>4 DEF ClaimInv, ReadsFor, Array
<1>5. QED
  BY <1>2, <1>3, <1>4, MainLanes

LEMMA ClaimStep ==
  ASSUME ReaderInv, ClaimInv, [Next]_vars PROVE ClaimInv'
<1>1. CASE Stage \/ Hint \/ BeginFails \/ WaveError \/ Leave
  BY <1>1, MainClaims
<1>2. CASE \E l \in Lanes : Lane(l)
  BY <1>2, LaneClaims
<1>3. CASE UNCHANGED vars
  BY <1>3 DEF vars, shared, history, ClaimInv, ReadsFor, Array
<1>4. QED
  BY <1>1, <1>2, <1>3 DEF Next

LEMMA ClaimInit == Init => ClaimInv
<1> SUFFICES ASSUME Init PROVE ClaimInv
  OBVIOUS
<1>1. begun = {} /\ \A l \in Lanes : lane[l].pc = "gone"
  BY DEF Init, Gone
<1>2. \A l \in Lanes : ~ReadsFor(l)
  BY <1>1 DEF ReadsFor
<1>3. QED
  BY <1>1, <1>2 DEF ClaimInv

\* Only a lane that checks the generation begins to read.
LEMMA OnlyCheckReads ==
  ASSUME ReaderInv, [Next]_vars, NEW l \in Lanes, lane[l].pc = "check", lane'[l].pc = "read"
  PROVE  ReadsFor(l)
<1>1. TypeOK /\ lane \in [Lanes -> LaneType]
  BY DEF ReaderInv, TypeOK, LaneType
<1>2. CASE Stage \/ Hint \/ BeginFails \/ WaveError \/ Leave
  <2>1. lane'[l] = lane[l]
    BY <1>2, MainLanes DEF InstallGen, Install
  <2>2. QED
    BY <2>1
<1>3. CASE \E m \in Lanes : Lane(m)
  <2>1. PICK m \in Lanes : Lane(m)
    BY <1>3
  <2>2. CASE m # l
    BY <1>1, <2>1, <2>2, OthersStay
  <2>3. CASE m = l
    <3>1. Check(l)
      BY <2>1, <2>3 DEF Lane, Load, Look, TopUp, Pick, Guess, Copy, ReadBytes, ReadError, Store
    <3>2. gen = lane[l].g
      BY <1>1, <3>1 DEF Check, LaneType
    <3>3. QED
      BY <3>2 DEF ReadsFor
  <2>4. QED
    BY <2>2, <2>3
<1>4. CASE UNCHANGED vars
  BY <1>4 DEF vars
<1>5. QED
  BY <1>2, <1>3, <1>4 DEF Next
-----------------------------------------------------------------------------

(* Whatever the numbers of lanes, experts and jobs, the guesses, what the  *)
(* router chooses, the reads that fail and the lanes that are late: a lane *)
(* that is not late reads the bytes and into the set of the job it reads   *)
(* for, and an expert that counts as landed has its bytes in its slot, or  *)
(* a late lane has had its hands on that expert (ar_rd_worker,             *)
(* ar_rd_install_job, ar_prefill_stage_ids_begin).                         *)
THEOREM ReaderInvariant == Spec => []ReaderInv
<1>1. Init => ReaderInv
  BY ReaderInit
<1>2. ReaderInv /\ [Next]_vars => ReaderInv'
  BY ReaderStep
<1>3. QED
  BY <1>1, <1>2, PTL DEF Spec

(* The kernels of a layer read the bytes of that layer's experts, whole,   *)
(* while later layers are being read ahead (ar_prefill_stage_ids_begin:    *)
(* "kernels ... must only touch experts reported as landed"), except for   *)
(* an expert that a late lane has taken, written or published while that   *)
(* job or the next was the newest.                                         *)
THEOREM KernelsReadTheirLayerCorrect == Spec => []KernelsReadTheirLayer
<1>1. ReaderInv => KernelsReadTheirLayer
  BY DEF ReaderInv
<1>2. QED
  BY <1>1, ReaderInvariant, PTL

(* No expert is read twice for a job, however late a lane is and whatever  *)
(* lists are replaced under the lanes (ds4_metal.m:13467: "Each expert is  *)
(* claimed once").                                                         *)
THEOREM ReadOnceCorrect == Spec => ReadOnce
<1> DEFINE Once == \A l \in Lanes : (lane[l].pc = "check" /\ lane'[l].pc = "read") =>
                     lane[l].id \notin begun
<1>1. Init => ReaderInv /\ ClaimInv
  BY ReaderInit, ClaimInit
<1>2. ReaderInv /\ ClaimInv /\ [Next]_vars => (ReaderInv /\ ClaimInv)'
  BY ReaderStep, ClaimStep
<1>3. ReaderInv /\ ClaimInv /\ [Next]_vars => [Once]_vars
  <2> SUFFICES ASSUME ReaderInv, ClaimInv, [Next]_vars PROVE Once
    OBVIOUS
  <2>1. ASSUME NEW l \in Lanes, lane[l].pc = "check", lane'[l].pc = "read"
        PROVE  lane[l].id \notin begun
    BY <2>1, OnlyCheckReads DEF ClaimInv
  <2>2. QED
    BY <2>1
<1>4. Spec => [][Once]_vars
  BY <1>1, <1>2, <1>3, PTL DEF Spec
<1>5. QED
  BY <1>4 DEF ReadOnce
==============================================================================
