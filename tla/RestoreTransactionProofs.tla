---------------------- MODULE RestoreTransactionProofs ----------------------
(***************************************************************************)
(* Proofs about RestoreTransaction, for any list of adapters and any       *)
(* number of failures: a call that fails leaves the live state as it was,  *)
(* and a commit of what prepare() has returned is complete.                *)
(***************************************************************************)
EXTENDS RestoreTransaction, SequenceTheorems, TLAPS

LEMMA FunctionIsSeq ==
    ASSUME NEW S, NEW m \in Nat, NEW f \in [1..m -> S]
    PROVE  f \in Seq(S) /\ Len(f) = m
<1>1. f \in Seq(S)
  BY SeqDef
<1>. QED  BY <1>1, LenProperties

LEMMA Joined ==
    ASSUME NEW S, NEW s \in Seq(S), NEW t \in Seq(S),
           NEW m \in Nat, Len(s) = m, NEW k \in Nat, Len(t) = k
    PROVE  /\ s \o t \in Seq(S) /\ Len(s \o t) = m + k
           /\ \A j \in 1..m : (s \o t)[j] = s[j]
           /\ \A j \in 1..k : \A i : i = m + j => (s \o t)[i] = t[j]
<1>1. /\ s \o t \in Seq(S) /\ Len(s \o t) = Len(s) + Len(t)
      /\ \A i \in 1 .. Len(s) + Len(t) : (s \o t)[i] =
                     IF i <= Len(s) THEN s[i] ELSE t[i - Len(s)]
  BY ConcatProperties
<1>2. ASSUME NEW j \in 1..k
      PROVE  m + j \in 1..m + k /\ ~(m + j <= m) /\ (m + j) - m = j
  OBVIOUS
<1>3. ASSUME NEW j \in 1..m
      PROVE  j \in 1..m + k /\ j <= m
  OBVIOUS
<1>. QED  BY <1>1, <1>2, <1>3

(* Positions of the adapters in the order of rollback.                      *)
LEMMA Backwards ==
    ASSUME NEW n \in Nat, NEW i \in 1..n
    PROVE  /\ 2 * (n - i) + 1 \in 1..2 * n /\ 2 * (n - i) + 2 \in 1..2 * n
           /\ n - ((2 * (n - i) + 1) - 1) \div 2 = i /\ (2 * (n - i) + 1) % 2 = 1
           /\ n - ((2 * (n - i) + 2) - 1) \div 2 = i /\ (2 * (n - i) + 2) % 2 = 0
<1> DEFINE d == n - i
<1>1. d \in Nat /\ n - d = i /\ d + 1 <= n
  OBVIOUS
<1>. HIDE DEF d
<1>2. ((2 * d + 1) - 1) \div 2 = d /\ ((2 * d + 2) - 1) \div 2 = d
  BY <1>1
<1>3. (2 * d + 1) % 2 = 1 /\ (2 * d + 2) % 2 = 0
  BY <1>1
<1>4. 2 * d + 1 \in 1..2 * n /\ 2 * d + 2 \in 1..2 * n
  BY <1>1
<1>. QED  BY <1>1, <1>2, <1>3, <1>4 DEF d

LEMMA Halves ==
    ASSUME NEW n \in Nat, NEW k \in 1..2 * n
    PROVE  n - (k - 1) \div 2 \in 1..n
<1> DEFINE h == (k - 1) \div 2
<1>1. h \in Int /\ 2 * h <= k - 1 /\ k - 1 < 2 * h + 2
  OBVIOUS
<1>. HIDE DEF h
<1>2. n - h \in 1..n
  BY <1>1
<1>. QED  BY <1>2 DEF h

LEMMA AdapterFacts ==
    /\ Len(Adapters) \in Nat /\ DOMAIN Adapters = 1..Len(Adapters)
    /\ \A i \in 1..Len(Adapters) :
          /\ <<Adapters[i], "conf">> \in Cells /\ <<Adapters[i], "state">> \in Cells
          /\ Adapters[i] \notin {"python", "numpy"}
<1>1. /\ Len(Adapters) \in Nat /\ DOMAIN Adapters = 1..Len(Adapters)
      /\ \A i \in 1..Len(Adapters) : Adapters[i] \in STRING \ {"python", "numpy"}
  BY RestoreConstants, LenProperties, ElementOfSeq
<1>. QED  BY <1>1 DEF Cells, Provider

LEMMA CellCases ==
    ASSUME NEW c \in Cells
    PROVE  \/ c = <<"python", "state">> \/ c = <<"numpy", "state">>
           \/ \E i \in 1..Len(Adapters) : c = <<Adapters[i], "state">> \/ c = <<Adapters[i], "conf">>
<1>1. DOMAIN Adapters = 1..Len(Adapters)
  BY AdapterFacts
<1>2. CASE c \in Provider \X {"state"}
  BY <1>1, <1>2 DEF Provider
<1>3. CASE c \in {<<Adapters[i], "conf">> : i \in DOMAIN Adapters}
  BY <1>1, <1>3
<1>. QED  BY <1>2, <1>3 DEF Cells

LEMMA FixedCells ==
    /\ <<"python", "state">> \in Cells /\ <<"numpy", "state">> \in Cells
    /\ Live \notin Cells
    /\ \A c \in Cells : c[2] \in {"state", "conf"}
<1>1. <<"python", "state">> \in Cells /\ <<"numpy", "state">> \in Cells
  BY DEF Cells, Provider
<1>2. \A c \in Cells : c[2] \in {"state", "conf"}
  BY DEF Cells
<1>. QED  BY <1>1, <1>2 DEF Live

(* Every cell has a place in the order of mutation.                         *)
LEMMA MutationOrderFacts ==
    /\ Len(MutationOrder) \in Nat
    /\ \A j \in 1..Len(MutationOrder) : MutationOrder[j] \in Cells
    /\ \A c \in Cells : \E j \in 1..Len(MutationOrder) : MutationOrder[j] = c
<1> DEFINE n == Len(Adapters)
           two == 2
           conf == [i \in 1..n |-> <<Adapters[i], "conf">>]
           host == << <<"python", "state">>, <<"numpy", "state">> >>
           state == [i \in 1..n |-> <<Adapters[i], "state">>]
<1>1. n \in Nat /\ MutationOrder = conf \o host \o state
  BY AdapterFacts DEF MutationOrder
<1>2. conf \in Seq(Cells) /\ Len(conf) = n
  <2>1. conf \in [1..n -> Cells]
    BY AdapterFacts
  <2>. QED  BY <1>1, <2>1, FunctionIsSeq
<1>3. state \in Seq(Cells) /\ Len(state) = n
  <2>1. state \in [1..n -> Cells]
    BY AdapterFacts
  <2>. QED  BY <1>1, <2>1, FunctionIsSeq
<1>4. host \in Seq(Cells) /\ Len(host) = two /\ two \in Nat
  BY FixedCells
<1>5. \A i \in 1..n : conf[i] = <<Adapters[i], "conf">> /\ state[i] = <<Adapters[i], "state">>
  OBVIOUS
<1>6. /\ 1 \in 1..two /\ 2 \in 1..two
      /\ host[1] = <<"python", "state">> /\ host[2] = <<"numpy", "state">>
  OBVIOUS
<1>. HIDE DEF n, two, conf, host, state
<1>7. n + two \in Nat
  BY <1>1, <1>4
<1>8. /\ conf \o host \in Seq(Cells) /\ Len(conf \o host) = n + two
      /\ \A j \in 1..n : (conf \o host)[j] = conf[j]
      /\ \A j \in 1..two : (conf \o host)[n + j] = host[j]
  <2>1. conf \o host \in Seq(Cells) /\ Len(conf \o host) = n + two
    BY <1>1, <1>2, <1>4, Joined
  <2>2. \A j \in 1..n : (conf \o host)[j] = conf[j]
    BY <1>1, <1>2, <1>4, Joined
  <2>3. \A j \in 1..two : (conf \o host)[n + j] = host[j]
    BY <1>1, <1>2, <1>4, Joined
  <2>. QED  BY <2>1, <2>2, <2>3
<1>9. /\ MutationOrder \in Seq(Cells) /\ Len(MutationOrder) = n + two + n
      /\ \A j \in 1..(n + two) : MutationOrder[j] = (conf \o host)[j]
      /\ \A j \in 1..n : MutationOrder[n + two + j] = state[j]
  <2> DEFINE first == conf \o host
             k == n + two
  <2>1. /\ MutationOrder = first \o state /\ k \in Nat /\ n \in Nat
        /\ first \in Seq(Cells) /\ Len(first) = k /\ state \in Seq(Cells) /\ Len(state) = n
    BY <1>1, <1>3, <1>7, <1>8
  <2>. HIDE DEF first, k
  <2>2. MutationOrder \in Seq(Cells) /\ Len(MutationOrder) = k + n
    BY <2>1, Joined
  <2>3. \A j \in 1..k : MutationOrder[j] = first[j]
    BY <2>1, Joined
  <2>4. \A j \in 1..n : MutationOrder[k + j] = state[j]
    BY <2>1, Joined
  <2>. QED  BY <2>2, <2>3, <2>4 DEF first, k
<1>10. ASSUME NEW i \in 1..n
       PROVE  i \in 1..(n + two) /\ i \in 1..(n + two + n) /\ n + two + i \in 1..(n + two + n)
  BY <1>1, <1>4
<1>11. ASSUME NEW i \in 1..two
       PROVE  n + i \in 1..(n + two) /\ n + i \in 1..(n + two + n)
  BY <1>1, <1>4
<1>12. ASSUME NEW i \in 1..n
       PROVE  /\ MutationOrder[i] = <<Adapters[i], "conf">>
              /\ MutationOrder[n + two + i] = <<Adapters[i], "state">>
  BY <1>5, <1>8, <1>9, <1>10
<1>13. MutationOrder[n + 1] = <<"python", "state">> /\ MutationOrder[n + 2] = <<"numpy", "state">>
  <2>1. \A j \in 1..two : MutationOrder[n + j] = host[j]
    BY <1>8, <1>9, <1>11
  <2>. QED  BY <1>6, <2>1
<1>14. \A c \in Cells : \E j \in 1..(n + two + n) : MutationOrder[j] = c
  <2>1. \E j \in 1..(n + two + n) : MutationOrder[j] = <<"python", "state">>
    BY <1>6, <1>11, <1>13
  <2>2. \E j \in 1..(n + two + n) : MutationOrder[j] = <<"numpy", "state">>
    BY <1>6, <1>11, <1>13
  <2>3. ASSUME NEW i \in 1..n
        PROVE  /\ \E j \in 1..(n + two + n) : MutationOrder[j] = <<Adapters[i], "state">>
               /\ \E j \in 1..(n + two + n) : MutationOrder[j] = <<Adapters[i], "conf">>
    BY <1>10, <1>12
  <2>. QED  BY <2>1, <2>2, <2>3, CellCases DEF n
<1>. QED  BY <1>9, <1>14, ElementOfSeq, LenProperties

(* ... and in the order of rollback.                                        *)
LEMMA RollbackOrderFacts ==
    /\ Len(RollbackOrder) \in Nat
    /\ \A j \in 1..Len(RollbackOrder) : RollbackOrder[j] \in Cells
    /\ \A c \in Cells : \E j \in 1..Len(RollbackOrder) : RollbackOrder[j] = c
<1> DEFINE n == Len(Adapters)
           two == 2
           m == 2 * n
           host == << <<"python", "state">>, <<"numpy", "state">> >>
           back == [k \in 1..m |->
                      <<Adapters[n - (k - 1) \div 2], IF k % 2 = 1 THEN "state" ELSE "conf">>]
<1>1. RollbackOrder = host \o back
  BY DEF RollbackOrder
<1>2. n \in Nat /\ m \in Nat
  <2>1. n \in Nat
    BY AdapterFacts
  <2>. HIDE DEF n
  <2>. QED  BY <2>1
<1>3. back \in Seq(Cells) /\ Len(back) = m
  <2>1. ASSUME NEW k \in 1..m
        PROVE  n - (k - 1) \div 2 \in 1..n
    BY <1>2, Halves
  <2>2. back \in [1..m -> Cells]
    BY <2>1, AdapterFacts
  <2>. QED  BY <1>2, <2>2, FunctionIsSeq
<1>4. host \in Seq(Cells) /\ Len(host) = two /\ two \in Nat
  BY FixedCells
<1>5. /\ 1 \in 1..two /\ 2 \in 1..two
      /\ host[1] = <<"python", "state">> /\ host[2] = <<"numpy", "state">>
  OBVIOUS
<1>6. ASSUME NEW i \in 1..n
      PROVE  /\ \E k \in 1..m : back[k] = <<Adapters[i], "state">>
             /\ \E k \in 1..m : back[k] = <<Adapters[i], "conf">>
  <2> DEFINE d == 2 * (n - i)
  <2>1. /\ d + 1 \in 1..m /\ d + 2 \in 1..m
        /\ n - ((d + 1) - 1) \div 2 = i /\ (d + 1) % 2 = 1
        /\ n - ((d + 2) - 1) \div 2 = i /\ (d + 2) % 2 = 0
    BY <1>2, Backwards
  <2>. HIDE DEF d, m, n
  <2>2. back[d + 1] = <<Adapters[i], "state">> /\ back[d + 2] = <<Adapters[i], "conf">>
    BY <2>1
  <2>. HIDE DEF back
  <2>. QED  BY <2>1, <2>2
<1>. HIDE DEF n, m, two, host, back
<1>7. /\ RollbackOrder \in Seq(Cells) /\ Len(RollbackOrder) = two + m
      /\ \A j \in 1..two : RollbackOrder[j] = host[j]
      /\ \A j \in 1..m : RollbackOrder[two + j] = back[j]
  <2>1. RollbackOrder \in Seq(Cells) /\ Len(RollbackOrder) = two + m
    BY <1>1, <1>2, <1>3, <1>4, Joined
  <2>2. \A j \in 1..two : RollbackOrder[j] = host[j]
    BY <1>1, <1>2, <1>3, <1>4, Joined
  <2>3. \A j \in 1..m : RollbackOrder[two + j] = back[j]
    BY <1>1, <1>2, <1>3, <1>4, Joined
  <2>. QED  BY <2>1, <2>2, <2>3
<1>8. /\ \A j \in 1..m : two + j \in 1..(two + m)
      /\ \A j \in 1..two : j \in 1..(two + m)
  BY <1>2, <1>4
<1>9. \A c \in Cells : \E j \in 1..(two + m) : RollbackOrder[j] = c
  <2>1. ASSUME NEW i \in 1..n
        PROVE  /\ \E j \in 1..(two + m) : RollbackOrder[j] = <<Adapters[i], "state">>
               /\ \E j \in 1..(two + m) : RollbackOrder[j] = <<Adapters[i], "conf">>
    BY <1>6, <1>7, <1>8
  <2>2. RollbackOrder[1] = <<"python", "state">> /\ RollbackOrder[2] = <<"numpy", "state">>
    BY <1>5, <1>7
  <2>. QED  BY <1>5, <1>8, <2>1, <2>2, CellCases DEF n
<1>. QED  BY <1>7, <1>9, ElementOfSeq, LenProperties

----------------------------------------------------------------------------
(* Type correctness.                                                        *)

LEMMA ConfiguredFacts ==
    ASSUME NEW value \in Int
    PROVE  /\ Configured(value) \in [Cells -> Int]
           /\ \A c \in Cells : Configured(value)[c] = IF c[2] = "conf" THEN Seeded ELSE value
  BY DEF Configured, Seeded

LEMMA CapturedFacts ==
    ASSUME TypeOK
    PROVE  /\ Captured \in Bundles /\ Captured.generator = generator
           /\ \A c \in Cells : Captured.cell[c] = IF c[2] = "conf" THEN Seeded ELSE cell[c]
  BY DEF TypeOK, Captured, Bundles, Seeded

LEMMA WrittenFacts ==
    ASSUME TypeOK
    PROVE  /\ Written \in Bundles
           /\ source = "seed" => Written.generator = Seeded
                                 /\ \A c \in Cells : Written.cell[c] = Seeded
           /\ source = "archive" => Written.generator = Archived
                                    /\ Written.cell = Configured(Archived)
           /\ source = "previous" => Written = previous
<1>1. Seeded \in Int /\ Archived \in Int
  BY DEF Seeded, Archived
<1>2. CASE source = "seed"
  <2>1. Written = [cell |-> Configured(Seeded), generator |-> Seeded]
    BY <1>2 DEF Written
  <2>. QED  BY <1>1, <1>2, <2>1, ConfiguredFacts DEF Bundles
<1>3. CASE source = "archive"
  <2>1. Written = [cell |-> Configured(Archived), generator |-> Archived]
    BY <1>3 DEF Written
  <2>. QED  BY <1>1, <1>3, <2>1, ConfiguredFacts DEF Bundles
<1>4. CASE source = "previous"
  <2>1. Written = previous
    BY <1>4 DEF Written
  <2>. QED  BY <1>4, <2>1 DEF TypeOK
<1>. QED  BY <1>2, <1>3, <1>4 DEF TypeOK

LEMMA TearTypes ==
    ASSUME TypeOK, NEW c \in Cells, NEW value \in Int,
           MayTear(c, value) \/ cell' = [cell EXCEPT ![c] = value]
    PROVE  cell' \in [Cells -> Int]
  BY DEF MayTear, TypeOK

(* A manager counts its position from one.                                  *)
TypeInv == TypeOK /\ at # 0

LEMMA TypeInit == Init => TypeInv
<1> SUFFICES ASSUME Init PROVE TypeInv
  OBVIOUS
<1>1. Ambient \in Int /\ cell \in [Cells -> Int]
  BY DEF Init, Ambient
<1>2. handles \in Handles /\ target \in Handles /\ NoTarget \in Handles
  BY DEF Init, Handles, NoTarget
<1>3. previous \in Bundles /\ saved \in [handles : Handles, generator : Int]
  BY <1>1, <1>2 DEF Init, Bundles
<1>4. before \in [Cells -> Int] /\ at \in Nat /\ at # 0 /\ clock \in Nat /\ fails \in Nat
  BY <1>1 DEF Init
<1>. QED  BY <1>1, <1>2, <1>3, <1>4 DEF Init, TypeOK, TypeInv

LEMMA PositionFacts ==
    ASSUME TypeInv
    PROVE  /\ at <= Len(MutationOrder) => MutationOrder[at] \in Cells
           /\ at <= Len(RollbackOrder) => RollbackOrder[at] \in Cells
           /\ at + 1 \in Nat /\ at + 1 # 0
<1>1. at \in Nat /\ at # 0
  BY DEF TypeInv, TypeOK
<1>2. \A n \in Nat : at <= n => at \in 1..n
  BY <1>1
<1>3. at + 1 \in Nat /\ at + 1 # 0
  BY <1>1
<1>. QED  BY <1>2, <1>3, MutationOrderFacts, RollbackOrderFacts

LEMMA CounterTypes ==
    ASSUME TypeOK
    PROVE  Fails \/ UNCHANGED fails => fails' \in Nat
<1>1. fails \in Nat
  BY DEF TypeOK
<1>2. \A k : k \in Nat => k + 1 \in Nat
  OBVIOUS
<1>. QED  BY <1>1, <1>2 DEF Fails

LEMMA TypeStep == TypeInv /\ [Next]_vars => TypeInv'
<1> SUFFICES ASSUME TypeInv, [Next]_vars PROVE TypeInv'
  OBVIOUS
<1>. TypeOK /\ at # 0
  BY DEF TypeInv
<1>. USE DEF rng, txn, mgr
<1>1. CASE UNCHANGED vars
  BY <1>1 DEF vars, TypeOK, TypeInv
<1>2. CASE Initialize \/ Consume
  BY <1>2 DEF Initialize, Consume, Begin, TypeOK, TypeInv
<1>3. CASE Mutate
  <2>1. cell' \in [Cells -> Int]
    BY <1>3, PositionFacts, WrittenFacts DEF Mutate, TypeOK, Bundles
  <2>. QED  BY <1>3, <2>1, PositionFacts DEF Mutate, TypeOK, TypeInv
<1>4. CASE MutateFails
  <2> DEFINE c == MutationOrder[at]
  <2>1. c \in Cells /\ Written.cell[c] \in Int /\ MayTear(c, Written.cell[c])
    BY <1>4, PositionFacts, WrittenFacts DEF MutateFails, Bundles
  <2>2. cell' \in [Cells -> Int]
    BY <2>1, TearTypes
  <2>. QED  BY <1>4, <2>2, CounterTypes DEF MutateFails, TypeOK, TypeInv
<1>5. CASE Undo
  <2> DEFINE c == RollbackOrder[at]
  <2>1. c \in Cells /\ before[c] \in Int
    BY <1>5, PositionFacts DEF Undo, TypeOK
  <2>2. cell' = [cell EXCEPT ![c] = before[c]] \/ MayTear(c, before[c])
    BY <1>5 DEF Undo
  <2>3. cell' \in [Cells -> Int]
    BY <2>1, <2>2, TearTypes
  <2>4. stuck' \subseteq Cells \cup {Live} /\ (Fails \/ UNCHANGED fails)
    BY <1>5, <2>1 DEF Undo, TypeOK
  <2>. QED  BY <1>5, <2>3, <2>4, PositionFacts, CounterTypes DEF Undo, TypeOK, TypeInv
<1>6. CASE Finish
  <2>1. generator' \in Int
    BY <1>6, WrittenFacts DEF Finish, Bundles
  <2>2. CASE source = "seed"
    <3>1. Seeded \in Nat /\ handles' \in Handles
      BY <1>6, <2>2 DEF Finish, TypeOK, Handles, Seeded
    <3>. QED  BY <1>6, <2>1, <2>2, <3>1 DEF Finish, TypeOK, TypeInv
  <2>3. CASE source = "archive"
    BY <1>6, <2>1, <2>3 DEF Finish, TypeOK, TypeInv
  <2>4. CASE source = "previous"
    <3>1. stuck' \subseteq Cells \cup {Live}
      BY <1>6, <2>4 DEF Finish
    <3>. QED  BY <1>6, <2>1, <2>4, <3>1 DEF Finish, TypeOK, TypeInv
  <2>. QED  BY <2>2, <2>3, <2>4 DEF TypeOK
<1>7. CASE Raise
  BY <1>7 DEF Raise, AfterFailedConsume, TypeOK, TypeInv
<1>8. CASE Train
  <2>1. clock' \in Nat /\ clock' \in Int
    BY <1>8 DEF Train, TypeOK
  <2>2. handles' \in Handles
    BY <1>8, <2>1 DEF Train, TypeOK, Handles
  <2>3. cell' \in [Cells -> Int]
    BY <1>8, <2>1 DEF Train, TypeOK
  <2>. QED  BY <1>8, <2>1, <2>2, <2>3 DEF Train, TypeOK, TypeInv
<1>9. CASE Prepare \/ ApplyStage
  <2>1. target' \in Handles
    BY <1>9 DEF Prepare, ApplyStage, TypeOK, Handles
  <2>. QED  BY <1>9, <2>1 DEF Prepare, ApplyStage, TypeOK, TypeInv
<1>10. CASE ApplyFails
  BY <1>10, CounterTypes DEF ApplyFails, TypeOK, TypeInv
<1>11. CASE Commit
  BY <1>11, CapturedFacts DEF Commit, Swap, CaptureNow, TypeOK, TypeInv
<1>12. CASE CommitFails
  BY <1>12, CapturedFacts, CounterTypes DEF CommitFails, CaptureNow, TypeOK, TypeInv
<1>13. CASE ConsumeFails
  BY <1>13, CounterTypes DEF ConsumeFails, AfterFailedConsume, TypeOK, TypeInv
<1>14. CASE Revert
  <2>1. handles' \in Handles /\ generator' \in Int /\ saved' \in [handles : Handles, generator : Int]
    BY <1>14 DEF Revert, TypeOK, Handles, NoTarget, Ambient
  <2>2. stuck' \subseteq Cells \cup {Live} /\ (Fails \/ UNCHANGED fails)
    BY <1>14 DEF Revert, TypeOK
  <2>. QED  BY <1>14, <2>1, <2>2, CounterTypes DEF Revert, TypeOK, TypeInv
<1>15. CASE Abort
  BY <1>15 DEF Abort, TypeOK, TypeInv, NoTarget, Handles
<1>. QED  BY <1>1, <1>2, <1>3, <1>4, <1>5, <1>6, <1>7, <1>8, <1>9, <1>10, <1>11, <1>12,
             <1>13, <1>14, <1>15 DEF Next

(* Every variable of manager, transaction and runtime keeps its type,       *)
(* whatever fails.                                                          *)
THEOREM Typing == Spec => []TypeOK
<1>1. Spec => []TypeInv
  BY TypeInit, TypeStep, PTL DEF Spec
<1>2. TypeInv => TypeOK
  BY DEF TypeInv
<1>. QED  BY <1>1, <1>2, PTL

----------------------------------------------------------------------------
(* Where a call can be, and what it may rely on there.                      *)
Writing == pc \in {"set", "undo"}
Phases ==
    /\ committed => pc = "idle"
    /\ ~initialized => /\ pc \in {"idle", "set", "undo"} /\ ~committed /\ clock = 0
                       /\ handles = [of |-> "run", n |-> 0] /\ generator = Ambient
    /\ Writing => (source = "seed" <=> ~initialized)
    /\ pc = "consume" => source \in {"archive", "previous"}
    /\ pc = "apply" => target.of = "archive" /\ ~prepared
    /\ prepared /\ ~aborted => target = [of |-> "archive", n |-> Len(Stages)]

(* The state of the run is in the cells, or in what the call will put back. *)
Keeps(state) == \A c \in Cells \ stuck : state[c] = Own(c)

Elsewhere == pc \in {"consume", "set", "undo", "revert"}
Recoverable ==
    /\ pc \in {"idle", "apply", "consume", "revert"} => Keeps(cell)
    /\ pc \in {"idle", "apply"} /\ Live \notin stuck =>
          /\ handles = [of |-> "run", n |-> clock]
          /\ generator = IF initialized THEN clock ELSE Ambient
    /\ Elsewhere /\ initialized /\ Live \notin stuck =>
          saved = [handles |-> [of |-> "run", n |-> clock], generator |-> clock]
    /\ Writing => Keeps(before)
    /\ Elsewhere /\ initialized =>
          /\ Keeps(previous.cell)
          /\ \A c \in Cells : c[2] = "conf" => previous.cell[c] = Seeded

(* How far the manager has come.                                            *)
Progress ==
    /\ pc = "set" => \A j \in 1..Len(MutationOrder) :
          j < at => cell[MutationOrder[j]] = Written.cell[MutationOrder[j]]
    /\ pc = "undo" => \A j \in 1..Len(RollbackOrder) :
          j < at => RollbackOrder[j] \in stuck
                    \/ cell[RollbackOrder[j]] = before[RollbackOrder[j]]

(* What a commit is about to publish, and has published.                    *)
Archiving ==
    pc \in {"consume", "set", "undo"} /\ source = "archive" /\ prepared
    => handles = [of |-> "archive", n |-> Len(Stages)]

RInv ==
    /\ TypeInv /\ Phases /\ Archiving /\ CommitIsComplete
    /\ ~committed => Recoverable /\ Progress

LEMMA RInvInit == Init => RInv
<1> SUFFICES ASSUME Init PROVE RInv
  OBVIOUS
<1>1. TypeInv
  BY TypeInit
<1>2. pc = "idle" /\ ~committed /\ ~initialized /\ ~prepared
      /\ \A c \in Cells : cell[c] = Ambient
  BY DEF Init
<1>3. Phases
  BY <1>2 DEF Init, Phases, Writing
<1>4. Recoverable
  BY <1>2 DEF Init, Recoverable, Elsewhere, Writing, Keeps, Own
<1>. QED  BY <1>1, <1>2, <1>3, <1>4 DEF RInv, Archiving, CommitIsComplete, Progress

LEMMA AllWritten ==
    ASSUME RInv, ~committed, pc = "set", at > Len(MutationOrder)
    PROVE  \A c \in Cells : cell[c] = Written.cell[c]
<1>1. at \in Nat /\ \A j \in 1..Len(MutationOrder) : j < at
  <2>1. at \in Nat /\ Len(MutationOrder) \in Nat
    BY MutationOrderFacts DEF RInv, TypeInv, TypeOK
  <2>. QED  BY <2>1
<1>. QED  BY <1>1, MutationOrderFacts DEF RInv, Progress

LEMMA AllUndone ==
    ASSUME RInv, ~committed, pc = "undo", at > Len(RollbackOrder)
    PROVE  \A c \in Cells \ stuck : cell[c] = before[c]
<1>1. at \in Nat /\ \A j \in 1..Len(RollbackOrder) : j < at
  <2>1. at \in Nat /\ Len(RollbackOrder) \in Nat
    BY RollbackOrderFacts DEF RInv, TypeInv, TypeOK
  <2>. QED  BY <2>1
<1>. QED  BY <1>1, RollbackOrderFacts DEF RInv, Progress

LEMMA Advance ==
    ASSUME NEW n \in Nat
    PROVE  \A j \in Nat : j < n + 1 => j < n \/ j = n
  OBVIOUS

----------------------------------------------------------------------------
(* One lemma per step of the manager that writes cells.                     *)

LEMMA MutateKeeps ==
    ASSUME RInv, Mutate
    PROVE  RInv'
<1>. USE DEF txn, rng
<1>1. TypeInv' /\ TypeInv
  BY TypeStep DEF RInv, Next
<1>2. pc = "set" /\ pc' = "set" /\ ~committed /\ ~committed'
  BY DEF Mutate, RInv, Phases
<1>3. Phases' /\ Archiving' /\ CommitIsComplete'
  BY <1>2 DEF Mutate, RInv, Phases, Archiving, CommitIsComplete, Writing
<1>4. Recoverable'
  BY <1>2 DEF Mutate, RInv, Recoverable, Elsewhere, Writing, Keeps, Own
<1>5. Progress'
  <2>1. Written' = Written /\ stuck' = stuck /\ before' = before /\ at' = at + 1
    BY DEF Mutate, Written
  <2>2. MutationOrder[at] \in Cells /\ at \in Nat
    BY <1>1, PositionFacts DEF Mutate, TypeInv, TypeOK
  <2>3. cell' = [cell EXCEPT ![MutationOrder[at]] = Written.cell[MutationOrder[at]]]
        /\ DOMAIN cell = Cells
    BY <1>1 DEF Mutate, TypeInv, TypeOK
  <2>4. ASSUME NEW j \in 1..Len(MutationOrder), j < at + 1
        PROVE  cell'[MutationOrder[j]] = Written.cell[MutationOrder[j]]
    <3>1. j < at \/ j = at
      BY <2>2, <2>4, Advance
    <3>2. MutationOrder[j] \in Cells
      BY MutationOrderFacts
    <3>3. j < at => cell[MutationOrder[j]] = Written.cell[MutationOrder[j]]
      BY <1>2 DEF RInv, Progress
    <3>. QED  BY <2>2, <2>3, <3>1, <3>2, <3>3
  <2>5. MutationOrder' = MutationOrder
    BY DEF MutationOrder
  <2>. QED  BY <1>2, <2>1, <2>4, <2>5 DEF Progress
<1>. QED  BY <1>1, <1>2, <1>3, <1>4, <1>5 DEF RInv

LEMMA UndoKeeps ==
    ASSUME RInv, Undo
    PROVE  RInv'
<1>. USE DEF txn, rng
<1>1. TypeInv' /\ TypeInv
  BY TypeStep DEF RInv, Next
<1>2. pc = "undo" /\ pc' = "undo" /\ ~committed /\ ~committed'
  BY DEF Undo, RInv, Phases
<1>3. Phases' /\ Archiving' /\ CommitIsComplete'
  BY <1>2 DEF Undo, RInv, Phases, Archiving, CommitIsComplete, Writing
<1> DEFINE c == RollbackOrder[at]
<1>4. c \in Cells /\ c # Live /\ at \in Nat /\ DOMAIN cell = Cells
  BY <1>1, PositionFacts, FixedCells DEF Undo, TypeInv, TypeOK
<1>5. \/ cell' = [cell EXCEPT ![c] = before[c]] /\ stuck' = stuck
      \/ (cell' = cell \/ cell' = [cell EXCEPT ![c] = before[c]]) /\ stuck' = stuck \cup {c}
  BY DEF Undo, MayTear
<1>6. before' = before /\ at' = at + 1 /\ previous' = previous /\ saved' = saved
      /\ clock' = clock /\ initialized' = initialized
  BY DEF Undo
<1>. HIDE DEF c
<1>7. Recoverable'
  <2>1. stuck \subseteq stuck' /\ (Live \in stuck' <=> Live \in stuck)
    BY <1>4, <1>5
  <2>. QED  BY <1>2, <1>6, <2>1 DEF RInv, Recoverable, Elsewhere, Writing, Keeps, Own
<1>8. Progress'
  <2>1. ASSUME NEW j \in 1..Len(RollbackOrder), j < at + 1
        PROVE  RollbackOrder[j] \in stuck' \/ cell'[RollbackOrder[j]] = before[RollbackOrder[j]]
    <3>1. j < at \/ j = at
      BY <1>4, <2>1, Advance
    <3>2. RollbackOrder[j] \in Cells
      BY RollbackOrderFacts
    <3>3. CASE j < at
      <4>1. RollbackOrder[j] \in stuck \/ cell[RollbackOrder[j]] = before[RollbackOrder[j]]
        BY <1>2, <3>3 DEF RInv, Progress
      <4>. QED  BY <1>4, <1>5, <3>2, <4>1
    <3>4. CASE j = at
      <4>1. RollbackOrder[j] = c
        BY <3>4 DEF c
      <4>. QED  BY <1>4, <1>5, <4>1
    <3>. QED  BY <3>1, <3>3, <3>4
  <2>2. RollbackOrder' = RollbackOrder
    BY DEF RollbackOrder
  <2>. QED  BY <1>2, <1>6, <2>1, <2>2 DEF Progress
<1>. QED  BY <1>1, <1>2, <1>3, <1>7, <1>8 DEF RInv

LEMMA FinishKeeps ==
    ASSUME RInv, Finish
    PROVE  RInv'
<1>. USE DEF txn, rng, mgr
<1>1. TypeInv' /\ TypeInv
  BY TypeStep DEF RInv, Next
<1>2. pc = "set" /\ ~committed
  BY DEF Finish, RInv, Phases
<1>3. \A c \in Cells : cell[c] = Written.cell[c]
  BY <1>2, AllWritten DEF Finish
<1>4. CASE source = "seed"
  <2>1. /\ pc' = "idle" /\ initialized' /\ ~committed' /\ clock' = Seeded /\ stuck' = {}
        /\ handles' = [handles EXCEPT !.n = Seeded] /\ generator' = Seeded /\ cell' = cell
        /\ target' = target /\ prepared' = prepared /\ aborted' = aborted
    BY <1>1, <1>2, <1>4, WrittenFacts DEF Finish, TypeInv
  <2>2. handles = [of |-> "run", n |-> 0]
    BY <1>2, <1>4 DEF RInv, Phases, Writing
  <2>3. handles' = [of |-> "run", n |-> Seeded]
    BY <2>1, <2>2
  <2>4. \A c \in Cells : cell'[c] = Seeded
    BY <1>1, <1>3, <1>4, <2>1, WrittenFacts DEF TypeInv
  <2>5. Phases'
    BY <1>2, <2>1 DEF RInv, Phases, Writing
  <2>6. Recoverable'
    BY <2>1, <2>3, <2>4 DEF Recoverable, Elsewhere, Writing, Keeps, Own
  <2>. QED  BY <1>1, <2>1, <2>5, <2>6 DEF RInv, Archiving, CommitIsComplete, Progress
<1>5. CASE source = "archive"
  <2>1. /\ pc' = "idle" /\ committed' /\ initialized' = initialized /\ handles' = handles
        /\ generator' = Archived /\ cell' = cell /\ prepared' = prepared
        /\ target' = target /\ aborted' = aborted
    BY <1>1, <1>5, WrittenFacts DEF Finish, TypeInv
  <2>2. initialized
    BY <1>2, <1>5 DEF RInv, Phases, Writing
  <2>3. prepared => handles = [of |-> "archive", n |-> Len(Stages)]
    BY <1>2, <1>5 DEF RInv, Archiving
  <2>4. \A c \in Cells : cell'[c] = Configured(Archived)[c]
    BY <1>1, <1>3, <1>5, <2>1, WrittenFacts DEF TypeInv
  <2>5. Phases'
    BY <1>2, <2>1, <2>2 DEF RInv, Phases, Writing
  <2>6. CommitIsComplete'
    BY <2>1, <2>3, <2>4 DEF CommitIsComplete, Configured
  <2>. QED  BY <1>1, <2>1, <2>5, <2>6 DEF RInv, Archiving
<1>6. CASE source = "previous"
  <2>1. /\ pc' = "revert" /\ ~committed' /\ initialized' = initialized /\ handles' = handles
        /\ cell' = cell /\ prepared' = prepared /\ clock' = clock /\ previous' = previous
        /\ target' = target /\ aborted' = aborted /\ saved' = saved
        /\ stuck' = {c \in stuck \cap Cells : c[2] = "state" /\ previous.cell[c] # clock}
                    \cup (stuck \cap {Live})
    BY <1>2, <1>6 DEF Finish
  <2>2. initialized
    BY <1>2, <1>6 DEF RInv, Phases, Writing
  <2>3. Keeps(previous.cell) /\ \A c \in Cells : c[2] = "conf" => previous.cell[c] = Seeded
    BY <1>2, <2>2 DEF RInv, Recoverable, Elsewhere
  <2>4. Live \in stuck' <=> Live \in stuck
    BY <2>1, FixedCells
  <2>5. ASSUME NEW c \in Cells \ stuck'
        PROVE  previous.cell[c] = Own(c)
    <3>1. CASE c \notin stuck
      BY <2>3, <3>1 DEF Keeps
    <3>2. CASE c \in stuck /\ c[2] = "conf"
      BY <2>2, <2>3, <3>2 DEF Own
    <3>3. CASE c \in stuck /\ c[2] = "state"
      BY <2>1, <2>2, <3>3 DEF Own
    <3>. QED  BY <3>1, <3>2, <3>3, FixedCells
  <2>6. \A c \in Cells : cell[c] = previous.cell[c]
    BY <1>1, <1>3, <1>6, WrittenFacts DEF TypeInv
  <2>7. Keeps(cell)' /\ Keeps(previous.cell)'
    BY <2>1, <2>5, <2>6 DEF Keeps, Own
  <2>8. Phases'
    BY <1>2, <2>1, <2>2 DEF RInv, Phases, Writing
  <2>9. Live \notin stuck =>
           saved = [handles |-> [of |-> "run", n |-> clock], generator |-> clock]
    BY <1>2, <2>2 DEF RInv, Recoverable, Elsewhere
  <2>10. Recoverable'
    BY <2>1, <2>3, <2>4, <2>7, <2>9 DEF Recoverable, Elsewhere, Writing
  <2>. QED  BY <1>1, <2>1, <2>8, <2>10 DEF RInv, Archiving, CommitIsComplete, Progress
<1>. QED  BY <1>1, <1>4, <1>5, <1>6 DEF TypeInv, TypeOK

----------------------------------------------------------------------------
(* The steps of the manager that write no cell, or only one more in part.   *)

LEMMA BeginKeeps ==
    ASSUME RInv, Initialize \/ Consume
    PROVE  RInv'
<1>. USE DEF txn, rng
<1>1. TypeInv'
  BY TypeStep DEF RInv, Next
<1>2. pc' = "set" /\ ~committed /\ ~committed' /\ at' = 1 /\ before' = cell
      /\ Keeps(cell)
  BY DEF Initialize, Consume, Begin, RInv, Phases, Recoverable
<1>3. Phases' /\ Archiving' /\ CommitIsComplete'
  BY <1>2 DEF Initialize, Consume, Begin, RInv, Phases, Archiving, CommitIsComplete, Writing
<1>4. Keeps(before)'
  BY <1>2 DEF Initialize, Consume, Keeps, Own
<1>5. Recoverable'
  BY <1>2, <1>4 DEF Initialize, Consume, RInv, Recoverable, Elsewhere, Writing, Keeps, Own
<1>6. Progress'
  BY <1>2 DEF Progress
<1>. QED  BY <1>1, <1>2, <1>3, <1>5, <1>6 DEF RInv

LEMMA MutateFailsKeeps ==
    ASSUME RInv, MutateFails
    PROVE  RInv'
<1>. USE DEF txn, rng
<1>1. TypeInv'
  BY TypeStep DEF RInv, Next
<1>2. pc = "set" /\ pc' = "undo" /\ ~committed /\ ~committed' /\ at' = 1
  BY DEF MutateFails, RInv, Phases
<1>3. Phases' /\ Archiving' /\ CommitIsComplete'
  BY <1>2 DEF MutateFails, RInv, Phases, Archiving, CommitIsComplete, Writing
<1>4. Recoverable'
  BY <1>2 DEF MutateFails, RInv, Recoverable, Elsewhere, Writing, Keeps, Own
<1>5. Progress'
  BY <1>2 DEF Progress
<1>. QED  BY <1>1, <1>2, <1>3, <1>4, <1>5 DEF RInv

LEMMA RaiseKeeps ==
    ASSUME RInv, Raise
    PROVE  RInv'
<1>. USE DEF txn, rng
<1>1. TypeInv'
  BY TypeStep DEF RInv, Next
<1>2. pc = "undo" /\ ~committed /\ ~committed' /\ UNCHANGED <<cell, stuck, clock, initialized>>
  BY DEF Raise, RInv, Phases
<1>3. Keeps(cell)'
  <2>1. \A c \in Cells \ stuck : cell[c] = before[c]
    BY <1>2, AllUndone DEF Raise
  <2>2. Keeps(before)
    BY <1>2 DEF RInv, Recoverable, Writing
  <2>. QED  BY <1>2, <2>1, <2>2 DEF Keeps, Own
<1>4. CASE source = "seed"
  <2>1. pc' = "idle" /\ ~initialized
    BY <1>2, <1>4 DEF Raise, RInv, Phases, Writing
  <2>2. Phases' /\ Archiving' /\ CommitIsComplete'
    BY <1>2, <2>1 DEF Raise, RInv, Phases, Archiving, CommitIsComplete, Writing
  <2>3. Recoverable'
    BY <1>2, <1>3, <2>1 DEF Raise, RInv, Phases, Recoverable, Elsewhere, Writing
  <2>. QED  BY <1>1, <1>2, <2>1, <2>2, <2>3 DEF RInv, Progress
<1>5. CASE source # "seed"
  <2>1. pc' \in {"consume", "revert"} /\ source' = "previous" /\ initialized
    BY <1>2, <1>5 DEF Raise, AfterFailedConsume, RInv, Phases, Writing
  <2>2. Phases' /\ Archiving' /\ CommitIsComplete'
    BY <1>2, <1>5, <2>1 DEF Raise, RInv, Phases, Archiving, CommitIsComplete, Writing
  <2>3. Recoverable'
    BY <1>2, <1>3, <1>5, <2>1
       DEF Raise, RInv, Recoverable, Elsewhere, Writing, Keeps, Own
  <2>. QED  BY <1>1, <1>2, <2>1, <2>2, <2>3 DEF RInv, Progress
<1>. QED  BY <1>4, <1>5

LEMMA ConsumeFailsKeeps ==
    ASSUME RInv, ConsumeFails
    PROVE  RInv'
<1>. USE DEF txn, rng
<1>1. TypeInv'
  BY TypeStep DEF RInv, Next
<1>2. pc = "consume" /\ pc' \in {"consume", "revert"} /\ ~committed /\ ~committed'
      /\ source' = "previous" /\ initialized
  BY DEF ConsumeFails, AfterFailedConsume, RInv, Phases
<1>3. Phases' /\ Archiving' /\ CommitIsComplete'
  BY <1>2 DEF ConsumeFails, RInv, Phases, Archiving, CommitIsComplete, Writing
<1>4. Recoverable'
  BY <1>2 DEF ConsumeFails, RInv, Recoverable, Elsewhere, Writing, Keeps, Own
<1>. QED  BY <1>1, <1>2, <1>3, <1>4 DEF RInv, Progress

----------------------------------------------------------------------------
(* The steps of the caller and of the transaction.                          *)

LEMMA TrainKeeps ==
    ASSUME RInv, Train
    PROVE  RInv'
<1>. USE DEF txn, rng, mgr
<1>1. TypeInv /\ TypeInv'
  BY TypeStep DEF RInv, Next
<1>2. pc = "idle" /\ pc' = "idle" /\ ~committed /\ ~committed' /\ initialized /\ initialized'
      /\ stuck' = stuck
  BY DEF Train
<1>3. Phases' /\ Archiving' /\ CommitIsComplete'
  BY <1>2 DEF Train, RInv, Phases, Archiving, CommitIsComplete, Writing
<1>4. Keeps(cell)'
  <2>1. Keeps(cell)
    BY <1>2 DEF RInv, Recoverable
  <2>2. ASSUME NEW c \in Cells \ stuck
        PROVE  cell'[c] = IF c[2] = "conf" THEN Seeded ELSE clock'
    BY <1>2, <2>1 DEF Train, Keeps, Own
  <2>. QED  BY <1>2, <2>2 DEF Keeps, Own
<1>5. handles' = [of |-> "run", n |-> clock'] /\ generator' = clock'
  BY <1>1 DEF Train, TypeInv, TypeOK, Handles
<1>6. Recoverable'
  BY <1>2, <1>4, <1>5 DEF Recoverable, Elsewhere, Writing
<1>. QED  BY <1>1, <1>2, <1>3, <1>6 DEF RInv, Progress

LEMMA ApplyKeeps ==
    ASSUME RInv, Prepare \/ ApplyStage \/ ApplyFails
    PROVE  RInv'
<1>. USE DEF txn, rng
<1>1. TypeInv /\ TypeInv'
  BY TypeStep DEF RInv, Next
<1>2. pc \in {"idle", "apply"} /\ pc' \in {"idle", "apply"} /\ ~committed /\ ~committed'
      /\ initialized /\ initialized'
  BY DEF Prepare, IsOpen, ApplyStage, ApplyFails, RInv, Phases
<1>3. Phases'
  <2>1. CASE Prepare \/ ApplyFails
    BY <1>2, <2>1 DEF Prepare, ApplyFails, RInv, Phases, Writing
  <2>2. CASE ApplyStage
    <3>1. target = [of |-> "archive", n |-> target.n] /\ pc = "apply" /\ ~prepared
      BY <1>1, <2>2 DEF ApplyStage, RInv, Phases, TypeInv, TypeOK, Handles
    <3>2. target' = [of |-> "archive", n |-> target.n + 1]
      BY <2>2, <3>1 DEF ApplyStage
    <3>3. \/ pc' = "apply" /\ ~prepared'
          \/ pc' = "idle" /\ target' = [of |-> "archive", n |-> Len(Stages)]
      BY <2>2, <3>1, <3>2 DEF ApplyStage
    <3>. QED  BY <1>2, <3>2, <3>3 DEF Phases, Writing
  <2>. QED  BY <2>1, <2>2
<1>4. Archiving' /\ CommitIsComplete'
  BY <1>2 DEF Archiving, CommitIsComplete
<1>5. Recoverable'
  BY <1>2 DEF Prepare, ApplyStage, ApplyFails, RInv, Recoverable, Elsewhere, Writing, Keeps, Own
<1>. QED  BY <1>1, <1>2, <1>3, <1>4, <1>5 DEF RInv, Progress

LEMMA CommitKeeps ==
    ASSUME RInv, Commit
    PROVE  RInv'
<1>. USE DEF txn, rng
<1>1. TypeInv /\ TypeInv'
  BY TypeStep DEF RInv, Next
<1>2. /\ pc = "idle" /\ pc' = "consume" /\ ~committed /\ ~committed'
      /\ initialized /\ initialized' /\ ~aborted /\ source' = "archive"
      /\ stuck' = stuck /\ clock' = clock /\ cell' = cell
      /\ prepared' = prepared /\ handles' = target /\ previous' = Captured
      /\ saved' = [handles |-> handles, generator |-> generator]
  BY DEF Commit, IsOpen, Swap, CaptureNow
<1>3. Phases' /\ Archiving' /\ CommitIsComplete'
  <2>1. target' = target /\ aborted' = aborted
    BY DEF Commit
  <2>. QED  BY <1>2, <2>1 DEF RInv, Phases, Archiving, CommitIsComplete, Writing
<1>4. Keeps(cell) /\ (Live \notin stuck =>
         handles = [of |-> "run", n |-> clock] /\ generator = clock)
  BY <1>2 DEF RInv, Recoverable
<1>5. \A c \in Cells : Captured.cell[c] = IF c[2] = "conf" THEN Seeded ELSE cell[c]
  BY DEF Captured
<1>6. Keeps(previous.cell)'
  BY <1>2, <1>4, <1>5 DEF Keeps, Own
<1>7. Keeps(cell)'
  BY <1>2, <1>4 DEF Keeps, Own
<1>8. Recoverable'
  BY <1>2, <1>4, <1>5, <1>6, <1>7 DEF Recoverable, Elsewhere, Writing
<1>. QED  BY <1>1, <1>2, <1>3, <1>8 DEF RInv, Progress

LEMMA CommitFailsKeeps ==
    ASSUME RInv, CommitFails
    PROVE  RInv'
<1>. USE DEF txn, rng, mgr
<1>1. TypeInv'
  BY TypeStep DEF RInv, Next
<1>2. pc = "idle" /\ pc' = "idle" /\ ~committed /\ ~committed'
  BY DEF CommitFails, IsOpen
<1>3. Phases' /\ Archiving' /\ CommitIsComplete'
  BY <1>2 DEF CommitFails, RInv, Phases, Archiving, CommitIsComplete, Writing
<1>4. Recoverable'
  BY <1>2 DEF CommitFails, RInv, Recoverable, Elsewhere, Writing, Keeps, Own
<1>. QED  BY <1>1, <1>2, <1>3, <1>4 DEF RInv, Progress

LEMMA RevertKeeps ==
    ASSUME RInv, Revert
    PROVE  RInv'
<1>. USE DEF txn, rng, mgr
<1>1. TypeInv /\ TypeInv'
  BY TypeStep DEF RInv, Next
<1>2. pc = "revert" /\ pc' = "idle" /\ ~committed /\ ~committed' /\ initialized /\ initialized'
      /\ clock' = clock /\ cell' = cell
  BY DEF Revert, RInv, Phases
<1>3. Phases' /\ Archiving' /\ CommitIsComplete'
  BY <1>2 DEF Revert, RInv, Phases, Archiving, CommitIsComplete, Writing
<1>4. \/ stuck' = stuck /\ handles' = saved.handles /\ generator' = saved.generator
      \/ stuck' = stuck \cup {Live}
  BY DEF Revert
<1>5. Keeps(cell)'
  <2>1. Keeps(cell)
    BY <1>2 DEF RInv, Recoverable
  <2>. QED  BY <1>2, <1>4, <2>1 DEF Keeps, Own
<1>6. Live \notin stuck' => handles' = [of |-> "run", n |-> clock] /\ generator' = clock
  <2>1. Live \notin stuck =>
           saved = [handles |-> [of |-> "run", n |-> clock], generator |-> clock]
    BY <1>2 DEF RInv, Recoverable, Elsewhere
  <2>. QED  BY <1>4, <2>1
<1>7. Recoverable'
  BY <1>2, <1>5, <1>6 DEF Recoverable, Elsewhere, Writing
<1>. QED  BY <1>1, <1>2, <1>3, <1>7 DEF RInv, Progress

(* Abort is the only step after a commit; it changes no live state.         *)
LEMMA AbortKeeps ==
    ASSUME RInv, Abort \/ UNCHANGED vars
    PROVE  RInv'
<1>. USE DEF txn, rng, mgr
<1>1. TypeInv'
  BY TypeStep DEF RInv, Next
<1>2. CASE Abort
  <2>1. pc = "idle" /\ pc' = "idle" /\ committed' = committed
    BY <1>2 DEF Abort
  <2>2. Phases' /\ Archiving' /\ CommitIsComplete'
    BY <1>2, <2>1 DEF Abort, RInv, Phases, Archiving, CommitIsComplete, Writing
  <2>3. ~committed => Recoverable'
    BY <1>2, <2>1 DEF Abort, RInv, Recoverable, Elsewhere, Writing, Keeps, Own
  <2>. QED  BY <1>1, <2>1, <2>2, <2>3 DEF RInv, Progress
<1>3. CASE UNCHANGED vars
  <2>1. Phases' /\ Archiving' /\ CommitIsComplete'
    BY <1>3 DEF vars, RInv, Phases, Archiving, CommitIsComplete, Writing
  <2>2. ~committed => Recoverable'
    BY <1>3 DEF vars, RInv, Recoverable, Elsewhere, Writing, Keeps, Own
  <2>3. ~committed => Progress'
    BY <1>3 DEF vars, RInv, Progress, MutationOrder, RollbackOrder, Written
  <2>4. committed' = committed
    BY <1>3 DEF vars
  <2>. QED  BY <1>1, <2>1, <2>2, <2>3, <2>4 DEF RInv
<1>. QED  BY <1>2, <1>3

LEMMA RInvStep == RInv /\ [Next]_vars => RInv'
BY BeginKeeps, MutateKeeps, MutateFailsKeeps, UndoKeeps, FinishKeeps, RaiseKeeps,
   TrainKeeps, ApplyKeeps, CommitKeeps, CommitFailsKeeps, ConsumeFailsKeeps,
   RevertKeeps, AbortKeeps DEF Next

LEMMA RInvAlways == Spec => []RInv
BY RInvInit, RInvStep, PTL DEF Spec

(* Whatever fails in initialize(), prepare() or commit(), and however often *)
(* the caller tries again or trains on, the live state is the one of the    *)
(* run except where an undo has itself failed (restore.py, manager.py).     *)
THEOREM FailureIsUndone == Spec => []FailureLeavesLiveUntouched
<1>1. RInv => FailureLeavesLiveUntouched
  BY DEF RInv, Recoverable, Keeps, FailureLeavesLiveUntouched
<1>. QED  BY <1>1, RInvAlways, PTL

(* A commit() that returns after a prepare() that returned has published    *)
(* all of the archive: handles, cells, configuration and the generator of   *)
(* the manager (restore.py, smoke/state.py).                                *)
THEOREM CommitCompletes == Spec => []CommitIsComplete
<1>1. RInv => CommitIsComplete
  BY DEF RInv
<1>. QED  BY <1>1, RInvAlways, PTL
=============================================================================
