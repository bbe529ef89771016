-------------------------- MODULE MicroRetryProofs ----------------------------
(***************************************************************************)
(* Every transaction of the micro benchmark is run as itself, and as often *)
(* as it has to be, for any number of transactions and epochs.             *)
(***************************************************************************)
EXTENDS MicroRetry, FiniteSetTheorems, TLAPS

(* Counting the members below each member numbers a set from zero on.      *)
LEMMA Numbering ==
  ASSUME NEW n \in Nat, NEW S \in SUBSET (0 .. n - 1)
  PROVE  LET Below(t) == Cardinality({s \in S : s < t})
         IN  /\ Cardinality(S) \in 0 .. n
             /\ \A t \in S : Below(t) \in 0 .. Cardinality(S) - 1
             /\ \A t, u \in S : Below(t) = Below(u) => t = u
             /\ \A i \in 0 .. Cardinality(S) - 1 : \E t \in S : Below(t) = i
<1> DEFINE Low(t) == {s \in S : s < t}
           Below(t) == Cardinality(Low(t))
           N == Cardinality(S)
<1>1. IsFiniteSet(S) /\ N \in Nat /\ N <= n
  <2>1. IsFiniteSet(0 .. n - 1) /\ Cardinality(0 .. n - 1) = n
    BY FS_Interval, SMT
  <2>2. IsFiniteSet(S) /\ N <= n
    BY <2>1, FS_Subset
  <2>3. QED
    BY <2>2, FS_CardinalityType
<1>2. ASSUME NEW A \in SUBSET S, NEW B \in SUBSET A, NEW x \in A \ B
      PROVE  /\ Cardinality(A) \in Nat /\ Cardinality(B) \in Nat
             /\ Cardinality(B) < Cardinality(A)
  <2>1. IsFiniteSet(A)
    BY <1>1, FS_Subset
  <2>2. IsFiniteSet(B) /\ Cardinality(B) <= Cardinality(A) /\ Cardinality(A) # Cardinality(B)
    BY <2>1, FS_Subset
  <2>3. QED
    BY <2>1, <2>2, FS_CardinalityType, SMT
<1>3. ASSUME NEW t \in S PROVE Below(t) \in 0 .. N - 1
  <2>1. Low(t) \in SUBSET S /\ S \in SUBSET S /\ t \in S \ Low(t)
    <3>1. ~(t < t)
      BY SMT
    <3>2. QED
      BY <3>1, Zenon
  <2> HIDE DEF Low
  <2>2. QED
    BY <1>2, <2>1, <1>1, SMT
<1>4. ASSUME NEW t \in S, NEW u \in S, t < u PROVE Below(t) < Below(u)
  <2>1. Low(u) \in SUBSET S
    OBVIOUS
  <2>2. Low(t) \in SUBSET Low(u)
    <3>1. \A s \in S : s < t => s < u
      BY <1>4, SMT
    <3>2. QED
      BY <3>1, Zenon
  <2>3. t \in Low(u) \ Low(t)
    BY <1>4, SMT
  <2> HIDE DEF Low
  <2>4. QED
    BY <1>2, <2>1, <2>2, <2>3
<1>5. ASSUME NEW t \in S, NEW u \in S, Below(t) = Below(u) PROVE t = u
  <2> HIDE DEF Below, N
  <2>1. Below(t) \in Int /\ Below(u) \in Int
    BY <1>3, <1>1, SMT
  <2>2. ~(t < u) /\ ~(u < t)
    BY <1>4, <1>5, <2>1, SMT
  <2>3. QED
    BY <2>2, SMT
<1>6. ASSUME NEW i \in 0 .. N - 1 PROVE \E t \in S : Below(t) = i
  <2> DEFINE f == [t \in S |-> Below(t)]
             T == 0 .. N - 1
  <2>1. f \in Injection(S, T)
    <3> HIDE DEF Below, N
    <3>1. f \in [S -> T]
      BY <1>3
    <3>2. \A t, u \in S : f[t] = f[u] => t = u
      BY <1>5
    <3>3. QED
      BY <3>1, <3>2, Zenon DEF Injection, IsInjective
  <2>2. IsFiniteSet(T) /\ Cardinality(T) = N
    BY <1>1, FS_Interval, SMT
  <2>3. f \in Surjection(S, T)
    <3> HIDE DEF f, T
    <3>1. QED
      BY <2>1, <2>2, FS_Injection
  <2>4. QED
    <3> HIDE DEF Below, N
    <3>1. QED
      BY <2>3, Zenon DEF Surjection
<1>7. N \in 0 .. n
  BY <1>1, SMT
<1>8. QED
  BY <1>3, <1>5, <1>6, <1>7, Zenon

-----------------------------------------------------------------------------
(* The two sets of arrays change roles from epoch to epoch.                *)
LEMMA TwoSets ==
  ASSUME epoch \in Nat
  PROVE  /\ Curr \in 0 .. 1 /\ Prev \in 0 .. 1 /\ Curr # Prev
         /\ epoch' = epoch + 1 => Curr' = Prev /\ Prev' = Curr
BY SMT DEF Curr, Prev

(* The threads: the first half for the previous epoch's transactions.      *)
LEMMA Threads ==
  ASSUME NEW tid \in Tids
  PROVE  /\ InEpoch(tid) \in Txns
         /\ IsPrev(tid) => tid \in Txns /\ InEpoch(tid) = tid
         /\ ~ IsPrev(tid) => tid - NumTxns \in Txns /\ tid = InEpoch(tid) + NumTxns
BY MicroAssumption, SMT DEF Tids, Txns, InEpoch, IsPrev

LEMMA TidsOfTxns ==
  ASSUME NEW t \in Txns
  PROVE  /\ t \in Tids /\ IsPrev(t) /\ t + NumTxns \in Tids /\ ~ IsPrev(t + NumTxns)
         /\ InEpoch(t) = t /\ InEpoch(t + NumTxns) = t
BY MicroAssumption, SMT DEF Tids, Txns, IsPrev, InEpoch

LEMMA PlacesAreTids ==
  ASSUME NEW n \in 0 .. 2 * NumTxns
  PROVE  0 .. n - 1 \subseteq Tids
BY MicroAssumption, SMT DEF Tids

(* No two threads of an epoch are for the same transaction.                *)
LEMMA Origins ==
  ASSUME NEW tid \in Tids, epoch \in 1 .. MaxEpoch
  PROVE  /\ ~ IsPrev(tid) => Origin(tid) = <<epoch, InEpoch(tid)>> /\ Origin(tid) \in AllTxns
         /\ IsPrev(tid) => Origin(tid) = <<epoch - 1, InEpoch(tid)>>
         /\ IsPrev(tid) /\ epoch > 1 => Origin(tid) \in AllTxns
         /\ \A u \in Tids : Origin(u) = Origin(tid) => u = tid
<1>1. ASSUME ~ IsPrev(tid)
      PROVE  Origin(tid) = <<epoch, InEpoch(tid)>> /\ Origin(tid) \in AllTxns
  <2>1. Origin(tid) = <<epoch, InEpoch(tid)>>
    BY <1>1, Zenon DEF Origin, InEpoch
  <2>2. QED
    BY <2>1, Threads DEF AllTxns
<1>2. ASSUME IsPrev(tid)
      PROVE  Origin(tid) = <<epoch - 1, InEpoch(tid)>> /\ (epoch > 1 => Origin(tid) \in AllTxns)
  <2>1. Origin(tid) = <<epoch - 1, InEpoch(tid)>>
    BY <1>2, Zenon DEF Origin, InEpoch
  <2>2. epoch > 1 => epoch - 1 \in 1 .. MaxEpoch
    BY MicroAssumption, SMT
  <2>3. QED
    BY <2>1, <2>2, Threads DEF AllTxns
<1>3. ASSUME NEW u \in Tids, Origin(u) = Origin(tid)
      PROVE  u = tid
  BY <1>3, MicroAssumption, SMT DEF Origin, IsPrev, Tids
<1>4. QED
  BY <1>1, <1>2, <1>3, Zenon

(* The threads that take part in an epoch, and their transactions.         *)
LEMMA IncludedThreads ==
  ASSUME TypeOK, FlagsOfLastEpoch, NEW tid \in Tids
  PROVE  /\ Included(tid) \in BOOLEAN
         /\ Included(tid) => Origin(tid) \in AllTxns
         /\ Included(tid) /\ IsPrev(tid) => epoch > 1 /\ abort[Origin(tid)]
         /\ IsPrev(tid) /\ epoch > 1 /\ abort[Origin(tid)] => Included(tid)
<1>1. IsPrev(tid) => /\ retry[Prev][tid] \in BOOLEAN
                     /\ retry[Prev][tid] <=> epoch > 1 /\ abort[<<epoch - 1, tid>>]
  <2>1. epoch \in Nat
    BY SMT DEF TypeOK
  <2>2. Prev \in 0 .. 1
    BY <2>1, TwoSets, Zenon
  <2>3. QED
    BY <2>2, Threads DEF TypeOK, FlagsOfLastEpoch
<1>2. IsPrev(tid) => Origin(tid) = <<epoch - 1, tid>>
  BY Zenon DEF Origin
<1>3. QED
  BY <1>1, <1>2, Origins, Zenon DEF Included, TypeOK

(* A thread finds the transaction it is for.                               *)
LEMMA ParamsOfThreads ==
  ASSUME TypeOK, FlagsOfLastEpoch, ArraysHold, pc \notin {"transfer", "index"},
         NEW tid \in Tids, Included(tid)
  PROVE  param[SetOf(tid)][InEpoch(tid)] = Origin(tid)
<1>1. epoch \in Nat
  BY SMT DEF TypeOK
<1>2. CASE IsPrev(tid)
  <2>1. epoch > 1
    BY <1>2, IncludedThreads, Zenon
  <2>2. QED
    BY <2>1, <1>2, Threads, Zenon DEF ArraysHold, SetOf, Origin
<1>3. CASE ~ IsPrev(tid)
  BY <1>3, Threads, Zenon DEF ArraysHold, SetOf, Origin, InEpoch
<1>4. QED
  BY <1>2, <1>3, Zenon

-----------------------------------------------------------------------------
(* The inductive invariant, action by action.                              *)

LEMMA InitInv ==
  ASSUME Init
  PROVE  IInv
<1>1. TypeOK
  BY MicroAssumption DEF Init, TypeOK, Tids, Txns, AllTxns, Nobody
<1>2. waiting = {} /\ pc = "transfer" /\ epoch = 1
  BY Zenon DEF Init
<1>3. FlagsOfLastEpoch
  <2>1. Prev \in 0 .. 1 /\ ~(epoch > 1)
    BY <1>2, TwoSets, SMT
  <2>2. QED
    BY <2>1, Zenon DEF Init, FlagsOfLastEpoch
<1>4. FlagsWritten /\ OpsOfThisEpoch /\ PlansOfThisEpoch /\ ~ Executing
  BY <1>2, Zenon DEF FlagsWritten, OpsOfThisEpoch, PlansOfThisEpoch, Executing
<1>5. ArraysHold
  <2>1. ~(epoch > 1)
    BY <1>2, SMT
  <2>2. QED
    BY <2>1, <1>2, Zenon DEF ArraysHold
<1>6. RunAsOftenAsOwed
  <2>1. ASSUME NEW x \in AllTxns PROVE RunSoFar(x) = 0
    <3>1. x[1] \in Nat /\ x[1] >= 1
      BY MicroAssumption, SMT DEF AllTxns
    <3>2. ~(x[1] < epoch) /\ ~(x[1] + 1 < epoch)
      BY <3>1, <1>2, SMT
    <3>3. ~ Started(x[2] + NumTxns) /\ ~ Started(x[2])
      BY <1>4, Zenon DEF Started
    <3>4. QED
      BY <3>2, <3>3, SMT DEF RunSoFar
  <2>2. QED
    BY <2>1, Zenon DEF RunAsOftenAsOwed, Init
<1>7. QED
  BY <1>1, <1>2, <1>3, <1>4, <1>5, <1>6, Zenon DEF IInv

(* Nothing is run where neither epoch nor waiting threads change.          *)
LEMMA SameRuns ==
  ASSUME RunAsOftenAsOwed, UNCHANGED <<abort, epoch, times>>,
         \A tid \in Tids : Started(tid)' <=> Started(tid)
  PROVE  RunAsOftenAsOwed'
<1>1. ASSUME NEW x \in AllTxns PROVE RunSoFar(x)' = RunSoFar(x)
  <2>1. x[2] \in Txns
    BY DEF AllTxns
  <2>2. x[2] \in Tids /\ x[2] + NumTxns \in Tids
    BY <2>1, TidsOfTxns, Zenon
  <2>3. /\ Started(x[2])' <=> Started(x[2])
        /\ Started(x[2] + NumTxns)' <=> Started(x[2] + NumTxns)
    BY <2>2, Zenon
  <2>4. QED
    BY <2>3, SMT DEF RunSoFar
<1>2. QED
  BY <1>1, Zenon DEF RunAsOftenAsOwed

(* Within an epoch sets and threads stay what they are.                    *)
LEMMA SameEpoch ==
  ASSUME epoch' = epoch
  PROVE  /\ Curr' = Curr /\ Prev' = Prev
         /\ \A tid : Origin(tid)' = Origin(tid)
         /\ \A tid : retry' = retry => (Included(tid)' <=> Included(tid))
BY Zenon DEF Curr, Prev, Origin, Included

LEMMA TransferStep ==
  ASSUME IInv, Transfer
  PROVE  IInv'
<1>1. /\ pc = "transfer" /\ pc' = "index"
      /\ UNCHANGED <<abort, epoch, param, retry, ops, numOps, plan, waiting, times>>
      /\ epoch \in Nat /\ epoch \in 1 .. MaxEpoch
      /\ ~ Executing /\ ~ Executing'
  BY MicroAssumption, SMT DEF Transfer, IInv, TypeOK, Executing
<1>2. Curr' = Curr /\ Prev' = Prev /\ Curr \in 0 .. 1 /\ Prev \in 0 .. 1 /\ Curr # Prev
  BY <1>1, TwoSets, SameEpoch, Zenon
<1>3. /\ input' \in [0 .. 1 -> [Txns -> AllTxns \cup {Nobody}]]
      /\ \A t \in Txns : input'[Curr][t] = <<epoch, t>>
      /\ input'[Prev] = input[Prev]
  <2>1. [t \in Txns |-> <<epoch, t>>] \in [Txns -> AllTxns \cup {Nobody}]
    BY <1>1 DEF AllTxns
  <2>2. QED
    BY <2>1, <1>2 DEF Transfer, IInv, TypeOK
<1>4. TypeOK'
  BY <1>1, <1>3 DEF IInv, TypeOK
<1>5. FlagsOfLastEpoch' /\ FlagsWritten' /\ PlansOfThisEpoch' /\ OpsOfThisEpoch'
  BY <1>1, <1>2 DEF IInv, FlagsOfLastEpoch, FlagsWritten, PlansOfThisEpoch, OpsOfThisEpoch
<1>6. ArraysHold'
  BY <1>1, <1>2, <1>3 DEF IInv, ArraysHold
<1>7. RunAsOftenAsOwed'
  BY <1>1, SameRuns, Zenon DEF IInv, Started
<1>8. QED
  BY <1>1, <1>4, <1>5, <1>6, <1>7 DEF IInv

LEMMA IndexStep ==
  ASSUME IInv, IndexTxns
  PROVE  IInv'
<1>1. /\ pc = "index" /\ pc' = "submit"
      /\ UNCHANGED <<abort, epoch, input, retry, ops, numOps, plan, waiting, times>>
      /\ epoch \in Nat /\ epoch \in 1 .. MaxEpoch
      /\ ~ Executing /\ ~ Executing'
  BY MicroAssumption, SMT DEF IndexTxns, IInv, TypeOK, Executing
<1>2. Curr' = Curr /\ Prev' = Prev /\ Curr \in 0 .. 1 /\ Prev \in 0 .. 1 /\ Curr # Prev
  BY <1>1, TwoSets, SameEpoch, Zenon
<1>3. param' \in [0 .. 1 -> [Txns -> AllTxns \cup {Nobody}]]
  BY DEF IndexTxns, IInv, TypeOK
<1>4. \A s \in 0 .. 1 : \A t \in Txns : param'[s][t] \in {input[s][t], param[s][t]}
  BY Zenon DEF IndexTxns
<1>5. ASSUME NEW t \in Txns PROVE param'[Curr][t] = input[Curr][t]
  <2>1. /\ t + NumTxns \in Tids /\ SetOf(t + NumTxns) = Curr /\ InEpoch(t + NumTxns) = t
        /\ Included(t + NumTxns)
    BY TidsOfTxns, Zenon DEF SetOf, Included
  <2>2. QED
    BY <2>1, <1>2, Zenon DEF IndexTxns
<1>6. TypeOK'
  BY <1>1, <1>3 DEF IInv, TypeOK
<1>7. FlagsOfLastEpoch' /\ FlagsWritten' /\ PlansOfThisEpoch' /\ OpsOfThisEpoch'
  BY <1>1, <1>2 DEF IInv, FlagsOfLastEpoch, FlagsWritten, PlansOfThisEpoch, OpsOfThisEpoch
<1>8. ArraysHold'
  BY <1>1, <1>2, <1>4, <1>5 DEF IInv, ArraysHold
<1>9. RunAsOftenAsOwed'
  BY <1>1, SameRuns, Zenon DEF IInv, Started
<1>10. QED
  BY <1>1, <1>6, <1>7, <1>8, <1>9 DEF IInv

LEMMA SubmitStep ==
  ASSUME IInv, Submit
  PROVE  IInv'
<1> DEFINE S == {tid \in Tids : Included(tid)}
<1>1. /\ pc = "submit" /\ pc' = "initialize" /\ numOps' = Cardinality(S)
      /\ UNCHANGED <<abort, epoch, input, param, retry, plan, waiting, times>>
      /\ epoch \in Nat /\ epoch \in 1 .. MaxEpoch
      /\ ~ Executing /\ ~ Executing'
  BY MicroAssumption, SMT DEF Submit, IInv, TypeOK, Executing
<1>2. /\ Curr' = Curr /\ Prev' = Prev /\ Curr \in 0 .. 1 /\ Prev \in 0 .. 1 /\ Curr # Prev
      /\ \A tid : Origin(tid)' = Origin(tid) /\ (Included(tid)' <=> Included(tid))
  BY <1>1, TwoSets, SameEpoch, Zenon
<1>3. /\ numOps' \in 0 .. 2 * NumTxns
      /\ \A tid \in S : Offset(tid) \in 0 .. numOps' - 1
      /\ \A tid, u \in S : Offset(tid) = Offset(u) => tid = u
      /\ \A i \in 0 .. numOps' - 1 : \E tid \in S : Offset(tid) = i
  <2>1. 2 * NumTxns \in Nat /\ S \in SUBSET (0 .. 2 * NumTxns - 1)
    BY MicroAssumption, SMT DEF Tids
  <2>2. \A tid : Offset(tid) = Cardinality({s \in S : s < tid})
    <3>1. \A tid : {s \in Tids : s < tid /\ Included(s)} = {s \in S : s < tid}
      BY Zenon
    <3>2. QED
      BY <3>1, Zenon DEF Offset
  <2> HIDE DEF S
  <2> DEFINE Below(t) == Cardinality({s \in S : s < t})
  <2>3. /\ Cardinality(S) \in 0 .. 2 * NumTxns
        /\ \A t \in S : Below(t) \in 0 .. Cardinality(S) - 1
        /\ \A t, u \in S : Below(t) = Below(u) => t = u
        /\ \A i \in 0 .. Cardinality(S) - 1 : \E t \in S : Below(t) = i
    BY <2>1, Numbering
  <2>4. \A t : Offset(t) = Below(t)
    BY <2>2
  <2> HIDE DEF Below
  <2>5. QED
    BY <2>3, <2>4, <1>1
<1>4. \A tid \in S : param[SetOf(tid)][InEpoch(tid)] = Origin(tid) /\ Origin(tid) \in AllTxns
  BY <1>1, ParamsOfThreads, IncludedThreads DEF IInv
<1>5. ASSUME NEW i \in Tids, NEW tid \in S, Offset(tid) = i
      PROVE  ops'[i] = <<tid, Origin(tid)>>
  <2>1. (CHOOSE t \in Tids : Included(t) /\ Offset(t) = i) = tid
    <3>1. \A t \in Tids : Included(t) /\ Offset(t) = i => t = tid
      BY <1>5, <1>3, Zenon
    <3>2. QED
      BY <3>1, <1>5, Zenon
  <2>2. ops'[i] = <<tid, param[SetOf(tid)][InEpoch(tid)]>>
    BY <2>1, <1>5, Zenon DEF Submit
  <2>3. QED
    BY <2>2, <1>4, Zenon
<1>6. ops' \in [Tids -> Tids \X (AllTxns \cup {Nobody})]
  <2>1. ASSUME NEW i \in Tids PROVE ops'[i] \in Tids \X (AllTxns \cup {Nobody})
    <3>1. CASE \E tid \in Tids : Included(tid) /\ Offset(tid) = i
      <4>1. PICK tid \in Tids : Included(tid) /\ Offset(tid) = i
        BY <3>1, Zenon
      <4>2. ops'[i] = <<tid, Origin(tid)>> /\ Origin(tid) \in AllTxns
        BY <4>1, <1>4, <1>5, Zenon
      <4>3. QED
        BY <4>2
    <3>2. CASE ~ \E tid \in Tids : Included(tid) /\ Offset(tid) = i
      BY <3>2, Zenon DEF Submit, IInv, TypeOK
    <3>3. QED
      BY <3>1, <3>2, Zenon
  <2>2. \E g : ops' = [i \in Tids |-> g[i]]
    <3>1. ops' = [i \in Tids |-> ops'[i]]
      BY DEF Submit
    <3>2. QED
      BY <3>1, Zenon
  <2>3. QED
    BY <2>1, <2>2
<1>7. OpsOfThisEpoch'
  <2>1. 0 .. numOps' - 1 \subseteq Tids
    BY <1>3, PlacesAreTids, Zenon
  <2>2. \A tid \in S : \E i \in 0 .. numOps' - 1 : ops'[i] = <<tid, Origin(tid)>>
    BY <2>1, <1>3, <1>5, Zenon
  <2>3. \A i \in 0 .. numOps' - 1 : \E tid \in S : ops'[i] = <<tid, Origin(tid)>>
    BY <2>1, <1>3, <1>5, Zenon
  <2>4. QED
    BY <2>2, <2>3, <1>2, Zenon DEF OpsOfThisEpoch
<1>8. TypeOK'
  BY <1>1, <1>3, <1>6 DEF IInv, TypeOK
<1>9. FlagsOfLastEpoch' /\ FlagsWritten' /\ PlansOfThisEpoch' /\ ArraysHold'
  BY <1>1, <1>2 DEF IInv, FlagsOfLastEpoch, FlagsWritten, PlansOfThisEpoch, ArraysHold
<1>10. RunAsOftenAsOwed'
  BY <1>1, SameRuns, Zenon DEF IInv, Started
<1>11. QED
  BY <1>1, <1>7, <1>8, <1>9, <1>10 DEF IInv

(* The operations up to numOps are those of this epoch's threads: a plan   *)
(* gets the locations of its own transaction, whatever is behind them.     *)
LEMMA InitializePlanStep ==
  ASSUME IInv, InitializePlan
  PROVE  IInv'
<1>1. /\ pc = "initialize" /\ pc' = "execute" /\ waiting' = Tids
      /\ UNCHANGED <<abort, epoch, input, param, retry, ops, numOps, times>>
      /\ epoch \in Nat /\ epoch \in 1 .. MaxEpoch
      /\ ~ Executing
  BY MicroAssumption, SMT DEF InitializePlan, IInv, TypeOK, Executing
<1>2. /\ Curr' = Curr /\ Prev' = Prev /\ Curr \in 0 .. 1 /\ Prev \in 0 .. 1 /\ Curr # Prev
      /\ \A tid : Origin(tid)' = Origin(tid) /\ (Included(tid)' <=> Included(tid))
  BY <1>1, TwoSets, SameEpoch, Zenon
<1>3. /\ \A tid \in Tids : Included(tid) =>
           \E i \in 0 .. numOps - 1 : ops[i] = <<tid, Origin(tid)>>
      /\ \A i \in 0 .. numOps - 1 : \E tid \in Tids : Included(tid) /\ ops[i] = <<tid, Origin(tid)>>
  BY <1>1, Zenon DEF IInv, OpsOfThisEpoch
<1>4. ASSUME NEW tid \in Tids, NEW i \in 0 .. numOps - 1, ops[i][1] = tid
      PROVE  Included(tid) /\ ops[i][2] = Origin(tid)
  <2>1. PICK u \in Tids : Included(u) /\ ops[i] = <<u, Origin(u)>>
    BY <1>3, Zenon
  <2>2. u = tid
    BY <2>1, <1>4
  <2>3. QED
    BY <2>1, <2>2
<1>5. ASSUME NEW tid \in Tids
      PROVE  plan'[tid] = IF \E i \in 0 .. numOps - 1 : ops[i][1] = tid THEN Origin(tid) ELSE plan[tid]
  <2>1. CASE \E i \in 0 .. numOps - 1 : ops[i][1] = tid
    <3> DEFINE i == CHOOSE i \in 0 .. numOps - 1 : ops[i][1] = tid
    <3>1. i \in 0 .. numOps - 1 /\ ops[i][1] = tid
      BY <2>1, Zenon
    <3>2. plan'[tid] = ops[i][2]
      BY <2>1, Zenon DEF InitializePlan
    <3> HIDE DEF i
    <3>3. QED
      BY <3>1, <3>2, <2>1, <1>4, Zenon
  <2>2. CASE ~ \E i \in 0 .. numOps - 1 : ops[i][1] = tid
    BY <2>2, Zenon DEF InitializePlan
  <2>3. QED
    BY <2>1, <2>2, Zenon
<1>6. PlansOfThisEpoch'
  <2>1. ASSUME NEW tid \in Tids, Included(tid) PROVE plan'[tid] = Origin(tid)
    <3>1. PICK i \in 0 .. numOps - 1 : ops[i] = <<tid, Origin(tid)>>
      BY <2>1, <1>3, Zenon
    <3>2. ops[i][1] = tid
      BY <3>1
    <3>3. QED
      BY <3>2, <1>5, Zenon
  <2>2. QED
    BY <2>1, <1>2, Zenon DEF PlansOfThisEpoch
<1>7. plan' \in [Tids -> AllTxns \cup {Nobody}]
  <2>1. ASSUME NEW tid \in Tids PROVE plan'[tid] \in AllTxns \cup {Nobody}
    <3>1. CASE \E i \in 0 .. numOps - 1 : ops[i][1] = tid
      <4>1. Included(tid)
        BY <3>1, <1>4, Zenon
      <4>2. Origin(tid) \in AllTxns
        BY <4>1, IncludedThreads, Zenon DEF IInv
      <4>3. QED
        BY <4>2, <3>1, <1>5, Zenon
    <3>2. CASE ~ \E i \in 0 .. numOps - 1 : ops[i][1] = tid
      BY <3>2, <1>5, Zenon DEF IInv, TypeOK
    <3>3. QED
      BY <3>1, <3>2, Zenon
  <2>2. plan' = [tid \in Tids |-> plan'[tid]]
    BY DEF InitializePlan
  <2>3. QED
    BY <2>1, <2>2
<1>8. TypeOK'
  BY <1>1, <1>7 DEF IInv, TypeOK
<1>9. FlagsOfLastEpoch' /\ ArraysHold' /\ OpsOfThisEpoch'
  BY <1>1, <1>2 DEF IInv, FlagsOfLastEpoch, ArraysHold, OpsOfThisEpoch
<1>10. FlagsWritten'
  <2>1. \A t \in Txns : t + NumTxns \in waiting'
    BY <1>1, TidsOfTxns, Zenon
  <2>2. QED
    BY <2>1, Zenon DEF FlagsWritten
<1>11. RunAsOftenAsOwed'
  <2>1. \A tid \in Tids : ~ Started(tid) /\ ~ Started(tid)'
    BY <1>1, Zenon DEF Started
  <2>2. QED
    BY <1>1, <2>1, SameRuns, Zenon DEF IInv
<1>12. QED
  BY <1>1, <1>6, <1>8, <1>9, <1>10, <1>11 DEF IInv

(* A thread at work is that of one transaction: it runs that one, once.    *)
LEMMA RunWarpStep ==
  ASSUME IInv, NEW tid \in Tids, RunWarp(tid)
  PROVE  IInv'
<1>1. /\ pc = "execute" /\ tid \in waiting /\ waiting' = waiting \ {tid}
      /\ UNCHANGED <<abort, epoch, pc, input, param, ops, numOps, plan>>
      /\ epoch \in Nat /\ epoch \in 1 .. MaxEpoch
      /\ Executing /\ Executing'
  BY MicroAssumption, SMT DEF RunWarp, IInv, TypeOK, Executing
<1>2. /\ Curr' = Curr /\ Prev' = Prev /\ Curr \in 0 .. 1 /\ Prev \in 0 .. 1 /\ Curr # Prev
      /\ \A u : Origin(u)' = Origin(u)
  BY <1>1, TwoSets, SameEpoch, Zenon
<1>3. Included(tid) => /\ param[SetOf(tid)][InEpoch(tid)] = Origin(tid)
                       /\ Origin(tid) \in AllTxns
  BY <1>1, ParamsOfThreads, IncludedThreads DEF IInv
(* What the step does to the flags.                                        *)
<1>4. /\ retry' \in [0 .. 1 -> [Txns -> BOOLEAN]]
      /\ retry'[Prev] = retry[Prev]
      /\ \A t \in Txns : t + NumTxns # tid => retry'[Curr][t] = retry[Curr][t]
      /\ \A t \in Txns : t + NumTxns = tid => retry'[Curr][t] = abort[<<epoch, t>>]
  <2>1. CASE ~ Included(tid)
    <3>1. retry' = retry
      BY <2>1, Zenon DEF RunWarp
    <3>2. \A t \in Txns : t + NumTxns # tid
      BY <2>1, TidsOfTxns, Zenon DEF Included
    <3>3. QED
      BY <3>1, <3>2, Zenon DEF IInv, TypeOK
  <2>2. CASE Included(tid) /\ IsPrev(tid)
    <3>1. retry' = retry
      BY <2>2, Zenon DEF RunWarp, Flags
    <3>2. \A t \in Txns : t + NumTxns # tid
      BY <2>2, TidsOfTxns, Zenon
    <3>3. QED
      BY <3>1, <3>2, Zenon DEF IInv, TypeOK
  <2>3. CASE Included(tid) /\ ~ IsPrev(tid)
    <3> DEFINE own == InEpoch(tid)
    <3>1. own \in Txns /\ tid = own + NumTxns
      BY <2>3, Threads, Zenon
    <3>2. param[Curr][own] = <<epoch, own>> /\ abort[<<epoch, own>>] \in BOOLEAN
      BY <1>1, <3>1 DEF IInv, ArraysHold, TypeOK, AllTxns
    <3>3. retry' = [retry EXCEPT ![Curr][own] = abort[<<epoch, own>>]]
      BY <2>3, <3>2, Zenon DEF RunWarp, Flags
    <3>4. \A t \in Txns : t + NumTxns = tid <=> t = own
      BY <3>1, MicroAssumption, SMT DEF Txns
    <3> HIDE DEF own
    <3>5. QED
      BY <3>1, <3>2, <3>3, <3>4, <1>2 DEF IInv, TypeOK
  <2>4. QED
    BY <2>1, <2>2, <2>3, Zenon
<1>5. \A u \in Tids : Included(u)' <=> Included(u)
  BY <1>2, <1>4, Zenon DEF Included
(* What it does to the count of runs.                                      *)
<1>6. /\ times' \in [AllTxns -> Nat]
      /\ \A x \in AllTxns : times'[x] = times[x] + (IF Included(tid) /\ x = Origin(tid) THEN 1 ELSE 0)
  <2>1. CASE Included(tid)
    <3>1. times' = [times EXCEPT ![Origin(tid)] = @ + 1]
      BY <2>1, <1>3, Zenon DEF RunWarp
    <3>2. times \in [AllTxns -> Nat]
      BY Zenon DEF IInv, TypeOK
    <3>3. QED
      BY <2>1, <3>1, <3>2, <1>3, SMT
  <2>2. CASE ~ Included(tid)
    <3>1. times' = times
      BY <2>2, Zenon DEF RunWarp
    <3>2. times \in [AllTxns -> Nat]
      BY Zenon DEF IInv, TypeOK
    <3>3. QED
      BY <2>2, <3>1, <3>2, SMT
  <2>3. QED
    BY <2>1, <2>2, Zenon
<1>7. TypeOK'
  <2>1. waiting' \subseteq Tids
    BY <1>1, Zenon DEF IInv, TypeOK
  <2>2. QED
    BY <1>1, <2>1, <1>4, <1>6 DEF IInv, TypeOK
<1>8. FlagsOfLastEpoch' /\ ArraysHold' /\ OpsOfThisEpoch' /\ PlansOfThisEpoch'
  BY <1>1, <1>2, <1>4, <1>5
     DEF IInv, FlagsOfLastEpoch, ArraysHold, OpsOfThisEpoch, PlansOfThisEpoch
<1>9. FlagsWritten'
  <2>1. ASSUME NEW t \in Txns, t + NumTxns \notin waiting'
        PROVE  retry'[Curr][t] <=> abort[<<epoch, t>>]
    BY <2>1, <1>1, <1>4, Zenon DEF IInv, FlagsWritten
  <2>2. QED
    BY <2>1, <1>1, <1>2, Zenon DEF FlagsWritten
<1>10. \A u : Started(u)' <=> Started(u) \/ u = tid
  BY <1>1, Zenon DEF Started
<1>11. ~ Started(tid)
  BY <1>1, Zenon DEF Started
<1>12. RunAsOftenAsOwed'
  <2>1. ASSUME NEW x \in AllTxns
        PROVE  RunSoFar(x)' = RunSoFar(x) + (IF Included(tid) /\ x = Origin(tid) THEN 1 ELSE 0)
    <3>1. /\ x[1] \in 1 .. MaxEpoch /\ x[2] \in Txns /\ x = <<x[1], x[2]>>
      BY DEF AllTxns
    <3>2. x = Origin(tid) <=> \/ IsPrev(tid) /\ x[1] + 1 = epoch /\ x[2] = tid
                              \/ ~ IsPrev(tid) /\ x[1] = epoch /\ x[2] + NumTxns = tid
      <4>1. Origin(tid) = IF IsPrev(tid) THEN <<epoch - 1, tid>> ELSE <<epoch, tid - NumTxns>>
        BY Zenon DEF Origin
      <4>2. x = <<epoch - 1, tid>> <=> x[1] = epoch - 1 /\ x[2] = tid
        BY <3>1
      <4>3. x = <<epoch, tid - NumTxns>> <=> x[1] = epoch /\ x[2] = tid - NumTxns
        BY <3>1
      <4>4. /\ x[1] = epoch - 1 <=> x[1] + 1 = epoch
            /\ x[2] = tid - NumTxns <=> x[2] + NumTxns = tid
        BY <3>1, <1>1, MicroAssumption, SMT DEF Txns, Tids
      <4>5. QED
        BY <4>1, <4>2, <4>3, <4>4, Zenon
    <3>3. IsPrev(tid) => (Included(tid) <=> epoch > 1 /\ abort[Origin(tid)])
      BY IncludedThreads, Zenon DEF IInv
    <3>4. ~ IsPrev(tid) => Included(tid)
      BY Zenon DEF Included
    <3>5. x[2] = tid => IsPrev(tid) /\ x[2] + NumTxns # tid
      BY <3>1, MicroAssumption, SMT DEF Txns, IsPrev
    <3>6. x[2] + NumTxns = tid => ~ IsPrev(tid) /\ x[2] # tid
      BY <3>1, MicroAssumption, SMT DEF Txns, IsPrev
    <3>7. x[1] + 1 = epoch => epoch > 1
      BY <3>1, <1>1, MicroAssumption, SMT
    <3>8. /\ Started(x[2])' <=> Started(x[2]) \/ x[2] = tid
          /\ Started(x[2] + NumTxns)' <=> Started(x[2] + NumTxns) \/ x[2] + NumTxns = tid
      BY <1>10, Zenon
    <3>9. /\ x[1] < epoch => x[1] # epoch
          /\ x[1] + 1 < epoch => x[1] + 1 # epoch
      BY <3>1, <1>1, MicroAssumption, SMT
    <3>10. abort' = abort /\ epoch' = epoch
      BY <1>1, Zenon
    <3>11. CASE Included(tid) /\ x = Origin(tid) /\ IsPrev(tid)
      <4>1. x[1] + 1 = epoch /\ x[2] = tid /\ abort[x] /\ x[2] + NumTxns # tid
        BY <3>11, <3>2, <3>3, <3>5, Zenon
      <4>2. ~ Started(x[2]) /\ Started(x[2])' /\ ~(x[1] + 1 < epoch)
        BY <4>1, <3>8, <3>9, <1>11, Zenon
      <4>3. Started(x[2] + NumTxns)' <=> Started(x[2] + NumTxns)
        BY <4>1, <3>8, Zenon
      <4>4. QED
        BY <4>1, <4>2, <4>3, <3>10, <3>11, SMT DEF RunSoFar
    <3>12. CASE Included(tid) /\ x = Origin(tid) /\ ~ IsPrev(tid)
      <4>1. x[1] = epoch /\ x[2] + NumTxns = tid /\ x[2] # tid
        BY <3>12, <3>2, <3>6, Zenon
      <4>2. /\ ~ Started(x[2] + NumTxns) /\ Started(x[2] + NumTxns)' /\ ~(x[1] < epoch)
        BY <4>1, <3>8, <3>9, <1>11, Zenon
      <4>3. Started(x[2])' <=> Started(x[2])
        BY <4>1, <3>8, Zenon
      <4>4. QED
        BY <4>1, <4>2, <4>3, <3>10, <3>12, SMT DEF RunSoFar
    <3>13. CASE ~(Included(tid) /\ x = Origin(tid))
      <4>1. x[1] = epoch => (Started(x[2] + NumTxns)' <=> Started(x[2] + NumTxns))
        BY <3>13, <3>2, <3>4, <3>6, <3>8, Zenon
      <4>2. abort[x] /\ x[1] + 1 = epoch => (Started(x[2])' <=> Started(x[2]))
        BY <3>13, <3>2, <3>3, <3>5, <3>7, <3>8, Zenon
      <4>3. QED
        BY <4>1, <4>2, <3>10, <3>13, SMT DEF RunSoFar
    <3>14. QED
      BY <3>11, <3>12, <3>13, Zenon
  <2>2. QED
    BY <2>1, <1>6, Zenon DEF IInv, RunAsOftenAsOwed
<1>13. QED
  BY <1>1, <1>7, <1>8, <1>9, <1>12 DEF IInv

LEMMA EndEpochStep ==
  ASSUME IInv, EndEpoch
  PROVE  IInv'
<1>1. /\ pc = "execute" /\ waiting = {} /\ waiting' = {} /\ Executing
      /\ UNCHANGED <<abort, input, param, retry, ops, numOps, plan, waiting, times>>
      /\ epoch \in Nat /\ epoch \in 1 .. MaxEpoch
      /\ MaxEpoch \in Nat
  BY MicroAssumption, SMT DEF EndEpoch, IInv, TypeOK, Executing
<1>2. CASE epoch < MaxEpoch
  <2>1. /\ epoch' = epoch + 1 /\ pc' = "transfer" /\ ~ Executing'
    BY <1>2, SMT DEF EndEpoch, Executing
  <2>2. Curr' = Prev /\ Prev' = Curr /\ Curr \in 0 .. 1 /\ Prev \in 0 .. 1
    BY <1>1, <2>1, TwoSets, Zenon
  <2>3. epoch' - 1 = epoch /\ epoch' > 1 /\ epoch' \in 1 .. MaxEpoch
    BY <1>1, <1>2, <2>1, SMT
  <2>4. TypeOK'
    BY <1>1, <2>1, <2>3 DEF IInv, TypeOK
  <2>5. FlagsOfLastEpoch'
    <3>1. \A t \in Txns : retry[Curr][t] <=> abort[<<epoch, t>>]
      BY <1>1, Zenon DEF IInv, FlagsWritten
    <3>2. QED
      BY <3>1, <1>1, <2>2, <2>3 DEF FlagsOfLastEpoch
  <2>6. ArraysHold'
    <3>1. \A t \in Txns : input[Curr][t] = <<epoch, t>> /\ param[Curr][t] = <<epoch, t>>
      BY <1>1 DEF IInv, ArraysHold
    <3>2. QED
      BY <3>1, <1>1, <2>1, <2>2, <2>3 DEF ArraysHold
  <2>7. FlagsWritten' /\ OpsOfThisEpoch' /\ PlansOfThisEpoch'
    BY <2>1 DEF FlagsWritten, OpsOfThisEpoch, PlansOfThisEpoch
  <2>8. RunAsOftenAsOwed'
    <3>1. ASSUME NEW x \in AllTxns PROVE RunSoFar(x)' = RunSoFar(x)
      <4>1. x[1] \in Nat
        BY <1>1, SMT DEF AllTxns
      <4>2. \A u : Started(u) /\ ~ Started(u)'
        BY <1>1, <2>1, Zenon DEF Started
      <4>3. /\ x[1] < epoch' <=> x[1] < epoch \/ x[1] = epoch
            /\ x[1] + 1 < epoch' <=> x[1] + 1 < epoch \/ x[1] + 1 = epoch
        BY <4>1, <1>1, <2>1, SMT
      <4>4. QED
        BY <4>2, <4>3, <1>1, SMT DEF RunSoFar
    <3>2. QED
      BY <3>1, <1>1, Zenon DEF IInv, RunAsOftenAsOwed
  <2>9. QED
    BY <1>1, <2>1, <2>4, <2>5, <2>6, <2>7, <2>8 DEF IInv
<1>3. CASE ~(epoch < MaxEpoch)
  <2>1. epoch' = epoch /\ pc' = "done" /\ Executing'
    BY <1>3, Zenon DEF EndEpoch, Executing
  <2>2. Curr' = Curr /\ Prev' = Prev
        /\ \A u : Origin(u)' = Origin(u) /\ (Included(u)' <=> Included(u))
    BY <1>1, <2>1, SameEpoch, Zenon
  <2>3. TypeOK'
    BY <1>1, <2>1 DEF IInv, TypeOK
  <2>4. FlagsOfLastEpoch' /\ FlagsWritten' /\ ArraysHold' /\ OpsOfThisEpoch' /\ PlansOfThisEpoch'
    BY <1>1, <2>1, <2>2
       DEF IInv, FlagsOfLastEpoch, FlagsWritten, ArraysHold, OpsOfThisEpoch, PlansOfThisEpoch
  <2>5. RunAsOftenAsOwed'
    BY <1>1, <2>1, SameRuns, Zenon DEF IInv, Started
  <2>6. epoch' = MaxEpoch
    BY <1>1, <1>3, <2>1, SMT
  <2>7. QED
    BY <1>1, <2>1, <2>3, <2>4, <2>5, <2>6 DEF IInv
<1>4. QED
  BY <1>2, <1>3, Zenon

LEMMA StutterStep ==
  ASSUME IInv, UNCHANGED vars
  PROVE  IInv'
<1>1. UNCHANGED <<abort, epoch, pc, input, param, retry, ops, numOps, plan, waiting, times>>
  BY DEF vars
<1>2. /\ Curr' = Curr /\ Prev' = Prev /\ (Executing' <=> Executing)
      /\ \A u : Origin(u)' = Origin(u) /\ (Included(u)' <=> Included(u))
  BY <1>1, SameEpoch, Zenon DEF Executing
<1>3. TypeOK' /\ (pc # "execute" => waiting = {})' /\ (pc = "done" => epoch = MaxEpoch)'
  BY <1>1, Zenon DEF IInv, TypeOK
<1>4. FlagsOfLastEpoch' /\ FlagsWritten' /\ ArraysHold' /\ OpsOfThisEpoch' /\ PlansOfThisEpoch'
  BY <1>1, <1>2
     DEF IInv, FlagsOfLastEpoch, FlagsWritten, ArraysHold, OpsOfThisEpoch, PlansOfThisEpoch
<1>5. RunAsOftenAsOwed'
  BY <1>1, <1>2, SameRuns, Zenon DEF IInv, Started
<1>6. QED
  BY <1>3, <1>4, <1>5, Zenon DEF IInv

-----------------------------------------------------------------------------
(* Whatever the number of transactions and epochs, flags, arrays,          *)
(* operations and plans are those of the two epochs they should be of, and *)
(* every transaction has been run as often as it was due by then.          *)
THEOREM Invariance == Spec => []IInv
<1>1. Init => IInv
  BY InitInv
<1>2. IInv /\ [Next]_vars => IInv'
  BY TransferStep, IndexStep, SubmitStep, InitializePlanStep, RunWarpStep, EndEpochStep,
     StutterStep, Zenon DEF Next
<1>3. QED
  BY <1>1, <1>2, PTL DEF Spec

(* Every variable keeps its range.                                         *)
THEOREM TypeCorrect == Spec => []TypeOK
<1>1. IInv => TypeOK
  BY Zenon DEF IInv
<1>2. QED
  BY <1>1, Invariance, PTL

(* microExecKernel runs a retried transaction and one of its own epoch     *)
(* alike with the parameters and the plan of that transaction.             *)
THEOREM EveryRunAsPlanned == Spec => []RunsAsPlanned
<1>1. ASSUME IInv PROVE RunsAsPlanned
  <2>1. SUFFICES ASSUME pc = "execute", NEW tid \in Tids, tid \in waiting, Included(tid)
                 PROVE  /\ param[SetOf(tid)][InEpoch(tid)] = Origin(tid)
                        /\ plan[tid] = Origin(tid)
                        /\ \E i \in 0 .. numOps - 1 : ops[i] = <<tid, Origin(tid)>>
                        /\ IsPrev(tid) => abort[Origin(tid)]
    BY <1>1, Zenon DEF IInv, TypeOK, RunsAsPlanned
  <2>2. param[SetOf(tid)][InEpoch(tid)] = Origin(tid)
    BY <1>1, <2>1, ParamsOfThreads DEF IInv
  <2>3. plan[tid] = Origin(tid)
    BY <1>1, <2>1, Zenon DEF IInv, PlansOfThisEpoch, Executing
  <2>4. \E i \in 0 .. numOps - 1 : ops[i] = <<tid, Origin(tid)>>
    BY <1>1, <2>1, Zenon DEF IInv, OpsOfThisEpoch
  <2>5. IsPrev(tid) => abort[Origin(tid)]
    BY <1>1, <2>1, IncludedThreads, Zenon DEF IInv
  <2>6. QED
    BY <2>2, <2>3, <2>4, <2>5, Zenon
<1>2. QED
  BY <1>1, Invariance, PTL

(* When the epochs are over no transaction has been left out: each has     *)
(* been run once, and those that aborted once more, in the next epoch.     *)
THEOREM NoneLeftOut == Spec => []AllRunAtTheEnd
<1>1. ASSUME IInv PROVE AllRunAtTheEnd
  <2>1. SUFFICES ASSUME pc = "done", NEW x \in AllTxns
                 PROVE  times[x] = IF abort[x] /\ x[1] < MaxEpoch THEN 2 ELSE 1
    BY Zenon DEF AllRunAtTheEnd
  <2>2. epoch = MaxEpoch /\ waiting = {} /\ Executing
    BY <1>1, <2>1 DEF IInv, Executing
  <2>3. x[1] \in 1 .. MaxEpoch
    BY DEF AllTxns
  <2>4. \A u : Started(u)
    BY <2>2, Zenon DEF Started
  <2>5. /\ x[1] < epoch \/ x[1] = epoch
        /\ x[1] + 1 < epoch \/ x[1] + 1 = epoch <=> x[1] < MaxEpoch
    BY <2>2, <2>3, MicroAssumption, SMT
  <2>6. times[x] = RunSoFar(x)
    BY <1>1, Zenon DEF IInv, RunAsOftenAsOwed
  <2>7. QED
    BY <2>4, <2>5, <2>6, SMT DEF RunSoFar
<1>2. QED
  BY <1>1, Invariance, PTL

-----------------------------------------------------------------------------
(* The refinement: an epoch's plan is its beginning in RetryQueue, a warp  *)
(* that runs its transaction takes it from the queue, and all else is      *)
(* unseen there.                                                           *)

Todo == {Origin(tid) : tid \in {s \in waiting : Included(s)}}

LEMMA SameTxns ==
  /\ Owed!AllTxns = AllTxns
  /\ \A e : Owed!TxnsOf(e) = {<<e, t>> : t \in Txns}
<1>1. \A e : Owed!TxnsOf(e) = {<<e, t>> : t \in Txns}
  BY DEF Owed!TxnsOf, Txns
<1>2. Owed!AllTxns = UNION {{<<e, t>> : t \in Txns} : e \in 1 .. MaxEpoch}
  BY <1>1 DEF Owed!AllTxns, Owed!Epochs
<1>3. UNION {{<<e, t>> : t \in Txns} : e \in 1 .. MaxEpoch} = (1 .. MaxEpoch) \X Txns
  OBVIOUS
<1>4. QED
  BY <1>1, <1>2, <1>3, Zenon DEF AllTxns

(* The transactions that a new plan makes due: those of the epoch, and     *)
(* those that aborted in the epoch before.                                 *)
LEMMA TodoOfPlan ==
  ASSUME IInv
  PROVE  {Origin(tid) : tid \in {s \in Tids : Included(s)}}
           = Owed!TxnsOf(epoch) \cup {x \in AllTxns : x[1] = epoch - 1 /\ abort[x]}
<1> DEFINE Due == {Origin(tid) : tid \in {s \in Tids : Included(s)}}
           Own == {<<epoch, t>> : t \in Txns}
           Again == {x \in AllTxns : x[1] = epoch - 1 /\ abort[x]}
<1>1. epoch \in 1 .. MaxEpoch /\ epoch \in Nat
  BY MicroAssumption, SMT DEF IInv, TypeOK
<1>2. ASSUME NEW tid \in Tids, Included(tid)
      PROVE  Origin(tid) \in Own \cup Again
  <2>1. CASE ~ IsPrev(tid)
    BY <2>1, <1>1, Origins, Threads, Zenon
  <2>2. CASE IsPrev(tid)
    <3>1. Origin(tid) = <<epoch - 1, InEpoch(tid)>> /\ Origin(tid) \in AllTxns
      BY <1>1, <1>2, <2>2, Origins, IncludedThreads, Zenon DEF IInv
    <3>2. Origin(tid)[1] = epoch - 1
      BY <3>1
    <3>3. abort[Origin(tid)]
      BY <1>2, <2>2, IncludedThreads, Zenon DEF IInv
    <3>4. QED
      BY <3>1, <3>2, <3>3, Zenon
  <2>3. QED
    BY <2>1, <2>2, Zenon
<1>3. ASSUME NEW t \in Txns
      PROVE  <<epoch, t>> \in Due
  <2>1. t + NumTxns \in Tids /\ Included(t + NumTxns) /\ InEpoch(t + NumTxns) = t
        /\ ~ IsPrev(t + NumTxns)
    BY TidsOfTxns, Zenon DEF Included
  <2>2. Origin(t + NumTxns) = <<epoch, t>>
    BY <2>1, <1>1, Origins, Zenon
  <2>3. QED
    BY <2>1, <2>2
<1>4. ASSUME NEW x \in Again
      PROVE  x \in Due
  <2>1. /\ x[1] \in 1 .. MaxEpoch /\ x[2] \in Txns /\ x = <<x[1], x[2]>>
        /\ x[1] = epoch - 1 /\ abort[x]
    BY DEF AllTxns
  <2>2. epoch > 1
    BY <2>1, <1>1, MicroAssumption, SMT
  <2>3. x[2] \in Tids /\ IsPrev(x[2])
    BY <2>1, TidsOfTxns, Zenon
  <2>4. Origin(x[2]) = x
    BY <2>1, <2>3, Zenon DEF Origin
  <2>5. Included(x[2])
    BY <2>1, <2>2, <2>3, <2>4, IncludedThreads, Zenon DEF IInv
  <2>6. QED
    BY <2>3, <2>4, <2>5, Zenon
<1>5. Due = Own \cup Again
  <2>1. \A x \in Due : x \in Own \cup Again
    BY <1>2, Zenon
  <2>2. \A x \in Own : x \in Due
    BY <1>3, Zenon
  <2> HIDE DEF Due, Own, Again
  <2>3. QED
    BY <2>1, <2>2, <1>4, Zenon
<1>6. QED
  BY <1>5, SameTxns, Zenon

(* What RetryQueue sees of a state.                                        *)
SeenEpoch == IF Ready THEN epoch ELSE epoch - 1
SeenTodo == IF Ready THEN Todo ELSE {}

LEMMA OwedInit ==
  ASSUME Init
  PROVE  Owed!Init
<1>1. SeenEpoch = 0 /\ SeenTodo = {}
  BY SMT DEF Init, SeenEpoch, SeenTodo, Ready
<1>2. abort \in [AllTxns -> BOOLEAN] /\ times = [x \in AllTxns |-> 0]
  BY Zenon DEF Init
<1>3. QED
  BY <1>1, <1>2, SameTxns DEF Owed!Init, SeenEpoch, SeenTodo, Todo

(* Where neither what is seen of the epoch nor the queue changes.          *)
LEMMA OwedStutter ==
  ASSUME UNCHANGED <<abort, SeenEpoch, SeenTodo, times>>
  PROVE  UNCHANGED Owed!queueVars
BY DEF Owed!queueVars, SeenEpoch, SeenTodo, Todo

LEMMA OwedBegin ==
  ASSUME IInv, InitializePlan
  PROVE  Owed!Begin
<1>1. /\ ~ Ready /\ Ready' /\ waiting' = Tids /\ epoch' = epoch
      /\ UNCHANGED <<abort, retry, times>>
      /\ epoch \in 1 .. MaxEpoch /\ MaxEpoch \in Nat
  BY MicroAssumption DEF InitializePlan, Ready, IInv, TypeOK
<1>2. SeenEpoch = epoch - 1 /\ SeenTodo = {} /\ SeenEpoch' = epoch /\ SeenTodo' = Todo'
  BY <1>1, Zenon DEF SeenEpoch, SeenTodo
<1>3. SeenEpoch < MaxEpoch /\ SeenEpoch' = SeenEpoch + 1
  BY <1>1, <1>2, SMT
<1>4. SeenTodo' = Owed!TxnsOf(SeenEpoch + 1)
                    \cup {x \in Owed!AllTxns : x[1] = SeenEpoch /\ abort[x]}
  <2>1. \A u : Origin(u)' = Origin(u) /\ (Included(u)' <=> Included(u))
    BY <1>1, SameEpoch, Zenon
  <2>2. Todo' = {Origin(tid) : tid \in {s \in Tids : Included(s)}}
    BY <2>1, <1>1 DEF Todo
  <2>3. SeenEpoch + 1 = epoch
    BY <1>2, <1>3, Zenon
  <2>4. QED
    BY <2>2, <2>3, <1>2, TodoOfPlan, SameTxns, Zenon
<1>5. QED
  BY <1>1, <1>2, <1>3, <1>4 DEF Owed!Begin, SeenEpoch, SeenTodo, Todo

LEMMA OwedRun ==
  ASSUME IInv, NEW tid \in Tids, RunWarp(tid)
  PROVE  Owed!Run \/ UNCHANGED Owed!queueVars
<1>1. /\ Ready /\ Ready' /\ pc = "execute" /\ tid \in waiting /\ waiting' = waiting \ {tid}
      /\ UNCHANGED <<abort, epoch, param>> /\ waiting \subseteq Tids
      /\ epoch \in 1 .. MaxEpoch /\ epoch \in Nat
  BY MicroAssumption DEF RunWarp, Ready, IInv, TypeOK
<1>2. \A u : Origin(u)' = Origin(u)
  BY <1>1, SameEpoch, Zenon
<1>3. \A u : Included(u)' <=> Included(u)
  <2>1. retry'[Prev] = retry[Prev]
    <3>1. Curr # Prev /\ Prev \in 0 .. 1
      BY <1>1, TwoSets, Zenon
    <3>2. retry \in [0 .. 1 -> [Txns -> BOOLEAN]]
      BY Zenon DEF IInv, TypeOK
    <3>3. CASE ~ Included(tid) \/ IsPrev(tid)
      BY <3>3, Zenon DEF RunWarp, Flags
    <3>4. CASE Included(tid) /\ ~ IsPrev(tid)
      <4> DEFINE flag == abort[param[Curr][InEpoch(tid)]]
      <4>1. retry' = [retry EXCEPT ![Curr][InEpoch(tid)] = flag]
        BY <3>4, Zenon DEF RunWarp, Flags
      <4> HIDE DEF flag
      <4>2. QED
        BY <3>1, <3>2, <4>1
    <3>5. QED
      BY <3>3, <3>4, Zenon
  <2>2. Prev' = Prev
    BY <1>1, SameEpoch, Zenon
  <2>3. QED
    BY <2>1, <2>2, Zenon DEF Included
<1>4. Todo' = {Origin(u) : u \in {s \in waiting \ {tid} : Included(s)}}
  BY <1>1, <1>2, <1>3 DEF Todo
<1>5. SeenEpoch' = SeenEpoch /\ SeenTodo = Todo /\ SeenTodo' = Todo'
  BY <1>1, Zenon DEF SeenEpoch, SeenTodo
<1>6. CASE Included(tid)
  <2> DEFINE x == Origin(tid)
  <2>1. x \in Todo
    BY <1>1, <1>6 DEF Todo
  <2>2. Todo' = Todo \ {x}
    <3>1. \A u \in waiting : Origin(u) = x => u = tid
      BY <1>1, Origins, Zenon
    <3> HIDE DEF x
    <3>2. QED
      BY <3>1, <1>4 DEF Todo, x
  <2>3. times' = [times EXCEPT ![x] = @ + 1]
    <3>1. param[SetOf(tid)][InEpoch(tid)] = x
      BY <1>1, <1>6, ParamsOfThreads DEF IInv
    <3>2. QED
      BY <3>1, <1>6, Zenon DEF RunWarp
  <2> HIDE DEF x
  <2>4. Owed!Run
    BY <1>1, <1>5, <2>1, <2>2, <2>3 DEF Owed!Run, SeenEpoch, SeenTodo, Todo
  <2>5. QED
    BY <2>4, Zenon
<1>7. CASE ~ Included(tid)
  <2>1. Todo' = Todo
    BY <1>4, <1>7 DEF Todo
  <2>2. times' = times
    BY <1>7, Zenon DEF RunWarp
  <2>3. QED
    BY <1>1, <1>5, <2>1, <2>2, OwedStutter, Zenon
<1>8. QED
  BY <1>6, <1>7, Zenon

LEMMA OwedOthers ==
  ASSUME IInv, Transfer \/ IndexTxns \/ Submit \/ EndEpoch \/ UNCHANGED vars
  PROVE  UNCHANGED Owed!queueVars
<1>1. CASE Transfer \/ IndexTxns \/ Submit
  <2>1. ~ Ready /\ ~ Ready' /\ UNCHANGED <<abort, epoch, times>>
    BY <1>1 DEF Transfer, IndexTxns, Submit, Ready
  <2>2. QED
    BY <2>1, OwedStutter, Zenon DEF SeenEpoch, SeenTodo
<1>2. CASE EndEpoch
  <2>1. Ready /\ waiting = {} /\ waiting' = {} /\ UNCHANGED <<abort, times>> /\ epoch \in Nat
    BY <1>2, MicroAssumption, SMT DEF EndEpoch, Ready, IInv, TypeOK
  <2>2. Todo = {} /\ Todo' = {}
    BY <2>1 DEF Todo
  <2>3. SeenTodo = {} /\ SeenTodo' = {}
    BY <2>2, Zenon DEF SeenTodo
  <2>4. SeenEpoch' = SeenEpoch
    BY <1>2, <2>1, SMT DEF EndEpoch, Ready, SeenEpoch
  <2>5. QED
    BY <2>1, <2>3, <2>4, OwedStutter, Zenon
<1>3. CASE UNCHANGED vars
  <2>1. UNCHANGED <<abort, epoch, pc, retry, waiting, times>>
    BY <1>3 DEF vars
  <2>2. \A u : Origin(u)' = Origin(u) /\ (Included(u)' <=> Included(u))
    BY <2>1, SameEpoch, Zenon
  <2>3. Todo' = Todo /\ (Ready' <=> Ready)
    BY <2>1, <2>2 DEF Todo, Ready
  <2>4. QED
    BY <2>1, <2>3, OwedStutter, Zenon DEF SeenEpoch, SeenTodo
<1>4. QED
  BY <1>1, <1>2, <1>3, Zenon

(* No aborted transaction is lost, retried late or retried twice, and none *)
(* that committed runs again: the epochs take from RetryQueue's queue.     *)
THEOREM Refinement == Spec => KeepsRetryQueue
<1>1. Init => Owed!Init
  BY OwedInit
<1>2. IInv /\ [Next]_vars => [Owed!Next]_(Owed!queueVars)
  BY OwedBegin, OwedRun, OwedOthers, Zenon DEF Next, Owed!Next
<1>3. QED
  BY <1>1, <1>2, Invariance, PTL DEF Spec, KeepsRetryQueue, Owed!SafetySpec
=============================================================================
